------------------------------ MODULE Registry ------------------------------
(***************************************************************************)
(* The list of sessions and its file (daemon/src/registry.ts), with the    *)
(* operations that change it: create, touch and rename, delete, and the    *)
(* import of a Claude Code transcript (importer.ts), which saves twice and *)
(* then writes the session's log.  Each request runs to its end before the *)
(* next, but the daemon can die between any two writes to the disk.        *)
(***************************************************************************)
EXTENDS Naturals, Sequences

CONSTANTS
    Sids,       \* session ids
    MaxEdits,   \* bound on the changes of one session's entry
    MaxCrashes  \* bound on the deaths of the daemon

ASSUME RegistryAssumption == MaxEdits \in Nat \ {0} /\ MaxCrashes \in Nat

VARIABLES
    sessions,   \* the map in memory
    file,       \* what sessions.json holds: a whole map, nothing, or no JSON
    tmp,        \* what the temporary file holds
    up,         \* the daemon runs
    request,    \* the request being handled, with the steps it has left
    logs,       \* sessions with an imported transcript on disk
    crashes,    \* deaths so far
    may,        \* history: what each entry may be on disk
    imported,   \* history: imports that were answered
    bad         \* history: a damaged file's bytes: "none", "here", "aside", "stuck", "lost"

registryVars == <<sessions, file, tmp, up, request, logs, crashes, may, imported, bad>>

Absent  == [edits |-> 0, linked |-> FALSE]      \* no entry
Entry(n, l) == [edits |-> n, linked |-> l]      \* linked: it has an sdkSessionId
Nothing == [s \in Sids |-> Absent]
Whole(list) == [kind |-> "whole", list |-> list]
NoRegistry  == [kind |-> "none", list |-> Nothing]
Damaged == [kind |-> "damaged", list |-> Nothing]
NoRequest == [op |-> "none", left |-> <<>>]

(* The writes each operation makes, in order: a save is a write and a rename. *)
StepsOf(op) ==
    CASE op = "import" -> <<"write", "rename", "link", "write", "rename", "log">>
      [] op = "delete" -> <<"write", "rename", "unlog">>
      [] OTHER -> <<"write", "rename">>

OnDisk == file.list

RegistryInit ==
    /\ sessions = Nothing /\ file = NoRegistry /\ tmp = NoRegistry
    /\ up = TRUE /\ request = NoRequest
    /\ logs = {} /\ crashes = 0
    /\ may = [s \in Sids |-> {Absent}]
    /\ imported = {} /\ bad = "none"

(* The entry is changed in memory; the disk may come to hold the change. *)
Change(s, entry) ==
    /\ sessions' = [sessions EXCEPT ![s] = entry]
    /\ may' = [may EXCEPT ![s] = @ \cup {entry}]

Begin(op, s) ==
    /\ up /\ request = NoRequest
    /\ IF op \in {"create", "import"}
       THEN sessions[s] = Absent /\ s \notin imported /\ Change(s, Entry(1, FALSE))
       ELSE /\ sessions[s] # Absent /\ sessions[s].edits < MaxEdits
            /\ Change(s, IF op = "delete" THEN Absent
                         ELSE [sessions[s] EXCEPT !.edits = @ + 1])
    /\ request' = [op |-> op, s |-> s, left |-> StepsOf(op)]
    /\ UNCHANGED <<file, tmp, up, logs, crashes, imported, bad>>

Step(name) ==
    /\ request.left # <<>> /\ Head(request.left) = name
    /\ request' = [request EXCEPT !.left = Tail(@)]
    /\ UNCHANGED <<up, crashes, imported>>

(* save: the whole list to a temporary file... *)
WriteNew ==
    /\ Step("write")
    /\ tmp' = Whole(sessions)
    /\ UNCHANGED <<sessions, file, logs, may, bad>>

(* ... that replaces the old one. *)
RenameOver ==
    /\ Step("rename")
    /\ file' = tmp /\ tmp' = NoRegistry
    /\ bad' = IF bad = "here" THEN "lost" ELSE bad
    /\ UNCHANGED <<sessions, logs, may>>

(* importClaudeSession: meta.sdkSessionId. *)
Link ==
    /\ Step("link")
    /\ Change(request.s, [sessions[request.s] EXCEPT !.linked = TRUE])
    /\ UNCHANGED <<file, tmp, logs, bad>>

(* The session's log is written from the transcript, or removed. *)
WriteLog ==
    /\ Step("log")
    /\ logs' = logs \cup {request.s}
    /\ UNCHANGED <<sessions, file, tmp, may, bad>>

RemoveLog ==
    /\ Step("unlog")
    /\ logs' = logs \ {request.s}
    /\ UNCHANGED <<sessions, file, tmp, may, bad>>

AnswerRequest ==
    /\ request # NoRequest /\ request.left = <<>>
    /\ may' = [may EXCEPT ![request.s] = {sessions[request.s]}]
    /\ imported' = IF request.op = "import" THEN imported \cup {request.s} ELSE imported
    /\ request' = NoRequest
    /\ UNCHANGED <<sessions, file, tmp, up, logs, crashes, bad>>

(* The daemon dies, wherever it is. *)
DaemonDies ==
    /\ up /\ crashes < MaxCrashes
    /\ crashes' = crashes + 1
    /\ up' = FALSE /\ request' = NoRequest /\ sessions' = Nothing
    /\ UNCHANGED <<file, tmp, logs, may, imported, bad>>

(* The file is damaged from outside. *)
Damage ==
    /\ ~up /\ file \notin {NoRegistry, Damaged} /\ bad = "none"
    /\ file' = Damaged /\ bad' = "here"
    /\ UNCHANGED <<sessions, tmp, up, request, logs, crashes, may, imported>>

LoadMetas_StartsEmpty(moved) ==
    /\ ~up
    /\ up' = TRUE
    /\ sessions' = OnDisk
    /\ may' = [s \in Sids |-> {sessions'[s]}]
    /\ UNCHANGED <<file, tmp, request, logs, crashes, imported, bad>>

(* load: an unreadable file is moved aside, which may fail, and the list   *)
(* starts empty.                                                           *)
LoadMetas(moved) ==
    /\ ~up
    /\ up' = TRUE
    /\ sessions' = OnDisk
    /\ file' = IF file = Damaged /\ moved THEN NoRegistry ELSE file
    /\ may' = [s \in Sids |-> {sessions'[s]}]
    /\ bad' = IF bad = "here" THEN (IF moved THEN "aside" ELSE "stuck") ELSE bad
    /\ UNCHANGED <<tmp, request, logs, crashes, imported>>

RegistryNext ==
    \/ \E op \in {"create", "edit", "delete", "import"}, s \in Sids : Begin(op, s)
    \/ WriteNew
    \/ RenameOver
    \/ Link
    \/ WriteLog
    \/ RemoveLog
    \/ AnswerRequest
    \/ DaemonDies
    \/ Damage
    \/ \E moved \in BOOLEAN : LoadMetas(moved)

RegistrySpec == RegistryInit /\ [][RegistryNext]_registryVars

-----------------------------------------------------------------------------
(* What was answered survives a crash at any write: the file is always a   *)
(* whole list, each entry as it was last answered for or as the request    *)
(* under way leaves it, and an answered import has its conversation and    *)
(* its log.  A file damaged from outside empties the list, and is itself   *)
(* overwritten only if it could not be moved aside.                        *)
AnsweredIsDurable ==
    /\ bad # "lost"
    /\ bad = "none" =>
        /\ file # Damaged
        /\ \A s \in Sids : OnDisk[s] \in may[s]
        /\ up /\ request = NoRequest => sessions = OnDisk
        /\ \A s \in imported : OnDisk[s] # Absent => OnDisk[s].linked /\ s \in logs
=============================================================================
