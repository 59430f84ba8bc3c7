------------------------------ MODULE Upgrade -------------------------------
(***************************************************************************)
(* Windows of different builds around one daemon (connect, verifyProtocol  *)
(* and stalenessOf of extension/src/daemonClient.ts, the reconnect of      *)
(* extension.ts).  A window starts a daemon of its own build when none     *)
(* listens, refuses one that is newer than it can speak to, and replaces   *)
(* one of an older protocol or of a build that is gone from disk.          *)
(*                                                                         *)
(* stalenessOf also knows an older build of the same protocol, which       *)
(* deferUpgrade replaces when no session is running.  It compares versions *)
(* that a daemon takes from CLAUDE_PERSIST_VERSION, and spawnDaemon passes *)
(* none: hello answers null, and a window finds nothing wrong.             *)
(*                                                                         *)
(* Which of two daemons that start together survives is Ownership's        *)
(* subject; here a window that finds none starts the one there is.         *)
(***************************************************************************)
EXTENDS Integers, FiniteSets

CONSTANTS
    Windows,
    Versions,           \* builds of the extension, in order
    ProtocolOf,         \* the protocol each build speaks
    FirstBuild,         \* the build each window runs at first
    CONNECT_ATTEMPTS,   \* attempts of one connect()
    MaxFailures         \* daemons that exit without being told to

ASSUME UpgradeAssumption ==
    /\ Versions \subseteq Nat \ {0}
    /\ ProtocolOf \in [Versions -> Nat]
    /\ \A u, v \in Versions : u <= v => ProtocolOf[u] <= ProtocolOf[v]
    /\ FirstBuild \in [Windows -> Versions]
    /\ CONNECT_ATTEMPTS \in Nat \ {0}
    /\ MaxFailures \in Nat

NoDaemon == 0

VARIABLES
    installs,   \* builds on disk
    daemon,     \* the build of the daemon that listens, or NoDaemon
    stopping,   \* it has a SIGTERM to handle
    failures,   \* daemons that exited without one
    build,      \* the build a window runs
    phase,      \* where a window is
    tries       \* the loop counter of connect()

upgradeVars == <<installs, daemon, stopping, failures, build, phase, tries>>
daemonVars  == <<daemon, stopping, failures>>

(* "down": nothing scheduled, or not opened yet.  "waiting": the reconnect *)
(* timer runs.  "loop": at an attempt.  "asked": connected, hello sent.    *)
(* "failed": the attempt failed, and the window looks whether anything     *)
(* listens.  "up": connect() has returned.                                 *)
Phases == {"down", "waiting", "loop", "asked", "failed", "up"}

Goto_Upgrade(w, there) == phase' = [phase EXCEPT ![w] = there]

-----------------------------------------------------------------------------
(* daemonClient.ts                                                         *)

Protocol(v) == ProtocolOf[v]

StalenessOf_AnyMismatch(w) ==
    IF Protocol(daemon) # Protocol(build[w]) \/ daemon \notin installs THEN "urgent" ELSE "fine"

StalenessOf_OnlyRefuses(w) ==
    IF Protocol(daemon) # Protocol(build[w]) THEN "too new"
    ELSE IF daemon \notin installs THEN "urgent"
    ELSE "fine"

(* stalenessOf, with verifyProtocol's "newest wins" on protocols. *)
StalenessOf(w) ==
    IF Protocol(daemon) > Protocol(build[w]) THEN "too new"
    ELSE IF Protocol(daemon) < Protocol(build[w]) \/ daemon \notin installs THEN "urgent"
    ELSE "fine"

UpgradeInit ==
    /\ installs = {FirstBuild[w] : w \in Windows}
    /\ daemon = NoDaemon
    /\ stopping = FALSE
    /\ failures = 0
    /\ build = FirstBuild
    /\ phase = [w \in Windows |-> "down"]
    /\ tries = [w \in Windows |-> 1]

(* connect() throws.  What fails in the background is tried again;         *)
(* activate() only reports.                                                *)
GiveUp(w) == \E there \in {"waiting", "down"} : Goto_Upgrade(w, there)

(* tryConnect: hello goes out, or nothing listens. *)
TryConnect(w) ==
    /\ phase[w] = "loop"
    /\ Goto_Upgrade(w, IF daemon = NoDaemon THEN "failed" ELSE "asked")
    /\ UNCHANGED <<installs, daemonVars, build, tries>>

(* verifyProtocol: the answer is judged and, for an urgent reason, the     *)
(* daemon told to stop.                                                    *)
Hello(w) ==
    /\ phase[w] = "asked"
    /\ \/ StalenessOf(w) = "fine" /\ Goto_Upgrade(w, "up") /\ UNCHANGED stopping
       \/ StalenessOf(w) = "urgent" /\ Goto_Upgrade(w, "failed") /\ stopping' = TRUE
       \/ StalenessOf(w) = "too new" /\ GiveUp(w) /\ UNCHANGED stopping
    /\ UNCHANGED <<installs, daemon, failures, build, tries>>

(* After an attempt that failed: where nothing is listening a daemon is    *)
(* spawned, if its entry is on disk, and there is another attempt or none. *)
Respawn(w) ==
    /\ phase[w] = "failed"
    /\ daemon' = IF daemon = NoDaemon /\ build[w] \in installs THEN build[w] ELSE daemon
    /\ IF tries[w] < CONNECT_ATTEMPTS
       THEN tries' = [tries EXCEPT ![w] = @ + 1] /\ Goto_Upgrade(w, "loop")
       ELSE tries' = tries /\ GiveUp(w)
    /\ UNCHANGED <<installs, stopping, failures, build>>

(* activate(), scheduleReconnect's timer or a command of the user starts   *)
(* connect().                                                              *)
Reconnect(w) ==
    /\ phase[w] \in {"waiting", "down"}
    /\ tries' = [tries EXCEPT ![w] = 1]
    /\ Goto_Upgrade(w, "loop")
    /\ UNCHANGED <<installs, daemonVars, build>>

-----------------------------------------------------------------------------
(* The daemon, the user and the editor                                     *)

(* The daemon exits, told to or not.  onGone: a window that was connected  *)
(* schedules a reconnect, and the attempt of one that had asked fails.     *)
DaemonExits ==
    /\ daemon # NoDaemon
    /\ daemon' = NoDaemon
    /\ stopping' = FALSE
    /\ IF stopping THEN failures' = failures
       ELSE failures < MaxFailures /\ failures' = failures + 1
    /\ phase' = [w \in Windows |-> IF phase[w] = "up" THEN "waiting"
                                   ELSE IF phase[w] = "asked" THEN "failed"
                                   ELSE phase[w]]
    /\ UNCHANGED <<installs, build, tries>>

(* The editor installs a build beside the others, and deletes old ones. *)
Install ==
    /\ \E v \in Versions \ installs : (\A u \in installs : u < v) /\ installs' = installs \cup {v}
    /\ UNCHANGED <<daemonVars, build, phase, tries>>

Uninstall ==
    /\ \E v \in installs : (\E u \in installs : u > v) /\ installs' = installs \ {v}
    /\ UNCHANGED <<daemonVars, build, phase, tries>>

(* The user reloads a window, which then runs the newest build on disk. *)
ReloadWindow(w) ==
    /\ \E v \in installs : (\A u \in installs : u <= v) /\ v > build[w]
                            /\ build' = [build EXCEPT ![w] = v]
    /\ Goto_Upgrade(w, "loop")
    /\ tries' = [tries EXCEPT ![w] = 1]
    /\ UNCHANGED <<installs, daemonVars>>

WindowStep(w) == TryConnect(w) \/ Hello(w) \/ Respawn(w)

UpgradeNext ==
    \/ \E w \in Windows : WindowStep(w) \/ Reconnect(w) \/ ReloadWindow(w)
    \/ DaemonExits
    \/ Install \/ Uninstall

(* Windows take their steps and their timers fire; a daemon that was told  *)
(* to stop stops.  A window at its attempts looks every 250 ms whether a   *)
(* daemon listens, and one that lost its daemon waits a second before it   *)
(* looks, so the first does not miss every moment in which none does: its  *)
(* steps in such a moment are strongly fair.  The forty attempts outlast a *)
(* shutdown, so a daemon does not stop only after they are over, each      *)
(* time.  Nothing is assumed of users, or of a window that is "down".      *)
UpgradeFairness ==
    /\ \A w \in Windows :
        /\ WF_upgradeVars(WindowStep(w))
        /\ WF_upgradeVars(phase[w] = "waiting" /\ Reconnect(w))
        /\ SF_upgradeVars(daemon = NoDaemon /\ TryConnect(w))
        /\ SF_upgradeVars(daemon = NoDaemon /\ Respawn(w))
        /\ SF_upgradeVars(stopping /\ phase[w] \in {"loop", "asked", "failed"} /\ DaemonExits)
    /\ WF_upgradeVars(stopping /\ DaemonExits)

UpgradeSpec == UpgradeInit /\ [][UpgradeNext]_upgradeVars /\ UpgradeFairness

-----------------------------------------------------------------------------
(* Properties                                                              *)

UpgradeTypeOK ==
    /\ installs \subseteq Versions
    /\ daemon \in Versions \cup {NoDaemon}
    /\ stopping \in BOOLEAN
    /\ failures \in 0..MaxFailures
    /\ build \in [Windows -> Versions]
    /\ phase \in [Windows -> Phases]
    /\ tries \in [Windows -> 1..CONNECT_ATTEMPTS]

(* A window that is connected can speak to the daemon that is there now,   *)
(* whichever others replaced it since and whatever they were reloaded to.  *)
SettledIsUsable ==
    \A w \in Windows :
        phase[w] = "up" => daemon # NoDaemon /\ Protocol(daemon) = Protocol(build[w])

(* "Killing on ANY mismatch made two windows on different extension        *)
(* versions murder each other's daemon": one is told to stop only if some  *)
(* window speaks a newer protocol, or its own code is gone from disk, so   *)
(* no window is left without a daemon that was of use to all.              *)
OnlyUselessIsStopped ==
    stopping => \/ daemon \notin installs
                \/ \E w \in Windows : Protocol(build[w]) > Protocol(daemon)

(* Together: upgrades neither take a daemon that is good for every window, *)
(* nor leave a window with one that it cannot use.                         *)
UpgradeIsCareful == SettledIsUsable /\ OnlyUselessIsStopped

(* A window that keeps trying, has its build on disk and speaks the newest *)
(* protocol of all windows. *)
Leads(w) ==
    /\ phase[w] # "down" /\ build[w] \in installs
    /\ \A v \in Windows : Protocol(build[v]) <= Protocol(build[w])

(* "Newest wins": the windows do not replace each other's daemon for ever. *)
(* Once daemons stop failing and windows stop being reloaded, each window  *)
(* of the newest protocol gets a connection that lasts.                    *)
ConvergesOnNewest == \A w \in Windows : <>[]Leads(w) => <>[](phase[w] = "up" /\ ~stopping)

-----------------------------------------------------------------------------
(* A statement of a comment that the code's behaviour does not bear out    *)

(* daemonClient.ts: "Older loses, so this converges on the newest build":  *)
(* a window that keeps trying is not served by an older build for ever.    *)
OlderLoses ==
    \A w \in Windows :
        <>[](phase[w] # "down" /\ build[w] \in installs)
            => []<>(daemon = NoDaemon \/ daemon >= build[w])
=============================================================================
