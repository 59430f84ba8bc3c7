------------------------------ MODULE Session -------------------------------
(***************************************************************************)
(* One chat session and everything that drives it: the user, the SDK       *)
(* query, the retry timer, the stall watchdog, the status page, account    *)
(* switches made for other sessions, deletion, and the daemon's shutdown,  *)
(* crash and start.  One action is one handler of the daemon's event loop. *)
(***************************************************************************)
EXTENDS SessionOps

CONSTANTS
    MaxRestarts,    \* bound: how often the daemon stops
    RetryCap,       \* bound: consecutiveRetries an expired login may add to
    Deletes         \* whether the user ever deletes the session

ASSUME SessionAssumption ==
    /\ MaxRestarts \in Nat
    /\ RetryCap \in Nat
    /\ Deletes \in BOOLEAN

VARIABLES
    s,          \* the DaemonSession and its pending-turn file
    daemon,     \* "up", "closing" (SIGTERM handled, not yet exited), "down"
    life,       \* "live", or "deleted" once it has left the registry
    restarts,   \* how often the daemon has stopped
    revived,    \* history: the session started a query after its teardown
    orphans     \* how CLI processes came to outlive the daemon that stopped last

vars == <<s, daemon, life, restarts, revived, orphans>>

-----------------------------------------------------------------------------

Init ==
    /\ s = NewSession(NoTurn, [q \in QueryIds |-> "none"])
    /\ daemon = "up"
    /\ life = "live"
    /\ restarts = 0
    /\ revived = FALSE
    /\ orphans = {}

(* A session is torn down when the daemon shuts down, or by its deletion.  *)
TornDown == daemon = "closing" \/ life = "deleted"

(* A handler of the running process changes the session only. *)
Handler(t) ==
    /\ s' = t
    /\ revived' = (revived \/ (TornDown /\ s.activeQuery = NoQuery /\ t.activeQuery # NoQuery))
    /\ UNCHANGED <<daemon, life, restarts, orphans>>

(* The process runs handlers until it exits; requests on connections that  *)
(* were open when SIGTERM came are still answered.                         *)
Running == daemon \in {"up", "closing"}

(* getSession finds the session. *)
Reachable == Running /\ life = "live"

(* activateAccount reaches the sessions of the daemon's map: a deleted one *)
(* that is still running starts a switch without being cut off by it.      *)
Moves == IF life = "live" THEN BOOLEAN ELSE {FALSE}

-----------------------------------------------------------------------------
(* Requests                                                                *)

UserSends ==
    /\ Reachable
    /\ \E bin \in BOOLEAN, q \in FreeQueries(s) : Handler(SendMessage(s, bin, q))

UserInterrupts ==
    /\ Reachable
    /\ Handler(Interrupt(s))

(* moveTo is refused mid-turn. *)
UserMoves ==
    /\ Reachable
    /\ ~Busy(s)
    /\ Handler(DisposeActiveQuery(s))

(* setAccount: the user picks an account.  Unlike activateAccount it parks *)
(* nothing.                                                                *)
UserSetsAccount ==
    /\ Reachable
    /\ Handler(DisposeActiveQuery(s))

(* Another session was rate limited, lost its login or resumed, or someone *)
(* signed in.                                                              *)
AccountSwitched ==
    /\ Reachable
    /\ Handler(ActivateAccount(s))

(* The session's timers and what it awaits outlive it. *)
UserDeletes ==
    /\ Deletes
    /\ Reachable
    /\ s' = Dispose(s)
    /\ life' = "deleted"
    /\ UNCHANGED <<daemon, restarts, revived, orphans>>

-----------------------------------------------------------------------------
(* Timers                                                                  *)

(* Time passes without a word from the SDK. *)
TimePasses ==
    /\ Running
    /\ \/ s.lastSdkActivityAt = "recent" /\ Handler([s EXCEPT !.lastSdkActivityAt = "quiet"])
       \/ s.lastSdkActivityAt = "quiet"  /\ Handler([s EXCEPT !.lastSdkActivityAt = "silent"])

RetryFires ==
    /\ Running
    /\ s.retryTimer
    /\ \E moved \in Moves, bin \in BOOLEAN, q \in FreeQueries(s) :
          Handler(RunPendingRetry([s EXCEPT !.retryTimer = FALSE], moved, bin, q))

WatchdogFires ==
    /\ Running
    /\ s.stallTimer
    /\ Handler(StallTick(s))

StatusTimerFires ==
    /\ Running
    /\ s.statusTimer
    /\ Handler(StatusTick(s))

StatusPageAnswers ==
    /\ Running
    /\ s.polls > 0
    /\ \/ Handler(PollUnknown(s))
       \/ Handler(PollOpen(s))
       \/ \E moved \in Moves, bin \in BOOLEAN, q \in FreeQueries(s) :
             Handler(PollClear(s, moved, bin, q))

-----------------------------------------------------------------------------
(* The SDK query.  One that was told to close goes on emitting what it had *)
(* in hand until it ends.                                                  *)

Emits(q) == Running /\ s.cli[q] # "none"

(* consume() leaves its loop at the first message of a query that is no    *)
(* longer installed.                                                       *)
QuerySays(q, t) == Emits(q) /\ Handler(IF IsCurrent(s, q) THEN t ELSE Gone(s, q))

(* The CLI of q begins or ends a turn of its main thread. *)
Turn(q, state) == IF s.cli[q] = "closing" THEN s ELSE [s EXCEPT !.cli[q] = state]

SdkSpeaks(q) ==
    \/ QuerySays(q, OnOther(s))
    \/ QuerySays(q, OnAssistant(Turn(q, "talking")))

SdkResult(q) ==
    \/ QuerySays(q, OnAnswer(Turn(q, "open")))
    \/ \E moved \in Moves : QuerySays(q, OnLimited(Turn(q, "open"), moved))
    \/ QuerySays(q, OnOverloaded(Turn(q, "open")))
    \/ /\ s.consecutiveRetries < RetryCap
       /\ QuerySays(q, OnLoginExpired(Turn(q, "open"), life = "live"))

(* The iteration ends, or throws; then the finally clause. *)
QueryFinishes(q, t) ==
    Emits(q) /\ Handler(Gone(IF IsCurrent(s, q) THEN Ended(t, q) ELSE s, q))

SdkStops(q) ==
    \/ QueryFinishes(q, OnEnd(s))
    \/ \E error \in {"overload", "launch", "other"} : QueryFinishes(q, OnThrow(s, error))

-----------------------------------------------------------------------------
(* The daemon's life                                                       *)

(* SIGTERM: queue what is in flight, then tear down the sessions of the    *)
(* daemon's map.  The process lives on for up to SHUTDOWN_GRACE_MS.        *)
Shutdown_NoTeardown ==
    /\ daemon = "up"
    /\ restarts < MaxRestarts
    /\ daemon' = "closing"
    /\ s' = IF life = "live" THEN ParkForRestart(s) ELSE s
    /\ UNCHANGED <<life, restarts, revived, orphans>>

Shutdown ==
    /\ daemon = "up"
    /\ restarts < MaxRestarts
    /\ daemon' = "closing"
    /\ s' = IF life = "live" THEN Dispose(ParkForRestart(s)) ELSE s
    /\ UNCHANGED <<life, restarts, revived, orphans>>

(* The process is gone.  A CLI that it had told to close ends by itself;   *)
(* one that it had not goes on, in nobody's hands.  The ids of the CLIs    *)
(* are free for the next daemon, which knows nothing of these.             *)
Stop(file, cause) ==
    /\ daemon' = "down"
    /\ restarts' = restarts + 1
    /\ s' = NewSession(file, [q \in QueryIds |-> "none"])
    /\ orphans' = {cause : q \in {q \in QueryIds : s.cli[q] \in {"open", "talking"}}}
    /\ UNCHANGED <<life, revived>>

Exit ==
    /\ daemon = "closing"
    /\ Stop(s.file, IF revived THEN "revived" ELSE "shutdown")

(* The socket watch finds another daemon's socket at its path, and the     *)
(* process exits without a teardown.                                       *)
StandDown ==
    /\ daemon = "up"
    /\ restarts < MaxRestarts
    /\ Stop(s.file, "abrupt")

(* SIGKILL or a power cut.  A turn that was being written to disk leaves   *)
(* half a file; only a session at work, or with a query, writes one.       *)
Crash ==
    /\ Running
    /\ restarts < MaxRestarts
    /\ \/ Stop(s.file, "abrupt")
       \/ (Busy(s) \/ s.activeQuery # NoQuery) /\ Stop(TornFile, "abrupt")

(* start(): sessions with a pending-turn file are restored; a file whose   *)
(* session is not in the registry is removed.                              *)
Boot ==
    /\ daemon = "down"
    /\ daemon' = "up"
    /\ s' = IF s.file = NoTurn THEN s
            ELSE IF life = "deleted" THEN ClearPersistedPending(s)
            ELSE RestorePending(s)
    /\ revived' = FALSE
    /\ orphans' = {}
    /\ UNCHANGED <<life, restarts>>

-----------------------------------------------------------------------------

User  == UserSends \/ UserInterrupts \/ UserMoves \/ UserSetsAccount \/ UserDeletes

Timer == TimePasses \/ RetryFires \/ WatchdogFires \/ StatusTimerFires \/ StatusPageAnswers

Sdk   == \E q \in QueryIds : SdkSpeaks(q) \/ SdkResult(q) \/ SdkStops(q)

Life  == Shutdown \/ Exit \/ StandDown \/ Crash \/ Boot

Next == User \/ AccountSwitched \/ Timer \/ Sdk \/ Life

Spec == Init /\ [][Next]_vars

(* What the event loop and the operating system do sooner or later: timers *)
(* fire, a request is answered, a process told to stop exits, a closed CLI *)
(* drains, and a client that finds no daemon starts one.  Nothing is       *)
(* assumed of the user or of what the SDK says.                            *)
Fairness ==
    /\ WF_vars(TimePasses)
    /\ WF_vars(RetryFires)
    /\ WF_vars(WatchdogFires)
    /\ WF_vars(StatusTimerFires)
    /\ WF_vars(StatusPageAnswers)
    /\ \A q \in QueryIds : WF_vars(s.cli[q] = "closing" /\ SdkStops(q))
    /\ WF_vars(Exit)
    /\ WF_vars(Boot)

FairSpec == Spec /\ Fairness

-----------------------------------------------------------------------------
(* Properties                                                              *)

TypeOK ==
    /\ s \in Session
    /\ daemon \in {"up", "closing", "down"}
    /\ life \in {"live", "deleted"}
    /\ restarts \in Nat
    /\ revived \in BOOLEAN
    /\ orphans \subseteq {"abrupt", "revived", "shutdown"}

InCharge == daemon = "up" /\ life = "live"

(* The pending-turn file says what the session holds, at every moment the  *)
(* event loop is free: a crash loses no parked turn, and no cancelled or   *)
(* finished one comes back after a restart ("stop" must mean stop).        *)
FileMatchesPending == Running => s.file = s.pending

(* A parked turn has a timer that will send it, through every path that    *)
(* parks, re-parks, supersedes or restores one: nothing else in the daemon *)
(* would ever look at it again.                                            *)
ParkedHasTimer == InCharge /\ s.pending # NoTurn => s.retryTimer

(* The automatic resends of a turn that keeps failing are bounded, however *)
(* stalls, limits, overloads, account switches and user stops interleave:  *)
(* the defect this counter was introduced for was an endless "retry #1".   *)
ResendsBounded == s.resends <= MAX_OVERLOAD_ATTEMPTS

(* A CLI process that nobody told to close is the one the session talks    *)
(* to: no switch, stall, retry or teardown leaves one running behind.  And *)
(* a daemon that is told to stop leaves none behind when it exits, unless  *)
(* the session began a query after its teardown.  (One that crashes, or    *)
(* that stands down for another daemon, does leave its CLI behind.)        *)
NoOrphanCli ==
    /\ \A q \in QueryIds : s.cli[q] \in {"open", "talking"} => q = s.activeQuery
    /\ "shutdown" \notin orphans

(* While the installed query's main thread is in the middle of a turn the  *)
(* session is not shown idle, whatever a replaced query still has to say.  *)
SpeakingIsNotIdle ==
    \A q \in QueryIds : s.activeQuery = q /\ s.cli[q] = "talking" => s.status # "idle"

(* A session shown as running with neither a watchdog nor a queued retry   *)
(* behind it has told the user so: its last word is that the retry was     *)
(* cancelled or given up.                                                  *)
HangIsAnnounced ==
    InCharge /\ s.status = "running" /\ ~s.stallTimer /\ s.pending = NoTurn
        => s.notice \notin {"none", "parked"}

(* The parts of the inductive invariant, as predicates of a session, so    *)
(* that what each operation preserves can be said of the operation alone.  *)

(* Every resend was paid for with an attempt. *)
ResendsPaid(t) ==
    /\ t.resends <= t.consecutiveRetries
    /\ t.resends <= MAX_OVERLOAD_ATTEMPTS
    /\ t.parkedBy \in Causes => t.resends < t.consecutiveRetries
                              /\ t.resends < MAX_OVERLOAD_ATTEMPTS
    /\ t.pending = NoTurn => t.parkedBy = "nobody"

CliOwned(t) ==
    \A q \in QueryIds : t.cli[q] \in {"open", "talking"} => q = t.activeQuery

NotIdleWhileTalking(t) ==
    \A q \in QueryIds : t.activeQuery = q /\ t.cli[q] = "talking" => t.status # "idle"

Timed(t) == t.pending # NoTurn => t.retryTimer

Announced(t) ==
    t.status = "running" /\ ~t.stallTimer /\ t.pending = NoTurn
        => t.notice \notin {"none", "parked"}

Sound(t) == t \in Session /\ ResendsPaid(t) /\ CliOwned(t) /\ NotIdleWhileTalking(t)

(* The inductive invariant: TypeOK and the six properties above, together  *)
(* with what makes them inductive - a resend is always covered by the      *)
(* attempts counted, a session that was torn down has no query unless it   *)
(* was revived, and a stopped daemon leaves a blank session behind.        *)
IInv ==
    /\ TypeOK
    /\ Sound(s)
    /\ Running => s.file = s.pending
    /\ InCharge => Timed(s) /\ Announced(s)
    /\ Running /\ TornDown /\ ~revived => s.activeQuery = NoQuery
    /\ "shutdown" \notin orphans
    /\ daemon = "down" => s = NewSession(s.file, [q \in QueryIds |-> "none"])

(* A parked turn does not stay parked: it is sent, superseded or given up, *)
(* in this daemon or in one that restores it after a shutdown or a crash,  *)
(* unless its session is deleted.                                          *)
ParkedTurnIsSettled == (life = "live" /\ s.file \in Nat) ~> (s.file = NoTurn \/ life # "live")

(* A running turn that has been silent for STALL_MS does not stay so: it   *)
(* speaks, ends, is parked, or its retries are given up aloud.             *)
SilentTurn ==
    /\ InCharge /\ s.status = "running" /\ s.lastSdkActivityAt = "silent"
    /\ s.pending = NoTurn /\ s.notice \in {"none", "parked"}

SilentTurnIsNoticed == SilentTurn ~> ~SilentTurn

(* The status page is asked only on behalf of a parked turn: a watch whose *)
(* turn is gone ends.                                                      *)
IdleWatch == Running /\ s.statusTimer /\ s.pending = NoTurn

StatusWatchEnds == IdleWatch ~> ~IdleWatch

-----------------------------------------------------------------------------
(* A statement of the code's comments that its behaviour does not bear out *)

(* dispose(): "Full teardown".  A deleted session runs nothing. *)
DeletedStaysDown == life = "deleted" => s.activeQuery = NoQuery
=============================================================================
