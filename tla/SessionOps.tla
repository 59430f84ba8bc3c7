----------------------------- MODULE SessionOps -----------------------------
(***************************************************************************)
(* The operations of one DaemonSession (daemon/src/session.ts) as          *)
(* operators from the session's state to its state.                        *)
(*                                                                         *)
(* The daemon is one JavaScript thread: a handler runs to its end, or to   *)
(* its next await, with nothing in between, and handlers call each other   *)
(* synchronously (a rate limit calls back into the daemon, which parks and *)
(* disposes every session, the refused one included, before the caller     *)
(* goes on).  So a method is an operator, and a call is composition.       *)
(*                                                                         *)
(* Time is abstracted: a timer that is armed may fire at any moment, and   *)
(* the age of the last SDK message is one of four ages.                    *)
(***************************************************************************)
EXTENDS Integers, FiniteSets

CONSTANTS
    MAX_ATTEMPTS,           \* retries of a limited or stalled turn
    MAX_OVERLOAD_ATTEMPTS,  \* retries of an overloaded turn
    MAX_LAUNCH_ATTEMPTS,    \* retries of a binary that did not start
    QueryIds,               \* the SDK queries that can exist at one moment
    NoQuery,                \* activeQuery = null
    MaxPolls                \* bound: status-page requests in flight

(* An overload may be retried for longer than anything else: limits.ts     *)
(* gives it 360 attempts and the others 5.                                 *)
ASSUME BudgetAssumption ==
    /\ MAX_ATTEMPTS \in Nat
    /\ MAX_LAUNCH_ATTEMPTS \in Nat
    /\ MAX_OVERLOAD_ATTEMPTS \in Nat
    /\ MAX_ATTEMPTS <= MAX_OVERLOAD_ATTEMPTS
    /\ MAX_LAUNCH_ATTEMPTS <= MAX_OVERLOAD_ATTEMPTS
    /\ MaxPolls \in Nat

ASSUME QueryAssumption == NoQuery \notin QueryIds

-----------------------------------------------------------------------------
(* Values                                                                  *)

(* `pending` and the pending-turn file are the attempt number of the       *)
(* parked turn (PendingTurn.attempts), or one of these.                    *)
NoTurn   == -1      \* pending = null; no file
TornFile == -2      \* a file the daemon died while writing

(* Why parkForLimit was called: opts.stalled, opts.overloaded,             *)
(* opts.launchFailed, or none of them.                                     *)
Causes == {"limit", "stall", "overload", "launch"}

(* What queued the turn that is pending. *)
Parkers == Causes \cup {"auth", "switch", "restart", "restored", "nobody"}

(* The age of lastSdkActivityAt: 0; under AGENT_ACTIVE_MS (45 s); under    *)
(* STALL_MS (20 min); or more.                                             *)
Ages == {"never", "recent", "quiet", "silent"}

(* The latest notice in the panel about the fate of a turn. *)
Notices == {"none", "parked", "cancelled", "givenUp"}

(* A query's CLI process: not there; running; running with its main thread *)
(* in the middle of a turn; or told to close and still draining the        *)
(* messages it had in hand.                                                *)
CliStates == {"none", "open", "talking", "closing"}

Session ==
    [ status             : {"idle", "running", "error"},
      pending            : Nat \cup {NoTurn},
      parkedBy           : Parkers,          \* history: which path set pending
      file               : Nat \cup {NoTurn, TornFile},
      retryTimer         : BOOLEAN,
      statusTimer        : BOOLEAN,
      namedIncident      : BOOLEAN,
      polls              : 0..MaxPolls,      \* fetchOpenIncidents() awaited
      consecutiveRetries : Nat,
      resends            : Nat,              \* history: see RunPendingRetry
      stallTimer         : BOOLEAN,
      lastSdkActivityAt  : Ages,
      activeQuery        : QueryIds \cup {NoQuery},
      cli                : [QueryIds -> CliStates],
      notice             : Notices ]

(* A session object just constructed, whatever its pending-turn file holds *)
(* and whichever CLI processes are still around.                           *)
NewSession(file, cli) ==
    [ status |-> "idle", pending |-> NoTurn, parkedBy |-> "nobody",
      file |-> file, retryTimer |-> FALSE, statusTimer |-> FALSE,
      namedIncident |-> FALSE, polls |-> 0,
      consecutiveRetries |-> 0, resends |-> 0, stallTimer |-> FALSE,
      lastSdkActivityAt |-> "never", activeQuery |-> NoQuery, cli |-> cli,
      notice |-> "none" ]

(* An id for the next SDK query. *)
FreeQueries(s) == {q \in QueryIds : s.cli[q] = "none"}

Say(s, said) == [s EXCEPT !.notice = said]

-----------------------------------------------------------------------------
(* Timers and the pending-turn file                                        *)

ArmStallWatchdog(s) == [s EXCEPT !.lastSdkActivityAt = "recent", !.stallTimer = TRUE]

ClearStallWatchdog(s) == [s EXCEPT !.stallTimer = FALSE]

(* `get busy()`.  Subagents are not a term of their own: an agent's        *)
(* lastActivityAt is only ever set while an SDK message is handled, which  *)
(* sets lastSdkActivityAt as well, and both are held against 45 s.         *)
Busy(s) == s.status = "running" \/ s.lastSdkActivityAt = "recent"

ScheduleRetry(s) == [s EXCEPT !.retryTimer = (s.pending # NoTurn)]

StopStatusWatch(s) == [s EXCEPT !.statusTimer = FALSE]

PersistPending(s) == IF s.pending = NoTurn THEN s ELSE [s EXCEPT !.file = s.pending]

ClearPersistedPending(s) == [s EXCEPT !.file = NoTurn]

(* Queue a turn: set `pending` and write it to disk. *)
SetPending(s, attempts, by) ==
    PersistPending([s EXCEPT !.pending = attempts, !.parkedBy = by])

DropPending_MemoryOnly(s) ==
    [s EXCEPT !.pending = NoTurn, !.parkedBy = "nobody"]

DropPending(s) ==
    ClearPersistedPending([s EXCEPT !.pending = NoTurn, !.parkedBy = "nobody"])

-----------------------------------------------------------------------------
(* The live query                                                          *)

CloseQuery(s) ==
    IF s.activeQuery = NoQuery THEN s
    ELSE [s EXCEPT !.cli[s.activeQuery] = "closing"]

DisposeActiveQuery(s) ==
    [CloseQuery(s) EXCEPT !.activeQuery = NoQuery]

(* Full teardown.  Neither `pending` nor the status watch is touched. *)
Dispose(s) ==
    [DisposeActiveQuery(ClearStallWatchdog(s)) EXCEPT !.retryTimer = FALSE]

(* Is there a query to send into once ensureQuery returns?  `bin` says     *)
(* whether claudeExecutable() finds a binary.                              *)
CanQuery(s, bin) == s.activeQuery # NoQuery \/ bin

(* ensureQuery, with q the id of the query it starts if it starts one. *)
EnsureQuery(s, bin, q) ==
    IF s.activeQuery # NoQuery THEN s
    ELSE IF bin
         THEN [s EXCEPT !.activeQuery = q, !.cli[q] = "open"]
         ELSE [s EXCEPT !.status = "idle"]

-----------------------------------------------------------------------------
(* Sending, cancelling, retrying                                           *)

CancelPendingRetry(s) ==
    LET t == [StopStatusWatch(s) EXCEPT !.namedIncident = FALSE, !.retryTimer = FALSE]
    IN  IF t.pending = NoTurn THEN t
        ELSE Say([DropPending(t) EXCEPT !.consecutiveRetries = 0, !.resends = 0],
                 "cancelled")

(* A new message supersedes whatever is parked; then it goes into the live *)
(* query, or into a new one, or nowhere when there is no binary.           *)
SendMessage(s, bin, q) ==
    LET t == IF s.pending # NoTurn THEN CancelPendingRetry(s) ELSE s
        u == EnsureQuery(t, bin, q)
    IN  IF CanQuery(t, bin)
        THEN ArmStallWatchdog([u EXCEPT !.status = "running"])
        ELSE u

(* A turn that an account switch is about to cut off. *)
ParkForAccountSwitch(s) ==
    IF ~Busy(s) \/ s.pending # NoTurn THEN s
    ELSE ScheduleRetry(SetPending(s, 0, "switch"))

(* activateAccount (main.ts), as it meets one session. *)
ActivateAccount(s) == DisposeActiveQuery(ParkForAccountSwitch(s))

(* A queued retry is due.  `moved` says whether beforeRetry changes the    *)
(* account first.  `resends` counts, in the life of one daemon, the turns  *)
(* sent again for a cause of parkForLimit since an answer, a cancellation  *)
(* or a give-up.                                                           *)
RunPendingRetry(s, moved, bin, q) ==
    IF s.pending = NoTurn THEN s
    ELSE LET t == [StopStatusWatch(s) EXCEPT !.namedIncident = FALSE]
             u == IF moved THEN ActivateAccount(t) ELSE t
             v == [DropPending(u) EXCEPT
                     !.resends = IF s.parkedBy \in Causes THEN @ + 1 ELSE @]
         IN  SendMessage(v, bin, q)

(* shutdown(): a turn in flight is queued, but no timer is armed for it. *)
ParkForRestart(s) ==
    IF ~Busy(s) \/ s.pending # NoTurn THEN s ELSE SetPending(s, 0, "restart")

(* Startup, for a session whose pending-turn file exists: re-arm the turn, *)
(* or drop a file that does not parse.                                     *)
RestorePending_NoTimer(s) ==
    IF s.file \notin Nat THEN ClearPersistedPending(s)
    ELSE [s EXCEPT !.pending = s.file, !.parkedBy = "restored",
                   !.consecutiveRetries = s.file, !.status = "running"]

RestorePending(s) ==
    IF s.file \notin Nat THEN ClearPersistedPending(s)
    ELSE ScheduleRetry([s EXCEPT !.pending = s.file,
                                 !.parkedBy = "restored",
                                 !.consecutiveRetries = s.file,
                                 !.status = "running"])

Interrupt(s) == IF s.pending # NoTurn THEN CancelPendingRetry(s) ELSE s

-----------------------------------------------------------------------------
(* Parking a refused turn                                                  *)

MaxAttempts(cause) ==
    CASE cause = "overload" -> MAX_OVERLOAD_ATTEMPTS
      [] cause = "launch"   -> MAX_LAUNCH_ATTEMPTS
      [] OTHER              -> MAX_ATTEMPTS

GiveUp(s) ==
    LET t == [StopStatusWatch(DropPending(s)) EXCEPT
                !.consecutiveRetries = 0, !.resends = 0, !.namedIncident = FALSE]
    IN  Say(t, "givenUp")

(* The first poll of the status page is asked for at once; the interval    *)
(* asks again every minute.  Requests beyond MaxPolls are not followed: a  *)
(* request that is never answered is one that answers null.                *)
StartPoll(s) == [s EXCEPT !.polls = IF @ < MaxPolls THEN @ + 1 ELSE @]

WatchStatusPage(s) == [StartPoll(s) EXCEPT !.statusTimer = TRUE]

(* Counted from consecutiveRetries, which outlives the pending turn that   *)
(* runPendingRetry clears before it sends.                                 *)
NextAttempt_FromPending(s) == IF s.pending = NoTurn THEN 1 ELSE s.pending + 1

NextAttempt(s) == s.consecutiveRetries + 1

(* parkForLimit.  `moved` says whether onLimited switches the account,     *)
(* which parks and disposes this very session before the caller sets       *)
(* `pending` itself.                                                       *)
ParkForLimit(s, cause, moved) ==
    LET attempts == NextAttempt(s) IN
    IF attempts > MaxAttempts(cause) THEN GiveUp(s)
    ELSE LET t == IF cause = "limit" /\ moved THEN ActivateAccount(s) ELSE s
             u == IF cause \in {"stall", "launch"} THEN DisposeActiveQuery(t) ELSE t
             v == SetPending([u EXCEPT !.consecutiveRetries = attempts], attempts, cause)
             w == ScheduleRetry(Say(v, "parked"))
         IN  IF cause = "overload" THEN WatchStatusPage(w) ELSE w

-----------------------------------------------------------------------------
(* The status page                                                         *)

(* One tick of the poll interval: the part before the await. *)
StatusTick_NeverStops(s) == IF s.pending = NoTurn THEN s ELSE StartPoll(s)

StatusTick(s) == IF s.pending = NoTurn THEN StopStatusWatch(s) ELSE StartPoll(s)

(* The answer arrives.  Nothing says that the turn the question was asked  *)
(* for is still parked.                                                    *)
PollAnswered(s) == [s EXCEPT !.polls = @ - 1]

PollUnknown(s) == PollAnswered(s)

PollOpen(s) ==
    [PollAnswered(s) EXCEPT !.namedIncident = TRUE]

PollClear(s, moved, bin, q) ==
    IF ~s.namedIncident THEN PollAnswered(s)
    ELSE RunPendingRetry(StopStatusWatch([PollAnswered(s) EXCEPT !.namedIncident = FALSE,
                                                                 !.retryTimer = FALSE]),
                         moved, bin, q)

-----------------------------------------------------------------------------
(* The stall watchdog                                                      *)

StallTick_NeverDue(s) == IF s.status # "running" THEN ClearStallWatchdog(s) ELSE s

StallTick(s) ==
    IF s.status # "running" THEN ClearStallWatchdog(s)
    ELSE IF s.lastSdkActivityAt # "silent" THEN s
    ELSE ParkForLimit(ClearStallWatchdog(s), "stall", FALSE)

-----------------------------------------------------------------------------
(* What a query says                                                       *)

(* consume() speaks only for the query that is installed. *)
IsCurrent(s, q) == s.activeQuery = q

Heard(s) == [s EXCEPT !.lastSdkActivityAt = "recent"]

(* system, user, stream_event, rate_limit_event, and whatever a subagent   *)
(* says.                                                                   *)
OnOther(s) == Heard(s)

(* The main thread is talking, so a turn is under way. *)
OnAssistant_NoWatchdog(s) == [Heard(s) EXCEPT !.status = IF @ = "idle" THEN "running" ELSE @]

OnAssistant(s) ==
    IF s.status = "idle" THEN ArmStallWatchdog([s EXCEPT !.status = "running"]) ELSE Heard(s)

(* A result that is an answer, or a failure no retry helps: what was       *)
(* parked is superseded.                                                   *)
OnAnswer(s) ==
    LET t == [Heard(s) EXCEPT !.consecutiveRetries = 0, !.resends = 0, !.status = "idle"]
    IN  IF t.pending = NoTurn THEN t
        ELSE [DropPending(t) EXCEPT !.retryTimer = FALSE]

(* A result that says the plan limit is reached, and a window agrees. *)
OnLimited(s, moved) == ParkForLimit([Heard(s) EXCEPT !.status = "error"], "limit", moved)

OnOverloaded(s) == ParkForLimit([Heard(s) EXCEPT !.status = "error"], "overload", FALSE)

(* A result that says the login has expired, with another account to move  *)
(* to: the retry it queues outlives the end of the turn it ends.  `listed` *)
(* says whether the switch reaches this session.                           *)
OnLoginExpired(s, listed) ==
    LET t == IF listed THEN ActivateAccount(Heard(s)) ELSE Heard(s)
        n == t.consecutiveRetries + 1
        u == SetPending([t EXCEPT !.consecutiveRetries = n], n, "auth")
    IN  [ScheduleRetry(Say(u, "parked")) EXCEPT !.status = "idle"]

(* The finally clause of consume(). *)
Ended(s, q) ==
    IF IsCurrent(s, q) THEN [s EXCEPT !.activeQuery = NoQuery] ELSE s

(* The CLI is gone, whatever it had said. *)
Gone(s, q) == [s EXCEPT !.cli[q] = "none"]

OnEnd(s) == [s EXCEPT !.status = "idle"]

OnThrow(s, error) ==
    IF error \in {"overload", "launch"}
    THEN ParkForLimit([s EXCEPT !.status = "error"], error, FALSE)
    ELSE [s EXCEPT !.status = "error"]
=============================================================================
