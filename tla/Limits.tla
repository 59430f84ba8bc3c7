------------------------------- MODULE Limits -------------------------------
(***************************************************************************)
(* Waiting out a plan limit on one account (daemon/src/limits.ts,          *)
(* usage.ts, and the limit branches of handleSdkMessage and parkForLimit   *)
(* in session.ts).  A refusal does not say when it ends.  The daemon keeps *)
(* the windows the CLI reported at some time, checks a refusal against     *)
(* them, and plans the retry from them; MAX_ATTEMPTS refusals in a row     *)
(* are the end.  Moving to another account is Rotation's subject.          *)
(*                                                                         *)
(* Time is counted in units longer than RESET_BUFFER_MS and the spread:    *)
(* a retry planned for a reset comes after it, in the same unit.           *)
(***************************************************************************)
EXTENDS Integers, FiniteSets, FiniteSetsExt

CONSTANTS
    Kinds,          \* rate limit windows
    MAX_ATTEMPTS,
    MAX_WAIT,       \* longest wait
    BACKOFF,        \* wait when no reset is known
    MaxTime,        \* bound on the clock
    MaxSpent        \* bound on how often a window is used up

ASSUME LimitsAssumption ==
    /\ {MAX_ATTEMPTS, MAX_WAIT, BACKOFF} \subseteq Nat \ {0}
    /\ IsFiniteSet(Kinds)
    /\ {MaxTime, MaxSpent} \subseteq Nat

VARIABLES
    now,
    spentUntil, \* per window, when it is whole again
    windows,    \* usage.windows: what the daemon was told of each
    turn,       \* "running", "parked", "given up", "done", or "taken for done"
    retryAt,    \* pending.retryAt
    attempts,   \* consecutiveRetries
    spends,     \* how often a window was used up
    unreported, \* history: the last refusal came without a report of its window
    spells,     \* history: how often a window was spent during this wait
    misplanned  \* history: refusals of this wait whose retry had to miss

limitsVars == <<now, spentUntil, windows, turn, retryAt, attempts, spends,
                unreported, spells, misplanned>>

Unknown == [status |-> "unknown", resetsAt |-> 0, full |-> FALSE]
Spent(k) == spentUntil[k] > now
Blocking == {k \in Kinds : Spent(k)}

-----------------------------------------------------------------------------
(* limits.ts                                                               *)

(* Corroboration: with nothing measured, the turn is believed. *)
WindowsLookLimited(known) ==
    \/ \A k \in Kinds : known[k] = Unknown
    \/ \E k \in Kinds : known[k].status = "rejected" \/ known[k].full

PlanRetry_AnyReset(known) ==
    LET resets == {known[k].resetsAt : k \in {j \in Kinds : known[j].resetsAt > now}} IN
    IF resets = {} THEN now + BACKOFF ELSE Min({Min(resets), now + MAX_WAIT})

(* planRetry: the soonest reset to come among the windows that refuse, or  *)
(* among all; without one, the ladder.  Clamped at both ends.              *)
PlanRetry(known) ==
    LET future   == {k \in Kinds : known[k].resetsAt > now}
        rejected == {k \in future : known[k].status = "rejected"}
        pool     == IF rejected # {} THEN rejected ELSE future
        at       == IF pool # {} THEN Min({known[k].resetsAt : k \in pool})
                    ELSE now + BACKOFF
    IN Max({Min({at, now + MAX_WAIT}), now + 1})

(* When a window resets: a spent one when it is whole again, another soon. *)
ResetOf(k) == IF Spent(k) THEN spentUntil[k] ELSE now + 1

(* applyRateLimitEvent: the CLI's push about one window, without its use. *)
Reported(k) ==
    [windows EXCEPT ![k] = [status |-> IF Spent(k) THEN "rejected" ELSE "allowed",
                            resetsAt |-> ResetOf(k), full |-> @.full]]

(* applyUsageResponse: the use of every window, without its status. *)
Polled ==
    [k \in Kinds |-> [status |-> IF windows[k] = Unknown THEN "allowed" ELSE windows[k].status,
                      resetsAt |-> ResetOf(k), full |-> Spent(k)]]

-----------------------------------------------------------------------------

LimitsInit ==
    /\ now = 0
    /\ spentUntil = [k \in Kinds |-> 0]
    /\ windows = [k \in Kinds |-> Unknown]
    /\ turn = "running"
    /\ retryAt = 0 /\ attempts = 0
    /\ spends = 0 /\ unreported = FALSE /\ spells = 0 /\ misplanned = 0

(* Timers fire on time: the clock does not pass a retry that is due. *)
TimeGoesBy ==
    /\ now < MaxTime
    /\ turn = "parked" => now < retryAt
    /\ now' = now + 1
    /\ UNCHANGED <<spentUntil, windows, turn, retryAt, attempts, spends,
                   unreported, spells, misplanned>>

(* Another session, or this turn, uses a window up. *)
UseUp(k, until) ==
    /\ spends < MaxSpent /\ ~Spent(k)
    /\ spends' = spends + 1
    /\ spentUntil' = [spentUntil EXCEPT ![k] = until]
    /\ spells' = IF attempts > 0 THEN spells + 1 ELSE spells
    /\ UNCHANGED <<now, windows, turn, retryAt, attempts, unreported, misplanned>>

(* A report of a window, of its own accord or after a turn. *)
Report(k) ==
    /\ windows' = Reported(k)
    /\ UNCHANGED <<now, spentUntil, turn, retryAt, attempts, spends,
                   unreported, spells, misplanned>>

(* A window that keeps the status of its last push, with the reset time of *)
(* a later poll, which came when it was whole again.  It may be so still,  *)
(* or have been used up since, until another time.                         *)
StaleRejection(known, k) ==
    /\ known[k].status = "rejected"
    /\ known[k].resetsAt > now /\ known[k].resetsAt # spentUntil[k]

(* pollUsage, after a turn. *)
PollUsage ==
    /\ windows' = Polled
    /\ UNCHANGED <<now, spentUntil, turn, retryAt, attempts, spends,
                   unreported, spells, misplanned>>

(* What keeps the retry of a refusal from being planned for the end of a   *)
(* window that refuses: it was not reported, the end is too far away, or   *)
(* the time of a stale rejection comes before it.                          *)
Misplanned(known, told) ==
    \/ ~told
    \/ \E j \in Blocking : spentUntil[j] > now + MAX_WAIT
    \/ \E j \in Kinds : StaleRejection(known, j)

(* The turn is refused by window k, which the CLI reports first, or not.   *)
(* A refusal that no window agrees with is taken for an ordinary answer.   *)
(* The first refusal of a wait begins the history of that wait.            *)
Refused(k, told) ==
    LET known == IF told THEN Reported(k) ELSE windows IN
    /\ turn = "running" /\ Spent(k)
    /\ windows' = known
    /\ unreported' = ~told
    /\ spells' = IF attempts = 0 THEN Cardinality(Blocking) ELSE spells
    /\ misplanned' = (IF attempts = 0 THEN 0 ELSE misplanned)
                     + (IF Misplanned(known, told) THEN 1 ELSE 0)
    /\ IF ~WindowsLookLimited(known)
       THEN turn' = "taken for done" /\ attempts' = 0 /\ UNCHANGED retryAt
       ELSE IF attempts + 1 > MAX_ATTEMPTS
       THEN turn' = "given up" /\ attempts' = 0 /\ UNCHANGED retryAt
       ELSE /\ turn' = "parked"
            /\ attempts' = attempts + 1
            /\ retryAt' = PlanRetry(known)
    /\ UNCHANGED <<now, spentUntil, spends>>

(* The turn is answered: the retry budget starts over. *)
TurnAnswered ==
    /\ turn = "running" /\ Blocking = {}
    /\ turn' = "done"
    /\ attempts' = 0
    /\ UNCHANGED <<now, spentUntil, windows, retryAt, spends, unreported, spells, misplanned>>

(* runPendingRetry. *)
RetryRuns ==
    /\ turn = "parked" /\ now >= retryAt
    /\ turn' = "running"
    /\ UNCHANGED <<now, spentUntil, windows, retryAt, attempts, spends,
                   unreported, spells, misplanned>>

(* One turn is followed, until it is over. *)
LimitsNext ==
    /\ turn \in {"running", "parked"}
    /\ \/ TimeGoesBy
       \/ \E k \in Kinds, until \in (now + 1)..MaxTime : UseUp(k, until)
       \/ \E k \in Kinds : Report(k)
       \/ PollUsage
       \/ \E k \in Kinds, told \in BOOLEAN : Refused(k, told)
       \/ TurnAnswered
       \/ RetryRuns

LimitsSpec == LimitsInit /\ [][LimitsNext]_limitsVars

-----------------------------------------------------------------------------
(* A refused turn comes back.  Each attempt outlasts a spell of a window   *)
(* that refused, so a turn is given up only when windows were spent more   *)
(* than MAX_ATTEMPTS times during the wait (all at once, or again and      *)
(* again); a refusal whose retry could not be planned well stands for one. *)
(* It is taken for an answered turn only when the window that refused it   *)
(* was not reported.                                                       *)
RefusedTurnComesBack ==
    /\ turn = "taken for done" => unreported
    /\ turn = "given up" => spells + misplanned > MAX_ATTEMPTS
=============================================================================
