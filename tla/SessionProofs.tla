--------------------------- MODULE SessionProofs ----------------------------
(***************************************************************************)
(* Proofs about Session: the type invariant and the safety invariants hold *)
(* for every retry budget, every set of query ids and every bound.         *)
(*                                                                         *)
(* One lemma per operation of SessionOps says what it preserves; the       *)
(* inductive step then has one case per action of Session.                 *)
(***************************************************************************)
EXTENDS Session, TLAPS

-----------------------------------------------------------------------------
(* Types: every operation takes a session to a session.                    *)

(* A notice about a turn leaves a session a session.                       *)
LEMMA SayType ==
    ASSUME NEW t \in Session, NEW said \in Notices
    PROVE  Say(t, said) \in Session
  BY DEF Session, Say

(* The timer operations of session.ts leave a session a session.           *)
LEMMA TimerTypes ==
    ASSUME NEW t \in Session
    PROVE  /\ ArmStallWatchdog(t) \in Session
           /\ ClearStallWatchdog(t) \in Session
           /\ ScheduleRetry(t) \in Session
           /\ StopStatusWatch(t) \in Session
           /\ StartPoll(t) \in Session
           /\ Heard(t) \in Session
  <1>1. ArmStallWatchdog(t) \in Session BY DEF Session, ArmStallWatchdog, Ages
  <1>2. ClearStallWatchdog(t) \in Session BY DEF Session, ClearStallWatchdog
  <1>3. ScheduleRetry(t) \in Session BY DEF Session, ScheduleRetry
  <1>4. StopStatusWatch(t) \in Session BY DEF Session, StopStatusWatch
  <1>5. StartPoll(t) \in Session
    <2>1. (IF t.polls < MaxPolls THEN t.polls + 1 ELSE t.polls) \in 0..MaxPolls
      BY BudgetAssumption DEF Session
    <2> QED BY <2>1 DEF Session, StartPoll
  <1>6. Heard(t) \in Session BY DEF Session, Heard, Ages
  <1> QED BY <1>1, <1>2, <1>3, <1>4, <1>5, <1>6

(* Queueing and dropping a turn, file included, leave a session a session. *)
LEMMA PendingTypes ==
    ASSUME NEW t \in Session
    PROVE  /\ ClearPersistedPending(t) \in Session
           /\ DropPending(t) \in Session
           /\ \A n \in Nat, by \in Parkers : SetPending(t, n, by) \in Session
  <1>1. ClearPersistedPending(t) \in Session BY DEF Session, ClearPersistedPending
  <1>2. DropPending(t) \in Session
    BY DEF Session, DropPending, ClearPersistedPending, Parkers
  <1>3. ASSUME NEW n \in Nat, NEW by \in Parkers
        PROVE  SetPending(t, n, by) \in Session
    BY DEF Session, SetPending, PersistPending
  <1> QED BY <1>1, <1>2, <1>3

(* Starting, closing and disposing a query leave a session a session.      *)
LEMMA QueryTypes ==
    ASSUME NEW t \in Session
    PROVE  /\ DisposeActiveQuery(t) \in Session
           /\ Dispose(t) \in Session
           /\ \A q \in QueryIds, bin \in BOOLEAN : EnsureQuery(t, bin, q) \in Session
           /\ \A q \in QueryIds : Gone(t, q) \in Session /\ Ended(t, q) \in Session
  <1>1. ASSUME NEW r \in Session PROVE DisposeActiveQuery(r) \in Session
    <2>1. CloseQuery(r) \in Session BY DEF Session, CloseQuery, CliStates
    <2> QED BY <2>1 DEF Session, DisposeActiveQuery
  <1>2. Dispose(t) \in Session
    <2>1. DisposeActiveQuery(ClearStallWatchdog(t)) \in Session BY <1>1, TimerTypes
    <2> QED BY <2>1 DEF Session, Dispose
  <1>3. ASSUME NEW q \in QueryIds, NEW bin \in BOOLEAN
        PROVE  EnsureQuery(t, bin, q) \in Session
    <2>1. [t EXCEPT !.activeQuery = q, !.cli[q] = "open"] \in Session
      BY DEF Session, CliStates
    <2>2. [t EXCEPT !.status = "idle"] \in Session BY DEF Session
    <2> QED BY <2>1, <2>2 DEF EnsureQuery
  <1>4. ASSUME NEW q \in QueryIds
        PROVE  Gone(t, q) \in Session /\ Ended(t, q) \in Session
    BY DEF Session, Gone, Ended, IsCurrent, CliStates
  <1> QED BY <1>1, <1>2, <1>3, <1>4

(* cancelPendingRetry leaves a session a session.                          *)
LEMMA CancelPendingRetryType ==
    ASSUME NEW t \in Session
    PROVE  CancelPendingRetry(t) \in Session
  <1> DEFINE a == [StopStatusWatch(t) EXCEPT !.namedIncident = FALSE, !.retryTimer = FALSE]
             b == [DropPending(a) EXCEPT !.consecutiveRetries = 0, !.resends = 0]
  <1>1. a \in Session BY DEF Session, StopStatusWatch
  <1>2. b \in Session
    <2>1. DropPending(a) \in Session BY <1>1, PendingTypes
    <2> QED BY <2>1 DEF Session
  <1>3. Say(b, "cancelled") \in Session
    <2>1. a.parkedBy \in Parkers BY <1>1 DEF Session
    <2> QED BY <1>2, <2>1, SayType DEF Notices
  <1> QED BY <1>1, <1>3 DEF CancelPendingRetry

-----------------------------------------------------------------------------
(* What the operations preserve.                                           *)

(* Kept: what holds of a session in a running daemon. *)
Kept(t) == Sound(t) /\ t.file = t.pending

(* The fields that Kept speaks of. *)
SameCore(t, u) ==
    /\ u.pending = t.pending /\ u.parkedBy = t.parkedBy /\ u.file = t.file
    /\ u.consecutiveRetries = t.consecutiveRetries /\ u.resends = t.resends
    /\ u.activeQuery = t.activeQuery /\ u.cli = t.cli

(* An operation on other fields, or on the status alone, keeps Kept.       *)
LEMMA SameCoreKept ==
    ASSUME NEW t, NEW u \in Session, Kept(t), SameCore(t, u),
           u.status = t.status \/ u.status # "idle" \/ u.activeQuery = NoQuery
    PROVE  Kept(u)
  BY QueryAssumption DEF Kept, Sound, SameCore, ResendsPaid, CliOwned, NotIdleWhileTalking

(* armStallWatchdog keeps what holds of the session and drives the turn.   *)
LEMMA ArmStallWatchdogKept ==
    ASSUME NEW t, Kept(t)
    PROVE  /\ Kept(ArmStallWatchdog(t))
           /\ ArmStallWatchdog(t).pending = t.pending
           /\ ArmStallWatchdog(t).stallTimer
  <1> DEFINE u == ArmStallWatchdog(t)
  <1>1. t \in Session BY DEF Kept, Sound
  <1>2. u \in Session BY <1>1, TimerTypes
  <1>3. SameCore(t, u) /\ u.status = t.status /\ u.stallTimer
    BY <1>1 DEF SameCore, ArmStallWatchdog, Session
  <1> QED BY <1>2, <1>3, SameCoreKept DEF SameCore

(* disposeActiveQuery closes the installed CLI, so none is left behind.    *)
LEMMA DisposeActiveQueryKept ==
    ASSUME NEW t, Kept(t)
    PROVE  LET u == DisposeActiveQuery(t)
           IN  /\ Kept(u)
               /\ u.activeQuery = NoQuery
               /\ u.pending = t.pending /\ u.parkedBy = t.parkedBy
               /\ u.consecutiveRetries = t.consecutiveRetries /\ u.resends = t.resends
               /\ u.status = t.status
               /\ Timed(t) => Timed(u)
               /\ Announced(t) => Announced(u)
  <1> DEFINE u == DisposeActiveQuery(t)
  <1>1. t \in Session BY DEF Kept, Sound
  <1>2. u \in Session BY <1>1, QueryTypes
  <1>3. /\ u.activeQuery = NoQuery /\ u.pending = t.pending /\ u.file = t.file
        /\ u.parkedBy = t.parkedBy /\ u.consecutiveRetries = t.consecutiveRetries
        /\ u.resends = t.resends /\ u.status = t.status /\ u.notice = t.notice
        /\ u.retryTimer = t.retryTimer /\ u.stallTimer = t.stallTimer
    BY <1>1 DEF DisposeActiveQuery, CloseQuery, Session
  <1>4. ResendsPaid(u) BY <1>3 DEF Kept, Sound, ResendsPaid
  <1>5. CliOwned(u) /\ NotIdleWhileTalking(u)
    BY <1>1, QueryAssumption
       DEF Kept, Sound, CliOwned, NotIdleWhileTalking, DisposeActiveQuery, CloseQuery, Session
  <1> QED BY <1>2, <1>3, <1>4, <1>5 DEF Kept, Sound, Timed, Announced

(* A turn is queued: its attempts are in memory and on disk alike.         *)
LEMMA SetPendingKept ==
    ASSUME NEW t, Kept(t), NEW n \in Nat, NEW by \in Parkers \ {"nobody"},
           by \in Causes => t.resends < t.consecutiveRetries
                         /\ t.resends < MAX_OVERLOAD_ATTEMPTS
    PROVE  LET u == SetPending(t, n, by)
           IN  /\ Kept(u)
               /\ u.pending = n
               /\ u.activeQuery = t.activeQuery /\ u.cli = t.cli
               /\ u.consecutiveRetries = t.consecutiveRetries /\ u.resends = t.resends
  <1> DEFINE u == SetPending(t, n, by)
  <1>1. t \in Session BY DEF Kept, Sound
  <1>2. u \in Session BY <1>1, PendingTypes
  <1>3. /\ u.pending = n /\ u.file = n /\ u.parkedBy = by
        /\ u.activeQuery = t.activeQuery /\ u.cli = t.cli /\ u.status = t.status
        /\ u.consecutiveRetries = t.consecutiveRetries /\ u.resends = t.resends
    BY <1>1 DEF SetPending, PersistPending, Session, NoTurn
  <1>4. ResendsPaid(u) BY <1>3 DEF Kept, Sound, ResendsPaid, NoTurn
  <1>5. CliOwned(u) /\ NotIdleWhileTalking(u)
    BY <1>3 DEF Kept, Sound, CliOwned, NotIdleWhileTalking
  <1> QED BY <1>2, <1>3, <1>4, <1>5 DEF Kept, Sound

(* scheduleRetry gives the turn that is parked its timer.                  *)
LEMMA ScheduleRetryKept ==
    ASSUME NEW t, Kept(t)
    PROVE  LET u == ScheduleRetry(t)
           IN  /\ Kept(u) /\ Timed(u) /\ SameCore(t, u)
               /\ u.status = t.status /\ u.notice = t.notice
               /\ Announced(t) => Announced(u)
  <1> DEFINE u == ScheduleRetry(t)
  <1>1. t \in Session BY DEF Kept, Sound
  <1>2. u \in Session BY <1>1, TimerTypes
  <1>3. SameCore(t, u) /\ u.status = t.status /\ u.retryTimer = (t.pending # NoTurn)
        /\ u.notice = t.notice /\ u.stallTimer = t.stallTimer
    BY <1>1 DEF SameCore, ScheduleRetry, Session
  <1>4. Kept(u) BY <1>2, <1>3, SameCoreKept
  <1> QED BY <1>3, <1>4 DEF Timed, Announced, SameCore

(* Dropping the parked turn drops its file with it.                        *)
LEMMA DropPendingKept ==
    ASSUME NEW t, Kept(t)
    PROVE  LET u == DropPending(t)
           IN  /\ Kept(u)
               /\ u.pending = NoTurn /\ u.parkedBy = "nobody"
               /\ u.activeQuery = t.activeQuery /\ u.cli = t.cli
               /\ u.consecutiveRetries = t.consecutiveRetries /\ u.resends = t.resends
  <1> DEFINE u == DropPending(t)
  <1>1. t \in Session BY DEF Kept, Sound
  <1>2. u \in Session BY <1>1, PendingTypes
  <1>3. /\ u.pending = NoTurn /\ u.file = NoTurn /\ u.parkedBy = "nobody"
        /\ u.activeQuery = t.activeQuery /\ u.cli = t.cli /\ u.status = t.status
        /\ u.consecutiveRetries = t.consecutiveRetries /\ u.resends = t.resends
    BY <1>1 DEF DropPending, ClearPersistedPending, Session
  <1>4. ResendsPaid(u) BY <1>3 DEF Kept, Sound, ResendsPaid, Causes
  <1>5. CliOwned(u) /\ NotIdleWhileTalking(u)
    BY <1>3 DEF Kept, Sound, CliOwned, NotIdleWhileTalking
  <1> QED BY <1>2, <1>3, <1>4, <1>5 DEF Kept, Sound

(* cancelPendingRetry leaves nothing parked and says so.                   *)
LEMMA CancelPendingRetryKept ==
    ASSUME NEW t, Kept(t)
    PROVE  LET u == CancelPendingRetry(t)
           IN  /\ Kept(u)
               /\ u.pending = NoTurn
               /\ u.activeQuery = t.activeQuery
               /\ u.cli = t.cli
               /\ t.pending # NoTurn \/ Announced(t) => Announced(u)
  <1> DEFINE u == CancelPendingRetry(t)
  <1> USE DEF Kept, Sound, CancelPendingRetry, StopStatusWatch, Say, DropPending,
              ClearPersistedPending
  <1>1. u \in Session BY CancelPendingRetryType
  <1>2. ResendsPaid(u) BY BudgetAssumption DEF Session, ResendsPaid, Causes
  <1>3. CliOwned(u) /\ NotIdleWhileTalking(u) BY DEF Session, CliOwned, NotIdleWhileTalking
  <1>4. u.file = u.pending /\ u.pending = NoTurn BY DEF Session
  <1>5. u.activeQuery = t.activeQuery /\ u.cli = t.cli BY DEF Session
  <1>6. t.pending # NoTurn \/ Announced(t) => Announced(u) BY DEF Session, Announced
  <1> QED BY <1>1, <1>2, <1>3, <1>4, <1>5, <1>6

(* A message goes out or the session is idle; nothing is parked after it.  *)
LEMMA SendMessageKept ==
    ASSUME NEW t, Kept(t), NEW bin \in BOOLEAN, NEW q \in QueryIds
    PROVE  LET u == SendMessage(t, bin, q)
           IN  Kept(u) /\ Timed(u) /\ Announced(u)
  <1> DEFINE c == IF t.pending # NoTurn THEN CancelPendingRetry(t) ELSE t
             e == EnsureQuery(c, bin, q)
             u == SendMessage(t, bin, q)
  <1>1. Kept(c) /\ c.pending = NoTurn
    BY CancelPendingRetryKept
  <1> HIDE DEF c
  <1>3. Kept([e EXCEPT !.status = "running"]) /\ e.pending = NoTurn /\ e \in Session
    <2> DEFINE r == [e EXCEPT !.status = "running"]
    <2> USE <1>1 DEF Kept, Sound, EnsureQuery
    <2>1. e \in Session BY QueryTypes
    <2>2. ResendsPaid(r) BY DEF Session, ResendsPaid, Causes
    <2>3. CliOwned(r) /\ NotIdleWhileTalking(r)
      BY QueryAssumption DEF Session, CliOwned, NotIdleWhileTalking
    <2>4. r.file = r.pending /\ e.pending = NoTurn BY DEF Session
    <2>5. r \in Session BY <2>1 DEF Session
    <2> QED BY <2>1, <2>2, <2>3, <2>4, <2>5
  <1>4. CASE CanQuery(c, bin)
    <2>1. u = ArmStallWatchdog([e EXCEPT !.status = "running"])
      BY <1>4 DEF SendMessage, c
    <2> DEFINE r == [e EXCEPT !.status = "running"]
    <2>2. Kept(r) /\ r.status = "running" /\ r.pending = NoTurn
      BY <1>3 DEF Session
    <2> HIDE DEF r
    <2> QED BY <2>1, <2>2, ArmStallWatchdogKept DEF Timed, Announced, r
  <1>5. CASE ~CanQuery(c, bin)
    <2>1. u = [c EXCEPT !.status = "idle"] /\ c.activeQuery = NoQuery
      BY <1>5 DEF SendMessage, EnsureQuery, CanQuery, c
    <2> USE <1>1 DEF Kept, Sound
    <2>2. u \in Session BY <2>1 DEF Session
    <2>3. ResendsPaid(u) BY <2>1 DEF Session, ResendsPaid, Causes
    <2>4. CliOwned(u) /\ NotIdleWhileTalking(u)
      BY <2>1, QueryAssumption DEF Session, CliOwned, NotIdleWhileTalking
    <2>5. u.file = u.pending /\ u.pending = NoTurn /\ u.status = "idle" BY <2>1 DEF Session
    <2> QED BY <2>2, <2>3, <2>4, <2>5 DEF Timed, Announced
  <1> QED BY <1>4, <1>5

(* parkForAccountSwitch queues a turn at work with a timer.                *)
LEMMA ParkForAccountSwitchKept ==
    ASSUME NEW t, Kept(t)
    PROVE  LET u == ParkForAccountSwitch(t)
           IN  /\ Kept(u)
               /\ u.consecutiveRetries = t.consecutiveRetries /\ u.resends = t.resends
               /\ t.pending # NoTurn => u = t
               /\ Timed(t) => Timed(u)
               /\ Announced(t) => Announced(u)
  <1>1. CASE ~Busy(t) \/ t.pending # NoTurn
    BY <1>1 DEF ParkForAccountSwitch
  <1>2. CASE Busy(t) /\ t.pending = NoTurn
    <2> DEFINE p == SetPending(t, 0, "switch")
    <2>1. /\ Kept(p) /\ p.pending = 0
          /\ p.consecutiveRetries = t.consecutiveRetries /\ p.resends = t.resends
      BY SetPendingKept DEF Parkers, Causes
    <2>2. ParkForAccountSwitch(t) = ScheduleRetry(p)
      BY <1>2 DEF ParkForAccountSwitch
    <2> HIDE DEF p
    <2> QED BY <1>2, <2>1, <2>2, ScheduleRetryKept DEF SameCore, Announced, NoTurn
  <1> QED BY <1>1, <1>2

(* A switch of account parks, then disposes, and loses nothing.            *)
LEMMA ActivateAccountKept ==
    ASSUME NEW t, Kept(t)
    PROVE  LET u == ActivateAccount(t)
           IN  /\ Kept(u)
               /\ u.activeQuery = NoQuery
               /\ u.consecutiveRetries = t.consecutiveRetries /\ u.resends = t.resends
               /\ t.pending # NoTurn => u.pending = t.pending /\ u.parkedBy = t.parkedBy
               /\ Timed(t) => Timed(u)
               /\ Announced(t) => Announced(u)
  BY ParkForAccountSwitchKept, DisposeActiveQueryKept DEF ActivateAccount

(* The turn that was parked is sent, and nothing is parked after it.       *)
LEMMA RunPendingRetryKept ==
    ASSUME NEW t, Kept(t), NEW moved \in BOOLEAN, NEW bin \in BOOLEAN, NEW q \in QueryIds
    PROVE  LET u == RunPendingRetry(t, moved, bin, q)
           IN  /\ Kept(u)
               /\ Timed(u)
               /\ t.pending # NoTurn \/ Announced(t) => Announced(u)
  <1>1. CASE t.pending = NoTurn
    BY <1>1 DEF RunPendingRetry, Timed
  <1>2. CASE t.pending # NoTurn
    <2> DEFINE a == [StopStatusWatch(t) EXCEPT !.namedIncident = FALSE]
               b == IF moved THEN ActivateAccount(a) ELSE a
               d == DropPending(b)
               n == IF t.parkedBy \in Causes THEN d.resends + 1 ELSE d.resends
               e == [d EXCEPT !.resends = n]
    <2>1. Kept(a) /\ SameCore(t, a)
      <3>1. t \in Session BY DEF Kept, Sound
      <3>2. a \in Session /\ SameCore(t, a) /\ a.status = t.status
        BY <3>1 DEF SameCore, StopStatusWatch, Session
      <3> QED BY <3>2, SameCoreKept
    <2>2. /\ Kept(b) /\ b.parkedBy = t.parkedBy
          /\ b.consecutiveRetries = t.consecutiveRetries /\ b.resends = t.resends
      BY <1>2, <2>1, ActivateAccountKept DEF SameCore
    <2> HIDE DEF b
    <2>3. /\ Kept(d) /\ d.pending = NoTurn /\ d.parkedBy = "nobody"
          /\ d.consecutiveRetries = t.consecutiveRetries /\ d.resends = t.resends
      BY <2>2, DropPendingKept
    <2> HIDE DEF d
    <2>4. Kept(e)
      <3>1. d \in Session BY <2>3 DEF Kept, Sound
      <3>2. n \in Nat BY <3>1 DEF Session
      <3>3. n <= d.consecutiveRetries /\ n <= MAX_OVERLOAD_ATTEMPTS
        BY <2>3, <3>1, BudgetAssumption DEF Kept, Sound, ResendsPaid, Session
      <3> HIDE DEF n
      <3>4. /\ e \in Session /\ e.resends = n
            /\ e.pending = d.pending /\ e.file = d.file /\ e.parkedBy = d.parkedBy
            /\ e.consecutiveRetries = d.consecutiveRetries
            /\ e.activeQuery = d.activeQuery /\ e.cli = d.cli /\ e.status = d.status
        BY <3>1, <3>2 DEF Session
      <3>5. ResendsPaid(e) BY <2>3, <3>3, <3>4 DEF Kept, Sound, ResendsPaid, Causes
      <3>6. CliOwned(e) /\ NotIdleWhileTalking(e)
        BY <2>3, <3>4 DEF Kept, Sound, CliOwned, NotIdleWhileTalking
      <3> QED BY <2>3, <3>4, <3>5, <3>6 DEF Kept, Sound
    <2>5. RunPendingRetry(t, moved, bin, q) = SendMessage(e, bin, q)
      BY <1>2 DEF RunPendingRetry, b, d
    <2> HIDE DEF e
    <2> QED BY <2>4, <2>5, SendMessageKept
  <1> QED BY <1>1, <1>2

(* No cause of parkForLimit has a budget above the largest one.            *)
LEMMA MaxAttemptsBound ==
    ASSUME NEW cause \in Causes
    PROVE  MaxAttempts(cause) \in Nat /\ MaxAttempts(cause) <= MAX_OVERLOAD_ATTEMPTS
  BY BudgetAssumption DEF MaxAttempts, Causes

(* Giving up leaves nothing parked and announces it.                       *)
LEMMA GiveUpKept ==
    ASSUME NEW t, Kept(t)
    PROVE  LET u == GiveUp(t)
           IN  Kept(u) /\ Timed(u) /\ Announced(u) /\ u.activeQuery = t.activeQuery
  <1> DEFINE d == DropPending(t)
             e == [StopStatusWatch(d) EXCEPT
                     !.consecutiveRetries = 0, !.resends = 0, !.namedIncident = FALSE]
             u == GiveUp(t)
  <1>1. /\ Kept(d) /\ d.pending = NoTurn /\ d.parkedBy = "nobody"
        /\ d.activeQuery = t.activeQuery
    BY DropPendingKept
  <1> HIDE DEF d
  <1>2. d \in Session BY <1>1 DEF Kept, Sound
  <1>3. e \in Session BY <1>2 DEF StopStatusWatch, Session
  <1>4. "givenUp" \in Notices \ {"none", "parked"} BY DEF Notices
  <1>5. u = Say(e, "givenUp") BY DEF GiveUp, d
  <1>6. u \in Session BY <1>3, <1>4, <1>5, SayType DEF Parkers
  <1>7. /\ u.pending = NoTurn /\ u.file = d.file /\ u.parkedBy = "nobody"
        /\ u.consecutiveRetries = 0 /\ u.resends = 0
        /\ u.activeQuery = t.activeQuery /\ u.cli = d.cli /\ u.status = d.status
        /\ u.notice = "givenUp"
    BY <1>1, <1>2, <1>3, <1>5 DEF Say, StopStatusWatch, Session
  <1>8. ResendsPaid(u) BY <1>7, BudgetAssumption DEF ResendsPaid, Causes
  <1>9. CliOwned(u) /\ NotIdleWhileTalking(u)
    BY <1>1, <1>7 DEF Kept, Sound, CliOwned, NotIdleWhileTalking
  <1> QED BY <1>1, <1>4, <1>6, <1>7, <1>8, <1>9 DEF Kept, Sound, Timed, Announced

(* A refused turn is parked with a timer, or given up aloud.               *)
LEMMA ParkForLimitKept ==
    ASSUME NEW t, Kept(t), NEW cause \in Causes, NEW moved \in BOOLEAN
    PROVE  LET u == ParkForLimit(t, cause, moved)
           IN  /\ Kept(u) /\ Timed(u) /\ Announced(u)
               /\ u.activeQuery \in {t.activeQuery, NoQuery}
  <1> DEFINE attempts == NextAttempt(t)
  <1>0. t \in Session /\ attempts \in Nat /\ attempts = t.consecutiveRetries + 1
    BY DEF Kept, Sound, Session, NextAttempt
  <1>1. CASE attempts > MaxAttempts(cause)
    BY <1>1, GiveUpKept DEF ParkForLimit
  <1>2. CASE ~(attempts > MaxAttempts(cause))
    <2> DEFINE a == IF cause = "limit" /\ moved THEN ActivateAccount(t) ELSE t
               b == IF cause \in {"stall", "launch"} THEN DisposeActiveQuery(a) ELSE a
               c == [b EXCEPT !.consecutiveRetries = attempts]
               v == SetPending(c, attempts, cause)
               x == Say(v, "parked")
               w == ScheduleRetry(x)
    <2>1. /\ Kept(a) /\ a.activeQuery \in {t.activeQuery, NoQuery}
          /\ a.consecutiveRetries = t.consecutiveRetries /\ a.resends = t.resends
      BY ActivateAccountKept
    <2> HIDE DEF a
    <2>2. /\ Kept(b) /\ b.activeQuery \in {t.activeQuery, NoQuery}
          /\ b.consecutiveRetries = t.consecutiveRetries /\ b.resends = t.resends
      BY <2>1, DisposeActiveQueryKept
    <2> HIDE DEF b
    <2> HIDE DEF attempts
    <2>3. /\ Kept(c) /\ c.activeQuery \in {t.activeQuery, NoQuery}
          /\ c.resends < c.consecutiveRetries
          /\ c.resends < MAX_OVERLOAD_ATTEMPTS
      <3>1. b \in Session BY <2>2 DEF Kept, Sound
      <3>2. /\ c \in Session /\ c.resends = b.resends /\ c.consecutiveRetries = attempts
            /\ c.pending = b.pending /\ c.file = b.file /\ c.parkedBy = b.parkedBy
            /\ c.activeQuery = b.activeQuery /\ c.cli = b.cli /\ c.status = b.status
        BY <1>0, <3>1 DEF Session
      <3>3. b.resends \in Nat /\ t.consecutiveRetries \in Nat /\ b.resends <= t.consecutiveRetries
        BY <1>0, <2>2, <3>1 DEF Kept, Sound, ResendsPaid, Session
      <3>4. c.resends < c.consecutiveRetries /\ c.resends < MAX_OVERLOAD_ATTEMPTS
        BY <1>0, <1>2, <3>2, <3>3, MaxAttemptsBound, BudgetAssumption
      <3>5. ResendsPaid(c)
        BY <2>2, <3>2, <3>3, <3>4, <1>0, BudgetAssumption DEF Kept, Sound, ResendsPaid
      <3>6. CliOwned(c) /\ NotIdleWhileTalking(c)
        BY <2>2, <3>2 DEF Kept, Sound, CliOwned, NotIdleWhileTalking
      <3> QED BY <2>2, <3>2, <3>4, <3>5, <3>6 DEF Kept, Sound
    <2> HIDE DEF c
    <2>4. Kept(v) /\ v.pending = attempts /\ v.activeQuery \in {t.activeQuery, NoQuery}
      BY <1>0, <2>3, SetPendingKept DEF Parkers, Causes
    <2> HIDE DEF v
    <2>5. /\ Kept(x) /\ x.pending = attempts /\ x.activeQuery \in {t.activeQuery, NoQuery}
      <3>1. v \in Session BY <2>4 DEF Kept, Sound
      <3>2. x \in Session BY <3>1, SayType DEF Notices, Parkers
      <3>3. SameCore(v, x) /\ x.status = v.status BY <3>1 DEF SameCore, Say, Session
      <3> QED BY <2>4, <3>2, <3>3, SameCoreKept DEF SameCore
    <2> HIDE DEF x
    <2>6. /\ Kept(w) /\ Timed(w) /\ w.pending = attempts
          /\ w.activeQuery \in {t.activeQuery, NoQuery}
      BY <2>5, ScheduleRetryKept DEF SameCore
    <2> HIDE DEF w
    <2>7. /\ Kept(WatchStatusPage(w)) /\ Timed(WatchStatusPage(w))
          /\ WatchStatusPage(w).pending = attempts
          /\ WatchStatusPage(w).activeQuery \in {t.activeQuery, NoQuery}
      <3> DEFINE y == WatchStatusPage(w)
      <3>1. w \in Session BY <2>6 DEF Kept, Sound
      <3>2. y \in Session
        <4>1. StartPoll(w) \in Session BY <3>1, TimerTypes
        <4> QED BY <4>1 DEF WatchStatusPage, Session
      <3>3. SameCore(w, y) /\ y.status = w.status /\ y.retryTimer = w.retryTimer
        BY <3>1 DEF SameCore, WatchStatusPage, StartPoll, Session
      <3> QED BY <2>6, <3>2, <3>3, SameCoreKept DEF SameCore, Timed
    <2>8. ParkForLimit(t, cause, moved) = IF cause = "overload" THEN WatchStatusPage(w) ELSE w
      BY <1>2 DEF ParkForLimit, attempts, a, b, c, v, x, w
    <2> QED BY <1>0, <2>6, <2>7, <2>8 DEF Announced, NoTurn
  <1> QED BY <1>1, <1>2

-----------------------------------------------------------------------------
(* What the SDK, the status page and the watchdog bring.                   *)

(* A message of the SDK only makes the session recently active.            *)
LEMMA HeardKept ==
    ASSUME NEW t, Kept(t)
    PROVE  LET u == Heard(t)
           IN  /\ Kept(u) /\ SameCore(t, u) /\ u.status = t.status
               /\ Timed(t) => Timed(u)
               /\ Announced(t) => Announced(u)
  <1> DEFINE u == Heard(t)
  <1>1. t \in Session BY DEF Kept, Sound
  <1>2. u \in Session BY <1>1, TimerTypes
  <1>3. /\ SameCore(t, u) /\ u.status = t.status /\ u.retryTimer = t.retryTimer
        /\ u.stallTimer = t.stallTimer /\ u.notice = t.notice
    BY <1>1 DEF SameCore, Heard, Session
  <1> QED BY <1>2, <1>3, SameCoreKept DEF SameCore, Timed, Announced

(* The status alone changes, and not to idle under a query at work.        *)
LEMMA StatusKept ==
    ASSUME NEW t, Kept(t), NEW st \in {"idle", "running", "error"},
           st # "idle" \/ t.activeQuery = NoQuery
    PROVE  LET u == [t EXCEPT !.status = st]
           IN  /\ Kept(u) /\ SameCore(t, u) /\ u.status = st
               /\ u.retryTimer = t.retryTimer
  <1> DEFINE u == [t EXCEPT !.status = st]
  <1>1. t \in Session BY DEF Kept, Sound
  <1>2. /\ u \in Session /\ SameCore(t, u) /\ u.status = st
        /\ u.retryTimer = t.retryTimer
    BY <1>1 DEF SameCore, Session
  <1> QED BY <1>2, SameCoreKept DEF SameCore

(* A main thread that speaks makes an idle session run, under a watchdog.  *)
LEMMA OnAssistantKept ==
    ASSUME NEW t, t \in Session, ResendsPaid(t), CliOwned(t), t.file = t.pending,
           t.status # "idle" => Kept(t)
    PROVE  LET u == OnAssistant(t)
           IN  /\ Kept(u)
               /\ Timed(t) => Timed(u)
               /\ Announced(t) => Announced(u)
  <1>1. CASE t.status = "idle"
    <2> DEFINE r == [t EXCEPT !.status = "running"]
    <2>1. /\ r \in Session /\ SameCore(t, r) /\ r.status = "running"
          /\ r.retryTimer = t.retryTimer
      BY DEF SameCore, Session
    <2>2. Kept(r)
      BY <2>1 DEF Kept, Sound, SameCore, ResendsPaid, CliOwned, NotIdleWhileTalking
    <2>3. OnAssistant(t) = ArmStallWatchdog(r) BY <1>1 DEF OnAssistant
    <2>4. ArmStallWatchdog(r).retryTimer = r.retryTimer
      BY <2>1 DEF ArmStallWatchdog, Session
    <2> HIDE DEF r
    <2> QED BY <2>1, <2>2, <2>3, <2>4, ArmStallWatchdogKept DEF Timed, Announced, SameCore
  <1>2. CASE t.status # "idle"
    BY <1>2, HeardKept DEF OnAssistant
  <1> QED BY <1>1, <1>2

(* No turn of the installed query's main thread is under way.              *)
BetweenTurns(t) == \A q \in QueryIds : t.activeQuery = q => t.cli[q] # "talking"

(* An answer ends the turn and whatever was parked before it.              *)
LEMMA OnAnswerKept ==
    ASSUME NEW t, Kept(t), BetweenTurns(t)
    PROVE  LET u == OnAnswer(t) IN Kept(u) /\ Timed(u) /\ Announced(u)
  <1> DEFINE a == [Heard(t) EXCEPT !.consecutiveRetries = 0, !.resends = 0, !.status = "idle"]
             d == [DropPending(a) EXCEPT !.retryTimer = FALSE]
             u == OnAnswer(t)
  <1>1. t \in Session BY DEF Kept, Sound
  <1>2. Heard(t) \in Session BY <1>1, TimerTypes
  <1>3. a \in Session BY <1>2 DEF Session
  <1>4. d \in Session
    <2>1. DropPending(a) \in Session BY <1>3, PendingTypes
    <2> QED BY <2>1 DEF Session
  <1>5. u = IF a.pending = NoTurn THEN a ELSE d BY DEF OnAnswer
  <1>6. /\ a.resends = 0 /\ a.consecutiveRetries = 0 /\ a.status = "idle"
        /\ a.activeQuery = t.activeQuery /\ a.cli = t.cli
        /\ a.pending = t.pending /\ a.file = t.file /\ a.parkedBy = t.parkedBy
    BY <1>1, <1>2 DEF Heard, Session
  <1>7. /\ u \in Session /\ u.resends = 0 /\ u.consecutiveRetries = 0 /\ u.status = "idle"
        /\ u.activeQuery = t.activeQuery /\ u.cli = t.cli
        /\ u.pending = NoTurn /\ u.file = NoTurn /\ u.parkedBy = "nobody"
    <2>1. CASE a.pending = NoTurn
      BY <1>3, <1>5, <1>6, <2>1 DEF Kept, Sound, ResendsPaid
    <2>2. CASE a.pending # NoTurn
      BY <1>3, <1>4, <1>5, <1>6, <2>2 DEF DropPending, ClearPersistedPending, Session
    <2> QED BY <2>1, <2>2
  <1>8. ResendsPaid(u) BY <1>7, BudgetAssumption DEF ResendsPaid, Causes
  <1>9. CliOwned(u) /\ NotIdleWhileTalking(u)
    BY <1>7 DEF Kept, Sound, CliOwned, NotIdleWhileTalking, BetweenTurns
  <1> QED BY <1>7, <1>8, <1>9 DEF Kept, Sound, Timed, Announced

(* A result that is a limit or an overload parks the turn or gives up.     *)
LEMMA OnRefusedKept ==
    ASSUME NEW t, Kept(t), NEW cause \in Causes, NEW moved \in BOOLEAN
    PROVE  LET u == ParkForLimit([Heard(t) EXCEPT !.status = "error"], cause, moved)
           IN  Kept(u) /\ Timed(u) /\ Announced(u)
  <1>1. Kept(Heard(t)) BY HeardKept
  <1>2. Kept([Heard(t) EXCEPT !.status = "error"]) BY <1>1, StatusKept
  <1> QED BY <1>2, ParkForLimitKept

(* The turn moves to another account, with a timer, whether or not the     *)
(* switch itself reached the session.                                      *)
LEMMA OnLoginExpiredKept ==
    ASSUME NEW t, Kept(t), BetweenTurns(t), NEW listed \in BOOLEAN
    PROVE  LET u == OnLoginExpired(t, listed) IN Kept(u) /\ Timed(u) /\ Announced(u)
  <1> DEFINE a == IF listed THEN ActivateAccount(Heard(t)) ELSE Heard(t)
             n == a.consecutiveRetries + 1
             b == [a EXCEPT !.consecutiveRetries = n]
             p == SetPending(b, n, "auth")
             x == Say(p, "parked")
             w == ScheduleRetry(x)
             u == [w EXCEPT !.status = "idle"]
  <1>1. Kept(a) /\ BetweenTurns(a)
    BY HeardKept, ActivateAccountKept, QueryAssumption DEF BetweenTurns, SameCore
  <1> HIDE DEF a
  <1>2. a \in Session BY <1>1 DEF Kept, Sound
  <1>3. n \in Nat /\ n >= a.consecutiveRetries BY <1>2 DEF Session
  <1>4. Kept(b) /\ BetweenTurns(b)
    <2> HIDE DEF n
    <2>1. /\ b \in Session /\ b.resends = a.resends /\ b.consecutiveRetries = n
          /\ b.pending = a.pending /\ b.file = a.file /\ b.parkedBy = a.parkedBy
          /\ b.activeQuery = a.activeQuery /\ b.cli = a.cli /\ b.status = a.status
      BY <1>2, <1>3 DEF Session
    <2>2. a.resends \in Nat /\ a.consecutiveRetries \in Nat BY <1>2 DEF Session
    <2>3. ResendsPaid(b) BY <1>1, <1>3, <2>1, <2>2 DEF Kept, Sound, ResendsPaid
    <2>4. CliOwned(b) /\ NotIdleWhileTalking(b)
      BY <1>1, <2>1 DEF Kept, Sound, CliOwned, NotIdleWhileTalking
    <2> QED BY <1>1, <2>1, <2>3, <2>4 DEF Kept, Sound, BetweenTurns
  <1> HIDE DEF b, n
  <1>5. Kept(p) /\ p.pending = n /\ BetweenTurns(p)
    BY <1>3, <1>4, SetPendingKept DEF Parkers, Causes, BetweenTurns
  <1> HIDE DEF p
  <1>6. Kept(x) /\ x.pending = n /\ BetweenTurns(x)
    <2>1. p \in Session BY <1>5 DEF Kept, Sound
    <2>2. x \in Session BY <2>1, SayType DEF Notices, Parkers
    <2>3. SameCore(p, x) /\ x.status = p.status BY <2>1 DEF SameCore, Say, Session
    <2> QED BY <1>5, <2>2, <2>3, SameCoreKept DEF SameCore, BetweenTurns
  <1> HIDE DEF x
  <1>7. Kept(w) /\ Timed(w) /\ BetweenTurns(w)
    BY <1>6, ScheduleRetryKept DEF SameCore, BetweenTurns
  <1> HIDE DEF w
  <1>8. w \in Session BY <1>7 DEF Kept, Sound
  <1>9. /\ u \in Session /\ SameCore(w, u) /\ u.status = "idle"
        /\ u.retryTimer = w.retryTimer
    BY <1>8 DEF SameCore, Session
  <1>10. Kept(u) /\ Timed(u) /\ Announced(u)
    BY <1>7, <1>9 DEF Kept, Sound, SameCore, ResendsPaid, CliOwned, NotIdleWhileTalking,
                      BetweenTurns, Timed, Announced
  <1>11. OnLoginExpired(t, listed) = u
    BY DEF OnLoginExpired, a, n, b, p, x, w
  <1> HIDE DEF u
  <1> QED BY <1>10, <1>11

(* A query that is over: no longer installed, its process gone.            *)
LEMMA FinishedKept ==
    ASSUME NEW t \in Session, ResendsPaid(t), CliOwned(t), t.file = t.pending,
           NEW q \in QueryIds, t.activeQuery \in {q, NoQuery}
    PROVE  LET u == Gone(Ended(t, q), q)
           IN  /\ Kept(u)
               /\ Timed(t) => Timed(u)
               /\ Announced(t) => Announced(u)
  <1> DEFINE e == Ended(t, q)
             u == Gone(e, q)
  <1>1. e \in Session BY QueryTypes
  <1>2. u \in Session BY <1>1, QueryTypes
  <1>3. /\ e.pending = t.pending /\ e.file = t.file /\ e.parkedBy = t.parkedBy
        /\ e.consecutiveRetries = t.consecutiveRetries /\ e.resends = t.resends
        /\ e.retryTimer = t.retryTimer /\ e.stallTimer = t.stallTimer
        /\ e.notice = t.notice /\ e.status = t.status
        /\ e.activeQuery = NoQuery /\ e.cli = t.cli
    BY DEF Ended, IsCurrent, Session
  <1>4. /\ u.pending = t.pending /\ u.file = t.file /\ u.parkedBy = t.parkedBy
        /\ u.consecutiveRetries = t.consecutiveRetries /\ u.resends = t.resends
        /\ u.retryTimer = t.retryTimer /\ u.stallTimer = t.stallTimer
        /\ u.notice = t.notice /\ u.status = t.status
        /\ u.activeQuery = NoQuery /\ u.cli = [t.cli EXCEPT ![q] = "none"]
    BY <1>1, <1>3 DEF Gone, Session
  <1>5. t.cli \in [QueryIds -> CliStates] BY DEF Session
  <1>6. ResendsPaid(u) BY <1>4 DEF ResendsPaid
  <1>7. CliOwned(u) BY <1>4, <1>5 DEF CliOwned
  <1>8. NotIdleWhileTalking(u) BY <1>4, QueryAssumption DEF NotIdleWhileTalking
  <1> QED BY <1>2, <1>4, <1>6, <1>7, <1>8 DEF Kept, Sound, Timed, Announced

(* A replaced query leaves no trace but its own end.                       *)
LEMMA GoneKept ==
    ASSUME NEW t, Kept(t), NEW q \in QueryIds
    PROVE  LET u == Gone(t, q)
           IN  /\ Kept(u)
               /\ Timed(t) => Timed(u)
               /\ Announced(t) => Announced(u)
  <1> DEFINE u == Gone(t, q)
  <1>1. t \in Session BY DEF Kept, Sound
  <1>2. u \in Session BY <1>1, QueryTypes
  <1>3. /\ u.pending = t.pending /\ u.file = t.file /\ u.parkedBy = t.parkedBy
        /\ u.consecutiveRetries = t.consecutiveRetries /\ u.resends = t.resends
        /\ u.retryTimer = t.retryTimer /\ u.stallTimer = t.stallTimer
        /\ u.notice = t.notice /\ u.status = t.status
        /\ u.activeQuery = t.activeQuery /\ u.cli = [t.cli EXCEPT ![q] = "none"]
    BY <1>1 DEF Gone, Session
  <1>4. t.cli \in [QueryIds -> CliStates] BY <1>1 DEF Session
  <1>5. ResendsPaid(u) BY <1>3 DEF Kept, Sound, ResendsPaid
  <1>6. CliOwned(u) /\ NotIdleWhileTalking(u)
    BY <1>3, <1>4 DEF Kept, Sound, CliOwned, NotIdleWhileTalking
  <1> QED BY <1>2, <1>3, <1>5, <1>6 DEF Kept, Sound, Timed, Announced

(* parkForRestart writes the turn at work to disk before the exit.         *)
LEMMA ParkForRestartKept ==
    ASSUME NEW t, Kept(t)
    PROVE  Kept(ParkForRestart(t))
  BY SetPendingKept DEF ParkForRestart, Parkers, Causes

(* dispose stops the timers and closes the CLI of the session.             *)
LEMMA DisposeKept ==
    ASSUME NEW t, Kept(t)
    PROVE  Kept(Dispose(t))
  <1> DEFINE c == ClearStallWatchdog(t)
             d == DisposeActiveQuery(c)
             u == Dispose(t)
  <1>1. t \in Session BY DEF Kept, Sound
  <1>2. c \in Session BY <1>1, TimerTypes
  <1>3. SameCore(t, c) /\ c.status = t.status
    BY <1>1 DEF SameCore, ClearStallWatchdog, Session
  <1>4. Kept(c) BY <1>2, <1>3, SameCoreKept
  <1>5. Kept(d) BY <1>4, DisposeActiveQueryKept
  <1>6. d \in Session BY <1>5 DEF Kept, Sound
  <1>7. u \in Session BY <1>1, QueryTypes
  <1>8. SameCore(d, u) /\ u.status = d.status
    <2> HIDE DEF d
    <2> QED BY <1>6 DEF SameCore, Dispose, Session, d, c
  <1> QED BY <1>5, <1>7, <1>8, SameCoreKept

(* dispose() leaves no query installed.                                    *)
LEMMA DisposeEnds ==
    ASSUME NEW t \in Session
    PROVE  Dispose(t).activeQuery = NoQuery
  <1> DEFINE d == DisposeActiveQuery(ClearStallWatchdog(t))
  <1>1. ClearStallWatchdog(t) \in Session BY TimerTypes
  <1>2. CloseQuery(ClearStallWatchdog(t)) \in Session
    BY <1>1 DEF Session, CloseQuery, CliStates
  <1>3. d \in Session /\ d.activeQuery = NoQuery
    BY <1>1, <1>2, QueryTypes DEF DisposeActiveQuery, Session
  <1> HIDE DEF d
  <1> QED BY <1>3 DEF Dispose, Session, d

(* The answer of the status page by itself changes nothing else.           *)
LEMMA PollAnsweredKept ==
    ASSUME NEW t, Kept(t), t.polls > 0
    PROVE  LET u == PollAnswered(t)
           IN  /\ Kept(u) /\ SameCore(t, u) /\ u.status = t.status
               /\ u.retryTimer = t.retryTimer /\ u.stallTimer = t.stallTimer
               /\ u.notice = t.notice
  <1> DEFINE u == PollAnswered(t)
  <1>1. t \in Session BY DEF Kept, Sound
  <1>2. t.polls - 1 \in 0..MaxPolls BY <1>1, BudgetAssumption DEF Session
  <1>3. u \in Session BY <1>1, <1>2 DEF PollAnswered, Session
  <1>4. /\ SameCore(t, u) /\ u.status = t.status /\ u.retryTimer = t.retryTimer
        /\ u.stallTimer = t.stallTimer /\ u.notice = t.notice
    BY <1>1 DEF SameCore, PollAnswered, Session
  <1> QED BY <1>3, <1>4, SameCoreKept

(* An answer that finds the incident open changes nothing that is parked.  *)
LEMMA PollOpenKept ==
    ASSUME NEW t, Kept(t), t.polls > 0
    PROVE  LET u == PollOpen(t)
           IN  /\ Kept(u)
               /\ Timed(t) => Timed(u)
               /\ Announced(t) => Announced(u)
  <1> DEFINE a == PollAnswered(t)
             u == PollOpen(t)
  <1>1. /\ Kept(a) /\ SameCore(t, a) /\ a.status = t.status
        /\ a.retryTimer = t.retryTimer /\ a.stallTimer = t.stallTimer
        /\ a.notice = t.notice
    BY PollAnsweredKept
  <1> HIDE DEF a
  <1>2. a \in Session BY <1>1 DEF Kept, Sound
  <1>3. u = [a EXCEPT !.namedIncident = TRUE]
    BY DEF PollOpen, a
  <1>4. u \in Session BY <1>2, <1>3 DEF Session
  <1>5. /\ SameCore(a, u) /\ u.status = a.status /\ u.retryTimer = a.retryTimer
        /\ u.stallTimer = a.stallTimer /\ u.notice = a.notice
    BY <1>2, <1>3 DEF SameCore, Session
  <1> QED BY <1>1, <1>4, <1>5, SameCoreKept DEF SameCore, Timed, Announced

(* An answer that finds it closed sends the parked turn, or changes        *)
(* nothing.                                                                *)
LEMMA PollClearKept ==
    ASSUME NEW t, Kept(t), t.polls > 0,
           NEW moved \in BOOLEAN, NEW bin \in BOOLEAN, NEW q \in QueryIds
    PROVE  LET u == PollClear(t, moved, bin, q)
           IN  /\ Kept(u)
               /\ Timed(t) => Timed(u)
               /\ Announced(t) => Announced(u)
  <1> DEFINE a == PollAnswered(t)
             b == [a EXCEPT !.namedIncident = FALSE, !.retryTimer = FALSE]
             c == StopStatusWatch(b)
  <1>1. /\ Kept(a) /\ SameCore(t, a) /\ a.status = t.status
        /\ a.retryTimer = t.retryTimer /\ a.stallTimer = t.stallTimer
        /\ a.notice = t.notice
    BY PollAnsweredKept
  <1> HIDE DEF a
  <1>2. CASE ~t.namedIncident
    BY <1>1, <1>2 DEF PollClear, a, SameCore, Timed, Announced
  <1>3. CASE t.namedIncident
    <2>1. a \in Session BY <1>1 DEF Kept, Sound
    <2>2. c \in Session BY <2>1 DEF StopStatusWatch, Session
    <2>3. /\ SameCore(a, c) /\ c.status = a.status
          /\ c.stallTimer = a.stallTimer /\ c.notice = a.notice
      BY <2>1 DEF SameCore, StopStatusWatch, Session
    <2>4. Kept(c) /\ (Announced(t) => Announced(c))
      BY <1>1, <2>2, <2>3, SameCoreKept DEF SameCore, Announced
    <2>5. PollClear(t, moved, bin, q) = RunPendingRetry(c, moved, bin, q)
      BY <1>3 DEF PollClear, a
    <2> HIDE DEF c
    <2> QED BY <2>4, <2>5, RunPendingRetryKept
  <1> QED BY <1>2, <1>3

(* The watchdog ends, waits, or parks the silent turn.                     *)
LEMMA StallTickKept ==
    ASSUME NEW t, Kept(t)
    PROVE  LET u == StallTick(t)
           IN  /\ Kept(u)
               /\ Timed(t) => Timed(u)
               /\ Announced(t) => Announced(u)
  <1> DEFINE c == ClearStallWatchdog(t)
  <1>1. t \in Session BY DEF Kept, Sound
  <1>2. c \in Session BY <1>1, TimerTypes
  <1>3. SameCore(t, c) /\ c.status = t.status /\ c.retryTimer = t.retryTimer
    BY <1>1 DEF SameCore, ClearStallWatchdog, Session
  <1>4. Kept(c) BY <1>2, <1>3, SameCoreKept
  <1> HIDE DEF c
  <1>5. CASE t.status # "running"
    BY <1>3, <1>4, <1>5 DEF StallTick, c, SameCore, Timed, Announced
  <1>6. CASE t.status = "running" /\ t.lastSdkActivityAt # "silent"
    BY <1>6 DEF StallTick
  <1>7. CASE t.status = "running" /\ t.lastSdkActivityAt = "silent"
    <2>1. StallTick(t) = ParkForLimit(c, "stall", FALSE) BY <1>7 DEF StallTick, c
    <2> QED BY <1>4, <2>1, ParkForLimitKept DEF Causes
  <1> QED BY <1>5, <1>6, <1>7

-----------------------------------------------------------------------------
(* The inductive invariant.                                                *)

(* A session just constructed satisfies all that is said of sessions.      *)
LEMMA NewSessionSound ==
    ASSUME NEW file \in Nat \cup {NoTurn, TornFile}
    PROVE  LET n == NewSession(file, [q \in QueryIds |-> "none"])
           IN  Sound(n) /\ n.file = file /\ n.pending = NoTurn /\ n.status = "idle"
  <1> DEFINE n == NewSession(file, [q \in QueryIds |-> "none"])
  <1>1. n \in Session
    BY BudgetAssumption DEF NewSession, Session, Parkers, Notices, Ages, CliStates, NoTurn
  <1>2. ResendsPaid(n) BY BudgetAssumption DEF NewSession, ResendsPaid, Causes
  <1>3. CliOwned(n) /\ NotIdleWhileTalking(n)
    BY DEF NewSession, CliOwned, NotIdleWhileTalking
  <1> QED BY <1>1, <1>2, <1>3 DEF Sound, NewSession

(* The first state of the daemon satisfies the invariant.                  *)
LEMMA InitInvariant == Init => IInv
  <1> SUFFICES ASSUME Init PROVE IInv OBVIOUS
  <1>1. s = NewSession(NoTurn, [q \in QueryIds |-> "none"]) BY DEF Init
  <1>2. Sound(s) /\ s.file = NoTurn /\ s.pending = NoTurn /\ s.status = "idle"
    BY <1>1, NewSessionSound
  <1>3. TypeOK BY <1>2 DEF Init, TypeOK, Sound
  <1>4. ~TornDown BY DEF Init, TornDown
  <1> QED BY <1>2, <1>3, <1>4 DEF Init, IInv, Timed, Announced

(* A handler that keeps what holds of the session keeps the invariant.     *)
LEMMA HandlerStep ==
    ASSUME IInv, Running, NEW t, Kept(t), InCharge => Timed(t) /\ Announced(t), Handler(t)
    PROVE  IInv'
  <1>1. /\ s' = t /\ daemon' = daemon /\ life' = life /\ restarts' = restarts /\ orphans' = orphans
        /\ revived' = (revived \/ (TornDown /\ s.activeQuery = NoQuery /\ t.activeQuery # NoQuery))
    BY DEF Handler
  <1>2. t \in Session BY DEF Kept, Sound
  <1>r. revived' \in BOOLEAN BY <1>1, Zenon
  <1>3. TypeOK' BY <1>1, <1>2, <1>r DEF IInv, TypeOK
  <1>4. Sound(s)' /\ s'.file = s'.pending BY <1>1 DEF Kept, Sound, ResendsPaid, CliOwned, NotIdleWhileTalking
  <1>5. (InCharge => Timed(s) /\ Announced(s))' BY <1>1 DEF InCharge, Timed, Announced
  <1>6. daemon' # "down" BY <1>1 DEF Running
  <1>7. (Running /\ TornDown /\ ~revived => s.activeQuery = NoQuery)'
    <2>1. TornDown' => TornDown BY <1>1 DEF TornDown
    <2>2. Running /\ TornDown /\ ~revived => s.activeQuery = NoQuery BY DEF IInv
    <2>3. TornDown /\ ~revived' => ~revived /\ ~(s.activeQuery = NoQuery /\ t.activeQuery # NoQuery)
      BY <1>1, Zenon
    <2> QED BY <1>1, <2>1, <2>2, <2>3
  <1>8. "shutdown" \notin orphans' BY <1>1 DEF IInv
  <1> QED BY <1>3, <1>4, <1>5, <1>6, <1>7, <1>8 DEF IInv

(* A running daemon's session is Kept. *)
LEMMA RunningKept ==
    ASSUME IInv, Running
    PROVE  Kept(s) /\ s \in Session /\ (InCharge => Timed(s) /\ Announced(s))
  BY DEF IInv, Kept, TypeOK

(* What the user and the other sessions ask of the session.                *)
LEMMA RequestStep ==
    ASSUME IInv, User \/ AccountSwitched
    PROVE  IInv'
  <1>1. CASE UserSends
    <2>1. Running BY <1>1 DEF UserSends, Reachable
    <2>2. PICK bin \in BOOLEAN, q \in FreeQueries(s) : Handler(SendMessage(s, bin, q))
      BY <1>1 DEF UserSends
    <2>3. q \in QueryIds BY DEF FreeQueries
    <2>4. Kept(s) BY <2>1, RunningKept
    <2> QED BY <2>1, <2>2, <2>3, <2>4, SendMessageKept, HandlerStep
  <1>2. CASE UserInterrupts
    <2>1. Running /\ Handler(Interrupt(s)) BY <1>2 DEF UserInterrupts, Reachable
    <2>2. Kept(s) /\ (InCharge => Timed(s) /\ Announced(s)) BY <2>1, RunningKept
    <2>3. Kept(Interrupt(s)) /\ (InCharge => Timed(Interrupt(s)) /\ Announced(Interrupt(s)))
      BY <2>2, CancelPendingRetryKept DEF Interrupt, Timed
    <2> QED BY <2>1, <2>3, HandlerStep
  <1>3. CASE UserMoves \/ UserSetsAccount
    <2>1. Running /\ Handler(DisposeActiveQuery(s))
      BY <1>3 DEF UserMoves, UserSetsAccount, Reachable
    <2> QED BY <2>1, RunningKept, DisposeActiveQueryKept, HandlerStep
  <1>4. CASE AccountSwitched
    <2>1. Running /\ Handler(ActivateAccount(s)) BY <1>4 DEF AccountSwitched, Reachable
    <2> QED BY <2>1, RunningKept, ActivateAccountKept, HandlerStep
  <1>5. CASE UserDeletes
    <2>1. /\ Running /\ s' = Dispose(s) /\ life' = "deleted"
          /\ daemon' = daemon /\ restarts' = restarts /\ orphans' = orphans /\ revived' = revived
      BY <1>5 DEF UserDeletes, Reachable
    <2>2. Kept(Dispose(s)) BY <2>1, RunningKept, DisposeKept
    <2>3. TypeOK' BY <2>1, <2>2 DEF IInv, TypeOK, Kept, Sound
    <2>4. Sound(s)' /\ s'.file = s'.pending
      BY <2>1, <2>2 DEF Kept, Sound, ResendsPaid, CliOwned, NotIdleWhileTalking
    <2>5. s'.activeQuery = NoQuery BY <2>1, RunningKept, DisposeEnds
    <2> QED BY <2>1, <2>3, <2>4, <2>5 DEF IInv, InCharge, Running
  <1> QED BY <1>1, <1>2, <1>3, <1>4, <1>5 DEF User

(* What the timers and the status page bring.                              *)
LEMMA TimerStep ==
    ASSUME IInv, Timer
    PROVE  IInv'
  <1>0. Running
    BY DEF Timer, TimePasses, RetryFires, WatchdogFires, StatusTimerFires, StatusPageAnswers
  <1>k. Kept(s) /\ s \in Session /\ (InCharge => Timed(s) /\ Announced(s))
    BY <1>0, RunningKept
  <1>m. Moves \subseteq BOOLEAN /\ FreeQueries(s) \subseteq QueryIds BY DEF Moves, FreeQueries
  <1>1. CASE TimePasses
    <2>1. PICK age \in Ages : Handler([s EXCEPT !.lastSdkActivityAt = age])
      BY <1>1 DEF TimePasses, Ages
    <2> DEFINE u == [s EXCEPT !.lastSdkActivityAt = age]
    <2>2. /\ u \in Session /\ SameCore(s, u) /\ u.status = s.status /\ u.notice = s.notice
          /\ u.retryTimer = s.retryTimer /\ u.stallTimer = s.stallTimer
      BY <1>k DEF Session, SameCore
    <2>3. Kept(u) /\ (InCharge => Timed(u) /\ Announced(u))
      BY <1>k, <2>2, SameCoreKept DEF SameCore, Timed, Announced
    <2> QED BY <1>0, <2>1, <2>3, HandlerStep
  <1>2. CASE RetryFires
    <2> DEFINE r == [s EXCEPT !.retryTimer = FALSE]
    <2>1. PICK moved \in Moves, bin \in BOOLEAN, q \in FreeQueries(s) :
             Handler(RunPendingRetry(r, moved, bin, q))
      BY <1>2 DEF RetryFires
    <2>2. moved \in BOOLEAN /\ q \in QueryIds BY <1>m
    <2>3. /\ r \in Session /\ SameCore(s, r) /\ r.status = s.status /\ r.notice = s.notice
          /\ r.stallTimer = s.stallTimer
      BY <1>k DEF Session, SameCore
    <2>4. Kept(r) /\ (Announced(s) => Announced(r))
      BY <1>k, <2>3, SameCoreKept DEF SameCore, Announced
    <2> HIDE DEF r
    <2>5. /\ Kept(RunPendingRetry(r, moved, bin, q))
          /\ InCharge => /\ Timed(RunPendingRetry(r, moved, bin, q))
                         /\ Announced(RunPendingRetry(r, moved, bin, q))
      BY <1>k, <2>2, <2>4, RunPendingRetryKept
    <2> QED BY <1>0, <2>1, <2>5, HandlerStep
  <1>3. CASE WatchdogFires
    <2>1. Handler(StallTick(s)) BY <1>3 DEF WatchdogFires
    <2> QED BY <1>0, <1>k, <2>1, StallTickKept, HandlerStep
  <1>4. CASE StatusTimerFires
    <2> DEFINE u == StatusTick(s)
    <2>1. Handler(u) BY <1>4 DEF StatusTimerFires
    <2>2. u \in Session BY <1>k, TimerTypes DEF StatusTick
    <2>3. /\ SameCore(s, u) /\ u.status = s.status /\ u.notice = s.notice
          /\ u.retryTimer = s.retryTimer /\ u.stallTimer = s.stallTimer
      BY <1>k DEF SameCore, StatusTick, StopStatusWatch, StartPoll, Session
    <2>4. Kept(u) /\ (InCharge => Timed(u) /\ Announced(u))
      BY <1>k, <2>2, <2>3, SameCoreKept DEF SameCore, Timed, Announced
    <2> QED BY <1>0, <2>1, <2>4, HandlerStep
  <1>5. CASE StatusPageAnswers
    <2>1. s.polls > 0 BY <1>5 DEF StatusPageAnswers
    <2>2. CASE Handler(PollUnknown(s))
      <3>1. Kept(PollUnknown(s)) /\ (InCharge => Timed(PollUnknown(s)) /\ Announced(PollUnknown(s)))
        BY <1>k, <2>1, PollAnsweredKept DEF PollUnknown, SameCore, Timed, Announced
      <3> QED BY <1>0, <2>2, <3>1, HandlerStep
    <2>3. CASE Handler(PollOpen(s))
      BY <1>0, <1>k, <2>1, <2>3, PollOpenKept, HandlerStep
    <2>4. ASSUME NEW moved \in Moves, NEW bin \in BOOLEAN, NEW q \in FreeQueries(s),
                 Handler(PollClear(s, moved, bin, q))
          PROVE  IInv'
      <3>1. moved \in BOOLEAN /\ q \in QueryIds BY <1>m
      <3> QED BY <1>0, <1>k, <2>1, <2>4, <3>1, PollClearKept, HandlerStep
    <2> QED BY <1>5, <2>2, <2>3, <2>4 DEF StatusPageAnswers
  <1> QED BY <1>1, <1>2, <1>3, <1>4, <1>5 DEF Timer

(* The turn a query of its own begins or ends, seen from the session.      *)
LEMMA TurnKept ==
    ASSUME Kept(s), NEW q \in QueryIds, IsCurrent(s, q), NEW state \in {"open", "talking"}
    PROVE  LET u == Turn(q, state)
           IN  /\ u \in Session /\ ResendsPaid(u) /\ CliOwned(u) /\ u.file = u.pending
               /\ u.status # "idle" \/ state = "open" => Kept(u)
               /\ state = "open" /\ s.cli[q] # "closing" => BetweenTurns(u)
               /\ s.cli[q] = "closing" => u = s /\ BetweenTurns(u)
               /\ Timed(s) => Timed(u)
               /\ Announced(s) => Announced(u)
  <1> DEFINE u == Turn(q, state)
             c == [s.cli EXCEPT ![q] = state]
  <1>1. s \in Session /\ s.activeQuery = q BY DEF Kept, Sound, IsCurrent
  <1>2. s.cli \in [QueryIds -> CliStates] BY <1>1 DEF Session
  <1>3. CASE s.cli[q] = "closing"
    BY <1>1, <1>3 DEF Turn, Kept, Sound, BetweenTurns
  <1>4. CASE s.cli[q] # "closing"
    <2>1. /\ u \in Session /\ u.cli = c /\ u.activeQuery = s.activeQuery
          /\ u.pending = s.pending /\ u.file = s.file /\ u.parkedBy = s.parkedBy
          /\ u.consecutiveRetries = s.consecutiveRetries /\ u.resends = s.resends
          /\ u.status = s.status /\ u.notice = s.notice
          /\ u.retryTimer = s.retryTimer /\ u.stallTimer = s.stallTimer
      BY <1>1, <1>2, <1>4 DEF Turn, Session, CliStates
    <2> HIDE DEF u
    <2>2. ResendsPaid(u) BY <2>1 DEF Kept, Sound, ResendsPaid
    <2>3. CliOwned(u) BY <1>1, <1>2, <2>1 DEF Kept, Sound, CliOwned
    <2>4. u.status # "idle" \/ state = "open" => NotIdleWhileTalking(u)
      BY <1>1, <1>2, <2>1 DEF NotIdleWhileTalking
    <2>5. state = "open" => BetweenTurns(u)
      BY <1>1, <1>2, <2>1 DEF BetweenTurns
    <2>6. (Timed(s) => Timed(u)) /\ (Announced(s) => Announced(u))
      BY <2>1 DEF Timed, Announced
    <2> QED BY <1>4, <2>1, <2>2, <2>3, <2>4, <2>5, <2>6 DEF Kept, Sound, u
  <1> QED BY <1>3, <1>4

(* A message is handled for the installed query; it ends any other.        *)
LEMMA QuerySaysStep ==
    ASSUME IInv, NEW q \in QueryIds, NEW t, QuerySays(q, t),
           IsCurrent(s, q) => Kept(t) /\ (InCharge => Timed(t) /\ Announced(t))
    PROVE  IInv'
  <1>1. Running BY DEF QuerySays, Emits
  <1>2. Kept(s) /\ (InCharge => Timed(s) /\ Announced(s)) BY <1>1, RunningKept
  <1>3. CASE IsCurrent(s, q)
    BY <1>1, <1>3, HandlerStep DEF QuerySays
  <1>4. CASE ~IsCurrent(s, q)
    <2>1. Handler(Gone(s, q)) BY <1>4 DEF QuerySays
    <2> QED BY <1>1, <1>2, <2>1, GoneKept, HandlerStep
  <1> QED BY <1>3, <1>4

(* The end of a query: what its last handler leaves, without the query.    *)
LEMMA QueryFinishesStep ==
    ASSUME IInv, NEW q \in QueryIds, NEW t, QueryFinishes(q, t),
           IsCurrent(s, q) => /\ t \in Session /\ ResendsPaid(t) /\ CliOwned(t)
                              /\ t.file = t.pending /\ t.activeQuery \in {q, NoQuery}
                              /\ InCharge => Timed(t) /\ Announced(t)
    PROVE  IInv'
  <1>1. Running BY DEF QueryFinishes, Emits
  <1>2. Kept(s) /\ (InCharge => Timed(s) /\ Announced(s)) BY <1>1, RunningKept
  <1>3. CASE IsCurrent(s, q)
    <2>1. Handler(Gone(Ended(t, q), q)) BY <1>3 DEF QueryFinishes
    <2> QED BY <1>1, <1>3, <2>1, FinishedKept, HandlerStep
  <1>4. CASE ~IsCurrent(s, q)
    <2>1. Handler(Gone(s, q)) BY <1>4 DEF QueryFinishes
    <2> QED BY <1>1, <1>2, <2>1, GoneKept, HandlerStep
  <1> QED BY <1>3, <1>4

(* Whatever a query says, and however it ends, keeps the invariant.        *)
LEMMA SdkStep ==
    ASSUME IInv, NEW q \in QueryIds, SdkSpeaks(q) \/ SdkResult(q) \/ SdkStops(q)
    PROVE  IInv'
  <1>0. Running BY DEF SdkSpeaks, SdkResult, SdkStops, QuerySays, QueryFinishes, Emits
  <1>k. Kept(s) /\ s \in Session /\ (InCharge => Timed(s) /\ Announced(s))
    BY <1>0, RunningKept
  <1> DEFINE o == Turn(q, "open")
             a == Turn(q, "talking")
  <1>o. IsCurrent(s, q) => Kept(o) /\ BetweenTurns(o)
    BY <1>k, TurnKept
  <1>a. IsCurrent(s, q) => /\ a \in Session /\ ResendsPaid(a) /\ CliOwned(a)
                           /\ a.file = a.pending /\ (a.status # "idle" => Kept(a))
                           /\ InCharge => Timed(a) /\ Announced(a)
    BY <1>k, TurnKept
  <1> HIDE DEF o, a
  <1>1. CASE QuerySays(q, OnOther(s))
    <2>1. Kept(OnOther(s)) /\ (InCharge => Timed(OnOther(s)) /\ Announced(OnOther(s)))
      BY <1>k, HeardKept DEF OnOther
    <2> QED BY <1>1, <2>1, QuerySaysStep
  <1>2. CASE QuerySays(q, OnAssistant(a))
    <2>1. IsCurrent(s, q) => /\ Kept(OnAssistant(a))
                             /\ InCharge => Timed(OnAssistant(a)) /\ Announced(OnAssistant(a))
      BY <1>a, OnAssistantKept
    <2> QED BY <1>2, <2>1, QuerySaysStep
  <1>3. CASE QuerySays(q, OnAnswer(o))
    <2>1. IsCurrent(s, q) => Kept(OnAnswer(o)) /\ Timed(OnAnswer(o)) /\ Announced(OnAnswer(o))
      BY <1>o, OnAnswerKept
    <2> QED BY <1>3, <2>1, QuerySaysStep
  <1>4. ASSUME NEW moved \in Moves, QuerySays(q, OnLimited(o, moved))
        PROVE  IInv'
    <2>1. moved \in BOOLEAN BY DEF Moves
    <2>2. IsCurrent(s, q) => /\ Kept(OnLimited(o, moved)) /\ Timed(OnLimited(o, moved))
                             /\ Announced(OnLimited(o, moved))
      BY <1>o, <2>1, OnRefusedKept DEF OnLimited, Causes
    <2> QED BY <1>4, <2>2, QuerySaysStep
  <1>5. CASE QuerySays(q, OnOverloaded(o))
    <2>1. IsCurrent(s, q) => /\ Kept(OnOverloaded(o)) /\ Timed(OnOverloaded(o))
                             /\ Announced(OnOverloaded(o))
      BY <1>o, OnRefusedKept DEF OnOverloaded, Causes
    <2> QED BY <1>5, <2>1, QuerySaysStep
  <1>6. CASE QuerySays(q, OnLoginExpired(o, life = "live"))
    <2> DEFINE listed == (life = "live")
    <2>1. listed \in BOOLEAN OBVIOUS
    <2> HIDE DEF listed
    <2>2. IsCurrent(s, q) => /\ Kept(OnLoginExpired(o, listed)) /\ Timed(OnLoginExpired(o, listed))
                             /\ Announced(OnLoginExpired(o, listed))
      BY <1>o, <2>1, OnLoginExpiredKept
    <2>3. QuerySays(q, OnLoginExpired(o, listed)) BY <1>6 DEF listed
    <2> QED BY <2>2, <2>3, QuerySaysStep
  <1>7. CASE QueryFinishes(q, OnEnd(s))
    <2> DEFINE e == OnEnd(s)
    <2>1. /\ e \in Session /\ SameCore(s, e) /\ e.status = "idle"
          /\ e.retryTimer = s.retryTimer
      BY <1>k DEF OnEnd, Session, SameCore
    <2>2. /\ ResendsPaid(e) /\ CliOwned(e) /\ e.file = e.pending
          /\ IsCurrent(s, q) => e.activeQuery \in {q, NoQuery}
          /\ InCharge => Timed(e) /\ Announced(e)
      BY <1>k, <2>1 DEF Kept, Sound, SameCore, ResendsPaid, CliOwned, IsCurrent, Timed, Announced
    <2> QED BY <1>7, <2>1, <2>2, QueryFinishesStep
  <1>8. ASSUME NEW error \in {"overload", "launch", "other"}, QueryFinishes(q, OnThrow(s, error))
        PROVE  IInv'
    <2> DEFINE e == [s EXCEPT !.status = "error"]
               t == OnThrow(s, error)
    <2>1. /\ Kept(e) /\ SameCore(s, e) /\ e.status = "error" /\ e.retryTimer = s.retryTimer
      BY <1>k, StatusKept
    <2>2. Timed(s) => Timed(e) BY <2>1 DEF Timed, SameCore
    <2>3. Announced(e) BY <2>1 DEF Announced
    <2>4. e.activeQuery = s.activeQuery BY <2>1 DEF SameCore
    <2>5. t = IF error \in {"overload", "launch"} THEN ParkForLimit(e, error, FALSE) ELSE e
      BY DEF OnThrow
    <2> HIDE DEF e
    <2>6. /\ Kept(t) /\ (InCharge => Timed(t) /\ Announced(t))
          /\ t.activeQuery \in {s.activeQuery, NoQuery}
      BY <1>k, <2>1, <2>2, <2>3, <2>4, <2>5, ParkForLimitKept DEF Causes
    <2> HIDE DEF t
    <2>7. /\ t \in Session /\ ResendsPaid(t) /\ CliOwned(t) /\ t.file = t.pending
          /\ IsCurrent(s, q) => t.activeQuery \in {q, NoQuery}
      BY <2>6 DEF Kept, Sound, IsCurrent
    <2>8. QueryFinishes(q, t) BY <1>8 DEF t
    <2> QED BY <2>6, <2>7, <2>8, QueryFinishesStep
  <1> QED
    BY <1>1, <1>2, <1>3, <1>4, <1>5, <1>6, <1>7, <1>8 DEF SdkSpeaks, SdkResult, SdkStops, o, a

(* A stopped daemon leaves a blank session and the file it wrote; a CLI    *)
(* outlives it only if a query was still installed.                        *)
LEMMA StopStep ==
    ASSUME IInv, NEW file \in Nat \cup {NoTurn, TornFile},
           NEW cause \in {"abrupt", "revived", "shutdown"}, Stop(file, cause),
           cause = "shutdown" => s.activeQuery = NoQuery
    PROVE  IInv'
  <1>1. /\ s' = NewSession(file, [q \in QueryIds |-> "none"]) /\ daemon' = "down"
        /\ restarts' = restarts + 1 /\ life' = life /\ revived' = revived
        /\ orphans' = {cause : q \in {q \in QueryIds : s.cli[q] \in {"open", "talking"}}}
    BY DEF Stop
  <1>2. Sound(s') /\ s'.file = file BY <1>1, NewSessionSound
  <1>3. Sound(s)' BY <1>2 DEF Sound, ResendsPaid, CliOwned, NotIdleWhileTalking
  <1>4. TypeOK' BY <1>1, <1>2 DEF IInv, TypeOK, Sound
  <1>5. "shutdown" \notin orphans'
    <2> SUFFICES ASSUME cause = "shutdown",
                        NEW q \in QueryIds, s.cli[q] \in {"open", "talking"}
                 PROVE  FALSE
      BY <1>1
    <2> QED BY QueryAssumption DEF IInv, Sound, CliOwned
  <1> QED BY <1>1, <1>2, <1>3, <1>4, <1>5 DEF IInv, Running, InCharge

(* A start finds the file, and only the file.                              *)
LEMMA BootStep ==
    ASSUME IInv, Boot
    PROVE  IInv'
  <1> DEFINE c == ClearPersistedPending(s)
             r == [s EXCEPT !.pending = s.file, !.parkedBy = "restored",
                            !.consecutiveRetries = s.file, !.status = "running"]
  <1>1. /\ daemon = "down" /\ daemon' = "up" /\ life' = life /\ restarts' = restarts
        /\ revived' = FALSE /\ orphans' = {}
        /\ s \in Session /\ life \in {"live", "deleted"} /\ restarts \in Nat
    BY DEF Boot, IInv, TypeOK
  <1>2. s = NewSession(s.file, [q \in QueryIds |-> "none"]) BY <1>1 DEF IInv
  <1>3. /\ s.pending = NoTurn /\ s.parkedBy = "nobody" /\ s.resends = 0 /\ s.status = "idle"
        /\ s.activeQuery = NoQuery /\ s.cli = [q \in QueryIds |-> "none"]
        /\ s.consecutiveRetries = 0
    BY <1>2 DEF NewSession
  <1>4. Kept(c) /\ Timed(c) /\ Announced(c)
    <2>1. c \in Session BY <1>1, PendingTypes
    <2>2. /\ c.pending = NoTurn /\ c.file = NoTurn /\ c.parkedBy = "nobody" /\ c.resends = 0
          /\ c.consecutiveRetries = 0 /\ c.status = "idle" /\ c.activeQuery = NoQuery
          /\ c.cli = s.cli
      BY <1>1, <1>3 DEF ClearPersistedPending, Session
    <2> HIDE DEF c
    <2>3. ResendsPaid(c) BY <2>2, BudgetAssumption DEF ResendsPaid, Causes
    <2>4. CliOwned(c) /\ NotIdleWhileTalking(c)
      BY <1>3, <2>2 DEF CliOwned, NotIdleWhileTalking
    <2> QED BY <2>1, <2>2, <2>3, <2>4 DEF Kept, Sound, Timed, Announced
  <1>5. s.file = NoTurn => Kept(s) /\ Timed(s) /\ Announced(s)
    BY <1>3 DEF IInv, Kept, Timed, Announced
  <1>6. s.file \in Nat => Kept(ScheduleRetry(r)) /\ Timed(ScheduleRetry(r))
                          /\ Announced(ScheduleRetry(r))
    <2> SUFFICES ASSUME s.file \in Nat
                 PROVE  Kept(ScheduleRetry(r)) /\ Timed(ScheduleRetry(r))
                        /\ Announced(ScheduleRetry(r))
      OBVIOUS
    <2>1. r \in Session BY <1>1 DEF Session, Parkers
    <2>2. /\ r.pending = s.file /\ r.file = s.file /\ r.parkedBy = "restored" /\ r.resends = 0
          /\ r.consecutiveRetries = s.file /\ r.activeQuery = NoQuery /\ r.cli = s.cli
      BY <1>1, <1>3 DEF Session
    <2> HIDE DEF r
    <2>3. ResendsPaid(r) BY <2>2, BudgetAssumption DEF ResendsPaid, Causes, NoTurn
    <2>4. CliOwned(r) /\ NotIdleWhileTalking(r)
      BY <1>3, <2>2, QueryAssumption DEF CliOwned, NotIdleWhileTalking
    <2>5. Kept(r) BY <2>1, <2>2, <2>3, <2>4 DEF Kept, Sound
    <2> QED BY <2>2, <2>5, ScheduleRetryKept DEF SameCore, Announced, NoTurn
  <1>7. (s' = s /\ s.file = NoTurn) \/ s' = c \/ s' = RestorePending(s)
    BY DEF Boot
  <1>8. RestorePending(s) = IF s.file \notin Nat THEN c ELSE ScheduleRetry(r)
    BY DEF RestorePending
  <1> HIDE DEF c, r
  <1>9. Kept(s') /\ Timed(s') /\ Announced(s')
    BY <1>4, <1>5, <1>6, <1>7, <1>8
  <1>10. Sound(s)' /\ s'.file = s'.pending /\ (Timed(s) /\ Announced(s))'
    BY <1>9 DEF Kept, Sound, ResendsPaid, CliOwned, NotIdleWhileTalking, Timed, Announced
  <1>11. TypeOK' BY <1>1, <1>9 DEF TypeOK, Kept, Sound
  <1>12. TornDown' => s'.activeQuery = NoQuery
    <2>1. TornDown' => life = "deleted" BY <1>1 DEF TornDown
    <2>2. life = "deleted" => s' = s \/ s' = ClearPersistedPending(s) BY DEF Boot
    <2>3. ClearPersistedPending(s).activeQuery = NoQuery BY <1>1, <1>3 DEF ClearPersistedPending, Session
    <2> QED BY <1>3, <2>1, <2>2, <2>3
  <1> QED BY <1>1, <1>10, <1>11, <1>12 DEF IInv

(* The daemon's own life: shutdown, exit, standing down, crash and start.  *)
LEMMA LifeStep ==
    ASSUME IInv, Life
    PROVE  IInv'
  <1>f. s.file \in Nat \cup {NoTurn, TornFile} BY DEF IInv, TypeOK, Session
  <1>1. CASE Shutdown
    <2> DEFINE d == IF life = "live" THEN Dispose(ParkForRestart(s)) ELSE s
    <2>1. /\ daemon = "up" /\ daemon' = "closing" /\ s' = d
          /\ life' = life /\ restarts' = restarts /\ orphans' = orphans /\ revived' = revived
      BY <1>1 DEF Shutdown
    <2>2. Kept(s) BY <2>1, RunningKept DEF Running
    <2>3. Kept(d) BY <2>2, ParkForRestartKept, DisposeKept
    <2>6. ~revived => d.activeQuery = NoQuery
      <3>1. CASE life = "live"
        <4>1. ParkForRestart(s) \in Session BY <2>2, ParkForRestartKept DEF Kept, Sound
        <4> QED BY <3>1, <4>1, DisposeEnds
      <3>2. CASE life # "live"
        <4>1. TornDown BY <3>2 DEF TornDown, IInv, TypeOK
        <4> QED BY <2>1, <3>2, <4>1 DEF IInv, Running
      <3> QED BY <3>1, <3>2
    <2> HIDE DEF d
    <2>4. TypeOK' BY <2>1, <2>3 DEF IInv, TypeOK, Kept, Sound
    <2>5. Sound(s)' /\ s'.file = s'.pending
      BY <2>1, <2>3 DEF Kept, Sound, ResendsPaid, CliOwned, NotIdleWhileTalking
    <2> QED BY <2>1, <2>4, <2>5, <2>6 DEF IInv, InCharge
  <1>2. CASE Exit
    <2>1. ~revived => s.activeQuery = NoQuery
      BY <1>2 DEF Exit, IInv, Running, TornDown
    <2>2. CASE revived BY <1>2, <1>f, <2>2, StopStep DEF Exit
    <2>3. CASE ~revived BY <1>2, <1>f, <2>1, <2>3, StopStep DEF Exit
    <2> QED BY <2>2, <2>3
  <1>3. CASE Crash \/ StandDown
    BY <1>3, <1>f, StopStep DEF Crash, StandDown
  <1>4. CASE Boot
    BY <1>4, BootStep
  <1> QED BY <1>1, <1>2, <1>3, <1>4 DEF Life

(* A step that changes no variable keeps the invariant.                    *)
LEMMA StutterStep ==
    ASSUME IInv, UNCHANGED vars
    PROVE  IInv'
  <1>1. /\ s' = s /\ daemon' = daemon /\ life' = life /\ restarts' = restarts
        /\ revived' = revived /\ orphans' = orphans
    BY DEF vars
  <1> QED
    BY <1>1 DEF IInv, TypeOK, Sound, ResendsPaid, CliOwned, NotIdleWhileTalking, Running,
                TornDown, InCharge, Timed, Announced

(* The inductive invariant holds of every behaviour of the session, for    *)
(* every retry budget, whatever the user, the SDK, the timers, the status  *)
(* page, the other sessions and the operating system do and in any order.  *)
THEOREM InvariantHolds == Spec => []IInv
  <1>1. Init => IInv BY InitInvariant
  <1>2. IInv /\ [Next]_vars => IInv'
    <2> SUFFICES ASSUME IInv, [Next]_vars PROVE IInv' OBVIOUS
    <2>1. CASE User \/ AccountSwitched BY <2>1, RequestStep
    <2>2. CASE Timer BY <2>2, TimerStep
    <2>3. CASE Sdk BY <2>3, SdkStep DEF Sdk
    <2>4. CASE Life BY <2>4, LifeStep
    <2>5. CASE UNCHANGED vars BY <2>5, StutterStep
    <2> QED BY <2>1, <2>2, <2>3, <2>4, <2>5 DEF Next
  <1> QED BY <1>1, <1>2, PTL DEF Spec

(* Every state the session, its file, its timers and its CLI processes     *)
(* reach is one of the declared ones.                                      *)
THEOREM TypeCorrect == Spec => []TypeOK
  <1>1. IInv => TypeOK BY DEF IInv
  <1> QED BY <1>1, InvariantHolds, PTL

(* The pending-turn file and the parked turn agree whenever the event loop *)
(* is free: parkForLimit, runPendingRetry, cancelPendingRetry, results,    *)
(* account switches and shutdown all keep both in step.                    *)
THEOREM FileAgrees == Spec => []FileMatchesPending
  <1>1. IInv => FileMatchesPending BY DEF IInv, FileMatchesPending
  <1> QED BY <1>1, InvariantHolds, PTL

(* In a daemon that is up, a live session's parked turn has its retry      *)
(* timer, whichever path parked it last.                                   *)
THEOREM ParkedTurnsAreTimed == Spec => []ParkedHasTimer
  <1>1. IInv => ParkedHasTimer BY DEF IInv, ParkedHasTimer, Timed
  <1> QED BY <1>1, InvariantHolds, PTL

(* consecutiveRetries bounds the automatic resends between two answers,    *)
(* cancellations or give-ups: each was paid for by parkForLimit.           *)
THEOREM ResendsAreBounded == Spec => []ResendsBounded
  <1>1. IInv => ResendsBounded BY DEF IInv, Sound, ResendsPaid, ResendsBounded
  <1> QED BY <1>1, InvariantHolds, PTL

(* Every CLI process that was not told to close is the installed query's,  *)
(* and a daemon told to stop leaves none behind, unless its session began  *)
(* a query after the teardown.                                             *)
THEOREM NoCliIsOrphaned == Spec => []NoOrphanCli
  <1>1. IInv => NoOrphanCli BY DEF IInv, Sound, CliOwned, NoOrphanCli
  <1> QED BY <1>1, InvariantHolds, PTL

(* A session whose main thread is in a turn is not idle, whatever a query  *)
(* that was replaced still says or how it ends.                            *)
THEOREM SpeakingSessionsAreNotIdle == Spec => []SpeakingIsNotIdle
  <1>1. IInv => SpeakingIsNotIdle
    BY DEF IInv, Sound, NotIdleWhileTalking, SpeakingIsNotIdle
  <1> QED BY <1>1, InvariantHolds, PTL

(* A running session that no watchdog and no queued retry stands behind    *)
(* has said that its retry was cancelled or given up.                      *)
THEOREM HangsAreAnnounced == Spec => []HangIsAnnounced
  <1>1. IInv => HangIsAnnounced BY DEF IInv, Announced, HangIsAnnounced
  <1> QED BY <1>1, InvariantHolds, PTL
=============================================================================
