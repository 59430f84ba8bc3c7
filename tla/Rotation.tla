------------------------------ MODULE Rotation ------------------------------
(***************************************************************************)
(* Which account the daemon's sessions run on: the choice that             *)
(* daemon/src/accounts.ts keeps, the decisions of daemon/src/rotation.ts   *)
(* after a plan limit, an expired login and before a retry, and what       *)
(* daemon/src/main.ts does to every session when the account changes.      *)
(*                                                                         *)
(* Accounts are config directories, numbered in the order of the menu;     *)
(* account 1 is the default one.  Several may hold the same login, and a   *)
(* login is what a limit or an expiry is about.                            *)
(*                                                                         *)
(* Times are what is left of them: an entry `limited[k]` or the `at` of a  *)
(* parked turn is 0 when its time has come, and Tick is the clock.  One    *)
(* life of the daemon: all of this but the chosen account is in memory     *)
(* only, and a daemon that starts finds parked turns on disk.              *)
(***************************************************************************)
EXTENDS Integers, FiniteSets

CONSTANTS
    N,                  \* accounts
    Logins,             \* Claude accounts that one can be logged into
    LoginOf,            \* account -> its identity (identityOf)
    Sessions,
    WorkingLogins,      \* logins that nothing is ever refused on
    SWITCH_COOLDOWN_MS, SWITCH_SETTLE_MS, MIN_WAIT_MS, MAX_WAIT_MS, STALL_RETRY_MS,
    MAX_ATTEMPTS,
    MaxDisturbances     \* bound: what users and stalls do besides sending

Accounts == 1..N

(* An account whose identity cannot be read counts under its directory. *)
Keys == Logins \cup Accounts

ASSUME RotationAssumption ==
    /\ N \in Nat \ {0}
    /\ LoginOf \in [Accounts -> Keys]
    /\ \A a, b \in Accounts : LoginOf[a] = b => a = b
    /\ WorkingLogins \subseteq Keys
    /\ {SWITCH_COOLDOWN_MS, SWITCH_SETTLE_MS, MIN_WAIT_MS, MAX_WAIT_MS, STALL_RETRY_MS,
        MAX_ATTEMPTS, MaxDisturbances} \subseteq Nat
    /\ 0 < MIN_WAIT_MS

VARIABLES
    named,      \* the accounts other than the default one that hold credentials
    chosen,     \* activeConfigDir
    limited,    \* RotationState.limited: time left, 0 for none
    unusable,   \* RotationState.unusable
    cooldown,   \* time left of SWITCH_COOLDOWN_MS since lastSwitchAt
    enabled,    \* options.switchAccountOnLimit
    work,       \* per session, see Work
    refused,    \* history: accounts whose query met a limit or an expired login
    disturbances

rotationVars == <<named, chosen, limited, unusable, cooldown, enabled, work, refused, disturbances>>

None == 0       \* no account, no query

(* A session: whether a turn runs ("working", and "hung" once the watchdog *)
(* has given it up), is queued ("parked"), the SDK spoke less than 45 s    *)
(* ago ("recent"), or none of these; the account its query was launched    *)
(* on; the time left until its retry, and consecutiveRetries.              *)
States == {"idle", "recent", "working", "hung", "parked"}

Work == [ state : States, query : Accounts \cup {None}, at : Nat, tries : Nat ]

Busy == {"recent", "working", "hung"}

-----------------------------------------------------------------------------
(* The account list                                                        *)

(* defaultTwin: a named account with the default account's login.  Then    *)
(* the default is neither listed nor used.                                 *)
Twins == {a \in named : LoginOf[a] = LoginOf[1]}

FirstOf(S) == CHOOSE a \in S : \A b \in S : a <= b

Listed == named \cup (IF Twins = {} THEN {1} ELSE {})

(* effectiveActive. *)
Active == IF chosen = 1 /\ Twins # {} THEN FirstOf(Twins) ELSE chosen

(* What the active account is filed under. *)
ActiveKey == IF Active \in Listed THEN LoginOf[Active] ELSE Active

-----------------------------------------------------------------------------
(* rotation.ts                                                             *)

Usable(a, lim, unus) == LoginOf[a] \notin unus /\ lim[LoginOf[a]] = 0

(* The place of `a` in the list, read from the account after `current`, or *)
(* from the top if that one is not listed.                                 *)
Place(current, a) ==
    IF current \notin Listed THEN a ELSE IF a > current THEN a - current ELSE a - current + N

(* The accounts a switch may go to: not the same login as the active one.  *)
Candidates(current, lim, unus) ==
    {a \in Listed \ {current} : /\ current \in Listed => LoginOf[a] # LoginOf[current]
                                /\ Usable(a, lim, unus)}

(* Mutant: always from the top of the list. *)
NextUsableAccount_FromTheTop(current, lim, unus) ==
    LET C == Candidates(current, lim, unus)
    IN  IF Cardinality(Listed) < 2 \/ C = {} THEN None ELSE FirstOf(C)

NextUsableAccount(current, lim, unus) ==
    LET C == Candidates(current, lim, unus)
    IN  IF Cardinality(Listed) < 2 \/ C = {} THEN None
        ELSE CHOOSE a \in C : \A b \in C : Place(current, a) <= Place(current, b)

SoonestEnd(lim) ==
    LET ends == {lim[k] : k \in {j \in Keys : lim[j] > 0}}
    IN  CHOOSE e \in ends : \A f \in ends : e <= f

(* planAfterLimit: the account to move to, and the wait.  `lim` has the    *)
(* active account's own limit in it already.                               *)
PlanAfterLimit(lim, ownWait) ==
    LET next == NextUsableAccount(Active, lim, unusable) IN
    IF ~enabled \/ Cardinality(Listed) < 2 THEN [to |-> None, wait |-> ownWait]
    ELSE IF cooldown > 0 THEN
        [to |-> None,
         wait |-> IF Active \in Listed /\ ~Usable(Active, lim, unusable)
                  THEN cooldown + SWITCH_SETTLE_MS ELSE SWITCH_SETTLE_MS]
    ELSE IF next # None THEN [to |-> next, wait |-> SWITCH_SETTLE_MS]
    ELSE [to |-> None, wait |-> SoonestEnd(lim)]

(* Mutant: a due retry always moves on. *)
AccountForRetry_Always ==
    IF ~enabled \/ Cardinality(Listed) < 2 THEN None
    ELSE NextUsableAccount(Active, limited, unusable)

AccountForRetry ==
    IF \/ ~enabled \/ Cardinality(Listed) < 2
       \/ Active \in Listed /\ Usable(Active, limited, unusable)
    THEN None
    ELSE NextUsableAccount(Active, limited, unusable)

-----------------------------------------------------------------------------
(* main.ts                                                                 *)

Disposed(w) == [s \in Sessions |-> [w[s] EXCEPT !.query = None]]

(* parkForAccountSwitch, unless a turn is queued already. *)
CarryOver(w) ==
    [s \in Sessions |->
        IF w[s].state \in Busy
        THEN [w[s] EXCEPT !.state = "parked", !.at = SWITCH_SETTLE_MS]
        ELSE w[s]]

(* activateAccount: the work of the sessions after a switch.  Mutant: the  *)
(* turns it cuts off are not queued.                                       *)
ActivateAccount_NoCarry(w) == Disposed(w)

(* Mutant: only the turn that was refused gets a new query. *)
ActivateAccount_KeepsQueries(w) == CarryOver(w)

ActivateAccount(w) == Disposed(CarryOver(w))

(* setAccount does not queue what it cuts off. *)
SetAccountWork(w) == Disposed(w)

Disturb == disturbances < MaxDisturbances /\ disturbances' = disturbances + 1

(* The installed query of s has a result: of the turn that runs, or,       *)
(* outside of one, of its background agents.                               *)
Result(s) ==
    /\ work[s].query # None
    /\ IF work[s].state = "working" THEN UNCHANGED disturbances ELSE Disturb

ParkForLimit(w, s, wait) ==
    [w EXCEPT ![s] = [w[s] EXCEPT !.state = "parked", !.at = wait, !.tries = w[s].tries + 1]]

(* The turn of s is over, and its retries start anew. *)
Over(w, s, state) == [w EXCEPT ![s] = [w[s] EXCEPT !.state = state, !.at = 0, !.tries = 0]]

(* A result that refuses the turn of s for a plan limit: parkForLimit and  *)
(* onLimited.  `ownWait` is what planRetry makes of the usage windows and  *)
(* the text.                                                               *)
Limited(s, ownWait) ==
    LET lim  == [limited EXCEPT ![ActiveKey] = ownWait]
        plan == PlanAfterLimit(lim, ownWait)
    IN  /\ Result(s)
        /\ LoginOf[work[s].query] \notin WorkingLogins
        /\ refused' = refused \cup {work[s].query}
        /\ \/ /\ work[s].tries + 1 > MAX_ATTEMPTS       \* giving up
              /\ work' = Over(work, s, "recent")
              /\ UNCHANGED <<chosen, limited, cooldown>>
           \/ /\ work[s].tries + 1 <= MAX_ATTEMPTS
              /\ limited' = lim
              /\ IF plan.to # None
                 THEN /\ chosen' = plan.to /\ cooldown' = SWITCH_COOLDOWN_MS
                      /\ work' = ParkForLimit(ActivateAccount(work), s, plan.wait)
                 ELSE /\ work' = ParkForLimit(work, s, plan.wait)
                      /\ UNCHANGED <<chosen, cooldown>>
        /\ UNCHANGED <<named, unusable, enabled>>

(* A result that says the login has expired: onAuthFailure. *)
AuthFails(s) ==
    LET unus == unusable \cup {ActiveKey}
        next == IF enabled THEN NextUsableAccount(Active, limited, unus) ELSE None
    IN  /\ Result(s)
        /\ LoginOf[work[s].query] \notin WorkingLogins
        /\ refused' = refused \cup {work[s].query}
        /\ unusable' = unus
        /\ IF next # None
           THEN /\ chosen' = next /\ cooldown' = SWITCH_COOLDOWN_MS
                /\ work' = ParkForLimit(ActivateAccount(work), s, SWITCH_SETTLE_MS)
           ELSE /\ work' = Over(work, s, "recent")
                /\ UNCHANGED <<chosen, cooldown>>
        /\ UNCHANGED <<named, limited, enabled>>

(* sendMessage, into the query there is or a new one on account a. *)
Sent(w, s, a) ==
    [w EXCEPT ![s] = [w[s] EXCEPT !.state = "working", !.at = 0,
                                  !.query = IF w[s].query = None THEN a ELSE w[s].query]]

(* runPendingRetry: beforeRetry, then the message. *)
RetryFires(s) ==
    LET target == AccountForRetry IN
    /\ work[s].state = "parked" /\ work[s].at = 0
    /\ IF target # None
       THEN /\ chosen' = target /\ cooldown' = SWITCH_COOLDOWN_MS
            /\ work' = Sent(ActivateAccount(work), s, target)
       ELSE /\ work' = Sent(work, s, Active)
            /\ UNCHANGED <<chosen, cooldown>>
    /\ UNCHANGED <<named, limited, unusable, enabled, refused, disturbances>>

(* A message of the user, which cancels a queued turn. *)
Send(s) ==
    /\ work' = Sent(IF work[s].state = "parked" THEN Over(work, s, "recent") ELSE work, s, Active)
    /\ UNCHANGED <<named, chosen, limited, unusable, cooldown, enabled, refused, disturbances>>

(* A result that is an answer. *)
Answered(s) ==
    /\ Result(s)
    /\ work' = Over(work, s, "recent")
    /\ UNCHANGED <<named, chosen, limited, unusable, cooldown, enabled, refused>>

(* 45 s without a message of the SDK. *)
Quietens(s) ==
    /\ work[s].state = "recent"
    /\ work' = [work EXCEPT ![s] = [work[s] EXCEPT !.state = "idle"]]
    /\ UNCHANGED <<named, chosen, limited, unusable, cooldown, enabled, refused, disturbances>>

(* The watchdog parks a turn that has gone silent, or that setAccount cut. *)
Stalls(s) ==
    /\ work[s].state = "working"
    /\ IF work[s].query = None THEN UNCHANGED disturbances ELSE Disturb
    /\ work' = IF work[s].tries + 1 > MAX_ATTEMPTS
               THEN Over(work, s, "hung")
               ELSE ParkForLimit([work EXCEPT ![s] = [work[s] EXCEPT !.query = None]], s, STALL_RETRY_MS)
    /\ UNCHANGED <<named, chosen, limited, unusable, cooldown, enabled, refused>>

SetAccount(a) ==
    /\ Disturb
    /\ chosen' = a
    /\ work' = SetAccountWork(work)
    /\ UNCHANGED <<named, limited, unusable, cooldown, enabled, refused>>

(* submitLoginCode: a fresh login in the account's directory.  It is filed *)
(* under its login, or under its directory if it is not listed.            *)
SubmitLoginCode(a) ==
    /\ Disturb
    /\ named' = named \cup ({a} \ {1})
    /\ unusable' = unusable \ {IF a # 1 \/ Twins = {} THEN LoginOf[a] ELSE a}
    /\ chosen' = a /\ cooldown' = SWITCH_COOLDOWN_MS
    /\ work' = ActivateAccount(work)
    /\ UNCHANGED <<limited, enabled, refused>>

(* A named account is added or removed outside the daemon. *)
AccountsChange(a) ==
    /\ Disturb
    /\ a # 1
    /\ named' = IF a \in named THEN named \ {a} ELSE named \cup {a}
    /\ UNCHANGED <<chosen, limited, unusable, cooldown, enabled, work, refused>>

SetOptions ==
    /\ Disturb
    /\ enabled' = ~enabled
    /\ UNCHANGED <<named, chosen, limited, unusable, cooldown, work, refused>>

(* What is left of a time after a tick. *)
Less(t) == IF t > 0 THEN t - 1 ELSE 0

Tick ==
    /\ limited' = [k \in Keys |-> Less(limited[k])]
    /\ cooldown' = Less(cooldown)
    /\ work' = [s \in Sessions |-> [work[s] EXCEPT !.at = Less(work[s].at)]]
    /\ UNCHANGED <<named, chosen, unusable, enabled, refused, disturbances>>

-----------------------------------------------------------------------------

RotationInit ==
    /\ named \in SUBSET (Accounts \ {1})
    /\ chosen \in named \cup {1}
    /\ limited = [k \in Keys |-> 0] /\ unusable = {} /\ cooldown = 0 /\ enabled = TRUE
    /\ \E parked \in SUBSET Sessions :
         work = [s \in Sessions |-> [state |-> IF s \in parked THEN "parked" ELSE "idle",
                                     query |-> None, at |-> 0, tries |-> 0]]
    /\ refused = {} /\ disturbances = 0

TurnEnds(s) ==
    \/ \E wait \in MIN_WAIT_MS..MAX_WAIT_MS : Limited(s, wait)
    \/ AuthFails(s)
    \/ Answered(s)

RotationNext ==
    \/ \E s \in Sessions :
         TurnEnds(s) \/ RetryFires(s) \/ Send(s) \/ Quietens(s) \/ Stalls(s)
    \/ \E a \in Accounts : SetAccount(a) \/ SubmitLoginCode(a) \/ AccountsChange(a)
    \/ SetOptions
    \/ Tick

RotationSpec == RotationInit /\ [][RotationNext]_rotationVars

-----------------------------------------------------------------------------
(* Properties                                                              *)

RotationTypeOK ==
    /\ named \subseteq Accounts \ {1}
    /\ chosen \in Accounts
    /\ limited \in [Keys -> Nat]
    /\ unusable \subseteq Keys
    /\ cooldown \in Nat /\ disturbances \in Nat
    /\ enabled \in BOOLEAN
    /\ work \in [Sessions -> Work]
    /\ refused \subseteq Accounts

(* Every live query runs on the login the daemon takes for the active one: *)
(* no switch, by whomever, and no change of the account list leaves a      *)
(* query behind whose refusal would be charged to another login.           *)
QueriesRunOnActive ==
    \A s \in Sessions : work[s].query # None => LoginOf[work[s].query] = LoginOf[Active]

(* A login is held to be spent or expired only if a query on it, or on the *)
(* directory it is filed under, was refused.                               *)
BlameIsRight ==
    \A k \in Keys : limited[k] > 0 \/ k \in unusable =>
        \E a \in refused : k \in {LoginOf[a], a}

(* Their inductive strengthening: a choice other than the default names    *)
(* the very account that every query was launched on, and the default one  *)
(* the login.                                                              *)
QueriesRunOnChosen ==
    \A s \in Sessions : work[s].query # None =>
        /\ LoginOf[work[s].query] = LoginOf[chosen]
        /\ chosen # 1 => work[s].query = chosen

IInv == RotationTypeOK /\ QueriesRunOnChosen /\ BlameIsRight

(* A turn of a session that works is never cut off with nothing queued,    *)
(* except by the user's own choice of an account, which is a disturbance.  *)
CutTurnsAreQueued ==
    disturbances = 0 =>
        \A s \in Sessions : work[s].state = "working" => work[s].query # None

(* The daemon by itself leaves an account only when its login is known to  *)
(* be spent or expired (or the account is gone), and only for a listed one *)
(* whose login is another and not known to be either.                      *)
SwitchIsJustified ==
    [][chosen' # chosen /\ disturbances' = disturbances =>
         /\ Active \in Listed => ~Usable(Active, limited', unusable')
         /\ chosen' \in Listed
         /\ Usable(chosen', limited', unusable')]_rotationVars

(* As long as one listed account works, the search for it is short: the    *)
(* first of the others costs a turn one of its retries, and each further   *)
(* one at most two, however many sessions search at once.                  *)
Good == {a \in Listed : LoginOf[a] \in WorkingLogins}
Bad  == Listed \ Good

SearchIsShort ==
    disturbances = 0 /\ Good # {} =>
        \A s \in Sessions : work[s].tries < 2 * Cardinality(Bad) \/ work[s].tries = 0
=============================================================================
