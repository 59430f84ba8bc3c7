--------------------------- MODULE RotationProofs ---------------------------
(***************************************************************************)
(* Proofs about Rotation: for any number of accounts, logins and sessions  *)
(* and any waits, a refusal is charged to the login that was refused, the  *)
(* daemon leaves an account only with reason, and it is not long before it *)
(* finds one that works.                                                   *)
(***************************************************************************)
EXTENDS Rotation, FiniteSetTheorems, WellFoundedInduction, TLAPS

-----------------------------------------------------------------------------
(* The account list and the choice of the next account                     *)

(* A non-empty set of numbers has a least one.                             *)
LEMMA LeastOf ==
    ASSUME NEW T \in SUBSET Nat, T # {}
    PROVE  \E x \in T : \A y \in T : x <= y
  <1>1. \E x \in T : \A y \in T : ~(<<y, x>> \in OpToRel(<, Nat))
    BY WFMin, NatLessThanWellFounded
  <1>2. ASSUME NEW x \in Nat, NEW y \in Nat, y < x
        PROVE  <<y, x>> \in OpToRel(<, Nat)
    BY <1>2, Zenon DEF OpToRel
  <1>3. \E x \in T : \A y \in T : ~(y < x) BY <1>1, <1>2, Zenon
  <1> QED BY <1>3

(* The first account of a non-empty list (defaultTwin) is one of the list. *)
LEMMA FirstOfIsIn ==
    ASSUME NEW S \in SUBSET Accounts, S # {}
    PROVE  FirstOf(S) \in S
  <1>1. S \in SUBSET Nat BY RotationAssumption DEF Accounts
  <1>2. \E x \in S : \A y \in S : x <= y BY <1>1, LeastOf
  <1> QED BY <1>2 DEF FirstOf

(* effectiveActive is an account with the login of the chosen one.         *)
LEMMA ActiveLogin ==
    ASSUME RotationTypeOK
    PROVE  /\ Active \in Accounts
           /\ LoginOf[Active] = LoginOf[chosen]
           /\ chosen # 1 => Active = chosen
           /\ Active \notin Listed => chosen # 1
           /\ ActiveKey \in Keys
  <1>1. Twins \in SUBSET Accounts BY DEF RotationTypeOK, Twins
  <1>2. Twins # {} => FirstOf(Twins) \in Twins BY <1>1, FirstOfIsIn
  <1>3. /\ Active \in Accounts
        /\ LoginOf[Active] = LoginOf[chosen]
        /\ chosen # 1 => Active = chosen
        /\ Active \notin Listed => chosen # 1
    BY <1>1, <1>2 DEF RotationTypeOK, Active, Twins, Listed
  <1>4. ActiveKey \in Keys BY <1>3, RotationAssumption DEF ActiveKey, Keys
  <1> QED BY <1>3, <1>4

(* nextUsableAccount finds nothing, or a candidate.                        *)
LEMMA NextIsCandidate ==
    ASSUME RotationTypeOK, NEW lim, NEW unus, NEW c \in Accounts
    PROVE  /\ NextUsableAccount(c, lim, unus) \in Accounts \cup {None}
           /\ NextUsableAccount(c, lim, unus) # None =>
                NextUsableAccount(c, lim, unus) \in Candidates(c, lim, unus)
  <1> DEFINE C == Candidates(c, lim, unus)
             P == {Place(c, a) : a \in C}
  <1>1. Listed \subseteq Accounts BY RotationAssumption DEF RotationTypeOK, Listed, Accounts
  <1>2. C \subseteq Accounts BY <1>1 DEF Candidates
  <1>3. ASSUME NEW a \in Accounts PROVE Place(c, a) \in Nat
    BY RotationAssumption DEF Place, Accounts
  <1>4. P \in SUBSET Nat BY <1>2, <1>3
  <1>5. C # {} => \E a \in C : \A b \in C : Place(c, a) <= Place(c, b)
    <2> SUFFICES ASSUME C # {} PROVE \E a \in C : \A b \in C : Place(c, a) <= Place(c, b)
      OBVIOUS
    <2>1. P # {} OBVIOUS
    <2>2. PICK x \in P : \A y \in P : x <= y BY <2>1, <1>4, LeastOf
    <2> QED BY <2>2
  <1> HIDE DEF C
  <1>6. C # {} => (CHOOSE a \in C : \A b \in C : Place(c, a) <= Place(c, b)) \in C BY <1>5
  <1>7. NextUsableAccount(c, lim, unus) =
          IF Cardinality(Listed) < 2 \/ C = {} THEN None
          ELSE CHOOSE a \in C : \A b \in C : Place(c, a) <= Place(c, b)
    BY DEF NextUsableAccount, C
  <1>8. /\ NextUsableAccount(c, lim, unus) \in C \cup {None}
        /\ NextUsableAccount(c, lim, unus) # None => NextUsableAccount(c, lim, unus) \in C
    BY <1>6, <1>7
  <1> QED BY <1>2, <1>8 DEF C

(* planAfterLimit plans a wait, and moves to a candidate or not at all.    *)
LEMMA PlanIsCandidate ==
    ASSUME RotationTypeOK, NEW lim \in [Keys -> Nat], NEW ownWait \in Nat,
           lim[ActiveKey] = ownWait, ownWait > 0
    PROVE  /\ PlanAfterLimit(lim, ownWait).wait \in Nat
           /\ PlanAfterLimit(lim, ownWait).to \in Accounts \cup {None}
           /\ PlanAfterLimit(lim, ownWait).to # None =>
                PlanAfterLimit(lim, ownWait).to \in Candidates(Active, lim, unusable)
  <1> DEFINE next == NextUsableAccount(Active, lim, unusable)
             ends == {lim[k] : k \in {j \in Keys : lim[j] > 0}}
  <1>1. ActiveKey \in Keys /\ Active \in Accounts BY ActiveLogin
  <1>2. SoonestEnd(lim) \in Nat
    <2>1. ends \in SUBSET Nat OBVIOUS
    <2>2. ends # {} BY <1>1
    <2>3. \E e \in ends : \A f \in ends : e <= f BY <2>1, <2>2, LeastOf
    <2>4. SoonestEnd(lim) = CHOOSE e \in ends : \A f \in ends : e <= f BY DEF SoonestEnd
    <2> HIDE DEF ends
    <2> QED BY <2>1, <2>3, <2>4
  <1>3. /\ next \in Accounts \cup {None}
        /\ next # None => next \in Candidates(Active, lim, unusable)
    BY <1>1, NextIsCandidate
  <1>4. cooldown \in Nat /\ SWITCH_SETTLE_MS \in Nat BY RotationAssumption DEF RotationTypeOK
  <1>5. PlanAfterLimit(lim, ownWait) \in
          {[to |-> None, wait |-> ownWait], [to |-> None, wait |-> cooldown + SWITCH_SETTLE_MS],
           [to |-> None, wait |-> SWITCH_SETTLE_MS], [to |-> next, wait |-> SWITCH_SETTLE_MS],
           [to |-> None, wait |-> SoonestEnd(lim)]}
    BY DEF PlanAfterLimit
  <1> HIDE DEF next
  <1> QED BY <1>2, <1>3, <1>4, <1>5

-----------------------------------------------------------------------------
(* What a switch, a park and a message do to the sessions                  *)

(* Disposing and queueing keep sessions sessions; a switch, the daemon's   *)
(* or the user's, leaves no query.                                         *)
LEMMA SwitchWork ==
    ASSUME NEW w \in [Sessions -> Work]
    PROVE  /\ ActivateAccount(w) \in [Sessions -> Work]
           /\ SetAccountWork(w) \in [Sessions -> Work]
           /\ \A s \in Sessions : /\ ActivateAccount(w)[s].query = None
                                  /\ SetAccountWork(w)[s].query = None
  <1>1. CarryOver(w) \in [Sessions -> Work]
    BY RotationAssumption DEF CarryOver, Work, States
  <1>2. ASSUME NEW v \in [Sessions -> Work]
        PROVE  /\ Disposed(v) \in [Sessions -> Work]
               /\ \A s \in Sessions : Disposed(v)[s].query = None
    BY DEF Disposed, Work
  <1> QED BY <1>1, <1>2 DEF ActivateAccount, SetAccountWork

(* Parking a turn keeps sessions sessions and touches no query.            *)
LEMMA ParkWork ==
    ASSUME NEW w \in [Sessions -> Work], NEW s \in Sessions, NEW wait \in Nat
    PROVE  /\ ParkForLimit(w, s, wait) \in [Sessions -> Work]
           /\ \A t \in Sessions : ParkForLimit(w, s, wait)[t].query = w[t].query
  <1> DEFINE r == [w[s] EXCEPT !.state = "parked", !.at = wait, !.tries = w[s].tries + 1]
  <1>1. w[s].tries + 1 \in Nat BY DEF Work
  <1>2. r \in Work /\ r.query = w[s].query BY <1>1 DEF Work, States
  <1>3. ParkForLimit(w, s, wait) = [w EXCEPT ![s] = r] BY DEF ParkForLimit
  <1> HIDE DEF r
  <1> QED BY <1>2, <1>3

(* The end of a turn keeps sessions sessions and touches no query.         *)
LEMMA OverWork ==
    ASSUME NEW w \in [Sessions -> Work], NEW s \in Sessions, NEW state \in States
    PROVE  /\ Over(w, s, state) \in [Sessions -> Work]
           /\ \A t \in Sessions : Over(w, s, state)[t].query = w[t].query
  BY DEF Over, Work

(* A message goes into the query there is, or a new one on account a.      *)
LEMMA SentWork ==
    ASSUME NEW w \in [Sessions -> Work], NEW s \in Sessions, NEW a \in Accounts
    PROVE  /\ Sent(w, s, a) \in [Sessions -> Work]
           /\ \A t \in Sessions : Sent(w, s, a)[t].query \in {w[t].query, a}
           /\ \A t \in Sessions : w[t].query # None => Sent(w, s, a)[t].query = w[t].query
  BY DEF Sent, Work, States

-----------------------------------------------------------------------------
(* The inductive invariant                                                 *)

(* It holds when the daemon starts.                                        *)
LEMMA InitInv == RotationInit => IInv
  <1> SUFFICES ASSUME RotationInit PROVE IInv
    OBVIOUS
  <1>1. chosen \in Accounts BY RotationAssumption DEF RotationInit, Accounts
  <1>2. PICK parked \in SUBSET Sessions :
          work = [s \in Sessions |-> [state |-> IF s \in parked THEN "parked" ELSE "idle",
                                      query |-> None, at |-> 0, tries |-> 0]]
    BY DEF RotationInit
  <1>3. work \in [Sessions -> Work] /\ \A s \in Sessions : work[s].query = None
    BY <1>2 DEF Work, States
  <1> QED BY <1>1, <1>3 DEF RotationInit, IInv, RotationTypeOK, QueriesRunOnChosen, BlameIsRight

(* A result that refuses a turn names the login it was refused on: what    *)
(* the active account is filed under is the refused query's login, or its  *)
(* directory.                                                              *)
LEMMA RefusalKey ==
    ASSUME IInv, NEW s \in Sessions, work[s].query # None
    PROVE  /\ work[s].query \in Accounts
           /\ ActiveKey \in {LoginOf[work[s].query], work[s].query}
  <1>1. work[s].query \in Accounts BY DEF IInv, RotationTypeOK, Work
  <1>2. /\ LoginOf[work[s].query] = LoginOf[chosen]
        /\ chosen # 1 => work[s].query = chosen
    BY DEF IInv, QueriesRunOnChosen
  <1>3. /\ LoginOf[Active] = LoginOf[chosen]
        /\ chosen # 1 => Active = chosen
        /\ Active \notin Listed => chosen # 1
    BY ActiveLogin DEF IInv
  <1> QED BY <1>1, <1>2, <1>3 DEF ActiveKey

(* An account a switch goes to is listed, and its login is not known to be *)
(* spent or expired.                                                       *)
LEMMA CandidateFacts ==
    ASSUME RotationTypeOK, NEW lim, NEW unus, NEW c, NEW a \in Candidates(c, lim, unus)
    PROVE  a \in Accounts /\ a \in Listed /\ Usable(a, lim, unus)
  <1>1. Listed \subseteq Accounts BY RotationAssumption DEF RotationTypeOK, Listed, Accounts
  <1> QED BY <1>1 DEF Candidates

(* A plan limit keeps the invariant.                                       *)
LEMMA LimitedInv ==
    ASSUME IInv, NEW s \in Sessions, NEW wait \in MIN_WAIT_MS..MAX_WAIT_MS, Limited(s, wait)
    PROVE  IInv'
  <1> DEFINE lim  == [limited EXCEPT ![ActiveKey] = wait]
             plan == PlanAfterLimit(lim, wait)
             q    == work[s].query
  <1>1. wait \in Nat /\ wait > 0 BY RotationAssumption
  <1>2. ActiveKey \in Keys /\ Active \in Accounts BY ActiveLogin DEF IInv
  <1>3. lim \in [Keys -> Nat] /\ lim[ActiveKey] = wait BY <1>1, <1>2 DEF IInv, RotationTypeOK
  <1> HIDE DEF lim
  <1>4. plan.wait \in Nat /\ plan.to \in Accounts \cup {None} BY <1>1, <1>3, PlanIsCandidate DEF IInv
  <1>5. q \in Accounts /\ ActiveKey \in {LoginOf[q], q}
    BY RefusalKey DEF Limited, Result
  <1>6. work \in [Sessions -> Work] BY DEF IInv, RotationTypeOK
  <1> HIDE DEF plan, q
  <1>7. /\ refused' = refused \cup {q} /\ disturbances' \in Nat
        /\ UNCHANGED <<named, unusable, enabled>>
    BY RotationAssumption DEF Limited, Result, Disturb, IInv, RotationTypeOK, q
  <1>8. CASE work' = Over(work, s, "recent") /\ UNCHANGED <<chosen, limited, cooldown>>
    <2>1. work' \in [Sessions -> Work] /\ \A t \in Sessions : work'[t].query = work[t].query
      BY <1>6, <1>8, OverWork DEF States
    <2>2. RotationTypeOK' BY <2>1, <1>5, <1>7, <1>8 DEF IInv, RotationTypeOK
    <2>3. QueriesRunOnChosen' BY <2>1, <1>8 DEF IInv, QueriesRunOnChosen
    <2>4. BlameIsRight' BY <1>7, <1>8 DEF IInv, BlameIsRight
    <2> QED BY <2>2, <2>3, <2>4 DEF IInv
  <1>9. CASE limited' = lim /\ (IF plan.to # None
                               THEN /\ chosen' = plan.to /\ cooldown' = SWITCH_COOLDOWN_MS
                                    /\ work' = ParkForLimit(ActivateAccount(work), s, plan.wait)
                               ELSE /\ work' = ParkForLimit(work, s, plan.wait)
                                    /\ UNCHANGED <<chosen, cooldown>>)
    <2>1. BlameIsRight'
      BY <1>3, <1>5, <1>7, <1>9 DEF IInv, BlameIsRight, RotationTypeOK, lim
    <2>2. CASE plan.to # None
      <3> DEFINE carried == ActivateAccount(work)
      <3>a. carried \in [Sessions -> Work] /\ \A t \in Sessions : carried[t].query = None
        BY <1>6, SwitchWork
      <3>b. work' = ParkForLimit(carried, s, plan.wait) BY <1>9, <2>2
      <3> HIDE DEF carried
      <3>1. work' \in [Sessions -> Work] /\ \A t \in Sessions : work'[t].query = None
        BY <1>4, <3>a, <3>b, ParkWork
      <3>2. RotationTypeOK' BY <3>1, <1>3, <1>4, <1>5, <1>7, <1>9, <2>2, RotationAssumption DEF IInv, RotationTypeOK
      <3>3. QueriesRunOnChosen' BY <3>1 DEF QueriesRunOnChosen
      <3> QED BY <2>1, <3>2, <3>3 DEF IInv
    <2>3. CASE plan.to = None
      <3>1. work' \in [Sessions -> Work] /\ \A t \in Sessions : work'[t].query = work[t].query
        BY <1>4, <1>6, <1>9, <2>3, ParkWork
      <3>2. RotationTypeOK' BY <3>1, <1>3, <1>5, <1>7, <1>9, <2>3 DEF IInv, RotationTypeOK
      <3>3. QueriesRunOnChosen' BY <3>1, <1>9, <2>3 DEF IInv, QueriesRunOnChosen
      <3> QED BY <2>1, <3>2, <3>3 DEF IInv
    <2> QED BY <2>2, <2>3
  <1> QED BY <1>8, <1>9 DEF Limited, lim, plan

(* An expired login keeps the invariant.                                   *)
LEMMA AuthFailsInv ==
    ASSUME IInv, NEW s \in Sessions, AuthFails(s)
    PROVE  IInv'
  <1> DEFINE unus == unusable \cup {ActiveKey}
             next == IF enabled THEN NextUsableAccount(Active, limited, unus) ELSE None
             q    == work[s].query
  <1>1. ActiveKey \in Keys /\ Active \in Accounts BY ActiveLogin DEF IInv
  <1>2. next \in Accounts \cup {None} BY <1>1, NextIsCandidate DEF IInv
  <1>3. q \in Accounts /\ ActiveKey \in {LoginOf[q], q} BY RefusalKey DEF AuthFails, Result
  <1>4. work \in [Sessions -> Work] BY DEF IInv, RotationTypeOK
  <1>5. SWITCH_SETTLE_MS \in Nat /\ SWITCH_COOLDOWN_MS \in Nat BY RotationAssumption
  <1> HIDE DEF next, q
  <1>6. /\ refused' = refused \cup {q} /\ unusable' = unus /\ disturbances' \in Nat
        /\ UNCHANGED <<named, limited, enabled>>
    BY RotationAssumption DEF AuthFails, Result, Disturb, IInv, RotationTypeOK, q
  <1>7. BlameIsRight' BY <1>3, <1>6 DEF IInv, BlameIsRight
  <1>8. CASE next # None
    <2> DEFINE carried == ActivateAccount(work)
    <2>1. carried \in [Sessions -> Work] /\ \A t \in Sessions : carried[t].query = None
      BY <1>4, SwitchWork
    <2>2. /\ work' = ParkForLimit(carried, s, SWITCH_SETTLE_MS)
          /\ chosen' = next /\ cooldown' = SWITCH_COOLDOWN_MS
      BY <1>8 DEF AuthFails, next
    <2> HIDE DEF carried
    <2>3. work' \in [Sessions -> Work] /\ \A t \in Sessions : work'[t].query = None
      BY <1>5, <2>1, <2>2, ParkWork, SMTT(20)
    <2>4. RotationTypeOK' BY <2>2, <2>3, <1>1, <1>2, <1>3, <1>5, <1>6, <1>8 DEF IInv, RotationTypeOK
    <2>5. QueriesRunOnChosen' BY <2>3 DEF QueriesRunOnChosen
    <2> QED BY <1>7, <2>4, <2>5 DEF IInv
  <1>9. CASE next = None
    <2>1. work' = Over(work, s, "recent") /\ UNCHANGED <<chosen, cooldown>>
      BY <1>9 DEF AuthFails, next
    <2>2. work' \in [Sessions -> Work] /\ \A t \in Sessions : work'[t].query = work[t].query
      BY <1>4, <2>1, OverWork DEF States
    <2>3. RotationTypeOK' BY <2>1, <2>2, <1>1, <1>3, <1>6 DEF IInv, RotationTypeOK
    <2>4. QueriesRunOnChosen' BY <2>1, <2>2 DEF IInv, QueriesRunOnChosen
    <2> QED BY <1>7, <2>3, <2>4 DEF IInv
  <1> QED BY <1>8, <1>9

(* A message sent on the active account runs on the chosen login.          *)
LEMMA SentRunsOnChosen ==
    ASSUME RotationTypeOK, QueriesRunOnChosen, NEW s \in Sessions,
           NEW w \in [Sessions -> Work], \A t \in Sessions : w[t].query = work[t].query
    PROVE  /\ Sent(w, s, Active) \in [Sessions -> Work]
           /\ \A t \in Sessions : Sent(w, s, Active)[t].query # None =>
                /\ LoginOf[Sent(w, s, Active)[t].query] = LoginOf[chosen]
                /\ chosen # 1 => Sent(w, s, Active)[t].query = chosen
  <1> DEFINE v == Sent(w, s, Active)
  <1>1. /\ Active \in Accounts
        /\ LoginOf[Active] = LoginOf[chosen]
        /\ chosen # 1 => Active = chosen
    BY ActiveLogin
  <1>2. /\ v \in [Sessions -> Work]
        /\ \A t \in Sessions : v[t].query \in {w[t].query, Active}
    BY <1>1, SentWork
  <1> HIDE DEF v
  <1>3. v \in [Sessions -> Work] /\
        \A t \in Sessions : v[t].query # None =>
          LoginOf[v[t].query] = LoginOf[chosen] /\ (chosen # 1 => v[t].query = chosen)
    BY <1>1, <1>2 DEF QueriesRunOnChosen
  <1> QED BY <1>3 DEF v

(* A due retry keeps the invariant.                                        *)
LEMMA RetryInv ==
    ASSUME IInv, NEW s \in Sessions, RetryFires(s)
    PROVE  IInv'
  <1> DEFINE target == AccountForRetry
  <1>1. target \in Accounts \cup {None}
    BY ActiveLogin, NextIsCandidate DEF AccountForRetry, IInv
  <1>2. work \in [Sessions -> Work] BY DEF IInv, RotationTypeOK
  <1>3. SWITCH_COOLDOWN_MS \in Nat BY RotationAssumption
  <1>4. UNCHANGED <<named, limited, unusable, enabled, refused, disturbances>> BY DEF RetryFires
  <1>5. BlameIsRight' BY <1>4 DEF IInv, BlameIsRight
  <1> HIDE DEF target
  <1>6. CASE target # None
    <2> DEFINE carried == ActivateAccount(work)
    <2>1. carried \in [Sessions -> Work] /\ \A t \in Sessions : carried[t].query = None
      BY <1>2, SwitchWork
    <2>2. /\ work' = Sent(carried, s, target)
          /\ chosen' = target /\ cooldown' = SWITCH_COOLDOWN_MS
      BY <1>6 DEF RetryFires, target
    <2> HIDE DEF carried
    <2>3. /\ work' \in [Sessions -> Work]
          /\ \A t \in Sessions : work'[t].query \in {None, target}
      BY <1>1, <1>6, <2>1, <2>2, SentWork
    <2>4. RotationTypeOK' BY <1>1, <1>3, <1>4, <1>6, <2>2, <2>3 DEF IInv, RotationTypeOK
    <2>5. QueriesRunOnChosen' BY <2>2, <2>3 DEF QueriesRunOnChosen
    <2> QED BY <1>5, <2>4, <2>5 DEF IInv
  <1>7. CASE target = None
    <2>1. work' = Sent(work, s, Active) /\ UNCHANGED <<chosen, cooldown>>
      BY <1>7 DEF RetryFires, target
    <2>2. RotationTypeOK' /\ QueriesRunOnChosen'
      BY <1>2, <1>4, <2>1, SentRunsOnChosen DEF IInv, RotationTypeOK, QueriesRunOnChosen
    <2> QED BY <1>5, <2>2 DEF IInv
  <1> QED BY <1>6, <1>7

(* What else happens to one session keeps the invariant.                   *)
LEMMA SessionInv ==
    ASSUME IInv, NEW s \in Sessions, Send(s) \/ Answered(s) \/ Quietens(s) \/ Stalls(s)
    PROVE  IInv'
  <1>1. work \in [Sessions -> Work] /\ STALL_RETRY_MS \in Nat
    BY RotationAssumption DEF IInv, RotationTypeOK
  <1>2. /\ UNCHANGED <<named, chosen, limited, unusable, cooldown, enabled, refused>>
        /\ disturbances' \in Nat
    BY RotationAssumption DEF Send, Answered, Quietens, Stalls, Result, Disturb, IInv, RotationTypeOK
  <1>3. BlameIsRight' BY <1>2 DEF IInv, BlameIsRight
  <1>4. ASSUME work' \in [Sessions -> Work],
               \A t \in Sessions : work'[t].query \in {work[t].query, None}
        PROVE  IInv'
    <2>1. RotationTypeOK' BY <1>2, <1>4 DEF IInv, RotationTypeOK
    <2>2. QueriesRunOnChosen' BY <1>2, <1>4 DEF IInv, QueriesRunOnChosen
    <2> QED BY <1>3, <2>1, <2>2 DEF IInv
  <1>5. CASE Send(s)
    <2> DEFINE w == IF work[s].state = "parked" THEN Over(work, s, "recent") ELSE work
    <2>1. w \in [Sessions -> Work] /\ \A t \in Sessions : w[t].query = work[t].query
      BY <1>1, OverWork DEF States
    <2>2. work' = Sent(w, s, Active) BY <1>5 DEF Send
    <2> HIDE DEF w
    <2>3. RotationTypeOK' /\ QueriesRunOnChosen'
      BY <1>2, <2>1, <2>2, SentRunsOnChosen DEF IInv, RotationTypeOK, QueriesRunOnChosen
    <2> QED BY <1>3, <2>3 DEF IInv
  <1>6. CASE Answered(s)
    BY <1>1, <1>4, <1>6, OverWork DEF Answered, States
  <1>7. CASE Quietens(s)
    <2>1. /\ [work[s] EXCEPT !.state = "idle"] \in Work
          /\ [work[s] EXCEPT !.state = "idle"].query = work[s].query
      BY <1>1 DEF Work, States
    <2> QED BY <1>1, <1>4, <1>7, <2>1 DEF Quietens
  <1>8. CASE Stalls(s)
    <2> DEFINE r == [work[s] EXCEPT !.query = None]
               w == [work EXCEPT ![s] = r]
    <2>1. r \in Work /\ r.query = None BY <1>1 DEF Work
    <2> HIDE DEF r
    <2>2. w \in [Sessions -> Work] /\ \A t \in Sessions : w[t].query \in {work[t].query, None}
      BY <1>1, <2>1
    <2>3. work' \in {Over(work, s, "hung"), ParkForLimit(w, s, STALL_RETRY_MS)}
      BY <1>8 DEF Stalls, r
    <2> HIDE DEF w
    <2>4. CASE work' = Over(work, s, "hung")
      BY <1>1, <1>4, <2>4, OverWork DEF States
    <2>5. CASE work' = ParkForLimit(w, s, STALL_RETRY_MS)
      <3>1. /\ ParkForLimit(w, s, STALL_RETRY_MS) \in [Sessions -> Work]
            /\ \A t \in Sessions : ParkForLimit(w, s, STALL_RETRY_MS)[t].query = w[t].query
        BY <1>1, <2>2, ParkWork
      <3> QED BY <1>4, <2>2, <2>5, <3>1
    <2> QED BY <2>3, <2>4, <2>5
  <1> QED BY <1>5, <1>6, <1>7, <1>8

(* The user's choices, the account list and the clock keep the invariant.  *)
LEMMA OutsideInv ==
    ASSUME IInv,
           \/ \E a \in Accounts : SetAccount(a) \/ SubmitLoginCode(a) \/ AccountsChange(a)
           \/ SetOptions \/ Tick
    PROVE  IInv'
  <1>1. work \in [Sessions -> Work] /\ SWITCH_COOLDOWN_MS \in Nat
    BY RotationAssumption DEF IInv, RotationTypeOK
  <1>2. ASSUME NEW a \in Accounts, SetAccount(a) PROVE IInv'
    <2>1. work' \in [Sessions -> Work] /\ \A t \in Sessions : work'[t].query = None
      BY <1>1, <1>2, SwitchWork DEF SetAccount
    <2>2. RotationTypeOK' BY <1>2, <2>1 DEF SetAccount, Disturb, IInv, RotationTypeOK
    <2>3. QueriesRunOnChosen' BY <2>1 DEF QueriesRunOnChosen
    <2>4. BlameIsRight' BY <1>2 DEF SetAccount, IInv, BlameIsRight
    <2> QED BY <2>2, <2>3, <2>4 DEF IInv
  <1>3. ASSUME NEW a \in Accounts, SubmitLoginCode(a) PROVE IInv'
    <2>1. work' \in [Sessions -> Work] /\ \A t \in Sessions : work'[t].query = None
      BY <1>1, <1>3, SwitchWork DEF SubmitLoginCode
    <2>2. RotationTypeOK' BY <1>1, <1>3, <2>1 DEF SubmitLoginCode, Disturb, IInv, RotationTypeOK
    <2>3. QueriesRunOnChosen' BY <2>1 DEF QueriesRunOnChosen
    <2>4. BlameIsRight' BY <1>3 DEF SubmitLoginCode, IInv, BlameIsRight
    <2> QED BY <2>2, <2>3, <2>4 DEF IInv
  <1>4. ASSUME NEW a \in Accounts, AccountsChange(a) PROVE IInv'
    <2>1. RotationTypeOK' BY <1>4 DEF AccountsChange, Disturb, IInv, RotationTypeOK
    <2>2. QueriesRunOnChosen' BY <1>4 DEF AccountsChange, IInv, QueriesRunOnChosen
    <2>3. BlameIsRight' BY <1>4 DEF AccountsChange, IInv, BlameIsRight
    <2> QED BY <2>1, <2>2, <2>3 DEF IInv
  <1>5. CASE SetOptions
    <2>1. RotationTypeOK' BY <1>5 DEF SetOptions, Disturb, IInv, RotationTypeOK
    <2>2. QueriesRunOnChosen' /\ BlameIsRight'
      BY <1>5 DEF SetOptions, IInv, QueriesRunOnChosen, BlameIsRight
    <2> QED BY <2>1, <2>2 DEF IInv
  <1>6. CASE Tick
    <2>1. \A t \in Nat : Less(t) \in Nat /\ (Less(t) > 0 => t > 0) BY DEF Less
    <2>2. ASSUME NEW s \in Sessions
          PROVE  /\ [work[s] EXCEPT !.at = Less(work[s].at)] \in Work
                 /\ [work[s] EXCEPT !.at = Less(work[s].at)].query = work[s].query
      BY <1>1, <2>1 DEF Work
    <2>3. work' \in [Sessions -> Work] /\ \A t \in Sessions : work'[t].query = work[t].query
      BY <1>6, <2>2 DEF Tick
    <2>4. RotationTypeOK' BY <1>6, <2>1, <2>3 DEF Tick, IInv, RotationTypeOK
    <2>5. QueriesRunOnChosen' BY <1>6, <2>3 DEF Tick, IInv, QueriesRunOnChosen
    <2>6. BlameIsRight' BY <1>6, <2>1 DEF Tick, IInv, RotationTypeOK, BlameIsRight
    <2> QED BY <2>4, <2>5, <2>6 DEF IInv
  <1> QED BY <1>2, <1>3, <1>4, <1>5, <1>6

(* Every step keeps it.                                                    *)
LEMMA StepInv == IInv /\ [RotationNext]_rotationVars => IInv'
  <1> SUFFICES ASSUME IInv, [RotationNext]_rotationVars PROVE IInv'
    OBVIOUS
  <1>1. CASE UNCHANGED rotationVars
    BY <1>1 DEF rotationVars, IInv, RotationTypeOK, QueriesRunOnChosen, BlameIsRight
  <1>2. ASSUME NEW s \in Sessions, TurnEnds(s) PROVE IInv'
    BY <1>2, LimitedInv, AuthFailsInv, SessionInv DEF TurnEnds
  <1> QED BY <1>1, <1>2, RetryInv, SessionInv, OutsideInv DEF RotationNext

(* The inductive invariant holds throughout.                               *)
THEOREM RotationInvariant == RotationSpec => []IInv
  BY InitInv, StepInv, PTL DEF RotationSpec

(* The operations of rotation.ts, accounts.ts and main.ts keep the state   *)
(* of the rotation well-typed.                                             *)
THEOREM RotationTypes == RotationSpec => []RotationTypeOK
  <1>1. IInv => RotationTypeOK BY DEF IInv
  <1> QED BY <1>1, RotationInvariant, PTL

(* Every live query runs on the login of the active account, whatever      *)
(* setAccount, activateAccount and changes of the account list did.        *)
THEOREM QueriesStayOnActive == RotationSpec => []QueriesRunOnActive
  <1>1. IInv => QueriesRunOnActive
    BY ActiveLogin DEF IInv, QueriesRunOnChosen, QueriesRunOnActive
  <1> QED BY <1>1, RotationInvariant, PTL

(* onLimited and onAuthFailure hold a limit or an expired login only       *)
(* against a login that was refused.                                       *)
THEOREM BlameStaysRight == RotationSpec => []BlameIsRight
  <1>1. IInv => BlameIsRight BY DEF IInv
  <1> QED BY <1>1, RotationInvariant, PTL

-----------------------------------------------------------------------------

(* What SwitchIsJustified says of one step. *)
Justified ==
    chosen' # chosen /\ disturbances' = disturbances =>
        /\ Active \in Listed => ~Usable(Active, limited', unusable')
        /\ chosen' \in Listed
        /\ Usable(chosen', limited', unusable')

(* A limit, an expired login and a due retry (planAfterLimit, onAuthFailure *)
(* and accountForRetry) leave an account only when its login is in trouble, *)
(* and only for a listed one whose login is not.                            *)
THEOREM SwitchesAreJustified == RotationSpec => SwitchIsJustified
  <1>1. ASSUME IInv, [RotationNext]_rotationVars PROVE [Justified]_rotationVars
    <2> SUFFICES ASSUME RotationNext PROVE Justified
      BY <1>1
    <2>a. ActiveKey \in Keys /\ Active \in Accounts /\ (Active \in Listed => ActiveKey = LoginOf[Active])
      BY <1>1, ActiveLogin DEF IInv, ActiveKey
    <2>1. ASSUME NEW s \in Sessions, NEW wait \in MIN_WAIT_MS..MAX_WAIT_MS, Limited(s, wait)
          PROVE  Justified
      <3> DEFINE lim == [limited EXCEPT ![ActiveKey] = wait]
                 to  == PlanAfterLimit(lim, wait).to
      <3>1. wait \in Nat /\ wait > 0 BY RotationAssumption
      <3>2. lim \in [Keys -> Nat] /\ lim[ActiveKey] = wait BY <1>1, <2>a, <3>1 DEF IInv, RotationTypeOK
      <3>3. chosen' # chosen => /\ limited' = lim /\ unusable' = unusable
                                /\ chosen' = to /\ to # None
        BY <2>1 DEF Limited
      <3> HIDE DEF lim
      <3>4. to # None => to \in Candidates(Active, lim, unusable)
        BY <1>1, <3>1, <3>2, PlanIsCandidate DEF IInv
      <3> HIDE DEF to
      <3>5. to # None => to \in Listed /\ Usable(to, lim, unusable)
        BY <1>1, <3>4, CandidateFacts DEF IInv
      <3> QED BY <2>a, <3>1, <3>2, <3>3, <3>5 DEF Justified, Usable
    <2>2. ASSUME NEW s \in Sessions, AuthFails(s) PROVE Justified
      <3> DEFINE unus == unusable \cup {ActiveKey}
                 to   == NextUsableAccount(Active, limited, unus)
      <3>1. chosen' # chosen => /\ limited' = limited /\ unusable' = unus
                                /\ chosen' = to /\ to # None
        BY <2>2 DEF AuthFails
      <3>2. to # None => to \in Candidates(Active, limited, unus)
        BY <1>1, <2>a, NextIsCandidate DEF IInv
      <3>3. to # None => to \in Listed /\ Usable(to, limited, unus)
        BY <1>1, <3>2, CandidateFacts DEF IInv
      <3> QED BY <2>a, <3>1, <3>3 DEF Justified, Usable
    <2>3. ASSUME NEW s \in Sessions, RetryFires(s) PROVE Justified
      <3> DEFINE to == NextUsableAccount(Active, limited, unusable)
      <3>1. chosen' # chosen => /\ limited' = limited /\ unusable' = unusable
                                /\ chosen' = to /\ to # None
                                /\ ~(Active \in Listed /\ Usable(Active, limited, unusable))
        BY <2>3 DEF RetryFires, AccountForRetry
      <3>2. to # None => to \in Candidates(Active, limited, unusable)
        BY <1>1, <2>a, NextIsCandidate DEF IInv
      <3>3. to # None => to \in Listed /\ Usable(to, limited, unusable)
        BY <1>1, <3>2, CandidateFacts DEF IInv
      <3> QED BY <3>1, <3>3 DEF Justified
    <2>4. ASSUME NEW s \in Sessions, Send(s) \/ Answered(s) \/ Quietens(s) \/ Stalls(s)
          PROVE  Justified
      BY <2>4 DEF Send, Answered, Quietens, Stalls, Justified
    <2>5. ASSUME NEW a \in Accounts, SetAccount(a) \/ SubmitLoginCode(a) \/ AccountsChange(a)
          PROVE  Justified
      BY <1>1, <2>5 DEF SetAccount, SubmitLoginCode, AccountsChange, Disturb, Justified, IInv, RotationTypeOK
    <2>6. CASE SetOptions \/ Tick
      BY <2>6 DEF SetOptions, Tick, Justified
    <2> QED BY <2>1, <2>2, <2>3, <2>4, <2>5, <2>6 DEF RotationNext, TurnEnds
  <1>2. IInv /\ [RotationNext]_rotationVars => [Justified]_rotationVars BY <1>1
  <1> QED BY <1>2, RotationInvariant, PTL DEF RotationSpec, SwitchIsJustified, Justified

-----------------------------------------------------------------------------
(* What a switch cuts off                                                  *)

(* A session that is taken to work has a query to work with. *)
Backed(w) == \A t \in Sessions : w[t].state = "working" => w[t].query # None

(* A switch of the daemon's leaves no session that is taken to work, and   *)
(* queueing, ending or sending a turn leaves none without a query.         *)
LEMMA BackedWork ==
    ASSUME NEW w \in [Sessions -> Work], NEW s \in Sessions, NEW wait \in Nat, NEW a \in Accounts
    PROVE  /\ Backed(ActivateAccount(w))
           /\ Backed(w) => /\ Backed(ParkForLimit(w, s, wait)) /\ Backed(Sent(w, s, a))
                           /\ Backed(Over(w, s, "recent")) /\ Backed(Over(w, s, "hung"))
  <1>1. Backed(ActivateAccount(w))
    BY DEF Backed, ActivateAccount, Disposed, CarryOver, Busy, Work, States
  <1>2. Backed(w) => Backed(ParkForLimit(w, s, wait)) BY DEF Backed, ParkForLimit, Work
  <1>3. Backed(w) => Backed(Sent(w, s, a))
    BY RotationAssumption DEF Backed, Sent, Work, None, Accounts
  <1>4. Backed(w) => Backed(Over(w, s, "recent")) /\ Backed(Over(w, s, "hung"))
    BY DEF Backed, Over, Work
  <1> QED BY <1>1, <1>2, <1>3, <1>4

(* What parkForLimit, onLimited, onAuthFailure, beforeRetry and the        *)
(* watchdog do, in one session or in all of them, never leaves a session   *)
(* that waits for the answer of a query that is gone: only the user's own  *)
(* choice of an account does (setAccount).                                 *)
THEOREM CutTurnsStayQueued == RotationSpec => []CutTurnsAreQueued
  <1>1. RotationInit => CutTurnsAreQueued
    BY DEF RotationInit, CutTurnsAreQueued
  <1>2. ASSUME IInv, CutTurnsAreQueued, [RotationNext]_rotationVars PROVE CutTurnsAreQueued'
    <2> SUFFICES ASSUME disturbances' = 0, RotationNext PROVE Backed(work')
      BY <1>2 DEF CutTurnsAreQueued, Backed, rotationVars
    <2>1. disturbances \in Nat /\ work \in [Sessions -> Work] BY <1>2 DEF IInv, RotationTypeOK
    <2>2. ~Disturb BY <2>1 DEF Disturb
    <2>3. disturbances = 0
      BY <2>2 DEF RotationNext, TurnEnds, Limited, AuthFails, Answered, Result, RetryFires, Send,
                  Quietens, Stalls, SetAccount, SubmitLoginCode, AccountsChange, SetOptions, Tick
    <2>4. Backed(work) BY <1>2, <2>3 DEF CutTurnsAreQueued, Backed
    <2>5. /\ Active \in Accounts /\ ActiveKey \in Keys
          /\ SWITCH_SETTLE_MS \in Nat /\ STALL_RETRY_MS \in Nat
      BY <1>2, ActiveLogin, RotationAssumption DEF IInv
    <2>6. ActivateAccount(work) \in [Sessions -> Work] BY <2>1, SwitchWork
    <2>7. ASSUME NEW s \in Sessions, NEW wait \in MIN_WAIT_MS..MAX_WAIT_MS, Limited(s, wait)
          PROVE  Backed(work')
      <3> DEFINE lim  == [limited EXCEPT ![ActiveKey] = wait]
                 plan == PlanAfterLimit(lim, wait)
      <3>1. wait \in Nat /\ wait > 0 BY RotationAssumption
      <3>2. lim \in [Keys -> Nat] /\ lim[ActiveKey] = wait
        BY <1>2, <2>5, <3>1 DEF IInv, RotationTypeOK
      <3>3. work' \in {Over(work, s, "recent"), ParkForLimit(ActivateAccount(work), s, plan.wait),
                       ParkForLimit(work, s, plan.wait)}
        BY <2>7 DEF Limited
      <3> HIDE DEF lim
      <3>4. plan.wait \in Nat BY <1>2, <3>1, <3>2, PlanIsCandidate DEF IInv
      <3> HIDE DEF plan
      <3> QED BY <2>1, <2>4, <2>5, <2>6, <3>3, <3>4, BackedWork
    <2>8. ASSUME NEW s \in Sessions, AuthFails(s) PROVE Backed(work')
      <3>1. work' \in {Over(work, s, "recent"),
                       ParkForLimit(ActivateAccount(work), s, SWITCH_SETTLE_MS)}
        BY <2>8 DEF AuthFails
      <3> QED BY <2>1, <2>4, <2>5, <2>6, <3>1, BackedWork
    <2>9. ASSUME NEW s \in Sessions, RetryFires(s) PROVE Backed(work')
      <3> DEFINE target == AccountForRetry
      <3>1. target \in Accounts \cup {None}
        BY <1>2, ActiveLogin, NextIsCandidate DEF AccountForRetry, IInv
      <3>2. \/ work' = Sent(work, s, Active)
            \/ target # None /\ work' = Sent(ActivateAccount(work), s, target)
        BY <2>9 DEF RetryFires
      <3> HIDE DEF target
      <3>3. CASE work' = Sent(work, s, Active) BY <2>1, <2>4, <2>5, <3>3, BackedWork
      <3>4. CASE target # None /\ work' = Sent(ActivateAccount(work), s, target)
        <4>1. Backed(ActivateAccount(work)) BY <2>1, <2>5, BackedWork
        <4> QED BY <2>5, <2>6, <3>1, <3>4, <4>1, BackedWork
      <3> QED BY <3>2, <3>3, <3>4
    <2>10. ASSUME NEW s \in Sessions, Send(s) PROVE Backed(work')
      <3> DEFINE w == IF work[s].state = "parked" THEN Over(work, s, "recent") ELSE work
      <3>1. w \in [Sessions -> Work] /\ Backed(w)
        BY <2>1, <2>4, <2>5, BackedWork, OverWork DEF States
      <3>2. work' = Sent(w, s, Active) BY <2>10 DEF Send
      <3> HIDE DEF w
      <3> QED BY <2>5, <3>1, <3>2, BackedWork
    <2>11. ASSUME NEW s \in Sessions, Answered(s) PROVE Backed(work')
      BY <2>1, <2>4, <2>5, <2>11, BackedWork DEF Answered
    <2>12. ASSUME NEW s \in Sessions, Quietens(s) PROVE Backed(work')
      BY <2>1, <2>4, <2>12 DEF Quietens, Backed, Work
    <2>13. ASSUME NEW s \in Sessions, Stalls(s) PROVE FALSE
      BY <2>2, <2>4, <2>13 DEF Stalls, Backed
    <2>14. ASSUME NEW a \in Accounts, SetAccount(a) \/ SubmitLoginCode(a) \/ AccountsChange(a)
           PROVE  FALSE
      BY <2>2, <2>14 DEF SetAccount, SubmitLoginCode, AccountsChange
    <2>15. CASE SetOptions BY <2>2, <2>15 DEF SetOptions
    <2>16. CASE Tick BY <2>1, <2>4, <2>16 DEF Tick, Backed, Work
    <2> QED BY <2>7, <2>8, <2>9, <2>10, <2>11, <2>12, <2>13, <2>14, <2>15, <2>16
            DEF RotationNext, TurnEnds
  <1>3. IInv /\ CutTurnsAreQueued /\ [RotationNext]_rotationVars => CutTurnsAreQueued' BY <1>2
  <1> QED BY <1>1, <1>3, RotationInvariant, PTL DEF RotationSpec

-----------------------------------------------------------------------------
(* How long the search for an account that works is                        *)

(* The way from one account to another down the menu and round again, and  *)
(* the accounts that refuse on it up to the first that works.  A switch    *)
(* goes to the nearest account that may be usable, so it never passes one  *)
(* that works, and leaves fewer ahead.                                     *)
Dist(from, a) == IF a >= from THEN a - from ELSE a - from + N

Ahead(from) == {a \in Bad : \A w \in Good : Dist(from, a) < Dist(from, w)}

Passed == Cardinality(Bad) - Cardinality(Ahead(Active))

(* A turn has spent at most two retries on each account passed; the second *)
(* one on the last of them only after the cooldown, which it waits out.    *)
Within(s) ==
    work[s].tries > 0 =>
        /\ work[s].tries <= 2 * Passed
        /\ work[s].tries = 2 * Passed =>
             /\ Active \in Bad
             /\ cooldown = 0 \/ (work[s].state = "parked" /\ work[s].at >= cooldown)

RefusedAreBad == \A a \in refused : LoginOf[a] \notin WorkingLogins

Undisturbed == enabled /\ chosen \in named \cup {1}

SearchInv ==
    /\ RefusedAreBad
    /\ disturbances = 0 => Undisturbed
    /\ disturbances = 0 /\ Good # {} =>
         (cooldown > 0 => Passed > 0) /\ \A s \in Sessions : Within(s)

(* The accounts are finitely many. *)
LEMMA AccountsAreFinite ==
    ASSUME RotationTypeOK, NEW c
    PROVE  /\ Listed \subseteq Accounts /\ Good \subseteq Accounts /\ Bad \subseteq Accounts
           /\ \A a \in Accounts : a \in Nat /\ 1 <= a /\ a <= N
           /\ N \in Nat /\ IsFiniteSet(Listed) /\ IsFiniteSet(Ahead(c))
           /\ Cardinality(Bad) \in Nat /\ Cardinality(Ahead(c)) \in Nat
           /\ Cardinality(Ahead(c)) <= Cardinality(Bad)
  <1>1. N \in Nat /\ \A a \in Accounts : a \in Nat /\ 1 <= a /\ a <= N
    BY RotationAssumption DEF Accounts
  <1>2. Listed \subseteq Accounts /\ Good \subseteq Listed /\ Bad \subseteq Listed
    BY RotationAssumption DEF RotationTypeOK, Listed, Accounts, Good, Bad
  <1>3. IsFiniteSet(Accounts) BY <1>1, FS_Interval DEF Accounts
  <1>4. IsFiniteSet(Listed) BY <1>2, <1>3, FS_Subset
  <1>5. IsFiniteSet(Bad) BY <1>2, <1>4, FS_Subset
  <1>6. Ahead(c) \subseteq Bad BY DEF Ahead
  <1>7. IsFiniteSet(Ahead(c)) /\ Cardinality(Ahead(c)) <= Cardinality(Bad)
    BY <1>5, <1>6, FS_Subset
  <1> QED BY <1>1, <1>2, <1>4, <1>5, <1>7, FS_CardinalityType

(* The accounts ahead after a switch were ahead before it, and the one     *)
(* that was left is not.                                                   *)
LEMMA FewerAhead ==
    ASSUME RotationTypeOK, Good # {}, NEW c \in Bad, NEW t \in Listed, t # c,
           \A w \in Good : Dist(c, t) <= Dist(c, w)
    PROVE  Cardinality(Ahead(t)) + 1 <= Cardinality(Ahead(c))
  <1>1. /\ \A a \in Listed : a \in Nat /\ 1 <= a /\ a <= N
        /\ Good \subseteq Listed /\ Bad \subseteq Listed /\ N \in Nat
    BY AccountsAreFinite DEF Good, Bad
  <1>2. c \in Listed /\ c \notin Good BY DEF Bad
  <1>3. ASSUME NEW a \in Listed
        PROVE  /\ Dist(c, a) \in Nat /\ Dist(c, a) < N /\ (a # c => Dist(c, a) > 0)
               /\ Dist(t, a) \in Nat
               /\ Dist(t, a) = IF Dist(c, a) >= Dist(c, t) THEN Dist(c, a) - Dist(c, t)
                               ELSE Dist(c, a) - Dist(c, t) + N
    BY <1>1, <1>2 DEF Dist
  <1>4. c \in Ahead(c)
    <2>1. Dist(c, c) = 0 BY <1>1, <1>2 DEF Dist
    <2> QED BY <1>1, <1>2, <1>3, <2>1 DEF Ahead
  <1>5. ASSUME NEW a \in Ahead(t) PROVE a \in Ahead(c) /\ a # c
    <2>1. a \in Bad /\ a \in Listed /\ \A w \in Good : Dist(t, a) < Dist(t, w)
      BY <1>1 DEF Ahead
    <2>2. \A w \in Good : Dist(t, w) = Dist(c, w) - Dist(c, t) BY <1>1, <1>3
    <2>3. PICK w \in Good : TRUE OBVIOUS
    <2>4. Dist(c, t) \in Nat /\ Dist(c, t) > 0 /\ Dist(c, w) < N /\ Dist(c, w) \in Nat
          /\ Dist(c, a) \in Nat
      BY <1>1, <1>3, <2>1, <2>3
    <2>5. Dist(c, a) >= Dist(c, t)
      <3>1. Dist(t, a) < Dist(c, w) - Dist(c, t) BY <2>1, <2>2, <2>3
      <3>2. Dist(t, a) = IF Dist(c, a) >= Dist(c, t) THEN Dist(c, a) - Dist(c, t)
                         ELSE Dist(c, a) - Dist(c, t) + N
        BY <1>3, <2>1
      <3> HIDE DEF Dist
      <3> QED BY <1>1, <2>4, <3>1, <3>2
    <2>6. Dist(t, a) = Dist(c, a) - Dist(c, t) BY <1>3, <2>1, <2>5
    <2>7. a # c
      <3>1. Dist(c, c) = 0 BY <1>1, <1>2 DEF Dist
      <3> QED BY <2>4, <2>5, <3>1
    <2>8. ASSUME NEW v \in Good PROVE Dist(c, a) < Dist(c, v)
      <3>1. Dist(t, a) < Dist(t, v) /\ Dist(t, v) = Dist(c, v) - Dist(c, t) BY <2>1, <2>2
      <3>2. Dist(c, v) \in Nat BY <1>1, <1>3
      <3> QED BY <2>4, <2>6, <3>1, <3>2
    <2> QED BY <2>1, <2>7, <2>8 DEF Ahead
  <1>6. Ahead(t) \subseteq Ahead(c) \ {c} BY <1>5
  <1>7. IsFiniteSet(Ahead(c)) BY AccountsAreFinite
  <1>8. /\ IsFiniteSet(Ahead(c) \ {c})
        /\ Cardinality(Ahead(c) \ {c}) = Cardinality(Ahead(c)) - 1
    BY <1>4, <1>7, FS_RemoveElement
  <1>9. Cardinality(Ahead(t)) <= Cardinality(Ahead(c) \ {c}) BY <1>6, <1>8, FS_Subset
  <1> QED BY <1>8, <1>9, AccountsAreFinite

(* nextUsableAccount finds an account, no further away than one that works. *)
LEMMA NextIsNearest ==
    ASSUME RotationTypeOK, Good # {}, NEW c \in Bad, NEW lim, NEW unus,
           \A w \in Good : Usable(w, lim, unus)
    PROVE  LET t == NextUsableAccount(c, lim, unus)
           IN  /\ t \in Listed /\ t # None /\ t # c /\ ~(Cardinality(Listed) < 2)
               /\ \A w \in Good : Dist(c, t) <= Dist(c, w)
  <1> DEFINE C == Candidates(c, lim, unus)
             P == {Dist(c, a) : a \in C}
             t == NextUsableAccount(c, lim, unus)
  <1>1. /\ \A a \in Listed : a \in Nat /\ 1 <= a /\ a <= N
        /\ N \in Nat /\ IsFiniteSet(Listed)
    BY AccountsAreFinite
  <1>2. c \in Listed /\ c \notin Good /\ LoginOf[c] \notin WorkingLogins BY DEF Bad, Good
  <1>3. Good \subseteq C BY <1>2 DEF Good, Candidates
  <1>4. C \subseteq Listed /\ c \notin C BY DEF Candidates
  <1>5. \A a \in C : Dist(c, a) \in Nat /\ Place(c, a) = Dist(c, a)
    <2> TAKE a \in C
    <2>1. a \in Nat /\ 1 <= a /\ c \in Nat /\ c <= N /\ a # c BY <1>1, <1>2, <1>4
    <2> QED BY <1>1, <1>2, <2>1 DEF Place, Dist
  <1>6. ~(Cardinality(Listed) < 2)
    <2>1. PICK w \in Good : TRUE OBVIOUS
    <2>2. w \in Listed /\ w # c BY <1>2 DEF Good
    <2>3. IsFiniteSet({c}) /\ Cardinality({c}) = 1 BY FS_Singleton
    <2>4. IsFiniteSet(Listed \ {c}) /\ Cardinality(Listed \ {c}) = Cardinality(Listed) - 1
      BY <1>1, <1>2, FS_RemoveElement
    <2>5. Listed \ {c} # {} BY <2>2
    <2>6. Cardinality(Listed \ {c}) # 0 BY <2>4, <2>5, FS_EmptySet
    <2>7. Cardinality(Listed) \in Nat /\ Cardinality(Listed \ {c}) \in Nat
      BY <1>1, <2>4, FS_CardinalityType
    <2> QED BY <2>4, <2>6, <2>7
  <1>7. C # {} BY <1>3
  <1>8. \E a \in C : \A b \in C : Place(c, a) <= Place(c, b)
    <2>1. P \in SUBSET Nat /\ P # {} BY <1>5, <1>7
    <2>2. PICK x \in P : \A y \in P : x <= y BY <2>1, LeastOf
    <2>3. PICK a \in C : x = Dist(c, a) BY <2>2
    <2>4. \A b \in C : Dist(c, b) \in P OBVIOUS
    <2> HIDE DEF P, C
    <2> QED BY <1>5, <2>2, <2>3, <2>4
  <1>9. t = CHOOSE a \in C : \A b \in C : Place(c, a) <= Place(c, b)
    BY <1>6, <1>7 DEF NextUsableAccount
  <1> HIDE DEF C, P, t
  <1>10. t \in C /\ \A b \in C : Place(c, t) <= Place(c, b) BY <1>8, <1>9
  <1>11. t \in Listed /\ t # c /\ t # None BY <1>1, <1>4, <1>10 DEF None
  <1>12. \A w \in Good : Dist(c, t) <= Dist(c, w) BY <1>3, <1>5, <1>10
  <1> QED BY <1>6, <1>11, <1>12 DEF t

(* An account that works is never held to be spent or expired. *)
LEMMA WorkingIsUsable ==
    ASSUME IInv, RefusedAreBad, NEW w \in Good
    PROVE  /\ LoginOf[w] \in Keys /\ LoginOf[w] \in WorkingLogins
           /\ LoginOf[w] \notin unusable /\ limited[LoginOf[w]] = 0
  <1>1. w \in Accounts /\ LoginOf[w] \in WorkingLogins
    BY AccountsAreFinite DEF IInv, Good
  <1>2. LoginOf[w] \in Keys BY <1>1, RotationAssumption
  <1>3. ASSUME NEW a \in refused, LoginOf[w] \in {LoginOf[a], a} PROVE FALSE
    <2>1. a \in Accounts /\ LoginOf[a] \notin WorkingLogins BY DEF IInv, RotationTypeOK, RefusedAreBad
    <2>2. LoginOf[w] = a => w = a BY <1>1, <2>1, RotationAssumption
    <2> QED BY <1>1, <1>3, <2>1, <2>2
  <1>4. limited[LoginOf[w]] \in Nat BY <1>2 DEF IInv, RotationTypeOK
  <1>5. ~(limited[LoginOf[w]] > 0 \/ LoginOf[w] \in unusable)
    BY <1>2, <1>3 DEF IInv, BlameIsRight
  <1> QED BY <1>1, <1>2, <1>4, <1>5

LEMMA ActiveIsListed ==
    ASSUME RotationTypeOK, Undisturbed
    PROVE  Active \in Listed /\ ActiveKey = LoginOf[Active]
  <1>1. Twins \in SUBSET Accounts BY DEF RotationTypeOK, Twins
  <1>2. Twins # {} => FirstOf(Twins) \in named BY <1>1, FirstOfIsIn DEF Twins
  <1>3. Active \in Listed BY <1>2 DEF Undisturbed, Active, Listed
  <1> QED BY <1>3 DEF ActiveKey

(* A switch passes at least the account it leaves. *)
LEMMA SwitchPasses ==
    ASSUME RotationTypeOK, Good # {}, Active \in Bad, NEW t \in Listed, t # Active,
           \A w \in Good : Dist(Active, t) <= Dist(Active, w),
           named' = named, chosen' = t
    PROVE  /\ Passed \in Nat /\ Passed' \in Nat /\ Passed' >= Passed + 1
           /\ chosen' \in named' \cup {1}
  <1>1. Listed' = Listed /\ Good' = Good /\ Bad' = Bad /\ Twins' = Twins
    BY DEF Listed, Good, Bad, Twins
  <1>2. Active' = t
    <2>1. 1 \notin named BY DEF RotationTypeOK
    <2>2. t = 1 => Twins = {} BY <2>1 DEF Listed
    <2> QED BY <1>1, <2>2 DEF Active
  <1>3. Ahead(Active)' = Ahead(t) BY <1>1, <1>2 DEF Ahead
  <1>4. Passed' = Cardinality(Bad) - Cardinality(Ahead(t)) BY <1>1, <1>3 DEF Passed
  <1>5. Cardinality(Ahead(t)) + 1 <= Cardinality(Ahead(Active)) BY FewerAhead
  <1>6. /\ Cardinality(Bad) \in Nat /\ Cardinality(Ahead(t)) \in Nat
        /\ Cardinality(Ahead(Active)) \in Nat
        /\ Cardinality(Ahead(t)) <= Cardinality(Bad)
        /\ Cardinality(Ahead(Active)) <= Cardinality(Bad)
    BY AccountsAreFinite
  <1>7. t \in named \cup {1} BY DEF Listed
  <1> QED BY <1>4, <1>5, <1>6, <1>7 DEF Passed

(* What switching, parking, ending and sending do to the retries.          *)
LEMMA SwitchTries ==
    ASSUME NEW w \in [Sessions -> Work], NEW t \in Sessions
    PROVE  ActivateAccount(w)[t].tries = w[t].tries
  BY DEF ActivateAccount, Disposed, CarryOver, Work

LEMMA ParkTries ==
    ASSUME NEW w \in [Sessions -> Work], NEW s \in Sessions, NEW wait
    PROVE  /\ ParkForLimit(w, s, wait)[s].tries = w[s].tries + 1
           /\ ParkForLimit(w, s, wait)[s].state = "parked" /\ ParkForLimit(w, s, wait)[s].at = wait
           /\ \A t \in Sessions : t # s => ParkForLimit(w, s, wait)[t] = w[t]
  BY DEF ParkForLimit, Work

LEMMA OverTries ==
    ASSUME NEW w \in [Sessions -> Work], NEW s \in Sessions, NEW state
    PROVE  /\ Over(w, s, state)[s].tries = 0
           /\ \A t \in Sessions : t # s => Over(w, s, state)[t] = w[t]
  BY DEF Over, Work

LEMMA SentTries ==
    ASSUME NEW w \in [Sessions -> Work], NEW s \in Sessions, NEW a
    PROVE  /\ Sent(w, s, a)[s].tries = w[s].tries
           /\ \A t \in Sessions : t # s => Sent(w, s, a)[t] = w[t]
  BY DEF Sent, Work

(* A refused turn is parked by the switch with one retry more, the others  *)
(* with none.                                                              *)
LEMMA ParkAfterSwitch ==
    ASSUME NEW w \in [Sessions -> Work], NEW s \in Sessions, NEW wait, NEW t \in Sessions
    PROVE  ParkForLimit(ActivateAccount(w), s, wait)[t].tries \in {w[t].tries, w[t].tries + 1}
  <1> DEFINE v == ActivateAccount(w)
  <1>1. v \in [Sessions -> Work] /\ v[t].tries = w[t].tries BY SwitchWork, SwitchTries
  <1> HIDE DEF v
  <1>2. CASE t = s
    <2>1. ParkForLimit(v, s, wait)[s].tries = v[s].tries + 1 BY <1>1, ParkTries
    <2> QED BY <1>1, <1>2, <2>1 DEF v
  <1>3. CASE t # s
    <2>1. ParkForLimit(v, s, wait)[t] = v[t] BY <1>1, <1>3, ParkTries
    <2> QED BY <1>1, <2>1 DEF v
  <1> QED BY <1>2, <1>3

(* A switch leaves every turn within its bound, with one retry spent or    *)
(* none.                                                                   *)
LEMMA SwitchKeepsWithin ==
    ASSUME NEW s \in Sessions, work[s].tries \in Nat, Within(s),
           Passed \in Nat, Passed' \in Nat, Passed' >= Passed + 1,
           work'[s].tries \in Nat, work'[s].tries <= work[s].tries + 1
    PROVE  Within(s)'
  <1> DEFINE p == Passed
             q == Passed'
             x == work[s].tries
             y == work'[s].tries
  <1>1. x > 0 => x <= 2 * p BY DEF Within
  <1>2. p \in Nat /\ q \in Nat /\ q >= p + 1 /\ x \in Nat /\ y \in Nat /\ y <= x + 1
    OBVIOUS
  <1> HIDE DEF p, q, x, y
  <1>3. y < 2 * q BY <1>1, <1>2
  <1>4. y <= 2 * q /\ y # 2 * q BY <1>2, <1>3
  <1> QED BY <1>4 DEF Within, q, y

(* Without a switch nothing is passed. *)
LEMMA NothingPassed ==
    ASSUME UNCHANGED <<named, chosen>>
    PROVE  /\ Passed' = Passed /\ Active' = Active /\ Bad' = Bad /\ Good' = Good
  <1>1. Listed' = Listed /\ Good' = Good /\ Bad' = Bad /\ Twins' = Twins /\ Active' = Active
    BY DEF Listed, Good, Bad, Twins, Active
  <1>2. Ahead(Active)' = Ahead(Active) BY <1>1 DEF Ahead
  <1> QED BY <1>1, <1>2 DEF Passed

LEMMA StayKeepsWithin ==
    ASSUME UNCHANGED <<named, chosen, cooldown>>, NEW s \in Sessions, Within(s),
           \/ work'[s].tries = 0
           \/ /\ work'[s].tries = work[s].tries
              /\ work[s].state = "parked" /\ work[s].at >= cooldown =>
                   cooldown = 0 \/ (work'[s].state = "parked" /\ work'[s].at >= cooldown)
    PROVE  Within(s)'
  <1>1. Passed' = Passed /\ Active' = Active /\ Bad' = Bad BY NothingPassed
  <1>2. CASE work'[s].tries = 0 BY <1>2 DEF Within
  <1>3. CASE work'[s].tries = work[s].tries BY <1>1, <1>2, <1>3 DEF Within
  <1> QED BY <1>2, <1>3

(* The search, while nothing disturbs it. *)
Searching == (cooldown > 0 => Passed > 0) /\ \A s \in Sessions : Within(s)

(* What is known of a session whose query refuses it then. *)
LEMMA RefusedHere ==
    ASSUME IInv, RefusedAreBad, Undisturbed, NEW s \in Sessions, Result(s), ~Disturb,
           LoginOf[work[s].query] \notin WorkingLogins
    PROVE  Active \in Bad /\ Active \in Accounts /\ work[s].state = "working"
           /\ ActiveKey = LoginOf[Active]
  <1>1. Active \in Listed /\ ActiveKey = LoginOf[Active] BY ActiveIsListed DEF IInv
  <1>2. work[s].query # None /\ work[s].state = "working" BY DEF Result
  <1>3. LoginOf[Active] = LoginOf[work[s].query] /\ Active \in Accounts
    BY <1>2, ActiveLogin DEF IInv, QueriesRunOnChosen
  <1> QED BY <1>1, <1>2, <1>3 DEF Bad, Good

(* A plan limit: before the cooldown is over the turn waits for it, and    *)
(* then the daemon moves on.                                               *)
LEMMA LimitedSearches ==
    ASSUME IInv, RefusedAreBad, Undisturbed, Searching, Good # {}, ~Disturb,
           NEW s \in Sessions, NEW wait \in MIN_WAIT_MS..MAX_WAIT_MS, Limited(s, wait)
    PROVE  Searching' /\ chosen' \in named' \cup {1}
  <1> DEFINE lim  == [limited EXCEPT ![ActiveKey] = wait]
             plan == PlanAfterLimit(lim, wait)
             next == NextUsableAccount(Active, lim, unusable)
  <1>1. /\ Active \in Bad /\ Active \in Accounts /\ work[s].state = "working"
        /\ ActiveKey = LoginOf[Active] /\ Active \in Listed
    BY RefusedHere DEF Limited, Bad
  <1>2. wait \in Nat /\ wait > 0 /\ SWITCH_SETTLE_MS \in Nat /\ cooldown \in Nat
    BY RotationAssumption DEF IInv, RotationTypeOK
  <1>3. limited \in [Keys -> Nat] /\ ActiveKey \in Keys /\ work \in [Sessions -> Work]
    BY ActiveLogin DEF IInv, RotationTypeOK
  <1>4. lim[ActiveKey] = wait /\ ~Usable(Active, lim, unusable)
    BY <1>1, <1>2, <1>3 DEF Usable
  <1>5. \A w \in Good : Usable(w, lim, unusable)
    <2> TAKE w \in Good
    <2>1. /\ LoginOf[w] \in Keys /\ LoginOf[w] \in WorkingLogins
          /\ LoginOf[w] \notin unusable /\ limited[LoginOf[w]] = 0
      BY WorkingIsUsable
    <2>2. LoginOf[w] # ActiveKey BY <1>1, <2>1 DEF Bad, Good
    <2> QED BY <1>3, <2>1, <2>2 DEF Usable
  <1> HIDE DEF lim
  <1>6. /\ next \in Listed /\ next # None /\ next # Active /\ ~(Cardinality(Listed) < 2)
        /\ \A w \in Good : Dist(Active, next) <= Dist(Active, w)
    BY <1>1, <1>5, NextIsNearest DEF IInv
  <1> HIDE DEF next
  <1>7. plan = IF cooldown > 0 THEN [to |-> None, wait |-> cooldown + SWITCH_SETTLE_MS]
               ELSE [to |-> next, wait |-> SWITCH_SETTLE_MS]
    BY <1>1, <1>4, <1>6 DEF PlanAfterLimit, next, Undisturbed
  <1> HIDE DEF plan
  <1>8. \A t \in Sessions : work[t].tries \in Nat BY <1>3 DEF Work
  <1>9. CASE work[s].tries + 1 > MAX_ATTEMPTS
    <2>1. work' = Over(work, s, "recent") /\ UNCHANGED <<named, chosen, cooldown>>
      BY <1>8, <1>9, RotationAssumption DEF Limited
    <2>2. \A t \in Sessions : work'[t].tries = 0 \/ work'[t] = work[t]
      BY <1>3, <2>1, OverTries
    <2>3. \A t \in Sessions : Within(t)' BY <2>1, <2>2, StayKeepsWithin DEF Searching
    <2> QED BY <2>1, <2>3, NothingPassed DEF Searching, Undisturbed
  <1>10. CASE ~(work[s].tries + 1 > MAX_ATTEMPTS) /\ cooldown > 0
    <2>1. work' = ParkForLimit(work, s, cooldown + SWITCH_SETTLE_MS) /\ UNCHANGED <<named, chosen, cooldown>>
      BY <1>7, <1>10 DEF Limited, plan, lim
    <2>2. ASSUME NEW t \in Sessions PROVE Within(t)'
      <3>1. CASE t # s
        <4>1. work'[t] = work[t] BY <1>3, <2>1, <3>1, ParkTries
        <4> QED BY <2>1, <4>1, StayKeepsWithin DEF Searching
      <3>2. CASE t = s
        <4> DEFINE p == Passed
                   x == work[s].tries
        <4>1. /\ work'[s].tries = x + 1 /\ work'[s].state = "parked"
              /\ work'[s].at = cooldown + SWITCH_SETTLE_MS
          BY <1>3, <2>1, ParkTries
        <4>2. p \in Nat /\ p > 0 /\ x \in Nat
          <5>1. p \in Int BY AccountsAreFinite DEF Passed, IInv
          <5> QED BY <1>8, <1>10, <5>1 DEF Searching
        <4>3. x > 0 => x <= 2 * p /\ x # 2 * p
          BY <1>1, <1>2, <1>10 DEF Searching, Within
        <4>4. Passed' = Passed /\ Active' = Active /\ Bad' = Bad BY <2>1, NothingPassed
        <4> HIDE DEF p, x
        <4>5. x + 1 <= 2 * p BY <4>2, <4>3
        <4>6. cooldown + SWITCH_SETTLE_MS >= cooldown BY <1>2
        <4> QED BY <1>1, <2>1, <3>2, <4>1, <4>4, <4>5, <4>6 DEF Within, p
      <3> QED BY <3>1, <3>2
    <2> QED BY <2>1, <2>2, NothingPassed DEF Searching, Undisturbed
  <1>11. CASE ~(work[s].tries + 1 > MAX_ATTEMPTS) /\ ~(cooldown > 0)
    <2>1. /\ work' = ParkForLimit(ActivateAccount(work), s, SWITCH_SETTLE_MS)
          /\ chosen' = next /\ named' = named
      BY <1>6, <1>7, <1>11 DEF Limited, plan, lim
    <2>2. /\ Passed \in Nat /\ Passed' \in Nat /\ Passed' >= Passed + 1
          /\ chosen' \in named' \cup {1}
      BY <1>1, <1>6, <2>1, SwitchPasses DEF IInv
    <2>3. ASSUME NEW t \in Sessions PROVE Within(t)'
      <3>1. work'[t].tries \in {work[t].tries, work[t].tries + 1}
        BY <1>3, <2>1, ParkAfterSwitch
      <3>2. work'[t].tries \in Nat /\ work'[t].tries <= work[t].tries + 1 BY <1>8, <3>1
      <3> QED BY <1>8, <2>2, <3>2, SwitchKeepsWithin DEF Searching
    <2> QED BY <2>2, <2>3 DEF Searching
  <1> QED BY <1>9, <1>10, <1>11

(* An expired login moves on at once. *)
LEMMA AuthFailsSearches ==
    ASSUME IInv, RefusedAreBad, Undisturbed, Searching, Good # {}, ~Disturb,
           NEW s \in Sessions, AuthFails(s)
    PROVE  Searching' /\ chosen' \in named' \cup {1}
  <1> DEFINE unus == unusable \cup {ActiveKey}
             next == NextUsableAccount(Active, limited, unus)
  <1>1. Active \in Bad /\ ActiveKey = LoginOf[Active]
    BY RefusedHere DEF AuthFails
  <1>2. work \in [Sessions -> Work] BY DEF IInv, RotationTypeOK
  <1>3. \A w \in Good : Usable(w, limited, unus)
    <2> TAKE w \in Good
    <2>1. /\ LoginOf[w] \in WorkingLogins
          /\ LoginOf[w] \notin unusable /\ limited[LoginOf[w]] = 0
      BY WorkingIsUsable
    <2>2. LoginOf[w] # ActiveKey BY <1>1, <2>1 DEF Bad, Good
    <2> QED BY <2>1, <2>2 DEF Usable
  <1> HIDE DEF unus
  <1>4. /\ next \in Listed /\ next # None /\ next # Active
        /\ \A w \in Good : Dist(Active, next) <= Dist(Active, w)
    BY <1>1, <1>3, NextIsNearest DEF IInv
  <1> HIDE DEF next
  <1>5. /\ work' = ParkForLimit(ActivateAccount(work), s, SWITCH_SETTLE_MS)
        /\ chosen' = next /\ named' = named
    BY <1>4 DEF AuthFails, next, unus, Undisturbed
  <1>6. /\ Passed \in Nat /\ Passed' \in Nat /\ Passed' >= Passed + 1
        /\ chosen' \in named' \cup {1}
    BY <1>1, <1>4, <1>5, SwitchPasses DEF IInv
  <1>7. ASSUME NEW t \in Sessions PROVE Within(t)'
    <2>1. work[t].tries \in Nat BY <1>2 DEF Work
    <2>2. work'[t].tries \in {work[t].tries, work[t].tries + 1}
      BY <1>2, <1>5, ParkAfterSwitch
    <2>3. work'[t].tries \in Nat /\ work'[t].tries <= work[t].tries + 1 BY <2>1, <2>2
    <2> QED BY <1>6, <2>1, <2>3, SwitchKeepsWithin DEF Searching
  <1> QED BY <1>6, <1>7 DEF Searching

(* A due retry moves on from an account known to be in trouble; one that   *)
(* stays on it has waited for the cooldown.                                *)
LEMMA RetrySearches ==
    ASSUME IInv, RefusedAreBad, Undisturbed, Searching, Good # {},
           NEW s \in Sessions, RetryFires(s)
    PROVE  Searching' /\ chosen' \in named' \cup {1}
  <1> DEFINE next == NextUsableAccount(Active, limited, unusable)
  <1>1. Active \in Listed BY ActiveIsListed DEF IInv
  <1>2. work \in [Sessions -> Work] /\ cooldown \in Nat BY DEF IInv, RotationTypeOK
  <1>3. \A w \in Good : Usable(w, limited, unusable) BY WorkingIsUsable DEF Usable
  <1>4. CASE AccountForRetry = None
    <2>1. work' = Sent(work, s, Active) /\ UNCHANGED <<named, chosen, cooldown>>
      BY <1>4 DEF RetryFires
    <2>2. work[s].at = 0 BY DEF RetryFires
    <2>3. ASSUME NEW t \in Sessions PROVE Within(t)'
      <3>1. CASE t # s
        <4>1. work'[t] = work[t] BY <1>2, <2>1, <3>1, SentTries
        <4> QED BY <2>1, <4>1, StayKeepsWithin DEF Searching
      <3>2. CASE t = s
        <4>1. work'[s].tries = work[s].tries BY <1>2, <2>1, SentTries
        <4>2. work[s].at >= cooldown => cooldown = 0 BY <1>2, <2>2
        <4> QED BY <2>1, <3>2, <4>1, <4>2, StayKeepsWithin DEF Searching
      <3> QED BY <3>1, <3>2
    <2> QED BY <2>1, <2>3, NothingPassed DEF Searching, Undisturbed
  <1>5. CASE AccountForRetry # None
    <2>1. AccountForRetry = next /\ ~Usable(Active, limited, unusable)
      BY <1>1, <1>5 DEF AccountForRetry
    <2>2. Active \in Bad BY <1>1, <1>3, <2>1 DEF Bad
    <2>3. /\ next \in Listed /\ next # Active
          /\ \A w \in Good : Dist(Active, next) <= Dist(Active, w)
      BY <1>3, <2>2, NextIsNearest DEF IInv
    <2>4. work' = Sent(ActivateAccount(work), s, next) /\ chosen' = next /\ named' = named
      BY <1>5, <2>1 DEF RetryFires
    <2> HIDE DEF next
    <2>5. /\ Passed \in Nat /\ Passed' \in Nat /\ Passed' >= Passed + 1
          /\ chosen' \in named' \cup {1}
      BY <2>2, <2>3, <2>4, SwitchPasses DEF IInv
    <2>6. ASSUME NEW t \in Sessions PROVE Within(t)'
      <3> DEFINE v == ActivateAccount(work)
      <3>1. v \in [Sessions -> Work] /\ v[t].tries = work[t].tries /\ work[t].tries \in Nat
        BY <1>2, SwitchWork, SwitchTries DEF Work
      <3>2. work' = Sent(v, s, next) BY <2>4
      <3> HIDE DEF v
      <3>3. t = s => work'[t].tries = v[t].tries BY <3>1, <3>2, SentTries
      <3>4. t # s => work'[t] = v[t] BY <3>1, <3>2, SentTries
      <3>5. work'[t].tries = work[t].tries BY <3>1, <3>3, <3>4
      <3>6. work'[t].tries \in Nat /\ work'[t].tries <= work[t].tries + 1 BY <3>1, <3>5
      <3> QED BY <2>5, <3>1, <3>6, SwitchKeepsWithin DEF Searching
    <2> QED BY <2>5, <2>6 DEF Searching
  <1> QED BY <1>4, <1>5

(* Messages, answers and silence move nothing on. *)
LEMMA OthersSearch ==
    ASSUME IInv, Searching, NEW s \in Sessions, Send(s) \/ Answered(s) \/ Quietens(s)
    PROVE  Searching'
  <1>1. work \in [Sessions -> Work] BY DEF IInv, RotationTypeOK
  <1>2. UNCHANGED <<named, chosen, cooldown>> BY DEF Send, Answered, Quietens
  <1> DEFINE v == Over(work, s, "recent")
  <1>3. /\ v \in [Sessions -> Work] /\ v[s].tries = 0
        /\ \A t \in Sessions : t # s => v[t] = work[t]
    <2>1. v \in [Sessions -> Work] BY <1>1, OverWork DEF States
    <2>2. v[s].tries = 0 /\ \A t \in Sessions : t # s => v[t] = work[t] BY <1>1, OverTries
    <2> QED BY <2>1, <2>2
  <1>4. /\ \A t \in Sessions : t # s => work'[t] = work[t]
        /\ \/ work'[s].tries = 0
           \/ work'[s].tries = work[s].tries /\ work[s].state # "parked"
    <2>1. CASE Send(s) /\ work[s].state = "parked"
      <3>1. work' = Sent(v, s, Active) BY <2>1 DEF Send
      <3> HIDE DEF v
      <3>2. work'[s].tries = v[s].tries /\ \A t \in Sessions : t # s => work'[t] = v[t]
        BY <1>3, <3>1, SentTries
      <3> QED BY <1>3, <3>2
    <2>2. CASE Send(s) /\ work[s].state # "parked"
      <3>1. work' = Sent(work, s, Active) BY <2>2 DEF Send
      <3>2. work'[s].tries = work[s].tries /\ \A t \in Sessions : t # s => work'[t] = work[t]
        BY <1>1, <3>1, SentTries
      <3> QED BY <2>2, <3>2
    <2>3. CASE Answered(s)
      <3>1. work' = v BY <2>3 DEF Answered
      <3> HIDE DEF v
      <3> QED BY <1>3, <3>1
    <2>4. CASE Quietens(s) BY <1>1, <2>4 DEF Quietens, Work
    <2> QED BY <2>1, <2>2, <2>3, <2>4
  <1> HIDE DEF v
  <1>5. ASSUME NEW t \in Sessions PROVE Within(t)'
    <2>1. CASE t = s BY <1>2, <1>4, <2>1, StayKeepsWithin DEF Searching
    <2>2. CASE t # s
      <3>1. work'[t] = work[t] BY <1>4, <2>2
      <3> QED BY <1>2, <3>1, StayKeepsWithin DEF Searching
    <2> QED BY <2>1, <2>2
  <1> QED BY <1>2, <1>5, NothingPassed DEF Searching

(* Time shortens the cooldown and the waits alike. *)
LEMMA TickSearches ==
    ASSUME IInv, Searching, Tick
    PROVE  Searching'
  <1>1. work \in [Sessions -> Work] /\ cooldown \in Nat BY DEF IInv, RotationTypeOK
  <1>2. UNCHANGED <<named, chosen>> /\ cooldown' = Less(cooldown) BY DEF Tick
  <1>3. Passed' = Passed /\ Active' = Active /\ Bad' = Bad BY <1>2, NothingPassed
  <1>4. cooldown' \in Nat /\ cooldown' <= cooldown /\ (cooldown' > 0 => cooldown > 0)
    BY <1>1, <1>2 DEF Less
  <1>5. ASSUME NEW t \in Sessions PROVE Within(t)'
    <2>1. /\ work'[t].tries = work[t].tries /\ work'[t].state = work[t].state
          /\ work'[t].at = Less(work[t].at) /\ work[t].at \in Nat
      BY <1>1 DEF Tick, Work
    <2>2. /\ cooldown = 0 => cooldown' = 0
          /\ work[t].at >= cooldown => work'[t].at >= cooldown'
      BY <1>1, <1>2, <2>1 DEF Less
    <2>3. Within(t) BY DEF Searching
    <2> QED BY <1>3, <2>1, <2>2, <2>3 DEF Within
  <1> QED BY <1>3, <1>4, <1>5 DEF Searching

LEMMA SearchStep == IInv /\ CutTurnsAreQueued /\ SearchInv /\ [RotationNext]_rotationVars => SearchInv'
  <1> SUFFICES ASSUME IInv, CutTurnsAreQueued, SearchInv, [RotationNext]_rotationVars PROVE SearchInv'
    OBVIOUS
  <1>1. RefusedAreBad'
    <2>1. \/ refused' = refused
          \/ \E s \in Sessions : /\ refused' = refused \cup {work[s].query}
                                 /\ LoginOf[work[s].query] \notin WorkingLogins
      BY DEF rotationVars, RotationNext, TurnEnds, Limited, AuthFails, Answered, RetryFires, Send, Quietens,
             Stalls, SetAccount, SubmitLoginCode, AccountsChange, SetOptions, Tick
    <2> QED BY <2>1 DEF SearchInv, RefusedAreBad
  <1>2. CASE UNCHANGED rotationVars
    <2>1. UNCHANGED <<named, chosen, cooldown, work, enabled, disturbances>> BY <1>2 DEF rotationVars
    <2>2. Searching => Searching'
      BY <2>1, NothingPassed, StayKeepsWithin DEF Searching
    <2> QED BY <1>1, <2>1, <2>2, NothingPassed DEF SearchInv, Searching, Undisturbed
  <1>3. CASE RotationNext
    <2> SUFFICES ASSUME disturbances' = 0
                 PROVE  Undisturbed' /\ (Good' # {} => Searching')
      BY <1>1 DEF SearchInv, Searching
    <2>1. disturbances \in Nat /\ work \in [Sessions -> Work] BY DEF IInv, RotationTypeOK
    <2>2. ~Disturb BY <2>1 DEF Disturb
    <2>3. disturbances = 0
      BY <1>3, <2>2 DEF RotationNext, TurnEnds, Limited, AuthFails, Answered, Result, RetryFires, Send,
                  Quietens, Stalls, SetAccount, SubmitLoginCode, AccountsChange, SetOptions, Tick
    <2>4. RefusedAreBad /\ Undisturbed /\ (Good # {} => Searching)
      BY <2>3 DEF SearchInv, Searching
    <2>5. Active \in Listed BY <2>4, ActiveIsListed DEF IInv
    <2>6. ASSUME UNCHANGED <<named, chosen, enabled>>, Searching => Searching'
          PROVE  Undisturbed' /\ (Good' # {} => Searching')
      BY <2>4, <2>6, NothingPassed DEF Undisturbed
    <2>7. ASSUME UNCHANGED <<named, enabled>>, chosen' \in Listed \cup {chosen},
                 Good # {} => Searching'
          PROVE  Undisturbed' /\ (Good' # {} => Searching')
      <3>1. Good' = Good BY <2>7 DEF Good, Listed, Twins
      <3>2. chosen' \in named' \cup {1} BY <2>4, <2>7 DEF Undisturbed, Listed
      <3> QED BY <2>4, <2>7, <3>1, <3>2 DEF Undisturbed
    <2>8. ASSUME NEW s \in Sessions, NEW wait \in MIN_WAIT_MS..MAX_WAIT_MS, Limited(s, wait)
          PROVE  Undisturbed' /\ (Good' # {} => Searching')
      <3> DEFINE lim == [limited EXCEPT ![ActiveKey] = wait]
                 to  == PlanAfterLimit(lim, wait).to
      <3>1. wait \in Nat /\ wait > 0 /\ ActiveKey \in Keys
        BY RotationAssumption, ActiveLogin DEF IInv
      <3>2. lim \in [Keys -> Nat] /\ lim[ActiveKey] = wait BY <3>1 DEF IInv, RotationTypeOK
      <3>3. chosen' = chosen \/ (chosen' = to /\ to # None) BY <2>8 DEF Limited
      <3> HIDE DEF lim
      <3>4. to # None => to \in Candidates(Active, lim, unusable)
        BY <3>1, <3>2, PlanIsCandidate DEF IInv
      <3> HIDE DEF to
      <3>5. chosen' \in Listed \cup {chosen} BY <3>3, <3>4, CandidateFacts DEF IInv
      <3>6. Good # {} => Searching' BY <2>2, <2>4, <2>8, LimitedSearches
      <3>7. UNCHANGED <<named, enabled>> BY <2>8 DEF Limited
      <3> QED BY <2>7, <3>5, <3>6, <3>7
    <2>9. ASSUME NEW s \in Sessions, AuthFails(s)
          PROVE  Undisturbed' /\ (Good' # {} => Searching')
      <3> DEFINE unus == unusable \cup {ActiveKey}
                 to   == NextUsableAccount(Active, limited, unus)
      <3>1. chosen' = chosen \/ (chosen' = to /\ to # None) BY <2>9 DEF AuthFails
      <3>2. to # None => to \in Candidates(Active, limited, unus)
        BY ActiveLogin, NextIsCandidate DEF IInv
      <3> HIDE DEF to
      <3>3. chosen' \in Listed \cup {chosen} BY <3>1, <3>2, CandidateFacts DEF IInv
      <3>4. Good # {} => Searching' BY <2>2, <2>4, <2>9, AuthFailsSearches
      <3>5. UNCHANGED <<named, enabled>> BY <2>9 DEF AuthFails
      <3> QED BY <2>7, <3>3, <3>4, <3>5
    <2>10. ASSUME NEW s \in Sessions, RetryFires(s)
           PROVE  Undisturbed' /\ (Good' # {} => Searching')
      <3> DEFINE to == NextUsableAccount(Active, limited, unusable)
      <3>1. chosen' = chosen \/ (chosen' = to /\ to # None)
        BY <2>10 DEF RetryFires, AccountForRetry
      <3>2. to # None => to \in Candidates(Active, limited, unusable)
        BY ActiveLogin, NextIsCandidate DEF IInv
      <3> HIDE DEF to
      <3>3. chosen' \in Listed \cup {chosen} BY <3>1, <3>2, CandidateFacts DEF IInv
      <3>4. Good # {} => Searching' BY <2>4, <2>10, RetrySearches
      <3>5. UNCHANGED <<named, enabled>> BY <2>10 DEF RetryFires
      <3> QED BY <2>7, <3>3, <3>4, <3>5
    <2>11. ASSUME NEW s \in Sessions, Send(s) \/ Answered(s) \/ Quietens(s)
           PROVE  Undisturbed' /\ (Good' # {} => Searching')
      <3>1. UNCHANGED <<named, chosen, enabled>> BY <2>11 DEF Send, Answered, Quietens
      <3> QED BY <2>6, <2>11, <3>1, OthersSearch
    <2>12. ASSUME NEW s \in Sessions, Stalls(s) PROVE FALSE
      BY <2>2, <2>3, <2>12 DEF Stalls, CutTurnsAreQueued
    <2>13. ASSUME NEW a \in Accounts, SetAccount(a) \/ SubmitLoginCode(a) \/ AccountsChange(a)
           PROVE  FALSE
      BY <2>2, <2>13 DEF SetAccount, SubmitLoginCode, AccountsChange
    <2>14. ASSUME SetOptions PROVE FALSE BY <2>2, <2>14 DEF SetOptions
    <2>15. CASE Tick
      <3>1. UNCHANGED <<named, chosen, enabled>> BY <2>15 DEF Tick
      <3> QED BY <2>6, <2>15, <3>1, TickSearches
    <2> QED BY <1>3, <2>8, <2>9, <2>10, <2>11, <2>12, <2>13, <2>14, <2>15 DEF RotationNext, TurnEnds
  <1> QED BY <1>2, <1>3

(* However many accounts refuse, in whatever order limits end, cooldowns   *)
(* pass and sessions are refused, planAfterLimit, onAuthFailure and        *)
(* accountForRetry reach an account that works before a turn has spent two *)
(* retries on each of the others.                                          *)
THEOREM SearchStaysShort == RotationSpec => []SearchIsShort
  <1>1. RotationInit => SearchInv
    <2> SUFFICES ASSUME RotationInit PROVE SearchInv
      OBVIOUS
    <2>1. \A s \in Sessions : work[s].tries = 0 BY DEF RotationInit
    <2>2. \A s \in Sessions : Within(s) BY <2>1 DEF Within
    <2> QED BY <2>2 DEF RotationInit, SearchInv, RefusedAreBad, Undisturbed
  <1>2. IInv /\ SearchInv => SearchIsShort
    <2> SUFFICES ASSUME IInv, SearchInv, disturbances = 0, Good # {}, NEW s \in Sessions
                 PROVE  work[s].tries < 2 * Cardinality(Bad) \/ work[s].tries = 0
      BY DEF SearchIsShort
    <2> DEFINE b == Cardinality(Bad)
               h == Cardinality(Ahead(Active))
               x == work[s].tries
    <2>1. b \in Nat /\ h \in Nat /\ h <= b /\ IsFiniteSet(Ahead(Active)) /\ x \in Nat
      BY AccountsAreFinite DEF IInv, RotationTypeOK, Work
    <2>2. x > 0 => x <= 2 * (b - h) /\ (x = 2 * (b - h) => Active \in Bad)
      BY DEF SearchInv, Within, Passed
    <2>3. Active \in Bad => h > 0
      <3> SUFFICES ASSUME Active \in Bad PROVE h > 0
        OBVIOUS
      <3>1. Active \in Ahead(Active)
        <4>1. Active \notin Good /\ N \in Nat /\ Active \in Nat
              /\ \A w \in Good : w \in Nat /\ 1 <= w /\ Active <= N
          BY AccountsAreFinite DEF IInv, Bad
        <4> QED BY <4>1 DEF Ahead, Dist
      <3>2. h # 0 BY <2>1, <3>1, FS_EmptySet
      <3> QED BY <2>1, <3>2
    <2> HIDE DEF b, h, x
    <2>4. x < 2 * b \/ x = 0 BY <2>1, <2>2, <2>3
    <2> QED BY <2>4 DEF b, x
  <1> QED BY <1>1, <1>2, SearchStep, RotationInvariant, CutTurnsStayQueued, PTL DEF RotationSpec
=============================================================================
