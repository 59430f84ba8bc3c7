------------------------------- MODULE Login --------------------------------
(***************************************************************************)
(* Signing in to an account from the panel: LoginManager of                *)
(* src/daemon/src/login.ts, the operations of src/daemon/src/main.ts that  *)
(* call it, and the card that asks for the code (src/extension).           *)
(*                                                                         *)
(* `claude auth login` runs as a child process that prints a link and then *)
(* waits for a code on its input.  The daemon keeps an entry per child,    *)
(* with a timer that ends an abandoned one.  The window gives a request    *)
(* up sooner than the daemon gives up the exchange; in the panel there is  *)
(* one card at a time.                                                     *)
(***************************************************************************)
EXTENDS Naturals

CONSTANTS LoginIds,       \* sign-ins ever started
          MaxSubmits      \* bound on codes sent per sign-in

ASSUME LoginAssumption == MaxSubmits \in Nat

NoCard == [state |-> "none"]

VARIABLES child,      \* "unborn", "starting", "waiting", "coded", "gone"
          entry,      \* `pending` has the sign-in (its abandonTimer runs)
          start,      \* startLogin: "no", "asked", "answered"
          submits,    \* submitCode calls awaiting the exchange
          codes,      \* codes sent so far (bound)
          orphaned,   \* the exchange timed out with the child still running
          signedIn,   \* the directory holds a working login
          asking,     \* window: what it waits for, "link" or "result"
          card,       \* panel: loginCard, with the sign-in it is for
          leaving     \* panel: timers that will take the card away

loginVars == <<child, entry, start, submits, codes, orphaned, signedIn, asking, card, leaving>>
managerVars == <<child, entry, start, submits, orphaned, signedIn>>

Running(l) == child[l] \in {"starting", "waiting", "coded"}

LoginInit ==
    /\ child = [l \in LoginIds |-> "unborn"]
    /\ entry = [l \in LoginIds |-> FALSE]
    /\ start = [l \in LoginIds |-> "no"]
    /\ submits = [l \in LoginIds |-> 0]
    /\ codes = [l \in LoginIds |-> 0]
    /\ orphaned = [l \in LoginIds |-> FALSE]
    /\ signedIn = [l \in LoginIds |-> FALSE]
    /\ asking = [l \in LoginIds |-> {}]
    /\ card = NoCard /\ leaving = 0

-----------------------------------------------------------------------------
(* The panel                                                               *)

(* showLoginPrompt: the card takes the place of any other, which goes      *)
(* without a word to the daemon.                                           *)
ShowLoginPrompt(l) == card' = [login |-> l, state |-> "open"] /\ UNCHANGED leaving

(* showLoginResult: it does not say whose result it is, and is shown on    *)
(* the card there is.  After a success a timer takes the card away.        *)
ShowLoginResult(ok) ==
    /\ card' = IF card = NoCard \/ card.state = "done" THEN card
               ELSE [card EXCEPT !.state = IF ok THEN "done" ELSE "open"]
    /\ leaving' = IF ok /\ card # NoCard THEN leaving + 1 ELSE leaving

(* dismissLoginPrompt, by such a timer: whichever card is there by then. *)
DismissLoginPrompt ==
    /\ leaving > 0
    /\ leaving' = leaving - 1
    /\ card' = NoCard
    /\ UNCHANGED <<managerVars, codes, asking>>

-----------------------------------------------------------------------------
(* LoginManager and the requests that reach it                             *)

(* start: spawn the child, note it with its timer, wait for the link. *)
StartLogin(l) ==
    /\ child[l] = "unborn"
    /\ child' = [child EXCEPT ![l] = "starting"]
    /\ entry' = [entry EXCEPT ![l] = TRUE]
    /\ start' = [start EXCEPT ![l] = "asked"]
    /\ asking' = [asking EXCEPT ![l] = {"link"}]
    /\ UNCHANGED <<submits, codes, orphaned, signedIn, card, leaving>>

(* startLoginFor goes on when the link has come; nobody is told if the     *)
(* request was given up.                                                   *)
StartAnswered(l, linked) ==
    /\ start' = [start EXCEPT ![l] = "answered"]
    /\ asking' = [asking EXCEPT ![l] = {}]
    /\ IF linked /\ "link" \in asking[l] THEN ShowLoginPrompt(l)
       ELSE UNCHANGED <<card, leaving>>

LinkPrinted(l) ==
    /\ child[l] = "starting" /\ start[l] = "asked"
    /\ child' = [child EXCEPT ![l] = "waiting"]
    /\ StartAnswered(l, TRUE)
    /\ UNCHANGED <<entry, submits, codes, orphaned, signedIn>>

Cancel_ForgetsOnly(l) ==
    /\ entry' = [entry EXCEPT ![l] = FALSE]
    /\ UNCHANGED child

(* cancel: forget the entry, end the child. *)
Cancel(l) ==
    /\ entry' = [entry EXCEPT ![l] = FALSE]
    /\ child' = [child EXCEPT ![l] = IF entry[l] THEN "gone" ELSE @]

(* No link in time. *)
LinkTimeout(l) ==
    /\ child[l] = "starting" /\ start[l] = "asked"
    /\ Cancel(l)
    /\ StartAnswered(l, FALSE)
    /\ UNCHANGED <<submits, codes, orphaned, signedIn>>

(* The child ends before the link: the entry is dropped.  Ending later, it *)
(* is noticed by nobody but a submit that waits for it.                    *)
ChildExits(l) ==
    /\ child[l] \in {"starting", "waiting"}
    /\ child' = [child EXCEPT ![l] = "gone"]
    /\ entry' = [entry EXCEPT ![l] = @ /\ start[l] # "asked"]
    /\ IF start[l] = "asked" THEN StartAnswered(l, FALSE)
       ELSE UNCHANGED <<start, asking, card, leaving>>
    /\ UNCHANGED <<submits, codes, orphaned, signedIn>>

(* submitCode up to its wait. *)
SubmitCode(l) ==
    /\ submits' = [submits EXCEPT ![l] = @ + 1]
    /\ child' = [child EXCEPT ![l] = IF @ = "waiting" THEN "coded" ELSE @]

(* The user sends the code from the card.  Without an entry the answer is  *)
(* "no longer active".                                                     *)
SendCode(l) ==
    /\ card = [login |-> l, state |-> "open"] /\ codes[l] < MaxSubmits
    /\ codes' = [codes EXCEPT ![l] = @ + 1]
    /\ IF entry[l]
       THEN /\ card' = [card EXCEPT !.state = "sending"]
            /\ asking' = [asking EXCEPT ![l] = {"result"}]
            /\ SubmitCode(l)
            /\ UNCHANGED leaving
       ELSE ShowLoginResult(FALSE) /\ UNCHANGED <<asking, submits, child>>
    /\ UNCHANGED <<entry, start, orphaned, signedIn>>

(* What every submit does once its wait is over: the timer and the entry   *)
(* go, `auth status` decides, and the panel is told if it still waits.     *)
Conclude(l) ==
    /\ submits' = [submits EXCEPT ![l] = 0]
    /\ entry' = [entry EXCEPT ![l] = FALSE]
    /\ asking' = [asking EXCEPT ![l] = {}]
    /\ IF asking[l] # {} THEN ShowLoginResult(signedIn'[l]) ELSE UNCHANGED <<card, leaving>>

(* The child takes the code or refuses it, and exits. *)
Exchange(l, accepted) ==
    /\ child[l] = "coded"
    /\ child' = [child EXCEPT ![l] = "gone"]
    /\ signedIn' = [signedIn EXCEPT ![l] = @ \/ accepted]
    /\ Conclude(l)
    /\ UNCHANGED <<start, codes, orphaned>>

(* The wait ends: the child was cancelled, or EXCHANGE_TIMEOUT_MS passed    *)
(* with it still running (nobody ends it any more) or gone before the code. *)
ExchangeTimeout(l) ==
    /\ submits[l] > 0
    /\ orphaned' = [orphaned EXCEPT ![l] = Running(l)]
    /\ UNCHANGED signedIn
    /\ Conclude(l)
    /\ UNCHANGED <<child, start, codes>>

(* A request is given up after REQUEST_TIMEOUT_MS, and with the connection *)
(* all others: errors in the panel while the daemon still waits.           *)
RequestTimeout ==
    /\ \E l \in LoginIds : asking[l] # {}
    /\ asking' = [l \in LoginIds |-> {}]
    /\ IF \E l \in LoginIds : "result" \in asking[l] THEN ShowLoginResult(FALSE)
       ELSE UNCHANGED <<card, leaving>>
    /\ UNCHANGED <<managerVars, codes>>

(* The user cancels; the card goes with it. *)
CancelLogin(l) ==
    /\ card \in {[login |-> l, state |-> "open"], [login |-> l, state |-> "sending"]}
    /\ Cancel(l)
    /\ card' = NoCard
    /\ UNCHANGED <<start, submits, codes, orphaned, signedIn, asking, leaving>>

(* ABANDON_TIMEOUT_MS after the start. *)
Abandon(l) ==
    /\ entry[l]
    /\ Cancel(l)
    /\ UNCHANGED <<start, submits, codes, orphaned, signedIn, asking, card, leaving>>

LoginNext ==
    \/ \E l \in LoginIds :
        \/ StartLogin(l) \/ LinkPrinted(l) \/ LinkTimeout(l) \/ ChildExits(l)
        \/ SendCode(l) \/ Exchange(l, TRUE) \/ Exchange(l, FALSE)
        \/ ExchangeTimeout(l) \/ CancelLogin(l) \/ Abandon(l)
    \/ RequestTimeout
    \/ DismissLoginPrompt

(* Timers fire.  The child may hang at any point, the user may walk away.  *)
LoginFairness ==
    \A l \in LoginIds :
        WF_loginVars(LinkTimeout(l)) /\ WF_loginVars(ExchangeTimeout(l))
        /\ WF_loginVars(Abandon(l))

LoginSpec == LoginInit /\ [][LoginNext]_loginVars /\ LoginFairness

-----------------------------------------------------------------------------
(* No sign-in process stays for ever ("An abandoned login holds a child    *)
(* process; don't keep it forever", login.ts), except the one a timed-out  *)
(* exchange leaves: its timer is cleared and nothing ends it.              *)
LoginChildEnds ==
    \A l \in LoginIds : Running(l) ~> (~Running(l) \/ orphaned[l])

(* Every code sent is answered, also when the child ended before it or     *)
(* hangs, or the sign-in is cancelled meanwhile.                           *)
SubmitIsAnswered == \A l \in LoginIds : submits[l] > 0 ~> submits[l] = 0

(* Together: whatever becomes of a sign-in, nothing of it is left waiting. *)
SignInEnds == LoginChildEnds /\ SubmitIsAnswered
=============================================================================
