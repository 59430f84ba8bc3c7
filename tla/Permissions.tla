---------------------------- MODULE Permissions -----------------------------
(***************************************************************************)
(* What Claude asks the user (canUseTool, resolvePermission and            *)
(* setPermissionMode of session.ts), the card that shows it in a panel     *)
(* (chat.js), and the notice on a phone (push.ts).                         *)
(*                                                                         *)
(* A request waits in the daemon's memory only; its card is drawn from the *)
(* transcript, which outlives the daemon.  Several windows and the phone   *)
(* may answer it, and a mode switch answers it too.                        *)
(***************************************************************************)
EXTENDS Naturals, Sequences, FiniteSets

CONSTANTS
    Reqs,           \* request ids
    Questions,      \* the requests that are questions (AskUserQuestion)
    REPLAYED,       \* events replayed to a panel that attaches (400 in the code)
    MAX_ANNOUNCED,  \* announced requests that are remembered (500 in the code)
    MaxDeaths       \* bound on the deaths of the CLI and of the daemon

ASSUME PermissionsAssumption ==
    /\ Questions \subseteq Reqs
    /\ {REPLAYED, MAX_ANNOUNCED} \subseteq Nat \ {0} /\ MaxDeaths \in Nat

VARIABLES
    log,                \* the transcript, of which the requests and answers
    pendingPermissions, \* requests that wait in the daemon
    call,               \* what the CLI knows of each of its tool calls
    permissionMode,     \* meta.permissionMode is bypassPermissions
    cliMode,            \* the CLI is in bypassPermissions
    from, drawn,        \* what a panel has drawn: log[from .. drawn]
    wants,              \* the phone is registered for attention notices
    announced,          \* push.ts: requests a phone was told about
    sends,              \* notices on their way to Google
    kept,               \* the notice of the chat that Google keeps for the phone
    notices,            \* requests the phone shows
    deaths,             \* how often a CLI or a daemon went away
    lost,               \* history: requests a restarted daemon does not know
    misled,             \* history: requests of which a notice was lost, overtaken or not sent
    replaced            \* history: requests whose withdrawal gave way to another notice

askVars   == <<log, pendingPermissions, call>>
panelVars == <<from, drawn>>
pushVars  == <<announced, sends, misled>>
phoneVars == <<pushVars, wants, kept, notices, replaced>>
permissionsVars == <<askVars, permissionMode, cliMode, panelVars, phoneVars, deaths, lost>>

AskedFor(r) == [kind |-> "asked", req |-> r]
Answer(r, allow) == [kind |-> "answered", req |-> r, allowed |-> allow]

HasAsked(r, lo, hi)    == \E i \in lo..hi : log[i] = AskedFor(r)
HasAnswered(r, lo, hi) == \E i \in lo..hi, allow \in BOOLEAN : log[i] = Answer(r, allow)

-----------------------------------------------------------------------------

PermissionsInit ==
    /\ log = <<>>
    /\ pendingPermissions = {}
    /\ call = [r \in Reqs |-> "none"]
    /\ permissionMode = FALSE
    /\ cliMode = FALSE
    /\ from = 1 /\ drawn = 0
    /\ wants = FALSE
    /\ announced = {}
    /\ sends = {}
    /\ kept = {}
    /\ notices = {}
    /\ deaths = 0
    /\ lost = {}
    /\ misled = {} /\ replaced = {}

Attention(r) == [kind |-> "attention", req |-> r]
Resolved(r)  == [kind |-> "resolved", req |-> r]

AskedBefore(q, r) == \E i, j \in DOMAIN log : i <= j /\ log[i] = AskedFor(q) /\ log[j] = AskedFor(r)

(* The bound on announced: a full set forgets its oldest member. *)
Forgotten ==
    {q \in announced : /\ Cardinality(announced) >= MAX_ANNOUNCED
                       /\ \A r \in announced : AskedBefore(q, r)}

(* push.onEvent of a request: it is announced if a phone wants to hear it. *)
PushAsked(r) ==
    IF wants
    THEN /\ announced' = (announced \cup {r}) \ Forgotten
         /\ sends' = sends \cup {Attention(r)}
         /\ misled' = misled \cup Forgotten
    ELSE UNCHANGED pushVars

PushAnswered_Forgets(rs) ==
    /\ announced' = announced \ rs
    /\ UNCHANGED <<sends, misled>>

(* push.onEvent of answers: what was announced, and only that, is taken    *)
(* down, on a phone that wants attention notices at that moment.           *)
PushAnswered(rs) ==
    /\ announced' = announced \ rs
    /\ IF wants
       THEN /\ sends' = sends \cup {Resolved(r) : r \in rs \cap announced}
            /\ misled' = misled
       ELSE /\ sends' = sends
            /\ misled' = misled \cup (rs \cap announced)

(* canUseTool: the request is recorded and the call waits.  A CLI in       *)
(* bypass asks for no tool; a question is always asked.                    *)
CanUseTool(r) ==
    /\ call[r] = "none"
    /\ ~cliMode \/ r \in Questions
    /\ call' = [call EXCEPT ![r] = "waiting"]
    /\ log' = Append(log, AskedFor(r))
    /\ pendingPermissions' = pendingPermissions \cup {r}
    /\ PushAsked(r)
    /\ UNCHANGED <<permissionMode, cliMode, panelVars, wants, kept, notices, replaced, deaths, lost>>

(* pending.settle: the promise the CLI's call waits on.  A call of a CLI   *)
(* that went away has nobody behind it.  A question is allowed only with   *)
(* its answers in hand, which is what a card sends along when it allows.   *)
Settle(rs, allow) ==
    call' = [r \in Reqs |-> IF r \in rs /\ call[r] = "waiting"
                            THEN (IF allow THEN "allowed" ELSE "denied") ELSE call[r]]

ResolvePermission_NoCheck(r, allow) ==
    /\ pendingPermissions' = pendingPermissions \ {r}
    /\ log' = Append(log, Answer(r, allow))
    /\ Settle({r}, allow)
    /\ PushAnswered({r})

(* resolvePermission: the first answer counts, a later one is ignored. *)
ResolvePermission(r, allow) ==
    /\ r \in pendingPermissions
    /\ pendingPermissions' = pendingPermissions \ {r}
    /\ log' = Append(log, Answer(r, allow))
    /\ Settle({r}, allow)
    /\ PushAnswered({r})

(* A click on a card that a window, or the phone's list, still shows as    *)
(* waiting: it may come when the request was answered elsewhere.           *)
Click(r, allow) ==
    /\ \E i \in DOMAIN log : log[i] = AskedFor(r)
    /\ ResolvePermission(r, allow)
    /\ UNCHANGED <<permissionMode, cliMode, panelVars, wants, kept, notices, replaced, deaths, lost>>

(* "Never auto-answer actual questions". *)
BypassAnswers == pendingPermissions \ Questions

(* setPermissionMode: the mode is stored; bypass allows every tool that    *)
(* waits, in turn; then the CLI is told.                                   *)
SetPermissionMode(bypass) ==
    /\ permissionMode # bypass
    /\ permissionMode' = bypass
    /\ IF bypass
       THEN \E order \in [1..Cardinality(BypassAnswers) -> BypassAnswers] :
              /\ \A r \in BypassAnswers : \E i \in DOMAIN order : order[i] = r
              /\ log' = log \o [i \in DOMAIN order |-> Answer(order[i], TRUE)]
              /\ pendingPermissions' = pendingPermissions \ BypassAnswers
              /\ Settle(BypassAnswers, TRUE)
              /\ PushAnswered(BypassAnswers)
       ELSE UNCHANGED <<askVars, pushVars>>
    /\ UNCHANGED <<cliMode, panelVars, wants, kept, notices, replaced, deaths, lost>>

(* The CLI takes the mode it was told last, or fails to. *)
CliTakesMode ==
    /\ cliMode # permissionMode
    /\ cliMode' = permissionMode
    /\ UNCHANGED <<askVars, permissionMode, panelVars, phoneVars, deaths, lost>>

(* disposeActiveQuery, or the CLI ends: the calls are gone, and the        *)
(* requests stay in the map and on the cards.  The next CLI is launched in *)
(* the stored mode.                                                        *)
CliGoes ==
    /\ deaths < MaxDeaths
    /\ deaths' = deaths + 1
    /\ call' = [r \in Reqs |-> IF call[r] = "waiting" THEN "gone" ELSE call[r]]
    /\ cliMode' = permissionMode
    /\ UNCHANGED <<log, pendingPermissions, permissionMode, panelVars, phoneVars, lost>>

(* The daemon restarts: what waited in memory is forgotten, the transcript *)
(* is not, and every panel attaches again.                                 *)
Restart_Permissions ==
    /\ deaths < MaxDeaths
    /\ deaths' = deaths + 1
    /\ call' = [r \in Reqs |-> IF call[r] = "waiting" THEN "gone" ELSE call[r]]
    /\ lost' = lost \cup pendingPermissions
    /\ pendingPermissions' = {}
    /\ misled' = misled \cup announced
    /\ announced' = {}
    /\ cliMode' = permissionMode
    /\ UNCHANGED <<log, permissionMode, panelVars, wants, sends, kept, notices, replaced>>

-----------------------------------------------------------------------------
(* The panel                                                               *)

(* The next event is pushed and drawn. *)
Draw ==
    /\ drawn < Len(log)
    /\ drawn' = drawn + 1
    /\ UNCHANGED <<askVars, permissionMode, cliMode, from, phoneVars, deaths, lost>>

(* The window is reloaded: resetThread, and the newest events replayed. *)
Reload ==
    /\ from' = IF Len(log) > REPLAYED THEN Len(log) - REPLAYED + 1 ELSE 1
    /\ drawn' = Len(log)
    /\ <<from', drawn'>> # panelVars
    /\ UNCHANGED <<askVars, permissionMode, cliMode, phoneVars, deaths, lost>>

(* pinWaiting and unpinWaiting, over what the panel has drawn. *)
Pinned_Stays == {r \in Reqs : HasAsked(r, from, drawn)}

Pinned == {r \in Reqs : HasAsked(r, from, drawn) /\ ~HasAnswered(r, from, drawn)}

-----------------------------------------------------------------------------
(* The phone                                                               *)

(* registerPush and unregisterPush: which notices the phone shows; it is   *)
(* kept on disk.                                                           *)
RegisterPush(attention) ==
    /\ wants # attention
    /\ wants' = attention
    /\ UNCHANGED <<askVars, permissionMode, cliMode, panelVars, pushVars, kept, notices, replaced,
                   deaths, lost>>

(* Google takes a notice.  Sends run side by side, in no order.  All the   *)
(* attention and resolved notices of a chat have one collapse_key: while   *)
(* the phone is away only the newest of them is kept for it.               *)
Accept(n) ==
    /\ n \in sends
    /\ sends' = sends \ {n}
    /\ kept' = {n}
    /\ replaced' = replaced \cup {m.req : m \in {m \in kept : m.kind = "resolved"}}
    /\ misled' = IF n.kind = "resolved" /\ Attention(n.req) \in sends
                 THEN misled \cup {n.req} ELSE misled
    /\ UNCHANGED <<askVars, permissionMode, cliMode, panelVars, wants, announced, notices, deaths,
                   lost>>

(* A send fails: it is logged, and not tried again.  A phone that Google   *)
(* no longer knows is dropped.                                             *)
SendFails(n) ==
    /\ n \in sends
    /\ sends' = sends \ {n}
    /\ wants' \in {wants, FALSE}
    /\ misled' = misled \cup {n.req}
    /\ UNCHANGED <<askVars, permissionMode, cliMode, panelVars, announced, kept, notices, replaced,
                   deaths, lost>>

(* The phone gets what is kept for it. *)
Deliver(n) ==
    /\ n \in kept
    /\ kept' = kept \ {n}
    /\ notices' = IF n.kind = "attention" THEN notices \cup {n.req} ELSE notices \ {n.req}
    /\ UNCHANGED <<askVars, permissionMode, cliMode, panelVars, wants, pushVars, replaced, deaths,
                   lost>>

-----------------------------------------------------------------------------

PermissionsNext ==
    \/ \E r \in Reqs : CanUseTool(r)
    \/ \E r \in Reqs, allow \in BOOLEAN : Click(r, allow)
    \/ \E bypass \in BOOLEAN : SetPermissionMode(bypass)
    \/ CliTakesMode
    \/ CliGoes
    \/ Restart_Permissions
    \/ Draw
    \/ Reload
    \/ \E attention \in BOOLEAN : RegisterPush(attention)
    \/ \E n \in sends : Accept(n)
    \/ \E n \in sends : SendFails(n)
    \/ \E n \in kept : Deliver(n)

PermissionsSpec == PermissionsInit /\ [][PermissionsNext]_permissionsVars

-----------------------------------------------------------------------------
(* Properties                                                              *)

PermissionEvents ==
    {AskedFor(r) : r \in Reqs} \cup {Answer(r, allow) : r \in Reqs, allow \in BOOLEAN}

PermissionsTypeOK ==
    /\ log \in Seq(PermissionEvents)
    /\ deaths \in Nat
    /\ pendingPermissions \cup announced \cup notices \cup lost \cup misled \cup replaced \subseteq Reqs
    /\ call \in [Reqs -> {"none", "waiting", "allowed", "denied", "gone"}]
    /\ {permissionMode, cliMode, wants} \subseteq BOOLEAN
    /\ from \in 1..(Len(log) + 1) /\ drawn \in 0..Len(log)
    /\ sends \cup kept \subseteq [kind : {"attention", "resolved"}, req : Reqs]

(* The transcript says of every request what Claude was told: one answer,  *)
(* the one that was given to the CLI, and none for a call that waits,      *)
(* although windows, the phone and a mode switch race to answer.           *)
TranscriptIsTrue ==
    \A r \in Reqs :
        /\ call[r] = "waiting" => ~HasAnswered(r, 1, Len(log))
        /\ call[r] \in {"allowed", "denied"} =>
             \A i \in DOMAIN log, allow \in BOOLEAN :
                log[i] = Answer(r, allow) => (call[r] = "allowed") = allow
        /\ Cardinality({i \in DOMAIN log : log[i] \in {Answer(r, TRUE), Answer(r, FALSE)}}) <= 1

(* "The pin keeps it next to the input until it is answered": a panel that *)
(* has drawn everything pins what the daemon waits on, provided the        *)
(* request is within what was replayed to it, and pins nothing else but    *)
(* requests that a restarted daemon has forgotten.                         *)
PinsAreWhatWaits ==
    drawn = Len(log) =>
        /\ \A r \in pendingPermissions : HasAsked(r, from, drawn) => r \in Pinned
        /\ Pinned \subseteq pendingPermissions \cup lost

(* A notice on the phone comes down when its request is answered anywhere, *)
(* once nothing is on its way, unless a send failed, was overtaken or was  *)
(* never made (the phone had turned attention notices off, the daemon that *)
(* announced it is gone, or had forgotten it at the bound), or the         *)
(* withdrawal gave way to a newer notice while the phone was away.         *)
NoticeComesDown ==
    sends \cup kept = {} =>
        \A r \in notices \ (misled \cup replaced) : ~HasAnswered(r, 1, Len(log))

(* "take down a "needs you" notice once the request is answered anywhere": *)
(* as push.ts states it, for requests whose every notice was sent, taken   *)
(* by Google and in order.  Not so: the withdrawal shares its collapse_key *)
(* with the notice of the chat's next request.                             *)
EveryNoticeComesDown ==
    sends \cup kept = {} => \A r \in notices \ misled : ~HasAnswered(r, 1, Len(log))
=============================================================================
