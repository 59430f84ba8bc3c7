----------------------------- MODULE Heartbeat ------------------------------
(***************************************************************************)
(* The red border that says a chat tab is cut off ("connection health" of  *)
(* src/extension/media/chat.js, answered by src/extension/src/             *)
(* chatPanel.ts).  The webview pings the extension host; the answer says   *)
(* whether the host has a daemon and whether the border is wanted.  The    *)
(* border is painted when something happens, from what is known then.      *)
(*                                                                         *)
(* Time is counted in pings (PING_MS).                                     *)
(***************************************************************************)
EXTENDS Naturals, Sequences

CONSTANTS STALE,        \* STALE_MS in pings
          MaxInFlight   \* bound on messages on the way, each direction

ASSUME HeartbeatAssumption == {STALE, MaxInFlight} \subseteq Nat \ {0}

VARIABLES hop,              \* the link from browser to host: "good", "slow" or "down"
          connected,        \* the host is connected to the daemon
          wanted,           \* the setting connectionIndicator
          pings, toWebview, \* messages on the way
          age,              \* since lastPongAt
          daemonUp, indicatorEnabled,
          visible, onLine,  \* the tab, and the browser's own view of the link
          veil              \* the border is shown

hostVars == <<hop, connected, wanted>>
heartbeatVars == <<hostVars, pings, toWebview, age, daemonUp, indicatorEnabled, visible, onLine, veil>>

HeartbeatInit ==
    /\ hop = "good" /\ connected \in BOOLEAN /\ wanted \in BOOLEAN
    /\ pings = 1 /\ toWebview = <<>>
    /\ age = 0 /\ daemonUp = TRUE /\ indicatorEnabled = TRUE
    /\ visible = TRUE /\ onLine = TRUE
    /\ veil = FALSE

(* paintConnection: while the tab is hidden, no answers mean nothing. *)
PaintConnection ==
    LET stale == visible' /\ age' >= STALE
    IN  veil' = (indicatorEnabled' /\ (stale \/ ~onLine' \/ ~daemonUp'))

PostPing == pings' = IF pings < MaxInFlight THEN pings + 1 ELSE pings

Unanswered == pings > 0 \/ \E i \in DOMAIN toWebview : toWebview[i].type = "pong"

PingTick_NoPaint ==
    /\ hop = "good" => ~Unanswered
    /\ age' = IF age < STALE THEN age + 1 ELSE age
    /\ PostPing
    /\ UNCHANGED <<hostVars, toWebview, daemonUp, indicatorEnabled, visible, onLine, veil>>

(* ping, by the interval.  Over a good link the last one was answered. *)
PingTick ==
    /\ hop = "good" => ~Unanswered
    /\ age' = IF age < STALE THEN age + 1 ELSE age
    /\ PostPing
    /\ UNCHANGED <<hostVars, toWebview, daemonUp, indicatorEnabled, visible, onLine>>
    /\ PaintConnection

(* The host answers at once, before any daemon work. *)
HostAnswers ==
    /\ hop # "down" /\ pings > 0 /\ Len(toWebview) < MaxInFlight
    /\ pings' = pings - 1
    /\ toWebview' = Append(toWebview, [type |-> "pong", daemon |-> connected, indicator |-> wanted])
    /\ UNCHANGED <<hostVars, age, daemonUp, indicatorEnabled, visible, onLine, veil>>

(* pong, or connectionIndicator. *)
WebviewReceives ==
    LET msg == Head(toWebview) IN
    /\ hop # "down" /\ toWebview # <<>>
    /\ toWebview' = Tail(toWebview)
    /\ indicatorEnabled' = msg.indicator
    /\ IF msg.type = "pong" THEN age' = 0 /\ daemonUp' = msg.daemon
       ELSE UNCHANGED <<age, daemonUp>>
    /\ UNCHANGED <<hostVars, pings, visible, onLine>>
    /\ PaintConnection

(* visibilitychange: back in the foreground, the tab gets a fresh window. *)
VisibilityChange ==
    /\ visible' = ~visible
    /\ IF visible' THEN age' = 0 /\ PostPing ELSE UNCHANGED <<age, pings>>
    /\ UNCHANGED <<hostVars, toWebview, daemonUp, indicatorEnabled, onLine>>
    /\ PaintConnection

(* The browser's events online and offline. *)
OnLineChange ==
    /\ onLine' = ~onLine
    /\ IF onLine' THEN age' = 0 /\ PostPing ELSE UNCHANGED <<age, pings>>
    /\ UNCHANGED <<hostVars, toWebview, daemonUp, indicatorEnabled, visible>>
    /\ PaintConnection

(* The setting is changed: every panel is told.  The bound leaves room for *)
(* an answer.                                                              *)
SettingChange ==
    /\ toWebview = <<>>
    /\ wanted' = ~wanted
    /\ toWebview' = Append(toWebview, [type |-> "connectionIndicator", indicator |-> wanted'])
    /\ UNCHANGED <<hop, connected, pings, age, daemonUp, indicatorEnabled, visible, onLine, veil>>

(* The link changes; one that goes down may lose what is on the way. *)
LinkChange ==
    /\ hop' \in {"good", "slow", "down"} \ {hop}
    /\ \/ UNCHANGED <<pings, toWebview>>
       \/ hop' = "down" /\ pings' = 0 /\ toWebview' = <<>>
    /\ UNCHANGED <<connected, wanted, age, daemonUp, indicatorEnabled, visible, onLine, veil>>

DaemonChange ==
    /\ connected' = ~connected
    /\ UNCHANGED <<hop, wanted, pings, toWebview, age, daemonUp, indicatorEnabled, visible,
                   onLine, veil>>

HeartbeatNext ==
    \/ PingTick
    \/ HostAnswers
    \/ WebviewReceives
    \/ VisibilityChange
    \/ OnLineChange
    \/ SettingChange
    \/ LinkChange
    \/ DaemonChange

(* The interval fires, and what can be delivered is. *)
HeartbeatFairness ==
    WF_heartbeatVars(PingTick) /\ WF_heartbeatVars(HostAnswers) /\ WF_heartbeatVars(WebviewReceives)

HeartbeatSpec == HeartbeatInit /\ [][HeartbeatNext]_heartbeatVars /\ HeartbeatFairness

-----------------------------------------------------------------------------
(* "If the first breaks the webview receives nothing at all, so the host   *)
(* cannot tell us": a tab in the foreground that is cut off says so,       *)
(* although the browser believes itself online.                            *)
LostLinkIsShown == <>[](hop = "down" /\ visible /\ onLine /\ indicatorEnabled) => <>[]veil

(* "A round-trip ping whose reply carries the daemon's state covers both   *)
(* hops": over a good link the border ends up right about the daemon,      *)
(* whatever late answers of an earlier time came first.                    *)
LostDaemonIsShown == <>[](hop = "good" /\ wanted /\ ~connected) => <>[]veil
WellIsNotAlarming == <>[](hop = "good" /\ connected /\ onLine) => <>[]~veil

(* Together: once things stay as they are, the border is right. *)
BorderIsRight == LostLinkIsShown /\ LostDaemonIsShown /\ WellIsNotAlarming
=============================================================================
