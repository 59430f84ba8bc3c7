------------------------------- MODULE Replay -------------------------------
(***************************************************************************)
(* How the transcript of a session reaches an open chat tab: the attach    *)
(* and detach requests and the pushes of the daemon (daemon/src/main.ts),  *)
(* the connection (extension/src/daemonClient.ts), the panel               *)
(* (extension/src/chatPanel.ts) and the thread its webview shows           *)
(* (extension/media/chat.js).                                              *)
(*                                                                         *)
(* An event is its sequence number.  The log itself never loses one here   *)
(* (module EventLog is about that).  Both directions of the connection are *)
(* ordered; losing it loses what is on the way.  On either side the        *)
(* continuation of a promise runs after the rest of the chunk that         *)
(* resolved it, so messages that follow a request or a reply in the same   *)
(* chunk are handled before it is answered or acted on.                    *)
(***************************************************************************)
EXTENDS Integers, Sequences

CONSTANTS
    REPLAY_LIMIT,   \* the window of a panel's first attach
    MaxReplayEvents,      \* bound: events of the session
    MaxConnects,    \* bound: connections
    MaxOpens,       \* bound: times the tab is opened
    MaxAsked        \* bound: attaches in flight

ASSUME ReplayAssumption ==
    /\ REPLAY_LIMIT \in Nat \ {0}
    /\ {MaxReplayEvents, MaxConnects, MaxOpens, MaxAsked} \subseteq Nat

VARIABLES
    total,      \* totalCount of the session
    conn,       \* the connection of this window is there
    subscribed, \* this client is in the session's subscribers
    requests,   \* requests on their way to the daemon
    unsent,     \* replies of handlers that have run, not yet sent
    wire,       \* messages on their way to the window
    resolved,   \* replies whose attach() has not gone on yet
    panel,      \* the PanelEntry
    queue,      \* events posted to a webview that is not ready
    shown,      \* the thread: sequence numbers, top to bottom
    earlier,    \* its "Load earlier" row: "none", "offered", or, clicked, "loading"
    waiting,    \* handlers of panels that wait for a connection, to attach
    connects, opens,
    seen,       \* history: one past the newest event the panel ever had
    raced,      \* history: see HandleEvent
    cut         \* history: an incremental replay was cut to the limit

replayVars == <<total, conn, subscribed, requests, unsent, wire, resolved, panel, queue, shown,
          earlier, waiting, connects, opens, seen, raced, cut>>

channel == <<subscribed, requests, unsent, wire, resolved>>
counts  == <<connects, opens>>
history == <<seen, raced, cut>>

Panels == [ state : {"closed", "loading", "ready"}, lastSeq : Nat, limit : Nat ]

Reply == [ opened : Nat, full : BOOLEAN, again : BOOLEAN,
           from : Nat, to : Nat, hasEarlier : BOOLEAN ]

(* The attach() calls in flight: still to be handled, or handled and the   *)
(* reply somewhere on its way.                                             *)
Pending == {requests[i] : i \in {j \in 1..Len(requests) : requests[j].op = "attach"}}

Handled ==
    {unsent[i] : i \in 1..Len(unsent)} \cup {resolved[i] : i \in 1..Len(resolved)}
      \cup {wire[i].reply : i \in {j \in 1..Len(wire) : wire[j].kind = "reply"}}

InFlight ==
    Len(SelectSeq(requests, LAMBDA q : q.op = "attach")) + Len(unsent)
      + Len(SelectSeq(wire, LAMBDA m : m.kind = "reply")) + Len(resolved)

Asked == \E a \in Pending \cup Handled : a.opened = opens

(* reattachAll has not come back, and the connection is not handed on. *)
Reattaching == \E a \in Pending \cup Handled : a.again

(* Events from .. to - 1, as the thread renders them. *)
Numbers(from, to) == [i \in 1..(to - from) |-> from + i - 1]

-----------------------------------------------------------------------------

ReplayInit ==
    /\ total = 0
    /\ conn = FALSE /\ subscribed = FALSE
    /\ requests = << >> /\ unsent = << >> /\ wire = << >> /\ resolved = << >>
    /\ panel = [state |-> "closed", lastSeq |-> 0, limit |-> REPLAY_LIMIT]
    /\ queue = << >> /\ shown = << >> /\ earlier = "none" /\ waiting = << >>
    /\ connects = 0 /\ opens = 0
    /\ seen = 0 /\ raced = FALSE /\ cut = FALSE

-----------------------------------------------------------------------------
(* The daemon                                                              *)

(* appendEvent, then broadcast to the subscribers. *)
Append1 ==
    /\ total < MaxReplayEvents
    /\ total' = total + 1
    /\ wire' = IF subscribed THEN Append(wire, [kind |-> "event", seq |-> total]) ELSE wire
    /\ UNCHANGED <<conn, subscribed, requests, unsent, resolved, panel, queue, shown, earlier, waiting,
                   counts, history>>

Larger(a, b) == IF a > b THEN a ELSE b

(* eventsSince: the newest `limit` events from `since` on. *)
ReplyTo(r) ==
    [ opened |-> r.opened, full |-> r.full, again |-> r.again,
      from |-> IF r.since >= total THEN total ELSE Larger(r.since, total - r.limit),
      to |-> total,
      hasEarlier |-> r.since < total - r.limit ]

(* The attach and detach requests. *)
HandleRequest_RepliesOnly ==
    LET r == Head(requests) IN
    /\ requests # << >>
    /\ requests' = Tail(requests)
    /\ IF r.op = "attach"
       THEN unsent' = Append(unsent, ReplyTo(r)) /\ UNCHANGED subscribed
       ELSE subscribed' = FALSE /\ UNCHANGED unsent
    /\ UNCHANGED <<total, conn, wire, resolved, panel, queue, shown, earlier, waiting, counts, history>>

HandleRequest ==
    LET r == Head(requests) IN
    /\ requests # << >>
    /\ requests' = Tail(requests)
    /\ IF r.op = "attach"
       THEN subscribed' = TRUE /\ unsent' = Append(unsent, ReplyTo(r))
       ELSE subscribed' = FALSE /\ UNCHANGED unsent
    /\ UNCHANGED <<total, conn, wire, resolved, panel, queue, shown, earlier, waiting, counts, history>>

SendReply ==
    /\ unsent # << >>
    /\ unsent' = Tail(unsent)
    /\ wire' = Append(wire, [kind |-> "reply", reply |-> Head(unsent)])
    /\ UNCHANGED <<total, conn, subscribed, requests, resolved, panel, queue, shown, earlier, waiting,
                   counts, history>>

-----------------------------------------------------------------------------
(* The window                                                              *)

(* No continuation is due: an attach() that has its reply, or handlers     *)
(* whose connection is there.  The next task starts only then.             *)
NextTask == resolved = << >> /\ (conn /\ waiting # << >> => Reattaching)

(* attach(): `lastSeq` is read before the await. *)
AttachRequest_SinceZero(full, p, again) ==
    [op |-> "attach", opened |-> opens, again |-> again,
     since |-> 0, limit |-> p.limit, full |-> full \/ p.lastSeq = 0]

AttachRequest(full, p, again) ==
    LET whole == full \/ p.lastSeq = 0
    IN  [op |-> "attach", opened |-> opens, again |-> again,
         since |-> IF whole THEN 0 ELSE p.lastSeq, limit |-> p.limit, full |-> whole]

(* The panel takes a pushed event.  `raced` remembers that one came to a   *)
(* panel that was waiting for a replay, or had not asked for any yet, and  *)
(* that no full replay with that event in it has come since.               *)
HandleEvent(seq) ==
    /\ panel' = IF panel.state = "closed" THEN panel
                ELSE [panel EXCEPT !.lastSeq = Larger(@, seq + 1)]
    /\ IF panel.state = "ready"
       THEN shown' = Append(shown, seq) /\ UNCHANGED queue
       ELSE IF panel.state = "loading"
            THEN queue' = Append(queue, seq) /\ UNCHANGED shown
            ELSE UNCHANGED <<queue, shown>>
    /\ raced' = (raced \/ panel.state = "loading" \/ Asked)
    /\ seen' = Larger(seen, seq + 1)
    /\ UNCHANGED <<resolved, cut>>

(* dispatch(). *)
Receive ==
    /\ wire # << >>
    /\ resolved # << >> \/ NextTask     \* the same chunk, or another one
    /\ wire' = Tail(wire)
    /\ \/ Head(wire).kind = "event" /\ HandleEvent(Head(wire).seq)
       \/ /\ Head(wire).kind = "reply"
          /\ resolved' = Append(resolved, Head(wire).reply)
          /\ UNCHANGED <<panel, queue, shown, history>>
    /\ UNCHANGED <<total, conn, subscribed, requests, unsent, earlier, waiting, counts>>

(* attach() goes on: lastSeq from the last event of the replay, and the    *)
(* replay to the webview, which clears its thread first for a full one.    *)
(* A panel that was closed meanwhile is another entry.                     *)
AttachReturns ==
    LET r    == Head(resolved)
        mine == r.opened = opens /\ panel.state # "closed"
    IN  /\ resolved # << >>
        /\ resolved' = Tail(resolved)
        /\ IF mine
           THEN /\ panel' = [panel EXCEPT !.lastSeq = IF r.to > r.from THEN r.to ELSE @]
                /\ shown' = (IF r.full THEN << >> ELSE shown) \o Numbers(r.from, r.to)
                /\ earlier' = IF r.hasEarlier /\ (r.full \/ earlier = "none") THEN "offered"
                              ELSE IF r.full THEN "none" ELSE earlier
                /\ cut' = (~r.full /\ (cut \/ r.hasEarlier))
                /\ raced' = (raced /\ ~(r.full /\ r.to >= seen))
                /\ seen' = Larger(seen, r.to)
           ELSE UNCHANGED <<panel, shown, earlier, history>>
        /\ UNCHANGED <<total, conn, subscribed, requests, unsent, wire, queue, waiting, counts>>

(* connect(), then reattachAll. *)
Connect ==
    /\ ~conn /\ connects < MaxConnects
    /\ conn' = TRUE /\ connects' = connects + 1
    /\ requests' = IF panel.state = "ready" THEN <<AttachRequest(FALSE, panel, TRUE)>> ELSE << >>
    /\ UNCHANGED <<total, subscribed, unsent, wire, resolved, panel, queue, shown, earlier, waiting,
                   opens, history>>

(* connect() fails, and the handlers that waited for it give up. *)
ConnectFails ==
    /\ ~conn /\ waiting # << >>
    /\ waiting' = << >>
    /\ UNCHANGED <<total, conn, channel, panel, queue, shown, earlier, counts, history>>

(* onGone: what is on the way is lost, and the attaches in flight fail. *)
Disconnect ==
    /\ conn /\ NextTask
    /\ conn' = FALSE /\ subscribed' = FALSE
    /\ requests' = << >> /\ unsent' = << >> /\ wire' = << >>
    /\ waiting' = << >>
    /\ UNCHANGED <<total, resolved, panel, queue, shown, earlier, counts, history>>

(* A handler of the panel attaches, now or once there is a connection. *)
AskFor(full, p) ==
    /\ InFlight + Len(waiting) < MaxAsked
    /\ IF conn
       THEN requests' = Append(requests, AttachRequest(full, p, FALSE)) /\ UNCHANGED waiting
       ELSE waiting' = Append(waiting, [opened |-> opens, full |-> full]) /\ UNCHANGED requests

(* ensure() returns, and every handler that waited for it attaches: also   *)
(* one whose panel has been closed.                                        *)
HandlersResume ==
    /\ conn /\ waiting # << >> /\ ~Reattaching
    /\ waiting' = << >>
    /\ requests' = requests \o
         [i \in 1..Len(waiting) |->
            [AttachRequest(waiting[i].full, panel, FALSE) EXCEPT !.opened = waiting[i].opened]]
    /\ UNCHANGED <<total, conn, subscribed, unsent, wire, resolved, panel, queue, shown, earlier,
                   counts, history>>

(* bindPanel. *)
OpenPanel ==
    /\ NextTask
    /\ panel.state = "closed" /\ opens < MaxOpens
    /\ opens' = opens + 1
    /\ panel' = [state |-> "loading", lastSeq |-> 0, limit |-> REPLAY_LIMIT]
    /\ queue' = << >> /\ shown' = << >> /\ earlier' = "none"
    /\ seen' = 0 /\ raced' = FALSE /\ cut' = FALSE
    /\ UNCHANGED <<total, conn, channel, waiting, connects>>

(* The webview's script has started. *)
Ready ==
    /\ NextTask
    /\ panel.state = "loading"
    /\ panel' = [panel EXCEPT !.state = "ready"]
    /\ shown' = queue /\ queue' = << >>
    /\ AskFor(FALSE, panel)
    /\ UNCHANGED <<total, conn, subscribed, unsent, wire, resolved, earlier, counts, history>>

(* The row is clicked, which disables it until a full replay comes. *)
LoadEarlier ==
    /\ NextTask
    /\ panel.state = "ready" /\ earlier = "offered"
    /\ earlier' = "loading"
    /\ panel' = [panel EXCEPT !.limit = 4 * @]
    /\ AskFor(TRUE, panel')
    /\ UNCHANGED <<total, conn, subscribed, unsent, wire, resolved, queue, shown, counts, history>>

(* onDidDispose. *)
ClosePanel ==
    /\ NextTask
    /\ panel.state # "closed"
    /\ panel' = [panel EXCEPT !.state = "closed"]
    /\ requests' = IF conn THEN Append(requests, [op |-> "detach"]) ELSE requests
    /\ queue' = << >> /\ shown' = << >> /\ earlier' = "none"
    /\ UNCHANGED <<total, conn, subscribed, unsent, wire, resolved, waiting, counts, history>>

ReplayNext ==
    \/ Append1 \/ HandleRequest \/ SendReply
    \/ Receive \/ AttachReturns \/ HandlersResume
    \/ Connect \/ ConnectFails \/ Disconnect
    \/ OpenPanel \/ Ready \/ LoadEarlier \/ ClosePanel

ReplaySpec == ReplayInit /\ [][ReplayNext]_replayVars

-----------------------------------------------------------------------------
(* Properties                                                              *)

AttachRequests == [ op : {"attach"}, opened : Nat, again : BOOLEAN, since : Nat, limit : Nat,
                    full : BOOLEAN ]

ReplayTypeOK ==
    /\ {total, connects, opens, seen} \subseteq Nat
    /\ {conn, subscribed, raced, cut} \subseteq BOOLEAN
    /\ panel \in Panels
    /\ requests \in Seq(AttachRequests \cup [op : {"detach"}])
    /\ unsent \in Seq(Reply) /\ resolved \in Seq(Reply)
    /\ wire \in Seq([kind : {"event"}, seq : Nat] \cup [kind : {"reply"}, reply : Reply])
    /\ queue \in Seq(Nat) /\ shown \in Seq(Nat)
    /\ earlier \in {"none", "offered", "loading"}
    /\ waiting \in Seq([opened : Nat, full : BOOLEAN])

(* Everything asked for has arrived. *)
Quiet ==
    /\ conn /\ panel.state = "ready" /\ waiting = << >>
    /\ requests = << >> /\ unsent = << >> /\ wire = << >> /\ resolved = << >>

(* A window of the transcript, in order, up to its newest event. *)
Contiguous == \A i \in 1..Len(shown) : shown[i] = total - Len(shown) + i - 1

Exact ==
    /\ Contiguous
    /\ Len(shown) >= IF total < REPLAY_LIMIT THEN total ELSE REPLAY_LIMIT

(* Reconnects, reopened tabs, "load earlier" and pushes leave the thread   *)
(* exactly as the transcript is: unless an event came while a replay was   *)
(* awaited, or more was missed than one replay holds.                      *)
PanelIsExactUnlessRaced == Quiet /\ ~raced /\ ~cut => Exact

(* A panel at rest knows where it is: the attach after the next lost       *)
(* connection asks for what comes after the newest event it has.           *)
QuietPanelIsUpToDate == Quiet /\ ~raced => panel.lastSeq = total

(* However the tab was closed, reopened and reconnected meanwhile, a late  *)
(* detach never outlives the attach that follows it: the open tab of a     *)
(* quiet window is subscribed, and will be told of the next event.         *)
OpenTabIsSubscribed == Quiet => subscribed

(* Together: a quiet panel is told of what comes next, and asks for what   *)
(* it has not got.                                                         *)
QuietPanelFollows == QuietPanelIsUpToDate /\ OpenTabIsSubscribed

-----------------------------------------------------------------------------
(* Statements of the documentation that the code does not bear out         *)

(* chatPanel.ts: an incremental re-attach "must only append what was       *)
(* missed"; README: a client "gets a replay of what it missed".  With no   *)
(* replay cut short the thread is the transcript.                          *)
PanelIsExact == Quiet /\ ~cut => Exact
=============================================================================
