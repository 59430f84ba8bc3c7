------------------------------ MODULE Coalesce ------------------------------
(***************************************************************************)
(* The sender of a phone's connection (daemon/src/coalesce.ts): streamed   *)
(* text is gathered per chat for a short window, everything else is sent   *)
(* at once behind the text gathered for its chat.  The connection itself   *)
(* (gateway.ts) is kept by heartbeats and dropped when it stays silent.    *)
(*                                                                         *)
(* A frame that merges several pieces of text is the sequence of them: to  *)
(* the reader of a chat the two are the same.                              *)
(***************************************************************************)
EXTENDS Naturals, Sequences

CONSTANTS
    Chats,
    Texts,      \* pieces of streamed text
    Events,     \* any other message about a chat
    MAX_MISSED, \* heartbeats a silent client may miss
    MaxSends    \* bound on the messages of a chat

ASSUME CoalesceAssumption ==
    /\ Texts \cap Events = {}
    /\ MAX_MISSED \in Nat \ {0}
    /\ MaxSends \in Nat

VARIABLES
    timer,      \* the window is open
    gathered,   \* per chat, the text held back
    wire,       \* per chat, what was sent, frame boundaries left out
    handed,     \* history: per chat, what the sender was given
    missed,     \* heartbeats missed in a row
    link,       \* the network under the connection: "up" or "dead"
    conn        \* "open", "terminated" (close not yet handled) or "closed"

senderVars   == <<timer, gathered, wire, handed>>
linkVars     == <<missed, link, conn>>
coalesceVars == <<senderVars, linkVars>>

-----------------------------------------------------------------------------
(* coalesce.ts                                                             *)

CoalesceInit ==
    /\ timer = FALSE
    /\ gathered = [c \in Chats |-> <<>>]
    /\ wire = [c \in Chats |-> <<>>]
    /\ handed = [c \in Chats |-> <<>>]
    /\ missed = 0
    /\ link = "up"
    /\ conn = "open"

(* The daemon hands a push to the client.  What it hands to a connection   *)
(* that was terminated is not sent, and is left out.                       *)
Hand(c, m) ==
    /\ conn = "open"
    /\ Len(handed[c]) < MaxSends
    /\ handed' = [handed EXCEPT ![c] = Append(@, m)]

(* A delta: the first goes now and opens the window, the next are gathered. *)
SendDelta(c, t) ==
    /\ Hand(c, t)
    /\ IF timer
       THEN gathered' = [gathered EXCEPT ![c] = Append(@, t)] /\ UNCHANGED <<timer, wire>>
       ELSE wire' = [wire EXCEPT ![c] = Append(@, t)] /\ timer' = TRUE /\ UNCHANGED gathered
    /\ UNCHANGED linkVars

SendOther_Overtakes(c, e) ==
    /\ Hand(c, e)
    /\ wire' = [wire EXCEPT ![c] = Append(@, e)]
    /\ UNCHANGED <<timer, gathered, linkVars>>

(* Anything else about a chat follows the text gathered for it. *)
SendOther(c, e) ==
    /\ Hand(c, e)
    /\ wire' = [wire EXCEPT ![c] = Append(@ \o gathered[c], e)]
    /\ gathered' = [gathered EXCEPT ![c] = <<>>]
    /\ UNCHANGED <<timer, linkVars>>

(* tick: the window closes, and another opens while text keeps coming. *)
Tick ==
    /\ timer /\ conn = "open"
    /\ IF \A c \in Chats : gathered[c] = <<>>
       THEN timer' = FALSE /\ UNCHANGED <<gathered, wire>>
       ELSE /\ wire' = [c \in Chats |-> wire[c] \o gathered[c]]
            /\ gathered' = [c \in Chats |-> <<>>]
            /\ UNCHANGED timer
    /\ UNCHANGED <<handed, linkVars>>

-----------------------------------------------------------------------------
(* gateway.ts                                                              *)

(* A pong, or any byte: the client is alive. *)
Heard ==
    /\ link = "up" /\ conn = "open"
    /\ missed # 0
    /\ missed' = 0
    /\ UNCHANGED <<senderVars, link, conn>>

Sweep_Patient ==
    /\ conn = "open"
    /\ missed < MAX_MISSED
    /\ missed' = missed + 1
    /\ UNCHANGED <<senderVars, link, conn>>

(* The heartbeat sweep. *)
Sweep ==
    /\ conn = "open"
    /\ IF missed + 1 > MAX_MISSED
       THEN conn' = "terminated" /\ UNCHANGED missed
       ELSE missed' = missed + 1 /\ UNCHANGED conn
    /\ UNCHANGED <<senderVars, link>>

(* The phone walks out of coverage: nothing closes the socket. *)
LinkDies ==
    /\ link = "up"
    /\ link' = "dead"
    /\ UNCHANGED <<senderVars, missed, conn>>

(* The phone closes, or the socket fails. *)
ClientCloses ==
    /\ link = "up" /\ conn = "open"
    /\ conn' = "terminated"
    /\ UNCHANGED <<senderVars, missed, link>>

(* done: the handlers' close, once.  What was gathered is dropped, and the *)
(* connection is forgotten with everything it was subscribed to.           *)
Done ==
    /\ conn = "terminated"
    /\ conn' = "closed"
    /\ timer' = FALSE
    /\ gathered' = [c \in Chats |-> <<>>]
    /\ UNCHANGED <<wire, handed, missed, link>>

CoalesceNext ==
    \/ \E c \in Chats, t \in Texts : SendDelta(c, t)
    \/ \E c \in Chats, e \in Events : SendOther(c, e)
    \/ Tick
    \/ Heard
    \/ Sweep
    \/ LinkDies
    \/ ClientCloses
    \/ Done

(* Timers fire and a socket that was destroyed reports its close. *)
CoalesceFairness ==
    /\ WF_coalesceVars(Tick)
    /\ WF_coalesceVars(Sweep)
    /\ WF_coalesceVars(Done)

CoalesceSpec == CoalesceInit /\ [][CoalesceNext]_coalesceVars /\ CoalesceFairness

-----------------------------------------------------------------------------
(* Properties                                                              *)

CoalesceTypeOK ==
    /\ timer \in BOOLEAN
    /\ {gathered, wire, handed} \subseteq [Chats -> Seq(Texts \cup Events)]
    /\ missed \in 0..MAX_MISSED
    /\ link \in {"up", "dead"} /\ conn \in {"open", "terminated", "closed"}

(* Gathering "never changes the order": the sender implements the stream   *)
(* of each chat that PushStream promises.                                  *)
Stream == INSTANCE PushStream WITH offered <- handed, delivered <- wire

KeepsTheStream == Stream!StreamSpec

(* Text is not held back for good: it is sent, or its connection ends.     *)
TextIsSent == \A c \in Chats : gathered[c] # <<>> ~> gathered[c] = <<>>

(* "A dead link is let go of in seconds": a client that walked out of      *)
(* coverage is forgotten, whatever is streamed to it meanwhile.            *)
DeadLinkIsDropped == link = "dead" ~> conn = "closed"

(* Together: streaming to a phone ends in delivery or in letting it go. *)
PhoneIsServed == TextIsSent /\ DeadLinkIsDropped

(* What the refinement rests on: all that was handed over is on the wire   *)
(* or gathered, and nothing is gathered while no window is open.           *)
NothingIsLost ==
    conn # "closed" => \A c \in Chats :
        /\ handed[c] = wire[c] \o gathered[c]
        /\ gathered[c] \in Seq(Texts)
        /\ ~timer => gathered[c] = <<>>
=============================================================================
