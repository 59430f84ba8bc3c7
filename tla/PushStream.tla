----------------------------- MODULE PushStream -----------------------------
(***************************************************************************)
(* What a connection is promised of the pushes of each chat: they reach it *)
(* in the order the daemon made them, none twice and none left out in      *)
(* between, and anything but streamed text at once.  Between chats there   *)
(* is no order.                                                            *)
(***************************************************************************)
EXTENDS Sequences, Naturals

CONSTANTS Chats, Texts, Events

VARIABLES
    offered,    \* per chat, what the daemon handed over
    delivered   \* per chat, what was put on the wire

Items == Texts \cup Events

streamVars == <<offered, delivered>>

StreamInit ==
    /\ offered = [c \in Chats |-> <<>>]
    /\ delivered = [c \in Chats |-> <<>>]

(* Any part of what is held back goes out, in order. *)
Advances(c) == \E n \in Len(delivered[c])..Len(offered'[c]) :
                    delivered'[c] = SubSeq(offered'[c], 1, n)

(* Text of a chat is handed over. *)
OfferText(c, t) ==
    /\ offered' = [offered EXCEPT ![c] = Append(@, t)]
    /\ delivered' \in [Chats -> Seq(Items)]
    /\ Advances(c)
    /\ \A d \in Chats \ {c} : delivered'[d] = delivered[d]

(* Anything else goes out at once, behind all there was. *)
OfferEvent(c, e) ==
    /\ offered' = [offered EXCEPT ![c] = Append(@, e)]
    /\ delivered' = [delivered EXCEPT ![c] = Append(offered[c], e)]

(* What was held back goes out. *)
Release ==
    /\ UNCHANGED offered
    /\ delivered' \in [Chats -> Seq(Items)]
    /\ \A c \in Chats : Advances(c)

StreamNext ==
    \/ \E c \in Chats, t \in Texts : OfferText(c, t)
    \/ \E c \in Chats, e \in Events : OfferEvent(c, e)
    \/ Release

StreamSpec == StreamInit /\ [][StreamNext]_streamVars
=============================================================================
