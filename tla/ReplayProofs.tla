---------------------------- MODULE ReplayProofs ----------------------------
(***************************************************************************)
(* Proofs about Replay, for every length of the first replay and any       *)
(* number of events, connections, opened tabs and attaches in flight: a    *)
(* quiet panel is subscribed, up to date, and shows the transcript.        *)
(***************************************************************************)
EXTENDS Replay, SequenceTheorems, TLAPS

IsAttach(i) == requests[i].op = "attach"
IsReply(i)  == wire[i].kind = "reply"
IsEvent(i)  == wire[i].kind = "event"

(* What is in flight is well-formed, and nothing is without a connection. *)
Sane ==
    /\ seen <= total /\ panel.lastSeq <= seen /\ panel.limit >= REPLAY_LIMIT
    /\ ~conn => /\ requests = <<>> /\ unsent = <<>> /\ wire = <<>> /\ resolved = <<>>
                /\ ~subscribed
    /\ \A a \in Pending : (a.full <=> a.since = 0) /\ a.limit >= REPLAY_LIMIT
    /\ \A q \in Handled :
         /\ q.from <= q.to /\ q.to <= total
         /\ q.hasEarlier => q.from < q.to
         /\ q.full => /\ q.to > 0 => q.from < q.to
                      /\ q.to - q.from >= q.to \/ q.to - q.from >= REPLAY_LIMIT

OwnWaits      == \E i \in 1..Len(waiting) : waiting[i].opened = opens
OwnWaitsShort == \E i \in 1..Len(waiting) : waiting[i].opened = opens /\ ~waiting[i].full

(* A tab that is loading has not asked for anything. *)
Mine ==
    /\ \A a \in Pending \cup Handled :
         a.opened <= opens /\ (panel.state = "loading" => a.opened < opens)
    /\ \A i \in 1..Len(waiting) :
         waiting[i].opened <= opens /\ (panel.state = "loading" => waiting[i].opened < opens)
    /\ panel.state = "loading" =>
         earlier = "none" /\ ~cut /\ (~raced => seen = 0 /\ queue = <<>>)

(* x is ahead of y: then y is not the attach of reattachAll, which comes   *)
(* first on a connection, and if both are the tab's own y starts over.     *)
Orderly(x, y) == ~y.again /\ (x.opened = opens /\ y.opened = opens => y.full)

(* Two that were handled: the later one has seen at least as much. *)
Later(x, y) == Orderly(x, y) /\ x.to <= y.to

(* The order of the attaches along the way they take. *)
Line ==
    /\ \A i, j \in 1..Len(resolved) : i < j => Later(resolved[i], resolved[j])
    /\ \A i \in 1..Len(resolved), j \in 1..Len(wire) :
         IsReply(j) => Later(resolved[i], wire[j].reply)
    /\ \A i \in 1..Len(resolved), j \in 1..Len(unsent) : Later(resolved[i], unsent[j])
    /\ \A i \in 1..Len(resolved), j \in 1..Len(requests) :
         IsAttach(j) => Orderly(resolved[i], requests[j])
    /\ \A i, j \in 1..Len(wire) :
         i < j /\ IsReply(i) /\ IsReply(j) => Later(wire[i].reply, wire[j].reply)
    /\ \A i \in 1..Len(wire), j \in 1..Len(unsent) :
         IsReply(i) => Later(wire[i].reply, unsent[j])
    /\ \A i \in 1..Len(wire), j \in 1..Len(requests) :
         IsReply(i) /\ IsAttach(j) => Orderly(wire[i].reply, requests[j])
    /\ \A i, j \in 1..Len(unsent) : i < j => Later(unsent[i], unsent[j])
    /\ \A i \in 1..Len(unsent), j \in 1..Len(requests) :
         IsAttach(j) => Orderly(unsent[i], requests[j])
    /\ \A i, j \in 1..Len(requests) :
         i < j /\ IsAttach(i) /\ IsAttach(j) => Orderly(requests[i], requests[j])

(* Of the handlers that wait, only the tab's first may ask for less than   *)
(* everything.  While one of this tab waits, all that is in flight is the  *)
(* tab's; while that first one waits, it is what reattachAll sent.         *)
Waits ==
    /\ \A i, j \in 1..Len(waiting) :
         i < j /\ waiting[i].opened = opens /\ waiting[j].opened = opens => waiting[j].full
    /\ conn /\ OwnWaits => \A a \in Pending \cup Handled : a.opened = opens
    /\ conn /\ OwnWaitsShort =>
          /\ \A a \in Pending \cup Handled : a.again
          /\ earlier = "offered" => Pending \cup Handled = {}
    /\ ~conn /\ OwnWaitsShort => earlier = "none"

(* Pushed events come in order, are new to the panel, and newer than every *)
(* replay ahead of them.                                                   *)
Pushes ==
    /\ \A i \in 1..Len(wire) : IsEvent(i) => wire[i].seq >= seen /\ wire[i].seq < total
    /\ \A i, j \in 1..Len(wire) : i < j /\ IsEvent(i) /\ IsEvent(j) => wire[i].seq < wire[j].seq
    /\ \A i, j \in 1..Len(wire) :
         i < j /\ IsReply(i) /\ IsEvent(j) => wire[i].reply.to <= wire[j].seq
    /\ \A i \in 1..Len(resolved), j \in 1..Len(wire) : IsEvent(j) => resolved[i].to <= wire[j].seq

(* The events from n to t - 1 are among the messages w. *)
Covered(w, n, t) ==
    \A s \in n..(t - 1) : \E i \in 1..Len(w) : w[i].kind = "event" /\ w[i].seq = s

NoDetach == \A i \in 1..Len(requests) : IsAttach(i)

(* Once an attach of the tab was handled, or all its attaches are back,    *)
(* the tab is subscribed and what it has not got is on the wire.           *)
Fed ==
    panel.state = "ready" /\ conn =>
      /\ \A q \in Handled :
           q.opened = opens => subscribed /\ NoDetach /\ Covered(wire, Larger(seen, q.to), total)
      /\ ~Asked /\ ~OwnWaits => subscribed /\ NoDetach /\ Covered(wire, seen, total)
      /\ \A i, j \in 1..Len(requests) :
           i < j /\ IsAttach(i) /\ requests[i].opened = opens => IsAttach(j)

UpTo(n)   == \A i \in 1..Len(shown) : shown[i] = n - Len(shown) + i - 1
Enough(n) == Len(shown) >= n \/ Len(shown) >= REPLAY_LIMIT

(* A panel that was not raced knows what it has, an incremental replay     *)
(* goes on from there, and its thread ends there.                          *)
Unraced ==
    panel.state = "ready" /\ ~raced =>
      /\ panel.lastSeq = seen
      /\ \A a \in Pending : a.opened = opens /\ ~a.full => a.since = seen
      /\ \A q \in Handled : q.opened = opens =>
            /\ q.to >= seen
            /\ ~q.full /\ ~q.hasEarlier => q.from = seen
      /\ ~cut => UpTo(seen) /\ Enough(seen)

ReplayInv == ReplayTypeOK /\ Sane /\ Mine /\ Line /\ Waits /\ Pushes /\ Fed /\ Unraced

-----------------------------------------------------------------------------
(* Sequences, and what is in flight                                        *)

Requests == AttachRequests \cup [op : {"detach"}]
Messages == [kind : {"event"}, seq : Nat] \cup [kind : {"reply"}, reply : Reply]

(* Taking the first element moves the others up. *)
LEMMA TailShape ==
    ASSUME NEW S, NEW s \in Seq(S), s # <<>>
    PROVE  /\ Len(s) >= 1 /\ Tail(s) \in Seq(S) /\ Len(Tail(s)) = Len(s) - 1
           /\ Head(s) = s[1] /\ s[1] \in S
           /\ \A i \in 1..(Len(s) - 1) : Tail(s)[i] = s[i + 1]
  <1>1. Len(s) \in Nat /\ Len(s) # 0 /\ Len(Tail(s)) = Len(s) - 1 BY EmptySeq, LenProperties, HeadTailProperties
  <1> QED BY <1>1, HeadTailProperties, ElementOfSeq

(* Appending leaves the others where they are. *)
LEMMA AppendShape ==
    ASSUME NEW S, NEW s \in Seq(S), NEW x \in S
    PROVE  /\ Append(s, x) \in Seq(S) /\ Len(Append(s, x)) = Len(s) + 1 /\ Len(s) \in Nat
           /\ Append(s, x)[Len(s) + 1] = x
           /\ \A i \in 1..Len(s) : Append(s, x)[i] = s[i]
  BY AppendProperties, LenProperties

(* The request of an attach() is one. *)
LEMMA AttachRequestType ==
    ASSUME NEW full \in BOOLEAN, NEW again \in BOOLEAN, NEW p \in Panels, opens \in Nat
    PROVE  AttachRequest(full, p, again) \in AttachRequests
  BY DEF AttachRequest, AttachRequests, Panels

(* And so is what the daemon answers. *)
LEMMA ReplyType ==
    ASSUME NEW r \in AttachRequests, total \in Nat
    PROVE  ReplyTo(r) \in Reply
  BY DEF ReplyTo, AttachRequests, Reply, Larger

(* The members of the sets in flight, by where they are. *)
LEMMA InFlightMembers ==
    ASSUME ReplayTypeOK
    PROVE  /\ \A i \in 1..Len(requests) : IsAttach(i) => requests[i] \in Pending
           /\ \A i \in 1..Len(requests) : IsAttach(i) => requests[i] \in AttachRequests
           /\ \A i \in 1..Len(unsent) : unsent[i] \in Handled
           /\ \A i \in 1..Len(resolved) : resolved[i] \in Handled
           /\ \A i \in 1..Len(wire) : IsReply(i) => wire[i].reply \in Handled
           /\ \A i \in 1..Len(wire) : IsReply(i) => wire[i] \in [kind : {"reply"}, reply : Reply]
           /\ \A i \in 1..Len(wire) : IsEvent(i) => wire[i] \in [kind : {"event"}, seq : Nat]
           /\ \A i \in 1..Len(wire) : IsEvent(i) \/ IsReply(i)
           /\ Pending \subseteq AttachRequests /\ Handled \subseteq Reply
  <1>1. \A i \in 1..Len(requests) : requests[i] \in AttachRequests \cup [op : {"detach"}]
    BY ElementOfSeq DEF ReplayTypeOK
  <1>2. \A i \in 1..Len(requests) : IsAttach(i) => requests[i] \in AttachRequests
    BY <1>1 DEF IsAttach
  <1>3. \A i \in 1..Len(wire) : wire[i] \in [kind : {"event"}, seq : Nat] \cup [kind : {"reply"}, reply : Reply]
    BY ElementOfSeq DEF ReplayTypeOK
  <1>4. /\ \A i \in 1..Len(wire) : IsReply(i) => wire[i] \in [kind : {"reply"}, reply : Reply]
        /\ \A i \in 1..Len(wire) : IsEvent(i) => wire[i] \in [kind : {"event"}, seq : Nat]
        /\ \A i \in 1..Len(wire) : IsEvent(i) \/ IsReply(i)
    BY <1>3 DEF IsReply, IsEvent
  <1>5. /\ \A i \in 1..Len(unsent) : unsent[i] \in Reply
        /\ \A i \in 1..Len(resolved) : resolved[i] \in Reply
    BY ElementOfSeq DEF ReplayTypeOK
  <1>6. Pending \subseteq AttachRequests BY <1>2 DEF Pending, IsAttach
  <1>7. \A i \in 1..Len(wire) : IsReply(i) => wire[i].reply \in Reply BY <1>4
  <1>8. Handled \subseteq Reply BY <1>5, <1>7 DEF Handled, IsReply
  <1>9. /\ \A i \in 1..Len(unsent) : unsent[i] \in Handled
        /\ \A i \in 1..Len(resolved) : resolved[i] \in Handled
        /\ \A i \in 1..Len(wire) : IsReply(i) => wire[i].reply \in Handled
    BY DEF Handled, IsReply
  <1>10. \A i \in 1..Len(requests) : IsAttach(i) => requests[i] \in Pending BY DEF Pending, IsAttach
  <1> QED BY <1>2, <1>4, <1>6, <1>8, <1>9, <1>10

-----------------------------------------------------------------------------
(* How the steps of daemon and window move what is in flight               *)

(* A pushed event is no attach. *)
LEMMA Append1Effect ==
    ASSUME ReplayTypeOK, Append1
    PROVE  /\ ReplayTypeOK'
           /\ Pending' = Pending /\ Handled' = Handled
           /\ Len(wire') >= Len(wire)
           /\ \A i \in 1..Len(wire) : wire'[i] = wire[i]
           /\ \A i \in 1..Len(wire') : i > Len(wire) =>
                subscribed /\ i = Len(wire) + 1 /\ wire'[i] = [kind |-> "event", seq |-> total]
           /\ subscribed => Len(wire') = Len(wire) + 1
  <1> DEFINE e == [kind |-> "event", seq |-> total]
  <1>1. e \in Messages BY DEF ReplayTypeOK, Messages
  <1>2. wire \in Seq(Messages) BY DEF ReplayTypeOK, Messages
  <1> HIDE DEF e
  <1>3. /\ Append(wire, e) \in Seq(Messages) /\ Len(Append(wire, e)) = Len(wire) + 1
        /\ Len(wire) \in Nat /\ Append(wire, e)[Len(wire) + 1] = e
        /\ \A i \in 1..Len(wire) : Append(wire, e)[i] = wire[i]
    BY <1>1, <1>2, AppendShape
  <1>4. wire' = IF subscribed THEN Append(wire, e) ELSE wire BY DEF Append1, e
  <1>5. wire' \in Seq(Messages) BY <1>2, <1>3, <1>4
  <1>6. ReplayTypeOK' BY <1>5 DEF Append1, ReplayTypeOK, Messages, counts, history
  <1>7. /\ Len(wire') >= Len(wire)
        /\ \A i \in 1..Len(wire) : wire'[i] = wire[i]
        /\ \A i \in 1..Len(wire') : i > Len(wire) => subscribed /\ i = Len(wire) + 1 /\ wire'[i] = e
        /\ subscribed => Len(wire') = Len(wire) + 1
    BY <1>3, <1>4
  <1>8. {wire'[i].reply : i \in {j \in 1..Len(wire') : wire'[j].kind = "reply"}}
          = {wire[i].reply : i \in {j \in 1..Len(wire) : wire[j].kind = "reply"}}
    <2>1. \A i \in 1..Len(wire') : wire'[i].kind = "reply" => i \in 1..Len(wire)
      BY <1>3, <1>4, <1>7 DEF e
    <2>2. 1..Len(wire) \subseteq 1..Len(wire') BY <1>3, <1>4
    <2> QED BY <1>7, <2>1, <2>2
  <1>9. Pending' = Pending /\ Handled' = Handled BY <1>8 DEF Append1, Pending, Handled
  <1> QED BY <1>6, <1>7, <1>9 DEF e

(* A request is taken off; the reply to an attach is the last unsent one. *)
LEMMA HandleRequestEffect ==
    ASSUME ReplayTypeOK, HandleRequest
    PROVE  /\ ReplayTypeOK'
           /\ Len(requests) >= 1 /\ Len(requests') = Len(requests) - 1
           /\ \A i \in 1..Len(requests') : requests'[i] = requests[i + 1]
           /\ Head(requests) = requests[1]
           /\ Pending' \subseteq Pending
           /\ \A i \in 1..Len(unsent) : unsent'[i] = unsent[i]
           /\ IsAttach(1) => /\ requests[1] \in Pending
                             /\ subscribed'
                             /\ Len(unsent') = Len(unsent) + 1
                             /\ unsent'[Len(unsent) + 1] = ReplyTo(requests[1])
                             /\ Handled' = Handled \cup {ReplyTo(requests[1])}
                             /\ Pending \subseteq Pending' \cup {requests[1]}
           /\ ~IsAttach(1) => unsent' = unsent /\ Pending' = Pending /\ Handled' = Handled
  <1> DEFINE r == requests[1]
  <1>1. requests \in Seq(Requests) /\ requests # <<>> BY DEF ReplayTypeOK, Requests, HandleRequest
  <1>2. /\ Len(requests) >= 1 /\ Tail(requests) \in Seq(Requests)
        /\ Len(Tail(requests)) = Len(requests) - 1
        /\ Head(requests) = requests[1] /\ r \in Requests
        /\ \A i \in 1..(Len(requests) - 1) : Tail(requests)[i] = requests[i + 1]
    BY <1>1, TailShape
  <1>3. requests' = Tail(requests) BY DEF HandleRequest
  <1>4. Len(requests) \in Nat BY <1>1, LenProperties
  <1>5. /\ Len(requests') = Len(requests) - 1
        /\ \A i \in 1..Len(requests') : requests'[i] = requests[i + 1]
    BY <1>2, <1>3
  <1>6. Pending' \subseteq Pending
    <2>1. \A i \in 1..Len(requests') : i + 1 \in 1..Len(requests) BY <1>4, <1>5
    <2> QED BY <2>1, <1>5 DEF Pending
  <1>7. Pending \subseteq Pending' \cup {r}
    <2>1. \A i \in 1..Len(requests) : i = 1 \/ (i - 1 \in 1..Len(requests') /\ requests'[i - 1] = requests[i])
      BY <1>4, <1>5
    <2> QED BY <2>1 DEF Pending
  <1>8. ~IsAttach(1) => unsent' = unsent /\ Pending' = Pending /\ Handled' = Handled
    <2>1. ASSUME ~IsAttach(1) PROVE Pending \subseteq Pending'
      <3>1. \A x \in Pending : x.op = "attach" BY DEF Pending
      <3> QED BY <1>7, <2>1, <3>1 DEF IsAttach
    <2>2. ~IsAttach(1) => unsent' = unsent BY <1>2 DEF HandleRequest, IsAttach
    <2> QED BY <1>6, <2>1, <2>2 DEF Handled, HandleRequest
  <1>9. ASSUME IsAttach(1)
        PROVE  /\ requests[1] \in Pending /\ subscribed' = TRUE
               /\ unsent' \in Seq(Reply)
               /\ Len(unsent') = Len(unsent) + 1
               /\ unsent'[Len(unsent) + 1] = ReplyTo(requests[1])
               /\ \A i \in 1..Len(unsent) : unsent'[i] = unsent[i]
               /\ Handled' = Handled \cup {ReplyTo(requests[1])}
    <2>1. r \in AttachRequests BY <1>2, <1>9 DEF Requests, IsAttach
    <2>2. ReplyTo(r) \in Reply BY <2>1, ReplyType DEF ReplayTypeOK
    <2>3. unsent' = Append(unsent, ReplyTo(r)) /\ subscribed' = TRUE
      BY <1>2, <1>9 DEF HandleRequest, IsAttach
    <2> HIDE DEF r
    <2>4. /\ unsent' \in Seq(Reply) /\ Len(unsent') = Len(unsent) + 1 /\ Len(unsent) \in Nat
          /\ unsent'[Len(unsent) + 1] = ReplyTo(r)
          /\ \A i \in 1..Len(unsent) : unsent'[i] = unsent[i]
      BY <2>2, <2>3, AppendShape DEF ReplayTypeOK
    <2>5. {unsent'[i] : i \in 1..Len(unsent')} = {unsent[i] : i \in 1..Len(unsent)} \cup {ReplyTo(r)}
      BY <2>4
    <2>6. Handled' = Handled \cup {ReplyTo(r)} BY <2>5 DEF Handled, HandleRequest
    <2>7. requests[1] \in Pending BY <1>2, <1>4, <1>9 DEF Pending, IsAttach
    <2> QED BY <2>3, <2>4, <2>6, <2>7 DEF r
  <1>10. ReplayTypeOK'
    <2>1. unsent' \in Seq(Reply) BY <1>8, <1>9 DEF ReplayTypeOK
    <2>2. subscribed' \in BOOLEAN BY DEF HandleRequest
    <2>3. requests' \in Seq(Requests) BY <1>2, <1>3
    <2> QED BY <2>1, <2>2, <2>3 DEF HandleRequest, ReplayTypeOK, Requests, counts, history
  <1> QED BY <1>2, <1>5, <1>6, <1>7, <1>8, <1>9, <1>10

(* A reply goes from the unsent ones to the wire. *)
LEMMA SendReplyEffect ==
    ASSUME ReplayTypeOK, SendReply
    PROVE  /\ ReplayTypeOK'
           /\ Pending' = Pending /\ Handled' = Handled
           /\ Len(unsent) >= 1 /\ Len(unsent') = Len(unsent) - 1
           /\ \A i \in 1..Len(unsent') : unsent'[i] = unsent[i + 1]
           /\ Len(wire') = Len(wire) + 1
           /\ \A i \in 1..Len(wire) : wire'[i] = wire[i]
           /\ wire'[Len(wire) + 1] = [kind |-> "reply", reply |-> unsent[1]]
  <1> DEFINE m == [kind |-> "reply", reply |-> unsent[1]]
  <1>1. /\ Len(unsent) >= 1 /\ Tail(unsent) \in Seq(Reply)
        /\ Len(Tail(unsent)) = Len(unsent) - 1
        /\ Head(unsent) = unsent[1] /\ unsent[1] \in Reply
        /\ \A i \in 1..(Len(unsent) - 1) : Tail(unsent)[i] = unsent[i + 1]
    BY TailShape DEF ReplayTypeOK, SendReply
  <1>2. m \in Messages /\ wire \in Seq(Messages) BY <1>1 DEF ReplayTypeOK, Messages
  <1>3. wire' = Append(wire, m) /\ unsent' = Tail(unsent) BY <1>1 DEF SendReply
  <1> HIDE DEF m
  <1>4. /\ wire' \in Seq(Messages) /\ Len(wire') = Len(wire) + 1 /\ Len(wire) \in Nat
        /\ wire'[Len(wire) + 1] = m
        /\ \A i \in 1..Len(wire) : wire'[i] = wire[i]
    BY <1>2, <1>3, AppendShape
  <1>5. /\ Len(unsent') = Len(unsent) - 1 /\ Len(unsent) \in Nat
        /\ \A i \in 1..Len(unsent') : unsent'[i] = unsent[i + 1]
    BY <1>1, <1>3, LenProperties DEF ReplayTypeOK
  <1>6. {unsent[i] : i \in 1..Len(unsent)} = {unsent'[i] : i \in 1..Len(unsent')} \cup {unsent[1]}
    <2>1. \A i \in 1..Len(unsent) : i = 1 \/ (i - 1 \in 1..Len(unsent') /\ unsent'[i - 1] = unsent[i])
      BY <1>5
    <2>2. \A i \in 1..Len(unsent') : i + 1 \in 1..Len(unsent) BY <1>5
    <2> QED BY <1>1, <1>5, <2>1, <2>2
  <1>7. {wire'[i].reply : i \in {j \in 1..Len(wire') : wire'[j].kind = "reply"}}
          = {wire[i].reply : i \in {j \in 1..Len(wire) : wire[j].kind = "reply"}} \cup {unsent[1]}
    <2>1. m.kind = "reply" /\ m.reply = unsent[1] BY DEF m
    <2>2. \A i \in 1..Len(wire') : i = Len(wire) + 1 \/ i \in 1..Len(wire) BY <1>4
    <2>3. Len(wire) + 1 \in 1..Len(wire') /\ 1..Len(wire) \subseteq 1..Len(wire') BY <1>4
    <2> QED BY <1>4, <2>1, <2>2, <2>3
  <1>8. Pending' = Pending /\ Handled' = Handled
    BY <1>6, <1>7 DEF SendReply, Pending, Handled
  <1>9. ReplayTypeOK' BY <1>1, <1>3, <1>4 DEF SendReply, ReplayTypeOK, Messages, counts, history
  <1> QED BY <1>1, <1>4, <1>5, <1>8, <1>9 DEF m

(* An event reaches the panel: its number, and its place in the thread. *)
LEMMA EventEffect ==
    ASSUME panel \in Panels, NEW s \in Nat, HandleEvent(s)
    PROVE  /\ resolved' = resolved /\ cut' = cut
           /\ seen' = Larger(seen, s + 1)
           /\ raced' = (raced \/ panel.state = "loading" \/ Asked)
           /\ panel' \in Panels /\ panel'.state = panel.state /\ panel'.limit = panel.limit
           /\ panel'.lastSeq = IF panel.state = "closed" THEN panel.lastSeq
                               ELSE Larger(panel.lastSeq, s + 1)
           /\ shown' = IF panel.state = "ready" THEN Append(shown, s) ELSE shown
           /\ queue' = IF panel.state = "loading" THEN Append(queue, s) ELSE queue
  <1>1. panel = [state |-> panel.state, lastSeq |-> panel.lastSeq, limit |-> panel.limit]
    BY DEF Panels
  <1>2. panel.lastSeq \in Nat /\ Larger(panel.lastSeq, s + 1) \in Nat BY DEF Panels, Larger
  <1> DEFINE n == Larger(panel.lastSeq, s + 1)
             p == [panel EXCEPT !.lastSeq = n]
  <1>3. p \in Panels /\ p.state = panel.state /\ p.limit = panel.limit /\ p.lastSeq = n
    <2> HIDE DEF n
    <2> QED BY <1>2 DEF Panels, n
  <1>4. panel' = IF panel.state = "closed" THEN panel ELSE p BY Zenon DEF HandleEvent
  <1> HIDE DEF p
  <1>5. /\ panel' \in Panels /\ panel'.state = panel.state /\ panel'.limit = panel.limit
        /\ panel'.lastSeq = IF panel.state = "closed" THEN panel.lastSeq ELSE n
    BY <1>3, <1>4
  <1>6. resolved' = resolved /\ cut' = cut BY Zenon DEF HandleEvent
  <1>7. seen' = Larger(seen, s + 1) /\ raced' = (raced \/ panel.state = "loading" \/ Asked)
    BY Zenon DEF HandleEvent
  <1>8. /\ shown' = IF panel.state = "ready" THEN Append(shown, s) ELSE shown
        /\ queue' = IF panel.state = "loading" THEN Append(queue, s) ELSE queue
    <2>1. IF panel.state = "ready"
          THEN shown' = Append(shown, s) /\ UNCHANGED queue
          ELSE IF panel.state = "loading"
               THEN queue' = Append(queue, s) /\ UNCHANGED shown
               ELSE UNCHANGED <<queue, shown>>
      BY Zenon DEF HandleEvent
    <2> QED BY <2>1
  <1> QED BY <1>5, <1>6, <1>7, <1>8

(* The first message leaves the wire; if it is a reply it is the last one  *)
(* that attach() has to go on with.                                        *)
LEMMA ReceiveEffect ==
    ASSUME ReplayTypeOK, Receive
    PROVE  /\ Len(wire) >= 1 /\ Len(wire') = Len(wire) - 1
           /\ wire' \in Seq(Messages)
           /\ \A i \in 1..Len(wire') : wire'[i] = wire[i + 1]
           /\ Head(wire) = wire[1]
           /\ Pending' = Pending /\ Handled' = Handled
           /\ IsEvent(1) => wire[1].seq \in Nat /\ HandleEvent(wire[1].seq)
           /\ IsReply(1) =>
                /\ resolved' \in Seq(Reply) /\ Len(resolved') = Len(resolved) + 1
                /\ \A i \in 1..Len(resolved) : resolved'[i] = resolved[i]
                /\ resolved'[Len(resolved) + 1] = wire[1].reply
                /\ UNCHANGED <<panel, queue, shown, history>>
           /\ IsEvent(1) \/ IsReply(1)
  <1>1. wire \in Seq(Messages) /\ wire # <<>> BY DEF ReplayTypeOK, Messages, Receive
  <1>2. /\ Len(wire) >= 1 /\ Tail(wire) \in Seq(Messages)
        /\ Len(Tail(wire)) = Len(wire) - 1
        /\ Head(wire) = wire[1] /\ wire[1] \in Messages
        /\ \A i \in 1..(Len(wire) - 1) : Tail(wire)[i] = wire[i + 1]
    BY <1>1, TailShape
  <1>3. wire' = Tail(wire) BY DEF Receive
  <1>4. Len(wire) \in Nat BY <1>1, LenProperties
  <1>5. Len(wire') = Len(wire) - 1 /\ \A i \in 1..Len(wire') : wire'[i] = wire[i + 1]
    BY <1>2, <1>3
  <1>6. IsEvent(1) => wire[1].seq \in Nat BY <1>2 DEF IsEvent, Messages
  <1>7. IsReply(1) => wire[1].reply \in Reply BY <1>2 DEF IsReply, Messages
  <1>8. (IsEvent(1) \/ IsReply(1)) /\ ~(IsEvent(1) /\ IsReply(1)) BY <1>2 DEF IsEvent, IsReply, Messages
  <1>9. IsEvent(1) => HandleEvent(wire[1].seq) BY <1>2, <1>8 DEF Receive, IsEvent, IsReply
  <1>10. IsReply(1) => resolved' = Append(resolved, wire[1].reply) /\ UNCHANGED <<panel, queue, shown, history>>
    BY <1>2, <1>8 DEF Receive, IsEvent, IsReply
  <1>11. IsReply(1) =>
           /\ resolved' \in Seq(Reply) /\ Len(resolved') = Len(resolved) + 1 /\ Len(resolved) \in Nat
           /\ \A i \in 1..Len(resolved) : resolved'[i] = resolved[i]
           /\ resolved'[Len(resolved) + 1] = wire[1].reply
    <2> DEFINE q == wire[1].reply
    <2>1. SUFFICES ASSUME q \in Reply, resolved' = Append(resolved, q)
                   PROVE  /\ resolved' \in Seq(Reply) /\ Len(resolved') = Len(resolved) + 1 /\ Len(resolved) \in Nat
                          /\ \A i \in 1..Len(resolved) : resolved'[i] = resolved[i]
                          /\ resolved'[Len(resolved) + 1] = q
      BY <1>7, <1>10
    <2> HIDE DEF q
    <2> QED BY <2>1, AppendShape DEF ReplayTypeOK
  <1> DEFINE onWire == {wire[i].reply : i \in {j \in 1..Len(wire) : wire[j].kind = "reply"}}
             left   == {wire'[i].reply : i \in {j \in 1..Len(wire') : wire'[j].kind = "reply"}}
  <1>12. /\ \A i \in 1..Len(wire) : i = 1 \/ (i - 1 \in 1..Len(wire') /\ wire'[i - 1] = wire[i])
         /\ \A i \in 1..Len(wire') : i + 1 \in 1..Len(wire)
         /\ 1 \in 1..Len(wire)
    BY <1>2, <1>4, <1>5
  <1>13. IsEvent(1) => onWire = left /\ resolved' = resolved
    <2>1. ASSUME IsEvent(1) PROVE resolved' = resolved
      <3>1. panel \in Panels /\ wire[1].seq \in Nat /\ HandleEvent(wire[1].seq)
        BY <1>6, <1>9, <2>1 DEF ReplayTypeOK
      <3> QED BY <3>1, EventEffect, Zenon
    <2>2. ASSUME IsEvent(1) PROVE onWire \subseteq left
      <3>1. wire[1].kind # "reply" BY <1>8, <2>2 DEF IsReply
      <3> QED BY <1>5, <1>12, <3>1
    <2>3. left \subseteq onWire BY <1>5, <1>12
    <2> HIDE DEF onWire, left
    <2> QED BY <2>1, <2>2, <2>3
  <1>14. IsReply(1) => onWire = left \cup {wire[1].reply}
    BY <1>5, <1>12 DEF IsReply
  <1>15. IsReply(1) => {resolved'[i] : i \in 1..Len(resolved')}
                         = {resolved[i] : i \in 1..Len(resolved)} \cup {wire[1].reply}
    BY <1>11
  <1>16. Handled' = Handled
    <2>1. Handled = {unsent[i] : i \in 1..Len(unsent)} \cup {resolved[i] : i \in 1..Len(resolved)} \cup onWire
      BY DEF Handled
    <2>2. Handled' = {unsent[i] : i \in 1..Len(unsent)} \cup {resolved'[i] : i \in 1..Len(resolved')} \cup left
      BY DEF Handled, Receive
    <2> HIDE DEF onWire, left
    <2> QED BY <1>8, <1>13, <1>14, <1>15, <2>1, <2>2
  <1>17. Pending' = Pending BY DEF Receive, Pending
  <1> HIDE DEF onWire, left
  <1> QED BY <1>2, <1>3, <1>5, <1>6, <1>8, <1>9, <1>10, <1>11, <1>16, <1>17

(* attach() goes on with the first reply. *)
LEMMA AttachReturnsEffect ==
    ASSUME ReplayTypeOK, AttachReturns
    PROVE  /\ Len(resolved) >= 1 /\ Len(resolved') = Len(resolved) - 1
           /\ resolved' \in Seq(Reply)
           /\ \A i \in 1..Len(resolved') : resolved'[i] = resolved[i + 1]
           /\ Head(resolved) = resolved[1] /\ resolved[1] \in Reply /\ resolved[1] \in Handled
           /\ Pending' = Pending /\ Handled' \subseteq Handled
           /\ Handled \subseteq Handled' \cup {resolved[1]}
  <1>1. /\ Len(resolved) >= 1 /\ Tail(resolved) \in Seq(Reply)
        /\ Len(Tail(resolved)) = Len(resolved) - 1
        /\ Head(resolved) = resolved[1] /\ resolved[1] \in Reply
        /\ \A i \in 1..(Len(resolved) - 1) : Tail(resolved)[i] = resolved[i + 1]
    BY TailShape DEF ReplayTypeOK, AttachReturns
  <1>2. resolved' = Tail(resolved) BY DEF AttachReturns
  <1>3. Len(resolved) \in Nat BY LenProperties DEF ReplayTypeOK
  <1>4. Len(resolved') = Len(resolved) - 1 /\ \A i \in 1..Len(resolved') : resolved'[i] = resolved[i + 1]
    BY <1>1, <1>2
  <1>5. /\ \A i \in 1..Len(resolved) :
             i = 1 \/ (i - 1 \in 1..Len(resolved') /\ resolved'[i - 1] = resolved[i])
        /\ \A i \in 1..Len(resolved') : i + 1 \in 1..Len(resolved)
        /\ 1 \in 1..Len(resolved)
    BY <1>1, <1>3, <1>4
  <1>6. {resolved[i] : i \in 1..Len(resolved)} = {resolved'[i] : i \in 1..Len(resolved')} \cup {resolved[1]}
    BY <1>4, <1>5
  <1>7. UNCHANGED <<requests, unsent, wire>> BY DEF AttachReturns
  <1>8. Handled' \subseteq Handled /\ Handled \subseteq Handled' \cup {resolved[1]}
    BY <1>6, <1>7 DEF Handled
  <1>9. resolved[1] \in Handled BY <1>5 DEF Handled
  <1>10. Pending' = Pending BY <1>7 DEF Pending
  <1> QED BY <1>1, <1>2, <1>4, <1>8, <1>9, <1>10

-----------------------------------------------------------------------------
(* The daemon's steps                                                      *)

(* A push is newer than everything ahead of it on the wire. *)
LEMMA Append1Step ==
    ASSUME ReplayInv, Append1
    PROVE  ReplayInv'
  <1>1. ReplayTypeOK BY DEF ReplayInv
  <1>2. UNCHANGED <<conn, subscribed, requests, unsent, resolved, panel, queue, shown, earlier,
                    waiting, connects, opens, seen, raced, cut>> /\ total' = total + 1
    BY DEF Append1, counts, history
  <1>3. /\ ReplayTypeOK'
        /\ Pending' = Pending /\ Handled' = Handled
        /\ Len(wire') >= Len(wire)
        /\ \A i \in 1..Len(wire) : wire'[i] = wire[i]
        /\ \A i \in 1..Len(wire') : i > Len(wire) =>
             subscribed /\ i = Len(wire) + 1 /\ wire'[i] = [kind |-> "event", seq |-> total]
        /\ subscribed => Len(wire') = Len(wire) + 1
    BY <1>1, Append1Effect
  <1>4. Len(wire) \in Nat /\ Len(wire') \in Nat BY <1>1, <1>3, LenProperties DEF ReplayTypeOK
  <1>5. /\ \A i \in 1..Len(wire') : IsReply(i)' => i \in 1..Len(wire) /\ IsReply(i) /\ wire'[i] = wire[i]
        /\ \A i \in 1..Len(wire') : IsEvent(i)' =>
             \/ i \in 1..Len(wire) /\ IsEvent(i) /\ wire'[i] = wire[i]
             \/ i = Len(wire) + 1 /\ wire'[i].seq = total
        /\ \A i \in 1..Len(wire) : i \in 1..Len(wire') /\ (IsEvent(i) => IsEvent(i)')
    BY <1>3, <1>4 DEF IsReply, IsEvent
  <1>6. total \in Nat /\ seen \in Nat BY <1>1 DEF ReplayTypeOK
  <1>7. Sane'
    <2>1. ~conn => wire' = wire BY DEF Append1, ReplayInv, Sane
    <2> QED BY <1>1, <1>2, <1>3, <1>6, <2>1, InFlightMembers DEF ReplayInv, Sane, Reply
  <1>8. Mine' BY <1>2, <1>3 DEF ReplayInv, Mine
  <1>9. Line'
    <2>1. Line BY DEF ReplayInv
    <2>a. \A i \in 1..Len(wire') : IsReply(i)' => i \in 1..Len(wire) /\ IsReply(i) /\ wire'[i] = wire[i]
      BY <1>5
    <2>2. /\ \A i \in 1..Len(resolved), j \in 1..Len(wire') : IsReply(j)' => Later(resolved[i], wire[j].reply)'
          /\ \A i, j \in 1..Len(wire') :
               i < j /\ IsReply(i)' /\ IsReply(j)' => Later(wire[i].reply, wire[j].reply)'
      <3>1. /\ \A i \in 1..Len(resolved), j \in 1..Len(wire) : IsReply(j) => Later(resolved[i], wire[j].reply)
            /\ \A i, j \in 1..Len(wire) :
                 i < j /\ IsReply(i) /\ IsReply(j) => Later(wire[i].reply, wire[j].reply)
        BY <2>1 DEF Line
      <3> QED BY <1>2, <2>a, <3>1 DEF Later, Orderly
    <2>3. /\ \A i \in 1..Len(wire'), j \in 1..Len(unsent) : IsReply(i)' => Later(wire[i].reply, unsent[j])'
          /\ \A i \in 1..Len(wire'), j \in 1..Len(requests) :
               IsReply(i)' /\ IsAttach(j) => Orderly(wire[i].reply, requests[j])'
      <3>1. /\ \A i \in 1..Len(wire), j \in 1..Len(unsent) : IsReply(i) => Later(wire[i].reply, unsent[j])
            /\ \A i \in 1..Len(wire), j \in 1..Len(requests) :
                 IsReply(i) /\ IsAttach(j) => Orderly(wire[i].reply, requests[j])
        BY <2>1 DEF Line
      <3> QED BY <1>2, <2>a, <3>1 DEF Later, Orderly
    <2>4. /\ \A i, j \in 1..Len(resolved) : i < j => Later(resolved[i], resolved[j])'
          /\ \A i \in 1..Len(resolved), j \in 1..Len(unsent) : Later(resolved[i], unsent[j])'
          /\ \A i \in 1..Len(resolved), j \in 1..Len(requests) :
               IsAttach(j) => Orderly(resolved[i], requests[j])'
      BY <1>2, <2>1 DEF Line, Later, Orderly
    <2>5. /\ \A i, j \in 1..Len(unsent) : i < j => Later(unsent[i], unsent[j])'
          /\ \A i \in 1..Len(unsent), j \in 1..Len(requests) :
               IsAttach(j) => Orderly(unsent[i], requests[j])'
          /\ \A i, j \in 1..Len(requests) :
               i < j /\ IsAttach(i) /\ IsAttach(j) => Orderly(requests[i], requests[j])'
      BY <1>2, <2>1 DEF Line, Later, Orderly
    <2> QED BY <1>2, <2>2, <2>3, <2>4, <2>5 DEF Line, IsAttach
  <1>10. Waits' BY <1>2, <1>3 DEF ReplayInv, Waits, OwnWaits, OwnWaitsShort
  <1>11. Pushes'
    <2>1. /\ \A i \in 1..Len(wire) : IsReply(i) => wire[i].reply.to <= total
          /\ \A i \in 1..Len(resolved) : resolved[i].to <= total
      BY <1>1, InFlightMembers DEF ReplayInv, Sane
    <2>2. seen <= total BY DEF ReplayInv, Sane
    <2>3. \A i \in 1..Len(wire) : IsEvent(i) => wire[i].seq \in Nat BY <1>1, InFlightMembers
    <2>4. \A i \in 1..Len(wire') : IsEvent(i)' => wire'[i].seq >= seen' /\ wire'[i].seq < total'
      BY <1>2, <1>5, <1>6, <2>2, <2>3 DEF ReplayInv, Pushes
    <2>5. \A i, j \in 1..Len(wire') : i < j /\ IsEvent(i)' /\ IsEvent(j)' => wire'[i].seq < wire'[j].seq
      BY <1>4, <1>5, <1>6, <2>3 DEF ReplayInv, Pushes
    <2>6. \A i, j \in 1..Len(wire') :
            i < j /\ IsReply(i)' /\ IsEvent(j)' => wire'[i].reply.to <= wire'[j].seq
      BY <1>5, <2>1 DEF ReplayInv, Pushes
    <2>7. \A i \in 1..Len(resolved), j \in 1..Len(wire') : IsEvent(j)' => resolved[i].to <= wire'[j].seq
      BY <1>5, <2>1 DEF ReplayInv, Pushes
    <2> QED BY <1>2, <2>4, <2>5, <2>6, <2>7 DEF Pushes
  <1>12. ASSUME NEW n \in Nat, subscribed, Covered(wire, n, total) PROVE Covered(wire', n, total')
    <2>1. /\ Len(wire) + 1 \in 1..Len(wire') /\ wire'[Len(wire) + 1].kind = "event"
          /\ wire'[Len(wire) + 1].seq = total
      BY <1>3, <1>4, <1>12
    <2>2. ASSUME NEW s \in n..(total' - 1)
          PROVE  \E i \in 1..Len(wire') : wire'[i].kind = "event" /\ wire'[i].seq = s
      <3>1. CASE s = total BY <2>1, <3>1
      <3>2. CASE s # total
        <4>1. s \in n..(total - 1) BY <1>2, <1>6, <2>2, <3>2
        <4>2. PICK i \in 1..Len(wire) : wire[i].kind = "event" /\ wire[i].seq = s
          BY <1>12, <4>1 DEF Covered
        <4> QED BY <1>3, <1>5, <4>2
      <3> QED BY <3>1, <3>2
    <2> QED BY <2>2 DEF Covered
  <1>13. Fed'
    <2>1. Asked' = Asked /\ OwnWaits' = OwnWaits /\ NoDetach' = NoDetach
      BY <1>2, <1>3 DEF Asked, OwnWaits, NoDetach, IsAttach
    <2>2. \A q \in Handled : Larger(seen, q.to) \in Nat
      BY <1>1, <1>6, InFlightMembers DEF Larger, Reply
    <2>3. ASSUME panel.state = "ready", conn
          PROVE  /\ \A q \in Handled : q.opened = opens =>
                      subscribed /\ NoDetach /\ Covered(wire', Larger(seen, q.to), total')
                 /\ ~Asked /\ ~OwnWaits => subscribed /\ NoDetach /\ Covered(wire', seen, total')
      BY <1>6, <1>12, <2>2, <2>3 DEF ReplayInv, Fed
    <2> QED BY <1>2, <1>3, <2>1, <2>3 DEF ReplayInv, Fed, IsAttach
  <1>14. Unraced' BY <1>2, <1>3 DEF ReplayInv, Unraced, UpTo, Enough
  <1> QED BY <1>3, <1>7, <1>8, <1>9, <1>10, <1>11, <1>13, <1>14 DEF ReplayInv

(* What the reply to an attach holds. *)
LEMMA ReplyShape ==
    ASSUME NEW r \in AttachRequests, total \in Nat, r.full <=> r.since = 0, r.limit >= REPLAY_LIMIT
    PROVE  LET q == ReplyTo(r) IN
           /\ q \in Reply
           /\ q.opened = r.opened /\ q.full = r.full /\ q.again = r.again /\ q.to = total
           /\ q.hasEarlier => q.from < q.to
           /\ q.from <= q.to
           /\ q.full => /\ q.to > 0 => q.from < q.to
                        /\ q.to - q.from >= q.to \/ q.to - q.from >= REPLAY_LIMIT
           /\ ~q.hasEarlier /\ r.since <= total => q.from = r.since
  <1>1. r.since \in Nat /\ r.limit \in Nat /\ REPLAY_LIMIT \in Nat \ {0} /\ total \in Nat
    BY ReplayAssumption DEF AttachRequests
  <1>2. ReplyTo(r) \in Reply BY ReplyType
  <1> DEFINE q == ReplyTo(r)
  <1>3. /\ q.opened = r.opened /\ q.full = r.full /\ q.again = r.again /\ q.to = total
        /\ q.hasEarlier <=> r.since < total - r.limit
        /\ q.from = IF r.since >= total THEN total ELSE Larger(r.since, total - r.limit)
    BY DEF ReplyTo
  <1> HIDE DEF q
  <1>4. q.hasEarlier => q.from < q.to BY <1>1, <1>3 DEF Larger
  <1>5. ~q.hasEarlier /\ r.since <= total => q.from = r.since BY <1>1, <1>3 DEF Larger
  <1>6. r.since = 0 => /\ q.to > 0 => q.from < q.to
                       /\ q.to - q.from >= q.to \/ q.to - q.from >= REPLAY_LIMIT
    BY <1>1, <1>3 DEF Larger
  <1>7. q.full => r.since = 0 BY <1>3
  <1>8. q.from <= q.to BY <1>1, <1>3 DEF Larger
  <1> QED BY <1>2, <1>3, <1>4, <1>5, <1>6, <1>7, <1>8 DEF q

(* An attach subscribes and is answered; a detach ends the subscription. *)
LEMMA HandleRequestStep ==
    ASSUME ReplayInv, HandleRequest
    PROVE  ReplayInv'
  <1> DEFINE r == requests[1]
             q == ReplyTo(r)
  <1>1. ReplayTypeOK BY DEF ReplayInv
  <1>2. UNCHANGED <<total, conn, wire, resolved, panel, queue, shown, earlier, waiting, connects,
                    opens, seen, raced, cut>>
    BY DEF HandleRequest, counts, history
  <1>3. /\ ReplayTypeOK'
        /\ Len(requests) >= 1 /\ Len(requests') = Len(requests) - 1
        /\ \A i \in 1..Len(requests') : requests'[i] = requests[i + 1]
        /\ Pending' \subseteq Pending
        /\ \A i \in 1..Len(unsent) : unsent'[i] = unsent[i]
        /\ IsAttach(1) => /\ r \in Pending
                          /\ subscribed'
                          /\ Len(unsent') = Len(unsent) + 1
                          /\ unsent'[Len(unsent) + 1] = q
                          /\ Handled' = Handled \cup {q}
                          /\ Pending \subseteq Pending' \cup {r}
        /\ ~IsAttach(1) => unsent' = unsent /\ Pending' = Pending /\ Handled' = Handled
    BY <1>1, HandleRequestEffect
  <1>4. Len(requests) \in Nat /\ Len(unsent) \in Nat /\ total \in Nat /\ seen \in Nat
    BY <1>1, LenProperties DEF ReplayTypeOK
  <1>5. IsAttach(1) => /\ q \in Reply
                       /\ q.opened = r.opened /\ q.full = r.full /\ q.again = r.again /\ q.to = total
                       /\ q.hasEarlier => q.from < q.to
                       /\ q.from <= q.to
                       /\ q.full => /\ q.to > 0 => q.from < q.to
                                    /\ q.to - q.from >= q.to \/ q.to - q.from >= REPLAY_LIMIT
                       /\ ~q.hasEarlier /\ r.since <= total => q.from = r.since
    <2>1. IsAttach(1) => r \in AttachRequests /\ (r.full <=> r.since = 0) /\ r.limit >= REPLAY_LIMIT
      BY <1>1, <1>3, InFlightMembers DEF ReplayInv, Sane
    <2> HIDE DEF r
    <2>2. IsAttach(1) => LET x == ReplyTo(r) IN
                       /\ x \in Reply
                       /\ x.opened = r.opened /\ x.full = r.full /\ x.again = r.again /\ x.to = total
                       /\ x.hasEarlier => x.from < x.to
                       /\ x.from <= x.to
                       /\ x.full => /\ x.to > 0 => x.from < x.to
                                    /\ x.to - x.from >= x.to \/ x.to - x.from >= REPLAY_LIMIT
                       /\ ~x.hasEarlier /\ r.since <= total => x.from = r.since
      BY <1>4, <2>1, ReplyShape
    <2> QED BY <2>2
  <1>6. /\ \A i \in 1..Len(requests') : /\ i + 1 \in 1..Len(requests) /\ requests'[i] = requests[i + 1]
                                        /\ IsAttach(i)' <=> requests[i + 1].op = "attach"
        /\ 1 \in 1..Len(requests)
    BY <1>3, <1>4 DEF IsAttach
  <1>7. \A i \in 1..Len(unsent') : \/ i \in 1..Len(unsent) /\ unsent'[i] = unsent[i]
                                   \/ IsAttach(1) /\ i = Len(unsent) + 1 /\ unsent'[i] = q
    BY <1>3, <1>4
  <1> HIDE DEF r, q
  <1>8. Sane'
    <2>1. requests # <<>> BY DEF HandleRequest
    <2>2. conn BY <2>1 DEF ReplayInv, Sane
    <2> QED BY <1>2, <1>3, <1>4, <1>5, <2>2 DEF ReplayInv, Sane
  <1>9. \A a \in Pending' \cup Handled' :
          \E b \in Pending \cup Handled : a.opened = b.opened /\ a.again = b.again
    BY <1>3, <1>5
  <1>10. Mine' BY <1>2, <1>9 DEF ReplayInv, Mine
  <1>11. Line'
    <2>1. /\ \A i \in 1..Len(resolved) : resolved[i].to <= total
          /\ \A i \in 1..Len(wire) : IsReply(i) => wire[i].reply.to <= total
          /\ \A i \in 1..Len(unsent) : unsent[i].to <= total
      BY <1>1, InFlightMembers DEF ReplayInv, Sane
    <2> USE <1>2, <1>6, <1>7 DEF Later, Orderly, IsAttach
    <2>2. \A i \in 1..Len(resolved), j \in 1..Len(unsent') : Later(resolved[i], unsent[j])'
      BY <1>5, <2>1 DEF r, ReplayInv, Line
    <2>3. \A i \in 1..Len(resolved), j \in 1..Len(requests') :
            IsAttach(j)' => Orderly(resolved[i], requests[j])'
      BY DEF ReplayInv, Line
    <2>4. \A i \in 1..Len(wire), j \in 1..Len(unsent') :
            IsReply(i) => Later(wire[i].reply, unsent[j])'
      BY <1>5, <2>1 DEF r, ReplayInv, Line
    <2>5. \A i \in 1..Len(wire), j \in 1..Len(requests') :
            IsReply(i) /\ IsAttach(j)' => Orderly(wire[i].reply, requests[j])'
      BY DEF ReplayInv, Line
    <2>6. \A i, j \in 1..Len(unsent') : i < j => Later(unsent[i], unsent[j])'
      BY <1>4, <1>5, <2>1 DEF r, ReplayInv, Line
    <2>7. \A i \in 1..Len(unsent'), j \in 1..Len(requests') :
            IsAttach(j)' => Orderly(unsent[i], requests[j])'
      <3> SUFFICES ASSUME NEW i \in 1..Len(unsent'), NEW j \in 1..Len(requests'), IsAttach(j)'
                   PROVE  Orderly(unsent[i], requests[j])'
        OBVIOUS
      <3>1. j + 1 \in 1..Len(requests) /\ requests[j + 1].op = "attach" /\ 1 < j + 1
        BY <1>4
      <3>2. CASE i \in 1..Len(unsent) /\ unsent'[i] = unsent[i] BY <3>1, <3>2 DEF ReplayInv, Line
      <3>3. CASE IsAttach(1) /\ i = Len(unsent) + 1 /\ unsent'[i] = q
        <4>1. Orderly(r, requests[j + 1]) BY <3>1, <3>3 DEF ReplayInv, Line, r
        <4> QED BY <1>5, <3>3, <4>1
      <3> QED BY <3>2, <3>3
    <2>8. \A i, j \in 1..Len(requests') :
            i < j /\ IsAttach(i)' /\ IsAttach(j)' => Orderly(requests[i], requests[j])'
      <3> SUFFICES ASSUME NEW i \in 1..Len(requests'), NEW j \in 1..Len(requests'), i < j,
                          IsAttach(i)', IsAttach(j)'
                   PROVE  Orderly(requests[i], requests[j])'
        OBVIOUS
      <3>1. i + 1 \in 1..Len(requests) /\ j + 1 \in 1..Len(requests) /\ i + 1 < j + 1 BY <1>4
      <3> QED BY <3>1 DEF ReplayInv, Line
    <2> QED BY <2>2, <2>3, <2>4, <2>5, <2>6, <2>7, <2>8 DEF ReplayInv, Line, IsReply
  <1>12. Waits'
    <2>1. Pending \cup Handled = {} => Pending' \cup Handled' = {} BY <1>9
    <2> QED BY <1>2, <1>9, <2>1 DEF ReplayInv, Waits, OwnWaits, OwnWaitsShort
  <1>13. Pushes' BY <1>2 DEF ReplayInv, Pushes, IsReply, IsEvent
  <1>14. NoDetach => NoDetach' /\ IsAttach(1) BY <1>6 DEF NoDetach, IsAttach
  <1>15. ASSUME panel.state = "ready", conn PROVE Fed'
    <2>1. ASSUME IsAttach(1), r.opened = opens
          PROVE  NoDetach' /\ Covered(wire, Larger(seen, q.to), total)
      <3>1. \A j \in 1..Len(requests) : 1 < j => IsAttach(j)
        BY <1>6, <1>15, <2>1 DEF ReplayInv, Fed, r
      <3>2. NoDetach' BY <1>4, <1>6, <3>1 DEF NoDetach, IsAttach
      <3>3. Covered(wire, Larger(seen, q.to), total) BY <1>4, <1>5, <2>1 DEF Covered, Larger
      <3> QED BY <3>2, <3>3
    <2>2. ASSUME NEW x \in Handled', x.opened = opens
          PROVE  subscribed' /\ NoDetach' /\ Covered(wire, Larger(seen, x.to), total)
      <3>1. CASE x \in Handled
        BY <1>3, <1>14, <1>15, <2>2, <3>1 DEF ReplayInv, Fed
      <3>2. CASE IsAttach(1) /\ x = q BY <1>3, <1>5, <2>1, <2>2, <3>2
      <3> QED BY <1>3, <2>2, <3>1, <3>2
    <2>3. ASSUME ~Asked', ~OwnWaits PROVE subscribed' /\ NoDetach' /\ Covered(wire, seen, total)
      <3>1. ~Asked BY <1>2, <1>3, <1>5, <2>3 DEF Asked
      <3> QED BY <1>3, <1>14, <1>15, <2>3, <3>1 DEF ReplayInv, Fed
    <2>4. \A i, j \in 1..Len(requests') :
            i < j /\ IsAttach(i)' /\ requests'[i].opened = opens => IsAttach(j)'
      BY <1>4, <1>6, <1>15 DEF ReplayInv, Fed, IsAttach
    <2>5. OwnWaits' = OwnWaits BY <1>2 DEF OwnWaits
    <2> QED BY <1>2, <2>2, <2>3, <2>4, <2>5 DEF Fed
  <1>16. Fed' BY <1>2, <1>15 DEF Fed
  <1>17. Unraced'
    <2>1. ASSUME panel.state = "ready", ~raced, IsAttach(1), q.opened = opens
          PROVE  q.to >= seen /\ (~q.full /\ ~q.hasEarlier => q.from = seen)
      <3>1. ~r.full => r.since = seen BY <1>3, <1>5, <2>1 DEF ReplayInv, Unraced
      <3>2. seen <= total BY DEF ReplayInv, Sane
      <3> QED BY <1>4, <1>5, <2>1, <3>1, <3>2
    <2> QED BY <1>2, <1>3, <2>1 DEF ReplayInv, Unraced, UpTo, Enough
  <1> QED BY <1>3, <1>8, <1>10, <1>11, <1>12, <1>13, <1>16, <1>17 DEF ReplayInv

(* A reply goes behind the pushes that were sent before it. *)
LEMMA SendReplyStep ==
    ASSUME ReplayInv, SendReply
    PROVE  ReplayInv'
  <1>1. ReplayTypeOK BY DEF ReplayInv
  <1>2. UNCHANGED <<total, conn, subscribed, requests, resolved, panel, queue, shown, earlier, waiting,
                    connects, opens, seen, raced, cut>>
    BY DEF SendReply, counts, history
  <1>3. /\ ReplayTypeOK'
        /\ Pending' = Pending /\ Handled' = Handled
        /\ Len(unsent) >= 1 /\ Len(unsent') = Len(unsent) - 1
        /\ \A i \in 1..Len(unsent') : unsent'[i] = unsent[i + 1]
        /\ Len(wire') = Len(wire) + 1
        /\ \A i \in 1..Len(wire) : wire'[i] = wire[i]
        /\ wire'[Len(wire) + 1] = [kind |-> "reply", reply |-> unsent[1]]
    BY <1>1, SendReplyEffect
  <1>4. Len(unsent) \in Nat /\ Len(wire) \in Nat BY <1>1, LenProperties DEF ReplayTypeOK
  <1>5. \A i \in 1..Len(unsent') : i + 1 \in 1..Len(unsent) /\ unsent'[i] = unsent[i + 1] /\ 1 < i + 1
    BY <1>3, <1>4
  <1>6. /\ 1 \in 1..Len(unsent)
        /\ \A i \in 1..Len(wire') :
             \/ i \in 1..Len(wire) /\ wire'[i] = wire[i]
             \/ i = Len(wire) + 1 /\ wire'[i].reply = unsent[1] /\ wire'[i].kind = "reply"
        /\ \A i \in 1..Len(wire) : i \in 1..Len(wire')
    BY <1>3, <1>4
  <1>7. Sane'
    <2>1. conn BY DEF SendReply, ReplayInv, Sane
    <2> QED BY <1>2, <1>3, <2>1 DEF ReplayInv, Sane
  <1>8. Mine' BY <1>2, <1>3 DEF ReplayInv, Mine
  <1>9. Line'
    <2> USE <1>2, <1>5, <1>6 DEF Later, Orderly, IsAttach, IsReply
    <2>1. \A i \in 1..Len(resolved), j \in 1..Len(wire') :
            IsReply(j)' => Later(resolved[i], wire[j].reply)'
      BY DEF ReplayInv, Line
    <2>2. \A i \in 1..Len(resolved), j \in 1..Len(unsent') : Later(resolved[i], unsent[j])'
      BY DEF ReplayInv, Line
    <2>3. ASSUME NEW i \in 1..Len(wire'), NEW j \in 1..Len(wire'), i < j, IsReply(i)', IsReply(j)'
          PROVE  Later(wire[i].reply, wire[j].reply)'
      <3>1. i \in 1..Len(wire) /\ wire'[i] = wire[i] BY <1>4, <2>3
      <3>2. CASE j \in 1..Len(wire) BY <2>3, <3>1, <3>2 DEF ReplayInv, Line
      <3>3. CASE j = Len(wire) + 1
        <4>1. wire'[j].reply = unsent[1] BY <1>4, <3>3
        <4>2. Later(wire[i].reply, unsent[1]) BY <2>3, <3>1 DEF ReplayInv, Line
        <4> QED BY <3>1, <4>1, <4>2
      <3> QED BY <3>2, <3>3
    <2>4. \A i \in 1..Len(wire'), j \in 1..Len(unsent') :
            IsReply(i)' => Later(wire[i].reply, unsent[j])'
      BY DEF ReplayInv, Line
    <2>5. \A i \in 1..Len(wire'), j \in 1..Len(requests) :
            IsReply(i)' /\ IsAttach(j) => Orderly(wire[i].reply, requests[j])'
      BY DEF ReplayInv, Line
    <2>6. \A i, j \in 1..Len(unsent') : i < j => Later(unsent[i], unsent[j])'
      <3> SUFFICES ASSUME NEW i \in 1..Len(unsent'), NEW j \in 1..Len(unsent'), i < j
                   PROVE  Later(unsent[i], unsent[j])'
        OBVIOUS
      <3>1. i + 1 \in 1..Len(unsent) /\ j + 1 \in 1..Len(unsent) /\ i + 1 < j + 1 BY <1>4
      <3> QED BY <3>1 DEF ReplayInv, Line
    <2>7. \A i \in 1..Len(unsent'), j \in 1..Len(requests) :
            IsAttach(j) => Orderly(unsent[i], requests[j])'
      BY DEF ReplayInv, Line
    <2> QED BY <2>1, <2>2, <2>3, <2>4, <2>5, <2>6, <2>7 DEF ReplayInv, Line
  <1>10. Waits' BY <1>2, <1>3 DEF ReplayInv, Waits, OwnWaits, OwnWaitsShort
  <1>11. \A i \in 1..Len(wire') : IsEvent(i)' => i \in 1..Len(wire) /\ IsEvent(i) /\ wire'[i] = wire[i]
    BY <1>6 DEF IsEvent
  <1>12. Pushes'
    <2>1. \A i, j \in 1..Len(wire') :
            i < j /\ IsReply(i)' /\ IsEvent(j)' => wire'[i].reply.to <= wire'[j].seq
      BY <1>4, <1>6, <1>11 DEF ReplayInv, Pushes, IsReply
    <2> QED BY <1>2, <1>11, <2>1 DEF ReplayInv, Pushes
  <1>13. \A n \in Nat : Covered(wire, n, total) => Covered(wire', n, total)
    BY <1>3, <1>6 DEF Covered
  <1>14. Fed'
    <2>1. \A q \in Handled : Larger(seen, q.to) \in Nat
      BY <1>1, InFlightMembers DEF Larger, Reply, ReplayTypeOK
    <2>2. seen \in Nat BY <1>1 DEF ReplayTypeOK
    <2> QED BY <1>2, <1>3, <1>13, <2>1, <2>2 DEF ReplayInv, Fed, Asked, OwnWaits, NoDetach, IsAttach
  <1>15. Unraced' BY <1>2, <1>3 DEF ReplayInv, Unraced, UpTo, Enough
  <1> QED BY <1>3, <1>7, <1>8, <1>9, <1>10, <1>12, <1>14, <1>15 DEF ReplayInv

-----------------------------------------------------------------------------
(* The window's steps                                                      *)

(* A reply arrives: the attach() it is for goes on a little later. *)
LEMMA ReceiveReplyStep ==
    ASSUME ReplayInv, Receive, IsReply(1)
    PROVE  ReplayInv'
  <1>1. ReplayTypeOK BY DEF ReplayInv
  <1>2. /\ UNCHANGED <<total, conn, subscribed, requests, unsent, earlier, waiting, connects, opens>>
        /\ wire # <<>>
    BY DEF Receive, counts
  <1>3. /\ Len(wire) >= 1 /\ Len(wire') = Len(wire) - 1
        /\ wire' \in Seq(Messages)
        /\ \A i \in 1..Len(wire') : wire'[i] = wire[i + 1]
        /\ Pending' = Pending /\ Handled' = Handled
        /\ resolved' \in Seq(Reply) /\ Len(resolved') = Len(resolved) + 1
        /\ \A i \in 1..Len(resolved) : resolved'[i] = resolved[i]
        /\ resolved'[Len(resolved) + 1] = wire[1].reply
        /\ UNCHANGED <<panel, queue, shown, history>>
    BY <1>1, ReceiveEffect
  <1>4. UNCHANGED <<panel, queue, shown, seen, raced, cut>> BY <1>3 DEF history
  <1>5. ReplayTypeOK' BY <1>1, <1>2, <1>3, <1>4 DEF ReplayTypeOK, Messages
  <1>6. Len(wire) \in Nat /\ Len(resolved) \in Nat BY <1>1, LenProperties DEF ReplayTypeOK
  <1>7. /\ 1 \in 1..Len(wire)
        /\ \A i \in 1..Len(wire') : i + 1 \in 1..Len(wire) /\ wire'[i] = wire[i + 1] /\ 1 < i + 1
        /\ \A i \in 1..Len(resolved') : \/ i \in 1..Len(resolved) /\ resolved'[i] = resolved[i]
                                        \/ i = Len(resolved) + 1 /\ resolved'[i] = wire[1].reply
    BY <1>3, <1>6
  <1>8. conn BY <1>2 DEF ReplayInv, Sane
  <1>9. Sane' BY <1>2, <1>3, <1>4, <1>8 DEF ReplayInv, Sane
  <1>10. Mine' BY <1>2, <1>3, <1>4 DEF ReplayInv, Mine
  <1>11. Line'
    <2>a. /\ \A i \in 1..Len(resolved), j \in 1..Len(wire) : IsReply(j) => Later(resolved[i], wire[j].reply)
          /\ \A i, j \in 1..Len(wire) :
               i < j /\ IsReply(i) /\ IsReply(j) => Later(wire[i].reply, wire[j].reply)
      BY DEF ReplayInv, Line
    <2>b. /\ \A i \in 1..Len(resolved), j \in 1..Len(unsent) : Later(resolved[i], unsent[j])
          /\ \A i \in 1..Len(wire), j \in 1..Len(unsent) : IsReply(i) => Later(wire[i].reply, unsent[j])
      BY DEF ReplayInv, Line
    <2>c. /\ \A i \in 1..Len(resolved), j \in 1..Len(requests) :
               IsAttach(j) => Orderly(resolved[i], requests[j])
          /\ \A i \in 1..Len(wire), j \in 1..Len(requests) :
               IsReply(i) /\ IsAttach(j) => Orderly(wire[i].reply, requests[j])
      BY DEF ReplayInv, Line
    <2>d. \A i, j \in 1..Len(wire') :
            i < j => i + 1 \in 1..Len(wire) /\ j + 1 \in 1..Len(wire) /\ i + 1 < j + 1
      BY <1>3, <1>6
    <2> USE <1>2, <1>7 DEF Later, Orderly, IsAttach, IsReply
    <2>1. \A i, j \in 1..Len(resolved') : i < j => Later(resolved[i], resolved[j])'
      BY <1>6 DEF ReplayInv, Line
    <2>2. \A i \in 1..Len(resolved'), j \in 1..Len(wire') :
            IsReply(j)' => Later(resolved[i], wire[j].reply)'
      <3> SUFFICES ASSUME NEW i \in 1..Len(resolved'), NEW j \in 1..Len(wire'), IsReply(j)'
                   PROVE  Later(resolved[i], wire[j].reply)'
        OBVIOUS
      <3>1. j + 1 \in 1..Len(wire) /\ 1 < j + 1 /\ wire'[j] = wire[j + 1] /\ wire[j + 1].kind = "reply"
        OBVIOUS
      <3>2. CASE i \in 1..Len(resolved) /\ resolved'[i] = resolved[i] BY <2>a, <3>1, <3>2
      <3>3. CASE resolved'[i] = wire[1].reply BY <2>a, <3>1, <3>3
      <3> QED BY <3>2, <3>3
    <2>3. \A i \in 1..Len(resolved'), j \in 1..Len(unsent) : Later(resolved[i], unsent[j])'
      BY <2>b
    <2>4. \A i \in 1..Len(resolved'), j \in 1..Len(requests) :
            IsAttach(j) => Orderly(resolved[i], requests[j])'
      BY <2>c
    <2>5. \A i, j \in 1..Len(wire') :
            i < j /\ IsReply(i)' /\ IsReply(j)' => Later(wire[i].reply, wire[j].reply)'
      <3> SUFFICES ASSUME NEW i \in 1..Len(wire'), NEW j \in 1..Len(wire'), i < j, IsReply(i)', IsReply(j)'
                   PROVE  Later(wire[i].reply, wire[j].reply)'
        OBVIOUS
      <3>1. i + 1 \in 1..Len(wire) /\ j + 1 \in 1..Len(wire) /\ i + 1 < j + 1 BY <2>d
      <3> QED BY <2>a, <3>1
    <2>6. \A i \in 1..Len(wire'), j \in 1..Len(unsent) :
            IsReply(i)' => Later(wire[i].reply, unsent[j])'
      BY <2>b
    <2>7. \A i \in 1..Len(wire'), j \in 1..Len(requests) :
            IsReply(i)' /\ IsAttach(j) => Orderly(wire[i].reply, requests[j])'
      BY <2>c
    <2> QED BY <2>1, <2>2, <2>3, <2>4, <2>5, <2>6, <2>7 DEF ReplayInv, Line
  <1>12. Waits' BY <1>2, <1>3, <1>4 DEF ReplayInv, Waits, OwnWaits, OwnWaitsShort
  <1>13. Pushes'
    <2> USE <1>2, <1>4, <1>7 DEF IsReply, IsEvent
    <2>1. \A i \in 1..Len(wire') : IsEvent(i)' => wire'[i].seq >= seen' /\ wire'[i].seq < total'
      BY DEF ReplayInv, Pushes
    <2>2. \A i \in 1..Len(resolved'), j \in 1..Len(wire') : IsEvent(j)' => resolved'[i].to <= wire'[j].seq
      BY DEF ReplayInv, Pushes
    <2>3. \A i, j \in 1..Len(wire') : i < j =>
            /\ IsEvent(i)' /\ IsEvent(j)' => wire'[i].seq < wire'[j].seq
            /\ IsReply(i)' /\ IsEvent(j)' => wire'[i].reply.to <= wire'[j].seq
      <3> SUFFICES ASSUME NEW i \in 1..Len(wire'), NEW j \in 1..Len(wire'), i < j
                   PROVE  /\ IsEvent(i)' /\ IsEvent(j)' => wire'[i].seq < wire'[j].seq
                          /\ IsReply(i)' /\ IsEvent(j)' => wire'[i].reply.to <= wire'[j].seq
        OBVIOUS
      <3>1. i + 1 \in 1..Len(wire) /\ j + 1 \in 1..Len(wire) /\ i + 1 < j + 1 BY <1>6
      <3> QED BY <3>1 DEF ReplayInv, Pushes
    <2> QED BY <2>1, <2>2, <2>3 DEF Pushes
  <1>14. \A n \in Nat : Covered(wire, n, total) => Covered(wire', n, total)
    <2>1. \A i \in 1..Len(wire) : wire[i].kind = "event" =>
            i - 1 \in 1..Len(wire') /\ wire'[i - 1] = wire[i]
      <3>1. wire[1].kind # "event" BY DEF IsReply
      <3> QED BY <1>3, <1>6, <3>1
    <2> QED BY <2>1 DEF Covered
  <1>15. Fed'
    <2>1. \A q \in Handled : Larger(seen, q.to) \in Nat
      BY <1>1, InFlightMembers DEF Larger, Reply, ReplayTypeOK
    <2>2. seen \in Nat BY <1>1 DEF ReplayTypeOK
    <2> QED BY <1>2, <1>3, <1>4, <1>14, <2>1, <2>2 DEF ReplayInv, Fed, Asked, OwnWaits, NoDetach, IsAttach
  <1>16. Unraced' BY <1>2, <1>3, <1>4 DEF ReplayInv, Unraced, UpTo, Enough
  <1> QED BY <1>5, <1>9, <1>10, <1>11, <1>12, <1>13, <1>15, <1>16 DEF ReplayInv

(* An event that comes while nothing is asked for is the next one. *)
LEMMA UnaskedEventIsNext ==
    ASSUME ReplayInv, Receive, IsEvent(1), panel.state = "ready", ~Asked
    PROVE  wire[1].seq = seen
  <1>1. ReplayTypeOK BY DEF ReplayInv
  <1>2. wire # <<>> BY DEF Receive
  <1>3. conn BY <1>2 DEF ReplayInv, Sane
  <1>4. ~OwnWaits
    <2>1. SUFFICES ASSUME OwnWaits PROVE FALSE OBVIOUS
    <2>2. Pending \cup Handled = {} BY <1>3, <2>1 DEF ReplayInv, Waits, Asked
    <2>3. resolved = <<>>
      <3>1. SUFFICES ASSUME resolved # <<>> PROVE FALSE OBVIOUS
      <3>2. Len(resolved) >= 1 /\ Len(resolved) \in Nat BY <1>1, <3>1, TailShape, LenProperties DEF ReplayTypeOK
      <3>3. resolved[1] \in Handled BY <1>1, <3>2, InFlightMembers
      <3> QED BY <2>2, <3>3
    <2>4. waiting # <<>>
      <3>1. PICK i \in 1..Len(waiting) : waiting[i].opened = opens BY <2>1 DEF OwnWaits
      <3> QED BY <3>1
    <2>5. Reattaching BY <1>3, <2>3, <2>4 DEF Receive, NextTask
    <2> QED BY <2>2, <2>5 DEF Reattaching
  <1>5. Covered(wire, seen, total) BY <1>3, <1>4 DEF ReplayInv, Fed
  <1>6. /\ Len(wire) \in Nat /\ Len(wire) >= 1 /\ wire[1].seq \in Nat /\ seen \in Nat /\ total \in Nat
    BY <1>1, LenProperties, ReceiveEffect DEF ReplayTypeOK
  <1>7. wire[1].seq >= seen /\ wire[1].seq < total BY <1>6 DEF ReplayInv, Pushes
  <1>8. PICK i \in 1..Len(wire) : wire[i].kind = "event" /\ wire[i].seq = seen
    BY <1>5, <1>6, <1>7 DEF Covered
  <1>9. i = 1 \/ wire[1].seq < seen BY <1>6, <1>8 DEF ReplayInv, Pushes, IsEvent
  <1> QED BY <1>6, <1>7, <1>8, <1>9

(* An event arrives. *)
LEMMA ReceiveEventStep ==
    ASSUME ReplayInv, Receive, IsEvent(1)
    PROVE  ReplayInv'
  <1> DEFINE e == wire[1].seq
  <1>1. ReplayTypeOK BY DEF ReplayInv
  <1>2. /\ UNCHANGED <<total, conn, subscribed, requests, unsent, earlier, waiting, connects, opens>>
        /\ wire # <<>>
    BY DEF Receive, counts
  <1>3. /\ Len(wire) >= 1 /\ Len(wire') = Len(wire) - 1
        /\ wire' \in Seq(Messages)
        /\ \A i \in 1..Len(wire') : wire'[i] = wire[i + 1]
        /\ Pending' = Pending /\ Handled' = Handled
        /\ e \in Nat /\ HandleEvent(e)
    BY <1>1, ReceiveEffect
  <1>4. /\ resolved' = resolved /\ cut' = cut
        /\ seen' = Larger(seen, e + 1)
        /\ raced' = (raced \/ panel.state = "loading" \/ Asked)
        /\ panel' \in Panels /\ panel'.state = panel.state /\ panel'.limit = panel.limit
        /\ panel'.lastSeq = IF panel.state = "closed" THEN panel.lastSeq
                            ELSE Larger(panel.lastSeq, e + 1)
        /\ shown' = IF panel.state = "ready" THEN Append(shown, e) ELSE shown
        /\ queue' = IF panel.state = "loading" THEN Append(queue, e) ELSE queue
    <2> HIDE DEF e
    <2>1. panel \in Panels BY <1>1 DEF ReplayTypeOK
    <2> QED BY <1>3, <2>1, EventEffect
  <1>5. /\ Len(wire) \in Nat /\ Len(shown) \in Nat /\ seen \in Nat /\ total \in Nat
        /\ panel.lastSeq \in Nat /\ panel \in Panels /\ REPLAY_LIMIT \in Nat
    BY <1>1, LenProperties, ReplayAssumption DEF ReplayTypeOK, Panels
  <1>6. e >= seen /\ e < total BY <1>3, <1>5 DEF ReplayInv, Pushes
  <1> HIDE DEF e
  <1>7. seen' = e + 1 BY <1>3, <1>4, <1>5, <1>6 DEF Larger
  <1>8. conn BY <1>2 DEF ReplayInv, Sane
  <1>9. ReplayTypeOK'
    <2>1. shown' \in Seq(Nat) /\ queue' \in Seq(Nat)
      BY <1>1, <1>3, <1>4, AppendProperties DEF ReplayTypeOK
    <2>2. seen' \in Nat BY <1>3, <1>7
    <2>3. raced' \in BOOLEAN BY <1>4, Zenon
    <2> QED BY <1>1, <1>2, <1>3, <1>4, <2>1, <2>2, <2>3 DEF ReplayTypeOK, Messages
  <1>10. /\ 1 \in 1..Len(wire)
         /\ \A i \in 1..Len(wire') : i + 1 \in 1..Len(wire) /\ wire'[i] = wire[i + 1] /\ 1 < i + 1
    BY <1>3, <1>5
  <1>11. Sane'
    <2>1. seen' <= total /\ panel'.lastSeq <= seen'
      BY <1>3, <1>4, <1>5, <1>6, <1>7 DEF ReplayInv, Sane, Larger
    <2> QED BY <1>2, <1>3, <1>4, <1>8, <2>1 DEF ReplayInv, Sane
  <1>12. Mine' BY <1>2, <1>3, <1>4 DEF ReplayInv, Mine
  <1>13. Line'
    <2>a. /\ \A i \in 1..Len(resolved), j \in 1..Len(wire) : IsReply(j) => Later(resolved[i], wire[j].reply)
          /\ \A i, j \in 1..Len(wire) :
               i < j /\ IsReply(i) /\ IsReply(j) => Later(wire[i].reply, wire[j].reply)
      BY DEF ReplayInv, Line
    <2>b. /\ \A i \in 1..Len(wire), j \in 1..Len(unsent) : IsReply(i) => Later(wire[i].reply, unsent[j])
          /\ \A i \in 1..Len(wire), j \in 1..Len(requests) :
               IsReply(i) /\ IsAttach(j) => Orderly(wire[i].reply, requests[j])
      BY DEF ReplayInv, Line
    <2>c. \A i, j \in 1..Len(wire') :
            i < j => i + 1 \in 1..Len(wire) /\ j + 1 \in 1..Len(wire) /\ i + 1 < j + 1
      BY <1>3, <1>5
    <2> USE <1>2, <1>4, <1>10 DEF Later, Orderly, IsAttach, IsReply
    <2>1. \A i \in 1..Len(resolved), j \in 1..Len(wire') :
            IsReply(j)' => Later(resolved[i], wire[j].reply)'
      BY <2>a
    <2>2. \A i, j \in 1..Len(wire') :
            i < j /\ IsReply(i)' /\ IsReply(j)' => Later(wire[i].reply, wire[j].reply)'
      <3> SUFFICES ASSUME NEW i \in 1..Len(wire'), NEW j \in 1..Len(wire'), i < j, IsReply(i)', IsReply(j)'
                   PROVE  Later(wire[i].reply, wire[j].reply)'
        OBVIOUS
      <3>1. i + 1 \in 1..Len(wire) /\ j + 1 \in 1..Len(wire) /\ i + 1 < j + 1 BY <2>c
      <3>2. /\ wire'[i] = wire[i + 1] /\ wire[i + 1].kind = "reply"
            /\ wire'[j] = wire[j + 1] /\ wire[j + 1].kind = "reply"
        OBVIOUS
      <3>3. Later(wire[i + 1].reply, wire[j + 1].reply) BY <2>a, <3>1, <3>2
      <3> QED BY <3>2, <3>3
    <2>3. \A i \in 1..Len(wire'), j \in 1..Len(unsent) :
            IsReply(i)' => Later(wire[i].reply, unsent[j])'
      <3> SUFFICES ASSUME NEW i \in 1..Len(wire'), NEW j \in 1..Len(unsent), IsReply(i)'
                   PROVE  Later(wire[i].reply, unsent[j])'
        OBVIOUS
      <3>1. i + 1 \in 1..Len(wire) /\ wire'[i] = wire[i + 1] /\ wire[i + 1].kind = "reply" OBVIOUS
      <3>2. Later(wire[i + 1].reply, unsent[j]) BY <2>b, <3>1
      <3> QED BY <3>1, <3>2
    <2>4. \A i \in 1..Len(wire'), j \in 1..Len(requests) :
            IsReply(i)' /\ IsAttach(j) => Orderly(wire[i].reply, requests[j])'
      BY <2>b
    <2> QED BY <2>1, <2>2, <2>3, <2>4 DEF ReplayInv, Line
  <1>14. Waits' BY <1>2, <1>3, <1>4 DEF ReplayInv, Waits, OwnWaits, OwnWaitsShort
  <1>15. Pushes'
    <2>a. \A i, j \in 1..Len(wire') :
            i < j => i + 1 \in 1..Len(wire) /\ j + 1 \in 1..Len(wire) /\ i + 1 < j + 1
      BY <1>3, <1>5
    <2> USE <1>2, <1>4, <1>10 DEF IsReply, IsEvent
    <2>1. \A i \in 1..Len(wire') : IsEvent(i)' => wire'[i].seq >= seen' /\ wire'[i].seq < total'
      <3> SUFFICES ASSUME NEW i \in 1..Len(wire'), IsEvent(i)'
                   PROVE  wire'[i].seq >= seen' /\ wire'[i].seq < total'
        OBVIOUS
      <3>1. wire[i + 1].kind = "event" /\ i + 1 \in 1..Len(wire) OBVIOUS
      <3>2. wire[i + 1].seq \in Nat BY <1>1, <3>1, InFlightMembers
      <3>3. e < wire[i + 1].seq /\ wire[i + 1].seq < total BY <3>1 DEF ReplayInv, Pushes, e
      <3> QED BY <1>3, <1>7, <3>2, <3>3
    <2>2. \A i \in 1..Len(resolved), j \in 1..Len(wire') : IsEvent(j)' => resolved[i].to <= wire'[j].seq
      BY DEF ReplayInv, Pushes
    <2>3. \A i, j \in 1..Len(wire') : i < j =>
            /\ IsEvent(i)' /\ IsEvent(j)' => wire'[i].seq < wire'[j].seq
            /\ IsReply(i)' /\ IsEvent(j)' => wire'[i].reply.to <= wire'[j].seq
      <3> SUFFICES ASSUME NEW i \in 1..Len(wire'), NEW j \in 1..Len(wire'), i < j
                   PROVE  /\ IsEvent(i)' /\ IsEvent(j)' => wire'[i].seq < wire'[j].seq
                          /\ IsReply(i)' /\ IsEvent(j)' => wire'[i].reply.to <= wire'[j].seq
        OBVIOUS
      <3>1. i + 1 \in 1..Len(wire) /\ j + 1 \in 1..Len(wire) /\ i + 1 < j + 1 BY <2>a
      <3> QED BY <3>1 DEF ReplayInv, Pushes
    <2> QED BY <2>1, <2>2, <2>3 DEF Pushes
  <1>16. \A n, m \in Nat : Covered(wire, n, total) /\ m >= n /\ m > e => Covered(wire', m, total)
    <2> SUFFICES ASSUME NEW n \in Nat, NEW m \in Nat, Covered(wire, n, total), m >= n, m > e,
                        NEW s \in m..(total - 1)
                 PROVE  \E i \in 1..Len(wire') : wire'[i].kind = "event" /\ wire'[i].seq = s
      BY DEF Covered
    <2>1. s \in n..(total - 1) /\ s # e BY <1>3, <1>5
    <2>2. PICK i \in 1..Len(wire) : wire[i].kind = "event" /\ wire[i].seq = s BY <2>1 DEF Covered
    <2>3. i # 1 BY <2>1, <2>2 DEF e
    <2>4. i - 1 \in 1..Len(wire') /\ wire'[i - 1] = wire[i] BY <1>3, <1>5, <2>3
    <2> QED BY <2>2, <2>4
  <1>17. Fed'
    <2>1. ASSUME NEW q \in Handled, Covered(wire, Larger(seen, q.to), total)
          PROVE  Covered(wire', Larger(seen', q.to), total)
      <3>1. q.to \in Nat BY <1>1, InFlightMembers DEF Reply
      <3>2. /\ Larger(seen, q.to) \in Nat /\ Larger(seen', q.to) \in Nat
            /\ Larger(seen', q.to) >= Larger(seen, q.to) /\ Larger(seen', q.to) > e
        BY <1>3, <1>5, <1>6, <1>7, <3>1 DEF Larger
      <3> QED BY <1>16, <2>1, <3>2
    <2>2. Covered(wire, seen, total) => Covered(wire', seen', total)
      BY <1>3, <1>5, <1>6, <1>7, <1>16
    <2> QED BY <1>2, <1>3, <1>4, <2>1, <2>2 DEF ReplayInv, Fed, Asked, OwnWaits, NoDetach, IsAttach
  <1>18. Unraced'
    <2>1. SUFFICES ASSUME panel.state = "ready", ~raced, ~Asked PROVE Unraced'
      BY <1>4 DEF Unraced
    <2>2. e = seen BY <2>1, UnaskedEventIsNext DEF e
    <2>3. panel'.lastSeq = seen' BY <1>4, <1>5, <1>7, <2>1, <2>2 DEF ReplayInv, Unraced, Larger
    <2>4. ~cut => UpTo(seen)' /\ Enough(seen)'
      <3>1. SUFFICES ASSUME ~cut PROVE UpTo(seen)' /\ Enough(seen)' OBVIOUS
      <3>2. UpTo(seen) /\ Enough(seen) BY <2>1, <3>1 DEF ReplayInv, Unraced
      <3>3. shown \in Seq(Nat) /\ shown' = Append(shown, seen) BY <1>1, <1>4, <2>1, <2>2 DEF ReplayTypeOK
      <3>4. /\ Len(shown') = Len(shown) + 1 /\ shown'[Len(shown) + 1] = seen
            /\ \A i \in 1..Len(shown) : shown'[i] = shown[i]
        BY <1>5, <3>3, AppendShape
      <3>5. UpTo(seen)' BY <1>5, <1>7, <2>2, <3>2, <3>4 DEF UpTo
      <3>6. Enough(seen)' BY <1>5, <1>7, <2>2, <3>2, <3>4 DEF Enough
      <3> QED BY <3>5, <3>6
    <2>5. \A a \in Pending \cup Handled : a.opened # opens BY <2>1 DEF Asked
    <2> QED BY <1>2, <1>3, <1>4, <2>3, <2>4, <2>5 DEF Unraced
  <1> QED BY <1>9, <1>11, <1>12, <1>13, <1>14, <1>15, <1>17, <1>18 DEF ReplayInv

(* attach() goes on: what that does to the panel. *)
LEMMA ReturnEffect ==
    ASSUME ReplayTypeOK, AttachReturns
    PROVE  LET r == resolved[1]
               mine == r.opened = opens /\ panel.state # "closed"
           IN  /\ ~mine => UNCHANGED <<panel, shown, earlier, seen, raced, cut>>
               /\ mine => /\ panel' \in Panels /\ panel'.state = panel.state /\ panel'.limit = panel.limit
                          /\ panel'.lastSeq = IF r.to > r.from THEN r.to ELSE panel.lastSeq
                          /\ r.full => shown' = Numbers(r.from, r.to)
                          /\ ~r.full => shown' = shown \o Numbers(r.from, r.to)
                          /\ earlier' \in {"none", "offered", "loading"}
                          /\ cut' = (~r.full /\ (cut \/ r.hasEarlier))
                          /\ raced' = (raced /\ ~(r.full /\ r.to >= seen))
                          /\ seen' = Larger(seen, r.to)
               /\ UNCHANGED <<total, conn, subscribed, requests, unsent, wire, queue, waiting,
                              connects, opens>>
               /\ Numbers(r.from, r.to) \in Seq(Nat)
  <1> DEFINE r == resolved[1]
             mine == r.opened = opens /\ panel.state # "closed"
             n == IF r.to > r.from THEN r.to ELSE panel.lastSeq
             p == [panel EXCEPT !.lastSeq = n]
  <1>1. Head(resolved) = r /\ r \in Reply BY AttachReturnsEffect
  <1>2. panel \in Panels /\ panel.lastSeq \in Nat BY DEF ReplayTypeOK, Panels
  <1>3. r.to \in Nat /\ r.from \in Nat BY <1>1 DEF Reply
  <1>4. n \in Nat BY <1>2, <1>3
  <1> HIDE DEF n, r
  <1>5. p \in Panels /\ p.state = panel.state /\ p.limit = panel.limit /\ p.lastSeq = n
    BY <1>2, <1>4 DEF Panels
  <1>6. /\ ~mine => UNCHANGED <<panel, shown, earlier, history>>
        /\ UNCHANGED <<total, conn, subscribed, requests, unsent, wire, queue, waiting, counts>>
    BY <1>1, Zenon DEF AttachReturns
  <1>7. ASSUME mine
        PROVE  /\ panel' = p
               /\ shown' = (IF r.full THEN << >> ELSE shown) \o Numbers(r.from, r.to)
               /\ earlier' = IF r.hasEarlier /\ (r.full \/ earlier = "none") THEN "offered"
                             ELSE IF r.full THEN "none" ELSE earlier
               /\ cut' = (~r.full /\ (cut \/ r.hasEarlier))
               /\ raced' = (raced /\ ~(r.full /\ r.to >= seen))
               /\ seen' = Larger(seen, r.to)
    BY <1>1, <1>7, Zenon DEF AttachReturns, n
  <1> HIDE DEF p, mine
  <1>8. mine => earlier' \in {"none", "offered", "loading"} BY <1>7 DEF ReplayTypeOK
  <1>9. Numbers(r.from, r.to) \in Seq(Nat)
    <2> DEFINE k == r.to - r.from
    <2>1. CASE k <= 0
      <3>1. 1..k = {} BY <1>3, <2>1
      <3>2. Numbers(r.from, r.to) = [i \in 1..0 |-> r.from + i - 1] BY <1>3, <3>1 DEF Numbers
      <3>3. \A i \in 1..0 : r.from + i - 1 \in Nat BY <1>3
      <3> QED BY <3>2, <3>3, IsASeq
    <2>2. CASE k > 0
      <3>1. k \in Nat BY <1>3, <2>2
      <3>2. \A i \in 1..k : r.from + i - 1 \in Nat BY <1>3, <3>1
      <3>3. Numbers(r.from, r.to) = [i \in 1..k |-> r.from + i - 1] BY DEF Numbers
      <3> QED BY <3>1, <3>2, <3>3, IsASeq
    <2> QED BY <1>3, <2>1, <2>2
  <1>10. mine /\ r.full => shown' = Numbers(r.from, r.to)
    BY <1>7, <1>9, ConcatEmptySeq
  <1>11. mine /\ ~r.full => shown' = shown \o Numbers(r.from, r.to) BY <1>7
  <1>12. mine => /\ panel' \in Panels /\ panel'.state = panel.state /\ panel'.limit = panel.limit
                 /\ panel'.lastSeq = n
    BY <1>5, <1>7
  <1> QED BY <1>6, <1>7, <1>8, <1>9, <1>10, <1>11, <1>12 DEF mine, r, n, counts, history

(* Whatever is in flight behind the reply that attach() goes on with. *)
LEMMA FirstIsAhead ==
    ASSUME ReplayInv, AttachReturns
    PROVE  /\ \A a \in Pending' : Orderly(resolved[1], a)
           /\ \A q \in Handled' : Later(resolved[1], q)
           /\ Line'
  <1>1. ReplayTypeOK BY DEF ReplayInv
  <1>2. /\ Len(resolved) >= 1 /\ Len(resolved') = Len(resolved) - 1
        /\ \A i \in 1..Len(resolved') : resolved'[i] = resolved[i + 1]
    BY <1>1, AttachReturnsEffect
  <1>3. Len(resolved) \in Nat BY <1>1, LenProperties DEF ReplayTypeOK
  <1>4. /\ 1 \in 1..Len(resolved)
        /\ \A i \in 1..Len(resolved') :
             i + 1 \in 1..Len(resolved) /\ resolved'[i] = resolved[i + 1] /\ 1 < i + 1
    BY <1>2, <1>3
  <1>5. UNCHANGED <<requests, unsent, wire, opens>> BY DEF AttachReturns, counts
  <1>6. \A a \in Pending' : Orderly(resolved[1], a)
    <2> SUFFICES ASSUME NEW a \in Pending' PROVE Orderly(resolved[1], a) OBVIOUS
    <2>1. PICK i \in 1..Len(requests) : requests[i].op = "attach" /\ a = requests[i]
      BY <1>5 DEF Pending
    <2> QED BY <1>4, <2>1 DEF ReplayInv, Line, IsAttach
  <1>7. \A q \in Handled' : Later(resolved[1], q)
    <2> SUFFICES ASSUME NEW q \in Handled' PROVE Later(resolved[1], q) OBVIOUS
    <2>1. \/ \E i \in 1..Len(unsent) : q = unsent[i]
          \/ \E i \in 1..Len(resolved') : q = resolved'[i]
          \/ \E i \in 1..Len(wire) : wire[i].kind = "reply" /\ q = wire[i].reply
      BY <1>5 DEF Handled
    <2>2. CASE \E i \in 1..Len(unsent) : q = unsent[i] BY <1>4, <2>2 DEF ReplayInv, Line
    <2>3. CASE \E i \in 1..Len(resolved') : q = resolved'[i] BY <1>4, <2>3 DEF ReplayInv, Line
    <2>4. CASE \E i \in 1..Len(wire) : wire[i].kind = "reply" /\ q = wire[i].reply
      BY <1>4, <2>4 DEF ReplayInv, Line, IsReply
    <2> QED BY <2>1, <2>2, <2>3, <2>4
  <1>8. Line'
    <2> USE <1>4, <1>5 DEF Later, Orderly, IsAttach, IsReply
    <2>1. \A i, j \in 1..Len(resolved') : i < j => Later(resolved[i], resolved[j])'
      <3> SUFFICES ASSUME NEW i \in 1..Len(resolved'), NEW j \in 1..Len(resolved'), i < j
                   PROVE  Later(resolved[i], resolved[j])'
        OBVIOUS
      <3>1. i + 1 \in 1..Len(resolved) /\ j + 1 \in 1..Len(resolved) /\ i + 1 < j + 1 BY <1>3
      <3> QED BY <3>1 DEF ReplayInv, Line
    <2>2. \A i \in 1..Len(resolved'), j \in 1..Len(wire) :
            IsReply(j) => Later(resolved[i], wire[j].reply)'
      BY DEF ReplayInv, Line
    <2>3. \A i \in 1..Len(resolved'), j \in 1..Len(unsent) : Later(resolved[i], unsent[j])'
      BY DEF ReplayInv, Line
    <2>4. \A i \in 1..Len(resolved'), j \in 1..Len(requests) :
            IsAttach(j) => Orderly(resolved[i], requests[j])'
      BY DEF ReplayInv, Line
    <2> QED BY <2>1, <2>2, <2>3, <2>4 DEF ReplayInv, Line
  <1> QED BY <1>6, <1>7, <1>8 DEF ReplayInv

(* A replay that is not out of date leaves a panel that knows what it has. *)
LEMMA ReturnUnraced ==
    ASSUME ReplayInv, AttachReturns, resolved[1].opened = opens, panel.state = "ready", ~raced'
    PROVE  /\ resolved[1].to >= seen /\ seen' = resolved[1].to
           /\ panel'.lastSeq = seen'
           /\ ~cut' => UpTo(seen)' /\ Enough(seen)'
  <1> DEFINE r == resolved[1]
  <1>1. ReplayTypeOK BY DEF ReplayInv
  <1>2. /\ panel'.lastSeq = IF r.to > r.from THEN r.to ELSE panel.lastSeq
        /\ r.full => shown' = Numbers(r.from, r.to)
        /\ ~r.full => shown' = shown \o Numbers(r.from, r.to)
        /\ cut' = (~r.full /\ (cut \/ r.hasEarlier))
        /\ raced' = (raced /\ ~(r.full /\ r.to >= seen))
        /\ seen' = Larger(seen, r.to)
        /\ Numbers(r.from, r.to) \in Seq(Nat)
    BY <1>1, ReturnEffect
  <1>3. r \in Reply /\ r \in Handled BY <1>1, AttachReturnsEffect
  <1>4. /\ r.to \in Nat /\ r.from \in Nat /\ seen \in Nat /\ panel.lastSeq \in Nat
        /\ r.full \in BOOLEAN /\ r.hasEarlier \in BOOLEAN
        /\ shown \in Seq(Nat) /\ REPLAY_LIMIT \in Nat /\ {raced, cut} \subseteq BOOLEAN
    BY <1>1, <1>3, ReplayAssumption DEF Reply, ReplayTypeOK, Panels
  <1>5. /\ r.from <= r.to
        /\ r.hasEarlier => r.from < r.to
        /\ r.full => /\ r.to > 0 => r.from < r.to
                     /\ r.to - r.from >= r.to \/ r.to - r.from >= REPLAY_LIMIT
        /\ panel.lastSeq <= seen
    BY <1>3 DEF ReplayInv, Sane
  <1>6. ~raced => /\ panel.lastSeq = seen /\ r.to >= seen
                  /\ ~r.full /\ ~r.hasEarlier => r.from = seen
                  /\ ~cut => UpTo(seen) /\ Enough(seen)
    BY <1>3 DEF ReplayInv, Unraced
  <1> HIDE DEF r
  <1>7. ~raced \/ (r.full /\ r.to >= seen) BY <1>2, <1>4
  <1>8. r.to >= seen BY <1>6, <1>7
  <1>9. seen' = r.to BY <1>2, <1>4, <1>8 DEF Larger
  <1>10. panel'.lastSeq = r.to
    <2>1. CASE r.full
      <3>1. CASE r.to > 0 BY <1>2, <1>4, <1>5, <2>1, <3>1
      <3>2. CASE r.to = 0 BY <1>2, <1>4, <1>5, <1>8, <3>2
      <3> QED BY <1>4, <3>1, <3>2
    <2>2. CASE ~r.full /\ r.hasEarlier BY <1>2, <1>4, <1>5, <2>2
    <2>3. CASE ~r.full /\ ~r.hasEarlier BY <1>2, <1>4, <1>5, <1>6, <1>7, <2>3
    <2> QED BY <2>1, <2>2, <2>3
  <1>11. /\ Len(Numbers(r.from, r.to)) = r.to - r.from
         /\ \A i \in 1..(r.to - r.from) : Numbers(r.from, r.to)[i] = r.from + i - 1
    <2>1. r.to - r.from \in Nat BY <1>4, <1>5
    <2>2. DOMAIN Numbers(r.from, r.to) = 1..(r.to - r.from) BY DEF Numbers
    <2>3. Len(Numbers(r.from, r.to)) = r.to - r.from BY <1>2, <2>1, <2>2, LenProperties
    <2> QED BY <2>3 DEF Numbers
  <1>12. ASSUME ~cut' PROVE UpTo(seen)' /\ Enough(seen)'
    <2>1. CASE r.full
      <3>1. Len(shown') = r.to - r.from /\ \A i \in 1..Len(shown') : shown'[i] = r.from + i - 1
        BY <1>2, <1>11, <2>1
      <3>2. UpTo(seen)' BY <1>4, <1>5, <1>9, <3>1 DEF UpTo
      <3>3. Enough(seen)' BY <1>4, <1>5, <1>9, <2>1, <3>1 DEF Enough
      <3> QED BY <3>2, <3>3
    <2>2. CASE ~r.full
      <3>1. ~cut /\ ~r.hasEarlier /\ ~raced BY <1>2, <1>7, <1>12, <2>2
      <3>2. r.from = seen /\ UpTo(seen) /\ Enough(seen) BY <1>6, <2>2, <3>1
      <3> DEFINE new == Numbers(r.from, r.to)
      <3>3. shown' = shown \o new /\ new \in Seq(Nat) BY <1>2, <2>2
      <3>4. /\ Len(shown') = Len(shown) + Len(new)
            /\ Len(shown) \in Nat /\ Len(new) \in Nat
            /\ \A i \in 1..(Len(shown) + Len(new)) :
                 shown'[i] = IF i <= Len(shown) THEN shown[i] ELSE new[i - Len(shown)]
        BY <1>4, <3>3, ConcatProperties, LenProperties
      <3>5. Len(new) = r.to - seen /\ \A i \in 1..Len(new) : new[i] = seen + i - 1
        BY <1>11, <3>2
      <3> HIDE DEF new
      <3>6. seen' - Len(shown') = seen - Len(shown) BY <1>4, <1>9, <3>4, <3>5
      <3>7. ASSUME NEW i \in 1..Len(shown') PROVE shown'[i] = seen - Len(shown) + i - 1
        <4>1. CASE i <= Len(shown)
          <5>1. i \in 1..Len(shown) /\ i \in 1..(Len(shown) + Len(new)) BY <3>4, <3>7, <4>1
          <5>2. shown'[i] = shown[i] BY <3>4, <4>1, <5>1
          <5>3. shown[i] = seen - Len(shown) + i - 1 BY <3>2, <5>1 DEF UpTo
          <5> QED BY <5>2, <5>3
        <4>2. CASE i > Len(shown)
          <5>1. i - Len(shown) \in 1..Len(new) BY <3>4, <3>7, <4>2
          <5>2. i \in 1..(Len(shown) + Len(new)) /\ ~(i <= Len(shown)) BY <3>4, <3>7, <4>2
          <5>3. shown'[i] = new[i - Len(shown)] BY <3>4, <5>2
          <5>4. new[i - Len(shown)] = seen + (i - Len(shown)) - 1 BY <3>5, <5>1
          <5> QED BY <1>4, <3>4, <5>3, <5>4
        <4> QED BY <3>4, <4>1, <4>2
      <3>8. UpTo(seen)' BY <3>7, <3>6 DEF UpTo
      <3>9. Enough(seen)' BY <1>4, <1>9, <3>2, <3>4, <3>5 DEF Enough
      <3> QED BY <3>8, <3>9
    <2> QED BY <2>1, <2>2
  <1> QED BY <1>8, <1>9, <1>10, <1>12 DEF r

(* A reply for the open tab. *)
LEMMA OwnReturnStep ==
    ASSUME ReplayInv, AttachReturns, resolved[1].opened = opens, panel.state # "closed"
    PROVE  ReplayInv'
  <1> DEFINE r == resolved[1]
  <1>1. ReplayTypeOK BY DEF ReplayInv
  <1>2. /\ r \in Reply /\ r \in Handled /\ resolved' \in Seq(Reply)
        /\ Len(resolved) >= 1 /\ Len(resolved') = Len(resolved) - 1
        /\ \A i \in 1..Len(resolved') : resolved'[i] = resolved[i + 1]
        /\ Pending' = Pending /\ Handled' \subseteq Handled
    BY <1>1, AttachReturnsEffect
  <1>3. /\ panel' \in Panels /\ panel'.state = panel.state /\ panel'.limit = panel.limit
        /\ panel'.lastSeq = IF r.to > r.from THEN r.to ELSE panel.lastSeq
        /\ r.full => shown' = Numbers(r.from, r.to)
        /\ ~r.full => shown' = shown \o Numbers(r.from, r.to)
        /\ earlier' \in {"none", "offered", "loading"}
        /\ cut' = (~r.full /\ (cut \/ r.hasEarlier))
        /\ raced' = (raced /\ ~(r.full /\ r.to >= seen))
        /\ seen' = Larger(seen, r.to)
        /\ UNCHANGED <<total, conn, subscribed, requests, unsent, wire, queue, waiting, connects, opens>>
        /\ Numbers(r.from, r.to) \in Seq(Nat)
    BY <1>1, ReturnEffect
  <1>4. r.to \in Nat /\ seen \in Nat /\ total \in Nat /\ panel.lastSeq \in Nat
    BY <1>1, <1>2 DEF Reply, ReplayTypeOK, Panels
  <1>5. panel.state = "ready"
    <2>1. panel.state # "loading" \/ r.opened < opens BY <1>2 DEF ReplayInv, Mine
    <2>2. opens \in Nat BY <1>1 DEF ReplayTypeOK
    <2> QED BY <1>1, <2>1, <2>2 DEF ReplayTypeOK, Panels
  <1>6. /\ \A a \in Pending' : Orderly(r, a)
        /\ \A q \in Handled' : Later(r, q)
        /\ Line'
    BY FirstIsAhead
  <1>7. conn BY DEF AttachReturns, ReplayInv, Sane
  <1>8. r.to <= total /\ seen <= total /\ panel.lastSeq <= seen BY <1>2 DEF ReplayInv, Sane
  <1> HIDE DEF r
  <1>9. seen' >= seen /\ seen' >= r.to /\ seen' <= total /\ seen' \in Nat
    BY <1>3, <1>4, <1>8 DEF Larger
  <1>10. ReplayTypeOK'
    <2>1. shown \in Seq(Nat) BY <1>1 DEF ReplayTypeOK
    <2>2. shown' \in Seq(Nat) BY <1>3, <2>1, ConcatProperties
    <2>3. raced' \in BOOLEAN /\ cut' \in BOOLEAN BY <1>3, Zenon
    <2> QED BY <1>1, <1>2, <1>3, <1>9, <2>2, <2>3 DEF ReplayTypeOK
  <1>11. Sane'
    <2>1. panel'.lastSeq <= seen' BY <1>3, <1>4, <1>8, <1>9
    <2> QED BY <1>2, <1>3, <1>7, <1>9, <2>1 DEF ReplayInv, Sane
  <1>12. Mine' BY <1>2, <1>3, <1>5 DEF ReplayInv, Mine
  <1>13. Waits'
    <2>1. OwnWaits' = OwnWaits /\ OwnWaitsShort' = OwnWaitsShort
      BY <1>3 DEF OwnWaits, OwnWaitsShort
    <2>2. ASSUME OwnWaitsShort PROVE Pending' \cup Handled' = {}
      <3>1. \A a \in Pending' \cup Handled' : a.again
        BY <1>2, <1>5, <1>7, <2>2 DEF ReplayInv, Waits
      <3>2. \A a \in Pending' \cup Handled' : ~a.again BY <1>6 DEF Later, Orderly
      <3> QED BY <3>1, <3>2
    <2>3. OwnWaits => \A a \in Pending' \cup Handled' : a.opened = opens
      BY <1>2, <1>5, <1>7 DEF ReplayInv, Waits
    <2> QED BY <1>3, <1>7, <2>1, <2>2, <2>3 DEF ReplayInv, Waits
  <1>14. Pushes'
    <2>1. Len(resolved) \in Nat BY <1>1, LenProperties DEF ReplayTypeOK
    <2>2. /\ 1 \in 1..Len(resolved)
          /\ \A i \in 1..Len(resolved') : i + 1 \in 1..Len(resolved) /\ resolved'[i] = resolved[i + 1]
      BY <1>2, <2>1
    <2>3. ASSUME NEW j \in 1..Len(wire), IsEvent(j) PROVE wire[j].seq >= seen'
      <3>1. wire[j].seq >= seen /\ r.to <= wire[j].seq /\ wire[j].seq \in Nat
        BY <1>1, <2>2, <2>3, InFlightMembers DEF ReplayInv, Pushes, r
      <3> QED BY <1>3, <1>4, <3>1 DEF Larger
    <2> QED BY <1>3, <2>2, <2>3 DEF ReplayInv, Pushes, IsEvent, IsReply
  <1>15. \A n, m \in Nat : Covered(wire, n, total) /\ m >= n => Covered(wire, m, total)
    BY <1>4 DEF Covered
  <1>16. Fed'
    <2>1. subscribed /\ NoDetach /\ Covered(wire, seen', total)
      BY <1>2, <1>3, <1>5, <1>7 DEF ReplayInv, Fed, r
    <2>2. ASSUME NEW q \in Handled', q.opened = opens
          PROVE  Covered(wire, Larger(seen', q.to), total)
      <3>1. q \in Handled /\ q.to \in Nat BY <1>1, <1>2, InFlightMembers DEF Reply
      <3>2. Larger(seen', q.to) \in Nat /\ Larger(seen', q.to) >= seen'
        BY <1>9, <3>1 DEF Larger
      <3> QED BY <1>9, <1>15, <2>1, <3>2
    <2>3. NoDetach' = NoDetach BY <1>3 DEF NoDetach, IsAttach
    <2> QED BY <1>3, <1>5, <1>7, <2>1, <2>2, <2>3 DEF ReplayInv, Fed, IsAttach
  <1>17. Unraced'
    <2>1. SUFFICES ASSUME ~raced' PROVE Unraced' BY DEF Unraced
    <2>2. /\ r.to >= seen /\ seen' = r.to
          /\ panel'.lastSeq = seen'
          /\ ~cut' => UpTo(seen)' /\ Enough(seen)'
      BY <1>5, <2>1, ReturnUnraced DEF r
    <2>3. \A a \in Pending' : a.opened = opens => a.full BY <1>6 DEF Orderly, r
    <2>4. \A q \in Handled' : q.opened = opens => q.full /\ q.to >= seen'
      <3>1. \A q \in Handled' : q.to \in Nat BY <1>1, <1>2, InFlightMembers DEF Reply
      <3> QED BY <1>4, <1>6, <2>2, <3>1 DEF Later, Orderly, r
    <2> QED BY <1>3, <2>2, <2>3, <2>4 DEF Unraced
  <1> QED BY <1>6, <1>10, <1>11, <1>12, <1>13, <1>14, <1>16, <1>17 DEF ReplayInv

(* A reply for a tab that was closed. *)
LEMMA StaleReturnStep ==
    ASSUME ReplayInv, AttachReturns, ~(resolved[1].opened = opens /\ panel.state # "closed")
    PROVE  ReplayInv'
  <1>1. ReplayTypeOK BY DEF ReplayInv
  <1>2. /\ resolved' \in Seq(Reply)
        /\ Len(resolved) >= 1 /\ Len(resolved') = Len(resolved) - 1
        /\ \A i \in 1..Len(resolved') : resolved'[i] = resolved[i + 1]
        /\ Pending' = Pending /\ Handled' \subseteq Handled
        /\ Handled \subseteq Handled' \cup {resolved[1]}
    BY <1>1, AttachReturnsEffect
  <1>3. UNCHANGED <<panel, shown, earlier, seen, raced, cut, total, conn, subscribed, requests, unsent,
                    wire, queue, waiting, connects, opens>>
    BY <1>1, ReturnEffect
  <1>4. Line' BY FirstIsAhead
  <1>5. conn BY DEF AttachReturns, ReplayInv, Sane
  <1>6. ReplayTypeOK' BY <1>1, <1>2, <1>3 DEF ReplayTypeOK
  <1>7. Sane' BY <1>2, <1>3, <1>5 DEF ReplayInv, Sane
  <1>8. Mine' BY <1>2, <1>3 DEF ReplayInv, Mine
  <1>9. Waits' BY <1>2, <1>3 DEF ReplayInv, Waits, OwnWaits, OwnWaitsShort
  <1>10. Pushes'
    <2>1. Len(resolved) \in Nat BY <1>1, LenProperties DEF ReplayTypeOK
    <2>2. \A i \in 1..Len(resolved') : i + 1 \in 1..Len(resolved) /\ resolved'[i] = resolved[i + 1]
      BY <1>2, <2>1
    <2> QED BY <1>3, <2>2 DEF ReplayInv, Pushes, IsEvent, IsReply
  <1>11. Fed'
    <2>1. panel.state = "ready" => Asked' = Asked BY <1>2, <1>3 DEF Asked
    <2> QED BY <1>2, <1>3, <2>1 DEF ReplayInv, Fed, OwnWaits, NoDetach, IsAttach
  <1>12. Unraced' BY <1>2, <1>3 DEF ReplayInv, Unraced, UpTo, Enough
  <1> QED BY <1>4, <1>6, <1>7, <1>8, <1>9, <1>10, <1>11, <1>12 DEF ReplayInv

(* What the attach() of a panel asks for. *)
LEMMA AttachRequestShape ==
    ASSUME NEW full \in BOOLEAN, NEW again \in BOOLEAN, NEW p \in Panels, opens \in Nat
    PROVE  LET a == AttachRequest(full, p, again) IN
           /\ a \in AttachRequests /\ a.op = "attach"
           /\ a.opened = opens /\ (a.again <=> again) /\ a.limit = p.limit
           /\ a.full <=> full \/ p.lastSeq = 0
           /\ a.since = IF a.full THEN 0 ELSE p.lastSeq
           /\ a.full <=> a.since = 0
  <1> DEFINE a == AttachRequest(full, p, again)
  <1>1. a \in AttachRequests BY AttachRequestType
  <1>2. /\ a.op = "attach" /\ a.opened = opens /\ (a.again <=> again) /\ a.limit = p.limit
        /\ a.full <=> full \/ p.lastSeq = 0
        /\ a.since = IF full \/ p.lastSeq = 0 THEN 0 ELSE p.lastSeq
    BY DEF AttachRequest
  <1> HIDE DEF a
  <1>3. a.since = IF a.full THEN 0 ELSE p.lastSeq BY <1>2
  <1>4. a.full <=> a.since = 0 BY <1>2
  <1> QED BY <1>1, <1>2, <1>3, <1>4 DEF a

(* A request joins the end of the line. *)
LEMMA AskEffect ==
    ASSUME ReplayTypeOK, NEW a \in Requests, requests' = Append(requests, a)
    PROVE  /\ requests' \in Seq(Requests) /\ Len(requests) \in Nat /\ Len(requests') = Len(requests) + 1
           /\ \A i \in 1..Len(requests') : \/ i \in 1..Len(requests) /\ requests'[i] = requests[i]
                                           \/ i = Len(requests) + 1 /\ requests'[i] = a
           /\ a.op = "attach" => Pending' = Pending \cup {a}
           /\ a.op # "attach" => Pending' = Pending
  <1>1. requests \in Seq(Requests) BY DEF ReplayTypeOK, Requests
  <1>2. /\ requests' \in Seq(Requests) /\ Len(requests') = Len(requests) + 1 /\ Len(requests) \in Nat
        /\ requests'[Len(requests) + 1] = a
        /\ \A i \in 1..Len(requests) : requests'[i] = requests[i]
    BY <1>1, AppendShape
  <1>3. /\ \A i \in 1..Len(requests') : \/ i \in 1..Len(requests) /\ requests'[i] = requests[i]
                                        \/ i = Len(requests) + 1 /\ requests'[i] = a
        /\ \A i \in 1..Len(requests) : i \in 1..Len(requests')
        /\ Len(requests) + 1 \in 1..Len(requests')
    BY <1>2
  <1>4. a.op = "attach" => Pending' = Pending \cup {a} BY <1>2, <1>3 DEF Pending
  <1>5. a.op # "attach" => Pending' = Pending BY <1>2, <1>3 DEF Pending
  <1> QED BY <1>2, <1>3, <1>4, <1>5

(* A new connection, and what reattachAll asks for. *)
LEMMA ConnectStep ==
    ASSUME ReplayInv, Connect
    PROVE  ReplayInv'
  <1> DEFINE a == AttachRequest(FALSE, panel, TRUE)
  <1>1. ReplayTypeOK BY DEF ReplayInv
  <1>2. /\ UNCHANGED <<total, subscribed, unsent, wire, resolved, panel, queue, shown, earlier, waiting,
                       opens, seen, raced, cut>>
        /\ ~conn /\ conn' = TRUE /\ connects' = connects + 1
        /\ requests' = IF panel.state = "ready" THEN <<a>> ELSE << >>
    BY DEF Connect, history
  <1>3. unsent = <<>> /\ wire = <<>> /\ resolved = <<>> /\ requests = <<>>
    BY <1>2 DEF ReplayInv, Sane
  <1>4. panel \in Panels /\ opens \in Nat BY <1>1 DEF ReplayTypeOK
  <1>5. /\ a \in AttachRequests /\ a.op = "attach"
        /\ a.opened = opens /\ a.again /\ a.limit = panel.limit
        /\ a.since = IF a.full THEN 0 ELSE panel.lastSeq
        /\ a.full <=> a.since = 0
    BY <1>4, AttachRequestShape
  <1> HIDE DEF a
  <1>6. /\ Handled' = {}
        /\ panel.state = "ready" => Pending' = {a} /\ Len(requests') = 1 /\ requests'[1] = a
        /\ panel.state # "ready" => Pending' = {} /\ Len(requests') = 0
    <2>1. Handled' = {} BY <1>2, <1>3 DEF Handled
    <2>2. ASSUME panel.state = "ready" PROVE Pending' = {a} /\ Len(requests') = 1 /\ requests'[1] = a
      <3>1. requests' = <<a>> BY <1>2, <2>2
      <3>2. Len(requests') = 1 /\ requests'[1] = a BY <3>1
      <3>3. 1..Len(requests') = {1} BY <3>2
      <3> QED BY <1>5, <3>2, <3>3 DEF Pending
    <2>3. ASSUME panel.state # "ready" PROVE Pending' = {} /\ Len(requests') = 0
      <3>1. requests' = <<>> BY <1>2, <2>3
      <3> QED BY <3>1 DEF Pending
    <2> QED BY <2>1, <2>2, <2>3
  <1>7. ReplayTypeOK'
    <2>1. a \in Requests BY <1>5 DEF Requests
    <2>2. <<a>> \in Seq(Requests) /\ <<>> \in Seq(Requests) BY <2>1, EmptySeq
    <2>3. requests' \in Seq(Requests) BY <1>2, <2>2
    <2>4. connects' \in Nat BY <1>1, <1>2 DEF ReplayTypeOK
    <2> QED BY <1>1, <1>2, <2>3, <2>4 DEF ReplayTypeOK, Requests
  <1>8. Sane' BY <1>2, <1>5, <1>6 DEF ReplayInv, Sane
  <1>9. Mine' BY <1>2, <1>4, <1>5, <1>6 DEF ReplayInv, Mine
  <1>10. Len(unsent') = 0 /\ Len(wire') = 0 /\ Len(resolved') = 0 /\ Len(requests') \in {0, 1}
    BY <1>2, <1>3, <1>6
  <1>11. Line' BY <1>10 DEF Line
  <1>12. Waits' BY <1>2, <1>5, <1>6 DEF ReplayInv, Waits, OwnWaits, OwnWaitsShort
  <1>13. Pushes' BY <1>10 DEF Pushes
  <1>14. Fed'
    <2>1. panel.state = "ready" => Asked' BY <1>2, <1>5, <1>6 DEF Asked
    <2> QED BY <1>2, <1>6, <1>10, <2>1 DEF Fed
  <1>15. Unraced' BY <1>2, <1>5, <1>6 DEF ReplayInv, Unraced, UpTo, Enough
  <1> QED BY <1>7, <1>8, <1>9, <1>11, <1>12, <1>13, <1>14, <1>15 DEF ReplayInv

(* A connection that is lost, or does not come about. *)
LEMMA DisconnectStep ==
    ASSUME ReplayInv, Disconnect \/ ConnectFails
    PROVE  ReplayInv'
  <1>1. ReplayTypeOK BY DEF ReplayInv
  <1>2. /\ UNCHANGED <<total, panel, queue, shown, earlier, connects, opens, seen, raced, cut>>
        /\ conn' = FALSE /\ waiting' = <<>>
    BY <1>1, Zenon DEF Disconnect, ConnectFails, counts, history, ReplayTypeOK
  <1>3. requests' = <<>> /\ unsent' = <<>> /\ wire' = <<>> /\ resolved' = <<>> /\ subscribed' = FALSE
    <2>1. CASE Disconnect BY <2>1 DEF Disconnect, NextTask
    <2>2. CASE ConnectFails
      BY <1>1, <2>2 DEF ConnectFails, channel, ReplayInv, Sane, ReplayTypeOK
    <2> QED BY <2>1, <2>2
  <1>4. Pending' = {} /\ Handled' = {} BY <1>3 DEF Pending, Handled
  <1>5. Len(requests') = 0 /\ Len(unsent') = 0 /\ Len(wire') = 0 /\ Len(resolved') = 0 /\ Len(waiting') = 0
    BY <1>2, <1>3
  <1>6. ReplayTypeOK'
    <2>1. \A S : <<>> \in Seq(S) BY EmptySeq
    <2>2. requests' \in Seq(Requests) /\ wire' \in Seq(Messages) /\ unsent' \in Seq(Reply)
          /\ resolved' \in Seq(Reply) /\ waiting' \in Seq([opened : Nat, full : BOOLEAN])
      BY <1>2, <1>3, <2>1
    <2> QED BY <1>1, <1>2, <1>3, <2>2 DEF ReplayTypeOK, Requests, Messages
  <1>7. Sane' BY <1>2, <1>3, <1>4 DEF ReplayInv, Sane
  <1>8. Mine' BY <1>2, <1>4, <1>5 DEF ReplayInv, Mine
  <1>9. Line' BY <1>5 DEF Line
  <1>10. Waits' BY <1>2, <1>5 DEF Waits, OwnWaits, OwnWaitsShort
  <1>11. Pushes' BY <1>5 DEF Pushes
  <1>12. Fed' BY <1>2 DEF Fed
  <1>13. Unraced' BY <1>2, <1>4 DEF ReplayInv, Unraced, UpTo, Enough
  <1> QED BY <1>6, <1>7, <1>8, <1>9, <1>10, <1>11, <1>12, <1>13 DEF ReplayInv

(* What joins the end of the line keeps its order, when what is in flight  *)
(* may be ahead of it.                                                     *)
LEMMA LineGrows ==
    ASSUME ReplayTypeOK, Line, UNCHANGED <<unsent, wire, resolved, opens>>,
           Len(requests) \in Nat, Len(requests') \in Nat,
           \A i \in 1..Len(requests) : requests'[i] = requests[i],
           \A x \in Pending \cup Handled, j \in 1..Len(requests') :
             j > Len(requests) /\ requests'[j].op = "attach" => Orderly(x, requests'[j]),
           \A i, j \in 1..Len(requests') :
             Len(requests) < i /\ i < j /\ requests'[i].op = "attach" /\ requests'[j].op = "attach"
               => Orderly(requests'[i], requests'[j])
    PROVE  Line'
  <1>1. /\ \A i \in 1..Len(requests) : IsAttach(i) => requests[i] \in Pending
        /\ \A i \in 1..Len(unsent) : unsent[i] \in Handled
        /\ \A i \in 1..Len(resolved) : resolved[i] \in Handled
        /\ \A i \in 1..Len(wire) : IsReply(i) => wire[i].reply \in Handled
    BY InFlightMembers
  <1>2. \A j \in 1..Len(requests') : j \in 1..Len(requests) \/ j > Len(requests)
    OBVIOUS
  <1>4. ASSUME NEW x \in Handled, NEW j \in 1..Len(requests'), requests'[j].op = "attach",
               j \in 1..Len(requests) /\ IsAttach(j) => Orderly(x, requests[j])
        PROVE  Orderly(x, requests'[j])
    BY <1>2, <1>4 DEF IsAttach
  <1>5. /\ \A i, j \in 1..Len(resolved') : i < j => Later(resolved[i], resolved[j])'
        /\ \A i \in 1..Len(resolved'), j \in 1..Len(wire') : IsReply(j)' => Later(resolved[i], wire[j].reply)'
        /\ \A i \in 1..Len(resolved'), j \in 1..Len(unsent') : Later(resolved[i], unsent[j])'
        /\ \A i, j \in 1..Len(wire') :
             i < j /\ IsReply(i)' /\ IsReply(j)' => Later(wire[i].reply, wire[j].reply)'
        /\ \A i \in 1..Len(wire'), j \in 1..Len(unsent') : IsReply(i)' => Later(wire[i].reply, unsent[j])'
        /\ \A i, j \in 1..Len(unsent') : i < j => Later(unsent[i], unsent[j])'
    BY DEF Line, Later, Orderly, IsReply
  <1>6. \A i \in 1..Len(resolved), j \in 1..Len(requests') :
          requests'[j].op = "attach" => Orderly(resolved[i], requests'[j])
    BY <1>1, <1>4 DEF Line
  <1>7. \A i \in 1..Len(wire), j \in 1..Len(requests') :
          IsReply(i) /\ requests'[j].op = "attach" => Orderly(wire[i].reply, requests'[j])
    BY <1>1, <1>4 DEF Line
  <1>8. \A i \in 1..Len(unsent), j \in 1..Len(requests') :
          requests'[j].op = "attach" => Orderly(unsent[i], requests'[j])
    BY <1>1, <1>4 DEF Line
  <1>9. ASSUME NEW i \in 1..Len(requests'), NEW j \in 1..Len(requests'), i < j,
               requests'[i].op = "attach", requests'[j].op = "attach"
        PROVE  Orderly(requests'[i], requests'[j])
    <2>1. CASE i > Len(requests) BY <1>9, <2>1
    <2>2. CASE i \in 1..Len(requests) /\ j > Len(requests)
      <3>1. requests'[i] = requests[i] /\ requests[i] \in Pending BY <1>1, <1>9, <2>2 DEF IsAttach
      <3> QED BY <1>9, <2>2, <3>1
    <2>3. CASE i \in 1..Len(requests) /\ j \in 1..Len(requests)
      BY <1>9, <2>3 DEF Line, IsAttach
    <2> QED BY <1>2, <2>1, <2>2, <2>3
  <1> QED BY <1>5, <1>6, <1>7, <1>8, <1>9 DEF Line, Orderly, IsAttach, IsReply

(* The handlers that waited have asked, in turn. *)
LEMMA HandlersResumeEffect ==
    ASSUME ReplayTypeOK, HandlersResume
    PROVE  /\ requests' \in Seq(Requests) /\ Len(requests) \in Nat /\ Len(waiting) \in Nat
           /\ Len(requests') = Len(requests) + Len(waiting)
           /\ \A i \in 1..Len(requests) : requests'[i] = requests[i]
           /\ \A k \in 1..Len(waiting) :
                LET a == requests'[Len(requests) + k] IN
                /\ a \in AttachRequests /\ a.op = "attach" /\ ~a.again
                /\ a.opened = waiting[k].opened /\ a.limit = panel.limit
                /\ a.full <=> waiting[k].full \/ panel.lastSeq = 0
                /\ a.since = IF a.full THEN 0 ELSE panel.lastSeq
                /\ a.full <=> a.since = 0
  <1> DEFINE a(k) == [AttachRequest(waiting[k].full, panel, FALSE) EXCEPT !.opened = waiting[k].opened]
             new == [k \in 1..Len(waiting) |-> a(k)]
  <1>1. /\ panel \in Panels /\ opens \in Nat /\ requests \in Seq(Requests)
        /\ waiting \in Seq([opened : Nat, full : BOOLEAN]) /\ Len(waiting) \in Nat /\ Len(requests) \in Nat
    BY LenProperties DEF ReplayTypeOK, Requests
  <1>2. \A k \in 1..Len(waiting) : waiting[k] \in [opened : Nat, full : BOOLEAN] BY <1>1, ElementOfSeq
  <1>3. ASSUME NEW k \in 1..Len(waiting)
        PROVE  /\ a(k) \in AttachRequests /\ a(k).op = "attach" /\ ~a(k).again
               /\ a(k).opened = waiting[k].opened /\ a(k).limit = panel.limit
               /\ a(k).full <=> waiting[k].full \/ panel.lastSeq = 0
               /\ a(k).since = IF a(k).full THEN 0 ELSE panel.lastSeq
               /\ a(k).full <=> a(k).since = 0
    <2> DEFINE b == AttachRequest(waiting[k].full, panel, FALSE)
               o == waiting[k].opened
               c == [b EXCEPT !.opened = o]
    <2>1. waiting[k].full \in BOOLEAN /\ o \in Nat BY <1>2
    <2>2. /\ b \in AttachRequests /\ b.op = "attach" /\ ~b.again /\ b.limit = panel.limit
          /\ b.full <=> waiting[k].full \/ panel.lastSeq = 0
          /\ b.since = IF b.full THEN 0 ELSE panel.lastSeq
          /\ b.full <=> b.since = 0
      BY <1>1, <2>1, AttachRequestShape, ZenonT(60)
    <2> HIDE DEF b, o
    <2>3. c \in AttachRequests /\ c.op = b.op /\ c.again = b.again /\ c.limit = b.limit /\ c.opened = o
          /\ c.full = b.full /\ c.since = b.since
      BY <2>1, <2>2 DEF AttachRequests
    <2>4. a(k) = c BY DEF b, o
    <2> HIDE DEF c, a
    <2> QED BY <2>2, <2>3, <2>4 DEF o
  <1>4. requests' = requests \o new BY DEF HandlersResume
  <1> HIDE DEF a
  <1>5. \A k \in 1..Len(waiting) : a(k) \in Requests BY <1>3 DEF Requests
  <1>6. new \in Seq(Requests) BY <1>1, <1>5, IsASeq
  <1>7. Len(new) = Len(waiting) BY <1>1
  <1>8. \A k \in 1..Len(waiting) : new[k] = a(k) OBVIOUS
  <1> HIDE DEF new
  <1>9. /\ requests' \in Seq(Requests) /\ Len(requests') = Len(requests) + Len(waiting)
        /\ \A i \in 1..Len(requests') :
             requests'[i] = IF i <= Len(requests) THEN requests[i] ELSE new[i - Len(requests)]
    <2>1. /\ requests \o new \in Seq(Requests) /\ Len(requests \o new) = Len(requests) + Len(new)
          /\ \A i \in 1..(Len(requests) + Len(new)) :
               (requests \o new)[i] = IF i <= Len(requests) THEN requests[i] ELSE new[i - Len(requests)]
      BY <1>1, <1>6, ConcatProperties
    <2> QED BY <1>4, <1>7, <2>1
  <1>10. \A i \in 1..Len(requests) : requests'[i] = requests[i] BY <1>1, <1>9
  <1>11. \A k \in 1..Len(waiting) : requests'[Len(requests) + k] = a(k)
    <2> TAKE k \in 1..Len(waiting)
    <2>1. /\ Len(requests) + k \in 1..Len(requests') /\ ~(Len(requests) + k <= Len(requests))
          /\ Len(requests) + k - Len(requests) = k
      BY <1>1, <1>9
    <2>2. requests'[Len(requests) + k] = new[Len(requests) + k - Len(requests)] BY <1>9, <2>1
    <2> QED BY <1>8, <2>1, <2>2
  <1> QED BY <1>1, <1>3, <1>9, <1>10, <1>11

(* The handlers that waited for the connection attach. *)
LEMMA HandlersResumeStep ==
    ASSUME ReplayInv, HandlersResume
    PROVE  ReplayInv'
  <1> DEFINE n == Len(requests)
             a(k) == requests'[Len(requests) + k]
  <1>1. ReplayTypeOK BY DEF ReplayInv
  <1>2. /\ UNCHANGED <<total, conn, subscribed, unsent, wire, resolved, panel, queue, shown, earlier,
                       connects, opens, seen, raced, cut>>
        /\ conn /\ waiting' = <<>> /\ ~Reattaching
    BY DEF HandlersResume, counts, history
  <1>3. /\ requests' \in Seq(Requests) /\ n \in Nat /\ Len(waiting) \in Nat
        /\ Len(requests') = n + Len(waiting)
        /\ \A i \in 1..n : requests'[i] = requests[i]
        /\ \A k \in 1..Len(waiting) :
             /\ a(k) \in AttachRequests /\ a(k).op = "attach" /\ ~a(k).again
             /\ a(k).opened = waiting[k].opened /\ a(k).limit = panel.limit
             /\ a(k).full <=> waiting[k].full \/ panel.lastSeq = 0
             /\ a(k).since = IF a(k).full THEN 0 ELSE panel.lastSeq
             /\ a(k).full <=> a(k).since = 0
    BY <1>1, HandlersResumeEffect
  <1>4. \A i \in 1..Len(requests') : i > n => i - n \in 1..Len(waiting) /\ requests'[i] = a(i - n)
    BY <1>3
  <1>5. \A k \in 1..Len(waiting) : n + k \in 1..Len(requests') BY <1>3
  <1>6. \A i \in 1..Len(requests') : i \in 1..n \/ i > n BY <1>3
  <1>7. /\ Handled' = Handled
        /\ Pending \subseteq Pending'
        /\ \A k \in 1..Len(waiting) : a(k) \in Pending'
        /\ \A x \in Pending' : x \in Pending \/ \E k \in 1..Len(waiting) : x = a(k)
    <2>1. Handled' = Handled BY <1>2 DEF Handled
    <2>2. Pending \subseteq Pending'
      <3>1. \A i \in 1..n : i \in 1..Len(requests') BY <1>3
      <3> QED BY <1>3, <3>1 DEF Pending
    <2>3. \A k \in 1..Len(waiting) : a(k) \in Pending' BY <1>3, <1>5 DEF Pending
    <2>4. ASSUME NEW x \in Pending' PROVE x \in Pending \/ \E k \in 1..Len(waiting) : x = a(k)
      <3>1. PICK i \in 1..Len(requests') : requests'[i].op = "attach" /\ x = requests'[i]
        BY <2>4 DEF Pending
      <3>2. CASE i \in 1..n BY <1>3, <3>1, <3>2 DEF Pending
      <3>3. CASE i > n BY <1>4, <3>1, <3>3
      <3> QED BY <1>6, <3>2, <3>3
    <2> QED BY <2>1, <2>2, <2>3, <2>4
  <1>8. ReplayTypeOK'
    <2>1. waiting' \in Seq([opened : Nat, full : BOOLEAN]) BY <1>2, EmptySeq
    <2> QED BY <1>1, <1>2, <1>3, <2>1 DEF ReplayTypeOK, Requests
  <1> HIDE DEF a, n
  <1>9. Sane'
    <2>1. \A x \in Pending' : (x.full <=> x.since = 0) /\ x.limit >= REPLAY_LIMIT
      BY <1>3, <1>7 DEF ReplayInv, Sane
    <2> QED BY <1>2, <1>7, <2>1 DEF ReplayInv, Sane
  <1>10. Mine'
    <2>1. \A x \in Pending' \cup Handled' :
            x.opened <= opens /\ (panel.state = "loading" => x.opened < opens)
      BY <1>3, <1>7 DEF ReplayInv, Mine
    <2>2. Len(waiting') = 0 BY <1>2
    <2> QED BY <1>2, <2>1, <2>2 DEF ReplayInv, Mine
  <1>11. Line'
    <2>1. ASSUME NEW x \in Pending \cup Handled, NEW k \in 1..Len(waiting) PROVE Orderly(x, a(k))
      <3>1. ASSUME a(k).opened = opens PROVE a(k).full
        <4>1. SUFFICES ASSUME ~a(k).full PROVE FALSE OBVIOUS
        <4>2. OwnWaitsShort BY <1>3, <3>1, <4>1 DEF OwnWaitsShort
        <4>3. x.again BY <1>2, <4>2 DEF ReplayInv, Waits
        <4> QED BY <1>2, <4>3 DEF Reattaching
      <3> QED BY <1>3, <3>1 DEF Orderly
    <2>2. ASSUME NEW k \in 1..Len(waiting), NEW l \in 1..Len(waiting), k < l PROVE Orderly(a(k), a(l))
      BY <1>3, <2>2 DEF ReplayInv, Waits, Orderly
    <2>3. \A x \in Pending \cup Handled, j \in 1..Len(requests') :
            j > n /\ requests'[j].op = "attach" => Orderly(x, requests'[j])
      BY <1>4, <2>1
    <2>4. ASSUME NEW i \in 1..Len(requests'), NEW j \in 1..Len(requests'), n < i, i < j
          PROVE  Orderly(requests'[i], requests'[j])
      <3>1. n < j /\ i - n < j - n BY <1>3, <2>4
      <3> QED BY <1>4, <2>2, <2>4, <3>1
    <2>5. Len(requests') \in Nat BY <1>3
    <2>6. Line BY DEF ReplayInv
    <2> QED BY <1>1, <1>2, <1>3, <2>3, <2>4, <2>5, <2>6, LineGrows DEF n
  <1>12. Waits'
    <2>1. Len(waiting') = 0 BY <1>2
    <2> QED BY <2>1 DEF Waits, OwnWaits, OwnWaitsShort
  <1>13. Pushes' BY <1>2 DEF ReplayInv, Pushes, IsEvent, IsReply
  <1>14. Fed'
    <2>1. NoDetach => NoDetach'
      BY <1>3, <1>4, <1>6 DEF NoDetach, IsAttach, n
    <2>2. ~Asked' => ~Asked /\ ~OwnWaits
      <3>1. Asked => Asked' BY <1>2, <1>7 DEF Asked
      <3>2. OwnWaits => Asked' BY <1>2, <1>3, <1>7 DEF Asked, OwnWaits
      <3> QED BY <3>1, <3>2
    <2>3. ASSUME panel.state = "ready",
                 NEW i \in 1..Len(requests'), NEW j \in 1..Len(requests'), i < j,
                 requests'[i].op = "attach", requests'[i].opened = opens
          PROVE  requests'[j].op = "attach"
      <3>1. CASE j > n BY <1>3, <1>4, <3>1
      <3>2. CASE j \in 1..n
        <4>1. i \in 1..n BY <1>3, <2>3, <3>2
        <4> QED BY <1>2, <1>3, <2>3, <3>2, <4>1 DEF ReplayInv, Fed, IsAttach, n
      <3> QED BY <1>6, <3>1, <3>2
    <2> QED BY <1>2, <1>7, <2>1, <2>2, <2>3 DEF ReplayInv, Fed, Covered, IsAttach
  <1>15. Unraced'
    <2>1. ASSUME panel.state = "ready", ~raced, NEW x \in Pending', x.opened = opens, ~x.full
          PROVE  x.since = seen
      BY <1>3, <1>7, <2>1 DEF ReplayInv, Unraced
    <2> QED BY <1>2, <1>7, <2>1 DEF ReplayInv, Unraced, UpTo, Enough
  <1> QED BY <1>8, <1>9, <1>10, <1>11, <1>12, <1>13, <1>14, <1>15 DEF ReplayInv

(* A tab is opened: nothing in flight is its own. *)
LEMMA OpenPanelStep ==
    ASSUME ReplayInv, OpenPanel
    PROVE  ReplayInv'
  <1> DEFINE p == [state |-> "loading", lastSeq |-> 0, limit |-> REPLAY_LIMIT]
  <1>1. ReplayTypeOK BY DEF ReplayInv
  <1>2. /\ UNCHANGED <<total, conn, subscribed, requests, unsent, wire, resolved, waiting, connects>>
        /\ panel' = p /\ opens' = opens + 1
        /\ queue' = <<>> /\ shown' = <<>> /\ earlier' = "none"
        /\ seen' = 0 /\ raced' = FALSE /\ cut' = FALSE
    BY Zenon DEF OpenPanel, channel
  <1>3. p \in Panels /\ p.state = "loading" /\ p.lastSeq = 0 /\ p.limit = REPLAY_LIMIT
    BY ReplayAssumption DEF Panels
  <1> HIDE DEF p
  <1>4. Pending' = Pending /\ Handled' = Handled BY <1>2 DEF Pending, Handled
  <1>5. total \in Nat /\ opens \in Nat /\ REPLAY_LIMIT \in Nat BY <1>1, ReplayAssumption DEF ReplayTypeOK
  <1>6. /\ \A x \in Pending \cup Handled : x.opened \in Nat /\ x.opened <= opens
        /\ \A i \in 1..Len(waiting) : waiting[i].opened \in Nat /\ waiting[i].opened <= opens
    <2>1. \A x \in Pending \cup Handled : x.opened \in Nat
      BY <1>1, InFlightMembers DEF AttachRequests, Reply
    <2>2. \A i \in 1..Len(waiting) : waiting[i] \in [opened : Nat, full : BOOLEAN]
      BY <1>1, ElementOfSeq DEF ReplayTypeOK
    <2> QED BY <2>1, <2>2 DEF ReplayInv, Mine
  <1>7. /\ \A x \in Pending \cup Handled : x.opened < opens'
        /\ \A i \in 1..Len(waiting) : waiting[i].opened < opens'
    BY <1>2, <1>5, <1>6
  <1>8. ReplayTypeOK'
    <2>1. <<>> \in Seq(Nat) BY EmptySeq
    <2>2. queue' \in Seq(Nat) /\ shown' \in Seq(Nat) BY <1>2, <2>1
    <2>3. opens' \in Nat /\ seen' \in Nat BY <1>2, <1>5
    <2> QED BY <1>1, <1>2, <1>3, <2>2, <2>3 DEF ReplayTypeOK
  <1>9. Sane' BY <1>2, <1>3, <1>4, <1>5 DEF ReplayInv, Sane
  <1>10. Mine'
    <2>1. \A x \in Pending \cup Handled : x.opened <= opens' BY <1>2, <1>5, <1>6
    <2>2. \A i \in 1..Len(waiting) : waiting[i].opened <= opens' BY <1>2, <1>5, <1>6
    <2> QED BY <1>2, <1>4, <1>7, <2>1, <2>2 DEF Mine
  <1>11. Line'
    <2>1. \A x \in Pending \cup Handled : x.opened # opens' BY <1>2, <1>5, <1>6
    <2>2. /\ \A i \in 1..Len(requests) : IsAttach(i) => requests[i] \in Pending
          /\ \A i \in 1..Len(unsent) : unsent[i] \in Handled
          /\ \A i \in 1..Len(resolved) : resolved[i] \in Handled
          /\ \A i \in 1..Len(wire) : IsReply(i) => wire[i].reply \in Handled
      BY <1>1, InFlightMembers
    <2>3. Line BY DEF ReplayInv
    <2>4. Len(resolved) = 0 BY DEF OpenPanel, NextTask
    <2>5. /\ \A i, j \in 1..Len(wire) :
               i < j /\ IsReply(i) /\ IsReply(j) => Later(wire[i].reply, wire[j].reply)'
          /\ \A i \in 1..Len(wire), j \in 1..Len(unsent) : IsReply(i) => Later(wire[i].reply, unsent[j])'
      BY <1>2, <2>1, <2>2, <2>3 DEF Line, Later, Orderly
    <2>6. /\ \A i \in 1..Len(wire), j \in 1..Len(requests) :
               IsReply(i) /\ IsAttach(j) => Orderly(wire[i].reply, requests[j])'
          /\ \A i, j \in 1..Len(unsent) : i < j => Later(unsent[i], unsent[j])'
      BY <1>2, <2>1, <2>2, <2>3 DEF Line, Later, Orderly
    <2>7. /\ \A i \in 1..Len(unsent), j \in 1..Len(requests) :
               IsAttach(j) => Orderly(unsent[i], requests[j])'
          /\ \A i, j \in 1..Len(requests) :
               i < j /\ IsAttach(i) /\ IsAttach(j) => Orderly(requests[i], requests[j])'
      BY <1>2, <2>1, <2>2, <2>3 DEF Line, Orderly
    <2> QED BY <1>2, <2>4, <2>5, <2>6, <2>7 DEF Line, IsReply, IsAttach
  <1>12. Waits'
    <2>1. \A i \in 1..Len(waiting) : waiting[i].opened # opens' BY <1>2, <1>5, <1>6
    <2>2. ~OwnWaits' /\ ~OwnWaitsShort' BY <1>2, <2>1 DEF OwnWaits, OwnWaitsShort
    <2> QED BY <1>2, <2>1, <2>2 DEF Waits
  <1>13. Pushes'
    <2>1. \A i \in 1..Len(wire) : IsEvent(i) => wire[i].seq \in Nat BY <1>1, InFlightMembers
    <2>2. \A i \in 1..Len(wire) : IsEvent(i) => wire[i].seq >= 0 /\ wire[i].seq < total
      BY <2>1 DEF ReplayInv, Pushes
    <2> QED BY <1>2, <2>2 DEF ReplayInv, Pushes, IsEvent, IsReply
  <1>14. Fed' BY <1>2, <1>3 DEF Fed
  <1>15. Unraced' BY <1>2, <1>3 DEF Unraced
  <1> QED BY <1>8, <1>9, <1>10, <1>11, <1>12, <1>13, <1>14, <1>15 DEF ReplayInv

(* A tab is closed, and the daemon will be told. *)
LEMMA ClosePanelStep ==
    ASSUME ReplayInv, ClosePanel
    PROVE  ReplayInv'
  <1> DEFINE d == [op |-> "detach"]
             p == [panel EXCEPT !.state = "closed"]
  <1>1. ReplayTypeOK BY DEF ReplayInv
  <1>2. /\ UNCHANGED <<total, conn, subscribed, unsent, wire, resolved, waiting, connects, opens,
                       seen, raced, cut>>
        /\ panel' = p
        /\ requests' = IF conn THEN Append(requests, d) ELSE requests
        /\ queue' = <<>> /\ shown' = <<>> /\ earlier' = "none"
    BY Zenon DEF ClosePanel, counts, history
  <1>3. d \in Requests /\ d.op # "attach" BY DEF Requests
  <1>4. p \in Panels /\ p.state = "closed" /\ p.lastSeq = panel.lastSeq /\ p.limit = panel.limit
    BY <1>1 DEF ReplayTypeOK, Panels
  <1> HIDE DEF d, p
  <1>5. /\ requests' \in Seq(Requests) /\ Len(requests) \in Nat /\ Len(requests') \in Nat
        /\ \A i \in 1..Len(requests) : requests'[i] = requests[i]
        /\ \A i \in 1..Len(requests') : i > Len(requests) => requests'[i] = d
        /\ Pending' = Pending /\ (~conn => requests' = requests)
    <2>1. CASE conn
      <3>1. requests \in Seq(Requests) BY <1>1 DEF ReplayTypeOK, Requests
      <3>2. requests' = Append(requests, d) BY <1>2, <2>1
      <3>3. /\ requests' \in Seq(Requests) /\ Len(requests) \in Nat /\ Len(requests') = Len(requests) + 1
            /\ \A i \in 1..Len(requests') : \/ i \in 1..Len(requests) /\ requests'[i] = requests[i]
                                            \/ i = Len(requests) + 1 /\ requests'[i] = d
            /\ Pending' = Pending
        BY <1>1, <1>3, <3>2, AskEffect
      <3>4. \A i \in 1..Len(requests) : requests'[i] = requests[i] BY <1>3, <3>1, <3>2, AppendShape
      <3> QED BY <2>1, <3>3, <3>4
    <2>2. CASE ~conn
      <3>1. requests' = requests BY <1>2, <2>2
      <3>2. Len(requests) \in Nat /\ requests \in Seq(Requests) BY <1>1, LenProperties DEF ReplayTypeOK, Requests
      <3> QED BY <3>1, <3>2 DEF Pending
    <2> QED BY <2>1, <2>2
  <1>6. Handled' = Handled BY <1>2 DEF Handled
  <1>7. ReplayTypeOK'
    <2>1. <<>> \in Seq(Nat) BY EmptySeq
    <2>2. queue' \in Seq(Nat) /\ shown' \in Seq(Nat) BY <1>2, <2>1
    <2> QED BY <1>1, <1>2, <1>4, <1>5, <2>2 DEF ReplayTypeOK, Requests
  <1>8. Sane' BY <1>2, <1>4, <1>5, <1>6 DEF ReplayInv, Sane
  <1>9. Mine' BY <1>2, <1>4, <1>5, <1>6 DEF ReplayInv, Mine
  <1>10. Line'
    <2>1. Line BY DEF ReplayInv
    <2>2. \A i \in 1..Len(requests') : i > Len(requests) => requests'[i].op # "attach" BY <1>3, <1>5
    <2> QED BY <1>1, <1>2, <1>5, <2>1, <2>2, LineGrows
  <1>11. Waits' BY <1>2, <1>5, <1>6 DEF ReplayInv, Waits, OwnWaits, OwnWaitsShort
  <1>12. Pushes' BY <1>2 DEF ReplayInv, Pushes, IsEvent, IsReply
  <1>13. Fed' BY <1>2, <1>4 DEF Fed
  <1>14. Unraced' BY <1>2, <1>4 DEF Unraced
  <1> QED BY <1>7, <1>8, <1>9, <1>10, <1>11, <1>12, <1>13, <1>14 DEF ReplayInv

(* A handler of the panel has asked, or waits to. *)
LEMMA AskForEffect ==
    ASSUME ReplayTypeOK, NEW full \in BOOLEAN, NEW p \in Panels, AskFor(full, p)
    PROVE  LET a == AttachRequest(full, p, FALSE)
               h == [opened |-> opens, full |-> full]
           IN  /\ a \in AttachRequests /\ a.op = "attach" /\ ~a.again
               /\ a.opened = opens /\ a.limit = p.limit
               /\ a.full <=> full \/ p.lastSeq = 0
               /\ a.full <=> a.since = 0
               /\ requests' \in Seq(Requests) /\ Len(requests) \in Nat /\ Len(requests') \in Nat
               /\ Len(requests') >= Len(requests)
               /\ \A i \in 1..Len(requests) : requests'[i] = requests[i]
               /\ waiting' \in Seq([opened : Nat, full : BOOLEAN])
               /\ conn => /\ waiting' = waiting /\ Len(requests') = Len(requests) + 1
                          /\ requests'[Len(requests) + 1] = a /\ Pending' = Pending \cup {a}
               /\ ~conn => /\ requests' = requests /\ Pending' = Pending
                           /\ Len(waiting) \in Nat /\ Len(waiting') = Len(waiting) + 1
                           /\ waiting'[Len(waiting) + 1] = h
                           /\ \A i \in 1..Len(waiting) : waiting'[i] = waiting[i]
  <1> DEFINE a == AttachRequest(full, p, FALSE)
             h == [opened |-> opens, full |-> full]
             H == [opened : Nat, full : BOOLEAN]
  <1>1. /\ opens \in Nat /\ requests \in Seq(Requests) /\ waiting \in Seq(H)
        /\ Len(requests) \in Nat
    BY LenProperties DEF ReplayTypeOK, Requests
  <1>2. /\ a \in AttachRequests /\ a.op = "attach" /\ ~a.again
        /\ a.opened = opens /\ a.limit = p.limit
        /\ a.full <=> full \/ p.lastSeq = 0
        /\ a.full <=> a.since = 0
    BY <1>1, AttachRequestShape, ZenonT(60)
  <1>3. /\ conn => requests' = Append(requests, a) /\ waiting' = waiting
        /\ ~conn => waiting' = Append(waiting, h) /\ requests' = requests
    BY Zenon DEF AskFor
  <1>4. h \in H /\ a \in Requests BY <1>1, <1>2 DEF Requests
  <1> HIDE DEF a, h, H
  <1>5. CASE conn
    <2>1. /\ Len(requests') = Len(requests) + 1 /\ requests'[Len(requests) + 1] = a
          /\ \A i \in 1..Len(requests) : requests'[i] = requests[i]
      BY <1>1, <1>3, <1>4, <1>5, AppendShape
    <2>2. requests' \in Seq(Requests) /\ Pending' = Pending \cup {a} BY <1>2, <1>3, <1>4, <1>5, AskEffect
    <2>3. /\ waiting' = waiting /\ waiting' \in Seq(H)
          /\ Len(requests') \in Nat /\ Len(requests') >= Len(requests)
      BY <1>1, <1>3, <1>5, <2>1
    <2> QED BY <1>1, <1>2, <1>5, <2>1, <2>2, <2>3, Zenon DEF a, H
  <1>6. CASE ~conn
    <2>1. /\ waiting' \in Seq(H) /\ Len(waiting) \in Nat /\ Len(waiting') = Len(waiting) + 1
          /\ waiting'[Len(waiting) + 1] = h
          /\ \A i \in 1..Len(waiting) : waiting'[i] = waiting[i]
      BY <1>1, <1>3, <1>4, <1>6, AppendShape
    <2>2. Pending' = Pending BY <1>3, <1>6 DEF Pending
    <2>3. /\ requests' = requests /\ requests' \in Seq(Requests)
          /\ Len(requests') \in Nat /\ Len(requests') >= Len(requests)
      BY <1>1, <1>3, <1>6
    <2> QED BY <1>1, <1>2, <1>6, <2>1, <2>2, <2>3, Zenon DEF a, h, H
  <1> QED BY <1>5, <1>6

(* The webview is ready, and its panel attaches for the first time. *)
LEMMA ReadyStep ==
    ASSUME ReplayInv, Ready
    PROVE  ReplayInv'
  <1> DEFINE a == AttachRequest(FALSE, panel, FALSE)
             h == [opened |-> opens, full |-> FALSE]
             p == [panel EXCEPT !.state = "ready"]
  <1>1. ReplayTypeOK BY DEF ReplayInv
  <1>2. /\ UNCHANGED <<total, conn, subscribed, unsent, wire, resolved, earlier, connects, opens,
                       seen, raced, cut>>
        /\ panel.state = "loading" /\ panel' = p
        /\ shown' = queue /\ queue' = <<>>
        /\ AskFor(FALSE, panel)
    BY Zenon DEF Ready, counts, history
  <1>3. panel \in Panels /\ opens \in Nat BY <1>1 DEF ReplayTypeOK
  <1>4. p \in Panels /\ p.state = "ready" /\ p.lastSeq = panel.lastSeq /\ p.limit = panel.limit
    BY <1>3 DEF Panels
  <1>5. /\ a \in AttachRequests /\ a.op = "attach" /\ ~a.again
        /\ a.opened = opens /\ a.limit = panel.limit
        /\ a.full <=> panel.lastSeq = 0
        /\ a.full <=> a.since = 0
        /\ requests' \in Seq(Requests) /\ Len(requests) \in Nat /\ Len(requests') \in Nat
        /\ Len(requests') >= Len(requests)
        /\ \A i \in 1..Len(requests) : requests'[i] = requests[i]
        /\ waiting' \in Seq([opened : Nat, full : BOOLEAN])
        /\ conn => /\ waiting' = waiting /\ Len(requests') = Len(requests) + 1
                   /\ requests'[Len(requests) + 1] = a /\ Pending' = Pending \cup {a}
        /\ ~conn => /\ requests' = requests /\ Pending' = Pending
                    /\ Len(waiting) \in Nat /\ Len(waiting') = Len(waiting) + 1
                    /\ waiting'[Len(waiting) + 1] = h
                    /\ \A i \in 1..Len(waiting) : waiting'[i] = waiting[i]
    BY <1>1, <1>2, <1>3, AskForEffect
  <1> HIDE DEF a, p
  <1>6. Handled' = Handled BY <1>2 DEF Handled
  <1>7. h.opened = opens /\ h.full = FALSE OBVIOUS
  <1> HIDE DEF h
  <1>8. /\ \A x \in Pending \cup Handled : x.opened <= opens /\ x.opened # opens
        /\ \A i \in 1..Len(waiting) : waiting[i].opened <= opens /\ waiting[i].opened # opens
    <2>1. \A x \in Pending \cup Handled : x.opened \in Nat
      BY <1>1, InFlightMembers DEF AttachRequests, Reply
    <2>2. \A i \in 1..Len(waiting) : waiting[i] \in [opened : Nat, full : BOOLEAN]
      BY <1>1, ElementOfSeq DEF ReplayTypeOK
    <2>3. /\ \A x \in Pending \cup Handled : x.opened <= opens /\ x.opened < opens
          /\ \A i \in 1..Len(waiting) : waiting[i].opened <= opens /\ waiting[i].opened < opens
      BY <1>2 DEF ReplayInv, Mine
    <2> QED BY <1>3, <2>1, <2>2, <2>3
  <1>9. \A i \in 1..Len(waiting') : \/ i \in 1..Len(waiting) /\ waiting'[i] = waiting[i]
                                    \/ ~conn /\ i = Len(waiting) + 1 /\ waiting'[i] = h
    BY <1>5
  <1>10. ReplayTypeOK'
    <2>1. <<>> \in Seq(Nat) BY EmptySeq
    <2>2. queue' \in Seq(Nat) /\ shown' \in Seq(Nat) BY <1>1, <1>2, <2>1 DEF ReplayTypeOK
    <2> QED BY <1>1, <1>2, <1>4, <1>5, <2>2 DEF ReplayTypeOK, Requests
  <1>11. Sane'
    <2>1. \A x \in Pending' : (x.full <=> x.since = 0) /\ x.limit >= REPLAY_LIMIT
      BY <1>5 DEF ReplayInv, Sane
    <2> QED BY <1>2, <1>4, <1>5, <1>6, <2>1 DEF ReplayInv, Sane
  <1>12. Mine'
    <2>1. \A x \in Pending' \cup Handled' : x.opened <= opens BY <1>3, <1>5, <1>6, <1>8
    <2>2. \A i \in 1..Len(waiting') : waiting'[i].opened <= opens BY <1>3, <1>7, <1>8, <1>9
    <2> QED BY <1>2, <1>4, <2>1, <2>2 DEF Mine
  <1>13. Line'
    <2>1. Line BY DEF ReplayInv
    <2>2. \A x \in Pending \cup Handled : Orderly(x, a) BY <1>5, <1>8 DEF Orderly
    <2>3. \A j \in 1..Len(requests') : j > Len(requests) => requests'[j] = a /\ j = Len(requests) + 1
      BY <1>5
    <2>4. \A x \in Pending \cup Handled, j \in 1..Len(requests') :
            j > Len(requests) /\ requests'[j].op = "attach" => Orderly(x, requests'[j])
      BY <2>2, <2>3
    <2>5. ASSUME NEW i \in 1..Len(requests'), NEW j \in 1..Len(requests'), Len(requests) < i, i < j
          PROVE  FALSE
      BY <1>5, <2>3, <2>5
    <2> QED BY <1>1, <1>2, <1>5, <2>1, <2>4, <2>5, LineGrows
  <1>14. Waits'
    <2>1. conn => ~OwnWaits' /\ ~OwnWaitsShort' BY <1>2, <1>8, <1>9 DEF OwnWaits, OwnWaitsShort
    <2>2. ASSUME NEW i \in 1..Len(waiting'), NEW j \in 1..Len(waiting'), i < j,
                 waiting'[i].opened = opens
          PROVE  FALSE
      <3>1. i = Len(waiting) + 1 /\ ~conn BY <1>8, <1>9, <2>2
      <3>2. j \in 1..Len(waiting) \/ j = Len(waiting) + 1 BY <1>9
      <3> QED BY <1>5, <2>2, <3>1, <3>2
    <2>3. earlier = "none" BY <1>2 DEF ReplayInv, Mine
    <2> QED BY <1>2, <2>1, <2>2, <2>3 DEF Waits
  <1>15. Pushes' BY <1>2 DEF ReplayInv, Pushes, IsEvent, IsReply
  <1>16. Fed'
    <2>1. SUFFICES ASSUME conn PROVE Fed' BY <1>2 DEF Fed
    <2>2. Asked' BY <1>2, <1>5, <2>1 DEF Asked
    <2>3. ASSUME NEW i \in 1..Len(requests'), NEW j \in 1..Len(requests'), i < j,
                 requests'[i].op = "attach", requests'[i].opened = opens
          PROVE  FALSE
      <3>1. i \in 1..Len(requests) BY <1>5, <2>1, <2>3
      <3>2. requests[i] \in Pending BY <1>1, <1>5, <2>3, <3>1, InFlightMembers DEF IsAttach
      <3> QED BY <1>5, <1>8, <2>3, <3>1, <3>2
    <2> QED BY <1>2, <1>6, <1>8, <2>2, <2>3 DEF Fed, IsAttach
  <1>17. Unraced'
    <2>1. SUFFICES ASSUME ~raced PROVE Unraced' BY <1>2 DEF Unraced
    <2>2. seen = 0 /\ queue = <<>> BY <1>2, <2>1 DEF ReplayInv, Mine
    <2>3. panel.lastSeq = 0 BY <1>3, <2>2 DEF ReplayInv, Sane, Panels
    <2>4. Len(shown') = 0 BY <1>2, <2>2
    <2>5. UpTo(seen)' /\ Enough(seen)' BY <1>2, <2>2, <2>4 DEF UpTo, Enough
    <2>6. \A x \in Pending' : x.opened = opens => x.full BY <1>5, <1>8, <2>3
    <2> QED BY <1>2, <1>4, <1>6, <1>8, <2>2, <2>3, <2>5, <2>6 DEF Unraced
  <1> QED BY <1>10, <1>11, <1>12, <1>13, <1>14, <1>15, <1>16, <1>17 DEF ReplayInv

(* "Load earlier" is clicked: the panel starts over with a longer replay. *)
LEMMA LoadEarlierStep ==
    ASSUME ReplayInv, LoadEarlier
    PROVE  ReplayInv'
  <1> DEFINE a == AttachRequest(TRUE, panel', FALSE)
             h == [opened |-> opens, full |-> TRUE]
             l == 4 * panel.limit
             p == [panel EXCEPT !.limit = l]
  <1>1. ReplayTypeOK BY DEF ReplayInv
  <1>2. /\ UNCHANGED <<total, conn, subscribed, unsent, wire, resolved, queue, shown, connects, opens,
                       seen, raced, cut>>
        /\ NextTask /\ panel.state = "ready" /\ earlier = "offered"
        /\ earlier' = "loading" /\ panel' = p
        /\ AskFor(TRUE, panel')
    BY Zenon DEF LoadEarlier, counts, history
  <1>3. panel \in Panels /\ opens \in Nat /\ panel.limit \in Nat /\ l \in Nat
    BY <1>1 DEF ReplayTypeOK, Panels
  <1>4. l >= REPLAY_LIMIT BY <1>3, ReplayAssumption DEF ReplayInv, Sane
  <1> HIDE DEF l
  <1>5. p \in Panels /\ p.state = "ready" /\ p.lastSeq = panel.lastSeq /\ p.limit = l
    BY <1>2, <1>3 DEF Panels
  <1> HIDE DEF p
  <1>6. panel' \in Panels /\ panel'.state = "ready" /\ panel'.lastSeq = panel.lastSeq /\ panel'.limit = l
    BY <1>2, <1>5
  <1>7. /\ a \in AttachRequests /\ a.op = "attach" /\ ~a.again
        /\ a.opened = opens /\ a.limit = panel'.limit /\ a.full
        /\ a.full <=> a.since = 0
        /\ requests' \in Seq(Requests) /\ Len(requests) \in Nat /\ Len(requests') \in Nat
        /\ Len(requests') >= Len(requests)
        /\ \A i \in 1..Len(requests) : requests'[i] = requests[i]
        /\ waiting' \in Seq([opened : Nat, full : BOOLEAN])
        /\ conn => /\ waiting' = waiting /\ Len(requests') = Len(requests) + 1
                   /\ requests'[Len(requests) + 1] = a /\ Pending' = Pending \cup {a}
        /\ ~conn => /\ requests' = requests /\ Pending' = Pending
                    /\ Len(waiting) \in Nat /\ Len(waiting') = Len(waiting) + 1
                    /\ waiting'[Len(waiting) + 1] = h
                    /\ \A i \in 1..Len(waiting) : waiting'[i] = waiting[i]
    BY <1>1, <1>2, <1>6, AskForEffect
  <1> HIDE DEF a
  <1>8. Handled' = Handled BY <1>2 DEF Handled
  <1>9. h.opened = opens /\ h.full = TRUE OBVIOUS
  <1> HIDE DEF h
  <1>10. \A i \in 1..Len(waiting') : \/ i \in 1..Len(waiting) /\ waiting'[i] = waiting[i]
                                     \/ ~conn /\ i = Len(waiting) + 1 /\ waiting'[i] = h
    BY <1>7
  <1>11. \A j \in 1..Len(requests') :
           j \in 1..Len(requests) \/ (j > Len(requests) /\ requests'[j] = a /\ j = Len(requests) + 1)
    BY <1>7
  (* No handler waits to ask for less than everything: it would have run.  *)
  <1>12. ~OwnWaitsShort
    <2>1. SUFFICES ASSUME OwnWaitsShort PROVE FALSE OBVIOUS
    <2>2. conn BY <1>2, <2>1 DEF ReplayInv, Waits
    <2>3. Pending \cup Handled = {} BY <1>2, <2>1, <2>2 DEF ReplayInv, Waits
    <2>4. waiting # <<>> BY <2>1 DEF OwnWaitsShort
    <2> QED BY <1>2, <2>2, <2>3, <2>4 DEF NextTask, Reattaching
  <1>13. ReplayTypeOK'
    <2>1. earlier' \in {"none", "offered", "loading"} BY <1>2
    <2> QED BY <1>1, <1>2, <1>6, <1>7, <2>1 DEF ReplayTypeOK, Requests
  <1>14. Sane'
    <2>1. \A x \in Pending' : (x.full <=> x.since = 0) /\ x.limit >= REPLAY_LIMIT
      BY <1>4, <1>6, <1>7 DEF ReplayInv, Sane
    <2>2. ~conn => requests' = requests BY <1>7
    <2> QED BY <1>2, <1>4, <1>6, <1>8, <2>1, <2>2 DEF ReplayInv, Sane
  <1>15. Mine'
    <2>1. \A x \in Pending' \cup Handled' : x.opened <= opens BY <1>3, <1>7, <1>8 DEF ReplayInv, Mine
    <2>2. \A i \in 1..Len(waiting') : waiting'[i].opened <= opens
      BY <1>3, <1>9, <1>10 DEF ReplayInv, Mine
    <2> QED BY <1>2, <1>6, <2>1, <2>2 DEF Mine
  <1>16. Line'
    <2>1. Line BY DEF ReplayInv
    <2>2. \A x \in Pending \cup Handled : Orderly(x, a) BY <1>7 DEF Orderly
    <2>3. \A x \in Pending \cup Handled, j \in 1..Len(requests') :
            j > Len(requests) /\ requests'[j].op = "attach" => Orderly(x, requests'[j])
      BY <1>7, <1>11, <2>2
    <2>4. ASSUME NEW i \in 1..Len(requests'), NEW j \in 1..Len(requests'), Len(requests) < i, i < j
          PROVE  FALSE
      BY <1>7, <1>11, <2>4
    <2> QED BY <1>1, <1>2, <1>7, <2>1, <2>3, <2>4, LineGrows
  <1>17. Waits'
    <2>1. ~OwnWaitsShort' BY <1>2, <1>9, <1>10, <1>12 DEF OwnWaitsShort
    <2>2. ASSUME NEW i \in 1..Len(waiting'), NEW j \in 1..Len(waiting'), i < j,
                 waiting'[i].opened = opens, waiting'[j].opened = opens
          PROVE  waiting'[j].full
      BY <1>9, <1>10, <1>12, <2>2 DEF OwnWaitsShort
    <2>3. conn /\ OwnWaits' => \A x \in Pending' \cup Handled' : x.opened = opens
      <3>1. conn /\ OwnWaits' => OwnWaits BY <1>2, <1>7 DEF OwnWaits
      <3> QED BY <1>7, <1>8, <3>1 DEF ReplayInv, Waits
    <2> QED BY <1>2, <2>1, <2>2, <2>3 DEF Waits
  <1>18. Pushes' BY <1>2 DEF ReplayInv, Pushes, IsEvent, IsReply
  <1>19. Fed'
    <2>1. SUFFICES ASSUME conn PROVE Fed' BY <1>2 DEF Fed
    <2>2. Asked' BY <1>2, <1>7, <2>1 DEF Asked
    <2>3. NoDetach => NoDetach' BY <1>7, <1>11 DEF NoDetach, IsAttach
    <2>4. ASSUME NEW i \in 1..Len(requests'), NEW j \in 1..Len(requests'), i < j,
                 requests'[i].op = "attach", requests'[i].opened = opens
          PROVE  requests'[j].op = "attach"
      <3>1. CASE j > Len(requests) BY <1>7, <1>11, <3>1
      <3>2. CASE j \in 1..Len(requests)
        <4>1. i \in 1..Len(requests) BY <1>7, <2>4, <3>2
        <4> QED BY <1>2, <1>7, <2>1, <2>4, <3>2, <4>1 DEF ReplayInv, Fed, IsAttach
      <3> QED BY <1>11, <3>1, <3>2
    <2> QED BY <1>2, <1>8, <2>1, <2>2, <2>3, <2>4 DEF ReplayInv, Fed, IsAttach, Covered
  <1>20. Unraced'
    <2>1. \A x \in Pending' : x \in Pending \/ x.full BY <1>7
    <2> QED BY <1>2, <1>6, <1>8, <2>1 DEF ReplayInv, Unraced, UpTo, Enough
  <1> QED BY <1>13, <1>14, <1>15, <1>16, <1>17, <1>18, <1>19, <1>20 DEF ReplayInv

-----------------------------------------------------------------------------
(* The theorems                                                            *)

(* Every step keeps the invariant. *)
LEMMA ReplayInvStep ==
    ASSUME ReplayInv, [ReplayNext]_replayVars
    PROVE  ReplayInv'
  <1>1. CASE Append1 BY <1>1, Append1Step
  <1>2. CASE HandleRequest BY <1>2, HandleRequestStep
  <1>3. CASE SendReply BY <1>3, SendReplyStep
  <1>4. CASE Receive
    <2>1. IsEvent(1) \/ IsReply(1) BY <1>4, ReceiveEffect DEF ReplayInv
    <2> QED BY <1>4, <2>1, ReceiveEventStep, ReceiveReplyStep
  <1>5. CASE AttachReturns BY <1>5, OwnReturnStep, StaleReturnStep
  <1>6. CASE HandlersResume BY <1>6, HandlersResumeStep
  <1>7. CASE Connect BY <1>7, ConnectStep
  <1>8. CASE Disconnect \/ ConnectFails BY <1>8, DisconnectStep
  <1>9. CASE OpenPanel BY <1>9, OpenPanelStep
  <1>10. CASE Ready BY <1>10, ReadyStep
  <1>11. CASE LoadEarlier BY <1>11, LoadEarlierStep
  <1>12. CASE ClosePanel BY <1>12, ClosePanelStep
  <1>13. CASE UNCHANGED replayVars
    <2>1. Pending' = Pending /\ Handled' = Handled BY <1>13 DEF replayVars, Pending, Handled
    <2>2. ReplayTypeOK' /\ Sane' /\ Mine'
      BY <1>13, <2>1 DEF replayVars, ReplayInv, ReplayTypeOK, Sane, Mine
    <2>3. Line' BY <1>13 DEF replayVars, ReplayInv, Line, Later, Orderly, IsAttach, IsReply
    <2>4. Waits' BY <1>13, <2>1 DEF replayVars, ReplayInv, Waits, OwnWaits, OwnWaitsShort
    <2>5. Pushes' BY <1>13 DEF replayVars, ReplayInv, Pushes, IsEvent, IsReply
    <2>6. Fed' BY <1>13, <2>1 DEF replayVars, ReplayInv, Fed, Asked, OwnWaits, NoDetach, Covered, IsAttach
    <2>7. Unraced' BY <1>13, <2>1 DEF replayVars, ReplayInv, Unraced, UpTo, Enough
    <2> QED BY <2>2, <2>3, <2>4, <2>5, <2>6, <2>7 DEF ReplayInv
  <1> QED BY <1>1, <1>2, <1>3, <1>4, <1>5, <1>6, <1>7, <1>8, <1>9, <1>10, <1>11, <1>12, <1>13
      DEF ReplayNext

(* A window that has just started has nothing under way. *)
LEMMA ReplayInvInit ==
    ASSUME ReplayInit
    PROVE  ReplayInv
  <1> DEFINE p == [state |-> "closed", lastSeq |-> 0, limit |-> REPLAY_LIMIT]
  <1>1. REPLAY_LIMIT \in Nat BY ReplayAssumption
  <1>2. p \in Panels /\ p.state = "closed" /\ p.lastSeq = 0 /\ p.limit = REPLAY_LIMIT BY <1>1 DEF Panels
  <1>3. panel = p BY DEF ReplayInit
  <1> HIDE DEF p
  <1>4. \A S : <<>> \in Seq(S) BY EmptySeq
  <1>5. Pending = {} /\ Handled = {} BY DEF ReplayInit, Pending, Handled
  <1>6. /\ Len(requests) = 0 /\ Len(unsent) = 0 /\ Len(wire) = 0 /\ Len(resolved) = 0
        /\ Len(waiting) = 0
    BY DEF ReplayInit
  <1>7. ReplayTypeOK
    <2>1. requests \in Seq(Requests) /\ wire \in Seq(Messages) /\ unsent \in Seq(Reply)
          /\ resolved \in Seq(Reply) /\ waiting \in Seq([opened : Nat, full : BOOLEAN])
          /\ queue \in Seq(Nat) /\ shown \in Seq(Nat)
      BY <1>4 DEF ReplayInit
    <2>2. {total, connects, opens, seen} \subseteq Nat /\ earlier \in {"none", "offered", "loading"}
      BY DEF ReplayInit
    <2>3. conn \in BOOLEAN /\ subscribed \in BOOLEAN /\ raced \in BOOLEAN /\ cut \in BOOLEAN
      BY Zenon DEF ReplayInit
    <2> QED BY <1>2, <1>3, <2>1, <2>2, <2>3 DEF ReplayTypeOK, Requests, Messages
  <1>8. Sane BY <1>1, <1>2, <1>3, <1>5 DEF ReplayInit, Sane
  <1>9. Mine BY <1>2, <1>3, <1>5, <1>6 DEF Mine
  <1>10. Line /\ Pushes BY <1>6 DEF Line, Pushes
  <1>11. Waits BY <1>6 DEF Waits, OwnWaits, OwnWaitsShort
  <1>12. Fed /\ Unraced BY <1>2, <1>3 DEF Fed, Unraced
  <1> QED BY <1>7, <1>8, <1>9, <1>10, <1>11, <1>12 DEF ReplayInv

(* Throughout: what is in flight is in order, the tab's incremental attach *)
(* is ahead of its full ones, pushes are newer than the replays ahead of   *)
(* them, a tab whose attach was handled is fed, and one that was not raced *)
(* shows the transcript up to what it has.                                 *)
THEOREM ReplayInvariant == ReplaySpec => []ReplayInv
  <1>1. ReplayInit => ReplayInv BY ReplayInvInit
  <1>2. ReplayInv /\ [ReplayNext]_replayVars => ReplayInv' BY ReplayInvStep
  <1> QED BY <1>1, <1>2, PTL DEF ReplaySpec

(* A quiet panel has what there is. *)
LEMMA QuietHasAll ==
    ASSUME ReplayInv, Quiet
    PROVE  subscribed /\ seen = total
  <1>1. conn /\ panel.state = "ready" /\ Len(waiting) = 0 /\ Len(wire) = 0 BY DEF Quiet
  <1>2. Pending = {} /\ Handled = {} BY DEF Quiet, Pending, Handled
  <1>3. ~Asked /\ ~OwnWaits BY <1>1, <1>2 DEF Asked, OwnWaits
  <1>4. subscribed /\ Covered(wire, seen, total) BY <1>1, <1>3 DEF ReplayInv, Fed
  <1>5. seen \in Nat /\ total \in Nat /\ seen <= total BY DEF ReplayInv, ReplayTypeOK, Sane
  <1>6. ASSUME seen < total PROVE FALSE
    <2>1. seen \in seen..(total - 1) BY <1>5, <1>6
    <2> QED BY <1>1, <1>4, <2>1 DEF Covered
  <1> QED BY <1>4, <1>5, <1>6

(* However connections were lost and tabs closed and reopened, a panel     *)
(* with nothing under way is subscribed, and unless an event raced a       *)
(* replay its lastSeq is the end of the transcript.                        *)
THEOREM QuietPanelsFollow == ReplaySpec => []QuietPanelFollows
  <1>1. ReplayInv => QuietPanelFollows
    <2> SUFFICES ASSUME ReplayInv, Quiet PROVE (~raced => panel.lastSeq = total) /\ subscribed
      BY DEF QuietPanelFollows, QuietPanelIsUpToDate, OpenTabIsSubscribed
    <2>1. subscribed /\ seen = total BY QuietHasAll
    <2>2. panel.state = "ready" BY DEF Quiet
    <2> QED BY <2>1, <2>2 DEF ReplayInv, Unraced
  <1> QED BY <1>1, ReplayInvariant, PTL

(* And its thread is the transcript: the newest events in order, without a *)
(* gap or a repetition, and at least as many as a first replay holds.      *)
THEOREM PanelsAreExact == ReplaySpec => []PanelIsExactUnlessRaced
  <1>1. ReplayInv => PanelIsExactUnlessRaced
    <2> SUFFICES ASSUME ReplayInv, Quiet, ~raced, ~cut PROVE Exact
      BY DEF PanelIsExactUnlessRaced
    <2>1. seen = total BY QuietHasAll
    <2>2. panel.state = "ready" BY DEF Quiet
    <2>3. UpTo(total) /\ Enough(total) BY <2>1, <2>2 DEF ReplayInv, Unraced
    <2>4. total \in Nat /\ REPLAY_LIMIT \in Nat BY ReplayAssumption DEF ReplayInv, ReplayTypeOK
    <2>5. Len(shown) \in Nat BY LenProperties DEF ReplayInv, ReplayTypeOK
    <2> QED BY <2>3, <2>4, <2>5 DEF Exact, Contiguous, UpTo, Enough
  <1> QED BY <1>1, ReplayInvariant, PTL
=============================================================================
