------------------------------ MODULE Composer ------------------------------
(***************************************************************************)
(* The attachments of the next message: the webview's composer and chips   *)
(* (extension/media/chat.js) and the list the panel keeps for it           *)
(* (extension/src/chatPanel.ts).  A file comes in chunks from the browser, *)
(* each acknowledged before the next, or whole from the server's own disk. *)
(* The list goes with the message and is emptied when the daemon has       *)
(* answered, which is several steps later.                                 *)
(***************************************************************************)
EXTENDS Naturals, Sequences, SequencesExt

CONSTANTS
    Files,          \* files the user attaches, each once
    ChunksOf,       \* chunks a file is sent in; 0 for one picked on the server
    MaxClicks       \* bound on the clicks on the send button and the crosses

ASSUME ComposerAssumption ==
    /\ ChunksOf \in [Files -> Nat]
    /\ MaxClicks \in Nat

VARIABLES
    posted,             \* webview: chunks of each file posted so far
    received,           \* panel: chunks of each file received (entry.uploads)
    attached,           \* history: files that reached the list
    pendingAttachments, \* entry.pendingAttachments
    posts,              \* 'attachments' messages on their way to the webview
    chips,              \* the list the webview shows
    inbox,              \* 'send' and 'removeAttachment' on their way to the panel
    flights,            \* sendMessage requests not yet answered
    clicks,             \* clicks so far (bound)
    recorded,           \* in how many recorded messages each file is
    removed,            \* history: files taken off the list by its cross
    caught             \* history: files caught by one of the known races

uploadVars   == <<posted, received>>
webviewVars  == <<chips, inbox>>
composerVars == <<uploadVars, attached, pendingAttachments, posts, webviewVars, flights, clicks,
                  recorded, removed, caught>>

Underway(f) == {s \in flights : f \in ToSet(s.files)}

ComposerInit ==
    /\ posted = [f \in Files |-> 0]
    /\ received = [f \in Files |-> 0]
    /\ attached = {}
    /\ pendingAttachments = <<>>
    /\ posts = <<>> /\ chips = <<>> /\ inbox = <<>>
    /\ flights = {}
    /\ clicks = 0
    /\ recorded = [f \in Files |-> 0]
    /\ removed = {}
    /\ caught = {}

(* postChips: the webview is sent the whole list. *)
PostChips(list) == posts' = Append(posts, list)

(* A file joins the list.  One that joins while a message is on its way    *)
(* goes when that is answered, although it was not in it.                  *)
JoinList(f) ==
    /\ attached' = attached \cup {f}
    /\ pendingAttachments' = Append(pendingAttachments, f)
    /\ caught' = IF flights = {} THEN caught ELSE caught \cup {f}
    /\ PostChips(pendingAttachments')

(* sendOneFile posts the first chunk, uploadAck the next: one at a time. *)
PostChunk(f) ==
    /\ posted[f] = received[f] /\ posted[f] < ChunksOf[f]
    /\ posted' = [posted EXCEPT ![f] = @ + 1]
    /\ UNCHANGED <<received, attached, pendingAttachments, posts, webviewVars, flights, clicks,
                   recorded, removed, caught>>

(* uploadChunk: acknowledged, and the last one attaches the file. *)
UploadChunk(f) ==
    /\ received[f] < posted[f]
    /\ received' = [received EXCEPT ![f] = @ + 1]
    /\ IF received'[f] < ChunksOf[f]
       THEN UNCHANGED <<attached, pendingAttachments, caught, posts>>
       ELSE JoinList(f)
    /\ UNCHANGED <<posted, webviewVars, flights, clicks, recorded, removed>>

(* pickAttachment: a file of the server. *)
PickAttachment(f) ==
    /\ ChunksOf[f] = 0 /\ f \notin attached
    /\ JoinList(f)
    /\ UNCHANGED <<uploadVars, webviewVars, flights, clicks, recorded, removed>>

RenderChips ==
    /\ posts # <<>>
    /\ chips' = Head(posts) /\ posts' = Tail(posts)
    /\ UNCHANGED <<uploadVars, attached, pendingAttachments, inbox, flights, clicks, recorded,
                   removed, caught>>

(* A click on a chip's cross names the chip by its place. *)
ClickRemove(i) ==
    /\ i \in DOMAIN chips /\ clicks < MaxClicks
    /\ clicks' = clicks + 1
    /\ inbox' = Append(inbox, [op |-> "remove", index |-> i, meant |-> chips[i]])
    /\ UNCHANGED <<uploadVars, attached, pendingAttachments, posts, chips, flights, recorded,
                   removed, caught>>

(* send: the box is emptied at once. *)
PressSend ==
    /\ clicks < MaxClicks
    /\ clicks' = clicks + 1
    /\ inbox' = Append(inbox, [op |-> "send", n |-> clicks])
    /\ UNCHANGED <<uploadVars, attached, pendingAttachments, posts, chips, flights, recorded,
                   removed, caught>>

(* removeAttachment: whatever is in that place by now. *)
HandleRemove ==
    LET msg == Head(inbox) IN
    /\ inbox # <<>> /\ msg.op = "remove"
    /\ inbox' = Tail(inbox)
    /\ IF msg.index \in DOMAIN pendingAttachments
       THEN LET gone == pendingAttachments[msg.index] IN
            /\ pendingAttachments' = RemoveAt(pendingAttachments, msg.index)
            /\ removed' = removed \cup {gone}
            /\ caught' = IF gone = msg.meant THEN caught ELSE caught \cup {gone}
       ELSE UNCHANGED <<pendingAttachments, removed, caught>>
    /\ PostChips(pendingAttachments')
    /\ UNCHANGED <<uploadVars, attached, chips, flights, clicks, recorded>>

HandleSend_ClearsFirst ==
    /\ inbox # <<>> /\ Head(inbox).op = "send"
    /\ inbox' = Tail(inbox)
    /\ flights' = flights \cup {[n |-> Head(inbox).n, files |-> pendingAttachments]}
    /\ pendingAttachments' = <<>>
    /\ UNCHANGED <<uploadVars, attached, posts, chips, clicks, recorded, removed, caught>>

(* The panel's 'send': the request carries the list as it is now.  A file  *)
(* that is already on its way goes a second time.                          *)
HandleSend ==
    /\ inbox # <<>> /\ Head(inbox).op = "send"
    /\ inbox' = Tail(inbox)
    /\ flights' = flights \cup {[n |-> Head(inbox).n, files |-> pendingAttachments]}
    /\ caught' = caught \cup {f \in ToSet(pendingAttachments) : Underway(f) # {}}
    /\ UNCHANGED <<uploadVars, attached, pendingAttachments, posts, chips, clicks, recorded,
                   removed>>

(* No daemon: a warning, and the message is gone from the box. *)
SendUnreachable ==
    /\ inbox # <<>> /\ Head(inbox).op = "send"
    /\ inbox' = Tail(inbox)
    /\ UNCHANGED <<uploadVars, attached, pendingAttachments, posts, chips, flights, clicks,
                   recorded, removed, caught>>

RecordFiles(s) == recorded' = [f \in Files |-> recorded[f] + (IF f \in ToSet(s.files) THEN 1 ELSE 0)]

(* The daemon's answer empties the list, whatever is in it by now. *)
SendAnswered(s) ==
    /\ s \in flights
    /\ flights' = flights \ {s}
    /\ RecordFiles(s)
    /\ pendingAttachments' = <<>>
    /\ PostChips(<<>>)
    /\ UNCHANGED <<uploadVars, attached, webviewVars, clicks, removed, caught>>

(* The connection is lost or the request times out: the list stays.  The   *)
(* daemon may have recorded the message, which the panel cannot know.      *)
SendRejected(s, arrived) ==
    /\ s \in flights
    /\ flights' = flights \ {s}
    /\ IF arrived THEN RecordFiles(s) /\ caught' = caught \cup ToSet(s.files)
       ELSE UNCHANGED <<recorded, caught>>
    /\ UNCHANGED <<uploadVars, attached, pendingAttachments, posts, webviewVars, clicks, removed>>

ComposerNext ==
    \/ \E f \in Files : PostChunk(f) \/ UploadChunk(f) \/ PickAttachment(f)
    \/ RenderChips
    \/ \E i \in DOMAIN chips : ClickRemove(i)
    \/ PressSend
    \/ HandleRemove
    \/ HandleSend
    \/ SendUnreachable
    \/ \E s \in flights : SendAnswered(s)
    \/ \E s \in flights, arrived \in BOOLEAN : SendRejected(s, arrived)

ComposerSpec == ComposerInit /\ [][ComposerNext]_composerVars

-----------------------------------------------------------------------------

(* What the user attached goes in exactly one message unless they took it  *)
(* off: it waits in the list through sends that fail, and leaves with the  *)
(* one that arrives.  The races that break this are named by `caught`:    *)
(* attached while a message was on its way (lost), on its way twice, or in *)
(* one that arrived without an answer (sent twice), and a cross clicked on *)
(* a list that had changed (another file is taken off).                    *)
AttachmentGoesOnce ==
    \A f \in attached \ caught :
        /\ received[f] = ChunksOf[f]
        /\ recorded[f] <= 1
        /\ f \notin removed =>
             (recorded[f] = 1) = (f \notin ToSet(pendingAttachments))
=============================================================================
