------------------------------ MODULE Preview -------------------------------
(***************************************************************************)
(* The end of a panel's thread while Claude writes (extension/media/       *)
(* chat.js, fed by handleMessage of session.ts): streamed text as          *)
(* previews, the finished block that replaces them, and the working row.   *)
(*                                                                         *)
(* Text streams in pieces and only the finished block is recorded.  Tool   *)
(* calls, cards and user messages split the previews; subagents write      *)
(* finished blocks of their own in between; a turn may end in the middle   *)
(* of a block; the panel may attach again at any moment.                   *)
(***************************************************************************)
EXTENDS Naturals, Sequences, FiniteSets, SequencesExt

CONSTANTS
    MaxBlocks,      \* bound on the main thread's blocks of text
    MaxPieces       \* bound on the pieces of a block

ASSUME PreviewAssumption == MaxBlocks \in Nat \ {0} /\ MaxPieces \in Nat \ {0}

VARIABLES
    status,         \* the session's status is "running"
    block,          \* the block being written, or to be written next
    streamed,       \* its pieces streamed so far
    finished,       \* the blocks in the transcript
    previewEls,     \* the previews, each the sequence of its pieces
    streamingEl,    \* the last of them still grows
    texts,          \* how often each finished block is in the thread
    settled,        \* per block, the pieces kept as permanent text
    workingRow,     \* the working row is shown
    sending,        \* a message was sent from here and not yet answered for
    heardFrom,      \* history: pieces of the block that this panel missed
    cutText,            \* history: per block cut off, what this panel had heard of it
    torn,           \* history: blocks whose previews lost pieces or began with others
    rowLies          \* history: the row was put up for a turn that is not reported

turnVars    == <<status, block, streamed, finished>>
threadVars  == <<previewEls, streamingEl, texts, settled>>
previewVars == <<turnVars, threadVars, workingRow, sending, heardFrom, cutText, torn, rowLies>>

Blocks == 1..MaxBlocks
Pieces(b, from, to) == [i \in 1..(to - from) |-> <<b, from + i>>]

PreviewInit ==
    /\ status = FALSE /\ block = 1 /\ streamed = 0 /\ finished = {}
    /\ previewEls = <<>> /\ streamingEl = FALSE
    /\ texts = [b \in Blocks |-> 0]
    /\ settled = [b \in Blocks |-> <<>>]
    /\ workingRow = FALSE /\ sending = FALSE
    /\ heardFrom = 0 /\ cutText = settled /\ torn = {} /\ rowLies = FALSE

-----------------------------------------------------------------------------
(* chat.js                                                                 *)

(* endStreaming: the next piece begins a preview of its own. *)
EndStreaming == streamingEl' = FALSE /\ UNCHANGED previewEls

DropPreviews == previewEls' = <<>> /\ streamingEl' = FALSE

(* setRunning: the working row goes up or comes down. *)
SetRunning(running) == workingRow' = running

SettlePreviews_Drops == DropPreviews /\ UNCHANGED settled

(* settlePreviews: what streamed stays as permanent text. *)
SettlePreviews ==
    /\ DropPreviews
    /\ settled' = [settled EXCEPT ![block] = @ \o FlattenSeq(previewEls)]

-----------------------------------------------------------------------------
(* What the session publishes, as it arrives                               *)

(* send of chat.js: the row goes up before anything is known. *)
ClickSend ==
    /\ ~sending
    /\ sending' = TRUE /\ SetRunning(TRUE)
    /\ UNCHANGED <<turnVars, threadVars, heardFrom, cutText, torn, rowLies>>

(* The message is recorded and the turn begins, or joins the one running. *)
SendArrives ==
    /\ sending
    /\ sending' = FALSE
    /\ status' = TRUE /\ SetRunning(TRUE)
    /\ EndStreaming
    /\ UNCHANGED <<block, streamed, finished, texts, settled, heardFrom, cutText, torn, rowLies>>

(* The daemon could not be reached: a warning, and nothing comes back. *)
SendLost ==
    /\ sending
    /\ sending' = FALSE
    /\ rowLies' = (rowLies \/ ~status)
    /\ UNCHANGED <<turnVars, threadVars, workingRow, heardFrom, cutText, torn>>

(* A text delta of the main thread.  It may precede the status: the CLI    *)
(* begins a turn of its own, or goes on after an empty result.             *)
Delta ==
    /\ streamed < MaxPieces
    /\ streamed' = streamed + 1
    /\ IF streamingEl
       THEN /\ previewEls' = [previewEls EXCEPT ![Len(previewEls)] = Append(@, <<block, streamed'>>)]
            /\ UNCHANGED <<streamingEl, workingRow>>
       ELSE /\ previewEls' = Append(previewEls, << <<block, streamed'>> >>)
            /\ streamingEl' = TRUE /\ SetRunning(TRUE)
    /\ UNCHANGED <<status, block, finished, texts, settled, sending, heardFrom, cutText, torn, rowLies>>

(* assistant_text of the main thread: the block is recorded. *)
AssistantText ==
    /\ streamed > 0 /\ block < MaxBlocks
    /\ status' = TRUE /\ SetRunning(TRUE)
    /\ finished' = finished \cup {block}
    /\ texts' = [texts EXCEPT ![block] = @ + 1]
    /\ DropPreviews
    /\ block' = block + 1 /\ streamed' = 0 /\ heardFrom' = 0
    /\ UNCHANGED <<settled, sending, cutText, torn, rowLies>>

(* assistant_text of a subagent: it drops the main thread's previews too. *)
SubagentText ==
    /\ status
    /\ DropPreviews
    /\ torn' = IF previewEls = <<>> THEN torn ELSE torn \cup {block}
    /\ UNCHANGED <<turnVars, texts, settled, workingRow, sending, heardFrom, cutText, rowLies>>

(* A tool call, a permission request or a question. *)
Splits ==
    /\ status /\ streamingEl
    /\ EndStreaming
    /\ UNCHANGED <<turnVars, texts, settled, workingRow, sending, heardFrom, cutText, torn, rowLies>>

(* result, or the status idle or error: the turn is over, wherever it was. *)
(* The text cut off is not recorded.                                       *)
TurnEnds ==
    /\ status /\ block < MaxBlocks
    /\ status' = FALSE
    /\ SettlePreviews
    /\ SetRunning(FALSE)
    /\ block' = IF streamed > 0 THEN block + 1 ELSE block
    /\ streamed' = 0 /\ heardFrom' = 0
    /\ cutText' = [cutText EXCEPT ![block] = Pieces(block, heardFrom, streamed)]
    /\ rowLies' = FALSE
    /\ UNCHANGED <<finished, texts, sending, torn>>

(* The CLI goes away when it has streamed but not yet said anything: the   *)
(* status was not "running", so nothing is published, and the next block   *)
(* is written behind what is left.                                         *)
GoesUnreported ==
    /\ ~status /\ streamed > 0 /\ block < MaxBlocks
    /\ block' = block + 1 /\ streamed' = 0 /\ heardFrom' = 0
    /\ torn' = torn \cup {block, block + 1}
    /\ rowLies' = TRUE
    /\ UNCHANGED <<status, finished, threadVars, workingRow, sending, cutText>>

(* setRunning(info.status) behind the replayed events. *)
RowAfterReplay == status

(* The panel attaches again: resetThread, the transcript, and the row by   *)
(* the session's status.  What streamed so far is in neither.              *)
Reattach ==
    /\ DropPreviews
    /\ texts' = [b \in Blocks |-> IF b \in finished THEN 1 ELSE 0]
    /\ settled' = [b \in Blocks |-> <<>>]
    /\ SetRunning(RowAfterReplay)
    /\ heardFrom' = streamed
    /\ cutText' = settled'
    /\ torn' = torn \ {block}
    /\ rowLies' = FALSE
    /\ UNCHANGED <<turnVars, sending>>

PreviewNext ==
    \/ ClickSend
    \/ SendArrives
    \/ SendLost
    \/ Delta
    \/ AssistantText
    \/ SubagentText
    \/ Splits
    \/ TurnEnds
    \/ GoesUnreported
    \/ Reattach

PreviewSpec == PreviewInit /\ [][PreviewNext]_previewVars

-----------------------------------------------------------------------------
(* Every finished block is in the thread once, and no fragment of it is    *)
(* left beside it ("a preview must never be left behind as permanent       *)
(* DOM"); what a panel heard of the block being written is there in order, *)
(* however it was split, and stays if the turn is cut off ("Render what    *)
(* streamed rather than discarding the user's text").  Only a subagent's   *)
(* text takes it away, and a CLI that goes unreported leaves it behind.    *)
ThreadShowsTheText ==
    /\ \A b \in finished : texts[b] = 1 /\ \A c \in Blocks, i \in 1..MaxPieces :
         <<b, i>> \notin ToSet(settled[c]) \cup ToSet(FlattenSeq(previewEls))
    /\ \A b \in Blocks \ finished : texts[b] = 0
    /\ \A b \in Blocks \ torn : settled[b] = cutText[b]
    /\ block \notin torn => FlattenSeq(previewEls) = Pieces(block, heardFrom, streamed)

(* Between turns nothing streams and the row is down; in a turn it is up:  *)
(* the row lies only about a message that never arrived and about a turn   *)
(* whose CLI went away before the session called it running.               *)
WorkingRowIsTrue ==
    /\ status => workingRow
    /\ workingRow => status \/ sending \/ streamed > 0 \/ rowLies
    /\ ~status /\ streamed = 0 => previewEls = <<>> \/ rowLies

(* Together: the end of the thread is the turn as far as the panel heard. *)
PanelShowsTheTurn == ThreadShowsTheText /\ WorkingRowIsTrue
=============================================================================
