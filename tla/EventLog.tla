------------------------------ MODULE EventLog ------------------------------
(***************************************************************************)
(* The transcript of one session (appendEvent and its readers in           *)
(* daemon/src/session.ts, daemon/src/logStore.ts): an append-only log that *)
(* is rotated into archives, the tail of it that is kept in memory, the    *)
(* sequence numbers clients resume from, and the message ids that make a   *)
(* phone's retry harmless.                                                 *)
(*                                                                         *)
(* Appending is synchronous, so it is one step; a crash may come in the    *)
(* middle of the write, and a write may fail.                              *)
(***************************************************************************)
EXTENDS Integers, SequencesExt

CONSTANTS
    MAX_TAIL,           \* events kept in memory
    ROTATE_THRESHOLD,   \* events in the active file before it is archived
    MsgIds,             \* clientMessageIds
    NoMsg,              \* an event that is no message with an id
    Faults,             \* whether writes may fail or be cut short
    MaxLogEvents,          \* bound: events offered to the log
    MaxRestarts         \* bound: restarts of the daemon

ASSUME EventLogAssumption ==
    /\ MAX_TAIL \in Nat \ {0} /\ ROTATE_THRESHOLD \in Nat \ {0}
    /\ MaxLogEvents \in Nat /\ MaxRestarts \in Nat
    /\ NoMsg \notin MsgIds
    /\ Faults \in BOOLEAN

VARIABLES
    archives,       \* the files <id>.jsonl.<n>, oldest first
    active,         \* the lines of <id>.jsonl
    unended,        \* the active file ends without a newline: "no", after a
                    \* "fragment", or after a "whole" event
    tail,           \* newest events, oldest first
    totalCount,     \* the next sequence number
    activeCount,    \* valid events in the active file
    life,           \* "up", "down", or "deleted"
    written,        \* history: the events appended and announced to clients
    offered,        \* how many events were offered
    restarts,
    faults          \* history: writes that failed or were cut short

logVars == <<archives, active, unended, tail, totalCount, activeCount, life, written, offered,
          restarts, faults>>

disk   == <<archives, active, unended>>
memory == <<tail, totalCount, activeCount>>

-----------------------------------------------------------------------------
(* logStore.ts                                                             *)

(* `no` tells apart events that are alike. *)
Events == [seq : Nat, mid : MsgIds \cup {NoMsg}, no : Nat]

(* A line that parseLine skips. *)
Corrupt == [seq |-> -1, mid |-> NoMsg, no |-> -1]

Parse(line) == IF line = Corrupt THEN << >> ELSE <<line>>

Valid(file) == FlattenSeq([i \in 1..Len(file) |-> Parse(file[i])])

(* allLogFiles: archives first, the active file last. *)
AllLogFiles == Append(archives, active)

ValidEvents == FlattenSeq([i \in 1..Len(AllLogFiles) |-> Valid(AllLogFiles[i])])

(* The newest n: the in-memory tail is cut to MAX_TAIL. *)
LastOf(seq, n) == SubSeq(seq, Max({1, Len(seq) - n + 1}), Len(seq))

(* Positions start .. end - 1 of the valid events, counted from zero. *)
ReadRange(start, end) == SubSeq(ValidEvents, start + 1, Min({end, Len(ValidEvents)}))

-----------------------------------------------------------------------------
(* Reading                                                                 *)

EventsSince(seq, limit) ==
    LET start     == Max({seq, totalCount - limit})
        tailStart == totalCount - Len(tail)
    IN  IF seq >= totalCount THEN [events |-> << >>, hasEarlier |-> FALSE]
        ELSE [ events |-> IF start >= tailStart
                          THEN SubSeq(tail, start - tailStart + 1, Len(tail))
                          ELSE ReadRange(start, totalCount),
               hasEarlier |-> start > seq ]

EventsBefore(beforeSeq, limit) ==
    LET end       == Min({beforeSeq, totalCount})
        start     == Max({0, end - limit})
        tailStart == totalCount - Len(tail)
    IN  IF end <= start THEN [events |-> << >>, hasEarlier |-> FALSE]
        ELSE [ events |-> IF start >= tailStart
                          THEN SubSeq(tail, start - tailStart + 1, end - tailStart)
                          ELSE ReadRange(start, end),
               hasEarlier |-> start > 0 ]

HasClientMessage(mid) == \E i \in 1..Len(tail) : tail[i].mid = mid

-----------------------------------------------------------------------------

LogInit ==
    /\ archives = << >> /\ active = << >> /\ unended = "no"
    /\ tail = << >> /\ totalCount = 0 /\ activeCount = 0
    /\ life = "up"
    /\ written = << >> /\ offered = 0 /\ restarts = 0 /\ faults = 0

(* rotateIfNeeded, on a log whose active file is `lines` and holds `count` *)
(* valid events.  A rename that fails leaves the file in place.            *)
Rotate_DropsArchive(lines, count, ended) ==
    \/ /\ count >= ROTATE_THRESHOLD
       /\ archives' = <<lines>>
       /\ active' = << >> /\ activeCount' = 0 /\ unended' = "no"
    \/ /\ count < ROTATE_THRESHOLD
       /\ UNCHANGED archives
       /\ active' = lines /\ activeCount' = count /\ unended' = ended

Rotate(lines, count, ended) ==
    \/ /\ count >= ROTATE_THRESHOLD
       /\ archives' = Append(archives, lines)
       /\ active' = << >> /\ activeCount' = 0 /\ unended' = "no"
    \/ \* below the threshold, or the rename fails
       /\ UNCHANGED archives
       /\ active' = lines /\ activeCount' = count /\ unended' = ended

Event(mid) == [seq |-> totalCount, mid |-> mid, no |-> offered]

(* What the line written after the lines of the active file makes of it:   *)
(* an unended line before it swallows it, and is lost with it.             *)
WithLine(event) ==
    CASE unended = "no"       -> Append(active, event)
      [] unended = "fragment" -> Append(active, Corrupt)
      [] unended = "whole"    -> Append(Front(active), Corrupt)

(* appendEvent: memory first, then the file, then the clients, then the    *)
(* rotation.                                                               *)
AppendEvent(mid) ==
    /\ tail' = LastOf(Append(tail, Event(mid)), MAX_TAIL)
    /\ totalCount' = totalCount + 1
    /\ Rotate(WithLine(Event(mid)), activeCount + 1, "no")
    /\ written' = Append(written, Event(mid))
    /\ UNCHANGED <<life, restarts, faults>>

(* writeSync throws: no line, nobody is told, nothing is rotated. *)
AppendFails(mid) ==
    /\ Faults
    /\ tail' = LastOf(Append(tail, Event(mid)), MAX_TAIL)
    /\ totalCount' = totalCount + 1
    /\ faults' = faults + 1
    /\ UNCHANGED <<disk, activeCount, life, written, restarts>>

Offer == life = "up" /\ offered < MaxLogEvents /\ offered' = offered + 1

(* Whatever the agent, the tools and the daemon have to say. *)
Record ==
    /\ Offer
    /\ AppendEvent(NoMsg) \/ AppendFails(NoMsg)

(* sendMessage, first try or a retry: a message already there is dropped. *)
SendMessage(mid) ==
    /\ Offer
    /\ ~HasClientMessage(mid)
    /\ AppendEvent(mid) \/ AppendFails(mid)

(* The process ends between two events. *)
Stop ==
    /\ life = "up"
    /\ restarts < MaxRestarts
    /\ life' = "down"
    /\ restarts' = restarts + 1
    /\ tail' = << >> /\ totalCount' = 0 /\ activeCount' = 0
    /\ UNCHANGED <<disk, written, offered, faults>>

(* The process, or the machine, ends in the middle of a write. *)
Tear(mid) ==
    /\ Faults
    /\ Offer
    /\ restarts < MaxRestarts
    /\ life' = "down"
    /\ restarts' = restarts + 1
    /\ faults' = faults + 1
    /\ \E all \in BOOLEAN :      \* everything but the newline, or less
          /\ unended' = IF all /\ unended = "no" THEN "whole" ELSE "fragment"
          /\ active' = CASE unended = "no"       -> IF all THEN Append(active, Event(mid)) ELSE active
                         [] unended = "fragment" -> active
                         [] unended = "whole"    -> Front(active)
    /\ tail' = << >> /\ totalCount' = 0 /\ activeCount' = 0
    /\ UNCHANGED <<archives, written>>

(* The constructor: loadTailAndCount over all the files, then the rotation *)
(* an oversized active file is due.                                        *)
Load_NoTail ==
    /\ life = "down"
    /\ life' = "up"
    /\ tail' = << >>
    /\ totalCount' = Len(ValidEvents)
    /\ Rotate(active, Len(Valid(active)), unended)
    /\ UNCHANGED <<written, offered, restarts, faults>>

Load_ActiveOnly ==
    /\ life = "down"
    /\ life' = "up"
    /\ tail' = LastOf(Valid(active), MAX_TAIL)
    /\ totalCount' = Len(Valid(active))
    /\ Rotate(active, Len(Valid(active)), unended)
    /\ UNCHANGED <<written, offered, restarts, faults>>

Load ==
    /\ life = "down"
    /\ life' = "up"
    /\ tail' = LastOf(ValidEvents, MAX_TAIL)
    /\ totalCount' = Len(ValidEvents)
    /\ Rotate(active, Len(Valid(active)), unended)
    /\ UNCHANGED <<written, offered, restarts, faults>>

(* deleteSession removes the active file. *)
Delete ==
    /\ life = "up"
    /\ life' = "deleted"
    /\ active' = << >> /\ unended' = "no"
    /\ tail' = << >> /\ totalCount' = 0 /\ activeCount' = 0
    /\ UNCHANGED <<archives, written, offered, restarts, faults>>

LogNext ==
    \/ Record
    \/ \E mid \in MsgIds : SendMessage(mid)
    \/ Stop
    \/ \E mid \in MsgIds \cup {NoMsg} : Tear(mid)
    \/ Load
    \/ Delete

LogSpec == LogInit /\ [][LogNext]_logVars

-----------------------------------------------------------------------------
(* Properties                                                              *)

LogTypeOK ==
    /\ \A i \in 1..Len(archives) : archives[i] \in Seq(Events \cup {Corrupt})
    /\ active \in Seq(Events \cup {Corrupt})
    /\ unended \in {"no", "fragment", "whole"}
    /\ tail \in Seq(Events) /\ Len(tail) <= MAX_TAIL
    /\ {totalCount, activeCount, offered, restarts, faults} \subseteq Nat
    /\ life \in {"up", "down", "deleted"}
    /\ written \in Seq(Events)

(* What a client that attaches at `seq` must get: the newest `limit` of    *)
(* the events it has not seen.                                             *)
Missed(seq, limit) ==
    SubSeq(written, Max({seq, Len(written) - limit}) + 1, Len(written))

(* A client may know more than the log holds, and ask for more.            *)
Reach == Len(written) + 1

(* Whatever was rotated, kept in memory or reloaded after a restart, a     *)
(* client that attaches gets exactly the events it missed, in order, and   *)
(* is told whether there are more.                                         *)
ReplayIsExact ==
    life = "up" /\ faults = 0 =>
        \A seq \in 0..Reach, limit \in 1..Reach :
            /\ EventsSince(seq, limit).events = Missed(seq, limit)
            /\ EventsSince(seq, limit).hasEarlier
                 = (Len(Missed(seq, MaxLogEvents)) > Len(Missed(seq, limit)))

(* Scrolling back page by page from the newest event reaches every older   *)
(* one: pages neither overlap nor leave a gap at a file boundary.          *)
PagesJoinUp ==
    life = "up" /\ faults = 0 =>
        \A before \in 0..Len(written), limit \in 1..Reach :
            LET page == EventsBefore(before, limit)
            IN  /\ page.events = SubSeq(written, Max({0, before - limit}) + 1, before)
                /\ page.hasEarlier = (Len(page.events) < before)

(* Attaching and scrolling back together give the transcript as written. *)
ReadsAreExact == ReplayIsExact /\ PagesJoinUp

(* A message a phone sends again is recorded once, restarts included, as   *)
(* long as the first copy is among the newest MAX_TAIL events.             *)
RetryIsRecordedOnce ==
    faults = 0 =>
        \A i, j \in 1..Len(written) :
            i < j /\ written[i].mid # NoMsg /\ written[i].mid = written[j].mid
                => j - i > MAX_TAIL

(* A write that fails or is cut short takes at most one other event with   *)
(* it: the one written next to it.                                         *)
Lost == {i \in 1..Len(written) : \A k \in 1..Len(ValidEvents) : ValidEvents[k] # written[i]}

FaultCostsOneEvent == life # "deleted" => Cardinality(Lost) <= faults
=============================================================================
