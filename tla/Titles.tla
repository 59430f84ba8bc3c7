------------------------------- MODULE Titles -------------------------------
(***************************************************************************)
(* How a session names itself (daemon/src/titler.ts, maybeRetitle of       *)
(* session.ts, rename of registry.ts).  After a completed turn a look at   *)
(* the transcript asks a model for a name; the answer comes back later, in *)
(* a session that may have been renamed, cleared or looked at again since. *)
(*                                                                         *)
(* A name is the set of the stems of its words, which is all that          *)
(* isMaterialChange sees of it; the project tag is the same throughout.    *)
(***************************************************************************)
EXTENDS Naturals, Sequences, FiniteSets, SequencesExt

CONSTANTS
    Names,              \* names the model may propose and a user may choose
    Placeholder,        \* the name a session is created with
    NoName,             \* no pending proposal; no answer
    MAX_PAST_TITLES,    \* how many names left behind are remembered
    OPENING_EVENTS,     \* how much of the conversation's beginning a look reads
    SLICE_EVENTS,       \* how much it reads at each of three points of it
    RECENT_EVENTS,      \* how many of the newest events it reads (150 in the code)
    MaxEvents,          \* bound on the transcript
    MaxLooks,           \* bound on the looks
    MaxClears           \* bound on the conversations a session holds

ASSUME TitlesAssumption ==
    /\ NoName \notin Names \cup {Placeholder}
    /\ {MAX_PAST_TITLES, OPENING_EVENTS, SLICE_EVENTS, RECENT_EVENTS} \subseteq Nat \ {0}
    /\ {MaxEvents, MaxLooks, MaxClears} \subseteq Nat

VARIABLES
    title,          \* meta.title
    pastTitles,     \* meta.pastTitles
    pendingTitle,   \* meta.pendingTitle
    titledAt,       \* meta.titledAt: "never", "recently" or "long ago"
    titleSetByUser, \* meta.titleSetByUser
    events,         \* events in the transcript
    clearedAt,      \* meta.clearedAt
    looks,          \* looks that wait for the model's answer
    started,        \* number of looks so far
    clears,         \* number of clears so far
    worn,           \* history: the newest names it gave itself in this conversation
    userTitle,      \* history: the name the user chose last
    racedName,      \* history: a look was under way when they chose it
    stray           \* history: an answer came after a clear or after a later answer

titleMeta  == <<title, pastTitles, pendingTitle, titledAt, titleSetByUser>>
titleLog   == <<events, clearedAt, clears>>
titlesVars == <<titleMeta, titleLog, looks, started, worn, userTitle, racedName, stray>>

-----------------------------------------------------------------------------
(* titler.ts                                                               *)

(* Less than half of the new name's words are in the old one. *)
IsMaterialChange(current, next) ==
    next # {} /\ 2 * Cardinality(current \cap next) < Cardinality(next)

(* The half-open ranges a look reads, of the conversation from clearedAt. *)
UpTo(start, length) ==
    start .. ((IF start + length < events THEN start + length ELSE events) - 1)

NamingWindow ==
    LET from == IF clearedAt < events THEN clearedAt ELSE events
        at(hundredths) == from + ((events - from) * hundredths) \div 100
    IN UpTo(from, OPENING_EVENTS) \cup UNION {UpTo(at(h), SLICE_EVENTS) : h \in {0, 34, 67}}

(* eventsSince(0, 150): the newest events, whichever conversation they are of. *)
Recent ==
    (IF events > RECENT_EVENTS THEN events - RECENT_EVENTS ELSE 0) .. (events - 1)

LookReads == NamingWindow \cup Recent

TitleIsDue_Always(parked) == ~parked /\ titledAt # "recently"

TitleIsDue(parked) == ~titleSetByUser /\ ~parked /\ titledAt # "recently"

DecideRename_OnlyCurrent(firstNaming, proposed) ==
    IF ~IsMaterialChange(title, proposed) THEN "same"
    ELSE IF firstNaming THEN "first"
    ELSE IF pendingTitle # NoName /\ ~IsMaterialChange(pendingTitle, proposed) THEN "confirmed"
    ELSE "unconfirmed"

(* "Never go back" and "two looks must agree". *)
DecideRename(firstNaming, proposed) ==
    IF ~IsMaterialChange(title, proposed) THEN "same"
    ELSE IF firstNaming THEN "first"
    ELSE IF \E i \in DOMAIN pastTitles : ~IsMaterialChange(pastTitles[i], proposed) THEN "returns"
    ELSE IF pendingTitle # NoName /\ ~IsMaterialChange(pendingTitle, proposed) THEN "confirmed"
    ELSE "unconfirmed"

Newest(seq, n) == SubSeq(seq, (IF Len(seq) > n THEN Len(seq) - n ELSE 0) + 1, Len(seq))

(* Of the names remembered, those that the one left behind does not reword. *)
OthersThan(left, past) ==
    FlattenSeq([i \in 1..Len(past) |->
        IF IsMaterialChange(past[i], left) THEN <<past[i]>> ELSE <<>>])

RememberTitle(past, left) == Newest(Append(OthersThan(left, past), left), MAX_PAST_TITLES)

-----------------------------------------------------------------------------

TitlesInit ==
    /\ title = Placeholder
    /\ pastTitles = <<>>
    /\ pendingTitle = NoName
    /\ titledAt = "never"
    /\ titleSetByUser = FALSE
    /\ events = 0
    /\ clearedAt = 0
    /\ looks = {}
    /\ started = 0
    /\ clears = 0
    /\ worn = <<>>
    /\ userTitle = NoName
    /\ racedName = FALSE
    /\ stray = FALSE

(* A turn completes: its events are recorded and maybeRetitle runs up to   *)
(* the await.  titledAt is set before the model is asked.                  *)
CompleteTurn(parked) ==
    /\ events < MaxEvents
    /\ events' = events + 1
    /\ IF TitleIsDue(parked)
       THEN /\ started < MaxLooks
            /\ started' = started + 1
            /\ looks' = looks \cup {[n |-> started + 1, firstNaming |-> titledAt = "never",
                                     era |-> clears]}
            /\ titledAt' = "recently"
       ELSE UNCHANGED <<started, looks, titledAt>>
    /\ UNCHANGED <<title, pastTitles, pendingTitle, titleSetByUser, clearedAt, clears, worn,
                   userTitle, racedName, stray>>

(* RETITLE_AFTER_MS go by. *)
TimePasses ==
    /\ titledAt = "recently"
    /\ titledAt' = "long ago"
    /\ UNCHANGED <<title, pastTitles, pendingTitle, titleSetByUser, titleLog, looks, started,
                   worn, userTitle, racedName, stray>>

(* An answer that does not come in order: see `stray`. *)
Stray(look) == look.era # clears \/ \E other \in looks : other.n < look.n

(* generateTitle: a name, or nothing for an error, a refusal, or a         *)
(* transcript that says nothing.                                           *)
Proposals == Names \cup {NoName}

(* maybeRetitle after the await. *)
Answered(look, name) ==
    LET decision == DecideRename(look.firstNaming, name) IN
    /\ look \in looks
    /\ looks' = looks \ {look}
    /\ stray' = (stray \/ Stray(look))
    /\ IF name = NoName
       THEN UNCHANGED <<title, pastTitles, pendingTitle, worn>>
       ELSE IF decision \in {"first", "confirmed"}
       THEN /\ title' = name
            /\ pastTitles' = IF look.firstNaming THEN pastTitles
                             ELSE RememberTitle(pastTitles, title)
            /\ pendingTitle' = NoName
            /\ worn' = Newest(Append(worn, name), MAX_PAST_TITLES + 2)
       ELSE /\ pendingTitle' = IF decision = "unconfirmed" THEN name ELSE NoName
            /\ UNCHANGED <<title, pastTitles, worn>>
    /\ UNCHANGED <<titledAt, titleSetByUser, titleLog, started, userTitle, racedName>>

(* A /clear or /new message: another conversation begins in this session. *)
Clear ==
    /\ events < MaxEvents /\ clears < MaxClears
    /\ clearedAt' = events
    /\ events' = events + 1
    /\ clears' = clears + 1
    /\ titledAt' = "never"
    /\ pastTitles' = <<>>
    /\ pendingTitle' = NoName
    /\ worn' = <<>>
    /\ UNCHANGED <<title, titleSetByUser, looks, started, userTitle, racedName, stray>>

(* renameSession: the user names the session, at any moment. *)
RenameByUser(name) ==
    /\ name # title
    /\ title' = name
    /\ titleSetByUser' = TRUE
    /\ userTitle' = name
    /\ racedName' = (looks # {})
    /\ UNCHANGED <<pastTitles, pendingTitle, titledAt, titleLog, looks, started, worn, stray>>

(* The daemon restarts.  Every change of the meta was saved as it was made *)
(* (onMetaChanged, onRetitled); the looks under way are lost.              *)
TitlesRestart ==
    /\ looks # {}
    /\ looks' = {}
    /\ UNCHANGED <<titleMeta, titleLog, started, worn, userTitle, racedName, stray>>

TitlesNext ==
    \/ \E parked \in BOOLEAN : CompleteTurn(parked)
    \/ TimePasses
    \/ \E look \in looks, name \in Proposals : Answered(look, name)
    \/ Clear
    \/ \E name \in Names : RenameByUser(name)
    \/ TitlesRestart

TitlesSpec == TitlesInit /\ [][TitlesNext]_titlesVars

-----------------------------------------------------------------------------
(* Properties                                                              *)

TitlesTypeOK ==
    /\ title \in Names \cup {Placeholder}
    /\ pastTitles \in Seq(Names \cup {Placeholder}) /\ Len(pastTitles) <= MAX_PAST_TITLES
    /\ pendingTitle \in Names \cup {NoName}
    /\ titledAt \in {"never", "recently", "long ago"}
    /\ {titleSetByUser, racedName, stray} \subseteq BOOLEAN
    /\ clearedAt \in 0..events
    /\ looks \subseteq [n : 1..started, firstNaming : BOOLEAN, era : 0..clears]

(* "A name you chose yourself is never replaced by one of these", for a    *)
(* name chosen while no look is under way: no look of before the rename,   *)
(* and none of after it, replaces it, whatever is cleared or restarted.    *)
(* maybeRetitle does not check again after the await, so a look under way  *)
(* does replace it.                                                        *)
UserTitleIsKept == titleSetByUser /\ ~racedName => title = userTitle

(* "Never go back": no name is taken that is a rewording of one of the     *)
(* last names the conversation wore, as long as no user names it and the   *)
(* answers come in order.  The memory is a list that rememberTitle filters *)
(* and cuts, so this needs the filter to drop nothing that a later name    *)
(* could be a return to.                                                   *)
NeverGoesBack ==
    ~stray /\ ~titleSetByUser => \A i, j \in DOMAIN worn : i < j => IsMaterialChange(worn[i], worn[j])

(* A cleared conversation is named for itself once it is as long as what   *)
(* a look takes for recent: nothing before the clear is read from then on. *)
OldWordsFade == events - clearedAt >= RECENT_EVENTS => \A i \in LookReads : i >= clearedAt

(* Together: names come from the conversation at hand, and move on. *)
NamesFollowTheTalk == NeverGoesBack /\ OldWordsFade
=============================================================================
