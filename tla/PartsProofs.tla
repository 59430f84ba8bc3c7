---------------------------- MODULE PartsProofs -----------------------------
(***************************************************************************)
(* Proofs about the components that share no state: titles, the registry,  *)
(* the transcripts of Claude Code, the shared setup, the plan limits, the  *)
(* composer and the end of a panel's thread.  Each section strengthens one *)
(* promise of MCParts to an inductive invariant and proves it for every    *)
(* value of the constants.                                                 *)
(***************************************************************************)
EXTENDS Titles, Transcripts, SharedSetup, Composer, Preview, Registry, Limits,
        SequenceLemmas, FiniteSetTheorems

-----------------------------------------------------------------------------
(* Titles                                                                  *)

(* The user's name, chosen while no look was under way, is the title, and  *)
(* no look is under way after it: maybeRetitle starts none.                *)
UserInv == titleSetByUser /\ ~racedName => looks = {} /\ title = userTitle

(* Only an answer replaces a title, and there is none to come.             *)
LEMMA UserInvStep == UserInv /\ [TitlesNext]_titlesVars => UserInv'
<1> SUFFICES ASSUME UserInv, [TitlesNext]_titlesVars PROVE UserInv'
    OBVIOUS
<1> USE DEF UserInv
<1>1. CASE UNCHANGED titlesVars
    BY <1>1 DEF titlesVars, titleMeta, titleLog
<1>2. ASSUME NEW parked \in BOOLEAN, CompleteTurn(parked) PROVE UserInv'
    BY <1>2 DEF CompleteTurn, TitleIsDue
<1>3. CASE TimePasses
    BY <1>3 DEF TimePasses, titleLog
<1>4. ASSUME NEW look \in looks, NEW name \in Proposals, Answered(look, name) PROVE UserInv'
    <2>1. ~(titleSetByUser /\ ~racedName)
        OBVIOUS
    <2>2. UNCHANGED <<titleSetByUser, racedName>>
        BY <1>4 DEF Answered
    <2> QED
        BY <2>1, <2>2
<1>5. CASE Clear
    BY <1>5 DEF Clear
<1>6. ASSUME NEW name \in Names, RenameByUser(name) PROVE UserInv'
    BY <1>6 DEF RenameByUser
<1>7. CASE TitlesRestart
    BY <1>7 DEF TitlesRestart, titleMeta
<1> QED
    BY <1>1, <1>2, <1>3, <1>4, <1>5, <1>6, <1>7 DEF TitlesNext

(* A name the user chose while no look was under way is never replaced by  *)
(* maybeRetitle, whatever is completed, cleared or restarted later.        *)
THEOREM UserNameStands == TitlesSpec => []UserTitleIsKept
<1>1. TitlesInit => UserInv
    BY DEF TitlesInit, UserInv
<1>2. UserInv => UserTitleIsKept
    BY DEF UserInv, UserTitleIsKept
<1> QED
    BY <1>1, <1>2, UserInvStep, PTL DEF TitlesSpec

(* clearedAt is a place in the transcript. *)
ClearedWithin == events \in Nat /\ clearedAt \in Nat /\ clearedAt <= events

LEMMA ClearedStep == ClearedWithin /\ [TitlesNext]_titlesVars => ClearedWithin'
<1> SUFFICES ASSUME ClearedWithin, [TitlesNext]_titlesVars PROVE ClearedWithin'
    OBVIOUS
<1>1. \/ UNCHANGED <<events, clearedAt>>
      \/ events' = events + 1 /\ clearedAt' = clearedAt
      \/ events' = events + 1 /\ clearedAt' = events
    BY DEF TitlesNext, titlesVars, titleLog, CompleteTurn, TimePasses, Answered, Clear,
           RenameByUser, TitlesRestart
<1> QED
    BY <1>1 DEF ClearedWithin

(* Each of the ranges a look reads begins at clearedAt or later, and so do *)
(* the newest events once there are enough of them.                        *)
LEMMA LooksBehindTheClear == ClearedWithin => OldWordsFade
<1> SUFFICES ASSUME ClearedWithin, events - clearedAt >= RECENT_EVENTS,
                    NEW i \in LookReads
             PROVE  i >= clearedAt
    BY DEF OldWordsFade
<1> USE DEF ClearedWithin
<1>0. RECENT_EVENTS \in Nat
    BY TitlesAssumption
<1>1. CASE i \in Recent
    BY <1>0, <1>1 DEF Recent
<1>2. ASSUME NEW start \in Nat, NEW length, start >= clearedAt, i \in UpTo(start, length)
      PROVE  i >= clearedAt
    BY <1>2 DEF UpTo
<1>3. CASE i \in NamingWindow
    <2> DEFINE from == IF clearedAt < events THEN clearedAt ELSE events
               at(h) == from + ((events - from) * h) \div 100
    <2>1. from \in Nat /\ from = clearedAt
        OBVIOUS
    <2>2. ASSUME NEW h \in {0, 34, 67} PROVE at(h) \in Nat /\ at(h) >= clearedAt
        <3>1. PICK d \in Nat : d = (events - from) * h
            <4>1. CASE h = 0
                BY <2>1, <4>1
            <4>2. CASE h = 34
                BY <2>1, <4>2
            <4>3. CASE h = 67
                BY <2>1, <4>3
            <4> QED
                BY <4>1, <4>2, <4>3
        <3>2. d \div 100 \in Nat
            BY <3>1
        <3> QED
            BY <2>1, <3>1, <3>2
    <2>3. i \in UpTo(from, OPENING_EVENTS) \/ \E h \in {0, 34, 67} : i \in UpTo(at(h), SLICE_EVENTS)
        BY <1>3 DEF NamingWindow
    <2> HIDE DEF from, at
    <2> QED
        BY <1>2, <2>1, <2>2, <2>3
<1> QED
    BY <1>1, <1>3 DEF LookReads

(* Once a cleared conversation is as long as what a look takes for recent, *)
(* generateTitle reads nothing from before the clear: for every size of    *)
(* the opening, the slices and the recent events (the second half of       *)
(* NamesFollowTheTalk).                                                    *)
THEOREM OldWordsAreLeft == TitlesSpec => []OldWordsFade
<1>1. TitlesInit => ClearedWithin
    BY DEF TitlesInit, ClearedWithin
<1> QED
    BY <1>1, ClearedStep, LooksBehindTheClear, PTL DEF TitlesSpec

(* What a conversation remembers, when no user names it and the answers    *)
(* come in order.  Every name it can be a return to is the title or among  *)
(* the names left behind, in order; none of those rewords the title, so    *)
(* rememberTitle filters none of them out.                                 *)
TitleNames == Names \cup {Placeholder}
InOrder == ~stray /\ ~titleSetByUser

TitlesTypes ==
    /\ title \in TitleNames /\ pastTitles \in Seq(TitleNames) /\ worn \in Seq(TitleNames)
    /\ started \in Nat /\ clears \in Nat
    /\ looks \subseteq [n : Nat, firstNaming : BOOLEAN, era : Nat]
    /\ \A look \in looks : look.n <= started /\ look.era <= clears

(* The look that names a conversation first is its oldest one. *)
FirstLook ==
    /\ titledAt = "never" =>
         (\A look \in looks : look.era # clears) /\ (InOrder => worn = <<>>)
    /\ \A first \in looks : first.firstNaming /\ first.era = clears =>
         /\ InOrder => worn = <<>>
         /\ \A look \in looks : look # first /\ look.era = clears => look.n > first.n

Remembered ==
    /\ worn = <<>> => pastTitles = <<>>
    /\ worn # <<>> => worn[Len(worn)] = title
    /\ \A i \in 1..Len(pastTitles) : IsMaterialChange(pastTitles[i], title)
    /\ \A d \in 1..MAX_PAST_TITLES : d < Len(worn) =>
         d <= Len(pastTitles) /\ pastTitles[Len(pastTitles) + 1 - d] = worn[Len(worn) - d]
    /\ \A i, j \in 1..Len(worn) : i < j => IsMaterialChange(worn[i], worn[j])

NamesInv == TitlesTypes /\ FirstLook /\ (InOrder => Remembered)

(* Newest cuts at the front: counted from the end, nothing moves. *)
CutAtFront(t, s, x, n) ==
    /\ Len(t) \in Nat \ {0} /\ Len(t) <= n
    /\ Len(t) = IF Len(s) + 1 > n THEN n ELSE Len(s) + 1
    /\ t[Len(t)] = x
    /\ \A d \in 1..(Len(t) - 1) :
         Len(s) + 1 - d \in 1..Len(s) /\ t[Len(t) - d] = s[Len(s) + 1 - d]

LEMMA FirstCut ==
    ASSUME NEW t, NEW s, NEW x, NEW n \in Nat \ {0}, Len(s) = 0, CutAtFront(t, s, x, n)
    PROVE  Len(t) = 1 /\ t[Len(t)] = x
    BY DEF CutAtFront

LEMMA Window ==
    ASSUME NEW T, NEW a \in Seq(T), NEW m \in Int, NEW l \in Int,
           \A i \in m..l : a[i] \in T
    PROVE  /\ SubSeq(a, m, l) \in Seq(T)
           /\ Len(SubSeq(a, m, l)) = IF m <= l THEN l - m + 1 ELSE 0
           /\ \A i \in 1..(l - m + 1) : SubSeq(a, m, l)[i] = a[m + i - 1]
    BY SubSeqProperties

LEMMA NewestCounts ==
    ASSUME NEW T, NEW s \in Seq(T), NEW x \in T, NEW n \in Nat \ {0}
    PROVE  /\ Newest(Append(s, x), n) \in Seq(T)
           /\ CutAtFront(Newest(Append(s, x), n), s, x, n)
<1> DEFINE a == Append(s, x)
           t == Newest(a, n)
           k == Len(s)
           l == k + 1
           c == IF l > n THEN n ELSE l
           m == l + 1 - c
<1>1. /\ a \in Seq(T) /\ Len(a) = l /\ k \in Nat
      /\ \A i \in 1..k : a[i] = s[i]
      /\ a[l] = x
    BY AppendProperties, LenProperties
<1> HIDE DEF a, k
<1>2. /\ l \in Int /\ c \in Nat \ {0} /\ c <= n /\ c <= l /\ m \in 1..l
      /\ m = (IF l > n THEN l - n ELSE 0) + 1
    BY <1>1
<1>3. t = SubSeq(a, m, l)
    BY <1>1, <1>2 DEF Newest
<1> HIDE DEF t
<1>4. \A i \in m..l : a[i] \in T
    BY <1>1, <1>2
<1>5. m \in Int /\ m <= l /\ l - m + 1 = c
    BY <1>1, <1>2
<1> HIDE DEF c
<1>6. /\ t \in Seq(T) /\ Len(t) = c
      /\ \A i \in 1..c : t[i] = a[m + i - 1]
    <2> HIDE DEF m, l
    <2>1. /\ t \in Seq(T) /\ Len(t) = IF m <= l THEN l - m + 1 ELSE 0
          /\ \A i \in 1..(l - m + 1) : t[i] = a[m + i - 1]
        BY <1>1, <1>2, <1>3, <1>4, <1>5, Window
    <2> QED
        BY <1>5, <2>1
<1>7. t[c] = x
    <2>1. c \in 1..c /\ m + c - 1 = l
        BY <1>1, <1>2
    <2> QED
        BY <1>1, <1>6, <2>1
<1>8. ASSUME NEW d \in 1..(c - 1)
      PROVE  k + 1 - d \in 1..k /\ t[c - d] = s[k + 1 - d]
    <2>1. c - d \in 1..c /\ m + (c - d) - 1 = k + 1 - d /\ k + 1 - d \in 1..k
        BY <1>1, <1>2
    <2> HIDE DEF m, l
    <2> QED
        BY <1>1, <1>6, <2>1
<1> QED
    BY <1>2, <1>6, <1>7, <1>8 DEF CutAtFront, t, a, c, k

LEMMA OthersType ==
    ASSUME NEW T, NEW past \in Seq(T), NEW left
    PROVE  OthersThan(left, past) \in Seq(T)
<1> DEFINE f == [i \in 1..Len(past) |->
                    IF IsMaterialChange(past[i], left) THEN <<past[i]>> ELSE <<>>]
<1>1. \A i \in 1..Len(past) : <<past[i]>> \in Seq(T) /\ <<>> \in Seq(T)
    OBVIOUS
<1>2. f \in Seq(Seq(T))
    BY <1>1
<1>3. OthersThan(left, past) = FlattenSeq(f)
    BY DEF OthersThan
<1> HIDE DEF f
<1> QED
    BY <1>2, <1>3, FlattenType

LEMMA OthersAreAll ==
    ASSUME NEW T, NEW past \in Seq(T), NEW left,
           \A i \in 1..Len(past) : IsMaterialChange(past[i], left)
    PROVE  OthersThan(left, past) = past
<1>1. OthersThan(left, past) = FlattenSeq([i \in 1..Len(past) |-> <<past[i]>>])
    BY DEF OthersThan
<1> QED
    BY <1>1, FlattenSingles

(* The ghost list of the names worn takes a new one. *)
LEMMA WornCounts ==
    ASSUME NEW w \in Seq(TitleNames), NEW name \in TitleNames
    PROVE  /\ Newest(Append(w, name), MAX_PAST_TITLES + 2) \in Seq(TitleNames)
           /\ CutAtFront(Newest(Append(w, name), MAX_PAST_TITLES + 2), w, name,
                         MAX_PAST_TITLES + 2)
<1>1. MAX_PAST_TITLES + 2 \in Nat \ {0}
    BY TitlesAssumption
<1> QED
    BY <1>1, NewestCounts

(* A name is taken: it rewords neither the title nor a name remembered,    *)
(* and the title joins those.                                              *)
LEMMA NameIsTaken ==
    ASSUME TitlesTypes, Remembered, NEW name \in TitleNames,
           IsMaterialChange(title, name),
           \A i \in 1..Len(pastTitles) : IsMaterialChange(pastTitles[i], name),
           title' = name, pastTitles' = RememberTitle(pastTitles, title),
           worn' = Newest(Append(worn, name), MAX_PAST_TITLES + 2)
    PROVE  Remembered'
<1> DEFINE M == MAX_PAST_TITLES
           lp == Len(pastTitles)
           lw == Len(worn)
           kp == Len(pastTitles')
           kw == Len(worn')
<1>0. worn' = Newest(Append(worn, name), M + 2) /\ M \in Nat \ {0} /\ M + 2 \in Nat \ {0}
    BY TitlesAssumption
<1>1. /\ pastTitles \in Seq(TitleNames) /\ worn \in Seq(TitleNames) /\ title \in TitleNames
      /\ lp \in Nat /\ lw \in Nat
    BY LenProperties DEF TitlesTypes
<1>2. OthersThan(title, pastTitles) = pastTitles
    BY <1>1, OthersAreAll DEF Remembered
<1>3. pastTitles' = Newest(Append(pastTitles, title), M)
    BY <1>2 DEF RememberTitle
<1> HIDE DEF M
<1>4. /\ pastTitles' \in Seq(TitleNames) /\ kp \in Nat \ {0} /\ kp <= M
      /\ kp = (IF lp + 1 > M THEN M ELSE lp + 1)
      /\ pastTitles'[kp] = title
      /\ \A d \in 1..(kp - 1) : lp + 1 - d \in 1..lp /\ pastTitles'[kp - d] = pastTitles[lp + 1 - d]
    <2>1. pastTitles' \in Seq(TitleNames) /\ CutAtFront(pastTitles', pastTitles, title, M)
        BY <1>0, <1>1, <1>3, NewestCounts
    <2> QED
        BY <2>1 DEF CutAtFront
<1>5. /\ worn' \in Seq(TitleNames) /\ kw \in Nat \ {0} /\ kw <= M + 2 /\ kw <= lw + 1
      /\ worn'[kw] = name
      /\ \A d \in 1..(kw - 1) : lw + 1 - d \in 1..lw /\ worn'[kw - d] = worn[lw + 1 - d]
    <2>1. worn' \in Seq(TitleNames) /\ CutAtFront(worn', worn, name, M + 2)
        BY <1>0, <1>1, NewestCounts
    <2>2. kw \in Nat \ {0} /\ kw = (IF lw + 1 > M + 2 THEN M + 2 ELSE lw + 1)
        BY <2>1 DEF CutAtFront
    <2>3. kw <= lw + 1
        BY <1>0, <1>1, <2>2
    <2> QED
        BY <2>1, <2>3 DEF CutAtFront
<1>6. \A i \in 1..kp : IsMaterialChange(pastTitles'[i], name)
    <2> TAKE i \in 1..kp
    <2>1. CASE i = kp
        BY <1>4, <2>1
    <2>2. CASE i # kp
        <3>1. kp - i \in 1..(kp - 1) /\ kp - (kp - i) = i
            BY <1>4, <2>2
        <3> QED
            BY <1>4, <3>1
    <2> QED
        BY <2>1, <2>2
<1>7. ASSUME NEW d \in 1..(kw - 1)
      PROVE  /\ d = 1 => worn'[kw - d] = title
             /\ d # 1 => /\ d - 1 \in 1..M /\ d - 1 < lw /\ worn'[kw - d] = worn[lw - (d - 1)]
                         /\ d - 1 <= lp /\ worn'[kw - d] = pastTitles[lp + 1 - (d - 1)]
    <2>1. lw + 1 - d \in 1..lw /\ worn'[kw - d] = worn[lw + 1 - d]
        BY <1>5
    <2>2. ASSUME d = 1 PROVE worn'[kw - d] = title
        <3>1. worn # <<>> /\ lw + 1 - d = lw
            BY <1>1, <2>1, <2>2
        <3> QED
            BY <2>1, <3>1 DEF Remembered
    <2>3. ASSUME d # 1
          PROVE  /\ d - 1 \in 1..M /\ d - 1 < lw /\ worn'[kw - d] = worn[lw - (d - 1)]
                 /\ d - 1 <= lp /\ worn'[kw - d] = pastTitles[lp + 1 - (d - 1)]
        <3>1. d - 1 \in 1..M /\ d - 1 < lw /\ lw - (d - 1) = lw + 1 - d
            BY <1>0, <1>1, <1>5, <2>1, <2>3
        <3>2. d - 1 <= lp /\ pastTitles[lp + 1 - (d - 1)] = worn[lw - (d - 1)]
            BY <3>1 DEF Remembered, M
        <3> QED
            BY <2>1, <3>1, <3>2
    <2> QED
        BY <2>2, <2>3
<1>8. ASSUME NEW d \in 1..M, d < kw
      PROVE  d <= kp /\ pastTitles'[kp + 1 - d] = worn'[kw - d]
    <2>0. d \in 1..(kw - 1)
        BY <1>5, <1>8
    <2>1. CASE d = 1
        <3>1. d <= kp /\ kp + 1 - d = kp
            BY <1>4, <2>1
        <3> QED
            BY <1>4, <1>7, <2>0, <2>1, <3>1
    <2>2. CASE d # 1
        <3>1. d - 1 <= lp /\ worn'[kw - d] = pastTitles[lp + 1 - (d - 1)]
            BY <1>7, <2>0, <2>2
        <3>2. d <= kp /\ d - 1 \in 1..(kp - 1) /\ kp - (d - 1) = kp + 1 - d
            BY <1>0, <1>1, <1>4, <2>2, <3>1
        <3> QED
            BY <1>4, <3>1, <3>2
    <2> QED
        BY <2>1, <2>2
<1>9. ASSUME NEW i \in 1..kw, NEW j \in 1..kw, i < j
      PROVE  IsMaterialChange(worn'[i], worn'[j])
    <2> DEFINE d == kw - i
    <2>1. d \in 1..(kw - 1) /\ kw - d = i
        BY <1>5, <1>9
    <2> HIDE DEF d
    <2>2. CASE j = kw
        <3>1. CASE d = 1
            BY <1>5, <1>7, <2>1, <2>2, <3>1
        <3>2. CASE d # 1
            <4>1. d - 1 \in 1..M /\ d - 1 <= lp /\ worn'[kw - d] = pastTitles[lp + 1 - (d - 1)]
                BY <1>7, <2>1, <3>2
            <4>2. lp + 1 - (d - 1) \in 1..lp
                BY <1>0, <1>1, <4>1
            <4> QED
                BY <1>5, <2>1, <2>2, <4>1, <4>2
        <3> QED
            BY <3>1, <3>2
    <2>3. CASE j # kw
        <3>1. kw - j \in 1..(kw - 1) /\ kw - (kw - j) = j
            BY <1>5, <1>9, <2>3
        <3>2. /\ lw + 1 - d \in 1..lw /\ worn'[i] = worn[lw + 1 - d]
              /\ lw + 1 - (kw - j) \in 1..lw /\ worn'[j] = worn[lw + 1 - (kw - j)]
            BY <1>5, <2>1, <3>1
        <3>3. lw + 1 - d < lw + 1 - (kw - j)
            BY <1>1, <1>5, <1>9, <2>1
        <3> QED
            BY <3>2, <3>3 DEF Remembered
    <2> QED
        BY <2>2, <2>3
<1>10. worn' # <<>>
    BY <1>5, EmptySeq
<1> QED
    BY <1>5, <1>6, <1>8, <1>9, <1>10 DEF Remembered, M

(* The conversation's first name: nothing is remembered or worn. *)
LEMMA NameIsFirst ==
    ASSUME TitlesTypes, worn = <<>>, pastTitles = <<>>, NEW name \in TitleNames,
           title' = name, pastTitles' = pastTitles,
           worn' = Newest(Append(worn, name), MAX_PAST_TITLES + 2)
    PROVE  Remembered'
<1>1. MAX_PAST_TITLES \in Nat /\ MAX_PAST_TITLES + 2 \in Nat \ {0} /\ worn \in Seq(TitleNames)
    BY TitlesAssumption DEF TitlesTypes
<1>2. Len(worn') = 1 /\ worn'[Len(worn')] = name
    <2>1. Len(worn) = 0
        OBVIOUS
    <2>2. CutAtFront(worn', worn, name, MAX_PAST_TITLES + 2)
        BY <1>1, WornCounts
    <2> QED
        BY <1>1, <2>1, <2>2, FirstCut
<1>3. worn' # <<>> /\ Len(pastTitles') = 0
    BY <1>2
<1> QED
    BY <1>1, <1>2, <1>3 DEF Remembered

(* One answer: a name only comes from the oldest look of the conversation, *)
(* unless the answers are out of order.                                    *)
LEMMA AnswerKeepsNames ==
    ASSUME NamesInv, NEW look \in looks, NEW name \in Proposals, Answered(look, name)
    PROVE  NamesInv'
<1>1. TitlesTypes /\ FirstLook /\ (InOrder => Remembered)
    BY DEF NamesInv
<1>2. /\ looks' = looks \ {look} /\ stray' = (stray \/ Stray(look))
      /\ UNCHANGED <<titledAt, titleSetByUser, started, clears>>
    BY DEF Answered, titleLog
<1>3. InOrder' => InOrder /\ look.era = clears /\ \A other \in looks : ~(other.n < look.n)
    BY <1>2 DEF InOrder, Stray
<1>4. CASE UNCHANGED <<title, pastTitles, worn>>
    <2>1. TitlesTypes'
        BY <1>1, <1>2, <1>4 DEF TitlesTypes
    <2>2. FirstLook'
        BY <1>1, <1>2, <1>3, <1>4 DEF FirstLook
    <2>3. Remembered => Remembered'
        BY <1>4 DEF Remembered
    <2> QED
        BY <1>1, <1>3, <2>1, <2>2, <2>3 DEF NamesInv
<1>5. CASE name # NoName /\ DecideRename(look.firstNaming, name) \in {"first", "confirmed"}
    <2>1. /\ title' = name
          /\ pastTitles' = IF look.firstNaming THEN pastTitles ELSE RememberTitle(pastTitles, title)
          /\ worn' = Newest(Append(worn, name), MAX_PAST_TITLES + 2)
          /\ name \in TitleNames
        BY <1>5 DEF Answered, Proposals, TitleNames
    <2>2. /\ IsMaterialChange(title, name)
          /\ ~look.firstNaming =>
               \A i \in DOMAIN pastTitles : IsMaterialChange(pastTitles[i], name)
        <3>1. DecideRename(look.firstNaming, name) \notin {"same", "returns", "unconfirmed"}
            BY <1>5
        <3> QED
            BY <3>1 DEF DecideRename
    <2>3. TitlesTypes'
        <3>1. worn' \in Seq(TitleNames)
            <4>1. worn \in Seq(TitleNames) /\ MAX_PAST_TITLES + 2 \in Nat \ {0}
                BY <1>1, TitlesAssumption DEF TitlesTypes
            <4> QED
                BY <2>1, <4>1, NewestCounts
        <3>2. OthersThan(title, pastTitles) \in Seq(TitleNames)
            BY <1>1, OthersType DEF TitlesTypes
        <3>3. RememberTitle(pastTitles, title) \in Seq(TitleNames)
            BY <1>1, <3>2, NewestCounts, TitlesAssumption DEF TitlesTypes, RememberTitle
        <3> QED
            BY <1>1, <1>2, <2>1, <3>1, <3>3 DEF TitlesTypes
    <2>4. InOrder' => Remembered'
        <3> SUFFICES ASSUME InOrder' PROVE Remembered'
            OBVIOUS
        <3>1. InOrder /\ Remembered
            BY <1>1, <1>3
        <3>2. CASE look.firstNaming
            <4>1. worn = <<>> /\ pastTitles = <<>>
                BY <1>1, <1>3, <3>1, <3>2 DEF FirstLook, Remembered
            <4> QED
                BY <1>1, <2>1, <3>2, <4>1, NameIsFirst
        <3>3. CASE ~look.firstNaming
            <4>1. \A i \in 1..Len(pastTitles) : IsMaterialChange(pastTitles[i], name)
                BY <1>1, <2>2, <3>3, LenProperties DEF TitlesTypes
            <4> QED
                BY <1>1, <2>1, <2>2, <3>1, <3>3, <4>1, NameIsTaken
        <3> QED
            BY <3>2, <3>3
    <2>5. FirstLook'
        <3>1. titledAt = "never" => ~InOrder' /\ \A other \in looks' : other.era # clears
            BY <1>1, <1>2, <1>3 DEF FirstLook
        <3>2. ASSUME NEW first \in looks', first.firstNaming, first.era = clears
              PROVE  /\ ~InOrder'
                     /\ \A other \in looks' : other # first /\ other.era = clears => other.n > first.n
            <4>1. first \in looks /\ first # look
                BY <1>2
            <4>2. \A other \in looks : other # first /\ other.era = clears => other.n > first.n
                BY <1>1, <3>2, <4>1 DEF FirstLook
            <4>3. InOrder' => look.n > first.n /\ ~(first.n < look.n)
                BY <1>3, <4>1, <4>2
            <4>4. first.n \in Nat /\ look.n \in Nat
                BY <1>1, <4>1 DEF TitlesTypes
            <4> QED
                BY <1>2, <4>2, <4>3, <4>4
        <3> QED
            BY <1>2, <3>1, <3>2 DEF FirstLook
    <2> QED
        BY <2>3, <2>4, <2>5 DEF NamesInv
<1> QED
    BY <1>4, <1>5 DEF Answered

LEMMA NamesStep == NamesInv /\ [TitlesNext]_titlesVars => NamesInv'
<1> SUFFICES ASSUME NamesInv, [TitlesNext]_titlesVars PROVE NamesInv'
    OBVIOUS
<1>0. TitlesTypes /\ FirstLook /\ (InOrder => Remembered)
    BY DEF NamesInv
<1>a. ASSUME UNCHANGED <<title, pastTitles, worn>> PROVE Remembered => Remembered'
    BY <1>a DEF Remembered
<1>1. CASE UNCHANGED titlesVars
    <2>1. UNCHANGED <<title, pastTitles, worn, titledAt, titleSetByUser, started, clears, looks, stray>>
        BY <1>1 DEF titlesVars, titleMeta, titleLog
    <2> QED
        BY <1>0, <1>a, <2>1 DEF NamesInv, TitlesTypes, FirstLook, InOrder
<1>2. ASSUME NEW parked \in BOOLEAN, CompleteTurn(parked) PROVE NamesInv'
    <2>1. UNCHANGED <<title, pastTitles, worn, titleSetByUser, clears, stray>>
        BY <1>2 DEF CompleteTurn
    <2>2. CASE UNCHANGED <<started, looks, titledAt>>
        BY <1>0, <1>a, <2>1, <2>2 DEF NamesInv, TitlesTypes, FirstLook, InOrder
    <2>3. CASE TitleIsDue(parked)
        <3> DEFINE new == [n |-> started + 1, firstNaming |-> titledAt = "never", era |-> clears]
        <3>1. started' = started + 1 /\ looks' = looks \cup {new} /\ titledAt' = "recently"
            BY <1>2, <2>3 DEF CompleteTurn
        <3>2. /\ new \in [n : Nat, firstNaming : BOOLEAN, era : Nat]
              /\ new.n = started + 1 /\ new.era = clears /\ new.firstNaming = (titledAt = "never")
            BY <1>0 DEF TitlesTypes
        <3> HIDE DEF new
        <3>3. TitlesTypes'
            BY <1>0, <2>1, <3>1, <3>2 DEF TitlesTypes
        <3>4. ASSUME NEW first \in looks', first.firstNaming, first.era = clears
              PROVE  /\ InOrder => worn = <<>>
                     /\ \A look \in looks' : look # first /\ look.era = clears => look.n > first.n
            <4>1. CASE first = new
                BY <1>0, <3>1, <3>2, <3>4, <4>1 DEF FirstLook
            <4>2. CASE first # new
                <5>1. first \in looks /\ first.n \in Nat /\ first.n <= started /\ started \in Nat
                    BY <1>0, <3>1, <4>2 DEF TitlesTypes
                <5>2. new.n > first.n
                    BY <3>2, <5>1
                <5> QED
                    BY <1>0, <3>1, <3>4, <5>1, <5>2 DEF FirstLook
            <4> QED
                BY <4>1, <4>2
        <3>5. FirstLook'
            BY <2>1, <3>1, <3>4 DEF FirstLook, InOrder
        <3> QED
            BY <1>0, <1>a, <2>1, <3>3, <3>5 DEF NamesInv, InOrder
    <2> QED
        BY <1>2, <2>2, <2>3 DEF CompleteTurn
<1>3. CASE TimePasses
    <2>1. /\ UNCHANGED <<title, pastTitles, worn, titleSetByUser, started, clears, looks, stray>>
          /\ titledAt' = "long ago"
        BY <1>3 DEF TimePasses, titleLog
    <2> QED
        BY <1>0, <1>a, <2>1 DEF NamesInv, TitlesTypes, FirstLook, InOrder
<1>4. ASSUME NEW look \in looks, NEW name \in Proposals, Answered(look, name) PROVE NamesInv'
    BY <1>4, AnswerKeepsNames
<1>5. CASE Clear
    <2>1. /\ UNCHANGED <<title, titleSetByUser, started, looks, stray>>
          /\ clears' = clears + 1 /\ titledAt' = "never" /\ pastTitles' = <<>> /\ worn' = <<>>
        BY <1>5 DEF Clear
    <2>2. TitlesTypes'
        BY <1>0, <2>1, EmptySeq DEF TitlesTypes
    <2>3. \A look \in looks' : look.era # clears'
        BY <1>0, <2>1 DEF TitlesTypes
    <2>4. FirstLook'
        BY <2>1, <2>3 DEF FirstLook
    <2>5. Remembered'
        <3>1. Len(pastTitles') = 0 /\ Len(worn') = 0
            BY <2>1
        <3>2. 1..Len(pastTitles') = {} /\ 1..Len(worn') = {}
              /\ \A d \in 1..MAX_PAST_TITLES : ~(d < Len(worn'))
            BY <3>1, TitlesAssumption
        <3> QED
            BY <2>1, <3>2 DEF Remembered
    <2> QED
        BY <2>2, <2>4, <2>5 DEF NamesInv
<1>6. ASSUME NEW name \in Names, RenameByUser(name) PROVE NamesInv'
    <2>1. /\ UNCHANGED <<pastTitles, worn, titledAt, started, clears, looks>>
          /\ title' = name /\ titleSetByUser' = TRUE
        BY <1>6 DEF RenameByUser, titleLog
    <2> QED
        BY <1>0, <2>1 DEF NamesInv, TitlesTypes, TitleNames, FirstLook, InOrder
<1>7. CASE TitlesRestart
    <2>1. /\ UNCHANGED <<title, pastTitles, worn, titledAt, titleSetByUser, started, clears, stray>>
          /\ looks' = {}
        BY <1>7 DEF TitlesRestart, titleMeta, titleLog
    <2> QED
        BY <1>0, <1>a, <2>1 DEF NamesInv, TitlesTypes, FirstLook, InOrder
<1> QED
    BY <1>1, <1>2, <1>3, <1>4, <1>5, <1>6, <1>7 DEF TitlesNext

LEMMA NamesInit == TitlesInit => NamesInv
<1> SUFFICES ASSUME TitlesInit PROVE NamesInv
    OBVIOUS
<1>1. TitlesTypes /\ FirstLook
    BY EmptySeq DEF TitlesInit, TitlesTypes, TitleNames, FirstLook
<1>2. 1..Len(pastTitles) = {} /\ 1..Len(worn) = {} /\ \A d \in 1..MAX_PAST_TITLES : ~(d < Len(worn))
    BY TitlesAssumption DEF TitlesInit
<1>3. Remembered
    BY <1>2 DEF TitlesInit, Remembered
<1> QED
    BY <1>1, <1>3 DEF NamesInv

(* maybeRetitle never goes back to a rewording of one of the last names    *)
(* the conversation wore, for every size of the memory that rememberTitle  *)
(* cuts and filters, and a cleared conversation is named for itself.       *)
THEOREM NamesMoveOn == TitlesSpec => []NamesFollowTheTalk
<1>1. TitlesSpec => []NamesInv
    BY NamesInit, NamesStep, PTL DEF TitlesSpec
<1>2. NamesInv => NeverGoesBack
    <2> SUFFICES ASSUME NamesInv, InOrder, NEW i \in DOMAIN worn, NEW j \in DOMAIN worn, i < j
                 PROVE  IsMaterialChange(worn[i], worn[j])
        BY DEF NeverGoesBack, InOrder
    <2>1. i \in 1..Len(worn) /\ j \in 1..Len(worn)
        BY LenProperties DEF NamesInv, TitlesTypes
    <2> QED
        BY <2>1 DEF NamesInv, Remembered
<1>3. NeverGoesBack /\ OldWordsFade => NamesFollowTheTalk
    BY DEF NamesFollowTheTalk
<1> QED
    BY <1>1, <1>2, <1>3, OldWordsAreLeft, PTL

-----------------------------------------------------------------------------
(* Registry                                                                *)

EntryType == [edits : Nat, linked : BOOLEAN]
ListType == [Sids -> EntryType]
FileType == [kind : {"whole", "none", "damaged"}, list : ListType]
Operations == {"create", "edit", "delete", "import"}

(* The points of an operation between two of its steps: what is left when  *)
(* the list must be written, when it was written and not renamed, and when *)
(* the file holds the list of the memory.                                  *)
ToWrite(op) ==
    IF op = "import" THEN {StepsOf(op), <<"write", "rename", "log">>} ELSE {StepsOf(op)}
ToRename(op) ==
    IF op = "import" THEN {<<"rename", "link", "write", "rename", "log">>, <<"rename", "log">>}
    ELSE IF op = "delete" THEN {<<"rename", "unlog">>} ELSE {<<"rename">>}
SavedAt(op) ==
    IF op = "import" THEN {<<"link", "write", "rename", "log">>, <<"log">>, <<>>}
    ELSE IF op = "delete" THEN {<<"unlog">>, <<>>} ELSE {<<>>}
LinkedAt == {<<"write", "rename", "log">>, <<"rename", "log">>, <<"log">>, <<>>}

RegistryTypes ==
    /\ sessions \in ListType
    /\ file \in FileType /\ tmp \in FileType
    /\ logs \subseteq Sids /\ imported \subseteq Sids
    /\ may \in [Sids -> SUBSET EntryType]
    /\ request # NoRequest =>
         /\ request.op \in Operations /\ request.s \in Sids
         /\ request = [op |-> request.op, s |-> request.s, left |-> request.left]
         /\ request.left \in ToWrite(request.op) \cup ToRename(request.op) \cup SavedAt(request.op)

(* A daemon that is down handles nothing.                                  *)
DownIsIdle == ~up => request = NoRequest

(* What a request has done so far, by what it has left. *)
SoFar ==
    /\ request = NoRequest /\ up => file.list = sessions
    /\ request # NoRequest =>
        /\ request.left \in SavedAt(request.op) => file.list = sessions
        /\ request.left \in ToRename(request.op) => tmp = Whole(sessions)
        /\ request.op = "delete" => sessions[request.s] = Absent
        /\ request.op = "import" =>
            /\ request.s \notin imported
            /\ request.left \in LinkedAt => sessions[request.s].linked
            /\ request.left = <<>> => request.s \in logs

(* Memory and file hold what was answered for, or the change under way.    *)
MayHold ==
    /\ up => \A s \in Sids : sessions[s] \in may[s]
    /\ bad # "here" => \A s \in Sids : file.list[s] \in may[s]

(* An answered import has its conversation and its log, in memory and on   *)
(* disk, for as long as it has an entry.                                   *)
ImportsAreWhole ==
    \A s \in imported :
        /\ sessions[s] # Absent => sessions[s].linked /\ s \in logs
        /\ file.list[s] # Absent => file.list[s].linked /\ s \in logs

(* A file damaged from outside is met by the next start, before a save.    *)
DamageIsSeen ==
    /\ bad # "lost"
    /\ bad = "here" => ~up
    /\ bad = "none" => file # Damaged

RegistryInv ==
    RegistryTypes /\ DownIsIdle /\ SoFar /\ MayHold /\ ImportsAreWhole /\ DamageIsSeen

LEMMA RegistryConstants ==
    /\ Absent \in EntryType /\ Nothing \in ListType
    /\ NoRegistry \in FileType /\ Damaged \in FileType
    /\ \A s \in Sids : Nothing[s] = Absent
    /\ NoRegistry.list = Nothing /\ Damaged.list = Nothing
    /\ \A l \in ListType : Whole(l) \in FileType /\ Whole(l).list = l /\ Whole(l) # Damaged
<1>1. Absent \in EntryType
    BY DEF Absent, EntryType
<1>2. Nothing \in ListType
    BY <1>1 DEF Nothing, ListType
<1> QED
    BY <1>1, <1>2 DEF Nothing, NoRegistry, Damaged, Whole, FileType

(* One step of a request: what its name says of where the request stands.  *)
LEMMA RequestSteps ==
    ASSUME NEW op \in Operations, NEW left,
           left \in ToWrite(op) \cup ToRename(op) \cup SavedAt(op), left # <<>>
    PROVE  /\ Head(left) = "write" => left \in ToWrite(op) /\ Tail(left) \in ToRename(op)
                                      /\ (Tail(left) \in LinkedAt => left \in LinkedAt)
           /\ Head(left) = "rename" => left \in ToRename(op) /\ Tail(left) \in SavedAt(op)
                                      /\ (Tail(left) \in LinkedAt /\ op = "import" => left \in LinkedAt)
           /\ Head(left) = "link" => /\ op = "import"
                                     /\ Tail(left) = <<"write", "rename", "log">>
           /\ Head(left) = "log" => op = "import" /\ left = <<"log">> /\ Tail(left) = <<>>
           /\ Head(left) = "unlog" => op = "delete" /\ left = <<"unlog">> /\ Tail(left) = <<>>
           /\ (Tail(left) = <<>> /\ op = "import") => Head(left) = "log"
<1> USE DEF ToWrite, ToRename, SavedAt, LinkedAt, StepsOf
<1>1. CASE op = "import"
    <2>1. CASE left = <<"write", "rename", "link", "write", "rename", "log">>
        BY <1>1, <2>1
    <2>2. CASE left = <<"rename", "link", "write", "rename", "log">>
        BY <1>1, <2>2
    <2>3. CASE left = <<"link", "write", "rename", "log">>
        BY <1>1, <2>3
    <2>4. CASE left = <<"write", "rename", "log">>
        BY <1>1, <2>4
    <2>5. CASE left = <<"rename", "log">>
        BY <1>1, <2>5
    <2>6. CASE left = <<"log">>
        BY <1>1, <2>6
    <2> QED
        BY <1>1, <2>1, <2>2, <2>3, <2>4, <2>5, <2>6
<1>2. CASE op = "delete"
    <2>1. CASE left = <<"write", "rename", "unlog">>
        BY <1>2, <2>1
    <2>2. CASE left = <<"rename", "unlog">>
        BY <1>2, <2>2
    <2>3. CASE left = <<"unlog">>
        BY <1>2, <2>3
    <2> QED
        BY <1>2, <2>1, <2>2, <2>3
<1>3. CASE op \in {"create", "edit"}
    <2>1. CASE left = <<"write", "rename">>
        BY <1>3, <2>1
    <2>2. CASE left = <<"rename">>
        BY <1>3, <2>2
    <2> QED
        BY <1>3, <2>1, <2>2
<1> QED
    BY <1>1, <1>2, <1>3 DEF Operations

(* The three kinds of points exclude each other. *)
LEMMA PointsDiffer ==
    ASSUME NEW op \in Operations, NEW left
    PROVE  /\ left \in ToRename(op) => left \notin SavedAt(op) /\ left \notin ToWrite(op) /\ left # <<>>
           /\ left \in ToWrite(op) => left \notin SavedAt(op) /\ left # <<>>
           /\ StepsOf(op) \in ToWrite(op)
           /\ op = "import" => StepsOf(op) \notin LinkedAt
           /\ <<>> \in SavedAt(op)
           /\ op = "delete" => <<"unlog">> \in SavedAt(op)
           /\ op = "import" => /\ <<"log">> \in SavedAt(op)
                               /\ <<"write", "rename", "log">> \in ToWrite(op)
<1>1. CASE op = "import"
    BY <1>1 DEF ToWrite, ToRename, SavedAt, LinkedAt, StepsOf
<1>2. CASE op = "delete"
    BY <1>2 DEF ToWrite, ToRename, SavedAt, LinkedAt, StepsOf
<1>3. CASE op \in {"create", "edit"}
    BY <1>3 DEF ToWrite, ToRename, SavedAt, LinkedAt, StepsOf
<1> QED
    BY <1>1, <1>2, <1>3 DEF Operations

(* A step keeps the request and shortens what it has left. *)
LEMMA StepMoves ==
    ASSUME RegistryTypes, NEW name, Step(name)
    PROVE  /\ request # NoRequest /\ request' # NoRequest
           /\ request.op \in Operations /\ request.s \in Sids
           /\ request'.op = request.op /\ request'.s = request.s
           /\ request' = [op |-> request'.op, s |-> request'.s, left |-> request'.left]
           /\ request.left # <<>> /\ Head(request.left) = name
           /\ request'.left = Tail(request.left)
           /\ request.left \in ToWrite(request.op) \cup ToRename(request.op) \cup SavedAt(request.op)
<1>1. request # NoRequest
    BY DEF Step, NoRequest
<1>2. request.op \in Operations /\ request.op # "none"
    BY <1>1 DEF RegistryTypes, Operations
<1>3. request' = [op |-> request.op, s |-> request.s, left |-> Tail(request.left)]
    BY <1>1 DEF Step, RegistryTypes
<1>4. request' # NoRequest
    BY <1>2, <1>3 DEF NoRequest
<1> QED
    BY <1>1, <1>2, <1>3, <1>4 DEF Step, RegistryTypes

(* A change of one entry leaves the others alone.                          *)
LEMMA ChangeIsTyped ==
    ASSUME RegistryTypes, NEW s \in Sids, NEW entry \in EntryType, Change(s, entry)
    PROVE  /\ sessions' \in ListType /\ may' \in [Sids -> SUBSET EntryType]
           /\ sessions'[s] = entry /\ entry \in may'[s]
           /\ \A t \in Sids : t # s => sessions'[t] = sessions[t] /\ may'[t] = may[t]
           /\ \A t \in Sids : may[t] \subseteq may'[t]
BY DEF RegistryTypes, ListType, Change

LEMMA BeginStep ==
    ASSUME RegistryInv, NEW op \in Operations, NEW s \in Sids, Begin(op, s)
    PROVE  RegistryInv'
<1> USE DEF RegistryInv
<1> DEFINE entry == IF op \in {"create", "import"} THEN Entry(1, FALSE)
                    ELSE IF op = "delete" THEN Absent ELSE [sessions[s] EXCEPT !.edits = @ + 1]
<1>0. sessions[s] \in EntryType
    BY DEF RegistryTypes, ListType
<1>1. entry \in EntryType /\ Change(s, entry)
    BY <1>0, RegistryConstants DEF Begin, EntryType, Entry
<1>2. /\ op \in {"edit", "delete"} \/ s \notin imported
      /\ op = "edit" => sessions[s] # Absent /\ entry.linked = sessions[s].linked
      /\ op = "delete" => entry = Absent
    BY <1>0 DEF Begin, Operations, EntryType
<1> HIDE DEF entry
<1>3. request' = [op |-> op, s |-> s, left |-> StepsOf(op)] /\ request = NoRequest /\ up
    BY DEF Begin
<1>4. UNCHANGED <<file, tmp, up, logs, imported, bad>>
    BY DEF Begin
<1>5. request' # NoRequest /\ request'.op = op /\ request'.s = s /\ request'.left = StepsOf(op)
    BY <1>3 DEF NoRequest, Operations
<1>10. /\ sessions' \in ListType /\ may' \in [Sids -> SUBSET EntryType]
       /\ sessions'[s] = entry
    BY <1>1, ChangeIsTyped
<1>11. /\ StepsOf(op) \in ToWrite(op) /\ StepsOf(op) \notin ToRename(op)
       /\ StepsOf(op) \notin SavedAt(op) /\ StepsOf(op) # <<>>
       /\ op = "import" => StepsOf(op) \notin LinkedAt
    BY PointsDiffer
<1>6. RegistryTypes'
    BY <1>3, <1>4, <1>5, <1>10, <1>11 DEF RegistryTypes
<1>7. SoFar'
    BY <1>2, <1>4, <1>5, <1>10, <1>11 DEF SoFar, Operations
<1>8. MayHold'
    BY <1>1, <1>4, ChangeIsTyped, <1>3 DEF MayHold
<1>9. ImportsAreWhole'
    <2> SUFFICES ASSUME NEW t \in imported PROVE
            /\ sessions'[t] # Absent => sessions'[t].linked /\ t \in logs
            /\ file.list[t] # Absent => file.list[t].linked /\ t \in logs
        BY <1>4 DEF ImportsAreWhole
    <2>1. t \in Sids
        BY DEF RegistryTypes
    <2>2. CASE t # s
        BY <1>1, <2>1, <2>2, ChangeIsTyped DEF ImportsAreWhole
    <2>3. CASE t = s
        BY <1>1, <1>2, <2>3, ChangeIsTyped DEF ImportsAreWhole, Operations
    <2> QED
        BY <2>2, <2>3
<1> QED
    BY <1>3, <1>4, <1>6, <1>7, <1>8, <1>9 DEF DownIsIdle, DamageIsSeen

LEMMA WriteNewStep == ASSUME RegistryInv, WriteNew PROVE RegistryInv'
<1> USE DEF RegistryInv
<1> DEFINE op == request.op  left == request.left
<1>1. Step("write") /\ tmp' = Whole(sessions)
      /\ UNCHANGED <<sessions, file, logs, may, bad, up, imported>>
    BY DEF WriteNew, Step
<1>2. /\ request # NoRequest /\ request' # NoRequest /\ op \in Operations
      /\ request'.op = op /\ request'.s = request.s /\ request'.left = Tail(left)
      /\ request' = [op |-> request'.op, s |-> request'.s, left |-> request'.left]
      /\ left # <<>> /\ Head(left) = "write" /\ request.s \in Sids
      /\ left \in ToWrite(op) \cup ToRename(op) \cup SavedAt(op)
    BY <1>1, StepMoves
<1>3. /\ Tail(left) \in ToRename(op)
      /\ Tail(left) \in LinkedAt => left \in LinkedAt
    BY <1>2, RequestSteps
<1>4. Tail(left) \notin SavedAt(op) /\ Tail(left) # <<>>
    BY <1>2, <1>3, PointsDiffer
<1> HIDE DEF op, left
<1>5. RegistryTypes'
    BY <1>1, <1>2, <1>3, RegistryConstants DEF RegistryTypes, op
<1>6. SoFar'
    BY <1>1, <1>2, <1>3, <1>4 DEF SoFar, op, left
<1> QED
    BY <1>1, <1>2, <1>5, <1>6 DEF DownIsIdle, MayHold, ImportsAreWhole, DamageIsSeen

LEMMA RenameOverStep == ASSUME RegistryInv, RenameOver PROVE RegistryInv'
<1> USE DEF RegistryInv
<1> DEFINE op == request.op  left == request.left
<1>1. Step("rename") /\ file' = tmp /\ tmp' = NoRegistry
      /\ UNCHANGED <<sessions, logs, may, up, imported>>
    BY DEF RenameOver, Step
<1>2. /\ request # NoRequest /\ request' # NoRequest /\ op \in Operations
      /\ request'.op = op /\ request'.s = request.s /\ request'.left = Tail(left)
      /\ request' = [op |-> request'.op, s |-> request'.s, left |-> request'.left]
      /\ left # <<>> /\ Head(left) = "rename" /\ request.s \in Sids
      /\ left \in ToWrite(op) \cup ToRename(op) \cup SavedAt(op)
    BY <1>1, StepMoves
<1>3. /\ left \in ToRename(op) /\ Tail(left) \in SavedAt(op)
      /\ op = "import" => (Tail(left) \in LinkedAt => left \in LinkedAt) /\ Tail(left) # <<>>
    BY <1>2, RequestSteps
<1>4. Tail(left) \notin ToRename(op)
    BY <1>2, <1>3, PointsDiffer
<1>5. file' = Whole(sessions) /\ sessions \in ListType
    BY <1>1, <1>2, <1>3 DEF SoFar, RegistryTypes
<1>6. file'.list = sessions /\ file' # Damaged
    BY <1>5, RegistryConstants
<1>7. up /\ bad' = bad /\ bad # "here"
    BY <1>2 DEF DownIsIdle, DamageIsSeen, RenameOver
<1> HIDE DEF op, left
<1>8. RegistryTypes'
    BY <1>1, <1>2, <1>3, <1>5, RegistryConstants DEF RegistryTypes, op
<1>9. SoFar'
    BY <1>1, <1>2, <1>3, <1>4, <1>6 DEF SoFar, op, left
<1> QED
    BY <1>1, <1>2, <1>6, <1>7, <1>8, <1>9 DEF DownIsIdle, MayHold, ImportsAreWhole, DamageIsSeen

LEMMA LinkStep == ASSUME RegistryInv, Link PROVE RegistryInv'
<1> USE DEF RegistryInv
<1> DEFINE op == request.op  left == request.left  s == request.s
           entry == [sessions[s] EXCEPT !.linked = TRUE]
<1>1. Step("link") /\ Change(s, entry) /\ UNCHANGED <<file, tmp, logs, bad, up, imported>>
    BY DEF Link, Step
<1>2. /\ request # NoRequest /\ request' # NoRequest /\ op \in Operations
      /\ request'.op = op /\ request'.s = s /\ request'.left = Tail(left)
      /\ request' = [op |-> request'.op, s |-> request'.s, left |-> request'.left]
      /\ left # <<>> /\ Head(left) = "link" /\ s \in Sids
      /\ left \in ToWrite(op) \cup ToRename(op) \cup SavedAt(op)
    BY <1>1, StepMoves
<1>3. op = "import" /\ Tail(left) = <<"write", "rename", "log">>
    BY <1>2, RequestSteps
<1>4. /\ Tail(left) \in ToWrite(op) /\ Tail(left) \notin SavedAt(op)
      /\ Tail(left) \notin ToRename(op) /\ Tail(left) # <<>>
    BY <1>2, <1>3, PointsDiffer
<1>5. entry \in EntryType /\ entry.linked
    BY <1>2 DEF RegistryTypes, ListType, EntryType
<1> HIDE DEF op, left, s, entry
<1>6. /\ sessions' \in ListType /\ may' \in [Sids -> SUBSET EntryType]
      /\ sessions'[s] = entry /\ entry \in may'[s]
      /\ \A t \in Sids : t # s => sessions'[t] = sessions[t] /\ may'[t] = may[t]
      /\ \A t \in Sids : may[t] \subseteq may'[t]
    BY <1>1, <1>2, <1>5, ChangeIsTyped
<1>7. RegistryTypes'
    BY <1>1, <1>2, <1>4, <1>6 DEF RegistryTypes
<1>8. s \notin imported
    BY <1>2, <1>3 DEF SoFar, op, s
<1>9. SoFar'
    BY <1>1, <1>2, <1>3, <1>4, <1>5, <1>6, <1>8 DEF SoFar
<1>10. MayHold'
    BY <1>1, <1>2, <1>6 DEF MayHold
<1>11. ImportsAreWhole'
    BY <1>1, <1>6, <1>8 DEF ImportsAreWhole, RegistryTypes
<1> QED
    BY <1>1, <1>2, <1>7, <1>9, <1>10, <1>11 DEF DownIsIdle, DamageIsSeen

LEMMA WriteLogStep == ASSUME RegistryInv, WriteLog PROVE RegistryInv'
<1> USE DEF RegistryInv
<1> DEFINE op == request.op  left == request.left  s == request.s
<1>1. Step("log") /\ logs' = logs \cup {s}
      /\ UNCHANGED <<sessions, file, tmp, may, bad, up, imported>>
    BY DEF WriteLog, Step
<1>2. /\ request # NoRequest /\ request' # NoRequest /\ op \in Operations
      /\ request'.op = op /\ request'.s = s /\ request'.left = Tail(left)
      /\ request' = [op |-> request'.op, s |-> request'.s, left |-> request'.left]
      /\ left # <<>> /\ Head(left) = "log" /\ s \in Sids
      /\ left \in ToWrite(op) \cup ToRename(op) \cup SavedAt(op)
    BY <1>1, StepMoves
<1>3. op = "import" /\ left = <<"log">> /\ Tail(left) = <<>>
    BY <1>2, RequestSteps
<1>4. left \in SavedAt(op) /\ left \in LinkedAt
      /\ Tail(left) \in SavedAt(op) /\ Tail(left) \notin ToRename(op)
    BY <1>2, <1>3, PointsDiffer DEF LinkedAt
<1> HIDE DEF op, left, s
<1>5. RegistryTypes'
    BY <1>1, <1>2, <1>4 DEF RegistryTypes
<1>6. SoFar'
    BY <1>1, <1>2, <1>3, <1>4 DEF SoFar, op, left, s
<1> QED
    BY <1>1, <1>2, <1>5, <1>6 DEF DownIsIdle, MayHold, ImportsAreWhole, DamageIsSeen

LEMMA RemoveLogStep == ASSUME RegistryInv, RemoveLog PROVE RegistryInv'
<1> USE DEF RegistryInv
<1> DEFINE op == request.op  left == request.left  s == request.s
<1>1. Step("unlog") /\ logs' = logs \ {s}
      /\ UNCHANGED <<sessions, file, tmp, may, bad, up, imported>>
    BY DEF RemoveLog, Step
<1>2. /\ request # NoRequest /\ request' # NoRequest /\ op \in Operations
      /\ request'.op = op /\ request'.s = s /\ request'.left = Tail(left)
      /\ request' = [op |-> request'.op, s |-> request'.s, left |-> request'.left]
      /\ left # <<>> /\ Head(left) = "unlog" /\ s \in Sids
      /\ left \in ToWrite(op) \cup ToRename(op) \cup SavedAt(op)
    BY <1>1, StepMoves
<1>3. op = "delete" /\ left = <<"unlog">> /\ Tail(left) = <<>>
    BY <1>2, RequestSteps
<1>4. left \in SavedAt(op) /\ Tail(left) \in SavedAt(op) /\ Tail(left) \notin ToRename(op)
    BY <1>2, <1>3, PointsDiffer
<1> HIDE DEF op, left, s
<1>5. RegistryTypes'
    BY <1>1, <1>2, <1>4 DEF RegistryTypes
<1>6. SoFar'
    BY <1>1, <1>2, <1>3, <1>4 DEF SoFar, op, left, s
<1>7. sessions[s] = Absent /\ file.list[s] = Absent
    BY <1>2, <1>3, <1>4 DEF SoFar, op, left, s
<1>8. ImportsAreWhole'
    BY <1>1, <1>7 DEF ImportsAreWhole
<1> QED
    BY <1>1, <1>2, <1>5, <1>6, <1>8 DEF DownIsIdle, MayHold, DamageIsSeen

LEMMA AnswerRequestStep == ASSUME RegistryInv, AnswerRequest PROVE RegistryInv'
<1> USE DEF RegistryInv
<1> DEFINE op == request.op  s == request.s
<1>1. /\ request # NoRequest /\ request.left = <<>> /\ request' = NoRequest
      /\ may' = [may EXCEPT ![s] = {sessions[s]}]
      /\ imported' = (IF op = "import" THEN imported \cup {s} ELSE imported)
      /\ UNCHANGED <<sessions, file, tmp, up, logs, bad>>
    BY DEF AnswerRequest
<1>2. op \in Operations /\ s \in Sids /\ sessions[s] \in EntryType
    BY <1>1 DEF RegistryTypes, ListType
<1>3. file.list = sessions
    BY <1>1, <1>2, PointsDiffer DEF SoFar
<1>4. op = "import" => sessions[s].linked /\ s \in logs
    BY <1>1 DEF SoFar, LinkedAt
<1> HIDE DEF op, s
<1>5. RegistryTypes'
    BY <1>1, <1>2 DEF RegistryTypes
<1>6. up
    BY <1>1 DEF DownIsIdle
<1>7. MayHold'
    BY <1>1, <1>2, <1>3, <1>6 DEF MayHold, RegistryTypes
<1>8. ImportsAreWhole'
    BY <1>1, <1>3, <1>4 DEF ImportsAreWhole
<1> QED
    BY <1>1, <1>3, <1>5, <1>6, <1>7, <1>8 DEF DownIsIdle, SoFar, DamageIsSeen

(* A crash, damage to the file, and the next start.                        *)
LEMMA RegistryOutside ==
    ASSUME RegistryInv, DaemonDies \/ Damage \/ \E moved \in BOOLEAN : LoadMetas(moved)
    PROVE  RegistryInv'
<1> USE DEF RegistryInv
<1>1. CASE DaemonDies
    BY <1>1, RegistryConstants DEF DaemonDies, RegistryTypes, DownIsIdle, SoFar, MayHold,
       ImportsAreWhole, DamageIsSeen
<1>2. CASE Damage
    <2>1. request = NoRequest /\ request' = NoRequest
        BY <1>2 DEF Damage, DownIsIdle
    <2> QED
        BY <1>2, <2>1, RegistryConstants DEF Damage, RegistryTypes, DownIsIdle, SoFar, MayHold,
           ImportsAreWhole, DamageIsSeen
<1>3. ASSUME NEW moved \in BOOLEAN, LoadMetas(moved) PROVE RegistryInv'
    <2>1. request = NoRequest /\ request' = NoRequest /\ up' /\ ~up
        BY <1>3 DEF LoadMetas, DownIsIdle
    <2>2. sessions' = file.list /\ sessions' \in ListType
        BY <1>3 DEF LoadMetas, OnDisk, RegistryTypes, FileType
    <2>3. file' \in FileType /\ file'.list = file.list
        BY <1>3, RegistryConstants DEF LoadMetas, RegistryTypes
    <2>4. \A s \in Sids : may'[s] = {sessions'[s]}
        BY <1>3 DEF LoadMetas
    <2>5. may' \in [Sids -> SUBSET EntryType]
        BY <1>3, <2>2 DEF LoadMetas, ListType
    <2>6. RegistryTypes'
        BY <1>3, <2>1, <2>2, <2>3, <2>5 DEF LoadMetas, RegistryTypes
    <2>7. SoFar' /\ MayHold' /\ ImportsAreWhole'
        BY <1>3, <2>1, <2>2, <2>3, <2>4 DEF LoadMetas, SoFar, MayHold, ImportsAreWhole
    <2>8. DamageIsSeen'
        BY <1>3, RegistryConstants DEF LoadMetas, DamageIsSeen, NoRegistry, Damaged
    <2> QED
        BY <2>1, <2>6, <2>7, <2>8 DEF DownIsIdle
<1> QED
    BY <1>1, <1>2, <1>3

LEMMA RegistryStep == RegistryInv /\ [RegistryNext]_registryVars => RegistryInv'
<1> SUFFICES ASSUME RegistryInv, [RegistryNext]_registryVars PROVE RegistryInv'
    OBVIOUS
<1>1. CASE UNCHANGED registryVars
    BY <1>1 DEF registryVars, RegistryInv, RegistryTypes, DownIsIdle, SoFar, MayHold,
       ImportsAreWhole, DamageIsSeen
<1> QED
    BY <1>1, BeginStep, WriteNewStep, RenameOverStep, LinkStep, WriteLogStep, RemoveLogStep,
       AnswerRequestStep, RegistryOutside DEF RegistryNext, Operations

LEMMA RegistryInitInv == RegistryInit => RegistryInv
BY RegistryConstants DEF RegistryInit, RegistryInv, RegistryTypes, DownIsIdle, SoFar, MayHold,
   ImportsAreWhole, DamageIsSeen, NoRegistry, Damaged

(* The save of registry.ts, a temporary file renamed over the old one,     *)
(* survives a crash between any two writes: sessions.json is always a      *)
(* whole list, each entry as last answered for or as the request under way *)
(* leaves it, and importClaudeSession answers only with conversation and   *)
(* log in place.                                                           *)
THEOREM AnswersSurviveCrashes == RegistrySpec => []AnsweredIsDurable
<1>1. RegistryInv => AnsweredIsDurable
    BY DEF RegistryInv, RegistryTypes, SoFar, MayHold, ImportsAreWhole, DamageIsSeen, AnsweredIsDurable, OnDisk
<1> QED
    BY <1>1, RegistryInitInv, RegistryStep, PTL DEF RegistrySpec

-----------------------------------------------------------------------------
(* Transcripts                                                             *)

FileOf == [turns : Seq(Nat), at : Nat]

TranscriptsTypes ==
    /\ chosen \in AccountDirs /\ folder \in Folders
    /\ cli \in AccountDirs \cup {Nowhere}
    /\ said \in Seq(Nat) /\ Len(said) <= MaxTurns
    /\ copies \in [Place -> FileOf]
    /\ \A p \in Place : copies[p].at <= MaxTurns + 1

(* No copy is longer than the conversation: what settles ties of time. *)
NoneIsLonger == \A p \in Place : Len(copies[p].turns) <= Len(said)

TranscriptsInv ==
    /\ TranscriptsTypes
    /\ NoneIsLonger
    /\ ~strayed /\ ~resumeId => said = <<>>
    /\ ResumesTheWhole

(* isNewer orders files by time, then by length. *)
LEMMA NewerIsAnOrder ==
    ASSUME NEW a \in FileOf, NEW b \in FileOf, NEW c \in FileOf,
           ~isNewer(a, b), ~isNewer(b, c)
    PROVE  ~isNewer(a, c)
<1>1. a.at \in Nat /\ b.at \in Nat /\ c.at \in Nat
    BY DEF FileOf
<1>2. Len(a.turns) \in Nat /\ Len(b.turns) \in Nat /\ Len(c.turns) \in Nat
    BY DEF FileOf
<1> QED
    BY <1>1, <1>2 DEF isNewer

LEMMA ActiveIsADirectory ==
    ASSUME chosen \in AccountDirs PROVE effectiveActive \in AccountDirs
BY DEF effectiveActive, Twins, Named, AccountDirs

(* A search that sees one of the newest files sees only newest ones as its *)
(* newest.                                                                 *)
LEMMA SearchFindsTheNewest ==
    ASSUME TranscriptsTypes, NEW p \in NewestOf(Held) \cap Searched
    PROVE  p \in NewestOf(Searched) /\ NewestOf(Searched) \subseteq NewestOf(Held)
<1>1. Searched \subseteq Held /\ Held \subseteq Place
    BY DEF Searched, Held
<1>2. p \in NewestOf(Searched)
    BY <1>1 DEF NewestOf
<1>3. ASSUME NEW q \in NewestOf(Searched), NEW r \in Held PROVE ~isNewer(copies[r], copies[q])
    <2>1. ~isNewer(copies[r], copies[p]) /\ ~isNewer(copies[p], copies[q])
        BY DEF NewestOf
    <2>2. copies[r] \in FileOf /\ copies[p] \in FileOf /\ copies[q] \in FileOf
        BY <1>1 DEF NewestOf, TranscriptsTypes
    <2> QED
        BY <2>1, <2>2, NewerIsAnOrder
<1> QED
    BY <1>1, <1>2, <1>3 DEF NewestOf

(* A launch that finds the conversation puts all of it where it looks, and *)
(* every newest file is still the whole of it.                             *)
LEMMA LaunchKeepsTheWhole ==
    ASSUME TranscriptsInv, Launch, resumeId, ~strayed', said # <<>>
    PROVE  /\ resumeId'
           /\ copies'[<<effectiveActive, folder>>].turns = said
           /\ copies' \in [Place -> FileOf]
           /\ \A p \in Place : copies'[p].at <= MaxTurns + 1
           /\ \A p \in Place : Len(copies'[p].turns) <= Len(said)
           /\ \A p \in NewestOf(Held)' : copies'[p].turns = said
<1> USE DEF TranscriptsInv
<1> DEFINE dest == <<effectiveActive, folder>>
           found == CHOOSE p \in NewestOf(Searched) : TRUE
           synced == ensureSdkTranscript(dest)
<1>1. dest \in Place
    BY ActiveIsADirectory DEF TranscriptsTypes, Place
<1>2. ~strayed /\ NewestOf(Held) \cap Searched # {}
    BY DEF Launch
<1>3. PICK p \in NewestOf(Held) \cap Searched : TRUE
    BY <1>2
<1>4. p \in NewestOf(Searched) /\ NewestOf(Searched) \subseteq NewestOf(Held)
    BY SearchFindsTheNewest
<1>5. Searched \subseteq Held /\ Held \subseteq Place
    BY DEF Searched, Held
<1>6. found \in NewestOf(Searched)
    BY <1>4
<1>7. /\ found \in Place /\ copies[found] # NoFile
      /\ copies[found].turns = said /\ copies[found] \in FileOf
    BY <1>2, <1>4, <1>5, <1>6 DEF ResumesTheWhole, Held, NewestOf, TranscriptsTypes
<1>8. Searched # {}
    BY <1>3
<1> HIDE DEF dest, found
<1>9. CASE dest \in NewestOf(Searched)
    <2>1. synced = copies
        BY <1>9 DEF ensureSdkTranscript
    <2>2. copies[dest] # NoFile /\ copies[dest].turns = said
        BY <1>2, <1>4, <1>5, <1>9 DEF ResumesTheWhole, Held, NewestOf
    <2>3. resumeId' /\ copies' = copies
        BY <2>1, <2>2 DEF Launch, dest
    <2>4. NewestOf(Held)' = NewestOf(Held)
        BY <2>3 DEF NewestOf, Held
    <2> QED
        BY <1>2, <2>2, <2>3, <2>4 DEF dest, TranscriptsTypes, NoneIsLonger, ResumesTheWhole
<1>10. CASE dest \notin NewestOf(Searched)
    <2>1. synced = [copies EXCEPT ![dest] = copies[found]]
        BY <1>8, <1>10 DEF ensureSdkTranscript, found
    <2>2. synced[dest] = copies[found]
        BY <1>1, <2>1 DEF TranscriptsTypes
    <2>3. resumeId' /\ copies' = synced
        BY <1>7, <2>2 DEF Launch, dest
    <2>4. /\ copies' \in [Place -> FileOf] /\ copies'[dest] = copies[found]
          /\ \A q \in Place : q # dest => copies'[q] = copies[q]
        BY <1>1, <1>7, <2>1, <2>3 DEF TranscriptsTypes
    <2>5. ASSUME NEW q \in NewestOf(Held)' PROVE copies'[q].turns = said
        <3>1. CASE q = dest
            BY <1>7, <2>4, <3>1
        <3>2. CASE q # dest
            <4>1. q \in Place /\ copies'[q] = copies[q] /\ q \in Held
                BY <2>4, <3>2 DEF NewestOf, Held
            <4>2. dest \in Held'
                BY <1>1, <1>7, <2>4 DEF Held
            <4>3. ~isNewer(copies[found], copies[q])
                BY <2>4, <4>1, <4>2 DEF NewestOf
            <4>4. ASSUME NEW r \in Held PROVE ~isNewer(copies[r], copies[q])
                <5>1. ~isNewer(copies[r], copies[found])
                    BY <1>4, <1>6 DEF NewestOf
                <5>2. copies[r] \in FileOf /\ copies[q] \in FileOf
                    BY <1>5, <4>1 DEF TranscriptsTypes
                <5> QED
                    BY <1>7, <4>3, <5>1, <5>2, NewerIsAnOrder
            <4>5. q \in NewestOf(Held)
                BY <4>1, <4>4 DEF NewestOf
            <4> QED
                BY <1>2, <4>1, <4>5 DEF ResumesTheWhole
        <3> QED
            BY <3>1, <3>2
    <2>6. \A q \in Place : Len(copies'[q].turns) <= Len(said) /\ copies'[q].at <= MaxTurns + 1
        BY <1>7, <2>4 DEF NoneIsLonger, TranscriptsTypes
    <2> QED
        BY <1>7, <2>3, <2>4, <2>5, <2>6 DEF dest
<1> QED
    BY <1>9, <1>10

LEMMA NoFileIsAFile == NoFile \in FileOf /\ Len(NoFile.turns) = 0 /\ NoFile.at = 0
BY DEF NoFile, FileOf

(* Among files there is a newest one. *)
LEMMA ANewestExists ==
    ASSUME TranscriptsTypes, NoneIsLonger, NEW places \in SUBSET Place, places # {}
    PROVE  NewestOf(places) # {}
<1> USE TranscriptsAssumption DEF TranscriptsTypes
<1> DEFINE times == {copies[p].at : p \in places}
<1>1. \A p \in places : /\ copies[p].at \in Nat /\ copies[p].at <= MaxTurns + 1
                        /\ Len(copies[p].turns) \in Nat
                        /\ Len(copies[p].turns) <= Len(said)
    BY DEF FileOf, NoneIsLonger
<1>2. times \in SUBSET Nat /\ times # {} /\ \A x \in times : x <= MaxTurns + 1
    BY <1>1
<1>3. MaxTurns + 1 \in Nat
    OBVIOUS
<1>4. PICK t \in times : \A x \in times : x <= t
    BY <1>2, <1>3, LargestExists
<1> DEFINE late == {p \in places : copies[p].at = t}
           lengths == {Len(copies[p].turns) : p \in late}
<1>5. late # {}
    BY <1>4
<1>6. lengths \in SUBSET Nat /\ lengths # {} /\ \A x \in lengths : x <= Len(said)
    BY <1>1, <1>5
<1>7. Len(said) \in Nat
    OBVIOUS
<1>8. PICK n \in lengths : \A x \in lengths : x <= n
    BY <1>6, <1>7, LargestExists
<1>9. PICK p \in late : Len(copies[p].turns) = n
    BY <1>8
<1>10. ASSUME NEW q \in places PROVE ~isNewer(copies[q], copies[p])
    <2>1. copies[q].at <= copies[p].at /\ copies[q].at \in Nat /\ copies[p].at \in Nat
        BY <1>1, <1>4
    <2>2. copies[q].at = copies[p].at => Len(copies[q].turns) <= Len(copies[p].turns)
        BY <1>8, <1>9
    <2>3. Len(copies[q].turns) \in Nat /\ Len(copies[p].turns) \in Nat
        BY <1>1
    <2> QED
        BY <2>1, <2>2, <2>3 DEF isNewer
<1> QED
    BY <1>10 DEF NewestOf

(* Launch keeps the invariant, also when it strays.                        *)
LEMMA LaunchStep == ASSUME TranscriptsInv, Launch PROVE TranscriptsInv'
<1> USE DEF TranscriptsInv
<1> DEFINE dest == <<effectiveActive, folder>>
           synced == IF resumeId THEN ensureSdkTranscript(dest) ELSE copies
<1>1. /\ cli' = effectiveActive /\ UNCHANGED <<login, chosen, folder, said, changes>>
      /\ resumeId' = (resumeId /\ synced[dest] # NoFile)
      /\ copies' = IF resumeId' THEN synced ELSE [p \in Place |-> NoFile]
      /\ strayed' = (strayed \/ (resumeId /\ NewestOf(Held) \cap Searched = {}))
    BY DEF Launch
<1>2. effectiveActive \in AccountDirs
    BY ActiveIsADirectory DEF TranscriptsTypes
<1>3. \A p \in Place : /\ copies[p] \in FileOf /\ Len(copies[p].turns) <= Len(said)
                       /\ copies[p].at <= MaxTurns + 1
    BY DEF TranscriptsTypes, NoneIsLonger
<1>4. /\ synced \in [Place -> FileOf]
      /\ \A p \in Place : Len(synced[p].turns) <= Len(said) /\ synced[p].at <= MaxTurns + 1
    <2>1. CASE synced = copies
        BY <1>3, <2>1 DEF TranscriptsTypes
    <2>2. CASE synced # copies
        <3> DEFINE found == CHOOSE p \in NewestOf(Searched) : TRUE
        <3>1. Searched # {} /\ synced = [copies EXCEPT ![dest] = copies[found]]
            BY <2>2 DEF ensureSdkTranscript
        <3>2. Searched \in SUBSET Place
            BY DEF Searched, Held
        <3>3. NewestOf(Searched) # {}
            BY <3>1, <3>2, ANewestExists
        <3>4. found \in Place
            BY <3>2, <3>3 DEF NewestOf
        <3> HIDE DEF found
        <3> QED
            BY <1>3, <3>1, <3>4 DEF TranscriptsTypes
    <2> QED
        BY <2>1, <2>2
<1>5. /\ copies' \in [Place -> FileOf]
      /\ \A p \in Place : Len(copies'[p].turns) <= Len(said) /\ copies'[p].at <= MaxTurns + 1
    <2>1. MaxTurns \in Nat /\ Len(said) \in Nat
        BY TranscriptsAssumption DEF TranscriptsTypes
    <2> HIDE DEF synced
    <2> QED
        BY <1>1, <1>4, <2>1, NoFileIsAFile
<1> HIDE DEF synced, dest
<1>6. TranscriptsTypes' /\ NoneIsLonger'
    BY <1>1, <1>2, <1>5 DEF TranscriptsTypes, NoneIsLonger
<1>7. CASE strayed' \/ said = <<>>
    BY <1>1, <1>6, <1>7 DEF ResumesTheWhole
<1>8. CASE ~strayed' /\ said # <<>>
    <2>1. resumeId
        BY <1>1, <1>8
    <2>2. /\ resumeId' /\ copies'[<<effectiveActive, folder>>].turns = said
          /\ \A p \in NewestOf(Held)' : copies'[p].turns = said
        BY <1>8, <2>1, LaunchKeepsTheWhole
    <2> QED
        BY <1>1, <1>6, <2>2 DEF ResumesTheWhole
<1> QED
    BY <1>7, <1>8

(* The turn is appended to the whole conversation, in a file that is newer *)
(* than every other: later, or as late and longer.                         *)
LEMMA TurnStep == ASSUME TranscriptsInv, Turn PROVE TranscriptsInv'
<1> USE DEF TranscriptsInv
<1> DEFINE here == <<cli, folder>>
           number == Len(said) + 1
           before == IF resumeId THEN copies[here].turns ELSE <<>>
<1>1. /\ cli # Nowhere /\ Len(said) < MaxTurns /\ resumeId' = TRUE /\ said' = Append(said, number)
      /\ UNCHANGED <<login, chosen, folder, cli, strayed, changes>>
    BY DEF Turn
<1>2. PICK t \in 1..(MaxTurns + 1) :
          /\ \A p \in Held : copies[p].at <= t
          /\ copies' = [copies EXCEPT ![here] = [turns |-> Append(before, number), at |-> t]]
    BY DEF Turn
<1>3. here \in Place
    BY <1>1 DEF TranscriptsTypes, Place
<1>4. /\ Len(said) \in Nat /\ number \in Nat /\ said' \in Seq(Nat) /\ Len(said') = Len(said) + 1
      /\ MaxTurns \in Nat /\ t \in Nat /\ t <= MaxTurns + 1
    BY <1>1, <1>2, TranscriptsAssumption DEF TranscriptsTypes
<1>5. before \in Seq(Nat) /\ Len(before) <= Len(said)
    BY <1>3, <1>4 DEF TranscriptsTypes, NoneIsLonger, FileOf
<1> HIDE DEF before, number, here
<1>6. /\ copies'[here] = [turns |-> Append(before, number), at |-> t]
      /\ copies'[here] \in FileOf /\ Len(copies'[here].turns) <= Len(said')
      /\ \A q \in Place : q # here => copies'[q] = copies[q]
      /\ copies' \in [Place -> FileOf]
    BY <1>2, <1>3, <1>4, <1>5 DEF TranscriptsTypes, FileOf
<1>7. \A q \in Place : /\ copies[q].at \in Nat /\ Len(copies[q].turns) \in Nat
                       /\ Len(copies[q].turns) <= Len(said) /\ copies[q].at <= MaxTurns + 1
    BY DEF TranscriptsTypes, FileOf, NoneIsLonger
<1>8. \A q \in Place : Len(copies'[q].turns) <= Len(said') /\ copies'[q].at <= MaxTurns + 1
    BY <1>4, <1>6, <1>7
<1>9. TranscriptsTypes' /\ NoneIsLonger'
    BY <1>1, <1>4, <1>6, <1>8 DEF TranscriptsTypes, NoneIsLonger
<1>10. ASSUME ~strayed PROVE ResumesTheWhole'
    <2>1. before = said
        <3>1. CASE said = <<>>
            BY <1>5, <3>1
        <3>2. CASE said # <<>>
            BY <1>1, <1>10, <3>2 DEF before, here, ResumesTheWhole
        <3> QED
            BY <3>1, <3>2
    <2>2. copies'[here].turns = said' /\ copies'[here].at = t
        BY <1>1, <1>6, <2>1
    <2>3. here \in Held'
        BY <1>1, <1>3, <1>4, <2>2, NoFileIsAFile DEF Held
    <2>4. ASSUME NEW q \in NewestOf(Held)' PROVE q = here
        <3>1. q \in Place /\ copies'[q] # NoFile /\ ~isNewer(copies'[here], copies'[q])
            BY <2>3, <2>4 DEF NewestOf, Held
        <3>2. SUFFICES ASSUME q # here PROVE FALSE
            OBVIOUS
        <3>3. copies'[q] = copies[q] /\ q \in Held
            BY <1>6, <3>1, <3>2 DEF Held
        <3>4. copies[q].at <= t
            BY <1>2, <3>3
        <3>5. isNewer(copies'[here], copies[q])
            BY <1>4, <1>7, <2>2, <3>1, <3>4 DEF isNewer
        <3> QED
            BY <3>1, <3>3, <3>5
    <2>5. here' = here
        BY <1>1 DEF here
    <2> QED
        BY <1>1, <2>2, <2>4, <2>5 DEF ResumesTheWhole, here
<1> QED
    BY <1>1, <1>9, <1>10 DEF ResumesTheWhole

(* The rest moves no file, and what changes the place closes the query. *)
LEMMA TranscriptsStep == TranscriptsInv /\ [TranscriptsNext]_transcriptsVars => TranscriptsInv'
<1> SUFFICES ASSUME TranscriptsInv, [TranscriptsNext]_transcriptsVars PROVE TranscriptsInv'
    OBVIOUS
<1> USE DEF TranscriptsInv
<1>1. ASSUME UNCHANGED <<resumeId, copies, said, strayed>>,
             chosen' \in AccountDirs, folder' \in Folders,
             cli' = Nowhere \/ UNCHANGED <<cli, folder>>
      PROVE  TranscriptsInv'
    <2>1. NewestOf(Held)' = NewestOf(Held)
        BY <1>1 DEF NewestOf, Held
    <2>2. TranscriptsTypes' /\ NoneIsLonger'
        BY <1>1 DEF TranscriptsTypes, NoneIsLonger
    <2> QED
        BY <1>1, <2>1, <2>2 DEF ResumesTheWhole
<1>2. \/ Launch \/ Turn
      \/ /\ UNCHANGED <<resumeId, copies, said, strayed>>
         /\ chosen' \in AccountDirs /\ folder' \in Folders
         /\ cli' = Nowhere \/ UNCHANGED <<cli, folder>>
    BY DEF TranscriptsNext, transcriptsVars, SetAccount, SignIn, OutsideLogin, MoveTo,
           TranscriptsTypes
<1> QED
    BY <1>1, <1>2, LaunchStep, TurnStep

(* ensureSdkTranscript brings every launch the whole conversation, for any *)
(* number of accounts, folders and switches, as long as each launch        *)
(* searched the directory of a newest file.                                *)
THEOREM TheWholeIsResumed == TranscriptsSpec => []ResumesTheWhole
<1>1. TranscriptsInit => TranscriptsInv
    <2> SUFFICES ASSUME TranscriptsInit PROVE TranscriptsInv
        OBVIOUS
    <2>1. TranscriptsTypes
        BY NoFileIsAFile, TranscriptsAssumption DEF TranscriptsInit, TranscriptsTypes, AccountDirs
    <2>2. NoneIsLonger
        BY NoFileIsAFile DEF TranscriptsInit, NoneIsLonger
    <2> QED
        BY <2>1, <2>2 DEF TranscriptsInit, TranscriptsInv, ResumesTheWhole
<1>2. TranscriptsInv => ResumesTheWhole
    BY DEF TranscriptsInv
<1> QED
    BY <1>1, <1>2, TranscriptsStep, PTL DEF TranscriptsSpec

-----------------------------------------------------------------------------
(* SharedSetup                                                             *)

LoginOf == [own : Nat, mcp : Nat, at : Nat]

SetupTypes ==
    /\ creds \in [SetupDirs -> LoginOf]
    /\ newestMcp \in Nat
    /\ \A d \in SetupDirs : creds[d].mcp <= newestMcp

(* Some file was written last. *)
SomeIsLatest == \E d \in SetupDirs : \A o \in SetupDirs : creds[o].at <= creds[d].at

(* The newest login is in the latest of the files that have one. *)
LatestIsNewest ==
    \E d \in SetupDirs :
        /\ creds[d].mcp = newestMcp
        /\ \A o \in SetupDirs : creds[o].mcp \notin {0, newestMcp} => creds[o].at < creds[d].at
        /\ \A o \in SetupDirs : creds[o].mcp = newestMcp => creds[o].at <= creds[d].at

(* Every entry saved is in the shared file or in an account's own, or was  *)
(* in a file elsewhere when its link was replaced.                         *)
EntriesAreKept ==
    entered \subseteq mainSettings \cup severed \cup UNION {ownSettings[d].has : d \in SetupNamed}

(* An account has settings of its own, here or elsewhere, or the link.     *)
HasSettings(own) == own.kind \in {"file", "elsewhere"} \/ own = Linked

(* What holds as long as none of the three excuses applies.                *)
Untroubled ==
    /\ SetupTypes
    /\ SomeIsLatest
    /\ EntriesAreKept
    /\ LatestIsNewest
    /\ sharing = "write" => taken = creds
    /\ ownSettings = [d \in SetupNamed |-> ownSettings[d]]
    /\ \A d \in SetupNamed : HasSettings(ownSettings[d])

SetupInv == ~disturbed /\ ~overtaken => Untroubled

(* The clock of the model is at or after every file. *)
LEMMA ClockIsLatest ==
    ASSUME SetupTypes, SomeIsLatest
    PROVE  Clock \in Nat /\ \A o \in SetupDirs : creds[o].at \in Nat /\ creds[o].at <= Clock
<1> DEFINE times == {creds[d].at : d \in SetupDirs}
<1>1. PICK d \in SetupDirs : \A o \in SetupDirs : creds[o].at <= creds[d].at
    BY DEF SomeIsLatest
<1>2. \A o \in SetupDirs : creds[o].at \in Nat
    BY DEF SetupTypes, LoginOf
<1>3. \E x \in times : \A y \in times : x >= y
    BY <1>1, <1>2
<1>4. Clock \in times /\ \A y \in times : Clock >= y
    BY <1>3 DEF Clock, Max
<1> QED
    BY <1>2, <1>4

(* One file written at a new time is the latest. *)
LEMMA WrittenIsLatest ==
    ASSUME SetupTypes, SomeIsLatest, NEW d \in SetupDirs, NEW saved \in LoginOf,
           saved.at = Clock + 1, creds' = [creds EXCEPT ![d] = saved]
    PROVE  /\ creds' \in [SetupDirs -> LoginOf] /\ SomeIsLatest'
           /\ creds'[d] = saved
           /\ \A o \in SetupDirs : o # d => creds'[o] = creds[o] /\ creds'[o].at < creds'[d].at
<1>1. Clock \in Nat /\ \A o \in SetupDirs : creds[o].at \in Nat /\ creds[o].at <= Clock
    BY ClockIsLatest
<1>2. /\ creds' \in [SetupDirs -> LoginOf] /\ creds'[d] = saved
      /\ \A o \in SetupDirs : o # d => creds'[o] = creds[o]
    BY DEF SetupTypes
<1>3. \A o \in SetupDirs : o # d => creds'[o].at < creds'[d].at
    BY <1>1, <1>2
<1>4. saved.at <= saved.at
    BY <1>1
<1>5. SomeIsLatest'
    BY <1>1, <1>2, <1>3, <1>4 DEF SomeIsLatest
<1> QED
    BY <1>2, <1>3, <1>5

(* The login kept for all is the newest one. *)
LEMMA NewestIsKept ==
    ASSUME SetupTypes, LatestIsNewest PROVE newestLogins(creds) = newestMcp
<1> DEFINE filled == {d \in SetupDirs : creds[d].mcp # 0}
           last == {d \in filled : \A o \in filled : creds[o].at <= creds[d].at}
<1>0. \A o \in SetupDirs : creds[o].at \in Nat /\ creds[o].mcp \in Nat
    BY DEF SetupTypes, LoginOf
<1>1. PICK d \in SetupDirs :
        /\ creds[d].mcp = newestMcp
        /\ \A o \in SetupDirs : creds[o].mcp \notin {0, newestMcp} => creds[o].at < creds[d].at
        /\ \A o \in SetupDirs : creds[o].mcp = newestMcp => creds[o].at <= creds[d].at
    BY DEF LatestIsNewest
<1>2. CASE newestMcp = 0
    <2>1. filled = {}
        BY <1>0, <1>2 DEF SetupTypes
    <2> QED
        BY <1>2, <2>1 DEF newestLogins
<1>3. CASE newestMcp # 0
    <2>1. d \in filled
        BY <1>1, <1>3
    <2>2. d \in last
        BY <1>0, <1>1, <2>1
    <2>3. ASSUME NEW o \in last PROVE creds[o].mcp = newestMcp
        <3>1. creds[d].at <= creds[o].at /\ creds[o].mcp # 0 /\ o \in SetupDirs
            BY <2>1
        <3> QED
            BY <1>0, <1>1, <3>1
    <2>4. (CHOOSE o \in last : TRUE) \in last
        BY <2>2
    <2>5. newestLogins(creds) = creds[CHOOSE o \in last : TRUE].mcp
        BY <2>1 DEF newestLogins
    <2> QED
        BY <2>3, <2>4, <2>5
<1> QED
    BY <1>2, <1>3

(* Every account's file with the newest login in it, written last. *)
LEMMA NewestWritten ==
    ASSUME SetupTypes, SomeIsLatest, NEW d \in SetupDirs, NEW saved \in LoginOf,
           saved.at = Clock + 1, creds' = [creds EXCEPT ![d] = saved],
           newestMcp' \in Nat, newestMcp' >= newestMcp, saved.mcp = newestMcp'
    PROVE  SetupTypes' /\ SomeIsLatest' /\ LatestIsNewest'
<1>1. /\ creds' \in [SetupDirs -> LoginOf] /\ SomeIsLatest' /\ creds'[d] = saved
      /\ \A o \in SetupDirs : o # d => creds'[o] = creds[o] /\ creds'[o].at < creds'[d].at
    BY WrittenIsLatest
<1>2. saved.at \in Nat
    BY DEF LoginOf
<1>3. \A o \in SetupDirs : creds[o].mcp \in Nat /\ creds[o].mcp <= newestMcp
    BY DEF SetupTypes, LoginOf
<1>4. newestMcp \in Nat
    BY DEF SetupTypes
<1>5. \A o \in SetupDirs : creds'[o].mcp <= newestMcp'
    BY <1>1, <1>3, <1>4
<1>6. SetupTypes'
    BY <1>1, <1>5 DEF SetupTypes
<1>7. \A o \in SetupDirs : creds'[o].at \in Nat
    BY <1>1 DEF LoginOf
<1>8. \A o \in SetupDirs : creds'[o].at <= creds'[d].at
    BY <1>1, <1>7
<1>9. \A o \in SetupDirs : creds'[o].mcp \notin {0, newestMcp'} => creds'[o].at < creds'[d].at
    BY <1>1
<1>10. LatestIsNewest'
    BY <1>1, <1>8, <1>9 DEF LatestIsNewest
<1> QED
    BY <1>1, <1>6, <1>10

(* A sign-in, a refresh, or a file brought up to date by the daemon. *)
LEMMA CredsStep ==
    ASSUME SetupInv, NEW d \in SetupDirs, McpSignIn(d) \/ RefreshLogin(d) \/ WriteCreds(d)
    PROVE  SetupInv'
<1> SUFFICES ASSUME ~disturbed', ~overtaken' PROVE Untroubled'
    BY DEF SetupInv
<1>a. ~disturbed /\ ~overtaken
    <2>1. CASE McpSignIn(d)
        BY <2>1 DEF McpSignIn
    <2>2. CASE RefreshLogin(d)
        BY <2>2 DEF RefreshLogin
    <2>3. CASE WriteCreds(d)
        BY <2>3 DEF WriteCreds
    <2> QED
        BY <2>1, <2>2, <2>3
<1>b. Untroubled
    BY <1>a DEF SetupInv
<1> USE <1>b DEF Untroubled
<1>0. Clock \in Nat /\ Clock + 1 \in Nat /\ creds[d] \in LoginOf /\ newestMcp \in Nat
    BY ClockIsLatest DEF SetupTypes
<1>c. creds[d] = [own |-> creds[d].own, mcp |-> creds[d].mcp, at |-> creds[d].at]
      /\ creds[d].own \in Nat /\ creds[d].mcp \in Nat
    BY <1>0 DEF LoginOf
<1>1. CASE McpSignIn(d)
    <2> DEFINE saved == [own |-> creds[d].own, mcp |-> newestMcp + 1, at |-> Clock + 1]
    <2>2. saved \in LoginOf /\ saved.mcp = newestMcp + 1 /\ saved.at = Clock + 1
        BY <1>0, <1>c DEF LoginOf
    <2> HIDE DEF saved
    <2>3. /\ newestMcp' = newestMcp + 1 /\ creds' = [creds EXCEPT ![d] = saved]
          /\ UNCHANGED <<mainSettings, ownSettings, entered, severed, sharing>>
          /\ sharing = "no"
        BY <1>1 DEF McpSignIn, saved
    <2>4. newestMcp' \in Nat /\ newestMcp' >= newestMcp
        BY <1>0, <2>3
    <2>5. SetupTypes' /\ SomeIsLatest' /\ LatestIsNewest'
        BY <2>2, <2>3, <2>4, NewestWritten
    <2> QED
        BY <2>3, <2>5 DEF EntriesAreKept
<1>2. CASE RefreshLogin(d)
    <2> DEFINE saved == [own |-> creds[d].own + 1, mcp |-> creds[d].mcp, at |-> Clock + 1]
    <2>2. saved \in LoginOf /\ saved.mcp = creds[d].mcp /\ saved.at = Clock + 1
        BY <1>0, <1>c DEF LoginOf
    <2> HIDE DEF saved
    <2>3. /\ creds' = [creds EXCEPT ![d] = saved]
          /\ UNCHANGED <<newestMcp, mainSettings, ownSettings, entered, severed, sharing>>
          /\ sharing = "no" /\ creds[d].mcp = newestMcp
        BY <1>2 DEF RefreshLogin, saved
    <2>4. newestMcp' \in Nat /\ newestMcp' >= newestMcp
        BY <1>0, <2>3
    <2>5. SetupTypes' /\ SomeIsLatest' /\ LatestIsNewest'
        BY <2>2, <2>3, <2>4, NewestWritten
    <2> QED
        BY <2>3, <2>5 DEF EntriesAreKept
<1>3. CASE WriteCreds(d)
    <2> DEFINE saved == [own |-> creds[d].own, mcp |-> newestMcp, at |-> Clock + 1]
    <2>2. saved \in LoginOf /\ saved.mcp = newestMcp /\ saved.at = Clock + 1
        BY <1>0, <1>c DEF LoginOf
    <2> HIDE DEF saved
    <2>3. sharing = "write" /\ taken = creds
        BY <1>3 DEF WriteCreds
    <2>4. newestLogins(taken) = newestMcp
        BY <2>3, NewestIsKept
    <2>5. /\ taken' = [creds EXCEPT ![d] = saved] /\ creds' = [creds EXCEPT ![d] = taken'[d]]
          /\ UNCHANGED <<newestMcp, mainSettings, ownSettings, entered, severed, sharing>>
        BY <1>3, <2>3, <2>4 DEF WriteCreds, saved
    <2>6. creds' = [creds EXCEPT ![d] = saved]
        BY <2>5 DEF SetupTypes
    <2>7. newestMcp' \in Nat /\ newestMcp' >= newestMcp
        BY <1>0, <2>5
    <2>8. SetupTypes' /\ SomeIsLatest' /\ LatestIsNewest'
        BY <2>2, <2>5, <2>6, <2>7, NewestWritten
    <2> QED
        BY <2>5, <2>6, <2>8 DEF EntriesAreKept
<1> QED
    BY <1>1, <1>2, <1>3

(* A save of settings, and the merge that makes every file a link. *)
LEMMA SettingsStep ==
    ASSUME SetupInv,
           \/ \E e \in Entries : SaveMain(e)
           \/ \E d \in SetupNamed, e \in Entries :
                 SaveSettings(d, e) \/ BreakSettings(d, e) \/ LinkElsewhere(d, e)
           \/ shareSettings
    PROVE  SetupInv'
<1> SUFFICES ASSUME ~disturbed', ~overtaken' PROVE Untroubled'
    BY DEF SetupInv
<1>a. /\ ~disturbed /\ ~overtaken /\ UNCHANGED <<creds, newestMcp, taken>>
      /\ sharing' = "write" => sharing = "write"
    <2>1. ASSUME NEW e \in Entries, SaveMain(e) PROVE <1>a!:
        BY <2>1 DEF SaveMain
    <2>2. ASSUME NEW d \in SetupNamed, NEW e \in Entries, SaveSettings(d, e) PROVE <1>a!:
        BY <2>2 DEF SaveSettings
    <2>3. ASSUME NEW d \in SetupNamed, NEW e \in Entries, BreakSettings(d, e) PROVE <1>a!:
        BY <2>3 DEF BreakSettings
    <2>4. CASE shareSettings
        BY <2>4 DEF shareSettings
    <2>5. ASSUME NEW d \in SetupNamed, NEW e \in Entries, LinkElsewhere(d, e) PROVE <1>a!:
        BY <2>5 DEF LinkElsewhere
    <2> QED
        BY <2>1, <2>2, <2>3, <2>4, <2>5
<1>b. Untroubled
    BY <1>a DEF SetupInv
<1> USE <1>b DEF Untroubled
<1>c. SetupTypes' /\ SomeIsLatest' /\ LatestIsNewest' /\ (sharing' = "write" => taken' = creds')
    BY <1>a DEF SetupTypes, SomeIsLatest, LatestIsNewest
<1>d. ownSettings' = [d \in SetupNamed |-> ownSettings'[d]]
    BY DEF SaveMain, SaveSettings, BreakSettings, LinkElsewhere, shareSettings
<1> SUFFICES /\ EntriesAreKept'
             /\ \A d \in SetupNamed : HasSettings(ownSettings'[d])
    BY <1>c, <1>d
<1>1. ASSUME NEW e \in Entries, SaveMain(e)
      PROVE  EntriesAreKept' /\ UNCHANGED ownSettings
    BY <1>1 DEF SaveMain, EntriesAreKept
<1>2. ASSUME NEW d \in SetupNamed, NEW e \in Entries, SaveSettings(d, e) \/ LinkElsewhere(d, e)
      PROVE  EntriesAreKept' /\ \A o \in SetupNamed : HasSettings(ownSettings'[o])
    <2>0. PICK saved \in {OwnFile(SeenBy(d) \cup {e}), Elsewhere(SeenBy(d) \cup {e})} :
              ownSettings' = [ownSettings EXCEPT ![d] = saved]
        BY <1>2 DEF SaveSettings, LinkElsewhere
    <2>1. /\ entered' = entered \cup {e} /\ mainSettings' = mainSettings /\ severed' = severed
          /\ ownSettings'[d] = saved
          /\ \A o \in SetupNamed : o # d => ownSettings'[o] = ownSettings[o]
        BY <1>2, <2>0 DEF SaveSettings, LinkElsewhere
    <2>2. HasSettings(saved) /\ saved.has = SeenBy(d) \cup {e}
        BY DEF OwnFile, Elsewhere, HasSettings
    <2>3. \A x \in ownSettings[d].has : x \in SeenBy(d)
        BY DEF SeenBy, Linked
    <2>4. ASSUME NEW x \in entered'
          PROVE  \/ x \in mainSettings' \/ x \in severed'
                 \/ \E o \in SetupNamed : x \in ownSettings'[o].has
        <3>1. CASE x = e
            BY <2>1, <2>2, <3>1
        <3>2. CASE x \in mainSettings \cup severed
            BY <2>1, <3>2
        <3>3. CASE \E o \in SetupNamed : x \in ownSettings[o].has
            BY <2>1, <2>2, <2>3, <3>3
        <3> QED
            BY <2>1, <3>1, <3>2, <3>3 DEF EntriesAreKept
    <2>5. EntriesAreKept'
        BY <2>4 DEF EntriesAreKept
    <2> QED
        BY <2>1, <2>2, <2>5
<1>3. ASSUME NEW d \in SetupNamed, NEW e \in Entries, BreakSettings(d, e)
      PROVE  FALSE
    BY <1>3 DEF BreakSettings
<1>4. CASE shareSettings
    <2> DEFINE own == {d \in SetupNamed : ownSettings[d].kind = "file"}
               away == {d \in SetupNamed : ownSettings[d].kind = "elsewhere"}
    <2>1. /\ mainSettings' = mainSettings \cup UNION {ownSettings[d].has : d \in own}
          /\ severed' = severed \cup UNION {ownSettings[d].has : d \in away}
          /\ ownSettings' = [d \in SetupNamed |-> Linked] /\ entered' = entered
        BY <1>4 DEF shareSettings
    <2>2. ASSUME NEW d \in SetupNamed, NEW x \in ownSettings[d].has PROVE d \in own \cup away
        BY <2>2 DEF Linked, HasSettings
    <2>3. EntriesAreKept'
        BY <2>1, <2>2 DEF EntriesAreKept
    <2> QED
        BY <2>1, <2>3 DEF HasSettings
<1> QED
    BY <1>1, <1>2, <1>3, <1>4

LEMMA SetupStep == SetupInv /\ [SetupNext]_setupVars => SetupInv'
<1> SUFFICES ASSUME SetupInv, [SetupNext]_setupVars PROVE SetupInv'
    OBVIOUS
<1> USE DEF SetupInv
<1>1. CASE UNCHANGED setupVars
    BY <1>1 DEF setupVars, Untroubled, SetupTypes, SomeIsLatest, LatestIsNewest, EntriesAreKept
<1>2. CASE ReadCreds
    BY <1>2 DEF ReadCreds, Untroubled, SetupTypes, SomeIsLatest, LatestIsNewest, EntriesAreKept
<1>3. CASE ShareDone
    BY <1>3 DEF ShareDone, Untroubled, SetupTypes, SomeIsLatest, LatestIsNewest, EntriesAreKept
<1> QED
    BY <1>1, <1>2, <1>3, CredsStep, SettingsStep DEF SetupNext

(* shareAccountSetup loses no settings entry and not the last MCP sign-in, *)
(* for any number of accounts, unless a file is written while it runs,     *)
(* cannot be read, is the user's own link, or is saved later with an older *)
(* login.                                                                  *)
THEOREM SharingIsSafe == SetupSpec => []SharingLosesNothing
<1>1. SetupInit => SetupInv
    <2> SUFFICES ASSUME SetupInit PROVE Untroubled
        BY DEF SetupInv
    <2>1. [own |-> 0, mcp |-> 0, at |-> 0] \in LoginOf
        BY DEF LoginOf
    <2>2. \A d \in SetupDirs : creds[d].at = 0 /\ creds[d].mcp = 0
        BY DEF SetupInit
    <2>3. SetupTypes
        BY <2>1, <2>2 DEF SetupInit, SetupTypes
    <2>4. SetupHome \in SetupDirs
        BY DEF SetupDirs
    <2>5. SomeIsLatest /\ LatestIsNewest
        BY <2>2, <2>4 DEF SetupInit, SomeIsLatest, LatestIsNewest
    <2> QED
        BY <2>3, <2>5 DEF SetupInit, Untroubled, EntriesAreKept, OwnFile, HasSettings
<1>2. SetupInv => SharingLosesNothing
    BY DEF SetupInv, Untroubled, EntriesAreKept, LatestIsNewest, SharingLosesNothing
<1> QED
    BY <1>1, <1>2, SetupStep, PTL DEF SetupSpec

-----------------------------------------------------------------------------
(* Limits                                                                  *)

WindowOf == [status : {"unknown", "rejected", "allowed"}, resetsAt : Nat, full : BOOLEAN]

LimitsTypes ==
    /\ now \in Nat
    /\ spentUntil \in [Kinds -> Nat]
    /\ windows \in [Kinds -> WindowOf]
    /\ retryAt \in Nat
    /\ attempts \in Nat
    /\ spells \in Nat
    /\ misplanned \in Nat

(* The windows that are spent at time t. *)
SpentAt(t) == {k \in Kinds : spentUntil[k] > t}

(* Every attempt so far outlasted a spell, or was planned badly. *)
EachAttemptCounts ==
    attempts > 0 =>
        /\ turn = "running" => attempts + Cardinality(SpentAt(now)) <= spells + misplanned
        /\ turn = "parked" => attempts + Cardinality(SpentAt(retryAt)) <= spells + misplanned

LimitsInv == LimitsTypes /\ EachAttemptCounts /\ RefusedTurnComesBack

(* Later, no more windows are spent, and with one whole at least one less. *)
LEMMA FewerAreSpent ==
    ASSUME LimitsTypes, NEW t \in Nat, NEW u \in Nat, t <= u
    PROVE  /\ Cardinality(SpentAt(t)) \in Nat /\ Cardinality(SpentAt(u)) \in Nat
           /\ Cardinality(SpentAt(u)) <= Cardinality(SpentAt(t))
           /\ (\E k \in Kinds : spentUntil[k] > t /\ spentUntil[k] <= u)
                  => Cardinality(SpentAt(u)) + 1 <= Cardinality(SpentAt(t))
<1>1. IsFiniteSet(Kinds)
    BY LimitsAssumption
<1>2. SpentAt(u) \subseteq SpentAt(t) /\ SpentAt(t) \subseteq Kinds
    BY DEF SpentAt, LimitsTypes
<1>3. IsFiniteSet(SpentAt(u)) /\ IsFiniteSet(SpentAt(t))
    BY <1>1, <1>2, FS_Subset
<1>4. /\ Cardinality(SpentAt(t)) \in Nat /\ Cardinality(SpentAt(u)) \in Nat
      /\ Cardinality(SpentAt(u)) <= Cardinality(SpentAt(t))
    BY <1>2, <1>3, FS_Subset, FS_CardinalityType
<1>5. ASSUME NEW k \in Kinds, spentUntil[k] > t, spentUntil[k] <= u
      PROVE  Cardinality(SpentAt(u)) + 1 <= Cardinality(SpentAt(t))
    <2>1. k \in SpentAt(t) /\ k \notin SpentAt(u)
        BY <1>5 DEF SpentAt, LimitsTypes
    <2>2. /\ IsFiniteSet(SpentAt(u) \cup {k})
          /\ Cardinality(SpentAt(u) \cup {k}) = Cardinality(SpentAt(u)) + 1
        BY <1>3, <2>1, FS_AddElement
    <2>3. SpentAt(u) \cup {k} \subseteq SpentAt(t)
        BY <1>2, <2>1
    <2> QED
        BY <1>3, <2>2, <2>3, FS_Subset
<1> QED
    BY <1>4, <1>5

(* A window that is used up is one more spent at any time, at most. *)
LEMMA OneMoreIsSpent ==
    ASSUME LimitsTypes, NEW t \in Nat, NEW k \in Kinds, NEW until \in Nat,
           spentUntil' = [spentUntil EXCEPT ![k] = until]
    PROVE  /\ Cardinality(SpentAt(t))' \in Nat
           /\ Cardinality(SpentAt(t))' <= Cardinality(SpentAt(t)) + 1
<1>1. SpentAt(t) \subseteq Kinds /\ SpentAt(t)' \subseteq SpentAt(t) \cup {k}
    BY DEF SpentAt, LimitsTypes
<1>2. IsFiniteSet(SpentAt(t)) /\ Cardinality(SpentAt(t)) \in Nat
    BY <1>1, FS_Subset, FS_CardinalityType, LimitsAssumption
<1> DEFINE Ts == SpentAt(t)
<1> HIDE DEF Ts
<1>3. /\ IsFiniteSet(Ts \cup {k})
      /\ Cardinality(Ts \cup {k}) \in Nat
      /\ Cardinality(Ts \cup {k}) <= Cardinality(Ts) + 1
    <2>1. IsFiniteSet(Ts) /\ Cardinality(Ts) \in Nat
        BY <1>2 DEF Ts
    <2>2. CASE k \in Ts
        <3>1. Ts \cup {k} = Ts
            BY <2>2
        <3> QED
            BY <2>1, <3>1
    <2>3. CASE k \notin Ts
        BY <2>1, <2>3, FS_AddElement
    <2> QED
        BY <2>2, <2>3
<1>4. /\ IsFiniteSet(SpentAt(t)')
      /\ Cardinality(SpentAt(t)') <= Cardinality(Ts \cup {k})
    BY <1>1, <1>3, FS_Subset DEF Ts
<1>5. Cardinality(SpentAt(t)') \in Nat
    BY <1>4, FS_CardinalityType
<1> QED
    BY <1>2, <1>3, <1>4, <1>5 DEF Ts

(* The clamps of planRetry.                                                *)
LEMMA PairMinMax ==
    ASSUME NEW a \in Nat, NEW b \in Nat
    PROVE  /\ Min({a, b}) \in {a, b} /\ Min({a, b}) <= a /\ Min({a, b}) <= b
           /\ Max({a, b}) \in {a, b} /\ Max({a, b}) >= a /\ Max({a, b}) >= b
<1>1. \E x \in {a, b} : \A y \in {a, b} : x <= y
    OBVIOUS
<1>2. \E x \in {a, b} : \A y \in {a, b} : x >= y
    OBVIOUS
<1>3. Min({a, b}) \in {a, b} /\ \A y \in {a, b} : Min({a, b}) <= y
    BY <1>1 DEF Min
<1>4. Max({a, b}) \in {a, b} /\ \A y \in {a, b} : Max({a, b}) >= y
    BY <1>2 DEF Max
<1> QED
    BY <1>3, <1>4

LEMMA PlanIsATime ==
    ASSUME LimitsTypes, NEW known \in [Kinds -> WindowOf]
    PROVE  PlanRetry(known) \in Nat /\ PlanRetry(known) >= now
<1> DEFINE future   == {j \in Kinds : known[j].resetsAt > now}
           rejected == {j \in future : known[j].status = "rejected"}
           pool     == IF rejected # {} THEN rejected ELSE future
           resets   == {known[j].resetsAt : j \in pool}
           at       == IF pool # {} THEN Min(resets) ELSE now + BACKOFF
<1>1. now + MAX_WAIT \in Nat /\ now + 1 \in Nat /\ now + BACKOFF \in Nat
    BY LimitsAssumption DEF LimitsTypes
<1>2. ASSUME pool # {} PROVE Min(resets) \in Nat
    <2>1. pool \subseteq Kinds
        OBVIOUS
    <2>2. resets \in SUBSET Nat /\ resets # {}
        BY <1>2, <2>1 DEF WindowOf
    <2> HIDE DEF resets
    <2>3. \E x \in resets : \A y \in resets : x <= y
        BY <2>2, SmallestExists
    <2>4. Min(resets) \in resets
        BY <2>3 DEF Min
    <2> QED
        BY <2>2, <2>4
<1>3. at \in Nat
    BY <1>1, <1>2
<1>4. PlanRetry(known) = Max({Min({at, now + MAX_WAIT}), now + 1})
    BY DEF PlanRetry
<1> HIDE DEF at
<1> DEFINE capped == Min({at, now + MAX_WAIT})
<1>5. capped \in Nat
    BY <1>1, <1>3, PairMinMax
<1> HIDE DEF capped
<1>6. Max({capped, now + 1}) \in Nat /\ Max({capped, now + 1}) >= now + 1
    BY <1>1, <1>5, PairMinMax
<1> QED
    BY <1>4, <1>6 DEF capped, LimitsTypes

(* A retry planned from true reset times of windows that open within       *)
(* MAX_WAIT comes when one of them has opened.                             *)
LEMMA RetryOutlastsOne ==
    ASSUME LimitsTypes, NEW known \in [Kinds -> WindowOf],
           NEW k \in Kinds, known[k].status = "rejected", known[k].resetsAt = spentUntil[k], Spent(k),
           \A j \in Blocking : spentUntil[j] <= now + MAX_WAIT,
           \A j \in Kinds : ~StaleRejection(known, j)
    PROVE  /\ PlanRetry(known) \in Nat /\ PlanRetry(known) >= now
           /\ \E j \in Kinds : Spent(j) /\ spentUntil[j] <= PlanRetry(known)
<1> DEFINE future   == {j \in Kinds : known[j].resetsAt > now}
           rejected == {j \in future : known[j].status = "rejected"}
           resets   == {known[j].resetsAt : j \in rejected}
           at       == Min(resets)
           capped   == Min({at, now + MAX_WAIT})
<1>0. now \in Nat /\ MAX_WAIT \in Nat /\ now + MAX_WAIT \in Nat /\ now + 1 \in Nat
    BY LimitsAssumption DEF LimitsTypes
<1>1. k \in rejected
    BY DEF Spent
<1>2. resets \in SUBSET Nat /\ resets # {}
    BY <1>1 DEF WindowOf
<1>3. \E x \in resets : \A y \in resets : x <= y
    BY <1>2, SmallestExists
<1>4. at \in resets
    BY <1>3 DEF Min
<1>5. PICK j \in rejected : at = known[j].resetsAt
    BY <1>4
<1>6. j \in Kinds /\ at = spentUntil[j] /\ at \in Nat /\ at > now
    BY <1>2, <1>4, <1>5 DEF StaleRejection
<1>7. Spent(j) /\ at <= now + MAX_WAIT
    BY <1>6 DEF Spent, Blocking
<1> HIDE DEF at
<1>8. capped = at
    BY <1>0, <1>6, <1>7, PairMinMax
<1>9. PlanRetry(known) = Max({capped, now + 1})
    BY <1>1 DEF PlanRetry, at
<1> HIDE DEF capped
<1>10. PlanRetry(known) \in {at, now + 1} /\ PlanRetry(known) >= at
    BY <1>0, <1>6, <1>8, <1>9, PairMinMax
<1> QED
    BY <1>0, <1>6, <1>7, <1>10

(* A retry costs an attempt and leaves one window less, or is misplanned. *)
LEMMA AttemptsAddUp ==
    ASSUME NEW a \in Nat, NEW here \in Nat, NEW there \in Nat, NEW one \in Nat,
           NEW s \in Nat, NEW m \in Nat, a + here + one <= s + m, there + 1 <= here + one
    PROVE  s + m \in Nat /\ a + 1 + there <= s + m
OBVIOUS

(* A retry that is planned well comes when one of the windows that refused *)
(* is whole; the others are counted.                                       *)
LEMMA RefusedStep ==
    ASSUME LimitsInv, NEW k \in Kinds, NEW told \in BOOLEAN, Refused(k, told)
    PROVE  LimitsInv'
<1> USE DEF LimitsInv
<1> DEFINE known == IF told THEN Reported(k) ELSE windows
           wrong == Misplanned(known, told)
           plan  == PlanRetry(known)
           here  == Cardinality(SpentAt(now))
           one   == IF wrong THEN 1 ELSE 0
<1>0. /\ turn = "running" /\ Spent(k) /\ windows' = known
      /\ unreported' = ~told
      /\ spells' = IF attempts = 0 THEN Cardinality(Blocking) ELSE spells
      /\ misplanned' = (IF attempts = 0 THEN 0 ELSE misplanned) + one
      /\ UNCHANGED <<now, spentUntil, spends>>
      /\ IF ~WindowsLookLimited(known)
         THEN turn' = "taken for done" /\ attempts' = 0 /\ UNCHANGED retryAt
         ELSE IF attempts + 1 > MAX_ATTEMPTS
         THEN turn' = "given up" /\ attempts' = 0 /\ UNCHANGED retryAt
         ELSE turn' = "parked" /\ attempts' = attempts + 1 /\ retryAt' = plan
    BY DEF Refused
<1>a. wrong => one = 1
    OBVIOUS
<1>b. one \in Nat
    OBVIOUS
<1>c. /\ spells' = IF attempts = 0 THEN Cardinality(Blocking) ELSE spells
      /\ misplanned' = (IF attempts = 0 THEN 0 ELSE misplanned) + one
      /\ turn = "running"
    BY <1>0
<1> DEFINE report == [status |-> "rejected", resetsAt |-> spentUntil[k], full |-> windows[k].full]
<1>1. report \in WindowOf
    BY DEF LimitsTypes, WindowOf
<1>2. told => known = [windows EXCEPT ![k] = report]
    BY <1>0 DEF Reported, ResetOf
<1>3. /\ told => known[k] = report
      /\ known \in [Kinds -> WindowOf]
    BY <1>1, <1>2 DEF LimitsTypes
<1>4. told => WindowsLookLimited(known)
    BY <1>3 DEF WindowsLookLimited, report
<1>5. /\ ~wrong => told /\ \A j \in Kinds : ~StaleRejection(known, j)
      /\ ~wrong => \A j \in Blocking : ~(spentUntil[j] > now + MAX_WAIT)
    BY Zenon DEF Misplanned
<1> HIDE DEF known, report, wrong, one, plan, here
<1>6. plan \in Nat /\ plan >= now
    <2>1. now \in Nat /\ now + 1 \in Nat /\ now + MAX_WAIT \in Nat
        BY LimitsAssumption DEF LimitsTypes
    <2> QED
        BY <1>3, <2>1, PlanIsATime DEF plan
<1>7. Blocking = SpentAt(now) /\ here \in Nat
    <2>1. Blocking = SpentAt(now)
        BY DEF Blocking, Spent, SpentAt
    <2>2. now \in Nat /\ now <= now
        BY DEF LimitsTypes
    <2> QED
        BY <2>1, <2>2, FewerAreSpent DEF here
<1>8. here >= 1
    <2>1. SpentAt(now) \subseteq Kinds /\ k \in SpentAt(now)
        BY <1>0 DEF SpentAt, Spent
    <2>2. IsFiniteSet(SpentAt(now))
        BY <2>1, FS_Subset, LimitsAssumption
    <2>3. here # 0
        BY <2>1, <2>2, FS_EmptySet DEF here
    <2> QED
        BY <1>7, <2>3
<1>9. LimitsTypes'
    <2>1. attempts' \in {0, attempts + 1} /\ retryAt' \in {retryAt, plan}
        BY <1>0
    <2>2. attempts' \in Nat /\ retryAt' \in Nat
        BY <1>6, <2>1 DEF LimitsTypes
    <2>3. spells' \in Nat /\ misplanned' \in Nat
        BY <1>b, <1>c, <1>7 DEF LimitsTypes, here
    <2> QED
        BY <1>0, <1>3, <2>2, <2>3 DEF LimitsTypes
<1>10. attempts + here + one <= spells' + misplanned'
    BY <1>b, <1>c, <1>7 DEF EachAttemptCounts, LimitsTypes, here
<1>11. /\ Cardinality(SpentAt(plan)) \in Nat
       /\ Cardinality(SpentAt(plan)) + 1 <= here + one
    <2>0. now \in Nat
        BY DEF LimitsTypes
    <2>1. Cardinality(SpentAt(plan)) \in Nat /\ Cardinality(SpentAt(plan)) <= here
        BY <1>6, <2>0, FewerAreSpent DEF here
    <2>2. CASE wrong
        BY <1>a, <1>7, <2>1, <2>2
    <2>3. CASE ~wrong
        <3>1. told /\ known[k].status = "rejected" /\ known[k].resetsAt = spentUntil[k]
            BY <1>3, <1>5, <2>3 DEF report
        <3>2. \A j \in Blocking : spentUntil[j] <= now + MAX_WAIT
            BY <1>5, <2>3, LimitsAssumption DEF Blocking, LimitsTypes
        <3>3. \E j \in Kinds : Spent(j) /\ spentUntil[j] <= plan
            BY <1>0, <1>3, <1>5, <2>3, <3>1, <3>2, RetryOutlastsOne DEF plan
        <3>4. \E j \in Kinds : spentUntil[j] > now /\ spentUntil[j] <= plan
            BY <3>3 DEF Spent
        <3>5. Cardinality(SpentAt(plan)) + 1 <= here
            BY <1>6, <2>0, <3>4, FewerAreSpent DEF here
        <3> QED
            BY <1>b, <1>7, <2>1, <3>5
    <2> QED
        BY <2>2, <2>3
<1>d. attempts \in Nat /\ spells' \in Nat /\ misplanned' \in Nat
    BY <1>9 DEF LimitsTypes
<1>e. /\ spells' + misplanned' \in Nat
      /\ attempts + 1 + Cardinality(SpentAt(plan)) <= spells' + misplanned'
    BY <1>b, <1>d, <1>7, <1>10, <1>11, AttemptsAddUp
<1>12. EachAttemptCounts'
    <2>1. SUFFICES ASSUME attempts' > 0 PROVE EachAttemptCounts'
        BY DEF EachAttemptCounts
    <2>a. attempts' # 0
        BY <2>1
    <2>2. turn' = "parked" /\ attempts' = attempts + 1 /\ retryAt' = plan
        BY <1>0, <2>a
    <2>3. SpentAt(retryAt)' = SpentAt(plan)
        BY <1>0, <2>2 DEF SpentAt
    <2>4. attempts' + Cardinality(SpentAt(plan)) <= spells' + misplanned'
        BY <1>e, <2>2
    <2> QED
        BY <2>2, <2>3, <2>4 DEF EachAttemptCounts
<1>13. RefusedTurnComesBack'
    <2>1. turn' = "taken for done" => unreported'
        BY <1>0, <1>4
    <2>2. ASSUME turn' = "given up" PROVE (spells + misplanned > MAX_ATTEMPTS)'
        <3>1. attempts + 1 > MAX_ATTEMPTS
            BY <1>0, <2>2
        <3> DEFINE sum == spells' + misplanned'
        <3>2. MAX_ATTEMPTS \in Nat
            BY LimitsAssumption
        <3>3. sum \in Nat /\ attempts + 1 + Cardinality(SpentAt(plan)) <= sum
            BY <1>e
        <3> HIDE DEF sum
        <3>4. sum > MAX_ATTEMPTS
            BY <1>d, <1>11, <3>1, <3>2, <3>3
        <3> QED
            BY <3>4 DEF sum
    <2> QED
        BY <2>1, <2>2 DEF RefusedTurnComesBack
<1> QED
    BY <1>9, <1>12, <1>13

LEMMA LimitsStep == LimitsInv /\ [LimitsNext]_limitsVars => LimitsInv'
<1> SUFFICES ASSUME LimitsInv, [LimitsNext]_limitsVars PROVE LimitsInv'
    OBVIOUS
<1> USE DEF LimitsInv
<1>1. ASSUME UNCHANGED <<now, spentUntil, turn, retryAt, attempts, unreported, spells, misplanned>>,
             windows' \in [Kinds -> WindowOf]
      PROVE  LimitsInv'
    BY <1>1 DEF LimitsTypes, EachAttemptCounts, SpentAt, RefusedTurnComesBack
<1>2. CASE TimeGoesBy
    <2>1. now' = now + 1 /\ now \in Nat
          /\ UNCHANGED <<spentUntil, windows, turn, retryAt, attempts, unreported, spells, misplanned>>
        BY <1>2 DEF TimeGoesBy, LimitsTypes
    <2>2. /\ Cardinality(SpentAt(now)) \in Nat /\ Cardinality(SpentAt(now + 1)) \in Nat
          /\ Cardinality(SpentAt(now + 1)) <= Cardinality(SpentAt(now))
        BY <2>1, FewerAreSpent
    <2>3. SpentAt(now)' = SpentAt(now + 1) /\ SpentAt(retryAt)' = SpentAt(retryAt)
        BY <2>1 DEF SpentAt
    <2>4. attempts + Cardinality(SpentAt(now)) <= spells + misplanned
              => attempts + Cardinality(SpentAt(now + 1)) <= spells + misplanned
        BY <2>2 DEF LimitsTypes
    <2>5. EachAttemptCounts'
        BY <2>1, <2>3, <2>4 DEF EachAttemptCounts
    <2>6. RefusedTurnComesBack'
        BY <2>1 DEF RefusedTurnComesBack
    <2>7. LimitsTypes'
        BY <2>1 DEF LimitsTypes
    <2> QED
        BY <2>5, <2>6, <2>7
<1>3. ASSUME NEW k \in Kinds, NEW until \in (now + 1)..MaxTime, UseUp(k, until),
             turn \in {"running", "parked"}
      PROVE  LimitsInv'
    <2>1. /\ UNCHANGED <<now, windows, turn, retryAt, attempts, unreported, misplanned>>
          /\ spentUntil' = [spentUntil EXCEPT ![k] = until]
          /\ spells' = IF attempts > 0 THEN spells + 1 ELSE spells
        BY <1>3 DEF UseUp
    <2>2. until \in Nat
        BY LimitsAssumption DEF LimitsTypes
    <2>3. LimitsTypes'
        BY <2>1, <2>2 DEF LimitsTypes
    <2>4. ASSUME NEW t \in Nat, attempts > 0, attempts + Cardinality(SpentAt(t)) <= spells + misplanned
          PROVE  attempts' + Cardinality(SpentAt(t))' <= spells' + misplanned'
        <3>1. /\ Cardinality(SpentAt(t))' \in Nat
              /\ Cardinality(SpentAt(t))' <= Cardinality(SpentAt(t)) + 1
            BY <2>1, <2>2, OneMoreIsSpent
        <3>2. Cardinality(SpentAt(t)) \in Nat
            BY FewerAreSpent
        <3> QED
            BY <2>1, <2>4, <3>1, <3>2 DEF LimitsTypes
    <2>5. /\ now \in Nat /\ retryAt \in Nat
          /\ SpentAt(now)' = {j \in Kinds : spentUntil'[j] > now}
          /\ SpentAt(retryAt)' = {j \in Kinds : spentUntil'[j] > retryAt}
        BY <2>1 DEF SpentAt, LimitsTypes
    <2>6. EachAttemptCounts'
        <3>1. ASSUME attempts' > 0, turn' = "running"
              PROVE  (attempts + Cardinality(SpentAt(now)) <= spells + misplanned)'
            BY <2>1, <2>4, <2>5, <3>1 DEF EachAttemptCounts, SpentAt
        <3>2. ASSUME attempts' > 0, turn' = "parked"
              PROVE  (attempts + Cardinality(SpentAt(retryAt)) <= spells + misplanned)'
            BY <2>1, <2>4, <2>5, <3>2 DEF EachAttemptCounts, SpentAt
        <3> QED
            BY <3>1, <3>2 DEF EachAttemptCounts
    <2>7. RefusedTurnComesBack'
        BY <1>3, <2>1 DEF RefusedTurnComesBack
    <2> QED
        BY <2>3, <2>6, <2>7
<1>4. ASSUME NEW k \in Kinds, Report(k) PROVE LimitsInv'
    <2>1. ResetOf(k) \in Nat
        BY DEF ResetOf, LimitsTypes
    <2>2. Reported(k) \in [Kinds -> WindowOf]
        <3> DEFINE report == [status |-> IF Spent(k) THEN "rejected" ELSE "allowed",
                              resetsAt |-> ResetOf(k), full |-> windows[k].full]
        <3>1. report \in WindowOf
            BY <2>1 DEF LimitsTypes, WindowOf
        <3>2. Reported(k) = [windows EXCEPT ![k] = report]
            BY DEF Reported
        <3> QED
            BY <3>1, <3>2 DEF LimitsTypes
    <2> QED
        BY <1>1, <1>4, <2>2 DEF Report
<1>5. CASE PollUsage
    <2>1. ASSUME NEW k \in Kinds
          PROVE  [status |-> IF windows[k] = Unknown THEN "allowed" ELSE windows[k].status,
                  resetsAt |-> ResetOf(k), full |-> Spent(k)] \in WindowOf
        <3>1. ResetOf(k) \in Nat
            BY DEF ResetOf, LimitsTypes
        <3>2. windows[k].status \in {"unknown", "rejected", "allowed"}
            BY DEF LimitsTypes, WindowOf
        <3>3. Spent(k) \in BOOLEAN
            BY DEF Spent
        <3> QED
            BY <3>1, <3>2, <3>3 DEF WindowOf
    <2>2. Polled \in [Kinds -> WindowOf]
        BY <2>1 DEF Polled
    <2> QED
        BY <1>1, <1>5, <2>2 DEF PollUsage
<1>6. CASE TurnAnswered
    BY <1>6 DEF TurnAnswered, LimitsTypes, EachAttemptCounts, RefusedTurnComesBack
<1>7. CASE RetryRuns
    <2>1. /\ turn = "parked" /\ retryAt <= now /\ turn' = "running"
          /\ UNCHANGED <<now, spentUntil, windows, retryAt, attempts, unreported, spells, misplanned>>
        BY <1>7 DEF RetryRuns, LimitsTypes
    <2>2. /\ Cardinality(SpentAt(retryAt)) \in Nat /\ Cardinality(SpentAt(now)) \in Nat
          /\ Cardinality(SpentAt(now)) <= Cardinality(SpentAt(retryAt))
        BY <2>1, FewerAreSpent DEF LimitsTypes
    <2>3. SpentAt(now)' = SpentAt(now)
        BY <2>1 DEF SpentAt
    <2> QED
        BY <2>1, <2>2, <2>3 DEF LimitsTypes, EachAttemptCounts, RefusedTurnComesBack
<1>8. CASE UNCHANGED limitsVars
    BY <1>1, <1>8 DEF limitsVars, LimitsTypes
<1> QED
    BY <1>2, <1>3, <1>4, <1>5, <1>6, <1>7, <1>8, RefusedStep DEF LimitsNext

(* The attempts that planRetry spends are spent well, however many windows *)
(* and attempts there are: a turn is given up only after more spells of a  *)
(* spent window than there are attempts, each refusal whose retry was not  *)
(* planned well standing for one, and taken for an answer only if          *)
(* unreported.                                                             *)
THEOREM RefusedTurnsComeBack == LimitsSpec => []RefusedTurnComesBack
<1>1. LimitsInit => LimitsInv
    <2> SUFFICES ASSUME LimitsInit PROVE LimitsInv
        OBVIOUS
    <2>1. Unknown \in WindowOf
        BY DEF Unknown, WindowOf
    <2> QED
        BY <2>1 DEF LimitsInit, LimitsInv, LimitsTypes, EachAttemptCounts, RefusedTurnComesBack
<1>2. LimitsInv => RefusedTurnComesBack
    BY DEF LimitsInv
<1> QED
    BY <1>1, <1>2, LimitsStep, PTL DEF LimitsSpec

-----------------------------------------------------------------------------
(* Composer                                                                *)

ComposerTypes ==
    /\ posted \in [Files -> Nat] /\ received \in [Files -> Nat] /\ recorded \in [Files -> Nat]
    /\ \A f \in Files : received[f] <= posted[f] /\ posted[f] <= ChunksOf[f]
    /\ pendingAttachments \in Seq(Files)
    /\ \A s \in flights : s.files \in Seq(Files)
    /\ attached \subseteq Files

(* A file that was not attached yet is nowhere. *)
NotYet ==
    \A f \in Files \ attached :
        /\ f \notin ToSet(pendingAttachments) /\ Underway(f) = {}
        /\ f \notin removed /\ recorded[f] = 0

(* Where a file is that no race has caught: in the list, and then in every *)
(* message on its way, of which there is one at most; or recorded once; or *)
(* taken off.                                                              *)
WhereItIs(f) ==
    /\ recorded[f] <= 1
    /\ \A s, t \in Underway(f) : s = t
    /\ recorded[f] = 1 => Underway(f) = {}
    /\ f \in ToSet(pendingAttachments) => recorded[f] = 0 /\ Underway(f) = flights
    /\ f \notin removed /\ f \notin ToSet(pendingAttachments) => recorded[f] = 1

ComposerInv ==
    /\ ComposerTypes
    /\ NotYet
    /\ \A f \in attached : received[f] = ChunksOf[f]
    /\ \A f \in attached \ caught : WhereItIs(f)

LEMMA AppendedSet ==
    ASSUME NEW list \in Seq(Files), NEW f \in Files
    PROVE  Append(list, f) \in Seq(Files) /\ ToSet(Append(list, f)) = ToSet(list) \cup {f}
<1>1. /\ Append(list, f) \in Seq(Files) /\ Len(Append(list, f)) = Len(list) + 1
      /\ Append(list, f)[Len(list) + 1] = f
      /\ \A i \in 1..Len(list) : Append(list, f)[i] = list[i]
    OBVIOUS
<1>2. DOMAIN Append(list, f) = 1..(Len(list) + 1) /\ DOMAIN list = 1..Len(list) /\ Len(list) \in Nat
    BY <1>1
<1>3. \A i \in 1..(Len(list) + 1) : i \in 1..Len(list) \/ i = Len(list) + 1
    BY <1>2
<1>4. \A i \in 1..Len(list) : i \in 1..(Len(list) + 1)
    BY <1>2
<1>5. Len(list) + 1 \in 1..(Len(list) + 1)
    BY <1>2
<1> QED
    BY <1>1, <1>2, <1>3, <1>4, <1>5 DEF ToSet

(* What is taken off is one entry, and every other file stays. *)
LEMMA RemovedSet ==
    ASSUME NEW list \in Seq(Files), NEW i \in DOMAIN list
    PROVE  /\ RemoveAt(list, i) \in Seq(Files)
           /\ ToSet(RemoveAt(list, i)) \subseteq ToSet(list)
           /\ \A f \in ToSet(list) : f # list[i] => f \in ToSet(RemoveAt(list, i))
<1> DEFINE n == Len(list)  new == RemoveAt(list, i)
<1>1. n \in Nat /\ i \in 1..n /\ DOMAIN list = 1..n /\ \A j \in 1..n : list[j] \in Files
    OBVIOUS
<1>2. /\ SubSeq(list, 1, i - 1) \in Seq(Files) /\ Len(SubSeq(list, 1, i - 1)) = i - 1
      /\ \A j \in 1..(i - 1) : SubSeq(list, 1, i - 1)[j] = list[j]
    BY <1>1
<1>3. /\ SubSeq(list, i + 1, n) \in Seq(Files) /\ Len(SubSeq(list, i + 1, n)) = n - i
      /\ \A j \in 1..(n - i) : SubSeq(list, i + 1, n)[j] = list[i + j]
    <2>1. i + 1 \in 1..(n + 1) /\ n \in 0..n
        BY <1>1
    <2> QED
        BY <1>1, <2>1, SubSeqProperties
<1> DEFINE a == SubSeq(list, 1, i - 1)  b == SubSeq(list, i + 1, n)
<1>4. /\ new \in Seq(Files) /\ Len(new) = n - 1
      /\ \A j \in 1..(n - 1) : new[j] = IF j <= i - 1 THEN list[j] ELSE list[j + 1]
    <2>1. new = a \o b
        BY DEF RemoveAt
    <2> HIDE DEF a, b, new, n
    <2>2. /\ a \in Seq(Files) /\ Len(a) = i - 1 /\ \A j \in 1..(i - 1) : a[j] = list[j]
          /\ b \in Seq(Files) /\ Len(b) = n - i /\ \A j \in 1..(n - i) : b[j] = list[i + j]
        BY <1>2, <1>3 DEF a, b
    <2>3. /\ new \in Seq(Files) /\ Len(new) = Len(a) + Len(b)
          /\ \A j \in 1..Len(a) + Len(b) : new[j] = IF j <= Len(a) THEN a[j] ELSE b[j - Len(a)]
        BY <2>1, <2>2, ConcatProperties
    <2>4. Len(a) + Len(b) = n - 1
        BY <1>1, <2>2
    <2>5. ASSUME NEW j \in 1..(n - 1) PROVE new[j] = IF j <= i - 1 THEN list[j] ELSE list[j + 1]
        <3>1. new[j] = IF j <= i - 1 THEN a[j] ELSE b[j - (i - 1)]
            BY <2>2, <2>3, <2>4
        <3>2. CASE j <= i - 1
            BY <1>1, <2>2, <3>1, <3>2
        <3>3. CASE ~(j <= i - 1)
            <4>1. j - (i - 1) \in 1..(n - i) /\ i + (j - (i - 1)) = j + 1
                BY <1>1, <3>3
            <4> QED
                BY <2>2, <3>1, <3>3, <4>1
        <3> QED
            BY <3>2, <3>3
    <2> QED
        BY <2>3, <2>4, <2>5
<1> HIDE DEF new, n
<1>5. DOMAIN new = 1..(n - 1)
    BY <1>4
<1>6. ASSUME NEW j \in 1..(n - 1) PROVE new[j] \in ToSet(list)
    <2>1. j \in 1..n /\ j + 1 \in 1..n
        BY <1>1
    <2> QED
        BY <1>1, <1>4, <2>1 DEF ToSet
<1>7. ASSUME NEW f \in ToSet(list), f # list[i] PROVE f \in ToSet(new)
    <2>1. PICK j \in 1..n : f = list[j] /\ j # i
        BY <1>1, <1>7 DEF ToSet
    <2>2. CASE j < i
        <3>1. j \in 1..(n - 1) /\ j <= i - 1
            BY <1>1, <2>2
        <3> QED
            BY <1>4, <1>5, <2>1, <3>1 DEF ToSet
    <2>3. CASE j > i
        <3>1. j - 1 \in 1..(n - 1) /\ ~(j - 1 <= i - 1) /\ (j - 1) + 1 = j
            BY <1>1, <2>3
        <3>2. new[j - 1] = list[j]
            BY <1>4, <3>1
        <3> QED
            BY <1>5, <2>1, <3>1, <3>2 DEF ToSet
    <2> QED
        BY <1>1, <2>1, <2>2, <2>3
<1>8. ToSet(new) \subseteq ToSet(list)
    BY <1>5, <1>6 DEF ToSet
<1> QED
    BY <1>4, <1>7, <1>8 DEF new

(* A file joins the list, with every chunk of it received. *)
LEMMA JoinStep ==
    ASSUME ComposerInv, NEW f \in Files \ attached, JoinList(f),
           UNCHANGED <<flights, recorded, removed>>,
           posted' \in [Files -> Nat], received' \in [Files -> Nat],
           \A g \in Files : received'[g] <= posted'[g] /\ posted'[g] <= ChunksOf[g],
           \A g \in attached \cup {f} : received'[g] = ChunksOf[g]
    PROVE  ComposerInv'
<1> USE DEF ComposerInv
<1>1. /\ attached' = attached \cup {f} /\ pendingAttachments' = Append(pendingAttachments, f)
      /\ caught' = IF flights = {} THEN caught ELSE caught \cup {f}
    BY DEF JoinList
<1>2. pendingAttachments' \in Seq(Files) /\ ToSet(pendingAttachments)' = ToSet(pendingAttachments) \cup {f}
    BY <1>1, AppendedSet DEF ComposerTypes
<1>3. ComposerTypes'
    BY <1>1, <1>2 DEF ComposerTypes
<1>4. \A g \in Files : Underway(g)' = Underway(g)
    BY DEF Underway
<1>5. NotYet'
    BY <1>1, <1>2, <1>4 DEF NotYet
<1>6. ASSUME NEW g \in attached' \ caught' PROVE WhereItIs(g)'
    <2>1. CASE g = f
        <3>1. flights = {} /\ recorded[f] = 0 /\ Underway(f) = {}
            BY <1>1, <1>6, <2>1 DEF NotYet
        <3> QED
            BY <1>2, <1>4, <2>1, <3>1 DEF WhereItIs
    <2>2. CASE g # f
        <3>1. g \in attached \ caught /\ g \in Files
            BY <1>1, <1>6, <2>2 DEF ComposerTypes
        <3> QED
            BY <1>2, <1>4, <2>2, <3>1 DEF WhereItIs
    <2> QED
        BY <2>1, <2>2
<1> QED
    BY <1>1, <1>3, <1>5, <1>6

(* The chunks of the browser, and a file of the server. *)
LEMMA UploadStep ==
    ASSUME ComposerInv, NEW f \in Files, PostChunk(f) \/ UploadChunk(f) \/ PickAttachment(f)
    PROVE  ComposerInv'
<1> USE ComposerAssumption DEF ComposerInv
<1>0. ChunksOf[f] \in Nat /\ posted[f] \in Nat /\ received[f] \in Nat
      /\ received[f] <= posted[f] /\ posted[f] <= ChunksOf[f]
    BY DEF ComposerTypes
<1>1. CASE PostChunk(f)
    <2>1. /\ posted[f] < ChunksOf[f] /\ posted' = [posted EXCEPT ![f] = posted[f] + 1]
          /\ UNCHANGED <<received, attached, pendingAttachments, flights, recorded, removed, caught>>
        BY <1>1 DEF PostChunk
    <2>2. ComposerTypes'
        BY <1>0, <2>1 DEF ComposerTypes
    <2> QED
        BY <2>1, <2>2 DEF NotYet, WhereItIs, Underway
<1>2. CASE UploadChunk(f)
    <2>1. /\ received[f] < posted[f] /\ received' = [received EXCEPT ![f] = received[f] + 1]
          /\ UNCHANGED <<posted, flights, recorded, removed>>
        BY <1>2 DEF UploadChunk
    <2>2. received'[f] = received[f] + 1 /\ f \notin attached
        BY <1>0, <2>1 DEF ComposerTypes
    <2>3. /\ received' \in [Files -> Nat]
          /\ \A g \in Files : received'[g] <= posted'[g] /\ posted'[g] <= ChunksOf[g]
        BY <1>0, <2>1 DEF ComposerTypes
    <2>4. \A g \in attached : received'[g] = ChunksOf[g]
        BY <2>1, <2>2 DEF ComposerTypes
    <2>5. CASE received'[f] < ChunksOf[f]
        <3>1. UNCHANGED <<attached, pendingAttachments, caught, flights, recorded, removed, posted>>
            BY <1>2, <2>1, <2>5 DEF UploadChunk
        <3>2. ComposerTypes'
            BY <2>3, <3>1 DEF ComposerTypes
        <3> QED
            BY <2>4, <3>1, <3>2 DEF NotYet, WhereItIs, Underway
    <2>6. CASE ~(received'[f] < ChunksOf[f])
        <3>1. JoinList(f)
            BY <1>2, <2>6 DEF UploadChunk
        <3>2. received'[f] = ChunksOf[f]
            BY <1>0, <2>1, <2>2, <2>6
        <3>3. posted' \in [Files -> Nat]
            BY <2>1 DEF ComposerTypes
        <3> QED
            BY <2>1, <2>2, <2>3, <2>4, <3>1, <3>2, <3>3, JoinStep
    <2> QED
        BY <2>5, <2>6
<1>3. CASE PickAttachment(f)
    <2>1. /\ ChunksOf[f] = 0 /\ f \notin attached /\ JoinList(f)
          /\ UNCHANGED <<posted, received, flights, recorded, removed>>
        BY <1>3 DEF PickAttachment, uploadVars
    <2>2. received[f] = 0
        BY <1>0, <2>1
    <2>3. /\ posted' \in [Files -> Nat] /\ received' \in [Files -> Nat]
          /\ \A g \in Files : received'[g] <= posted'[g] /\ posted'[g] <= ChunksOf[g]
        BY <2>1 DEF ComposerTypes
    <2>4. \A g \in attached \cup {f} : received'[g] = ChunksOf[g]
        BY <2>1, <2>2
    <2> QED
        BY <2>1, <2>3, <2>4, JoinStep
<1> QED
    BY <1>1, <1>2, <1>3

(* Whatever is in the place of the chip goes; the other files stay.        *)
LEMMA HandleRemoveStep == ASSUME ComposerInv, HandleRemove PROVE ComposerInv'
<1> USE DEF ComposerInv
<1> DEFINE msg == Head(inbox)
<1>1. UNCHANGED <<posted, received, attached, flights, recorded>>
    BY DEF HandleRemove, uploadVars
<1>2. CASE msg.index \notin DOMAIN pendingAttachments
    <2>1. UNCHANGED <<pendingAttachments, removed, caught>>
        BY <1>2 DEF HandleRemove
    <2> QED
        BY <1>1, <2>1 DEF ComposerTypes, NotYet, WhereItIs, Underway
<1>3. CASE msg.index \in DOMAIN pendingAttachments
    <2> DEFINE gone == pendingAttachments[msg.index]
    <2>1. /\ pendingAttachments' = RemoveAt(pendingAttachments, msg.index)
          /\ removed' = removed \cup {gone}
          /\ caught' = IF gone = msg.meant THEN caught ELSE caught \cup {gone}
        BY <1>3 DEF HandleRemove
    <2>2. /\ pendingAttachments' \in Seq(Files)
          /\ ToSet(pendingAttachments)' \subseteq ToSet(pendingAttachments)
          /\ \A f \in ToSet(pendingAttachments) : f # gone => f \in ToSet(pendingAttachments)'
        BY <1>3, <2>1, RemovedSet DEF ComposerTypes
    <2>3. gone \in ToSet(pendingAttachments) /\ gone \in Files
        BY <1>3 DEF ToSet, ComposerTypes
    <2>4. gone \in attached
        BY <2>3 DEF NotYet
    <2> HIDE DEF gone
    <2>5. ComposerTypes'
        BY <1>1, <2>2 DEF ComposerTypes
    <2>6. \A f \in Files : Underway(f)' = Underway(f)
        BY <1>1 DEF Underway
    <2>7. NotYet'
        BY <1>1, <2>1, <2>2, <2>4, <2>6 DEF NotYet
    <2>8. ASSUME NEW f \in attached' \ caught' PROVE WhereItIs(f)'
        <3>1. f \in attached \ caught /\ f \in Files
            BY <1>1, <2>1, <2>8 DEF ComposerTypes
        <3> QED
            BY <1>1, <2>1, <2>2, <2>6, <3>1 DEF WhereItIs
    <2> QED
        BY <1>1, <2>5, <2>7, <2>8
<1> QED
    BY <1>2, <1>3

(* A file in the list that no race caught was on its way in no message.    *)
LEMMA HandleSendStep == ASSUME ComposerInv, HandleSend PROVE ComposerInv'
<1> USE DEF ComposerInv
<1> DEFINE new == [n |-> Head(inbox).n, files |-> pendingAttachments]
<1>1. /\ flights' = flights \cup {new}
      /\ caught' = caught \cup {f \in ToSet(pendingAttachments) : Underway(f) # {}}
      /\ UNCHANGED <<posted, received, attached, pendingAttachments, recorded, removed>>
    BY DEF HandleSend, uploadVars
<1>2. new.files = pendingAttachments
    OBVIOUS
<1> HIDE DEF new
<1>3. ComposerTypes'
    BY <1>1, <1>2 DEF ComposerTypes
<1>4. \A f : Underway(f)' = IF f \in ToSet(pendingAttachments) THEN Underway(f) \cup {new} ELSE Underway(f)
    BY <1>1, <1>2 DEF Underway
<1>5. NotYet'
    BY <1>1, <1>4 DEF NotYet
<1>6. ASSUME NEW f \in attached' \ caught' PROVE WhereItIs(f)'
    <2>1. f \in attached \ caught
        BY <1>1, <1>6
    <2>2. CASE f \in ToSet(pendingAttachments)
        <3>1. Underway(f) = {}
            BY <1>1, <1>6, <2>2
        <3>2. flights = {} /\ recorded[f] = 0
            BY <2>1, <2>2, <3>1 DEF WhereItIs
        <3>3. Underway(f)' = {new} /\ flights' = {new}
            BY <1>1, <1>4, <2>2, <3>1, <3>2
        <3> QED
            BY <1>1, <2>2, <3>2, <3>3 DEF WhereItIs
    <2>3. CASE f \notin ToSet(pendingAttachments)
        BY <1>1, <1>4, <2>1, <2>3 DEF WhereItIs
    <2> QED
        BY <2>2, <2>3
<1> QED
    BY <1>1, <1>3, <1>5, <1>6

LEMMA EmptyList == <<>> \in Seq(Files) /\ ToSet(<<>>) = {}
BY DEF ToSet

(* The answer records the files of the message and empties the list. *)
LEMMA SendAnsweredStep == ASSUME ComposerInv, NEW s \in flights, SendAnswered(s) PROVE ComposerInv'
<1> USE DEF ComposerInv
<1>1. /\ flights' = flights \ {s} /\ pendingAttachments' = <<>>
      /\ recorded' = [f \in Files |-> recorded[f] + (IF f \in ToSet(s.files) THEN 1 ELSE 0)]
      /\ UNCHANGED <<posted, received, attached, removed, caught>>
    BY DEF SendAnswered, RecordFiles, uploadVars
<1>2. \A f \in Files : recorded'[f] = IF f \in ToSet(s.files) THEN recorded[f] + 1 ELSE recorded[f]
    BY <1>1 DEF ComposerTypes
<1>3. recorded' \in [Files -> Nat]
    BY <1>1 DEF ComposerTypes
<1>4. ComposerTypes'
    BY <1>1, <1>3, EmptyList DEF ComposerTypes
<1>5. \A f : Underway(f)' = Underway(f) \ {s} /\ (f \in ToSet(s.files) <=> s \in Underway(f))
    BY <1>1 DEF Underway
<1>6. ToSet(pendingAttachments)' = {}
    BY <1>1, EmptyList
<1>7. NotYet'
    BY <1>1, <1>2, <1>5, <1>6 DEF NotYet
<1>8. ASSUME NEW f \in attached' \ caught' PROVE WhereItIs(f)'
    <2>1. f \in attached \ caught /\ f \in Files /\ WhereItIs(f) /\ recorded[f] \in Nat
        BY <1>1, <1>8 DEF ComposerTypes
    <2>2. CASE f \in ToSet(s.files)
        <3>1. Underway(f) = {s} /\ recorded[f] = 0
            BY <1>5, <2>1, <2>2 DEF WhereItIs
        <3>2. recorded'[f] = 1 /\ Underway(f)' = {}
            BY <1>2, <1>5, <2>1, <2>2, <3>1
        <3> QED
            BY <1>6, <3>2 DEF WhereItIs
    <2>3. CASE f \notin ToSet(s.files)
        <3>1. f \notin ToSet(pendingAttachments)
            BY <1>5, <2>1, <2>3 DEF WhereItIs
        <3>2. recorded'[f] = recorded[f] /\ Underway(f)' = Underway(f)
            BY <1>2, <1>5, <2>1, <2>3
        <3> QED
            BY <1>1, <1>6, <2>1, <3>1, <3>2 DEF WhereItIs
    <2> QED
        BY <2>2, <2>3
<1> QED
    BY <1>1, <1>4, <1>7, <1>8

(* A message that failed leaves the list alone.                            *)
LEMMA SendRejectedStep ==
    ASSUME ComposerInv, NEW s \in flights, NEW arrived \in BOOLEAN, SendRejected(s, arrived)
    PROVE  ComposerInv'
<1> USE DEF ComposerInv
<1>1. /\ flights' = flights \ {s}
      /\ UNCHANGED <<posted, received, attached, pendingAttachments, removed>>
    BY DEF SendRejected, uploadVars
<1>2. \/ UNCHANGED <<recorded, caught>>
      \/ /\ caught' = caught \cup ToSet(s.files)
         /\ recorded' = [f \in Files |-> recorded[f] + (IF f \in ToSet(s.files) THEN 1 ELSE 0)]
    BY DEF SendRejected, RecordFiles
<1>3. recorded' \in [Files -> Nat]
    <2>1. \A f \in Files : recorded[f] + (IF f \in ToSet(s.files) THEN 1 ELSE 0) \in Nat
        BY DEF ComposerTypes
    <2> QED
        BY <1>2, <2>1 DEF ComposerTypes
<1>4. ComposerTypes'
    BY <1>1, <1>3 DEF ComposerTypes
<1>5. \A f : Underway(f)' = Underway(f) \ {s} /\ (f \in ToSet(s.files) <=> s \in Underway(f))
    BY <1>1 DEF Underway
<1>6. \A f \in Files : f \notin ToSet(s.files) \/ f \notin caught' => recorded'[f] = recorded[f]
    BY <1>2 DEF ComposerTypes
<1>7. NotYet'
    BY <1>1, <1>5, <1>6 DEF NotYet
<1>8. ASSUME NEW f \in attached' \ caught' PROVE WhereItIs(f)'
    <2>1. f \in attached \ caught /\ f \in Files /\ WhereItIs(f)
        BY <1>1, <1>2, <1>8 DEF ComposerTypes
    <2>2. recorded'[f] = recorded[f]
        BY <1>6, <1>8, <2>1
    <2> QED
        BY <1>1, <1>5, <2>1, <2>2 DEF WhereItIs
<1> QED
    BY <1>1, <1>4, <1>7, <1>8

LEMMA ComposerStep == ComposerInv /\ [ComposerNext]_composerVars => ComposerInv'
<1> SUFFICES ASSUME ComposerInv, [ComposerNext]_composerVars PROVE ComposerInv'
    OBVIOUS
<1>1. CASE UNCHANGED <<posted, received, attached, pendingAttachments, flights, recorded,
                       removed, caught>>
    BY <1>1 DEF ComposerInv, ComposerTypes, NotYet, WhereItIs, Underway
<1>2. CASE \/ RenderChips \/ PressSend \/ SendUnreachable \/ UNCHANGED composerVars
           \/ \E i \in DOMAIN chips : ClickRemove(i)
    BY <1>1, <1>2 DEF RenderChips, PressSend, SendUnreachable, ClickRemove, composerVars, uploadVars
<1> QED
    BY <1>2, UploadStep, HandleRemoveStep, HandleSendStep, SendAnsweredStep, SendRejectedStep
       DEF ComposerNext

(* What the user attached goes in exactly one recorded message unless they *)
(* took it off, for any number of files, chunks and clicks and any order   *)
(* of answers, failures and clicks; the exceptions are the races that      *)
(* `caught` names.                                                         *)
THEOREM AttachmentsGoOnce == ComposerSpec => []AttachmentGoesOnce
<1>1. ComposerInit => ComposerInv
    <2> SUFFICES ASSUME ComposerInit PROVE ComposerInv
        OBVIOUS
    <2>1. ComposerTypes
        BY EmptyList, ComposerAssumption DEF ComposerInit, ComposerTypes
    <2>2. NotYet
        BY EmptyList DEF ComposerInit, NotYet, Underway
    <2> QED
        BY <2>1, <2>2 DEF ComposerInit, ComposerInv
<1>2. ComposerInv => AttachmentGoesOnce
    <2> SUFFICES ASSUME ComposerInv, NEW f \in attached \ caught
                 PROVE  /\ received[f] = ChunksOf[f] /\ recorded[f] <= 1
                        /\ f \notin removed => (recorded[f] = 1) = (f \notin ToSet(pendingAttachments))
        BY DEF AttachmentGoesOnce
    <2>1. WhereItIs(f) /\ received[f] = ChunksOf[f]
        BY DEF ComposerInv
    <2>2. f \in ToSet(pendingAttachments) => recorded[f] # 1
        BY <2>1 DEF WhereItIs
    <2> QED
        BY <2>1, <2>2 DEF WhereItIs
<1> QED
    BY <1>1, <1>2, ComposerStep, PTL DEF ComposerSpec

-----------------------------------------------------------------------------
(* Preview: the working row                                                *)

(* The row's promise needs only that the pieces streamed are a number.     *)
RowInv == streamed \in Nat /\ WorkingRowIsTrue

LEMMA RowStep == RowInv /\ [PreviewNext]_previewVars => RowInv'
<1> SUFFICES ASSUME RowInv, [PreviewNext]_previewVars PROVE RowInv'
    OBVIOUS
<1> USE DEF RowInv, WorkingRowIsTrue, SetRunning, DropPreviews, EndStreaming
<1>1. CASE UNCHANGED previewVars
    BY <1>1 DEF previewVars, turnVars, threadVars
<1>2. CASE ClickSend
    BY <1>2 DEF ClickSend, turnVars, threadVars
<1>3. CASE SendArrives
    BY <1>3 DEF SendArrives
<1>4. CASE SendLost
    BY <1>4 DEF SendLost, turnVars, threadVars
<1>5. CASE Delta
    BY <1>5 DEF Delta
<1>6. CASE AssistantText
    BY <1>6 DEF AssistantText
<1>7. CASE SubagentText
    BY <1>7 DEF SubagentText, turnVars
<1>8. CASE Splits
    BY <1>8 DEF Splits, turnVars
<1>9. CASE TurnEnds
    BY <1>9 DEF TurnEnds, SettlePreviews
<1>10. CASE GoesUnreported
    BY <1>10 DEF GoesUnreported, threadVars
<1>11. CASE Reattach
    BY <1>11 DEF Reattach, turnVars, RowAfterReplay
<1> QED
    BY <1>1, <1>2, <1>3, <1>4, <1>5, <1>6, <1>7, <1>8, <1>9, <1>10, <1>11 DEF PreviewNext

(* The working row of chat.js is up in every turn, and otherwise only      *)
(* while a message is being sent, text streams, or a turn went away        *)
(* unreported (the second half of PanelShowsTheTurn).                      *)
THEOREM WorkingRowTellsTheTruth == PreviewSpec => []WorkingRowIsTrue
<1>1. PreviewInit => RowInv
    BY DEF PreviewInit, RowInv, WorkingRowIsTrue
<1>2. RowInv => WorkingRowIsTrue
    BY DEF RowInv
<1> QED
    BY <1>1, <1>2, RowStep, PTL DEF PreviewSpec

-----------------------------------------------------------------------------
(* Preview: the text                                                       *)

Shown == FlattenSeq(previewEls)
PieceType == Nat \X Nat

PreviewTypes ==
    /\ block \in Blocks /\ streamed \in Nat /\ heardFrom \in 0..streamed
    /\ finished \subseteq Blocks
    /\ previewEls \in Seq(Seq(PieceType))
    /\ streamingEl => previewEls # <<>>
    /\ settled \in [Blocks -> Seq(PieceType)] /\ cutText \in [Blocks -> Seq(PieceType)]

(* Nothing on the screen belongs to a block that was finished, and only    *)
(* previews are of the block being written.                                *)
NothingOfFinished ==
    /\ \A b \in finished : b < block
    /\ \A c \in Blocks : \A k \in 1..Len(settled[c]) :
         settled[c][k][1] < block /\ settled[c][k][1] \notin finished
    /\ \A k \in 1..Len(Shown) :
         /\ Shown[k][1] <= block /\ Shown[k][1] \notin finished
         /\ Shown[k][1] = block => streamed > 0

(* What was heard is shown, and blocks to come have nothing settled.       *)
HeardIsShown ==
    /\ \A b \in Blocks : texts[b] = IF b \in finished THEN 1 ELSE 0
    /\ \A b \in Blocks \ torn : settled[b] = cutText[b]
    /\ \A b \in Blocks \ torn : b >= block => settled[b] = <<>>
    /\ block \notin torn => Shown = Pieces(block, heardFrom, streamed)

TextInv == PreviewTypes /\ texts \in [Blocks -> Nat] /\ NothingOfFinished /\ HeardIsShown

LEMMA BlocksAreNumbers == MaxBlocks \in Nat /\ \A b \in Blocks : b \in Nat
BY PreviewAssumption DEF Blocks

LEMMA PiecesFacts ==
    ASSUME NEW b \in Nat, NEW from \in Nat, NEW to \in Nat, from <= to
    PROVE  /\ Pieces(b, from, to) \in Seq(PieceType)
           /\ Pieces(b, from, to + 1) = Append(Pieces(b, from, to), <<b, to + 1>>)
           /\ Pieces(b, from, from) = <<>>
<1>1. \A n \in Nat : [i \in 1..n |-> <<b, from + i>>] \in Seq(PieceType)
                     /\ Len([i \in 1..n |-> <<b, from + i>>]) = n
    BY DEF PieceType
<1>2. to - from \in Nat /\ (to + 1) - from = (to - from) + 1 /\ from - from = 0
    OBVIOUS
<1> DEFINE n == to - from
           s == [i \in 1..n |-> <<b, from + i>>]
           t == [i \in 1..(n + 1) |-> <<b, from + i>>]
           x == <<b, to + 1>>
<1>3. s \in Seq(PieceType) /\ Len(s) = n /\ t \in Seq(PieceType) /\ Len(t) = n + 1
    BY <1>1, <1>2
<1>4. x \in PieceType
    BY DEF PieceType
<1>5. /\ Append(s, x) \in Seq(PieceType) /\ Len(Append(s, x)) = n + 1
      /\ \A i \in 1..n : Append(s, x)[i] = s[i]
      /\ Append(s, x)[n + 1] = x
    <2> HIDE DEF s, x, n
    <2> QED
        BY <1>3, <1>4, AppendProperties
<1>6. \A i \in 1..(n + 1) : t[i] = Append(s, x)[i]
    <2> TAKE i \in 1..(n + 1)
    <2>1. CASE i = n + 1
        <3>1. from + i = to + 1
            BY <1>2, <2>1
        <3> QED
            BY <1>5, <2>1, <3>1
    <2>2. CASE i # n + 1
        <3>1. i \in 1..n
            BY <1>2, <2>2
        <3> QED
            BY <1>5, <3>1
    <2> QED
        BY <2>1, <2>2
<1>7. t = Append(s, x)
    <2> HIDE DEF s, t, x, n
    <2> QED
        BY <1>3, <1>5, <1>6, SeqEqual
<1>8. Pieces(b, from, to) = s /\ Pieces(b, from, to + 1) = t
    BY <1>2 DEF Pieces
<1>9. Pieces(b, from, from) = <<>>
    <2>1. Pieces(b, from, from) = [i \in 1..0 |-> <<b, from + i>>]
        BY <1>2 DEF Pieces
    <2> QED
        BY <2>1
<1> QED
    BY <1>3, <1>7, <1>8, <1>9

(* Dropped previews show nothing; a piece more shows one more at the end,  *)
(* whether the last preview still grows or another begins.                 *)
LEMMA DroppedShowNothing ==
    ASSUME previewEls' = <<>>
    PROVE  Shown' = <<>> /\ previewEls' \in Seq(Seq(PieceType))
BY FlattenEmpty, EmptySeq DEF Shown

LEMMA DeltaShowsOneMore ==
    ASSUME PreviewTypes, Delta
    PROVE  /\ Shown' = Append(Shown, <<block, streamed + 1>>) /\ Shown \in Seq(PieceType)
           /\ <<block, streamed + 1>> \in PieceType
           /\ previewEls' \in Seq(Seq(PieceType)) /\ previewEls' # <<>>
<1> DEFINE x == <<block, streamed + 1>>
<1>1. x \in PieceType
    BY BlocksAreNumbers DEF PreviewTypes, PieceType
<1>2. previewEls \in Seq(Seq(PieceType)) /\ (streamingEl => previewEls # <<>>)
    BY DEF PreviewTypes
<1>3. Shown \in Seq(PieceType)
    BY <1>2, FlattenType DEF Shown
<1>4. CASE streamingEl
    <2>1. previewEls' = [previewEls EXCEPT ![Len(previewEls)] = Append(@, x)]
        BY <1>4 DEF Delta
    <2> HIDE DEF x
    <2>2. /\ previewEls' \in Seq(Seq(PieceType)) /\ previewEls' # <<>>
          /\ FlattenSeq(previewEls') = Append(FlattenSeq(previewEls), x)
        BY <1>1, <1>2, <1>4, <2>1, FlattenGrows
    <2> QED
        BY <1>1, <1>3, <2>2 DEF Shown, x
<1>5. CASE ~streamingEl
    <2>1. previewEls' = Append(previewEls, <<x>>)
        BY <1>5 DEF Delta
    <2> HIDE DEF x
    <2>2. <<x>> \in Seq(PieceType)
        BY <1>1
    <2>3. previewEls' \in Seq(Seq(PieceType)) /\ previewEls' # <<>>
        BY <1>2, <2>1, <2>2, AppendProperties
    <2>4. FlattenSeq(previewEls') = FlattenSeq(previewEls) \o <<x>>
        BY <1>2, <2>1, <2>2, FlattenAppend
    <2>5. Shown \o <<x>> = Append(Shown, x)
        BY <1>1, <1>3, AppendIsConcat
    <2> QED
        BY <1>1, <1>3, <2>3, <2>4, <2>5 DEF Shown, x
<1> QED
    BY <1>4, <1>5

LEMMA ShownType == PreviewTypes => Shown \in Seq(PieceType)
BY FlattenType DEF PreviewTypes, Shown

(* The step, by what an action does to the text.  First the actions that   *)
(* leave it alone: they may at most end the preview that grows.            *)
LEMMA TextStays ==
    ASSUME TextInv, streamingEl' => streamingEl,
           UNCHANGED <<block, streamed, finished, previewEls, texts, settled, heardFrom, cutText, torn>>
    PROVE  TextInv'
<1>1. Shown' = Shown
    BY DEF Shown
<1>2. PreviewTypes'
    BY DEF TextInv, PreviewTypes
<1>3. NothingOfFinished'
    BY <1>1 DEF TextInv, NothingOfFinished
<1>4. HeardIsShown'
    BY <1>1 DEF TextInv, HeardIsShown
<1> QED
    BY <1>2, <1>3, <1>4 DEF TextInv

LEMMA TextGrows == ASSUME TextInv, Delta PROVE TextInv'
<1> DEFINE x == <<block, streamed + 1>>
<1>1. /\ block \in Nat /\ block \in Blocks /\ streamed \in Nat /\ heardFrom \in Nat
      /\ heardFrom <= streamed /\ streamed' = streamed + 1
      /\ UNCHANGED <<block, finished, texts, settled, heardFrom, cutText, torn>>
    BY BlocksAreNumbers DEF TextInv, PreviewTypes, Delta
<1>2. /\ Shown' = Append(Shown, x) /\ Shown \in Seq(PieceType) /\ x \in PieceType
      /\ previewEls' \in Seq(Seq(PieceType)) /\ previewEls' # <<>>
    BY DeltaShowsOneMore DEF TextInv
<1>3. PreviewTypes'
    BY <1>1, <1>2 DEF TextInv, PreviewTypes
<1>4. block \notin finished
    BY <1>1 DEF TextInv, NothingOfFinished
<1>5. /\ Len(Shown') = Len(Shown) + 1 /\ Len(Shown) \in Nat
      /\ \A k \in 1..Len(Shown) : Shown'[k] = Shown[k]
      /\ Shown'[Len(Shown) + 1] = x
    <2> HIDE DEF x
    <2> QED
        BY <1>2, AppendProperties, LenProperties
<1>6. NothingOfFinished'
    <2>1. ASSUME NEW k \in 1..Len(Shown')
          PROVE  /\ Shown'[k][1] <= block /\ Shown'[k][1] \notin finished
        <3>1. CASE k = Len(Shown) + 1
            <4>1. Shown'[k][1] = block
                BY <1>5, <3>1
            <4> QED
                BY <1>1, <1>4, <4>1
        <3>2. CASE k # Len(Shown) + 1
            <4>1. k \in 1..Len(Shown)
                BY <1>5, <3>2
            <4> QED
                BY <1>5, <4>1 DEF TextInv, NothingOfFinished
        <3> QED
            BY <3>1, <3>2
    <2>2. streamed' > 0
        BY <1>1
    <2> QED
        BY <1>1, <2>1, <2>2 DEF TextInv, NothingOfFinished
<1>7. HeardIsShown'
    <2>0. Pieces(block, heardFrom, streamed + 1) = Append(Pieces(block, heardFrom, streamed), x)
        BY <1>1, PiecesFacts
    <2>1. block \notin torn => Shown' = Pieces(block, heardFrom, streamed + 1)
        BY <1>1, <1>2, <2>0 DEF TextInv, HeardIsShown
    <2> QED
        BY <1>1, <2>1 DEF TextInv, HeardIsShown
<1> QED
    BY <1>1, <1>3, <1>6, <1>7 DEF TextInv

LEMMA TextIsFinished == ASSUME TextInv, AssistantText PROVE TextInv'
<1>1. /\ block \in Nat /\ block \in Blocks /\ block + 1 \in Blocks
      /\ block' = block + 1 /\ streamed' = 0 /\ heardFrom' = 0
      /\ finished' = finished \cup {block} /\ previewEls' = <<>> /\ streamingEl' = FALSE
      /\ texts' = [texts EXCEPT ![block] = @ + 1]
      /\ UNCHANGED <<settled, cutText, torn>>
    BY BlocksAreNumbers DEF TextInv, PreviewTypes, AssistantText, DropPreviews, Blocks
<1>2. Shown' = <<>> /\ previewEls' \in Seq(Seq(PieceType))
    BY <1>1, DroppedShowNothing
<1>3. PreviewTypes'
    BY <1>1, <1>2 DEF TextInv, PreviewTypes
<1>4. NothingOfFinished'
    <2>1. \A b \in finished : b \in Nat /\ b < block
        BY BlocksAreNumbers DEF TextInv, PreviewTypes, NothingOfFinished
    <2>2. \A c \in Blocks : \A k \in 1..Len(settled[c]) :
            /\ settled[c][k][1] \in Nat /\ settled[c][k][1] < block
            /\ settled[c][k][1] \notin finished
        <3> TAKE c \in Blocks
        <3> TAKE k \in 1..Len(settled[c])
        <3>1. settled[c][k] \in PieceType
            BY DEF TextInv, PreviewTypes
        <3> QED
            BY <3>1 DEF TextInv, NothingOfFinished, PieceType
    <2>3. \A b \in finished' : b < block'
        BY <1>1, <2>1
    <2>4. \A c \in Blocks : \A k \in 1..Len(settled[c]) :
            settled[c][k][1] < block' /\ settled[c][k][1] \notin finished'
        BY <1>1, <2>2
    <2>5. 1..Len(Shown') = {}
        BY <1>2
    <2> QED
        BY <1>1, <2>3, <2>4, <2>5 DEF NothingOfFinished
<1>5. HeardIsShown'
    <2>1. \A b \in Blocks : texts'[b] = IF b \in finished' THEN 1 ELSE 0
        <3>1. texts[block] = 0
            BY <1>1 DEF TextInv, HeardIsShown, NothingOfFinished
        <3> QED
            BY <1>1, <3>1 DEF TextInv, HeardIsShown
    <2>2. Pieces(block', heardFrom', streamed') = <<>>
        BY <1>1, PiecesFacts
    <2>3. \A b \in Blocks \ torn : b >= block' => settled[b] = <<>>
        BY <1>1, BlocksAreNumbers DEF TextInv, HeardIsShown
    <2> QED
        BY <1>1, <1>2, <2>1, <2>2, <2>3 DEF TextInv, HeardIsShown
<1>6. texts' \in [Blocks -> Nat]
    BY <1>1 DEF TextInv
<1> QED
    BY <1>3, <1>4, <1>5, <1>6 DEF TextInv

LEMMA TextIsTaken == ASSUME TextInv, SubagentText PROVE TextInv'
<1>1. /\ previewEls' = <<>> /\ streamingEl' = FALSE
      /\ torn' = IF previewEls = <<>> THEN torn ELSE torn \cup {block}
      /\ UNCHANGED <<block, streamed, finished, texts, settled, heardFrom, cutText>>
    BY DEF SubagentText, DropPreviews, turnVars
<1>2. Shown' = <<>> /\ previewEls' \in Seq(Seq(PieceType))
    BY <1>1, DroppedShowNothing
<1>3. PreviewTypes'
    BY <1>1, <1>2 DEF TextInv, PreviewTypes
<1>4. NothingOfFinished'
    <2>1. 1..Len(Shown') = {}
        BY <1>2
    <2> QED
        BY <1>1, <2>1 DEF TextInv, NothingOfFinished
<1>5. block \notin torn' => Shown' = Pieces(block, heardFrom, streamed)
    <2> SUFFICES ASSUME block \notin torn' PROVE Shown' = Pieces(block, heardFrom, streamed)
        OBVIOUS
    <2>1. previewEls = <<>> /\ block \notin torn
        BY <1>1
    <2>2. Shown = <<>>
        BY <2>1, FlattenEmpty DEF Shown
    <2> QED
        BY <1>2, <2>1, <2>2 DEF TextInv, HeardIsShown
<1>6. HeardIsShown'
    <2>1. torn \subseteq torn'
        BY <1>1
    <2> QED
        BY <1>1, <1>5, <2>1 DEF TextInv, HeardIsShown
<1> QED
    BY <1>1, <1>3, <1>4, <1>6 DEF TextInv

LEMMA TextGoesUnreported == ASSUME TextInv, GoesUnreported PROVE TextInv'
<1>1. /\ block \in Nat /\ block \in Blocks /\ block + 1 \in Blocks
      /\ block' = block + 1 /\ streamed' = 0 /\ heardFrom' = 0
      /\ torn' = torn \cup {block, block + 1}
      /\ UNCHANGED <<finished, previewEls, streamingEl, texts, settled, cutText>>
    BY BlocksAreNumbers DEF TextInv, PreviewTypes, GoesUnreported, Blocks, threadVars
<1>2. Shown' = Shown /\ Shown \in Seq(PieceType)
    BY <1>1, ShownType DEF TextInv, Shown
<1>3. PreviewTypes'
    BY <1>1 DEF TextInv, PreviewTypes
<1>4. NothingOfFinished'
    <2>1. \A b \in finished : b < block'
        BY <1>1, BlocksAreNumbers DEF TextInv, PreviewTypes, NothingOfFinished
    <2>2. \A c \in Blocks : \A k \in 1..Len(settled[c]) :
            settled[c][k][1] < block' /\ settled[c][k][1] \notin finished
        <3> TAKE c \in Blocks
        <3> TAKE k \in 1..Len(settled[c])
        <3>1. settled[c][k] \in PieceType
            BY DEF TextInv, PreviewTypes
        <3>2. settled[c][k][1] \in Nat
            BY <3>1 DEF PieceType
        <3> QED
            BY <1>1, <3>2 DEF TextInv, NothingOfFinished
    <2>3. \A k \in 1..Len(Shown) : Shown[k][1] < block' /\ Shown[k][1] \notin finished
        <3> TAKE k \in 1..Len(Shown)
        <3>1. Shown[k] \in PieceType
            BY <1>2
        <3>2. Shown[k][1] \in Nat
            BY <3>1 DEF PieceType
        <3> QED
            BY <1>1, <3>2 DEF TextInv, NothingOfFinished
    <2>4. \A k \in 1..Len(Shown) : Shown[k][1] <= block' /\ Shown[k][1] # block'
        <3> TAKE k \in 1..Len(Shown)
        <3>1. Shown[k] \in PieceType
            BY <1>2
        <3>2. Shown[k][1] \in Nat /\ Shown[k][1] < block'
            BY <2>3, <3>1 DEF PieceType
        <3> QED
            BY <1>1, <3>2
    <2> QED
        BY <1>1, <1>2, <2>1, <2>2, <2>3, <2>4 DEF NothingOfFinished
<1>5. HeardIsShown'
    BY <1>1, BlocksAreNumbers DEF TextInv, HeardIsShown
<1> QED
    BY <1>1, <1>3, <1>4, <1>5 DEF TextInv

LEMMA TextIsReplayed == ASSUME TextInv, Reattach PROVE TextInv'
<1>1. /\ previewEls' = <<>> /\ streamingEl' = FALSE
      /\ texts' = [b \in Blocks |-> IF b \in finished THEN 1 ELSE 0]
      /\ settled' = [b \in Blocks |-> <<>>] /\ cutText' = settled'
      /\ heardFrom' = streamed
      /\ UNCHANGED <<block, streamed, finished>>
    BY DEF Reattach, DropPreviews, turnVars
<1>2. Shown' = <<>> /\ previewEls' \in Seq(Seq(PieceType))
    BY <1>1, DroppedShowNothing
<1>3. block \in Nat /\ streamed \in Nat
    BY BlocksAreNumbers DEF TextInv, PreviewTypes
<1>4. PreviewTypes' /\ texts' \in [Blocks -> Nat]
    BY <1>1, <1>2, <1>3 DEF TextInv, PreviewTypes
<1>5. NothingOfFinished'
    <2>1. 1..Len(Shown') = {} /\ \A c \in Blocks : 1..Len(settled'[c]) = {}
        BY <1>1, <1>2
    <2> QED
        BY <1>1, <2>1 DEF TextInv, NothingOfFinished
<1>6. HeardIsShown'
    <2>1. Pieces(block', heardFrom', streamed') = <<>>
        BY <1>1, <1>3, PiecesFacts
    <2> QED
        BY <1>1, <1>2, <2>1 DEF HeardIsShown
<1> QED
    BY <1>4, <1>5, <1>6 DEF TextInv

(* The end of the turn keeps the previews as text of the block cut off.    *)
LEMMA TextIsSettled == ASSUME TextInv, TurnEnds PROVE TextInv'
<1>1. /\ block \in Nat /\ block \in Blocks /\ block + 1 \in Blocks /\ streamed \in Nat
      /\ heardFrom \in Nat /\ heardFrom <= streamed
    BY BlocksAreNumbers DEF TextInv, PreviewTypes, TurnEnds, Blocks
<1>2. /\ previewEls' = <<>> /\ streamingEl' = FALSE
      /\ settled' = [settled EXCEPT ![block] = settled[block] \o Shown]
      /\ block' = IF streamed > 0 THEN block + 1 ELSE block
      /\ streamed' = 0 /\ heardFrom' = 0
      /\ cutText' = [cutText EXCEPT ![block] = Pieces(block, heardFrom, streamed)]
      /\ UNCHANGED <<finished, texts, torn>>
    BY DEF TurnEnds, SettlePreviews, DropPreviews, Shown
<1>3. Shown' = <<>> /\ previewEls' \in Seq(Seq(PieceType))
    BY <1>2, DroppedShowNothing
<1>4. /\ settled \in [Blocks -> Seq(PieceType)] /\ cutText \in [Blocks -> Seq(PieceType)]
      /\ settled[block] \in Seq(PieceType) /\ Shown \in Seq(PieceType)
      /\ finished \subseteq Blocks
    BY <1>1, ShownType DEF TextInv, PreviewTypes
<1>5. /\ settled[block] \o Shown \in Seq(PieceType)
      /\ Len(settled[block] \o Shown) = Len(settled[block]) + Len(Shown)
      /\ \A k \in 1..(Len(settled[block]) + Len(Shown)) : (settled[block] \o Shown)[k] =
            IF k <= Len(settled[block]) THEN settled[block][k] ELSE Shown[k - Len(settled[block])]
    BY <1>4, ConcatProperties
<1>6. block' \in Blocks /\ block' \in Nat /\ block <= block'
    BY <1>1, <1>2
<1>7. PreviewTypes'
    <2>1. Pieces(block, heardFrom, streamed) \in Seq(PieceType)
        BY <1>1, PiecesFacts
    <2>2. settled' \in [Blocks -> Seq(PieceType)] /\ cutText' \in [Blocks -> Seq(PieceType)]
        BY <1>1, <1>2, <1>4, <1>5, <2>1
    <2> QED
        BY <1>2, <1>3, <1>4, <1>6, <2>2 DEF PreviewTypes
<1>8. NothingOfFinished'
    <2>1. ASSUME NEW c \in Blocks, NEW k \in 1..Len(settled[c])
          PROVE  settled[c][k][1] < block' /\ settled[c][k][1] \notin finished
        <3>1. settled[c][k] \in PieceType
            BY <1>4
        <3>2. settled[c][k][1] \in Nat
            BY <3>1 DEF PieceType
        <3>3. settled[c][k][1] < block /\ settled[c][k][1] \notin finished
            BY DEF TextInv, NothingOfFinished
        <3> QED
            BY <1>1, <1>6, <3>2, <3>3
    <2>2. ASSUME NEW k \in 1..Len(Shown)
          PROVE  Shown[k][1] < block' /\ Shown[k][1] \notin finished
        <3>1. Shown[k] \in PieceType
            BY <1>4
        <3>2. Shown[k][1] \in Nat
            BY <3>1 DEF PieceType
        <3>3. /\ Shown[k][1] <= block /\ Shown[k][1] \notin finished
              /\ Shown[k][1] = block => streamed > 0
            BY DEF TextInv, NothingOfFinished
        <3> QED
            BY <1>1, <1>2, <3>2, <3>3
    <2>3. ASSUME NEW c \in Blocks, NEW k \in 1..Len(settled'[c])
          PROVE  settled'[c][k][1] < block' /\ settled'[c][k][1] \notin finished
        <3>1. CASE c # block
            <4>1. settled'[c] = settled[c]
                BY <1>2, <1>4, <3>1
            <4> QED
                BY <2>1, <4>1
        <3>2. CASE c = block
            <4> DEFINE a == Len(settled[block])
                       z == Len(Shown)
            <4>1. settled'[c] = settled[block] \o Shown
                BY <1>1, <1>2, <1>4, <3>2
            <4>2. a \in Nat /\ z \in Nat /\ k \in 1..(a + z)
                BY <1>4, <1>5, <4>1, LenProperties
            <4>3. CASE k <= a
                <5>1. k \in 1..a
                    BY <4>2, <4>3
                <5>2. settled'[c][k] = settled[block][k]
                    BY <1>5, <4>1, <4>2, <4>3
                <5> QED
                    BY <1>1, <2>1, <5>1, <5>2
            <4>4. CASE ~(k <= a)
                <5>1. k - a \in 1..z
                    BY <4>2, <4>4
                <5>2. settled'[c][k] = Shown[k - a]
                    BY <1>5, <4>1, <4>2, <4>4
                <5> QED
                    BY <2>2, <5>1, <5>2
            <4> QED
                BY <4>3, <4>4
        <3> QED
            BY <3>1, <3>2
    <2>4. \A b \in finished : b < block'
        <3> TAKE b \in finished
        <3>1. b \in Nat /\ b < block
            BY <1>4, BlocksAreNumbers DEF TextInv, NothingOfFinished
        <3> QED
            BY <1>1, <1>6, <3>1
    <2>5. 1..Len(Shown') = {}
        BY <1>3
    <2> QED
        BY <1>2, <2>3, <2>4, <2>5 DEF NothingOfFinished
<1>9. HeardIsShown'
    <2>1. ASSUME block \notin torn
          PROVE  settled'[block] = Pieces(block, heardFrom, streamed)
        <3>1. settled[block] = <<>> /\ Shown = Pieces(block, heardFrom, streamed)
            BY <1>1, <2>1 DEF TextInv, HeardIsShown
        <3>2. settled[block] \o Shown = Shown
            BY <1>4, <3>1, ConcatEmptySeq
        <3> QED
            BY <1>1, <1>2, <1>4, <3>1, <3>2
    <2>2. \A b \in Blocks \ torn : settled'[b] = cutText'[b]
        <3> TAKE b \in Blocks \ torn
        <3>1. CASE b = block
            BY <1>1, <1>2, <1>4, <2>1, <3>1
        <3>2. CASE b # block
            BY <1>2, <1>4, <3>2 DEF TextInv, HeardIsShown
        <3> QED
            BY <3>1, <3>2
    <2>3. \A b \in Blocks \ torn : b >= block' => settled'[b] = <<>>
        <3> SUFFICES ASSUME NEW b \in Blocks \ torn, b >= block' PROVE settled'[b] = <<>>
            OBVIOUS
        <3>1. b \in Nat /\ b >= block
            BY <1>1, <1>6, BlocksAreNumbers
        <3>2. CASE b = block
            <4>1. streamed = 0 /\ heardFrom = 0
                BY <1>1, <1>2, <1>6, <3>2
            <4>2. Pieces(block, heardFrom, streamed) = <<>>
                BY <1>1, <4>1, PiecesFacts
            <4> QED
                BY <2>1, <3>2, <4>2
        <3>3. CASE b # block
            BY <1>2, <1>4, <3>1, <3>3 DEF TextInv, HeardIsShown
        <3> QED
            BY <3>2, <3>3
    <2>4. Pieces(block', heardFrom', streamed') = <<>>
        <3>1. block' \in Nat /\ 0 \in Nat /\ 0 <= 0
            BY <1>6
        <3>2. Pieces(block', 0, 0) = <<>>
            BY <3>1, PiecesFacts
        <3> QED
            BY <1>2, <3>2
    <2> QED
        BY <1>2, <1>3, <2>2, <2>3, <2>4 DEF TextInv, HeardIsShown
<1> QED
    BY <1>2, <1>7, <1>8, <1>9 DEF TextInv

LEMMA TextInit == PreviewInit => TextInv
<1> SUFFICES ASSUME PreviewInit PROVE TextInv
    OBVIOUS
<1>1. Shown = <<>>
    BY FlattenEmpty DEF PreviewInit, Shown
<1>2. 1 \in Blocks
    BY PreviewAssumption DEF Blocks
<1>3. PreviewTypes /\ texts \in [Blocks -> Nat]
    BY <1>2, EmptySeq DEF PreviewInit, PreviewTypes
<1>4. 1..Len(Shown) = {} /\ \A c \in Blocks : 1..Len(settled[c]) = {}
    BY <1>1 DEF PreviewInit
<1>5. NothingOfFinished
    BY <1>4 DEF PreviewInit, NothingOfFinished
<1>6. Pieces(1, 0, 0) = <<>>
    BY PiecesFacts
<1>7. HeardIsShown
    BY <1>1, <1>6 DEF PreviewInit, HeardIsShown
<1> QED
    BY <1>3, <1>5, <1>7 DEF TextInv

LEMMA TextStep == TextInv /\ [PreviewNext]_previewVars => TextInv'
<1> SUFFICES ASSUME TextInv, [PreviewNext]_previewVars PROVE TextInv'
    OBVIOUS
<1>1. CASE UNCHANGED previewVars
    BY <1>1, TextStays DEF previewVars, turnVars, threadVars
<1>2. CASE ClickSend
    BY <1>2, TextStays DEF ClickSend, turnVars, threadVars
<1>3. CASE SendArrives
    BY <1>3, TextStays DEF SendArrives, EndStreaming
<1>4. CASE SendLost
    BY <1>4, TextStays DEF SendLost, turnVars, threadVars
<1>5. CASE Delta
    BY <1>5, TextGrows
<1>6. CASE AssistantText
    BY <1>6, TextIsFinished
<1>7. CASE SubagentText
    BY <1>7, TextIsTaken
<1>8. CASE Splits
    BY <1>8, TextStays DEF Splits, EndStreaming, turnVars
<1>9. CASE TurnEnds
    BY <1>9, TextIsSettled
<1>10. CASE GoesUnreported
    BY <1>10, TextGoesUnreported
<1>11. CASE Reattach
    BY <1>11, TextIsReplayed
<1> QED
    BY <1>1, <1>2, <1>3, <1>4, <1>5, <1>6, <1>7, <1>8, <1>9, <1>10, <1>11 DEF PreviewNext

LEMMA TextIsThere == TextInv => ThreadShowsTheText
<1> SUFFICES ASSUME TextInv PROVE ThreadShowsTheText
    OBVIOUS
<1>1. Shown \in Seq(PieceType) /\ \A c \in Blocks : settled[c] \in Seq(PieceType)
    BY ShownType DEF TextInv, PreviewTypes
<1>2. ASSUME NEW b \in finished, NEW c \in Blocks, NEW i \in 1..MaxPieces
      PROVE  <<b, i>> \notin ToSet(settled[c]) \cup ToSet(FlattenSeq(previewEls))
    <2>1. ASSUME NEW k \in DOMAIN settled[c], settled[c][k] = <<b, i>> PROVE FALSE
        <3>1. k \in 1..Len(settled[c])
            BY <1>1, LenProperties
        <3>2. settled[c][k][1] \notin finished
            BY <3>1 DEF TextInv, NothingOfFinished
        <3> QED
            BY <2>1, <3>2
    <2>2. ASSUME NEW k \in DOMAIN Shown, Shown[k] = <<b, i>> PROVE FALSE
        <3>1. k \in 1..Len(Shown)
            BY <1>1, LenProperties
        <3>2. Shown[k][1] \notin finished
            BY <3>1 DEF TextInv, NothingOfFinished
        <3> QED
            BY <2>2, <3>2
    <2> QED
        BY <2>1, <2>2 DEF ToSet, Shown
<1>3. \A b \in finished : texts[b] = 1
    BY DEF TextInv, PreviewTypes, HeardIsShown
<1>4. \A b \in Blocks \ finished : texts[b] = 0
    BY DEF TextInv, HeardIsShown
<1> QED
    BY <1>2, <1>3, <1>4 DEF TextInv, HeardIsShown, ThreadShowsTheText, Shown

(* The end of the thread is the turn as far as the panel heard: no         *)
(* fragment beside a finished block, every piece heard in its place and    *)
(* kept when the turn is cut off, and the working row up in a turn.        *)
THEOREM ThreadEndsWithTheTurn == PreviewSpec => []PanelShowsTheTurn
<1>1. PreviewSpec => []TextInv
    BY TextInit, TextStep, PTL DEF PreviewSpec
<1>2. TextInv => ThreadShowsTheText
    BY TextIsThere
<1>3. ThreadShowsTheText /\ WorkingRowIsTrue => PanelShowsTheTurn
    BY DEF PanelShowsTheTurn
<1> QED
    BY <1>1, <1>2, <1>3, WorkingRowTellsTheTruth, PTL
=============================================================================
