---------------------------- MODULE PhoneProofs -----------------------------
(***************************************************************************)
(* Proofs about what goes to a phone and comes from it.  Coalesce          *)
(* implements PushStream, for any chats, texts and events and any number   *)
(* of messages: gathering streamed text changes neither the order of a     *)
(* chat nor what of it arrives.  Uploads: for any file, whatever is        *)
(* repeated, late or cut short, the daemon holds the beginning of it, and  *)
(* at the end the whole.  Permissions: for any requests, windows, mode     *)
(* switches and restarts, the transcript says what Claude was told, a      *)
(* panel pins what the daemon waits on, and a notice on the phone comes    *)
(* down.                                                                   *)
(***************************************************************************)
EXTENDS Coalesce, Uploads, Permissions, SequenceLemmas, FiniteSetTheorems

-----------------------------------------------------------------------------
(* THE SENDER                                                              *)

Messages == Texts \cup Events

(* The inductive invariant: types, and NothingIsLost, which says where     *)
(* every message handed over is.                                           *)
SenderInv == CoalesceTypeOK /\ NothingIsLost

-----------------------------------------------------------------------------
(* Sequences                                                               *)

(* Appending to a concatenation appends to its second half. *)
LEMMA AppendToConcat ==
    \A s, t \in Seq(Messages), e \in Messages : Append(s \o t, e) = s \o Append(t, e)
<1> TAKE s, t \in Seq(Messages), e \in Messages
<1>1. <<e>> \in Seq(Messages)
  OBVIOUS
<1>2. s \o t \in Seq(Messages)
  BY ConcatProperties
<1>3. Append(s \o t, e) = (s \o t) \o <<e>>
  BY <1>2, AppendIsConcat
<1>4. Append(t, e) = t \o <<e>>
  BY AppendIsConcat
<1>5. (s \o t) \o <<e>> = s \o (t \o <<e>>)
  BY <1>1, ConcatAssociative
<1> QED
  BY <1>3, <1>4, <1>5

(* A concatenation begins with its first half. *)
LEMMA ConcatBegins ==
    ASSUME NEW S, NEW s \in Seq(S), NEW t \in Seq(S)
    PROVE  /\ Len(s) \in Len(s)..Len(s \o t)
           /\ SubSeq(s \o t, 1, Len(s)) = s
<1>1. Len(s) \in Nat /\ Len(t) \in Nat /\ Len(s \o t) = Len(s) + Len(t)
  BY LenProperties, ConcatProperties
<1>2. CASE Len(s) = 0
  <2>1. s = <<>>
    BY <1>2, EmptySeq
  <2>2. SubSeq(s \o t, 1, Len(s)) = <<>>
    BY <1>2, SubSeqEmpty
  <2> QED
    BY <1>1, <2>1, <2>2
<1>3. CASE Len(s) # 0
  <2>1. 1 \in 1..Len(s) /\ Len(s) \in 1..Len(s)
    BY <1>1, <1>3
  <2>2. SubSeq(s \o t, 1, Len(s)) = SubSeq(s, 1, Len(s))
    BY <2>1, SubSeqOfConcat1
  <2> QED
    BY <1>1, <2>2, SubSeqFull
<1> QED
  BY <1>2, <1>3

-----------------------------------------------------------------------------
(* The invariant                                                           *)

LEMMA SenderTypes ==
    ASSUME CoalesceTypeOK
    PROVE  /\ gathered \in [Chats -> Seq(Messages)]
           /\ wire \in [Chats -> Seq(Messages)]
           /\ handed \in [Chats -> Seq(Messages)]
BY DEF CoalesceTypeOK, Messages

LEMMA SenderInit == CoalesceInit => SenderInv
<1> SUFFICES ASSUME CoalesceInit PROVE SenderInv
  OBVIOUS
<1> USE DEF CoalesceInit
<1>1. \A S : <<>> \in Seq(S)
  BY EmptySeq
<1>2. [c \in Chats |-> <<>>] \in [Chats -> Seq(Messages)]
  BY <1>1
<1>3. CoalesceTypeOK
  <2>1. missed \in 0..MAX_MISSED
    BY CoalesceAssumption
  <2>2. {gathered, wire, handed} \subseteq [Chats -> Seq(Texts \cup Events)]
    BY <1>2 DEF Messages
  <2> QED
    BY <2>1, <2>2 DEF CoalesceTypeOK
<1>4. NothingIsLost
  <2>1. <<>> \o <<>> = <<>>
    BY <1>1, ConcatEmptySeq
  <2> QED
    BY <1>1, <2>1 DEF NothingIsLost
<1> QED
  BY <1>3, <1>4 DEF SenderInv

LEMMA SenderStep == SenderInv /\ [CoalesceNext]_coalesceVars => SenderInv'
<1> SUFFICES ASSUME SenderInv, [CoalesceNext]_coalesceVars PROVE SenderInv'
  OBVIOUS
<1> USE CoalesceAssumption DEF SenderInv
<1>t. /\ gathered \in [Chats -> Seq(Messages)]
      /\ wire \in [Chats -> Seq(Messages)]
      /\ handed \in [Chats -> Seq(Messages)]
      /\ Texts \subseteq Messages /\ Events \subseteq Messages
  BY SenderTypes DEF Messages
<1>1. ASSUME NEW c \in Chats, NEW t \in Texts, SendDelta(c, t) PROVE SenderInv'
  <2>1. /\ Append(handed[c], t) \in Seq(Messages)
        /\ Append(gathered[c], t) \in Seq(Messages)
        /\ Append(wire[c], t) \in Seq(Messages)
    BY <1>t, AppendProperties
  <2>2. CoalesceTypeOK'
    BY <1>1, <1>t, <2>1, ZenonT(40) DEF CoalesceTypeOK, SendDelta, Hand, linkVars, Messages
  <2>3. /\ handed[c] = wire[c] \o gathered[c]
        /\ gathered[c] \in Seq(Texts)
        /\ ~timer => gathered[c] = <<>>
    BY <1>1 DEF SendDelta, Hand, NothingIsLost
  <2>4. Append(handed[c], t) = wire[c] \o Append(gathered[c], t)
    <3>1. wire[c] \in Seq(Messages) /\ gathered[c] \in Seq(Messages) /\ t \in Messages
      BY <1>t
    <3>2. Append(wire[c] \o gathered[c], t) = wire[c] \o Append(gathered[c], t)
      BY <3>1, AppendToConcat
    <3> QED
      BY <2>3, <3>2
  <2>5. Append(gathered[c], t) \in Seq(Texts)
    BY <2>3, AppendProperties
  <2>6. ~timer => Append(handed[c], t) = Append(wire[c], t) \o <<>>
    BY <1>t, <2>1, <2>3, ConcatEmptySeq
  <2>7. NothingIsLost'
    <3> SUFFICES ASSUME NEW d \in Chats
                 PROVE  /\ handed'[d] = wire'[d] \o gathered'[d]
                        /\ gathered'[d] \in Seq(Texts)
                        /\ ~timer' => gathered'[d] = <<>>
      BY DEF NothingIsLost
    <3>1. /\ handed[d] = wire[d] \o gathered[d]
          /\ gathered[d] \in Seq(Texts)
          /\ ~timer => gathered[d] = <<>>
      BY <1>1 DEF SendDelta, Hand, NothingIsLost
    <3>2. CASE timer
      BY <1>1, <1>t, <2>4, <2>5, <3>1, <3>2 DEF SendDelta, Hand
    <3>3. CASE ~timer
      BY <1>1, <1>t, <2>3, <2>6, <3>1, <3>3 DEF SendDelta, Hand
    <3> QED
      BY <3>2, <3>3
  <2> QED
    BY <2>2, <2>7
<1>2. ASSUME NEW c \in Chats, NEW e \in Events, SendOther(c, e) PROVE SenderInv'
  <2>1. /\ handed[c] = wire[c] \o gathered[c]
        /\ wire[c] \o gathered[c] \in Seq(Messages)
    BY <1>2, <1>t, ConcatProperties DEF SendOther, Hand, NothingIsLost
  <2>2. /\ Append(handed[c], e) \in Seq(Messages)
        /\ <<>> \in Seq(Messages) /\ <<>> \in Seq(Texts)
    BY <1>t, AppendProperties, EmptySeq
  <2>3. CoalesceTypeOK'
    BY <1>2, <1>t, <2>1, <2>2 DEF CoalesceTypeOK, SendOther, Hand, linkVars, Messages
  <2>4. Append(handed[c], e) = Append(handed[c], e) \o <<>>
    BY <2>2, ConcatEmptySeq
  <2>5. NothingIsLost'
    BY <1>2, <1>t, <2>1, <2>2, <2>4 DEF NothingIsLost, SendOther, Hand, linkVars
  <2> QED
    BY <2>3, <2>5
<1>3. CASE Tick
  <2>1. \A c \in Chats : /\ handed[c] = wire[c] \o gathered[c]
                         /\ wire[c] \o gathered[c] \in Seq(Messages)
    BY <1>3, <1>t, ConcatProperties DEF Tick, NothingIsLost
  <2>2. <<>> \in Seq(Messages) /\ <<>> \in Seq(Texts)
    BY EmptySeq
  <2>3. CoalesceTypeOK'
    BY <1>3, <1>t, <2>1, <2>2 DEF CoalesceTypeOK, Tick, linkVars, Messages
  <2>4. \A c \in Chats : handed[c] = handed[c] \o <<>>
    BY <1>t, ConcatEmptySeq
  <2>5. NothingIsLost'
    BY <1>3, <1>t, <2>1, <2>2, <2>4 DEF NothingIsLost, Tick, linkVars
  <2> QED
    BY <2>3, <2>5
<1>4. CASE Heard
  BY <1>4 DEF CoalesceTypeOK, NothingIsLost, Heard, senderVars
<1>5. CASE Sweep
  BY <1>5 DEF CoalesceTypeOK, NothingIsLost, Sweep, senderVars
<1>6. CASE LinkDies
  BY <1>6 DEF CoalesceTypeOK, NothingIsLost, LinkDies, senderVars
<1>7. CASE ClientCloses
  BY <1>7 DEF CoalesceTypeOK, NothingIsLost, ClientCloses, senderVars
<1>8. CASE Done
  <2>1. <<>> \in Seq(Messages)
    BY EmptySeq
  <2>2. CoalesceTypeOK'
    BY <1>8, <1>t, <2>1 DEF CoalesceTypeOK, Done, Messages
  <2> QED
    BY <1>8, <2>2 DEF NothingIsLost, Done
<1>9. CASE UNCHANGED coalesceVars
  BY <1>9 DEF CoalesceTypeOK, NothingIsLost, coalesceVars, senderVars, linkVars
<1> QED
  BY <1>1, <1>2, <1>3, <1>4, <1>5, <1>6, <1>7, <1>8, <1>9 DEF CoalesceNext

(* All that was handed over is on the wire or gathered, until the          *)
(* connection is forgotten.                                                *)
THEOREM SenderInvariant == CoalesceSpec => []SenderInv
  BY SenderInit, SenderStep, PTL DEF CoalesceSpec

-----------------------------------------------------------------------------
(* The refinement                                                          *)

LEMMA StreamBegins == CoalesceInit => Stream!StreamInit
  BY DEF CoalesceInit, Stream!StreamInit

LEMMA StreamGoesOn ==
    SenderInv /\ SenderInv' /\ [CoalesceNext]_coalesceVars
        => [Stream!StreamNext]_(Stream!streamVars)
<1> SUFFICES ASSUME SenderInv, SenderInv', [CoalesceNext]_coalesceVars
             PROVE  Stream!StreamNext \/ UNCHANGED Stream!streamVars
  OBVIOUS
<1> USE DEF SenderInv
<1>t. /\ gathered \in [Chats -> Seq(Messages)]
      /\ wire \in [Chats -> Seq(Messages)] /\ wire' \in [Chats -> Seq(Messages)]
      /\ handed \in [Chats -> Seq(Messages)]
      /\ Texts \subseteq Messages /\ Events \subseteq Messages
      /\ Messages = Stream!Items
  BY DEF CoalesceTypeOK, Messages, Stream!Items
<1>1. ASSUME NEW c \in Chats, NEW t \in Texts, SendDelta(c, t) PROVE Stream!StreamNext
  <2>1. /\ handed' = [handed EXCEPT ![c] = Append(@, t)]
        /\ handed'[c] = Append(handed[c], t)
        /\ handed[c] = wire[c] \o gathered[c]
        /\ ~timer => gathered[c] = <<>>
    BY <1>1, <1>t DEF SendDelta, Hand, NothingIsLost
  <2>2. /\ Append(gathered[c], t) \in Seq(Messages)
        /\ handed'[c] \in Seq(Messages)
        /\ Len(handed'[c]) = Len(handed[c]) + 1
        /\ Len(handed[c]) \in Nat
    BY <1>t, <2>1, AppendProperties, LenProperties
  <2>3. Stream!Advances(c)
    <3>1. CASE timer
      <4>1. handed'[c] = wire[c] \o Append(gathered[c], t)
        <5>1. wire[c] \in Seq(Messages) /\ gathered[c] \in Seq(Messages) /\ t \in Messages
          BY <1>t
        <5>2. Append(wire[c] \o gathered[c], t) = wire[c] \o Append(gathered[c], t)
          BY <5>1, AppendToConcat
        <5> QED
          BY <2>1, <5>2
      <4>2. /\ Len(wire[c]) \in Len(wire[c])..Len(handed'[c])
            /\ SubSeq(handed'[c], 1, Len(wire[c])) = wire[c]
        BY <1>t, <2>2, <4>1, ConcatBegins
      <4>3. wire'[c] = wire[c]
        BY <1>1, <3>1 DEF SendDelta
      <4> QED
        BY <4>2, <4>3 DEF Stream!Advances
    <3>2. CASE ~timer
      <4>1. handed[c] = wire[c]
        BY <1>t, <2>1, <3>2, ConcatEmptySeq
      <4>2. wire'[c] = handed'[c]
        BY <1>1, <1>t, <2>1, <3>2, <4>1 DEF SendDelta
      <4>3. SubSeq(handed'[c], 1, Len(handed'[c])) = handed'[c]
        BY <2>2, SubSeqFull
      <4>4. Len(handed'[c]) \in Len(wire[c])..Len(handed'[c])
        BY <2>2, <4>1
      <4> QED
        BY <4>2, <4>3, <4>4 DEF Stream!Advances
    <3> QED
      BY <3>1, <3>2
  <2>4. \A d \in Chats \ {c} : wire'[d] = wire[d]
    BY <1>1, <1>t DEF SendDelta
  <2>5. Stream!OfferText(c, t)
    BY <1>t, <2>1, <2>3, <2>4 DEF Stream!OfferText
  <2> QED
    BY <2>5 DEF Stream!StreamNext
<1>2. ASSUME NEW c \in Chats, NEW e \in Events, SendOther(c, e) PROVE Stream!StreamNext
  <2>1. Stream!OfferEvent(c, e)
    BY <1>2, <1>t DEF SendOther, Hand, NothingIsLost, Stream!OfferEvent
  <2> QED
    BY <2>1 DEF Stream!StreamNext
<1>3. CASE Tick
  <2>1. CASE \A c \in Chats : gathered[c] = <<>>
    BY <1>3, <2>1 DEF Tick, Stream!streamVars
  <2>2. CASE ~\A c \in Chats : gathered[c] = <<>>
    <3>1. ASSUME NEW c \in Chats PROVE Stream!Advances(c)
      <4>1. handed'[c] = handed[c] /\ handed[c] = wire[c] \o gathered[c] /\ wire'[c] = handed[c]
        BY <1>3, <2>2 DEF Tick, NothingIsLost
      <4>2. SubSeq(handed[c], 1, Len(handed[c])) = handed[c]
        BY <1>t, SubSeqFull
      <4>3. Len(wire[c]) \in Nat /\ Len(handed[c]) \in Nat
        BY <1>t, LenProperties
      <4>4. Len(handed[c]) \in Len(wire[c])..Len(handed[c])
        BY <1>t, <4>1, <4>3, ConcatBegins
      <4> QED
        BY <4>1, <4>2, <4>4 DEF Stream!Advances
    <3>2. Stream!Release
      BY <1>3, <1>t, <3>1 DEF Tick, Stream!Release
    <3> QED
      BY <3>2 DEF Stream!StreamNext
  <2> QED
    BY <2>1, <2>2
<1>4. CASE Heard \/ Sweep \/ LinkDies \/ ClientCloses \/ Done \/ UNCHANGED coalesceVars
  BY <1>4 DEF Heard, Sweep, LinkDies, ClientCloses, Done, coalesceVars, senderVars,
              Stream!streamVars
<1> QED
  BY <1>1, <1>2, <1>3, <1>4 DEF CoalesceNext

(* The sender of a phone's connection keeps the stream of every chat: what *)
(* coalesce.ts gathers goes out in order, whole, and before any event that *)
(* follows it.                                                             *)
THEOREM CoalesceKeepsTheStream == CoalesceSpec => KeepsTheStream
  BY SenderInvariant, StreamBegins, StreamGoesOn, PTL
     DEF CoalesceSpec, KeepsTheStream, Stream!StreamSpec

-----------------------------------------------------------------------------
(* UPLOADS                                                                 *)

(* The file of n bytes, a byte being its position. *)
FileOf(n) == [i \in 1..n |-> i]

LEMMA FileOfFacts ==
    ASSUME NEW n \in Nat
    PROVE  FileOf(n) \in Seq(Nat) /\ Len(FileOf(n)) = n /\ \A i \in 1..n : FileOf(n)[i] = i
BY DEF FileOf

(* A part of the file, behind the part before it. *)
LEMMA FileGrows ==
    ASSUME NEW size \in Nat, NEW h \in Nat, NEW k \in Nat, h + k <= size
    PROVE  FileOf(h) \o SubSeq(FileOf(size), h + 1, h + k) = FileOf(h + k)
<1> DEFINE s == FileOf(h)
           t == SubSeq(FileOf(size), h + 1, h + k)
           u == FileOf(h + k)
<1>1. s \in Seq(Nat) /\ Len(s) = h /\ \A i \in 1..h : s[i] = i
    BY FileOfFacts
<1>2. u \in Seq(Nat) /\ Len(u) = h + k /\ \A i \in 1..(h + k) : u[i] = i
    <2>1. h + k \in Nat
        OBVIOUS
    <2> QED
        BY <2>1, FileOfFacts
<1>3. t \in Seq(Nat) /\ Len(t) = k /\ \A i \in 1..k : t[i] = h + i
    <2>1. \A i \in (h + 1)..(h + k) : FileOf(size)[i] \in Nat
        <3>1. \A i \in 1..size : FileOf(size)[i] = i /\ i \in Nat
            BY FileOfFacts
        <3>2. \A i \in (h + 1)..(h + k) : i \in 1..size
            OBVIOUS
        <3> QED
            BY <3>1, <3>2
    <2>2. h + 1 \in Int /\ h + k \in Int
        OBVIOUS
    <2>3. /\ t \in Seq(Nat)
          /\ Len(t) = IF h + 1 <= h + k THEN (h + k) - (h + 1) + 1 ELSE 0
          /\ \A i \in 1..((h + k) - (h + 1) + 1) : t[i] = FileOf(size)[(h + 1) + i - 1]
        BY <2>1, <2>2, SubSeqProperties
    <2> HIDE DEF t
    <2>4. Len(t) = k
        <3>1. Len(t) = IF h + 1 <= h + k THEN (h + k) - (h + 1) + 1 ELSE 0
            BY <2>3
        <3> QED
            BY <3>1
    <2>5. ASSUME NEW i \in 1..k PROVE t[i] = h + i
        <3>1. i \in 1..((h + k) - (h + 1) + 1) /\ (h + 1) + i - 1 = h + i /\ h + i \in 1..size
            OBVIOUS
        <3> QED
            BY <2>3, <3>1, FileOfFacts
    <2> QED
        BY <2>3, <2>4, <2>5
<1> HIDE DEF s, t, u
<1>4. /\ s \o t \in Seq(Nat) /\ Len(s \o t) = h + k
      /\ \A i \in 1..(h + k) : (s \o t)[i] = IF i <= h THEN s[i] ELSE t[i - h]
    BY <1>1, <1>3, ConcatProperties
<1>5. ASSUME NEW i \in 1..(h + k) PROVE (s \o t)[i] = u[i]
    <2>1. CASE i <= h
        <3>1. i \in 1..h
            BY <2>1
        <3> QED
            BY <1>1, <1>2, <1>4, <2>1, <3>1
    <2>2. CASE ~(i <= h)
        <3>1. i - h \in 1..k /\ h + (i - h) = i
            BY <2>2
        <3> QED
            BY <1>2, <1>3, <1>4, <2>2, <3>1
    <2> QED
        BY <2>1, <2>2
<1>6. s \o t = u
    BY <1>2, <1>4, <1>5, SeqEqual
<1> QED
    BY <1>6 DEF s, t, u

(* The beginning of a piece of the file is a shorter piece of it. *)
LEMMA PieceBegins ==
    ASSUME NEW size \in Nat, NEW h \in Nat, NEW k \in Nat, h + k <= size, NEW n \in 0..k
    PROVE  SubSeq(SubSeq(FileOf(size), h + 1, h + k), 1, n) = SubSeq(FileOf(size), h + 1, h + n)
<1> DEFINE f == FileOf(size)
<1>1. f \in Seq(Nat) /\ Len(f) = size
    BY FileOfFacts
<1> HIDE DEF f
<1>2. CASE n = 0
    <2>1. SubSeq(SubSeq(f, h + 1, h + k), 1, n) = << >>
        BY <1>2, SubSeqEmpty
    <2>2. SubSeq(f, h + 1, h + n) = << >>
        <3>1. h + 1 \in Int /\ h + n \in Int /\ h + n < h + 1
            BY <1>2
        <3> QED
            BY <3>1, SubSeqEmpty
    <2> QED
        BY <2>1, <2>2 DEF f
<1>3. CASE n # 0
    <2>1. /\ h + 1 \in 1..Len(f) /\ h + k \in 1..Len(f)
          /\ 1 \in 1..((h + k) - (h + 1) + 1) /\ n \in 1..((h + k) - (h + 1) + 1)
        BY <1>1, <1>3
    <2>2. SubSeq(SubSeq(f, h + 1, h + k), 1, n) = SubSeq(f, (h + 1) + 1 - 1, (h + 1) + n - 1)
        BY <1>1, <2>1, SubSeqOfSubSeq
    <2>3. (h + 1) + 1 - 1 = h + 1 /\ (h + 1) + n - 1 = h + n
        OBVIOUS
    <2> QED
        BY <2>2, <2>3 DEF f
<1> QED
    BY <1>2, <1>3

(* A request within the file, which is marked as the last one only if it   *)
(* reaches the end.                                                        *)
Fits(r) ==
    /\ r.off \in Nat /\ r.len \in Nat /\ r.off + r.len <= upSize
    /\ r.done => r.off + r.len = upSize

UploadInv ==
    /\ upSize \in Nat /\ upAcked \in Nat
    /\ Len(upPart) \in 0..upSize /\ upPart = FileOf(Len(upPart))
    /\ upFinal = NotYet \/ upFinal = PhoneFile
    /\ upTold = "done" => upFinal = PhoneFile
    /\ Fits(upAsking) /\ \A r \in upLate : Fits(r)

(* What any request, also one that comes late or twice, leaves behind. *)
LEMMA AnyPieceIsSafe ==
    ASSUME UploadInv, NEW r, Fits(r), NEW p, p = uploadBytes(r)
    PROVE  /\ Len(p.part) \in 0..upSize /\ p.part = FileOf(Len(p.part))
           /\ p.final = PhoneFile \/ p.final = upFinal
           /\ p.kind = "done" => p.final = PhoneFile
           /\ p.received \in Nat
<1> DEFINE held == Len(upPart)
<1>1. /\ upSize \in Nat /\ held \in 0..upSize /\ upPart = FileOf(held)
      /\ (upFinal = NotYet \/ upFinal = PhoneFile)
    BY DEF UploadInv
<1>2. PhoneFile = FileOf(upSize) /\ Len(PhoneFile) = upSize
    BY <1>1, FileOfFacts DEF PhoneFile, FileOf
<1>3. CASE upFinal # NotYet
    <2>1. p = Progress(upPart, upFinal, Len(upFinal), "done")
        BY <1>3 DEF uploadBytes
    <2> QED
        BY <1>1, <1>2, <1>3, <2>1 DEF Progress
<1>4. CASE upFinal = NotYet /\ r.off # held
    <2>1. p = Progress(upPart, upFinal, held, "going")
        BY <1>4 DEF uploadBytes
    <2> QED
        BY <1>1, <2>1 DEF Progress
<1>5. CASE upFinal = NotYet /\ r.off = held /\ held + r.len > MAX_UPLOAD_BYTES
    <2>1. p = Progress(<<>>, upFinal, 0, "refused")
        BY <1>5 DEF uploadBytes
    <2>2. <<>> = FileOf(0) /\ Len(<<>>) = 0
        BY DEF FileOf
    <2> QED
        BY <1>1, <2>1, <2>2 DEF Progress
<1>6. CASE upFinal = NotYet /\ r.off = held /\ ~(held + r.len > MAX_UPLOAD_BYTES)
    <2>1. p = StorePiece(r, held)
        BY <1>6 DEF uploadBytes
    <2>2. /\ held \in Nat /\ r.len \in Nat /\ held + r.len <= upSize /\ held + r.len \in 0..upSize
          /\ r.done => held + r.len = upSize
        BY <1>1, <1>6 DEF Fits
    <2>3. PieceBytes(r) = SubSeq(FileOf(upSize), held + 1, held + r.len)
        BY <1>2, <1>6 DEF PieceBytes
    <2>4. upPart \o PieceBytes(r) = FileOf(held + r.len)
        <3>1. upPart = FileOf(held)
            BY <1>1
        <3> DEFINE k == r.len
        <3>2. held \in Nat /\ k \in Nat /\ held + k <= upSize /\ upSize \in Nat
            BY <1>1, <2>2
        <3> HIDE DEF held, k
        <3>3. FileOf(held) \o SubSeq(FileOf(upSize), held + 1, held + k) = FileOf(held + k)
            BY <3>2, FileGrows
        <3> QED
            BY <2>3, <3>1, <3>3 DEF k
    <2>5. Len(FileOf(held + r.len)) = held + r.len
        BY <2>2, FileOfFacts
    <2> HIDE DEF held
    <2>6. CASE r.done
        <3>1. p = Progress(<<>>, FileOf(held + r.len), held + r.len, "done")
            BY <2>1, <2>4, <2>6 DEF StorePiece
        <3>2. <<>> = FileOf(0) /\ Len(<<>>) = 0
            BY DEF FileOf
        <3> QED
            BY <1>1, <1>2, <2>2, <2>6, <3>1, <3>2 DEF Progress
    <2>7. CASE ~r.done
        <3>1. p = Progress(FileOf(held + r.len), upFinal, held + r.len, "going")
            BY <2>1, <2>4, <2>7 DEF StorePiece
        <3> QED
            BY <2>2, <2>5, <3>1 DEF Progress
    <2> QED
        BY <2>6, <2>7
<1> QED
    BY <1>3, <1>4, <1>5, <1>6

LEMMA UploadInvInit == UploadsInit => UploadInv
<1> SUFFICES ASSUME UploadsInit PROVE UploadInv
    OBVIOUS
<1>1. /\ upSize \in Nat /\ upPart = <<>> /\ upFinal = NotYet /\ upAcked = 0 /\ upTold = "going"
      /\ upAsking = NoPiece /\ upLate = {}
    BY UploadsAssumption DEF UploadsInit
<1>2. <<>> = FileOf(0) /\ Len(<<>>) = 0
    BY DEF FileOf
<1>3. Fits(upAsking)
    BY <1>1 DEF Fits, NoPiece
<1> QED
    BY <1>1, <1>2, <1>3 DEF UploadInv

LEMMA UploadInvStep == UploadInv /\ [UploadsNext]_uploadsVars => UploadInv'
<1> SUFFICES ASSUME UploadInv, [UploadsNext]_uploadsVars PROVE UploadInv'
    OBVIOUS
<1>0. /\ upSize \in Nat /\ upAcked \in Nat
      /\ Len(upPart) \in 0..upSize /\ upPart = FileOf(Len(upPart))
      /\ upFinal = NotYet \/ upFinal = PhoneFile
      /\ upTold = "done" => upFinal = PhoneFile
      /\ Fits(upAsking) /\ \A r \in upLate : Fits(r)
    BY DEF UploadInv
<1>s. upSize' = upSize /\ PhoneFile' = PhoneFile
    <2>1. upSize' = upSize
        BY Zenon DEF UploadsNext, AskPiece, PieceAnswered, GiveUpPiece, LatePiece, DiesWriting, uploadsVars
    <2> QED
        BY <2>1 DEF PhoneFile
<1>f. \A r : Fits(r)' <=> Fits(r)
    BY <1>s DEF Fits
<1>n. Fits(NoPiece)
    BY <1>0 DEF Fits, NoPiece
<1>1. CASE AskPiece
    <2>1. PICK n \in 0..MAX_HTTP_CHUNK :
            /\ upAcked + n <= upSize
            /\ upAsking' = [off |-> upAcked, len |-> n, done |-> upAcked + n = upSize, some |-> TRUE]
        BY <1>1, Zenon DEF AskPiece
    <2>2. upPart' = upPart /\ upFinal' = upFinal /\ upAcked' = upAcked /\ upTold' = upTold
          /\ upLate' = upLate
        BY <1>1, Zenon DEF AskPiece
    <2>3. n \in Nat /\ upAcked + n \in Nat
        BY <1>0, <2>1, UploadsAssumption
    <2>4. Fits(upAsking')
        BY <1>0, <2>1, <2>3 DEF Fits
    <2> QED
        BY <1>0, <1>s, <1>f, <2>2, <2>4 DEF UploadInv
<1>2. CASE PieceAnswered
    <2> DEFINE p == uploadBytes(upAsking)
    <2>1. /\ upPart' = p.part /\ upFinal' = p.final /\ upAcked' = p.received /\ upTold' = p.kind
          /\ upAsking' = NoPiece /\ upLate' = upLate
        BY <1>2, Zenon DEF PieceAnswered
    <2>2. /\ Len(p.part) \in 0..upSize /\ p.part = FileOf(Len(p.part))
          /\ p.final = PhoneFile \/ p.final = upFinal
          /\ p.kind = "done" => p.final = PhoneFile
          /\ p.received \in Nat
        BY <1>0, AnyPieceIsSafe
    <2> HIDE DEF p
    <2> QED
        BY <1>0, <1>s, <1>f, <1>n, <2>1, <2>2 DEF UploadInv
<1>3. CASE GiveUpPiece
    <2>1. /\ upAsking' = NoPiece /\ upLate' \in {upLate, upLate \cup {upAsking}}
          /\ upPart' = upPart /\ upFinal' = upFinal /\ upAcked' = upAcked /\ upTold' = upTold
        BY <1>3, Zenon DEF GiveUpPiece
    <2>2. \A r \in upLate' : Fits(r)
        BY <1>0, <2>1
    <2> QED
        BY <1>0, <1>s, <1>f, <1>n, <2>1, <2>2 DEF UploadInv
<1>4. CASE LatePiece
    <2>1. PICK r \in upLate :
            /\ upPart' = uploadBytes(r).part /\ upFinal' = uploadBytes(r).final
            /\ upLate' = upLate \ {r}
        BY <1>4, Zenon DEF LatePiece
    <2>2. upAcked' = upAcked /\ upTold' = upTold /\ upAsking' = upAsking
        BY <1>4, Zenon DEF LatePiece
    <2> DEFINE p == uploadBytes(r)
    <2>3. /\ Len(p.part) \in 0..upSize /\ p.part = FileOf(Len(p.part))
          /\ p.final = PhoneFile \/ p.final = upFinal
        BY <1>0, <2>1, AnyPieceIsSafe
    <2>4. upPart' = p.part /\ upFinal' = p.final
        BY <2>1
    <2> HIDE DEF p
    <2> QED
        BY <1>0, <1>s, <1>f, <2>1, <2>2, <2>3, <2>4 DEF UploadInv
<1>5. CASE DiesWriting
    <2>1. PICK n \in 0..upAsking.len : upPart' = upPart \o SubSeq(PieceBytes(upAsking), 1, n)
        BY <1>5, Zenon DEF DiesWriting
    <2>2. /\ upAsking.off = Len(upPart) /\ upAsking' = NoPiece
          /\ upFinal' = upFinal /\ upAcked' = upAcked /\ upTold' = upTold /\ upLate' = upLate
        BY <1>5, Zenon DEF DiesWriting
    <2> DEFINE h == Len(upPart)
               k == upAsking.len
    <2>3. h \in Nat /\ k \in Nat /\ h + k <= upSize /\ n \in 0..k /\ n \in Nat /\ h + n <= upSize
        BY <1>0, <2>1, <2>2 DEF Fits
    <2>4. PieceBytes(upAsking) = SubSeq(FileOf(upSize), h + 1, h + k)
        BY <2>2 DEF PieceBytes, PhoneFile, FileOf
    <2>5. upPart = FileOf(h)
        BY <1>0
    <2>6. upPart' = upPart \o SubSeq(SubSeq(FileOf(upSize), h + 1, h + k), 1, n)
        BY <2>1, <2>4
    <2> HIDE DEF h, k
    <2>7. upPart' = FileOf(h) \o SubSeq(FileOf(upSize), h + 1, h + n)
        BY <1>0, <2>3, <2>5, <2>6, PieceBegins, SMTT(20)
    <2>8. upPart' = FileOf(h + n)
        BY <1>0, <2>3, <2>7, FileGrows
    <2>9. Len(upPart') = h + n /\ h + n \in 0..upSize
        BY <1>0, <2>3, <2>8, FileOfFacts
    <2> QED
        BY <1>0, <1>s, <1>f, <1>n, <2>2, <2>8, <2>9 DEF UploadInv
<1>6. CASE UNCHANGED uploadsVars
    <2>1. /\ upPart' = upPart /\ upFinal' = upFinal /\ upAcked' = upAcked /\ upTold' = upTold
          /\ upLate' = upLate /\ upAsking' = upAsking
        BY <1>6, Zenon DEF uploadsVars
    <2> QED
        BY <1>0, <1>s, <1>f, <2>1 DEF UploadInv
<1> QED
    BY <1>1, <1>2, <1>3, <1>4, <1>5, <1>6, Zenon DEF UploadsNext

(* For any file and any size of the pieces: whatever is repeated, late or  *)
(* cut short, the part file is the beginning of the phone's file, and the  *)
(* finished upload is the whole of it.                                     *)
THEOREM UploadsAreTheFile == UploadsSpec => []UploadIsTheFile
<1>1. UploadInv => UploadIsTheFile
    <2> SUFFICES ASSUME UploadInv PROVE UploadIsTheFile
        OBVIOUS
    <2> DEFINE h == Len(upPart)
    <2>1. /\ upSize \in Nat /\ h \in 0..upSize /\ upPart = FileOf(h) /\ PhoneFile = FileOf(upSize)
          /\ upFinal = NotYet \/ upFinal = PhoneFile
          /\ upTold = "done" => upFinal = PhoneFile
        BY DEF UploadInv, PhoneFile, FileOf
    <2> HIDE DEF h
    <2>2. h \in Nat /\ h <= upSize
        BY <2>1
    <2>3. Len(FileOf(h)) = h /\ Len(FileOf(upSize)) = upSize
        BY <2>1, <2>2, FileOfFacts
    <2>4. SubSeq(FileOf(h), 1, h) = SubSeq(FileOf(upSize), 1, h)
        <3>1. /\ SubSeq(FileOf(h), 1, h) = [i \in 1..h |-> FileOf(h)[i]]
              /\ SubSeq(FileOf(upSize), 1, h) = [i \in 1..h |-> FileOf(upSize)[i]]
            BY <2>1, <2>2, <2>3
        <3>2. \A i \in 1..h : FileOf(h)[i] = i /\ FileOf(upSize)[i] = i
            BY <2>1, <2>2 DEF FileOf
        <3> QED
            BY <3>1, <3>2
    <2>5. IsPrefix(upPart, PhoneFile)
        BY <2>1, <2>2, <2>3, <2>4 DEF IsPrefix
    <2> QED
        BY <2>1, <2>5 DEF UploadIsTheFile
<1> QED
    BY <1>1, UploadInvInit, UploadInvStep, PTL DEF UploadsSpec

-----------------------------------------------------------------------------
(* PERMISSIONS                                                             *)

-----------------------------------------------------------------------------
(* The inductive invariant                                                 *)

Asked(r, i)    == i \in 1..Len(log) /\ log[i] = AskedFor(r)
Answers(r, i)  == i \in 1..Len(log) /\ \E allow \in BOOLEAN : log[i] = Answer(r, allow)
WasAsked(r)    == \E i \in 1..Len(log) : Asked(r, i)
WasAnswered(r) == \E i \in 1..Len(log) : Answers(r, i)

(* The map of requests, the calls and the announced ones go together; a    *)
(* phone is told only of what waits.                                       *)
Together ==
    /\ IsFiniteSet(pendingPermissions)
    /\ announced \subseteq pendingPermissions
    /\ \A r \in Reqs :
        /\ call[r] = "waiting" => r \in pendingPermissions
        /\ r \in pendingPermissions => call[r] \in {"waiting", "gone"} /\ ~WasAnswered(r)
        /\ call[r] = "none" => ~WasAsked(r) /\ ~WasAnswered(r)

(* Answers come after what they answer, one to each and in the words that  *)
(* Claude was given; what has none waits, or waited in a daemon that died. *)
AnswersFit ==
    \A r \in Reqs :
        /\ \A i, j \in 1..Len(log) : /\ Asked(r, i) /\ Answers(r, j) => i < j
                                     /\ Answers(r, i) /\ Answers(r, j) => i = j
        /\ WasAsked(r) => r \in pendingPermissions \cup lost \/ WasAnswered(r)
        /\ call[r] = "allowed" => \A i \in 1..Len(log) : log[i] # Answer(r, FALSE)
        /\ call[r] = "denied" => \A i \in 1..Len(log) : log[i] # Answer(r, TRUE)

(* What the phone shows, or will be told to show, it will be told to take  *)
(* down once it is answered, and is announced until then.                  *)
WithdrawalIsSent ==
    \A r \in Reqs \ (misled \cup replaced) :
        WasAnswered(r) /\ (r \in notices \/ Attention(r) \in sends \cup kept) =>
            Resolved(r) \in sends \cup kept

ShownIsAnnounced ==
    \A r \in Reqs \ misled :
        ~WasAnswered(r) /\ (r \in notices \/ Attention(r) \in sends \cup kept) => r \in announced

(* A withdrawal is of an answered request, and does not overtake its       *)
(* notice without that being noted.                                        *)
WithdrawalFollows ==
    \A r \in Reqs :
        /\ Resolved(r) \in sends \cup kept => WasAnswered(r)
        /\ r \notin misled /\ Resolved(r) \in kept => Attention(r) \notin sends

(* One notice of the chat is kept at a time.                               *)
OneIsHeld == \A m, n \in kept : m = n

PhoneFollows == WithdrawalIsSent /\ ShownIsAnnounced /\ WithdrawalFollows /\ OneIsHeld

PermissionsInv == PermissionsTypeOK /\ Together /\ AnswersFit /\ PhoneFollows

-----------------------------------------------------------------------------
(* The transcript                                                          *)

(* Events tell requests from answers, and say what was answered how.       *)
LEMMA EventsDiffer ==
    ASSUME NEW r, NEW s, NEW a \in BOOLEAN, NEW b \in BOOLEAN
    PROVE  /\ AskedFor(r) # Answer(s, a)
           /\ AskedFor(r) = AskedFor(s) => r = s
           /\ Answer(r, a) = Answer(s, b) => r = s /\ a = b
  <1>1. AskedFor(r) # Answer(s, a)
    <2>1. AskedFor(r).kind = "asked" /\ Answer(s, a).kind = "answered" BY DEF AskedFor, Answer
    <2> QED BY <2>1
  <1>2. AskedFor(r) = AskedFor(s) => r = s
    <2>1. AskedFor(r).req = r /\ AskedFor(s).req = s BY DEF AskedFor
    <2> QED BY <2>1
  <1>3. Answer(r, a) = Answer(s, b) => r = s /\ a = b
    <2>1. Answer(r, a).req = r /\ Answer(s, b).req = s BY DEF Answer
    <2>2. Answer(r, a).allowed = a /\ Answer(s, b).allowed = b BY DEF Answer
    <2> QED BY <2>1, <2>2
  <1> QED BY <1>1, <1>2, <1>3

(* Notices tell requests, and say whether they are taken down.             *)
LEMMA NoticesDiffer ==
    ASSUME NEW r, NEW s
    PROVE  /\ Attention(r) # Resolved(s)
           /\ Attention(r) = Attention(s) => r = s
           /\ Resolved(r) = Resolved(s) => r = s
           /\ Attention(r).kind = "attention" /\ Attention(r).req = r
           /\ Resolved(r).kind = "resolved" /\ Resolved(r).req = r
  <1>1. /\ Attention(r).kind = "attention" /\ Attention(r).req = r
        /\ Attention(s).kind = "attention" /\ Attention(s).req = s
        /\ Resolved(r).kind = "resolved" /\ Resolved(r).req = r
        /\ Resolved(s).kind = "resolved" /\ Resolved(s).req = s
    BY DEF Attention, Resolved
  <1> QED BY <1>1

(* What the daemon records are events.                                     *)
LEMMA EventsAre ==
    ASSUME NEW r \in Reqs, NEW allow \in BOOLEAN
    PROVE  AskedFor(r) \in PermissionEvents /\ Answer(r, allow) \in PermissionEvents
  BY DEF PermissionEvents

(* The transcript is a sequence of events.                                 *)
LEMMA LogIsSeq ==
    ASSUME PermissionsTypeOK
    PROVE  /\ Len(log) \in Nat /\ DOMAIN log = 1..Len(log)
           /\ \A i \in 1..Len(log) : log[i] \in PermissionEvents
  BY LenProperties, ElementOfSeq DEF PermissionsTypeOK

(* canUseTool appends one event.                                           *)
LEMMA AskGrows ==
    ASSUME PermissionsTypeOK, NEW r \in Reqs, log' = Append(log, AskedFor(r))
    PROVE  /\ log' \in Seq(PermissionEvents)
           /\ Len(log') = Len(log) + 1
           /\ \A i \in 1..Len(log) : log'[i] = log[i]
           /\ log'[Len(log) + 1] = AskedFor(r)
  <1>1. AskedFor(r) \in PermissionEvents /\ log \in Seq(PermissionEvents)
    BY DEF PermissionEvents, PermissionsTypeOK
  <1> QED BY <1>1, AppendProperties

(* Answers are appended in an order that names each request once.          *)
Answering(rs, allow, n, order) ==
    /\ log' \in Seq(PermissionEvents)
    /\ Len(log') = Len(log) + n
    /\ \A i \in 1..Len(log) : log'[i] = log[i]
    /\ \A k \in 1..n : log'[Len(log) + k] = Answer(order[k], allow)
    /\ \A r \in rs : \E k \in 1..n : order[k] = r
    /\ \A k, l \in 1..n : order[k] = order[l] => k = l
    /\ pendingPermissions' = pendingPermissions \ rs
    /\ Settle(rs, allow)
    /\ PushAnswered(rs)
    /\ UNCHANGED <<panelVars, wants, kept, notices, replaced, deaths, lost>>
    /\ permissionMode' \in BOOLEAN /\ cliMode' \in BOOLEAN

(* A click appends one answer.                                             *)
LEMMA ClickAnswers ==
    ASSUME PermissionsTypeOK, NEW r \in Reqs, NEW allow \in BOOLEAN, Click(r, allow)
    PROVE  /\ r \in pendingPermissions
           /\ \E order \in [1..1 -> {r}] : Answering({r}, allow, 1, order)
  <1> DEFINE order == [k \in 1..1 |-> r]
  <1>1. Answer(r, allow) \in PermissionEvents /\ log \in Seq(PermissionEvents)
    BY DEF PermissionEvents, PermissionsTypeOK
  <1>2. log' = Append(log, Answer(r, allow)) BY DEF Click, ResolvePermission
  <1>3. /\ log' \in Seq(PermissionEvents)
        /\ Len(log') = Len(log) + 1
        /\ \A i \in 1..Len(log) : log'[i] = log[i]
        /\ log'[Len(log) + 1] = Answer(r, allow)
    BY <1>1, <1>2, AppendProperties
  <1>4. \A k \in 1..1 : k = 1 OBVIOUS
  <1>5. order \in [1..1 -> {r}] /\ order[1] = r OBVIOUS
  <1> HIDE DEF order
  <1>6. permissionMode' \in BOOLEAN /\ cliMode' \in BOOLEAN BY DEF Click, PermissionsTypeOK
  <1>7. Answering({r}, allow, 1, order)
    BY <1>3, <1>4, <1>5, <1>6 DEF Answering, Click, ResolvePermission
  <1> QED BY <1>5, <1>7 DEF Click, ResolvePermission

(* Bypass answers every tool that waits, each of them once: an order of as *)
(* many answers as there are tools cannot name one of them twice.          *)
LEMMA BypassAnswersOnce ==
    ASSUME PermissionsTypeOK, Together, SetPermissionMode(TRUE)
    PROVE  \E n \in Nat : \E order \in [1..n -> BypassAnswers] :
             Answering(BypassAnswers, TRUE, n, order)
  <1> DEFINE n == Cardinality(BypassAnswers)
  <1>1. IsFiniteSet(BypassAnswers) /\ n \in Nat
    <2>1. IsFiniteSet(BypassAnswers) BY FS_Subset DEF BypassAnswers, Together
    <2> QED BY <2>1, FS_CardinalityType
  <1>2. PICK order \in [1..n -> BypassAnswers] :
          /\ \A r \in BypassAnswers : \E i \in DOMAIN order : order[i] = r
          /\ log' = log \o [i \in DOMAIN order |-> Answer(order[i], TRUE)]
          /\ pendingPermissions' = pendingPermissions \ BypassAnswers
          /\ Settle(BypassAnswers, TRUE)
          /\ PushAnswered(BypassAnswers)
    BY DEF SetPermissionMode
  <1> HIDE DEF n
  <1> DEFINE suffix == [i \in 1..n |-> Answer(order[i], TRUE)]
  <1>3. log' = log \o suffix BY <1>2
  <1>4. /\ suffix \in Seq(PermissionEvents) /\ Len(suffix) = n
        /\ \A k \in 1..n : suffix[k] = Answer(order[k], TRUE)
    <2>1. pendingPermissions \subseteq Reqs BY DEF PermissionsTypeOK
    <2>2. \A i \in 1..n : order[i] \in Reqs BY <1>2, <2>1 DEF BypassAnswers
    <2>3. \A i \in 1..n : Answer(order[i], TRUE) \in PermissionEvents
      BY <2>2, EventsAre
    <2>4. suffix \in [1..n -> PermissionEvents] BY <2>3
    <2>5. \A k \in 1..n : suffix[k] = Answer(order[k], TRUE) OBVIOUS
    <2> HIDE DEF suffix
    <2>6. suffix \in Seq(PermissionEvents) BY <1>1, <2>4
    <2>7. Len(suffix) = n BY <1>1, <2>4, <2>6, LenProperties
    <2> QED BY <2>5, <2>6, <2>7
  <1> HIDE DEF suffix
  <1>5. log \in Seq(PermissionEvents) /\ Len(log) \in Nat BY LogIsSeq DEF PermissionsTypeOK
  <1>6. /\ log' \in Seq(PermissionEvents)
        /\ Len(log') = Len(log) + n
        /\ \A i \in 1..Len(log) + n :
             log'[i] = IF i <= Len(log) THEN log[i] ELSE suffix[i - Len(log)]
    BY <1>3, <1>4, <1>5, ConcatProperties
  <1>7. /\ \A i \in 1..Len(log) : log'[i] = log[i]
        /\ \A k \in 1..n : log'[Len(log) + k] = Answer(order[k], TRUE)
    <2>1. ASSUME NEW i \in 1..Len(log) PROVE log'[i] = log[i]
      BY <1>1, <1>5, <1>6
    <2>2. ASSUME NEW k \in 1..n PROVE log'[Len(log) + k] = Answer(order[k], TRUE)
      <3>1. Len(log) + k \in 1..Len(log) + n /\ ~(Len(log) + k <= Len(log))
            /\ Len(log) + k - Len(log) = k
        BY <1>1, <1>5
      <3>2. log'[Len(log) + k] = suffix[Len(log) + k - Len(log)] BY <1>6, <3>1
      <3> QED BY <1>4, <3>1, <3>2
    <2> QED BY <2>1, <2>2
  <1>8. \A k, l \in 1..n : order[k] = order[l] => k = l
    <2>1. \A r \in BypassAnswers : \E i \in 1..n : order[i] = r BY <1>2
    <2>2. order \in Surjection(1..n, BypassAnswers) BY <1>2, <2>1 DEF Surjection
    <2>3. IsFiniteSet(1..n) /\ Cardinality(1..n) = n BY <1>1, FS_Interval
    <2>4. order \in Injection(1..n, BypassAnswers)
      BY <2>2, <2>3, FS_SurjSameCardinalityImpliesInj DEF n
    <2> QED BY <2>4 DEF Injection, IsInjective
  <1>9. permissionMode' \in BOOLEAN /\ cliMode' \in BOOLEAN
    BY DEF SetPermissionMode, PermissionsTypeOK
  <1>10. Answering(BypassAnswers, TRUE, n, order)
    BY <1>2, <1>6, <1>7, <1>8, <1>9 DEF Answering, SetPermissionMode
  <1> QED BY <1>1, <1>10

(* What appending answers does to requests and answers.                    *)
LEMMA AnsweringLog ==
    ASSUME PermissionsTypeOK, NEW rs \in SUBSET Reqs, NEW allow \in BOOLEAN, NEW n \in Nat,
           NEW order \in [1..n -> rs], Answering(rs, allow, n, order),
           NEW r \in Reqs
    PROVE  /\ \A i \in 1..Len(log') : Asked(r, i)' <=> Asked(r, i)
           /\ r \notin rs => \A i \in 1..Len(log') : Answers(r, i)' <=> Answers(r, i)
           /\ r \in rs => /\ \E i \in 1..Len(log') : Answers(r, i)'
                          /\ \A i \in 1..Len(log') : Answers(r, i)' =>
                               Answers(r, i) \/ (i > Len(log) /\ log'[i] = Answer(r, allow))
           /\ \A i, j \in 1..Len(log') :
                i > Len(log) /\ j > Len(log) /\ Answers(r, i)' /\ Answers(r, j)' => i = j
           /\ \A i \in 1..Len(log'), a \in BOOLEAN : log'[i] = Answer(r, a) =>
                (i \in 1..Len(log) /\ log[i] = Answer(r, a)) \/ (r \in rs /\ a = allow)
  <1>1. /\ Len(log) \in Nat /\ Len(log') = Len(log) + n
        /\ \A i \in 1..Len(log) : log'[i] = log[i]
        /\ \A k \in 1..n : log'[Len(log) + k] = Answer(order[k], allow)
        /\ \A t \in rs : \E k \in 1..n : order[k] = t
        /\ \A k, l \in 1..n : order[k] = order[l] => k = l
    BY LogIsSeq DEF Answering
  <1>2. ASSUME NEW i \in 1..Len(log'), i > Len(log)
        PROVE  i - Len(log) \in 1..n /\ log'[i] = Answer(order[i - Len(log)], allow)
    <2>1. i - Len(log) \in 1..n /\ Len(log) + (i - Len(log)) = i BY <1>1, <1>2
    <2> QED BY <1>1, <2>1
  <1>3. ASSUME NEW i \in 1..Len(log'), ~(i > Len(log))
        PROVE  i \in 1..Len(log) /\ log'[i] = log[i]
    BY <1>1, <1>3
  <1>4. ASSUME NEW i \in 1..Len(log') PROVE Asked(r, i)' <=> Asked(r, i)
    <2>1. CASE i > Len(log)
      <3>1. log'[i] = Answer(order[i - Len(log)], allow) BY <1>2, <2>1
      <3>2. log'[i] # AskedFor(r) BY <3>1, EventsDiffer
      <3> QED BY <1>1, <2>1, <3>2 DEF Asked
    <2>2. CASE ~(i > Len(log)) BY <1>3, <2>2 DEF Asked
    <2> QED BY <2>1, <2>2
  <1>5. ASSUME NEW i \in 1..Len(log'), NEW a \in BOOLEAN, log'[i] = Answer(r, a)
        PROVE  \/ i \in 1..Len(log) /\ log[i] = Answer(r, a)
               \/ i > Len(log) /\ r = order[i - Len(log)] /\ r \in rs /\ a = allow
    <2>1. CASE i > Len(log)
      <3>1. i - Len(log) \in 1..n /\ Answer(order[i - Len(log)], allow) = Answer(r, a)
        BY <1>2, <1>5, <2>1
      <3>2. r = order[i - Len(log)] /\ a = allow BY <3>1, EventsDiffer
      <3> QED BY <2>1, <3>1, <3>2
    <2>2. CASE ~(i > Len(log)) BY <1>3, <1>5, <2>2
    <2> QED BY <2>1, <2>2
  <1>6. ASSUME NEW i \in 1..Len(log'), Answers(r, i)
        PROVE  Answers(r, i)'
    BY <1>1, <1>6 DEF Answers
  <1>7. ASSUME NEW i \in 1..Len(log'), Answers(r, i)'
        PROVE  Answers(r, i) \/ (/\ i > Len(log) /\ r = order[i - Len(log)] /\ r \in rs
                                 /\ log'[i] = Answer(r, allow))
    <2>1. PICK a \in BOOLEAN : log'[i] = Answer(r, a) BY <1>7 DEF Answers
    <2> QED BY <1>5, <2>1 DEF Answers
  <1>8. r \in rs => \E i \in 1..Len(log') : Answers(r, i)'
    <2> SUFFICES ASSUME r \in rs PROVE \E i \in 1..Len(log') : Answers(r, i)'
      OBVIOUS
    <2>1. PICK k \in 1..n : order[k] = r BY <1>1
    <2>2. Len(log) + k \in 1..Len(log') BY <1>1
    <2>3. log'[Len(log) + k] = Answer(r, allow) BY <1>1, <2>1
    <2> QED BY <2>2, <2>3 DEF Answers
  <1>9. ASSUME NEW i \in 1..Len(log'), NEW j \in 1..Len(log'), i > Len(log), j > Len(log),
               Answers(r, i)', Answers(r, j)'
        PROVE  i = j
    <2>1. ~Answers(r, i) /\ ~Answers(r, j) BY <1>1, <1>9 DEF Answers
    <2>2. r = order[i - Len(log)] /\ r = order[j - Len(log)] BY <1>7, <1>9, <2>1
    <2>3. i - Len(log) \in 1..n /\ j - Len(log) \in 1..n BY <1>2, <1>9
    <2>4. i - Len(log) = j - Len(log) BY <1>1, <2>2, <2>3
    <2> QED BY <1>1, <2>4
  <1>10. r \notin rs => \A i \in 1..Len(log') : Answers(r, i)' <=> Answers(r, i)
    BY <1>6, <1>7
  <1>11. r \in rs => \A i \in 1..Len(log') : Answers(r, i)' =>
           Answers(r, i) \/ (i > Len(log) /\ log'[i] = Answer(r, allow))
    BY <1>7
  <1>12. \A i \in 1..Len(log'), a \in BOOLEAN : log'[i] = Answer(r, a) =>
           (i \in 1..Len(log) /\ log[i] = Answer(r, a)) \/ (r \in rs /\ a = allow)
    BY <1>5
  <1> QED BY <1>4, <1>8, <1>9, <1>10, <1>11, <1>12

-----------------------------------------------------------------------------
(* The steps                                                               *)

(* An answer, or a bypass that gives several, keeps the invariant.         *)
LEMMA AnsweringStep ==
    ASSUME PermissionsInv, NEW rs \in SUBSET pendingPermissions, NEW allow \in BOOLEAN,
           NEW n \in Nat, NEW order \in [1..n -> rs], Answering(rs, allow, n, order)
    PROVE  PermissionsInv'
  <1>0. PermissionsTypeOK /\ pendingPermissions \subseteq Reqs /\ rs \in SUBSET Reqs
        /\ Len(log) \in Nat
    BY LogIsSeq DEF PermissionsInv, PermissionsTypeOK
  <1>1. /\ pendingPermissions' = pendingPermissions \ rs
        /\ call' = [r \in Reqs |-> IF r \in rs /\ call[r] = "waiting"
                                   THEN (IF allow THEN "allowed" ELSE "denied") ELSE call[r]]
        /\ announced' = announced \ rs
        /\ sends \subseteq sends' /\ misled \subseteq misled'
        /\ sends' \subseteq sends \cup {Resolved(r) : r \in rs \cap announced}
        /\ misled' \subseteq misled \cup (rs \cap announced)
        /\ \A r \in rs \cap announced : Resolved(r) \in sends' \/ r \in misled'
        /\ UNCHANGED <<from, drawn, wants, kept, notices, replaced, deaths, lost>>
        /\ log' \in Seq(PermissionEvents) /\ Len(log') = Len(log) + n
        /\ permissionMode' \in BOOLEAN /\ cliMode' \in BOOLEAN
    BY DEF Answering, Settle, PushAnswered, panelVars
  <1>2. ASSUME NEW r \in Reqs
        PROVE  /\ WasAsked(r)' <=> WasAsked(r)
               /\ r \notin rs => (WasAnswered(r)' <=> WasAnswered(r))
               /\ r \in rs => WasAnswered(r)' /\ ~WasAnswered(r)
    <2>0. 1..Len(log) \subseteq 1..Len(log') BY <1>0, <1>1
    <2>1. /\ \A i \in 1..Len(log') : Asked(r, i)' <=> Asked(r, i)
          /\ r \notin rs => \A i \in 1..Len(log') : Answers(r, i)' <=> Answers(r, i)
          /\ r \in rs => \E i \in 1..Len(log') : Answers(r, i)'
      BY <1>0, AnsweringLog, ZenonT(40)
    <2>2. r \in rs => ~WasAnswered(r) BY DEF PermissionsInv, Together
    <2>3. WasAsked(r)' <=> WasAsked(r) BY <2>0, <2>1 DEF WasAsked, Asked
    <2>4. r \notin rs => (WasAnswered(r)' <=> WasAnswered(r))
      BY <2>0, <2>1 DEF WasAnswered, Answers
    <2>5. r \in rs => WasAnswered(r)' BY <2>1 DEF WasAnswered
    <2> QED BY <2>2, <2>3, <2>4, <2>5
  <1>3. PermissionsTypeOK'
    <2>1. from' \in 1..(Len(log') + 1) /\ drawn' \in 0..Len(log')
      BY <1>0, <1>1 DEF PermissionsTypeOK
    <2>2. call' \in [Reqs -> {"none", "waiting", "allowed", "denied", "gone"}]
      BY <1>0, <1>1 DEF PermissionsTypeOK
    <2>3. sends' \cup kept' \subseteq [kind : {"attention", "resolved"}, req : Reqs]
      BY <1>0, <1>1 DEF PermissionsTypeOK, Attention, Resolved
    <2>4. /\ pendingPermissions' \cup announced' \cup notices' \cup lost' \cup misled' \cup replaced'
               \subseteq Reqs
          /\ {permissionMode', cliMode', wants'} \subseteq BOOLEAN
      BY <1>0, <1>1 DEF PermissionsTypeOK
    <2>5. deaths' \in Nat BY <1>0, <1>1 DEF PermissionsTypeOK
    <2> QED BY <1>1, <2>1, <2>2, <2>3, <2>4, <2>5 DEF PermissionsTypeOK
  <1>4. Together'
    <2>1. IsFiniteSet(pendingPermissions') /\ announced' \subseteq pendingPermissions'
      BY <1>1, FS_Subset DEF PermissionsInv, Together
    <2>2. ASSUME NEW r \in Reqs
          PROVE  /\ call'[r] = "waiting" => r \in pendingPermissions'
                 /\ r \in pendingPermissions' => call'[r] \in {"waiting", "gone"} /\ ~WasAnswered(r)'
                 /\ call'[r] = "none" => ~WasAsked(r)' /\ ~WasAnswered(r)'
      BY <1>0, <1>1, <1>2 DEF PermissionsInv, Together, PermissionsTypeOK
    <2> QED BY <2>1, <2>2 DEF Together
  <1>5. AnswersFit'
    <2> SUFFICES ASSUME NEW r \in Reqs
                 PROVE  /\ \A i, j \in 1..Len(log') : /\ Asked(r, i)' /\ Answers(r, j)' => i < j
                                                      /\ Answers(r, i)' /\ Answers(r, j)' => i = j
                        /\ WasAsked(r)' => r \in pendingPermissions' \cup lost' \/ WasAnswered(r)'
                        /\ call'[r] = "allowed" => \A i \in 1..Len(log') : log'[i] # Answer(r, FALSE)
                        /\ call'[r] = "denied" => \A i \in 1..Len(log') : log'[i] # Answer(r, TRUE)
      BY DEF AnswersFit
    <2>f. /\ \A i, j \in 1..Len(log) : /\ Asked(r, i) /\ Answers(r, j) => i < j
                                       /\ Answers(r, i) /\ Answers(r, j) => i = j
          /\ WasAsked(r) => r \in pendingPermissions \cup lost \/ WasAnswered(r)
          /\ call[r] = "allowed" => \A i \in 1..Len(log) : log[i] # Answer(r, FALSE)
          /\ call[r] = "denied" => \A i \in 1..Len(log) : log[i] # Answer(r, TRUE)
      BY DEF PermissionsInv, AnswersFit
    <2>l. /\ \A i \in 1..Len(log') : Asked(r, i)' <=> Asked(r, i)
          /\ r \notin rs => \A i \in 1..Len(log') : Answers(r, i)' <=> Answers(r, i)
          /\ r \in rs => \A i \in 1..Len(log') : Answers(r, i)' => Answers(r, i) \/ i > Len(log)
          /\ \A i, j \in 1..Len(log') :
                i > Len(log) /\ j > Len(log) /\ Answers(r, i)' /\ Answers(r, j)' => i = j
          /\ \A i \in 1..Len(log'), a \in BOOLEAN : log'[i] = Answer(r, a) =>
               (i \in 1..Len(log) /\ log[i] = Answer(r, a)) \/ (r \in rs /\ a = allow)
      BY <1>0, AnsweringLog, ZenonT(40)
    <2>a. \A i : Asked(r, i) => i \in 1..Len(log) BY DEF Asked
    <2>b. \A i : Answers(r, i) => i \in 1..Len(log) BY DEF Answers
    <2>c. r \in rs => \A i : ~Answers(r, i)
      BY <1>2, <2>b DEF WasAnswered
    <2>1. ASSUME NEW i \in 1..Len(log'), NEW j \in 1..Len(log'), Asked(r, i)', Answers(r, j)'
          PROVE  i < j
      BY <1>0, <2>1, <2>f, <2>l, <2>a, <2>b
    <2>2. ASSUME NEW i \in 1..Len(log'), NEW j \in 1..Len(log'), Answers(r, i)', Answers(r, j)'
          PROVE  i = j
      <3>1. CASE r \in rs BY <2>2, <2>l, <2>c, <3>1
      <3>2. CASE r \notin rs BY <2>2, <2>f, <2>l, <2>b, <3>2
      <3> QED BY <3>1, <3>2
    <2>3. WasAsked(r)' => r \in pendingPermissions' \cup lost' \/ WasAnswered(r)'
      BY <1>1, <1>2, <2>f
    <2>4. r \in rs => call[r] \in {"waiting", "gone"} BY DEF PermissionsInv, Together
    <2>5. \A i \in 1..Len(log), a \in BOOLEAN : r \in rs => log[i] # Answer(r, a)
      BY <2>c DEF Answers
    <2>6. ASSUME call'[r] = "allowed", NEW i \in 1..Len(log') PROVE log'[i] # Answer(r, FALSE)
      <3>1. CASE r \in rs
        <4>1. allow BY <1>1, <2>4, <2>6, <3>1
        <4> QED BY <2>l, <2>5, <3>1, <4>1
      <3>2. CASE r \notin rs
        <4>1. call[r] = "allowed" BY <1>1, <2>6, <3>2
        <4> QED BY <2>l, <2>f, <3>2, <4>1
      <3> QED BY <3>1, <3>2
    <2>7. ASSUME call'[r] = "denied", NEW i \in 1..Len(log') PROVE log'[i] # Answer(r, TRUE)
      <3>1. CASE r \in rs
        <4>1. ~allow BY <1>1, <2>4, <2>7, <3>1
        <4> QED BY <2>l, <2>5, <3>1, <4>1
      <3>2. CASE r \notin rs
        <4>1. call[r] = "denied" BY <1>1, <2>7, <3>2
        <4> QED BY <2>l, <2>f, <3>2, <4>1
      <3> QED BY <3>1, <3>2
    <2> QED BY <2>1, <2>2, <2>3, <2>6, <2>7
  <1>6. PhoneFollows'
    <2>o. OneIsHeld' BY <1>1 DEF PermissionsInv, PhoneFollows, OneIsHeld
    <2> SUFFICES ASSUME NEW r \in Reqs
                 PROVE  /\ r \notin misled' \cup replaced' /\ WasAnswered(r)'
                           /\ (r \in notices' \/ Attention(r) \in sends' \cup kept') =>
                             Resolved(r) \in sends' \cup kept'
                        /\ r \notin misled' /\ ~WasAnswered(r)'
                           /\ (r \in notices' \/ Attention(r) \in sends' \cup kept') => r \in announced'
                        /\ Resolved(r) \in sends' \cup kept' => WasAnswered(r)'
                        /\ r \notin misled' /\ Resolved(r) \in kept' => Attention(r) \notin sends'
      BY <2>o DEF PhoneFollows, WithdrawalIsSent, ShownIsAnnounced, WithdrawalFollows
    <2>1. Attention(r) \in sends' => Attention(r) \in sends
      BY <1>1, NoticesDiffer
    <2>2. Resolved(r) \in sends' => Resolved(r) \in sends \/ r \in rs
      BY <1>1, NoticesDiffer
    <2>3. /\ r \notin misled \cup replaced /\ WasAnswered(r)
             /\ (r \in notices \/ Attention(r) \in sends \cup kept) => Resolved(r) \in sends \cup kept
          /\ r \notin misled /\ ~WasAnswered(r)
             /\ (r \in notices \/ Attention(r) \in sends \cup kept) => r \in announced
          /\ Resolved(r) \in sends \cup kept => WasAnswered(r)
          /\ r \notin misled /\ Resolved(r) \in kept => Attention(r) \notin sends
      BY DEF PermissionsInv, PhoneFollows, WithdrawalIsSent, ShownIsAnnounced, WithdrawalFollows
    <2>4. CASE r \in rs
      <3>1. WasAnswered(r)' /\ ~WasAnswered(r) BY <1>2, <2>4
      <3>2. r \in announced => Resolved(r) \in sends' \/ r \in misled' BY <1>1, <2>4
      <3> QED BY <1>1, <2>1, <2>3, <3>1, <3>2
    <2>5. CASE r \notin rs
      <3>1. WasAnswered(r)' <=> WasAnswered(r) BY <1>2, <2>5
      <3> QED BY <1>1, <2>1, <2>2, <2>3, <2>5, <3>1
    <2> QED BY <2>4, <2>5
  <1> QED BY <1>3, <1>4, <1>5, <1>6 DEF PermissionsInv

(* A new request keeps the invariant.                                      *)
LEMMA AskStep ==
    ASSUME PermissionsInv, NEW q \in Reqs, CanUseTool(q)
    PROVE  PermissionsInv'
  <1>0. PermissionsTypeOK /\ Len(log) \in Nat BY LogIsSeq DEF PermissionsInv
  <1>1. /\ call[q] = "none" /\ call' = [call EXCEPT ![q] = "waiting"]
        /\ pendingPermissions' = pendingPermissions \cup {q}
        /\ announced' \subseteq announced \cup {q} /\ announced \subseteq announced' \cup misled'
        /\ misled \subseteq misled' /\ misled' \subseteq misled \cup announced
        /\ sends' = sends \/ (sends' = sends \cup {Attention(q)} /\ q \in announced')
        /\ UNCHANGED <<permissionMode, cliMode, from, drawn, wants, kept, notices, replaced, deaths, lost>>
    <2>1. PushAsked(q) BY DEF CanUseTool
    <2>2. q \notin announced BY DEF CanUseTool, PermissionsInv, Together
    <2>3. Forgotten \subseteq announced BY DEF Forgotten
    <2>4. CASE wants BY <2>1, <2>2, <2>3, <2>4 DEF CanUseTool, PushAsked, panelVars
    <2>5. CASE ~wants BY <2>1, <2>5 DEF CanUseTool, PushAsked, panelVars, pushVars
    <2> QED BY <2>4, <2>5
  <1>2. /\ log' \in Seq(PermissionEvents)
        /\ Len(log') = Len(log) + 1
        /\ \A i \in 1..Len(log) : log'[i] = log[i]
        /\ log'[Len(log) + 1] = AskedFor(q)
    BY <1>0, AskGrows DEF CanUseTool
  <1>3. \A i \in 1..Len(log') : i \in 1..Len(log) \/ i = Len(log) + 1 BY <1>0, <1>2
  <1>4. 1..Len(log) \subseteq 1..Len(log') /\ Len(log) + 1 \in 1..Len(log')
        /\ Len(log) + 1 \notin 1..Len(log)
    BY <1>0, <1>2
  <1>5. ASSUME NEW r \in Reqs
        PROVE  /\ \A i \in 1..Len(log') : Answers(r, i)' <=> Answers(r, i)
               /\ r # q => \A i \in 1..Len(log') : Asked(r, i)' <=> Asked(r, i)
               /\ WasAnswered(r)' <=> WasAnswered(r)
               /\ r # q => (WasAsked(r)' <=> WasAsked(r))
               /\ \A i \in 1..Len(log'), a \in BOOLEAN :
                    log'[i] = Answer(r, a) => i \in 1..Len(log) /\ log[i] = Answer(r, a)
    <2>1. \A a \in BOOLEAN : log'[Len(log) + 1] # Answer(r, a) BY <1>2, EventsDiffer
    <2>2. r # q => log'[Len(log) + 1] # AskedFor(r) BY <1>2, EventsDiffer
    <2>3. \A i \in 1..Len(log') : Answers(r, i)' <=> Answers(r, i)
      BY <1>2, <1>3, <1>4, <2>1 DEF Answers
    <2>4. r # q => \A i \in 1..Len(log') : Asked(r, i)' <=> Asked(r, i)
      BY <1>2, <1>3, <1>4, <2>2 DEF Asked
    <2>5. WasAnswered(r)' <=> WasAnswered(r) BY <1>4, <2>3 DEF WasAnswered, Answers
    <2>6. r # q => (WasAsked(r)' <=> WasAsked(r)) BY <1>4, <2>4 DEF WasAsked, Asked
    <2>7. \A i \in 1..Len(log'), a \in BOOLEAN :
            log'[i] = Answer(r, a) => i \in 1..Len(log) /\ log[i] = Answer(r, a)
      BY <1>2, <1>3, <2>1
    <2> QED BY <2>3, <2>4, <2>5, <2>6, <2>7
  <1>6. ~WasAnswered(q) /\ ~WasAsked(q) BY <1>1 DEF PermissionsInv, Together
  <1>7. PermissionsTypeOK'
    <2>1. from' \in 1..(Len(log') + 1) /\ drawn' \in 0..Len(log')
      BY <1>0, <1>1, <1>2 DEF PermissionsTypeOK
    <2>2. call' \in [Reqs -> {"none", "waiting", "allowed", "denied", "gone"}]
      BY <1>0, <1>1 DEF PermissionsTypeOK
    <2>3. sends' \cup kept' \subseteq [kind : {"attention", "resolved"}, req : Reqs]
      BY <1>0, <1>1 DEF PermissionsTypeOK, Attention, Resolved
    <2>4. /\ pendingPermissions' \cup announced' \cup notices' \cup lost' \cup misled' \cup replaced'
               \subseteq Reqs
          /\ {permissionMode', cliMode', wants'} \subseteq BOOLEAN
      BY <1>0, <1>1 DEF PermissionsTypeOK
    <2>5. deaths' \in Nat BY <1>0, <1>1 DEF PermissionsTypeOK
    <2> QED BY <1>2, <2>1, <2>2, <2>3, <2>4, <2>5 DEF PermissionsTypeOK
  <1>8. Together'
    <2>1. IsFiniteSet(pendingPermissions') /\ announced' \subseteq pendingPermissions'
      BY <1>1, FS_AddElement DEF PermissionsInv, Together
    <2>2. ASSUME NEW r \in Reqs
          PROVE  /\ call'[r] = "waiting" => r \in pendingPermissions'
                 /\ r \in pendingPermissions' => call'[r] \in {"waiting", "gone"} /\ ~WasAnswered(r)'
                 /\ call'[r] = "none" => ~WasAsked(r)' /\ ~WasAnswered(r)'
      BY <1>0, <1>1, <1>5, <1>6 DEF PermissionsInv, Together, PermissionsTypeOK
    <2> QED BY <2>1, <2>2 DEF Together
  <1>9. AnswersFit'
    <2> SUFFICES ASSUME NEW r \in Reqs
                 PROVE  /\ \A i, j \in 1..Len(log') : /\ Asked(r, i)' /\ Answers(r, j)' => i < j
                                                      /\ Answers(r, i)' /\ Answers(r, j)' => i = j
                        /\ WasAsked(r)' => r \in pendingPermissions' \cup lost' \/ WasAnswered(r)'
                        /\ call'[r] = "allowed" => \A i \in 1..Len(log') : log'[i] # Answer(r, FALSE)
                        /\ call'[r] = "denied" => \A i \in 1..Len(log') : log'[i] # Answer(r, TRUE)
      BY DEF AnswersFit
    <2>f. /\ \A i, j \in 1..Len(log) : /\ Asked(r, i) /\ Answers(r, j) => i < j
                                       /\ Answers(r, i) /\ Answers(r, j) => i = j
          /\ WasAsked(r) => r \in pendingPermissions \cup lost \/ WasAnswered(r)
          /\ call[r] = "allowed" => \A i \in 1..Len(log) : log[i] # Answer(r, FALSE)
          /\ call[r] = "denied" => \A i \in 1..Len(log) : log[i] # Answer(r, TRUE)
      BY DEF PermissionsInv, AnswersFit
    <2>a. \A i : Asked(r, i) => i \in 1..Len(log) BY DEF Asked
    <2>b. \A i : Answers(r, i) => i \in 1..Len(log) BY DEF Answers
    <2>c. r = q => \A i : ~Answers(r, i) BY <1>6, <2>b DEF WasAnswered
    <2>1. ASSUME NEW i \in 1..Len(log'), NEW j \in 1..Len(log'), Asked(r, i)', Answers(r, j)'
          PROVE  i < j
      BY <1>5, <2>1, <2>f, <2>a, <2>b, <2>c
    <2>2. ASSUME NEW i \in 1..Len(log'), NEW j \in 1..Len(log'), Answers(r, i)', Answers(r, j)'
          PROVE  i = j
      BY <1>5, <2>2, <2>f, <2>b
    <2>3. WasAsked(r)' => r \in pendingPermissions' \cup lost' \/ WasAnswered(r)'
      BY <1>1, <1>5, <2>f
    <2>4. call'[r] \in {"allowed", "denied"} => call'[r] = call[r]
      BY <1>0, <1>1 DEF PermissionsTypeOK
    <2>5. /\ call'[r] = "allowed" => \A i \in 1..Len(log') : log'[i] # Answer(r, FALSE)
          /\ call'[r] = "denied" => \A i \in 1..Len(log') : log'[i] # Answer(r, TRUE)
      BY <1>5, <2>f, <2>4
    <2> QED BY <2>1, <2>2, <2>3, <2>5
  <1>10. PhoneFollows'
    <2>o. OneIsHeld' BY <1>1 DEF PermissionsInv, PhoneFollows, OneIsHeld
    <2> SUFFICES ASSUME NEW r \in Reqs
                 PROVE  /\ r \notin misled' \cup replaced' /\ WasAnswered(r)'
                           /\ (r \in notices' \/ Attention(r) \in sends' \cup kept') =>
                             Resolved(r) \in sends' \cup kept'
                        /\ r \notin misled' /\ ~WasAnswered(r)'
                           /\ (r \in notices' \/ Attention(r) \in sends' \cup kept') => r \in announced'
                        /\ Resolved(r) \in sends' \cup kept' => WasAnswered(r)'
                        /\ r \notin misled' /\ Resolved(r) \in kept' => Attention(r) \notin sends'
      BY <2>o DEF PhoneFollows, WithdrawalIsSent, ShownIsAnnounced, WithdrawalFollows
    <2>1. Attention(r) \in sends' => Attention(r) \in sends \/ (r = q /\ q \in announced')
      BY <1>1, NoticesDiffer
    <2>2. Resolved(r) \in sends' <=> Resolved(r) \in sends
      BY <1>1, NoticesDiffer
    <2>3. /\ r \notin misled \cup replaced /\ WasAnswered(r)
             /\ (r \in notices \/ Attention(r) \in sends \cup kept) => Resolved(r) \in sends \cup kept
          /\ r \notin misled /\ ~WasAnswered(r)
             /\ (r \in notices \/ Attention(r) \in sends \cup kept) => r \in announced
          /\ Resolved(r) \in sends \cup kept => WasAnswered(r)
          /\ r \notin misled /\ Resolved(r) \in kept => Attention(r) \notin sends
      BY DEF PermissionsInv, PhoneFollows, WithdrawalIsSent, ShownIsAnnounced, WithdrawalFollows
    <2>4. WasAnswered(r)' <=> WasAnswered(r) BY <1>5
    <2>5. r = q => ~WasAnswered(r) BY <1>6
    <2> QED BY <1>1, <2>1, <2>2, <2>3, <2>4, <2>5
  <1> QED BY <1>7, <1>8, <1>9, <1>10 DEF PermissionsInv

(* A step that records nothing and answers nothing keeps what is said of   *)
(* the transcript, if it only gives up calls and requests that wait.       *)
LEMMA QuietStep ==
    ASSUME PermissionsInv, UNCHANGED log, PermissionsTypeOK',
           \A r \in Reqs : call'[r] = IF call[r] = "waiting" THEN "gone" ELSE call[r],
           pendingPermissions' = {} \/ pendingPermissions' = pendingPermissions,
           announced' \subseteq pendingPermissions',
           pendingPermissions \cup lost \subseteq pendingPermissions' \cup lost'
    PROVE  Together' /\ AnswersFit'
  <1>1. ASSUME NEW r \in Reqs
        PROVE  /\ \A i : Asked(r, i)' <=> Asked(r, i)
               /\ \A i : Answers(r, i)' <=> Answers(r, i)
               /\ WasAsked(r)' <=> WasAsked(r)
               /\ WasAnswered(r)' <=> WasAnswered(r)
    BY DEF Asked, Answers, WasAsked, WasAnswered
  <1>2. IsFiniteSet(pendingPermissions') BY FS_EmptySet DEF PermissionsInv, Together
  <1>3. Together'
    BY <1>1, <1>2 DEF PermissionsInv, Together
  <1>4. AnswersFit' BY <1>1 DEF PermissionsInv, AnswersFit
  <1> QED BY <1>3, <1>4

(* Every step keeps the invariant.                                         *)
LEMMA PermissionsStep == PermissionsInv /\ [PermissionsNext]_permissionsVars => PermissionsInv'
  <1> SUFFICES ASSUME PermissionsInv, [PermissionsNext]_permissionsVars PROVE PermissionsInv'
    OBVIOUS
  <1>0. PermissionsTypeOK /\ Together /\ AnswersFit /\ PhoneFollows
        /\ Len(log) \in Nat
    BY LogIsSeq DEF PermissionsInv
  <1>s. ASSUME UNCHANGED <<log, call, pendingPermissions, announced, lost>>
        PROVE  /\ Together' /\ AnswersFit'
               /\ \A r \in Reqs : WasAnswered(r)' <=> WasAnswered(r)
               /\ UNCHANGED <<sends, kept, notices, misled, replaced>> => PhoneFollows'
    <2>1. ASSUME NEW r \in Reqs
          PROVE  /\ \A i : Asked(r, i)' <=> Asked(r, i)
                 /\ \A i : Answers(r, i)' <=> Answers(r, i)
                 /\ WasAsked(r)' <=> WasAsked(r)
                 /\ WasAnswered(r)' <=> WasAnswered(r)
      BY <1>s DEF Asked, Answers, WasAsked, WasAnswered
    <2>2. Together' BY <1>0, <1>s, <2>1 DEF Together
    <2>3. AnswersFit' BY <1>0, <1>s, <2>1 DEF AnswersFit
    <2>4. UNCHANGED <<sends, kept, notices, misled, replaced>> => PhoneFollows'
      BY <1>0, <1>s, <2>1
      DEF PhoneFollows, WithdrawalIsSent, ShownIsAnnounced, WithdrawalFollows, OneIsHeld
    <2> QED BY <2>1, <2>2, <2>3, <2>4
  <1>1. ASSUME NEW r \in Reqs, CanUseTool(r) PROVE PermissionsInv' BY <1>1, AskStep
  <1>2. ASSUME NEW r \in Reqs, NEW allow \in BOOLEAN, Click(r, allow) PROVE PermissionsInv'
    <2>1. /\ {r} \in SUBSET pendingPermissions
          /\ \E order \in [1..1 -> {r}] : Answering({r}, allow, 1, order)
      BY <1>0, <1>2, ClickAnswers
    <2> QED BY <2>1, AnsweringStep
  <1>3. CASE SetPermissionMode(TRUE)
    <2>1. \E n \in Nat : \E order \in [1..n -> BypassAnswers] :
            Answering(BypassAnswers, TRUE, n, order)
      BY <1>0, <1>3, BypassAnswersOnce
    <2>2. BypassAnswers \in SUBSET pendingPermissions BY DEF BypassAnswers
    <2> QED BY <2>1, <2>2, AnsweringStep
  <1>4. CASE SetPermissionMode(FALSE) \/ CliTakesMode
    <2>1. /\ UNCHANGED <<log, call, pendingPermissions, announced, lost>>
          /\ UNCHANGED <<from, drawn, wants, sends, kept, notices, misled, replaced, deaths>>
      BY <1>4 DEF SetPermissionMode, CliTakesMode, askVars, panelVars, phoneVars, pushVars
    <2>2. permissionMode' \in BOOLEAN /\ cliMode' \in BOOLEAN
      BY <1>0, <1>4 DEF SetPermissionMode, CliTakesMode, PermissionsTypeOK
    <2>3. PermissionsTypeOK' BY <1>0, <2>1, <2>2 DEF PermissionsTypeOK
    <2> QED BY <1>s, <2>1, <2>3 DEF PermissionsInv
  <1>5. CASE CliGoes
    <2>1. /\ UNCHANGED <<log, pendingPermissions, announced, lost, permissionMode>>
          /\ UNCHANGED <<from, drawn, wants, sends, kept, notices, misled, replaced>>
          /\ deaths' = deaths + 1
          /\ call' = [r \in Reqs |-> IF call[r] = "waiting" THEN "gone" ELSE call[r]]
          /\ cliMode' = permissionMode
      BY <1>5 DEF CliGoes, panelVars, phoneVars, pushVars
    <2>2. PermissionsTypeOK' BY <1>0, <2>1 DEF PermissionsTypeOK
    <2>3. Together' /\ AnswersFit' BY <1>0, <2>1, <2>2, QuietStep DEF Together
    <2>4. \A r \in Reqs : WasAnswered(r)' <=> WasAnswered(r) BY <2>1 DEF WasAnswered, Answers
    <2>5. PhoneFollows'
      BY <1>0, <2>1, <2>4 DEF PhoneFollows, WithdrawalIsSent, ShownIsAnnounced, WithdrawalFollows, OneIsHeld
    <2> QED BY <2>2, <2>3, <2>5 DEF PermissionsInv
  <1>6. CASE Restart_Permissions
    <2>1. /\ UNCHANGED <<log, permissionMode, from, drawn, wants, sends, kept, notices, replaced>>
          /\ deaths' = deaths + 1
          /\ call' = [r \in Reqs |-> IF call[r] = "waiting" THEN "gone" ELSE call[r]]
          /\ lost' = lost \cup pendingPermissions /\ pendingPermissions' = {}
          /\ misled' = misled \cup announced /\ announced' = {} /\ cliMode' = permissionMode
      BY <1>6 DEF Restart_Permissions, panelVars
    <2>2. PermissionsTypeOK' BY <1>0, <2>1 DEF PermissionsTypeOK
    <2>3. Together' /\ AnswersFit' BY <2>1, <2>2, QuietStep
    <2>4. \A r \in Reqs : WasAnswered(r)' <=> WasAnswered(r) BY <2>1 DEF WasAnswered, Answers
    <2>5. PhoneFollows'
      BY <1>0, <2>1, <2>4 DEF PhoneFollows, WithdrawalIsSent, ShownIsAnnounced, WithdrawalFollows, OneIsHeld
    <2> QED BY <2>2, <2>3, <2>5 DEF PermissionsInv
  <1>7. CASE Draw \/ Reload
    <2>1. /\ UNCHANGED <<log, call, pendingPermissions, announced, lost>>
          /\ UNCHANGED <<permissionMode, cliMode, wants, sends, kept, notices, misled, replaced, deaths>>
      BY <1>7 DEF Draw, Reload, askVars, phoneVars, pushVars
    <2>2. from' \in 1..(Len(log') + 1) /\ drawn' \in 0..Len(log')
      <3>1. CASE Draw BY <1>0, <2>1, <3>1 DEF Draw, PermissionsTypeOK
      <3>2. CASE Reload
        <4>1. REPLAYED \in Nat \ {0} BY PermissionsAssumption
        <4>2. drawn' \in 0..Len(log') BY <1>0, <2>1, <3>2 DEF Reload
        <4>3. from' \in 1..(Len(log') + 1) BY <1>0, <2>1, <3>2, <4>1 DEF Reload
        <4> QED BY <4>2, <4>3
      <3> QED BY <1>7, <3>1, <3>2
    <2>3. PermissionsTypeOK' BY <1>0, <2>1, <2>2 DEF PermissionsTypeOK
    <2> QED BY <1>s, <2>1, <2>3 DEF PermissionsInv
  <1>8. ASSUME NEW m \in sends \cup kept,
               \/ m \in sends /\ (Accept(m) \/ SendFails(m))
               \/ m \in kept /\ Deliver(m)
        PROVE  PermissionsInv'
    <2>1. /\ UNCHANGED <<log, call, pendingPermissions, announced, lost>>
          /\ UNCHANGED <<permissionMode, cliMode, from, drawn, deaths>>
          /\ sends' \subseteq sends /\ sends \subseteq sends' \cup {m}
      BY <1>8 DEF Accept, Deliver, SendFails, askVars, panelVars, pushVars
    <2>2. m \in [kind : {"attention", "resolved"}, req : Reqs] BY <1>0 DEF PermissionsTypeOK
    <2>3. /\ m = Attention(m.req) \/ m = Resolved(m.req)
          /\ m.req \in Reqs
          /\ m.kind = "resolved" <=> m = Resolved(m.req)
      BY <2>2 DEF Attention, Resolved
    <2>4. PermissionsTypeOK'
      <3>1. /\ notices' \cup misled' \cup replaced' \subseteq Reqs
            /\ wants' \in BOOLEAN
            /\ kept' \subseteq kept \cup {m}
        BY <1>0, <1>8, <2>3 DEF PermissionsTypeOK, Accept, Deliver, SendFails, pushVars
      <3> QED BY <1>0, <2>1, <2>2, <3>1 DEF PermissionsTypeOK
    <2>5. PhoneFollows'
      <3>o. OneIsHeld' BY <1>0, <1>8 DEF PhoneFollows, OneIsHeld, Accept, Deliver, SendFails
      <3> SUFFICES ASSUME NEW r \in Reqs
                   PROVE  /\ r \notin misled' \cup replaced' /\ WasAnswered(r)'
                             /\ (r \in notices' \/ Attention(r) \in sends' \cup kept') =>
                               Resolved(r) \in sends' \cup kept'
                          /\ r \notin misled' /\ ~WasAnswered(r)'
                             /\ (r \in notices' \/ Attention(r) \in sends' \cup kept') => r \in announced'
                          /\ Resolved(r) \in sends' \cup kept' => WasAnswered(r)'
                          /\ r \notin misled' /\ Resolved(r) \in kept' => Attention(r) \notin sends'
        BY <3>o DEF PhoneFollows, WithdrawalIsSent, ShownIsAnnounced, WithdrawalFollows
      <3>1. WasAnswered(r)' <=> WasAnswered(r) BY <1>s, <2>1
      <3>2. /\ r \notin misled \cup replaced /\ WasAnswered(r)
               /\ (r \in notices \/ Attention(r) \in sends \cup kept) => Resolved(r) \in sends \cup kept
            /\ r \notin misled /\ ~WasAnswered(r)
               /\ (r \in notices \/ Attention(r) \in sends \cup kept) => r \in announced
            /\ Resolved(r) \in sends \cup kept => WasAnswered(r)
            /\ r \notin misled /\ Resolved(r) \in kept => Attention(r) \notin sends
        BY <1>0 DEF PhoneFollows, WithdrawalIsSent, ShownIsAnnounced, WithdrawalFollows, OneIsHeld
      <3>3. /\ m = Attention(r) \/ m = Resolved(r) => m.req = r
            /\ m = Attention(r) => m # Resolved(r)
        BY NoticesDiffer
      <3>4. CASE m \in sends /\ Accept(m)
        <4>1. /\ sends' = sends \ {m} /\ kept' = {m} /\ notices' = notices
              /\ misled \subseteq misled' /\ replaced \subseteq replaced'
              /\ m.kind = "resolved" /\ Attention(m.req) \in sends => m.req \in misled'
              /\ \A n \in kept : n.kind = "resolved" => n.req \in replaced'
          BY <3>4 DEF Accept
        <4>2. Resolved(r) \in kept => r \in replaced' BY <4>1, NoticesDiffer
        <4>3. m = Resolved(r) /\ Attention(r) \in sends => r \in misled' BY <4>1, NoticesDiffer
        <4> QED BY <2>1, <3>1, <3>2, <3>4, <4>1, <4>2, <4>3
      <3>5. CASE m \in sends /\ SendFails(m)
        <4>1. /\ sends' = sends \ {m} /\ kept' = kept /\ notices' = notices
              /\ misled' = misled \cup {m.req} /\ replaced' = replaced
          BY <3>5 DEF SendFails
        <4> QED BY <2>1, <3>1, <3>2, <3>3, <3>5, <4>1
      <3>6. CASE m \in kept /\ Deliver(m)
        <4>1. /\ sends' = sends /\ kept' = kept \ {m} /\ misled' = misled /\ replaced' = replaced
              /\ notices' = IF m.kind = "attention" THEN notices \cup {m.req} ELSE notices \ {m.req}
          BY <3>6 DEF Deliver, pushVars
        <4>2. CASE m = Attention(m.req)
          <5>1. notices' = notices \cup {m.req} BY <4>1, <4>2, NoticesDiffer
          <5>2. r = m.req => Attention(r) \in kept BY <3>6, <4>2
          <5>3. Resolved(r) # m BY <4>2, NoticesDiffer
          <5> QED BY <2>1, <3>1, <3>2, <4>1, <5>1, <5>2, <5>3
        <4>3. CASE m = Resolved(m.req) /\ m.req = r
          <5>1. notices' = notices \ {r} /\ WasAnswered(r) BY <3>2, <3>6, <4>1, <4>3, NoticesDiffer
          <5>2. r \notin misled => Attention(r) \notin sends BY <3>2, <3>6, <4>3
          <5>3. Attention(r) \notin kept' BY <1>0, <3>6, <4>1, <4>3 DEF PhoneFollows, OneIsHeld
          <5> QED BY <2>1, <3>1, <3>2, <4>1, <5>1, <5>2, <5>3
        <4>4. CASE m = Resolved(m.req) /\ m.req # r
          <5>1. notices' = notices \ {m.req} BY <4>1, <4>4, NoticesDiffer
          <5>2. Resolved(r) # m BY <4>4, NoticesDiffer
          <5> QED BY <2>1, <3>1, <3>2, <4>1, <4>4, <5>1, <5>2
        <4> QED BY <2>3, <4>2, <4>3, <4>4
      <3> QED BY <1>8, <3>4, <3>5, <3>6
    <2> QED BY <1>s, <2>1, <2>4, <2>5 DEF PermissionsInv
  <1>9. CASE UNCHANGED permissionsVars
    <2>1. /\ UNCHANGED <<log, call, pendingPermissions, announced, lost>>
          /\ UNCHANGED <<permissionMode, cliMode, from, drawn, wants, sends, kept, notices, misled,
                         replaced, deaths>>
      BY <1>9 DEF permissionsVars, askVars, panelVars, phoneVars, pushVars
    <2>2. PermissionsTypeOK' BY <1>0, <2>1 DEF PermissionsTypeOK
    <2> QED BY <1>s, <2>1, <2>2 DEF PermissionsInv
  <1>10. ASSUME NEW bypass \in BOOLEAN, SetPermissionMode(bypass) PROVE PermissionsInv'
    BY <1>3, <1>4, <1>10
  <1>11. ASSUME NEW attention \in BOOLEAN, RegisterPush(attention) PROVE PermissionsInv'
    <2>1. /\ UNCHANGED <<log, call, pendingPermissions, announced, lost>>
          /\ UNCHANGED <<permissionMode, cliMode, from, drawn, sends, kept, notices, misled, replaced,
                         deaths>>
          /\ wants' \in BOOLEAN
      BY <1>11 DEF RegisterPush, askVars, panelVars, pushVars
    <2>2. PermissionsTypeOK' BY <1>0, <2>1 DEF PermissionsTypeOK
    <2> QED BY <1>s, <2>1, <2>2 DEF PermissionsInv
  <1> QED
    BY <1>1, <1>2, <1>4, <1>5, <1>6, <1>7, <1>8, <1>9, <1>10, <1>11 DEF PermissionsNext

(* Nothing was asked yet.                                                  *)
LEMMA PermissionsInitInv == PermissionsInit => PermissionsInv
  <1> SUFFICES ASSUME PermissionsInit PROVE PermissionsInv
    OBVIOUS
  <1>1. log \in Seq(PermissionEvents) /\ Len(log) = 0 /\ 1..Len(log) = {}
    BY EmptySeq DEF PermissionsInit
  <1>2. PermissionsTypeOK
    <2>1. call \in [Reqs -> {"none", "waiting", "allowed", "denied", "gone"}]
      BY DEF PermissionsInit
    <2>2. {permissionMode, cliMode, wants} \subseteq BOOLEAN BY DEF PermissionsInit
    <2>3. from \in 1..(Len(log) + 1) /\ drawn \in 0..Len(log) BY <1>1 DEF PermissionsInit
    <2> QED BY <1>1, <2>1, <2>2, <2>3 DEF PermissionsInit, PermissionsTypeOK
  <1>3. Together
    BY <1>1, FS_EmptySet DEF PermissionsInit, Together, WasAsked, WasAnswered
  <1>4. AnswersFit BY <1>1 DEF PermissionsInit, AnswersFit, WasAsked
  <1>5. PhoneFollows
    BY DEF PermissionsInit, PhoneFollows, WithdrawalIsSent, ShownIsAnnounced, WithdrawalFollows, OneIsHeld
  <1> QED BY <1>2, <1>3, <1>4, <1>5 DEF PermissionsInv

-----------------------------------------------------------------------------
(* The promises                                                            *)

(* The inductive invariant holds throughout.                               *)
THEOREM PermissionsInvariant == PermissionsSpec => []PermissionsInv
  BY PermissionsInitInv, PermissionsStep, PTL DEF PermissionsSpec

(* However windows, the phone and mode switches race to answer, the        *)
(* transcript holds at most one answer to a request, the one Claude got,   *)
(* and none as long as the call waits.                                     *)
THEOREM TranscriptTellsTheTruth == PermissionsSpec => []TranscriptIsTrue
  <1>1. ASSUME PermissionsInv PROVE TranscriptIsTrue
    <2>0. Len(log) \in Nat /\ DOMAIN log = 1..Len(log) BY <1>1, LogIsSeq DEF PermissionsInv
    <2> SUFFICES ASSUME NEW r \in Reqs
                 PROVE  /\ call[r] = "waiting" => ~HasAnswered(r, 1, Len(log))
                        /\ call[r] \in {"allowed", "denied"} =>
                             \A i \in DOMAIN log, allow \in BOOLEAN :
                               log[i] = Answer(r, allow) => (call[r] = "allowed") = allow
                        /\ Cardinality({i \in DOMAIN log :
                             log[i] \in {Answer(r, TRUE), Answer(r, FALSE)}}) <= 1
      BY DEF TranscriptIsTrue
    <2>1. call[r] = "waiting" => ~HasAnswered(r, 1, Len(log))
      BY <1>1 DEF PermissionsInv, Together, WasAnswered, Answers, HasAnswered
    <2>2. call[r] = "allowed" => \A i \in DOMAIN log, allow \in BOOLEAN :
                                   log[i] = Answer(r, allow) => allow
      BY <1>1, <2>0 DEF PermissionsInv, AnswersFit
    <2>3. call[r] = "denied" => \A i \in DOMAIN log, allow \in BOOLEAN :
                                  log[i] = Answer(r, allow) => ~allow
      BY <1>1, <2>0 DEF PermissionsInv, AnswersFit
    <2>4. Cardinality({i \in DOMAIN log : log[i] \in {Answer(r, TRUE), Answer(r, FALSE)}}) <= 1
      <3> DEFINE S == {i \in DOMAIN log : log[i] \in {Answer(r, TRUE), Answer(r, FALSE)}}
      <3>1. \A i \in S : i \in 1..Len(log) /\ Answers(r, i) BY <2>0 DEF Answers
      <3>2. \A i, j \in S : i = j BY <1>1, <3>1 DEF PermissionsInv, AnswersFit
      <3> HIDE DEF S
      <3>3. CASE S = {}
        <4>1. Cardinality(S) = 0 BY <3>3, FS_EmptySet
        <4> QED BY <4>1 DEF S
      <3>4. CASE S # {}
        <4>1. PICK i : S = {i} BY <3>2, <3>4
        <4>2. Cardinality(S) = 1 BY <4>1, FS_Singleton
        <4> QED BY <4>2 DEF S
      <3> QED BY <3>3, <3>4
    <2> QED BY <2>1, <2>2, <2>3, <2>4
  <1>2. PermissionsInv => TranscriptIsTrue BY <1>1
  <1> QED BY <1>2, PermissionsInvariant, PTL

(* A panel that has drawn everything pins, of what was replayed to it,     *)
(* exactly what the daemon waits on, and what a restarted one forgot.      *)
THEOREM PinsTellWhatWaits == PermissionsSpec => []PinsAreWhatWaits
  <1>1. ASSUME PermissionsInv, drawn = Len(log)
        PROVE  /\ \A r \in pendingPermissions : HasAsked(r, from, drawn) => r \in Pinned
               /\ Pinned \subseteq pendingPermissions \cup lost
    <2>0. /\ Len(log) \in Nat /\ from \in 1..(Len(log) + 1) /\ pendingPermissions \subseteq Reqs
          /\ from..drawn \subseteq 1..Len(log)
      BY <1>1, LogIsSeq DEF PermissionsInv, PermissionsTypeOK
    <2>1. ASSUME NEW r \in pendingPermissions, HasAsked(r, from, drawn) PROVE r \in Pinned
      <3>1. r \in Reqs /\ ~WasAnswered(r) BY <1>1, <2>0 DEF PermissionsInv, Together
      <3>2. ~HasAnswered(r, from, drawn)
        BY <2>0, <3>1 DEF HasAnswered, WasAnswered, Answers
      <3> QED BY <2>1, <3>1, <3>2 DEF Pinned
    <2>2. ASSUME NEW r \in Pinned PROVE r \in pendingPermissions \cup lost
      <3>1. r \in Reqs /\ HasAsked(r, from, drawn) /\ ~HasAnswered(r, from, drawn) BY DEF Pinned
      <3>2. PICK i \in from..drawn : log[i] = AskedFor(r) BY <3>1 DEF HasAsked
      <3>3. i \in 1..Len(log) /\ Asked(r, i) BY <2>0, <3>2 DEF Asked
      <3>4. ASSUME NEW j \in 1..Len(log), Answers(r, j) PROVE FALSE
        <4>1. i < j BY <1>1, <3>1, <3>3, <3>4 DEF PermissionsInv, AnswersFit
        <4>2. j \in from..drawn BY <1>1, <2>0, <3>2, <4>1
        <4> QED BY <3>1, <3>4, <4>2 DEF Answers, HasAnswered
      <3>5. WasAsked(r) /\ ~WasAnswered(r) BY <3>3, <3>4 DEF WasAsked, WasAnswered
      <3> QED BY <1>1, <3>1, <3>5 DEF PermissionsInv, AnswersFit
    <2> QED BY <2>1, <2>2
  <1>2. PermissionsInv => PinsAreWhatWaits BY <1>1 DEF PinsAreWhatWaits
  <1> QED BY <1>2, PermissionsInvariant, PTL

(* Once nothing is on its way, the phone shows no request that is answered *)
(* unless one of its notices was not sent, failed or was overtaken, or its *)
(* withdrawal was replaced while the phone was away.                       *)
THEOREM NoticesComeDown == PermissionsSpec => []NoticeComesDown
  <1>1. ASSUME PermissionsInv PROVE NoticeComesDown
    <2> SUFFICES ASSUME sends \cup kept = {}, NEW r \in notices \ (misled \cup replaced),
                        HasAnswered(r, 1, Len(log))
                 PROVE  FALSE
      BY DEF NoticeComesDown
    <2>1. r \in Reqs \ (misled \cup replaced) BY <1>1 DEF PermissionsInv, PermissionsTypeOK
    <2>2. WasAnswered(r) BY DEF WasAnswered, Answers, HasAnswered
    <2> QED BY <1>1, <2>1, <2>2 DEF PermissionsInv, PhoneFollows, WithdrawalIsSent
  <1>2. PermissionsInv => NoticeComesDown BY <1>1
  <1> QED BY <1>2, PermissionsInvariant, PTL
=============================================================================
