--------------------------- MODULE EventLogProofs ---------------------------
(***************************************************************************)
(* Proofs about the transcript on disk (EventLog), for every length of the *)
(* tail, every rotation threshold and any number of events, restarts and   *)
(* failed writes.  The readers see the files only through the sequence of  *)
(* their valid events, so the proofs first establish what every step does  *)
(* to that sequence: a rotation leaves it alone, an append adds the event  *)
(* to its end, and an append behind an unended line takes its last away.   *)
(***************************************************************************)
EXTENDS EventLog, SequenceLemmas, FiniteSetTheorems

Lines == Events \cup {Corrupt}

-----------------------------------------------------------------------------
(* The valid events of a file and of the files                             *)

LEMMA EventsAreNotCorrupt ==
    ASSUME NEW e \in Events
    PROVE  e \in Lines /\ e # Corrupt /\ Parse(e) = <<e>>
<1>1. e.seq \in Nat
    BY DEF Events
<1>2. Corrupt.seq = -1
    BY DEF Corrupt
<1>3. e # Corrupt
    BY <1>1, <1>2
<1> QED
    BY <1>3 DEF Lines, Parse

LEMMA ParseFacts ==
    /\ Corrupt \in Lines /\ Parse(Corrupt) = << >>
    /\ \A line \in Lines : Parse(line) \in Seq(Events)
<1>1. Parse(Corrupt) = << >> /\ << >> \in Seq(Events)
    BY EmptySeq DEF Parse
<1>2. ASSUME NEW e \in Events PROVE Parse(e) \in Seq(Events)
    <2>1. Parse(e) = <<e>> /\ <<e>> \in Seq(Events)
        BY EventsAreNotCorrupt
    <2> QED
        BY <2>1
<1> QED
    BY <1>1, <1>2 DEF Lines

LEMMA ValidFacts ==
    ASSUME NEW file \in Seq(Lines)
    PROVE  /\ Valid(file) \in Seq(Events)
           /\ \A line \in Lines : Valid(Append(file, line)) = Valid(file) \o Parse(line)
<1> DEFINE parsed(f) == [i \in 1..Len(f) |-> Parse(f[i])]
<1>1. \A f \in Seq(Lines) : parsed(f) \in Seq(Seq(Events)) /\ Len(parsed(f)) = Len(f)
    <2> SUFFICES ASSUME NEW f \in Seq(Lines)
                 PROVE  parsed(f) \in Seq(Seq(Events)) /\ Len(parsed(f)) = Len(f)
        OBVIOUS
    <2>1. \A i \in 1..Len(f) : Parse(f[i]) \in Seq(Events)
        BY ParseFacts, ElementOfSeq
    <2> QED
        BY <2>1
<1>2. ASSUME NEW line \in Lines
      PROVE  parsed(Append(file, line)) = Append(parsed(file), Parse(line))
    <2>1. /\ Append(file, line) \in Seq(Lines) /\ Len(Append(file, line)) = Len(file) + 1
          /\ \A i \in 1..Len(file) : Append(file, line)[i] = file[i]
          /\ Append(file, line)[Len(file) + 1] = line
        BY AppendProperties
    <2>2. Parse(line) \in Seq(Events)
        BY ParseFacts
    <2>3. /\ Append(parsed(file), Parse(line)) \in Seq(Seq(Events))
          /\ Len(Append(parsed(file), Parse(line))) = Len(file) + 1
          /\ \A i \in 1..Len(file) : Append(parsed(file), Parse(line))[i] = parsed(file)[i]
          /\ Append(parsed(file), Parse(line))[Len(file) + 1] = Parse(line)
        BY <1>1, <2>2, AppendProperties
    <2>4. parsed(Append(file, line)) \in Seq(Seq(Events))
          /\ Len(parsed(Append(file, line))) = Len(file) + 1
        BY <1>1, <2>1
    <2>5. \A i \in 1..(Len(file) + 1) :
            parsed(Append(file, line))[i] = Append(parsed(file), Parse(line))[i]
        <3> TAKE i \in 1..(Len(file) + 1)
        <3>1. parsed(Append(file, line))[i] = Parse(Append(file, line)[i])
            BY <2>1
        <3>2. CASE i = Len(file) + 1
            BY <2>1, <2>3, <3>1, <3>2
        <3>3. CASE i # Len(file) + 1
            <4>1. i \in 1..Len(file)
                BY <3>3
            <4> QED
                BY <2>1, <2>3, <3>1, <4>1
        <3> QED
            BY <3>2, <3>3
    <2> HIDE DEF parsed
    <2> QED
        BY <2>3, <2>4, <2>5, SeqEqual
<1>3. \A f : Valid(f) = FlattenSeq(parsed(f))
    BY Zenon DEF Valid
<1> HIDE DEF parsed
<1>4. Valid(file) \in Seq(Events)
    BY <1>1, <1>3, FlattenType
<1>5. ASSUME NEW line \in Lines PROVE Valid(Append(file, line)) = Valid(file) \o Parse(line)
    <2>1. Parse(line) \in Seq(Events) /\ parsed(file) \in Seq(Seq(Events))
        BY <1>1, ParseFacts
    <2>2. FlattenSeq(Append(parsed(file), Parse(line))) = FlattenSeq(parsed(file)) \o Parse(line)
        BY <2>1, FlattenAppend
    <2> QED
        BY <1>2, <1>3, <2>2
<1> QED
    BY <1>4, <1>5

LEMMA EmptyFile == Valid(<< >>) = << >>
<1>1. [i \in 1..Len(<< >>) |-> Parse((<< >>)[i])] = << >>
    OBVIOUS
<1> QED
    BY <1>1, FlattenEmpty DEF Valid

FilesEvents(files) == FlattenSeq([i \in 1..Len(files) |-> Valid(files[i])])

LEMMA FilesFacts ==
    ASSUME NEW files \in Seq(Seq(Lines))
    PROVE  /\ FilesEvents(files) \in Seq(Events)
           /\ \A f \in Seq(Lines) : FilesEvents(Append(files, f)) = FilesEvents(files) \o Valid(f)
<1> DEFINE read(fs) == [i \in 1..Len(fs) |-> Valid(fs[i])]
<1>1. \A fs \in Seq(Seq(Lines)) : read(fs) \in Seq(Seq(Events)) /\ Len(read(fs)) = Len(fs)
    <2> SUFFICES ASSUME NEW fs \in Seq(Seq(Lines))
                 PROVE  read(fs) \in Seq(Seq(Events)) /\ Len(read(fs)) = Len(fs)
        OBVIOUS
    <2>1. \A i \in 1..Len(fs) : Valid(fs[i]) \in Seq(Events)
        BY ValidFacts, ElementOfSeq
    <2> QED
        BY <2>1
<1>2. ASSUME NEW f \in Seq(Lines)
      PROVE  read(Append(files, f)) = Append(read(files), Valid(f))
    <2>1. /\ Append(files, f) \in Seq(Seq(Lines)) /\ Len(Append(files, f)) = Len(files) + 1
          /\ \A i \in 1..Len(files) : Append(files, f)[i] = files[i]
          /\ Append(files, f)[Len(files) + 1] = f
        BY AppendProperties
    <2>2. Valid(f) \in Seq(Events)
        BY ValidFacts
    <2>3. /\ Append(read(files), Valid(f)) \in Seq(Seq(Events))
          /\ Len(Append(read(files), Valid(f))) = Len(files) + 1
          /\ \A i \in 1..Len(files) : Append(read(files), Valid(f))[i] = read(files)[i]
          /\ Append(read(files), Valid(f))[Len(files) + 1] = Valid(f)
        BY <1>1, <2>2, AppendProperties
    <2>4. read(Append(files, f)) \in Seq(Seq(Events))
          /\ Len(read(Append(files, f))) = Len(files) + 1
        BY <1>1, <2>1
    <2>5. \A i \in 1..(Len(files) + 1) : read(Append(files, f))[i] = Append(read(files), Valid(f))[i]
        <3> TAKE i \in 1..(Len(files) + 1)
        <3>1. read(Append(files, f))[i] = Valid(Append(files, f)[i])
            BY <2>1
        <3>2. CASE i = Len(files) + 1
            BY <2>1, <2>3, <3>1, <3>2
        <3>3. CASE i # Len(files) + 1
            <4>1. i \in 1..Len(files)
                BY <3>3
            <4> QED
                BY <2>1, <2>3, <3>1, <4>1
        <3> QED
            BY <3>2, <3>3
    <2> HIDE DEF read
    <2> QED
        BY <2>3, <2>4, <2>5, SeqEqual
<1>3. \A fs : FilesEvents(fs) = FlattenSeq(read(fs))
    BY Zenon DEF FilesEvents
<1> HIDE DEF read
<1>4. FilesEvents(files) \in Seq(Events)
    BY <1>1, <1>3, FlattenType
<1>5. ASSUME NEW f \in Seq(Lines) PROVE FilesEvents(Append(files, f)) = FilesEvents(files) \o Valid(f)
    <2>1. Valid(f) \in Seq(Events) /\ read(files) \in Seq(Seq(Events))
        BY <1>1, ValidFacts
    <2>2. FlattenSeq(Append(read(files), Valid(f))) = FlattenSeq(read(files)) \o Valid(f)
        BY <2>1, FlattenAppend
    <2> QED
        BY <1>2, <1>3, <2>2
<1> QED
    BY <1>4, <1>5

LEMMA NoFiles == FilesEvents(<< >>) = << >>
<1>1. [i \in 1..Len(<< >>) |-> Valid((<< >>)[i])] = << >>
    OBVIOUS
<1> QED
    BY <1>1, FlattenEmpty DEF FilesEvents

(* What the readers see: the archives' events, then the active file's. *)
LEMMA ValidEventsSplit ==
    ASSUME archives \in Seq(Seq(Lines)), active \in Seq(Lines)
    PROVE  /\ ValidEvents = FilesEvents(archives) \o Valid(active)
           /\ ValidEvents \in Seq(Events)
<1>1. ValidEvents = FilesEvents(Append(archives, active))
    BY DEF ValidEvents, AllLogFiles, FilesEvents
<1>2. ValidEvents = FilesEvents(archives) \o Valid(active)
    BY <1>1, FilesFacts
<1>3. FilesEvents(archives) \in Seq(Events) /\ Valid(active) \in Seq(Events)
    BY FilesFacts, ValidFacts
<1> QED
    BY <1>2, <1>3, ConcatProperties

-----------------------------------------------------------------------------
(* Types                                                                   *)

LogTyped ==
    /\ archives \in Seq(Seq(Lines))
    /\ active \in Seq(Lines)
    /\ unended \in {"no", "fragment", "whole"}
    /\ tail \in Seq(Events) /\ Len(tail) <= MAX_TAIL
    /\ totalCount \in Nat /\ activeCount \in Nat
    /\ offered \in Nat /\ restarts \in Nat /\ faults \in Nat
    /\ life \in {"up", "down", "deleted"}
    /\ written \in Seq(Events)

LEMMA LogConstants ==
    /\ MAX_TAIL \in Nat /\ MAX_TAIL > 0 /\ MaxLogEvents \in Nat
BY EventLogAssumption

(* The newest n of a sequence. *)
LEMMA LastOfFacts ==
    ASSUME NEW S, NEW s \in Seq(S), NEW n \in Nat
    PROVE  /\ LastOf(s, n) \in Seq(S)
           /\ Len(LastOf(s, n)) = IF Len(s) <= n THEN Len(s) ELSE n
           /\ \A i \in 1..Len(LastOf(s, n)) : LastOf(s, n)[i] = s[Len(s) - Len(LastOf(s, n)) + i]
<1> DEFINE m == Max({1, Len(s) - n + 1})
<1>1. Len(s) \in Nat /\ m = IF n >= Len(s) THEN 1 ELSE Len(s) - n + 1
    BY PairMaxMin
<1>2. LastOf(s, n) = SubSeq(s, m, Len(s))
    BY DEF LastOf
<1> HIDE DEF m
<1>3. m \in Nat \ {0} /\ \A i \in m..Len(s) : s[i] \in S
    <2>1. m \in Nat \ {0}
        BY <1>1
    <2>2. \A i \in m..Len(s) : i \in 1..Len(s)
        BY <1>1, <2>1
    <2> QED
        BY <2>1, <2>2, ElementOfSeq
<1>4. /\ SubSeq(s, m, Len(s)) \in Seq(S)
      /\ Len(SubSeq(s, m, Len(s))) = IF m <= Len(s) THEN Len(s) - m + 1 ELSE 0
      /\ \A i \in 1..(Len(s) - m + 1) : SubSeq(s, m, Len(s))[i] = s[m + i - 1]
    BY <1>1, <1>3, SubSeqProperties
<1>5. Len(LastOf(s, n)) = IF Len(s) <= n THEN Len(s) ELSE n
    BY <1>1, <1>2, <1>4
<1>6. Len(LastOf(s, n)) = Len(s) - m + 1
    BY <1>1, <1>5
<1>7. ASSUME NEW i \in 1..Len(LastOf(s, n))
      PROVE  LastOf(s, n)[i] = s[Len(s) - Len(LastOf(s, n)) + i]
    <2>1. i \in 1..(Len(s) - m + 1) /\ m + i - 1 = Len(s) - Len(LastOf(s, n)) + i
        BY <1>1, <1>3, <1>6
    <2> QED
        BY <1>2, <1>4, <2>1
<1> QED
    BY <1>2, <1>4, <1>5, <1>7

(* Cutting the tail of a log is cutting the log. *)
LEMMA TailOfAppend ==
    ASSUME NEW S, NEW s \in Seq(S), NEW e \in S, NEW n \in Nat \ {0}
    PROVE  LastOf(Append(LastOf(s, n), e), n) = LastOf(Append(s, e), n)
<1> DEFINE t == LastOf(s, n)
           a == Append(t, e)
           b == Append(s, e)
           c == LastOf(a, n)
           d == LastOf(b, n)
<1>1. /\ t \in Seq(S) /\ Len(s) \in Nat /\ Len(t) \in Nat
      /\ Len(t) = IF Len(s) <= n THEN Len(s) ELSE n
      /\ \A i \in 1..Len(t) : t[i] = s[Len(s) - Len(t) + i]
    BY LastOfFacts
<1>lengths. Len(s) \in Nat /\ Len(t) \in Nat /\ Len(t) <= Len(s)
    BY <1>1
<1> HIDE DEF t
<1>2. /\ a \in Seq(S) /\ Len(a) = Len(t) + 1
      /\ \A i \in 1..Len(t) : a[i] = t[i]
      /\ a[Len(t) + 1] = e
    BY <1>1, AppendProperties
<1>3. /\ b \in Seq(S) /\ Len(b) = Len(s) + 1
      /\ \A i \in 1..Len(s) : b[i] = s[i]
      /\ b[Len(s) + 1] = e
    BY <1>1, AppendProperties
<1> HIDE DEF a, b
<1>4. /\ c \in Seq(S) /\ Len(c) = IF Len(a) <= n THEN Len(a) ELSE n
      /\ \A i \in 1..Len(c) : c[i] = a[Len(a) - Len(c) + i]
    <2>1. a \in Seq(S) /\ n \in Nat
        BY <1>2
    <2> QED
        BY <2>1, LastOfFacts
<1>5. /\ d \in Seq(S) /\ Len(d) = IF Len(b) <= n THEN Len(b) ELSE n
      /\ \A i \in 1..Len(d) : d[i] = b[Len(b) - Len(d) + i]
    <2>1. b \in Seq(S) /\ n \in Nat
        BY <1>3
    <2> QED
        BY <2>1, LastOfFacts
<1> HIDE DEF c, d
<1>6. Len(c) = Len(d) /\ Len(c) \in Nat
    BY <1>1, <1>2, <1>3, <1>4, <1>5
<1>7. ASSUME NEW i \in 1..Len(c) PROVE c[i] = d[i]
    <2> DEFINE j == Len(a) - Len(c) + i
               k == Len(b) - Len(d) + i
    <2>1. c[i] = a[j] /\ d[i] = b[k]
        BY <1>4, <1>5, <1>6
    <2>2. j = Len(t) + 1 - Len(c) + i /\ k = Len(s) + 1 - Len(c) + i
        BY <1>2, <1>3, <1>6
    <2>3. Len(c) <= Len(t) + 1
        BY <1>1, <1>2, <1>4
    <2>4. i \in Nat /\ 1 <= i /\ i <= Len(c)
        BY <1>6
    <2> HIDE DEF j, k
    <2>5. j \in 1..(Len(t) + 1) /\ k = j + (Len(s) - Len(t))
        <3>1. Len(c) \in Nat
            BY <1>6
        <3>2. i \in Int /\ Len(s) \in Int /\ Len(t) \in Int /\ Len(c) \in Int
            BY <1>lengths, <2>4, <3>1
        <3>3. j \in Int /\ 1 <= j /\ j <= Len(t) + 1
            BY <2>2, <2>3, <2>4, <3>2
        <3>4. k = j + (Len(s) - Len(t))
            BY <2>2, <3>2
        <3> QED
            BY <3>2, <3>3, <3>4
    <2>6. CASE j = Len(t) + 1
        <3>1. k = Len(s) + 1
            BY <1>lengths, <2>5, <2>6
        <3> QED
            BY <1>2, <1>3, <2>1, <2>6, <3>1
    <2>7. CASE j # Len(t) + 1
        <3>1. j \in 1..Len(t) /\ k \in 1..Len(s) /\ k = Len(s) - Len(t) + j
            BY <1>lengths, <2>5, <2>7
        <3>2. a[j] = t[j] /\ b[k] = s[k]
            BY <1>2, <1>3, <3>1
        <3>3. t[j] = s[Len(s) - Len(t) + j]
            BY <1>1, <3>1
        <3> QED
            BY <2>1, <3>1, <3>2, <3>3
    <2> QED
        BY <2>6, <2>7
<1>8. c = d
    BY <1>4, <1>5, <1>6, <1>7, SeqEqual
<1> QED
    BY <1>8 DEF a, b, c, d, t

-----------------------------------------------------------------------------
(* What the steps do to the files                                          *)

(* A rotation moves lines from one file to another: the readers see the    *)
(* archives and `lines`, whether it happens or not.                        *)
LEMMA RotateKeeps ==
    ASSUME archives \in Seq(Seq(Lines)), activeCount \in Nat,
           NEW lines \in Seq(Lines), NEW count \in Nat, NEW ended \in {"no", "fragment", "whole"},
           Rotate(lines, count, ended)
    PROVE  /\ archives' \in Seq(Seq(Lines)) /\ active' \in Seq(Lines)
           /\ unended' \in {"no", "fragment", "whole"} /\ activeCount' \in Nat
           /\ ValidEvents' = FilesEvents(archives) \o Valid(lines)
           /\ unended' = "no" \/ (unended' = ended /\ active' = lines)
<1>1. FilesEvents(archives) \in Seq(Events) /\ Valid(lines) \in Seq(Events)
    BY FilesFacts, ValidFacts
<1>2. CASE archives' = Append(archives, lines) /\ active' = << >> /\ activeCount' = 0 /\ unended' = "no"
    <2>1. archives' \in Seq(Seq(Lines)) /\ active' \in Seq(Lines)
        BY <1>2, AppendProperties, EmptySeq
    <2>2. ValidEvents' = FilesEvents(archives') \o Valid(active')
        <3>1. ValidEvents' = FilesEvents(Append(archives', active'))
            BY DEF ValidEvents, AllLogFiles, FilesEvents
        <3> QED
            BY <2>1, <3>1, FilesFacts
    <2>3. FilesEvents(archives') = FilesEvents(archives) \o Valid(lines)
        BY <1>2, FilesFacts
    <2>4. Valid(active') = << >>
        BY <1>2, EmptyFile
    <2>5. (FilesEvents(archives) \o Valid(lines)) \o << >> = FilesEvents(archives) \o Valid(lines)
        BY <1>1, ConcatProperties, ConcatEmptySeq
    <2> QED
        BY <1>2, <2>1, <2>2, <2>3, <2>4, <2>5
<1>3. CASE UNCHANGED archives /\ active' = lines /\ activeCount' = count /\ unended' = ended
    <2>1. archives' \in Seq(Seq(Lines)) /\ active' \in Seq(Lines)
        BY <1>3
    <2>2. ValidEvents' = FilesEvents(Append(archives', active'))
        BY DEF ValidEvents, AllLogFiles, FilesEvents
    <2>3. ValidEvents' = FilesEvents(archives') \o Valid(active')
        BY <2>1, <2>2, FilesFacts
    <2> QED
        BY <1>3, <2>1, <2>3
<1> QED
    BY <1>2, <1>3, Zenon DEF Rotate

(* A line behind a whole one is an event more; behind an unended one it is *)
(* none, and the unended event is gone.                                    *)
LEMMA WithLineFacts ==
    ASSUME LogTyped, NEW e \in Events, unended = "whole" => active # << >>
    PROVE  /\ WithLine(e) \in Seq(Lines)
           /\ unended = "no" =>
                FilesEvents(archives) \o Valid(WithLine(e)) = Append(ValidEvents, e)
           /\ unended = "fragment" =>
                FilesEvents(archives) \o Valid(WithLine(e)) = ValidEvents
           /\ unended = "whole" =>
                ValidEvents = (FilesEvents(archives) \o Valid(WithLine(e))) \o Parse(active[Len(active)])
<1>1. /\ FilesEvents(archives) \in Seq(Events) /\ Valid(active) \in Seq(Events)
      /\ ValidEvents = FilesEvents(archives) \o Valid(active) /\ ValidEvents \in Seq(Events)
    BY FilesFacts, ValidFacts, ValidEventsSplit DEF LogTyped
<1>2. active \in Seq(Lines) /\ unended \in {"no", "fragment", "whole"}
    BY DEF LogTyped
<1>3. e \in Lines /\ Parse(e) = <<e>> /\ Corrupt \in Lines /\ Parse(Corrupt) = << >>
    BY EventsAreNotCorrupt, ParseFacts
<1>4. CASE unended = "no"
    <2>1. WithLine(e) = Append(active, e)
        BY <1>4 DEF WithLine
    <2>2. WithLine(e) \in Seq(Lines)
        BY <1>2, <1>3, <2>1, AppendProperties
    <2>3. Valid(WithLine(e)) = Valid(active) \o <<e>>
        BY <1>2, <1>3, <2>1, ValidFacts
    <2>4. <<e>> \in Seq(Events)
        OBVIOUS
    <2>5. FilesEvents(archives) \o (Valid(active) \o <<e>>) = ValidEvents \o <<e>>
        BY <1>1, <2>4, ConcatAssociative
    <2>6. ValidEvents \o <<e>> = Append(ValidEvents, e)
        BY <1>1, AppendIsConcat
    <2> QED
        BY <1>4, <2>2, <2>3, <2>5, <2>6
<1>5. CASE unended = "fragment"
    <2>1. WithLine(e) = Append(active, Corrupt)
        BY <1>5 DEF WithLine
    <2>2. WithLine(e) \in Seq(Lines)
        BY <1>2, <1>3, <2>1, AppendProperties
    <2>3. Valid(WithLine(e)) = Valid(active) \o << >>
        BY <1>2, <1>3, <2>1, ValidFacts
    <2>4. Valid(WithLine(e)) = Valid(active)
        BY <1>1, <2>3, ConcatEmptySeq
    <2> QED
        BY <1>1, <1>5, <2>2, <2>4
<1>6. CASE unended = "whole"
    <2> DEFINE front == Front(active)
               last == active[Len(active)]
    <2>1. front \in Seq(Lines) /\ last \in Lines /\ active = Append(front, last)
        BY <1>2, <1>6, FrontFacts
    <2>2. WithLine(e) = Append(front, Corrupt)
        BY <1>6 DEF WithLine
    <2> HIDE DEF front, last
    <2>3. WithLine(e) \in Seq(Lines)
        BY <1>3, <2>1, <2>2, AppendProperties
    <2>4. Valid(WithLine(e)) = Valid(front) \o << >> /\ Valid(front) \in Seq(Events)
        BY <1>3, <2>1, <2>2, ValidFacts
    <2>5. Valid(WithLine(e)) = Valid(front)
        BY <2>4, ConcatEmptySeq
    <2>6. Valid(active) = Valid(front) \o Parse(last) /\ Parse(last) \in Seq(Events)
        BY <2>1, ValidFacts, ParseFacts
    <2>7. ValidEvents = (FilesEvents(archives) \o Valid(front)) \o Parse(last)
        <3>1. (FilesEvents(archives) \o Valid(front)) \o Parse(last)
                = FilesEvents(archives) \o (Valid(front) \o Parse(last))
            BY <1>1, <2>4, <2>6, ConcatAssociative
        <3> QED
            BY <1>1, <2>6, <3>1
    <2> QED
        BY <1>6, <2>3, <2>5, <2>7 DEF last
<1> QED
    BY <1>2, <1>4, <1>5, <1>6

-----------------------------------------------------------------------------
(* Events that are lost                                                    *)

(* The positions of w whose events are not in v. *)
LostOf(w, v) == {i \in 1..Len(w) : \A k \in 1..Len(v) : v[k] # w[i]}

LEMMA LostIsFinite ==
    ASSUME NEW w \in Seq(Events), NEW v
    PROVE  IsFiniteSet(LostOf(w, v)) /\ Cardinality(LostOf(w, v)) \in Nat
<1>1. Len(w) \in Nat /\ LostOf(w, v) \subseteq 1..Len(w)
    BY LenProperties DEF LostOf
<1>2. IsFiniteSet(1..Len(w))
    BY <1>1, FS_Interval
<1> QED
    BY <1>1, <1>2, FS_Subset, FS_CardinalityType

LEMMA LostAtMost ==
    ASSUME NEW w \in Seq(Events), NEW v, NEW L, L \subseteq LostOf(w, v)
    PROVE  Cardinality(L) \in Nat /\ Cardinality(L) <= Cardinality(LostOf(w, v))
BY LostIsFinite, FS_Subset, FS_CardinalityType

LEMMA LostAtMostOneMore ==
    ASSUME NEW w \in Seq(Events), NEW v, NEW x, NEW L, L \subseteq LostOf(w, v) \cup {x}
    PROVE  Cardinality(L) \in Nat /\ Cardinality(L) <= Cardinality(LostOf(w, v)) + 1
<1>1. IsFiniteSet(LostOf(w, v)) /\ Cardinality(LostOf(w, v)) \in Nat
    BY LostIsFinite
<1>2. /\ IsFiniteSet(LostOf(w, v) \cup {x})
      /\ Cardinality(LostOf(w, v) \cup {x}) \in Nat
      /\ Cardinality(LostOf(w, v) \cup {x}) <= Cardinality(LostOf(w, v)) + 1
    <2> DEFINE S == LostOf(w, v)
    <2>1. IsFiniteSet(S) /\ Cardinality(S) \in Nat
        BY <1>1
    <2> HIDE DEF S
    <2>2. /\ IsFiniteSet(S \cup {x})
          /\ Cardinality(S \cup {x}) = IF x \in S THEN Cardinality(S) ELSE Cardinality(S) + 1
        BY <2>1, FS_AddElement
    <2>3. Cardinality(S \cup {x}) \in Nat /\ Cardinality(S \cup {x}) <= Cardinality(S) + 1
        BY <2>1, <2>2
    <2> QED
        BY <2>2, <2>3 DEF S
<1>3. Cardinality(L) \in Nat /\ Cardinality(L) <= Cardinality(LostOf(w, v) \cup {x})
    BY <1>2, FS_Subset, FS_CardinalityType
<1> QED
    BY <1>1, <1>2, <1>3

(* An event more among the valid ones loses none; an event announced that  *)
(* is not among them is one more lost; an event taken from the end of them *)
(* costs nothing if it was never announced.                                *)
LEMMA LostWithOneMore ==
    ASSUME NEW w \in Seq(Events), NEW v \in Seq(Events), NEW e \in Events
    PROVE  /\ LostOf(w, Append(v, e)) \subseteq LostOf(w, v)
           /\ LostOf(Append(w, e), Append(v, e)) \subseteq LostOf(w, v)
           /\ LostOf(Append(w, e), v) \subseteq LostOf(w, v) \cup {Len(w) + 1}
<1>1. /\ Len(w) \in Nat /\ Len(Append(w, e)) = Len(w) + 1
      /\ \A i \in 1..Len(w) : Append(w, e)[i] = w[i]
      /\ Append(w, e)[Len(w) + 1] = e
    BY AppendProperties
<1>2. /\ Len(v) \in Nat /\ Len(Append(v, e)) = Len(v) + 1
      /\ \A i \in 1..Len(v) : Append(v, e)[i] = v[i]
      /\ Append(v, e)[Len(v) + 1] = e
    BY AppendProperties
<1>3. \A x \in Events : (\A k \in 1..(Len(v) + 1) : Append(v, e)[k] # x)
                            => (\A k \in 1..Len(v) : v[k] # x) /\ x # e
    <2> SUFFICES ASSUME NEW x \in Events, \A k \in 1..(Len(v) + 1) : Append(v, e)[k] # x
                 PROVE  (\A k \in 1..Len(v) : v[k] # x) /\ x # e
        OBVIOUS
    <2>1. Len(v) + 1 \in 1..(Len(v) + 1) /\ \A k \in 1..Len(v) : k \in 1..(Len(v) + 1)
        BY <1>2
    <2> QED
        BY <1>2, <2>1
<1>4. \A i \in 1..Len(w) : w[i] \in Events
    BY ElementOfSeq
<1>5. LostOf(w, Append(v, e)) \subseteq LostOf(w, v)
    BY <1>2, <1>3, <1>4 DEF LostOf
<1>6. ASSUME NEW i \in LostOf(Append(w, e), Append(v, e)) PROVE i \in LostOf(w, v)
    <2>1. i \in 1..(Len(w) + 1) /\ \A k \in 1..(Len(v) + 1) : Append(v, e)[k] # Append(w, e)[i]
        BY <1>1, <1>2 DEF LostOf
    <2>2. i # Len(w) + 1
        <3>1. Len(v) + 1 \in 1..(Len(v) + 1)
            BY <1>2
        <3> QED
            BY <1>1, <1>2, <2>1, <3>1
    <2>3. i \in 1..Len(w)
        BY <1>1, <2>1, <2>2
    <2>4. \A k \in 1..Len(v) : v[k] # w[i]
        BY <1>1, <1>3, <1>4, <2>1, <2>3
    <2> QED
        BY <2>3, <2>4 DEF LostOf
<1>7. ASSUME NEW i \in LostOf(Append(w, e), v) PROVE i \in LostOf(w, v) \cup {Len(w) + 1}
    <2>1. i \in 1..(Len(w) + 1) /\ \A k \in 1..Len(v) : v[k] # Append(w, e)[i]
        BY <1>1 DEF LostOf
    <2>2. CASE i = Len(w) + 1
        BY <2>2
    <2>3. CASE i # Len(w) + 1
        <3>1. i \in 1..Len(w)
            BY <1>1, <2>1, <2>3
        <3> QED
            BY <1>1, <2>1, <3>1 DEF LostOf
    <2> QED
        BY <2>2, <2>3
<1> QED
    BY <1>5, <1>6, <1>7

LEMMA LostWithoutTheLast ==
    ASSUME NEW w \in Seq(Events), NEW u \in Seq(Events), NEW line \in Lines,
           \A i \in 1..Len(w) : line # w[i]
    PROVE  LostOf(w, u) \subseteq LostOf(w, u \o Parse(line))
<1> DEFINE v == u \o Parse(line)
<1>1. Parse(line) \in Seq(Events) /\ Len(Parse(line)) \in Nat
      /\ \A k \in 1..Len(Parse(line)) : Parse(line)[k] = line
    BY ParseFacts, LenProperties DEF Parse
<1>2. /\ Len(u) \in Nat /\ Len(v) = Len(u) + Len(Parse(line))
      /\ \A k \in 1..(Len(u) + Len(Parse(line))) :
            v[k] = IF k <= Len(u) THEN u[k] ELSE Parse(line)[k - Len(u)]
    BY <1>1, ConcatProperties, LenProperties
<1> HIDE DEF v
<1>3. ASSUME NEW i \in LostOf(w, u), NEW k \in 1..Len(v) PROVE v[k] # w[i]
    <2>1. i \in 1..Len(w) /\ \A j \in 1..Len(u) : u[j] # w[i]
        BY DEF LostOf
    <2>2. CASE k <= Len(u)
        <3>1. k \in 1..Len(u) /\ v[k] = u[k]
            BY <1>1, <1>2, <2>2
        <3> QED
            BY <2>1, <3>1
    <2>3. CASE ~(k <= Len(u))
        <3>1. k - Len(u) \in 1..Len(Parse(line)) /\ v[k] = Parse(line)[k - Len(u)]
            BY <1>1, <1>2, <2>3
        <3> QED
            BY <1>1, <2>1, <3>1
    <2> QED
        BY <2>2, <2>3
<1>4. \A i \in LostOf(w, u) : i \in 1..Len(w)
    BY DEF LostOf
<1>5. LostOf(w, u) \subseteq LostOf(w, v)
    BY <1>3, <1>4 DEF LostOf
<1> QED
    BY <1>5 DEF v

-----------------------------------------------------------------------------
(* The inductive invariant                                                 *)

(* Events are numbered as they are offered, and the event whose newline is *)
(* missing was announced to nobody.                                        *)
LogCounted ==
    /\ Len(written) <= offered /\ offered <= MaxLogEvents
    /\ \A i \in 1..Len(written) : written[i].no < offered
    /\ unended = "whole" =>
         /\ active # << >>
         /\ \A i \in 1..Len(written) : active[Len(active)] # written[i]

(* As long as every write succeeded the files hold what was announced, and *)
(* the daemon in memory the end of it and its length.                      *)
LogExact ==
    faults = 0 /\ life # "deleted" =>
        /\ unended = "no" /\ ValidEvents = written
        /\ life = "up" => tail = LastOf(written, MAX_TAIL) /\ totalCount = Len(written)

(* A fault whose unended line still waits for its victim has cost nothing  *)
(* yet.                                                                    *)
LogLost ==
    life # "deleted" =>
        Cardinality(Lost) + (IF unended = "no" THEN 0 ELSE 1) <= faults

LogInv == LogTyped /\ LogCounted /\ LogExact /\ LogLost /\ RetryIsRecordedOnce

LEMMA LostIs == Lost = LostOf(written, ValidEvents) /\ Lost' = LostOf(written', ValidEvents')
BY DEF Lost, LostOf

LEMMA LogInitInv == LogInit => LogInv
<1> SUFFICES ASSUME LogInit PROVE LogInv
    OBVIOUS
<1> USE DEF LogInit
<1>1. archives = << >> /\ active = << >> /\ tail = << >> /\ written = << >>
    BY DEF LogInit
<1>2. LogTyped
    BY <1>1, EmptySeq, LogConstants DEF LogTyped
<1>3. Len(written) = 0 /\ \A i \in 1..Len(written) : FALSE
    BY <1>1
<1>4. LogCounted
    BY <1>3, LogConstants DEF LogCounted
<1>5. ValidEvents = << >>
    <2>1. ValidEvents = FilesEvents(archives) \o Valid(active)
        BY <1>2, ValidEventsSplit DEF LogTyped
    <2>2. FilesEvents(archives) = << >> /\ Valid(active) = << >>
        BY <1>1, NoFiles, EmptyFile
    <2> QED
        BY <2>1, <2>2, EmptySeq, ConcatEmptySeq
<1>6. LogExact
    <2>1. Len(LastOf(written, MAX_TAIL)) = 0 /\ LastOf(written, MAX_TAIL) \in Seq(Events)
        BY <1>2, <1>3, LastOfFacts, LogConstants DEF LogTyped
    <2>2. LastOf(written, MAX_TAIL) = << >>
        BY <2>1, EmptySeq
    <2> QED
        BY <1>1, <1>3, <1>5, <2>2 DEF LogExact
<1>7. LogLost
    <2>1. Lost = {}
        BY <1>3 DEF Lost
    <2> QED
        BY <2>1, FS_EmptySet DEF LogLost
<1>8. RetryIsRecordedOnce
    BY <1>3 DEF RetryIsRecordedOnce
<1> QED
    BY <1>2, <1>4, <1>6, <1>7, <1>8 DEF LogInv

(* The event offered next. *)
LEMMA EventIsNew ==
    ASSUME LogTyped, LogCounted, NEW mid \in MsgIds \cup {NoMsg}
    PROVE  /\ Event(mid) \in Events /\ Event(mid).no = offered /\ Event(mid).mid = mid
           /\ \A i \in 1..Len(written) : Event(mid) # written[i]
<1>1. totalCount \in Nat /\ offered \in Nat
    BY DEF LogTyped
<1>2. Event(mid) \in Events /\ Event(mid).no = offered /\ Event(mid).mid = mid
    BY <1>1 DEF Event, Events
<1>3. ASSUME NEW i \in 1..Len(written) PROVE Event(mid) # written[i]
    <2>1. written[i].no < offered /\ written[i] \in Events
        BY ElementOfSeq DEF LogCounted, LogTyped
    <2>2. written[i].no \in Nat
        BY <2>1 DEF Events
    <2> QED
        BY <1>1, <1>2, <2>1, <2>2
<1> QED
    BY <1>2, <1>3

LEMMA TailIsCut ==
    ASSUME LogTyped, NEW e \in Events
    PROVE  LastOf(Append(tail, e), MAX_TAIL) \in Seq(Events)
           /\ Len(LastOf(Append(tail, e), MAX_TAIL)) <= MAX_TAIL
<1>1. Append(tail, e) \in Seq(Events) /\ Len(Append(tail, e)) \in Nat
    BY AppendProperties, LenProperties DEF LogTyped
<1>2. MAX_TAIL \in Nat
    BY LogConstants
<1>3. /\ LastOf(Append(tail, e), MAX_TAIL) \in Seq(Events)
      /\ Len(LastOf(Append(tail, e), MAX_TAIL))
            = IF Len(Append(tail, e)) <= MAX_TAIL THEN Len(Append(tail, e)) ELSE MAX_TAIL
    BY <1>1, <1>2, LastOfFacts
<1> QED
    BY <1>1, <1>2, <1>3

-----------------------------------------------------------------------------
(* The steps                                                               *)

(* Files, memory and announcement, in one synchronous step.                *)
LEMMA AppendEventStep ==
    ASSUME LogInv, Offer, NEW mid \in MsgIds \cup {NoMsg}, AppendEvent(mid),
           mid # NoMsg => ~HasClientMessage(mid)
    PROVE  LogInv'
<1> DEFINE e == Event(mid)
           seen == FilesEvents(archives) \o Valid(WithLine(e))
<1>1. LogTyped /\ LogCounted /\ LogExact /\ LogLost /\ RetryIsRecordedOnce
    BY DEF LogInv
<1>2. /\ life = "up" /\ offered < MaxLogEvents /\ offered' = offered + 1
      /\ tail' = LastOf(Append(tail, e), MAX_TAIL) /\ totalCount' = totalCount + 1
      /\ Rotate(WithLine(e), activeCount + 1, "no")
      /\ written' = Append(written, e)
      /\ life' = life /\ restarts' = restarts /\ faults' = faults
    BY Zenon DEF Offer, AppendEvent
<1>3. /\ e \in Events /\ e.no = offered /\ e.mid = mid
      /\ \A i \in 1..Len(written) : e # written[i]
    BY <1>1, EventIsNew
<1> HIDE DEF e
<1>4. /\ archives \in Seq(Seq(Lines)) /\ active \in Seq(Lines)
      /\ unended \in {"no", "fragment", "whole"} /\ activeCount \in Nat /\ totalCount \in Nat
      /\ offered \in Nat /\ faults \in Nat /\ restarts \in Nat
      /\ written \in Seq(Events) /\ tail \in Seq(Events)
    BY <1>1 DEF LogTyped
<1>5. unended = "whole" => active # << >>
    BY <1>1 DEF LogCounted
<1>6. /\ WithLine(e) \in Seq(Lines)
      /\ unended = "no" => seen = Append(ValidEvents, e)
      /\ unended = "fragment" => seen = ValidEvents
      /\ unended = "whole" => ValidEvents = seen \o Parse(active[Len(active)])
    BY <1>1, <1>3, <1>5, WithLineFacts
<1>7. /\ archives' \in Seq(Seq(Lines)) /\ active' \in Seq(Lines)
      /\ unended' = "no" /\ activeCount' \in Nat /\ ValidEvents' = seen
    <2>1. activeCount + 1 \in Nat /\ "no" \in {"no", "fragment", "whole"}
        BY <1>4
    <2> QED
        BY <1>2, <1>4, <1>6, <2>1, RotateKeeps
<1>8. ValidEvents \in Seq(Events) /\ seen \in Seq(Events)
    <2>1. FilesEvents(archives) \in Seq(Events) /\ Valid(WithLine(e)) \in Seq(Events)
        BY <1>4, <1>6, FilesFacts, ValidFacts
    <2> QED
        BY <1>4, <2>1, ValidEventsSplit, ConcatProperties
<1> HIDE DEF seen
<1>9. /\ written' \in Seq(Events) /\ Len(written') = Len(written) + 1 /\ Len(written) \in Nat
      /\ \A i \in 1..Len(written) : written'[i] = written[i]
      /\ written'[Len(written) + 1] = e
    BY <1>2, <1>3, <1>4, AppendProperties, LenProperties
<1>10. LogTyped'
    <2>1. tail' \in Seq(Events) /\ Len(tail') <= MAX_TAIL
        BY <1>1, <1>2, <1>3, TailIsCut
    <2> QED
        BY <1>2, <1>4, <1>7, <1>9, <2>1 DEF LogTyped
<1>11. LogCounted'
    <2>1. Len(written') <= offered' /\ offered' <= MaxLogEvents
        BY <1>1, <1>2, <1>4, <1>9, LogConstants DEF LogCounted
    <2>2. ASSUME NEW i \in 1..Len(written') PROVE written'[i].no < offered'
        <3>1. CASE i = Len(written) + 1
            BY <1>2, <1>3, <1>4, <1>9, <3>1
        <3>2. CASE i # Len(written) + 1
            <4>1. i \in 1..Len(written)
                BY <1>9, <3>2
            <4>2. written[i].no < offered /\ written[i].no \in Nat
                <5>1. written[i] \in Events
                    BY <1>4, <4>1, ElementOfSeq
                <5>2. written[i].no \in Nat
                    BY <5>1 DEF Events
                <5> QED
                    BY <1>1, <4>1, <5>2 DEF LogCounted
            <4> QED
                BY <1>2, <1>4, <1>9, <4>1, <4>2
        <3> QED
            BY <3>1, <3>2
    <2> QED
        BY <1>7, <2>1, <2>2 DEF LogCounted
<1>12. LogExact'
    <2> SUFFICES ASSUME faults = 0
                 PROVE  /\ ValidEvents' = written'
                        /\ tail' = LastOf(written', MAX_TAIL) /\ totalCount' = Len(written')
        BY <1>2, <1>7 DEF LogExact
    <2>1. /\ unended = "no" /\ ValidEvents = written
          /\ tail = LastOf(written, MAX_TAIL) /\ totalCount = Len(written)
        BY <1>1, <1>2 DEF LogExact
    <2>2. LastOf(Append(LastOf(written, MAX_TAIL), e), MAX_TAIL)
            = LastOf(Append(written, e), MAX_TAIL)
        BY <1>3, <1>4, TailOfAppend, LogConstants
    <2> QED
        BY <1>2, <1>6, <1>7, <1>9, <2>1, <2>2
<1>13. LogLost'
    <2>1. Cardinality(LostOf(written, ValidEvents)) + (IF unended = "no" THEN 0 ELSE 1) <= faults
        BY <1>1, <1>2, LostIs DEF LogLost
    <2>2. Cardinality(LostOf(written, ValidEvents)) \in Nat
        BY <1>4, LostIsFinite
    <2>3. Cardinality(LostOf(written', seen)) <= faults
        <3>1. CASE unended = "no"
            <4>1. LostOf(written', seen) \subseteq LostOf(written, ValidEvents)
                BY <1>2, <1>3, <1>4, <1>6, <1>8, <3>1, LostWithOneMore
            <4>2. /\ Cardinality(LostOf(written', seen)) \in Nat
                  /\ Cardinality(LostOf(written', seen)) <= Cardinality(LostOf(written, ValidEvents))
                BY <1>4, <4>1, LostAtMost
            <4> QED
                BY <1>4, <2>1, <2>2, <3>1, <4>2
        <3>2. CASE unended # "no"
            <4>1. LostOf(written, seen) \subseteq LostOf(written, ValidEvents)
                <5>1. CASE unended = "fragment"
                    BY <1>6, <5>1
                <5>2. CASE unended = "whole"
                    <6>1. active[Len(active)] \in Lines
                        BY <1>4, <1>5, <5>2, FrontFacts
                    <6>2. \A i \in 1..Len(written) : active[Len(active)] # written[i]
                        BY <1>1, <5>2 DEF LogCounted
                    <6> QED
                        BY <1>4, <1>6, <1>8, <5>2, <6>1, <6>2, LostWithoutTheLast
                <5> QED
                    BY <1>4, <3>2, <5>1, <5>2
            <4>2. LostOf(written', seen) \subseteq LostOf(written, seen) \cup {Len(written) + 1}
                BY <1>2, <1>3, <1>4, <1>8, LostWithOneMore
            <4>3. LostOf(written', seen) \subseteq LostOf(written, ValidEvents) \cup {Len(written) + 1}
                BY <4>1, <4>2
            <4>4. /\ Cardinality(LostOf(written', seen)) \in Nat
                  /\ Cardinality(LostOf(written', seen)) <= Cardinality(LostOf(written, ValidEvents)) + 1
                BY <1>4, <4>3, LostAtMostOneMore
            <4> QED
                BY <1>4, <2>1, <2>2, <3>2, <4>4
        <3> QED
            BY <3>1, <3>2
    <2>4. Lost' = LostOf(written', seen)
        BY <1>7, LostIs
    <2>5. Cardinality(LostOf(written', seen)) \in Nat
        BY <1>9, LostIsFinite
    <2>6. Cardinality(LostOf(written', seen)) + 0 <= faults
        BY <2>3, <2>5
    <2> QED
        BY <1>2, <1>7, <2>4, <2>6 DEF LogLost
<1>14. RetryIsRecordedOnce'
    <2> SUFFICES ASSUME faults = 0, NEW i \in 1..Len(written'), NEW j \in 1..Len(written'),
                        i < j, written'[i].mid # NoMsg, written'[i].mid = written'[j].mid
                 PROVE  j - i > MAX_TAIL
        BY <1>2 DEF RetryIsRecordedOnce
    <2>1. i \in 1..Len(written) /\ written'[i] = written[i]
        BY <1>9
    <2>2. CASE j = Len(written) + 1
        <3>1. written[i].mid = mid /\ mid # NoMsg
            BY <1>3, <1>9, <2>1, <2>2
        <3>2. tail = LastOf(written, MAX_TAIL) /\ \A k \in 1..Len(tail) : tail[k].mid # mid
            BY <1>1, <1>2, <3>1 DEF LogExact, HasClientMessage
        <3>3. /\ Len(tail) = IF Len(written) <= MAX_TAIL THEN Len(written) ELSE MAX_TAIL
              /\ \A k \in 1..Len(tail) : tail[k] = written[Len(written) - Len(tail) + k]
            BY <1>4, <3>2, LastOfFacts, LogConstants
        <3>4. ASSUME ~(j - i > MAX_TAIL) PROVE FALSE
            <4> DEFINE k == i - (Len(written) - Len(tail))
            <4>0. Len(tail) \in Nat /\ MAX_TAIL \in Nat
                BY <1>4, LenProperties, LogConstants
            <4>1. k \in 1..Len(tail) /\ Len(written) - Len(tail) + k = i
                <5>1. Len(tail) = IF Len(written) <= MAX_TAIL THEN Len(written) ELSE MAX_TAIL
                    BY <3>3
                <5>2. Len(written) \in Nat /\ i \in Nat /\ 1 <= i /\ i <= Len(written)
                    BY <1>9, <2>1
                <5>3. Len(written) + 1 - i <= MAX_TAIL
                    BY <2>2, <3>4, <4>0, <5>2
                <5>4. k \in Int /\ 1 <= k /\ k <= Len(tail)
                    BY <4>0, <5>1, <5>2, <5>3
                <5>5. Len(written) - Len(tail) + k = i
                    BY <4>0, <5>2
                <5> QED
                    BY <4>0, <5>4, <5>5
            <4> HIDE DEF k
            <4>2. tail[k] = written[i]
                BY <3>3, <4>1
            <4> QED
                BY <3>1, <3>2, <4>1, <4>2
        <3> QED
            BY <3>4
    <2>3. CASE j # Len(written) + 1
        <3>1. j \in 1..Len(written) /\ written'[j] = written[j]
            BY <1>9, <2>3
        <3> QED
            BY <1>1, <2>1, <3>1 DEF RetryIsRecordedOnce
    <2> QED
        BY <2>2, <2>3
<1> QED
    BY <1>10, <1>11, <1>12, <1>13, <1>14 DEF LogInv

(* Memory runs ahead of the file, which ReadsAreExact no longer promises   *)
(* anything about: a fault is counted.                                     *)
LEMMA AppendFailsStep ==
    ASSUME LogInv, Offer, NEW mid \in MsgIds \cup {NoMsg}, AppendFails(mid)
    PROVE  LogInv'
<1>1. LogTyped /\ LogCounted /\ LogLost
    BY DEF LogInv
<1>2. /\ offered < MaxLogEvents /\ offered' = offered + 1
      /\ tail' = LastOf(Append(tail, Event(mid)), MAX_TAIL) /\ totalCount' = totalCount + 1
      /\ faults' = faults + 1
      /\ archives' = archives /\ active' = active /\ unended' = unended
      /\ activeCount' = activeCount /\ life' = life /\ written' = written /\ restarts' = restarts
    BY Zenon DEF Offer, AppendFails, disk
<1>3. Event(mid) \in Events
    BY <1>1, EventIsNew
<1>4. tail' \in Seq(Events) /\ Len(tail') <= MAX_TAIL
    BY <1>1, <1>2, <1>3, TailIsCut
<1>5. LogTyped'
    BY <1>1, <1>2, <1>4 DEF LogTyped
<1>6. faults \in Nat /\ faults' # 0 /\ offered \in Nat
    BY <1>1, <1>2 DEF LogTyped
<1>7. LogCounted'
    <2>1. Len(written') <= offered' /\ offered' <= MaxLogEvents
        <3>1. Len(written) \in Nat
            BY <1>1, LenProperties DEF LogTyped
        <3> QED
            BY <1>1, <1>2, <1>6, <3>1, LogConstants DEF LogCounted
    <2>2. ASSUME NEW i \in 1..Len(written') PROVE written'[i].no < offered'
        <3>1. i \in 1..Len(written) /\ written'[i] = written[i]
            BY <1>2
        <3>2. written[i] \in Events
            BY <1>1, <3>1, ElementOfSeq DEF LogTyped
        <3>3. written[i].no \in Nat /\ written[i].no < offered
            BY <1>1, <3>1, <3>2 DEF LogCounted, Events
        <3> QED
            BY <1>2, <1>6, <3>1, <3>3
    <2> QED
        BY <1>1, <1>2, <2>1, <2>2 DEF LogCounted
<1>8. LogExact' /\ RetryIsRecordedOnce'
    BY <1>6 DEF LogExact, RetryIsRecordedOnce
<1>9. LogLost'
    <2>1. ValidEvents' = ValidEvents
        BY <1>2 DEF ValidEvents, AllLogFiles
    <2>2. Lost' = Lost /\ Cardinality(Lost) \in Nat
        BY <1>1, <1>2, <2>1, LostIs, LostIsFinite DEF LogTyped
    <2> QED
        BY <1>1, <1>2, <1>6, <2>2 DEF LogLost
<1> QED
    BY <1>5, <1>7, <1>8, <1>9 DEF LogInv

LEMMA StopStep == ASSUME LogInv, Stop PROVE LogInv'
<1>1. LogTyped /\ LogCounted /\ LogExact /\ LogLost /\ RetryIsRecordedOnce
    BY DEF LogInv
<1>2. /\ life = "up" /\ life' = "down" /\ restarts' = restarts + 1
      /\ tail' = << >> /\ totalCount' = 0 /\ activeCount' = 0
      /\ archives' = archives /\ active' = active /\ unended' = unended
      /\ written' = written /\ offered' = offered /\ faults' = faults
    BY Zenon DEF Stop, disk
<1>3. ValidEvents' = ValidEvents
    BY <1>2 DEF ValidEvents, AllLogFiles
<1>4. LogTyped'
    <2>1. tail' \in Seq(Events) /\ Len(tail') <= MAX_TAIL
        BY <1>2, EmptySeq, LogConstants
    <2> QED
        BY <1>1, <1>2, <2>1 DEF LogTyped
<1>5. LogCounted'
    BY <1>1, <1>2 DEF LogCounted
<1>6. LogExact'
    BY <1>1, <1>2, <1>3 DEF LogExact
<1>7. LogLost'
    <2>1. Lost' = Lost
        BY <1>2, <1>3, LostIs
    <2> QED
        BY <1>1, <1>2, <2>1 DEF LogLost
<1>8. RetryIsRecordedOnce'
    BY <1>1, <1>2 DEF RetryIsRecordedOnce
<1> QED
    BY <1>4, <1>5, <1>6, <1>7, <1>8 DEF LogInv

(* The half-written line: nothing announced is touched, and what it may    *)
(* swallow later is counted with the fault.                                *)
LEMMA TearStep ==
    ASSUME LogInv, NEW mid \in MsgIds \cup {NoMsg}, Tear(mid)
    PROVE  LogInv'
<1> DEFINE e == Event(mid)
           last == active[Len(active)]
<1>1. LogTyped /\ LogCounted /\ LogLost
    BY DEF LogInv
<1>2. PICK all \in BOOLEAN :
        /\ offered < MaxLogEvents /\ offered' = offered + 1
        /\ life = "up" /\ life' = "down" /\ restarts' = restarts + 1 /\ faults' = faults + 1
        /\ unended' = IF all /\ unended = "no" THEN "whole" ELSE "fragment"
        /\ active' = CASE unended = "no"       -> IF all THEN Append(active, e) ELSE active
                       [] unended = "fragment" -> active
                       [] unended = "whole"    -> Front(active)
        /\ tail' = << >> /\ totalCount' = 0 /\ activeCount' = 0
        /\ archives' = archives /\ written' = written
    BY Zenon DEF Offer, Tear
<1>3. /\ e \in Events /\ \A i \in 1..Len(written) : e # written[i]
    BY <1>1, EventIsNew
<1> HIDE DEF e
<1>4. e \in Lines /\ Parse(e) = <<e>> /\ <<e>> \in Seq(Events)
    BY <1>3, EventsAreNotCorrupt
<1>5. /\ archives \in Seq(Seq(Lines)) /\ active \in Seq(Lines)
      /\ unended \in {"no", "fragment", "whole"}
      /\ offered \in Nat /\ faults \in Nat /\ restarts \in Nat /\ written \in Seq(Events)
    BY <1>1 DEF LogTyped
<1>6. /\ ValidEvents \in Seq(Events) /\ FilesEvents(archives) \in Seq(Events)
      /\ Valid(active) \in Seq(Events) /\ ValidEvents = FilesEvents(archives) \o Valid(active)
    BY <1>5, ValidEventsSplit, FilesFacts, ValidFacts
<1>7. unended = "whole" =>
        /\ active # << >> /\ \A i \in 1..Len(written) : last # written[i]
    BY <1>1 DEF LogCounted
<1>8. /\ active' \in Seq(Lines)
      /\ unended' = "whole" =>
            active' # << >> /\ \A i \in 1..Len(written) : active'[Len(active')] # written[i]
      /\ LostOf(written, FilesEvents(archives) \o Valid(active')) \subseteq LostOf(written, ValidEvents)
    <2>1. CASE unended = "no" /\ all
        <3>1. active' = Append(active, e)
            BY <1>2, <2>1
        <3>2. /\ active' \in Seq(Lines) /\ active' # << >> /\ Len(active') = Len(active) + 1
              /\ active'[Len(active) + 1] = e
            BY <1>4, <1>5, <3>1, AppendProperties
        <3>3. Valid(active') = Valid(active) \o <<e>>
            BY <1>4, <1>5, <3>1, ValidFacts
        <3>4. FilesEvents(archives) \o Valid(active') = ValidEvents \o <<e>>
            BY <1>4, <1>6, <3>3, ConcatAssociative
        <3>5. ValidEvents \o <<e>> = Append(ValidEvents, e)
            BY <1>3, <1>6, AppendIsConcat
        <3>6. LostOf(written, Append(ValidEvents, e)) \subseteq LostOf(written, ValidEvents)
            BY <1>3, <1>5, <1>6, LostWithOneMore
        <3>7. \A i \in 1..Len(written) : active'[Len(active')] # written[i]
            BY <1>3, <3>2
        <3> QED
            BY <3>2, <3>4, <3>5, <3>6, <3>7
    <2>2. CASE unended = "fragment" \/ (unended = "no" /\ ~all)
        <3>1. active' = active /\ unended' = "fragment"
            BY <1>2, <2>2
        <3> QED
            BY <1>5, <1>6, <3>1
    <2>3. CASE unended = "whole"
        <3>1. active' = Front(active) /\ unended' = "fragment"
            BY <1>2, <2>3
        <3>2. active' \in Seq(Lines) /\ last \in Lines /\ active = Append(active', last)
            BY <1>5, <1>7, <2>3, <3>1, FrontFacts
        <3> HIDE DEF last
        <3>3. /\ Valid(active) = Valid(active') \o Parse(last)
              /\ Valid(active') \in Seq(Events) /\ Parse(last) \in Seq(Events)
            BY <3>2, ValidFacts, ParseFacts
        <3> DEFINE u == FilesEvents(archives) \o Valid(active')
        <3>4. u \in Seq(Events)
            BY <1>6, <3>3, ConcatProperties
        <3>5. u \o Parse(last) = FilesEvents(archives) \o (Valid(active') \o Parse(last))
            BY <1>6, <3>3, ConcatAssociative
        <3> HIDE DEF u
        <3>6. ValidEvents = u \o Parse(last)
            BY <1>6, <3>3, <3>5
        <3>7. LostOf(written, u) \subseteq LostOf(written, ValidEvents)
            BY <1>5, <1>7, <2>3, <3>2, <3>4, <3>6, LostWithoutTheLast
        <3> QED
            BY <3>1, <3>2, <3>7 DEF u
    <2> QED
        BY <1>5, <2>1, <2>2, <2>3
<1>9. LogTyped'
    <2>1. tail' \in Seq(Events) /\ Len(tail') <= MAX_TAIL
        BY <1>2, EmptySeq, LogConstants
    <2>2. unended' \in {"no", "fragment", "whole"}
        BY <1>2
    <2> QED
        BY <1>2, <1>5, <1>8, <2>1, <2>2 DEF LogTyped
<1>10. LogCounted'
    <2>1. Len(written') <= offered' /\ offered' <= MaxLogEvents
        <3>1. Len(written) \in Nat
            BY <1>5, LenProperties
        <3> QED
            BY <1>1, <1>2, <1>5, <3>1, LogConstants DEF LogCounted
    <2>2. ASSUME NEW i \in 1..Len(written') PROVE written'[i].no < offered'
        <3>1. i \in 1..Len(written) /\ written'[i] = written[i]
            BY <1>2
        <3>2. written[i] \in Events
            BY <1>5, <3>1, ElementOfSeq
        <3>3. written[i].no \in Nat /\ written[i].no < offered
            BY <1>1, <3>1, <3>2 DEF LogCounted, Events
        <3> QED
            BY <1>2, <1>5, <3>1, <3>3
    <2> QED
        BY <1>2, <1>8, <2>1, <2>2 DEF LogCounted
<1>11. LogExact' /\ RetryIsRecordedOnce'
    BY <1>2, <1>5 DEF LogExact, RetryIsRecordedOnce
<1>12. LogLost'
    <2>1. ValidEvents' = FilesEvents(archives) \o Valid(active')
        <3>1. ValidEvents' = FilesEvents(Append(archives', active'))
            BY DEF ValidEvents, AllLogFiles, FilesEvents
        <3> QED
            BY <1>2, <1>5, <1>8, <3>1, FilesFacts
    <2>2. Lost' \subseteq LostOf(written, ValidEvents) /\ Lost = LostOf(written, ValidEvents)
        BY <1>2, <1>8, <2>1, LostIs
    <2>3. Cardinality(Lost') \in Nat /\ Cardinality(Lost') <= Cardinality(Lost)
        BY <1>5, <2>2, LostAtMost
    <2>4. Cardinality(Lost) \in Nat
        BY <1>5, <2>2, LostIsFinite
    <2>5. Cardinality(Lost) <= faults
        BY <1>1, <1>2, <1>5, <2>4 DEF LogLost
    <2>6. unended' # "no"
        BY <1>2
    <2> QED
        BY <1>2, <1>5, <2>3, <2>4, <2>5, <2>6 DEF LogLost
<1> QED
    BY <1>9, <1>10, <1>11, <1>12 DEF LogInv

(* Whatever the files hold, a restart finds it again. *)
LEMMA LoadStep == ASSUME LogInv, Load PROVE LogInv'
<1>1. LogTyped /\ LogCounted /\ LogExact /\ LogLost /\ RetryIsRecordedOnce
    BY DEF LogInv
<1>2. /\ life = "down" /\ life' = "up"
      /\ tail' = LastOf(ValidEvents, MAX_TAIL) /\ totalCount' = Len(ValidEvents)
      /\ Rotate(active, Len(Valid(active)), unended)
      /\ written' = written /\ offered' = offered /\ restarts' = restarts /\ faults' = faults
    BY Zenon DEF Load
<1>3. /\ archives \in Seq(Seq(Lines)) /\ active \in Seq(Lines)
      /\ unended \in {"no", "fragment", "whole"} /\ activeCount \in Nat
    BY <1>1 DEF LogTyped
<1>4. /\ ValidEvents = FilesEvents(archives) \o Valid(active) /\ ValidEvents \in Seq(Events)
      /\ Len(Valid(active)) \in Nat /\ Len(ValidEvents) \in Nat
    BY <1>3, ValidEventsSplit, ValidFacts, LenProperties
<1>5. /\ archives' \in Seq(Seq(Lines)) /\ active' \in Seq(Lines)
      /\ unended' \in {"no", "fragment", "whole"} /\ activeCount' \in Nat
      /\ ValidEvents' = ValidEvents
      /\ unended' = "no" \/ (unended' = unended /\ active' = active)
    BY <1>2, <1>3, <1>4, RotateKeeps
<1>6. LogTyped'
    <2>1. tail' \in Seq(Events) /\ Len(tail') <= MAX_TAIL
        <3>1. MAX_TAIL \in Nat
            BY LogConstants
        <3>2. /\ tail' \in Seq(Events)
              /\ Len(tail') = IF Len(ValidEvents) <= MAX_TAIL THEN Len(ValidEvents) ELSE MAX_TAIL
            BY <1>2, <1>4, <3>1, LastOfFacts
        <3> QED
            BY <1>4, <3>1, <3>2
    <2> QED
        BY <1>1, <1>2, <1>4, <1>5, <2>1 DEF LogTyped
<1>7. LogCounted'
    BY <1>1, <1>2, <1>5 DEF LogCounted
<1>8. LogExact'
    BY <1>1, <1>2, <1>5 DEF LogExact
<1>9. LogLost'
    <2>1. Lost' = Lost /\ Cardinality(Lost) \in Nat
        BY <1>1, <1>2, <1>5, LostIs, LostIsFinite DEF LogTyped
    <2>2. Cardinality(Lost) + (IF unended = "no" THEN 0 ELSE 1) <= faults /\ faults \in Nat
        BY <1>1, <1>2 DEF LogLost, LogTyped
    <2>3. Cardinality(Lost) + (IF unended' = "no" THEN 0 ELSE 1) <= faults
        BY <1>5, <2>1, <2>2
    <2> QED
        BY <1>2, <2>1, <2>3 DEF LogLost
<1>10. RetryIsRecordedOnce'
    BY <1>1, <1>2 DEF RetryIsRecordedOnce
<1> QED
    BY <1>6, <1>7, <1>8, <1>9, <1>10 DEF LogInv

LEMMA DeleteStep == ASSUME LogInv, Delete PROVE LogInv'
<1>1. LogTyped /\ LogCounted /\ RetryIsRecordedOnce
    BY DEF LogInv
<1>2. /\ life' = "deleted" /\ active' = << >> /\ unended' = "no"
      /\ tail' = << >> /\ totalCount' = 0 /\ activeCount' = 0
      /\ archives' = archives /\ written' = written /\ offered' = offered
      /\ restarts' = restarts /\ faults' = faults
    BY Zenon DEF Delete
<1>3. LogTyped'
    <2>1. tail' \in Seq(Events) /\ Len(tail') <= MAX_TAIL /\ active' \in Seq(Lines)
        BY <1>2, EmptySeq, LogConstants
    <2> QED
        BY <1>1, <1>2, <2>1 DEF LogTyped
<1>4. LogCounted'
    BY <1>1, <1>2 DEF LogCounted
<1>5. LogExact' /\ LogLost'
    BY <1>2 DEF LogExact, LogLost
<1>6. RetryIsRecordedOnce'
    BY <1>1, <1>2 DEF RetryIsRecordedOnce
<1> QED
    BY <1>3, <1>4, <1>5, <1>6 DEF LogInv

LEMMA LogStuttering == ASSUME LogInv, UNCHANGED logVars PROVE LogInv'
<1>1. LogTyped /\ LogCounted /\ LogExact /\ LogLost /\ RetryIsRecordedOnce
    BY DEF LogInv
<1>2. /\ archives' = archives /\ active' = active /\ unended' = unended /\ tail' = tail
      /\ totalCount' = totalCount /\ activeCount' = activeCount /\ life' = life
      /\ written' = written /\ offered' = offered /\ restarts' = restarts /\ faults' = faults
    BY Zenon DEF logVars
<1>3. ValidEvents' = ValidEvents
    BY <1>2 DEF ValidEvents, AllLogFiles
<1>4. Lost' = Lost
    BY <1>2, <1>3, LostIs
<1>5. LogTyped' /\ LogCounted'
    BY <1>1, <1>2 DEF LogTyped, LogCounted
<1>6. LogExact' /\ LogLost' /\ RetryIsRecordedOnce'
    BY <1>1, <1>2, <1>3, <1>4 DEF LogExact, LogLost, RetryIsRecordedOnce
<1> QED
    BY <1>5, <1>6 DEF LogInv

LEMMA LogStep == LogInv /\ [LogNext]_logVars => LogInv'
<1> SUFFICES ASSUME LogInv, [LogNext]_logVars PROVE LogInv'
    OBVIOUS
<1>1. CASE Record
    <2>1. Offer /\ (AppendEvent(NoMsg) \/ AppendFails(NoMsg)) /\ NoMsg \in MsgIds \cup {NoMsg}
        BY <1>1, Zenon DEF Record
    <2> QED
        BY <2>1, AppendEventStep, AppendFailsStep
<1>2. ASSUME NEW mid \in MsgIds, SendMessage(mid) PROVE LogInv'
    <2>1. /\ Offer /\ ~HasClientMessage(mid) /\ (AppendEvent(mid) \/ AppendFails(mid))
          /\ mid \in MsgIds \cup {NoMsg}
        BY <1>2, Zenon DEF SendMessage
    <2> QED
        BY <2>1, AppendEventStep, AppendFailsStep
<1>3. CASE Stop
    BY <1>3, StopStep
<1>4. ASSUME NEW mid \in MsgIds \cup {NoMsg}, Tear(mid) PROVE LogInv'
    BY <1>4, TearStep
<1>5. CASE Load
    BY <1>5, LoadStep
<1>6. CASE Delete
    BY <1>6, DeleteStep
<1>7. CASE UNCHANGED logVars
    BY <1>7, LogStuttering
<1> QED
    BY <1>1, <1>2, <1>3, <1>4, <1>5, <1>6, <1>7, Zenon DEF LogNext

LEMMA LogInvariant == LogSpec => []LogInv
BY LogInitInv, LogStep, PTL DEF LogSpec

-----------------------------------------------------------------------------
(* Reading                                                                 *)

(* Reading in the tail is reading in the log, at a shifted position. *)
LEMMA ReadingTheTail ==
    ASSUME NEW S, NEW w \in Seq(S), NEW t \in Seq(S), NEW d \in Nat, Len(w) = d + Len(t),
           \A i \in 1..Len(t) : t[i] = w[d + i],
           NEW a \in Nat, NEW b \in Nat, d <= a, a <= b, b <= Len(w)
    PROVE  SubSeq(t, a - d + 1, b - d) = SubSeq(w, a + 1, b)
<1> DEFINE p == SubSeq(t, a - d + 1, b - d)
           q == SubSeq(w, a + 1, b)
<1>1. Len(w) \in Nat /\ Len(t) \in Nat
    BY LenProperties
<1>2. /\ p \in Seq(S)
      /\ Len(p) = IF a - d + 1 <= b - d THEN (b - d) - (a - d + 1) + 1 ELSE 0
      /\ \A i \in 1..((b - d) - (a - d + 1) + 1) : p[i] = t[(a - d + 1) + i - 1]
    <2>1. a - d + 1 \in Int /\ b - d \in Int
        OBVIOUS
    <2>2. \A i \in (a - d + 1)..(b - d) : i \in 1..Len(t)
        BY <1>1
    <2>3. \A i \in (a - d + 1)..(b - d) : t[i] \in S
        BY <2>2, ElementOfSeq
    <2> QED
        BY <2>1, <2>3, SubSeqProperties
<1>3. /\ q \in Seq(S)
      /\ Len(q) = IF a + 1 <= b THEN b - (a + 1) + 1 ELSE 0
      /\ \A i \in 1..(b - (a + 1) + 1) : q[i] = w[(a + 1) + i - 1]
    <2>1. a + 1 \in Int /\ b \in Int
        OBVIOUS
    <2>2. \A i \in (a + 1)..b : i \in 1..Len(w)
        BY <1>1
    <2>3. \A i \in (a + 1)..b : w[i] \in S
        BY <2>2, ElementOfSeq
    <2> QED
        BY <2>1, <2>3, SubSeqProperties
<1> HIDE DEF p, q
<1>4. Len(p) = b - a /\ Len(q) = b - a
    <2>1. Len(p) = IF a - d + 1 <= b - d THEN (b - d) - (a - d + 1) + 1 ELSE 0
        BY <1>2
    <2>2. Len(q) = IF a + 1 <= b THEN b - (a + 1) + 1 ELSE 0
        BY <1>3
    <2> QED
        BY <2>1, <2>2
<1>5. ASSUME NEW i \in 1..(b - a) PROVE p[i] = q[i]
    <2>1. /\ i \in 1..((b - d) - (a - d + 1) + 1) /\ (a - d + 1) + i - 1 = a - d + i
          /\ i \in 1..(b - (a + 1) + 1) /\ (a + 1) + i - 1 = a + i
        OBVIOUS
    <2>2. p[i] = t[a - d + i] /\ q[i] = w[a + i]
        BY <1>2, <1>3, <2>1
    <2>3. a - d + i \in 1..Len(t) /\ d + (a - d + i) = a + i
        BY <1>1
    <2> QED
        BY <2>2, <2>3
<1>6. p = q
    BY <1>2, <1>3, <1>4, <1>5, SeqEqual
<1> QED
    BY <1>6 DEF p, q

(* The length of a part of a log. *)
LEMMA LengthOfPart ==
    ASSUME NEW S, NEW w \in Seq(S), NEW a \in Nat, NEW b \in Nat, b <= Len(w)
    PROVE  Len(SubSeq(w, a + 1, b)) = IF a <= b THEN b - a ELSE 0
<1>1. Len(w) \in Nat
    BY LenProperties
<1>2. a + 1 \in Int /\ b \in Int /\ \A i \in (a + 1)..b : i \in 1..Len(w)
    BY <1>1
<1>3. \A i \in (a + 1)..b : w[i] \in S
    BY <1>2, ElementOfSeq
<1>4. Len(SubSeq(w, a + 1, b)) = IF a + 1 <= b THEN b - (a + 1) + 1 ELSE 0
    BY <1>2, <1>3, SubSeqProperties
<1> QED
    BY <1>4

LEMMA ReadsFollow ==
    ASSUME LogInv, life = "up", faults = 0
    PROVE  /\ written \in Seq(Events) /\ Len(written) \in Nat /\ Len(written) <= MaxLogEvents
           /\ totalCount = Len(written)
           /\ Len(tail) \in Nat /\ Len(tail) <= Len(written)
           /\ \A a, b \in Nat : Len(written) - Len(tail) <= a /\ a <= b /\ b <= Len(written) =>
                SubSeq(tail, a - (Len(written) - Len(tail)) + 1, b - (Len(written) - Len(tail)))
                  = SubSeq(written, a + 1, b)
           /\ \A a, b \in Nat : b <= Len(written) => ReadRange(a, b) = SubSeq(written, a + 1, b)
<1>1. LogTyped /\ LogCounted /\ LogExact
    BY DEF LogInv
<1>2. ValidEvents = written /\ tail = LastOf(written, MAX_TAIL) /\ totalCount = Len(written)
    BY <1>1 DEF LogExact
<1>3. /\ written \in Seq(Events) /\ Len(written) \in Nat /\ tail \in Seq(Events)
      /\ Len(tail) \in Nat /\ MAX_TAIL \in Nat
    BY <1>1, LenProperties, LogConstants DEF LogTyped
<1>4. Len(written) <= MaxLogEvents
    BY <1>1, <1>3, LogConstants DEF LogCounted, LogTyped
<1>5. /\ Len(tail) = IF Len(written) <= MAX_TAIL THEN Len(written) ELSE MAX_TAIL
      /\ \A i \in 1..Len(tail) : tail[i] = written[Len(written) - Len(tail) + i]
    BY <1>2, <1>3, LastOfFacts
<1>6. Len(tail) <= Len(written)
    BY <1>3, <1>5
<1>7. ASSUME NEW a \in Nat, NEW b \in Nat,
             Len(written) - Len(tail) <= a, a <= b, b <= Len(written)
      PROVE  SubSeq(tail, a - (Len(written) - Len(tail)) + 1, b - (Len(written) - Len(tail)))
               = SubSeq(written, a + 1, b)
    <2> DEFINE d == Len(written) - Len(tail)
    <2>1. d \in Nat /\ Len(written) = d + Len(tail)
        BY <1>3, <1>6
    <2>2. \A i \in 1..Len(tail) : tail[i] = written[d + i]
        BY <1>5
    <2>3. d <= a
        BY <1>7
    <2> HIDE DEF d
    <2>4. SubSeq(tail, a - d + 1, b - d) = SubSeq(written, a + 1, b)
        BY <1>3, <1>7, <2>1, <2>2, <2>3, ReadingTheTail
    <2> QED
        BY <2>4 DEF d
<1>8. ASSUME NEW a \in Nat, NEW b \in Nat, b <= Len(written)
      PROVE  ReadRange(a, b) = SubSeq(written, a + 1, b)
    <2>1. Min({b, Len(ValidEvents)}) = b
        <3>1. b \in Int /\ Len(written) \in Int /\ b <= Len(written)
            BY <1>3, <1>8
        <3>2. Min({b, Len(written)}) = b
            BY <3>1, PairMaxMin
        <3> QED
            BY <1>2, <3>2
    <2> QED
        BY <1>2, <2>1 DEF ReadRange
<1> QED
    BY <1>2, <1>3, <1>4, <1>6, <1>7, <1>8

(* What a client that attaches gets is the end of the log. *)
LEMMA AttachingIsExact ==
    ASSUME LogInv, life = "up", faults = 0,
           NEW seq \in Nat, NEW limit \in Nat \ {0}
    PROVE  /\ EventsSince(seq, limit).events = Missed(seq, limit)
           /\ EventsSince(seq, limit).hasEarlier
                = (Len(Missed(seq, MaxLogEvents)) > Len(Missed(seq, limit)))
<1> DEFINE L == Len(written)
           start == Max({seq, L - limit})
           d == L - Len(tail)
<1>1. /\ written \in Seq(Events) /\ L \in Nat /\ L <= MaxLogEvents /\ totalCount = L
      /\ Len(tail) \in Nat /\ Len(tail) <= L
    BY ReadsFollow
<1>2. \A a, b \in Nat : d <= a /\ a <= b /\ b <= L =>
        SubSeq(tail, a - d + 1, b - d) = SubSeq(written, a + 1, b)
    BY ReadsFollow
<1>3. \A a, b \in Nat : b <= L => ReadRange(a, b) = SubSeq(written, a + 1, b)
    BY ReadsFollow
<1>4. /\ seq \in Nat /\ limit \in Nat /\ limit >= 1 /\ MaxLogEvents \in Nat
    BY LogConstants
<1>5. /\ start = IF seq >= L - limit THEN seq ELSE L - limit
      /\ Max({seq, L - MaxLogEvents}) = seq
    <2>1. L - limit \in Int /\ L - MaxLogEvents \in Int /\ seq \in Int /\ seq >= L - MaxLogEvents
        BY <1>1, <1>4
    <2> HIDE DEF L
    <2> QED
        BY <2>1, PairMaxMin
<1>6. Missed(seq, limit) = SubSeq(written, start + 1, L)
      /\ Missed(seq, MaxLogEvents) = SubSeq(written, seq + 1, L)
    BY <1>5 DEF Missed
<1>7. EventsSince(seq, limit) =
        IF seq >= L THEN [events |-> << >>, hasEarlier |-> FALSE]
        ELSE [ events |-> IF start >= d THEN SubSeq(tail, start - d + 1, Len(tail))
                          ELSE ReadRange(start, L),
               hasEarlier |-> start > seq ]
    BY <1>1 DEF EventsSince
<1> HIDE DEF L, start, d
<1>8. start \in Nat /\ start >= seq /\ (start > seq => start < L) /\ (seq < L => start < L)
    BY <1>1, <1>4, <1>5
<1>9. /\ Len(Missed(seq, limit)) = IF start <= L THEN L - start ELSE 0
      /\ Len(Missed(seq, MaxLogEvents)) = IF seq <= L THEN L - seq ELSE 0
    <2>1. L <= Len(written)
        BY <1>1 DEF L
    <2> QED
        BY <1>1, <1>4, <1>6, <1>8, <2>1, LengthOfPart
<1>10. CASE seq >= L
    <2>1. EventsSince(seq, limit).events = << >> /\ EventsSince(seq, limit).hasEarlier = FALSE
        BY <1>7, <1>10
    <2>2. L < start + 1 /\ start + 1 \in Int /\ L \in Int
        BY <1>1, <1>4, <1>8, <1>10
    <2>3. Missed(seq, limit) = << >>
        BY <1>6, <2>2, SubSeqEmpty
    <2>4. ~(Len(Missed(seq, MaxLogEvents)) > Len(Missed(seq, limit)))
        BY <1>1, <1>4, <1>8, <1>9, <1>10
    <2>5. (Len(Missed(seq, MaxLogEvents)) > Len(Missed(seq, limit))) = FALSE
        BY <2>4
    <2> QED
        BY <2>1, <2>3, <2>5, Zenon
<1>11. CASE seq < L
    <2>1. /\ EventsSince(seq, limit).events =
                IF start >= d THEN SubSeq(tail, start - d + 1, Len(tail)) ELSE ReadRange(start, L)
          /\ EventsSince(seq, limit).hasEarlier = (start > seq)
        <3>1. ~(seq >= L)
            BY <1>1, <1>4, <1>11
        <3> QED
            BY <1>7, <3>1
    <2>2. start <= L /\ L <= L /\ Len(tail) = L - d
        BY <1>1, <1>8, <1>11 DEF d
    <2>3. EventsSince(seq, limit).events = SubSeq(written, start + 1, L)
        <3>1. CASE start >= d
            <4>1. d <= start
                BY <1>1, <1>8, <3>1 DEF d
            <4>2. SubSeq(tail, start - d + 1, L - d) = SubSeq(written, start + 1, L)
                BY <1>1, <1>2, <1>8, <2>2, <4>1
            <4> QED
                BY <2>1, <2>2, <3>1, <4>2
        <3>2. CASE ~(start >= d)
            <4>1. ReadRange(start, L) = SubSeq(written, start + 1, L)
                BY <1>1, <1>3, <1>8, <2>2
            <4> QED
                BY <2>1, <3>2, <4>1
        <3> QED
            BY <3>1, <3>2
    <2>4. (start > seq) <=> (Len(Missed(seq, MaxLogEvents)) > Len(Missed(seq, limit)))
        BY <1>1, <1>4, <1>8, <1>9, <1>11, <2>2
    <2>5. EventsSince(seq, limit).hasEarlier
            = (Len(Missed(seq, MaxLogEvents)) > Len(Missed(seq, limit)))
        <3>1. CASE start > seq
            BY <2>1, <2>4, <3>1
        <3>2. CASE ~(start > seq)
            BY <2>1, <2>4, <3>2
        <3> QED
            BY <3>1, <3>2
    <2> QED
        BY <1>6, <2>3, <2>5
<1> QED
    BY <1>1, <1>4, <1>10, <1>11

(* A page is the part of the log it stands for. *)
LEMMA PagingIsExact ==
    ASSUME LogInv, life = "up", faults = 0,
           NEW before \in 0..Len(written), NEW limit \in Nat \ {0}
    PROVE  LET page == EventsBefore(before, limit)
           IN  /\ page.events = SubSeq(written, Max({0, before - limit}) + 1, before)
               /\ page.hasEarlier = (Len(page.events) < before)
<1> DEFINE L == Len(written)
           start == Max({0, before - limit})
           d == L - Len(tail)
           page == EventsBefore(before, limit)
<1>1. /\ written \in Seq(Events) /\ L \in Nat /\ totalCount = L
      /\ Len(tail) \in Nat /\ Len(tail) <= L
    BY ReadsFollow
<1>2. \A a, b \in Nat : d <= a /\ a <= b /\ b <= L =>
        SubSeq(tail, a - d + 1, b - d) = SubSeq(written, a + 1, b)
    BY ReadsFollow
<1>3. \A a, b \in Nat : b <= L => ReadRange(a, b) = SubSeq(written, a + 1, b)
    BY ReadsFollow
<1>4. /\ before \in Nat /\ before <= L /\ limit \in Nat /\ limit >= 1
    BY <1>1, LogConstants
<1>5. /\ start = IF 0 >= before - limit THEN 0 ELSE before - limit
      /\ Min({before, L}) = before
    <2>1. before - limit \in Int /\ 0 \in Int /\ before \in Int /\ L \in Int /\ before <= L
        BY <1>1, <1>4
    <2> HIDE DEF L
    <2> QED
        BY <2>1, PairMaxMin
<1>6. page =
        IF before <= start THEN [events |-> << >>, hasEarlier |-> FALSE]
        ELSE [ events |-> IF start >= d THEN SubSeq(tail, start - d + 1, before - d)
                          ELSE ReadRange(start, before),
               hasEarlier |-> start > 0 ]
    BY <1>1, <1>5 DEF EventsBefore
<1> HIDE DEF start, d, page
<1>7. start \in Nat /\ (start < before \/ (before = 0 /\ start = 0))
    BY <1>4, <1>5
<1>8. Len(SubSeq(written, start + 1, before)) = IF start <= before THEN before - start ELSE 0
    BY <1>1, <1>4, <1>7, LengthOfPart
<1>9. page.events = SubSeq(written, start + 1, before) /\ page.hasEarlier = (start > 0)
    <2>1. CASE before = 0 /\ start = 0
        <3>1. page.events = << >> /\ page.hasEarlier = FALSE
            BY <1>6, <2>1
        <3>2. SubSeq(written, start + 1, before) = << >>
            BY <2>1, SubSeqEmpty
        <3>3. (start > 0) = FALSE
            BY <2>1
        <3> QED
            BY <3>1, <3>2, <3>3, Zenon
    <2>2. CASE start < before
        <3>1. /\ page.events = IF start >= d THEN SubSeq(tail, start - d + 1, before - d)
                               ELSE ReadRange(start, before)
              /\ page.hasEarlier = (start > 0)
            <4>1. ~(before <= start)
                BY <1>4, <1>7, <2>2
            <4> QED
                BY <1>6, <4>1
        <3>2. CASE start >= d
            <4>1. d <= start /\ start <= before
                BY <1>1, <1>4, <1>7, <2>2, <3>2 DEF d
            <4>2. SubSeq(tail, start - d + 1, before - d) = SubSeq(written, start + 1, before)
                BY <1>2, <1>4, <1>7, <4>1
            <4> QED
                BY <3>1, <3>2, <4>2
        <3>3. CASE ~(start >= d)
            <4>1. ReadRange(start, before) = SubSeq(written, start + 1, before)
                BY <1>3, <1>4, <1>7
            <4> QED
                BY <3>1, <3>3, <4>1
        <3> QED
            BY <3>1, <3>2, <3>3
    <2> QED
        BY <1>7, <2>1, <2>2
<1>10. (start > 0) <=> (Len(page.events) < before)
    BY <1>4, <1>7, <1>8, <1>9
<1>11. page.hasEarlier = (Len(page.events) < before)
    <2>1. CASE start > 0
        BY <1>9, <1>10, <2>1
    <2>2. CASE ~(start > 0)
        <3>1. (start > 0) = FALSE /\ (Len(page.events) < before) = FALSE
            BY <1>10, <2>2
        <3> QED
            BY <1>9, <3>1, Zenon
    <2> QED
        BY <2>1, <2>2
<1> QED
    BY <1>9, <1>11 DEF start, page

-----------------------------------------------------------------------------
(* Theorems                                                                *)

(* Whatever was rotated, kept in memory or reloaded, attaching and         *)
(* scrolling back give exactly the events that were announced.             *)
THEOREM ReadsGiveTheTranscript == LogSpec => []ReadsAreExact
<1>1. LogInv => ReplayIsExact
    <2> SUFFICES ASSUME LogInv PROVE ReplayIsExact
        OBVIOUS
    <2>1. life = "up" /\ faults = 0 => 0..Reach \subseteq Nat /\ 1..Reach \subseteq Nat \ {0}
        BY ReadsFollow DEF Reach
    <2> QED
        BY <2>1, AttachingIsExact DEF ReplayIsExact
<1>2. LogInv => PagesJoinUp
    <2> SUFFICES ASSUME LogInv, life = "up" /\ faults = 0,
                        NEW before \in 0..Len(written), NEW limit \in 1..Reach
                 PROVE  LET page == EventsBefore(before, limit)
                        IN  /\ page.events = SubSeq(written, Max({0, before - limit}) + 1, before)
                            /\ page.hasEarlier = (Len(page.events) < before)
        BY DEF PagesJoinUp
    <2>1. limit \in Nat \ {0}
        BY ReadsFollow DEF Reach
    <2> QED
        BY <2>1, PagingIsExact
<1>3. LogInv => ReadsAreExact
    BY <1>1, <1>2 DEF ReadsAreExact
<1> QED
    BY <1>3, LogInvariant, PTL

(* A message sent again is in the transcript once, across rotations and    *)
(* restarts, while its first copy is among the newest MAX_TAIL events.     *)
THEOREM RetriesAreRecordedOnce == LogSpec => []RetryIsRecordedOnce
<1>1. LogInv => RetryIsRecordedOnce
    BY DEF LogInv
<1> QED
    BY <1>1, LogInvariant, PTL

(* However writes fail or are cut short, each costs at most one event that *)
(* was announced.                                                          *)
THEOREM EveryFaultCostsAtMostOne == LogSpec => []FaultCostsOneEvent
<1>1. LogInv => FaultCostsOneEvent
    <2> SUFFICES ASSUME LogInv, life # "deleted" PROVE Cardinality(Lost) <= faults
        BY DEF FaultCostsOneEvent
    <2>1. Cardinality(Lost) \in Nat /\ faults \in Nat
        BY LostIs, LostIsFinite DEF LogInv, LogTyped
    <2>2. Cardinality(Lost) + (IF unended = "no" THEN 0 ELSE 1) <= faults
        BY DEF LogInv, LogLost
    <2> QED
        BY <2>1, <2>2
<1> QED
    BY <1>1, LogInvariant, PTL
=============================================================================
