--------------------------- MODULE SequenceLemmas ---------------------------
(***************************************************************************)
(* What the proofs of several components use about numbers and sequences.  *)
(* Induction is over a set of numbers, which a prover of first-order logic *)
(* can be given; with it FlattenSeq, a function defined by recursion, is   *)
(* unfolded by one element at the end.                                     *)
(***************************************************************************)
EXTENDS Integers, SequencesExt, SequenceTheorems, WellFoundedInduction, TLAPS

-----------------------------------------------------------------------------
(* Numbers                                                                 *)

(* Every nonempty set of naturals has a smallest element. *)
LEMMA SmallestExists ==
    ASSUME NEW S \in SUBSET Nat, S # {}
    PROVE  \E m \in S : \A x \in S : m <= x
<1> DEFINE R == {ss \in Nat \X Nat : ss[1] < ss[2]}
<1>1. R = OpToRel(<, Nat)
    BY Zenon DEF OpToRel
<1>2. IsWellFoundedOn(R, Nat)
    BY <1>1, NatLessThanWellFounded
<1> HIDE DEF R
<1>3. PICK m \in S : \A x \in S : ~(<<x, m>> \in R)
    BY <1>2, WFMin
<1>4. ASSUME NEW x \in S PROVE m <= x
    <2>1. m \in Nat /\ x \in Nat
        OBVIOUS
    <2>2. x < m => <<x, m>> \in R
        BY <2>1 DEF R
    <2> QED
        BY <1>3, <2>1, <2>2
<1> QED
    BY <1>4

(* So has every bounded one a largest. *)
LEMMA LargestExists ==
    ASSUME NEW S \in SUBSET Nat, S # {}, NEW N \in Nat, \A x \in S : x <= N
    PROVE  \E m \in S : \A x \in S : x <= m
<1> DEFINE T == {N - x : x \in S}
<1>1. T \in SUBSET Nat /\ T # {}
    <2>1. \A x \in S : x \in Nat /\ x <= N /\ N - x \in Nat
        OBVIOUS
    <2> QED
        BY <2>1
<1>2. PICK k \in T : \A y \in T : k <= y
    BY <1>1, SmallestExists
<1>3. PICK m \in S : k = N - m
    BY <1>2
<1>4. ASSUME NEW x \in S PROVE x <= m
    <2>1. N - x \in T
        OBVIOUS
    <2>2. k <= N - x
        BY <1>2, <2>1
    <2> QED
        BY <1>3, <2>2
<1> QED
    BY <1>4

(* Induction, for the numbers with a property as a set. *)
LEMMA Induction ==
    ASSUME NEW S, 0 \in S, \A n \in Nat : n \in S => n + 1 \in S
    PROVE  Nat \subseteq S
<1> SUFFICES ASSUME Nat \ S # {} PROVE FALSE
    OBVIOUS
<1>1. Nat \ S \in SUBSET Nat
    OBVIOUS
<1>2. PICK m \in Nat \ S : \A x \in Nat \ S : m <= x
    BY <1>1, SmallestExists
<1>3. m # 0 /\ m - 1 \in Nat
    BY <1>2
<1>4. m - 1 \in S
    BY <1>2, <1>3
<1>5. (m - 1) + 1 \in S
    BY <1>3, <1>4
<1> QED
    BY <1>2, <1>3, <1>5

LEMMA PairMaxMin ==
    ASSUME NEW a \in Int, NEW b \in Int
    PROVE  /\ Max({a, b}) = IF a >= b THEN a ELSE b
           /\ Min({a, b}) = IF a <= b THEN a ELSE b
<1>1. Max({a, b}) \in {a, b} /\ \A y \in {a, b} : Max({a, b}) >= y
    <2>1. \E x \in {a, b} : \A y \in {a, b} : x >= y
        OBVIOUS
    <2> QED
        BY <2>1 DEF Max
<1>2. Min({a, b}) \in {a, b} /\ \A y \in {a, b} : Min({a, b}) <= y
    <2>1. \E x \in {a, b} : \A y \in {a, b} : x =< y
        OBVIOUS
    <2> QED
        BY <2>1 DEF Min
<1> QED
    BY <1>1, <1>2

-----------------------------------------------------------------------------
(* The end of a sequence                                                   *)

(* Front, and what it leaves out. *)
LEMMA FrontFacts ==
    ASSUME NEW S, NEW s \in Seq(S), s # << >>
    PROVE  /\ Front(s) \in Seq(S) /\ s[Len(s)] \in S
           /\ s = Append(Front(s), s[Len(s)])
<1>1. Len(s) \in Nat \ {0} /\ Len(s) - 1 \in Nat /\ Len(s) \in 1..Len(s)
    BY EmptySeq
<1>2. \A i \in 1..(Len(s) - 1) : s[i] \in S
    BY <1>1, ElementOfSeq
<1>3. /\ Front(s) \in Seq(S) /\ Len(Front(s)) = Len(s) - 1
      /\ \A i \in 1..(Len(s) - 1) : Front(s)[i] = s[i]
    <2>1. 1 \in Int /\ Len(s) - 1 \in Int
        BY <1>1
    <2>2. /\ Front(s) \in Seq(S)
          /\ Len(Front(s)) = IF 1 <= Len(s) - 1 THEN (Len(s) - 1) - 1 + 1 ELSE 0
          /\ \A i \in 1..((Len(s) - 1) - 1 + 1) : Front(s)[i] = s[1 + i - 1]
        BY <1>2, <2>1, SubSeqProperties DEF Front
    <2>3. (Len(s) - 1) - 1 + 1 = Len(s) - 1
        BY <1>1
    <2>4. ASSUME NEW i \in 1..(Len(s) - 1) PROVE Front(s)[i] = s[i]
        <3>1. 1 + i - 1 = i
            OBVIOUS
        <3> QED
            BY <2>2, <2>3, <3>1
    <2>5. Len(Front(s)) = Len(s) - 1
        <3>1. Len(Front(s)) = IF 1 <= Len(s) - 1 THEN (Len(s) - 1) - 1 + 1 ELSE 0
            BY <2>2
        <3>2. \A n \in Nat \ {0} : (IF 1 <= n - 1 THEN (n - 1) - 1 + 1 ELSE 0) = n - 1
            OBVIOUS
        <3> QED
            BY <1>1, <3>1, <3>2
    <2> QED
        BY <2>2, <2>4, <2>5
<1>4. s[Len(s)] \in S
    BY <1>1, ElementOfSeq
<1>5. /\ Append(Front(s), s[Len(s)]) \in Seq(S)
      /\ Len(Append(Front(s), s[Len(s)])) = Len(s)
      /\ \A i \in 1..(Len(s) - 1) : Append(Front(s), s[Len(s)])[i] = s[i]
      /\ Append(Front(s), s[Len(s)])[Len(s)] = s[Len(s)]
    BY <1>1, <1>3, <1>4, AppendProperties
<1>6. \A i \in 1..Len(s) : s[i] = Append(Front(s), s[Len(s)])[i]
    <2> TAKE i \in 1..Len(s)
    <2>1. i = Len(s) \/ i \in 1..(Len(s) - 1)
        BY <1>1
    <2> QED
        BY <1>5, <2>1
<1>7. s = Append(Front(s), s[Len(s)])
    BY <1>5, <1>6, SeqEqual
<1> QED
    BY <1>3, <1>4, <1>7

-----------------------------------------------------------------------------
(* Flattening                                                              *)

(* f gathers the first n of the sequences s. *)
Gathers(f, s, n) ==
    f = [i \in 1..n |-> IF i = 1 THEN s[i] ELSE f[i - 1] \o s[i]]

LEMMA GathererExists ==
    ASSUME NEW T, NEW s \in Seq(Seq(T)), NEW n \in 0..Len(s)
    PROVE  \E f : Gathers(f, s, n) /\ \A i \in 1..n : f[i] \in Seq(T)
<1> DEFINE P(k) == \E f : Gathers(f, s, k) /\ \A i \in 1..k : f[i] \in Seq(T)
           Good == {k \in Nat : k <= Len(s) => P(k)}
<1>1. 0 \in Good
    <2>1. Gathers([i \in 1..0 |-> s], s, 0)
        BY DEF Gathers
    <2>2. \A i \in 1..0 : FALSE
        OBVIOUS
    <2> QED
        BY <2>1, <2>2
<1>2. ASSUME NEW k \in Nat, k \in Good PROVE k + 1 \in Good
    <2> SUFFICES ASSUME k + 1 <= Len(s) PROVE P(k + 1)
        OBVIOUS
    <2>1. k <= Len(s) /\ Len(s) \in Nat
        OBVIOUS
    <2>2. PICK f : Gathers(f, s, k) /\ \A i \in 1..k : f[i] \in Seq(T)
        BY <1>2, <2>1
    <2>3. s[k + 1] \in Seq(T)
        BY <2>1, ElementOfSeq
    <2> DEFINE last == IF k = 0 THEN s[k + 1] ELSE f[k] \o s[k + 1]
               g == [i \in 1..(k + 1) |-> IF i = k + 1 THEN last ELSE f[i]]
    <2>4. last \in Seq(T)
        <3>1. k # 0 => k \in 1..k
            OBVIOUS
        <3>2. k # 0 => f[k] \o s[k + 1] \in Seq(T)
            BY <2>2, <2>3, <3>1, ConcatProperties
        <3> QED
            BY <2>3, <3>2
    <2> HIDE DEF last
    <2>5. \A i \in 1..(k + 1) : g[i] \in Seq(T)
        BY <2>2, <2>4
    <2>6. \A i \in 1..(k + 1) : g[i] = IF i = 1 THEN s[i] ELSE g[i - 1] \o s[i]
        <3> SUFFICES ASSUME NEW i \in 1..(k + 1)
                     PROVE  g[i] = IF i = 1 THEN s[i] ELSE g[i - 1] \o s[i]
            OBVIOUS
        <3>1. CASE i = k + 1
            <4>1. CASE k = 0
                BY <3>1, <4>1 DEF last
            <4>2. CASE k # 0
                <5>1. i # 1 /\ i - 1 = k /\ k \in 1..(k + 1) /\ k # k + 1
                    BY <3>1, <4>2
                <5>2. g[i - 1] = f[k]
                    BY <5>1
                <5> QED
                    BY <3>1, <4>2, <5>1, <5>2 DEF last
            <4> QED
                BY <4>1, <4>2
        <3>2. CASE i # k + 1
            <4>1. i \in 1..k /\ g[i] = f[i]
                BY <3>2
            <4>2. f[i] = IF i = 1 THEN s[i] ELSE f[i - 1] \o s[i]
                BY <2>2, <4>1 DEF Gathers
            <4>3. i # 1 => i - 1 \in 1..(k + 1) /\ i - 1 # k + 1
                BY <4>1
            <4>4. i # 1 => g[i - 1] = f[i - 1]
                BY <4>3
            <4> QED
                BY <4>1, <4>2, <4>4
        <3> QED
            BY <3>1, <3>2
    <2>7. Gathers(g, s, k + 1)
        BY <2>6 DEF Gathers
    <2> QED
        BY <2>5, <2>7
<1> HIDE DEF P
<1>3. Nat \subseteq Good
    <2>1. \A k \in Nat : k \in Good => k + 1 \in Good
        BY <1>2
    <2> HIDE DEF Good
    <2> QED
        BY <1>1, <2>1, Induction
<1>4. P(n)
    BY <1>3
<1> QED
    BY <1>4 DEF P

(* What it gathers from the first of them depends on these only. *)
LEMMA GathererIsUnique ==
    ASSUME NEW m \in Nat, NEW n \in Nat, m <= n, NEW s, NEW t,
           NEW f, Gathers(f, s, m), NEW g, Gathers(g, t, n),
           \A i \in 1..m : s[i] = t[i]
    PROVE  \A i \in 1..m : f[i] = g[i]
<1> DEFINE Good == {i \in Nat : i \in 1..m => f[i] = g[i]}
<1>1. 0 \in Good
    OBVIOUS
<1>2. ASSUME NEW i \in Nat, i \in Good PROVE i + 1 \in Good
    <2> SUFFICES ASSUME i + 1 \in 1..m PROVE f[i + 1] = g[i + 1]
        OBVIOUS
    <2>1. i + 1 \in 1..m /\ i + 1 \in 1..n /\ (i + 1) - 1 = i
        OBVIOUS
    <2>2. f[i + 1] = IF i + 1 = 1 THEN s[i + 1] ELSE f[i] \o s[i + 1]
        BY <2>1, ZenonT(40) DEF Gathers
    <2>3. g[i + 1] = IF i + 1 = 1 THEN t[i + 1] ELSE g[i] \o t[i + 1]
        BY <2>1 DEF Gathers
    <2>4. i # 0 => f[i] = g[i]
        BY <1>2
    <2> QED
        BY <2>2, <2>3, <2>4
<1>3. Nat \subseteq Good
    <2>1. \A i \in Nat : i \in Good => i + 1 \in Good
        BY <1>2
    <2> HIDE DEF Good
    <2> QED
        BY <1>1, <2>1, Induction
<1> QED
    BY <1>3

LEMMA FlattenEmpty == FlattenSeq(<< >>) = << >>
BY DEF FlattenSeq

(* The library's definition gathers. *)
LEMMA FlattenGathers ==
    ASSUME NEW T, NEW s \in Seq(Seq(T)), Len(s) # 0
    PROVE  \E f : /\ Gathers(f, s, Len(s)) /\ FlattenSeq(s) = f[Len(s)]
                  /\ \A i \in 1..Len(s) : f[i] \in Seq(T)
<1> DEFINE f == CHOOSE f : f = [i \in 1..Len(s) |-> IF i = 1 THEN s[i] ELSE f[i - 1] \o s[i]]
<1>1. PICK g : Gathers(g, s, Len(s)) /\ \A i \in 1..Len(s) : g[i] \in Seq(T)
    BY GathererExists
<1>2. Gathers(f, s, Len(s))
    BY <1>1, Zenon DEF Gathers
<1>3. FlattenSeq(s) = f[Len(s)]
    BY Zenon DEF FlattenSeq
<1> HIDE DEF f
<1>4. \A i \in 1..Len(s) : f[i] = g[i]
    <2>1. Len(s) \in Nat /\ Len(s) <= Len(s)
        OBVIOUS
    <2>2. Gathers(g, s, Len(s)) /\ \A i \in 1..Len(s) : s[i] = s[i]
        BY <1>1
    <2> QED
        BY <1>2, <2>1, <2>2, GathererIsUnique
<1> QED
    BY <1>1, <1>2, <1>3, <1>4

LEMMA FlattenType ==
    ASSUME NEW T, NEW s \in Seq(Seq(T))
    PROVE  FlattenSeq(s) \in Seq(T)
<1>1. CASE Len(s) = 0
    <2>1. s = << >>
        BY <1>1
    <2> QED
        BY <2>1, FlattenEmpty, EmptySeq
<1>2. CASE Len(s) # 0
    <2>1. PICK f : FlattenSeq(s) = f[Len(s)] /\ \A i \in 1..Len(s) : f[i] \in Seq(T)
        BY <1>2, FlattenGathers
    <2>2. Len(s) \in 1..Len(s)
        BY <1>2
    <2> QED
        BY <2>1, <2>2
<1> QED
    BY <1>1, <1>2

(* One more sequence at the end is one more part at the end. *)
LEMMA FlattenAppend ==
    ASSUME NEW T, NEW s \in Seq(Seq(T)), NEW x \in Seq(T)
    PROVE  FlattenSeq(Append(s, x)) = FlattenSeq(s) \o x
<1> DEFINE t == Append(s, x)
<1>1. /\ t \in Seq(Seq(T)) /\ Len(t) = Len(s) + 1 /\ Len(s) \in Nat
      /\ \A i \in 1..Len(s) : t[i] = s[i]
      /\ t[Len(s) + 1] = x
    BY AppendProperties
<1> HIDE DEF t
<1>2. PICK g : Gathers(g, t, Len(t)) /\ FlattenSeq(t) = g[Len(t)]
    BY <1>1, FlattenGathers
<1>3. g[Len(t)] = IF Len(s) = 0 THEN x ELSE g[Len(s)] \o x
    <2>1. Len(t) \in 1..Len(t) /\ Len(t) - 1 = Len(s)
        BY <1>1
    <2>2. g[Len(t)] = IF Len(t) = 1 THEN t[Len(t)] ELSE g[Len(t) - 1] \o t[Len(t)]
        BY <1>2, <2>1 DEF Gathers
    <2> QED
        BY <1>1, <2>1, <2>2
<1>4. CASE Len(s) = 0
    <2>1. s = << >>
        BY <1>4
    <2>2. FlattenSeq(s) \o x = x
        BY <2>1, FlattenEmpty, ConcatEmptySeq
    <2> QED
        BY <1>2, <1>3, <1>4, <2>2 DEF t
<1>5. CASE Len(s) # 0
    <2>1. PICK f : Gathers(f, s, Len(s)) /\ FlattenSeq(s) = f[Len(s)]
        BY <1>5, FlattenGathers
    <2>2. Len(s) \in 0..Len(s) /\ Len(s) \in 1..Len(s) /\ Len(s) <= Len(t)
        BY <1>1, <1>5
    <2>3. \A i \in 1..Len(s) : f[i] = g[i]
        <3>a. \A i \in 1..Len(s) : s[i] = t[i]
            BY <1>1
        <3>1. Len(s) \in Nat /\ Len(t) \in Nat /\ \A i \in 1..Len(s) : s[i] = t[i]
            BY <1>1, <3>a
        <3>2. Gathers(f, s, Len(s)) /\ Gathers(g, t, Len(t)) /\ Len(s) <= Len(t)
            BY <1>2, <2>1, <2>2
        <3> QED
            BY <3>1, <3>2, GathererIsUnique
    <2> QED
        BY <1>2, <1>3, <1>5, <2>1, <2>2, <2>3 DEF t
<1> QED
    BY <1>4, <1>5

(* One more element at the end of the last sequence is one more at the end. *)
LEMMA FlattenGrows ==
    ASSUME NEW T, NEW s \in Seq(Seq(T)), s # << >>, NEW x \in T
    PROVE  /\ [s EXCEPT ![Len(s)] = Append(@, x)] \in Seq(Seq(T))
           /\ [s EXCEPT ![Len(s)] = Append(@, x)] # << >>
           /\ FlattenSeq([s EXCEPT ![Len(s)] = Append(@, x)]) = Append(FlattenSeq(s), x)
<1> DEFINE f == Front(s)
           l == s[Len(s)]
           t == [s EXCEPT ![Len(s)] = Append(@, x)]
<1>1. f \in Seq(Seq(T)) /\ l \in Seq(T) /\ s = Append(f, l)
    BY FrontFacts
<1>2. Append(l, x) \in Seq(T) /\ Append(l, x) = l \o <<x>> /\ <<x>> \in Seq(T)
    BY <1>1, AppendProperties, AppendIsConcat
<1>3. Len(s) \in Nat \ {0} /\ Len(s) \in 1..Len(s)
    BY EmptySeq
<1>4. t = [s EXCEPT ![Len(s)] = Append(l, x)]
    BY <1>3
<1> HIDE DEF f, l, t
<1>5. /\ t \in Seq(Seq(T)) /\ Len(t) = Len(s)
      /\ \A j \in 1..Len(s) : t[j] = IF j = Len(s) THEN Append(l, x) ELSE s[j]
    BY <1>2, <1>3, <1>4, ExceptSeq
<1>6. /\ Append(f, Append(l, x)) \in Seq(Seq(T)) /\ Len(Append(f, Append(l, x))) = Len(f) + 1
      /\ \A j \in 1..Len(f) : Append(f, Append(l, x))[j] = f[j]
      /\ Append(f, Append(l, x))[Len(f) + 1] = Append(l, x)
    BY <1>1, <1>2, AppendProperties
<1>7. /\ Len(s) = Len(f) + 1 /\ \A j \in 1..Len(f) : s[j] = f[j]
    BY <1>1, AppendProperties
<1>8. \A j \in 1..Len(s) : t[j] = Append(f, Append(l, x))[j]
    <2> TAKE j \in 1..Len(s)
    <2>0. Len(f) \in Nat
        BY <1>1, LenProperties
    <2>1. j = Len(f) + 1 \/ (j \in 1..Len(f) /\ j # Len(s))
        BY <1>3, <1>7, <2>0
    <2> QED
        BY <1>5, <1>6, <1>7, <2>1
<1>9. t = Append(f, Append(l, x))
    BY <1>5, <1>6, <1>7, <1>8, SeqEqual
<1>10. FlattenSeq(f) \in Seq(T) /\ FlattenSeq(s) = FlattenSeq(f) \o l
    BY <1>1, FlattenType, FlattenAppend
<1>11. FlattenSeq(t) = FlattenSeq(f) \o (l \o <<x>>)
    BY <1>1, <1>2, <1>9, FlattenAppend
<1>12. FlattenSeq(t) = FlattenSeq(s) \o <<x>>
    <2>1. FlattenSeq(f) \o (l \o <<x>>) = (FlattenSeq(f) \o l) \o <<x>>
        <3> DEFINE a == FlattenSeq(f)
                   b == <<x>>
        <3>1. a \in Seq(T) /\ l \in Seq(T) /\ b \in Seq(T)
            BY <1>1, <1>2, <1>10
        <3> HIDE DEF a, b
        <3>2. (a \o l) \o b = a \o (l \o b)
            BY <3>1, ConcatAssociative, SMTT(20)
        <3> QED
            BY <3>2 DEF a, b
    <2> QED
        BY <1>10, <1>11, <2>1
<1>13. FlattenSeq(s) \o <<x>> = Append(FlattenSeq(s), x)
    BY FlattenType, AppendIsConcat
<1>14. t # << >>
    BY <1>3, <1>5, EmptySeq
<1> QED
    BY <1>5, <1>12, <1>13, <1>14 DEF t

(* The elements one by one, in sequences of one, are the sequence. *)
LEMMA FlattenSingles ==
    ASSUME NEW T, NEW s \in Seq(T)
    PROVE  FlattenSeq([i \in 1..Len(s) |-> <<s[i]>>]) = s
<1> DEFINE u(n) == [i \in 1..n |-> <<s[i]>>]
           v(n) == [i \in 1..n |-> s[i]]
           S == {n \in Nat : n <= Len(s) => FlattenSeq(u(n)) = v(n)}
<1>1. 0 \in S
    <2>1. u(0) = << >> /\ v(0) = << >>
        OBVIOUS
    <2> HIDE DEF u, v
    <2>2. FlattenSeq(u(0)) = v(0)
        BY <2>1, FlattenEmpty
    <2> QED
        BY <2>2
<1>2. ASSUME NEW n \in Nat, n \in S PROVE n + 1 \in S
    <2> SUFFICES ASSUME n + 1 <= Len(s) PROVE FlattenSeq(u(n + 1)) = v(n + 1)
        OBVIOUS
    <2> DEFINE x == s[n + 1]
    <2>0. Len(s) \in Nat /\ n + 1 \in 1..Len(s)
        OBVIOUS
    <2>1. /\ x \in T /\ <<x>> \in Seq(T) /\ \A i \in 1..(n + 1) : s[i] \in T /\ <<s[i]>> \in Seq(T)
        BY <2>0
    <2>2. /\ u(n) \in Seq(Seq(T)) /\ Len(u(n)) = n /\ u(n + 1) \in Seq(Seq(T)) /\ Len(u(n + 1)) = n + 1
          /\ v(n) \in Seq(T) /\ Len(v(n)) = n /\ v(n + 1) \in Seq(T) /\ Len(v(n + 1)) = n + 1
        BY <2>1
    <2>3. /\ \A i \in 1..n : u(n + 1)[i] = u(n)[i] /\ v(n + 1)[i] = v(n)[i]
          /\ u(n + 1)[n + 1] = <<x>> /\ v(n + 1)[n + 1] = x
        OBVIOUS
    <2>4. n <= Len(s)
        BY <2>0
    <2>5. FlattenSeq(u(n)) = v(n)
        BY <1>2, <2>4
    <2> HIDE DEF u, v, x, S
    <2>6. u(n + 1) = Append(u(n), <<x>>)
        <3>1. /\ Append(u(n), <<x>>) \in Seq(Seq(T)) /\ Len(Append(u(n), <<x>>)) = n + 1
              /\ \A i \in 1..n : Append(u(n), <<x>>)[i] = u(n)[i]
              /\ Append(u(n), <<x>>)[n + 1] = <<x>>
            BY <2>1, <2>2, AppendProperties
        <3>2. \A i \in 1..(n + 1) : u(n + 1)[i] = Append(u(n), <<x>>)[i]
            <4> TAKE i \in 1..(n + 1)
            <4>1. i = n + 1 \/ i \in 1..n
                OBVIOUS
            <4> QED
                BY <2>3, <3>1, <4>1
        <3> QED
            BY <2>2, <3>1, <3>2, SeqEqual
    <2>7. v(n + 1) = Append(v(n), x)
        <3>1. /\ Append(v(n), x) \in Seq(T) /\ Len(Append(v(n), x)) = n + 1
              /\ \A i \in 1..n : Append(v(n), x)[i] = v(n)[i]
              /\ Append(v(n), x)[n + 1] = x
            BY <2>1, <2>2, AppendProperties
        <3>2. \A i \in 1..(n + 1) : v(n + 1)[i] = Append(v(n), x)[i]
            <4> TAKE i \in 1..(n + 1)
            <4>1. i = n + 1 \/ i \in 1..n
                OBVIOUS
            <4> QED
                BY <2>3, <3>1, <4>1
        <3> QED
            BY <2>2, <3>1, <3>2, SeqEqual
    <2>8. FlattenSeq(u(n + 1)) = v(n) \o <<x>>
        BY <2>1, <2>2, <2>5, <2>6, FlattenAppend
    <2> QED
        BY <2>1, <2>2, <2>7, <2>8, AppendIsConcat
<1>3. Len(s) \in S
    <2> HIDE DEF S
    <2>1. Nat \subseteq S
        BY <1>1, <1>2, Induction
    <2> QED
        BY <2>1
<1>4. v(Len(s)) = s
    OBVIOUS
<1>5. FlattenSeq(u(Len(s))) = v(Len(s))
    BY <1>3
<1> QED
    BY <1>4, <1>5
=============================================================================
