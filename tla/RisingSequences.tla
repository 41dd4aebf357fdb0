--------------------------- MODULE RisingSequences ---------------------------
(***************************************************************************)
(* Facts about finite sequences, about sequences of numbers that rise, and *)
(* about sets of numbers, for the proofs about queues of commands.         *)
(***************************************************************************)
EXTENDS Integers, Sequences, Functions, TLAPS, SequenceTheorems, WellFoundedInduction

-----------------------------------------------------------------------------
(***************************************************************************)
(* Sequences of numbers that rise.                                         *)
(***************************************************************************)
Rising(s) == \A i, j \in DOMAIN s : i < j => s[i] < s[j]
Before(s, u) == \A i \in DOMAIN s, j \in DOMAIN u : s[i] < u[j]

\* p is a piece of s.
Piece(p, s) ==
    \E d \in Nat : Len(p) + d <= Len(s) /\ \A i \in 1..Len(p) : p[i] = s[i + d]

LEMMA RisingConcat ==
    ASSUME NEW s \in Seq(Nat), NEW u \in Seq(Nat), Rising(s), Rising(u), Before(s, u)
    PROVE  s \o u \in Seq(Nat) /\ Rising(s \o u)
<1>1. /\ DOMAIN s = 1..Len(s) /\ Len(s) \in Nat
      /\ DOMAIN u = 1..Len(u) /\ Len(u) \in Nat
  BY LenProperties
<1>2. /\ s \o u \in Seq(Nat) /\ Len(s \o u) = Len(s) + Len(u)
      /\ \A i \in 1..(Len(s) + Len(u)) : (s \o u)[i] = IF i <= Len(s) THEN s[i] ELSE u[i - Len(s)]
  BY ConcatProperties
<1>3. DOMAIN (s \o u) = 1..(Len(s) + Len(u))
  BY <1>2, LenProperties
<1>4. ASSUME NEW i \in 1..(Len(s) + Len(u)), NEW j \in 1..(Len(s) + Len(u)), i < j
      PROVE  (s \o u)[i] < (s \o u)[j]
  <2>1. CASE j <= Len(s)
    <3>1. i \in 1..Len(s) /\ j \in 1..Len(s)
      BY <1>1, <1>4, <2>1
    <3>2. i <= Len(s)
      BY <3>1
    <3>3. (s \o u)[i] = s[i] /\ (s \o u)[j] = s[j]
      BY <1>2, <2>1, <3>2
    <3>4. s[i] < s[j]
      BY <1>1, <1>4, <3>1 DEF Rising
    <3>. QED
      BY <3>3, <3>4
  <2>2. CASE i > Len(s)
    <3>1. i - Len(s) \in 1..Len(u) /\ j - Len(s) \in 1..Len(u) /\ i - Len(s) < j - Len(s)
      BY <1>1, <1>4, <2>2
    <3>2. ~ i <= Len(s) /\ ~ j <= Len(s)
      BY <1>1, <1>4, <2>2
    <3>3. (s \o u)[i] = u[i - Len(s)] /\ (s \o u)[j] = u[j - Len(s)]
      BY <1>2, <3>2
    <3>4. u[i - Len(s)] < u[j - Len(s)]
      BY <1>1, <3>1 DEF Rising
    <3>. QED
      BY <3>3, <3>4
  <2>3. CASE i <= Len(s) /\ j > Len(s)
    <3>1. i \in 1..Len(s) /\ j - Len(s) \in 1..Len(u) /\ ~ j <= Len(s)
      BY <1>1, <1>4, <2>3
    <3>. QED
      BY <1>1, <1>2, <2>3, <3>1 DEF Before
  <2>. QED
    BY <1>1, <2>1, <2>2, <2>3
<1>. QED
  BY <1>2, <1>3, <1>4 DEF Rising

\* What precedes or follows two sequences precedes or follows both together.
LEMMA BeforeConcat ==
    ASSUME NEW s \in Seq(Nat), NEW u \in Seq(Nat), NEW w \in Seq(Nat)
    PROVE  /\ Before(s, w) /\ Before(u, w) => Before(s \o u, w)
           /\ Before(w, s) /\ Before(w, u) => Before(w, s \o u)
<1>1. /\ DOMAIN s = 1..Len(s) /\ Len(s) \in Nat
      /\ DOMAIN u = 1..Len(u) /\ Len(u) \in Nat
  BY LenProperties
<1>2. /\ s \o u \in Seq(Nat) /\ Len(s \o u) = Len(s) + Len(u)
      /\ \A i \in 1..(Len(s) + Len(u)) : (s \o u)[i] = IF i <= Len(s) THEN s[i] ELSE u[i - Len(s)]
  BY ConcatProperties
<1>3. DOMAIN (s \o u) = 1..(Len(s) + Len(u))
  BY <1>2, LenProperties
<1>4. ASSUME NEW i \in DOMAIN (s \o u)
      PROVE  \/ \E j \in DOMAIN s : (s \o u)[i] = s[j]
             \/ \E j \in DOMAIN u : (s \o u)[i] = u[j]
  <2>1. CASE i <= Len(s)
    <3>1. i \in DOMAIN s /\ (s \o u)[i] = s[i]
      BY <1>1, <1>2, <1>3, <2>1
    <3>. QED
      BY <3>1
  <2>2. CASE ~ i <= Len(s)
    <3>1. i - Len(s) \in DOMAIN u /\ (s \o u)[i] = u[i - Len(s)]
      BY <1>1, <1>2, <1>3, <2>2
    <3>. QED
      BY <3>1
  <2>. QED
    BY <2>1, <2>2
<1>5. Before(s, w) /\ Before(u, w) => Before(s \o u, w)
  BY <1>4 DEF Before
<1>6. Before(w, s) /\ Before(w, u) => Before(w, s \o u)
  BY <1>4 DEF Before
<1>. QED
  BY <1>5, <1>6

LEMMA PieceOrder ==
    ASSUME NEW s \in Seq(Nat), NEW p \in Seq(Nat), Piece(p, s)
    PROVE  /\ Rising(s) => Rising(p)
           /\ \A w \in Seq(Nat) : Before(s, w) => Before(p, w)
           /\ \A w \in Seq(Nat) : Before(w, s) => Before(w, p)
<1>1. /\ DOMAIN s = 1..Len(s) /\ Len(s) \in Nat
      /\ DOMAIN p = 1..Len(p) /\ Len(p) \in Nat
  BY LenProperties
<1>2. PICK d \in Nat : Len(p) + d <= Len(s) /\ \A i \in 1..Len(p) : p[i] = s[i + d]
  BY DEF Piece
<1>3. \A i \in DOMAIN p : i + d \in DOMAIN s /\ p[i] = s[i + d]
  BY <1>1, <1>2
<1>4. \A i, j \in DOMAIN p : i < j => i + d < j + d
  BY <1>1
<1>5. Rising(s) => Rising(p)
  BY <1>3, <1>4 DEF Rising
<1>6. \A w \in Seq(Nat) : Before(s, w) => Before(p, w)
  BY <1>3 DEF Before
<1>7. \A w \in Seq(Nat) : Before(w, s) => Before(w, p)
  BY <1>3 DEF Before
<1>. QED
  BY <1>5, <1>6, <1>7

\* A sequence cut in two.
LEMMA CutOrder ==
    ASSUME NEW s \in Seq(Nat), NEW n \in 0..Len(s)
    PROVE  /\ SubSeq(s, 1, n) \in Seq(Nat) /\ Piece(SubSeq(s, 1, n), s)
           /\ SubSeq(s, n + 1, Len(s)) \in Seq(Nat) /\ Piece(SubSeq(s, n + 1, Len(s)), s)
           /\ Rising(s) => Before(SubSeq(s, 1, n), SubSeq(s, n + 1, Len(s)))
<1>. DEFINE p == SubSeq(s, 1, n)
            q == SubSeq(s, n + 1, Len(s))
<1>1. DOMAIN s = 1..Len(s) /\ Len(s) \in Nat /\ n \in Nat /\ n <= Len(s)
  BY LenProperties
<1>2. /\ p \in Seq(Nat) /\ Len(p) = n
      /\ \A i \in 1..n : p[i] = s[i]
  <2>1. \A i \in 1..n : s[i] \in Nat
    BY <1>1, ElementOfSeq
  <2>2. /\ SubSeq(s, 1, n) \in Seq(Nat)
        /\ Len(SubSeq(s, 1, n)) = IF 1 <= n THEN n - 1 + 1 ELSE 0
        /\ \A i \in 1..(n - 1 + 1) : SubSeq(s, 1, n)[i] = s[1 + i - 1]
    BY <1>1, <2>1, SubSeqProperties
  <2>3. n - 1 + 1 = n /\ \A i \in 1..n : 1 + i - 1 = i
    BY <1>1
  <2>. QED
    BY <1>1, <2>2, <2>3
<1>3. /\ q \in Seq(Nat) /\ Len(q) = Len(s) - n
      /\ \A i \in 1..(Len(s) - n) : q[i] = s[i + n]
  <2>1. \A i \in (n + 1)..Len(s) : s[i] \in Nat
    BY <1>1, ElementOfSeq
  <2>2. /\ SubSeq(s, n + 1, Len(s)) \in Seq(Nat)
        /\ Len(SubSeq(s, n + 1, Len(s))) = IF n + 1 <= Len(s) THEN Len(s) - (n + 1) + 1 ELSE 0
        /\ \A i \in 1..(Len(s) - (n + 1) + 1) : SubSeq(s, n + 1, Len(s))[i] = s[(n + 1) + i - 1]
    BY <1>1, <2>1, SubSeqProperties
  <2>3. Len(s) - (n + 1) + 1 = Len(s) - n /\ \A i \in 1..(Len(s) - n) : (n + 1) + i - 1 = i + n
    BY <1>1
  <2>4. ~ n + 1 <= Len(s) => Len(s) - n = 0
    <3>1. \A l \in Nat : n <= l /\ ~ n + 1 <= l => l - n = 0
      BY <1>1
    <3>. QED
      BY <1>1, <3>1
  <2>5. Len(q) = Len(s) - n
    BY <2>2, <2>3, <2>4
  <2>6. \A i \in 1..(Len(s) - n) : q[i] = s[i + n]
    BY <2>2, <2>3
  <2>7. q \in Seq(Nat)
    BY <2>2
  <2>. HIDE DEF q
  <2>. QED
    BY <2>5, <2>6, <2>7
<1>. HIDE DEF p, q
<1>4. Piece(p, s)
  <2>1. Len(p) + 0 <= Len(s) /\ \A i \in 1..Len(p) : p[i] = s[i + 0]
    BY <1>1, <1>2
  <2>. QED
    BY <2>1 DEF Piece
<1>5. Piece(q, s)
  <2>1. Len(q) + n <= Len(s) /\ \A i \in 1..Len(q) : q[i] = s[i + n]
    BY <1>1, <1>3
  <2>. QED
    BY <1>1, <2>1 DEF Piece
<1>6. Rising(s) => Before(p, q)
  <2>1. SUFFICES ASSUME Rising(s), NEW i \in DOMAIN p, NEW j \in DOMAIN q PROVE p[i] < q[j]
    BY DEF Before
  <2>2. i \in 1..n /\ j \in 1..(Len(s) - n)
    BY <1>2, <1>3, LenProperties
  <2>3. i \in DOMAIN s /\ j + n \in DOMAIN s /\ i < j + n
    BY <1>1, <2>2
  <2>. QED
    BY <1>2, <1>3, <2>1, <2>2, <2>3 DEF Rising
<1>. QED
  BY <1>2, <1>3, <1>4, <1>5, <1>6 DEF p, q

\* Head and tail are such a cut.
LEMMA HeadOrder ==
    ASSUME NEW s \in Seq(Nat), s # <<>>
    PROVE  /\ Head(s) \in Nat /\ <<Head(s)>> \in Seq(Nat) /\ Piece(<<Head(s)>>, s)
           /\ Tail(s) \in Seq(Nat) /\ Piece(Tail(s), s)
           /\ Rising(s) => Before(<<Head(s)>>, Tail(s))
<1>1. Len(s) \in Nat \ {0} /\ 1 \in 0..Len(s) /\ 1 \in 1..Len(s)
  BY EmptySeq
<1>2. SubSeq(s, 1 + 1, Len(s)) = Tail(s)
  BY TailIsSubSeq
<1>3. Head(s) = s[1]
  OBVIOUS
<1>4. SubSeq(s, 1, 1) = <<s[1]>>
  <2>1. s[1] \in Nat
    BY <1>1, ElementOfSeq
  <2>2. /\ SubSeq(s, 1, 1) \in Seq(Nat)
        /\ Len(SubSeq(s, 1, 1)) = 1
        /\ SubSeq(s, 1, 1)[1] = s[1]
    <3>1. \A i \in 1..1 : s[i] \in Nat
      BY <2>1
    <3>2. /\ SubSeq(s, 1, 1) \in Seq(Nat)
          /\ Len(SubSeq(s, 1, 1)) = IF 1 <= 1 THEN 1 - 1 + 1 ELSE 0
          /\ \A i \in 1..(1 - 1 + 1) : SubSeq(s, 1, 1)[i] = s[1 + i - 1]
      BY <3>1, SubSeqProperties
    <3>. QED
      BY <3>2
  <2>3. PICK x \in Nat : x = s[1]
    BY <2>1
  <2>4. <<x>> \in Seq(Nat) /\ Len(<<x>>) = 1 /\ <<x>>[1] = x
    OBVIOUS
  <2>5. Len(SubSeq(s, 1, 1)) = Len(<<x>>) /\ \A i \in 1..Len(SubSeq(s, 1, 1)) : SubSeq(s, 1, 1)[i] = <<x>>[i]
    BY <2>2, <2>3, <2>4
  <2>. QED
    BY <2>2, <2>3, <2>4, <2>5, SeqEqual
<1>5. /\ SubSeq(s, 1, 1) \in Seq(Nat) /\ Piece(SubSeq(s, 1, 1), s)
      /\ SubSeq(s, 1 + 1, Len(s)) \in Seq(Nat) /\ Piece(SubSeq(s, 1 + 1, Len(s)), s)
      /\ Rising(s) => Before(SubSeq(s, 1, 1), SubSeq(s, 1 + 1, Len(s)))
  BY <1>1, CutOrder
<1>6. s[1] \in Nat
  BY <1>1, ElementOfSeq
<1>. QED
  BY <1>2, <1>3, <1>4, <1>5, <1>6

LEMMA OneOrder ==
    ASSUME NEW n \in Nat
    PROVE  <<n>> \in Seq(Nat) /\ Rising(<<n>>)
BY DEF Rising

LEMMA NoneOrder ==
    /\ <<>> \in Seq(Nat) /\ Rising(<<>>)
    /\ \A s : Before(<<>>, s) /\ Before(s, <<>>)
<1>1. <<>> \in Seq(Nat) /\ DOMAIN <<>> = {}
  BY EmptySeq
<1>. QED
  BY <1>1 DEF Rising, Before

-----------------------------------------------------------------------------
(***************************************************************************)
(* Cuts of any sequence and its elements.                                  *)
(***************************************************************************)
LEMMA CutType ==
    ASSUME NEW S, NEW s \in Seq(S), NEW n \in 0..Len(s)
    PROVE  /\ SubSeq(s, 1, n) \in Seq(S) /\ SubSeq(s, n + 1, Len(s)) \in Seq(S)
           /\ Range(SubSeq(s, 1, n)) \subseteq Range(s)
           /\ Range(SubSeq(s, n + 1, Len(s))) \subseteq Range(s)
<1>1. Len(s) \in Nat /\ DOMAIN s = 1..Len(s) /\ n \in Int
  BY LenProperties
<1>2. /\ \A i \in 1..n : s[i] \in Range(s) /\ s[i] \in S
      /\ \A i \in (n + 1)..Len(s) : s[i] \in Range(s) /\ s[i] \in S
  <2>1. \A i \in DOMAIN s : s[i] \in Range(s)
    BY DEF Range
  <2>2. \A i \in DOMAIN s : s[i] \in S
    BY <1>1, ElementOfSeq
  <2>. QED
    BY <1>1, <2>1, <2>2
<1>3. SubSeq(s, 1, n) \in Seq(S) /\ SubSeq(s, n + 1, Len(s)) \in Seq(S)
  BY <1>1, <1>2, SubSeqProperties
<1>4. SubSeq(s, 1, n) \in Seq(Range(s)) /\ SubSeq(s, n + 1, Len(s)) \in Seq(Range(s))
  BY <1>1, <1>2, SubSeqProperties
<1>. QED
  BY <1>3, <1>4, RangeOfSeq

LEMMA JoinRange ==
    ASSUME NEW S, NEW s \in Seq(S), NEW u \in Seq(S)
    PROVE  Range(s \o u) = Range(s) \cup Range(u)
BY RangeConcatenation

LEMMA AppendRange ==
    ASSUME NEW S, NEW s \in Seq(S), NEW x \in S
    PROVE  Range(Append(s, x)) = Range(s) \cup {x}
<1>1. PICK u \in Seq(S) : u = Append(s, x)
  BY AppendProperties
<1>2. Len(s) \in Nat /\ DOMAIN s = 1..Len(s) /\ DOMAIN u = 1..Len(u)
  BY LenProperties
<1>3. Len(u) = Len(s) + 1 /\ (\A i \in 1..Len(s) : u[i] = s[i]) /\ u[Len(s) + 1] = x
  BY <1>1, AppendProperties
<1>4. DOMAIN u = DOMAIN s \cup {Len(s) + 1}
  BY <1>2, <1>3
<1>5. (\A i \in DOMAIN s : u[i] = s[i]) /\ u[Len(s) + 1] = x
  BY <1>2, <1>3
<1>6. Range(u) = Range(s) \cup {x}
  BY <1>4, <1>5 DEF Range
<1>. QED
  BY <1>1, <1>6

\* Taking the head of a joined sequence, and adding to its end.
LEMMA JoinHead ==
    ASSUME NEW S, NEW s \in Seq(S), NEW u \in Seq(S), s # <<>>
    PROVE  s \o u # <<>> /\ Head(s \o u) = Head(s) /\ Tail(s \o u) = Tail(s) \o u
<1>. PICK w \in Seq(S) : w = s \o u
  BY ConcatProperties
<1>. PICK t \in Seq(S) : t = Tail(s)
  BY HeadTailProperties
<1>. PICK v \in Seq(S) : v = t \o u
  BY ConcatProperties
<1>1. /\ Len(s) \in Nat /\ Len(s) >= 1 /\ Len(u) \in Nat
      /\ Len(w) = Len(s) + Len(u)
      /\ \A i \in 1..(Len(s) + Len(u)) : w[i] = IF i <= Len(s) THEN s[i] ELSE u[i - Len(s)]
  BY EmptySeq, LenProperties, ConcatProperties
<1>2. /\ Len(t) = Len(s) - 1 /\ \A i \in 1..Len(t) : t[i] = s[i + 1]
  BY HeadTailProperties
<1>3. /\ Len(v) = Len(t) + Len(u)
      /\ \A i \in 1..(Len(t) + Len(u)) : v[i] = IF i <= Len(t) THEN t[i] ELSE u[i - Len(t)]
  BY ConcatProperties
<1>4. w # <<>> /\ w[1] = s[1]
  BY <1>1, EmptySeq
<1>. PICK x \in Seq(S) : x = Tail(w)
  BY <1>4, HeadTailProperties
<1>5. Len(x) = Len(w) - 1 /\ \A i \in 1..Len(x) : x[i] = w[i + 1]
  BY <1>4, HeadTailProperties
<1>6. Len(x) = Len(v) /\ Len(x) \in Nat
  BY <1>1, <1>2, <1>3, <1>5
<1>7. ASSUME NEW i \in 1..Len(x) PROVE x[i] = v[i]
  <2>1. i + 1 \in 1..(Len(s) + Len(u)) /\ i \in 1..(Len(t) + Len(u))
    BY <1>1, <1>2, <1>3, <1>6, <1>7
  <2>2. x[i] = IF i + 1 <= Len(s) THEN s[i + 1] ELSE u[(i + 1) - Len(s)]
    BY <1>1, <1>5, <1>7, <2>1
  <2>3. v[i] = IF i <= Len(t) THEN t[i] ELSE u[i - Len(t)]
    BY <1>3, <2>1
  <2>4. CASE i <= Len(t)
    <3>1. i \in 1..Len(t) /\ i + 1 <= Len(s)
      BY <1>1, <1>2, <2>4
    <3>. QED
      BY <1>2, <2>2, <2>3, <3>1
  <2>5. CASE ~ (i <= Len(t))
    <3>1. ~ (i + 1 <= Len(s)) /\ (i + 1) - Len(s) = i - Len(t)
      BY <1>1, <1>2, <2>5
    <3>. QED
      BY <2>2, <2>3, <2>5, <3>1
  <2>. QED
    BY <2>4, <2>5
<1>8. x = v
  BY <1>6, <1>7, SeqEqual
<1>. QED
  BY <1>4, <1>5, <1>8

LEMMA JoinAppend ==
    ASSUME NEW S, NEW s \in Seq(S), NEW u \in Seq(S), NEW x \in S
    PROVE  s \o Append(u, x) = Append(s \o u, x)
<1>1. <<x>> \in Seq(S) /\ s \o u \in Seq(S)
  BY ConcatProperties
<1>2. Append(u, x) = u \o <<x>> /\ Append(s \o u, x) = (s \o u) \o <<x>>
  BY <1>1, AppendIsConcat
<1>. QED
  BY <1>1, <1>2, ConcatAssociative

LEMMA CutJoin ==
    ASSUME NEW S, NEW s \in Seq(S), NEW n \in 0..Len(s)
    PROVE  SubSeq(s, 1, n) \o SubSeq(s, n + 1, Len(s)) = s
<1>1. Len(s) \in Nat /\ 1 \in 1..(Len(s) + 1) /\ n \in (1 - 1)..Len(s) /\ Len(s) \in n..Len(s)
  BY LenProperties
<1>2. SubSeq(s, 1, n) \o SubSeq(s, n + 1, Len(s)) = SubSeq(s, 1, Len(s))
  BY <1>1, ConcatAdjacentSubSeq
<1>3. SubSeq(s, 1, Len(s)) = s
  BY SubSeqFull
<1>. QED
  BY <1>2, <1>3

\* A rising sequence, its head and its end.
LEMMA RisingHead ==
    ASSUME NEW s \in Seq(Nat), s # <<>>, Rising(s)
    PROVE  /\ Rising(Tail(s)) /\ Head(s) \in Range(s) /\ Head(s) \in Nat
           /\ Range(Tail(s)) = Range(s) \ {Head(s)}
           /\ \A x \in Range(s) : Head(s) <= x
<1>. PICK t \in Seq(Nat) : t = Tail(s)
  BY HeadTailProperties
<1>1. /\ Len(s) \in Nat /\ Len(s) >= 1 /\ DOMAIN s = 1..Len(s)
      /\ DOMAIN t = 1..(Len(s) - 1) /\ \A i \in DOMAIN t : i + 1 \in DOMAIN s /\ t[i] = s[i + 1]
  BY EmptySeq, LenProperties, HeadTailProperties
<1>2. \A i \in DOMAIN s : s[i] \in Nat /\ s[i] \in Range(s)
  BY <1>1, ElementOfSeq DEF Range
<1>3. \A i \in DOMAIN s : i = 1 \/ (1 < i /\ s[1] < s[i] /\ i - 1 \in DOMAIN t /\ t[i - 1] = s[i])
  BY <1>1 DEF Rising
<1>4. Rising(t)
  BY <1>1 DEF Rising
<1>5. Head(s) = s[1] /\ 1 \in DOMAIN s
  BY <1>1
<1>6. \A x \in Range(s) : \E i \in DOMAIN s : s[i] = x
  BY DEF Range
<1>7. \A x \in Range(s) : s[1] <= x
  BY <1>2, <1>3, <1>5, <1>6
<1>8. \A i \in DOMAIN t : t[i] \in Range(s) /\ t[i] # s[1] /\ t[i] \in Range(t)
  <2>1. \A i \in DOMAIN t : i + 1 # 1
    BY <1>1
  <2>2. \A i \in DOMAIN t : s[i + 1] # s[1]
    BY <1>1, <1>2, <1>3, <1>5, <2>1
  <2>. QED
    BY <1>1, <1>2, <2>2 DEF Range
<1>9. Range(t) \subseteq Range(s) \ {s[1]}
  BY <1>8 DEF Range
<1>10. ASSUME NEW x \in Range(s), x # s[1] PROVE x \in Range(t)
  <2>1. PICK i \in DOMAIN s : s[i] = x
    BY <1>6
  <2>2. i - 1 \in DOMAIN t /\ t[i - 1] = x
    BY <1>3, <1>10, <2>1
  <2>. QED
    BY <1>8, <2>2
<1>. QED
  BY <1>2, <1>4, <1>5, <1>7, <1>9, <1>10

LEMMA RisingAppend ==
    ASSUME NEW s \in Seq(Nat), NEW n \in Nat, Rising(s), \A x \in Range(s) : x < n
    PROVE  Rising(Append(s, n))
<1>. PICK t \in Seq(Nat) : t = Append(s, n)
  BY AppendProperties
<1>1. /\ Len(s) \in Nat /\ DOMAIN s = 1..Len(s) /\ DOMAIN t = 1..(Len(s) + 1)
      /\ (\A i \in 1..Len(s) : t[i] = s[i]) /\ t[Len(s) + 1] = n
  BY AppendProperties, LenProperties
<1>2. \A i \in DOMAIN s : s[i] < n
  BY DEF Range
<1>3. \A i, j \in DOMAIN t : i < j => i \in DOMAIN s /\ (j \in DOMAIN s \/ j = Len(s) + 1)
  BY <1>1
<1>. QED
  BY <1>1, <1>2, <1>3 DEF Rising

-----------------------------------------------------------------------------
(***************************************************************************)
(* The least and the greatest of a set of numbers, and induction over such *)
(* a set.                                                                  *)
(***************************************************************************)
LEMMA LeastExists ==
    ASSUME NEW U \in SUBSET Nat, U # {}
    PROVE  \E x \in U : \A y \in U : x <= y
<1>1. IsWellFoundedOn(OpToRel(<, Nat), Nat)
  BY NatLessThanWellFounded
<1>. DEFINE R == OpToRel(<, Nat)
<1>2. PICK x \in U : \A y \in U : ~ (<<y, x>> \in R)
  <2>. HIDE DEF R
  <2>1. IsWellFoundedOn(R, Nat)
    BY <1>1 DEF R
  <2>. QED
    BY <2>1, WFMin
<1>3. \A y \in U : ~ (y < x)
  BY <1>2 DEF OpToRel
<1>4. \A y \in U : x <= y
  BY <1>3
<1>. QED
  BY <1>4

LEMMA GreatestExists ==
    ASSUME NEW n \in Nat, NEW U \in SUBSET (0..n), U # {}
    PROVE  \E x \in U : \A y \in U : y <= x
<1>. DEFINE V == {m \in 0..n : n - m \in U}
<1>1. V \in SUBSET Nat /\ V # {}
  <2>1. PICK u \in U : TRUE
    OBVIOUS
  <2>2. PICK m \in 0..n : m = n - u /\ n - m = u
    BY <2>1
  <2>3. m \in V
    BY <2>2
  <2>4. V \in SUBSET Nat
    OBVIOUS
  <2>. HIDE DEF V
  <2>. QED
    BY <2>3, <2>4
<1>2. PICK m \in V : \A y \in V : m <= y
  BY <1>1, LeastExists
<1>3. ASSUME NEW y \in U PROVE y <= n - m
  <2>1. n - y \in 0..n /\ n - (n - y) = y
    BY <1>3
  <2>2. m <= n - y
    BY <1>2, <2>1
  <2>. QED
    BY <1>2, <2>2
<1>. QED
  BY <1>2, <1>3

LEMMA NatSetInduction ==
    ASSUME NEW T \in SUBSET Nat, 0 \in T, \A n \in T : n + 1 \in T
    PROVE  T = Nat
<1>. SUFFICES ASSUME Nat \ T # {} PROVE FALSE
  OBVIOUS
<1>1. PICK x \in Nat \ T : \A y \in Nat \ T : x <= y
  BY LeastExists
<1>2. PICK y \in Nat : y + 1 = x
  <2>1. x \in Nat /\ x # 0
    BY <1>1
  <2>2. x - 1 \in Nat /\ (x - 1) + 1 = x
    BY <2>1
  <2>. QED
    BY <2>2
<1>3. y \in T
  BY <1>1, <1>2
<1>4. y + 1 \in T
  BY <1>3
<1>. QED
  BY <1>1, <1>2, <1>4
=============================================================================
