-------------------------- MODULE HttpServerProofs --------------------------
(***************************************************************************)
(* The connections of HttpServer, for any browsers, scripts and sizes of   *)
(* buffers: their types, the bound on what is buffered of a file, and what *)
(* each step leaves of a stream of requests, so that the event handler is  *)
(* given the requests of a connection in order and each of them once.      *)
(***************************************************************************)
EXTENDS HttpServer, RisingSequences, FiniteSetTheorems

-----------------------------------------------------------------------------
(***************************************************************************)
(* Sequences as functions, their cuts, and functions defined by recursion. *)
(***************************************************************************)

LEMMA FunctionSeq ==
    ASSUME NEW S, NEW n \in Nat, NEW f \in [1..n -> S]
    PROVE  f \in Seq(S) /\ Len(f) = n
<1>1. f \in Seq(S)
  BY SeqDef
<1>2. Len(f) \in Nat /\ DOMAIN f = 1..Len(f) /\ DOMAIN f = 1..n
  BY <1>1, LenProperties
<1>3. Len(f) = n
  BY <1>2
<1>. QED
  BY <1>1, <1>3

LEMMA OneSeq ==
    ASSUME NEW S, NEW x \in S
    PROVE  <<x>> \in Seq(S) /\ Len(<<x>>) = 1 /\ <<x>>[1] = x
<1>1. <<x>> \in [1..1 -> S]
  OBVIOUS
<1>. QED
  BY <1>1, FunctionSeq

\* The first n elements of a sequence, and the others.
LEMMA Cut ==
    ASSUME NEW S, NEW s \in Seq(S), NEW n \in 0..Len(s)
    PROVE  /\ SubSeq(s, 1, n) \in Seq(S) /\ Len(SubSeq(s, 1, n)) = n
           /\ \A i \in 1..n : SubSeq(s, 1, n)[i] = s[i]
           /\ SubSeq(s, n + 1, Len(s)) \in Seq(S) /\ Len(SubSeq(s, n + 1, Len(s))) = Len(s) - n
           /\ \A i \in 1..(Len(s) - n) : SubSeq(s, n + 1, Len(s))[i] = s[n + i]
<1>1. Len(s) \in Nat /\ n \in Nat /\ n <= Len(s)
  BY LenProperties
<1>2. (\A i \in 1..n : s[i] \in S) /\ (\A i \in (n + 1)..Len(s) : s[i] \in S)
  BY <1>1, ElementOfSeq
<1>3. /\ SubSeq(s, 1, n) \in Seq(S) /\ Len(SubSeq(s, 1, n)) = IF 1 <= n THEN n - 1 + 1 ELSE 0
      /\ \A i \in 1..(n - 1 + 1) : SubSeq(s, 1, n)[i] = s[1 + i - 1]
  BY <1>1, <1>2, SubSeqProperties
<1>4. /\ SubSeq(s, n + 1, Len(s)) \in Seq(S)
      /\ Len(SubSeq(s, n + 1, Len(s))) = IF n + 1 <= Len(s) THEN Len(s) - (n + 1) + 1 ELSE 0
      /\ \A i \in 1..(Len(s) - (n + 1) + 1) : SubSeq(s, n + 1, Len(s))[i] = s[n + 1 + i - 1]
  BY <1>1, <1>2, SubSeqProperties
<1>5. n - 1 + 1 = n /\ Len(s) - (n + 1) + 1 = Len(s) - n
  BY <1>1
<1>6. \A i \in 1..n : 1 + i - 1 = i
  BY <1>1
<1>7. \A i \in 1..(Len(s) - n) : n + 1 + i - 1 = n + i
  BY <1>1
<1>8. Len(SubSeq(s, 1, n)) = n /\ Len(SubSeq(s, n + 1, Len(s))) = Len(s) - n
  BY <1>1, <1>3, <1>4
<1>9. \A i \in 1..n : SubSeq(s, 1, n)[i] = s[i]
  BY <1>3, <1>5, <1>6
<1>10. \A i \in 1..(Len(s) - n) : SubSeq(s, n + 1, Len(s))[i] = s[n + i]
  BY <1>4, <1>5, <1>7
<1>. QED
  BY <1>3, <1>4, <1>8, <1>9, <1>10

\* One sequence after the other.
LEMMA Join ==
    ASSUME NEW S, NEW s \in Seq(S), NEW t \in Seq(S)
    PROVE  /\ s \o t \in Seq(S) /\ Len(s \o t) = Len(s) + Len(t) /\ Len(s \o t) \in Nat
           /\ \A i \in 1..Len(s) : (s \o t)[i] = s[i]
           /\ \A i \in 1..Len(t) : (s \o t)[Len(s) + i] = t[i]
<1>1. Len(s) \in Nat /\ Len(t) \in Nat
  BY LenProperties
<1>2. /\ s \o t \in Seq(S) /\ Len(s \o t) = Len(s) + Len(t)
      /\ \A i \in 1..Len(s) + Len(t) : (s \o t)[i] = IF i <= Len(s) THEN s[i] ELSE t[i - Len(s)]
  BY ConcatProperties
<1>3. \A i \in 1..Len(s) : i \in 1..Len(s) + Len(t) /\ i <= Len(s)
  BY <1>1
<1>4. \A i \in 1..Len(t) : /\ Len(s) + i \in 1..Len(s) + Len(t) /\ ~ Len(s) + i <= Len(s)
                            /\ (Len(s) + i) - Len(s) = i
  BY <1>1
<1>5. \A i \in 1..Len(s) : (s \o t)[i] = s[i]
  BY ONLY <1>2, <1>3
<1>6. \A i \in 1..Len(t) : (s \o t)[Len(s) + i] = t[i]
  BY ONLY <1>2, <1>4
<1>7. Len(s \o t) \in Nat
  BY <1>1, <1>2
<1>. QED
  BY <1>2, <1>5, <1>6, <1>7

\* The greater and the smaller of two numbers.
LEMMA MaxTwo == ASSUME NEW a \in Int, NEW b \in Int PROVE Max({a, b}) = IF a >= b THEN a ELSE b
<1>1. PICK m \in {a, b} : (m = IF a >= b THEN a ELSE b) /\ \A y \in {a, b} : m >= y
  OBVIOUS
<1>2. \A x \in {a, b} : (\A y \in {a, b} : x >= y) => x = m
  BY <1>1
<1>. QED
  BY <1>1, <1>2 DEF Max

LEMMA MinTwo == ASSUME NEW a \in Int, NEW b \in Int PROVE Min({a, b}) = IF a <= b THEN a ELSE b
<1>1. PICK m \in {a, b} : (m = IF a <= b THEN a ELSE b) /\ \A y \in {a, b} : m =< y
  OBVIOUS
<1>2. \A x \in {a, b} : (\A y \in {a, b} : x =< y) => x = m
  BY <1>1
<1>. QED
  BY <1>1, <1>2 DEF Min

\* What a step from every number to the next computes.
Steps(f, n, a, step) ==
    f = [i \in 0..n |-> IF i = 0 THEN a ELSE step[i][f[i - 1]]]

LEMMA Recursion ==
    ASSUME NEW S, NEW n \in Nat, NEW a \in S, NEW step \in [1..n -> [S -> S]]
    PROVE  \E f \in [0..n -> S] : Steps(f, n, a, step)
<1>. DEFINE T == {m \in Nat : m <= n => \E f \in [0..m -> S] : Steps(f, m, a, step)}
<1>1. 0 \in T
  <2>1. [i \in 0..0 |-> a] \in [0..0 -> S] /\ Steps([i \in 0..0 |-> a], 0, a, step)
    BY DEF Steps
  <2>. QED
    BY <2>1
<1>2. ASSUME NEW m \in T PROVE m + 1 \in T
  <2>. SUFFICES ASSUME m + 1 <= n
                PROVE  \E g \in [0..(m + 1) -> S] : Steps(g, m + 1, a, step)
    OBVIOUS
  <2>1. PICK f \in [0..m -> S] : Steps(f, m, a, step)
    <3>1. m \in Nat /\ m <= n
      OBVIOUS
    <3>. QED
      BY <3>1
  <2>. DEFINE g == [i \in 0..(m + 1) |-> IF i = m + 1 THEN step[m + 1][f[m]] ELSE f[i]]
  <2>2. f[m] \in S /\ m + 1 \in 1..n /\ step[m + 1][f[m]] \in S
    OBVIOUS
  <2>3. g \in [0..(m + 1) -> S]
    BY <2>2
  <2>4. \A i \in 0..(m + 1) : g[i] = IF i = 0 THEN a ELSE step[i][g[i - 1]]
    <3>1. \A i \in 0..m : f[i] = IF i = 0 THEN a ELSE step[i][f[i - 1]]
      BY <2>1 DEF Steps
    <3>2. \A i \in 0..m : g[i] = f[i]
      OBVIOUS
    <3>3. \A i \in 1..m : g[i - 1] = f[i - 1]
      OBVIOUS
    <3>4. g[m + 1] = step[m + 1][g[m]]
      BY <3>2
    <3>5. \A i \in 0..m : g[i] = IF i = 0 THEN a ELSE step[i][g[i - 1]]
      BY <3>1, <3>2, <3>3
    <3>6. \A i \in 0..(m + 1) : i \in 0..m \/ (i = m + 1 /\ i # 0 /\ i - 1 = m)
      OBVIOUS
    <3>. HIDE DEF g
    <3>. QED
      BY <3>4, <3>5, <3>6
  <2>5. Steps(g, m + 1, a, step)
    BY <2>4 DEF Steps
  <2>. QED
    BY <2>3, <2>5
<1>3. T = Nat
  <2>. HIDE DEF T
  <2>1. T \in SUBSET Nat
    BY DEF T
  <2>. QED
    BY <1>1, <1>2, <2>1, NatSetInduction
<1>. QED
  BY <1>3

\* The sums of the chunks of a body.
LEMMA BodyUpToIs ==
    ASSUME NEW req, req.body \in Seq(Nat)
    PROVE  /\ BodyUpTo(req, 0) = 0
           /\ \A k \in 1..Len(req.body) : BodyUpTo(req, k) = BodyUpTo(req, k - 1) + req.body[k]
           /\ \A k \in 0..Len(req.body) : BodyUpTo(req, k) \in Nat
<1>. DEFINE b == req.body
            n == Len(req.body)
            step == [i \in 1..n |-> [x \in Nat |-> x + b[i]]]
            R(f) == f = [i \in 0..n |-> IF i = 0 THEN 0 ELSE f[i - 1] + b[i]]
<1>1. n \in Nat /\ \A i \in 1..n : b[i] \in Nat
  BY LenProperties, ElementOfSeq
<1>2. step \in [1..n -> [Nat -> Nat]]
  BY <1>1
<1>3. PICK f \in [0..n -> Nat] : Steps(f, n, 0, step)
  <2>. HIDE DEF step, n
  <2>. QED
    BY <1>1, <1>2, Recursion
<1>4. R(f)
  <2>1. \A i \in 1..n : step[i][f[i - 1]] = f[i - 1] + b[i]
    <3>. HIDE DEF n, b
    <3>1. \A i \in 1..n : i - 1 \in 0..n /\ f[i - 1] \in Nat
      BY <1>1
    <3>2. \A i \in 1..n, x \in Nat : step[i][x] = x + b[i]
      OBVIOUS
    <3>. HIDE DEF step
    <3>. QED
      BY <3>1, <3>2
  <2>2. f = [i \in 0..n |-> IF i = 0 THEN 0 ELSE step[i][f[i - 1]]]
    BY <1>3 DEF Steps
  <2>. HIDE DEF step, n, b
  <2>3. \A i \in 0..n : f[i] = IF i = 0 THEN 0 ELSE f[i - 1] + b[i]
    BY <1>1, <2>1, <2>2
  <2>. QED
    BY <2>3
<1>. DEFINE h == CHOOSE g : R(g)
<1>5. R(h)
  BY <1>4
<1>6. \A k : BodyUpTo(req, k) = h[k]
  BY DEF BodyUpTo
<1>7. h[0] = 0 /\ \A k \in 1..n : h[k] = h[k - 1] + b[k]
  <2>. HIDE DEF h, n, b
  <2>. QED
    BY <1>1, <1>5
<1>8. \A k \in 0..n : h[k] \in Nat
  <2>. HIDE DEF h, n, b
  <2>. DEFINE T == {k \in Nat : k <= n => h[k] \in Nat}
  <2>1. 0 \in T
    BY <1>7
  <2>2. \A k \in T : k + 1 \in T
    <3>. SUFFICES ASSUME NEW k \in T, k + 1 <= n PROVE h[k + 1] \in Nat
      OBVIOUS
    <3>1. k \in Nat /\ k <= n /\ k + 1 \in 1..n /\ (k + 1) - 1 = k
      BY <1>1
    <3>2. h[k] \in Nat /\ b[k + 1] \in Nat /\ h[k + 1] = h[k] + b[k + 1]
      BY <1>1, <1>7, <3>1
    <3>. QED
      BY <3>2
  <2>3. T = Nat
    BY <2>1, <2>2, NatSetInduction
  <2>4. \A k \in 0..n : k \in Nat /\ k <= n
    BY <1>1
  <2>5. \A k \in 0..n : k \in T
    BY <2>3, <2>4
  <2>. QED
    BY <2>4, <2>5
<1>. QED
  BY <1>6, <1>7, <1>8

LEMMA BodyLenType == ASSUME NEW req, req.body \in Seq(Nat) PROVE BodyLen(req) \in Nat
<1>1. Len(req.body) \in Nat
  BY LenProperties
<1>. QED
  BY <1>1, BodyUpToIs DEF BodyLen

\* Keeping some elements of a list.
Unrepeated(s) == \A i, j \in DOMAIN s : s[i] = s[j] => i = j

LEMMA AmongIs ==
    ASSUME NEW S, NEW all \in Seq(S), NEW keep
    PROVE  /\ Among(all, keep) \in Seq(S \cap keep)
           /\ ToSet(Among(all, keep)) = ToSet(all) \cap keep
           /\ Unrepeated(all) => Unrepeated(Among(all, keep))
<1>. DEFINE n == Len(all)
            step == [i \in 1..n |-> [x \in Seq(S) |-> IF all[i] \in keep THEN Append(x, all[i]) ELSE x]]
            R(f) == f = [i \in 0..n |-> IF i = 0 THEN <<>>
                             ELSE IF all[i] \in keep THEN Append(f[i - 1], all[i]) ELSE f[i - 1]]
<1>1. n \in Nat /\ DOMAIN all = 1..n /\ \A i \in 1..n : all[i] \in S
  BY LenProperties, ElementOfSeq
<1>2. step \in [1..n -> [Seq(S) -> Seq(S)]]
  <2>1. \A i \in 1..n, x \in Seq(S) : Append(x, all[i]) \in Seq(S)
    BY <1>1, AppendProperties
  <2>. QED
    BY <1>1, <2>1
<1>3. PICK f \in [0..n -> Seq(S)] : Steps(f, n, <<>>, step)
  <2>. HIDE DEF step, n
  <2>. QED
    BY <1>1, <1>2, Recursion, EmptySeq
<1>4. R(f)
  <2>1. \A i \in 1..n : step[i][f[i - 1]] = IF all[i] \in keep THEN Append(f[i - 1], all[i]) ELSE f[i - 1]
    BY <1>1
  <2>2. f = [i \in 0..n |-> IF i = 0 THEN <<>> ELSE step[i][f[i - 1]]]
    BY <1>3 DEF Steps
  <2>. HIDE DEF step
  <2>3. \A i \in 0..n : f[i] = IF i = 0 THEN <<>>
                             ELSE IF all[i] \in keep THEN Append(f[i - 1], all[i]) ELSE f[i - 1]
    BY <1>1, <2>1, <2>2
  <2>. QED
    BY <2>3
<1>. DEFINE h == CHOOSE g : R(g)
<1>5. R(h)
  BY <1>4
<1>6. Among(all, keep) = h[n]
  BY DEF Among
<1>7. h[0] = <<>> /\ \A k \in 1..n : h[k] = IF all[k] \in keep THEN Append(h[k - 1], all[k]) ELSE h[k - 1]
  <2>. HIDE DEF h, n
  <2>1. 0 \in 0..n /\ \A k \in 1..n : k \in 0..n /\ k # 0
    BY <1>1
  <2>. QED
    BY ONLY <1>5, <2>1
<1>. DEFINE Good(k) ==
         /\ h[k] \in Seq(S \cap keep)
         /\ ToSet(h[k]) = {all[i] : i \in 1..k} \cap keep
         /\ Unrepeated(all) => Unrepeated(h[k])
            T == {k \in Nat : k <= n => Good(k)}
<1>. HIDE DEF h, n
<1>8. 0 \in T
  <2>1. <<>> \in Seq(S \cap keep) /\ DOMAIN <<>> = {}
    BY EmptySeq
  <2>2. ToSet(<<>>) = {} /\ Unrepeated(<<>>)
    BY <2>1 DEF ToSet, Unrepeated
  <2>3. {all[i] : i \in 1..0} = {}
    OBVIOUS
  <2>. QED
    BY <1>7, <2>1, <2>2, <2>3
<1>9. \A k \in T : k + 1 \in T
  <2>. HIDE DEF Good
  <2>. SUFFICES ASSUME NEW k \in T, k + 1 <= n PROVE Good(k + 1)
    OBVIOUS
  <2>1. k \in Nat /\ k <= n /\ k + 1 \in 1..n /\ (k + 1) - 1 = k /\ Good(k)
    BY <1>1
  <2>. USE DEF Good
  <2>2. {all[i] : i \in 1..(k + 1)} = {all[i] : i \in 1..k} \cup {all[k + 1]}
    <3>1. 1..(k + 1) = (1..k) \cup {k + 1}
      BY <2>1
    <3>. QED
      BY <3>1
  <2>3. CASE all[k + 1] \notin keep
    <3>1. h[k + 1] = h[k]
      BY <1>7, <2>1, <2>3
    <3>. QED
      BY <2>1, <2>2, <2>3, <3>1
  <2>4. CASE all[k + 1] \in keep
    <3>. DEFINE x == all[k + 1]
                s == h[k]
                t == Append(s, x)
    <3>1. h[k + 1] = t
      BY <1>7, <2>1, <2>4
    <3>2. x \in S \cap keep /\ s \in Seq(S \cap keep)
      BY <1>1, <2>1, <2>4
    <3>. HIDE DEF x, s
    <3>3. /\ t \in Seq(S \cap keep) /\ Len(t) = Len(s) + 1
          /\ (\A i \in 1..Len(s) : t[i] = s[i]) /\ t[Len(s) + 1] = x
      BY <3>2, AppendProperties
    <3>4. Len(s) \in Nat /\ DOMAIN s = 1..Len(s) /\ DOMAIN t = 1..Len(t)
      BY <3>2, <3>3, LenProperties
    <3>5. DOMAIN t = DOMAIN s \cup {Len(s) + 1}
      BY <3>3, <3>4
    <3>6. (\A i \in DOMAIN s : t[i] = s[i]) /\ t[Len(s) + 1] = x
      BY <3>3, <3>4
    <3>. HIDE DEF t
    <3>7. ToSet(t) = ToSet(s) \cup {x}
      BY <3>5, <3>6 DEF ToSet
    <3>8. Unrepeated(all) => Unrepeated(t)
      <4>. SUFFICES ASSUME Unrepeated(all) PROVE Unrepeated(t)
        OBVIOUS
      <4>1. x \notin {all[i] : i \in 1..k}
        <5>1. \A i \in 1..k : i \in DOMAIN all /\ k + 1 \in DOMAIN all /\ i # k + 1
          BY <1>1, <2>1
        <5>. QED
          BY <5>1 DEF Unrepeated, x
      <4>2. \A i \in DOMAIN s : s[i] # x
        <5>1. \A i \in DOMAIN s : s[i] \in ToSet(s)
          BY DEF ToSet
        <5>2. ToSet(s) \subseteq {all[i] : i \in 1..k}
          BY <2>1 DEF s
        <5>. QED
          BY <4>1, <5>1, <5>2
      <4>3. Unrepeated(s)
        BY <2>1 DEF s
      <4>. QED
        BY <3>5, <3>6, <4>2, <4>3 DEF Unrepeated
    <3>9. ToSet(t) = {all[i] : i \in 1..(k + 1)} \cap keep
      <4>1. x \in keep /\ x = all[k + 1] /\ ToSet(s) = {all[i] : i \in 1..k} \cap keep
        BY <2>1, <3>2 DEF x, s
      <4>. QED
        BY <2>2, <3>7, <4>1
    <3>. QED
      BY <3>1, <3>3, <3>8, <3>9
  <2>. QED
    BY <2>3, <2>4
<1>10. T = Nat
  <2>. HIDE DEF Good
  <2>. QED
    BY <1>8, <1>9, NatSetInduction
<1>11. Good(n)
  <2>. HIDE DEF Good
  <2>. QED
    BY <1>1, <1>10
<1>12. {all[i] : i \in 1..n} = ToSet(all)
  BY <1>1 DEF ToSet
<1>. QED
  BY <1>6, <1>11, <1>12

-----------------------------------------------------------------------------
(***************************************************************************)
(* The first n of some sequences, one after the other.                     *)
(***************************************************************************)
Joined(e, n) == FlattenSeq([i \in 1..n |-> e[i]])

Flattens(f, n, e) == f = [i \in 1..n |-> IF i = 1 THEN e[i] ELSE f[i - 1] \o e[i]]

LEMMA FlattenExists ==
    ASSUME NEW S, NEW n \in Nat, NEW e \in [1..n -> Seq(S)]
    PROVE  \E f \in [1..n -> Seq(S)] : Flattens(f, n, e)
<1>. DEFINE step == [i \in 1..n |-> [x \in Seq(S) |-> IF i = 1 THEN e[1] ELSE x \o e[i]]]
<1>1. step \in [1..n -> [Seq(S) -> Seq(S)]]
  <2>1. \A i \in 1..n, x \in Seq(S) : x \o e[i] \in Seq(S)
    BY ConcatProperties
  <2>. QED
    BY <2>1
<1>2. PICK f \in [0..n -> Seq(S)] : Steps(f, n, <<>>, step)
  <2>. HIDE DEF step
  <2>. QED
    BY <1>1, Recursion, EmptySeq
<1>. DEFINE g == [i \in 1..n |-> f[i]]
<1>3. g \in [1..n -> Seq(S)]
  OBVIOUS
<1>4. \A i \in 1..n : g[i] = IF i = 1 THEN e[i] ELSE g[i - 1] \o e[i]
  <2>1. \A i \in 1..n : i \in 0..n /\ i # 0 /\ i - 1 \in 0..n /\ (i # 1 => i - 1 \in 1..n)
    OBVIOUS
  <2>2. \A i \in 1..n : f[i] = step[i][f[i - 1]]
    <3>. HIDE DEF step
    <3>. QED
      BY ONLY <1>2, <2>1 DEF Steps
  <2>3. \A i \in 1..n, x \in Seq(S) : step[i][x] = IF i = 1 THEN e[i] ELSE x \o e[i]
    OBVIOUS
  <2>4. \A i \in 1..n : f[i - 1] \in Seq(S)
    BY <2>1
  <2>. HIDE DEF step
  <2>5. \A i \in 1..n : f[i] = IF i = 1 THEN e[i] ELSE f[i - 1] \o e[i]
    BY <2>2, <2>3, <2>4
  <2>. QED
    BY <2>1, <2>5
<1>5. Flattens(g, n, e)
  <2>. HIDE DEF g
  <2>. QED
    BY <1>3, <1>4 DEF Flattens
<1>. QED
  BY <1>3, <1>5

LEMMA FlattenUnique ==
    ASSUME NEW n \in Nat, NEW m \in Nat, NEW e, NEW f, NEW g, Flattens(f, n, e), Flattens(g, m, e)
    PROVE  \A i \in 1..n : i <= m => f[i] = g[i]
<1>. DEFINE T == {i \in Nat : i \in 1..n /\ i <= m => f[i] = g[i]}
<1>1. 0 \in T
  OBVIOUS
<1>2. \A i \in T : i + 1 \in T
  <2>. SUFFICES ASSUME NEW i \in T, i + 1 \in 1..n, i + 1 <= m PROVE f[i + 1] = g[i + 1]
    OBVIOUS
  <2>1. i \in Nat /\ (i + 1) - 1 = i /\ i + 1 \in 1..m /\ (i + 1 # 1 => i \in 1..n /\ i <= m)
    OBVIOUS
  <2>2. /\ f[i + 1] = IF i + 1 = 1 THEN e[i + 1] ELSE f[i] \o e[i + 1]
        /\ g[i + 1] = IF i + 1 = 1 THEN e[i + 1] ELSE g[i] \o e[i + 1]
    BY <2>1 DEF Flattens
  <2>3. i + 1 # 1 => f[i] = g[i]
    BY <2>1
  <2>. HIDE DEF T
  <2>. QED
    BY ONLY <2>2, <2>3
<1>3. T = Nat
  <2>. HIDE DEF T
  <2>1. T \in SUBSET Nat
    BY DEF T
  <2>. QED
    BY <1>1, <1>2, <2>1, NatSetInduction
<1>. QED
  BY <1>3

LEMMA JoinedIs ==
    ASSUME NEW S, NEW N \in Nat, NEW e \in [1..N -> Seq(S)]
    PROVE  /\ Joined(e, 0) = <<>>
           /\ \A n \in 0..N : Joined(e, n) \in Seq(S)
           /\ \A n \in 1..N : Joined(e, n) = Joined(e, n - 1) \o e[n]
<1>. DEFINE upTo(n) == [i \in 1..n |-> e[i]]
            R(n, f) == f = [i \in 1..Len(upTo(n)) |->
                               IF i = 1 THEN upTo(n)[i] ELSE f[i - 1] \o upTo(n)[i]]
            h(n) == CHOOSE f : R(n, f)
<1>1. PICK F \in [1..N -> Seq(S)] : Flattens(F, N, e)
  BY FlattenExists
<1>2. ASSUME NEW n \in 0..N PROVE upTo(n) \in Seq(Seq(S)) /\ Len(upTo(n)) = n
  <2>1. n \in Nat /\ upTo(n) \in [1..n -> Seq(S)]
    OBVIOUS
  <2>. HIDE DEF upTo
  <2>. QED
    BY <2>1, FunctionSeq
<1>3. ASSUME NEW n \in 0..N, NEW f PROVE R(n, f) <=> Flattens(f, n, e)
  <2>1. Len(upTo(n)) = n
    BY <1>2
  <2>2. \A i \in 1..n : upTo(n)[i] = e[i]
    OBVIOUS
  <2>. HIDE DEF upTo
  <2>. QED
    BY <2>1, <2>2 DEF Flattens
<1>4. ASSUME NEW n \in 1..N PROVE Joined(e, n) = F[n]
  <2>1. n \in 0..N /\ n \in Nat /\ n # 0
    OBVIOUS
  <2>2. Joined(e, n) = h(n)[n]
    <3>1. Len(upTo(n)) = n
      BY <1>2, <2>1
    <3>2. FlattenSeq(upTo(n)) = IF Len(upTo(n)) = 0 THEN upTo(n) ELSE h(n)[Len(upTo(n))]
      BY DEF FlattenSeq
    <3>. HIDE DEF upTo, h
    <3>3. FlattenSeq(upTo(n)) = h(n)[n]
      BY <2>1, <3>1, <3>2
    <3>. QED
      BY <3>3 DEF Joined, upTo
  <2>3. Flattens(h(n), n, e)
    <3>1. e \in [1..N -> Seq(S)] /\ \A i \in 1..n : i \in 1..N
      OBVIOUS
    <3>2. [i \in 1..n |-> e[i]] \in [1..n -> Seq(S)]
      BY <3>1
    <3>3. PICK f : Flattens(f, n, [i \in 1..n |-> e[i]])
      BY <2>1, <3>2, FlattenExists
    <3>4. Flattens(f, n, e)
      BY <3>3 DEF Flattens
    <3>. HIDE DEF R
    <3>5. R(n, f)
      BY <1>3, <2>1, <3>4
    <3>6. R(n, h(n))
      BY <3>5
    <3>. HIDE DEF h
    <3>. QED
      BY <1>3, <2>1, <3>6
  <2>. HIDE DEF h
  <2>4. n \in 1..n /\ n <= N
    BY <2>1
  <2>. QED
    BY <1>1, <2>1, <2>2, <2>3, <2>4, FlattenUnique
<1>5. Joined(e, 0) = <<>>
  <2>1. Len(upTo(0)) = 0 /\ upTo(0) \in Seq(Seq(S))
    BY <1>2
  <2>2. upTo(0) = <<>>
    <3>. HIDE DEF upTo
    <3>. QED
      BY <2>1, EmptySeq
  <2>3. FlattenSeq(upTo(0)) = upTo(0)
    <3>. HIDE DEF upTo
    <3>. QED
      BY <2>1 DEF FlattenSeq
  <2>. QED
    BY <2>2, <2>3 DEF Joined
<1>. HIDE DEF upTo, R, h
<1>6. \A n \in 0..N : Joined(e, n) \in Seq(S)
  <2>1. \A n \in 0..N : n = 0 \/ n \in 1..N
    OBVIOUS
  <2>. QED
    BY <1>4, <1>5, <2>1, EmptySeq
<1>7. ASSUME NEW n \in 1..N PROVE Joined(e, n) = Joined(e, n - 1) \o e[n]
  <2>1. F[n] = IF n = 1 THEN e[n] ELSE F[n - 1] \o e[n]
    BY <1>1 DEF Flattens
  <2>2. CASE n = 1
    <3>1. Joined(e, n - 1) = <<>>
      BY <1>5, <2>2
    <3>2. <<>> \o e[n] = e[n]
      BY ConcatEmptySeq
    <3>. QED
      BY <1>4, <2>1, <2>2, <3>1, <3>2
  <2>3. CASE n # 1
    <3>1. n - 1 \in 1..N
      BY <2>3
    <3>. QED
      BY <1>4, <2>1, <2>3, <3>1
  <2>. QED
    BY <2>2, <2>3
<1>. QED
  BY <1>5, <1>6, <1>7

\* What the first m make is what any more of them begin with.
LEMMA JoinedGrows ==
    ASSUME NEW S, NEW N \in Nat, NEW e \in [1..N -> Seq(S)], NEW m \in 0..N, NEW n \in m..N
    PROVE  /\ Len(Joined(e, m)) <= Len(Joined(e, n))
           /\ \A i \in 1..Len(Joined(e, m)) : Joined(e, n)[i] = Joined(e, m)[i]
<1>. DEFINE Good(k) == /\ Len(Joined(e, m)) <= Len(Joined(e, k))
                       /\ \A i \in 1..Len(Joined(e, m)) : Joined(e, k)[i] = Joined(e, m)[i]
            T == {d \in Nat : m + d <= N => Good(m + d)}
<1>1. 0 \in T
  <2>1. Len(Joined(e, m)) \in Nat /\ m + 0 = m
    BY JoinedIs, LenProperties
  <2>. QED
    BY <2>1
<1>. HIDE DEF Good
<1>2. \A d \in T : d + 1 \in T
  <2>. SUFFICES ASSUME NEW d \in T, m + (d + 1) <= N PROVE Good(m + (d + 1))
    OBVIOUS
  <2>. DEFINE k == m + d
  <2>1. d \in Nat /\ k \in 0..N /\ k + 1 \in 1..N /\ m + (d + 1) = k + 1 /\ (k + 1) - 1 = k /\ Good(k)
    OBVIOUS
  <2>. HIDE DEF k, T
  <2>2. /\ Joined(e, k) \in Seq(S) /\ Joined(e, m) \in Seq(S) /\ e[k + 1] \in Seq(S)
        /\ Joined(e, k + 1) = Joined(e, k) \o e[k + 1]
    BY <2>1, JoinedIs
  <2>3. /\ Len(Joined(e, k + 1)) = Len(Joined(e, k)) + Len(e[k + 1])
        /\ \A i \in 1..(Len(Joined(e, k)) + Len(e[k + 1])) : i <= Len(Joined(e, k)) =>
               Joined(e, k + 1)[i] = Joined(e, k)[i]
    BY <2>2, ConcatProperties
  <2>4. Len(Joined(e, k)) \in Nat /\ Len(Joined(e, m)) \in Nat /\ Len(e[k + 1]) \in Nat
    BY <2>2, LenProperties
  <2>5. Good(k + 1)
    BY <2>1, <2>3, <2>4 DEF Good
  <2>. QED
    BY <2>1, <2>5
<1>3. T = Nat
  <2>. HIDE DEF T
  <2>1. T \in SUBSET Nat
    BY DEF T
  <2>. QED
    BY <1>1, <1>2, <2>1, NatSetInduction
<1>4. PICK d \in Nat : n = m + d
  <2>1. n - m \in Nat /\ n = m + (n - m)
    OBVIOUS
  <2>. QED
    BY <2>1
<1>5. Good(m + d)
  <2>1. d \in T
    BY <1>3
  <2>. QED
    BY <1>4, <2>1
<1>. QED
  BY <1>4, <1>5 DEF Good

-----------------------------------------------------------------------------
(***************************************************************************)
(* What a browser writes of a request.                                     *)
(***************************************************************************)
UnitOf(req) == {u \in RequestUnit : u.req = req}

\* After the head: nothing that looks like the end of one.
BodyUnit(req) == {u \in UnitOf(req) : u.kind \in {"size", "data", "crlf"}}

LastSize(u) == u.kind = "size" /\ u.n = 0

\* A chunk with data.
MoreUnit(req) == {u \in BodyUnit(req) : ~LastSize(u)}

LEMMA RequestIs ==
    ASSUME NEW req \in Requests
    PROVE  /\ req.lines \in Nat /\ req.lines > 0 /\ req.id \in Nat /\ req.waits \in BOOLEAN
           /\ req.diary \in Diaries /\ req.enc \in {"length", "chunked", "none"}
           /\ req.body \in Seq(Nat) /\ \A k \in 1..Len(req.body) : req.body[k] > 0
           /\ req.enc = "chunked" => req.method \in {"PUT", "POST"}
           /\ req.enc = "none" => req.body = <<>>
           /\ BodyLen(req) \in Nat
<1>1. /\ req.lines \in Nat \ {0} /\ req.id \in Nat /\ req.waits \in BOOLEAN
      /\ req.diary \in Diaries /\ req.enc \in {"length", "chunked", "none"}
      /\ req.body \in Seq(Nat \ {0})
      /\ req.enc = "chunked" => req.method \in {"PUT", "POST"}
      /\ req.enc = "none" => req.body = <<>>
  BY DEF Requests
<1>2. req.body \in Seq(Nat)
  BY <1>1, SeqMonotonic
<1>3. \A k \in 1..Len(req.body) : req.body[k] \in Nat \ {0}
  BY <1>1, ElementOfSeq
<1>4. \A n \in Nat \ {0} : n > 0
  OBVIOUS
<1>. QED
  BY <1>1, <1>2, <1>3, <1>4, BodyLenType

LEMMA BodyUpToLess ==
    ASSUME NEW req, req.body \in Seq(Nat), NEW k \in 0..Len(req.body)
    PROVE  BodyUpTo(req, k) <= BodyLen(req)
<1>. DEFINE n == Len(req.body)
            T == {d \in Nat : d <= n => BodyUpTo(req, n - d) <= BodyUpTo(req, n)}
<1>1. n \in Nat /\ \A i \in 1..n : req.body[i] \in Nat
  BY LenProperties, ElementOfSeq
<1>. HIDE DEF n
<1>2. /\ \A i \in 1..n : BodyUpTo(req, i) = BodyUpTo(req, i - 1) + req.body[i]
      /\ \A i \in 0..n : BodyUpTo(req, i) \in Nat
  BY BodyUpToIs DEF n
<1>3. 0 \in T
  <2>1. n - 0 = n /\ n \in 0..n
    BY <1>1
  <2>2. BodyUpTo(req, n) \in Nat
    BY <1>2, <2>1
  <2>. QED
    BY <2>1, <2>2
<1>4. \A d \in T : d + 1 \in T
  <2>. SUFFICES ASSUME NEW d \in T, d + 1 <= n PROVE BodyUpTo(req, n - (d + 1)) <= BodyUpTo(req, n)
    OBVIOUS
  <2>1. d \in Nat /\ n - d \in 1..n /\ (n - d) - 1 = n - (d + 1) /\ n - (d + 1) \in 0..n /\ n - d \in 0..n /\ n \in 0..n
    BY <1>1
  <2>2. BodyUpTo(req, n - d) <= BodyUpTo(req, n)
    BY <2>1
  <2>. HIDE DEF T
  <2>3. /\ BodyUpTo(req, n - d) = BodyUpTo(req, n - (d + 1)) + req.body[n - d] /\ req.body[n - d] \in Nat
        /\ BodyUpTo(req, n - (d + 1)) \in Nat /\ BodyUpTo(req, n - d) \in Nat /\ BodyUpTo(req, n) \in Nat
    BY <1>1, <1>2, <2>1
  <2>. QED
    BY ONLY <2>2, <2>3
<1>5. T = Nat
  <2>. HIDE DEF T
  <2>1. T \in SUBSET Nat
    BY DEF T
  <2>. QED
    BY <1>3, <1>4, <2>1, NatSetInduction
<1>6. n - k \in Nat /\ n - k <= n /\ n - (n - k) = k
  BY <1>1 DEF n
<1>7. n - k \in T
  BY <1>5, <1>6
<1>8. BodyUpTo(req, n - (n - k)) <= BodyUpTo(req, n)
  BY <1>6, <1>7
<1>. QED
  BY <1>6, <1>8 DEF BodyLen, n

LEMMA BodyIs ==
    ASSUME NEW req \in Requests
    PROVE  /\ Body(req) \in Seq(MoreUnit(req)) /\ Len(Body(req)) = BodyLen(req)
<1>1. BodyLen(req) \in Nat
  BY RequestIs
<1>2. \A i \in 1..BodyLen(req) : [kind |-> "data", req |-> req, n |-> i] \in MoreUnit(req)
  BY <1>1 DEF MoreUnit, BodyUnit, UnitOf, RequestUnit, LastSize
<1>3. Body(req) \in [1..BodyLen(req) -> MoreUnit(req)]
  BY <1>2 DEF Body
<1>. QED
  BY <1>1, <1>3, FunctionSeq

LEMMA ChunkIs ==
    ASSUME NEW req \in Requests, NEW from \in Nat, NEW size \in Nat, from + size <= BodyLen(req)
    PROVE  /\ Chunk(req, from, size) \in Seq(BodyUnit(req))
           /\ size > 0 => Chunk(req, from, size) \in Seq(MoreUnit(req))
           /\ Len(Chunk(req, from, size)) = size + 2
           /\ size = 0 => ~LastSize(Chunk(req, from, size)[2])
<1>. DEFINE u == [kind |-> "size", req |-> req, n |-> size]
            v == [kind |-> "crlf", req |-> req, n |-> 0]
            part == SubSeq(Body(req), from + 1, from + size)
<1>1. Body(req) \in Seq(MoreUnit(req)) /\ Len(Body(req)) = BodyLen(req) /\ BodyLen(req) \in Nat
  BY BodyIs, RequestIs
<1>2. part \in Seq(MoreUnit(req)) /\ Len(part) = size
  <2>1. \A i \in (from + 1)..(from + size) : Body(req)[i] \in MoreUnit(req)
    BY <1>1, ElementOfSeq
  <2>2. from + 1 \in Int /\ from + size \in Int
    OBVIOUS
  <2>3. /\ part \in Seq(MoreUnit(req))
        /\ Len(part) = IF from + 1 <= from + size THEN (from + size) - (from + 1) + 1 ELSE 0
    BY <2>1, <2>2, SubSeqProperties
  <2>. HIDE DEF part
  <2>4. Len(part) = size
    BY <2>3
  <2>. QED
    BY <2>3, <2>4
<1>3. u \in BodyUnit(req) /\ (size > 0 => u \in MoreUnit(req)) /\ v \in MoreUnit(req) /\ ~LastSize(v)
  BY DEF MoreUnit, BodyUnit, UnitOf, RequestUnit, LastSize
<1>4. MoreUnit(req) \subseteq BodyUnit(req)
  BY DEF MoreUnit
<1>5. Chunk(req, from, size) = (<<u>> \o part) \o <<v>>
  BY DEF Chunk
<1>. HIDE DEF u, v, part
<1>6. ASSUME NEW S, u \in S, v \in S, part \in Seq(S)
      PROVE  /\ (<<u>> \o part) \o <<v>> \in Seq(S) /\ Len((<<u>> \o part) \o <<v>>) = size + 2
             /\ size = 0 => ((<<u>> \o part) \o <<v>>)[2] = v
  <2>1. /\ <<u>> \in Seq(S) /\ Len(<<u>>) = 1 /\ <<v>> \in Seq(S) /\ Len(<<v>>) = 1 /\ <<v>>[1] = v
    BY <1>6, OneSeq
  <2>. DEFINE a == <<u>>
              b == <<v>>
  <2>. HIDE DEF a, b
  <2>2. a \o part \in Seq(S) /\ Len(a \o part) = 1 + size
    BY <1>2, <1>6, <2>1, ConcatProperties DEF a
  <2>3. /\ (a \o part) \o b \in Seq(S) /\ Len((a \o part) \o b) = Len(a \o part) + Len(b)
        /\ \A i \in 1..(Len(a \o part) + Len(b)) :
              ((a \o part) \o b)[i] = IF i <= Len(a \o part) THEN (a \o part)[i] ELSE b[i - Len(a \o part)]
    BY <2>1, <2>2, ConcatProperties DEF b
  <2>4. Len(a \o part) + Len(b) = size + 2
    BY <2>1, <2>2 DEF b
  <2>5. size = 0 => ((a \o part) \o b)[2] = b[1]
    <3>1. size = 0 => 2 \in 1..(Len(a \o part) + Len(b)) /\ ~ 2 <= Len(a \o part) /\ 2 - Len(a \o part) = 1
      BY <2>2, <2>4
    <3>. QED
      BY <2>3, <3>1
  <2>. QED
    BY <2>1, <2>3, <2>4, <2>5 DEF a, b
<1>7. part \in Seq(BodyUnit(req))
  BY <1>2, <1>4, SeqMonotonic
<1>8. /\ Chunk(req, from, size) \in Seq(BodyUnit(req)) /\ Len(Chunk(req, from, size)) = size + 2
      /\ size = 0 => Chunk(req, from, size)[2] = v
  BY <1>3, <1>4, <1>5, <1>6, <1>7
<1>9. size > 0 => Chunk(req, from, size) \in Seq(MoreUnit(req))
  BY <1>2, <1>3, <1>5, <1>6
<1>. QED
  BY <1>3, <1>8, <1>9

\* The last chunk, without data, ends the body.
LEMMA EncodedBodyIs ==
    ASSUME NEW req \in Requests
    PROVE  /\ EncodedBody(req) \in Seq(BodyUnit(req))
           /\ \A i \in DOMAIN EncodedBody(req) : LastSize(EncodedBody(req)[i]) => i + 1 = Len(EncodedBody(req))
           /\ req.enc # "chunked" => EncodedBody(req) = Body(req)
<1>1. MoreUnit(req) \subseteq BodyUnit(req)
  BY DEF MoreUnit
<1>2. CASE req.enc # "chunked"
  <2>1. EncodedBody(req) = Body(req)
    BY <1>2 DEF EncodedBody
  <2>2. Body(req) \in Seq(MoreUnit(req)) /\ Body(req) \in Seq(BodyUnit(req))
    BY <1>1, BodyIs, SeqMonotonic
  <2>3. \A i \in DOMAIN Body(req) : Body(req)[i] \in MoreUnit(req)
    BY <2>2, LenProperties, ElementOfSeq
  <2>4. \A i \in DOMAIN Body(req) : ~LastSize(Body(req)[i])
    BY <2>3 DEF MoreUnit
  <2>. QED
    BY <2>1, <2>2, <2>4
<1>3. CASE req.enc = "chunked"
  <2>. DEFINE n == Len(req.body)
              e == [k \in 1..n |-> Chunk(req, BodyUpTo(req, k - 1), req.body[k])]
              most == Joined(e, n)
              end == Chunk(req, BodyLen(req), 0)
  <2>1. n \in Nat /\ DOMAIN req.body = 1..n /\ \A k \in 1..n : req.body[k] \in Nat /\ req.body[k] > 0
    BY RequestIs, LenProperties, ElementOfSeq
  <2>2. EncodedBody(req) = most \o end
    <3>1. [k \in DOMAIN req.body |-> Chunk(req, BodyUpTo(req, k - 1), req.body[k])] = [k \in 1..n |-> e[k]]
      BY <2>1
    <3>2. EncodedBody(req) =
            FlattenSeq([k \in DOMAIN req.body |-> Chunk(req, BodyUpTo(req, k - 1), req.body[k])]) \o end
      BY <1>3 DEF EncodedBody
    <3>. QED
      BY <3>1, <3>2 DEF Joined
  <2>3. \A k \in 1..n : e[k] \in Seq(MoreUnit(req))
    <3>. SUFFICES ASSUME NEW k \in 1..n
                  PROVE  Chunk(req, BodyUpTo(req, k - 1), req.body[k]) \in Seq(MoreUnit(req))
      OBVIOUS
    <3>1. /\ BodyUpTo(req, k) = BodyUpTo(req, k - 1) + req.body[k]
          /\ BodyUpTo(req, k - 1) \in Nat /\ BodyUpTo(req, k) <= BodyLen(req)
      <4>1. k - 1 \in 0..n /\ k \in 0..n
        BY <2>1
      <4>. QED
        BY <2>1, <4>1, BodyUpToIs, BodyUpToLess, RequestIs
    <3>. QED
      BY <2>1, <3>1, ChunkIs
  <2>4. most \in Seq(MoreUnit(req))
    <3>1. n \in 0..n
      BY <2>1
    <3>2. e \in [1..n -> Seq(MoreUnit(req))]
      <4>. DEFINE U == Seq(MoreUnit(req))
      <4>. HIDE DEF U, n
      <4>. QED
        BY <2>3 DEF U
    <3>. HIDE DEF e, n
    <3>. QED
      BY <2>1, <3>1, <3>2, JoinedIs
  <2>5. end \in Seq(BodyUnit(req)) /\ Len(end) = 2 /\ ~LastSize(end[2])
    <3>1. BodyLen(req) \in Nat /\ BodyLen(req) + 0 <= BodyLen(req) /\ 0 \in Nat /\ 0 + 2 = 2
      BY RequestIs
    <3>. QED
      BY <3>1, ChunkIs
  <2>. HIDE DEF most, end
  <2>6. most \in Seq(BodyUnit(req)) /\ Len(most) \in Nat
    BY <1>1, <2>4, SeqMonotonic, LenProperties
  <2>7. /\ most \o end \in Seq(BodyUnit(req)) /\ Len(most \o end) = Len(most) + 2
        /\ \A i \in 1..Len(most) : (most \o end)[i] = most[i]
        /\ (most \o end)[Len(most) + 2] = end[2]
        /\ DOMAIN (most \o end) = 1..(Len(most) + 2)
    <3>. most \in Seq(BodyUnit(req)) /\ end \in Seq(BodyUnit(req))
      BY <2>5, <2>6
    <3>1. /\ most \o end \in Seq(BodyUnit(req)) /\ Len(most \o end) = Len(most) + Len(end)
          /\ \A i \in 1..Len(most) : (most \o end)[i] = most[i]
          /\ \A i \in 1..Len(end) : (most \o end)[Len(most) + i] = end[i]
      BY Join
    <3>2. 2 \in 1..Len(end) /\ Len(most) + Len(end) = Len(most) + 2
      BY <2>5
    <3>3. DOMAIN (most \o end) = 1..Len(most \o end)
      BY <3>1, LenProperties
    <3>. QED
      BY <3>1, <3>2, <3>3
  <2>8. \A i \in 1..(Len(most) + 2) : LastSize((most \o end)[i]) => i + 1 = Len(most) + 2
    <3>. SUFFICES ASSUME NEW i \in 1..(Len(most) + 2), i + 1 # Len(most) + 2
                  PROVE  ~LastSize((most \o end)[i])
      OBVIOUS
    <3>1. CASE i <= Len(most)
      <4>1. i \in 1..Len(most)
        BY <2>6, <3>1
      <4>2. most[i] \in MoreUnit(req)
        BY <2>4, <4>1, ElementOfSeq
      <4>. QED
        BY <2>7, <4>1, <4>2 DEF MoreUnit
    <3>2. CASE ~ i <= Len(most)
      <4>1. i = Len(most) + 2
        BY <2>6, <3>2
      <4>. QED
        BY <2>5, <2>7, <4>1
    <3>. QED
      BY <3>1, <3>2
  <2>. QED
    BY <1>3, <2>2, <2>7, <2>8
<1>. QED
  BY <1>2, <1>3

\* The head, then the body.
HeadKind(req) == IF req.uri = "malformed" THEN "bad" ELSE "line"

LEMMA EncodedIs ==
    ASSUME NEW req \in Requests
    PROVE  /\ Encoded(req) \in Seq(UnitOf(req))
           /\ Len(Encoded(req)) = req.lines + 1 + Len(EncodedBody(req))
           /\ Len(EncodedBody(req)) \in Nat
           /\ \A i \in 1..req.lines : Encoded(req)[i].kind = HeadKind(req)
           /\ Encoded(req)[req.lines + 1].kind = "end"
           /\ \A i \in 1..Len(EncodedBody(req)) : Encoded(req)[req.lines + 1 + i] = EncodedBody(req)[i]
<1>. DEFINE head == [i \in 1..req.lines |-> [kind |-> IF req.uri = "malformed" THEN "bad" ELSE "line",
                                              req |-> req, n |-> i]]
            end == [kind |-> "end", req |-> req, n |-> 0]
            body == EncodedBody(req)
<1>1. req.lines \in Nat
  BY RequestIs
<1>2. /\ head \in Seq(UnitOf(req)) /\ Len(head) = req.lines
      /\ \A i \in 1..req.lines : head[i].kind = HeadKind(req)
  <2>1. \A i \in 1..req.lines : head[i] \in UnitOf(req) /\ head[i].kind = HeadKind(req)
    BY <1>1 DEF UnitOf, RequestUnit, HeadKind
  <2>2. head \in [1..req.lines -> UnitOf(req)]
    BY <2>1
  <2>. HIDE DEF head
  <2>. QED
    BY <1>1, <2>1, <2>2, FunctionSeq
<1>3. /\ <<end>> \in Seq(UnitOf(req)) /\ Len(<<end>>) = 1 /\ <<end>>[1] = end /\ end.kind = "end"
  <2>1. end \in UnitOf(req)
    BY DEF UnitOf, RequestUnit
  <2>. QED
    BY <2>1, OneSeq
<1>4. body \in Seq(UnitOf(req)) /\ Len(body) \in Nat
  <2>1. BodyUnit(req) \subseteq UnitOf(req)
    BY DEF BodyUnit
  <2>. QED
    BY <2>1, EncodedBodyIs, SeqMonotonic, LenProperties
<1>5. Encoded(req) = (head \o <<end>>) \o body
  BY DEF Encoded
<1>. DEFINE a == <<end>>
            h == head \o a
<1>. HIDE DEF head, body
<1>6. /\ h \in Seq(UnitOf(req)) /\ Len(h) = req.lines + 1
      /\ (\A i \in 1..req.lines : h[i] = head[i]) /\ h[req.lines + 1] = a[1]
  <2>. HIDE DEF a
  <2>1. /\ h \in Seq(UnitOf(req)) /\ Len(h) = Len(head) + Len(a)
        /\ (\A i \in 1..Len(head) : h[i] = head[i]) /\ (\A i \in 1..Len(a) : h[Len(head) + i] = a[i])
    BY <1>2, <1>3, Join DEF a
  <2>2. Len(a) = 1 /\ 1 \in 1..1
    BY <1>3 DEF a
  <2>. QED
    BY <1>1, <1>2, <2>1, <2>2
<1>. HIDE DEF a, h
<1>7. /\ h \o body \in Seq(UnitOf(req)) /\ Len(h \o body) = req.lines + 1 + Len(body)
      /\ \A i \in 1..req.lines + 1 : (h \o body)[i] = h[i]
      /\ \A i \in 1..Len(body) : (h \o body)[req.lines + 1 + i] = body[i]
  <2>. h \in Seq(UnitOf(req)) /\ body \in Seq(UnitOf(req))
    BY <1>4, <1>6
  <2>1. /\ h \o body \in Seq(UnitOf(req)) /\ Len(h \o body) = Len(h) + Len(body)
        /\ \A i \in 1..Len(h) : (h \o body)[i] = h[i]
        /\ \A i \in 1..Len(body) : (h \o body)[Len(h) + i] = body[i]
    BY Join
  <2>. QED
    BY <1>6, <2>1
<1>8. \A i \in 1..req.lines : (h \o body)[i].kind = HeadKind(req)
  <2>1. \A i \in 1..req.lines : i \in 1..req.lines + 1
    BY <1>1
  <2>. QED
    BY <1>2, <1>6, <1>7, <2>1
<1>9. (h \o body)[req.lines + 1].kind = "end"
  <2>1. req.lines + 1 \in 1..req.lines + 1
    BY <1>1
  <2>. QED
    BY <1>3, <1>6, <1>7, <2>1 DEF a
<1>. QED
  BY <1>4, <1>5, <1>7, <1>8, <1>9 DEF h, a, body

-----------------------------------------------------------------------------
(***************************************************************************)
(* What the parser makes of a buffer.                                      *)
(***************************************************************************)
Ends(u) == u.kind \in {"bad", "end"}

\* len is the length of the head in buf, if there is a whole one, that is well-formed.
HeadOf(buf, len) ==
    \/ len <= 0 /\ \A i \in 1..Len(buf) : buf[i].kind = "end" => \E j \in 1..i : buf[j].kind = "bad"
    \/ len \in 1..Len(buf) /\ buf[len].kind = "end" /\ \A i \in 1..len : i < len => ~Ends(buf[i])

LEMMA RequestLenIs ==
    ASSUME NEW buf \in Seq(RequestUnit)
    PROVE  /\ mg_http_get_request_len(buf) \in Int /\ HeadOf(buf, mg_http_get_request_len(buf))
           /\ mg_http_get_request_len(buf) < 0 => Len(buf) > 0
<1>. DEFINE I == {i \in 1..Len(buf) : buf[i].kind \in {"bad", "end"}}
            i == IF I # {} THEN Min(I) ELSE 0
            len == IF i = 0 THEN 0 ELSE IF buf[i].kind = "bad" THEN -1 ELSE i
<1>1. mg_http_get_request_len(buf) = len
  BY DEF mg_http_get_request_len, SelectInSeq
<1>2. Len(buf) \in Nat
  BY LenProperties
<1>3. CASE I = {}
  <2>1. len = 0
    BY <1>3
  <2>2. \A j \in 1..Len(buf) : buf[j].kind # "end"
    BY <1>3
  <2>. HIDE DEF len
  <2>. QED
    BY <1>1, <2>1, <2>2 DEF HeadOf
<1>4. CASE I # {}
  <2>1. i \in I /\ \A j \in I : i <= j
    <3>1. I \in SUBSET Nat
      OBVIOUS
    <3>. HIDE DEF I
    <3>2. \E x \in I : \A y \in I : x =< y
      BY <1>4, <3>1, LeastExists
    <3>. QED
      BY <1>4, <3>2 DEF Min
  <2>2. i \in 1..Len(buf) /\ Ends(buf[i]) /\ i # 0
    BY <2>1 DEF Ends
  <2>3. \A j \in 1..Len(buf) : j < i => ~Ends(buf[j])
    BY <2>1, <2>2 DEF Ends
  <2>. HIDE DEF i
  <2>6. Len(buf) > 0
    BY <1>2, <2>2
  <2>4. CASE buf[i].kind = "bad"
    <3>1. len = -1
      BY <2>2, <2>4
    <3>2. \A j \in 1..Len(buf) : buf[j].kind = "end" => i \in 1..j
      BY <1>2, <2>2, <2>3 DEF Ends
    <3>3. \A j \in 1..Len(buf) : buf[j].kind = "end" => \E k \in 1..j : buf[k].kind = "bad"
      BY <2>4, <3>2
    <3>. HIDE DEF len
    <3>4. len <= 0 /\ len \in Int
      BY <3>1
    <3>. QED
      BY <1>1, <2>6, <3>3, <3>4 DEF HeadOf
  <2>5. CASE buf[i].kind # "bad"
    <3>1. len = i /\ buf[i].kind = "end"
      BY <2>2, <2>5 DEF Ends
    <3>2. \A j \in 1..i : j < i => ~Ends(buf[j])
      BY <1>2, <2>2, <2>3
    <3>. HIDE DEF len
    <3>. QED
      BY <1>1, <1>2, <2>2, <3>1, <3>2 DEF HeadOf
  <2>. QED
    BY <2>4, <2>5
<1>. QED
  BY <1>3, <1>4

-----------------------------------------------------------------------------
(***************************************************************************)
(* The reassembly of a chunked body: what it makes comes, in order, from   *)
(* what was there.                                                         *)
(***************************************************************************)

\* Every unit of s is one of units m + 1 to n of t, and no nearer to the end.
From(s, t, m, n) ==
    \A q \in 1..Len(s) : \E p \in (m + 1)..n : s[q] = t[p] /\ Len(s) - q <= n - p

ChunkAt(buf, i, n) ==
    \/ n = 0
    \/ /\ n \in Nat /\ n >= 2 /\ i + n <= Len(buf) /\ n = buf[i + 1].n + 2 /\ buf[i + 1].kind = "size"

LEMMA ParseChunkIs ==
    ASSUME NEW buf \in Seq(RequestUnit), NEW i \in 0..Len(buf)
    PROVE  ChunkAt(buf, i, mg_http_parse_chunk(buf, i))
<1>1. Len(buf) \in Nat /\ i \in Nat
  BY LenProperties
<1>. DEFINE n == mg_http_parse_chunk(buf, i)
<1>2. CASE i < Len(buf) /\ n # 0
  <2>1. i + 1 \in 1..Len(buf)
    BY <1>1, <1>2
  <2>2. buf[i + 1].n \in Nat
    <3>1. buf[i + 1] \in RequestUnit
      BY <2>1, ElementOfSeq
    <3>. QED
      BY <3>1 DEF RequestUnit
  <2>3. /\ n = i + buf[i + 1].n + 2 - i /\ i + buf[i + 1].n + 2 <= Len(buf)
        /\ buf[i + 1].kind = "size"
    <3>. DEFINE ends == i + buf[i + 1].n + 2
                ok == /\ i < Len(buf) /\ buf[i + 1].kind = "size"
                      /\ ends <= Len(buf) /\ buf[ends].kind = "crlf"
    <3>1. n = IF ok THEN ends - i ELSE 0
      BY DEF mg_http_parse_chunk
    <3>. HIDE DEF n, ends
    <3>2. ok /\ n = ends - i
      BY <1>2, <3>1
    <3>3. n = ends - i /\ ends <= Len(buf) /\ buf[i + 1].kind = "size"
      BY <3>2
    <3>. QED
      BY ONLY <2>2, <3>3, i \in 0..Len(buf), Len(buf) \in Nat DEF ends
  <2>. DEFINE size == buf[i + 1].n
  <2>. HIDE DEF size
  <2>4. n = size + 2 /\ n \in Nat /\ n >= 2 /\ i + n <= Len(buf)
    BY <1>1, <2>2, <2>3 DEF size
  <2>. HIDE DEF n
  <2>. QED
    BY <2>3, <2>4 DEF ChunkAt, size, n
<1>3. CASE ~(i < Len(buf))
  BY <1>3 DEF ChunkAt, mg_http_parse_chunk
<1>. QED
  BY <1>2, <1>3 DEF ChunkAt

Scans(f, buf, m) ==
    f = [i \in m..Len(buf) |->
            LET n == mg_http_parse_chunk(buf, i)
            IN  IF n = 0 THEN [at |-> i, data |-> <<>>, zero |-> FALSE]
                ELSE IF n = 2 THEN [at |-> i + 2, data |-> <<>>, zero |-> TRUE]
                ELSE [f[i + n] EXCEPT !.data = SubSeq(buf, i + 2, i + n - 1) \o @]]

LEMMA ScanExists ==
    ASSUME NEW buf \in Seq(RequestUnit), NEW m \in 0..Len(buf)
    PROVE  \E f : Scans(f, buf, m)
<1>. DEFINE N == Len(buf)
            T == {d \in Nat : d <= N => \E f : Scans(f, buf, N - d)}
            P(i) == mg_http_parse_chunk(buf, i)
            E(f, i) == LET n == mg_http_parse_chunk(buf, i)
                       IN  IF n = 0 THEN [at |-> i, data |-> <<>>, zero |-> FALSE]
                           ELSE IF n = 2 THEN [at |-> i + 2, data |-> <<>>, zero |-> TRUE]
                           ELSE [f[i + n] EXCEPT !.data = SubSeq(buf, i + 2, i + n - 1) \o @]
<1>1. N \in Nat
  BY LenProperties
<1>2. ASSUME NEW f, NEW g, NEW i \in 0..N, \A j \in (i + 1)..N : f[j] = g[j]
      PROVE  E(f, i) = E(g, i)
  <2>1. P(i) = 0 \/ P(i) = 2 \/ i + P(i) \in (i + 1)..N
    <3>1. ChunkAt(buf, i, P(i))
      BY ParseChunkIs
    <3>. HIDE DEF P
    <3>. QED
      BY <1>1, <3>1 DEF ChunkAt
  <2>2. P(i) # 0 /\ P(i) # 2 => f[i + P(i)] = g[i + P(i)]
    BY <1>2, <2>1
  <2>. QED
    BY <2>2
<1>. HIDE DEF E
<1>3. \A f, k : Scans(f, buf, k) <=> f = [i \in k..N |-> E(f, i)]
  BY DEF Scans, E
<1>. HIDE DEF N
<1>4. ASSUME NEW k \in 0..N, NEW f, Scans(f, buf, k + 1) PROVE \E g : Scans(g, buf, k)
  <2>. DEFINE g == [i \in k..N |-> IF i = k THEN E(f, k) ELSE f[i]]
  <2>1. \A i \in (k + 1)..N : g[i] = f[i] /\ f[i] = E(f, i)
    <3>1. f = [i \in (k + 1)..N |-> E(f, i)]
      BY <1>3, <1>4
    <3>2. \A i \in (k + 1)..N : i \in k..N /\ i # k
      BY <1>1
    <3>. QED
      BY <3>1, <3>2
  <2>. HIDE DEF g
  <2>2. \A i \in k..N : E(f, i) = E(g, i)
    <3>. SUFFICES ASSUME NEW i \in k..N PROVE E(f, i) = E(g, i)
      OBVIOUS
    <3>1. i \in 0..N /\ \A j \in (i + 1)..N : j \in (k + 1)..N
      BY <1>1
    <3>2. \A j \in (i + 1)..N : f[j] = g[j]
      BY <2>1, <3>1
    <3>. QED
      BY <1>2, <3>1, <3>2
  <2>3. \A i \in k..N : g[i] = E(g, i)
    <3>1. k \in k..N /\ g[k] = E(f, k)
      BY <1>1 DEF g
    <3>2. \A i \in k..N : i = k \/ i \in (k + 1)..N
      BY <1>1
    <3>. QED
      BY <2>1, <2>2, <3>1, <3>2
  <2>4. g = [i \in k..N |-> E(g, i)]
    <3>1. g = [i \in k..N |-> g[i]]
      BY DEF g
    <3>. QED
      BY <2>3, <3>1
  <2>. QED
    BY <1>3, <2>4
<1>5. 0 \in T
  <2>1. Scans([i \in (N + 1)..N |-> 0], buf, N + 1)
    <3>1. \A i \in (N + 1)..N : FALSE
      BY <1>1
    <3>2. [i \in (N + 1)..N |-> 0] = [i \in (N + 1)..N |-> E([j \in (N + 1)..N |-> 0], i)]
      BY <3>1
    <3>. QED
      BY <1>3, <3>2
  <2>2. N \in 0..N /\ N - 0 = N
    BY <1>1
  <2>3. \E f : Scans(f, buf, N)
    BY <1>4, <2>1, <2>2
  <2>. QED
    BY <2>2, <2>3
<1>6. \A d \in T : d + 1 \in T
  <2>. SUFFICES ASSUME NEW d \in T, d + 1 <= N PROVE \E f : Scans(f, buf, N - (d + 1))
    OBVIOUS
  <2>1. d \in Nat /\ d <= N /\ N - (d + 1) \in 0..N /\ (N - (d + 1)) + 1 = N - d
    BY <1>1
  <2>2. PICK f : Scans(f, buf, N - d)
    BY <2>1
  <2>. HIDE DEF T
  <2>. QED
    BY <1>4, <2>1, <2>2
<1>7. T = Nat
  <2>. HIDE DEF T
  <2>1. T \in SUBSET Nat
    BY DEF T
  <2>. QED
    BY <1>5, <1>6, <2>1, NatSetInduction
<1>8. N - m \in Nat /\ N - m <= N /\ N - (N - m) = m
  BY <1>1 DEF N
<1>9. N - m \in T
  BY <1>7, <1>8
<1>. QED
  BY <1>8, <1>9

Scanned(r, buf, i) ==
    /\ r \in [at : Nat, data : Seq(RequestUnit), zero : BOOLEAN] /\ r.at \in i..Len(buf)
    /\ From(r.data, buf, i, r.at)
    /\ r.zero => r.at - 1 > i /\ LastSize(buf[r.at - 1])

LEMMA ReassembledIs ==
    ASSUME NEW buf \in Seq(RequestUnit), NEW m \in 0..Len(buf)
    PROVE  Scanned(Reassembled(buf, m), buf, m)
<1>. DEFINE N == Len(buf)
            h == CHOOSE f : Scans(f, buf, m)
            Bad == {i \in m..N : ~Scanned(h[i], buf, i)}
<1>1. N \in Nat /\ m \in Nat /\ m <= N
  BY LenProperties
<1>2. Scans(h, buf, m)
  BY ScanExists
<1>3. Reassembled(buf, m) = h[m]
  BY DEF Reassembled, Scans
<1>. HIDE DEF h, N
<1>4. SUFFICES ASSUME Bad # {} PROVE FALSE
  <2>1. m \in m..N
    BY <1>1
  <2>. QED
    BY <1>3, <2>1
<1>5. PICK i \in Bad : \A j \in Bad : j <= i
  <2>1. Bad \in SUBSET (0..N)
    BY <1>1
  <2>. HIDE DEF Bad
  <2>. QED
    BY <1>1, <1>4, <2>1, GreatestExists
<1>6. i \in m..N /\ i \in 0..N /\ i \in Nat /\ ~Scanned(h[i], buf, i)
  BY <1>1, <1>5
<1>7. \A j \in m..N : j > i => Scanned(h[j], buf, j)
  BY <1>1, <1>5, <1>6
<1>. DEFINE n == mg_http_parse_chunk(buf, i)
<1>8. ChunkAt(buf, i, n)
  BY <1>6, ParseChunkIs DEF N
<1>9. h[i] = IF n = 0 THEN [at |-> i, data |-> <<>>, zero |-> FALSE]
             ELSE IF n = 2 THEN [at |-> i + 2, data |-> <<>>, zero |-> TRUE]
             ELSE [h[i + n] EXCEPT !.data = SubSeq(buf, i + 2, i + n - 1) \o @]
  BY <1>2, <1>6 DEF Scans, N
<1>. HIDE DEF n, Bad
<1>10. <<>> \in Seq(RequestUnit) /\ Len(<<>>) = 0
  BY EmptySeq
<1>11. CASE n = 0
  <2>1. h[i].at = i /\ h[i].data = <<>> /\ h[i].zero = FALSE
    BY <1>9, <1>11
  <2>2. h[i] \in [at : Nat, data : Seq(RequestUnit), zero : BOOLEAN]
    BY <1>6, <1>9, <1>10, <1>11
  <2>. QED
    BY <1>1, <1>6, <1>10, <2>1, <2>2 DEF Scanned, From, N
<1>12. CASE n = 2
  <2>1. h[i].at = i + 2 /\ h[i].data = <<>> /\ h[i].zero = TRUE
    BY <1>9, <1>12
  <2>2. i + 2 \in i..N /\ (i + 2) - 1 = i + 1 /\ i + 1 > i
    BY <1>1, <1>6, <1>8, <1>12 DEF ChunkAt, N
  <2>3. LastSize(buf[i + 1])
    <3>1. 2 = buf[i + 1].n + 2 /\ buf[i + 1].kind = "size"
      BY <1>8, <1>12 DEF ChunkAt
    <3>2. buf[i + 1] \in RequestUnit
      <4>1. i + 1 \in 1..Len(buf)
        BY <1>1, <1>6, <2>2 DEF N
      <4>. QED
        BY <4>1, ElementOfSeq
    <3>3. buf[i + 1].n \in Nat
      BY <3>2 DEF RequestUnit
    <3>. QED
      BY <3>1, <3>3 DEF LastSize
  <2>4. h[i] \in [at : Nat, data : Seq(RequestUnit), zero : BOOLEAN]
    BY <1>6, <1>9, <1>10, <1>12
  <2>. QED
    BY <1>6, <1>10, <2>1, <2>2, <2>3, <2>4 DEF Scanned, From, N
<1>13. CASE n # 0 /\ n # 2
  <2>. DEFINE r == h[i + n]
              part == SubSeq(buf, i + 2, i + n - 1)
  <2>1. n \in Nat /\ n > 2 /\ i + n <= N
    BY <1>8, <1>13 DEF ChunkAt, N
  <2>2. i + n \in m..N /\ i + n > i
    BY <1>1, <1>6, <2>1
  <2>3. Scanned(r, buf, i + n)
    BY <1>7, <2>2
  <2>4. r \in [at : Nat, data : Seq(RequestUnit), zero : BOOLEAN]
    BY <2>3 DEF Scanned
  <2>5. h[i] = [r EXCEPT !.data = part \o @]
    BY <1>9, <1>13
  <2>. HIDE DEF r, part
  <2>6. h[i].data = part \o r.data /\ h[i].at = r.at /\ h[i].zero = r.zero
    BY <2>4, <2>5
  <2>7. part \in Seq(RequestUnit) /\ Len(part) = n - 2 /\ \A q \in 1..(n - 2) : part[q] = buf[i + 1 + q]
    <3>1. /\ \A p \in (i + 2)..(i + n - 1) : p \in 1..Len(buf)
          /\ (i + n - 1) - (i + 2) + 1 = n - 2 /\ i + 2 <= i + n - 1
          /\ i + 2 \in Int /\ i + n - 1 \in Int
      BY <1>1, <1>6, <2>1 DEF N
    <3>2. \A p \in (i + 2)..(i + n - 1) : buf[p] \in RequestUnit
      BY <3>1, ElementOfSeq
    <3>3. /\ part \in Seq(RequestUnit)
          /\ Len(part) = IF i + 2 <= i + n - 1 THEN (i + n - 1) - (i + 2) + 1 ELSE 0
          /\ \A q \in 1..((i + n - 1) - (i + 2) + 1) : part[q] = buf[i + 2 + q - 1]
      BY <3>1, <3>2, SubSeqProperties DEF part
    <3>4. \A q \in 1..(n - 2) : i + 2 + q - 1 = i + 1 + q
      BY <1>6
    <3>5. Len(part) = n - 2
      BY ONLY <3>1, <3>3
    <3>6. \A q \in 1..(n - 2) : part[q] = buf[i + 2 + q - 1]
      BY ONLY <3>1, <3>3
    <3>. QED
      BY <3>3, <3>4, <3>5, <3>6
  <2>. DEFINE d == r.data
              all == part \o d
  <2>8. d \in Seq(RequestUnit) /\ r.at \in (i + n)..N /\ From(d, buf, i + n, r.at) /\ Len(d) \in Nat
    BY <2>3, <2>4, LenProperties DEF Scanned, N
  <2>9. /\ all \in Seq(RequestUnit) /\ Len(all) = Len(part) + Len(d)
        /\ \A q \in 1..Len(part) : all[q] = part[q]
        /\ \A q \in 1..Len(d) : all[Len(part) + q] = d[q]
    <3>. HIDE DEF d
    <3>. part \in Seq(RequestUnit) /\ d \in Seq(RequestUnit)
      BY <2>7, <2>8
    <3>. QED
      BY Join
  <2>. HIDE DEF d, all
  <2>15. r.at \in Nat /\ r.at >= i + n /\ Len(all) = n - 2 + Len(d) /\ Len(d) \in Nat /\ i \in Nat /\ n \in Nat /\ n > 2
    BY <1>6, <2>1, <2>4, <2>7, <2>8, <2>9
  <2>10. Len(d) <= r.at - (i + n)
    <3>1. CASE Len(d) = 0
      BY <1>6, <2>1, <2>8, <3>1
    <3>2. CASE Len(d) # 0
      <4>1. 1 \in 1..Len(d)
        BY <2>8, <3>2
      <4>2. PICK p \in (i + n + 1)..r.at : Len(d) - 1 <= r.at - p
        BY <2>8, <4>1 DEF From
      <4>. QED
        BY <1>6, <2>1, <2>8, <4>2
    <3>. QED
      BY <3>1, <3>2
  <2>11. ASSUME NEW q \in 1..Len(all)
         PROVE  \E p \in (i + 1)..r.at : all[q] = buf[p] /\ Len(all) - q <= r.at - p
    <3>1. CASE q <= n - 2
      <4>1. /\ q \in 1..(n - 2) /\ i + 1 + q \in (i + 1)..r.at
            /\ Len(all) - q <= r.at - (i + 1 + q)
        BY ONLY <2>15, <2>10, <3>1, q \in 1..Len(all)
      <4>2. all[q] = buf[i + 1 + q]
        BY <2>7, <2>9, <4>1
      <4>. QED
        BY <4>1, <4>2
    <3>2. CASE ~(q <= n - 2)
      <4>1. PICK k \in 1..Len(d) : q = Len(part) + k
        <5>1. q - (n - 2) \in 1..Len(d) /\ q = (n - 2) + (q - (n - 2))
          BY <2>1, <2>7, <2>8, <2>9, <3>2
        <5>. QED
          BY <2>7, <5>1
      <4>2. PICK p \in (i + n + 1)..r.at : d[k] = buf[p] /\ Len(d) - k <= r.at - p
        BY <2>8, <4>1 DEF From
      <4>3. p \in (i + 1)..r.at /\ Len(all) - q <= r.at - p
        <5>1. q = n - 2 + k
          BY <2>7, <4>1
        <5>. QED
          BY ONLY <2>15, <4>2, <5>1, p \in (i + n + 1)..r.at, k \in 1..Len(d)
      <4>4. all[q] = buf[p]
        BY <2>9, <4>1, <4>2
      <4>. QED
        BY <4>3, <4>4
    <3>. QED
      BY <3>1, <3>2
  <2>12. From(all, buf, i, r.at)
    BY <2>11 DEF From
  <2>13. r.zero => r.at - 1 > i /\ LastSize(buf[r.at - 1])
    <3>1. r.zero => r.at - 1 > i + n /\ LastSize(buf[r.at - 1])
      BY <2>3 DEF Scanned
    <3>2. r.at \in Nat
      BY <2>4
    <3>. QED
      BY <1>6, <2>1, <3>1, <3>2
  <2>14. /\ h[i] \in [at : Nat, data : Seq(RequestUnit), zero : BOOLEAN] /\ r.at \in i..Len(buf)
         /\ h[i].at = r.at /\ h[i].data = all /\ h[i].zero = r.zero
    <3>1. all \in Seq(RequestUnit) /\ h[i] = [r EXCEPT !.data = all]
      BY <2>4, <2>5, <2>9 DEF all, d
    <3>2. r.at \in i..N
      BY <1>6, <2>1, <2>8
    <3>. QED
      BY <2>4, <2>6, <3>1, <3>2 DEF N, all, d
  <2>. QED
    BY <1>6, <2>12, <2>13, <2>14 DEF Scanned
<1>. QED
  BY <1>8, <1>11, <1>12, <1>13

-----------------------------------------------------------------------------
(***************************************************************************)
(* The units of the answers to the first requests.                         *)
(***************************************************************************)
LEMMA AnswerLenType == \A req : AnswerLen(req) \in Nat
<1>1. FileLen \in Nat
  BY SizeAssumption
<1>. QED
  BY <1>1 DEF AnswerLen

UpTo(sc, k) ==
    LET upTo[i \in 0..Len(sc)] == IF i = 0 THEN 0 ELSE upTo[i - 1] + AnswerLen(sc[i])
    IN  upTo[k]

LEMMA AnswerUpToIs == ASSUME NEW c, NEW k PROVE AnswerUpTo(c, k) = UpTo(script[c], k)
BY DEF AnswerUpTo, UpTo

LEMMA UpToIs ==
    ASSUME NEW sc, sc \in Seq(Requests)
    PROVE  /\ UpTo(sc, 0) = 0
           /\ \A k \in 1..Len(sc) : UpTo(sc, k) = UpTo(sc, k - 1) + AnswerLen(sc[k])
           /\ \A k \in 0..Len(sc) : UpTo(sc, k) \in Nat
<1>. DEFINE n == Len(sc)
            b == [i \in 1..n |-> AnswerLen(sc[i])]
            step == [i \in 1..n |-> [x \in Nat |-> x + b[i]]]
            R(f) == f = [i \in 0..n |-> IF i = 0 THEN 0 ELSE f[i - 1] + AnswerLen(sc[i])]
<1>1. n \in Nat /\ \A i \in 1..n : b[i] \in Nat /\ b[i] = AnswerLen(sc[i])
  BY LenProperties, AnswerLenType
<1>. HIDE DEF n, b
<1>2. step \in [1..n -> [Nat -> Nat]]
  BY <1>1
<1>3. PICK f \in [0..n -> Nat] : Steps(f, n, 0, step)
  <2>. HIDE DEF step
  <2>. QED
    BY <1>1, <1>2, Recursion
<1>4. R(f)
  <2>1. \A i \in 1..n : i - 1 \in 0..n /\ f[i - 1] \in Nat
    BY <1>1
  <2>2. \A i \in 1..n, x \in Nat : step[i][x] = x + b[i]
    OBVIOUS
  <2>. HIDE DEF step
  <2>3. \A i \in 1..n : step[i][f[i - 1]] = f[i - 1] + AnswerLen(sc[i])
    BY <1>1, <2>1, <2>2
  <2>4. f = [i \in 0..n |-> IF i = 0 THEN 0 ELSE step[i][f[i - 1]]]
    BY <1>3 DEF Steps
  <2>5. \A i \in 0..n : f[i] = IF i = 0 THEN 0 ELSE f[i - 1] + AnswerLen(sc[i])
    BY <1>1, <2>3, <2>4
  <2>. QED
    BY <2>5
<1>. DEFINE h == CHOOSE g : R(g)
<1>5. R(h)
  BY <1>4
<1>6. \A k : UpTo(sc, k) = h[k]
  BY DEF UpTo, n
<1>. HIDE DEF h
<1>7. h[0] = 0 /\ \A k \in 1..n : h[k] = h[k - 1] + AnswerLen(sc[k])
  BY <1>1, <1>5
<1>8. \A k \in 0..n : h[k] \in Nat
  <2>. DEFINE T == {k \in Nat : k <= n => h[k] \in Nat}
  <2>1. 0 \in T
    BY <1>7
  <2>2. \A k \in T : k + 1 \in T
    <3>. SUFFICES ASSUME NEW k \in T, k + 1 <= n PROVE h[k + 1] \in Nat
      OBVIOUS
    <3>1. k \in Nat /\ k <= n /\ k + 1 \in 1..n /\ (k + 1) - 1 = k
      BY <1>1
    <3>2. h[k] \in Nat /\ b[k + 1] \in Nat /\ h[k + 1] = h[k] + b[k + 1]
      BY <1>1, <1>7, <3>1
    <3>. QED
      BY <3>2
  <2>3. T = Nat
    BY <2>1, <2>2, NatSetInduction
  <2>4. \A k \in 0..n : k \in Nat /\ k <= n
    BY <1>1
  <2>5. \A k \in 0..n : k \in T
    BY <2>3, <2>4
  <2>. QED
    BY <2>4, <2>5
<1>. QED
  BY <1>6, <1>7, <1>8 DEF n

-----------------------------------------------------------------------------
(***************************************************************************)
(* The worlds of the handlers, and what each of them changes.              *)
(***************************************************************************)
LikeCounts == [{0, 1} -> [Diaries \cup {0} -> Nat]]
Marks == Seq([req : Nat, whole : BOOLEAN])
Worlds == [conn : Connection, likes : LikeCounts, handled : Marks, aborted : BOOLEAN]

\* A file that is open has more to be read; else there is none.
FileOK(file) ==
    IF file.open THEN file.cl = FileLen /\ file.sent < file.cl /\ file.pos <= file.sent ELSE file = NoFile

\* What of the file is still to be read.
Rest(file) == IF file.open THEN file.cl - file.sent ELSE 0

\* Handlers that leave what has been received alone, and what was handled.
SameInput(w, v) ==
    /\ v.conn.recv = w.conn.recv /\ v.conn.rcvd = w.conn.rcvd /\ v.conn.chunk = w.conn.chunk
SameRest(w, v) == v.likes = w.likes /\ v.handled = w.handled /\ v.aborted = w.aborted
SameOutput(w, v) ==
    /\ v.conn.send = w.conn.send /\ v.conn.file = w.conn.file /\ v.conn.flags = w.conn.flags

\* k is a connection that has moved part of the file of j to its buffer.
Moves(j, k, part) ==
    /\ part \in Seq(AnswerUnit) /\ k.send = j.send \o part /\ Len(part) <= Rest(j.file)
    /\ Len(part) > 0 => Len(j.send) + Len(part) <= MaxSend
    /\ \A i \in 1..Len(part) : part[i] = [req |-> j.file.req, n |-> 1 + j.file.pos + i, num |-> -1]
    /\ IF j.file.sent + Len(part) < j.file.cl
       THEN k.file = FileRead(j.file, Len(part)) /\ k.flags = j.flags
       ELSE /\ k.file = NoFile
            /\ k.flags = IF j.file.keepalive THEN j.flags ELSE j.flags \cup {"SEND_AND_CLOSE"}

LEMMA SizesAre ==
    /\ FileLen \in Nat /\ FileLen > 0 /\ MaxSend \in Nat /\ MaxSend > 0 /\ MaxRequest \in Nat /\ MaxRequest > 0
    /\ RecvSize \in Nat /\ RecvSize > 0 /\ SockBuf \in Nat /\ SockBuf > 0
BY SizeAssumption

LEMMA WorldIs ==
    ASSUME NEW w \in Worlds
    PROVE  /\ w.conn \in Connection /\ w.likes \in LikeCounts /\ w.handled \in Marks /\ w.aborted \in BOOLEAN
           /\ w.conn.flags \in SUBSET {"SEND_AND_CLOSE", "CLOSE_IMMEDIATELY"}
           /\ w.conn.recv \in Seq(RequestUnit) /\ w.conn.send \in Seq(AnswerUnit)
           /\ w.conn.rcvd \in Nat /\ w.conn.chunk \in Nat /\ w.conn.file \in File
           /\ Len(w.conn.recv) \in Nat /\ Len(w.conn.send) \in Nat /\ Len(w.handled) \in Nat
<1>1. /\ w.conn \in Connection /\ w.likes \in LikeCounts /\ w.handled \in Marks /\ w.aborted \in BOOLEAN
  BY DEF Worlds
<1>2. /\ w.conn.flags \in SUBSET {"SEND_AND_CLOSE", "CLOSE_IMMEDIATELY"}
      /\ w.conn.recv \in Seq(RequestUnit) /\ w.conn.send \in Seq(AnswerUnit)
      /\ w.conn.rcvd \in Nat /\ w.conn.chunk \in Nat /\ w.conn.file \in File
  BY <1>1 DEF Connection
<1>. QED
  BY <1>1, <1>2, LenProperties DEF Marks

LEMMA FileIs ==
    ASSUME NEW file \in File
    PROVE  /\ file.open \in BOOLEAN /\ file.req \in Nat /\ file.pos \in Nat /\ file.sent \in Nat
           /\ file.cl \in Nat /\ file.keepalive \in BOOLEAN
           /\ \A n \in Nat : FileRead(file, n) \in File
<1>1. /\ file.open \in BOOLEAN /\ file.req \in Nat /\ file.pos \in Nat /\ file.sent \in Nat
      /\ file.cl \in Nat /\ file.keepalive \in BOOLEAN
  BY DEF File
<1>2. ASSUME NEW n \in Nat PROVE FileRead(file, n) \in File
  <2>1. file.pos + n \in Nat /\ file.sent + n \in Nat
    BY <1>1
  <2>. QED
    BY <2>1 DEF File, FileRead
<1>. QED
  BY <1>1, <1>2

LEMMA NoFileIs == NoFile \in File /\ FileOK(NoFile) /\ Rest(NoFile) = 0 /\ ~NoFile.open
BY DEF NoFile, File, FileOK, Rest

LEMMA FilledIs ==
    ASSUME NEW j \in Connection, NEW units, NEW file \in File, j.send \o units \in Seq(AnswerUnit),
           NEW flags \in SUBSET {"SEND_AND_CLOSE", "CLOSE_IMMEDIATELY"}
    PROVE  LET k == Filled(j, units, file, flags)
           IN  /\ k \in Connection /\ k.send = j.send \o units /\ k.file = file /\ k.flags = flags
               /\ k.recv = j.recv /\ k.rcvd = j.rcvd /\ k.chunk = j.chunk
BY DEF Filled, Connection

LEMMA FilePartIs ==
    ASSUME NEW k \in Connection, k.file.open, FileOK(k.file)
    PROVE  LET part == FilePart(k)
           IN  /\ part \in Seq(AnswerUnit) /\ Len(part) <= Rest(k.file)
               /\ Len(part) > 0 => Len(k.send) + Len(part) <= MaxSend
               /\ \A i \in 1..Len(part) : part[i] = [req |-> k.file.req, n |-> 1 + k.file.pos + i, num |-> -1]
<1>1. /\ k.file \in File /\ k.send \in Seq(AnswerUnit)
  BY DEF Connection
<1>2. /\ k.file.req \in Nat /\ k.file.pos \in Nat /\ k.file.sent \in Nat /\ k.file.cl \in Nat
      /\ Len(k.send) \in Nat
  BY <1>1, FileIs, LenProperties
<1>3. k.file.cl = FileLen /\ k.file.sent < k.file.cl /\ k.file.pos <= k.file.sent
  BY DEF FileOK
<1>. DEFINE room == Max({0, MaxSend - Len(k.send)})
            left == Max({0, k.file.cl - k.file.sent})
            more == Max({0, FileLen - k.file.pos})
            n == Min({ToRead(k), more})
<1>4. /\ room \in Int /\ left \in Int /\ more \in Int
      /\ room >= 0 /\ (room > 0 => room = MaxSend - Len(k.send))
      /\ left = k.file.cl - k.file.sent /\ left >= 0 /\ more >= 0
  <2>. DEFINE a == MaxSend - Len(k.send)
              b == k.file.cl - k.file.sent
              d == FileLen - k.file.pos
  <2>1. a \in Int /\ b \in Int /\ b >= 0 /\ d \in Int /\ 0 \in Int
    BY <1>2, <1>3, SizesAre
  <2>. HIDE DEF a, b, d
  <2>2. /\ Max({0, a}) = IF 0 >= a THEN 0 ELSE a
        /\ Max({0, b}) = IF 0 >= b THEN 0 ELSE b
        /\ Max({0, d}) = IF 0 >= d THEN 0 ELSE d
    BY <2>1, MaxTwo
  <2>3. /\ room = Max({0, a}) /\ left = Max({0, b}) /\ more = Max({0, d})
    BY DEF a, b, d
  <2>. HIDE DEF room, left, more
  <2>4. /\ room \in Int /\ left \in Int /\ more \in Int
        /\ room >= 0 /\ (room > 0 => room = a)
        /\ left = b /\ left >= 0 /\ more >= 0
    BY ONLY <2>1, <2>2, <2>3
  <2>. QED
    BY <2>4 DEF a, b
<1>. HIDE DEF room, left, more
<1>5. ToRead(k) = Min({room, left})
  BY DEF ToRead, room, left
<1>6. ToRead(k) \in Int /\ ToRead(k) >= 0 /\ ToRead(k) <= room /\ ToRead(k) <= left
  BY <1>4, <1>5, MinTwo
<1>7. n \in Nat /\ n <= room /\ n <= left
  BY <1>4, <1>6, MinTwo
<1>8. FilePart(k) = [i \in 1..n |-> [req |-> k.file.req, n |-> 1 + k.file.pos + i, num |-> -1]]
  BY DEF FilePart, more
<1>. HIDE DEF n
<1>9. \A i \in 1..n : [req |-> k.file.req, n |-> 1 + k.file.pos + i, num |-> -1] \in AnswerUnit
  <2>1. \A i \in 1..n : 1 + k.file.pos + i \in Nat
    BY <1>2, <1>7
  <2>. QED
    BY <1>2, <2>1 DEF AnswerUnit
<1>10. FilePart(k) \in [1..n -> AnswerUnit]
  BY <1>8, <1>9
<1>11. FilePart(k) \in Seq(AnswerUnit) /\ Len(FilePart(k)) = n
  BY <1>7, <1>10, FunctionSeq
<1>12. Rest(k.file) = left
  BY <1>4 DEF Rest
<1>13. n > 0 => Len(k.send) + n <= MaxSend
  BY <1>2, <1>4, <1>7, SizesAre
<1>14. \A i \in 1..n : FilePart(k)[i] = [req |-> k.file.req, n |-> 1 + k.file.pos + i, num |-> -1]
  BY <1>8
<1>. QED
  BY <1>7, <1>11, <1>12, <1>13, <1>14

LEMMA TransferIs ==
    ASSUME NEW w \in Worlds, FileOK(w.conn.file)
    PROVE  LET v == mg_http_transfer_file_data(w)
           IN  /\ v \in Worlds /\ FileOK(v.conn.file) /\ SameInput(w, v) /\ SameRest(w, v)
               /\ \/ ~w.conn.file.open /\ v = w
                  \/ w.conn.file.open /\ \E part : Moves(w.conn, v.conn, part)
<1>. DEFINE v == mg_http_transfer_file_data(w)
            file == w.conn.file
            part == FilePart(w.conn)
<1>1. /\ w.conn \in Connection /\ w.likes \in LikeCounts /\ w.handled \in Marks /\ w.aborted \in BOOLEAN
      /\ w.conn.flags \in SUBSET {"SEND_AND_CLOSE", "CLOSE_IMMEDIATELY"}
      /\ w.conn.recv \in Seq(RequestUnit) /\ w.conn.send \in Seq(AnswerUnit)
      /\ w.conn.rcvd \in Nat /\ w.conn.chunk \in Nat /\ file \in File /\ file.open \in BOOLEAN
  BY WorldIs, FileIs
<1>2. CASE ~file.open
  <2>1. v = w
    BY <1>2 DEF mg_http_transfer_file_data
  <2>. QED
    BY <1>2, <2>1 DEF SameInput, SameRest
<1>3. CASE file.open
  <2>1. /\ part \in Seq(AnswerUnit) /\ Len(part) <= Rest(file)
        /\ Len(part) > 0 => Len(w.conn.send) + Len(part) <= MaxSend
        /\ \A i \in 1..Len(part) : part[i] = [req |-> file.req, n |-> 1 + file.pos + i, num |-> -1]
    BY <1>1, <1>3, FilePartIs
  <2>2. w.conn.send \o part \in Seq(AnswerUnit)
    BY <1>1, <2>1, ConcatProperties
  <2>3. Len(part) \in Nat
    BY <2>1, LenProperties
  <2>. DEFINE ends == IF file.keepalive THEN w.conn.flags ELSE w.conn.flags \cup {"SEND_AND_CLOSE"}
              k == Filled(w.conn, part, FileRead(file, Len(part)), w.conn.flags)
              l == Filled(w.conn, part, NoFile, ends)
  <2>4. v = IF file.sent + Len(part) < file.cl THEN [w EXCEPT !.conn = k] ELSE [w EXCEPT !.conn = l]
    BY <1>3 DEF mg_http_transfer_file_data
  <2>. HIDE DEF part, v
  <2>5. FileRead(file, Len(part)) \in File /\ NoFile \in File
    BY <1>1, <2>3, FileIs, NoFileIs
  <2>6. CASE file.sent + Len(part) < file.cl
    <3>1. /\ k \in Connection /\ k.send = w.conn.send \o part /\ k.file = FileRead(file, Len(part))
          /\ k.flags = w.conn.flags /\ k.recv = w.conn.recv /\ k.rcvd = w.conn.rcvd /\ k.chunk = w.conn.chunk
      <4>. w.conn \in Connection /\ w.conn.flags \in SUBSET {"SEND_AND_CLOSE", "CLOSE_IMMEDIATELY"}
        BY <1>1
      <4>. FileRead(file, Len(part)) \in File /\ w.conn.send \o part \in Seq(AnswerUnit)
        BY <2>2, <2>5
      <4>. QED
        BY FilledIs
    <3>2. v = [w EXCEPT !.conn = k]
      BY <2>4, <2>6
    <3>. HIDE DEF k
    <3>3. v \in Worlds /\ v.conn = k /\ v.likes = w.likes /\ v.handled = w.handled /\ v.aborted = w.aborted
      BY <3>1, <3>2 DEF Worlds
    <3>4. FileOK(k.file)
      <4>1. /\ k.file.open = file.open /\ k.file.cl = file.cl
            /\ k.file.sent = file.sent + Len(part) /\ k.file.pos = file.pos + Len(part)
        BY <1>1, <3>1 DEF FileRead, File
      <4>2. file.cl = FileLen /\ file.pos <= file.sent
        BY <1>3 DEF FileOK
      <4>3. file.pos \in Nat /\ file.sent \in Nat
        BY <1>1, FileIs
      <4>4. file.pos + Len(part) <= file.sent + Len(part)
        BY <2>3, <4>2, <4>3
      <4>. QED
        BY <1>3, <2>6, <4>1, <4>2, <4>4 DEF FileOK
    <3>5. Moves(w.conn, k, part)
      BY <2>1, <2>6, <3>1 DEF Moves
    <3>. QED
      BY <1>3, <3>1, <3>3, <3>4, <3>5 DEF SameInput, SameRest, v
  <2>7. CASE ~(file.sent + Len(part) < file.cl)
    <3>1. /\ l \in Connection /\ l.send = w.conn.send \o part /\ l.file = NoFile
          /\ l.flags = (IF file.keepalive THEN w.conn.flags ELSE w.conn.flags \cup {"SEND_AND_CLOSE"})
          /\ l.recv = w.conn.recv /\ l.rcvd = w.conn.rcvd /\ l.chunk = w.conn.chunk
      <4>. w.conn \in Connection /\ ends \in SUBSET {"SEND_AND_CLOSE", "CLOSE_IMMEDIATELY"}
        BY <1>1
      <4>. NoFile \in File /\ w.conn.send \o part \in Seq(AnswerUnit)
        BY <2>2, <2>5
      <4>1. ends = IF file.keepalive THEN w.conn.flags ELSE w.conn.flags \cup {"SEND_AND_CLOSE"}
        OBVIOUS
      <4>. HIDE DEF ends
      <4>2. /\ l \in Connection /\ l.send = w.conn.send \o part /\ l.file = NoFile
            /\ l.flags = ends /\ l.recv = w.conn.recv /\ l.rcvd = w.conn.rcvd /\ l.chunk = w.conn.chunk
        BY DEF Filled, Connection
      <4>. QED
        BY <4>1, <4>2
    <3>2. v = [w EXCEPT !.conn = l]
      BY <2>4, <2>7
    <3>. HIDE DEF l
    <3>3. v \in Worlds /\ v.conn = l /\ v.likes = w.likes /\ v.handled = w.handled /\ v.aborted = w.aborted
      BY <3>1, <3>2 DEF Worlds
    <3>4. FileOK(l.file)
      BY <3>1, NoFileIs
    <3>5. Moves(w.conn, l, part)
      BY <2>1, <2>7, <3>1 DEF Moves
    <3>. QED
      BY <1>3, <3>1, <3>3, <3>4, <3>5 DEF SameInput, SameRest, v
  <2>. QED
    BY <2>6, <2>7
<1>. QED
  BY <1>1, <1>2, <1>3

-----------------------------------------------------------------------------
(***************************************************************************)
(* What the event handler answers.                                         *)
(***************************************************************************)
Flags == {"SEND_AND_CLOSE", "CLOSE_IMMEDIATELY"}

LEMMA FlagIs ==
    ASSUME NEW w \in Worlds, NEW flag \in Flags
    PROVE  LET v == Flag(w, flag)
           IN  /\ v \in Worlds /\ v.conn.flags = w.conn.flags \cup {flag} /\ v.conn.send = w.conn.send
               /\ v.conn.file = w.conn.file /\ SameInput(w, v) /\ SameRest(w, v)
<1>1. w.conn \in Connection /\ w.conn.flags \in SUBSET Flags
  BY WorldIs DEF Flags
<1>2. w.conn.flags \cup {flag} \in SUBSET {"SEND_AND_CLOSE", "CLOSE_IMMEDIATELY"}
  BY <1>1 DEF Flags
<1>. QED
  BY <1>1, <1>2 DEF Flag, Worlds, Connection, SameInput, SameRest

LEMMA SendIs ==
    ASSUME NEW w \in Worlds, NEW units \in Seq(AnswerUnit)
    PROVE  LET v == mg_send(w, units)
           IN  /\ v \in Worlds /\ v.conn.send = w.conn.send \o units /\ v.conn.flags = w.conn.flags
               /\ v.conn.file = w.conn.file /\ SameInput(w, v) /\ SameRest(w, v)
<1>1. w.conn \in Connection /\ w.conn.send \in Seq(AnswerUnit)
  BY WorldIs
<1>2. w.conn.send \o units \in Seq(AnswerUnit)
  BY <1>1, ConcatProperties
<1>. QED
  BY <1>1, <1>2 DEF mg_send, Worlds, Connection, SameInput, SameRest

\* The two units of an answer to req.
TwoUnits(p, req) ==
    /\ p \in Seq(AnswerUnit) /\ Len(p) = 2
    /\ p[1].req = req.id /\ p[1].n = 1 /\ p[2].req = req.id /\ p[2].n = 2

LEMMA TwoUnitsIs ==
    ASSUME NEW req, NEW u \in AnswerUnit, NEW v \in AnswerUnit,
           u.req = req.id, u.n = 1, v.req = req.id, v.n = 2
    PROVE  TwoUnits(<<u, v>>, req)
<1>1. <<u, v>> \in Seq(AnswerUnit) /\ Len(<<u, v>>) = 2 /\ <<u, v>>[1] = u /\ <<u, v>>[2] = v
  OBVIOUS
<1>. QED
  BY <1>1 DEF TwoUnits

LEMMA TwoUnitsAre ==
    ASSUME NEW req \in Requests, NEW m \in Int
    PROVE  /\ TwoUnits(<<Unit(req, 1), [Unit(req, 2) EXCEPT !.num = m]>>, req)
           /\ TwoUnits(<<Unit(req, 1), Unit(req, 2)>>, req)
           /\ <<Unit(req, 1)>> \in Seq(AnswerUnit) /\ Unit(req, 1) \in AnswerUnit
           /\ Unit(req, 1).req = req.id /\ Unit(req, 1).n = 1
<1>1. req.id \in Nat
  BY RequestIs
<1>2. /\ Unit(req, 1) \in AnswerUnit /\ Unit(req, 1).req = req.id /\ Unit(req, 1).n = 1
      /\ Unit(req, 2) \in AnswerUnit /\ Unit(req, 2).req = req.id /\ Unit(req, 2).n = 2
  BY <1>1 DEF Unit, AnswerUnit
<1>. DEFINE u == [Unit(req, 2) EXCEPT !.num = m]
<1>3. u \in AnswerUnit /\ u.req = req.id /\ u.n = 2
  BY <1>1 DEF Unit, AnswerUnit
<1>4. TwoUnits(<<Unit(req, 1), Unit(req, 2)>>, req)
  BY <1>2, TwoUnitsIs
<1>. HIDE DEF u
<1>5. TwoUnits(<<Unit(req, 1), u>>, req)
  BY <1>2, <1>3, TwoUnitsIs
<1>6. <<Unit(req, 1)>> \in Seq(AnswerUnit)
  BY <1>2
<1>. QED
  BY <1>2, <1>4, <1>5, <1>6 DEF u

\* j is the connection when the head of a file has been put in its buffer.
Opens(i, j, req) ==
    /\ j \in Connection /\ j.recv = i.recv /\ j.rcvd = i.rcvd /\ j.chunk = i.chunk /\ j.flags = i.flags
    /\ \E p \in Seq(AnswerUnit) :
          Len(p) = 1 /\ p[1].req = req.id /\ p[1].n = 1 /\ j.send = i.send \o p
    /\ j.file = [open |-> TRUE, req |-> req.id, pos |-> 0, sent |-> i.file.sent, cl |-> FileLen,
                 keepalive |-> Keepalive(req)]

\* What the handler makes of the connection i when it answers req.
Replied(i, k, req) ==
    \/ req.uri = "printcontent" /\ k = i
    \/ /\ req.uri = "file"
       /\ \E j : Opens(i, j, req) /\ FileOK(j.file) /\ \E part : Moves(j, k, part)
    \/ /\ req.uri \notin {"printcontent", "file"} /\ k.file = i.file
       /\ k.flags = i.flags \/ k.flags = i.flags \cup {"SEND_AND_CLOSE"}
       /\ \E p : TwoUnits(p, req) /\ k.send = i.send \o p

\* v is w with the two units of the answer to req to be sent.
Two(w, v, req) ==
    /\ v \in Worlds /\ v.conn.flags = w.conn.flags /\ v.conn.file = w.conn.file
    /\ SameInput(w, v) /\ SameRest(w, v)
    /\ \E p : TwoUnits(p, req) /\ v.conn.send = w.conn.send \o p

LEMMA AnswerNumIs ==
    ASSUME NEW w \in Worlds, NEW req \in Requests, NEW d \in Diaries \cup {0}
    PROVE  Two(w, AnswerNum(w, req, d), req)
<1>. DEFINE p == <<Unit(req, 1), [Unit(req, 2) EXCEPT !.num = w.likes[LikeStore(d)][d]]>>
<1>1. d \in Nat
  BY SiteAssumption
<1>2. LikeStore(d) \in {0, 1}
  BY <1>1 DEF LikeStore, PREFER_SITE
<1>3. w.likes[LikeStore(d)][d] \in Int
  BY <1>2, WorldIs DEF LikeCounts
<1>4. TwoUnits(p, req)
  BY <1>3, TwoUnitsAre
<1>5. AnswerNum(w, req, d) = mg_send(w, p)
  BY DEF AnswerNum
<1>. HIDE DEF p
<1>6. p \in Seq(AnswerUnit)
  BY <1>4 DEF TwoUnits
<1>. DEFINE v == mg_send(w, p)
<1>7. /\ v \in Worlds /\ v.conn.send = w.conn.send \o p /\ v.conn.flags = w.conn.flags
      /\ v.conn.file = w.conn.file /\ SameInput(w, v) /\ SameRest(w, v)
  BY <1>6, SendIs
<1>. HIDE DEF v
<1>8. Two(w, v, req)
  BY <1>4, <1>7 DEF Two
<1>. QED
  BY <1>5, <1>8 DEF v

LEMMA CountLikeIs ==
    ASSUME NEW w \in Worlds, NEW d \in Diaries \cup {0}
    PROVE  LET v == CountLike(w, d)
           IN  v \in Worlds /\ v.conn = w.conn /\ v.handled = w.handled /\ v.aborted = w.aborted
<1>1. d \in Nat
  BY SiteAssumption
<1>2. PREFER_SITE(d) \in {0, 1}
  BY <1>1 DEF PREFER_SITE
<1>. DEFINE n == w.likes[PREFER_SITE(d)][d] + 1
            more == [w.likes EXCEPT ![PREFER_SITE(d)][d] = n]
<1>3. w.likes \in LikeCounts
  BY WorldIs
<1>4. n \in Nat
  BY <1>2, <1>3 DEF LikeCounts
<1>5. CountLike(w, d) = [w EXCEPT !.likes = more]
  BY DEF CountLike
<1>. HIDE DEF n
<1>6. more \in LikeCounts
  BY <1>2, <1>3, <1>4 DEF LikeCounts
<1>. HIDE DEF more
<1>. QED
  BY <1>5, <1>6 DEF Worlds

LEMMA ServeFileIs ==
    ASSUME NEW w \in Worlds, FileOK(w.conn.file), NEW req \in Requests
    PROVE  LET v == mg_http_serve_file(w, req)
           IN  /\ v \in Worlds /\ FileOK(v.conn.file) /\ SameInput(w, v) /\ SameRest(w, v)
               /\ \E j : Opens(w.conn, j, req) /\ FileOK(j.file) /\ \E part : Moves(j, v.conn, part)
<1>1. /\ w.conn \in Connection /\ w.conn.flags \in SUBSET {"SEND_AND_CLOSE", "CLOSE_IMMEDIATELY"}
      /\ w.conn.file \in File /\ w.conn.send \in Seq(AnswerUnit)
  BY WorldIs
<1>2. w.conn.file.sent \in Nat /\ w.conn.file.sent < FileLen
  <2>1. w.conn.file.sent \in Nat
    BY <1>1, FileIs
  <2>. QED
    BY <2>1, SizesAre DEF FileOK, NoFile
<1>. DEFINE p == <<Unit(req, 1)>>
            file == [open |-> TRUE, req |-> req.id, pos |-> 0, sent |-> w.conn.file.sent, cl |-> FileLen,
                     keepalive |-> Keepalive(req)]
            j == Filled(w.conn, p, file, w.conn.flags)
            u == [w EXCEPT !.conn = j]
<1>3. p \in Seq(AnswerUnit) /\ Len(p) = 1 /\ p[1].req = req.id /\ p[1].n = 1
  <2>1. Unit(req, 1) \in AnswerUnit /\ Unit(req, 1).req = req.id /\ Unit(req, 1).n = 1
    BY 0 \in Int, TwoUnitsAre
  <2>. QED
    BY <2>1, OneSeq
<1>4. file \in File /\ FileOK(file) /\ file.open
  <2>1. req.id \in Nat /\ Keepalive(req) \in BOOLEAN /\ FileLen \in Nat
    BY RequestIs, SizesAre DEF Keepalive
  <2>. QED
    BY <1>2, <2>1 DEF File, FileOK
<1>5. w.conn.send \o p \in Seq(AnswerUnit)
  BY <1>1, <1>3, ConcatProperties
<1>6. mg_http_serve_file(w, req) = mg_http_transfer_file_data(u)
  BY DEF mg_http_serve_file
<1>. HIDE DEF p
<1>7. j \in Connection /\ j.send = w.conn.send \o p /\ j.file = file /\ j.flags = w.conn.flags
      /\ j.recv = w.conn.recv /\ j.rcvd = w.conn.rcvd /\ j.chunk = w.conn.chunk
  BY <1>1, <1>4, <1>5 DEF Filled, Connection
<1>8. Opens(w.conn, j, req)
  BY <1>3, <1>7 DEF Opens
<1>. HIDE DEF file, j
<1>9. u \in Worlds /\ u.conn = j /\ u.likes = w.likes /\ u.handled = w.handled /\ u.aborted = w.aborted
  BY <1>7 DEF Worlds
<1>. HIDE DEF u
<1>10. u.conn.file.open /\ FileOK(u.conn.file)
  BY <1>4, <1>7, <1>9
<1>. DEFINE v == mg_http_transfer_file_data(u)
<1>11. /\ v \in Worlds /\ FileOK(v.conn.file) /\ SameInput(u, v) /\ SameRest(u, v)
       /\ \E part : Moves(j, v.conn, part)
  BY <1>9, <1>10, TransferIs
<1>. HIDE DEF v
<1>12. SameInput(w, v) /\ SameRest(w, v)
  BY <1>7, <1>9, <1>11 DEF SameInput, SameRest
<1>. QED
  BY <1>4, <1>6, <1>7, <1>8, <1>11, <1>12 DEF v

LEMMA EvHandlerIs ==
    ASSUME NEW w \in Worlds, FileOK(w.conn.file), NEW req \in Requests, NEW d \in Diaries \cup {0}
    PROVE  LET v == ev_handler(w, req, d)
           IN  /\ v \in Worlds /\ FileOK(v.conn.file) /\ SameInput(w, v) /\ v.handled = w.handled
               /\ v.aborted = w.aborted /\ Replied(w.conn, v.conn, req)
<1>. DEFINE v == ev_handler(w, req, d)
<1>1. CASE req.uri = "like"
  <2>1. v = AnswerNum(CountLike(w, d), req, d)
    BY <1>1 DEF ev_handler, handle_like
  <2>. DEFINE u == CountLike(w, d)
  <2>2. u \in Worlds /\ u.conn = w.conn /\ u.handled = w.handled /\ u.aborted = w.aborted
    BY CountLikeIs
  <2>. HIDE DEF u, v
  <2>3. Two(u, v, req)
    BY <2>1, <2>2, AnswerNumIs DEF u
  <2>. QED
    BY <1>1, <2>2, <2>3 DEF Two, Replied, SameInput, SameRest, v
<1>2. CASE req.uri = "get_like"
  <2>1. v = AnswerNum(w, req, d)
    BY <1>2 DEF ev_handler, handle_get_like
  <2>. HIDE DEF v
  <2>2. Two(w, v, req)
    BY <2>1, AnswerNumIs
  <2>. QED
    BY <1>2, <2>2 DEF Two, Replied, SameRest, v
<1>3. CASE req.uri = "diary"
  <2>. DEFINE p == <<Unit(req, 1), Unit(req, 2)>>
  <2>1. v = mg_send(w, p)
    BY <1>3 DEF ev_handler
  <2>2. TwoUnits(p, req) /\ p \in Seq(AnswerUnit)
    BY 0 \in Int, TwoUnitsAre DEF TwoUnits
  <2>. HIDE DEF v, p
  <2>3. /\ v \in Worlds /\ v.conn.flags = w.conn.flags /\ v.conn.file = w.conn.file
        /\ SameInput(w, v) /\ SameRest(w, v) /\ v.conn.send = w.conn.send \o p
    BY <2>1, <2>2, SendIs
  <2>. QED
    BY <1>3, <2>2, <2>3 DEF Replied, SameRest, v
<1>4. CASE req.uri = "printcontent"
  <2>1. v = w
    BY <1>4 DEF ev_handler
  <2>. QED
    BY <1>4, <2>1 DEF Replied, SameInput
<1>5. CASE req.uri = "file"
  <2>1. v = mg_http_serve_file(w, req)
    BY <1>5 DEF ev_handler
  <2>. HIDE DEF v
  <2>2. /\ v \in Worlds /\ FileOK(v.conn.file) /\ SameInput(w, v) /\ SameRest(w, v)
        /\ \E j : Opens(w.conn, j, req) /\ FileOK(j.file) /\ \E part : Moves(j, v.conn, part)
    BY <2>1, ServeFileIs
  <2>. QED
    BY <1>5, <2>2 DEF Replied, SameRest, v
<1>6. CASE req.uri \notin {"like", "get_like", "diary", "printcontent", "file"}
  <2>. DEFINE p == <<Unit(req, 1), Unit(req, 2)>>
              u == mg_send(w, p)
  <2>1. v = Flag(u, "SEND_AND_CLOSE")
    BY <1>6 DEF ev_handler, mg_http_send_error
  <2>2. TwoUnits(p, req) /\ p \in Seq(AnswerUnit)
    BY 0 \in Int, TwoUnitsAre DEF TwoUnits
  <2>. HIDE DEF v, p
  <2>3. /\ u \in Worlds /\ u.conn.flags = w.conn.flags /\ u.conn.file = w.conn.file
        /\ SameInput(w, u) /\ SameRest(w, u) /\ u.conn.send = w.conn.send \o p
    BY <2>2, SendIs
  <2>. HIDE DEF u
  <2>4. /\ v \in Worlds /\ v.conn.flags = u.conn.flags \cup {"SEND_AND_CLOSE"} /\ v.conn.send = u.conn.send
        /\ v.conn.file = u.conn.file /\ SameInput(u, v) /\ SameRest(u, v)
    BY <2>1, <2>3, FlagIs DEF Flags
  <2>. QED
    BY <1>6, <2>2, <2>3, <2>4 DEF Replied, SameInput, SameRest, v
<1>. QED
  BY <1>1, <1>2, <1>3, <1>4, <1>5, <1>6
-----------------------------------------------------------------------------
(***************************************************************************)
(* What the HTTP protocol handler does to the buffer of a connection.      *)
(***************************************************************************)
LEMMA ParseHttpIs ==
    ASSUME NEW buf \in Seq(RequestUnit)
    PROVE  LET hm == mg_parse_http(buf)
           IN  /\ hm.len \in Int /\ HeadOf(buf, hm.len) /\ (hm.len < 0 => Len(buf) > 0)
               /\ hm.len > 0 => /\ hm = [len |-> hm.len, req |-> buf[1].req, message |-> message_len(buf[1].req, hm.len)]
                                /\ hm.len \in 1..Len(buf) /\ buf[1] \in RequestUnit /\ buf[1].req \in Requests
<1>. DEFINE len == mg_http_get_request_len(buf)
<1>1. len \in Int /\ HeadOf(buf, len) /\ (len < 0 => Len(buf) > 0)
  BY RequestLenIs
<1>. HIDE DEF len
<1>2. mg_parse_http(buf) = IF len <= 0 THEN [len |-> len]
                           ELSE [len |-> len, req |-> buf[1].req, message |-> message_len(buf[1].req, len)]
  BY DEF mg_parse_http, len
<1>3. mg_parse_http(buf).len = len
  BY <1>2
<1>4. Len(buf) \in Nat
  BY LenProperties
<1>5. len > 0 => len \in 1..Len(buf) /\ 1 \in 1..Len(buf)
  BY <1>1, <1>4 DEF HeadOf
<1>6. len > 0 => buf[1] \in RequestUnit /\ buf[1].req \in Requests
  <2>1. len > 0 => buf[1] \in RequestUnit
    BY <1>5, ElementOfSeq
  <2>. QED
    BY <2>1 DEF RequestUnit
<1>7. len > 0 => ~(len <= 0)
  BY <1>1
<1>. QED
  BY <1>1, <1>2, <1>3, <1>5, <1>6, <1>7

\* buf and n are what the chunks after the first m units of rest collapse to.
Collapses(rest, m, buf, n, zero) ==
    /\ buf \in Seq(RequestUnit) /\ n \in Nat
    /\ \/ buf = rest /\ n = m /\ zero = FALSE
       \/ /\ n <= Len(buf) /\ From(buf, rest, 0, Len(rest))
          /\ zero => \E p \in 1..(Len(rest) - 1) : LastSize(rest[p])

\* What s makes of t in place of what is between m and at.
Joins(S, t, s, m, at) ==
    LET body == SubSeq(t, 1, m) \o s
        buf == body \o SubSeq(t, at + 1, Len(t))
    IN  /\ body \in Seq(S) /\ buf \in Seq(S) /\ Len(body) \in Nat /\ Len(body) <= Len(buf)
        /\ Len(body) + Len(SubSeq(t, at + 1, Len(t))) = Len(buf)
        /\ From(buf, t, 0, Len(t))

LEMMA JoinFrom ==
    ASSUME NEW S, NEW t \in Seq(S), NEW s \in Seq(S), NEW m \in 0..Len(t), NEW at \in m..Len(t), From(s, t, m, at)
    PROVE  Joins(S, t, s, m, at)
<1>. DEFINE a == SubSeq(t, 1, m)
            b == SubSeq(t, at + 1, Len(t))
            body == a \o s
            buf == body \o b
            N == Len(t)
<1>1. N \in Nat /\ m \in Nat /\ at \in Nat /\ m <= at /\ at <= N /\ Len(s) \in Nat
  BY LenProperties
<1>2. at \in 0..Len(t)
  BY <1>1
<1>3. a \in Seq(S) /\ Len(a) = m /\ \A i \in 1..m : a[i] = t[i]
  BY Cut
<1>4. b \in Seq(S) /\ Len(b) = N - at /\ \A i \in 1..(N - at) : b[i] = t[at + i]
  BY <1>2, Cut
<1>. HIDE DEF a, b
<1>5. /\ body \in Seq(S) /\ Len(body) = Len(a) + Len(s) /\ Len(body) \in Nat
      /\ \A i \in 1..Len(a) : body[i] = a[i]
      /\ \A i \in 1..Len(s) : body[Len(a) + i] = s[i]
  <2>. a \in Seq(S)
    BY <1>3
  <2>. QED
    BY Join
<1>. HIDE DEF body
<1>6. /\ buf \in Seq(S) /\ Len(buf) = Len(body) + Len(b)
      /\ \A i \in 1..Len(body) : buf[i] = body[i]
      /\ \A i \in 1..Len(b) : buf[Len(body) + i] = b[i]
  <2>. body \in Seq(S) /\ b \in Seq(S)
    BY <1>4, <1>5
  <2>. QED
    BY Join
<1>. HIDE DEF buf
<1>7. Len(s) <= at - m
  <2>1. CASE Len(s) > 0
    <3>1. 1 \in 1..Len(s)
      BY <1>1, <2>1
    <3>2. PICK p \in (m + 1)..at : s[1] = t[p] /\ Len(s) - 1 <= at - p
      BY <3>1 DEF From
    <3>3. p \in Int /\ m + 1 <= p /\ Len(s) - 1 <= at - p
      BY <1>1, <3>2
    <3>. QED
      BY ONLY <1>1, <3>3
  <2>. QED
    BY <1>1, <2>1
<1>8. Len(body) = m + Len(s) /\ Len(buf) = m + Len(s) + (N - at) /\ Len(b) = N - at
  BY <1>3, <1>4, <1>5, <1>6
<1>. DEFINE l == Len(s)
            L == Len(buf)
<1>9. l \in Nat /\ L = m + l + (N - at) /\ l <= at - m
  BY <1>1, <1>7, <1>8
<1>10. ASSUME NEW q \in 1..L PROVE \E p \in 1..N : buf[q] = t[p] /\ L - q <= N - p
  <2>1. CASE q <= m
    <3>1. q \in 1..m /\ q \in 1..N
      BY <1>1, <2>1, <1>9
    <3>2. q \in 1..Len(body)
      BY <1>1, <1>8, <3>1
    <3>3. buf[q] = body[q] /\ body[q] = a[q] /\ a[q] = t[q]
      BY <1>3, <1>5, <1>6, <3>1, <3>2
    <3>4. L <= N
      BY ONLY <1>1, <1>9, L \in Int
    <3>5. L - q <= N - q
      BY <1>1, <1>9, <3>1, <3>4
    <3>. QED
      BY <3>1, <3>3, <3>5
  <2>2. CASE q > m /\ q <= m + l
    <3>. DEFINE r == q - m
    <3>1. r \in 1..l /\ q = m + r
      BY <1>1, <1>9, <2>2
    <3>. HIDE DEF r, l
    <3>2. PICK p \in (m + 1)..at : s[r] = t[p] /\ l - r <= at - p
      BY <3>1 DEF From, l
    <3>3. p \in Int /\ m + 1 <= p /\ p <= at /\ l - r <= at - p /\ r \in Int
      BY <1>1, <3>1, <3>2
    <3>4. p \in 1..N /\ L - q <= N - p
      BY ONLY <1>1, <1>9, <3>1, <3>3
    <3>5. q \in 1..Len(body)
      BY <1>1, <1>8, <1>9, <3>1 DEF l
    <3>6. body[m + r] = s[r]
      BY <1>3, <1>5, <3>1 DEF l
    <3>7. buf[q] = t[p]
      BY <1>6, <3>1, <3>2, <3>5, <3>6
    <3>. QED
      BY <3>4, <3>7
  <2>3. CASE q > m + l
    <3>. DEFINE r == q - (m + l)
                p == at + r
    <3>1. r \in 1..(N - at) /\ q = m + l + r
      BY ONLY <1>1, <1>9, <2>3, q \in 1..L
    <3>2. p \in 1..N /\ L - q <= N - p
      BY ONLY <1>1, <1>9, <3>1
    <3>3. buf[q] = b[r] /\ b[r] = t[p]
      <4>1. r \in 1..Len(b) /\ Len(body) + r = q
        BY <1>8, <3>1
      <4>2. buf[Len(body) + r] = b[r]
        BY <1>6, <4>1
      <4>3. b[r] = t[at + r]
        BY <1>4, <3>1
      <4>. QED
        BY <4>1, <4>2, <4>3
    <3>. QED
      BY <3>2, <3>3
  <2>. QED
    BY <1>1, <1>9, <2>1, <2>2, <2>3
<1>11. From(buf, t, 0, N)
  BY <1>10 DEF From
<1>12. Len(body) \in Nat /\ Len(body) <= Len(buf) /\ Len(body) + Len(b) = Len(buf)
  BY ONLY <1>1, <1>8
<1>. QED
  BY <1>5, <1>6, <1>11, <1>12 DEF buf, body, a, b, Joins

LEMMA HandleChunkedIs ==
    ASSUME NEW rest \in Seq(RequestUnit), NEW m \in 0..Len(rest), NEW len \in Nat, NEW req, NEW msg
    PROVE  LET s == mg_handle_chunked(rest, m, [len |-> len, req |-> req, message |-> msg])
           IN  \E zero \in BOOLEAN :
                  /\ Collapses(rest, m, s.buf, s.bodyLen, zero) /\ s.hm.len = len /\ s.hm.req = req
                  /\ s.hm.message = IF zero THEN Len(s.buf) + len ELSE msg
<1>. DEFINE hm == [len |-> len, req |-> req, message |-> msg]
            s == mg_handle_chunked(rest, m, hm)
            r == Reassembled(rest, m)
            body == SubSeq(rest, 1, m) \o r.data
            un == SubSeq(rest, r.at + 1, Len(rest))
            buf == body \o un
<1>1. Scanned(r, rest, m)
  BY ReassembledIs
<1>2. s = IF r.at = m THEN [buf |-> rest, bodyLen |-> m, hm |-> hm]
          ELSE [buf |-> buf, bodyLen |-> Len(body),
                hm |-> IF r.zero THEN [hm EXCEPT !.message = Len(body) + Len(un) + hm.len] ELSE hm]
  BY DEF mg_handle_chunked
<1>. HIDE DEF r, s
<1>3. /\ r.at \in m..Len(rest) /\ r.data \in Seq(RequestUnit) /\ r.zero \in BOOLEAN
      /\ From(r.data, rest, m, r.at) /\ (r.zero => r.at - 1 > m /\ LastSize(rest[r.at - 1]))
  BY <1>1 DEF Scanned
<1>4. m \in Nat /\ Len(rest) \in Nat
  BY LenProperties
<1>5. CASE r.at = m
  <2>1. s = [buf |-> rest, bodyLen |-> m, hm |-> hm]
    BY <1>2, <1>5
  <2>2. s.buf = rest /\ s.bodyLen = m /\ s.hm.len = len /\ s.hm.req = req /\ s.hm.message = msg
    BY <2>1
  <2>3. Collapses(rest, m, s.buf, s.bodyLen, FALSE)
    BY <1>4, <2>2 DEF Collapses
  <2>4. s.hm.message = IF FALSE THEN Len(s.buf) + len ELSE msg
    BY <2>2
  <2>. HIDE DEF hm
  <2>5. \E zero \in BOOLEAN :
                  /\ Collapses(rest, m, s.buf, s.bodyLen, zero) /\ s.hm.len = len /\ s.hm.req = req
                  /\ s.hm.message = IF zero THEN Len(s.buf) + len ELSE msg
    BY <2>2, <2>3, <2>4
  <2>. QED
    BY <2>5 DEF s, hm
<1>6. CASE r.at # m
  <2>1. /\ body \in Seq(RequestUnit) /\ buf \in Seq(RequestUnit) /\ Len(body) \in Nat
        /\ Len(body) <= Len(buf) /\ Len(body) + Len(un) = Len(buf) /\ From(buf, rest, 0, Len(rest))
    <3>. r.at \in m..Len(rest) /\ r.data \in Seq(RequestUnit) /\ From(r.data, rest, m, r.at)
      BY <1>3
    <3>1. Joins(RequestUnit, rest, r.data, m, r.at)
      BY JoinFrom
    <3>. QED
      BY <3>1 DEF Joins
  <2>2. s = [buf |-> buf, bodyLen |-> Len(body),
             hm |-> IF r.zero THEN [hm EXCEPT !.message = Len(body) + Len(un) + hm.len] ELSE hm]
    BY <1>2, <1>6
  <2>. HIDE DEF buf
  <2>3. r.zero => \E p \in 1..(Len(rest) - 1) : LastSize(rest[p])
    <3>1. r.zero => r.at - 1 \in 1..(Len(rest) - 1)
      BY <1>3, <1>4
    <3>. QED
      BY <1>3, <3>1
  <2>4. Collapses(rest, m, buf, Len(body), r.zero)
    BY <2>1, <2>3 DEF Collapses
  <2>5. /\ s.buf = buf /\ s.bodyLen = Len(body) /\ s.hm.len = len /\ s.hm.req = req
        /\ s.hm.message = IF r.zero THEN Len(buf) + len ELSE msg
    BY <2>1, <2>2
  <2>. QED
    BY <1>3, <2>4, <2>5 DEF s
<1>. QED
  BY <1>5, <1>6

\* v is w once the head of the request req of msg units has been handled.
Handles(w, v, req, msg) ==
    /\ v \in Worlds /\ FileOK(v.conn.file) /\ v.aborted = w.aborted
    /\ \E whole \in BOOLEAN : v.handled = Append(w.handled, [req |-> req.id, whole |-> whole])
    /\ \E k : /\ Replied(w.conn, k, req) /\ v.conn.send = k.send /\ v.conn.file = k.file /\ v.conn.flags = k.flags
    /\ v.conn.rcvd = 0 /\ v.conn.chunk = w.conn.chunk
    /\ v.conn.recv = IF msg <= Len(w.conn.recv) THEN SubSeq(w.conn.recv, msg + 1, Len(w.conn.recv)) ELSE w.conn.recv

\* The handler alone.
Calls(w, v, req) ==
    /\ v \in Worlds /\ FileOK(v.conn.file) /\ SameInput(w, v) /\ v.aborted = w.aborted
    /\ \E whole \in BOOLEAN : v.handled = Append(w.handled, [req |-> req.id, whole |-> whole])
    /\ Replied(w.conn, v.conn, req)

LEMMA CallIs ==
    ASSUME NEW w \in Worlds, FileOK(w.conn.file), NEW hm, hm.req \in Requests, NEW other \in Diaries \cup {0}
    PROVE  Calls(w, mg_http_call_endpoint_handler(w, hm, other), hm.req)
<1>. DEFINE req == hm.req
            body == SubSeq(w.conn.recv, hm.len + 1, Len(w.conn.recv))
            d == IF IsPrefix(Body(req), body) THEN req.diary ELSE other
            u == ev_handler(w, req, d)
            whole == body = Body(req)
            more == Append(u.handled, [req |-> req.id, whole |-> whole])
            v == mg_http_call_endpoint_handler(w, hm, other)
<1>1. d \in Diaries \cup {0} /\ req \in Requests
  BY RequestIs
<1>2. v = [u EXCEPT !.handled = more]
  BY DEF mg_http_call_endpoint_handler
<1>3. whole \in BOOLEAN
  OBVIOUS
<1>. HIDE DEF whole, d, v
<1>4. /\ u \in Worlds /\ FileOK(u.conn.file) /\ SameInput(w, u) /\ u.handled = w.handled
      /\ u.aborted = w.aborted /\ Replied(w.conn, u.conn, req)
  BY <1>1, EvHandlerIs
<1>. HIDE DEF u
<1>5. more \in Marks /\ more = Append(w.handled, [req |-> req.id, whole |-> whole])
  <2>1. req.id \in Nat
    BY RequestIs
  <2>2. [req |-> req.id, whole |-> whole] \in [req : Nat, whole : BOOLEAN]
    BY <1>3, <2>1
  <2>. QED
    BY <1>4, <2>2, WorldIs, AppendProperties DEF Marks
<1>. HIDE DEF more
<1>6. v \in Worlds /\ v.conn = u.conn /\ v.handled = more /\ v.aborted = u.aborted
  BY <1>2, <1>4, <1>5 DEF Worlds
<1>7. Calls(w, v, req)
  BY <1>3, <1>4, <1>5, <1>6 DEF Calls, SameInput
<1>. QED
  BY <1>7 DEF v
LEMMA RemoveIs ==
    ASSUME NEW w \in Worlds, NEW n \in Nat
    PROVE  LET v == [mbuf_remove(w, n) EXCEPT !.conn.rcvd = 0]
           IN  /\ v \in Worlds /\ SameOutput(w, v) /\ SameRest(w, v)
               /\ v.conn.rcvd = 0 /\ v.conn.chunk = w.conn.chunk
               /\ v.conn.recv = IF n <= Len(w.conn.recv)
                                THEN SubSeq(w.conn.recv, n + 1, Len(w.conn.recv)) ELSE w.conn.recv
<1>. DEFINE left == IF n <= Len(w.conn.recv) THEN SubSeq(w.conn.recv, n + 1, Len(w.conn.recv)) ELSE w.conn.recv
            u == [w EXCEPT !.conn.recv = left]
            v == [mbuf_remove(w, n) EXCEPT !.conn.rcvd = 0]
<1>1. w.conn \in Connection /\ w.conn.recv \in Seq(RequestUnit) /\ Len(w.conn.recv) \in Nat
  BY WorldIs
<1>2. left \in Seq(RequestUnit)
  <2>1. n <= Len(w.conn.recv) => n \in 0..Len(w.conn.recv)
    BY <1>1
  <2>. QED
    BY <1>1, <2>1, CutType
<1>3. CASE n <= Len(w.conn.recv)
  <2>1. v = [u EXCEPT !.conn.rcvd = 0]
    BY <1>3 DEF mbuf_remove
  <2>. HIDE DEF left, v
  <2>2. u \in Worlds /\ u.conn \in Connection /\ u.conn.recv = left /\ SameOutput(w, u) /\ SameRest(w, u)
        /\ u.conn.chunk = w.conn.chunk
    BY <1>1, <1>2 DEF Worlds, Connection, SameOutput, SameRest
  <2>. HIDE DEF u
  <2>3. v \in Worlds /\ v.conn.recv = left /\ SameOutput(u, v) /\ SameRest(u, v) /\ v.conn.rcvd = 0
        /\ v.conn.chunk = u.conn.chunk
    BY <2>1, <2>2 DEF Worlds, Connection, SameOutput, SameRest
  <2>. QED
    BY <2>2, <2>3 DEF SameOutput, SameRest, v, left
<1>4. CASE ~(n <= Len(w.conn.recv))
  <2>1. v = [w EXCEPT !.conn.rcvd = 0] /\ left = w.conn.recv
    BY <1>4 DEF mbuf_remove
  <2>. HIDE DEF left, v
  <2>2. v \in Worlds /\ v.conn.recv = left /\ SameOutput(w, v) /\ SameRest(w, v) /\ v.conn.rcvd = 0
        /\ v.conn.chunk = w.conn.chunk
    BY <1>1, <2>1 DEF Worlds, Connection, SameOutput, SameRest
  <2>. QED
    BY <2>2 DEF v, left
<1>. QED
  BY <1>3, <1>4

\* v is what the end of the handler makes of w when hm was parsed.
Delivers(w, v, hm) ==
    \/ v = w
    \/ hm.len <= 0 /\ v = Flag(w, "CLOSE_IMMEDIATELY") /\ Len(w.conn.recv) > 0
    \/ /\ hm.len > 0 /\ hm.message # Endless /\ hm.message <= w.conn.rcvd
       /\ Handles(w, v, hm.req, hm.message)

LEMMA DeliverIs ==
    ASSUME NEW w \in Worlds, FileOK(w.conn.file), NEW hm, hm.len \in Int, hm.len < 0 => Len(w.conn.recv) > 0,
           hm.len > 0 => hm.req \in Requests /\ hm.message \in Nat \cup {Endless},
           NEW other \in Diaries \cup {0}
    PROVE  Delivers(w, Deliver(w, hm, other), hm)
<1>. DEFINE v == Deliver(w, hm, other)
<1>1. CASE hm.len < 0 \/ (hm.len = 0 /\ Len(w.conn.recv) >= MaxRequest)
  <2>1. v = Flag(w, "CLOSE_IMMEDIATELY")
    BY <1>1 DEF Deliver
  <2>2. Len(w.conn.recv) > 0 /\ hm.len <= 0
    BY <1>1, SizesAre, WorldIs
  <2>. QED
    BY <2>1, <2>2 DEF Delivers
<1>2. CASE ~(hm.len < 0 \/ (hm.len = 0 /\ Len(w.conn.recv) >= MaxRequest)) /\ (hm.len = 0 \/ ~Complete(w, hm))
  <2>1. v = w
    BY <1>2 DEF Deliver
  <2>. QED
    BY <2>1 DEF Delivers
<1>3. CASE ~(hm.len < 0) /\ hm.len # 0 /\ Complete(w, hm)
  <2>1. hm.len > 0 /\ hm.req \in Requests
    BY <1>3
  <2>2. hm.message \in Nat /\ hm.message # Endless /\ hm.message <= w.conn.rcvd
    BY <1>3, <2>1 DEF Complete
  <2>. DEFINE u == mg_http_call_endpoint_handler(w, hm, other)
              n == hm.message
  <2>3. v = [mbuf_remove(u, hm.message) EXCEPT !.conn.rcvd = 0]
    BY <1>3 DEF Deliver
  <2>. HIDE DEF v
  <2>4. Calls(w, u, hm.req)
    BY <2>1, CallIs
  <2>. HIDE DEF u
  <2>5. u \in Worlds /\ n \in Nat
    BY <2>2, <2>4 DEF Calls
  <2>. HIDE DEF n
  <2>. DEFINE x == [mbuf_remove(u, n) EXCEPT !.conn.rcvd = 0]
  <2>6. /\ x \in Worlds /\ SameOutput(u, x) /\ SameRest(u, x)
        /\ x.conn.rcvd = 0 /\ x.conn.chunk = u.conn.chunk
        /\ x.conn.recv = IF n <= Len(u.conn.recv)
                         THEN SubSeq(u.conn.recv, n + 1, Len(u.conn.recv)) ELSE u.conn.recv
    BY <2>5, RemoveIs
  <2>7. v = x
    BY <2>3 DEF n
  <2>. HIDE DEF x
  <2>8. Handles(w, v, hm.req, n)
    BY <2>4, <2>6, <2>7 DEF Calls, Handles, SameInput, SameOutput, SameRest
  <2>. QED
    BY <2>1, <2>2, <2>8 DEF Delivers, v, n
<1>. QED
  BY <1>1, <1>2, <1>3

\* u is w once what follows its head, of len units, was collapsed to buf.
Collapsed(w, u, len, buf, n) ==
    /\ u \in Worlds /\ SameOutput(w, u) /\ SameRest(w, u) /\ u.conn.rcvd = w.conn.rcvd
    /\ u.conn.recv = SubSeq(w.conn.recv, 1, len) \o buf /\ u.conn.chunk = n

LEMMA CollapsedIs ==
    ASSUME NEW w \in Worlds, NEW len \in 0..Len(w.conn.recv), NEW buf \in Seq(RequestUnit), NEW n \in Nat
    PROVE  Collapsed(w, [w EXCEPT !.conn.recv = SubSeq(@, 1, len) \o buf, !.conn.chunk = n], len, buf, n)
<1>. DEFINE new == SubSeq(w.conn.recv, 1, len) \o buf
<1>1. w.conn \in Connection /\ w.conn.recv \in Seq(RequestUnit)
  BY WorldIs
<1>2. SubSeq(w.conn.recv, 1, len) \in Seq(RequestUnit)
  BY <1>1, CutType
<1>3. new \in Seq(RequestUnit)
  BY <1>2, ConcatProperties
<1>. DEFINE u == [w EXCEPT !.conn.recv = new, !.conn.chunk = n]
<1>4. u = [w EXCEPT !.conn.recv = SubSeq(@, 1, len) \o buf, !.conn.chunk = n]
  OBVIOUS
<1>. HIDE DEF new
<1>5. u \in Worlds /\ SameOutput(w, u) /\ SameRest(w, u) /\ u.conn.rcvd = w.conn.rcvd
      /\ u.conn.recv = new /\ u.conn.chunk = n
  BY <1>1, <1>3 DEF Worlds, Connection, SameOutput, SameRest
<1>. QED
  BY <1>4, <1>5 DEF Collapsed, new

\* Units of a message whose body is not chunked.
PlainLen(req, len) == IF req.enc = "length" THEN len + BodyLen(req) ELSE len

After(buf, len) == SubSeq(buf, len + 1, Len(buf))

\* v is what the handler makes of w, in which a head has len units.
Parses(w, v, len) ==
    LET recv == w.conn.recv
        req == recv[1].req
    IN  \/ len <= 0 /\ (v = w \/ (v = Flag(w, "CLOSE_IMMEDIATELY") /\ Len(recv) > 0))
        \/ /\ len > 0 /\ req \in Requests /\ req.enc # "chunked"
           /\ v = w \/ (PlainLen(req, len) <= w.conn.rcvd /\ Handles(w, v, req, PlainLen(req, len)))
        \/ /\ len > 0 /\ req \in Requests /\ req.enc = "chunked"
           /\ \/ Len(After(recv, len)) < w.conn.chunk /\ v = [w EXCEPT !.aborted = TRUE]
              \/ /\ w.conn.chunk \in 0..Len(After(recv, len))
                 /\ \E u, buf, n, zero :
                    /\ Collapses(After(recv, len), w.conn.chunk, buf, n, zero) /\ Collapsed(w, u, len, buf, n)
                    /\ v = u \/ (zero /\ Handles(u, v, req, Len(buf) + len))

LEMMA ParsedIs ==
    ASSUME NEW w \in Worlds, FileOK(w.conn.file), NEW other \in Diaries \cup {0}
    PROVE  \E len \in Int : HeadOf(w.conn.recv, len) /\ Parses(w, Parsed(w, mg_parse_http(w.conn.recv), other), len)
<1>. DEFINE recv == w.conn.recv
            hm == mg_parse_http(recv)
            len == hm.len
            req == recv[1].req
            v == Parsed(w, hm, other)
<1>1. recv \in Seq(RequestUnit) /\ Len(recv) \in Nat /\ w.conn.chunk \in Nat /\ w.conn.rcvd \in Nat
  BY WorldIs
<1>2. /\ hm.len \in Int /\ HeadOf(recv, hm.len) /\ (hm.len < 0 => Len(recv) > 0)
      /\ hm.len > 0 => /\ hm = [len |-> hm.len, req |-> recv[1].req, message |-> message_len(recv[1].req, hm.len)]
                       /\ hm.len \in 1..Len(recv) /\ recv[1] \in RequestUnit /\ recv[1].req \in Requests
  BY <1>1, ParseHttpIs
<1>3. v = IF hm.len > 0 /\ hm.req.enc = "chunked" THEN ParseChunked(w, hm, After(recv, hm.len), other)
          ELSE Deliver(w, hm, other)
  BY DEF Parsed, After
<1>. HIDE DEF hm, v
<1>4. hm.len > 0 => /\ hm.req = req /\ hm.message = message_len(req, len) /\ req \in Requests
                    /\ len \in 1..Len(recv) /\ BodyLen(req) \in Nat
                    /\ req.enc \in {"length", "chunked", "none"}
                    /\ (req.enc = "chunked" => req.method \in {"PUT", "POST"})
  BY <1>2, RequestIs
<1>5. hm.len > 0 => /\ hm.message \in Nat \cup {Endless}
                    /\ req.enc # "chunked" /\ hm.message # Endless => hm.message = PlainLen(req, len)
                    /\ req.enc = "chunked" => hm.message = Endless
  <2>. DEFINE b == BodyLen(req)
  <2>1. len > 0 => len \in Nat /\ b \in Nat /\ len + b \in Nat /\ b = BodyLen(req)
    BY <1>1, <1>4
  <2>. HIDE DEF b
  <2>2. len > 0 => hm.message = IF req.enc = "length" THEN len + b
                                ELSE IF req.method \in {"PUT", "POST"} THEN Endless ELSE len
    BY <1>4, <2>1 DEF message_len
  <2>3. PlainLen(req, len) = IF req.enc = "length" THEN len + BodyLen(req) ELSE len
    BY DEF PlainLen
  <2>. HIDE DEF len
  <2>. QED
    BY <1>4, <2>1, <2>2, <2>3 DEF len
<1>6. CASE ~(hm.len > 0 /\ hm.req.enc = "chunked")
  <2>1. v = Deliver(w, hm, other)
    BY <1>3, <1>6
  <2>2. Delivers(w, v, hm)
    <3>1. hm.len > 0 => hm.req \in Requests /\ hm.message \in Nat \cup {Endless}
      BY <1>4, <1>5
    <3>. QED
      BY <1>2, <2>1, <3>1, DeliverIs
  <2>3. CASE hm.len > 0
    <3>1. v = w \/ (PlainLen(req, len) <= w.conn.rcvd /\ Handles(w, v, req, PlainLen(req, len)))
      BY <1>2, <1>4, <1>5, <1>6, <2>2, <2>3 DEF Delivers
    <3>2. req.enc # "chunked" /\ req \in Requests
      BY <1>4, <1>6, <2>3
    <3>. QED
      BY <1>2, <2>3, <3>1, <3>2 DEF Parses, v, hm
  <2>4. CASE ~(hm.len > 0)
    <3>1. v = w \/ (v = Flag(w, "CLOSE_IMMEDIATELY") /\ Len(recv) > 0)
      BY <2>2, <2>4 DEF Delivers
    <3>2. len <= 0
      BY <1>2, <2>4
    <3>. QED
      BY <1>2, <3>1, <3>2 DEF Parses, v, hm
  <2>. QED
    BY <2>3, <2>4
<1>7. CASE hm.len > 0 /\ hm.req.enc = "chunked"
  <2>. DEFINE rest == After(recv, len)
              s == mg_handle_chunked(rest, w.conn.chunk, hm)
  <2>1. v = IF Len(rest) < w.conn.chunk THEN [w EXCEPT !.aborted = TRUE] ELSE DeliverSeen(w, hm, s, other)
    BY <1>3, <1>7 DEF ParseChunked
  <2>2. len \in 0..Len(recv) /\ len \in Nat /\ len > 0 /\ req \in Requests /\ req.enc = "chunked"
    BY <1>1, <1>4, <1>7
  <2>3. rest \in Seq(RequestUnit) /\ Len(rest) \in Nat
    <3>1. rest \in Seq(RequestUnit)
      BY <1>1, <2>2, CutType DEF After
    <3>. QED
      BY <3>1, LenProperties
  <2>. HIDE DEF rest, s
  <2>4. CASE Len(rest) < w.conn.chunk
    <3>1. v = [w EXCEPT !.aborted = TRUE]
      BY <2>1, <2>4
    <3>. QED
      BY <1>2, <2>2, <2>4, <3>1 DEF Parses, v, hm, rest
  <2>5. CASE ~(Len(rest) < w.conn.chunk)
    <3>1. w.conn.chunk \in 0..Len(rest)
      BY <1>1, <2>3, <2>5
    <3>2. hm = [len |-> len, req |-> req, message |-> Endless]
      BY <1>2, <1>4, <1>5, <1>7
    <3>3. PICK zero \in BOOLEAN :
            /\ Collapses(rest, w.conn.chunk, s.buf, s.bodyLen, zero) /\ s.hm.len = len /\ s.hm.req = req
            /\ s.hm.message = IF zero THEN Len(s.buf) + len ELSE Endless
      <4>. DEFINE m == w.conn.chunk
                  k == len
                  r == req
      <4>1. s = mg_handle_chunked(rest, m, [len |-> k, req |-> r, message |-> Endless])
        BY <3>2 DEF s
      <4>2. m \in 0..Len(rest) /\ k \in Nat /\ rest \in Seq(RequestUnit)
        BY <2>2, <2>3, <3>1
      <4>. HIDE DEF m, k, r
      <4>3. \E zero \in BOOLEAN :
                  /\ Collapses(rest, m, s.buf, s.bodyLen, zero) /\ s.hm.len = k /\ s.hm.req = r
                  /\ s.hm.message = IF zero THEN Len(s.buf) + k ELSE Endless
        BY <4>1, <4>2, HandleChunkedIs
      <4>. QED
        BY <4>3 DEF m, k, r
    <3>. DEFINE buf == s.buf
                n == s.bodyLen
                u == [w EXCEPT !.conn.recv = SubSeq(@, 1, hm.len) \o s.buf, !.conn.chunk = s.bodyLen]
    <3>4. buf \in Seq(RequestUnit) /\ n \in Nat /\ Len(buf) \in Nat
      BY <3>3, LenProperties DEF Collapses
    <3>5. Collapsed(w, u, len, buf, n)
      BY <2>2, <3>4, CollapsedIs
    <3>6. v = Deliver(u, s.hm, other)
      BY <2>1, <2>5 DEF DeliverSeen
    <3>. HIDE DEF u
    <3>7. u \in Worlds /\ FileOK(u.conn.file)
      BY <3>5 DEF Collapsed, SameOutput
    <3>8. Delivers(u, v, s.hm)
      <4>1. s.hm.message \in Nat \cup {Endless}
        <5>1. Len(s.buf) + len \in Nat
          BY <2>2, <3>4
        <5>. QED
          BY <3>3, <5>1
      <4>. DEFINE h == s.hm
      <4>2. h.len \in Int /\ ~(h.len < 0) /\ h.req \in Requests /\ h.message \in Nat \cup {Endless}
        BY <2>2, <3>3, <4>1
      <4>3. v = Deliver(u, h, other)
        BY <3>6
      <4>. HIDE DEF h
      <4>4. Delivers(u, v, h)
        BY <3>7, <4>2, <4>3, DeliverIs
      <4>. QED
        BY <4>4 DEF h
    <3>9. v = u \/ (zero /\ Handles(u, v, req, Len(buf) + len))
      BY <2>2, <3>3, <3>8 DEF Delivers
    <3>10. Collapses(rest, w.conn.chunk, buf, n, zero)
      BY <3>3
    <3>. HIDE DEF buf, n
    <3>11. \E x, b, k, z :
              /\ Collapses(rest, w.conn.chunk, b, k, z) /\ Collapsed(w, x, len, b, k)
              /\ v = x \/ (z /\ Handles(x, v, req, Len(b) + len))
      BY <3>5, <3>9, <3>10
    <3>. QED
      BY <1>2, <2>2, <3>1, <3>11 DEF Parses, v, hm, rest
  <2>. QED
    BY <2>4, <2>5
<1>. QED
  BY <1>6, <1>7
-----------------------------------------------------------------------------
(***************************************************************************)
(* The steps a connection is handled in: units are received, the handler   *)
(* is called, a file is read, units are sent.  What all of these keep, the *)
(* loop keeps.                                                             *)
(***************************************************************************)
LEMMA SameWorlds ==
    ASSUME NEW w \in Worlds, NEW v \in Worlds, SameInput(w, v), SameOutput(w, v), SameRest(w, v)
    PROVE  w = v
<1>1. w.conn \in Connection /\ v.conn \in Connection
  BY WorldIs
<1>2. w.conn = v.conn
  BY <1>1 DEF Connection, SameInput, SameOutput
<1>. QED
  BY <1>2 DEF Worlds, SameRest

\* n units have come.
Received(w, units, n) == [w EXCEPT !.conn.recv = @ \o units, !.conn.rcvd = @ + n]

LEMMA ReceivedIs ==
    ASSUME NEW w \in Worlds, NEW units \in Seq(RequestUnit), NEW n \in Nat
    PROVE  LET v == Received(w, units, n)
               a == [w EXCEPT !.conn.recv = @ \o units]
           IN  /\ v \in Worlds /\ SameOutput(w, v) /\ SameRest(w, v) /\ v.conn.chunk = w.conn.chunk
               /\ v.conn.recv = w.conn.recv \o units /\ v.conn.rcvd = w.conn.rcvd + n
               /\ a \in Worlds /\ SameOutput(w, a) /\ SameRest(w, a) /\ a.conn.chunk = w.conn.chunk
               /\ a.conn.recv = w.conn.recv \o units /\ a.conn.rcvd = w.conn.rcvd
<1>. DEFINE new == w.conn.recv \o units
            m == w.conn.rcvd + n
<1>1. w.conn \in Connection /\ w.conn.recv \in Seq(RequestUnit) /\ w.conn.rcvd \in Nat
  BY WorldIs
<1>2. new \in Seq(RequestUnit) /\ m \in Nat
  BY <1>1, ConcatProperties
<1>3. /\ Received(w, units, n) = [w EXCEPT !.conn.recv = new, !.conn.rcvd = m]
      /\ [w EXCEPT !.conn.recv = @ \o units] = [w EXCEPT !.conn.recv = new]
  BY DEF Received
<1>. HIDE DEF new, m
<1>. DEFINE v == [w EXCEPT !.conn.recv = new, !.conn.rcvd = m]
            a == [w EXCEPT !.conn.recv = new]
<1>4. /\ v \in Worlds /\ SameOutput(w, v) /\ SameRest(w, v) /\ v.conn.chunk = w.conn.chunk
      /\ v.conn.recv = new /\ v.conn.rcvd = m
  BY <1>1, <1>2 DEF Worlds, Connection, SameOutput, SameRest
<1>5. /\ a \in Worlds /\ SameOutput(w, a) /\ SameRest(w, a) /\ a.conn.chunk = w.conn.chunk
      /\ a.conn.recv = new /\ a.conn.rcvd = w.conn.rcvd
  BY <1>1, <1>2 DEF Worlds, Connection, SameOutput, SameRest
<1>. HIDE DEF v, a
<1>. QED
  BY <1>3, <1>4, <1>5 DEF v, a, new, m

FlagSets == SUBSET Flags

Fills(w, v, part, f, fl) ==
    /\ v \in Worlds /\ SameInput(w, v) /\ SameRest(w, v)
    /\ v.conn.send = w.conn.send \o part /\ v.conn.file = f /\ v.conn.flags = fl

LEMMA FilledWorldIs ==
    ASSUME NEW w \in Worlds, NEW part \in Seq(AnswerUnit), NEW f \in File, NEW fl \in FlagSets
    PROVE  Fills(w, [w EXCEPT !.conn = Filled(@, part, f, fl)], part, f, fl)
<1>1. w.conn \in Connection /\ w.conn.send \in Seq(AnswerUnit)
  BY WorldIs
<1>. DEFINE new == w.conn.send \o part
            j == Filled(w.conn, part, f, fl)
<1>2. new \in Seq(AnswerUnit)
  BY <1>1, ConcatProperties
<1>3. fl \in SUBSET {"SEND_AND_CLOSE", "CLOSE_IMMEDIATELY"}
  BY DEF Flags, FlagSets
<1>4. /\ j \in Connection /\ j.send = new /\ j.file = f /\ j.flags = fl
      /\ j.recv = w.conn.recv /\ j.rcvd = w.conn.rcvd /\ j.chunk = w.conn.chunk
  BY <1>1, <1>2, <1>3 DEF Filled, Connection
<1>5. [w EXCEPT !.conn = Filled(@, part, f, fl)] = [w EXCEPT !.conn = j]
  OBVIOUS
<1>. HIDE DEF new, j
<1>. DEFINE v == [w EXCEPT !.conn = j]
<1>6. v \in Worlds /\ v.conn = j /\ SameRest(w, v)
  BY <1>4 DEF Worlds, SameRest
<1>. HIDE DEF v
<1>7. SameInput(w, v)
  BY <1>4, <1>6 DEF SameInput
<1>. QED
  BY <1>4, <1>5, <1>6, <1>7 DEF v, new, Fills

\* The file is read as if the units had all been counted.
LEMMA ReadThenTransfer ==
    ASSUME NEW w \in Worlds, FileOK(w.conn.file), NEW units \in Seq(RequestUnit), NEW n \in Nat
    PROVE  [mg_http_transfer_file_data([w EXCEPT !.conn.recv = @ \o units]) EXCEPT !.conn.rcvd = @ + n]
               = mg_http_transfer_file_data(Received(w, units, n))
<1>. DEFINE a == [w EXCEPT !.conn.recv = @ \o units]
            b == Received(w, units, n)
            x == mg_http_transfer_file_data(a)
            y == mg_http_transfer_file_data(b)
            z == [x EXCEPT !.conn.rcvd = @ + n]
            m == w.conn.rcvd + n
<1>1. /\ b \in Worlds /\ SameOutput(w, b) /\ SameRest(w, b) /\ b.conn.chunk = w.conn.chunk
      /\ b.conn.recv = w.conn.recv \o units /\ b.conn.rcvd = m
      /\ a \in Worlds /\ SameOutput(w, a) /\ SameRest(w, a) /\ a.conn.chunk = w.conn.chunk
      /\ a.conn.recv = w.conn.recv \o units /\ a.conn.rcvd = w.conn.rcvd
  BY ReceivedIs
<1>2. m \in Nat
  BY WorldIs
<1>. HIDE DEF a, b
<1>3. FilePart(a.conn) = FilePart(b.conn)
  <2>1. a.conn.send = b.conn.send /\ a.conn.file = b.conn.file
    BY <1>1 DEF SameOutput
  <2>. QED
    BY <2>1 DEF FilePart, ToRead
<1>. DEFINE part == FilePart(a.conn)
            file == a.conn.file
            fl == a.conn.flags
<1>4. b.conn.file = file /\ b.conn.flags = fl /\ FileOK(file) /\ file = w.conn.file
  BY <1>1 DEF SameOutput
<1>5. a.conn \in Connection /\ file \in File /\ fl \in FlagSets
  BY <1>1, WorldIs DEF Flags, FlagSets
<1>6. /\ x = IF ~file.open THEN a
             ELSE IF file.sent + Len(part) < file.cl
             THEN [a EXCEPT !.conn = Filled(@, part, FileRead(file, Len(part)), fl)]
             ELSE [a EXCEPT !.conn = Filled(@, part, NoFile, IF file.keepalive THEN fl ELSE fl \cup {"SEND_AND_CLOSE"})]
      /\ y = IF ~file.open THEN b
             ELSE IF file.sent + Len(part) < file.cl
             THEN [b EXCEPT !.conn = Filled(@, part, FileRead(file, Len(part)), fl)]
             ELSE [b EXCEPT !.conn = Filled(@, part, NoFile, IF file.keepalive THEN fl ELSE fl \cup {"SEND_AND_CLOSE"})]
  BY <1>3, <1>4 DEF mg_http_transfer_file_data
<1>7. file.open => part \in Seq(AnswerUnit) /\ Len(part) \in Nat
  BY <1>4, <1>5, FilePartIs, LenProperties
<1>8. /\ x \in Worlds /\ y \in Worlds /\ SameInput(a, x) /\ SameRest(a, x) /\ SameInput(b, y) /\ SameRest(b, y)
      /\ x.conn.send = y.conn.send /\ x.conn.file = y.conn.file /\ x.conn.flags = y.conn.flags
  <2>1. CASE ~file.open
    <3>1. x = a /\ y = b
      BY <1>6, <2>1
    <3>. HIDE DEF x, y
    <3>. QED
      BY <1>1, <3>1 DEF SameInput, SameRest, SameOutput
  <2>2. ASSUME file.open, NEW f \in File, NEW g \in FlagSets,
               x = [a EXCEPT !.conn = Filled(@, part, f, g)], y = [b EXCEPT !.conn = Filled(@, part, f, g)]
        PROVE  <1>8
    <3>. part \in Seq(AnswerUnit)
      BY <1>7, <2>2
    <3>. HIDE DEF x, y, part, file
    <3>1. Fills(a, x, part, f, g)
      BY <1>1, <2>2, FilledWorldIs
    <3>2. Fills(b, y, part, f, g)
      BY <1>1, <2>2, FilledWorldIs
    <3>3. a.conn.send = b.conn.send
      BY <1>1 DEF SameOutput
    <3>. QED
      BY <3>1, <3>2, <3>3 DEF Fills
  <2>3. CASE file.open /\ file.sent + Len(part) < file.cl
    <3>1. FileRead(file, Len(part)) \in File
      BY <1>5, <1>7, <2>3, FileIs
    <3>. HIDE DEF x, y, part, file
    <3>. QED
      BY <1>5, <1>6, <2>2, <2>3, <3>1
  <2>4. CASE file.open /\ ~(file.sent + Len(part) < file.cl)
    <3>1. (IF file.keepalive THEN fl ELSE fl \cup {"SEND_AND_CLOSE"}) \in FlagSets
      BY <1>5 DEF Flags, FlagSets
    <3>2. NoFile \in File
      BY NoFileIs
    <3>. HIDE DEF x, y, part, file
    <3>. QED
      BY <1>5, <1>6, <2>2, <2>4, <3>1, <3>2
  <2>. QED
    BY <2>1, <2>3, <2>4
<1>. HIDE DEF x, y
<1>9. x.conn \in Connection /\ x.conn.rcvd = w.conn.rcvd
  BY <1>1, <1>8, WorldIs DEF SameInput
<1>10. z = [x EXCEPT !.conn.rcvd = m]
  BY <1>9
<1>. HIDE DEF z, m
<1>11. z \in Worlds /\ SameOutput(x, z) /\ SameRest(x, z) /\ z.conn.rcvd = m
       /\ z.conn.recv = x.conn.recv /\ z.conn.chunk = x.conn.chunk
  BY <1>2, <1>8, <1>9, <1>10 DEF Worlds, Connection, SameOutput, SameRest
<1>12. SameInput(z, y)
  BY <1>1, <1>8, <1>11 DEF SameInput
<1>13. SameOutput(z, y)
  BY <1>8, <1>11 DEF SameOutput
<1>14. SameRest(z, y)
  BY <1>1, <1>8, <1>11 DEF SameRest
<1>15. z = y
  BY <1>8, <1>11, <1>12, <1>13, <1>14, SameWorlds
<1>. QED
  BY <1>15 DEF z, y, x, a, b
-----------------------------------------------------------------------------
\* A connection with what is on its way to it and from it.
St(w, i, o) == [w |-> w, in |-> i, out |-> o]

OKWorlds == {w \in Worlds : FileOK(w.conn.file)}

States == [w : OKWorlds, in : Seq(RequestUnit), out : Seq(AnswerUnit)]

Written(w, m) == [w EXCEPT !.conn.send = SubSeq(@, m + 1, Len(@))]

Reads(c, o, units) == IF fin[c] = "gone" THEN o ELSE o \o units

\* The steps of a connection stay in G.
KeepsTransfer(G) == \A w, i, o : St(w, i, o) \in G => St(mg_http_transfer_file_data(w), i, o) \in G

KeepsReceive(G) ==
    \A w, i, o : St(w, i, o) \in G => \A n \in 1..Len(i) :
        St(Received(w, SubSeq(i, 1, n), n), SubSeq(i, n + 1, Len(i)), o) \in G

KeepsParse(G) ==
    \A w, i, o : St(w, i, o) \in G => \A other \in Diaries \cup {0} :
        St(Parsed(w, mg_parse_http(w.conn.recv), other), i, o) \in G

KeepsEnd(c, G) ==
    \A w, i, o : St(w, i, o) \in G =>
        /\ fin[c] # "open" /\ i = <<>> => St(Flag(w, "SEND_AND_CLOSE"), i, o) \in G
        /\ fin[c] = "gone" => St(Flag(w, "CLOSE_IMMEDIATELY"), i, o) \in G

KeepsWrite(c, G) ==
    \A w, i, o : St(w, i, o) \in G => \A m \in 0..Len(w.conn.send) :
        St(Written(w, m), i, Reads(c, o, SubSeq(w.conn.send, 1, m))) \in G

Keeps(c, G) == KeepsTransfer(G) /\ KeepsReceive(G) /\ KeepsParse(G) /\ KeepsEnd(c, G) /\ KeepsWrite(c, G)

\* The same when the handler leads from G to H, and back while it is not over.
ParsesInto(G, H) ==
    \A w, i, o : St(w, i, o) \in G => \A other \in Diaries \cup {0} :
        St(Parsed(w, mg_parse_http(w.conn.recv), other), i, o) \in H

Polls(c, G) == KeepsTransfer(G) /\ KeepsReceive(G) /\ KeepsEnd(c, G) /\ KeepsWrite(c, G)

Leads(c, G, H) ==
    /\ Polls(c, G) /\ ParsesInto(G, H) /\ G \subseteq H
    /\ \A w, i, o : St(w, i, o) \in H /\ Alive(w) => St(w, i, o) \in G

LEMMA StIs ==
    ASSUME NEW G \in SUBSET States, NEW w, NEW i, NEW o, St(w, i, o) \in G
    PROVE  /\ w \in Worlds /\ FileOK(w.conn.file) /\ i \in Seq(RequestUnit) /\ o \in Seq(AnswerUnit)
           /\ Len(i) \in Nat /\ Len(o) \in Nat /\ Len(w.conn.send) \in Nat
<1>1. St(w, i, o) \in States
  OBVIOUS
<1>2. w \in OKWorlds /\ i \in Seq(RequestUnit) /\ o \in Seq(AnswerUnit)
  BY <1>1 DEF States, St
<1>3. w \in Worlds /\ FileOK(w.conn.file)
  BY <1>2 DEF OKWorlds
<1>. QED
  BY <1>2, <1>3, WorldIs, LenProperties

LEMMA RecvKeeps ==
    ASSUME NEW c \in Conns, NEW G \in SUBSET States, NEW H, Leads(c, G, H),
           NEW w, NEW o, St(w, toServer[c], o) \in G, NEW n \in RecvResults(c), NEW other \in Diaries \cup {0}
    PROVE  St(AfterRead(c, w, n, other), SubSeq(toServer[c], Max({0, n}) + 1, Len(toServer[c])), o) \in H
<1>. DEFINE i == toServer[c]
<1>1. w \in Worlds /\ FileOK(w.conn.file) /\ i \in Seq(RequestUnit) /\ o \in Seq(AnswerUnit) /\ Len(i) \in Nat
  BY StIs
<1>2. n \in 1..Min({RecvSize, Len(i)}) \/ (n = 0 /\ i = <<>> /\ fin[c] # "open") \/ (n = -1 /\ fin[c] = "gone")
  BY DEF RecvResults
<1>3. Min({RecvSize, Len(i)}) \in Int /\ Min({RecvSize, Len(i)}) <= Len(i)
  <2>1. RecvSize \in Int /\ Len(i) \in Int
    BY <1>1, SizesAre
  <2>2. Min({RecvSize, Len(i)}) = IF RecvSize <= Len(i) THEN RecvSize ELSE Len(i)
    BY <2>1, MinTwo
  <2>. QED
    BY <2>1, <2>2
<1>4. n \in Int /\ Max({0, n}) = IF 0 >= n THEN 0 ELSE n
  <2>1. n \in Int /\ 0 \in Int
    BY <1>2, <1>3
  <2>. QED
    BY <2>1, MaxTwo
<1>. HIDE DEF i
<1>5. CASE n \in 1..Min({RecvSize, Len(i)})
  <2>1. n \in 1..Len(i) /\ n > 0 /\ n \in Nat /\ n \in 0..Len(i)
    BY <1>1, <1>3, <1>5
  <2>. DEFINE units == SubSeq(i, 1, n)
              a == [w EXCEPT !.conn.recv = @ \o units]
              b == Received(w, units, n)
              y == mg_http_transfer_file_data(b)
              x == mg_http_transfer_file_data(a)
              rest == SubSeq(i, n + 1, Len(i))
  <2>2. AfterRead(c, w, n, other) = Parsed([x EXCEPT !.conn.rcvd = @ + n], mg_parse_http(a.conn.recv), other)
    BY <2>1 DEF AfterRead, HttpRecv, i
  <2>3. units \in Seq(RequestUnit)
    BY <1>1, <2>1, CutType
  <2>4. [x EXCEPT !.conn.rcvd = @ + n] = y
    <3>. HIDE DEF units
    <3>. QED
      BY <1>1, <2>1, <2>3, ReadThenTransfer
  <2>5. St(b, rest, o) \in G
    BY <2>1 DEF Leads, Polls, KeepsReceive, i
  <2>6. St(y, rest, o) \in G
    <3>. HIDE DEF b, rest
    <3>. QED
      BY <2>5 DEF Leads, Polls, KeepsTransfer
  <2>7. y.conn.recv = a.conn.recv
    <3>1. /\ b \in Worlds /\ FileOK(b.conn.file) /\ b.conn.recv = w.conn.recv \o units /\ a.conn.recv = w.conn.recv \o units
      <4>. units \in Seq(RequestUnit) /\ n \in Nat /\ w \in Worlds /\ FileOK(w.conn.file)
        BY <1>1, <2>1, <2>3
      <4>. HIDE DEF units
      <4>. QED
        BY ReceivedIs DEF SameOutput
    <3>. HIDE DEF b, a
    <3>2. SameInput(b, y)
      BY <3>1, TransferIs
    <3>. QED
      BY <3>1, <3>2 DEF SameInput
  <2>. HIDE DEF y, a, x, rest
  <2>8. St(Parsed(y, mg_parse_http(y.conn.recv), other), rest, o) \in H
    BY <2>6 DEF Leads, ParsesInto
  <2>9. Max({0, n}) = n
    BY <1>4, <2>1
  <2>. QED
    BY <2>2, <2>4, <2>7, <2>8, <2>9 DEF rest, i
<1>6. CASE n = 0 /\ i = <<>> /\ fin[c] # "open"
  <2>1. AfterRead(c, w, n, other) = Flag(w, "SEND_AND_CLOSE")
    BY <1>6 DEF AfterRead
  <2>2. SubSeq(i, Max({0, n}) + 1, Len(i)) = i
    BY <1>1, <1>4, <1>6, SubSeqFull
  <2>. QED
    BY <1>6, <2>1, <2>2 DEF Leads, Polls, KeepsEnd, i
<1>7. CASE n = -1 /\ fin[c] = "gone"
  <2>1. AfterRead(c, w, n, other) = Flag(w, "CLOSE_IMMEDIATELY")
    BY <1>7 DEF AfterRead
  <2>2. SubSeq(i, Max({0, n}) + 1, Len(i)) = i
    <3>1. Max({0, n}) + 1 = 1
      BY <1>4, <1>7
    <3>. QED
      BY <1>1, <3>1, SubSeqFull
  <2>. QED
    BY <1>7, <2>1, <2>2 DEF Leads, Polls, KeepsEnd, i
<1>. QED
  BY <1>2, <1>5, <1>6, <1>7 DEF i

LEMMA WriteKeeps ==
    ASSUME NEW c \in Conns, NEW G \in SUBSET States, Polls(c, G),
           NEW w, NEW i, St(w, i, toClient[c]) \in G, Len(toClient[c]) <= SockBuf,
           NEW m, m = -2 \/ (m \in SendResults(c, w) /\ Alive(w))
    PROVE  \E o : /\ o = IF fin[c] = "gone" THEN toClient[c] ELSE toClient[c] \o SubSeq(w.conn.send, 1, m)
                  /\ St(Polled(w, m), i, o) \in G /\ Len(o) <= SockBuf
<1>. DEFINE t == toClient[c]
            send == w.conn.send
            o == IF fin[c] = "gone" THEN t ELSE t \o SubSeq(send, 1, m)
<1>1. w \in Worlds /\ FileOK(w.conn.file) /\ t \in Seq(AnswerUnit) /\ Len(t) \in Nat /\ Len(send) \in Nat
  BY StIs
<1>2. send \in Seq(AnswerUnit) /\ SockBuf \in Nat
  BY <1>1, WorldIs, SizesAre
<1>3. ASSUME m < 0, m \in Int PROVE o = t
  <2>1. SubSeq(send, 1, m) = <<>>
    BY <1>2, <1>3, SubSeqProperties, EmptySeq
  <2>. QED
    BY <1>1, <2>1, ConcatEmptySeq
<1>4. CASE m = -2
  <2>1. o = t
    BY <1>3, <1>4
  <2>2. Polled(w, m) = IF Alive(w) THEN mg_http_transfer_file_data(w) ELSE w
    BY <1>4 DEF Polled
  <2>3. St(Polled(w, m), i, t) \in G
    BY <2>2 DEF Polls, KeepsTransfer
  <2>. QED
    BY <2>1, <2>3
<1>5. CASE m # -2 /\ fin[c] = "gone" /\ m = -1
  <2>1. Polled(w, m) = mg_http_transfer_file_data(mg_http_transfer_file_data(Flag(w, "CLOSE_IMMEDIATELY")))
    BY <1>5 DEF Polled, AfterWrite
  <2>. DEFINE u == Flag(w, "CLOSE_IMMEDIATELY")
              v == mg_http_transfer_file_data(u)
  <2>2. St(u, i, t) \in G
    BY <1>5 DEF Polls, KeepsEnd
  <2>3. St(v, i, t) \in G
    <3>. HIDE DEF u
    <3>. QED
      BY <2>2 DEF Polls, KeepsTransfer
  <2>4. St(mg_http_transfer_file_data(v), i, t) \in G
    <3>. HIDE DEF v
    <3>. QED
      BY <2>3 DEF Polls, KeepsTransfer
  <2>. QED
    BY <1>5, <2>1, <2>4
<1>6. CASE m # -2 /\ m \in 0..Len(send) /\ (fin[c] # "gone" => m + Len(t) <= SockBuf)
  <2>1. Polled(w, m) = mg_http_transfer_file_data(mg_http_transfer_file_data(Written(w, m)))
    BY <1>1, <1>6 DEF Polled, AfterWrite, Written
  <2>. DEFINE u == Written(w, m)
              v == mg_http_transfer_file_data(u)
  <2>2. St(u, i, Reads(c, t, SubSeq(send, 1, m))) \in G
    BY <1>6 DEF Polls, KeepsWrite
  <2>3. o = Reads(c, t, SubSeq(send, 1, m))
    BY DEF Reads
  <2>. HIDE DEF o
  <2>4. St(v, i, o) \in G
    <3>. HIDE DEF u
    <3>. QED
      BY <2>2, <2>3 DEF Polls, KeepsTransfer
  <2>5. St(mg_http_transfer_file_data(v), i, o) \in G
    <3>. HIDE DEF v
    <3>. QED
      BY <2>4 DEF Polls, KeepsTransfer
  <2>6. Len(o) <= SockBuf
    <3>1. SubSeq(send, 1, m) \in Seq(AnswerUnit) /\ Len(SubSeq(send, 1, m)) = m
      BY <1>2, <1>6, Cut
    <3>2. fin[c] # "gone" => Len(o) = Len(t) + m
      BY <1>1, <3>1, ConcatProperties DEF o
    <3>3. CASE fin[c] = "gone"
      <4>1. o = t
        BY <3>3 DEF o
      <4>. QED
        BY <4>1
    <3>4. CASE fin[c] # "gone"
      <4>1. Len(o) = Len(t) + m /\ m + Len(t) <= SockBuf
        BY <1>6, <3>2, <3>4
      <4>2. m \in Int /\ Len(t) \in Int /\ SockBuf \in Int
        BY <1>1, <1>2, <1>6
      <4>. QED
        <5>. HIDE DEF o, t
        <5>. QED
          BY <4>1, <4>2
    <3>. QED
      BY <3>3, <3>4
  <2>. QED
    BY <2>1, <2>5, <2>6 DEF o
<1>7. m = -2 \/ (m # -2 /\ fin[c] = "gone" /\ m = -1)
        \/ (m # -2 /\ m \in 0..Len(send) /\ (fin[c] # "gone" => m + Len(t) <= SockBuf))
  <2>1. CASE fin[c] = "gone"
    BY <1>1, <2>1 DEF SendResults
  <2>2. CASE fin[c] # "gone" /\ m # -2
    <3>. DEFINE a == Len(send)
                b == SockBuf - Len(t)
    <3>1. a \in Int /\ b \in Int /\ a >= 0 /\ b >= 0
      BY <1>1, <1>2
    <3>2. m = Min({a, b})
      BY <2>2 DEF SendResults
    <3>. HIDE DEF a, b
    <3>3. m = IF a <= b THEN a ELSE b
      BY <3>1, <3>2, MinTwo
    <3>. QED
      BY <1>1, <1>2, <3>1, <3>3 DEF a, b
  <2>. QED
    BY <2>1, <2>2
<1>. QED
  BY <1>4, <1>5, <1>6, <1>7

\* A connection that is flagged is left alone.
LEMMA WriteLeads ==
    ASSUME NEW c \in Conns, NEW G \in SUBSET States, NEW H \in SUBSET States, Leads(c, G, H),
           NEW w, NEW i, St(w, i, toClient[c]) \in H, Len(toClient[c]) <= SockBuf,
           NEW m, m = -2 \/ (m \in SendResults(c, w) /\ Alive(w))
    PROVE  \E o : /\ o = IF fin[c] = "gone" THEN toClient[c] ELSE toClient[c] \o SubSeq(w.conn.send, 1, m)
                  /\ St(Polled(w, m), i, o) \in H /\ Len(o) <= SockBuf
<1>1. CASE Alive(w)
  <2>1. St(w, i, toClient[c]) \in G /\ Polls(c, G) /\ G \subseteq H
    BY <1>1 DEF Leads
  <2>2. \E o : /\ o = IF fin[c] = "gone" THEN toClient[c] ELSE toClient[c] \o SubSeq(w.conn.send, 1, m)
               /\ St(Polled(w, m), i, o) \in G /\ Len(o) <= SockBuf
    BY <2>1, WriteKeeps
  <2>. QED
    BY <2>1, <2>2
<1>2. CASE ~Alive(w)
  <2>1. m = -2 /\ Polled(w, m) = w
    BY <1>2 DEF Polled
  <2>2. w \in Worlds /\ toClient[c] \in Seq(AnswerUnit)
    BY StIs
  <2>3. toClient[c] \o SubSeq(w.conn.send, 1, m) = toClient[c]
    <3>1. SubSeq(w.conn.send, 1, m) = <<>>
      BY <2>1, <2>2, WorldIs, SubSeqProperties, EmptySeq
    <3>. QED
      BY <2>2, <3>1, ConcatEmptySeq
  <2>. QED
    BY <2>1, <2>3
<1>. QED
  BY <1>1, <1>2

LEMMA HandleConnLeads ==
    ASSUME NEW c \in Conns, NEW G \in SUBSET States, NEW H \in SUBSET States, Leads(c, G, H), HandleConn(c),
           St(World(c), toServer[c], toClient[c]) \in G, Len(toClient[c]) <= SockBuf
    PROVE  \E w, i, o : /\ St(w, i, o) \in H /\ SetWorld(c, w) /\ Len(o) <= SockBuf
                        /\ toServer' = [toServer EXCEPT ![c] = i] /\ toClient' = [toClient EXCEPT ![c] = o]
<1>1. PICK n \in IF Head(todo).rd THEN RecvResults(c) ELSE {-2}, other \in Diaries \cup {0} :
        WriteConn(c, n, IF n = -2 THEN World(c) ELSE AfterRead(c, World(c), n, other))
  BY DEF HandleConn
<1>. DEFINE w == IF n = -2 THEN World(c) ELSE AfterRead(c, World(c), n, other)
            i == SubSeq(toServer[c], Max({0, n}) + 1, Len(toServer[c]))
<1>2. St(w, i, toClient[c]) \in H
  <2>1. toServer[c] \in Seq(RequestUnit) /\ Len(toServer[c]) \in Nat
    BY StIs
  <2>2. CASE n = -2
    <3>1. Max({0, n}) = IF 0 >= n THEN 0 ELSE n
      BY <2>2, MaxTwo
    <3>2. i = SubSeq(toServer[c], 1, Len(toServer[c]))
      BY <2>2, <3>1
    <3>3. i = toServer[c]
      BY <2>1, <3>2, SubSeqFull
    <3>. QED
      BY <2>2, <3>3 DEF Leads
  <2>3. CASE n # -2
    <3>1. n \in RecvResults(c)
      BY <1>1, <2>3
    <3>2. w = AfterRead(c, World(c), n, other)
      BY <2>3
    <3>3. St(AfterRead(c, World(c), n, other), SubSeq(toServer[c], Max({0, n}) + 1, Len(toServer[c])), toClient[c]) \in H
      <4>. HIDE DEF w, i
      <4>. QED
        BY <3>1, RecvKeeps
    <3>. QED
      BY <3>2, <3>3
  <2>. QED
    BY <2>2, <2>3
<1>3. WriteConn(c, n, w)
  BY <1>1
<1>. HIDE DEF w
<1>4. PICK m \in IF Alive(w) /\ Head(todo).wr /\ w.conn.send # <<>> THEN SendResults(c, w) ELSE {-2} :
       /\ SetWorld(c, Polled(w, m))
       /\ toServer' = [toServer EXCEPT ![c] = SubSeq(@, Max({0, n}) + 1, Len(@))]
       /\ toClient' = [toClient EXCEPT ![c] = IF fin[c] = "gone" THEN @ ELSE @ \o SubSeq(w.conn.send, 1, m)]
  BY <1>3 DEF WriteConn
<1>5. m = -2 \/ (m \in SendResults(c, w) /\ Alive(w))
  BY <1>4
<1>. HIDE DEF i
<1>6. PICK o : /\ o = IF fin[c] = "gone" THEN toClient[c] ELSE toClient[c] \o SubSeq(w.conn.send, 1, m)
               /\ St(Polled(w, m), i, o) \in H /\ Len(o) <= SockBuf
  BY <1>2, <1>5, WriteLeads
<1>7. toServer' = [toServer EXCEPT ![c] = i]
  BY <1>4 DEF i
<1>8. toClient' = [toClient EXCEPT ![c] = o]
  BY <1>4, <1>6
<1>. DEFINE v == Polled(w, m)
<1>9. SetWorld(c, v) /\ St(v, i, o) \in H
  BY <1>4, <1>6
<1>. HIDE DEF v
<1>. QED
  BY <1>6, <1>7, <1>8, <1>9

LEMMA HandleConnIs ==
    ASSUME NEW c \in Conns, NEW G \in SUBSET States, Keeps(c, G), HandleConn(c),
           St(World(c), toServer[c], toClient[c]) \in G, Len(toClient[c]) <= SockBuf
    PROVE  \E w, i, o : /\ St(w, i, o) \in G /\ SetWorld(c, w) /\ Len(o) <= SockBuf
                        /\ toServer' = [toServer EXCEPT ![c] = i] /\ toClient' = [toClient EXCEPT ![c] = o]
<1>1. Leads(c, G, G)
  BY DEF Keeps, Leads, Polls, KeepsParse, ParsesInto
<1>. QED
  BY <1>1, HandleConnLeads
\* The requests a close may still hand to the event handler.
ClosesWith(w, v) ==
    \/ v.handled = w.handled
    \/ \E len \in 1..Len(w.conn.recv), whole \in BOOLEAN :
          /\ HeadOf(w.conn.recv, len) /\ w.conn.recv[1].req \in Requests
          /\ v.handled = Append(w.handled, [req |-> w.conn.recv[1].req.id, whole |-> whole])

LEMMA HttpCloseIs ==
    ASSUME NEW w \in Worlds, FileOK(w.conn.file), NEW other \in Diaries \cup {0}
    PROVE  LET v == HttpClose(w, other)
           IN  v \in Worlds /\ v.aborted = w.aborted /\ ClosesWith(w, v)
<1>. DEFINE recv == w.conn.recv
            hm == mg_parse_http(recv)
            call == mg_http_call_endpoint_handler(w, hm, other)
            u == IF Len(recv) > 0 /\ hm.len > 0 THEN call ELSE w
            v == HttpClose(w, other)
<1>1. v = mg_http_transfer_file_data(u)
  BY DEF HttpClose
<1>2. recv \in Seq(RequestUnit)
  BY WorldIs
<1>3. /\ hm.len \in Int /\ HeadOf(recv, hm.len)
      /\ hm.len > 0 => /\ hm = [len |-> hm.len, req |-> recv[1].req, message |-> message_len(recv[1].req, hm.len)]
                       /\ hm.len \in 1..Len(recv) /\ recv[1].req \in Requests
  BY <1>2, ParseHttpIs
<1>. HIDE DEF hm, v
<1>4. u \in Worlds /\ FileOK(u.conn.file) /\ u.aborted = w.aborted /\ ClosesWith(w, u)
  <2>1. CASE Len(recv) > 0 /\ hm.len > 0
    <3>1. hm.req = recv[1].req /\ hm.req \in Requests
      BY <1>3, <2>1
    <3>2. Calls(w, call, hm.req)
      BY <3>1, CallIs
    <3>3. u = call
      BY <2>1
    <3>. HIDE DEF call, u
    <3>4. u \in Worlds /\ FileOK(u.conn.file) /\ u.aborted = w.aborted
      BY <3>2, <3>3 DEF Calls
    <3>5. PICK whole \in BOOLEAN : u.handled = Append(w.handled, [req |-> recv[1].req.id, whole |-> whole])
      BY <3>1, <3>2, <3>3 DEF Calls
    <3>. QED
      BY <1>3, <2>1, <3>1, <3>4, <3>5 DEF ClosesWith
  <2>2. CASE ~(Len(recv) > 0 /\ hm.len > 0)
    <3>1. u = w
      BY <2>2
    <3>. QED
      BY <3>1 DEF ClosesWith
  <2>. QED
    BY <2>1, <2>2
<1>. HIDE DEF u
<1>5. v \in Worlds /\ SameRest(u, v)
  BY <1>1, <1>4, TransferIs
<1>. QED
  BY <1>4, <1>5 DEF SameRest, ClosesWith, v

-----------------------------------------------------------------------------
(***************************************************************************)
(* Types: the connections of the list are those there are, once each, and  *)
(* so are those the loop has still to visit.                               *)
(***************************************************************************)
ServerType ==
    /\ conns \in [Conns -> Connection \cup {NULL}] /\ aborted \in BOOLEAN
    /\ \A c \in Conns : conns[c] # NULL => FileOK(conns[c].file)
    /\ likes \in LikeCounts /\ handled \in [Conns -> Marks]

ListType ==
    /\ list \in Seq(Conns \cup {Listener}) /\ Unrepeated(list)
    /\ ToSet(list) = {Listener} \cup {c \in Conns : conns[c] # NULL}

TodoType ==
    /\ phase \in {"select", "handle", "close"} /\ (phase = "select" <=> todo = <<>>)
    /\ todo \in Seq([conn : ToSet(list), rd : BOOLEAN, wr : BOOLEAN])
    /\ \A i, j \in DOMAIN todo : todo[i].conn = todo[j].conn => i = j
    /\ phase = "close" => \A i \in DOMAIN todo : todo[i].conn \in Conns
    /\ \A i \in DOMAIN todo : todo[i].conn = Listener /\ todo[i].rd => backlog # <<>>

BacklogType == backlog \in Seq({c \in Conns : conns[c] = NULL}) /\ Unrepeated(backlog)

NetworkType ==
    /\ toServer \in [Conns -> Seq(RequestUnit)] /\ toClient \in [Conns -> Seq(AnswerUnit)]
    /\ \A c \in Conns : Len(toClient[c]) <= SockBuf

BrowserType ==
    /\ fin \in [Conns -> {"new", "open", "half", "gone"}] /\ cut \in [Conns -> BOOLEAN]
    /\ script \in [Conns -> Seq(Requests)] /\ \A c \in Conns : script[c] \in Scripts[c]
    /\ sent \in [Conns -> Nat] /\ \A c \in Conns : sent[c] <= Len(script[c])
    /\ got \in [Conns -> Seq(AnswerUnit)]

NewType == \A c \in Conns : fin[c] = "new" => conns[c] = NULL /\ c \notin ToSet(backlog)

TypeInv == ServerType /\ ListType /\ TodoType /\ BacklogType /\ NetworkType /\ BrowserType /\ NewType

LEMMA TypeInvIs == TypeInv => TypeOK
<1>. SUFFICES ASSUME TypeInv PROVE TypeOK
  OBVIOUS
<1>1. ASSUME NEW c \in Conns, conns[c] # NULL, conns[c].file.open
      PROVE  conns[c].file.sent \in 0..conns[c].file.cl - 1
  <2>1. conns[c] \in Connection /\ FileOK(conns[c].file)
    BY <1>1 DEF TypeInv, ServerType
  <2>2. conns[c].file \in File
    BY <2>1 DEF Connection
  <2>3. conns[c].file.sent \in Nat /\ conns[c].file.cl \in Nat /\ conns[c].file.sent < conns[c].file.cl
    BY <1>1, <2>1, <2>2, FileIs DEF FileOK
  <2>. QED
    BY <2>3
<1>2. ASSUME NEW c \in Conns PROVE sent[c] \in 0..Len(script[c])
  BY LenProperties DEF TypeInv, BrowserType
<1>. QED
  BY <1>1, <1>2 DEF TypeInv, ServerType, ListType, TodoType, BacklogType, NetworkType, BrowserType, TypeOK, LikeCounts, Marks

LEMMA ConnIs ==
    ASSUME TypeInv, NEW c \in Conns, conns[c] # NULL
    PROVE  /\ World(c) \in Worlds /\ FileOK(World(c).conn.file)
           /\ conns[c] \in Connection /\ handled[c] \in Marks /\ toServer[c] \in Seq(RequestUnit)
           /\ toClient[c] \in Seq(AnswerUnit) /\ St(World(c), toServer[c], toClient[c]) \in States
           /\ World(c).conn = conns[c] /\ World(c).handled = handled[c] /\ World(c).aborted = aborted
           /\ World(c).likes = likes
<1>1. /\ conns[c] \in Connection /\ likes \in LikeCounts /\ handled[c] \in Marks /\ aborted \in BOOLEAN
      /\ FileOK(conns[c].file)
  BY DEF TypeInv, ServerType
<1>2. World(c) \in Worlds /\ World(c).conn = conns[c] /\ World(c).handled = handled[c] /\ World(c).aborted = aborted
      /\ World(c).likes = likes
  BY <1>1 DEF World, Worlds
<1>3. toServer[c] \in Seq(RequestUnit) /\ toClient[c] \in Seq(AnswerUnit)
  BY DEF TypeInv, NetworkType
<1>4. World(c) \in OKWorlds
  BY <1>1, <1>2 DEF OKWorlds
<1>. QED
  BY <1>1, <1>2, <1>3, <1>4 DEF St, States

LEMMA CreatedIs == mg_create_connection \in Connection /\ FileOK(mg_create_connection.file) /\ mg_create_connection # NULL
<1>1. mg_create_connection \in Connection
  BY NoFileIs, EmptySeq DEF mg_create_connection, Connection
<1>2. mg_create_connection.file = NoFile
  BY DEF mg_create_connection
<1>. QED
  BY <1>1, <1>2, NoFileIs, NullAssumption

LEMMA SetWorldType ==
    ASSUME TypeInv, NEW c \in Conns, NEW w, SetWorld(c, w), w.likes \in LikeCounts, w.handled \in Marks,
           w.aborted \in BOOLEAN, w.conn = NULL \/ (w.conn \in Connection /\ FileOK(w.conn.file))
    PROVE  ServerType' /\ conns'[c] = w.conn /\ \A d \in Conns : d # c => conns'[d] = conns[d]
BY DEF TypeInv, ServerType, SetWorld


\* A sequence t of what the connections of s are visited with.
Visits(t, s) ==
    /\ t \in Seq([conn : ToSet(s), rd : BOOLEAN, wr : BOOLEAN]) /\ DOMAIN t = DOMAIN s
    /\ \A i \in DOMAIN t : t[i].conn = s[i]
    /\ \A i, j \in DOMAIN t : t[i].conn = t[j].conn => i = j
    /\ (t = <<>> <=> s = <<>>)

LEMMA VisitIs ==
    ASSUME NEW S, NEW s \in Seq(S), Unrepeated(s), NEW t, t = [i \in DOMAIN s |-> t[i]],
           \A i \in DOMAIN s : t[i] \in [conn : {s[i]}, rd : BOOLEAN, wr : BOOLEAN]
    PROVE  Visits(t, s)
<1>. DEFINE T == [conn : ToSet(s), rd : BOOLEAN, wr : BOOLEAN]
<1>1. DOMAIN s = 1..Len(s) /\ Len(s) \in Nat
  BY LenProperties
<1>2. \A i \in DOMAIN s : t[i] \in T /\ t[i].conn = s[i]
  BY DEF ToSet
<1>3. t \in [1..Len(s) -> T] /\ DOMAIN t = DOMAIN s
  <2>. HIDE DEF T
  <2>. QED
    BY <1>1, <1>2
<1>4. t \in Seq(T) /\ Len(t) = Len(s)
  <2>. HIDE DEF T
  <2>. QED
    BY <1>1, <1>3, FunctionSeq
<1>5. t = <<>> <=> s = <<>>
  BY <1>4, EmptySeq
<1>. QED
  BY <1>2, <1>3, <1>4, <1>5 DEF Visits, Unrepeated

LEMMA AdvanceType ==
    ASSUME TodoType, phase = "handle", list' \in Seq(Conns \cup {Listener}), Unrepeated(list'),
           ToSet(list) \subseteq ToSet(list'), NEW newConns, Advance(list', newConns),
           \A i \in DOMAIN todo : i > 1 /\ todo[i].conn = Listener /\ todo[i].rd => backlog' # <<>>
    PROVE  TodoType'
<1>. DEFINE T == [conn : ToSet(list), rd : BOOLEAN, wr : BOOLEAN]
            U == [conn : ToSet(list'), rd : BOOLEAN, wr : BOOLEAN]
<1>1. todo \in Seq(T) /\ todo # <<>> /\ Len(todo) \in Nat /\ DOMAIN todo = 1..Len(todo)
  BY LenProperties DEF TodoType
<1>2. CASE Len(todo) > 1
  <2>1. todo' = Tail(todo) /\ phase' = "handle"
    BY <1>2 DEF Advance
  <2>2. /\ Tail(todo) \in Seq(T) /\ Len(Tail(todo)) = Len(todo) - 1 /\ Len(Tail(todo)) \in Nat
        /\ DOMAIN Tail(todo) = 1..(Len(todo) - 1)
        /\ \A i \in 1..(Len(todo) - 1) : Tail(todo)[i] = todo[i + 1]
    <3>. HIDE DEF T
    <3>. QED
      BY <1>1, HeadTailProperties, LenProperties
  <2>3. T \subseteq U
    OBVIOUS
  <2>4. Tail(todo) \in Seq(U) /\ Tail(todo) # <<>>
    <3>. HIDE DEF T, U
    <3>1. Tail(todo) \in Seq(U)
      BY <2>2, <2>3, SeqMonotonic
    <3>2. Len(Tail(todo)) > 0
      BY <1>1, <1>2, <2>2
    <3>4. Tail(todo) # <<>>
      <4>. DEFINE t == Tail(todo)
      <4>1. t \in Seq(U) /\ Len(t) > 0
        BY <3>1, <3>2
      <4>. HIDE DEF t
      <4>2. t # <<>>
        BY <4>1
      <4>. QED
        BY <4>2 DEF t
    <3>. QED
      BY <3>1, <3>4
  <2>5. \A i \in 1..(Len(todo) - 1) : i + 1 \in DOMAIN todo /\ i + 1 > 1
    BY <1>1
  <2>6. \A i, j \in DOMAIN Tail(todo) : Tail(todo)[i].conn = Tail(todo)[j].conn => i = j
    <3>. SUFFICES ASSUME NEW i \in DOMAIN Tail(todo), NEW j \in DOMAIN Tail(todo), Tail(todo)[i].conn = Tail(todo)[j].conn
                  PROVE  i = j
      OBVIOUS
    <3>1. i + 1 \in DOMAIN todo /\ j + 1 \in DOMAIN todo /\ todo[i + 1].conn = todo[j + 1].conn
      BY <2>2, <2>5
    <3>2. i + 1 = j + 1
      BY <3>1 DEF TodoType
    <3>. QED
      BY <1>1, <2>2, <3>2
  <2>7. \A i \in DOMAIN Tail(todo) : Tail(todo)[i].conn = Listener /\ Tail(todo)[i].rd => backlog' # <<>>
    BY <2>2, <2>5
  <2>. QED
    BY <2>1, <2>4, <2>6, <2>7 DEF TodoType
<1>3. CASE ~(Len(todo) > 1)
  <2>. DEFINE keep == {c \in Conns \cap ToSet(list') : CloseNow(newConns[c])}
              dead == Among(list', keep)
              S == Conns \cup {Listener}
  <2>1. /\ todo' = [i \in DOMAIN dead |-> [conn |-> dead[i], rd |-> FALSE, wr |-> FALSE]]
        /\ phase' = IF dead = <<>> THEN "select" ELSE "close"
    BY <1>3 DEF Advance
  <2>2. /\ dead \in Seq(S \cap keep) /\ ToSet(dead) = ToSet(list') \cap keep /\ Unrepeated(dead)
    <3>. HIDE DEF keep, S
    <3>1. list' \in Seq(S)
      BY DEF S
    <3>. QED
      BY <3>1, AmongIs
  <2>3. keep \subseteq Conns
    OBVIOUS
  <2>. HIDE DEF dead, keep, S
  <2>4. Visits(todo', dead)
    <3>1. todo' = [i \in DOMAIN dead |-> todo'[i]]
      BY <2>1
    <3>2. \A i \in DOMAIN dead : todo'[i] \in [conn : {dead[i]}, rd : BOOLEAN, wr : BOOLEAN]
      BY <2>1
    <3>. QED
      BY <2>2, <3>1, <3>2, VisitIs
  <2>5. \A i \in DOMAIN dead : dead[i] \in ToSet(dead)
    BY DEF ToSet
  <2>6. \A i \in DOMAIN todo' : todo'[i].conn \in Conns /\ todo'[i].rd = FALSE
    BY <2>1, <2>2, <2>3, <2>5
  <2>7. todo' \in Seq(U)
    <3>1. todo' \in Seq([conn : ToSet(dead), rd : BOOLEAN, wr : BOOLEAN])
      BY <2>4 DEF Visits
    <3>2. [conn : ToSet(dead), rd : BOOLEAN, wr : BOOLEAN] \subseteq U
      BY <2>2
    <3>. HIDE DEF U
    <3>. QED
      BY <3>1, <3>2, SeqMonotonic
  <2>. QED
    BY <2>1, <2>4, <2>6, <2>7 DEF TodoType, Visits
<1>. QED
  BY <1>2, <1>3

LEMMA SelectType == ASSUME TypeInv, Select PROVE TypeInv'
<1>. DEFINE S == Conns \cup {Listener}
            keep == {c \in ToSet(list) : Readable(c) \/ Writable(c) \/ (c # Listener /\ conns[c].file.open)}
<1>1. /\ phase' = "handle"
      /\ todo' = [i \in DOMAIN Ready |-> [conn |-> Ready[i], rd |-> Readable(Ready[i]), wr |-> Writable(Ready[i])]]
      /\ UNCHANGED <<conns, list, aborted, handled, backlog, likes, toServer, toClient, fin, cut, script, sent, got>>
  BY DEF Select, network, browser
<1>2. list \in Seq(S) /\ Unrepeated(list) /\ Ready = Among(list, keep)
  BY DEF TypeInv, ListType, Ready
<1>3. Ready \in Seq(S \cap keep) /\ ToSet(Ready) = ToSet(list) \cap keep /\ Unrepeated(Ready)
  <2>. HIDE DEF S, keep
  <2>. QED
    BY <1>2, AmongIs
<1>4. \A c : Readable(c) \in BOOLEAN /\ Writable(c) \in BOOLEAN
  BY DEF Readable, Writable
<1>5. Visits(todo', Ready)
  <2>1. todo' = [i \in DOMAIN Ready |-> todo'[i]]
    BY <1>1
  <2>2. \A i \in DOMAIN Ready : todo'[i] \in [conn : {Ready[i]}, rd : BOOLEAN, wr : BOOLEAN]
    BY <1>1, <1>4
  <2>. HIDE DEF S, keep
  <2>. QED
    BY <1>3, <2>1, <2>2, VisitIs
<1>6. todo' # <<>>
  <2>1. PICK i \in DOMAIN list : Readable(list[i]) \/ Writable(list[i])
    BY DEF Select
  <2>2. list[i] \in ToSet(list)
    BY DEF ToSet
  <2>3. list[i] \in ToSet(Ready)
    BY <1>3, <2>1, <2>2
  <2>4. Ready # <<>>
    BY <2>3, EmptySeq DEF ToSet
  <2>. QED
    BY <1>5, <2>4 DEF Visits
<1>7. todo' \in Seq([conn : ToSet(list), rd : BOOLEAN, wr : BOOLEAN])
  <2>1. todo' \in Seq([conn : ToSet(Ready), rd : BOOLEAN, wr : BOOLEAN])
    BY <1>5 DEF Visits
  <2>2. [conn : ToSet(Ready), rd : BOOLEAN, wr : BOOLEAN] \subseteq [conn : ToSet(list), rd : BOOLEAN, wr : BOOLEAN]
    BY <1>3
  <2>. QED
    BY <2>1, <2>2, SeqMonotonic
<1>8. \A i \in DOMAIN todo' : todo'[i].conn = Listener /\ todo'[i].rd => backlog # <<>>
  BY <1>1 DEF Readable
<1>9. TodoType'
  BY <1>1, <1>5, <1>6, <1>7, <1>8 DEF TodoType, Visits
<1>. QED
  BY <1>1, <1>9 DEF TypeInv, ServerType, ListType, BacklogType, NetworkType, BrowserType, NewType

LEMMA HeadTodo ==
    ASSUME TodoType, todo # <<>>
    PROVE  /\ Head(todo).conn \in ToSet(list) /\ Head(todo) = todo[1] /\ 1 \in DOMAIN todo
           /\ Tail(todo) \in Seq([conn : ToSet(list), rd : BOOLEAN, wr : BOOLEAN])
           /\ Len(todo) \in Nat /\ Len(todo) > 0 /\ (Tail(todo) = <<>> <=> ~(Len(todo) > 1))
           /\ DOMAIN Tail(todo) = 1..(Len(todo) - 1) /\ DOMAIN todo = 1..Len(todo)
           /\ \A i \in DOMAIN Tail(todo) : i + 1 \in DOMAIN todo /\ Tail(todo)[i] = todo[i + 1]
           /\ \A i \in DOMAIN Tail(todo) : Tail(todo)[i].conn # Head(todo).conn
<1>. DEFINE T == [conn : ToSet(list), rd : BOOLEAN, wr : BOOLEAN]
<1>1. todo \in Seq(T) /\ Len(todo) \in Nat /\ Len(todo) > 0 /\ DOMAIN todo = 1..Len(todo)
  BY LenProperties, EmptySeq DEF TodoType
<1>2. /\ Tail(todo) \in Seq(T) /\ Len(Tail(todo)) = Len(todo) - 1 /\ Head(todo) = todo[1]
      /\ \A i \in 1..(Len(todo) - 1) : Tail(todo)[i] = todo[i + 1]
  <2>. HIDE DEF T
  <2>. QED
    BY <1>1, HeadTailProperties
<1>3. DOMAIN Tail(todo) = 1..(Len(todo) - 1)
  BY <1>2, LenProperties
<1>4. Tail(todo) = <<>> <=> ~(Len(todo) > 1)
  <2>1. Tail(todo) = <<>> <=> Len(Tail(todo)) = 0
    BY <1>2, EmptySeq
  <2>. QED
    BY <1>1, <1>2, <2>1
<1>5. 1 \in DOMAIN todo /\ todo[1] \in T
  <2>1. 1 \in 1..Len(todo)
    BY <1>1
  <2>. HIDE DEF T
  <2>. QED
    BY <1>1, <2>1, ElementOfSeq
<1>6. \A i \in 1..(Len(todo) - 1) : i + 1 \in 1..Len(todo) /\ i + 1 # 1
  BY <1>1
<1>7. \A i \in 1..(Len(todo) - 1) : Tail(todo)[i].conn # Head(todo).conn
  <2>. SUFFICES ASSUME NEW i \in 1..(Len(todo) - 1), Tail(todo)[i].conn = Head(todo).conn PROVE FALSE
    OBVIOUS
  <2>1. todo[i + 1].conn = todo[1].conn /\ i + 1 \in DOMAIN todo
    BY <1>1, <1>2, <1>6
  <2>2. i + 1 = 1
    BY <1>5, <2>1 DEF TodoType
  <2>. QED
    BY <1>6, <2>2
<1>. QED
  BY <1>1, <1>2, <1>3, <1>4, <1>5, <1>6, <1>7

LEMMA AcceptType == ASSUME TypeInv, Accept PROVE TypeInv'
<1>. DEFINE S == Conns \cup {Listener}
            b == Head(backlog)
<1>1. /\ phase = "handle" /\ Head(todo).conn = Listener /\ Advance(list', conns')
      /\ UNCHANGED <<aborted, handled, likes, toServer, toClient, fin, cut, script, sent, got>>
  BY DEF Accept, network, browser
<1>2. todo # <<>>
  BY <1>1 DEF TypeInv, TodoType
<1>3. Head(todo) = todo[1] /\ 1 \in DOMAIN todo
  BY <1>2, HeadTodo DEF TypeInv
<1>4. ASSUME NEW i \in DOMAIN todo, i > 1 PROVE todo[i].conn # Listener
  <2>1. todo[i].conn = Listener => i = 1
    BY <1>1, <1>3 DEF TypeInv, TodoType
  <2>. QED
    BY <1>4, <2>1
<1>5. TodoType /\ list \in Seq(S) /\ Unrepeated(list)
  BY DEF TypeInv, ListType
<1>6. CASE Head(todo).rd
  <2>1. /\ conns' = [conns EXCEPT ![b] = mg_create_connection] /\ list' = <<b>> \o list /\ backlog' = Tail(backlog)
    BY <1>1, <1>6 DEF Accept
  <2>. DEFINE B == {c \in Conns : conns[c] = NULL}
              B2 == {c \in Conns : conns'[c] = NULL}
  <2>2. backlog \in Seq(B) /\ backlog # <<>> /\ Unrepeated(backlog)
    BY <1>1, <1>3, <1>6 DEF TypeInv, TodoType, BacklogType
  <2>3. /\ b \in B /\ Tail(backlog) \in Seq(B) /\ Len(Tail(backlog)) = Len(backlog) - 1 /\ Len(backlog) \in Nat
        /\ b = backlog[1] /\ DOMAIN backlog = 1..Len(backlog) /\ DOMAIN Tail(backlog) = 1..(Len(backlog) - 1)
        /\ \A i \in 1..(Len(backlog) - 1) : Tail(backlog)[i] = backlog[i + 1]
    <3>1. Tail(backlog) \in Seq(B)
      BY <2>2, HeadTailProperties
    <3>. QED
      BY <2>2, <3>1, HeadTailProperties, LenProperties
  <2>4. b \in Conns /\ conns[b] = NULL /\ b # Listener
    BY <2>3, ListenerAssumption
  <2>5. conns'[b] = mg_create_connection /\ conns'[b] # NULL /\ \A c \in Conns : c # b => conns'[c] = conns[c]
    BY <2>1, <2>4, CreatedIs DEF TypeInv, ServerType
  <2>6. ServerType'
    BY <1>1, <2>1, <2>4, <2>5, CreatedIs DEF TypeInv, ServerType
  <2>. DEFINE bs == <<b>>
              l2 == bs \o list
  <2>7. /\ bs \in Seq(S) /\ Len(bs) = 1 /\ bs[1] = b
    BY <2>4, OneSeq
  <2>8. /\ l2 \in Seq(S) /\ Len(l2) = 1 + Len(list) /\ Len(list) \in Nat /\ l2[1] = b
        /\ DOMAIN l2 = 1..Len(l2) /\ DOMAIN list = 1..Len(list)
        /\ \A i \in 1..Len(list) : l2[1 + i] = list[i]
    <3>. HIDE DEF bs, S
    <3>1. /\ l2 \in Seq(S) /\ Len(l2) = Len(bs) + Len(list)
          /\ (\A i \in 1..Len(bs) : l2[i] = bs[i]) /\ (\A i \in 1..Len(list) : l2[Len(bs) + i] = list[i])
      BY <1>5, <2>7, Join
    <3>. HIDE DEF l2
    <3>. QED
      BY <1>5, <2>7, <3>1, LenProperties
  <2>. HIDE DEF l2, bs
  <2>9. list' = l2
    BY <2>1 DEF l2, bs
  <2>10. \A i \in DOMAIN l2 : i = 1 \/ (i - 1 \in DOMAIN list /\ l2[i] = list[i - 1])
    BY <2>8
  <2>11. b \notin ToSet(list)
    BY <2>4 DEF TypeInv, ListType
  <2>12. Unrepeated(l2)
    <3>. SUFFICES ASSUME NEW i \in DOMAIN l2, NEW j \in DOMAIN l2, l2[i] = l2[j] PROVE i = j
      BY DEF Unrepeated
    <3>1. \A k \in DOMAIN list : list[k] # b
      BY <2>11 DEF ToSet
    <3>2. i \in Nat /\ j \in Nat
      BY <2>8
    <3>3. CASE i = 1 \/ j = 1
      BY <2>8, <2>10, <3>1, <3>3
    <3>4. CASE i # 1 /\ j # 1
      <4>1. i - 1 \in DOMAIN list /\ j - 1 \in DOMAIN list /\ list[i - 1] = list[j - 1]
        BY <2>10, <3>4
      <4>2. i - 1 = j - 1
        BY <1>5, <4>1 DEF Unrepeated
      <4>. QED
        BY <3>2, <4>2
    <3>. QED
      BY <3>3, <3>4
  <2>13. ToSet(l2) = {b} \cup ToSet(list)
    <3>1. \A i \in DOMAIN l2 : l2[i] \in {b} \cup ToSet(list)
      BY <2>8, <2>10 DEF ToSet
    <3>2. \A i \in DOMAIN list : list[i] \in ToSet(l2)
      <4>1. \A i \in DOMAIN list : 1 + i \in DOMAIN l2
        BY <2>8
      <4>. QED
        BY <2>8, <4>1 DEF ToSet
    <3>3. b \in ToSet(l2)
      <4>1. 1 \in DOMAIN l2
        BY <2>8
      <4>. QED
        BY <2>8, <4>1 DEF ToSet
    <3>. QED
      BY <3>1, <3>2, <3>3 DEF ToSet
  <2>14. ListType'
    BY <2>5, <2>4, <2>8, <2>9, <2>12, <2>13 DEF TypeInv, ListType
  <2>15. TodoType'
    <3>1. list' \in Seq(Conns \cup {Listener}) /\ Unrepeated(list') /\ ToSet(list) \subseteq ToSet(list')
      BY <2>8, <2>9, <2>12, <2>13
    <3>. QED
      BY <1>1, <1>4, <1>5, <3>1, AdvanceType
  <2>16. \A i \in 1..(Len(backlog) - 1) : i + 1 \in DOMAIN backlog /\ 1 \in DOMAIN backlog /\ i + 1 # 1
    BY <2>3
  <2>17. \A i \in 1..(Len(backlog) - 1) : Tail(backlog)[i] # b
    BY <2>2, <2>3, <2>16 DEF Unrepeated
  <2>18. Tail(backlog) \in Seq(B2)
    <3>1. \A i \in 1..(Len(backlog) - 1) : Tail(backlog)[i] \in B
      BY <2>3, ElementOfSeq
    <3>2. \A i \in 1..(Len(backlog) - 1) : Tail(backlog)[i] \in B2
      BY <2>5, <2>17, <3>1
    <3>3. Tail(backlog) = [i \in 1..(Len(backlog) - 1) |-> Tail(backlog)[i]]
      <4>. HIDE DEF B
      <4>. QED
        BY <2>3, LenProperties
    <3>4. Len(backlog) - 1 \in Nat
      BY <2>2, <2>3, EmptySeq
    <3>. DEFINE t == Tail(backlog)
                n == Len(backlog) - 1
    <3>. HIDE DEF t, B2, n
    <3>5. t \in [1..n -> B2] /\ n \in Nat
      BY <3>2, <3>3, <3>4 DEF t, n
    <3>6. t \in Seq(B2)
      BY <3>5, FunctionSeq
    <3>. QED
      BY <3>6 DEF t
  <2>19. Unrepeated(Tail(backlog))
    <3>. SUFFICES ASSUME NEW i \in DOMAIN Tail(backlog), NEW j \in DOMAIN Tail(backlog), Tail(backlog)[i] = Tail(backlog)[j]
                  PROVE  i = j
      BY DEF Unrepeated
    <3>1. i + 1 = j + 1
      BY <2>2, <2>3, <2>16 DEF Unrepeated
    <3>. QED
      BY <2>3, <3>1
  <2>20. BacklogType'
    BY <2>1, <2>18, <2>19 DEF BacklogType
  <2>21. ToSet(Tail(backlog)) \subseteq ToSet(backlog) /\ b \in ToSet(backlog)
    <3>1. \A i \in DOMAIN Tail(backlog) : Tail(backlog)[i] \in ToSet(backlog)
      BY <2>3, <2>16 DEF ToSet
    <3>2. 1 \in DOMAIN backlog
      BY <2>2, <2>3, EmptySeq
    <3>. QED
      BY <2>3, <3>1, <3>2 DEF ToSet
  <2>22. NewType'
    BY <1>1, <2>1, <2>5, <2>21 DEF TypeInv, NewType
  <2>. QED
    BY <1>1, <2>6, <2>14, <2>15, <2>20, <2>22 DEF TypeInv, NetworkType, BrowserType
<1>7. CASE ~Head(todo).rd
  <2>1. UNCHANGED <<conns, list, backlog>>
    BY <1>1, <1>7 DEF Accept
  <2>2. TodoType'
    <3>1. list' \in Seq(Conns \cup {Listener}) /\ Unrepeated(list') /\ ToSet(list) \subseteq ToSet(list')
      BY <1>5, <2>1
    <3>. QED
      BY <1>1, <1>4, <1>5, <3>1, AdvanceType
  <2>. QED
    BY <1>1, <2>1, <2>2 DEF TypeInv, ServerType, ListType, BacklogType, NetworkType, BrowserType, NewType
<1>. QED
  BY <1>6, <1>7

LEMMA WrittenIs ==
    ASSUME NEW w \in Worlds, NEW m \in 0..Len(w.conn.send)
    PROVE  LET v == Written(w, m)
           IN  /\ v \in Worlds /\ SameInput(w, v) /\ SameRest(w, v) /\ v.conn.file = w.conn.file
               /\ v.conn.flags = w.conn.flags /\ v.conn.send = SubSeq(w.conn.send, m + 1, Len(w.conn.send))
<1>1. w.conn \in Connection /\ w.conn.send \in Seq(AnswerUnit)
  BY WorldIs
<1>. DEFINE new == SubSeq(w.conn.send, m + 1, Len(w.conn.send))
            v == [w EXCEPT !.conn.send = new]
<1>2. new \in Seq(AnswerUnit)
  BY <1>1, CutType
<1>3. Written(w, m) = v
  BY DEF Written
<1>. HIDE DEF new
<1>4. v \in Worlds /\ SameInput(w, v) /\ SameRest(w, v) /\ v.conn.file = w.conn.file
      /\ v.conn.flags = w.conn.flags /\ v.conn.send = new
  BY <1>1, <1>2 DEF Worlds, Connection, SameInput, SameRest
<1>. QED
  BY <1>3, <1>4 DEF new

LEMMA AbortedIs ==
    ASSUME NEW w \in Worlds
    PROVE  LET v == [w EXCEPT !.aborted = TRUE]
           IN  v \in Worlds /\ v.conn = w.conn /\ v.handled = w.handled /\ v.likes = w.likes /\ v.aborted = TRUE
BY DEF Worlds

LEMMA ParsesType ==
    ASSUME NEW w \in Worlds, FileOK(w.conn.file), NEW v, NEW len, Parses(w, v, len)
    PROVE  v \in Worlds /\ FileOK(v.conn.file)
<1>1. CASE v = w
  BY <1>1
<1>2. CASE v = Flag(w, "CLOSE_IMMEDIATELY")
  BY <1>2, FlagIs DEF Flags
<1>3. ASSUME NEW u, NEW req, NEW msg, Handles(u, v, req, msg) PROVE v \in Worlds /\ FileOK(v.conn.file)
  BY <1>3 DEF Handles
<1>4. CASE v = [w EXCEPT !.aborted = TRUE]
  <2>. DEFINE x == [w EXCEPT !.aborted = TRUE]
  <2>1. x \in Worlds /\ x.conn = w.conn
    BY AbortedIs
  <2>. HIDE DEF x
  <2>. QED
    BY <1>4, <2>1 DEF x
<1>5. ASSUME NEW buf, NEW n, Collapsed(w, v, len, buf, n) PROVE v \in Worlds /\ FileOK(v.conn.file)
  BY <1>5 DEF Collapsed, SameOutput
<1>. QED
  BY <1>1, <1>2, <1>3, <1>4, <1>5 DEF Parses

LEMMA InStates ==
    ASSUME NEW w, NEW i, NEW o
    PROVE  St(w, i, o) \in States <=> /\ w \in Worlds /\ FileOK(w.conn.file)
                                      /\ i \in Seq(RequestUnit) /\ o \in Seq(AnswerUnit)
BY DEF States, St, OKWorlds

\* All but the contents of what is kept is a matter of types.
LEMMA StatesKept == ASSUME NEW c \in Conns PROVE Keeps(c, States)
<1>1. ASSUME NEW w, NEW i, NEW o, St(w, i, o) \in States
      PROVE  St(mg_http_transfer_file_data(w), i, o) \in States
  BY <1>1, InStates, TransferIs
<1>2. ASSUME NEW w, NEW i, NEW o, St(w, i, o) \in States, NEW n \in 1..Len(i)
      PROVE  St(Received(w, SubSeq(i, 1, n), n), SubSeq(i, n + 1, Len(i)), o) \in States
  <2>1. w \in Worlds /\ FileOK(w.conn.file) /\ i \in Seq(RequestUnit) /\ o \in Seq(AnswerUnit) /\ Len(i) \in Nat
    BY <1>2, InStates, LenProperties
  <2>. DEFINE a == SubSeq(i, 1, n)
              b == SubSeq(i, n + 1, Len(i))
              v == Received(w, a, n)
  <2>2. a \in Seq(RequestUnit) /\ b \in Seq(RequestUnit) /\ n \in Nat
    <3>1. n \in 0..Len(i) /\ n \in Nat
      BY <2>1
    <3>. QED
      BY <2>1, <3>1, CutType
  <2>. HIDE DEF a, b
  <2>3. v \in Worlds /\ SameOutput(w, v)
    BY <2>1, <2>2, ReceivedIs
  <2>. HIDE DEF v
  <2>4. St(v, b, o) \in States
    BY <2>1, <2>2, <2>3, InStates DEF SameOutput
  <2>. QED
    BY <2>4 DEF v, a, b
<1>3. ASSUME NEW w, NEW i, NEW o, St(w, i, o) \in States, NEW other \in Diaries \cup {0}
      PROVE  St(Parsed(w, mg_parse_http(w.conn.recv), other), i, o) \in States
  <2>1. w \in Worlds /\ FileOK(w.conn.file) /\ i \in Seq(RequestUnit) /\ o \in Seq(AnswerUnit)
    BY <1>3, InStates
  <2>. DEFINE v == Parsed(w, mg_parse_http(w.conn.recv), other)
  <2>2. \E len \in Int : Parses(w, v, len)
    BY <2>1, ParsedIs
  <2>. HIDE DEF v
  <2>3. v \in Worlds /\ FileOK(v.conn.file)
    BY <2>1, <2>2, ParsesType
  <2>. QED
    BY <2>1, <2>3, InStates DEF v
<1>4. ASSUME NEW w, NEW i, NEW o, St(w, i, o) \in States, NEW flag \in Flags
      PROVE  St(Flag(w, flag), i, o) \in States
  BY <1>4, InStates, FlagIs
<1>5. ASSUME NEW w, NEW i, NEW o, St(w, i, o) \in States, NEW m \in 0..Len(w.conn.send)
      PROVE  St(Written(w, m), i, Reads(c, o, SubSeq(w.conn.send, 1, m))) \in States
  <2>1. w \in Worlds /\ FileOK(w.conn.file) /\ i \in Seq(RequestUnit) /\ o \in Seq(AnswerUnit)
    BY <1>5, InStates
  <2>2. w.conn.send \in Seq(AnswerUnit)
    BY <2>1, WorldIs
  <2>3. Reads(c, o, SubSeq(w.conn.send, 1, m)) \in Seq(AnswerUnit)
    <3>. DEFINE a == SubSeq(w.conn.send, 1, m)
    <3>1. a \in Seq(AnswerUnit)
      BY <2>2, CutType
    <3>. HIDE DEF a
    <3>2. o \o a \in Seq(AnswerUnit)
      BY <2>1, <3>1, ConcatProperties
    <3>. QED
      BY <2>1, <3>2 DEF Reads, a
  <2>4. LET v == Written(w, m) IN v \in Worlds /\ v.conn.file = w.conn.file
    BY <2>1, WrittenIs
  <2>. QED
    BY <2>1, <2>3, <2>4, InStates
<1>6. "SEND_AND_CLOSE" \in Flags /\ "CLOSE_IMMEDIATELY" \in Flags
  BY DEF Flags
<1>. QED
  BY <1>1, <1>2, <1>3, <1>4, <1>5, <1>6 DEF Keeps, KeepsTransfer, KeepsReceive, KeepsParse, KeepsEnd, KeepsWrite

\* A step of the connection c that leaves the list alone.
LEMMA HandledConnType ==
    ASSUME TypeInv, NEW c \in Conns, HandleConn(c)
    PROVE  conns[c] # NULL /\ c \in ToSet(list) /\ todo # <<>> /\ ~aborted
<1>1. todo # <<>> /\ Head(todo).conn = c /\ ~aborted
  BY DEF HandleConn, TypeInv, TodoType
<1>2. c \in ToSet(list)
  BY <1>1, HeadTodo DEF TypeInv
<1>. QED
  BY <1>1, <1>2, ListenerAssumption DEF TypeInv, ListType

LEMMA HandleConnType == ASSUME TypeInv, NEW c \in Conns, HandleConn(c) PROVE TypeInv'
<1>1. /\ phase = "handle" /\ Advance(list, conns') /\ Head(todo).conn = c
      /\ UNCHANGED <<list, backlog, fin, cut, script, sent, got>>
  BY DEF HandleConn, browser
<1>2. conns[c] # NULL /\ todo # <<>>
  BY HandledConnType
<1>3. PICK w, i, o : /\ St(w, i, o) \in States /\ SetWorld(c, w) /\ Len(o) <= SockBuf
                     /\ toServer' = [toServer EXCEPT ![c] = i] /\ toClient' = [toClient EXCEPT ![c] = o]
  <2>1. States \in SUBSET States /\ Keeps(c, States)
    BY StatesKept
  <2>2. St(World(c), toServer[c], toClient[c]) \in States
    BY <1>2, ConnIs
  <2>3. Len(toClient[c]) <= SockBuf
    BY DEF TypeInv, NetworkType
  <2>. QED
    BY <2>1, <2>2, <2>3, HandleConnIs
<1>4. w \in Worlds /\ FileOK(w.conn.file) /\ i \in Seq(RequestUnit) /\ o \in Seq(AnswerUnit)
  BY <1>3, InStates
<1>5. w.conn \in Connection /\ w.likes \in LikeCounts /\ w.handled \in Marks /\ w.aborted \in BOOLEAN /\ w.conn # NULL
  BY <1>4, WorldIs, NullAssumption
<1>6. ServerType' /\ conns'[c] = w.conn /\ \A d \in Conns : d # c => conns'[d] = conns[d]
  BY <1>3, <1>4, <1>5, SetWorldType
<1>7. NetworkType'
  BY <1>3, <1>4 DEF TypeInv, NetworkType
<1>8. {d \in Conns : conns'[d] = NULL} = {d \in Conns : conns[d] = NULL}
  BY <1>2, <1>5, <1>6
<1>9. ListType' /\ BacklogType' /\ NewType'
  BY <1>1, <1>2, <1>5, <1>6, <1>8 DEF TypeInv, ListType, BacklogType, NewType
<1>10. TodoType'
  <2>1. TodoType /\ list' \in Seq(Conns \cup {Listener}) /\ Unrepeated(list') /\ ToSet(list) \subseteq ToSet(list')
    BY <1>1 DEF TypeInv, ListType
  <2>2. \A i2 \in DOMAIN todo : i2 > 1 /\ todo[i2].conn = Listener /\ todo[i2].rd => backlog' # <<>>
    BY <1>1, <2>1 DEF TodoType
  <2>3. Advance(list', conns')
    BY <1>1
  <2>. HIDE DEF Advance
  <2>. QED
    BY <1>1, <2>1, <2>2, <2>3, AdvanceType
<1>11. BrowserType'
  BY <1>1 DEF TypeInv, BrowserType
<1>. QED
  BY <1>6, <1>7, <1>9, <1>10, <1>11 DEF TypeInv

LEMMA CloseConnIs ==
    ASSUME TypeInv, CloseConn
    PROVE  LET c == Head(todo).conn
           IN  /\ c \in Conns /\ c \in ToSet(list) /\ conns[c] # NULL /\ todo # <<>> /\ phase = "close"
               /\ \E v \in Worlds :
                     /\ ClosesWith(World(c), v) /\ v.aborted = aborted
                     /\ conns' = [conns EXCEPT ![c] = NULL] /\ handled' = [handled EXCEPT ![c] = v.handled]
                     /\ likes' = v.likes /\ aborted' = aborted
               /\ list' = Among(list, ToSet(list) \ {c}) /\ toServer' = [toServer EXCEPT ![c] = <<>>]
<1>. DEFINE c == Head(todo).conn
<1>1. phase = "close" /\ todo # <<>>
  BY DEF CloseConn, TypeInv, TodoType
<1>2. c \in ToSet(list) /\ c \in Conns
  <2>1. Head(todo) = todo[1] /\ 1 \in DOMAIN todo /\ c \in ToSet(list)
    BY <1>1, HeadTodo DEF TypeInv
  <2>. QED
    BY <1>1, <2>1 DEF TypeInv, TodoType
<1>3. conns[c] # NULL
  BY <1>2, ListenerAssumption DEF TypeInv, ListType
<1>4. PICK other \in Diaries \cup {0} :
        LET w == HttpClose(World(c), other)
        IN  /\ SetWorld(c, [w EXCEPT !.conn = NULL])
            /\ list' = Among(list, ToSet(list) \ {c})
            /\ toServer' = [toServer EXCEPT ![c] = <<>>]
  BY DEF CloseConn
<1>. HIDE DEF c
<1>. DEFINE v == HttpClose(World(c), other)
<1>5. /\ World(c) \in Worlds /\ FileOK(World(c).conn.file) /\ World(c).aborted = aborted
  BY <1>2, <1>3, ConnIs
<1>6. v \in Worlds /\ v.aborted = aborted /\ ClosesWith(World(c), v)
  BY <1>5, HttpCloseIs
<1>7. SetWorld(c, [v EXCEPT !.conn = NULL])
  BY <1>4
<1>. HIDE DEF v
<1>. DEFINE x == [v EXCEPT !.conn = NULL]
<1>8. x.conn = NULL /\ x.handled = v.handled /\ x.likes = v.likes /\ x.aborted = v.aborted
  BY <1>6 DEF Worlds
<1>. HIDE DEF x
<1>9. /\ conns' = [conns EXCEPT ![c] = NULL] /\ handled' = [handled EXCEPT ![c] = v.handled]
      /\ likes' = v.likes /\ aborted' = aborted
  BY <1>6, <1>7, <1>8 DEF SetWorld, x
<1>10. list' = Among(list, ToSet(list) \ {c}) /\ toServer' = [toServer EXCEPT ![c] = <<>>]
  BY <1>4
<1>. QED
  BY <1>1, <1>2, <1>3, <1>6, <1>9, <1>10 DEF c

LEMMA CloseConnType == ASSUME TypeInv, CloseConn PROVE TypeInv'
<1>. DEFINE c == Head(todo).conn
            S == Conns \cup {Listener}
            keep == ToSet(list) \ {c}
<1>1. /\ c \in Conns /\ c \in ToSet(list) /\ conns[c] # NULL /\ todo # <<>> /\ phase = "close"
      /\ list' = Among(list, keep) /\ toServer' = [toServer EXCEPT ![c] = <<>>]
  BY CloseConnIs
<1>2. PICK v \in Worlds :
         /\ conns' = [conns EXCEPT ![c] = NULL] /\ handled' = [handled EXCEPT ![c] = v.handled]
         /\ likes' = v.likes /\ aborted' = aborted
  BY CloseConnIs
<1>3. /\ todo' = Tail(todo) /\ phase' = IF Len(todo) > 1 THEN "close" ELSE "select"
      /\ UNCHANGED <<backlog, toClient, fin, cut, script, sent, got>>
  BY DEF CloseConn, browser
<1>4. v.likes \in LikeCounts /\ v.handled \in Marks
  BY WorldIs
<1>5. ServerType' /\ conns'[c] = NULL /\ \A d \in Conns : d # c => conns'[d] = conns[d]
  BY <1>1, <1>2, <1>4 DEF TypeInv, ServerType
<1>6. list' \in Seq(S \cap keep) /\ ToSet(list') = ToSet(list) \cap keep /\ Unrepeated(list')
  <2>. HIDE DEF S, keep
  <2>1. list \in Seq(S) /\ Unrepeated(list)
    BY DEF TypeInv, ListType, S
  <2>. QED
    BY <1>1, <2>1, AmongIs
<1>7. ListType'
  <2>1. list' \in Seq(Conns \cup {Listener})
    <3>1. S \cap keep \subseteq S
      OBVIOUS
    <3>. HIDE DEF keep
    <3>2. list' \in Seq(S)
      <4>. HIDE DEF S
      <4>. QED
        BY <1>6, <3>1, SeqMonotonic
    <3>. QED
      BY <3>2
  <2>2. ToSet(list') = {Listener} \cup {d \in Conns : conns'[d] # NULL}
    <3>1. ToSet(list) = {Listener} \cup {d \in Conns : conns[d] # NULL} /\ c # Listener
      BY <1>1, ListenerAssumption DEF TypeInv, ListType
    <3>. QED
      BY <1>5, <1>6, <3>1
  <2>. QED
    BY <1>6, <2>1, <2>2 DEF ListType
<1>8. TodoType'
  <2>. DEFINE T == [conn : ToSet(list), rd : BOOLEAN, wr : BOOLEAN]
              U == [conn : ToSet(list'), rd : BOOLEAN, wr : BOOLEAN]
              t == Tail(todo)
              n == Len(todo) - 1
  <2>1. /\ t \in Seq(T) /\ (t = <<>> <=> ~(Len(todo) > 1)) /\ DOMAIN t = 1..n /\ Len(todo) \in Nat
        /\ Len(todo) > 0 /\ DOMAIN todo = 1..Len(todo)
        /\ \A i \in DOMAIN t : i + 1 \in DOMAIN todo /\ t[i] = todo[i + 1]
        /\ \A i \in DOMAIN t : t[i].conn # c
    BY <1>1, HeadTodo DEF TypeInv
  <2>2. n \in Nat
    BY <2>1
  <2>3. \A i \in DOMAIN t : t[i] \in T
    <3>. HIDE DEF T, t
    <3>. QED
      BY <2>1, ElementOfSeq, LenProperties
  <2>4. \A i \in DOMAIN t : t[i] \in U
    BY <1>6, <2>1, <2>3
  <2>5. t = [i \in 1..n |-> t[i]]
    <3>. HIDE DEF T, t, n
    <3>. QED
      BY <2>1, LenProperties
  <2>. HIDE DEF T, t, n
  <2>6. t \in Seq(U)
    <3>. HIDE DEF U
    <3>1. t \in [1..n -> U]
      BY <2>1, <2>4, <2>5
    <3>. QED
      BY <2>2, <3>1, FunctionSeq
  <2>7. \A i, j \in DOMAIN t : t[i].conn = t[j].conn => i = j
    <3>. SUFFICES ASSUME NEW i \in DOMAIN t, NEW j \in DOMAIN t, t[i].conn = t[j].conn PROVE i = j
      OBVIOUS
    <3>1. i + 1 = j + 1
      BY <2>1 DEF TypeInv, TodoType
    <3>. QED
      BY <2>1, <3>1
  <2>8. \A i \in DOMAIN t : t[i].conn \in Conns
    BY <1>1, <2>1 DEF TypeInv, TodoType
  <2>9. todo' = t
    BY <1>3 DEF t
  <2>10. phase' \in {"select", "handle", "close"} /\ (phase' = "select" <=> todo' = <<>>)
    BY <1>3, <2>1, <2>9
  <2>11. \A i \in DOMAIN t : t[i].conn # Listener
    BY <2>8, ListenerAssumption
  <2>. QED
    BY <2>6, <2>7, <2>8, <2>9, <2>10, <2>11 DEF TodoType
<1>9. BacklogType'
  <2>1. {d \in Conns : conns[d] = NULL} \subseteq {d \in Conns : conns'[d] = NULL}
    BY <1>5
  <2>2. backlog \in Seq({d \in Conns : conns'[d] = NULL})
    BY <2>1, SeqMonotonic DEF TypeInv, BacklogType
  <2>. QED
    BY <1>3, <2>2 DEF TypeInv, BacklogType
<1>10. NetworkType'
  BY <1>1, <1>3, EmptySeq DEF TypeInv, NetworkType
<1>11. NewType'
  BY <1>3, <1>5 DEF TypeInv, NewType
<1>12. BrowserType'
  BY <1>3 DEF TypeInv, BrowserType
<1>. QED
  BY <1>5, <1>7, <1>8, <1>9, <1>10, <1>11, <1>12 DEF TypeInv

LEMMA InitType == Init => TypeInv
<1>. SUFFICES ASSUME Init PROVE TypeInv
  OBVIOUS
<1>1. ServerType
  <2>1. likes \in LikeCounts
    BY DEF Init, LikeCounts
  <2>2. handled \in [Conns -> Marks]
    BY EmptySeq DEF Init, Marks
  <2>. QED
    BY <2>1, <2>2 DEF Init, ServerType
<1>2. ListType
  <2>1. list = <<Listener>>
    BY DEF Init
  <2>2. list \in Seq(Conns \cup {Listener}) /\ Len(list) = 1 /\ list[1] = Listener
    BY <2>1, OneSeq
  <2>3. DOMAIN list = {1}
    BY <2>2, LenProperties
  <2>4. \A c \in Conns : conns[c] = NULL
    BY DEF Init
  <2>. QED
    BY <2>2, <2>3, <2>4 DEF ListType, Unrepeated, ToSet
<1>3. TodoType
  <2>1. DOMAIN todo = {} /\ todo \in Seq([conn : ToSet(list), rd : BOOLEAN, wr : BOOLEAN])
    BY EmptySeq DEF Init
  <2>. QED
    BY <2>1 DEF Init, TodoType
<1>4. BacklogType
  <2>1. backlog = <<>> /\ DOMAIN backlog = {}
    BY DEF Init
  <2>. QED
    BY <2>1, EmptySeq DEF BacklogType, Unrepeated
<1>5. NetworkType
  <2>1. \A c \in Conns : Len(toClient[c]) = 0
    BY EmptySeq DEF Init
  <2>. QED
    BY <2>1, EmptySeq, SizesAre DEF Init, NetworkType
<1>6. BrowserType
  <2>1. \A c \in Conns : script[c] \in Scripts[c] /\ script[c] \in Seq(Requests)
    BY RequestsAssumption DEF Init
  <2>2. script \in [Conns -> Seq(Requests)]
    BY <2>1 DEF Init
  <2>3. \A c \in Conns : sent[c] <= Len(script[c])
    BY <2>1, LenProperties DEF Init
  <2>. QED
    BY <2>1, <2>2, <2>3, EmptySeq DEF Init, BrowserType
<1>7. NewType
  BY EmptySeq DEF Init, NewType, ToSet
<1>. QED
  BY <1>1, <1>2, <1>3, <1>4, <1>5, <1>6, <1>7 DEF TypeInv

LEMMA ServerStays ==
    ASSUME TypeInv, UNCHANGED <<conns, list, phase, todo, aborted, handled, backlog, likes>>
    PROVE  ServerType' /\ ListType' /\ TodoType' /\ BacklogType'
BY DEF TypeInv, ServerType, ListType, TodoType, BacklogType

LEMMA ConnectType == ASSUME TypeInv, NEW c \in Conns, Connect(c) PROVE TypeInv'
<1>1. /\ fin[c] = "new" /\ fin' = [fin EXCEPT ![c] = "open"] /\ backlog' = Append(backlog, c)
      /\ UNCHANGED <<conns, list, phase, todo, aborted, handled, likes, toServer, toClient, cut, script, sent, got>>
  BY DEF Connect, network
<1>. DEFINE B == {d \in Conns : conns[d] = NULL}
<1>2. conns[c] = NULL /\ c \notin ToSet(backlog) /\ c \in B
  BY <1>1 DEF TypeInv, NewType
<1>3. backlog \in Seq(B) /\ Unrepeated(backlog)
  BY DEF TypeInv, BacklogType
<1>4. /\ backlog' \in Seq(B) /\ Len(backlog') = Len(backlog) + 1 /\ Len(backlog) \in Nat
      /\ DOMAIN backlog = 1..Len(backlog) /\ DOMAIN backlog' = 1..(Len(backlog) + 1)
      /\ (\A i \in 1..Len(backlog) : backlog'[i] = backlog[i]) /\ backlog'[Len(backlog) + 1] = c
  <2>. HIDE DEF B
  <2>1. Append(backlog, c) \in Seq(B) /\ Len(Append(backlog, c)) = Len(backlog) + 1
        /\ (\A i \in 1..Len(backlog) : Append(backlog, c)[i] = backlog[i]) /\ Append(backlog, c)[Len(backlog) + 1] = c
    BY <1>2, <1>3, AppendProperties
  <2>. QED
    BY <1>1, <1>3, <2>1, LenProperties
<1>5. Unrepeated(backlog')
  <2>. SUFFICES ASSUME NEW i \in DOMAIN backlog', NEW j \in DOMAIN backlog', backlog'[i] = backlog'[j] PROVE i = j
    BY DEF Unrepeated
  <2>1. \A k \in DOMAIN backlog : backlog[k] # c
    BY <1>2 DEF ToSet
  <2>2. \A k \in DOMAIN backlog' : k \in DOMAIN backlog \/ k = Len(backlog) + 1
    BY <1>4
  <2>. QED
    BY <1>3, <1>4, <2>1, <2>2 DEF Unrepeated
<1>6. BacklogType'
  BY <1>1, <1>4, <1>5 DEF BacklogType
<1>7. ToSet(backlog') = ToSet(backlog) \cup {c}
  <2>1. \A k \in DOMAIN backlog' : k \in DOMAIN backlog \/ k = Len(backlog) + 1
    BY <1>4
  <2>2. Len(backlog) + 1 \in DOMAIN backlog' /\ \A k \in DOMAIN backlog : k \in DOMAIN backlog'
    BY <1>4
  <2>. QED
    BY <1>4, <2>1, <2>2 DEF ToSet
<1>8. NewType'
  BY <1>1, <1>7 DEF TypeInv, NewType, BrowserType
<1>9. backlog' # <<>>
  <2>1. Len(backlog') > 0
    BY <1>4
  <2>. QED
    BY <2>1
<1>10. TodoType'
  BY <1>1, <1>9 DEF TypeInv, TodoType
<1>. QED
  BY <1>1, <1>6, <1>8, <1>10 DEF TypeInv, ServerType, ListType, NetworkType, BrowserType

\* The request a browser may make next.
LEMMA ScriptIs ==
    ASSUME BrowserType, NEW c \in Conns
    PROVE  /\ script[c] \in Seq(Requests) /\ Len(script[c]) \in Nat /\ DOMAIN script[c] = 1..Len(script[c])
           /\ \A k \in 1..Len(script[c]) : script[c][k] \in Requests /\ script[c][k].id = k
           /\ sent[c] \in Nat /\ sent[c] <= Len(script[c])
<1>1. script[c] \in Seq(Requests) /\ script[c] \in Scripts[c] /\ sent[c] \in Nat /\ sent[c] <= Len(script[c])
  BY DEF BrowserType
<1>2. Len(script[c]) \in Nat /\ DOMAIN script[c] = 1..Len(script[c])
  BY <1>1, LenProperties
<1>3. \A k \in 1..Len(script[c]) : script[c][k] \in Requests
  BY <1>1, ElementOfSeq
<1>4. \A k \in DOMAIN script[c] : script[c][k].id = k
  BY <1>1, RequestsAssumption
<1>. QED
  BY <1>1, <1>2, <1>3, <1>4

LEMMA EncodedType == ASSUME NEW req \in Requests PROVE Encoded(req) \in Seq(RequestUnit)
<1>1. UnitOf(req) \subseteq RequestUnit
  BY DEF UnitOf
<1>. QED
  BY <1>1, EncodedIs, SeqMonotonic

LEMMA RequestType == ASSUME TypeInv, NEW c \in Conns, Request(c) PROVE TypeInv'
<1>. DEFINE req == script[c][sent[c] + 1]
<1>1. /\ sent[c] < Len(script[c]) /\ sent' = [sent EXCEPT ![c] = @ + 1]
      /\ toServer' = [toServer EXCEPT ![c] = @ \o Encoded(req)]
      /\ UNCHANGED <<conns, list, phase, todo, aborted, handled, backlog, likes, toClient, fin, cut, script, got>>
  BY DEF Request, server
<1>2. req \in Requests
  BY <1>1, ScriptIs DEF TypeInv
<1>. HIDE DEF req
<1>3. toServer[c] \o Encoded(req) \in Seq(RequestUnit)
  BY <1>2, EncodedType, ConcatProperties DEF TypeInv, NetworkType
<1>4. NetworkType'
  BY <1>1, <1>3 DEF TypeInv, NetworkType
<1>5. BrowserType'
  <2>1. sent[c] + 1 \in Nat /\ sent[c] + 1 <= Len(script[c])
    BY <1>1, ScriptIs DEF TypeInv
  <2>. QED
    BY <1>1, <2>1 DEF TypeInv, BrowserType
<1>6. NewType'
  BY <1>1 DEF TypeInv, NewType
<1>. QED
  BY <1>1, <1>4, <1>5, <1>6, ServerStays DEF TypeInv

LEMMA ReadType == ASSUME TypeInv, NEW c \in Conns, Read(c) PROVE TypeInv'
<1>1. /\ got' = [got EXCEPT ![c] = @ \o toClient[c]] /\ toClient' = [toClient EXCEPT ![c] = <<>>]
      /\ UNCHANGED <<conns, list, phase, todo, aborted, handled, backlog, likes, toServer, fin, cut, script, sent>>
  BY DEF Read, server
<1>2. got[c] \o toClient[c] \in Seq(AnswerUnit)
  BY ConcatProperties DEF TypeInv, NetworkType, BrowserType
<1>3. NetworkType'
  <2>1. Len(<<>>) <= SockBuf /\ <<>> \in Seq(AnswerUnit)
    BY EmptySeq, SizesAre
  <2>. QED
    BY <1>1, <2>1 DEF TypeInv, NetworkType
<1>4. BrowserType'
  BY <1>1, <1>2 DEF TypeInv, BrowserType
<1>5. NewType'
  BY <1>1 DEF TypeInv, NewType
<1>. QED
  BY <1>1, <1>3, <1>4, <1>5, ServerStays DEF TypeInv

LEMMA LeaveType == ASSUME TypeInv, NEW c \in Conns, Leave(c) PROVE TypeInv'
<1>1. PICK out \in 0..Len(toServer[c]), how \in {"half", "gone"} :
          /\ toServer' = [toServer EXCEPT ![c] = SubSeq(@, 1, out)]
          /\ cut' = [cut EXCEPT ![c] = out < Len(toServer[c])]
          /\ fin' = [fin EXCEPT ![c] = how]
          /\ toClient' = IF how = "gone" THEN [toClient EXCEPT ![c] = <<>>] ELSE toClient
  BY DEF Leave
<1>2. UNCHANGED <<conns, list, phase, todo, aborted, handled, backlog, likes, script, sent, got>>
  BY DEF Leave, server
<1>3. SubSeq(toServer[c], 1, out) \in Seq(RequestUnit)
  <2>1. toServer[c] \in Seq(RequestUnit)
    BY DEF TypeInv, NetworkType
  <2>. QED
    BY <2>1, CutType
<1>4. NetworkType'
  <2>1. Len(<<>>) <= SockBuf /\ <<>> \in Seq(AnswerUnit)
    BY EmptySeq, SizesAre
  <2>. QED
    BY <1>1, <1>3, <2>1 DEF TypeInv, NetworkType
<1>5. BrowserType'
  <2>1. (out < Len(toServer[c])) \in BOOLEAN
    OBVIOUS
  <2>. QED
    BY <1>1, <1>2, <2>1 DEF TypeInv, BrowserType
<1>6. NewType'
  BY <1>1, <1>2 DEF TypeInv, NewType, BrowserType
<1>. QED
  BY <1>2, <1>4, <1>5, <1>6, ServerStays DEF TypeInv

LEMMA TypeStep == ASSUME TypeInv, [Next]_vars PROVE TypeInv'
<1>1. CASE UNCHANGED vars
  BY <1>1, ServerStays DEF vars, server, network, browser, TypeInv, NetworkType, BrowserType, NewType
<1>2. CASE Next
  BY <1>2, SelectType, AcceptType, HandleConnType, CloseConnType, ConnectType, RequestType, ReadType, LeaveType
     DEF Next, Loop, Environment
<1>. QED
  BY <1>1, <1>2

LEMMA TypeAlways == Spec => []TypeInv
<1>1. Init => TypeInv
  BY InitType
<1>2. TypeInv /\ [Next]_vars => TypeInv'
  BY TypeStep
<1>. QED
  BY <1>1, <1>2, PTL DEF Spec

\* The type invariant of the server and its browsers: what the loop visits is
\* connected, no connection is accepted or listed twice, and a file that is
\* open has units left (mg_mgr_handle_conn, mg_accept_conn, mg_close_conn).
THEOREM TypeCorrect == Spec => []TypeOK
<1>1. TypeInv => TypeOK
  BY TypeInvIs
<1>. QED
  BY <1>1, TypeAlways, PTL

-----------------------------------------------------------------------------
(***************************************************************************)
(* What a step may do to one connection and to its browser.                *)
(***************************************************************************)
\* The mg_connection of c, or what it is before it is accepted.
Con(c) == IF conns[c] = NULL THEN mg_create_connection ELSE conns[c]

ConAfter(c) == IF conns'[c] = NULL THEN mg_create_connection ELSE conns'[c]

SameCon(c) == ConAfter(c) = Con(c) /\ handled'[c] = handled[c] /\ (Closed(c)' <=> Closed(c))

SameScript(c) == script'[c] = script[c]

\* Others are served, or c is accepted.
Quiet(c) ==
    /\ SameCon(c) /\ SameScript(c) /\ toServer'[c] = toServer[c] /\ toClient'[c] = toClient[c]
    /\ sent'[c] = sent[c] /\ got'[c] = got[c] /\ cut'[c] = cut[c]
    /\ fin'[c] = fin[c] \/ (fin[c] = "new" /\ fin'[c] = "open")

Serves(c) ==
    /\ HandleConn(c) /\ SameScript(c) /\ conns[c] # NULL /\ conns'[c] # NULL
    /\ sent'[c] = sent[c] /\ got'[c] = got[c] /\ fin'[c] = fin[c] /\ cut'[c] = cut[c]

Closes(c) ==
    /\ SameScript(c) /\ conns[c] # NULL /\ conns'[c] = NULL /\ toServer'[c] = <<>> /\ toClient'[c] = toClient[c]
    /\ phase = "close" /\ todo # <<>> /\ Head(todo).conn = c /\ Closed(c)'
    /\ \E v \in Worlds : ClosesWith(World(c), v) /\ handled'[c] = v.handled
    /\ sent'[c] = sent[c] /\ got'[c] = got[c] /\ fin'[c] = fin[c] /\ cut'[c] = cut[c]

Asks(c) ==
    /\ SameCon(c) /\ SameScript(c) /\ toClient'[c] = toClient[c]
    /\ fin[c] = "open" /\ sent[c] < Len(script[c]) /\ ~Closed(c)
    /\ \/ ~script[c][sent[c] + 1].waits
       \/ Answered(c, sent[c]) /\ \A k \in 1..sent[c] : AnswerLen(script[c][k]) > 0
    /\ sent'[c] = sent[c] + 1 /\ toServer'[c] = toServer[c] \o Encoded(script[c][sent[c] + 1])
    /\ got'[c] = got[c] /\ fin'[c] = fin[c] /\ cut'[c] = cut[c]

Gets(c) ==
    /\ SameCon(c) /\ SameScript(c) /\ toServer'[c] = toServer[c] /\ fin[c] # "gone"
    /\ got'[c] = got[c] \o toClient[c] /\ toClient'[c] = <<>>
    /\ sent'[c] = sent[c] /\ fin'[c] = fin[c] /\ cut'[c] = cut[c]

Leaves(c) ==
    /\ SameCon(c) /\ SameScript(c) /\ fin[c] = "open" /\ fin'[c] \in {"half", "gone"}
    /\ \E out \in 0..Len(toServer[c]) :
          /\ toServer'[c] = SubSeq(toServer[c], 1, out)
          /\ cut'[c] = (out < Len(toServer[c]))
    /\ toClient'[c] = IF fin'[c] = "gone" THEN <<>> ELSE toClient[c]
    /\ sent'[c] = sent[c] /\ got'[c] = got[c]

StepOf(c) == Quiet(c) \/ Serves(c) \/ Closes(c) \/ Asks(c) \/ Gets(c) \/ Leaves(c)

LEMMA ServerSame ==
    ASSUME UNCHANGED <<conns, backlog, handled, fin>>, NEW c \in Conns
    PROVE  SameCon(c)
BY DEF SameCon, Con, ConAfter, Closed

LEMMA FinSame ==
    ASSUME UNCHANGED <<conns, backlog, handled>>, NEW c \in Conns, fin'[c] = "new" <=> fin[c] = "new"
    PROVE  SameCon(c)
BY DEF SameCon, Con, ConAfter, Closed

LEMMA AcceptStep == ASSUME TypeInv, Accept, NEW c \in Conns PROVE Quiet(c)
<1>1. UNCHANGED <<aborted, handled, likes, toServer, toClient, fin, cut, script, sent, got>>
  BY DEF Accept, network, browser
<1>2. todo # <<>> /\ Head(todo).conn = Listener
  BY DEF Accept, TypeInv, TodoType
<1>3. CASE Head(todo).rd
  <2>. DEFINE d == Head(backlog)
              B == {x \in Conns : conns[x] = NULL}
  <2>1. conns' = [conns EXCEPT ![d] = mg_create_connection] /\ backlog' = Tail(backlog)
    BY <1>3 DEF Accept
  <2>2. backlog # <<>>
    <3>1. Head(todo) = todo[1] /\ 1 \in DOMAIN todo
      BY <1>2, HeadTodo DEF TypeInv
    <3>. QED
      BY <1>2, <1>3, <3>1 DEF TypeInv, TodoType
  <2>3. backlog \in Seq(B) /\ Unrepeated(backlog)
    BY DEF TypeInv, BacklogType
  <2>4. /\ d \in B /\ d = backlog[1] /\ Len(backlog) \in Nat /\ Len(backlog) > 0
        /\ DOMAIN backlog = 1..Len(backlog) /\ DOMAIN Tail(backlog) = 1..(Len(backlog) - 1)
        /\ \A i \in 1..(Len(backlog) - 1) : Tail(backlog)[i] = backlog[i + 1]
    <3>. HIDE DEF B
    <3>. QED
      BY <2>2, <2>3, HeadTailProperties, LenProperties, EmptySeq
  <2>5. d \in Conns /\ conns[d] = NULL /\ d \in ToSet(backlog)
    <3>1. 1 \in DOMAIN backlog
      BY <2>4
    <3>. QED
      BY <2>4, <3>1 DEF ToSet
  <2>6. conns \in [Conns -> Connection \cup {NULL}]
    BY DEF TypeInv, ServerType
  <2>7. conns'[d] = mg_create_connection /\ \A x \in Conns : x # d => conns'[x] = conns[x]
    BY <2>1, <2>5, <2>6
  <2>8. \A x \in Conns : x # d => (x \in ToSet(backlog') <=> x \in ToSet(backlog))
    <3>. SUFFICES ASSUME NEW x \in Conns, x # d PROVE x \in ToSet(backlog') <=> x \in ToSet(backlog)
      OBVIOUS
    <3>1. ASSUME NEW i \in 1..Len(backlog), backlog[i] = x
          PROVE  i - 1 \in 1..(Len(backlog) - 1) /\ Tail(backlog)[i - 1] = x
      <4>1. i # 1
        BY <2>4, <3>1
      <4>2. i - 1 \in 1..(Len(backlog) - 1) /\ (i - 1) + 1 = i
        BY <2>4, <4>1
      <4>. QED
        BY <2>4, <3>1, <4>2
    <3>2. ASSUME NEW i \in 1..(Len(backlog) - 1), Tail(backlog)[i] = x
          PROVE  i + 1 \in 1..Len(backlog) /\ backlog[i + 1] = x
      BY <2>4, <3>2
    <3>. DEFINE t == Tail(backlog)
    <3>3. (\E i \in DOMAIN backlog : backlog[i] = x) <=> (\E i \in DOMAIN t : t[i] = x)
      <4>. HIDE DEF t
      <4>1. DOMAIN backlog = 1..Len(backlog) /\ DOMAIN t = 1..(Len(backlog) - 1)
        BY <2>4 DEF t
      <4>2. ASSUME NEW i \in DOMAIN backlog, backlog[i] = x PROVE \E j \in DOMAIN t : t[j] = x
        BY <3>1, <4>1, <4>2 DEF t
      <4>3. ASSUME NEW i \in DOMAIN t, t[i] = x PROVE \E j \in DOMAIN backlog : backlog[j] = x
        BY <3>2, <4>1, <4>3 DEF t
      <4>. QED
        BY <4>2, <4>3
    <3>. HIDE DEF t
    <3>4. backlog' = t
      BY <2>1 DEF t
    <3>. QED
      BY <3>3, <3>4 DEF ToSet
  <2>9. SameCon(c)
    <3>1. CASE c = d
      <4>1. ConAfter(c) = mg_create_connection /\ Con(c) = mg_create_connection
        BY <2>5, <2>7, <3>1 DEF ConAfter, Con
      <4>2. ~Closed(c) /\ ~Closed(c)'
        BY <2>5, <2>7, <3>1, CreatedIs DEF Closed
      <4>. QED
        BY <1>1, <4>1, <4>2 DEF SameCon
    <3>2. CASE c # d
      <4>1. conns'[c] = conns[c] /\ (c \in ToSet(backlog') <=> c \in ToSet(backlog))
        BY <2>7, <2>8, <3>2
      <4>2. Closed(c)' <=> Closed(c)
        BY <1>1, <4>1 DEF Closed
      <4>. QED
        BY <1>1, <4>1, <4>2 DEF SameCon, Con, ConAfter
    <3>. QED
      BY <3>1, <3>2
  <2>. QED
    BY <1>1, <2>9 DEF Quiet, SameScript
<1>4. CASE ~Head(todo).rd
  <2>1. UNCHANGED <<conns, list, backlog>>
    BY <1>4 DEF Accept
  <2>2. SameCon(c)
    BY <1>1, <2>1, ServerSame
  <2>. QED
    BY <1>1, <2>2 DEF Quiet, SameScript
<1>. QED
  BY <1>3, <1>4

LEMMA HandleStep == ASSUME TypeInv, TypeInv', NEW d \in Conns, HandleConn(d), NEW c \in Conns PROVE StepOf(c)
<1>1. UNCHANGED <<backlog, fin, cut, script, sent, got>>
  BY DEF HandleConn, browser
<1>2. conns[d] # NULL
  BY HandledConnType
<1>3. \E w, i, o : /\ St(w, i, o) \in States /\ SetWorld(d, w) /\ Len(o) <= SockBuf
                   /\ toServer' = [toServer EXCEPT ![d] = i] /\ toClient' = [toClient EXCEPT ![d] = o]
  <2>1. States \in SUBSET States /\ Keeps(d, States)
    BY StatesKept
  <2>2. St(World(d), toServer[d], toClient[d]) \in States
    BY <1>2, ConnIs
  <2>3. Len(toClient[d]) <= SockBuf
    BY DEF TypeInv, NetworkType
  <2>. QED
    BY <2>1, <2>2, <2>3, HandleConnIs
<1>4. PICK w, i, o : /\ St(w, i, o) \in States /\ SetWorld(d, w)
                     /\ toServer' = [toServer EXCEPT ![d] = i] /\ toClient' = [toClient EXCEPT ![d] = o]
  BY <1>3
<1>5. w.conn # NULL
  <2>1. w \in Worlds
    BY <1>4, InStates
  <2>. QED
    BY <2>1, WorldIs, NullAssumption
<1>6. conns' = [conns EXCEPT ![d] = w.conn] /\ handled' = [handled EXCEPT ![d] = w.handled]
  BY <1>4 DEF SetWorld
<1>7. conns \in [Conns -> Connection \cup {NULL}]
  BY DEF TypeInv, ServerType
<1>8. CASE c = d
  <2>1. conns'[c] # NULL
    BY <1>5, <1>6, <1>7, <1>8
  <2>. QED
    BY <1>1, <1>2, <1>8, <2>1 DEF StepOf, Serves, SameScript
<1>9. CASE c # d
  <2>1. conns'[c] = conns[c] /\ handled'[c] = handled[c] /\ toServer'[c] = toServer[c] /\ toClient'[c] = toClient[c]
    BY <1>4, <1>6, <1>9
  <2>2. SameCon(c)
    BY <1>1, <2>1 DEF SameCon, Con, ConAfter, Closed
  <2>. QED
    BY <1>1, <2>1, <2>2 DEF StepOf, Quiet, SameScript
<1>. QED
  BY <1>8, <1>9

LEMMA CloseStep == ASSUME TypeInv, CloseConn, NEW c \in Conns PROVE StepOf(c)
<1>. DEFINE d == Head(todo).conn
<1>1. UNCHANGED <<backlog, toClient, fin, cut, script, sent, got>>
  BY DEF CloseConn, browser
<1>2. d \in Conns /\ conns[d] # NULL /\ phase = "close" /\ todo # <<>> /\ toServer' = [toServer EXCEPT ![d] = <<>>]
  BY CloseConnIs
<1>3. PICK v \in Worlds : /\ ClosesWith(World(d), v)
                          /\ conns' = [conns EXCEPT ![d] = NULL] /\ handled' = [handled EXCEPT ![d] = v.handled]
  BY CloseConnIs
<1>4. conns \in [Conns -> Connection \cup {NULL}] /\ handled \in [Conns -> Marks] /\ toServer \in [Conns -> Seq(RequestUnit)]
  BY DEF TypeInv, ServerType, NetworkType
<1>. HIDE DEF d
<1>5. CASE c = d
  <2>1. conns'[c] = NULL /\ handled'[c] = v.handled /\ toServer'[c] = <<>>
    BY <1>2, <1>3, <1>4, <1>5
  <2>2. Closed(c)'
    <3>1. fin[c] # "new"
      BY <1>2, <1>5 DEF TypeInv, NewType
    <3>2. c \notin ToSet(backlog)
      <4>1. backlog \in Seq({x \in Conns : conns[x] = NULL}) /\ conns[c] # NULL
        BY <1>2, <1>5 DEF TypeInv, BacklogType
      <4>2. \A k \in DOMAIN backlog : backlog[k] \in {x \in Conns : conns[x] = NULL}
        <5>. DEFINE B == {x \in Conns : conns[x] = NULL}
        <5>1. backlog \in Seq(B)
          BY <4>1
        <5>. HIDE DEF B
        <5>2. \A k \in DOMAIN backlog : backlog[k] \in B
          BY <5>1, ElementOfSeq, LenProperties
        <5>. QED
          BY <5>2 DEF B
      <4>. QED
        BY <4>1, <4>2 DEF ToSet
    <3>. QED
      BY <1>1, <2>1, <3>1, <3>2 DEF Closed
  <2>. QED
    BY <1>1, <1>2, <1>3, <1>5, <2>1, <2>2 DEF StepOf, Closes, SameScript, d
<1>6. CASE c # d
  <2>1. conns'[c] = conns[c] /\ handled'[c] = handled[c] /\ toServer'[c] = toServer[c] /\ toClient'[c] = toClient[c]
    BY <1>1, <1>2, <1>3, <1>4, <1>6
  <2>2. SameCon(c)
    BY <1>1, <2>1 DEF SameCon, Con, ConAfter, Closed
  <2>. QED
    BY <1>1, <2>1, <2>2 DEF StepOf, Quiet, SameScript
<1>. QED
  BY <1>5, <1>6

LEMMA ConnectStep == ASSUME TypeInv, NEW d \in Conns, Connect(d), NEW c \in Conns PROVE Quiet(c)
<1>1. /\ fin[d] = "new" /\ fin' = [fin EXCEPT ![d] = "open"] /\ backlog' = Append(backlog, d)
      /\ UNCHANGED <<conns, handled, toServer, toClient, cut, script, sent, got>>
  BY DEF Connect, network
<1>2. fin \in [Conns -> {"new", "open", "half", "gone"}]
  BY DEF TypeInv, BrowserType
<1>3. ToSet(backlog') = ToSet(backlog) \cup {d}
  <2>. DEFINE B == {x \in Conns : conns[x] = NULL}
  <2>1. d \in B /\ backlog \in Seq(B)
    BY <1>1 DEF TypeInv, NewType, BacklogType
  <2>. HIDE DEF B
  <2>2. /\ DOMAIN backlog = 1..Len(backlog) /\ DOMAIN backlog' = 1..(Len(backlog) + 1) /\ Len(backlog) \in Nat
        /\ (\A i \in 1..Len(backlog) : backlog'[i] = backlog[i]) /\ backlog'[Len(backlog) + 1] = d
    <3>1. Append(backlog, d) \in Seq(B) /\ Len(Append(backlog, d)) = Len(backlog) + 1
          /\ (\A i \in 1..Len(backlog) : Append(backlog, d)[i] = backlog[i]) /\ Append(backlog, d)[Len(backlog) + 1] = d
      BY <2>1, AppendProperties
    <3>. QED
      BY <1>1, <2>1, <3>1, LenProperties
  <2>3. \A k \in DOMAIN backlog' : k \in DOMAIN backlog \/ k = Len(backlog) + 1
    BY <2>2
  <2>4. Len(backlog) + 1 \in DOMAIN backlog' /\ \A k \in DOMAIN backlog : k \in DOMAIN backlog'
    BY <2>2
  <2>. QED
    BY <2>2, <2>3, <2>4 DEF ToSet
<1>4. CASE c = d
  <2>1. fin[c] = "new" /\ fin'[c] = "open" /\ c \in ToSet(backlog')
    BY <1>1, <1>2, <1>3, <1>4
  <2>2. ~Closed(c) /\ ~Closed(c)'
    BY <2>1 DEF Closed
  <2>3. SameCon(c)
    BY <1>1, <2>2 DEF SameCon, Con, ConAfter
  <2>. QED
    BY <1>1, <2>1, <2>3 DEF Quiet, SameScript
<1>5. CASE c # d
  <2>1. fin'[c] = fin[c] /\ (c \in ToSet(backlog') <=> c \in ToSet(backlog))
    BY <1>1, <1>2, <1>3, <1>5
  <2>2. Closed(c)' <=> Closed(c)
    BY <1>1, <2>1 DEF Closed
  <2>3. SameCon(c)
    BY <1>1, <2>2 DEF SameCon, Con, ConAfter
  <2>. QED
    BY <1>1, <2>1, <2>3 DEF Quiet, SameScript
<1>. QED
  BY <1>4, <1>5

LEMMA RequestStep == ASSUME TypeInv, NEW d \in Conns, Request(d), NEW c \in Conns PROVE StepOf(c)
<1>1. /\ fin[d] = "open" /\ sent[d] < Len(script[d]) /\ ~Closed(d)
      /\ \/ ~script[d][sent[d] + 1].waits
         \/ Answered(d, sent[d]) /\ \A k \in 1..sent[d] : AnswerLen(script[d][k]) > 0
      /\ sent' = [sent EXCEPT ![d] = @ + 1]
      /\ toServer' = [toServer EXCEPT ![d] = @ \o Encoded(script[d][sent[d] + 1])]
      /\ UNCHANGED <<conns, handled, backlog, toClient, fin, cut, script, got>>
  BY DEF Request, server
<1>2. sent \in [Conns -> Nat] /\ toServer \in [Conns -> Seq(RequestUnit)]
  BY DEF TypeInv, BrowserType, NetworkType
<1>3. SameCon(c)
  BY <1>1, ServerSame
<1>4. CASE c = d
  <2>1. sent'[c] = sent[c] + 1 /\ toServer'[c] = toServer[c] \o Encoded(script[c][sent[c] + 1])
    BY <1>1, <1>2, <1>4
  <2>2. Asks(c)
    BY <1>1, <1>3, <1>4, <2>1 DEF Asks, SameScript
  <2>. QED
    BY <2>2 DEF StepOf
<1>5. CASE c # d
  <2>1. sent'[c] = sent[c] /\ toServer'[c] = toServer[c]
    BY <1>1, <1>2, <1>5
  <2>2. Quiet(c)
    BY <1>1, <1>3, <2>1 DEF Quiet, SameScript
  <2>. QED
    BY <2>2 DEF StepOf
<1>. QED
  BY <1>4, <1>5

LEMMA ReadStep == ASSUME TypeInv, NEW d \in Conns, Read(d), NEW c \in Conns PROVE StepOf(c)
<1>1. /\ fin[d] # "gone" /\ got' = [got EXCEPT ![d] = @ \o toClient[d]] /\ toClient' = [toClient EXCEPT ![d] = <<>>]
      /\ UNCHANGED <<conns, handled, backlog, toServer, fin, cut, script, sent>>
  BY DEF Read, server
<1>2. got \in [Conns -> Seq(AnswerUnit)] /\ toClient \in [Conns -> Seq(AnswerUnit)]
  BY DEF TypeInv, BrowserType, NetworkType
<1>3. SameCon(c)
  BY <1>1, ServerSame
<1>4. CASE c = d
  BY <1>1, <1>2, <1>3, <1>4 DEF StepOf, Gets, SameScript
<1>5. CASE c # d
  BY <1>1, <1>2, <1>3, <1>5 DEF StepOf, Quiet, SameScript
<1>. QED
  BY <1>4, <1>5

LEMMA LeaveStep == ASSUME TypeInv, NEW d \in Conns, Leave(d), NEW c \in Conns PROVE StepOf(c)
<1>1. PICK out \in 0..Len(toServer[d]), how \in {"half", "gone"} :
          /\ toServer' = [toServer EXCEPT ![d] = SubSeq(@, 1, out)]
          /\ cut' = [cut EXCEPT ![d] = out < Len(toServer[d])]
          /\ fin' = [fin EXCEPT ![d] = how]
          /\ toClient' = IF how = "gone" THEN [toClient EXCEPT ![d] = <<>>] ELSE toClient
  BY DEF Leave
<1>2. fin[d] = "open" /\ UNCHANGED <<conns, handled, backlog, script, sent, got>>
  BY DEF Leave, server
<1>3. /\ toServer \in [Conns -> Seq(RequestUnit)] /\ toClient \in [Conns -> Seq(AnswerUnit)]
      /\ fin \in [Conns -> {"new", "open", "half", "gone"}] /\ cut \in [Conns -> BOOLEAN]
  BY DEF TypeInv, BrowserType, NetworkType
<1>4. CASE c = d
  <2>1. /\ toServer'[c] = SubSeq(toServer[c], 1, out) /\ fin'[c] = how /\ fin[c] = "open"
        /\ cut'[c] = (out < Len(toServer[c])) /\ toClient'[c] = IF how = "gone" THEN <<>> ELSE toClient[c]
    BY <1>1, <1>2, <1>3, <1>4
  <2>2. SameCon(c)
    BY <1>2, <2>1, FinSame
  <2>3. out \in 0..Len(toServer[c])
    BY <1>1, <1>4
  <2>4. Leaves(c)
    BY <1>2, <2>1, <2>2, <2>3 DEF Leaves, SameScript
  <2>. QED
    BY <2>4 DEF StepOf
<1>5. CASE c # d
  <2>1. toServer'[c] = toServer[c] /\ fin'[c] = fin[c] /\ cut'[c] = cut[c] /\ toClient'[c] = toClient[c]
    BY <1>1, <1>2, <1>3, <1>5
  <2>2. SameCon(c)
    BY <1>2, <2>1, FinSame
  <2>3. Quiet(c)
    BY <1>2, <2>1, <2>2 DEF Quiet, SameScript
  <2>. QED
    BY <2>3 DEF StepOf
<1>. QED
  BY <1>4, <1>5

LEMMA StepIs == ASSUME TypeInv, TypeInv', [Next]_vars, NEW c \in Conns PROVE StepOf(c)
<1>1. CASE UNCHANGED vars
  <2>1. UNCHANGED <<conns, backlog, handled, fin, toServer, toClient, sent, got, cut, script>>
    BY <1>1 DEF vars, server, network, browser
  <2>2. SameCon(c)
    BY <2>1, ServerSame
  <2>. QED
    BY <2>1, <2>2 DEF StepOf, Quiet, SameScript
<1>2. CASE Select
  <2>1. UNCHANGED <<conns, backlog, handled, fin, toServer, toClient, sent, got, cut, script>>
    BY <1>2 DEF Select, network, browser
  <2>2. SameCon(c)
    BY <2>1, ServerSame
  <2>. QED
    BY <2>1, <2>2 DEF StepOf, Quiet, SameScript
<1>3. CASE Accept
  BY <1>3, AcceptStep DEF StepOf
<1>4. CASE \E d \in Conns : HandleConn(d)
  BY <1>4, HandleStep
<1>5. CASE CloseConn
  BY <1>5, CloseStep
<1>6. CASE Environment
  BY <1>6, ConnectStep, RequestStep, ReadStep, LeaveStep DEF Environment, StepOf
<1>. QED
  BY <1>1, <1>2, <1>3, <1>4, <1>5, <1>6 DEF Next, Loop

-----------------------------------------------------------------------------
(***************************************************************************)
(* The outcomes of a call of the handler, in one form.                     *)
(***************************************************************************)
FileOf(i, req) ==
    [open |-> TRUE, req |-> req.id, pos |-> 0, sent |-> i.file.sent, cl |-> FileLen, keepalive |-> Keepalive(req)]

Opened(i, p, req) == [send |-> i.send \o p, file |-> FileOf(i, req), flags |-> i.flags]

FirstUnit(p, req) == p \in Seq(AnswerUnit) /\ Len(p) = 1 /\ p[1].req = req.id /\ p[1].n = 1

\* What the answer to req makes of the output of the connection i.
Out(i, k, req) ==
    \/ req.uri = "printcontent" /\ k.send = i.send /\ k.file = i.file /\ k.flags = i.flags
    \/ /\ req.uri = "file" /\ FileOK(FileOf(i, req))
       /\ \E p, part : FirstUnit(p, req) /\ Moves(Opened(i, p, req), k, part)
    \/ /\ req.uri \notin {"printcontent", "file"} /\ k.file = i.file
       /\ k.flags = i.flags \/ k.flags = i.flags \cup {"SEND_AND_CLOSE"}
       /\ \E p : TwoUnits(p, req) /\ k.send = i.send \o p

LEMMA RepliedOut ==
    ASSUME NEW i, NEW j, NEW k, NEW l, NEW req, Replied(j, k, req),
           i.send = j.send, i.file = j.file, i.flags = j.flags,
           l.send = k.send, l.file = k.file, l.flags = k.flags
    PROVE  Out(i, l, req)
<1>1. CASE req.uri = "printcontent" /\ k = j
  BY <1>1 DEF Out
<1>2. CASE req.uri = "file" /\ \E h : Opens(j, h, req) /\ FileOK(h.file) /\ \E part : Moves(h, k, part)
  <2>1. PICK h, part : Opens(j, h, req) /\ FileOK(h.file) /\ Moves(h, k, part)
    BY <1>2
  <2>2. PICK p : FirstUnit(p, req) /\ h.send = j.send \o p
    BY <2>1 DEF Opens, FirstUnit
  <2>. DEFINE a == Opened(i, p, req)
  <2>3. h.file = FileOf(i, req) /\ h.flags = i.flags /\ h.send = i.send \o p
    BY <2>1, <2>2 DEF Opens, FileOf
  <2>4. a.send = h.send /\ a.file = h.file /\ a.flags = h.flags
    BY <2>3 DEF Opened
  <2>. HIDE DEF a
  <2>5. Moves(a, l, part)
    BY <2>1, <2>4 DEF Moves
  <2>. QED
    BY <1>2, <2>1, <2>2, <2>3, <2>5 DEF Out, a
<1>3. CASE /\ req.uri \notin {"printcontent", "file"} /\ k.file = j.file
           /\ k.flags = j.flags \/ k.flags = j.flags \cup {"SEND_AND_CLOSE"}
           /\ \E p : TwoUnits(p, req) /\ k.send = j.send \o p
  BY <1>3 DEF Out
<1>. QED
  BY <1>1, <1>2, <1>3 DEF Replied

LEMMA FromSelf == ASSUME NEW S, NEW t \in Seq(S) PROVE From(t, t, 0, Len(t))
<1>1. Len(t) \in Nat
  BY LenProperties
<1>. QED
  BY <1>1 DEF From

LEMMA FromTail ==
    ASSUME NEW S, NEW t \in Seq(S), NEW n \in 0..Len(t)
    PROVE  From(SubSeq(t, n + 1, Len(t)), t, 0, Len(t))
<1>. DEFINE s == SubSeq(t, n + 1, Len(t))
<1>1. Len(t) \in Nat /\ Len(s) = Len(t) - n /\ \A q \in 1..(Len(t) - n) : s[q] = t[n + q]
  BY Cut, LenProperties
<1>. HIDE DEF s
<1>2. ASSUME NEW q \in 1..Len(s) PROVE \E p \in 1..Len(t) : s[q] = t[p] /\ Len(s) - q <= Len(t) - p
  <2>1. n + q \in 1..Len(t) /\ Len(s) - q <= Len(t) - (n + q)
    BY <1>1
  <2>. QED
    BY <1>1, <2>1
<1>. QED
  BY <1>2 DEF From, s

LEMMA FromTrans ==
    ASSUME NEW r, NEW s, NEW t, Len(r) \in Nat, Len(s) \in Nat, Len(t) \in Nat,
           From(r, s, 0, Len(s)), From(s, t, 0, Len(t))
    PROVE  From(r, t, 0, Len(t))
<1>1. ASSUME NEW q \in 1..Len(r) PROVE \E p \in 1..Len(t) : r[q] = t[p] /\ Len(r) - q <= Len(t) - p
  <2>1. PICK p \in 1..Len(s) : r[q] = s[p] /\ Len(r) - q <= Len(s) - p
    BY DEF From
  <2>2. PICK o \in 1..Len(t) : s[p] = t[o] /\ Len(s) - p <= Len(t) - o
    BY DEF From
  <2>. QED
    BY <2>1, <2>2
<1>. QED
  BY <1>1 DEF From

LEMMA FromHead ==
    ASSUME NEW S, NEW t \in Seq(S), NEW len \in 0..Len(t), NEW buf \in Seq(S),
           From(buf, After(t, len), 0, Len(After(t, len)))
    PROVE  From(SubSeq(t, 1, len) \o buf, t, 0, Len(t)) /\ Len(buf) <= Len(After(t, len))
<1>. DEFINE a == SubSeq(t, 1, len)
            b == After(t, len)
            s == a \o buf
<1>1. /\ Len(t) \in Nat /\ a \in Seq(S) /\ Len(a) = len /\ (\A q \in 1..len : a[q] = t[q])
      /\ b \in Seq(S) /\ Len(b) = Len(t) - len /\ \A q \in 1..(Len(t) - len) : b[q] = t[len + q]
  BY Cut, LenProperties DEF After
<1>. HIDE DEF a, b
<1>2. Len(s) = len + Len(buf) /\ (\A q \in 1..len : s[q] = a[q]) /\ \A q \in 1..Len(buf) : s[len + q] = buf[q]
  <2>. a \in Seq(S) /\ buf \in Seq(S)
    BY <1>1
  <2>1. /\ Len(s) = Len(a) + Len(buf) /\ (\A q \in 1..Len(a) : s[q] = a[q])
        /\ \A q \in 1..Len(buf) : s[Len(a) + q] = buf[q]
    BY Join
  <2>. QED
    BY <1>1, <2>1
<1>3. Len(buf) \in Nat
  BY LenProperties
<1>4. \A q \in 1..Len(buf) : \E p \in 1..Len(b) : buf[q] = b[p] /\ Len(buf) - q <= Len(b) - p
  BY DEF b, From
<1>. HIDE DEF s
<1>5. Len(buf) <= Len(b)
  <2>1. CASE Len(buf) = 0
    BY <1>1, <2>1
  <2>2. CASE Len(buf) > 0
    <3>1. 1 \in 1..Len(buf)
      BY <1>3, <2>2
    <3>2. PICK p \in 1..Len(b) : Len(buf) - 1 <= Len(b) - p
      BY <1>4, <3>1
    <3>. QED
      BY <1>1, <1>3, <3>2
  <2>. QED
    BY <1>3, <2>1, <2>2
<1>6. ASSUME NEW q \in 1..Len(s) PROVE \E p \in 1..Len(t) : s[q] = t[p] /\ Len(s) - q <= Len(t) - p
  <2>1. CASE q <= len
    <3>1. q \in 1..len /\ q \in 1..Len(t) /\ Len(s) - q <= Len(t) - q
      BY <1>1, <1>2, <1>3, <1>5, <2>1
    <3>. QED
      BY <1>1, <1>2, <3>1
  <2>2. CASE q > len
    <3>1. q - len \in 1..Len(buf) /\ len + (q - len) = q
      BY <1>1, <1>2, <1>3, <2>2
    <3>2. PICK p \in 1..Len(b) : buf[q - len] = b[p] /\ Len(buf) - (q - len) <= Len(b) - p
      BY <1>4, <3>1
    <3>3. len + p \in 1..Len(t) /\ Len(s) - q <= Len(t) - (len + p) /\ b[p] = t[len + p]
      BY <1>1, <1>2, <1>3, <3>2
    <3>. QED
      BY <1>2, <3>1, <3>2, <3>3
  <2>. QED
    BY <1>1, <1>2, <2>1, <2>2
<1>. QED
  BY <1>5, <1>6 DEF From, s, a, b

LEMMA HandlesFrom ==
    ASSUME NEW w \in Worlds, NEW v, NEW req, NEW msg \in Nat, Handles(w, v, req, msg)
    PROVE  From(v.conn.recv, w.conn.recv, 0, Len(w.conn.recv))
<1>1. w.conn.recv \in Seq(RequestUnit) /\ Len(w.conn.recv) \in Nat
  BY WorldIs
<1>2. CASE msg <= Len(w.conn.recv)
  <2>1. v.conn.recv = SubSeq(w.conn.recv, msg + 1, Len(w.conn.recv)) /\ msg \in 0..Len(w.conn.recv)
    BY <1>1, <1>2 DEF Handles
  <2>. QED
    BY <1>1, <2>1, FromTail
<1>3. CASE ~(msg <= Len(w.conn.recv))
  <2>1. v.conn.recv = w.conn.recv
    BY <1>3 DEF Handles
  <2>. QED
    BY <1>1, <2>1, FromSelf
<1>. QED
  BY <1>2, <1>3

\* The request at the head of the buffer has been handled, or has not.
Waits(w, v, len) ==
    /\ v.handled = w.handled /\ v.conn.send = w.conn.send /\ v.conn.file = w.conn.file
    /\ \/ v.conn.flags = w.conn.flags
       \/ v.conn.flags = w.conn.flags \cup {"CLOSE_IMMEDIATELY"} /\ len <= 0 /\ Len(w.conn.recv) > 0

Serve(w, v, len) ==
    LET req == w.conn.recv[1].req
    IN  /\ len > 0 /\ req \in Requests /\ Out(w.conn, v.conn, req) /\ v.aborted = w.aborted
        /\ \E whole \in BOOLEAN : v.handled = Append(w.handled, [req |-> req.id, whole |-> whole])

Outcome(w, v, len) ==
    /\ v \in Worlds /\ FileOK(v.conn.file) /\ From(v.conn.recv, w.conn.recv, 0, Len(w.conn.recv))
    /\ Waits(w, v, len) \/ Serve(w, v, len)

LEMMA HandlesServe ==
    ASSUME NEW w \in Worlds, NEW u \in Worlds, SameOutput(w, u), SameRest(w, u), NEW v, NEW msg,
           NEW len \in Int, len > 0, w.conn.recv[1].req \in Requests, Handles(u, v, w.conn.recv[1].req, msg)
    PROVE  Serve(w, v, len)
<1>. DEFINE req == w.conn.recv[1].req
<1>1. PICK k : Replied(u.conn, k, req) /\ v.conn.send = k.send /\ v.conn.file = k.file /\ v.conn.flags = k.flags
  BY DEF Handles
<1>2. w.conn.send = u.conn.send /\ w.conn.file = u.conn.file /\ w.conn.flags = u.conn.flags
  BY DEF SameOutput
<1>3. Out(w.conn, v.conn, req)
  <2>. HIDE DEF req
  <2>. QED
    BY <1>1, <1>2, RepliedOut
<1>. QED
  BY <1>3 DEF Handles, Serve, SameRest

LEMMA ParsesOutcome ==
    ASSUME NEW w \in Worlds, FileOK(w.conn.file), NEW v, NEW len \in Int, HeadOf(w.conn.recv, len), Parses(w, v, len)
    PROVE  Outcome(w, v, len)
<1>. DEFINE recv == w.conn.recv
            req == recv[1].req
            rest == After(recv, len)
<1>1. recv \in Seq(RequestUnit) /\ Len(recv) \in Nat /\ SameOutput(w, w) /\ SameRest(w, w)
  BY WorldIs DEF SameOutput, SameRest
<1>2. v \in Worlds /\ FileOK(v.conn.file)
  BY ParsesType
<1>3. CASE v = w
  <2>1. From(v.conn.recv, recv, 0, Len(recv))
    BY <1>1, <1>3, FromSelf
  <2>. QED
    BY <1>2, <1>3, <2>1 DEF Outcome, Waits
<1>4. CASE len <= 0 /\ v = Flag(w, "CLOSE_IMMEDIATELY") /\ Len(recv) > 0
  <2>1. v.conn.recv = recv /\ v.handled = w.handled /\ v.conn.send = w.conn.send /\ v.conn.file = w.conn.file
        /\ v.conn.flags = w.conn.flags \cup {"CLOSE_IMMEDIATELY"}
    BY <1>4, FlagIs DEF Flags, SameInput, SameRest
  <2>2. From(v.conn.recv, recv, 0, Len(recv))
    BY <1>1, <2>1, FromSelf
  <2>. QED
    BY <1>2, <1>4, <2>1, <2>2 DEF Outcome, Waits
<1>5. CASE len > 0 /\ req \in Requests /\ Handles(w, v, req, PlainLen(req, len))
  <2>1. Serve(w, v, len)
    BY <1>1, <1>5, HandlesServe
  <2>2. PlainLen(req, len) \in Nat
    <3>1. BodyLen(req) \in Nat
      BY <1>5, RequestIs
    <3>. HIDE DEF req
    <3>. QED
      BY <1>5, <3>1 DEF PlainLen
  <2>. HIDE DEF req
  <2>3. From(v.conn.recv, recv, 0, Len(recv))
    BY <1>5, <2>2, HandlesFrom
  <2>. QED
    BY <1>2, <2>1, <2>3 DEF Outcome
<1>6. CASE len > 0 /\ req \in Requests /\ v = [w EXCEPT !.aborted = TRUE]
  <2>. DEFINE x == [w EXCEPT !.aborted = TRUE]
  <2>1. x.conn = w.conn /\ x.handled = w.handled
    BY AbortedIs
  <2>. HIDE DEF x
  <2>2. v.conn = w.conn /\ v.handled = w.handled
    BY <1>6, <2>1 DEF x
  <2>3. From(v.conn.recv, recv, 0, Len(recv))
    BY <1>1, <2>2, FromSelf
  <2>. QED
    BY <1>2, <2>2, <2>3 DEF Outcome, Waits
<1>7. CASE /\ len > 0 /\ req \in Requests
           /\ \E u, buf, n, zero :
                    /\ Collapses(rest, w.conn.chunk, buf, n, zero) /\ Collapsed(w, u, len, buf, n)
                    /\ v = u \/ (zero /\ Handles(u, v, req, Len(buf) + len))
  <2>1. PICK u, buf, n, zero :
           /\ Collapses(rest, w.conn.chunk, buf, n, zero) /\ Collapsed(w, u, len, buf, n)
           /\ v = u \/ (zero /\ Handles(u, v, req, Len(buf) + len))
    BY <1>7
  <2>2. len \in 1..Len(recv) /\ len \in 0..Len(recv)
    BY <1>1, <1>7 DEF HeadOf
  <2>3. rest \in Seq(RequestUnit)
    BY <1>1, <2>2, CutType DEF After
  <2>4. From(buf, rest, 0, Len(rest)) /\ buf \in Seq(RequestUnit)
    <3>. HIDE DEF rest
    <3>. QED
      BY <2>1, <2>3, FromSelf DEF Collapses
  <2>5. u \in Worlds /\ u.conn.recv = SubSeq(recv, 1, len) \o buf /\ SameOutput(w, u) /\ SameRest(w, u)
    BY <2>1 DEF Collapsed
  <2>6. From(u.conn.recv, recv, 0, Len(recv))
    BY <1>1, <2>2, <2>4, <2>5, FromHead
  <2>7. CASE v = u
    <3>1. Waits(w, v, len)
      BY <2>5, <2>7 DEF Waits, SameOutput, SameRest
    <3>. QED
      BY <1>2, <2>6, <2>7, <3>1 DEF Outcome
  <2>8. CASE Handles(u, v, req, Len(buf) + len)
    <3>1. Serve(w, v, len)
      BY <1>7, <2>5, <2>8, HandlesServe
    <3>2. Len(buf) + len \in Nat /\ Len(u.conn.recv) \in Nat /\ Len(v.conn.recv) \in Nat
      BY <1>2, <1>7, <2>4, <2>5, WorldIs, LenProperties
    <3>3. From(v.conn.recv, u.conn.recv, 0, Len(u.conn.recv))
      <4>. DEFINE msg == Len(buf) + len
      <4>1. msg \in Nat /\ Handles(u, v, req, msg)
        BY <2>8, <3>2
      <4>. HIDE DEF msg, req
      <4>. QED
        BY <2>5, <4>1, HandlesFrom
    <3>4. From(v.conn.recv, recv, 0, Len(recv))
      BY <1>1, <2>6, <3>2, <3>3, FromTrans
    <3>. QED
      BY <1>2, <3>1, <3>4 DEF Outcome
  <2>. QED
    BY <2>1, <2>7, <2>8
<1>. QED
  BY <1>3, <1>4, <1>5, <1>6, <1>7 DEF Parses

LEMMA ParsedOutcome ==
    ASSUME NEW w \in Worlds, FileOK(w.conn.file), NEW other \in Diaries \cup {0}
    PROVE  \E len \in Int : /\ HeadOf(w.conn.recv, len) /\ Parses(w, Parsed(w, mg_parse_http(w.conn.recv), other), len)
                            /\ Outcome(w, Parsed(w, mg_parse_http(w.conn.recv), other), len)
<1>. DEFINE v == Parsed(w, mg_parse_http(w.conn.recv), other)
<1>1. PICK len \in Int : HeadOf(w.conn.recv, len) /\ Parses(w, v, len)
  BY ParsedIs
<1>. HIDE DEF v
<1>2. Outcome(w, v, len)
  BY <1>1, ParsesOutcome
<1>. QED
  BY <1>1, <1>2 DEF v

-----------------------------------------------------------------------------
(***************************************************************************)
(* A connection holds units of the requests of its browser, and at most    *)
(* MaxSend units of files.                                                 *)
(***************************************************************************)
Own(c) == {u \in RequestUnit : u.req.id \in 1..Len(script[c]) /\ u.req = script[c][u.req.id]}

FilePiece(c, u) == script[c][u.req].uri = "file" /\ u.n > 1

Late(c, send) == \A j \in 1..Len(send) : FilePiece(c, send[j]) => j <= MaxSend

OwnStates(c) == {s \in States : s.w.conn.recv \in Seq(Own(c)) /\ s.in \in Seq(Own(c)) /\ Late(c, s.w.conn.send)}

LEMMA InOwn ==
    ASSUME NEW c, NEW w, NEW i, NEW o
    PROVE  St(w, i, o) \in OwnStates(c) <=>
               /\ St(w, i, o) \in States /\ w.conn.recv \in Seq(Own(c)) /\ i \in Seq(Own(c)) /\ Late(c, w.conn.send)
BY DEF OwnStates, St

LEMMA LateJoin ==
    ASSUME NEW c, NEW s \in Seq(AnswerUnit), NEW p \in Seq(AnswerUnit), Late(c, s),
           \A j \in 1..Len(p) : ~FilePiece(c, p[j])
    PROVE  Late(c, s \o p)
<1>. DEFINE t == s \o p
<1>1. /\ Len(t) = Len(s) + Len(p) /\ (\A j \in 1..Len(s) : t[j] = s[j]) /\ \A j \in 1..Len(p) : t[Len(s) + j] = p[j]
  BY Join
<1>2. Len(s) \in Nat /\ Len(p) \in Nat
  BY LenProperties
<1>. HIDE DEF t
<1>3. ASSUME NEW j \in 1..Len(t), FilePiece(c, t[j]) PROVE j <= MaxSend
  <2>1. CASE j <= Len(s)
    <3>1. j \in 1..Len(s)
      BY <1>1, <1>2, <2>1
    <3>. QED
      BY <1>1, <1>3, <3>1 DEF Late
  <2>2. CASE j > Len(s)
    <3>1. j - Len(s) \in 1..Len(p) /\ Len(s) + (j - Len(s)) = j
      BY <1>1, <1>2, <2>2
    <3>. QED
      BY <1>1, <1>3, <3>1
  <2>. QED
    BY <1>1, <1>2, <2>1, <2>2
<1>. QED
  BY <1>3 DEF Late, t

LEMMA LateMoves ==
    ASSUME NEW c, NEW j, NEW k, NEW part, j.send \in Seq(AnswerUnit), Late(c, j.send), Moves(j, k, part)
    PROVE  Late(c, k.send)
<1>. DEFINE s == j.send
            t == s \o part
<1>1. k.send = t /\ part \in Seq(AnswerUnit) /\ (Len(part) > 0 => Len(s) + Len(part) <= MaxSend)
  BY DEF Moves
<1>2. Len(s) \in Nat /\ Len(part) \in Nat /\ s \in Seq(AnswerUnit)
  BY <1>1, LenProperties
<1>. HIDE DEF s
<1>3. CASE Len(part) > 0
  <2>1. Len(t) <= MaxSend /\ Len(t) \in Nat
    BY <1>1, <1>2, <1>3, Join
  <2>. HIDE DEF t
  <2>. QED
    BY <1>1, <2>1, SizesAre DEF Late
<1>4. CASE Len(part) = 0
  <2>1. \A l \in 1..Len(part) : ~FilePiece(c, part[l])
    BY <1>4
  <2>2. Late(c, s)
    BY DEF s
  <2>. HIDE DEF t
  <2>3. Late(c, t)
    BY <1>1, <1>2, <2>1, <2>2, LateJoin DEF t
  <2>. QED
    BY <1>1, <2>3
<1>. QED
  BY <1>2, <1>3, <1>4

LEMMA LateOut ==
    ASSUME NEW c, NEW i, NEW k, NEW req, i.send \in Seq(AnswerUnit), Late(c, i.send), Out(i, k, req),
           req = script[c][req.id]
    PROVE  Late(c, k.send)
<1>1. CASE req.uri = "printcontent" /\ k.send = i.send
  BY <1>1
<1>2. CASE req.uri = "file" /\ \E p, part : FirstUnit(p, req) /\ Moves(Opened(i, p, req), k, part)
  <2>1. PICK p, part : FirstUnit(p, req) /\ Moves(Opened(i, p, req), k, part)
    BY <1>2
  <2>. DEFINE a == Opened(i, p, req)
              t == i.send \o p
  <2>2. p \in Seq(AnswerUnit) /\ \A j \in 1..Len(p) : ~FilePiece(c, p[j])
    BY <2>1 DEF FirstUnit, FilePiece
  <2>3. Late(c, t) /\ t \in Seq(AnswerUnit)
    BY <2>2, LateJoin, Join
  <2>4. a.send = t
    BY DEF Opened
  <2>. HIDE DEF a, t
  <2>5. a.send \in Seq(AnswerUnit) /\ Late(c, a.send) /\ Moves(a, k, part)
    BY <2>1, <2>3, <2>4 DEF a
  <2>. QED
    BY <2>5, LateMoves
<1>3. CASE req.uri \notin {"printcontent", "file"} /\ \E p : TwoUnits(p, req) /\ k.send = i.send \o p
  <2>1. PICK p : TwoUnits(p, req) /\ k.send = i.send \o p
    BY <1>3
  <2>2. p \in Seq(AnswerUnit) /\ \A j \in 1..Len(p) : ~FilePiece(c, p[j])
    <3>1. p \in Seq(AnswerUnit) /\ Len(p) = 2 /\ p[1].req = req.id /\ p[2].req = req.id
      BY <2>1 DEF TwoUnits
    <3>2. \A j \in 1..2 : j = 1 \/ j = 2
      OBVIOUS
    <3>. QED
      BY <1>3, <3>1, <3>2 DEF FilePiece
  <2>. QED
    BY <2>1, <2>2, LateJoin
<1>. QED
  BY <1>1, <1>2, <1>3 DEF Out

LEMMA LateCut ==
    ASSUME NEW c, NEW s \in Seq(AnswerUnit), Late(c, s), NEW m \in 0..Len(s)
    PROVE  Late(c, SubSeq(s, m + 1, Len(s)))
<1>. DEFINE t == SubSeq(s, m + 1, Len(s))
<1>1. Len(s) \in Nat /\ Len(t) = Len(s) - m /\ \A j \in 1..(Len(s) - m) : t[j] = s[m + j]
  BY Cut, LenProperties
<1>. HIDE DEF t
<1>2. \A j \in 1..Len(t) : FilePiece(c, t[j]) => j <= MaxSend
  <2>. SUFFICES ASSUME NEW j \in 1..Len(t), FilePiece(c, t[j]) PROVE j <= MaxSend
    OBVIOUS
  <2>1. m + j \in 1..Len(s) /\ t[j] = s[m + j] /\ m + j >= j
    BY <1>1
  <2>2. m + j <= MaxSend
    BY <2>1 DEF Late
  <2>. QED
    BY <1>1, <2>1, <2>2, SizesAre
<1>. QED
  BY <1>2 DEF Late, t

\* What comes from a buffer is what the buffer is made of.
LEMMA FromOwn ==
    ASSUME NEW S, NEW T, NEW t \in Seq(S), NEW s \in Seq(T), From(s, t, 0, Len(t))
    PROVE  s \in Seq(S)
<1>1. Len(s) \in Nat /\ Len(t) \in Nat /\ s = [q \in 1..Len(s) |-> s[q]]
  BY LenProperties
<1>2. ASSUME NEW q \in 1..Len(s) PROVE s[q] \in S
  <2>1. PICK p \in 1..Len(t) : s[q] = t[p]
    BY DEF From
  <2>. QED
    BY <2>1, ElementOfSeq
<1>3. s \in [1..Len(s) -> S]
  BY <1>1, <1>2
<1>. QED
  BY <1>1, <1>3, FunctionSeq

LEMMA OwnParse ==
    ASSUME NEW c, NEW w, NEW v, NEW len \in Int, w.conn.recv \in Seq(Own(c)), w \in Worlds, Late(c, w.conn.send),
           HeadOf(w.conn.recv, len), Outcome(w, v, len)
    PROVE  v.conn.recv \in Seq(Own(c)) /\ Late(c, v.conn.send)
<1>1. v \in Worlds /\ From(v.conn.recv, w.conn.recv, 0, Len(w.conn.recv))
  BY DEF Outcome
<1>2. v.conn.recv \in Seq(Own(c))
  <2>1. v.conn.recv \in Seq(RequestUnit)
    BY <1>1, WorldIs
  <2>. QED
    BY <1>1, <2>1, FromOwn
<1>3. CASE Waits(w, v, len)
  BY <1>2, <1>3 DEF Waits
<1>4. CASE Serve(w, v, len)
  <2>. DEFINE req == w.conn.recv[1].req
  <2>1. len > 0 /\ Out(w.conn, v.conn, req)
    BY <1>4 DEF Serve
  <2>2. 1 \in 1..Len(w.conn.recv)
    <3>1. len \in 1..Len(w.conn.recv) /\ Len(w.conn.recv) \in Nat
      BY <2>1, WorldIs DEF HeadOf
    <3>. QED
      BY <3>1
  <2>3. w.conn.recv[1] \in Own(c)
    BY <2>2, ElementOfSeq
  <2>4. req = script[c][req.id]
    BY <2>3 DEF Own
  <2>5. w.conn.send \in Seq(AnswerUnit)
    BY WorldIs
  <2>. HIDE DEF req
  <2>. QED
    BY <1>2, <2>1, <2>4, <2>5, LateOut
<1>. QED
  BY <1>3, <1>4 DEF Outcome

LEMMA OwnKept == ASSUME NEW c \in Conns PROVE Keeps(c, OwnStates(c))
<1>. DEFINE G == OwnStates(c)
<1>0. Keeps(c, States)
  BY StatesKept
<1>1. ASSUME NEW w, NEW i, NEW o, St(w, i, o) \in G
      PROVE  St(mg_http_transfer_file_data(w), i, o) \in G
  <2>. DEFINE v == mg_http_transfer_file_data(w)
  <2>1. /\ St(w, i, o) \in States /\ w.conn.recv \in Seq(Own(c)) /\ i \in Seq(Own(c)) /\ Late(c, w.conn.send)
        /\ w \in Worlds /\ FileOK(w.conn.file)
    BY <1>1, InOwn, InStates
  <2>2. St(v, i, o) \in States
    BY <1>0, <2>1 DEF Keeps, KeepsTransfer
  <2>3. /\ SameInput(w, v)
        /\ \/ ~w.conn.file.open /\ v = w
           \/ w.conn.file.open /\ \E part : Moves(w.conn, v.conn, part)
    BY <2>1, TransferIs
  <2>. HIDE DEF v
  <2>4. w.conn.send \in Seq(AnswerUnit)
    BY <2>1, WorldIs
  <2>5. Late(c, v.conn.send)
    BY <2>1, <2>3, <2>4, LateMoves
  <2>6. v.conn.recv \in Seq(Own(c))
    BY <2>1, <2>3 DEF SameInput
  <2>. QED
    BY <2>1, <2>2, <2>5, <2>6, InOwn DEF v
<1>2. ASSUME NEW w, NEW i, NEW o, St(w, i, o) \in G, NEW n \in 1..Len(i)
      PROVE  St(Received(w, SubSeq(i, 1, n), n), SubSeq(i, n + 1, Len(i)), o) \in G
  <2>. DEFINE a == SubSeq(i, 1, n)
              b == SubSeq(i, n + 1, Len(i))
              v == Received(w, a, n)
  <2>1. /\ St(w, i, o) \in States /\ w.conn.recv \in Seq(Own(c)) /\ i \in Seq(Own(c)) /\ Late(c, w.conn.send)
        /\ w \in Worlds /\ FileOK(w.conn.file)
    BY <1>2, InOwn, InStates
  <2>2. St(v, b, o) \in States
    BY <1>0, <2>1 DEF Keeps, KeepsReceive
  <2>3. n \in 0..Len(i) /\ n \in Nat
    BY <2>1, LenProperties
  <2>4. a \in Seq(Own(c)) /\ b \in Seq(Own(c))
    BY <2>1, <2>3, CutType
  <2>5. a \in Seq(RequestUnit)
    <3>1. Own(c) \subseteq RequestUnit
      BY DEF Own
    <3>. HIDE DEF a
    <3>. QED
      BY <2>4, <3>1, SeqMonotonic
  <2>. HIDE DEF a, b
  <2>6. v.conn.recv = w.conn.recv \o a /\ v.conn.send = w.conn.send
    BY <2>1, <2>3, <2>5, ReceivedIs DEF SameOutput
  <2>7. v.conn.recv \in Seq(Own(c))
    BY <2>1, <2>4, <2>6, ConcatProperties
  <2>. HIDE DEF v
  <2>8. St(v, b, o) \in G
    BY <2>1, <2>2, <2>4, <2>6, <2>7, InOwn
  <2>. QED
    BY <2>8 DEF v, a, b
<1>3. ASSUME NEW w, NEW i, NEW o, St(w, i, o) \in G, NEW other \in Diaries \cup {0}
      PROVE  St(Parsed(w, mg_parse_http(w.conn.recv), other), i, o) \in G
  <2>. DEFINE v == Parsed(w, mg_parse_http(w.conn.recv), other)
  <2>1. /\ St(w, i, o) \in States /\ w.conn.recv \in Seq(Own(c)) /\ i \in Seq(Own(c)) /\ Late(c, w.conn.send)
        /\ w \in Worlds /\ FileOK(w.conn.file)
    BY <1>3, InOwn, InStates
  <2>2. St(v, i, o) \in States
    BY <1>0, <2>1 DEF Keeps, KeepsParse
  <2>3. PICK len \in Int : HeadOf(w.conn.recv, len) /\ Outcome(w, v, len)
    BY <2>1, ParsedOutcome
  <2>. HIDE DEF v
  <2>4. v.conn.recv \in Seq(Own(c)) /\ Late(c, v.conn.send)
    BY <2>1, <2>3, OwnParse
  <2>. QED
    BY <2>1, <2>2, <2>4, InOwn DEF v
<1>4. ASSUME NEW w, NEW i, NEW o, St(w, i, o) \in G, NEW flag \in Flags, St(Flag(w, flag), i, o) \in States
      PROVE  St(Flag(w, flag), i, o) \in G
  <2>. DEFINE v == Flag(w, flag)
  <2>1. /\ w.conn.recv \in Seq(Own(c)) /\ i \in Seq(Own(c)) /\ Late(c, w.conn.send) /\ w \in Worlds
    BY <1>4, InOwn, InStates
  <2>2. v.conn.recv = w.conn.recv /\ v.conn.send = w.conn.send
    BY <2>1, FlagIs DEF SameInput
  <2>. HIDE DEF v
  <2>3. St(v, i, o) \in States
    BY <1>4 DEF v
  <2>4. St(v, i, o) \in G
    BY <2>1, <2>2, <2>3, InOwn
  <2>. QED
    BY <2>4 DEF v
<1>5. ASSUME NEW w, NEW i, NEW o, St(w, i, o) \in G, NEW m \in 0..Len(w.conn.send)
      PROVE  St(Written(w, m), i, Reads(c, o, SubSeq(w.conn.send, 1, m))) \in G
  <2>. DEFINE v == Written(w, m)
              p == Reads(c, o, SubSeq(w.conn.send, 1, m))
  <2>1. /\ St(w, i, o) \in States /\ w.conn.recv \in Seq(Own(c)) /\ i \in Seq(Own(c)) /\ Late(c, w.conn.send)
        /\ w \in Worlds
    BY <1>5, InOwn, InStates
  <2>2. St(v, i, p) \in States
    BY <1>0, <2>1 DEF Keeps, KeepsWrite
  <2>3. w.conn.send \in Seq(AnswerUnit)
    BY <2>1, WorldIs
  <2>4. v.conn.recv = w.conn.recv /\ v.conn.send = SubSeq(w.conn.send, m + 1, Len(w.conn.send))
    BY <2>1, WrittenIs DEF SameInput
  <2>5. Late(c, v.conn.send)
    BY <2>1, <2>3, <2>4, LateCut
  <2>. HIDE DEF v, p
  <2>6. St(v, i, p) \in G
    BY <2>1, <2>2, <2>4, <2>5, InOwn
  <2>. QED
    BY <2>6 DEF v, p
<1>6. "SEND_AND_CLOSE" \in Flags /\ "CLOSE_IMMEDIATELY" \in Flags
  BY DEF Flags
<1>7. KeepsEnd(c, G)
  <2>1. \A w, i, o : St(w, i, o) \in G => St(w, i, o) \in States
    BY InOwn
  <2>. HIDE DEF G
  <2>. QED
    BY <1>0, <1>4, <1>6, <2>1 DEF Keeps, KeepsEnd
<1>. HIDE DEF G
<1>8. Keeps(c, G)
  BY <1>1, <1>2, <1>3, <1>5, <1>7 DEF Keeps, KeepsTransfer, KeepsReceive, KeepsParse, KeepsWrite
<1>. QED
  BY <1>8 DEF G

LEMMA ServesIs ==
    ASSUME TypeInv, NEW c \in Conns, Serves(c), NEW G \in SUBSET States, Keeps(c, G),
           St(World(c), toServer[c], toClient[c]) \in G
    PROVE  \E w, i, o : /\ St(w, i, o) \in G /\ ConAfter(c) = w.conn /\ handled'[c] = w.handled
                        /\ toServer'[c] = i /\ toClient'[c] = o /\ aborted' = w.aborted
<1>1. HandleConn(c) /\ conns'[c] # NULL
  BY DEF Serves
<1>2. Len(toClient[c]) <= SockBuf
  BY DEF TypeInv, NetworkType
<1>3. PICK w, i, o : /\ St(w, i, o) \in G /\ SetWorld(c, w)
                     /\ toServer' = [toServer EXCEPT ![c] = i] /\ toClient' = [toClient EXCEPT ![c] = o]
  BY <1>1, <1>2, HandleConnIs
<1>4. /\ conns \in [Conns -> Connection \cup {NULL}] /\ handled \in [Conns -> Marks]
      /\ toServer \in [Conns -> Seq(RequestUnit)] /\ toClient \in [Conns -> Seq(AnswerUnit)]
  BY DEF TypeInv, ServerType, NetworkType
<1>5. conns'[c] = w.conn /\ handled'[c] = w.handled /\ aborted' = w.aborted
  BY <1>3, <1>4 DEF SetWorld
<1>6. toServer'[c] = i /\ toClient'[c] = o
  BY <1>3, <1>4
<1>. QED
  BY <1>1, <1>3, <1>5, <1>6 DEF ConAfter

LEMMA ConType ==
    ASSUME TypeInv, NEW c \in Conns
    PROVE  /\ Con(c) \in Connection /\ Con(c).recv \in Seq(RequestUnit) /\ Con(c).send \in Seq(AnswerUnit)
           /\ FileOK(Con(c).file) /\ Con(c).file \in File
           /\ toServer[c] \in Seq(RequestUnit) /\ toClient[c] \in Seq(AnswerUnit) /\ handled[c] \in Marks
           /\ got[c] \in Seq(AnswerUnit)
<1>1. Con(c) \in Connection /\ FileOK(Con(c).file)
  BY CreatedIs DEF TypeInv, ServerType, Con
<1>2. Con(c).recv \in Seq(RequestUnit) /\ Con(c).send \in Seq(AnswerUnit) /\ Con(c).file \in File
  BY <1>1 DEF Connection
<1>3. handled[c] \in Marks
  BY DEF TypeInv, ServerType
<1>. QED
  BY <1>1, <1>2, <1>3 DEF TypeInv, NetworkType, BrowserType

OwnAt(c) == Con(c).recv \in Seq(Own(c)) /\ toServer[c] \in Seq(Own(c)) /\ Late(c, Con(c).send)

OwnInv == \A c \in Conns : OwnAt(c)

LEMMA OwnSame ==
    ASSUME NEW c, SameScript(c)
    PROVE  Own(c)' = Own(c) /\ Con(c)' = ConAfter(c)
BY DEF Own, SameScript, Con, ConAfter

LEMMA LateSame ==
    ASSUME NEW c, SameScript(c), NEW s PROVE Late(c, s) <=> \A j \in 1..Len(s) : script'[c][s[j].req].uri = "file" /\ s[j].n > 1 => j <= MaxSend
BY DEF Late, FilePiece, SameScript

LEMMA OwnAfter ==
    ASSUME NEW c, SameScript(c), ConAfter(c).recv \in Seq(Own(c)), toServer'[c] \in Seq(Own(c)), Late(c, ConAfter(c).send)
    PROVE  OwnAt(c)'
<1>1. Own(c)' = Own(c) /\ Con(c)' = ConAfter(c)
  BY OwnSame
<1>. DEFINE k == ConAfter(c)
<1>2. \A j \in 1..Len(k.send) : script'[c][k.send[j].req].uri = "file" /\ k.send[j].n > 1 => j <= MaxSend
  <2>1. Late(c, k.send)
    OBVIOUS
  <2>. HIDE DEF k
  <2>. QED
    BY <2>1, LateSame
<1>3. Late(c, Con(c).send)'
  <2>1. k = Con(c)'
    BY <1>1
  <2>. HIDE DEF k
  <2>. QED
    BY <1>2, <2>1 DEF Late, FilePiece
<1>. QED
  BY <1>1, <1>3 DEF OwnAt

LEMMA EncodedOwn ==
    ASSUME BrowserType, NEW c \in Conns, NEW k \in 1..Len(script[c])
    PROVE  Encoded(script[c][k]) \in Seq(Own(c))
<1>. DEFINE req == script[c][k]
<1>1. req \in Requests /\ req.id = k
  BY ScriptIs
<1>2. UnitOf(req) \subseteq Own(c)
  BY <1>1 DEF UnitOf, Own
<1>. HIDE DEF req
<1>3. Encoded(req) \in Seq(UnitOf(req))
  BY <1>1, EncodedIs
<1>4. Encoded(req) \in Seq(Own(c))
  BY <1>2, <1>3, SeqMonotonic
<1>. QED
  BY <1>4 DEF req

LEMMA OwnStep == ASSUME TypeInv, NEW c \in Conns, OwnAt(c), StepOf(c) PROVE OwnAt(c)'
<1>0. Con(c).recv \in Seq(Own(c)) /\ toServer[c] \in Seq(Own(c)) /\ Late(c, Con(c).send)
  BY DEF OwnAt
<1>1. CASE Quiet(c)
  BY <1>0, <1>1, OwnAfter DEF Quiet, SameCon
<1>2. CASE Serves(c)
  <2>1. Con(c) = conns[c] /\ conns[c] # NULL
    BY <1>2 DEF Serves, Con
  <2>2. St(World(c), toServer[c], toClient[c]) \in States /\ World(c).conn = Con(c)
    BY <2>1, ConnIs
  <2>3. St(World(c), toServer[c], toClient[c]) \in OwnStates(c)
    BY <1>0, <2>2, InOwn
  <2>4. OwnStates(c) \in SUBSET States /\ Keeps(c, OwnStates(c))
    BY OwnKept DEF OwnStates
  <2>5. PICK w, i, o : St(w, i, o) \in OwnStates(c) /\ ConAfter(c) = w.conn /\ toServer'[c] = i
    BY <1>2, <2>3, <2>4, ServesIs
  <2>6. w.conn.recv \in Seq(Own(c)) /\ i \in Seq(Own(c)) /\ Late(c, w.conn.send)
    BY <2>5, InOwn
  <2>. QED
    BY <1>2, <2>5, <2>6, OwnAfter DEF Serves
<1>3. CASE Closes(c)
  <2>1. ConAfter(c) = mg_create_connection /\ toServer'[c] = <<>> /\ SameScript(c)
    BY <1>3 DEF Closes, ConAfter
  <2>2. ConAfter(c).recv = <<>> /\ ConAfter(c).send = <<>>
    BY <2>1 DEF mg_create_connection
  <2>3. <<>> \in Seq(Own(c)) /\ Late(c, <<>>)
    BY EmptySeq DEF Late
  <2>. QED
    BY <2>1, <2>2, <2>3, OwnAfter
<1>4. CASE Asks(c)
  <2>. DEFINE e == Encoded(script[c][sent[c] + 1])
  <2>1. sent[c] + 1 \in 1..Len(script[c])
    BY <1>4, ScriptIs DEF Asks, TypeInv
  <2>2. e \in Seq(Own(c))
    BY <2>1, EncodedOwn DEF TypeInv
  <2>3. toServer'[c] = toServer[c] \o e /\ ConAfter(c) = Con(c) /\ SameScript(c)
    BY <1>4 DEF Asks, SameCon
  <2>. HIDE DEF e
  <2>4. toServer'[c] \in Seq(Own(c))
    BY <1>0, <2>2, <2>3, ConcatProperties
  <2>. QED
    BY <1>0, <2>3, <2>4, OwnAfter
<1>5. CASE Gets(c)
  BY <1>0, <1>5, OwnAfter DEF Gets, SameCon
<1>6. CASE Leaves(c)
  <2>1. PICK out \in 0..Len(toServer[c]) : toServer'[c] = SubSeq(toServer[c], 1, out)
    BY <1>6 DEF Leaves
  <2>2. toServer'[c] \in Seq(Own(c))
    BY <1>0, <2>1, CutType
  <2>. QED
    BY <1>0, <1>6, <2>2, OwnAfter DEF Leaves, SameCon
<1>. QED
  BY <1>1, <1>2, <1>3, <1>4, <1>5, <1>6 DEF StepOf

LEMMA OwnInit == Init => OwnInv
<1>. SUFFICES ASSUME Init, NEW c \in Conns PROVE OwnAt(c)
  BY DEF OwnInv
<1>1. Con(c).recv = <<>> /\ Con(c).send = <<>> /\ toServer[c] = <<>>
  BY DEF Init, Con, mg_create_connection
<1>2. <<>> \in Seq(Own(c)) /\ Late(c, <<>>)
  BY EmptySeq DEF Late
<1>. QED
  BY <1>1, <1>2 DEF OwnAt

LEMMA OwnAlways == Spec => []OwnInv
<1>1. Init => OwnInv
  BY OwnInit
<1>2. TypeInv /\ TypeInv' /\ OwnInv /\ [Next]_vars => OwnInv'
  <2>. SUFFICES ASSUME TypeInv, TypeInv', OwnInv, [Next]_vars PROVE \A c \in Conns : OwnAt(c)'
    BY DEF OwnInv
  <2>. QED
    BY StepIs, OwnStep DEF OwnInv
<1>. QED
  BY <1>1, <1>2, TypeAlways, PTL DEF Spec

\* The pieces of a file in a send buffer are within its first MaxSend units,
\* so there are at most MaxSend of them: mg_http_transfer_file_data reads no
\* more than there is room for, whatever else is sent before or after it.
THEOREM FileCorrect == Spec => []FileBounded
<1>1. TypeInv /\ OwnInv => FileBounded
  <2>. SUFFICES ASSUME TypeInv, OwnInv, NEW c \in Conns, conns[c] # NULL
                PROVE  Cardinality({i \in DOMAIN conns[c].send :
                           script[c][conns[c].send[i].req].uri = "file" /\ conns[c].send[i].n > 1}) <= MaxSend
    BY DEF FileBounded
  <2>. DEFINE send == conns[c].send
              big == {i \in DOMAIN send : script[c][send[i].req].uri = "file" /\ send[i].n > 1}
  <2>1. send \in Seq(AnswerUnit) /\ Con(c) = conns[c]
    BY ConType DEF Con
  <2>2. Late(c, send)
    BY <2>1 DEF OwnInv, OwnAt
  <2>3. DOMAIN send = 1..Len(send) /\ Len(send) \in Nat
    BY <2>1, LenProperties
  <2>4. big \subseteq 1..MaxSend
    <3>. HIDE DEF send
    <3>. QED
      BY <2>2, <2>3 DEF Late, FilePiece
  <2>. HIDE DEF big
  <2>5. IsFiniteSet(1..MaxSend) /\ Cardinality(1..MaxSend) = MaxSend
    <3>1. 1 \in Int /\ MaxSend \in Int /\ MaxSend >= 1
      BY SizesAre
    <3>2. Cardinality(1..MaxSend) = MaxSend - 1 + 1
      BY <3>1, FS_Interval
    <3>. QED
      BY <3>1, <3>2, FS_Interval
  <2>6. Cardinality(big) <= Cardinality(1..MaxSend)
    BY <2>4, <2>5, FS_Subset
  <2>. QED
    BY <2>5, <2>6 DEF big
<1>. QED
  BY <1>1, TypeAlways, OwnAlways, PTL

-----------------------------------------------------------------------------
(***************************************************************************)
(* The stream of a connection to the server: what is buffered with what is *)
(* on its way.  It is what the browser has written since the request that  *)
(* was handled last, but for the chunks that have been collapsed.          *)
(***************************************************************************)
Enc(sc) == [i \in 1..Len(sc) |-> Encoded(sc[i])]

\* The stream of the first n requests of a script, and its length.
Wrote(sc, n) == Joined(Enc(sc), n)
Start(sc, n) == Len(Wrote(sc, n))

AllWait(sc) == \A i \in 1..Len(sc) : sc[i].waits

Scripted(sc) ==
    /\ sc \in Seq(Requests) /\ \A i \in 1..Len(sc) : sc[i].id = i
    /\ (\E i \in 1..Len(sc) : sc[i].enc = "chunked") => AllWait(sc)

LEMMA ScriptedIs == ASSUME BrowserType, NEW c \in Conns PROVE Scripted(script[c])
<1>1. script[c] \in Seq(Requests) /\ DOMAIN script[c] = 1..Len(script[c]) /\ \A i \in 1..Len(script[c]) : script[c][i].id = i
  BY ScriptIs
<1>2. script[c] \in Scripts[c]
  BY DEF BrowserType
<1>3. (\E i \in 1..Len(script[c]) : ~script[c][i].waits) => \A i \in 1..Len(script[c]) : script[c][i].enc # "chunked"
  BY <1>1, <1>2, ScriptsAssumption
<1>. QED
  BY <1>1, <1>3 DEF Scripted, AllWait

LEMMA ScriptedReq ==
    ASSUME NEW sc, Scripted(sc), NEW k \in 1..Len(sc)
    PROVE  /\ Len(sc) \in Nat /\ sc[k] \in Requests /\ sc[k].id = k /\ sc[k].lines \in Nat /\ sc[k].lines > 0
           /\ Encoded(sc[k]) \in Seq(RequestUnit) /\ Len(Encoded(sc[k])) \in Nat
           /\ Len(Encoded(sc[k])) > sc[k].lines
<1>1. sc[k] \in Requests /\ sc[k].id = k /\ Len(sc) \in Nat
  BY ElementOfSeq, LenProperties DEF Scripted
<1>2. sc[k].lines \in Nat /\ sc[k].lines > 0
  BY <1>1, RequestIs
<1>3. Encoded(sc[k]) \in Seq(RequestUnit)
  BY <1>1, EncodedType
<1>4. Len(Encoded(sc[k])) = sc[k].lines + 1 + Len(EncodedBody(sc[k])) /\ Len(EncodedBody(sc[k])) \in Nat
  BY <1>1, EncodedIs
<1>. QED
  BY <1>1, <1>2, <1>3, <1>4

\* The last request of what was written.
LEMMA WroteIs ==
    ASSUME NEW sc, Scripted(sc), NEW n \in 0..Len(sc)
    PROVE  /\ Wrote(sc, n) \in Seq(RequestUnit) /\ Start(sc, n) \in Nat /\ Start(sc, 0) = 0
           /\ n > 0 => /\ Wrote(sc, n) = Wrote(sc, n - 1) \o Encoded(sc[n])
                       /\ Start(sc, n) = Start(sc, n - 1) + Len(Encoded(sc[n]))
<1>. DEFINE e == Enc(sc)
            N == Len(sc)
<1>1. N \in Nat /\ e \in [1..N -> Seq(RequestUnit)] /\ \A i \in 1..N : e[i] = Encoded(sc[i])
  <2>1. \A i \in 1..N : Encoded(sc[i]) \in Seq(RequestUnit)
    BY ScriptedReq
  <2>. QED
    BY <2>1, LenProperties DEF Enc, Scripted
<1>. HIDE DEF e, N
<1>2. n \in 0..N /\ n \in Nat
  BY <1>1 DEF N
<1>3. /\ Joined(e, 0) = <<>> /\ (\A m \in 0..N : Joined(e, m) \in Seq(RequestUnit))
      /\ \A m \in 1..N : Joined(e, m) = Joined(e, m - 1) \o e[m]
  BY <1>1, JoinedIs
<1>4. Wrote(sc, n) \in Seq(RequestUnit) /\ Start(sc, n) \in Nat /\ Start(sc, 0) = 0
  <2>1. Joined(e, n) \in Seq(RequestUnit) /\ Len(Joined(e, n)) \in Nat
    BY <1>2, <1>3, LenProperties
  <2>2. Len(Joined(e, 0)) = 0
    BY <1>3, EmptySeq
  <2>. QED
    BY <2>1, <2>2 DEF Wrote, Start, e
<1>5. CASE n > 0
  <2>1. n \in 1..N /\ n - 1 \in 0..N
    BY <1>1, <1>2, <1>5
  <2>. DEFINE a == Joined(e, n - 1)
              b == e[n]
  <2>2. a \in Seq(RequestUnit) /\ b \in Seq(RequestUnit) /\ Joined(e, n) = a \o b /\ b = Encoded(sc[n])
    BY <1>1, <1>3, <2>1
  <2>3. Wrote(sc, n) = Joined(e, n) /\ Wrote(sc, n - 1) = a
    BY DEF Wrote, e
  <2>. HIDE DEF a, b
  <2>4. Len(a \o b) = Len(a) + Len(b)
    BY <2>2, ConcatProperties
  <2>5. Wrote(sc, n) = Wrote(sc, n - 1) \o Encoded(sc[n]) /\ Start(sc, n) = Start(sc, n - 1) + Len(Encoded(sc[n]))
    BY <2>2, <2>3, <2>4 DEF Start
  <2>. QED
    BY <1>4, <2>5
<1>6. n > 0 \/ ~(n > 0)
  OBVIOUS
<1>. QED
  BY <1>4, <1>5

LEMMA WroteGrows ==
    ASSUME NEW sc, Scripted(sc), NEW m \in 0..Len(sc), NEW n \in m..Len(sc)
    PROVE  /\ Start(sc, m) <= Start(sc, n)
           /\ \A i \in 1..Start(sc, m) : Wrote(sc, n)[i] = Wrote(sc, m)[i]
<1>. DEFINE e == Enc(sc)
            N == Len(sc)
<1>1. N \in Nat /\ e \in [1..N -> Seq(RequestUnit)]
  <2>1. \A i \in 1..N : Encoded(sc[i]) \in Seq(RequestUnit)
    BY ScriptedReq
  <2>. QED
    BY <2>1, LenProperties DEF Enc, Scripted
<1>. HIDE DEF e, N
<1>2. m \in 0..N /\ n \in m..N
  BY DEF N
<1>3. Len(Joined(e, m)) <= Len(Joined(e, n)) /\ \A i \in 1..Len(Joined(e, m)) : Joined(e, n)[i] = Joined(e, m)[i]
  BY <1>1, <1>2, JoinedGrows
<1>. QED
  BY <1>3 DEF Start, Wrote, e

\* Where request k is in what was written.
LEMMA WroteAt ==
    ASSUME NEW sc, Scripted(sc), NEW k \in 1..Len(sc), NEW n \in k..Len(sc), NEW q \in 1..Len(Encoded(sc[k]))
    PROVE  /\ Start(sc, k - 1) + q \in 1..Start(sc, k) /\ Start(sc, k) <= Start(sc, n)
           /\ Wrote(sc, n)[Start(sc, k - 1) + q] = Encoded(sc[k])[q]
<1>1. Len(sc) \in Nat /\ k \in 0..Len(sc) /\ k - 1 \in 0..Len(sc) /\ k > 0 /\ k \in Nat
  BY ScriptedReq
<1>2. Encoded(sc[k]) \in Seq(RequestUnit) /\ Len(Encoded(sc[k])) \in Nat
  BY ScriptedReq
<1>. DEFINE a == Wrote(sc, k - 1)
            b == Encoded(sc[k])
            p == Start(sc, k - 1) + q
<1>3. /\ a \in Seq(RequestUnit) /\ Start(sc, k - 1) \in Nat
      /\ Wrote(sc, k) = a \o b /\ Start(sc, k) = Start(sc, k - 1) + Len(b) /\ Start(sc, k) \in Nat
  BY <1>1, WroteIs
<1>4. Len(a) = Start(sc, k - 1)
  BY DEF Start
<1>5. p \in 1..Start(sc, k)
  <2>. HIDE DEF b
  <2>1. q \in 1..Len(b) /\ Len(b) \in Nat
    BY <1>2 DEF b
  <2>. QED
    BY <1>3, <2>1
<1>6. (a \o b)[Len(a) + q] = b[q]
  <2>. a \in Seq(RequestUnit) /\ b \in Seq(RequestUnit) /\ q \in 1..Len(b)
    BY <1>2, <1>3
  <2>. HIDE DEF a, b
  <2>. QED
    BY Join
<1>7. Start(sc, k) <= Start(sc, n) /\ \A i \in 1..Start(sc, k) : Wrote(sc, n)[i] = Wrote(sc, k)[i]
  BY <1>1, WroteGrows
<1>8. Wrote(sc, n)[p] = b[q]
  BY <1>3, <1>4, <1>5, <1>6, <1>7
<1>. QED
  BY <1>5, <1>7, <1>8

-----------------------------------------------------------------------------
\* s is what was written of the first n requests after the first k.
Straight(sc, k, n, s) ==
    /\ Len(s) <= Start(sc, n) - Start(sc, k)
    /\ \A q \in 1..Len(s) : s[q] = Wrote(sc, n)[Start(sc, k) + q]

\* The head of req, as far as there is one.
Headed(req, s) ==
    \A q \in 1..Len(s) : q <= req.lines + 1 =>
        s[q].req = req /\ s[q].kind = IF q <= req.lines THEN HeadKind(req) ELSE "end"

\* s is what was written of req, with some chunks collapsed: the last is at the end.
Chunky(req, s) ==
    /\ Headed(req, s)
    /\ \A q \in 1..Len(s) : LastSize(s[q]) /\ q > req.lines + 1 => Len(s) - q <= 1

LEMMA StraightEmpty ==
    ASSUME NEW sc, Scripted(sc), NEW n \in 0..Len(sc), NEW s \in Seq(RequestUnit), Straight(sc, n, n, s)
    PROVE  s = <<>>
<1>1. Start(sc, n) \in Nat
  BY WroteIs
<1>2. Len(s) \in Nat
  BY LenProperties
<1>3. Len(s) = 0
  BY <1>1, <1>2 DEF Straight
<1>. QED
  BY <1>3, EmptySeq

LEMMA EncodedHeaded ==
    ASSUME NEW req \in Requests
    PROVE  Headed(req, Encoded(req)) /\ Chunky(req, Encoded(req)) /\ req.lines + 1 <= Len(Encoded(req))
<1>. DEFINE s == Encoded(req)
            b == EncodedBody(req)
<1>1. /\ s \in Seq(UnitOf(req)) /\ Len(s) = req.lines + 1 + Len(b) /\ Len(b) \in Nat
      /\ (\A i \in 1..req.lines : s[i].kind = HeadKind(req)) /\ s[req.lines + 1].kind = "end"
      /\ \A i \in 1..Len(b) : s[req.lines + 1 + i] = b[i]
  BY EncodedIs
<1>2. req.lines \in Nat
  BY RequestIs
<1>3. \A i \in DOMAIN b : LastSize(b[i]) => i + 1 = Len(b)
  BY EncodedBodyIs
<1>4. DOMAIN b = 1..Len(b)
  <2>1. b \in Seq(BodyUnit(req))
    BY EncodedBodyIs
  <2>. HIDE DEF b
  <2>. QED
    BY <2>1, LenProperties
<1>. HIDE DEF s, b
<1>5. \A q \in 1..Len(s) : s[q].req = req
  <2>. SUFFICES ASSUME NEW q \in 1..Len(s) PROVE s[q].req = req
    OBVIOUS
  <2>1. s[q] \in UnitOf(req)
    <3>. s \in Seq(UnitOf(req)) /\ q \in 1..Len(s)
      BY <1>1
    <3>. QED
      BY ElementOfSeq
  <2>. QED
    BY <2>1 DEF UnitOf
<1>6. Headed(req, s)
  <2>. SUFFICES ASSUME NEW q \in 1..Len(s), q <= req.lines + 1
                PROVE  s[q].req = req /\ s[q].kind = IF q <= req.lines THEN HeadKind(req) ELSE "end"
    BY DEF Headed
  <2>1. CASE q <= req.lines
    <3>1. q \in 1..req.lines
      BY <1>1, <1>2, <2>1
    <3>. QED
      BY <1>1, <1>5, <2>1, <3>1
  <2>2. CASE ~(q <= req.lines)
    <3>1. q = req.lines + 1
      BY <1>1, <1>2, <2>2
    <3>2. s[q].req = req
      BY <1>5
    <3>3. s[q].kind = "end"
      BY <1>1, <3>1
    <3>. QED
      BY <2>2, <3>2, <3>3
  <2>. QED
    BY <2>1, <2>2
<1>7. ASSUME NEW q \in 1..Len(s), LastSize(s[q]), q > req.lines + 1 PROVE Len(s) - q <= 1
  <2>. DEFINE i == q - (req.lines + 1)
  <2>1. i \in 1..Len(b) /\ req.lines + 1 + i = q
    <3>1. q \in Int /\ q <= Len(s) /\ q > req.lines + 1 /\ Len(s) = req.lines + 1 + Len(b) /\ Len(b) \in Nat
      BY <1>1, <1>2, <1>7
    <3>. QED
      BY <1>2, <3>1
  <2>2. s[q] = b[i]
    BY <1>1, <2>1
  <2>3. i + 1 = Len(b)
    BY <1>3, <1>4, <1>7, <2>1, <2>2
  <2>. QED
    BY <1>1, <1>2, <2>1, <2>3
<1>. QED
  BY <1>1, <1>2, <1>6, <1>7 DEF Chunky, s

LEMMA StraightHeaded ==
    ASSUME NEW sc, Scripted(sc), NEW n \in 1..Len(sc), NEW k \in 0..(n - 1), NEW s, Len(s) \in Nat, Straight(sc, k, n, s)
    PROVE  Headed(sc[k + 1], s)
<1>. DEFINE req == sc[k + 1]
<1>1. k + 1 \in 1..Len(sc) /\ n \in (k + 1)..Len(sc) /\ (k + 1) - 1 = k /\ Len(sc) \in Nat
  BY ScriptedReq
<1>2. req \in Requests /\ req.lines \in Nat /\ req.lines + 1 <= Len(Encoded(req)) /\ Len(Encoded(req)) \in Nat
  BY <1>1, ScriptedReq
<1>3. Headed(req, Encoded(req))
  BY <1>2, EncodedHeaded
<1>4. ASSUME NEW q \in 1..Len(Encoded(req)) PROVE Wrote(sc, n)[Start(sc, k) + q] = Encoded(req)[q]
  BY <1>1, WroteAt
<1>. HIDE DEF req
<1>5. ASSUME NEW q \in 1..Len(s), q <= req.lines + 1
      PROVE  s[q].req = req /\ s[q].kind = IF q <= req.lines THEN HeadKind(req) ELSE "end"
  <2>1. q \in 1..Len(Encoded(req))
    BY <1>2, <1>5
  <2>2. s[q] = Encoded(req)[q]
    BY <1>4, <2>1 DEF Straight
  <2>. QED
    BY <1>3, <1>5, <2>1, <2>2 DEF Headed
<1>. QED
  BY <1>5 DEF Headed, req

\* The head the parser finds is that of the request.
LEMMA HeadFound ==
    ASSUME NEW req, req.lines \in Nat, req.lines > 0, NEW recv \in Seq(RequestUnit), Headed(req, recv),
           NEW len \in Int, len > 0, HeadOf(recv, len)
    PROVE  len = req.lines + 1 /\ len <= Len(recv) /\ recv[1].req = req /\ req.uri # "malformed"
<1>1. len \in 1..Len(recv) /\ recv[len].kind = "end" /\ \A i \in 1..len : i < len => ~Ends(recv[i])
  BY DEF HeadOf
<1>2. Len(recv) \in Nat /\ 1 \in 1..Len(recv)
  BY <1>1, LenProperties
<1>3. recv[1].req = req /\ recv[1].kind = HeadKind(req)
  BY <1>2 DEF Headed
<1>4. HeadKind(req) = "line" /\ req.uri # "malformed"
  <2>1. CASE HeadKind(req) = "bad"
    <3>1. len # 1
      BY <1>1, <1>3, <2>1
    <3>2. 1 \in 1..len /\ 1 < len
      BY <1>1, <3>1
    <3>. QED
      BY <1>1, <1>3, <2>1, <3>2 DEF Ends
  <2>. QED
    BY <2>1 DEF HeadKind
<1>5. ~(len <= req.lines)
  <2>. SUFFICES ASSUME len <= req.lines PROVE FALSE
    OBVIOUS
  <2>1. recv[len].kind = "line"
    BY <1>1, <1>4 DEF Headed
  <2>. QED
    BY <1>1, <2>1
<1>6. ~(len > req.lines + 1)
  <2>. SUFFICES ASSUME len > req.lines + 1 PROVE FALSE
    OBVIOUS
  <2>. DEFINE q == req.lines + 1
  <2>1. q \in 1..Len(recv) /\ q \in 1..len /\ q < len /\ ~(q <= req.lines)
    BY <1>1, <1>2
  <2>2. recv[q].kind = "end"
    BY <2>1 DEF Headed
  <2>. QED
    BY <1>1, <2>1, <2>2 DEF Ends
<1>. QED
  BY <1>1, <1>2, <1>3, <1>4, <1>5, <1>6

LEMMA HeadedPart ==
    ASSUME NEW req, NEW s \in Seq(RequestUnit), NEW t \in Seq(RequestUnit), Headed(req, s \o t)
    PROVE  Headed(req, s)
<1>. DEFINE r == s \o t
<1>1. Len(r) = Len(s) + Len(t) /\ \A q \in 1..Len(s) : r[q] = s[q]
  BY Join
<1>2. Len(s) \in Nat /\ Len(t) \in Nat
  BY LenProperties
<1>3. Headed(req, r)
  OBVIOUS
<1>. HIDE DEF r
<1>4. \A q \in 1..Len(s) : q \in 1..Len(r)
  BY <1>1, <1>2
<1>. QED
  BY <1>1, <1>3, <1>4 DEF Headed

HasHead(req, len, recv) == req.lines \in Nat /\ len = req.lines + 1 /\ len \in 0..Len(recv)

\* Collapsing chunks brings nothing nearer to the head.
LEMMA ChunkyCollapse ==
    ASSUME NEW req, NEW recv \in Seq(RequestUnit), NEW in \in Seq(RequestUnit),
           NEW buf \in Seq(RequestUnit), NEW len, HasHead(req, len, recv),
           From(buf, After(recv, len), 0, Len(After(recv, len))), Chunky(req, recv \o in)
    PROVE  Chunky(req, (SubSeq(recv, 1, len) \o buf) \o in)
<1>. DEFINE s == recv \o in
            a == SubSeq(recv, 1, len) \o buf
            t == a \o in
            rest == After(recv, len)
            A == Len(recv)
            B == Len(buf)
            I == Len(in)
<1>1. A \in Nat /\ B \in Nat /\ I \in Nat
  BY LenProperties
<1>2. Len(s) = A + I /\ (\A q \in 1..A : s[q] = recv[q]) /\ \A q \in 1..I : s[A + q] = in[q]
  BY Join
<1>0. len \in 0..Len(recv)
  BY DEF HasHead
<1>3. Len(rest) = A - len /\ \A q \in 1..(A - len) : rest[q] = recv[len + q]
  BY <1>0, Cut DEF After
<1>4. a \in Seq(RequestUnit) /\ Len(a) = len + B /\ (\A q \in 1..len : a[q] = recv[q]) /\ \A q \in 1..B : a[len + q] = buf[q]
  <2>. DEFINE h == SubSeq(recv, 1, len)
  <2>1. h \in Seq(RequestUnit) /\ Len(h) = len /\ \A q \in 1..len : h[q] = recv[q]
    BY <1>0, Cut
  <2>. HIDE DEF h
  <2>2. /\ h \o buf \in Seq(RequestUnit) /\ Len(h \o buf) = Len(h) + Len(buf)
        /\ (\A q \in 1..Len(h) : (h \o buf)[q] = h[q]) /\ \A q \in 1..Len(buf) : (h \o buf)[Len(h) + q] = buf[q]
    <3>. h \in Seq(RequestUnit)
      BY <2>1
    <3>. QED
      BY Join
  <2>. QED
    BY <2>1, <2>2 DEF h
<1>. HIDE DEF a
<1>5. Len(t) = len + B + I /\ (\A q \in 1..len + B : t[q] = a[q]) /\ \A q \in 1..I : t[len + B + q] = in[q]
  <2>1. Len(t) = Len(a) + Len(in) /\ (\A q \in 1..Len(a) : t[q] = a[q]) /\ \A q \in 1..Len(in) : t[Len(a) + q] = in[q]
    <3>. a \in Seq(RequestUnit)
      BY <1>4
    <3>. QED
      BY Join
  <2>. QED
    BY <1>4, <2>1
<1>6. \A q \in 1..B : \E p \in 1..(A - len) : buf[q] = rest[p] /\ B - q <= (A - len) - p
  <2>1. \A q \in 1..B : \E p \in 1..Len(rest) : buf[q] = rest[p] /\ B - q <= Len(rest) - p
    BY DEF From
  <2>. QED
    BY <1>3, <2>1
<1>7. len \in Nat /\ len <= A /\ len > 0
  BY <1>1 DEF HasHead
<1>8. Headed(req, s) /\ \A q \in 1..Len(s) : LastSize(s[q]) /\ q > len => Len(s) - q <= 1
  BY DEF Chunky, HasHead
<1>. HIDE DEF s, t, rest, A, B, I
<1>9. Headed(req, t)
  <2>. SUFFICES ASSUME NEW q \in 1..Len(t), q <= req.lines + 1
                PROVE  t[q].req = req /\ t[q].kind = IF q <= req.lines THEN HeadKind(req) ELSE "end"
    BY DEF Headed
  <2>0. q <= len /\ q \in Nat /\ q >= 1
    <3>1. q <= len
      BY DEF HasHead
    <3>2. Len(t) \in Nat
      BY <1>1, <1>5, <1>7
    <3>. QED
      BY <3>1, <3>2
  <2>1. q \in 1..len /\ q \in 1..len + B /\ q \in 1..A /\ q \in 1..Len(s)
    BY <2>0, <1>1, <1>2, <1>7
  <2>2. t[q] = s[q]
    BY <1>2, <1>4, <1>5, <2>1
  <2>. QED
    BY <1>8, <2>1, <2>2 DEF Headed
<1>10. ASSUME NEW q \in 1..Len(t), LastSize(t[q]), q > len PROVE Len(t) - q <= 1
  <2>1. CASE q <= len + B
    <3>. DEFINE j == q - len
    <3>1. j \in 1..B /\ len + j = q /\ q \in 1..len + B
      BY <1>1, <1>5, <1>7, <1>10, <2>1
    <3>2. t[q] = buf[j]
      BY <1>4, <1>5, <3>1
    <3>3. PICK p \in 1..(A - len) : buf[j] = rest[p] /\ B - j <= (A - len) - p
      BY <1>6, <3>1
    <3>4. len + p \in 1..A /\ len + p \in 1..Len(s) /\ len + p > len
      BY <1>1, <1>2, <1>7
    <3>5. t[q] = s[len + p]
      BY <1>2, <1>3, <3>2, <3>3, <3>4
    <3>6. Len(s) - (len + p) <= 1
      BY <1>8, <1>10, <3>4, <3>5
    <3>7. Len(s) = A + I /\ Len(t) = len + B + I /\ B - j <= (A - len) - p /\ len + j = q /\ p \in Int /\ j \in Int
      BY <1>2, <1>5, <3>1, <3>3
    <3>. HIDE DEF j
    <3>. QED
      BY <1>1, <1>7, <3>6, <3>7
  <2>2. CASE q > len + B
    <3>. DEFINE j == q - (len + B)
    <3>1. j \in 1..I /\ len + B + j = q
      <4>1. q <= len + B + I /\ q \in Int
        BY <1>5
      <4>. QED
        BY <1>1, <1>7, <2>2, <4>1
    <3>2. t[q] = in[j]
      BY <1>5, <3>1
    <3>. HIDE DEF j
    <3>3. s[A + j] = in[j] /\ A + j \in 1..Len(s) /\ A + j > len
      <4>1. A + j \in 1..(A + I) /\ A + j > len
        BY <1>1, <1>7, <3>1
      <4>. QED
        BY <1>2, <3>1, <4>1
    <3>4. Len(s) - (A + j) <= 1
      BY <1>8, <1>10, <3>2, <3>3
    <3>5. Len(s) = A + I /\ Len(t) = len + B + I /\ j \in Int
      BY <1>2, <1>5, <3>1
    <3>. QED
      BY <1>1, <1>7, <3>1, <3>4, <3>5
  <2>. QED
    BY <1>1, <1>5, <1>7, <2>1, <2>2
<1>11. Chunky(req, t)
  BY <1>9, <1>10 DEF Chunky, HasHead
<1>. QED
  BY <1>11 DEF t, a

\* Once the last chunk has been met, there is nothing behind it.
LEMMA ChunkyWhole ==
    ASSUME NEW req, NEW recv \in Seq(RequestUnit), NEW in \in Seq(RequestUnit),
           NEW len, HasHead(req, len, recv), Chunky(req, recv \o in),
           NEW p, p \in 1..(Len(After(recv, len)) - 1), LastSize(After(recv, len)[p])
    PROVE  in = <<>>
<1>. DEFINE s == recv \o in
            rest == After(recv, len)
            A == Len(recv)
            I == Len(in)
<1>1. A \in Nat /\ I \in Nat
  BY LenProperties
<1>2. Len(s) = A + I /\ (\A q \in 1..A : s[q] = recv[q])
  BY Join
<1>0. len \in 0..Len(recv) /\ len \in Nat
  BY DEF HasHead
<1>3. Len(rest) = A - len /\ \A q \in 1..(A - len) : rest[q] = recv[len + q]
  BY <1>0, Cut DEF After
<1>4. p \in Int /\ 1 <= p /\ p <= (A - len) - 1
  <2>1. p \in 1..(Len(rest) - 1)
    OBVIOUS
  <2>. HIDE DEF rest, A
  <2>. QED
    BY <1>0, <1>1, <1>3, <2>1
<1>5. \A q \in 1..Len(s) : LastSize(s[q]) /\ q > len => Len(s) - q <= 1
  BY DEF Chunky, HasHead
<1>6. LastSize(rest[p])
  OBVIOUS
<1>. HIDE DEF s, rest, A, I
<1>7. len + p \in 1..A /\ len + p \in 1..Len(s) /\ len + p > len /\ p \in 1..(A - len)
  BY <1>0, <1>1, <1>2, <1>4
<1>8. LastSize(s[len + p])
  BY <1>2, <1>3, <1>6, <1>7
<1>9. Len(s) - (len + p) <= 1
  BY <1>5, <1>7, <1>8
<1>10. I = 0
  <2>1. A + I - (len + p) <= 1
    BY <1>0, <1>1, <1>2, <1>4, <1>9
  <2>. QED
    BY <1>0, <1>1, <1>4, <2>1
<1>. QED
  BY <1>10, EmptySeq DEF I

-----------------------------------------------------------------------------
\* What is on its way when k requests of n have been handled; f is the end of
\* the browser.
Streams(sc, n, f, k, s) ==
    IF k < n /\ sc[k + 1].enc = "chunked" THEN Chunky(sc[k + 1], s)
    ELSE Straight(sc, k, n, s) /\ (f \in {"new", "open"} => Len(s) = Start(sc, n) - Start(sc, k))

\* What has been counted has been received, but for the chunks collapsed.
Metered(sc, n, k, conn) == conn.rcvd <= Len(conn.recv) \/ (k < n /\ sc[k + 1].enc = "chunked")

LEMMA StreamsHeaded ==
    ASSUME NEW sc, Scripted(sc), NEW n \in 0..Len(sc), NEW k \in 0..n, NEW f, NEW s \in Seq(RequestUnit),
           Streams(sc, n, f, k, s), k < n
    PROVE  Headed(sc[k + 1], s)
<1>1. CASE sc[k + 1].enc = "chunked"
  BY <1>1 DEF Streams, Chunky
<1>2. CASE sc[k + 1].enc # "chunked"
  <2>1. Len(sc) \in Nat /\ n \in 1..Len(sc) /\ k \in 0..(n - 1) /\ Len(s) \in Nat
    BY LenProperties DEF Scripted
  <2>2. Straight(sc, k, n, s)
    BY <1>2 DEF Streams
  <2>. QED
    BY <2>1, <2>2, StraightHeaded
<1>. QED
  BY <1>1, <1>2

LEMMA StreamsMore ==
    ASSUME NEW sc, Scripted(sc), NEW n \in 0..Len(sc), NEW k \in 0..n, NEW f, NEW s \in Seq(RequestUnit),
           Streams(sc, n, f, k, s), s # <<>>
    PROVE  k < n
<1>. SUFFICES ASSUME ~(k < n) PROVE FALSE
  OBVIOUS
<1>1. k = n /\ Straight(sc, k, n, s)
  <2>1. n \in Nat
    BY LenProperties DEF Scripted
  <2>. QED
    BY <2>1 DEF Streams
<1>2. s = <<>>
  BY <1>1, StraightEmpty
<1>. QED
  BY <1>2

LEMMA StreamsNone ==
    ASSUME NEW sc, Scripted(sc), NEW n \in 0..Len(sc), NEW f
    PROVE  Streams(sc, n, f, n, <<>>)
<1>1. Start(sc, n) \in Nat /\ n \in Nat /\ Len(<<>>) = 0
  BY WroteIs, EmptySeq, LenProperties DEF Scripted
<1>2. Straight(sc, n, n, <<>>)
  BY <1>1 DEF Straight
<1>. QED
  BY <1>1, <1>2 DEF Streams

\* A request is taken off a stream.
LEMMA StraightTail ==
    ASSUME NEW sc, Scripted(sc), NEW n \in 1..Len(sc), NEW k \in 0..(n - 1), NEW s \in Seq(RequestUnit),
           Straight(sc, k, n, s), NEW L, L = Len(Encoded(sc[k + 1])), L <= Len(s)
    PROVE  /\ Straight(sc, k + 1, n, SubSeq(s, L + 1, Len(s))) /\ L \in 0..Len(s)
           /\ Len(s) = Start(sc, n) - Start(sc, k) => Len(SubSeq(s, L + 1, Len(s))) = Start(sc, n) - Start(sc, k + 1)
<1>. DEFINE t == SubSeq(s, L + 1, Len(s))
            X == Start(sc, k)
            Y == Start(sc, k + 1)
            Z == Start(sc, n)
<1>1. Len(sc) \in Nat /\ Len(s) \in Nat /\ k + 1 \in 1..Len(sc) /\ k + 1 \in 0..Len(sc) /\ k \in 0..Len(sc)
      /\ n \in 0..Len(sc) /\ k + 1 > 0 /\ (k + 1) - 1 = k
  BY LenProperties DEF Scripted
<1>2. L \in Nat
  BY <1>1, ScriptedReq
<1>3. X \in Nat /\ Y \in Nat /\ Z \in Nat /\ Y = X + L
  BY <1>1, WroteIs
<1>4. L \in 0..Len(s)
  BY <1>1, <1>2
<1>5. Len(t) = Len(s) - L /\ \A q \in 1..(Len(s) - L) : t[q] = s[L + q]
  BY <1>4, Cut
<1>6. Len(s) <= Z - X /\ \A q \in 1..Len(s) : s[q] = Wrote(sc, n)[X + q]
  BY DEF Straight
<1>. HIDE DEF t, X, Y, Z
<1>7. Len(t) <= Z - Y
  BY <1>1, <1>2, <1>3, <1>5, <1>6
<1>8. ASSUME NEW q \in 1..Len(t) PROVE t[q] = Wrote(sc, n)[Y + q]
  <2>1. L + q \in 1..Len(s) /\ q \in 1..(Len(s) - L) /\ X + (L + q) = Y + q
    BY <1>1, <1>2, <1>3, <1>5
  <2>. QED
    BY <1>5, <1>6, <2>1
<1>9. Len(s) = Z - X => Len(t) = Z - Y
  BY <1>1, <1>2, <1>3, <1>5
<1>. QED
  BY <1>4, <1>7, <1>8, <1>9 DEF Straight, t, X, Y, Z

LEMMA StreamsCut ==
    ASSUME NEW sc, NEW n, NEW k, NEW f, NEW g, g \notin {"new", "open"}, NEW s \in Seq(RequestUnit), NEW m \in 0..Len(s),
           Streams(sc, n, f, k, s), Start(sc, n) \in Nat, Start(sc, k) \in Nat
    PROVE  Streams(sc, n, g, k, SubSeq(s, 1, m))
<1>. DEFINE t == SubSeq(s, 1, m)
<1>1. Len(s) \in Nat /\ m \in Nat /\ m <= Len(s)
  BY LenProperties
<1>2. Len(t) = m /\ \A q \in 1..m : t[q] = s[q]
  BY Cut
<1>. HIDE DEF t
<1>3. \A q \in 1..Len(t) : q \in 1..Len(s) /\ t[q] = s[q] /\ Len(t) - q <= Len(s) - q
  BY <1>1, <1>2
<1>4. Headed(sc[k + 1], s) => Headed(sc[k + 1], t)
  BY <1>3 DEF Headed
<1>5. Chunky(sc[k + 1], s) => Chunky(sc[k + 1], t)
  <2>. SUFFICES ASSUME Chunky(sc[k + 1], s), NEW q \in 1..Len(t), LastSize(t[q]), q > sc[k + 1].lines + 1
                PROVE  Len(t) - q <= 1
    BY <1>4 DEF Chunky
  <2>1. Len(s) - q <= 1
    BY <1>3 DEF Chunky
  <2>. QED
    BY <1>1, <1>2, <2>1
<1>6. Straight(sc, k, n, s) => Straight(sc, k, n, t)
  BY <1>1, <1>2, <1>3 DEF Straight
<1>. QED
  BY <1>5, <1>6 DEF Streams, t

LEMMA TailConcat ==
    ASSUME NEW S, NEW s \in Seq(S), NEW t \in Seq(S), NEW n \in 0..Len(s)
    PROVE  SubSeq(s \o t, n + 1, Len(s \o t)) = SubSeq(s, n + 1, Len(s)) \o t
<1>. DEFINE r == s \o t
            a == SubSeq(r, n + 1, Len(r))
            b == SubSeq(s, n + 1, Len(s))
            d == b \o t
            A == Len(s)
            B == Len(t)
<1>1. A \in Nat /\ B \in Nat /\ n \in Nat /\ n <= A
  BY LenProperties
<1>2. r \in Seq(S) /\ Len(r) = A + B /\ (\A i \in 1..A : r[i] = s[i]) /\ \A i \in 1..B : r[A + i] = t[i]
  BY Join
<1>3. b \in Seq(S) /\ Len(b) = A - n /\ \A i \in 1..(A - n) : b[i] = s[n + i]
  BY Cut
<1>. HIDE DEF r, b
<1>4. n \in 0..Len(r)
  BY <1>1, <1>2
<1>5. a \in Seq(S) /\ Len(a) = Len(r) - n /\ \A i \in 1..(Len(r) - n) : a[i] = r[n + i]
  <2>. r \in Seq(S) /\ n \in 0..Len(r)
    BY <1>2, <1>4
  <2>. QED
    BY Cut
<1>6. d \in Seq(S) /\ Len(d) = Len(b) + B /\ (\A i \in 1..Len(b) : d[i] = b[i]) /\ \A i \in 1..B : d[Len(b) + i] = t[i]
  <2>. b \in Seq(S)
    BY <1>3
  <2>. QED
    BY Join
<1>. HIDE DEF a, d, A, B
<1>7. Len(a) = A + B - n /\ Len(d) = A + B - n
  BY <1>1, <1>2, <1>3, <1>5, <1>6
<1>8. ASSUME NEW i \in 1..(A + B - n) PROVE a[i] = d[i]
  <2>1. CASE i <= A - n
    <3>1. i \in 1..(A - n) /\ n + i \in 1..A /\ i \in 1..(Len(r) - n)
      BY <1>1, <1>2, <2>1
    <3>2. a[i] = s[n + i]
      BY <1>2, <1>5, <3>1
    <3>3. d[i] = s[n + i]
      BY <1>3, <1>6, <3>1
    <3>. QED
      BY <3>2, <3>3
  <2>2. CASE i > A - n
    <3>. DEFINE j == i - (A - n)
    <3>1. j \in 1..B /\ A + j = n + i /\ (A - n) + j = i /\ i \in 1..(Len(r) - n)
      BY <1>1, <1>2, <2>2
    <3>. HIDE DEF j
    <3>2. a[i] = t[j]
      BY <1>2, <1>5, <3>1
    <3>3. d[i] = t[j]
      BY <1>3, <1>6, <3>1
    <3>. QED
      BY <3>2, <3>3
  <2>. QED
    BY <1>1, <2>1, <2>2
<1>9. a = d
  <2>1. Len(a) = Len(d) /\ \A i \in 1..Len(a) : a[i] = d[i]
    BY <1>7, <1>8
  <2>. QED
    BY <1>5, <1>6, <2>1, SeqEqual
<1>. QED
  BY <1>9 DEF a, d, r, b, A, B

\* A call of the handler takes the next request off the stream, or none.
ParsedStream(sc, n, f, k, w, v, in, len) ==
    \/ /\ v.handled = w.handled /\ Waits(w, v, len) /\ Streams(sc, n, f, k, v.conn.recv \o in) /\ Metered(sc, n, k, v.conn)
    \/ /\ Serve(w, v, len) /\ k < n /\ len = sc[k + 1].lines + 1 /\ w.conn.recv[1].req = sc[k + 1]
       /\ sc[k + 1].uri # "malformed"
       /\ Streams(sc, n, f, k + 1, v.conn.recv \o in) /\ Metered(sc, n, k + 1, v.conn)

Stream(sc, n, f, k, w, in) ==
    /\ Scripted(sc) /\ n \in 0..Len(sc) /\ k \in 0..n /\ (AllWait(sc) => n <= k + 1)
    /\ w \in Worlds /\ FileOK(w.conn.file) /\ in \in Seq(RequestUnit)
    /\ Streams(sc, n, f, k, w.conn.recv \o in) /\ Metered(sc, n, k, w.conn)

LEMMA PlainLenIs ==
    ASSUME NEW req \in Requests, req.enc # "chunked"
    PROVE  PlainLen(req, req.lines + 1) = Len(Encoded(req))
<1>1. Len(Encoded(req)) = req.lines + 1 + Len(EncodedBody(req)) /\ EncodedBody(req) = Body(req)
  BY EncodedIs, EncodedBodyIs
<1>2. Len(Body(req)) = BodyLen(req)
  BY BodyIs
<1>3. req.lines \in Nat /\ BodyLen(req) \in Nat /\ req.enc \in {"length", "chunked", "none"} /\ req.body \in Seq(Nat)
      /\ (req.enc = "none" => req.body = <<>>)
  BY RequestIs
<1>4. req.enc = "none" => BodyLen(req) = 0
  <2>. SUFFICES ASSUME req.enc = "none" PROVE BodyLen(req) = 0
    OBVIOUS
  <2>1. Len(req.body) = 0
    BY <1>3, EmptySeq
  <2>2. BodyUpTo(req, 0) = 0
    BY <1>3, BodyUpToIs
  <2>. QED
    BY <2>1, <2>2 DEF BodyLen
<1>. QED
  BY <1>1, <1>2, <1>3, <1>4 DEF PlainLen

LEMMA StreamSame ==
    ASSUME NEW sc, NEW n, NEW f, NEW k, NEW w, NEW v, NEW in, NEW len, Stream(sc, n, f, k, w, in),
           Waits(w, v, len), v.conn.recv = w.conn.recv, v.conn.rcvd = w.conn.rcvd
    PROVE  ParsedStream(sc, n, f, k, w, v, in, len)
BY DEF Stream, ParsedStream, Waits, Metered

\* A request that is not chunked.
LEMMA PlainStream ==
    ASSUME NEW sc, NEW n, NEW f, NEW k, NEW w, NEW v, NEW in, NEW len, Stream(sc, n, f, k, w, in),
           Serve(w, v, len), k < n, len = sc[k + 1].lines + 1, w.conn.recv[1].req = sc[k + 1],
           sc[k + 1].uri # "malformed", sc[k + 1].enc # "chunked",
           PlainLen(sc[k + 1], len) <= w.conn.rcvd, Handles(w, v, sc[k + 1], PlainLen(sc[k + 1], len))
    PROVE  ParsedStream(sc, n, f, k, w, v, in, len)
<1>. DEFINE req == sc[k + 1]
            recv == w.conn.recv
            L == Len(Encoded(req))
            s == recv \o in
            tail == SubSeq(recv, L + 1, Len(recv))
<1>1. Scripted(sc) /\ n \in 0..Len(sc) /\ k \in 0..n /\ (AllWait(sc) => n <= k + 1) /\ in \in Seq(RequestUnit)
      /\ recv \in Seq(RequestUnit) /\ Len(sc) \in Nat /\ w.conn.rcvd \in Nat
  BY WorldIs, LenProperties DEF Stream, Scripted
<1>2. n \in 1..Len(sc) /\ k \in 0..(n - 1) /\ k + 1 \in 1..Len(sc)
  BY <1>1
<1>3. req \in Requests /\ L \in Nat
  BY <1>1, <1>2, ScriptedReq
<1>4. PlainLen(req, len) = L
  <2>. HIDE DEF req
  <2>1. len = req.lines + 1 /\ req.enc # "chunked"
    BY DEF req
  <2>. QED
    BY <1>3, <2>1, PlainLenIs
<1>5. w.conn.rcvd <= Len(recv)
  BY DEF Stream, Metered
<1>6. L <= Len(recv) /\ Len(recv) \in Nat /\ L \in 0..Len(recv)
  <2>1. L <= w.conn.rcvd /\ Len(recv) \in Nat
    BY <1>1, <1>4, LenProperties
  <2>. HIDE DEF L, recv
  <2>. QED
    BY <1>1, <1>3, <1>5, <2>1
<1>7. v.conn.recv = tail /\ v.conn.rcvd = 0
  BY <1>4, <1>6 DEF Handles
<1>8. Len(in) \in Nat /\ Len(s) = Len(recv) + Len(in) /\ s \in Seq(RequestUnit) /\ L <= Len(s)
  <2>1. Len(in) \in Nat /\ Len(s) = Len(recv) + Len(in) /\ s \in Seq(RequestUnit)
    BY <1>1, Join, LenProperties
  <2>. HIDE DEF L, recv, s
  <2>. QED
    BY <1>3, <1>6, <2>1
<1>9. SubSeq(s, L + 1, Len(s)) = tail \o in
  <2>. recv \in Seq(RequestUnit) /\ in \in Seq(RequestUnit) /\ L \in 0..Len(recv)
    BY <1>1, <1>6
  <2>. HIDE DEF recv, L
  <2>. QED
    BY TailConcat
<1>10. Straight(sc, k, n, s) /\ (f \in {"new", "open"} => Len(s) = Start(sc, n) - Start(sc, k))
  BY DEF Stream, Streams
<1>11. Straight(sc, k + 1, n, tail \o in) /\ (f \in {"new", "open"} => Len(tail \o in) = Start(sc, n) - Start(sc, k + 1))
  <2>. HIDE DEF s, tail, recv
  <2>1. /\ Straight(sc, k + 1, n, SubSeq(s, L + 1, Len(s)))
        /\ Len(s) = Start(sc, n) - Start(sc, k) => Len(SubSeq(s, L + 1, Len(s))) = Start(sc, n) - Start(sc, k + 1)
    BY <1>1, <1>2, <1>8, <1>10, StraightTail
  <2>. QED
    BY <1>9, <1>10, <2>1
<1>12. ~(k + 1 < n /\ sc[(k + 1) + 1].enc = "chunked")
  <2>. SUFFICES ASSUME k + 1 < n, sc[(k + 1) + 1].enc = "chunked" PROVE FALSE
    OBVIOUS
  <2>1. (k + 1) + 1 \in 1..Len(sc)
    BY <1>1, <1>2
  <2>2. AllWait(sc)
    BY <1>1, <2>1 DEF Scripted
  <2>. QED
    BY <1>1, <2>2
<1>13. Streams(sc, n, f, k + 1, v.conn.recv \o in)
  BY <1>7, <1>11, <1>12 DEF Streams
<1>14. Metered(sc, n, k + 1, v.conn)
  <2>1. v \in Worlds
    BY DEF Handles
  <2>2. Len(v.conn.recv) \in Nat
    BY <2>1, WorldIs
  <2>. QED
    BY <1>7, <2>2 DEF Metered
<1>. QED
  BY <1>13, <1>14 DEF ParsedStream

\* A chunked request.
LEMMA ChunkedStream ==
    ASSUME NEW sc, NEW n, NEW f, NEW k, NEW w, NEW v, NEW in, NEW len, Stream(sc, n, f, k, w, in),
           k < n, HasHead(sc[k + 1], len, w.conn.recv), len = sc[k + 1].lines + 1, w.conn.recv[1].req = sc[k + 1],
           sc[k + 1].uri # "malformed", sc[k + 1].enc = "chunked", Outcome(w, v, len),
           NEW u, NEW buf, NEW m, NEW zero,
           Collapses(After(w.conn.recv, len), w.conn.chunk, buf, m, zero), Collapsed(w, u, len, buf, m),
           v = u \/ (zero /\ Handles(u, v, sc[k + 1], Len(buf) + len))
    PROVE  ParsedStream(sc, n, f, k, w, v, in, len)
<1>. DEFINE req == sc[k + 1]
            recv == w.conn.recv
            rest == After(recv, len)
<1>1. Scripted(sc) /\ n \in 0..Len(sc) /\ k \in 0..n /\ (AllWait(sc) => n <= k + 1) /\ in \in Seq(RequestUnit)
      /\ recv \in Seq(RequestUnit) /\ Len(sc) \in Nat
  BY WorldIs, LenProperties DEF Stream, Scripted
<1>2. n = k + 1
  <2>1. k + 1 \in 1..Len(sc)
    BY <1>1
  <2>2. AllWait(sc)
    BY <1>1, <2>1 DEF Scripted
  <2>. QED
    BY <1>1, <2>2
<1>3. Chunky(req, recv \o in)
  BY DEF Stream, Streams
<1>4. rest \in Seq(RequestUnit) /\ len \in 0..Len(recv)
  <2>1. len \in 0..Len(recv)
    BY DEF HasHead
  <2>. QED
    BY <1>1, <2>1, CutType DEF After
<1>5. From(buf, rest, 0, Len(rest)) /\ buf \in Seq(RequestUnit)
  <2>. HIDE DEF rest
  <2>1. Collapses(rest, w.conn.chunk, buf, m, zero)
    BY DEF rest
  <2>. QED
    BY <1>4, <2>1, FromSelf DEF Collapses
<1>6. u \in Worlds /\ u.conn.recv = SubSeq(recv, 1, len) \o buf /\ SameOutput(w, u) /\ SameRest(w, u)
  BY DEF Collapsed
<1>7. CASE v = u
  <2>1. Chunky(req, (SubSeq(recv, 1, len) \o buf) \o in)
    <3>. HIDE DEF req
    <3>1. HasHead(req, len, recv)
      BY DEF req
    <3>. QED
      BY <1>1, <1>3, <1>5, <3>1, ChunkyCollapse
  <2>2. Streams(sc, n, f, k, v.conn.recv \o in)
    BY <1>6, <1>7, <2>1 DEF Streams
  <2>3. Waits(w, v, len)
    BY <1>6, <1>7 DEF Waits, SameOutput, SameRest
  <2>4. Metered(sc, n, k, v.conn)
    BY DEF Metered
  <2>5. v.handled = w.handled
    BY <2>3 DEF Waits
  <2>. QED
    BY <2>2, <2>3, <2>4, <2>5 DEF ParsedStream
<1>8. CASE zero /\ Handles(u, v, req, Len(buf) + len)
  <2>1. PICK p : p \in 1..(Len(rest) - 1) /\ LastSize(rest[p])
    BY <1>8 DEF Collapses
  <2>2. in = <<>>
    <3>. HIDE DEF req
    <3>1. HasHead(req, len, recv)
      BY DEF req
    <3>. QED
      BY <1>1, <1>3, <2>1, <3>1, ChunkyWhole
  <2>3. Len(u.conn.recv) = len + Len(buf) /\ Len(buf) \in Nat /\ len \in Nat /\ u.conn.recv \in Seq(RequestUnit)
    <3>1. Len(SubSeq(recv, 1, len)) = len /\ SubSeq(recv, 1, len) \in Seq(RequestUnit)
      BY <1>1, <1>4, Cut
    <3>2. len \in Nat /\ Len(buf) \in Nat
      BY <1>4, <1>5, LenProperties
    <3>3. u.conn.recv \in Seq(RequestUnit)
      BY <1>6, WorldIs
    <3>4. Len(u.conn.recv) = Len(SubSeq(recv, 1, len)) + Len(buf)
      <4>. DEFINE h == SubSeq(recv, 1, len)
      <4>1. h \in Seq(RequestUnit) /\ buf \in Seq(RequestUnit)
        BY <1>5, <3>1
      <4>. HIDE DEF h
      <4>2. Len(h \o buf) = Len(h) + Len(buf)
        BY <4>1, ConcatProperties
      <4>. QED
        BY <1>6, <4>2 DEF h
    <3>. QED
      BY <3>1, <3>2, <3>3, <3>4
  <2>4. v.conn.recv = <<>> /\ v.conn.rcvd = 0
    <3>1. Len(buf) + len <= Len(u.conn.recv) /\ Len(buf) + len = Len(u.conn.recv)
      BY <2>3
    <3>2. v.conn.recv = SubSeq(u.conn.recv, Len(u.conn.recv) + 1, Len(u.conn.recv)) /\ v.conn.rcvd = 0
      BY <1>8, <3>1 DEF Handles
    <3>. DEFINE t == u.conn.recv
    <3>3. t \in Seq(RequestUnit)
      BY <2>3
    <3>. HIDE DEF t
    <3>4. SubSeq(t, Len(t) + 1, Len(t)) = <<>>
      <4>1. Len(t) \in 0..Len(t)
        BY <3>3, LenProperties
      <4>2. /\ SubSeq(t, Len(t) + 1, Len(t)) \in Seq(RequestUnit)
            /\ Len(SubSeq(t, Len(t) + 1, Len(t))) = Len(t) - Len(t) /\ Len(t) \in Nat
        BY <3>3, <4>1, Cut, LenProperties
      <4>. QED
        BY <4>2, EmptySeq
    <3>. QED
      BY <3>2, <3>4 DEF t
  <2>5. v.conn.recv \o in = <<>>
    BY <2>2, <2>4
  <2>6. Streams(sc, n, f, k + 1, v.conn.recv \o in)
    BY <1>1, <1>2, <2>5, StreamsNone
  <2>7. Metered(sc, n, k + 1, v.conn)
    BY <2>4, EmptySeq DEF Metered
  <2>8. Serve(w, v, len)
    <3>1. req \in Requests /\ len > 0 /\ len \in Int
      <4>1. k + 1 \in 1..Len(sc)
        BY <1>1
      <4>. QED
        BY <1>1, <4>1, ScriptedReq
    <3>2. w \in Worlds
      BY DEF Stream
    <3>. QED
      BY <1>6, <1>8, <3>1, <3>2, HandlesServe
  <2>. QED
    BY <2>6, <2>7, <2>8 DEF ParsedStream
<1>. QED
  BY <1>7, <1>8

LEMMA ParseStream ==
    ASSUME NEW sc, NEW n, NEW f, NEW k, NEW w, NEW v, NEW in, NEW len \in Int, Stream(sc, n, f, k, w, in),
           HeadOf(w.conn.recv, len), Parses(w, v, len), Outcome(w, v, len)
    PROVE  ParsedStream(sc, n, f, k, w, v, in, len)
<1>. DEFINE req == sc[k + 1]
            recv == w.conn.recv
            rest == After(recv, len)
<1>1. Scripted(sc) /\ n \in 0..Len(sc) /\ k \in 0..n /\ in \in Seq(RequestUnit) /\ w \in Worlds
      /\ recv \in Seq(RequestUnit) /\ Len(sc) \in Nat /\ Streams(sc, n, f, k, recv \o in)
  BY WorldIs, LenProperties DEF Stream, Scripted
<1>2. CASE v = w
  <2>1. Waits(w, v, len)
    BY <1>2 DEF Waits
  <2>. QED
    BY <1>2, <2>1, StreamSame
<1>3. CASE len <= 0 /\ v = Flag(w, "CLOSE_IMMEDIATELY") /\ Len(recv) > 0
  <2>1. v.conn.recv = recv /\ v.conn.rcvd = w.conn.rcvd /\ v.handled = w.handled /\ v.conn.send = w.conn.send
        /\ v.conn.file = w.conn.file /\ v.conn.flags = w.conn.flags \cup {"CLOSE_IMMEDIATELY"}
    BY <1>1, <1>3, FlagIs DEF Flags, SameInput, SameRest
  <2>2. Waits(w, v, len)
    BY <1>3, <2>1 DEF Waits
  <2>. QED
    BY <2>1, <2>2, StreamSame
<1>4. CASE len > 0
  <2>1. len \in 1..Len(recv) /\ Len(recv) \in Nat
    BY <1>1, <1>4, LenProperties DEF HeadOf
  <2>2. recv \o in # <<>>
    <3>. DEFINE s == recv \o in
    <3>1. Len(s) = Len(recv) + Len(in) /\ Len(in) \in Nat /\ s \in Seq(RequestUnit)
      BY <1>1, Join, LenProperties
    <3>2. Len(s) > 0
      BY <2>1, <3>1
    <3>. HIDE DEF s
    <3>3. s # <<>>
      BY <3>1, <3>2, EmptySeq
    <3>. QED
      BY <3>3 DEF s
  <2>3. recv \o in \in Seq(RequestUnit)
    BY <1>1, ConcatProperties
  <2>4. k < n
    BY <1>1, <2>2, <2>3, StreamsMore
  <2>5. k + 1 \in 1..Len(sc) /\ req \in Requests /\ req.lines \in Nat /\ req.lines > 0
    <3>1. k + 1 \in 1..Len(sc)
      BY <1>1, <2>4
    <3>. QED
      BY <1>1, <3>1, ScriptedReq
  <2>6. Headed(req, recv)
    <3>1. Headed(req, recv \o in)
      BY <1>1, <2>3, <2>4, StreamsHeaded
    <3>. QED
      BY <1>1, <3>1, HeadedPart
  <2>7. len = req.lines + 1 /\ recv[1].req = req /\ req.uri # "malformed"
    <3>. HIDE DEF req
    <3>. QED
      BY <1>1, <1>4, <2>5, <2>6, HeadFound
  <2>8. HasHead(req, len, recv)
    BY <2>1, <2>5, <2>7 DEF HasHead
  <2>9. CASE req.enc # "chunked" /\ PlainLen(req, len) <= w.conn.rcvd /\ Handles(w, v, req, PlainLen(req, len))
    <3>1. Serve(w, v, len)
      <4>1. SameOutput(w, w) /\ SameRest(w, w)
        BY DEF SameOutput, SameRest
      <4>. DEFINE msg == PlainLen(req, len)
      <4>2. Handles(w, v, w.conn.recv[1].req, msg) /\ w.conn.recv[1].req \in Requests
        BY <2>5, <2>7, <2>9
      <4>. HIDE DEF msg, req
      <4>. QED
        BY <1>1, <1>4, <4>1, <4>2, HandlesServe
    <3>. QED
      BY <2>4, <2>7, <2>9, <3>1, PlainStream
  <2>10. CASE v = [w EXCEPT !.aborted = TRUE]
    <3>. DEFINE x == [w EXCEPT !.aborted = TRUE]
    <3>1. x.conn = w.conn /\ x.handled = w.handled
      BY <1>1, AbortedIs
    <3>. HIDE DEF x
    <3>2. v.conn = w.conn /\ v.handled = w.handled
      BY <2>10, <3>1 DEF x
    <3>3. Waits(w, v, len)
      BY <3>2 DEF Waits
    <3>. QED
      BY <3>2, <3>3, StreamSame
  <2>11. CASE /\ req.enc = "chunked"
              /\ \E u, buf, m, zero :
                    /\ Collapses(rest, w.conn.chunk, buf, m, zero) /\ Collapsed(w, u, len, buf, m)
                    /\ v = u \/ (zero /\ Handles(u, v, req, Len(buf) + len))
    <3>1. PICK u, buf, m, zero :
                    /\ Collapses(rest, w.conn.chunk, buf, m, zero) /\ Collapsed(w, u, len, buf, m)
                    /\ v = u \/ (zero /\ Handles(u, v, req, Len(buf) + len))
      BY <2>11
    <3>. QED
      BY <2>4, <2>7, <2>8, <2>11, <3>1, ChunkedStream
  <2>. QED
    BY <1>2, <1>4, <2>7, <2>9, <2>10, <2>11 DEF Parses
<1>5. CASE len <= 0
  BY <1>2, <1>3, <1>5 DEF Parses
<1>. QED
  BY <1>4, <1>5

-----------------------------------------------------------------------------
(***************************************************************************)
(* Requests and answers: what has been answered is no more than what was   *)
(* handled, so a browser that waits has one request under way.             *)
(***************************************************************************)
LEMMA UpToGrows ==
    ASSUME NEW sc, sc \in Seq(Requests), NEW k \in 0..Len(sc), NEW n \in k..Len(sc)
    PROVE  /\ UpTo(sc, k) <= UpTo(sc, n)
           /\ k < n /\ (\A i \in 1..n : AnswerLen(sc[i]) > 0) => UpTo(sc, k) < UpTo(sc, n)
<1>1. Len(sc) \in Nat /\ k \in Nat /\ n \in Nat
  BY LenProperties
<1>2. \A i \in 1..Len(sc) : UpTo(sc, i) = UpTo(sc, i - 1) + AnswerLen(sc[i]) /\ AnswerLen(sc[i]) \in Nat
  BY UpToIs, AnswerLenType
<1>3. \A i \in 0..Len(sc) : UpTo(sc, i) \in Nat
  BY UpToIs
<1>. DEFINE All(m) == \A i \in 1..m : AnswerLen(sc[i]) > 0
            More(m) == UpTo(sc, k) <= UpTo(sc, m) /\ (k < m /\ All(m) => UpTo(sc, k) < UpTo(sc, m))
            T == {d \in Nat : k + d <= Len(sc) => More(k + d)}
<1>4. 0 \in T
  <2>1. UpTo(sc, k) \in Nat /\ k + 0 = k /\ ~(k < k)
    BY <1>1, <1>3
  <2>2. More(k)
    BY <2>1
  <2>. HIDE DEF More
  <2>. QED
    BY <2>1, <2>2
<1>5. ASSUME NEW d \in T PROVE d + 1 \in T
  <2>. SUFFICES ASSUME k + (d + 1) <= Len(sc) PROVE More(k + (d + 1))
    <3>. HIDE DEF More
    <3>. QED
      OBVIOUS
  <2>. DEFINE m == k + d
              l == k + (d + 1)
  <2>1. m \in 0..Len(sc) /\ l \in 1..Len(sc) /\ l \in 0..Len(sc) /\ l - 1 = m /\ d \in Nat
    BY <1>1
  <2>2. More(m)
    <3>. HIDE DEF More
    <3>. QED
      BY <1>1, <2>1
  <2>. HIDE DEF m, l
  <2>3. UpTo(sc, l) = UpTo(sc, m) + AnswerLen(sc[l]) /\ AnswerLen(sc[l]) \in Nat
    BY <1>2, <2>1
  <2>4. UpTo(sc, k) \in Nat /\ UpTo(sc, m) \in Nat /\ UpTo(sc, l) \in Nat
    BY <1>1, <1>3, <2>1
  <2>5. All(l) => AnswerLen(sc[l]) > 0
    BY <2>1
  <2>. HIDE DEF All
  <2>6. More(l)
    BY <2>2, <2>3, <2>4, <2>5
  <2>. HIDE DEF More
  <2>. QED
    BY <2>6 DEF l
<1>6. T = Nat
  <2>1. T \subseteq Nat
    OBVIOUS
  <2>. HIDE DEF T
  <2>. QED
    BY <1>4, <1>5, <2>1, NatSetInduction
<1>7. n - k \in Nat /\ k + (n - k) = n
  BY <1>1
<1>8. More(n)
  <2>. HIDE DEF More
  <2>1. n - k \in T
    BY <1>6, <1>7
  <2>2. n <= Len(sc)
    BY <1>1
  <2>. QED
    BY <1>7, <2>1, <2>2
<1>. QED
  BY <1>8

\* Units of answers that are buffered or still to be read.
ToSend(conn) == Len(conn.send) + Rest(conn.file)

LEMMA MovesCount ==
    ASSUME NEW j, NEW k, NEW part, j.send \in Seq(AnswerUnit), FileOK(j.file), j.file \in File, j.file.open,
           Moves(j, k, part)
    PROVE  ToSend(k) = ToSend(j) /\ ToSend(j) \in Nat /\ k.send \in Seq(AnswerUnit)
<1>. DEFINE s == j.send
            t == s \o part
            old == j.file
            A == Len(s)
            B == Len(part)
<1>1. part \in Seq(AnswerUnit) /\ k.send = t /\ B <= Rest(old)
  BY DEF Moves
<1>2. A \in Nat /\ B \in Nat
  BY <1>1, LenProperties
<1>3. Len(t) = A + B /\ t \in Seq(AnswerUnit)
  <2>. part \in Seq(AnswerUnit) /\ s \in Seq(AnswerUnit)
    BY <1>1
  <2>. QED
    BY Join
<1>4. old.cl \in Nat /\ old.sent \in Nat /\ old.sent < old.cl /\ Rest(old) = old.cl - old.sent
  BY FileIs DEF FileOK, Rest
<1>5. Rest(k.file) = Rest(old) - B
  <2>1. CASE old.sent + B < old.cl
    <3>1. k.file = FileRead(old, B)
      BY <2>1 DEF Moves
    <3>2. k.file.open /\ k.file.cl = old.cl /\ k.file.sent = old.sent + B
      BY <3>1 DEF FileRead, File
    <3>. HIDE DEF B, old
    <3>. QED
      BY <1>2, <1>4, <3>2 DEF Rest
  <2>2. CASE ~(old.sent + B < old.cl)
    <3>1. k.file = NoFile
      BY <2>2 DEF Moves
    <3>2. Rest(k.file) = 0
      BY <3>1, NoFileIs
    <3>. HIDE DEF B, old
    <3>. QED
      BY <1>1, <1>2, <1>4, <2>2, <3>2
  <2>. QED
    BY <2>1, <2>2
<1>6. ToSend(k) = Len(t) + Rest(k.file) /\ ToSend(j) = A + Rest(old)
  BY <1>1 DEF ToSend
<1>. HIDE DEF A, B, t, old
<1>. QED
  BY <1>1, <1>2, <1>3, <1>4, <1>5, <1>6

LEMMA OutCount ==
    ASSUME NEW i, NEW k, NEW req, i.send \in Seq(AnswerUnit), FileOK(i.file), i.file \in File, Out(i, k, req),
           req \in Requests, req.uri # "malformed"
    PROVE  ToSend(k) <= ToSend(i) + AnswerLen(req) /\ ToSend(i) \in Nat /\ ToSend(k) \in Nat
<1>1. FileLen \in Nat /\ FileLen > 0
  BY SizesAre
<1>2. Rest(i.file) \in Nat /\ Rest(i.file) <= FileLen /\ (i.file.open => Rest(i.file) = FileLen - i.file.sent)
      /\ (~i.file.open => Rest(i.file) = 0 /\ i.file.sent = 0) /\ i.file.sent \in Nat /\ i.file.sent < FileLen
  <2>. DEFINE f == i.file
  <2>1. f.open \in BOOLEAN /\ f.sent \in Nat /\ f.cl \in Nat
    BY FileIs
  <2>2. CASE f.open
    <3>1. f.cl = FileLen /\ f.sent < FileLen /\ Rest(f) = f.cl - f.sent
      BY <2>2 DEF FileOK, Rest
    <3>. HIDE DEF f
    <3>2. Rest(f) = FileLen - f.sent
      BY <3>1
    <3>. QED
      BY <1>1, <2>1, <2>2, <3>1, <3>2 DEF f
  <2>3. CASE ~f.open
    <3>1. f = NoFile /\ Rest(f) = 0
      BY <2>3 DEF FileOK, Rest
    <3>2. f.sent = 0
      BY <3>1 DEF NoFile
    <3>. HIDE DEF f
    <3>. QED
      BY <1>1, <2>1, <2>3, <3>1, <3>2 DEF f
  <2>. QED
    BY <2>1, <2>2, <2>3
<1>3. Len(i.send) \in Nat
  BY LenProperties
<1>4. ToSend(i) \in Nat
  BY <1>2, <1>3 DEF ToSend
<1>5. CASE req.uri = "printcontent" /\ k.send = i.send /\ k.file = i.file
  <2>1. AnswerLen(req) = 0 /\ ToSend(k) = ToSend(i)
    BY <1>5 DEF AnswerLen, ToSend
  <2>. QED
    BY <1>4, <2>1
<1>6. CASE /\ req.uri = "file" /\ FileOK(FileOf(i, req))
           /\ \E p, part : FirstUnit(p, req) /\ Moves(Opened(i, p, req), k, part)
  <2>1. PICK p, part : FirstUnit(p, req) /\ Moves(Opened(i, p, req), k, part)
    BY <1>6
  <2>. DEFINE a == Opened(i, p, req)
              t == i.send \o p
  <2>2. p \in Seq(AnswerUnit) /\ Len(p) = 1
    BY <2>1 DEF FirstUnit
  <2>3. t \in Seq(AnswerUnit) /\ Len(t) = Len(i.send) + 1
    <3>. p \in Seq(AnswerUnit)
      BY <2>2
    <3>1. t \in Seq(AnswerUnit) /\ Len(t) = Len(i.send) + Len(p)
      BY Join
    <3>. QED
      BY <2>2, <3>1
  <2>4. a.send = t /\ a.file = FileOf(i, req)
    BY DEF Opened
  <2>5. FileOf(i, req) \in File /\ FileOf(i, req).open /\ Rest(FileOf(i, req)) = FileLen - i.file.sent
    <3>1. req.id \in Nat
      BY RequestIs
    <3>. QED
      BY <1>1, <1>2, <3>1 DEF FileOf, File, Rest, Keepalive
  <2>. HIDE DEF a, t
  <2>6. ToSend(k) = ToSend(a) /\ ToSend(a) \in Nat
    <3>. a.send \in Seq(AnswerUnit) /\ FileOK(a.file) /\ a.file \in File /\ a.file.open /\ Moves(a, k, part)
      BY <1>6, <2>1, <2>3, <2>4, <2>5 DEF a
    <3>. QED
      BY MovesCount
  <2>7. ToSend(a) = Len(i.send) + 1 + (FileLen - i.file.sent)
    BY <2>3, <2>4, <2>5 DEF ToSend
  <2>8. AnswerLen(req) = 1 + FileLen /\ ToSend(i) = Len(i.send) + Rest(i.file)
    BY <1>6 DEF AnswerLen, ToSend
  <2>9. ToSend(i) + (1 + FileLen) >= Len(i.send) + 1 + (FileLen - i.file.sent)
    <3>. DEFINE A == Len(i.send)
                B == Rest(i.file)
                C == i.file.sent
    <3>1. A \in Nat /\ B \in Nat /\ C \in Nat /\ ToSend(i) = A + B
      BY <1>2, <1>3, <2>8
    <3>. HIDE DEF A, B, C
    <3>2. A + B + (1 + FileLen) >= A + 1 + (FileLen - C)
      BY <1>1, <3>1
    <3>. QED
      BY <3>1, <3>2 DEF A, C
  <2>. QED
    BY <1>4, <2>6, <2>7, <2>8, <2>9
<1>7. CASE req.uri \notin {"printcontent", "file"} /\ k.file = i.file /\ \E p : TwoUnits(p, req) /\ k.send = i.send \o p
  <2>1. PICK p : TwoUnits(p, req) /\ k.send = i.send \o p
    BY <1>7
  <2>2. p \in Seq(AnswerUnit) /\ Len(p) = 2
    BY <2>1 DEF TwoUnits
  <2>3. Len(i.send \o p) = Len(i.send) + 2
    <3>. p \in Seq(AnswerUnit)
      BY <2>2
    <3>1. Len(i.send \o p) = Len(i.send) + Len(p)
      BY Join
    <3>. QED
      BY <2>2, <3>1
  <2>4. AnswerLen(req) = 2
    BY <1>7 DEF AnswerLen
  <2>. QED
    BY <1>2, <1>3, <1>4, <1>7, <2>1, <2>3, <2>4 DEF ToSend
<1>. QED
  BY <1>4, <1>5, <1>6, <1>7 DEF Out

Numbered(h, n) == Len(h) <= n /\ \A j \in 1..Len(h) : h[j].req = j

\* Nothing is left to be sent.
Idle(w, o) == Len(o) = 0 /\ Len(w.conn.send) = 0 /\ ~w.conn.file.open

\* A connection with what is on its way to it and from it, when its browser has
\* sent n requests of sc and got g units of answers; f is the end of the browser.
Flow(sc, n, g, f, w, in, o) ==
    /\ Stream(sc, n, f, Len(w.handled), w, in) /\ Numbered(w.handled, n)
    /\ g + Len(o) + ToSend(w.conn) <= UpTo(sc, Len(w.handled))
    /\ AllWait(sc) /\ n = Len(w.handled) + 1 => Idle(w, o)

FlowStates(sc, n, g, f) == {s \in States : Flow(sc, n, g, f, s.w, s.in, s.out)}

LEMMA InFlow ==
    ASSUME NEW sc, NEW n, NEW g, NEW f, NEW w, NEW i, NEW o
    PROVE  St(w, i, o) \in FlowStates(sc, n, g, f) <=> St(w, i, o) \in States /\ Flow(sc, n, g, f, w, i, o)
BY DEF FlowStates, St

LEMMA FlowTypes ==
    ASSUME NEW sc, NEW n, NEW g, NEW f, NEW w, NEW i, NEW o, Flow(sc, n, g, f, w, i, o)
    PROVE  /\ Scripted(sc) /\ sc \in Seq(Requests) /\ Len(sc) \in Nat /\ n \in 0..Len(sc) /\ Len(w.handled) \in 0..n
           /\ n \in Nat /\ Len(w.handled) \in Nat /\ Len(w.handled) \in 0..Len(sc)
           /\ w \in Worlds /\ FileOK(w.conn.file) /\ i \in Seq(RequestUnit)
           /\ (AllWait(sc) => n <= Len(w.handled) + 1) /\ UpTo(sc, Len(w.handled)) \in Nat
           /\ Len(w.conn.send) \in Nat /\ Rest(w.conn.file) \in Nat /\ ToSend(w.conn) = Len(w.conn.send) + Rest(w.conn.file)
           /\ ToSend(w.conn) \in Nat /\ (w.conn.file.open => Rest(w.conn.file) > 0) /\ w.conn.file \in File /\ w.conn.send \in Seq(AnswerUnit)
<1>1. Scripted(sc) /\ n \in 0..Len(sc) /\ Len(w.handled) \in 0..n /\ w \in Worlds /\ FileOK(w.conn.file)
      /\ i \in Seq(RequestUnit) /\ (AllWait(sc) => n <= Len(w.handled) + 1)
  BY DEF Flow, Stream
<1>2. sc \in Seq(Requests) /\ Len(sc) \in Nat
  BY <1>1, LenProperties DEF Scripted
<1>3. n \in Nat /\ Len(w.handled) \in Nat /\ Len(w.handled) \in 0..Len(sc)
  BY <1>1, <1>2
<1>4. UpTo(sc, Len(w.handled)) \in Nat
  BY <1>2, <1>3, UpToIs
<1>5. Len(w.conn.send) \in Nat /\ w.conn.file \in File /\ w.conn.send \in Seq(AnswerUnit)
  BY <1>1, WorldIs
<1>6. Rest(w.conn.file) \in Nat /\ (w.conn.file.open => Rest(w.conn.file) > 0)
  <2>. DEFINE file == w.conn.file
  <2>1. file.sent \in Nat /\ file.cl \in Nat
    BY <1>5, FileIs
  <2>2. file.open => file.sent < file.cl
    BY <1>1 DEF FileOK
  <2>. HIDE DEF file
  <2>3. Rest(file) \in Nat /\ (file.open => Rest(file) > 0)
    BY <2>1, <2>2 DEF Rest
  <2>. QED
    BY <2>3 DEF file
<1>. QED
  BY <1>1, <1>2, <1>3, <1>4, <1>5, <1>6 DEF ToSend

\* The output changes, the requests do not.
LEMMA FlowOut ==
    ASSUME NEW sc, NEW n, NEW g \in Nat, NEW f, NEW w, NEW v, NEW i, NEW j, NEW o, NEW p, Flow(sc, n, g, f, w, i, o),
           v \in Worlds, FileOK(v.conn.file), v.handled = w.handled, v.conn.recv \o j = w.conn.recv \o i, j \in Seq(RequestUnit),
           v.conn.rcvd <= Len(v.conn.recv) \/ ~(w.conn.rcvd <= Len(w.conn.recv)),
           o \in Seq(AnswerUnit), p \in Seq(AnswerUnit), ToSend(v.conn) \in Nat,
           Len(p) + ToSend(v.conn) <= Len(o) + ToSend(w.conn),
           Idle(w, o) => Idle(v, p)
    PROVE  Flow(sc, n, g, f, v, j, p)
<1>1. Stream(sc, n, f, Len(v.handled), v, j)
  BY DEF Flow, Stream, Metered
<1>2. g + Len(p) + ToSend(v.conn) <= UpTo(sc, Len(v.handled))
  <2>1. Len(o) \in Nat /\ Len(p) \in Nat /\ ToSend(w.conn) \in Nat /\ UpTo(sc, Len(v.handled)) \in Nat
    BY FlowTypes, LenProperties
  <2>2. g + Len(o) + ToSend(w.conn) <= UpTo(sc, Len(v.handled))
    BY DEF Flow
  <2>. QED
    BY <2>1, <2>2
<1>. QED
  BY <1>1, <1>2 DEF Flow

LEMMA FlowTransfer ==
    ASSUME NEW sc, NEW n, NEW g \in Nat, NEW f, NEW w, NEW i, NEW o \in Seq(AnswerUnit), Flow(sc, n, g, f, w, i, o)
    PROVE  Flow(sc, n, g, f, mg_http_transfer_file_data(w), i, o)
<1>. DEFINE v == mg_http_transfer_file_data(w)
<1>1. w \in Worlds /\ FileOK(w.conn.file) /\ i \in Seq(RequestUnit) /\ w.conn.file \in File
      /\ w.conn.send \in Seq(AnswerUnit)
  BY FlowTypes
<1>2. /\ v \in Worlds /\ FileOK(v.conn.file) /\ SameInput(w, v) /\ SameRest(w, v)
      /\ \/ ~w.conn.file.open /\ v = w
         \/ w.conn.file.open /\ \E part : Moves(w.conn, v.conn, part)
  BY <1>1, TransferIs
<1>. HIDE DEF v
<1>3. CASE v = w
  BY <1>3 DEF v
<1>4. CASE w.conn.file.open /\ \E part : Moves(w.conn, v.conn, part)
  <2>1. ToSend(v.conn) = ToSend(w.conn) /\ ToSend(w.conn) \in Nat
    BY <1>1, <1>4, MovesCount
  <2>2. Len(o) + ToSend(v.conn) <= Len(o) + ToSend(w.conn)
    BY <2>1, LenProperties
  <2>3. v.handled = w.handled /\ v.conn.recv = w.conn.recv /\ v.conn.rcvd = w.conn.rcvd
    BY <1>2 DEF SameInput, SameRest
  <2>4. ~Idle(w, o)
    BY <1>4 DEF Idle
  <2>5. Flow(sc, n, g, f, v, i, o)
    BY <1>1, <1>2, <2>1, <2>2, <2>3, <2>4, FlowOut
  <2>. QED
    BY <2>5 DEF v
<1>. QED
  BY <1>2, <1>3, <1>4

LEMMA FlowReceive ==
    ASSUME NEW sc, NEW n, NEW g \in Nat, NEW f, NEW w, NEW i, NEW o \in Seq(AnswerUnit), Flow(sc, n, g, f, w, i, o),
           NEW m \in 1..Len(i)
    PROVE  Flow(sc, n, g, f, Received(w, SubSeq(i, 1, m), m), SubSeq(i, m + 1, Len(i)), o)
<1>. DEFINE a == SubSeq(i, 1, m)
            b == SubSeq(i, m + 1, Len(i))
            v == Received(w, a, m)
            r == w.conn.recv
<1>1. w \in Worlds /\ FileOK(w.conn.file) /\ i \in Seq(RequestUnit) /\ ToSend(w.conn) \in Nat
  BY FlowTypes
<1>2. r \in Seq(RequestUnit) /\ Len(r) \in Nat /\ w.conn.rcvd \in Nat
  BY <1>1, WorldIs
<1>3. m \in 0..Len(i) /\ m \in Nat
  BY <1>1, LenProperties
<1>4. a \in Seq(RequestUnit) /\ b \in Seq(RequestUnit) /\ Len(a) = m
  BY <1>1, <1>3, Cut
<1>5. a \o b = i
  <2>. i \in Seq(RequestUnit) /\ m \in 0..Len(i)
    BY <1>1, <1>3
  <2>. QED
    BY CutJoin
<1>. HIDE DEF a, b
<1>6. /\ v \in Worlds /\ SameOutput(w, v) /\ SameRest(w, v) /\ v.conn.recv = r \o a /\ v.conn.rcvd = w.conn.rcvd + m
  <2>. w \in Worlds /\ a \in Seq(RequestUnit) /\ m \in Nat
    BY <1>1, <1>3, <1>4
  <2>. QED
    BY ReceivedIs
<1>. HIDE DEF v, r
<1>7. (r \o a) \o b = r \o i
  <2>. r \in Seq(RequestUnit) /\ a \in Seq(RequestUnit) /\ b \in Seq(RequestUnit)
    BY <1>2, <1>4
  <2>1. (r \o a) \o b = r \o (a \o b)
    BY ConcatAssociative
  <2>. QED
    BY <1>5, <2>1
<1>8. Len(v.conn.recv) = Len(r) + m
  <2>. r \in Seq(RequestUnit) /\ a \in Seq(RequestUnit)
    BY <1>2, <1>4
  <2>1. Len(r \o a) = Len(r) + Len(a)
    BY Join
  <2>. QED
    BY <1>4, <1>6, <2>1
<1>9. v.conn.rcvd <= Len(v.conn.recv) \/ ~(w.conn.rcvd <= Len(r))
  BY <1>2, <1>3, <1>6, <1>8
<1>10. FileOK(v.conn.file) /\ v.handled = w.handled /\ ToSend(v.conn) = ToSend(w.conn) /\ (Idle(w, o) => Idle(v, o))
  BY <1>1, <1>6 DEF SameOutput, SameRest, ToSend, Idle
<1>11. Len(o) + ToSend(v.conn) <= Len(o) + ToSend(w.conn)
  BY <1>1, <1>10, LenProperties
<1>12. v.conn.recv \o b = w.conn.recv \o i
  BY <1>6, <1>7 DEF r
<1>13. Flow(sc, n, g, f, v, b, o)
  <2>1. v.conn.rcvd <= Len(v.conn.recv) \/ ~(w.conn.rcvd <= Len(w.conn.recv))
    BY <1>9 DEF r
  <2>2. ToSend(v.conn) \in Nat
    BY <1>1, <1>10
  <2>. QED
    BY <1>4, <1>6, <1>10, <1>11, <1>12, <2>1, <2>2, FlowOut
<1>. QED
  BY <1>13 DEF v, a, b

LEMMA NumberedMore ==
    ASSUME NEW h \in Marks, NEW n \in Nat, Numbered(h, n), Len(h) < n, NEW whole \in BOOLEAN
    PROVE  LET u == Append(h, [req |-> Len(h) + 1, whole |-> whole])
           IN  Numbered(u, n) /\ Len(u) = Len(h) + 1
<1>. DEFINE x == [req |-> Len(h) + 1, whole |-> whole]
            u == Append(h, x)
            S == [req : Nat, whole : BOOLEAN]
<1>1. h \in Seq(S) /\ Len(h) \in Nat
  BY LenProperties DEF Marks
<1>2. x \in S /\ x.req = Len(h) + 1
  BY <1>1
<1>. HIDE DEF x, S
<1>3. Len(u) = Len(h) + 1 /\ (\A j \in 1..Len(h) : u[j] = h[j]) /\ u[Len(h) + 1] = x
  BY <1>1, <1>2, AppendProperties
<1>. HIDE DEF u
<1>4. ASSUME NEW j \in 1..Len(u) PROVE u[j].req = j
  <2>1. CASE j <= Len(h)
    <3>1. j \in 1..Len(h)
      BY <1>1, <1>3, <2>1
    <3>. QED
      BY <1>3, <3>1 DEF Numbered
  <2>2. CASE j > Len(h)
    <3>1. j = Len(h) + 1
      BY <1>1, <1>3, <2>2
    <3>. QED
      BY <1>2, <1>3, <3>1
  <2>. QED
    BY <1>1, <1>3, <2>1, <2>2
<1>5. Len(u) <= n
  BY <1>1, <1>3
<1>6. Numbered(u, n) /\ Len(u) = Len(h) + 1
  BY <1>3, <1>4, <1>5 DEF Numbered
<1>. QED
  BY <1>6 DEF u, x

LEMMA FlowParse ==
    ASSUME NEW sc, NEW n, NEW g \in Nat, NEW f, NEW w, NEW i, NEW o \in Seq(AnswerUnit), Flow(sc, n, g, f, w, i, o),
           NEW v, NEW len \in Int, HeadOf(w.conn.recv, len), Parses(w, v, len), Outcome(w, v, len)
    PROVE  /\ Flow(sc, n, g, f, v, i, o)
           /\ \/ v.handled = w.handled /\ Waits(w, v, len)
              \/ /\ Serve(w, v, len) /\ Len(v.handled) = Len(w.handled) + 1 /\ Len(w.handled) + 1 \in 1..Len(sc)
                 /\ w.conn.recv[1].req = sc[Len(w.handled) + 1] /\ sc[Len(w.handled) + 1].uri # "malformed"
                 /\ len = sc[Len(w.handled) + 1].lines + 1
<1>. DEFINE k == Len(w.handled)
            req == sc[k + 1]
<1>1. /\ Scripted(sc) /\ Len(sc) \in Nat /\ n \in 0..Len(sc) /\ k \in 0..n /\ n \in Nat /\ k \in Nat
      /\ i \in Seq(RequestUnit) /\ (AllWait(sc) => n <= k + 1) /\ UpTo(sc, k) \in Nat /\ w \in Worlds
      /\ ToSend(w.conn) \in Nat /\ FileOK(w.conn.file) /\ w.conn.file \in File /\ w.conn.send \in Seq(AnswerUnit)
      /\ sc \in Seq(Requests)
  BY FlowTypes
<1>2. ParsedStream(sc, n, f, k, w, v, i, len)
  <2>. Stream(sc, n, f, k, w, i)
    BY DEF Flow
  <2>. HIDE DEF k
  <2>. QED
    BY ParseStream
<1>3. v \in Worlds /\ FileOK(v.conn.file)
  BY DEF Outcome
<1>4. Numbered(w.handled, n) /\ g + Len(o) + ToSend(w.conn) <= UpTo(sc, k) /\ (AllWait(sc) /\ n = k + 1 => Idle(w, o))
  BY DEF Flow
<1>5. CASE /\ v.handled = w.handled /\ Waits(w, v, len) /\ Streams(sc, n, f, k, v.conn.recv \o i)
           /\ Metered(sc, n, k, v.conn)
  <2>1. v.conn.send = w.conn.send /\ v.conn.file = w.conn.file
    BY <1>5 DEF Waits
  <2>2. ToSend(v.conn) = ToSend(w.conn) /\ (Idle(w, o) => Idle(v, o))
    BY <2>1 DEF ToSend, Idle
  <2>3. Stream(sc, n, f, Len(v.handled), v, i)
    BY <1>1, <1>3, <1>5 DEF Stream
  <2>4. Flow(sc, n, g, f, v, i, o)
    BY <1>4, <1>5, <2>2, <2>3 DEF Flow
  <2>. QED
    BY <1>5, <2>4
<1>6. CASE /\ Serve(w, v, len) /\ k < n /\ len = req.lines + 1 /\ w.conn.recv[1].req = req
           /\ req.uri # "malformed"
           /\ Streams(sc, n, f, k + 1, v.conn.recv \o i) /\ Metered(sc, n, k + 1, v.conn)
  <2>1. k + 1 \in 1..Len(sc) /\ k + 1 \in 0..n /\ (k + 1) - 1 = k
    BY <1>1, <1>6
  <2>2. req \in Requests /\ req.id = k + 1
    BY <1>1, <2>1, ScriptedReq
  <2>3. PICK whole \in BOOLEAN : v.handled = Append(w.handled, [req |-> k + 1, whole |-> whole])
    BY <1>6, <2>2 DEF Serve
  <2>4. Numbered(v.handled, n) /\ Len(v.handled) = k + 1
    <3>. w.handled \in Marks /\ Len(w.handled) < n
      BY <1>1, <1>6, WorldIs
    <3>. QED
      BY <1>1, <1>4, <2>3, NumberedMore
  <2>5. Out(w.conn, v.conn, req)
    BY <1>6 DEF Serve
  <2>. HIDE DEF req
  <2>6. ToSend(v.conn) <= ToSend(w.conn) + AnswerLen(req) /\ ToSend(v.conn) \in Nat
    BY <1>1, <1>6, <2>2, <2>5, OutCount
  <2>7. UpTo(sc, k + 1) = UpTo(sc, k) + AnswerLen(req) /\ AnswerLen(req) \in Nat
    BY <1>1, <2>1, UpToIs, AnswerLenType DEF req
  <2>8. g + Len(o) + ToSend(v.conn) <= UpTo(sc, k + 1)
    <3>. Len(o) \in Nat
      BY LenProperties
    <3>. HIDE DEF k
    <3>. QED
      BY <1>1, <1>4, <2>6, <2>7
  <2>9. Stream(sc, n, f, Len(v.handled), v, i)
    <3>. HIDE DEF k
    <3>1. AllWait(sc) => n <= (k + 1) + 1
      BY <1>1
    <3>. QED
      BY <1>1, <1>3, <1>6, <2>1, <2>4, <3>1 DEF Stream
  <2>10. ~(AllWait(sc) /\ n = (k + 1) + 1)
    <3>. HIDE DEF k
    <3>. QED
      BY <1>1
  <2>11. Flow(sc, n, g, f, v, i, o)
    <3>. HIDE DEF k
    <3>. QED
      BY <2>4, <2>8, <2>9, <2>10 DEF Flow
  <2>. QED
    BY <1>6, <2>1, <2>4, <2>11 DEF req
<1>. QED
  BY <1>2, <1>5, <1>6 DEF ParsedStream

LEMMA FlowFlag ==
    ASSUME NEW sc, NEW n, NEW g \in Nat, NEW f, NEW w, NEW i, NEW o \in Seq(AnswerUnit), Flow(sc, n, g, f, w, i, o),
           NEW flag \in Flags
    PROVE  Flow(sc, n, g, f, Flag(w, flag), i, o)
<1>. DEFINE v == Flag(w, flag)
<1>1. w \in Worlds /\ i \in Seq(RequestUnit) /\ FileOK(w.conn.file) /\ ToSend(w.conn) \in Nat
  BY FlowTypes
<1>2. v \in Worlds /\ SameInput(w, v) /\ SameRest(w, v) /\ v.conn.send = w.conn.send /\ v.conn.file = w.conn.file
  BY <1>1, FlagIs
<1>. HIDE DEF v
<1>3. /\ FileOK(v.conn.file) /\ v.handled = w.handled /\ v.conn.recv = w.conn.recv /\ v.conn.rcvd = w.conn.rcvd
      /\ ToSend(v.conn) = ToSend(w.conn) /\ (Idle(w, o) => Idle(v, o))
  BY <1>1, <1>2 DEF SameInput, SameRest, ToSend, Idle
<1>4. Len(o) + ToSend(v.conn) <= Len(o) + ToSend(w.conn) /\ ToSend(v.conn) \in Nat
  BY <1>1, <1>3, LenProperties
<1>5. Flow(sc, n, g, f, v, i, o)
  BY <1>1, <1>2, <1>3, <1>4, FlowOut
<1>. QED
  BY <1>5 DEF v

LEMMA FlowWrite ==
    ASSUME NEW sc, NEW n, NEW g \in Nat, NEW f, NEW w, NEW i, NEW o \in Seq(AnswerUnit), Flow(sc, n, g, f, w, i, o),
           NEW m \in 0..Len(w.conn.send), NEW p, p = o \/ p = o \o SubSeq(w.conn.send, 1, m)
    PROVE  Flow(sc, n, g, f, Written(w, m), i, p)
<1>. DEFINE v == Written(w, m)
            s == w.conn.send
            a == SubSeq(s, 1, m)
<1>1. w \in Worlds /\ i \in Seq(RequestUnit) /\ FileOK(w.conn.file) /\ s \in Seq(AnswerUnit) /\ Len(s) \in Nat
      /\ Rest(w.conn.file) \in Nat /\ ToSend(w.conn) = Len(s) + Rest(w.conn.file)
  BY FlowTypes
<1>2. /\ v \in Worlds /\ SameInput(w, v) /\ SameRest(w, v) /\ v.conn.file = w.conn.file
      /\ v.conn.send = SubSeq(s, m + 1, Len(s))
  <2>. w \in Worlds
    BY <1>1
  <2>. QED
    BY WrittenIs
<1>. HIDE DEF v
<1>3. FileOK(v.conn.file) /\ v.handled = w.handled /\ v.conn.recv = w.conn.recv /\ v.conn.rcvd = w.conn.rcvd
  BY <1>1, <1>2 DEF SameInput, SameRest
<1>4. Len(v.conn.send) = Len(s) - m /\ Len(a) = m /\ a \in Seq(AnswerUnit) /\ m \in Nat /\ m <= Len(s)
  BY <1>1, <1>2, Cut
<1>5. p \in Seq(AnswerUnit) /\ Len(p) <= Len(o) + m /\ Len(p) \in Nat /\ Len(o) \in Nat /\ (m = 0 => Len(p) = Len(o))
  <2>1. CASE p = o
    BY <1>4, <2>1, LenProperties
  <2>2. CASE p = o \o a
    <3>. a \in Seq(AnswerUnit)
      BY <1>4
    <3>1. o \o a \in Seq(AnswerUnit) /\ Len(o \o a) = Len(o) + Len(a) /\ Len(o) \in Nat
      BY Join, LenProperties
    <3>. QED
      BY <1>4, <2>2, <3>1
  <2>. QED
    BY <2>1, <2>2
<1>6. ToSend(v.conn) = Len(s) - m + Rest(w.conn.file)
  BY <1>2, <1>4 DEF ToSend
<1>7. ToSend(v.conn) \in Nat /\ Len(p) + ToSend(v.conn) <= Len(o) + ToSend(w.conn)
  <2>. HIDE DEF s, a
  <2>. QED
    BY <1>1, <1>4, <1>5, <1>6
<1>8. Idle(w, o) => Idle(v, p)
  <2>. SUFFICES ASSUME Idle(w, o) PROVE Idle(v, p)
    OBVIOUS
  <2>1. Len(o) = 0 /\ Len(s) = 0 /\ ~w.conn.file.open
    BY DEF Idle
  <2>. HIDE DEF s, a
  <2>2. m = 0
    BY <1>1, <1>4, <2>1
  <2>. QED
    BY <1>2, <1>4, <1>5, <2>1, <2>2 DEF Idle
<1>9. Flow(sc, n, g, f, v, i, p)
  <2>. HIDE DEF s, a
  <2>1. v.conn.rcvd <= Len(v.conn.recv) \/ ~(w.conn.rcvd <= Len(w.conn.recv))
    BY <1>3
  <2>2. v.conn.recv \o i = w.conn.recv \o i
    BY <1>3
  <2>. QED
    BY <1>1, <1>2, <1>3, <1>5, <1>7, <1>8, <2>1, <2>2, FlowOut
<1>. QED
  BY <1>9 DEF v

LEMMA FlowKept ==
    ASSUME NEW c \in Conns, NEW sc, NEW n, NEW g \in Nat, NEW f
    PROVE  Keeps(c, FlowStates(sc, n, g, f)) /\ FlowStates(sc, n, g, f) \in SUBSET States
<1>. DEFINE G == FlowStates(sc, n, g, f)
<1>0. Keeps(c, States)
  BY StatesKept
<1>1. ASSUME NEW w, NEW i, NEW o, St(w, i, o) \in G
      PROVE  St(w, i, o) \in States /\ Flow(sc, n, g, f, w, i, o) /\ o \in Seq(AnswerUnit)
             /\ w \in Worlds /\ FileOK(w.conn.file)
  BY <1>1, InFlow, InStates
<1>2. ASSUME NEW w, NEW i, NEW o, St(w, i, o) \in States, Flow(sc, n, g, f, w, i, o) PROVE St(w, i, o) \in G
  BY <1>2, InFlow
<1>. HIDE DEF G
<1>3. KeepsTransfer(G)
  <2>. SUFFICES ASSUME NEW w, NEW i, NEW o, St(w, i, o) \in G
                PROVE  St(mg_http_transfer_file_data(w), i, o) \in G
    BY DEF KeepsTransfer
  <2>1. Flow(sc, n, g, f, mg_http_transfer_file_data(w), i, o)
    BY <1>1, FlowTransfer
  <2>2. St(mg_http_transfer_file_data(w), i, o) \in States
    BY <1>0, <1>1 DEF Keeps, KeepsTransfer
  <2>. QED
    BY <1>2, <2>1, <2>2
<1>4. KeepsReceive(G)
  <2>. SUFFICES ASSUME NEW w, NEW i, NEW o, St(w, i, o) \in G, NEW m \in 1..Len(i)
                PROVE  St(Received(w, SubSeq(i, 1, m), m), SubSeq(i, m + 1, Len(i)), o) \in G
    BY DEF KeepsReceive
  <2>1. Flow(sc, n, g, f, Received(w, SubSeq(i, 1, m), m), SubSeq(i, m + 1, Len(i)), o)
    BY <1>1, FlowReceive
  <2>2. St(Received(w, SubSeq(i, 1, m), m), SubSeq(i, m + 1, Len(i)), o) \in States
    BY <1>0, <1>1 DEF Keeps, KeepsReceive
  <2>. QED
    BY <1>2, <2>1, <2>2
<1>5. KeepsParse(G)
  <2>. SUFFICES ASSUME NEW w, NEW i, NEW o, St(w, i, o) \in G, NEW other \in Diaries \cup {0}
                PROVE  St(Parsed(w, mg_parse_http(w.conn.recv), other), i, o) \in G
    BY DEF KeepsParse
  <2>. DEFINE v == Parsed(w, mg_parse_http(w.conn.recv), other)
  <2>1. PICK len \in Int : HeadOf(w.conn.recv, len) /\ Parses(w, v, len) /\ Outcome(w, v, len)
    BY <1>1, ParsedOutcome
  <2>2. St(v, i, o) \in States
    BY <1>0, <1>1 DEF Keeps, KeepsParse
  <2>. HIDE DEF v
  <2>3. Flow(sc, n, g, f, v, i, o)
    BY <1>1, <2>1, FlowParse
  <2>. QED
    BY <1>2, <2>2, <2>3 DEF v
<1>6. KeepsEnd(c, G)
  <2>. SUFFICES ASSUME NEW w, NEW i, NEW o, St(w, i, o) \in G
                PROVE  /\ fin[c] # "open" /\ i = <<>> => St(Flag(w, "SEND_AND_CLOSE"), i, o) \in G
                       /\ fin[c] = "gone" => St(Flag(w, "CLOSE_IMMEDIATELY"), i, o) \in G
    BY DEF KeepsEnd
  <2>1. Flow(sc, n, g, f, Flag(w, "SEND_AND_CLOSE"), i, o) /\ Flow(sc, n, g, f, Flag(w, "CLOSE_IMMEDIATELY"), i, o)
    BY <1>1, FlowFlag DEF Flags
  <2>2. /\ fin[c] # "open" /\ i = <<>> => St(Flag(w, "SEND_AND_CLOSE"), i, o) \in States
        /\ fin[c] = "gone" => St(Flag(w, "CLOSE_IMMEDIATELY"), i, o) \in States
    BY <1>0, <1>1 DEF Keeps, KeepsEnd
  <2>. QED
    BY <1>2, <2>1, <2>2
<1>7. KeepsWrite(c, G)
  <2>. SUFFICES ASSUME NEW w, NEW i, NEW o, St(w, i, o) \in G, NEW m \in 0..Len(w.conn.send)
                PROVE  St(Written(w, m), i, Reads(c, o, SubSeq(w.conn.send, 1, m))) \in G
    BY DEF KeepsWrite
  <2>. DEFINE p == Reads(c, o, SubSeq(w.conn.send, 1, m))
  <2>1. St(Written(w, m), i, p) \in States
    BY <1>0, <1>1 DEF Keeps, KeepsWrite
  <2>2. p = o \/ p = o \o SubSeq(w.conn.send, 1, m)
    BY DEF Reads
  <2>. HIDE DEF p
  <2>3. Flow(sc, n, g, f, Written(w, m), i, p)
    BY <1>1, <2>2, FlowWrite
  <2>. QED
    BY <1>2, <2>1, <2>3 DEF p
<1>8. G \in SUBSET States
  BY DEF G, FlowStates
<1>. QED
  BY <1>3, <1>4, <1>5, <1>6, <1>7, <1>8 DEF Keeps, G

-----------------------------------------------------------------------------
\* The world of c, or what it is before it is accepted.
ConWorld(c) == [conn |-> Con(c), likes |-> likes, handled |-> handled[c], aborted |-> aborted]

FlowOf(c) == Flow(script[c], sent[c], Len(got[c]), fin[c], ConWorld(c), toServer[c], toClient[c])

FlowAt(c) == Numbered(handled[c], sent[c]) /\ (~Closed(c) => FlowOf(c))

FlowInv == \A c \in Conns : FlowAt(c)

LEMMA ConWorldIs ==
    ASSUME TypeInv, NEW c \in Conns
    PROVE  /\ ConWorld(c) \in Worlds /\ ConWorld(c).conn = Con(c) /\ ConWorld(c).handled = handled[c]
           /\ FileOK(Con(c).file) /\ (conns[c] # NULL => ConWorld(c) = World(c))
           /\ Len(got[c]) \in Nat /\ got[c] \in Seq(AnswerUnit) /\ toClient[c] \in Seq(AnswerUnit)
           /\ toServer[c] \in Seq(RequestUnit) /\ sent[c] \in Nat /\ handled[c] \in Marks
           /\ script[c] \in Seq(Requests) /\ Scripted(script[c]) /\ sent[c] \in 0..Len(script[c])
<1>1. Con(c) \in Connection /\ FileOK(Con(c).file) /\ handled[c] \in Marks
      /\ got[c] \in Seq(AnswerUnit) /\ toClient[c] \in Seq(AnswerUnit) /\ toServer[c] \in Seq(RequestUnit)
  BY ConType
<1>2. likes \in LikeCounts /\ aborted \in BOOLEAN
  BY DEF TypeInv, ServerType
<1>3. ConWorld(c) \in Worlds /\ ConWorld(c).conn = Con(c) /\ ConWorld(c).handled = handled[c]
  BY <1>1, <1>2 DEF ConWorld, Worlds
<1>4. conns[c] # NULL => ConWorld(c) = World(c)
  BY DEF ConWorld, World, Con
<1>5. script[c] \in Seq(Requests) /\ Scripted(script[c]) /\ sent[c] \in Nat /\ sent[c] <= Len(script[c])
  BY ScriptedIs DEF TypeInv, BrowserType
<1>6. sent[c] \in 0..Len(script[c]) /\ Len(got[c]) \in Nat
  BY <1>1, <1>5, LenProperties
<1>. QED
  BY <1>1, <1>3, <1>4, <1>5, <1>6

\* A flow depends on nothing but what it mentions.
LEMMA FlowSame ==
    ASSUME NEW sc, NEW n, NEW g, NEW f, NEW w, NEW v, NEW i, NEW o, Flow(sc, n, g, f, w, i, o),
           v \in Worlds, v.conn = w.conn, v.handled = w.handled
    PROVE  Flow(sc, n, g, f, v, i, o)
BY DEF Flow, Stream, Idle

\* Of the end of the browser, only whether it still writes matters.
LEMMA FlowEnd ==
    ASSUME NEW sc, NEW n, NEW g, NEW f, NEW w, NEW i, NEW o, Flow(sc, n, g, "new", w, i, o)
    PROVE  Flow(sc, n, g, "open", w, i, o)
BY DEF Flow, Stream, Streams

LEMMA FlowAfter ==
    ASSUME TypeInv', NEW c \in Conns, SameScript(c), Numbered(handled'[c], sent'[c]),
           Closed(c)' \/ \E w : /\ Flow(script[c], sent'[c], Len(got'[c]), fin'[c], w, toServer'[c], toClient'[c])
                                /\ w.conn = ConAfter(c) /\ w.handled = handled'[c]
    PROVE  FlowAt(c)'
<1>1. CASE Closed(c)'
  BY <1>1 DEF FlowAt, Numbered
<1>2. CASE \E w : /\ Flow(script[c], sent'[c], Len(got'[c]), fin'[c], w, toServer'[c], toClient'[c])
                  /\ w.conn = ConAfter(c) /\ w.handled = handled'[c]
  <2>1. PICK w : /\ Flow(script[c], sent'[c], Len(got'[c]), fin'[c], w, toServer'[c], toClient'[c])
                 /\ w.conn = ConAfter(c) /\ w.handled = handled'[c]
    BY <1>2
  <2>2. /\ conns' \in [Conns -> Connection \cup {NULL}] /\ likes' \in LikeCounts /\ aborted' \in BOOLEAN
        /\ handled' \in [Conns -> Marks]
    BY DEF TypeInv, ServerType, LikeCounts, Marks
  <2>3. ConWorld(c)' \in Worlds /\ ConWorld(c)'.conn = ConAfter(c) /\ ConWorld(c)'.handled = handled'[c]
    <3>1. ConAfter(c) \in Connection
      BY <2>2, CreatedIs DEF ConAfter
    <3>2. ConWorld(c)' = [conn |-> ConAfter(c), likes |-> likes', handled |-> handled'[c], aborted |-> aborted']
      BY DEF ConWorld, Con, ConAfter
    <3>. QED
      BY <2>2, <3>1, <3>2 DEF Worlds
  <2>. DEFINE u == ConWorld(c)'
  <2>4. u \in Worlds /\ u.conn = w.conn /\ u.handled = w.handled
    BY <2>1, <2>3
  <2>. HIDE DEF u
  <2>5. Flow(script[c], sent'[c], Len(got'[c]), fin'[c], u, toServer'[c], toClient'[c])
    BY <2>1, <2>4, FlowSame
  <2>6. FlowOf(c)'
    BY <2>5 DEF FlowOf, u, SameScript
  <2>7. Numbered(handled[c], sent[c])'
    BY DEF Numbered
  <2>. QED
    BY <2>6, <2>7 DEF FlowAt
<1>. QED
  BY <1>1, <1>2

\* The head of a request that is in a buffer is the next one's.
LEMMA FlowHead ==
    ASSUME NEW sc, NEW n, NEW g, NEW f, NEW w, NEW i, NEW o, Flow(sc, n, g, f, w, i, o),
           NEW len \in Int, len > 0, HeadOf(w.conn.recv, len)
    PROVE  /\ Len(w.handled) < n /\ Len(w.handled) + 1 \in 1..Len(sc) /\ w.conn.recv[1].req = sc[Len(w.handled) + 1]
           /\ len = sc[Len(w.handled) + 1].lines + 1 /\ sc[Len(w.handled) + 1].uri # "malformed"
<1>. DEFINE k == Len(w.handled)
            req == sc[k + 1]
            recv == w.conn.recv
<1>1. Scripted(sc) /\ n \in 0..Len(sc) /\ k \in 0..n /\ i \in Seq(RequestUnit) /\ w \in Worlds
      /\ recv \in Seq(RequestUnit) /\ Len(sc) \in Nat /\ Streams(sc, n, f, k, recv \o i)
  BY FlowTypes, WorldIs DEF Flow, Stream
<1>. HIDE DEF k
<1>2. len \in 1..Len(recv) /\ Len(recv) \in Nat
  BY <1>1, LenProperties DEF HeadOf
<1>3. recv \o i # <<>>
  <2>. recv \in Seq(RequestUnit) /\ i \in Seq(RequestUnit)
    BY <1>1
  <2>1. recv # <<>>
    BY <1>2, EmptySeq
  <2>. QED
    BY <2>1, ConcatEqualIffEmpty
<1>4. recv \o i \in Seq(RequestUnit)
  BY <1>1, ConcatProperties
<1>5. k < n
  BY <1>1, <1>3, <1>4, StreamsMore
<1>6. k + 1 \in 1..Len(sc)
  BY <1>1, <1>5
<1>7. req \in Requests /\ req.lines \in Nat /\ req.lines > 0
  BY <1>1, <1>6, ScriptedReq
<1>8. Headed(req, recv)
  <2>1. Headed(req, recv \o i)
    BY <1>1, <1>4, <1>5, StreamsHeaded
  <2>. QED
    BY <1>1, <2>1, HeadedPart
<1>9. len = req.lines + 1 /\ recv[1].req = req /\ req.uri # "malformed"
  <2>. HIDE DEF req
  <2>. QED
    BY <1>1, <1>7, <1>8, HeadFound
<1>. QED
  BY <1>5, <1>6, <1>9 DEF k

\* A request is written after the others.
LEMMA StraightMore ==
    ASSUME NEW sc, Scripted(sc), NEW n \in Nat, n < Len(sc), NEW k \in 0..n, NEW s \in Seq(RequestUnit),
           Straight(sc, k, n, s), Len(s) >= Start(sc, n) - Start(sc, k)
    PROVE  LET t == s \o Encoded(sc[n + 1])
           IN  Straight(sc, k, n + 1, t) /\ Len(t) = Start(sc, n + 1) - Start(sc, k)
<1>. DEFINE e == Encoded(sc[n + 1])
            t == s \o e
            X == Start(sc, k)
            Y == Start(sc, n)
            Z == Start(sc, n + 1)
            L == Len(s)
            M == Len(e)
<1>1. Len(sc) \in Nat /\ n + 1 \in 1..Len(sc) /\ n + 1 \in 0..Len(sc) /\ (n + 1) - 1 = n /\ n \in 0..Len(sc)
      /\ k \in 0..Len(sc) /\ n + 1 > 0 /\ n + 1 \in n..Len(sc) /\ n + 1 \in (n + 1)..Len(sc)
  BY LenProperties DEF Scripted
<1>2. e \in Seq(RequestUnit) /\ M \in Nat
  BY <1>1, ScriptedReq
<1>3. X \in Nat /\ Y \in Nat /\ Z \in Nat /\ Z = Y + M
  <2>1. X \in Nat
    BY <1>1, WroteIs
  <2>2. Y \in Nat
    BY <1>1, WroteIs
  <2>3. Z \in Nat /\ Z = Y + M
    BY <1>1, WroteIs
  <2>. QED
    BY <2>1, <2>2, <2>3
<1>4. \A q \in 1..Y : Wrote(sc, n + 1)[q] = Wrote(sc, n)[q]
  BY <1>1, WroteGrows
<1>5. \A q \in 1..M : Wrote(sc, n + 1)[Y + q] = e[q]
  BY <1>1, WroteAt
<1>6. \A q \in 1..L : s[q] = Wrote(sc, n)[X + q]
  BY DEF Straight
<1>7. Len(t) = L + M /\ (\A q \in 1..L : t[q] = s[q]) /\ \A q \in 1..M : t[L + q] = e[q]
  <2>. e \in Seq(RequestUnit)
    BY <1>2
  <2>. HIDE DEF e
  <2>. QED
    BY Join
<1>8. L \in Nat /\ L = Y - X
  <2>1. L \in Nat /\ L <= Y - X /\ L >= Y - X
    BY LenProperties DEF Straight
  <2>. HIDE DEF L, X, Y
  <2>. QED
    BY <1>3, <2>1
<1>. HIDE DEF e, t, X, Y, Z, L, M
<1>9. Len(t) = Z - X
  <2>1. L + M = Z - X
    BY <1>2, <1>3, <1>8
  <2>2. Len(t) = L + M
    BY <1>7
  <2>. QED
    BY <2>1, <2>2
<1>10. ASSUME NEW q \in 1..Len(t) PROVE t[q] = Wrote(sc, n + 1)[X + q]
  <2>1. CASE q <= L
    <3>1. q \in 1..L /\ X + q \in 1..Y
      BY <1>2, <1>3, <1>7, <1>8, <2>1
    <3>. QED
      BY <1>4, <1>6, <1>7, <3>1
  <2>2. CASE q > L
    <3>. DEFINE p == q - L
    <3>1. p \in 1..M /\ L + p = q /\ X + q = Y + p
      BY <1>2, <1>3, <1>7, <1>8, <2>2
    <3>. HIDE DEF p
    <3>. QED
      BY <1>5, <1>7, <3>1
  <2>. QED
    BY <1>2, <1>7, <1>8, <2>1, <2>2
<1>11. Straight(sc, k, n + 1, t)
  <2>1. Len(t) <= Z - X
    BY <1>3, <1>9
  <2>. QED
    BY <1>10, <2>1 DEF Straight, X, Z
<1>. QED
  BY <1>9, <1>11 DEF t, e, Z, X

LEMMA Regroup ==
    ASSUME NEW S, NEW a \in Seq(S), NEW b \in Seq(S), NEW d \in Seq(S)
    PROVE  a \o (b \o d) = (a \o b) \o d
BY ConcatAssociative

LEMMA FlowAsk ==
    ASSUME NEW sc, NEW n, NEW g \in Nat, NEW w, NEW i, NEW o \in Seq(AnswerUnit), Flow(sc, n, g, "open", w, i, o),
           n < Len(sc),
           ~sc[n + 1].waits \/ (g >= UpTo(sc, n) /\ \A j \in 1..n : AnswerLen(sc[j]) > 0)
    PROVE  Flow(sc, n + 1, g, "open", w, i \o Encoded(sc[n + 1]), o)
<1>. DEFINE k == Len(w.handled)
            e == Encoded(sc[n + 1])
            recv == w.conn.recv
            s == recv \o i
            U == UpTo(sc, k)
            A == Len(w.conn.send)
            B == Rest(w.conn.file)
            O == Len(o)
<1>1. /\ Scripted(sc) /\ sc \in Seq(Requests) /\ Len(sc) \in Nat /\ n \in 0..Len(sc) /\ k \in 0..n /\ n \in Nat /\ k \in Nat
      /\ i \in Seq(RequestUnit) /\ (AllWait(sc) => n <= k + 1) /\ UpTo(sc, k) \in Nat /\ w \in Worlds
      /\ k \in 0..Len(sc)
  BY FlowTypes
<1>2. A \in Nat /\ B \in Nat /\ ToSend(w.conn) = A + B /\ (w.conn.file.open => B > 0)
  BY FlowTypes
<1>3. recv \in Seq(RequestUnit) /\ Streams(sc, n, "open", k, s) /\ Metered(sc, n, k, w.conn) /\ FileOK(w.conn.file)
  BY <1>1, WorldIs DEF Flow, Stream
<1>4. g + O + ToSend(w.conn) <= U /\ O \in Nat
  BY LenProperties DEF Flow
<1>5. n + 1 \in 1..Len(sc) /\ n + 1 \in 0..Len(sc) /\ k \in 0..(n + 1)
  BY <1>1
<1>6. sc[n + 1] \in Requests /\ e \in Seq(RequestUnit)
  BY <1>1, <1>5, ScriptedReq
<1>7. s \in Seq(RequestUnit)
  BY <1>1, <1>3, ConcatProperties
<1>8. recv \o (i \o e) = s \o e
  <2>. HIDE DEF recv, e, s, k, A, B, O, U
  <2>. recv \in Seq(RequestUnit)
    BY <1>3
  <2>. i \in Seq(RequestUnit)
    BY <1>1
  <2>. e \in Seq(RequestUnit)
    BY <1>6
  <2>1. recv \o (i \o e) = (recv \o i) \o e
    BY Regroup
  <2>. QED
    BY <2>1 DEF s
<1>9. ASSUME AllWait(sc) PROVE k = n /\ Idle(w, o) /\ s = <<>>
  <2>1. g >= UpTo(sc, n) /\ \A j \in 1..n : AnswerLen(sc[j]) > 0
    BY <1>5, <1>9 DEF AllWait
  <2>2. UpTo(sc, n) \in Nat
    BY <1>1, UpToIs
  <2>3. k < n => U < UpTo(sc, n)
    <3>. n \in k..Len(sc)
      BY <1>1
    <3>. HIDE DEF k
    <3>. QED
      BY <1>1, <2>1, UpToGrows DEF U
  <2>4. k = n
    <3>. HIDE DEF k, U, A, B, O
    <3>1. U \in Nat
      BY <1>1 DEF U
    <3>. QED
      BY <1>1, <1>2, <1>4, <2>1, <2>2, <2>3, <3>1
  <2>5. U = UpTo(sc, n)
    BY <2>4
  <2>6. A = 0 /\ B = 0 /\ O = 0
    <3>. HIDE DEF k, U, A, B, O
    <3>. QED
      BY <1>2, <1>4, <2>1, <2>2, <2>5
  <2>7. Straight(sc, n, n, s)
    <3>. HIDE DEF s, k
    <3>1. ~(k < n)
      BY <1>1, <2>4
    <3>. QED
      BY <1>3, <2>4, <3>1 DEF Streams
  <2>8. s = <<>>
    <3>. HIDE DEF s
    <3>. QED
      BY <1>1, <1>7, <2>7, StraightEmpty
  <2>. QED
    BY <1>2, <2>4, <2>6, <2>8 DEF Idle
<1>10. Streams(sc, n + 1, "open", k, s \o e)
  <2>1. CASE k < n + 1 /\ sc[k + 1].enc = "chunked"
    <3>1. AllWait(sc)
      <4>1. k + 1 \in 1..Len(sc)
        BY <1>1
      <4>. QED
        BY <1>1, <2>1, <4>1 DEF Scripted
    <3>2. k = n /\ s = <<>>
      BY <1>9, <3>1
    <3>3. s \o e = e
      BY <1>6, <3>2, ConcatEmptySeq
    <3>4. Chunky(sc[n + 1], e)
      BY <1>6, EncodedHeaded
    <3>. HIDE DEF k, s, e
    <3>5. Chunky(sc[k + 1], s \o e)
      BY <3>2, <3>3, <3>4
    <3>. QED
      BY <2>1, <3>5 DEF Streams
  <2>2. CASE ~(k < n + 1 /\ sc[k + 1].enc = "chunked")
    <3>1. ~(k < n /\ sc[k + 1].enc = "chunked")
      BY <1>1, <2>2
    <3>2. Straight(sc, k, n, s) /\ Len(s) = Start(sc, n) - Start(sc, k)
      BY <1>3, <3>1 DEF Streams
    <3>. HIDE DEF k, s
    <3>3. Len(s) >= Start(sc, n) - Start(sc, k)
      <4>1. Len(s) \in Nat
        BY <1>7, LenProperties
      <4>. QED
        BY <3>2, <4>1
    <3>4. Straight(sc, k, n + 1, s \o e) /\ Len(s \o e) = Start(sc, n + 1) - Start(sc, k)
      BY <1>1, <1>7, <3>2, <3>3, StraightMore
    <3>. HIDE DEF e
    <3>. QED
      BY <2>2, <3>4 DEF Streams
  <2>. QED
    BY <2>1, <2>2
<1>11. Metered(sc, n + 1, k, w.conn)
  <2>. HIDE DEF k
  <2>1. k < n + 1
    BY <1>1
  <2>. QED
    BY <1>3, <2>1 DEF Metered
<1>12. AllWait(sc) => n + 1 <= k + 1
  <2>. HIDE DEF k
  <2>. QED
    BY <1>1, <1>9
<1>13. i \o e \in Seq(RequestUnit)
  BY <1>1, <1>6, ConcatProperties
<1>14. Stream(sc, n + 1, "open", k, w, i \o e)
  <2>. HIDE DEF k, s, e
  <2>. QED
    BY <1>1, <1>3, <1>5, <1>8, <1>10, <1>11, <1>12, <1>13 DEF Stream
<1>15. Numbered(w.handled, n + 1)
  BY <1>1 DEF Flow, Numbered
<1>. QED
  BY <1>4, <1>9, <1>14, <1>15 DEF Flow

LEMMA CutConcat ==
    ASSUME NEW S, NEW r \in Seq(S), NEW i \in Seq(S), NEW m \in 0..Len(i)
    PROVE  r \o SubSeq(i, 1, m) = SubSeq(r \o i, 1, Len(r) + m)
<1>. DEFINE a == SubSeq(i, 1, m)
            b == SubSeq(i, m + 1, Len(i))
            s == r \o i
            t == r \o a
            l == Len(r) + m
            u == SubSeq(s, 1, l)
<1>1. Len(r) \in Nat /\ Len(i) \in Nat /\ m \in Nat /\ m <= Len(i)
  BY LenProperties
<1>2. a \in Seq(S) /\ b \in Seq(S) /\ Len(a) = m /\ a \o b = i
  BY Cut, CutJoin
<1>. HIDE DEF a, b
<1>3. s = t \o b
  <2>. a \in Seq(S) /\ b \in Seq(S)
    BY <1>2
  <2>1. r \o (a \o b) = (r \o a) \o b
    BY Regroup
  <2>. QED
    BY <1>2, <2>1
<1>4. s \in Seq(S) /\ Len(s) = Len(r) + Len(i)
  BY Join
<1>5. t \in Seq(S) /\ Len(t) = l
  <2>. a \in Seq(S)
    BY <1>2
  <2>1. t \in Seq(S) /\ Len(t) = Len(r) + Len(a)
    BY Join
  <2>. QED
    BY <1>2, <2>1
<1>. HIDE DEF s, t
<1>6. l \in 0..Len(s) /\ l \in Nat
  BY <1>1, <1>4
<1>. HIDE DEF l
<1>7. \A q \in 1..l : s[q] = t[q]
  <2>. t \in Seq(S) /\ b \in Seq(S)
    BY <1>2, <1>5
  <2>1. \A q \in 1..Len(t) : (t \o b)[q] = t[q]
    BY Join
  <2>. QED
    BY <1>3, <1>5, <2>1
<1>8. u \in Seq(S) /\ Len(u) = l /\ \A q \in 1..l : u[q] = s[q]
  BY <1>4, <1>6, Cut
<1>. HIDE DEF u
<1>9. t = u
  <2>1. Len(t) = Len(u) /\ \A q \in 1..Len(t) : t[q] = u[q]
    BY <1>5, <1>7, <1>8
  <2>. QED
    BY <1>5, <1>8, <2>1, SeqEqual
<1>. QED
  BY <1>9 DEF t, u, a, s, l

\* A browser leaves, and some of what it wrote is lost.
LEMMA FlowLeave ==
    ASSUME NEW sc, NEW n, NEW g \in Nat, NEW f, NEW w, NEW i, NEW o \in Seq(AnswerUnit), Flow(sc, n, g, f, w, i, o),
           NEW m \in 0..Len(i), NEW h, h \notin {"new", "open"}, NEW p, p = o \/ p = <<>>
    PROVE  Flow(sc, n, g, h, w, SubSeq(i, 1, m), p)
<1>. DEFINE k == Len(w.handled)
            recv == w.conn.recv
            s == recv \o i
            a == SubSeq(i, 1, m)
            l == Len(recv) + m
<1>1. Scripted(sc) /\ n \in 0..Len(sc) /\ k \in 0..Len(sc) /\ i \in Seq(RequestUnit) /\ w \in Worlds
      /\ UpTo(sc, k) \in Nat /\ ToSend(w.conn) \in Nat /\ Len(w.conn.send) \in Nat
  BY FlowTypes
<1>2. recv \in Seq(RequestUnit) /\ Streams(sc, n, f, k, s) /\ Len(recv) \in Nat
  BY <1>1, WorldIs DEF Flow, Stream
<1>3. Start(sc, n) \in Nat /\ Start(sc, k) \in Nat
  <2>1. Start(sc, n) \in Nat
    BY <1>1, WroteIs
  <2>. HIDE DEF k
  <2>2. Start(sc, k) \in Nat
    BY <1>1, WroteIs
  <2>. QED
    BY <2>1, <2>2
<1>4. s \in Seq(RequestUnit) /\ Len(s) = Len(recv) + Len(i) /\ Len(i) \in Nat
  <2>. recv \in Seq(RequestUnit) /\ i \in Seq(RequestUnit)
    BY <1>1, <1>2
  <2>. HIDE DEF recv
  <2>. QED
    BY Join, LenProperties
<1>5. a \in Seq(RequestUnit) /\ Len(a) = m /\ \A q \in 1..m : a[q] = i[q]
  BY <1>1, Cut
<1>6. m \in Nat /\ m <= Len(i) /\ l \in 0..Len(s) /\ l \in Nat
  <2>. HIDE DEF recv, s
  <2>. QED
    BY <1>2, <1>4
<1>7. recv \o a = SubSeq(s, 1, l)
  <2>. HIDE DEF recv, k, s, l, a
  <2>. recv \in Seq(RequestUnit)
    BY <1>2
  <2>. i \in Seq(RequestUnit)
    BY <1>1
  <2>1. recv \o SubSeq(i, 1, m) = SubSeq(recv \o i, 1, Len(recv) + m)
    BY CutConcat
  <2>. QED
    BY <2>1 DEF a, s, l
<1>8. Streams(sc, n, h, k, recv \o a)
  <2>. HIDE DEF s, k, l
  <2>1. Streams(sc, n, h, k, SubSeq(s, 1, l))
    BY <1>1, <1>2, <1>3, <1>4, <1>6, StreamsCut
  <2>. QED
    BY <1>7, <2>1
<1>9. Stream(sc, n, h, k, w, a)
  <2>. HIDE DEF a
  <2>. QED
    BY <1>5, <1>8 DEF Flow, Stream
<1>10. Len(p) <= Len(o) /\ Len(p) \in Nat /\ Len(o) \in Nat /\ (Len(o) = 0 => Len(p) = 0)
  <2>1. CASE p = o
    BY <2>1, LenProperties
  <2>2. CASE p = <<>>
    <3>1. Len(p) = 0
      BY <2>2, EmptySeq
    <3>. QED
      BY <3>1, LenProperties
  <2>. QED
    BY <2>1, <2>2
<1>11. g + Len(p) + ToSend(w.conn) <= UpTo(sc, k)
  <2>1. g + Len(o) + ToSend(w.conn) <= UpTo(sc, k)
    BY DEF Flow
  <2>. HIDE DEF k
  <2>. QED
    BY <1>1, <1>10, <2>1
<1>12. Idle(w, o) => Idle(w, p)
  BY <1>10 DEF Idle
<1>. QED
  BY <1>9, <1>11, <1>12 DEF Flow

\* A browser reads what has come.
LEMMA FlowGet ==
    ASSUME NEW sc, NEW n, NEW g \in Nat, NEW f, NEW w, NEW i, NEW o \in Seq(AnswerUnit), Flow(sc, n, g, f, w, i, o)
    PROVE  Flow(sc, n, g + Len(o), f, w, i, <<>>)
<1>1. Len(o) \in Nat /\ Len(<<>>) = 0
  BY LenProperties, EmptySeq
<1>2. ToSend(w.conn) \in Nat /\ UpTo(sc, Len(w.handled)) \in Nat
  BY FlowTypes
<1>3. g + Len(o) + ToSend(w.conn) <= UpTo(sc, Len(w.handled))
  BY DEF Flow
<1>4. (g + Len(o)) + Len(<<>>) + ToSend(w.conn) <= UpTo(sc, Len(w.handled))
  BY <1>1, <1>2, <1>3
<1>5. Idle(w, o) => Idle(w, <<>>)
  BY <1>1 DEF Idle
<1>. QED
  BY <1>4, <1>5 DEF Flow

\* A request that is handled on the close is the next one, too.
LEMMA FlowCloses ==
    ASSUME NEW sc, NEW n, NEW g, NEW f, NEW w, NEW i, NEW o, Flow(sc, n, g, f, w, i, o), NEW v, ClosesWith(w, v)
    PROVE  Numbered(v.handled, n)
<1>1. w \in Worlds /\ Scripted(sc) /\ n \in Nat
  BY FlowTypes
<1>2. Numbered(w.handled, n)
  BY DEF Flow
<1>3. CASE v.handled = w.handled
  BY <1>2, <1>3
<1>4. CASE v.handled # w.handled
  <2>1. PICK len \in 1..Len(w.conn.recv), whole \in BOOLEAN :
             /\ HeadOf(w.conn.recv, len)
             /\ v.handled = Append(w.handled, [req |-> w.conn.recv[1].req.id, whole |-> whole])
    BY <1>4 DEF ClosesWith
  <2>2. len \in Int /\ len > 0
    BY <1>1, WorldIs
  <2>3. Len(w.handled) < n /\ Len(w.handled) + 1 \in 1..Len(sc) /\ w.conn.recv[1].req = sc[Len(w.handled) + 1]
    BY <2>1, <2>2, FlowHead
  <2>4. w.conn.recv[1].req.id = Len(w.handled) + 1 /\ w.handled \in Marks
    BY <1>1, <2>3, ScriptedReq, WorldIs
  <2>5. Numbered(Append(w.handled, [req |-> Len(w.handled) + 1, whole |-> whole]), n)
    BY <1>1, <1>2, <2>3, <2>4, NumberedMore
  <2>. QED
    BY <2>1, <2>4, <2>5
<1>. QED
  BY <1>3, <1>4

LEMMA FlowStep == ASSUME TypeInv, TypeInv', NEW c \in Conns, FlowAt(c), StepOf(c) PROVE FlowAt(c)'
<1>. DEFINE sc == script[c]
            n == sent[c]
            g == Len(got[c])
            f == fin[c]
            w == ConWorld(c)
            i == toServer[c]
            o == toClient[c]
            h == handled[c]
<1>0. /\ w \in Worlds /\ w.conn = Con(c) /\ w.handled = h /\ g \in Nat /\ o \in Seq(AnswerUnit) /\ n \in Nat
      /\ Scripted(sc) /\ Numbered(h, n) /\ sc \in Seq(Requests) /\ got[c] \in Seq(AnswerUnit)
      /\ i \in Seq(RequestUnit) /\ h \in Marks
  BY ConWorldIs DEF FlowAt
<1>1. CASE Quiet(c)
  <2>1. /\ SameScript(c) /\ ConAfter(c) = Con(c) /\ handled'[c] = h /\ (Closed(c)' <=> Closed(c))
        /\ toServer'[c] = i /\ toClient'[c] = o /\ sent'[c] = n /\ got'[c] = got[c]
        /\ fin'[c] = f \/ (f = "new" /\ fin'[c] = "open")
    BY <1>1 DEF Quiet, SameCon
  <2>2. ~Closed(c) => Flow(sc, n, g, fin'[c], w, i, o)
    BY <2>1, FlowEnd DEF FlowAt, FlowOf
  <2>. HIDE DEF w
  <2>. QED
    BY <1>0, <2>1, <2>2, FlowAfter
<1>2. CASE Serves(c)
  <2>1. World(c) = w /\ conns[c] # NULL /\ ~Closed(c) /\ SameScript(c)
        /\ sent'[c] = n /\ got'[c] = got[c] /\ fin'[c] = f
    BY <1>2, ConWorldIs DEF Serves, Closed
  <2>2. Flow(sc, n, g, f, w, i, o)
    BY <2>1 DEF FlowAt, FlowOf
  <2>. DEFINE G == FlowStates(sc, n, g, f)
  <2>3. St(World(c), i, o) \in G
    <3>1. St(World(c), i, o) \in States
      BY <2>1, ConnIs
    <3>. QED
      BY <2>1, <2>2, <3>1, InFlow
  <2>4. Keeps(c, G) /\ G \in SUBSET States
    <3>. HIDE DEF f, sc, n, g
    <3>. QED
      BY <1>0, FlowKept
  <2>5. PICK v, j, p : /\ St(v, j, p) \in G /\ ConAfter(c) = v.conn /\ handled'[c] = v.handled
                       /\ toServer'[c] = j /\ toClient'[c] = p
    <3>. HIDE DEF G
    <3>. QED
      BY <1>2, <2>3, <2>4, ServesIs
  <2>6. Flow(sc, n, g, f, v, j, p)
    BY <2>5, InFlow
  <2>7. Numbered(v.handled, n)
    BY <2>6 DEF Flow
  <2>. QED
    BY <2>1, <2>5, <2>6, <2>7, FlowAfter
<1>3. CASE Closes(c)
  <2>1. PICK v \in Worlds : ClosesWith(World(c), v) /\ handled'[c] = v.handled
    BY <1>3 DEF Closes
  <2>2. World(c) = w /\ conns[c] # NULL /\ ~Closed(c) /\ SameScript(c) /\ sent'[c] = n /\ Closed(c)'
    BY <1>3, ConWorldIs DEF Closes, Closed
  <2>3. Flow(sc, n, g, f, w, i, o)
    BY <2>2 DEF FlowAt, FlowOf
  <2>4. Numbered(v.handled, n)
    <3>. HIDE DEF w, sc, n, g, f, i, o
    <3>. QED
      BY <2>1, <2>2, <2>3, FlowCloses
  <2>. HIDE DEF w
  <2>. QED
    BY <2>1, <2>2, <2>4, FlowAfter
<1>4. CASE Asks(c)
  <2>1. /\ SameScript(c) /\ ConAfter(c) = Con(c) /\ handled'[c] = h /\ ~Closed(c) /\ toClient'[c] = o
        /\ f = "open" /\ n < Len(sc) /\ sent'[c] = n + 1 /\ toServer'[c] = i \o Encoded(sc[n + 1])
        /\ got'[c] = got[c] /\ fin'[c] = f
        /\ ~sc[n + 1].waits \/ (g >= UpTo(sc, n) /\ \A k \in 1..n : AnswerLen(sc[k]) > 0)
    BY <1>4, AnswerUpToIs DEF Asks, SameCon, Answered
  <2>2. Flow(sc, n, g, "open", w, i, o)
    BY <2>1 DEF FlowAt, FlowOf
  <2>3. Flow(sc, n + 1, g, "open", w, i \o Encoded(sc[n + 1]), o)
    <3>. HIDE DEF w, sc, n, g, f, i, o
    <3>. QED
      BY <1>0, <2>1, <2>2, FlowAsk
  <2>4. Numbered(h, n + 1)
    BY <2>3, <1>0 DEF Flow
  <2>. HIDE DEF w
  <2>. QED
    BY <1>0, <2>1, <2>3, <2>4, FlowAfter
<1>5. CASE Gets(c)
  <2>1. /\ SameScript(c) /\ ConAfter(c) = Con(c) /\ handled'[c] = h /\ (Closed(c)' <=> Closed(c))
        /\ toServer'[c] = i /\ toClient'[c] = <<>> /\ sent'[c] = n /\ got'[c] = got[c] \o o /\ fin'[c] = f
    BY <1>5 DEF Gets, SameCon
  <2>2. Len(got'[c]) = g + Len(o)
    <3>1. Len(got[c] \o o) = g + Len(o)
      BY <1>0, Join
    <3>. QED
      BY <2>1, <3>1
  <2>3. ~Closed(c) => Flow(sc, n, g + Len(o), f, w, i, <<>>)
    <3>. SUFFICES ASSUME ~Closed(c) PROVE Flow(sc, n, g + Len(o), f, w, i, <<>>)
      OBVIOUS
    <3>1. Flow(sc, n, g, f, w, i, o)
      BY DEF FlowAt, FlowOf
    <3>. HIDE DEF w, sc, n, g, f, i, o
    <3>. QED
      BY <1>0, <3>1, FlowGet
  <2>. HIDE DEF w
  <2>. QED
    BY <1>0, <2>1, <2>2, <2>3, FlowAfter
<1>6. CASE Leaves(c)
  <2>1. PICK out \in 0..Len(i) : toServer'[c] = SubSeq(i, 1, out)
    BY <1>6 DEF Leaves
  <2>2. /\ SameScript(c) /\ ConAfter(c) = Con(c) /\ handled'[c] = h /\ (Closed(c)' <=> Closed(c))
        /\ fin'[c] \notin {"new", "open"} /\ sent'[c] = n /\ got'[c] = got[c]
        /\ toClient'[c] = o \/ toClient'[c] = <<>>
    BY <1>6 DEF Leaves, SameCon
  <2>3. ~Closed(c) => Flow(sc, n, g, fin'[c], w, SubSeq(i, 1, out), toClient'[c])
    <3>. SUFFICES ASSUME ~Closed(c) PROVE Flow(sc, n, g, fin'[c], w, SubSeq(i, 1, out), toClient'[c])
      OBVIOUS
    <3>1. Flow(sc, n, g, f, w, i, o)
      BY DEF FlowAt, FlowOf
    <3>. HIDE DEF w, sc, n, g, f, i, o
    <3>. QED
      BY <1>0, <2>2, <3>1, FlowLeave
  <2>. HIDE DEF w
  <2>. QED
    BY <1>0, <2>1, <2>2, <2>3, FlowAfter
<1>. QED
  BY <1>1, <1>2, <1>3, <1>4, <1>5, <1>6 DEF StepOf

LEMMA FlowInit == Init => FlowInv
<1>. SUFFICES ASSUME Init, NEW c \in Conns PROVE FlowAt(c)
  BY DEF FlowInv
<1>. DEFINE sc == script[c]
            w == ConWorld(c)
<1>1. /\ handled[c] = <<>> /\ sent[c] = 0 /\ got[c] = <<>> /\ toServer[c] = <<>> /\ toClient[c] = <<>>
      /\ Con(c) = mg_create_connection /\ fin[c] = "new" /\ TypeInv
  BY InitType DEF Init, Con
<1>2. w \in Worlds /\ w.conn = Con(c) /\ w.handled = <<>> /\ FileOK(Con(c).file) /\ Scripted(sc) /\ sc \in Seq(Requests)
  BY <1>1, ConWorldIs
<1>3. /\ w.conn.recv = <<>> /\ w.conn.send = <<>> /\ w.conn.rcvd = 0 /\ w.conn.file = NoFile
  BY <1>1, <1>2 DEF mg_create_connection
<1>4. Len(sc) \in Nat /\ 0 \in 0..Len(sc) /\ Len(<<>>) = 0 /\ <<>> \in Seq(RequestUnit) /\ <<>> \o <<>> = <<>>
  <2>1. <<>> \in Seq(RequestUnit) /\ <<>> \o <<>> = <<>>
    BY ConcatEmptySeq, EmptySeq
  <2>. QED
    BY <1>2, <2>1, LenProperties, EmptySeq
<1>5. Numbered(<<>>, 0)
  BY <1>4 DEF Numbered
<1>. HIDE DEF w, sc
<1>6. Streams(sc, 0, "new", 0, <<>>)
  BY <1>2, <1>4, StreamsNone
<1>7. Metered(sc, 0, 0, w.conn)
  BY <1>3, <1>4 DEF Metered
<1>8. Stream(sc, 0, "new", 0, w, <<>>)
  BY <1>2, <1>3, <1>4, <1>6, <1>7 DEF Stream
<1>9. UpTo(sc, 0) = 0
  BY <1>2, UpToIs
<1>10. ToSend(w.conn) = 0
  BY <1>3, <1>4, NoFileIs DEF ToSend
<1>11. Idle(w, <<>>)
  BY <1>3, <1>4, NoFileIs DEF Idle
<1>12. Flow(sc, 0, 0, "new", w, <<>>, <<>>)
  BY <1>2, <1>4, <1>5, <1>8, <1>9, <1>10, <1>11 DEF Flow
<1>. QED
  BY <1>1, <1>4, <1>5, <1>12 DEF FlowAt, FlowOf, w, sc

LEMMA FlowAlways == Spec => []FlowInv
<1>1. Init => FlowInv
  BY FlowInit
<1>2. TypeInv /\ TypeInv' /\ FlowInv /\ [Next]_vars => FlowInv'
  <2>. SUFFICES ASSUME TypeInv, TypeInv', FlowInv, [Next]_vars PROVE \A c \in Conns : FlowAt(c)'
    BY DEF FlowInv
  <2>. QED
    BY StepIs, FlowStep DEF FlowInv
<1>. QED
  BY <1>1, <1>2, TypeAlways, PTL DEF Spec

\* The event handler is given the requests of a connection in the order the
\* browser made them, each of them once and none it has not begun, however
\* recv() cuts the stream up, whatever chunks mg_handle_chunked has collapsed,
\* and also when MG_EV_CLOSE makes it handle what is buffered.
THEOREM OrderCorrect == Spec => []HandledOnceInOrder
<1>1. TypeInv /\ FlowInv => HandledOnceInOrder
  <2>. SUFFICES ASSUME TypeInv, FlowInv, NEW c \in Conns
                PROVE  Len(handled[c]) <= sent[c] /\ \A i \in DOMAIN handled[c] : handled[c][i].req = i
    BY DEF HandledOnceInOrder
  <2>1. Numbered(handled[c], sent[c])
    BY DEF FlowInv, FlowAt
  <2>2. DOMAIN handled[c] = 1..Len(handled[c])
    BY ConWorldIs, LenProperties DEF Marks
  <2>. QED
    BY <2>1, <2>2 DEF Numbered
<1>. QED
  BY <1>1, TypeAlways, FlowAlways, PTL
=============================================================================
