-------------------------- MODULE HttpAnswerProofs --------------------------
(***************************************************************************)
(* What a browser gets from HttpServer, for any browsers, scripts and      *)
(* sizes of buffers: the answers leave in the order of the requests,       *)
(* whole, and a connection is closed after the last of them.  The          *)
(* assertion on chunked bodies holds until a second one comes.             *)
(***************************************************************************)
EXTENDS HttpServerProofs

-----------------------------------------------------------------------------
(***************************************************************************)
(* The stream of a connection to its browser: the answers to the requests  *)
(* that were handled, whole and in order.  A unit says by itself where it  *)
(* belongs.                                                                *)
(***************************************************************************)
\* The place of u in the answers to the first k requests of sc is q.
PlaceOf(sc, k, u, q) ==
    u.req \in 1..k /\ u.n \in 1..AnswerLen(sc[u.req]) /\ UpTo(sc, u.req - 1) + u.n = q

Placed(sc, k, s) == \A q \in 1..Len(s) : PlaceOf(sc, k, s[q], q)

\* conn has to send what follows pre: the answers to the first k requests, but
\* for the rest of the file of the last.
Told(sc, k, pre, conn) ==
    /\ Placed(sc, k, pre \o conn.send)
    /\ conn.file.open =>
          /\ k \in 1..Len(sc) /\ sc[k].uri = "file" /\ conn.file.req = k /\ conn.file.pos = conn.file.sent
          /\ Len(pre) + Len(conn.send) = UpTo(sc, k - 1) + 1 + conn.file.sent
    /\ ~conn.file.open => Len(pre) + Len(conn.send) = UpTo(sc, k)

LEMMA PlacedJoin ==
    ASSUME NEW sc, NEW k, NEW s \in Seq(AnswerUnit), NEW p \in Seq(AnswerUnit), Placed(sc, k, s),
           \A j \in 1..Len(p) : PlaceOf(sc, k, p[j], Len(s) + j)
    PROVE  Placed(sc, k, s \o p)
<1>. DEFINE t == s \o p
<1>1. /\ Len(t) = Len(s) + Len(p) /\ (\A i \in 1..Len(s) : t[i] = s[i])
      /\ \A i \in 1..Len(p) : t[Len(s) + i] = p[i]
  BY Join
<1>2. Len(s) \in Nat /\ Len(p) \in Nat
  BY LenProperties
<1>. HIDE DEF t
<1>3. ASSUME NEW q \in 1..Len(t) PROVE PlaceOf(sc, k, t[q], q)
  <2>1. CASE q \in 1..Len(s)
    BY <1>1, <2>1 DEF Placed
  <2>2. CASE q \notin 1..Len(s)
    <3>1. q - Len(s) \in 1..Len(p) /\ Len(s) + (q - Len(s)) = q
      BY <1>1, <1>2, <2>2
    <3>2. t[Len(s) + (q - Len(s))] = p[q - Len(s)]
      BY <1>1, <3>1
    <3>3. PlaceOf(sc, k, p[q - Len(s)], Len(s) + (q - Len(s)))
      BY <3>1
    <3>. QED
      BY <3>1, <3>2, <3>3
  <2>. QED
    BY <2>1, <2>2
<1>. QED
  BY <1>3 DEF Placed, t

LEMMA PlacedNext ==
    ASSUME NEW sc, NEW k \in Nat, NEW s, Placed(sc, k, s)
    PROVE  Placed(sc, k + 1, s)
<1>1. ASSUME NEW u, u \in 1..k PROVE u \in 1..(k + 1)
  BY <1>1
<1>. QED
  BY <1>1 DEF Placed, PlaceOf

\* A file is being read.
Reading(conn) == conn.send \in Seq(AnswerUnit) /\ conn.file \in File /\ conn.file.open /\ FileOK(conn.file)

LEMMA ToldMoves ==
    ASSUME NEW sc, sc \in Seq(Requests), NEW k \in Nat, NEW pre \in Seq(AnswerUnit), NEW i, NEW j, NEW part,
           Reading(i), Told(sc, k, pre, i), Moves(i, j, part)
    PROVE  Told(sc, k, pre, j)
<1>. DEFINE n == Len(part)
            s == pre \o i.send
            S == i.file.sent
            b == UpTo(sc, k - 1)
<1>0. i.send \in Seq(AnswerUnit) /\ i.file \in File /\ i.file.open /\ FileOK(i.file)
  BY DEF Reading
<1>1. part \in Seq(AnswerUnit) /\ j.send = i.send \o part /\ n \in Nat
  BY LenProperties DEF Moves
<1>2. /\ k \in 1..Len(sc) /\ sc[k].uri = "file" /\ i.file.req = k /\ i.file.pos = S /\ Placed(sc, k, s)
  BY <1>0 DEF Told
<1>3. S \in Nat /\ i.file.cl = FileLen /\ S < FileLen /\ FileLen \in Nat /\ n <= FileLen - S
  BY <1>0, FileIs, SizesAre DEF FileOK, Rest, Moves
<1>4. AnswerLen(sc[k]) = 1 + FileLen
  BY <1>2 DEF AnswerLen
<1>5. b \in Nat /\ UpTo(sc, k) = b + (1 + FileLen)
  <2>1. Len(sc) \in Nat
    BY LenProperties
  <2>2. k - 1 \in 0..Len(sc)
    BY <1>2, <2>1
  <2>. QED
    BY <1>2, <1>4, <2>2, UpToIs
<1>6. s \in Seq(AnswerUnit) /\ Len(s) = Len(pre) + Len(i.send)
  BY <1>0, Join
<1>7. Len(j.send) = Len(i.send) + n
  <2>. part \in Seq(AnswerUnit) /\ i.send \in Seq(AnswerUnit)
    BY <1>0, <1>1
  <2>. QED
    BY <1>1, Join
<1>8. pre \o j.send = s \o part
  <2>. part \in Seq(AnswerUnit) /\ i.send \in Seq(AnswerUnit)
    BY <1>0, <1>1
  <2>. DEFINE a == i.send
  <2>. HIDE DEF n, s, S, b, a
  <2>. a \in Seq(AnswerUnit)
    BY <1>0 DEF a
  <2>1. pre \o (a \o part) = (pre \o a) \o part
    BY Regroup
  <2>. QED
    BY <1>1, <2>1 DEF a, s
<1>13. Len(s) = b + 1 + S /\ Len(pre) + Len(j.send) = b + 1 + S + n
  <2>1. Len(pre) \in Nat /\ Len(i.send) \in Nat
    BY <1>0, LenProperties
  <2>2. Len(pre) + Len(i.send) = b + 1 + S
    BY <1>0 DEF Told
  <2>3. n \in Nat /\ b \in Nat /\ S \in Nat /\ Len(s) = Len(pre) + Len(i.send)
    BY <1>1, <1>3, <1>5, <1>6
  <2>. HIDE DEF n, s, S, b
  <2>4. Len(pre) + (Len(i.send) + n) = (Len(pre) + Len(i.send)) + n
    BY <2>1, <2>3
  <2>. QED
    BY <1>7, <2>2, <2>3, <2>4
<1>14. \A q \in 1..n : part[q].req = k /\ part[q].n = 1 + S + q
  <2>1. \A q \in 1..n : part[q] = [req |-> i.file.req, n |-> 1 + i.file.pos + q, num |-> -1]
    BY DEF Moves
  <2>2. \A q \in 1..n : part[q] = [req |-> k, n |-> 1 + S + q, num |-> -1]
    BY <1>2, <2>1
  <2>. HIDE DEF n, s, S, b
  <2>3. ASSUME NEW q \in 1..n PROVE part[q].req = k /\ part[q].n = 1 + S + q
    <3>1. part[q] = [req |-> k, n |-> 1 + S + q, num |-> -1]
      BY <2>2
    <3>2. [req |-> k, n |-> 1 + S + q, num |-> -1].req = k /\ [req |-> k, n |-> 1 + S + q, num |-> -1].n = 1 + S + q
      OBVIOUS
    <3>. QED
      BY <3>1, <3>2
  <2>. QED
    BY <2>3
<1>15. IF S + n < FileLen THEN j.file = FileRead(i.file, n) ELSE j.file = NoFile
  BY <1>3 DEF Moves
<1>. HIDE DEF n, s, S, b
<1>9. ASSUME NEW q \in 1..n PROVE PlaceOf(sc, k, part[q], Len(s) + q)
  <2>1. part[q].req = k /\ part[q].n = 1 + S + q
    BY <1>14
  <2>2. 1 + S + q \in 1..(1 + FileLen) /\ b + (1 + S + q) = Len(s) + q
    BY <1>1, <1>3, <1>5, <1>13
  <2>3. k \in 1..k
    BY <1>2
  <2>4. UpTo(sc, k - 1) + part[q].n = Len(s) + q
    BY <2>1, <2>2 DEF b
  <2>. QED
    BY <2>1, <2>2, <2>3, <2>4, <1>4 DEF PlaceOf
<1>10. Placed(sc, k, pre \o j.send)
  <2>. s \in Seq(AnswerUnit) /\ part \in Seq(AnswerUnit) /\ Placed(sc, k, s)
    BY <1>1, <1>2, <1>6
  <2>. QED
    BY <1>8, <1>9, PlacedJoin DEF n
<1>11. CASE S + n < FileLen
  <2>1. j.file.open /\ j.file.req = k /\ j.file.pos = S + n /\ j.file.sent = S + n
    <3>1. j.file = FileRead(i.file, n)
      BY <1>11, <1>15
    <3>2. j.file = [i.file EXCEPT !.pos = @ + n, !.sent = @ + n]
      BY <3>1 DEF FileRead
    <3>. QED
      BY <1>0, <1>2, <3>2 DEF File, S
  <2>2. Len(pre) + Len(j.send) = b + 1 + (S + n)
    BY <1>1, <1>3, <1>5, <1>13
  <2>. QED
    BY <1>2, <1>10, <2>1, <2>2 DEF Told, b
<1>12. CASE ~(S + n < FileLen)
  <2>1. ~j.file.open
    BY <1>15, <1>12, NoFileIs
  <2>2. S + n = FileLen
    BY <1>1, <1>3, <1>12
  <2>3. b + 1 + S + n = b + (1 + FileLen)
    <3>. n \in Nat /\ b \in Nat /\ S \in Nat /\ FileLen \in Nat
      BY <1>1, <1>3, <1>5
    <3>. QED
      BY <2>2
  <2>4. Len(pre) + Len(j.send) = UpTo(sc, k)
    BY <1>5, <1>13, <2>3
  <2>. QED
    BY <1>10, <2>1, <2>4 DEF Told
<1>. QED
  BY <1>11, <1>12

\* A connection that has nothing left of a file.
Ended(conn) == conn.send \in Seq(AnswerUnit) /\ conn.file = NoFile

LEMMA ToldLast ==
    ASSUME NEW sc, sc \in Seq(Requests), NEW k \in Nat, k + 1 \in 1..Len(sc)
    PROVE  /\ UpTo(sc, k) \in Nat /\ UpTo(sc, k + 1) = UpTo(sc, k) + AnswerLen(sc[k + 1])
           /\ (k + 1) - 1 = k /\ k + 1 \in 1..(k + 1) /\ AnswerLen(sc[k + 1]) \in Nat
<1>1. Len(sc) \in Nat
  BY LenProperties
<1>2. k \in 0..Len(sc) /\ (k + 1) - 1 = k /\ k + 1 \in 1..(k + 1)
  BY <1>1
<1>3. UpTo(sc, k) \in Nat /\ UpTo(sc, k + 1) = UpTo(sc, (k + 1) - 1) + AnswerLen(sc[k + 1])
  BY <1>2, UpToIs
<1>. QED
  BY <1>2, <1>3, AnswerLenType

\* The first units of the answer to the next request.
LEMMA PlacedFirst ==
    ASSUME NEW sc, sc \in Seq(Requests), NEW k \in Nat, k + 1 \in 1..Len(sc),
           NEW s \in Seq(AnswerUnit), NEW p \in Seq(AnswerUnit), Placed(sc, k, s), Len(s) = UpTo(sc, k),
           Len(p) <= AnswerLen(sc[k + 1]), \A q \in 1..Len(p) : p[q].req = k + 1 /\ p[q].n = q
    PROVE  Placed(sc, k + 1, s \o p)
<1>1. /\ UpTo(sc, k) \in Nat /\ (k + 1) - 1 = k /\ k + 1 \in 1..(k + 1) /\ AnswerLen(sc[k + 1]) \in Nat
  BY ToldLast
<1>2. Placed(sc, k + 1, s)
  BY PlacedNext
<1>3. ASSUME NEW q \in 1..Len(p) PROVE PlaceOf(sc, k + 1, p[q], Len(s) + q)
  <2>1. p[q].req = k + 1 /\ p[q].n = q
    OBVIOUS
  <2>2. q \in 1..AnswerLen(sc[k + 1]) /\ q \in Nat
    <3>1. Len(p) \in Nat
      BY LenProperties
    <3>. QED
      BY <1>1, <3>1
  <2>3. UpTo(sc, p[q].req - 1) + p[q].n = Len(s) + q
    BY <1>1, <2>1
  <2>. QED
    BY <1>1, <2>1, <2>2, <2>3 DEF PlaceOf
<1>. QED
  BY <1>2, <1>3, PlacedJoin

LEMMA RegroupUnits == \A a, b, d \in Seq(AnswerUnit) : a \o (b \o d) = (a \o b) \o d
BY Regroup

LEMMA ToldOut ==
    ASSUME NEW sc, sc \in Seq(Requests), NEW k \in Nat, k + 1 \in 1..Len(sc), NEW pre \in Seq(AnswerUnit),
           NEW i, NEW j, Ended(i), Told(sc, k, pre, i), Out(i, j, sc[k + 1]),
           sc[k + 1].id = k + 1, sc[k + 1].uri # "malformed"
    PROVE  Told(sc, k + 1, pre, j)
<1>. DEFINE req == sc[k + 1]
            s == pre \o i.send
            U == UpTo(sc, k)
            L == AnswerLen(req)
<1>1. i.send \in Seq(AnswerUnit) /\ i.file = NoFile /\ ~i.file.open
  BY NoFileIs DEF Ended
<1>2. U \in Nat /\ UpTo(sc, k + 1) = U + L /\ (k + 1) - 1 = k /\ L \in Nat
  BY ToldLast
<1>3. Placed(sc, k, s) /\ Len(pre) + Len(i.send) = U
  BY <1>1 DEF Told
<1>4. s \in Seq(AnswerUnit) /\ Len(s) = U /\ Len(pre) \in Nat /\ Len(i.send) \in Nat
  <2>. i.send \in Seq(AnswerUnit)
    BY <1>1
  <2>. QED
    BY <1>3, Join, LenProperties
\* Units that are sent after the others.
<1>5. ASSUME NEW p \in Seq(AnswerUnit), Len(p) <= L, \A q \in 1..Len(p) : p[q].req = k + 1 /\ p[q].n = q
      PROVE  /\ Placed(sc, k + 1, pre \o (i.send \o p)) /\ i.send \o p \in Seq(AnswerUnit)
             /\ Len(pre) + Len(i.send \o p) = U + Len(p)
  <2>. DEFINE a == i.send
              t == s \o p
  <2>1. a \in Seq(AnswerUnit) /\ Len(a) \in Nat /\ Len(pre) \in Nat /\ Len(pre) + Len(a) = U
    BY <1>1, <1>3, <1>4
  <2>2. Placed(sc, k + 1, t)
    <3>. s \in Seq(AnswerUnit) /\ Placed(sc, k, s) /\ Len(s) = UpTo(sc, k)
      BY <1>3, <1>4
    <3>. HIDE DEF s
    <3>. QED
      BY <1>5, PlacedFirst
  <2>. HIDE DEF a, U, L, s, t, req
  <2>. a \in Seq(AnswerUnit)
    BY <2>1
  <2>3. pre \o (a \o p) = (pre \o a) \o p
    BY RegroupUnits
  <2>4. a \o p \in Seq(AnswerUnit) /\ Len(a \o p) = Len(a) + Len(p) /\ Len(p) \in Nat
    BY Join, LenProperties
  <2>5. Len(pre) + Len(a \o p) = U + Len(p)
    BY <2>1, <2>4
  <2>. QED
    BY <2>2, <2>3, <2>4, <2>5 DEF a, s, t, U
<1>. HIDE DEF s, U, L, req
<1>6. CASE req.uri = "printcontent" /\ j.send = i.send /\ j.file = i.file
  <2>1. L = 0
    BY <1>6 DEF L, AnswerLen
  <2>2. Placed(sc, k + 1, s)
    BY <1>3, PlacedNext
  <2>. QED
    BY <1>1, <1>2, <1>3, <1>6, <2>1, <2>2 DEF Told, s, U
<1>7. CASE req.uri = "file" /\ FileOK(FileOf(i, req)) /\ \E p, part : FirstUnit(p, req) /\ Moves(Opened(i, p, req), j, part)
  <2>1. PICK p, part : FirstUnit(p, req) /\ Moves(Opened(i, p, req), j, part)
    BY <1>7
  <2>. DEFINE o == Opened(i, p, req)
  <2>2. p \in Seq(AnswerUnit) /\ Len(p) = 1 /\ p[1].req = k + 1 /\ p[1].n = 1
    BY <2>1 DEF FirstUnit, req
  <2>3. L = 1 + FileLen /\ FileLen \in Nat
    BY <1>7, SizesAre DEF L, AnswerLen
  <2>4. /\ Placed(sc, k + 1, pre \o (i.send \o p)) /\ i.send \o p \in Seq(AnswerUnit)
        /\ Len(pre) + Len(i.send \o p) = U + 1
    <3>1. Len(p) <= L
      BY <2>2, <2>3
    <3>2. ASSUME NEW q \in 1..Len(p) PROVE p[q].req = k + 1 /\ p[q].n = q
      <4>1. q = 1
        BY <2>2
      <4>. QED
        BY <2>2, <4>1
    <3>. p \in Seq(AnswerUnit)
      BY <2>2
    <3>. QED
      BY <1>5, <2>2, <3>1, <3>2
  <2>5. /\ o.send = i.send \o p /\ o.file = FileOf(i, req) /\ o.file.open /\ o.file.req = k + 1
        /\ o.file.pos = 0 /\ o.file.sent = 0 /\ o.file.cl = FileLen
    BY <1>1 DEF Opened, FileOf, NoFile, req
  <2>6. o.file \in File
    <3>1. Keepalive(req) \in BOOLEAN
      BY DEF Keepalive
    <3>. QED
      BY <1>1, <2>3, <3>1 DEF Opened, FileOf, NoFile, File, req
  <2>7. Reading(o)
    BY <1>7, <2>4, <2>5, <2>6 DEF Reading
  <2>8. Told(sc, k + 1, pre, o)
    <3>1. Len(pre) + Len(o.send) = UpTo(sc, (k + 1) - 1) + 1 + o.file.sent
      BY <1>2, <2>4, <2>5 DEF U
    <3>2. sc[k + 1].uri = "file"
      BY <1>7 DEF req
    <3>. HIDE DEF o
    <3>. QED
      BY <2>4, <2>5, <3>1, <3>2 DEF Told
  <2>. HIDE DEF o
  <2>9. Moves(o, j, part)
    BY <2>1 DEF o
  <2>. QED
    BY <2>7, <2>8, <2>9, ToldMoves
<1>8. CASE req.uri \notin {"printcontent", "file"} /\ j.file = i.file /\ \E p : TwoUnits(p, req) /\ j.send = i.send \o p
  <2>1. PICK p : TwoUnits(p, req) /\ j.send = i.send \o p
    BY <1>8
  <2>2. /\ p \in Seq(AnswerUnit) /\ Len(p) = 2
        /\ p[1].req = k + 1 /\ p[1].n = 1 /\ p[2].req = k + 1 /\ p[2].n = 2
    BY <2>1 DEF TwoUnits, req
  <2>3. L = 2
    BY <1>8 DEF L, AnswerLen, req
  <2>4. Placed(sc, k + 1, pre \o (i.send \o p)) /\ Len(pre) + Len(i.send \o p) = U + 2
    <3>1. Len(p) <= L
      BY <2>2, <2>3
    <3>2. ASSUME NEW q \in 1..Len(p) PROVE p[q].req = k + 1 /\ p[q].n = q
      <4>1. q = 1 \/ q = 2
        BY <2>2
      <4>. QED
        BY <2>2, <4>1
    <3>. p \in Seq(AnswerUnit)
      BY <2>2
    <3>. QED
      BY <1>5, <2>2, <3>1, <3>2
  <2>. QED
    BY <1>1, <1>2, <1>8, <2>1, <2>3, <2>4 DEF Told
<1>. QED
  BY <1>6, <1>7, <1>8 DEF Out, req

\* A flow whose answers are those due, for a browser that waits and is there.
Answers(sc, n, gt, f, w, in, o) ==
    /\ Flow(sc, n, Len(gt), f, w, in, o)
    /\ AllWait(sc) /\ f # "gone" => Told(sc, Len(w.handled), gt \o o, w.conn)

AnswerStates(sc, n, gt, f) == {s \in States : Answers(sc, n, gt, f, s.w, s.in, s.out)}

LEMMA InAnswers ==
    ASSUME NEW sc, NEW n, NEW gt, NEW f, NEW w, NEW i, NEW o
    PROVE  St(w, i, o) \in AnswerStates(sc, n, gt, f) <=> St(w, i, o) \in States /\ Answers(sc, n, gt, f, w, i, o)
BY DEF AnswerStates, St

\* The answers are a matter of what was handled and of the output.
LEMMA AnswersSame ==
    ASSUME NEW sc, NEW n, NEW gt, NEW f, NEW w, NEW v, NEW i, NEW j, NEW o, Answers(sc, n, gt, f, w, i, o),
           Flow(sc, n, Len(gt), f, v, j, o), v.handled = w.handled, v.conn.send = w.conn.send, v.conn.file = w.conn.file
    PROVE  Answers(sc, n, gt, f, v, j, o)
BY DEF Answers, Told

LEMMA AnswersTransfer ==
    ASSUME NEW sc, NEW n, NEW gt \in Seq(AnswerUnit), NEW f, NEW w, NEW i, NEW o \in Seq(AnswerUnit),
           Answers(sc, n, gt, f, w, i, o)
    PROVE  Answers(sc, n, gt, f, mg_http_transfer_file_data(w), i, o)
<1>. DEFINE v == mg_http_transfer_file_data(w)
            k == Len(w.handled)
<1>1. Len(gt) \in Nat /\ Flow(sc, n, Len(gt), f, w, i, o)
  BY LenProperties DEF Answers
<1>2. Flow(sc, n, Len(gt), f, v, i, o)
  BY <1>1, FlowTransfer
<1>3. w \in Worlds /\ FileOK(w.conn.file) /\ w.conn.file \in File /\ w.conn.send \in Seq(AnswerUnit)
      /\ sc \in Seq(Requests) /\ k \in Nat
  BY <1>1, FlowTypes
<1>4. /\ SameRest(w, v)
      /\ \/ v = w
         \/ w.conn.file.open /\ \E part : Moves(w.conn, v.conn, part)
  BY <1>3, TransferIs
<1>. HIDE DEF v
<1>5. CASE v = w
  BY <1>5 DEF v
<1>6. CASE w.conn.file.open /\ \E part : Moves(w.conn, v.conn, part)
  <2>1. PICK part : Moves(w.conn, v.conn, part)
    BY <1>6
  <2>2. Reading(w.conn)
    BY <1>3, <1>6 DEF Reading
  <2>3. gt \o o \in Seq(AnswerUnit)
    BY ConcatProperties
  <2>. DEFINE pre == gt \o o
              a == w.conn
              b == v.conn
  <2>4. Told(sc, k, pre, a) => Told(sc, k, pre, b)
    <3>. sc \in Seq(Requests) /\ k \in Nat /\ pre \in Seq(AnswerUnit) /\ Reading(a) /\ Moves(a, b, part)
      BY <1>3, <2>1, <2>2, <2>3
    <3>. HIDE DEF pre, a, b, k
    <3>. QED
      BY ToldMoves
  <2>5. v.handled = w.handled
    BY <1>4 DEF SameRest
  <2>6. Answers(sc, n, gt, f, v, i, o)
    BY <1>2, <2>4, <2>5 DEF Answers
  <2>. QED
    BY <2>6 DEF v
<1>. QED
  BY <1>4, <1>5, <1>6

LEMMA AnswersReceive ==
    ASSUME NEW sc, NEW n, NEW gt \in Seq(AnswerUnit), NEW f, NEW w, NEW i, NEW o \in Seq(AnswerUnit),
           Answers(sc, n, gt, f, w, i, o), NEW m \in 1..Len(i)
    PROVE  Answers(sc, n, gt, f, Received(w, SubSeq(i, 1, m), m), SubSeq(i, m + 1, Len(i)), o)
<1>. DEFINE v == Received(w, SubSeq(i, 1, m), m)
            j == SubSeq(i, m + 1, Len(i))
<1>1. Len(gt) \in Nat /\ Flow(sc, n, Len(gt), f, w, i, o)
  BY LenProperties DEF Answers
<1>2. Flow(sc, n, Len(gt), f, v, j, o)
  BY <1>1, FlowReceive
<1>3. w \in Worlds /\ i \in Seq(RequestUnit)
  BY <1>1, FlowTypes
<1>4. SubSeq(i, 1, m) \in Seq(RequestUnit) /\ m \in Nat
  <2>1. m \in 0..Len(i) /\ m \in Nat
    BY <1>3, LenProperties
  <2>. QED
    BY <1>3, <2>1, Cut
<1>5. SameOutput(w, v) /\ SameRest(w, v)
  BY <1>3, <1>4, ReceivedIs
<1>. HIDE DEF v, j
<1>6. Answers(sc, n, gt, f, v, j, o)
  BY <1>2, <1>5, AnswersSame DEF SameOutput, SameRest
<1>. QED
  BY <1>6 DEF v, j

LEMMA AnswersParse ==
    ASSUME NEW sc, NEW n, NEW gt \in Seq(AnswerUnit), NEW f, NEW w, NEW i, NEW o \in Seq(AnswerUnit),
           Answers(sc, n, gt, f, w, i, o),
           NEW v, NEW len \in Int, HeadOf(w.conn.recv, len), Parses(w, v, len), Outcome(w, v, len)
    PROVE  Answers(sc, n, gt, f, v, i, o)
<1>. DEFINE k == Len(w.handled)
            pre == gt \o o
<1>1. Len(gt) \in Nat /\ Flow(sc, n, Len(gt), f, w, i, o)
  BY LenProperties DEF Answers
<1>2. /\ Flow(sc, n, Len(gt), f, v, i, o)
      /\ \/ v.handled = w.handled /\ Waits(w, v, len)
         \/ /\ Serve(w, v, len) /\ Len(v.handled) = k + 1 /\ k + 1 \in 1..Len(sc)
            /\ w.conn.recv[1].req = sc[k + 1] /\ sc[k + 1].uri # "malformed"
  BY <1>1, FlowParse
<1>3. /\ w.conn.file \in File /\ w.conn.send \in Seq(AnswerUnit) /\ FileOK(w.conn.file)
      /\ sc \in Seq(Requests) /\ Scripted(sc) /\ k \in Nat /\ n \in Nat /\ (AllWait(sc) => n <= k + 1)
  BY <1>1, FlowTypes
<1>4. CASE v.handled = w.handled /\ Waits(w, v, len)
  BY <1>2, <1>4, AnswersSame DEF Waits
<1>5. CASE /\ Serve(w, v, len) /\ Len(v.handled) = k + 1 /\ k + 1 \in 1..Len(sc)
           /\ w.conn.recv[1].req = sc[k + 1] /\ sc[k + 1].uri # "malformed"
  <2>. SUFFICES ASSUME AllWait(sc), f # "gone" PROVE Told(sc, k + 1, pre, v.conn)
    BY <1>2, <1>5 DEF Answers
  <2>1. Told(sc, k, pre, w.conn)
    BY DEF Answers
  <2>2. n = k + 1
    <3>1. Len(v.handled) \in 0..n
      BY <1>2, FlowTypes
    <3>2. k + 1 <= n
      BY <1>3, <1>5, <3>1
    <3>3. n <= k + 1
      BY <1>3
    <3>. HIDE DEF k
    <3>. QED
      BY <1>3, <3>2, <3>3
  <2>3. Idle(w, o)
    BY <1>1, <2>2 DEF Flow
  <2>4. Ended(w.conn)
    BY <1>3, <2>3 DEF Idle, Ended, FileOK
  <2>5. Out(w.conn, v.conn, sc[k + 1])
    BY <1>5 DEF Serve
  <2>6. sc[k + 1].id = k + 1
    BY <1>3, <1>5, ScriptedReq
  <2>7. pre \in Seq(AnswerUnit)
    BY ConcatProperties
  <2>. DEFINE a == w.conn
              b == v.conn
  <2>8. Told(sc, k + 1, pre, b)
    <3>. sc \in Seq(Requests) /\ k \in Nat /\ k + 1 \in 1..Len(sc) /\ pre \in Seq(AnswerUnit) /\ Ended(a)
         /\ Told(sc, k, pre, a) /\ Out(a, b, sc[k + 1]) /\ sc[k + 1].id = k + 1 /\ sc[k + 1].uri # "malformed"
      BY <1>3, <1>5, <2>1, <2>4, <2>5, <2>6, <2>7
    <3>. HIDE DEF pre, a, b, k
    <3>. QED
      BY ToldOut
  <2>. QED
    BY <2>8
<1>. QED
  BY <1>2, <1>4, <1>5

LEMMA AnswersFlag ==
    ASSUME NEW sc, NEW n, NEW gt \in Seq(AnswerUnit), NEW f, NEW w, NEW i, NEW o \in Seq(AnswerUnit),
           Answers(sc, n, gt, f, w, i, o), NEW flag \in Flags
    PROVE  Answers(sc, n, gt, f, Flag(w, flag), i, o)
<1>. DEFINE v == Flag(w, flag)
<1>1. Len(gt) \in Nat /\ Flow(sc, n, Len(gt), f, w, i, o)
  BY LenProperties DEF Answers
<1>2. Flow(sc, n, Len(gt), f, v, i, o) /\ w \in Worlds
  BY <1>1, FlowFlag, FlowTypes
<1>3. SameRest(w, v) /\ v.conn.send = w.conn.send /\ v.conn.file = w.conn.file
  BY <1>2, FlagIs
<1>. HIDE DEF v
<1>4. Answers(sc, n, gt, f, v, i, o)
  BY <1>2, <1>3, AnswersSame DEF SameRest
<1>. QED
  BY <1>4 DEF v

Regrouped(g, o, a, b) ==
    /\ (g \o (o \o a)) \o b = (g \o o) \o (a \o b)
    /\ Len(g \o (o \o a)) = Len(g) + (Len(o) + Len(a)) /\ Len(g \o o) = Len(g) + Len(o)

LEMMA WriteRegroup == \A g, o, a, b \in Seq(AnswerUnit) : Regrouped(g, o, a, b)
<1>. SUFFICES ASSUME NEW g \in Seq(AnswerUnit), NEW o \in Seq(AnswerUnit), NEW a \in Seq(AnswerUnit),
                     NEW b \in Seq(AnswerUnit)
              PROVE  Regrouped(g, o, a, b)
  OBVIOUS
<1>1. o \o a \in Seq(AnswerUnit) /\ g \o o \in Seq(AnswerUnit)
  BY ConcatProperties
<1>2. g \o (o \o a) = (g \o o) \o a
  BY RegroupUnits
<1>3. ((g \o o) \o a) \o b = (g \o o) \o (a \o b)
  <2>. DEFINE t == g \o o
  <2>. t \in Seq(AnswerUnit)
    BY <1>1
  <2>. HIDE DEF t
  <2>1. (t \o a) \o b = t \o (a \o b)
    BY RegroupUnits
  <2>. QED
    BY <2>1 DEF t
<1>4. Len(o \o a) = Len(o) + Len(a) /\ Len(g \o o) = Len(g) + Len(o)
  BY ConcatProperties
<1>5. Len(g \o (o \o a)) = Len(g) + Len(o \o a)
  BY <1>1, ConcatProperties
<1>. QED
  BY <1>2, <1>3, <1>4, <1>5 DEF Regrouped

\* What reaches a browser that may be gone.
Reaches(f, o, a, p) == p = IF f = "gone" THEN o ELSE o \o a

LEMMA AnswersWrite ==
    ASSUME NEW sc, NEW n, NEW gt \in Seq(AnswerUnit), NEW f, NEW w, NEW i, NEW o \in Seq(AnswerUnit),
           Answers(sc, n, gt, f, w, i, o), NEW m \in 0..Len(w.conn.send),
           NEW p, Reaches(f, o, SubSeq(w.conn.send, 1, m), p)
    PROVE  Answers(sc, n, gt, f, Written(w, m), i, p)
<1>. DEFINE v == Written(w, m)
            s == w.conn.send
            a == SubSeq(s, 1, m)
            b == SubSeq(s, m + 1, Len(s))
            k == Len(w.handled)
<1>1. Len(gt) \in Nat /\ Flow(sc, n, Len(gt), f, w, i, o)
  BY LenProperties DEF Answers
<1>2. Flow(sc, n, Len(gt), f, v, i, p)
  BY <1>1, FlowWrite DEF Reaches
<1>3. w \in Worlds /\ s \in Seq(AnswerUnit) /\ Len(s) \in Nat
  BY <1>1, FlowTypes
<1>4. /\ SameRest(w, v) /\ v.conn.file = w.conn.file /\ v.conn.send = b
  <2>. w \in Worlds
    BY <1>3
  <2>. QED
    BY WrittenIs
<1>5. a \in Seq(AnswerUnit) /\ b \in Seq(AnswerUnit) /\ a \o b = s /\ Len(a) = m /\ Len(b) = Len(s) - m /\ m \in Nat
  <2>. s \in Seq(AnswerUnit) /\ m \in 0..Len(s)
    BY <1>3
  <2>1. m \in Nat
    BY <1>3
  <2>. HIDE DEF s
  <2>2. a \in Seq(AnswerUnit) /\ b \in Seq(AnswerUnit) /\ Len(a) = m /\ Len(b) = Len(s) - m
    BY Cut
  <2>3. a \o b = s
    BY CutJoin
  <2>. QED
    BY <2>1, <2>2, <2>3
<1>. HIDE DEF v, s, a, b
<1>8. /\ (gt \o (o \o a)) \o b = (gt \o o) \o (a \o b)
      /\ Len(gt \o (o \o a)) = Len(gt) + (Len(o) + Len(a)) /\ Len(gt \o o) = Len(gt) + Len(o)
  <2>. a \in Seq(AnswerUnit) /\ b \in Seq(AnswerUnit)
    BY <1>5
  <2>1. Regrouped(gt, o, a, b)
    BY WriteRegroup
  <2>. QED
    BY <2>1 DEF Regrouped
<1>6. Told(sc, k, gt \o o, w.conn) /\ p = o \o a => Told(sc, k, gt \o p, v.conn)
  <2>. SUFFICES ASSUME Told(sc, k, gt \o o, w.conn), p = o \o a PROVE Told(sc, k, gt \o p, v.conn)
    OBVIOUS
  <2>1. (gt \o p) \o b = (gt \o o) \o s
    BY <1>5, <1>8
  <2>2. Len(gt \o p) + Len(b) = Len(gt \o o) + Len(s)
    <3>1. Len(gt \o p) = Len(gt) + (Len(o) + m) /\ Len(gt \o o) = Len(gt) + Len(o) /\ Len(b) = Len(s) - m
      BY <1>5, <1>8
    <3>2. Len(gt) \in Nat /\ Len(o) \in Nat /\ m \in Nat /\ Len(s) \in Nat
      BY <1>3, <1>5, LenProperties
    <3>. QED
      BY <3>1, <3>2
  <2>. QED
    BY <1>4, <2>1, <2>2 DEF Told, s
<1>7. Answers(sc, n, gt, f, v, i, p)
  <2>1. f # "gone" => p = o \o a
    BY DEF Reaches, a, s
  <2>2. v.handled = w.handled
    BY <1>4 DEF SameRest
  <2>. QED
    BY <1>2, <1>6, <2>1, <2>2 DEF Answers
<1>. QED
  BY <1>7 DEF v

LEMMA AnswersKept ==
    ASSUME NEW c \in Conns, NEW sc, NEW n, NEW gt \in Seq(AnswerUnit)
    PROVE  /\ Keeps(c, AnswerStates(sc, n, gt, fin[c]))
           /\ AnswerStates(sc, n, gt, fin[c]) \in SUBSET States
<1>. DEFINE f == fin[c]
            G == AnswerStates(sc, n, gt, f)
<1>0. Keeps(c, States)
  BY StatesKept
<1>1. ASSUME NEW w, NEW i, NEW o, St(w, i, o) \in G
      PROVE  St(w, i, o) \in States /\ Answers(sc, n, gt, f, w, i, o) /\ o \in Seq(AnswerUnit)
             /\ w \in Worlds /\ FileOK(w.conn.file)
  BY <1>1, InAnswers, InStates
<1>2. ASSUME NEW w, NEW i, NEW o, St(w, i, o) \in States, Answers(sc, n, gt, f, w, i, o) PROVE St(w, i, o) \in G
  BY <1>2, InAnswers
<1>8. G \in SUBSET States
  BY DEF AnswerStates
<1>. HIDE DEF G
<1>3. KeepsTransfer(G)
  <2>. SUFFICES ASSUME NEW w, NEW i, NEW o, St(w, i, o) \in G
                PROVE  St(mg_http_transfer_file_data(w), i, o) \in G
    BY DEF KeepsTransfer
  <2>1. Answers(sc, n, gt, f, mg_http_transfer_file_data(w), i, o)
    BY <1>1, AnswersTransfer
  <2>2. St(mg_http_transfer_file_data(w), i, o) \in States
    BY <1>0, <1>1 DEF Keeps, KeepsTransfer
  <2>. QED
    BY <1>2, <2>1, <2>2
<1>4. KeepsReceive(G)
  <2>. SUFFICES ASSUME NEW w, NEW i, NEW o, St(w, i, o) \in G, NEW m \in 1..Len(i)
                PROVE  St(Received(w, SubSeq(i, 1, m), m), SubSeq(i, m + 1, Len(i)), o) \in G
    BY DEF KeepsReceive
  <2>1. Answers(sc, n, gt, f, Received(w, SubSeq(i, 1, m), m), SubSeq(i, m + 1, Len(i)), o)
    BY <1>1, AnswersReceive
  <2>2. St(Received(w, SubSeq(i, 1, m), m), SubSeq(i, m + 1, Len(i)), o) \in States
    BY <1>0, <1>1 DEF Keeps, KeepsReceive
  <2>. QED
    BY <1>2, <2>1, <2>2
<1>5. KeepsParse(G)
  <2>. SUFFICES ASSUME NEW w, NEW i, NEW o, St(w, i, o) \in G, NEW other \in Diaries \cup {0}
                PROVE  St(Parsed(w, mg_parse_http(w.conn.recv), other), i, o) \in G
    BY DEF KeepsParse
  <2>. DEFINE v == Parsed(w, mg_parse_http(w.conn.recv), other)
  <2>1. PICK len \in Int : HeadOf(w.conn.recv, len) /\ Parses(w, v, len) /\ Outcome(w, v, len)
    BY <1>1, ParsedOutcome
  <2>2. St(v, i, o) \in States
    BY <1>0, <1>1 DEF Keeps, KeepsParse
  <2>. HIDE DEF v
  <2>3. Answers(sc, n, gt, f, v, i, o)
    BY <1>1, <2>1, AnswersParse
  <2>. QED
    BY <1>2, <2>2, <2>3 DEF v
<1>6. KeepsEnd(c, G)
  <2>. SUFFICES ASSUME NEW w, NEW i, NEW o, St(w, i, o) \in G
                PROVE  /\ fin[c] # "open" /\ i = <<>> => St(Flag(w, "SEND_AND_CLOSE"), i, o) \in G
                       /\ fin[c] = "gone" => St(Flag(w, "CLOSE_IMMEDIATELY"), i, o) \in G
    BY DEF KeepsEnd
  <2>1. Answers(sc, n, gt, f, Flag(w, "SEND_AND_CLOSE"), i, o) /\ Answers(sc, n, gt, f, Flag(w, "CLOSE_IMMEDIATELY"), i, o)
    BY <1>1, AnswersFlag DEF Flags
  <2>2. /\ fin[c] # "open" /\ i = <<>> => St(Flag(w, "SEND_AND_CLOSE"), i, o) \in States
        /\ fin[c] = "gone" => St(Flag(w, "CLOSE_IMMEDIATELY"), i, o) \in States
    BY <1>0, <1>1 DEF Keeps, KeepsEnd
  <2>. QED
    BY <1>2, <2>1, <2>2
<1>7. KeepsWrite(c, G)
  <2>. SUFFICES ASSUME NEW w, NEW i, NEW o, St(w, i, o) \in G, NEW m \in 0..Len(w.conn.send)
                PROVE  St(Written(w, m), i, Reads(c, o, SubSeq(w.conn.send, 1, m))) \in G
    BY DEF KeepsWrite
  <2>. DEFINE p == Reads(c, o, SubSeq(w.conn.send, 1, m))
  <2>1. St(Written(w, m), i, p) \in States
    BY <1>0, <1>1 DEF Keeps, KeepsWrite
  <2>2. Reaches(f, o, SubSeq(w.conn.send, 1, m), p)
    BY DEF Reads, Reaches
  <2>. HIDE DEF p, f
  <2>3. Answers(sc, n, gt, f, Written(w, m), i, p)
    BY <1>1, <2>2, AnswersWrite
  <2>. QED
    BY <1>2, <2>1, <2>3 DEF p
<1>. QED
  BY <1>3, <1>4, <1>5, <1>6, <1>7, <1>8 DEF Keeps, G

-----------------------------------------------------------------------------
\* The output of c is the answers due, for a browser that waits and is there.
ToldAt(c) ==
    ~Closed(c) /\ AllWait(script[c]) /\ fin[c] # "gone" =>
        Told(script[c], Len(handled[c]), got[c] \o toClient[c], Con(c))

ToldInv == \A c \in Conns : ToldAt(c)

LEMMA ToldAfter ==
    ASSUME NEW c, SameScript(c),
           Closed(c)' \/ (AllWait(script[c]) /\ fin'[c] # "gone" =>
              Told(script[c], Len(handled'[c]), got'[c] \o toClient'[c], ConAfter(c)))
    PROVE  ToldAt(c)'
<1>1. Con(c)' = ConAfter(c) /\ script'[c] = script[c]
  BY DEF Con, ConAfter, SameScript
<1>. QED
  BY <1>1 DEF ToldAt

LEMMA ToldStep ==
    ASSUME TypeInv, TypeInv', NEW c \in Conns, FlowAt(c), ToldAt(c), StepOf(c)
    PROVE  ToldAt(c)'
<1>. DEFINE w == ConWorld(c)
            sc == script[c]
            n == sent[c]
            gt == got[c]
            f == fin[c]
            i == toServer[c]
            o == toClient[c]
            h == handled[c]
<1>0. /\ w \in Worlds /\ w.conn = Con(c) /\ w.handled = h /\ (conns[c] # NULL => w = World(c))
      /\ gt \in Seq(AnswerUnit) /\ o \in Seq(AnswerUnit) /\ i \in Seq(RequestUnit) /\ FileOK(w.conn.file)
  BY ConWorldIs
<1>1. CASE Quiet(c)
  <2>1. /\ SameScript(c) /\ ConAfter(c) = Con(c) /\ handled'[c] = h /\ (Closed(c)' <=> Closed(c))
        /\ toClient'[c] = o /\ got'[c] = gt /\ (fin'[c] # "gone" => f # "gone")
    BY <1>1 DEF Quiet, SameCon
  <2>. QED
    BY <2>1, ToldAfter DEF ToldAt
<1>2. CASE Serves(c)
  <2>. DEFINE G == AnswerStates(sc, n, gt, f)
  <2>1. SameScript(c) /\ World(c) = w /\ conns[c] # NULL /\ ~Closed(c) /\ got'[c] = gt /\ fin'[c] = f
    BY <1>0, <1>2 DEF Serves, Closed
  <2>2. St(World(c), i, o) \in States
    BY <1>0, <2>1, InStates
  <2>3. Answers(sc, n, gt, f, World(c), i, o)
    <3>1. Flow(sc, n, Len(gt), f, w, i, o)
      BY <2>1 DEF FlowAt, FlowOf
    <3>2. AllWait(sc) /\ f # "gone" => Told(sc, Len(h), gt \o o, Con(c))
      BY <2>1 DEF ToldAt
    <3>. QED
      BY <1>0, <2>1, <3>1, <3>2 DEF Answers
  <2>4. St(World(c), i, o) \in G
    BY <2>2, <2>3, InAnswers
  <2>5. Keeps(c, G) /\ G \in SUBSET States
    BY <1>0, AnswersKept
  <2>6. PICK v, j, p : /\ St(v, j, p) \in G /\ ConAfter(c) = v.conn /\ handled'[c] = v.handled
                       /\ toServer'[c] = j /\ toClient'[c] = p
    <3>. HIDE DEF G
    <3>. QED
      BY <1>2, <2>4, <2>5, ServesIs
  <2>7. Answers(sc, n, gt, f, v, j, p)
    BY <2>6, InAnswers
  <2>. QED
    BY <2>1, <2>6, <2>7, ToldAfter DEF Answers
<1>3. CASE Closes(c)
  BY <1>3, ToldAfter DEF Closes
<1>4. CASE Asks(c)
  <2>1. /\ SameScript(c) /\ ConAfter(c) = Con(c) /\ handled'[c] = h /\ ~Closed(c) /\ toClient'[c] = o
        /\ got'[c] = gt /\ fin'[c] = f
    BY <1>4 DEF Asks, SameCon
  <2>. QED
    BY <2>1, ToldAfter DEF ToldAt
<1>5. CASE Gets(c)
  <2>1. /\ SameScript(c) /\ ConAfter(c) = Con(c) /\ handled'[c] = h /\ (Closed(c)' <=> Closed(c))
        /\ toClient'[c] = <<>> /\ got'[c] = gt \o o /\ fin'[c] = f
    BY <1>5 DEF Gets, SameCon
  <2>2. got'[c] \o toClient'[c] = gt \o o
    <3>1. gt \o o \in Seq(AnswerUnit)
      BY <1>0, ConcatProperties
    <3>2. (gt \o o) \o <<>> = gt \o o
      BY <3>1, ConcatEmptySeq
    <3>. QED
      BY <2>1, <3>2
  <2>. QED
    BY <2>1, <2>2, ToldAfter DEF ToldAt
<1>6. CASE Leaves(c)
  <2>1. /\ SameScript(c) /\ ConAfter(c) = Con(c) /\ handled'[c] = h /\ (Closed(c)' <=> Closed(c))
        /\ f = "open" /\ got'[c] = gt /\ (fin'[c] # "gone" => toClient'[c] = o)
    BY <1>6 DEF Leaves, SameCon
  <2>. QED
    BY <2>1, ToldAfter DEF ToldAt
<1>. QED
  BY <1>1, <1>2, <1>3, <1>4, <1>5, <1>6 DEF StepOf

LEMMA ToldInit == Init => ToldInv
<1>. SUFFICES ASSUME Init, NEW c \in Conns PROVE ToldAt(c)
  BY DEF ToldInv
<1>1. /\ handled[c] = <<>> /\ got[c] = <<>> /\ toClient[c] = <<>> /\ Con(c) = mg_create_connection /\ TypeInv
  BY InitType DEF Init, Con
<1>. DEFINE sc == script[c]
<1>2. sc \in Seq(Requests)
  BY <1>1, ConWorldIs
<1>3. Con(c).send = <<>> /\ ~Con(c).file.open
  BY <1>1, NoFileIs DEF mg_create_connection
<1>4. <<>> \o <<>> = <<>> /\ Len(<<>>) = 0
  <2>1. <<>> \in Seq(AnswerUnit) /\ <<>> \o <<>> = <<>>
    BY ConcatEmptySeq, EmptySeq
  <2>. QED
    BY <2>1, EmptySeq
<1>. HIDE DEF sc
<1>5. UpTo(sc, 0) = 0
  BY <1>2, UpToIs
<1>6. Placed(sc, 0, <<>>)
  BY <1>4 DEF Placed
<1>7. Told(sc, Len(handled[c]), got[c] \o toClient[c], Con(c))
  <2>1. Placed(sc, 0, (<<>> \o <<>>) \o <<>>)
    BY <1>4, <1>6
  <2>2. Len(<<>> \o <<>>) + Len(<<>>) = UpTo(sc, 0)
    BY <1>4, <1>5
  <2>. QED
    BY <1>1, <1>3, <1>4, <2>1, <2>2 DEF Told
<1>. QED
  BY <1>7 DEF ToldAt, sc

LEMMA ToldAlways == Spec => []ToldInv
<1>1. Init => ToldInv
  BY ToldInit
<1>2. TypeInv /\ TypeInv' /\ FlowInv /\ ToldInv /\ [Next]_vars => ToldInv'
  <2>. SUFFICES ASSUME TypeInv, TypeInv', FlowInv, ToldInv, [Next]_vars PROVE \A c \in Conns : ToldAt(c)'
    BY DEF ToldInv
  <2>. QED
    BY StepIs, ToldStep DEF FlowInv, ToldInv
<1>. QED
  BY <1>1, <1>2, TypeAlways, FlowAlways, PTL DEF Spec

Places == Nat \X Nat

\* The answers of a script, and those to its first k requests.
Dues(sc) == [i \in 1..Len(sc) |-> [n \in 1..AnswerLen(sc[i]) |-> <<i, n>>]]

DueUpTo(sc, k) == Joined(Dues(sc), k)

LEMMA DuesType ==
    ASSUME NEW sc, sc \in Seq(Requests)
    PROVE  /\ Len(sc) \in Nat /\ Dues(sc) \in [1..Len(sc) -> Seq(Places)]
           /\ \A k \in 1..Len(sc) : /\ Dues(sc)[k] \in Seq(Places) /\ Len(Dues(sc)[k]) = AnswerLen(sc[k])
                                    /\ \A q \in 1..AnswerLen(sc[k]) : Dues(sc)[k][q] = <<k, q>>
<1>1. Len(sc) \in Nat
  BY LenProperties
<1>. DEFINE D(i) == [n \in 1..AnswerLen(sc[i]) |-> <<i, n>>]
<1>2. ASSUME NEW i \in 1..Len(sc)
      PROVE  D(i) \in Seq(Places) /\ Len(D(i)) = AnswerLen(sc[i]) /\ \A q \in 1..AnswerLen(sc[i]) : D(i)[q] = <<i, q>>
  <2>1. AnswerLen(sc[i]) \in Nat /\ i \in Nat
    BY AnswerLenType, <1>1
  <2>. DEFINE L == AnswerLen(sc[i])
              d == [n \in 1..L |-> <<i, n>>]
  <2>2. d \in [1..L -> Places]
    <3>. HIDE DEF L
    <3>. QED
      BY <2>1 DEF Places
  <2>. HIDE DEF L
  <2>3. \A q \in 1..L : d[q] = <<i, q>>
    OBVIOUS
  <2>4. L \in Nat
    BY <2>1 DEF L
  <2>. HIDE DEF d
  <2>5. d \in Seq(Places) /\ Len(d) = L
    BY <2>2, <2>4, FunctionSeq
  <2>. QED
    BY <2>3, <2>5 DEF d, L
<1>3. Dues(sc) = [i \in 1..Len(sc) |-> D(i)]
  BY DEF Dues
<1>. HIDE DEF D
<1>4. Dues(sc) \in [1..Len(sc) -> Seq(Places)] /\ \A k \in 1..Len(sc) : Dues(sc)[k] = D(k)
  BY <1>2, <1>3
<1>. QED
  BY <1>1, <1>2, <1>4

\* The answer to the last request.
LEMMA DueIs ==
    ASSUME NEW sc, sc \in Seq(Requests), NEW k \in 1..Len(sc)
    PROVE  /\ DueUpTo(sc, k - 1) \in Seq(Places) /\ DueUpTo(sc, k) \in Seq(Places)
           /\ DueUpTo(sc, k) = DueUpTo(sc, k - 1) \o Dues(sc)[k]
           /\ Len(DueUpTo(sc, k)) = Len(DueUpTo(sc, k - 1)) + AnswerLen(sc[k])
<1>. DEFINE e == Dues(sc)
            N == Len(sc)
            a == DueUpTo(sc, k - 1)
            b == e[k]
<1>1. N \in Nat /\ e \in [1..N -> Seq(Places)] /\ b \in Seq(Places) /\ Len(b) = AnswerLen(sc[k])
  BY DuesType
<1>. HIDE DEF e, N
<1>2. (\A m \in 0..N : Joined(e, m) \in Seq(Places)) /\ \A m \in 1..N : Joined(e, m) = Joined(e, m - 1) \o e[m]
  BY <1>1, JoinedIs
<1>3. k \in 1..N /\ k \in 0..N /\ k - 1 \in 0..N
  BY <1>1 DEF N
<1>4. a \in Seq(Places) /\ DueUpTo(sc, k) \in Seq(Places) /\ DueUpTo(sc, k) = a \o b
  BY <1>2, <1>3 DEF DueUpTo, e
<1>. HIDE DEF a, b
<1>5. Len(a \o b) = Len(a) + Len(b)
  BY <1>1, <1>4, ConcatProperties
<1>. QED
  BY <1>1, <1>4, <1>5 DEF a, b, e

LEMMA DueLen ==
    ASSUME NEW sc, sc \in Seq(Requests)
    PROVE  \A k \in 0..Len(sc) : DueUpTo(sc, k) \in Seq(Places) /\ Len(DueUpTo(sc, k)) = UpTo(sc, k)
<1>. DEFINE Good(k) == DueUpTo(sc, k) \in Seq(Places) /\ Len(DueUpTo(sc, k)) = UpTo(sc, k)
            T == {k \in Nat : k <= Len(sc) => Good(k)}
<1>1. Len(sc) \in Nat /\ Dues(sc) \in [1..Len(sc) -> Seq(Places)]
  BY DuesType
<1>2. Good(0)
  <2>. DEFINE e == Dues(sc)
              N == Len(sc)
  <2>1. N \in Nat /\ e \in [1..N -> Seq(Places)]
    BY <1>1
  <2>. HIDE DEF e, N
  <2>2. Joined(e, 0) = <<>>
    BY <2>1, JoinedIs
  <2>3. DueUpTo(sc, 0) = <<>>
    BY <2>2 DEF DueUpTo, e
  <2>4. UpTo(sc, 0) = 0
    BY UpToIs
  <2>. QED
    BY <2>3, <2>4, EmptySeq
<1>. HIDE DEF Good
<1>3. 0 \in T
  BY <1>2
<1>4. ASSUME NEW k \in T PROVE k + 1 \in T
  <2>. SUFFICES ASSUME k + 1 <= Len(sc) PROVE Good(k + 1)
    OBVIOUS
  <2>1. k \in Nat /\ k + 1 \in 1..Len(sc) /\ (k + 1) - 1 = k /\ k <= Len(sc)
    BY <1>1
  <2>2. Good(k)
    BY <2>1
  <2>3. DueUpTo(sc, k + 1) \in Seq(Places) /\ Len(DueUpTo(sc, k + 1)) = Len(DueUpTo(sc, (k + 1) - 1)) + AnswerLen(sc[k + 1])
    BY <2>1, DueIs
  <2>4. UpTo(sc, k + 1) = UpTo(sc, (k + 1) - 1) + AnswerLen(sc[k + 1])
    BY <2>1, UpToIs
  <2>. QED
    BY <2>1, <2>2, <2>3, <2>4 DEF Good
<1>5. T = Nat
  <2>. HIDE DEF T
  <2>1. T \in SUBSET Nat
    BY DEF T
  <2>. QED
    BY <1>3, <1>4, <2>1, NatSetInduction
<1>6. ASSUME NEW k \in 0..Len(sc) PROVE Good(k)
  <2>1. k \in T /\ k <= Len(sc)
    BY <1>1, <1>5
  <2>. QED
    BY <2>1
<1>. QED
  BY <1>6 DEF Good

LEMMA DueGrows ==
    ASSUME NEW sc, sc \in Seq(Requests), NEW m \in 0..Len(sc), NEW n \in m..Len(sc)
    PROVE  \A i \in 1..Len(DueUpTo(sc, m)) : DueUpTo(sc, n)[i] = DueUpTo(sc, m)[i]
<1>. DEFINE e == Dues(sc)
            N == Len(sc)
<1>1. N \in Nat /\ e \in [1..N -> Seq(Places)]
  BY DuesType
<1>. HIDE DEF e, N
<1>2. m \in 0..N /\ n \in m..N
  BY DEF N
<1>3. \A i \in 1..Len(Joined(e, m)) : Joined(e, n)[i] = Joined(e, m)[i]
  BY <1>1, <1>2, JoinedGrows
<1>. QED
  BY <1>3 DEF DueUpTo, e

\* Where the units of an answer are in those due.
LEMMA DueAt ==
    ASSUME NEW sc, sc \in Seq(Requests), NEW k \in 1..Len(sc), NEW n \in k..Len(sc), NEW q \in 1..AnswerLen(sc[k])
    PROVE  DueUpTo(sc, n)[UpTo(sc, k - 1) + q] = <<k, q>>
<1>. DEFINE a == DueUpTo(sc, k - 1)
            b == Dues(sc)[k]
            p == UpTo(sc, k - 1) + q
<1>1. Len(sc) \in Nat /\ b \in Seq(Places) /\ Len(b) = AnswerLen(sc[k]) /\ b[q] = <<k, q>>
      /\ Dues(sc) \in [1..Len(sc) -> Seq(Places)]
  BY DuesType
<1>2. k - 1 \in 0..Len(sc) /\ k \in 0..Len(sc) /\ n \in k..Len(sc)
  BY <1>1
<1>3. a \in Seq(Places) /\ DueUpTo(sc, k) = a \o b
  BY DueIs
<1>4. Len(a) = UpTo(sc, k - 1) /\ Len(DueUpTo(sc, k)) = UpTo(sc, k)
  BY <1>2, DueLen
<1>5. UpTo(sc, k - 1) \in Nat /\ UpTo(sc, k) = UpTo(sc, k - 1) + AnswerLen(sc[k]) /\ AnswerLen(sc[k]) \in Nat
  BY <1>2, UpToIs, AnswerLenType
<1>6. (a \o b)[Len(a) + q] = b[q]
  <2>. a \in Seq(Places) /\ b \in Seq(Places) /\ q \in 1..Len(b)
    BY <1>1, <1>3
  <2>. HIDE DEF a, b
  <2>. QED
    BY Join
<1>7. \A i \in 1..UpTo(sc, k) : DueUpTo(sc, n)[i] = DueUpTo(sc, k)[i]
  <2>. k \in 0..Len(sc)
    BY <1>2
  <2>1. \A i \in 1..Len(DueUpTo(sc, k)) : DueUpTo(sc, n)[i] = DueUpTo(sc, k)[i]
    BY DueGrows
  <2>. QED
    BY <1>4, <2>1
<1>8. p \in 1..UpTo(sc, k)
  <2>. DEFINE L == AnswerLen(sc[k])
  <2>1. L \in Nat /\ q \in 1..L /\ UpTo(sc, k) = UpTo(sc, k - 1) + L
    BY <1>5
  <2>. HIDE DEF L
  <2>. QED
    BY <1>5, <2>1
<1>. QED
  BY <1>1, <1>3, <1>4, <1>6, <1>7, <1>8

LEMMA UnitIs ==
    ASSUME NEW s \in Seq(AnswerUnit), NEW q \in 1..Len(s)
    PROVE  s[q] \in AnswerUnit /\ s[q].req \in Nat /\ s[q].n \in Nat
<1>1. s[q] \in AnswerUnit
  BY ElementOfSeq
<1>. QED
  BY <1>1 DEF AnswerUnit

\* Units in their places are the first of those due.
LEMMA PlacedDue ==
    ASSUME NEW sc, sc \in Seq(Requests), NEW k \in 0..Len(sc), NEW s \in Seq(AnswerUnit), Placed(sc, k, s),
           NEW t, t = Sort(s)
    PROVE  Len(t) = Len(s) /\ t \in Seq(Places) /\ \A q \in 1..Len(s) : t[q] = DueUpTo(sc, k)[q]
<1>1. Len(s) \in Nat /\ DOMAIN s = 1..Len(s) /\ Len(sc) \in Nat
  BY LenProperties
<1>2. \A q \in 1..Len(s) : s[q] \in AnswerUnit /\ s[q].req \in Nat /\ s[q].n \in Nat
  BY UnitIs
<1>3. t = [q \in 1..Len(s) |-> <<s[q].req, s[q].n>>]
  BY <1>1 DEF Sort
<1>4. \A q \in 1..Len(s) : t[q] = <<s[q].req, s[q].n>>
  BY <1>3
<1>5. t \in [1..Len(s) -> Places]
  BY <1>2, <1>3 DEF Places
<1>6. t \in Seq(Places) /\ Len(t) = Len(s)
  BY <1>1, <1>5, FunctionSeq
<1>7. ASSUME NEW q \in 1..Len(s) PROVE t[q] = DueUpTo(sc, k)[q]
  <2>. DEFINE r == s[q].req
              m == s[q].n
  <2>1. r \in 1..k /\ m \in 1..AnswerLen(sc[r]) /\ UpTo(sc, r - 1) + m = q
    BY DEF Placed, PlaceOf
  <2>2. t[q] = <<r, m>>
    BY <1>4
  <2>. HIDE DEF r, m
  <2>3. r \in 1..Len(sc) /\ k \in r..Len(sc)
    BY <1>1, <2>1
  <2>4. DueUpTo(sc, k)[UpTo(sc, r - 1) + m] = <<r, m>>
    BY <2>1, <2>3, DueAt
  <2>. QED
    BY <2>1, <2>2, <2>4
<1>. QED
  BY <1>6, <1>7

\* The units of a sequence after those of another.
LEMMA SortJoin ==
    ASSUME NEW s \in Seq(AnswerUnit), NEW u \in Seq(AnswerUnit)
    PROVE  Sort(s \o u) = Sort(s) \o Sort(u)
<1>. DEFINE t == s \o u
            a == Sort(s)
            b == Sort(u)
            d == a \o b
            A == Len(s)
            B == Len(u)
<1>1. A \in Nat /\ B \in Nat /\ DOMAIN s = 1..A /\ DOMAIN u = 1..B
  BY LenProperties
<1>2. t \in Seq(AnswerUnit) /\ Len(t) = A + B /\ (\A i \in 1..A : t[i] = s[i]) /\ \A i \in 1..B : t[A + i] = u[i]
  BY Join
<1>3. /\ \A i \in 1..A : s[i].req \in Nat /\ s[i].n \in Nat
      /\ \A i \in 1..B : u[i].req \in Nat /\ u[i].n \in Nat
  BY UnitIs
<1>4. a = [i \in 1..A |-> <<s[i].req, s[i].n>>] /\ b = [i \in 1..B |-> <<u[i].req, u[i].n>>]
  BY <1>1 DEF Sort
<1>5. a \in [1..A -> Places] /\ b \in [1..B -> Places]
  BY <1>3, <1>4 DEF Places
<1>6. a \in Seq(Places) /\ Len(a) = A /\ b \in Seq(Places) /\ Len(b) = B
  BY <1>1, <1>5, FunctionSeq
<1>7. DOMAIN t = 1..(A + B)
  BY <1>2, LenProperties
<1>8. Sort(t) = [i \in 1..(A + B) |-> <<t[i].req, t[i].n>>]
  BY <1>7 DEF Sort
<1>. HIDE DEF t, A, B
<1>9. (\A i \in 1..A : a[i] = <<s[i].req, s[i].n>>) /\ \A i \in 1..B : b[i] = <<u[i].req, u[i].n>>
  BY <1>4
<1>. HIDE DEF a, b
<1>10. d \in Seq(Places) /\ Len(d) = A + B /\ (\A i \in 1..A : d[i] = a[i]) /\ \A i \in 1..B : d[A + i] = b[i]
  <2>. a \in Seq(Places) /\ b \in Seq(Places)
    BY <1>6
  <2>1. d \in Seq(Places) /\ Len(d) = Len(a) + Len(b) /\ (\A i \in 1..Len(a) : d[i] = a[i]) /\ \A i \in 1..Len(b) : d[Len(a) + i] = b[i]
    BY Join
  <2>. QED
    BY <1>6, <2>1
<1>. HIDE DEF d
<1>11. ASSUME NEW i \in 1..(A + B) PROVE d[i] = <<t[i].req, t[i].n>>
  <2>1. CASE i \in 1..A
    BY <1>2, <1>9, <1>10, <2>1
  <2>2. CASE i \notin 1..A
    <3>. DEFINE j == i - A
    <3>1. j \in 1..B /\ A + j = i
      BY <1>1, <2>2
    <3>. HIDE DEF j
    <3>2. d[A + j] = b[j] /\ t[A + j] = u[j] /\ b[j] = <<u[j].req, u[j].n>>
      BY <1>2, <1>9, <1>10, <3>1
    <3>. QED
      BY <3>1, <3>2
  <2>. QED
    BY <2>1, <2>2
<1>12. d = [i \in 1..(A + B) |-> <<t[i].req, t[i].n>>]
  <2>1. DOMAIN d = 1..(A + B) /\ d = [i \in DOMAIN d |-> d[i]]
    BY <1>10, LenProperties
  <2>. QED
    BY <1>11, <2>1
<1>. QED
  BY <1>8, <1>12 DEF t, d, a, b

\* The answers due on c after k requests.
LEMMA DueOf ==
    ASSUME TypeInv, NEW c \in Conns, Len(handled[c]) <= Len(script[c])
    PROVE  Due(c) = DueUpTo(script[c], Len(handled[c])) /\ Len(handled[c]) \in 0..Len(script[c])
<1>. DEFINE k == Len(handled[c])
            sc == script[c]
<1>1. k \in Nat /\ DOMAIN handled[c] = 1..k /\ Len(sc) \in Nat /\ k <= Len(sc) /\ sc \in Seq(Requests)
  BY ConWorldIs, LenProperties DEF Marks
<1>2. Due(c) = FlattenSeq([i \in 1..k |-> [n \in 1..AnswerLen(sc[i]) |-> <<i, n>>]])
  BY <1>1 DEF Due
<1>. HIDE DEF k, sc
<1>3. \A i \in 1..k : Dues(sc)[i] = [n \in 1..AnswerLen(sc[i]) |-> <<i, n>>]
  <2>1. \A i \in 1..k : i \in 1..Len(sc)
    BY <1>1
  <2>. QED
    BY <2>1 DEF Dues
<1>4. [i \in 1..k |-> Dues(sc)[i]] = [i \in 1..k |-> [n \in 1..AnswerLen(sc[i]) |-> <<i, n>>]]
  BY <1>3
<1>5. DueUpTo(sc, k) = FlattenSeq([i \in 1..k |-> Dues(sc)[i]])
  BY DEF DueUpTo, Joined
<1>6. k \in 0..Len(sc)
  BY <1>1
<1>. QED
  BY <1>2, <1>4, <1>5, <1>6 DEF k, sc

LEMMA ToldLen ==
    ASSUME NEW sc, sc \in Seq(Requests), NEW k \in 0..Len(sc), NEW pre \in Seq(AnswerUnit), NEW conn \in Connection,
           FileOK(conn.file), Told(sc, k, pre, conn)
    PROVE  /\ Len(pre) + Len(conn.send) <= UpTo(sc, k)
           /\ conn.file.open \/ Len(pre) + Len(conn.send) = UpTo(sc, k)
<1>1. Len(sc) \in Nat /\ k \in Nat /\ UpTo(sc, k) \in Nat
  BY UpToIs, LenProperties
<1>2. CASE ~conn.file.open
  BY <1>1, <1>2 DEF Told
<1>3. CASE conn.file.open
  <2>1. k \in 1..Len(sc) /\ sc[k].uri = "file" /\ Len(pre) + Len(conn.send) = UpTo(sc, k - 1) + 1 + conn.file.sent
    BY <1>3 DEF Told
  <2>2. k - 1 \in 0..Len(sc)
    BY <1>1, <2>1
  <2>3. UpTo(sc, k - 1) \in Nat /\ UpTo(sc, k) = UpTo(sc, k - 1) + AnswerLen(sc[k])
    BY <2>1, <2>2, UpToIs
  <2>4. AnswerLen(sc[k]) = 1 + FileLen /\ FileLen \in Nat
    BY <2>1, SizesAre DEF AnswerLen
  <2>5. conn.file.sent \in Nat /\ conn.file.sent < FileLen
    <3>1. conn.file \in File
      BY DEF Connection
    <3>. QED
      BY <1>3, <3>1, FileIs DEF FileOK
  <2>6. UpTo(sc, k - 1) + 1 + conn.file.sent <= UpTo(sc, k)
    BY <2>3, <2>4, <2>5
  <2>. QED
    BY <1>3, <2>1, <2>6
<1>. QED
  BY <1>2, <1>3

\* What c has got, with what is on its way: the first of the answers due.
LEMMA DeliveredIs ==
    ASSUME TypeInv, NEW c \in Conns, Len(handled[c]) <= Len(script[c]),
           Told(script[c], Len(handled[c]), got[c] \o toClient[c], Con(c))
    PROVE  LET stream == Delivered(c) \o Sort(Con(c).send)
           IN  /\ IsPrefix(stream, Due(c)) /\ stream \in Seq(Places) /\ Delivered(c) \in Seq(Places)
               /\ Con(c).file.open \/ Len(stream) = Len(Due(c))
<1>. DEFINE sc == script[c]
            k == Len(handled[c])
            pre == got[c] \o toClient[c]
            conn == Con(c)
            s == pre \o conn.send
            t == Sort(s)
            d == DueUpTo(sc, k)
            stream == Delivered(c) \o Sort(conn.send)
<1>1. /\ conn \in Connection /\ conn.send \in Seq(AnswerUnit) /\ FileOK(conn.file)
      /\ got[c] \in Seq(AnswerUnit) /\ toClient[c] \in Seq(AnswerUnit)
  BY ConType
<1>2. sc \in Seq(Requests) /\ pre \in Seq(AnswerUnit)
  BY <1>1, ConWorldIs, ConcatProperties
<1>3. Due(c) = d /\ k \in 0..Len(sc)
  BY DueOf
<1>4. s \in Seq(AnswerUnit) /\ Len(s) = Len(pre) + Len(conn.send)
  <2>. pre \in Seq(AnswerUnit) /\ conn.send \in Seq(AnswerUnit)
    BY <1>1, <1>2
  <2>. HIDE DEF pre, conn
  <2>. QED
    BY Join
<1>5. stream = t
  <2>. pre \in Seq(AnswerUnit) /\ conn.send \in Seq(AnswerUnit)
    BY <1>1, <1>2
  <2>. HIDE DEF conn
  <2>1. Sort(pre \o conn.send) = Sort(pre) \o Sort(conn.send)
    BY SortJoin
  <2>. QED
    BY <2>1 DEF Delivered
<1>6. Delivered(c) \in Seq(Places)
  <2>. DEFINE D == Delivered(c)
  <2>1. D = Sort(pre)
    BY DEF Delivered
  <2>2. Placed(sc, k, pre)
    <3>1. Placed(sc, k, s)
      BY DEF Told
    <3>2. (\A q \in 1..Len(pre) : s[q] = pre[q]) /\ Len(pre) <= Len(s) /\ Len(pre) \in Nat /\ Len(s) \in Nat
      <4>. pre \in Seq(AnswerUnit) /\ conn.send \in Seq(AnswerUnit)
        BY <1>1, <1>2
      <4>1. Len(conn.send) \in Nat /\ Len(pre) \in Nat
        BY LenProperties
      <4>. HIDE DEF pre, conn
      <4>2. (\A q \in 1..Len(pre) : s[q] = pre[q]) /\ Len(s) = Len(pre) + Len(conn.send)
        BY Join
      <4>. HIDE DEF s
      <4>. QED
        BY <4>1, <4>2
    <3>. HIDE DEF pre, s, k
    <3>. QED
      BY <3>1, <3>2 DEF Placed
  <2>. HIDE DEF D, pre, sc, k
  <2>. QED
    BY <1>2, <1>3, <2>1, <2>2, PlacedDue DEF D
<1>. HIDE DEF s, t, d, sc, k, pre, conn, stream
<1>7. d \in Seq(Places) /\ Len(d) = UpTo(sc, k)
  BY <1>2, <1>3, DueLen DEF d
<1>8. Placed(sc, k, s) /\ Told(sc, k, pre, conn)
  BY DEF Told, s, sc, k, pre, conn
<1>9. Len(t) = Len(s) /\ t \in Seq(Places) /\ \A q \in 1..Len(s) : t[q] = d[q]
  <2>1. Len(t) = Len(s) /\ t \in Seq(Places) /\ \A q \in 1..Len(s) : t[q] = DueUpTo(sc, k)[q]
    BY <1>2, <1>3, <1>4, <1>8, PlacedDue DEF t
  <2>. QED
    BY <2>1 DEF d
<1>10. Len(s) <= UpTo(sc, k) /\ (conn.file.open \/ Len(s) = UpTo(sc, k))
  <2>1. Len(pre) + Len(conn.send) <= UpTo(sc, k) /\ (conn.file.open \/ Len(pre) + Len(conn.send) = UpTo(sc, k))
    BY <1>1, <1>2, <1>3, <1>8, ToldLen
  <2>. QED
    BY <1>4, <2>1
<1>11. Len(t) <= Len(d) /\ (conn.file.open \/ Len(t) = Len(d)) /\ Len(t) \in Nat /\ Len(d) \in Nat
  BY <1>7, <1>9, <1>10, LenProperties
<1>12. SubSeq(t, 1, Len(t)) = SubSeq(d, 1, Len(t))
  <2>. DEFINE a == SubSeq(t, 1, Len(t))
              b == SubSeq(d, 1, Len(t))
  <2>1. Len(t) \in 0..Len(t) /\ Len(t) \in 0..Len(d)
    BY <1>11
  <2>2. a \in Seq(Places) /\ Len(a) = Len(t) /\ \A i \in 1..Len(t) : a[i] = t[i]
    <3>. t \in Seq(Places) /\ Len(t) \in 0..Len(t)
      BY <1>9, <2>1
    <3>. QED
      BY Cut
  <2>3. b \in Seq(Places) /\ Len(b) = Len(t) /\ \A i \in 1..Len(t) : b[i] = d[i]
    <3>. d \in Seq(Places) /\ Len(t) \in 0..Len(d)
      BY <1>7, <2>1
    <3>. QED
      BY Cut
  <2>4. \A i \in 1..Len(t) : a[i] = b[i]
    BY <1>9, <2>2, <2>3
  <2>. HIDE DEF a, b
  <2>5. a = b
    BY <2>2, <2>3, <2>4, SeqEqual
  <2>. QED
    BY <2>5 DEF a, b
<1>13. IsPrefix(t, d)
  BY <1>11, <1>12 DEF IsPrefix
<1>. QED
  BY <1>3, <1>5, <1>6, <1>9, <1>11, <1>13 DEF stream, conn

\* The stream of a connection to a browser that waits for its answers is those
\* answers, whole and in the order of the requests: what is buffered, sent in
\* parts and read from a file in parts (mg_send, mg_http_transfer_file_data,
\* mg_mgr_handle_conn) is never lost, repeated or mixed, whatever the sizes of
\* the buffers, and nothing but a file being read is left to be sent.
THEOREM AnswersCorrect == Spec => []AnswersInOrder
<1>1. TypeInv /\ FlowInv /\ ToldInv => AnswersInOrder
  <2>. SUFFICES ASSUME TypeInv, FlowInv, ToldInv, NEW c \in Conns, Plain(c), conns[c] # NULL, fin[c] # "gone"
                PROVE  LET stream == Delivered(c) \o Sort(conns[c].send)
                       IN  /\ IsPrefix(stream, Due(c))
                           /\ conns[c].file.open \/ Len(stream) = Len(Due(c))
    BY DEF AnswersInOrder
  <2>1. Con(c) = conns[c] /\ ~Closed(c)
    BY DEF Con, Closed
  <2>2. AllWait(script[c])
    BY ConWorldIs, LenProperties DEF Plain, AllWait
  <2>3. Told(script[c], Len(handled[c]), got[c] \o toClient[c], Con(c))
    BY <2>1, <2>2 DEF ToldInv, ToldAt
  <2>4. Len(handled[c]) <= Len(script[c])
    <3>1. Len(handled[c]) <= sent[c]
      BY DEF FlowInv, FlowAt, Numbered
    <3>2. sent[c] \in Nat /\ sent[c] \in 0..Len(script[c]) /\ Len(handled[c]) \in Nat /\ Len(script[c]) \in Nat
      BY ConWorldIs, LenProperties DEF Marks
    <3>. QED
      BY <3>1, <3>2
  <2>. QED
    BY <2>1, <2>3, <2>4, DeliveredIs
<1>. QED
  BY <1>1, TypeAlways, FlowAlways, ToldAlways, PTL
-----------------------------------------------------------------------------
(***************************************************************************)
(* The assert of mg_handle_chunked: what it remembers of a body it has     *)
(* reassembled is still buffered, unless another chunked request comes.    *)
(***************************************************************************)
OneChunked(sc) == \A i, j \in 1..Len(sc) : sc[i].enc = "chunked" /\ sc[j].enc = "chunked" => i = j

\* The body remembered is that of a request that was handled, or of the next
\* and then it is buffered.
Remembers(sc, k, conn) ==
    conn.chunk > 0 =>
       \/ \E j \in 1..k : sc[j].enc = "chunked"
       \/ /\ k + 1 \in 1..Len(sc) /\ sc[k + 1].enc = "chunked"
          /\ sc[k + 1].lines + 1 + conn.chunk <= Len(conn.recv)

Unbroken(sc, w) == ~w.aborted /\ Remembers(sc, Len(w.handled), w.conn)

LEMMA RemembersMore ==
    ASSUME NEW sc, NEW k, NEW i, NEW j, Remembers(sc, k, i), j.chunk = i.chunk,
           Len(i.recv) \in Nat, Len(j.recv) \in Nat, i.chunk \in Nat, Len(i.recv) <= Len(j.recv),
           k + 1 \in 1..Len(sc) => sc[k + 1].lines \in Nat
    PROVE  Remembers(sc, k, j)
<1>. SUFFICES ASSUME j.chunk > 0, ~\E q \in 1..k : sc[q].enc = "chunked"
              PROVE  /\ k + 1 \in 1..Len(sc) /\ sc[k + 1].enc = "chunked"
                     /\ sc[k + 1].lines + 1 + j.chunk <= Len(j.recv)
  BY DEF Remembers
<1>1. /\ k + 1 \in 1..Len(sc) /\ sc[k + 1].enc = "chunked"
      /\ sc[k + 1].lines + 1 + i.chunk <= Len(i.recv)
  BY DEF Remembers
<1>2. sc[k + 1].lines \in Nat
  BY <1>1
<1>3. \A l, m, p, q \in Nat : l + 1 + m <= p /\ p <= q => l + 1 + m <= q
  OBVIOUS
<1>4. sc[k + 1].lines + 1 + i.chunk <= Len(j.recv)
  BY <1>1, <1>2, <1>3
<1>. QED
  BY <1>1, <1>4

LEMMA UnbrokenSame ==
    ASSUME NEW sc, Scripted(sc), NEW w \in Worlds, NEW v \in Worlds, Unbroken(sc, w),
           v.handled = w.handled, v.aborted = w.aborted, v.conn.chunk = w.conn.chunk,
           Len(w.conn.recv) <= Len(v.conn.recv)
    PROVE  Unbroken(sc, v)
<1>1. w.conn.recv \in Seq(RequestUnit) /\ v.conn.recv \in Seq(RequestUnit) /\ w.conn.chunk \in Nat
  BY WorldIs
<1>2. Len(w.conn.recv) \in Nat /\ Len(v.conn.recv) \in Nat
  BY <1>1, LenProperties
<1>3. Len(w.handled) + 1 \in 1..Len(sc) => sc[Len(w.handled) + 1].lines \in Nat
  BY ScriptedReq
<1>4. ~w.aborted /\ Remembers(sc, Len(w.handled), w.conn)
  BY DEF Unbroken
<1>5. Remembers(sc, Len(w.handled), v.conn)
  BY <1>1, <1>2, <1>3, <1>4, RemembersMore
<1>. QED
  BY <1>4, <1>5 DEF Unbroken

\* Handling a request leaves what is remembered of a body to the past.
LEMMA UnbrokenHandles ==
    ASSUME NEW sc, Scripted(sc), NEW w \in Worlds, NEW v, NEW k, k = Len(w.handled), k \in Nat, k + 1 \in 1..Len(sc),
           ~w.aborted, NEW req, NEW msg, Handles(w, v, req, msg),
           Len(v.handled) = k + 1, w.conn.chunk > 0 => \E j \in 1..(k + 1) : sc[j].enc = "chunked"
    PROVE  Unbroken(sc, v)
<1>1. v.aborted = w.aborted /\ v.conn.chunk = w.conn.chunk
  BY DEF Handles
<1>. QED
  BY <1>1 DEF Unbroken, Remembers

\* A call of the handler whose buffer has a head in it: the next request's.
Heads(sc, k, w, len) ==
    /\ Scripted(sc) /\ k = Len(w.handled) /\ k \in Nat /\ k + 1 \in 1..Len(sc)
    /\ w \in Worlds /\ len = sc[k + 1].lines + 1 /\ len \in 1..Len(w.conn.recv)
    /\ w.conn.recv[1].req = sc[k + 1]

\* A request that is not chunked.
LEMMA PlainUnbroken ==
    ASSUME NEW sc, NEW k, NEW w, NEW v, NEW len, Heads(sc, k, w, len), Unbroken(sc, w),
           sc[k + 1].enc # "chunked", NEW msg, Handles(w, v, sc[k + 1], msg), Len(v.handled) = k + 1
    PROVE  Unbroken(sc, v)
<1>1. ~w.aborted /\ Remembers(sc, k, w.conn)
  BY DEF Unbroken, Heads
<1>2. w.conn.chunk > 0 => \E j \in 1..(k + 1) : sc[j].enc = "chunked"
  <2>1. w.conn.chunk > 0 => \E j \in 1..k : sc[j].enc = "chunked"
    BY <1>1 DEF Remembers
  <2>2. k \in Nat
    BY DEF Heads
  <2>. QED
    BY <2>1, <2>2
<1>. QED
  BY <1>1, <1>2, UnbrokenHandles DEF Heads

\* The first chunked request: what is remembered is in the buffer, and then
\* what is collapsed to.
LEMMA FirstChunked ==
    ASSUME NEW sc, NEW k, NEW w, NEW len, Heads(sc, k, w, len), Unbroken(sc, w), OneChunked(sc),
           sc[k + 1].enc = "chunked"
    PROVE  w.conn.chunk <= Len(After(w.conn.recv, len))
<1>1. /\ k \in Nat /\ k + 1 \in 1..Len(sc) /\ len = sc[k + 1].lines + 1 /\ len \in 1..Len(w.conn.recv)
      /\ w.conn.recv \in Seq(RequestUnit) /\ w.conn.chunk \in Nat /\ Len(w.conn.recv) \in Nat
      /\ sc[k + 1].lines \in Nat /\ Len(sc) \in Nat
  BY WorldIs, ScriptedReq DEF Heads
<1>2. Len(After(w.conn.recv, len)) = Len(w.conn.recv) - len
  <2>. w.conn.recv \in Seq(RequestUnit) /\ len \in 0..Len(w.conn.recv)
    BY <1>1
  <2>. QED
    BY Cut DEF After
<1>3. w.conn.chunk > 0 => sc[k + 1].lines + 1 + w.conn.chunk <= Len(w.conn.recv)
  <2>1. ~\E j \in 1..k : sc[j].enc = "chunked"
    <3>. SUFFICES ASSUME NEW j \in 1..k, sc[j].enc = "chunked" PROVE FALSE
      OBVIOUS
    <3>1. j \in 1..Len(sc) /\ j # k + 1
      BY <1>1
    <3>. QED
      BY <1>1, <3>1 DEF OneChunked
  <2>. QED
    BY <2>1 DEF Unbroken, Remembers, Heads
<1>4. CASE w.conn.chunk = 0
  <2>. len <= Len(w.conn.recv) /\ len \in Nat
    BY <1>1
  <2>. QED
    BY <1>1, <1>2, <1>4
<1>5. CASE w.conn.chunk > 0
  <2>1. \A l, m, p \in Nat : l + 1 + m <= p => m <= p - (l + 1)
    OBVIOUS
  <2>2. w.conn.chunk <= Len(w.conn.recv) - (sc[k + 1].lines + 1)
    BY <1>1, <1>3, <1>5, <2>1
  <2>. QED
    BY <1>1, <1>2, <2>2
<1>. QED
  BY <1>1, <1>4, <1>5

\* What a chunked body collapses to is in the buffer as well.
LEMMA CollapseRemembers ==
    ASSUME NEW sc, NEW k, NEW w, NEW len, Heads(sc, k, w, len), ~w.aborted, sc[k + 1].enc = "chunked",
           NEW u, NEW buf, NEW m, NEW zero, w.conn.chunk <= Len(After(w.conn.recv, len)),
           Collapses(After(w.conn.recv, len), w.conn.chunk, buf, m, zero), Collapsed(w, u, len, buf, m)
    PROVE  Unbroken(sc, u)
<1>1. /\ k \in Nat /\ k + 1 \in 1..Len(sc) /\ len = sc[k + 1].lines + 1 /\ len \in 1..Len(w.conn.recv)
      /\ w.conn.recv \in Seq(RequestUnit) /\ Len(w.conn.recv) \in Nat /\ k = Len(w.handled)
      /\ sc[k + 1].lines \in Nat
  BY WorldIs, ScriptedReq DEF Heads
<1>2. /\ buf \in Seq(RequestUnit) /\ m \in Nat
      /\ (buf = After(w.conn.recv, len) /\ m = w.conn.chunk) \/ m <= Len(buf)
  BY DEF Collapses
<1>3. m <= Len(buf) /\ Len(buf) \in Nat
  BY <1>2, LenProperties
<1>4. /\ u.handled = w.handled /\ u.aborted = w.aborted /\ u.conn.chunk = m
      /\ u.conn.recv = SubSeq(w.conn.recv, 1, len) \o buf
  BY DEF Collapsed, SameRest
<1>5. Len(u.conn.recv) = len + Len(buf)
  <2>. w.conn.recv \in Seq(RequestUnit) /\ len \in 0..Len(w.conn.recv)
    BY <1>1
  <2>1. SubSeq(w.conn.recv, 1, len) \in Seq(RequestUnit) /\ Len(SubSeq(w.conn.recv, 1, len)) = len
    BY Cut
  <2>2. Len(SubSeq(w.conn.recv, 1, len) \o buf) = Len(SubSeq(w.conn.recv, 1, len)) + Len(buf)
    BY <1>2, <2>1, Join
  <2>. QED
    BY <1>4, <2>1, <2>2
<1>6. sc[k + 1].lines + 1 + m <= Len(u.conn.recv)
  <2>1. \A l, p, q \in Nat : p <= q => l + 1 + p <= (l + 1) + q
    OBVIOUS
  <2>. QED
    BY <1>1, <1>2, <1>3, <1>5, <2>1
<1>7. Remembers(sc, k, u.conn)
  BY <1>1, <1>4, <1>6 DEF Remembers
<1>. QED
  BY <1>1, <1>4, <1>7 DEF Unbroken

LEMMA ChunkedUnbroken ==
    ASSUME NEW sc, NEW k, NEW w, NEW v, NEW len, Heads(sc, k, w, len), Unbroken(sc, w), OneChunked(sc),
           sc[k + 1].enc = "chunked",
           NEW u, NEW buf, NEW m, NEW zero,
           Collapses(After(w.conn.recv, len), w.conn.chunk, buf, m, zero), Collapsed(w, u, len, buf, m),
           v = u \/ (zero /\ Handles(u, v, sc[k + 1], Len(buf) + len) /\ Len(v.handled) = k + 1)
    PROVE  Unbroken(sc, v)
<1>1. Unbroken(sc, u)
  <2>1. ~w.aborted
    BY DEF Unbroken
  <2>. QED
    BY <2>1, FirstChunked, CollapseRemembers
<1>2. CASE v = u
  BY <1>1, <1>2
<1>3. CASE Handles(u, v, sc[k + 1], Len(buf) + len) /\ Len(v.handled) = k + 1
  <2>1. /\ k \in Nat /\ k + 1 \in 1..Len(sc) /\ Scripted(sc) /\ k = Len(u.handled) /\ u \in Worlds
    BY DEF Heads, Collapsed, SameRest
  <2>2. k + 1 \in 1..(k + 1) /\ ~u.aborted
    BY <1>1, <2>1 DEF Unbroken
  <2>3. \E j \in 1..(k + 1) : sc[j].enc = "chunked"
    BY <2>2
  <2>. QED
    BY <1>3, <2>1, <2>2, <2>3, UnbrokenHandles
<1>. QED
  BY <1>2, <1>3

LEMMA HandlesLen ==
    ASSUME NEW w \in Worlds, NEW v, NEW req \in Requests, NEW msg, Handles(w, v, req, msg)
    PROVE  Len(v.handled) = Len(w.handled) + 1
<1>. DEFINE S == [req : Nat, whole : BOOLEAN]
<1>1. PICK whole \in BOOLEAN : v.handled = Append(w.handled, [req |-> req.id, whole |-> whole])
  BY DEF Handles
<1>2. w.handled \in Seq(S) /\ [req |-> req.id, whole |-> whole] \in S
  BY RequestIs, WorldIs DEF Marks
<1>. HIDE DEF S
<1>. QED
  BY <1>1, <1>2, AppendProperties

LEMMA UnbrokenParse ==
    ASSUME NEW sc, NEW n, NEW g \in Nat, NEW f, NEW w, NEW i, NEW o \in Seq(AnswerUnit), Flow(sc, n, g, f, w, i, o),
           NEW v, NEW len \in Int, HeadOf(w.conn.recv, len), Parses(w, v, len), v \in Worlds,
           OneChunked(sc), Unbroken(sc, w)
    PROVE  Unbroken(sc, v)
<1>. DEFINE k == Len(w.handled)
<1>1. Scripted(sc) /\ w \in Worlds /\ k \in Nat
  BY FlowTypes
<1>2. CASE len <= 0
  <2>1. v = w \/ v = Flag(w, "CLOSE_IMMEDIATELY")
    BY <1>2 DEF Parses
  <2>2. /\ v.handled = w.handled /\ v.aborted = w.aborted /\ v.conn.chunk = w.conn.chunk
        /\ v.conn.recv = w.conn.recv /\ Len(w.conn.recv) \in Nat
    BY <1>1, <2>1, FlagIs, WorldIs DEF Flags, SameInput, SameRest
  <2>3. Len(w.conn.recv) <= Len(v.conn.recv)
    BY <2>2
  <2>. QED
    BY <1>1, <2>2, <2>3, UnbrokenSame
<1>3. CASE len > 0
  <2>1. /\ k + 1 \in 1..Len(sc) /\ w.conn.recv[1].req = sc[k + 1] /\ len = sc[k + 1].lines + 1
    BY <1>3, FlowHead
  <2>2. len \in 1..Len(w.conn.recv)
    BY <1>3 DEF HeadOf
  <2>3. Heads(sc, k, w, len) /\ sc[k + 1] \in Requests
    BY <1>1, <2>1, <2>2, ScriptedReq DEF Heads
  <2>. DEFINE req == sc[k + 1]
  <2>4. CASE req.enc # "chunked"
    <3>1. v = w \/ Handles(w, v, req, PlainLen(req, len))
      BY <1>3, <2>1, <2>4 DEF Parses
    <3>2. CASE Handles(w, v, req, PlainLen(req, len))
      <4>1. Len(v.handled) = k + 1
        BY <1>1, <2>3, <3>2, HandlesLen
      <4>. HIDE DEF k
      <4>. QED
        BY <2>3, <2>4, <3>2, <4>1, PlainUnbroken
    <3>. QED
      BY <3>1, <3>2
  <2>5. CASE req.enc = "chunked"
    <3>0. w.conn.chunk <= Len(After(w.conn.recv, len))
      <4>. HIDE DEF k
      <4>. QED
        BY <2>3, <2>5, FirstChunked
    <3>1. \/ Len(After(w.conn.recv, len)) < w.conn.chunk
          \/ \E u, buf, m, zero :
                /\ Collapses(After(w.conn.recv, len), w.conn.chunk, buf, m, zero) /\ Collapsed(w, u, len, buf, m)
                /\ v = u \/ (zero /\ Handles(u, v, req, Len(buf) + len))
      BY <1>3, <2>1, <2>5 DEF Parses
    <3>2. ~(Len(After(w.conn.recv, len)) < w.conn.chunk)
      <4>1. w.conn.recv \in Seq(RequestUnit) /\ len \in 0..Len(w.conn.recv) /\ w.conn.chunk \in Nat
        BY <1>1, <2>2, WorldIs
      <4>2. Len(After(w.conn.recv, len)) \in Nat
        BY <4>1, Cut, LenProperties DEF After
      <4>. QED
        BY <3>0, <4>1, <4>2
    <3>3. PICK u, buf, m, zero :
                /\ Collapses(After(w.conn.recv, len), w.conn.chunk, buf, m, zero) /\ Collapsed(w, u, len, buf, m)
                /\ v = u \/ (zero /\ Handles(u, v, req, Len(buf) + len))
      BY <3>1, <3>2
    <3>4. Handles(u, v, req, Len(buf) + len) => Len(v.handled) = k + 1
      <4>1. u \in Worlds /\ u.handled = w.handled
        BY <3>3 DEF Collapsed, SameRest
      <4>. QED
        BY <2>3, <4>1, HandlesLen
    <3>. HIDE DEF k
    <3>. QED
      BY <2>3, <2>5, <3>3, <3>4, ChunkedUnbroken
  <2>. QED
    BY <2>4, <2>5
<1>. QED
  BY <1>2, <1>3

\* A flow whose connection remembers nothing that is not there.
Unbrokens(sc, n, g, f) == {s \in FlowStates(sc, n, g, f) : Unbroken(sc, s.w)}

LEMMA InUnbrokens ==
    ASSUME NEW sc, NEW n, NEW g, NEW f, NEW w, NEW i, NEW o
    PROVE  St(w, i, o) \in Unbrokens(sc, n, g, f) <=> St(w, i, o) \in FlowStates(sc, n, g, f) /\ Unbroken(sc, w)
BY DEF Unbrokens, St

LEMMA UnbrokenKept ==
    ASSUME NEW c \in Conns, NEW sc, NEW n, NEW g \in Nat, NEW f, Scripted(sc), OneChunked(sc)
    PROVE  Keeps(c, Unbrokens(sc, n, g, f)) /\ Unbrokens(sc, n, g, f) \in SUBSET States
<1>. DEFINE F == FlowStates(sc, n, g, f)
            G == Unbrokens(sc, n, g, f)
<1>0. Keeps(c, F)
  BY FlowKept
<1>1. ASSUME NEW w, NEW i, NEW o, St(w, i, o) \in G
      PROVE  /\ St(w, i, o) \in F /\ Unbroken(sc, w) /\ Flow(sc, n, g, f, w, i, o)
             /\ w \in Worlds /\ FileOK(w.conn.file) /\ i \in Seq(RequestUnit) /\ o \in Seq(AnswerUnit)
  BY <1>1, InUnbrokens, InFlow, InStates
<1>2. ASSUME NEW w, NEW i, NEW o, St(w, i, o) \in F, Unbroken(sc, w) PROVE St(w, i, o) \in G
  BY <1>2, InUnbrokens
<1>3. ASSUME NEW w, NEW i, NEW o, St(w, i, o) \in F PROVE w \in Worlds /\ Len(w.conn.recv) \in Nat
  BY <1>3, InFlow, InStates, WorldIs
<1>. HIDE DEF G, F
<1>4. KeepsTransfer(G)
  <2>. SUFFICES ASSUME NEW w, NEW i, NEW o, St(w, i, o) \in G
                PROVE  St(mg_http_transfer_file_data(w), i, o) \in G
    BY DEF KeepsTransfer
  <2>. DEFINE v == mg_http_transfer_file_data(w)
  <2>1. SameInput(w, v) /\ SameRest(w, v)
    BY <1>1, TransferIs
  <2>2. St(v, i, o) \in F
    BY <1>0, <1>1 DEF Keeps, KeepsTransfer
  <2>. HIDE DEF v
  <2>3. Unbroken(sc, v)
    BY <1>1, <1>3, <2>1, <2>2, UnbrokenSame DEF SameInput, SameRest
  <2>. QED
    BY <1>2, <2>2, <2>3 DEF v
<1>5. KeepsReceive(G)
  <2>. SUFFICES ASSUME NEW w, NEW i, NEW o, St(w, i, o) \in G, NEW m \in 1..Len(i)
                PROVE  St(Received(w, SubSeq(i, 1, m), m), SubSeq(i, m + 1, Len(i)), o) \in G
    BY DEF KeepsReceive
  <2>. DEFINE v == Received(w, SubSeq(i, 1, m), m)
  <2>1. SubSeq(i, 1, m) \in Seq(RequestUnit) /\ m \in Nat
    <3>1. i \in Seq(RequestUnit) /\ Len(i) \in Nat
      BY <1>1, LenProperties
    <3>2. m \in 0..Len(i)
      BY <3>1
    <3>. QED
      BY <3>1, <3>2, Cut
  <2>2. SameRest(w, v) /\ v.conn.chunk = w.conn.chunk /\ v.conn.recv = w.conn.recv \o SubSeq(i, 1, m)
    BY <1>1, <2>1, ReceivedIs
  <2>3. Len(w.conn.recv) <= Len(w.conn.recv \o SubSeq(i, 1, m))
    <3>. DEFINE a == w.conn.recv
                b == SubSeq(i, 1, m)
    <3>1. a \in Seq(RequestUnit) /\ b \in Seq(RequestUnit)
      BY <1>1, <2>1, WorldIs
    <3>. HIDE DEF a, b
    <3>2. Len(a \o b) = Len(a) + Len(b) /\ Len(a) \in Nat /\ Len(b) \in Nat
      BY <3>1, Join, LenProperties
    <3>3. Len(a) <= Len(a \o b)
      BY <3>2
    <3>. QED
      BY <3>3 DEF a, b
  <2>4. St(v, SubSeq(i, m + 1, Len(i)), o) \in F
    BY <1>0, <1>1 DEF Keeps, KeepsReceive
  <2>. HIDE DEF v
  <2>5. Unbroken(sc, v)
    BY <1>1, <1>3, <2>2, <2>3, <2>4, UnbrokenSame DEF SameRest
  <2>. QED
    BY <1>2, <2>4, <2>5 DEF v
<1>6. KeepsParse(G)
  <2>. SUFFICES ASSUME NEW w, NEW i, NEW o, St(w, i, o) \in G, NEW other \in Diaries \cup {0}
                PROVE  St(Parsed(w, mg_parse_http(w.conn.recv), other), i, o) \in G
    BY DEF KeepsParse
  <2>. DEFINE v == Parsed(w, mg_parse_http(w.conn.recv), other)
  <2>1. PICK len \in Int : HeadOf(w.conn.recv, len) /\ Parses(w, v, len)
    BY <1>1, ParsedIs
  <2>2. St(v, i, o) \in F
    BY <1>0, <1>1 DEF Keeps, KeepsParse
  <2>. HIDE DEF v
  <2>3. Unbroken(sc, v)
    BY <1>1, <1>3, <2>1, <2>2, UnbrokenParse
  <2>. QED
    BY <1>2, <2>2, <2>3 DEF v
<1>7. KeepsEnd(c, G)
  <2>. SUFFICES ASSUME NEW w, NEW i, NEW o, St(w, i, o) \in G
                PROVE  /\ fin[c] # "open" /\ i = <<>> => St(Flag(w, "SEND_AND_CLOSE"), i, o) \in G
                       /\ fin[c] = "gone" => St(Flag(w, "CLOSE_IMMEDIATELY"), i, o) \in G
    BY DEF KeepsEnd
  <2>1. ASSUME NEW flag \in Flags PROVE Unbroken(sc, Flag(w, flag))
    <3>. DEFINE v == Flag(w, flag)
    <3>1. v \in Worlds /\ SameInput(w, v) /\ SameRest(w, v) /\ Len(w.conn.recv) \in Nat
      BY <1>1, <1>3, FlagIs
    <3>. HIDE DEF v
    <3>2. Unbroken(sc, v)
      BY <1>1, <3>1, UnbrokenSame DEF SameInput, SameRest
    <3>. QED
      BY <3>2 DEF v
  <2>2. /\ fin[c] # "open" /\ i = <<>> => St(Flag(w, "SEND_AND_CLOSE"), i, o) \in F
        /\ fin[c] = "gone" => St(Flag(w, "CLOSE_IMMEDIATELY"), i, o) \in F
    BY <1>0, <1>1 DEF Keeps, KeepsEnd
  <2>3. Unbroken(sc, Flag(w, "SEND_AND_CLOSE")) /\ Unbroken(sc, Flag(w, "CLOSE_IMMEDIATELY"))
    BY <2>1 DEF Flags
  <2>. QED
    BY <1>2, <2>2, <2>3
<1>8. KeepsWrite(c, G)
  <2>. SUFFICES ASSUME NEW w, NEW i, NEW o, St(w, i, o) \in G, NEW m \in 0..Len(w.conn.send)
                PROVE  St(Written(w, m), i, Reads(c, o, SubSeq(w.conn.send, 1, m))) \in G
    BY DEF KeepsWrite
  <2>. DEFINE v == Written(w, m)
  <2>1. St(v, i, Reads(c, o, SubSeq(w.conn.send, 1, m))) \in F
    BY <1>0, <1>1 DEF Keeps, KeepsWrite
  <2>2. SameInput(w, v) /\ SameRest(w, v)
    BY <1>1, WrittenIs
  <2>. HIDE DEF v
  <2>3. Unbroken(sc, v)
    BY <1>1, <1>3, <2>1, <2>2, UnbrokenSame DEF SameInput, SameRest
  <2>. QED
    BY <1>2, <2>1, <2>3 DEF v
<1>9. G \in SUBSET States
  BY DEF G, Unbrokens, FlowStates
<1>. QED
  BY <1>4, <1>5, <1>6, <1>7, <1>8, <1>9 DEF Keeps, G

RemembersAt(c) == OneChunked(script[c]) => Remembers(script[c], Len(handled[c]), Con(c))

\* No assert has failed, if no browser has two chunked requests to make.
Sound == (\A c \in Conns : OneChunked(script[c])) => ~aborted

RemembersInv == Sound /\ \A c \in Conns : FlowAt(c) /\ RemembersAt(c)

LEMMA HandleServes == ASSUME TypeInv, NEW c \in Conns, HandleConn(c) PROVE Serves(c)
<1>1. UNCHANGED <<fin, cut, script, sent, got>> /\ conns[c] # NULL
  BY HandledConnType DEF HandleConn, browser
<1>2. \E w, i, o : /\ St(w, i, o) \in States /\ SetWorld(c, w) /\ Len(o) <= SockBuf
                   /\ toServer' = [toServer EXCEPT ![c] = i] /\ toClient' = [toClient EXCEPT ![c] = o]
  <2>1. States \in SUBSET States /\ Keeps(c, States)
    BY StatesKept
  <2>2. St(World(c), toServer[c], toClient[c]) \in States
    BY <1>1, ConnIs
  <2>3. Len(toClient[c]) <= SockBuf
    BY DEF TypeInv, NetworkType
  <2>. QED
    BY <2>1, <2>2, <2>3, HandleConnIs
<1>3. PICK w, i, o : St(w, i, o) \in States /\ SetWorld(c, w)
  BY <1>2
<1>4. w.conn # NULL
  <2>1. w \in Worlds
    BY <1>3, InStates
  <2>. QED
    BY <2>1, WorldIs, NullAssumption
<1>5. conns' = [conns EXCEPT ![c] = w.conn] /\ conns \in [Conns -> Connection \cup {NULL}]
  BY <1>3 DEF SetWorld, TypeInv, ServerType
<1>6. conns'[c] # NULL
  BY <1>4, <1>5
<1>. QED
  BY <1>1, <1>6 DEF Serves, SameScript

LEMMA ServesRemembers ==
    ASSUME TypeInv, NEW c \in Conns, FlowAt(c), RemembersAt(c), Serves(c), OneChunked(script[c])
    PROVE  ~aborted' /\ Remembers(script[c], Len(handled'[c]), ConAfter(c))
<1>. DEFINE sc == script[c]
            n == sent[c]
            g == Len(got[c])
            f == fin[c]
            i == toServer[c]
            o == toClient[c]
            G == Unbrokens(sc, n, g, f)
<1>1. /\ conns[c] # NULL /\ ConWorld(c) = World(c) /\ World(c).handled = handled[c] /\ World(c).conn = Con(c)
      /\ g \in Nat /\ Scripted(sc) /\ World(c).aborted = aborted /\ ~aborted
  BY ConWorldIs DEF Serves, World, HandleConn
<1>2. Flow(sc, n, g, f, World(c), i, o)
  BY <1>1 DEF FlowAt, FlowOf, Closed
<1>3. Unbroken(sc, World(c))
  BY <1>1 DEF Unbroken, RemembersAt
<1>4. St(World(c), i, o) \in G
  <2>1. St(World(c), i, o) \in States
    BY <1>1, ConnIs
  <2>2. St(World(c), i, o) \in FlowStates(sc, n, g, f)
    BY <1>2, <2>1, InFlow
  <2>. QED
    BY <1>3, <2>2, InUnbrokens
<1>5. Keeps(c, G) /\ G \in SUBSET States
  <2>. OneChunked(sc)
    OBVIOUS
  <2>. HIDE DEF sc, n, g, f
  <2>. QED
    BY <1>1, UnbrokenKept
<1>6. PICK v, j, p : St(v, j, p) \in G /\ ConAfter(c) = v.conn /\ handled'[c] = v.handled /\ aborted' = v.aborted
  <2>. HIDE DEF G
  <2>. QED
    BY <1>4, <1>5, ServesIs
<1>7. Unbroken(sc, v)
  BY <1>6, InUnbrokens
<1>. QED
  BY <1>6, <1>7 DEF Unbroken

LEMMA RemembersStep ==
    ASSUME TypeInv, TypeInv', NEW c \in Conns, FlowAt(c), RemembersAt(c), StepOf(c)
    PROVE  RemembersAt(c)'
<1>. SUFFICES ASSUME OneChunked(script[c])
              PROVE  Remembers(script[c], Len(handled'[c]), ConAfter(c))
  <2>1. script'[c] = script[c] /\ Con(c)' = ConAfter(c)
    BY DEF StepOf, Quiet, Serves, Closes, Asks, Gets, Leaves, SameScript, Con, ConAfter
  <2>2. RemembersAt(c)' <=> (OneChunked(script'[c]) => Remembers(script'[c], Len(handled'[c]), Con(c)'))
    BY DEF RemembersAt
  <2>. QED
    BY <2>1, <2>2
<1>1. CASE SameCon(c)
  BY <1>1 DEF SameCon, RemembersAt
<1>2. CASE Serves(c)
  BY <1>2, ServesRemembers
<1>3. CASE Closes(c)
  <2>1. ConAfter(c).chunk = 0
    BY <1>3 DEF Closes, ConAfter, mg_create_connection
  <2>. QED
    BY <2>1 DEF Remembers
<1>. QED
  BY <1>1, <1>2, <1>3 DEF StepOf, Quiet, Asks, Gets, Leaves

LEMMA SoundStep ==
    ASSUME TypeInv, TypeInv', RemembersInv, [Next]_vars
    PROVE  Sound'
<1>. SUFFICES ASSUME \A c \in Conns : OneChunked(script[c])
              PROVE  ~aborted'
  <2>1. \A c \in Conns : script'[c] = script[c]
    BY StepIs DEF StepOf, Quiet, Serves, Closes, Asks, Gets, Leaves, SameScript
  <2>2. Sound' <=> ((\A c \in Conns : OneChunked(script'[c])) => ~aborted')
    BY DEF Sound
  <2>. QED
    BY <2>1, <2>2
<1>1. ~aborted
  BY DEF RemembersInv, Sound
<1>2. CASE \E c \in Conns : HandleConn(c)
  BY <1>1, <1>2, HandleServes, ServesRemembers DEF RemembersInv
<1>3. CASE CloseConn
  BY <1>1, <1>3, CloseConnIs
<1>4. CASE UNCHANGED aborted
  BY <1>1, <1>4
<1>5. CASE Select \/ Accept \/ Environment \/ UNCHANGED vars
  <2>1. UNCHANGED aborted
    BY <1>5 DEF Select, Accept, Environment, Connect, Request, Read, Leave, vars, server
  <2>. QED
    BY <1>4, <2>1
<1>. QED
  BY <1>2, <1>3, <1>5 DEF Next, Loop

LEMMA RemembersAlways == Spec => []RemembersInv
<1>1. Init => RemembersInv
  <2>. SUFFICES ASSUME Init PROVE Sound /\ \A c \in Conns : FlowAt(c) /\ RemembersAt(c)
    BY DEF RemembersInv
  <2>1. ~aborted /\ \A c \in Conns : FlowAt(c)
    BY FlowInit DEF Init, FlowInv
  <2>2. ASSUME NEW c \in Conns PROVE Con(c).chunk = 0
    BY DEF Init, Con, mg_create_connection
  <2>. QED
    BY <2>1, <2>2 DEF Sound, RemembersAt, Remembers
<1>2. TypeInv /\ TypeInv' /\ RemembersInv /\ [Next]_vars => RemembersInv'
  <2>. SUFFICES ASSUME TypeInv, TypeInv', RemembersInv, [Next]_vars
                PROVE  Sound' /\ \A c \in Conns : FlowAt(c)' /\ RemembersAt(c)'
    BY DEF RemembersInv
  <2>1. Sound'
    BY SoundStep
  <2>2. ASSUME NEW c \in Conns PROVE FlowAt(c)'
    BY StepIs, FlowStep DEF RemembersInv
  <2>3. ASSUME NEW c \in Conns PROVE RemembersAt(c)'
    BY StepIs, RemembersStep DEF RemembersInv
  <2>. QED
    BY <2>1, <2>2, <2>3
<1>. QED
  BY <1>1, <1>2, TypeAlways, PTL DEF Spec

LEMMA PlainOne == ASSUME TypeInv, NEW c \in Conns, Plain(c) PROVE OneChunked(script[c])
<1>. DEFINE T == {k \in DOMAIN script[c] : script[c][k].enc = "chunked"}
<1>1. Cardinality(T) <= 1
  BY DEF Plain
<1>2. script[c] \in Seq(Requests)
  BY ConWorldIs
<1>3. Len(script[c]) \in Nat /\ DOMAIN script[c] = 1..Len(script[c])
  BY <1>2, LenProperties
<1>4. IsFiniteSet(T)
  <2>1. IsFiniteSet(1..Len(script[c]))
    BY <1>3, FS_Interval
  <2>. QED
    BY <1>3, <2>1, FS_Subset
<1>. SUFFICES ASSUME NEW i \in T, NEW j \in T PROVE i = j
  BY <1>3 DEF OneChunked
<1>. HIDE DEF T
<1>5. Cardinality({i, j}) <= Cardinality(T)
  BY <1>4, FS_Subset
<1>6. Cardinality({i, j}) \in Nat /\ Cardinality(T) \in Nat
  BY <1>4, FS_Subset, FS_CardinalityType
<1>7. Cardinality({i, j}) = 2 \/ i = j
  <2>1. i # j => Cardinality({i, j}) = 2
    <3>. SUFFICES ASSUME i # j PROVE Cardinality({i, j}) = 2
      OBVIOUS
    <3>1. IsFiniteSet({i}) /\ Cardinality({i}) = 1
      BY FS_Singleton
    <3>2. {i, j} = {i} \cup {j} /\ j \notin {i}
      OBVIOUS
    <3>3. Cardinality({i} \cup {j}) = Cardinality({i}) + 1
      BY <3>1, <3>2, FS_AddElement
    <3>. QED
      BY <3>1, <3>2, <3>3
  <2>. QED
    BY <2>1
<1>. QED
  BY <1>1, <1>5, <1>6, <1>7

\* The assert of mg_handle_chunked, that the body it has reassembled is still
\* buffered, holds while every browser sends one chunked request at most,
\* however the chunks arrive: only a second one finds the length of the first
\* remembered (pd->chunk is not reset).
THEOREM AbortsCorrect == Spec => []AbortsOnSecondChunked
<1>1. TypeInv /\ RemembersInv => AbortsOnSecondChunked
  BY PlainOne DEF RemembersInv, Sound, AbortsOnSecondChunked
<1>. QED
  BY <1>1, TypeAlways, RemembersAlways, PTL
-----------------------------------------------------------------------------
(***************************************************************************)
(* The end of a connection: the loop closes those that were done with when *)
(* it had handled the last of its list, and does not handle them again.    *)
(***************************************************************************)
ToVisit == {todo[i].conn : i \in DOMAIN todo}

Over(c) == conns[c] # NULL /\ CloseNow(conns[c])

PhaseAt(c) ==
    /\ phase = "select" => ~Over(c)
    /\ phase = "handle" => (Over(c) => c \notin ToVisit)
    /\ phase = "close" => (Over(c) <=> c \in ToVisit)

LEMMA TailVisits ==
    ASSUME TodoType, todo # <<>>, todo' = Tail(todo)
    PROVE  ToVisit' = ToVisit \ {Head(todo).conn}
<1>1. /\ Head(todo) = todo[1] /\ 1 \in DOMAIN todo /\ DOMAIN Tail(todo) = 1..(Len(todo) - 1) /\ DOMAIN todo = 1..Len(todo)
      /\ (\A i \in DOMAIN Tail(todo) : i + 1 \in DOMAIN todo /\ Tail(todo)[i] = todo[i + 1])
      /\ (\A i \in DOMAIN Tail(todo) : Tail(todo)[i].conn # Head(todo).conn) /\ Len(todo) \in Nat
  BY HeadTodo
<1>2. ToVisit' = {Tail(todo)[i].conn : i \in DOMAIN Tail(todo)}
  BY DEF ToVisit
<1>3. ASSUME NEW d \in ToVisit' PROVE d \in ToVisit /\ d # Head(todo).conn
  <2>1. PICK i \in DOMAIN Tail(todo) : d = Tail(todo)[i].conn
    BY <1>2, <1>3
  <2>2. i + 1 \in DOMAIN todo /\ d = todo[i + 1].conn /\ d # Head(todo).conn
    BY <1>1, <2>1
  <2>. QED
    BY <2>2 DEF ToVisit
<1>4. ASSUME NEW d \in ToVisit, d # Head(todo).conn PROVE d \in ToVisit'
  <2>1. PICK i \in DOMAIN todo : d = todo[i].conn
    BY <1>4 DEF ToVisit
  <2>2. i # 1
    BY <1>1, <1>4, <2>1
  <2>3. i - 1 \in DOMAIN Tail(todo) /\ (i - 1) + 1 = i
    BY <1>1, <2>2
  <2>4. Tail(todo)[i - 1] = todo[(i - 1) + 1]
    BY <1>1, <2>3
  <2>5. d = Tail(todo)[i - 1].conn
    BY <2>1, <2>3, <2>4
  <2>. QED
    BY <1>2, <2>3, <2>5
<1>. QED
  BY <1>3, <1>4

\* What is done with at the end of the list is closed next.
LEMMA AdvancePhase ==
    ASSUME TodoType, phase = "handle", todo # <<>>, ListType', NEW c \in Conns, Advance(list', conns'),
           Over(c)' => c \notin ToVisit \ {Head(todo).conn}
    PROVE  PhaseAt(c)'
<1>1. CASE Len(todo) > 1
  <2>1. todo' = Tail(todo) /\ phase' = "handle"
    BY <1>1 DEF Advance
  <2>2. ToVisit' = ToVisit \ {Head(todo).conn}
    BY <2>1, TailVisits
  <2>. QED
    BY <2>1, <2>2 DEF PhaseAt
<1>2. CASE ~(Len(todo) > 1)
  <2>. DEFINE keep == {d \in Conns \cap ToSet(list') : CloseNow(conns'[d])}
              dead == Among(list', keep)
              S == Conns \cup {Listener}
  <2>1. /\ todo' = [i \in DOMAIN dead |-> [conn |-> dead[i], rd |-> FALSE, wr |-> FALSE]]
        /\ phase' = IF dead = <<>> THEN "select" ELSE "close"
    BY <1>2 DEF Advance
  <2>2. list' \in Seq(S) /\ ToSet(list') = {Listener} \cup {d \in Conns : conns'[d] # NULL}
    BY DEF ListType
  <2>3. ToSet(dead) = ToSet(list') \cap keep /\ dead \in Seq(S \cap keep)
    <3>. HIDE DEF keep, S
    <3>. QED
      BY <2>2, AmongIs
  <2>4. c \in ToSet(dead) <=> Over(c)'
    <3>1. Over(c)' <=> conns'[c] # NULL /\ CloseNow(conns'[c])
      BY DEF Over, CloseNow
    <3>2. c \in ToSet(list') <=> conns'[c] # NULL
      BY <2>2, ListenerAssumption
    <3>3. c \in keep <=> c \in ToSet(list') /\ CloseNow(conns'[c])
      OBVIOUS
    <3>. HIDE DEF dead, keep
    <3>. QED
      BY <2>3, <3>1, <3>2, <3>3
  <2>5. ToVisit' = ToSet(dead)
    <3>. HIDE DEF dead
    <3>1. DOMAIN todo' = DOMAIN dead /\ \A i \in DOMAIN dead : todo'[i].conn = dead[i]
      BY <2>1
    <3>2. ToVisit' = {todo'[i].conn : i \in DOMAIN todo'}
      BY DEF ToVisit
    <3>. QED
      BY <3>1, <3>2 DEF ToSet
  <2>6. dead = <<>> => ToSet(dead) = {}
    <3>. HIDE DEF dead
    <3>. QED
      BY EmptySeq DEF ToSet
  <2>. QED
    BY <2>1, <2>4, <2>5, <2>6 DEF PhaseAt
<1>. QED
  BY <1>1, <1>2

\* A step that leaves the connections alone, and what the loop is about.
LEMMA PhaseSame ==
    ASSUME NEW c \in Conns, PhaseAt(c), conns'[c] = conns[c], phase' = phase, todo' = todo
    PROVE  PhaseAt(c)'
<1>1. Over(c)' <=> Over(c)
  BY DEF Over, CloseNow
<1>2. ToVisit' = ToVisit
  BY DEF ToVisit
<1>. QED
  BY <1>1, <1>2 DEF PhaseAt

LEMMA PhaseStep ==
    ASSUME TypeInv, TypeInv', NEW c \in Conns, PhaseAt(c), [Next]_vars
    PROVE  PhaseAt(c)'
<1>0. TodoType /\ TodoType' /\ ListType' /\ conns \in [Conns -> Connection \cup {NULL}] /\ (phase = "select" <=> todo = <<>>)
  BY DEF TypeInv, TodoType, ServerType
<1>1. CASE Environment \/ UNCHANGED vars
  <2>1. conns' = conns /\ phase' = phase /\ todo' = todo
    BY <1>1 DEF Environment, Connect, Request, Read, Leave, vars, server
  <2>. QED
    BY <2>1, PhaseSame
<1>2. CASE Select
  <2>1. phase = "select" /\ phase' = "handle" /\ conns' = conns
    BY <1>2 DEF Select
  <2>2. ~Over(c) /\ (Over(c)' <=> Over(c))
    BY <2>1 DEF PhaseAt, Over, CloseNow
  <2>. QED
    BY <2>1, <2>2 DEF PhaseAt
<1>3. CASE Accept
  <2>1. phase = "handle" /\ Advance(list', conns') /\ Head(todo).conn = Listener /\ todo # <<>>
    BY <1>0, <1>3 DEF Accept
  <2>2. Over(c)' => Over(c)
    <3>1. conns' = conns \/ conns' = [conns EXCEPT ![Head(backlog)] = mg_create_connection]
      BY <1>3 DEF Accept
    <3>2. conns'[c] = conns[c] \/ conns'[c] = mg_create_connection
      BY <1>0, <3>1
    <3>3. ~CloseNow(mg_create_connection)
      BY DEF CloseNow, mg_create_connection
    <3>4. Over(c)' <=> conns'[c] # NULL /\ CloseNow(conns'[c])
      BY DEF Over, CloseNow
    <3>. QED
      BY <3>2, <3>3, <3>4 DEF Over
  <2>3. Over(c) => c \notin ToVisit
    BY <2>1 DEF PhaseAt
  <2>. QED
    BY <1>0, <2>1, <2>2, <2>3, AdvancePhase
<1>4. CASE \E d \in Conns : HandleConn(d)
  <2>1. PICK d \in Conns : HandleConn(d)
    BY <1>4
  <2>2. phase = "handle" /\ Head(todo).conn = d /\ todo # <<>> /\ list' = list /\ Advance(list, conns')
    BY <1>0, <2>1 DEF HandleConn
  <2>3. c # d => conns'[c] = conns[c]
    <3>1. \E n, w : WriteConn(d, n, w)
      BY <2>1 DEF HandleConn
    <3>2. \E w : SetWorld(d, w)
      BY <3>1 DEF WriteConn
    <3>. QED
      BY <1>0, <3>2 DEF SetWorld
  <2>4. Over(c)' => c \notin ToVisit \ {Head(todo).conn}
    <3>1. CASE c = d
      BY <2>2, <3>1
    <3>2. CASE c # d
      <4>1. Over(c)' => Over(c)
        BY <2>3, <3>2 DEF Over, CloseNow
      <4>. QED
        BY <2>2, <4>1 DEF PhaseAt
    <3>. QED
      BY <3>1, <3>2
  <2>. QED
    BY <1>0, <2>2, <2>4, AdvancePhase
<1>5. CASE CloseConn
  <2>. DEFINE d == Head(todo).conn
  <2>1. /\ d \in Conns /\ todo # <<>> /\ phase = "close" /\ conns' = [conns EXCEPT ![d] = NULL]
    BY <1>5, CloseConnIs
  <2>2. todo' = Tail(todo) /\ phase' = IF Len(todo) > 1 THEN "close" ELSE "select"
    BY <1>5 DEF CloseConn
  <2>3. ToVisit' = ToVisit \ {d}
    BY <1>0, <2>1, <2>2, TailVisits
  <2>4. Over(c)' <=> Over(c) /\ c # d
    BY <1>0, <2>1 DEF Over, CloseNow
  <2>5. phase' = "select" => ToVisit' = {}
    <3>1. phase' = "select" => todo' = <<>>
      BY <1>0 DEF TodoType
    <3>2. todo' = <<>> => ToVisit' = {}
      BY DEF ToVisit
    <3>. QED
      BY <3>1, <3>2
  <2>6. Over(c) <=> c \in ToVisit
    BY <2>1 DEF PhaseAt
  <2>7. phase' # "handle"
    BY <2>2
  <2>8. Over(c)' <=> c \in ToVisit'
    BY <2>3, <2>4, <2>6
  <2>. QED
    BY <2>5, <2>7, <2>8 DEF PhaseAt
<1>. QED
  BY <1>1, <1>2, <1>3, <1>4, <1>5 DEF Next, Loop

\* There is no whole head in a buffer.
NoHead(recv) == \A len \in 1..Len(recv) : ~HeadOf(recv, len)

\* A connection is flagged when all that was asked has been handled, and its
\* answer is buffered; or the next request is refused.
Finished(n, w) ==
    /\ "SEND_AND_CLOSE" \in w.conn.flags => Len(w.handled) = n /\ ~w.conn.file.open
    /\ "CLOSE_IMMEDIATELY" \in w.conn.flags => Len(w.handled) < n /\ NoHead(w.conn.recv)

LEMMA FlowDue ==
    ASSUME NEW sc, NEW n, NEW g, NEW f, NEW w, NEW i, NEW o, Flow(sc, n, g, f, w, i, o), AllWait(sc), ~Idle(w, o)
    PROVE  Len(w.handled) = n
<1>1. Len(w.handled) \in 0..n /\ n \in Nat /\ n <= Len(w.handled) + 1
  BY FlowTypes
<1>2. n # Len(w.handled) + 1
  BY DEF Flow
<1>. QED
  BY <1>1, <1>2

LEMMA NoHeadIs ==
    ASSUME NEW recv \in Seq(RequestUnit), NEW len \in Int, len <= 0, HeadOf(recv, len)
    PROVE  NoHead(recv)
<1>. SUFFICES ASSUME NEW m \in 1..Len(recv), HeadOf(recv, m) PROVE FALSE
  BY DEF NoHead
<1>1. Len(recv) \in Nat
  BY LenProperties
<1>2. recv[m].kind = "end" /\ \A j \in 1..m : j < m => ~Ends(recv[j])
  BY <1>1 DEF HeadOf
<1>3. \E j \in 1..m : recv[j].kind = "bad"
  <2>1. \A j \in 1..Len(recv) : recv[j].kind = "end" => \E q \in 1..j : recv[q].kind = "bad"
    BY <1>1 DEF HeadOf
  <2>. QED
    BY <1>2, <2>1
<1>4. PICK j \in 1..m : recv[j].kind = "bad"
  BY <1>3
<1>5. j # m /\ j \in Int /\ j <= m /\ m \in Int
  BY <1>1, <1>2, <1>4
<1>6. j < m
  BY <1>5
<1>. QED
  BY <1>2, <1>4, <1>6 DEF Ends

LEMMA FinishedTransfer ==
    ASSUME NEW sc, NEW n, NEW g, NEW f, NEW w, NEW i, NEW o, Flow(sc, n, g, f, w, i, o), AllWait(sc),
           Finished(n, w), "CLOSE_IMMEDIATELY" \notin w.conn.flags
    PROVE  LET v == mg_http_transfer_file_data(w)
           IN  Finished(n, v) /\ "CLOSE_IMMEDIATELY" \notin v.conn.flags
<1>. DEFINE v == mg_http_transfer_file_data(w)
<1>1. w \in Worlds /\ FileOK(w.conn.file)
  BY FlowTypes
<1>2. /\ SameRest(w, v)
      /\ \/ ~w.conn.file.open /\ v = w
         \/ w.conn.file.open /\ \E part : Moves(w.conn, v.conn, part)
  BY <1>1, TransferIs
<1>. HIDE DEF v
<1>3. CASE w.conn.file.open /\ \E part : Moves(w.conn, v.conn, part)
  <2>1. Len(w.handled) = n
    <3>1. ~Idle(w, o)
      BY <1>3 DEF Idle
    <3>. QED
      BY <3>1, FlowDue
  <2>2. "SEND_AND_CLOSE" \notin w.conn.flags
    BY <1>3 DEF Finished
  <2>3. v.conn.flags = w.conn.flags \/ (v.conn.file = NoFile /\ v.conn.flags = w.conn.flags \cup {"SEND_AND_CLOSE"})
    BY <1>3 DEF Moves
  <2>4. v.handled = w.handled
    BY <1>2 DEF SameRest
  <2>. QED
    BY <2>1, <2>2, <2>3, <2>4, NoFileIs DEF Finished, v
<1>4. CASE v = w
  BY <1>4 DEF v
<1>. QED
  BY <1>2, <1>3, <1>4

\* What answering the last request does to the flags.
LEMMA FinishedOut ==
    ASSUME NEW j, NEW k, NEW req, Out(j, k, req), j.flags = {}, ~j.file.open
    PROVE  /\ "CLOSE_IMMEDIATELY" \notin k.flags
           /\ "SEND_AND_CLOSE" \in k.flags => ~k.file.open
<1>1. CASE req.uri = "printcontent"
  BY <1>1 DEF Out
<1>2. CASE req.uri = "file"
  <2>1. PICK p, part : Moves(Opened(j, p, req), k, part)
    BY <1>2 DEF Out
  <2>2. Opened(j, p, req).flags = {}
    BY DEF Opened
  <2>3. k.flags = {} \/ (k.file = NoFile /\ k.flags = {} \cup {"SEND_AND_CLOSE"})
    BY <2>1, <2>2 DEF Moves
  <2>. QED
    BY <2>3, NoFileIs
<1>3. CASE req.uri \notin {"printcontent", "file"}
  BY <1>3 DEF Out
<1>. QED
  BY <1>1, <1>2, <1>3

LEMMA FinishedParse ==
    ASSUME NEW sc, NEW n, NEW g \in Nat, NEW f, NEW w, NEW i, NEW o \in Seq(AnswerUnit), Flow(sc, n, g, f, w, i, o),
           AllWait(sc), Finished(n, w), "CLOSE_IMMEDIATELY" \notin w.conn.flags,
           NEW v, NEW len \in Int, HeadOf(w.conn.recv, len), Parses(w, v, len), Outcome(w, v, len)
    PROVE  Finished(n, v)
<1>. DEFINE k == Len(w.handled)
<1>1. /\ Scripted(sc) /\ n \in 0..Len(sc) /\ k \in 0..n /\ n \in Nat /\ k \in Nat /\ n <= k + 1
      /\ w \in Worlds /\ i \in Seq(RequestUnit) /\ FileOK(w.conn.file)
  BY FlowTypes
<1>2. w.conn.recv \in Seq(RequestUnit) /\ w.conn.flags \in SUBSET Flags
  BY <1>1, WorldIs DEF Flags
<1>3. CASE len <= 0
  <2>1. v = w \/ (v = Flag(w, "CLOSE_IMMEDIATELY") /\ Len(w.conn.recv) > 0)
    BY <1>3 DEF Parses
  <2>2. CASE v = Flag(w, "CLOSE_IMMEDIATELY") /\ Len(w.conn.recv) > 0
    <3>1. /\ v.conn.recv = w.conn.recv /\ v.handled = w.handled /\ v.conn.file = w.conn.file
          /\ v.conn.flags = w.conn.flags \cup {"CLOSE_IMMEDIATELY"}
      <4>. w \in Worlds /\ "CLOSE_IMMEDIATELY" \in Flags
        BY <1>1 DEF Flags
      <4>. QED
        BY <2>2, FlagIs DEF SameInput, SameRest
    <3>2. NoHead(w.conn.recv)
      BY <1>2, <1>3, NoHeadIs
    <3>3. k < n
      <4>. DEFINE s == w.conn.recv \o i
      <4>1. s \in Seq(RequestUnit) /\ Len(s) = Len(w.conn.recv) + Len(i) /\ Len(i) \in Nat /\ Len(w.conn.recv) \in Nat
        BY <1>1, <1>2, ConcatProperties, LenProperties
      <4>2. s # <<>>
        <5>. HIDE DEF s
        <5>1. Len(s) > 0
          BY <2>2, <4>1
        <5>. QED
          BY <5>1, EmptySeq
      <4>3. Streams(sc, n, f, k, s)
        BY DEF Flow, Stream
      <4>. HIDE DEF s, k
      <4>. QED
        BY <1>1, <4>1, <4>2, <4>3, StreamsMore
    <3>. QED
      BY <3>1, <3>2, <3>3 DEF Finished
  <2>. QED
    BY <2>1, <2>2
<1>4. CASE len > 0
  <2>1. k < n
    BY <1>4, FlowHead
  <2>2. "SEND_AND_CLOSE" \notin w.conn.flags /\ w.conn.flags = {}
    <3>1. "SEND_AND_CLOSE" \notin w.conn.flags
      BY <1>1, <2>1 DEF Finished
    <3>. QED
      BY <1>2, <3>1 DEF Flags
  <2>3. \/ v.handled = w.handled /\ Waits(w, v, len)
        \/ Serve(w, v, len) /\ Len(v.handled) = k + 1
    <3>1. /\ Flow(sc, n, g, f, v, i, o)
          /\ \/ v.handled = w.handled /\ Waits(w, v, len)
             \/ Serve(w, v, len) /\ Len(v.handled) = k + 1 /\ k + 1 \in 1..Len(sc)
                /\ w.conn.recv[1].req = sc[k + 1] /\ sc[k + 1].uri # "malformed"
      BY FlowParse
    <3>. QED
      BY <3>1
  <2>4. CASE Waits(w, v, len)
    <3>1. v.conn.flags = {}
      BY <1>4, <2>2, <2>4 DEF Waits
    <3>. QED
      BY <3>1 DEF Finished
  <2>5. CASE Serve(w, v, len) /\ Len(v.handled) = k + 1
    <3>1. n = k + 1
      BY <1>1, <2>1
    <3>2. ~w.conn.file.open
      BY <3>1 DEF Flow, Idle
    <3>3. Out(w.conn, v.conn, w.conn.recv[1].req)
      BY <2>5 DEF Serve
    <3>4. "CLOSE_IMMEDIATELY" \notin v.conn.flags /\ ("SEND_AND_CLOSE" \in v.conn.flags => ~v.conn.file.open)
      BY <2>2, <3>2, <3>3, FinishedOut
    <3>. QED
      BY <2>5, <3>1, <3>4 DEF Finished
  <2>. QED
    BY <2>3, <2>4, <2>5
<1>. QED
  BY <1>3, <1>4

\* The states in which a browser that stays may be, and those that are not over.
EndStates(sc, n, g) == {s \in FlowStates(sc, n, g, "open") : Finished(n, s.w)}
OpenStates(sc, n, g) == {s \in EndStates(sc, n, g) : "CLOSE_IMMEDIATELY" \notin s.w.conn.flags}

LEMMA InEnd ==
    ASSUME NEW sc, NEW n, NEW g, NEW w, NEW i, NEW o
    PROVE  /\ St(w, i, o) \in EndStates(sc, n, g) <=> St(w, i, o) \in FlowStates(sc, n, g, "open") /\ Finished(n, w)
           /\ St(w, i, o) \in OpenStates(sc, n, g) <=>
                 St(w, i, o) \in EndStates(sc, n, g) /\ "CLOSE_IMMEDIATELY" \notin w.conn.flags
<1>1. St(w, i, o).w = w
  BY DEF St
<1>. QED
  BY <1>1 DEF EndStates, OpenStates

LEMMA InOpen ==
    ASSUME NEW sc, NEW n, NEW g, NEW w, NEW i, NEW o
    PROVE  St(w, i, o) \in OpenStates(sc, n, g) <=>
               /\ St(w, i, o) \in FlowStates(sc, n, g, "open") /\ Finished(n, w)
               /\ "CLOSE_IMMEDIATELY" \notin w.conn.flags
BY InEnd

\* What leaves the flags, the file and what was handled alone.
LEMMA FinishedSame ==
    ASSUME NEW n, NEW w, NEW v, Finished(n, w), "CLOSE_IMMEDIATELY" \notin w.conn.flags,
           v.conn.flags = w.conn.flags, v.conn.file = w.conn.file, v.handled = w.handled
    PROVE  Finished(n, v) /\ "CLOSE_IMMEDIATELY" \notin v.conn.flags
BY DEF Finished

LEMMA EndLeads ==
    ASSUME NEW c \in Conns, fin[c] = "open", NEW sc, AllWait(sc), NEW n, NEW g \in Nat
    PROVE  /\ Leads(c, OpenStates(sc, n, g), EndStates(sc, n, g))
           /\ OpenStates(sc, n, g) \in SUBSET States /\ EndStates(sc, n, g) \in SUBSET States
<1>. DEFINE F == FlowStates(sc, n, g, "open")
            G == OpenStates(sc, n, g)
            H == EndStates(sc, n, g)
<1>0. Keeps(c, F) /\ F \in SUBSET States
  BY FlowKept
<1>1. ASSUME NEW w, NEW i, NEW o, St(w, i, o) \in G
      PROVE  /\ St(w, i, o) \in F /\ Finished(n, w) /\ "CLOSE_IMMEDIATELY" \notin w.conn.flags
             /\ Flow(sc, n, g, "open", w, i, o) /\ w \in Worlds /\ FileOK(w.conn.file)
             /\ i \in Seq(RequestUnit) /\ o \in Seq(AnswerUnit)
  <2>1. St(w, i, o) \in F /\ Finished(n, w) /\ "CLOSE_IMMEDIATELY" \notin w.conn.flags
    BY <1>1, InOpen
  <2>2. Flow(sc, n, g, "open", w, i, o) /\ St(w, i, o) \in States
    BY <2>1, InFlow
  <2>. QED
    BY <2>1, <2>2, InStates
<1>2. ASSUME NEW w, NEW i, NEW o, St(w, i, o) \in F, Finished(n, w), "CLOSE_IMMEDIATELY" \notin w.conn.flags
      PROVE  St(w, i, o) \in G
  BY <1>2, InOpen
<1>3. ASSUME NEW w, NEW i, NEW o, St(w, i, o) \in F, Finished(n, w) PROVE St(w, i, o) \in H
  BY <1>3, InEnd
<1>4. ASSUME NEW w, NEW i, NEW o, St(w, i, o) \in H, Alive(w) PROVE St(w, i, o) \in G
  BY <1>4, InEnd DEF Alive
<1>5. G \subseteq H /\ G \in SUBSET States /\ H \in SUBSET States
  BY <1>0 DEF OpenStates, EndStates
<1>. HIDE DEF G, H, F
<1>6. KeepsTransfer(G)
  <2>. SUFFICES ASSUME NEW w, NEW i, NEW o, St(w, i, o) \in G
                PROVE  St(mg_http_transfer_file_data(w), i, o) \in G
    BY DEF KeepsTransfer
  <2>. DEFINE v == mg_http_transfer_file_data(w)
  <2>1. Finished(n, v) /\ "CLOSE_IMMEDIATELY" \notin v.conn.flags
    BY <1>1, FinishedTransfer
  <2>2. St(v, i, o) \in F
    BY <1>0, <1>1 DEF Keeps, KeepsTransfer
  <2>. HIDE DEF v
  <2>3. St(v, i, o) \in G
    BY <1>2, <2>1, <2>2
  <2>. QED
    BY <2>3 DEF v
<1>7. KeepsReceive(G)
  <2>. SUFFICES ASSUME NEW w, NEW i, NEW o, St(w, i, o) \in G, NEW m \in 1..Len(i)
                PROVE  St(Received(w, SubSeq(i, 1, m), m), SubSeq(i, m + 1, Len(i)), o) \in G
    BY DEF KeepsReceive
  <2>. DEFINE v == Received(w, SubSeq(i, 1, m), m)
  <2>1. SubSeq(i, 1, m) \in Seq(RequestUnit) /\ m \in Nat /\ w \in Worlds
    <3>. i \in Seq(RequestUnit)
      BY <1>1
    <3>1. m \in 0..Len(i) /\ m \in Nat
      BY LenProperties
    <3>. QED
      BY <1>1, <3>1, Cut
  <2>2. SameOutput(w, v) /\ SameRest(w, v)
    BY <2>1, ReceivedIs
  <2>3. St(v, SubSeq(i, m + 1, Len(i)), o) \in F
    BY <1>0, <1>1 DEF Keeps, KeepsReceive
  <2>. HIDE DEF v
  <2>4. Finished(n, v) /\ "CLOSE_IMMEDIATELY" \notin v.conn.flags
    BY <1>1, <2>2, FinishedSame DEF SameOutput, SameRest
  <2>5. St(v, SubSeq(i, m + 1, Len(i)), o) \in G
    BY <1>2, <2>3, <2>4
  <2>. QED
    BY <2>5 DEF v
<1>8. KeepsEnd(c, G)
  BY DEF KeepsEnd
<1>9. KeepsWrite(c, G)
  <2>. SUFFICES ASSUME NEW w, NEW i, NEW o, St(w, i, o) \in G, NEW m \in 0..Len(w.conn.send)
                PROVE  St(Written(w, m), i, Reads(c, o, SubSeq(w.conn.send, 1, m))) \in G
    BY DEF KeepsWrite
  <2>. DEFINE v == Written(w, m)
              p == Reads(c, o, SubSeq(w.conn.send, 1, m))
  <2>1. v.conn.flags = w.conn.flags /\ v.conn.file = w.conn.file /\ v.handled = w.handled
    <3>1. w \in Worlds /\ w.conn \in Connection
      BY <1>1, WorldIs
    <3>. QED
      BY <3>1 DEF Written, Worlds, Connection
  <2>2. St(v, i, p) \in F
    BY <1>0, <1>1 DEF Keeps, KeepsWrite
  <2>. HIDE DEF v, p
  <2>3. Finished(n, v) /\ "CLOSE_IMMEDIATELY" \notin v.conn.flags
    BY <1>1, <2>1, FinishedSame
  <2>4. St(v, i, p) \in G
    BY <1>2, <2>2, <2>3
  <2>. QED
    BY <2>4 DEF v, p
<1>10. ParsesInto(G, H)
  <2>. SUFFICES ASSUME NEW w, NEW i, NEW o, St(w, i, o) \in G, NEW other \in Diaries \cup {0}
                PROVE  St(Parsed(w, mg_parse_http(w.conn.recv), other), i, o) \in H
    BY DEF ParsesInto
  <2>. DEFINE v == Parsed(w, mg_parse_http(w.conn.recv), other)
  <2>1. PICK len \in Int : HeadOf(w.conn.recv, len) /\ Parses(w, v, len) /\ Outcome(w, v, len)
    BY <1>1, ParsedOutcome
  <2>2. St(v, i, o) \in F
    BY <1>0, <1>1 DEF Keeps, KeepsParse
  <2>. HIDE DEF v
  <2>3. Finished(n, v)
    BY <1>1, <2>1, FinishedParse
  <2>. QED
    BY <1>3, <2>2, <2>3 DEF v
<1>11. Polls(c, G)
  BY <1>6, <1>7, <1>8, <1>9 DEF Polls
<1>12. Leads(c, G, H)
  BY <1>4, <1>5, <1>10, <1>11 DEF Leads
<1>. QED
  BY <1>5, <1>12 DEF G, H

LEMMA ServesLeads ==
    ASSUME TypeInv, NEW c \in Conns, Serves(c), NEW G \in SUBSET States, NEW H \in SUBSET States, Leads(c, G, H),
           St(World(c), toServer[c], toClient[c]) \in G
    PROVE  \E w, i, o : St(w, i, o) \in H /\ ConAfter(c) = w.conn /\ handled'[c] = w.handled
<1>1. HandleConn(c) /\ conns'[c] # NULL
  BY DEF Serves
<1>2. Len(toClient[c]) <= SockBuf
  BY DEF TypeInv, NetworkType
<1>3. PICK w, i, o : /\ St(w, i, o) \in H /\ SetWorld(c, w)
                     /\ toServer' = [toServer EXCEPT ![c] = i] /\ toClient' = [toClient EXCEPT ![c] = o]
  BY <1>1, <1>2, HandleConnLeads
<1>4. conns \in [Conns -> Connection \cup {NULL}] /\ handled \in [Conns -> Marks]
  BY DEF TypeInv, ServerType
<1>5. conns'[c] = w.conn /\ handled'[c] = w.handled
  BY <1>3, <1>4 DEF SetWorld
<1>. QED
  BY <1>1, <1>3, <1>5 DEF ConAfter

\* A connection conn that is to be closed, when h was handled of n requests.
EndsWell(n, h, conn) ==
    /\ "SEND_AND_CLOSE" \in conn.flags => ~conn.file.open /\ conn.recv = <<>>
    /\ "CLOSE_IMMEDIATELY" \in conn.flags => Len(h) < n /\ NoHead(conn.recv)

\* The server is done with c, whose browser stays, when the last answer is
\* buffered, or the next request is refused.
EndAt(c) ==
    ~Closed(c) /\ AllWait(script[c]) /\ fin[c] = "open" => EndsWell(sent[c], handled[c], Con(c))

\* And what it has sent, when it has closed c, are the answers due.
ClosedAt(c) ==
    Closed(c) /\ AllWait(script[c]) /\ fin[c] = "open" /\ Len(handled[c]) = sent[c] =>
        Told(script[c], Len(handled[c]), got[c] \o toClient[c], Con(c))

EndAll(c) == PhaseAt(c) /\ EndAt(c) /\ ClosedAt(c)
EndInv == \A c \in Conns : EndAll(c)

LEMMA EndAfter ==
    ASSUME NEW c, SameScript(c),
           Closed(c)' \/ (AllWait(script[c]) /\ fin'[c] = "open" => EndsWell(sent'[c], handled'[c], ConAfter(c)))
    PROVE  EndAt(c)'
<1>1. Con(c)' = ConAfter(c) /\ script'[c] = script[c]
  BY DEF Con, ConAfter, SameScript
<1>. QED
  BY <1>1 DEF EndAt

LEMMA ClosedAfter ==
    ASSUME NEW c, SameScript(c),
           Closed(c)' /\ AllWait(script[c]) /\ fin'[c] = "open" /\ Len(handled'[c]) = sent'[c] =>
              Told(script[c], Len(handled'[c]), got'[c] \o toClient'[c], ConAfter(c))
    PROVE  ClosedAt(c)'
<1>1. Con(c)' = ConAfter(c) /\ script'[c] = script[c]
  BY DEF Con, ConAfter, SameScript
<1>. QED
  BY <1>1 DEF ClosedAt

\* The streams of a connection are empty when all that was asked was handled.
LEMMA FinishedRecv ==
    ASSUME NEW sc, NEW n, NEW g, NEW f, NEW w, NEW i, NEW o, Flow(sc, n, g, f, w, i, o), Len(w.handled) = n
    PROVE  w.conn.recv = <<>>
<1>1. /\ Scripted(sc) /\ n \in 0..Len(sc) /\ n \in 0..n /\ n \in Nat /\ w \in Worlds /\ i \in Seq(RequestUnit)
  BY FlowTypes
<1>2. w.conn.recv \in Seq(RequestUnit) /\ Len(w.conn.recv) \in Nat /\ Len(i) \in Nat
  BY <1>1, WorldIs, LenProperties
<1>. DEFINE s == w.conn.recv \o i
<1>3. s \in Seq(RequestUnit) /\ Len(s) = Len(w.conn.recv) + Len(i)
  BY <1>1, <1>2, ConcatProperties
<1>4. Streams(sc, n, f, n, s)
  BY DEF Flow, Stream
<1>. HIDE DEF s
<1>5. s = <<>>
  <2>1. s # <<>> => n < n
    BY <1>1, <1>3, <1>4, StreamsMore
  <2>. QED
    BY <1>1, <2>1
<1>6. Len(w.conn.recv) = 0
  BY <1>2, <1>3, <1>5, EmptySeq
<1>. QED
  BY <1>2, <1>6, EmptySeq

LEMMA EndStep ==
    ASSUME TypeInv, NEW c \in Conns, FlowAt(c), EndAt(c), PhaseAt(c), StepOf(c)
    PROVE  EndAt(c)'
<1>. DEFINE w == ConWorld(c)
            sc == script[c]
            n == sent[c]
            g == Len(got[c])
            i == toServer[c]
            o == toClient[c]
            h == handled[c]
<1>0. /\ w \in Worlds /\ w.conn = Con(c) /\ w.handled = h /\ (conns[c] # NULL => w = World(c))
      /\ g \in Nat /\ o \in Seq(AnswerUnit) /\ i \in Seq(RequestUnit) /\ FileOK(w.conn.file) /\ n \in Nat
      /\ Len(h) \in Nat
  BY ConWorldIs, LenProperties DEF Marks
<1>1. CASE Quiet(c)
  <2>1. SameScript(c) /\ ConAfter(c) = Con(c) /\ handled'[c] = h /\ (Closed(c)' <=> Closed(c)) /\ sent'[c] = n
    BY <1>1 DEF Quiet, SameCon
  <2>2. CASE fin[c] = "new"
    <3>1. Con(c) = mg_create_connection
      BY <2>2 DEF TypeInv, NewType, Con
    <3>2. EndsWell(n, h, Con(c))
      BY <3>1 DEF EndsWell, mg_create_connection
    <3>. QED
      BY <2>1, <3>2, EndAfter
  <2>3. CASE fin[c] # "new"
    <3>1. fin'[c] = fin[c]
      BY <1>1, <2>3 DEF Quiet
    <3>. QED
      BY <2>1, <3>1, EndAfter DEF EndAt
  <2>. QED
    BY <2>2, <2>3
<1>2. CASE Serves(c)
  <2>1. SameScript(c) /\ World(c) = w /\ conns[c] # NULL /\ ~Closed(c) /\ sent'[c] = n /\ fin'[c] = fin[c] /\ HandleConn(c)
    BY <1>0, <1>2 DEF Serves, Closed
  <2>. SUFFICES ASSUME AllWait(sc), fin[c] = "open" PROVE EndsWell(n, handled'[c], ConAfter(c))
    BY <2>1, EndAfter
  <2>2. ~CloseNow(Con(c))
    <3>1. phase = "handle" /\ Head(todo).conn = c
      BY <2>1 DEF HandleConn
    <3>2. Head(todo) = todo[1] /\ 1 \in DOMAIN todo
      BY <3>1, HeadTodo DEF TypeInv, TodoType
    <3>3. c \in ToVisit
      BY <3>1, <3>2 DEF ToVisit
    <3>4. ~Over(c)
      BY <3>1, <3>3 DEF PhaseAt
    <3>. QED
      BY <2>1, <3>4 DEF Over, Con
  <2>3. Flow(sc, n, g, "open", w, i, o)
    BY <2>1 DEF FlowAt, FlowOf
  <2>4. EndsWell(n, h, Con(c))
    BY <2>1 DEF EndAt
  <2>5. "CLOSE_IMMEDIATELY" \notin w.conn.flags /\ ("SEND_AND_CLOSE" \in w.conn.flags => w.conn.send # <<>>)
    BY <1>0, <2>2 DEF CloseNow
  <2>6. Finished(n, w)
    <3>. SUFFICES ASSUME "SEND_AND_CLOSE" \in w.conn.flags PROVE Len(w.handled) = n /\ ~w.conn.file.open
      BY <2>5 DEF Finished
    <3>1. ~w.conn.file.open
      BY <1>0, <2>4 DEF EndsWell
    <3>2. ~Idle(w, o)
      <4>1. w.conn.send \in Seq(AnswerUnit) /\ w.conn.send # <<>>
        BY <1>0, <2>5, WorldIs
      <4>2. Len(w.conn.send) # 0
        BY <4>1, EmptySeq
      <4>. QED
        BY <4>2 DEF Idle
    <3>3. Len(w.handled) = n
      <4>. HIDE DEF w
      <4>. QED
        BY <2>3, <3>2, FlowDue
    <3>. QED
      BY <3>1, <3>3
  <2>. DEFINE F == FlowStates(sc, n, g, "open")
              G == OpenStates(sc, n, g)
              H == EndStates(sc, n, g)
  <2>7. St(World(c), i, o) \in G
    <3>1. St(w, i, o) \in States
      BY <1>0, InStates
    <3>2. St(w, i, o) \in F
      BY <2>3, <3>1, InFlow
    <3>3. St(w, i, o) \in G
      BY <2>5, <2>6, <3>2, InOpen
    <3>. QED
      BY <2>1, <3>3
  <2>8. Leads(c, G, H) /\ G \in SUBSET States /\ H \in SUBSET States
    BY <1>0, EndLeads
  <2>9. PICK v, j, p : St(v, j, p) \in H /\ ConAfter(c) = v.conn /\ handled'[c] = v.handled
    <3>. HIDE DEF G, H
    <3>. QED
      BY <1>2, <2>7, <2>8, ServesLeads
  <2>10. Finished(n, v) /\ Flow(sc, n, g, "open", v, j, p)
    BY <2>9, InEnd, InFlow
  <2>11. "SEND_AND_CLOSE" \in v.conn.flags => v.conn.recv = <<>>
    BY <2>10, FinishedRecv DEF Finished
  <2>. QED
    BY <2>9, <2>10, <2>11 DEF Finished, EndsWell
<1>3. CASE Closes(c)
  BY <1>3, EndAfter DEF Closes
<1>4. CASE Asks(c)
  <2>1. SameScript(c) /\ ConAfter(c) = Con(c) /\ handled'[c] = h /\ ~Closed(c) /\ sent'[c] = n + 1 /\ fin'[c] = fin[c]
    BY <1>4 DEF Asks, SameCon
  <2>2. EndsWell(n, h, Con(c)) => EndsWell(n + 1, h, Con(c))
    BY <1>0 DEF EndsWell
  <2>. QED
    BY <2>1, <2>2, EndAfter DEF EndAt
<1>5. CASE Gets(c)
  <2>1. /\ SameScript(c) /\ ConAfter(c) = Con(c) /\ handled'[c] = h /\ (Closed(c)' <=> Closed(c)) /\ sent'[c] = n
        /\ fin'[c] = fin[c]
    BY <1>5 DEF Gets, SameCon
  <2>. QED
    BY <2>1, EndAfter DEF EndAt
<1>6. CASE Leaves(c)
  BY <1>6, EndAfter DEF Leaves
<1>. QED
  BY <1>1, <1>2, <1>3, <1>4, <1>5, <1>6 DEF StepOf

\* What a closed connection has told its browser: nothing was left to be sent.
LEMMA ToldClosed ==
    ASSUME NEW sc, NEW k, NEW pre, NEW conn, Told(sc, k, pre, conn), conn.send = <<>>, ~conn.file.open
    PROVE  Told(sc, k, pre, mg_create_connection)
<1>1. mg_create_connection.send = <<>> /\ ~mg_create_connection.file.open
  BY DEF mg_create_connection, NoFile
<1>. QED
  BY <1>1 DEF Told

\* Nothing is handled on the close of a connection without a head.
LEMMA ClosesSame ==
    ASSUME NEW w \in Worlds, NoHead(w.conn.recv), NEW v, ClosesWith(w, v)
    PROVE  v.handled = w.handled
BY DEF NoHead, ClosesWith

LEMMA ClosedStep ==
    ASSUME TypeInv, TypeInv', NEW c \in Conns, FlowAt(c), ToldAt(c), EndAt(c), PhaseAt(c), ClosedAt(c), StepOf(c)
    PROVE  ClosedAt(c)'
<1>. DEFINE w == ConWorld(c)
            sc == script[c]
            n == sent[c]
            gt == got[c]
            o == toClient[c]
            h == handled[c]
<1>0. /\ w \in Worlds /\ w.conn = Con(c) /\ w.handled = h /\ (conns[c] # NULL => w = World(c))
      /\ gt \in Seq(AnswerUnit) /\ o \in Seq(AnswerUnit) /\ n \in Nat /\ Len(h) \in Nat
  BY ConWorldIs, LenProperties DEF Marks
<1>1. CASE Quiet(c)
  <2>1. /\ SameScript(c) /\ ConAfter(c) = Con(c) /\ handled'[c] = h /\ (Closed(c)' <=> Closed(c)) /\ sent'[c] = n
        /\ toClient'[c] = o /\ got'[c] = gt
    BY <1>1 DEF Quiet, SameCon
  <2>2. Closed(c) => fin'[c] = fin[c]
    BY <1>1 DEF Quiet, Closed
  <2>. QED
    BY <2>1, <2>2, ClosedAfter DEF ClosedAt
<1>2. CASE Serves(c)
  <2>1. SameScript(c) /\ ~Closed(c)'
    BY <1>2 DEF Serves, Closed
  <2>. QED
    BY <2>1, ClosedAfter
<1>3. CASE Closes(c)
  <2>1. /\ SameScript(c) /\ conns[c] # NULL /\ World(c) = w /\ ~Closed(c) /\ ConAfter(c) = mg_create_connection
        /\ toClient'[c] = o /\ sent'[c] = n /\ got'[c] = gt /\ fin'[c] = fin[c]
        /\ phase = "close" /\ todo # <<>> /\ Head(todo).conn = c
    BY <1>0, <1>3 DEF Closes, Closed, ConAfter
  <2>2. PICK v \in Worlds : ClosesWith(w, v) /\ handled'[c] = v.handled
    BY <1>3, <2>1 DEF Closes
  <2>. SUFFICES ASSUME AllWait(sc), fin[c] = "open", Len(handled'[c]) = n
                PROVE  Told(sc, Len(handled'[c]), gt \o o, mg_create_connection)
    BY <2>1, ClosedAfter
  <2>3. CloseNow(Con(c))
    <3>1. Head(todo) = todo[1] /\ 1 \in DOMAIN todo
      BY <2>1, HeadTodo DEF TypeInv
    <3>2. c \in ToVisit
      BY <2>1, <3>1 DEF ToVisit
    <3>3. Over(c)
      BY <2>1, <3>2 DEF PhaseAt
    <3>. QED
      BY <3>3 DEF Over, Con
  <2>4. EndsWell(n, h, Con(c)) /\ Told(sc, Len(h), gt \o o, Con(c))
    BY <2>1 DEF EndAt, ToldAt
  <2>5. NoHead(Con(c).recv)
    <3>1. CASE "CLOSE_IMMEDIATELY" \in Con(c).flags
      BY <2>4, <3>1 DEF EndsWell
    <3>2. CASE "CLOSE_IMMEDIATELY" \notin Con(c).flags
      <4>1. Con(c).recv = <<>>
        BY <2>3, <2>4, <3>2 DEF CloseNow, EndsWell
      <4>. QED
        BY <4>1, EmptySeq DEF NoHead
    <3>. QED
      BY <3>1, <3>2
  <2>6. handled'[c] = h
    <3>. HIDE DEF w
    <3>1. NoHead(w.conn.recv)
      BY <1>0, <2>5
    <3>. QED
      BY <1>0, <2>2, <3>1, ClosesSame
  <2>7. Con(c).send = <<>> /\ ~Con(c).file.open
    <3>1. "CLOSE_IMMEDIATELY" \notin Con(c).flags
      BY <1>0, <2>4, <2>6 DEF EndsWell
    <3>. QED
      BY <2>3, <2>4, <3>1 DEF CloseNow, EndsWell
  <2>. QED
    BY <2>4, <2>6, <2>7, ToldClosed
<1>4. CASE Asks(c)
  <2>1. SameScript(c) /\ ~Closed(c)'
    BY <1>4 DEF Asks, SameCon
  <2>. QED
    BY <2>1, ClosedAfter
<1>5. CASE Gets(c)
  <2>1. /\ SameScript(c) /\ ConAfter(c) = Con(c) /\ handled'[c] = h /\ (Closed(c)' <=> Closed(c))
        /\ toClient'[c] = <<>> /\ got'[c] = gt \o o /\ fin'[c] = fin[c] /\ sent'[c] = n
    BY <1>5 DEF Gets, SameCon
  <2>2. (gt \o o) \o <<>> = gt \o o
    <3>. DEFINE t == gt \o o
    <3>1. t \in Seq(AnswerUnit)
      BY <1>0, ConcatProperties
    <3>. HIDE DEF t
    <3>2. t \o <<>> = t
      BY <3>1, ConcatEmptySeq
    <3>. QED
      BY <3>2 DEF t
  <2>. QED
    BY <2>1, <2>2, ClosedAfter DEF ClosedAt
<1>6. CASE Leaves(c)
  BY <1>6, ClosedAfter DEF Leaves
<1>. QED
  BY <1>1, <1>2, <1>3, <1>4, <1>5, <1>6 DEF StepOf

LEMMA EndInit == Init => EndInv
<1>. SUFFICES ASSUME Init, NEW c \in Conns PROVE EndAll(c)
  BY DEF EndInv
<1>1. conns[c] = NULL /\ fin[c] = "new" /\ phase = "select"
  BY DEF Init
<1>2. PhaseAt(c)
  BY <1>1 DEF PhaseAt, Over
<1>. QED
  BY <1>1, <1>2 DEF EndAll, EndAt, ClosedAt, Closed

LEMMA EndAlways == Spec => []EndInv
<1>1. Init => EndInv
  BY EndInit
<1>2. TypeInv /\ TypeInv' /\ FlowInv /\ ToldInv /\ EndInv /\ [Next]_vars => EndInv'
  <2>. SUFFICES ASSUME TypeInv, TypeInv', FlowInv, ToldInv, EndInv, [Next]_vars, NEW c \in Conns
                PROVE  EndAll(c)'
    BY DEF EndInv
  <2>1. FlowAt(c) /\ ToldAt(c) /\ PhaseAt(c) /\ EndAt(c) /\ ClosedAt(c) /\ StepOf(c)
    BY StepIs DEF FlowInv, ToldInv, EndInv, EndAll
  <2>2. PhaseAt(c)'
    BY <2>1, PhaseStep
  <2>3. EndAt(c)' /\ ClosedAt(c)'
    BY <2>1, EndStep, ClosedStep
  <2>. QED
    BY <2>2, <2>3 DEF EndAll
<1>. QED
  BY <1>1, <1>2, TypeAlways, FlowAlways, ToldAlways, PTL DEF Spec

\* When all that a browser asked for was handled, and the server has closed
\* its connection while the browser was still there, the whole of every answer
\* has left, a file that was still being read included: mg_mgr_handle_conn and
\* the loop that closes see SEND_AND_CLOSE only when nothing is left to be sent.
THEOREM ClosedCorrect == Spec => []ClosedAfterAnswers
<1>1. TypeInv /\ FlowInv /\ EndInv => ClosedAfterAnswers
  <2>. SUFFICES ASSUME TypeInv, FlowInv, EndInv, NEW c \in Conns, Plain(c), Closed(c), fin[c] = "open",
                       Len(handled[c]) = sent[c]
                PROVE  Delivered(c) = Due(c)
    BY DEF ClosedAfterAnswers
  <2>1. AllWait(script[c])
    BY ConWorldIs, LenProperties DEF Plain, AllWait
  <2>2. Told(script[c], Len(handled[c]), got[c] \o toClient[c], Con(c))
    BY <2>1 DEF EndInv, EndAll, ClosedAt
  <2>3. Len(handled[c]) <= Len(script[c])
    BY ConWorldIs, LenProperties
  <2>. DEFINE d == Delivered(c)
              e == Sort(Con(c).send)
              stream == d \o e
  <2>4. Con(c).send = <<>> /\ ~Con(c).file.open
    BY DEF Closed, Con, mg_create_connection, NoFile
  <2>5. e = <<>>
    BY <2>4, EmptySeq DEF Sort
  <2>6. IsPrefix(stream, Due(c)) /\ stream \in Seq(Places) /\ d \in Seq(Places) /\ Len(stream) = Len(Due(c))
    BY <2>2, <2>3, <2>4, DeliveredIs
  <2>7. stream = d
    <3>. HIDE DEF d, e
    <3>. QED
      BY <2>5, <2>6, ConcatEmptySeq
  <2>8. Due(c) \in Seq(Places)
    <3>1. Due(c) = DueUpTo(script[c], Len(handled[c])) /\ Len(handled[c]) \in 0..Len(script[c])
      BY <2>3, DueOf
    <3>. QED
      BY <3>1, ConWorldIs, DueLen
  <2>. QED
    <3>. DEFINE u == Due(c)
    <3>. HIDE DEF d, stream, u
    <3>1. IsPrefix(d, u) /\ d \in Seq(Places) /\ u \in Seq(Places) /\ Len(d) = Len(u) /\ Len(d) \in Nat
      BY <2>6, <2>7, <2>8, LenProperties DEF u
    <3>2. SubSeq(d, 1, Len(d)) = SubSeq(u, 1, Len(d))
      BY <3>1 DEF IsPrefix
    <3>3. SubSeq(d, 1, Len(d)) = d /\ SubSeq(u, 1, Len(d)) = u
      BY <3>1, SubSeqFull
    <3>. QED
      BY <3>2, <3>3 DEF d, u
<1>. QED
  BY <1>1, TypeAlways, FlowAlways, EndAlways, PTL
=============================================================================
