------------------------ MODULE RedisConnectionProofs ------------------------
(***************************************************************************)
(* A blocking context of hiredis: whatever parts of the output buffer each *)
(* write takes, and whenever the connection is lost and made again, Redis  *)
(* executes the commands of each connection in the order they were issued  *)
(* in, and none twice, however long an old connection is still being read; *)
(* and once a command has failed, the later ones fail until redisReconnect.*)
(***************************************************************************)
EXTENDS RedisConnection, RisingSequences

-----------------------------------------------------------------------------
(***************************************************************************)
(* Where the commands of a connection are: executed, on the wire, in the   *)
(* output buffer, the later ones behind the earlier ones and below the     *)
(* next number.                                                            *)
(***************************************************************************)
Line(e, w, o, n) ==
    /\ n \in Nat /\ e \in Seq(Nat) /\ w \in Seq(Nat) /\ o \in Seq(Nat)
    /\ Rising(e) /\ Rising(w) /\ Rising(o)
    /\ Before(e, w) /\ Before(e, o) /\ Before(w, o)
    /\ Before(e, <<n + 1>>) /\ Before(w, <<n + 1>>) /\ Before(o, <<n + 1>>)

LEMMA LineIssued ==
    ASSUME NEW e, NEW w, NEW o, NEW n, Line(e, w, o, n)
    PROVE  Line(e, w, Append(o, n + 1), n + 1)
<1>1. PICK m \in Nat : m = n + 1
  BY DEF Line
<1>2. <<m>> \in Seq(Nat) /\ Rising(<<m>>) /\ Before(<<m>>, <<m + 1>>)
  BY OneOrder DEF Before
<1>3. Append(o, m) = o \o <<m>>
  BY DEF Line
<1>4. \A s \in Seq(Nat) : Before(s, <<m>>) => Before(s, <<m + 1>>)
  <2>1. SUFFICES ASSUME NEW s \in Seq(Nat), Before(s, <<m>>), NEW i \in DOMAIN s PROVE s[i] < m + 1
    BY DEF Before
  <2>2. s[i] < m
    BY <2>1 DEF Before
  <2>3. s[i] \in Nat
    BY <2>1
  <2>. QED
    BY <2>2, <2>3
<1>5. o \o <<m>> \in Seq(Nat) /\ Rising(o \o <<m>>)
  BY <1>1, <1>2, RisingConcat DEF Line
<1>6. Before(e, o \o <<m>>) /\ Before(w, o \o <<m>>)
  BY <1>1, <1>2, BeforeConcat DEF Line
<1>7. Before(e, <<m + 1>>) /\ Before(w, <<m + 1>>) /\ Before(o, <<m + 1>>)
  BY <1>1, <1>4 DEF Line
<1>8. Before(o \o <<m>>, <<m + 1>>)
  <2>1. <<m + 1>> \in Seq(Nat) /\ o \in Seq(Nat)
    BY DEF Line
  <2>. QED
    BY <1>2, <1>7, <2>1, BeforeConcat
<1>9. Line(e, w, o \o <<m>>, m)
  BY <1>5, <1>6, <1>7, <1>8 DEF Line
<1>. QED
  BY <1>1, <1>3, <1>9

\* A write: the first k commands of the buffer reach the connection, or are
\* lost with it.
LEMMA LineWritten ==
    ASSUME NEW e, NEW w, NEW o, NEW n, Line(e, w, o, n), NEW k \in 0..Len(o)
    PROVE  /\ Line(e, w \o SubSeq(o, 1, k), SubSeq(o, k + 1, Len(o)), n)
           /\ Line(e, w, SubSeq(o, k + 1, Len(o)), n)
<1>. DEFINE p == SubSeq(o, 1, k)
            q == SubSeq(o, k + 1, Len(o))
<1>0. /\ n \in Nat /\ e \in Seq(Nat) /\ w \in Seq(Nat) /\ o \in Seq(Nat) /\ <<n + 1>> \in Seq(Nat)
      /\ Rising(e) /\ Rising(w) /\ Rising(o)
      /\ Before(e, w) /\ Before(e, o) /\ Before(w, o)
      /\ Before(e, <<n + 1>>) /\ Before(w, <<n + 1>>) /\ Before(o, <<n + 1>>)
  BY DEF Line
<1>1. /\ p \in Seq(Nat) /\ Piece(p, o) /\ q \in Seq(Nat) /\ Piece(q, o) /\ Before(p, q)
  BY <1>0, CutOrder
<1>. HIDE DEF p, q
<1>2. /\ Rising(p) /\ Before(e, p) /\ Before(w, p) /\ Before(p, <<n + 1>>)
      /\ Rising(q) /\ Before(e, q) /\ Before(w, q) /\ Before(q, <<n + 1>>)
  BY <1>0, <1>1, PieceOrder
<1>3. Line(e, w, q, n)
  BY <1>0, <1>1, <1>2 DEF Line
<1>4. w \o p \in Seq(Nat) /\ Rising(w \o p)
  BY <1>0, <1>1, <1>2, RisingConcat
<1>5. Before(e, w \o p) /\ Before(w \o p, q) /\ Before(w \o p, <<n + 1>>)
  BY <1>0, <1>1, <1>2, BeforeConcat
<1>6. Line(e, w \o p, q, n)
  BY <1>0, <1>1, <1>2, <1>4, <1>5 DEF Line
<1>. QED
  BY <1>3, <1>6 DEF p, q

LEMMA LineExecuted ==
    ASSUME NEW e, NEW w, NEW o, NEW n, Line(e, w, o, n), w # <<>>
    PROVE  Line(Append(e, Head(w)), Tail(w), o, n)
<1>. DEFINE q == Tail(w)
<1>0. /\ n \in Nat /\ e \in Seq(Nat) /\ w \in Seq(Nat) /\ o \in Seq(Nat) /\ <<n + 1>> \in Seq(Nat)
      /\ Rising(e) /\ Rising(w) /\ Rising(o)
      /\ Before(e, w) /\ Before(e, o) /\ Before(w, o)
      /\ Before(e, <<n + 1>>) /\ Before(w, <<n + 1>>) /\ Before(o, <<n + 1>>)
  BY DEF Line
<1>1. PICK h \in Nat : h = Head(w)
  BY <1>0, HeadOrder
<1>2. /\ <<h>> \in Seq(Nat) /\ Piece(<<h>>, w) /\ q \in Seq(Nat) /\ Piece(q, w) /\ Before(<<h>>, q)
  BY <1>0, <1>1, HeadOrder
<1>. HIDE DEF q
<1>3. /\ Rising(<<h>>) /\ Before(e, <<h>>) /\ Before(<<h>>, o) /\ Before(<<h>>, <<n + 1>>)
      /\ Rising(q) /\ Before(e, q) /\ Before(q, o) /\ Before(q, <<n + 1>>)
  <2>1. /\ Rising(<<h>>) /\ Before(e, <<h>>) /\ Before(<<h>>, o) /\ Before(<<h>>, <<n + 1>>)
    BY <1>0, <1>2, PieceOrder
  <2>2. Rising(q) /\ Before(e, q) /\ Before(q, o) /\ Before(q, <<n + 1>>)
    BY <1>0, <1>2, PieceOrder
  <2>. QED
    BY <2>1, <2>2
<1>4. Append(e, h) = e \o <<h>>
  BY <1>0
<1>5. e \o <<h>> \in Seq(Nat) /\ Rising(e \o <<h>>)
  BY <1>0, <1>2, <1>3, RisingConcat
<1>6. Before(e \o <<h>>, q) /\ Before(e \o <<h>>, o) /\ Before(e \o <<h>>, <<n + 1>>)
  BY <1>0, <1>2, <1>3, BeforeConcat
<1>7. Line(e \o <<h>>, q, o, n)
  BY <1>0, <1>2, <1>3, <1>5, <1>6 DEF Line
<1>. QED
  BY <1>1, <1>4, <1>7 DEF q

LEMMA LineClosed ==
    ASSUME NEW e, NEW w, NEW o, NEW n, Line(e, w, o, n)
    PROVE  Line(e, <<>>, o, n)
BY NoneOrder DEF Line

\* Another connection takes a command.
LEMMA LineOther ==
    ASSUME NEW e, NEW w, NEW o, NEW n, Line(e, w, o, n)
    PROVE  Line(e, w, o, n + 1)
<1>1. PICK m \in Nat : m = n + 1
  BY DEF Line
<1>2. \A s \in Seq(Nat) : Before(s, <<m>>) => Before(s, <<m + 1>>)
  <2>1. SUFFICES ASSUME NEW s \in Seq(Nat), Before(s, <<m>>), NEW i \in DOMAIN s PROVE s[i] < m + 1
    BY DEF Before
  <2>2. s[i] < m
    BY <2>1 DEF Before
  <2>3. s[i] \in Nat
    BY <2>1
  <2>. QED
    BY <2>2, <2>3
<1>3. Before(e, <<m + 1>>) /\ Before(w, <<m + 1>>) /\ Before(o, <<m + 1>>)
  BY <1>1, <1>2 DEF Line
<1>. QED
  BY <1>1, <1>3 DEF Line

\* redisReconnect empties the output buffer.
LEMMA LineEmptied ==
    ASSUME NEW e, NEW w, NEW o, NEW n, Line(e, w, o, n)
    PROVE  Line(e, w, <<>>, n)
BY NoneOrder DEF Line

LEMMA LineBelow ==
    ASSUME NEW e, NEW w, NEW o, NEW n, Line(e, w, o, n)
    PROVE  \A k \in Range(e) \cup Range(w) \cup Range(o) : k \in Nat /\ k <= n
<1>1. ASSUME NEW s \in Seq(Nat), Before(s, <<n + 1>>), NEW k \in Range(s)
      PROVE  k \in Nat /\ k <= n
  <2>1. PICK i \in DOMAIN s : k = s[i]
    BY DEF Range
  <2>2. 1 \in DOMAIN <<n + 1>> /\ <<n + 1>>[1] = n + 1
    OBVIOUS
  <2>3. k < n + 1
    BY <1>1, <2>1, <2>2 DEF Before
  <2>4. k \in Nat /\ n \in Nat
    BY <2>1 DEF Line
  <2>. QED
    BY <2>3, <2>4
<1>2. /\ e \in Seq(Nat) /\ w \in Seq(Nat) /\ o \in Seq(Nat)
      /\ Before(e, <<n + 1>>) /\ Before(w, <<n + 1>>) /\ Before(o, <<n + 1>>)
  BY DEF Line
<1>. QED
  BY <1>1, <1>2

-----------------------------------------------------------------------------
(***************************************************************************)
(* All connections: each has its line, of which the output buffer is the   *)
(* end of the current one, and no command stands in two of them.           *)
(***************************************************************************)
Out(c) == IF c = conn THEN obuf ELSE <<>>
Held(c) == Range(executed[c]) \cup Range(wire[c]) \cup Range(Out(c))

LineTypes ==
    /\ issued \in Nat /\ conn \in Conn
    /\ wire \in [Conn -> Seq(Nat)] /\ executed \in [Conn -> Seq(Nat)]

LinesInv == \A c \in Conn : Line(executed[c], wire[c], Out(c), issued)

OnceInv == \A c, d \in Conn : c # d => Held(c) \cap Held(d) = {}

LineInv == LineTypes /\ LinesInv /\ OnceInv

LEMMA LineInit == Init => LineInv
<1>. SUFFICES ASSUME Init PROVE LineInv
  OBVIOUS
<1>1. LineTypes
  BY MaxAssumption, EmptySeq DEF Init, LineTypes, Conn
<1>2. ASSUME NEW c \in Conn PROVE executed[c] = <<>> /\ wire[c] = <<>> /\ Out(c) = <<>>
  BY DEF Init, Out
<1>3. LinesInv
  <2>1. \A n \in Nat : Line(<<>>, <<>>, <<>>, n)
    BY NoneOrder DEF Line
  <2>. QED
    BY <1>1, <1>2, <2>1 DEF LinesInv, LineTypes
<1>4. Range(<<>>) = {}
  BY DEF Range
<1>5. OnceInv
  BY <1>2, <1>4 DEF OnceInv, Held
<1>. QED
  BY <1>1, <1>3, <1>5 DEF LineInv

LEMMA RangeNone == Range(<<>>) = {}
BY DEF Range

\* A step that only moves commands along their lines, or loses some.
LEMMA LineMoves ==
    ASSUME LineInv, LineTypes', LinesInv', \A c \in Conn : Held(c)' \subseteq Held(c)
    PROVE  LineInv'
<1>1. OnceInv'
  <2>1. SUFFICES ASSUME NEW c \in Conn, NEW d \in Conn, c # d PROVE (Held(c) \cap Held(d) = {})'
    BY DEF OnceInv
  <2>2. Held(c)' \subseteq Held(c) /\ Held(d)' \subseteq Held(d) /\ Held(c) \cap Held(d) = {}
    BY <2>1 DEF LineInv, OnceInv
  <2>. QED
    BY <2>2
<1>. QED
  BY <1>1 DEF LineInv

LEMMA LineAppends ==
    ASSUME LineInv, NEW t \in Threads, redisAppendCommand(t)
    PROVE  LineInv'
<1>0. LineTypes /\ LinesInv /\ OnceInv
  BY DEF LineInv
<1>1. /\ UNCHANGED <<executed, wire, conn>>
      /\ obuf' = Append(obuf, issued + 1) /\ issued' = issued + 1
  BY DEF redisAppendCommand, NextCommand, redis
<1>2. LineTypes'
  BY <1>0, <1>1 DEF LineTypes
<1>3. LinesInv'
  <2>1. SUFFICES ASSUME NEW c \in Conn PROVE Line(executed[c], wire[c], Out(c)', issued + 1)
    BY <1>1 DEF LinesInv
  <2>2. Line(executed[c], wire[c], Out(c), issued)
    BY <1>0 DEF LinesInv
  <2>3. CASE c = conn
    <3>1. Out(c) = obuf /\ Out(c)' = Append(obuf, issued + 1)
      BY <1>1, <2>3 DEF Out
    <3>. QED
      BY <2>2, <3>1, LineIssued
  <2>4. CASE c # conn
    <3>1. Out(c)' = Out(c)
      BY <1>1, <2>4 DEF Out
    <3>. QED
      BY <2>2, <3>1, LineOther
  <2>. QED
    BY <2>3, <2>4
<1>4. ASSUME NEW c \in Conn
      PROVE  Held(c)' \subseteq Held(c) \cup (IF c = conn THEN {issued + 1} ELSE {})
  <2>1. CASE c = conn
    <3>1. Out(c) = obuf /\ Out(c)' = Append(obuf, issued + 1)
      BY <1>1, <2>1 DEF Out
    <3>2. obuf \in Seq(Nat) /\ issued + 1 \in Nat
      BY <1>0, <2>1, <3>1 DEF LinesInv, Line, LineTypes
    <3>3. Range(Out(c)') = Range(Out(c)) \cup {issued + 1}
      BY <3>1, <3>2, AppendRange
    <3>. QED
      BY <1>1, <2>1, <3>3 DEF Held
  <2>2. CASE c # conn
    <3>1. Out(c)' = Out(c)
      BY <1>1, <2>2 DEF Out
    <3>. QED
      BY <1>1, <3>1 DEF Held
  <2>. QED
    BY <2>1, <2>2
<1>5. ASSUME NEW c \in Conn PROVE issued + 1 \notin Held(c)
  <2>1. \A k \in Held(c) : k \in Nat /\ k <= issued
    BY <1>0, LineBelow DEF LinesInv, Held
  <2>2. issued \in Nat
    BY <1>0 DEF LineTypes
  <2>. QED
    BY <2>1, <2>2
<1>6. OnceInv'
  <2>1. SUFFICES ASSUME NEW c \in Conn, NEW d \in Conn, c # d PROVE (Held(c) \cap Held(d) = {})'
    BY DEF OnceInv
  <2>2. Held(c) \cap Held(d) = {} /\ issued + 1 \notin Held(c) /\ issued + 1 \notin Held(d)
    BY <1>0, <1>5, <2>1 DEF OnceInv
  <2>3. /\ Held(c)' \subseteq Held(c) \cup (IF c = conn THEN {issued + 1} ELSE {})
        /\ Held(d)' \subseteq Held(d) \cup (IF d = conn THEN {issued + 1} ELSE {})
    BY <1>4
  <2>. QED
    BY <2>1, <2>2, <2>3
<1>. QED
  BY <1>2, <1>3, <1>6 DEF LineInv

\* The first n commands of the buffer are written, or lost in a closed connection.
LEMMA LineWrites ==
    ASSUME LineInv, NEW n \in 0..Len(obuf), obuf' = SubSeq(obuf, n + 1, Len(obuf)),
           wire' = IF open THEN [wire EXCEPT ![conn] = wire[conn] \o SubSeq(obuf, 1, n)] ELSE wire,
           UNCHANGED <<executed, conn, issued>>
    PROVE  LineInv'
<1>0. LineTypes /\ LinesInv /\ OnceInv
  BY DEF LineInv
<1>. DEFINE p == SubSeq(obuf, 1, n)
            q == SubSeq(obuf, n + 1, Len(obuf))
            v == IF open THEN wire[conn] \o p ELSE wire[conn]
<1>1. Line(executed[conn], wire[conn], obuf, issued) /\ obuf \in Seq(Nat) /\ wire[conn] \in Seq(Nat)
  BY <1>0 DEF LineTypes, LinesInv, Line, Out
<1>2. /\ Line(executed[conn], wire[conn] \o p, q, issued)
      /\ Line(executed[conn], wire[conn], q, issued)
  BY <1>1, LineWritten
<1>3. p \in Seq(Nat) /\ q \in Seq(Nat) /\ Range(p) \subseteq Range(obuf) /\ Range(q) \subseteq Range(obuf)
  BY <1>1, CutType
<1>4. wire' = (IF open THEN [wire EXCEPT ![conn] = wire[conn] \o p] ELSE wire) /\ obuf' = q
  OBVIOUS
<1>. HIDE DEF p, q
<1>5. wire[conn] \o p \in Seq(Nat) /\ Range(wire[conn] \o p) = Range(wire[conn]) \cup Range(p)
  BY <1>1, <1>3, JoinRange, ConcatProperties
<1>6. v \in Seq(Nat) /\ Range(v) \subseteq Range(wire[conn]) \cup Range(obuf) /\ Line(executed[conn], v, q, issued)
  BY <1>1, <1>2, <1>3, <1>5
<1>7. /\ wire'[conn] = v
      /\ \A c \in Conn : c # conn => wire'[c] = wire[c]
      /\ wire' \in [Conn -> Seq(Nat)]
  BY <1>0, <1>4, <1>5 DEF LineTypes
<1>. HIDE DEF v
<1>8. LineTypes'
  BY <1>0, <1>7 DEF LineTypes
<1>9. LinesInv'
  <2>1. SUFFICES ASSUME NEW c \in Conn PROVE Line(executed[c], wire'[c], Out(c)', issued)
    BY DEF LinesInv
  <2>2. CASE c = conn
    <3>1. Out(c)' = q
      BY <1>4, <2>2 DEF Out
    <3>. QED
      BY <1>6, <1>7, <2>2, <3>1
  <2>3. CASE c # conn
    <3>1. Out(c)' = Out(c)
      BY <2>3 DEF Out
    <3>. QED
      BY <1>0, <1>7, <2>3, <3>1 DEF LinesInv
  <2>. QED
    BY <2>2, <2>3
<1>10. ASSUME NEW c \in Conn PROVE Held(c)' \subseteq Held(c)
  <2>2. CASE c = conn
    <3>1. Out(c) = obuf /\ Out(c)' = q
      BY <1>4, <2>2 DEF Out
    <3>. QED
      BY <1>3, <1>6, <1>7, <2>2, <3>1 DEF Held
  <2>3. CASE c # conn
    <3>1. Out(c)' = Out(c)
      BY <2>3 DEF Out
    <3>. QED
      BY <1>7, <2>3, <3>1 DEF Held
  <2>. QED
    BY <2>2, <2>3
<1>. QED
  BY <1>8, <1>9, <1>10, LineMoves

LEMMA LineReconnects ==
    ASSUME LineInv, redisReconnect
    PROVE  LineInv'
<1>0. LineTypes /\ LinesInv /\ OnceInv
  BY DEF LineInv
<1>1. /\ conn < MaxConns /\ conn' = conn + 1 /\ obuf' = <<>>
      /\ UNCHANGED <<executed, wire, issued>>
  BY DEF redisReconnect
<1>2. LineTypes'
  BY <1>0, <1>1, MaxAssumption DEF LineTypes, Conn
<1>3. \A c \in Conn : Out(c)' = <<>>
  BY <1>1 DEF Out
<1>4. LinesInv'
  BY <1>0, <1>1, <1>3, LineEmptied DEF LinesInv
<1>5. \A c \in Conn : Held(c)' \subseteq Held(c)
  BY <1>1, <1>3, RangeNone DEF Held
<1>. QED
  BY <1>2, <1>4, <1>5, LineMoves

LEMMA LineExecutes ==
    ASSUME LineInv, NEW c \in Conn, Execute(c)
    PROVE  LineInv'
<1>0. LineTypes /\ LinesInv /\ OnceInv
  BY DEF LineInv
<1>1. /\ wire[c] # <<>>
      /\ executed' = [executed EXCEPT ![c] = Append(executed[c], Head(wire[c]))]
      /\ wire' = [wire EXCEPT ![c] = Tail(wire[c])]
      /\ UNCHANGED <<obuf, conn, issued>>
  BY DEF Execute, client
<1>2. /\ executed[c] \in Seq(Nat) /\ wire[c] \in Seq(Nat) /\ wire[c] \in Seq(Range(wire[c]))
  BY <1>0, SeqOfRange DEF LineTypes
<1>3. /\ Head(wire[c]) \in Nat /\ Tail(wire[c]) \in Seq(Nat)
      /\ Head(wire[c]) \in Range(wire[c]) /\ Tail(wire[c]) \in Seq(Range(wire[c]))
  BY <1>1, <1>2, HeadTailProperties
<1>4. /\ Append(executed[c], Head(wire[c])) \in Seq(Nat)
      /\ Range(Append(executed[c], Head(wire[c]))) = Range(executed[c]) \cup {Head(wire[c])}
      /\ Range(Tail(wire[c])) \subseteq Range(wire[c])
  BY <1>2, <1>3, AppendRange, AppendProperties, RangeOfSeq
<1>5. /\ executed'[c] = Append(executed[c], Head(wire[c])) /\ wire'[c] = Tail(wire[c])
      /\ \A d \in Conn : d # c => executed'[d] = executed[d] /\ wire'[d] = wire[d]
      /\ executed' \in [Conn -> Seq(Nat)] /\ wire' \in [Conn -> Seq(Nat)]
  BY <1>0, <1>1, <1>3, <1>4 DEF LineTypes
<1>6. LineTypes'
  BY <1>0, <1>1, <1>5 DEF LineTypes
<1>7. \A d \in Conn : Out(d)' = Out(d)
  BY <1>1 DEF Out
<1>8. LinesInv'
  <2>1. SUFFICES ASSUME NEW d \in Conn PROVE Line(executed'[d], wire'[d], Out(d), issued)
    BY <1>1, <1>7 DEF LinesInv
  <2>2. Line(executed[d], wire[d], Out(d), issued)
    BY <1>0 DEF LinesInv
  <2>3. CASE d = c
    BY <1>1, <1>5, <2>2, <2>3, LineExecuted
  <2>. QED
    BY <1>5, <2>2, <2>3
<1>9. ASSUME NEW d \in Conn PROVE Held(d)' \subseteq Held(d)
  <2>1. CASE d = c
    BY <1>3, <1>4, <1>5, <1>7, <2>1 DEF Held
  <2>. QED
    BY <1>5, <1>7, <2>1 DEF Held
<1>. QED
  BY <1>6, <1>8, <1>9, LineMoves

LEMMA LineCloses ==
    ASSUME LineInv, NEW c \in Conn, Close(c)
    PROVE  LineInv'
<1>0. LineTypes /\ LinesInv /\ OnceInv
  BY DEF LineInv
<1>1. wire' = [wire EXCEPT ![c] = <<>>] /\ UNCHANGED <<executed, obuf, conn, issued>>
  BY DEF Close, client
<1>2. /\ wire'[c] = <<>> /\ \A d \in Conn : d # c => wire'[d] = wire[d]
      /\ wire' \in [Conn -> Seq(Nat)]
  BY <1>0, <1>1, EmptySeq DEF LineTypes
<1>3. LineTypes'
  BY <1>0, <1>1, <1>2 DEF LineTypes
<1>4. \A d \in Conn : Out(d)' = Out(d)
  BY <1>1 DEF Out
<1>5. LinesInv'
  <2>1. SUFFICES ASSUME NEW d \in Conn PROVE Line(executed[d], wire'[d], Out(d), issued)
    BY <1>1, <1>4 DEF LinesInv
  <2>2. Line(executed[d], wire[d], Out(d), issued)
    BY <1>0 DEF LinesInv
  <2>3. CASE d = c
    BY <1>2, <2>2, <2>3, LineClosed
  <2>. QED
    BY <1>2, <2>2, <2>3
<1>6. ASSUME NEW d \in Conn PROVE Held(d)' \subseteq Held(d)
  BY <1>1, <1>2, <1>4, RangeNone DEF Held
<1>. QED
  BY <1>3, <1>5, <1>6, LineMoves

LEMMA LineNext ==
    ASSUME LineInv, [Next]_vars
    PROVE  LineInv'
<1>1. CASE UNCHANGED <<executed, wire, obuf, issued, conn>>
  BY <1>1 DEF LineInv, LineTypes, LinesInv, OnceInv, Held, Out
<1>2. ASSUME NEW t \in Threads, redisCommand(t)
      PROVE  LineInv'
  <2>1. CASE redisAppendCommand(t)
    BY <2>1, LineAppends
  <2>2. CASE redisBufferWrite(t)
    <3>1. UNCHANGED <<executed, issued, conn>>
      BY <2>2 DEF redisBufferWrite
    <3>2. CASE UNCHANGED <<obuf, wire>>
      BY <1>1, <3>1, <3>2
    <3>3. CASE \E n \in 1..Len(obuf) :
                  /\ wire' = IF open THEN [wire EXCEPT ![conn] = wire[conn] \o SubSeq(obuf, 1, n)] ELSE wire
                  /\ obuf' = SubSeq(obuf, n + 1, Len(obuf))
      <4>1. PICK n \in 1..Len(obuf) :
                  /\ wire' = IF open THEN [wire EXCEPT ![conn] = wire[conn] \o SubSeq(obuf, 1, n)] ELSE wire
                  /\ obuf' = SubSeq(obuf, n + 1, Len(obuf))
        BY <3>3
      <4>2. n \in 0..Len(obuf)
        BY <4>1
      <4>. QED
        BY <3>1, <4>1, <4>2, LineWrites
    <3>. QED
      BY <2>2, <3>2, <3>3 DEF redisBufferWrite, Unwritten
  <2>3. CASE redisGetReply(t) \/ redisGetReplyFromReader(t) \/ EarlyReturn(t) \/ redisBufferRead(t)
    <3>1. UNCHANGED <<executed, wire, obuf, issued, conn>>
      BY <2>3 DEF redisGetReply, redisGetReplyFromReader, EarlyReturn, redisBufferRead, redis
    <3>. QED
      BY <1>1, <3>1
  <2>. QED
    BY <1>2, <2>1, <2>2, <2>3 DEF redisCommand
<1>3. CASE redisReconnect
  BY <1>3, LineReconnects
<1>4. CASE \E c \in Conn : Execute(c) \/ Close(c)
  BY <1>4, LineExecutes, LineCloses
<1>5. CASE UNCHANGED vars
  BY <1>1, <1>5 DEF vars, client, redis
<1>. QED
  BY <1>2, <1>3, <1>4, <1>5 DEF Next

\* redisBufferWrite drops exactly what the socket took, a new connection starts from
\* an empty buffer, and Redis executes what a connection has been sent in order: no
\* command is executed twice, over one connection or two, however late Redis
\* reads an old one, and of one connection none before one that was issued earlier.
THEOREM ExecutedInOrderCorrect == Spec => []ExecutedInOrder
<1>1. LineInv => ExecutedInOrder
  <2>1. SUFFICES ASSUME LineInv,
                        NEW c \in Conn, NEW d \in Conn,
                        NEW i \in DOMAIN executed[c], NEW j \in DOMAIN executed[d]
                 PROVE  /\ executed[c][i] = executed[d][j] => c = d
                        /\ c = d /\ i < j => executed[c][i] < executed[d][j]
    BY DEF ExecutedInOrder
  <2>2. executed[c][i] \in Held(c) /\ executed[d][j] \in Held(d)
    BY DEF Held, Range
  <2>3. c # d => Held(c) \cap Held(d) = {}
    BY <2>1 DEF LineInv, OnceInv
  <2>4. Rising(executed[c])
    BY <2>1 DEF LineInv, LinesInv, Line
  <2>. QED
    BY <2>2, <2>3, <2>4 DEF Rising
<1>2. LineInv /\ [Next]_vars => LineInv'
  BY LineNext
<1>. QED
  BY <1>1, <1>2, LineInit, PTL DEF Spec

-----------------------------------------------------------------------------
(***************************************************************************)
(* The parser.  First the number a line holds: it is a number.             *)
(***************************************************************************)
DigitOf(d) == CHOOSE n \in 0..9 : Digits[n + 1] = d

\* v holds the values of the first n digits of s.
ValuesTo(s, v, n) ==
    v = [i \in 0..n |-> IF i = 0 THEN 0 ELSE v[i - 1] * 10 + DigitOf(s[i])]

LEMMA ValuesExist ==
    ASSUME NEW s, NEW n \in Nat
    PROVE  \E v : ValuesTo(s, v, n)
<1>. DEFINE T == {m \in Nat : \E v : ValuesTo(s, v, m)}
<1>1. 0 \in T
  <2>. DEFINE v == [i \in 0..0 |-> 0]
  <2>1. v = [i \in 0..0 |-> IF i = 0 THEN 0 ELSE v[i - 1] * 10 + DigitOf(s[i])]
    OBVIOUS
  <2>2. ValuesTo(s, v, 0)
    BY <2>1 DEF ValuesTo
  <2>. HIDE DEF v
  <2>. QED
    BY <2>2
<1>2. ASSUME NEW m \in T PROVE m + 1 \in T
  <2>1. PICK v : ValuesTo(s, v, m)
    OBVIOUS
  <2>2. m \in Nat
    OBVIOUS
  <2>3. /\ v[0] = 0
        /\ \A i \in 1..m : v[i] = v[i - 1] * 10 + DigitOf(s[i])
    BY <2>1, <2>2 DEF ValuesTo
  <2>. DEFINE f == [i \in 0..(m + 1) |-> IF i <= m THEN v[i] ELSE v[m] * 10 + DigitOf(s[m + 1])]
  <2>4. /\ f[0] = 0
        /\ \A i \in 1..(m + 1) : f[i - 1] = v[i - 1]
        /\ \A i \in 1..m : f[i] = v[i]
        /\ f[m + 1] = v[m] * 10 + DigitOf(s[m + 1])
    BY <2>2, <2>3
  <2>5. DOMAIN f = 0..(m + 1) /\ f = [i \in 0..(m + 1) |-> f[i]]
    OBVIOUS
  <2>. HIDE DEF f
  <2>6. \A i \in 1..(m + 1) : f[i] = f[i - 1] * 10 + DigitOf(s[i])
    <3>1. SUFFICES ASSUME NEW i \in 1..(m + 1) PROVE f[i] = f[i - 1] * 10 + DigitOf(s[i])
      OBVIOUS
    <3>2. i \in 1..m \/ (i = m + 1 /\ i - 1 = m)
      BY <2>2
    <3>3. CASE i \in 1..m
      <4>1. f[i] = v[i] /\ f[i - 1] = v[i - 1]
        BY <2>4, <3>3
      <4>. QED
        BY <2>3, <3>3, <4>1
    <3>4. CASE i = m + 1 /\ i - 1 = m
      <4>1. f[i] = v[m] * 10 + DigitOf(s[i]) /\ f[i - 1] = v[m]
        BY <2>4, <3>4
      <4>. QED
        BY <4>1
    <3>. QED
      BY <3>2, <3>3, <3>4
  <2>7. \A i \in 0..(m + 1) : f[i] = IF i = 0 THEN 0 ELSE f[i - 1] * 10 + DigitOf(s[i])
    <3>1. SUFFICES ASSUME NEW i \in 0..(m + 1) PROVE f[i] = IF i = 0 THEN 0 ELSE f[i - 1] * 10 + DigitOf(s[i])
      OBVIOUS
    <3>2. i = 0 \/ i \in 1..(m + 1)
      BY <2>2
    <3>. QED
      BY <2>4, <2>6, <3>2
  <2>8. ValuesTo(s, f, m + 1)
    BY <2>5, <2>7 DEF ValuesTo
  <2>. QED
    BY <2>2, <2>8
<1>3. T = Nat
  <2>. HIDE DEF T
  <2>1. T \in SUBSET Nat
    BY DEF T
  <2>. QED
    BY <1>1, <1>2, <2>1, NatSetInduction
<1>. QED
  BY <1>3

LEMMA DecimalType ==
    ASSUME NEW s \in Seq(STRING), ToSet(s) \subseteq ToSet(Digits)
    PROVE  Decimal(s) \in Nat
<1>1. Len(s) \in Nat /\ DOMAIN s = 1..Len(s)
  BY LenProperties
<1>2. \A i \in 1..Len(s) : DigitOf(s[i]) \in 0..9
  <2>1. SUFFICES ASSUME NEW i \in 1..Len(s) PROVE DigitOf(s[i]) \in 0..9
    OBVIOUS
  <2>2. s[i] \in ToSet(Digits)
    BY <1>1 DEF ToSet
  <2>3. PICK d \in 1..10 : s[i] = Digits[d]
    <3>1. DOMAIN Digits = 1..10
      BY DEF Digits
    <3>. QED
      BY <2>2, <3>1 DEF ToSet
  <2>4. d - 1 \in 0..9 /\ (d - 1) + 1 = d
    BY <2>3
  <2>5. \E n \in 0..9 : Digits[n + 1] = s[i]
    BY <2>3, <2>4
  <2>. QED
    BY <2>5 DEF DigitOf
<1>3. PICK v : v = CHOOSE w : ValuesTo(s, w, Len(s))
  OBVIOUS
<1>4. Decimal(s) = v[Len(s)]
  BY <1>3 DEF Decimal, ValuesTo, DigitOf
<1>5. ValuesTo(s, v, Len(s))
  BY <1>1, <1>3, ValuesExist
<1>6. /\ v[0] = 0
      /\ \A i \in 1..Len(s) : v[i] = v[i - 1] * 10 + DigitOf(s[i])
  BY <1>1, <1>5 DEF ValuesTo
<1>. DEFINE T == {m \in Nat : m <= Len(s) => v[m] \in Nat}
<1>7. 0 \in T
  BY <1>6
<1>8. ASSUME NEW m \in T PROVE m + 1 \in T
  <2>1. m \in Nat
    OBVIOUS
  <2>2. CASE m + 1 <= Len(s)
    <3>1. m <= Len(s) /\ m + 1 \in 1..Len(s) /\ (m + 1) - 1 = m
      BY <1>1, <2>1, <2>2
    <3>2. v[m] \in Nat /\ DigitOf(s[m + 1]) \in Nat
      BY <1>2, <3>1
    <3>3. v[m + 1] = v[m] * 10 + DigitOf(s[m + 1])
      BY <1>6, <3>1
    <3>4. v[m] * 10 + DigitOf(s[m + 1]) \in Nat
      BY <3>2
    <3>. QED
      BY <2>1, <3>3, <3>4
  <2>. QED
    BY <2>1, <2>2
<1>9. T = Nat
  <2>. HIDE DEF T
  <2>1. T \in SUBSET Nat
    BY DEF T
  <2>. QED
    BY <1>7, <1>8, <2>1, NatSetInduction
<1>10. Len(s) \in T
  BY <1>1, <1>9
<1>. QED
  BY <1>1, <1>4, <1>10

LEMMA NumberType ==
    ASSUME NEW line \in Seq(STRING)
    PROVE  readLongLong(line) \in Int
<1>. DEFINE signed == line # <<>> /\ line[1] \in {"-", "+"}
            digits == IF signed THEN Tail(line) ELSE line
<1>1. digits \in Seq(STRING)
  BY HeadTailProperties
<1>2. readLongLong(line) = IF ~ ToSet(digits) \subseteq ToSet(Digits) THEN -1
                           ELSE IF signed /\ line[1] = "-" THEN -Decimal(digits) ELSE Decimal(digits)
  BY DEF readLongLong
<1>3. ToSet(digits) \subseteq ToSet(Digits) => Decimal(digits) \in Nat
  <2>. HIDE DEF digits
  <2>. QED
    BY <1>1, DecimalType
<1>. HIDE DEF digits, signed
<1>. QED
  BY <1>2, <1>3

-----------------------------------------------------------------------------
(***************************************************************************)
(* What processItem does to a reader: it never touches the bytes, and when *)
(* it changes anything it consumes some or finds an error.                 *)
(***************************************************************************)
Types == {"none", "-", "+", ":", "$", "*"}

Tasks == [type : Types, elements : Int, idx : Int]

Readers(S) == [buf : Seq(STRING), pos : Nat, stack : Seq(Tasks), obj : Seq(S), err : BOOLEAN]

\* A reader, whatever the objects of its reply are.
IsReader(r) == r.pos <= Len(r.buf) /\ \E S : r \in Readers(S)

\* Nothing more happens until bytes arrive.
Blocked(r) ==
    LET type == r.stack[Len(r.stack)].type
        at   == seekNewline(Unread(r))
        len  == readLongLong(SubSeq(Unread(r), 1, at - 1))
    IN  \/ type = "none" /\ Unread(r) = <<>>
        \/ type \in {"-", "+", ":"} /\ at = 0
        \/ type = "$" /\ (at = 0 \/ (len >= 0 /\ at + 1 + len + 2 > Len(Unread(r))))
        \/ type = "*" /\ Len(r.stack) # TaskLimit /\ at = 0

\* q comes from the reader p, with bytes consumed or an error.
Moved(p, q) ==
    /\ IsReader(q) /\ q.buf = p.buf
    /\ q.err \/ q.pos > p.pos
    /\ q.stack = <<>> => q.obj # <<>>

LEMMA UnreadType ==
    ASSUME NEW r, IsReader(r)
    PROVE  Unread(r) \in Seq(STRING) /\ Len(Unread(r)) = Len(r.buf) - r.pos
<1>1. PICK b \in Seq(STRING), m \in Nat : b = r.buf /\ m = r.pos /\ m <= Len(b)
  BY DEF IsReader, Readers
<1>2. Len(b) \in Nat /\ DOMAIN b = 1..Len(b)
  BY LenProperties
<1>3. \A i \in (m + 1)..Len(b) : b[i] \in STRING
  BY <1>2, ElementOfSeq
<1>4. /\ SubSeq(b, m + 1, Len(b)) \in Seq(STRING)
      /\ Len(SubSeq(b, m + 1, Len(b))) = IF m + 1 <= Len(b) THEN Len(b) - (m + 1) + 1 ELSE 0
  BY <1>2, <1>3, SubSeqProperties
<1>5. \A l \in Nat : m <= l => (IF m + 1 <= l THEN l - (m + 1) + 1 ELSE 0) = l - m
  OBVIOUS
<1>. QED
  BY <1>1, <1>2, <1>4, <1>5 DEF Unread

LEMMA NewlineType ==
    ASSUME NEW s \in Seq(STRING)
    PROVE  seekNewline(s) \in Nat /\ (seekNewline(s) # 0 => seekNewline(s) + 1 <= Len(s))
<1>. DEFINE found == {i \in 1..(Len(s) - 1) : s[i] = "CR" /\ s[i + 1] = "LF"}
<1>0. Len(s) \in Nat
  BY LenProperties
<1>1. seekNewline(s) = IF found = {} THEN 0 ELSE CHOOSE i \in found : \A j \in found : i <= j
  BY DEF seekNewline
<1>2. found \in SUBSET Nat /\ \A i \in found : i + 1 <= Len(s)
  BY <1>0
<1>. HIDE DEF found
<1>3. found # {} => (CHOOSE i \in found : \A j \in found : i <= j) \in found
  BY <1>2, LeastExists
<1>4. seekNewline(s) \in found \/ seekNewline(s) = 0
  BY <1>1, <1>3
<1>5. \A i \in found : i \in Nat /\ i + 1 <= Len(s)
  BY <1>2
<1>. QED
  BY <1>4, <1>5

LEMMA NextTaskType ==
    ASSUME NEW stack \in Seq(Tasks)
    PROVE  moveToNextTask(stack) \in Seq(Tasks)
<1>. DEFINE unfinished == {i \in 2..Len(stack) : stack[i].idx # stack[i - 1].elements - 1}
            last == CHOOSE i \in unfinished : \A j \in unfinished : j <= i
<1>0. Len(stack) \in Nat
  BY LenProperties
<1>1. moveToNextTask(stack) = IF unfinished = {} THEN <<>>
                              ELSE Append(SubSeq(stack, 1, last - 1), Task(stack[last].idx + 1))
  BY DEF moveToNextTask
<1>2. unfinished \in SUBSET (0..Len(stack)) /\ unfinished \subseteq 2..Len(stack)
  BY <1>0
<1>3. ASSUME unfinished # {} PROVE last \in 2..Len(stack)
  <2>1. \E i \in unfinished : \A j \in unfinished : j <= i
    <3>. HIDE DEF unfinished
    <3>. QED
      BY <1>0, <1>2, <1>3, GreatestExists
  <2>2. last \in unfinished
    BY <2>1
  <2>. QED
    BY <1>2, <2>2
<1>. HIDE DEF unfinished, last
<1>4. ASSUME unfinished # {}
      PROVE  Append(SubSeq(stack, 1, last - 1), Task(stack[last].idx + 1)) \in Seq(Tasks)
  <2>1. last \in 1..Len(stack) /\ last - 1 \in Int /\ \A i \in 1..(last - 1) : i \in 1..Len(stack)
    BY <1>0, <1>3, <1>4
  <2>2. stack[last] \in Tasks /\ \A i \in 1..(last - 1) : stack[i] \in Tasks
    BY <2>1, ElementOfSeq
  <2>3. Task(stack[last].idx + 1) \in Tasks
    <3>1. PICK n \in Int : n = stack[last].idx
      BY <2>2 DEF Tasks
    <3>2. n + 1 \in Int
      OBVIOUS
    <3>3. \A m \in Int : Task(m) \in Tasks
      BY DEF Task, Tasks, Types
    <3>. QED
      BY <3>1, <3>2, <3>3
  <2>4. SubSeq(stack, 1, last - 1) \in Seq(Tasks)
    BY <2>1, <2>2, SubSeqProperties
  <2>. HIDE DEF Tasks
  <2>. QED
    BY <2>3, <2>4, AppendProperties
<1>. QED
  BY <1>1, <1>4, EmptySeq

\* An object created from n of the unread bytes.
LEMMA CreateMoves ==
    ASSUME NEW r, IsReader(r), NEW value, NEW n \in Nat \ {0}, n <= Len(Unread(r))
    PROVE  /\ IsReader(Create(r, value, n)) /\ Create(r, value, n).obj # <<>>
           /\ Create(r, value, n).buf = r.buf /\ Create(r, value, n).pos > r.pos
           /\ Create(r, value, n).stack = r.stack
<1>. DEFINE object == [path |-> [i \in 1..(Len(r.stack) - 1) |-> r.stack[i + 1].idx], value |-> value]
<1>1. PICK S : r \in Readers(S)
  BY DEF IsReader
<1>2. Create(r, value, n) = [r EXCEPT !.obj = Append(r.obj, object), !.pos = r.pos + n]
  BY DEF Create
<1>. HIDE DEF object
<1>3. PICK obj \in Seq(S \cup {object}) : obj = r.obj
  <2>1. r.obj \in Seq(S)
    BY <1>1 DEF Readers
  <2>. QED
    BY <2>1, SeqMonotonic
<1>4. Append(obj, object) \in Seq(S \cup {object}) /\ Append(obj, object) # <<>>
  BY EmptySeq
<1>5. r.pos \in Nat /\ r.pos + n > r.pos /\ r.pos + n \in Nat /\ r.pos + n <= Len(r.buf)
  <2>1. r.pos \in Nat /\ Len(r.buf) \in Nat
    BY <1>1 DEF Readers
  <2>2. n <= Len(r.buf) - r.pos
    BY UnreadType
  <2>. QED
    BY <2>1, <2>2
<1>6. [r EXCEPT !.obj = Append(obj, object), !.pos = r.pos + n] \in Readers(S \cup {object})
  BY <1>1, <1>4, <1>5 DEF Readers
<1>7. Create(r, value, n) \in Readers(S \cup {object})
  BY <1>2, <1>3, <1>6
<1>8. /\ Create(r, value, n).obj = Append(obj, object) /\ Create(r, value, n).pos = r.pos + n
      /\ Create(r, value, n).buf = r.buf /\ Create(r, value, n).stack = r.stack
  BY <1>1, <1>2, <1>3 DEF Readers
<1>. QED
  BY <1>4, <1>5, <1>7, <1>8 DEF IsReader

LEMMA CompleteMoves ==
    ASSUME NEW r, IsReader(r), NEW value, NEW n \in Nat \ {0}, n <= Len(Unread(r))
    PROVE  Moved(r, Complete(r, value, n))
<1>. DEFINE c == Create(r, value, n)
<1>1. IsReader(c) /\ c.obj # <<>> /\ c.buf = r.buf /\ c.pos > r.pos
  BY CreateMoves
<1>2. Complete(r, value, n) = [c EXCEPT !.stack = moveToNextTask(c.stack)]
  BY DEF Complete
<1>. HIDE DEF c
<1>3. PICK S : c \in Readers(S)
  BY <1>1 DEF IsReader
<1>4. moveToNextTask(c.stack) \in Seq(Tasks)
  BY <1>3, NextTaskType DEF Readers
<1>5. Complete(r, value, n) \in Readers(S)
  BY <1>2, <1>3, <1>4 DEF Readers
<1>6. /\ Complete(r, value, n).buf = c.buf /\ Complete(r, value, n).pos = c.pos
      /\ Complete(r, value, n).obj = c.obj
  BY <1>2, <1>3 DEF Readers
<1>. QED
  BY <1>1, <1>5, <1>6 DEF Moved, IsReader

LEMMA LineItemMoves ==
    ASSUME NEW r, IsReader(r), NEW type
    PROVE  \/ seekNewline(Unread(r)) = 0 /\ processLineItem(r, type) = r
           \/ seekNewline(Unread(r)) # 0 /\ Moved(r, processLineItem(r, type))
<1>. DEFINE at == seekNewline(Unread(r))
<1>1. at \in Nat /\ (at # 0 => at + 1 <= Len(Unread(r)))
  BY UnreadType, NewlineType
<1>2. PICK value : processLineItem(r, type) = IF at = 0 THEN r ELSE Complete(r, value, at + 1)
  BY DEF processLineItem
<1>. HIDE DEF at
<1>3. CASE at # 0
  <2>1. at + 1 \in Nat \ {0} /\ at + 1 <= Len(Unread(r))
    BY <1>1, <1>3
  <2>2. Moved(r, Complete(r, value, at + 1))
    BY <2>1, CompleteMoves
  <2>. QED
    BY <1>2, <1>3, <2>2 DEF at
<1>. QED
  BY <1>2, <1>3 DEF at

\* The length of a bulk string or the number of elements of an array.
Announced(r) == readLongLong(SubSeq(Unread(r), 1, seekNewline(Unread(r)) - 1))

LEMMA AnnouncedType ==
    ASSUME NEW r, IsReader(r), seekNewline(Unread(r)) # 0
    PROVE  Announced(r) \in Int
<1>1. PICK s \in Seq(STRING) : s = Unread(r)
  BY UnreadType
<1>2. PICK at \in Nat : at = seekNewline(s) /\ at + 1 <= Len(s)
  BY <1>1, NewlineType
<1>3. at - 1 \in Int /\ \A i \in 1..(at - 1) : i \in 1..Len(s)
  BY <1>2
<1>4. \A i \in 1..(at - 1) : s[i] \in STRING
  BY <1>3, ElementOfSeq
<1>5. SubSeq(s, 1, at - 1) \in Seq(STRING)
  BY <1>3, <1>4, SubSeqProperties
<1>6. readLongLong(SubSeq(s, 1, at - 1)) \in Int
  BY <1>5, NumberType
<1>. QED
  BY <1>1, <1>2, <1>6 DEF Announced

LEMMA BulkItemMoves ==
    ASSUME NEW r, IsReader(r)
    PROVE  LET at == seekNewline(Unread(r))
               waits == at = 0 \/ (Announced(r) >= 0 /\ at + 1 + Announced(r) + 2 > Len(Unread(r)))
           IN  IF waits THEN processBulkItem(r) = r ELSE Moved(r, processBulkItem(r))
<1>. DEFINE at == seekNewline(Unread(r))
            len == Announced(r)
<1>1. at \in Nat /\ (at # 0 => at + 1 <= Len(Unread(r)) /\ len \in Int)
  BY UnreadType, NewlineType, AnnouncedType
<1>2. PICK nil, value :
         processBulkItem(r) =
             IF at = 0 THEN r
             ELSE IF len < 0 THEN Complete(r, nil, at + 1)
             ELSE IF at + 1 + len + 2 > Len(Unread(r)) THEN r
             ELSE Complete(r, value, at + 1 + len + 2)
  BY DEF processBulkItem, Announced
<1>. HIDE DEF at, len
<1>3. Len(Unread(r)) \in Nat
  BY UnreadType, LenProperties
<1>4. CASE at = 0
  BY <1>2, <1>4 DEF at
<1>5. CASE at # 0 /\ len < 0
  <2>1. at + 1 \in Nat \ {0} /\ at + 1 <= Len(Unread(r)) /\ ~ len >= 0
    BY <1>1, <1>5
  <2>2. Moved(r, Complete(r, nil, at + 1))
    BY <2>1, CompleteMoves
  <2>. QED
    BY <1>2, <1>5, <2>1, <2>2 DEF at, len
<1>6. CASE at # 0 /\ ~ len < 0 /\ at + 1 + len + 2 > Len(Unread(r))
  <2>1. len >= 0
    BY <1>1, <1>6
  <2>. QED
    BY <1>2, <1>6, <2>1 DEF at, len
<1>7. CASE at # 0 /\ ~ len < 0 /\ ~ at + 1 + len + 2 > Len(Unread(r))
  <2>1. at + 1 + len + 2 \in Nat \ {0} /\ at + 1 + len + 2 <= Len(Unread(r))
    BY <1>1, <1>3, <1>7
  <2>2. Moved(r, Complete(r, value, at + 1 + len + 2))
    BY <2>1, CompleteMoves
  <2>. QED
    BY <1>2, <1>7, <2>2 DEF at, len
<1>. QED
  BY <1>4, <1>5, <1>6, <1>7

\* A reader whose last task changes or gets a task above it.
LEMMA StackMoves ==
    ASSUME NEW r, IsReader(r), NEW stack \in Seq(Tasks)
    PROVE  /\ IsReader([r EXCEPT !.stack = stack])
           /\ [r EXCEPT !.stack = stack].buf = r.buf
           /\ [r EXCEPT !.stack = stack].pos = r.pos
           /\ [r EXCEPT !.stack = stack].obj = r.obj
           /\ [r EXCEPT !.stack = stack].stack = stack
<1>1. PICK S : r \in Readers(S)
  BY DEF IsReader
<1>2. [r EXCEPT !.stack = stack] \in Readers(S)
  BY <1>1 DEF Readers
<1>3. /\ [r EXCEPT !.stack = stack].buf = r.buf
      /\ [r EXCEPT !.stack = stack].pos = r.pos
      /\ [r EXCEPT !.stack = stack].obj = r.obj
      /\ [r EXCEPT !.stack = stack].stack = stack
  BY <1>1 DEF Readers
<1>. QED
  BY <1>2, <1>3 DEF IsReader

LEMMA ErrMoves ==
    ASSUME NEW r, IsReader(r), r.stack # <<>>, NEW pos \in Nat, r.pos <= pos, pos <= Len(r.buf)
    PROVE  Moved(r, [r EXCEPT !.err = TRUE, !.pos = pos]) /\ [r EXCEPT !.err = TRUE].err
<1>1. PICK S : r \in Readers(S)
  BY DEF IsReader
<1>2. [r EXCEPT !.err = TRUE, !.pos = pos] \in Readers(S)
  BY <1>1 DEF Readers
<1>3. /\ [r EXCEPT !.err = TRUE, !.pos = pos].buf = r.buf
      /\ [r EXCEPT !.err = TRUE, !.pos = pos].pos = pos
      /\ [r EXCEPT !.err = TRUE, !.pos = pos].err
      /\ [r EXCEPT !.err = TRUE, !.pos = pos].stack = r.stack
      /\ [r EXCEPT !.err = TRUE].err
  BY <1>1 DEF Readers
<1>. QED
  BY <1>2, <1>3 DEF IsReader, Moved

LEMMA ErrAlone ==
    ASSUME NEW r, IsReader(r), r.stack # <<>>
    PROVE  Moved(r, [r EXCEPT !.err = TRUE])
<1>1. PICK S : r \in Readers(S)
  BY DEF IsReader
<1>2. [r EXCEPT !.err = TRUE] \in Readers(S)
  BY <1>1 DEF Readers
<1>3. /\ [r EXCEPT !.err = TRUE].buf = r.buf
      /\ [r EXCEPT !.err = TRUE].pos = r.pos
      /\ [r EXCEPT !.err = TRUE].err
      /\ [r EXCEPT !.err = TRUE].stack = r.stack
  BY <1>1 DEF Readers
<1>. QED
  BY <1>2, <1>3 DEF IsReader, Moved

LEMMA MultiBulkItemMoves ==
    ASSUME NEW r, IsReader(r), r.stack # <<>>
    PROVE  IF Len(r.stack) # TaskLimit /\ seekNewline(Unread(r)) = 0
           THEN processMultiBulkItem(r) = r ELSE Moved(r, processMultiBulkItem(r))
<1>. DEFINE at == seekNewline(Unread(r))
            elements == Announced(r)
<1>1. at \in Nat /\ (at # 0 => at + 1 <= Len(Unread(r)) /\ elements \in Int)
  BY UnreadType, NewlineType, AnnouncedType
<1>2. PICK nil, none, value :
         processMultiBulkItem(r) =
             IF Len(r.stack) = TaskLimit THEN [r EXCEPT !.err = TRUE]
             ELSE IF at = 0 THEN r
             ELSE IF elements = -1 THEN Complete(r, nil, at + 1)
             ELSE IF elements = 0 THEN Complete(r, none, at + 1)
             ELSE [Create(r, value, at + 1) EXCEPT !.stack =
                      Append([@ EXCEPT ![Len(@)].elements = elements], Task(0))]
  BY DEF processMultiBulkItem, Announced
<1>. HIDE DEF at, elements
<1>3. CASE Len(r.stack) = TaskLimit
  BY <1>2, <1>3, ErrAlone
<1>4. CASE Len(r.stack) # TaskLimit /\ at = 0
  BY <1>2, <1>4 DEF at
<1>5. CASE Len(r.stack) # TaskLimit /\ at # 0
  <2>1. at + 1 \in Nat \ {0} /\ at + 1 <= Len(Unread(r)) /\ elements \in Int
    BY <1>1, <1>5
  <2>2. Moved(r, Complete(r, nil, at + 1)) /\ Moved(r, Complete(r, none, at + 1))
    BY <2>1, CompleteMoves
  <2>. DEFINE c == Create(r, value, at + 1)
              up == [c.stack EXCEPT ![Len(c.stack)].elements = elements]
  <2>3. IsReader(c) /\ c.buf = r.buf /\ c.pos > r.pos /\ c.stack = r.stack
    BY <2>1, CreateMoves
  <2>4. [c EXCEPT !.stack = Append([@ EXCEPT ![Len(@)].elements = elements], Task(0))] =
            [c EXCEPT !.stack = Append(up, Task(0))]
    OBVIOUS
  <2>. HIDE DEF c
  <2>5. c.stack \in Seq(Tasks) /\ c.stack # <<>>
    BY <2>3 DEF IsReader, Readers
  <2>6. up \in Seq(Tasks)
    <3>1. PICK stack \in Seq(Tasks) : stack = c.stack /\ stack # <<>>
      BY <2>5
    <3>2. Len(stack) \in 1..Len(stack)
      BY <3>1, EmptySeq
    <3>3. [stack[Len(stack)] EXCEPT !.elements = elements] \in Tasks
      <4>1. stack[Len(stack)] \in Tasks
        BY <3>2, ElementOfSeq
      <4>. QED
        BY <2>1, <4>1 DEF Tasks
    <3>4. [stack EXCEPT ![Len(stack)] = [stack[Len(stack)] EXCEPT !.elements = elements]] \in Seq(Tasks)
      <4>. HIDE DEF Tasks
      <4>. QED
        BY <3>2, <3>3, ExceptSeq
    <3>. QED
      BY <3>1, <3>4
  <2>. HIDE DEF up
  <2>7. Append(up, Task(0)) \in Seq(Tasks) /\ Append(up, Task(0)) # <<>>
    <3>1. Task(0) \in Tasks
      BY DEF Task, Tasks, Types
    <3>. HIDE DEF Tasks
    <3>. QED
      BY <2>6, <3>1, AppendProperties, EmptySeq
  <2>8. Moved(r, [c EXCEPT !.stack = Append(up, Task(0))])
    BY <2>3, <2>7, StackMoves DEF Moved
  <2>. QED
    BY <1>2, <1>5, <2>2, <2>4, <2>8 DEF c, at
<1>. QED
  BY <1>3, <1>4, <1>5 DEF at


-----------------------------------------------------------------------------
(***************************************************************************)
(* A turn of the parser, and all of them: in the end it has a reply or an  *)
(* error, or nothing more happens until bytes arrive.                      *)
(***************************************************************************)
Settled(r) == r.stack = <<>> \/ r.err \/ Blocked(r)

LEMMA TypeByteMoves ==
    ASSUME NEW r, IsReader(r), r.stack # <<>>, Unread(r) # <<>>,
           Last(r.stack).type = "none"
    PROVE  Moved(r, processItem(r))
<1>. DEFINE next == r.buf[r.pos + 1]
            typed == [r.stack EXCEPT ![Len(r.stack)].type = next]
<1>. HIDE DEF next, typed
<1>1. PICK S : r \in Readers(S)
  BY DEF IsReader
<1>2. r.pos \in Nat /\ Len(r.buf) \in Nat /\ r.pos < Len(r.buf)
  <2>1. r.pos \in Nat /\ r.pos <= Len(r.buf)
    BY <1>1 DEF IsReader, Readers
  <2>2. Len(r.buf) \in Nat
    BY <1>1, LenProperties DEF Readers
  <2>3. Len(Unread(r)) # 0
    BY UnreadType, EmptySeq
  <2>4. Len(r.buf) - r.pos # 0
    BY <2>3, UnreadType
  <2>. QED
    BY <2>1, <2>2, <2>4
<1>3. r.pos + 1 \in Nat /\ r.pos + 1 <= Len(r.buf) /\ r.pos <= r.pos + 1 /\ r.pos + 1 > r.pos
  BY <1>2
<1>4. \/ /\ next \in Types
         /\ processItem(r) = [r EXCEPT !.stack = typed, !.pos = r.pos + 1]
      \/ processItem(r) = [r EXCEPT !.err = TRUE, !.pos = r.pos + 1]
  <2>1. r.pos # Len(r.buf)
    BY <1>2
  <2>2. processItem(r) = IF next \in {"-", "+", ":", "$", "*"}
                         THEN [r EXCEPT !.stack[Len(r.stack)].type = next, !.pos = @ + 1]
                         ELSE [r EXCEPT !.err = TRUE, !.pos = @ + 1]
    BY <1>2, <2>1 DEF processItem, next
  <2>3. [r EXCEPT !.stack[Len(r.stack)].type = next, !.pos = @ + 1] =
            [r EXCEPT !.stack = typed, !.pos = r.pos + 1]
    BY DEF typed
  <2>4. next \in {"-", "+", ":", "$", "*"} => next \in Types
    BY DEF Types
  <2>. QED
    BY <2>2, <2>3, <2>4
<1>5. Moved(r, [r EXCEPT !.err = TRUE, !.pos = r.pos + 1])
  BY <1>3, ErrMoves
<1>6. ASSUME next \in Types PROVE Moved(r, [r EXCEPT !.stack = typed, !.pos = r.pos + 1])
  <2>1. PICK stack \in Seq(Tasks) : stack = r.stack /\ stack # <<>>
    BY <1>1 DEF Readers
  <2>2. Len(stack) \in 1..Len(stack)
    BY <2>1, EmptySeq
  <2>3. [stack[Len(stack)] EXCEPT !.type = next] \in Tasks
    <3>1. stack[Len(stack)] \in Tasks
      BY <2>2, ElementOfSeq
    <3>. QED
      BY <1>6, <3>1 DEF Tasks
  <2>4. /\ [stack EXCEPT ![Len(stack)] = [stack[Len(stack)] EXCEPT !.type = next]] \in Seq(Tasks)
        /\ Len([stack EXCEPT ![Len(stack)] = [stack[Len(stack)] EXCEPT !.type = next]]) = Len(stack)
    BY <2>2, <2>3, ExceptSeq
  <2>5. typed \in Seq(Tasks) /\ typed # <<>>
    <3>1. Len(stack) # 0
      BY <2>2
    <3>2. typed \in Seq(Tasks) /\ Len(typed) = Len(stack)
      BY <2>1, <2>4 DEF typed
    <3>. QED
      BY <3>1, <3>2, EmptySeq
  <2>6. [r EXCEPT !.stack = typed, !.pos = r.pos + 1] \in Readers(S)
    BY <1>1, <1>3, <2>5 DEF Readers
  <2>7. /\ [r EXCEPT !.stack = typed, !.pos = r.pos + 1].buf = r.buf
        /\ [r EXCEPT !.stack = typed, !.pos = r.pos + 1].pos = r.pos + 1
        /\ [r EXCEPT !.stack = typed, !.pos = r.pos + 1].stack = typed
    BY <1>1 DEF Readers
  <2>. QED
    BY <1>3, <2>5, <2>6, <2>7 DEF Moved, IsReader
<1>. QED
  BY <1>4, <1>5, <1>6

LEMMA TurnMoves ==
    ASSUME NEW r, IsReader(r)
    PROVE  IF Settled(r) THEN Turn(r) = r ELSE Moved(r, Turn(r))
<1>1. CASE r.stack = <<>> \/ r.err
  BY <1>1 DEF Turn, Settled
<1>2. CASE r.stack # <<>> /\ ~ r.err
  <2>0. Turn(r) = processItem(r) /\ (Settled(r) <=> Blocked(r))
    BY <1>2 DEF Turn, Settled
  <2>1. Last(r.stack) = r.stack[Len(r.stack)]
    BY DEF Last
  <2>2. r.stack[Len(r.stack)].type \in Types
    <3>1. PICK stack \in Seq(Tasks) : stack = r.stack /\ stack # <<>>
      BY <1>2 DEF IsReader, Readers
    <3>2. Len(stack) \in 1..Len(stack)
      BY <3>1, EmptySeq
    <3>3. stack[Len(stack)] \in Tasks
      BY <3>2, ElementOfSeq
    <3>. QED
      BY <3>1, <3>3 DEF Tasks
  <2>3. PICK type \in Types : type = Last(r.stack).type /\ type = r.stack[Len(r.stack)].type
    BY <2>1, <2>2
  <2>4. CASE type = "none"
    <3>1. Blocked(r) <=> Unread(r) = <<>>
      BY <2>3, <2>4 DEF Blocked
    <3>2. CASE Unread(r) = <<>>
      <4>1. r.pos \in Nat /\ Len(r.buf) \in Nat
        BY LenProperties DEF IsReader, Readers
      <4>2. Len(r.buf) - r.pos = 0
        BY <3>2, UnreadType, EmptySeq
      <4>3. r.pos = Len(r.buf)
        BY <4>1, <4>2
      <4>4. processItem(r) = r
        <5>1. type = "none" /\ r.pos = Len(r.buf) => processItem(r) = r
          BY <2>3 DEF processItem
        <5>. QED
          BY <2>4, <4>3, <5>1
      <4>. QED
        BY <2>0, <3>1, <3>2, <4>4
    <3>. QED
      BY <1>2, <2>0, <2>3, <2>4, <3>1, <3>2, TypeByteMoves
  <2>5. CASE type \in {"-", "+", ":"}
    <3>1. processItem(r) = processLineItem(r, type)
      BY <2>3, <2>5 DEF processItem
    <3>2. Blocked(r) <=> seekNewline(Unread(r)) = 0
      BY <2>3, <2>5 DEF Blocked
    <3>. QED
      BY <2>0, <3>1, <3>2, LineItemMoves
  <2>6. CASE type = "$"
    <3>1. processItem(r) = processBulkItem(r)
      BY <2>3, <2>6 DEF processItem
    <3>2. Blocked(r) <=> \/ seekNewline(Unread(r)) = 0
                         \/ /\ Announced(r) >= 0
                            /\ seekNewline(Unread(r)) + 1 + Announced(r) + 2 > Len(Unread(r))
      BY <2>3, <2>6 DEF Blocked, Announced
    <3>. QED
      BY <2>0, <3>1, <3>2, BulkItemMoves
  <2>7. CASE type = "*"
    <3>1. processItem(r) = processMultiBulkItem(r)
      BY <2>3, <2>7 DEF processItem
    <3>2. Blocked(r) <=> Len(r.stack) # TaskLimit /\ seekNewline(Unread(r)) = 0
      BY <2>3, <2>7 DEF Blocked
    <3>. QED
      BY <1>2, <2>0, <3>1, <3>2, MultiBulkItemMoves
  <2>. QED
    BY <2>3, <2>4, <2>5, <2>6, <2>7 DEF Types
<1>. QED
  BY <1>1, <1>2


\* v holds the readers after the first n turns.
TurnsTo(r, v, n) == v = [i \in 0..n |-> IF i = 0 THEN r ELSE Turn(v[i - 1])]

LEMMA TurnsExist ==
    ASSUME NEW r, NEW n \in Nat
    PROVE  \E v : TurnsTo(r, v, n)
<1>. DEFINE T == {m \in Nat : \E v : TurnsTo(r, v, m)}
<1>1. 0 \in T
  <2>. DEFINE v == [i \in 0..0 |-> r]
  <2>1. v = [i \in 0..0 |-> IF i = 0 THEN r ELSE Turn(v[i - 1])]
    OBVIOUS
  <2>2. TurnsTo(r, v, 0)
    BY <2>1 DEF TurnsTo
  <2>. HIDE DEF v
  <2>. QED
    BY <2>2
<1>2. ASSUME NEW m \in T PROVE m + 1 \in T
  <2>1. PICK v : TurnsTo(r, v, m)
    OBVIOUS
  <2>2. m \in Nat
    OBVIOUS
  <2>3. /\ v[0] = r
        /\ \A i \in 1..m : v[i] = Turn(v[i - 1])
    BY <2>1, <2>2 DEF TurnsTo
  <2>. DEFINE f == [i \in 0..(m + 1) |-> IF i <= m THEN v[i] ELSE Turn(v[m])]
  <2>4. /\ f[0] = r
        /\ \A i \in 1..(m + 1) : f[i - 1] = v[i - 1]
        /\ \A i \in 1..m : f[i] = v[i]
        /\ f[m + 1] = Turn(v[m])
    BY <2>2, <2>3
  <2>5. DOMAIN f = 0..(m + 1) /\ f = [i \in 0..(m + 1) |-> f[i]]
    OBVIOUS
  <2>. HIDE DEF f
  <2>6. \A i \in 1..(m + 1) : f[i] = Turn(f[i - 1])
    <3>1. SUFFICES ASSUME NEW i \in 1..(m + 1) PROVE f[i] = Turn(f[i - 1])
      OBVIOUS
    <3>2. i \in 1..m \/ (i = m + 1 /\ i - 1 = m)
      BY <2>2
    <3>3. CASE i \in 1..m
      <4>1. f[i] = v[i] /\ f[i - 1] = v[i - 1]
        BY <2>4, <3>3
      <4>. QED
        BY <2>3, <3>3, <4>1
    <3>4. CASE i = m + 1 /\ i - 1 = m
      <4>1. f[i] = Turn(v[m]) /\ f[i - 1] = v[m]
        BY <2>4, <3>4
      <4>. QED
        BY <4>1
    <3>. QED
      BY <3>2, <3>3, <3>4
  <2>7. \A i \in 0..(m + 1) : f[i] = IF i = 0 THEN r ELSE Turn(f[i - 1])
    <3>1. SUFFICES ASSUME NEW i \in 0..(m + 1) PROVE f[i] = IF i = 0 THEN r ELSE Turn(f[i - 1])
      OBVIOUS
    <3>2. i = 0 \/ i \in 1..(m + 1)
      BY <2>2
    <3>. QED
      BY <2>4, <2>6, <3>2
  <2>8. TurnsTo(r, f, m + 1)
    BY <2>5, <2>7 DEF TurnsTo
  <2>. QED
    BY <2>2, <2>8
<1>3. T = Nat
  <2>. HIDE DEF T
  <2>1. T \in SUBSET Nat
    BY DEF T
  <2>. QED
    BY <1>1, <1>2, <2>1, NatSetInduction
<1>. QED
  BY <1>3

\* As many turns as Process grants: each of them but a last consumes a byte,
\* so that the reader has settled.
LEMMA ProcessSettles ==
    ASSUME NEW r, IsReader(r), r.stack = <<>> => r.obj # <<>>
    PROVE  LET p == Process(r)
           IN  /\ IsReader(p) /\ p.buf = r.buf /\ Settled(p)
               /\ p.stack = <<>> => p.obj # <<>>
               /\ Settled(r) => p = r
<1>0. PICK left \in Nat : left = Len(Unread(r)) /\ left = Len(r.buf) - r.pos
  BY UnreadType, LenProperties
<1>1. PICK v : v = CHOOSE w : TurnsTo(r, w, left + 1)
  OBVIOUS
<1>2. Process(r) = v[left + 1]
  BY <1>0, <1>1 DEF Process, TurnsTo
<1>3. TurnsTo(r, v, left + 1)
  BY <1>0, <1>1, TurnsExist
<1>4. v[0] = r /\ \A i \in 1..(left + 1) : v[i] = Turn(v[i - 1])
  BY <1>0, <1>3 DEF TurnsTo
<1>. DEFINE Done(q, m) == /\ IsReader(q) /\ q.buf = r.buf
                          /\ Settled(q) \/ q.pos >= r.pos + m
                          /\ q.stack = <<>> => q.obj # <<>>
                          /\ Settled(r) => q = r
            T == {m \in Nat : m <= left + 1 => Done(v[m], m)}
<1>5. 0 \in T
  <2>1. r.pos \in Nat
    BY DEF IsReader, Readers
  <2>2. r.pos >= r.pos + 0
    BY <2>1
  <2>. QED
    BY <1>4, <2>2
<1>6. ASSUME NEW m \in T PROVE m + 1 \in T
  <2>1. m \in Nat
    OBVIOUS
  <2>2. SUFFICES ASSUME m + 1 <= left + 1 PROVE Done(v[m + 1], m + 1)
    BY <2>1
  <2>3. m <= left + 1 /\ m + 1 \in 1..(left + 1) /\ (m + 1) - 1 = m
    BY <1>0, <2>1, <2>2
  <2>4. PICK q : q = v[m] /\ Turn(q) = v[m + 1]
    BY <1>4, <2>3
  <2>5. Done(q, m)
    BY <2>3, <2>4
  <2>6. CASE Settled(q)
    <3>1. Turn(q) = q
      BY <2>5, <2>6, TurnMoves
    <3>. QED
      BY <2>4, <2>5, <2>6, <3>1
  <2>7. CASE ~ Settled(q)
    <3>1. Moved(q, Turn(q))
      BY <2>5, <2>7, TurnMoves
    <3>2. PICK x : x = Turn(q)
      OBVIOUS
    <3>3. /\ IsReader(x) /\ x.buf = q.buf /\ (x.err \/ x.pos > q.pos)
          /\ x.stack = <<>> => x.obj # <<>>
      BY <3>1, <3>2 DEF Moved
    <3>4. x.err => Settled(x)
      BY DEF Settled
    <3>5. ASSUME x.pos > q.pos PROVE x.pos >= r.pos + (m + 1)
      <4>1. x.pos \in Nat /\ q.pos \in Nat /\ r.pos \in Nat
        BY <2>5, <3>3 DEF IsReader, Readers
      <4>2. q.pos >= r.pos + m
        BY <2>5, <2>7
      <4>. QED
        BY <2>1, <3>5, <4>1, <4>2
    <3>6. ~ Settled(r)
      BY <2>5, <2>7
    <3>7. Done(x, m + 1)
      BY <2>5, <3>3, <3>4, <3>5, <3>6
    <3>. QED
      BY <2>4, <3>2, <3>7
  <2>. QED
    BY <2>6, <2>7
<1>7. T = Nat
  <2>. HIDE DEF T
  <2>1. T \in SUBSET Nat
    BY DEF T
  <2>. QED
    BY <1>5, <1>6, <2>1, NatSetInduction
<1>8. left + 1 \in T
  BY <1>0, <1>7
<1>9. PICK p : p = Process(r) /\ Done(p, left + 1)
  BY <1>0, <1>2, <1>8
<1>10. Settled(p)
  <2>1. SUFFICES ASSUME p.pos >= r.pos + (left + 1) PROVE FALSE
    BY <1>9
  <2>2. p.pos \in Nat /\ r.pos \in Nat /\ Len(r.buf) \in Nat /\ p.pos <= Len(r.buf)
    BY <1>9, LenProperties DEF IsReader, Readers
  <2>. QED
    BY <1>0, <2>1, <2>2
<1>. QED
  BY <1>9, <1>10


LEMMA DiscardKeeps ==
    ASSUME NEW r, IsReader(r)
    PROVE  LET d == Discard(r)
           IN  /\ IsReader(d) /\ Unread(d) = Unread(r)
               /\ d.stack = r.stack /\ d.err = r.err /\ d.obj = r.obj
<1>1. PICK S : r \in Readers(S)
  BY DEF IsReader
<1>2. PICK u \in Seq(STRING) : u = Unread(r)
  BY UnreadType
<1>3. Len(u) \in Nat /\ 0 <= Len(u)
  BY LenProperties
<1>4. SubSeq(u, 0 + 1, Len(u)) = u
  BY SubSeqFull
<1>5. CASE r.pos >= DiscardAt
  <2>1. Discard(r) = [r EXCEPT !.buf = u, !.pos = 0]
    BY <1>2, <1>5 DEF Discard
  <2>2. [r EXCEPT !.buf = u, !.pos = 0] \in Readers(S)
    BY <1>1 DEF Readers
  <2>3. /\ Discard(r).buf = u /\ Discard(r).pos = 0
        /\ Discard(r).stack = r.stack /\ Discard(r).err = r.err /\ Discard(r).obj = r.obj
    BY <1>1, <2>1 DEF Readers
  <2>4. IsReader(Discard(r))
    BY <1>3, <2>1, <2>2, <2>3 DEF IsReader
  <2>5. Unread(Discard(r)) = u
    BY <1>4, <2>3 DEF Unread
  <2>. QED
    BY <1>2, <2>3, <2>4, <2>5
<1>6. CASE ~ r.pos >= DiscardAt
  BY <1>6 DEF Discard
<1>. QED
  BY <1>5, <1>6

\* A reader that has no reply to give, however often it is asked.
Silent(r) == IsReader(r) /\ redisReaderGetReply(r).reply = NULL

LEMMA NoReplyAgain ==
    ASSUME NEW r, IsReader(r)
    PROVE  LET got == redisReaderGetReply(r)
           IN  IsReader(got.reader) /\ (got.reply = NULL => Silent(got.reader))
<1>1. CASE r.err \/ r.buf = <<>>
  <2>1. redisReaderGetReply(r) = [reader |-> r, reply |-> NULL]
    BY <1>1 DEF redisReaderGetReply
  <2>. QED
    BY <2>1 DEF Silent
<1>2. CASE ~ (r.err \/ r.buf = <<>>)
  <2>1. PICK q : q = IF r.stack = <<>> THEN [r EXCEPT !.stack = <<Task(-1)>>] ELSE r
    OBVIOUS
  <2>2. IsReader(q) /\ q.stack # <<>>
    <3>1. Task(-1) \in Tasks
      BY DEF Task, Tasks, Types
    <3>2. <<Task(-1)>> \in Seq(Tasks) /\ <<Task(-1)>> # <<>>
      <4>. HIDE DEF Tasks
      <4>. QED
        BY <3>1
    <3>. QED
      BY <2>1, <3>2, StackMoves
  <2>3. PICK p : p = Process(q)
    OBVIOUS
  <2>4. IsReader(p) /\ Settled(p) /\ (p.stack = <<>> => p.obj # <<>>)
    BY <2>2, <2>3, ProcessSettles
  <2>5. redisReaderGetReply(r) = Processed(p)
    BY <1>2, <2>1, <2>3 DEF redisReaderGetReply
  <2>6. CASE p.err
    <3>1. redisReaderGetReply(r) = [reader |-> p, reply |-> NULL]
      BY <2>5, <2>6 DEF Processed
    <3>2. redisReaderGetReply(p).reply = NULL
      BY <2>6 DEF redisReaderGetReply
    <3>. QED
      BY <2>4, <3>1, <3>2 DEF Silent
  <2>7. CASE ~ p.err
    <3>1. PICK d : d = Discard(p)
      OBVIOUS
    <3>2. /\ IsReader(d) /\ Unread(d) = Unread(p)
          /\ d.stack = p.stack /\ d.err = p.err /\ d.obj = p.obj
      BY <2>4, <3>1, DiscardKeeps
    <3>3. redisReaderGetReply(r) = Reply(d)
      BY <2>5, <2>7, <3>1 DEF Processed
    <3>4. CASE d.stack = <<>>
      <4>1. redisReaderGetReply(r).reply = d.obj /\ d.obj # <<>>
        BY <2>4, <3>2, <3>3, <3>4 DEF Reply
      <4>2. redisReaderGetReply(r).reader = [d EXCEPT !.obj = <<>>]
        BY <3>3, <3>4 DEF Reply
      <4>3. PICK S : d \in Readers(S)
        BY <3>2 DEF IsReader
      <4>4. /\ [d EXCEPT !.obj = <<>>] \in Readers(S)
            /\ [d EXCEPT !.obj = <<>>].pos = d.pos /\ [d EXCEPT !.obj = <<>>].buf = d.buf
        <5>1. <<>> \in Seq(S)
          BY EmptySeq
        <5>. QED
          BY <4>3, <5>1 DEF Readers
      <4>5. IsReader([d EXCEPT !.obj = <<>>])
        BY <3>2, <4>4 DEF IsReader
      <4>. QED
        BY <4>1, <4>2, <4>5 DEF NULL
    <3>5. CASE d.stack # <<>>
      <4>1. redisReaderGetReply(r) = [reader |-> d, reply |-> NULL]
        BY <3>3, <3>5 DEF Reply
      <4>2. Blocked(d)
        <5>1. Blocked(p)
          BY <2>4, <2>7, <3>2, <3>5 DEF Settled
        <5>. QED
          BY <3>2, <5>1 DEF Blocked
      <4>3. Process(d) = d
        BY <3>2, <3>5, <4>2, ProcessSettles DEF Settled
      <4>4. ~ d.err => redisReaderGetReply(d).reply = NULL
        <5>1. SUFFICES ASSUME ~ d.err, d.buf # <<>> PROVE redisReaderGetReply(d).reply = NULL
          BY DEF redisReaderGetReply
        <5>2. redisReaderGetReply(d) = Reply(Discard(d))
          BY <3>5, <4>3, <5>1 DEF redisReaderGetReply, Processed
        <5>3. Discard(d).stack # <<>>
          BY <3>2, <3>5, DiscardKeeps
        <5>. QED
          BY <5>2, <5>3 DEF Reply
      <4>. QED
        BY <2>7, <3>2, <4>1, <4>4 DEF Silent
    <3>. QED
      BY <3>4, <3>5
  <2>. QED
    BY <2>6, <2>7
<1>. QED
  BY <1>1, <1>2

LEMMA FeedKeeps ==
    ASSUME NEW r, IsReader(r), NEW bytes \in Seq(STRING)
    PROVE  IsReader(redisReaderFeed(r, bytes))
<1>1. CASE r.err
  BY <1>1 DEF redisReaderFeed
<1>2. CASE ~ r.err
  <2>1. PICK S : r \in Readers(S)
    BY DEF IsReader
  <2>2. PICK b \in Seq(STRING) : b = r.buf
    BY <2>1 DEF Readers
  <2>3. b \o bytes \in Seq(STRING) /\ Len(b \o bytes) = Len(b) + Len(bytes)
    BY ConcatProperties
  <2>4. redisReaderFeed(r, bytes) = [r EXCEPT !.buf = b \o bytes]
    BY <1>2, <2>2 DEF redisReaderFeed
  <2>5. [r EXCEPT !.buf = b \o bytes] \in Readers(S)
    BY <2>1, <2>3 DEF Readers
  <2>6. [r EXCEPT !.buf = b \o bytes].buf = b \o bytes /\ [r EXCEPT !.buf = b \o bytes].pos = r.pos
    BY <2>1 DEF Readers
  <2>7. r.pos <= Len(b \o bytes)
    <3>1. r.pos \in Nat /\ r.pos <= Len(b) /\ Len(b) \in Nat /\ Len(bytes) \in Nat
      BY <2>1, <2>2, LenProperties DEF IsReader, Readers
    <3>. QED
      BY <2>3, <3>1
  <2>. QED
    BY <2>4, <2>5, <2>6, <2>7 DEF IsReader
<1>. QED
  BY <1>1, <1>2

LEMMA NewReader == IsReader(redisReaderCreate)
<1>1. <<>> \in Seq(STRING) /\ <<>> \in Seq(Tasks) /\ \A S : <<>> \in Seq(S)
  BY EmptySeq
<1>2. \A S : redisReaderCreate \in Readers(S)
  BY <1>1 DEF redisReaderCreate, Readers
<1>3. redisReaderCreate.pos = 0 /\ Len(redisReaderCreate.buf) = 0
  BY EmptySeq DEF redisReaderCreate
<1>. QED
  BY <1>2, <1>3 DEF IsReader


-----------------------------------------------------------------------------
(***************************************************************************)
(* A context one thread uses.  E, W, O are the commands executed, on the   *)
(* wire of any connection and in the output buffer, n those issued, x the  *)
(* error, c the connections made.  After a NULL the error stays until the  *)
(* next connection, and what is issued later stays in the buffer, which    *)
(* that connection empties.                                                *)
(***************************************************************************)
Sticks(res, E, W, O, n, x, c) ==
    /\ n \in Nat /\ c \in Nat /\ E \subseteq Nat /\ W \subseteq Nat /\ \E S : res \in Seq(S)
    /\ \A i \in DOMAIN res :
          /\ res[i].cmd \in Nat /\ res[i].last \in Nat /\ res[i].conn \in Nat
          /\ res[i].cmd <= n /\ res[i].conn <= c
          /\ res[i].reply = NULL /\ res[i].conn = c =>
                x # "none" /\ \A k \in E \cup W : k <= res[i].last
    /\ \A i, j \in DOMAIN res :
          i < j /\ res[i].conn = res[j].conn /\ res[i].reply = NULL =>
             /\ res[j].reply = NULL
             /\ res[j].cmd > res[i].last =>
                   /\ res[j].cmd \notin E \cup W
                   /\ res[i].conn < c => res[j].cmd \notin O

\* Commands are executed, lost or written off; nothing new is written.
LEMMA SticksFewer ==
    ASSUME NEW res, NEW E, NEW W, NEW O, NEW n, NEW x, NEW c, Sticks(res, E, W, O, n, x, c),
           NEW F \in SUBSET (E \cup W), NEW V \in SUBSET (E \cup W), NEW P \in SUBSET O
    PROVE  Sticks(res, F, V, P, n, x, c)
<1>1. F \subseteq Nat /\ V \subseteq Nat /\ F \cup V \subseteq E \cup W
  BY DEF Sticks
<1>. QED
  BY <1>1 DEF Sticks

LEMMA SticksIssued ==
    ASSUME NEW res, NEW E, NEW W, NEW O, NEW n, NEW x, NEW c, Sticks(res, E, W, O, n, x, c)
    PROVE  Sticks(res, E, W, O \cup {n + 1}, n + 1, x, c)
<1>1. n \in Nat /\ n + 1 \in Nat /\ \A k \in Nat : k <= n => k <= n + 1 /\ k # n + 1
  BY DEF Sticks
<1>2. \A i \in DOMAIN res : res[i].cmd <= n + 1 /\ res[i].cmd # n + 1
  BY <1>1 DEF Sticks
<1>. QED
  BY <1>1, <1>2 DEF Sticks

LEMMA SticksWritten ==
    ASSUME NEW res, NEW E, NEW W, NEW O \in SUBSET Nat, NEW n, NEW c, Sticks(res, E, W, O, n, "none", c),
           NEW V \in SUBSET (W \cup O), NEW P \in SUBSET O
    PROVE  Sticks(res, E, V, P, n, "none", c)
<1>1. E \subseteq Nat /\ V \subseteq Nat
  BY DEF Sticks
<1>2. \A i \in DOMAIN res : res[i].reply = NULL => res[i].conn < c
  BY DEF Sticks
<1>. QED
  BY <1>1, <1>2 DEF Sticks

LEMMA SticksAgain ==
    ASSUME NEW res, NEW E, NEW W, NEW O, NEW n, NEW x, NEW c, Sticks(res, E, W, O, n, x, c),
           NEW y
    PROVE  Sticks(res, E, W, {}, n, y, c + 1)
<1>1. c + 1 \in Nat
  BY DEF Sticks
<1>2. \A i \in DOMAIN res : res[i].conn <= c + 1 /\ res[i].conn # c + 1
  BY DEF Sticks
<1>. QED
  BY <1>1, <1>2 DEF Sticks

LEMMA SticksReturned ==
    ASSUME NEW res, NEW E, NEW W, NEW O, NEW n, NEW x, NEW c, Sticks(res, E, W, O, n, x, c),
           \A k \in E \cup W : k <= n,
           NEW row, row.cmd \in Nat, row.cmd <= n, row.last = n, row.conn = c,
           x # "none" => row.reply = NULL,
           NEW y, y = x \/ y # "none", row.reply = NULL => y # "none"
    PROVE  Sticks(Append(res, row), E, W, O, n, y, c)
<1>. DEFINE more == Append(res, row)
<1>0. n \in Nat /\ c \in Nat /\ E \subseteq Nat /\ W \subseteq Nat
  BY DEF Sticks
<1>1. PICK S : res \in Seq(S)
  BY DEF Sticks
<1>2. more \in Seq(S \cup {row})
  <2>1. res \in Seq(S \cup {row})
    BY <1>1, SeqMonotonic
  <2>. QED
    BY <2>1, AppendProperties
<1>3. /\ Len(res) \in Nat /\ DOMAIN res = 1..Len(res) /\ DOMAIN more = 1..(Len(res) + 1)
      /\ \A i \in DOMAIN res : more[i] = res[i]
      /\ more[Len(res) + 1] = row
  <2>1. /\ Len(res) \in Nat /\ DOMAIN res = 1..Len(res)
    BY <1>1, LenProperties
  <2>2. DOMAIN more = 1..(Len(res) + 1)
    BY <1>1, <1>2, LenProperties, AppendProperties
  <2>3. /\ \A i \in 1..Len(res) : more[i] = res[i]
        /\ more[Len(res) + 1] = row
    BY <1>1, AppendProperties
  <2>. QED
    BY <2>1, <2>2, <2>3
<1>. HIDE DEF more
<1>4. DOMAIN more = DOMAIN res \cup {Len(res) + 1} /\ \A i \in DOMAIN res : i < Len(res) + 1 /\ i \in Nat
  BY <1>3
<1>5. ASSUME NEW i \in DOMAIN more
      PROVE  /\ more[i].cmd \in Nat /\ more[i].last \in Nat /\ more[i].conn \in Nat
             /\ more[i].cmd <= n /\ more[i].conn <= c
             /\ more[i].reply = NULL /\ more[i].conn = c =>
                   y # "none" /\ \A k \in E \cup W : k <= more[i].last
  <2>1. CASE i \in DOMAIN res
    BY <1>3, <2>1 DEF Sticks
  <2>2. CASE i = Len(res) + 1
    <3>1. more[i] = row
      BY <1>3, <2>2
    <3>2. /\ row.cmd \in Nat /\ row.last \in Nat /\ row.conn \in Nat
          /\ row.cmd <= n /\ row.conn <= c
          /\ row.reply = NULL => y # "none"
          /\ \A k \in E \cup W : k <= row.last
      BY <1>0
    <3>. QED
      BY <3>1, <3>2
  <2>. QED
    BY <1>4, <2>1, <2>2
<1>6. ASSUME NEW i \in DOMAIN more, NEW j \in DOMAIN more,
             i < j, more[i].conn = more[j].conn, more[i].reply = NULL
      PROVE  /\ more[j].reply = NULL
             /\ more[j].cmd > more[i].last =>
                   /\ more[j].cmd \notin E \cup W
                   /\ more[i].conn < c => more[j].cmd \notin O
  <2>1. i \in DOMAIN res
    BY <1>3, <1>6
  <2>2. CASE j \in DOMAIN res
    BY <1>3, <1>6, <2>1, <2>2 DEF Sticks
  <2>3. CASE j = Len(res) + 1
    <3>1. /\ res[i].conn = c /\ res[i].reply = NULL /\ more[i] = res[i] /\ more[j] = row
          /\ res[i].last \in Nat
      BY <1>3, <1>6, <2>1, <2>3 DEF Sticks
    <3>2. x # "none" /\ \A k \in E \cup W : k <= res[i].last
      BY <2>1, <3>1 DEF Sticks
    <3>3. row.reply = NULL /\ ~ res[i].conn < c
      BY <1>0, <3>1, <3>2
    <3>4. row.cmd > res[i].last => row.cmd \notin E \cup W
      BY <3>1, <3>2
    <3>. QED
      BY <3>1, <3>3, <3>4
  <2>. QED
    BY <1>4, <2>2, <2>3
<1>7. Sticks(more, E, W, O, n, y, c)
  BY <1>0, <1>2, <1>5, <1>6 DEF Sticks
<1>. QED
  BY <1>7 DEF more


-----------------------------------------------------------------------------
\* The reader: it is silent once there is an error, or once the thread t has
\* gone to the socket.
ReaderInv(t) ==
    /\ IsReader(reader)
    /\ err # "none" \/ pc[t] \in {"write", "read"} => Silent(reader)

\* The calls of t: what is pending has been issued.
CallInv(t) ==
    /\ issued \in 0..MaxCommands
    /\ pc \in [Threads -> {"idle", "reader", "write", "read"}]
    /\ pending \in [Threads -> Seq(1..issued)]
    /\ pc[t] # "idle" => pending[t] # <<>>

\* What is on its way to Redis and back.
QueueInv == obuf \in Seq(Command) /\ wire \in [Conn -> Seq(Command)] /\ back \in Seq(STRING)

Executed == UNION {Range(executed[c]) : c \in Conn}
Written == UNION {Range(wire[c]) : c \in Conn}

StickInv == Sticks(results, Executed, Written, Range(obuf), issued, err, conn)

LEMMA LineRanges ==
    ASSUME LineInv
    PROVE  /\ Executed \subseteq Nat /\ Written \subseteq Nat /\ Range(obuf) \subseteq Nat
           /\ \A k \in Executed \cup Written : k <= issued
<1>1. \A c \in Conn : \A k \in Range(executed[c]) \cup Range(wire[c]) \cup Range(Out(c)) :
          k \in Nat /\ k <= issued
  BY LineBelow DEF LineInv, LinesInv
<1>2. conn \in Conn /\ Out(conn) = obuf
  BY DEF LineInv, LineTypes, Out
<1>. QED
  BY <1>1, <1>2 DEF Executed, Written

\* redisGetReply returns: NULL with an error, and with an error NULL.
LEMMA ReturnSticks ==
    ASSUME NEW t \in Threads, LineInv, CallInv(t), StickInv, pc[t] # "idle",
           NEW reply, NEW why, Return(t, reply, why),
           err # "none" => reply = NULL,
           err' = err \/ err' # "none", reply = NULL => err' # "none",
           UNCHANGED <<obuf, conn, wire, executed, issued>>
    PROVE  StickInv' /\ CallInv(t)' /\ pc'[t] = "idle"
<1>. DEFINE row == [cmd |-> Head(pending[t]), reply |-> reply, why |-> why, last |-> issued, conn |-> conn]
<1>1. /\ results' = Append(results, row)
      /\ pending' = [pending EXCEPT ![t] = Tail(pending[t])]
      /\ pc' = [pc EXCEPT ![t] = "idle"]
  BY DEF Return
<1>2. /\ row.cmd = Head(pending[t]) /\ row.reply = reply /\ row.last = issued /\ row.conn = conn
  OBVIOUS
<1>. HIDE DEF row
<1>3. Head(pending[t]) \in 1..issued /\ Tail(pending[t]) \in Seq(1..issued)
  <2>1. pending[t] \in Seq(1..issued) /\ pending[t] # <<>>
    BY DEF CallInv
  <2>. QED
    BY <2>1, HeadTailProperties
<1>4. Head(pending[t]) \in Nat /\ Head(pending[t]) <= issued
  BY <1>3 DEF CallInv
<1>5. Sticks(results, Executed, Written, Range(obuf), issued, err, conn)
  BY DEF StickInv
<1>6. \A k \in Executed \cup Written : k <= issued
  BY LineRanges
<1>7. Sticks(Append(results, row), Executed, Written, Range(obuf), issued, err', conn)
  BY <1>2, <1>4, <1>5, <1>6, SticksReturned
<1>8. StickInv'
  BY <1>1, <1>7 DEF StickInv, Executed, Written
<1>9. CallInv(t)' /\ pc'[t] = "idle"
  BY <1>1, <1>3 DEF CallInv
<1>. QED
  BY <1>8, <1>9

LEMMA TakeReplySticks ==
    ASSUME NEW t \in Threads, LineInv, CallInv(t), StickInv, pc[t] # "idle",
           NEW r, IsReader(r), err # "none" => Silent(r),
           NEW else \in {"write", "read"}, TakeReply(t, redisReaderGetReply(r), else),
           UNCHANGED <<obuf, conn, wire, executed, issued>>
    PROVE  StickInv' /\ CallInv(t)' /\ ReaderInv(t)'
<1>1. PICK got : got = redisReaderGetReply(r)
  OBVIOUS
<1>2. reader' = got.reader /\ IsReader(got.reader) /\ (got.reply = NULL => Silent(got.reader))
  BY <1>1, NoReplyAgain DEF TakeReply
<1>3. CASE got.reader.err /\ Fail(t, "PROTOCOL")
  <2>1. Return(t, NULL, "PROTOCOL") /\ err' = "PROTOCOL"
    BY <1>3 DEF Fail
  <2>2. StickInv' /\ CallInv(t)' /\ pc'[t] = "idle"
    BY <2>1, ReturnSticks
  <2>3. Silent(got.reader)
    BY <1>2, <1>3 DEF Silent, redisReaderGetReply
  <2>. QED
    BY <1>2, <2>2, <2>3 DEF ReaderInv
<1>4. CASE ~ got.reader.err /\ got.reply # NULL /\ Return(t, got.reply, "none") /\ err' = err
  <2>1. err = "none"
    BY <1>1, <1>4 DEF Silent
  <2>2. StickInv' /\ CallInv(t)' /\ pc'[t] = "idle"
    BY <1>4, <2>1, ReturnSticks
  <2>. QED
    BY <1>2, <1>4, <2>1, <2>2 DEF ReaderInv
<1>5. CASE /\ ~ got.reader.err /\ got.reply = NULL
           /\ pc' = [pc EXCEPT ![t] = else]
           /\ UNCHANGED <<err, pending, results>>
  <2>1. StickInv'
    BY <1>5 DEF StickInv, Executed, Written
  <2>2. CallInv(t)'
    BY <1>5 DEF CallInv
  <2>. QED
    BY <1>2, <1>5, <2>1, <2>2 DEF ReaderInv
<1>. QED
  BY <1>1, <1>3, <1>4, <1>5 DEF TakeReply


FailInv(t) == ReaderInv(t) /\ CallInv(t) /\ QueueInv /\ StickInv

LEMMA FailInit == ASSUME NEW t \in Threads PROVE Init => FailInv(t)
<1>. SUFFICES ASSUME Init PROVE FailInv(t)
  OBVIOUS
<1>1. ReaderInv(t)
  BY NewReader DEF Init, ReaderInv
<1>2. CallInv(t)
  <2>1. Len(Answers) \in Nat /\ \A n : <<>> \in Seq(1..n)
    BY AnswersAssumption, LenProperties, EmptySeq
  <2>. QED
    BY <2>1 DEF Init, CallInv, MaxCommands
<1>3. QueueInv
  <2>1. \A S : <<>> \in Seq(S)
    BY EmptySeq
  <2>. QED
    BY <2>1 DEF Init, QueueInv
<1>4. StickInv
  <2>1. /\ \A S : <<>> \in Seq(S)
        /\ DOMAIN <<>> = {} /\ Range(<<>>) = {}
    BY EmptySeq DEF Range
  <2>2. Sticks(<<>>, {}, {}, {}, 0, "none", 0)
    BY <2>1 DEF Sticks
  <2>3. \A c \in Conn : executed[c] = <<>> /\ wire[c] = <<>>
    BY DEF Init
  <2>4. Executed = {} /\ Written = {}
    BY <2>1, <2>3 DEF Executed, Written
  <2>. QED
    BY <2>1, <2>2, <2>4 DEF Init, StickInv
<1>. QED
  BY <1>1, <1>2, <1>3, <1>4 DEF FailInv

LEMMA FailCommand ==
    ASSUME NEW t \in Threads, LineInv, FailInv(t), redisCommand(t)
    PROVE  FailInv(t)'
<1>0. ReaderInv(t) /\ CallInv(t) /\ QueueInv /\ StickInv
  BY DEF FailInv
<1>1. CASE redisAppendCommand(t)
  <2>1. /\ pc[t] = "idle" /\ issued < MaxCommands
        /\ issued' = issued + 1
        /\ pending' = [pending EXCEPT ![t] = Append(pending[t], issued + 1)]
        /\ obuf' = Append(obuf, issued + 1)
        /\ UNCHANGED <<reader, err, conn, pc, results, open, wire, back, executed>>
    BY <1>1 DEF redisAppendCommand, NextCommand, redis
  <2>2. MaxCommands \in Nat /\ issued \in 0..MaxCommands
    BY <1>0, AnswersAssumption, LenProperties DEF CallInv, MaxCommands
  <2>3. issued + 1 \in 0..MaxCommands /\ issued + 1 \in Command /\ 1..issued \subseteq 1..(issued + 1)
        /\ issued + 1 \in 1..(issued + 1)
    BY <2>1, <2>2 DEF Command
  <2>4. CallInv(t)'
    <3>1. \A u \in Threads : pending[u] \in Seq(1..(issued + 1))
      BY <1>0, <2>3, SeqMonotonic DEF CallInv
    <3>2. Append(pending[t], issued + 1) \in Seq(1..(issued + 1))
      BY <2>3, <3>1, AppendProperties
    <3>3. pending' \in [Threads -> Seq(1..(issued + 1))]
      BY <1>0, <2>1, <3>1, <3>2 DEF CallInv
    <3>. QED
      BY <1>0, <2>1, <2>3, <3>3 DEF CallInv
  <2>5. QueueInv'
    <3>1. Append(obuf, issued + 1) \in Seq(Command)
      BY <1>0, <2>3, AppendProperties DEF QueueInv
    <3>. QED
      BY <1>0, <2>1, <3>1 DEF QueueInv
  <2>6. StickInv'
    <3>1. Range(obuf') = Range(obuf) \cup {issued + 1}
      <4>1. obuf \in Seq(Command)
        BY <1>0 DEF QueueInv
      <4>. QED
        BY <2>1, <2>3, <4>1, AppendRange
    <3>2. Sticks(results, Executed, Written, Range(obuf) \cup {issued + 1}, issued + 1, err, conn)
      BY <1>0, SticksIssued DEF StickInv
    <3>. QED
      BY <2>1, <3>1, <3>2 DEF StickInv, Executed, Written
  <2>7. ReaderInv(t)'
    BY <1>0, <2>1 DEF ReaderInv
  <2>. QED
    BY <2>4, <2>5, <2>6, <2>7 DEF FailInv
<1>2. CASE redisGetReply(t)
  <2>1. /\ pending[t] # <<>> /\ pc' = [pc EXCEPT ![t] = "reader"]
        /\ UNCHANGED <<obuf, reader, err, conn, pending, issued, results, open, wire, back, executed>>
    BY <1>2 DEF redisGetReply, redis
  <2>. QED
    BY <1>0, <2>1 DEF FailInv, ReaderInv, CallInv, QueueInv, StickInv, Executed, Written
<1>3. CASE redisGetReplyFromReader(t)
  <2>1. /\ pc[t] = "reader" /\ TakeReply(t, redisReaderGetReply(reader), "write")
        /\ UNCHANGED <<obuf, conn, issued, open, wire, back, executed>>
    BY <1>3 DEF redisGetReplyFromReader, redis
  <2>2. IsReader(reader) /\ (err # "none" => Silent(reader))
    BY <1>0 DEF ReaderInv
  <2>3. StickInv' /\ CallInv(t)' /\ ReaderInv(t)'
    BY <1>0, <2>1, <2>2, TakeReplySticks
  <2>. QED
    BY <1>0, <2>1, <2>3 DEF FailInv, QueueInv
<1>4. CASE EarlyReturn(t)
  <2>1. /\ pc[t] \in {"write", "read"} /\ err # "none" /\ Return(t, NULL, err)
        /\ UNCHANGED <<obuf, reader, err, conn, issued, open, wire, back, executed>>
    BY <1>4 DEF EarlyReturn, Failed, redis
  <2>2. StickInv' /\ CallInv(t)' /\ pc'[t] = "idle"
    BY <1>0, <2>1, ReturnSticks
  <2>. QED
    BY <1>0, <2>1, <2>2 DEF FailInv, QueueInv, ReaderInv
<1>5. CASE redisBufferWrite(t)
  <2>1. /\ pc[t] = "write" /\ err = "none"
        /\ UNCHANGED <<reader, conn, issued, open, back, executed>>
    BY <1>5 DEF redisBufferWrite, Failed
  <2>2. CASE pc' = [pc EXCEPT ![t] = "read"] /\ UNCHANGED <<obuf, err, wire, pending, results>>
    BY <1>0, <2>1, <2>2 DEF FailInv, ReaderInv, CallInv, QueueInv, StickInv, Executed, Written
  <2>3. CASE /\ obuf # <<>>
             /\ \E n \in 1..Len(obuf) :
                   /\ wire' = IF open THEN [wire EXCEPT ![conn] = wire[conn] \o SubSeq(obuf, 1, n)] ELSE wire
                   /\ obuf' = Unwritten(n)
                   /\ pc' = [pc EXCEPT ![t] = IF obuf' = <<>> THEN "read" ELSE "write"]
             /\ UNCHANGED <<err, pending, results>>
    <3>1. PICK n \in 1..Len(obuf) :
                   /\ wire' = IF open THEN [wire EXCEPT ![conn] = wire[conn] \o SubSeq(obuf, 1, n)] ELSE wire
                   /\ obuf' = SubSeq(obuf, n + 1, Len(obuf))
                   /\ pc' = [pc EXCEPT ![t] = IF obuf' = <<>> THEN "read" ELSE "write"]
      BY <2>3 DEF Unwritten
    <3>2. n \in 0..Len(obuf)
      BY <3>1
    <3>. DEFINE p == SubSeq(obuf, 1, n)
                q == SubSeq(obuf, n + 1, Len(obuf))
    <3>3. /\ p \in Seq(Command) /\ q \in Seq(Command)
          /\ Range(p) \subseteq Range(obuf) /\ Range(q) \subseteq Range(obuf)
      BY <1>0, <3>2, CutType DEF QueueInv
    <3>4. /\ wire' = (IF open THEN [wire EXCEPT ![conn] = wire[conn] \o p] ELSE wire)
          /\ obuf' = q
      BY <3>1
    <3>. HIDE DEF p, q
    <3>5. /\ conn \in Conn /\ wire[conn] \in Seq(Command)
          /\ wire[conn] \o p \in Seq(Command) /\ Range(wire[conn] \o p) = Range(wire[conn]) \cup Range(p)
      <4>1. conn \in Conn /\ wire[conn] \in Seq(Command)
        BY <1>0 DEF QueueInv, LineInv, LineTypes
      <4>. QED
        BY <3>3, <4>1, RangeConcatenation, ConcatProperties
    <3>6. /\ wire' \in [Conn -> Seq(Command)]
          /\ \A c \in Conn : Range(wire'[c]) \subseteq Range(wire[c]) \cup Range(obuf)
          /\ Range(obuf') \subseteq Range(obuf)
      <4>1. wire' \in [Conn -> Seq(Command)]
        BY <1>0, <3>4, <3>5 DEF QueueInv
      <4>2. \A c \in Conn : wire'[c] = wire[c] \/ (wire'[c] = wire[conn] \o p /\ c = conn)
        <5>1. wire \in [Conn -> Seq(Command)]
          BY <1>0 DEF QueueInv
        <5>2. CASE open
          <6>1. wire' = [wire EXCEPT ![conn] = wire[conn] \o p]
            BY <3>4, <5>2
          <6>. QED
            BY <3>5, <5>1, <6>1
        <5>3. CASE ~ open
          BY <3>4, <5>3
        <5>. QED
          BY <5>2, <5>3
      <4>3. ASSUME NEW c \in Conn
            PROVE  Range(wire'[c]) \subseteq Range(wire[c]) \cup Range(obuf)
        <5>1. CASE wire'[c] = wire[c]
          BY <5>1
        <5>2. CASE wire'[c] = wire[conn] \o p /\ c = conn
          <6>1. Range(wire'[c]) = Range(wire[c]) \cup Range(p)
            BY <3>5, <5>2
          <6>. QED
            BY <3>3, <6>1
        <5>. QED
          BY <4>2, <5>1, <5>2
      <4>4. Range(obuf') \subseteq Range(obuf)
        BY <3>3, <3>4
      <4>. QED
        BY <4>1, <4>3, <4>4
    <3>7. StickInv'
      <4>1. Range(obuf) \subseteq Nat
        BY LineRanges
      <4>2. Sticks(results, Executed, Written, Range(obuf), issued, "none", conn)
        BY <1>0, <2>1 DEF StickInv
      <4>3. Written' \subseteq Written \cup Range(obuf) /\ Executed' = Executed
        BY <2>1, <3>6 DEF Written, Executed
      <4>4. Sticks(results, Executed, Written', Range(obuf'), issued, "none", conn)
        BY <3>6, <4>1, <4>2, <4>3, SticksWritten
      <4>. QED
        BY <2>1, <2>3, <4>3, <4>4 DEF StickInv
    <3>8. pc' \in [Threads -> {"idle", "reader", "write", "read"}] /\ pc'[t] # "idle"
      BY <1>0, <3>1 DEF CallInv
    <3>9. CallInv(t)'
      BY <1>0, <2>1, <2>3, <3>8 DEF CallInv
    <3>10. ReaderInv(t)'
      BY <1>0, <2>1, <2>3 DEF ReaderInv
    <3>11. QueueInv'
      BY <1>0, <2>1, <3>3, <3>4, <3>6 DEF QueueInv
    <3>. QED
      BY <3>7, <3>9, <3>10, <3>11 DEF FailInv
  <2>4. CASE Fail(t, "IO") /\ UNCHANGED <<obuf, wire>>
    <3>1. Return(t, NULL, "IO") /\ err' = "IO"
      BY <2>4 DEF Fail
    <3>2. StickInv' /\ CallInv(t)' /\ pc'[t] = "idle"
      BY <1>0, <2>1, <2>4, <3>1, ReturnSticks
    <3>. QED
      BY <1>0, <2>1, <2>4, <3>2 DEF FailInv, QueueInv, ReaderInv
  <2>. QED
    BY <1>5, <2>2, <2>3, <2>4 DEF redisBufferWrite
<1>6. CASE redisBufferRead(t)
  <2>1. /\ pc[t] = "read" /\ err = "none"
        /\ UNCHANGED <<obuf, conn, issued, open, wire, executed>>
    BY <1>6 DEF redisBufferRead, Failed
  <2>2. CASE \E n \in 1..Len(back) :
                /\ TakeReply(t, redisReaderGetReply(redisReaderFeed(reader, SubSeq(back, 1, n))), "read")
                /\ back' = SubSeq(back, n + 1, Len(back))
    <3>1. PICK n \in 1..Len(back) :
                /\ TakeReply(t, redisReaderGetReply(redisReaderFeed(reader, SubSeq(back, 1, n))), "read")
                /\ back' = SubSeq(back, n + 1, Len(back))
      BY <2>2
    <3>2. n \in 0..Len(back)
      BY <3>1
    <3>3. SubSeq(back, 1, n) \in Seq(STRING) /\ SubSeq(back, n + 1, Len(back)) \in Seq(STRING)
      BY <1>0, <3>2, CutType DEF QueueInv
    <3>4. IsReader(redisReaderFeed(reader, SubSeq(back, 1, n)))
      BY <1>0, <3>3, FeedKeeps DEF ReaderInv
    <3>5. StickInv' /\ CallInv(t)' /\ ReaderInv(t)'
      BY <1>0, <2>1, <3>1, <3>4, TakeReplySticks
    <3>. QED
      BY <1>0, <2>1, <3>1, <3>3, <3>5 DEF FailInv, QueueInv
  <2>3. CASE Fail(t, "IO") /\ UNCHANGED <<reader, back>>
    <3>1. Return(t, NULL, "IO") /\ err' = "IO"
      BY <2>3 DEF Fail
    <3>2. StickInv' /\ CallInv(t)' /\ pc'[t] = "idle"
      BY <1>0, <2>1, <3>1, ReturnSticks
    <3>. QED
      BY <1>0, <2>1, <2>3, <3>2 DEF FailInv, QueueInv, ReaderInv
  <2>. QED
    BY <1>6, <2>2, <2>3 DEF redisBufferRead
<1>. QED
  BY <1>1, <1>2, <1>3, <1>4, <1>5, <1>6 DEF redisCommand

LEMMA FailNext ==
    ASSUME NEW t, Threads = {t}, LineInv, FailInv(t), [Next]_vars
    PROVE  FailInv(t)'
<1>0. ReaderInv(t) /\ CallInv(t) /\ QueueInv /\ StickInv /\ t \in Threads
  BY DEF FailInv
<1>1. CASE \E u \in Threads : redisCommand(u)
  BY <1>0, <1>1, FailCommand
<1>2. CASE redisReconnect
  <2>1. /\ conn' = conn + 1 /\ obuf' = <<>> /\ reader' = redisReaderCreate
        /\ back' = <<>> /\ pc[t] = "idle"
        /\ UNCHANGED <<pc, pending, issued, results, wire, executed>>
    BY <1>0, <1>2 DEF redisReconnect
  <2>2. \A S : <<>> \in Seq(S)
    BY EmptySeq
  <2>3. Sticks(results, Executed, Written, {}, issued, err', conn + 1)
    BY <1>0, SticksAgain DEF StickInv
  <2>4. StickInv'
    BY <2>1, <2>3, RangeNone DEF StickInv, Executed, Written
  <2>5. ReaderInv(t)'
    <3>1. redisReaderGetReply(redisReaderCreate).reply = NULL
      BY DEF redisReaderGetReply, redisReaderCreate
    <3>. QED
      BY <2>1, <3>1, NewReader DEF ReaderInv, Silent
  <2>6. CallInv(t)'
    BY <1>0, <2>1 DEF CallInv
  <2>. QED
    BY <1>0, <2>1, <2>2, <2>4, <2>5, <2>6 DEF FailInv, QueueInv
<1>3. ASSUME NEW c \in Conn, Execute(c)
      PROVE  FailInv(t)'
  <2>1. /\ wire[c] # <<>> /\ executed' = [executed EXCEPT ![c] = Append(executed[c], Head(wire[c]))]
        /\ back' = (IF c = conn THEN back \o Encode(Answers[Head(wire[c])]) ELSE back)
        /\ wire' = [wire EXCEPT ![c] = Tail(wire[c])]
        /\ UNCHANGED <<obuf, reader, err, conn, pc, pending, issued, results>>
    BY <1>3 DEF Execute, client
  <2>2. /\ Head(wire[c]) \in Command /\ Tail(wire[c]) \in Seq(Command)
        /\ Head(wire[c]) \in Range(wire[c])
        /\ Range(Tail(wire[c])) \subseteq Range(wire[c])
    <3>1. wire[c] \in Seq(Command) /\ wire[c] \in Seq(Range(wire[c]))
      BY <1>0, SeqOfRange DEF QueueInv
    <3>2. /\ Head(wire[c]) \in Command /\ Tail(wire[c]) \in Seq(Command)
      BY <2>1, <3>1, HeadTailProperties
    <3>3. /\ Head(wire[c]) \in Range(wire[c]) /\ Tail(wire[c]) \in Seq(Range(wire[c]))
      BY <2>1, <3>1, HeadTailProperties
    <3>. QED
      BY <3>2, <3>3, RangeOfSeq
  <2>3. QueueInv'
    <3>1. Encode(Answers[Head(wire[c])]) \in Seq(STRING)
      <4>1. Answers \in Seq(Range(Answers))
        BY AnswersAssumption
      <4>2. Head(wire[c]) \in DOMAIN Answers
        BY <2>2, <4>1, LenProperties DEF Command, MaxCommands
      <4>. QED
        BY <4>2, AnswersAssumption
    <3>2. back \o Encode(Answers[Head(wire[c])]) \in Seq(STRING)
      BY <1>0, <3>1, ConcatProperties DEF QueueInv
    <3>3. wire' \in [Conn -> Seq(Command)]
      BY <1>0, <2>1, <2>2 DEF QueueInv
    <3>. QED
      BY <1>0, <2>1, <3>2, <3>3 DEF QueueInv
  <2>4. /\ Executed' \subseteq Executed \cup Written
        /\ Written' \subseteq Executed \cup Written
    <3>1. executed[c] \in Seq(Nat) /\ Head(wire[c]) \in Nat
      BY <2>2 DEF LineInv, LineTypes, Command
    <3>2. Range(Append(executed[c], Head(wire[c]))) = Range(executed[c]) \cup {Head(wire[c])}
      BY <3>1, AppendRange
    <3>3. /\ \A d \in Conn : executed'[d] = IF d = c THEN Append(executed[c], Head(wire[c])) ELSE executed[d]
          /\ \A d \in Conn : wire'[d] = IF d = c THEN Tail(wire[c]) ELSE wire[d]
      BY <2>1 DEF LineInv, LineTypes
    <3>4. \A d \in Conn : /\ Range(executed'[d]) \subseteq Range(executed[d]) \cup Range(wire[d])
                          /\ Range(wire'[d]) \subseteq Range(wire[d])
      BY <2>2, <3>2, <3>3
    <3>. QED
      BY <3>4 DEF Executed, Written
  <2>5. Sticks(results, Executed', Written', Range(obuf), issued, err, conn)
    BY <1>0, <2>4, SticksFewer DEF StickInv
  <2>6. StickInv'
    BY <2>1, <2>5 DEF StickInv
  <2>7. ReaderInv(t)' /\ CallInv(t)'
    BY <1>0, <2>1 DEF ReaderInv, CallInv
  <2>. QED
    BY <2>3, <2>6, <2>7 DEF FailInv
<1>4. ASSUME NEW c \in Conn, Close(c)
      PROVE  FailInv(t)'
  <2>1. /\ wire' = [wire EXCEPT ![c] = <<>>]
        /\ UNCHANGED <<executed, obuf, reader, err, conn, pc, pending, issued, results>>
    BY <1>4 DEF Close, client
  <2>2. back' = back \/ \E n \in 0..Len(back) : back' = SubSeq(back, 1, n)
    BY <1>4 DEF Close
  <2>3. QueueInv'
    <3>1. back' \in Seq(STRING) /\ <<>> \in Seq(Command)
      BY <1>0, <2>2, CutType, EmptySeq DEF QueueInv
    <3>. QED
      BY <1>0, <2>1, <3>1 DEF QueueInv
  <2>4. Written' \subseteq Written /\ Executed' = Executed
    <3>1. \A d \in Conn : wire'[d] = <<>> \/ wire'[d] = wire[d]
      BY <1>0, <2>1 DEF QueueInv
    <3>2. \A d \in Conn : Range(wire'[d]) \subseteq Range(wire[d])
      BY <3>1, RangeNone
    <3>. QED
      BY <2>1, <3>2 DEF Written, Executed
  <2>5. Sticks(results, Executed, Written', Range(obuf), issued, err, conn)
    BY <1>0, <2>4, SticksFewer DEF StickInv
  <2>6. StickInv'
    BY <2>1, <2>4, <2>5 DEF StickInv
  <2>7. ReaderInv(t)' /\ CallInv(t)'
    BY <1>0, <2>1 DEF ReaderInv, CallInv
  <2>. QED
    BY <2>3, <2>6, <2>7 DEF FailInv
<1>5. CASE UNCHANGED vars
  BY <1>0, <1>5 DEF vars, client, redis, FailInv, ReaderInv, CallInv, QueueInv, StickInv, Executed, Written
<1>. QED
  BY <1>1, <1>2, <1>3, <1>4, <1>5 DEF Next

\* README.md:106 of hiredis, for a context one thread uses: after a NULL every
\* command fails until redisReconnect, and Redis executes none of those issued
\* after it, neither then nor over a later connection.  (Two threads break it,
\* because one may still find its reply in the reader when the other has
\* failed.)
THEOREM FailureSticksCorrect ==
    ASSUME NEW t, Threads = {t}
    PROVE  Spec => []FailureSticks
<1>1. FailInv(t) => FailureSticks
  <2>1. SUFFICES ASSUME StickInv PROVE FailureSticks
    BY DEF FailInv
  <2>2. ASSUME NEW i \in DOMAIN results, NEW j \in DOMAIN results,
               i < j, results[i].conn = results[j].conn, results[i].reply = NULL
        PROVE  /\ results[j].reply = NULL
               /\ results[j].cmd > results[i].last =>
                      \A c \in Conn : ~ Contains(executed[c], results[j].cmd)
    <3>1. /\ results[j].reply = NULL
          /\ results[j].cmd > results[i].last => results[j].cmd \notin Executed
      BY <2>1, <2>2 DEF StickInv, Sticks
    <3>2. \A c \in Conn : \A k : Contains(executed[c], k) => k \in Executed
      BY DEF Contains, Range, Executed
    <3>. QED
      BY <3>1, <3>2
  <2>. QED
    BY <2>2 DEF FailureSticks
<1>2. LineInv /\ FailInv(t) /\ [Next]_vars => FailInv(t)'
  BY FailNext
<1>3. LineInv /\ [Next]_vars => LineInv'
  BY LineNext
<1>4. Init => FailInv(t)
  BY FailInit
<1>. QED
  BY <1>1, <1>2, <1>3, <1>4, LineInit, PTL DEF Spec

=============================================================================
