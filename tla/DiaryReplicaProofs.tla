------------------------ MODULE DiaryReplicaProofs ------------------------
(***************************************************************************)
(* What the sites show, for any diaries and any number of commits: causes  *)
(* before effects, equal stores at rest, and pages built inside bounds.    *)
(* The first two come from one fact: a site has stored the commits of each *)
(* site exactly up to a number, and nothing that depends on a commit above *)
(* it.                                                                     *)
(***************************************************************************)
EXTENDS DiaryCommitProofs, FiniteSetTheorems

Storing == {"fast_push", "slow_push"}

\* The number up to which site s has stored the commits of site t: its vector,
\* less the own commit it has stamped and not stored, plus the peer's commit
\* it has stored and not counted.
Reach(s, t) ==
    IF t = s THEN committedVTS[s][s] - (IF pc[s] \in Storing THEN 1 ELSE 0)
    ELSE committedVTS[s][t] + (IF rpc[s] \in {"unlock", "count"} THEN 1 ELSE 0)

\* The versions of k that site t has committed.
Commits(t, k) ==
    {committed[k][j].ver : j \in {i \in DOMAIN committed[k] : committed[k][i].site = t}}

\* A site gives each of its numbers to one commit.
NumbersOnce ==
    \A t \in Sites, k1, k2 \in Keys :
        \A v1 \in Commits(t, k1), v2 \in Commits(t, k2) :
            v1[t] = v2[t] => k1 = k2 /\ v1 = v2

NumbersUsed ==
    \A t \in Sites, k \in Keys : \A v \in Commits(t, k) :
        0 < v[t] /\ v[t] <= committedVTS[t][t]

Reached ==
    \A s, t \in Sites, k \in Keys : \A v \in Commits(t, k) :
        v[t] <= Reach(s, t) => Holds(s, k, v)

Within ==
    \A s, t \in Sites, k \in Keys : \A i \in DOMAIN history[s][k] :
        history[s][k][i][t] <= Reach(s, t)

\* The commits on the way to s are numbered from the first one s misses, and
\* depend on no commit of s that their site had not counted.
NextOnWay(s, p, i) ==
    /\ p[i].ver \in Commits(Other(s), p[i].key)
    /\ p[i].ver[Other(s)] = Reach(s, Other(s)) + i
    /\ p[i].ver[s] <= committedVTS[Other(s)][s]

OnWay == \A s \in Sites : \A i \in DOMAIN Way(s) : NextOnWay(s, Way(s), i)

NextToStore(s) ==
    /\ txn[s].ver \in Commits(s, txn[s].key)
    /\ txn[s].ver[s] = committedVTS[s][s]
    /\ txn[s].ver[Other(s)] <= committedVTS[s][Other(s)]

InStore == \A s \in Sites : pc[s] \in Storing => NextToStore(s)

\* The seeds of a list come first; every other entry is a commit that no
\* earlier entry covers.
SeedsFirst(h, k) ==
    /\ Len(Seed(k)) <= Len(h)
    /\ \A i \in 1..Len(Seed(k)) : h[i] = Zero
    /\ \A i \in (Len(Seed(k)) + 1)..Len(h) :
          /\ \E t \in Sites : h[i] \in Commits(t, k)
          /\ \A j \in 1..(i - 1) : ~ Leq(h[i], h[j])

Seeded == \A s \in Sites, k \in Keys : SeedsFirst(history[s][k], k)

ReplicaInv ==
    NumbersOnce /\ NumbersUsed /\ Reached /\ Within /\ OnWay /\ InStore /\ Seeded

-----------------------------------------------------------------------------
LEMMA CommitsFacts ==
    ASSUME TypeOK, NEW t \in Sites, NEW k \in Keys, NEW v \in Commits(t, k)
    PROVE  /\ v \in Version
           /\ \E j \in DOMAIN committed[k] :
                  committed[k][j].site = t /\ committed[k][j].ver = v
<1>1. PICK j \in DOMAIN committed[k] : committed[k][j].site = t /\ committed[k][j].ver = v
  BY DEF Commits
<1>2. PICK cs \in Seq(Commit) : cs = committed[k]
  BY DEF TypeOK
<1>3. cs[j] \in Commit
  BY <1>1, <1>2, ElementOfSeq, LenProperties
<1>. QED
  BY <1>1, <1>2, <1>3 DEF Commit

LEMMA CommitsOf ==
    ASSUME TypeOK, NEW k \in Keys, NEW j \in DOMAIN committed[k]
    PROVE  committed[k][j].site \in Sites
           /\ committed[k][j].ver \in Commits(committed[k][j].site, k)
<1>1. PICK cs \in Seq(Commit) : cs = committed[k]
  BY DEF TypeOK
<1>2. cs[j] \in Commit
  BY <1>1, ElementOfSeq, LenProperties
<1>. QED
  BY <1>1, <1>2 DEF Commit, Commits

LEMMA CommitsSameAs ==
    ASSUME UNCHANGED committed
    PROVE  \A t, k : Commits(t, k)' = Commits(t, k)
BY DEF Commits

LEMMA ReachType ==
    ASSUME TypeOK, NEW s \in Sites, NEW t \in Sites
    PROVE  Reach(s, t) \in Int
<1>1. committedVTS[s][s] \in Nat /\ committedVTS[s][t] \in Nat
  BY DEF TypeOK
<1>. QED
  BY <1>1 DEF Reach

LEMMA EntryType ==
    ASSUME TypeOK, NEW s \in Sites, NEW k \in Keys
    PROVE  /\ history[s][k] \in Seq(Version)
           /\ DOMAIN history[s][k] = 1..Len(history[s][k]) /\ Len(history[s][k]) \in Nat
           /\ \A i \in DOMAIN history[s][k] : history[s][k][i] \in Version
<1>1. PICK h \in Seq(Version) : h = history[s][k]
  BY DEF TypeOK
<1>2. DOMAIN h = 1..Len(h) /\ Len(h) \in Nat /\ \A i \in 1..Len(h) : h[i] \in Version
  BY LenProperties, ElementOfSeq
<1>. QED
  BY <1>1, <1>2

LEMMA SeedFacts ==
    ASSUME NEW k \in Keys
    PROVE  /\ Seed(k) \in Seq(Version) /\ Len(Seed(k)) \in Nat
           /\ DOMAIN Seed(k) = 1..Len(Seed(k))
           /\ \A i \in 1..Len(Seed(k)) : Seed(k)[i] = Zero
<1>1. Zero \in Version
  BY DEF Zero, Version
<1>2. CASE k.type = "DIARY"
  BY <1>1, <1>2, OneSeq DEF Seed
<1>3. CASE k.type # "DIARY" /\ k.id = 1
  <2>1. Seed(k) = [i \in 1..4 |-> Zero]
    BY <1>3 DEF Seed
  <2>2. Seed(k) \in Seq(Version)
    BY <1>1, <2>1, IsASeq
  <2>. QED
    BY <2>1, <2>2, LenProperties
<1>4. CASE k.type # "DIARY" /\ k.id # 1
  <2>1. Seed(k) = <<>>
    BY <1>4 DEF Seed
  <2>2. <<>> \in Seq(Version) /\ Len(<<>>) = 0 /\ DOMAIN <<>> = {}
    BY EmptySeq
  <2>. QED
    BY <2>1, <2>2
<1>. QED
  BY <1>2, <1>3, <1>4

\* The commits on the way to a site are those between its number and the one
\* its peer has reached.
LEMMA WayLength ==
    ASSUME TypeOK, SeqnoConservation, NEW s \in Sites
    PROVE  /\ Len(Way(s)) \in Nat
           /\ Reach(s, Other(s)) + Len(Way(s)) = committedVTS[Other(s)][Other(s)]
<1>1. PICK a \in Seq(Message), b \in Seq(Message), c \in Seq(Message) :
         a = InHand(s) /\ b = Transit(s) /\ c = Made(Other(s))
  BY WayParts, SitesFacts
<1>2. a \o b \in Seq(Message) /\ Len(a \o b) = Len(a) + Len(b)
  BY ConcatProperties
<1>3. Len((a \o b) \o c) = Len(a \o b) + Len(c)
  BY <1>2, ConcatProperties
<1>4. Len(a) = IF rpc[s] = "push" THEN 1 ELSE 0
  BY <1>1, EmptySeq DEF InHand
<1>5. Len(c) = Stamping(Other(s))
  BY <1>1, EmptySeq DEF Made, Stamping
<1>6. Len(b) \in Nat /\ committedVTS[s][Other(s)] \in Nat
  BY SitesFacts, LenProperties DEF TypeOK
<1>7. committedVTS[Other(s)][Other(s)] =
          committedVTS[s][Other(s)] + Len(b) + Applying(s) + Stamping(Other(s))
  BY <1>1 DEF SeqnoConservation
<1>8. Stamping(Other(s)) \in {0, 1}
  BY DEF Stamping
<1>9. Len(Way(s)) = Len(a) + Len(b) + Stamping(Other(s))
  BY <1>1, <1>2, <1>3, <1>5 DEF Way
<1>10. PICK n \in {0, 1} : n = IF rpc[s] \in {"unlock", "count"} THEN 1 ELSE 0
  OBVIOUS
<1>11. Applying(s) = Len(a) + n /\ Len(a) \in {0, 1}
  BY <1>4, <1>10 DEF Applying
<1>12. Reach(s, Other(s)) = committedVTS[s][Other(s)] + n
  BY <1>10, SitesFacts DEF Reach
<1>13. Other(s) \in Sites
  BY SitesFacts
<1>14. Len(Way(s)) \in Nat
  BY <1>6, <1>8, <1>9, <1>11
<1>15. Reach(s, Other(s)) + Len(Way(s)) = committedVTS[Other(s)][Other(s)]
  <2>1. PICK v \in Nat, l \in Nat, x \in Nat, y \in Nat :
           /\ v = committedVTS[s][Other(s)] /\ l = Len(b) /\ x = Len(a)
           /\ y = Stamping(Other(s))
    BY <1>6, <1>8, <1>11
  <2>2. /\ Len(Way(s)) = x + l + y /\ Reach(s, Other(s)) = v + n
        /\ committedVTS[Other(s)][Other(s)] = v + l + (x + n) + y
    BY <1>7, <1>9, <1>11, <1>12, <2>1
  <2>3. (v + n) + (x + l + y) = v + l + (x + n) + y
    OBVIOUS
  <2>. QED
    BY <2>2, <2>3
<1>. QED
  BY <1>14, <1>15

\* No site has stored a commit of its peer that the peer has not stamped and
\* stored.
LEMMA ReachBelow ==
    ASSUME TypeOK, SeqnoConservation, NEW s \in Sites
    PROVE  /\ committedVTS[Other(s)][s] <= Reach(s, s)
           /\ Reach(Other(s), s) <= committedVTS[s][s]
           /\ Reach(s, s) <= committedVTS[s][s]
<1>1. committedVTS[s][s] =
          committedVTS[Other(s)][s] + Len(Transit(Other(s))) + Applying(Other(s)) + Stamping(s)
  BY SitesFacts DEF SeqnoConservation
<1>2. /\ Len(Transit(Other(s))) \in Nat
      /\ committedVTS[s][s] \in Nat /\ committedVTS[Other(s)][s] \in Nat
      /\ Applying(Other(s)) \in {0, 1}
  BY TransitType, SitesFacts, LenProperties DEF TypeOK, Applying
<1>3. Stamping(s) \in {0, 1} /\ (pc[s] \in Storing => Stamping(s) = 1)
  BY DEF Stamping, Storing, Stamped
<1>4. Reach(s, s) = committedVTS[s][s] - (IF pc[s] \in Storing THEN 1 ELSE 0)
  BY DEF Reach
<1>5. Reach(Other(s), s) + Len(Way(Other(s))) = committedVTS[s][s] /\ Len(Way(Other(s))) \in Nat
  BY WayLength, SitesFacts
<1>6. Reach(Other(s), s) \in Int
  BY ReachType, SitesFacts
<1>. QED
  BY <1>1, <1>2, <1>3, <1>4, <1>5, <1>6

-----------------------------------------------------------------------------
(***************************************************************************)
(* The steps of DiaryCommit.                                               *)
(***************************************************************************)

\* A step that stores nothing and commits nothing.
LEMMA ReplicaFrame ==
    ASSUME TypeOK, TypeOK', ReplicaInv, UNCHANGED <<history, committed>>,
           \A r \in Sites : Way(r)' = Way(r),
           \A r, t \in Sites : Reach(r, t)' = Reach(r, t),
           \A r \in Sites : /\ committedVTS'[r][r] = committedVTS[r][r]
                            /\ committedVTS[r][Other(r)] <= committedVTS'[r][Other(r)],
           \A r \in Sites : pc'[r] \in Storing => pc[r] \in Storing /\ txn'[r] = txn[r]
    PROVE  ReplicaInv'
<1>. USE DEF ReplicaInv
<1>1. \A t, k : Commits(t, k)' = Commits(t, k)
  BY CommitsSameAs
<1>2. NumbersOnce' /\ NumbersUsed'
  BY <1>1 DEF NumbersOnce, NumbersUsed
<1>3. Reached' /\ Within' /\ Seeded'
  BY <1>1 DEF Reached, Within, Seeded, SeedsFirst, Holds
<1>4. ASSUME NEW r \in Sites, NEW i \in DOMAIN Way(r) PROVE NextOnWay(r, Way(r), i)'
  <2>1. PICK p \in Seq(Message) : p = Way(r) /\ p = Way(r)'
    BY WayParts
  <2>2. NextOnWay(r, p, i)
    BY <1>4, <2>1 DEF OnWay
  <2>3. p[i].ver[r] \in Int
    <3>1. i \in 1..Len(p)
      BY <1>4, <2>1, LenProperties
    <3>2. p[i] \in Message
      BY <3>1, ElementOfSeq
    <3>. QED
      BY <3>2 DEF Message, Version
  <2>4. /\ committedVTS[Other(r)][r] \in Int /\ committedVTS'[Other(r)][r] \in Int
        /\ committedVTS[Other(r)][r] <= committedVTS'[Other(r)][r]
    <3>1. Other(r) \in Sites /\ Other(Other(r)) = r
      BY SitesFacts
    <3>2. committedVTS[Other(r)][r] \in Int /\ committedVTS'[Other(r)][r] \in Int
      BY <3>1 DEF TypeOK
    <3>. QED
      BY <3>1, <3>2
  <2>5. NextOnWay(r, p, i)'
    BY <1>1, <2>2, <2>3, <2>4, SitesFacts DEF NextOnWay
  <2>. QED
    BY <2>1, <2>5 DEF NextOnWay
<1>5. OnWay'
  BY <1>4 DEF OnWay
<1>6. InStore'
  <2>1. SUFFICES ASSUME NEW r \in Sites, pc'[r] \in Storing
                 PROVE  NextToStore(r)'
    BY DEF InStore
  <2>2. NextToStore(r) /\ txn'[r] = txn[r]
    BY <2>1 DEF InStore
  <2>3. txn[r].ver[Other(r)] \in Int
    <3>1. txn[r].ver \in Version
      BY DEF TypeOK
    <3>. QED
      BY <3>1, SitesFacts DEF Version
  <2>4. committedVTS[r][Other(r)] \in Int /\ committedVTS'[r][Other(r)] \in Int
    BY SitesFacts DEF TypeOK
  <2>5. Commits(r, txn[r].key)' = Commits(r, txn[r].key)
    BY <2>2 DEF Commits
  <2>6. /\ committedVTS'[r][r] = committedVTS[r][r]
        /\ txn[r].ver[Other(r)] <= committedVTS'[r][Other(r)]
    BY <2>2, <2>3, <2>4 DEF NextToStore
  <2>. QED
    BY <2>2, <2>5, <2>6 DEF NextToStore
<1>. QED
  BY <1>2, <1>3, <1>5, <1>6

\* The next commit of site t reaches the store of site s.
LEMMA ReplicaStore ==
    ASSUME TypeOK, TypeOK', NumbersOnce, NumbersUsed, Reached, Within, Seeded,
           NEW s \in Sites, NEW t \in Sites, NEW q \in Keys, NEW w \in Version,
           UNCHANGED <<committed, committedVTS>>,
           history' = [history EXCEPT ![s][q] = Append(@, w)],
           w \in Commits(t, q), w[t] = Reach(s, t) + 1, w[Other(t)] <= Reach(s, Other(t)),
           Reach(s, t)' = Reach(s, t) + 1,
           \A r, u \in Sites : r # s \/ u # t => Reach(r, u)' = Reach(r, u)
    PROVE  NumbersOnce' /\ NumbersUsed' /\ Reached' /\ Within' /\ Seeded'
<1>1. \A u, k : Commits(u, k)' = Commits(u, k)
  BY CommitsSameAs
<1>2. NumbersOnce' /\ NumbersUsed'
  BY <1>1 DEF NumbersOnce, NumbersUsed
<1>3. PICK h \in Seq(Version) : h = history[s][q]
  BY DEF TypeOK
<1>4. /\ DOMAIN h = 1..Len(h) /\ Len(h) \in Nat
      /\ Len(Append(h, w)) = Len(h) + 1
      /\ DOMAIN Append(h, w) = 1..(Len(h) + 1)
      /\ \A i \in 1..Len(h) : Append(h, w)[i] = h[i]
      /\ Append(h, w)[Len(h) + 1] = w
  BY AppendFacts
<1>5. /\ history'[s][q] = Append(h, w)
      /\ \A r \in Sites, k \in Keys : r # s \/ k # q => history'[r][k] = history[r][k]
  <2>1. history \in [Sites -> [Keys -> Seq(Version)]]
    BY DEF TypeOK
  <2>2. history'[s][q] = Append(h, w)
    BY <1>3, <2>1
  <2>3. \A r \in Sites, k \in Keys : r # s \/ k # q => history'[r][k] = history[r][k]
    BY <2>1
  <2>. QED
    BY <2>2, <2>3
<1>6. \A r \in Sites, k \in Keys : \A v : Holds(r, k, v) => Holds(r, k, v)'
  BY <1>3, <1>4, <1>5 DEF Holds
<1>7. Holds(s, q, w)'
  BY <1>4, <1>5 DEF Holds
<1>8. \A r, u \in Sites : Reach(r, u) \in Int /\ Reach(r, u)' \in Int
  BY ReachType
<1>9. ASSUME NEW u \in Sites PROVE w[u] <= Reach(s, u)' /\ w[u] \in Int
  <2>1. w[u] \in Int
    BY DEF Version
  <2>2. CASE u = t
    BY <1>8, <2>1, <2>2
  <2>3. CASE u # t
    <3>1. u = Other(t) /\ Reach(s, u)' = Reach(s, u)
      BY <2>3, SitesFacts
    <3>. QED
      BY <2>1, <3>1
  <2>. QED
    BY <2>2, <2>3
<1>10. Reached'
  <2>1. SUFFICES ASSUME NEW r \in Sites, NEW u \in Sites, NEW k \in Keys,
                        NEW v \in Commits(u, k), v[u] <= Reach(r, u)'
                 PROVE  Holds(r, k, v)'
    BY <1>1 DEF Reached
  <2>2. v[u] \in Int
    BY CommitsFacts DEF Version
  <2>3. CASE v[u] <= Reach(r, u)
    BY <1>6, <2>3 DEF Reached
  <2>4. CASE ~ v[u] <= Reach(r, u)
    <3>1. r = s /\ u = t
      BY <2>1, <2>4
    <3>2. v[u] <= Reach(s, t) + 1 /\ ~ v[u] <= Reach(s, t) /\ Reach(s, t) \in Int
      BY <1>8, <2>1, <2>4, <3>1
    <3>3. v[u] = w[t]
      BY <2>2, <3>2
    <3>4. k = q /\ v = w
      BY <3>1, <3>3 DEF NumbersOnce
    <3>. QED
      BY <1>7, <3>1, <3>4
  <2>. QED
    BY <2>3, <2>4
<1>11. Within'
  <2>1. SUFFICES ASSUME NEW r \in Sites, NEW u \in Sites, NEW k \in Keys,
                        NEW i \in DOMAIN history'[r][k]
                 PROVE  history'[r][k][i][u] <= Reach(r, u)'
    BY DEF Within
  <2>2. Reach(r, u) <= Reach(r, u)' /\ Reach(r, u) \in Int /\ Reach(r, u)' \in Int
    <3>1. Reach(r, u) \in Int /\ Reach(r, u)' \in Int
      BY <1>8
    <3>2. CASE r = s /\ u = t
      BY <3>1, <3>2
    <3>3. CASE r # s \/ u # t
      BY <3>1, <3>3
    <3>. QED
      BY <3>1, <3>2, <3>3
  <2>3. ASSUME i \in DOMAIN history[r][k], history'[r][k][i] = history[r][k][i]
        PROVE  history'[r][k][i][u] <= Reach(r, u)'
    <3>1. history[r][k][i][u] <= Reach(r, u)
      BY <2>3 DEF Within
    <3>2. history[r][k][i][u] \in Int
      BY <2>3, EntryType DEF Version
    <3>. QED
      BY <2>2, <2>3, <3>1, <3>2
  <2>4. CASE r # s \/ k # q
    BY <1>5, <2>1, <2>3, <2>4
  <2>5. CASE r = s /\ k = q /\ i = Len(h) + 1
    BY <1>4, <1>5, <1>9, <2>5
  <2>6. CASE r = s /\ k = q /\ i # Len(h) + 1
    <3>1. i \in 1..Len(h)
      BY <1>4, <1>5, <2>1, <2>6
    <3>. QED
      BY <1>3, <1>4, <1>5, <2>3, <2>6, <3>1
  <2>. QED
    BY <2>4, <2>5, <2>6
<1>12. SeedsFirst(Append(h, w), q)
  <2>1. Len(Seed(q)) \in Nat
    BY SeedFacts
  <2>2. /\ Len(Seed(q)) <= Len(h)
        /\ \A i \in 1..Len(Seed(q)) : h[i] = Zero
        /\ \A i \in (Len(Seed(q)) + 1)..Len(h) :
              /\ \E u \in Sites : h[i] \in Commits(u, q)
              /\ \A j \in 1..(i - 1) : ~ Leq(h[i], h[j])
    BY <1>3 DEF Seeded, SeedsFirst
  <2>3. \A j \in 1..Len(h) : ~ Leq(w, h[j])
    <3>1. SUFFICES ASSUME NEW j \in 1..Len(h) PROVE ~ w[t] <= h[j][t]
      BY DEF Leq
    <3>2. h[j][t] <= Reach(s, t)
      BY <1>3, <1>4 DEF Within
    <3>3. h[j][t] \in Int
      BY <1>3, <1>4, EntryType DEF Version
    <3>. QED
      BY <1>8, <3>2, <3>3
  <2>4. ASSUME NEW i \in (Len(Seed(q)) + 1)..(Len(h) + 1)
        PROVE  /\ \E u \in Sites : Append(h, w)[i] \in Commits(u, q)
               /\ \A j \in 1..(i - 1) : ~ Leq(Append(h, w)[i], Append(h, w)[j])
    <3>1. CASE i = Len(h) + 1
      <4>1. i - 1 = Len(h) /\ Append(h, w)[i] = w
        BY <1>4, <3>1
      <4>2. \A j \in 1..(i - 1) : Append(h, w)[j] = h[j]
        BY <1>4, <4>1
      <4>. QED
        BY <2>3, <4>1, <4>2
    <3>2. CASE i # Len(h) + 1
      <4>1. /\ i \in (Len(Seed(q)) + 1)..Len(h) /\ i \in 1..Len(h)
            /\ \A j \in 1..(i - 1) : j \in 1..Len(h)
        BY <1>4, <2>1, <2>4, <3>2
      <4>2. Append(h, w)[i] = h[i] /\ \A j \in 1..(i - 1) : Append(h, w)[j] = h[j]
        BY <1>4, <4>1
      <4>. QED
        BY <2>2, <4>1, <4>2
    <3>. QED
      BY <3>1, <3>2
  <2>5. \A i \in 1..Len(Seed(q)) : Append(h, w)[i] = Zero
    BY <1>4, <2>1, <2>2
  <2>6. Len(Seed(q)) <= Len(Append(h, w))
    BY <1>4, <2>1, <2>2
  <2>. QED
    BY <1>4, <2>4, <2>5, <2>6 DEF SeedsFirst
<1>13. Seeded'
  <2>1. SUFFICES ASSUME NEW r \in Sites, NEW k \in Keys
                 PROVE  SeedsFirst(history[r][k], k)'
    BY DEF Seeded
  <2>2. SeedsFirst(history'[r][k], k)
    BY <1>5, <1>12 DEF Seeded
  <2>3. Seed(k)' = Seed(k)
    BY DEF Seed
  <2>. QED
    BY <1>1, <2>2, <2>3 DEF SeedsFirst
<1>. QED
  BY <1>2, <1>10, <1>11, <1>13

\* The handler of a site stores the commit it has stamped.
LEMMA PushReplica ==
    ASSUME TypeOK, TypeOK', SeqnoConservation, ReplicaInv, NEW s \in Sites,
           FastPush(s) \/ SlowPush(s)
    PROVE  ReplicaInv'
<1>. USE DEF ReplicaInv
<1>1. PICK q \in Keys, w \in Version : q = txn[s].key /\ w = txn[s].ver
  BY DEF TypeOK
<1>2. /\ UNCHANGED <<txn, net, msg_list, rpc, rep_msg, committed, committedVTS>>
      /\ history' = [history EXCEPT ![s][q] = Append(@, w)]
      /\ \/ pc[s] = "fast_push" /\ pc'[s] = "fast_queue"
         \/ pc[s] = "slow_push" /\ pc'[s] = "slow_queue"
      /\ pc'[Other(s)] = pc[Other(s)]
  BY <1>1, SitesFacts, PcType DEF FastPush, SlowPush, Push
<1>3. \A r \in Sites : Way(r)' = Way(r)
  <2>1. \A r \in Sites : InHand(r)' = InHand(r) /\ Transit(r)' = Transit(r)
    BY <1>2, TransitSame DEF InHand
  <2>2. \A r \in Sites : Made(r)' = Made(r)
    BY <1>2, MadeSame, SitesFacts
  <2>. QED
    BY <2>1, <2>2, WaySame
<1>4. NextToStore(s) /\ pc[s] \in Storing /\ pc'[s] \notin Storing
  BY <1>2 DEF InStore, Storing
<1>5. committedVTS[s][s] \in Nat
  BY DEF TypeOK
<1>6. Reach(s, s) = committedVTS[s][s] - 1 /\ Reach(s, s)' = committedVTS[s][s]
  <2>1. Reach(s, s)' = committedVTS'[s][s] - 0
    BY <1>4 DEF Reach
  <2>. QED
    BY <1>2, <1>4, <1>5, <2>1 DEF Reach
<1>7. \A r, u \in Sites : r # s \/ u # s => Reach(r, u)' = Reach(r, u)
  BY <1>2, SitesFacts DEF Reach
<1>8. w[s] = Reach(s, s) + 1 /\ Reach(s, s)' = Reach(s, s) + 1 /\ w \in Commits(s, q)
  BY <1>1, <1>4, <1>5, <1>6 DEF NextToStore
<1>9. w[Other(s)] <= Reach(s, Other(s))
  <2>1. w[Other(s)] <= committedVTS[s][Other(s)]
    BY <1>1, <1>4 DEF NextToStore
  <2>2. Other(s) \in Sites /\ Other(s) # s
    BY SitesFacts
  <2>3. w[Other(s)] \in Int
    BY <2>2 DEF Version
  <2>4. committedVTS[s][Other(s)] \in Nat
    BY <2>2 DEF TypeOK
  <2>. QED
    BY <2>1, <2>2, <2>3, <2>4 DEF Reach
<1>10. NumbersOnce' /\ NumbersUsed' /\ Reached' /\ Within' /\ Seeded'
  BY <1>2, <1>7, <1>8, <1>9, ReplicaStore
<1>11. \A t, k : Commits(t, k)' = Commits(t, k)
  BY <1>2, CommitsSameAs
<1>12. OnWay'
  <2>1. SUFFICES ASSUME NEW r \in Sites, NEW i \in DOMAIN Way(r)
                 PROVE  NextOnWay(r, Way(r), i)'
    BY <1>3 DEF OnWay
  <2>2. NextOnWay(r, Way(r), i) /\ Way(r)' = Way(r)
    BY <1>3, <2>1 DEF OnWay
  <2>3. Reach(r, Other(r))' = Reach(r, Other(r))
    BY <1>7, SitesFacts
  <2>. QED
    BY <1>2, <1>11, <2>2, <2>3 DEF NextOnWay
<1>13. InStore'
  <2>1. SUFFICES ASSUME NEW r \in Sites, pc'[r] \in Storing PROVE NextToStore(r)'
    BY DEF InStore
  <2>2. r = Other(s) /\ pc[r] \in Storing
    BY <1>2, <1>4, <2>1, SitesFacts
  <2>3. NextToStore(r)
    BY <2>2, SitesFacts DEF InStore
  <2>. QED
    BY <1>2, <1>11, <2>3 DEF NextToStore
<1>. QED
  BY <1>10, <1>12, <1>13

\* The replicater of a site stores the first commit of the way.
LEMMA ApplyReplica ==
    ASSUME TypeOK, TypeOK', SeqnoConservation, ReplicaInv, NEW s \in Sites, RepPush(s)
    PROVE  ReplicaInv'
<1>. USE DEF ReplicaInv
<1>1. PICK q \in Keys, w \in Version : q = rep_msg[s].key /\ w = rep_msg[s].ver
  BY DEF TypeOK, Message
<1>2. /\ UNCHANGED <<pc, txn, committed, committedVTS>>
      /\ history' = [history EXCEPT ![s][q] = Append(@, w)]
      /\ rpc[s] = "push" /\ rpc'[s] \in {"unlock", "count"}
      /\ rpc'[Other(s)] = rpc[Other(s)]
  BY <1>1, SitesFacts DEF TypeOK, RepPush, AfterPush
<1>3. PICK p \in Seq(Message) : p = Way(s)
  BY WayParts
<1>4. /\ p # <<>> /\ Head(p) = rep_msg[s]
      /\ Way(s)' = Tail(p) /\ Way(Other(s))' = Way(Other(s))
  BY <1>3, WayApply
<1>5. /\ DOMAIN p = 1..Len(p) /\ Len(p) \in Nat \ {0}
      /\ DOMAIN Tail(p) = 1..(Len(p) - 1)
      /\ \A i \in 1..(Len(p) - 1) : Tail(p)[i] = p[i + 1]
      /\ Head(p) = p[1]
  BY <1>4, TailFacts
<1>6. NextOnWay(s, p, 1)
  BY <1>3, <1>5 DEF OnWay
<1>7. Other(s) \in Sites /\ Other(s) # s /\ Other(Other(s)) = s
  BY SitesFacts
<1>8. committedVTS[s][Other(s)] \in Nat /\ committedVTS[Other(s)][s] \in Nat
  BY <1>7 DEF TypeOK
<1>9. /\ Reach(s, Other(s)) = committedVTS[s][Other(s)]
      /\ Reach(s, Other(s))' = committedVTS[s][Other(s)] + 1
  <2>1. Reach(s, Other(s))' = committedVTS'[s][Other(s)] + 1
    BY <1>2, <1>7 DEF Reach
  <2>. QED
    BY <1>2, <1>7, <1>8, <2>1 DEF Reach
<1>10. \A r, u \in Sites : r # s \/ u # Other(s) => Reach(r, u)' = Reach(r, u)
  BY <1>2, SitesFacts DEF Reach
<1>11. /\ w \in Commits(Other(s), q)
       /\ w[Other(s)] = Reach(s, Other(s)) + 1
       /\ Reach(s, Other(s))' = Reach(s, Other(s)) + 1
  BY <1>1, <1>4, <1>5, <1>6, <1>9 DEF NextOnWay
<1>12. w[Other(Other(s))] <= Reach(s, Other(Other(s)))
  <2>1. w[s] <= committedVTS[Other(s)][s]
    BY <1>1, <1>4, <1>5, <1>6 DEF NextOnWay
  <2>2. committedVTS[Other(s)][s] <= Reach(s, s)
    BY ReachBelow
  <2>3. w[s] \in Int /\ Reach(s, s) \in Int
    BY ReachType DEF Version
  <2>. QED
    BY <1>7, <1>8, <2>1, <2>2, <2>3
<1>13. NumbersOnce' /\ NumbersUsed' /\ Reached' /\ Within' /\ Seeded'
  BY <1>2, <1>7, <1>10, <1>11, <1>12, ReplicaStore
<1>14. \A t, k : Commits(t, k)' = Commits(t, k)
  BY <1>2, CommitsSameAs
<1>15. ASSUME NEW i \in DOMAIN Tail(p) PROVE NextOnWay(s, Tail(p), i)'
  <2>1. i \in Nat /\ i + 1 \in DOMAIN p /\ Tail(p)[i] = p[i + 1]
    BY <1>5, <1>15
  <2>2. NextOnWay(s, p, i + 1)
    BY <1>3, <2>1 DEF OnWay
  <2>3. Reach(s, Other(s)) + (i + 1) = (Reach(s, Other(s)) + 1) + i
    BY <1>8, <1>9, <2>1
  <2>4. /\ p[i + 1].ver \in Commits(Other(s), p[i + 1].key)
        /\ p[i + 1].ver[Other(s)] = Reach(s, Other(s))' + i
        /\ p[i + 1].ver[s] <= committedVTS[Other(s)][s]
    BY <1>11, <2>2, <2>3 DEF NextOnWay
  <2>. QED
    BY <1>2, <1>14, <2>1, <2>4 DEF NextOnWay
<1>16. ASSUME NEW i \in DOMAIN Way(Other(s)) PROVE NextOnWay(Other(s), Way(Other(s)), i)'
  <2>1. NextOnWay(Other(s), Way(Other(s)), i)
    BY <1>7, <1>16 DEF OnWay
  <2>2. Reach(Other(s), s)' = Reach(Other(s), s)
    BY <1>7, <1>10
  <2>. QED
    BY <1>2, <1>4, <1>7, <1>14, <2>1, <2>2 DEF NextOnWay
<1>17. OnWay'
  <2>1. SUFFICES ASSUME NEW r \in Sites, NEW i \in DOMAIN Way(r)'
                 PROVE  NextOnWay(r, Way(r), i)'
    BY DEF OnWay
  <2>2. CASE r = s
    <3>1. NextOnWay(s, Tail(p), i)'
      BY <1>4, <1>15, <2>1, <2>2
    <3>. QED
      BY <1>4, <2>2, <3>1 DEF NextOnWay
  <2>3. CASE r = Other(s)
    BY <1>4, <1>16, <2>1, <2>3
  <2>. QED
    BY <2>2, <2>3, SitesFacts
<1>18. InStore'
  BY <1>2, <1>14 DEF InStore, NextToStore
<1>. QED
  BY <1>13, <1>17, <1>18

\* A commit takes the next number of its site.
LEMMA StampReplica ==
    ASSUME TypeOK, TypeOK', SeqnoConservation, ReplicaInv, NEW s \in Sites, NEW next,
           \/ pc[s] = "fast_stamp" /\ next = "fast_push"
           \/ pc[s] = "slow_stamp" /\ next = "slow_push",
           StampVTS(s, next)
    PROVE  ReplicaInv'
<1>. USE DEF ReplicaInv
<1>1. Other(s) \in Sites /\ Other(s) # s /\ Other(Other(s)) = s
  BY SitesFacts
<1>2. PICK q \in Keys, vts \in Version :
         /\ q = txn[s].key
         /\ vts[s] = committedVTS[s][s] + 1 /\ vts[Other(s)] = committedVTS[s][Other(s)]
         /\ vts = NextVTS(s)
  <2>1. txn[s].key \in Keys /\ committedVTS[s] \in [Sites -> Nat]
    BY DEF TypeOK
  <2>2. [committedVTS[s] EXCEPT ![s] = @ + 1] \in Version
    BY <2>1 DEF Version
  <2>. QED
    BY <1>1, <2>1, <2>2 DEF NextVTS
<1>3. PICK c \in Commit : c = [site |-> s, base |-> txn[s].startTs, ver |-> vts]
  <2>1. txn[s].startTs \in Version
    BY DEF TypeOK
  <2>. QED
    BY <2>1 DEF Commit
<1>4. /\ committedVTS'[s] = vts /\ committedVTS'[Other(s)] = committedVTS[Other(s)]
      /\ txn'[s].key = q /\ txn'[s].ver = vts /\ txn'[Other(s)] = txn[Other(s)]
      /\ committed'[q] = Append(committed[q], c)
      /\ \A k \in Keys : k # q => committed'[k] = committed[k]
      /\ pc'[s] = next /\ pc'[Other(s)] = pc[Other(s)]
      /\ UNCHANGED <<history, rpc>>
  <2>1. /\ committedVTS' = [committedVTS EXCEPT ![s] = vts]
        /\ txn' = [txn EXCEPT ![s].ver = vts]
        /\ committed' = [committed EXCEPT ![q] = Append(@, c)]
        /\ pc' = [pc EXCEPT ![s] = next]
        /\ UNCHANGED <<history, rpc>>
    BY <1>2, <1>3 DEF StampVTS
  <2>2. txn'[s].key = q /\ txn'[s].ver = vts /\ txn'[Other(s)] = txn[Other(s)]
    BY <1>1, <1>2, <2>1 DEF TypeOK
  <2>3. /\ committed'[q] = Append(committed[q], c)
        /\ \A k \in Keys : k # q => committed'[k] = committed[k]
    BY <2>1 DEF TypeOK
  <2>4. /\ committedVTS'[s] = vts /\ committedVTS'[Other(s)] = committedVTS[Other(s)]
        /\ pc'[s] = next /\ pc'[Other(s)] = pc[Other(s)]
    BY <1>1, <2>1 DEF TypeOK
  <2>. QED
    BY <2>1, <2>2, <2>3, <2>4
<1>5. PICK m \in Message : m = MadeMsg(s)'
  BY WayStamp
<1>6. Way(Other(s))' = Append(Way(Other(s)), m) /\ Way(s)' = Way(s)
      /\ m.key = q /\ m.ver = vts
  BY <1>4, <1>5, WayStamp DEF MadeMsg
<1>7. \A r, u \in Sites : Reach(r, u)' = Reach(r, u)
  <2>1. Reach(s, s)' = Reach(s, s)
    <3>1. Reach(s, s)' = committedVTS'[s][s] - 1
      BY <1>4 DEF Reach, Storing
    <3>2. Reach(s, s) = committedVTS[s][s] - 0
      BY DEF Reach, Storing
    <3>3. committedVTS[s][s] \in Nat
      BY DEF TypeOK
    <3>4. committedVTS'[s][s] = committedVTS[s][s] + 1
      BY <1>2, <1>4
    <3>. QED
      BY <3>1, <3>2, <3>3, <3>4
  <2>2. Reach(s, Other(s))' = Reach(s, Other(s))
    BY <1>1, <1>2, <1>4 DEF Reach
  <2>3. \A u \in Sites : Reach(Other(s), u)' = Reach(Other(s), u)
    BY <1>1, <1>4 DEF Reach
  <2>. QED
    BY <2>1, <2>2, <2>3, SitesFacts
<1>8. PICK cs \in Seq(Commit) : cs = committed[q]
  BY DEF TypeOK
<1>9. /\ DOMAIN cs = 1..Len(cs) /\ Len(cs) \in Nat
      /\ DOMAIN Append(cs, c) = 1..(Len(cs) + 1)
      /\ \A i \in 1..Len(cs) : Append(cs, c)[i] = cs[i]
      /\ Append(cs, c)[Len(cs) + 1] = c
  BY AppendFacts
<1>10. Commits(s, q)' = Commits(s, q) \cup {vts}
  <2>1. Commits(s, q)' = {Append(cs, c)[j].ver :
                             j \in {i \in 1..(Len(cs) + 1) : Append(cs, c)[i].site = s}}
    BY <1>4, <1>8, <1>9 DEF Commits
  <2>2. Commits(s, q) = {cs[j].ver : j \in {i \in 1..Len(cs) : cs[i].site = s}}
    BY <1>8, <1>9 DEF Commits
  <2>3. ASSUME NEW v \in Commits(s, q)' PROVE v \in Commits(s, q) \cup {vts}
    <3>1. PICK j \in 1..(Len(cs) + 1) :
             Append(cs, c)[j].site = s /\ v = Append(cs, c)[j].ver
      BY <2>1, <2>3
    <3>2. CASE j = Len(cs) + 1
      BY <1>3, <1>9, <3>1, <3>2
    <3>3. CASE j # Len(cs) + 1
      <4>1. j \in 1..Len(cs)
        BY <1>9, <3>3
      <4>. QED
        BY <1>9, <2>2, <3>1, <4>1
    <3>. QED
      BY <3>2, <3>3
  <2>4. ASSUME NEW v \in Commits(s, q) PROVE v \in Commits(s, q)'
    <3>1. PICK j \in 1..Len(cs) : cs[j].site = s /\ v = cs[j].ver
      BY <2>2, <2>4
    <3>2. j \in 1..(Len(cs) + 1) /\ Append(cs, c)[j] = cs[j]
      BY <1>9
    <3>. QED
      BY <2>1, <3>1, <3>2
  <2>5. vts \in Commits(s, q)'
    <3>1. Len(cs) + 1 \in 1..(Len(cs) + 1) /\ c.site = s /\ c.ver = vts
      BY <1>3, <1>9
    <3>. QED
      BY <1>9, <2>1, <3>1
  <2>. QED
    BY <2>3, <2>4, <2>5
<1>11. Commits(Other(s), q)' = Commits(Other(s), q)
  <2>1. Commits(Other(s), q)' = {Append(cs, c)[j].ver :
                             j \in {i \in 1..(Len(cs) + 1) : Append(cs, c)[i].site = Other(s)}}
    BY <1>4, <1>8, <1>9 DEF Commits, Other
  <2>2. Commits(Other(s), q) = {cs[j].ver : j \in {i \in 1..Len(cs) : cs[i].site = Other(s)}}
    BY <1>8, <1>9 DEF Commits
  <2>3. {i \in 1..(Len(cs) + 1) : Append(cs, c)[i].site = Other(s)} =
           {i \in 1..Len(cs) : cs[i].site = Other(s)}
    <3>1. Append(cs, c)[Len(cs) + 1].site = s
      BY <1>3, <1>9
    <3>2. \A i \in 1..(Len(cs) + 1) : i \in 1..Len(cs) \/ i = Len(cs) + 1
      BY <1>9
    <3>3. \A i \in 1..Len(cs) : i \in 1..(Len(cs) + 1)
      BY <1>9
    <3>. QED
      BY <1>1, <1>9, <3>1, <3>2, <3>3
  <2>. QED
    BY <1>9, <2>1, <2>2, <2>3
<1>12. \A t, k : t \in Sites /\ k \in Keys /\ (t # s \/ k # q) => Commits(t, k)' = Commits(t, k)
  <2>1. \A t \in Sites, k \in Keys : k # q => Commits(t, k)' = Commits(t, k)
    BY <1>4 DEF Commits
  <2>. QED
    BY <1>11, <2>1, SitesFacts
<1>13. \A t \in Sites, k \in Keys : \A v :
          v \in Commits(t, k)' => v \in Commits(t, k) \/ (t = s /\ k = q /\ v = vts)
  BY <1>10, <1>12
<1>14. \A t \in Sites, k \in Keys : Commits(t, k) \subseteq Commits(t, k)'
  BY <1>10, <1>12
<1>15. committedVTS[s][s] \in Nat /\ committedVTS[s][Other(s)] \in Nat
       /\ committedVTS[Other(s)][s] \in Nat
  BY <1>1 DEF TypeOK
<1>16. \A k \in Keys : \A v \in Commits(s, k) : v[s] # vts[s]
  <2>1. SUFFICES ASSUME NEW k \in Keys, NEW v \in Commits(s, k) PROVE v[s] # vts[s]
    OBVIOUS
  <2>2. v[s] <= committedVTS[s][s]
    BY DEF NumbersUsed
  <2>3. v[s] \in Int
    BY CommitsFacts DEF Version
  <2>. QED
    BY <1>2, <1>15, <2>2, <2>3
<1>17. NumbersOnce'
  BY <1>13, <1>16 DEF NumbersOnce
<1>18. NumbersUsed'
  <2>1. SUFFICES ASSUME NEW t \in Sites, NEW k \in Keys, NEW v \in Commits(t, k)'
                 PROVE  0 < v[t] /\ v[t] <= committedVTS'[t][t]
    BY DEF NumbersUsed
  <2>2. CASE v \in Commits(t, k)
    <3>1. 0 < v[t] /\ v[t] <= committedVTS[t][t] /\ v[t] \in Int
      BY <2>2, CommitsFacts DEF NumbersUsed, Version
    <3>2. CASE t = s
      BY <1>2, <1>4, <1>15, <3>1, <3>2
    <3>3. CASE t = Other(s)
      BY <1>4, <3>1, <3>3
    <3>. QED
      BY <3>2, <3>3, SitesFacts
  <2>3. CASE t = s /\ k = q /\ v = vts
    BY <1>2, <1>4, <1>15, <2>3
  <2>. QED
    BY <1>13, <2>1, <2>2, <2>3
<1>19. Reached'
  <2>1. SUFFICES ASSUME NEW r \in Sites, NEW t \in Sites, NEW k \in Keys,
                        NEW v \in Commits(t, k)', v[t] <= Reach(r, t)
                 PROVE  Holds(r, k, v)
    BY <1>4, <1>7 DEF Reached, Holds
  <2>2. CASE v \in Commits(t, k)
    BY <2>1, <2>2 DEF Reached
  <2>3. CASE t = s /\ k = q /\ v = vts
    <3>1. Reach(r, s) <= committedVTS[s][s] /\ Reach(r, s) \in Int
      BY <1>1, ReachBelow, ReachType, SitesFacts
    <3>. QED
      BY <1>2, <1>15, <2>1, <2>3, <3>1
  <2>. QED
    BY <1>13, <2>1, <2>2, <2>3
<1>20. Within'
  BY <1>4, <1>7 DEF Within
<1>21. Seeded'
  <2>1. SUFFICES ASSUME NEW r \in Sites, NEW k \in Keys
                 PROVE  SeedsFirst(history[r][k], k)'
    BY DEF Seeded
  <2>2. SeedsFirst(history[r][k], k) /\ history'[r][k] = history[r][k] /\ Seed(k)' = Seed(k)
    BY <1>4 DEF Seeded, Seed
  <2>. QED
    BY <1>14, <2>2 DEF SeedsFirst
<1>22. OnWay'
  <2>1. PICK p \in Seq(Message), z \in Seq(Message) : p = Way(Other(s)) /\ z = Way(s)
    BY <1>1, WayParts
  <2>2. /\ DOMAIN p = 1..Len(p) /\ Len(p) \in Nat
        /\ DOMAIN Append(p, m) = 1..(Len(p) + 1)
        /\ \A i \in 1..Len(p) : Append(p, m)[i] = p[i]
        /\ Append(p, m)[Len(p) + 1] = m
    BY AppendFacts
  <2>3. \A i \in DOMAIN z : z[i].key \in Keys
    <3>1. \A i \in DOMAIN z : z[i] \in Message
      BY ElementOfSeq, LenProperties
    <3>. QED
      BY <3>1 DEF Message
  <2>4. \A i \in DOMAIN p : p[i].key \in Keys /\ p[i].ver \in Version
    <3>1. \A i \in DOMAIN p : p[i] \in Message
      BY ElementOfSeq, LenProperties
    <3>. QED
      BY <3>1 DEF Message
  <2>5. ASSUME NEW i \in DOMAIN z PROVE NextOnWay(s, z, i)'
    <3>1. NextOnWay(s, z, i)
      BY <2>1, <2>5 DEF OnWay
    <3>2. Reach(s, Other(s))' = Reach(s, Other(s))
      BY <1>1, <1>7
    <3>3. z[i].ver \in Commits(Other(s), z[i].key)'
      BY <1>1, <1>14, <2>3, <2>5, <3>1 DEF NextOnWay
    <3>. QED
      BY <1>4, <3>1, <3>2, <3>3 DEF NextOnWay
  <2>6. ASSUME NEW i \in 1..Len(p) PROVE NextOnWay(Other(s), Append(p, m), i)'
    <3>1. NextOnWay(Other(s), p, i)
      BY <1>1, <2>1, <2>2, <2>6 DEF OnWay
    <3>2. Reach(Other(s), s)' = Reach(Other(s), s)
      BY <1>1, <1>7
    <3>3. p[i].ver \in Commits(s, p[i].key)'
      BY <1>1, <1>14, <2>2, <2>4, <2>6, <3>1 DEF NextOnWay
    <3>4. committedVTS'[s][Other(s)] = committedVTS[s][Other(s)] /\ Append(p, m)[i] = p[i]
      BY <1>2, <1>4, <2>2, <2>6
    <3>. QED
      BY <1>1, <3>1, <3>2, <3>3, <3>4 DEF NextOnWay
  <2>7. NextOnWay(Other(s), Append(p, m), Len(p) + 1)'
    <3>1. Reach(Other(s), s) + Len(p) = committedVTS[s][s]
      BY <1>1, <2>1, WayLength
    <3>2. Reach(Other(s), s) \in Int /\ Reach(Other(s), s)' = Reach(Other(s), s)
      BY <1>1, <1>7, ReachType
    <3>3. vts[s] = Reach(Other(s), s)' + (Len(p) + 1)
      BY <1>2, <2>2, <3>1, <3>2
    <3>4. vts[Other(s)] <= committedVTS'[s][Other(s)]
      BY <1>2, <1>4, <1>15
    <3>5. vts \in Commits(s, q)'
      BY <1>10
    <3>. QED
      BY <1>1, <1>6, <2>2, <3>3, <3>4, <3>5 DEF NextOnWay
  <2>8. ASSUME NEW i \in DOMAIN Append(p, m) PROVE NextOnWay(Other(s), Append(p, m), i)'
    BY <2>2, <2>6, <2>7, <2>8
  <2>9. ASSUME NEW r \in Sites, NEW i \in DOMAIN Way(r)' PROVE NextOnWay(r, Way(r), i)'
    <3>1. CASE r = s
      <4>1. NextOnWay(s, z, i)'
        BY <1>6, <2>1, <2>5, <2>9, <3>1
      <4>. QED
        BY <1>6, <2>1, <3>1, <4>1 DEF NextOnWay
    <3>2. CASE r = Other(s)
      <4>1. NextOnWay(Other(s), Append(p, m), i)'
        BY <1>6, <2>1, <2>8, <2>9, <3>2
      <4>. QED
        BY <1>6, <2>1, <3>2, <4>1 DEF NextOnWay
    <3>. QED
      BY <3>1, <3>2, SitesFacts
  <2>. QED
    BY <2>9 DEF OnWay
<1>23. InStore'
  <2>1. NextToStore(s)'
    <3>1. vts \in Commits(s, q)'
      BY <1>10
    <3>. QED
      BY <1>2, <1>4, <1>15, <3>1 DEF NextToStore
  <2>2. ASSUME pc'[Other(s)] \in Storing PROVE NextToStore(Other(s))'
    <3>1. NextToStore(Other(s))
      BY <1>1, <1>4, <2>2 DEF InStore
    <3>2. PICK k \in Keys : k = txn[Other(s)].key
      BY <1>1 DEF TypeOK
    <3>3. txn[Other(s)].ver \in Commits(Other(s), k)'
      BY <1>1, <1>14, <3>1, <3>2 DEF NextToStore
    <3>. QED
      BY <1>4, <3>1, <3>2, <3>3 DEF NextToStore
  <2>. QED
    BY <2>1, <2>2, SitesFacts DEF InStore
<1>. QED
  BY <1>17, <1>18, <1>19, <1>20, <1>21, <1>22, <1>23

\* A step of a handler that commits nothing and stores nothing.
LEMMA HandlerReplica ==
    ASSUME TypeOK, TypeOK', ReplicaInv, NEW s \in Sites,
           UNCHANGED <<history, committed, committedVTS, net, msg_list, rpc, rep_msg>>,
           pc'[Other(s)] = pc[Other(s)], txn'[Other(s)] = txn[Other(s)],
           \/ pc'[s] = pc[s] /\ txn'[s] = txn[s]
           \/ pc[s] \notin Stamped /\ pc'[s] \notin Stamped
    PROVE  ReplicaInv'
<1>1. \A r \in Sites : Way(r)' = Way(r)
  <2>1. \A r \in Sites : InHand(r)' = InHand(r) /\ Transit(r)' = Transit(r)
    BY TransitSame DEF InHand
  <2>2. \A r \in Sites : Made(r)' = Made(r)
    BY MadeSame, SitesFacts
  <2>. QED
    BY <2>1, <2>2, WaySame
<1>2. \A r \in Sites : pc'[r] \in Storing => pc[r] \in Storing /\ txn'[r] = txn[r]
  BY SitesFacts DEF Storing, Stamped
<1>3. \A r \in Sites : pc[r] \in Storing <=> pc'[r] \in Storing
  BY SitesFacts DEF Storing, Stamped
<1>4. \A r, t \in Sites : Reach(r, t)' = Reach(r, t)
  BY <1>3 DEF Reach
<1>5. \A r \in Sites : committedVTS[r][Other(r)] \in Nat
  BY SitesFacts DEF TypeOK
<1>. QED
  BY <1>1, <1>2, <1>4, <1>5, ReplicaFrame

\* A step of the replicater that stores nothing.
LEMMA LoopReplica ==
    ASSUME TypeOK, TypeOK', ReplicaInv, UNCHANGED <<history, committed, committedVTS, pc, txn>>,
           \A r \in Sites : Way(r)' = Way(r),
           \A r \in Sites : rpc'[r] \in {"unlock", "count"} <=> rpc[r] \in {"unlock", "count"}
    PROVE  ReplicaInv'
<1>1. \A r, t \in Sites : Reach(r, t)' = Reach(r, t)
  BY DEF Reach
<1>2. \A r \in Sites : committedVTS[r][Other(r)] \in Nat
  BY SitesFacts DEF TypeOK
<1>. QED
  BY <1>1, <1>2, ReplicaFrame

LEMMA ReplicaNext ==
    ASSUME TypeOK, TypeOK', SeqnoConservation, ReplicaInv, [Next]_vars
    PROVE  ReplicaInv'
<1>1. CASE UNCHANGED vars
  <2>1. \A r \in Sites : Way(r)' = Way(r)
    BY <1>1, TransitSame, InHandSame DEF vars, Sites
  <2>. QED
    BY <1>1, <2>1, LoopReplica DEF vars
<1>2. ASSUME NEW s \in Sites, Request(s) PROVE ReplicaInv'
  <2>1. PICK d \in Diaries : \/ handle_edit_diary(s, d)
                            \/ handle_add_comment(s, d)
                            \/ handle_get_diary_content(s, d)
    BY <1>2 DEF Request
  <2>2. ASSUME NEW r, NEW k, NEW startTs, NEW next, pc[s] = "idle", next \notin Stamped,
               acquire_lock(s, r, k, startTs, next)
        PROVE  ReplicaInv'
    <3>1. /\ UNCHANGED <<history, committed, committedVTS, net, msg_list, rpc, rep_msg>>
          /\ \/ /\ pc' = [pc EXCEPT ![s] = next]
                /\ txn' = [txn EXCEPT ![s] = [key |-> k, startTs |-> startTs, ver |-> startTs]]
             \/ UNCHANGED <<pc, txn>>
      BY <2>2 DEF acquire_lock
    <3>2. /\ pc'[Other(s)] = pc[Other(s)] /\ txn'[Other(s)] = txn[Other(s)]
          /\ pc[s] \notin Stamped /\ pc'[s] \notin Stamped
      BY <2>2, <3>1, SitesFacts, PcType, TxnType DEF Stamped
    <3>. QED
      BY <3>1, <3>2, HandlerReplica
  <2>3. CASE handle_edit_diary(s, d) \/ handle_add_comment(s, d)
    BY <2>2, <2>3
    DEF handle_edit_diary, handle_add_comment, FastAcquire, SlowAcquire, Stamped
  <2>4. CASE handle_get_diary_content(s, d)
    BY <2>4, HandlerReplica DEF handle_get_diary_content
  <2>. QED
    BY <2>1, <2>3, <2>4
<1>3. ASSUME NEW s \in Sites, FastStep(s) \/ SlowStep(s) PROVE ReplicaInv'
  <2>1. CASE FastCheck(s) \/ SlowCheck(s)
    <3>1. /\ UNCHANGED <<history, committed, committedVTS, net, msg_list, rpc, rep_msg, txn>>
          /\ pc'[Other(s)] = pc[Other(s)]
          /\ pc[s] \notin Stamped /\ pc'[s] \notin Stamped
      BY <2>1, SitesFacts, PcType DEF FastCheck, SlowCheck, CheckHistory, Stamped
    <3>. QED
      BY <3>1, HandlerReplica
  <2>2. CASE FastAbort(s) \/ FastDone(s) \/ SlowAbort(s)
    <3>1. /\ UNCHANGED <<history, committed, committedVTS, net, msg_list, rpc, rep_msg, txn>>
          /\ pc'[Other(s)] = pc[Other(s)]
          /\ pc[s] \notin Stamped /\ pc'[s] \notin Stamped
      BY <2>2, SitesFacts, PcType DEF FastAbort, FastDone, SlowAbort, release_lock, Stamped
    <3>. QED
      BY <3>1, HandlerReplica
  <2>3. CASE FastStamp(s) \/ SlowStamp(s)
    BY <2>3, StampReplica DEF FastStamp, SlowStamp
  <2>4. CASE FastPush(s) \/ SlowPush(s)
    BY <2>4, PushReplica
  <2>5. CASE FastQueue(s) \/ SlowQueue(s)
    <3>1. /\ UNCHANGED <<history, committed, committedVTS, txn, rpc>>
          /\ pc'[Other(s)] = pc[Other(s)]
          /\ pc[s] \in {"fast_queue", "slow_queue"} /\ pc'[s] \in {"fast_done", "idle"}
      BY <2>5, SitesFacts DEF TypeOK, FastQueue, SlowQueue, QueueMsg
    <3>2. \A r \in Sites : Way(r)' = Way(r)
      BY <2>5, WayQueue
    <3>3. \A r \in Sites : pc'[r] \in Storing <=> pc[r] \in Storing
      BY <3>1, SitesFacts DEF Storing
    <3>4. \A r, t \in Sites : Reach(r, t)' = Reach(r, t)
      BY <3>1, <3>3 DEF Reach
    <3>5. \A r \in Sites : committedVTS[r][Other(r)] \in Nat
      BY SitesFacts DEF TypeOK
    <3>. QED
      BY <3>1, <3>2, <3>3, <3>4, <3>5, ReplicaFrame
  <2>. QED
    BY <1>3, <2>1, <2>2, <2>3, <2>4, <2>5 DEF FastStep, SlowStep
<1>4. ASSUME NEW s \in Sites, RepStep(s) PROVE ReplicaInv'
  <2>1. CASE RepRecv(s)
    <3>1. /\ UNCHANGED <<history, committed, committedVTS, pc, txn>>
          /\ rpc[s] = "poll" /\ rpc'[s] = "push" /\ rpc'[Other(s)] = rpc[Other(s)]
      BY <2>1, SitesFacts DEF TypeOK, RepRecv
    <3>2. \A r \in Sites : rpc'[r] \in {"unlock", "count"} <=> rpc[r] \in {"unlock", "count"}
      BY <3>1, SitesFacts
    <3>. QED
      BY <2>1, <3>1, <3>2, WayRecv, LoopReplica
  <2>2. CASE RepPush(s)
    BY <2>2, ApplyReplica
  <2>3. CASE RepUnlock(s)
    <3>1. /\ UNCHANGED <<history, committed, committedVTS, pc, txn, rep_msg, net, msg_list>>
          /\ rpc[s] = "unlock" /\ rpc'[s] = "count" /\ rpc'[Other(s)] = rpc[Other(s)]
      BY <2>3, SitesFacts DEF TypeOK, RepUnlock
    <3>2. \A r \in Sites : Way(r)' = Way(r)
      BY <3>1, TransitSame, InHandSame, SitesFacts
    <3>3. \A r \in Sites : rpc'[r] \in {"unlock", "count"} <=> rpc[r] \in {"unlock", "count"}
      BY <3>1, SitesFacts
    <3>. QED
      BY <3>1, <3>2, <3>3, LoopReplica
  <2>4. CASE RepCount(s)
    <3>1. /\ UNCHANGED <<history, committed, pc, txn, rep_msg, net, msg_list>>
          /\ rpc[s] = "count" /\ rpc'[s] = "drain" /\ rpc'[Other(s)] = rpc[Other(s)]
      BY <2>4, SitesFacts DEF TypeOK, RepCount
    <3>2. \A r \in Sites : Way(r)' = Way(r)
      BY <3>1, TransitSame, InHandSame, SitesFacts
    <3>3. /\ committedVTS'[s][s] = committedVTS[s][s]
          /\ committedVTS'[s][Other(s)] = committedVTS[s][Other(s)] + 1
          /\ committedVTS'[Other(s)] = committedVTS[Other(s)]
      BY <2>4, SitesFacts DEF TypeOK, RepCount, PeerVTS
    <3>4. \A r, t \in Sites : committedVTS[r][t] \in Nat
      BY DEF TypeOK
    <3>5. Reach(s, Other(s))' = Reach(s, Other(s))
      <4>1. Reach(s, Other(s))' = committedVTS'[s][Other(s)] + 0
        BY <3>1, SitesFacts DEF Reach
      <4>2. Reach(s, Other(s)) = committedVTS[s][Other(s)] + 1
        BY <3>1, SitesFacts DEF Reach
      <4>. QED
        BY <3>3, <3>4, <4>1, <4>2, SitesFacts
    <3>6. Reach(s, s)' = Reach(s, s) /\ \A t \in Sites : Reach(Other(s), t)' = Reach(Other(s), t)
      BY <3>1, <3>3, SitesFacts DEF Reach
    <3>7. \A r, t \in Sites : Reach(r, t)' = Reach(r, t)
      BY <3>5, <3>6, SitesFacts
    <3>8. \A r \in Sites : /\ committedVTS'[r][r] = committedVTS[r][r]
                           /\ committedVTS[r][Other(r)] <= committedVTS'[r][Other(r)]
      BY <3>3, <3>4, SitesFacts
    <3>. QED
      BY <3>1, <3>2, <3>7, <3>8, ReplicaFrame
  <2>5. CASE RepDrain(s)
    <3>1. /\ UNCHANGED <<history, committed, committedVTS, pc, txn, rep_msg>>
          /\ rpc[s] \in {"poll", "drain"} /\ rpc'[s] = "poll"
          /\ rpc'[Other(s)] = rpc[Other(s)]
      BY <2>5, SitesFacts DEF TypeOK, RepDrain
    <3>2. \A r \in Sites : Way(r)' = Way(r)
      BY <2>5, <3>1, TransitDrain, InHandSame, SitesFacts
    <3>3. \A r \in Sites : rpc'[r] \in {"unlock", "count"} <=> rpc[r] \in {"unlock", "count"}
      BY <3>1, SitesFacts
    <3>. QED
      BY <3>1, <3>2, <3>3, LoopReplica
  <2>. QED
    BY <1>4, <2>1, <2>2, <2>3, <2>4, <2>5 DEF RepStep
<1>. QED
  BY <1>1, <1>2, <1>3, <1>4 DEF Next

LEMMA ReplicaInit == Init => ReplicaInv
<1>. SUFFICES ASSUME Init PROVE ReplicaInv
  OBVIOUS
<1>1. \A t \in Sites, k \in Keys : Commits(t, k) = {}
  BY DEF Init, InitServers, Commits
<1>2. \A s, t \in Sites : Reach(s, t) = 0
  BY DEF Init, InitServers, Reach, Zero, Storing
<1>3. ASSUME NEW s \in Sites PROVE Way(s) = <<>>
  <2>1. <<>> \o <<>> = <<>>
    BY ConcatEmptySeq, EmptySeq
  <2>2. Transit(s) = <<>> /\ InHand(s) = <<>> /\ Made(Other(s)) = <<>>
    BY <2>1, SitesFacts DEF Init, InitServers, Transit, InHand, Made, Stamped
  <2>. QED
    BY <2>1, <2>2 DEF Way
<1>4. \A s \in Sites, k \in Keys : history[s][k] = Seed(k)
  BY DEF Init
<1>5. NumbersOnce /\ NumbersUsed /\ Reached
  BY <1>1 DEF NumbersOnce, NumbersUsed, Reached
<1>6. Within
  <2>1. \A k \in Keys : \A i \in DOMAIN Seed(k) : Seed(k)[i] = Zero
    BY SeedFacts
  <2>2. \A t \in Sites : Zero[t] <= 0
    BY DEF Zero
  <2>. QED
    BY <1>2, <1>4, <2>1, <2>2 DEF Within
<1>7. OnWay
  BY <1>3 DEF OnWay
<1>8. InStore
  BY DEF Init, InitServers, InStore, Storing
<1>9. Seeded
  <2>1. ASSUME NEW k \in Keys PROVE SeedsFirst(Seed(k), k)
    <3>1. Len(Seed(k)) \in Nat /\ \A i \in 1..Len(Seed(k)) : Seed(k)[i] = Zero
      BY SeedFacts
    <3>2. (Len(Seed(k)) + 1)..Len(Seed(k)) = {} /\ Len(Seed(k)) <= Len(Seed(k))
      BY <3>1
    <3>. QED
      BY <3>1, <3>2 DEF SeedsFirst
  <2>. QED
    BY <1>4, <2>1 DEF Seeded
<1>. QED
  BY <1>5, <1>6, <1>7, <1>8, <1>9 DEF ReplicaInv

-----------------------------------------------------------------------------
(***************************************************************************)
(* What follows from it.                                                   *)
(***************************************************************************)
ReplicaSafe == TypeOK /\ SeqnoConservation /\ ReplicaInv

LEMMA ReplicaSafeInit == Init => ReplicaSafe
BY TypeInit, SeqnoInit, ReplicaInit DEF ReplicaSafe

LEMMA ReplicaSafeNext == ReplicaSafe /\ [Next]_vars => ReplicaSafe'
BY TypeNext, SeqnoNext, ReplicaNext DEF ReplicaSafe

LEMMA CausesStored ==
    ASSUME TypeOK, ReplicaInv
    PROVE  CausalReplication
<1>. USE DEF ReplicaInv
<1>1. SUFFICES ASSUME NEW s \in Sites, NEW k \in Keys, NEW i \in DOMAIN history[s][k]
               PROVE  /\ \A k2 \in Keys : \A j \in DOMAIN committed[k2] :
                            Leq(committed[k2][j].ver, history[s][k][i])
                                => Contains(history[s][k2], committed[k2][j].ver)
                      /\ \A j \in 1..(i - 1) :
                            Leq(history[s][k][i], history[s][k][j])
                                => history[s][k][i] = history[s][k][j]
  BY DEF CausalReplication
<1>2. ASSUME NEW k2 \in Keys, NEW j \in DOMAIN committed[k2],
             Leq(committed[k2][j].ver, history[s][k][i])
      PROVE  Contains(history[s][k2], committed[k2][j].ver)
  <2>1. PICK t \in Sites, v \in Version : v \in Commits(t, k2) /\ v = committed[k2][j].ver
    BY CommitsOf, CommitsFacts
  <2>2. v[t] <= history[s][k][i][t]
    BY <1>2, <2>1 DEF Leq
  <2>3. history[s][k][i][t] <= Reach(s, t)
    BY DEF Within
  <2>4. v[t] \in Int /\ history[s][k][i][t] \in Int /\ Reach(s, t) \in Int
    BY CommitsFacts, EntryType, ReachType DEF Version
  <2>5. Holds(s, k2, v)
    <3>1. v[t] <= Reach(s, t)
      BY <2>2, <2>3, <2>4
    <3>. QED
      BY <2>1, <3>1 DEF Reached
  <2>6. DOMAIN history[s][k2] = 1..Len(history[s][k2])
    BY EntryType
  <2>. QED
    BY <2>1, <2>5, <2>6 DEF Holds, Contains
<1>3. ASSUME NEW j \in 1..(i - 1), Leq(history[s][k][i], history[s][k][j])
      PROVE  history[s][k][i] = history[s][k][j]
  <2>1. PICK h \in Seq(Version) : h = history[s][k]
    BY DEF TypeOK
  <2>2. Len(h) \in Nat /\ i \in 1..Len(h) /\ Len(Seed(k)) \in Nat
    BY <2>1, LenProperties, SeedFacts
  <2>3. SeedsFirst(h, k)
    BY <2>1 DEF Seeded
  <2>4. ~ i \in (Len(Seed(k)) + 1)..Len(h)
    BY <1>3, <2>1, <2>3 DEF SeedsFirst
  <2>5. i \in 1..Len(Seed(k)) /\ j \in 1..Len(Seed(k))
    BY <2>2, <2>4
  <2>. QED
    BY <2>1, <2>3, <2>5 DEF SeedsFirst
<1>. QED
  BY <1>2, <1>3

\* Whatever a site shows, it can show everything that came before it: an edit
\* or a comment is stored after all commits its timestamp covers.
THEOREM CausalReplicationCorrect == Spec => []CausalReplication
<1>1. ReplicaSafe => CausalReplication
  BY CausesStored DEF ReplicaSafe
<1>. QED
  BY <1>1, ReplicaSafeInit, ReplicaSafeNext, PTL DEF Spec

-----------------------------------------------------------------------------
\* How often a list holds a version: each seed counts, a commit is there once.
Often(k, v) == IF v = Zero THEN Len(Seed(k)) ELSE 1

LEMMA CommitNotZero ==
    ASSUME TypeOK, NumbersUsed, NEW t \in Sites, NEW k \in Keys, NEW v \in Commits(t, k)
    PROVE  v # Zero /\ v \in Version
<1>1. 0 < v[t] /\ v \in Version
  BY CommitsFacts DEF NumbersUsed
<1>2. Zero[t] = 0
  BY DEF Zero
<1>. QED
  BY <1>1, <1>2

LEMMA StoredOften ==
    ASSUME TypeOK, ReplicaInv, NEW s \in Sites, NEW k \in Keys
    PROVE  ToBag(history[s][k]) = [v \in Range(history[s][k]) |-> Often(k, v)]
<1>. USE DEF ReplicaInv
<1>1. PICK h \in Seq(Version) : h = history[s][k]
  BY DEF TypeOK
<1>2. DOMAIN h = 1..Len(h) /\ Len(h) \in Nat /\ Len(Seed(k)) \in Nat
  BY LenProperties, SeedFacts
<1>3. SeedsFirst(h, k)
  BY <1>1 DEF Seeded
<1>4. /\ Len(Seed(k)) <= Len(h) /\ \A i \in 1..Len(Seed(k)) : h[i] = Zero
      /\ \A i \in (Len(Seed(k)) + 1)..Len(h) : \A j \in 1..(i - 1) : ~ Leq(h[i], h[j])
  BY <1>3 DEF SeedsFirst
<1>5. \A i \in (Len(Seed(k)) + 1)..Len(h) : h[i] # Zero /\ h[i] \in Version
  <2>1. SUFFICES ASSUME NEW i \in (Len(Seed(k)) + 1)..Len(h)
                 PROVE  h[i] # Zero /\ h[i] \in Version
    OBVIOUS
  <2>2. PICK t \in Sites : h[i] \in Commits(t, k)
    BY <1>3 DEF SeedsFirst
  <2>. QED
    BY <2>2, CommitNotZero
<1>6. ASSUME NEW v \in Range(h) PROVE Cardinality({i \in DOMAIN h : h[i] = v}) = Often(k, v)
  <2>1. PICK n \in 1..Len(h) : h[n] = v
    BY <1>2, <1>6 DEF Range
  <2>2. CASE v = Zero
    <3>1. {i \in DOMAIN h : h[i] = v} = 1..Len(Seed(k))
      <4>1. \A i \in 1..Len(h) :
               i \in 1..Len(Seed(k)) \/ i \in (Len(Seed(k)) + 1)..Len(h)
        BY <1>2
      <4>2. \A i \in 1..Len(Seed(k)) : i \in 1..Len(h)
        BY <1>2, <1>4
      <4>. QED
        BY <1>2, <1>4, <1>5, <2>2, <4>1, <4>2
    <3>2. Cardinality(1..Len(Seed(k))) = Len(Seed(k))
      <4>1. PICK m \in Nat : m = Len(Seed(k))
        BY <1>2
      <4>2. m \in Int /\ 1 \in Int
        BY <4>1
      <4>3. Cardinality(1..m) = IF 1 > m THEN 0 ELSE m - 1 + 1
        BY <4>2, FS_Interval
      <4>. QED
        BY <4>1, <4>3
    <3>. QED
      BY <2>2, <3>1, <3>2 DEF Often
  <2>3. CASE v # Zero
    <3>1. \A i \in 1..Len(h) : h[i] = v => i \in (Len(Seed(k)) + 1)..Len(h)
      BY <1>2, <1>4, <2>3
    <3>2. v \in Version
      BY <1>5, <2>1, <3>1
    <3>3. Leq(v, v)
      <4>1. \A t \in Sites : v[t] \in Int
        BY <3>2 DEF Version
      <4>. QED
        BY <4>1 DEF Leq
    <3>4. ASSUME NEW i \in 1..Len(h), NEW j \in 1..Len(h), h[i] = v, h[j] = v, j < i
          PROVE  FALSE
      <4>1. i \in (Len(Seed(k)) + 1)..Len(h) /\ j \in 1..(i - 1)
        BY <3>1, <3>4
      <4>2. ~ Leq(h[i], h[j])
        BY <1>4, <4>1
      <4>. QED
        BY <3>3, <3>4, <4>2
    <3>5. \A i \in 1..Len(h) : h[i] = v => i = n
      <4>1. SUFFICES ASSUME NEW i \in 1..Len(h), h[i] = v, i # n PROVE FALSE
        OBVIOUS
      <4>2. i < n \/ n < i
        BY <1>2, <4>1
      <4>. QED
        BY <2>1, <3>4, <4>1, <4>2
    <3>6. {i \in DOMAIN h : h[i] = v} = {n}
      BY <1>2, <2>1, <3>5
    <3>. QED
      BY <2>3, <3>6, FS_Singleton DEF Often
  <2>. QED
    BY <2>2, <2>3
<1>7. ToBag(h) = [v \in Range(h) |-> Cardinality({i \in DOMAIN h : h[i] = v})]
  BY DEF ToBag
<1>8. ToBag(h) = [v \in Range(h) |-> Often(k, v)]
  BY <1>6, <1>7
<1>. QED
  BY <1>1, <1>8

\* At rest a site has stored all there is.
LEMMA StoredAll ==
    ASSUME TypeOK, SeqnoConservation, ReplicaInv, Quiescent, NEW s \in Sites, NEW k \in Keys
    PROVE  Range(history[s][k]) =
              Range(Seed(k)) \cup {v \in Version : \E t \in Sites : v \in Commits(t, k)}
<1>. USE DEF ReplicaInv
<1>1. PICK h \in Seq(Version) : h = history[s][k]
  BY DEF TypeOK
<1>2. DOMAIN h = 1..Len(h) /\ Len(h) \in Nat /\ Len(Seed(k)) \in Nat
  BY LenProperties, SeedFacts
<1>3. SeedsFirst(h, k)
  BY <1>1 DEF Seeded
<1>4. DOMAIN Seed(k) = 1..Len(Seed(k)) /\ \A i \in 1..Len(Seed(k)) : Seed(k)[i] = Zero
  BY SeedFacts
<1>5. ASSUME NEW v \in Range(h)
      PROVE  v \in Range(Seed(k)) \/ \E t \in Sites : v \in Commits(t, k)
  <2>1. PICK i \in 1..Len(h) : h[i] = v
    BY <1>2, <1>5 DEF Range
  <2>2. CASE i \in 1..Len(Seed(k))
    BY <1>3, <1>4, <2>1, <2>2 DEF SeedsFirst, Range
  <2>3. CASE i \notin 1..Len(Seed(k))
    <3>1. i \in (Len(Seed(k)) + 1)..Len(h)
      BY <1>2, <2>3
    <3>. QED
      BY <1>3, <2>1, <3>1 DEF SeedsFirst
  <2>. QED
    BY <2>2, <2>3
<1>6. ASSUME NEW v \in Range(Seed(k)) PROVE v \in Range(h)
  <2>1. PICK i \in 1..Len(Seed(k)) : v = Zero
    BY <1>4, <1>6 DEF Range
  <2>2. h[i] = Zero /\ i \in 1..Len(h)
    BY <1>2, <1>3 DEF SeedsFirst
  <2>. QED
    BY <1>2, <2>1, <2>2 DEF Range
<1>7. ASSUME NEW t \in Sites, NEW v \in Commits(t, k) PROVE v \in Range(h)
  <2>1. v[t] <= committedVTS[t][t] /\ v[t] \in Int /\ committedVTS[t][t] \in Nat
    <3>1. v \in Version
      BY CommitsFacts
    <3>2. v[t] <= committedVTS[t][t]
      BY DEF NumbersUsed
    <3>. QED
      BY <3>1, <3>2 DEF Version, TypeOK
  <2>2. Reach(s, t) = committedVTS[t][t]
    <3>1. CASE t = s
      BY <2>1, <3>1 DEF Reach, Quiescent, Storing
    <3>2. CASE t = Other(s)
      <4>1. Len(Transit(s)) = 0 /\ Applying(s) = 0 /\ Stamping(t) = 0
        BY EmptySeq DEF Quiescent, Applying, Stamping, Stamped
      <4>2. committedVTS[s][t] \in Nat
        BY DEF TypeOK
      <4>3. committedVTS[t][t] = committedVTS[s][t]
        BY <3>2, <4>1, <4>2 DEF SeqnoConservation
      <4>4. Reach(s, t) = committedVTS[s][t] + 0
        BY <3>2, SitesFacts DEF Reach, Quiescent
      <4>. QED
        BY <4>2, <4>3, <4>4
    <3>. QED
      BY <3>1, <3>2, SitesFacts
  <2>3. Holds(s, k, v)
    BY <2>1, <2>2 DEF Reached
  <2>. QED
    BY <1>1, <2>3 DEF Holds, Range
<1>8. \A t \in Sites : Commits(t, k) \subseteq Version
  BY CommitsFacts
<1>. QED
  BY <1>1, <1>5, <1>6, <1>7, <1>8

LEMMA RestAgrees ==
    ASSUME TypeOK, SeqnoConservation, ReplicaInv
    PROVE  Converged
<1>. SUFFICES ASSUME Quiescent
              PROVE  /\ \A k \in Keys : ToBag(history[0][k]) = ToBag(history[1][k])
                     /\ committedVTS[0] = committedVTS[1]
  BY DEF Converged
<1>1. 0 \in Sites /\ 1 \in Sites /\ Other(0) = 1 /\ Other(1) = 0 /\ Sites = {0, 1}
  BY DEF Sites, Other
<1>2. ASSUME NEW k \in Keys PROVE ToBag(history[0][k]) = ToBag(history[1][k])
  <2>1. Range(history[0][k]) = Range(history[1][k])
    BY <1>1, StoredAll
  <2>. QED
    BY <1>1, <2>1, StoredOften
<1>3. committedVTS[0] = committedVTS[1]
  <2>1. \A s \in Sites : Len(Transit(s)) = 0 /\ Applying(s) = 0 /\ Stamping(s) = 0
    BY EmptySeq DEF Quiescent, Applying, Stamping, Stamped
  <2>2. /\ committedVTS[1][1] = committedVTS[0][1] + Len(Transit(0)) + Applying(0) + Stamping(1)
        /\ committedVTS[0][0] = committedVTS[1][0] + Len(Transit(1)) + Applying(1) + Stamping(0)
    BY <1>1 DEF SeqnoConservation
  <2>3. committedVTS[0] \in [Sites -> Nat] /\ committedVTS[1] \in [Sites -> Nat]
    BY <1>1 DEF TypeOK
  <2>4. \A t \in Sites : committedVTS[0][t] = committedVTS[1][t]
    <3>1. committedVTS[0][1] \in Nat /\ committedVTS[1][0] \in Nat
      BY <1>1, <2>3
    <3>. QED
      BY <1>1, <2>1, <2>2, <3>1
  <2>. QED
    BY <2>3, <2>4
<1>. QED
  BY <1>2, <1>3

\* With nothing in progress both sites hold the same lists, each entry as
\* often, and the same vector, however the commits travelled.
THEOREM ConvergedCorrect == Spec => []Converged
<1>1. ReplicaSafe => Converged
  BY RestAgrees DEF ReplicaSafe
<1>. QED
  BY <1>1, ReplicaSafeInit, ReplicaSafeNext, PTL DEF Spec

-----------------------------------------------------------------------------
(***************************************************************************)
(* handle_get_diary_content stays inside the vector it filled.  The loop   *)
(* skips an entry that is not above the largest one before it, and then    *)
(* position and index no longer agree.  That is harmless while only the    *)
(* last entry may be skipped: an edit that is not above the one before it  *)
(* is never shown, and so no edit is ever made from it.  The turns of the  *)
(* loop are taken one by one, by induction over a set of numbers.          *)
(***************************************************************************)
Numbers == INSTANCE RisingSequences

NoTurn == [max_ver |-> Zero, max_idx |-> 1, hlist |-> <<>>]

\* g holds the first n turns over h.
TurnsTo(h, g, n) ==
    g = [i \in 0..n |-> IF i = 0 THEN NoTurn ELSE ScanEntry(h, g[i - 1], i)]

LEMMA TurnsExist ==
    ASSUME NEW h, NEW n \in Nat
    PROVE  \E g : TurnsTo(h, g, n)
<1>. DEFINE T == {m \in Nat : \E g : TurnsTo(h, g, m)}
<1>1. 0 \in T
  <2>. DEFINE g == [i \in 0..0 |-> NoTurn]
  <2>1. g = [i \in 0..0 |-> IF i = 0 THEN NoTurn ELSE ScanEntry(h, g[i - 1], i)]
    OBVIOUS
  <2>2. TurnsTo(h, g, 0)
    BY <2>1 DEF TurnsTo
  <2>. HIDE DEF g
  <2>. QED
    BY <2>2
<1>2. ASSUME NEW m \in T PROVE m + 1 \in T
  <2>1. PICK g : TurnsTo(h, g, m)
    OBVIOUS
  <2>2. m \in Nat
    OBVIOUS
  <2>3. /\ g[0] = NoTurn
        /\ \A i \in 1..m : g[i] = ScanEntry(h, g[i - 1], i)
    BY <2>1, <2>2 DEF TurnsTo
  <2>. DEFINE f == [i \in 0..(m + 1) |-> IF i <= m THEN g[i] ELSE ScanEntry(h, g[m], m + 1)]
  <2>4. /\ f[0] = NoTurn
        /\ \A i \in 1..(m + 1) : f[i - 1] = g[i - 1]
        /\ \A i \in 1..m : f[i] = g[i]
        /\ f[m + 1] = ScanEntry(h, g[m], m + 1)
    BY <2>2, <2>3
  <2>5. DOMAIN f = 0..(m + 1) /\ f = [i \in 0..(m + 1) |-> f[i]]
    OBVIOUS
  <2>. HIDE DEF f
  <2>6. \A i \in 1..(m + 1) : f[i] = ScanEntry(h, f[i - 1], i)
    <3>1. SUFFICES ASSUME NEW i \in 1..(m + 1) PROVE f[i] = ScanEntry(h, f[i - 1], i)
      OBVIOUS
    <3>2. i \in 1..m \/ (i = m + 1 /\ i - 1 = m)
      BY <2>2
    <3>. QED
      BY <2>3, <2>4, <3>2
  <2>7. \A i \in 0..(m + 1) : f[i] = IF i = 0 THEN NoTurn ELSE ScanEntry(h, f[i - 1], i)
    BY <2>2, <2>4, <2>6
  <2>8. TurnsTo(h, f, m + 1)
    BY <2>5, <2>7 DEF TurnsTo
  <2>. QED
    BY <2>2, <2>8
<1>3. T = Nat
  <2>. HIDE DEF T
  <2>1. T \in SUBSET Nat
    BY DEF T
  <2>. QED
    BY <1>1, <1>2, <2>1, Numbers!NatSetInduction
<1>. QED
  BY <1>3

LEMMA TurnsUnfold ==
    ASSUME NEW h, Len(h) \in Nat
    PROVE  /\ Turns(h)[0] = NoTurn
           /\ \A i \in 1..Len(h) : Turns(h)[i] = ScanEntry(h, Turns(h)[i - 1], i)
<1>1. \E g : TurnsTo(h, g, Len(h))
  BY TurnsExist
<1>2. Turns(h) = CHOOSE g : TurnsTo(h, g, Len(h))
  BY DEF Turns, TurnsTo, NoTurn
<1>3. TurnsTo(h, Turns(h), Len(h))
  BY <1>1, <1>2
<1>. QED
  BY <1>3 DEF TurnsTo
\* Only the last entry of h may not be above the one before it.
RisingTo(h) ==
    /\ Leq(Zero, h[1])
    /\ \A i \in 1..(Len(h) - 2) : Leq(h[i], h[i + 1])

LEMMA TurnsCopyAll ==
    ASSUME NEW h \in Seq(Version), Len(h) > 0, RisingTo(h)
    PROVE  \A n \in 1..Len(h) : \/ n = Len(h) /\ n > 1
                                \/ Turns(h)[n] = [max_ver |-> h[n], max_idx |-> n, hlist |-> [j \in 1..n |-> j]]
<1>0. Len(h) \in Nat
  BY LenProperties
<1>1. /\ Turns(h)[0] = NoTurn
      /\ \A i \in 1..Len(h) : Turns(h)[i] = ScanEntry(h, Turns(h)[i - 1], i)
  BY <1>0, TurnsUnfold
<1>. DEFINE All(n) == [max_ver |-> h[n], max_idx |-> n, hlist |-> [j \in 1..n |-> j]]
            T == {n \in Nat : n = 0 \/ n > Len(h) \/ (n = Len(h) /\ n > 1) \/ Turns(h)[n] = All(n)}
<1>2. 0 \in T
  OBVIOUS
<1>3. ASSUME NEW n \in T PROVE n + 1 \in T
  <2>1. n \in Nat
    OBVIOUS
  <2>2. CASE n + 1 > Len(h) \/ (n + 1 = Len(h) /\ n + 1 > 1)
    BY <2>1, <2>2
  <2>3. CASE n = 0
    <3>1. Turns(h)[1] = ScanEntry(h, NoTurn, 1)
      BY <1>0, <1>1
    <3>2. Leq(NoTurn.max_ver, h[1])
      BY DEF RisingTo, NoTurn
    <3>3. Append(<<>>, 1) = [j \in 1..1 |-> j]
      OBVIOUS
    <3>4. Turns(h)[1] = All(1)
      BY <3>1, <3>2, <3>3 DEF ScanEntry, NoTurn
    <3>. QED
      BY <2>3, <3>4
  <2>4. CASE n > 0 /\ n + 1 < Len(h)
    <3>1. Turns(h)[n] = All(n)
      BY <1>0, <2>1, <2>4
    <3>2. n + 1 \in 1..Len(h) /\ (n + 1) - 1 = n /\ n \in 1..(Len(h) - 2)
      BY <1>0, <2>1, <2>4
    <3>3. Turns(h)[n + 1] = ScanEntry(h, All(n), n + 1)
      BY <1>1, <3>1, <3>2
    <3>4. Leq(All(n).max_ver, h[n + 1])
      BY <3>2 DEF RisingTo
    <3>5. Append([j \in 1..n |-> j], n + 1) = [j \in 1..(n + 1) |-> j]
      BY <2>1
    <3>6. Turns(h)[n + 1] = All(n + 1)
      BY <3>3, <3>4, <3>5 DEF ScanEntry
    <3>. QED
      BY <2>1, <3>6
  <2>. QED
    BY <1>0, <2>1, <2>2, <2>3, <2>4
<1>4. T = Nat
  <2>. HIDE DEF T
  <2>1. T \in SUBSET Nat
    BY DEF T
  <2>. QED
    BY <1>2, <1>3, <2>1, Numbers!NatSetInduction
<1>5. ASSUME NEW n \in 1..Len(h) PROVE (n = Len(h) /\ n > 1) \/ Turns(h)[n] = All(n)
  <2>1. n \in T /\ n # 0 /\ ~ n > Len(h)
    BY <1>0, <1>4
  <2>. QED
    BY <2>1
<1>. QED
  BY <1>5

\* The access hits, and what it shows is above what came before it.
LEMMA ScanShows ==
    ASSUME NEW h \in Seq(Version), Len(h) > 0, RisingTo(h)
    PROVE  /\ InBounds(Scan(h))
           /\ \A i \in Shown(h) : i = 1 \/ (i \in 2..Len(h) /\ (i < Len(h) \/ Leq(h[i - 1], h[i])))
<1>. DEFINE All(n) == [max_ver |-> h[n], max_idx |-> n, hlist |-> [j \in 1..n |-> j]]
<1>1. PICK l \in Nat \ {0} : l = Len(h) /\ DOMAIN h = 1..l
  BY LenProperties
<1>2. Scan(h) = Turns(h)[l]
  BY <1>1 DEF Scan
<1>3. ASSUME NEW n \in 1..l, Scan(h) = All(n)
      PROVE  InBounds(Scan(h)) /\ \A i \in Shown(h) : i = n
  <2>1. Scan(h).max_idx = n /\ Scan(h).hlist = [j \in 1..n |-> j]
    BY <1>3
  <2>2. n \in DOMAIN [j \in 1..n |-> j] /\ [j \in 1..n |-> j][n] = n
    OBVIOUS
  <2>3. InBounds(Scan(h)) /\ Scan(h).hlist[Scan(h).max_idx] = n
    BY <2>1, <2>2 DEF InBounds
  <2>. QED
    BY <2>3 DEF Shown
<1>4. CASE l = 1
  <2>1. Scan(h) = All(1)
    <3>1. 1 \in 1..Len(h) /\ ~ 1 > 1
      BY <1>1
    <3>2. Turns(h)[1] = All(1)
      BY <3>1, TurnsCopyAll
    <3>. QED
      BY <1>2, <1>4, <3>2
  <2>. QED
    BY <1>3, <1>4, <2>1
<1>5. CASE l > 1
  <2>1. PICK m \in 1..l : m = l - 1 /\ m + 1 = l /\ m < l
    BY <1>1, <1>5
  <2>2. Turns(h)[m] = All(m)
    BY <1>1, <2>1, TurnsCopyAll
  <2>3. Scan(h) = ScanEntry(h, All(m), l)
    <3>1. Turns(h)[l] = ScanEntry(h, Turns(h)[l - 1], l)
      BY <1>1, TurnsUnfold
    <3>. QED
      BY <1>2, <2>1, <2>2, <3>1
  <2>4. CASE Leq(h[m], h[l])
    <3>1. Append([j \in 1..m |-> j], l) = [j \in 1..l |-> j]
      BY <2>1
    <3>2. Scan(h) = All(l)
      BY <2>3, <2>4, <3>1 DEF ScanEntry
    <3>3. InBounds(Scan(h)) /\ \A i \in Shown(h) : i = l
      BY <1>1, <1>3, <3>2
    <3>. QED
      BY <1>1, <1>5, <2>1, <2>4, <3>3
  <2>5. CASE ~ Leq(h[m], h[l])
    <3>1. Scan(h) = All(m)
      BY <2>3, <2>5 DEF ScanEntry
    <3>2. InBounds(Scan(h)) /\ \A i \in Shown(h) : i = m
      BY <1>3, <2>1, <3>1
    <3>. QED
      BY <1>1, <2>1, <3>2
  <2>. QED
    BY <2>4, <2>5
<1>. QED
  BY <1>1, <1>4, <1>5
-----------------------------------------------------------------------------
(***************************************************************************)
(* Only edits above the one before them are shown and extended.            *)
(***************************************************************************)
Risen(cs, i) == Leq(IF i = 1 THEN Zero ELSE cs[i - 1].ver, cs[i].ver)

\* The versions of k a page can hold.
Showable(k, v) ==
    \/ v \in {Unloaded, Zero}
    \/ \E i \in DOMAIN committed[k] : v = committed[k][i].ver /\ Risen(committed[k], i)

Submitting == {"fast_check", "fast_stamp", "slow_check", "slow_stamp"}

OnlyLastSkipped ==
    \A k \in DiaryKeys : \A i \in DOMAIN committed[k] :
        i < Len(committed[k]) => Risen(committed[k], i)

PagesShowable == \A s \in Sites, d \in Diaries : \A v \in pages[s][d] : Showable(DiaryKey(d), v)

EditsShowable ==
    \A s \in Sites : txn[s].key \in DiaryKeys /\ pc[s] \in Submitting
                        => Showable(txn[s].key, txn[s].startTs)

ReadInv == OnlyLastSkipped /\ PagesShowable /\ EditsShowable

\* A history that is a prefix of such edits is scanned inside its bounds.
LEMMA HistoryRising ==
    ASSUME TypeOK, OnlyLastSkipped, Orders(TRUE), NEW s \in Sites, NEW k \in DiaryKeys
    PROVE  /\ history[s][k] \in Seq(Version) /\ Len(history[s][k]) > 0
           /\ RisingTo(history[s][k])
           /\ \A i \in 1..Len(history[s][k]) :
                 i = 1 \/ i < Len(history[s][k]) \/ Leq(history[s][k][i - 1], history[s][k][i])
                     => Showable(k, history[s][k][i])
<1>1. PICK h \in Seq(Version), cs \in Seq(Commit) : h = history[s][k] /\ cs = committed[k]
  <2>1. history[s][k] \in Seq(Version) /\ committed[k] \in Seq(Commit)
    BY HomeFacts, HistoryType, CommittedType
  <2>. QED
    BY <2>1
<1>2. /\ Len(h) \in 1..(Len(cs) + 1) /\ h[1] = Zero
      /\ \A i \in 2..Len(h) : h[i] = cs[i - 1].ver
  <2>1. OrderInv(s, k, TRUE)
    BY DEF Orders
  <2>2. InOrder(h, cs, Way(s), k, Mine(s, k))
    BY <1>1, <2>1 DEF OrderInv, Ordered
  <2>. QED
    BY <2>2 DEF InOrder
<1>3. Len(cs) \in Nat /\ DOMAIN cs = 1..Len(cs) /\ Len(h) \in Nat
  BY LenProperties
<1>4. \A i \in 1..Len(cs) : i < Len(cs) => Risen(cs, i)
  BY <1>1, <1>3 DEF OnlyLastSkipped
<1>5. \A i \in 1..Len(cs) : i + 1 <= Len(h) => (Risen(cs, i) <=> Leq(h[i], h[i + 1]))
  <2>1. SUFFICES ASSUME NEW i \in 1..Len(cs), i + 1 <= Len(h)
                 PROVE  Risen(cs, i) <=> Leq(h[i], h[i + 1])
    OBVIOUS
  <2>2. h[i + 1] = cs[i].ver
    <3>1. i + 1 \in 2..Len(h) /\ (i + 1) - 1 = i
      BY <1>3, <2>1
    <3>. QED
      BY <1>2, <3>1
  <2>3. h[i] = IF i = 1 THEN Zero ELSE cs[i - 1].ver
    BY <1>2, <1>3, <2>1
  <2>. QED
    BY <2>2, <2>3 DEF Risen
<1>6. RisingTo(h)
  <2>1. Leq(Zero, h[1])
    <3>1. \A t \in Sites : Zero[t] = 0
      BY DEF Zero
    <3>2. Leq(Zero, Zero)
      BY <3>1 DEF Leq
    <3>3. h[1] = Zero
      BY <1>2
    <3>. QED
      BY <3>2, <3>3
  <2>2. ASSUME NEW i \in 1..(Len(h) - 2) PROVE Leq(h[i], h[i + 1])
    <3>1. i \in 1..Len(cs) /\ i < Len(cs) /\ i + 1 <= Len(h)
      BY <1>2, <1>3
    <3>. QED
      BY <1>4, <1>5, <3>1
  <2>. QED
    BY <2>1, <2>2 DEF RisingTo
<1>7. ASSUME NEW i \in 1..Len(h), i = 1 \/ i < Len(h) \/ Leq(h[i - 1], h[i])
      PROVE  Showable(k, h[i])
  <2>1. CASE i = 1
    BY <1>2, <2>1 DEF Showable
  <2>2. CASE i # 1
    <3>1. PICK j \in 1..Len(cs) : j = i - 1 /\ j + 1 = i /\ j + 1 <= Len(h) /\ i \in 2..Len(h)
      BY <1>2, <1>3, <2>2
    <3>2. h[i] = cs[j].ver
      BY <1>2, <3>1
    <3>3. Risen(cs, j)
      <4>1. CASE i < Len(h)
        <5>1. j < Len(cs)
          BY <1>2, <1>3, <3>1, <4>1
        <5>. QED
          BY <1>4, <5>1
      <4>2. CASE Leq(h[i - 1], h[i])
        BY <1>5, <3>1, <4>2
      <4>. QED
        BY <1>7, <2>2, <4>1, <4>2
    <3>. QED
      BY <1>1, <1>3, <3>2, <3>3 DEF Showable
  <2>. QED
    BY <2>1, <2>2
<1>. QED
  BY <1>1, <1>2, <1>3, <1>6, <1>7

LEMMA ReadsInBounds ==
    ASSUME TypeOK, OnlyLastSkipped, Orders(TRUE)
    PROVE  ReadInBounds
<1>. SUFFICES ASSUME NEW s \in Sites, NEW d \in Diaries
              PROVE  InBounds(Scan(history[s][DiaryKey(d)]))
  BY DEF ReadInBounds
<1>1. PICK h \in Seq(Version) : h = history[s][DiaryKey(d)] /\ Len(h) > 0 /\ RisingTo(h)
  BY HistoryRising, HomeFacts
<1>. QED
  BY <1>1, ScanShows

-----------------------------------------------------------------------------
(***************************************************************************)
(* The steps.                                                              *)
(***************************************************************************)
LEMMA ShowableSame ==
    ASSUME UNCHANGED committed
    PROVE  /\ \A k, v : Showable(k, v)' <=> Showable(k, v)
           /\ OnlyLastSkipped => OnlyLastSkipped'
BY DEF Showable, OnlyLastSkipped

\* A step that shows, begins and commits nothing.
LEMMA ReadFrame ==
    ASSUME ReadInv, UNCHANGED <<committed, pages>>,
           \A s \in Sites : pc'[s] \in Submitting =>
               pc[s] \in Submitting /\ txn'[s] = txn[s]
    PROVE  ReadInv'
<1>1. OnlyLastSkipped' /\ PagesShowable'
  BY ShowableSame DEF ReadInv, PagesShowable
<1>2. EditsShowable'
  BY ShowableSame DEF ReadInv, EditsShowable
<1>. QED
  BY <1>1, <1>2 DEF ReadInv

LEMMA AcquireRead ==
    ASSUME TypeOK, ReadInv, NEW s \in Sites, NEW r, NEW k \in Keys, NEW startTs, NEW next,
           pc[s] = "idle", acquire_lock(s, r, k, startTs, next),
           k \in DiaryKeys => Showable(k, startTs)
    PROVE  ReadInv'
<1>1. UNCHANGED <<committed, pages>>
  BY DEF acquire_lock
<1>2. \/ UNCHANGED <<pc, txn>>
      \/ txn'[s].key = k /\ txn'[s].startTs = startTs /\ pc'[Other(s)] = pc[Other(s)]
         /\ txn'[Other(s)] = txn[Other(s)]
  BY SitesFacts, PcType, TxnType DEF acquire_lock
<1>3. CASE UNCHANGED <<pc, txn>>
  BY <1>1, <1>3, ReadFrame
<1>4. CASE /\ txn'[s].key = k /\ txn'[s].startTs = startTs
           /\ pc'[Other(s)] = pc[Other(s)] /\ txn'[Other(s)] = txn[Other(s)]
  <2>1. OnlyLastSkipped' /\ PagesShowable'
    BY <1>1, ShowableSame DEF ReadInv, PagesShowable
  <2>2. ASSUME NEW t \in Sites, txn'[t].key \in DiaryKeys, pc'[t] \in Submitting
        PROVE  Showable(txn'[t].key, txn'[t].startTs)
    <3>1. CASE t = s
      BY <1>4, <2>2, <3>1
    <3>2. CASE t = Other(s)
      <4>1. txn[t].key \in DiaryKeys /\ pc[t] \in Submitting
        BY <1>4, <2>2, <3>2
      <4>2. Showable(txn[t].key, txn[t].startTs)
        BY <4>1 DEF ReadInv, EditsShowable
      <4>. QED
        BY <1>4, <3>2, <4>2
    <3>. QED
      BY <3>1, <3>2, SitesFacts
  <2>3. EditsShowable'
    BY <1>1, <2>2, ShowableSame DEF EditsShowable
  <2>. QED
    BY <2>1, <2>3 DEF ReadInv
<1>. QED
  BY <1>2, <1>3, <1>4

LEMMA PageRead ==
    ASSUME TypeOK, ReadInv, Orders(TRUE), NEW s \in Sites, NEW d \in Diaries,
           handle_get_diary_content(s, d)
    PROVE  ReadInv'
<1>1. UNCHANGED <<pc, txn, committed>>
  BY DEF handle_get_diary_content
<1>2. PICK i \in Shown(history[s][DiaryKey(d)]) :
         pages' = [pages EXCEPT ![s][d] = @ \cup {history[s][DiaryKey(d)][i]}]
  BY DEF handle_get_diary_content
<1>3. Showable(DiaryKey(d), history[s][DiaryKey(d)][i])
  <2>1. PICK h \in Seq(Version) : /\ h = history[s][DiaryKey(d)] /\ Len(h) > 0 /\ RisingTo(h)
                                  /\ \A j \in 1..Len(h) : j = 1 \/ j < Len(h) \/ Leq(h[j - 1], h[j])
                                        => Showable(DiaryKey(d), h[j])
    BY HistoryRising, HomeFacts DEF ReadInv
  <2>2. i = 1 \/ (i \in 2..Len(h) /\ (i < Len(h) \/ Leq(h[i - 1], h[i])))
    BY <2>1, ScanShows
  <2>3. i \in 1..Len(h)
    BY <2>1, <2>2, LenProperties
  <2>. QED
    BY <2>1, <2>2, <2>3
<1>4. OnlyLastSkipped'
  BY <1>1, ShowableSame DEF ReadInv
<1>5. PagesShowable'
  <2>1. ASSUME NEW t \in Sites, NEW e \in Diaries, NEW v \in pages'[t][e]
        PROVE  Showable(DiaryKey(e), v)'
    <3>1. v \in pages[t][e] \/ (t = s /\ e = d /\ v = history[s][DiaryKey(d)][i])
      BY <1>2 DEF TypeOK
    <3>2. Showable(DiaryKey(e), v)
      BY <1>3, <3>1 DEF ReadInv, PagesShowable
    <3>. QED
      BY <1>1, <3>2, ShowableSame
  <2>. QED
    BY <2>1 DEF PagesShowable, DiaryKey
<1>6. EditsShowable'
  BY <1>1, ShowableSame DEF ReadInv, EditsShowable
<1>. QED
  BY <1>4, <1>5, <1>6 DEF ReadInv

\* An edit starts from the newest version, and it could be shown: so none is
\* made from an edit that is not above the one before it.
LEMMA StampRead ==
    ASSUME TypeOK, ReadInv, EditInv(TRUE), VersionsUnique, NEW s \in Sites, NEW next,
           pc[s] \in {"fast_stamp", "slow_stamp"}, next \notin Submitting, StampVTS(s, next)
    PROVE  ReadInv'
<1>1. PICK q \in Keys : q = txn[s].key
  BY TxnType
<1>2. PICK cs \in Seq(Commit) : cs = committed[q]
  BY CommittedType
<1>3. PICK c \in Commit : /\ committed'[q] = Append(cs, c)
                         /\ \A k \in Keys : k # q => committed'[k] = committed[k]
  <2>1. [site |-> s, base |-> txn[s].startTs, ver |-> NextVTS(s)] \in Commit
    <3>1. txn[s].startTs \in Version
      BY TxnType
    <3>2. committedVTS[s] \in [Sites -> Nat]
      BY DEF TypeOK
    <3>3. NextVTS(s) \in Version
      BY <3>2 DEF NextVTS, Version
    <3>. QED
      BY <3>1, <3>3 DEF Commit
  <2>. QED
    BY <1>1, <1>2, <2>1, CommittedType DEF StampVTS
<1>4. /\ UNCHANGED pages
      /\ pc'[s] = next /\ pc'[Other(s)] = pc[Other(s)] /\ txn'[Other(s)] = txn[Other(s)]
  BY SitesFacts, PcType, TxnType DEF StampVTS
<1>5. /\ DOMAIN cs = 1..Len(cs) /\ Len(cs) \in Nat
      /\ Len(Append(cs, c)) = Len(cs) + 1 /\ DOMAIN Append(cs, c) = 1..(Len(cs) + 1)
      /\ \A i \in 1..Len(cs) : Append(cs, c)[i] = cs[i]
  BY AppendFacts
<1>6. \A i \in 1..Len(cs) : Risen(Append(cs, c), i) <=> Risen(cs, i)
  <2>1. SUFFICES ASSUME NEW i \in 1..Len(cs) PROVE Risen(Append(cs, c), i) <=> Risen(cs, i)
    OBVIOUS
  <2>2. Append(cs, c)[i] = cs[i] /\ (i # 1 => Append(cs, c)[i - 1] = cs[i - 1])
    <3>1. i # 1 => i - 1 \in 1..Len(cs)
      BY <1>5
    <3>. QED
      BY <1>5, <3>1
  <2>. QED
    BY <2>2 DEF Risen
<1>7. \A k \in DiaryKeys : \A v : Showable(k, v) => Showable(k, v)'
  <2>1. SUFFICES ASSUME NEW k \in DiaryKeys, NEW v, Showable(k, v) PROVE Showable(k, v)'
    OBVIOUS
  <2>2. CASE k # q
    BY <1>3, <2>1, <2>2, HomeFacts DEF Showable
  <2>3. CASE k = q
    <3>1. CASE v \in {Unloaded, Zero}
      BY <3>1 DEF Showable
    <3>2. CASE v \notin {Unloaded, Zero}
      <4>1. PICK i \in 1..Len(cs) : v = cs[i].ver /\ Risen(cs, i)
        BY <1>2, <1>5, <2>1, <2>3, <3>2 DEF Showable
      <4>2. i \in DOMAIN Append(cs, c) /\ v = Append(cs, c)[i].ver /\ Risen(Append(cs, c), i)
        BY <1>5, <1>6, <4>1
      <4>. QED
        BY <1>3, <2>3, <4>2 DEF Showable
    <3>. QED
      BY <3>1, <3>2
  <2>. QED
    BY <2>2, <2>3
<1>8. q \in DiaryKeys /\ cs # <<>> => Risen(cs, Len(cs))
  <2>1. SUFFICES ASSUME q \in DiaryKeys, cs # <<>> PROVE Risen(cs, Len(cs))
    OBVIOUS
  <2>2. txn[s].startTs = Newest(q)
    BY <1>1, <2>1 DEF EditInv, Handlers, HandlerInv
  <2>3. Showable(q, Newest(q))
    BY <1>1, <2>1, <2>2 DEF ReadInv, EditsShowable, Submitting
  <2>4. ~ Leq(Newest(q), Zero) /\ Newest(q) = cs[Len(cs)].ver
    BY <1>2, <2>1, NewestKnown DEF EditInv, Newest
  <2>5. Newest(q) \notin {Unloaded, Zero}
    BY <2>4 DEF Leq, Zero, Unloaded
  <2>6. PICK i \in DOMAIN cs : cs[Len(cs)].ver = cs[i].ver /\ Risen(cs, i)
    BY <1>2, <2>3, <2>4, <2>5 DEF Showable
  <2>7. Len(cs) \in DOMAIN cs
    BY <1>5, <2>1, EmptySeq
  <2>8. i = Len(cs)
    BY <1>2, <2>6, <2>7 DEF VersionsUnique
  <2>. QED
    BY <2>6, <2>8
<1>9. OnlyLastSkipped'
  <2>1. SUFFICES ASSUME NEW k \in DiaryKeys, NEW i \in DOMAIN committed'[k], i < Len(committed'[k])
                 PROVE  Risen(committed'[k], i)
    BY DEF OnlyLastSkipped
  <2>2. CASE k # q
    BY <1>3, <2>1, <2>2, HomeFacts DEF ReadInv, OnlyLastSkipped
  <2>3. CASE k = q
    <3>1. i \in 1..Len(cs) /\ (i < Len(cs) \/ i = Len(cs))
      BY <1>3, <1>5, <2>1, <2>3
    <3>2. Risen(cs, i)
      <4>1. i < Len(cs) => Risen(cs, i)
        BY <1>2, <1>5, <2>3, <3>1 DEF ReadInv, OnlyLastSkipped
      <4>2. i = Len(cs) => Risen(cs, i)
        BY <1>8, <2>3, <3>1, EmptySeq
      <4>. QED
        BY <3>1, <4>1, <4>2
    <3>. QED
      BY <1>3, <1>6, <2>3, <3>1, <3>2
  <2>. QED
    BY <2>2, <2>3
<1>10. PagesShowable'
  BY <1>4, <1>7, HomeFacts DEF ReadInv, PagesShowable, DiaryKey
<1>11. EditsShowable'
  BY <1>4, <1>7, SitesFacts DEF ReadInv, EditsShowable
<1>. QED
  BY <1>9, <1>10, <1>11 DEF ReadInv

LEMMA ReadNext ==
    ASSUME TypeOK, ReadInv, EditInv(TRUE), Orders(TRUE), VersionsUnique, [Next]_vars
    PROVE  ReadInv'
<1>1. CASE UNCHANGED vars
  BY <1>1, ReadFrame DEF vars
<1>2. ASSUME NEW s \in Sites, Request(s) PROVE ReadInv'
  <2>1. PICK d \in Diaries : \/ handle_edit_diary(s, d)
                            \/ handle_add_comment(s, d)
                            \/ handle_get_diary_content(s, d)
    BY <1>2 DEF Request
  <2>2. CASE handle_edit_diary(s, d)
    <3>1. PICK startTs \in pages[s][d] :
              \/ FastAcquire(s, DiaryKey(d), startTs, "fast_check")
              \/ SlowAcquire(s, DiaryKey(d), startTs)
      BY <2>2 DEF handle_edit_diary
    <3>2. Showable(DiaryKey(d), startTs) /\ DiaryKey(d) \in Keys
      BY HomeFacts DEF ReadInv, PagesShowable
    <3>. QED
      BY <3>1, <3>2, AcquireRead DEF FastAcquire, SlowAcquire
  <2>3. CASE handle_add_comment(s, d)
    BY <2>3, AcquireRead, HomeFacts DEF handle_add_comment, FastAcquire
  <2>4. CASE handle_get_diary_content(s, d)
    BY <2>4, PageRead
  <2>. QED
    BY <2>1, <2>2, <2>3, <2>4
<1>3. ASSUME NEW s \in Sites, FastStep(s) PROVE ReadInv'
  <2>1. CASE FastStamp(s)
    BY <2>1, StampRead DEF FastStamp, Submitting
  <2>2. CASE ~ FastStamp(s)
    <3>1. /\ UNCHANGED <<committed, pages, txn>> /\ pc[s] # "idle"
          /\ \E next \in {"fast_stamp", "fast_abort", "fast_queue", "fast_done", "idle"} :
                /\ pc' = [pc EXCEPT ![s] = next]
                /\ next = "fast_stamp" => pc[s] = "fast_check"
      BY <1>3, <2>2 DEF FastStep, FastCheck, FastAbort, FastPush, FastQueue, FastDone,
                        CheckHistory, release_lock, Push, QueueMsg
    <3>2. \A t \in Sites : pc'[t] \in Submitting => pc[t] \in Submitting
      BY <3>1, PcType, SitesFacts DEF Submitting
    <3>. QED
      BY <3>1, <3>2, ReadFrame
  <2>. QED
    BY <2>1, <2>2
<1>4. ASSUME NEW s \in Sites, SlowStep(s) PROVE ReadInv'
  <2>1. CASE SlowStamp(s)
    BY <2>1, StampRead DEF SlowStamp, Submitting
  <2>2. CASE ~ SlowStamp(s)
    <3>1. /\ UNCHANGED <<committed, pages, txn>>
          /\ \E next \in {"slow_stamp", "slow_abort", "slow_queue", "idle"} :
                /\ pc' = [pc EXCEPT ![s] = next]
                /\ next = "slow_stamp" => pc[s] = "slow_check"
      BY <1>4, <2>2 DEF SlowStep, SlowCheck, SlowAbort, SlowPush, SlowQueue,
                        CheckHistory, release_lock, Push, QueueMsg
    <3>2. \A t \in Sites : pc'[t] \in Submitting => pc[t] \in Submitting
      BY <3>1, PcType, SitesFacts DEF Submitting
    <3>. QED
      BY <3>1, <3>2, ReadFrame
  <2>. QED
    BY <2>1, <2>2
<1>5. ASSUME NEW s \in Sites, RepStep(s) PROVE ReadInv'
  <2>1. UNCHANGED <<committed, pages, txn, pc>>
    BY <1>5 DEF RepStep, RepRecv, RepPush, RepUnlock, RepCount, RepDrain
  <2>. QED
    BY <2>1, ReadFrame
<1>. QED
  BY <1>1, <1>2, <1>3, <1>4, <1>5 DEF Next

LEMMA ReadInit == Init => ReadInv
<1>. SUFFICES ASSUME Init PROVE ReadInv
  OBVIOUS
<1>1. \A k \in DiaryKeys : DOMAIN committed[k] = {}
  BY HomeFacts, EmptySeq DEF Init, InitServers
<1>2. PagesShowable
  BY DEF Init, InitServers, PagesShowable, Showable
<1>3. EditsShowable
  BY DEF Init, InitServers, EditsShowable, Submitting
<1>. QED
  BY <1>1, <1>2, <1>3 DEF ReadInv, OnlyLastSkipped

\* handle_get_diary_content reads hlist inside its bounds, whatever the order
\* in which edits and their timestamps reach a site: the loop never skips an
\* entry that another one follows.
THEOREM ReadInBoundsCorrect == Spec => []ReadInBounds
<1>1. Init => DiaryInv /\ ReadInv
  BY DiaryInvInit, ReadInit
<1>2. DiaryInv /\ ReadInv /\ [Next]_vars => (DiaryInv /\ ReadInv)'
  BY DiaryInvNext, ReadNext DEF DiaryInv
<1>3. DiaryInv /\ ReadInv => ReadInBounds
  BY ReadsInBounds DEF DiaryInv, ReadInv
<1>. QED
  BY <1>1, <1>2, <1>3, PTL DEF Spec
=============================================================================
