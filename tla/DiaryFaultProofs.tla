--------------------------- MODULE DiaryFaultProofs ---------------------------
(***************************************************************************)
(* What survives crashes, restarts and lost messages, for any number of    *)
(* them: a lock never gets a second owner, and before the first crash no   *)
(* commit is counted twice, the sites keep one order, and no edit is       *)
(* overwritten.  Most steps are steps of DiaryCommit, whose lemmas hold of *)
(* locks left taken and of numbers lost; the new ones are the start of     *)
(* generate_data, the loss of a message and the crash.                     *)
(***************************************************************************)
EXTENDS DiaryFaults, DiaryCommitProofs

\* A running server takes a step of DiaryCommit, or loses what it publishes.
LEMMA RunNext ==
    ASSUME NEW s \in Sites, Run(s)
    PROVE  Next \/ RepDrop(s)
BY DEF Run, Replicate, Serve, Next, RepStep

LEMMA FaultSteps ==
    ASSUME [NextFaults]_allVars
    PROVE  \/ [Next]_vars /\ crashes' = crashes
           \/ \E s \in Sites : RepDrop(s) /\ crashes' = crashes
           \/ \E s \in Sites : generate_data(s)
           \/ \E s \in Sites : Crash(s)
<1>1. CASE UNCHANGED allVars
  BY <1>1 DEF allVars, faultVars
<1>2. ASSUME NEW s \in Sites, Start(s) \/ Join(s)
      PROVE  [Next]_vars /\ crashes' = crashes
  BY <1>2 DEF Start, Join
<1>3. ASSUME NEW s \in Sites, Run(s)
      PROVE  (Next \/ RepDrop(s)) /\ crashes' = crashes
  <2>1. crashes' = crashes
    BY <1>3 DEF Run, faultVars
  <2>. QED
    BY <1>3, <2>1, RunNext
<1>. QED
  BY <1>1, <1>2, <1>3 DEF NextFaults

-----------------------------------------------------------------------------
(***************************************************************************)
(* Types.                                                                  *)
(***************************************************************************)
LEMMA RemoveAtType ==
    ASSUME NEW S, NEW q \in Seq(S), NEW i \in DOMAIN q
    PROVE  RemoveAt(q, i) \in Seq(S)
<1>1. DOMAIN q = 1..Len(q) /\ Len(q) \in Nat
  BY LenProperties
<1>2. SubSeq(q, 1, i - 1) \in Seq(S) /\ SubSeq(q, i + 1, Len(q)) \in Seq(S)
  BY <1>1
<1>. QED
  BY <1>2 DEF RemoveAt

LEMMA SeedingType ==
    ASSUME TypeOK, NEW s \in Sites, generate_data(s)
    PROVE  TypeOK'
<1>1. history' \in [Sites -> [Keys -> Seq(Version)]]
  <2>1. PICK k : history' = [history EXCEPT ![s][k] = Append(@, Zero)]
    BY DEF generate_data
  <2>2. PICK h \in [Keys -> Seq(Version)] : h = history[s]
    BY DEF TypeOK
  <2>3. \A j \in Keys : Append(h[j], Zero) \in Seq(Version)
    BY <2>2, VersionTypes
  <2>4. [h EXCEPT ![k] = Append(@, Zero)] \in [Keys -> Seq(Version)]
    BY <2>2, <2>3
  <2>5. history' = [history EXCEPT ![s] = [h EXCEPT ![k] = Append(@, Zero)]]
    BY <2>1, <2>2 DEF TypeOK
  <2>. QED
    BY <2>4, <2>5 DEF TypeOK
<1>. QED
  BY <1>1 DEF TypeOK, generate_data

LEMMA DropType ==
    ASSUME TypeOK, NEW s \in Sites, RepDrop(s)
    PROVE  TypeOK'
<1>1. msg_list' \in [Sites -> Seq(Message)]
  <2>1. msg_list \in [Sites -> Seq(Message)] /\ <<>> \in Seq(Message)
    BY DEF TypeOK
  <2>. QED
    BY <2>1 DEF RepDrop
<1>2. rpc' \in [Sites -> RepPC]
  BY RpcType DEF RepDrop, RepPC
<1>. QED
  BY <1>1, <1>2 DEF TypeOK, RepDrop

LEMMA CrashType ==
    ASSUME TypeOK, NEW s \in Sites, Crash(s)
    PROVE  TypeOK'
<1>1. committedVTS' \in [Sites -> [Sites -> Nat]]
  BY DEF TypeOK, Crash, Zero
<1>2. pc' \in [Sites -> MainPC] /\ rpc' \in [Sites -> RepPC]
  BY DEF TypeOK, Crash, MainPC, RepPC
<1>3. msg_list' \in [Sites -> Seq(Message)]
  BY DEF TypeOK, Crash
<1>4. net' \in [Sites -> Seq(Message)]
  <2>1. PICK n \in 0..Len(net[Other(s)]) :
            net' = [net EXCEPT ![s] = <<>>, ![Other(s)] = SubSeq(@, 1, n)]
    BY DEF Crash
  <2>2. PICK q \in Seq(Message) : q = net[Other(s)]
    BY SitesFacts DEF TypeOK
  <2>3. SubSeq(q, 1, n) \in Seq(Message)
    BY <2>2
  <2>4. net' = [net EXCEPT ![s] = <<>>, ![Other(s)] = SubSeq(q, 1, n)]
    BY <2>1, <2>2, SitesFacts DEF TypeOK
  <2>5. <<>> \in Seq(Message) /\ DOMAIN net = Sites
    BY DEF TypeOK
  <2>6. \A t \in Sites : net'[t] = IF t = s THEN <<>> ELSE SubSeq(q, 1, n)
    BY <2>4, <2>5, SitesFacts
  <2>7. net' = [t \in Sites |-> IF t = s THEN <<>> ELSE SubSeq(q, 1, n)]
    BY <2>4, <2>5, <2>6
  <2>. QED
    BY <2>3, <2>5, <2>7
<1>5. committed' \in [Keys -> Seq(Commit)]
  <2>1. CASE UNCHANGED committed
    BY <2>1 DEF TypeOK
  <2>2. CASE \E i \in DOMAIN committed[txn[s].key] :
                 committed' = [committed EXCEPT ![txn[s].key] = RemoveAt(@, i)]
    <3>1. txn[s].key \in Keys
      BY DEF TypeOK
    <3>2. committed[txn[s].key] \in Seq(Commit)
      BY <3>1 DEF TypeOK
    <3>3. PICK i \in DOMAIN committed[txn[s].key] :
              committed' = [committed EXCEPT ![txn[s].key] = RemoveAt(@, i)]
      BY <2>2
    <3>4. RemoveAt(committed[txn[s].key], i) \in Seq(Commit)
      BY <3>2, RemoveAtType
    <3>. QED
      BY <3>3, <3>4 DEF TypeOK
  <2>. QED
    BY <2>1, <2>2 DEF Crash, Uncommit
<1>. QED
  BY <1>1, <1>2, <1>3, <1>4, <1>5 DEF TypeOK, Crash

LEMMA SeedListType == SeedList \in Seq(Keys)
<1>. DEFINE inUse(k) == IF k \in Keys THEN <<k>> ELSE <<>>
            diary(i) == inUse([type |-> "DIARY", id |-> i])
            comment  == inUse([type |-> "COMMENT", id |-> 1])
<1>1. ASSUME NEW k PROVE inUse(k) \in Seq(Keys)
  BY OneSeq, EmptySeq
<1>2. /\ diary(1) \in Seq(Keys) /\ diary(2) \in Seq(Keys) /\ diary(3) \in Seq(Keys)
      /\ comment \in Seq(Keys)
  BY <1>1
<1>3. SeedList = diary(1) \o diary(2) \o diary(3) \o comment \o comment \o comment \o comment
  BY DEF SeedList
<1>. HIDE DEF diary, comment
<1>4. \A p, q \in Seq(Keys) : p \o q \in Seq(Keys)
  BY ConcatProperties
<1>. QED
  BY <1>2, <1>3, <1>4

LEMMA TypeFaultsInit == InitFaults => TypeOKFaults
<1>. SUFFICES ASSUME InitFaults PROVE TypeOKFaults
  OBVIOUS
<1>1. /\ history \in [Sites -> [Keys -> Seq(Version)]]
      /\ lock \in [Sites -> [Keys -> Nat]]
  BY DEF InitFaults
<1>2. /\ committedVTS \in [Sites -> [Sites -> Nat]]
      /\ pc \in [Sites -> MainPC] /\ rpc \in [Sites -> RepPC]
  BY DEF InitFaults, InitServers, Zero, MainPC, RepPC
<1>3. /\ txn \in [Sites -> [key : Keys, startTs : Version, ver : Version]]
      /\ rep_msg \in [Sites -> Message]
  BY KeysNonempty, VersionTypes DEF InitFaults, InitServers, Message
<1>4. /\ msg_list \in [Sites -> Seq(Message)] /\ net \in [Sites -> Seq(Message)]
      /\ pages \in [Sites -> [Diaries -> SUBSET Version]]
      /\ committed \in [Keys -> Seq(Commit)]
  BY VersionTypes DEF InitFaults, InitServers
<1>5. TypeOK
  BY <1>1, <1>2, <1>3, <1>4 DEF TypeOK
<1>6. /\ up \in [Sites -> BOOLEAN] /\ toSeed \in [Sites -> Seq(Keys)]
      /\ joined \in [Sites -> BOOLEAN] /\ crashes \in 0..MaxCrashes
  BY CrashesAssumption, EmptySeq DEF InitFaults
<1>. QED
  BY <1>5, <1>6 DEF TypeOKFaults

LEMMA TypeFaultVars ==
    ASSUME TypeOKFaults, NextFaults
    PROVE  /\ up' \in [Sites -> BOOLEAN] /\ toSeed' \in [Sites -> Seq(Keys)]
           /\ joined' \in [Sites -> BOOLEAN] /\ crashes' \in 0..MaxCrashes
<1>. USE DEF TypeOKFaults
<1>1. CASE \E s \in Sites : Start(s)
  BY <1>1, SeedListType DEF Start
<1>2. ASSUME NEW s \in Sites, generate_data(s)
      PROVE  /\ up' \in [Sites -> BOOLEAN] /\ toSeed' \in [Sites -> Seq(Keys)]
             /\ joined' \in [Sites -> BOOLEAN] /\ crashes' \in 0..MaxCrashes
  <2>1. toSeed[s] \in Seq(Keys) /\ toSeed[s] # <<>>
    BY <1>2 DEF generate_data
  <2>2. Tail(toSeed[s]) \in Seq(Keys)
    BY <2>1, TailFacts
  <2>3. toSeed' = [toSeed EXCEPT ![s] = Tail(toSeed[s])] /\ UNCHANGED <<up, joined, crashes>>
    BY <1>2 DEF generate_data
  <2>. QED
    BY <2>2, <2>3
<1>3. CASE \E s \in Sites : Join(s)
  BY <1>3 DEF Join
<1>4. CASE \E s \in Sites : Run(s)
  BY <1>4 DEF Run, faultVars
<1>5. ASSUME NEW s \in Sites, Crash(s)
      PROVE  /\ up' \in [Sites -> BOOLEAN] /\ toSeed' \in [Sites -> Seq(Keys)]
             /\ joined' \in [Sites -> BOOLEAN] /\ crashes' \in 0..MaxCrashes
  <2>1. crashes' \in 0..MaxCrashes
    BY <1>5, CrashesAssumption DEF Crash
  <2>2. /\ up' = [up EXCEPT ![s] = FALSE] /\ toSeed' = [toSeed EXCEPT ![s] = <<>>]
        /\ joined' = [r \in Sites |-> FALSE]
    BY <1>5 DEF Crash
  <2>3. toSeed' \in [Sites -> Seq(Keys)]
    BY <2>2, EmptySeq
  <2>. QED
    BY <2>1, <2>2, <2>3
<1>. QED
  BY <1>1, <1>2, <1>3, <1>4, <1>5 DEF NextFaults

LEMMA TypeFaultsNext ==
    ASSUME TypeOKFaults, [NextFaults]_allVars
    PROVE  TypeOKFaults'
<1>1. TypeOK /\ TypeOK'
  <2>1. TypeOK
    BY DEF TypeOKFaults
  <2>. QED
    BY <2>1, FaultSteps, TypeNext, DropType, SeedingType, CrashType
<1>2. CASE UNCHANGED allVars
  BY <1>1, <1>2 DEF allVars, faultVars, TypeOKFaults
<1>3. CASE NextFaults
  BY <1>1, <1>3, TypeFaultVars DEF TypeOKFaults
<1>. QED
  BY <1>2, <1>3

\* However the servers start, stop and fail, every variable keeps its type, a
\* seed is only ever pushed to a list in use, and the crashes keep to their
\* bound.
THEOREM TypeFaultsCorrect == SpecFaults => []TypeOKFaults
BY TypeFaultsInit, TypeFaultsNext, PTL DEF SpecFaults

-----------------------------------------------------------------------------
(***************************************************************************)
(* One owner.  A step that only takes owners away leaves at most one; the  *)
(* commits on their way that are left may have moved up by n places.       *)
(***************************************************************************)
LEMMA OwnersShrink ==
    ASSUME NEW r, NEW k, LockInv(r, k, FALSE),
           lock'[r][k] = lock[r][k],
           FastOwns(r, k)' => FastOwns(r, k),
           SlowOwns(r, k)' => SlowOwns(r, k),
           ApplyOwns(r, k)' => ApplyOwns(r, k),
           NEW n \in Nat,
           \A i \in SentOwns(r, k)' : i \in Nat /\ i + n \in SentOwns(r, k)
    PROVE  LockInv(r, k, FALSE)'
<1>1. \A i, j \in SentOwns(r, k)' : i = j
  <2>1. \A i, j \in SentOwns(r, k)' : i \in Nat /\ j \in Nat /\ i + n = j + n
    BY DEF LockInv
  <2>. QED
    BY <2>1
<1>2. SentOwns(r, k) = {} => SentOwns(r, k)' = {}
  OBVIOUS
<1>3. FastOwns(r, k)' \/ SlowOwns(r, k)' \/ ApplyOwns(r, k)' => SentOwns(r, k)' = {}
  BY <1>2 DEF LockInv
<1>4. lock'[r][k] = 0 => Unowned(r, k)'
  BY <1>2 DEF LockInv, Unowned
<1>. QED
  BY <1>1, <1>3, <1>4 DEF LockInv

\* What is left of the messages p and then q after a loss at either end.
LEMMA SentSuffix ==
    ASSUME TypeOK, NEW r \in Sites, NEW k, NEW p \in Seq(Message), NEW q \in Seq(Message),
           Transit(r) = p \o q, Transit(r)' = q
    PROVE  \A i \in SentOwns(r, k)' : i \in Nat /\ i + Len(p) \in SentOwns(r, k)
<1>1. /\ Len(p) \in Nat /\ Len(q) \in Nat /\ DOMAIN q = 1..Len(q)
      /\ p \o q \in Seq(Message) /\ Len(p \o q) = Len(p) + Len(q)
      /\ DOMAIN (p \o q) = 1..(Len(p) + Len(q))
      /\ \A i \in 1..Len(p) + Len(q) :
             (p \o q)[i] = IF i <= Len(p) THEN p[i] ELSE q[i - Len(p)]
  BY ConcatProperties, LenProperties
<1>2. ASSUME NEW i \in 1..Len(q) PROVE (p \o q)[i + Len(p)] = q[i]
  BY <1>1
<1>3. \A i : i \in SentOwns(r, k)' <=> i \in DOMAIN q /\ IsSlow(q[i], k)
  BY DEF SentOwns
<1>4. \A i : i \in SentOwns(r, k) <=> i \in DOMAIN (p \o q) /\ IsSlow((p \o q)[i], k)
  BY DEF SentOwns
<1>5. SUFFICES ASSUME NEW i \in SentOwns(r, k)'
               PROVE  i \in Nat /\ i + Len(p) \in SentOwns(r, k)
  OBVIOUS
<1>6. i \in 1..Len(q) /\ IsSlow(q[i], k)
  BY <1>1, <1>3
<1>7. i + Len(p) \in 1..(Len(p) + Len(q)) /\ i \in Nat
  BY <1>1, <1>6
<1>. QED
  BY <1>1, <1>2, <1>4, <1>6, <1>7

LEMMA SentPrefix ==
    ASSUME TypeOK, NEW r \in Sites, NEW k, NEW p \in Seq(Message), NEW q \in Seq(Message),
           Transit(r) = p \o q, NEW n \in 0..Len(p), Transit(r)' = SubSeq(p, 1, n)
    PROVE  \A i \in SentOwns(r, k)' : i \in Nat /\ i + 0 \in SentOwns(r, k)
<1>1. /\ Len(p) \in Nat /\ Len(q) \in Nat
      /\ DOMAIN (p \o q) = 1..(Len(p) + Len(q))
      /\ \A i \in 1..Len(p) + Len(q) :
             (p \o q)[i] = IF i <= Len(p) THEN p[i] ELSE q[i - Len(p)]
  BY ConcatProperties, LenProperties
<1>2. /\ DOMAIN SubSeq(p, 1, n) = 1..n
      /\ \A i \in 1..n : SubSeq(p, 1, n)[i] = p[i]
  BY <1>1
<1>3. \A i : i \in SentOwns(r, k)' <=> i \in DOMAIN SubSeq(p, 1, n) /\ IsSlow(SubSeq(p, 1, n)[i], k)
  BY DEF SentOwns
<1>4. \A i : i \in SentOwns(r, k) <=> i \in DOMAIN (p \o q) /\ IsSlow((p \o q)[i], k)
  BY DEF SentOwns
<1>5. SUFFICES ASSUME NEW i \in SentOwns(r, k)'
               PROVE  i \in Nat /\ i + 0 \in SentOwns(r, k)
  OBVIOUS
<1>6. i \in 1..n /\ IsSlow(p[i], k)
  BY <1>2, <1>3
<1>7. i \in 1..(Len(p) + Len(q)) /\ i <= Len(p) /\ i + 0 = i /\ i \in Nat
  BY <1>1, <1>6
<1>. QED
  BY <1>1, <1>4, <1>6, <1>7

LEMMA SeedingLocks ==
    ASSUME AllLocks(FALSE), NEW s \in Sites, generate_data(s)
    PROVE  AllLocks(FALSE)'
<1>. SUFFICES ASSUME NEW r \in Sites, NEW k \in Keys PROVE LockInv(r, k, FALSE)'
  BY DEF AllLocks
<1>1. LockInv(r, k, FALSE) /\ SentOwns(r, k)' = SentOwns(r, k)
  BY TransitSame, SentSame DEF AllLocks, generate_data
<1>. QED
  BY <1>1, LockSame DEF generate_data, FastOwns, SlowOwns, ApplyOwns

\* The messages the replicater of s publishes to nobody are the last on their
\* way to the peer.
LEMMA DropTransit ==
    ASSUME TypeOK, NEW s \in Sites, RepDrop(s)
    PROVE  /\ net[Other(s)] \in Seq(Message) /\ msg_list[s] \in Seq(Message)
           /\ Transit(Other(s)) = net[Other(s)] \o msg_list[s]
           /\ Transit(Other(s))' = net[Other(s)]
           /\ Transit(s)' = Transit(s)
<1>1. net[Other(s)] \in Seq(Message) /\ msg_list[s] \in Seq(Message)
  BY SitesFacts DEF TypeOK
<1>2. /\ msg_list'[s] = <<>> /\ msg_list'[Other(s)] = msg_list[Other(s)]
      /\ net' = net
  BY SitesFacts DEF TypeOK, RepDrop
<1>3. net[Other(s)] \o <<>> = net[Other(s)]
  BY <1>1, ConcatEmptySeq
<1>. QED
  BY <1>1, <1>2, <1>3, SitesFacts DEF Transit

LEMMA DropLocks ==
    ASSUME TypeOK, AllLocks(FALSE), NEW s \in Sites, RepDrop(s)
    PROVE  AllLocks(FALSE)'
<1>. SUFFICES ASSUME NEW r \in Sites, NEW k \in Keys PROVE LockInv(r, k, FALSE)'
  BY DEF AllLocks
<1>1. LockInv(r, k, FALSE) /\ UNCHANGED <<lock, pc, txn, rep_msg>>
  BY DEF AllLocks, RepDrop
<1>2. /\ FastOwns(r, k)' <=> FastOwns(r, k)
      /\ SlowOwns(r, k)' <=> SlowOwns(r, k)
  BY <1>1 DEF FastOwns, SlowOwns
<1>3. ApplyOwns(r, k)' <=> ApplyOwns(r, k)
  <2>1. /\ rpc[s] \in {"poll", "drain"} /\ rpc'[s] = "poll"
        /\ rpc'[Other(s)] = rpc[Other(s)]
    BY SitesFacts DEF TypeOK, RepDrop
  <2>. QED
    BY <1>1, <2>1, SitesFacts DEF ApplyOwns
<1>4. CASE r = s
  <2>1. SentOwns(r, k)' = SentOwns(r, k)
    BY <1>4, DropTransit, SentSame
  <2>. QED
    BY <1>1, <1>2, <1>3, <2>1, LockSame
<1>5. CASE r = Other(s)
  <2>1. PICK p \in Seq(Message), q \in Seq(Message) :
            /\ p = net[Other(s)] /\ Transit(r) = p \o q /\ Transit(r)' = p
    BY <1>5, DropTransit
  <2>2. PICK n \in 0..Len(p) : Transit(r)' = SubSeq(p, 1, n)
    <3>1. Len(p) \in 0..Len(p) /\ SubSeq(p, 1, Len(p)) = p
      BY LenProperties, SubSeqFull
    <3>. QED
      BY <2>1, <3>1
  <2>3. \A i \in SentOwns(r, k)' : i \in Nat /\ i + 0 \in SentOwns(r, k)
    BY <2>1, <2>2, SentPrefix
  <2>. QED
    BY <1>1, <1>2, <1>3, <2>3, OwnersShrink
<1>. QED
  BY <1>4, <1>5, SitesFacts

\* A server that dies owns nothing any more; what it has sent may be lost
\* from the newest on, and what it had not applied yet is.
LEMMA CrashLocks ==
    ASSUME TypeOK, AllLocks(FALSE), NEW s \in Sites, Crash(s)
    PROVE  AllLocks(FALSE)'
<1>. SUFFICES ASSUME NEW r \in Sites, NEW k \in Keys PROVE LockInv(r, k, FALSE)'
  BY DEF AllLocks
<1>1. LockInv(r, k, FALSE) /\ UNCHANGED <<lock, txn, rep_msg>>
  BY DEF AllLocks, Crash
<1>2. /\ pc'[s] = "idle" /\ pc'[Other(s)] = pc[Other(s)]
      /\ rpc'[s] = "poll" /\ rpc'[Other(s)] = rpc[Other(s)]
      /\ msg_list'[s] = <<>> /\ msg_list'[Other(s)] = msg_list[Other(s)]
  <2>1. DOMAIN pc = Sites /\ DOMAIN rpc = Sites /\ DOMAIN msg_list = Sites
    BY DEF TypeOK
  <2>. QED
    BY <2>1, SitesFacts DEF Crash
<1>3. "idle" \notin FastHeld /\ "idle" \notin SlowHeld
  BY DEF FastHeld, SlowHeld
<1>4. FastOwns(r, k)' => FastOwns(r, k)
  BY <1>1, <1>2, <1>3, SitesFacts DEF FastOwns
<1>5. SlowOwns(r, k)' => SlowOwns(r, k)
  BY <1>1, <1>2, <1>3, SitesFacts DEF SlowOwns
<1>6. ApplyOwns(r, k)' => ApplyOwns(r, k)
  BY <1>1, <1>2, SitesFacts DEF ApplyOwns
<1>7. PICK n \in 0..Len(net[Other(s)]) :
          net' = [net EXCEPT ![s] = <<>>, ![Other(s)] = SubSeq(@, 1, n)]
  BY DEF Crash
<1>8. net'[s] = <<>> /\ net'[Other(s)] = SubSeq(net[Other(s)], 1, n)
  BY <1>7, SitesFacts DEF TypeOK
<1>9. CASE r = s
  <2>1. PICK p \in Seq(Message), q \in Seq(Message) :
            p = net[s] /\ q = msg_list[Other(s)]
    BY SitesFacts DEF TypeOK
  <2>2. Transit(r) = p \o q /\ Transit(r)' = q
    <3>1. <<>> \o q = q
      BY ConcatEmptySeq
    <3>. QED
      BY <1>2, <1>8, <1>9, <2>1, <3>1 DEF Transit
  <2>3. \A i \in SentOwns(r, k)' : i \in Nat /\ i + Len(p) \in SentOwns(r, k)
    BY <2>2, SentSuffix
  <2>4. Len(p) \in Nat
    BY LenProperties
  <2>. QED
    BY <1>1, <1>4, <1>5, <1>6, <2>3, <2>4, OwnersShrink
<1>10. CASE r = Other(s)
  <2>1. PICK p \in Seq(Message), q \in Seq(Message) :
            p = net[Other(s)] /\ q = msg_list[s]
    BY SitesFacts DEF TypeOK
  <2>2. Transit(r) = p \o q /\ Transit(r)' = SubSeq(p, 1, n)
    <3>1. SubSeq(p, 1, n) \in Seq(Message)
      BY <1>7, <2>1
    <3>2. SubSeq(p, 1, n) \o <<>> = SubSeq(p, 1, n)
      BY <3>1, ConcatEmptySeq
    <3>. QED
      BY <1>2, <1>8, <1>10, <2>1, <3>2, SitesFacts DEF Transit
  <2>3. \A i \in SentOwns(r, k)' : i \in Nat /\ i + 0 \in SentOwns(r, k)
    BY <1>7, <2>1, <2>2, SentPrefix
  <2>. QED
    BY <1>1, <1>4, <1>5, <1>6, <2>3, OwnersShrink
<1>. QED
  BY <1>9, <1>10, SitesFacts

LEMMA UnlockSlowFaults ==
    ASSUME TypeOK, UnlockSlow, [NextFaults]_allVars
    PROVE  UnlockSlow'
<1>1. ASSUME NEW s \in Sites, RepDrop(s) PROVE UnlockSlow'
  BY <1>1 DEF TypeOK, RepDrop, UnlockSlow
<1>2. ASSUME NEW s \in Sites, generate_data(s) PROVE UnlockSlow'
  BY <1>2 DEF generate_data, UnlockSlow
<1>3. ASSUME NEW s \in Sites, Crash(s) PROVE UnlockSlow'
  BY <1>3 DEF TypeOK, Crash, UnlockSlow
<1>. QED
  BY <1>1, <1>2, <1>3, FaultSteps, UnlockSlowNext

LEMMA LocksFaultsNext ==
    ASSUME TypeOK, AllLocks(FALSE), UnlockSlow, [NextFaults]_allVars
    PROVE  AllLocks(FALSE)'
<1>1. CASE [Next]_vars
  BY <1>1, LocksNext
<1>. QED
  BY <1>1, FaultSteps, DropLocks, SeedingLocks, CrashLocks

LEMMA LocksFaultsInit == InitFaults => AllLocks(FALSE) /\ UnlockSlow
<1>. SUFFICES ASSUME InitFaults PROVE AllLocks(FALSE) /\ UnlockSlow
  OBVIOUS
<1>1. lock = [s \in Sites |-> [k \in Keys |-> 0]] /\ InitServers
  BY DEF InitFaults
<1>. QED
  BY <1>1, FreshLocks

LEMMA LocksExclude == TypeOK /\ AllLocks(FALSE) => MutualExclusion
<1>. SUFFICES ASSUME TypeOK, AllLocks(FALSE), NEW r \in Sites, NEW k \in Keys
              PROVE  /\ \A a, b \in Owners(r, k) : a = b
                     /\ Owners(r, k) # {} => lock[r][k] > 0
  BY DEF MutualExclusion
<1>1. LockInv(r, k, FALSE) /\ lock[r][k] \in Nat
  BY DEF AllLocks, TypeOK
<1>2. \A a, b \in Owners(r, k) : a = b
  BY <1>1, OneOwner
<1>3. Owners(r, k) = {} <=> Unowned(r, k)
  BY NoOwner
<1>. QED
  BY <1>1, <1>2, <1>3 DEF LockInv

\* Whatever crashes, restarts and losses leave behind, a lock never has two
\* owners and is never free under one: the price of a fault is a lock that
\* stays taken, never a second writer.
THEOREM MutualExclusionCorrect == SpecFaults => []MutualExclusion
<1>. DEFINE Inv == TypeOKFaults /\ AllLocks(FALSE) /\ UnlockSlow
<1>1. InitFaults => Inv
  BY TypeFaultsInit, LocksFaultsInit
<1>2. Inv /\ [NextFaults]_allVars => Inv'
  BY TypeFaultsNext, LocksFaultsNext, UnlockSlowFaults DEF TypeOKFaults
<1>3. Inv => MutualExclusion
  BY LocksExclude DEF TypeOKFaults
<1>. QED
  BY <1>1, <1>2, <1>3, PTL DEF SpecFaults

-----------------------------------------------------------------------------
(***************************************************************************)
(* Counting.  Until the first crash the numbers lost make the difference   *)
(* between what the peer has given out and what is counted or on its way.  *)
(***************************************************************************)
SomeGap == \E gap \in [Sites -> Nat] : SeqnoGap(gap)

LEMMA DropGap ==
    ASSUME TypeOK, NEW gap \in [Sites -> Nat], SeqnoGap(gap), NEW s \in Sites, RepDrop(s)
    PROVE  SomeGap'
<1>1. PICK lost \in Nat : lost = Len(msg_list[s])
  BY LenProperties DEF TypeOK
<1>2. PICK more \in [Sites -> Nat] : more[s] = gap[s] /\ more[Other(s)] = gap[Other(s)] + lost
  <2>1. [gap EXCEPT ![Other(s)] = @ + lost] \in [Sites -> Nat]
    BY SitesFacts
  <2>. QED
    BY <2>1, SitesFacts
<1>3. /\ UNCHANGED <<committedVTS, pc>>
      /\ rpc[s] \in {"poll", "drain"} /\ rpc'[s] = "poll"
      /\ rpc'[Other(s)] = rpc[Other(s)]
  BY SitesFacts DEF TypeOK, RepDrop
<1>4. \A r \in Sites : Applying(r)' = Applying(r) /\ Stamping(r)' = Stamping(r)
  BY <1>3, SitesFacts DEF Applying, Stamping
<1>5. /\ Len(Transit(Other(s))) \in Nat
      /\ Len(Transit(Other(s))') \in Nat
      /\ Len(Transit(Other(s))) = Len(Transit(Other(s))') + lost
      /\ Transit(s)' = Transit(s)
  <2>1. PICK p \in Seq(Message), q \in Seq(Message) :
            /\ q = msg_list[s] /\ Transit(Other(s)) = p \o q
            /\ Transit(Other(s))' = p /\ Transit(s)' = Transit(s)
    BY DropTransit
  <2>2. Len(p) \in Nat /\ Len(q) \in Nat /\ Len(p \o q) = Len(p) + Len(q)
    BY ConcatProperties, LenProperties
  <2>. QED
    BY <1>1, <2>1, <2>2
<1>6. /\ committedVTS[Other(s)][s] \in Nat
      /\ Applying(Other(s)) \in Nat /\ Stamping(s) \in Nat /\ gap[Other(s)] \in Nat
  BY SitesFacts DEF TypeOK, Applying, Stamping
<1>7. committedVTS[s][s] = committedVTS[Other(s)][s] + Len(Transit(Other(s)))
                               + Applying(Other(s)) + Stamping(s) + gap[Other(s)]
  BY SitesFacts DEF SeqnoGap
<1>8. committedVTS[Other(s)][Other(s)] = committedVTS[s][Other(s)] + Len(Transit(s))
                               + Applying(s) + Stamping(Other(s)) + gap[s]
  BY SitesFacts DEF SeqnoGap
<1>9. committedVTS'[s][s] = committedVTS'[Other(s)][s] + Len(Transit(Other(s))')
                               + Applying(Other(s))' + Stamping(s)' + more[Other(s)]
  <2>1. PICK a \in Nat, b \in Nat, c \in Nat, n \in Nat, g \in Nat :
           /\ a = committedVTS[Other(s)][s] /\ b = Len(Transit(Other(s))')
           /\ c = Applying(Other(s)) /\ n = Stamping(s) /\ g = gap[Other(s)]
    BY <1>5, <1>6
  <2>5. Len(Transit(Other(s))) = b + lost
    BY <1>5, <2>1
  <2>2. committedVTS[s][s] = a + (b + lost) + c + n + g
    BY <1>7, <2>1, <2>5
  <2>3. committedVTS'[s][s] = a + b + c + n + (g + lost)
    BY <1>3, <2>2
  <2>4. /\ committedVTS'[Other(s)][s] = a /\ Applying(Other(s))' = c
        /\ Stamping(s)' = n /\ more[Other(s)] = g + lost
    BY <1>2, <1>3, <1>4, <2>1, SitesFacts
  <2>. QED
    BY <2>1, <2>3, <2>4
<1>10. committedVTS'[Other(s)][Other(s)] = committedVTS'[s][Other(s)] + Len(Transit(s)')
                               + Applying(s)' + Stamping(Other(s))' + more[s]
  BY <1>2, <1>3, <1>4, <1>5, <1>8, SitesFacts
<1>11. SeqnoGap(more)'
  <2>1. SUFFICES ASSUME NEW t \in Sites
                 PROVE  committedVTS'[Other(t)][Other(t)] = committedVTS'[t][Other(t)]
                            + Len(Transit(t)') + Applying(t)' + Stamping(Other(t))' + more[t]
    BY DEF SeqnoGap
  <2>2. CASE t = s
    BY <1>10, <2>2
  <2>3. CASE t = Other(s)
    BY <1>9, <2>3, SitesFacts
  <2>. QED
    BY <2>2, <2>3, SitesFacts
<1>. QED
  BY <1>2, <1>11 DEF SomeGap

LEMMA GapFaultsNext ==
    ASSUME TypeOKFaults, crashes = 0 => SomeGap, [NextFaults]_allVars
    PROVE  (crashes = 0 => SomeGap)'
<1>. SUFFICES ASSUME crashes' = 0 PROVE SomeGap'
  OBVIOUS
<1>0. TypeOK /\ crashes \in Nat
  BY CrashesAssumption DEF TypeOKFaults
<1>1. CASE \E s \in Sites : Crash(s)
  BY <1>0, <1>1 DEF Crash
<1>2. CASE crashes' = crashes
  <2>1. PICK gap \in [Sites -> Nat] : SeqnoGap(gap)
    BY <1>2 DEF SomeGap
  <2>2. CASE [Next]_vars
    <3>1. SeqnoGap(gap)'
      BY <1>0, <2>1, <2>2, SeqnoGapNext
    <3>. QED
      BY <3>1 DEF SomeGap
  <2>3. ASSUME NEW s \in Sites, RepDrop(s) PROVE SomeGap'
    BY <1>0, <2>1, <2>3, DropGap
  <2>4. ASSUME NEW s \in Sites, generate_data(s) PROVE SomeGap'
    <3>1. SeqnoGap(gap)'
      BY <1>0, <2>1, <2>4, SeqnoSame DEF generate_data, Applying, Stamping
    <3>. QED
      BY <3>1 DEF SomeGap
  <2>. QED
    BY <1>2, <2>2, <2>3, <2>4, FaultSteps, <1>1
<1>. QED
  BY <1>1, <1>2, FaultSteps DEF generate_data

LEMMA GapFaultsInit == InitFaults => SomeGap
<1>. SUFFICES ASSUME InitFaults PROVE SomeGap
  OBVIOUS
<1>1. TypeOK /\ SeqnoConservation
  BY TypeFaultsInit, FreshSeqno DEF InitFaults, TypeOKFaults
<1>2. NoGap \in [Sites -> Nat] /\ SeqnoGap(NoGap)
  BY <1>1, SeqnoNoGap DEF NoGap
<1>. QED
  BY <1>2 DEF SomeGap

LEMMA GapCounts == TypeOK /\ (crashes = 0 => SomeGap) => NeverCountedTwice
<1>. SUFFICES ASSUME TypeOK, SomeGap, NEW s \in Sites
              PROVE  committedVTS[s][Other(s)] + Len(Transit(s)) + Applying(s) + Stamping(Other(s))
                         <= committedVTS[Other(s)][Other(s)]
  BY DEF NeverCountedTwice
<1>1. PICK gap \in [Sites -> Nat] : SeqnoGap(gap)
  BY DEF SomeGap
<1>2. /\ committedVTS[s][Other(s)] \in Nat /\ Len(Transit(s)) \in Nat
      /\ Applying(s) \in Nat /\ Stamping(Other(s)) \in Nat /\ gap[s] \in Nat
  BY TransitType, SitesFacts, LenProperties DEF TypeOK, Applying, Stamping
<1>3. committedVTS[Other(s)][Other(s)] =
          committedVTS[s][Other(s)] + Len(Transit(s)) + Applying(s) + Stamping(Other(s)) + gap[s]
  BY <1>1 DEF SeqnoGap
<1>. QED
  BY <1>2, <1>3

\* Lost messages leave a vector behind the peer's numbers and never ahead of
\* them, as long as no server has crashed.
THEOREM NeverCountedTwiceCorrect == SpecFaults => []NeverCountedTwice
<1>. DEFINE Inv == TypeOKFaults /\ (crashes = 0 => SomeGap)
<1>1. InitFaults => Inv
  BY TypeFaultsInit, GapFaultsInit
<1>2. Inv /\ [NextFaults]_allVars => Inv'
  BY TypeFaultsNext, GapFaultsNext
<1>3. Inv => NeverCountedTwice
  BY GapCounts DEF TypeOKFaults
<1>. QED
  BY <1>1, <1>2, <1>3, PTL DEF SpecFaults

-----------------------------------------------------------------------------
(***************************************************************************)
(* Edits.  Until the first crash a replica may miss commits, and the seed. *)
(* A slow commit that is lost leaves the lock of its diary taken for good, *)
(* so no later edit is checked against a history without it; and what is   *)
(* not lost keeps its order.                                               *)
(***************************************************************************)
Early ==
    /\ SomeGap /\ ClockBound /\ VersionsUnique
    /\ EditInv(FALSE) /\ Orders(FALSE) /\ HomeSlow

LEMMA HeadOfSeed ==
    ASSUME TypeOKFaults, NEW s \in Sites, generate_data(s)
    PROVE  \E q \in Keys : history' = [history EXCEPT ![s][q] = Append(@, Zero)]
<1>1. toSeed[s] \in Seq(Keys) /\ toSeed[s] # <<>>
  BY DEF TypeOKFaults, generate_data
<1>2. Head(toSeed[s]) \in Keys
  BY <1>1, HeadTailProperties
<1>. QED
  BY <1>2 DEF generate_data

LEMMA SeedingEdit ==
    ASSUME TypeOKFaults, EditInv(FALSE), NEW s \in Sites, generate_data(s)
    PROVE  EditInv(FALSE)'
<1>1. TypeOK /\ Zero \in Version
  BY VersionTypes DEF TypeOKFaults
<1>2. PICK q \in Keys : history' = [history EXCEPT ![s][q] = Append(@, Zero)]
  BY HeadOfSeed
<1>3. /\ Growing
      /\ \A t \in Sites, k \in DiaryKeys : \A v :
            Holds(t, k, v)' => Holds(t, k, v) \/ v = Zero
  <2>1. /\ Growing
        /\ Holds(s, q, Zero)'
        /\ \A t \in Sites, k \in DiaryKeys : \A v :
              Holds(t, k, v)' => Holds(t, k, v) \/ (t = s /\ k = q /\ v = Zero)
    BY <1>1, <1>2, GrowingPush
  <2>. QED
    BY <2>1
<1>4. UNCHANGED <<lock, committedVTS, pc, txn, msg_list, net, rpc, rep_msg, pages, committed>>
  BY DEF generate_data
<1>5. \A r \in Sites : Transit(r)' = Transit(r)
  BY <1>4, TransitSame
<1>6. Rising' /\ Chained(FALSE)'
  BY <1>4, CommitsSame DEF EditInv
<1>7. StoredKnown'
  <2>1. \A t \in Sites, k \in DiaryKeys : \A v : Holds(t, k, v) => Known(k, v)
    BY DEF EditInv, StoredKnown, Holds
  <2>2. \A k, v : Known(k, v)' <=> Known(k, v)
    BY <1>4 DEF Known
  <2>3. \A k : Known(k, Zero)
    BY DEF Known
  <2>4. \A t \in Sites, k \in DiaryKeys : \A v : Holds(t, k, v)' => Known(k, v)'
    BY <1>3, <2>1, <2>2, <2>3
  <2>. QED
    BY <2>4 DEF StoredKnown, Holds
<1>8. PagesHeld'
  BY <1>3, <1>4, HomeFacts DEF EditInv, PagesHeld, Growing
<1>9. SentKnown'
  BY <1>4, <1>5, SentKeeps DEF EditInv
<1>10. Handlers(FALSE)'
  BY <1>3, <1>4, HandlerSame DEF EditInv, Handlers
<1>11. \A r \in Sites : \A k : SentOwns(r, k)' = SentOwns(r, k)
  BY <1>5, SentSame
<1>12. Stuck(FALSE)
  <2>1. ASSUME NEW k \in DiaryKeys, Abandoned(Home(k), k) PROVE Abandoned(Home(k), k)'
    <3>1. Home(k) \in Sites /\ (Home(k))' = Home(k)
      BY HomeFacts DEF Home
    <3>. QED
      BY <1>4, <1>11, <2>1, <3>1 DEF Abandoned, Unowned, FastOwns, SlowOwns, ApplyOwns
  <2>. QED
    BY <2>1 DEF Stuck
<1>13. ASSUME NEW k \in DiaryKeys, NEW v, Owed(k, v) PROVE Owed(k, v)'
  <2>1. Home(k) \in Sites /\ (Home(k))' = Home(k)
    BY HomeFacts DEF Home
  <2>. QED
    BY <1>4, <1>5, <1>11, <1>13, <2>1 DEF Owed
<1>14. HomeStores(FALSE)'
  BY <1>3, <1>4, <1>12, <1>13, HomeKeeps DEF EditInv
<1>. QED
  BY <1>6, <1>7, <1>8, <1>9, <1>10, <1>14 DEF EditInv

\* A message of s that is dropped was the owner of a lock, or is no slow one.
LEMMA DropOwed ==
    ASSUME TypeOK, AllLocks(FALSE), NEW s \in Sites, RepDrop(s),
           NEW r \in Sites, NEW k \in Keys, NEW i \in SentOwns(r, k)
    PROVE  \/ i \in SentOwns(r, k)' /\ Transit(r)'[i] = Transit(r)[i]
           \/ Abandoned(r, k)'
<1>1. PICK p \in Seq(Message), q \in Seq(Message) :
         /\ p = net[Other(s)] /\ q = msg_list[s]
         /\ Transit(Other(s)) = p \o q /\ Transit(Other(s))' = p /\ Transit(s)' = Transit(s)
  BY DropTransit
<1>2. CASE r = s
  BY <1>1, <1>2 DEF SentOwns
<1>3. CASE r = Other(s)
  <2>1. /\ Len(p) \in Nat /\ Len(q) \in Nat /\ DOMAIN p = 1..Len(p)
        /\ DOMAIN (p \o q) = 1..(Len(p) + Len(q))
        /\ \A j \in 1..Len(p) : (p \o q)[j] = p[j]
    BY ConcatProperties, LenProperties
  <2>2. i \in 1..(Len(p) + Len(q)) /\ IsSlow((p \o q)[i], k)
    BY <1>1, <1>3, <2>1 DEF SentOwns
  <2>3. CASE i \in 1..Len(p)
    BY <1>1, <1>3, <2>1, <2>2, <2>3 DEF SentOwns
  <2>4. CASE i \notin 1..Len(p)
    <3>1. /\ LockInv(r, k, FALSE) /\ lock[r][k] \in Nat /\ UNCHANGED <<lock, pc, txn, rep_msg>>
          /\ rpc'[r] = rpc[r]
      <4>1. lock[r][k] \in Nat /\ rpc'[r] = rpc[r]
        BY <1>3, SitesFacts DEF TypeOK, RepDrop
      <4>. QED
        BY <4>1 DEF AllLocks, RepDrop
    <3>2. /\ ~ FastOwns(r, k) /\ ~ SlowOwns(r, k) /\ ~ ApplyOwns(r, k)
          /\ \A j \in SentOwns(r, k) : j = i
          /\ lock[r][k] > 0
      <4>1. SentOwns(r, k) # {}
        OBVIOUS
      <4>. QED
        BY <3>1, <4>1 DEF LockInv, Unowned
    <3>3. SentOwns(r, k)' = {}
      <4>1. ASSUME NEW j \in SentOwns(r, k)' PROVE FALSE
        <5>1. j \in 1..Len(p) /\ IsSlow(p[j], k)
          BY <1>1, <1>3, <2>1 DEF SentOwns
        <5>2. j \in DOMAIN (p \o q) /\ IsSlow((p \o q)[j], k)
          BY <2>1, <5>1
        <5>3. j \in SentOwns(r, k)
          BY <1>1, <1>3, <5>2 DEF SentOwns
        <5>. QED
          BY <2>4, <3>2, <5>1, <5>3
      <4>. QED
        BY <4>1
    <3>4. ~ FastOwns(r, k)' /\ ~ SlowOwns(r, k)' /\ ~ ApplyOwns(r, k)'
      BY <3>1, <3>2 DEF FastOwns, SlowOwns, ApplyOwns
    <3>. QED
      BY <3>1, <3>2, <3>3, <3>4 DEF Abandoned, Unowned
  <2>. QED
    BY <2>3, <2>4
<1>. QED
  BY <1>2, <1>3, SitesFacts

LEMMA DropEdit ==
    ASSUME TypeOK, AllLocks(FALSE), EditInv(FALSE), NEW s \in Sites, RepDrop(s)
    PROVE  EditInv(FALSE)'
<1>1. UNCHANGED <<history, lock, committedVTS, pc, txn, net, rep_msg, pages, committed>>
  BY DEF RepDrop
<1>2. /\ rpc[s] \in {"poll", "drain"} /\ rpc'[s] = "poll"
      /\ rpc'[Other(s)] = rpc[Other(s)]
  BY SitesFacts, RpcType DEF RepDrop
<1>3. \A r \in Sites : rpc'[r] \in {"push", "unlock"} \/ rpc[r] \in {"push", "unlock"} => rpc'[r] = rpc[r]
  BY <1>2, SitesFacts
<1>4. \A r \in Sites : \A i \in DOMAIN Transit(r)' : i \in DOMAIN Transit(r) /\ Transit(r)'[i] = Transit(r)[i]
  <2>1. PICK p \in Seq(Message), q \in Seq(Message) :
           /\ p = net[Other(s)] /\ q = msg_list[s]
           /\ Transit(Other(s)) = p \o q /\ Transit(Other(s))' = p /\ Transit(s)' = Transit(s)
    BY DropTransit
  <2>2. /\ Len(p) \in Nat /\ Len(q) \in Nat /\ DOMAIN p = 1..Len(p)
        /\ DOMAIN (p \o q) = 1..(Len(p) + Len(q))
        /\ \A j \in 1..Len(p) : (p \o q)[j] = p[j]
    BY ConcatProperties, LenProperties
  <2>3. \A i \in DOMAIN p : i \in DOMAIN (p \o q) /\ p[i] = (p \o q)[i]
    BY <2>2
  <2>. QED
    BY <2>1, <2>3, SitesFacts
<1>5. Growing
  BY <1>1, GrowingSame
<1>6. Rising' /\ Chained(FALSE)' /\ StoredKnown' /\ PagesHeld'
  BY <1>1, CommitsSame, StoredSame DEF EditInv
<1>7. SentKnown'
  <2>1. \A m : MessageKnown(m) => MessageKnown(m)'
    BY <1>1 DEF MessageKnown, Known
  <2>2. ASSUME NEW r \in Sites
        PROVE  /\ \A i \in DOMAIN Transit(r)' : MessageKnown(Transit(r)'[i])
               /\ rpc'[r] = "push" => MessageKnown(rep_msg'[r])
    BY <1>1, <1>3, <1>4 DEF EditInv, SentKnown
  <2>. QED
    BY <1>1, <2>2 DEF SentKnown, MessageKnown, Known
<1>8. Handlers(FALSE)'
  BY <1>1, <1>5, HandlerSame DEF EditInv, Handlers
<1>9. Stuck(FALSE)
  <2>1. ASSUME NEW k \in DiaryKeys, Abandoned(Home(k), k) PROVE Abandoned(Home(k), k)'
    <3>1. Home(k) \in Sites /\ (Home(k))' = Home(k)
      BY HomeFacts DEF Home
    <3>2. SentOwns(Home(k), k)' \subseteq SentOwns(Home(k), k)
      BY <1>4, <3>1 DEF SentOwns
    <3>3. ApplyOwns(Home(k), k)' => ApplyOwns(Home(k), k)
      BY <1>1, <1>3, <3>1 DEF ApplyOwns
    <3>. QED
      BY <1>1, <2>1, <3>1, <3>2, <3>3 DEF Abandoned, Unowned, FastOwns, SlowOwns
  <2>. QED
    BY <2>1 DEF Stuck
<1>10. ASSUME NEW k \in DiaryKeys, NEW v, Owed(k, v)
       PROVE  Owed(k, v)' \/ Missed(k, v)'
  <2>1. Home(k) \in Sites /\ (Home(k))' = Home(k) /\ k \in Keys
    BY HomeFacts DEF Home
  <2>2. ASSUME NEW i \in SentOwns(Home(k), k), Transit(Home(k))[i].ver = v
        PROVE  Owed(k, v)' \/ Missed(k, v)'
    <3>1. \/ i \in SentOwns(Home(k), k)' /\ Transit(Home(k))'[i] = Transit(Home(k))[i]
          \/ Abandoned(Home(k), k)'
      BY <2>1, DropOwed
    <3>. QED
      BY <2>1, <2>2, <3>1 DEF Owed, Missed
  <2>. QED
    BY <1>1, <1>3, <1>10, <2>1, <2>2 DEF Owed
<1>11. HomeStores(FALSE)'
  BY <1>1, <1>5, <1>9, <1>10, HomeKeeps DEF EditInv
<1>. QED
  BY <1>6, <1>7, <1>8, <1>11 DEF EditInv

-----------------------------------------------------------------------------
\* generate_data stores a version no commit has.
LEMMA StoreSeed ==
    ASSUME NEW h \in Seq(Version), NEW cs, NEW p, NEW k, NEW mine,
           Gapped(h, cs, p, k, mine), \A n \in DOMAIN cs : cs[n].ver # Zero,
           cs # <<>> => Len(cs) \in DOMAIN cs
    PROVE  Gapped(Append(h, Zero), cs, p, k, mine)
<1>. DEFINE g == Append(h, Zero)
<1>1. /\ Len(h) \in Nat /\ DOMAIN h = 1..Len(h) /\ DOMAIN g = 1..(Len(h) + 1)
      /\ \A i \in 1..Len(h) : g[i] = h[i]
      /\ g[Len(h) + 1] = Zero
  BY AppendFacts, VersionTypes
<1>2. \A v : Before(cs, Zero, v) /\ Before(cs, v, Zero)
  BY DEF Before
<1>3. \A i \in DOMAIN g : g[i] = Zero \/ (i \in DOMAIN h /\ g[i] = h[i])
  BY <1>1
<1>. HIDE DEF g
<1>4. \A i, j \in DOMAIN g : i < j => Before(cs, g[i], g[j])
  BY <1>2, <1>3 DEF Gapped
<1>5. \A i \in DOMAIN g, j \in Items(p, k) : Before(cs, g[i], p[j].ver)
  BY <1>2, <1>3 DEF Gapped
<1>6. mine # {} => \A i \in DOMAIN g : g[i] # cs[Len(cs)].ver
  BY <1>3 DEF Gapped
<1>7. Gapped(g, cs, p, k, mine)
  BY <1>4, <1>5, <1>6 DEF Gapped
<1>. QED
  BY <1>7 DEF g

LEMMA SeedingOrder ==
    ASSUME TypeOKFaults, Rising, Orders(FALSE), HomeSlow, NEW s \in Sites, generate_data(s)
    PROVE  Orders(FALSE)' /\ HomeSlow'
<1>1. PICK q \in Keys : history' = [history EXCEPT ![s][q] = Append(@, Zero)]
  BY HeadOfSeed
<1>2. UNCHANGED <<pc, txn, msg_list, net, rpc, rep_msg, committed>>
  BY DEF generate_data
<1>3. \A r \in Sites : Way(r)' = Way(r)
  BY <1>2, TransitSame, WaySame DEF InHand, Made, MadeMsg
<1>4. \A r \in Sites, k \in DiaryKeys : Mine(r, k)' = Mine(r, k)
  BY <1>2 DEF Mine
<1>7. TypeOK
  BY DEF TypeOKFaults
<1>5. ASSUME NEW r \in Sites, NEW k \in DiaryKeys PROVE OrderInv(r, k, FALSE)'
  <2>1. Gapped(history[r][k], committed[k], Way(r), k, Mine(r, k))
    BY DEF Orders, OrderInv, Ordered
  <2>2. PICK h \in Seq(Version), cs \in Seq(Commit) : h = history[r][k] /\ cs = committed[k]
    <3>1. history[r][k] \in Seq(Version) /\ committed[k] \in Seq(Commit)
      BY <1>7, HomeFacts, HistoryType, CommittedType
    <3>. QED
      BY <3>1
  <2>3. history'[r][k] = h \/ history'[r][k] = Append(h, Zero)
    BY <1>1, <1>7, <2>2, HomeFacts, HistoryType
  <2>4. \A n \in DOMAIN cs : cs[n].ver # Zero
    <3>1. Leq(Zero, Zero)
      BY DEF Leq, Zero
    <3>. QED
      BY <2>2, <3>1 DEF Rising
  <2>5. cs # <<>> => Len(cs) \in DOMAIN cs
    BY EmptySeq, LenProperties
  <2>6. Gapped(Append(h, Zero), cs, Way(r), k, Mine(r, k))
    BY <2>1, <2>2, <2>4, <2>5, StoreSeed
  <2>7. Gapped(history'[r][k], committed'[k], Way(r)', k, Mine(r, k)')
    BY <1>2, <1>3, <1>4, <2>1, <2>2, <2>3, <2>6
  <2>. QED
    BY <2>7 DEF OrderInv, Ordered
<1>6. HomeSlow'
  BY <1>3 DEF HomeSlow, Home
<1>. QED
  BY <1>5, <1>6 DEF Orders

\* q is a subsequence of p.
Within(q, p) ==
    \E f : /\ \A i \in DOMAIN q : f[i] \in DOMAIN p /\ q[i] = p[f[i]]
           /\ \A i, j \in DOMAIN q : i < j => f[i] < f[j]

LEMMA JoinedFacts ==
    ASSUME NEW a \in Seq(Message), NEW b \in Seq(Message), NEW c, c = a \o b
    PROVE  /\ Len(a) \in Nat /\ Len(b) \in Nat
           /\ c \in Seq(Message) /\ Len(c) = Len(a) + Len(b)
           /\ DOMAIN c = 1..(Len(a) + Len(b))
           /\ \A i \in 1..Len(a) : c[i] = a[i]
           /\ \A i \in (Len(a) + 1)..(Len(a) + Len(b)) : c[i] = b[i - Len(a)]
<1>1. /\ Len(a) \in Nat /\ Len(b) \in Nat
      /\ a \o b \in Seq(Message) /\ Len(a \o b) = Len(a) + Len(b)
      /\ \A i \in 1..Len(a) + Len(b) :
             (a \o b)[i] = IF i <= Len(a) THEN a[i] ELSE b[i - Len(a)]
  BY ConcatProperties, LenProperties
<1>2. DOMAIN (a \o b) = 1..(Len(a) + Len(b))
  BY <1>1, LenProperties
<1>. QED
  BY <1>1, <1>2

\* Where the c of a way a, b, c, d is lost, the rest keeps its order.
LEMMA LossMap ==
    ASSUME NEW a \in Seq(Message), NEW b \in Seq(Message),
           NEW c \in Seq(Message), NEW d \in Seq(Message),
           NEW p, p = (a \o (b \o c)) \o d, NEW q, q = (a \o b) \o d
    PROVE  Within(q, p)
<1>0. PICK x, y, z : x = a \o z /\ y = a \o b /\ z = b \o c /\ p = x \o d /\ q = y \o d
  OBVIOUS
<1>1. /\ z \in Seq(Message) /\ Len(z) = Len(b) + Len(c)
      /\ \A i \in 1..Len(b) : z[i] = b[i]
  BY <1>0, JoinedFacts
<1>2. /\ y \in Seq(Message) /\ Len(y) = Len(a) + Len(b)
      /\ \A i \in 1..Len(a) : y[i] = a[i]
      /\ \A i \in (Len(a) + 1)..(Len(a) + Len(b)) : y[i] = b[i - Len(a)]
  BY <1>0, JoinedFacts
<1>3. /\ x \in Seq(Message) /\ Len(x) = Len(a) + Len(z)
      /\ \A i \in 1..Len(a) : x[i] = a[i]
      /\ \A i \in (Len(a) + 1)..(Len(a) + Len(z)) : x[i] = z[i - Len(a)]
  BY <1>0, <1>1, JoinedFacts
<1>4. PICK n \in Nat, l \in Nat, m \in Nat : n = Len(y) /\ l = Len(c) /\ m = Len(d) /\ Len(x) = n + l
  <2>1. Len(a) \in Nat /\ Len(b) \in Nat /\ Len(c) \in Nat /\ Len(d) \in Nat
    BY LenProperties
  <2>. QED
    BY <1>1, <1>2, <1>3, <2>1
<1>5. \A i \in 1..n : x[i] = y[i]
  <2>1. Len(a) \in Nat /\ Len(b) \in Nat /\ Len(c) \in Nat
    BY LenProperties
  <2>2. SUFFICES ASSUME NEW i \in 1..n PROVE x[i] = y[i]
    OBVIOUS
  <2>3. CASE i <= Len(a)
    BY <1>2, <1>3, <1>4, <2>1, <2>3
  <2>4. CASE ~ i <= Len(a)
    <3>1. i - Len(a) \in 1..Len(b) /\ i \in (Len(a) + 1)..(Len(a) + Len(b))
          /\ i \in (Len(a) + 1)..(Len(a) + Len(z))
      BY <1>1, <1>2, <1>4, <2>1, <2>4
    <3>. QED
      BY <1>1, <1>2, <1>3, <3>1
  <2>. QED
    BY <2>3, <2>4
<1>6. /\ DOMAIN p = 1..(Len(x) + Len(d))
      /\ \A i \in 1..Len(x) : p[i] = x[i]
      /\ \A i \in (Len(x) + 1)..(Len(x) + Len(d)) : p[i] = d[i - Len(x)]
  <2>1. p = x \o d /\ x \in Seq(Message)
    BY <1>0, <1>3
  <2>. QED
    BY <2>1, JoinedFacts
<1>7. /\ DOMAIN p = 1..((n + l) + m)
      /\ \A i \in 1..(n + l) : p[i] = x[i]
      /\ \A i \in ((n + l) + 1)..((n + l) + m) : p[i] = d[i - (n + l)]
  BY <1>4, <1>6
<1>8. /\ DOMAIN q = 1..(n + m)
      /\ \A i \in 1..n : q[i] = y[i]
      /\ \A i \in (n + 1)..(n + m) : q[i] = d[i - n]
  BY <1>0, <1>2, <1>4, JoinedFacts
<1>. DEFINE f == [i \in 1..(n + m) |-> IF i <= n THEN i ELSE i + l]
<1>9. ASSUME NEW i \in DOMAIN q PROVE f[i] \in DOMAIN p /\ q[i] = p[f[i]]
  <2>1. i \in 1..(n + m)
    BY <1>8
  <2>2. CASE i <= n
    <3>1. i \in 1..n /\ f[i] = i /\ i \in 1..(n + l) /\ i \in 1..((n + l) + m)
      BY <2>1, <2>2
    <3>. QED
      BY <1>5, <1>7, <1>8, <3>1
  <2>3. CASE ~ i <= n
    <3>1. /\ f[i] = i + l /\ i \in (n + 1)..(n + m)
          /\ i + l \in ((n + l) + 1)..((n + l) + m) /\ i + l \in 1..((n + l) + m)
          /\ (i + l) - (n + l) = i - n
      BY <2>1, <2>3
    <3>. HIDE DEF f
    <3>. QED
      BY <1>7, <1>8, <3>1
  <2>. QED
    BY <2>2, <2>3
<1>10. ASSUME NEW i \in DOMAIN q, NEW j \in DOMAIN q, i < j PROVE f[i] < f[j]
  <2>1. i \in 1..(n + m) /\ j \in 1..(n + m)
    BY <1>8
  <2>2. /\ f[i] = IF i <= n THEN i ELSE i + l
        /\ f[j] = IF j <= n THEN j ELSE j + l
    BY <2>1
  <2>. HIDE DEF f
  <2>. QED
    BY <1>10, <2>1, <2>2
<1>. HIDE DEF f
<1>. QED
  BY <1>9, <1>10 DEF Within

LEMMA DropOrder ==
    ASSUME TypeOK, Orders(FALSE), HomeSlow, NEW s \in Sites, RepDrop(s)
    PROVE  Orders(FALSE)' /\ HomeSlow'
<1>1. UNCHANGED <<history, pc, txn, rep_msg, committed>>
  BY DEF RepDrop
<1>2. /\ rpc[s] \in {"poll", "drain"} /\ rpc'[s] = "poll"
      /\ rpc'[Other(s)] = rpc[Other(s)]
  BY SitesFacts, RpcType DEF RepDrop
<1>3. \A r \in Sites : InHand(r)' = InHand(r) /\ Made(r)' = Made(r)
  BY <1>1, <1>2, SitesFacts DEF InHand, Made, MadeMsg
<1>4. ASSUME NEW r \in Sites PROVE Within(Way(r)', Way(r))
  <2>1. CASE r = s
    <3>1. Way(r)' = Way(r)
      BY <1>3, <2>1, DropTransit, SitesFacts DEF Way
    <3>. DEFINE f == [i \in DOMAIN Way(r) |-> i]
    <3>2. /\ \A i \in DOMAIN Way(r) : f[i] \in DOMAIN Way(r) /\ Way(r)[i] = Way(r)[f[i]]
          /\ \A i, j \in DOMAIN Way(r) : i < j => f[i] < f[j]
      OBVIOUS
    <3>. HIDE DEF f
    <3>3. Within(Way(r), Way(r))
      BY <3>2 DEF Within
    <3>. QED
      BY <3>1, <3>3
  <2>2. CASE r = Other(s)
    <3>1. PICK a \in Seq(Message), b \in Seq(Message), c \in Seq(Message), d \in Seq(Message) :
             /\ a = InHand(r) /\ b = net[r] /\ c = msg_list[s] /\ d = Made(s)
      BY <2>2, WayParts, DropTransit, SitesFacts
    <3>2. Way(r) = (a \o (b \o c)) \o d /\ Way(r)' = (a \o b) \o d
      BY <1>3, <2>2, <3>1, DropTransit, SitesFacts DEF Way
    <3>. QED
      BY <3>2, LossMap
  <2>. QED
    BY <2>1, <2>2, SitesFacts
<1>5. ASSUME NEW r \in Sites, NEW k \in DiaryKeys PROVE OrderInv(r, k, FALSE)'
  <2>1. Gapped(history[r][k], committed[k], Way(r), k, Mine(r, k))
    BY DEF Orders, OrderInv, Ordered
  <2>. DEFINE q == Way(r)'
  <2>2. PICK f : /\ \A i \in DOMAIN q : f[i] \in DOMAIN Way(r) /\ q[i] = Way(r)[f[i]]
                 /\ \A i, j \in DOMAIN q : i < j => f[i] < f[j]
    BY <1>4 DEF Within
  <2>3. /\ \A i \in Items(q, k) : f[i] \in Items(Way(r), k) /\ q[i] = Way(r)[f[i]]
        /\ \A i, j \in Items(q, k) : i < j => f[i] < f[j]
    BY <2>2 DEF Items
  <2>. HIDE DEF q
  <2>4. Gapped(history[r][k], committed[k], q, k, Mine(r, k))
    BY <2>1, <2>3, GappedMoved
  <2>5. Mine(r, k)' = Mine(r, k)
    BY <1>1 DEF Mine
  <2>. QED
    BY <1>1, <2>4, <2>5 DEF OrderInv, Ordered, q
<1>6. HomeSlow'
  <2>1. SUFFICES ASSUME NEW r \in Sites, NEW i \in DOMAIN Way(r)',
                        Way(r)'[i].key \in DiaryKeys, Home(Way(r)'[i].key) = r
                 PROVE  Way(r)'[i].commit_type = "SLOW_CMT"
    BY DEF HomeSlow, Home
  <2>2. PICK f : f[i] \in DOMAIN Way(r) /\ Way(r)'[i] = Way(r)[f[i]]
    BY <1>4 DEF Within
  <2>. QED
    BY <2>1, <2>2 DEF HomeSlow
<1>. QED
  BY <1>5, <1>6 DEF Orders

-----------------------------------------------------------------------------
\* What holds before the first crash.
LEMMA EarlyInit == InitFaults => Early
<1>. SUFFICES ASSUME InitFaults PROVE Early
  OBVIOUS
<1>1. /\ \A k \in DiaryKeys : committed[k] = <<>> /\ DOMAIN committed[k] = {}
      /\ \A k \in Keys : DOMAIN committed[k] = {}
  BY HomeFacts, EmptySeq DEF InitFaults, InitServers
<1>2. \A s \in Sites, k \in DiaryKeys : history[s][k] = <<>> /\ DOMAIN history[s][k] = {}
  BY HomeFacts, EmptySeq DEF InitFaults
<1>3. \A r \in Sites : /\ Transit(r) = <<>> /\ DOMAIN Transit(r) = {}
                        /\ Way(r) = <<>> /\ DOMAIN Way(r) = {}
  <2>1. <<>> \o <<>> = <<>> /\ DOMAIN <<>> = {}
    BY ConcatEmptySeq, EmptySeq
  <2>2. \A r \in Sites : Transit(r) = <<>> /\ InHand(r) = <<>> /\ Made(r) = <<>>
    BY <2>1, SitesFacts DEF InitFaults, InitServers, Transit, InHand, Made, Stamped
  <2>. QED
    BY <2>1, <2>2, SitesFacts DEF Way
<1>4. SomeGap
  BY GapFaultsInit
<1>5. ClockBound /\ VersionsUnique
  BY <1>1 DEF ClockBound, VersionsUnique
<1>6. EditInv(FALSE)
  <2>1. Rising /\ Chained(FALSE)
    BY <1>1 DEF Rising, Chained
  <2>2. StoredKnown
    BY <1>2 DEF StoredKnown
  <2>3. PagesHeld
    BY DEF PagesHeld, InitFaults, InitServers
  <2>4. SentKnown
    BY <1>3 DEF SentKnown, InitFaults, InitServers
  <2>5. Handlers(FALSE)
    BY DEF Handlers, HandlerInv, InitFaults, InitServers, FastHeld, SlowHeld, Stamped
  <2>6. HomeStores(FALSE)
    BY <1>1 DEF HomeStores, Known, Missed
  <2>. QED
    BY <2>1, <2>2, <2>3, <2>4, <2>5, <2>6 DEF EditInv
<1>7. Orders(FALSE)
  <2>1. SUFFICES ASSUME NEW s \in Sites, NEW k \in DiaryKeys PROVE OrderInv(s, k, FALSE)
    BY DEF Orders
  <2>2. Mine(s, k) = {} /\ Items(Way(s), k) = {}
    BY <1>3 DEF InitFaults, InitServers, Mine, Items
  <2>. QED
    BY <1>2, <2>2 DEF OrderInv, Ordered, Gapped
<1>8. HomeSlow
  BY <1>3 DEF HomeSlow
<1>. QED
  BY <1>4, <1>5, <1>6, <1>7, <1>8 DEF Early

LEMMA EarlyNext ==
    ASSUME TypeOKFaults, TypeOKFaults', AllLocks(FALSE), UnlockSlow, crashes = 0 => Early,
           [NextFaults]_allVars
    PROVE  (crashes = 0 => Early)'
<1>. SUFFICES ASSUME crashes' = 0 PROVE Early'
  OBVIOUS
<1>1. TypeOK /\ TypeOK' /\ crashes \in Nat
  BY CrashesAssumption DEF TypeOKFaults
<1>2. ~ \E s \in Sites : Crash(s)
  BY <1>1 DEF Crash
<1>3. crashes = 0
  BY <1>2, FaultSteps DEF generate_data
<1>4. SomeGap'
  BY <1>3, GapFaultsNext DEF Early
<1>5. CASE [Next]_vars
  <2>1. Behind
    <3>1. PICK gap \in [Sites -> Nat] : SeqnoGap(gap)
      BY <1>3 DEF Early, SomeGap
    <3>. QED
      BY <1>1, <3>1, VectorBehind
  <2>2. ClockBound' /\ VersionsUnique'
    BY <1>1, <1>3, <1>5, <2>1, UniqueNext DEF Early
  <2>3. EditInv(FALSE)'
    BY <1>1, <1>3, <1>5, EditNext DEF Early
  <2>4. Rising'
    BY <2>3 DEF EditInv
  <2>5. Orders(FALSE)' /\ HomeSlow'
    BY <1>1, <1>3, <1>5, <2>2, <2>4, OrderNext DEF Early
  <2>. QED
    BY <1>4, <2>2, <2>3, <2>5 DEF Early
<1>6. ASSUME NEW s \in Sites, generate_data(s) PROVE Early'
  <2>1. ClockBound' /\ VersionsUnique'
    BY <1>3, <1>6 DEF generate_data, ClockBound, VersionsUnique, Early
  <2>2. EditInv(FALSE)'
    BY <1>3, <1>6, SeedingEdit DEF Early
  <2>3. Orders(FALSE)' /\ HomeSlow'
    BY <1>3, <1>6, SeedingOrder DEF Early, EditInv
  <2>. QED
    BY <1>4, <2>1, <2>2, <2>3 DEF Early
<1>7. ASSUME NEW s \in Sites, RepDrop(s) PROVE Early'
  <2>1. ClockBound' /\ VersionsUnique'
    BY <1>3, <1>7 DEF RepDrop, ClockBound, VersionsUnique, Early
  <2>2. EditInv(FALSE)'
    BY <1>1, <1>3, <1>7, DropEdit DEF Early
  <2>3. Orders(FALSE)' /\ HomeSlow'
    BY <1>1, <1>3, <1>7, DropOrder DEF Early
  <2>. QED
    BY <1>4, <2>1, <2>2, <2>3 DEF Early
<1>. QED
  BY <1>2, <1>5, <1>6, <1>7, FaultSteps

LEMMA EarlyOrder == TypeOK /\ (crashes = 0 => Early) => OrderedReplicas
<1>. SUFFICES ASSUME TypeOK, Early, NEW k \in DiaryKeys, NEW s \in Sites,
                     NEW i \in DOMAIN history[s][k], NEW j \in DOMAIN history[s][k], i < j,
                     history[s][k][i] # Zero, history[s][k][j] # Zero
              PROVE  \E m, n \in DOMAIN committed[k] :
                         /\ m < n
                         /\ history[s][k][i] = committed[k][m].ver
                         /\ history[s][k][j] = committed[k][n].ver
  BY DEF OrderedReplicas
<1>1. Known(k, history[s][k][i]) /\ Known(k, history[s][k][j])
  BY DEF Early, EditInv, StoredKnown
<1>2. PICK m \in DOMAIN committed[k] : history[s][k][i] = committed[k][m].ver
  BY <1>1 DEF Known
<1>3. PICK n \in DOMAIN committed[k] : history[s][k][j] = committed[k][n].ver
  BY <1>1 DEF Known
<1>4. Before(committed[k], history[s][k][i], history[s][k][j])
  BY DEF Early, Orders, OrderInv, Ordered, Gapped
<1>5. m < n
  BY <1>2, <1>3, <1>4 DEF Before
<1>. QED
  BY <1>2, <1>3, <1>5

LEMMA EarlyChain == (crashes = 0 => Early) => NoEditOverwritten
<1>. SUFFICES ASSUME Early, NEW k \in DiaryKeys, NEW i \in DOMAIN committed[k] \ {1}
              PROVE  committed[k][i].base = committed[k][i - 1].ver
  BY DEF NoEditOverwritten
<1>. QED
  BY DEF Early, EditInv, Chained

FaultInv ==
    /\ TypeOKFaults /\ AllLocks(FALSE) /\ UnlockSlow
    /\ crashes = 0 => Early

LEMMA FaultInvInit == InitFaults => FaultInv
BY TypeFaultsInit, LocksFaultsInit, EarlyInit DEF FaultInv

LEMMA FaultInvNext == FaultInv /\ [NextFaults]_allVars => FaultInv'
<1>. SUFFICES ASSUME FaultInv, [NextFaults]_allVars PROVE FaultInv'
  OBVIOUS
<1>1. TypeOKFaults /\ TypeOK /\ AllLocks(FALSE) /\ UnlockSlow /\ (crashes = 0 => Early)
  BY DEF FaultInv, TypeOKFaults
<1>2. TypeOKFaults' /\ AllLocks(FALSE)' /\ UnlockSlow'
  BY <1>1, TypeFaultsNext, LocksFaultsNext, UnlockSlowFaults
<1>3. (crashes = 0 => Early)'
  BY <1>1, <1>2, EarlyNext
<1>. QED
  BY <1>2, <1>3 DEF FaultInv

\* Before the first crash each site stores the edits of a diary in the order
\* they committed in, whatever messages are lost before the sockets join and
\* wherever generate_data puts the seed among them.
THEOREM OrderedReplicasCorrect == SpecFaults => []OrderedReplicas
<1>1. FaultInv => OrderedReplicas
  BY EarlyOrder DEF FaultInv, TypeOKFaults
<1>. QED
  BY <1>1, FaultInvInit, FaultInvNext, PTL DEF SpecFaults

\* A replica that has lost commits of the peer never lets an edit through that
\* overwrites one: the lost slow commit has left its lock taken, and a lost
\* fast commit is one of the peer, which the edit is checked against.
THEOREM NoEditOverwrittenCorrect == SpecFaults => []NoEditOverwritten
<1>1. FaultInv => NoEditOverwritten
  BY EarlyChain DEF FaultInv
<1>. QED
  BY <1>1, FaultInvInit, FaultInvNext, PTL DEF SpecFaults
=============================================================================
