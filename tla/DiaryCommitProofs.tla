------------------------- MODULE DiaryCommitProofs -------------------------
(***************************************************************************)
(* Type correctness of DiaryCommit, for any set of diaries and any bounds, *)
(* its sequence numbers and timestamps: none is lost on its way to the     *)
(* peer, and no two commits share one; its locks; and the order of edits.  *)
(***************************************************************************)
EXTENDS DiaryCommitProps, TLAPS, SequenceTheorems

LEMMA KeysNonempty == NoKey \in Keys
<1>1. PICK d \in Diaries : TRUE
  BY DiariesAssumption
<1>2. DiaryKey(d) \in Keys
  BY <1>1 DEF DiaryKey, Keys
<1>. QED
  BY <1>2 DEF NoKey

LEMMA SeedType == \A k \in Keys : Seed(k) \in Seq(Version)
<1>1. Zero \in Version
  BY DEF Zero, Version, Sites
<1>2. <<Zero>> \in Seq(Version) /\ <<>> \in Seq(Version)
  BY <1>1
<1>3. [i \in 1..4 |-> Zero] \in Seq(Version)
  BY <1>1
<1>. QED
  BY <1>2, <1>3 DEF Seed

LEMMA VersionTypes == Zero \in Version /\ Unloaded \in Version
BY DEF Zero, Unloaded, Version, Sites

LEMMA TypeInit == Init => TypeOK
<1>. SUFFICES ASSUME Init PROVE TypeOK
  OBVIOUS
<1>. USE KeysNonempty, SeedType, VersionTypes
<1>1. history \in [Sites -> [Keys -> Seq(Version)]]
  BY DEF Init, InitServers
<1>2. lock \in [Sites -> [Keys -> Nat]]
  BY DEF Init, InitServers
<1>3. committedVTS \in [Sites -> [Sites -> Nat]]
  BY DEF Init, InitServers, Zero
<1>4. pc \in [Sites -> MainPC] /\ rpc \in [Sites -> RepPC]
  BY DEF Init, InitServers, MainPC, RepPC
<1>5. txn \in [Sites -> [key : Keys, startTs : Version, ver : Version]]
  BY DEF Init, InitServers
<1>6. msg_list \in [Sites -> Seq(Message)] /\ net \in [Sites -> Seq(Message)]
  BY DEF Init, InitServers
<1>7. rep_msg \in [Sites -> Message]
  BY DEF Init, InitServers, Message
<1>8. pages \in [Sites -> [Diaries -> SUBSET Version]]
  BY DEF Init, InitServers
<1>9. committed \in [Keys -> Seq(Commit)]
  BY DEF Init, InitServers
<1>. QED
  BY <1>1, <1>2, <1>3, <1>4, <1>5, <1>6, <1>7, <1>8, <1>9 DEF TypeOK

-----------------------------------------------------------------------------
(***************************************************************************)
(* The commit paths share their steps, so do the lemmas: one for each      *)
(* helper, then one step for each action.                                  *)
(***************************************************************************)

LEMMA OtherType == \A s \in Sites : Other(s) \in Sites
BY DEF Sites, Other

\* The parts of TypeOK a step of a handler needs, without the others.
LEMMA PcType ==
    ASSUME TypeOK
    PROVE  pc \in [Sites -> MainPC]
BY DEF TypeOK

LEMMA TxnType ==
    ASSUME TypeOK
    PROVE  txn \in [Sites -> [key : Keys, startTs : Version, ver : Version]]
BY DEF TypeOK

LEMMA CommittedType ==
    ASSUME TypeOK
    PROVE  committed \in [Keys -> Seq(Commit)]
BY DEF TypeOK

LEMMA HistoryType ==
    ASSUME TypeOK
    PROVE  history \in [Sites -> [Keys -> Seq(Version)]]
BY DEF TypeOK

LEMMA RpcType ==
    ASSUME TypeOK
    PROVE  rpc \in [Sites -> RepPC]
BY DEF TypeOK

LEMMA AcquireType ==
    ASSUME TypeOK, NEW s \in Sites, NEW r \in Sites, NEW k \in Keys,
           NEW startTs \in Version, NEW next \in MainPC,
           acquire_lock(s, r, k, startTs, next)
    PROVE  TypeOK'
<1>1. lock' \in [Sites -> [Keys -> Nat]]
  <2>. lock[r] \in [Keys -> Nat]
    BY DEF TypeOK
  <2>1. lock[r][k] + 1 \in Nat
    OBVIOUS
  <2>2. [lock[r] EXCEPT ![k] = lock[r][k] + 1] \in [Keys -> Nat]
    BY <2>1
  <2>3. lock \in [Sites -> [Keys -> Nat]]
    BY DEF TypeOK
  <2>4. lock' = [lock EXCEPT ![r] = [lock[r] EXCEPT ![k] = lock[r][k] + 1]]
    BY <2>3 DEF acquire_lock
  <2>. QED
    BY <2>2, <2>3, <2>4
<1>2. pc' \in [Sites -> MainPC]
  BY PcType DEF acquire_lock
<1>3. txn' \in [Sites -> [key : Keys, startTs : Version, ver : Version]]
  <2>1. [key |-> k, startTs |-> startTs, ver |-> startTs]
            \in [key : Keys, startTs : Version, ver : Version]
    OBVIOUS
  <2>2. CASE lock[r][k] = 0
    BY <2>1, <2>2, TxnType DEF acquire_lock
  <2>3. CASE lock[r][k] # 0
    BY <2>3, TxnType DEF acquire_lock
  <2>. QED
    BY <2>2, <2>3
<1>4. UNCHANGED <<history, committedVTS, msg_list, net, rpc, rep_msg, pages, committed>>
  BY DEF acquire_lock
<1>. QED
  BY <1>1, <1>2, <1>3, <1>4 DEF TypeOK

LEMMA ReleaseType ==
    ASSUME TypeOK, NEW s \in Sites, NEW r \in Sites, release_lock(s, r)
    PROVE  TypeOK'
<1>1. "idle" \in MainPC
  BY DEF MainPC
<1>2. lock' \in [Sites -> [Keys -> Nat]]
  BY DEF TypeOK, release_lock
<1>3. pc' \in [Sites -> MainPC]
  BY <1>1 DEF TypeOK, release_lock
<1>. QED
  BY <1>2, <1>3 DEF TypeOK, release_lock

LEMMA CheckType ==
    ASSUME TypeOK, NEW s \in Sites, NEW r \in Sites,
           NEW clean \in MainPC, NEW conflict \in MainPC,
           CheckHistory(s, r, clean, conflict)
    PROVE  TypeOK'
<1>1. pc' \in [Sites -> MainPC]
  BY DEF TypeOK, CheckHistory
<1>. QED
  BY <1>1 DEF TypeOK, CheckHistory

LEMMA StampType ==
    ASSUME TypeOK, NEW s \in Sites, NEW next \in MainPC, StampVTS(s, next)
    PROVE  TypeOK'
<1>. DEFINE vts == [committedVTS[s] EXCEPT ![s] = @ + 1]
<1>1. vts \in [Sites -> Nat] /\ vts \in Version
  BY DEF TypeOK, Version
<1>2. committedVTS' \in [Sites -> [Sites -> Nat]]
  BY <1>1 DEF TypeOK, StampVTS, NextVTS
<1>3. txn' \in [Sites -> [key : Keys, startTs : Version, ver : Version]]
  BY <1>1 DEF TypeOK, StampVTS, NextVTS
<1>4. [site |-> s, base |-> txn[s].startTs, ver |-> vts] \in Commit
  BY <1>1 DEF TypeOK, Commit
<1>5. committed' \in [Keys -> Seq(Commit)]
  BY <1>4 DEF TypeOK, StampVTS, NextVTS
<1>6. pc' \in [Sites -> MainPC]
  BY DEF TypeOK, StampVTS, NextVTS
<1>. QED
  BY <1>2, <1>3, <1>5, <1>6 DEF TypeOK, StampVTS, NextVTS

LEMMA PushType ==
    ASSUME TypeOK, NEW s \in Sites, NEW next \in MainPC, Push(s, s, next)
    PROVE  TypeOK'
<1>1. history' \in [Sites -> [Keys -> Seq(Version)]]
  BY DEF TypeOK, Push
<1>2. pc' \in [Sites -> MainPC]
  BY DEF TypeOK, Push
<1>. QED
  BY <1>1, <1>2 DEF TypeOK, Push

LEMMA QueueType ==
    ASSUME TypeOK, NEW s \in Sites, NEW type \in {"FAST_CMT", "SLOW_CMT"},
           NEW next \in MainPC, QueueMsg(s, type, next)
    PROVE  TypeOK'
<1>1. [commit_type |-> type, key |-> txn[s].key, ver |-> txn[s].ver] \in Message
  BY DEF TypeOK, Message
<1>2. msg_list' \in [Sites -> Seq(Message)]
  BY <1>1 DEF TypeOK, QueueMsg
<1>3. pc' \in [Sites -> MainPC]
  BY DEF TypeOK, QueueMsg
<1>. QED
  BY <1>2, <1>3 DEF TypeOK, QueueMsg

LEMMA ReplicaterType ==
    ASSUME TypeOK, NEW s \in Sites, RepStep(s)
    PROVE  TypeOK'
<1>. USE DEF RepPC
<1>1. CASE RepRecv(s)
  <2>1. Head(net[s]) \in Message /\ Tail(net[s]) \in Seq(Message)
    BY <1>1 DEF TypeOK, RepRecv
  <2>. QED
    BY <1>1, <2>1 DEF TypeOK, RepRecv
<1>2. CASE RepPush(s)
  <2>1. /\ UNCHANGED <<lock, committedVTS, pc, txn, msg_list, net, rep_msg, pages, committed>>
        /\ history' = [history EXCEPT ![s][rep_msg[s].key] = Append(@, rep_msg[s].ver)]
        /\ rpc' = [rpc EXCEPT ![s] = AfterPush(rep_msg[s])]
    BY <1>2 DEF RepPush
  <2>2. rep_msg[s].key \in Keys /\ rep_msg[s].ver \in Version
    BY DEF TypeOK, Message
  <2>3. history \in [Sites -> [Keys -> Seq(Version)]]
    BY DEF TypeOK
  <2>4. history' \in [Sites -> [Keys -> Seq(Version)]]
    BY <2>1, <2>2, <2>3
  <2>5. rpc' \in [Sites -> RepPC]
    BY <2>1, RpcType DEF AfterPush
  <2>. QED
    BY <2>1, <2>4, <2>5 DEF TypeOK
<1>3. CASE RepUnlock(s)
  <2>1. /\ UNCHANGED <<history, committedVTS, pc, txn, msg_list, net, rep_msg, pages, committed>>
        /\ lock' = [lock EXCEPT ![s][rep_msg[s].key] = 0]
        /\ rpc' = [rpc EXCEPT ![s] = "count"]
    BY <1>3 DEF RepUnlock
  <2>2. lock \in [Sites -> [Keys -> Nat]]
    BY DEF TypeOK
  <2>3. lock' \in [Sites -> [Keys -> Nat]]
    BY <2>1, <2>2
  <2>4. rpc' \in [Sites -> RepPC]
    BY <2>1, RpcType
  <2>5. /\ history' = history /\ committedVTS' = committedVTS /\ pc' = pc /\ txn' = txn
        /\ msg_list' = msg_list /\ net' = net /\ rep_msg' = rep_msg /\ pages' = pages
        /\ committed' = committed
    BY <2>1
  <2>. QED
    BY <2>3, <2>4, <2>5 DEF TypeOK
<1>4. CASE RepCount(s)
  <2>4. committedVTS \in [Sites -> [Sites -> Nat]]
    BY DEF TypeOK
  <2>1. committedVTS[s][Other(s)] + 1 \in Nat
    BY <2>4, OtherType
  <2>2. [committedVTS[s] EXCEPT ![Other(s)] = committedVTS[s][Other(s)] + 1]
            \in [Sites -> Nat]
    BY <2>1, <2>4
  <2>3. committedVTS' = [committedVTS EXCEPT ![s] =
                [committedVTS[s] EXCEPT ![Other(s)] = committedVTS[s][Other(s)] + 1]]
    BY <1>4 DEF RepCount, PeerVTS
  <2>5. committedVTS' \in [Sites -> [Sites -> Nat]]
    BY <2>2, <2>3, <2>4
  <2>. QED
    BY <1>4, <2>5 DEF TypeOK, RepCount
<1>5. CASE RepDrain(s)
  <2>1. /\ UNCHANGED <<history, lock, committedVTS, pc, txn, rep_msg, pages, committed>>
        /\ net' = [net EXCEPT ![Other(s)] = net[Other(s)] \o msg_list[s]]
        /\ msg_list' = [msg_list EXCEPT ![s] = <<>>]
        /\ rpc' = [rpc EXCEPT ![s] = "poll"]
    BY <1>5 DEF RepDrain, Published
  <2>2. net \in [Sites -> Seq(Message)] /\ msg_list \in [Sites -> Seq(Message)]
    BY DEF TypeOK
  <2>3. net[Other(s)] \o msg_list[s] \in Seq(Message)
    BY <2>2, OtherType
  <2>4. net' \in [Sites -> Seq(Message)]
    BY <2>1, <2>2, <2>3
  <2>5. msg_list' \in [Sites -> Seq(Message)]
    BY <2>1, <2>2
  <2>6. rpc' \in [Sites -> RepPC]
    BY <2>1, RpcType
  <2>. QED
    BY <2>1, <2>4, <2>5, <2>6 DEF TypeOK
<1>. QED
  BY <1>1, <1>2, <1>3, <1>4, <1>5 DEF RepStep

LEMMA RequestType ==
    ASSUME TypeOK, NEW s \in Sites, Request(s)
    PROVE  TypeOK'
<1>. USE DEF MainPC
<1>1. PICK d \in Diaries : \/ handle_edit_diary(s, d)
                          \/ handle_add_comment(s, d)
                          \/ handle_get_diary_content(s, d)
  BY DEF Request
<1>2. DiaryKey(d) \in Keys /\ CommentKey(d) \in Keys
  BY DEF DiaryKey, CommentKey, Keys
<1>3. CASE handle_edit_diary(s, d)
  <2>1. PICK startTs \in pages[s][d] :
            \/ FastAcquire(s, DiaryKey(d), startTs, "fast_check")
            \/ SlowAcquire(s, DiaryKey(d), startTs)
    BY <1>3 DEF handle_edit_diary
  <2>2. startTs \in Version
    BY DEF TypeOK
  <2>3. CASE FastAcquire(s, DiaryKey(d), startTs, "fast_check")
    BY <1>2, <2>2, <2>3, AcquireType DEF FastAcquire
  <2>4. CASE SlowAcquire(s, DiaryKey(d), startTs)
    BY <1>2, <2>2, <2>4, AcquireType, OtherType DEF SlowAcquire
  <2>. QED
    BY <2>1, <2>3, <2>4
<1>4. CASE handle_add_comment(s, d)
  BY <1>2, <1>4, AcquireType, VersionTypes DEF handle_add_comment, FastAcquire
<1>5. CASE handle_get_diary_content(s, d)
  <2>1. PICK i \in Shown(history[s][DiaryKey(d)]) :
            pages' = [pages EXCEPT ![s][d] = @ \cup {history[s][DiaryKey(d)][i]}]
    BY <1>5 DEF handle_get_diary_content
  <2>2. i \in DOMAIN history[s][DiaryKey(d)]
    BY DEF Shown
  <2>3. history[s][DiaryKey(d)][i] \in Version
    BY <1>2, <2>2 DEF TypeOK
  <2>4. pages' \in [Sites -> [Diaries -> SUBSET Version]]
    BY <2>1, <2>3 DEF TypeOK
  <2>. QED
    BY <1>5, <2>4 DEF TypeOK, handle_get_diary_content
<1>. QED
  BY <1>1, <1>3, <1>4, <1>5

LEMMA TypeNext == TypeOK /\ [Next]_vars => TypeOK'
<1>. SUFFICES ASSUME TypeOK, [Next]_vars PROVE TypeOK'
  OBVIOUS
<1>1. CASE UNCHANGED vars
  BY <1>1 DEF TypeOK, vars
<1>2. ASSUME NEW s \in Sites, Request(s) PROVE TypeOK'
  BY <1>2, RequestType
<1>3. ASSUME NEW s \in Sites, FastStep(s) PROVE TypeOK'
  <2>. USE DEF MainPC
  <2>1. CASE FastCheck(s)
    BY <2>1, CheckType DEF FastCheck
  <2>2. CASE FastAbort(s)
    BY <2>2, ReleaseType DEF FastAbort
  <2>3. CASE FastStamp(s)
    BY <2>3, StampType DEF FastStamp
  <2>4. CASE FastPush(s)
    BY <2>4, PushType DEF FastPush
  <2>5. CASE FastQueue(s)
    BY <2>5, QueueType DEF FastQueue
  <2>6. CASE FastDone(s)
    BY <2>6, ReleaseType DEF FastDone
  <2>. QED
    BY <1>3, <2>1, <2>2, <2>3, <2>4, <2>5, <2>6 DEF FastStep
<1>4. ASSUME NEW s \in Sites, SlowStep(s) PROVE TypeOK'
  <2>. USE DEF MainPC
  <2>1. CASE SlowCheck(s)
    BY <2>1, CheckType, OtherType DEF SlowCheck
  <2>2. CASE SlowAbort(s)
    BY <2>2, ReleaseType, OtherType DEF SlowAbort
  <2>3. CASE SlowStamp(s)
    BY <2>3, StampType DEF SlowStamp
  <2>4. CASE SlowPush(s)
    BY <2>4, PushType DEF SlowPush
  <2>5. CASE SlowQueue(s)
    BY <2>5, QueueType DEF SlowQueue
  <2>. QED
    BY <1>4, <2>1, <2>2, <2>3, <2>4, <2>5 DEF SlowStep
<1>5. ASSUME NEW s \in Sites, RepStep(s) PROVE TypeOK'
  BY <1>5, ReplicaterType
<1>. QED
  BY <1>1, <1>2, <1>3, <1>4, <1>5 DEF Next

\* In every reachable state each variable holds what its declaration in the
\* server can hold: histories of versions, counters, program points.
THEOREM TypeCorrect == Spec => []TypeOK
BY TypeInit, TypeNext, PTL DEF Spec

-----------------------------------------------------------------------------
LEMMA ConcatHeadTail ==
    ASSUME NEW S, NEW p \in Seq(S), NEW q \in Seq(S), p # <<>>
    PROVE  /\ p \o q # <<>>
           /\ Head(p \o q) = Head(p)
           /\ Tail(p \o q) = Tail(p) \o q
<1>1. Len(p) \in Nat \ {0} /\ Len(q) \in Nat
  BY EmptySeq, LenProperties
<1>2. /\ p \o q \in Seq(S)
      /\ Len(p \o q) = Len(p) + Len(q)
      /\ \A i \in 1..Len(p) + Len(q) :
             (p \o q)[i] = IF i <= Len(p) THEN p[i] ELSE q[i - Len(p)]
  BY ConcatProperties
<1>3. p \o q # <<>>
  BY <1>1, <1>2
<1>4. Head(p \o q) = Head(p)
  BY <1>1, <1>2, <1>3
<1>5. /\ Tail(p) \in Seq(S)
      /\ Len(Tail(p)) = Len(p) - 1
      /\ \A i \in 1..Len(p) - 1 : Tail(p)[i] = p[i + 1]
  BY HeadTailProperties
<1>6. /\ Tail(p \o q) \in Seq(S)
      /\ Len(Tail(p \o q)) = Len(p) + Len(q) - 1
      /\ \A i \in 1..Len(p) + Len(q) - 1 : Tail(p \o q)[i] = (p \o q)[i + 1]
  BY <1>2, <1>3, HeadTailProperties
<1>7. /\ Tail(p) \o q \in Seq(S)
      /\ Len(Tail(p) \o q) = Len(p) + Len(q) - 1
      /\ \A i \in 1..Len(p) + Len(q) - 1 :
             (Tail(p) \o q)[i] = IF i <= Len(p) - 1 THEN p[i + 1] ELSE q[i - (Len(p) - 1)]
  <2>1. /\ Tail(p) \o q \in Seq(S)
        /\ Len(Tail(p) \o q) = Len(Tail(p)) + Len(q)
        /\ \A i \in 1..Len(Tail(p)) + Len(q) :
              (Tail(p) \o q)[i] =
                  IF i <= Len(Tail(p)) THEN Tail(p)[i] ELSE q[i - Len(Tail(p))]
    BY <1>5, ConcatProperties
  <2>. QED
    BY <1>1, <1>5, <2>1
<1>8. \A i \in 1..Len(p) + Len(q) - 1 : Tail(p \o q)[i] = (Tail(p) \o q)[i]
  BY <1>1, <1>2, <1>6, <1>7
<1>9. Tail(p \o q) = Tail(p) \o q
  BY <1>6, <1>7, <1>8, SeqEqual
<1>. QED
  BY <1>3, <1>4, <1>9

LEMMA ConcatAppend ==
    ASSUME NEW S, NEW p \in Seq(S), NEW q \in Seq(S), NEW e \in S
    PROVE  p \o Append(q, e) = Append(p \o q, e)
<1>1. Append(q, e) = q \o <<e>> /\ <<e>> \in Seq(S)
  BY AppendIsConcat
<1>2. p \o (q \o <<e>>) = (p \o q) \o <<e>>
  BY <1>1, ConcatAssociative
<1>3. p \o q \in Seq(S)
  BY ConcatProperties
<1>4. (p \o q) \o <<e>> = Append(p \o q, e)
  BY <1>3, AppendIsConcat
<1>. QED
  BY <1>1, <1>2, <1>4

LEMMA SitesFacts ==
    \A s \in Sites :
        /\ Other(s) \in Sites
        /\ Other(Other(s)) = s
        /\ Other(s) # s
        /\ \A t \in Sites : t = s \/ t = Other(s)
BY DEF Sites, Other

-----------------------------------------------------------------------------
(***************************************************************************)
(* What each kind of step does to the commits on their way to a site.      *)
(***************************************************************************)

LEMMA TransitType == TypeOK => \A r \in Sites : Transit(r) \in Seq(Message)
<1>. SUFFICES ASSUME TypeOK, NEW r \in Sites PROVE Transit(r) \in Seq(Message)
  OBVIOUS
<1>1. net[r] \in Seq(Message) /\ msg_list[Other(r)] \in Seq(Message)
  BY SitesFacts DEF TypeOK
<1>. QED
  BY <1>1 DEF Transit

LEMMA TransitSame ==
    ASSUME UNCHANGED <<net, msg_list>>
    PROVE  \A r \in Sites : Transit(r)' = Transit(r)
BY DEF Transit

\* RepRecv takes the oldest commit on its way to s.
LEMMA TransitRecv ==
    ASSUME TypeOK, NEW s \in Sites, RepRecv(s)
    PROVE  /\ Transit(s) # <<>>
           /\ rep_msg'[s] = Head(Transit(s))
           /\ Transit(s)' = Tail(Transit(s))
           /\ Transit(Other(s))' = Transit(Other(s))
<1>1. net[s] \in Seq(Message) /\ net[s] # <<>> /\ msg_list[Other(s)] \in Seq(Message)
  BY SitesFacts DEF TypeOK, RepRecv
<1>2. net'[s] = Tail(net[s]) /\ net'[Other(s)] = net[Other(s)] /\ msg_list' = msg_list
  BY SitesFacts DEF TypeOK, RepRecv
<1>3. rep_msg'[s] = Head(net[s])
  BY DEF TypeOK, RepRecv
<1>4. /\ net[s] \o msg_list[Other(s)] # <<>>
      /\ Head(net[s] \o msg_list[Other(s)]) = Head(net[s])
      /\ Tail(net[s] \o msg_list[Other(s)]) = Tail(net[s]) \o msg_list[Other(s)]
  BY <1>1, ConcatHeadTail
<1>. QED
  BY <1>2, <1>3, <1>4, SitesFacts DEF Transit

\* RepDrain only moves commits from the queue of the peer to the channel.
LEMMA TransitDrain ==
    ASSUME TypeOK, NEW s \in Sites, RepDrain(s)
    PROVE  \A r \in Sites : Transit(r)' = Transit(r)
<1>1. /\ net'[Other(s)] = net[Other(s)] \o msg_list[s]
      /\ msg_list'[s] = <<>>
      /\ net'[s] = net[s]
      /\ msg_list'[Other(s)] = msg_list[Other(s)]
  BY SitesFacts DEF TypeOK, RepDrain, Published
<1>2. net[Other(s)] \o msg_list[s] \in Seq(Message)
  BY SitesFacts DEF TypeOK
<1>3. (net[Other(s)] \o msg_list[s]) \o <<>> = net[Other(s)] \o msg_list[s]
  BY <1>2, ConcatEmptySeq
<1>4. Transit(Other(s))' = Transit(Other(s))
  BY <1>1, <1>3, SitesFacts DEF Transit
<1>5. Transit(s)' = Transit(s)
  BY <1>1 DEF Transit
<1>. QED
  BY <1>4, <1>5, SitesFacts

\* QueueMsg puts the commit of s last among those on their way to the peer.
LEMMA TransitQueue ==
    ASSUME TypeOK, NEW s \in Sites, NEW type \in {"FAST_CMT", "SLOW_CMT"},
           NEW next, QueueMsg(s, type, next)
    PROVE  /\ Transit(Other(s))' =
                  Append(Transit(Other(s)),
                         [commit_type |-> type, key |-> txn[s].key, ver |-> txn[s].ver])
           /\ Transit(s)' = Transit(s)
<1>1. PICK m \in Message :
          m = [commit_type |-> type, key |-> txn[s].key, ver |-> txn[s].ver]
  BY DEF TypeOK, Message
<1>2. /\ msg_list'[s] = Append(msg_list[s], m)
      /\ msg_list'[Other(s)] = msg_list[Other(s)]
      /\ net' = net
  BY <1>1, SitesFacts DEF TypeOK, QueueMsg
<1>3. PICK p \in Seq(Message), q \in Seq(Message) :
          p = net[Other(s)] /\ q = msg_list[s]
  BY SitesFacts DEF TypeOK
<1>4. p \o Append(q, m) = Append(p \o q, m)
  BY ConcatAppend
<1>5. Transit(Other(s))' = Append(Transit(Other(s)), m) /\ Transit(s)' = Transit(s)
  BY <1>2, <1>3, <1>4, SitesFacts DEF Transit
<1>. QED
  BY <1>1, <1>5

-----------------------------------------------------------------------------
(***************************************************************************)
(* Sequence numbers are conserved.                                         *)
(***************************************************************************)

\* The law of SeqnoConservation with gap[s] of the peer's numbers lost for s.
SeqnoGap(gap) ==
    \A s \in Sites :
        committedVTS[Other(s)][Other(s)] =
            committedVTS[s][Other(s)] + Len(Transit(s)) + Applying(s) + Stamping(Other(s)) + gap[s]

\* A step that gives out no number, counts none and moves no commit.
LEMMA SeqnoSame ==
    ASSUME NEW gap \in [Sites -> Nat], SeqnoGap(gap), UNCHANGED <<committedVTS, net, msg_list>>,
           \A r \in Sites : Applying(r)' = Applying(r) /\ Stamping(r)' = Stamping(r)
    PROVE  SeqnoGap(gap)'
BY TransitSame, SitesFacts DEF SeqnoGap

\* A move of one of the two threads between points on the same side of the
\* conservation law.
LEMMA StampingMove ==
    ASSUME TypeOK, NEW s \in Sites, NEW next, pc' = [pc EXCEPT ![s] = next],
           pc[s] \in Stamped <=> next \in Stamped
    PROVE  \A r \in Sites : Stamping(r)' = Stamping(r)
BY DEF TypeOK, Stamping

LEMMA SeqnoAcquire ==
    ASSUME NEW gap \in [Sites -> Nat], TypeOK, SeqnoGap(gap), NEW s \in Sites, NEW r, NEW k, NEW startTs,
           NEW next, next \notin Stamped, pc[s] = "idle",
           acquire_lock(s, r, k, startTs, next)
    PROVE  SeqnoGap(gap)'
<1>1. "idle" \notin Stamped
  BY DEF Stamped
<1>2. \A t \in Sites : Stamping(t)' = Stamping(t)
  <2>1. CASE lock[r][k] = 0
    BY <1>1, <2>1, StampingMove DEF acquire_lock
  <2>2. CASE lock[r][k] # 0
    BY <2>2 DEF acquire_lock, Stamping
  <2>. QED
    BY <2>1, <2>2
<1>. QED
  BY <1>2, SeqnoSame DEF acquire_lock, Applying

LEMMA SeqnoRelease ==
    ASSUME NEW gap \in [Sites -> Nat], TypeOK, SeqnoGap(gap), NEW s \in Sites, NEW r, pc[s] \notin Stamped,
           release_lock(s, r)
    PROVE  SeqnoGap(gap)'
<1>1. "idle" \notin Stamped
  BY DEF Stamped
<1>. QED
  BY <1>1, StampingMove, SeqnoSame DEF release_lock, Applying

LEMMA SeqnoCheck ==
    ASSUME NEW gap \in [Sites -> Nat], TypeOK, SeqnoGap(gap), NEW s \in Sites, NEW r, pc[s] \notin Stamped,
           NEW clean, clean \notin Stamped, NEW conflict, conflict \notin Stamped,
           CheckHistory(s, r, clean, conflict)
    PROVE  SeqnoGap(gap)'
<1>. DEFINE next == IF Conflict(txn[s].startTs, history[r][txn[s].key])
                    THEN conflict ELSE clean
<1>1. pc' = [pc EXCEPT ![s] = next] /\ next \notin Stamped
  BY DEF CheckHistory
<1>. HIDE DEF next
<1>. QED
  BY <1>1, StampingMove, SeqnoSame DEF CheckHistory, Applying

LEMMA SeqnoPush ==
    ASSUME NEW gap \in [Sites -> Nat], TypeOK, SeqnoGap(gap), NEW s \in Sites, pc[s] \in Stamped,
           NEW next, next \in Stamped, Push(s, s, next)
    PROVE  SeqnoGap(gap)'
BY StampingMove, SeqnoSame DEF Push, Applying

\* The number given out is the one of the commit now stamped.
LEMMA SeqnoStamp ==
    ASSUME NEW gap \in [Sites -> Nat], TypeOK, SeqnoGap(gap), NEW s \in Sites, pc[s] \notin Stamped,
           NEW next, next \in Stamped, StampVTS(s, next)
    PROVE  SeqnoGap(gap)'
<1>1. /\ committedVTS'[s][s] = committedVTS[s][s] + 1
      /\ committedVTS'[s][Other(s)] = committedVTS[s][Other(s)]
      /\ committedVTS'[Other(s)] = committedVTS[Other(s)]
  BY SitesFacts DEF TypeOK, StampVTS, NextVTS
<1>2. Stamping(s) = 0 /\ Stamping(s)' = 1 /\ Stamping(Other(s))' = Stamping(Other(s))
  BY SitesFacts DEF TypeOK, StampVTS, NextVTS, Stamping
<1>3. \A r \in Sites : Transit(r)' = Transit(r) /\ Applying(r)' = Applying(r)
  BY TransitSame DEF StampVTS, NextVTS, Applying
<1>4. /\ committedVTS[s][s] \in Nat
      /\ committedVTS[Other(s)][s] \in Nat
      /\ Len(Transit(Other(s))) \in Nat
      /\ Applying(Other(s)) \in Nat
      /\ gap[Other(s)] \in Nat
  BY TransitType, SitesFacts, LenProperties DEF TypeOK, Applying
<1>5. committedVTS[s][s] = committedVTS[Other(s)][s] + Len(Transit(Other(s)))
                               + Applying(Other(s)) + Stamping(s) + gap[Other(s)]
  BY SitesFacts DEF SeqnoGap
<1>6. committedVTS'[s][s] = committedVTS'[Other(s)][s] + Len(Transit(Other(s))')
                               + Applying(Other(s))' + Stamping(s)' + gap[Other(s)]
  BY <1>1, <1>2, <1>3, <1>4, <1>5, SitesFacts
<1>7. committedVTS'[Other(s)][Other(s)] = committedVTS'[s][Other(s)] + Len(Transit(s)')
                               + Applying(s)' + Stamping(Other(s))' + gap[s]
  BY <1>1, <1>2, <1>3, SitesFacts DEF SeqnoGap
<1>. QED
  BY <1>6, <1>7, SitesFacts DEF SeqnoGap

\* The commit stamped is now on its way.
LEMMA SeqnoQueue ==
    ASSUME NEW gap \in [Sites -> Nat], TypeOK, SeqnoGap(gap), NEW s \in Sites, pc[s] \in Stamped,
           NEW type \in {"FAST_CMT", "SLOW_CMT"},
           NEW next, next \notin Stamped, QueueMsg(s, type, next)
    PROVE  SeqnoGap(gap)'
<1>1. Stamping(s) = 1 /\ Stamping(s)' = 0 /\ Stamping(Other(s))' = Stamping(Other(s))
  BY SitesFacts DEF TypeOK, QueueMsg, Stamping
<1>2. Len(Transit(Other(s))') = Len(Transit(Other(s))) + 1 /\ Transit(s)' = Transit(s)
  <2>. DEFINE m == [commit_type |-> type, key |-> txn[s].key, ver |-> txn[s].ver]
  <2>1. m \in Message /\ Transit(Other(s)) \in Seq(Message)
    BY TransitType, SitesFacts DEF TypeOK, Message
  <2>2. Transit(Other(s))' = Append(Transit(Other(s)), m) /\ Transit(s)' = Transit(s)
    BY TransitQueue
  <2>. HIDE DEF m
  <2>. QED
    BY <2>1, <2>2, AppendProperties
<1>3. committedVTS' = committedVTS /\ \A r \in Sites : Applying(r)' = Applying(r)
  BY DEF QueueMsg, Applying
<1>4. /\ committedVTS[Other(s)][s] \in Nat
      /\ Len(Transit(Other(s))) \in Nat
      /\ Applying(Other(s)) \in Nat
      /\ gap[Other(s)] \in Nat
  BY TransitType, SitesFacts, LenProperties DEF TypeOK, Applying
<1>5. committedVTS[s][s] = committedVTS[Other(s)][s] + Len(Transit(Other(s)))
                               + Applying(Other(s)) + Stamping(s) + gap[Other(s)]
  BY SitesFacts DEF SeqnoGap
<1>6. committedVTS'[s][s] = committedVTS'[Other(s)][s] + Len(Transit(Other(s))')
                               + Applying(Other(s))' + Stamping(s)' + gap[Other(s)]
  <2>1. PICK a \in Nat, b \in Nat, c \in Nat, g \in Nat :
           /\ a = committedVTS[Other(s)][s] /\ b = Len(Transit(Other(s)))
           /\ c = Applying(Other(s)) /\ g = gap[Other(s)]
    BY <1>4
  <2>2. committedVTS[s][s] = a + b + c + 1 + g
    BY <1>1, <1>5, <2>1
  <2>3. committedVTS'[s][s] = a + (b + 1) + c + 0 + g
    BY <1>3, <2>2
  <2>4. committedVTS'[Other(s)][s] = a /\ Applying(Other(s))' = c
    BY <1>3, <2>1, SitesFacts
  <2>5. Len(Transit(Other(s))') = b + 1 /\ Stamping(s)' = 0
    BY <1>1, <1>2, <2>1
  <2>. QED
    BY <2>1, <2>3, <2>4, <2>5
<1>7. committedVTS'[Other(s)][Other(s)] = committedVTS'[s][Other(s)] + Len(Transit(s)')
                               + Applying(s)' + Stamping(Other(s))' + gap[s]
  BY <1>1, <1>2, <1>3, SitesFacts DEF SeqnoGap
<1>. QED
  BY <1>6, <1>7, SitesFacts DEF SeqnoGap

LEMMA SeqnoReplicater ==
    ASSUME NEW gap \in [Sites -> Nat], TypeOK, SeqnoGap(gap), NEW s \in Sites, RepStep(s)
    PROVE  SeqnoGap(gap)'
<1>1. /\ committedVTS[s][Other(s)] \in Nat
      /\ Len(Transit(s)) \in Nat
      /\ Transit(s) \in Seq(Message)
      /\ Stamping(Other(s)) \in Nat
      /\ gap[s] \in Nat
  BY TransitType, SitesFacts, LenProperties DEF TypeOK, Stamping
<1>2. committedVTS[Other(s)][Other(s)] = committedVTS[s][Other(s)] + Len(Transit(s))
                               + Applying(s) + Stamping(Other(s)) + gap[s]
  BY SitesFacts DEF SeqnoGap
<1>3. ASSUME UNCHANGED pc PROVE \A r \in Sites : Stamping(r)' = Stamping(r)
  BY <1>3 DEF Stamping
<1>4. CASE RepRecv(s)
  <2>1. Applying(s) = 0 /\ Applying(s)' = 1 /\ Applying(Other(s))' = Applying(Other(s))
    BY <1>4, SitesFacts DEF TypeOK, RepRecv, Applying
  <2>2. /\ Transit(s)' = Tail(Transit(s)) /\ Transit(s) # <<>>
        /\ Transit(Other(s))' = Transit(Other(s))
    BY <1>4, TransitRecv
  <2>3. Len(Transit(s)') = Len(Transit(s)) - 1
    BY <1>1, <2>2, HeadTailProperties
  <2>4. committedVTS' = committedVTS /\ \A r \in Sites : Stamping(r)' = Stamping(r)
    BY <1>3, <1>4 DEF RepRecv
  <2>5. committedVTS'[Other(s)][Other(s)] = committedVTS'[s][Other(s)] + Len(Transit(s)')
                               + Applying(s)' + Stamping(Other(s))' + gap[s]
    BY <1>1, <1>2, <2>1, <2>3, <2>4, SitesFacts
  <2>6. committedVTS'[s][s] = committedVTS'[Other(s)][s] + Len(Transit(Other(s))')
                               + Applying(Other(s))' + Stamping(s)' + gap[Other(s)]
    BY <2>1, <2>2, <2>4, SitesFacts DEF SeqnoGap
  <2>. QED
    BY <2>5, <2>6, SitesFacts DEF SeqnoGap
<1>5. CASE RepPush(s)
  <2>1. \A r \in Sites : Applying(r)' = Applying(r)
    BY <1>5 DEF TypeOK, RepPush, AfterPush, Applying
  <2>. QED
    BY <1>3, <1>5, <2>1, SeqnoSame DEF RepPush
<1>6. CASE RepUnlock(s)
  <2>1. \A r \in Sites : Applying(r)' = Applying(r)
    BY <1>6 DEF TypeOK, RepUnlock, Applying
  <2>. QED
    BY <1>3, <1>6, <2>1, SeqnoSame DEF RepUnlock
<1>7. CASE RepCount(s)
  <2>1. Applying(s) = 1 /\ Applying(s)' = 0 /\ Applying(Other(s))' = Applying(Other(s))
    BY <1>7, SitesFacts DEF TypeOK, RepCount, PeerVTS, Applying
  <2>2. /\ committedVTS'[s][Other(s)] = committedVTS[s][Other(s)] + 1
        /\ committedVTS'[s][s] = committedVTS[s][s]
        /\ committedVTS'[Other(s)] = committedVTS[Other(s)]
    BY <1>7, SitesFacts DEF TypeOK, RepCount, PeerVTS
  <2>3. \A r \in Sites : Transit(r)' = Transit(r) /\ Stamping(r)' = Stamping(r)
    BY <1>3, <1>7, TransitSame DEF RepCount
  <2>4. committedVTS'[Other(s)][Other(s)] = committedVTS'[s][Other(s)] + Len(Transit(s)')
                               + Applying(s)' + Stamping(Other(s))' + gap[s]
    BY <1>1, <1>2, <2>1, <2>2, <2>3, SitesFacts
  <2>5. committedVTS'[s][s] = committedVTS'[Other(s)][s] + Len(Transit(Other(s))')
                               + Applying(Other(s))' + Stamping(s)' + gap[Other(s)]
    BY <2>1, <2>2, <2>3, SitesFacts DEF SeqnoGap
  <2>. QED
    BY <2>4, <2>5, SitesFacts DEF SeqnoGap
<1>8. CASE RepDrain(s)
  <2>1. \A r \in Sites : Transit(r)' = Transit(r)
    BY <1>8, TransitDrain
  <2>2. \A r \in Sites : Applying(r)' = Applying(r)
    BY <1>8 DEF TypeOK, RepDrain, Applying
  <2>3. committedVTS' = committedVTS /\ \A r \in Sites : Stamping(r)' = Stamping(r)
    BY <1>3, <1>8 DEF RepDrain
  <2>. QED
    BY <2>1, <2>2, <2>3, SitesFacts DEF SeqnoGap
<1>. QED
  BY <1>4, <1>5, <1>6, <1>7, <1>8 DEF RepStep

LEMMA SeqnoRequest ==
    ASSUME NEW gap \in [Sites -> Nat], TypeOK, SeqnoGap(gap), NEW s \in Sites, Request(s)
    PROVE  SeqnoGap(gap)'
<1>. USE DEF Stamped
<1>1. PICK d \in Diaries : \/ handle_edit_diary(s, d)
                          \/ handle_add_comment(s, d)
                          \/ handle_get_diary_content(s, d)
  BY DEF Request
<1>2. CASE handle_edit_diary(s, d)
  <2>1. PICK startTs \in pages[s][d] :
            \/ FastAcquire(s, DiaryKey(d), startTs, "fast_check")
            \/ SlowAcquire(s, DiaryKey(d), startTs)
    BY <1>2 DEF handle_edit_diary
  <2>2. CASE FastAcquire(s, DiaryKey(d), startTs, "fast_check")
    BY <2>2, SeqnoAcquire DEF FastAcquire
  <2>3. CASE SlowAcquire(s, DiaryKey(d), startTs)
    BY <2>3, SeqnoAcquire DEF SlowAcquire
  <2>. QED
    BY <2>1, <2>2, <2>3
<1>3. CASE handle_add_comment(s, d)
  BY <1>3, SeqnoAcquire DEF handle_add_comment, FastAcquire
<1>4. CASE handle_get_diary_content(s, d)
  BY <1>4, SeqnoSame DEF handle_get_diary_content, Applying, Stamping
<1>. QED
  BY <1>1, <1>2, <1>3, <1>4

LEMMA SeqnoGapNext ==
    ASSUME NEW gap \in [Sites -> Nat], TypeOK, SeqnoGap(gap), [Next]_vars
    PROVE  SeqnoGap(gap)'
<1>1. CASE UNCHANGED vars
  BY <1>1, SeqnoSame DEF vars, Applying, Stamping
<1>2. ASSUME NEW s \in Sites, Request(s) PROVE SeqnoGap(gap)'
  BY <1>2, SeqnoRequest
<1>3. ASSUME NEW s \in Sites, FastStep(s) PROVE SeqnoGap(gap)'
  <2>. USE DEF Stamped
  <2>1. CASE FastCheck(s)
    BY <2>1, SeqnoCheck DEF FastCheck
  <2>2. CASE FastAbort(s)
    BY <2>2, SeqnoRelease DEF FastAbort
  <2>3. CASE FastStamp(s)
    BY <2>3, SeqnoStamp DEF FastStamp
  <2>4. CASE FastPush(s)
    BY <2>4, SeqnoPush DEF FastPush
  <2>5. CASE FastQueue(s)
    BY <2>5, SeqnoQueue DEF FastQueue
  <2>6. CASE FastDone(s)
    BY <2>6, SeqnoRelease DEF FastDone
  <2>. QED
    BY <1>3, <2>1, <2>2, <2>3, <2>4, <2>5, <2>6 DEF FastStep
<1>4. ASSUME NEW s \in Sites, SlowStep(s) PROVE SeqnoGap(gap)'
  <2>. USE DEF Stamped
  <2>1. CASE SlowCheck(s)
    BY <2>1, SeqnoCheck DEF SlowCheck
  <2>2. CASE SlowAbort(s)
    BY <2>2, SeqnoRelease DEF SlowAbort
  <2>3. CASE SlowStamp(s)
    BY <2>3, SeqnoStamp DEF SlowStamp
  <2>4. CASE SlowPush(s)
    BY <2>4, SeqnoPush DEF SlowPush
  <2>5. CASE SlowQueue(s)
    BY <2>5, SeqnoQueue DEF SlowQueue
  <2>. QED
    BY <1>4, <2>1, <2>2, <2>3, <2>4, <2>5 DEF SlowStep
<1>5. ASSUME NEW s \in Sites, RepStep(s) PROVE SeqnoGap(gap)'
  BY <1>5, SeqnoReplicater
<1>. QED
  BY <1>1, <1>2, <1>3, <1>4, <1>5 DEF Next

NoGap == [s \in Sites |-> 0]

LEMMA SeqnoNoGap == TypeOK => (SeqnoConservation <=> SeqnoGap(NoGap))
<1>. SUFFICES ASSUME TypeOK PROVE SeqnoConservation <=> SeqnoGap(NoGap)
  OBVIOUS
<1>1. ASSUME NEW s \in Sites
      PROVE  LET n == committedVTS[s][Other(s)] + Len(Transit(s)) + Applying(s)
                          + Stamping(Other(s))
             IN  n = n + NoGap[s]
  <2>1. /\ committedVTS[s][Other(s)] \in Nat
        /\ Len(Transit(s)) \in Nat
        /\ Applying(s) \in Nat
        /\ Stamping(Other(s)) \in Nat
        /\ NoGap[s] = 0
    BY TransitType, SitesFacts, LenProperties DEF TypeOK, Applying, Stamping, NoGap
  <2>. QED
    BY <2>1
<1>. QED
  BY <1>1 DEF SeqnoConservation, SeqnoGap

LEMMA SeqnoNext == TypeOK /\ SeqnoConservation /\ [Next]_vars => SeqnoConservation'
<1>. SUFFICES ASSUME TypeOK, SeqnoConservation, [Next]_vars PROVE SeqnoConservation'
  OBVIOUS
<1>1. NoGap \in [Sites -> Nat] /\ SeqnoGap(NoGap)
  BY SeqnoNoGap DEF NoGap
<1>2. TypeOK' /\ SeqnoGap(NoGap)'
  BY <1>1, TypeNext, SeqnoGapNext
<1>. QED
  BY <1>2, SeqnoNoGap, PTL

\* No number is out when the servers start.
LEMMA FreshSeqno ==
    ASSUME InitServers
    PROVE  SeqnoConservation
<1>1. \A s \in Sites : Transit(s) = <<>> /\ Len(Transit(s)) = 0
  <2>1. \A s \in Sites : net[s] = <<>> /\ msg_list[Other(s)] = <<>>
    BY SitesFacts DEF InitServers
  <2>2. <<>> \o <<>> = <<>>
    BY ConcatEmptySeq, EmptySeq
  <2>. QED
    BY <2>1, <2>2, EmptySeq DEF Transit
<1>2. \A s \in Sites : Applying(s) = 0 /\ Stamping(s) = 0
  BY DEF InitServers, Applying, Stamping, Stamped
<1>3. \A s, t \in Sites : committedVTS[s][t] = 0
  BY DEF InitServers, Zero
<1>4. SUFFICES ASSUME NEW s \in Sites
               PROVE  committedVTS[Other(s)][Other(s)] = committedVTS[s][Other(s)]
                          + Len(Transit(s)) + Applying(s) + Stamping(Other(s))
  BY DEF SeqnoConservation
<1>5. /\ committedVTS[Other(s)][Other(s)] = 0
      /\ committedVTS[s][Other(s)] = 0
      /\ Len(Transit(s)) = 0
      /\ Applying(s) = 0
      /\ Stamping(Other(s)) = 0
  BY <1>1, <1>2, <1>3, SitesFacts
<1>. QED
  BY <1>5

LEMMA SeqnoInit == Init => SeqnoConservation
BY FreshSeqno DEF Init

\* A vector counts each commit of the peer once: whatever site s has not yet
\* counted is in its channel, in the peer's queue, in its replicater's hands
\* or in the peer's handler.
THEOREM SeqnoCorrect == Spec => []SeqnoConservation
BY TypeCorrect, SeqnoInit, SeqnoNext, PTL DEF Spec

-----------------------------------------------------------------------------
(***************************************************************************)
(* Timestamps are unique: the commit that takes the next number of its     *)
(* site is above every earlier commit in that component.                   *)
(***************************************************************************)

\* No component of a timestamp is above the number its site has reached.
ClockBound ==
    \A k \in Keys : \A i \in DOMAIN committed[k] : \A t \in Sites :
        committed[k][i].ver[t] <= committedVTS[t][t]

\* No site counts more commits of the other than that one has begun.
Behind == \A s, t \in Sites : committedVTS[s][t] <= committedVTS[t][t]

LEMMA VectorBehind ==
    ASSUME TypeOK, NEW gap \in [Sites -> Nat], SeqnoGap(gap)
    PROVE  Behind
<1>. SUFFICES ASSUME NEW s \in Sites, NEW t \in Sites
              PROVE  committedVTS[s][t] <= committedVTS[t][t]
  BY DEF Behind
<1>1. /\ committedVTS[s][t] \in Nat
      /\ Len(Transit(s)) \in Nat
      /\ Applying(s) \in Nat
      /\ Stamping(Other(s)) \in Nat
      /\ gap[s] \in Nat
  BY TransitType, SitesFacts, LenProperties DEF TypeOK, Applying, Stamping
<1>2. CASE t = s
  BY <1>1, <1>2
<1>3. CASE t = Other(s)
  <2>1. committedVTS[t][t] =
            committedVTS[s][t] + Len(Transit(s)) + Applying(s) + Stamping(Other(s)) + gap[s]
    BY <1>3 DEF SeqnoGap
  <2>. QED
    BY <1>1, <2>1
<1>. QED
  BY <1>2, <1>3, SitesFacts

LEMMA VectorBelow == TypeOK /\ SeqnoConservation => Behind
<1>1. NoGap \in [Sites -> Nat]
  BY DEF NoGap
<1>. QED
  BY <1>1, SeqnoNoGap, VectorBehind

\* Every step but a stamp leaves the commits and both own numbers alone.
LEMMA NoStamp ==
    ASSUME TypeOK, [Next]_vars,
           \A s \in Sites : ~ FastStamp(s) /\ ~ SlowStamp(s)
    PROVE  /\ committed' = committed
           /\ \A t \in Sites : committedVTS'[t][t] = committedVTS[t][t]
<1>1. CASE UNCHANGED vars
  BY <1>1 DEF vars
<1>2. ASSUME NEW s \in Sites, Request(s)
      PROVE  committed' = committed /\ committedVTS' = committedVTS
  <2>1. PICK d \in Diaries : \/ handle_edit_diary(s, d)
                            \/ handle_add_comment(s, d)
                            \/ handle_get_diary_content(s, d)
    BY <1>2 DEF Request
  <2>. QED
    BY <2>1 DEF handle_edit_diary, handle_add_comment, handle_get_diary_content,
                FastAcquire, SlowAcquire, acquire_lock
<1>3. ASSUME NEW s \in Sites, FastStep(s)
      PROVE  committed' = committed /\ committedVTS' = committedVTS
  BY <1>3 DEF FastStep, FastCheck, FastAbort, FastPush, FastQueue, FastDone,
              CheckHistory, release_lock, Push, QueueMsg
<1>4. ASSUME NEW s \in Sites, SlowStep(s)
      PROVE  committed' = committed /\ committedVTS' = committedVTS
  BY <1>4 DEF SlowStep, SlowCheck, SlowAbort, SlowPush, SlowQueue,
              CheckHistory, release_lock, Push, QueueMsg
<1>5. ASSUME NEW s \in Sites, RepStep(s)
      PROVE  /\ committed' = committed
             /\ \A t \in Sites : committedVTS'[t][t] = committedVTS[t][t]
  <2>1. CASE RepCount(s)
    BY <2>1, SitesFacts DEF TypeOK, RepCount, PeerVTS
  <2>2. CASE ~ RepCount(s)
    BY <1>5, <2>2 DEF RepStep, RepRecv, RepPush, RepUnlock, RepDrain
  <2>. QED
    BY <2>1, <2>2
<1>. QED
  BY <1>1, <1>2, <1>3, <1>4, <1>5 DEF Next

LEMMA UniqueStamp ==
    ASSUME TypeOK, Behind, ClockBound, VersionsUnique,
           NEW s \in Sites, NEW next, StampVTS(s, next)
    PROVE  ClockBound' /\ VersionsUnique'
<1>1. PICK k \in Keys : k = txn[s].key
  BY DEF TypeOK
<1>2. PICK vts \in [Sites -> Nat] : vts = [committedVTS[s] EXCEPT ![s] = @ + 1]
  <2>1. [committedVTS[s] EXCEPT ![s] = @ + 1] \in [Sites -> Nat]
    BY DEF TypeOK
  <2>. QED
    BY <2>1
<1>3. PICK c : c = [site |-> s, base |-> txn[s].startTs, ver |-> vts]
  OBVIOUS
<1>4. /\ committedVTS' = [committedVTS EXCEPT ![s] = vts]
      /\ committed' = [committed EXCEPT ![k] = Append(@, c)]
  BY <1>1, <1>2, <1>3 DEF StampVTS, NextVTS
<1>5. c \in Commit /\ c.ver = vts
  <2>1. vts \in Version
    BY <1>2 DEF Version
  <2>2. txn[s].startTs \in Version
    BY DEF TypeOK
  <2>. QED
    BY <1>3, <2>1, <2>2 DEF Commit
<1>6. /\ vts[s] = committedVTS[s][s] + 1
      /\ \A t \in Sites : vts[t] <= committedVTS'[t][t]
  <2>1. vts[s] = committedVTS[s][s] + 1 /\ vts[Other(s)] = committedVTS[s][Other(s)]
    BY <1>2, SitesFacts DEF TypeOK
  <2>2. committedVTS'[s][s] = vts[s]
    BY <1>4 DEF TypeOK
  <2>3. committedVTS'[Other(s)][Other(s)] = committedVTS[Other(s)][Other(s)]
    BY <1>4, SitesFacts DEF TypeOK
  <2>4. committedVTS[s][Other(s)] <= committedVTS[Other(s)][Other(s)]
    BY SitesFacts DEF Behind
  <2>5. vts[s] <= vts[s]
    BY <1>2
  <2>. QED
    BY <2>1, <2>2, <2>3, <2>4, <2>5, SitesFacts
<1>7. \A t \in Sites : committedVTS[t][t] <= committedVTS'[t][t]
  <2>1. committedVTS[s][s] \in Nat /\ committedVTS[Other(s)][Other(s)] \in Nat
    BY SitesFacts DEF TypeOK
  <2>2. committedVTS'[s][s] = committedVTS[s][s] + 1
    BY <1>4, <1>6 DEF TypeOK
  <2>3. committedVTS'[Other(s)][Other(s)] = committedVTS[Other(s)][Other(s)]
    BY <1>4, SitesFacts DEF TypeOK
  <2>. QED
    BY <2>1, <2>2, <2>3, SitesFacts
<1>8. \A k2 \in Keys :
          /\ committed'[k2] = IF k2 = k THEN Append(committed[k], c) ELSE committed[k2]
          /\ committed[k2] \in Seq(Commit)
          /\ DOMAIN committed[k2] = 1..Len(committed[k2])
          /\ Len(committed[k2]) \in Nat
  BY <1>4, LenProperties DEF TypeOK
<1>9. /\ Append(committed[k], c)[Len(committed[k]) + 1] = c
      /\ DOMAIN Append(committed[k], c) = 1..(Len(committed[k]) + 1)
      /\ \A i \in 1..Len(committed[k]) : Append(committed[k], c)[i] = committed[k][i]
  BY <1>5, <1>8, AppendProperties, LenProperties
\* An entry after the step is an entry from before it or the new commit.
<1>10. ASSUME NEW k2 \in Keys, NEW i \in DOMAIN committed'[k2]
       PROVE  \/ i \in DOMAIN committed[k2] /\ committed'[k2][i] = committed[k2][i]
              \/ k2 = k /\ i = Len(committed[k]) + 1 /\ committed'[k2][i] = c
  <2>1. CASE k2 # k
    BY <1>8, <1>10, <2>1
  <2>2. CASE k2 = k
    <3>1. i \in 1..(Len(committed[k]) + 1) /\ Len(committed[k]) \in Nat
      BY <1>8, <1>9, <1>10, <2>2
    <3>2. CASE i = Len(committed[k]) + 1
      BY <1>8, <1>9, <2>2, <3>2
    <3>3. CASE i \in 1..Len(committed[k])
      BY <1>8, <1>9, <2>2, <3>3
    <3>. QED
      BY <3>1, <3>2, <3>3
  <2>. QED
    BY <2>1, <2>2
<1>11. ASSUME NEW k2 \in Keys, NEW i \in DOMAIN committed[k2]
       PROVE  /\ \A t \in Sites : committed[k2][i].ver[t] <= committedVTS[t][t]
              /\ \A t \in Sites : committed[k2][i].ver[t] \in Int
              /\ committed[k2][i].ver # c.ver
  <2>1. \A t \in Sites : committed[k2][i].ver[t] <= committedVTS[t][t]
    BY DEF ClockBound
  <2>2. committed[k2][i] \in Commit
    BY <1>8
  <2>3. committed[k2][i].ver \in [Sites -> Int]
    BY <2>2 DEF Commit, Version
  <2>4. committed[k2][i].ver[s] < vts[s]
    BY <1>2, <1>6, <2>1, <2>3 DEF TypeOK
  <2>. QED
    BY <1>5, <2>1, <2>3, <2>4
<1>12. ClockBound'
  <2>1. SUFFICES ASSUME NEW k2 \in Keys, NEW i \in DOMAIN committed'[k2], NEW t \in Sites
                 PROVE  committed'[k2][i].ver[t] <= committedVTS'[t][t]
    BY DEF ClockBound
  <2>2. CASE i \in DOMAIN committed[k2] /\ committed'[k2][i] = committed[k2][i]
    <3>1. /\ committed[k2][i].ver[t] <= committedVTS[t][t]
          /\ committed[k2][i].ver[t] \in Int
          /\ committedVTS[t][t] <= committedVTS'[t][t]
          /\ committedVTS[t][t] \in Nat
          /\ committedVTS'[t][t] \in Nat
      <4>1. committedVTS' \in [Sites -> [Sites -> Nat]]
        BY <1>2, <1>4 DEF TypeOK
      <4>. QED
        BY <1>7, <1>11, <2>2, <4>1 DEF TypeOK
    <3>. QED
      BY <2>2, <3>1
  <2>3. CASE committed'[k2][i] = c
    BY <1>5, <1>6, <2>3
  <2>. QED
    BY <1>10, <2>2, <2>3
<1>13. VersionsUnique'
  <2>1. SUFFICES ASSUME NEW k1 \in Keys, NEW k2 \in Keys,
                        NEW i \in DOMAIN committed'[k1], NEW j \in DOMAIN committed'[k2],
                        committed'[k1][i].ver = committed'[k2][j].ver
                 PROVE  k1 = k2 /\ i = j
    BY DEF VersionsUnique
  <2>2. CASE /\ i \in DOMAIN committed[k1] /\ committed'[k1][i] = committed[k1][i]
             /\ j \in DOMAIN committed[k2] /\ committed'[k2][j] = committed[k2][j]
    BY <2>1, <2>2 DEF VersionsUnique
  <2>3. CASE /\ i \in DOMAIN committed[k1] /\ committed'[k1][i] = committed[k1][i]
             /\ committed'[k2][j] = c
    BY <1>11, <2>1, <2>3
  <2>4. CASE /\ committed'[k1][i] = c
             /\ j \in DOMAIN committed[k2] /\ committed'[k2][j] = committed[k2][j]
    BY <1>11, <2>1, <2>4
  <2>5. CASE /\ k1 = k /\ i = Len(committed[k]) + 1
             /\ k2 = k /\ j = Len(committed[k]) + 1
    BY <2>5
  <2>. QED
    BY <1>10, <2>2, <2>3, <2>4, <2>5
<1>. QED
  BY <1>12, <1>13

LEMMA UniqueNext ==
    ASSUME TypeOK, Behind, ClockBound, VersionsUnique, [Next]_vars
    PROVE  ClockBound' /\ VersionsUnique'
<1>1. CASE \A s \in Sites : ~ FastStamp(s) /\ ~ SlowStamp(s)
  BY <1>1, NoStamp DEF ClockBound, VersionsUnique
<1>2. ASSUME NEW s \in Sites, FastStamp(s) PROVE ClockBound' /\ VersionsUnique'
  BY <1>2, UniqueStamp DEF FastStamp
<1>3. ASSUME NEW s \in Sites, SlowStamp(s) PROVE ClockBound' /\ VersionsUnique'
  BY <1>3, UniqueStamp DEF SlowStamp
<1>. QED
  BY <1>1, <1>2, <1>3

\* Two commits never carry the same timestamp, whichever sites and objects
\* they come from.
THEOREM VersionsUniqueCorrect == Spec => []VersionsUnique
<1>. DEFINE Inv == TypeOK /\ SeqnoConservation /\ ClockBound /\ VersionsUnique
<1>1. Init => Inv
  <2>1. Init => ClockBound /\ VersionsUnique
    BY DEF Init, InitServers, ClockBound, VersionsUnique
  <2>. QED
    BY <2>1, TypeInit, SeqnoInit
<1>2. Inv /\ [Next]_vars => Inv'
  BY TypeNext, SeqnoNext, VectorBelow, UniqueNext
<1>3. Inv => VersionsUnique
  OBVIOUS
<1>. QED
  BY <1>1, <1>2, <1>3, PTL DEF Spec

-----------------------------------------------------------------------------
(***************************************************************************)
(* The lock of an object has one owner at a time, followed from the INCR   *)
(* of a handler, through the messages of a slow commit, to the SET 0 of    *)
(* the replicater that applies it.  That is why the check of an edit,      *)
(* which looks at one history alone, is enough: the first committer wins.  *)
(***************************************************************************)
Unowned(r, k) ==
    /\ ~ FastOwns(r, k) /\ ~ SlowOwns(r, k) /\ ~ ApplyOwns(r, k)
    /\ SentOwns(r, k) = {}

\* SingleWriter for one lock, by the kinds of owners.  A lock that is not exact
\* may have been left taken, by a server that died or by a lost message.
LockInv(r, k, exact) ==
    /\ ~ (FastOwns(r, k) /\ SlowOwns(r, k))
    /\ ~ (FastOwns(r, k) /\ ApplyOwns(r, k))
    /\ ~ (SlowOwns(r, k) /\ ApplyOwns(r, k))
    /\ FastOwns(r, k) \/ SlowOwns(r, k) \/ ApplyOwns(r, k) => SentOwns(r, k) = {}
    /\ \A i, j \in SentOwns(r, k) : i = j
    /\ lock[r][k] = 0 => Unowned(r, k)
    /\ exact /\ Unowned(r, k) => lock[r][k] = 0

AllLocks(exact) == \A r \in Sites, k \in Keys : LockInv(r, k, exact)

\* Only the apply of a slow commit goes through the release of the lock.
UnlockSlow == \A s \in Sites : rpc[s] = "unlock" => rep_msg[s].commit_type = "SLOW_CMT"

\* The owners by their kinds.
LEMMA OwnerKinds ==
    ASSUME NEW r, NEW k
    PROVE  \A o : o \in Owners(r, k) <=> \/ FastOwns(r, k) /\ o = <<"fast", 0>>
                                         \/ SlowOwns(r, k) /\ o = <<"slow", 0>>
                                         \/ ApplyOwns(r, k) /\ o = <<"apply", 0>>
                                         \/ \E i \in SentOwns(r, k) : o = <<"sent", i>>
BY DEF Owners

LEMMA OneOwner ==
    ASSUME NEW exact, NEW r, NEW k, LockInv(r, k, exact)
    PROVE  \A a, b \in Owners(r, k) : a = b
BY OwnerKinds DEF LockInv, Unowned

LEMMA NoOwner ==
    ASSUME NEW r, NEW k
    PROVE  Owners(r, k) = {} <=> Unowned(r, k)
<1>1. Owners(r, k) = {} <=> /\ ~ FastOwns(r, k) /\ ~ SlowOwns(r, k) /\ ~ ApplyOwns(r, k)
                            /\ SentOwns(r, k) = {}
  BY OwnerKinds
<1>. QED
  BY <1>1 DEF Unowned

LEMMA LocksSingle == AllLocks(TRUE) => SingleWriter
<1>. SUFFICES ASSUME AllLocks(TRUE), NEW r \in Sites, NEW k \in Keys
              PROVE  /\ \A a, b \in Owners(r, k) : a = b
                     /\ lock[r][k] = 0 <=> Owners(r, k) = {}
  BY DEF SingleWriter
<1>1. LockInv(r, k, TRUE)
  BY DEF AllLocks
<1>2. \A a, b \in Owners(r, k) : a = b
  BY <1>1, OneOwner
<1>3. Owners(r, k) = {} <=> Unowned(r, k)
  BY NoOwner
<1>. QED
  BY <1>1, <1>2, <1>3 DEF LockInv

LEMMA LockSame ==
    ASSUME NEW exact \in BOOLEAN, NEW r, NEW k, LockInv(r, k, exact),
           lock'[r][k] = lock[r][k],
           FastOwns(r, k)' <=> FastOwns(r, k),
           SlowOwns(r, k)' <=> SlowOwns(r, k),
           ApplyOwns(r, k)' <=> ApplyOwns(r, k),
           SentOwns(r, k)' = SentOwns(r, k)
    PROVE  LockInv(r, k, exact)'
BY DEF LockInv, Unowned

LEMMA SentSame ==
    ASSUME NEW r, NEW k, Transit(r)' = Transit(r)
    PROVE  SentOwns(r, k)' = SentOwns(r, k)
BY DEF SentOwns

-----------------------------------------------------------------------------
(***************************************************************************)
(* The handlers.                                                           *)
(***************************************************************************)

\* A handler that goes on with the object it has locked.
LEMMA HandlerKeeps ==
    ASSUME NEW exact \in BOOLEAN, TypeOK, AllLocks(exact), NEW s \in Sites,
           UNCHANGED <<lock, rpc, rep_msg, net, msg_list>>,
           pc'[Other(s)] = pc[Other(s)], txn'[Other(s)] = txn[Other(s)],
           txn'[s].key = txn[s].key,
           pc'[s] \in FastHeld <=> pc[s] \in FastHeld,
           pc'[s] \in SlowHeld <=> pc[s] \in SlowHeld
    PROVE  AllLocks(exact)'
<1>. SUFFICES ASSUME NEW r \in Sites, NEW k \in Keys PROVE LockInv(r, k, exact)'
  BY DEF AllLocks
<1>1. LockInv(r, k, exact)
  BY DEF AllLocks
<1>2. FastOwns(r, k)' <=> FastOwns(r, k)
  BY SitesFacts DEF FastOwns
<1>3. SlowOwns(r, k)' <=> SlowOwns(r, k)
  BY SitesFacts DEF SlowOwns
<1>4. ApplyOwns(r, k)' <=> ApplyOwns(r, k)
  BY DEF ApplyOwns
<1>5. SentOwns(r, k)' = SentOwns(r, k)
  BY TransitSame, SentSame
<1>. QED
  BY <1>1, <1>2, <1>3, <1>4, <1>5, LockSame

\* INCR: a lock that reads 0 has no owner, and gets one; a lock that does not
\* keeps the one it has.
LEMMA AcquireLocks ==
    ASSUME NEW exact \in BOOLEAN, TypeOK, AllLocks(exact), NEW s \in Sites, NEW r0 \in Sites, NEW k0 \in Keys,
           NEW startTs, NEW next, pc[s] = "idle",
           \/ r0 = s /\ next \in FastHeld
           \/ r0 = Other(s) /\ next \in SlowHeld,
           acquire_lock(s, r0, k0, startTs, next)
    PROVE  AllLocks(exact)'
<1>. SUFFICES ASSUME NEW r \in Sites, NEW k \in Keys PROVE LockInv(r, k, exact)'
  BY DEF AllLocks
<1>0. FastHeld \cap SlowHeld = {} /\ "idle" \notin FastHeld /\ "idle" \notin SlowHeld
  BY DEF FastHeld, SlowHeld
<1>1. LockInv(r, k, exact)
  BY DEF AllLocks
<1>2. ApplyOwns(r, k)' <=> ApplyOwns(r, k)
  BY DEF acquire_lock, ApplyOwns
<1>3. SentOwns(r, k)' = SentOwns(r, k)
  BY TransitSame, SentSame DEF acquire_lock
<1>4. lock[r0][k0] \in Nat
  BY DEF TypeOK
<1>5. /\ lock'[r0][k0] = lock[r0][k0] + 1
      /\ r # r0 \/ k # k0 => lock'[r][k] = lock[r][k]
  BY DEF TypeOK, acquire_lock
<1>6. CASE lock[r0][k0] # 0
  <2>1. UNCHANGED <<pc, txn>>
    BY <1>6 DEF acquire_lock
  <2>2. /\ FastOwns(r, k)' <=> FastOwns(r, k)
        /\ SlowOwns(r, k)' <=> SlowOwns(r, k)
    BY <2>1 DEF FastOwns, SlowOwns
  <2>3. lock'[r][k] = 0 <=> lock[r][k] = 0
    BY <1>4, <1>5, <1>6
  <2>. QED
    BY <1>1, <1>2, <1>3, <2>2, <2>3 DEF LockInv, Unowned
<1>7. CASE lock[r0][k0] = 0
  <2>1. /\ pc'[s] = next /\ txn'[s].key = k0
        /\ pc'[Other(s)] = pc[Other(s)] /\ txn'[Other(s)] = txn[Other(s)]
    <3>1. pc' = [pc EXCEPT ![s] = next]
      BY <1>7 DEF acquire_lock
    <3>2. txn' = [txn EXCEPT ![s] = [key |-> k0, startTs |-> startTs, ver |-> startTs]]
      BY <1>7 DEF acquire_lock
    <3>. QED
      BY <3>1, <3>2, SitesFacts DEF TypeOK
  <2>2. CASE r = r0 /\ k = k0
    <3>1. /\ ~ FastOwns(r, k) /\ ~ SlowOwns(r, k) /\ ~ ApplyOwns(r, k)
          /\ SentOwns(r, k) = {}
      BY <1>1, <1>7, <2>2 DEF LockInv, Unowned
    <3>2. lock'[r][k] # 0
      BY <1>4, <1>5, <1>7, <2>2
    <3>3. \/ FastOwns(r, k)' /\ ~ SlowOwns(r, k)'
          \/ ~ FastOwns(r, k)' /\ SlowOwns(r, k)'
      BY <1>0, <2>1, <2>2, <3>1, SitesFacts DEF FastOwns, SlowOwns
    <3>. QED
      BY <1>2, <1>3, <3>1, <3>2, <3>3 DEF LockInv, Unowned
  <2>3. CASE ~ (r = r0 /\ k = k0)
    <3>1. FastOwns(r, k)' <=> FastOwns(r, k)
      BY <1>0, <2>1, <2>3, SitesFacts DEF FastOwns
    <3>2. SlowOwns(r, k)' <=> SlowOwns(r, k)
      BY <1>0, <2>1, <2>3, SitesFacts DEF SlowOwns
    <3>. QED
      BY <1>1, <1>2, <1>3, <1>5, <2>3, <3>1, <3>2, LockSame
  <2>. QED
    BY <2>2, <2>3
<1>. QED
  BY <1>6, <1>7

\* SET 0 by the owner.
LEMMA ReleaseLocks ==
    ASSUME NEW exact \in BOOLEAN, TypeOK, AllLocks(exact), NEW s \in Sites, NEW r0 \in Sites,
           \/ r0 = s /\ pc[s] \in FastHeld
           \/ r0 = Other(s) /\ pc[s] \in SlowHeld,
           release_lock(s, r0)
    PROVE  AllLocks(exact)'
<1>. SUFFICES ASSUME NEW r \in Sites, NEW k \in Keys PROVE LockInv(r, k, exact)'
  BY DEF AllLocks
<1>0. FastHeld \cap SlowHeld = {} /\ "idle" \notin FastHeld /\ "idle" \notin SlowHeld
  BY DEF FastHeld, SlowHeld
<1>1. LockInv(r, k, exact)
  BY DEF AllLocks
<1>2. ApplyOwns(r, k)' <=> ApplyOwns(r, k)
  BY DEF release_lock, ApplyOwns
<1>3. SentOwns(r, k)' = SentOwns(r, k)
  BY TransitSame, SentSame DEF release_lock
<1>4. txn[s].key \in Keys
  BY DEF TypeOK
<1>5. /\ lock'[r0][txn[s].key] = 0
      /\ r # r0 \/ k # txn[s].key => lock'[r][k] = lock[r][k]
  BY <1>4 DEF TypeOK, release_lock
<1>6. pc'[s] = "idle" /\ pc'[Other(s)] = pc[Other(s)] /\ txn' = txn
  BY SitesFacts DEF TypeOK, release_lock
<1>7. CASE r = r0 /\ k = txn[s].key
  <2>1. FastOwns(r, k) \/ SlowOwns(r, k)
    BY <1>7, SitesFacts DEF FastOwns, SlowOwns
  <2>2. /\ ~ (FastOwns(r, k) /\ SlowOwns(r, k)) /\ ~ ApplyOwns(r, k)
        /\ SentOwns(r, k) = {}
    BY <1>1, <2>1 DEF LockInv, Unowned
  <2>3. ~ FastOwns(r, k)' /\ ~ SlowOwns(r, k)'
    BY <1>0, <1>6, <1>7, <2>2, SitesFacts DEF FastOwns, SlowOwns
  <2>. QED
    BY <1>2, <1>3, <1>5, <1>7, <2>2, <2>3 DEF LockInv, Unowned
<1>8. CASE ~ (r = r0 /\ k = txn[s].key)
  <2>1. FastOwns(r, k)' <=> FastOwns(r, k)
    BY <1>0, <1>6, <1>8, SitesFacts DEF FastOwns
  <2>2. SlowOwns(r, k)' <=> SlowOwns(r, k)
    BY <1>0, <1>6, <1>8, SitesFacts DEF SlowOwns
  <2>. QED
    BY <1>1, <1>2, <1>3, <1>5, <1>8, <2>1, <2>2, LockSame
<1>. QED
  BY <1>7, <1>8

\* The commit of a slow commit hands its lock to the message it queues; a fast
\* commit keeps its own.
LEMMA QueueFastLocks ==
    ASSUME NEW exact \in BOOLEAN, TypeOK, AllLocks(exact), NEW s \in Sites, pc[s] = "fast_queue",
           QueueMsg(s, "FAST_CMT", "fast_done")
    PROVE  AllLocks(exact)'
<1>. SUFFICES ASSUME NEW r \in Sites, NEW k \in Keys PROVE LockInv(r, k, exact)'
  BY DEF AllLocks
<1>1. LockInv(r, k, exact)
  BY DEF AllLocks
<1>2. /\ pc'[s] = "fast_done" /\ pc'[Other(s)] = pc[Other(s)]
      /\ UNCHANGED <<txn, lock, rpc, rep_msg>>
  BY SitesFacts DEF TypeOK, QueueMsg
<1>3. /\ FastOwns(r, k)' <=> FastOwns(r, k)
      /\ SlowOwns(r, k)' <=> SlowOwns(r, k)
      /\ ApplyOwns(r, k)' <=> ApplyOwns(r, k)
  BY <1>2, SitesFacts DEF FastOwns, SlowOwns, ApplyOwns, FastHeld, SlowHeld
<1>4. PICK m \in Message : /\ m.commit_type = "FAST_CMT"
                          /\ Transit(Other(s))' = Append(Transit(Other(s)), m)
                          /\ Transit(s)' = Transit(s)
  <2>1. [commit_type |-> "FAST_CMT", key |-> txn[s].key, ver |-> txn[s].ver] \in Message
    BY DEF TypeOK, Message
  <2>. QED
    BY <2>1, TransitQueue
<1>5. SentOwns(r, k)' = SentOwns(r, k)
  <2>1. CASE r = s
    BY <1>4, <2>1, SentSame
  <2>2. CASE r = Other(s)
    <3>1. PICK q \in Seq(Message) : q = Transit(r)
      BY TransitType
    <3>2. Transit(r)' = Append(q, m)
      BY <1>4, <2>2, <3>1
    <3>3. /\ DOMAIN q = 1..Len(q) /\ Len(q) \in Nat
          /\ DOMAIN Append(q, m) = 1..(Len(q) + 1)
          /\ \A i \in 1..Len(q) : Append(q, m)[i] = q[i]
          /\ Append(q, m)[Len(q) + 1] = m
      BY AppendProperties, LenProperties
    <3>4. \A i : i \in SentOwns(r, k)' <=> i \in DOMAIN Append(q, m) /\ IsSlow(Append(q, m)[i], k)
      BY <3>2 DEF SentOwns
    <3>5. \A i : i \in SentOwns(r, k) <=> i \in DOMAIN q /\ IsSlow(q[i], k)
      BY <3>1 DEF SentOwns
    <3>6. ~ IsSlow(m, k)
      BY <1>4 DEF IsSlow
    <3>7. \A i : i \in SentOwns(r, k)' <=> i \in SentOwns(r, k)
      BY <3>3, <3>4, <3>5, <3>6
    <3>. QED
      BY <3>7
  <2>. QED
    BY <2>1, <2>2, SitesFacts
<1>. QED
  BY <1>1, <1>2, <1>3, <1>5, LockSame

LEMMA QueueSlowLocks ==
    ASSUME NEW exact \in BOOLEAN, TypeOK, AllLocks(exact), NEW s \in Sites, pc[s] = "slow_queue",
           QueueMsg(s, "SLOW_CMT", "idle")
    PROVE  AllLocks(exact)'
<1>. SUFFICES ASSUME NEW r \in Sites, NEW k \in Keys PROVE LockInv(r, k, exact)'
  BY DEF AllLocks
<1>1. LockInv(r, k, exact)
  BY DEF AllLocks
<1>2. /\ pc'[s] = "idle" /\ pc'[Other(s)] = pc[Other(s)]
      /\ UNCHANGED <<txn, lock, rpc, rep_msg>>
  BY SitesFacts DEF TypeOK, QueueMsg
<1>3. /\ FastOwns(r, k)' <=> FastOwns(r, k)
      /\ ApplyOwns(r, k)' <=> ApplyOwns(r, k)
  BY <1>2, SitesFacts DEF FastOwns, ApplyOwns, FastHeld
<1>4. SlowOwns(r, k)' <=> SlowOwns(r, k) /\ r # Other(s)
  BY <1>2, SitesFacts DEF SlowOwns, SlowHeld
<1>5. SlowOwns(Other(s), txn[s].key)
  BY SitesFacts DEF SlowOwns, SlowHeld
<1>6. PICK m \in Message : /\ m.commit_type = "SLOW_CMT" /\ m.key = txn[s].key
                          /\ Transit(Other(s))' = Append(Transit(Other(s)), m)
                          /\ Transit(s)' = Transit(s)
  <2>1. [commit_type |-> "SLOW_CMT", key |-> txn[s].key, ver |-> txn[s].ver] \in Message
    BY DEF TypeOK, Message
  <2>. QED
    BY <2>1, TransitQueue
<1>7. CASE r = s
  <2>1. SentOwns(r, k)' = SentOwns(r, k)
    BY <1>6, <1>7, SentSame
  <2>. QED
    BY <1>1, <1>2, <1>3, <1>4, <1>7, <2>1, LockSame, SitesFacts
<1>8. CASE r = Other(s)
  <2>1. PICK q \in Seq(Message) : q = Transit(r)
    BY TransitType
  <2>2. Transit(r)' = Append(q, m)
    BY <1>6, <1>8, <2>1
  <2>3. /\ DOMAIN q = 1..Len(q) /\ Len(q) \in Nat
        /\ DOMAIN Append(q, m) = 1..(Len(q) + 1)
        /\ \A i \in 1..Len(q) : Append(q, m)[i] = q[i]
        /\ Append(q, m)[Len(q) + 1] = m
    BY AppendProperties, LenProperties
  <2>4. \A i : i \in SentOwns(r, k)' <=> i \in DOMAIN Append(q, m) /\ IsSlow(Append(q, m)[i], k)
    BY <2>2 DEF SentOwns
  <2>5. \A i : i \in SentOwns(r, k) <=> i \in DOMAIN q /\ IsSlow(q[i], k)
    BY <2>1 DEF SentOwns
  <2>6. CASE k = txn[s].key
    <3>1. IsSlow(m, k)
      BY <1>6, <2>6 DEF IsSlow
    <3>2. /\ ~ FastOwns(r, k) /\ SlowOwns(r, k) /\ ~ ApplyOwns(r, k)
          /\ SentOwns(r, k) = {} /\ lock[r][k] # 0
      BY <1>1, <1>5, <1>8, <2>6 DEF LockInv, Unowned
    <3>3. \A i : i \in SentOwns(r, k)' <=> i = Len(q) + 1
      BY <2>3, <2>4, <2>5, <3>1, <3>2
    <3>4. /\ ~ FastOwns(r, k)' /\ ~ SlowOwns(r, k)' /\ ~ ApplyOwns(r, k)'
          /\ lock'[r][k] # 0
      BY <1>2, <1>3, <1>4, <1>8, <3>2
    <3>5. SentOwns(r, k)' # {}
      BY <3>3
    <3>6. \A i, j \in SentOwns(r, k)' : i = j
      BY <3>3
    <3>. QED
      BY <3>4, <3>5, <3>6 DEF LockInv, Unowned
  <2>7. CASE k # txn[s].key
    <3>1. ~ IsSlow(m, k)
      BY <1>6, <2>7 DEF IsSlow
    <3>2. \A i : i \in SentOwns(r, k)' <=> i \in SentOwns(r, k)
      BY <2>3, <2>4, <2>5, <3>1
    <3>3. ~ SlowOwns(r, k) /\ ~ SlowOwns(r, k)'
      BY <1>4, <1>8, <2>7, SitesFacts DEF SlowOwns
    <3>4. SentOwns(r, k)' = SentOwns(r, k)
      BY <3>2
    <3>. QED
      BY <1>1, <1>2, <1>3, <3>3, <3>4, LockSame
  <2>. QED
    BY <2>6, <2>7
<1>. QED
  BY <1>7, <1>8, SitesFacts

-----------------------------------------------------------------------------
(***************************************************************************)
(* The replicater.                                                         *)
(***************************************************************************)

\* RepRecv: the oldest message hands its lock to the replicater.
LEMMA RecvLocks ==
    ASSUME NEW exact \in BOOLEAN, TypeOK, AllLocks(exact), NEW s \in Sites, RepRecv(s)
    PROVE  AllLocks(exact)'
<1>. SUFFICES ASSUME NEW r \in Sites, NEW k \in Keys PROVE LockInv(r, k, exact)'
  BY DEF AllLocks
<1>1. LockInv(r, k, exact)
  BY DEF AllLocks
<1>2. UNCHANGED <<lock, pc, txn>>
  BY DEF RepRecv
<1>3. /\ FastOwns(r, k)' <=> FastOwns(r, k)
      /\ SlowOwns(r, k)' <=> SlowOwns(r, k)
  BY <1>2 DEF FastOwns, SlowOwns
<1>4. /\ Transit(s) # <<>>
      /\ rep_msg'[s] = Head(Transit(s))
      /\ Transit(s)' = Tail(Transit(s))
      /\ Transit(Other(s))' = Transit(Other(s))
  BY TransitRecv
<1>5. /\ rpc[s] = "poll" /\ rpc'[s] = "push" /\ rpc'[Other(s)] = rpc[Other(s)]
      /\ rep_msg'[Other(s)] = rep_msg[Other(s)]
  BY SitesFacts DEF TypeOK, RepRecv
<1>6. CASE r = Other(s)
  <2>1. SentOwns(r, k)' = SentOwns(r, k)
    BY <1>4, <1>6, SentSame
  <2>2. ApplyOwns(r, k)' <=> ApplyOwns(r, k)
    BY <1>5, <1>6 DEF ApplyOwns
  <2>. QED
    BY <1>1, <1>2, <1>3, <2>1, <2>2, LockSame
<1>7. CASE r = s
  <2>1. PICK q \in Seq(Message) : q = Transit(r)
    BY TransitType
  <2>2. q # <<>> /\ Transit(r)' = Tail(q) /\ rep_msg'[s] = Head(q)
    BY <1>4, <1>7, <2>1
  <2>3. /\ Len(q) \in Nat \ {0} /\ DOMAIN q = 1..Len(q)
        /\ DOMAIN Tail(q) = 1..(Len(q) - 1)
        /\ \A i \in 1..(Len(q) - 1) : Tail(q)[i] = q[i + 1]
        /\ Head(q) = q[1]
    BY <2>2, HeadTailProperties, LenProperties, EmptySeq
  <2>4. \A i : i \in SentOwns(r, k)' <=> i \in DOMAIN Tail(q) /\ IsSlow(Tail(q)[i], k)
    BY <2>2 DEF SentOwns
  <2>5. \A i : i \in SentOwns(r, k) <=> i \in DOMAIN q /\ IsSlow(q[i], k)
    BY <2>1 DEF SentOwns
  <2>6. \A i : i \in SentOwns(r, k)' <=> i \in 1..(Len(q) - 1) /\ i + 1 \in SentOwns(r, k)
    BY <2>3, <2>4, <2>5
  <2>7. ApplyOwns(r, k)' <=> 1 \in SentOwns(r, k)
    BY <1>5, <1>7, <2>2, <2>3, <2>5 DEF ApplyOwns
  <2>8. ~ ApplyOwns(r, k)
    BY <1>5, <1>7 DEF ApplyOwns
  <2>9. CASE 1 \in SentOwns(r, k)
    <3>1. /\ ~ FastOwns(r, k) /\ ~ SlowOwns(r, k) /\ lock[r][k] # 0
          /\ \A i \in SentOwns(r, k) : i = 1
      BY <1>1, <2>9 DEF LockInv, Unowned
    <3>2. SentOwns(r, k)' = {}
      BY <2>3, <2>6, <3>1
    <3>. QED
      BY <1>2, <1>3, <2>7, <2>9, <3>1, <3>2 DEF LockInv, Unowned
  <2>10. CASE 1 \notin SentOwns(r, k)
    <3>1. \A i \in SentOwns(r, k) : i - 1 \in SentOwns(r, k)'
      BY <2>3, <2>5, <2>6, <2>10
    <3>2. SentOwns(r, k)' = {} <=> SentOwns(r, k) = {}
      BY <2>6, <3>1
    <3>3. \A i, j \in SentOwns(r, k)' : i = j
      <4>1. \A i, j \in SentOwns(r, k) : i = j
        BY <1>1 DEF LockInv, Unowned
      <4>. QED
        BY <2>3, <2>6, <4>1
    <3>. QED
      BY <1>1, <1>2, <1>3, <2>7, <2>8, <2>10, <3>2, <3>3 DEF LockInv, Unowned
  <2>. QED
    BY <2>9, <2>10
<1>. QED
  BY <1>6, <1>7, SitesFacts

\* A step of the replicater that neither takes nor gives up an object.
LEMMA ReplicaterKeeps ==
    ASSUME NEW exact \in BOOLEAN, TypeOK, AllLocks(exact), NEW s \in Sites, UNCHANGED <<lock, pc, txn, rep_msg>>,
           \A r \in Sites : Transit(r)' = Transit(r),
           rpc'[Other(s)] = rpc[Other(s)],
           \A k \in Keys : ApplyOwns(s, k)' <=> ApplyOwns(s, k)
    PROVE  AllLocks(exact)'
<1>. SUFFICES ASSUME NEW r \in Sites, NEW k \in Keys PROVE LockInv(r, k, exact)'
  BY DEF AllLocks
<1>1. LockInv(r, k, exact)
  BY DEF AllLocks
<1>2. /\ FastOwns(r, k)' <=> FastOwns(r, k)
      /\ SlowOwns(r, k)' <=> SlowOwns(r, k)
  BY DEF FastOwns, SlowOwns
<1>3. ApplyOwns(r, k)' <=> ApplyOwns(r, k)
  BY SitesFacts DEF ApplyOwns
<1>. QED
  BY <1>1, <1>2, <1>3, SentSame, LockSame

\* RepUnlock: SET 0 by the replicater that owns the lock.
LEMMA UnlockLocks ==
    ASSUME NEW exact \in BOOLEAN, TypeOK, AllLocks(exact), UnlockSlow, NEW s \in Sites, RepUnlock(s)
    PROVE  AllLocks(exact)'
<1>. SUFFICES ASSUME NEW r \in Sites, NEW k \in Keys PROVE LockInv(r, k, exact)'
  BY DEF AllLocks
<1>1. LockInv(r, k, exact)
  BY DEF AllLocks
<1>2. /\ rpc[s] = "unlock" /\ rpc'[s] = "count" /\ rpc'[Other(s)] = rpc[Other(s)]
      /\ UNCHANGED <<pc, txn, rep_msg, net, msg_list>>
  BY SitesFacts DEF TypeOK, RepUnlock
<1>3. rep_msg[s].key \in Keys
  BY DEF TypeOK, Message
<1>4. /\ lock'[s][rep_msg[s].key] = 0
      /\ r # s \/ k # rep_msg[s].key => lock'[r][k] = lock[r][k]
  BY <1>3 DEF TypeOK, RepUnlock
<1>5. /\ FastOwns(r, k)' <=> FastOwns(r, k)
      /\ SlowOwns(r, k)' <=> SlowOwns(r, k)
      /\ SentOwns(r, k)' = SentOwns(r, k)
  BY <1>2, TransitSame, SentSame DEF FastOwns, SlowOwns
<1>6. CASE r = s /\ k = rep_msg[s].key
  <2>1. ApplyOwns(r, k)
    BY <1>2, <1>6 DEF ApplyOwns, IsSlow, UnlockSlow
  <2>2. ~ ApplyOwns(r, k)'
    BY <1>2, <1>6 DEF ApplyOwns
  <2>. QED
    BY <1>1, <1>4, <1>5, <1>6, <2>1, <2>2 DEF LockInv, Unowned
<1>7. CASE ~ (r = s /\ k = rep_msg[s].key)
  <2>1. ApplyOwns(r, k)' <=> ApplyOwns(r, k)
    BY <1>2, <1>7, SitesFacts DEF ApplyOwns, IsSlow
  <2>. QED
    BY <1>1, <1>4, <1>5, <1>7, <2>1, LockSame
<1>. QED
  BY <1>6, <1>7

LEMMA ReplicaterLocks ==
    ASSUME NEW exact \in BOOLEAN, TypeOK, AllLocks(exact), UnlockSlow, NEW s \in Sites, RepStep(s)
    PROVE  AllLocks(exact)'
<1>1. CASE RepRecv(s)
  BY <1>1, RecvLocks
<1>2. CASE RepPush(s)
  <2>1. /\ UNCHANGED <<lock, pc, txn, rep_msg, net, msg_list>>
        /\ rpc[s] = "push" /\ rpc'[Other(s)] = rpc[Other(s)]
        /\ rpc'[s] = IF rep_msg[s].commit_type = "SLOW_CMT" THEN "unlock" ELSE "count"
    BY <1>2, SitesFacts DEF TypeOK, RepPush, AfterPush
  <2>2. \A k \in Keys : ApplyOwns(s, k)' <=> ApplyOwns(s, k)
    BY <2>1 DEF ApplyOwns, IsSlow
  <2>. QED
    BY <2>1, <2>2, TransitSame, ReplicaterKeeps
<1>3. CASE RepUnlock(s)
  BY <1>3, UnlockLocks
<1>4. CASE RepCount(s)
  <2>1. /\ UNCHANGED <<lock, pc, txn, rep_msg, net, msg_list>>
        /\ rpc[s] = "count" /\ rpc'[Other(s)] = rpc[Other(s)] /\ rpc'[s] = "drain"
    BY <1>4, SitesFacts DEF TypeOK, RepCount, PeerVTS
  <2>2. \A k \in Keys : ApplyOwns(s, k)' <=> ApplyOwns(s, k)
    BY <2>1 DEF ApplyOwns
  <2>. QED
    BY <2>1, <2>2, TransitSame, ReplicaterKeeps
<1>5. CASE RepDrain(s)
  <2>1. /\ UNCHANGED <<lock, pc, txn, rep_msg>>
        /\ rpc[s] \in {"poll", "drain"} /\ rpc'[Other(s)] = rpc[Other(s)] /\ rpc'[s] = "poll"
    BY <1>5, SitesFacts DEF TypeOK, RepDrain, Published
  <2>2. \A k \in Keys : ApplyOwns(s, k)' <=> ApplyOwns(s, k)
    BY <2>1 DEF ApplyOwns
  <2>. QED
    BY <1>5, <2>1, <2>2, TransitDrain, ReplicaterKeeps
<1>. QED
  BY <1>1, <1>2, <1>3, <1>4, <1>5 DEF RepStep

-----------------------------------------------------------------------------
LEMMA RequestLocks ==
    ASSUME NEW exact \in BOOLEAN, TypeOK, AllLocks(exact), NEW s \in Sites, Request(s)
    PROVE  AllLocks(exact)'
<1>. USE DEF FastHeld, SlowHeld
<1>1. PICK d \in Diaries : \/ handle_edit_diary(s, d)
                          \/ handle_add_comment(s, d)
                          \/ handle_get_diary_content(s, d)
  BY DEF Request
<1>2. DiaryKey(d) \in Keys /\ CommentKey(d) \in Keys
  BY DEF DiaryKey, CommentKey, Keys
<1>3. CASE handle_edit_diary(s, d)
  <2>1. PICK startTs \in pages[s][d] :
            \/ FastAcquire(s, DiaryKey(d), startTs, "fast_check")
            \/ SlowAcquire(s, DiaryKey(d), startTs)
    BY <1>3 DEF handle_edit_diary
  <2>2. CASE FastAcquire(s, DiaryKey(d), startTs, "fast_check")
    BY <1>2, <2>2, AcquireLocks DEF FastAcquire
  <2>3. CASE SlowAcquire(s, DiaryKey(d), startTs)
    BY <1>2, <2>3, AcquireLocks, OtherType DEF SlowAcquire
  <2>. QED
    BY <2>1, <2>2, <2>3
<1>4. CASE handle_add_comment(s, d)
  BY <1>2, <1>4, AcquireLocks DEF handle_add_comment, FastAcquire
<1>5. CASE handle_get_diary_content(s, d)
  BY <1>5, HandlerKeeps DEF handle_get_diary_content
<1>. QED
  BY <1>1, <1>3, <1>4, <1>5

LEMMA HandlerLocks ==
    ASSUME NEW exact \in BOOLEAN, TypeOK, AllLocks(exact), NEW s \in Sites, FastStep(s) \/ SlowStep(s)
    PROVE  AllLocks(exact)'
<1>1. ASSUME NEW r \in Sites, NEW clean, NEW conflict, CheckHistory(s, r, clean, conflict),
             \/ {pc[s], clean, conflict} \subseteq FastHeld
             \/ {pc[s], clean, conflict} \subseteq SlowHeld
      PROVE  AllLocks(exact)'
  <2>1. pc'[s] \in {clean, conflict} /\ pc'[Other(s)] = pc[Other(s)]
    BY <1>1, SitesFacts DEF TypeOK, CheckHistory
  <2>2. FastHeld \cap SlowHeld = {}
    BY DEF FastHeld, SlowHeld
  <2>3. /\ pc'[s] \in FastHeld <=> pc[s] \in FastHeld
        /\ pc'[s] \in SlowHeld <=> pc[s] \in SlowHeld
    BY <1>1, <2>1, <2>2
  <2>. QED
    BY <1>1, <2>1, <2>3, HandlerKeeps DEF CheckHistory
<1>2. ASSUME NEW next, StampVTS(s, next) \/ Push(s, s, next),
             next \in FastHeld <=> pc[s] \in FastHeld,
             next \in SlowHeld <=> pc[s] \in SlowHeld
      PROVE  AllLocks(exact)'
  <2>1. pc'[s] = next /\ pc'[Other(s)] = pc[Other(s)]
    BY <1>2, SitesFacts DEF TypeOK, StampVTS, NextVTS, Push
  <2>2. txn'[Other(s)] = txn[Other(s)] /\ txn'[s].key = txn[s].key
    <3>1. CASE StampVTS(s, next)
      <4>1. PICK vts : txn' = [txn EXCEPT ![s].ver = vts]
        BY <3>1 DEF StampVTS, NextVTS
      <4>. QED
        BY <4>1, SitesFacts DEF TypeOK
    <3>2. CASE Push(s, s, next)
      BY <3>2 DEF Push
    <3>. QED
      BY <1>2, <3>1, <3>2
  <2>. QED
    BY <1>2, <2>1, <2>2, HandlerKeeps DEF StampVTS, NextVTS, Push
<1>. USE DEF FastHeld, SlowHeld
<1>3. CASE FastStep(s)
  <2>1. CASE FastCheck(s)
    BY <1>1, <2>1 DEF FastCheck
  <2>2. CASE FastAbort(s)
    BY <2>2, ReleaseLocks DEF FastAbort
  <2>3. CASE FastStamp(s)
    BY <1>2, <2>3 DEF FastStamp
  <2>4. CASE FastPush(s)
    BY <1>2, <2>4 DEF FastPush
  <2>5. CASE FastQueue(s)
    BY <2>5, QueueFastLocks DEF FastQueue
  <2>6. CASE FastDone(s)
    BY <2>6, ReleaseLocks DEF FastDone
  <2>. QED
    BY <1>3, <2>1, <2>2, <2>3, <2>4, <2>5, <2>6 DEF FastStep
<1>4. CASE SlowStep(s)
  <2>1. CASE SlowCheck(s)
    BY <1>1, <2>1, OtherType DEF SlowCheck
  <2>2. CASE SlowAbort(s)
    BY <2>2, ReleaseLocks, OtherType DEF SlowAbort
  <2>3. CASE SlowStamp(s)
    BY <1>2, <2>3 DEF SlowStamp
  <2>4. CASE SlowPush(s)
    BY <1>2, <2>4 DEF SlowPush
  <2>5. CASE SlowQueue(s)
    BY <2>5, QueueSlowLocks DEF SlowQueue
  <2>. QED
    BY <1>4, <2>1, <2>2, <2>3, <2>4, <2>5 DEF SlowStep
<1>. QED
  BY <1>3, <1>4

LEMMA UnlockSlowNext ==
    ASSUME TypeOK, UnlockSlow, [Next]_vars
    PROVE  UnlockSlow'
<1>1. CASE UNCHANGED <<rpc, rep_msg>>
  BY <1>1 DEF UnlockSlow
<1>2. ASSUME NEW s \in Sites, RepStep(s) PROVE UnlockSlow'
  <2>1. CASE RepRecv(s)
    BY <2>1 DEF TypeOK, RepRecv, UnlockSlow
  <2>2. CASE RepPush(s)
    BY <2>2 DEF TypeOK, RepPush, AfterPush, UnlockSlow
  <2>3. CASE RepUnlock(s) \/ RepCount(s) \/ RepDrain(s)
    BY <2>3 DEF TypeOK, RepUnlock, RepCount, PeerVTS, RepDrain, UnlockSlow
  <2>. QED
    BY <1>2, <2>1, <2>2, <2>3 DEF RepStep
<1>3. ASSUME NEW s \in Sites, Request(s) PROVE UNCHANGED <<rpc, rep_msg>>
  <2>1. PICK d \in Diaries : \/ handle_edit_diary(s, d)
                            \/ handle_add_comment(s, d)
                            \/ handle_get_diary_content(s, d)
    BY <1>3 DEF Request
  <2>. QED
    BY <2>1 DEF handle_edit_diary, handle_add_comment, handle_get_diary_content,
                FastAcquire, SlowAcquire, acquire_lock
<1>4. ASSUME NEW s \in Sites, FastStep(s) \/ SlowStep(s) PROVE UNCHANGED <<rpc, rep_msg>>
  BY <1>4 DEF FastStep, FastCheck, FastAbort, FastStamp, FastPush, FastQueue, FastDone,
              SlowStep, SlowCheck, SlowAbort, SlowStamp, SlowPush, SlowQueue,
              CheckHistory, release_lock, StampVTS, Push, QueueMsg
<1>5. CASE UNCHANGED vars
  BY <1>1, <1>5 DEF vars
<1>. QED
  BY <1>1, <1>2, <1>3, <1>4, <1>5 DEF Next

LEMMA LocksNext ==
    ASSUME NEW exact \in BOOLEAN, TypeOK, AllLocks(exact), UnlockSlow, [Next]_vars
    PROVE  AllLocks(exact)'
<1>1. CASE UNCHANGED vars
  <2>. SUFFICES ASSUME NEW r \in Sites, NEW k \in Keys PROVE LockInv(r, k, exact)'
    BY DEF AllLocks
  <2>1. LockInv(r, k, exact) /\ SentOwns(r, k)' = SentOwns(r, k)
    BY <1>1, TransitSame, SentSame DEF AllLocks, vars
  <2>. QED
    BY <1>1, <2>1, LockSame DEF vars, FastOwns, SlowOwns, ApplyOwns
<1>. QED
  BY <1>1, RequestLocks, HandlerLocks, ReplicaterLocks DEF Next

\* No lock is owned when the servers start.
LEMMA FreshLocks ==
    ASSUME NEW exact \in BOOLEAN, InitServers, lock = [s \in Sites |-> [k \in Keys |-> 0]]
    PROVE  AllLocks(exact) /\ UnlockSlow
<1>1. UnlockSlow
  BY DEF InitServers, UnlockSlow
<1>2. SUFFICES ASSUME NEW r \in Sites, NEW k \in Keys PROVE LockInv(r, k, exact)
  BY <1>1 DEF AllLocks
<1>3. ~ FastOwns(r, k) /\ ~ SlowOwns(r, k) /\ ~ ApplyOwns(r, k) /\ lock[r][k] = 0
  BY SitesFacts DEF InitServers, FastOwns, SlowOwns, ApplyOwns, FastHeld, SlowHeld
<1>4. SentOwns(r, k) = {}
  <2>1. net[r] = <<>> /\ msg_list[Other(r)] = <<>>
    BY SitesFacts DEF InitServers
  <2>2. Transit(r) = <<>>
    BY <2>1, ConcatEmptySeq, EmptySeq DEF Transit
  <2>. QED
    BY <2>2 DEF SentOwns
<1>. QED
  BY <1>3, <1>4 DEF LockInv, Unowned

-----------------------------------------------------------------------------
(***************************************************************************)
(* A lock left taken without an owner is never given back: only an owner   *)
(* sets it to 0, and none becomes its owner while it does not read 0.      *)
(***************************************************************************)
Abandoned(r, k) == lock[r][k] > 0 /\ Unowned(r, k)

LEMMA AbandonedSame ==
    ASSUME NEW r, NEW k, Abandoned(r, k),
           lock'[r][k] > 0,
           FastOwns(r, k)' => FastOwns(r, k),
           SlowOwns(r, k)' => SlowOwns(r, k),
           ApplyOwns(r, k)' => ApplyOwns(r, k),
           SentOwns(r, k)' = {}
    PROVE  Abandoned(r, k)'
BY DEF Abandoned, Unowned

LEMMA AbandonedHandler ==
    ASSUME NEW r \in Sites, NEW k \in Keys, Abandoned(r, k), NEW s \in Sites,
           UNCHANGED <<rpc, rep_msg, net, msg_list>>,
           lock'[r][k] > 0,
           pc'[Other(s)] = pc[Other(s)], txn'[Other(s)] = txn[Other(s)],
           txn'[s].key = txn[s].key,
           pc'[s] \in FastHeld => pc[s] \in FastHeld,
           pc'[s] \in SlowHeld => pc[s] \in SlowHeld
    PROVE  Abandoned(r, k)'
<1>1. FastOwns(r, k)' => FastOwns(r, k)
  BY SitesFacts DEF FastOwns
<1>2. SlowOwns(r, k)' => SlowOwns(r, k)
  BY SitesFacts DEF SlowOwns
<1>3. ApplyOwns(r, k)' <=> ApplyOwns(r, k)
  BY DEF ApplyOwns
<1>4. SentOwns(r, k)' = {}
  BY TransitSame, SentSame DEF Abandoned, Unowned
<1>. QED
  BY <1>1, <1>2, <1>3, <1>4, AbandonedSame

LEMMA AbandonedAcquire ==
    ASSUME TypeOK, NEW r \in Sites, NEW k \in Keys, Abandoned(r, k),
           NEW s \in Sites, NEW r0 \in Sites, NEW k0 \in Keys, NEW startTs, NEW next,
           pc[s] = "idle",
           \/ r0 = s /\ next \in FastHeld
           \/ r0 = Other(s) /\ next \in SlowHeld,
           acquire_lock(s, r0, k0, startTs, next)
    PROVE  Abandoned(r, k)'
<1>0. FastHeld \cap SlowHeld = {}
  BY DEF FastHeld, SlowHeld
<1>1. /\ lock[r0][k0] \in Nat /\ lock[r][k] > 0
      /\ lock'[r0][k0] = lock[r0][k0] + 1
      /\ r # r0 \/ k # k0 => lock'[r][k] = lock[r][k]
  BY DEF TypeOK, acquire_lock, Abandoned
<1>2. lock'[r][k] > 0
  <2>1. CASE r = r0 /\ k = k0
    BY <1>1, <2>1
  <2>2. CASE r # r0 \/ k # k0
    BY <1>1, <2>2
  <2>. QED
    BY <2>1, <2>2
<1>3. UNCHANGED <<rpc, rep_msg, net, msg_list>>
  BY DEF acquire_lock
<1>4. CASE UNCHANGED <<pc, txn>>
  BY <1>2, <1>3, <1>4, AbandonedHandler
<1>5. CASE lock[r0][k0] = 0
  <2>1. /\ pc'[s] = next /\ txn'[s].key = k0
        /\ pc'[Other(s)] = pc[Other(s)] /\ txn'[Other(s)] = txn[Other(s)]
    <3>1. /\ pc' = [pc EXCEPT ![s] = next]
          /\ txn' = [txn EXCEPT ![s] = [key |-> k0, startTs |-> startTs, ver |-> startTs]]
      BY <1>5 DEF acquire_lock
    <3>. QED
      BY <3>1, PcType, TxnType, SitesFacts
  <2>2. r # r0 \/ k # k0
    BY <1>1, <1>5
  <2>3. FastOwns(r, k)' => FastOwns(r, k)
    BY <1>0, <2>1, <2>2, SitesFacts DEF FastOwns
  <2>4. SlowOwns(r, k)' => SlowOwns(r, k)
    BY <1>0, <2>1, <2>2, SitesFacts DEF SlowOwns
  <2>5. ApplyOwns(r, k)' <=> ApplyOwns(r, k)
    BY <1>3 DEF ApplyOwns
  <2>6. SentOwns(r, k)' = {}
    BY <1>3, TransitSame, SentSame DEF Abandoned, Unowned
  <2>. QED
    BY <1>2, <2>3, <2>4, <2>5, <2>6, AbandonedSame
<1>. QED
  BY <1>4, <1>5 DEF acquire_lock

LEMMA AbandonedRelease ==
    ASSUME TypeOK, NEW r \in Sites, NEW k \in Keys, Abandoned(r, k),
           NEW s \in Sites, NEW r0 \in Sites,
           \/ r0 = s /\ pc[s] \in FastHeld
           \/ r0 = Other(s) /\ pc[s] \in SlowHeld,
           release_lock(s, r0)
    PROVE  Abandoned(r, k)'
<1>1. r # r0 \/ k # txn[s].key
  BY SitesFacts DEF Abandoned, Unowned, FastOwns, SlowOwns
<1>2. lock'[r][k] > 0
  <2>1. lock' = [lock EXCEPT ![r0][txn[s].key] = 0] /\ lock[r][k] > 0
    BY DEF release_lock, Abandoned
  <2>2. lock'[r][k] = lock[r][k]
    BY <1>1, <2>1 DEF TypeOK
  <2>. QED
    BY <2>1, <2>2
<1>3. /\ UNCHANGED <<rpc, rep_msg, net, msg_list, txn>>
      /\ pc'[s] = "idle" /\ pc'[Other(s)] = pc[Other(s)]
  BY PcType, SitesFacts DEF release_lock
<1>4. "idle" \notin FastHeld /\ "idle" \notin SlowHeld
  BY DEF FastHeld, SlowHeld
<1>. QED
  BY <1>2, <1>3, <1>4, AbandonedHandler

LEMMA AbandonedRequest ==
    ASSUME TypeOK, NEW r \in Sites, NEW k \in Keys, Abandoned(r, k), NEW s \in Sites, Request(s)
    PROVE  Abandoned(r, k)'
<1>1. PICK d \in Diaries : \/ handle_edit_diary(s, d)
                          \/ handle_add_comment(s, d)
                          \/ handle_get_diary_content(s, d)
  BY DEF Request
<1>2. DiaryKey(d) \in Keys /\ CommentKey(d) \in Keys
  BY DEF DiaryKey, CommentKey, Keys
<1>3. /\ "fast_check" \in FastHeld /\ "fast_stamp" \in FastHeld
      /\ "slow_check" \in SlowHeld
  BY DEF FastHeld, SlowHeld
<1>4. CASE handle_edit_diary(s, d)
  <2>1. PICK startTs \in pages[s][d] :
            \/ FastAcquire(s, DiaryKey(d), startTs, "fast_check")
            \/ SlowAcquire(s, DiaryKey(d), startTs)
    BY <1>4 DEF handle_edit_diary
  <2>2. CASE FastAcquire(s, DiaryKey(d), startTs, "fast_check")
    BY <1>2, <1>3, <2>2, AbandonedAcquire DEF FastAcquire
  <2>3. CASE SlowAcquire(s, DiaryKey(d), startTs)
    BY <1>2, <1>3, <2>3, AbandonedAcquire, OtherType DEF SlowAcquire
  <2>. QED
    BY <2>1, <2>2, <2>3
<1>5. CASE handle_add_comment(s, d)
  BY <1>2, <1>3, <1>5, AbandonedAcquire DEF handle_add_comment, FastAcquire
<1>6. CASE handle_get_diary_content(s, d)
  <2>1. UNCHANGED <<lock, pc, txn, rpc, rep_msg, net, msg_list>>
    BY <1>6 DEF handle_get_diary_content
  <2>. QED
    BY <2>1, AbandonedHandler DEF Abandoned
<1>. QED
  BY <1>1, <1>4, <1>5, <1>6

\* What a slow handler queues takes its lock along, and its lock is not k's.
LEMMA AbandonedQueue ==
    ASSUME TypeOK, NEW r \in Sites, NEW k \in Keys, Abandoned(r, k),
           NEW s \in Sites, FastQueue(s) \/ SlowQueue(s)
    PROVE  Abandoned(r, k)'
<1>1. PICK type \in {"FAST_CMT", "SLOW_CMT"}, next \in {"fast_done", "idle"} :
         /\ \/ pc[s] = "fast_queue" /\ type = "FAST_CMT" /\ next = "fast_done"
            \/ pc[s] = "slow_queue" /\ type = "SLOW_CMT" /\ next = "idle"
         /\ QueueMsg(s, type, next)
  BY DEF FastQueue, SlowQueue
<1>2. /\ UNCHANGED <<lock, txn, rpc, rep_msg>>
      /\ pc'[s] = next /\ pc'[Other(s)] = pc[Other(s)]
  BY <1>1, PcType, SitesFacts DEF QueueMsg
<1>3. /\ "fast_queue" \in FastHeld /\ "fast_done" \in FastHeld /\ "slow_queue" \in SlowHeld
      /\ "idle" \notin FastHeld /\ "idle" \notin SlowHeld /\ "fast_done" \notin SlowHeld
  BY DEF FastHeld, SlowHeld
<1>4. FastOwns(r, k)' => FastOwns(r, k)
  BY <1>1, <1>2, <1>3, SitesFacts DEF FastOwns
<1>5. SlowOwns(r, k)' => SlowOwns(r, k)
  BY <1>1, <1>2, <1>3, SitesFacts DEF SlowOwns
<1>6. ApplyOwns(r, k)' => ApplyOwns(r, k)
  BY <1>2, RpcType DEF QueueMsg, ApplyOwns
<1>7. SentOwns(r, k)' = {}
  <2>1. SentOwns(r, k) = {} /\ ~ SlowOwns(r, k)
    BY DEF Abandoned, Unowned
  <2>2. PICK m \in Message : /\ m = [commit_type |-> type, key |-> txn[s].key, ver |-> txn[s].ver]
                            /\ Transit(Other(s))' = Append(Transit(Other(s)), m)
                            /\ Transit(s)' = Transit(s)
    <3>1. [commit_type |-> type, key |-> txn[s].key, ver |-> txn[s].ver] \in Message
      BY TxnType DEF Message
    <3>. QED
      BY <1>1, <3>1, TransitQueue
  <2>3. CASE r = s
    BY <2>1, <2>2, <2>3, SentSame
  <2>4. CASE r = Other(s)
    <3>1. ~ IsSlow(m, k)
      BY <1>1, <1>3, <2>1, <2>2, <2>4, SitesFacts DEF IsSlow, SlowOwns
    <3>2. PICK p \in Seq(Message) : p = Transit(r)
      BY TransitType
    <3>3. /\ DOMAIN p = 1..Len(p) /\ Len(p) \in Nat
          /\ DOMAIN Append(p, m) = 1..(Len(p) + 1)
          /\ \A i \in 1..Len(p) : Append(p, m)[i] = p[i]
          /\ Append(p, m)[Len(p) + 1] = m
      BY AppendProperties, LenProperties
    <3>4. \A i \in DOMAIN p : ~ IsSlow(p[i], k)
      BY <2>1, <3>2 DEF SentOwns
    <3>5. \A i \in DOMAIN Append(p, m) : ~ IsSlow(Append(p, m)[i], k)
      BY <3>1, <3>3, <3>4
    <3>. QED
      BY <2>2, <2>4, <3>2, <3>5 DEF SentOwns
  <2>. QED
    BY <2>3, <2>4, SitesFacts
<1>8. lock'[r][k] > 0
  BY <1>2 DEF Abandoned
<1>. QED
  BY <1>4, <1>5, <1>6, <1>7, <1>8, AbandonedSame

LEMMA AbandonedCommit ==
    ASSUME TypeOK, NEW r \in Sites, NEW k \in Keys, Abandoned(r, k),
           NEW s \in Sites, FastStep(s) \/ SlowStep(s)
    PROVE  Abandoned(r, k)'
<1>0. lock[r][k] > 0
  BY DEF Abandoned
<1>1. ASSUME NEW t, NEW clean, NEW conflict, CheckHistory(s, t, clean, conflict),
             \/ {pc[s], clean, conflict} \subseteq FastHeld
             \/ {pc[s], clean, conflict} \subseteq SlowHeld
      PROVE  Abandoned(r, k)'
  <2>1. pc'[s] \in {clean, conflict} /\ pc'[Other(s)] = pc[Other(s)]
    BY <1>1, PcType, SitesFacts DEF CheckHistory
  <2>2. FastHeld \cap SlowHeld = {}
    BY DEF FastHeld, SlowHeld
  <2>3. UNCHANGED <<lock, txn, rpc, rep_msg, net, msg_list>>
    BY <1>1 DEF CheckHistory
  <2>. QED
    BY <1>0, <1>1, <2>1, <2>2, <2>3, AbandonedHandler
<1>2. ASSUME NEW next, StampVTS(s, next) \/ Push(s, s, next),
             next \in FastHeld <=> pc[s] \in FastHeld,
             next \in SlowHeld <=> pc[s] \in SlowHeld
      PROVE  Abandoned(r, k)'
  <2>1. pc'[s] = next /\ pc'[Other(s)] = pc[Other(s)]
    BY <1>2, PcType, SitesFacts DEF StampVTS, NextVTS, Push
  <2>2. txn'[Other(s)] = txn[Other(s)] /\ txn'[s].key = txn[s].key
    <3>1. CASE StampVTS(s, next)
      <4>1. PICK vts : txn' = [txn EXCEPT ![s].ver = vts]
        BY <3>1 DEF StampVTS, NextVTS
      <4>. QED
        BY <4>1, TxnType, SitesFacts
    <3>2. CASE Push(s, s, next)
      BY <3>2 DEF Push
    <3>. QED
      BY <1>2, <3>1, <3>2
  <2>3. UNCHANGED <<lock, rpc, rep_msg, net, msg_list>>
    BY <1>2 DEF StampVTS, NextVTS, Push
  <2>. QED
    BY <1>0, <1>2, <2>1, <2>2, <2>3, AbandonedHandler
<1>. USE DEF FastHeld, SlowHeld
<1>3. CASE FastCheck(s) \/ SlowCheck(s)
  BY <1>1, <1>3 DEF FastCheck, SlowCheck
<1>4. CASE FastAbort(s) \/ FastDone(s)
  BY <1>4, AbandonedRelease DEF FastAbort, FastDone
<1>5. CASE SlowAbort(s)
  BY <1>5, AbandonedRelease, OtherType DEF SlowAbort
<1>6. CASE FastStamp(s) \/ SlowStamp(s)
  BY <1>2, <1>6 DEF FastStamp, SlowStamp
<1>7. CASE FastPush(s) \/ SlowPush(s)
  BY <1>2, <1>7 DEF FastPush, SlowPush
<1>8. CASE FastQueue(s) \/ SlowQueue(s)
  BY <1>8, AbandonedQueue
<1>. QED
  BY <1>3, <1>4, <1>5, <1>6, <1>7, <1>8 DEF FastStep, SlowStep

LEMMA AbandonedReplicater ==
    ASSUME TypeOK, UnlockSlow, NEW r \in Sites, NEW k \in Keys, Abandoned(r, k),
           NEW s \in Sites, RepStep(s)
    PROVE  Abandoned(r, k)'
<1>0. lock[r][k] > 0 /\ SentOwns(r, k) = {} /\ ~ ApplyOwns(r, k)
  BY DEF Abandoned, Unowned
<1>1. UNCHANGED <<pc, txn>> /\ rpc'[Other(s)] = rpc[Other(s)] /\ rep_msg'[Other(s)] = rep_msg[Other(s)]
  BY RpcType, SitesFacts
  DEF TypeOK, RepStep, RepRecv, RepPush, RepUnlock, RepCount, PeerVTS, RepDrain
<1>2. (FastOwns(r, k)' <=> FastOwns(r, k)) /\ (SlowOwns(r, k)' <=> SlowOwns(r, k))
  BY <1>1 DEF FastOwns, SlowOwns
<1>3. CASE RepRecv(s)
  <2>1. lock' = lock /\ rpc'[s] = "push"
    BY <1>3, RpcType DEF RepRecv
  <2>2. CASE r = Other(s)
    <3>1. SentOwns(r, k)' = {}
      BY <1>0, <1>3, <2>2, TransitRecv, SentSame
    <3>2. ApplyOwns(r, k)' => ApplyOwns(r, k)
      BY <1>1, <2>2 DEF ApplyOwns
    <3>. QED
      BY <1>0, <1>2, <2>1, <3>1, <3>2, AbandonedSame
  <2>3. CASE r = s
    <3>1. PICK p \in Seq(Message) : p = Transit(s)
      BY TransitType
    <3>2. p # <<>> /\ rep_msg'[s] = Head(p) /\ Transit(s)' = Tail(p)
      BY <1>3, <3>1, TransitRecv
    <3>3. /\ Len(p) \in Nat \ {0} /\ DOMAIN p = 1..Len(p)
          /\ DOMAIN Tail(p) = 1..(Len(p) - 1)
          /\ \A i \in 1..(Len(p) - 1) : Tail(p)[i] = p[i + 1]
          /\ Head(p) = p[1]
      BY <3>2, HeadTailProperties, LenProperties, EmptySeq
    <3>4. \A i \in DOMAIN p : ~ IsSlow(p[i], k)
      BY <1>0, <2>3, <3>1 DEF SentOwns
    <3>5. ~ IsSlow(rep_msg'[s], k)
      BY <3>2, <3>3, <3>4
    <3>6. ~ ApplyOwns(r, k)'
      BY <2>3, <3>5 DEF ApplyOwns, IsSlow
    <3>7. \A i \in DOMAIN Tail(p) : ~ IsSlow(Tail(p)[i], k)
      BY <3>3, <3>4
    <3>8. SentOwns(r, k)' = {}
      BY <2>3, <3>2, <3>7 DEF SentOwns
    <3>. QED
      BY <1>0, <1>2, <2>1, <3>6, <3>8, AbandonedSame
  <2>. QED
    BY <2>2, <2>3, SitesFacts
<1>4. CASE ~ RepRecv(s)
  <2>1. \A t \in Sites : Transit(t)' = Transit(t)
    <3>1. CASE RepDrain(s)
      BY <3>1, TransitDrain
    <3>2. CASE ~ RepDrain(s)
      BY <1>4, <3>2, TransitSame DEF RepStep, RepPush, RepUnlock, RepCount
    <3>. QED
      BY <3>1, <3>2
  <2>2. SentOwns(r, k)' = {}
    BY <1>0, <2>1, SentSame
  <2>3. rep_msg' = rep_msg
    BY <1>4 DEF RepStep, RepPush, RepUnlock, RepCount, PeerVTS, RepDrain
  <2>4. rpc'[s] \in {"push", "unlock"} => rpc[s] \in {"push", "unlock"}
    BY <1>4, RpcType DEF RepStep, RepPush, RepUnlock, RepCount, PeerVTS, RepDrain, AfterPush
  <2>5. ApplyOwns(r, k)' => ApplyOwns(r, k)
    BY <1>1, <2>3, <2>4, SitesFacts DEF ApplyOwns, IsSlow
  <2>6. lock'[r][k] = lock[r][k]
    <3>1. CASE RepUnlock(s)
      <4>1. ~ (r = s /\ k = rep_msg[s].key)
        BY <1>0, <3>1 DEF RepUnlock, ApplyOwns, IsSlow, UnlockSlow
      <4>. QED
        BY <3>1, <4>1 DEF RepUnlock, TypeOK
    <3>2. CASE ~ RepUnlock(s)
      BY <1>4, <3>2 DEF RepStep, RepPush, RepCount, PeerVTS, RepDrain
    <3>. QED
      BY <3>1, <3>2
  <2>. QED
    BY <1>0, <1>2, <2>2, <2>5, <2>6, AbandonedSame
<1>. QED
  BY <1>3, <1>4

LEMMA AbandonedNext ==
    ASSUME TypeOK, UnlockSlow, [Next]_vars, NEW r \in Sites, NEW k \in Keys, Abandoned(r, k)
    PROVE  Abandoned(r, k)'
<1>1. CASE UNCHANGED vars
  <2>1. UNCHANGED <<lock, pc, txn, rpc, rep_msg, net, msg_list>> /\ r \in Sites
    BY <1>1 DEF vars
  <2>. QED
    BY <2>1, AbandonedHandler DEF Abandoned
<1>. QED
  BY <1>1, AbandonedRequest, AbandonedCommit, AbandonedReplicater DEF Next

-----------------------------------------------------------------------------
\* The lock of an object serialises its writers across both sites: from the
\* INCR to the SET 0 it has exactly one owner, wherever the commit is, and it
\* is free whenever it has none.
THEOREM SingleWriterCorrect == Spec => []SingleWriter
<1>. DEFINE Inv == TypeOK /\ AllLocks(TRUE) /\ UnlockSlow
<1>1. Init => Inv
  BY TypeInit, FreshLocks DEF Init
<1>2. Inv /\ [Next]_vars => Inv'
  BY TypeNext, LocksNext, UnlockSlowNext
<1>3. Inv => SingleWriter
  BY LocksSingle
<1>. QED
  BY <1>1, <1>2, <1>3, PTL DEF Spec

-----------------------------------------------------------------------------
(***************************************************************************)
(* First committer wins, for any diaries and any number of commits.  The   *)
(* check of an edit looks at one history, the one of the preferred site,   *)
(* and at nothing that is still on its way.  That is enough because        *)
(* whatever that history misses is owed by the owner of the lock.          *)
(***************************************************************************)
Home(k) == PREFER_SITE(k)

Holds(s, k, v) == \E i \in DOMAIN history[s][k] : history[s][k][i] = v

\* The versions k has had.
Known(k, v) == v = Zero \/ \E i \in DOMAIN committed[k] : committed[k][i].ver = v

Newest(k) == IF committed[k] = <<>> THEN Zero ELSE committed[k][Len(committed[k])].ver

\* The commit of version v, which the owner of the lock of k has yet to bring
\* to the history of the preferred site.
Owed(k, v) ==
    \/ pc[Home(k)] = "fast_push" /\ txn[Home(k)].key = k /\ txn[Home(k)].ver = v
    \/ /\ pc[Other(Home(k))] \in {"slow_push", "slow_queue"}
       /\ txn[Other(Home(k))].key = k /\ txn[Other(Home(k))].ver = v
    \/ \E i \in SentOwns(Home(k), k) : Transit(Home(k))[i].ver = v
    \/ rpc[Home(k)] = "push" /\ IsSlow(rep_msg[Home(k)], k) /\ rep_msg[Home(k)].ver = v

\* No commit is below an earlier one, or below the seed.
Rising ==
    \A k \in DiaryKeys : \A j \in DOMAIN committed[k] :
        /\ ~ Leq(committed[k][j].ver, Zero)
        /\ \A i \in DOMAIN committed[k] : i < j => ~ Leq(committed[k][j].ver, committed[k][i].ver)

StoredKnown ==
    \A s \in Sites, k \in DiaryKeys : \A i \in DOMAIN history[s][k] : Known(k, history[s][k][i])

\* What a page has been shown, its site holds.
PagesHeld ==
    \A s \in Sites, d \in Diaries : \A v \in pages[s][d] :
        v = Unloaded \/ Holds(s, DiaryKey(d), v)

MessageKnown(m) == m.key \in DiaryKeys => Known(m.key, m.ver)

SentKnown ==
    \A r \in Sites :
        /\ \A i \in DOMAIN Transit(r) : MessageKnown(Transit(r)[i])
        /\ rpc[r] = "push" => MessageKnown(rep_msg[r])

\* An edit is fast at its preferred site and slow at the other one; it starts
\* from a version its site holds, and from the newest one once it has passed
\* the check.  (The first edit of a diary, which nothing came before, may start
\* from nothing where the seed has not been stored.)
HandlerInv(s, exact) ==
    /\ pc[s] \in SlowHeld => txn[s].key \in DiaryKeys /\ Home(txn[s].key) = Other(s)
    /\ txn[s].key \in DiaryKeys =>
          /\ pc[s] \in FastHeld => Home(txn[s].key) = s
          /\ pc[s] \in {"fast_check", "fast_stamp", "slow_check", "slow_stamp"} =>
                txn[s].startTs = Unloaded \/ Holds(s, txn[s].key, txn[s].startTs)
          /\ pc[s] \in {"fast_stamp", "slow_stamp"} =>
                \/ txn[s].startTs = Newest(txn[s].key)
                \/ ~ exact /\ committed[txn[s].key] = <<>>
          /\ pc[s] \in Stamped => Known(txn[s].key, txn[s].ver)

Handlers(exact) == \A s \in Sites : HandlerInv(s, exact)

\* What the preferred site may miss without being owed it: the seed before
\* generate_data, and a commit whose message was lost, which has left the lock
\* of k taken for good.
Missed(k, v) == v = Zero \/ Abandoned(Home(k), k)

\* The preferred site holds the seed and every commit that is not owed to it.
HomeStores(exact) ==
    \A k \in DiaryKeys : \A v :
        Known(k, v) => \/ Holds(Home(k), k, v)
                       \/ Owed(k, v)
                       \/ ~ exact /\ Missed(k, v)

\* NoLostUpdate, and what is left of it where the first edit may start from
\* nothing.
Chained(exact) ==
    \A k \in DiaryKeys : \A i \in DOMAIN committed[k] :
        \/ committed[k][i].base = IF i = 1 THEN Zero ELSE committed[k][i - 1].ver
        \/ ~ exact /\ i = 1

\* The invariant of the edits, exact where every seed is stored and no message
\* is lost.
EditInv(exact) ==
    /\ Rising /\ Chained(exact) /\ StoredKnown /\ PagesHeld /\ SentKnown
    /\ Handlers(exact) /\ HomeStores(exact)

\* A lock that is left taken stays taken.
Stuck(exact) ==
    ~ exact => \A k \in DiaryKeys : Abandoned(Home(k), k) => Abandoned(Home(k), k)'

-----------------------------------------------------------------------------
LEMMA HomeFacts ==
    /\ DiaryKeys \subseteq Keys
    /\ \A k \in Keys : Home(k) \in Sites
    /\ \A d \in Diaries : DiaryKey(d) \in DiaryKeys /\ CommentKey(d) \in Keys \ DiaryKeys
<1>1. \A k \in Keys : Home(k) \in Sites
  <2>1. \A k \in Keys : k.id \in Nat
    BY DiariesAssumption DEF Keys
  <2>2. \A n \in Nat : n % 2 \in {0, 1}
    OBVIOUS
  <2>. QED
    BY <2>1, <2>2 DEF Home, PREFER_SITE, Sites
<1>. QED
  BY <1>1 DEF DiaryKeys, Keys, DiaryKey, CommentKey

(***************************************************************************)
(* What a step has to keep of each part.                                   *)
(***************************************************************************)
LEMMA CommitsSame ==
    ASSUME NEW exact, Rising, Chained(exact), UNCHANGED committed
    PROVE  Rising' /\ Chained(exact)'
BY DEF Rising, Chained

LEMMA StoredSame ==
    ASSUME StoredKnown, PagesHeld, UNCHANGED <<history, pages, committed>>
    PROVE  StoredKnown' /\ PagesHeld'
BY DEF StoredKnown, PagesHeld, Holds, Known

LEMMA SentKeeps ==
    ASSUME SentKnown, UNCHANGED committed,
           \A r \in Sites : /\ Transit(r)' = Transit(r)
                            /\ rpc'[r] = "push" => rpc[r] = "push" /\ rep_msg'[r] = rep_msg[r]
    PROVE  SentKnown'
BY DEF SentKnown, MessageKnown, Known

\* A history only grows.
Growing ==
    \A s \in Sites, k \in DiaryKeys : \A v : Holds(s, k, v) => Holds(s, k, v)'

LEMMA GrowingSame ==
    ASSUME UNCHANGED history
    PROVE  Growing
BY DEF Growing, Holds

LEMMA GrowingPush ==
    ASSUME TypeOK, NEW r \in Sites, NEW q \in Keys, NEW w \in Version,
           history' = [history EXCEPT ![r][q] = Append(@, w)]
    PROVE  /\ Growing
           /\ Holds(r, q, w)'
           /\ \A s \in Sites, k \in DiaryKeys : \A v :
                 Holds(s, k, v)' => Holds(s, k, v) \/ (s = r /\ k = q /\ v = w)
<1>1. PICK h \in Seq(Version) : h = history[r][q]
  BY DEF TypeOK
<1>2. /\ history'[r][q] = Append(h, w)
      /\ \A s \in Sites, k \in Keys : s # r \/ k # q => history'[s][k] = history[s][k]
  BY <1>1 DEF TypeOK
<1>3. /\ DOMAIN h = 1..Len(h) /\ Len(h) \in Nat
      /\ DOMAIN Append(h, w) = 1..(Len(h) + 1)
      /\ \A i \in 1..Len(h) : Append(h, w)[i] = h[i]
      /\ Append(h, w)[Len(h) + 1] = w
  BY AppendProperties, LenProperties
<1>4. \A v : /\ Holds(r, q, v) => Holds(r, q, v)'
             /\ Holds(r, q, v)' => Holds(r, q, v) \/ v = w
  BY <1>1, <1>2, <1>3 DEF Holds
<1>5. Holds(r, q, w)'
  BY <1>2, <1>3 DEF Holds
<1>6. \A s \in Sites, k \in DiaryKeys : s # r \/ k # q => \A v : Holds(s, k, v)' <=> Holds(s, k, v)
  BY <1>2 DEF Holds, DiaryKeys
<1>. QED
  BY <1>4, <1>5, <1>6 DEF Growing

LEMMA HandlerSame ==
    ASSUME NEW exact, NEW s \in Sites, HandlerInv(s, exact), UNCHANGED committed, Growing,
           pc'[s] = pc[s], txn'[s] = txn[s]
    PROVE  HandlerInv(s, exact)'
BY DEF HandlerInv, Known, Newest, Growing

LEMMA HomeKeeps ==
    ASSUME NEW exact \in BOOLEAN, HomeStores(exact), Stuck(exact), UNCHANGED committed, Growing,
           \A k \in DiaryKeys : \A v : Owed(k, v) =>
               Owed(k, v)' \/ Holds(Home(k), k, v)' \/ (~ exact /\ Missed(k, v)')
    PROVE  HomeStores(exact)'
<1>. SUFFICES ASSUME NEW k \in DiaryKeys, NEW v, Known(k, v)'
              PROVE  Holds(Home(k), k, v)' \/ Owed(k, v)' \/ (~ exact /\ Missed(k, v)')
  BY DEF HomeStores, Home
<1>1. Known(k, v)
  BY DEF Known
<1>2. Holds(Home(k), k, v) \/ Owed(k, v) \/ (~ exact /\ Missed(k, v))
  BY <1>1 DEF HomeStores
<1>3. ~ exact /\ Missed(k, v) => Missed(k, v)'
  BY DEF Missed, Stuck
<1>. QED
  BY <1>2, <1>3, HomeFacts DEF Growing

Owing == {"fast_push", "slow_push", "slow_queue"}

\* A step of a handler that owes no commit before it, and does not change
\* what is stored, shown or on its way.
LEMMA HandlerStep ==
    ASSUME NEW exact \in BOOLEAN, TypeOK, EditInv(exact), Stuck(exact), NEW s \in Sites,
           UNCHANGED <<history, net, msg_list, rpc, rep_msg, pages, committed>>,
           pc'[Other(s)] = pc[Other(s)], txn'[Other(s)] = txn[Other(s)],
           pc[s] \notin Owing,
           HandlerInv(s, exact)'
    PROVE  EditInv(exact)'
<1>1. Growing
  BY GrowingSame
<1>2. Rising' /\ Chained(exact)' /\ StoredKnown' /\ PagesHeld'
  BY CommitsSame, StoredSame DEF EditInv
<1>3. SentKnown'
  BY TransitSame, SentKeeps DEF EditInv
<1>4. Handlers(exact)'
  BY <1>1, HandlerSame, SitesFacts DEF EditInv, Handlers
<1>5. ASSUME NEW k \in DiaryKeys, NEW v, Owed(k, v) PROVE Owed(k, v)'
  <2>1. Home(k) \in Sites /\ Other(Home(k)) \in Sites /\ (Home(k))' = Home(k)
    BY HomeFacts, SitesFacts DEF Home
  <2>2. SentOwns(Home(k), k)' = SentOwns(Home(k), k) /\ Transit(Home(k))' = Transit(Home(k))
    BY <2>1, TransitSame, SentSame
  <2>3. \A t \in Sites : pc[t] \in Owing => pc'[t] = pc[t] /\ txn'[t] = txn[t]
    BY SitesFacts
  <2>. QED
    BY <1>5, <2>1, <2>2, <2>3 DEF Owed, Owing
<1>6. HomeStores(exact)'
  BY <1>1, <1>5, HomeKeeps DEF EditInv
<1>. QED
  BY <1>2, <1>3, <1>4, <1>6 DEF EditInv

-----------------------------------------------------------------------------
(***************************************************************************)
(* The handlers.                                                           *)
(***************************************************************************)

\* The lock an edit holds leaves nothing owed: the preferred site has stored
\* every commit of the diary.
LEMMA NothingOwed ==
    ASSUME NEW exact \in BOOLEAN, EditInv(exact), AllLocks(exact), NEW s \in Sites, txn[s].key \in DiaryKeys,
           pc[s] \in (FastHeld \cup SlowHeld) \ Owing
    PROVE  \A v : ~ Owed(txn[s].key, v)
<1>. DEFINE k == txn[s].key
            r == Home(k)
<1>1. r \in Sites /\ k \in Keys /\ LockInv(r, k, exact)
  BY HomeFacts DEF AllLocks
<1>2. HandlerInv(s, exact)
  BY DEF EditInv, Handlers
<1>3. CASE pc[s] \in FastHeld
  <2>1. r = s /\ FastOwns(r, k)
    BY <1>2, <1>3 DEF HandlerInv, FastOwns
  <2>2. ~ SlowOwns(r, k) /\ ~ ApplyOwns(r, k) /\ SentOwns(r, k) = {}
    BY <1>1, <2>1 DEF LockInv
  <2>. QED
    BY <2>1, <2>2 DEF Owed, Owing, SlowOwns, SlowHeld, ApplyOwns
<1>4. CASE pc[s] \in SlowHeld
  <2>1. r = Other(s) /\ Other(r) = s /\ SlowOwns(r, k)
    BY <1>2, <1>4, SitesFacts DEF HandlerInv, SlowOwns
  <2>2. ~ FastOwns(r, k) /\ ~ ApplyOwns(r, k) /\ SentOwns(r, k) = {}
    BY <1>1, <2>1 DEF LockInv
  <2>. QED
    BY <2>1, <2>2 DEF Owed, Owing, FastOwns, FastHeld, ApplyOwns
<1>. QED
  BY <1>3, <1>4

LEMMA NewestType ==
    ASSUME TypeOK, NEW k \in DiaryKeys, committed[k] # <<>>
    PROVE  Newest(k) \in Version
<1>1. PICK cs \in Seq(Commit) : cs = committed[k]
  BY HomeFacts DEF TypeOK
<1>2. Len(cs) \in DOMAIN cs
  BY <1>1, EmptySeq, LenProperties
<1>3. cs[Len(cs)] \in Commit
  BY <1>1, <1>2, ElementOfSeq, LenProperties
<1>4. cs[Len(cs)].ver \in Version
  BY <1>3 DEF Commit
<1>. QED
  BY <1>1, <1>4 DEF Newest

\* The newest commit is known, and a version not below it is it.
LEMMA NewestKnown ==
    ASSUME TypeOK, Rising, NEW k \in DiaryKeys, committed[k] # <<>>
    PROVE  /\ Known(k, Newest(k)) /\ ~ Leq(Newest(k), Zero)
           /\ \A v : Known(k, v) /\ Leq(Newest(k), v) => v = Newest(k)
<1>1. PICK cs \in Seq(Commit) : cs = committed[k]
  BY HomeFacts DEF TypeOK
<1>2. Len(cs) \in Nat /\ Len(cs) > 0 /\ DOMAIN cs = 1..Len(cs)
  BY <1>1, EmptySeq, LenProperties
<1>3. Newest(k) = cs[Len(cs)].ver
  BY <1>1 DEF Newest
<1>4. Known(k, Newest(k)) /\ ~ Leq(Newest(k), Zero)
  BY <1>1, <1>2, <1>3 DEF Known, Rising
<1>5. ASSUME NEW v, Known(k, v), Leq(Newest(k), v) PROVE v = Newest(k)
  <2>1. \/ v = Zero
        \/ \E i \in 1..Len(cs) : v = cs[i].ver
    BY <1>1, <1>2, <1>5 DEF Known
  <2>2. PICK i \in 1..Len(cs) : v = cs[i].ver
    BY <1>4, <1>5, <2>1
  <2>3. ~ i < Len(cs)
    BY <1>1, <1>2, <1>3, <1>5, <2>2 DEF Rising
  <2>. QED
    BY <1>2, <1>3, <2>2, <2>3
<1>. QED
  BY <1>4, <1>5

LEMMA CleanCheck ==
    ASSUME NEW exact \in BOOLEAN, TypeOK, EditInv(exact), AllLocks(exact),
           NEW s \in Sites, txn[s].key \in DiaryKeys,
           pc[s] \in {"fast_check", "slow_check"},
           ~ Conflict(txn[s].startTs, history[Home(txn[s].key)][txn[s].key])
    PROVE  \/ txn[s].startTs = Newest(txn[s].key)
           \/ ~ exact /\ committed[txn[s].key] = <<>>
<1>. DEFINE k == txn[s].key
            startTs == txn[s].startTs
<1>1. \A v : Known(k, v) => Holds(Home(k), k, v) \/ (~ exact /\ v = Zero)
  <2>1. \A v : ~ Owed(k, v)
    BY NothingOwed DEF FastHeld, SlowHeld, Owing
  <2>2. ~ Abandoned(Home(k), k)
    <3>1. HandlerInv(s, exact)
      BY DEF EditInv, Handlers
    <3>. QED
      BY <3>1, SitesFacts DEF HandlerInv, Abandoned, Unowned, FastOwns, SlowOwns, FastHeld, SlowHeld
  <2>. QED
    BY <2>1, <2>2 DEF EditInv, HomeStores, Missed
<1>2. \A v : Holds(Home(k), k, v) => Leq(v, startTs)
  BY DEF Holds, Conflict
<1>3. startTs = Unloaded \/ Known(k, startTs)
  <2>1. startTs = Unloaded \/ Holds(s, k, startTs)
    BY DEF EditInv, Handlers, HandlerInv
  <2>. QED
    BY <2>1 DEF EditInv, StoredKnown, Holds
<1>4. CASE committed[k] # <<>>
  <2>1. Known(k, Newest(k)) /\ ~ Leq(Newest(k), Zero) /\ Rising
    BY <1>4, NewestKnown DEF EditInv
  <2>2. Newest(k) # Zero
    BY <2>1 DEF Leq, Zero, Sites
  <2>3. Leq(Newest(k), startTs)
    BY <1>1, <1>2, <2>1, <2>2
  <2>4. Newest(k) \in Version
    BY <1>4, NewestType
  <2>5. startTs # Unloaded
    BY <2>1, <2>3, <2>4 DEF Leq, Zero, Unloaded, Sites, Version
  <2>. QED
    BY <1>3, <1>4, <2>1, <2>3, <2>5, NewestKnown
<1>5. CASE committed[k] = <<>> /\ exact
  <2>1. Leq(Zero, startTs)
    BY <1>1, <1>2, <1>5 DEF Known
  <2>2. startTs # Unloaded
    BY <2>1 DEF Leq, Zero, Unloaded, Sites
  <2>3. Known(k, startTs) => startTs = Zero
    BY <1>5, EmptySeq DEF Known
  <2>. QED
    BY <1>3, <1>5, <2>2, <2>3 DEF Newest
<1>. QED
  BY <1>4, <1>5

LEMMA CheckEdit ==
    ASSUME NEW exact \in BOOLEAN, TypeOK, EditInv(exact), Stuck(exact), AllLocks(exact), NEW s \in Sites, FastCheck(s) \/ SlowCheck(s)
    PROVE  EditInv(exact)'
<1>1. /\ UNCHANGED <<history, net, msg_list, rpc, rep_msg, pages, committed, txn>>
      /\ pc'[Other(s)] = pc[Other(s)]
      /\ pc[s] \in {"fast_check", "slow_check"}
  BY SitesFacts DEF TypeOK, FastCheck, SlowCheck, CheckHistory
<1>2. HandlerInv(s, exact)
  BY DEF EditInv, Handlers
<1>3. /\ pc[s] = "fast_check" => pc'[s] \in {"fast_stamp", "fast_abort"}
      /\ pc[s] = "slow_check" => pc'[s] \in {"slow_stamp", "slow_abort"}
  BY DEF TypeOK, FastCheck, SlowCheck, CheckHistory
<1>4. ASSUME txn[s].key \in DiaryKeys, pc'[s] \in {"fast_stamp", "slow_stamp"}
      PROVE  \/ txn[s].startTs = Newest(txn[s].key)
             \/ ~ exact /\ committed[txn[s].key] = <<>>
  <2>1. CASE FastCheck(s)
    <3>1. ~ Conflict(txn[s].startTs, history[s][txn[s].key])
      BY <1>4, <2>1 DEF TypeOK, FastCheck, CheckHistory
    <3>2. Home(txn[s].key) = s
      BY <1>2, <1>4, <2>1 DEF HandlerInv, FastHeld, FastCheck
    <3>. QED
      BY <1>1, <1>4, <3>1, <3>2, CleanCheck
  <2>2. CASE SlowCheck(s)
    <3>1. ~ Conflict(txn[s].startTs, history[Other(s)][txn[s].key])
      BY <1>4, <2>2 DEF TypeOK, SlowCheck, CheckHistory
    <3>2. Home(txn[s].key) = Other(s)
      BY <1>2, <2>2 DEF HandlerInv, SlowHeld, SlowCheck
    <3>. QED
      BY <1>1, <1>4, <3>1, <3>2, CleanCheck
  <2>. QED
    BY <2>1, <2>2
<1>5. HandlerInv(s, exact)'
  BY <1>1, <1>2, <1>3, <1>4, GrowingSame
  DEF HandlerInv, FastHeld, SlowHeld, Stamped, Home, Newest, Known, Growing
<1>. QED
  BY <1>1, <1>5, HandlerStep DEF Owing

LEMMA ReleaseEdit ==
    ASSUME NEW exact \in BOOLEAN, TypeOK, EditInv(exact), Stuck(exact), NEW s \in Sites, NEW r, release_lock(s, r), pc[s] \notin Owing
    PROVE  EditInv(exact)'
<1>1. pc'[s] = "idle" /\ pc'[Other(s)] = pc[Other(s)] /\ txn' = txn
  BY SitesFacts DEF TypeOK, release_lock
<1>2. HandlerInv(s, exact)'
  BY <1>1 DEF HandlerInv, FastHeld, SlowHeld, Stamped
<1>. QED
  BY <1>1, <1>2, HandlerStep DEF release_lock

LEMMA AcquireEdit ==
    ASSUME NEW exact \in BOOLEAN, TypeOK, EditInv(exact), Stuck(exact), NEW s \in Sites, NEW r, NEW k \in Keys, NEW startTs, NEW next,
           pc[s] = "idle", acquire_lock(s, r, k, startTs, next),
           \/ /\ k \in DiaryKeys
              /\ \/ Home(k) = s /\ next = "fast_check"
                 \/ Home(k) = Other(s) /\ next = "slow_check"
              /\ startTs = Unloaded \/ Holds(s, k, startTs)
           \/ k \notin DiaryKeys /\ next = "fast_stamp"
    PROVE  EditInv(exact)'
<1>1. /\ UNCHANGED <<history, net, msg_list, rpc, rep_msg, pages, committed>>
      /\ \/ /\ pc' = [pc EXCEPT ![s] = next]
            /\ txn' = [txn EXCEPT ![s] = [key |-> k, startTs |-> startTs, ver |-> startTs]]
         \/ UNCHANGED <<pc, txn>>
  BY DEF acquire_lock
<1>2. pc'[Other(s)] = pc[Other(s)] /\ txn'[Other(s)] = txn[Other(s)]
  BY <1>1, SitesFacts DEF TypeOK
<1>3. \/ pc'[s] = next /\ txn'[s].key = k /\ txn'[s].startTs = startTs
      \/ pc'[s] = "idle"
  BY <1>1 DEF TypeOK
<1>4. CASE pc'[s] = "idle"
  <2>1. HandlerInv(s, exact)'
    BY <1>4 DEF HandlerInv, FastHeld, SlowHeld, Stamped
  <2>. QED
    BY <1>1, <1>2, <2>1, HandlerStep DEF Owing
<1>5. CASE pc'[s] = next /\ txn'[s].key = k /\ txn'[s].startTs = startTs
  <2>1. HandlerInv(s, exact)'
    BY <1>1, <1>5, GrowingSame, HomeFacts, SitesFacts
    DEF HandlerInv, FastHeld, SlowHeld, Stamped, Home, Growing
  <2>. QED
    BY <1>1, <1>2, <2>1, HandlerStep DEF Owing
<1>. QED
  BY <1>3, <1>4, <1>5

\* The commit of an edit that has passed the check extends the newest version.
LEMMA StampEdit ==
    ASSUME NEW exact \in BOOLEAN, TypeOK, EditInv(exact), Stuck(exact), AllLocks(exact), ClockBound, NEW s \in Sites, NEW next,
           \/ pc[s] = "fast_stamp" /\ next = "fast_push"
           \/ pc[s] = "slow_stamp" /\ next = "slow_push",
           StampVTS(s, next)
    PROVE  EditInv(exact)'
<1>1. PICK q \in Keys : q = txn[s].key
  BY DEF TypeOK
<1>2. PICK vts \in [Sites -> Nat] : vts = NextVTS(s)
  <2>1. [committedVTS[s] EXCEPT ![s] = @ + 1] \in [Sites -> Nat]
    BY DEF TypeOK
  <2>. QED
    BY <2>1 DEF NextVTS
<1>3. /\ vts[s] = committedVTS[s][s] + 1 /\ vts[s] \in Nat
      /\ committedVTS[s][s] \in Nat
  BY <1>2 DEF TypeOK, NextVTS
<1>4. PICK c \in Commit : c = [site |-> s, base |-> txn[s].startTs, ver |-> vts]
  <2>1. vts \in Version /\ txn[s].startTs \in Version
    BY DEF TypeOK, Version
  <2>. QED
    BY <2>1 DEF Commit
<1>5. PICK cs \in Seq(Commit) : cs = committed[q]
  BY DEF TypeOK
<1>6. /\ DOMAIN cs = 1..Len(cs) /\ Len(cs) \in Nat
      /\ Len(Append(cs, c)) = Len(cs) + 1
      /\ DOMAIN Append(cs, c) = 1..(Len(cs) + 1)
      /\ \A i \in 1..Len(cs) : Append(cs, c)[i] = cs[i]
      /\ Append(cs, c)[Len(cs) + 1] = c
  BY AppendProperties, LenProperties
<1>7. /\ UNCHANGED <<history, lock, msg_list, net, rpc, rep_msg, pages>>
      /\ committed'[q] = Append(cs, c)
      /\ \A k \in Keys : k # q => committed'[k] = committed[k]
      /\ pc'[s] = next /\ pc'[Other(s)] = pc[Other(s)]
      /\ txn'[s].key = q /\ txn'[s].ver = vts /\ txn'[s].startTs = txn[s].startTs
      /\ txn'[Other(s)] = txn[Other(s)]
  <2>1. committed' = [committed EXCEPT ![q] = Append(cs, c)]
    BY <1>1, <1>2, <1>4, <1>5 DEF StampVTS
  <2>2. txn' = [txn EXCEPT ![s].ver = vts]
    BY <1>2 DEF StampVTS
  <2>3. pc' = [pc EXCEPT ![s] = next] /\ UNCHANGED <<history, lock, msg_list, net, rpc, rep_msg, pages>>
    BY DEF StampVTS
  <2>. QED
    BY <1>1, <2>1, <2>2, <2>3, SitesFacts DEF TypeOK
<1>8. HandlerInv(s, exact)
  BY DEF EditInv, Handlers
<1>9. /\ q \in DiaryKeys /\ pc[s] = "fast_stamp" => Home(q) = s
      /\ pc[s] = "slow_stamp" => q \in DiaryKeys /\ Home(q) = Other(s)
      /\ q \in DiaryKeys => \/ txn[s].startTs = Newest(q)
                            \/ ~ exact /\ committed[q] = <<>>
  BY <1>1, <1>8 DEF HandlerInv, FastHeld, SlowHeld
<1>10. \A k \in DiaryKeys : \A v : Known(k, v)' <=> Known(k, v) \/ (k = q /\ v = vts)
  <2>1. \A v : Known(q, v)' <=> Known(q, v) \/ v = vts
    BY <1>4, <1>5, <1>6, <1>7 DEF Known
  <2>2. \A k \in DiaryKeys : k # q => \A v : Known(k, v)' <=> Known(k, v)
    BY <1>7, HomeFacts DEF Known
  <2>. QED
    BY <2>1, <2>2
<1>11. Rising'
  <2>1. SUFFICES ASSUME NEW k \in DiaryKeys, NEW j \in DOMAIN committed'[k]
                 PROVE  /\ ~ Leq(committed'[k][j].ver, Zero)
                        /\ \A i \in DOMAIN committed'[k] : i < j =>
                              ~ Leq(committed'[k][j].ver, committed'[k][i].ver)
    BY DEF Rising
  <2>2. CASE k # q
    BY <1>7, <2>2, HomeFacts DEF EditInv, Rising
  <2>3. CASE k = q /\ j <= Len(cs)
    <3>1. j \in 1..Len(cs) /\ committed'[k][j] = cs[j]
      BY <1>6, <1>7, <2>3
    <3>2. /\ ~ Leq(cs[j].ver, Zero)
          /\ \A i \in 1..Len(cs) : i < j => ~ Leq(cs[j].ver, cs[i].ver)
      <4>1. committed[k] = cs /\ j \in DOMAIN committed[k]
        BY <1>5, <1>6, <2>3, <3>1
      <4>2. /\ ~ Leq(committed[k][j].ver, Zero)
            /\ \A i \in DOMAIN committed[k] :
                  i < j => ~ Leq(committed[k][j].ver, committed[k][i].ver)
        BY <4>1 DEF EditInv, Rising
      <4>. QED
        BY <1>6, <4>1, <4>2
    <3>3. \A i \in DOMAIN committed'[k] : i < j => i \in 1..Len(cs) /\ committed'[k][i] = cs[i]
      BY <1>6, <1>7, <2>3, <3>1
    <3>. QED
      BY <3>1, <3>2, <3>3
  <2>4. CASE k = q /\ j = Len(cs) + 1
    <3>1. committed'[k][j].ver = vts
      BY <1>4, <1>6, <1>7, <2>4
    <3>2. ~ Leq(vts, Zero)
      BY <1>3 DEF Leq, Zero
    <3>3. ASSUME NEW i \in 1..Len(cs) PROVE ~ Leq(vts, cs[i].ver)
      <4>1. cs[i] \in Commit
        BY <1>6
      <4>2. cs[i].ver[s] \in Int
        BY <4>1 DEF Commit, Version
      <4>3. cs[i].ver[s] <= committedVTS[s][s]
        <5>1. i \in DOMAIN committed[q] /\ committed[q][i] = cs[i]
          BY <1>5, <1>6
        <5>. QED
          BY <5>1 DEF ClockBound
      <4>4. ~ (vts[s] <= cs[i].ver[s])
        BY <1>3, <4>2, <4>3
      <4>. QED
        BY <4>4 DEF Leq
    <3>4. \A i \in DOMAIN committed'[k] : i < j => i \in 1..Len(cs) /\ committed'[k][i] = cs[i]
      BY <1>6, <1>7, <2>4
    <3>. QED
      BY <3>1, <3>2, <3>3, <3>4
  <2>. QED
    BY <1>6, <1>7, <2>2, <2>3, <2>4
<1>12. Chained(exact)'
  <2>1. SUFFICES ASSUME NEW k \in DiaryKeys, NEW i \in DOMAIN committed'[k]
                 PROVE  \/ committed'[k][i].base = IF i = 1 THEN Zero ELSE committed'[k][i - 1].ver
                        \/ ~ exact /\ i = 1
    BY DEF Chained
  <2>2. CASE k # q
    BY <1>7, <2>2, HomeFacts DEF EditInv, Chained
  <2>3. CASE k = q /\ i <= Len(cs)
    <3>1. i \in 1..Len(cs) /\ committed'[k][i] = cs[i]
      BY <1>6, <1>7, <2>3
    <3>2. i # 1 => i - 1 \in 1..Len(cs) /\ committed'[k][i - 1] = cs[i - 1]
      BY <1>6, <1>7, <2>3, <3>1
    <3>3. \/ cs[i].base = IF i = 1 THEN Zero ELSE cs[i - 1].ver
          \/ ~ exact /\ i = 1
      BY <1>5, <1>6, <2>3, <3>1 DEF EditInv, Chained
    <3>. QED
      BY <3>1, <3>2, <3>3
  <2>4. CASE k = q /\ i = Len(cs) + 1
    <3>1. /\ committed'[k][i].base = txn[s].startTs
          /\ txn[s].startTs = Newest(k) \/ (~ exact /\ cs = <<>>)
      BY <1>4, <1>5, <1>6, <1>7, <1>9, <2>4
    <3>2. cs = <<>> <=> Len(cs) = 0
      BY EmptySeq
    <3>3. Newest(k) = IF cs = <<>> THEN Zero ELSE cs[Len(cs)].ver
      BY <1>5, <2>4 DEF Newest
    <3>4. CASE cs = <<>>
      <4>1. i = 1
        BY <2>4, <3>2, <3>4
      <4>. QED
        BY <3>1, <3>3, <3>4, <4>1
    <3>5. CASE cs # <<>>
      <4>1. i # 1 /\ i - 1 = Len(cs) /\ i - 1 \in 1..Len(cs)
        BY <1>6, <2>4, <3>2, <3>5
      <4>2. committed'[k][i - 1] = cs[Len(cs)]
        BY <1>6, <1>7, <2>4, <4>1
      <4>. QED
        BY <3>1, <3>3, <3>5, <4>1, <4>2
    <3>. QED
      BY <3>4, <3>5
  <2>. QED
    BY <1>6, <1>7, <2>2, <2>3, <2>4
<1>13. StoredKnown' /\ PagesHeld'
  <2>1. \A r \in Sites, k \in DiaryKeys : \A v : Holds(r, k, v)' <=> Holds(r, k, v)
    BY <1>7 DEF Holds
  <2>2. StoredKnown'
    BY <1>7, <1>10 DEF EditInv, StoredKnown
  <2>3. pages' = pages /\ \A d \in Diaries : DiaryKey(d) \in DiaryKeys
    BY <1>7, HomeFacts
  <2>4. ASSUME NEW r \in Sites, NEW d \in Diaries, NEW v \in pages'[r][d]
        PROVE  v = Unloaded \/ Holds(r, DiaryKey(d), v)'
    <3>1. v = Unloaded \/ Holds(r, DiaryKey(d), v)
      BY <2>3, <2>4 DEF EditInv, PagesHeld
    <3>. QED
      BY <2>1, <2>3, <3>1
  <2>5. PagesHeld'
    BY <2>4 DEF PagesHeld
  <2>. QED
    BY <2>2, <2>5
<1>14. SentKnown'
  <2>1. \A r \in Sites : Transit(r)' = Transit(r)
    BY <1>7, TransitSame
  <2>. QED
    BY <1>7, <1>10, <2>1 DEF EditInv, SentKnown, MessageKnown
<1>15. HandlerInv(s, exact)'
  BY <1>7, <1>9, <1>10 DEF HandlerInv, FastHeld, SlowHeld, Stamped, Home
<1>16. HandlerInv(Other(s), exact)'
  <2>. DEFINE t == Other(s)
  <2>1. t \in Sites /\ HandlerInv(t, exact) /\ Other(t) = s /\ t # s
    BY SitesFacts DEF EditInv, Handlers
  <2>2. ASSUME txn[t].key \in DiaryKeys, pc[t] \in {"fast_stamp", "slow_stamp"}
        PROVE  txn[t].key # q
    <3>1. SUFFICES ASSUME txn[t].key = q PROVE FALSE
      OBVIOUS
    <3>2. LockInv(Home(q), q, exact)
      BY <2>2, <3>1, HomeFacts DEF AllLocks
    <3>3. \/ Home(q) = s /\ FastOwns(s, q) /\ SlowOwns(s, q)
          \/ Home(q) = t /\ FastOwns(t, q) /\ SlowOwns(t, q)
      BY <1>1, <1>9, <2>1, <2>2, <3>1 DEF HandlerInv, FastOwns, SlowOwns, FastHeld, SlowHeld
    <3>. QED
      BY <3>2, <3>3 DEF LockInv
  <2>3. txn[t].key \in DiaryKeys /\ txn[t].key # q =>
            /\ Newest(txn[t].key)' = Newest(txn[t].key)
            /\ committed'[txn[t].key] = committed[txn[t].key]
    BY <1>7, HomeFacts DEF Newest
  <2>. QED
    BY <1>7, <1>10, <2>1, <2>2, <2>3, GrowingSame DEF HandlerInv, Home, Growing
<1>17. HomeStores(exact)'
  <2>1. SUFFICES ASSUME NEW k \in DiaryKeys, NEW v, Known(k, v)'
                 PROVE  Holds(Home(k), k, v)' \/ Owed(k, v)' \/ (~ exact /\ Missed(k, v)')
    BY DEF HomeStores, Home
  <2>2. Home(k) \in Sites /\ Other(Home(k)) \in Sites /\ Other(Other(Home(k))) = Home(k)
    BY HomeFacts, SitesFacts
  <2>3. CASE k = q /\ v = vts
    BY <1>7, <1>9, <2>2, <2>3, SitesFacts DEF Owed
  <2>4. CASE Known(k, v)
    <3>1. Holds(Home(k), k, v) => Holds(Home(k), k, v)'
      BY <2>2, <1>7, GrowingSame DEF Growing, Home
    <3>2. ASSUME Owed(k, v) PROVE Owed(k, v)'
      <4>1. SentOwns(Home(k), k)' = SentOwns(Home(k), k) /\ Transit(Home(k))' = Transit(Home(k))
        BY <1>7, <2>2, TransitSame, SentSame
      <4>2. \A t \in Sites : pc[t] \in Owing => pc'[t] = pc[t] /\ txn'[t] = txn[t]
        BY <1>7, SitesFacts DEF Owing
      <4>3. (Home(k))' = Home(k)
        BY DEF Home
      <4>. QED
        BY <1>7, <2>2, <3>2, <4>1, <4>2, <4>3 DEF Owed, Owing
    <3>3. ~ exact /\ Missed(k, v) => Missed(k, v)'
      BY DEF Missed, Stuck
    <3>. QED
      BY <2>4, <3>1, <3>2, <3>3 DEF EditInv, HomeStores
  <2>. QED
    BY <1>10, <2>1, <2>3, <2>4
<1>. QED
  BY <1>11, <1>12, <1>13, <1>14, <1>15, <1>16, <1>17, SitesFacts DEF EditInv, Handlers

\* A commit stored by its handler: at the preferred site it is owed no more.
LEMMA PushEdit ==
    ASSUME NEW exact \in BOOLEAN, TypeOK, EditInv(exact), Stuck(exact), NEW s \in Sites, FastPush(s) \/ SlowPush(s)
    PROVE  EditInv(exact)'
<1>1. PICK q \in Keys, w \in Version : q = txn[s].key /\ w = txn[s].ver
  BY DEF TypeOK
<1>2. /\ UNCHANGED <<txn, net, msg_list, rpc, rep_msg, pages, committed>>
      /\ history' = [history EXCEPT ![s][q] = Append(@, w)]
      /\ \/ pc[s] = "fast_push" /\ pc'[s] = "fast_queue"
         \/ pc[s] = "slow_push" /\ pc'[s] = "slow_queue"
      /\ pc'[Other(s)] = pc[Other(s)]
  BY <1>1, SitesFacts, PcType DEF FastPush, SlowPush, Push
<1>3. /\ Growing
      /\ Holds(s, q, w)'
      /\ \A t \in Sites, k \in DiaryKeys : \A v :
            Holds(t, k, v)' => Holds(t, k, v) \/ (t = s /\ k = q /\ v = w)
  <2>1. history' = [history EXCEPT ![s][q] = Append(@, w)]
    BY <1>2
  <2>. QED
    BY <2>1, GrowingPush
<1>4. HandlerInv(s, exact)
  BY DEF EditInv, Handlers
<1>5. Rising' /\ Chained(exact)'
  BY <1>2, CommitsSame DEF EditInv
<1>6. StoredKnown'
  <2>1. \A t \in Sites, k \in DiaryKeys : \A v : Holds(t, k, v)' => Known(k, v)'
    <3>1. \A t \in Sites, k \in DiaryKeys : \A v : Holds(t, k, v) => Known(k, v)
      BY DEF EditInv, StoredKnown, Holds
    <3>2. q \in DiaryKeys => Known(q, w)
      BY <1>1, <1>2, <1>4 DEF HandlerInv, Stamped
    <3>3. \A k, v : Known(k, v)' <=> Known(k, v)
      BY <1>2 DEF Known
    <3>. QED
      BY <1>3, <3>1, <3>2, <3>3
  <2>. QED
    BY <2>1 DEF StoredKnown, Holds
<1>7. PagesHeld'
  BY <1>2, <1>3, HomeFacts DEF EditInv, PagesHeld, Growing
<1>8. SentKnown'
  BY <1>2, TransitSame, SentKeeps DEF EditInv
<1>9. HandlerInv(s, exact)'
  BY <1>2, <1>4 DEF HandlerInv, FastHeld, SlowHeld, Stamped, Home, Known
<1>10. HandlerInv(Other(s), exact)'
  BY <1>2, <1>3, HandlerSame, SitesFacts DEF EditInv, Handlers
<1>11. HomeStores(exact)'
  <2>1. ASSUME NEW k \in DiaryKeys, NEW v, Owed(k, v)
        PROVE  Owed(k, v)' \/ Holds(Home(k), k, v)'
    <3>1. /\ Home(k) \in Sites /\ Other(Home(k)) \in Sites /\ (Home(k))' = Home(k)
          /\ Other(Other(Home(k))) = Home(k)
      BY HomeFacts, SitesFacts DEF Home
    <3>2. SentOwns(Home(k), k)' = SentOwns(Home(k), k) /\ Transit(Home(k))' = Transit(Home(k))
      BY <1>2, <3>1, TransitSame, SentSame
    <3>3. CASE pc[Home(k)] = "fast_push" /\ txn[Home(k)].key = k /\ txn[Home(k)].ver = v
      <4>1. CASE Home(k) = s
        BY <1>1, <1>3, <3>1, <3>3, <4>1
      <4>2. CASE Home(k) = Other(s)
        BY <1>2, <3>1, <3>3, <4>2 DEF Owed
      <4>. QED
        BY <3>1, <4>1, <4>2, SitesFacts
    <3>4. CASE /\ pc[Other(Home(k))] \in {"slow_push", "slow_queue"}
               /\ txn[Other(Home(k))].key = k /\ txn[Other(Home(k))].ver = v
      <4>1. pc'[Other(Home(k))] \in {"slow_push", "slow_queue"}
        BY <1>2, <3>1, <3>4, SitesFacts
      <4>. QED
        BY <1>2, <3>1, <3>4, <4>1 DEF Owed
    <3>. QED
      BY <1>2, <2>1, <3>1, <3>2, <3>3, <3>4 DEF Owed
  <2>. QED
    BY <1>2, <1>3, <2>1, HomeKeeps DEF EditInv
<1>. QED
  BY <1>5, <1>6, <1>7, <1>8, <1>9, <1>10, <1>11, SitesFacts DEF EditInv, Handlers

\* A commit queued for the peer: a slow one goes on being owed as a message.
LEMMA QueueEdit ==
    ASSUME NEW exact \in BOOLEAN, TypeOK, EditInv(exact), Stuck(exact), NEW s \in Sites, FastQueue(s) \/ SlowQueue(s)
    PROVE  EditInv(exact)'
<1>1. PICK type \in {"FAST_CMT", "SLOW_CMT"}, next \in {"fast_done", "idle"} :
         /\ \/ pc[s] = "fast_queue" /\ type = "FAST_CMT" /\ next = "fast_done"
            \/ pc[s] = "slow_queue" /\ type = "SLOW_CMT" /\ next = "idle"
         /\ QueueMsg(s, type, next)
  BY DEF FastQueue, SlowQueue
<1>2. PICK m \in Message : /\ m = [commit_type |-> type, key |-> txn[s].key, ver |-> txn[s].ver]
                          /\ Transit(Other(s))' = Append(Transit(Other(s)), m)
                          /\ Transit(s)' = Transit(s)
  <2>1. [commit_type |-> type, key |-> txn[s].key, ver |-> txn[s].ver] \in Message
    BY DEF TypeOK, Message
  <2>. QED
    BY <1>1, <2>1, TransitQueue
<1>3. PICK p \in Seq(Message) : p = Transit(Other(s))
  BY TransitType, SitesFacts
<1>4. /\ DOMAIN p = 1..Len(p) /\ Len(p) \in Nat
      /\ DOMAIN Append(p, m) = 1..(Len(p) + 1)
      /\ \A i \in 1..Len(p) : Append(p, m)[i] = p[i]
      /\ Append(p, m)[Len(p) + 1] = m
  BY AppendProperties, LenProperties
<1>5. /\ UNCHANGED <<history, txn, rpc, rep_msg, pages, committed>>
      /\ pc'[s] = next /\ pc'[Other(s)] = pc[Other(s)]
  BY <1>1, SitesFacts DEF TypeOK, QueueMsg
<1>6. HandlerInv(s, exact)
  BY DEF EditInv, Handlers
<1>7. Growing
  BY <1>5, GrowingSame
<1>8. Rising' /\ Chained(exact)' /\ StoredKnown' /\ PagesHeld'
  BY <1>5, CommitsSame, StoredSame DEF EditInv
<1>9. SentKnown'
  <2>1. \A k, v : Known(k, v)' <=> Known(k, v)
    BY <1>5 DEF Known
  <2>2. MessageKnown(m)
    BY <1>1, <1>2, <1>6 DEF MessageKnown, HandlerInv, Stamped
  <2>3. \A r \in Sites : \A i \in DOMAIN Transit(r)' : MessageKnown(Transit(r)'[i])
    <3>1. \A i \in DOMAIN Transit(s)' : MessageKnown(Transit(s)'[i])
      BY <1>2 DEF EditInv, SentKnown
    <3>2. \A i \in DOMAIN p : MessageKnown(p[i])
      BY <1>3, SitesFacts DEF EditInv, SentKnown
    <3>3. \A i \in 1..(Len(p) + 1) : MessageKnown(Append(p, m)[i])
      BY <1>4, <2>2, <3>2
    <3>. QED
      BY <1>2, <1>3, <1>4, <3>1, <3>3, SitesFacts
  <2>. QED
    BY <1>5, <2>1, <2>3 DEF EditInv, SentKnown, MessageKnown
<1>10. HandlerInv(s, exact)'
  BY <1>1, <1>5, <1>6 DEF HandlerInv, FastHeld, SlowHeld, Stamped, Home
<1>11. HandlerInv(Other(s), exact)'
  BY <1>5, <1>7, HandlerSame, SitesFacts DEF EditInv, Handlers
<1>12. HomeStores(exact)'
  <2>1. ASSUME NEW k \in DiaryKeys, NEW v, Owed(k, v) PROVE Owed(k, v)'
    <3>1. /\ Home(k) \in Sites /\ Other(Home(k)) \in Sites /\ (Home(k))' = Home(k)
          /\ Other(Other(Home(k))) = Home(k)
      BY HomeFacts, SitesFacts DEF Home
    <3>2. \A i \in SentOwns(Home(k), k) :
              i \in SentOwns(Home(k), k)' /\ Transit(Home(k))'[i] = Transit(Home(k))[i]
      <4>1. CASE Home(k) = s
        BY <1>2, <4>1 DEF SentOwns
      <4>2. CASE Home(k) = Other(s)
        BY <1>2, <1>3, <1>4, <4>2 DEF SentOwns
      <4>. QED
        BY <3>1, <4>1, <4>2, SitesFacts
    <3>3. CASE \E i \in SentOwns(Home(k), k) : Transit(Home(k))[i].ver = v
      BY <3>1, <3>2, <3>3 DEF Owed
    <3>4. CASE pc[s] = "slow_queue" /\ s = Other(Home(k)) /\ txn[s].key = k /\ txn[s].ver = v
      <4>1. /\ Len(p) + 1 \in DOMAIN Append(p, m)
            /\ IsSlow(m, k) /\ m.ver = v
        BY <1>1, <1>2, <1>4, <3>4 DEF IsSlow
      <4>2. Len(p) + 1 \in SentOwns(Home(k), k)' /\ Transit(Home(k))'[Len(p) + 1].ver = v
        BY <1>2, <1>3, <1>4, <3>1, <3>4, <4>1, SitesFacts DEF SentOwns
      <4>. QED
        BY <3>1, <4>2 DEF Owed
    <3>5. CASE rpc[Home(k)] = "push" /\ IsSlow(rep_msg[Home(k)], k) /\ rep_msg[Home(k)].ver = v
      BY <1>5, <3>1, <3>5 DEF Owed
    <3>6. CASE pc[Home(k)] = "fast_push" /\ txn[Home(k)].key = k /\ txn[Home(k)].ver = v
      BY <1>1, <1>5, <3>1, <3>6, SitesFacts DEF Owed
    <3>7. CASE /\ pc[Other(Home(k))] \in {"slow_push", "slow_queue"} /\ Other(Home(k)) # s
               /\ txn[Other(Home(k))].key = k /\ txn[Other(Home(k))].ver = v
      BY <1>5, <3>1, <3>7, SitesFacts DEF Owed
    <3>. QED
      BY <1>1, <2>1, <3>3, <3>4, <3>5, <3>6, <3>7 DEF Owed
  <2>. QED
    BY <1>5, <1>7, <2>1, HomeKeeps DEF EditInv
<1>. QED
  BY <1>8, <1>9, <1>10, <1>11, <1>12, SitesFacts DEF EditInv, Handlers

\* A page is shown an entry of the local history.
LEMMA ReadEdit ==
    ASSUME NEW exact \in BOOLEAN, TypeOK, EditInv(exact), Stuck(exact), NEW s \in Sites, NEW d \in Diaries, handle_get_diary_content(s, d)
    PROVE  EditInv(exact)'
<1>1. UNCHANGED <<history, pc, txn, msg_list, net, rpc, rep_msg, committed>>
  BY DEF handle_get_diary_content
<1>2. PICK i \in DOMAIN history[s][DiaryKey(d)] :
         pages' = [pages EXCEPT ![s][d] = @ \cup {history[s][DiaryKey(d)][i]}]
  BY DEF handle_get_diary_content, Shown
<1>3. Growing
  BY <1>1, GrowingSame
<1>4. PagesHeld'
  <2>1. Holds(s, DiaryKey(d), history[s][DiaryKey(d)][i])
    BY DEF Holds
  <2>2. SUFFICES ASSUME NEW t \in Sites, NEW e \in Diaries, NEW v \in pages'[t][e]
                 PROVE  v = Unloaded \/ Holds(t, DiaryKey(e), v)'
    BY DEF PagesHeld, DiaryKey
  <2>3. v \in pages[t][e] \/ (t = s /\ e = d /\ v = history[s][DiaryKey(d)][i])
    BY <1>2 DEF TypeOK
  <2>4. v = Unloaded \/ Holds(t, DiaryKey(e), v)
    BY <2>1, <2>3 DEF EditInv, PagesHeld
  <2>. QED
    BY <1>3, <2>4, HomeFacts DEF Growing, DiaryKey
<1>5. Rising' /\ Chained(exact)' /\ StoredKnown'
  BY <1>1 DEF EditInv, Rising, Chained, StoredKnown, Known
<1>6. SentKnown'
  BY <1>1, TransitSame, SentKeeps DEF EditInv
<1>7. Handlers(exact)'
  BY <1>1, <1>3, HandlerSame DEF EditInv, Handlers
<1>8. HomeStores(exact)'
  <2>1. ASSUME NEW k \in DiaryKeys, NEW v, Owed(k, v) PROVE Owed(k, v)'
    <3>1. Home(k) \in Sites /\ (Home(k))' = Home(k)
      BY HomeFacts DEF Home
    <3>2. SentOwns(Home(k), k)' = SentOwns(Home(k), k) /\ Transit(Home(k))' = Transit(Home(k))
      BY <1>1, <3>1, TransitSame, SentSame
    <3>. QED
      BY <1>1, <2>1, <3>1, <3>2 DEF Owed
  <2>. QED
    BY <1>1, <1>3, <2>1, HomeKeeps DEF EditInv
<1>. QED
  BY <1>4, <1>5, <1>6, <1>7, <1>8 DEF EditInv

-----------------------------------------------------------------------------
(***************************************************************************)
(* The replicater.                                                         *)
(***************************************************************************)

\* What is owed as the oldest message is owed as the one being applied.
LEMMA RecvEdit ==
    ASSUME NEW exact \in BOOLEAN, TypeOK, EditInv(exact), Stuck(exact), NEW s \in Sites, RepRecv(s)
    PROVE  EditInv(exact)'
<1>1. /\ UNCHANGED <<history, pc, txn, pages, committed>>
      /\ rpc[s] = "poll" /\ rpc'[s] = "push"
      /\ rpc'[Other(s)] = rpc[Other(s)] /\ rep_msg'[Other(s)] = rep_msg[Other(s)]
  BY SitesFacts DEF TypeOK, RepRecv
<1>2. PICK p \in Seq(Message) : p = Transit(s)
  BY TransitType
<1>3. /\ p # <<>> /\ rep_msg'[s] = Head(p)
      /\ Transit(s)' = Tail(p) /\ Transit(Other(s))' = Transit(Other(s))
  BY <1>2, TransitRecv
<1>4. /\ Len(p) \in Nat \ {0} /\ DOMAIN p = 1..Len(p)
      /\ DOMAIN Tail(p) = 1..(Len(p) - 1)
      /\ \A i \in 1..(Len(p) - 1) : Tail(p)[i] = p[i + 1]
      /\ Head(p) = p[1]
  BY <1>3, HeadTailProperties, LenProperties, EmptySeq
<1>5. Growing
  BY <1>1, GrowingSame
<1>6. Rising' /\ Chained(exact)' /\ StoredKnown' /\ PagesHeld'
  BY <1>1, CommitsSame, StoredSame DEF EditInv
<1>7. SentKnown'
  <2>1. \A k, v : Known(k, v)' <=> Known(k, v)
    BY <1>1 DEF Known
  <2>2. \A i \in 1..Len(p) : MessageKnown(p[i])
    BY <1>2, <1>4 DEF EditInv, SentKnown
  <2>3. MessageKnown(rep_msg'[s]) /\ \A i \in DOMAIN Tail(p) : MessageKnown(Tail(p)[i])
    BY <1>3, <1>4, <2>2
  <2>4. ASSUME NEW r \in Sites
        PROVE  /\ \A i \in DOMAIN Transit(r)' : MessageKnown(Transit(r)'[i])
               /\ rpc'[r] = "push" => MessageKnown(rep_msg'[r])
    BY <1>1, <1>3, <2>3, SitesFacts DEF EditInv, SentKnown
  <2>. QED
    BY <2>1, <2>4 DEF SentKnown, MessageKnown
<1>8. Handlers(exact)'
  BY <1>1, <1>5, HandlerSame DEF EditInv, Handlers
<1>9. HomeStores(exact)'
  <2>1. ASSUME NEW k \in DiaryKeys, NEW v, Owed(k, v) PROVE Owed(k, v)'
    <3>1. Home(k) \in Sites /\ (Home(k))' = Home(k)
      BY HomeFacts DEF Home
    <3>2. ASSUME NEW i \in SentOwns(Home(k), k), Transit(Home(k))[i].ver = v
          PROVE  Owed(k, v)'
      <4>1. CASE Home(k) = Other(s)
        <5>1. i \in SentOwns(Home(k), k)' /\ Transit(Home(k))'[i].ver = v
          BY <1>3, <3>2, <4>1 DEF SentOwns
        <5>. QED
          BY <3>1, <5>1 DEF Owed
      <4>2. CASE Home(k) = s /\ i = 1
        <5>1. IsSlow(Head(p), k) /\ Head(p).ver = v
          BY <1>2, <1>4, <3>2, <4>2 DEF SentOwns
        <5>. QED
          BY <1>1, <1>3, <3>1, <4>2, <5>1 DEF Owed, IsSlow
      <4>3. CASE Home(k) = s /\ i # 1
        <5>1. i \in 1..Len(p) /\ IsSlow(p[i], k) /\ p[i].ver = v
          BY <1>2, <1>4, <3>2, <4>3 DEF SentOwns
        <5>2. /\ i - 1 \in DOMAIN Tail(p)
              /\ Tail(p)[i - 1] = p[i]
          BY <1>4, <4>3, <5>1
        <5>3. i - 1 \in SentOwns(Home(k), k)' /\ Transit(Home(k))'[i - 1].ver = v
          BY <1>3, <3>1, <4>3, <5>1, <5>2 DEF SentOwns, IsSlow
        <5>. QED
          BY <3>1, <5>3 DEF Owed
      <4>. QED
        BY <3>1, <4>1, <4>2, <4>3, SitesFacts
    <3>3. CASE rpc[Home(k)] = "push" /\ IsSlow(rep_msg[Home(k)], k) /\ rep_msg[Home(k)].ver = v
      <4>1. Home(k) = Other(s)
        BY <1>1, <3>1, <3>3, SitesFacts
      <4>. QED
        BY <1>1, <3>1, <3>3, <4>1 DEF Owed, IsSlow
    <3>. QED
      BY <1>1, <2>1, <3>1, <3>2, <3>3 DEF Owed
  <2>. QED
    BY <1>1, <1>5, <2>1, HomeKeeps DEF EditInv
<1>. QED
  BY <1>6, <1>7, <1>8, <1>9 DEF EditInv

\* The commit of the peer is stored: a slow one is owed no more.
LEMMA ApplyEdit ==
    ASSUME NEW exact \in BOOLEAN, TypeOK, EditInv(exact), Stuck(exact), NEW s \in Sites, RepPush(s)
    PROVE  EditInv(exact)'
<1>1. PICK q \in Keys, w \in Version : q = rep_msg[s].key /\ w = rep_msg[s].ver
  BY DEF TypeOK, Message
<1>2. /\ UNCHANGED <<pc, txn, net, msg_list, rep_msg, pages, committed>>
      /\ history' = [history EXCEPT ![s][q] = Append(@, w)]
      /\ rpc[s] = "push" /\ rpc'[s] # "push"
      /\ rpc'[Other(s)] = rpc[Other(s)]
  BY <1>1, SitesFacts, RpcType DEF RepPush, AfterPush
<1>3. /\ Growing
      /\ Holds(s, q, w)'
      /\ \A t \in Sites, k \in DiaryKeys : \A v :
            Holds(t, k, v)' => Holds(t, k, v) \/ (t = s /\ k = q /\ v = w)
  <2>1. history' = [history EXCEPT ![s][q] = Append(@, w)]
    BY <1>2
  <2>. QED
    BY <2>1, GrowingPush
<1>4. Rising' /\ Chained(exact)'
  BY <1>2, CommitsSame DEF EditInv
<1>5. StoredKnown'
  <2>1. \A t \in Sites, k \in DiaryKeys : \A v : Holds(t, k, v) => Known(k, v)
    BY DEF EditInv, StoredKnown, Holds
  <2>2. q \in DiaryKeys => Known(q, w)
    BY <1>1, <1>2 DEF EditInv, SentKnown, MessageKnown
  <2>3. \A k, v : Known(k, v)' <=> Known(k, v)
    BY <1>2 DEF Known
  <2>4. \A t \in Sites, k \in DiaryKeys : \A v : Holds(t, k, v)' => Known(k, v)'
    BY <1>3, <2>1, <2>2, <2>3
  <2>. QED
    BY <2>4 DEF StoredKnown, Holds
<1>6. PagesHeld'
  BY <1>2, <1>3, HomeFacts DEF EditInv, PagesHeld, Growing
<1>7. SentKnown'
  BY <1>2, TransitSame, SentKeeps, SitesFacts DEF EditInv
<1>8. Handlers(exact)'
  BY <1>2, <1>3, HandlerSame DEF EditInv, Handlers
<1>9. HomeStores(exact)'
  <2>1. ASSUME NEW k \in DiaryKeys, NEW v, Owed(k, v)
        PROVE  Owed(k, v)' \/ Holds(Home(k), k, v)'
    <3>1. Home(k) \in Sites /\ (Home(k))' = Home(k)
      BY HomeFacts DEF Home
    <3>2. SentOwns(Home(k), k)' = SentOwns(Home(k), k) /\ Transit(Home(k))' = Transit(Home(k))
      BY <1>2, <3>1, TransitSame, SentSame
    <3>3. CASE rpc[Home(k)] = "push" /\ IsSlow(rep_msg[Home(k)], k) /\ rep_msg[Home(k)].ver = v
      <4>1. CASE Home(k) = s
        BY <1>1, <1>3, <3>1, <3>3, <4>1 DEF IsSlow
      <4>2. CASE Home(k) = Other(s)
        BY <1>2, <3>1, <3>3, <4>2 DEF Owed
      <4>. QED
        BY <3>1, <4>1, <4>2, SitesFacts
    <3>. QED
      BY <1>2, <2>1, <3>1, <3>2, <3>3 DEF Owed
  <2>. QED
    BY <1>2, <1>3, <2>1, HomeKeeps DEF EditInv
<1>. QED
  BY <1>4, <1>5, <1>6, <1>7, <1>8, <1>9 DEF EditInv

\* The rest of the loop, and a step of nobody.
LEMMA LoopEdit ==
    ASSUME NEW exact \in BOOLEAN, TypeOK, EditInv(exact), Stuck(exact), UNCHANGED <<history, pc, txn, rep_msg, pages, committed>>,
           \A r \in Sites : /\ Transit(r)' = Transit(r)
                            /\ rpc'[r] = "push" <=> rpc[r] = "push"
    PROVE  EditInv(exact)'
<1>1. Growing
  BY GrowingSame
<1>2. Rising' /\ Chained(exact)' /\ StoredKnown' /\ PagesHeld'
  BY CommitsSame, StoredSame DEF EditInv
<1>3. SentKnown'
  BY SentKeeps DEF EditInv
<1>4. Handlers(exact)'
  BY <1>1, HandlerSame DEF EditInv, Handlers
<1>5. HomeStores(exact)'
  <2>1. ASSUME NEW k \in DiaryKeys, NEW v, Owed(k, v) PROVE Owed(k, v)'
    <3>1. Home(k) \in Sites /\ (Home(k))' = Home(k)
      BY HomeFacts DEF Home
    <3>2. SentOwns(Home(k), k)' = SentOwns(Home(k), k) /\ Transit(Home(k))' = Transit(Home(k))
      BY <3>1, SentSame
    <3>. QED
      BY <2>1, <3>1, <3>2 DEF Owed
  <2>. QED
    BY <1>1, <2>1, HomeKeeps DEF EditInv
<1>. QED
  BY <1>2, <1>3, <1>4, <1>5 DEF EditInv

-----------------------------------------------------------------------------
LEMMA EditNext ==
    ASSUME NEW exact \in BOOLEAN, TypeOK, EditInv(exact), AllLocks(exact), UnlockSlow, ClockBound,
           [Next]_vars
    PROVE  EditInv(exact)'
<1>0. Stuck(exact)
  BY AbandonedNext, HomeFacts DEF Stuck
<1>1. CASE UNCHANGED vars
  BY <1>0, <1>1, TransitSame, LoopEdit DEF vars
<1>2. ASSUME NEW s \in Sites, Request(s) PROVE EditInv(exact)'
  <2>1. PICK d \in Diaries : \/ handle_edit_diary(s, d)
                            \/ handle_add_comment(s, d)
                            \/ handle_get_diary_content(s, d)
    BY <1>2 DEF Request
  <2>2. CASE handle_edit_diary(s, d)
    <3>1. PICK startTs \in pages[s][d] :
              \/ /\ PREFER_SITE(DiaryKey(d)) = s
                 /\ FastAcquire(s, DiaryKey(d), startTs, "fast_check")
              \/ /\ PREFER_SITE(DiaryKey(d)) # s
                 /\ SlowAcquire(s, DiaryKey(d), startTs)
      BY <2>2 DEF handle_edit_diary
    <3>2. /\ DiaryKey(d) \in DiaryKeys /\ DiaryKey(d) \in Keys
          /\ Home(DiaryKey(d)) \in Sites
      BY HomeFacts
    <3>3. startTs = Unloaded \/ Holds(s, DiaryKey(d), startTs)
      BY DEF EditInv, PagesHeld
    <3>4. CASE PREFER_SITE(DiaryKey(d)) = s /\ FastAcquire(s, DiaryKey(d), startTs, "fast_check")
      BY <1>0, <3>2, <3>3, <3>4, AcquireEdit DEF FastAcquire, Home
    <3>5. CASE PREFER_SITE(DiaryKey(d)) # s /\ SlowAcquire(s, DiaryKey(d), startTs)
      <4>1. Home(DiaryKey(d)) = Other(s)
        BY <3>2, <3>5, SitesFacts DEF Home
      <4>. QED
        BY <1>0, <3>2, <3>3, <3>5, <4>1, AcquireEdit DEF SlowAcquire
    <3>. QED
      BY <3>1, <3>4, <3>5
  <2>3. CASE handle_add_comment(s, d)
    <3>1. CommentKey(d) \in Keys /\ CommentKey(d) \notin DiaryKeys
      BY HomeFacts
    <3>. QED
      BY <1>0, <2>3, <3>1, AcquireEdit DEF handle_add_comment, FastAcquire
  <2>4. CASE handle_get_diary_content(s, d)
    BY <1>0, <2>4, ReadEdit
  <2>. QED
    BY <2>1, <2>2, <2>3, <2>4
<1>3. ASSUME NEW s \in Sites, FastStep(s) PROVE EditInv(exact)'
  <2>1. CASE FastCheck(s)
    BY <1>0, <2>1, CheckEdit
  <2>2. CASE FastAbort(s) \/ FastDone(s)
    BY <1>0, <2>2, ReleaseEdit DEF FastAbort, FastDone, Owing
  <2>3. CASE FastStamp(s)
    BY <1>0, <2>3, StampEdit DEF FastStamp
  <2>4. CASE FastPush(s)
    BY <1>0, <2>4, PushEdit
  <2>5. CASE FastQueue(s)
    BY <1>0, <2>5, QueueEdit
  <2>. QED
    BY <1>3, <2>1, <2>2, <2>3, <2>4, <2>5 DEF FastStep
<1>4. ASSUME NEW s \in Sites, SlowStep(s) PROVE EditInv(exact)'
  <2>1. CASE SlowCheck(s)
    BY <1>0, <2>1, CheckEdit
  <2>2. CASE SlowAbort(s)
    BY <1>0, <2>2, ReleaseEdit DEF SlowAbort, Owing
  <2>3. CASE SlowStamp(s)
    BY <1>0, <2>3, StampEdit DEF SlowStamp
  <2>4. CASE SlowPush(s)
    BY <1>0, <2>4, PushEdit
  <2>5. CASE SlowQueue(s)
    BY <1>0, <2>5, QueueEdit
  <2>. QED
    BY <1>4, <2>1, <2>2, <2>3, <2>4, <2>5 DEF SlowStep
<1>5. ASSUME NEW s \in Sites, RepStep(s) PROVE EditInv(exact)'
  <2>1. CASE RepRecv(s)
    BY <1>0, <2>1, RecvEdit
  <2>2. CASE RepPush(s)
    BY <1>0, <2>2, ApplyEdit
  <2>3. CASE RepUnlock(s) \/ RepCount(s)
    <3>1. /\ UNCHANGED <<history, pc, txn, rep_msg, pages, committed, net, msg_list>>
          /\ rpc[s] \in {"unlock", "count"} /\ rpc'[s] \in {"count", "drain"}
          /\ rpc'[Other(s)] = rpc[Other(s)]
      BY <2>3, SitesFacts DEF TypeOK, RepUnlock, RepCount, PeerVTS
    <3>. QED
      BY <1>0, <3>1, TransitSame, LoopEdit, SitesFacts
  <2>4. CASE RepDrain(s)
    <3>1. /\ UNCHANGED <<history, pc, txn, rep_msg, pages, committed>>
          /\ rpc[s] \in {"poll", "drain"} /\ rpc'[s] = "poll"
          /\ rpc'[Other(s)] = rpc[Other(s)]
      BY <2>4, SitesFacts DEF TypeOK, RepDrain
    <3>. QED
      BY <1>0, <2>4, <3>1, TransitDrain, LoopEdit, SitesFacts
  <2>. QED
    BY <1>5, <2>1, <2>2, <2>3, <2>4 DEF RepStep
<1>. QED
  BY <1>1, <1>2, <1>3, <1>4, <1>5 DEF Next

LEMMA EditInit == Init => EditInv(TRUE)
<1>. SUFFICES ASSUME Init PROVE EditInv(TRUE)
  OBVIOUS
<1>1. \A k \in DiaryKeys : committed[k] = <<>> /\ DOMAIN committed[k] = {}
  BY HomeFacts, EmptySeq DEF Init, InitServers
<1>2. \A s \in Sites, k \in DiaryKeys :
         history[s][k] = <<Zero>> /\ DOMAIN history[s][k] = {1} /\ history[s][k][1] = Zero
  BY HomeFacts DEF Init, Seed, DiaryKeys
<1>3. \A r \in Sites : Transit(r) = <<>> /\ DOMAIN Transit(r) = {}
  <2>1. <<>> \o <<>> = <<>> /\ DOMAIN <<>> = {}
    BY ConcatEmptySeq, EmptySeq
  <2>. QED
    BY <2>1, SitesFacts DEF Transit, Init, InitServers
<1>4. Rising /\ Chained(TRUE)
  BY <1>1 DEF Rising, Chained
<1>5. StoredKnown
  BY <1>2 DEF StoredKnown, Known
<1>6. PagesHeld
  BY DEF PagesHeld, Init, InitServers
<1>7. SentKnown
  BY <1>3 DEF SentKnown, Init, InitServers
<1>8. Handlers(TRUE)
  BY DEF Handlers, HandlerInv, Init, InitServers, FastHeld, SlowHeld, Stamped
<1>9. HomeStores(TRUE)
  BY <1>1, <1>2, HomeFacts DEF HomeStores, Known, Holds
<1>. QED
  BY <1>4, <1>5, <1>6, <1>7, <1>8, <1>9 DEF EditInv

\* No edit silently overwrites another, however many diaries, commits and
\* interleavings there are: the version an edit commits from is the one the
\* edit before it produced.
THEOREM NoLostUpdateCorrect == Spec => []NoLostUpdate
<1>. DEFINE Inv == /\ TypeOK
                   /\ AllLocks(TRUE) /\ UnlockSlow
                   /\ SeqnoConservation /\ ClockBound /\ VersionsUnique
                   /\ EditInv(TRUE)
<1>1. Init => Inv
  <2>1. Init => ClockBound /\ VersionsUnique
    BY DEF Init, InitServers, ClockBound, VersionsUnique
  <2>. QED
    BY <2>1, TypeInit, FreshLocks, SeqnoInit, EditInit DEF Init
<1>2. Inv /\ [Next]_vars => Inv'
  BY TypeNext, LocksNext, UnlockSlowNext, SeqnoNext, VectorBelow, UniqueNext,
     EditNext
<1>3. Inv => NoLostUpdate
  BY DEF EditInv, Chained, NoLostUpdate
<1>. QED
  BY <1>1, <1>2, <1>3, PTL DEF Spec

-----------------------------------------------------------------------------
(***************************************************************************)
(* One order of edits at both sites: the commits a site still misses are   *)
(* on one way to it, in that order.  So DiaryCommit implements the         *)
(* register of DiaryRegister: a commit of an edit is an Edit, an RPUSH of  *)
(* one is a Store, and every other step of the protocol stutters.          *)
(***************************************************************************)

Items(p, k) == {i \in DOMAIN p : p[i].key = k}

Unrepeated(cs) == \A i, j \in DOMAIN cs : cs[i].ver = cs[j].ver => i = j

\* h stores a prefix of the commits cs of k.  The ones it misses are on the
\* way p in their order, or it misses the one in mine, which its own handler
\* is about to store.
InOrder(h, cs, p, k, mine) ==
    /\ Len(h) \in 1..(Len(cs) + 1)
    /\ h[1] = Zero
    /\ \A i \in 2..Len(h) : h[i] = cs[i - 1].ver
    /\ \A n \in Len(h)..Len(cs) :
          cs[n].ver \in mine \/ \E i \in Items(p, k) : p[i].ver = cs[n].ver
    /\ \A i \in Items(p, k) : \E n \in Len(h)..Len(cs) : p[i].ver = cs[n].ver
    /\ \A i, j \in Items(p, k) : \A n, m \in DOMAIN cs :
          i < j /\ p[i].ver = cs[n].ver /\ p[j].ver = cs[m].ver => n < m
    /\ mine # {} => Items(p, k) = {} /\ Len(h) = Len(cs) /\ mine = {cs[Len(cs)].ver}

\* Where u and v are both commits of cs, u is the earlier one.
Before(cs, u, v) == \A m, n \in DOMAIN cs : u = cs[m].ver /\ v = cs[n].ver => m < n

\* What is left of that order where commits were lost on the way: h, and behind
\* it the way p, hold some of the commits, in their order.
Gapped(h, cs, p, k, mine) ==
    /\ \A i, j \in DOMAIN h : i < j => Before(cs, h[i], h[j])
    /\ \A i \in DOMAIN h, j \in Items(p, k) : Before(cs, h[i], p[j].ver)
    /\ \A i, j \in Items(p, k) : i < j => Before(cs, p[i].ver, p[j].ver)
    /\ \A i \in Items(p, k) : \E n \in DOMAIN cs : p[i].ver = cs[n].ver
    /\ mine # {} => /\ Items(p, k) = {} /\ cs # <<>> /\ mine = {cs[Len(cs)].ver}
                    /\ \A i \in DOMAIN h : h[i] # cs[Len(cs)].ver

Ordered(h, cs, p, k, mine, exact) ==
    Gapped(h, cs, p, k, mine) /\ (exact => InOrder(h, cs, p, k, mine))

\* The commits of the peer on their way to site s: the one its replicater has
\* in hand, those sent, the one the peer's handler has stamped.
InHand(s) == IF rpc[s] = "push" THEN <<rep_msg[s]>> ELSE <<>>

MadeMsg(s) == [commit_type |-> IF pc[s] \in SlowHeld THEN "SLOW_CMT" ELSE "FAST_CMT",
               key |-> txn[s].key, ver |-> txn[s].ver]

Made(s) == IF pc[s] \in Stamped THEN <<MadeMsg(s)>> ELSE <<>>

Way(s) == (InHand(s) \o Transit(s)) \o Made(Other(s))

Mine(s, k) ==
    IF pc[s] \in {"fast_push", "slow_push"} /\ txn[s].key = k THEN {txn[s].ver} ELSE {}

OrderInv(s, k, exact) == Ordered(history[s][k], committed[k], Way(s), k, Mine(s, k), exact)

\* The commits of a diary on their way to its preferred site are slow ones.
HomeSlow ==
    \A s \in Sites : \A i \in DOMAIN Way(s) :
        Way(s)[i].key \in DiaryKeys /\ Home(Way(s)[i].key) = s
            => Way(s)[i].commit_type = "SLOW_CMT"

Orders(exact) == \A s \in Sites, k \in DiaryKeys : OrderInv(s, k, exact)

-----------------------------------------------------------------------------
(***************************************************************************)
(* What storing, sending and committing do to the order.                   *)
(***************************************************************************)
LEMMA AppendFacts ==
    ASSUME NEW S, NEW q \in Seq(S), NEW e \in S
    PROVE  /\ DOMAIN q = 1..Len(q) /\ Len(q) \in Nat
           /\ Append(q, e) \in Seq(S)
           /\ Len(Append(q, e)) = Len(q) + 1
           /\ DOMAIN Append(q, e) = 1..(Len(q) + 1)
           /\ \A i \in 1..Len(q) : Append(q, e)[i] = q[i]
           /\ Append(q, e)[Len(q) + 1] = e
BY AppendProperties, LenProperties

LEMMA TailFacts ==
    ASSUME NEW S, NEW q \in Seq(S), q # <<>>
    PROVE  /\ DOMAIN q = 1..Len(q) /\ Len(q) \in Nat \ {0}
           /\ Tail(q) \in Seq(S)
           /\ DOMAIN Tail(q) = 1..(Len(q) - 1)
           /\ \A i \in 1..(Len(q) - 1) : Tail(q)[i] = q[i + 1]
           /\ Head(q) = q[1]
BY HeadTailProperties, LenProperties, EmptySeq

\* The site stores the commit of its own handler.
LEMMA StoreMineExact ==
    ASSUME NEW h \in Seq(Version), NEW cs \in Seq(Commit), NEW p \in Seq(Message), NEW k,
           NEW w \in Version, InOrder(h, cs, p, k, {w})
    PROVE  InOrder(Append(h, w), cs, p, k, {})
<1>1. /\ Len(Append(h, w)) = Len(h) + 1 /\ Len(h) \in Nat /\ Len(cs) \in Nat
      /\ \A i \in 1..Len(h) : Append(h, w)[i] = h[i]
      /\ Append(h, w)[Len(h) + 1] = w
  BY AppendFacts, LenProperties
<1>2. Items(p, k) = {} /\ Len(h) = Len(cs) /\ w = cs[Len(cs)].ver
  BY DEF InOrder
<1>3. /\ Len(h) \in 1..(Len(cs) + 1) /\ h[1] = Zero
      /\ \A i \in 2..Len(h) : h[i] = cs[i - 1].ver
  BY DEF InOrder
<1>4. \A i \in 2..(Len(h) + 1) : Append(h, w)[i] = cs[i - 1].ver
  BY <1>1, <1>2, <1>3
<1>5. Append(h, w)[1] = Zero /\ Len(Append(h, w)) \in 1..(Len(cs) + 1)
  BY <1>1, <1>2, <1>3
<1>6. Len(Append(h, w))..Len(cs) = {}
  BY <1>1, <1>2
<1>. QED
  BY <1>1, <1>2, <1>4, <1>5, <1>6 DEF InOrder

\* It stores the first commit on its way, of this diary
LEMMA StoreFirstExact ==
    ASSUME NEW h \in Seq(Version), NEW cs \in Seq(Commit), NEW p \in Seq(Message), NEW k,
           NEW mine, InOrder(h, cs, p, k, mine), Unrepeated(cs),
           p # <<>>, Head(p).key = k
    PROVE  InOrder(Append(h, Head(p).ver), cs, Tail(p), k, mine)
<1>. DEFINE w == Head(p).ver
            g == Append(h, w)
            q == Tail(p)
<1>1. /\ DOMAIN p = 1..Len(p) /\ Len(p) \in Nat \ {0}
      /\ DOMAIN q = 1..(Len(p) - 1)
      /\ \A i \in 1..(Len(p) - 1) : q[i] = p[i + 1]
      /\ Head(p) = p[1]
  BY TailFacts
<1>2. w \in Version
  <2>1. Head(p) \in Message
    BY <1>1
  <2>. QED
    BY <2>1 DEF Message
<1>3. /\ Len(g) = Len(h) + 1 /\ Len(h) \in Nat /\ Len(cs) \in Nat /\ DOMAIN cs = 1..Len(cs)
      /\ \A i \in 1..Len(h) : g[i] = h[i]
      /\ g[Len(h) + 1] = w
  BY <1>2, AppendFacts, LenProperties
<1>4. 1 \in Items(p, k) /\ p[1].ver = w
  BY <1>1 DEF Items
<1>5. \A i : i \in Items(q, k) <=> i \in 1..(Len(p) - 1) /\ i + 1 \in Items(p, k)
  BY <1>1 DEF Items
<1>6. mine = {}
  BY <1>4 DEF InOrder
<1>7. /\ Len(h) \in 1..(Len(cs) + 1) /\ h[1] = Zero
      /\ \A i \in 2..Len(h) : h[i] = cs[i - 1].ver
      /\ \A n \in Len(h)..Len(cs) : \E i \in Items(p, k) : p[i].ver = cs[n].ver
      /\ \A i \in Items(p, k) : \E n \in Len(h)..Len(cs) : p[i].ver = cs[n].ver
      /\ \A i, j \in Items(p, k) : \A n, m \in 1..Len(cs) :
            i < j /\ p[i].ver = cs[n].ver /\ p[j].ver = cs[m].ver => n < m
  BY <1>3, <1>6 DEF InOrder
<1>. HIDE DEF w, g, q
<1>16. \A i, j \in Items(p, k) : \A n, m \in 1..Len(cs) :
            i < j /\ p[i].ver = cs[n].ver /\ p[j].ver = cs[m].ver => n < m
  BY <1>7
<1>8. PICK n0 \in Len(h)..Len(cs) : w = cs[n0].ver
  BY <1>4, <1>7
<1>9. n0 = Len(h) /\ Len(h) \in 1..Len(cs)
  <2>1. Len(h) \in Len(h)..Len(cs) /\ Len(h) \in 1..Len(cs)
    BY <1>3, <1>7, <1>8
  <2>2. PICK i \in Items(p, k) : p[i].ver = cs[Len(h)].ver
    BY <1>7, <2>1
  <2>3. i \in 1..Len(p)
    BY <1>1, <2>2 DEF Items
  <2>4. CASE i = 1
    <3>1. n0 \in DOMAIN cs /\ Len(h) \in DOMAIN cs
      BY <1>3, <1>7, <1>8, <2>1
    <3>2. cs[n0].ver = cs[Len(h)].ver
      BY <1>4, <1>8, <2>2, <2>4
    <3>. QED
      BY <2>1, <3>1, <3>2 DEF Unrepeated
  <2>5. CASE i > 1
    <3>1. n0 \in 1..Len(cs)
      BY <1>3, <1>7, <1>8
    <3>2. n0 < Len(h)
      BY <1>4, <1>7, <1>8, <2>1, <2>2, <2>5, <3>1
    <3>. QED
      BY <1>3, <1>8, <3>2
  <2>. QED
    BY <2>3, <2>4, <2>5
<1>10. Len(g) \in 1..(Len(cs) + 1) /\ g[1] = Zero
  BY <1>3, <1>7, <1>9
<1>11. \A i \in 2..Len(g) : g[i] = cs[i - 1].ver
  BY <1>3, <1>7, <1>8, <1>9
<1>12. ASSUME NEW n \in Len(g)..Len(cs) PROVE \E i \in Items(q, k) : q[i].ver = cs[n].ver
  <2>1. n \in Len(h)..Len(cs) /\ n \in 1..Len(cs) /\ n # Len(h)
    BY <1>3, <1>9
  <2>2. PICK i \in Items(p, k) : p[i].ver = cs[n].ver
    BY <1>7, <2>1
  <2>3. i # 1
    BY <1>3, <1>4, <1>8, <1>9, <2>1, <2>2 DEF Unrepeated
  <2>4. i \in 1..Len(p)
    BY <1>1, <2>2 DEF Items
  <2>5. i - 1 \in 1..(Len(p) - 1) /\ (i - 1) + 1 = i
    BY <1>1, <2>3, <2>4
  <2>6. i - 1 \in Items(q, k) /\ q[i - 1] = p[i]
    BY <1>1, <1>5, <2>2, <2>5
  <2>. QED
    BY <2>2, <2>6
<1>13. ASSUME NEW i \in Items(q, k) PROVE \E n \in Len(g)..Len(cs) : q[i].ver = cs[n].ver
  <2>1. i \in 1..(Len(p) - 1) /\ i + 1 \in Items(p, k) /\ q[i] = p[i + 1] /\ 1 < i + 1
    BY <1>1, <1>5
  <2>2. PICK n \in Len(h)..Len(cs) : p[i + 1].ver = cs[n].ver
    BY <1>7, <2>1
  <2>3. n \in 1..Len(cs)
    BY <1>3, <1>7
  <2>4. Len(h) < n
    <3>1. p[1].ver = cs[Len(h)].ver /\ Len(h) \in 1..Len(cs)
      BY <1>4, <1>8, <1>9
    <3>. QED
      BY <1>4, <1>16, <2>1, <2>2, <2>3, <3>1
  <2>5. n \in Len(g)..Len(cs)
    BY <1>3, <2>2, <2>4
  <2>. QED
    BY <2>1, <2>2, <2>5
<1>14. ASSUME NEW i \in Items(q, k), NEW j \in Items(q, k), NEW n \in 1..Len(cs), NEW m \in 1..Len(cs),
              i < j, q[i].ver = cs[n].ver, q[j].ver = cs[m].ver
       PROVE  n < m
  <2>1. /\ i + 1 \in Items(p, k) /\ j + 1 \in Items(p, k)
        /\ q[i] = p[i + 1] /\ q[j] = p[j + 1] /\ i + 1 < j + 1
    BY <1>1, <1>5, <1>14
  <2>2. p[i + 1].ver = cs[n].ver /\ p[j + 1].ver = cs[m].ver
    BY <1>14, <2>1
  <2>. QED
    BY <1>14, <1>16, <2>1, <2>2
<1>15. InOrder(g, cs, q, k, mine)
  <2>1. \A n \in Len(g)..Len(cs) :
           cs[n].ver \in mine \/ \E i \in Items(q, k) : q[i].ver = cs[n].ver
    BY <1>12
  <2>2. \A i, j \in Items(q, k) : \A n, m \in DOMAIN cs :
           i < j /\ q[i].ver = cs[n].ver /\ q[j].ver = cs[m].ver => n < m
    BY <1>3, <1>14
  <2>. QED
    BY <1>6, <1>10, <1>11, <1>13, <2>1, <2>2 DEF InOrder
<1>. QED
  BY <1>15 DEF w, g, q

\* or of another object.
LEMMA SkipFirstExact ==
    ASSUME NEW h \in Seq(Version), NEW cs \in Seq(Commit), NEW p \in Seq(Message), NEW k,
           NEW mine, InOrder(h, cs, p, k, mine), p # <<>>, Head(p).key # k
    PROVE  InOrder(h, cs, Tail(p), k, mine)
<1>. DEFINE q == Tail(p)
<1>1. /\ DOMAIN p = 1..Len(p) /\ Len(p) \in Nat \ {0}
      /\ DOMAIN q = 1..(Len(p) - 1)
      /\ \A i \in 1..(Len(p) - 1) : q[i] = p[i + 1]
      /\ Head(p) = p[1]
  BY TailFacts
<1>. HIDE DEF q
<1>2. \A i \in Items(q, k) : i \in 1..(Len(p) - 1) /\ i + 1 \in Items(p, k) /\ q[i] = p[i + 1]
  BY <1>1 DEF Items
<1>3. \A i \in Items(p, k) : i - 1 \in Items(q, k) /\ q[i - 1] = p[i]
  BY <1>1 DEF Items
<1>4. Items(p, k) = {} => Items(q, k) = {}
  BY <1>2
<1>5. ASSUME NEW n \in Len(h)..Len(cs)
      PROVE  cs[n].ver \in mine \/ \E i \in Items(q, k) : q[i].ver = cs[n].ver
  <2>1. cs[n].ver \in mine \/ \E i \in Items(p, k) : p[i].ver = cs[n].ver
    BY DEF InOrder
  <2>. QED
    BY <1>3, <2>1
<1>6. ASSUME NEW i \in Items(q, k) PROVE \E n \in Len(h)..Len(cs) : q[i].ver = cs[n].ver
  <2>1. i + 1 \in Items(p, k) /\ q[i] = p[i + 1]
    BY <1>2
  <2>2. \E n \in Len(h)..Len(cs) : p[i + 1].ver = cs[n].ver
    BY <2>1 DEF InOrder
  <2>. QED
    BY <2>1, <2>2
<1>7. ASSUME NEW i \in Items(q, k), NEW j \in Items(q, k), NEW n \in DOMAIN cs, NEW m \in DOMAIN cs,
             i < j, q[i].ver = cs[n].ver, q[j].ver = cs[m].ver
      PROVE  n < m
  <2>1. /\ i + 1 \in Items(p, k) /\ j + 1 \in Items(p, k)
        /\ q[i] = p[i + 1] /\ q[j] = p[j + 1] /\ i + 1 < j + 1
    BY <1>2, <1>7
  <2>. QED
    BY <1>7, <2>1 DEF InOrder
<1>8. InOrder(h, cs, q, k, mine)
  BY <1>4, <1>5, <1>6, <1>7 DEF InOrder
<1>. QED
  BY <1>8 DEF q

\* A commit of another object sets out.
LEMMA SendOtherExact ==
    ASSUME NEW h \in Seq(Version), NEW cs \in Seq(Commit), NEW p \in Seq(Message), NEW k,
           NEW mine, InOrder(h, cs, p, k, mine), NEW m \in Message, m.key # k
    PROVE  InOrder(h, cs, Append(p, m), k, mine)
<1>. DEFINE q == Append(p, m)
<1>1. /\ DOMAIN p = 1..Len(p) /\ Len(p) \in Nat
      /\ DOMAIN q = 1..(Len(p) + 1)
      /\ \A i \in 1..Len(p) : q[i] = p[i]
      /\ q[Len(p) + 1] = m
  BY AppendFacts
<1>. HIDE DEF q
<1>2. \A i : i \in Items(q, k) <=> i \in Items(p, k)
  BY <1>1 DEF Items
<1>3. Items(q, k) = Items(p, k)
  BY <1>2
<1>4. \A i \in Items(p, k) : q[i] = p[i]
  BY <1>1 DEF Items
<1>5. \A n \in Len(h)..Len(cs) :
         cs[n].ver \in mine \/ \E i \in Items(p, k) : q[i].ver = cs[n].ver
  BY <1>4 DEF InOrder
<1>6. \A i \in Items(p, k) : \E n \in Len(h)..Len(cs) : q[i].ver = cs[n].ver
  <2>1. \A i \in Items(p, k) : \E n \in Len(h)..Len(cs) : p[i].ver = cs[n].ver
    BY DEF InOrder
  <2>. QED
    BY <1>4, <2>1
<1>7. \A i, j \in Items(p, k) : \A n, l \in DOMAIN cs :
         i < j /\ q[i].ver = cs[n].ver /\ q[j].ver = cs[l].ver => n < l
  BY <1>4 DEF InOrder
<1>8. InOrder(h, cs, q, k, mine)
  BY <1>3, <1>5, <1>6, <1>7 DEF InOrder
<1>. QED
  BY <1>8 DEF q

\* The peer commits.
LEMMA CommitPeerExact ==
    ASSUME NEW h \in Seq(Version), NEW cs \in Seq(Commit), NEW p \in Seq(Message), NEW k,
           InOrder(h, cs, p, k, {}),
           NEW c \in Commit, NEW m \in Message, m.key = k, m.ver = c.ver,
           Unrepeated(Append(cs, c))
    PROVE  InOrder(h, Append(cs, c), Append(p, m), k, {})
<1>. DEFINE ds == Append(cs, c)
            q == Append(p, m)
<1>1. /\ DOMAIN p = 1..Len(p) /\ Len(p) \in Nat
      /\ DOMAIN q = 1..(Len(p) + 1)
      /\ \A i \in 1..Len(p) : q[i] = p[i]
      /\ q[Len(p) + 1] = m
  BY AppendFacts
<1>2. /\ DOMAIN cs = 1..Len(cs) /\ Len(cs) \in Nat /\ Len(ds) = Len(cs) + 1
      /\ DOMAIN ds = 1..(Len(cs) + 1)
      /\ \A i \in 1..Len(cs) : ds[i] = cs[i]
      /\ ds[Len(cs) + 1] = c
  BY AppendFacts
<1>3. /\ Len(h) \in 1..(Len(cs) + 1) /\ h[1] = Zero
      /\ \A i \in 2..Len(h) : h[i] = cs[i - 1].ver
      /\ \A n \in Len(h)..Len(cs) : \E i \in Items(p, k) : p[i].ver = cs[n].ver
      /\ \A i \in Items(p, k) : \E n \in Len(h)..Len(cs) : p[i].ver = cs[n].ver
      /\ \A i, j \in Items(p, k) : \A n, l \in 1..Len(cs) :
            i < j /\ p[i].ver = cs[n].ver /\ p[j].ver = cs[l].ver => n < l
  BY <1>2 DEF InOrder
<1>. HIDE DEF ds, q
<1>4. \A i : i \in Items(q, k) <=> i \in Items(p, k) \/ i = Len(p) + 1
  BY <1>1 DEF Items
<1>5. \A i \in Items(p, k) : i \in 1..Len(p) /\ q[i] = p[i]
  BY <1>1 DEF Items
<1>6. \A i \in 2..Len(h) : h[i] = ds[i - 1].ver
  BY <1>2, <1>3
<1>7. ASSUME NEW n \in Len(h)..Len(ds) PROVE \E i \in Items(q, k) : q[i].ver = ds[n].ver
  <2>1. CASE n = Len(cs) + 1
    BY <1>1, <1>2, <1>4, <2>1
  <2>2. CASE n # Len(cs) + 1
    <3>1. n \in Len(h)..Len(cs) /\ n \in 1..Len(cs)
      BY <1>2, <1>3, <2>2
    <3>2. PICK i \in Items(p, k) : p[i].ver = cs[n].ver
      BY <1>3, <3>1
    <3>. QED
      BY <1>2, <1>4, <1>5, <3>1, <3>2
  <2>. QED
    BY <2>1, <2>2
<1>8. ASSUME NEW i \in Items(q, k) PROVE \E n \in Len(h)..Len(ds) : q[i].ver = ds[n].ver
  <2>1. CASE i = Len(p) + 1
    <3>1. Len(cs) + 1 \in Len(h)..Len(ds)
      BY <1>2, <1>3
    <3>. QED
      BY <1>1, <1>2, <2>1, <3>1
  <2>2. CASE i \in Items(p, k)
    <3>1. PICK n \in Len(h)..Len(cs) : p[i].ver = cs[n].ver
      BY <1>3, <2>2
    <3>2. n \in 1..Len(cs) /\ n \in Len(h)..Len(ds)
      BY <1>2, <1>3
    <3>. QED
      BY <1>2, <1>5, <2>2, <3>1, <3>2
  <2>. QED
    BY <1>4, <2>1, <2>2
<1>9. ASSUME NEW i \in Items(q, k), NEW j \in Items(q, k), NEW n \in DOMAIN ds, NEW l \in DOMAIN ds,
             i < j, q[i].ver = ds[n].ver, q[j].ver = ds[l].ver
      PROVE  n < l
  <2>1. i \in Items(p, k) /\ q[i] = p[i]
    BY <1>1, <1>4, <1>5, <1>9
  <2>2. n \in 1..Len(cs) /\ ds[n] = cs[n]
    <3>1. PICK n1 \in Len(h)..Len(cs) : p[i].ver = cs[n1].ver
      BY <1>3, <2>1
    <3>2. n1 \in 1..Len(cs) /\ n1 \in DOMAIN ds /\ ds[n1] = cs[n1]
      BY <1>2, <1>3
    <3>3. n = n1
      BY <1>9, <2>1, <3>1, <3>2 DEF Unrepeated, ds
    <3>. QED
      BY <3>2, <3>3
  <2>3. CASE j = Len(p) + 1
    <3>1. l = Len(cs) + 1
      BY <1>1, <1>2, <1>9, <2>3 DEF Unrepeated, ds
    <3>. QED
      BY <1>2, <2>2, <3>1
  <2>4. CASE j \in Items(p, k) /\ l \in 1..Len(cs)
    BY <1>2, <1>3, <1>5, <1>9, <2>1, <2>2, <2>4
  <2>5. CASE j \in Items(p, k) /\ l = Len(cs) + 1
    BY <1>2, <2>2, <2>5
  <2>. QED
    BY <1>2, <1>4, <2>3, <2>4, <2>5
<1>10. InOrder(h, ds, q, k, {})
  <2>1. Len(h) \in 1..(Len(ds) + 1) /\ h[1] = Zero
    BY <1>2, <1>3
  <2>2. \A i, j \in Items(q, k) : \A n, l \in DOMAIN ds :
           i < j /\ q[i].ver = ds[n].ver /\ q[j].ver = ds[l].ver => n < l
    BY <1>9
  <2>. QED
    BY <1>6, <1>7, <1>8, <2>1, <2>2 DEF InOrder
<1>. QED
  BY <1>10 DEF ds, q

\* The own handler of the site commits, when nothing is on its way.
LEMMA CommitMineExact ==
    ASSUME NEW h \in Seq(Version), NEW cs \in Seq(Commit), NEW p \in Seq(Message), NEW k,
           InOrder(h, cs, p, k, {}), Items(p, k) = {}, NEW c \in Commit
    PROVE  InOrder(h, Append(cs, c), p, k, {c.ver})
<1>1. /\ Len(cs) \in Nat /\ Len(Append(cs, c)) = Len(cs) + 1
      /\ \A i \in 1..Len(cs) : Append(cs, c)[i] = cs[i]
      /\ Append(cs, c)[Len(cs) + 1] = c
  BY AppendFacts
<1>2. /\ Len(h) \in 1..(Len(cs) + 1) /\ h[1] = Zero
      /\ \A i \in 2..Len(h) : h[i] = cs[i - 1].ver
      /\ \A n \in Len(h)..Len(cs) : FALSE
  BY DEF InOrder
<1>3. Len(h) = Len(cs) + 1
  <2>1. Len(h) \notin Len(h)..Len(cs)
    BY <1>2
  <2>. QED
    BY <1>1, <1>2, <2>1
<1>4. \A i \in 2..Len(h) : h[i] = Append(cs, c)[i - 1].ver
  BY <1>1, <1>2, <1>3
<1>5. \A n \in Len(h)..Len(Append(cs, c)) : Append(cs, c)[n].ver = c.ver
  BY <1>1, <1>3
<1>. QED
  BY <1>1, <1>2, <1>3, <1>4, <1>5 DEF InOrder

-----------------------------------------------------------------------------
(***************************************************************************)
(* The same, with gaps.                                                    *)
(***************************************************************************)
LEMMA StoreMine ==
    ASSUME NEW h \in Seq(Version), NEW cs \in Seq(Commit), NEW p \in Seq(Message), NEW k,
           NEW w \in Version, NEW exact \in BOOLEAN, Ordered(h, cs, p, k, {w}, exact),
           Unrepeated(cs)
    PROVE  Ordered(Append(h, w), cs, p, k, {}, exact)
<1>. DEFINE g == Append(h, w)
<1>1. /\ DOMAIN h = 1..Len(h) /\ Len(h) \in Nat
      /\ DOMAIN g = 1..(Len(h) + 1)
      /\ \A i \in 1..Len(h) : g[i] = h[i]
      /\ g[Len(h) + 1] = w
  BY AppendFacts
<1>. HIDE DEF g
<1>2. DOMAIN cs = 1..Len(cs) /\ Len(cs) \in Nat
  BY LenProperties
<1>3. Gapped(h, cs, p, k, {w})
  BY DEF Ordered
<1>4. /\ Items(p, k) = {} /\ Len(cs) \in DOMAIN cs /\ w = cs[Len(cs)].ver
      /\ \A i \in DOMAIN h : h[i] # w
  <2>1. {w} # {}
    OBVIOUS
  <2>2. /\ Items(p, k) = {} /\ cs # <<>> /\ {w} = {cs[Len(cs)].ver}
        /\ \A i \in DOMAIN h : h[i] # cs[Len(cs)].ver
    BY <1>3, <2>1 DEF Gapped
  <2>3. Len(cs) \in DOMAIN cs
    BY <1>2, <2>2, EmptySeq
  <2>4. w = cs[Len(cs)].ver
    BY <2>2
  <2>. QED
    BY <2>2, <2>3, <2>4
<1>5. ASSUME NEW i \in DOMAIN h PROVE Before(cs, h[i], w)
  <2>. SUFFICES ASSUME NEW m \in DOMAIN cs, NEW n \in DOMAIN cs, h[i] = cs[m].ver, w = cs[n].ver
                PROVE  m < n
    BY DEF Before
  <2>1. n = Len(cs) /\ m # Len(cs)
    BY <1>4 DEF Unrepeated
  <2>. QED
    BY <1>2, <2>1
<1>6. ASSUME NEW i \in DOMAIN g, NEW j \in DOMAIN g, i < j PROVE Before(cs, g[i], g[j])
  <2>1. i \in DOMAIN h /\ g[i] = h[i]
    BY <1>1, <1>6
  <2>2. CASE j = Len(h) + 1
    BY <1>1, <1>5, <2>1, <2>2
  <2>3. CASE j # Len(h) + 1
    <3>1. j \in DOMAIN h /\ g[j] = h[j]
      BY <1>1, <2>3
    <3>. QED
      BY <1>3, <1>6, <2>1, <3>1 DEF Gapped
  <2>. QED
    BY <2>2, <2>3
<1>7. Gapped(g, cs, p, k, {})
  BY <1>4, <1>6 DEF Gapped
<1>8. exact => InOrder(g, cs, p, k, {})
  BY StoreMineExact DEF Ordered, g
<1>. QED
  BY <1>7, <1>8 DEF Ordered, g

LEMMA StoreFirst ==
    ASSUME NEW h \in Seq(Version), NEW cs \in Seq(Commit), NEW p \in Seq(Message), NEW k,
           NEW mine, NEW exact \in BOOLEAN, Ordered(h, cs, p, k, mine, exact), Unrepeated(cs),
           p # <<>>, Head(p).key = k
    PROVE  Ordered(Append(h, Head(p).ver), cs, Tail(p), k, mine, exact)
<1>. DEFINE w == Head(p).ver
            g == Append(h, w)
            q == Tail(p)
<1>1. /\ DOMAIN p = 1..Len(p) /\ Len(p) \in Nat \ {0}
      /\ DOMAIN q = 1..(Len(p) - 1)
      /\ \A i \in 1..(Len(p) - 1) : q[i] = p[i + 1]
      /\ Head(p) = p[1]
  BY TailFacts
<1>2. w \in Version
  <2>1. Head(p) \in Message
    BY <1>1
  <2>. QED
    BY <2>1 DEF Message
<1>3. /\ DOMAIN h = 1..Len(h) /\ Len(h) \in Nat
      /\ DOMAIN g = 1..(Len(h) + 1)
      /\ \A i \in 1..Len(h) : g[i] = h[i]
      /\ g[Len(h) + 1] = w
  BY <1>2, AppendFacts
<1>4. 1 \in Items(p, k) /\ p[1].ver = w
  BY <1>1 DEF Items
<1>. HIDE DEF w, g, q
<1>5. \A i \in Items(q, k) :
         i \in Nat \ {0} /\ i + 1 \in Items(p, k) /\ 1 < i + 1 /\ q[i] = p[i + 1]
  BY <1>1 DEF Items
<1>6. Gapped(h, cs, p, k, mine)
  BY DEF Ordered
<1>7. mine = {}
  BY <1>4, <1>6 DEF Gapped
<1>8. ASSUME NEW i \in DOMAIN g, NEW j \in DOMAIN g, i < j PROVE Before(cs, g[i], g[j])
  <2>1. i \in DOMAIN h /\ g[i] = h[i]
    BY <1>3, <1>8
  <2>2. CASE j = Len(h) + 1
    BY <1>3, <1>4, <1>6, <2>1, <2>2 DEF Gapped
  <2>3. CASE j # Len(h) + 1
    <3>1. j \in DOMAIN h /\ g[j] = h[j]
      BY <1>3, <2>3
    <3>. QED
      BY <1>6, <1>8, <2>1, <3>1 DEF Gapped
  <2>. QED
    BY <2>2, <2>3
<1>9. ASSUME NEW i \in DOMAIN g, NEW j \in Items(q, k) PROVE Before(cs, g[i], q[j].ver)
  <2>1. CASE i = Len(h) + 1
    BY <1>3, <1>4, <1>5, <1>6, <2>1 DEF Gapped
  <2>2. CASE i # Len(h) + 1
    <3>1. i \in DOMAIN h /\ g[i] = h[i]
      BY <1>3, <2>2
    <3>. QED
      BY <1>5, <1>6, <3>1 DEF Gapped
  <2>. QED
    BY <2>1, <2>2
<1>10. ASSUME NEW i \in Items(q, k), NEW j \in Items(q, k), i < j
       PROVE  Before(cs, q[i].ver, q[j].ver)
  <2>1. i + 1 < j + 1
    BY <1>5, <1>10
  <2>. QED
    BY <1>5, <1>6, <2>1 DEF Gapped
<1>11. \A i \in Items(q, k) : \E n \in DOMAIN cs : q[i].ver = cs[n].ver
  BY <1>5, <1>6 DEF Gapped
<1>12. Gapped(g, cs, q, k, mine)
  BY <1>7, <1>8, <1>9, <1>10, <1>11 DEF Gapped
<1>13. exact => InOrder(g, cs, q, k, mine)
  BY StoreFirstExact DEF Ordered, w, g, q
<1>. QED
  BY <1>12, <1>13 DEF Ordered, w, g, q

\* The way q holds some of the items of the way p, in their order: its i-th
\* message is the f[i]-th of p.
LEMMA GappedMoved ==
    ASSUME NEW h, NEW cs, NEW p, NEW q, NEW k, NEW mine, Gapped(h, cs, p, k, mine), NEW f,
           \A i \in Items(q, k) : f[i] \in Items(p, k) /\ q[i] = p[f[i]],
           \A i, j \in Items(q, k) : i < j => f[i] < f[j]
    PROVE  Gapped(h, cs, q, k, mine)
<1>1. Items(p, k) = {} => Items(q, k) = {}
  OBVIOUS
<1>2. \A i \in DOMAIN h, j \in Items(q, k) : Before(cs, h[i], q[j].ver)
  BY DEF Gapped
<1>3. \A i, j \in Items(q, k) : i < j => Before(cs, q[i].ver, q[j].ver)
  BY DEF Gapped
<1>4. \A i \in Items(q, k) : \E n \in DOMAIN cs : q[i].ver = cs[n].ver
  BY DEF Gapped
<1>. QED
  BY <1>1, <1>2, <1>3, <1>4 DEF Gapped

LEMMA SkipFirst ==
    ASSUME NEW h \in Seq(Version), NEW cs \in Seq(Commit), NEW p \in Seq(Message), NEW k,
           NEW mine, NEW exact \in BOOLEAN, Ordered(h, cs, p, k, mine, exact),
           p # <<>>, Head(p).key # k
    PROVE  Ordered(h, cs, Tail(p), k, mine, exact)
<1>. DEFINE q == Tail(p)
            f == [i \in Nat |-> i + 1]
<1>1. /\ DOMAIN p = 1..Len(p) /\ Len(p) \in Nat \ {0}
      /\ DOMAIN q = 1..(Len(p) - 1)
      /\ \A i \in 1..(Len(p) - 1) : q[i] = p[i + 1]
  BY TailFacts
<1>. HIDE DEF q
<1>2. \A i \in Items(q, k) : i \in Nat /\ i + 1 \in Items(p, k) /\ q[i] = p[i + 1]
  BY <1>1 DEF Items
<1>3. \A i \in Items(q, k) : f[i] \in Items(p, k) /\ q[i] = p[f[i]]
  BY <1>2
<1>4. \A i, j \in Items(q, k) : i < j => f[i] < f[j]
  BY <1>2
<1>. HIDE DEF f
<1>5. Gapped(h, cs, q, k, mine)
  BY <1>3, <1>4, GappedMoved DEF Ordered
<1>6. exact => InOrder(h, cs, q, k, mine)
  BY SkipFirstExact DEF Ordered, q
<1>. QED
  BY <1>5, <1>6 DEF Ordered, q

LEMMA SendOther ==
    ASSUME NEW h \in Seq(Version), NEW cs \in Seq(Commit), NEW p \in Seq(Message), NEW k,
           NEW mine, NEW exact \in BOOLEAN, Ordered(h, cs, p, k, mine, exact),
           NEW m \in Message, m.key # k
    PROVE  Ordered(h, cs, Append(p, m), k, mine, exact)
<1>. DEFINE q == Append(p, m)
            f == [i \in Nat |-> i]
<1>1. /\ DOMAIN p = 1..Len(p) /\ Len(p) \in Nat
      /\ DOMAIN q = 1..(Len(p) + 1)
      /\ \A i \in 1..Len(p) : q[i] = p[i]
      /\ q[Len(p) + 1] = m
  BY AppendFacts
<1>. HIDE DEF q
<1>2. \A i \in Items(q, k) : i \in Nat /\ i \in Items(p, k) /\ q[i] = p[i]
  BY <1>1 DEF Items
<1>3. \A i \in Items(q, k) : f[i] \in Items(p, k) /\ q[i] = p[f[i]]
  BY <1>2
<1>4. \A i, j \in Items(q, k) : i < j => f[i] < f[j]
  BY <1>2
<1>. HIDE DEF f
<1>5. Gapped(h, cs, q, k, mine)
  BY <1>3, <1>4, GappedMoved DEF Ordered
<1>6. exact => InOrder(h, cs, q, k, mine)
  BY SendOtherExact DEF Ordered, q
<1>. QED
  BY <1>5, <1>6 DEF Ordered, q

\* A new commit changes nothing between the ones before it.
LEMMA BeforeCommit ==
    ASSUME NEW cs \in Seq(Commit), NEW c \in Commit, NEW u, NEW v, u # c.ver
    PROVE  /\ Before(cs, u, v) /\ v # c.ver => Before(Append(cs, c), u, v)
           /\ v = c.ver /\ Unrepeated(Append(cs, c)) => Before(Append(cs, c), u, v)
<1>. DEFINE ds == Append(cs, c)
<1>1. /\ DOMAIN cs = 1..Len(cs) /\ Len(cs) \in Nat
      /\ DOMAIN ds = 1..(Len(cs) + 1)
      /\ \A i \in 1..Len(cs) : ds[i] = cs[i]
      /\ ds[Len(cs) + 1] = c
  BY AppendFacts
<1>. HIDE DEF ds
<1>2. \A m \in DOMAIN ds : u = ds[m].ver => m \in DOMAIN cs /\ ds[m] = cs[m]
  BY <1>1
<1>3. ASSUME Before(cs, u, v), v # c.ver PROVE Before(ds, u, v)
  <2>1. \A n \in DOMAIN ds : v = ds[n].ver => n \in DOMAIN cs /\ ds[n] = cs[n]
    BY <1>1, <1>3
  <2>. QED
    BY <1>2, <1>3, <2>1 DEF Before
<1>4. ASSUME v = c.ver, Unrepeated(ds) PROVE Before(ds, u, v)
  <2>1. \A n \in DOMAIN ds : v = ds[n].ver => n = Len(cs) + 1
    <3>1. Len(cs) + 1 \in DOMAIN ds /\ ds[Len(cs) + 1].ver = v
      BY <1>1, <1>4
    <3>. QED
      BY <1>4, <3>1 DEF Unrepeated
  <2>. QED
    BY <1>1, <1>2, <2>1 DEF Before
<1>. QED
  BY <1>3, <1>4 DEF ds

LEMMA GappedCommit ==
    ASSUME NEW h \in Seq(Version), NEW cs \in Seq(Commit), NEW p \in Seq(Message), NEW k,
           Gapped(h, cs, p, k, {}), NEW c \in Commit,
           \A i \in DOMAIN h : h[i] # c.ver, Unrepeated(Append(cs, c))
    PROVE  /\ \A i \in Items(p, k) : p[i].ver # c.ver
           /\ Gapped(h, Append(cs, c), p, k, {})
<1>. DEFINE ds == Append(cs, c)
<1>1. /\ DOMAIN cs = 1..Len(cs) /\ Len(cs) \in Nat
      /\ DOMAIN ds = 1..(Len(cs) + 1)
      /\ \A i \in 1..Len(cs) : ds[i] = cs[i]
      /\ ds[Len(cs) + 1] = c
  BY AppendFacts
<1>. HIDE DEF ds
<1>2. ASSUME NEW n \in DOMAIN cs
      PROVE  n \in DOMAIN ds /\ ds[n] = cs[n] /\ cs[n].ver # c.ver
  <2>1. /\ n \in DOMAIN ds /\ ds[n] = cs[n]
        /\ Len(cs) + 1 \in DOMAIN ds /\ n # Len(cs) + 1
    BY <1>1
  <2>2. Unrepeated(ds)
    BY DEF ds
  <2>. QED
    BY <1>1, <2>1, <2>2 DEF Unrepeated
<1>3. \A i \in Items(p, k) : p[i].ver # c.ver /\ \E n \in DOMAIN ds : p[i].ver = ds[n].ver
  BY <1>2 DEF Gapped
<1>4. \A i, j \in DOMAIN h : i < j => Before(ds, h[i], h[j])
  BY BeforeCommit DEF Gapped, ds
<1>5. \A i \in DOMAIN h, j \in Items(p, k) : Before(ds, h[i], p[j].ver)
  BY <1>3, BeforeCommit DEF Gapped, ds
<1>6. \A i, j \in Items(p, k) : i < j => Before(ds, p[i].ver, p[j].ver)
  BY <1>3, BeforeCommit DEF Gapped, ds
<1>7. Gapped(h, ds, p, k, {})
  BY <1>3, <1>4, <1>5, <1>6 DEF Gapped
<1>. QED
  BY <1>3, <1>7 DEF ds

LEMMA CommitPeer ==
    ASSUME NEW h \in Seq(Version), NEW cs \in Seq(Commit), NEW p \in Seq(Message), NEW k,
           NEW exact \in BOOLEAN, Ordered(h, cs, p, k, {}, exact),
           NEW c \in Commit, NEW m \in Message, m.key = k, m.ver = c.ver,
           \A i \in DOMAIN h : h[i] # c.ver, Unrepeated(Append(cs, c))
    PROVE  Ordered(h, Append(cs, c), Append(p, m), k, {}, exact)
<1>. DEFINE ds == Append(cs, c)
            q == Append(p, m)
<1>1. /\ DOMAIN p = 1..Len(p) /\ Len(p) \in Nat
      /\ DOMAIN q = 1..(Len(p) + 1)
      /\ \A i \in 1..Len(p) : q[i] = p[i]
      /\ q[Len(p) + 1] = m
  BY AppendFacts
<1>2. Len(cs) + 1 \in DOMAIN ds /\ ds[Len(cs) + 1] = c
  BY AppendFacts
<1>3. /\ \A i \in Items(p, k) : p[i].ver # c.ver
      /\ Gapped(h, ds, p, k, {})
  BY GappedCommit DEF Ordered
<1>4. \A u : u # c.ver => Before(ds, u, c.ver)
  BY BeforeCommit
<1>. HIDE DEF ds, q
<1>5. \A i \in Items(q, k) : \/ i \in Items(p, k) /\ q[i] = p[i] /\ i \in 1..Len(p)
                             \/ i = Len(p) + 1 /\ q[i].ver = c.ver
  BY <1>1 DEF Items
<1>6. \A i \in DOMAIN h, j \in Items(q, k) : Before(ds, h[i], q[j].ver)
  BY <1>3, <1>4, <1>5 DEF Gapped
<1>7. ASSUME NEW i \in Items(q, k), NEW j \in Items(q, k), i < j
      PROVE  Before(ds, q[i].ver, q[j].ver)
  <2>1. i \in Items(p, k) /\ q[i] = p[i]
    BY <1>1, <1>5, <1>7
  <2>2. CASE j \in Items(p, k) /\ q[j] = p[j]
    BY <1>3, <1>7, <2>1, <2>2 DEF Gapped
  <2>3. CASE q[j].ver = c.ver
    BY <1>3, <1>4, <2>1, <2>3
  <2>. QED
    BY <1>5, <2>2, <2>3
<1>8. \A i \in Items(q, k) : \E n \in DOMAIN ds : q[i].ver = ds[n].ver
  BY <1>2, <1>3, <1>5 DEF Gapped
<1>9. Gapped(h, ds, q, k, {})
  BY <1>3, <1>6, <1>7, <1>8 DEF Gapped
<1>10. exact => InOrder(h, ds, q, k, {})
  BY CommitPeerExact DEF Ordered, ds, q
<1>. QED
  BY <1>9, <1>10 DEF Ordered, ds, q

LEMMA CommitMine ==
    ASSUME NEW h \in Seq(Version), NEW cs \in Seq(Commit), NEW p \in Seq(Message), NEW k,
           NEW exact \in BOOLEAN, Ordered(h, cs, p, k, {}, exact), Items(p, k) = {},
           NEW c \in Commit, \A i \in DOMAIN h : h[i] # c.ver, Unrepeated(Append(cs, c))
    PROVE  Ordered(h, Append(cs, c), p, k, {c.ver}, exact)
<1>. DEFINE ds == Append(cs, c)
<1>1. Gapped(h, ds, p, k, {})
  BY GappedCommit DEF Ordered
<1>2. ds \in Seq(Commit) /\ Len(cs) \in Nat /\ Len(ds) = Len(cs) + 1 /\ ds[Len(cs) + 1] = c
  BY AppendFacts
<1>3. exact => InOrder(h, ds, p, k, {c.ver})
  BY CommitMineExact DEF Ordered
<1>. HIDE DEF ds
<1>4. ds # <<>> /\ ds[Len(ds)] = c
  BY <1>2, EmptySeq
<1>5. Gapped(h, ds, p, k, {c.ver})
  BY <1>1, <1>4 DEF Gapped
<1>. QED
  BY <1>3, <1>5 DEF Ordered, ds

-----------------------------------------------------------------------------
(***************************************************************************)
(* What each kind of step does to the way to a site.                       *)
(***************************************************************************)
LEMMA OneSeq ==
    ASSUME NEW S, NEW e \in S
    PROVE  <<e>> \in Seq(S) /\ Len(<<e>>) = 1 /\ <<e>>[1] = e /\ <<e>> # <<>>
           /\ Head(<<e>>) = e /\ Tail(<<e>>) = <<>>
OBVIOUS

LEMMA HeadThenTail ==
    ASSUME NEW S, NEW q \in Seq(S), q # <<>>
    PROVE  <<Head(q)>> \o Tail(q) = q
<1>1. Head(q) \in S /\ Tail(q) \in Seq(S) /\ Len(q) \in Nat \ {0} /\ Len(Tail(q)) = Len(q) - 1
      /\ Head(q) = q[1] /\ \A i \in 1..(Len(q) - 1) : Tail(q)[i] = q[i + 1]
  BY HeadTailProperties, TailFacts
<1>2. <<Head(q)>> \in Seq(S) /\ Len(<<Head(q)>>) = 1 /\ <<Head(q)>>[1] = q[1]
  BY <1>1, OneSeq
<1>3. PICK one \in Seq(S), rest \in Seq(S) : one = <<Head(q)>> /\ rest = Tail(q)
  BY <1>1, <1>2
<1>4. /\ one \o rest \in Seq(S)
      /\ Len(one \o rest) = Len(one) + Len(rest)
      /\ \A i \in 1..Len(one) + Len(rest) :
            (one \o rest)[i] = IF i <= Len(one) THEN one[i] ELSE rest[i - Len(one)]
  BY ConcatProperties
<1>5. /\ Len(one) = 1 /\ one[1] = q[1] /\ Len(rest) = Len(q) - 1
      /\ \A i \in 1..(Len(q) - 1) : rest[i] = q[i + 1]
  BY <1>1, <1>2, <1>3
<1>6. Len(one \o rest) = Len(q) /\ \A i \in 1..Len(q) : (one \o rest)[i] = q[i]
  BY <1>1, <1>4, <1>5
<1>7. one \o rest = q
  BY <1>4, <1>6, SeqEqual
<1>. QED
  BY <1>3, <1>7

LEMMA WayParts ==
    ASSUME TypeOK, NEW s \in Sites
    PROVE  /\ InHand(s) \in Seq(Message) /\ Transit(s) \in Seq(Message)
           /\ MadeMsg(s) \in Message /\ Made(s) \in Seq(Message)
           /\ Way(s) \in Seq(Message)
<1>1. ASSUME NEW t \in Sites PROVE MadeMsg(t) \in Message /\ Made(t) \in Seq(Message)
  <2>1. MadeMsg(t) \in Message
    BY DEF TypeOK, MadeMsg, Message
  <2>. QED
    BY <2>1, OneSeq, EmptySeq DEF Made
<1>2. InHand(s) \in Seq(Message)
  <2>1. rep_msg[s] \in Message
    BY DEF TypeOK
  <2>. QED
    BY <2>1, OneSeq, EmptySeq DEF InHand
<1>3. Transit(s) \in Seq(Message) /\ Other(s) \in Sites
  BY TransitType, SitesFacts
<1>4. InHand(s) \o Transit(s) \in Seq(Message)
  BY <1>2, <1>3, ConcatProperties
<1>5. Way(s) \in Seq(Message)
  BY <1>1, <1>3, <1>4, ConcatProperties DEF Way
<1>. QED
  BY <1>1, <1>2, <1>3, <1>5

\* A step that moves no commit.
LEMMA WaySame ==
    ASSUME \A r \in Sites : Transit(r)' = Transit(r),
           \A r \in Sites : InHand(r)' = InHand(r) /\ Made(r)' = Made(r)
    PROVE  \A r \in Sites : Way(r)' = Way(r)
BY SitesFacts DEF Way

LEMMA MadeSame ==
    ASSUME NEW s \in Sites,
           \/ pc[s] \notin Stamped /\ pc'[s] \notin Stamped
           \/ pc'[s] = pc[s] /\ txn'[s] = txn[s]
           \/ pc[s] = "fast_push" /\ pc'[s] = "fast_queue" /\ txn'[s] = txn[s]
           \/ pc[s] = "slow_push" /\ pc'[s] = "slow_queue" /\ txn'[s] = txn[s]
    PROVE  Made(s)' = Made(s)
BY DEF Made, MadeMsg, Stamped, SlowHeld

\* The replicater takes the oldest commit in hand.
LEMMA WayRecv ==
    ASSUME TypeOK, NEW s \in Sites, RepRecv(s)
    PROVE  \A r \in Sites : Way(r)' = Way(r)
<1>1. /\ Transit(s) # <<>> /\ rep_msg'[s] = Head(Transit(s))
      /\ Transit(s)' = Tail(Transit(s)) /\ Transit(Other(s))' = Transit(Other(s))
  BY TransitRecv
<1>2. /\ rpc[s] = "poll" /\ rpc'[s] = "push" /\ UNCHANGED <<pc, txn>>
      /\ rpc'[Other(s)] = rpc[Other(s)] /\ rep_msg'[Other(s)] = rep_msg[Other(s)]
  BY SitesFacts DEF TypeOK, RepRecv
<1>3. \A r \in Sites : Made(r)' = Made(r)
  BY <1>2 DEF Made, MadeMsg
<1>4. InHand(s) = <<>> /\ InHand(s)' = <<Head(Transit(s))>> /\ InHand(Other(s))' = InHand(Other(s))
  BY <1>1, <1>2 DEF InHand
<1>5. InHand(s)' \o Transit(s)' = InHand(s) \o Transit(s)
  <2>1. PICK q \in Seq(Message) : q = Transit(s)
    BY TransitType
  <2>2. <<Head(q)>> \o Tail(q) = q /\ <<>> \o q = q
    BY <1>1, <2>1, HeadThenTail, ConcatEmptySeq
  <2>. QED
    BY <1>1, <1>4, <2>1, <2>2
<1>6. Way(s)' = Way(s)
  BY <1>3, <1>5, SitesFacts DEF Way
<1>7. Way(Other(s))' = Way(Other(s))
  BY <1>1, <1>3, <1>4, SitesFacts DEF Way
<1>. QED
  BY <1>6, <1>7, SitesFacts

\* The commit of a handler becomes a message.
LEMMA WayQueue ==
    ASSUME TypeOK, NEW s \in Sites, FastQueue(s) \/ SlowQueue(s)
    PROVE  \A r \in Sites : Way(r)' = Way(r)
<1>1. PICK type \in {"FAST_CMT", "SLOW_CMT"}, next \in {"fast_done", "idle"} :
         /\ \/ pc[s] = "fast_queue" /\ type = "FAST_CMT"
            \/ pc[s] = "slow_queue" /\ type = "SLOW_CMT"
         /\ QueueMsg(s, type, next)
  BY DEF FastQueue, SlowQueue
<1>2. /\ Transit(Other(s))' = Append(Transit(Other(s)), MadeMsg(s))
      /\ Transit(s)' = Transit(s)
  <2>1. MadeMsg(s) = [commit_type |-> type, key |-> txn[s].key, ver |-> txn[s].ver]
    BY <1>1 DEF MadeMsg, SlowHeld
  <2>. QED
    BY <1>1, <2>1, TransitQueue
<1>3. /\ UNCHANGED <<txn, rpc, rep_msg>>
      /\ pc'[s] = next /\ pc'[Other(s)] = pc[Other(s)]
  BY <1>1, SitesFacts DEF TypeOK, QueueMsg
<1>4. /\ Made(s) = <<MadeMsg(s)>> /\ Made(s)' = <<>>
      /\ Made(Other(s))' = Made(Other(s))
  BY <1>1, <1>3 DEF Made, MadeMsg, Stamped
<1>5. \A r \in Sites : InHand(r)' = InHand(r)
  BY <1>3 DEF InHand
<1>6. Way(s)' = Way(s)
  BY <1>2, <1>4, <1>5 DEF Way
<1>7. Way(Other(s))' = Way(Other(s))
  <2>1. PICK q \in Seq(Message), i \in Seq(Message), m \in Message :
            q = Transit(Other(s)) /\ i = InHand(Other(s)) /\ m = MadeMsg(s)
    BY WayParts, SitesFacts
  <2>2. i \o Append(q, m) = Append(i \o q, m)
    BY ConcatAppend
  <2>3. i \o q \in Seq(Message)
    BY ConcatProperties
  <2>4. Append(i \o q, m) = (i \o q) \o <<m>> /\ Append(i \o q, m) \in Seq(Message)
    BY <2>3, AppendIsConcat, AppendProperties
  <2>5. (i \o Append(q, m)) \o <<>> = (i \o q) \o <<m>>
    BY <2>2, <2>4, ConcatEmptySeq
  <2>. QED
    BY <1>2, <1>4, <1>5, <2>1, <2>5, SitesFacts DEF Way
<1>. QED
  BY <1>6, <1>7, SitesFacts

\* The commit in hand is the first of the way, and leaves it when it is stored.
LEMMA WayApply ==
    ASSUME TypeOK, NEW s \in Sites, RepPush(s)
    PROVE  /\ Way(s) # <<>> /\ Head(Way(s)) = rep_msg[s]
           /\ Way(s)' = Tail(Way(s)) /\ Way(Other(s))' = Way(Other(s))
<1>1. /\ UNCHANGED <<pc, txn, net, msg_list, rep_msg>>
      /\ rpc[s] = "push" /\ rpc'[s] # "push" /\ rpc'[Other(s)] = rpc[Other(s)]
  BY SitesFacts DEF TypeOK, RepPush, AfterPush
<1>2. PICK q \in Seq(Message), e \in Message, m \in Seq(Message) :
          q = Transit(s) /\ e = rep_msg[s] /\ m = Made(Other(s))
  BY WayParts, SitesFacts DEF TypeOK
<1>3. /\ InHand(s) = <<e>> /\ InHand(s)' = <<>> /\ InHand(Other(s))' = InHand(Other(s))
      /\ \A r \in Sites : Made(r)' = Made(r) /\ Transit(r)' = Transit(r)
  BY <1>1, <1>2, TransitSame DEF InHand, Made, MadeMsg
<1>4. /\ <<e>> \in Seq(Message) /\ <<e>> # <<>> /\ Head(<<e>>) = e /\ Tail(<<e>>) = <<>>
      /\ <<>> \in Seq(Message)
  BY OneSeq, EmptySeq
<1>5. <<e>> \o q # <<>> /\ Head(<<e>> \o q) = e /\ Tail(<<e>> \o q) = <<>> \o q
  BY <1>4, ConcatHeadTail
<1>6. <<e>> \o q \in Seq(Message)
  BY <1>4, ConcatProperties
<1>7. /\ (<<e>> \o q) \o m # <<>>
      /\ Head((<<e>> \o q) \o m) = e
      /\ Tail((<<e>> \o q) \o m) = (<<>> \o q) \o m
  BY <1>5, <1>6, ConcatHeadTail
<1>8. Way(s) = (<<e>> \o q) \o m /\ Way(s)' = (<<>> \o q) \o m
  BY <1>2, <1>3, SitesFacts DEF Way
<1>9. Way(Other(s))' = Way(Other(s))
  BY <1>3, SitesFacts DEF Way
<1>. QED
  BY <1>2, <1>7, <1>8, <1>9

\* A commit sets out, behind all others of its site.
LEMMA WayStamp ==
    ASSUME TypeOK, NEW s \in Sites, NEW next,
           \/ pc[s] = "fast_stamp" /\ next = "fast_push"
           \/ pc[s] = "slow_stamp" /\ next = "slow_push",
           StampVTS(s, next), TypeOK'
    PROVE  /\ MadeMsg(s)' \in Message
           /\ Way(Other(s))' = Append(Way(Other(s)), MadeMsg(s)') /\ Way(s)' = Way(s)
<1>1. /\ UNCHANGED <<net, msg_list, rpc, rep_msg>>
      /\ pc'[s] = next /\ pc'[Other(s)] = pc[Other(s)] /\ txn'[Other(s)] = txn[Other(s)]
  <2>1. PICK vts : txn' = [txn EXCEPT ![s].ver = vts]
    BY DEF StampVTS
  <2>2. pc' = [pc EXCEPT ![s] = next] /\ UNCHANGED <<net, msg_list, rpc, rep_msg>>
    BY DEF StampVTS
  <2>. QED
    BY <2>1, <2>2, SitesFacts DEF TypeOK
<1>2. /\ Made(s) = <<>> /\ Made(s)' = <<MadeMsg(s)'>> /\ Made(Other(s))' = Made(Other(s))
      /\ \A r \in Sites : InHand(r)' = InHand(r) /\ Transit(r)' = Transit(r)
  BY <1>1, TransitSame DEF Made, MadeMsg, Stamped, InHand
<1>3. MadeMsg(s)' \in Message
  BY DEF TypeOK, MadeMsg, Message
<1>4. PICK m \in Message : m = MadeMsg(s)'
  BY <1>3
<1>5. PICK q \in Seq(Message) : q = InHand(Other(s)) \o Transit(Other(s))
  <2>1. InHand(Other(s)) \in Seq(Message) /\ Transit(Other(s)) \in Seq(Message)
    BY WayParts, SitesFacts
  <2>. QED
    BY <2>1, ConcatProperties
<1>6. q \o <<>> = q /\ q \o <<m>> = Append(q, m)
  BY ConcatEmptySeq, AppendIsConcat
<1>7. Way(Other(s))' = Append(Way(Other(s)), m)
  BY <1>2, <1>4, <1>5, <1>6, SitesFacts DEF Way
<1>8. Way(s)' = Way(s)
  BY <1>2 DEF Way
<1>. QED
  BY <1>3, <1>4, <1>7, <1>8

-----------------------------------------------------------------------------
(***************************************************************************)
(* The steps of DiaryCommit.                                               *)
(***************************************************************************)
LEMMA OrderFrame ==
    ASSUME NEW exact \in BOOLEAN, Orders(exact), HomeSlow, UNCHANGED <<history, committed>>,
           \A r \in Sites : Way(r)' = Way(r),
           \A r \in Sites, k \in DiaryKeys : Mine(r, k)' = Mine(r, k)
    PROVE  Orders(exact)' /\ HomeSlow'
<1>1. ASSUME NEW r \in Sites, NEW k \in DiaryKeys PROVE OrderInv(r, k, exact)'
  <2>1. OrderInv(r, k, exact) /\ Way(r)' = Way(r) /\ Mine(r, k)' = Mine(r, k)
    BY DEF Orders
  <2>. QED
    BY <2>1 DEF OrderInv
<1>. QED
  BY <1>1 DEF Orders, HomeSlow, Home

LEMMA MineSame ==
    ASSUME NEW s \in Sites,
           \/ pc'[s] = pc[s] /\ txn'[s] = txn[s]
           \/ {pc[s], pc'[s]} \cap {"fast_push", "slow_push"} = {}
    PROVE  \A k : Mine(s, k)' = Mine(s, k)
BY DEF Mine

\* A step of a handler that commits nothing and stores nothing.
LEMMA HandlerOrder ==
    ASSUME NEW exact \in BOOLEAN, TypeOK, Orders(exact), HomeSlow, NEW s \in Sites,
           UNCHANGED <<history, committed, net, msg_list, rpc, rep_msg>>,
           pc'[Other(s)] = pc[Other(s)], txn'[Other(s)] = txn[Other(s)],
           \/ pc'[s] = pc[s] /\ txn'[s] = txn[s]
           \/ pc[s] \notin Stamped /\ pc'[s] \notin Stamped
    PROVE  Orders(exact)' /\ HomeSlow'
<1>1. \A r \in Sites : InHand(r)' = InHand(r) /\ Transit(r)' = Transit(r)
  BY TransitSame DEF InHand
<1>2. \A r \in Sites : Made(r)' = Made(r)
  BY MadeSame, SitesFacts
<1>3. \A r \in Sites : Way(r)' = Way(r)
  BY <1>1, <1>2, WaySame
<1>4. \A r \in Sites, k \in DiaryKeys : Mine(r, k)' = Mine(r, k)
  BY MineSame, SitesFacts DEF Stamped
<1>. QED
  BY <1>3, <1>4, OrderFrame

\* The handler stores its own commit.
LEMMA PushOrder ==
    ASSUME NEW exact \in BOOLEAN, TypeOK, VersionsUnique, Orders(exact), HomeSlow,
           NEW s \in Sites, FastPush(s) \/ SlowPush(s)
    PROVE  Orders(exact)' /\ HomeSlow'
<1>1. PICK q \in Keys, w \in Version : q = txn[s].key /\ w = txn[s].ver
  BY DEF TypeOK
<1>2. /\ UNCHANGED <<txn, net, msg_list, rpc, rep_msg, committed>>
      /\ history' = [history EXCEPT ![s][q] = Append(@, w)]
      /\ \/ pc[s] = "fast_push" /\ pc'[s] = "fast_queue"
         \/ pc[s] = "slow_push" /\ pc'[s] = "slow_queue"
      /\ pc'[Other(s)] = pc[Other(s)]
  BY <1>1, SitesFacts DEF TypeOK, FastPush, SlowPush, Push
<1>3. \A r \in Sites : InHand(r)' = InHand(r) /\ Transit(r)' = Transit(r)
  BY <1>2, TransitSame DEF InHand
<1>4. \A r \in Sites : Made(r)' = Made(r)
  BY <1>2, MadeSame, SitesFacts
<1>5. \A r \in Sites : Way(r)' = Way(r)
  BY <1>3, <1>4, WaySame
<1>6. ASSUME NEW r \in Sites, NEW k \in DiaryKeys PROVE OrderInv(r, k, exact)'
  <2>1. OrderInv(r, k, exact) /\ Way(r)' = Way(r) /\ k \in Keys
    BY <1>5, HomeFacts DEF Orders
  <2>2. CASE r = s /\ k = q
    <3>1. Mine(r, k) = {w} /\ Mine(r, k)' = {}
      BY <1>1, <1>2, <2>2 DEF Mine
    <3>2. history'[r][k] = Append(history[r][k], w)
      BY <1>2, <2>2 DEF TypeOK
    <3>3. history[r][k] \in Seq(Version) /\ committed[k] \in Seq(Commit) /\ Way(r) \in Seq(Message)
      BY <2>1, WayParts DEF TypeOK
    <3>4. Unrepeated(committed[k])
      BY <2>1 DEF VersionsUnique, Unrepeated
    <3>5. Ordered(history[r][k], committed[k], Way(r), k, {w}, exact)
      BY <2>1, <3>1 DEF OrderInv
    <3>6. Ordered(Append(history[r][k], w), committed[k], Way(r), k, {}, exact)
      BY <3>3, <3>4, <3>5, StoreMine
    <3>. QED
      BY <1>2, <2>1, <3>1, <3>2, <3>6 DEF OrderInv
  <2>3. CASE r # s \/ k # q
    <3>1. history'[r][k] = history[r][k]
      BY <1>2, <2>1, <2>3 DEF TypeOK
    <3>2. Mine(r, k)' = Mine(r, k)
      <4>1. CASE r = s
        BY <1>1, <1>2, <2>3, <4>1 DEF Mine
      <4>2. CASE r = Other(s)
        BY <1>2, <4>2 DEF Mine
      <4>. QED
        BY <4>1, <4>2, SitesFacts
    <3>. QED
      BY <1>2, <2>1, <3>1, <3>2 DEF OrderInv
  <2>. QED
    BY <2>2, <2>3
<1>. QED
  BY <1>5, <1>6 DEF Orders, HomeSlow, Home

\* The replicater stores the first commit of the way.
LEMMA ApplyOrder ==
    ASSUME NEW exact \in BOOLEAN, TypeOK, VersionsUnique, Orders(exact), HomeSlow,
           NEW s \in Sites, RepPush(s)
    PROVE  Orders(exact)' /\ HomeSlow'
<1>1. PICK q \in Keys, w \in Version : q = rep_msg[s].key /\ w = rep_msg[s].ver
  BY DEF TypeOK, Message
<1>2. /\ UNCHANGED <<pc, txn, committed>>
      /\ history' = [history EXCEPT ![s][q] = Append(@, w)]
  BY <1>1 DEF RepPush
<1>3. /\ Way(s) # <<>> /\ Head(Way(s)) = rep_msg[s]
      /\ Way(s)' = Tail(Way(s)) /\ Way(Other(s))' = Way(Other(s))
  BY WayApply
<1>4. \A r \in Sites, k \in DiaryKeys : Mine(r, k)' = Mine(r, k)
  BY <1>2 DEF Mine
<1>5. ASSUME NEW r \in Sites, NEW k \in DiaryKeys PROVE OrderInv(r, k, exact)'
  <2>1. OrderInv(r, k, exact) /\ k \in Keys /\ Mine(r, k)' = Mine(r, k)
    BY <1>4, HomeFacts DEF Orders
  <2>2. history[r][k] \in Seq(Version) /\ committed[k] \in Seq(Commit) /\ Way(r) \in Seq(Message)
    BY <2>1, WayParts DEF TypeOK
  <2>3. CASE r = s /\ k = q
    <3>1. Unrepeated(committed[k])
      BY <2>1 DEF VersionsUnique, Unrepeated
    <3>2. history'[r][k] = Append(history[r][k], w)
      BY <1>2, <2>3 DEF TypeOK
    <3>3. Ordered(Append(history[r][k], Head(Way(r)).ver), committed[k], Tail(Way(r)), k,
                  Mine(r, k), exact)
      BY <1>1, <1>3, <2>1, <2>2, <2>3, <3>1, StoreFirst DEF OrderInv
    <3>. QED
      BY <1>1, <1>2, <1>3, <2>1, <2>3, <3>2, <3>3 DEF OrderInv
  <2>4. CASE r = s /\ k # q
    <3>1. history'[r][k] = history[r][k]
      BY <1>2, <2>1, <2>4 DEF TypeOK
    <3>2. Ordered(history[r][k], committed[k], Tail(Way(r)), k, Mine(r, k), exact)
      BY <1>1, <1>3, <2>1, <2>2, <2>4, SkipFirst DEF OrderInv
    <3>. QED
      BY <1>2, <1>3, <2>1, <2>4, <3>1, <3>2 DEF OrderInv
  <2>5. CASE r = Other(s)
    <3>1. history'[r][k] = history[r][k]
      BY <1>2, <2>1, <2>5, SitesFacts DEF TypeOK
    <3>. QED
      BY <1>2, <1>3, <2>1, <2>5, <3>1 DEF OrderInv
  <2>. QED
    BY <2>3, <2>4, <2>5, SitesFacts
<1>6. HomeSlow'
  <2>1. PICK p \in Seq(Message) : p = Way(s)
    BY WayParts
  <2>2. /\ DOMAIN p = 1..Len(p) /\ Len(p) \in Nat \ {0}
        /\ DOMAIN Tail(p) = 1..(Len(p) - 1)
        /\ \A i \in 1..(Len(p) - 1) : Tail(p)[i] = p[i + 1]
    BY <1>3, <2>1, TailFacts
  <2>3. \A i \in DOMAIN p : p[i].key \in DiaryKeys /\ Home(p[i].key) = s => p[i].commit_type = "SLOW_CMT"
    BY <2>1 DEF HomeSlow
  <2>4. \A i \in DOMAIN Tail(p) :
            Tail(p)[i].key \in DiaryKeys /\ Home(Tail(p)[i].key) = s => Tail(p)[i].commit_type = "SLOW_CMT"
    BY <2>2, <2>3
  <2>5. ASSUME NEW r \in Sites
        PROVE  \A i \in DOMAIN Way(r)' :
                  Way(r)'[i].key \in DiaryKeys /\ Home(Way(r)'[i].key) = r
                      => Way(r)'[i].commit_type = "SLOW_CMT"
    BY <1>3, <2>1, <2>4, SitesFacts DEF HomeSlow
  <2>. QED
    BY <2>5 DEF HomeSlow, Home
<1>. QED
  BY <1>5, <1>6 DEF Orders

-----------------------------------------------------------------------------
\* A commit on its way to the preferred site owns the lock there.
LEMMA WayOwned ==
    ASSUME TypeOK, HomeSlow, NEW k \in DiaryKeys, NEW i \in Items(Way(Home(k)), k)
    PROVE  \/ ApplyOwns(Home(k), k)
           \/ SlowOwns(Home(k), k)
           \/ SentOwns(Home(k), k) # {}
<1>1. PICK s \in Sites : s = Home(k)
  BY HomeFacts
<1>2. PICK a \in Seq(Message), t \in Seq(Message), m \in Seq(Message) :
          a = InHand(s) /\ t = Transit(s) /\ m = Made(Other(s))
  BY WayParts, SitesFacts
<1>3. Way(s) = (a \o t) \o m
  BY <1>2 DEF Way
<1>4. /\ a \o t \in Seq(Message)
      /\ Len(a \o t) = Len(a) + Len(t)
      /\ \A j \in 1..Len(a) + Len(t) :
             (a \o t)[j] = IF j <= Len(a) THEN a[j] ELSE t[j - Len(a)]
  BY ConcatProperties
<1>5. /\ (a \o t) \o m \in Seq(Message)
      /\ Len((a \o t) \o m) = Len(a \o t) + Len(m)
      /\ \A j \in 1..Len(a \o t) + Len(m) :
             ((a \o t) \o m)[j] = IF j <= Len(a \o t) THEN (a \o t)[j] ELSE m[j - Len(a \o t)]
  BY <1>4, ConcatProperties
<1>6. /\ DOMAIN Way(s) = 1..(Len(a) + Len(t) + Len(m))
      /\ Len(a) \in Nat /\ Len(t) \in Nat /\ Len(m) \in Nat
      /\ DOMAIN a = 1..Len(a) /\ DOMAIN t = 1..Len(t) /\ DOMAIN m = 1..Len(m)
  BY <1>3, <1>4, <1>5, LenProperties
<1>7. i \in DOMAIN Way(s) /\ IsSlow(Way(s)[i], k)
  BY <1>1 DEF Items, IsSlow, HomeSlow
<1>8. \/ \E j \in DOMAIN a : Way(s)[i] = a[j]
      \/ \E j \in DOMAIN t : Way(s)[i] = t[j]
      \/ \E j \in DOMAIN m : Way(s)[i] = m[j]
  <2>1. CASE i <= Len(a)
    BY <1>3, <1>4, <1>5, <1>6, <1>7, <2>1
  <2>2. CASE Len(a) < i /\ i <= Len(a) + Len(t)
    <3>1. i - Len(a) \in DOMAIN t
      BY <1>6, <1>7, <2>2
    <3>2. Way(s)[i] = t[i - Len(a)]
      BY <1>3, <1>4, <1>5, <1>6, <1>7, <2>2
    <3>. QED
      BY <3>1, <3>2
  <2>3. CASE Len(a) + Len(t) < i
    <3>1. i - (Len(a) + Len(t)) \in DOMAIN m
      BY <1>6, <1>7, <2>3
    <3>2. Way(s)[i] = m[i - (Len(a) + Len(t))]
      BY <1>3, <1>4, <1>5, <1>6, <1>7, <2>3
    <3>. QED
      BY <3>1, <3>2
  <2>. QED
    BY <1>6, <1>7, <2>1, <2>2, <2>3
<1>9. ASSUME NEW j \in DOMAIN a, Way(s)[i] = a[j] PROVE ApplyOwns(s, k)
  <2>1. rpc[s] = "push" /\ a[j] = rep_msg[s]
    <3>1. rpc[s] = "push"
      BY <1>2, <1>6, <1>9, EmptySeq DEF InHand
    <3>2. a = <<rep_msg[s]>>
      BY <1>2, <3>1 DEF InHand
    <3>. QED
      BY <1>9, <3>1, <3>2
  <2>. QED
    BY <1>7, <1>9, <2>1 DEF ApplyOwns
<1>10. ASSUME NEW j \in DOMAIN t, Way(s)[i] = t[j] PROVE SentOwns(s, k) # {}
  BY <1>2, <1>7, <1>10 DEF SentOwns
<1>11. ASSUME NEW j \in DOMAIN m, Way(s)[i] = m[j] PROVE SlowOwns(s, k)
  <2>1. pc[Other(s)] \in Stamped
    BY <1>2, <1>6, <1>11, EmptySeq DEF Made
  <2>2. m = <<MadeMsg(Other(s))>>
    BY <1>2, <2>1 DEF Made
  <2>3. m[j] = MadeMsg(Other(s))
    BY <1>11, <2>2
  <2>. QED
    BY <1>7, <1>11, <2>3 DEF IsSlow, MadeMsg, SlowOwns
<1>. QED
  BY <1>1, <1>8, <1>9, <1>10, <1>11

\* A site that commits an edit has stored every edit before it.
LEMMA NothingOnWay ==
    ASSUME NEW exact \in BOOLEAN, TypeOK, AllLocks(exact), EditInv(exact),
           Orders(exact), HomeSlow,
           NEW s \in Sites, txn[s].key \in DiaryKeys, pc[s] \in {"fast_stamp", "slow_stamp"}
    PROVE  Items(Way(s), txn[s].key) = {}
<1>1. PICK k \in DiaryKeys : k = txn[s].key /\ k \in Keys
  BY HomeFacts
<1>2. HandlerInv(s, exact)
  BY DEF EditInv, Handlers
<1>3. CASE pc[s] = "fast_stamp"
  <2>1. Home(k) = s /\ FastOwns(s, k)
    BY <1>1, <1>2, <1>3 DEF HandlerInv, FastHeld, FastOwns
  <2>2. LockInv(s, k, exact)
    BY <1>1 DEF AllLocks
  <2>3. ~ ApplyOwns(s, k) /\ ~ SlowOwns(s, k) /\ SentOwns(s, k) = {}
    BY <2>1, <2>2 DEF LockInv
  <2>. QED
    BY <1>1, <2>1, <2>3, WayOwned
<1>4. CASE pc[s] = "slow_stamp"
  <2>. DEFINE h == history[s][k]
  <2>1. PICK cs \in Seq(Commit) : cs = committed[k]
    BY <1>1 DEF TypeOK
  <2>2. Len(cs) \in Nat /\ DOMAIN cs = 1..Len(cs) /\ h \in Seq(Version)
        /\ Len(h) \in Nat /\ DOMAIN h = 1..Len(h)
    BY <1>1, LenProperties DEF TypeOK
  <2>3. Gapped(h, cs, Way(s), k, Mine(s, k))
    BY <2>1 DEF Orders, OrderInv, Ordered
  <2>4. SUFFICES ASSUME NEW j \in Items(Way(s), k)
                 PROVE  FALSE
    BY <1>1
  <2>5. PICK n \in 1..Len(cs) : Way(s)[j].ver = cs[n].ver
    BY <2>2, <2>3 DEF Gapped
  <2>6. Len(cs) \in 1..Len(cs) /\ cs # <<>>
    BY <2>2, EmptySeq
  <2>7. txn[s].startTs = cs[Len(cs)].ver
    BY <1>1, <1>2, <1>4, <2>1, <2>6 DEF HandlerInv, Newest
  <2>8. ~ Leq(cs[Len(cs)].ver, Zero)
    BY <2>1, <2>2, <2>6 DEF EditInv, Rising
  <2>9. txn[s].startTs # Unloaded /\ txn[s].startTs # Zero
    BY <2>7, <2>8 DEF Leq, Zero, Unloaded, Sites
  <2>10. PICK i \in 1..Len(h) : h[i] = cs[Len(cs)].ver
    BY <1>1, <1>2, <1>4, <2>2, <2>7, <2>9 DEF HandlerInv, Holds
  <2>11. Before(cs, h[i], Way(s)[j].ver)
    BY <2>2, <2>3 DEF Gapped
  <2>12. Len(cs) < n
    BY <2>2, <2>5, <2>6, <2>10, <2>11 DEF Before
  <2>. QED
    BY <2>2, <2>5, <2>12
<1>. QED
  BY <1>3, <1>4

\* While a handler is about to commit an edit the other one has none of the
\* same diary left to store.
LEMMA NoneMine ==
    ASSUME NEW exact \in BOOLEAN, AllLocks(exact), EditInv(exact),
           NEW s \in Sites, txn[s].key \in DiaryKeys,
           pc[s] \in {"fast_stamp", "slow_stamp"}
    PROVE  Mine(Other(s), txn[s].key) = {}
<1>. DEFINE k == txn[s].key
            t == Other(s)
<1>1. SUFFICES ASSUME pc[t] \in {"fast_push", "slow_push"}, txn[t].key = k
               PROVE  FALSE
  BY DEF Mine
<1>2. t \in Sites /\ Other(t) = s /\ t # s /\ k \in Keys
  BY SitesFacts, HomeFacts
<1>3. HandlerInv(s, exact) /\ HandlerInv(t, exact)
  BY <1>2 DEF EditInv, Handlers
<1>4. LockInv(Home(k), k, exact)
  BY <1>2, HomeFacts DEF AllLocks
<1>5. \/ Home(k) = s /\ FastOwns(s, k) /\ SlowOwns(s, k)
      \/ Home(k) = t /\ FastOwns(t, k) /\ SlowOwns(t, k)
  BY <1>1, <1>2, <1>3 DEF HandlerInv, FastOwns, SlowOwns, FastHeld, SlowHeld
<1>. QED
  BY <1>4, <1>5 DEF LockInv

\* An edit commits: it is the next its own site stores, and the last of what
\* the peer waits for.
LEMMA StampOrder ==
    ASSUME NEW exact \in BOOLEAN, TypeOK, AllLocks(exact), EditInv(exact),
           Orders(exact), HomeSlow,
           NEW s \in Sites, NEW next,
           \/ pc[s] = "fast_stamp" /\ next = "fast_push"
           \/ pc[s] = "slow_stamp" /\ next = "slow_push",
           StampVTS(s, next), TypeOK', VersionsUnique', Rising'
    PROVE  Orders(exact)' /\ HomeSlow'
<1>1. PICK q \in Keys, vts \in Version :
         /\ q = txn[s].key /\ vts = NextVTS(s) /\ txn' = [txn EXCEPT ![s].ver = vts]
         /\ committed' = [committed EXCEPT ![q] =
                Append(@, [site |-> s, base |-> txn[s].startTs, ver |-> vts])]
  <2>1. [committedVTS[s] EXCEPT ![s] = @ + 1] \in Version
    <3>1. committedVTS[s] \in [Sites -> Nat]
      BY DEF TypeOK
    <3>. QED
      BY <3>1 DEF Version
  <2>2. txn[s].key \in Keys
    BY DEF TypeOK
  <2>. QED
    BY <2>1, <2>2 DEF StampVTS, NextVTS
<1>2. PICK c \in Commit : c = [site |-> s, base |-> txn[s].startTs, ver |-> vts]
  <2>1. txn[s].startTs \in Version
    BY DEF TypeOK
  <2>. QED
    BY <2>1 DEF Commit
<1>3. /\ UNCHANGED history
      /\ committed'[q] = Append(committed[q], c)
      /\ \A k \in Keys : k # q => committed'[k] = committed[k]
      /\ pc'[s] = next /\ pc'[Other(s)] = pc[Other(s)]
      /\ txn'[s].key = q /\ txn'[s].ver = vts /\ txn'[Other(s)] = txn[Other(s)]
  <2>1. UNCHANGED history /\ pc'[s] = next /\ pc'[Other(s)] = pc[Other(s)]
    BY SitesFacts, PcType DEF StampVTS
  <2>2. /\ committed'[q] = Append(committed[q], c)
        /\ \A k \in Keys : k # q => committed'[k] = committed[k]
    BY <1>1, <1>2, CommittedType
  <2>3. txn'[s].key = q /\ txn'[s].ver = vts /\ txn'[Other(s)] = txn[Other(s)]
    BY <1>1, SitesFacts, TxnType
  <2>. QED
    BY <2>1, <2>2, <2>3, <2>3, SitesFacts
<1>4. PICK m \in Message : m = MadeMsg(s)'
  BY WayStamp
<1>5. Way(Other(s))' = Append(Way(Other(s)), m) /\ Way(s)' = Way(s)
  BY <1>4, WayStamp
<1>6. m.key = q /\ m.ver = vts /\ (next = "slow_push" => m.commit_type = "SLOW_CMT")
  BY <1>3, <1>4 DEF MadeMsg, SlowHeld
<1>7. \A k : Mine(Other(s), k)' = Mine(Other(s), k)
  BY <1>3 DEF Mine
<1>8. \A k : Mine(s, k) = {} /\ Mine(s, k)' = IF k = q THEN {vts} ELSE {}
  BY <1>3 DEF Mine
<1>0. ASSUME q \in DiaryKeys
      PROVE  /\ Unrepeated(Append(committed[q], c))
             /\ \A r \in Sites : \A i \in DOMAIN history[r][q] : history[r][q][i] # c.ver
  <2>1. PICK cs \in Seq(Commit) : cs = committed[q]
    BY DEF TypeOK
  <2>2. /\ DOMAIN cs = 1..Len(cs) /\ Len(cs) \in Nat
        /\ DOMAIN Append(cs, c) = 1..(Len(cs) + 1)
        /\ \A i \in 1..Len(cs) : Append(cs, c)[i] = cs[i]
        /\ Append(cs, c)[Len(cs) + 1] = c
    BY AppendFacts
  <2>3. Unrepeated(Append(cs, c))
    BY <1>3, <2>1 DEF VersionsUnique, Unrepeated
  <2>4. \A i \in 1..Len(cs) : cs[i].ver # c.ver
    BY <2>2, <2>3 DEF Unrepeated
  <2>5. c.ver # Zero
    <3>1. ~ Leq(c.ver, Zero)
      BY <1>0, <1>3, <2>1, <2>2 DEF Rising
    <3>. QED
      BY <3>1 DEF Leq, Zero, Sites
  <2>6. \A r \in Sites : \A i \in DOMAIN history[r][q] : Known(q, history[r][q][i])
    BY <1>0 DEF EditInv, StoredKnown
  <2>. QED
    BY <2>1, <2>2, <2>3, <2>4, <2>5, <2>6 DEF Known
<1>9. ASSUME NEW r \in Sites, NEW k \in DiaryKeys PROVE OrderInv(r, k, exact)'
  <2>1. k \in Keys /\ OrderInv(r, k, exact)
    BY HomeFacts DEF Orders
  <2>2. history[r][k] \in Seq(Version) /\ committed[k] \in Seq(Commit) /\ Way(r) \in Seq(Message)
    <3>1. Way(r) \in Seq(Message)
      BY WayParts
    <3>2. history[r][k] \in Seq(Version) /\ committed[k] \in Seq(Commit)
      BY <2>1 DEF TypeOK
    <3>. QED
      BY <3>1, <3>2
  <2>3. CASE r = s /\ k = q
    <3>1. Items(Way(s), k) = {}
      BY <1>1, <2>3, NothingOnWay
    <3>2. Ordered(history[r][k], committed[k], Way(r), k, {}, exact)
      BY <1>8, <2>1, <2>3 DEF OrderInv
    <3>3. /\ Unrepeated(Append(committed[k], c))
          /\ \A i \in DOMAIN history[r][k] : history[r][k][i] # c.ver
      BY <1>0, <2>3
    <3>4. Ordered(history[r][k], Append(committed[k], c), Way(r), k, {c.ver}, exact)
      BY <2>2, <2>3, <3>1, <3>2, <3>3, CommitMine
    <3>. QED
      BY <1>2, <1>3, <1>5, <1>8, <2>3, <3>4 DEF OrderInv
  <2>4. CASE r = s /\ k # q
    BY <1>3, <1>5, <1>8, <2>1, <2>4 DEF OrderInv
  <2>5. CASE r = Other(s) /\ k = q
    <3>1. Mine(r, k) = {}
      BY <1>1, <2>5, NoneMine
    <3>2. /\ Unrepeated(Append(committed[k], c))
          /\ \A i \in DOMAIN history[r][k] : history[r][k][i] # c.ver
      BY <1>0, <2>5
    <3>3. Ordered(history[r][k], Append(committed[k], c), Append(Way(r), m), k, {}, exact)
      BY <1>2, <1>6, <2>1, <2>2, <2>5, <3>1, <3>2, CommitPeer DEF OrderInv
    <3>. QED
      BY <1>3, <1>5, <1>7, <2>5, <3>1, <3>3 DEF OrderInv
  <2>6. CASE r = Other(s) /\ k # q
    <3>1. Ordered(history[r][k], committed[k], Append(Way(r), m), k, Mine(r, k), exact)
      BY <1>6, <2>1, <2>2, <2>6, SendOther DEF OrderInv
    <3>. QED
      BY <1>3, <1>5, <1>7, <2>1, <2>6, <3>1 DEF OrderInv
  <2>. QED
    BY <2>3, <2>4, <2>5, <2>6, SitesFacts
<1>10. HomeSlow'
  <2>1. PICK p \in Seq(Message) : p = Way(Other(s))
    BY WayParts, SitesFacts
  <2>2. /\ DOMAIN p = 1..Len(p) /\ Len(p) \in Nat
        /\ DOMAIN Append(p, m) = 1..(Len(p) + 1)
        /\ \A i \in 1..Len(p) : Append(p, m)[i] = p[i]
        /\ Append(p, m)[Len(p) + 1] = m
    BY AppendFacts
  <2>3. m.key \in DiaryKeys /\ Home(m.key) = Other(s) => m.commit_type = "SLOW_CMT"
    <3>1. HandlerInv(s, exact)
      BY DEF EditInv, Handlers
    <3>. QED
      BY <1>1, <1>6, <3>1, SitesFacts DEF HandlerInv, FastHeld
  <2>4. \A i \in DOMAIN Append(p, m) :
            Append(p, m)[i].key \in DiaryKeys /\ Home(Append(p, m)[i].key) = Other(s)
                => Append(p, m)[i].commit_type = "SLOW_CMT"
    <3>1. \A i \in DOMAIN p : p[i].key \in DiaryKeys /\ Home(p[i].key) = Other(s)
                                 => p[i].commit_type = "SLOW_CMT"
      BY <2>1, SitesFacts DEF HomeSlow
    <3>. QED
      BY <2>2, <2>3, <3>1
  <2>5. ASSUME NEW r \in Sites
        PROVE  \A i \in DOMAIN Way(r)' :
                  Way(r)'[i].key \in DiaryKeys /\ Home(Way(r)'[i].key) = r
                      => Way(r)'[i].commit_type = "SLOW_CMT"
    BY <1>5, <2>1, <2>4, SitesFacts DEF HomeSlow
  <2>. QED
    BY <2>5 DEF HomeSlow, Home
<1>. QED
  BY <1>9, <1>10 DEF Orders

\* A comment commits: no diary changes.
LEMMA StampComment ==
    ASSUME NEW exact \in BOOLEAN, TypeOK, Orders(exact), HomeSlow, NEW s \in Sites, pc[s] = "fast_stamp",
           txn[s].key \notin DiaryKeys, StampVTS(s, "fast_push"), TypeOK'
    PROVE  Orders(exact)' /\ HomeSlow'
<1>1. /\ UNCHANGED history
      /\ \A k \in DiaryKeys : committed'[k] = committed[k]
      /\ pc'[s] = "fast_push" /\ pc'[Other(s)] = pc[Other(s)]
      /\ txn'[s].key = txn[s].key /\ txn'[Other(s)] = txn[Other(s)]
  <2>1. PICK vts, c : /\ txn' = [txn EXCEPT ![s].ver = vts]
                      /\ committed' = [committed EXCEPT ![txn[s].key] = Append(@, c)]
    BY DEF StampVTS
  <2>2. pc' = [pc EXCEPT ![s] = "fast_push"] /\ UNCHANGED history
    BY DEF StampVTS
  <2>. QED
    <3>1. \A k \in DiaryKeys : committed'[k] = committed[k]
      <4>1. \A k \in DiaryKeys : k \in Keys /\ k # txn[s].key
        BY HomeFacts
      <4>2. txn[s].key \in Keys
        BY DEF TypeOK
      <4>. QED
        BY <2>1, <4>1, <4>2 DEF TypeOK
    <3>2. txn'[s].key = txn[s].key /\ txn'[Other(s)] = txn[Other(s)]
      BY <2>1, SitesFacts DEF TypeOK
    <3>. QED
      BY <2>2, <3>1, <3>2, SitesFacts DEF TypeOK
<1>2. PICK m \in Message : m = MadeMsg(s)'
  BY WayStamp
<1>3. Way(Other(s))' = Append(Way(Other(s)), m) /\ Way(s)' = Way(s)
  BY <1>2, WayStamp
<1>4. m.key \notin DiaryKeys
  BY <1>1, <1>2 DEF MadeMsg
<1>5. \A r \in Sites, k \in DiaryKeys : Mine(r, k)' = Mine(r, k)
  BY <1>1, SitesFacts DEF Mine
<1>6. ASSUME NEW r \in Sites, NEW k \in DiaryKeys PROVE OrderInv(r, k, exact)'
  <2>1. k \in Keys /\ OrderInv(r, k, exact)
    BY HomeFacts DEF Orders
  <2>2. CASE r = s
    BY <1>1, <1>3, <1>5, <2>1, <2>2 DEF OrderInv
  <2>3. CASE r = Other(s)
    <3>1. Way(r) \in Seq(Message)
      BY WayParts
    <3>2. history[r][k] \in Seq(Version) /\ committed[k] \in Seq(Commit)
      BY <2>1 DEF TypeOK
    <3>3. Ordered(history[r][k], committed[k], Append(Way(r), m), k, Mine(r, k), exact)
      BY <1>4, <2>1, <3>1, <3>2, SendOther DEF OrderInv
    <3>. QED
      BY <1>1, <1>3, <1>5, <2>3, <3>3 DEF OrderInv
  <2>. QED
    BY <2>2, <2>3, SitesFacts
<1>7. HomeSlow'
  <2>1. PICK p \in Seq(Message) : p = Way(Other(s))
    BY WayParts, SitesFacts
  <2>2. /\ DOMAIN p = 1..Len(p) /\ Len(p) \in Nat
        /\ DOMAIN Append(p, m) = 1..(Len(p) + 1)
        /\ \A i \in 1..Len(p) : Append(p, m)[i] = p[i]
        /\ Append(p, m)[Len(p) + 1] = m
    BY AppendFacts
  <2>3. \A i \in DOMAIN Append(p, m) :
            Append(p, m)[i].key \in DiaryKeys /\ Home(Append(p, m)[i].key) = Other(s)
                => Append(p, m)[i].commit_type = "SLOW_CMT"
    <3>1. \A i \in DOMAIN p : p[i].key \in DiaryKeys /\ Home(p[i].key) = Other(s)
                                 => p[i].commit_type = "SLOW_CMT"
      BY <2>1, SitesFacts DEF HomeSlow
    <3>. QED
      BY <1>4, <2>2, <3>1
  <2>4. ASSUME NEW r \in Sites
        PROVE  \A i \in DOMAIN Way(r)' :
                  Way(r)'[i].key \in DiaryKeys /\ Home(Way(r)'[i].key) = r
                      => Way(r)'[i].commit_type = "SLOW_CMT"
    BY <1>3, <2>1, <2>3, SitesFacts DEF HomeSlow
  <2>. QED
    BY <2>4 DEF HomeSlow, Home
<1>. QED
  BY <1>6, <1>7 DEF Orders

\* A step of the replicater that stores nothing.
LEMMA LoopOrder ==
    ASSUME NEW exact \in BOOLEAN, Orders(exact), HomeSlow, UNCHANGED <<history, committed, pc, txn>>,
           \A r \in Sites : Way(r)' = Way(r)
    PROVE  Orders(exact)' /\ HomeSlow'
BY OrderFrame DEF Mine

LEMMA InHandSame ==
    ASSUME NEW s \in Sites, UNCHANGED <<pc, txn, rep_msg>>,
           \A r \in Sites : Transit(r)' = Transit(r),
           \A r \in Sites : rpc'[r] = "push" <=> rpc[r] = "push"
    PROVE  \A r \in Sites : Way(r)' = Way(r)
BY WaySame DEF InHand, Made, MadeMsg

LEMMA OrderNext ==
    ASSUME NEW exact \in BOOLEAN, TypeOK, AllLocks(exact), VersionsUnique, EditInv(exact),
           Orders(exact), HomeSlow, [Next]_vars,
           TypeOK', VersionsUnique', Rising'
    PROVE  Orders(exact)' /\ HomeSlow'
<1>1. CASE UNCHANGED vars
  BY <1>1, TransitSame, InHandSame, LoopOrder DEF vars, Sites
<1>2. ASSUME NEW s \in Sites, Request(s) PROVE Orders(exact)' /\ HomeSlow'
  <2>1. PICK d \in Diaries : \/ handle_edit_diary(s, d)
                            \/ handle_add_comment(s, d)
                            \/ handle_get_diary_content(s, d)
    BY <1>2 DEF Request
  <2>2. ASSUME NEW r, NEW k, NEW startTs, NEW next, pc[s] = "idle", next \notin Stamped,
               acquire_lock(s, r, k, startTs, next)
        PROVE  Orders(exact)' /\ HomeSlow'
    <3>1. /\ UNCHANGED <<history, committed, net, msg_list, rpc, rep_msg>>
          /\ \/ /\ pc' = [pc EXCEPT ![s] = next]
                /\ txn' = [txn EXCEPT ![s] = [key |-> k, startTs |-> startTs, ver |-> startTs]]
             \/ UNCHANGED <<pc, txn>>
      BY <2>2 DEF acquire_lock
    <3>2. /\ pc'[Other(s)] = pc[Other(s)] /\ txn'[Other(s)] = txn[Other(s)]
          /\ pc[s] \notin Stamped /\ pc'[s] \notin Stamped
      BY <2>2, <3>1, SitesFacts, PcType, TxnType DEF Stamped
    <3>. QED
      BY <3>1, <3>2, HandlerOrder
  <2>3. CASE handle_edit_diary(s, d) \/ handle_add_comment(s, d)
    BY <2>2, <2>3
    DEF handle_edit_diary, handle_add_comment, FastAcquire, SlowAcquire, Stamped
  <2>4. CASE handle_get_diary_content(s, d)
    BY <2>4, HandlerOrder DEF handle_get_diary_content
  <2>. QED
    BY <2>1, <2>3, <2>4
<1>3. ASSUME NEW s \in Sites, FastStep(s) \/ SlowStep(s) PROVE Orders(exact)' /\ HomeSlow'
  <2>1. CASE FastCheck(s) \/ SlowCheck(s)
    <3>1. /\ UNCHANGED <<history, committed, net, msg_list, rpc, rep_msg, txn>>
          /\ pc'[Other(s)] = pc[Other(s)]
          /\ pc[s] \notin Stamped /\ pc'[s] \notin Stamped
      BY <2>1, SitesFacts, PcType DEF FastCheck, SlowCheck, CheckHistory, Stamped
    <3>. QED
      BY <3>1, HandlerOrder
  <2>2. CASE FastAbort(s) \/ FastDone(s) \/ SlowAbort(s)
    <3>1. /\ UNCHANGED <<history, committed, net, msg_list, rpc, rep_msg, txn>>
          /\ pc'[Other(s)] = pc[Other(s)]
          /\ pc[s] \notin Stamped /\ pc'[s] \notin Stamped
      BY <2>2, SitesFacts, PcType DEF FastAbort, FastDone, SlowAbort, release_lock, Stamped
    <3>. QED
      BY <3>1, HandlerOrder
  <2>3. CASE FastStamp(s) \/ SlowStamp(s)
    <3>1. HandlerInv(s, exact)
      BY DEF EditInv, Handlers
    <3>2. CASE txn[s].key \in DiaryKeys
      BY <2>3, <3>2, StampOrder DEF FastStamp, SlowStamp
    <3>3. CASE txn[s].key \notin DiaryKeys
      BY <2>3, <3>1, <3>3, StampComment DEF FastStamp, SlowStamp, HandlerInv, SlowHeld
    <3>. QED
      BY <3>2, <3>3
  <2>4. CASE FastPush(s) \/ SlowPush(s)
    BY <2>4, PushOrder
  <2>5. CASE FastQueue(s) \/ SlowQueue(s)
    <3>1. /\ UNCHANGED <<history, committed, txn>>
          /\ pc'[Other(s)] = pc[Other(s)]
          /\ pc[s] \in {"fast_queue", "slow_queue"} /\ pc'[s] \in {"fast_done", "idle"}
      BY <2>5, SitesFacts DEF TypeOK, FastQueue, SlowQueue, QueueMsg
    <3>2. \A r \in Sites, k \in DiaryKeys : Mine(r, k)' = Mine(r, k)
      BY <3>1, MineSame, SitesFacts
    <3>. QED
      BY <2>5, <3>1, <3>2, WayQueue, OrderFrame
  <2>. QED
    BY <1>3, <2>1, <2>2, <2>3, <2>4, <2>5 DEF FastStep, SlowStep
<1>4. ASSUME NEW s \in Sites, RepStep(s) PROVE Orders(exact)' /\ HomeSlow'
  <2>1. CASE RepRecv(s)
    BY <2>1, WayRecv, LoopOrder DEF RepRecv
  <2>2. CASE RepPush(s)
    BY <2>2, ApplyOrder
  <2>3. CASE RepUnlock(s) \/ RepCount(s)
    <3>1. /\ UNCHANGED <<history, committed, pc, txn, rep_msg, net, msg_list>>
          /\ rpc[s] \in {"unlock", "count"} /\ rpc'[s] \in {"count", "drain"}
          /\ rpc'[Other(s)] = rpc[Other(s)]
      BY <2>3, SitesFacts, RpcType DEF RepUnlock, RepCount
    <3>2. \A r \in Sites : Way(r)' = Way(r)
      BY <3>1, TransitSame, InHandSame, SitesFacts
    <3>. QED
      BY <3>1, <3>2, LoopOrder
  <2>4. CASE RepDrain(s)
    <3>1. /\ UNCHANGED <<history, committed, pc, txn, rep_msg>>
          /\ rpc[s] \in {"poll", "drain"} /\ rpc'[s] = "poll"
          /\ rpc'[Other(s)] = rpc[Other(s)]
      BY <2>4, SitesFacts DEF TypeOK, RepDrain
    <3>2. \A r \in Sites : Way(r)' = Way(r)
      BY <2>4, <3>1, TransitDrain, InHandSame, SitesFacts
    <3>. QED
      BY <3>1, <3>2, LoopOrder
  <2>. QED
    BY <1>4, <2>1, <2>2, <2>3, <2>4 DEF RepStep
<1>. QED
  BY <1>1, <1>2, <1>3, <1>4 DEF Next

LEMMA OrderInit == Init => Orders(TRUE) /\ HomeSlow
<1>. SUFFICES ASSUME Init PROVE Orders(TRUE) /\ HomeSlow
  OBVIOUS
<1>1. ASSUME NEW s \in Sites PROVE Way(s) = <<>>
  <2>1. <<>> \o <<>> = <<>>
    BY ConcatEmptySeq, EmptySeq
  <2>2. Transit(s) = <<>> /\ InHand(s) = <<>> /\ Made(Other(s)) = <<>>
    BY <2>1, SitesFacts DEF Init, InitServers, Transit, InHand, Made, Stamped
  <2>. QED
    BY <2>1, <2>2 DEF Way
<1>2. HomeSlow
  BY <1>1 DEF HomeSlow
<1>3. ASSUME NEW s \in Sites, NEW k \in DiaryKeys PROVE OrderInv(s, k, TRUE)
  <2>1. /\ history[s][k] = <<Zero>> /\ committed[k] = <<>> /\ Mine(s, k) = {}
    BY HomeFacts DEF Init, InitServers, Seed, DiaryKeys, Mine
  <2>2. Len(<<Zero>>) = 1 /\ <<Zero>>[1] = Zero /\ Len(<<>>) = 0
    BY EmptySeq
  <2>3. Items(Way(s), k) = {}
    BY <1>1 DEF Items
  <2>. QED
    <3>1. InOrder(history[s][k], committed[k], Way(s), k, Mine(s, k))
      BY <2>1, <2>2, <2>3 DEF InOrder
    <3>2. DOMAIN committed[k] = {}
      BY <2>1
    <3>3. Gapped(history[s][k], committed[k], Way(s), k, Mine(s, k))
      BY <2>1, <2>3, <3>2 DEF Gapped, Before
    <3>. QED
      BY <3>1, <3>3 DEF OrderInv, Ordered
<1>. QED
  BY <1>2, <1>3 DEF Orders

-----------------------------------------------------------------------------
\* Every fact the steps of the protocol keep together.
DiaryInv ==
    /\ TypeOK
    /\ AllLocks(TRUE) /\ UnlockSlow
    /\ SeqnoConservation /\ ClockBound /\ VersionsUnique
    /\ EditInv(TRUE)
    /\ Orders(TRUE) /\ HomeSlow

LEMMA DiaryInvInit == Init => DiaryInv
<1>1. Init => ClockBound /\ VersionsUnique
  BY DEF Init, InitServers, ClockBound, VersionsUnique
<1>. QED
  BY <1>1, TypeInit, FreshLocks, SeqnoInit, EditInit, OrderInit DEF Init, DiaryInv

LEMMA DiaryInvNext == DiaryInv /\ [Next]_vars => DiaryInv'
<1>. SUFFICES ASSUME DiaryInv, [Next]_vars PROVE DiaryInv'
  OBVIOUS
<1>. USE DEF DiaryInv
<1>1. TypeOK' /\ AllLocks(TRUE)' /\ UnlockSlow' /\ SeqnoConservation'
  BY TypeNext, LocksNext, UnlockSlowNext, SeqnoNext
<1>2. ClockBound' /\ VersionsUnique'
  BY VectorBelow, UniqueNext
<1>3. EditInv(TRUE)'
  BY EditNext
<1>4. Orders(TRUE)' /\ HomeSlow'
  BY <1>1, <1>2, <1>3, OrderNext DEF EditInv
<1>. QED
  BY <1>1, <1>2, <1>3, <1>4

LEMMA OrderPrefix ==
    ASSUME TypeOK, Orders(TRUE)
    PROVE  SameOrder
<1>. SUFFICES ASSUME NEW k \in DiaryKeys, NEW s \in Sites
              PROVE  IsPrefix(history[s][k], Seed(k) \o Vers(committed[k]))
  BY DEF SameOrder
<1>1. PICK h \in Seq(Version), cs \in Seq(Commit) : h = history[s][k] /\ cs = committed[k]
  BY HomeFacts DEF TypeOK
<1>2. /\ Len(h) \in 1..(Len(cs) + 1) /\ h[1] = Zero
      /\ \A i \in 2..Len(h) : h[i] = cs[i - 1].ver
  <2>1. OrderInv(s, k, TRUE)
    BY DEF Orders
  <2>2. InOrder(h, cs, Way(s), k, Mine(s, k))
    BY <1>1, <2>1 DEF OrderInv, Ordered
  <2>. QED
    BY <2>2 DEF InOrder
<1>3. Len(cs) \in Nat /\ DOMAIN cs = 1..Len(cs) /\ \A i \in 1..Len(cs) : cs[i].ver \in Version
  <2>1. \A i \in 1..Len(cs) : cs[i] \in Commit
    BY ElementOfSeq
  <2>. QED
    BY <2>1, LenProperties DEF Commit
<1>4. PICK vs \in Seq(Version) :
          vs = Vers(cs) /\ Len(vs) = Len(cs) /\ \A i \in 1..Len(cs) : vs[i] = cs[i].ver
  <2>1. Vers(cs) \in [1..Len(cs) -> Version]
    BY <1>3 DEF Vers
  <2>2. Vers(cs) \in Seq(Version)
    BY <1>3, <2>1, SeqDef
  <2>3. DOMAIN Vers(cs) = 1..Len(Vers(cs)) /\ Len(Vers(cs)) \in Nat
    BY <2>2, LenProperties
  <2>4. Len(Vers(cs)) = Len(cs)
    BY <1>3, <2>1, <2>3
  <2>. QED
    BY <1>3, <2>2, <2>4 DEF Vers
<1>5. PICK one \in Seq(Version) : one = <<Zero>> /\ Len(one) = 1 /\ one[1] = Zero
  <2>1. Zero \in Version
    BY DEF Zero, Version
  <2>. QED
    BY <2>1, OneSeq
<1>6. Seed(k) = one
  BY <1>5 DEF Seed, DiaryKeys
<1>7. /\ one \o vs \in Seq(Version)
      /\ Len(one \o vs) = Len(one) + Len(vs)
      /\ \A i \in 1..Len(one) + Len(vs) :
             (one \o vs)[i] = IF i <= Len(one) THEN one[i] ELSE vs[i - Len(one)]
  BY ConcatProperties
<1>8. Len(h) \in 1..Len(one \o vs) /\ \A i \in 1..Len(h) : h[i] = (one \o vs)[i]
  BY <1>2, <1>3, <1>4, <1>5, <1>7
<1>9. SubSeq(h, 1, Len(h)) = SubSeq(one \o vs, 1, Len(h))
  <2>1. PICK n \in Nat : n = Len(h)
    BY <1>2
  <2>2. PICK x \in Seq(Version) : x = one \o vs
    BY <1>7
  <2>3. \A i \in 1..n : h[i] \in Version /\ x[i] \in Version
    BY <1>8, <2>1, <2>2, ElementOfSeq
  <2>4. /\ SubSeq(h, 1, n) \in Seq(Version)
        /\ Len(SubSeq(h, 1, n)) = IF 1 <= n THEN n - 1 + 1 ELSE 0
        /\ \A i \in 1..n - 1 + 1 : SubSeq(h, 1, n)[i] = h[1 + i - 1]
    BY <2>3, SubSeqProperties
  <2>5. /\ SubSeq(x, 1, n) \in Seq(Version)
        /\ Len(SubSeq(x, 1, n)) = IF 1 <= n THEN n - 1 + 1 ELSE 0
        /\ \A i \in 1..n - 1 + 1 : SubSeq(x, 1, n)[i] = x[1 + i - 1]
    BY <2>3, SubSeqProperties
  <2>6. /\ Len(SubSeq(h, 1, n)) = Len(SubSeq(x, 1, n))
        /\ \A i \in 1..Len(SubSeq(h, 1, n)) : SubSeq(h, 1, n)[i] = SubSeq(x, 1, n)[i]
    BY <1>8, <2>1, <2>2, <2>4, <2>5
  <2>7. SubSeq(h, 1, n) = SubSeq(x, 1, n)
    BY <2>4, <2>5, <2>6, SeqEqual
  <2>. QED
    BY <2>1, <2>2, <2>7
<1>10. IsPrefix(h, one \o vs)
  BY <1>8, <1>9 DEF IsPrefix
<1>. QED
  BY <1>1, <1>4, <1>6, <1>10

\* Both sites store the edits of a diary in the order they were committed in,
\* whichever way each edit takes to each site and however long it takes.
THEOREM SameOrderCorrect == Spec => []SameOrder
<1>1. DiaryInv => SameOrder
  BY OrderPrefix DEF DiaryInv
<1>. QED
  BY <1>1, DiaryInvInit, DiaryInvNext, PTL DEF Spec

-----------------------------------------------------------------------------
\* The handler of a site starts no commit its bound does not allow.
Numbered ==
    \A s \in Sites :
        /\ committedVTS[s][s] <= MaxSeqno
        /\ pc[s] \in {"fast_check", "fast_stamp", "slow_check", "slow_stamp"} =>
              committedVTS[s][s] < MaxSeqno

-----------------------------------------------------------------------------
LEMMA NumberedSame ==
    ASSUME Numbered, NEW s \in Sites,
           \A t \in Sites : committedVTS'[t][t] = committedVTS[t][t],
           pc'[Other(s)] = pc[Other(s)],
           \/ pc'[s] \notin {"fast_check", "fast_stamp", "slow_check", "slow_stamp"}
           \/ pc[s] \in {"fast_check", "fast_stamp", "slow_check", "slow_stamp"}
           \/ committedVTS[s][s] < MaxSeqno
    PROVE  Numbered'
BY SitesFacts DEF Numbered

LEMMA NumberedStamp ==
    ASSUME TypeOK, Numbered, NEW s \in Sites, NEW next \in {"fast_push", "slow_push"},
           pc[s] \in {"fast_stamp", "slow_stamp"}, StampVTS(s, next)
    PROVE  Numbered'
<1>1. /\ committedVTS'[s][s] = committedVTS[s][s] + 1 /\ committedVTS[s][s] \in Nat
      /\ committedVTS'[Other(s)] = committedVTS[Other(s)]
      /\ pc'[s] = next /\ pc'[Other(s)] = pc[Other(s)]
  BY SitesFacts DEF TypeOK, StampVTS, NextVTS
<1>2. committedVTS[s][s] < MaxSeqno
  BY DEF Numbered
<1>3. committedVTS'[s][s] <= MaxSeqno
  BY <1>1, <1>2, BoundsAssumption
<1>. QED
  BY <1>1, <1>3, SitesFacts DEF Numbered

LEMMA NumberedNext ==
    ASSUME TypeOK, Numbered, [Next]_vars
    PROVE  Numbered'
<1>1. CASE UNCHANGED vars
  BY <1>1 DEF vars, Numbered
<1>2. ASSUME NEW s \in Sites, Request(s) PROVE Numbered'
  <2>1. PICK d \in Diaries : \/ handle_edit_diary(s, d)
                            \/ handle_add_comment(s, d)
                            \/ handle_get_diary_content(s, d)
    BY <1>2 DEF Request
  <2>2. ASSUME NEW r, NEW k, NEW startTs, NEW next, committedVTS[s][s] < MaxSeqno,
               acquire_lock(s, r, k, startTs, next)
        PROVE  Numbered'
    <3>1. UNCHANGED committedVTS /\ pc'[Other(s)] = pc[Other(s)]
      BY <2>2, SitesFacts, PcType DEF acquire_lock
    <3>. QED
      BY <2>2, <3>1, NumberedSame
  <2>3. CASE handle_edit_diary(s, d) \/ handle_add_comment(s, d)
    BY <2>2, <2>3 DEF handle_edit_diary, handle_add_comment, FastAcquire, SlowAcquire
  <2>4. CASE handle_get_diary_content(s, d)
    BY <2>4 DEF handle_get_diary_content, Numbered
  <2>. QED
    BY <2>1, <2>3, <2>4
<1>3. ASSUME NEW s \in Sites, FastStep(s) \/ SlowStep(s) PROVE Numbered'
  <2>1. CASE FastStamp(s) \/ SlowStamp(s)
    BY <2>1, NumberedStamp DEF FastStamp, SlowStamp
  <2>2. CASE \/ FastCheck(s) \/ FastAbort(s) \/ FastPush(s) \/ FastQueue(s) \/ FastDone(s)
             \/ SlowCheck(s) \/ SlowAbort(s) \/ SlowPush(s) \/ SlowQueue(s)
    <3>1. UNCHANGED committedVTS /\ pc'[Other(s)] = pc[Other(s)]
      BY <2>2, SitesFacts, PcType
      DEF FastCheck, FastAbort, FastPush, FastQueue, FastDone,
          SlowCheck, SlowAbort, SlowPush, SlowQueue,
          CheckHistory, release_lock, Push, QueueMsg
    <3>2. \/ pc'[s] \in {"idle", "fast_queue", "fast_done", "slow_queue"}
          \/ pc[s] \in {"fast_check", "slow_check"}
      BY <2>2, PcType
      DEF FastCheck, FastAbort, FastPush, FastQueue, FastDone,
          SlowCheck, SlowAbort, SlowPush, SlowQueue,
          CheckHistory, release_lock, Push, QueueMsg
    <3>. QED
      BY <3>1, <3>2, NumberedSame
  <2>. QED
    BY <1>3, <2>1, <2>2 DEF FastStep, SlowStep
<1>4. ASSUME NEW s \in Sites, RepStep(s) PROVE Numbered'
  <2>1. UNCHANGED pc
    BY <1>4 DEF RepStep, RepRecv, RepPush, RepUnlock, RepCount, RepDrain
  <2>2. \A t \in Sites : committedVTS'[t][t] = committedVTS[t][t]
    <3>1. CASE RepCount(s)
      <4>1. committedVTS'[s][s] = committedVTS[s][s]
        BY <3>1, SitesFacts DEF TypeOK, RepCount, PeerVTS
      <4>2. committedVTS'[Other(s)] = committedVTS[Other(s)]
        BY <3>1, SitesFacts DEF TypeOK, RepCount
      <4>. QED
        BY <4>1, <4>2, SitesFacts
    <3>2. CASE RepRecv(s) \/ RepPush(s) \/ RepUnlock(s) \/ RepDrain(s)
      BY <3>2 DEF RepRecv, RepPush, RepUnlock, RepDrain
    <3>. QED
      BY <1>4, <3>1, <3>2 DEF RepStep
  <2>. QED
    BY <2>1, <2>2 DEF Numbered
<1>. QED
  BY <1>1, <1>2, <1>3, <1>4 DEF Next

-----------------------------------------------------------------------------
LEMMA RegisterSame ==
    ASSUME \A k \in DiaryKeys : committed'[k] = committed[k],
           \A s \in Sites, k \in DiaryKeys : history'[s][k] = history[s][k]
    PROVE  UNCHANGED <<EditLog, Stored>>
BY HomeFacts DEF EditLog, Stored, DiaryKey

\* The next version of a diary reaches the history of a site.
LEMMA RegisterStore ==
    ASSUME DiaryInv, DiaryInv', UNCHANGED committed,
           NEW s \in Sites, NEW q \in Keys, NEW w \in Version,
           history' = [history EXCEPT ![s][q] = Append(@, w)]
    PROVE  [Register!NextRegister]_<<EditLog, Stored>>
<1>1. CASE q \notin DiaryKeys
  <2>1. \A r \in Sites, k \in DiaryKeys : history'[r][k] = history[r][k]
    BY <1>1, HomeFacts DEF DiaryInv, TypeOK
  <2>. QED
    BY <2>1, RegisterSame
<1>2. CASE q \in DiaryKeys
  <2>1. PICK d \in Diaries : q = DiaryKey(d)
    BY <1>2 DEF DiaryKeys, DiaryKey, Keys
  <2>2. \A e \in Diaries : DiaryKey(e) \in Keys /\ (DiaryKey(e) = q => e = d)
    BY <2>1 DEF DiaryKey, Keys
  <2>3. PICK h \in Seq(Version), cs \in Seq(Commit) : h = history[s][q] /\ cs = committed[q]
    BY DEF DiaryInv, TypeOK
  <2>4. /\ Len(h) \in Nat /\ Len(cs) \in Nat /\ DOMAIN cs = 1..Len(cs)
        /\ Len(Append(h, w)) = Len(h) + 1 /\ Append(h, w)[Len(h) + 1] = w
    BY AppendFacts, LenProperties
  <2>5. history'[s][q] = Append(h, w)
    BY <2>3 DEF DiaryInv, TypeOK
  <2>6. /\ Len(h) \in 1..(Len(cs) + 1)
        /\ Len(h) + 1 \in 1..(Len(cs) + 1)
        /\ \A i \in 2..(Len(h) + 1) : Append(h, w)[i] = cs[i - 1].ver
    <3>1. OrderInv(s, q, TRUE) /\ OrderInv(s, q, TRUE)'
      BY <1>2 DEF DiaryInv, Orders
    <3>. QED
      BY <2>3, <2>4, <2>5, <3>1 DEF OrderInv, Ordered, InOrder
  <2>7. Len(h) \in 1..Len(cs) /\ w = cs[Len(h)].ver
    BY <2>4, <2>6
  <2>8. Stored[s][d] = h /\ EditLog[d][Len(h)].ver = w /\ Len(EditLog[d]) = Len(cs)
    <3>1. EditLog[d] = [i \in 1..Len(cs) |-> [base |-> cs[i].base, ver |-> cs[i].ver]]
      BY <2>1, <2>3, <2>4 DEF EditLog
    <3>2. Len(EditLog[d]) = Len(cs)
      BY <2>4, <3>1
    <3>. QED
      BY <2>1, <2>3, <2>7, <3>1, <3>2 DEF Stored
  <2>9. Stored' = [Stored EXCEPT ![s][d] = Append(h, w)]
    <3>1. \A r \in Sites, e \in Diaries :
             history'[r][DiaryKey(e)] =
                 IF r = s /\ e = d THEN Append(h, w) ELSE history[r][DiaryKey(e)]
      <4>1. history \in [Sites -> [Keys -> Seq(Version)]]
        BY HistoryType DEF DiaryInv
      <4>2. \A r \in Sites, k \in Keys :
               history'[r][k] = IF r = s /\ k = q THEN Append(h, w) ELSE history[r][k]
        BY <2>3, <4>1
      <4>3. \A e \in Diaries : DiaryKey(e) = q <=> e = d
        BY <2>1, <2>2
      <4>. QED
        BY <2>2, <4>2, <4>3
    <3>2. \A r \in Sites : Stored'[r] = [e \in Diaries |-> history'[r][DiaryKey(e)]]
      BY DEF Stored, DiaryKey
    <3>3. \A r \in Sites : Stored[r] = [e \in Diaries |-> history[r][DiaryKey(e)]]
      BY DEF Stored
    <3>4. ASSUME NEW r \in Sites, r # s PROVE Stored'[r] = Stored[r]
      <4>1. \A e \in Diaries : history'[r][DiaryKey(e)] = history[r][DiaryKey(e)]
        BY <3>1, <3>4
      <4>2. Stored'[r] = [e \in Diaries |-> history'[r][DiaryKey(e)]]
        BY <3>2
      <4>3. Stored[r] = [e \in Diaries |-> history[r][DiaryKey(e)]]
        BY <3>3
      <4>. QED
        BY <4>1, <4>2, <4>3
    <3>5. Stored'[s] = [Stored[s] EXCEPT ![d] = Append(h, w)]
      <4>1. \A e \in Diaries :
               history'[s][DiaryKey(e)] = IF e = d THEN Append(h, w) ELSE history[s][DiaryKey(e)]
        BY <3>1
      <4>2. Stored'[s] = [e \in Diaries |-> history'[s][DiaryKey(e)]]
        BY <3>2
      <4>3. Stored[s] = [e \in Diaries |-> history[s][DiaryKey(e)]]
        BY <3>3
      <4>. QED
        <5>1. Stored'[s] = [e \in Diaries |-> IF e = d THEN Append(h, w) ELSE Stored[s][e]]
          BY <4>1, <4>2, <4>3
        <5>2. DOMAIN Stored[s] = Diaries
          BY <4>3
        <5>. QED
          BY <5>1, <5>2
    <3>6. DOMAIN Stored = Sites /\ Stored' = [r \in Sites |-> Stored'[r]]
      BY DEF Stored, DiaryKey
    <3>. QED
      BY <3>4, <3>5, <3>6 DEF Stored
  <2>10. EditLog' = EditLog
    BY DEF EditLog, DiaryKey
  <2>11. Register!Store(s, d)
    BY <2>4, <2>7, <2>8, <2>9, <2>10 DEF Register!Store
  <2>. QED
    BY <2>11 DEF Register!NextRegister, Register!Sites, Sites
<1>. QED
  BY <1>1, <1>2

\* The timestamp of a commit is one the bound allows.
LEMMA StampInBounds ==
    ASSUME TypeOK, SeqnoConservation, Numbered, NEW s \in Sites,
           pc[s] \in {"fast_stamp", "slow_stamp"}
    PROVE  NextVTS(s) \in [Sites -> 0..MaxSeqno]
<1>1. committedVTS[s] \in [Sites -> Nat] /\ committedVTS[s][s] < MaxSeqno
  BY DEF TypeOK, Numbered
<1>2. ASSUME NEW t \in Sites PROVE committedVTS[s][t] \in 0..MaxSeqno
  <2>1. committedVTS[s][t] <= committedVTS[t][t] /\ committedVTS[t][t] <= MaxSeqno
    BY VectorBelow DEF Behind, Numbered
  <2>2. committedVTS[s][t] \in Nat /\ committedVTS[t][t] \in Nat
    BY DEF TypeOK
  <2>. QED
    BY <2>1, <2>2, BoundsAssumption
<1>3. committedVTS[s][s] + 1 \in 0..MaxSeqno
  BY <1>1, <1>2, BoundsAssumption
<1>. QED
  BY <1>1, <1>2, <1>3 DEF NextVTS

\* The stamp of an edit extends the log of its diary.
LEMMA RegisterEdit ==
    ASSUME DiaryInv, DiaryInv', Numbered, NEW s \in Sites, NEW next,
           pc[s] \in {"fast_stamp", "slow_stamp"}, StampVTS(s, next)
    PROVE  [Register!NextRegister]_<<EditLog, Stored>>
<1>1. PICK q \in Keys, vts \in [Sites -> 0..MaxSeqno] : q = txn[s].key /\ vts = NextVTS(s)
  <2>1. txn[s].key \in Keys
    BY DEF DiaryInv, TypeOK
  <2>. QED
    BY <2>1, StampInBounds DEF DiaryInv
<1>2. PICK c \in Commit : c = [site |-> s, base |-> txn[s].startTs, ver |-> vts]
  <2>1. txn[s].startTs \in Version
    BY DEF DiaryInv, TypeOK
  <2>2. vts \in Version
    <3>1. \A n \in 0..MaxSeqno : n \in Int
      BY BoundsAssumption
    <3>2. \A t \in Sites : vts[t] \in Int
      BY <3>1
    <3>. QED
      BY <3>2 DEF Version
  <2>. QED
    BY <2>1, <2>2 DEF Commit
<1>3. /\ committed' = [committed EXCEPT ![q] = Append(@, c)]
      /\ UNCHANGED history
  BY <1>1, <1>2 DEF StampVTS
<1>4. CASE q \notin DiaryKeys
  <2>1. \A k \in DiaryKeys : committed'[k] = committed[k]
    BY <1>3, <1>4, HomeFacts DEF DiaryInv, TypeOK
  <2>. QED
    BY <1>3, <2>1, RegisterSame
<1>5. CASE q \in DiaryKeys
  <2>1. PICK d \in Diaries : q = DiaryKey(d)
    BY <1>5 DEF DiaryKeys, DiaryKey, Keys
  <2>2. \A e \in Diaries : DiaryKey(e) \in Keys /\ (DiaryKey(e) = q => e = d)
    BY <2>1 DEF DiaryKey, Keys
  <2>3. PICK cs \in Seq(Commit) : cs = committed[q]
    BY DEF DiaryInv, TypeOK
  <2>4. /\ DOMAIN cs = 1..Len(cs) /\ Len(cs) \in Nat
        /\ Len(Append(cs, c)) = Len(cs) + 1
        /\ DOMAIN Append(cs, c) = 1..(Len(cs) + 1)
        /\ \A i \in 1..Len(cs) : Append(cs, c)[i] = cs[i]
        /\ Append(cs, c)[Len(cs) + 1] = c
    BY AppendFacts
  <2>5. /\ committed'[q] = Append(cs, c)
        /\ \A k \in Keys : k # q => committed'[k] = committed[k]
    BY <1>3, <2>3 DEF DiaryInv, TypeOK
  <2>6. c.ver = vts /\ Leq(vts, vts)
    <3>1. \A t \in Sites : vts[t] \in Nat
      BY BoundsAssumption
    <3>. QED
      BY <1>2, <3>1 DEF Leq
  <2>7. /\ vts # Zero
        /\ \A i \in 1..Len(cs) : cs[i].ver # vts
        /\ c.base = IF cs = <<>> THEN Zero ELSE cs[Len(cs)].ver
    <3>1. /\ ~ Leq(vts, Zero)
          /\ \A i \in 1..Len(cs) : ~ Leq(vts, cs[i].ver)
      <4>1. Rising'
        BY DEF DiaryInv, EditInv
      <4>2. /\ ~ Leq(committed'[q][Len(cs) + 1].ver, Zero)
            /\ \A i \in DOMAIN committed'[q] : i < Len(cs) + 1 =>
                   ~ Leq(committed'[q][Len(cs) + 1].ver, committed'[q][i].ver)
        BY <1>5, <2>4, <2>5, <4>1 DEF Rising
      <4>3. committed'[q][Len(cs) + 1] = c /\ DOMAIN committed'[q] = 1..(Len(cs) + 1)
        BY <2>4, <2>5
      <4>4. \A i \in 1..Len(cs) :
               i \in DOMAIN committed'[q] /\ i < Len(cs) + 1 /\ committed'[q][i] = cs[i]
        BY <2>4, <2>5
      <4>. QED
        BY <2>6, <4>2, <4>3, <4>4
    <3>2. c.base = IF Len(cs) + 1 = 1 THEN Zero ELSE cs[Len(cs)].ver
      <4>1. NoLostUpdate'
        BY DEF DiaryInv, EditInv, Chained, NoLostUpdate
      <4>2. committed'[q][Len(cs) + 1].base =
               IF Len(cs) + 1 = 1 THEN Zero ELSE committed'[q][Len(cs) + 1 - 1].ver
        <5>1. \A i \in DOMAIN committed'[q] :
                 committed'[q][i].base = IF i = 1 THEN Zero ELSE committed'[q][i - 1].ver
          BY <1>5, <4>1 DEF NoLostUpdate
        <5>2. Len(cs) + 1 \in DOMAIN committed'[q]
          BY <2>4, <2>5
        <5>. QED
          BY <5>1, <5>2
      <4>3. CASE Len(cs) = 0
        BY <2>4, <2>5, <4>2, <4>3
      <4>4. CASE Len(cs) # 0
        <5>1. Len(cs) + 1 - 1 = Len(cs) /\ Len(cs) \in 1..Len(cs) /\ Len(cs) + 1 # 1
          BY <2>4, <4>4
        <5>. QED
          BY <2>4, <2>5, <4>2, <5>1
      <4>. QED
        BY <4>3, <4>4
    <3>3. cs = <<>> <=> Len(cs) = 0
      BY EmptySeq
    <3>. QED
      BY <2>4, <2>6, <3>1, <3>2, <3>3
  <2>8. EditLog[d] = [i \in 1..Len(cs) |-> [base |-> cs[i].base, ver |-> cs[i].ver]]
    BY <2>1, <2>3, <2>4 DEF EditLog
  <2>9. /\ Len(EditLog[d]) = Len(cs) /\ DOMAIN EditLog[d] = 1..Len(cs)
        /\ EditLog[d] \in Seq([base : Version, ver : Version])
        /\ \A i \in 1..Len(cs) : EditLog[d][i].ver = cs[i].ver
    <3>1. \A i \in 1..Len(cs) : cs[i].base \in Version /\ cs[i].ver \in Version
      <4>1. \A i \in 1..Len(cs) : cs[i] \in Commit
        BY <2>4, ElementOfSeq
      <4>. QED
        BY <4>1 DEF Commit
    <3>2. Len(EditLog[d]) = Len(cs) /\ DOMAIN EditLog[d] = 1..Len(cs)
      BY <2>4, <2>8
    <3>3. EditLog[d] \in Seq([base : Version, ver : Version])
      BY <2>4, <2>8, <3>1, IsASeq
    <3>4. \A i \in 1..Len(cs) : EditLog[d][i].ver = cs[i].ver
      BY <2>8
    <3>. QED
      BY <3>2, <3>3, <3>4
  <2>10. Register!Newest(d) = c.base
    <3>1. EditLog[d] = <<>> <=> Len(cs) = 0
      BY <2>9, EmptySeq
    <3>2. cs = <<>> <=> Len(cs) = 0
      BY EmptySeq
    <3>3. CASE Len(cs) = 0
      BY <2>7, <3>1, <3>2, <3>3 DEF Register!Newest
    <3>4. CASE Len(cs) # 0
      <4>1. EditLog[d][Len(cs)].ver = cs[Len(cs)].ver
        BY <2>4, <2>9, <3>4
      <4>. QED
        BY <2>7, <2>9, <3>1, <3>2, <3>4, <4>1 DEF Register!Newest
    <3>. QED
      BY <3>3, <3>4
  <2>11. EditLog'[d] = Append(EditLog[d], [base |-> Register!Newest(d), ver |-> vts])
    <3>1. PICK e \in [base : Version, ver : Version] :
             e = [base |-> c.base, ver |-> vts]
      BY <2>6 DEF Commit
    <3>2. EditLog'[d] =
             [i \in 1..(Len(cs) + 1) |-> [base |-> Append(cs, c)[i].base, ver |-> Append(cs, c)[i].ver]]
      <4>1. EditLog'[d] =
               [i \in DOMAIN committed'[DiaryKey(d)] |->
                   [base |-> committed'[DiaryKey(d)][i].base,
                    ver |-> committed'[DiaryKey(d)][i].ver]]
        BY DEF EditLog, DiaryKey
      <4>. QED
        BY <2>1, <2>4, <2>5, <4>1
    <3>3. /\ DOMAIN Append(EditLog[d], e) = 1..(Len(cs) + 1)
          /\ \A i \in 1..Len(cs) : Append(EditLog[d], e)[i] = EditLog[d][i]
          /\ Append(EditLog[d], e)[Len(cs) + 1] = e
          /\ Append(EditLog[d], e) = [i \in 1..(Len(cs) + 1) |-> Append(EditLog[d], e)[i]]
      <4>1. /\ Append(EditLog[d], e) \in Seq([base : Version, ver : Version])
            /\ Len(Append(EditLog[d], e)) = Len(cs) + 1
            /\ \A i \in 1..Len(cs) : Append(EditLog[d], e)[i] = EditLog[d][i]
            /\ Append(EditLog[d], e)[Len(cs) + 1] = e
            /\ DOMAIN Append(EditLog[d], e) = 1..(Len(cs) + 1)
        BY <2>9, AppendFacts
      <4>. QED
        BY <4>1
    <3>4. ASSUME NEW i \in 1..(Len(cs) + 1)
          PROVE  Append(EditLog[d], e)[i] =
                     [base |-> Append(cs, c)[i].base, ver |-> Append(cs, c)[i].ver]
      <4>1. CASE i = Len(cs) + 1
        BY <2>4, <2>6, <3>1, <3>3, <4>1
      <4>2. CASE i # Len(cs) + 1
        <5>1. i \in 1..Len(cs)
          BY <2>4, <4>2
        <5>2. EditLog[d][i] = [base |-> cs[i].base, ver |-> cs[i].ver]
          BY <2>8, <5>1
        <5>. QED
          BY <2>4, <3>3, <5>1, <5>2
      <4>. QED
        BY <4>1, <4>2
    <3>5. EditLog'[d] = Append(EditLog[d], e)
      BY <3>2, <3>3, <3>4
    <3>. QED
      BY <2>10, <3>1, <3>5
  <2>12. ASSUME NEW e \in Diaries, e # d PROVE EditLog'[e] = EditLog[e]
    <3>1. committed'[DiaryKey(e)] = committed[DiaryKey(e)]
      BY <2>2, <2>5, <2>12
    <3>2. EditLog'[e] =
             [i \in DOMAIN committed'[DiaryKey(e)] |->
                 [base |-> committed'[DiaryKey(e)][i].base,
                  ver |-> committed'[DiaryKey(e)][i].ver]]
      BY DEF EditLog, DiaryKey
    <3>. QED
      BY <3>1, <3>2 DEF EditLog
  <2>13. EditLog' = [EditLog EXCEPT ![d] =
                        Append(@, [base |-> Register!Newest(d), ver |-> vts])]
    <3>1. DOMAIN EditLog = Diaries /\ EditLog' = [e \in Diaries |-> EditLog'[e]]
      BY DEF EditLog, DiaryKey
    <3>2. EditLog = [e \in Diaries |-> EditLog[e]]
      BY DEF EditLog
    <3>. QED
      BY <2>11, <2>12, <3>1, <3>2
  <2>14. Stored' = Stored
    BY <1>3 DEF Stored, DiaryKey
  <2>15. Register!Edit(d, vts)
    <3>1. \A i \in DOMAIN EditLog[d] : EditLog[d][i].ver # vts
      BY <2>7, <2>9
    <3>. QED
      BY <2>7, <2>13, <2>14, <3>1 DEF Register!Edit
  <2>. QED
    BY <1>1, <2>15 DEF Register!NextRegister
<1>. QED
  BY <1>4, <1>5

-----------------------------------------------------------------------------
LEMMA RegisterNext ==
    ASSUME DiaryInv, DiaryInv', Numbered, [Next]_vars
    PROVE  [Register!NextRegister]_<<EditLog, Stored>>
<1>1. CASE UNCHANGED vars
  BY <1>1, RegisterSame DEF vars
<1>2. ASSUME NEW s \in Sites, Request(s)
      PROVE  [Register!NextRegister]_<<EditLog, Stored>>
  <2>1. UNCHANGED <<history, committed>>
    BY <1>2
    DEF Request, handle_edit_diary, handle_add_comment, handle_get_diary_content,
        FastAcquire, SlowAcquire, acquire_lock
  <2>. QED
    BY <2>1, RegisterSame
<1>3. ASSUME NEW s \in Sites, FastStep(s) \/ SlowStep(s)
      PROVE  [Register!NextRegister]_<<EditLog, Stored>>
  <2>1. CASE FastStamp(s) \/ SlowStamp(s)
    BY <2>1, RegisterEdit DEF FastStamp, SlowStamp
  <2>2. CASE FastPush(s) \/ SlowPush(s)
    <3>1. txn[s].key \in Keys /\ txn[s].ver \in Version
      BY DEF DiaryInv, TypeOK
    <3>2. /\ UNCHANGED committed
          /\ history' = [history EXCEPT ![s][txn[s].key] = Append(@, txn[s].ver)]
      BY <2>2 DEF FastPush, SlowPush, Push
    <3>. QED
      BY <3>1, <3>2, RegisterStore
  <2>3. CASE \/ FastCheck(s) \/ FastAbort(s) \/ FastQueue(s) \/ FastDone(s)
             \/ SlowCheck(s) \/ SlowAbort(s) \/ SlowQueue(s)
    <3>1. UNCHANGED <<history, committed>>
      BY <2>3
      DEF FastCheck, FastAbort, FastQueue, FastDone, SlowCheck, SlowAbort, SlowQueue,
          CheckHistory, release_lock, QueueMsg
    <3>. QED
      BY <3>1, RegisterSame
  <2>. QED
    BY <1>3, <2>1, <2>2, <2>3 DEF FastStep, SlowStep
<1>4. ASSUME NEW s \in Sites, RepStep(s)
      PROVE  [Register!NextRegister]_<<EditLog, Stored>>
  <2>1. CASE RepPush(s)
    <3>1. rep_msg[s].key \in Keys /\ rep_msg[s].ver \in Version
      BY DEF DiaryInv, TypeOK, Message
    <3>. QED
      BY <2>1, <3>1, RegisterStore DEF RepPush
  <2>2. CASE RepRecv(s) \/ RepUnlock(s) \/ RepCount(s) \/ RepDrain(s)
    <3>1. UNCHANGED <<history, committed>>
      BY <2>2 DEF RepRecv, RepUnlock, RepCount, RepDrain
    <3>. QED
      BY <3>1, RegisterSame
  <2>. QED
    BY <1>4, <2>1, <2>2 DEF RepStep
<1>. QED
  BY <1>1, <1>2, <1>3, <1>4 DEF Next

LEMMA RegisterInit == Init => Register!InitRegister /\ Numbered
<1>. SUFFICES ASSUME Init PROVE Register!InitRegister /\ Numbered
  OBVIOUS
<1>1. Numbered
  <2>1. \A s \in Sites : committedVTS[s][s] = 0 /\ pc[s] = "idle"
    BY DEF Init, InitServers, Zero
  <2>2. 0 <= MaxSeqno
    BY BoundsAssumption
  <2>. QED
    BY <2>1, <2>2 DEF Numbered
<1>2. EditLog = [d \in Diaries |-> <<>>]
  <2>1. \A d \in Diaries : committed[DiaryKey(d)] = <<>>
    BY HomeFacts DEF Init, InitServers
  <2>2. DOMAIN <<>> = {}
    OBVIOUS
  <2>3. \A d \in Diaries : EditLog[d] = <<>>
    BY <2>1, <2>2 DEF EditLog
  <2>4. EditLog = [d \in Diaries |-> EditLog[d]]
    BY DEF EditLog
  <2>. QED
    BY <2>3, <2>4
<1>3. Stored = [s \in Sites |-> [d \in Diaries |-> <<Zero>>]]
  <2>1. \A s \in Sites, d \in Diaries : history[s][DiaryKey(d)] = <<Zero>>
    <3>1. \A d \in Diaries : DiaryKey(d) \in Keys /\ DiaryKey(d).type = "DIARY"
      BY DEF DiaryKey, Keys
    <3>. QED
      BY <3>1 DEF Init, Seed
  <2>. QED
    BY <2>1 DEF Stored
<1>. QED
  BY <1>1, <1>2, <1>3 DEF Register!InitRegister, Register!Sites, Sites

\* The protocol implements the register for any diaries and any bounds: the
\* edits of a diary form one sequence, each made from the version before it,
\* and each site stores it one edit after the other, with no step in between
\* that a reader of the register could see.
THEOREM RegisterCorrect == Spec => ImplementsRegister
<1>1. Init => DiaryInv /\ Numbered /\ Register!InitRegister
  BY DiaryInvInit, RegisterInit
<1>2. DiaryInv /\ Numbered /\ [Next]_vars => (DiaryInv /\ Numbered)'
  BY DiaryInvNext, NumberedNext DEF DiaryInv
<1>3. DiaryInv /\ DiaryInv' /\ Numbered /\ [Next]_vars
          => [Register!NextRegister]_<<EditLog, Stored>>
  BY RegisterNext
<1>. QED
  BY <1>1, <1>2, <1>3, PTL DEF Spec, ImplementsRegister, Register!SpecRegister
=============================================================================
