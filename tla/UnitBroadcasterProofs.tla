------------------------ MODULE UnitBroadcasterProofs ------------------------
(***************************************************************************)
(* Proofs about UnitBroadcaster for every number of threads, subscriptions *)
(* and broadcasts.                                                          *)
(***************************************************************************)
EXTENDS UnitBroadcaster, SequenceTheorems, TLAPS

\* The elements of a sequence over S are in S.
LEMMA ToSetSeq ==
  ASSUME NEW S, NEW s \in Seq(S)
  PROVE  ToSet(s) \subseteq S
BY DEF ToSet

\* Append adds exactly its argument to the elements (Vec::push of subscribe).
LEMMA ToSetAppend ==
  ASSUME NEW S, NEW s \in Seq(S), NEW e
  PROVE  ToSet(Append(s, e)) = ToSet(s) \cup {e}
<1>1. /\ Len(Append(s, e)) = Len(s) + 1
      /\ \A i \in 1 .. Len(s) : Append(s, e)[i] = s[i]
      /\ Append(s, e)[Len(s) + 1] = e
  BY AppendProperties
<1>2. DOMAIN Append(s, e) = 1 .. Len(s) + 1
  BY <1>1
<1>3. QED
  BY <1>1, <1>2 DEF ToSet

(***************************************************************************)
(* RemoveAt(s, k), the Vec::remove(k) of broadcast_core, keeps a sequence  *)
(* over S one shorter and keeps every element other than s[k].             *)
(***************************************************************************)
LEMMA RemoveAtProperties ==
  ASSUME NEW S, NEW s \in Seq(S), NEW k \in 1 .. Len(s)
  PROVE  /\ RemoveAt(s, k) \in Seq(S)
         /\ Len(RemoveAt(s, k)) = Len(s) - 1
         /\ \A x \in ToSet(s) : x # s[k] => x \in ToSet(RemoveAt(s, k))
         /\ ToSet(RemoveAt(s, k)) \subseteq ToSet(s)
<1> DEFINE L == SubSeq(s, 1, k - 1)
           Rt == SubSeq(s, k + 1, Len(s))
<1>1. L \in Seq(S) /\ Len(L) = k - 1 /\ \A i \in 1 .. k - 1 : L[i] = s[i]
  BY SubSeqProperties
<1>2. Rt \in Seq(S) /\ Len(Rt) = Len(s) - k
      /\ \A i \in 1 .. Len(s) - k : Rt[i] = s[k + i]
  BY SubSeqProperties
<1> HIDE DEF L, Rt
<1>3. /\ L \o Rt \in Seq(S)
      /\ Len(L \o Rt) = Len(L) + Len(Rt)
      /\ \A i \in 1 .. Len(L) + Len(Rt) :
           (L \o Rt)[i] = IF i <= Len(L) THEN L[i] ELSE Rt[i - Len(L)]
  BY <1>1, <1>2, ConcatProperties, Zenon
<1>4. \A x \in ToSet(s) : x # s[k] => x \in ToSet(L \o Rt)
  <2> SUFFICES ASSUME NEW x \in ToSet(s), x # s[k]
               PROVE  x \in ToSet(L \o Rt)
    OBVIOUS
  <2>1. PICK i \in 1 .. Len(s) : s[i] = x
    BY DEF ToSet
  <2>2. DOMAIN (L \o Rt) = 1 .. Len(s) - 1
    BY <1>1, <1>2, <1>3
  <2>3. CASE i < k
    <3>1. i \in 1 .. Len(L) + Len(Rt) /\ i <= Len(L)
      BY <2>3, <1>1, <1>2
    <3>2. (L \o Rt)[i] = L[i]
      BY <3>1, <1>3
    <3>3. L[i] = x
      BY <3>1, <2>1, <1>1
    <3>4. QED
      BY <3>2, <3>3, <2>2, <3>1, <1>1, <1>2 DEF ToSet
  <2>4. CASE i > k
    <3>1. i - 1 \in 1 .. Len(L) + Len(Rt) /\ ~(i - 1 <= Len(L))
      BY <2>4, <1>1, <1>2
    <3>2. (L \o Rt)[i - 1] = Rt[i - 1 - Len(L)]
      BY <3>1, <1>3
    <3>3. Rt[i - 1 - Len(L)] = x
      BY <3>1, <2>1, <2>4, <1>1, <1>2
    <3>4. i - 1 \in DOMAIN (L \o Rt)
      BY <3>1, <2>2, <1>1, <1>2
    <3>5. QED
      BY <3>2, <3>3, <3>4, Zenon DEF ToSet
  <2>5. QED
    BY <2>1, <2>3, <2>4
<1>5. RemoveAt(s, k) = L \o Rt
  BY DEF RemoveAt, L, Rt
<1>6. Len(L \o Rt) = Len(s) - 1
  BY <1>1, <1>2, <1>3
<1>7. ToSet(L \o Rt) \subseteq ToSet(s)
  <2> SUFFICES ASSUME NEW i \in 1 .. Len(s) - 1
               PROVE  (L \o Rt)[i] \in ToSet(s)
    BY <1>3, <1>6 DEF ToSet
  <2>1. CASE i <= k - 1
    <3>1. (L \o Rt)[i] = s[i]
      BY <2>1, <1>1, <1>2, <1>3
    <3>2. QED
      BY <3>1 DEF ToSet
  <2>2. CASE ~(i <= k - 1)
    <3>0. i - Len(L) \in 1 .. Len(Rt) /\ i \in 1 .. Len(L) + Len(Rt)
      BY <2>2, <1>1, <1>2
    <3>a. (L \o Rt)[i] = Rt[i - Len(L)]
      BY <3>0, <2>2, <1>1, <1>3
    <3>b. Rt[i - Len(L)] = s[k + (i - Len(L))]
      BY <3>0, <1>2
    <3>1. (L \o Rt)[i] = s[i + 1]
      BY <3>a, <3>b, <1>1
    <3>2. i + 1 \in DOMAIN s
      OBVIOUS
    <3>3. QED
      BY <3>1, <3>2, Zenon DEF ToSet
  <2>3. QED
    BY <2>1, <2>2
<1>8. QED
  BY <1>3, <1>4, <1>5, <1>6, <1>7, Zenon
-----------------------------------------------------------------------------
(***************************************************************************)
(* The inductive invariant.  TypeOK alone is not inductive: Vec::remove    *)
(* and the indexing senders[idx] need the loop's indices to stay inside   *)
(* the list, which holds because only the mutex holder is in its loop and *)
(* nobody else touches the list meanwhile (LockHeld).                      *)
(***************************************************************************)
LockHeld == \A t \in Threads : pc[t] = "send" <=> lock = t

LoopBounds ==
  \A t \in Threads : pc[t] = "send" =>
    /\ idx[t] \in 1 .. Len(senders) + 1
    /\ toRemove[t] \in 0 .. idx[t] - 1
    /\ nBroadcasts[t] \in 1 .. MaxBroadcasts

\* Every registered sender was created by a subscribe().
SendersCreated == ToSet(senders) \subseteq 1 .. nChans

\* The index recorded in to_remove names a sender whose receiver is gone.
DeadRecorded ==
  \A t \in Threads : pc[t] = "send" /\ toRemove[t] # 0 =>
    ~alive[senders[toRemove[t]]]

IInv ==
  /\ TypeOK
  /\ LockHeld
  /\ LoopBounds
  /\ SendersCreated
  /\ DeadRecorded
  /\ LiveNeverPruned

LEMMA InitIInv == Init => IInv
<1> SUFFICES ASSUME Init PROVE IInv
  OBVIOUS
<1>1. TypeOK
  <2>1. senders \in Seq(Chans) /\ nChans \in 0 .. MaxSubs
    BY BoundsAssumption DEF Init
  <2>6. lock \in Threads \cup {NoThread} /\ poisoned \in BOOLEAN
    BY Zenon DEF Init
  <2>2. alive \in [Chans -> BOOLEAN] /\ chan \in [Chans -> Seq(Events)]
    BY DEF Init
  <2>3. /\ pc \in [Threads -> {"idle", "send", "panicLog", "panicPoison"}]
        /\ idx \in [Threads -> Nat \ {0}]
        /\ toRemove \in [Threads -> Nat]
        /\ nBroadcasts \in [Threads -> 0 .. MaxBroadcasts]
    BY BoundsAssumption DEF Init
  <2>4. /\ targets \in [Events -> SUBSET Chans]
        /\ failed \in [Events -> SUBSET Chans]
        /\ finished \subseteq Events
    BY DEF Init
  <2>5. QED
    BY <2>1, <2>2, <2>3, <2>4, <2>6 DEF TypeOK
<1>2. LockHeld /\ LoopBounds /\ DeadRecorded
  BY ThreadsAssumption DEF Init, LockHeld, LoopBounds, DeadRecorded
<1>3. SendersCreated /\ LiveNeverPruned
  BY DEF Init, SendersCreated, LiveNeverPruned, ToSet
<1>4. QED
  BY <1>1, <1>2, <1>3 DEF IInv

LEMMA NextIInv == IInv /\ [Next]_vars => IInv'
<1> SUFFICES ASSUME IInv, [Next]_vars PROVE IInv'
  OBVIOUS
<1> USE BoundsAssumption, ThreadsAssumption
<1>0. /\ TypeOK /\ LockHeld /\ LoopBounds /\ SendersCreated
      /\ DeadRecorded /\ LiveNeverPruned
  BY DEF IInv
<1>s. ToSet(senders) \subseteq Chans
  BY <1>0, ToSetSeq DEF TypeOK, Chans
<1>1. ASSUME NEW t \in Threads, Subscribe(t) PROVE IInv'
  <2>1. ToSet(senders') = ToSet(senders) \cup {nChans + 1}
    BY <1>0, <1>1, ToSetAppend DEF Subscribe, TypeOK
  <2>2. TypeOK'
    <3>1. nChans + 1 \in Chans /\ nChans' \in 0 .. MaxSubs
      BY <1>0, <1>1 DEF Subscribe, TypeOK, Chans
    <3>2. senders' \in Seq(Chans)
      BY <1>0, <1>1, <3>1, AppendProperties DEF Subscribe, TypeOK
    <3>3. QED
      BY <1>0, <1>1, <3>1, <3>2 DEF Subscribe, TypeOK
  <2>3. LockHeld' /\ LoopBounds'
    BY <1>0, <1>1 DEF Subscribe, LockHeld, LoopBounds, TypeOK
  <2>4. SendersCreated'
    <3>1. nChans' = nChans + 1 /\ nChans \in Nat
      BY <1>0, <1>1 DEF Subscribe, TypeOK
    <3>2. ToSet(senders) \subseteq 1 .. nChans
      BY <1>0 DEF SendersCreated
    <3>3. QED
      BY <2>1, <3>1, <3>2 DEF SendersCreated
  <2>7. LiveNeverPruned'
    <3> SUFFICES ASSUME NEW c \in 1 .. nChans', c \notin ToSet(senders')
                 PROVE  ~alive'[c]
      BY DEF LiveNeverPruned
    <3>1. c \in 1 .. nChans /\ c \notin ToSet(senders)
      BY <1>0, <1>1, <2>1 DEF Subscribe, TypeOK
    <3>2. QED
      BY <1>0, <1>1, <3>1 DEF Subscribe, LiveNeverPruned
  <2>5. DeadRecorded'
    BY <1>0, <1>1 DEF Subscribe, DeadRecorded, LockHeld, TypeOK
  <2>6. QED
    BY <2>2, <2>3, <2>4, <2>5, <2>7 DEF IInv
<1>2. ASSUME NEW t \in Threads, BcLock(t) PROVE IInv'
  <2>1. TypeOK'
    <3>1. nBroadcasts' \in [Threads -> 0 .. MaxBroadcasts]
      BY <1>0, <1>2 DEF BcLock, TypeOK
    <3>2. targets' \in [Events -> SUBSET Chans]
      BY <1>0, <1>2, <1>s DEF BcLock, TypeOK
    <3>3. /\ lock' \in Threads \cup {NoThread}
          /\ pc' \in [Threads -> {"idle", "send", "panicLog", "panicPoison"}]
          /\ idx' \in [Threads -> Nat \ {0}]
          /\ toRemove' \in [Threads -> Nat]
      BY <1>0, <1>2 DEF BcLock, TypeOK
    <3>4. QED
      BY <1>0, <1>2, <3>1, <3>2, <3>3 DEF BcLock, TypeOK
  <2>2. LockHeld'
    BY <1>0, <1>2 DEF BcLock, LockHeld, TypeOK
  <2>3. LoopBounds'
    <3> SUFFICES ASSUME NEW u \in Threads, pc'[u] = "send"
                 PROVE  /\ idx'[u] \in 1 .. Len(senders') + 1
                        /\ toRemove'[u] \in 0 .. idx'[u] - 1
                        /\ nBroadcasts'[u] \in 1 .. MaxBroadcasts
      BY DEF LoopBounds
    <3>1. CASE u = t
      BY <1>0, <1>2, <3>1 DEF BcLock, TypeOK
    <3>2. CASE u # t
      BY <1>0, <1>2, <3>2 DEF BcLock, TypeOK, LoopBounds
    <3>3. QED
      BY <3>1, <3>2
  <2>4. SendersCreated' /\ LiveNeverPruned'
    BY <1>0, <1>2 DEF BcLock, SendersCreated, LiveNeverPruned
  <2>5. DeadRecorded'
    BY <1>0, <1>2 DEF BcLock, DeadRecorded, TypeOK
  <2>6. QED
    BY <2>1, <2>2, <2>3, <2>4, <2>5 DEF IInv
<1>3. ASSUME NEW t \in Threads, BcSendOk(t) PROVE IInv'
  <2>0. /\ senders[idx[t]] \in Chans
        /\ Cur(t) \in Events
    <3>1. idx[t] \in 1 .. Len(senders) /\ nBroadcasts[t] \in 1 .. MaxBroadcasts
      BY <1>0, <1>3 DEF BcSendOk, TypeOK, LoopBounds
    <3>2. QED
      BY <1>0, <3>1 DEF TypeOK, Events, Cur
  <2>1. TypeOK'
    <3>1. chan' \in [Chans -> Seq(Events)]
      BY <1>0, <1>3, <2>0 DEF BcSendOk, TypeOK
    <3>2. idx' \in [Threads -> Nat \ {0}]
      BY <1>0, <1>3 DEF BcSendOk, TypeOK
    <3>3. QED
      BY <1>0, <1>3, <3>1, <3>2 DEF BcSendOk, TypeOK
  <2>2. LockHeld'
    BY <1>0, <1>3 DEF BcSendOk, LockHeld
  <2>3. LoopBounds'
    <3> SUFFICES ASSUME NEW u \in Threads, pc'[u] = "send"
                 PROVE  /\ idx'[u] \in 1 .. Len(senders') + 1
                        /\ toRemove'[u] \in 0 .. idx'[u] - 1
                        /\ nBroadcasts'[u] \in 1 .. MaxBroadcasts
      BY DEF LoopBounds
    <3>0. /\ senders' = senders /\ pc' = pc /\ toRemove' = toRemove
          /\ nBroadcasts' = nBroadcasts /\ idx' = [idx EXCEPT ![t] = @ + 1]
      BY <1>3 DEF BcSendOk
    <3>1. CASE u = t
      <4>1. idx[t] \in 1 .. Len(senders) /\ toRemove[t] \in 0 .. idx[t] - 1
            /\ nBroadcasts[t] \in 1 .. MaxBroadcasts
        BY <1>0, <1>3 DEF BcSendOk, LoopBounds
      <4>2. idx'[t] = idx[t] + 1
        BY <1>0, <3>0 DEF TypeOK
      <4>3. QED
        BY <3>0, <3>1, <4>1, <4>2
    <3>2. CASE u # t
      <4>1. idx'[u] = idx[u]
        BY <1>0, <3>0, <3>2 DEF TypeOK
      <4>2. QED
        BY <1>0, <3>0, <4>1 DEF LoopBounds
    <3>3. QED
      BY <3>1, <3>2
  <2>4. SendersCreated' /\ LiveNeverPruned' /\ DeadRecorded'
    BY <1>0, <1>3 DEF BcSendOk, SendersCreated, LiveNeverPruned, DeadRecorded
  <2>5. QED
    BY <2>1, <2>2, <2>3, <2>4 DEF IInv
<1>4. ASSUME NEW t \in Threads, BcSendFail(t) PROVE IInv'
  <2>0. senders[idx[t]] \in Chans /\ idx[t] \in 1 .. Len(senders)
    BY <1>0, <1>4 DEF BcSendFail, TypeOK, LoopBounds
  <2>1. TypeOK'
    <3>1. failed' \in [Events -> SUBSET Chans]
      BY <1>0, <1>4, <2>0 DEF BcSendFail, TypeOK
    <3>2. idx' \in [Threads -> Nat \ {0}] /\ toRemove' \in [Threads -> Nat]
      BY <1>0, <1>4, <2>0 DEF BcSendFail, TypeOK
    <3>3. QED
      BY <1>0, <1>4, <3>1, <3>2 DEF BcSendFail, TypeOK
  <2>2. LockHeld'
    BY <1>0, <1>4 DEF BcSendFail, LockHeld
  <2>3. LoopBounds'
    <3> SUFFICES ASSUME NEW u \in Threads, pc'[u] = "send"
                 PROVE  /\ idx'[u] \in 1 .. Len(senders') + 1
                        /\ toRemove'[u] \in 0 .. idx'[u] - 1
                        /\ nBroadcasts'[u] \in 1 .. MaxBroadcasts
      BY DEF LoopBounds
    <3>1. CASE u = t
      <4>1. /\ idx'[t] = idx[t] + 1
            /\ toRemove'[t] = idx[t]
            /\ nBroadcasts'[t] = nBroadcasts[t]
            /\ senders' = senders
        BY <1>0, <1>4 DEF BcSendFail, TypeOK
      <4>2. nBroadcasts[t] \in 1 .. MaxBroadcasts
        BY <1>0, <1>4 DEF BcSendFail, LoopBounds
      <4>3. QED
        BY <2>0, <3>1, <4>1, <4>2
    <3>2. CASE u # t
      BY <1>0, <1>4, <3>2 DEF BcSendFail, TypeOK, LoopBounds
    <3>3. QED
      BY <3>1, <3>2
  <2>4. SendersCreated' /\ LiveNeverPruned'
    BY <1>0, <1>4 DEF BcSendFail, SendersCreated, LiveNeverPruned
  <2>5. DeadRecorded'
    <3> SUFFICES ASSUME NEW u \in Threads, pc'[u] = "send", toRemove'[u] # 0
                 PROVE  ~alive'[senders'[toRemove'[u]]]
      BY DEF DeadRecorded
    <3>1. CASE u = t
      BY <1>0, <1>4, <3>1 DEF BcSendFail, TypeOK
    <3>2. CASE u # t
      BY <1>0, <1>4, <3>2 DEF BcSendFail, TypeOK, DeadRecorded
    <3>3. QED
      BY <3>1, <3>2
  <2>6. QED
    BY <2>1, <2>2, <2>3, <2>4, <2>5 DEF IInv
<1>5. ASSUME NEW t \in Threads, BcRemove(t) PROVE IInv'
  <2>0. \A u \in Threads : u # t => pc[u] # "send"
    BY <1>0, <1>5 DEF BcRemove, LockHeld, TypeOK
  <2>1. senders' \in Seq(Chans) /\ ToSet(senders) \ {senders[toRemove[t]]}
                                    \subseteq ToSet(senders')
                                 /\ ToSet(senders') \subseteq ToSet(senders)
    <3>1. CASE toRemove[t] = 0
      BY <1>0, <1>5, <3>1 DEF BcRemove, TypeOK
    <3>2. CASE toRemove[t] # 0
      <4>1. toRemove[t] \in 1 .. Len(senders)
        BY <1>0, <1>5, <3>2 DEF BcRemove, TypeOK, LoopBounds
      <4>2. senders' = RemoveAt(senders, toRemove[t])
        BY <1>5, <3>2 DEF BcRemove
      <4>4. QED
        BY <1>0, <4>1, <4>2, RemoveAtProperties DEF TypeOK
    <3>3. QED
      BY <3>1, <3>2
  <2>2. TypeOK'
    <3>1. finished' \subseteq Events
      <4>1. nBroadcasts[t] \in 1 .. MaxBroadcasts
        BY <1>0, <1>5 DEF BcRemove, TypeOK, LoopBounds
      <4>2. Cur(t) \in Events
        BY <4>1 DEF Cur, Events
      <4>3. QED
        BY <1>0, <1>5, <4>2 DEF BcRemove, TypeOK
    <3>2. pc' \in [Threads -> {"idle", "send", "panicLog", "panicPoison"}]
      BY <1>0, <1>5 DEF BcRemove, TypeOK
    <3>3. QED
      BY <1>0, <1>5, <2>1, <3>1, <3>2 DEF BcRemove, TypeOK
  <2>3. LockHeld'
    BY <1>0, <1>5, <2>0 DEF BcRemove, LockHeld, TypeOK
  <2>4. LoopBounds' /\ DeadRecorded'
    BY <1>0, <1>5, <2>0 DEF BcRemove, LoopBounds, DeadRecorded, TypeOK
  <2>5. SendersCreated'
    BY <1>0, <1>5, <2>1 DEF BcRemove, SendersCreated
  <2>6. LiveNeverPruned'
    <3> SUFFICES ASSUME NEW c \in 1 .. nChans', c \notin ToSet(senders')
                 PROVE  ~alive'[c]
      BY DEF LiveNeverPruned
    <3>1. CASE c \notin ToSet(senders)
      BY <1>0, <1>5, <3>1 DEF BcRemove, LiveNeverPruned
    <3>2. CASE c \in ToSet(senders)
      <4>1. toRemove[t] # 0 /\ c = senders[toRemove[t]]
        BY <1>5, <2>1, <3>2 DEF BcRemove
      <4>2. QED
        BY <1>0, <1>5, <4>1 DEF BcRemove, DeadRecorded
    <3>3. QED
      BY <3>1, <3>2
  <2>7. QED
    BY <2>2, <2>3, <2>4, <2>5, <2>6 DEF IInv
<1>6. ASSUME NEW c \in Chans, DropReceiver(c) PROVE IInv'
  <2>1. TypeOK'
    BY <1>0, <1>6 DEF DropReceiver, TypeOK
  <2>2. LockHeld' /\ LoopBounds' /\ SendersCreated'
    BY <1>0, <1>6 DEF DropReceiver, LockHeld, LoopBounds, SendersCreated
  <2>3. DeadRecorded' /\ LiveNeverPruned'
    BY <1>0, <1>6 DEF DropReceiver, DeadRecorded, LiveNeverPruned, TypeOK
  <2>4. QED
    BY <2>1, <2>2, <2>3 DEF IInv
<1>8. ASSUME NEW t \in Threads, SubscribePoisoned(t) \/ BcLockPoisoned(t)
     PROVE IInv'
  <2>1. /\ pc' = [pc EXCEPT ![t] = "panicPoison"]
        /\ UNCHANGED <<senders, lock, poisoned, nChans, alive, chan, idx,
                       toRemove, nBroadcasts, targets, failed, finished>>
        /\ pc[t] = "idle" /\ lock = NoThread
    BY <1>8 DEF SubscribePoisoned, BcLockPoisoned
  <2>2. TypeOK' /\ LockHeld'
    BY <1>0, <2>1 DEF TypeOK, LockHeld
  <2>3. LoopBounds' /\ DeadRecorded'
    BY <1>0, <2>1 DEF TypeOK, LoopBounds, DeadRecorded
  <2>4. SendersCreated' /\ LiveNeverPruned'
    BY <1>0, <2>1 DEF SendersCreated, LiveNeverPruned
  <2>5. QED
    BY <2>2, <2>3, <2>4 DEF IInv
<1>9. ASSUME NEW t \in Threads, BcSendFailPanics(t) PROVE IInv'
  <2>0. /\ senders[idx[t]] \in Chans
        /\ \A u \in Threads : u # t => pc[u] # "send"
    BY <1>0, <1>9 DEF BcSendFailPanics, TypeOK, LoopBounds, LockHeld
  <2>1. TypeOK'
    BY <1>0, <1>9, <2>0 DEF BcSendFailPanics, TypeOK
  <2>2. LockHeld'
    BY <1>0, <1>9, <2>0 DEF BcSendFailPanics, LockHeld, TypeOK
  <2>3. LoopBounds' /\ DeadRecorded'
    BY <1>0, <1>9, <2>0 DEF BcSendFailPanics, LoopBounds, DeadRecorded, TypeOK
  <2>4. SendersCreated' /\ LiveNeverPruned'
    BY <1>0, <1>9 DEF BcSendFailPanics, SendersCreated, LiveNeverPruned
  <2>5. QED
    BY <2>1, <2>2, <2>3, <2>4 DEF IInv
<1>7. CASE Done \/ UNCHANGED vars
  BY <1>0, <1>7 DEF Done, vars, IInv, TypeOK, LockHeld, LoopBounds,
                    SendersCreated, DeadRecorded, LiveNeverPruned
<1>10. QED
  BY <1>1, <1>2, <1>3, <1>4, <1>5, <1>6, <1>7, <1>8, <1>9 DEF Next

(***************************************************************************)
(* Type correctness of the broadcaster, for every number of threads,       *)
(* subscriptions and broadcasts.                                           *)
(***************************************************************************)
THEOREM TypeCorrect == Spec => []TypeOK
<1>1. IInv => TypeOK
  BY DEF IInv
<1>2. QED
  BY InitIInv, NextIInv, <1>1, PTL DEF Spec
(***************************************************************************)
(* The pruning of broadcast_core never unregisters a live subscriber, for  *)
(* every number of threads, subscriptions and broadcasts: the index kept   *)
(* in to_remove still names the dead sender when Vec::remove runs, because *)
(* the list cannot change while the broadcaster holds the mutex.           *)
(***************************************************************************)
THEOREM LiveNeverPrunedHolds == Spec => []LiveNeverPruned
<1>1. IInv => LiveNeverPruned
  BY DEF IInv
<1>2. QED
  BY InitIInv, NextIInv, <1>1, PTL DEF Spec

\* The edits of the sender list one step of the system may make.
SendersEdit ==
  \/ \E c \in Chans : c \notin ToSet(senders) /\ senders' = Append(senders, c)
  \/ \E k \in 1 .. Len(senders) :
       ~alive[senders[k]] /\ senders' = RemoveAt(senders, k)

LEMMA StepEditsSenders == IInv /\ [Next]_vars => [SendersEdit]_senders
<1> SUFFICES ASSUME IInv, [Next]_vars PROVE [SendersEdit]_senders
  OBVIOUS
<1>0. /\ TypeOK /\ LoopBounds /\ SendersCreated /\ DeadRecorded
  BY DEF IInv
<1>1. ASSUME NEW t \in Threads, Subscribe(t)
      PROVE  SendersEdit
  <2>1. /\ senders' = Append(senders, nChans + 1)
        /\ nChans \in Nat /\ nChans + 1 \in Chans
    BY <1>0, <1>1, BoundsAssumption DEF Subscribe, TypeOK, Chans
  <2>2. nChans + 1 \notin ToSet(senders)
    BY <1>0, <2>1 DEF SendersCreated
  <2>3. QED
    BY <2>1, <2>2 DEF SendersEdit
<1>2. ASSUME NEW t \in Threads, BcRemove(t), toRemove[t] # 0
      PROVE  SendersEdit
  <2> DEFINE k == toRemove[t]
  <2>1. /\ pc[t] = "send" /\ idx[t] > Len(senders)
        /\ senders' = RemoveAt(senders, k)
    BY <1>2 DEF BcRemove
  <2>2. k \in 1 .. Len(senders)
    BY <1>0, <1>2, <2>1 DEF LoopBounds, TypeOK
  <2>3. ~alive[senders[k]]
    BY <1>0, <1>2, <2>1 DEF DeadRecorded
  <2>4. QED
    BY <2>1, <2>2, <2>3 DEF SendersEdit
<1>3. ASSUME NEW t \in Threads, BcRemove(t), toRemove[t] = 0
      PROVE  UNCHANGED senders
  BY <1>3 DEF BcRemove
<1>4. ASSUME NEW t \in Threads,
             \/ SubscribePoisoned(t) \/ BcLock(t) \/ BcLockPoisoned(t)
             \/ BcSendOk(t) \/ BcSendFail(t) \/ BcSendFailPanics(t)
      PROVE  UNCHANGED senders
  BY <1>4 DEF SubscribePoisoned, BcLock, BcLockPoisoned, BcSendOk, BcSendFail,
              BcSendFailPanics
<1>5. ASSUME NEW c \in Chans, DropReceiver(c)
      PROVE  UNCHANGED senders
  BY <1>5 DEF DropReceiver
<1>6. CASE Done \/ UNCHANGED vars
  BY <1>6 DEF Done, vars
<1>7. QED
  BY <1>1, <1>2, <1>3, <1>4, <1>5, <1>6 DEF Next

(***************************************************************************)
(* For every number of threads, subscriptions and broadcasts: subscribe()  *)
(* only pushes a channel not yet listed, and broadcast_core only removes,  *)
(* after its loop, one sender whose receiver is gone.                      *)
(***************************************************************************)
THEOREM SendersEditsHolds == Spec => SendersEdits
<1>1. [SendersEdit]_senders <=>
        [\/ \E c \in Chans : c \notin ToSet(senders) /\ senders' = Append(senders, c)
         \/ \E k \in 1 .. Len(senders) :
              ~alive[senders[k]] /\ senders' = RemoveAt(senders, k)]_senders
  BY DEF SendersEdit
<1>2. QED
  BY InitIInv, NextIInv, StepEditsSenders, <1>1, PTL DEF Spec, SendersEdits
=============================================================================
