------------------------------ MODULE PruneProofs -----------------------------
(***************************************************************************)
(* Self-healing: a broadcast that met a dead subscriber removes one of     *)
(* them for good.  broadcast_core records the index of the last failing    *)
(* send in to_remove and calls senders.remove(to_remove) after the loop.   *)
(* The argument: while the loop runs the list is frozen (the mutex), so    *)
(* to_remove still names a failed sender when remove runs; each sender is *)
(* listed once, so the removed channel is gone from the list; and the     *)
(* only thing that ever adds to the list is subscribe(), which pushes a   *)
(* channel created after every one that failed.                            *)
(***************************************************************************)
EXTENDS BusRefinementProofs

\* An event has failed sends or has finished only once its thread issued it.
FailedIssued ==
  \A e \in Events : (failed[e] # {} \/ e \in finished) =>
    e[2] <= nBroadcasts[e[1]]

\* The loop's own event has not finished yet.
LoopUnfinished == \A t \in Threads : pc[t] = "send" => Cur(t) \notin finished

\* A loop that met a failing send has to_remove naming one of the failed senders.
RemovalRecorded ==
  \A t \in Threads : pc[t] = "send" /\ failed[Cur(t)] # {} =>
    /\ toRemove[t] # 0
    /\ senders[toRemove[t]] \in failed[Cur(t)]

\* Each finished broadcast that failed somewhere pruned one failed, created channel.
Pruned ==
  \A e \in finished : failed[e] # {} =>
    \E c \in failed[e] : c \in 1 .. nChans /\ c \notin ToSet(senders)

PInv ==
  /\ IInv /\ SendersDistinct
  /\ FailedIssued /\ LoopUnfinished /\ RemovalRecorded /\ Pruned

(***************************************************************************)
(* Vec::remove(k) on a list without repetitions: what is left was in the   *)
(* list, and the removed element is no longer there.                       *)
(***************************************************************************)
LEMMA RemoveAtDrops ==
  ASSUME NEW S, NEW s \in Seq(S), NEW k \in 1 .. Len(s), IsInjective(s)
  PROVE  ToSet(RemoveAt(s, k)) \subseteq ToSet(s) \ {s[k]}
<1>1. RemoveAt(s, k) \in Seq(S) /\ Len(RemoveAt(s, k)) = Len(s) - 1
  BY RemoveAtProperties
<1> SUFFICES ASSUME NEW i \in 1 .. Len(s) - 1
             PROVE  RemoveAt(s, k)[i] \in ToSet(s) \ {s[k]}
  BY <1>1 DEF ToSet
<1>2. RemoveAt(s, k)[i] = IF i < k THEN s[i] ELSE s[i + 1]
  BY RemoveAtIndex
<1>3. \A a, b \in 1 .. Len(s) : s[a] = s[b] => a = b
  BY DEF IsInjective
<1>4. PICK j \in 1 .. Len(s) : RemoveAt(s, k)[i] = s[j] /\ j # k
  BY <1>2
<1>5. s[j] # s[k]
  BY <1>3, <1>4
<1>6. QED
  BY <1>4, <1>5 DEF ToSet

LEMMA InitPInv == Init => PInv
<1> SUFFICES ASSUME Init PROVE PInv
  OBVIOUS
<1>1. IInv /\ SendersDistinct
  BY InitRInv DEF RInv
<1>2. FailedIssued /\ LoopUnfinished /\ RemovalRecorded /\ Pruned
  BY DEF Init, FailedIssued, LoopUnfinished, RemovalRecorded, Pruned
<1>3. QED
  BY <1>1, <1>2 DEF PInv

\* A step that touches none of the list, the counters, to_remove or the
\* failures, and starts no loop, keeps the four conjuncts.
LEMMA PruneKept ==
  ASSUME FailedIssued, LoopUnfinished, RemovalRecorded, Pruned,
         UNCHANGED <<senders, nChans, toRemove, nBroadcasts, failed, finished>>,
         \A u \in Threads : pc'[u] = "send" => pc[u] = "send"
  PROVE  FailedIssued' /\ LoopUnfinished' /\ RemovalRecorded' /\ Pruned'
BY DEF FailedIssued, LoopUnfinished, RemovalRecorded, Pruned, Cur

LEMMA NextPInv == PInv /\ [Next]_vars => PInv'
<1> SUFFICES ASSUME PInv, [Next]_vars PROVE PInv'
  OBVIOUS
<1>a. IInv'
  BY NextIInv DEF PInv
<1>b. SendersDistinct'
  BY NextDistinct DEF PInv
<1> SUFFICES FailedIssued' /\ LoopUnfinished' /\ RemovalRecorded' /\ Pruned'
  BY <1>a, <1>b DEF PInv
<1> USE ThreadsAssumption
<1>0. /\ TypeOK /\ LockHeld /\ LoopBounds /\ SendersCreated /\ SendersDistinct
      /\ FailedIssued /\ LoopUnfinished /\ RemovalRecorded /\ Pruned
  BY DEF PInv, IInv
<1>1. ASSUME NEW t \in Threads, SubscribePoisoned(t) \/ BcLockPoisoned(t) \/ BcSendOk(t)
      PROVE  FailedIssued' /\ LoopUnfinished' /\ RemovalRecorded' /\ Pruned'
  <2>1. UNCHANGED <<senders, nChans, toRemove, nBroadcasts, failed, finished>>
    BY <1>1 DEF SubscribePoisoned, BcLockPoisoned, BcSendOk
  <2>2. \A u \in Threads : pc'[u] = "send" => pc[u] = "send"
    BY <1>0, <1>1 DEF SubscribePoisoned, BcLockPoisoned, BcSendOk, TypeOK
  <2>3. QED
    BY <1>0, <2>1, <2>2, PruneKept
<1>2. ASSUME NEW c \in Chans, DropReceiver(c)
      PROVE  FailedIssued' /\ LoopUnfinished' /\ RemovalRecorded' /\ Pruned'
  BY <1>0, <1>2, PruneKept DEF DropReceiver
<1>3. CASE Done \/ UNCHANGED vars
  BY <1>0, <1>3, PruneKept DEF Done, vars
<1>4. ASSUME NEW t \in Threads, Subscribe(t)
      PROVE  FailedIssued' /\ LoopUnfinished' /\ RemovalRecorded' /\ Pruned'
  <2>1. /\ UNCHANGED <<toRemove, nBroadcasts, failed, finished, pc>>
        /\ senders' = Append(senders, nChans + 1) /\ nChans' = nChans + 1
        /\ \A u \in Threads : pc[u] # "send"
        /\ nChans \in Nat
    BY <1>0, <1>4 DEF Subscribe, LockHeld, TypeOK
  <2>2. ToSet(senders') = ToSet(senders) \cup {nChans + 1}
    BY <1>0, <2>1, ToSetAppend DEF TypeOK
  <2>3. Pruned'
    BY <1>0, <2>1, <2>2 DEF Pruned
  <2>4. FailedIssued'
    BY <1>0, <2>1 DEF FailedIssued
  <2>5. LoopUnfinished' /\ RemovalRecorded'
    BY <2>1 DEF LoopUnfinished, RemovalRecorded
  <2>6. QED
    BY <2>3, <2>4, <2>5
<1>5. ASSUME NEW t \in Threads, BcSendFail(t) \/ BcSendFailPanics(t)
      PROVE  FailedIssued' /\ LoopUnfinished' /\ RemovalRecorded' /\ Pruned'
  <2> DEFINE E == Cur(t)
  <2>a. /\ pc[t] = "send" /\ idx[t] <= Len(senders)
        /\ UNCHANGED <<senders, nChans, nBroadcasts, finished>>
        /\ failed' = [failed EXCEPT ![E] = @ \cup {senders[idx[t]]}]
    BY <1>5 DEF BcSendFail, BcSendFailPanics
  <2>b. idx[t] \in 1 .. Len(senders) + 1
    BY <1>0, <2>a DEF LoopBounds
  <2>0. /\ pc[t] = "send" /\ idx[t] \in 1 .. Len(senders)
        /\ UNCHANGED <<senders, nChans, nBroadcasts, finished>>
        /\ failed' = [failed EXCEPT ![E] = @ \cup {senders[idx[t]]}]
    BY <2>a, <2>b
  <2>1. /\ pc[t] = "send" /\ idx[t] \in 1 .. Len(senders)
        /\ UNCHANGED <<senders, nChans, nBroadcasts, finished>>
        /\ failed' = [failed EXCEPT ![E] = @ \cup {senders[idx[t]]}]
        /\ E \in Events /\ E \notin finished
        /\ \A u \in Threads \ {t} : pc[u] # "send"
    <3>1. nBroadcasts[t] \in 1 .. MaxBroadcasts
      BY <1>0, <2>0 DEF LoopBounds
    <3>2. E \in Events
      BY <3>1 DEF Cur, Events
    <3>3. E \notin finished
      BY <1>0, <2>0 DEF LoopUnfinished
    <3>4. \A u \in Threads \ {t} : pc[u] # "send"
      BY <1>0, <2>0 DEF LockHeld
    <3>5. QED
      BY <2>0, <3>2, <3>3, <3>4
  <2>2. FailedIssued'
    BY <1>0, <2>1 DEF FailedIssued, TypeOK, Cur
  <2>3. Pruned'
    BY <1>0, <2>1 DEF Pruned, TypeOK
  <2>4. CASE BcSendFailPanics(t)
    <3>1. \A u \in Threads : pc'[u] # "send"
      BY <1>0, <2>1, <2>4 DEF BcSendFailPanics, TypeOK
    <3>2. QED
      BY <2>2, <2>3, <3>1 DEF LoopUnfinished, RemovalRecorded
  <2>5. CASE BcSendFail(t)
    <3>1. /\ pc' = pc /\ toRemove' = [toRemove EXCEPT ![t] = idx[t]]
          /\ idx[t] # 0
      BY <1>0, <2>5 DEF BcSendFail, TypeOK
    <3>2. LoopUnfinished'
      BY <1>0, <2>1, <3>1 DEF LoopUnfinished, Cur
    <3>3. RemovalRecorded'
      BY <1>0, <2>1, <3>1 DEF RemovalRecorded, Cur, TypeOK
    <3>4. QED
      BY <2>2, <2>3, <3>2, <3>3
  <2>6. QED
    BY <1>5, <2>4, <2>5
<1>6. ASSUME NEW t \in Threads, BcLock(t)
      PROVE  FailedIssued' /\ LoopUnfinished' /\ RemovalRecorded' /\ Pruned'
  <2> DEFINE N == <<t, nBroadcasts[t] + 1>>
  <2>1. /\ UNCHANGED <<senders, nChans, failed, finished>>
        /\ nBroadcasts' = [nBroadcasts EXCEPT ![t] = @ + 1]
        /\ pc' = [pc EXCEPT ![t] = "send"]
        /\ \A u \in Threads : pc[u] # "send"
        /\ nBroadcasts \in [Threads -> Nat] /\ N \in Events
    BY <1>0, <1>6, BoundsAssumption DEF BcLock, LockHeld, TypeOK, Events
  <2>2. Cur(t)' = N
    BY <2>1 DEF Cur
  <2>3. failed[N] = {} /\ N \notin finished
    BY <1>0, <2>1 DEF FailedIssued
  <2>4. FailedIssued'
    BY <1>0, <2>1 DEF FailedIssued, TypeOK, Events
  <2>5. LoopUnfinished' /\ RemovalRecorded'
    BY <1>0, <2>1, <2>2, <2>3 DEF LoopUnfinished, RemovalRecorded, TypeOK
  <2>6. Pruned'
    BY <1>0, <2>1 DEF Pruned
  <2>7. QED
    BY <2>4, <2>5, <2>6
<1>7. ASSUME NEW t \in Threads, BcRemove(t)
      PROVE  FailedIssued' /\ LoopUnfinished' /\ RemovalRecorded' /\ Pruned'
  <2> DEFINE E == Cur(t)
             k == toRemove[t]
  <2>1. /\ pc[t] = "send"
        /\ senders' = IF k = 0 THEN senders ELSE RemoveAt(senders, k)
        /\ finished' = finished \cup {E}
        /\ UNCHANGED <<nChans, nBroadcasts, failed>>
        /\ \A u \in Threads : pc'[u] # "send"
        /\ k \in 0 .. Len(senders) /\ senders \in Seq(Chans)
        /\ E \in Events /\ nBroadcasts[t] \in Nat
    BY <1>0, <1>7 DEF BcRemove, LockHeld, LoopBounds, TypeOK, Cur, Events
  <2>2. ToSet(senders') \subseteq ToSet(senders)
    BY <1>0, <2>1, RemoveAtDrops DEF SendersDistinct
  <2>3. FailedIssued'
    BY <1>0, <2>1 DEF FailedIssued, Cur
  <2>4. ASSUME failed[E] # {}
        PROVE  \E c \in failed[E] : c \in 1 .. nChans /\ c \notin ToSet(senders')
    <3>1. k # 0 /\ senders[k] \in failed[E]
      BY <1>0, <2>1, <2>4 DEF RemovalRecorded
    <3>2. senders[k] \in 1 .. nChans
      BY <1>0, <2>1, <3>1 DEF SendersCreated, ToSet
    <3>3. senders[k] \notin ToSet(senders')
      BY <1>0, <2>1, <3>1, RemoveAtDrops DEF SendersDistinct
    <3>4. QED
      BY <3>1, <3>2, <3>3
  <2>5. Pruned'
    BY <1>0, <2>1, <2>2, <2>4 DEF Pruned
  <2>6. QED
    BY <2>1, <2>3, <2>5 DEF LoopUnfinished, RemovalRecorded
<1>8. QED
  BY <1>1, <1>2, <1>3, <1>4, <1>5, <1>6, <1>7 DEF Next

(***************************************************************************)
(* Self-healing (spec 4.1), for every number of threads, subscriptions and *)
(* broadcasts: once broadcast() has returned after a send failed, one of   *)
(* the failed senders is no longer in the list; the remove after the loop *)
(* is never lost to a concurrent subscribe() or to a second broadcast.     *)
(***************************************************************************)
THEOREM SomeDeadPrunedHolds == Spec => []SomeDeadPruned
<1>1. PInv => SomeDeadPruned
  BY DEF PInv, Pruned, SomeDeadPruned
<1>2. QED
  BY <1>1, InitPInv, NextPInv, PTL DEF Spec
=============================================================================
