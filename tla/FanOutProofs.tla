------------------------------ MODULE FanOutProofs ----------------------------
(***************************************************************************)
(* A subscribe() racing a broadcast() never receives part of it, for every *)
(* number of threads, subscriptions and broadcasts, whether or not writes *)
(* to stderr fail.  The argument: while a thread is in broadcast_core's    *)
(* loop the sender list is the one it found when it took the mutex, so     *)
(* every channel the loop sends to was among the broadcast's targets; and *)
(* an event is only ever enqueued after its broadcast took the mutex, so   *)
(* recording the targets of a new broadcast never changes those of an     *)
(* event already in a queue.                                               *)
(***************************************************************************)
EXTENDS UnitBroadcasterProofs

\* While t is in its loop, its broadcast's targets are the current list.
TargetsCurrent ==
  \A t \in Threads : pc[t] = "send" => targets[Cur(t)] = ToSet(senders)

\* Every event in a queue belongs to a broadcast that has already started.
EventsIssued ==
  \A c \in Chans : \A i \in DOMAIN chan[c] :
    chan[c][i][2] <= nBroadcasts[chan[c][i][1]]

HInv == IInv /\ TargetsCurrent /\ EventsIssued /\ NoHalfRegistered

LEMMA InitHInv == Init => HInv
<1> SUFFICES ASSUME Init PROVE HInv
  OBVIOUS
<1>1. IInv
  BY InitIInv
<1>2. TargetsCurrent
  BY DEF Init, TargetsCurrent
<1>3. EventsIssued /\ NoHalfRegistered
  BY DEF Init, EventsIssued, NoHalfRegistered
<1>4. QED
  BY <1>1, <1>2, <1>3 DEF HInv

\* The three added conjuncts, when chan, targets and nBroadcasts are untouched.
LEMMA QueuesUntouched ==
  ASSUME EventsIssued, NoHalfRegistered,
         UNCHANGED <<chan, targets, nBroadcasts>>
  PROVE  EventsIssued' /\ NoHalfRegistered'
BY DEF EventsIssued, NoHalfRegistered

LEMMA NextHInv == HInv /\ [Next]_vars => HInv'
<1> SUFFICES ASSUME HInv, [Next]_vars
             PROVE  TargetsCurrent' /\ EventsIssued' /\ NoHalfRegistered'
  BY NextIInv DEF HInv
<1> USE ThreadsAssumption
<1>0. /\ TypeOK /\ LockHeld /\ LoopBounds
      /\ TargetsCurrent /\ EventsIssued /\ NoHalfRegistered
  BY DEF HInv, IInv
<1>1. ASSUME NEW t \in Threads,
             \/ Subscribe(t) \/ SubscribePoisoned(t) \/ BcLockPoisoned(t)
             \/ BcSendFail(t) \/ BcSendFailPanics(t)
      PROVE  TargetsCurrent' /\ EventsIssued' /\ NoHalfRegistered'
  <2>1. UNCHANGED <<chan, targets, nBroadcasts>>
    BY <1>1 DEF Subscribe, SubscribePoisoned, BcLockPoisoned, BcSendFail,
                BcSendFailPanics
  <2>2. TargetsCurrent'
    <3>1. CASE Subscribe(t) \/ SubscribePoisoned(t) \/ BcLockPoisoned(t)
      <4>1. \A u \in Threads : pc'[u] # "send"
        BY <1>0, <3>1 DEF Subscribe, SubscribePoisoned, BcLockPoisoned,
                          LockHeld, TypeOK
      <4>2. QED
        BY <4>1 DEF TargetsCurrent
    <3>2. CASE BcSendFail(t) \/ BcSendFailPanics(t)
      <4>1. senders' = senders /\ \A u \in Threads : pc'[u] = "send" => pc[u] = "send"
        BY <1>0, <3>2 DEF BcSendFail, BcSendFailPanics, TypeOK
      <4>2. QED
        BY <1>0, <2>1, <4>1 DEF TargetsCurrent, Cur
    <3>3. QED
      BY <1>1, <3>1, <3>2
  <2>3. QED
    BY <1>0, <2>1, <2>2, QueuesUntouched
<1>2. ASSUME NEW t \in Threads, BcLock(t)
      PROVE  TargetsCurrent' /\ EventsIssued' /\ NoHalfRegistered'
  <2> DEFINE e0 == <<t, nBroadcasts[t] + 1>>
  <2>1. /\ chan' = chan /\ senders' = senders
        /\ targets' = [targets EXCEPT ![e0] = ToSet(senders)]
        /\ nBroadcasts' = [nBroadcasts EXCEPT ![t] = @ + 1]
        /\ pc' = [pc EXCEPT ![t] = "send"]
        /\ \A u \in Threads : pc[u] # "send"
    BY <1>0, <1>2 DEF BcLock, LockHeld
  <2>2. \A c \in Chans : \A i \in DOMAIN chan[c] : chan[c][i] # e0
    BY <1>0 DEF EventsIssued, TypeOK
  <2>3. TargetsCurrent'
    <3> SUFFICES ASSUME NEW u \in Threads, pc'[u] = "send"
                 PROVE  targets'[Cur(u)'] = ToSet(senders')
      BY DEF TargetsCurrent
    <3>1. u = t
      BY <1>0, <2>1 DEF TypeOK
    <3>a. nBroadcasts[t] \in 0 .. MaxBroadcasts - 1 /\ nBroadcasts'[t] = nBroadcasts[t] + 1
      BY <1>0, <1>2, <2>1, BoundsAssumption DEF BcLock, TypeOK
    <3>b. Cur(u)' = e0
      BY <3>1, <3>a DEF Cur
    <3>c. e0 \in Events
      BY <3>a, BoundsAssumption DEF Events
    <3>2. Cur(u)' = e0 /\ e0 \in Events
      BY <3>b, <3>c
    <3>3. QED
      BY <1>0, <2>1, <3>2 DEF TypeOK
  <2>4. EventsIssued'
    <3> SUFFICES ASSUME NEW c \in Chans, NEW i \in DOMAIN chan[c]
                 PROVE  chan[c][i][2] <= nBroadcasts'[chan[c][i][1]]
      BY <2>1 DEF EventsIssued
    <3>0. chan[c][i] \in Threads \X (1 .. MaxBroadcasts)
      BY <1>0 DEF TypeOK, Events
    <3>1. chan[c][i][1] \in Threads /\ chan[c][i][2] \in Nat
      BY <3>0, BoundsAssumption
    <3>2. /\ nBroadcasts[chan[c][i][1]] \in Nat
          /\ nBroadcasts'[chan[c][i][1]] \in Nat
          /\ nBroadcasts'[chan[c][i][1]] >= nBroadcasts[chan[c][i][1]]
      <4> DEFINE u == chan[c][i][1]
      <4>1. /\ nBroadcasts \in [Threads -> 0 .. MaxBroadcasts] /\ u \in Threads
            /\ MaxBroadcasts \in Nat
        BY <1>0, <3>1, BoundsAssumption DEF TypeOK
      <4>2. nBroadcasts' = [nBroadcasts EXCEPT ![t] = @ + 1]
        BY <2>1
      <4>3. CASE u = t
        BY <4>1, <4>2, <4>3
      <4>4. CASE u # t
        BY <4>1, <4>2, <4>4
      <4>5. QED
        BY <4>3, <4>4
    <3>4. chan[c][i][2] <= nBroadcasts[chan[c][i][1]]
      BY <1>0 DEF EventsIssued
    <3>3. QED
      BY <3>1, <3>2, <3>4
  <2>5. NoHalfRegistered'
    <3> SUFFICES ASSUME NEW c \in Chans, NEW i \in DOMAIN chan[c]
                 PROVE  c \in targets'[chan[c][i]]
      BY <2>1 DEF NoHalfRegistered
    <3>1. chan[c][i] \in Events /\ chan[c][i] # e0
      BY <1>0, <2>2 DEF TypeOK
    <3>2. targets'[chan[c][i]] = targets[chan[c][i]]
      BY <1>0, <2>1, <3>1 DEF TypeOK
    <3>3. QED
      BY <1>0, <3>2 DEF NoHalfRegistered
  <2>6. QED
    BY <2>3, <2>4, <2>5
<1>3. ASSUME NEW t \in Threads, BcSendOk(t)
      PROVE  TargetsCurrent' /\ EventsIssued' /\ NoHalfRegistered'
  <2> DEFINE c0 == senders[idx[t]]
  <2>1. /\ c0 \in ToSet(senders) /\ c0 \in Chans
        /\ targets[Cur(t)] = ToSet(senders)
        /\ Cur(t) \in Events
    <3>1. pc[t] = "send" /\ idx[t] <= Len(senders)
      BY <1>3 DEF BcSendOk
    <3>2. idx[t] \in 1 .. Len(senders) /\ senders \in Seq(Chans)
      BY <1>0, <3>1 DEF LoopBounds, TypeOK
    <3>3. c0 \in ToSet(senders) /\ c0 \in Chans
      BY <3>2 DEF ToSet
    <3>4. targets[Cur(t)] = ToSet(senders)
      BY <1>0, <3>1 DEF TargetsCurrent
    <3>5. Cur(t) \in Events
      BY <1>0, <3>1 DEF LoopBounds, TypeOK, Cur, Events
    <3>6. QED
      BY <3>3, <3>4, <3>5
  <2>2. /\ chan' = [chan EXCEPT ![c0] = Append(@, Cur(t))]
        /\ UNCHANGED <<senders, pc, targets, nBroadcasts>>
    BY <1>3 DEF BcSendOk
  <2>3. TargetsCurrent'
    BY <1>0, <2>2 DEF TargetsCurrent, Cur
  <2>4. ASSUME NEW c \in Chans, NEW i \in DOMAIN chan'[c]
        PROVE  /\ chan'[c][i][2] <= nBroadcasts'[chan'[c][i][1]]
               /\ c \in targets'[chan'[c][i]]
    <3>1. CASE c = c0 /\ i = Len(chan[c]) + 1
      <4>1. chan'[c][i] = Cur(t)
        BY <1>0, <2>1, <2>2, <3>1 DEF TypeOK
      <4>2. chan'[c][i][2] <= nBroadcasts'[chan'[c][i][1]]
        <5>1. nBroadcasts[t] \in Nat /\ nBroadcasts' = nBroadcasts
          BY <1>0, <2>2 DEF TypeOK
        <5>2. chan'[c][i][1] = t /\ chan'[c][i][2] = nBroadcasts[t]
          BY <4>1 DEF Cur
        <5>3. QED
          BY <5>1, <5>2
      <4>3. c \in targets'[chan'[c][i]]
        BY <2>1, <2>2, <3>1, <4>1
      <4>4. QED
        BY <4>2, <4>3
    <3>2. CASE ~(c = c0 /\ i = Len(chan[c]) + 1)
      <4>0. chan[c0] \in Seq(Events) /\ c0 \in Chans /\ chan \in [Chans -> Seq(Events)]
        BY <1>0, <2>1 DEF TypeOK
      <4>1. i \in DOMAIN chan[c] /\ chan'[c][i] = chan[c][i]
        <5>1. CASE c = c0
          <6>1. chan'[c] = Append(chan[c], Cur(t))
            BY <2>2, <4>0, <5>1
          <6>2. i \in 1 .. Len(chan[c]) + 1 /\ i # Len(chan[c]) + 1
            BY <6>1, <4>0, <5>1, <3>2
          <6>3. QED
            BY <6>1, <6>2, <4>0, <5>1
        <5>2. CASE c # c0
          BY <2>2, <4>0, <5>2
        <5>3. QED
          BY <5>1, <5>2
      <4>2. QED
        BY <1>0, <2>2, <4>1 DEF EventsIssued, NoHalfRegistered
    <3>3. QED
      BY <3>1, <3>2
  <2>5. QED
    BY <2>3, <2>4 DEF EventsIssued, NoHalfRegistered
<1>4. ASSUME NEW t \in Threads, BcRemove(t)
      PROVE  TargetsCurrent' /\ EventsIssued' /\ NoHalfRegistered'
  <2>1. \A u \in Threads : pc'[u] # "send"
    BY <1>0, <1>4 DEF BcRemove, LockHeld, TypeOK
  <2>2. UNCHANGED <<chan, targets, nBroadcasts>>
    BY <1>4 DEF BcRemove
  <2>3. QED
    BY <1>0, <2>1, <2>2, QueuesUntouched DEF TargetsCurrent
<1>5. ASSUME NEW c \in Chans, DropReceiver(c)
      PROVE  TargetsCurrent' /\ EventsIssued' /\ NoHalfRegistered'
  <2>1. UNCHANGED <<senders, pc, chan, targets, nBroadcasts>>
    BY <1>5 DEF DropReceiver
  <2>2. QED
    BY <1>0, <2>1, QueuesUntouched DEF TargetsCurrent, Cur
<1>6. CASE Done \/ UNCHANGED vars
  <2>1. UNCHANGED <<senders, pc, chan, targets, nBroadcasts>>
    BY <1>6 DEF Done, vars
  <2>2. QED
    BY <1>0, <2>1, QueuesUntouched DEF TargetsCurrent, Cur
<1>7. QED
  BY <1>1, <1>2, <1>3, <1>4, <1>5, <1>6 DEF Next

(***************************************************************************)
(* Subscribe/broadcast atomicity: whatever the interleaving of subscribe(), *)
(* broadcast_core's loop, dropped receivers and panics, a channel only     *)
(* holds events of broadcasts that found its sender registered when they  *)
(* took the mutex.                                                         *)
(***************************************************************************)
THEOREM NoHalfRegisteredHolds == Spec => []NoHalfRegistered
<1>1. HInv => NoHalfRegistered
  BY DEF HInv
<1>2. QED
  BY <1>1, InitHInv, NextHInv, PTL DEF Spec
=============================================================================
