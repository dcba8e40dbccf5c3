------------------------------ MODULE OrderProofs -----------------------------
(***************************************************************************)
(* Any two subscribers see the events they both received in the same      *)
(* order, whatever the interleaving of publishers, subscribe(), dropped    *)
(* receivers and panics.  The argument: only the mutex holder appends, and *)
(* it appends its one event at most once to each queue (the sender list   *)
(* has no repetitions); so while its loop runs, its event is the last of  *)
(* every queue that has it, and everything already in a queue came first. *)
(***************************************************************************)
EXTENDS BusRefinementProofs, FanOutProofs

\* The event of a thread in its loop is the last of each queue holding it,
\* and sits only in queues of senders the loop has passed.
Delivered ==
  \A t \in Threads : pc[t] = "send" =>
    \A c \in Chans : \A i \in DOMAIN chan[c] :
      chan[c][i] = Cur(t) =>
        /\ i = Len(chan[c])
        /\ \E j \in 1 .. idx[t] - 1 : senders[j] = c

OInv == HInv /\ SendersDistinct /\ Delivered /\ ConsistentOrder

LEMMA InitOInv == Init => OInv
<1> SUFFICES ASSUME Init PROVE OInv
  OBVIOUS
<1>1. HInv /\ SendersDistinct
  BY InitHInv, InitRInv DEF RInv
<1>2. Delivered /\ ConsistentOrder
  BY DEF Init, Delivered, ConsistentOrder
<1>3. QED
  BY <1>1, <1>2 DEF OInv

\* A step that appends nothing and moves no loop backwards keeps both.
LEMMA QueuesKept ==
  ASSUME Delivered, ConsistentOrder,
         UNCHANGED <<chan, senders, nBroadcasts>>,
         \A u \in Threads : pc'[u] = "send" =>
            pc[u] = "send" /\ idx[u] \in Nat /\ idx'[u] \in Nat /\ idx[u] <= idx'[u]
  PROVE  Delivered' /\ ConsistentOrder'
<1>1. Delivered'
  <2> SUFFICES ASSUME NEW u \in Threads, pc'[u] = "send",
                      NEW c \in Chans, NEW i \in DOMAIN chan[c],
                      chan[c][i] = Cur(u)
               PROVE  /\ i = Len(chan[c])
                      /\ \E j \in 1 .. idx'[u] - 1 : senders[j] = c
    BY DEF Delivered, Cur
  <2>1. /\ i = Len(chan[c])
        /\ \E j \in 1 .. idx[u] - 1 : senders[j] = c
    BY DEF Delivered
  <2>2. QED
    BY <2>1
<1>2. ConsistentOrder'
  BY DEF ConsistentOrder
<1>3. QED
  BY <1>1, <1>2

LEMMA NextOInv == OInv /\ [Next]_vars => OInv'
<1> SUFFICES ASSUME OInv, [Next]_vars PROVE OInv'
  OBVIOUS
<1>a. HInv'
  BY NextHInv DEF OInv
<1>b. SendersDistinct'
  BY NextDistinct DEF OInv, HInv
<1> SUFFICES Delivered' /\ ConsistentOrder'
  BY <1>a, <1>b DEF OInv
<1> USE ThreadsAssumption
<1>0. /\ TypeOK /\ LockHeld /\ LoopBounds /\ EventsIssued
      /\ SendersDistinct /\ Delivered /\ ConsistentOrder
  BY DEF OInv, HInv, IInv
<1>1. ASSUME NEW t \in Threads,
             SubscribePoisoned(t) \/ BcLockPoisoned(t) \/ BcSendFailPanics(t)
      PROVE  Delivered' /\ ConsistentOrder'
  <2>1. /\ UNCHANGED <<chan, senders, nBroadcasts, idx>>
        /\ pc' = [pc EXCEPT ![t] = pc'[t]] /\ pc'[t] # "send"
    BY <1>0, <1>1 DEF SubscribePoisoned, BcLockPoisoned, BcSendFailPanics, TypeOK
  <2>2. \A u \in Threads : pc'[u] = "send" =>
           pc[u] = "send" /\ idx[u] \in Nat /\ idx'[u] \in Nat /\ idx[u] <= idx'[u]
    BY <1>0, <2>1 DEF TypeOK
  <2>3. QED
    BY <1>0, <2>1, <2>2, QueuesKept
<1>8. ASSUME NEW t \in Threads, BcSendFail(t)
      PROVE  Delivered' /\ ConsistentOrder'
  <2>1. /\ UNCHANGED <<chan, senders, nBroadcasts, pc>>
        /\ idx' = [idx EXCEPT ![t] = idx[t] + 1]
    BY <1>8 DEF BcSendFail
  <2>2. \A u \in Threads : pc'[u] = "send" =>
           pc[u] = "send" /\ idx[u] \in Nat /\ idx'[u] \in Nat /\ idx[u] <= idx'[u]
    BY <1>0, <2>1 DEF TypeOK
  <2>3. QED
    BY <1>0, <2>1, <2>2, QueuesKept
<1>2. ASSUME NEW t \in Threads, Subscribe(t) \/ BcRemove(t)
      PROVE  Delivered' /\ ConsistentOrder'
  <2>1. \A u \in Threads : pc'[u] # "send"
    BY <1>0, <1>2 DEF Subscribe, BcRemove, LockHeld, TypeOK
  <2>2. chan' = chan
    BY <1>2 DEF Subscribe, BcRemove
  <2>3. QED
    BY <1>0, <2>1, <2>2 DEF Delivered, ConsistentOrder
<1>3. ASSUME NEW c1 \in Chans, DropReceiver(c1)
      PROVE  Delivered' /\ ConsistentOrder'
  <2>1. UNCHANGED <<chan, senders, nBroadcasts, pc, idx>>
    BY <1>3 DEF DropReceiver
  <2>2. QED
    BY <1>0, <2>1, QueuesKept DEF TypeOK
<1>4. CASE Done \/ UNCHANGED vars
  <2>1. UNCHANGED <<chan, senders, nBroadcasts, pc, idx>>
    BY <1>4 DEF Done, vars
  <2>2. QED
    BY <1>0, <2>1, QueuesKept DEF TypeOK
<1>5. ASSUME NEW t \in Threads, BcLock(t)
      PROVE  Delivered' /\ ConsistentOrder'
  <2>1. /\ chan' = chan /\ senders' = senders
        /\ pc' = [pc EXCEPT ![t] = "send"]
        /\ nBroadcasts' = [nBroadcasts EXCEPT ![t] = @ + 1]
        /\ \A u \in Threads : pc[u] # "send"
    BY <1>0, <1>5 DEF BcLock, LockHeld
  <2>2. Delivered'
    <3> SUFFICES ASSUME NEW u \in Threads, pc'[u] = "send",
                        NEW c \in Chans, NEW i \in DOMAIN chan[c],
                        chan[c][i] = Cur(u)'
                 PROVE  FALSE
      BY <2>1 DEF Delivered
    <3>1. u = t
      BY <1>0, <2>1 DEF TypeOK
    <3>2. Cur(u)' = <<t, nBroadcasts[t] + 1>> /\ nBroadcasts[t] \in Nat
      BY <1>0, <2>1, <3>1 DEF Cur, TypeOK
    <3>3. chan[c][i] \in Threads \X Nat
      <4>1. chan[c] \in Seq(Events)
        BY <1>0 DEF TypeOK
      <4>2. chan[c][i] \in Events
        BY <4>1
      <4>3. QED
        BY <4>2 DEF Events
    <3>4. chan[c][i][2] <= nBroadcasts[chan[c][i][1]]
      BY <1>0 DEF EventsIssued
    <3>5. QED
      BY <3>2, <3>3, <3>4
  <2>3. QED
    BY <1>0, <2>1, <2>2 DEF ConsistentOrder
<1>6. ASSUME NEW t \in Threads, BcSendOk(t)
      PROVE  Delivered' /\ ConsistentOrder'
  <2> DEFINE k == idx[t]
             c0 == senders[k]
             E == Cur(t)
             L0 == Len(chan[c0])
             New(c, i) == c = c0 /\ i = L0 + 1
  <2>0. /\ pc[t] = "send" /\ k \in 1 .. Len(senders) /\ c0 \in Chans
        /\ chan \in [Chans -> Seq(Events)] /\ L0 \in Nat
        /\ chan' = [chan EXCEPT ![c0] = Append(chan[c0], E)]
        /\ idx' = [idx EXCEPT ![t] = k + 1]
        /\ UNCHANGED <<senders, pc, nBroadcasts>>
    <3>1. /\ pc[t] = "send" /\ idx[t] <= Len(senders)
          /\ chan' = [chan EXCEPT ![c0] = Append(chan[c0], E)]
          /\ idx' = [idx EXCEPT ![t] = k + 1]
          /\ UNCHANGED <<senders, pc, nBroadcasts>>
      BY <1>6 DEF BcSendOk
    <3>2. k \in 1 .. Len(senders)
      BY <1>0, <3>1 DEF LoopBounds
    <3>3. senders \in Seq(Chans) /\ chan \in [Chans -> Seq(Events)]
      BY <1>0 DEF TypeOK
    <3>4. QED
      BY <3>1, <3>2, <3>3
  <2>1. \A i \in DOMAIN chan[c0] : chan[c0][i] # E
    <3> SUFFICES ASSUME NEW i \in DOMAIN chan[c0], chan[c0][i] = E
                 PROVE  FALSE
      OBVIOUS
    <3>1. PICK j \in 1 .. k - 1 : senders[j] = c0
      BY <1>0, <2>0 DEF Delivered
    <3>2. j \in DOMAIN senders /\ k \in DOMAIN senders /\ j # k
      <4>1. senders \in Seq(Chans) /\ k \in 1 .. Len(senders) /\ j \in 1 .. k - 1
        BY <1>0, <2>0, <3>1 DEF TypeOK
      <4>2. QED
        BY <4>1
    <3>3. QED
      BY <1>0, <3>1, <3>2 DEF SendersDistinct, IsInjective
  <2>2. \A c \in Chans :
           /\ DOMAIN chan'[c] = IF c = c0 THEN 1 .. L0 + 1 ELSE DOMAIN chan[c]
           /\ Len(chan'[c]) = IF c = c0 THEN L0 + 1 ELSE Len(chan[c])
           /\ \A i \in DOMAIN chan'[c] :
                 chan'[c][i] = IF New(c, i) THEN E ELSE chan[c][i]
    BY <2>0
  <2>3. \A c \in Chans : \A i \in DOMAIN chan'[c] :
           ~New(c, i) => i \in DOMAIN chan[c]
    BY <2>0, <2>2
  <2>4. \A c \in Chans : DOMAIN chan[c] = 1 .. Len(chan[c])
    BY <2>0
  <2>9. \A c \in Chans : DOMAIN chan'[c] = 1 .. Len(chan'[c])
    BY <2>2, <2>4
  <2>5. Delivered'
    <3> SUFFICES ASSUME NEW u \in Threads, pc'[u] = "send",
                        NEW c \in Chans, NEW i \in DOMAIN chan'[c],
                        chan'[c][i] = Cur(u)'
                 PROVE  /\ i = Len(chan'[c])
                        /\ \E j \in 1 .. idx'[u] - 1 : senders[j] = c
      BY <2>0 DEF Delivered
    <3>1. u = t /\ Cur(u)' = E /\ idx'[u] = k + 1
      BY <1>0, <2>0 DEF LockHeld, Cur, TypeOK
    <3>2. CASE New(c, i)
      BY <2>0, <2>2, <3>1, <3>2
    <3>3. CASE ~New(c, i)
      <4>1. i \in DOMAIN chan[c] /\ chan[c][i] = E
        BY <2>2, <2>3, <3>1, <3>3
      <4>2. c # c0
        BY <2>1, <4>1
      <4>3. i = Len(chan[c]) /\ \E j \in 1 .. k - 1 : senders[j] = c
        BY <1>0, <2>0, <4>1 DEF Delivered
      <4>4. QED
        BY <2>0, <2>2, <3>1, <4>2, <4>3
    <3>4. QED
      BY <3>2, <3>3
  <2>6. ConsistentOrder'
    <3> SUFFICES ASSUME NEW a \in Chans, NEW b \in Chans,
                        NEW i1 \in DOMAIN chan'[a], NEW j1 \in DOMAIN chan'[a],
                        NEW i2 \in DOMAIN chan'[b], NEW j2 \in DOMAIN chan'[b],
                        chan'[a][i1] = chan'[b][i2], chan'[a][j1] = chan'[b][j2],
                        i1 < j1
                 PROVE  i2 < j2
      BY DEF ConsistentOrder
    <3>0. /\ i1 \in Nat /\ j1 \in Nat /\ i2 \in Nat /\ j2 \in Nat
          /\ i1 <= Len(chan'[a]) /\ j1 <= Len(chan'[a])
          /\ i2 <= Len(chan'[b]) /\ j2 <= Len(chan'[b])
          /\ 1 <= i2 /\ 1 <= j2
      BY <2>2, <2>9
    <3>1. CASE ~New(a, i1) /\ ~New(a, j1) /\ ~New(b, i2) /\ ~New(b, j2)
      <4>1. /\ i1 \in DOMAIN chan[a] /\ j1 \in DOMAIN chan[a]
            /\ i2 \in DOMAIN chan[b] /\ j2 \in DOMAIN chan[b]
            /\ chan[a][i1] = chan[b][i2] /\ chan[a][j1] = chan[b][j2]
        BY <2>2, <2>3, <3>1
      <4>2. QED
        BY <1>0, <4>1 DEF ConsistentOrder
    <3>2. CASE New(a, i1)
      BY <2>2, <3>0, <3>2
    <3>3. CASE New(a, j1) /\ ~New(a, i1)
      <4>1. chan'[b][j2] = E /\ chan'[b][i2] = chan[c0][i1] /\ i1 \in DOMAIN chan[c0]
        BY <2>2, <2>3, <3>3
      <4>2. chan'[b][i2] # E
        BY <2>1, <4>1
      <4>3. CASE New(b, j2)
        BY <2>2, <3>0, <4>1, <4>2, <4>3
      <4>4. CASE ~New(b, j2)
        <5>1. j2 \in DOMAIN chan[b] /\ chan[b][j2] = E
          BY <2>2, <2>3, <4>1, <4>4
        <5>2. b # c0
          BY <2>1, <5>1
        <5>3. j2 = Len(chan[b])
          BY <1>0, <2>0, <5>1 DEF Delivered
        <5>4. i2 # j2
          BY <4>1, <4>2
        <5>5. QED
          BY <2>2, <3>0, <5>2, <5>3, <5>4
      <4>5. QED
        BY <4>3, <4>4
    <3>4. CASE New(b, i2) /\ ~New(a, i1) /\ ~New(a, j1)
      <4>1. i1 \in DOMAIN chan[a] /\ chan[a][i1] = E /\ j1 \in DOMAIN chan[a]
        BY <2>2, <2>3, <3>4
      <4>2. a # c0
        BY <2>1, <4>1
      <4>3. i1 = Len(chan[a])
        BY <1>0, <2>0, <4>1 DEF Delivered
      <4>4. QED
        BY <2>4, <3>0, <4>1, <4>3
    <3>5. CASE New(b, j2) /\ ~New(b, i2) /\ ~New(a, i1) /\ ~New(a, j1)
      <4>1. i2 \in DOMAIN chan[b]
        BY <2>3, <3>5
      <4>2. QED
        BY <2>4, <3>5, <4>1
    <3>6. QED
      BY <3>1, <3>2, <3>3, <3>4, <3>5
  <2>7. QED
    BY <2>5, <2>6
<1>7. QED
  BY <1>1, <1>2, <1>3, <1>4, <1>5, <1>6, <1>8 DEF Next

(***************************************************************************)
(* Consistent order across subscribers: whatever the interleaving of      *)
(* concurrent broadcast() calls, subscribe(), dropped receivers and        *)
(* panicking log writes, two subscribers that both received events e1 and *)
(* e2 received them in the same order.                                     *)
(***************************************************************************)
THEOREM ConsistentOrderHolds == Spec => []ConsistentOrder
<1>1. OInv => ConsistentOrder
  BY DEF OInv
<1>2. QED
  BY <1>1, InitOInv, NextOInv, PTL DEF Spec
=============================================================================
