------------------------- MODULE BusRefinementProofs -------------------------
(***************************************************************************)
(* UnitBroadcaster implements the abstract bus UnitEventBus, for every     *)
(* number of threads, subscriptions and broadcasts, when writes to stderr *)
(* do not fail.  The argument: while a thread is in broadcast_core's loop  *)
(* it holds the mutex, so the list does not change and no other thread is *)
(* in a loop; each sender appears once in the list, so the loop visits     *)
(* each channel once, and the event counted as pending for a channel      *)
(* becomes exactly the event the send enqueues.                            *)
(***************************************************************************)
EXTENDS UnitBroadcasterProofs

\* Vec::remove(k) shifts every later element one place down.
LEMMA RemoveAtIndex ==
  ASSUME NEW S, NEW s \in Seq(S), NEW k \in 1 .. Len(s), NEW i \in 1 .. Len(s) - 1
  PROVE  RemoveAt(s, k)[i] = IF i < k THEN s[i] ELSE s[i + 1]
<1> DEFINE L == SubSeq(s, 1, k - 1)
           Rt == SubSeq(s, k + 1, Len(s))
<1>1. L \in Seq(S) /\ Len(L) = k - 1 /\ \A j \in 1 .. k - 1 : L[j] = s[j]
  BY SubSeqProperties
<1>2. Rt \in Seq(S) /\ Len(Rt) = Len(s) - k
      /\ \A j \in 1 .. Len(s) - k : Rt[j] = s[k + j]
  BY SubSeqProperties
<1> HIDE DEF L, Rt
<1>3. \A j \in 1 .. Len(L) + Len(Rt) :
        (L \o Rt)[j] = IF j <= Len(L) THEN L[j] ELSE Rt[j - Len(L)]
  BY <1>1, <1>2, ConcatProperties, Zenon
<1>4. RemoveAt(s, k) = L \o Rt
  BY DEF RemoveAt, L, Rt
<1>5. i \in 1 .. Len(L) + Len(Rt)
  BY <1>1, <1>2
<1>6. CASE i < k
  BY <1>1, <1>3, <1>4, <1>5, <1>6
<1>7. CASE ~(i < k)
  <2>1. (L \o Rt)[i] = Rt[i - Len(L)]
    BY <1>1, <1>3, <1>5, <1>7
  <2>2. i - Len(L) \in 1 .. Len(s) - k /\ k + (i - Len(L)) = i + 1
    BY <1>1, <1>7
  <2>3. QED
    BY <1>2, <1>4, <1>7, <2>1, <2>2
<1>8. QED
  BY <1>6, <1>7

\* Vec::remove keeps the elements of a list without repetitions distinct.
LEMMA RemoveAtInjective ==
  ASSUME NEW S, NEW s \in Seq(S), NEW k \in 1 .. Len(s), IsInjective(s)
  PROVE  IsInjective(RemoveAt(s, k))
<1>1. RemoveAt(s, k) \in Seq(S) /\ Len(RemoveAt(s, k)) = Len(s) - 1
  BY RemoveAtProperties
<1> SUFFICES ASSUME NEW i \in 1 .. Len(s) - 1, NEW j \in 1 .. Len(s) - 1,
                    RemoveAt(s, k)[i] = RemoveAt(s, k)[j]
             PROVE  i = j
  BY <1>1 DEF IsInjective
<1>2. /\ RemoveAt(s, k)[i] = IF i < k THEN s[i] ELSE s[i + 1]
      /\ RemoveAt(s, k)[j] = IF j < k THEN s[j] ELSE s[j + 1]
  BY RemoveAtIndex
<1>3. \A a, b \in 1 .. Len(s) : s[a] = s[b] => a = b
  BY DEF IsInjective
<1>4. i \in 1 .. Len(s) /\ j \in 1 .. Len(s) /\ i + 1 \in 1 .. Len(s)
      /\ j + 1 \in 1 .. Len(s)
  OBVIOUS
<1>5. CASE i < k /\ j < k
  BY <1>2, <1>3, <1>4, <1>5
<1>6. CASE i < k /\ ~(j < k)
  <2>1. s[i] = s[j + 1]
    BY <1>2, <1>6
  <2>2. i = j + 1
    BY <2>1, <1>3, <1>4
  <2>3. QED
    BY <2>2, <1>6
<1>7. CASE ~(i < k) /\ j < k
  <2>1. s[i + 1] = s[j]
    BY <1>2, <1>7
  <2>2. i + 1 = j
    BY <2>1, <1>3, <1>4
  <2>3. QED
    BY <2>2, <1>7
<1>8. CASE ~(i < k) /\ ~(j < k)
  <2>1. s[i + 1] = s[j + 1]
    BY <1>2, <1>8
  <2>2. QED
    BY <2>1, <1>3, <1>4
<1>9. QED
  BY <1>5, <1>6, <1>7, <1>8

\* Vec::push of an element not yet in the list keeps it without repetitions.
LEMMA PushKeepsDistinct ==
  ASSUME NEW S, NEW s \in Seq(S), NEW e, e \notin ToSet(s), IsInjective(s)
  PROVE  IsInjective(Append(s, e))
<1>1. /\ Len(Append(s, e)) = Len(s) + 1
      /\ \A i \in 1 .. Len(s) : Append(s, e)[i] = s[i]
      /\ Append(s, e)[Len(s) + 1] = e
  BY AppendProperties
<1>2. \A i \in 1 .. Len(s) : s[i] # e
  BY DEF ToSet
<1>3. \A a, b \in 1 .. Len(s) : s[a] = s[b] => a = b
  BY DEF IsInjective
<1>4. DOMAIN Append(s, e) = 1 .. Len(s) + 1
  BY <1>1
<1>5. SUFFICES ASSUME NEW i \in 1 .. Len(s) + 1, NEW j \in 1 .. Len(s) + 1,
                      Append(s, e)[i] = Append(s, e)[j]
               PROVE  i = j
  BY <1>4 DEF IsInjective
<1>6. CASE i <= Len(s) /\ j <= Len(s)
  BY <1>1, <1>3, <1>5, <1>6
<1>7. CASE i = Len(s) + 1 /\ j <= Len(s)
  BY <1>1, <1>2, <1>5, <1>7
<1>8. CASE i <= Len(s) /\ j = Len(s) + 1
  BY <1>1, <1>2, <1>5, <1>8
<1>9. QED
  BY <1>6, <1>7, <1>8
-----------------------------------------------------------------------------
(***************************************************************************)
(* The invariant the refinement needs on top of IInv: each channel is      *)
(* registered at most once, and, with stderr writable, the mutex is never *)
(* poisoned.                                                               *)
(***************************************************************************)
SendersDistinct == IsInjective(senders)

RInv == IInv /\ SendersDistinct /\ ~poisoned

LEMMA InitRInv == Init => RInv
<1> SUFFICES ASSUME Init PROVE RInv
  OBVIOUS
<1>1. IInv
  BY InitIInv
<1>2. SendersDistinct /\ ~poisoned
  BY DEF Init, SendersDistinct, IsInjective
<1>3. QED
  BY <1>1, <1>2 DEF RInv

\* subscribe() pushes a fresh channel and Vec::remove keeps the rest: no sender is listed twice.
LEMMA NextDistinct == IInv /\ SendersDistinct /\ [Next]_vars => SendersDistinct'
<1> SUFFICES ASSUME IInv, SendersDistinct, [Next]_vars PROVE SendersDistinct'
  OBVIOUS
<1>0. IInv /\ SendersDistinct
  OBVIOUS
<1>f. senders \in Seq(Chans) /\ ToSet(senders) \subseteq 1 .. nChans
  BY <1>0 DEF IInv, TypeOK, SendersCreated
<1>1. CASE \E t \in Threads : Subscribe(t)
  <2>0. PICK t \in Threads : Subscribe(t)
    BY <1>1
  <2>1. nChans + 1 \notin ToSet(senders) /\ senders' = Append(senders, nChans + 1)
    BY <1>0, <1>f, <2>0 DEF Subscribe, IInv, TypeOK
  <2>2. QED
    BY <1>0, <1>f, <2>1, PushKeepsDistinct DEF SendersDistinct
<1>2. CASE \E t \in Threads : BcRemove(t)
  <2>1. PICK t \in Threads : BcRemove(t)
    BY <1>2
  <2>2. CASE toRemove[t] = 0
    BY <1>0, <2>1, <2>2 DEF BcRemove, SendersDistinct
  <2>3. CASE toRemove[t] # 0
    <3>1. pc[t] = "send"
      BY <2>1 DEF BcRemove
    <3>2. toRemove[t] \in 1 .. Len(senders)
      BY <1>0, <2>3, <3>1 DEF IInv, LoopBounds
    <3>3. senders' = RemoveAt(senders, toRemove[t])
      BY <2>1, <2>3 DEF BcRemove
    <3>4. QED
      BY <1>0, <1>f, <3>2, <3>3, RemoveAtInjective DEF SendersDistinct
  <2>4. QED
    BY <2>2, <2>3
<1>3. CASE ~(\E t \in Threads : Subscribe(t) \/ BcRemove(t))
  <2>1. senders' = senders
    BY <1>3 DEF Next, vars, SubscribePoisoned, BcLock, BcLockPoisoned,
                BcSendOk, BcSendFail, BcSendFailPanics, DropReceiver, Done
  <2>2. QED
    BY <1>0, <2>1 DEF SendersDistinct
<1>4. QED
  BY <1>1, <1>2, <1>3

LEMMA NextRInv ==
  ASSUME ~StderrFails
  PROVE  RInv /\ [Next]_vars => RInv'
<1> SUFFICES ASSUME RInv, [Next]_vars PROVE RInv'
  OBVIOUS
<1>0. IInv /\ SendersDistinct /\ ~poisoned
  BY DEF RInv
<1>a. IInv'
  BY <1>0, NextIInv
<1>2. SendersDistinct'
  BY <1>0, NextDistinct
<1>3. ~poisoned'
  <2>1. ~\E t \in Threads : BcSendFailPanics(t)
    BY DEF BcSendFailPanics
  <2>2. QED
    BY <1>0, <2>1 DEF Next, vars, Subscribe, SubscribePoisoned, BcLock,
                      BcLockPoisoned, BcSendOk, BcSendFail, BcRemove,
                      DropReceiver, Done
<1>4. QED
  BY <1>a, <1>2, <1>3 DEF RInv
-----------------------------------------------------------------------------
(***************************************************************************)
(* The subscribers' view (Inbox) in the two kinds of states: nobody in a   *)
(* loop, or thread t in its loop with its event still to send to the      *)
(* channels at positions idx[t] .. Len(senders).                           *)
(***************************************************************************)
QuietView == [c \in Chans |-> IF alive[c] THEN chan[c] ELSE <<>>]

ToVisit(t, c) == \E i \in idx[t] .. Len(senders) : senders[i] = c

HolderView(t) ==
  [c \in Chans |->
     IF ~alive[c] THEN <<>>
     ELSE IF ToVisit(t, c) THEN Append(chan[c], Cur(t)) ELSE chan[c]]

LEMMA QuietInbox ==
  ASSUME \A u \in Threads : pc[u] # "send"
  PROVE  Inbox = QuietView
BY DEF Inbox, InLoop, QuietView

LEMMA HolderInbox ==
  ASSUME LockHeld, NEW t \in Threads, pc[t] = "send"
  PROVE  Inbox = HolderView(t)
<1>1. \A c \in Chans : InLoop(c) = IF ToVisit(t, c) THEN {t} ELSE {}
  BY DEF InLoop, LockHeld, ToVisit
<1>2. (CHOOSE x \in {t} : TRUE) = t
  OBVIOUS
<1>3. QED
  BY <1>1, <1>2 DEF Inbox, HolderView

\* Each step of UnitBroadcaster is a step of the bus or leaves its view unchanged.
LEMMA StepRefines ==
  ASSUME ~StderrFails, RInv, RInv', [Next]_vars
  PROVE  [Bus!Next]_Bus!vars
<1> USE ThreadsAssumption
<1>0. /\ TypeOK /\ LockHeld /\ LoopBounds /\ SendersCreated /\ LiveNeverPruned
      /\ SendersDistinct /\ ~poisoned
      /\ TypeOK' /\ LockHeld'
  BY DEF RInv, IInv
<1>1. ASSUME NEW t \in Threads, Subscribe(t) PROVE [Bus!Next]_Bus!vars
  <2>1. \A u \in Threads : pc[u] # "send" /\ pc'[u] # "send"
    BY <1>0, <1>1 DEF Subscribe, LockHeld
  <2>2. Inbox = QuietView
    BY <2>1, QuietInbox
  <2>3. Inbox' = QuietView'
    BY <2>1 DEF Inbox, InLoop, QuietView
  <2>4. Inbox' = Inbox
    BY <1>1, <2>2, <2>3 DEF Subscribe, QuietView
  <2>5. Bus!Subscribe
    BY <1>1, <2>4 DEF Subscribe, Bus!Subscribe
  <2>6. QED
    BY <2>5 DEF Bus!Next
<1>2. ASSUME NEW t \in Threads, BcLock(t) PROVE [Bus!Next]_Bus!vars
  <2>1. \A u \in Threads : pc[u] # "send"
    BY <1>0, <1>2 DEF BcLock, LockHeld
  <2>2. Inbox = QuietView
    BY <2>1, QuietInbox
  <2>3. \A c \in Chans : InLoop(c)' = IF c \in ToSet(senders) THEN {t} ELSE {}
    <3>1. \A u \in Threads : u # t => pc'[u] # "send"
      BY <1>2, <2>1 DEF BcLock
    <3>2. pc'[t] = "send" /\ idx'[t] = 1 /\ senders' = senders
      BY <1>0, <1>2 DEF BcLock, TypeOK
    <3>3. QED
      BY <3>1, <3>2 DEF InLoop, ToSet
  <2>4. Cur(t)' = <<t, nBroadcasts[t] + 1>>
    BY <1>0, <1>2 DEF BcLock, Cur, TypeOK
  <2>5. Inbox' = [c \in Chans |->
                    IF ~alive[c] THEN <<>>
                    ELSE IF c \in ToSet(senders)
                         THEN Append(chan[c], <<t, nBroadcasts[t] + 1>>)
                         ELSE chan[c]]
    <3>1. (CHOOSE x \in {t} : TRUE) = t
      OBVIOUS
    <3>2. alive' = alive /\ chan' = chan
      BY <1>2 DEF BcLock
    <3>3. QED
      BY <2>3, <2>4, <3>1, <3>2 DEF Inbox
  <2>6. \A c \in Chans : alive[c] => (c <= nChans <=> c \in ToSet(senders))
    <3> SUFFICES ASSUME NEW c \in Chans, alive[c]
                 PROVE  c <= nChans <=> c \in ToSet(senders)
      OBVIOUS
    <3>1. c <= nChans => c \in ToSet(senders)
      BY <1>0 DEF LiveNeverPruned, Chans
    <3>2. c \in ToSet(senders) => c <= nChans
      BY <1>0 DEF SendersCreated
    <3>3. QED
      BY <3>1, <3>2
  <2>7. Inbox' = [c \in Chans |->
                    IF c <= nChans /\ alive[c]
                    THEN Append(Inbox[c], <<t, nBroadcasts[t] + 1>>)
                    ELSE Inbox[c]]
    BY <2>2, <2>5, <2>6 DEF QuietView
  <2>8. Bus!Broadcast(t)
    BY <1>0, <1>2, <2>7 DEF BcLock, Bus!Broadcast, Bus!Chans, Chans, TypeOK
  <2>9. QED
    BY <2>8 DEF Bus!Next
<1>3. ASSUME NEW t \in Threads,
             BcSendOk(t) \/ BcSendFail(t)
      PROVE  [Bus!Next]_Bus!vars
  <2> DEFINE k == idx[t]
             c0 == senders[k]
  <2>0. /\ pc[t] = "send" /\ k \in 1 .. Len(senders)
        /\ pc' = pc /\ senders' = senders /\ idx' = [idx EXCEPT ![t] = k + 1]
        /\ alive' = alive /\ nBroadcasts' = nBroadcasts /\ nChans' = nChans
        /\ chan' = IF alive[c0] THEN [chan EXCEPT ![c0] = Append(@, Cur(t))]
                   ELSE chan
    <3>1. idx[t] \in Nat \ {0}
      BY <1>0 DEF TypeOK
    <3>2. CASE BcSendOk(t)
      BY <3>1, <3>2 DEF BcSendOk
    <3>3. CASE BcSendFail(t)
      BY <3>1, <3>3 DEF BcSendFail
    <3>4. QED
      BY <1>3, <3>2, <3>3
  <2>a. /\ DOMAIN senders = 1 .. Len(senders) /\ k \in Nat /\ c0 \in Chans
        /\ idx'[t] = k + 1 /\ chan \in [Chans -> Seq(Events)]
    BY <1>0, <2>0 DEF TypeOK
  <2>1. Inbox = HolderView(t)
    BY <1>0, <2>0, HolderInbox
  <2>2. Inbox' = HolderView(t)'
    <3>1. \A c \in Chans : InLoop(c)' = IF ToVisit(t, c)' THEN {t} ELSE {}
      BY <1>0, <2>0 DEF InLoop, LockHeld, ToVisit
    <3>2. (CHOOSE x \in {t} : TRUE) = t
      OBVIOUS
    <3>3. QED
      BY <3>1, <3>2 DEF Inbox, HolderView
  <2>3. \A c \in Chans : c # c0 => (ToVisit(t, c)' <=> ToVisit(t, c))
    <3> SUFFICES ASSUME NEW c \in Chans, c # c0
                 PROVE  ToVisit(t, c)' <=> ToVisit(t, c)
      OBVIOUS
    <3>1. ToVisit(t, c)' <=> \E i \in k + 1 .. Len(senders) : senders[i] = c
      BY <2>0, <2>a DEF ToVisit
    <3>2. ToVisit(t, c) <=> \E i \in k .. Len(senders) : senders[i] = c
      BY DEF ToVisit
    <3>3. QED
      BY <3>1, <3>2, <2>a
  <2>4. ToVisit(t, c0) /\ \A d \in Chans : d = c0 => ~ToVisit(t, d)'
    <3>1. ToVisit(t, c0)
      BY <2>0 DEF ToVisit
    <3>2. \A i \in k + 1 .. Len(senders) : senders[i] # c0
      <4> SUFFICES ASSUME NEW i \in k + 1 .. Len(senders), senders[i] = c0
                   PROVE  FALSE
        OBVIOUS
      <4>1. i \in DOMAIN senders /\ k \in DOMAIN senders /\ i # k
        BY <2>0, <2>a
      <4>2. QED
        BY <1>0, <4>1 DEF SendersDistinct, IsInjective
    <3>3. \A d \in Chans : d = c0 => ~ToVisit(t, d)'
      BY <2>0, <2>a, <3>2 DEF ToVisit
    <3>4. QED
      BY <3>1, <3>3
  <2>5. c0 \in Chans /\ chan \in [Chans -> Seq(Events)]
    BY <1>0, <2>0 DEF TypeOK
  <2>6. HolderView(t)' = HolderView(t)
    <3> SUFFICES ASSUME NEW c \in Chans
                 PROVE  HolderView(t)'[c] = HolderView(t)[c]
      BY DEF HolderView
    <3>1. CASE c = c0
      <4>1. CASE alive[c0]
        <5>1. chan'[c0] = Append(chan[c0], Cur(t))
          BY <2>0, <2>5, <4>1
        <5>2. QED
          BY <2>0, <2>4, <3>1, <4>1, <5>1 DEF HolderView, Cur
      <4>2. CASE ~alive[c0]
        BY <2>0, <3>1, <4>2 DEF HolderView
      <4>3. QED
        BY <4>1, <4>2
    <3>2. CASE c # c0
      BY <2>0, <2>3, <2>5, <3>2 DEF HolderView, Cur
    <3>3. QED
      BY <3>1, <3>2
  <2>7. UNCHANGED Bus!vars
    BY <2>0, <2>1, <2>2, <2>6 DEF Bus!vars
  <2>8. QED
    BY <2>7
<1>4. ASSUME NEW t \in Threads, BcRemove(t) PROVE [Bus!Next]_Bus!vars
  <2>1. pc[t] = "send" /\ idx[t] > Len(senders)
    BY <1>4 DEF BcRemove
  <2>2. Inbox = QuietView
    <3>1. Inbox = HolderView(t)
      BY <1>0, <2>1, HolderInbox
    <3>2. \A c \in Chans : ~ToVisit(t, c)
      BY <1>0, <2>1 DEF ToVisit, TypeOK, LoopBounds
    <3>3. QED
      BY <3>1, <3>2 DEF HolderView, QuietView
  <2>3. \A u \in Threads : pc'[u] # "send"
    BY <1>0, <1>4 DEF BcRemove, LockHeld
  <2>4. Inbox' = QuietView'
    BY <2>3 DEF Inbox, InLoop, QuietView
  <2>5. UNCHANGED Bus!vars
    BY <1>4, <2>2, <2>4 DEF BcRemove, QuietView, Bus!vars
  <2>6. QED
    BY <2>5
<1>5. ASSUME NEW c1 \in Chans, DropReceiver(c1) PROVE [Bus!Next]_Bus!vars
  <2>1. \A c \in Chans : InLoop(c)' = InLoop(c)
    BY <1>5 DEF DropReceiver, InLoop
  <2>2. Inbox' = [Inbox EXCEPT ![c1] = <<>>]
    <3>1. alive' = [alive EXCEPT ![c1] = FALSE] /\ alive \in [Chans -> BOOLEAN]
      BY <1>0, <1>5 DEF DropReceiver, TypeOK
    <3>2. UNCHANGED <<chan, nBroadcasts>>
      BY <1>5 DEF DropReceiver
    <3>3. \A c \in Chans : Inbox'[c] = [Inbox EXCEPT ![c1] = <<>>][c]
      <4> SUFFICES ASSUME NEW c \in Chans
                   PROVE  Inbox'[c] = [Inbox EXCEPT ![c1] = <<>>][c]
        OBVIOUS
      <4>1. CASE c = c1
        BY <3>1, <4>1 DEF Inbox
      <4>2. CASE c # c1
        <5>1. alive'[c] = alive[c] /\ InLoop(c)' = InLoop(c)
          BY <2>1, <3>1, <4>2
        <5>2. (CHOOSE x \in InLoop(c)' : TRUE) = (CHOOSE x \in InLoop(c) : TRUE)
          BY <5>1
        <5>3. QED
          BY <3>2, <4>2, <5>1, <5>2 DEF Inbox, Cur
      <4>3. QED
        BY <4>1, <4>2
    <3>4. QED
      BY <3>3 DEF Inbox
  <2>3. Bus!Drop(c1)
    BY <1>5, <2>2 DEF DropReceiver, Bus!Drop
  <2>4. QED
    BY <2>3 DEF Bus!Next, Bus!Chans, Chans
<1>6. CASE Done \/ UNCHANGED vars
  <2>1. UNCHANGED <<senders, nChans, alive, chan, pc, idx, nBroadcasts>>
    BY <1>6 DEF Done, vars
  <2>2. \A c \in Chans : InLoop(c)' = InLoop(c)
    BY <2>1 DEF InLoop
  <2>3. Inbox' = Inbox
    <3>1. \A c \in Chans : (CHOOSE x \in InLoop(c)' : TRUE) = (CHOOSE x \in InLoop(c) : TRUE)
      BY <2>2
    <3>2. \A c \in Chans : Inbox'[c] = Inbox[c]
      <4> SUFFICES ASSUME NEW c \in Chans PROVE Inbox'[c] = Inbox[c]
        OBVIOUS
      <4>1. alive'[c] = alive[c] /\ chan'[c] = chan[c] /\ nBroadcasts' = nBroadcasts
            /\ InLoop(c)' = InLoop(c)
        BY <2>1, <2>2
      <4>2. QED
        BY <3>1, <4>1 DEF Inbox, Cur
    <3>3. QED
      BY <3>2 DEF Inbox
  <2>4. QED
    BY <2>1, <2>3 DEF Bus!vars
<1>7. ASSUME NEW t \in Threads,
             SubscribePoisoned(t) \/ BcLockPoisoned(t) \/ BcSendFailPanics(t)
      PROVE  FALSE
  BY <1>0, <1>7 DEF SubscribePoisoned, BcLockPoisoned, BcSendFailPanics
<1>8. QED
  BY <1>1, <1>2, <1>3, <1>4, <1>5, <1>6, <1>7 DEF Next

(***************************************************************************)
(* UnitBroadcaster implements the bus of spec 4.1 when stderr is writable: *)
(* every behaviour of subscribe, broadcast_core and dropped receivers,     *)
(* seen through the subscribers' queues, is a behaviour of atomic fan-outs *)
(* to the live subscribers.                                                *)
(***************************************************************************)
THEOREM BusRefinement ==
  ASSUME ~StderrFails
  PROVE  Spec => BusRefined
<1>1. Init => Bus!Init
  <2> SUFFICES ASSUME Init PROVE Bus!Init
    OBVIOUS
  <2>1. \A c \in Chans : InLoop(c) = {}
    BY DEF Init, InLoop
  <2>2. Inbox = [c \in Chans |-> <<>>]
    BY <2>1 DEF Init, Inbox
  <2>3. QED
    BY <2>2 DEF Init, Bus!Init, Bus!Chans, Chans
<1>2. RInv /\ RInv' /\ [Next]_vars => [Bus!Next]_Bus!vars
  BY StepRefines
<1>3. RInv /\ [Next]_vars => RInv'
  BY NextRInv
<1>4. QED
  BY <1>1, <1>2, <1>3, InitRInv, PTL DEF Spec, BusRefined, Bus!Spec
=============================================================================
