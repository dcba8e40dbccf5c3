------------------------- MODULE FanOutCompleteProofs -------------------------
(***************************************************************************)
(* Fan-out completeness (spec 8): once broadcast(e) has returned, every    *)
(* channel registered when it took the mutex holds e exactly once, unless *)
(* its receiver was dropped.  The argument: the loop of broadcast_core     *)
(* visits senders[1], ..., senders[idx-1] in turn, the list is frozen      *)
(* while it runs and lists each channel once, so each visited live channel *)
(* got exactly one copy of the event and an unvisited one none (Delivered *)
(* of OrderProofs); no later step enqueues an event that has finished, and *)
(* a receiver once dropped is never alive again.                           *)
(***************************************************************************)
EXTENDS OrderProofs, PruneProofs, FiniteSetTheorems

\* The positions of a queue q holding event e, and those of channel c's queue.
PosIn(q, e) == {i \in DOMAIN q : q[i] = e}
Pos(c, e) == PosIn(chan[c], e)

\* Each live sender the loop has passed holds the loop's event exactly once.
LoopSent ==
  \A t \in Threads : pc[t] = "send" =>
    \A j \in 1 .. idx[t] - 1 :
      alive[senders[j]] =>
        \E i \in DOMAIN chan[senders[j]] : Pos(senders[j], Cur(t)) = {i}

\* Each live target of a finished broadcast holds its event exactly once.
FinishedSent ==
  \A e \in finished : \A c \in targets[e] :
    alive[c] => \E i \in DOMAIN chan[c] : Pos(c, e) = {i}

CInv == OInv /\ PInv /\ LoopSent /\ FinishedSent

\* Sender::send appends: the positions of e grow by the new slot iff e was sent.
LEMMA PosAppend ==
  ASSUME NEW S, NEW s \in Seq(S), NEW x, NEW e
  PROVE  PosIn(Append(s, x), e) =
           PosIn(s, e) \cup (IF x = e THEN {Len(s) + 1} ELSE {})
<1>1. /\ DOMAIN Append(s, x) = 1 .. Len(s) + 1 /\ DOMAIN s = 1 .. Len(s)
      /\ Append(s, x)[Len(s) + 1] = x
      /\ \A i \in 1 .. Len(s) : Append(s, x)[i] = s[i]
  OBVIOUS
<1>2. QED
  BY <1>1 DEF PosIn

LEMMA InitCInv == Init => CInv
<1> SUFFICES ASSUME Init PROVE CInv
  OBVIOUS
<1>1. OInv /\ PInv
  BY InitOInv, InitPInv
<1>2. LoopSent /\ FinishedSent
  BY DEF Init, LoopSent, FinishedSent
<1>3. QED
  BY <1>1, <1>2 DEF CInv

\* A step that enqueues nothing, starts or finishes no loop and revives no
\* receiver keeps both.
LEMMA SentKept ==
  ASSUME TypeOK, LoopBounds, LoopSent, FinishedSent,
         UNCHANGED <<chan, senders, idx, nBroadcasts, targets, finished>>,
         \A u \in Threads : pc'[u] = "send" => pc[u] = "send",
         \A c \in Chans : alive'[c] => alive[c]
  PROVE  LoopSent' /\ FinishedSent'
<1>0. /\ chan' = chan /\ senders' = senders /\ idx' = idx
      /\ nBroadcasts' = nBroadcasts /\ targets' = targets /\ finished' = finished
  OBVIOUS
<1>1. LoopSent'
  <2> SUFFICES ASSUME NEW t \in Threads, pc'[t] = "send",
                      NEW j \in 1 .. idx'[t] - 1, alive'[senders'[j]]
               PROVE  \E i \in DOMAIN chan'[senders'[j]] : Pos(senders[j], Cur(t))' = {i}
    BY DEF LoopSent
  <2>1. pc[t] = "send" /\ j \in 1 .. idx[t] - 1 /\ senders[j] \in Chans
    BY <1>0 DEF LoopBounds, TypeOK
  <2>2. alive[senders[j]]
    BY <1>0, <2>1
  <2>3. Pos(senders[j], Cur(t))' = Pos(senders[j], Cur(t))
    BY <1>0 DEF Pos, Cur
  <2>4. \E i \in DOMAIN chan[senders[j]] : Pos(senders[j], Cur(t)) = {i}
    BY <2>1, <2>2 DEF LoopSent
  <2>5. QED
    BY <1>0, <2>3, <2>4
<1>2. FinishedSent'
  <2> SUFFICES ASSUME NEW e \in finished, NEW c \in targets[e], alive'[c]
               PROVE  \E i \in DOMAIN chan[c] : Pos(c, e) = {i}
    BY <1>0 DEF FinishedSent, Pos
  <2>1. c \in Chans
    BY DEF TypeOK
  <2>2. QED
    BY <2>1 DEF FinishedSent
<1>3. QED
  BY <1>1, <1>2

LEMMA NextCInv == CInv /\ [Next]_vars => CInv'
<1> SUFFICES ASSUME CInv, [Next]_vars PROVE CInv'
  OBVIOUS
<1>a. OInv'
  BY NextOInv DEF CInv
<1>b. PInv'
  BY NextPInv DEF CInv
<1> SUFFICES LoopSent' /\ FinishedSent'
  BY <1>a, <1>b DEF CInv
<1> USE ThreadsAssumption
<1>0. /\ TypeOK /\ LockHeld /\ LoopBounds /\ SendersDistinct /\ TargetsCurrent
      /\ Delivered /\ FailedIssued /\ LoopUnfinished /\ LoopSent /\ FinishedSent
  BY DEF CInv, OInv, HInv, PInv, IInv
<1>1. ASSUME NEW t \in Threads,
             SubscribePoisoned(t) \/ BcLockPoisoned(t) \/ BcSendFailPanics(t)
      PROVE  LoopSent' /\ FinishedSent'
  <2>1. UNCHANGED <<chan, senders, idx, nBroadcasts, targets, finished, alive>>
    BY <1>1 DEF SubscribePoisoned, BcLockPoisoned, BcSendFailPanics
  <2>2. \A u \in Threads : pc'[u] = "send" => pc[u] = "send"
    BY <1>0, <1>1 DEF SubscribePoisoned, BcLockPoisoned, BcSendFailPanics, TypeOK
  <2>3. QED
    BY <1>0, <2>1, <2>2, SentKept
<1>2. ASSUME NEW c \in Chans, DropReceiver(c)
      PROVE  LoopSent' /\ FinishedSent'
  <2>1. alive' = [alive EXCEPT ![c] = FALSE]
    BY <1>2 DEF DropReceiver
  <2>2. \A d \in Chans : alive'[d] => alive[d]
    BY <1>0, <2>1 DEF TypeOK
  <2>3. QED
    BY <1>0, <1>2, <2>2, SentKept DEF DropReceiver
<1>3. CASE Done \/ UNCHANGED vars
  BY <1>0, <1>3, SentKept DEF Done, vars
<1>4. ASSUME NEW t \in Threads, Subscribe(t)
      PROVE  LoopSent' /\ FinishedSent'
  <2>1. /\ UNCHANGED <<chan, alive, pc, targets, finished>>
        /\ \A u \in Threads : pc[u] # "send"
    BY <1>0, <1>4 DEF Subscribe, LockHeld
  <2>2. QED
    BY <1>0, <2>1 DEF LoopSent, FinishedSent, Pos
<1>5. ASSUME NEW t \in Threads, BcSendFail(t)
      PROVE  LoopSent' /\ FinishedSent'
  <2>1. /\ UNCHANGED <<chan, alive, pc, senders, nBroadcasts, targets, finished>>
        /\ idx' = [idx EXCEPT ![t] = idx[t] + 1]
        /\ ~alive[senders[idx[t]]]
    BY <1>5 DEF BcSendFail
  <2>2. LoopSent'
    <3> SUFFICES ASSUME NEW u \in Threads, pc[u] = "send",
                        NEW j \in 1 .. idx'[u] - 1, alive[senders[j]]
                 PROVE  \E i \in DOMAIN chan[senders[j]] : Pos(senders[j], Cur(u)) = {i}
      BY <2>1 DEF LoopSent, Pos, Cur
    <3>1. u = t /\ idx[t] \in Nat
      BY <1>0, <1>5 DEF LockHeld, BcSendFail, TypeOK
    <3>2. j \in 1 .. idx[u] - 1
      BY <2>1, <3>1
    <3>3. QED
      BY <1>0, <3>2 DEF LoopSent
  <2>3. QED
    BY <1>0, <2>1, <2>2 DEF FinishedSent, Pos
<1>6. ASSUME NEW t \in Threads, BcLock(t)
      PROVE  LoopSent' /\ FinishedSent'
  <2> DEFINE N == <<t, nBroadcasts[t] + 1>>
  <2>1. /\ UNCHANGED <<chan, alive, senders, finished>>
        /\ idx' = [idx EXCEPT ![t] = 1]
        /\ pc' = [pc EXCEPT ![t] = "send"]
        /\ targets' = [targets EXCEPT ![N] = ToSet(senders)]
        /\ \A u \in Threads : pc[u] # "send"
    BY <1>0, <1>6 DEF BcLock, LockHeld
  <2>2. N \notin finished
    <3>1. nBroadcasts[t] \in Nat
      BY <1>0 DEF TypeOK
    <3>2. QED
      BY <1>0, <3>1 DEF FailedIssued, TypeOK, Events
  <2>3. LoopSent'
    BY <1>0, <2>1 DEF LoopSent, TypeOK
  <2>4. FinishedSent'
    <3> SUFFICES ASSUME NEW e \in finished, NEW c \in targets'[e], alive[c]
                 PROVE  \E i \in DOMAIN chan[c] : Pos(c, e) = {i}
      BY <2>1 DEF FinishedSent, Pos
    <3>1. targets'[e] = targets[e]
      BY <1>0, <2>1, <2>2 DEF TypeOK
    <3>2. QED
      BY <1>0, <3>1 DEF FinishedSent
  <2>5. QED
    BY <2>3, <2>4
<1>7. ASSUME NEW t \in Threads, BcRemove(t)
      PROVE  LoopSent' /\ FinishedSent'
  <2> DEFINE E == Cur(t)
  <2>1. /\ UNCHANGED <<chan, alive, targets>>
        /\ finished' = finished \cup {E}
        /\ \A u \in Threads : pc'[u] # "send"
        /\ idx[t] > Len(senders) /\ idx[t] \in 1 .. Len(senders) + 1
        /\ targets[E] = ToSet(senders) /\ senders \in Seq(Chans)
    BY <1>0, <1>7 DEF BcRemove, LockHeld, LoopBounds, TargetsCurrent, TypeOK
  <2>2. ASSUME NEW c \in targets[E], alive[c]
        PROVE  \E i \in DOMAIN chan[c] : Pos(c, E) = {i}
    <3>1. PICK j \in 1 .. Len(senders) : senders[j] = c
      BY <2>1 DEF ToSet
    <3>2. j \in 1 .. idx[t] - 1
      BY <2>1
    <3>3. QED
      BY <1>0, <1>7, <2>2, <3>1, <3>2 DEF LoopSent, BcRemove
  <2>3. FinishedSent'
    BY <1>0, <2>1, <2>2 DEF FinishedSent, Pos
  <2>4. QED
    BY <2>1, <2>3 DEF LoopSent
<1>8. ASSUME NEW t \in Threads, BcSendOk(t)
      PROVE  LoopSent' /\ FinishedSent'
  <2> DEFINE k == idx[t]
             c0 == senders[k]
             E == Cur(t)
  <2>0. /\ pc[t] = "send" /\ k \in 1 .. Len(senders) /\ c0 \in Chans
        /\ senders \in Seq(Chans) /\ chan \in [Chans -> Seq(Events)]
        /\ chan' = [chan EXCEPT ![c0] = Append(chan[c0], E)]
        /\ idx' = [idx EXCEPT ![t] = k + 1] /\ alive[c0]
        /\ UNCHANGED <<senders, pc, nBroadcasts, alive, targets, finished>>
        /\ \A u \in Threads \ {t} : pc[u] # "send"
    BY <1>0, <1>8 DEF BcSendOk, LoopBounds, LockHeld, TypeOK
  <2>1. PosIn(chan[c0], E) = {}
    <3> SUFFICES ASSUME NEW i \in DOMAIN chan[c0], chan[c0][i] = E
                 PROVE  FALSE
      BY DEF PosIn
    <3>1. PICK j \in 1 .. k - 1 : senders[j] = c0
      BY <1>0, <2>0 DEF Delivered
    <3>2. j \in DOMAIN senders /\ k \in DOMAIN senders /\ j # k
      BY <2>0, <3>1
    <3>3. QED
      BY <1>0, <3>1, <3>2 DEF SendersDistinct, IsInjective
  <2>2. \A c \in Chans : \A x :
           PosIn(chan'[c], x) = PosIn(chan[c], x) \cup
                                (IF c = c0 /\ x = E THEN {Len(chan[c0]) + 1} ELSE {})
    <3> SUFFICES ASSUME NEW c \in Chans, NEW x
                 PROVE  PosIn(chan'[c], x) = PosIn(chan[c], x) \cup
                          (IF c = c0 /\ x = E THEN {Len(chan[c0]) + 1} ELSE {})
      OBVIOUS
    <3>1. CASE c = c0
      <4>1. chan'[c] = Append(chan[c0], E) /\ chan[c0] \in Seq(Events)
        BY <2>0, <3>1
      <4>2. QED
        BY <3>1, <4>1, PosAppend
    <3>2. CASE c # c0
      BY <2>0, <3>2
    <3>3. QED
      BY <3>1, <3>2
  <2>3. \A c \in Chans : DOMAIN chan[c] \subseteq DOMAIN chan'[c]
    BY <2>0
  <2>4. LoopSent'
    <3> SUFFICES ASSUME NEW u \in Threads, pc'[u] = "send",
                        NEW j \in 1 .. idx'[u] - 1, alive'[senders'[j]]
                 PROVE  \E i \in DOMAIN chan'[senders'[j]] : Pos(senders[j], Cur(u))' = {i}
      BY DEF LoopSent
    <3>1. /\ u = t /\ j \in 1 .. k /\ senders[j] \in Chans /\ alive[senders[j]]
          /\ senders'[j] = senders[j]
      BY <1>0, <2>0 DEF TypeOK
    <3>2. Pos(senders[j], Cur(u))' = PosIn(chan'[senders[j]], E)
      BY <2>0, <3>1 DEF Pos, Cur
    <3>3. CASE j = k
      <4>1. PosIn(chan'[c0], E) = {Len(chan[c0]) + 1}
        BY <2>0, <2>1, <2>2
      <4>2. Len(chan[c0]) + 1 \in DOMAIN chan'[c0]
        BY <2>0
      <4>3. QED
        BY <3>1, <3>2, <3>3, <4>1, <4>2
    <3>4. CASE j # k
      <4>1. senders[j] # c0
        BY <1>0, <2>0, <3>1, <3>4 DEF SendersDistinct, IsInjective
      <4>2. j \in 1 .. idx[t] - 1
        BY <2>0, <3>1, <3>4
      <4>3. PICK i \in DOMAIN chan[senders[j]] : PosIn(chan[senders[j]], E) = {i}
        BY <1>0, <2>0, <3>1, <4>2 DEF LoopSent, Pos
      <4>4. PosIn(chan'[senders[j]], E) = {i}
        BY <2>2, <3>1, <4>1, <4>3
      <4>5. QED
        BY <2>3, <3>1, <3>2, <4>3, <4>4
    <3>5. QED
      BY <3>3, <3>4
  <2>5. FinishedSent'
    <3> SUFFICES ASSUME NEW e \in finished', NEW c \in targets'[e], alive'[c]
                 PROVE  \E i \in DOMAIN chan'[c] : PosIn(chan'[c], e) = {i}
      BY DEF FinishedSent, Pos
    <3>1. e \in finished /\ c \in targets[e] /\ alive[c]
      BY <2>0
    <3>2. e # E /\ c \in Chans
      <4>1. e # E
        BY <1>0, <2>0, <3>1 DEF LoopUnfinished
      <4>2. e \in Events
        BY <1>0, <3>1 DEF TypeOK
      <4>3. c \in Chans
        BY <1>0, <3>1, <4>2 DEF TypeOK
      <4>4. QED
        BY <4>1, <4>3
    <3>3. PICK i \in DOMAIN chan[c] : PosIn(chan[c], e) = {i}
      BY <1>0, <3>1 DEF FinishedSent, Pos
    <3>4. QED
      BY <2>2, <2>3, <3>2, <3>3
  <2>6. QED
    BY <2>4, <2>5
<1>9. QED
  BY <1>1, <1>2, <1>3, <1>4, <1>5, <1>6, <1>7, <1>8 DEF Next

(***************************************************************************)
(* Fan-out completeness (spec 8), for every number of threads,             *)
(* subscriptions and broadcasts, with or without panicking log writes:     *)
(* after broadcast(e) has returned, each channel registered when it took   *)
(* the mutex holds exactly one copy of e, unless its receiver was dropped. *)
(***************************************************************************)
THEOREM FanOutCompleteHolds == Spec => []FanOutComplete
<1>1. CInv => FanOutComplete
  <2> SUFFICES ASSUME CInv, NEW e \in finished, NEW c \in targets[e], alive[c]
               PROVE  Cardinality({i \in DOMAIN chan[c] : chan[c][i] = e}) = 1
    BY DEF FanOutComplete
  <2>1. PICK i \in DOMAIN chan[c] : {p \in DOMAIN chan[c] : chan[c][p] = e} = {i}
    BY DEF CInv, FinishedSent, Pos, PosIn
  <2>2. QED
    BY <2>1, FS_Singleton
<1>2. QED
  BY <1>1, InitCInv, NextCInv, PTL DEF Spec
=============================================================================
