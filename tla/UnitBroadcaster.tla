--------------------------- MODULE UnitBroadcaster ---------------------------
(***************************************************************************)
(* The event bus of src/src/unitbroadcaster.rs: a UnitBroadcaster holds    *)
(* Arc<Mutex<Vec<Sender<UnitEvent>>>>, shared by every clone of it.        *)
(* Threads clone the broadcaster and call subscribe() and broadcast()      *)
(* concurrently; the owner of a Receiver may drop it at any moment, which  *)
(* makes the next send() to its Sender fail.                               *)
(*                                                                         *)
(* broadcast_core holds the mutex for its whole loop, but the loop is not  *)
(* atomic with respect to receivers being dropped, so it is modelled one   *)
(* send per step: BcLock, then BcSendOk / BcSendFail per index, then       *)
(* BcRemove, which removes the one recorded index and releases the mutex.  *)
(*                                                                         *)
(* Data abstraction: a channel is a number (its creation order), an event  *)
(* is <<thread, n>>, the n-th broadcast of that thread.  chan[c] is every  *)
(* event ever enqueued on channel c, in order (what its receiver would     *)
(* read); draining it does not touch the broadcaster and is left out.      *)
(*                                                                         *)
(* Fault model: eprintln! panics when writing to stderr fails (a closed    *)
(* pipe).  It runs inside the critical section, so the guard is dropped    *)
(* while unwinding and the mutex is poisoned; every later lock().unwrap()  *)
(* panics in its turn.  A panicked thread is gone for good.  The same      *)
(* eprintln! is a blocking write: on a stderr pipe nobody reads it may     *)
(* never return, and the thread then keeps the mutex for ever.             *)
(***************************************************************************)
EXTENDS Naturals, Sequences, SequencesExt, FiniteSets

CONSTANTS
  Threads,        \* threads holding a clone of the broadcaster
  NoThread,       \* the mutex is free
  MaxSubs,        \* bound on the number of subscribe() calls
  MaxBroadcasts,  \* bound on the number of broadcast() calls per thread
  StderrFails,    \* whether a write to stderr may fail
  StderrBlocks    \* whether a write to stderr may block for ever

ASSUME ThreadsAssumption == NoThread \notin Threads
ASSUME BoundsAssumption == MaxSubs \in Nat /\ MaxBroadcasts \in Nat
ASSUME FaultAssumption == StderrFails \in BOOLEAN /\ StderrBlocks \in BOOLEAN

Chans  == 1 .. MaxSubs
Events == Threads \X (1 .. MaxBroadcasts)

VARIABLES
  senders,     \* the Vec<Sender<UnitEvent>> behind the mutex, as channel ids
  lock,        \* the thread holding the mutex, or NoThread
  poisoned,    \* the mutex's poison flag
  nChans,      \* number of channel() pairs created by subscribe()
  alive,       \* alive[c]: the Receiver of channel c has not been dropped
  chan,        \* chan[c]: events enqueued on channel c, oldest first
  pc,          \* "idle", "send" (inside broadcast_core), or "panicked"
  idx,         \* idx[t]: 1-based index of the next sender the loop visits
  toRemove,    \* toRemove[t]: the loop's to_remove, 0 standing for None
  nBroadcasts, \* broadcasts started by each thread (model bound only)
  targets,     \* history: targets[e] = senders in the list when e took the lock
  failed,      \* history: failed[e] = channels whose send of e failed
  finished     \* history: broadcasts whose broadcast_core has returned

vars == <<senders, lock, poisoned, nChans, alive, chan, pc, idx, toRemove,
          nBroadcasts, targets, failed, finished>>

\* The event the thread t is broadcasting (or broadcast last).
Cur(t) == <<t, nBroadcasts[t]>>

Init ==
  /\ senders = <<>>
  /\ lock = NoThread
  /\ poisoned = FALSE
  /\ nChans = 0
  /\ alive = [c \in Chans |-> TRUE]
  /\ chan = [c \in Chans |-> <<>>]
  /\ pc = [t \in Threads |-> "idle"]
  /\ idx = [t \in Threads |-> 1]
  /\ toRemove = [t \in Threads |-> 0]
  /\ nBroadcasts = [t \in Threads |-> 0]
  /\ targets = [e \in Events |-> {}]
  /\ failed = [e \in Events |-> {}]
  /\ finished = {}

\* Mutant: subscribe() pushes the sender created before this one (off by one).
SubscribeOffByOne(t) ==
  /\ pc[t] = "idle"
  /\ lock = NoThread
  /\ ~poisoned
  /\ nChans < MaxSubs
  /\ nChans' = nChans + 1
  /\ senders' = Append(senders, nChans)
  /\ UNCHANGED <<lock, poisoned, alive, chan, pc, idx, toRemove, nBroadcasts,
                 targets, failed, finished>>

\* Mutant: subscribe() pushes without taking the mutex.
SubscribeUnlocked(t) ==
  /\ pc[t] = "idle"
  /\ ~poisoned
  /\ nChans < MaxSubs
  /\ nChans' = nChans + 1
  /\ senders' = Append(senders, nChans + 1)
  /\ UNCHANGED <<lock, poisoned, alive, chan, pc, idx, toRemove, nBroadcasts,
                 targets, failed, finished>>

(***************************************************************************)
(* subscribe(): channel() then lock().unwrap().push(sender); the push is   *)
(* the only step that touches shared state and happens under the mutex.    *)
(***************************************************************************)
Subscribe(t) ==
  /\ pc[t] = "idle"
  /\ lock = NoThread
  /\ ~poisoned
  /\ nChans < MaxSubs
  /\ nChans' = nChans + 1
  /\ senders' = Append(senders, nChans + 1)
  /\ UNCHANGED <<lock, poisoned, alive, chan, pc, idx, toRemove, nBroadcasts,
                 targets, failed, finished>>

(***************************************************************************)
(* subscribe() on a poisoned mutex: lock().unwrap() panics; the new        *)
(* channel pair is dropped while unwinding and the list is untouched.      *)
(***************************************************************************)
SubscribePoisoned(t) ==
  /\ pc[t] = "idle"
  /\ lock = NoThread
  /\ poisoned
  /\ nChans < MaxSubs
  /\ pc' = [pc EXCEPT ![t] = "panicPoison"]
  /\ UNCHANGED <<senders, lock, poisoned, nChans, alive, chan, idx, toRemove,
                 nBroadcasts, targets, failed, finished>>

\* Mutant: broadcast_core does not exclude other broadcasts.
BcLockNoMutex(t) ==
  /\ pc[t] = "idle"
  /\ ~poisoned
  /\ nBroadcasts[t] < MaxBroadcasts
  /\ lock' = t
  /\ pc' = [pc EXCEPT ![t] = "send"]
  /\ idx' = [idx EXCEPT ![t] = 1]
  /\ toRemove' = [toRemove EXCEPT ![t] = 0]
  /\ nBroadcasts' = [nBroadcasts EXCEPT ![t] = @ + 1]
  /\ targets' = [targets EXCEPT ![<<t, nBroadcasts[t] + 1>>] = ToSet(senders)]
  /\ UNCHANGED <<senders, poisoned, nChans, alive, chan, failed, finished>>

(***************************************************************************)
(* broadcast(event): broadcast_core takes the mutex, to_remove = None.     *)
(***************************************************************************)
BcLock(t) ==
  /\ pc[t] = "idle"
  /\ lock = NoThread
  /\ ~poisoned
  /\ nBroadcasts[t] < MaxBroadcasts
  /\ lock' = t
  /\ pc' = [pc EXCEPT ![t] = "send"]
  /\ idx' = [idx EXCEPT ![t] = 1]
  /\ toRemove' = [toRemove EXCEPT ![t] = 0]
  /\ nBroadcasts' = [nBroadcasts EXCEPT ![t] = @ + 1]
  /\ targets' = [targets EXCEPT ![<<t, nBroadcasts[t] + 1>>] = ToSet(senders)]
  /\ UNCHANGED <<senders, poisoned, nChans, alive, chan, failed, finished>>

(***************************************************************************)
(* One iteration of the for loop: sender.send(event.clone()) succeeds when *)
(* the receiver is still held and enqueues a copy on its channel.          *)
(***************************************************************************)
BcSendOk(t) ==
  /\ pc[t] = "send"
  /\ idx[t] <= Len(senders)
  /\ alive[senders[idx[t]]]
  /\ chan' = [chan EXCEPT ![senders[idx[t]]] = Append(@, Cur(t))]
  /\ idx' = [idx EXCEPT ![t] = @ + 1]
  /\ UNCHANGED <<senders, lock, poisoned, nChans, alive, pc, toRemove, nBroadcasts,
                 targets, failed, finished>>

(***************************************************************************)
(* broadcast_core on a poisoned mutex: lock().unwrap() panics before the   *)
(* loop.                                                                   *)
(***************************************************************************)
BcLockPoisoned(t) ==
  /\ pc[t] = "idle"
  /\ lock = NoThread
  /\ poisoned
  /\ nBroadcasts[t] < MaxBroadcasts
  /\ pc' = [pc EXCEPT ![t] = "panicPoison"]
  /\ UNCHANGED <<senders, lock, poisoned, nChans, alive, chan, idx, toRemove,
                 nBroadcasts, targets, failed, finished>>

\* Mutant: pop() the last sender instead of remove(idx).
BcSendFailPop(t) ==
  /\ pc[t] = "send"
  /\ idx[t] <= Len(senders)
  /\ ~alive[senders[idx[t]]]
  /\ toRemove' = [toRemove EXCEPT ![t] = Len(senders)]
  /\ failed' = [failed EXCEPT ![Cur(t)] = @ \cup {senders[idx[t]]}]
  /\ idx' = [idx EXCEPT ![t] = @ + 1]
  /\ UNCHANGED <<senders, lock, poisoned, nChans, alive, chan, pc, nBroadcasts,
                 targets, finished>>

(***************************************************************************)
(* send() fails because the receiver was dropped: log it and overwrite     *)
(* to_remove with this index (only the last failing index is kept).        *)
(***************************************************************************)
BcSendFail(t) ==
  /\ pc[t] = "send"
  /\ idx[t] <= Len(senders)
  /\ ~alive[senders[idx[t]]]
  /\ toRemove' = [toRemove EXCEPT ![t] = idx[t]]
  /\ failed' = [failed EXCEPT ![Cur(t)] = @ \cup {senders[idx[t]]}]
  /\ idx' = [idx EXCEPT ![t] = @ + 1]
  /\ UNCHANGED <<senders, lock, poisoned, nChans, alive, chan, pc, nBroadcasts,
                 targets, finished>>

(***************************************************************************)
(* send() fails and the eprintln! that logs it panics: unwinding drops the *)
(* guard inside the loop, which releases the mutex and poisons it; the     *)
(* rest of the list never gets the event and nothing is removed.           *)
(***************************************************************************)
BcSendFailPanics(t) ==
  /\ StderrFails
  /\ pc[t] = "send"
  /\ idx[t] <= Len(senders)
  /\ ~alive[senders[idx[t]]]
  /\ lock' = NoThread
  /\ poisoned' = TRUE
  /\ pc' = [pc EXCEPT ![t] = "panicLog"]
  /\ failed' = [failed EXCEPT ![Cur(t)] = @ \cup {senders[idx[t]]}]
  /\ UNCHANGED <<senders, nChans, alive, chan, idx, toRemove, nBroadcasts,
                 targets, finished>>

\* Mutant: the loop stops one sender short of the end.
BcRemoveEarly(t) ==
  /\ pc[t] = "send"
  /\ idx[t] > Len(senders) - 1
  /\ senders' = IF toRemove[t] = 0 THEN senders
                ELSE RemoveAt(senders, toRemove[t])
  /\ lock' = NoThread
  /\ pc' = [pc EXCEPT ![t] = "idle"]
  /\ finished' = finished \cup {Cur(t)}
  /\ UNCHANGED <<poisoned, nChans, alive, chan, idx, toRemove, nBroadcasts,
                 targets, failed>>

\* Mutant: the loop's end test is off by one, one index past the end.
BcRemoveLate(t) ==
  /\ pc[t] = "send"
  /\ idx[t] > Len(senders) + 1
  /\ senders' = IF toRemove[t] = 0 THEN senders
                ELSE RemoveAt(senders, toRemove[t])
  /\ lock' = NoThread
  /\ pc' = [pc EXCEPT ![t] = "idle"]
  /\ finished' = finished \cup {Cur(t)}
  /\ UNCHANGED <<poisoned, nChans, alive, chan, idx, toRemove, nBroadcasts,
                 targets, failed>>

\* Mutant: the recorded index is never removed.
BcRemoveNothing(t) ==
  /\ pc[t] = "send"
  /\ idx[t] > Len(senders)
  /\ senders' = senders
  /\ lock' = NoThread
  /\ pc' = [pc EXCEPT ![t] = "idle"]
  /\ finished' = finished \cup {Cur(t)}
  /\ UNCHANGED <<poisoned, nChans, alive, chan, idx, toRemove, nBroadcasts,
                 targets, failed>>

(***************************************************************************)
(* After the loop: if let Some(idx) = to_remove, remove(idx); the guard is *)
(* dropped when broadcast_core returns, releasing the mutex.               *)
(***************************************************************************)
BcRemove(t) ==
  /\ pc[t] = "send"
  /\ idx[t] > Len(senders)
  /\ senders' = IF toRemove[t] = 0 THEN senders
                ELSE RemoveAt(senders, toRemove[t])
  /\ lock' = NoThread
  /\ pc' = [pc EXCEPT ![t] = "idle"]
  /\ finished' = finished \cup {Cur(t)}
  /\ UNCHANGED <<poisoned, nChans, alive, chan, idx, toRemove, nBroadcasts,
                 targets, failed>>

(***************************************************************************)
(* The owner of a Receiver drops it; nothing tells the broadcaster.        *)
(***************************************************************************)
DropReceiver(c) ==
  /\ c <= nChans
  /\ alive[c]
  /\ alive' = [alive EXCEPT ![c] = FALSE]
  /\ UNCHANGED <<senders, lock, poisoned, nChans, chan, pc, idx, toRemove,
                 nBroadcasts, targets, failed, finished>>

(***************************************************************************)
(* Every thread has spent its bounds or panicked and every receiver is    *)
(* gone: the model stops here.                                             *)
(***************************************************************************)
Done ==
  /\ \A t \in Threads :
       \/ pc[t] \in {"panicLog", "panicPoison"}
       \/ pc[t] = "idle" /\ nBroadcasts[t] = MaxBroadcasts /\ nChans = MaxSubs
  /\ \A c \in 1 .. nChans : ~alive[c]
  /\ UNCHANGED vars

Next ==
  \/ \E t \in Threads :
       \/ Subscribe(t)
       \/ SubscribePoisoned(t)
       \/ BcLock(t)
       \/ BcLockPoisoned(t)
       \/ BcSendOk(t)
       \/ BcSendFail(t)
       \/ BcSendFailPanics(t)
       \/ BcRemove(t)
  \/ \E c \in Chans : DropReceiver(c)
  \/ Done

(***************************************************************************)
(* A thread inside broadcast_core keeps taking its loop steps: it holds    *)
(* the mutex, and send() never blocks (the channels are unbounded).  A    *)
(* failed send is followed by the eprintln! at line 271, which returns or  *)
(* panics only when stderr does not block; when it may block, that step   *)
(* may never be taken.                                                     *)
(***************************************************************************)
Fairness ==
  \A t \in Threads :
    /\ WF_vars(BcSendOk(t) \/ BcRemove(t))
    /\ ~StderrBlocks => WF_vars(BcSendFail(t) \/ BcSendFailPanics(t))

Spec == Init /\ [][Next]_vars /\ Fairness

-----------------------------------------------------------------------------
TypeOK ==
  /\ senders \in Seq(Chans)
  /\ lock \in Threads \cup {NoThread}
  /\ poisoned \in BOOLEAN
  /\ nChans \in 0 .. MaxSubs
  /\ alive \in [Chans -> BOOLEAN]
  /\ chan \in [Chans -> Seq(Events)]
  /\ pc \in [Threads -> {"idle", "send", "panicLog", "panicPoison"}]
  /\ idx \in [Threads -> Nat \ {0}]
  /\ toRemove \in [Threads -> Nat]
  /\ nBroadcasts \in [Threads -> 0 .. MaxBroadcasts]
  /\ targets \in [Events -> SUBSET Chans]
  /\ failed \in [Events -> SUBSET Chans]
  /\ finished \subseteq Events

(***************************************************************************)
(* Fan-out completeness (spec 8): once broadcast(e) has returned, every    *)
(* channel that was registered when it took the mutex has e enqueued      *)
(* exactly once, unless its receiver has been dropped.  Covers the loop of *)
(* broadcast_core skipping or repeating an index.                          *)
(***************************************************************************)
FanOutComplete ==
  \A e \in finished : \A c \in targets[e] :
    ~alive[c] \/ Cardinality({i \in DOMAIN chan[c] : chan[c][i] = e}) = 1

(***************************************************************************)
(* Subscribe/broadcast atomicity (spec 4.1, 8): a channel only ever gets   *)
(* events of broadcasts that found it registered when they took the mutex; *)
(* a subscribe() racing a broadcast never sees part of it.                 *)
(***************************************************************************)
NoHalfRegistered ==
  \A c \in Chans : \A i \in DOMAIN chan[c] : c \in targets[chan[c][i]]

(***************************************************************************)
(* The pruning in broadcast_core never removes a live subscriber: a        *)
(* channel that left the sender list has had its receiver dropped.         *)
(***************************************************************************)
LiveNeverPruned ==
  \A c \in 1 .. nChans : c \notin ToSet(senders) => ~alive[c]

(***************************************************************************)
(* Self-healing (spec 4.1): each broadcast that met a dead subscriber      *)
(* removes at least one of them for good.                                  *)
(***************************************************************************)
SomeDeadPruned ==
  \A e \in finished : failed[e] # {} => ~(failed[e] \subseteq ToSet(senders))

(***************************************************************************)
(* Spec 8, fan-out completeness, second half: after a subscriber dropped   *)
(* its receiver and one further broadcast occurred, it is absent from the  *)
(* list.  broadcast_core keeps only the last failing index in to_remove.   *)
(***************************************************************************)
AllDeadPruned ==
  \A e \in finished : failed[e] \cap ToSet(senders) = {}

(***************************************************************************)
(* One order for everybody (spec 5): any two subscribers receive the       *)
(* events they both got in the same relative order, also across publisher  *)
(* threads, because the whole fan-out of broadcast_core runs under the     *)
(* mutex.                                                                  *)
(***************************************************************************)
ConsistentOrder ==
  \A c1, c2 \in Chans :
    \A i1, j1 \in DOMAIN chan[c1] : \A i2, j2 \in DOMAIN chan[c2] :
      (chan[c1][i1] = chan[c2][i2] /\ chan[c1][j1] = chan[c2][j2] /\ i1 < j1)
        => i2 < j2

(***************************************************************************)
(* Spec 7: one dead observer must not block unrelated event delivery.  A   *)
(* thread that took the mutex in broadcast_core eventually releases it,   *)
(* by returning or by unwinding, whatever the receivers do, so no other   *)
(* subscribe() or broadcast() waits for ever at lock().                   *)
(***************************************************************************)
MutexReleased ==
  \A t \in Threads : lock = t ~> lock # t

(***************************************************************************)
(* Spec 7: a dead subscriber is logged and pruned and never makes an       *)
(* unrelated call fail.  The eprintln! that logs it runs under the mutex;  *)
(* if it panics, the poisoned mutex makes every later subscribe() and      *)
(* broadcast() of every thread panic at lock().unwrap().                   *)
(***************************************************************************)
NoCollateralPanic ==
  \A t \in Threads : pc[t] # "panicPoison"

(***************************************************************************)
(* The sender list is edited only by subscribe() pushing a channel that is *)
(* not listed yet, and by broadcast_core's senders.remove(idx) dropping one *)
(* sender whose receiver is gone: never a live subscriber unregistered, a *)
(* sender listed twice, two removed at once, or the list reordered.        *)
(***************************************************************************)
SendersEdits ==
  [][\/ \E c \in Chans : c \notin ToSet(senders) /\ senders' = Append(senders, c)
     \/ \E k \in 1 .. Len(senders) :
          ~alive[senders[k]] /\ senders' = RemoveAt(senders, k)]_senders
-----------------------------------------------------------------------------
(***************************************************************************)
(* Refinement.  While a thread is in its loop, the event it is sending is  *)
(* counted as already in the queue of every channel it has still to visit; *)
(* the queue of a dropped receiver is empty.  Under this mapping BcLock is *)
(* the abstract Broadcast, the loop steps and BcRemove are stuttering      *)
(* steps, and the panic steps are not needed (StderrFails = FALSE).        *)
(***************************************************************************)
\* The threads whose loop has still to send its event to channel c.
InLoop(c) ==
  {u \in Threads : pc[u] = "send" /\ \E i \in idx[u] .. Len(senders) : senders[i] = c}

Inbox ==
  [c \in Chans |->
     IF ~alive[c] THEN <<>>
     ELSE IF InLoop(c) = {} THEN chan[c]
     ELSE Append(chan[c], Cur(CHOOSE t \in InLoop(c) : TRUE))]

Bus == INSTANCE UnitEventBus WITH inbox <- Inbox, sent <- nBroadcasts

(***************************************************************************)
(* UnitBroadcaster implements the bus of spec 4.1: every run of subscribe, *)
(* broadcast_core and receivers being dropped looks, to the subscribers,   *)
(* like a run in which each broadcast is one atomic fan-out to the         *)
(* subscribers still held, in one global order.                            *)
(***************************************************************************)
BusRefined == Bus!Spec
=============================================================================
