------------------------------ MODULE UnitEventBus ------------------------------
(***************************************************************************)
(* What the event bus promises (spec 4.1, 5, 9), with no mutex and no      *)
(* loop: subscribe() registers a fresh channel; broadcast(e) is one atomic *)
(* step that appends e to the queue of every subscriber whose receiver is  *)
(* still held; dropping a receiver discards its queue.  Events are named   *)
(* <<thread, n>> as in UnitBroadcaster.                                    *)
(***************************************************************************)
EXTENDS Naturals, Sequences

CONSTANTS Threads, MaxSubs, MaxBroadcasts

Chans  == 1 .. MaxSubs
Events == Threads \X (1 .. MaxBroadcasts)

VARIABLES
  nChans,  \* subscriptions made so far
  alive,   \* alive[c]: the receiver of channel c is held
  inbox,   \* inbox[c]: what the receiver of c has been sent, oldest first
  sent     \* sent[t]: broadcasts made by thread t

vars == <<nChans, alive, inbox, sent>>

Init ==
  /\ nChans = 0
  /\ alive = [c \in Chans |-> TRUE]
  /\ inbox = [c \in Chans |-> <<>>]
  /\ sent = [t \in Threads |-> 0]

\* A new subscriber starts with an empty queue.
Subscribe ==
  /\ nChans < MaxSubs
  /\ nChans' = nChans + 1
  /\ UNCHANGED <<alive, inbox, sent>>

\* One atomic fan-out to the live subscribers.
Broadcast(t) ==
  /\ sent[t] < MaxBroadcasts
  /\ inbox' = [c \in Chans |->
                 IF c <= nChans /\ alive[c]
                 THEN Append(inbox[c], <<t, sent[t] + 1>>)
                 ELSE inbox[c]]
  /\ sent' = [sent EXCEPT ![t] = @ + 1]
  /\ UNCHANGED <<nChans, alive>>

\* The subscriber cancels by dropping its receiver, and its queue with it.
Drop(c) ==
  /\ c <= nChans
  /\ alive[c]
  /\ alive' = [alive EXCEPT ![c] = FALSE]
  /\ inbox' = [inbox EXCEPT ![c] = <<>>]
  /\ UNCHANGED <<nChans, sent>>

Next ==
  \/ Subscribe
  \/ \E t \in Threads : Broadcast(t)
  \/ \E c \in Chans : Drop(c)

Spec == Init /\ [][Next]_vars
=============================================================================
