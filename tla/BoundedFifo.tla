---------------------------- MODULE BoundedFifo ----------------------------
(***************************************************************************)
(* What the threads that share a ProducerConsumerQueue may rely on: a FIFO *)
(* of at most QSize items in which an item offered by one thread is put    *)
(* once and taken once.                                                    *)
(***************************************************************************)
EXTENDS Integers, Sequences

CONSTANTS Producers, Consumers, Item, NoItem, QSize

VARIABLES
  queue,  \* the items put and not yet taken, oldest first
  hand    \* the item a producer is to put, the item a consumer has taken

vars == <<queue, hand>>

Init == queue = <<>> /\ hand = [t \in Producers \cup Consumers |-> NoItem]

Offer(p, item) ==
  /\ hand[p] = NoItem
  /\ hand' = [hand EXCEPT ![p] = item]
  /\ UNCHANGED queue

Put(p) ==
  /\ hand[p] # NoItem /\ Len(queue) < QSize
  /\ queue' = Append(queue, hand[p])
  /\ hand' = [hand EXCEPT ![p] = NoItem]

(* A producer that does not wait gives up, only when the queue is full.    *)
GiveUp(p) ==
  /\ hand[p] # NoItem /\ Len(queue) = QSize
  /\ hand' = [hand EXCEPT ![p] = NoItem]
  /\ UNCHANGED queue

Take(c) ==
  /\ hand[c] = NoItem /\ queue # <<>>
  /\ hand' = [hand EXCEPT ![c] = Head(queue)]
  /\ queue' = Tail(queue)

Use(c) ==
  /\ hand[c] # NoItem
  /\ hand' = [hand EXCEPT ![c] = NoItem]
  /\ UNCHANGED queue

Next ==
  \/ \E p \in Producers : Put(p) \/ GiveUp(p) \/ \E item \in Item : Offer(p, item)
  \/ \E c \in Consumers : Take(c) \/ Use(c)

Spec == Init /\ [][Next]_vars
=============================================================================
