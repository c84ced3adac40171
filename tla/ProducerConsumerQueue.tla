----------------------- MODULE ProducerConsumerQueue -----------------------
(***************************************************************************)
(* The queue between the accept loop of the main thread and the client-    *)
(* handling thread of DD_Server: an array used as a ring under one SRW     *)
(* lock, with a condition variable for each side.                          *)
(*                                                                         *)
(* Every access to the ring happens between the acquisition and the        *)
(* release of the lock; the wake-up comes after the release.  A thread     *)
(* asleep on a condition variable has given up the lock, may be woken      *)
(* without reason, and tests its condition again with the lock taken.      *)
(***************************************************************************)
EXTENDS Integers, Sequences, FiniteSets

CONSTANTS
  Producers, Consumers,
  Waiting,   \* the threads that pass true for waitUntilConsume / waitUntilProduce
  Item, NoItem,
  QSize

ASSUME ThreadAssumption ==
  /\ IsFiniteSet(Producers) /\ IsFiniteSet(Consumers)
  /\ Producers \cap Consumers = {} /\ Waiting \subseteq Producers \cup Consumers
ASSUME ItemAssumption == NoItem \notin Item
ASSUME QSizeAssumption == QSize \in Nat \ {0}

Threads == Producers \cup Consumers

VARIABLES
  mQueueArray, mOccupiedSize, mQueueOffset,
  owner,  \* the threads that hold mSRWLock
  pc,     \* where a thread is in its call, see TypeOK
  hand    \* the item a producer brings, the item a consumer takes away

ring == <<mQueueArray, mOccupiedSize, mQueueOffset>>
vars == <<ring, owner, pc, hand>>

Init ==
  /\ mQueueArray = [i \in 0 .. QSize - 1 |-> NoItem]
  /\ mOccupiedSize = 0 /\ mQueueOffset = 0
  /\ owner = {}
  /\ pc = [t \in Threads |-> "idle"]
  /\ hand = [t \in Threads |-> NoItem]

Goto(t, from, to) == pc[t] = from /\ pc' = [pc EXCEPT ![t] = to]

(* Produce(item) is called, or Consume(item).                              *)
CallProduce(p, item) ==
  /\ Goto(p, "idle", "acquire")
  /\ hand' = [hand EXCEPT ![p] = item]
  /\ UNCHANGED <<ring, owner>>

CallConsume(c) ==
  /\ Goto(c, "idle", "acquire")
  /\ hand' = [hand EXCEPT ![c] = NoItem]
  /\ UNCHANGED <<ring, owner>>

Acquire(t) ==
  /\ owner = {} /\ owner' = {t}
  /\ Goto(t, "acquire", "locked")
  /\ UNCHANGED <<ring, hand>>

(* The loop condition: there is nothing to do for this thread.             *)
Full == mOccupiedSize = QSize
Blocked(t) == IF t \in Producers THEN Full ELSE mOccupiedSize = 0

(* SleepConditionVariableSRW gives the lock up and sleeps in one step.     *)
Sleep_KeepsLock(t) ==                                        \* mutant
  /\ Blocked(t) /\ t \in Waiting
  /\ Goto(t, "locked", "asleep")
  /\ UNCHANGED <<ring, hand, owner>>
Sleep(t) ==
  /\ Blocked(t) /\ t \in Waiting
  /\ Goto(t, "locked", "asleep")
  /\ owner' = owner \ {t}
  /\ UNCHANGED <<ring, hand>>

WakeSpuriously(t) ==
  /\ Goto(t, "asleep", "acquire")
  /\ UNCHANGED <<ring, owner, hand>>

(* The call returns false.                                                 *)
Refuse(t) ==
  /\ Blocked(t) /\ t \notin Waiting
  /\ Goto(t, "locked", "idle")
  /\ owner' = owner \ {t}
  /\ hand' = [hand EXCEPT ![t] = NoItem]
  /\ UNCHANGED ring

PutIndex_FromZero == mOccupiedSize                           \* mutant
PutIndex == (mQueueOffset + mOccupiedSize) % QSize

Put(p) ==
  /\ ~Blocked(p)
  /\ Goto(p, "locked", "release")
  /\ mQueueArray' = [mQueueArray EXCEPT ![PutIndex] = hand[p]]
  /\ mOccupiedSize' = mOccupiedSize + 1
  /\ hand' = [hand EXCEPT ![p] = NoItem]
  /\ UNCHANGED <<mQueueOffset, owner>>

Take(c) ==
  /\ ~Blocked(c)
  /\ Goto(c, "locked", "release")
  /\ hand' = [hand EXCEPT ![c] = mQueueArray[mQueueOffset]]
  /\ mOccupiedSize' = mOccupiedSize - 1
  /\ mQueueOffset' = IF mQueueOffset + 1 = QSize THEN 0 ELSE mQueueOffset + 1
  /\ UNCHANGED <<mQueueArray, owner>>

Release(t) ==
  /\ Goto(t, "release", "wake")
  /\ owner' = owner \ {t}
  /\ UNCHANGED <<ring, hand>>

(* WakeConditionVariable of the other side: one sleeper, if there is one.  *)
Sleepers(side) == {t \in side : pc[t] = "asleep"}
OtherSide_Own(t) == IF t \in Producers THEN Producers ELSE Consumers  \* mutant
OtherSide(t) == IF t \in Producers THEN Consumers ELSE Producers
Woken(t) == Sleepers(OtherSide(t))

Wake(t) ==
  /\ pc[t] = "wake"
  /\ \/ /\ Woken(t) = {}
        /\ pc' = [pc EXCEPT ![t] = "idle"]
     \/ \E u \in Woken(t) : pc' = [pc EXCEPT ![t] = "idle", ![u] = "acquire"]
  /\ UNCHANGED <<ring, owner, hand>>

Step(t) == Sleep(t) \/ Refuse(t) \/ Release(t) \/ Wake(t)

Next ==
  \/ \E t \in Threads : Acquire(t) \/ Step(t) \/ WakeSpuriously(t)
  \/ \E p \in Producers : Put(p) \/ \E item \in Item : CallProduce(p, item)
  \/ \E c \in Consumers : Take(c) \/ CallConsume(c)

Spec == Init /\ [][Next]_vars

-----------------------------------------------------------------------------
TypeOK ==
  /\ mQueueArray \in [0 .. QSize - 1 -> Item \cup {NoItem}]
  /\ mOccupiedSize \in 0 .. QSize /\ mQueueOffset \in 0 .. QSize - 1
  /\ owner \subseteq Threads
  /\ pc \in [Threads -> {"idle", "acquire", "locked", "asleep", "release", "wake"}]
  /\ hand \in [Threads -> Item \cup {NoItem}]

(* No wake-up is lost: while a producer sleeps, every free place is the    *)
(* business of a thread that is up, a consumer that took from the queue    *)
(* and will wake somebody or a producer on its way to the lock; and the    *)
(* other way round for a sleeping consumer and the items.  One             *)
(* WakeConditionVariable per item, made after the release, is enough.      *)
At(side, places) == {t \in side : pc[t] \in places}
NoLostWakeup ==
  /\ Sleepers(Producers) # {} =>
       QSize - mOccupiedSize <= Cardinality(At(Consumers, {"release", "wake"}))
                                  + Cardinality(At(Producers, {"acquire", "locked"}))
  /\ Sleepers(Consumers) # {} =>
       mOccupiedSize <= Cardinality(At(Producers, {"release", "wake"}))
                          + Cardinality(At(Consumers, {"acquire", "locked"}))

(* The ring is a bounded FIFO, whatever the interleaving.                  *)
Contents == [i \in 1 .. mOccupiedSize |-> mQueueArray[(mQueueOffset + i - 1) % QSize]]
Fifo == INSTANCE BoundedFifo WITH queue <- Contents
ImplementsFifo == Fifo!Spec

-----------------------------------------------------------------------------
(* Fairness of the two threads of the server.  A thread that can go on     *)
(* does; the client thread polls again and again, because the 100 ms timer *)
(* ends its SleepEx; and as both threads spend their time outside the lock *)
(* (in accept and in SleepEx), a thread that wants it gets it.             *)
Fairness ==
  /\ \A t \in Threads : WF_vars(Step(t)) /\ SF_vars(Acquire(t))
  /\ \A p \in Producers : WF_vars(Put(p))
  /\ \A c \in Consumers : WF_vars(Take(c)) /\ WF_vars(CallConsume(c))

LiveSpec == Spec /\ Fairness

(* The accept loop never hangs in Produce: a connection that finds the     *)
(* queue full gets in after the client thread has made room.               *)
ProduceReturns ==
  \A p \in Producers : pc[p] = "acquire" ~> pc[p] = "idle"
=============================================================================
