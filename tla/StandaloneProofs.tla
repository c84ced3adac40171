-------------------------- MODULE StandaloneProofs --------------------------
(***************************************************************************)
(* The two components that share no state with any other.                  *)
(*                                                                         *)
(* ProducerConsumerQueue, for every finite number of producers and         *)
(* consumers, every queue size and every kind of item: the lock excludes,  *)
(* no wake-up is lost, and the ring is a bounded FIFO.                     *)
(*                                                                         *)
(* ConfigTool, for every set of files, keys and texts: an edit of a        *)
(* document leaves it a tree (IsTree), keeps its keys in their places, and *)
(* what the game could read before it can read after.                      *)
(***************************************************************************)
EXTENDS ProducerConsumerQueue, ConfigTool, FiniteSetTheorems, SequenceTheorems,
        WellFoundedInduction, TLAPS

(* Where a thread may be in its call.                                      *)
Places == {"idle", "acquire", "locked", "asleep", "release", "wake"}

-----------------------------------------------------------------------------
(* Places of the ring.                                                     *)

(* An index wraps at most once.                                            *)
LEMMA Modulo ==
  ASSUME NEW a \in Nat, a < 2 * QSize
  PROVE  /\ a < QSize => a % QSize = a
         /\ QSize <= a => a % QSize = a - QSize
BY QSizeAssumption, SMT

(* Put stores within the array.                                            *)
LEMMA PutIndexType ==
  ASSUME mOccupiedSize \in 0 .. QSize, mQueueOffset \in 0 .. QSize - 1
  PROVE  PutIndex \in 0 .. QSize - 1
<1>1. mQueueOffset + mOccupiedSize \in Nat /\ mQueueOffset + mOccupiedSize < 2 * QSize
  BY QSizeAssumption
<1>2. QED
  BY <1>1, Modulo, QSizeAssumption DEF PutIndex

(* The type invariant is inductive: neither the index of Put nor the       *)
(* wrap-around of Take leaves the array, and the count stays in bounds.    *)
LEMMA TypeInit == Init => TypeOK
BY QSizeAssumption DEF Init, TypeOK

(* Each action keeps the types.                                            *)
LEMMA TypeNext == TypeOK /\ [Next]_vars => TypeOK'
<1> SUFFICES ASSUME TypeOK, [Next]_vars
             PROVE  TypeOK'
  OBVIOUS
<1> USE QSizeAssumption
<1>1. ASSUME NEW t \in Threads, Acquire(t)
      PROVE  TypeOK'
  BY <1>1 DEF Acquire, Goto, TypeOK, ring
<1>2. ASSUME NEW t \in Threads, Sleep(t)
      PROVE  TypeOK'
  BY <1>2 DEF Sleep, Goto, TypeOK, ring
<1>3. ASSUME NEW t \in Threads, Refuse(t)
      PROVE  TypeOK'
  BY <1>3 DEF Refuse, Goto, TypeOK, ring
<1>4. ASSUME NEW t \in Threads, Release(t)
      PROVE  TypeOK'
  BY <1>4 DEF Release, Goto, TypeOK, ring
<1>5. ASSUME NEW t \in Threads, Wake(t)
      PROVE  TypeOK'
  <2>1. pc' \in [Threads -> Places]
    BY <1>5 DEF Wake, Woken, Sleepers, TypeOK, Places
  <2>2. QED
    BY <1>5, <2>1 DEF Wake, TypeOK, ring, Places
<1>6. ASSUME NEW t \in Threads, WakeSpuriously(t)
      PROVE  TypeOK'
  BY <1>6 DEF WakeSpuriously, Goto, TypeOK, ring
<1>7. ASSUME NEW p \in Producers, Put(p)
      PROVE  TypeOK'
  <2>1. mOccupiedSize' \in 0 .. QSize
    BY <1>7 DEF Put, Blocked, Full, TypeOK
  <2>2. mQueueArray' \in [0 .. QSize - 1 -> Item \cup {NoItem}]
    BY <1>7, PutIndexType DEF Put, TypeOK, Threads
  <2>3. QED
    BY <1>7, <2>1, <2>2 DEF Put, Goto, TypeOK
<1>8. ASSUME NEW p \in Producers, NEW item \in Item, CallProduce(p, item)
      PROVE  TypeOK'
  BY <1>8 DEF CallProduce, Goto, TypeOK, ring
<1>9. ASSUME NEW c \in Consumers, Take(c)
      PROVE  TypeOK'
  <2>1. mOccupiedSize' \in 0 .. QSize
    BY <1>9, ThreadAssumption DEF Take, Blocked, TypeOK
  <2>2. mQueueOffset' \in 0 .. QSize - 1
    BY <1>9 DEF Take, TypeOK
  <2>3. QED
    BY <1>9, <2>1, <2>2 DEF Take, Goto, TypeOK
<1>10. ASSUME NEW c \in Consumers, CallConsume(c)
       PROVE  TypeOK'
  BY <1>10 DEF CallConsume, Goto, TypeOK, ring
<1>11. CASE UNCHANGED vars
  BY <1>11 DEF vars, ring, TypeOK
<1>12. QED
  BY <1>1, <1>2, <1>3, <1>4, <1>5, <1>6, <1>7, <1>8, <1>9, <1>10, <1>11 DEF Next, Step

-----------------------------------------------------------------------------
(* The lock: whoever is between its acquisition and its release owns it,   *)
(* and nobody else does.  All accesses to the ring happen at these places. *)
Locked == {"locked", "release"}
OwnsLock == \A t \in Threads : pc[t] \in Locked => owner = {t}
MutualExclusion == \A t, u \in Threads : pc[t] \in Locked /\ pc[u] \in Locked => t = u

(* Only the holder of the lock moves between its places.                   *)
LEMMA OwnsLockNext == TypeOK /\ OwnsLock /\ [Next]_vars => OwnsLock'
<1> SUFFICES ASSUME TypeOK, OwnsLock, [Next]_vars
             PROVE  OwnsLock'
  OBVIOUS
<1> USE DEF OwnsLock, Locked, TypeOK
<1>1. ASSUME NEW t \in Threads, Acquire(t)
      PROVE  OwnsLock'
  BY <1>1 DEF Acquire, Goto
<1>2. ASSUME NEW t \in Threads, Sleep(t)
      PROVE  OwnsLock'
  BY <1>2 DEF Sleep, Goto
<1>3. ASSUME NEW t \in Threads, Refuse(t)
      PROVE  OwnsLock'
  BY <1>3 DEF Refuse, Goto
<1>4. ASSUME NEW t \in Threads, Release(t)
      PROVE  OwnsLock'
  BY <1>4 DEF Release, Goto
<1>5. ASSUME NEW t \in Threads, Wake(t)
      PROVE  OwnsLock'
  BY <1>5 DEF Wake, Woken, Sleepers
<1>6. ASSUME NEW t \in Threads, WakeSpuriously(t)
      PROVE  OwnsLock'
  BY <1>6 DEF WakeSpuriously, Goto
<1>7. ASSUME NEW p \in Producers, Put(p)
      PROVE  OwnsLock'
  BY <1>7 DEF Put, Goto, Threads
<1>8. ASSUME NEW p \in Producers, NEW item \in Item, CallProduce(p, item)
      PROVE  OwnsLock'
  BY <1>8 DEF CallProduce, Goto
<1>9. ASSUME NEW c \in Consumers, Take(c)
      PROVE  OwnsLock'
  BY <1>9 DEF Take, Goto, Threads
<1>10. ASSUME NEW c \in Consumers, CallConsume(c)
       PROVE  OwnsLock'
  BY <1>10 DEF CallConsume, Goto
<1>11. CASE UNCHANGED vars
  BY <1>11 DEF vars
<1>12. QED
  BY <1>1, <1>2, <1>3, <1>4, <1>5, <1>6, <1>7, <1>8, <1>9, <1>10, <1>11 DEF Next, Step

(* No two threads are at the ring at the same time.                        *)
THEOREM LockSafety == Spec => [](TypeOK /\ MutualExclusion)
<1>1. Init => OwnsLock
  BY DEF Init, OwnsLock, Locked
<1>2. OwnsLock => MutualExclusion
  BY DEF OwnsLock, MutualExclusion
<1>3. QED
  BY <1>1, <1>2, TypeInit, TypeNext, OwnsLockNext, PTL DEF Spec

-----------------------------------------------------------------------------
(* Counting the threads of a side that are at some places.                 *)
Those(side, at, places) == {t \in side : at[t] \in places}

(* The threads of a side at some places are finitely many.                 *)
LEMMA SideFacts ==
  ASSUME NEW side \in {Producers, Consumers}, NEW at, NEW places
  PROVE  IsFiniteSet(Those(side, at, places)) /\ Cardinality(Those(side, at, places)) \in Nat
<1>1. IsFiniteSet(side) /\ Those(side, at, places) \in SUBSET side
  BY ThreadAssumption DEF Those
<1>2. QED
  BY <1>1, FS_Subset, FS_CardinalityType

(* One thread goes to another place, and no other moves.                   *)
Move(at, next, t, to) ==
  at \in [Threads -> Places] /\ next = [at EXCEPT ![t] = to]

(* How that changes the number of a side's threads at some places.         *)
Counted(side, at, next, t, to, places) ==
  /\ t \in side /\ at[t] \notin places /\ to \in places
       => Cardinality(Those(side, next, places)) = Cardinality(Those(side, at, places)) + 1
  /\ t \in side /\ at[t] \in places /\ to \notin places
       => Cardinality(Those(side, next, places)) = Cardinality(Those(side, at, places)) - 1
  /\ t \notin side \/ (at[t] \in places <=> to \in places)
       => Cardinality(Those(side, next, places)) = Cardinality(Those(side, at, places))

(* A thread of the side that goes from one place to another is counted     *)
(* once more or once less, or as before.                                   *)
LEMMA Moves ==
  ASSUME NEW at, NEW next, NEW t \in Threads, NEW to, Move(at, next, t, to), NEW side \in {Producers, Consumers}, NEW places
  PROVE  Counted(side, at, next, t, to, places)
<1> DEFINE S == Those(side, at, places)
           T == Those(side, next, places)
<1>1. IsFiniteSet(S) /\ Cardinality(S) \in Nat
  BY SideFacts
<1> HIDE DEF S, T
<1> SUFFICES /\ t \in side /\ at[t] \notin places /\ to \in places => Cardinality(T) = Cardinality(S) + 1
             /\ t \in side /\ at[t] \in places /\ to \notin places => Cardinality(T) = Cardinality(S) - 1
             /\ t \notin side \/ (at[t] \in places <=> to \in places) => Cardinality(T) = Cardinality(S)
  BY DEF S, T, Counted
<1>2. side \subseteq Threads
  BY DEF Threads
<1>3. CASE t \in side /\ to \in places
  <2>1. T = S \cup {t}
    BY <1>2, <1>3 DEF Those, Move, S, T
  <2>2. t \in S <=> at[t] \in places
    BY <1>3 DEF Those, S
  <2>3. QED
    BY <1>1, <1>3, <2>1, <2>2, FS_AddElement
<1>4. CASE t \in side /\ to \notin places
  <2>1. T = S \ {t}
    BY <1>2, <1>4 DEF Those, Move, S, T
  <2>2. t \in S <=> at[t] \in places
    BY <1>4 DEF Those, S
  <2>3. QED
    BY <1>1, <1>4, <2>1, <2>2, FS_RemoveElement
<1>5. CASE t \notin side
  <2>1. T = S
    BY <1>2, <1>5 DEF Those, Move, S, T
  <2>2. QED
    BY <1>5, <2>1
<1>6. QED
  BY <1>3, <1>4, <1>5

(* What NoLostWakeup counts.                                               *)
Arriving(side) == Cardinality(Those(side, pc, {"acquire", "locked"}))
Leaving(side) == Cardinality(Those(side, pc, {"release", "wake"}))

(* These numbers are natural.                                              *)
LEMMA Counts ==
  ASSUME NEW side \in {Producers, Consumers}
  PROVE  Arriving(side) \in Nat /\ Leaving(side) \in Nat /\ Arriving(side)' \in Nat /\ Leaving(side)' \in Nat
BY SideFacts DEF Arriving, Leaving

(* A move counted among the arriving.                                      *)
LEMMA ArrivingMoves ==
  ASSUME NEW t \in Threads, NEW to \in Places, Move(pc, pc', t, to),
         NEW side \in {Producers, Consumers}
  PROVE  /\ t \in side /\ pc[t] \notin {"acquire", "locked"} /\ to \in {"acquire", "locked"} => Arriving(side)' = Arriving(side) + 1
         /\ t \in side /\ pc[t] \in {"acquire", "locked"} /\ to \notin {"acquire", "locked"} => Arriving(side)' = Arriving(side) - 1
         /\ t \notin side \/ (pc[t] \in {"acquire", "locked"} <=> to \in {"acquire", "locked"}) => Arriving(side)' = Arriving(side)
<1>1. Counted(side, pc, pc', t, to, {"acquire", "locked"})
  BY Moves
<1>2. QED
  BY <1>1 DEF Counted, Arriving

(* A move counted among the leaving.                                       *)
LEMMA LeavingMoves ==
  ASSUME NEW t \in Threads, NEW to \in Places, Move(pc, pc', t, to),
         NEW side \in {Producers, Consumers}
  PROVE  /\ t \in side /\ pc[t] \notin {"release", "wake"} /\ to \in {"release", "wake"} => Leaving(side)' = Leaving(side) + 1
         /\ t \in side /\ pc[t] \in {"release", "wake"} /\ to \notin {"release", "wake"} => Leaving(side)' = Leaving(side) - 1
         /\ t \notin side \/ (pc[t] \in {"release", "wake"} <=> to \in {"release", "wake"}) => Leaving(side)' = Leaving(side)
<1>1. Counted(side, pc, pc', t, to, {"release", "wake"})
  BY Moves
<1>2. QED
  BY <1>1 DEF Counted, Leaving

(* A thread that comes to the lock is one more on its way, a thread that   *)
(* has changed the ring turns from one on its way into one that will wake. *)
LEMMA Comes ==
  ASSUME NEW t \in Threads, pc[t] \in {"idle", "asleep"}, Move(pc, pc', t, "acquire"),
         NEW side \in {Producers, Consumers}
  PROVE  /\ Arriving(side)' >= Arriving(side) /\ Leaving(side)' = Leaving(side)
         /\ Sleepers(side)' \subseteq Sleepers(side)
<1>1. Arriving(side)' >= Arriving(side)
  <2>1. t \in side => Arriving(side)' = Arriving(side) + 1
    BY ArrivingMoves DEF Places
  <2>2. t \notin side => Arriving(side)' = Arriving(side)
    BY ArrivingMoves DEF Places
  <2>3. QED
    BY <2>1, <2>2, Counts
<1>2. Leaving(side)' = Leaving(side)
  BY LeavingMoves DEF Places
<1>3. side \subseteq Threads
  BY DEF Threads
<1>4. QED
  BY <1>1, <1>2, <1>3 DEF Sleepers, Move, Places

(* Who changed the ring is counted among the leaving.                      *)
LEMMA Changes ==
  ASSUME NEW t \in Threads, pc[t] = "locked", Move(pc, pc', t, "release"),
         NEW side \in {Producers, Consumers}
  PROVE  /\ Arriving(side)' = IF t \in side THEN Arriving(side) - 1 ELSE Arriving(side)
         /\ Leaving(side)' = IF t \in side THEN Leaving(side) + 1 ELSE Leaving(side)
         /\ Sleepers(side)' \subseteq Sleepers(side)
<1>1. Arriving(side)' = IF t \in side THEN Arriving(side) - 1 ELSE Arriving(side)
  BY ArrivingMoves DEF Places
<1>2. Leaving(side)' = IF t \in side THEN Leaving(side) + 1 ELSE Leaving(side)
  BY LeavingMoves DEF Places
<1>3. side \subseteq Threads
  BY DEF Threads
<1>4. QED
  BY <1>1, <1>2, <1>3 DEF Sleepers, Move, Places

(* A step between two places that are counted alike changes no count.      *)
LEMMA Stays ==
  ASSUME NEW t \in Threads, NEW to \in Places, Move(pc, pc', t, to),
         \/ pc[t] = "acquire" /\ to = "locked"
         \/ pc[t] = "release" /\ to = "wake",
         NEW side \in {Producers, Consumers}
  PROVE  /\ Arriving(side)' = Arriving(side) /\ Leaving(side)' = Leaving(side)
         /\ Sleepers(side)' = Sleepers(side)
<1>1. Arriving(side)' = Arriving(side)
  BY ArrivingMoves DEF Places
<1>2. Leaving(side)' = Leaving(side)
  BY LeavingMoves DEF Places
<1>3. side \subseteq Threads
  BY DEF Threads
<1>4. QED
  BY <1>1, <1>2, <1>3 DEF Sleepers, Move, Places

(* A thread that sleeps or is refused found nothing to do: its own side    *)
(* needs nobody, and it leaves what is counted for the other side alone.   *)
LEMMA Gives ==
  ASSUME NEW t \in Threads, pc[t] = "locked", NEW to \in {"asleep", "idle"},
         Move(pc, pc', t, to), NEW side \in {Producers, Consumers}
  PROVE  /\ t \notin side => Arriving(side)' = Arriving(side)
         /\ t \notin side => Sleepers(side)' = Sleepers(side)
         /\ Leaving(side)' = Leaving(side)
<1>1. t \notin side => Arriving(side)' = Arriving(side)
  BY ArrivingMoves DEF Places
<1>2. Leaving(side)' = Leaving(side)
  BY LeavingMoves DEF Places
<1>3. side \subseteq Threads
  BY DEF Threads
<1>4. QED
  BY <1>1, <1>2, <1>3 DEF Sleepers, Move, Places

(* A wake-up hands the place of the thread that wakes to the one woken.    *)
LEMMA Wakes ==
  ASSUME TypeOK, NEW t \in Threads, Wake(t), NEW side \in {Producers, Consumers}
  PROVE  /\ t \in side => Arriving(side)' = Arriving(side)
         /\ t \in side => Leaving(side)' = Leaving(side) - 1
         /\ t \in side => Sleepers(side)' = Sleepers(side)
         /\ t \notin side => Leaving(side)' = Leaving(side)
         /\ t \notin side => \/ Sleepers(side)' = {}
                             \/ Arriving(side)' = Arriving(side) + 1 /\ Sleepers(side) # {}
<1>1. pc \in [Threads -> Places] /\ side \subseteq Threads /\ pc[t] = "wake"
  BY DEF TypeOK, Places, Threads, Wake
<1>2. CASE Woken(t) = {} /\ pc' = [pc EXCEPT ![t] = "idle"]
  <2>0. Move(pc, pc', t, "idle")
    BY <1>1, <1>2 DEF Move
  <2>1. Arriving(side)' = Arriving(side)
    BY <1>1, <2>0, ArrivingMoves DEF Places
  <2>2. Leaving(side)' = IF t \in side THEN Leaving(side) - 1 ELSE Leaving(side)
    BY <1>1, <2>0, LeavingMoves DEF Places
  <2>3. Sleepers(side)' = Sleepers(side)
    BY <1>1, <1>2 DEF Sleepers
  <2>4. t \notin side => Sleepers(side) = {}
    BY <1>2, ThreadAssumption DEF Woken, OtherSide, Threads
  <2>5. QED
    BY <2>1, <2>2, <2>3, <2>4
<1>3. ASSUME NEW u \in Woken(t), pc' = [pc EXCEPT ![t] = "idle", ![u] = "acquire"]
      PROVE  /\ t \in side => /\ Arriving(side)' = Arriving(side)
                              /\ Leaving(side)' = Leaving(side) - 1
                              /\ Sleepers(side)' = Sleepers(side)
             /\ t \notin side => /\ Leaving(side)' = Leaving(side)
                                 /\ Arriving(side)' = Arriving(side) + 1
                                 /\ Sleepers(side) # {}
  <2>1. /\ pc[u] = "asleep" /\ u \in Threads /\ u # t
        /\ t \in side => u \notin side
        /\ t \notin side => u \in side
    BY <1>1, <1>3, ThreadAssumption DEF Woken, OtherSide, Sleepers, Threads
  <2> DEFINE A == Those(side, pc, {"acquire", "locked"})
             L == Those(side, pc, {"release", "wake"})
  <2>2. IsFiniteSet(A) /\ IsFiniteSet(L) /\ Cardinality(A) \in Nat /\ Cardinality(L) \in Nat
    BY SideFacts
  <2>3. CASE t \in side
    <3>1. A' = A /\ L' = L \ {t} /\ t \in L /\ Sleepers(side)' = Sleepers(side)
      BY <1>1, <1>3, <2>1, <2>3 DEF Those, Sleepers
    <3>2. QED
      BY <2>2, <2>3, <3>1, FS_RemoveElement DEF Arriving, Leaving
  <2>4. CASE t \notin side
    <3>1. L' = L /\ A' = A \cup {u} /\ u \notin A /\ u \in Sleepers(side)
      BY <1>1, <1>3, <2>1, <2>4 DEF Those, Sleepers
    <3>2. QED
      BY <2>2, <2>4, <3>1, FS_AddElement DEF Arriving, Leaving
  <2>5. QED
    BY <2>3, <2>4
<1>4. QED
  BY <1>2, <1>3 DEF Wake

(* Each action keeps both inequalities.                                    *)
LEMMA NoLostWakeupNext == TypeOK /\ NoLostWakeup /\ [Next]_vars => NoLostWakeup'
<1> SUFFICES ASSUME TypeOK, NoLostWakeup, [Next]_vars
             PROVE  NoLostWakeup'
  OBVIOUS
<1> DEFINE P == Producers
           C == Consumers
           Inv == /\ Sleepers(P) # {} => QSize - mOccupiedSize <= Leaving(C) + Arriving(P)
                  /\ Sleepers(C) # {} => mOccupiedSize <= Leaving(P) + Arriving(C)
<1>1. Inv
  BY DEF NoLostWakeup, Arriving, Leaving, At, Those
<1>2. /\ mOccupiedSize \in 0 .. QSize /\ QSize \in Nat
      /\ \A p \in P : p \in Threads /\ p \notin C
      /\ \A c \in C : c \in Threads /\ c \notin P
      /\ \A t \in Threads : t \in P \/ t \in C
  BY QSizeAssumption, ThreadAssumption DEF TypeOK, Threads
<1>3. /\ Arriving(P) \in Nat /\ Leaving(P) \in Nat /\ Arriving(P)' \in Nat /\ Leaving(P)' \in Nat
      /\ Arriving(C) \in Nat /\ Leaving(C) \in Nat /\ Arriving(C)' \in Nat /\ Leaving(C)' \in Nat
  BY Counts
<1>4. SUFFICES Inv'
  BY DEF NoLostWakeup, Arriving, Leaving, At, Those
<1> HIDE DEF P, C
<1> USE <1>1, <1>2, <1>3
<1>5. ASSUME NEW t \in Threads, UNCHANGED ring, pc[t] \in {"idle", "asleep"}, pc' = [pc EXCEPT ![t] = "acquire"]
      PROVE  Inv'
  <2>0. Move(pc, pc', t, "acquire")
    BY <1>5 DEF Move, TypeOK, Places
  <2>1. /\ Arriving(P)' >= Arriving(P) /\ Leaving(P)' = Leaving(P) /\ Sleepers(P)' \subseteq Sleepers(P)
        /\ Arriving(C)' >= Arriving(C) /\ Leaving(C)' = Leaving(C) /\ Sleepers(C)' \subseteq Sleepers(C)
    BY <1>5, <2>0, Comes DEF P, C
  <2>2. QED
    BY <1>5, <2>1 DEF ring
<1>6. ASSUME NEW t \in Threads, Acquire(t) \/ Release(t)
      PROVE  Inv'
  <2>0. PICK to \in {"locked", "wake"} :
          /\ Move(pc, pc', t, to)
          /\ \/ pc[t] = "acquire" /\ to = "locked"
             \/ pc[t] = "release" /\ to = "wake"
    BY <1>6 DEF Acquire, Release, Goto, Move, TypeOK, Places
  <2>1. /\ Arriving(P)' = Arriving(P) /\ Leaving(P)' = Leaving(P) /\ Sleepers(P)' = Sleepers(P)
        /\ Arriving(C)' = Arriving(C) /\ Leaving(C)' = Leaving(C) /\ Sleepers(C)' = Sleepers(C)
    BY <2>0, Stays DEF P, C, Places
  <2>2. UNCHANGED ring
    BY <1>6 DEF Acquire, Release
  <2>3. QED
    BY <2>1, <2>2 DEF ring
<1>7. ASSUME NEW t \in Threads, Sleep(t) \/ Refuse(t)
      PROVE  Inv'
  <2>1. PICK to \in {"asleep", "idle"} : pc[t] = "locked" /\ Move(pc, pc', t, to)
    BY <1>7 DEF Sleep, Refuse, Goto, Move, TypeOK, Places
  <2>2. /\ t \notin P => Arriving(P)' = Arriving(P) /\ Sleepers(P)' = Sleepers(P)
        /\ t \notin C => Arriving(C)' = Arriving(C) /\ Sleepers(C)' = Sleepers(C)
        /\ Leaving(P)' = Leaving(P) /\ Leaving(C)' = Leaving(C)
    BY <2>1, Gives DEF P, C
  <2>3. /\ t \in P => mOccupiedSize = QSize
        /\ t \in C => mOccupiedSize = 0
    BY <1>7 DEF Sleep, Refuse, Blocked, Full, P
  <2>4. UNCHANGED ring
    BY <1>7 DEF Sleep, Refuse
  <2>5. QED
    BY <2>2, <2>3, <2>4 DEF ring
<1>8. ASSUME NEW t \in Threads, Wake(t)
      PROVE  Inv'
  <2>1. /\ t \in P => Arriving(P)' = Arriving(P) /\ Leaving(P)' = Leaving(P) - 1 /\ Sleepers(P)' = Sleepers(P)
        /\ t \in C => Arriving(C)' = Arriving(C) /\ Leaving(C)' = Leaving(C) - 1 /\ Sleepers(C)' = Sleepers(C)
        /\ t \notin P => /\ Leaving(P)' = Leaving(P)
                         /\ \/ Sleepers(P)' = {}
                            \/ Arriving(P)' = Arriving(P) + 1 /\ Sleepers(P) # {}
        /\ t \notin C => /\ Leaving(C)' = Leaving(C)
                         /\ \/ Sleepers(C)' = {}
                            \/ Arriving(C)' = Arriving(C) + 1 /\ Sleepers(C) # {}
    BY <1>8, Wakes DEF P, C
  <2>2. UNCHANGED ring
    BY <1>8 DEF Wake
  <2>3. QED
    BY <2>1, <2>2 DEF ring
<1>9. ASSUME NEW p \in Producers, Put(p)
      PROVE  Inv'
  <2>0. pc[p] = "locked" /\ Move(pc, pc', p, "release")
    BY <1>9 DEF Put, Goto, Move, TypeOK, Places
  <2>1. /\ Arriving(P)' = Arriving(P) - 1 /\ Leaving(P)' = Leaving(P) + 1 /\ Sleepers(P)' \subseteq Sleepers(P)
        /\ Arriving(C)' = Arriving(C) /\ Leaving(C)' = Leaving(C) /\ Sleepers(C)' \subseteq Sleepers(C)
    BY <1>9, <2>0, Changes DEF P, C
  <2>2. mOccupiedSize' = mOccupiedSize + 1
    BY <1>9 DEF Put
  <2>3. QED
    BY <2>1, <2>2
<1>10. ASSUME NEW c \in Consumers, Take(c)
       PROVE  Inv'
  <2>0. pc[c] = "locked" /\ Move(pc, pc', c, "release")
    BY <1>10 DEF Take, Goto, Move, TypeOK, Places
  <2>1. /\ Arriving(C)' = Arriving(C) - 1 /\ Leaving(C)' = Leaving(C) + 1 /\ Sleepers(C)' \subseteq Sleepers(C)
        /\ Arriving(P)' = Arriving(P) /\ Leaving(P)' = Leaving(P) /\ Sleepers(P)' \subseteq Sleepers(P)
    BY <1>10, <2>0, Changes DEF P, C
  <2>2. mOccupiedSize' = mOccupiedSize - 1
    BY <1>10 DEF Take
  <2>3. QED
    BY <2>1, <2>2
<1>11. CASE UNCHANGED vars
  BY <1>11 DEF vars, ring, Sleepers, Arriving, Leaving
<1>12. ASSUME NEW t \in Threads, WakeSpuriously(t)
       PROVE  Inv'
  BY <1>5, <1>12 DEF WakeSpuriously, Goto
<1>13. ASSUME NEW p \in Producers, NEW item \in Item, CallProduce(p, item)
       PROVE  Inv'
  BY <1>5, <1>13 DEF CallProduce, Goto, P
<1>14. ASSUME NEW c \in Consumers, CallConsume(c)
       PROVE  Inv'
  BY <1>5, <1>14 DEF CallConsume, Goto, C
<1>15. QED
  BY <1>6, <1>7, <1>8, <1>9, <1>10, <1>11, <1>12, <1>13, <1>14 DEF Next, Step

(* A thread that sleeps is not forgotten, however many threads there are   *)
(* and however often they wake without reason.                             *)
THEOREM WakeupSafety == Spec => []NoLostWakeup
<1>1. Init => NoLostWakeup
  <2>1. Init => Sleepers(Producers) = {} /\ Sleepers(Consumers) = {}
    BY DEF Init, Sleepers, Threads
  <2>2. QED
    BY <2>1 DEF NoLostWakeup
<1>2. QED
  BY <1>1, TypeInit, TypeNext, NoLostWakeupNext, PTL DEF Spec

-----------------------------------------------------------------------------
(* The queue refines BoundedFifo.  A producer holds an item exactly while  *)
(* it tries to put it, and a consumer that tries to take one holds none.   *)
Trying == {"acquire", "locked", "asleep"}
Hands ==
  /\ \A p \in Producers : hand[p] # NoItem <=> pc[p] \in Trying
  /\ \A c \in Consumers : pc[c] \in Trying => hand[c] = NoItem

(* Each action leaves items in the right hands.                            *)
LEMMA HandsNext == TypeOK /\ Hands /\ [Next]_vars => Hands'
<1> SUFFICES ASSUME TypeOK, Hands, [Next]_vars
             PROVE  Hands'
  OBVIOUS
<1> USE ThreadAssumption DEF Hands, Trying, TypeOK, Threads
<1>1. ASSUME NEW t \in Threads, Acquire(t)
      PROVE  Hands'
  BY <1>1 DEF Acquire, Goto
<1>2. ASSUME NEW t \in Threads, Sleep(t)
      PROVE  Hands'
  BY <1>2 DEF Sleep, Goto
<1>3. ASSUME NEW t \in Threads, Refuse(t)
      PROVE  Hands'
  BY <1>3 DEF Refuse, Goto
<1>4. ASSUME NEW t \in Threads, Release(t)
      PROVE  Hands'
  BY <1>4 DEF Release, Goto
<1>5. ASSUME NEW t \in Threads, Wake(t)
      PROVE  Hands'
  BY <1>5 DEF Wake, Woken, Sleepers
<1>6. ASSUME NEW t \in Threads, WakeSpuriously(t)
      PROVE  Hands'
  BY <1>6 DEF WakeSpuriously, Goto
<1>7. ASSUME NEW p \in Producers, Put(p)
      PROVE  Hands'
  BY <1>7 DEF Put, Goto
<1>8. ASSUME NEW p \in Producers, NEW item \in Item, CallProduce(p, item)
      PROVE  Hands'
  BY <1>8, ItemAssumption DEF CallProduce, Goto
<1>9. ASSUME NEW c \in Consumers, Take(c)
      PROVE  Hands'
  BY <1>9 DEF Take, Goto
<1>10. ASSUME NEW c \in Consumers, CallConsume(c)
       PROVE  Hands'
  BY <1>10 DEF CallConsume, Goto
<1>11. CASE UNCHANGED vars
  BY <1>11 DEF vars
<1>12. QED
  BY <1>1, <1>2, <1>3, <1>4, <1>5, <1>6, <1>7, <1>8, <1>9, <1>10, <1>11 DEF Next, Step

(* What is in the ring, as a sequence.                                     *)
Window(array, size, offset) == [i \in 1 .. size |-> array[(offset + i - 1) % QSize]]

(* The window is a sequence of items.                                      *)
LEMMA WindowType ==
  ASSUME NEW array \in [0 .. QSize - 1 -> Item \cup {NoItem}], NEW size \in 0 .. QSize, NEW offset \in 0 .. QSize - 1
  PROVE  /\ Window(array, size, offset) \in Seq(Item \cup {NoItem}) /\ Len(Window(array, size, offset)) = size
         /\ \A i \in 1 .. size :
              /\ (offset + i - 1) % QSize \in 0 .. QSize - 1
              /\ Window(array, size, offset)[i] = array[(offset + i - 1) % QSize]
<1>1. ASSUME NEW i \in 1 .. size
      PROVE  (offset + i - 1) % QSize \in 0 .. QSize - 1
  <2>1. offset + i - 1 \in Nat /\ offset + i - 1 < 2 * QSize
    BY QSizeAssumption
  <2>2. QED
    BY <2>1, Modulo, QSizeAssumption
<1>2. size \in Nat
  BY QSizeAssumption
<1>3. Window(array, size, offset) \in [1 .. size -> Item \cup {NoItem}]
  BY <1>1 DEF Window
<1>4. Window(array, size, offset) \in Seq(Item \cup {NoItem}) /\ Len(Window(array, size, offset)) = size
  BY <1>2, <1>3, SeqDef, LenProperties
<1>5. QED
  BY <1>1, <1>4 DEF Window

(* Put appends its item to the window.                                     *)
LEMMA PutContents ==
  ASSUME TypeOK, TypeOK', NEW p \in Producers, Put(p)
  PROVE  Contents' = Append(Contents, hand[p])
<1>1. /\ mOccupiedSize \in Nat /\ mOccupiedSize < QSize /\ mQueueOffset \in 0 .. QSize - 1
      /\ mOccupiedSize' = mOccupiedSize + 1 /\ mQueueOffset' = mQueueOffset
      /\ hand[p] \in Item \cup {NoItem} /\ QSize \in Nat
  BY QSizeAssumption DEF Put, Blocked, Full, TypeOK, Threads
<1>2. ASSUME NEW i \in 1 .. mOccupiedSize + 1
      PROVE  (mQueueOffset + i - 1) % QSize = PutIndex <=> i = mOccupiedSize + 1
  <2>1. /\ mQueueOffset + i - 1 \in Nat /\ mQueueOffset + i - 1 < 2 * QSize
        /\ mQueueOffset + mOccupiedSize \in Nat /\ mQueueOffset + mOccupiedSize < 2 * QSize
    BY <1>1
  <2>2. CASE mQueueOffset + mOccupiedSize < QSize
    <3>1. /\ (mQueueOffset + i - 1) % QSize = mQueueOffset + i - 1
          /\ PutIndex = mQueueOffset + mOccupiedSize
      BY <1>1, <2>1, <2>2, Modulo DEF PutIndex
    <3>2. QED
      BY <1>1, <3>1
  <2>3. CASE QSize <= mQueueOffset + mOccupiedSize /\ mQueueOffset + i - 1 < QSize
    <3>1. /\ (mQueueOffset + i - 1) % QSize = mQueueOffset + i - 1
          /\ PutIndex = mQueueOffset + mOccupiedSize - QSize
      BY <1>1, <2>1, <2>3, Modulo DEF PutIndex
    <3>2. QED
      BY <1>1, <2>3, <3>1
  <2>4. CASE QSize <= mQueueOffset + i - 1
    <3>1. /\ (mQueueOffset + i - 1) % QSize = mQueueOffset + i - 1 - QSize
          /\ PutIndex = mQueueOffset + mOccupiedSize - QSize
      BY <1>1, <2>1, <2>4, Modulo DEF PutIndex
    <3>2. QED
      BY <1>1, <3>1
  <2>5. QED
    BY <1>1, <2>2, <2>3, <2>4
<1>3. /\ Contents \in Seq(Item \cup {NoItem}) /\ Len(Contents) = mOccupiedSize
      /\ \A i \in 1 .. mOccupiedSize :
           Contents[i] = mQueueArray[(mQueueOffset + i - 1) % QSize]
  BY WindowType DEF TypeOK, Contents, Window
<1>4. /\ Contents' \in Seq(Item \cup {NoItem}) /\ Len(Contents') = mOccupiedSize + 1
      /\ \A i \in 1 .. mOccupiedSize + 1 :
           /\ (mQueueOffset + i - 1) % QSize \in 0 .. QSize - 1
           /\ Contents'[i] = mQueueArray'[(mQueueOffset + i - 1) % QSize]
  <2>1. /\ Contents' \in Seq(Item \cup {NoItem}) /\ Len(Contents') = mOccupiedSize'
        /\ \A i \in 1 .. mOccupiedSize' :
             /\ (mQueueOffset' + i - 1) % QSize \in 0 .. QSize - 1
             /\ Contents'[i] = mQueueArray'[(mQueueOffset' + i - 1) % QSize]
    BY WindowType DEF TypeOK, Contents, Window
  <2>2. QED
    BY <1>1, <2>1
<1>5. ASSUME NEW i \in 1 .. mOccupiedSize + 1
      PROVE  Contents'[i] = IF i = mOccupiedSize + 1 THEN hand[p] ELSE Contents[i]
  <2>1. mQueueArray' = [mQueueArray EXCEPT ![PutIndex] = hand[p]] /\ mQueueArray \in [0 .. QSize - 1 -> Item \cup {NoItem}]
    BY DEF Put, TypeOK
  <2>2. i # mOccupiedSize + 1 => i \in 1 .. mOccupiedSize
    BY <1>1
  <2>3. QED
    BY <1>2, <1>3, <1>4, <2>1, <2>2
<1> DEFINE after == Contents'
<1> HIDE DEF after
<1>6. after \in Seq(Item \cup {NoItem}) /\ Len(after) = mOccupiedSize + 1
      /\ \A i \in 1 .. mOccupiedSize + 1 : after[i] = IF i = mOccupiedSize + 1 THEN hand[p] ELSE Contents[i]
  BY <1>4, <1>5 DEF after
<1>7. after = Append(Contents, hand[p])
  <2>1. /\ Append(Contents, hand[p]) \in Seq(Item \cup {NoItem})
        /\ Len(Append(Contents, hand[p])) = Len(Contents) + 1
        /\ \A i \in 1 .. Len(Contents) : Append(Contents, hand[p])[i] = Contents[i]
        /\ Append(Contents, hand[p])[Len(Contents) + 1] = hand[p]
    BY <1>1, <1>3, AppendProperties
  <2>2. ASSUME NEW i \in 1 .. Len(after)
        PROVE  after[i] = Append(Contents, hand[p])[i]
    BY <1>1, <1>3, <1>6, <2>1
  <2>3. QED
    BY <1>3, <1>6, <2>1, <2>2, SeqEqual
<1>8. QED
  BY <1>7 DEF after

(* Take removes the head of the window.                                    *)
LEMMA TakeContents ==
  ASSUME TypeOK, TypeOK', NEW c \in Consumers, Take(c)
  PROVE  /\ Contents # <<>> /\ Head(Contents) = mQueueArray[mQueueOffset]
         /\ Contents' = Tail(Contents)
<1>1. /\ mOccupiedSize \in Nat /\ 0 < mOccupiedSize /\ mOccupiedSize <= QSize /\ mQueueOffset \in 0 .. QSize - 1
      /\ mOccupiedSize' = mOccupiedSize - 1 /\ QSize \in Nat /\ mQueueArray' = mQueueArray
      /\ mQueueOffset' = IF mQueueOffset + 1 = QSize THEN 0 ELSE mQueueOffset + 1
  BY QSizeAssumption, ThreadAssumption DEF Take, Blocked, TypeOK
<1>2. /\ Contents \in Seq(Item \cup {NoItem}) /\ Len(Contents) = mOccupiedSize
      /\ \A i \in 1 .. mOccupiedSize :
           Contents[i] = mQueueArray[(mQueueOffset + i - 1) % QSize]
  BY WindowType DEF TypeOK, Contents, Window
<1>3. /\ Contents' \in Seq(Item \cup {NoItem}) /\ Len(Contents') = mOccupiedSize'
      /\ \A i \in 1 .. mOccupiedSize' :
           Contents'[i] = mQueueArray'[(mQueueOffset' + i - 1) % QSize]
  BY WindowType DEF TypeOK, Contents, Window
<1>4. Contents # <<>> /\ Head(Contents) = mQueueArray[mQueueOffset]
  <2>1. mQueueOffset % QSize = mQueueOffset
    BY <1>1, Modulo
  <2>2. Contents[1] = mQueueArray[mQueueOffset]
    <3>1. 1 \in 1 .. mOccupiedSize /\ mQueueOffset + 1 - 1 = mQueueOffset
      BY <1>1
    <3>2. Contents[1] = mQueueArray[(mQueueOffset + 1 - 1) % QSize]
      BY <1>2, <3>1
    <3>3. QED
      BY <2>1, <3>1, <3>2
  <2>3. Contents # <<>>
    BY <1>1, <1>2, EmptySeq
  <2>4. QED
    BY <1>2, <2>2, <2>3
<1>5. ASSUME NEW i \in 1 .. mOccupiedSize - 1
      PROVE  (mQueueOffset' + i - 1) % QSize = (mQueueOffset + (i + 1) - 1) % QSize
  <2>1. CASE mQueueOffset + 1 # QSize
    BY <1>1, <2>1
  <2>2. CASE mQueueOffset + 1 = QSize
    <3>1. (mQueueOffset' + i - 1) % QSize = i - 1
      <4>1. mQueueOffset' + i - 1 = i - 1 /\ i - 1 \in Nat /\ i - 1 < QSize
        BY <1>1, <2>2
      <4>2. QED
        BY <1>1, <4>1, Modulo
    <3>2. (mQueueOffset + (i + 1) - 1) % QSize = i - 1
      <4>1. mQueueOffset + (i + 1) - 1 = QSize + (i - 1) /\ QSize + (i - 1) \in Nat /\ QSize + (i - 1) < 2 * QSize
        BY <1>1, <2>2
      <4>2. QED
        BY <1>1, <4>1, Modulo
    <3>3. QED
      BY <3>1, <3>2
  <2>3. QED
    BY <2>1, <2>2
<1> DEFINE after == Contents'
<1> HIDE DEF after
<1>6. /\ after \in Seq(Item \cup {NoItem}) /\ Len(after) = mOccupiedSize - 1
      /\ \A i \in 1 .. mOccupiedSize - 1 : after[i] = Contents[i + 1]
  <2>1. after \in Seq(Item \cup {NoItem}) /\ Len(after) = mOccupiedSize - 1
    BY <1>1, <1>3 DEF after
  <2>2. ASSUME NEW i \in 1 .. mOccupiedSize - 1
        PROVE  after[i] = Contents[i + 1]
    <3>1. after[i] = mQueueArray[(mQueueOffset' + i - 1) % QSize]
      BY <1>1, <1>3 DEF after
    <3>2. i + 1 \in 1 .. mOccupiedSize
      BY <1>1
    <3>3. Contents[i + 1] = mQueueArray[(mQueueOffset + (i + 1) - 1) % QSize]
      BY <1>2, <3>2
    <3>4. QED
      BY <1>5, <3>1, <3>3
  <2>3. QED
    BY <2>1, <2>2
<1>7. after = Tail(Contents)
  <2>1. /\ Tail(Contents) \in Seq(Item \cup {NoItem}) /\ Len(Tail(Contents)) = mOccupiedSize - 1
        /\ \A i \in 1 .. Len(Tail(Contents)) : Tail(Contents)[i] = Contents[i + 1]
    BY <1>2, <1>4, HeadTailProperties
  <2>2. QED
    BY <1>6, <2>1, SeqEqual
<1>8. QED
  BY <1>4, <1>7 DEF after

(* Every step is a step of the FIFO or leaves it alone: Put and Take move  *)
(* the item in one step, although the lock is held before and after it.    *)
LEMMA FifoNext == TypeOK /\ TypeOK' /\ Hands /\ [Next]_vars => [Fifo!Next]_(Fifo!vars)
<1> SUFFICES ASSUME TypeOK, TypeOK', Hands, [Next]_vars
             PROVE  [Fifo!Next]_(Fifo!vars)
  OBVIOUS
<1>1. ASSUME UNCHANGED ring, UNCHANGED hand
      PROVE  UNCHANGED Fifo!vars
  BY <1>1 DEF ring, Contents, Fifo!vars
<1>2. UNCHANGED ring => UNCHANGED Contents
  BY DEF ring, Contents
<1>3. ASSUME NEW t \in Threads, Acquire(t) \/ Sleep(t) \/ Release(t) \/ Wake(t) \/ WakeSpuriously(t)
      PROVE  UNCHANGED Fifo!vars
  BY <1>1, <1>3 DEF Acquire, Sleep, Release, Wake, WakeSpuriously
<1>4. ASSUME NEW t \in Threads, Refuse(t)
      PROVE  [Fifo!Next]_(Fifo!vars)
  <2>1. hand' = [hand EXCEPT ![t] = NoItem] /\ UNCHANGED Contents /\ pc[t] = "locked" /\ hand \in [Threads -> Item \cup {NoItem}]
    BY <1>2, <1>4 DEF Refuse, Goto, TypeOK
  <2>2. CASE t \in Producers
    <3>1. Len(Contents) = QSize
      BY <1>4, <2>2, WindowType DEF Refuse, Blocked, Full, TypeOK, Contents, Window
    <3>2. hand[t] # NoItem
      BY <2>1, <2>2 DEF Hands, Trying
    <3>3. Fifo!GiveUp(t)
      BY <2>1, <3>1, <3>2 DEF Fifo!GiveUp
    <3>4. QED
      BY <2>2, <3>3 DEF Fifo!Next
  <2>3. CASE t \in Consumers
    <3>1. hand[t] = NoItem
      BY <2>1, <2>3 DEF Hands, Trying
    <3>2. hand' = hand
      BY <2>1, <3>1
    <3>3. QED
      BY <2>1, <3>2 DEF Fifo!vars
  <2>4. QED
    BY <2>2, <2>3 DEF Threads
<1>5. ASSUME NEW p \in Producers, Put(p)
      PROVE  Fifo!Next
  <2>1. hand[p] # NoItem
    BY <1>5 DEF Put, Goto, Hands, Trying
  <2>2. Len(Contents) < QSize
    BY <1>5, WindowType, QSizeAssumption DEF Put, Blocked, Full, TypeOK, Contents, Window
  <2>3. Contents' = Append(Contents, hand[p])
    BY <1>5, PutContents
  <2>4. Fifo!Put(p)
    BY <1>5, <2>1, <2>2, <2>3 DEF Put, Fifo!Put
  <2>5. QED
    BY <2>4 DEF Fifo!Next
<1>6. ASSUME NEW p \in Producers, NEW item \in Item, CallProduce(p, item)
      PROVE  Fifo!Next
  <2>1. hand[p] = NoItem
    BY <1>6 DEF CallProduce, Goto, Hands, Trying
  <2>2. Fifo!Offer(p, item)
    BY <1>2, <1>6, <2>1 DEF CallProduce, Fifo!Offer
  <2>3. QED
    BY <2>2 DEF Fifo!Next
<1>7. ASSUME NEW c \in Consumers, Take(c)
      PROVE  Fifo!Next
  <2>1. hand[c] = NoItem
    BY <1>7 DEF Take, Goto, Hands, Trying
  <2>2. Contents # <<>> /\ Head(Contents) = mQueueArray[mQueueOffset] /\ Contents' = Tail(Contents)
    BY <1>7, TakeContents
  <2>3. Fifo!Take(c)
    BY <1>7, <2>1, <2>2 DEF Take, Fifo!Take
  <2>4. QED
    BY <2>3 DEF Fifo!Next
<1>8. ASSUME NEW c \in Consumers, CallConsume(c)
      PROVE  [Fifo!Next]_(Fifo!vars)
  <2>1. hand' = [hand EXCEPT ![c] = NoItem] /\ UNCHANGED Contents /\ hand \in [Threads -> Item \cup {NoItem}]
    BY <1>2, <1>8 DEF CallConsume, TypeOK
  <2>2. CASE hand[c] = NoItem
    <3>1. hand' = hand
      BY <2>1, <2>2
    <3>2. QED
      BY <2>1, <3>1 DEF Fifo!vars
  <2>3. CASE hand[c] # NoItem
    <3>1. Fifo!Use(c)
      BY <2>1, <2>3 DEF Fifo!Use
    <3>2. QED
      BY <3>1 DEF Fifo!Next
  <2>4. QED
    BY <2>2, <2>3
<1>9. CASE UNCHANGED vars
  BY <1>1, <1>9 DEF vars
<1>10. QED
  BY <1>3, <1>4, <1>5, <1>6, <1>7, <1>8, <1>9 DEF Next, Step

(* The ring under its lock is a bounded FIFO, whatever the interleaving of *)
(* its threads: an item put is taken once, in order, and none is lost.     *)
THEOREM Implementation == Spec => ImplementsFifo
<1>1. Init => Hands
  BY ThreadAssumption DEF Init, Hands, Trying, Threads
<1>2. Init => Fifo!Init
  <2>1. Init => Contents = <<>>
    BY DEF Init, Contents
  <2>2. QED
    BY <2>1 DEF Init, Fifo!Init, Threads
<1>3. QED
  BY <1>1, <1>2, TypeInit, TypeNext, HandsNext, FifoNext, PTL DEF Spec, ImplementsFifo, Fifo!Spec

-----------------------------------------------------------------------------
(* The game tool.  Paths.                                                  *)

(* The whole of a path.                                                    *)
LEMMA WholeSubSeq ==
  ASSUME NEW p \in Seq(Key)
  PROVE  SubSeq(p, 1, Len(p)) = p
<1> DEFINE n == Len(p)
           a == SubSeq(p, 1, n)
<1>1. n \in Nat /\ \A i \in 1 .. n : p[i] \in Key
  BY LenProperties, ElementOfSeq
<1> HIDE DEF n
<1>2. 1 \in Int /\ n \in Int
  BY <1>1
<1>3. /\ a \in Seq(Key) /\ Len(a) = IF 1 <= n THEN n - 1 + 1 ELSE 0
      /\ \A i \in 1 .. n - 1 + 1 : a[i] = p[1 + i - 1]
  BY <1>1, <1>2, SubSeqProperties
<1> HIDE DEF a
<1>4. Len(a) = n /\ \A i \in 1 .. n : a[i] = p[i]
  BY <1>1, <1>3
<1>5. Len(a) = Len(p) /\ \A i \in 1 .. Len(a) : a[i] = p[i]
  BY <1>4 DEF n
<1>6. a = p
  BY ONLY <1>3, <1>5, p \in Seq(Key), SeqEqual
<1> QED  BY <1>6 DEF a, n

(* A path below the root has a parent and a key.                           *)
LEMMA PathParts ==
  ASSUME NEW p \in Seq(Key), p # <<>>
  PROVE  /\ Len(p) \in Nat \ {0} /\ Last(p) = p[Len(p)] /\ Last(p) \in Key
         /\ Front(p) \in Seq(Key) /\ Len(Front(p)) = Len(p) - 1
         /\ \A i \in 1 .. Len(p) - 1 : Front(p)[i] = p[i]
<1> DEFINE n == Len(p)
<1>1. n \in Nat \ {0}
  BY EmptySeq
<1>2. \A i \in 1 .. n : p[i] \in Key
  BY ElementOfSeq
<1>3. Last(p) = p[n]
  BY DEF Last
<1>4. Front(p) = SubSeq(p, 1, n - 1)
  BY DEF Front
<1> HIDE DEF n
<1>5. 1 \in Int /\ n - 1 \in Int /\ \A i \in 1 .. n - 1 : p[i] \in Key
  BY <1>1, <1>2
<1>6. /\ Front(p) \in Seq(Key)
      /\ Len(Front(p)) = IF 1 <= n - 1 THEN (n - 1) - 1 + 1 ELSE 0
      /\ \A i \in 1 .. (n - 1) - 1 + 1 : Front(p)[i] = p[1 + i - 1]
  BY ONLY <1>4, <1>5, SubSeqProperties
<1>7. Len(Front(p)) = n - 1
  BY ONLY <1>1, <1>6
<1>8. \A i \in 1 .. n - 1 : Front(p)[i] = p[i]
  BY ONLY <1>1, <1>6
<1>9. Last(p) \in Key
  BY ONLY <1>1, <1>2, <1>3
<1> QED  BY ONLY <1>1, <1>3, <1>6, <1>7, <1>8, <1>9 DEF n

(* Its parent and its key are all there is to it.                          *)
LEMMA SamePath ==
  ASSUME NEW p \in Seq(Key), p # <<>>, NEW q \in Seq(Key), q # <<>>,
         Front(p) = Front(q), Last(p) = Last(q)
  PROVE  p = q
<1>1. Len(p) = Len(q) /\ Len(p) \in Nat \ {0}
  BY PathParts
<1>2. \A i \in 1 .. Len(p) : p[i] = q[i]
  <2> SUFFICES ASSUME NEW i \in 1 .. Len(p) PROVE p[i] = q[i]
    OBVIOUS
  <2>1. CASE i = Len(p)
    BY <1>1, <2>1, PathParts
  <2>2. CASE i # Len(p)
    <3>1. i \in 1 .. Len(p) - 1
      BY <1>1, <2>2
    <3> QED  BY <1>1, <3>1, PathParts
  <2> QED  BY <2>1, <2>2
<1> QED  BY <1>1, <1>2, SeqEqual

(* The parent has the path's beginning.                                    *)
LEMMA FrontBegins ==
  ASSUME NEW p \in Seq(Key), p # <<>>, NEW k \in Nat, k <= Len(p) - 1
  PROVE  SubSeq(Front(p), 1, k) = SubSeq(p, 1, k)
<1>1. Len(p) \in Nat \ {0}
  BY PathParts
<1>2. \A i \in 1 .. k : Front(p)[i] = p[i] /\ p[i] \in Key
  <2> SUFFICES ASSUME NEW i \in 1 .. k PROVE Front(p)[i] = p[i] /\ p[i] \in Key
    OBVIOUS
  <2>1. i \in 1 .. Len(p) - 1 /\ i \in 1 .. Len(p)
    BY <1>1
  <2> QED  BY <2>1, PathParts, ElementOfSeq
<1> DEFINE a == SubSeq(Front(p), 1, k)
           b == SubSeq(p, 1, k)
<1>3. 1 \in Int /\ k \in Int
  OBVIOUS
<1>4. /\ a \in Seq(Key) /\ Len(a) = IF 1 <= k THEN k - 1 + 1 ELSE 0
      /\ \A i \in 1 .. k - 1 + 1 : a[i] = Front(p)[1 + i - 1]
  BY <1>2, <1>3, SubSeqProperties
<1>5. /\ b \in Seq(Key) /\ Len(b) = IF 1 <= k THEN k - 1 + 1 ELSE 0
      /\ \A i \in 1 .. k - 1 + 1 : b[i] = p[1 + i - 1]
  BY <1>2, <1>3, SubSeqProperties
<1> HIDE DEF a, b
<1>6. Len(a) = Len(b) /\ Len(a) = k
  BY <1>4, <1>5
<1>7. \A i \in 1 .. Len(a) : a[i] = b[i]
  BY <1>2, <1>4, <1>5, <1>6
<1>8. a = b
  BY ONLY <1>4, <1>5, <1>6, <1>7, SeqEqual
<1> QED  BY <1>8 DEF a, b

(* A path is a prefix of itself and not of its parent; another one is of   *)
(* both or of neither.                                                     *)
LEMMA PrefixOfFront ==
  ASSUME NEW s \in Seq(Key), NEW p \in Seq(Key), p # <<>>
  PROVE  /\ IsPrefix(p, p) /\ ~IsPrefix(p, Front(p))
         /\ IsPrefix(s, Front(p)) => IsPrefix(s, p)
         /\ IsPrefix(s, p) => s = p \/ IsPrefix(s, Front(p))
<1>1. Len(s) \in Nat /\ Len(p) \in Nat \ {0} /\ Len(Front(p)) = Len(p) - 1
  BY LenProperties, PathParts
<1>2. IsPrefix(p, p) /\ ~IsPrefix(p, Front(p))
  BY <1>1 DEF IsPrefix
<1>3. Len(s) <= Len(p) - 1 => SubSeq(Front(p), 1, Len(s)) = SubSeq(p, 1, Len(s))
  BY <1>1, FrontBegins
<1>4. IsPrefix(s, Front(p)) => IsPrefix(s, p)
  BY <1>1, <1>3 DEF IsPrefix
<1>5. ASSUME IsPrefix(s, p) PROVE s = p \/ IsPrefix(s, Front(p))
  <2>1. CASE Len(s) <= Len(p) - 1
    BY <1>1, <1>3, <1>5, <2>1 DEF IsPrefix
  <2>2. CASE Len(s) = Len(p)
    <3>1. SubSeq(s, 1, Len(s)) = SubSeq(p, 1, Len(p))
      BY <1>5, <2>2 DEF IsPrefix
    <3>2. SubSeq(s, 1, Len(s)) = s /\ SubSeq(p, 1, Len(p)) = p
      BY WholeSubSeq
    <3> QED  BY <3>1, <3>2
  <2>3. Len(s) <= Len(p)
    BY <1>5 DEF IsPrefix
  <2> QED  BY <1>1, <2>1, <2>2, <2>3
<1> QED  BY <1>2, <1>4, <1>5

(* What is before the place that is taken out stays, and the rest moves    *)
(* down by one.                                                            *)
LEMMA RemoveAtElements ==
  ASSUME NEW S, NEW s \in Seq(S), NEW i \in 1 .. Len(s)
  PROVE  /\ RemoveAt(s, i) \in Seq(S) /\ Len(RemoveAt(s, i)) = Len(s) - 1
         /\ \A j \in 1 .. i - 1 : RemoveAt(s, i)[j] = s[j]
         /\ \A j \in i .. Len(s) - 1 : RemoveAt(s, i)[j] = s[j + 1]
<1>1. Len(s) \in Nat /\ i \in 1 .. Len(s)
  BY LenProperties
<1>2. \A j \in 1 .. Len(s) : s[j] \in S
  BY ElementOfSeq
<1> DEFINE a == SubSeq(s, 1, i - 1)
           b == SubSeq(s, i + 1, Len(s))
<1>3. /\ a \in Seq(S) /\ Len(a) = i - 1
      /\ \A j \in 1 .. i - 1 : a[j] = s[j]
  <2>1. 1 \in Int /\ i - 1 \in Int /\ \A j \in 1 .. i - 1 : s[j] \in S
    BY <1>1, <1>2
  <2>2. /\ a \in Seq(S) /\ Len(a) = IF 1 <= i - 1 THEN (i - 1) - 1 + 1 ELSE 0
        /\ \A j \in 1 .. (i - 1) - 1 + 1 : a[j] = s[1 + j - 1]
    BY <2>1, SubSeqProperties
  <2> HIDE DEF a
  <2> QED  BY <1>1, <2>2
<1>4. /\ b \in Seq(S) /\ Len(b) = Len(s) - i
      /\ \A j \in 1 .. Len(s) - i : b[j] = s[i + j]
  <2>1. i + 1 \in Int /\ Len(s) \in Int /\ \A j \in i + 1 .. Len(s) : s[j] \in S
    BY <1>1, <1>2
  <2>2. /\ b \in Seq(S) /\ Len(b) = IF i + 1 <= Len(s) THEN Len(s) - (i + 1) + 1 ELSE 0
        /\ \A j \in 1 .. Len(s) - (i + 1) + 1 : b[j] = s[(i + 1) + j - 1]
    BY <2>1, SubSeqProperties
  <2> HIDE DEF b
  <2>3. Len(b) = Len(s) - i
    BY <1>1, <2>2
  <2>4. ASSUME NEW j \in 1 .. Len(s) - i PROVE b[j] = s[i + j]
    <3>1. j \in 1 .. Len(s) - (i + 1) + 1 /\ (i + 1) + j - 1 = i + j
      BY <1>1
    <3> QED  BY <2>2, <3>1
  <2> QED  BY <2>2, <2>3, <2>4
<1> HIDE DEF a, b
<1>5. /\ a \o b \in Seq(S) /\ Len(a \o b) = Len(a) + Len(b)
      /\ \A j \in 1 .. Len(a) + Len(b) : (a \o b)[j] = IF j <= Len(a) THEN a[j] ELSE b[j - Len(a)]
  BY <1>3, <1>4, ConcatProperties
<1>6. RemoveAt(s, i) = a \o b
  BY DEF RemoveAt, a, b
<1>7. Len(a \o b) = Len(s) - 1
  BY ONLY <1>1, <1>3, <1>4, <1>5
<1>8. ASSUME NEW j \in 1 .. i - 1 PROVE (a \o b)[j] = s[j]
  <2>1. j \in 1 .. Len(a) + Len(b) /\ j <= Len(a)
    BY <1>1, <1>3, <1>4
  <2> QED  BY <1>3, <1>5, <2>1
<1>9. ASSUME NEW j \in i .. Len(s) - 1 PROVE (a \o b)[j] = s[j + 1]
  <2> DEFINE m == j - Len(a)
  <2>1. /\ j \in 1 .. Len(a) + Len(b) /\ ~(j <= Len(a))
        /\ m \in 1 .. Len(s) - i /\ i + m = j + 1
    BY <1>1, <1>3, <1>4
  <2>2. (a \o b)[j] = b[m]
    BY <1>5, <2>1
  <2> HIDE DEF m
  <2> QED  BY <1>4, <2>1, <2>2
<1> QED  BY <1>5, <1>6, <1>7, <1>8, <1>9

(* All but one of the elements of a sequence stay.                         *)
LEMMA RemoveAtKeeps ==
  ASSUME NEW S, NEW s \in Seq(S), NEW i \in DOMAIN s
  PROVE  /\ RemoveAt(s, i) \in Seq(S)
         /\ \A j \in DOMAIN s : j # i =>
              \E m \in DOMAIN RemoveAt(s, i) : RemoveAt(s, i)[m] = s[j]
<1> DEFINE r == RemoveAt(s, i)
<1>1. Len(s) \in Nat /\ DOMAIN s = 1 .. Len(s) /\ i \in 1 .. Len(s)
  BY LenProperties
<1>2. /\ r \in Seq(S) /\ Len(r) = Len(s) - 1
      /\ \A j \in 1 .. i - 1 : r[j] = s[j]
      /\ \A j \in i .. Len(s) - 1 : r[j] = s[j + 1]
  BY <1>1, RemoveAtElements
<1> HIDE DEF r
<1>3. DOMAIN r = 1 .. Len(s) - 1
  BY <1>2, LenProperties
<1>4. ASSUME NEW j \in 1 .. Len(s), j # i
      PROVE  \E m \in 1 .. Len(s) - 1 : r[m] = s[j]
  <2>1. CASE j < i
    <3>1. j \in 1 .. Len(s) - 1 /\ j \in 1 .. i - 1
      BY <1>1, <2>1
    <3> QED  BY <1>2, <3>1
  <2>2. CASE j > i
    <3> DEFINE m == j - 1
    <3>1. m \in 1 .. Len(s) - 1 /\ m \in i .. Len(s) - 1 /\ m + 1 = j
      BY <1>1, <2>2
    <3> HIDE DEF m
    <3> QED  BY <1>2, <3>1
  <2>3. j < i \/ j > i
    BY ONLY <1>1, <1>4
  <2> QED  BY ONLY <2>1, <2>2, <2>3
<1> QED  BY <1>1, <1>2, <1>3, <1>4 DEF r

(* What is put in where it was taken out is back where it was.             *)
LEMMA InsertRemoved ==
  ASSUME NEW S, NEW s \in Seq(S), NEW i \in DOMAIN s
  PROVE  InsertAt(RemoveAt(s, i), i, s[i]) = s
<1> DEFINE n == Len(s)
           r == RemoveAt(s, i)
           e == s[i]
           a == SubSeq(r, 1, i - 1)
           b == SubSeq(r, i, Len(r))
           one == <<e>>
           ae == a \o one
           aeb == ae \o b
<1>1. n \in Nat /\ i \in 1 .. n /\ (\A j \in 1 .. n : s[j] \in S) /\ e \in S
  BY LenProperties, ElementOfSeq
<1>2. /\ r \in Seq(S) /\ Len(r) = n - 1
      /\ \A j \in 1 .. i - 1 : r[j] = s[j]
      /\ \A j \in i .. n - 1 : r[j] = s[j + 1]
  BY <1>1, RemoveAtElements
<1>3. InsertAt(r, i, e) = aeb
  BY DEF InsertAt
<1>4. one \in Seq(S) /\ Len(one) = 1 /\ one[1] = e
  BY <1>1
<1> HIDE DEF n, r, e, one
<1>5. /\ a \in Seq(S) /\ Len(a) = i - 1
      /\ \A j \in 1 .. i - 1 : a[j] = s[j]
  <2>1. 1 \in Int /\ i - 1 \in Int /\ \A j \in 1 .. i - 1 : r[j] \in S
    <3>1. \A j \in 1 .. i - 1 : j \in 1 .. n
      BY <1>1
    <3> QED  BY <1>1, <1>2, <3>1
  <2>2. /\ a \in Seq(S) /\ Len(a) = IF 1 <= i - 1 THEN (i - 1) - 1 + 1 ELSE 0
        /\ \A j \in 1 .. (i - 1) - 1 + 1 : a[j] = r[1 + j - 1]
    BY <2>1, SubSeqProperties
  <2> HIDE DEF a
  <2> QED  BY <1>1, <1>2, <2>2
<1>6. /\ b \in Seq(S) /\ Len(b) = n - i
      /\ \A j \in 1 .. n - i : b[j] = s[i + j]
  <2>1. i \in Int /\ Len(r) \in Int /\ \A j \in i .. Len(r) : r[j] \in S
    <3>1. \A j \in i .. n - 1 : j + 1 \in 1 .. n
      BY <1>1
    <3> QED  BY <1>1, <1>2, <3>1
  <2>2. /\ b \in Seq(S) /\ Len(b) = IF i <= Len(r) THEN Len(r) - i + 1 ELSE 0
        /\ \A j \in 1 .. Len(r) - i + 1 : b[j] = r[i + j - 1]
    BY <2>1, SubSeqProperties
  <2> HIDE DEF b
  <2>3. Len(b) = n - i
    BY <1>1, <1>2, <2>2
  <2>4. ASSUME NEW j \in 1 .. n - i PROVE b[j] = s[i + j]
    <3> DEFINE m == i + j - 1
    <3>1. j \in 1 .. Len(r) - i + 1 /\ m \in i .. n - 1 /\ m + 1 = i + j
      BY <1>1, <1>2
    <3>2. b[j] = r[m]
      BY <2>2, <3>1
    <3> HIDE DEF m
    <3> QED  BY <1>2, <3>1, <3>2
  <2> QED  BY <2>2, <2>3, <2>4
<1> HIDE DEF a, b
<1>7. /\ ae \in Seq(S) /\ Len(ae) = i
      /\ \A j \in 1 .. i : ae[j] = s[j]
  <2>1. /\ ae \in Seq(S) /\ Len(ae) = Len(a) + Len(one)
        /\ \A j \in 1 .. Len(a) + Len(one) : ae[j] = IF j <= Len(a) THEN a[j] ELSE one[j - Len(a)]
    BY <1>4, <1>5, ConcatProperties
  <2> HIDE DEF ae
  <2>2. Len(ae) = i
    BY <1>1, <1>4, <1>5, <2>1
  <2>3. ASSUME NEW j \in 1 .. i PROVE ae[j] = s[j]
    <3>1. CASE j = i
      <4>1. j \in 1 .. Len(a) + Len(one) /\ ~(j <= Len(a)) /\ j - Len(a) = 1
        BY <1>1, <1>4, <1>5, <3>1
      <4> QED  BY <1>4, <2>1, <3>1, <4>1 DEF e
    <3>2. CASE j # i
      <4>1. j \in 1 .. Len(a) + Len(one) /\ j <= Len(a) /\ j \in 1 .. i - 1
        BY <1>1, <1>4, <1>5, <3>2
      <4> QED  BY <1>5, <2>1, <4>1
    <3> QED  BY <3>1, <3>2
  <2> QED  BY <2>1, <2>2, <2>3
<1> HIDE DEF ae
<1>8. /\ aeb \in Seq(S) /\ Len(aeb) = n
      /\ \A j \in 1 .. n : aeb[j] = s[j]
  <2>1. /\ aeb \in Seq(S) /\ Len(aeb) = Len(ae) + Len(b)
        /\ \A j \in 1 .. Len(ae) + Len(b) : aeb[j] = IF j <= Len(ae) THEN ae[j] ELSE b[j - Len(ae)]
    BY <1>6, <1>7, ConcatProperties
  <2> HIDE DEF aeb
  <2>2. Len(aeb) = n
    BY <1>1, <1>6, <1>7, <2>1
  <2>3. ASSUME NEW j \in 1 .. n PROVE aeb[j] = s[j]
    <3>1. CASE j <= i
      <4>1. j \in 1 .. Len(ae) + Len(b) /\ j <= Len(ae) /\ j \in 1 .. i
        BY <1>1, <1>6, <1>7, <3>1
      <4> QED  BY <1>7, <2>1, <4>1
    <3>2. CASE ~(j <= i)
      <4> DEFINE m == j - i
      <4>1. /\ j \in 1 .. Len(ae) + Len(b) /\ ~(j <= Len(ae)) /\ j - Len(ae) = m
            /\ m \in 1 .. n - i /\ i + m = j
        BY <1>1, <1>6, <1>7, <3>2
      <4> HIDE DEF m
      <4> QED  BY <1>6, <2>1, <4>1
    <3> QED  BY <3>1, <3>2
  <2> QED  BY <2>1, <2>2, <2>3
<1> HIDE DEF aeb
<1>9. Len(aeb) = Len(s) /\ \A j \in 1 .. Len(aeb) : aeb[j] = s[j]
  BY <1>8 DEF n
<1>10. aeb = s
  BY ONLY <1>8, <1>9, s \in Seq(S), SeqEqual
<1> QED  BY <1>3, <1>10 DEF r, e

-----------------------------------------------------------------------------
(* What an edit does to a document.                                        *)

(* What the game reads is in its place, and the number of debris is one    *)
(* the tool converts; of the numbers it asks no more than the tool does.   *)
Readable(doc) == IsLaidOut(doc) /\ doc[<<"debrisNumber">>].value \in UInt32

(* An array stays where it is with other numbers in it.                    *)
LEMMA ReplaceKeeps ==
  ASSUME NEW doc, IsTree(doc), NEW path \in DOMAIN doc, doc[path].kind = "Array",
         NEW json, DOMAIN json = {"kind", "value"}, json.kind = "Array",
         json.value \in Seq(Number)
  PROVE  LET after == [doc EXCEPT ![path] = json]
         IN  /\ IsTree(after)
             /\ Len(json.value) = Len(doc[path].value) /\ Readable(doc) => Readable(after)
<1> DEFINE after == [doc EXCEPT ![path] = json]
<1>1. /\ DOMAIN after = DOMAIN doc /\ after[path] = json
      /\ \A q \in DOMAIN doc : q # path => after[q] = doc[q]
  OBVIOUS
<1> HIDE DEF after
<1>2. \A q \in DOMAIN doc : doc[q].kind # "Array" => after[q] = doc[q]
  BY <1>1
<1>3. IsTree(after)
  <2>1. <<>> \in DOMAIN after /\ DOMAIN after \subseteq Seq(Key)
    BY <1>1 DEF IsTree
  <2> SUFFICES ASSUME NEW q \in DOMAIN after
               PROVE  /\ DOMAIN after[q] = {"kind", "value"}
                      /\ after[q].kind = "Object" => after[q].value \in Seq(Key)
                      /\ after[q].kind = "Array" => after[q].value \in Seq(Number)
                      /\ after[q].kind = "Double" => after[q].value \in Number
                      /\ q # <<>> => /\ Front(q) \in DOMAIN after /\ after[Front(q)].kind = "Object"
                                     /\ \E i \in DOMAIN after[Front(q)].value :
                                          after[Front(q)].value[i] = Last(q)
    BY <2>1 DEF IsTree
  <2>2. /\ DOMAIN doc[q] = {"kind", "value"}
        /\ doc[q].kind = "Object" => doc[q].value \in Seq(Key)
        /\ doc[q].kind = "Array" => doc[q].value \in Seq(Number)
        /\ doc[q].kind = "Double" => doc[q].value \in Number
        /\ q # <<>> => /\ Front(q) \in DOMAIN doc /\ doc[Front(q)].kind = "Object"
                       /\ \E i \in DOMAIN doc[Front(q)].value : doc[Front(q)].value[i] = Last(q)
    BY <1>1 DEF IsTree
  <2>3. /\ DOMAIN after[q] = {"kind", "value"}
        /\ after[q].kind = "Object" => after[q].value \in Seq(Key)
        /\ after[q].kind = "Array" => after[q].value \in Seq(Number)
        /\ after[q].kind = "Double" => after[q].value \in Number
    BY <1>1, <2>2
  <2>4. q # <<>> => Front(q) \in DOMAIN after /\ after[Front(q)] = doc[Front(q)]
    BY <1>1, <1>2, <2>2
  <2> QED  BY <2>2, <2>3, <2>4
<1>4. ASSUME Len(json.value) = Len(doc[path].value), Readable(doc)
      PROVE  Readable(after)
  <2>1. IsDocument(after)
    <3>1. <<>> \in DOMAIN doc
      BY DEF IsTree
    <3>2. DOMAIN <<>> = {}
      OBVIOUS
    <3>3. after # Empty
      BY <1>1, <3>1, <3>2 DEF Empty
    <3>4. doc[<<>>].kind = "Object"
      BY <1>4 DEF Readable, IsLaidOut, IsDocument
    <3>5. after[<<>>] = doc[<<>>]
      BY <1>2, <3>1, <3>4
    <3> QED  BY <3>3, <3>4, <3>5 DEF IsDocument
  <2>2. /\ Has(after, <<"debrisNumber">>) /\ after[<<"debrisNumber">>].kind = "Double"
        /\ after[<<"debrisNumber">>].value \in UInt32
    <3>1. /\ <<"debrisNumber">> \in DOMAIN doc /\ doc[<<"debrisNumber">>].kind = "Double"
          /\ doc[<<"debrisNumber">>].value \in UInt32
      BY <1>4 DEF Readable, IsLaidOut, Has
    <3>2. after[<<"debrisNumber">>] = doc[<<"debrisNumber">>]
      BY <1>2, <3>1
    <3> QED  BY <1>1, <3>1, <3>2 DEF Has
  <2>3. /\ Has(after, <<"ISS", "Position">>) /\ after[<<"ISS", "Position">>].kind = "Array"
        /\ Len(after[<<"ISS", "Position">>].value)
             = Len(InitialFiles[Config][<<"ISS", "Position">>].value)
    <3>1. /\ <<"ISS", "Position">> \in DOMAIN doc /\ doc[<<"ISS", "Position">>].kind = "Array"
          /\ Len(doc[<<"ISS", "Position">>].value)
               = Len(InitialFiles[Config][<<"ISS", "Position">>].value)
      BY <1>4 DEF Readable, IsLaidOut, Has
    <3>2. CASE path = <<"ISS", "Position">>
      BY <1>1, <1>4, <3>1, <3>2 DEF Has
    <3>3. CASE path # <<"ISS", "Position">>
      BY <1>1, <3>1, <3>3 DEF Has
    <3> QED  BY <3>2, <3>3
  <2> QED  BY <2>1, <2>2, <2>3 DEF Readable, IsLaidOut
<1> QED  BY <1>3, <1>4 DEF after

(* What is left when a key is taken out, and the names it was among.       *)
Rest(doc, path) == {p \in DOMAIN doc : ~IsPrefix(path, p)}
NamesAround(doc, path) == doc[Front(path)].value

(* Remove takes a key out of its parent, and all that hangs on it.         *)
LEMMA RemoveKeyParts ==
  ASSUME NEW doc, IsTree(doc), NEW path \in DOMAIN doc, path # <<>>
  PROVE  /\ path \in Seq(Key) /\ Front(path) \in Rest(doc, path)
         /\ doc[Front(path)].kind = "Object" /\ NamesAround(doc, path) \in Seq(Key)
         /\ IndexOf(doc, path) \in DOMAIN NamesAround(doc, path)
         /\ NamesAround(doc, path)[IndexOf(doc, path)] = Last(path)
         /\ path \notin Rest(doc, path) /\ <<>> \in Rest(doc, path)
         /\ \A q \in Rest(doc, path) : q # <<>> => Front(q) \in Rest(doc, path)
         /\ DOMAIN RemoveKey(doc, path) = Rest(doc, path)
         /\ RemoveKey(doc, path)[Front(path)]
              = Object(RemoveAt(NamesAround(doc, path), IndexOf(doc, path)))
         /\ \A q \in Rest(doc, path) : q # Front(path) => RemoveKey(doc, path)[q] = doc[q]
<1> DEFINE parent == Front(path)
           names == doc[parent].value
           at == IndexOf(doc, path)
           rest == Rest(doc, path)
           kept == Restrict(doc, rest)
           after == RemoveKey(doc, path)
<1>1. /\ path \in Seq(Key) /\ parent \in DOMAIN doc /\ parent \in Seq(Key)
      /\ doc[parent].kind = "Object" /\ names \in Seq(Key)
      /\ \E i \in DOMAIN names : names[i] = Last(path)
  BY DEF IsTree
<1>2. at \in DOMAIN names /\ names[at] = Last(path)
  BY <1>1 DEF IndexOf
<1>3. path \notin rest /\ parent \in rest
  BY <1>1, PrefixOfFront DEF Rest
<1>4. after = [kept EXCEPT ![parent] = Object(RemoveAt(names, at))]
  BY DEF RemoveKey, Rest
<1>5. DOMAIN kept = rest /\ \A q \in rest : kept[q] = doc[q]
  BY DEF Restrict
<1>6. ASSUME NEW q \in rest, q # <<>> PROVE Front(q) \in rest
  <2>1. q \in Seq(Key) /\ Front(q) \in DOMAIN doc /\ ~IsPrefix(path, q)
    BY <1>6 DEF IsTree, Rest
  <2> QED  BY <1>1, <1>6, <2>1, PrefixOfFront DEF Rest
<1>7. <<>> \in rest
  <2>1. Len(path) \in Nat \ {0} /\ Len(<<>>) = 0
    BY <1>1, PathParts, EmptySeq
  <2>2. ~IsPrefix(path, <<>>)
    BY <2>1 DEF IsPrefix
  <2> QED  BY <2>2 DEF IsTree, Rest
<1> HIDE DEF parent, names, at, rest, kept, after
<1>8. /\ DOMAIN after = rest /\ after[parent] = Object(RemoveAt(names, at))
      /\ \A q \in rest : q # parent => after[q] = doc[q]
  BY <1>3, <1>4, <1>5
<1> QED
  BY <1>1, <1>2, <1>3, <1>6, <1>7, <1>8 DEF parent, names, at, rest, after, NamesAround

(* A tree is left without it.                                              *)
LEMMA RemoveKeyKeeps ==
  ASSUME NEW doc, IsTree(doc), NEW path \in DOMAIN doc, path # <<>>
  PROVE  IsTree(RemoveKey(doc, path)) /\ DOMAIN RemoveKey(doc, path) # DOMAIN doc
<1> DEFINE parent == Front(path)
           names == NamesAround(doc, path)
           at == IndexOf(doc, path)
           keptNames == RemoveAt(names, at)
           rest == Rest(doc, path)
           after == RemoveKey(doc, path)
<1>1. /\ path \in Seq(Key) /\ parent \in rest /\ names \in Seq(Key) /\ at \in DOMAIN names
      /\ names[at] = Last(path) /\ path \notin rest /\ <<>> \in rest
      /\ \A q \in rest : q # <<>> => Front(q) \in rest
      /\ DOMAIN after = rest /\ after[parent] = Object(keptNames)
      /\ \A q \in rest : q # parent => after[q] = doc[q]
  BY RemoveKeyParts
<1>2. rest \subseteq DOMAIN doc
  BY DEF Rest
<1>3. keptNames \in Seq(Key)
      /\ \A j \in DOMAIN names : j # at => \E m \in DOMAIN keptNames : keptNames[m] = names[j]
  <2> HIDE DEF names, at
  <2> QED  BY <1>1, RemoveAtKeeps
<1> HIDE DEF parent, names, at, keptNames, rest, after
<1>4. after[parent].kind = "Object" /\ after[parent].value = keptNames
      /\ DOMAIN after[parent] = {"kind", "value"}
  BY <1>1 DEF Object
<1>5. IsTree(after)
  <2>1. rest \subseteq Seq(Key)
    BY <1>2 DEF IsTree
  <2> SUFFICES ASSUME NEW q \in rest
               PROVE  /\ DOMAIN after[q] = {"kind", "value"}
                      /\ after[q].kind = "Object" => after[q].value \in Seq(Key)
                      /\ after[q].kind = "Array" => after[q].value \in Seq(Number)
                      /\ after[q].kind = "Double" => after[q].value \in Number
                      /\ q # <<>> => /\ Front(q) \in rest /\ after[Front(q)].kind = "Object"
                                     /\ \E i \in DOMAIN after[Front(q)].value :
                                          after[Front(q)].value[i] = Last(q)
    BY <1>1, <2>1 DEF IsTree
  <2>2. /\ DOMAIN doc[q] = {"kind", "value"}
        /\ doc[q].kind = "Object" => doc[q].value \in Seq(Key)
        /\ doc[q].kind = "Array" => doc[q].value \in Seq(Number)
        /\ doc[q].kind = "Double" => doc[q].value \in Number
        /\ q # <<>> => /\ Front(q) \in DOMAIN doc /\ doc[Front(q)].kind = "Object"
                       /\ \E i \in DOMAIN doc[Front(q)].value : doc[Front(q)].value[i] = Last(q)
    BY <1>2 DEF IsTree
  <2>3. /\ DOMAIN after[q] = {"kind", "value"}
        /\ after[q].kind = "Object" => after[q].value \in Seq(Key)
        /\ after[q].kind = "Array" => after[q].value \in Seq(Number)
        /\ after[q].kind = "Double" => after[q].value \in Number
    <3>1. CASE q = parent
      BY <1>3, <1>4, <3>1
    <3>2. CASE q # parent
      BY <1>1, <2>2, <3>2
    <3> QED  BY <3>1, <3>2
  <2>4. ASSUME q # <<>>
        PROVE  /\ Front(q) \in rest /\ after[Front(q)].kind = "Object"
               /\ \E i \in DOMAIN after[Front(q)].value : after[Front(q)].value[i] = Last(q)
    <3>1. Front(q) \in rest
      BY <1>1, <2>4
    <3>2. CASE Front(q) # parent
      BY <1>1, <2>2, <2>4, <3>1, <3>2
    <3>3. CASE Front(q) = parent
      <4>1. q \in Seq(Key) /\ q # path
        BY <1>1, <2>1
      <4>2. Last(q) # Last(path)
        BY <1>1, <2>4, <3>3, <4>1, SamePath DEF parent
      <4>3. PICK j \in DOMAIN names : names[j] = Last(q)
        BY <2>2, <2>4, <3>3 DEF names, NamesAround, parent
      <4>4. \E m \in DOMAIN keptNames : keptNames[m] = Last(q)
        BY <1>1, <1>3, <4>2, <4>3
      <4> QED  BY <1>4, <3>1, <3>3, <4>4
    <3> QED  BY <3>2, <3>3
  <2> QED  BY <2>3, <2>4
<1>6. DOMAIN after # DOMAIN doc
  BY <1>1
<1> QED  BY <1>5, <1>6 DEF after

(* A value that is put in where the old one was taken out: the names of    *)
(* its parent are those of before, and so is what is beside it, which the  *)
(* game still reads if a whole number went in where one was.               *)
LEMMA PutBackKeeps ==
  ASSUME NEW doc, IsTree(doc), NEW path \in DOMAIN doc, path # <<>>, ~IsContainer(doc[path]),
         NEW json, DOMAIN json = {"kind", "value"}, json.kind = doc[path].kind,
         json.kind = "Double" => json.value \in UInt32
  PROVE  LET after == InsertKey(RemoveKey(doc, path), path, IndexOf(doc, path), json)
         IN  IsTree(after) /\ (Readable(doc) => Readable(after))
<1> DEFINE parent == Front(path)
           names == NamesAround(doc, path)
           at == IndexOf(doc, path)
           rest == Rest(doc, path)
           removed == RemoveKey(doc, path)
           after == InsertKey(removed, path, at, json)
<1>1. /\ path \in Seq(Key) /\ parent \in rest /\ doc[parent].kind = "Object"
      /\ names \in Seq(Key) /\ at \in DOMAIN names
      /\ names[at] = Last(path) /\ path \notin rest /\ <<>> \in rest
      /\ \A q \in rest : q # <<>> => Front(q) \in rest
      /\ DOMAIN removed = rest /\ removed[parent] = Object(RemoveAt(names, at))
      /\ \A q \in rest : q # parent => removed[q] = doc[q]
  BY RemoveKeyParts
<1>2. rest \subseteq DOMAIN doc /\ \A q \in DOMAIN doc : q \notin rest => IsPrefix(path, q)
  BY DEF Rest
<1>3. InsertAt(RemoveAt(names, at), at, Last(path)) = names
  <2> HIDE DEF names, at
  <2>1. InsertAt(RemoveAt(names, at), at, names[at]) = names
    BY <1>1, InsertRemoved
  <2> QED  BY <1>1, <2>1
<1>4. names = doc[parent].value
  BY DEF NamesAround
<1>5. after = [p \in DOMAIN removed \cup {path} |->
                 IF p = path THEN json
                 ELSE IF p = parent THEN Object(InsertAt(removed[parent].value, at, Last(path)))
                 ELSE removed[p]]
  BY DEF InsertKey
<1>6. path # <<>> /\ doc[path].kind # "Object" /\ doc[path].kind # "Array"
  BY DEF IsContainer
<1> HIDE DEF names, at, rest, removed, after
<1>7. /\ DOMAIN after = rest \cup {path} /\ after[path] = json
      /\ after[parent] = Object(names)
      /\ \A q \in rest : q # parent => after[q] = doc[q]
  <2>1. removed[parent].value = RemoveAt(names, at)
    BY <1>1 DEF Object
  <2> HIDE DEF parent
  <2> QED  BY <1>1, <1>3, <1>5, <2>1
<1>8. ASSUME NEW q \in rest
      PROVE  /\ DOMAIN after[q] = {"kind", "value"}
             /\ after[q].kind = doc[q].kind /\ after[q].value = doc[q].value
  <2>1. CASE q = parent
    BY <1>1, <1>4, <1>7, <2>1 DEF Object
  <2>2. CASE q # parent
    BY <1>2, <1>7, <2>2 DEF IsTree
  <2> QED  BY <2>1, <2>2
<1>9. IsTree(after)
  <2>1. <<>> \in DOMAIN after /\ DOMAIN after \subseteq Seq(Key)
    BY <1>1, <1>2, <1>7 DEF IsTree
  <2> SUFFICES ASSUME NEW q \in rest \cup {path}
               PROVE  /\ DOMAIN after[q] = {"kind", "value"}
                      /\ after[q].kind = "Object" => after[q].value \in Seq(Key)
                      /\ after[q].kind = "Array" => after[q].value \in Seq(Number)
                      /\ after[q].kind = "Double" => after[q].value \in Number
                      /\ q # <<>> => /\ Front(q) \in DOMAIN after /\ after[Front(q)].kind = "Object"
                                     /\ \E i \in DOMAIN after[Front(q)].value :
                                          after[Front(q)].value[i] = Last(q)
    BY <1>7, <2>1 DEF IsTree
  <2>2. /\ doc[q].kind = "Object" => doc[q].value \in Seq(Key)
        /\ doc[q].kind = "Array" => doc[q].value \in Seq(Number)
        /\ doc[q].kind = "Double" => doc[q].value \in Number
        /\ q # <<>> => /\ Front(q) \in DOMAIN doc /\ doc[Front(q)].kind = "Object"
                       /\ \E i \in DOMAIN doc[Front(q)].value : doc[Front(q)].value[i] = Last(q)
    BY <1>2 DEF IsTree
  <2>3. /\ DOMAIN after[q] = {"kind", "value"}
        /\ after[q].kind = "Object" => after[q].value \in Seq(Key)
        /\ after[q].kind = "Array" => after[q].value \in Seq(Number)
        /\ after[q].kind = "Double" => after[q].value \in Number
    <3>1. CASE q = path
      BY <1>6, <1>7, <3>1, ConfigToolAssumption
    <3>2. CASE q \in rest
      BY <1>8, <2>2, <3>2
    <3> QED  BY <3>1, <3>2
  <2>4. q # <<>> => Front(q) \in rest
    <3>1. CASE q = path
      BY <1>1, <3>1
    <3>2. CASE q \in rest
      BY <1>1, <3>2
    <3> QED  BY <3>1, <3>2
  <2>5. q # <<>> => /\ Front(q) \in DOMAIN after /\ after[Front(q)].kind = doc[Front(q)].kind
                    /\ after[Front(q)].value = doc[Front(q)].value
    BY <1>7, <1>8, <2>4
  <2> QED  BY <2>2, <2>3, <2>5
<1>10. ASSUME NEW q \in DOMAIN doc, q # path, q \notin rest
       PROVE  /\ q \in Seq(Key) /\ q # <<>> /\ Front(q) \in DOMAIN doc
              /\ Front(q) # path /\ Front(q) \notin rest /\ Len(Front(q)) = Len(q) - 1
  <2>1. q \in Seq(Key) /\ q # <<>>
    BY <1>1, <1>10 DEF IsTree
  <2>2. Front(q) \in DOMAIN doc /\ doc[Front(q)].kind = "Object"
    BY <2>1 DEF IsTree
  <2>3. IsPrefix(path, Front(q))
    BY <1>1, <1>2, <1>10, <2>1, PrefixOfFront
  <2>4. Front(q) \notin rest
    BY <2>3 DEF rest, Rest
  <2> QED  BY <1>6, <2>1, <2>2, <2>4, PathParts
<1>11. ASSUME NEW q \in DOMAIN doc, q # path, Len(q) <= 2
       PROVE  q \in rest
  <2> SUFFICES ASSUME q \notin rest PROVE FALSE
    OBVIOUS
  <2> DEFINE r == Front(q)
             t == Front(r)
  <2>1. /\ q \in Seq(Key) /\ r \in DOMAIN doc /\ r # path /\ r \notin rest
        /\ Len(r) = Len(q) - 1
    BY <1>10, <1>11
  <2> HIDE DEF r
  <2>2. /\ r \in Seq(Key) /\ t \in DOMAIN doc /\ t # path /\ t \notin rest
        /\ Len(t) = Len(r) - 1
    BY <1>10, <2>1
  <2> HIDE DEF t
  <2>3. t \in Seq(Key) /\ t # <<>>
    BY <1>10, <2>2
  <2>4. Len(t) \in Nat \ {0} /\ Len(q) \in Nat /\ Len(r) \in Nat
    BY <2>1, <2>2, <2>3, EmptySeq, LenProperties
  <2> QED  BY <1>11, <2>1, <2>2, <2>4
<1>12. ASSUME Readable(doc) PROVE Readable(after)
  <2>1. IsDocument(after)
    <3>1. doc[<<>>].kind = "Object"
      BY <1>12 DEF Readable, IsLaidOut, IsDocument
    <3>2. after[<<>>].kind = "Object"
      BY <1>1, <1>8, <3>1
    <3>3. DOMAIN <<>> = {}
      OBVIOUS
    <3>4. after # Empty
      BY <1>7, <3>3 DEF Empty
    <3> QED  BY <3>2, <3>4 DEF IsDocument
  <2>2. /\ Has(after, <<"debrisNumber">>) /\ after[<<"debrisNumber">>].kind = "Double"
        /\ after[<<"debrisNumber">>].value \in UInt32
    <3> DEFINE q == <<"debrisNumber">>
    <3>1. q \in DOMAIN doc /\ doc[q].kind = "Double" /\ doc[q].value \in UInt32
      BY <1>12 DEF Readable, IsLaidOut, Has
    <3>2. Len(q) <= 2
      OBVIOUS
    <3> HIDE DEF q
    <3>3. q \in DOMAIN after /\ after[q].kind = "Double" /\ after[q].value \in UInt32
      <4>1. CASE path = q
        BY <1>7, <3>1, <4>1
      <4>2. CASE path # q
        <5>1. q \in rest
          BY <1>11, <3>1, <3>2, <4>2
        <5> QED  BY <1>7, <1>8, <3>1, <5>1
      <4> QED  BY <4>1, <4>2
    <3> QED  BY <3>3 DEF Has, q
  <2>3. /\ Has(after, <<"ISS", "Position">>) /\ after[<<"ISS", "Position">>].kind = "Array"
        /\ Len(after[<<"ISS", "Position">>].value)
             = Len(InitialFiles[Config][<<"ISS", "Position">>].value)
    <3> DEFINE q == <<"ISS", "Position">>
    <3>1. q \in DOMAIN doc /\ doc[q].kind = "Array"
          /\ Len(doc[q].value) = Len(InitialFiles[Config][q].value)
      BY <1>12 DEF Readable, IsLaidOut, Has
    <3>2. Len(q) <= 2
      OBVIOUS
    <3> HIDE DEF q
    <3>3. q # path
      BY <1>6, <3>1
    <3>4. q \in rest
      BY <1>11, <3>1, <3>2, <3>3
    <3>5. /\ q \in DOMAIN after /\ after[q].kind = "Array"
          /\ Len(after[q].value) = Len(InitialFiles[Config][q].value)
      BY <1>7, <1>8, <3>1, <3>4
    <3> QED  BY <3>5 DEF Has, q
  <2> QED  BY <2>1, <2>2, <2>3 DEF Readable, IsLaidOut
<1> QED  BY <1>9, <1>12 DEF after, removed, at

(* What a click on a Modify button leaves: a tree in any case, and if      *)
(* nothing threw what the game reads, unless a node is gone.               *)
EditKeeps(doc, change) ==
  /\ IsTree(change.doc)
  /\ ~change.threw /\ DOMAIN change.doc = DOMAIN doc /\ Readable(doc) => Readable(change.doc)

(* An edit that changes nothing.                                           *)
LEMMA NoEdit ==
  ASSUME NEW doc, IsTree(doc)
  PROVE  EditKeeps(doc, Done(doc)) /\ EditKeeps(doc, Threw(doc))
BY DEF EditKeeps, Done, Threw

(* A value or a whole container under a key.                               *)
LEMMA ChangeValueKeeps ==
  ASSUME NEW doc, IsTree(doc), NEW path \in DOMAIN doc, path # <<>>, NEW val
  PROVE  EditKeeps(doc, ChangeValue(doc, path, val))
<1> DEFINE json == [kind |-> doc[path].kind, value |-> val]
           removed == RemoveKey(doc, path)
           putBack == InsertKey(removed, path, IndexOf(doc, path), json)
<1>1. IsTree(removed) /\ DOMAIN removed # DOMAIN doc
  BY RemoveKeyKeeps
<1>2. ASSUME ~IsContainer(doc[path]), val \in Converts(doc[path].kind)
      PROVE  IsTree(putBack) /\ (Readable(doc) => Readable(putBack))
  <2>1. DOMAIN json = {"kind", "value"} /\ json.kind = doc[path].kind /\ json.value = val
    OBVIOUS
  <2>2. json.kind = "Double" => json.value \in UInt32
    BY <1>2, <2>1 DEF Converts
  <2> HIDE DEF json
  <2> QED  BY <1>2, <2>1, <2>2, PutBackKeeps
<1>3. CASE IsContainer(doc[path])
  <2>1. ChangeValue(doc, path, val) = Done(removed)
    BY <1>3 DEF ChangeValue
  <2> HIDE DEF removed
  <2> QED  BY <1>1, <2>1 DEF EditKeeps, Done
<1>4. CASE ~IsContainer(doc[path]) /\ val \in Converts(doc[path].kind)
  <2>1. ChangeValue(doc, path, val) = Done(putBack)
    BY <1>4 DEF ChangeValue
  <2> HIDE DEF putBack
  <2> QED  BY <1>2, <1>4, <2>1 DEF EditKeeps, Done
<1>5. CASE ~IsContainer(doc[path]) /\ val \notin Converts(doc[path].kind)
  <2>1. ChangeValue(doc, path, val) = Threw(removed)
    BY <1>5 DEF ChangeValue
  <2> HIDE DEF removed
  <2> QED  BY <1>1, <2>1 DEF EditKeeps, Threw
<1> QED  BY <1>3, <1>4, <1>5

(* An element of an array, which may go when its text is no number.        *)
LEMMA ChangeElementKeeps ==
  ASSUME NEW doc, IsTree(doc), NEW path \in DOMAIN doc, doc[path].kind = "Array",
         NEW n, NEW val
  PROVE  EditKeeps(doc, ChangeElement(doc, path, n, val))
<1> DEFINE numbers == doc[path].value
           with(v) == [doc[path] EXCEPT !.value = v]
           after(v) == [doc EXCEPT ![path] = with(v)]
<1>1. numbers \in Seq(Number) /\ DOMAIN doc[path] = {"kind", "value"}
  BY DEF IsTree
<1>2. ASSUME NEW v \in Seq(Number)
      PROVE  /\ IsTree(after(v))
             /\ Len(v) = Len(numbers) /\ Readable(doc) => Readable(after(v))
  <2>1. /\ DOMAIN with(v) = {"kind", "value"} /\ with(v).kind = "Array" /\ with(v).value = v
    BY <1>1
  <2> HIDE DEF with
  <2> QED  BY <2>1, ReplaceKeeps
<1>3. [doc EXCEPT ![path].value[n] = val] = after([numbers EXCEPT ![n] = val])
  OBVIOUS
<1>4. [doc EXCEPT ![path].value = RemoveAt(@, n)] = after(RemoveAt(numbers, n))
  OBVIOUS
<1> HIDE DEF numbers, after
<1>5. CASE n \notin DOMAIN numbers
  <2>1. ChangeElement(doc, path, n, val) = Threw(doc)
    BY <1>5 DEF ChangeElement, numbers
  <2> QED  BY <2>1, NoEdit
<1>6. CASE n \in DOMAIN numbers /\ val \in Number
  <2>1. ChangeElement(doc, path, n, val) = Done(after([numbers EXCEPT ![n] = val]))
    BY <1>3, <1>6 DEF ChangeElement, numbers
  <2>2. n \in 1 .. Len(numbers)
    BY <1>1, <1>6, LenProperties
  <2>3. /\ [numbers EXCEPT ![n] = val] \in Seq(Number)
        /\ Len([numbers EXCEPT ![n] = val]) = Len(numbers)
    BY <1>1, <1>6, <2>2, ExceptSeq
  <2>4. /\ IsTree(after([numbers EXCEPT ![n] = val]))
        /\ Readable(doc) => Readable(after([numbers EXCEPT ![n] = val]))
    BY <1>2, <2>3
  <2> QED  BY <2>1, <2>4 DEF EditKeeps, Done
<1>7. CASE n \in DOMAIN numbers /\ val \notin Number
  <2>1. ChangeElement(doc, path, n, val) = Threw(after(RemoveAt(numbers, n)))
    BY <1>4, <1>7 DEF ChangeElement, numbers
  <2>2. RemoveAt(numbers, n) \in Seq(Number)
    BY <1>1, <1>7, RemoveAtKeeps
  <2> QED  BY <1>2, <2>1, <2>2 DEF EditKeeps, Threw
<1> QED  BY <1>5, <1>6, <1>7

(* The first place of several exists.                                      *)
LEMMA FirstPlace ==
  ASSUME NEW n \in Nat, NEW S \in SUBSET (1 .. n), S # {}
  PROVE  Min(S) \in S
<1> DEFINE Less == OpToRel(<, Nat)
<1>1. IsWellFoundedOn(Less, Nat)
  BY NatLessThanWellFounded
<1>2. \A x, y \in Nat : x < y => <<x, y>> \in Less
  BY DEF OpToRel
<1> HIDE DEF Less
<1>3. S \subseteq Nat
  OBVIOUS
<1>4. PICK any \in S : TRUE
  OBVIOUS
<1>5. PICK least \in S : \A y \in S : ~(<<y, least>> \in Less)
  BY <1>1, <1>3, <1>4, WFMin
<1>6. \A y \in S : ~(y < least)
  BY <1>2, <1>3, <1>5
<1>7. \A y \in S : least <= y
  BY <1>3, <1>6
<1> QED  BY <1>7 DEF Min

(* The way down ends at a key that hangs on an Object, or in an Array.     *)
LEMMA ChangeJsonDataKeeps ==
  ASSUME NEW doc, IsTree(doc), NEW t, NEW node, node.path \in Seq(Key), node.nth \in Nat,
         NEW val
  PROVE  EditKeeps(doc, ChangeJsonData(doc, t, node, val))
<1> DEFINE path == FullPath(t, node)
           way == IF node.nth > 0 THEN path ELSE Front(path)
           at(i) == SubSeq(way, 1, i)
           isKind(i, kind) == Has(doc, at(i)) /\ doc[at(i)].kind = kind
           ends == {i \in DOMAIN way : ~isKind(i, "Object")}
           stop == IF ends = {} THEN Len(way) + 1 ELSE Min(ends)
           jArray == stop <= Len(way) /\ isKind(stop, "Array")
           lost == stop <= Len(way) /\ ~jArray
           key == Append(at(stop - 1), Last(path))
           change == ChangeJsonData(doc, t, node, val)
           Names == {t[Ancestors(node)[i]].key : i \in DOMAIN Ancestors(node)}
           length == Len(node.path)
<1>1. change = CASE val = "JSONConfig" -> Done(doc)
                 [] val # "JSONConfig" /\ node = RootNode -> Threw(doc)
                 [] val # "JSONConfig" /\ node.nth > 0 ->
                      IF jArray THEN ChangeElement(doc, at(stop), node.nth, val) ELSE Threw(doc)
                 [] OTHER -> IF ~lost /\ Has(doc, key) THEN ChangeValue(doc, key, val) ELSE Threw(doc)
  BY DEF ChangeJsonData
<1>2. length \in Nat /\ DOMAIN Ancestors(node) = 1 .. length
  BY LenProperties DEF Ancestors
<1>3. path \in Seq(Names) /\ Len(path) = length
  <2>1. path \in [1 .. length -> Names]
    BY <1>2 DEF FullPath
  <2> HIDE DEF path, Names, length
  <2>2. path \in Seq(Names)
    BY <1>2, <2>1, SeqDef
  <2> QED  BY <1>2, <2>1, <2>2, LenProperties
<1> HIDE DEF path, Names, length, change
<1>4. way \in Seq(Names) /\ Len(way) \in Nat
  <2>1. \A i \in 1 .. length - 1 : path[i] \in Names
    BY <1>2, <1>3, ElementOfSeq
  <2>2. 1 \in Int /\ length - 1 \in Int
    BY <1>2
  <2>3. SubSeq(path, 1, length - 1) \in Seq(Names)
    BY <2>1, <2>2, SubSeqProperties
  <2>4. way \in Seq(Names)
    BY <1>3, <2>3 DEF Front
  <2> HIDE DEF way
  <2> QED  BY <2>4, LenProperties
<1> HIDE DEF way
<1>5. stop \in 1 .. Len(way) + 1
  <2>1. ends \in SUBSET (1 .. Len(way))
    BY <1>4, LenProperties
  <2> HIDE DEF ends
  <2>2. ends # {} => Min(ends) \in 1 .. Len(way)
    BY <1>4, <2>1, FirstPlace
  <2> QED  BY <1>4, <2>2
<1> HIDE DEF ends, stop
<1>6. key # <<>>
  <2> DEFINE end == stop - 1
  <2>1. end \in Int /\ 1 \in Int /\ \A i \in 1 .. end : way[i] \in Names
    <3>1. \A i \in 1 .. Len(way) : way[i] \in Names
      BY <1>4, ElementOfSeq
    <3> QED  BY <1>4, <1>5, <3>1
  <2> HIDE DEF end
  <2>2. SubSeq(way, 1, end) \in Seq(Names)
    BY <2>1, SubSeqProperties
  <2>3. \A s \in Seq(Names) : Append(s, Last(path)) # <<>>
    <3> SUFFICES ASSUME NEW s \in Seq(Names) PROVE Append(s, Last(path)) # <<>>
      OBVIOUS
    <3>1. Len(s) + 1 \in DOMAIN Append(s, Last(path))
      BY LenProperties
    <3>2. DOMAIN <<>> = {}
      OBVIOUS
    <3> QED  BY <3>1, <3>2
  <2> QED  BY <2>2, <2>3 DEF end
<1>7. jArray => at(stop) \in DOMAIN doc /\ doc[at(stop)].kind = "Array"
  BY DEF Has
<1>8. Has(doc, key) => key \in DOMAIN doc
  BY DEF Has
<1> HIDE DEF at, key, jArray, lost
<1>9. EditKeeps(doc, Done(doc)) /\ EditKeeps(doc, Threw(doc))
  BY NoEdit
<1>10. jArray => EditKeeps(doc, ChangeElement(doc, at(stop), node.nth, val))
  BY <1>7, ChangeElementKeeps
<1>11. Has(doc, key) => EditKeeps(doc, ChangeValue(doc, key, val))
  BY <1>6, <1>8, ChangeValueKeeps
<1>12. \/ change = Done(doc) \/ change = Threw(doc)
       \/ jArray /\ change = ChangeElement(doc, at(stop), node.nth, val)
       \/ Has(doc, key) /\ change = ChangeValue(doc, key, val)
  BY ONLY <1>1
<1> QED  BY <1>9, <1>10, <1>11, <1>12 DEF change

-----------------------------------------------------------------------------
(* The invariants.                                                         *)

(* The document and every document in the files are trees.                 *)
DocumentsAreTrees ==
  /\ DOMAIN files = FileName /\ IsTree(m_JsonCollection)
  /\ \A name \in FileName : IsDocument(files[name]) => IsTree(files[name])

(* The nodes on both tabs were made for paths of keys.                     *)
NodesHavePaths ==
  /\ DOMAIN tree = Tab
  /\ \A tab \in Tab : \A node \in DOMAIN tree[tab] : node.path \in Seq(Key) /\ node.nth \in Nat

(* The inductive invariant.                                                *)
ToolInv == DocumentsAreTrees /\ NodesHavePaths

(* What was not spoilt has everything in its place.                        *)
UnspoiltIsReadable ==
  /\ \A name \in FileName : name \notin spoilt => Readable(files[name])
  /\ InMemory \notin spoilt => Readable(m_JsonCollection)

(* The document before anything is loaded.                                 *)
LEMMA EmptyTree == IsTree(EmptyDocument)
<1>1. DOMAIN EmptyDocument = {<<>>} /\ EmptyDocument[<<>>] = [kind |-> "Object", value |-> <<>>]
  BY DEF EmptyDocument, Object
<1>2. <<>> \in Seq(Key)
  BY EmptySeq
<1> DEFINE root == [kind |-> "Object", value |-> <<>>]
<1>3. /\ DOMAIN root = {"kind", "value"} /\ root.kind = "Object" /\ root.kind # "Array" /\ root.kind # "Double"
      /\ root.value \in Seq(Key)
  BY EmptySeq
<1>4. \A p \in DOMAIN EmptyDocument : p = <<>> /\ EmptyDocument[p] = root
  BY <1>1
<1> HIDE DEF EmptyDocument, root
<1>5. <<>> \in DOMAIN EmptyDocument /\ DOMAIN EmptyDocument \subseteq Seq(Key)
  BY <1>1, <1>2
<1>6. \A p \in DOMAIN EmptyDocument :
        /\ DOMAIN EmptyDocument[p] = {"kind", "value"}
        /\ EmptyDocument[p].kind = "Object" => EmptyDocument[p].value \in Seq(Key)
        /\ EmptyDocument[p].kind = "Array" => EmptyDocument[p].value \in Seq(Number)
        /\ EmptyDocument[p].kind = "Double" => EmptyDocument[p].value \in Number
        /\ ~(p # <<>>)
  BY <1>3, <1>4
<1> QED  BY <1>5, <1>6, Zenon DEF IsTree

(* The tool starts with the files and no nodes.                            *)
LEMMA ToolInitInv == ToolInit => ToolInv
<1> SUFFICES ASSUME ToolInit PROVE ToolInv
  OBVIOUS
<1>1. DocumentsAreTrees
  BY EmptyTree, ConfigToolAssumption, FilesAssumption DEF ToolInit, DocumentsAreTrees
<1>2. NodesHavePaths
  BY DEF ToolInit, NodesHavePaths
<1> QED  BY <1>1, <1>2 DEF ToolInv

(* A tree that is built anew is made for the paths of its document.        *)
LEMMA NodesOfTree ==
  ASSUME NEW doc, IsTree(doc), NEW node \in Nodes(doc)
  PROVE  node.path \in Seq(Key) /\ node.nth \in Nat
<1>1. DOMAIN doc \subseteq Seq(Key)
  BY DEF IsTree
<1>2. CASE node \in {Node(path, 0) : path \in DOMAIN doc}
  BY <1>1, <1>2 DEF Node
<1>3. ASSUME NEW path \in DOMAIN doc, doc[path].kind = "Array",
             NEW n \in DOMAIN doc[path].value, node = Node(path, n)
      PROVE  node.path \in Seq(Key) /\ node.nth \in Nat
  <2>1. n \in Nat
    BY <1>3, LenProperties DEF IsTree
  <2> QED  BY <1>1, <1>3, <2>1 DEF Node
<1> QED  BY <1>2, <1>3 DEF Nodes

(* One tab's tree is built anew.                                           *)
LEMMA ShowKeeps ==
  ASSUME NodesHavePaths, NEW tab \in Tab, NEW doc, IsTree(doc),
         tree' = [tree EXCEPT ![tab] = BuildJsonDataTree(doc)]
  PROVE  NodesHavePaths'
<1>1. DOMAIN BuildJsonDataTree(doc) = Nodes(doc)
  BY DEF BuildJsonDataTree
<1>2. \A node \in DOMAIN BuildJsonDataTree(doc) : node.path \in Seq(Key) /\ node.nth \in Nat
  BY <1>1, NodesOfTree
<1>3. /\ DOMAIN tree' = Tab
      /\ \A other \in Tab : tree'[other] = tree[other] \/ tree'[other] = BuildJsonDataTree(doc)
  BY DEF NodesHavePaths
<1> QED  BY <1>2, <1>3 DEF NodesHavePaths

(* A click on a Modify button is an edit of the document.                  *)
LEMMA ClickEdits ==
  ASSUME ToolInv, NEW tab \in Tab, NEW other \in Tab, NEW node \in DOMAIN tree[tab],
         NEW label, NEW val, ChangeSelected(tab, other, node, label, val)
  PROVE  /\ EditKeeps(m_JsonCollection, [doc |-> m_JsonCollection', threw |-> error'])
         /\ NodesHavePaths'
         /\ InMemory \notin spoilt' =>
              InMemory \notin spoilt /\ ~error' /\ DOMAIN m_JsonCollection' = DOMAIN m_JsonCollection
         /\ spoilt \subseteq spoilt'
<1> DEFINE change == ChangeJsonData(m_JsonCollection, tree[tab], node, val)
<1>1. /\ m_JsonCollection' = change.doc /\ error' = change.threw
      /\ spoilt' = IF change.threw \/ DOMAIN change.doc # DOMAIN m_JsonCollection
                   THEN spoilt \cup {InMemory} ELSE spoilt
      /\ IF change.threw THEN UNCHANGED shown
         ELSE tree' = [tree EXCEPT ![tab][node] = NewText(@, label, val),
                                   ![other] = BuildJsonDataTree(change.doc)]
  BY DEF ChangeSelected
<1>2. node.path \in Seq(Key) /\ node.nth \in Nat /\ IsTree(m_JsonCollection)
  BY DEF ToolInv, NodesHavePaths, DocumentsAreTrees
<1>3. EditKeeps(m_JsonCollection, change)
  BY <1>2, ChangeJsonDataKeeps
<1> HIDE DEF change
<1>4. EditKeeps(m_JsonCollection, [doc |-> m_JsonCollection', threw |-> error'])
  BY <1>1, <1>3 DEF EditKeeps
<1>5. NodesHavePaths'
  <2>1. CASE change.threw
    BY <1>1, <2>1 DEF ToolInv, NodesHavePaths, shown
  <2>2. CASE ~change.threw
    <3> DEFINE new == BuildJsonDataTree(change.doc)
    <3>1. IsTree(change.doc)
      BY <1>3 DEF EditKeeps
    <3>2. \A n \in DOMAIN new : n.path \in Seq(Key) /\ n.nth \in Nat
      <4>1. DOMAIN new = Nodes(change.doc)
        BY DEF BuildJsonDataTree
      <4> QED  BY <3>1, <4>1, NodesOfTree
    <3>3. tree' = [[tree EXCEPT ![tab][node] = NewText(@, label, val)] EXCEPT ![other] = new]
      BY <1>1, <2>2
    <3> HIDE DEF new
    <3> DEFINE middle == [tree EXCEPT ![tab][node] = NewText(@, label, val)]
    <3>4. DOMAIN middle = Tab /\ \A any \in Tab : DOMAIN middle[any] = DOMAIN tree[any]
      BY DEF ToolInv, NodesHavePaths
    <3>5. tree' = [middle EXCEPT ![other] = new]
      BY <3>3
    <3> HIDE DEF middle
    <3>6. /\ DOMAIN tree' = Tab
          /\ \A any \in Tab : tree'[any] = new \/ DOMAIN tree'[any] = DOMAIN tree[any]
      BY <3>4, <3>5
    <3> QED  BY <3>2, <3>6 DEF ToolInv, NodesHavePaths
  <2> QED  BY <2>1, <2>2
<1>6. /\ spoilt \subseteq spoilt'
      /\ InMemory \notin spoilt' =>
           InMemory \notin spoilt /\ ~error' /\ DOMAIN m_JsonCollection' = DOMAIN m_JsonCollection
  BY <1>1
<1> QED  BY <1>4, <1>5, <1>6

(* What a step does to the documents: it loads one, saves one, edits the   *)
(* one in memory, or leaves them alone.                                    *)
LEMMA DocumentSteps ==
  ASSUME ToolInv, [ToolNext]_toolVars
  PROVE  /\ NodesHavePaths'
         /\ \/ /\ UNCHANGED <<files, m_JsonCollection, spoilt>>
            \/ \E name \in FileName :
                 /\ IsDocument(files[name]) /\ m_JsonCollection' = files[name]
                 /\ spoilt' = SpoiltAs(InMemory, name) /\ UNCHANGED files
            \/ \E name \in FileName :
                 /\ files' = [files EXCEPT ![name] = m_JsonCollection]
                 /\ spoilt' = SpoiltAs(name, InMemory) /\ UNCHANGED m_JsonCollection
            \/ /\ EditKeeps(m_JsonCollection, [doc |-> m_JsonCollection', threw |-> error'])
               /\ InMemory \notin spoilt' =>
                    InMemory \notin spoilt /\ ~error' /\ DOMAIN m_JsonCollection' = DOMAIN m_JsonCollection
               /\ spoilt \subseteq spoilt' /\ UNCHANGED files
<1> USE DEF ToolInv
<1>1. ASSUME NEW name \in FileName, LoadJsonFile(name)
      PROVE  /\ NodesHavePaths'
             /\ \/ UNCHANGED <<files, m_JsonCollection, spoilt>>
                \/ /\ IsDocument(files[name]) /\ m_JsonCollection' = files[name]
                   /\ spoilt' = SpoiltAs(InMemory, name) /\ UNCHANGED files
  <2>1. CASE ~IsDocument(files[name])
    BY <1>1, <2>1 DEF LoadJsonFile, NodesHavePaths
  <2>2. CASE IsDocument(files[name])
    <3>1. /\ m_JsonCollection' = files[name] /\ ShowJsonData(JsonVariables, files[name])
          /\ spoilt' = SpoiltAs(InMemory, name) /\ UNCHANGED files
      BY <1>1, <2>2 DEF LoadJsonFile
    <3>2. IsTree(files[name]) /\ JsonVariables \in Tab
      BY <2>2 DEF DocumentsAreTrees, Tab
    <3>3. NodesHavePaths'
      BY <3>1, <3>2, ShowKeeps DEF ShowJsonData
    <3> QED  BY <2>2, <3>1, <3>3
  <2> QED  BY <2>1, <2>2
<1>2. ASSUME NEW name \in FileName, SaveJsonFile(name)
      PROVE  /\ NodesHavePaths'
             /\ \/ UNCHANGED <<files, m_JsonCollection, spoilt>>
                \/ /\ files' = [files EXCEPT ![name] = m_JsonCollection]
                   /\ spoilt' = SpoiltAs(name, InMemory) /\ UNCHANGED m_JsonCollection
  BY <1>2 DEF SaveJsonFile, NodesHavePaths, shown
<1>3. ASSUME LoadDataFromTree
      PROVE  NodesHavePaths' /\ UNCHANGED <<files, m_JsonCollection, spoilt>>
  <2>1. ShowJsonData(SelectedObjJson, m_JsonCollection) /\ UNCHANGED <<files, m_JsonCollection, spoilt>>
    BY <1>3 DEF LoadDataFromTree
  <2>2. IsTree(m_JsonCollection) /\ SelectedObjJson \in Tab
    BY DEF DocumentsAreTrees, Tab
  <2> QED  BY <2>1, <2>2, ShowKeeps DEF ShowJsonData
<1>4. ASSUME NEW tab \in Tab, SelectNode(tab)
      PROVE  NodesHavePaths' /\ UNCHANGED <<files, m_JsonCollection, spoilt>>
  BY <1>4 DEF SelectNode, NodesHavePaths
<1>5. ASSUME NEW label \in Key, NEW val \in Text, UpdateJSONTreesAll(label, val)
      PROVE  /\ NodesHavePaths'
             /\ EditKeeps(m_JsonCollection, [doc |-> m_JsonCollection', threw |-> error'])
             /\ InMemory \notin spoilt' =>
                  InMemory \notin spoilt /\ ~error' /\ DOMAIN m_JsonCollection' = DOMAIN m_JsonCollection
             /\ spoilt \subseteq spoilt' /\ UNCHANGED files
  <2>1. PICK tab \in Tab, other \in Tab :
          \E node \in DOMAIN tree[tab] : ChangeSelected(tab, other, node, label, val)
    BY <1>5 DEF UpdateJSONTreesAll, Tab
  <2>2. UNCHANGED files
    BY <1>5 DEF UpdateJSONTreesAll
  <2> QED  BY <2>1, <2>2, ClickEdits
<1>6. ASSUME CollectGarbage
      PROVE  NodesHavePaths' /\ UNCHANGED <<files, m_JsonCollection, spoilt>>
  BY <1>6 DEF CollectGarbage, NodesHavePaths, shown
<1>7. ASSUME UNCHANGED toolVars
      PROVE  NodesHavePaths' /\ UNCHANGED <<files, m_JsonCollection, spoilt>>
  BY <1>7 DEF toolVars, NodesHavePaths, shown
<1> QED  BY <1>1, <1>2, <1>3, <1>4, <1>5, <1>6, <1>7, Zenon DEF ToolNext

(* Whatever is loaded, saved or edited is a tree.                          *)
LEMMA ToolInvNext == ToolInv /\ [ToolNext]_toolVars => ToolInv'
<1> SUFFICES ASSUME ToolInv, [ToolNext]_toolVars PROVE ToolInv'
  OBVIOUS
<1>1. DocumentsAreTrees'
  <2>1. CASE UNCHANGED <<files, m_JsonCollection>>
    BY <2>1 DEF ToolInv, DocumentsAreTrees
  <2>2. ASSUME NEW name \in FileName, IsDocument(files[name]), m_JsonCollection' = files[name],
               UNCHANGED files
        PROVE  DocumentsAreTrees'
    BY <2>2 DEF ToolInv, DocumentsAreTrees
  <2>3. ASSUME NEW name \in FileName, files' = [files EXCEPT ![name] = m_JsonCollection],
               UNCHANGED m_JsonCollection
        PROVE  DocumentsAreTrees'
    <3>1. \A other \in FileName : files'[other] = m_JsonCollection \/ files'[other] = files[other]
      BY <2>3 DEF ToolInv, DocumentsAreTrees
    <3>2. DOMAIN files' = DOMAIN files
      BY <2>3
    <3> QED  BY <2>3, <3>1, <3>2 DEF ToolInv, DocumentsAreTrees
  <2>4. ASSUME EditKeeps(m_JsonCollection, [doc |-> m_JsonCollection', threw |-> error']),
               UNCHANGED files
        PROVE  DocumentsAreTrees'
    <3>1. IsTree(m_JsonCollection')
      BY <2>4 DEF EditKeeps
    <3> QED  BY <2>4, <3>1 DEF ToolInv, DocumentsAreTrees
  <2> QED  BY <2>1, <2>2, <2>3, <2>4, DocumentSteps
<1> QED  BY <1>1, DocumentSteps DEF ToolInv

(* The invariant of the tool.                                              *)
LEMMA AlwaysToolInv == ToolSpec => []ToolInv
BY ToolInitInv, ToolInvNext, PTL DEF ToolSpec

(* What was not spoilt can be read, if that holds of what is in the files  *)
(* when the tool starts.                                                   *)
LEMMA ReadableNext ==
  ToolInv /\ UnspoiltIsReadable /\ [ToolNext]_toolVars => UnspoiltIsReadable'
<1> SUFFICES ASSUME ToolInv, UnspoiltIsReadable, [ToolNext]_toolVars PROVE UnspoiltIsReadable'
  OBVIOUS
<1> USE ConfigToolAssumption DEF UnspoiltIsReadable
<1>1. CASE UNCHANGED <<files, m_JsonCollection, spoilt>>
  BY <1>1
<1>2. ASSUME NEW name \in FileName, m_JsonCollection' = files[name],
             spoilt' = SpoiltAs(InMemory, name), UNCHANGED files
      PROVE  UnspoiltIsReadable'
  BY <1>2 DEF SpoiltAs
<1>3. ASSUME NEW name \in FileName, files' = [files EXCEPT ![name] = m_JsonCollection],
             spoilt' = SpoiltAs(name, InMemory), UNCHANGED m_JsonCollection
      PROVE  UnspoiltIsReadable'
  <2>1. files'[name] = m_JsonCollection /\ \A other \in FileName \ {name} : files'[other] = files[other]
    BY <1>3 DEF ToolInv, DocumentsAreTrees
  <2> QED  BY <1>3, <2>1 DEF SpoiltAs
<1>4. ASSUME EditKeeps(m_JsonCollection, [doc |-> m_JsonCollection', threw |-> error']),
             InMemory \notin spoilt' =>
               InMemory \notin spoilt /\ ~error' /\ DOMAIN m_JsonCollection' = DOMAIN m_JsonCollection,
             spoilt \subseteq spoilt', UNCHANGED files
      PROVE  UnspoiltIsReadable'
  <2>1. InMemory \notin spoilt' => Readable(m_JsonCollection')
    BY <1>4 DEF EditKeeps
  <2> QED  BY <1>4, <2>1
<1> QED  BY <1>1, <1>2, <1>3, <1>4, DocumentSteps

(* Of what has everything in its place the game asks no more than that the *)
(* numbers are such as it takes.                                           *)
LEMMA ReadableNumbers ==
  ASSUME NEW doc, IsTree(doc), Readable(doc)
  PROVE  CanBeRead(doc) \/ TooLarge(doc) \/ NotJson(doc)
<1>1. NumbersOf(doc) \subseteq Number
  <2>1. ASSUME NEW p \in DOMAIN doc, doc[p].kind = "Double" PROVE doc[p].value \in Number
    BY <2>1 DEF IsTree
  <2>2. ASSUME NEW p \in DOMAIN doc, doc[p].kind = "Array", NEW x \in Range(doc[p].value)
        PROVE  x \in Number
    <3>1. doc[p].value \in Seq(Number)
      BY <2>2 DEF IsTree
    <3> QED  BY <2>2, <3>1, ElementOfSeq, LenProperties DEF Range
  <2> QED  BY <2>1, <2>2 DEF NumbersOf
<1>2. Has(doc, <<"debrisNumber">>) /\ doc[<<"debrisNumber">>].value \in UInt32
  BY DEF Readable, IsLaidOut
<1> QED  BY <1>1, <1>2 DEF Readable, CanBeRead, TooLarge, NotJson

(* For every set of files, keys and texts: if the game can read every      *)
(* document that is in the files when the tool starts, as that of the      *)
(* repository, it can read what the tool saves, through the remove and the *)
(* insert of every edit, unless an edit on the way threw or removed a node *)
(* or a number was typed that only the tool takes (GameReadsConfig).       *)
THEOREM ConfigStaysReadable ==
  (\A name \in FileName : IsDocument(InitialFiles[name]) => CanBeRead(InitialFiles[name]))
    => (ToolSpec => []GameReadsConfig)
<1> SUFFICES ASSUME \A name \in FileName :
                      IsDocument(InitialFiles[name]) => CanBeRead(InitialFiles[name])
             PROVE  ToolSpec => []GameReadsConfig
  OBVIOUS
<1>1. ToolInit => UnspoiltIsReadable
  BY ConfigToolAssumption DEF ToolInit, UnspoiltIsReadable, CanBeRead, Readable
<1>2. ToolInv /\ UnspoiltIsReadable => GameReadsConfig
  <2> SUFFICES ASSUME ToolInv, UnspoiltIsReadable, Config \notin spoilt
               PROVE  CanBeRead(files[Config]) \/ TooLarge(files[Config]) \/ NotJson(files[Config])
    BY DEF GameReadsConfig
  <2>1. Readable(files[Config]) /\ Config \in FileName
    BY ConfigToolAssumption DEF UnspoiltIsReadable
  <2>2. IsTree(files[Config])
    BY <2>1 DEF ToolInv, DocumentsAreTrees, Readable, IsLaidOut
  <2> QED  BY <2>1, <2>2, ReadableNumbers
<1> QED  BY AlwaysToolInv, ReadableNext, <1>1, <1>2, PTL DEF ToolSpec
=============================================================================
