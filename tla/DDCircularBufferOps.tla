------------------------- MODULE DDCircularBufferOps -------------------------
(***************************************************************************)
(* The functions of class DDCircularBuffer (DDFramework), the ring of the  *)
(* client's network code.  Where the code copies in two pieces around the  *)
(* end of the memory, the operators count modulo the capacity.             *)
(***************************************************************************)
EXTENDS Integers, Sequences

CONSTANTS
  mCapacity,  \* size of the memory in bytes (BUFFER_SIZE in DDNetwork.h)
  Byte,       \* the values a stored byte can have
  Junk        \* content of memory nobody wrote

Index == 0 .. (mCapacity - 1)

DDCircularBufferType ==
  [ mData : [Index -> Byte \cup {Junk}], mBeginIndex : Index, mEndIndex : Index,
    mCurrentSize : 0 .. mCapacity ]

NewRing ==
  [ mData |-> [i \in Index |-> Junk], mBeginIndex |-> 0, mEndIndex |-> 0,
    mCurrentSize |-> 0 ]

(* The result of send and recv, an int, becomes a size_t: SOCKET_ERROR, -1, *)
(* is then larger than any capacity.                                       *)
SizeT(n) == IF n < 0 THEN mCapacity + 1 ELSE n

Room(ring) == mCapacity - ring.mCurrentSize
CanWrite(ring, n) == n # 0 /\ n <= Room(ring)

Stored(ring, data) ==
  [i \in Index |-> LET k == (i - ring.mEndIndex) % mCapacity
                   IN  IF k < Len(data) THEN data[k + 1] ELSE ring.mData[i]]

Write(ring, data) ==
  IF CanWrite(ring, Len(data))
  THEN [ring EXCEPT !.mData = Stored(ring, data),
                    !.mEndIndex = (@ + Len(data)) % mCapacity,
                    !.mCurrentSize = @ + Len(data)]
  ELSE ring

(* Peek and Read refuse to hand out more than is stored.                   *)
CanRead(ring, n) == n # 0 /\ n <= ring.mCurrentSize

FirstBytes(ring, n) ==
  [i \in 1 .. n |-> ring.mData[(ring.mBeginIndex + i - 1) % mCapacity]]

Content(ring) == FirstBytes(ring, ring.mCurrentSize)

(* Mutant: a result of SOCKET_ERROR empties the buffer.                    *)
Consume_All(ring, n) ==
  LET m == IF n <= ring.mCurrentSize THEN n ELSE ring.mCurrentSize
  IN  [ring EXCEPT !.mBeginIndex = (@ + m) % mCapacity, !.mCurrentSize = @ - m]

Consume(ring, n) ==
  IF CanRead(ring, n)
  THEN [ring EXCEPT !.mBeginIndex = (@ + n) % mCapacity, !.mCurrentSize = @ - n]
  ELSE ring

Read(ring, n) == Consume(ring, n)
=============================================================================
