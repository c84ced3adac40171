--------------------------- MODULE CircularBuffer ---------------------------
(***************************************************************************)
(* One CircularBuffer object and the calls its two users make on it: the   *)
(* send buffer of a session is written by SendRequest and emptied by       *)
(* Remove; the receive buffer is filled by WSARecv between                 *)
(* GetFreeSpaceSize/GetBuffer (PostRecv) and Commit (OnRead) and emptied   *)
(* by Peek and Read.  While a receive is in progress the kernel owns the   *)
(* memory behind GetBuffer, and the program makes no changing call.        *)
(***************************************************************************)
EXTENDS CircularBufferOps

CONSTANT MaxTransfer   \* bound on the bytes one call moves

ASSUME MaxTransferAssumption == MaxTransfer \in Nat

VARIABLES
  cb,       \* the object
  granted,  \* buf.len of the WSARecv in progress, or NothingGranted
  ret       \* what the last call returned

vars == <<cb, granted, ret>>

Queue == INSTANCE ByteQueue WITH queue <- Content(cb)

Transfer == UNION {[1 .. n -> Byte] : n \in 1 .. MaxTransfer}
Ok(bytes, size) == [ok |-> TRUE, bytes |-> bytes, size |-> size]
Refused == [ok |-> FALSE, bytes |-> <<>>, size |-> 0]
NothingGranted == -1

Init ==
  /\ cb = NewBuffer
  /\ granted = NothingGranted
  /\ ret = Refused

CallWrite(data) ==
  /\ granted = NothingGranted
  /\ cb' = Write(cb, data)
  /\ ret' = IF WriteFits(cb, data) THEN Ok(<<>>, 0) ELSE Refused
  /\ UNCHANGED granted

CallPeek(n) ==
  /\ ret' = IF CanRead(cb, n) THEN Ok(FirstBytes(cb, n), 0) ELSE Refused
  /\ UNCHANGED <<cb, granted>>

CallRead(n) ==
  /\ granted = NothingGranted
  /\ cb' = Read(cb, n)
  /\ ret' = IF CanRead(cb, n) THEN Ok(FirstBytes(cb, n), 0) ELSE Refused
  /\ UNCHANGED granted

CallRemove(len) ==
  /\ granted = NothingGranted
  /\ cb' = Remove(cb, len)
  /\ ret' = Ok(<<>>, 0)
  /\ UNCHANGED granted

(* PostRecv: buf.len = GetFreeSpaceSize(), buf.buf = GetBuffer().          *)
PostRecvBuffer ==
  /\ granted = NothingGranted
  /\ cb' = ChooseRegion(cb)
  /\ granted' = GetFreeSpaceSize(cb)
  /\ ret' = Ok(<<>>, GetFreeSpaceSize(cb))

(* WSARecv stored data at GetBuffer() and OnRead commits it.               *)
CommitReceived(data) ==
  /\ Len(data) <= granted
  /\ cb' = Store(cb, data)
  /\ granted' = NothingGranted
  /\ ret' = Ok(<<>>, 0)

Next ==
  \/ \E data \in Transfer : CallWrite(data) \/ CommitReceived(data)
  \/ \E n \in 0 .. MaxTransfer : CallPeek(n) \/ CallRead(n)
  \/ \E len \in 0 .. MaxTransfer : CallRemove(len)
  \/ PostRecvBuffer

Spec == Init /\ [][Next]_vars

-----------------------------------------------------------------------------
TypeOK ==
  /\ cb \in CircularBufferType
  /\ granted \in {NothingGranted} \cup 0 .. Capacity
  /\ ret.ok \in BOOLEAN /\ ret.size \in 0 .. Capacity

(* The regions never overlap or leave the memory, B exists only in front   *)
(* of a non-empty A, and an empty buffer owns all of its memory again: the *)
(* pointer arithmetic of Write, Read and Remove never loses space for good.*)
Layout ==
  /\ cb.mARegionPointer + cb.mARegionSize <= Capacity
  /\ cb.mARegionSize = 0 => cb.mARegionPointer = 0 /\ cb.mBRegionPointer = NullPtr
  /\ cb.mBRegionPointer = NullPtr => cb.mBRegionSize = 0
  /\ cb.mBRegionPointer # NullPtr => cb.mBRegionSize <= cb.mARegionPointer

(* While B is open, the space given up behind A is smaller than A's        *)
(* offset: this is what bounds the waste of the two-region scheme.         *)
SmallTail ==
  cb.mBRegionPointer # NullPtr => GetAFreeSpace(cb) < cb.mARegionPointer

(* No call hands out memory that was never written.                        *)
OnlyWrittenBytes == \A i \in DOMAIN Content(cb) : Content(cb)[i] # Junk

(* The window offered to a receive is exactly the free space behind        *)
(* GetBuffer until the receive is committed.                               *)
WindowFree ==
  granted # NothingGranted =>
    granted = FreeOfChosen(cb) /\ GetBuffer(cb) + granted <= Capacity

(* CircularBuffer implements the queue of bytes.                           *)
ImplementsByteQueue == Queue!Spec
=============================================================================
