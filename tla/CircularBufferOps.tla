------------------------- MODULE CircularBufferOps -------------------------
(***************************************************************************)
(* The functions of class CircularBuffer (DD_Server/CircularBuffer.h and   *)
(* CircularBuffer.cpp) as operators on a buffer value.  A buffer value is  *)
(* a record with the class's own fields; pointers are offsets from         *)
(* mBuffer, so mBuffer is 0 and mBufferEnd is Capacity.                    *)
(*                                                                         *)
(*     |<-- B -->      <-- A -->        |                                  *)
(*                                                                         *)
(* Data lives in region A and, once the space in front of A is larger than *)
(* the space behind it, also in region B at the front of the memory.       *)
(***************************************************************************)
EXTENDS Integers, Sequences

CONSTANTS
  Capacity,  \* size of the memory in bytes (BUFSIZE in ClientSession.h)
  Byte,      \* the values a stored byte can have
  Junk       \* content of memory nobody wrote: new char[] leaves it undefined

ASSUME CapacityAssumption == Capacity \in Nat \ {0}
ASSUME JunkAssumption == Junk \notin Byte

NullPtr == -1                    \* nullptr
Address == 0 .. (Capacity - 1)

CircularBufferType ==
  [ mBuffer         : [Address -> Byte \cup {Junk}],
    mARegionPointer : 0 .. Capacity,
    mARegionSize    : 0 .. Capacity,
    mBRegionPointer : {NullPtr, 0},
    mBRegionSize    : 0 .. Capacity ]

(* The state the constructor leaves: all memory belongs to the empty A.    *)
EmptyOver(mem) ==
  [ mBuffer |-> mem, mARegionPointer |-> 0, mARegionSize |-> 0,
    mBRegionPointer |-> NullPtr, mBRegionSize |-> 0 ]

NewBuffer == EmptyOver([i \in Address |-> Junk])

(* memcpy into the memory, memmove to its front.                           *)
CopyIn(mem, at, data) ==
  [i \in Address |-> IF at <= i /\ i < at + Len(data) THEN data[i - at + 1]
                                                      ELSE mem[i]]
MoveToFront(mem, from, n) ==
  [i \in Address |-> IF i < n THEN mem[from + i] ELSE mem[i]]

-----------------------------------------------------------------------------
(* Sizes.                                                                  *)

GetStoredSize(cb) == cb.mARegionSize + cb.mBRegionSize
GetContiguiousBytes(cb) ==
  IF cb.mARegionSize > 0 THEN cb.mARegionSize ELSE cb.mBRegionSize
GetAFreeSpace_NoOffset(cb) == Capacity - cb.mARegionSize   \* mutant
GetAFreeSpace(cb) == Capacity - cb.mARegionPointer - cb.mARegionSize
GetSpaceBeforeA(cb) == cb.mARegionPointer
GetBFreeSpace(cb) ==
  IF cb.mBRegionPointer = NullPtr
  THEN 0 ELSE cb.mARegionPointer - cb.mBRegionPointer - cb.mBRegionSize

GetBufferStart(cb) ==
  IF cb.mARegionSize > 0 THEN cb.mARegionPointer ELSE cb.mBRegionPointer

(* Mutant: the data would go over what is stored already.                  *)
GetBuffer_AtStart(cb) ==
  IF cb.mBRegionPointer # NullPtr THEN cb.mBRegionPointer ELSE cb.mARegionPointer

(* Where the next write stores.                                            *)
GetBuffer(cb) ==
  IF cb.mBRegionPointer # NullPtr THEN cb.mBRegionPointer + cb.mBRegionSize
                                  ELSE cb.mARegionPointer + cb.mARegionSize

AllocateB(cb) == [cb EXCEPT !.mBRegionPointer = 0]

(* Write and GetFreeSpaceSize open region B as soon as the space in front  *)
(* of A is the larger one.                                                 *)
ChooseRegion(cb) ==
  IF cb.mBRegionPointer = NullPtr /\ GetAFreeSpace(cb) < GetSpaceBeforeA(cb)
  THEN AllocateB(cb) ELSE cb

FreeOfChosen(cb) ==
  IF cb.mBRegionPointer # NullPtr THEN GetBFreeSpace(cb) ELSE GetAFreeSpace(cb)

GetFreeSpaceSize_OfA(cb) == GetAFreeSpace(cb)              \* mutant
GetFreeSpaceSize(cb) == FreeOfChosen(ChooseRegion(cb))

-----------------------------------------------------------------------------
(* Commit: the data was stored at GetBuffer by somebody else (WSARecv).    *)
Commit(cb, len) ==
  IF cb.mBRegionPointer # NullPtr
  THEN [cb EXCEPT !.mBRegionSize = @ + len]
  ELSE [cb EXCEPT !.mARegionSize = @ + len]

Store(cb, data) ==
  Commit([cb EXCEPT !.mBuffer = CopyIn(@, GetBuffer(cb), data)], Len(data))

(* Write: B stays allocated even when the data does not fit into it.       *)
WriteFits_BeforeOnly(cb, data) == GetStoredSize(cb) < Capacity   \* mutant
WriteFits(cb, data) == Len(data) <= GetFreeSpaceSize(cb)
Write(cb, data) ==
  IF WriteFits(cb, data) THEN Store(ChooseRegion(cb), data) ELSE ChooseRegion(cb)

(* The first n stored bytes, A's before B's.                               *)
FirstBytes(cb, n) ==
  [i \in 1 .. n |-> IF i <= cb.mARegionSize
                    THEN cb.mBuffer[cb.mARegionPointer + i - 1]
                    ELSE cb.mBuffer[cb.mBRegionPointer + i - cb.mARegionSize - 1]]

(* Read and Remove end alike: an emptied A is replaced by B, pulled to the *)
(* front of the memory, or by an empty A owning everything.  `b' bytes     *)
(* have already been taken off the front of B.                             *)
ReplaceEmptyA_DropsB(cb, b) == EmptyOver(cb.mBuffer)   \* mutant
ReplaceEmptyA(cb, b) ==
  IF cb.mBRegionSize > b
  THEN [ mBuffer         |-> MoveToFront(cb.mBuffer, cb.mBRegionPointer + b,
                                         cb.mBRegionSize - b),
         mARegionPointer |-> 0,       mARegionSize |-> cb.mBRegionSize - b,
         mBRegionPointer |-> NullPtr, mBRegionSize |-> 0 ]
  ELSE EmptyOver(cb.mBuffer)

Remove(cb, len) ==
  IF len < cb.mARegionSize
  THEN [cb EXCEPT !.mARegionPointer = @ + len, !.mARegionSize = @ - len]
  ELSE ReplaceEmptyA(cb, IF len - cb.mARegionSize <= cb.mBRegionSize
                         THEN len - cb.mARegionSize ELSE cb.mBRegionSize)

(* Peek and Read refuse to hand out more than is stored.                   *)
CanRead(cb, n) == n <= GetStoredSize(cb)
Read(cb, n) == IF CanRead(cb, n) THEN Remove(cb, n) ELSE cb

(* The bytes of the buffer in the order they will be read.                 *)
Content(cb) == FirstBytes(cb, GetStoredSize(cb))
=============================================================================
