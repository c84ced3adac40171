------------------------- MODULE ServerBufferProofs -------------------------
(***************************************************************************)
(* The server's CircularBuffer, for every capacity, every set of byte      *)
(* values and every bound on transfers, packets and sends: one object keeps*)
(* its layout and implements ByteQueue; and as long as no send of a session*)
(* overlaps another one, the client gets exactly the bytes SendRequest     *)
(* accepted.                                                               *)
(***************************************************************************)
EXTENDS CircularBuffer, SendPath, CircularBufferOpsProofs, SequenceTheorems, TLAPS

(* The inductive invariant.                                                *)
IInv ==
  /\ Good(cb)
  /\ granted \in {NothingGranted} \cup 0 .. Capacity
  /\ WindowFree
  /\ ret.ok \in BOOLEAN /\ ret.size \in 0 .. Capacity

USE CapacityAssumption, JunkAssumption, MaxTransferAssumption, SendAssumption

-----------------------------------------------------------------------------
(* TypeOK, Layout, SmallTail, OnlyWrittenBytes and WindowFree follow from  *)
(* the inductive invariant.                                                *)
LEMMA IInvImplies ==
  IInv => TypeOK /\ Layout /\ SmallTail /\ OnlyWrittenBytes /\ WindowFree
<1> SUFFICES ASSUME IInv
             PROVE  TypeOK /\ Layout /\ SmallTail /\ OnlyWrittenBytes /\ WindowFree
  OBVIOUS
<1>1. Good(cb)
  BY DEF IInv
<1>2. TypeOK /\ WindowFree
  BY <1>1 DEF IInv, TypeOK, Good, Shaped
<1>3. Layout /\ SmallTail
  BY <1>1 DEF Layout, SmallTail, Good, Shaped
<1>4. OnlyWrittenBytes
  <2>1. Content(cb) \in Seq(Byte)
    BY <1>1, ContentIsSeq
  <2> HIDE DEF Content
  <2>2. \A i \in DOMAIN Content(cb) : Content(cb)[i] \in Byte
    BY <2>1, ElementOfSeq, LenProperties
  <2> QED  BY <2>2 DEF OnlyWrittenBytes
<1> QED  BY <1>2, <1>3, <1>4

LEMMA InitIInv == Init => IInv /\ Queue!Init
<1> SUFFICES ASSUME Init PROVE IInv /\ Queue!Init
  OBVIOUS
<1>1. Good(cb)
  BY DEF Init, NewBuffer, EmptyOver, Good, Shaped, Filled, CircularBufferType,
         Address
<1>2. GetStoredSize(cb) = 0
  BY DEF Init, NewBuffer, EmptyOver, GetStoredSize
<1>3. Content(cb) = <<>>
  BY <1>1, <1>2, ContentIsSeq, EmptySeq
<1> QED  BY <1>1, <1>3 DEF Init, IInv, WindowFree, NothingGranted, Refused,
             Queue!Init, Queue!NothingGranted, Queue!Refused

(* A transfer is a sequence of bytes.                                      *)
LEMMA TransferIsSeq ==
  ASSUME NEW data \in Transfer PROVE data \in Seq(Byte) /\ Len(data) \in Nat
BY DEF Transfer

(* A changing call leaves a good buffer and no receive in progress.        *)
LEMMA IInvAfterCall ==
  ASSUME Good(cb'), granted' = NothingGranted,
         ret'.ok \in BOOLEAN, ret'.size \in 0 .. Capacity
  PROVE  IInv'
BY DEF IInv, WindowFree

(* One call on the buffer is one call on the queue.                        *)
LEMMA NextStep ==
  ASSUME IInv, [Next]_vars PROVE IInv' /\ [Queue!Next]_(Queue!vars)
<1> USE DEF Ok, Refused, Queue!Ok, Queue!Refused
<1> DEFINE w == Content(cb)
<1>1. /\ Good(cb) /\ ret.ok \in BOOLEAN /\ ret.size \in 0 .. Capacity
      /\ granted \in {NothingGranted} \cup 0 .. Capacity
  BY DEF IInv
<1>2. w \in Seq(Byte) /\ Len(w) = GetStoredSize(cb) /\ GetStoredSize(cb) \in 0 .. Capacity
  BY <1>1, ContentIsSeq
<1>3. /\ Good(ChooseRegion(cb))
      /\ Content(ChooseRegion(cb)) = w
      /\ GetFreeSpaceSize(cb) = FreeOfChosen(ChooseRegion(cb))
      /\ GetFreeSpaceSize(cb) \in 0 .. Capacity
      /\ 2 * (GetStoredSize(cb) + GetFreeSpaceSize(cb) + 1) > Capacity
      /\ GetStoredSize(cb) + GetFreeSpaceSize(cb) <= Capacity
  BY <1>1, ChooseRegionGood DEF GetFreeSpaceSize
<1>4. 0 \in 0 .. Capacity
  OBVIOUS
<1> HIDE DEF w
<1>5. ASSUME NEW data \in Transfer, CallWrite(data)
      PROVE  IInv' /\ Queue!Write(data)
  <2>1. data \in Seq(Byte) /\ Len(data) \in Nat
    BY TransferIsSeq
  <2>2. CASE WriteFits(cb, data)
    <3>1. cb' = Store(ChooseRegion(cb), data)
      BY <1>5, <2>2 DEF CallWrite, Write
    <3>2. Len(data) <= FreeOfChosen(ChooseRegion(cb))
      BY <2>2, <1>3 DEF WriteFits
    <3>3. Good(cb') /\ Content(cb') = w \o data
      BY <3>1, <3>2, <2>1, <1>3, StoreGood
    <3>4. IInv'
      BY <3>3, <1>4, <1>5, <2>2, IInvAfterCall DEF CallWrite
    <3>5. Len(w) + Len(data) <= Capacity
      BY <3>2, <1>2, <1>3, <2>1
    <3> QED  BY <3>3, <3>4, <3>5, <1>5, <2>2
             DEF CallWrite, Queue!Write, NothingGranted, Queue!NothingGranted, w
  <2>3. CASE ~WriteFits(cb, data)
    <3>1. cb' = ChooseRegion(cb) /\ ret' = Refused
      BY <1>5, <2>3 DEF CallWrite, Write
    <3>2. Good(cb') /\ Content(cb') = w
      BY <3>1, <1>3
    <3>3. IInv'
      BY <3>1, <3>2, <1>4, <1>5, IInvAfterCall DEF CallWrite
    <3>4. 2 * (Len(w) + Len(data)) > Capacity
      BY <2>1, <2>3, <1>2, <1>3 DEF WriteFits
    <3> QED  BY <3>1, <3>2, <3>3, <3>4, <1>5
             DEF CallWrite, Queue!Write, Queue!Crowded, NothingGranted,
                 Queue!NothingGranted, w
  <2> QED  BY <2>2, <2>3
<1>6. ASSUME NEW n \in 0 .. MaxTransfer, CallPeek(n)
      PROVE  IInv' /\ Queue!Peek(n)
  <2>1. n <= GetStoredSize(cb) => FirstBytes(cb, n) = SubSeq(w, 1, n)
    BY <1>1, FirstBytesGood DEF w
  <2>2. IInv'
    BY <1>6, <1>1, <1>4 DEF CallPeek, IInv, WindowFree
  <2> QED  BY <2>1, <2>2, <1>2, <1>6 DEF CallPeek, CanRead, Queue!Peek, w
<1>7. ASSUME NEW n \in 0 .. MaxTransfer, CallRead(n)
      PROVE  IInv' /\ Queue!Read(n)
  <2>1. CASE n <= GetStoredSize(cb)
    <3>1. cb' = Remove(cb, n) /\ ret' = Ok(FirstBytes(cb, n), 0)
      BY <1>7, <2>1 DEF CallRead, Read, CanRead
    <3>2. Good(cb') /\ Content(cb') = SubSeq(w, n + 1, Len(w))
      <4>1. n \in Nat
        OBVIOUS
      <4>2. /\ Good(Remove(cb, n))
            /\ Content(Remove(cb, n)) = SubSeq(w, n + 1, GetStoredSize(cb))
        BY <4>1, <2>1, <1>1, RemoveGood, Zenon DEF w
      <4> QED  BY <4>2, <3>1, <1>2, Zenon
    <3>3. FirstBytes(cb, n) = SubSeq(w, 1, n)
      BY <2>1, <1>1, FirstBytesGood DEF w
    <3>4. IInv'
      BY <3>1, <3>2, <1>4, <1>7, IInvAfterCall DEF CallRead
    <3> QED  BY <3>1, <3>2, <3>3, <3>4, <1>2, <1>7, <2>1
             DEF CallRead, Queue!Read, NothingGranted, Queue!NothingGranted, w
  <2>2. CASE ~(n <= GetStoredSize(cb))
    <3>1. cb' = cb /\ ret' = Refused
      BY <1>7, <2>2 DEF CallRead, Read, CanRead
    <3>2. IInv'
      <4>1. Good(cb')
        BY <3>1, <1>1
      <4>2. granted' = NothingGranted
        BY <1>7 DEF CallRead
      <4>3. ret'.ok \in BOOLEAN /\ ret'.size \in 0 .. Capacity
        BY <3>1, <1>4
      <4> QED  BY <4>1, <4>2, <4>3, IInvAfterCall
    <3> QED  BY <3>1, <3>2, <1>2, <1>7, <2>2
             DEF CallRead, Queue!Read, NothingGranted, Queue!NothingGranted, w
  <2> QED  BY <2>1, <2>2
<1>8. ASSUME NEW len \in 0 .. MaxTransfer, CallRemove(len)
      PROVE  IInv' /\ Queue!Remove(len)
  <2>1. cb' = Remove(cb, len)
    BY <1>8 DEF CallRemove
  <2>2. Good(cb') /\ Content(cb') =
          IF len <= Len(w) THEN SubSeq(w, len + 1, Len(w)) ELSE <<>>
    <3>1. len \in Nat
      OBVIOUS
    <3>2. /\ Good(Remove(cb, len))
          /\ Content(Remove(cb, len)) =
               IF len <= GetStoredSize(cb)
               THEN SubSeq(w, len + 1, GetStoredSize(cb)) ELSE <<>>
      BY <3>1, <1>1, RemoveGood, Zenon DEF w
    <3> QED  BY <3>2, <2>1, <1>2, Zenon
  <2>3. IInv'
    BY <2>2, <1>4, <1>8, IInvAfterCall DEF CallRemove
  <2> QED  BY <2>2, <2>3, <1>8
           DEF CallRemove, Queue!Remove, NothingGranted, Queue!NothingGranted, w
<1>9. ASSUME PostRecvBuffer
      PROVE  IInv' /\ Queue!Grant
  <2>1. /\ Good(cb') /\ Content(cb') = w
        /\ granted' = GetFreeSpaceSize(cb)
        /\ granted' = FreeOfChosen(cb')
        /\ ret' = Ok(<<>>, GetFreeSpaceSize(cb))
    BY <1>9, <1>3 DEF PostRecvBuffer
  <2>2. GetBuffer(cb') + granted' <= Capacity
    BY <2>1 DEF GetBuffer, FreeOfChosen, GetAFreeSpace, GetBFreeSpace, Good,
                Shaped, CircularBufferType, NullPtr
  <2>3. IInv'
    BY <2>1, <2>2, <1>3 DEF IInv, WindowFree
  <2>4. /\ GetFreeSpaceSize(cb) \in 0 .. Capacity - Len(w)
        /\ 2 * (Len(w) + (GetFreeSpaceSize(cb) + 1)) > Capacity
    BY <1>2, <1>3
  <2> QED  BY <2>1, <2>3, <2>4, <1>9
           DEF PostRecvBuffer, Queue!Grant, Queue!Crowded, NothingGranted,
               Queue!NothingGranted, w
<1>10. ASSUME NEW data \in Transfer, CommitReceived(data)
       PROVE  IInv' /\ Queue!Received(data)
  <2>1. data \in Seq(Byte) /\ Len(data) \in Nat /\ Len(data) # 0
    BY TransferIsSeq DEF Transfer
  <2>2. Len(data) <= FreeOfChosen(cb)
    BY <2>1, <1>1, <1>10 DEF CommitReceived, IInv, WindowFree, NothingGranted
  <2>3. Good(cb') /\ Content(cb') = w \o data
    BY <2>1, <2>2, <1>1, <1>10, StoreGood DEF CommitReceived, w
  <2>4. IInv'
    BY <2>3, <1>4, <1>10, IInvAfterCall DEF CommitReceived
  <2> QED  BY <2>3, <2>4, <1>10
           DEF CommitReceived, Queue!Received, NothingGranted,
               Queue!NothingGranted, w
<1>11. ASSUME UNCHANGED vars
       PROVE  IInv' /\ UNCHANGED Queue!vars
  BY <1>11 DEF vars, IInv, WindowFree, Queue!vars
<1>12. Queue!Transfer = Transfer
  BY DEF Queue!Transfer, Transfer
<1> QED  BY <1>5, <1>6, <1>7, <1>8, <1>9, <1>10, <1>11, <1>12 DEF Next, Queue!Next

(* The buffer keeps its layout: the regions stay apart and inside the      *)
(* memory, an empty buffer owns all of it, at most the space behind A is   *)
(* given up, nothing but written bytes is handed out, and the memory lent  *)
(* to a receive stays free until the receive is committed.                 *)
THEOREM BufferSafety ==
  Spec => [](TypeOK /\ Layout /\ SmallTail /\ OnlyWrittenBytes /\ WindowFree)
<1>1. Init => IInv
  BY InitIInv
<1>2. IInv /\ [Next]_vars => IInv'
  BY NextStep
<1> QED  BY <1>1, <1>2, IInvImplies, PTL DEF Spec

(* The two-region buffer implements the queue of bytes: every byte comes   *)
(* out once, in the order it went in, and a write is refused only when the *)
(* buffer would be more than half full.                                    *)
THEOREM Implementation == Spec => ImplementsByteQueue
<1>1. Init => IInv /\ Queue!Init
  BY InitIInv
<1>2. IInv /\ [Next]_vars => IInv' /\ [Queue!Next]_(Queue!vars)
  BY NextStep
<1> QED  BY <1>1, <1>2, PTL DEF Spec, ImplementsByteQueue, Queue!Spec
-----------------------------------------------------------------------------
(***************************************************************************)
(* The send path.                                                          *)
(***************************************************************************)

(* How many bytes at the front of buffer the client has got already: those *)
(* of a send whose completion routine has not run.                         *)
Given(ss, done) == IF done > 0 THEN Head(ss).len ELSE 0

(* The only send, if there is one, reads the front of region A.  Writes    *)
(* leave that in its place: A has bytes, so that they go behind them or    *)
(* into B.                                                                 *)
Posted(buffer, ss) ==
  ss # <<>> => /\ Head(ss).at = buffer.mARegionPointer
               /\ Head(ss).len <= buffer.mARegionSize

(* What the client has not got is what follows in the buffer.              *)
Rest(buffer, ss, done, bytes) ==
  /\ Given(ss, done) <= GetStoredSize(buffer)
  /\ bytes = SubSeq(Content(buffer), Given(ss, done) + 1, GetStoredSize(buffer))

(* What is known of buffer and send while none overlaps another one.       *)
Handed(buffer, ss, done, bytes) ==
  Len(ss) <= 1 /\ Posted(buffer, ss) /\ Rest(buffer, ss, done, bytes)

(* The inductive invariant.                                                *)
Types ==
  /\ pc \in {"loop", "sleep"} /\ mConnected \in BOOLEAN
  /\ Good(mSendBuffer)
  /\ sends \in Seq(Send) /\ carriedOut \in 0 .. Len(sends)
  /\ undelivered \in Seq(Byte) /\ intact \in BOOLEAN /\ overlapped \in BOOLEAN

(* The inductive invariant of the send path.                               *)
SendInv ==
  /\ Types
  /\ mConnected /\ ~overlapped => Handed(mSendBuffer, sends, carriedOut, undelivered)
  /\ ExactUnlessOverlapped


-----------------------------------------------------------------------------
(* A packet is a sequence of bytes.                                        *)
LEMMA PacketIsSeq ==
  ASSUME NEW packet \in Packet PROVE packet \in Seq(Byte) /\ Len(packet) \in Nat
BY DEF Packet

(* What a send has of a buffer it was posted on.                           *)
LEMMA PostedSend ==
  ASSUME NEW c, Good(c), NEW ss \in Seq(Send), ss # <<>>, Posted(c, ss)
  PROVE  /\ Head(ss) \in Send /\ Head(ss) = ss[1]
         /\ Head(ss).len \in Nat \ {0} /\ Head(ss).len <= GetStoredSize(c)
         /\ c.mARegionSize \in Nat /\ c.mARegionSize > 0
         /\ GetStoredSize(c) \in Nat
<1>1. Head(ss) \in Send /\ Head(ss) = ss[1]
  OBVIOUS
<1>2. Head(ss).len \in 1 .. Capacity
  BY <1>1 DEF Send
<1>3. /\ c.mARegionSize \in 0 .. Capacity /\ c.mBRegionSize \in 0 .. Capacity
      /\ Head(ss).len <= c.mARegionSize
  BY DEF Good, Shaped, CircularBufferType, Posted
<1> QED  BY <1>1, <1>2, <1>3 DEF GetStoredSize

(* A request that is accepted comes behind what the client has not got.    *)
LEMMA WriteHanded ==
  ASSUME NEW c, Good(c), NEW ss \in Seq(Send), NEW done \in 0 .. Len(ss),
         NEW bytes \in Seq(Byte), NEW data \in Seq(Byte),
         WriteFits(c, data), Handed(c, ss, done, bytes)
  PROVE  Handed(Write(c, data), ss, done, bytes \o data)
<1> DEFINE d == Write(c, data)   g == Given(ss, done)
<1>1. /\ Good(d) /\ Content(d) = Content(c) \o data
      /\ GetStoredSize(d) = GetStoredSize(c) + Len(data)
      /\ c.mARegionSize > 0 => /\ d.mARegionPointer = c.mARegionPointer
                               /\ d.mARegionSize >= c.mARegionSize
  BY WriteGood
<1> HIDE DEF d
<1>2. /\ Content(c) \in Seq(Byte) /\ Len(Content(c)) = GetStoredSize(c)
      /\ GetStoredSize(c) \in Nat /\ Len(data) \in Nat
  BY ContentIsSeq, LenProperties
<1>3. d.mARegionSize \in Nat
  BY <1>1 DEF Good, Shaped, CircularBufferType
<1>4. Posted(d, ss)
  <2>1. CASE ss = <<>>
    BY <2>1 DEF Posted
  <2>2. CASE ss # <<>>
    <3>1. /\ Head(ss).at = c.mARegionPointer /\ Head(ss).len <= c.mARegionSize
          /\ Head(ss).len \in Nat
          /\ c.mARegionSize \in Nat /\ c.mARegionSize > 0
      BY <2>2, PostedSend DEF Handed, Posted
    <3> QED  BY <3>1, <1>1, <1>3 DEF Posted
  <2> QED  BY <2>1, <2>2
<1>5. g \in Nat /\ g <= GetStoredSize(c)
  <2>1. CASE done > 0
    <3>1. ss # <<>>
      BY <2>1
    <3> QED  BY <3>1, <2>1, PostedSend DEF Given, Handed
  <2>2. CASE ~(done > 0)
    BY <2>2, <1>2 DEF Given
  <2> QED  BY <2>1, <2>2
<1> HIDE DEF g
<1>6. SubSeq(Content(c) \o data, g + 1, GetStoredSize(c) + Len(data))
        = SubSeq(Content(c), g + 1, GetStoredSize(c)) \o data
  <2>1. SubSeq(Content(c) \o data, g + 1, Len(Content(c)) + Len(data))
          = SubSeq(Content(c), g + 1, Len(Content(c))) \o data
    <3>1. Content(c) \in Seq(Byte) /\ g \in Nat /\ g <= Len(Content(c))
      BY <1>2, <1>5
    <3> QED  BY <3>1, SuffixOfConcat
  <2> QED  BY <2>1, <1>2
<1>7. Rest(d, ss, done, bytes \o data)
  <2>1. bytes = SubSeq(Content(c), g + 1, GetStoredSize(c))
    BY DEF Handed, Rest, g
  <2>2. bytes \o data = SubSeq(Content(d), g + 1, GetStoredSize(d))
    BY <2>1, <1>1, <1>6
  <2>3. g <= GetStoredSize(d)
    BY <1>1, <1>2, <1>5
  <2> QED  BY <2>2, <2>3 DEF Rest, g
<1> QED  BY <1>4, <1>7 DEF Handed, d

(* A send that is started while none is in progress takes the front of A.  *)
LEMMA FlushHanded ==
  ASSUME NEW c, Good(c), NEW bytes \in Seq(Byte), Handed(c, <<>>, 0, bytes),
         GetContiguiousBytes(c) # 0
  PROVE  LET send == [at |-> GetBufferStart(c), len |-> GetContiguiousBytes(c)]
         IN  Handed(c, <<send>>, 0, bytes)
<1> DEFINE send == [at |-> GetBufferStart(c), len |-> GetContiguiousBytes(c)]
<1>1. c.mARegionSize > 0
  BY DEF Good, Shaped, CircularBufferType, GetContiguiousBytes
<1>2. send.at = c.mARegionPointer /\ send.len = c.mARegionSize
  BY <1>1 DEF GetBufferStart, GetContiguiousBytes
<1> HIDE DEF send
<1>3. c.mARegionSize <= c.mARegionSize
  BY DEF Good, Shaped, CircularBufferType
<1>4. Posted(c, <<send>>)
  BY <1>2, <1>3 DEF Posted
<1>5. Rest(c, <<send>>, 0, bytes)
  BY DEF Handed, Rest, Given
<1> QED  BY <1>4, <1>5 DEF Handed, send

(* Whatever a flush posts is a piece of the memory.                        *)
LEMMA FlushedIsSend ==
  ASSUME NEW c, Good(c), GetContiguiousBytes(c) # 0
  PROVE  [at |-> GetBufferStart(c), len |-> GetContiguiousBytes(c)] \in Send
<1>1. c.mARegionSize > 0
  BY DEF Good, Shaped, CircularBufferType, GetContiguiousBytes
<1>2. /\ GetBufferStart(c) = c.mARegionPointer /\ GetContiguiousBytes(c) = c.mARegionSize
      /\ c.mARegionPointer + c.mARegionSize <= Capacity
      /\ c.mARegionPointer \in Nat /\ c.mARegionSize \in Nat
  BY <1>1 DEF GetBufferStart, GetContiguiousBytes, Good, Shaped, CircularBufferType
<1> QED  BY <1>1, <1>2 DEF Send, Address

(* The system reads what the client waits for.                             *)
LEMMA CarryHanded ==
  ASSUME NEW c, Good(c), NEW ss \in Seq(Send), ss # <<>>, NEW bytes \in Seq(Byte),
         Handed(c, ss, 0, bytes),
         NEW read, read = [i \in 1 .. ss[1].len |-> c.mBuffer[ss[1].at + i - 1]]
  PROVE  /\ read \in Seq(Byte) /\ Len(read) = ss[1].len /\ Len(read) <= Len(bytes)
         /\ read = SubSeq(bytes, 1, Len(read))
         /\ Handed(c, ss, 1, SubSeq(bytes, Len(read) + 1, Len(bytes)))
<1> DEFINE n == ss[1].len
<1>1. /\ Head(ss) = ss[1] /\ n \in Nat \ {0} /\ n <= GetStoredSize(c)
      /\ GetStoredSize(c) \in Nat
  BY PostedSend DEF Handed
<1>2. ss[1].at = c.mARegionPointer /\ n <= c.mARegionSize /\ c.mARegionSize \in Nat
  BY <1>1 DEF Handed, Posted, Good, Shaped, CircularBufferType
<1>3. /\ Content(c) \in Seq(Byte) /\ Len(Content(c)) = GetStoredSize(c)
  BY ContentIsSeq
<1>4. bytes = Content(c)
  <2>1. bytes = SubSeq(Content(c), 0 + 1, GetStoredSize(c))
    BY DEF Handed, Rest, Given
  <2> QED  BY <2>1, <1>3, SubSeqFull
<1>5. read = FirstBytes(c, n)
  <2>1. read = [i \in 1 .. n |-> c.mBuffer[c.mARegionPointer + i - 1]]
    BY <1>2
  <2> HIDE DEF n
  <2>2. \A i \in 1 .. n : i <= c.mARegionSize
    BY <1>1, <1>2
  <2> QED  BY <2>1, <2>2 DEF FirstBytes
<1>6. FirstBytes(c, n) = SubSeq(Content(c), 1, n)
  BY <1>1, FirstBytesGood
<1> HIDE DEF n
<1>7. /\ SubSeq(bytes, 1, n) \in Seq(Byte) /\ Len(SubSeq(bytes, 1, n)) = n
      /\ n <= Len(bytes)
  <2>1. \A i \in 1 .. n : bytes[i] \in Byte
    BY <1>1, <1>3, <1>4, ElementOfSeq
  <2>2. /\ SubSeq(bytes, 1, n) \in Seq(Byte)
        /\ Len(SubSeq(bytes, 1, n)) = IF 1 <= n THEN n - 1 + 1 ELSE 0
    BY <2>1, <1>1, SubSeqProperties
  <2> QED  BY <2>2, <1>1, <1>3, <1>4
<1>8. /\ read \in Seq(Byte) /\ Len(read) = n /\ Len(read) <= Len(bytes)
      /\ read = SubSeq(bytes, 1, Len(read))
  BY <1>4, <1>5, <1>6, <1>7
<1>9. Given(ss, 1) = n
  BY <1>1 DEF Given, n
<1>10. Rest(c, ss, 1, SubSeq(bytes, Len(read) + 1, Len(bytes)))
  BY <1>1, <1>3, <1>4, <1>8, <1>9 DEF Rest
<1>11. Handed(c, ss, 1, SubSeq(bytes, Len(read) + 1, Len(bytes)))
  BY <1>10 DEF Handed
<1> QED  BY <1>8, <1>11 DEF n

(* The completion routine removes what the client has got.                 *)
LEMMA RemoveHanded ==
  ASSUME NEW c, Good(c), NEW ss \in Seq(Send), NEW done \in 1 .. Len(ss),
         NEW bytes \in Seq(Byte), Handed(c, ss, done, bytes)
  PROVE  Handed(Remove(c, Head(ss).len), Tail(ss), done - 1, bytes)
<1> DEFINE n == Head(ss).len   d == Remove(c, n)
<1>1. ss # <<>> /\ Len(ss) = 1 /\ done = 1
  <2>1. Len(ss) \in Nat /\ Len(ss) <= 1
    BY LenProperties DEF Handed
  <2>2. ASSUME NEW m \in Nat, m <= 1, done \in 1 .. m PROVE m = 1 /\ done = 1
    BY <2>2
  <2>3. Len(ss) = 1 /\ done = 1
    BY <2>1, <2>2
  <2>4. ss # <<>>
    <3>1. Len(ss) # 0
      BY <2>3
    <3>2. Len(<<>>) = 0
      OBVIOUS
    <3> QED  BY <3>1, <3>2, Zenon
  <2> QED  BY <2>3, <2>4
<1>2. /\ n \in Nat \ {0} /\ n <= GetStoredSize(c) /\ GetStoredSize(c) \in Nat
  BY <1>1, PostedSend DEF Handed
<1>3. Tail(ss) = <<>> /\ Len(Tail(ss)) <= 1
  <2>1. Tail(ss) \in Seq(Send) /\ Len(Tail(ss)) = 0
    BY <1>1, HeadTailProperties
  <2>2. \A t \in Seq(Send) : Len(t) = 0 => t = <<>>
    BY ONLY EmptySeq
  <2>3. Tail(ss) = <<>>
    BY ONLY <2>1, <2>2, Zenon
  <2>4. \A m : m = 0 => m <= 1
    OBVIOUS
  <2> QED  BY ONLY <2>1, <2>3, <2>4, Zenon
<1>4. bytes = SubSeq(Content(c), n + 1, GetStoredSize(c))
  BY <1>1 DEF Handed, Rest, Given
<1> HIDE DEF n
<1>5. Good(d) /\ Content(d) = bytes
  BY <1>2, <1>4, RemoveGood
<1> HIDE DEF d
<1>6. /\ Content(d) \in Seq(Byte) /\ Len(Content(d)) = GetStoredSize(d)
      /\ GetStoredSize(d) \in Nat
  BY <1>5, ContentIsSeq
<1>7. bytes = SubSeq(Content(d), 0 + 1, GetStoredSize(d))
  BY <1>5, <1>6, SubSeqFull
<1>8. Given(Tail(ss), done - 1) = 0
  BY <1>1 DEF Given
<1>9. Rest(d, Tail(ss), done - 1, bytes)
  BY <1>6, <1>7, <1>8 DEF Rest
<1>10. Posted(d, Tail(ss)) /\ Len(Tail(ss)) <= 1
  BY <1>3 DEF Posted
<1> QED  BY <1>9, <1>10 DEF Handed, d, n

(* A flush of a buffer that matches what was posted before.                *)
LEMMA FlushStep ==
  ASSUME NEW c, Good(c), NEW connected \in BOOLEAN, NEW ok \in BOOLEAN,
         NEW bytes \in Seq(Byte),
         sends \in Seq(Send), carriedOut \in 0 .. Len(sends), overlapped \in BOOLEAN,
         connected /\ ~overlapped => Handed(c, sends, carriedOut, bytes),
         SendFlush(c, connected, ok), carriedOut' = carriedOut
  PROVE  /\ mConnected' \in BOOLEAN /\ overlapped' \in BOOLEAN
         /\ sends' \in Seq(Send) /\ carriedOut' \in 0 .. Len(sends')
         /\ overlapped => overlapped'
         /\ mConnected' /\ ~overlapped' => Handed(c, sends', carriedOut', bytes)
<1> DEFINE size == GetContiguiousBytes(c)
           send == [at |-> GetBufferStart(c), len |-> size]
<1>1. CASE ~connected \/ size = 0
  <2>1. mConnected' = connected /\ sends' = sends /\ overlapped' = overlapped
    BY <1>1 DEF SendFlush
  <2> QED  BY <2>1
<1>2. CASE connected /\ size # 0 /\ ~ok
  <2>1. mConnected' = FALSE /\ sends' = sends /\ overlapped' = overlapped
    BY <1>2 DEF SendFlush
  <2> QED  BY <2>1
<1>3. CASE connected /\ size # 0 /\ ok
  <2>1. /\ mConnected' = TRUE /\ sends' = Append(sends, send)
        /\ overlapped' = (overlapped \/ sends # <<>>)
    BY <1>3 DEF SendFlush
  <2>2. send \in Send
    BY <1>3, FlushedIsSend
  <2>3. /\ sends' \in Seq(Send) /\ Len(sends') = Len(sends) + 1 /\ Len(sends) \in Nat
    BY <2>1, <2>2, AppendProperties, LenProperties
  <2>4. carriedOut' \in 0 .. Len(sends')
    BY <2>3
  <2>5. ASSUME ~overlapped' PROVE Handed(c, sends', carriedOut', bytes)
    <3>1. ~overlapped /\ sends = <<>>
      BY <2>1, <2>5
    <3>2. sends' = <<send>> /\ carriedOut = 0
      BY <2>1, <3>1
    <3>3. Handed(c, <<>>, 0, bytes)
      BY <3>1, <3>2, <1>3
    <3>4. Handed(c, <<send>>, 0, bytes)
      BY <3>3, <1>3, FlushHanded
    <3> QED  BY <3>2, <3>4
  <2> QED  BY <2>1, <2>3, <2>4, <2>5
<1> QED  BY <1>1, <1>2, <1>3

(* A request that finds room, and one that closes the connection.          *)
LEMMA RequestStep ==
  ASSUME SendInv, NEW packet \in Packet, RequestSend(packet)
  PROVE  /\ Good(mSendBuffer') /\ undelivered' \in Seq(Byte)
         /\ Accepts(mSendBuffer, packet) \in BOOLEAN
         /\ Accepts(mSendBuffer, packet) /\ ~overlapped
              => Handed(mSendBuffer', sends, carriedOut, undelivered')
<1>1. packet \in Seq(Byte)
  BY PacketIsSeq
<1>2. /\ Good(mSendBuffer) /\ sends \in Seq(Send) /\ carriedOut \in 0 .. Len(sends)
      /\ undelivered \in Seq(Byte) /\ mConnected \in BOOLEAN
  BY DEF SendInv, Types
<1>3. Good(mSendBuffer')
  BY <1>1, <1>2, WriteGood DEF RequestSend, AfterRequest
<1>4. undelivered' \in Seq(Byte)
  BY <1>1, <1>2, ConcatProperties DEF RequestSend
<1>5. ASSUME Accepts(mSendBuffer, packet), ~overlapped
      PROVE  Handed(mSendBuffer', sends, carriedOut, undelivered')
  <2>1. mConnected /\ WriteFits(mSendBuffer, packet)
    BY <1>5 DEF Accepts
  <2>2. mSendBuffer' = Write(mSendBuffer, packet) /\ undelivered' = undelivered \o packet
    BY <1>5, <2>1 DEF RequestSend, AfterRequest
  <2>3. Handed(mSendBuffer, sends, carriedOut, undelivered)
    BY <1>5, <2>1 DEF SendInv
  <2> QED  BY <2>1, <2>2, <2>3, <1>1, <1>2, WriteHanded
<1> QED  BY <1>2, <1>3, <1>4, <1>5 DEF Accepts, WriteFits

LEMMA SendInitInv == SendInit => SendInv
<1> SUFFICES ASSUME SendInit PROVE SendInv
  OBVIOUS
<1>1. Good(mSendBuffer) /\ GetStoredSize(mSendBuffer) = 0
  BY DEF SendInit, NewBuffer, EmptyOver, Good, Shaped, Filled, CircularBufferType, Address,
         GetStoredSize
<1>2. /\ sends = <<>> /\ carriedOut = 0 /\ undelivered = <<>>
      /\ pc = "loop" /\ mConnected = TRUE /\ intact = TRUE /\ overlapped = FALSE
  BY DEF SendInit
<1>3. Content(mSendBuffer) = <<>> /\ Content(mSendBuffer) \in Seq(Byte)
  BY <1>1, ContentIsSeq, EmptySeq
<1>4. undelivered = SubSeq(Content(mSendBuffer), 0 + 1, GetStoredSize(mSendBuffer))
  BY <1>1, <1>2, SubSeqEmpty
<1>5. Rest(mSendBuffer, sends, carriedOut, undelivered)
  BY <1>1, <1>2, <1>4 DEF Rest, Given
<1>6. Posted(mSendBuffer, sends) /\ Len(sends) <= 1
  BY <1>2 DEF Posted
<1>7. Types
  <2>1. sends \in Seq(Send) /\ Len(sends) = 0 /\ undelivered \in Seq(Byte)
    BY <1>2, EmptySeq
  <2>2. carriedOut \in 0 .. Len(sends)
    BY <2>1, <1>2
  <2>3. pc \in {"loop", "sleep"} /\ mConnected \in BOOLEAN /\ intact \in BOOLEAN /\ overlapped \in BOOLEAN
    BY <1>2
  <2> QED  BY <2>1, <2>2, <2>3, <1>1, Zenon DEF Types
<1> QED  BY <1>2, <1>5, <1>6, <1>7 DEF SendInv, Handed, ExactUnlessOverlapped

-----------------------------------------------------------------------------
(* Every step keeps the invariant.                                         *)
LEMMA SendInvNext == SendInv /\ [SendNext]_sendVars => SendInv'
<1> SUFFICES ASSUME SendInv, [SendNext]_sendVars PROVE SendInv'
  OBVIOUS
<1>1. /\ Types /\ Good(mSendBuffer) /\ sends \in Seq(Send) /\ carriedOut \in 0 .. Len(sends)
      /\ undelivered \in Seq(Byte) /\ mConnected \in BOOLEAN /\ overlapped \in BOOLEAN
      /\ intact \in BOOLEAN /\ pc \in {"loop", "sleep"} /\ Len(sends) \in Nat
  BY LenProperties DEF SendInv, Types
<1>2. /\ mConnected /\ ~overlapped => Handed(mSendBuffer, sends, carriedOut, undelivered)
      /\ intact \/ overlapped
  BY DEF SendInv, ExactUnlessOverlapped
<1>3. ASSUME NEW ok \in BOOLEAN, FlushClientSend(ok) PROVE SendInv'
  <2>1. /\ SendFlush(mSendBuffer, mConnected, ok) /\ carriedOut' = carriedOut
        /\ mSendBuffer' = mSendBuffer /\ undelivered' = undelivered /\ intact' = intact
        /\ pc' = "sleep"
    BY <1>3 DEF FlushClientSend
  <2>2. /\ mConnected' \in BOOLEAN /\ overlapped' \in BOOLEAN
        /\ sends' \in Seq(Send) /\ carriedOut' \in 0 .. Len(sends')
        /\ overlapped => overlapped'
        /\ mConnected' /\ ~overlapped' => Handed(mSendBuffer, sends', carriedOut', undelivered)
    BY <1>1, <1>2, <2>1, FlushStep
  <2> QED  BY <1>1, <1>2, <2>1, <2>2 DEF SendInv, Types, ExactUnlessOverlapped
<1>4. ASSUME NEW ok \in BOOLEAN, QuietPeriodWork(ok) PROVE SendInv'
  <2>1. /\ SendFlush(mSendBuffer, mConnected, ok) /\ carriedOut' = carriedOut
        /\ mSendBuffer' = mSendBuffer /\ undelivered' = undelivered /\ intact' = intact
        /\ pc' \in {"loop", "sleep"}
    BY <1>4 DEF QuietPeriodWork, Apc
  <2>2. /\ mConnected' \in BOOLEAN /\ overlapped' \in BOOLEAN
        /\ sends' \in Seq(Send) /\ carriedOut' \in 0 .. Len(sends')
        /\ overlapped => overlapped'
        /\ mConnected' /\ ~overlapped' => Handed(mSendBuffer, sends', carriedOut', undelivered)
    BY <1>1, <1>2, <2>1, FlushStep
  <2> QED  BY <1>1, <1>2, <2>1, <2>2 DEF SendInv, Types, ExactUnlessOverlapped
<1>5. ASSUME NEW packet \in Packet, RecvCompletion(packet) PROVE SendInv'
  <2>1. /\ RequestSend(packet) /\ mConnected' = Accepts(mSendBuffer, packet)
        /\ sends' = sends /\ carriedOut' = carriedOut /\ intact' = intact
        /\ overlapped' = overlapped /\ pc' \in {"loop", "sleep"}
    BY <1>5 DEF RecvCompletion, Apc
  <2>2. /\ Good(mSendBuffer') /\ undelivered' \in Seq(Byte)
        /\ Accepts(mSendBuffer, packet) \in BOOLEAN
        /\ Accepts(mSendBuffer, packet) /\ ~overlapped
             => Handed(mSendBuffer', sends, carriedOut, undelivered')
    BY <2>1, RequestStep
  <2> QED  BY <1>1, <1>2, <2>1, <2>2 DEF SendInv, Types, ExactUnlessOverlapped
<1>6. ASSUME NEW packet \in Packet, NEW ok \in BOOLEAN, OnPeriodWork(packet, ok) PROVE SendInv'
  <2> DEFINE connected == Accepts(mSendBuffer, packet)
  <2>1. /\ RequestSend(packet) /\ SendFlush(mSendBuffer', connected, ok)
        /\ carriedOut' = carriedOut /\ intact' = intact /\ pc' \in {"loop", "sleep"}
    BY <1>6 DEF OnPeriodWork, Apc
  <2>2. /\ Good(mSendBuffer') /\ undelivered' \in Seq(Byte) /\ connected \in BOOLEAN
        /\ connected /\ ~overlapped => Handed(mSendBuffer', sends, carriedOut, undelivered')
    BY <2>1, RequestStep
  <2> HIDE DEF connected
  <2>3. /\ mConnected' \in BOOLEAN /\ overlapped' \in BOOLEAN
        /\ sends' \in Seq(Send) /\ carriedOut' \in 0 .. Len(sends')
        /\ overlapped => overlapped'
        /\ mConnected' /\ ~overlapped' => Handed(mSendBuffer', sends', carriedOut', undelivered')
    BY <1>1, <2>1, <2>2, FlushStep
  <2> QED  BY <1>1, <1>2, <2>1, <2>2, <2>3 DEF SendInv, Types, ExactUnlessOverlapped
<1>7. ASSUME CarryOut PROVE SendInv'
  <2> DEFINE at == carriedOut + 1
             bytes == BytesOf(sends[at])
             right == /\ Len(bytes) <= Len(undelivered)
                      /\ bytes = SubSeq(undelivered, 1, Len(bytes))
  <2>1. /\ mConnected /\ carriedOut < Len(sends) /\ carriedOut' = carriedOut + 1
        /\ intact' = (intact /\ right)
        /\ undelivered' = IF right THEN SubSeq(undelivered, Len(bytes) + 1, Len(undelivered))
                                   ELSE undelivered
        /\ mSendBuffer' = mSendBuffer /\ mConnected' = mConnected /\ sends' = sends
        /\ overlapped' = overlapped /\ pc' = pc
    BY <1>7 DEF CarryOut
  <2>2. carriedOut' \in 0 .. Len(sends')
    BY <1>1, <2>1
  <2>3. sends # <<>>
    BY <1>1, <2>1
  <2>4. CASE overlapped
    <3>1. Len(bytes) \in Nat
      <4>1. sends[at] \in Send
        BY <1>1, <2>1, ElementOfSeq
      <4>2. sends[at].len \in Nat
        BY <4>1 DEF Send
      <4> QED  BY <4>2 DEF BytesOf
    <3> HIDE DEF bytes
    <3>2. SubSeq(undelivered, Len(bytes) + 1, Len(undelivered)) \in Seq(Byte)
      <4>1. Len(undelivered) \in Nat
        BY <1>1, LenProperties
      <4>2. \A i \in Len(bytes) + 1 .. Len(undelivered) : undelivered[i] \in Byte
        BY <1>1, <3>1, <4>1, ElementOfSeq
      <4> QED  BY <3>1, <4>1, <4>2, SubSeqProperties
    <3>3. undelivered' \in Seq(Byte)
      BY <1>1, <2>1, <3>2
    <3> HIDE DEF right
    <3>4. intact' \in BOOLEAN
      BY <2>1
    <3> QED  BY <1>1, <2>1, <2>2, <2>4, <3>3, <3>4 DEF SendInv, Types, ExactUnlessOverlapped
  <2>5. CASE ~overlapped
    <3>1. Handed(mSendBuffer, sends, carriedOut, undelivered)
      BY <1>2, <2>1, <2>5
    <3>2. carriedOut = 0 /\ at = 1
      BY <1>1, <2>1, <3>1 DEF Handed
    <3>3. /\ bytes \in Seq(Byte) /\ Len(bytes) \in Nat /\ right
          /\ Handed(mSendBuffer, sends, 1, SubSeq(undelivered, Len(bytes) + 1, Len(undelivered)))
      <4>1. bytes = [i \in 1 .. sends[1].len |-> mSendBuffer.mBuffer[sends[1].at + i - 1]]
        BY <3>2 DEF BytesOf
      <4> HIDE DEF bytes
      <4>2. Handed(mSendBuffer, sends, 0, undelivered)
        BY <3>1, <3>2
      <4>3. /\ bytes \in Seq(Byte) /\ Len(bytes) <= Len(undelivered)
            /\ bytes = SubSeq(undelivered, 1, Len(bytes))
            /\ Handed(mSendBuffer, sends, 1, SubSeq(undelivered, Len(bytes) + 1, Len(undelivered)))
        <5>1. Good(mSendBuffer) /\ sends \in Seq(Send) /\ undelivered \in Seq(Byte)
          BY <1>1
        <5> HIDE DEF right, at
        <5> QED  BY ONLY <4>1, <4>2, <2>3, <5>1, CarryHanded
      <4> QED  BY <4>3, LenProperties
    <3> HIDE DEF right, bytes
    <3>4. undelivered' = SubSeq(undelivered, Len(bytes) + 1, Len(undelivered))
      BY <2>1, <3>3
    <3>5. undelivered' \in Seq(Byte)
      <4>1. Len(undelivered) \in Nat
        BY <1>1, LenProperties
      <4>2. \A i \in Len(bytes) + 1 .. Len(undelivered) : undelivered[i] \in Byte
        BY <1>1, <3>3, <4>1, ElementOfSeq
      <4>3. SubSeq(undelivered, Len(bytes) + 1, Len(undelivered)) \in Seq(Byte)
        BY <3>3, <4>1, <4>2, SubSeqProperties
      <4> QED  BY <4>3, <3>4
    <3>6. Handed(mSendBuffer', sends', carriedOut', undelivered')
      BY <2>1, <3>2, <3>3, <3>4
    <3>7. intact' = TRUE
      BY <1>2, <2>1, <2>5, <3>3
    <3> QED  BY <1>1, <2>1, <2>2, <3>5, <3>6, <3>7 DEF SendInv, Types, ExactUnlessOverlapped
  <2> QED  BY <1>1, <2>4, <2>5
<1>8. ASSUME NEW ok \in BOOLEAN, SendCompletion(ok) PROVE SendInv'
  <2>1. /\ sends # <<>>
        /\ ok => mConnected /\ carriedOut > 0
        /\ sends' = Tail(sends) /\ mConnected' = ok
        /\ carriedOut' = IF carriedOut > 0 THEN carriedOut - 1 ELSE 0
        /\ mSendBuffer' = IF ok THEN Remove(mSendBuffer, Head(sends).len) ELSE mSendBuffer
        /\ undelivered' = undelivered /\ intact' = intact /\ overlapped' = overlapped
        /\ pc' \in {"loop", "sleep"}
    BY <1>8 DEF SendCompletion, Apc, OnWriteComplete, history
  <2>2. sends' \in Seq(Send) /\ Len(sends') = Len(sends) - 1
    BY <1>1, <2>1, HeadTailProperties
  <2>3. carriedOut' \in 0 .. Len(sends')
    <3>1. Len(sends) > 0
      BY <1>1, <2>1
    <3> QED  BY <1>1, <2>1, <2>2, <3>1
  <2>4. Good(mSendBuffer')
    <3>1. Head(sends) \in Send
      BY <1>1, <2>1, HeadTailProperties
    <3>2. Head(sends).len \in Nat
      BY <3>1 DEF Send
    <3> QED  BY <1>1, <2>1, <3>2, RemoveGood
  <2>5. ASSUME mConnected', ~overlapped'
        PROVE  Handed(mSendBuffer', sends', carriedOut', undelivered')
    <3>1. /\ mConnected /\ carriedOut > 0 /\ ~overlapped
          /\ mSendBuffer' = Remove(mSendBuffer, Head(sends).len)
          /\ carriedOut' = carriedOut - 1
      BY <2>1, <2>5
    <3>2. Handed(mSendBuffer, sends, carriedOut, undelivered) /\ carriedOut \in 1 .. Len(sends)
      BY <1>1, <1>2, <3>1
    <3>3. Handed(Remove(mSendBuffer, Head(sends).len), Tail(sends), carriedOut - 1, undelivered)
      BY <1>1, <3>2, RemoveHanded
    <3> QED  BY <2>1, <3>1, <3>3
  <2> QED  BY <1>1, <1>2, <2>1, <2>2, <2>3, <2>4, <2>5 DEF SendInv, Types, ExactUnlessOverlapped
<1>9. ASSUME UNCHANGED sendVars PROVE SendInv'
  BY <1>9, <1>1, <1>2 DEF sendVars, history, SendInv, Types, ExactUnlessOverlapped
<1> QED  BY <1>3, <1>4, <1>5, <1>6, <1>7, <1>8, <1>9 DEF SendNext

(* The invariant says what the properties say.                             *)
LEMMA SendInvImplies == SendInv => SendTypeOK /\ ExactUnlessOverlapped /\ NothingLost
<1> SUFFICES ASSUME SendInv PROVE SendTypeOK /\ ExactUnlessOverlapped /\ NothingLost
  OBVIOUS
<1>1. SendTypeOK /\ ExactUnlessOverlapped
  BY DEF SendInv, Types, SendTypeOK, Good, Shaped
<1>2. ASSUME mConnected, ~overlapped
      PROVE  /\ GetStoredSize(mSendBuffer) = Given(sends, carriedOut) + Len(undelivered)
             /\ SubSeq(Content(mSendBuffer), Given(sends, carriedOut) + 1,
                       GetStoredSize(mSendBuffer)) = undelivered
  <2> DEFINE w == Content(mSendBuffer)   g == Given(sends, carriedOut)
  <2>1. /\ Good(mSendBuffer) /\ Handed(mSendBuffer, sends, carriedOut, undelivered)
        /\ sends \in Seq(Send) /\ carriedOut \in 0 .. Len(sends)
    BY <1>2 DEF SendInv, Types
  <2>2. /\ w \in Seq(Byte) /\ Len(w) = GetStoredSize(mSendBuffer)
        /\ GetStoredSize(mSendBuffer) \in Nat
    BY <2>1, ContentIsSeq
  <2>3. g \in Nat /\ g <= Len(w) /\ undelivered = SubSeq(w, g + 1, Len(w))
    <3>1. g \in Nat
      <4>1. CASE carriedOut > 0
        <5>1. sends # <<>>
          BY <2>1, <4>1
        <5> QED  BY <5>1, <4>1, <2>1, PostedSend DEF Given, Handed
      <4>2. CASE ~(carriedOut > 0)
        BY <4>2 DEF Given
      <4> QED  BY <4>1, <4>2
    <3> QED  BY <3>1, <2>1, <2>2 DEF Handed, Rest
  <2> HIDE DEF w, g
  <2>4. Len(undelivered) = Len(w) - g
    <3>1. \A i \in g + 1 .. Len(w) : w[i] \in Byte
      BY <2>2, <2>3, ElementOfSeq
    <3>2. Len(undelivered) = IF g + 1 <= Len(w) THEN Len(w) - (g + 1) + 1 ELSE 0
      BY <2>2, <2>3, <3>1, SubSeqProperties
    <3> QED  BY <2>2, <2>3, <3>2
  <2>5. GetStoredSize(mSendBuffer) = g + Len(undelivered)
    BY <2>2, <2>3, <2>4
  <2>6. SubSeq(w, g + 1, GetStoredSize(mSendBuffer)) = undelivered
    BY <2>2, <2>3
  <2> QED  BY <2>5, <2>6 DEF w, g
<1>3. NothingLost
  BY <1>2 DEF NothingLost, Given
<1> QED  BY <1>1, <1>3

(* As long as no send was started while another one was in progress, the   *)
(* client gets exactly what SendRequest accepted, in order, and the buffer *)
(* holds the rest: writes while the system reads the memory, a completion  *)
(* that removes late, and both regions of the buffer notwithstanding.      *)
THEOREM SendSafety == SendSpec => [](SendTypeOK /\ ExactUnlessOverlapped /\ NothingLost)
<1>1. SendInv /\ [SendNext]_sendVars => SendInv'
  BY SendInvNext
<1> QED  BY SendInitInv, SendInvImplies, <1>1, PTL DEF SendSpec
=============================================================================
