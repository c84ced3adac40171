------------------------- MODULE PacketPathProofs -------------------------
(***************************************************************************)
(* The way of a request is a channel of packets, and that of a result is   *)
(* one until the client has fallen behind, for every capacity of the       *)
(* buffers, every set of packets that fit into them and every split of the *)
(* stream into sends and receives.                                         *)
(***************************************************************************)
EXTENDS RequestPath, ResultPath, SequenceTheorems, WellFoundedInduction, TLAPS

(* The server's buffer, with what is proved about it.                      *)
RecvProofs == INSTANCE CircularBufferOpsProofs WITH Capacity <- ServerCapacity

(* A ring whose ends and size agree and whose content was written.         *)
RingGood(ring) ==
  /\ ring \in Ring!DDCircularBufferType
  /\ ring.mEndIndex = (ring.mBeginIndex + ring.mCurrentSize) % ClientCapacity
  /\ \A i \in 1 .. ring.mCurrentSize :
       ring.mData[(ring.mBeginIndex + i - 1) % ClientCapacity] \in Byte

(* What the proofs about the server's buffer call good.                    *)
RecvGood(buffer) == RecvProofs!Good(buffer)

(* The bytes of stream are those of packets, one after the other: pos[i]   *)
(* bytes belong to the first i of them.                                    *)
Framed(stream, packets) ==
  \E pos \in [0 .. Len(packets) -> Nat] :
    /\ pos[0] = 0 /\ pos[Len(packets)] = Len(stream)
    /\ \A i, j \in 0 .. Len(packets) : i <= j => pos[i] <= pos[j]
    /\ \A i \in 1 .. Len(packets) :
         /\ pos[i] = pos[i - 1] + Len(packets[i])
         /\ \A k \in 1 .. Len(packets[i]) : stream[pos[i - 1] + k] = packets[i][k]

(* All bytes that are between Write and the handlers, in the order in      *)
(* which they get there.                                                   *)
Stream(buffer, bytes, ring) == (Recv!Content(buffer) \o bytes) \o Ring!Content(ring)

(* The inductive invariant.                                                *)
Types ==
  /\ link \in {"connecting", "connected", "selected", "closed"}
  /\ RingGood(m_SendBuffer)
  /\ posted \in 0 .. MaxPosted /\ armed \in BOOLEAN /\ short \in BOOLEAN
  /\ wire \in Seq(Byte) /\ Len(wire) <= MaxWire
  /\ serving \in {"recv", "reading", "closed"}
  /\ RecvGood(mRecvBuffer) /\ granted \in 0 .. ServerCapacity
  /\ undispatched \in Seq(Packet)

(* The window of a receive is what is free behind the bytes stored.        *)
Offered == serving = "recv" => granted = Recv!FreeOfChosen(mRecvBuffer) /\ granted > 0

(* The inductive invariant of the requests.                                *)
Inv ==
  /\ Types /\ Offered /\ NoStrandedRequest
  /\ Framed(Stream(mRecvBuffer, wire, m_SendBuffer), undispatched)

USE DEF HeaderSize

(* The sizes are positive numbers.                                         *)
LEMMA Capacities ==
  /\ ClientCapacity \in Nat \ {0} /\ ServerCapacity \in Nat \ {0}
  /\ MaxWire \in Nat /\ MaxPosted \in Nat /\ Junk \notin Byte
  /\ \A p \in Packet : /\ p \in Seq(Byte) /\ Len(p) \in Nat /\ Len(p) >= 2 /\ p[1] = Len(p)
                       /\ ServerCapacity >= 2 * Len(p)
BY PacketAssumption, RequestAssumption, LenProperties DEF SizeOf

-----------------------------------------------------------------------------
(* The receive buffer: what is proved of the functions of CircularBuffer.  *)

(* Functions with one domain and the same values are equal.                *)
LEMMA SameFunctions ==
  ASSUME NEW c
  PROVE  /\ Recv!Content(c) = RecvProofs!Content(c)
         /\ Recv!GetStoredSize(c) = RecvProofs!GetStoredSize(c)
         /\ Recv!ChooseRegion(c) = RecvProofs!ChooseRegion(c)
         /\ Recv!FreeOfChosen(c) = RecvProofs!FreeOfChosen(c)
         /\ \A data : Recv!Store(c, data) = RecvProofs!Store(c, data)
         /\ \A n : Recv!FirstBytes(c, n) = RecvProofs!FirstBytes(c, n)
         /\ \A n : Recv!Remove(c, n) = RecvProofs!Remove(c, n)
<1> USE DEF Recv!NullPtr, RecvProofs!NullPtr, Recv!GetStoredSize, RecvProofs!GetStoredSize,
            Recv!Address, RecvProofs!Address
<1>1. \A n : Recv!FirstBytes(c, n) = RecvProofs!FirstBytes(c, n)
  BY DEF Recv!FirstBytes, RecvProofs!FirstBytes
<1>2. Recv!GetStoredSize(c) = RecvProofs!GetStoredSize(c)
  OBVIOUS
<1>3. Recv!Content(c) = RecvProofs!Content(c)
  BY <1>1 DEF Recv!Content, RecvProofs!Content
<1>4. Recv!ChooseRegion(c) = RecvProofs!ChooseRegion(c)
  BY DEF Recv!ChooseRegion, RecvProofs!ChooseRegion, Recv!AllocateB, RecvProofs!AllocateB,
         Recv!GetAFreeSpace, RecvProofs!GetAFreeSpace,
         Recv!GetSpaceBeforeA, RecvProofs!GetSpaceBeforeA
<1>5. Recv!FreeOfChosen(c) = RecvProofs!FreeOfChosen(c)
  BY DEF Recv!FreeOfChosen, RecvProofs!FreeOfChosen, Recv!GetAFreeSpace,
         RecvProofs!GetAFreeSpace, Recv!GetBFreeSpace, RecvProofs!GetBFreeSpace
<1>6. ASSUME NEW data PROVE Recv!Store(c, data) = RecvProofs!Store(c, data)
  BY DEF Recv!Store, RecvProofs!Store, Recv!Commit, RecvProofs!Commit, Recv!CopyIn,
         RecvProofs!CopyIn, Recv!GetBuffer, RecvProofs!GetBuffer
<1>7. ASSUME NEW n PROVE Recv!Remove(c, n) = RecvProofs!Remove(c, n)
  BY DEF Recv!Remove, RecvProofs!Remove, Recv!ReplaceEmptyA, RecvProofs!ReplaceEmptyA,
         Recv!EmptyOver, RecvProofs!EmptyOver, Recv!MoveToFront, RecvProofs!MoveToFront
<1> QED  BY <1>1, <1>2, <1>3, <1>4, <1>5, <1>6, <1>7

(* The content of the server's buffer is a sequence of bytes.              *)
LEMMA RecvContent ==
  ASSUME NEW c, RecvGood(c)
  PROVE  /\ Recv!Content(c) \in Seq(Byte)
         /\ Len(Recv!Content(c)) = Recv!GetStoredSize(c)
         /\ Recv!GetStoredSize(c) \in 0 .. ServerCapacity
<1>1. /\ RecvProofs!Content(c) \in Seq(Byte)
      /\ Len(RecvProofs!Content(c)) = RecvProofs!GetStoredSize(c)
      /\ RecvProofs!GetStoredSize(c) \in 0 .. ServerCapacity
  BY RecvProofs!ContentIsSeq, Capacities DEF RecvGood
<1> QED  BY <1>1, SameFunctions

(* What is stored follows the content.                                     *)
LEMMA RecvStore ==
  ASSUME NEW c, RecvGood(c), NEW data \in Seq(Byte), Len(data) <= Recv!FreeOfChosen(c)
  PROVE  /\ RecvGood(Recv!Store(c, data))
         /\ Recv!Content(Recv!Store(c, data)) = Recv!Content(c) \o data
<1>1. Len(data) <= RecvProofs!FreeOfChosen(c)
  BY SameFunctions
<1>2. /\ RecvProofs!Good(RecvProofs!Store(c, data))
      /\ RecvProofs!Content(RecvProofs!Store(c, data)) = RecvProofs!Content(c) \o data
  BY <1>1, RecvProofs!StoreGood, Capacities DEF RecvGood
<1> QED  BY <1>2, SameFunctions DEF RecvGood

(* Choosing the region changes no content.                                 *)
LEMMA RecvChoose ==
  ASSUME NEW c, RecvGood(c)
  PROVE  /\ RecvGood(Recv!ChooseRegion(c))
         /\ Recv!Content(Recv!ChooseRegion(c)) = Recv!Content(c)
         /\ Recv!FreeOfChosen(Recv!ChooseRegion(c)) \in 0 .. ServerCapacity
         /\ Recv!GetFreeSpaceSize(c) = Recv!FreeOfChosen(Recv!ChooseRegion(c))
         /\ 2 * (Recv!GetStoredSize(c) + Recv!GetFreeSpaceSize(c) + 1) > ServerCapacity
<1> DEFINE d == RecvProofs!ChooseRegion(c)
<1>1. /\ RecvProofs!Good(d) /\ RecvProofs!Content(d) = RecvProofs!Content(c)
      /\ RecvProofs!FreeOfChosen(d) \in 0 .. ServerCapacity
      /\ 2 * (RecvProofs!GetStoredSize(c) + RecvProofs!FreeOfChosen(d) + 1) > ServerCapacity
  BY RecvProofs!ChooseRegionGood, Capacities DEF RecvGood
<1>2. d = Recv!ChooseRegion(c)
  BY SameFunctions
<1> HIDE DEF d
<1>3. Recv!GetFreeSpaceSize(c) = Recv!FreeOfChosen(d)
  BY <1>2 DEF Recv!GetFreeSpaceSize
<1> QED  BY <1>1, <1>2, <1>3, SameFunctions DEF RecvGood

(* An empty buffer offers all of its memory.                               *)
LEMMA RecvEmpty ==
  ASSUME NEW c, RecvGood(c), Recv!GetStoredSize(c) = 0
  PROVE  Recv!GetFreeSpaceSize(c) = ServerCapacity
<1>1. /\ c.mARegionSize = 0 /\ c.mARegionPointer = 0 /\ c.mBRegionPointer = -1
  BY Capacities DEF RecvGood, RecvProofs!Good, RecvProofs!Shaped,
     RecvProofs!CircularBufferType, RecvProofs!NullPtr, Recv!GetStoredSize
<1> QED  BY <1>1, Capacities DEF Recv!GetFreeSpaceSize, Recv!ChooseRegion, Recv!FreeOfChosen,
            Recv!GetAFreeSpace, Recv!GetSpaceBeforeA, Recv!NullPtr

(* What is read goes from the front of the content.                        *)
LEMMA RecvRead ==
  ASSUME NEW c, RecvGood(c), NEW n \in Nat, n <= Recv!GetStoredSize(c)
  PROVE  /\ Recv!FirstBytes(c, n) = SubSeq(Recv!Content(c), 1, n)
         /\ RecvGood(Recv!Read(c, n))
         /\ Recv!Content(Recv!Read(c, n))
              = SubSeq(Recv!Content(c), n + 1, Recv!GetStoredSize(c))
<1>1. n <= RecvProofs!GetStoredSize(c) /\ RecvProofs!Good(c)
  BY SameFunctions DEF RecvGood
<1>2. RecvProofs!FirstBytes(c, n) = SubSeq(RecvProofs!Content(c), 1, n)
  BY <1>1, RecvProofs!FirstBytesGood, Capacities
<1>3. /\ RecvProofs!Good(RecvProofs!Remove(c, n))
      /\ RecvProofs!Content(RecvProofs!Remove(c, n))
           = SubSeq(RecvProofs!Content(c), n + 1, RecvProofs!GetStoredSize(c))
  BY <1>1, RecvProofs!RemoveGood, Capacities
<1>4. Recv!Read(c, n) = Recv!Remove(c, n)
  BY DEF Recv!Read, Recv!CanRead
<1> QED  BY <1>2, <1>3, <1>4, SameFunctions DEF RecvGood

(* A new buffer is empty.                                                  *)
LEMMA RecvNew ==
  RecvGood(Recv!NewBuffer) /\ Recv!GetStoredSize(Recv!NewBuffer) = 0
    /\ Recv!FreeOfChosen(Recv!NewBuffer) = ServerCapacity
<1> DEFINE b == Recv!NewBuffer
<1>1. /\ b.mBuffer = [i \in 0 .. ServerCapacity - 1 |-> Junk]
      /\ b.mARegionPointer = 0 /\ b.mARegionSize = 0
      /\ b.mBRegionPointer = -1 /\ b.mBRegionSize = 0
      /\ b \in RecvProofs!CircularBufferType
  BY Capacities DEF Recv!NewBuffer, Recv!EmptyOver, Recv!Address, Recv!NullPtr,
     RecvProofs!CircularBufferType, RecvProofs!Address, RecvProofs!NullPtr
<1> HIDE DEF b
<1>2. RecvProofs!Shaped(b) /\ RecvProofs!Filled(b)
  BY <1>1, Capacities DEF RecvProofs!Shaped, RecvProofs!Filled, RecvProofs!NullPtr,
     RecvProofs!Address
<1>3. Recv!GetStoredSize(b) = 0 /\ Recv!FreeOfChosen(b) = ServerCapacity
  BY <1>1, Capacities DEF Recv!GetStoredSize, Recv!FreeOfChosen, Recv!GetAFreeSpace, Recv!NullPtr
<1> QED  BY <1>2, <1>3 DEF RecvGood, RecvProofs!Good, b

-----------------------------------------------------------------------------
(* The client's ring.                                                      *)

(* Where the i-th byte from b on is, where s bytes from b on end, and how  *)
(* far at is behind e.                                                     *)
Place(b, i, c) == (b + i - 1) % c

(* The end of what a ring holds, and how far a place is behind it.         *)
End(b, s, c) == (b + s) % c
Behind(at, e, c) == (at - e) % c

(* Where the s + n bytes from b on are, seen from the end of the first s.  *)
LEMMA RingEnd ==
  ASSUME NEW c \in Nat \ {0}, NEW b \in 0 .. c - 1, NEW s \in 0 .. c, NEW n \in Nat,
         n <= c - s, NEW e \in 0 .. c - 1, e = End(b, s, c)
  PROVE  End(e, n, c) = End(b, s + n, c) /\ End(e, n, c) \in 0 .. c - 1
<1>0. e = (b + s) % c
  BY DEF End
<1>1. e = IF b + s < c THEN b + s ELSE b + s - c
  BY <1>0
<1>2. (e + n) % c = (b + (s + n)) % c
  <2>1. CASE b + s < c
    BY <2>1, <1>1
  <2>2. CASE ~(b + s < c)
    <3>1. e + n = b + (s + n) - c /\ e + n \in 0 .. 2 * c - 1 /\ e + n < c
      BY <2>2, <1>1
    <3>2. (e + n) % c = e + n
      BY <3>1
    <3>3. b + (s + n) >= c /\ b + (s + n) < 2 * c
      BY <3>1
    <3>4. (b + (s + n)) % c = b + (s + n) - c
      BY <3>3
    <3> QED  BY <3>1, <3>2, <3>4
  <2> QED  BY <2>1, <2>2
<1>3. (e + n) % c \in 0 .. c - 1
  OBVIOUS
<1> QED  BY <1>2, <1>3 DEF End

(* Places in a ring, counted from a start.                                 *)
LEMMA RingPlace ==
  ASSUME NEW c \in Nat \ {0}, NEW b \in 0 .. c - 1, NEW s \in 0 .. c,
         NEW e \in 0 .. c - 1, e = End(b, s, c), NEW i \in 1 .. c
  PROVE  /\ Place(b, i, c) \in 0 .. c - 1
         /\ Behind(Place(b, i, c), e, c) = IF i <= s THEN c + i - 1 - s ELSE i - 1 - s
<1>0. e = (b + s) % c
  BY DEF End
<1>1. e = IF b + s < c THEN b + s ELSE b + s - c
  BY <1>0
<1>2. /\ (b + i - 1) % c \in 0 .. c - 1
      /\ (((b + i - 1) % c) - e) % c = IF i <= s THEN c + i - 1 - s ELSE i - 1 - s
  <2> DEFINE at == (b + i - 1) % c   k == at - e
  <2>1. at = IF b + i - 1 < c THEN b + i - 1 ELSE b + i - 1 - c
    <3>1. b + i - 1 \in 0 .. 2 * c - 1
      OBVIOUS
    <3> QED  BY <3>1
  <2>2. at \in 0 .. c - 1
    BY <2>1
  <2> HIDE DEF at
  <2>3. k \in Int /\ e \in 0 .. c - 1
    BY <1>1, <2>2
  <2>4. CASE b + s < c
    <3>1. CASE i <= s
      <4>1. k = i - 1 - s /\ -c <= k /\ k < 0
        BY <3>1, <2>4, <2>1, <1>1
      <4> HIDE DEF k
      <4>2. k % c = c + i - 1 - s
        BY <4>1, <2>3
      <4> QED  BY <4>2, <3>1, <2>2 DEF at, k
    <3>2. CASE ~(i <= s) /\ b + i - 1 < c
      <4>1. k = i - 1 - s /\ 0 <= k /\ k < c
        BY <3>2, <2>4, <2>1, <1>1
      <4> HIDE DEF k
      <4>2. k % c = i - 1 - s
        BY <4>1, <2>3
      <4> QED  BY <4>2, <3>2, <2>2 DEF at, k
    <3>3. CASE ~(i <= s) /\ ~(b + i - 1 < c)
      <4>1. k = i - 1 - s - c /\ -c <= k /\ k < 0
        BY <3>3, <2>4, <2>1, <1>1
      <4> HIDE DEF k
      <4>2. k % c = i - 1 - s
        BY <4>1, <2>3
      <4> QED  BY <4>2, <3>3, <2>2 DEF at, k
    <3> QED  BY <3>1, <3>2, <3>3
  <2>5. CASE ~(b + s < c)
    <3>1. CASE i <= s /\ b + i - 1 < c
      <4>1. k = c + i - 1 - s /\ 0 <= k /\ k < c
        BY <3>1, <2>5, <2>1, <1>1
      <4> HIDE DEF k
      <4>2. k % c = c + i - 1 - s
        BY <4>1, <2>3
      <4> QED  BY <4>2, <3>1, <2>2 DEF at, k
    <3>2. CASE i <= s /\ ~(b + i - 1 < c)
      <4>1. k = i - 1 - s /\ -c <= k /\ k < 0
        BY <3>2, <2>5, <2>1, <1>1
      <4> HIDE DEF k
      <4>2. k % c = c + i - 1 - s
        BY <4>1, <2>3
      <4> QED  BY <4>2, <3>2, <2>2 DEF at, k
    <3>3. CASE ~(i <= s)
      <4>1. k = i - 1 - s /\ 0 <= k /\ k < c
        BY <3>3, <2>5, <2>1, <1>1
      <4> HIDE DEF k
      <4>2. k % c = i - 1 - s
        BY <4>1, <2>3
      <4> QED  BY <4>2, <3>3, <2>2 DEF at, k
    <3> QED  BY <3>1, <3>2, <3>3
  <2> QED  BY <2>4, <2>5
<1> QED  BY <1>2 DEF Place, Behind

(* The content of the client's ring is a sequence of bytes.                *)
LEMMA RingContent ==
  ASSUME NEW r, RingGood(r)
  PROVE  /\ r.mCurrentSize \in 0 .. ClientCapacity
         /\ Ring!Content(r) \in Seq(Byte) /\ Len(Ring!Content(r)) = r.mCurrentSize
         /\ \A i \in 1 .. r.mCurrentSize :
              Ring!Content(r)[i] = r.mData[(r.mBeginIndex + i - 1) % ClientCapacity]
<1> DEFINE n == r.mCurrentSize
           f == [i \in 1 .. n |-> r.mData[(r.mBeginIndex + i - 1) % ClientCapacity]]
<1>1. n \in 0 .. ClientCapacity /\ n \in Nat
  BY Capacities DEF RingGood, Ring!DDCircularBufferType
<1>2. Ring!Content(r) = f
  BY DEF Ring!Content, Ring!FirstBytes
<1>3. \A i \in 1 .. n : r.mData[(r.mBeginIndex + i - 1) % ClientCapacity] \in Byte
  BY DEF RingGood
<1> HIDE DEF n
<1>4. f \in [1 .. n -> Byte]
  BY <1>3
<1>5. f \in Seq(Byte) /\ Len(f) = n /\ \A i \in 1 .. n :
        f[i] = r.mData[(r.mBeginIndex + i - 1) % ClientCapacity]
  BY <1>1, <1>4
<1> HIDE DEF f
<1> QED  BY <1>1, <1>2, <1>5 DEF n

(* Write appends what there is room for.                                   *)
LEMMA RingWrite ==
  ASSUME NEW r, RingGood(r), NEW data \in Seq(Byte)
  PROVE  /\ RingGood(Ring!Write(r, data))
         /\ Ring!Content(Ring!Write(r, data)) =
              IF Ring!CanWrite(r, Len(data)) THEN Ring!Content(r) \o data ELSE Ring!Content(r)
         /\ Ring!CanWrite(r, Len(data)) \in BOOLEAN
<1> DEFINE d == Ring!Write(r, data)   n == Len(data)   c == ClientCapacity
           b == r.mBeginIndex         s == r.mCurrentSize
<1>1. n \in Nat /\ \A i \in 1 .. n : data[i] \in Byte
  BY LenProperties, ElementOfSeq
<1>2. /\ b \in 0 .. c - 1 /\ s \in 0 .. c /\ r.mEndIndex \in 0 .. c - 1
      /\ r.mEndIndex = (b + s) % c /\ r.mData \in [0 .. c - 1 -> Byte \cup {Junk}]
      /\ c \in Nat \ {0}
      /\ \A i \in 1 .. s : r.mData[(b + i - 1) % c] \in Byte
      /\ r \in Ring!DDCircularBufferType
  BY Capacities DEF RingGood, Ring!DDCircularBufferType, Ring!Index
<1>0. Ring!CanWrite(r, n) \in BOOLEAN
  BY DEF Ring!CanWrite
<1>6. r.mEndIndex = End(b, s, c)
  BY <1>2 DEF End
<1>3. CASE ~Ring!CanWrite(r, n)
  <2>1. d = r
    BY <1>3 DEF Ring!Write
  <2>2. Ring!Content(d) = Ring!Content(r) /\ RingGood(d)
    BY <2>1
  <2> HIDE DEF d
  <2> QED  BY <2>2, <1>3, <1>0 DEF d
<1>4. CASE Ring!CanWrite(r, n)
  <2> DEFINE m == Ring!Stored(r, data)
  <2>1. n # 0 /\ n <= c - s
    BY <1>4 DEF Ring!CanWrite, Ring!Room
  <2>2. /\ d.mData = m /\ d.mBeginIndex = b /\ d.mEndIndex = (r.mEndIndex + n) % c
        /\ d.mCurrentSize = s + n
        /\ DOMAIN d = {"mData", "mBeginIndex", "mEndIndex", "mCurrentSize"}
        /\ d = [mData |-> d.mData, mBeginIndex |-> d.mBeginIndex, mEndIndex |-> d.mEndIndex,
                mCurrentSize |-> d.mCurrentSize]
    BY <1>2, <1>4 DEF Ring!Write, Ring!DDCircularBufferType
  <2>3. \A i \in 0 .. c - 1 :
          m[i] = IF (i - r.mEndIndex) % c < n THEN data[((i - r.mEndIndex) % c) + 1]
                                              ELSE r.mData[i]
    BY DEF Ring!Stored, Ring!Index
  <2>4. m \in [0 .. c - 1 -> Byte \cup {Junk}]
    <3>1. ASSUME NEW i \in 0 .. c - 1
          PROVE  (IF (i - r.mEndIndex) % c < n THEN data[((i - r.mEndIndex) % c) + 1]
                                               ELSE r.mData[i]) \in Byte \cup {Junk}
      <4> DEFINE k == (i - r.mEndIndex) % c
      <4>1. i - r.mEndIndex \in Int
        BY <1>2
      <4>2. k \in 0 .. c - 1
        <5>1. c \in Nat \ {0}
          BY <1>2
        <5> QED  BY ONLY <4>1, <5>1
      <4> HIDE DEF k
      <4>3. k < n => data[k + 1] \in Byte
        BY <4>2, <1>1, <1>2
      <4> QED  BY <4>3, <1>2 DEF k
    <3> QED  BY <3>1 DEF Ring!Stored, Ring!Index
  <2> HIDE DEF d, m
  <2>5. d.mEndIndex = (d.mBeginIndex + d.mCurrentSize) % c /\ d.mEndIndex \in 0 .. c - 1
    <3>1. End(r.mEndIndex, n, c) = End(b, s + n, c) /\ End(r.mEndIndex, n, c) \in 0 .. c - 1
      BY <1>1, <1>2, <1>6, <2>1, RingEnd
    <3> QED  BY <3>1, <2>2 DEF End
  <2>6. d \in Ring!DDCircularBufferType
    <3>1. /\ d.mData \in [0 .. c - 1 -> Byte \cup {Junk}] /\ d.mBeginIndex \in 0 .. c - 1
          /\ d.mEndIndex \in 0 .. c - 1 /\ d.mCurrentSize \in 0 .. c
      <4>1. d.mData = m /\ d.mBeginIndex = b /\ d.mCurrentSize = s + n
        BY <2>2
      <4>2. s + n \in 0 .. c
        BY <1>1, <1>2, <2>1
      <4> QED  BY <4>1, <4>2, <1>2, <2>4, <2>5
    <3>2. d = [mData |-> d.mData, mBeginIndex |-> d.mBeginIndex, mEndIndex |-> d.mEndIndex,
               mCurrentSize |-> d.mCurrentSize]
      BY <2>2
    <3> QED  BY <3>1, <3>2 DEF Ring!DDCircularBufferType, Ring!Index
  <2>7. ASSUME NEW i \in 1 .. s + n
        PROVE  m[(b + i - 1) % c] = IF i <= s THEN r.mData[(b + i - 1) % c] ELSE data[i - s]
    <3> DEFINE at == (b + i - 1) % c   k == (at - r.mEndIndex) % c
    <3>1. at \in 0 .. c - 1 /\ k = IF i <= s THEN c + i - 1 - s ELSE i - 1 - s
      <4>1. /\ Place(b, i, c) \in 0 .. c - 1
            /\ Behind(Place(b, i, c), r.mEndIndex, c)
                 = IF i <= s THEN c + i - 1 - s ELSE i - 1 - s
        <5>1. i \in 1 .. c
          BY <1>1, <1>2, <2>1
        <5>2. /\ c \in Nat \ {0} /\ b \in 0 .. c - 1 /\ s \in 0 .. c
              /\ r.mEndIndex \in 0 .. c - 1
          BY <1>2
        <5> HIDE DEF c, b, s
        <5> QED  BY ONLY <5>1, <5>2, <1>6, RingPlace
      <4> QED  BY <4>1 DEF Place, Behind
    <3>4. m[at] = IF k < n THEN data[k + 1] ELSE r.mData[at]
      BY <2>3, <3>1
    <3> HIDE DEF k, at
    <3>2. k = IF i <= s THEN c + i - 1 - s ELSE i - 1 - s
      BY <3>1
    <3>3. c \in Nat /\ s \in 0 .. c /\ n \in Nat /\ n <= c - s /\ i \in 1 .. s + n
      BY <1>1, <1>2, <2>1
    <3> HIDE DEF c, s, n
    <3>5. i <= s => ~(k < n)
      BY ONLY <3>2, <3>3
    <3>6. ~(i <= s) => k < n /\ k + 1 = i - s
      BY ONLY <3>2, <3>3
    <3> QED  BY <3>4, <3>5, <3>6 DEF at
  <2>8. \A i \in 1 .. s + n : m[(b + i - 1) % c] \in Byte
    <3> SUFFICES ASSUME NEW i \in 1 .. s + n PROVE m[(b + i - 1) % c] \in Byte
      OBVIOUS
    <3>1. CASE i <= s
      <4>1. i \in 1 .. s
        BY <3>1, <1>2
      <4> QED  BY <4>1, <3>1, <2>7, <1>2
    <3>2. CASE ~(i <= s)
      <4>1. i - s \in 1 .. n
        BY <3>2, <1>1, <1>2
      <4> QED  BY <4>1, <3>2, <2>7, <1>1
    <3> QED  BY <3>1, <3>2
  <2>9. RingGood(d)
    BY <2>2, <2>5, <2>6, <2>8 DEF RingGood
  <2> DEFINE u == Ring!Content(d)   w == Ring!Content(r)
  <2>10. /\ u \in Seq(Byte) /\ Len(u) = s + n
         /\ \A i \in 1 .. s + n : u[i] = m[(b + i - 1) % c]
    BY <2>2, <2>9, RingContent
  <2>11. /\ w \in Seq(Byte) /\ Len(w) = s /\ \A i \in 1 .. s : w[i] = r.mData[(b + i - 1) % c]
    BY RingContent
  <2>12. /\ w \o data \in Seq(Byte) /\ Len(w \o data) = s + n
         /\ \A i \in 1 .. s + n : (w \o data)[i] = IF i <= s THEN w[i] ELSE data[i - s]
    <3> HIDE DEF w
    <3>1. /\ w \o data \in Seq(Byte) /\ Len(w \o data) = Len(w) + Len(data)
          /\ \A i \in 1 .. Len(w) + Len(data) :
               (w \o data)[i] = IF i <= Len(w) THEN w[i] ELSE data[i - Len(w)]
      BY <2>11, ConcatProperties
    <3> QED  BY <3>1, <2>11
  <2> HIDE DEF u, w
  <2>13. ASSUME NEW i \in 1 .. s + n PROVE u[i] = (w \o data)[i]
    <3>1. i <= s => i \in 1 .. s
      BY <1>1, <1>2
    <3> QED  BY <3>1, <2>7, <2>10, <2>11, <2>12
  <2>14. u = w \o data
    BY <2>10, <2>12, <2>13, SeqEqual
  <2> QED  BY <1>0, <1>4, <2>9, <2>14 DEF u, w, d
<1> QED  BY <1>3, <1>4

(* Consume takes bytes off the front; more than there are, or none, leave  *)
(* the ring as it is.                                                      *)
LEMMA RingConsume ==
  ASSUME NEW r, RingGood(r), NEW n \in Nat, n <= r.mCurrentSize
  PROVE  /\ RingGood(Ring!Consume(r, n))
         /\ Ring!Content(Ring!Consume(r, n)) = SubSeq(Ring!Content(r), n + 1, r.mCurrentSize)
         /\ Ring!Consume(r, n).mCurrentSize = r.mCurrentSize - n
<1> DEFINE d == Ring!Consume(r, n)   c == ClientCapacity
           b == r.mBeginIndex        s == r.mCurrentSize   w == Ring!Content(r)
<1>1. /\ b \in 0 .. c - 1 /\ s \in 0 .. c /\ r.mEndIndex \in 0 .. c - 1
      /\ r.mEndIndex = End(b, s, c) /\ r.mData \in [0 .. c - 1 -> Byte \cup {Junk}]
      /\ c \in Nat \ {0}
      /\ \A i \in 1 .. s : r.mData[(b + i - 1) % c] \in Byte
      /\ r \in Ring!DDCircularBufferType
  BY Capacities DEF RingGood, Ring!DDCircularBufferType, Ring!Index, End
<1>2. /\ w \in Seq(Byte) /\ Len(w) = s
      /\ \A i \in 1 .. s : w[i] = r.mData[(b + i - 1) % c]
  BY RingContent
<1>3. CASE n = 0
  <2>1. d = r
    BY <1>3 DEF Ring!Consume, Ring!CanRead
  <2>2. w = SubSeq(w, 0 + 1, s)
    BY <1>2, SubSeqFull
  <2>3. RingGood(d) /\ Ring!Content(d) = w /\ d.mCurrentSize = s
    BY <2>1
  <2> HIDE DEF d, w
  <2>4. s - n = s
    BY <1>1, <1>3
  <2> QED  BY <2>2, <2>3, <2>4, <1>3 DEF d, w
<1>4. CASE n # 0
  <2>1. /\ d.mData = r.mData /\ d.mBeginIndex = (b + n) % c /\ d.mEndIndex = r.mEndIndex
        /\ d.mCurrentSize = s - n
        /\ d = [mData |-> d.mData, mBeginIndex |-> d.mBeginIndex, mEndIndex |-> d.mEndIndex,
                mCurrentSize |-> d.mCurrentSize]
    BY <1>1, <1>4 DEF Ring!Consume, Ring!CanRead, Ring!DDCircularBufferType
  <2> DEFINE e == End(b, n, c)
  <2>2. n \in 0 .. c /\ s - n \in 0 .. c /\ s - n <= c - n /\ n + (s - n) = s
    <3>1. s \in 0 .. c /\ c \in Nat \ {0} /\ n <= s
      BY <1>1
    <3> HIDE DEF s, c
    <3> QED  BY <3>1
  <2>3. e \in 0 .. c - 1
    <3>1. b + n \in Int
      BY <1>1
    <3>2. (b + n) % c \in 0 .. c - 1
      BY <1>1, <3>1
    <3> QED  BY <3>2 DEF End
  <2> HIDE DEF d
  <2>4. d.mBeginIndex = e
    BY <2>1 DEF End
  <2>5. d.mEndIndex = (d.mBeginIndex + d.mCurrentSize) % c
    <3>1. End(e, s - n, c) = End(b, n + (s - n), c)
      BY <1>1, <2>2, <2>3, RingEnd
    <3> HIDE DEF e
    <3> QED  BY <3>1, <2>1, <2>2, <2>4, <1>1 DEF End
  <2>6. d \in Ring!DDCircularBufferType
    <3>1. /\ d.mData \in [0 .. c - 1 -> Byte \cup {Junk}] /\ d.mBeginIndex \in 0 .. c - 1
          /\ d.mEndIndex \in 0 .. c - 1 /\ d.mCurrentSize \in 0 .. c
      <4>1. d.mData = r.mData /\ d.mEndIndex = r.mEndIndex /\ d.mCurrentSize = s - n
        BY <2>1
      <4> QED  BY <4>1, <1>1, <2>2, <2>3, <2>4
    <3>2. d = [mData |-> d.mData, mBeginIndex |-> d.mBeginIndex, mEndIndex |-> d.mEndIndex,
               mCurrentSize |-> d.mCurrentSize]
      BY <2>1
    <3> QED  BY <3>1, <3>2 DEF Ring!DDCircularBufferType, Ring!Index
  <2>7. ASSUME NEW i \in 1 .. s - n
        PROVE  /\ n + i \in 1 .. s
               /\ (d.mBeginIndex + i - 1) % c = (b + (n + i) - 1) % c
    <3>1. /\ i - 1 \in Nat /\ i - 1 <= c - n /\ n + i \in 1 .. s
          /\ b + (n + (i - 1)) = b + (n + i) - 1
      BY <1>1, <2>2
    <3>2. End(e, i - 1, c) = End(b, n + (i - 1), c)
      BY <1>1, <2>2, <2>3, <3>1, RingEnd
    <3>3. e + (i - 1) = e + i - 1
      BY <2>3
    <3> HIDE DEF e
    <3>4. (e + (i - 1)) % c = (b + (n + (i - 1))) % c
      BY <3>2 DEF End
    <3> QED  BY <3>1, <3>3, <3>4, <2>4
  <2>8. \A i \in 1 .. d.mCurrentSize : d.mData[(d.mBeginIndex + i - 1) % c] \in Byte
    BY <2>1, <2>7, <1>1
  <2>9. RingGood(d)
    BY <2>5, <2>6, <2>8 DEF RingGood
  <2> DEFINE u == Ring!Content(d)
  <2>10. /\ u \in Seq(Byte) /\ Len(u) = s - n
         /\ \A i \in 1 .. s - n : u[i] = r.mData[(d.mBeginIndex + i - 1) % c]
    BY <2>1, <2>9, RingContent
  <2> HIDE DEF u, w
  <2>11. ASSUME NEW i \in 1 .. s - n PROVE u[i] = w[n + i]
    BY <2>7, <2>10, <1>2
  <2>12. u = SubSeq(w, n + 1, s)
    BY <2>10, <2>11, <2>2, <1>1, <1>2, RecvProofs!SuffixEqual, Capacities
  <2> QED  BY <2>1, <2>9, <2>12 DEF u, w, d
<1> QED  BY <1>3, <1>4

(* A new ring is empty.                                                    *)
LEMMA RingNew == RingGood(Ring!NewRing) /\ Ring!NewRing.mCurrentSize = 0
<1> DEFINE r == Ring!NewRing   c == ClientCapacity
<1>1. /\ r.mBeginIndex = 0 /\ r.mEndIndex = 0 /\ r.mCurrentSize = 0
      /\ r \in Ring!DDCircularBufferType
  BY Capacities DEF Ring!NewRing, Ring!DDCircularBufferType, Ring!Index
<1>2. (0 + 0) % c = 0
  BY Capacities
<1> HIDE DEF r
<1> QED  BY <1>1, <1>2 DEF RingGood, r

-----------------------------------------------------------------------------
(* The stream and its packets.                                             *)

(* No bytes are no packets.                                                *)
LEMMA FramedEmpty == Framed(<<>>, <<>>)
<1> DEFINE pos == [i \in 0 .. 0 |-> 0]
<1>1. Len(<<>>) = 0
  OBVIOUS
<1>2. pos \in [0 .. 0 -> Nat] /\ pos[0] = 0
  OBVIOUS
<1>3. pos \in [0 .. Len(<<>>) -> Nat] /\ pos[Len(<<>>)] = Len(<<>>)
  BY <1>1, <1>2
<1>4. /\ \A i, j \in 0 .. Len(<<>>) : i <= j => pos[i] <= pos[j]
      /\ \A i \in 1 .. Len(<<>>) : FALSE
  BY <1>1
<1> QED  BY <1>2, <1>3, <1>4 DEF Framed

(* A packet that is written comes behind the stream.                       *)
LEMMA FramedAppend ==
  ASSUME NEW s \in Seq(Byte), NEW u \in Seq(Packet), NEW p \in Packet, Framed(s, u)
  PROVE  Framed(s \o p, Append(u, p))
<1> DEFINE n == Len(u)   v == Append(u, p)   t == s \o p
<1>1. p \in Seq(Byte) /\ Len(p) \in Nat /\ Len(s) \in Nat /\ n \in Nat
  BY Capacities, LenProperties
<1>2. /\ v \in Seq(Packet) /\ Len(v) = n + 1
      /\ \A i \in 1 .. n : v[i] = u[i]
      /\ v[n + 1] = p
  BY AppendProperties
<1>3. /\ Len(t) = Len(s) + Len(p)
      /\ \A i \in 1 .. Len(s) + Len(p) : t[i] = IF i <= Len(s) THEN s[i] ELSE p[i - Len(s)]
  BY <1>1, ConcatProperties
<1>4. PICK pos \in [0 .. n -> Nat] :
        /\ pos[0] = 0 /\ pos[n] = Len(s)
        /\ \A i, j \in 0 .. n : i <= j => pos[i] <= pos[j]
        /\ \A i \in 1 .. n :
             /\ pos[i] = pos[i - 1] + Len(u[i])
             /\ \A k \in 1 .. Len(u[i]) : s[pos[i - 1] + k] = u[i][k]
  BY DEF Framed
<1>11. /\ n \in 0 .. n /\ \A i \in 0 .. n : pos[i] \in Nat
       /\ \A i \in 0 .. n : pos[i] <= Len(s)
  <2>1. n \in 0 .. n /\ \A i \in 0 .. n : pos[i] \in Nat
    BY <1>1
  <2> HIDE DEF n
  <2>2. ASSUME NEW i \in 0 .. n PROVE pos[i] <= pos[n]
    <3>1. i <= n
      BY <1>1
    <3> QED  BY <3>1, <2>1, <1>4
  <2> QED  BY <2>1, <2>2, <1>4
<1> DEFINE m == Len(s) + Len(p)
           new == [i \in 0 .. n + 1 |-> IF i <= n THEN pos[i] ELSE m]
<1>5. m \in Nat /\ new \in [0 .. n + 1 -> Nat]
  BY <1>1
<1>6. /\ \A i \in 0 .. n : new[i] = pos[i]
      /\ new[n + 1] = m
  BY <1>1
<1> HIDE DEF n, v, t, new, m
<1>7. new[0] = 0 /\ new[n + 1] = Len(t)
  BY <1>1, <1>3, <1>4, <1>6 DEF m
<1>8. ASSUME NEW i \in 0 .. n + 1, NEW j \in 0 .. n + 1, i <= j PROVE new[i] <= new[j]
  <2>1. CASE j <= n
    <3>1. i \in 0 .. n /\ j \in 0 .. n
      BY <2>1, <1>1, <1>8
    <3> QED  BY <3>1, <1>4, <1>6, <1>8
  <2>2. CASE j = n + 1 /\ i <= n
    <3>1. i \in 0 .. n /\ n \in 0 .. n
      BY <2>2, <1>1
    <3>2. pos[i] <= Len(s) /\ pos[i] \in Nat
      BY <3>1, <1>11
    <3> QED  BY <2>2, <3>1, <3>2, <1>1, <1>6 DEF m
  <2>3. CASE j = n + 1 /\ i = n + 1
    BY <2>3, <1>5, <1>6
  <2> QED  BY <2>1, <2>2, <2>3, <1>1, <1>8
<1>9. ASSUME NEW i \in 1 .. n + 1
      PROVE  /\ new[i] = new[i - 1] + Len(v[i])
             /\ \A k \in 1 .. Len(v[i]) : t[new[i - 1] + k] = v[i][k]
  <2>1. CASE i <= n
    <3>1. i \in 1 .. n /\ i \in 0 .. n /\ i - 1 \in 0 .. n /\ n \in 0 .. n
      BY <2>1, <1>1
    <3>2. new[i] = pos[i] /\ new[i - 1] = pos[i - 1] /\ v[i] = u[i]
      BY <3>1, <1>2, <1>6
    <3>3. /\ pos[i] = pos[i - 1] + Len(u[i]) /\ pos[i] <= Len(s)
          /\ pos[i] \in Nat /\ pos[i - 1] \in Nat
      <4>1. pos[i] = pos[i - 1] + Len(u[i])
        BY <3>1, <1>4
      <4> QED  BY <4>1, <3>1, <1>11
    <3>4. Len(u[i]) \in Nat
      BY <3>1, ElementOfSeq, Capacities DEF n
    <3>5. ASSUME NEW k \in 1 .. Len(u[i]) PROVE t[pos[i - 1] + k] = u[i][k]
      <4>1. s[pos[i - 1] + k] = u[i][k]
        BY <3>1, <1>4
      <4>2. pos[i - 1] + k \in 1 .. Len(s) + Len(p) /\ pos[i - 1] + k <= Len(s)
        <5> DEFINE a == pos[i - 1]   l == Len(u[i])   b == Len(s)   c == Len(p)
        <5>1. a \in Nat /\ l \in Nat /\ b \in Nat /\ c \in Nat /\ a + l <= b /\ k \in 1 .. l
          BY <3>3, <3>4, <1>1
        <5> HIDE DEF a, l, b, c
        <5>2. a + k \in 1 .. b + c /\ a + k <= b
          BY <5>1
        <5> QED  BY <5>2 DEF a, b, c
      <4> QED  BY <4>1, <4>2, <1>3
    <3> QED  BY <3>2, <3>3, <3>5
  <2>2. CASE ~(i <= n)
    <3>1. i = n + 1 /\ i - 1 = n /\ n \in 0 .. n
      BY <2>2, <1>1
    <3>2. new[i] = m /\ new[i - 1] = Len(s) /\ v[i] = p
      BY <3>1, <1>2, <1>4, <1>6
    <3>3. ASSUME NEW k \in 1 .. Len(p) PROVE t[Len(s) + k] = p[k]
      <4>1. Len(s) + k \in 1 .. Len(s) + Len(p) /\ ~(Len(s) + k <= Len(s))
            /\ Len(s) + k - Len(s) = k
        BY <1>1
      <4> QED  BY <4>1, <1>3
    <3> QED  BY <3>2, <3>3 DEF m
  <2> QED  BY <2>1, <2>2
<1>10. Framed(t, v)
  <2>1. Len(v) = n + 1
    BY <1>2
  <2> SUFFICES
        /\ new \in [0 .. Len(v) -> Nat] /\ new[0] = 0 /\ new[Len(v)] = Len(t)
        /\ \A i, j \in 0 .. Len(v) : i <= j => new[i] <= new[j]
        /\ \A i \in 1 .. Len(v) :
             /\ new[i] = new[i - 1] + Len(v[i])
             /\ \A k \in 1 .. Len(v[i]) : t[new[i - 1] + k] = v[i][k]
    BY DEF Framed
  <2> QED  BY <2>1, <1>5, <1>7, <1>8, <1>9
<1> QED  BY <1>10 DEF t, v

(* The stream begins with the oldest packet, and what follows are the      *)
(* others.                                                                 *)
LEMMA FramedHead ==
  ASSUME NEW s \in Seq(Byte), NEW u \in Seq(Packet), u # <<>>, Framed(s, u)
  PROVE  /\ Head(u) = u[1] /\ u[1] \in Packet /\ Len(u[1]) <= Len(s)
         /\ SubSeq(s, 1, Len(u[1])) = u[1] /\ s[1] = Len(u[1])
         /\ Framed(SubSeq(s, Len(u[1]) + 1, Len(s)), Tail(u))
<1> DEFINE n == Len(u)   v == Tail(u)   h == Len(u[1])   t == SubSeq(s, h + 1, Len(s))
<1>1. /\ n \in Nat /\ n > 0 /\ Len(s) \in Nat /\ u[1] \in Packet /\ Head(u) = u[1]
  <2>1. Len(u) \in Nat /\ Len(u) # 0
    BY LenProperties, EmptySeq
  <2> QED  BY <2>1, LenProperties, ElementOfSeq
<1>2. /\ v \in Seq(Packet) /\ Len(v) = n - 1
      /\ \A i \in 1 .. n - 1 : v[i] = u[i + 1]
  BY HeadTailProperties
<1>3. u[1] \in Seq(Byte) /\ h \in Nat /\ h >= 2 /\ u[1][1] = h
  BY <1>1, Capacities
<1>4. PICK pos \in [0 .. n -> Nat] :
        /\ pos[0] = 0 /\ pos[n] = Len(s)
        /\ \A i, j \in 0 .. n : i <= j => pos[i] <= pos[j]
        /\ \A i \in 1 .. n :
             /\ pos[i] = pos[i - 1] + Len(u[i])
             /\ \A k \in 1 .. Len(u[i]) : s[pos[i - 1] + k] = u[i][k]
  BY DEF Framed
<1>15. /\ n \in 0 .. n /\ \A i \in 0 .. n : pos[i] \in Nat
       /\ \A i \in 0 .. n : pos[i] <= Len(s)
  <2>1. n \in 0 .. n /\ \A i \in 0 .. n : pos[i] \in Nat
    BY <1>1
  <2> HIDE DEF n
  <2>2. ASSUME NEW i \in 0 .. n PROVE pos[i] <= pos[n]
    <3>1. i <= n
      BY <1>1
    <3> QED  BY <3>1, <2>1, <1>4
  <2> QED  BY <2>1, <2>2, <1>4
<1>5. pos[1] = h /\ h <= Len(s) /\ \A k \in 1 .. h : s[k] = u[1][k]
  <2>1. 1 \in 1 .. n /\ 1 \in 0 .. n /\ n \in 0 .. n /\ 1 - 1 = 0 /\ 1 <= n
    BY <1>1
  <2>2. pos[1] = pos[0] + h /\ \A k \in 1 .. h : s[pos[0] + k] = u[1][k]
    BY <2>1, <1>4
  <2>3. \A k \in 1 .. h : 0 + k = k
    BY <1>3
  <2>4. pos[1] <= Len(s)
    BY <2>1, <1>4
  <2> QED  BY <2>2, <2>3, <2>4, <1>3, <1>4
<1>6. s[1] = h
  <2>1. 1 \in 1 .. h
    BY <1>3
  <2> QED  BY <2>1, <1>3, <1>5
<1> HIDE DEF h
<1>7. SubSeq(s, 1, h) = u[1]
  <2> DEFINE x == SubSeq(s, 1, h)
  <2>1. \A i \in 1 .. h : s[i] \in Byte
    BY <1>1, <1>3, <1>5, ElementOfSeq
  <2>2. /\ x \in Seq(Byte) /\ Len(x) = IF 1 <= h THEN h - 1 + 1 ELSE 0
        /\ \A i \in 1 .. h - 1 + 1 : x[i] = s[1 + i - 1]
    BY <2>1, <1>3, SubSeqProperties
  <2> HIDE DEF x
  <2>3. Len(x) = h
    BY <2>2, <1>3
  <2>4. ASSUME NEW i \in 1 .. h PROVE x[i] = u[1][i]
    <3>1. i \in 1 .. h - 1 + 1 /\ 1 + i - 1 = i
      BY <1>3
    <3> QED  BY <3>1, <2>2, <1>5
  <2>5. x = u[1]
    BY <2>2, <2>3, <2>4, <1>3, SeqEqual DEF h
  <2> QED  BY <2>5 DEF x
<1>8. /\ t \in Seq(Byte) /\ Len(t) = Len(s) - h
      /\ \A i \in 1 .. Len(s) - h : t[i] = s[h + i]
  <2>1. \A i \in h + 1 .. Len(s) : s[i] \in Byte
    BY <1>1, <1>3, ElementOfSeq
  <2>2. /\ t \in Seq(Byte)
        /\ Len(t) = IF h + 1 <= Len(s) THEN Len(s) - (h + 1) + 1 ELSE 0
        /\ \A i \in 1 .. Len(s) - (h + 1) + 1 : t[i] = s[h + 1 + i - 1]
    BY <2>1, <1>1, <1>3, SubSeqProperties
  <2> HIDE DEF t
  <2>3. Len(t) = Len(s) - h
    BY <2>2, <1>1, <1>3, <1>5
  <2>4. ASSUME NEW i \in 1 .. Len(s) - h PROVE t[i] = s[h + i]
    <3>1. i \in 1 .. Len(s) - (h + 1) + 1 /\ h + 1 + i - 1 = h + i
      BY <1>1, <1>3
    <3> QED  BY <3>1, <2>2
  <2> QED  BY <2>2, <2>3, <2>4
<1> DEFINE new == [i \in 0 .. n - 1 |-> pos[i + 1] - h]
<1>9. ASSUME NEW i \in 0 .. n - 1
      PROVE  i + 1 \in 1 .. n /\ new[i] = pos[i + 1] - h /\ new[i] \in Nat /\ pos[i + 1] \in Nat
  <2>1. i + 1 \in 0 .. n /\ i + 1 \in 1 .. n /\ 1 \in 0 .. n /\ 1 <= i + 1
    BY <1>1
  <2>2. pos[1] <= pos[i + 1] /\ pos[i + 1] \in Nat
    BY <2>1, <1>4
  <2> QED  BY <2>1, <2>2, <1>3, <1>5
<1>10. new \in [0 .. n - 1 -> Nat]
  BY <1>9
<1> HIDE DEF n, v, t, new
<1>11. new[0] = 0 /\ new[n - 1] = Len(t)
  <2>1. 0 \in 0 .. n - 1 /\ n - 1 \in 0 .. n - 1 /\ 0 + 1 = 1 /\ n - 1 + 1 = n
    BY <1>1
  <2>2. new[0] = pos[1] - h /\ new[n - 1] = pos[n] - h
    BY <2>1, <1>9
  <2> QED  BY <2>2, <1>3, <1>4, <1>5, <1>8
<1>12. ASSUME NEW i \in 0 .. n - 1, NEW j \in 0 .. n - 1, i <= j PROVE new[i] <= new[j]
  <2>1. i + 1 \in 0 .. n /\ j + 1 \in 0 .. n /\ i + 1 <= j + 1
    BY <1>1, <1>12
  <2>2. pos[i + 1] <= pos[j + 1]
    BY <2>1, <1>4
  <2> QED  BY <2>2, <1>3, <1>9
<1>13. ASSUME NEW i \in 1 .. n - 1
       PROVE  /\ new[i] = new[i - 1] + Len(v[i])
              /\ \A k \in 1 .. Len(v[i]) : t[new[i - 1] + k] = v[i][k]
  <2>1. /\ i \in 0 .. n - 1 /\ i - 1 \in 0 .. n - 1 /\ i - 1 + 1 = i /\ i + 1 - 1 = i
        /\ i + 1 \in 1 .. n /\ i + 1 \in 0 .. n /\ i \in 0 .. n /\ n \in 0 .. n /\ i + 1 <= n
    BY <1>1
  <2>2. new[i] = pos[i + 1] - h /\ new[i - 1] = pos[i] - h /\ new[i - 1] \in Nat /\ v[i] = u[i + 1]
    BY <2>1, <1>2, <1>9
  <2>3. /\ pos[i + 1] = pos[i] + Len(u[i + 1])
        /\ \A k \in 1 .. Len(u[i + 1]) : s[pos[i] + k] = u[i + 1][k]
        /\ pos[i + 1] <= Len(s) /\ pos[i] \in Nat /\ pos[i + 1] \in Nat
    <3>1. /\ pos[i + 1] = pos[i + 1 - 1] + Len(u[i + 1])
          /\ \A k \in 1 .. Len(u[i + 1]) : s[pos[i + 1 - 1] + k] = u[i + 1][k]
      BY <2>1, <1>4
    <3> QED  BY <3>1, <2>1, <1>15
  <2>4. Len(u[i + 1]) \in Nat
    BY <2>1, ElementOfSeq, Capacities DEF n
  <2>5. ASSUME NEW k \in 1 .. Len(u[i + 1]) PROVE t[new[i - 1] + k] = u[i + 1][k]
    <3>1. /\ new[i - 1] + k \in 1 .. Len(s) - h /\ h + (new[i - 1] + k) = pos[i] + k
      <4> DEFINE a == pos[i]   l == Len(u[i + 1])   b == Len(s)   e == new[i - 1]
      <4>1. /\ a \in Nat /\ l \in Nat /\ b \in Nat /\ h \in Nat /\ e \in Nat
            /\ a + l <= b /\ k \in 1 .. l /\ e = a - h
        BY <2>2, <2>3, <2>4, <1>1, <1>3
      <4> HIDE DEF a, l, b, e
      <4>2. e + k \in 1 .. b - h /\ h + (e + k) = a + k
        BY <4>1
      <4> QED  BY <4>2 DEF a, b, e
    <3> QED  BY <3>1, <2>3, <1>8
  <2>6. new[i] = new[i - 1] + Len(u[i + 1])
    <3> DEFINE a == pos[i]   l == Len(u[i + 1])   b == pos[i + 1]
    <3>1. a \in Nat /\ l \in Nat /\ b = a + l /\ h \in Nat
      BY <2>3, <2>4, <1>3
    <3> HIDE DEF a, l, b
    <3>2. b - h = a - h + l
      BY <3>1
    <3> QED  BY <3>2, <2>2 DEF a, l, b
  <2> QED  BY <2>2, <2>5, <2>6
<1>14. Framed(t, v)
  <2>1. Len(v) = n - 1
    BY <1>2
  <2> SUFFICES
        /\ new \in [0 .. Len(v) -> Nat] /\ new[0] = 0 /\ new[Len(v)] = Len(t)
        /\ \A i, j \in 0 .. Len(v) : i <= j => new[i] <= new[j]
        /\ \A i \in 1 .. Len(v) :
             /\ new[i] = new[i - 1] + Len(v[i])
             /\ \A k \in 1 .. Len(v[i]) : t[new[i - 1] + k] = v[i][k]
    BY DEF Framed
  <2> QED  BY <2>1, <1>10, <1>11, <1>12, <1>13
<1> QED  BY <1>1, <1>5, <1>6, <1>7, <1>14 DEF t, v, h

(* Bytes of no packet are no bytes.                                        *)
LEMMA FramedNone ==
  ASSUME NEW s \in Seq(Byte), Framed(s, <<>>)
  PROVE  Len(s) = 0
<1>1. Len(<<>>) = 0
  OBVIOUS
<1>2. PICK pos \in [0 .. Len(<<>>) -> Nat] : pos[0] = 0 /\ pos[Len(<<>>)] = Len(s)
  BY DEF Framed
<1> QED  BY <1>1, <1>2

-----------------------------------------------------------------------------
(* What moves between the parts of the stream.                             *)

(* Concatenation is associative.                                           *)
LEMMA Associative ==
  ASSUME NEW s \in Seq(Byte), NEW t \in Seq(Byte), NEW u \in Seq(Byte)
  PROVE  s \o (t \o u) = (s \o t) \o u
BY ConcatAssociative

(* What is under way is a sequence of bytes.                               *)
LEMMA StreamSeq ==
  ASSUME NEW b, RecvGood(b), NEW w \in Seq(Byte), NEW r, RingGood(r)
  PROVE  /\ Recv!Content(b) \in Seq(Byte) /\ Ring!Content(r) \in Seq(Byte)
         /\ w \o Ring!Content(r) \in Seq(Byte)
         /\ Stream(b, w, r) \in Seq(Byte)
         /\ Stream(b, w, r) = Recv!Content(b) \o (w \o Ring!Content(r))
         /\ Len(Stream(b, w, r)) = Len(Recv!Content(b)) + Len(w \o Ring!Content(r))
<1> DEFINE c == Recv!Content(b)   g == Ring!Content(r)
<1>1. c \in Seq(Byte) /\ g \in Seq(Byte)
  BY RecvContent, RingContent
<1> HIDE DEF c, g
<1>2. w \o g \in Seq(Byte) /\ c \o w \in Seq(Byte)
  BY <1>1, ConcatProperties
<1>3. (c \o w) \o g = c \o (w \o g)
  BY <1>1, Associative
<1>4. c \o (w \o g) \in Seq(Byte) /\ Len(c \o (w \o g)) = Len(c) + Len(w \o g)
  BY <1>1, <1>2, ConcatProperties
<1> QED  BY <1>1, <1>2, <1>3, <1>4 DEF Stream, c, g

(* A sequence is its beginning and its end.                                *)
LEMMA Halves ==
  ASSUME NEW t \in Seq(Byte), NEW n \in Nat, n <= Len(t)
  PROVE  /\ SubSeq(t, 1, n) \in Seq(Byte) /\ Len(SubSeq(t, 1, n)) = n
         /\ SubSeq(t, n + 1, Len(t)) \in Seq(Byte)
         /\ Len(SubSeq(t, n + 1, Len(t))) = Len(t) - n
         /\ SubSeq(t, 1, n) \o SubSeq(t, n + 1, Len(t)) = t
<1>1. Len(t) \in Nat /\ 1 \in 1 .. Len(t) + 1 /\ n \in 1 - 1 .. Len(t) /\ Len(t) \in n .. Len(t)
  BY LenProperties
<1>2. /\ \A i \in 1 .. n : t[i] \in Byte
      /\ \A i \in n + 1 .. Len(t) : t[i] \in Byte
  BY <1>1, ElementOfSeq
<1>3. /\ SubSeq(t, 1, n) \in Seq(Byte)
      /\ Len(SubSeq(t, 1, n)) = IF 1 <= n THEN n - 1 + 1 ELSE 0
  BY <1>1, <1>2, SubSeqProperties
<1>4. /\ SubSeq(t, n + 1, Len(t)) \in Seq(Byte)
      /\ Len(SubSeq(t, n + 1, Len(t))) = IF n + 1 <= Len(t) THEN Len(t) - (n + 1) + 1 ELSE 0
  BY <1>1, <1>2, SubSeqProperties
<1>5. SubSeq(t, 1, n) \o SubSeq(t, n + 1, Len(t)) = SubSeq(t, 1, Len(t))
  BY <1>1, ConcatAdjacentSubSeq
<1>6. SubSeq(t, 1, Len(t)) = t
  BY SubSeqFull
<1>7. Len(SubSeq(t, 1, n)) = n
  BY <1>1, <1>3
<1>8. Len(SubSeq(t, n + 1, Len(t))) = Len(t) - n
  BY <1>1, <1>4
<1>9. SubSeq(t, 1, n) \o SubSeq(t, n + 1, Len(t)) = t
  BY <1>5, <1>6
<1> QED  BY <1>3, <1>4, <1>7, <1>8, <1>9

(* The sequence t is s with p behind it.                                   *)
Appended(t, s, p) == t = s \o p

(* What is written follows what is under way.                              *)
LEMMA StreamWrite ==
  ASSUME NEW b, RecvGood(b), NEW w \in Seq(Byte), NEW r, RingGood(r),
         NEW p \in Seq(Byte), NEW q, Appended(Ring!Content(q), Ring!Content(r), p)
  PROVE  Appended(Stream(b, w, q), Stream(b, w, r), p)
<1> DEFINE c == Recv!Content(b)   g == Ring!Content(r)
<1>1. c \in Seq(Byte) /\ g \in Seq(Byte)
  BY RecvContent, RingContent
<1> HIDE DEF c, g
<1>2. c \o w \in Seq(Byte)
  BY <1>1, ConcatProperties
<1>3. (c \o w) \o (g \o p) = ((c \o w) \o g) \o p
  BY <1>1, <1>2, Associative
<1> QED  BY <1>3 DEF Stream, Appended, c, g

(* The bytes x at the front of the ring go to the end of the wire, ...     *)
LEMMA StreamSend ==
  ASSUME NEW b, RecvGood(b), NEW w \in Seq(Byte), NEW r, RingGood(r),
         NEW x \in Seq(Byte), NEW y \in Seq(Byte), Appended(Ring!Content(r), x, y),
         NEW v, Appended(v, w, x), NEW q, Ring!Content(q) = y
  PROVE  Stream(b, v, q) = Stream(b, w, r)
<1> DEFINE c == Recv!Content(b)   g == Ring!Content(r)
<1>1. c \in Seq(Byte) /\ g = x \o y
  BY RecvContent DEF Appended
<1> HIDE DEF c, g
<1>2. (c \o (w \o x)) \o y = (c \o w) \o g
  <2>1. c \o (w \o x) = (c \o w) \o x
    BY <1>1, Associative
  <2>2. c \o w \in Seq(Byte)
    BY <1>1, ConcatProperties
  <2>3. ((c \o w) \o x) \o y = (c \o w) \o (x \o y)
    BY <2>2, Associative
  <2> QED  BY <1>1, <2>1, <2>3
<1> QED  BY <1>2 DEF Stream, Appended, c, g

(* ... and those at the front of the wire to the end of the buffer.        *)
LEMMA StreamReceive ==
  ASSUME NEW b, RecvGood(b), NEW w \in Seq(Byte), NEW r, RingGood(r),
         NEW x \in Seq(Byte), NEW y \in Seq(Byte), Appended(w, x, y),
         NEW d, Appended(Recv!Content(d), Recv!Content(b), x)
  PROVE  Stream(d, y, r) = Stream(b, w, r)
<1> DEFINE c == Recv!Content(b)   g == Ring!Content(r)
<1>1. c \in Seq(Byte) /\ w = x \o y
  BY RecvContent DEF Appended
<1> HIDE DEF c, g
<1>2. (c \o x) \o y = c \o w
  BY <1>1, Associative
<1> QED  BY <1>2 DEF Stream, Appended, c, g

-----------------------------------------------------------------------------
(* OnRead's framing.                                                       *)

(* A header that is there tells the length of the oldest packet.           *)
LEMMA HeadPacket ==
  ASSUME NEW b, RecvGood(b), NEW w \in Seq(Byte), NEW r, RingGood(r),
         NEW u \in Seq(Packet), Framed(Stream(b, w, r), u), Recv!GetStoredSize(b) >= 2
  PROVE  u # <<>> /\ PacketLength(b) = Len(u[1]) /\ u[1] \in Packet
<1> DEFINE c == Recv!Content(b)   t == Stream(b, w, r)   m == Recv!GetStoredSize(b)
           x == SubSeq(c, 1, 2)   z == w \o Ring!Content(r)
<1>1. c \in Seq(Byte) /\ Len(c) = m /\ m \in Nat
  BY RecvContent
<1>2. t \in Seq(Byte) /\ t = c \o z /\ z \in Seq(Byte) /\ Len(z) \in Nat /\ Len(t) = m + Len(z)
  <2>1. t \in Seq(Byte) /\ t = c \o z /\ z \in Seq(Byte) /\ Len(t) = Len(c) + Len(z)
    BY StreamSeq
  <2> HIDE DEF t, z, c
  <2>2. Len(z) \in Nat
    BY <2>1, LenProperties
  <2> QED  BY <2>1, <2>2, <1>1
<1>3. PacketLength(b) = x[1]
  <2>1. Recv!FirstBytes(b, 2) = x
    BY RecvRead
  <2> QED  BY <2>1 DEF PacketLength, SizeOf
<1> HIDE DEF c, t, m, x, z
<1>4. m >= 2
  BY DEF m
<1>5. x[1] = c[1]
  <2>1. \A i \in 1 .. 2 : c[i] \in Byte
    BY <1>1, <1>4, ElementOfSeq
  <2>2. \A i \in 1 .. 2 - 1 + 1 : x[i] = c[1 + i - 1]
    BY <2>1, SubSeqProperties DEF x
  <2>3. 1 \in 1 .. 2 - 1 + 1 /\ 1 + 1 - 1 = 1
    OBVIOUS
  <2> QED  BY <2>2, <2>3
<1>6. t[1] = c[1]
  <2>1. \A i \in 1 .. Len(c) + Len(z) : (c \o z)[i] = IF i <= Len(c) THEN c[i] ELSE z[i - Len(c)]
    BY <1>1, <1>2, ConcatProperties
  <2>2. 1 \in 1 .. Len(c) + Len(z) /\ 1 <= Len(c)
    BY <1>1, <1>2, <1>4
  <2> QED  BY <2>1, <2>2, <1>2
<1>7. Framed(t, u)
  BY DEF t
<1>8. u # <<>>
  <2>1. Len(t) # 0
    BY <1>1, <1>2, <1>4
  <2> QED  BY <2>1, <1>2, <1>7, FramedNone
<1>9. t[1] = Len(u[1]) /\ u[1] \in Packet
  BY <1>2, <1>7, <1>8, FramedHead
<1> QED  BY <1>3, <1>5, <1>6, <1>8, <1>9

(* The handler gets the oldest packet, and the stream goes on behind it.   *)
LEMMA CompletePacket ==
  ASSUME NEW b, RecvGood(b), NEW w \in Seq(Byte), NEW r, RingGood(r),
         NEW u \in Seq(Packet), Framed(Stream(b, w, r), u), Complete(b)
  PROVE  /\ u # <<>> /\ Recv!FirstBytes(b, PacketLength(b)) = Head(u)
         /\ RecvGood(Recv!Read(b, PacketLength(b)))
         /\ Framed(Stream(Recv!Read(b, PacketLength(b)), w, r), Tail(u))
<1> DEFINE c == Recv!Content(b)   t == Stream(b, w, r)   m == Recv!GetStoredSize(b)
           h == PacketLength(b)   z == w \o Ring!Content(r)   d == Recv!Read(b, h)
<1>1. m >= 2 /\ h <= m
  <2>1. 2 <= m /\ h <= m
    BY DEF Complete, Recv!CanRead
  <2>2. m \in Nat
    BY RecvContent
  <2> HIDE DEF m
  <2> QED  BY <2>1, <2>2
<1>2. u # <<>> /\ h = Len(u[1]) /\ u[1] \in Packet
  BY <1>1, HeadPacket
<1>3. h \in Nat /\ h >= 2
  BY <1>2, Capacities
<1>4. /\ Recv!FirstBytes(b, h) = SubSeq(c, 1, h)
      /\ RecvGood(d) /\ Recv!Content(d) = SubSeq(c, h + 1, m)
  BY <1>1, <1>3, RecvRead
<1>5. c \in Seq(Byte) /\ Len(c) = m /\ m \in Nat
  BY RecvContent
<1>6. t \in Seq(Byte) /\ t = c \o z /\ z \in Seq(Byte) /\ Len(z) \in Nat /\ Len(t) = m + Len(z)
  <2>1. t \in Seq(Byte) /\ t = c \o z /\ z \in Seq(Byte) /\ Len(t) = Len(c) + Len(z)
    BY StreamSeq
  <2> HIDE DEF t, z, c
  <2>2. Len(z) \in Nat
    BY <2>1, LenProperties
  <2> QED  BY <2>1, <2>2, <1>5
<1>7. Stream(d, w, r) = Recv!Content(d) \o z
  BY <1>4, StreamSeq
<1>8. Framed(t, u)
  OBVIOUS
<1> HIDE DEF c, t, m, h, z, d
<1>9. /\ Head(u) = u[1] /\ SubSeq(t, 1, h) = u[1]
      /\ Framed(SubSeq(t, h + 1, Len(t)), Tail(u))
  BY <1>2, <1>6, <1>8, FramedHead
<1>10. SubSeq(c \o z, 1, h) = SubSeq(c, 1, h)
  <2>1. 1 \in 1 .. Len(c) /\ h \in 1 .. Len(c)
    BY <1>1, <1>3, <1>5
  <2> QED  BY <2>1, <1>5, <1>6, SubSeqOfConcat1
<1>11. SubSeq(c \o z, h + 1, Len(c) + Len(z)) = SubSeq(c, h + 1, Len(c)) \o z
  <2>1. h <= Len(c)
    BY <1>1, <1>5
  <2> QED  BY <2>1, <1>3, <1>5, <1>6, RecvProofs!SuffixOfConcat, Capacities
<1>12. SubSeq(t, h + 1, Len(t)) = Stream(d, w, r)
  BY <1>4, <1>5, <1>6, <1>7, <1>11
<1>13. Recv!FirstBytes(b, h) = Head(u)
  BY <1>4, <1>6, <1>9, <1>10
<1> QED  BY <1>2, <1>4, <1>9, <1>12, <1>13 DEF h, d

(* Less than a packet leaves room: it is less than half of the buffer.     *)
LEMMA OpenWindow ==
  ASSUME NEW b, RecvGood(b), NEW w \in Seq(Byte), NEW r, RingGood(r),
         NEW u \in Seq(Packet), Framed(Stream(b, w, r), u), ~Complete(b)
  PROVE  Recv!GetFreeSpaceSize(b) > 0
<1> DEFINE m == Recv!GetStoredSize(b)   f == Recv!GetFreeSpaceSize(b)   c == ServerCapacity
<1>1. m \in Nat /\ f \in Nat /\ 2 * (m + f + 1) > c /\ c \in Nat \ {0}
  BY RecvContent, RecvChoose, Capacities
<1>2. CASE m = 0
  BY <1>2, <1>1, RecvEmpty
<1>3. CASE m # 0
  <2>1. u # <<>>
    <3>1. Stream(b, w, r) \in Seq(Byte) /\ Len(Stream(b, w, r)) # 0
      <4> DEFINE z == Len(w \o Ring!Content(r))
      <4>1. /\ Stream(b, w, r) \in Seq(Byte) /\ z \in Nat
            /\ Len(Stream(b, w, r)) = m + z
        <5>1. /\ Stream(b, w, r) \in Seq(Byte) /\ w \o Ring!Content(r) \in Seq(Byte)
              /\ Len(Stream(b, w, r)) = Len(Recv!Content(b)) + Len(w \o Ring!Content(r))
          BY StreamSeq
        <5>2. Len(Recv!Content(b)) = m
          BY RecvContent
        <5>3. z \in Nat
          BY <5>1, LenProperties
        <5> QED  BY <5>1, <5>2, <5>3
      <4> HIDE DEF z, m
      <4> QED  BY <4>1, <1>1, <1>3
    <3> QED  BY <3>1, FramedNone
  <2>2. u[1] \in Packet
    <3>1. Stream(b, w, r) \in Seq(Byte)
      BY StreamSeq
    <3> QED  BY <3>1, <2>1, FramedHead
  <2>3. m + 1 <= Len(u[1]) /\ Len(u[1]) \in Nat
    <3>1. Len(u[1]) \in Nat /\ Len(u[1]) >= 2
      BY <2>2, Capacities
    <3>2. CASE m >= 2
      <4>1. PacketLength(b) = Len(u[1])
        BY <3>2, HeadPacket
      <4>2. ~(Len(u[1]) <= m)
        BY <4>1, <3>2, <1>1 DEF Complete, Recv!CanRead
      <4> HIDE DEF m
      <4> QED  BY <4>2, <3>1, <1>1
    <3>3. CASE ~(m >= 2)
      <4> HIDE DEF m
      <4> QED  BY <3>1, <3>3, <1>1
    <3> QED  BY <3>2, <3>3
  <2>4. c >= 2 * Len(u[1])
    BY <2>2, Capacities
  <2> DEFINE l == Len(u[1])
  <2> HIDE DEF m, f, c, l
  <2>5. m + 1 <= l /\ l \in Nat /\ c >= 2 * l
    BY <2>3, <2>4 DEF l
  <2>6. f > 0
    BY <2>5, <1>1
  <2> QED  BY <2>6 DEF f
<1> QED  BY <1>2, <1>3

-----------------------------------------------------------------------------
(* The invariant, action by action.                                        *)

(* The packets that are under way.                                         *)
Packets == Framed(Stream(mRecvBuffer, wire, m_SendBuffer), undispatched)

(* At the start nothing is under way.                                      *)
LEMMA InitInv == Init => Inv /\ Channel!Init
<1> SUFFICES ASSUME Init PROVE Inv /\ Channel!Init
  OBVIOUS
<1>1. RecvGood(mRecvBuffer) /\ Recv!GetStoredSize(mRecvBuffer) = 0
      /\ Recv!FreeOfChosen(mRecvBuffer) = ServerCapacity
  BY RecvNew DEF Init
<1>2. granted = ServerCapacity
  BY <1>1, RecvEmpty DEF Init
<1>3. RingGood(m_SendBuffer) /\ m_SendBuffer.mCurrentSize = 0
  BY RingNew DEF Init
<1>4. /\ wire = <<>> /\ wire \in Seq(Byte) /\ Len(wire) = 0
      /\ undispatched = <<>> /\ undispatched \in Seq(Packet)
  BY EmptySeq DEF Init
<1>5. Types /\ Offered /\ NoStrandedRequest
  <2>1. /\ link = "connecting" /\ posted = 0 /\ armed = FALSE /\ short = FALSE
        /\ serving = "recv" /\ MaxPosted \in Nat /\ MaxWire \in Nat
        /\ ServerCapacity \in Nat \ {0}
    BY Capacities DEF Init
  <2>2. Types
    <3>1. posted \in 0 .. MaxPosted /\ granted \in 0 .. ServerCapacity /\ Len(wire) <= MaxWire
      BY <2>1, <1>2, <1>4
    <3> QED  BY <3>1, <2>1, <1>1, <1>3, <1>4 DEF Types
  <2>3. Offered
    BY <2>1, <1>1, <1>2 DEF Offered
  <2>4. NoStrandedRequest
    BY <2>1 DEF NoStrandedRequest
  <2> QED  BY <2>2, <2>3, <2>4
<1>6. Packets
  <2>1. Recv!Content(mRecvBuffer) = <<>>
    BY <1>1, RecvContent, EmptySeq
  <2>2. Ring!Content(m_SendBuffer) = <<>>
    BY <1>3, RingContent, EmptySeq
  <2>3. Stream(mRecvBuffer, wire, m_SendBuffer) = <<>>
    BY <2>1, <2>2, <1>4 DEF Stream
  <2> QED  BY <2>3, <1>4, FramedEmpty DEF Packets
<1>7. Channel!Init
  BY DEF Init, Channel!Init
<1> QED  BY <1>5, <1>6, <1>7 DEF Inv, Packets

(* Steps that leave the bytes where they are.                              *)
LEMMA SameBytes ==
  ASSUME Packets, UNCHANGED <<mRecvBuffer, wire, m_SendBuffer, undispatched>>
  PROVE  Packets'
BY DEF Packets

(* The steps of the connection itself move no bytes.                       *)
LEMMA LinkKeeps ==
  ASSUME Inv, Connected \/ NagleOff \/ SystemPostsWrite \/ ClientCloses
  PROVE  Inv'
<1>1. Packets /\ Types /\ Offered
  BY DEF Inv, Packets
<1>2. UNCHANGED <<mRecvBuffer, wire, m_SendBuffer, undispatched>>
  BY DEF Connected, NagleOff, SystemPostsWrite, ClientCloses, server
<1>3. Packets'
  BY <1>1, <1>2, SameBytes
<1>4. Types'
  <2>1. posted' \in 0 .. MaxPosted
    BY <1>1, Capacities DEF Types, Connected, NagleOff, SystemPostsWrite, ClientCloses
  <2>2. /\ link' \in {"connecting", "connected", "selected", "closed"}
        /\ armed' \in BOOLEAN /\ short' \in BOOLEAN
        /\ UNCHANGED <<serving, granted>>
    BY <1>1 DEF Types, Connected, NagleOff, SystemPostsWrite, ClientCloses, server
  <2> QED  BY <1>1, <1>2, <2>1, <2>2 DEF Types
<1>5. Offered'
  BY <1>1 DEF Offered, Connected, NagleOff, SystemPostsWrite, ClientCloses, server
<1>6. NoStrandedRequest'
  BY <1>1, Capacities
     DEF Types, NoStrandedRequest, Connected, NagleOff, SystemPostsWrite, ClientCloses
<1> QED  BY <1>3, <1>4, <1>5, <1>6 DEF Inv, Packets

(* A request is written whole or not at all.                               *)
LEMMA WriteKeeps ==
  ASSUME Inv, NEW p \in Packet, Write(p)
  PROVE  Inv'
<1>1. /\ Packets /\ Types /\ Offered /\ NoStrandedRequest
      /\ p \in Seq(Byte) /\ RingGood(m_SendBuffer) /\ RecvGood(mRecvBuffer)
      /\ wire \in Seq(Byte) /\ undispatched \in Seq(Packet)
  BY Capacities DEF Inv, Packets, Types
<1>2. /\ m_SendBuffer' = Ring!Write(m_SendBuffer, p)
      /\ UNCHANGED <<link, armed, short, wire, server, last>>
  BY DEF Write
<1>3. RingGood(m_SendBuffer')
  BY <1>1, <1>2, RingWrite
<1>4. CASE Ring!CanWrite(m_SendBuffer, Len(p))
  <2>1. posted < MaxPosted /\ posted' = posted + 1 /\ undispatched' = Append(undispatched, p)
    BY <1>4 DEF Write
  <2>2. Appended(Ring!Content(m_SendBuffer'), Ring!Content(m_SendBuffer), p)
    BY <1>1, <1>2, <1>4, RingWrite DEF Appended
  <2>3. Appended(Stream(mRecvBuffer, wire, m_SendBuffer'),
                 Stream(mRecvBuffer, wire, m_SendBuffer), p)
    BY <1>1, <2>2, StreamWrite
  <2>4. Stream(mRecvBuffer, wire, m_SendBuffer) \in Seq(Byte)
    BY <1>1, StreamSeq
  <2>5. Framed(Stream(mRecvBuffer, wire, m_SendBuffer'), Append(undispatched, p))
    BY <1>1, <2>3, <2>4, FramedAppend DEF Packets, Appended
  <2>6. Packets'
    BY <2>1, <2>5, <1>2 DEF Packets, server
  <2>7. undispatched' \in Seq(Packet)
    BY <2>1, <1>1, AppendProperties
  <2>8. posted' \in 0 .. MaxPosted /\ posted' > 0
    BY <2>1, <1>1, Capacities DEF Types
  <2>9. Types'
    BY <1>1, <1>2, <1>3, <2>7, <2>8 DEF Types, server
  <2>10. Offered' /\ NoStrandedRequest'
    BY <1>1, <1>2, <2>8 DEF Offered, NoStrandedRequest, server
  <2> QED  BY <2>6, <2>9, <2>10 DEF Inv, Packets
<1>5. CASE ~Ring!CanWrite(m_SendBuffer, Len(p))
  <2>1. UNCHANGED <<posted, undispatched>>
    BY <1>5 DEF Write
  <2>2. m_SendBuffer' = m_SendBuffer
    BY <1>2, <1>5 DEF Ring!Write
  <2>3. Packets'
    BY <1>1, <1>2, <2>1, <2>2, SameBytes DEF server
  <2>4. Types' /\ Offered' /\ NoStrandedRequest'
    BY <1>1, <1>2, <2>1, <2>2 DEF Types, Offered, NoStrandedRequest, server
  <2> QED  BY <2>3, <2>4 DEF Inv, Packets
<1> QED  BY <1>4, <1>5

(* Send: a part of the ring goes to the wire, or nothing does.             *)
LEMMA SendKeeps ==
  ASSUME Inv, Send
  PROVE  Inv'
<1> DEFINE size == m_SendBuffer.mCurrentSize
<1>1. /\ Packets /\ Types /\ Offered /\ NoStrandedRequest
      /\ RingGood(m_SendBuffer) /\ RecvGood(mRecvBuffer)
      /\ wire \in Seq(Byte) /\ undispatched \in Seq(Packet) /\ size \in 0 .. ClientCapacity
      /\ ClientCapacity \in Nat \ {0} /\ Len(wire) \in Nat /\ MaxWire \in Nat
      /\ link \in {"connecting", "connected", "selected", "closed"}
  BY Capacities, RingContent, LenProperties DEF Inv, Packets, Types
<1>2. /\ posted' \in 0 .. MaxPosted
      /\ UNCHANGED <<link, server, undispatched, last>>
  BY <1>1, Capacities DEF Send, Types
<1>3. ASSUME UNCHANGED <<m_SendBuffer, wire>>, armed' \in BOOLEAN, short' \in BOOLEAN,
             NoStrandedRequest'
      PROVE  Inv'
  <2>1. Packets'
    BY <1>1, <1>2, <1>3, SameBytes DEF server
  <2>2. Types' /\ Offered'
    BY <1>1, <1>2, <1>3 DEF Types, Offered, server
  <2> QED  BY <1>3, <2>1, <2>2 DEF Inv, Packets
<1>4. CASE size = 0
  <2>1. UNCHANGED <<m_SendBuffer, armed, short, wire>>
    BY <1>4 DEF Send
  <2>2. NoStrandedRequest'
    BY <2>1, <1>4, <1>1 DEF NoStrandedRequest
  <2> QED  BY <1>1, <1>3, <2>1, <2>2 DEF Types
<1>5. CASE size # 0
  <2>1. PICK sent \in SentBytes(size) :
          /\ wire' = IF sent < 0 THEN wire
                     ELSE wire \o SubSeq(Ring!Content(m_SendBuffer), 1, sent)
          /\ armed' = (armed \/ (sent < 0 /\ link = "selected"))
          /\ short' = (0 < sent /\ sent < size)
          /\ m_SendBuffer' = Ring!Consume(m_SendBuffer, Ring!SizeT(sent))
    BY <1>5 DEF Send
  <2>2. sent = -1 \/ (sent \in 1 .. size /\ Len(wire) + sent <= MaxWire)
    BY DEF SentBytes
  <2>3. armed' \in BOOLEAN /\ short' \in BOOLEAN
    BY <2>1
  <2>4. CASE sent = -1
    <3>1. Ring!SizeT(sent) = ClientCapacity + 1
      BY <2>4 DEF Ring!SizeT
    <3>2. ~Ring!CanRead(m_SendBuffer, Ring!SizeT(sent))
      BY <3>1, <1>1 DEF Ring!CanRead
    <3>3. UNCHANGED <<m_SendBuffer, wire>>
      BY <2>1, <2>4, <3>2 DEF Ring!Consume
    <3>4. NoStrandedRequest'
      <4>1. CASE link = "selected"
        <5>1. armed' = TRUE
          <6>1. sent < 0
            BY <2>4
          <6> QED  BY <6>1, <2>1, <4>1, Zenon
        <5> QED  BY <5>1 DEF NoStrandedRequest
      <4>2. CASE link # "selected"
        <5>1. link' \in {"connecting", "connected", "closed"}
          BY <1>1, <1>2, <4>2
        <5> QED  BY <5>1 DEF NoStrandedRequest
      <4> QED  BY <4>1, <4>2
    <3> QED  BY <1>3, <2>3, <3>3, <3>4
  <2>5. CASE sent # -1
    <3>1. sent \in 1 .. size /\ Len(wire) + sent <= MaxWire /\ sent \in Nat /\ sent <= size
      BY <2>2, <2>5, <1>1
    <3>2. Ring!SizeT(sent) = sent
      BY <3>1, <1>1 DEF Ring!SizeT
    <3>3. /\ RingGood(m_SendBuffer') /\ m_SendBuffer'.mCurrentSize = size - sent
          /\ Ring!Content(m_SendBuffer')
               = SubSeq(Ring!Content(m_SendBuffer), sent + 1, size)
      BY <2>1, <3>1, <3>2, <1>1, RingConsume
    <3> DEFINE c == Ring!Content(m_SendBuffer)   x == SubSeq(c, 1, sent)
               y == SubSeq(c, sent + 1, size)
    <3>4. /\ c \in Seq(Byte) /\ Appended(c, x, y)
          /\ x \in Seq(Byte) /\ Len(x) = sent /\ y \in Seq(Byte)
      <4>1. c \in Seq(Byte) /\ Len(c) = size
        BY <1>1, RingContent
      <4> HIDE DEF c
      <4> QED  BY <4>1, <3>1, Halves DEF Appended
    <3>10. ~(sent < 0)
      BY <3>1
    <3>11. Appended(wire', wire, x)
      BY <2>1, <3>10 DEF Appended
    <3>12. Ring!Content(m_SendBuffer') = y
      BY <3>3
    <3> HIDE DEF x, y, c
    <3>5. Stream(mRecvBuffer, wire', m_SendBuffer') = Stream(mRecvBuffer, wire, m_SendBuffer)
      BY <1>1, <3>4, <3>11, <3>12, StreamSend DEF c
    <3>6. Packets'
      BY <3>5, <1>1, <1>2 DEF Packets, server
    <3>7. wire' \in Seq(Byte) /\ Len(wire') <= MaxWire
      <4>1. wire' \in Seq(Byte) /\ Len(wire') = Len(wire) + Len(x)
        BY <1>1, <3>4, <3>11, ConcatProperties DEF Appended
      <4> QED  BY <4>1, <3>1, <3>4
    <3>8. Types' /\ Offered'
      BY <1>1, <1>2, <2>3, <3>3, <3>7 DEF Types, Offered, server
    <3>9. NoStrandedRequest'
      <4>1. CASE sent < size
        <5>1. short' = TRUE
          <6>1. 0 < sent
            BY <3>1
          <6> QED  BY <6>1, <2>1, <4>1, Zenon
        <5> QED  BY <5>1 DEF NoStrandedRequest
      <4>2. CASE ~(sent < size)
        <5>1. ~(m_SendBuffer'.mCurrentSize > 0)
          BY <3>1, <3>3, <1>1, <4>2
        <5> QED  BY <5>1 DEF NoStrandedRequest
      <4> QED  BY <4>1, <4>2
    <3> QED  BY <3>6, <3>8, <3>9 DEF Inv, Packets
  <2> QED  BY <2>4, <2>5
<1> QED  BY <1>4, <1>5

(* RecvCompletion: the bytes of the window become stored bytes.            *)
LEMMA ReceivedKeeps ==
  ASSUME Inv, NEW n \in 0 .. MaxWire, Received(n)
  PROVE  Inv'
<1>1. /\ Packets /\ Types /\ Offered /\ NoStrandedRequest /\ serving = "recv"
      /\ RingGood(m_SendBuffer) /\ RecvGood(mRecvBuffer)
      /\ wire \in Seq(Byte) /\ undispatched \in Seq(Packet)
      /\ Len(wire) \in Nat /\ MaxWire \in Nat /\ granted \in Nat
  BY Capacities, LenProperties DEF Inv, Packets, Types, Received
<1>2. UNCHANGED <<client, granted, undispatched, last>>
  BY DEF Received
<1>3. NoStrandedRequest'
  BY <1>1, <1>2 DEF NoStrandedRequest, client
<1>4. CASE n = 0
  <2>1. serving' = "closed" /\ UNCHANGED <<mRecvBuffer, wire>>
    BY <1>4 DEF Received
  <2>2. Packets'
    BY <1>1, <1>2, <2>1, SameBytes DEF client
  <2>3. Types' /\ Offered'
    BY <1>1, <1>2, <2>1 DEF Types, Offered, client
  <2> QED  BY <1>3, <2>2, <2>3 DEF Inv, Packets
<1>5. CASE n # 0
  <2>1. /\ serving' = "reading"
        /\ mRecvBuffer' = Recv!Store(mRecvBuffer, SubSeq(wire, 1, n))
        /\ wire' = SubSeq(wire, n + 1, Len(wire))
    BY <1>5 DEF Received
  <2>2. n <= granted /\ n <= Len(wire) /\ n \in Nat
    <3>1. n <= Min({granted, Len(wire)})
      BY DEF Received
    <3>2. Min({granted, Len(wire)}) = IF granted <= Len(wire) THEN granted ELSE Len(wire)
      BY <1>1 DEF Min
    <3> QED  BY <3>1, <3>2, <1>1
  <2> DEFINE x == SubSeq(wire, 1, n)   y == SubSeq(wire, n + 1, Len(wire))
  <2>3. /\ x \in Seq(Byte) /\ Len(x) = n /\ y \in Seq(Byte) /\ Len(y) = Len(wire) - n
        /\ Appended(wire, x, y) /\ wire' = y
    BY <1>1, <2>1, <2>2, Halves DEF Appended
  <2>4. Len(x) <= Recv!FreeOfChosen(mRecvBuffer)
    BY <1>1, <2>2, <2>3 DEF Offered
  <2>5. /\ RecvGood(mRecvBuffer')
        /\ Appended(Recv!Content(mRecvBuffer'), Recv!Content(mRecvBuffer), x)
    BY <1>1, <2>1, <2>3, <2>4, RecvStore DEF Appended
  <2> HIDE DEF x, y
  <2>6. Stream(mRecvBuffer', wire', m_SendBuffer) = Stream(mRecvBuffer, wire, m_SendBuffer)
    BY <1>1, <2>3, <2>5, StreamReceive
  <2>7. Packets'
    BY <2>6, <1>1, <1>2 DEF Packets, client
  <2>8. Len(wire') <= MaxWire /\ wire' \in Seq(Byte)
    BY <2>3, <1>1, <2>2 DEF Types
  <2>9. Types' /\ Offered'
    BY <1>1, <1>2, <2>1, <2>3, <2>5, <2>8 DEF Types, Offered, client
  <2> QED  BY <1>3, <2>7, <2>9 DEF Inv, Packets
<1> QED  BY <1>4, <1>5

(* OnRead hands over the oldest packet.                                    *)
LEMMA OnReadKeeps ==
  ASSUME Inv, OnRead
  PROVE  Inv' /\ Channel!Dispatch
<1>1. /\ Packets /\ Types /\ Offered /\ NoStrandedRequest /\ serving = "reading"
      /\ RingGood(m_SendBuffer) /\ RecvGood(mRecvBuffer)
      /\ wire \in Seq(Byte) /\ undispatched \in Seq(Packet) /\ Complete(mRecvBuffer)
  BY DEF Inv, Packets, Types, OnRead
<1>2. /\ last' = Recv!FirstBytes(mRecvBuffer, PacketLength(mRecvBuffer))
      /\ mRecvBuffer' = Recv!Read(mRecvBuffer, PacketLength(mRecvBuffer))
      /\ undispatched' = Tail(undispatched)
      /\ UNCHANGED <<client, wire, serving, granted>>
  BY DEF OnRead
<1>3. /\ undispatched # <<>>
      /\ Recv!FirstBytes(mRecvBuffer, PacketLength(mRecvBuffer)) = Head(undispatched)
      /\ RecvGood(Recv!Read(mRecvBuffer, PacketLength(mRecvBuffer)))
      /\ Framed(Stream(Recv!Read(mRecvBuffer, PacketLength(mRecvBuffer)), wire, m_SendBuffer),
                Tail(undispatched))
  BY <1>1, CompletePacket DEF Packets
<1>4. Packets'
  BY <1>2, <1>3 DEF Packets, client
<1>5. undispatched' \in Seq(Packet)
  BY <1>1, <1>2, <1>3, HeadTailProperties
<1>6. Types' /\ Offered' /\ NoStrandedRequest'
  BY <1>1, <1>2, <1>3, <1>5 DEF Types, Offered, NoStrandedRequest, client
<1>7. Channel!Dispatch
  BY <1>1, <1>2, <1>3 DEF Channel!Dispatch
<1> QED  BY <1>4, <1>6, <1>7 DEF Inv, Packets

(* PostRecv opens a window, which an incomplete packet leaves room for.    *)
LEMMA PostRecvKeeps ==
  ASSUME Inv, PostRecv
  PROVE  Inv'
<1>1. /\ Packets /\ Types /\ NoStrandedRequest
      /\ RingGood(m_SendBuffer) /\ RecvGood(mRecvBuffer)
      /\ wire \in Seq(Byte) /\ undispatched \in Seq(Packet) /\ ~Complete(mRecvBuffer)
  BY DEF Inv, Packets, Types, PostRecv
<1>2. /\ serving' = "recv"
      /\ mRecvBuffer' = Recv!ChooseRegion(mRecvBuffer)
      /\ granted' = Recv!GetFreeSpaceSize(mRecvBuffer)
      /\ UNCHANGED <<client, wire, undispatched, last>>
  BY DEF PostRecv
<1>3. /\ RecvGood(mRecvBuffer')
      /\ Recv!Content(mRecvBuffer') = Recv!Content(mRecvBuffer)
      /\ Recv!FreeOfChosen(mRecvBuffer') \in 0 .. ServerCapacity
      /\ granted' = Recv!FreeOfChosen(mRecvBuffer')
  BY <1>1, <1>2, RecvChoose
<1>4. granted' > 0
  BY <1>1, <1>2, OpenWindow DEF Packets
<1>5. Packets'
  BY <1>1, <1>2, <1>3 DEF Packets, Stream, client
<1>6. Types' /\ Offered' /\ NoStrandedRequest'
  BY <1>1, <1>2, <1>3, <1>4 DEF Types, Offered, NoStrandedRequest, client
<1> QED  BY <1>5, <1>6 DEF Inv, Packets

(* The end of a session loses what is under way.                           *)
LEMMA SessionClosesKeeps ==
  ASSUME Inv, SessionCloses
  PROVE  Inv'
<1>1. Packets /\ Types /\ NoStrandedRequest
  BY DEF Inv, Packets
<1>2. Packets'
  BY <1>1, SameBytes DEF SessionCloses, client
<1>3. Types' /\ Offered' /\ NoStrandedRequest'
  BY <1>1 DEF Types, Offered, NoStrandedRequest, SessionCloses, client
<1> QED  BY <1>2, <1>3 DEF Inv, Packets

(* Every step keeps the invariant and is a step of the channel.            *)
LEMMA StepInv == Inv /\ [Next]_vars => Inv' /\ [Channel!Next]_(Channel!vars)
<1> SUFFICES ASSUME Inv, [Next]_vars PROVE Inv' /\ [Channel!Next]_(Channel!vars)
  OBVIOUS
<1> USE DEF Channel!vars
<1>1. CASE Connected \/ NagleOff \/ SystemPostsWrite \/ ClientCloses
  <2>1. UNCHANGED <<undispatched, last, serving>>
    BY <1>1 DEF Connected, NagleOff, SystemPostsWrite, ClientCloses, server
  <2> QED  BY <1>1, <2>1, LinkKeeps
<1>2. CASE \E p \in Packet : Write(p)
  <2>1. PICK p \in Packet : Write(p)
    BY <1>2
  <2>2. Channel!Accept(p) \/ UNCHANGED <<undispatched, last, serving>>
    BY <2>1 DEF Write, Channel!Accept, server
  <2> QED  BY <2>1, <2>2, WriteKeeps DEF Channel!Next
<1>3. CASE Send
  <2>1. UNCHANGED <<undispatched, last, serving>>
    BY <1>3 DEF Send, server
  <2> QED  BY <1>3, <2>1, SendKeeps
<1>4. CASE \E n \in 0 .. MaxWire : Received(n)
  <2>1. PICK n \in 0 .. MaxWire : Received(n)
    BY <1>4
  <2>2. Channel!Close \/ UNCHANGED <<undispatched, last, serving # "closed">>
    BY <2>1 DEF Received, Channel!Close
  <2> QED  BY <2>1, <2>2, ReceivedKeeps DEF Channel!Next
<1>5. CASE OnRead
  BY <1>5, OnReadKeeps DEF Channel!Next
<1>6. CASE PostRecv
  <2>1. UNCHANGED <<undispatched, last, serving # "closed">>
    BY <1>6 DEF PostRecv
  <2> QED  BY <1>6, <2>1, PostRecvKeeps
<1>7. CASE SessionCloses
  <2>1. Channel!Close
    BY <1>7 DEF SessionCloses, Channel!Close
  <2> QED  BY <1>7, <2>1, SessionClosesKeeps DEF Channel!Next
<1>8. CASE UNCHANGED vars
  <2>0. Packets /\ UNCHANGED <<mRecvBuffer, wire, m_SendBuffer, undispatched>>
    BY <1>8 DEF Inv, Packets, vars, client, server
  <2>1. Packets' /\ Types' /\ Offered' /\ NoStrandedRequest'
    <3>1. Packets'
      BY <2>0, SameBytes
    <3>2. Types'
      BY <1>8 DEF Inv, Types, vars, client, server
    <3>3. Offered' /\ NoStrandedRequest'
      BY <1>8 DEF Inv, Offered, NoStrandedRequest, vars, client, server
    <3> QED  BY <3>1, <3>2, <3>3
  <2>2. UNCHANGED <<undispatched, last, serving>>
    BY <1>8 DEF vars, server
  <2>3. Inv'
    BY <2>1 DEF Inv, Packets
  <2> QED  BY <2>2, <2>3
<1> QED  BY <1>1, <1>2, <1>3, <1>4, <1>5, <1>6, <1>7, <1>8 DEF Next, ClientStep, SessionStep

(* The invariant says what the properties say.                             *)
LEMMA InvImplies == Inv => TypeOK /\ NoStrandedRequest /\ WindowOpen
<1>1. ASSUME RingGood(m_SendBuffer) PROVE m_SendBuffer \in Ring!DDCircularBufferType
  BY <1>1 DEF RingGood
<1>2. ASSUME RecvGood(mRecvBuffer) PROVE mRecvBuffer \in Recv!CircularBufferType
  BY <1>2 DEF RecvGood, RecvProofs!Good, RecvProofs!Shaped, RecvProofs!CircularBufferType,
     Recv!CircularBufferType, RecvProofs!Address, Recv!Address, RecvProofs!NullPtr, Recv!NullPtr
<1> QED  BY <1>1, <1>2 DEF Inv, Types, Offered, TypeOK, WindowOpen

-----------------------------------------------------------------------------
(* No request stays in the ring without an FD_WRITE that will send it,     *)
(* except after a send that took a part of it, and OnRead never posts a    *)
(* receive without a window.                                               *)
THEOREM RequestSafety == Spec => [](TypeOK /\ NoStrandedRequest /\ WindowOpen)
<1>1. Inv /\ [Next]_vars => Inv'
  BY StepInv
<1> QED  BY InitInv, InvImplies, <1>1, PTL DEF Spec

(* Every request Write accepts reaches its handler whole, once and in      *)
(* order: the two buffers, the stream between them and OnRead's framing    *)
(* are a channel of packets.                                               *)
THEOREM Implementation == Spec => ImplementsPacketChannel
BY InitInv, StepInv, PTL DEF Spec, ImplementsPacketChannel, Channel!Spec

-----------------------------------------------------------------------------
(* The way of a result.                                                    *)

(* Induction over the numbers, for a set.                                  *)
LEMMA NatInduct ==
  ASSUME NEW A, 0 \in A, \A k \in Nat : k \in A => k + 1 \in A
  PROVE  \A k \in Nat : k \in A
<1> DEFINE Missing == Nat \ A
           Less == OpToRel(<, Nat)
<1>1. SUFFICES ASSUME Missing # {} PROVE FALSE
  OBVIOUS
<1>2. IsWellFoundedOn(Less, Nat)
  BY NatLessThanWellFounded
<1>3. \A x, y \in Nat : x < y => <<x, y>> \in Less
  BY DEF OpToRel
<1>4. Missing \subseteq Nat
  OBVIOUS
<1> HIDE DEF Less, Missing
<1>5. PICK least \in Missing : \A y \in Missing : ~(<<y, least>> \in Less)
  <2>1. PICK any \in Missing : TRUE
    BY <1>1
  <2>2. QED
    BY <1>2, <1>4, <2>1, WFMin
<1>6. least \in Nat /\ least \notin A
  BY DEF Missing
<1>7. least # 0
  BY <1>6
<1>8. least - 1 \in Nat /\ least - 1 < least
  BY <1>6, <1>7
<1>9. least - 1 \notin Missing
  BY <1>3, <1>5, <1>6, <1>8
<1>10. least - 1 \in A
  BY <1>8, <1>9 DEF Missing
<1>11. (least - 1) + 1 \in A
  BY <1>8, <1>10
<1> QED  BY <1>6, <1>11

(* There is a longest packet.                                              *)
LEMMA LongestPacket ==
  ASSUME NEW p \in Packet
  PROVE  MaxPacket \in Nat /\ Len(p) <= MaxPacket
<1> DEFINE S == {Len(q) : q \in Packet}
           c == ClientCapacity
<1>1. S \subseteq 0 .. c /\ c \in Nat /\ Len(p) \in S
  BY PacketAssumption, LenProperties
<1> HIDE DEF S, c
<1>2. \E x \in S : \A y \in S : x >= y
  <2> DEFINE Above == {k \in Nat : (\E x \in S : x >= c - k) => \E x \in S : \A y \in S : x >= y}
  <2>1. 0 \in Above
    <3>1. \A x \in S : x >= c - 0 => \A y \in S : x >= y
      BY ONLY <1>1
    <3> QED  BY ONLY <3>1
  <2>2. ASSUME NEW k \in Nat, k \in Above PROVE k + 1 \in Above
    <3>1. SUFFICES ASSUME NEW x \in S, x >= c - (k + 1)
                   PROVE  \E z \in S : \A y \in S : z >= y
      OBVIOUS
    <3>2. CASE \E z \in S : z >= c - k
      BY ONLY <2>2, <3>2
    <3>3. CASE ~ \E z \in S : z >= c - k
      <4>1. \A y \in S : y < c - k /\ x >= y
        BY ONLY <1>1, <3>1, <3>3, k \in Nat
      <4> QED  BY ONLY <3>1, <4>1
    <3> QED  BY <3>2, <3>3
  <2> HIDE DEF Above
  <2>3. c \in Above
    BY ONLY <1>1, <2>1, <2>2, NatInduct
  <2>4. \E x \in S : x >= c - c
    BY ONLY <1>1
  <2> QED  BY ONLY <2>3, <2>4 DEF Above
<1>3. Max(S) \in S /\ \A y \in S : Max(S) >= y
  BY ONLY <1>2 DEF Max
<1>4. MaxPacket = Max(S)
  BY DEF MaxPacket, S
<1> DEFINE longest == Max(S)   l == Len(p)
<1>5. longest \in S /\ (\A y \in S : longest >= y) /\ MaxPacket = longest /\ l \in S
  BY <1>1, <1>3, <1>4
<1> HIDE DEF longest, l
<1>6. longest \in Nat /\ l <= longest
  BY ONLY <1>1, <1>5
<1> QED  BY <1>5, <1>6 DEF l

(* The first bytes of the ring are those of its content.                   *)
LEMMA RingFirst ==
  ASSUME NEW r, RingGood(r), NEW n \in Nat, n <= r.mCurrentSize
  PROVE  Ring!FirstBytes(r, n) = SubSeq(Ring!Content(r), 1, n)
<1> DEFINE c == Ring!Content(r)   s == r.mCurrentSize
           f == [i \in 1 .. n |-> r.mData[(r.mBeginIndex + i - 1) % ClientCapacity]]
<1>1. /\ s \in Nat /\ c \in Seq(Byte) /\ Len(c) = s
      /\ \A i \in 1 .. s : c[i] = r.mData[(r.mBeginIndex + i - 1) % ClientCapacity]
  BY RingContent
<1>2. Ring!FirstBytes(r, n) = f
  BY DEF Ring!FirstBytes
<1>5. n <= s
  OBVIOUS
<1> HIDE DEF c, s
<1>3. f = [i \in 1 .. n |-> c[i]]
  BY ONLY <1>1, <1>5, n \in Nat
<1>4. SubSeq(c, 1, n) = [i \in 1 .. n |-> c[i]]
  BY ONLY <1>1, <1>5, n \in Nat
<1> QED  BY ONLY <1>2, <1>3, <1>4 DEF c

(* All bytes that are between the server and the handlers.                 *)
Arriving(ring, bytes) == Ring!Content(ring) \o bytes

(* What arrives is a sequence of bytes.                                    *)
LEMMA ArrivingSeq ==
  ASSUME NEW r, RingGood(r), NEW w \in Seq(Byte)
  PROVE  /\ Ring!Content(r) \in Seq(Byte) /\ Len(Ring!Content(r)) = r.mCurrentSize
         /\ r.mCurrentSize \in Nat /\ Len(w) \in Nat
         /\ Arriving(r, w) \in Seq(Byte) /\ Len(Arriving(r, w)) = r.mCurrentSize + Len(w)
<1>1. /\ Ring!Content(r) \in Seq(Byte) /\ Len(Ring!Content(r)) = r.mCurrentSize
      /\ r.mCurrentSize \in Nat
  BY RingContent
<1>2. Len(w) \in Nat
  BY LenProperties
<1> QED  BY <1>1, <1>2, ConcatProperties DEF Arriving

(* A header that is there tells the length of the oldest packet.           *)
LEMMA HeadResult ==
  ASSUME NEW r, RingGood(r), NEW w \in Seq(Byte), NEW u \in Seq(Packet),
         Framed(Arriving(r, w), u), r.mCurrentSize >= 2
  PROVE  u # <<>> /\ ResultLength(r) = Len(u[1]) /\ u[1] \in Packet
<1> DEFINE c == Ring!Content(r)   t == Arriving(r, w)   m == r.mCurrentSize
           x == SubSeq(c, 1, 2)
<1>1. /\ c \in Seq(Byte) /\ Len(c) = m /\ m \in Nat /\ Len(w) \in Nat
      /\ t \in Seq(Byte) /\ Len(t) = m + Len(w)
  BY ArrivingSeq
<1>2. t = c \o w
  BY DEF Arriving
<1>3. ResultLength(r) = x[1]
  <2>1. Ring!FirstBytes(r, 2) = x
    BY RingFirst
  <2> QED  BY <2>1 DEF ResultLength, SizeOf
<1>4. m >= 2 /\ Framed(t, u)
  OBVIOUS
<1> HIDE DEF c, t, m, x
<1>5. x[1] = c[1]
  BY ONLY <1>1, <1>4 DEF x
<1>6. t[1] = c[1]
  <2>1. \A i \in 1 .. Len(c) + Len(w) : (c \o w)[i] = IF i <= Len(c) THEN c[i] ELSE w[i - Len(c)]
    BY <1>1, ConcatProperties
  <2>2. 1 \in 1 .. Len(c) + Len(w) /\ 1 <= Len(c)
    BY <1>1, <1>4
  <2> QED  BY <2>1, <2>2, <1>2
<1>7. u # <<>>
  <2>1. Len(t) # 0
    BY <1>1, <1>4
  <2> QED  BY <2>1, <1>1, <1>4, FramedNone
<1>8. t[1] = Len(u[1]) /\ u[1] \in Packet
  BY <1>1, <1>4, <1>7, FramedHead
<1> QED  BY ONLY <1>3, <1>5, <1>6, <1>7, <1>8

(* The handler gets the oldest packet, and the stream goes on behind it.   *)
LEMMA CompleteResult ==
  ASSUME NEW r, RingGood(r), NEW w \in Seq(Byte), NEW u \in Seq(Packet),
         Framed(Arriving(r, w), u), ResultComplete(r)
  PROVE  /\ u # <<>> /\ Ring!FirstBytes(r, ResultLength(r)) = Head(u)
         /\ RingGood(GetPacketData(r))
         /\ Framed(Arriving(GetPacketData(r), w), Tail(u))
<1> DEFINE c == Ring!Content(r)   t == Arriving(r, w)   m == r.mCurrentSize
           h == ResultLength(r)   d == GetPacketData(r)
<1>1. /\ c \in Seq(Byte) /\ Len(c) = m /\ m \in Nat /\ Len(w) \in Nat
      /\ t \in Seq(Byte) /\ Len(t) = m + Len(w) /\ t = c \o w
  BY ArrivingSeq DEF Arriving
<1>2. m >= 2 /\ h <= m
  <2>1. 2 <= m /\ h <= m
    BY DEF ResultComplete, Ring!CanRead
  <2> HIDE DEF m
  <2> QED  BY <2>1, <1>1
<1>3. u # <<>> /\ h = Len(u[1]) /\ u[1] \in Packet
  BY <1>2, HeadResult
<1>4. h \in Nat /\ h >= 2
  BY <1>3, Capacities
<1>5. Ring!FirstBytes(r, h) = SubSeq(c, 1, h)
  BY <1>2, <1>4, RingFirst
<1>6. RingGood(d) /\ Ring!Content(d) = SubSeq(c, h + 1, m)
  <2>1. d = Ring!Consume(r, h)
    BY DEF GetPacketData, Ring!Read
  <2> QED  BY <2>1, <1>2, <1>4, RingConsume
<1>7. Framed(t, u) /\ Arriving(d, w) = Ring!Content(d) \o w
  BY DEF Arriving
<1> HIDE DEF c, t, m, h, d
<1>8. /\ Head(u) = u[1] /\ SubSeq(t, 1, h) = u[1]
      /\ Framed(SubSeq(t, h + 1, Len(t)), Tail(u))
  BY <1>1, <1>3, <1>7, FramedHead
<1>9. SubSeq(c \o w, 1, h) = SubSeq(c, 1, h)
  <2>1. 1 \in 1 .. Len(c) /\ h \in 1 .. Len(c)
    BY <1>1, <1>2, <1>4
  <2> QED  BY <2>1, <1>1, SubSeqOfConcat1
<1>10. SubSeq(c \o w, h + 1, Len(c) + Len(w)) = SubSeq(c, h + 1, Len(c)) \o w
  <2>1. h <= Len(c)
    BY <1>1, <1>2
  <2> QED  BY <2>1, <1>1, <1>4, RecvProofs!SuffixOfConcat, Capacities
<1>11. SubSeq(t, h + 1, Len(t)) = Arriving(d, w)
  BY ONLY <1>1, <1>6, <1>7, <1>10
<1>12. Ring!FirstBytes(r, h) = Head(u)
  BY ONLY <1>1, <1>5, <1>8, <1>9
<1> QED  BY <1>3, <1>6, <1>8, <1>11, <1>12 DEF h, d

(* A ring without a complete packet has less than a packet in it.          *)
LEMMA LessThanPacket ==
  ASSUME NEW r, RingGood(r), NEW w \in Seq(Byte), NEW u \in Seq(Packet),
         Framed(Arriving(r, w), u), ~ResultComplete(r), r.mCurrentSize # 0
  PROVE  r.mCurrentSize + 1 <= MaxPacket /\ MaxPacket \in Nat
<1> DEFINE m == r.mCurrentSize   t == Arriving(r, w)   l == Len(u[1])
<1>1. m \in Nat /\ Len(w) \in Nat /\ t \in Seq(Byte) /\ Len(t) = m + Len(w)
  BY ArrivingSeq
<1>2. m # 0 /\ Framed(t, u)
  OBVIOUS
<1>3. u # <<>> /\ u[1] \in Packet
  <2> HIDE DEF m, t
  <2>1. Len(t) # 0
    BY ONLY <1>1, <1>2
  <2> QED  BY <2>1, <1>1, <1>2, FramedNone, FramedHead
<1>4. l \in Nat /\ l >= 2 /\ l <= MaxPacket /\ MaxPacket \in Nat
  BY <1>3, Capacities, LongestPacket
<1>5. m + 1 <= l
  <2>1. CASE m >= 2
    <3>1. ResultLength(r) = l
      BY <2>1, HeadResult
    <3>2. ~(l <= m)
      BY <3>1, <2>1, <1>1 DEF ResultComplete, Ring!CanRead
    <3> HIDE DEF m, l
    <3> QED  BY ONLY <3>2, <1>1, <1>4
  <2>2. CASE ~(m >= 2)
    <3> HIDE DEF m, l
    <3> QED  BY ONLY <2>2, <1>1, <1>4
  <2> QED  BY <2>1, <2>2
<1> HIDE DEF m, l
<1>6. m + 1 <= MaxPacket
  BY ONLY <1>1, <1>4, <1>5
<1> QED  BY <1>4, <1>6 DEF m

(* The invariant: what is on its way are the packets no handler has got,   *)
(* until bytes were thrown away, and no complete packet is left in the     *)
(* ring by ProcessPacket, nor by a Read that stored nothing.               *)
ResultInv ==
  /\ open \in BOOLEAN /\ processing \in BOOLEAN /\ overrun \in BOOLEAN
  /\ wire \in Seq(Byte) /\ Len(wire) <= MaxWire
  /\ RingGood(m_RecvBuffer) /\ undispatched \in Seq(Packet)
  /\ last \in Packet \cup {NoPacket}
  /\ ~overrun => Framed(Arriving(m_RecvBuffer, wire), undispatched)
  /\ ~processing => ~ResultComplete(m_RecvBuffer)

(* At the start no result is under way.                                    *)
LEMMA ResultInitInv == ResultInit => ResultInv /\ ResultChannel!Init
<1> SUFFICES ASSUME ResultInit PROVE ResultInv /\ ResultChannel!Init
  OBVIOUS
<1>1. /\ open = TRUE /\ wire = <<>> /\ m_RecvBuffer = Ring!NewRing /\ processing = FALSE
      /\ overrun = FALSE /\ undispatched = <<>> /\ last = NoPacket
  BY DEF ResultInit
<1>2. RingGood(m_RecvBuffer) /\ m_RecvBuffer.mCurrentSize = 0
  BY <1>1, RingNew
<1>3. wire \in Seq(Byte) /\ Len(wire) = 0 /\ undispatched \in Seq(Packet)
  BY ONLY <1>1
<1>4. Len(wire) <= MaxWire
  BY <1>3, Capacities
<1>5. Arriving(m_RecvBuffer, wire) = <<>>
  <2>1. Arriving(m_RecvBuffer, wire) \in Seq(Byte) /\ Len(Arriving(m_RecvBuffer, wire)) = 0 + 0
    BY <1>2, <1>3, ArrivingSeq
  <2> QED  BY <2>1, EmptySeq
<1>6. Framed(Arriving(m_RecvBuffer, wire), undispatched)
  BY <1>1, <1>5, FramedEmpty
<1>7. ~ResultComplete(m_RecvBuffer)
  BY <1>2 DEF ResultComplete, Ring!CanRead
<1>8. ResultInv
  BY <1>1, <1>2, <1>3, <1>4, <1>6, <1>7 DEF ResultInv
<1>9. ResultChannel!Init
  BY <1>1 DEF ResultChannel!Init
<1> QED  BY <1>8, <1>9

(* The server sends whole packets.                                         *)
LEMMA ServerSendsKeeps ==
  ASSUME ResultInv, NEW p \in Packet, ServerSends(p), ~overrun
  PROVE  ResultInv' /\ ResultChannel!Accept(p)
<1>1. /\ wire \in Seq(Byte) /\ RingGood(m_RecvBuffer) /\ undispatched \in Seq(Packet)
      /\ Framed(Arriving(m_RecvBuffer, wire), undispatched)
  BY DEF ResultInv
<1>2. /\ Len(wire) + Len(p) <= MaxWire
      /\ wire' = wire \o p /\ undispatched' = Append(undispatched, p)
      /\ open' = open /\ m_RecvBuffer' = m_RecvBuffer /\ processing' = processing
      /\ overrun' = overrun /\ last' = last
  BY DEF ServerSends
<1>3. p \in Seq(Byte)
  BY Capacities
<1>4. wire' \in Seq(Byte) /\ Len(wire') <= MaxWire
  <2>1. wire \o p \in Seq(Byte) /\ Len(wire \o p) = Len(wire) + Len(p)
    BY ONLY <1>1, <1>3, ConcatProperties
  <2> QED  BY ONLY <1>2, <2>1
<1>5. Framed(Arriving(m_RecvBuffer, wire'), undispatched')
  <2> DEFINE c == Ring!Content(m_RecvBuffer)
  <2>1. c \in Seq(Byte) /\ c \o wire \in Seq(Byte)
    BY <1>1, ArrivingSeq DEF Arriving
  <2>2. Framed(c \o wire, undispatched)
    BY <1>1 DEF Arriving
  <2> HIDE DEF c
  <2>3. Framed((c \o wire) \o p, Append(undispatched, p))
    BY <1>1, <2>1, <2>2, FramedAppend
  <2>4. (c \o wire) \o p = c \o (wire \o p)
    BY <1>1, <1>3, <2>1, Associative
  <2>5. Framed(c \o wire', undispatched')
    BY ONLY <1>2, <2>3, <2>4
  <2> QED  BY <2>5 DEF Arriving, c
<1>6. undispatched' \in Seq(Packet)
  BY <1>1, <1>2, AppendProperties
<1>7. ResultInv'
  BY <1>2, <1>4, <1>5, <1>6 DEF ResultInv
<1>8. ResultChannel!Accept(p)
  BY <1>2 DEF ResultChannel!Accept
<1> QED  BY <1>7, <1>8

(* What Read does, by what recv returned: nothing, bytes there is room     *)
(* for, and bytes there is none for.                                       *)
LEMMA ReadKeeps ==
  ASSUME ResultInv, NEW n \in RecvLen, Read(n), open, ~overrun
  PROVE  /\ ResultInv'
         /\ ResultChannel!Close \/ UNCHANGED <<undispatched, last, open /\ ~overrun>>
         /\ overrun' => Len(wire) > ClientCapacity - MaxPacket + 1
<1> DEFINE r == m_RecvBuffer   s == m_RecvBuffer.mCurrentSize   C == ClientCapacity
<1>1. /\ wire \in Seq(Byte) /\ Len(wire) <= MaxWire /\ RingGood(r)
      /\ undispatched \in Seq(Packet) /\ last \in Packet \cup {NoPacket}
      /\ Framed(Arriving(r, wire), undispatched)
      /\ ~processing /\ ~ResultComplete(r) /\ overrun = FALSE /\ open = TRUE
  BY DEF ResultInv, Read
<1>2. /\ wire' = IF n < 0 THEN wire ELSE SubSeq(wire, n + 1, Len(wire))
      /\ processing' = Ring!CanWrite(r, Ring!SizeT(n))
      /\ overrun' = (overrun \/ (n > 0 /\ ~Ring!CanWrite(r, Ring!SizeT(n))))
      /\ r' = IF Ring!CanWrite(r, Ring!SizeT(n)) THEN Ring!Write(r, SubSeq(wire, 1, n)) ELSE r
      /\ open' = open /\ undispatched' = undispatched /\ last' = last
  BY DEF Read
<1>3. C \in Nat \ {0} /\ s \in 0 .. C /\ Len(wire) \in Nat /\ MaxWire \in Nat
  BY <1>1, Capacities, RingContent, LenProperties
<1>7. \A k : Ring!CanWrite(r, k) \in BOOLEAN
  BY DEF Ring!CanWrite
<1>4. n = -1 \/ (n \in 1 .. Len(wire) /\ n <= C)
  BY DEF RecvLen
<1>5. CASE n = -1
  <2>1. Ring!SizeT(n) = C + 1 /\ n < 0 /\ ~(n > 0)
    BY <1>5 DEF Ring!SizeT
  <2>2. ~Ring!CanWrite(r, Ring!SizeT(n))
    BY <2>1, <1>3 DEF Ring!CanWrite, Ring!Room
  <2>3. wire' = wire /\ r' = r /\ processing' = FALSE /\ overrun' = FALSE
    <3>1. wire' = wire
      BY ONLY <1>2, <2>1
    <3>2. r' = r /\ processing' = FALSE
      BY <1>2, <1>7, <2>2, Zenon
    <3>3. overrun' = FALSE
      BY <1>1, <1>2, <2>1, Zenon
    <3> QED  BY <3>1, <3>2, <3>3
  <2> HIDE DEF r, s, C
  <2>4. ResultInv'
    BY <1>1, <1>2, <2>3 DEF ResultInv, r
  <2> QED  BY <1>1, <1>2, <2>3, <2>4
<1>6. CASE n # -1
  <2> DEFINE x == SubSeq(wire, 1, n)   y == SubSeq(wire, n + 1, Len(wire))
  <2>1. n \in Nat /\ n # 0 /\ n <= Len(wire) /\ n <= C /\ ~(n < 0) /\ n > 0
    BY ONLY <1>3, <1>4, <1>6
  <2>2. Ring!SizeT(n) = n
    BY <2>1 DEF Ring!SizeT
  <2>3. /\ x \in Seq(Byte) /\ Len(x) = n /\ y \in Seq(Byte) /\ Len(y) = Len(wire) - n
        /\ x \o y = wire
    BY <1>1, <2>1, Halves
  <2>4. wire' = y
    BY <1>2, <2>1
  <2>5. wire' \in Seq(Byte) /\ Len(wire') <= MaxWire
    <3> HIDE DEF x, y
    <3> QED  BY ONLY <1>1, <1>3, <2>1, <2>3, <2>4
  <2>6. CASE Ring!CanWrite(r, n)
    <3>1. processing' = TRUE /\ overrun' = FALSE /\ r' = Ring!Write(r, x)
      BY <1>1, <1>2, <2>2, <2>6
    <3> HIDE DEF x, y
    <3>2. RingGood(r') /\ Ring!Content(r') = Ring!Content(r) \o x
      BY <1>1, <2>3, <2>6, <3>1, RingWrite
    <3>3. Arriving(r', wire') = Arriving(r, wire)
      <4>1. Ring!Content(r) \in Seq(Byte)
        BY <1>1, ArrivingSeq
      <4>2. Ring!Content(r) \o (x \o y) = (Ring!Content(r) \o x) \o y
        BY <2>3, <4>1, Associative
      <4> QED  BY <2>3, <2>4, <3>2, <4>2 DEF Arriving
    <3>4. Framed(Arriving(r', wire'), undispatched')
      BY <1>1, <1>2, <3>3
    <3> HIDE DEF s, C
    <3>5. ResultInv'
      BY <1>1, <1>2, <2>5, <3>1, <3>2, <3>4 DEF ResultInv
    <3> QED  BY <1>1, <1>2, <3>1, <3>5
  <2>7. CASE ~Ring!CanWrite(r, n)
    <3>1. processing' = FALSE /\ overrun' = TRUE /\ r' = r
      <4>1. ~Ring!CanWrite(r, Ring!SizeT(n)) /\ n > 0
        BY <2>1, <2>2, <2>7
      <4>2. r' = r /\ processing' = FALSE
        BY <1>2, <1>7, <4>1, Zenon
      <4>3. overrun' = TRUE
        BY <1>2, <4>1, Zenon
      <4> QED  BY <4>2, <4>3
    <3>2. ~(n <= C - s)
      BY <2>1, <2>7 DEF Ring!CanWrite, Ring!Room
    <3>3. s # 0
      <4> HIDE DEF C, s
      <4> QED  BY ONLY <1>3, <2>1, <3>2
    <3>4. s + 1 <= MaxPacket /\ MaxPacket \in Nat
      BY <1>1, <3>3, LessThanPacket
    <3>5. Len(wire) > C - MaxPacket + 1
      <4> HIDE DEF C, s
      <4> QED  BY ONLY <1>3, <2>1, <3>2, <3>4
    <3> HIDE DEF x, y, s, C
    <3>6. ResultInv'
      BY <1>1, <1>2, <2>5, <3>1 DEF ResultInv
    <3>7. ResultChannel!Close
      BY <1>1, <1>2, <3>1 DEF ResultChannel!Close
    <3> QED  BY <3>5, <3>6, <3>7 DEF C
  <2> QED  BY <2>6, <2>7
<1> QED  BY <1>5, <1>6

(* A packet is handled when all of it is there.                            *)
LEMMA HandlePacketKeeps ==
  ASSUME ResultInv, HandlePacket, open, ~overrun
  PROVE  ResultInv' /\ ResultChannel!Dispatch
<1>1. /\ wire \in Seq(Byte) /\ RingGood(m_RecvBuffer) /\ undispatched \in Seq(Packet)
      /\ Framed(Arriving(m_RecvBuffer, wire), undispatched) /\ ResultComplete(m_RecvBuffer)
  BY DEF ResultInv, HandlePacket
<1>2. /\ last' = Ring!FirstBytes(m_RecvBuffer, ResultLength(m_RecvBuffer))
      /\ m_RecvBuffer' = GetPacketData(m_RecvBuffer)
      /\ undispatched' = Tail(undispatched)
      /\ processing' = ResultComplete(GetPacketData(m_RecvBuffer))
      /\ open' = open /\ wire' = wire /\ overrun' = overrun
  BY DEF HandlePacket, MorePackets
<1>3. /\ undispatched # <<>>
      /\ Ring!FirstBytes(m_RecvBuffer, ResultLength(m_RecvBuffer)) = Head(undispatched)
      /\ RingGood(GetPacketData(m_RecvBuffer))
      /\ Framed(Arriving(GetPacketData(m_RecvBuffer), wire), Tail(undispatched))
  BY <1>1, CompleteResult
<1>4. undispatched' \in Seq(Packet) /\ Head(undispatched) \in Packet
  BY <1>1, <1>2, <1>3, HeadTailProperties
<1>5. processing' \in BOOLEAN /\ (~processing' => ~ResultComplete(m_RecvBuffer'))
  BY <1>2 DEF ResultComplete, Ring!CanRead
<1>6. ResultInv'
  BY <1>2, <1>3, <1>4, <1>5 DEF ResultInv
<1>7. ResultChannel!Dispatch
  BY <1>2, <1>3 DEF ResultChannel!Dispatch
<1> QED  BY <1>6, <1>7

(* Every step keeps the invariant, is a step of the channel, and throws    *)
(* bytes away only when so many have come.                                 *)
LEMMA ResultStepInv ==
  ResultInv /\ [ResultNext]_resultVars =>
    /\ ResultInv' /\ [ResultChannel!Next]_(ResultChannel!vars)
    /\ [overrun' /\ ~overrun => Len(wire) > ClientCapacity - MaxPacket + 1]_resultVars
<1> SUFFICES ASSUME ResultInv, [ResultNext]_resultVars
             PROVE  /\ ResultInv' /\ [ResultChannel!Next]_(ResultChannel!vars)
                    /\ overrun' /\ ~overrun => Len(wire) > ClientCapacity - MaxPacket + 1
  OBVIOUS
<1> USE DEF ResultChannel!vars
<1>1. CASE UNCHANGED resultVars
  BY <1>1 DEF resultVars, ResultInv
<1>2. CASE open /\ ~overrun /\ \E p \in Packet : ServerSends(p)
  <2>1. PICK p \in Packet : ServerSends(p)
    BY <1>2
  <2>2. ResultInv' /\ ResultChannel!Accept(p) /\ overrun' = overrun
    BY <1>2, <2>1, ServerSendsKeeps DEF ServerSends
  <2> QED  BY <2>2 DEF ResultChannel!Next
<1>3. CASE open /\ ~overrun /\ \E n \in RecvLen : Read(n)
  BY <1>3, ReadKeeps DEF ResultChannel!Next
<1>4. CASE open /\ ~overrun /\ HandlePacket
  <2>1. ResultInv' /\ ResultChannel!Dispatch /\ overrun' = overrun
    BY <1>4, HandlePacketKeeps DEF HandlePacket
  <2> QED  BY <2>1 DEF ResultChannel!Next
<1>5. CASE open /\ ~overrun /\ ProcessNothing
  <2>1. /\ ~ResultComplete(m_RecvBuffer) /\ processing' = FALSE
        /\ UNCHANGED <<open, wire, m_RecvBuffer, overrun, undispatched, last>>
    BY <1>5 DEF ProcessNothing
  <2>2. ResultInv'
    BY <2>1 DEF ResultInv
  <2> QED  BY <2>1, <2>2
<1>6. CASE open /\ ~overrun /\ ServerCloses
  <2>1. open' = FALSE
        /\ UNCHANGED <<wire, m_RecvBuffer, processing, overrun, undispatched, last>>
    BY <1>6 DEF ServerCloses
  <2>2. ResultInv'
    BY <2>1 DEF ResultInv
  <2>3. ResultChannel!Close
    BY <1>6, <2>1 DEF ResultChannel!Close
  <2> QED  BY <2>1, <2>2, <2>3 DEF ResultChannel!Next
<1> QED  BY <1>1, <1>2, <1>3, <1>4, <1>5, <1>6 DEF ResultNext

(* The invariant has the types.                                            *)
LEMMA ResultInvImplies == ResultInv => ResultTypeOK
BY DEF ResultInv, ResultTypeOK, RingGood

(* The invariant of the results holds always.                              *)
LEMMA AlwaysResultInv == ResultSpec => []ResultInv
<1>1. ResultInv /\ [ResultNext]_resultVars => ResultInv'
  BY ResultStepInv
<1> QED  BY ResultInitInv, <1>1, PTL DEF ResultSpec

(* Every result reaches its handler whole, once and in order, however recv *)
(* cuts the stream, until the ring is overrun.                             *)
THEOREM ResultsArrive == ResultSpec => ResultsImplementChannel
<1>1. ResultInv /\ [ResultNext]_resultVars => [ResultChannel!Next]_(ResultChannel!vars)
  BY ResultStepInv
<1> QED  BY ResultInitInv, AlwaysResultInv, <1>1, PTL
         DEF ResultSpec, ResultsImplementChannel, ResultChannel!Spec

(* Read throws bytes away only when more have arrived than are free beside *)
(* the longest packet: ProcessPacket left less than that in the ring.      *)
THEOREM LossOnlyBehind == ResultSpec => LossOnlyWhenBehind
<1>1. ResultInv /\ [ResultNext]_resultVars
        => [overrun' /\ ~overrun => Len(wire) > ClientCapacity - MaxPacket + 1]_resultVars
  BY ResultStepInv
<1> QED  BY AlwaysResultInv, <1>1, PTL DEF ResultSpec, LossOnlyWhenBehind
=============================================================================
