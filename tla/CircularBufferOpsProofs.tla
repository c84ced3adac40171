---------------------- MODULE CircularBufferOpsProofs ----------------------
(***************************************************************************)
(* What the functions of class CircularBuffer do to a buffer value of the  *)
(* class's layout: they keep the layout, and move bytes in at the back and *)
(* out at the front of the content, for every capacity and every set of    *)
(* byte values.                                                            *)
(***************************************************************************)
EXTENDS CircularBufferOps, SequenceTheorems, TLAPS

(* What Layout, SmallTail and OnlyWrittenBytes say, of any buffer value.   *)
Shaped(c) ==
  /\ c \in CircularBufferType
  /\ c.mARegionPointer + c.mARegionSize <= Capacity
  /\ c.mARegionSize = 0 => c.mARegionPointer = 0 /\ c.mBRegionPointer = NullPtr
  /\ c.mBRegionPointer = NullPtr => c.mBRegionSize = 0
  /\ c.mBRegionPointer # NullPtr => c.mBRegionSize <= c.mARegionPointer
  /\ c.mBRegionPointer # NullPtr => GetAFreeSpace(c) < c.mARegionPointer

Filled(c) ==
  /\ \A i \in Address :
       c.mARegionPointer <= i /\ i < c.mARegionPointer + c.mARegionSize
         => c.mBuffer[i] \in Byte
  /\ \A i \in Address : i < c.mBRegionSize => c.mBuffer[i] \in Byte

Good(c) == Shaped(c) /\ Filled(c)

USE CapacityAssumption, JunkAssumption

-----------------------------------------------------------------------------
(* The stored bytes form a sequence of bytes, at most Capacity long.       *)
LEMMA ContentIsSeq ==
  ASSUME NEW c, Good(c)
  PROVE  /\ GetStoredSize(c) \in 0 .. Capacity
         /\ Content(c) \in Seq(Byte)
         /\ Len(Content(c)) = GetStoredSize(c)
         /\ \A i \in 1 .. GetStoredSize(c) :
              Content(c)[i] = IF i <= c.mARegionSize
                THEN c.mBuffer[c.mARegionPointer + i - 1]
                ELSE c.mBuffer[c.mBRegionPointer + i - c.mARegionSize - 1]
<1> DEFINE n == GetStoredSize(c)
           e(i) == IF i <= c.mARegionSize
                   THEN c.mBuffer[c.mARegionPointer + i - 1]
                   ELSE c.mBuffer[c.mBRegionPointer + i - c.mARegionSize - 1]
<1>1. n \in 0 .. Capacity
  BY DEF Good, Shaped, CircularBufferType, GetStoredSize, NullPtr
<1>2. ASSUME NEW i \in 1 .. n PROVE e(i) \in Byte
  <2>1. CASE i <= c.mARegionSize
    <3>1. c.mARegionPointer + i - 1 \in Address
      BY <2>1 DEF Good, Shaped, CircularBufferType, Address
    <3> QED  BY <2>1, <3>1 DEF Good, Shaped, Filled, CircularBufferType
  <2>2. CASE i > c.mARegionSize
    <3>1. /\ c.mBRegionPointer = 0
          /\ i - c.mARegionSize - 1 \in Address
          /\ i - c.mARegionSize - 1 < c.mBRegionSize
      BY <2>2, <1>1 DEF Good, Shaped, CircularBufferType, GetStoredSize, Address
    <3>2. c.mBuffer[i - c.mARegionSize - 1] \in Byte
      BY <3>1 DEF Good, Filled
    <3>3. c.mBRegionPointer + i - c.mARegionSize - 1 = i - c.mARegionSize - 1
      BY <3>1, <1>1 DEF Good, Shaped, CircularBufferType
    <3> QED  BY <2>2, <3>2, <3>3, <1>1 DEF Good, Shaped, CircularBufferType
  <2> QED  BY <2>1, <2>2, <1>1 DEF Good, Shaped, CircularBufferType
<1>3. Content(c) = [i \in 1 .. n |-> e(i)]
  BY DEF Content, FirstBytes
<1> HIDE DEF e, n
<1>4. Content(c) \in [1 .. n -> Byte]
  BY <1>2, <1>3
<1>5. Content(c) \in Seq(Byte) /\ Len(Content(c)) = n
  BY <1>1, <1>4
<1>6. \A i \in 1 .. n : Content(c)[i] = e(i)
  BY <1>3
<1> QED  BY <1>1, <1>5, <1>6 DEF e, n

(* Opening region B changes neither the content nor the shape.             *)
LEMMA ChooseRegionGood ==
  ASSUME NEW c, Good(c)
  PROVE  /\ Good(ChooseRegion(c))
         /\ Content(ChooseRegion(c)) = Content(c)
         /\ GetStoredSize(ChooseRegion(c)) = GetStoredSize(c)
         /\ FreeOfChosen(ChooseRegion(c)) \in 0 .. Capacity
         /\ 2 * (GetStoredSize(c) + FreeOfChosen(ChooseRegion(c)) + 1) > Capacity
         /\ GetStoredSize(c) + FreeOfChosen(ChooseRegion(c)) <= Capacity
<1> DEFINE d == ChooseRegion(c)
<1>1. CASE c.mBRegionPointer = NullPtr /\ GetAFreeSpace(c) < GetSpaceBeforeA(c)
  <2>1. d = [c EXCEPT !.mBRegionPointer = 0]
    BY <1>1 DEF ChooseRegion, AllocateB
  <2>2. /\ d \in CircularBufferType
        /\ d.mBuffer = c.mBuffer
        /\ d.mARegionPointer = c.mARegionPointer
        /\ d.mARegionSize = c.mARegionSize
        /\ d.mBRegionSize = c.mBRegionSize
        /\ d.mBRegionPointer = 0
        /\ c.mBRegionSize = 0
    BY <2>1, <1>1 DEF Good, Shaped, CircularBufferType
  <2> HIDE DEF d
  <2>3. Good(d)
    BY <2>2, <1>1 DEF Good, Shaped, Filled, CircularBufferType, GetAFreeSpace,
                      GetSpaceBeforeA, NullPtr
  <2>4. GetStoredSize(d) = GetStoredSize(c)
    BY <2>2 DEF GetStoredSize
  <2>5. Content(d) = Content(c)
    <3>1. GetStoredSize(c) = c.mARegionSize /\ c.mARegionSize \in Nat
      BY <2>2 DEF GetStoredSize, Good, Shaped, CircularBufferType
    <3>2. \A i \in 1 .. GetStoredSize(c) : i <= c.mARegionSize
      BY <3>1
    <3> QED  BY <2>2, <2>4, <3>2 DEF Content, FirstBytes
  <2>6. FreeOfChosen(d) = c.mARegionPointer
    BY <2>2 DEF FreeOfChosen, GetBFreeSpace, NullPtr, CircularBufferType
  <2>7. /\ c.mARegionPointer \in 0 .. Capacity
        /\ 2 * (GetStoredSize(c) + c.mARegionPointer + 1) > Capacity
        /\ GetStoredSize(c) + c.mARegionPointer <= Capacity
    BY <2>2, <1>1 DEF Good, Shaped, CircularBufferType, GetAFreeSpace,
                      GetSpaceBeforeA, GetStoredSize
  <2> QED  BY <2>3, <2>4, <2>5, <2>6, <2>7 DEF d
<1>2. CASE ~(c.mBRegionPointer = NullPtr /\ GetAFreeSpace(c) < GetSpaceBeforeA(c))
  <2>1. d = c
    BY <1>2 DEF ChooseRegion
  <2>2. /\ FreeOfChosen(c) \in 0 .. Capacity
        /\ 2 * (GetStoredSize(c) + FreeOfChosen(c) + 1) > Capacity
        /\ GetStoredSize(c) + FreeOfChosen(c) <= Capacity
    BY <1>2 DEF Good, Shaped, CircularBufferType, GetAFreeSpace, GetBFreeSpace,
                GetSpaceBeforeA, GetStoredSize, FreeOfChosen, NullPtr
  <2> QED  BY <2>1, <2>2
<1> QED  BY <1>1, <1>2

(* Storing data that fits behind GetBuffer appends it to the content.      *)
LEMMA StoreGood ==
  ASSUME NEW c, Good(c), NEW data \in Seq(Byte), Len(data) <= FreeOfChosen(c)
  PROVE  Good(Store(c, data)) /\ Content(Store(c, data)) = Content(c) \o data
<1> DEFINE aP == c.mARegionPointer   aS == c.mARegionSize
           bP == c.mBRegionPointer   bS == c.mBRegionSize
           mem == c.mBuffer          n == Len(data)
           at == GetBuffer(c)        m == CopyIn(mem, at, data)
           d == Store(c, data)
<1>1. n \in Nat /\ \A i \in 1 .. n : data[i] \in Byte
  BY LenProperties, ElementOfSeq
<1>2. /\ aP \in 0 .. Capacity /\ aS \in 0 .. Capacity /\ bS \in 0 .. Capacity
      /\ bP = NullPtr \/ bP = 0
      /\ mem \in [Address -> Byte \cup {Junk}]
      /\ aP + aS <= Capacity
      /\ aS = 0 => aP = 0 /\ bP = NullPtr
      /\ bP = NullPtr => bS = 0
      /\ bP # NullPtr => bS <= aP /\ Capacity - aP - aS < aP
  BY DEF Good, Shaped, CircularBufferType, GetAFreeSpace
<1>3. /\ bP = NullPtr => at = aP + aS /\ aP + aS + n <= Capacity
      /\ bP # NullPtr => bP = 0 /\ at = bS /\ bS + n <= aP
  BY <1>1, <1>2 DEF GetBuffer, FreeOfChosen, GetAFreeSpace, GetBFreeSpace
<1>4. at \in 0 .. Capacity /\ at + n <= Capacity
  BY <1>1, <1>2, <1>3
<1>5. /\ m \in [Address -> Byte \cup {Junk}]
      /\ \A i \in Address : m[i] =
           IF at <= i /\ i < at + n THEN data[i - at + 1] ELSE mem[i]
  BY <1>1, <1>2, <1>4 DEF CopyIn, Address
<1>6. /\ \A i \in Address : at <= i /\ i < at + n => m[i] = data[i - at + 1]
      /\ \A i \in Address : ~(at <= i /\ i < at + n) => m[i] = mem[i]
  BY <1>5
<1>7. \A i \in Address : aP <= i /\ i < aP + aS => mem[i] \in Byte
  BY DEF Good, Filled
<1>8. \A i \in Address : i < bS => mem[i] \in Byte
  BY DEF Good, Filled
<1>9. /\ d.mBuffer = m /\ d.mARegionPointer = aP /\ d.mBRegionPointer = bP
      /\ d.mARegionSize = IF bP = NullPtr THEN aS + n ELSE aS
      /\ d.mBRegionSize = IF bP = NullPtr THEN bS ELSE bS + n
      /\ d \in CircularBufferType
  <2>1. c \in CircularBufferType
    BY DEF Good, Shaped
  <2>2. CASE bP = NullPtr
    <3>1. d = [c EXCEPT !.mBuffer = m, !.mARegionSize = aS + n]
      BY <2>1, <2>2 DEF Store, Commit, CircularBufferType
    <3>2. aS + n \in 0 .. Capacity
      BY <1>1, <1>2, <1>3, <2>2
    <3> HIDE DEF m, d, n
    <3> QED  BY <2>1, <2>2, <3>1, <3>2, <1>5 DEF CircularBufferType
  <2>3. CASE bP # NullPtr
    <3>1. d = [c EXCEPT !.mBuffer = m, !.mBRegionSize = bS + n]
      BY <2>1, <2>3 DEF Store, Commit, CircularBufferType
    <3>2. bS + n \in 0 .. Capacity
      BY <1>1, <1>2, <1>3, <2>3
    <3> HIDE DEF m, d, n
    <3> QED  BY <2>1, <2>3, <3>1, <3>2, <1>5 DEF CircularBufferType
  <2> QED  BY <2>2, <2>3
<1>10. GetStoredSize(c) = aS + bS /\ GetStoredSize(d) = aS + bS + n
  <2> HIDE DEF d
  <2> QED  BY <1>1, <1>2, <1>9 DEF GetStoredSize
<1>11. /\ Content(c) \in Seq(Byte) /\ Len(Content(c)) = aS + bS
       /\ \A i \in 1 .. aS + bS :
            Content(c)[i] = IF i <= aS THEN mem[aP + i - 1] ELSE mem[bP + i - aS - 1]
  BY ContentIsSeq, <1>10
<1> HIDE DEF m, at, d, mem, n
<1>12. Shaped(d)
  <2> HIDE DEF aP, aS, bP, bS
  <2> QED  BY <1>1, <1>2, <1>3, <1>9 DEF Shaped, GetAFreeSpace
<1> HIDE DEF aP, aS, bP, bS
<1>13. Filled(d)
  <2>1. ASSUME NEW i \in Address,
               d.mARegionPointer <= i, i < d.mARegionPointer + d.mARegionSize
        PROVE  m[i] \in Byte
    <3>1. CASE at <= i /\ i < at + n
      <4>1. i - at + 1 \in 1 .. n
        BY <3>1, <1>1, <1>4 DEF Address
      <4> QED  BY <3>1, <4>1, <1>1, <1>6
    <3>2. CASE ~(at <= i /\ i < at + n)
      <4>1. aP <= i /\ i < aP + aS
        BY <2>1, <3>2, <1>1, <1>2, <1>3, <1>9 DEF Address
      <4> QED  BY <3>2, <4>1, <1>6, <1>7
    <3> QED  BY <3>1, <3>2
  <2>2. ASSUME NEW i \in Address, i < d.mBRegionSize
        PROVE  m[i] \in Byte
    <3>1. CASE at <= i /\ i < at + n
      <4>1. i - at + 1 \in 1 .. n
        BY <3>1, <1>1, <1>4 DEF Address
      <4> QED  BY <3>1, <4>1, <1>1, <1>6
    <3>2. CASE ~(at <= i /\ i < at + n)
      <4>1. i < bS
        BY <2>2, <3>2, <1>1, <1>2, <1>3, <1>9 DEF Address
      <4> QED  BY <3>2, <4>1, <1>6, <1>8
    <3> QED  BY <3>1, <3>2
  <2> QED  BY <2>1, <2>2, <1>9 DEF Filled
<1>14. Good(d)
  BY <1>12, <1>13 DEF Good
<1>15. /\ Content(d) \in Seq(Byte) /\ Len(Content(d)) = aS + bS + n
       /\ \A i \in 1 .. aS + bS + n : Content(d)[i] =
            IF i <= d.mARegionSize THEN m[aP + i - 1]
                                   ELSE m[bP + i - d.mARegionSize - 1]
  BY ContentIsSeq, <1>14, <1>10, <1>9
<1>16. /\ Content(c) \o data \in Seq(Byte)
       /\ Len(Content(c) \o data) = aS + bS + n
       /\ \A i \in 1 .. aS + bS + n : (Content(c) \o data)[i] =
            IF i <= aS + bS THEN Content(c)[i] ELSE data[i - (aS + bS)]
  <2>1. /\ Content(c) \o data \in Seq(Byte)
        /\ Len(Content(c) \o data) = Len(Content(c)) + Len(data)
        /\ \A i \in 1 .. Len(Content(c)) + Len(data) : (Content(c) \o data)[i] =
             IF i <= Len(Content(c)) THEN Content(c)[i]
                                     ELSE data[i - Len(Content(c))]
    BY <1>11, ConcatProperties, Zenon
  <2> QED  BY <1>11, <2>1, Zenon DEF n
<1>17. ASSUME NEW i \in 1 .. aS + bS + n
       PROVE  Content(d)[i] = (Content(c) \o data)[i]
  <2> DEFINE new == (Content(c) \o data)[i]
             old == Content(c)[i]
             res == Content(d)[i]
  <2>1. /\ i <= aS + bS => new = old
        /\ ~(i <= aS + bS) => new = data[i - (aS + bS)]
    BY <1>16
  <2>2. /\ i <= aS => old = mem[aP + i - 1]
        /\ ~(i <= aS) /\ i <= aS + bS => old = mem[bP + i - aS - 1]
    BY <1>11, <1>2
  <2>3. /\ i <= d.mARegionSize => res = m[aP + i - 1]
        /\ ~(i <= d.mARegionSize) => res = m[bP + i - d.mARegionSize - 1]
    BY <1>15
  <2>4. i \in Nat /\ 1 <= i /\ i <= aS + bS + n
    BY <1>1, <1>2
  <2> HIDE DEF new, old, res
  <2>5. bP = NullPtr /\ i <= aS => res = new
    <3> DEFINE k == aP + i - 1
    <3>1. bP = NullPtr /\ i <= aS => k \in Address /\ k < at
      BY <2>4, <1>1, <1>2, <1>3 DEF Address
    <3>2. bP = NullPtr /\ i <= aS => i <= d.mARegionSize /\ i <= aS + bS
      BY <2>4, <1>1, <1>2, <1>9
    <3> HIDE DEF k
    <3>3. k \in Address /\ k < at => m[k] = mem[k]
      BY <1>4, <1>6 DEF Address
    <3> QED  BY <2>1, <2>2, <2>3, <3>1, <3>2, <3>3, Zenon DEF k
  <2>6. bP = NullPtr /\ ~(i <= aS) => res = new
    <3> DEFINE k == aP + i - 1
               j == i - (aS + bS)
    <3>1. bP = NullPtr /\ ~(i <= aS) =>
            k \in Address /\ at <= k /\ k < at + n /\ k - at + 1 = j
      BY <2>4, <1>1, <1>2, <1>3 DEF Address
    <3>2. bP = NullPtr /\ ~(i <= aS) => i <= d.mARegionSize /\ ~(i <= aS + bS)
      BY <2>4, <1>1, <1>2, <1>9
    <3> HIDE DEF k, j
    <3>3. k \in Address /\ at <= k /\ k < at + n => m[k] = data[k - at + 1]
      BY <1>6, Zenon
    <3> QED  BY <2>1, <2>3, <3>1, <3>2, <3>3, Zenon DEF k, j
  <2>7. bP # NullPtr /\ i <= aS => res = new
    <3> DEFINE k == aP + i - 1
    <3>1. bP # NullPtr /\ i <= aS => k \in Address /\ at + n <= k
      BY <2>4, <1>1, <1>2, <1>3 DEF Address
    <3>2. bP # NullPtr /\ i <= aS => i <= d.mARegionSize /\ i <= aS + bS
      BY <2>4, <1>1, <1>2, <1>9
    <3> HIDE DEF k
    <3>3. k \in Address /\ at + n <= k => m[k] = mem[k]
      BY <1>1, <1>4, <1>6 DEF Address
    <3> QED  BY <2>1, <2>2, <2>3, <3>1, <3>2, <3>3, Zenon DEF k
  <2>8. bP # NullPtr /\ ~(i <= aS) /\ i <= aS + bS => res = new
    <3> DEFINE k == bP + i - aS - 1
    <3>1. bP # NullPtr /\ ~(i <= aS) /\ i <= aS + bS => k \in Address /\ k < at
      BY <2>4, <1>1, <1>2, <1>3 DEF Address
    <3>2. bP # NullPtr => d.mARegionSize = aS
      BY <1>9
    <3> HIDE DEF k
    <3>3. k \in Address /\ k < at => m[k] = mem[k]
      BY <1>4, <1>6 DEF Address
    <3> QED  BY <2>1, <2>2, <2>3, <3>1, <3>2, <3>3, Zenon DEF k
  <2>9. bP # NullPtr /\ ~(i <= aS) /\ ~(i <= aS + bS) => res = new
    <3> DEFINE k == bP + i - aS - 1
               j == i - (aS + bS)
    <3>1. bP # NullPtr /\ ~(i <= aS) /\ ~(i <= aS + bS) =>
            k \in Address /\ at <= k /\ k < at + n /\ k - at + 1 = j
      BY <2>4, <1>1, <1>2, <1>3 DEF Address
    <3>2. bP # NullPtr => d.mARegionSize = aS
      BY <1>9
    <3> HIDE DEF k, j
    <3>3. k \in Address /\ at <= k /\ k < at + n => m[k] = data[k - at + 1]
      BY <1>6, Zenon
    <3> QED  BY <2>1, <2>3, <3>1, <3>2, <3>3, Zenon DEF k, j
  <2>10. res = new
    BY <2>5, <2>6, <2>7, <2>8, <2>9, Zenon
  <2> QED  BY <2>10, Zenon DEF res, new
<1>18. Content(d) = Content(c) \o data
  BY <1>15, <1>16, <1>17, SeqEqual
<1> QED  BY <1>14, <1>18 DEF d

(* A sequence that agrees with what follows the first n elements of another.*)
LEMMA SuffixEqual ==
  ASSUME NEW s \in Seq(Byte), NEW t \in Seq(Byte), NEW n \in Nat, n <= Len(s),
         Len(t) = Len(s) - n, \A i \in 1 .. Len(s) - n : t[i] = s[n + i]
  PROVE  t = SubSeq(s, n + 1, Len(s))
<1> DEFINE u == SubSeq(s, n + 1, Len(s))
<1>1. Len(s) \in Nat /\ \A i \in n + 1 .. Len(s) : s[i] \in Byte
  BY LenProperties, ElementOfSeq
<1>2. /\ u \in Seq(Byte)
      /\ Len(u) = IF n + 1 <= Len(s) THEN Len(s) - (n + 1) + 1 ELSE 0
      /\ \A i \in 1 .. Len(s) - (n + 1) + 1 : u[i] = s[n + 1 + i - 1]
  BY <1>1, SubSeqProperties
<1> HIDE DEF u
<1>3. Len(u) = Len(s) - n
  BY <1>1, <1>2
<1>4. ASSUME NEW i \in 1 .. Len(s) - n PROVE u[i] = s[n + i]
  <2>1. i \in 1 .. Len(s) - (n + 1) + 1 /\ n + 1 + i - 1 = n + i
    BY <1>1
  <2> QED  BY <2>1, <1>2
<1>5. \A i \in 1 .. Len(t) : t[i] = u[i]
  BY <1>4
<1>6. t = u
  BY <1>2, <1>3, <1>5, SeqEqual
<1> QED  BY <1>6 DEF u

(* What Peek and Read copy out is the beginning of the content.            *)
LEMMA FirstBytesGood ==
  ASSUME NEW c, Good(c), NEW n \in Nat, n <= GetStoredSize(c)
  PROVE  FirstBytes(c, n) = SubSeq(Content(c), 1, n)
<1>1. /\ Content(c) \in Seq(Byte) /\ Len(Content(c)) = GetStoredSize(c)
      /\ GetStoredSize(c) \in Nat
  BY ContentIsSeq
<1>2. \A i \in 1 .. n : FirstBytes(c, n)[i] = Content(c)[i]
  BY <1>1 DEF FirstBytes, Content
<1>3. FirstBytes(c, n) = [i \in 1 .. n |-> FirstBytes(c, n)[i]]
  BY DEF FirstBytes
<1>4. \A i \in 1 .. n : Content(c)[i] \in Byte
  BY <1>1, ElementOfSeq
<1> DEFINE f == FirstBytes(c, n)
           w == Content(c)
<1> HIDE DEF f, w
<1>5. f \in [1 .. n -> Byte]
  BY <1>2, <1>3, <1>4 DEF f, w
<1>6. f \in Seq(Byte) /\ Len(f) = n
  BY <1>5
<1>7. /\ SubSeq(w, 1, n) \in Seq(Byte)
      /\ Len(SubSeq(w, 1, n)) = n
      /\ \A i \in 1 .. n : SubSeq(w, 1, n)[i] = w[i]
  <2>1. \A i \in 1 .. n : w[i] \in Byte
    BY <1>4 DEF w
  <2>2. /\ SubSeq(w, 1, n) \in Seq(Byte)
        /\ Len(SubSeq(w, 1, n)) = IF 1 <= n THEN n - 1 + 1 ELSE 0
        /\ \A i \in 1 .. n - 1 + 1 : SubSeq(w, 1, n)[i] = w[1 + i - 1]
    BY <2>1, SubSeqProperties
  <2> DEFINE t == SubSeq(w, 1, n)
  <2> HIDE DEF t
  <2>3. n - 1 + 1 = n /\ \A i \in 1 .. n : 1 + i - 1 = i
    OBVIOUS
  <2> QED  BY <2>2, <2>3 DEF t
<1>8. \A i \in 1 .. n : f[i] = w[i]
  BY <1>2 DEF f, w
<1> QED  BY <1>6, <1>7, <1>8, SeqEqual DEF f, w

(* Removing bytes leaves the rest of the content, in order.                *)
LEMMA RemoveGood ==
  ASSUME NEW c, Good(c), NEW len \in Nat
  PROVE  /\ Good(Remove(c, len))
         /\ Content(Remove(c, len)) =
              IF len <= GetStoredSize(c)
              THEN SubSeq(Content(c), len + 1, GetStoredSize(c)) ELSE <<>>
<1> DEFINE aP == c.mARegionPointer   aS == c.mARegionSize
           bP == c.mBRegionPointer   bS == c.mBRegionSize
           mem == c.mBuffer          d == Remove(c, len)
           w == Content(c)           stored == GetStoredSize(c)
           b == IF len - aS <= bS THEN len - aS ELSE bS
<1>1. /\ aP \in 0 .. Capacity /\ aS \in 0 .. Capacity /\ bS \in 0 .. Capacity
      /\ bP = NullPtr \/ bP = 0
      /\ mem \in [Address -> Byte \cup {Junk}]
      /\ aP + aS <= Capacity
      /\ aS = 0 => aP = 0 /\ bP = NullPtr
      /\ bP = NullPtr => bS = 0
      /\ bP # NullPtr => bS <= aP /\ Capacity - aP - aS < aP
  BY DEF Good, Shaped, CircularBufferType, GetAFreeSpace
<1>2. /\ \A i \in Address : aP <= i /\ i < aP + aS => mem[i] \in Byte
      /\ \A i \in Address : i < bS => mem[i] \in Byte
  BY DEF Good, Filled
<1>3. /\ w \in Seq(Byte) /\ Len(w) = stored /\ stored = aS + bS
      /\ \A i \in 1 .. stored :
           w[i] = IF i <= aS THEN mem[aP + i - 1] ELSE mem[bP + i - aS - 1]
  BY ContentIsSeq DEF GetStoredSize
<1>4. CASE len < aS
  <2>1. d = [c EXCEPT !.mARegionPointer = aP + len, !.mARegionSize = aS - len]
    BY <1>4 DEF Remove, Good, Shaped, CircularBufferType
  <2>2. aP + len \in 0 .. Capacity /\ aS - len \in 0 .. Capacity
    BY <1>1, <1>4
  <2>3. /\ d \in CircularBufferType
        /\ d.mBuffer = mem /\ d.mBRegionPointer = bP /\ d.mBRegionSize = bS
        /\ d.mARegionPointer = aP + len /\ d.mARegionSize = aS - len
    <3>1. c \in CircularBufferType
      BY DEF Good, Shaped
    <3> HIDE DEF d
    <3> QED  BY <2>1, <2>2, <3>1 DEF CircularBufferType
  <2> HIDE DEF d, w, stored, aP, aS, bP, bS, mem
  <2>4. Shaped(d)
    BY <2>3, <1>1, <1>4 DEF Shaped, GetAFreeSpace
  <2>5. Filled(d)
    <3>1. ASSUME NEW i \in Address, aP + len <= i, i < aP + len + (aS - len)
          PROVE  mem[i] \in Byte
      <4>1. aP <= i /\ i < aP + aS
        BY <3>1, <1>1 DEF Address
      <4> QED  BY <4>1, <1>2
    <3> QED  BY <2>3, <3>1, <1>2 DEF Filled
  <2>6. /\ Good(d) /\ GetStoredSize(d) = stored - len /\ len <= stored
    BY <2>3, <2>4, <2>5, <1>1, <1>3, <1>4 DEF Good, GetStoredSize
  <2>7. /\ Content(d) \in Seq(Byte) /\ Len(Content(d)) = stored - len
        /\ \A i \in 1 .. stored - len : Content(d)[i] =
             IF i <= aS - len THEN mem[aP + len + i - 1]
                              ELSE mem[bP + i - (aS - len) - 1]
    BY ContentIsSeq, <2>3, <2>6
  <2>8. ASSUME NEW i \in 1 .. stored - len
        PROVE  Content(d)[i] = w[len + i]
    <3>1. /\ len + i \in 1 .. stored
          /\ aP + (len + i) - 1 = aP + len + i - 1
          /\ bP + (len + i) - aS - 1 = bP + i - (aS - len) - 1
          /\ i <= aS - len <=> len + i <= aS
      <4>1. bP \in Int /\ stored \in Nat /\ i \in Nat /\ i <= stored - len
        BY <1>1, <1>3 DEF NullPtr
      <4> QED  BY <4>1, <1>1, <1>3, <1>4
    <3> QED  BY <2>7, <3>1, <1>3
  <2>9. Content(d) = SubSeq(w, len + 1, stored)
    BY <2>6, <2>7, <2>8, <1>1, <1>3, SuffixEqual
  <2> QED  BY <2>6, <2>9 DEF d, w, stored
<1>5. CASE len >= aS /\ bS > b
  <2>1. /\ d.mBuffer = MoveToFront(mem, bP + b, bS - b)
        /\ d.mARegionPointer = 0 /\ d.mARegionSize = bS - b
        /\ d.mBRegionPointer = NullPtr /\ d.mBRegionSize = 0
        /\ d = [ mBuffer         |-> MoveToFront(mem, bP + b, bS - b),
                 mARegionPointer |-> 0, mARegionSize |-> bS - b,
                 mBRegionPointer |-> NullPtr, mBRegionSize |-> 0 ]
    BY <1>1, <1>5 DEF Remove, ReplaceEmptyA
  <2> HIDE DEF d, w, stored, aP, aS, bP, bS, mem
  <2>2. /\ b = len - aS /\ bP = 0 /\ bS - b \in 0 .. Capacity
        /\ bS - b = stored - len /\ len <= stored /\ b \in Nat
    <3>1. bS > 0 /\ b = len - aS
      BY <1>1, <1>5
    <3> QED  BY <3>1, <1>1, <1>3, <1>5 DEF NullPtr
  <2> DEFINE rest == bS - b
  <2>13. bP + b = b
    BY <2>2
  <2> HIDE DEF b
  <2>14. \A i \in Address : i < rest => b + i \in Address /\ b + i < bS
    BY <2>2, <1>1 DEF Address
  <2> HIDE DEF rest
  <2>3. \A i \in Address : MoveToFront(mem, bP + b, rest)[i] =
          IF i < rest THEN mem[b + i] ELSE mem[i]
    BY <2>13 DEF MoveToFront
  <2>4. MoveToFront(mem, bP + b, rest) \in [Address -> Byte \cup {Junk}]
    <3>1. mem \in [Address -> Byte \cup {Junk}]
      BY <1>1
    <3>2. \A i \in Address : (IF i < rest THEN mem[b + i] ELSE mem[i]) \in Byte \cup {Junk}
      BY <3>1, <2>14
    <3> QED  BY <3>2, <2>13 DEF MoveToFront
  <2>5. ASSUME NEW i \in Address, i < bS - b
        PROVE  MoveToFront(mem, bP + b, bS - b)[i] \in Byte
    <3> DEFINE k == b + i
    <3>1. k \in Address /\ k < bS
      BY <2>5, <2>14 DEF rest
    <3> HIDE DEF k
    <3>2. mem[k] \in Byte
      BY <3>1, <1>2
    <3> QED  BY <2>3, <2>5, <3>2 DEF rest, k
  <2> DEFINE m == MoveToFront(mem, bP + b, bS - b)
  <2> HIDE DEF m
  <2>6. d \in CircularBufferType
    BY <2>1, <2>2, <2>4 DEF CircularBufferType, m, rest
  <2>7. Shaped(d)
    BY <2>1, <2>2, <2>6 DEF Shaped
  <2>8. Filled(d)
    <3>1. 0 + (bS - b) = bS - b /\ \A i \in Address : ~(i < 0)
      BY <2>2 DEF Address
    <3>2. \A i \in Address : i < bS - b => d.mBuffer[i] \in Byte
      BY <2>1, <2>5, Zenon
    <3> QED  BY <2>1, <3>1, <3>2, Zenon DEF Filled
  <2>9. Good(d) /\ GetStoredSize(d) = stored - len
    BY <2>1, <2>2, <2>7, <2>8, <1>1 DEF Good, GetStoredSize
  <2>10. /\ Content(d) \in Seq(Byte) /\ Len(Content(d)) = stored - len
         /\ \A i \in 1 .. stored - len : Content(d)[i] =
              IF i <= stored - len THEN m[0 + i - 1]
                                   ELSE m[NullPtr + i - (stored - len) - 1]
    BY ContentIsSeq, <2>1, <2>2, <2>9 DEF m
  <2>11. ASSUME NEW i \in 1 .. stored - len
         PROVE  Content(d)[i] = w[len + i]
    <3>1. /\ i - 1 \in Address /\ i - 1 < bS - b /\ 0 + i - 1 = i - 1
          /\ len + i \in 1 .. stored /\ ~(len + i <= aS)
          /\ bP + (len + i) - aS - 1 = b + (i - 1)
          /\ i <= stored - len
      BY <2>2, <1>1, <1>3, <1>5 DEF Address
    <3>2. Content(d)[i] = m[i - 1]
      BY <2>10, <3>1
    <3>3. m[i - 1] = mem[b + (i - 1)]
      BY <2>3, <3>1 DEF m, rest
    <3>4. w[len + i] = mem[b + (i - 1)]
      BY <3>1, <1>3
    <3> QED  BY <3>2, <3>3, <3>4
  <2>12. Content(d) = SubSeq(w, len + 1, stored)
    BY <2>2, <2>9, <2>10, <2>11, <1>1, <1>3, SuffixEqual
  <2> QED  BY <2>2, <2>9, <2>12 DEF d, w, stored
<1>6. CASE len >= aS /\ ~(bS > b)
  <2>1. d = EmptyOver(mem)
    BY <1>1, <1>6 DEF Remove, ReplaceEmptyA
  <2>2. Good(d) /\ GetStoredSize(d) = 0
    BY <2>1, <1>1 DEF Good, Shaped, Filled, CircularBufferType, EmptyOver,
                      GetStoredSize, Address
  <2>3. Content(d) = <<>>
    BY <2>2, ContentIsSeq, EmptySeq
  <2>4. len >= stored
    BY <1>1, <1>3, <1>6
  <2>5. len <= stored => SubSeq(w, len + 1, stored) = <<>>
    BY <2>4, <1>1, <1>3, SubSeqEmpty
  <2> QED  BY <2>2, <2>3, <2>5
<1> QED  BY <1>4, <1>5, <1>6, <1>1

(* Write keeps the bytes of a non-empty A where they are, also when it has *)
(* no room, and otherwise appends to the content.                          *)
LEMMA WriteGood ==
  ASSUME NEW c, Good(c), NEW data \in Seq(Byte)
  PROVE  /\ Good(Write(c, data))
         /\ WriteFits(c, data) =>
              /\ Content(Write(c, data)) = Content(c) \o data
              /\ GetStoredSize(Write(c, data)) = GetStoredSize(c) + Len(data)
         /\ c.mARegionSize > 0 =>
              /\ Write(c, data).mARegionPointer = c.mARegionPointer
              /\ Write(c, data).mARegionSize >= c.mARegionSize
<1> DEFINE d == ChooseRegion(c)   e == Store(d, data)
<1>1. /\ Good(d) /\ Content(d) = Content(c) /\ GetStoredSize(d) = GetStoredSize(c)
      /\ GetFreeSpaceSize(c) = FreeOfChosen(d)
  BY ChooseRegionGood DEF GetFreeSpaceSize
<1>2. /\ d.mARegionPointer = c.mARegionPointer /\ d.mARegionSize = c.mARegionSize
      /\ d.mARegionSize \in Nat /\ d \in CircularBufferType
  BY <1>1 DEF ChooseRegion, AllocateB, Good, Shaped, CircularBufferType
<1> HIDE DEF d
<1>3. Len(data) \in Nat
  BY LenProperties
<1>4. CASE WriteFits(c, data)
  <2>1. Good(e) /\ Content(e) = Content(c) \o data
    BY <1>1, <1>4, StoreGood DEF WriteFits
  <2>2. GetStoredSize(e) = GetStoredSize(c) + Len(data)
    <3>1. Content(c) \in Seq(Byte) /\ Len(Content(c)) = GetStoredSize(c)
      BY ContentIsSeq
    <3>2. Len(Content(e)) = GetStoredSize(e)
      BY <2>1, ContentIsSeq
    <3>3. Len(Content(c) \o data) = Len(Content(c)) + Len(data)
      BY <3>1, ConcatProperties
    <3> QED  BY <2>1, <3>1, <3>2, <3>3
  <2>3. /\ e.mARegionPointer = d.mARegionPointer
        /\ e.mARegionSize \in {d.mARegionSize, d.mARegionSize + Len(data)}
    BY <1>2, <1>3 DEF Store, Commit, CircularBufferType
  <2>4. Write(c, data) = e
    BY <1>4 DEF Write, d
  <2> HIDE DEF e
  <2> QED  BY <2>1, <2>2, <2>3, <2>4, <1>2, <1>3
<1>5. CASE ~WriteFits(c, data)
  <2>1. Write(c, data) = d
    BY <1>5 DEF Write, d
  <2> QED  BY <2>1, <1>1, <1>2, <1>5
<1> QED  BY <1>4, <1>5

(* What follows the first n of a sequence's elements, after an append.     *)
LEMMA SuffixOfConcat ==
  ASSUME NEW s \in Seq(Byte), NEW d \in Seq(Byte), NEW n \in Nat, n <= Len(s)
  PROVE  SubSeq(s \o d, n + 1, Len(s) + Len(d)) = SubSeq(s, n + 1, Len(s)) \o d
<1> DEFINE t == SubSeq(s, n + 1, Len(s))   w == s \o d   v == t \o d
<1>1. Len(s) \in Nat /\ Len(d) \in Nat
  BY LenProperties
<1>2. \A i \in n + 1 .. Len(s) : s[i] \in Byte
  BY <1>1, ElementOfSeq
<1>3. /\ t \in Seq(Byte)
      /\ Len(t) = IF n + 1 <= Len(s) THEN Len(s) - (n + 1) + 1 ELSE 0
      /\ \A i \in 1 .. Len(s) - (n + 1) + 1 : t[i] = s[n + 1 + i - 1]
  BY <1>1, <1>2, SubSeqProperties
<1>4. /\ w \in Seq(Byte) /\ Len(w) = Len(s) + Len(d)
      /\ \A i \in 1 .. Len(s) + Len(d) : w[i] = IF i <= Len(s) THEN s[i] ELSE d[i - Len(s)]
  BY ConcatProperties
<1> HIDE DEF t
<1>5. /\ v \in Seq(Byte) /\ Len(v) = Len(t) + Len(d)
      /\ \A i \in 1 .. Len(t) + Len(d) : v[i] = IF i <= Len(t) THEN t[i] ELSE d[i - Len(t)]
  BY <1>3, ConcatProperties
<1> HIDE DEF w, v
<1>6. Len(t) = Len(s) - n /\ \A i \in 1 .. Len(s) - n : t[i] = s[n + i]
  <2>1. Len(t) = Len(s) - n
    BY <1>1, <1>3
  <2>2. ASSUME NEW i \in 1 .. Len(s) - n PROVE t[i] = s[n + i]
    <3>1. i \in 1 .. Len(s) - (n + 1) + 1 /\ n + 1 + i - 1 = n + i
      BY <1>1
    <3> QED  BY <3>1, <1>3
  <2> QED  BY <2>1, <2>2
<1>7. Len(v) = Len(w) - n /\ n <= Len(w)
  BY <1>1, <1>4, <1>5, <1>6
<1>8. ASSUME NEW i \in 1 .. Len(w) - n PROVE v[i] = w[n + i]
  <2>1. /\ i \in 1 .. Len(t) + Len(d) /\ n + i \in 1 .. Len(s) + Len(d)
        /\ i - Len(t) = n + i - Len(s) /\ (i <= Len(t) <=> n + i <= Len(s))
        /\ i <= Len(t) => i \in 1 .. Len(s) - n
    BY <1>1, <1>4, <1>6
  <2> QED  BY <2>1, <1>4, <1>5, <1>6
<1>9. v = SubSeq(w, n + 1, Len(w))
  BY <1>4, <1>5, <1>7, <1>8, SuffixEqual
<1> QED  BY <1>9, <1>4 DEF t, w, v
=============================================================================
