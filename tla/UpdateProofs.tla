---------------------------- MODULE UpdateProofs ----------------------------
(***************************************************************************)
(* The two updates, the server's of the bodies and the client's frame, for *)
(* every number of players, particles and keys and all sizes of the boxes  *)
(* and buffers.                                                            *)
(*                                                                         *)
(* Motion: an impact exchanges the velocities of two bodies, so that the   *)
(* sums over all bodies of the velocity and of its square stay; a fold of  *)
(* impacts keeps them, too, and announces whom it changed.  MotionView: a  *)
(* copy that follows has the place and the course of its character, and a  *)
(* step of the server does to both the same (ViewInv).                     *)
(*                                                                         *)
(* Frame: while a frame renders, the vertices a system has put lie behind  *)
(* one another in its buffer, and what is drawn but not yet read lies      *)
(* where no later segment is written (FrameInv).                           *)
(*                                                                         *)
(* Both go over sequences with FoldLeft.  What the fold does after each    *)
(* element is shown to exist by induction over the length (NatInduct, from *)
(* the well-foundedness of the numbers).                                   *)
(***************************************************************************)
EXTENDS MotionView, Frame, FiniteSetTheorems, SequenceTheorems,
        WellFoundedInduction, TLAPS

(* Induction over the numbers, for a set.                                  *)
LEMMA NatInduct ==
  ASSUME NEW A, 0 \in A, \A k \in Nat : k \in A => k + 1 \in A
  PROVE  \A k \in Nat : k \in A
<1> DEFINE Missing == Nat \ A
           Less == OpToRel(<, Nat)
<1>1. SUFFICES ASSUME Missing # {} PROVE FALSE
  OBVIOUS
<1>2. IsWellFoundedOn(Less, Nat)
  BY NatLessThanWellFounded
<1>3. \A x, y \in Nat : x < y => <<x, y>> \in Less
  BY DEF OpToRel
<1>4. Missing \subseteq Nat
  OBVIOUS
<1> HIDE DEF Less, Missing
<1>5. PICK least \in Missing : \A y \in Missing : ~(<<y, least>> \in Less)
  <2>1. PICK any \in Missing : TRUE
    BY <1>1
  <2>2. QED
    BY <1>2, <1>4, <2>1, WFMin
<1>6. least \in Nat /\ least \notin A
  BY DEF Missing
<1>7. least # 0
  BY <1>6
<1>8. least - 1 \in Nat /\ least - 1 < least
  BY <1>6, <1>7
<1>9. least - 1 \notin Missing
  BY <1>3, <1>5, <1>6, <1>8
<1>10. least - 1 \in A
  BY <1>8, <1>9 DEF Missing
<1>11. (least - 1) + 1 \in A
  BY <1>8, <1>10
<1> QED  BY <1>6, <1>11

(* What a fold over a sequence does with its indices.                      *)
LEMMA MaxOfInitial ==
  ASSUME NEW k \in Nat, NEW T \in SUBSET (1 .. k + 1), k + 1 \in T
  PROVE  Max(T) = k + 1 /\ T \ {Max(T)} \in SUBSET (1 .. k)
<1>1. \A y \in T : k + 1 >= y
  OBVIOUS
<1>2. \A x \in T : (\A y \in T : x >= y) => x = k + 1
  OBVIOUS
<1>3. Max(T) = k + 1
  BY <1>1, <1>2 DEF Max
<1> QED  BY <1>3

(* The greatest number of an initial part, and what is left without it.    *)
LEMMA InitialStep ==
  ASSUME NEW k \in Nat
  PROVE  /\ Max(1 .. k + 1) = k + 1 /\ (1 .. k + 1) \ {k + 1} = 1 .. k
         /\ 1 .. k + 1 # {} /\ 1 .. 0 = {}
<1>1. 1 .. k + 1 \in SUBSET (1 .. k + 1) /\ k + 1 \in 1 .. k + 1
  OBVIOUS
<1>2. Max(1 .. k + 1) = k + 1
  BY <1>1, MaxOfInitial
<1> QED  BY <1>2

(* The loops of CheckCollision over the pairs.                             *)
ScanFrom(start) == FoldLeft(CheckPair, start, Pairs)

(* The loops of CheckCollision go over the pairs one by one.                *)
LEMMA ScanStages ==
  ASSUME Len(Pairs) \in Nat, DOMAIN Pairs = 1 .. Len(Pairs), NEW start
  PROVE  \E r : /\ r[0] = start
                /\ r[Len(Pairs)] = ScanFrom(start)
                /\ \A k \in 0 .. Len(Pairs) - 1 : r[k + 1] = CheckPair(r[k], Pairs[k + 1])
<1> DEFINE next(v, i) == CheckPair(v, Pairs[i])
           Def == {k \in Nat : \E F : \A T \in SUBSET (1 .. k) :
                     F[T] = IF T = {} THEN start ELSE next(F[T \ {Max(T)}], Max(T))}
           Eq(F, D) == F = [T \in SUBSET D |-> IF T = {} THEN start
                                               ELSE next(F[T \ {Max(T)}], Max(T))]
           fold == CHOOSE F : Eq(F, DOMAIN Pairs)
<1>1. ScanFrom(start) = fold[DOMAIN Pairs]
  BY DEF FoldLeft, MapThenFoldSet, ScanFrom
<1>2. \A v : \A k \in Nat : next(v, k + 1) = CheckPair(v, Pairs[k + 1])
  OBVIOUS
<1> HIDE DEF next
<1>3. 0 \in Def
  <2> DEFINE F == [T \in SUBSET (1 .. 0) |-> start]
  <2>1. \A T \in SUBSET (1 .. 0) : F[T] = start /\ T = {}
    OBVIOUS
  <2> HIDE DEF F
  <2> QED  BY ONLY <2>1
<1>4. ASSUME NEW k \in Nat, k \in Def PROVE k + 1 \in Def
  <2>1. PICK F : \A T \in SUBSET (1 .. k) :
                   F[T] = IF T = {} THEN start ELSE next(F[T \ {Max(T)}], Max(T))
    BY ONLY <1>4
  <2> DEFINE G == [T \in SUBSET (1 .. k + 1) |-> IF k + 1 \in T
                     THEN next(F[T \ {k + 1}], k + 1) ELSE F[T]]
  <2>2. ASSUME NEW T \in SUBSET (1 .. k + 1)
        PROVE  G[T] = IF T = {} THEN start ELSE next(G[T \ {Max(T)}], Max(T))
    <3>1. CASE k + 1 \in T
      <4>1. /\ Max(T) = k + 1
            /\ T \ {Max(T)} \in SUBSET (1 .. k + 1) /\ k + 1 \notin T \ {Max(T)}
        BY <3>1, MaxOfInitial
      <4>2. G[T \ {Max(T)}] = F[T \ {Max(T)}]
        BY ONLY <4>1
      <4>3. G[T] = next(F[T \ {k + 1}], k + 1)
        BY ONLY <3>1, T \in SUBSET (1 .. k + 1)
      <4> HIDE DEF G
      <4> QED  BY ONLY <3>1, <4>1, <4>2, <4>3
    <3>2. CASE k + 1 \notin T
      <4>1. T \in SUBSET (1 .. k)
        BY ONLY <3>2, k \in Nat, T \in SUBSET (1 .. k + 1)
      <4>2. T \ {Max(T)} \in SUBSET (1 .. k + 1) /\ k + 1 \notin T \ {Max(T)}
        BY ONLY <3>2, T \in SUBSET (1 .. k + 1)
      <4>3. G[T \ {Max(T)}] = F[T \ {Max(T)}] /\ G[T] = F[T]
        BY ONLY <3>2, <4>2, T \in SUBSET (1 .. k + 1)
      <4>4. F[T] = IF T = {} THEN start ELSE next(F[T \ {Max(T)}], Max(T))
        BY ONLY <2>1, <4>1
      <4> HIDE DEF G
      <4> QED  BY ONLY <4>3, <4>4
    <3> QED  BY ONLY <3>1, <3>2
  <2> HIDE DEF G
  <2>3. \E H : \A T \in SUBSET (1 .. k + 1) :
          H[T] = IF T = {} THEN start ELSE next(H[T \ {Max(T)}], Max(T))
    BY ONLY <2>2
  <2>4. k + 1 \in Nat
    BY ONLY k \in Nat
  <2> QED  BY ONLY <2>3, <2>4
<1>5. Len(Pairs) \in Nat /\ DOMAIN Pairs = 1 .. Len(Pairs)
  OBVIOUS
<1>6. Len(Pairs) \in Def
  <2> HIDE DEF Def
  <2> QED  BY ONLY <1>3, <1>4, <1>5, NatInduct
<1>7. Eq(fold, 1 .. Len(Pairs))
  <2>1. PICK F : \A T \in SUBSET DOMAIN Pairs :
                   F[T] = IF T = {} THEN start ELSE next(F[T \ {Max(T)}], Max(T))
    BY ONLY <1>5, <1>6
  <2> DEFINE G == [T \in SUBSET DOMAIN Pairs |-> F[T]]
  <2>2. \A T \in SUBSET DOMAIN Pairs : G[T] = F[T] /\ G[T \ {Max(T)}] = F[T \ {Max(T)}]
    OBVIOUS
  <2>3. G = [T \in SUBSET DOMAIN Pairs |-> G[T]]
    OBVIOUS
  <2> HIDE DEF G
  <2>4. Eq(G, DOMAIN Pairs)
    BY ONLY <2>1, <2>2, <2>3
  <2> HIDE DEF Eq
  <2>5. Eq(fold, DOMAIN Pairs)
    BY ONLY <2>4
  <2> QED  BY ONLY <1>5, <2>5
<1> HIDE DEF fold
<1>8. fold[1 .. 0] = start
  <2>1. 1 .. 0 = {} /\ {} \in SUBSET (1 .. Len(Pairs))
    OBVIOUS
  <2> QED  BY ONLY <1>7, <2>1
<1>9. ASSUME NEW k \in 0 .. Len(Pairs) - 1
      PROVE  fold[1 .. k + 1] = next(fold[1 .. k], k + 1)
  <2>1. k \in Nat /\ 1 .. k + 1 \in SUBSET (1 .. Len(Pairs))
    BY ONLY <1>5, k \in 0 .. Len(Pairs) - 1
  <2>2. Max(1 .. k + 1) = k + 1 /\ (1 .. k + 1) \ {k + 1} = 1 .. k /\ 1 .. k + 1 # {}
    BY ONLY <2>1, InitialStep
  <2>3. fold[1 .. k + 1] = next(fold[(1 .. k + 1) \ {Max(1 .. k + 1)}], Max(1 .. k + 1))
    BY ONLY <1>7, <2>1, <2>2
  <2> QED  BY ONLY <2>2, <2>3
<1> HIDE DEF Eq
<1> DEFINE r == [k \in 0 .. Len(Pairs) |-> fold[1 .. k]]
<1>10. r[0] = fold[1 .. 0] /\ r[Len(Pairs)] = fold[1 .. Len(Pairs)]
  BY ONLY <1>5
<1>11. \A k \in 0 .. Len(Pairs) - 1 :
         k \in Nat /\ r[k + 1] = fold[1 .. k + 1] /\ r[k] = fold[1 .. k]
  BY ONLY <1>5
<1> HIDE DEF r
<1>12. \A k \in 0 .. Len(Pairs) - 1 : r[k + 1] = next(r[k], k + 1)
  BY ONLY <1>9, <1>11
<1>13. \A k \in 0 .. Len(Pairs) - 1 : r[k + 1] = CheckPair(r[k], Pairs[k + 1])
  BY ONLY <1>2, <1>11, <1>12
<1>14. r[Len(Pairs)] = ScanFrom(start)
  BY ONLY <1>1, <1>5, <1>10
<1> QED  BY ONLY <1>8, <1>10, <1>13, <1>14

-----------------------------------------------------------------------------
(* A body is four whole numbers.                                           *)
Body == [pos : Int, vel : Int, acc : Int, box : Int]

(* The types: the dead are in the list, the bodies are whole numbers.      *)
MotionType ==
  /\ m_CharacterList \subseteq Id /\ m_IsDead \subseteq m_CharacterList
  /\ body \in [Id -> Body]

(* There are finitely many ids, and they are whole numbers.                *)
LEMMA Ids == Id \subseteq Int /\ IsFiniteSet(Id) /\ REAL_PLAYER_NUM \in Nat
<1>1. REAL_PLAYER_NUM \in Nat
  BY MotionAssumption
<1>2. 0 \in Int /\ REAL_PLAYER_NUM - 1 \in Int
  BY <1>1
<1>3. IsFiniteSet(0 .. REAL_PLAYER_NUM - 1)
  BY <1>2, FS_Interval
<1> QED  BY <1>1, <1>3 DEF Id

-----------------------------------------------------------------------------
(* Sums.                                                                   *)

(* The sums over the sets of ids, one id at a time.                        *)
AddUp(f, S) ==
  \A T \in SUBSET Id :
    S[T] = IF T = {} THEN 0 ELSE f[CHOOSE x \in T : TRUE] + S[T \ {CHOOSE x \in T : TRUE}]

(* A set of ids without one of its ids has one id less.                    *)
LEMMA OneLess ==
  ASSUME NEW T \in SUBSET Id, NEW x \in T
  PROVE  /\ T \ {x} \in SUBSET Id
         /\ Cardinality(T) \in Nat /\ Cardinality(T \ {x}) \in Nat
         /\ Cardinality(T) = Cardinality(T \ {x}) + 1
<1>1. IsFiniteSet(T)
  BY Ids, FS_Subset
<1>2. IsFiniteSet(T \ {x}) /\ Cardinality(T \ {x}) = Cardinality(T) - 1
  BY <1>1, FS_RemoveElement
<1>3. Cardinality(T) \in Nat /\ Cardinality(T \ {x}) \in Nat
  BY <1>1, <1>2, FS_CardinalityType
<1> QED  BY <1>2, <1>3

(* Something chosen from a set that is not empty is in it.                 *)
LEMMA ChosenIn == ASSUME NEW T, T # {} PROVE (CHOOSE x \in T : TRUE) \in T
  OBVIOUS

(* A set of no members is empty.                                           *)
LEMMA EmptyCardinality ==
  ASSUME NEW T \in SUBSET Id, Cardinality(T) = 0 PROVE T = {}
<1>1. IsFiniteSet(T)
  BY Ids, FS_Subset
<1> QED  BY <1>1, FS_EmptySet

(* The function with which the library sums up exists.                     *)
LEMMA SumsExist == ASSUME NEW f PROVE \E S : AddUp(f, S)
<1> DEFINE chosen(T) == CHOOSE x \in T : TRUE
           Below(k, S) == \A T \in SUBSET Id : Cardinality(T) <= k =>
                            S[T] = IF T = {} THEN 0 ELSE f[chosen(T)] + S[T \ {chosen(T)}]
           Def == {k \in Nat : \E S : Below(k, S)}
<1>1. \A T \in SUBSET Id : T # {} =>
        /\ chosen(T) \in T /\ T \ {chosen(T)} \in SUBSET Id
        /\ Cardinality(T) \in Nat /\ Cardinality(T \ {chosen(T)}) \in Nat
        /\ Cardinality(T) = Cardinality(T \ {chosen(T)}) + 1
  <2> SUFFICES ASSUME NEW T \in SUBSET Id, T # {}
               PROVE  /\ chosen(T) \in T /\ T \ {chosen(T)} \in SUBSET Id
                      /\ Cardinality(T) \in Nat /\ Cardinality(T \ {chosen(T)}) \in Nat
                      /\ Cardinality(T) = Cardinality(T \ {chosen(T)}) + 1
    OBVIOUS
  <2>1. chosen(T) \in T
    BY ChosenIn
  <2> HIDE DEF chosen
  <2> QED  BY <2>1, OneLess
<1>2. \A T \in SUBSET Id : Cardinality(T) = 0 => T = {}
  BY EmptyCardinality
<1>3. \A T \in SUBSET Id : Cardinality(T) \in Nat
  BY Ids, FS_Subset, FS_CardinalityType
<1> HIDE DEF chosen
<1>4. 0 \in Def
  <2> DEFINE S == [T \in SUBSET Id |-> 0]
  <2>1. \A T \in SUBSET Id : Cardinality(T) <= 0 => T = {} /\ S[T] = 0
    BY <1>2, <1>3
  <2> HIDE DEF S
  <2>2. Below(0, S)
    BY ONLY <2>1
  <2> HIDE DEF Below
  <2> QED  BY ONLY <2>2
<1>5. ASSUME NEW k \in Nat, k \in Def PROVE k + 1 \in Def
  <2>1. PICK S : Below(k, S)
    BY ONLY <1>5
  <2> DEFINE G == [T \in SUBSET Id |-> IF Cardinality(T) = k + 1
                                       THEN f[chosen(T)] + S[T \ {chosen(T)}] ELSE S[T]]
  <2>2. ASSUME NEW T \in SUBSET Id, Cardinality(T) <= k + 1
        PROVE  G[T] = IF T = {} THEN 0 ELSE f[chosen(T)] + G[T \ {chosen(T)}]
    <3>1. CASE T = {}
      <4>1. Cardinality(T) = 0
        BY ONLY <3>1, FS_EmptySet
      <4>2. G[T] = S[T]
        BY ONLY <4>1, k \in Nat, T \in SUBSET Id
      <4>3. S[T] = 0
        BY ONLY <2>1, <3>1, <4>1, k \in Nat, T \in SUBSET Id
      <4> QED  BY ONLY <3>1, <4>2, <4>3
    <3>2. CASE T # {}
      <4>1. /\ T \ {chosen(T)} \in SUBSET Id /\ Cardinality(T) \in Nat
            /\ Cardinality(T \ {chosen(T)}) \in Nat
            /\ Cardinality(T) = Cardinality(T \ {chosen(T)}) + 1
        BY ONLY <1>1, <3>2, T \in SUBSET Id
      <4>2. Cardinality(T \ {chosen(T)}) <= k /\ Cardinality(T \ {chosen(T)}) # k + 1
        BY ONLY <2>2, <4>1, k \in Nat
      <4>3. G[T \ {chosen(T)}] = S[T \ {chosen(T)}]
        BY ONLY <4>1, <4>2
      <4>4. G[T] = IF Cardinality(T) = k + 1 THEN f[chosen(T)] + S[T \ {chosen(T)}] ELSE S[T]
        BY ONLY T \in SUBSET Id
      <4>5. Cardinality(T) # k + 1 => S[T] = f[chosen(T)] + S[T \ {chosen(T)}]
        BY ONLY <2>1, <2>2, <3>2, <4>1, k \in Nat, T \in SUBSET Id
      <4> HIDE DEF G
      <4> QED  BY ONLY <3>2, <4>3, <4>4, <4>5
    <3> QED  BY ONLY <3>1, <3>2
  <2> HIDE DEF G
  <2>3. Below(k + 1, G)
    BY ONLY <2>2
  <2> HIDE DEF Below
  <2>4. k + 1 \in Nat
    BY ONLY k \in Nat
  <2> QED  BY ONLY <2>3, <2>4
<1>6. Cardinality(Id) \in Def /\ \A T \in SUBSET Id : Cardinality(T) <= Cardinality(Id)
  <2>1. Cardinality(Id) \in Nat
    BY <1>3
  <2> HIDE DEF Def
  <2>2. Cardinality(Id) \in Def
    BY ONLY <1>4, <1>5, <2>1, NatInduct
  <2> QED  BY <2>2, Ids, FS_Subset
<1>7. PICK S : Below(Cardinality(Id), S)
  BY ONLY <1>6
<1> QED  BY ONLY <1>6, <1>7 DEF AddUp, chosen

(* SumFunction adds up.                                                    *)
LEMMA SumsAddUp ==
  ASSUME NEW f, DOMAIN f = Id
  PROVE  \E S : AddUp(f, S) /\ SumFunction(f) = S[Id]
<1> DEFINE chosen(T) == CHOOSE x \in T : TRUE
           Eq(S) == S = [T \in SUBSET DOMAIN f |->
                          IF T = {} THEN 0 ELSE f[chosen(T)] + S[T \ {chosen(T)}]]
           sums == CHOOSE S : Eq(S)
<1>1. SumFunction(f) = sums[Id]
  BY DEF SumFunction, SumFunctionOnSet, FoldFunctionOnSet, MapThenFoldSet
<1>2. PICK S : AddUp(f, S)
  BY SumsExist
<1> DEFINE G == [T \in SUBSET Id |-> S[T]]
<1>3. \A T \in SUBSET Id : G[T] = S[T] /\ G[T \ {chosen(T)}] = S[T \ {chosen(T)}]
  OBVIOUS
<1>4. G = [T \in SUBSET Id |-> G[T]]
  OBVIOUS
<1> HIDE DEF G
<1>5. \A T \in SUBSET Id : G[T] = IF T = {} THEN 0 ELSE f[chosen(T)] + G[T \ {chosen(T)}]
  BY ONLY <1>2, <1>3 DEF AddUp
<1>6. Eq(G)
  BY ONLY <1>4, <1>5, DOMAIN f = Id
<1> HIDE DEF Eq
<1>7. Eq(sums)
  BY ONLY <1>6
<1>8. AddUp(f, sums)
  BY ONLY <1>7, DOMAIN f = Id DEF Eq, AddUp
<1> HIDE DEF sums
<1> QED  BY ONLY <1>1, <1>8

(* The values of a set that adds up are whole numbers, and any of its ids  *)
(* may come first.                                                         *)
LEMMA SumsSplit ==
  ASSUME NEW f \in [Id -> Int], NEW S, AddUp(f, S)
  PROVE  \A T \in SUBSET Id : S[T] \in Int /\ \A x \in T : S[T] = f[x] + S[T \ {x}]
<1> DEFINE chosen(T) == CHOOSE x \in T : TRUE
           Splits(T) == S[T] \in Int /\ \A x \in T : S[T] = f[x] + S[T \ {x}]
           Def == {k \in Nat : \A T \in SUBSET Id : Cardinality(T) <= k => Splits(T)}
<1>1. ASSUME NEW T \in SUBSET Id, NEW x \in T
      PROVE  /\ T \ {x} \in SUBSET Id /\ Cardinality(T) \in Nat /\ Cardinality(T \ {x}) \in Nat
             /\ Cardinality(T) = Cardinality(T \ {x}) + 1
  BY OneLess
<1>2. \A T \in SUBSET Id : Cardinality(T) = 0 => T = {}
  BY EmptyCardinality
<1>3. \A T \in SUBSET Id : T # {} => chosen(T) \in T /\ S[T] = f[chosen(T)] + S[T \ {chosen(T)}]
  BY ChosenIn DEF AddUp
<1>4. S[{}] = 0
  BY DEF AddUp
<1>5. \A x \in Id : f[x] \in Int
  OBVIOUS
<1> HIDE DEF chosen
<1>6. 0 \in Def /\ \A T \in SUBSET Id : Cardinality(T) \in Nat
  <2>1. \A T \in SUBSET Id : Cardinality(T) \in Nat
    BY Ids, FS_Subset, FS_CardinalityType
  <2>2. \A T \in SUBSET Id : Cardinality(T) <= 0 => T = {}
    BY ONLY <1>2, <2>1
  <2> QED  BY ONLY <1>4, <2>1, <2>2
<1>7. ASSUME NEW k \in Nat, k \in Def PROVE k + 1 \in Def
  <2>1. \A T \in SUBSET Id : Cardinality(T) <= k => Splits(T)
    BY ONLY <1>7
  <2>2. ASSUME NEW T \in SUBSET Id, Cardinality(T) <= k + 1, T # {} PROVE Splits(T)
    <3>2. /\ chosen(T) \in T /\ T \ {chosen(T)} \in SUBSET Id
          /\ Cardinality(T \ {chosen(T)}) <= k /\ S[T] = f[chosen(T)] + S[T \ {chosen(T)}]
      <4>1. chosen(T) \in T /\ S[T] = f[chosen(T)] + S[T \ {chosen(T)}]
        BY ONLY <1>3, <2>2, T \in SUBSET Id
      <4>2. /\ T \ {chosen(T)} \in SUBSET Id /\ Cardinality(T \ {chosen(T)}) \in Nat
            /\ Cardinality(T) = Cardinality(T \ {chosen(T)}) + 1
        BY ONLY <1>1, <4>1, T \in SUBSET Id
      <4> QED  BY ONLY <2>2, <4>1, <4>2, k \in Nat
    <3>3. Splits(T \ {chosen(T)})
      BY ONLY <2>1, <3>2
    <3>4. S[T] \in Int
      <4>1. S[T \ {chosen(T)}] \in Int
        BY ONLY <3>3
      <4>2. f[chosen(T)] \in Int
        BY ONLY <1>5, <3>2, T \in SUBSET Id
      <4> QED  BY ONLY <3>2, <4>1, <4>2
    <3>5. ASSUME NEW x \in T, x # chosen(T) PROVE S[T] = f[x] + S[T \ {x}]
      <4> DEFINE R == (T \ {chosen(T)}) \ {x}
      <4>1. x \in T \ {chosen(T)} /\ chosen(T) \in T \ {x} /\ (T \ {x}) \ {chosen(T)} = R
        BY ONLY <3>2, <3>5
      <4>2. S[T \ {chosen(T)}] = f[x] + S[R]
        BY ONLY <3>3, <4>1
      <4>3. T \ {x} \in SUBSET Id /\ Cardinality(T \ {x}) <= k
        BY ONLY <1>1, <2>2, <3>5, k \in Nat, T \in SUBSET Id
      <4>4. S[T \ {x}] = f[chosen(T)] + S[R]
        <5>1. Splits(T \ {x})
          BY ONLY <2>1, <4>3
        <5> QED  BY ONLY <4>1, <5>1
      <4>5. R \in SUBSET Id /\ Cardinality(R) <= k
        <5>1. R \in SUBSET Id /\ Cardinality(T \ {x}) = Cardinality(R) + 1 /\ Cardinality(R) \in Nat
          BY ONLY <1>1, <4>1, <4>3
        <5> QED  BY ONLY <4>3, <5>1, k \in Nat
      <4>6. S[R] \in Int
        BY ONLY <2>1, <4>5
      <4>7. f[x] \in Int /\ f[chosen(T)] \in Int
        BY ONLY <1>5, <3>2, <3>5, T \in SUBSET Id
      <4> HIDE DEF R
      <4> QED  BY ONLY <3>2, <4>2, <4>4, <4>6, <4>7
    <3> QED  BY ONLY <3>2, <3>4, <3>5
  <2>3. k + 1 \in Nat /\ Splits({})
    BY ONLY <1>4, k \in Nat
  <2> HIDE DEF Splits
  <2> QED  BY ONLY <2>2, <2>3
<1>8. \A k \in Nat : k \in Def
  <2> HIDE DEF Def
  <2> QED  BY ONLY <1>6, <1>7, NatInduct
<1> HIDE DEF Splits
<1>9. \A T \in SUBSET Id : Splits(T)
  BY ONLY <1>6, <1>8
<1> QED  BY ONLY <1>9 DEF Splits

(* Two functions that differ in two ids, and there by amounts that make    *)
(* up for each other, have the same sum.                                   *)
LEMMA SameSum ==
  ASSUME NEW f \in [Id -> Int], NEW g \in [Id -> Int], NEW i \in Id, NEW j \in Id, i # j,
         f[i] + f[j] = g[i] + g[j], \A p \in Id \ {i, j} : f[p] = g[p]
  PROVE  SumFunction(f) = SumFunction(g)
<1>1. PICK S : AddUp(f, S) /\ SumFunction(f) = S[Id]
  BY SumsAddUp
<1>2. PICK R : AddUp(g, R) /\ SumFunction(g) = R[Id]
  BY SumsAddUp
<1>3. \A T \in SUBSET Id : S[T] \in Int /\ \A x \in T : S[T] = f[x] + S[T \ {x}]
  BY ONLY <1>1, SumsSplit, f \in [Id -> Int]
<1>4. \A T \in SUBSET Id : R[T] \in Int /\ \A x \in T : R[T] = g[x] + R[T \ {x}]
  BY ONLY <1>2, SumsSplit, g \in [Id -> Int]
<1> DEFINE Rest == Id \ {i, j}
           Same(T) == S[T] = R[T]
           Def == {k \in Nat : \A T \in SUBSET Rest : Cardinality(T) <= k => Same(T)}
<1>5. \A T \in SUBSET Rest : /\ T \in SUBSET Id /\ Cardinality(T) \in Nat
                             /\ Cardinality(T) = 0 => T = {}
  BY Ids, FS_Subset, FS_CardinalityType, EmptyCardinality
<1>6. 0 \in Def
  <2>1. S[{}] = 0 /\ R[{}] = 0
    BY <1>1, <1>2 DEF AddUp
  <2>2. \A T \in SUBSET Rest : Cardinality(T) <= 0 => T = {}
    BY ONLY <1>5
  <2> QED  BY ONLY <2>1, <2>2
<1>7. ASSUME NEW k \in Nat, k \in Def PROVE k + 1 \in Def
  <2>1. \A T \in SUBSET Rest : Cardinality(T) <= k => Same(T)
    BY ONLY <1>7
  <2>2. ASSUME NEW T \in SUBSET Rest, Cardinality(T) <= k + 1, T # {} PROVE Same(T)
    <3>1. PICK x \in T : TRUE
      BY ONLY <2>2
    <3>2. /\ T \in SUBSET Id /\ T \ {x} \in SUBSET Rest /\ x \in Rest
      BY ONLY <1>5, <3>1, T \in SUBSET Rest
    <3>3. Cardinality(T) = Cardinality(T \ {x}) + 1 /\ Cardinality(T \ {x}) \in Nat
      BY <3>1, <3>2, OneLess
    <3>4. Same(T \ {x})
      BY ONLY <2>1, <2>2, <3>2, <3>3, k \in Nat
    <3>5. f[x] = g[x]
      BY <3>2
    <3> QED  BY ONLY <1>3, <1>4, <3>1, <3>2, <3>4, <3>5
  <2>3. k + 1 \in Nat /\ Same({})
    <3>1. Cardinality({}) = 0 /\ {} \in SUBSET Rest
      BY FS_EmptySet
    <3> QED  BY ONLY <2>1, <3>1, k \in Nat
  <2> HIDE DEF Same
  <2> QED  BY ONLY <2>2, <2>3
<1>8. \A k \in Nat : k \in Def
  <2> HIDE DEF Def
  <2> QED  BY ONLY <1>6, <1>7, NatInduct
<1>9. Same(Rest)
  <2>1. Rest \in SUBSET Rest /\ Cardinality(Rest) <= Cardinality(Rest)
    BY ONLY <1>5
  <2> HIDE DEF Same, Rest
  <2> QED  BY ONLY <1>5, <1>8, <2>1
<1>10. /\ S[Id] = f[i] + S[Id \ {i}] /\ S[Id \ {i}] = f[j] + S[Rest]
       /\ R[Id] = g[i] + R[Id \ {i}] /\ R[Id \ {i}] = g[j] + R[Rest]
  <2>1. /\ Id \in SUBSET Id /\ Id \ {i} \in SUBSET Id /\ i \in Id /\ j \in Id \ {i}
        /\ (Id \ {i}) \ {j} = Rest
    OBVIOUS
  <2> HIDE DEF Rest
  <2> QED  BY ONLY <1>3, <1>4, <2>1
<1>11. /\ f[i] \in Int /\ f[j] \in Int /\ g[i] \in Int /\ g[j] \in Int
       /\ S[Rest] \in Int /\ f[i] + f[j] = g[i] + g[j]
  BY <1>3, <1>5
<1> HIDE DEF Rest
<1> QED  BY ONLY <1>1, <1>2, <1>9, <1>10, <1>11

-----------------------------------------------------------------------------
(* The impact and the scan.                                                *)

(* A body with another velocity keeps the rest.                            *)
LEMMA NewVelocity ==
  ASSUME NEW b \in Body, NEW v \in Int
  PROVE  /\ [b EXCEPT !.vel = v] \in Body
         /\ [b EXCEPT !.vel = v].vel = v /\ [b EXCEPT !.vel = v].pos = b.pos
         /\ [b EXCEPT !.vel = v].acc = b.acc /\ [b EXCEPT !.vel = v].box = b.box
BY DEF Body

(* An impact exchanges the velocities of two bodies that are apart, and    *)
(* changes nothing of two that are at one place.                           *)
LEMMA ImpactSwaps ==
  ASSUME NEW bodies \in [Id -> Body], NEW i \in Id, NEW j \in Id, i # j
  PROVE  /\ Impact(bodies, i, j) \in [Id -> Body]
         /\ \A p \in Id : /\ Impact(bodies, i, j)[p].pos = bodies[p].pos
                          /\ Impact(bodies, i, j)[p].acc = bodies[p].acc
                          /\ Impact(bodies, i, j)[p].box = bodies[p].box
         /\ \A p \in Id \ {i, j} : Impact(bodies, i, j)[p].vel = bodies[p].vel
         /\ bodies[i].pos = bodies[j].pos =>
              /\ Impact(bodies, i, j)[i].vel = bodies[i].vel
              /\ Impact(bodies, i, j)[j].vel = bodies[j].vel
         /\ bodies[i].pos # bodies[j].pos =>
              /\ Impact(bodies, i, j)[i].vel = bodies[j].vel
              /\ Impact(bodies, i, j)[j].vel = bodies[i].vel
<1> DEFINE change == Change(bodies, i, j)
           after == [bodies EXCEPT ![i].vel = @ + change, ![j].vel = @ - change]
<1>1. Impact(bodies, i, j) = after
  BY DEF Impact
<1>2. \A p \in Id : bodies[p] \in Body
  OBVIOUS
<1>3. /\ bodies[i].vel \in Int /\ bodies[j].vel \in Int /\ change \in Int
      /\ bodies[i].pos = bodies[j].pos => change = 0
      /\ bodies[i].pos # bodies[j].pos => change = bodies[j].vel - bodies[i].vel
  BY <1>2 DEF Body, Change
<1> HIDE DEF change
<1>4. /\ after[i] = [bodies[i] EXCEPT !.vel = bodies[i].vel + change]
      /\ after[j] = [bodies[j] EXCEPT !.vel = bodies[j].vel - change]
      /\ \A p \in Id \ {i, j} : after[p] = bodies[p]
      /\ after = [p \in Id |-> after[p]]
  OBVIOUS
<1> HIDE DEF after
<1>5. /\ after[i] \in Body /\ after[i].vel = bodies[i].vel + change
      /\ after[i].pos = bodies[i].pos /\ after[i].acc = bodies[i].acc
      /\ after[i].box = bodies[i].box
  <2>1. bodies[i] \in Body /\ bodies[i].vel + change \in Int
    BY ONLY <1>2, <1>3, i \in Id
  <2> QED  BY ONLY <1>4, <2>1, NewVelocity
<1>6. /\ after[j] \in Body /\ after[j].vel = bodies[j].vel - change
      /\ after[j].pos = bodies[j].pos /\ after[j].acc = bodies[j].acc
      /\ after[j].box = bodies[j].box
  <2>1. bodies[j] \in Body /\ bodies[j].vel - change \in Int
    BY ONLY <1>2, <1>3, j \in Id
  <2> QED  BY ONLY <1>4, <2>1, NewVelocity
<1>7. \A p \in Id : /\ after[p] \in Body
                    /\ after[p].pos = bodies[p].pos /\ after[p].acc = bodies[p].acc
                    /\ after[p].box = bodies[p].box
  BY ONLY <1>2, <1>4, <1>5, <1>6
<1>8. after \in [Id -> Body]
  BY ONLY <1>4, <1>7
<1>9. bodies[i].pos = bodies[j].pos => after[i].vel = bodies[i].vel /\ after[j].vel = bodies[j].vel
  BY ONLY <1>3, <1>5, <1>6
<1>10. bodies[i].pos # bodies[j].pos => after[i].vel = bodies[j].vel /\ after[j].vel = bodies[i].vel
  BY ONLY <1>3, <1>5, <1>6
<1> QED  BY ONLY <1>1, <1>4, <1>7, <1>8, <1>9, <1>10

(* What the loops never touch, and whom they announce.                     *)
ScanType == [bodies : [Id -> Body], collided : SUBSET Id, returned : BOOLEAN]

(* Impacts change nothing but velocities.                                  *)
Untouched(start, bodies) ==
  \A p \in Id : /\ bodies[p].pos = start[p].pos /\ bodies[p].acc = start[p].acc
                /\ bodies[p].box = start[p].box

(* Whose velocity changed is announced.                                    *)
Announced(start, scan) ==
  \A p \in Id : scan.bodies[p].vel # start[p].vel => p \in scan.collided

(* The sums of the momentum and of the energy.                             *)
Momentum(bodies) == SumFunction([p \in Id |-> bodies[p].vel])

(* Twice the energy of all bodies, for equal masses of one.                *)
Energy(bodies) == SumFunction([p \in Id |-> bodies[p].vel * bodies[p].vel])

(* Momentum and energy are what they were.                                 *)
Conserved(start, bodies) ==
  Momentum(bodies) = Momentum(start) /\ Energy(bodies) = Energy(start)

(* The pair that is looked at: nothing, the return, or an impact.          *)
LEMMA CheckPairDoes ==
  ASSUME NEW scan, NEW pair
  PROVE  LET i == pair[1]
             j == pair[2]
         IN  \/ /\ CheckPair(scan, pair) = scan
                /\ scan.returned \/ ~IsPair(i, j) \/ ~IsCollide(scan.bodies, i, j)
             \/ /\ CheckPair(scan, pair) = [scan EXCEPT !.returned = TRUE]
                /\ ~scan.returned /\ IsPair(i, j) /\ IsCollide(scan.bodies, i, j)
                /\ Approach(scan.bodies, i, j) < 0
             \/ /\ CheckPair(scan, pair) = [scan EXCEPT !.bodies = Impact(@, i, j),
                                                        !.collided = @ \cup {i, j}]
                /\ ~scan.returned /\ IsPair(i, j) /\ IsCollide(scan.bodies, i, j)
                /\ ~(Approach(scan.bodies, i, j) < 0)
BY Zenon DEF CheckPair

(* The two of a pair are different ids in use.                             *)
LEMMA PairIds ==
  ASSUME m_CharacterList \subseteq Id, NEW i, NEW j, IsPair(i, j)
  PROVE  i \in Id /\ j \in Id /\ i # j /\ i < j /\ i \in m_CharacterList /\ j \in m_CharacterList
<1>1. i \in Id /\ j \in Id /\ i < j /\ i \in m_CharacterList /\ j \in m_CharacterList
  BY DEF IsPair
<1> QED  BY <1>1, Ids

(* An impact passes momentum and energy on.                                *)
LEMMA ImpactConserves ==
  ASSUME NEW bodies \in [Id -> Body], NEW i \in Id, NEW j \in Id, i # j
  PROVE  Conserved(bodies, Impact(bodies, i, j))
<1> DEFINE after == Impact(bodies, i, j)
           vel(b) == [p \in Id |-> b[p].vel]
           energy(b) == [p \in Id |-> b[p].vel * b[p].vel]
<1>1. /\ after \in [Id -> Body]
      /\ \A p \in Id \ {i, j} : after[p].vel = bodies[p].vel
      /\ \/ after[i].vel = bodies[i].vel /\ after[j].vel = bodies[j].vel
         \/ after[i].vel = bodies[j].vel /\ after[j].vel = bodies[i].vel
  BY ImpactSwaps
<1> HIDE DEF after
<1>2. \A p \in Id : bodies[p].vel \in Int /\ after[p].vel \in Int
  BY <1>1 DEF Body
<1>3. SumFunction(vel(after)) = SumFunction(vel(bodies))
  <2>1. vel(after) \in [Id -> Int] /\ vel(bodies) \in [Id -> Int]
    BY ONLY <1>2
  <2>2. \A p \in Id : vel(after)[p] = after[p].vel /\ vel(bodies)[p] = bodies[p].vel
    OBVIOUS
  <2> HIDE DEF vel
  <2>3. \A p \in Id \ {i, j} : vel(after)[p] = vel(bodies)[p]
    BY ONLY <1>1, <2>2
  <2>4. vel(after)[i] + vel(after)[j] = vel(bodies)[i] + vel(bodies)[j]
    BY ONLY <1>1, <1>2, <2>2, i \in Id, j \in Id
  <2> QED  BY ONLY <2>1, <2>3, <2>4, SameSum, i \in Id, j \in Id, i # j
<1>4. SumFunction(energy(after)) = SumFunction(energy(bodies))
  <2>1. energy(after) \in [Id -> Int] /\ energy(bodies) \in [Id -> Int]
    BY ONLY <1>2
  <2>2. \A p \in Id : /\ energy(after)[p] = after[p].vel * after[p].vel
                      /\ energy(bodies)[p] = bodies[p].vel * bodies[p].vel
    OBVIOUS
  <2> HIDE DEF energy
  <2>3. \A p \in Id \ {i, j} : energy(after)[p] = energy(bodies)[p]
    BY ONLY <1>1, <2>2
  <2>4. \/ energy(after)[i] = energy(bodies)[i] /\ energy(after)[j] = energy(bodies)[j]
        \/ energy(after)[i] = energy(bodies)[j] /\ energy(after)[j] = energy(bodies)[i]
    BY ONLY <1>1, <2>2, i \in Id, j \in Id
  <2>5. energy(after)[i] + energy(after)[j] = energy(bodies)[i] + energy(bodies)[j]
    <3>1. energy(bodies)[i] \in Int /\ energy(bodies)[j] \in Int
      BY ONLY <2>1, i \in Id, j \in Id
    <3> QED  BY ONLY <2>4, <3>1
  <2> QED  BY ONLY <2>1, <2>3, <2>5, SameSum, i \in Id, j \in Id, i # j
<1> QED  BY <1>3, <1>4 DEF Conserved, Momentum, Energy, after

(* What a step of the loops keeps: nothing but velocities is touched, the  *)
(* bodies whose velocity changes are announced, and momentum and energy    *)
(* are what they were.                                                     *)
Kept(start, scan) ==
  /\ scan \in ScanType
  /\ Untouched(start, scan.bodies)
  /\ Announced(start, scan)
  /\ Conserved(start, scan.bodies)

(* One look at a pair keeps what the scan has kept so far.                 *)
LEMMA CheckPairKeeps ==
  ASSUME m_CharacterList \subseteq Id, NEW start, NEW scan, Kept(start, scan), NEW pair
  PROVE  Kept(start, CheckPair(scan, pair))
<1> DEFINE i == pair[1]
           j == pair[2]
           after == CheckPair(scan, pair)
           impact == Impact(scan.bodies, i, j)
<1>1. \/ after = scan
      \/ after = [scan EXCEPT !.returned = TRUE]
      \/ after = [scan EXCEPT !.bodies = impact, !.collided = @ \cup {i, j}] /\ IsPair(i, j)
  BY CheckPairDoes
<1> HIDE DEF after, impact, i, j
<1>2. /\ scan.bodies \in [Id -> Body] /\ scan.collided \in SUBSET Id /\ scan.returned \in BOOLEAN
      /\ scan = [bodies |-> scan.bodies, collided |-> scan.collided, returned |-> scan.returned]
  BY DEF Kept, ScanType
<1>3. CASE after = scan
  BY ONLY <1>3, Kept(start, scan) DEF after
<1>4. CASE after = [scan EXCEPT !.returned = TRUE]
  <2>1. after.bodies = scan.bodies /\ after.collided = scan.collided /\ after \in ScanType
    BY ONLY <1>2, <1>4 DEF ScanType
  <2>2. Untouched(start, after.bodies) /\ Conserved(start, after.bodies)
    BY ONLY <2>1, Kept(start, scan) DEF Kept
  <2>3. Announced(start, after)
    BY ONLY <2>1, Kept(start, scan) DEF Kept, Announced
  <2> QED  BY ONLY <2>1, <2>2, <2>3 DEF Kept, after
<1>5. CASE after = [scan EXCEPT !.bodies = impact, !.collided = @ \cup {i, j}] /\ IsPair(i, j)
  <2>1. i \in Id /\ j \in Id /\ i # j
    BY <1>5, PairIds
  <2>2. /\ impact \in [Id -> Body]
        /\ \A p \in Id : /\ impact[p].pos = scan.bodies[p].pos /\ impact[p].acc = scan.bodies[p].acc
                         /\ impact[p].box = scan.bodies[p].box
        /\ \A p \in Id \ {i, j} : impact[p].vel = scan.bodies[p].vel
    BY <1>2, <2>1, ImpactSwaps DEF impact
  <2>3. Conserved(scan.bodies, impact)
    BY <1>2, <2>1, ImpactConserves DEF impact
  <2>4. after.bodies = impact /\ after.collided = scan.collided \cup {i, j} /\ after \in ScanType
    <3>1. after = [bodies |-> impact, collided |-> scan.collided \cup {i, j},
                   returned |-> scan.returned]
      BY ONLY <1>2, <1>5
    <3>2. scan.collided \cup {i, j} \in SUBSET Id
      BY ONLY <1>2, <2>1
    <3> QED  BY ONLY <1>2, <2>2, <3>1, <3>2 DEF ScanType
  <2>5. Untouched(start, after.bodies)
    BY ONLY <2>2, <2>4, Kept(start, scan) DEF Kept, Untouched
  <2>6. Announced(start, after)
    BY ONLY <2>2, <2>4, Kept(start, scan) DEF Kept, Announced
  <2>7. Conserved(start, after.bodies)
    BY ONLY <2>3, <2>4, Kept(start, scan) DEF Kept, Conserved
  <2> QED  BY ONLY <2>4, <2>5, <2>6, <2>7 DEF Kept, after
<1> QED  BY ONLY <1>1, <1>3, <1>4, <1>5

(* The ids of the loops are a finite sequence.                             *)
LEMMA PairsLength == Len(Pairs) \in Nat /\ DOMAIN Pairs = 1 .. Len(Pairs)
                     /\ Len(Pairs) = REAL_PLAYER_NUM * REAL_PLAYER_NUM
<1>1. REAL_PLAYER_NUM * REAL_PLAYER_NUM \in Nat
  BY Ids
<1> DEFINE n == REAL_PLAYER_NUM * REAL_PLAYER_NUM
           S == {Pairs[k] : k \in 1 .. n}
<1>2. Pairs = [k \in 1 .. n |-> Pairs[k]] /\ DOMAIN Pairs = 1 .. n
  BY DEF Pairs
<1> HIDE DEF n
<1>3. Pairs \in [1 .. n -> S]
  BY ONLY <1>2
<1> HIDE DEF S
<1>4. Pairs \in Seq(S)
  BY ONLY <1>1, <1>3 DEF n
<1>5. Len(Pairs) \in Nat /\ DOMAIN Pairs = 1 .. Len(Pairs)
  BY ONLY <1>4
<1>6. Len(Pairs) = n
  BY ONLY <1>1, <1>2, <1>5 DEF n
<1> QED  BY <1>5, <1>6 DEF n

(* What the loops have after each pair, and that there is such a thing.    *)
Scans(r, start) ==
  /\ r[0] = start /\ r[Len(Pairs)] = ScanFrom(start)
  /\ \A k \in 0 .. Len(Pairs) - 1 : r[k + 1] = CheckPair(r[k], Pairs[k + 1])

(* There is such a sequence, from any start.                               *)
LEMMA ScansExist == ASSUME NEW start PROVE \E r : Scans(r, start)
<1>1. Len(Pairs) \in Nat /\ DOMAIN Pairs = 1 .. Len(Pairs)
  BY ONLY PairsLength
<1>2. \E r : /\ r[0] = start /\ r[Len(Pairs)] = ScanFrom(start)
             /\ \A k \in 0 .. Len(Pairs) - 1 : r[k + 1] = CheckPair(r[k], Pairs[k + 1])
  BY ONLY <1>1, ScanStages
<1> QED  BY ONLY <1>2, Zenon DEF Scans

(* The whole check keeps it.                                               *)
LEMMA CheckCollisionKeeps ==
  ASSUME m_CharacterList \subseteq Id, NEW start \in [Id -> Body]
  PROVE  Kept(start, CheckCollision(start))
<1> DEFINE before == [bodies |-> start, collided |-> {}, returned |-> FALSE]
<1>1. Kept(start, before)
  <2>1. before \in ScanType /\ before.bodies = start
    BY DEF ScanType
  <2> QED  BY <2>1 DEF Kept, Untouched, Announced, Conserved
<1>2. ScanFrom(before) = CheckCollision(start)
  BY DEF ScanFrom, CheckCollision
<1> HIDE DEF before
<1>3. PICK r : /\ r[0] = before /\ r[Len(Pairs)] = ScanFrom(before)
               /\ \A k \in 0 .. Len(Pairs) - 1 : r[k + 1] = CheckPair(r[k], Pairs[k + 1])
  BY ONLY ScansExist DEF Scans
<1> DEFINE Def == {k \in Nat : k <= Len(Pairs) => Kept(start, r[k])}
<1>4. 0 \in Def
  BY ONLY <1>1, <1>3
<1>5. ASSUME NEW k \in Nat, k \in Def PROVE k + 1 \in Def
  <2>1. CASE k + 1 <= Len(Pairs)
    <3>1. Kept(start, r[k]) /\ k \in 0 .. Len(Pairs) - 1
      BY ONLY <1>5, <2>1, PairsLength
    <3>2. r[k + 1] = CheckPair(r[k], Pairs[k + 1])
      BY ONLY <1>3, <3>1
    <3>3. Kept(start, CheckPair(r[k], Pairs[k + 1]))
      BY ONLY <3>1, CheckPairKeeps, m_CharacterList \subseteq Id
    <3> QED  BY ONLY <3>2, <3>3, k \in Nat
  <2>2. CASE ~(k + 1 <= Len(Pairs))
    BY ONLY <2>2, k \in Nat
  <2> QED  BY ONLY <2>1, <2>2
<1>6. Len(Pairs) \in Def
  <2> HIDE DEF Def
  <2> QED  BY ONLY <1>4, <1>5, PairsLength, NatInduct
<1>7. Kept(start, r[Len(Pairs)])
  BY ONLY <1>6, PairsLength
<1> QED  BY ONLY <1>2, <1>3, <1>7

-----------------------------------------------------------------------------
(* The update of one body.                                                 *)

(* The constants are whole numbers.                                        *)
LEMMA Sizes ==
  /\ CB_LENGTH \in Nat /\ SKILL_RANGE \in Nat /\ MAX_PLAYER_SPEED \in Nat
  /\ ACCELERATION_WEIGHT \in Nat /\ Space \in Nat
BY MotionAssumption

(* The sign of a whole number, case by case.                               *)
LEMMA SignIs ==
  ASSUME NEW n \in Int
  PROVE  /\ Sign(n) \in {-1, 0, 1} /\ (n > 0 <=> Sign(n) = 1) /\ (n < 0 <=> Sign(n) = -1)
         /\ Sign(n) = 0 <=> n = 0
BY DEF Sign

(* A number with the sign of another one.                                  *)
LEMMA TimesSign ==
  ASSUME NEW w \in Int, NEW n \in Int
  PROVE  w * Sign(n) = IF n > 0 THEN w ELSE IF n < 0 THEN -w ELSE 0
<1>1. CASE n > 0
  BY <1>1, SignIs
<1>2. CASE n < 0
  <2>1. Sign(n) = -1
    BY <1>2, SignIs
  <2> QED  BY <1>2, <2>1
<1>3. CASE n = 0
  BY <1>3, SignIs
<1> QED  BY <1>1, <1>2, <1>3

(* The speed a body keeps of the one it reaches.                           *)
Limited(v) == IF Distance(v, 0) > MAX_PLAYER_SPEED THEN MAX_PLAYER_SPEED * Sign(v) ELSE v

(* The acceleration a body keeps.                                          *)
Thrust(acc, accelerationEnds) == IF accelerationEnds THEN 0 ELSE acc

(* A limited velocity is a whole number.                                   *)
LEMMA LimitedType == ASSUME NEW v \in Int PROVE Limited(v) \in Int
<1>1. MAX_PLAYER_SPEED * Sign(v) \in Int
  BY Sizes, TimesSign
<1> QED  BY <1>1 DEF Limited

(* What an update makes of a body that lives, field by field.              *)
LEMMA UpdateItSelfDoes ==
  ASSUME NEW b \in Body, NEW dead \in BOOLEAN, NEW ends \in BOOLEAN
  PROVE  /\ UpdateItSelf(b, dead, ends) \in Body
         /\ UpdateItSelf(b, dead, ends).acc = Thrust(b.acc, ends)
         /\ dead => /\ UpdateItSelf(b, dead, ends).pos = b.pos
                    /\ UpdateItSelf(b, dead, ends).vel = b.vel
         /\ ~dead => /\ UpdateItSelf(b, dead, ends).pos
                          = b.pos + 2 * (b.vel + Thrust(b.acc, ends)) + Thrust(b.acc, ends)
                     /\ UpdateItSelf(b, dead, ends).vel = Limited(b.vel + Thrust(b.acc, ends))
<1> DEFINE a == Thrust(b.acc, ends)
           after == UpdateItSelf(b, dead, ends)
           pushed == IF ends THEN [b EXCEPT !.acc = 0] ELSE b
           there == [pushed EXCEPT !.box = b.pos]
           carried == CalcCurrentPosition(there)
<1>1. /\ b = [pos |-> b.pos, vel |-> b.vel, acc |-> b.acc, box |-> b.box]
      /\ b.pos \in Int /\ b.vel \in Int /\ b.acc \in Int /\ b.box \in Int
  BY DEF Body
<1>2. a \in Int
  BY <1>1 DEF Thrust
<1>3. pushed = [pos |-> b.pos, vel |-> b.vel, acc |-> a, box |-> b.box]
  <2>1. CASE ends
    BY <1>1, <2>1 DEF Thrust
  <2>2. CASE ~ends
    BY <1>1, <2>2 DEF Thrust
  <2> QED  BY <2>1, <2>2
<1>4. dead => after = pushed
  BY DEF UpdateItSelf
<1>5. ~dead => after = LimitSpeed(carried)
  BY DEF UpdateItSelf
<1> HIDE DEF pushed, a, after
<1>6. there = [pos |-> b.pos, vel |-> b.vel, acc |-> a, box |-> b.pos]
  BY ONLY <1>3
<1> HIDE DEF there
<1>7. carried = [pos |-> b.pos + 2 * (b.vel + a) + a, vel |-> b.vel + a, acc |-> a, box |-> b.pos]
  <2>1. carried = [there EXCEPT !.vel = there.vel + there.acc,
                                !.pos = there.pos + 2 * (there.vel + there.acc) + there.acc]
    BY ONLY DEF CalcCurrentPosition
  <2>2. there.pos = b.pos /\ there.vel = b.vel /\ there.acc = a
    BY ONLY <1>6
  <2>3. carried = [there EXCEPT !.vel = b.vel + a, !.pos = b.pos + 2 * (b.vel + a) + a]
    BY ONLY <2>1, <2>2
  <2> QED  BY ONLY <1>6, <2>3
<1> HIDE DEF carried
<1>8. LimitSpeed(carried) = [pos |-> b.pos + 2 * (b.vel + a) + a, vel |-> Limited(b.vel + a),
                             acc |-> a, box |-> b.pos]
  BY ONLY <1>7 DEF LimitSpeed, Limited
<1>9. b.vel + a \in Int /\ b.pos + 2 * (b.vel + a) + a \in Int
  BY ONLY <1>1, <1>2
<1>10. Limited(b.vel + a) \in Int
  BY <1>9, LimitedType
<1>11. dead => after = [pos |-> b.pos, vel |-> b.vel, acc |-> a, box |-> b.box]
  BY ONLY <1>3, <1>4
<1>12. ~dead => after = [pos |-> b.pos + 2 * (b.vel + a) + a, vel |-> Limited(b.vel + a),
                         acc |-> a, box |-> b.pos]
  BY ONLY <1>5, <1>8
<1>13. after \in Body
  <2>1. CASE dead
    BY ONLY <1>1, <1>2, <1>11, <2>1 DEF Body
  <2>2. CASE ~dead
    BY ONLY <1>1, <1>2, <1>9, <1>10, <1>12, <2>2 DEF Body
  <2> QED  BY ONLY <2>1, <2>2
<1>14. /\ after.acc = a
       /\ dead => after.pos = b.pos /\ after.vel = b.vel
       /\ ~dead => /\ after.pos = b.pos + 2 * (b.vel + a) + a
                   /\ after.vel = Limited(b.vel + a)
  <2>1. CASE dead
    BY ONLY <1>11, <2>1
  <2>2. CASE ~dead
    BY ONLY <1>12, <2>2
  <2> QED  BY ONLY <2>1, <2>2
<1> QED  BY ONLY <1>13, <1>14 DEF after, a

(* Update leaves typed bodies.                                             *)
LEMMA MovedType ==
  ASSUME MotionType, NEW ending
  PROVE  /\ Moved(ending) \in [Id -> Body]
         /\ \A p \in m_CharacterList :
              Moved(ending)[p] = UpdateItSelf(body[p], p \in m_IsDead, p \in ending)
<1>1. \A p \in Id : body[p] \in Body
  BY DEF MotionType
<1>2. ASSUME NEW p \in Id
      PROVE  UpdateItSelf(body[p], p \in m_IsDead, p \in ending) \in Body
  <2>1. body[p] \in Body /\ (p \in m_IsDead) \in BOOLEAN /\ (p \in ending) \in BOOLEAN
    BY <1>1
  <2> QED  BY ONLY <2>1, UpdateItSelfDoes
<1>3. m_CharacterList \subseteq Id
  BY DEF MotionType
<1> DEFINE u(p) == UpdateItSelf(body[p], p \in m_IsDead, p \in ending)
<1>4. Moved(ending) = [p \in Id |-> IF p \in m_CharacterList THEN u(p) ELSE body[p]]
  BY DEF Moved
<1>5. \A p \in Id : u(p) \in Body
  BY ONLY <1>2
<1> HIDE DEF u
<1>6. /\ Moved(ending) \in [Id -> Body]
      /\ \A p \in m_CharacterList : Moved(ending)[p] = u(p)
  BY ONLY <1>1, <1>3, <1>4, <1>5
<1> QED  BY ONLY <1>6 DEF u

(* All this follows from the types alone.                                  *)
LEMMA TypeConserves == MotionType => ImpactsConserve
<1> SUFFICES ASSUME MotionType, NEW ending \in SUBSET Accelerating
             PROVE  LET moved == Moved(ending)
                        scan == CheckCollision(moved)
                        before == [p \in Id |-> moved[p].vel]
                        after == [p \in Id |-> scan.bodies[p].vel]
                    IN  /\ SumFunction(after) = SumFunction(before)
                        /\ SumFunction([p \in Id |-> after[p] * after[p]])
                             = SumFunction([p \in Id |-> before[p] * before[p]])
                        /\ \A p \in Id : after[p] # before[p] => p \in scan.collided
  BY DEF ImpactsConserve
<1> DEFINE moved == Moved(ending)
           scan == CheckCollision(moved)
           before == [p \in Id |-> moved[p].vel]
           after == [p \in Id |-> scan.bodies[p].vel]
<1>1. moved \in [Id -> Body] /\ m_CharacterList \subseteq Id
  BY MovedType DEF MotionType
<1>2. Kept(moved, scan)
  BY <1>1, CheckCollisionKeeps
<1> HIDE DEF moved, scan
<1>3. \A p \in Id : after[p] = scan.bodies[p].vel /\ before[p] = moved[p].vel
  OBVIOUS
<1>4. SumFunction(after) = SumFunction(before)
  BY ONLY <1>2 DEF Kept, Conserved, Momentum
<1>5. /\ [p \in Id |-> after[p] * after[p]] = [p \in Id |-> scan.bodies[p].vel * scan.bodies[p].vel]
      /\ [p \in Id |-> before[p] * before[p]] = [p \in Id |-> moved[p].vel * moved[p].vel]
  OBVIOUS
<1>6. SumFunction([p \in Id |-> after[p] * after[p]])
        = SumFunction([p \in Id |-> before[p] * before[p]])
  BY ONLY <1>2, <1>5 DEF Kept, Conserved, Energy
<1>7. \A p \in Id : after[p] # before[p] => p \in scan.collided
  BY ONLY <1>2, <1>3 DEF Kept, Announced
<1> QED  BY ONLY <1>4, <1>6, <1>7 DEF moved, scan

-----------------------------------------------------------------------------
(* The loops come to every pair.                                           *)

(* The pair in row i and column j stands at i * n + j.                     *)
LEMMA RowByRow ==
  ASSUME NEW n \in Nat, n # 0, NEW i \in Int, NEW j \in 0 .. n - 1
  PROVE  (i * n + j) \div n = i /\ (i * n + j) % n = j
  BY SMTT(20)

(* Multiplication distributes over a difference.                           *)
LEMMA TimesDifference ==
  ASSUME NEW a \in Int, NEW b \in Int, NEW n \in Int PROVE n * (a - b) = n * a - n * b
  OBVIOUS

(* A product with a positive number is no smaller.                         *)
LEMMA TimesAtLeast == ASSUME NEW n \in Nat, NEW q \in Int, q >= 1 PROVE n * q >= n
  OBVIOUS

(* A row of n fits among the n * n.                                        *)
LEMMA RowsFit ==
  ASSUME NEW n \in Nat, NEW i \in 0 .. n - 1
  PROVE  i * n \in Nat /\ i * n + n <= n * n
<1>1. i * n \in Nat /\ n - i >= 1 /\ n - i \in Int
  OBVIOUS
<1> QED  BY <1>1, TimesAtLeast, TimesDifference

(* The loops come to every pair of ids in use.                             *)
LEMMA EveryPair ==
  ASSUME NEW i \in Id, NEW j \in Id
  PROVE  \E k \in 1 .. Len(Pairs) : Pairs[k] = <<i, j>>
<1> DEFINE n == REAL_PLAYER_NUM
           k == i * n + j + 1
<1>1. n \in Nat /\ n # 0 /\ i \in 0 .. n - 1 /\ j \in 0 .. n - 1
  BY Ids DEF Id
<1>2. Len(Pairs) = n * n
  BY PairsLength
<1>3. Pairs = [m \in 1 .. n * n |-> <<(m - 1) \div n, (m - 1) % n>>]
  BY DEF Pairs
<1> HIDE DEF n
<1>4. i * n \in Nat /\ i * n + n <= n * n /\ n * n \in Nat
  BY ONLY <1>1, RowsFit
<1>5. k \in 1 .. n * n /\ k - 1 = i * n + j
  BY ONLY <1>1, <1>4
<1>6. (i * n + j) \div n = i /\ (i * n + j) % n = j
  BY ONLY <1>1, RowByRow
<1> HIDE DEF k
<1>7. Pairs[k] = <<(k - 1) \div n, (k - 1) % n>>
  BY ONLY <1>3, <1>5
<1>8. Pairs[k] = <<i, j>>
  BY ONLY <1>5, <1>6, <1>7
<1> QED  BY ONLY <1>2, <1>5, <1>8

-----------------------------------------------------------------------------
(* The only pair that overlaps.                                            *)

(* How fast two bodies come nearer, by the order of their places.          *)
LEMMA ApproachIs ==
  ASSUME NEW bodies \in [Id -> Body], NEW i \in Id, NEW j \in Id
  PROVE  Approach(bodies, i, j)
           = IF bodies[i].pos < bodies[j].pos THEN bodies[i].vel - bodies[j].vel
             ELSE IF bodies[j].pos < bodies[i].pos THEN bodies[j].vel - bodies[i].vel
             ELSE 0
<1>1. bodies[i] \in Body /\ bodies[j] \in Body
  OBVIOUS
<1>2. /\ bodies[i].pos \in Int /\ bodies[j].pos \in Int
      /\ bodies[i].vel \in Int /\ bodies[j].vel \in Int
  BY ONLY <1>1 DEF Body
<1>3. /\ bodies[i].vel - bodies[j].vel \in Int /\ bodies[j].pos - bodies[i].pos \in Int
      /\ -(bodies[i].vel - bodies[j].vel) = bodies[j].vel - bodies[i].vel
      /\ bodies[j].pos - bodies[i].pos > 0 <=> bodies[i].pos < bodies[j].pos
      /\ bodies[j].pos - bodies[i].pos < 0 <=> bodies[j].pos < bodies[i].pos
  BY ONLY <1>2
<1>4. Approach(bodies, i, j)
        = (bodies[i].vel - bodies[j].vel) * Sign(bodies[j].pos - bodies[i].pos)
  BY DEF Approach
<1> QED  BY ONLY <1>3, <1>4, TimesSign

(* Two bodies that came nearer to each other move apart after the impact.  *)
LEMMA ImpactTurns ==
  ASSUME NEW bodies \in [Id -> Body], NEW i \in Id, NEW j \in Id, i # j,
         ~(Approach(bodies, i, j) < 0)
  PROVE  Approach(Impact(bodies, i, j), i, j) <= 0
<1> DEFINE after == Impact(bodies, i, j)
<1>1. /\ after \in [Id -> Body]
      /\ after[i].pos = bodies[i].pos /\ after[j].pos = bodies[j].pos
      /\ bodies[i].pos # bodies[j].pos =>
           after[i].vel = bodies[j].vel /\ after[j].vel = bodies[i].vel
  BY ImpactSwaps
<1> HIDE DEF after
<1>2. /\ bodies[i].pos \in Int /\ bodies[j].pos \in Int
      /\ bodies[i].vel \in Int /\ bodies[j].vel \in Int
  <2>1. bodies[i] \in Body /\ bodies[j] \in Body
    OBVIOUS
  <2> QED  BY ONLY <2>1 DEF Body
<1>3. Approach(bodies, i, j)
        = IF bodies[i].pos < bodies[j].pos THEN bodies[i].vel - bodies[j].vel
          ELSE IF bodies[j].pos < bodies[i].pos THEN bodies[j].vel - bodies[i].vel
          ELSE 0
  BY ApproachIs
<1>4. Approach(after, i, j)
        = IF after[i].pos < after[j].pos THEN after[i].vel - after[j].vel
          ELSE IF after[j].pos < after[i].pos THEN after[j].vel - after[i].vel
          ELSE 0
  BY <1>1, ApproachIs
<1>5. CASE bodies[i].pos = bodies[j].pos
  BY ONLY <1>1, <1>2, <1>4, <1>5 DEF after
<1>6. CASE bodies[i].pos # bodies[j].pos
  <2>1. Approach(after, i, j) <= 0
    BY ONLY <1>1, <1>2, <1>3, <1>4, <1>6, ~(Approach(bodies, i, j) < 0)
  <2> QED  BY ONLY <2>1 DEF after
<1> QED  BY ONLY <1>5, <1>6

(* Whether boxes overlap depends on nothing the loops touch.               *)
LEMMA CollideStays ==
  ASSUME NEW start, NEW bodies, Untouched(start, bodies), NEW i \in Id, NEW j \in Id
  PROVE  IsCollide(bodies, i, j) <=> IsCollide(start, i, j)
<1>1. /\ bodies[i].pos = start[i].pos /\ bodies[j].pos = start[j].pos
      /\ bodies[i].box = start[i].box /\ bodies[j].box = start[j].box
  BY DEF Untouched
<1> QED  BY <1>1 DEF IsCollide

(* Once the loops have returned or have come to the only pair that         *)
(* overlaps, its bodies do not come nearer any more.                       *)
LEMMA CheckPairTurns ==
  ASSUME m_CharacterList \subseteq Id, NEW start, NEW scan, Kept(start, scan), NEW pair,
         NEW i \in Id, NEW j \in Id, IsPair(i, j), IsCollide(start, i, j),
         \A a, b \in Id : IsPair(a, b) /\ IsCollide(start, a, b) => a = i /\ b = j,
         scan.returned => Approach(scan.bodies, i, j) <= 0
  PROVE  /\ (CheckPair(scan, pair).returned
              \/ Approach(scan.bodies, i, j) <= 0 \/ pair = <<i, j>>)
            => Approach(CheckPair(scan, pair).bodies, i, j) <= 0
<1> DEFINE after == CheckPair(scan, pair)
           impact == Impact(scan.bodies, i, j)
           approach == Approach(scan.bodies, i, j)
<1>1. /\ scan.bodies \in [Id -> Body] /\ scan.collided \in SUBSET Id /\ scan.returned \in BOOLEAN
      /\ scan = [bodies |-> scan.bodies, collided |-> scan.collided, returned |-> scan.returned]
      /\ Untouched(start, scan.bodies)
  BY DEF Kept, ScanType
<1>2. IsPair(pair[1], pair[2]) /\ IsCollide(scan.bodies, pair[1], pair[2])
        => pair[1] = i /\ pair[2] = j
  <2> SUFFICES ASSUME IsPair(pair[1], pair[2]), IsCollide(scan.bodies, pair[1], pair[2])
               PROVE  pair[1] = i /\ pair[2] = j
    OBVIOUS
  <2>1. pair[1] \in Id /\ pair[2] \in Id
    BY PairIds
  <2>2. IsCollide(start, pair[1], pair[2])
    BY <1>1, <2>1, CollideStays
  <2> QED  BY <2>1, <2>2
<1>3. pair = <<i, j>> => IsPair(pair[1], pair[2]) /\ IsCollide(scan.bodies, pair[1], pair[2])
  <2>1. IsCollide(scan.bodies, i, j)
    BY <1>1, CollideStays
  <2> QED  BY <2>1
<1>4. \/ /\ after = scan
         /\ scan.returned \/ ~IsPair(pair[1], pair[2]) \/ ~IsCollide(scan.bodies, pair[1], pair[2])
      \/ /\ after = [scan EXCEPT !.returned = TRUE]
         /\ pair[1] = i /\ pair[2] = j /\ approach < 0
      \/ /\ after = [scan EXCEPT !.bodies = impact, !.collided = @ \cup {i, j}]
         /\ ~(approach < 0)
  BY <1>2, CheckPairDoes
<1>5. approach \in Int
  <2>1. scan.bodies[i] \in Body /\ scan.bodies[j] \in Body
    BY <1>1
  <2>2. scan.bodies[i].vel \in Int /\ scan.bodies[j].vel \in Int
    BY ONLY <2>1 DEF Body
  <2> QED  BY <1>1, <2>2, ApproachIs
<1>6. ~(approach < 0) => Approach(impact, i, j) <= 0
  BY <1>1, PairIds, ImpactTurns
<1> HIDE DEF after, impact, approach
<1>7. CASE /\ after = scan
           /\ \/ scan.returned \/ ~IsPair(pair[1], pair[2])
              \/ ~IsCollide(scan.bodies, pair[1], pair[2])
  BY <1>3, <1>7 DEF after, approach
<1>8. CASE after = [scan EXCEPT !.returned = TRUE] /\ approach < 0
  <2>1. after.bodies = scan.bodies
    BY ONLY <1>1, <1>8
  <2>2. Approach(after.bodies, i, j) <= 0
    BY ONLY <1>5, <1>8, <2>1 DEF approach
  <2> QED  BY ONLY <2>2 DEF after
<1>9. CASE after = [scan EXCEPT !.bodies = impact, !.collided = @ \cup {i, j}] /\ ~(approach < 0)
  <2>1. after.bodies = impact
    BY ONLY <1>1, <1>9
  <2>2. Approach(after.bodies, i, j) <= 0
    BY ONLY <1>6, <1>9, <2>1
  <2> QED  BY ONLY <2>2 DEF after
<1> QED  BY ONLY <1>4, <1>7, <1>8, <1>9

(* When only one pair is near, the check leaves it moving apart.           *)
LEMMA CheckCollisionTurns ==
  ASSUME m_CharacterList \subseteq Id, NEW start \in [Id -> Body],
         NEW i \in Id, NEW j \in Id, IsPair(i, j), IsCollide(start, i, j),
         \A a, b \in Id : IsPair(a, b) /\ IsCollide(start, a, b) => a = i /\ b = j
  PROVE  Approach(CheckCollision(start).bodies, i, j) <= 0
<1> DEFINE before == [bodies |-> start, collided |-> {}, returned |-> FALSE]
           Near(scan) == Approach(scan.bodies, i, j) <= 0
<1>1. Kept(start, before) /\ ~before.returned
  <2>1. before \in ScanType /\ before.bodies = start /\ ~before.returned
    BY DEF ScanType
  <2> QED  BY <2>1 DEF Kept, Untouched, Announced, Conserved
<1>2. ScanFrom(before) = CheckCollision(start)
  BY DEF ScanFrom, CheckCollision
<1> HIDE DEF before
<1>3. PICK r : /\ r[0] = before /\ r[Len(Pairs)] = ScanFrom(before)
               /\ \A k \in 0 .. Len(Pairs) - 1 : r[k + 1] = CheckPair(r[k], Pairs[k + 1])
  BY ONLY ScansExist DEF Scans
<1>4. ASSUME NEW scan, NEW pair, Kept(start, scan), scan.returned => Near(scan)
      PROVE  /\ Kept(start, CheckPair(scan, pair))
             /\ CheckPair(scan, pair).returned \/ Near(scan) \/ pair = <<i, j>>
                  => Near(CheckPair(scan, pair))
  BY <1>4, CheckPairKeeps, CheckPairTurns
<1> HIDE DEF Near
<1> DEFINE Come(k) == \E m \in 1 .. k : Pairs[m] = <<i, j>>
           Done(k) == Kept(start, r[k]) /\ (r[k].returned \/ Come(k) => Near(r[k]))
           Def == {k \in Nat : k <= Len(Pairs) => Done(k)}
<1>5. 0 \in Def
  <2>1. ~Come(0)
    OBVIOUS
  <2> QED  BY ONLY <1>1, <1>3, <2>1
<1>6. ASSUME NEW k \in Nat, k \in Def PROVE k + 1 \in Def
  <2>1. CASE k + 1 <= Len(Pairs)
    <3>1. Done(k) /\ k \in 0 .. Len(Pairs) - 1
      <4>1. k <= Len(Pairs) /\ k \in 0 .. Len(Pairs) - 1
        BY ONLY <2>1, PairsLength, k \in Nat
      <4> HIDE DEF Done
      <4> QED  BY ONLY <1>6, <4>1
    <3>2. r[k + 1] = CheckPair(r[k], Pairs[k + 1])
      BY ONLY <1>3, <3>1
    <3>3. /\ Kept(start, r[k + 1])
          /\ r[k + 1].returned \/ Near(r[k]) \/ Pairs[k + 1] = <<i, j>> => Near(r[k + 1])
      BY ONLY <1>4, <3>1, <3>2
    <3>4. Come(k + 1) => Come(k) \/ Pairs[k + 1] = <<i, j>>
      BY ONLY k \in Nat
    <3> HIDE DEF Come
    <3>5. Done(k + 1)
      BY ONLY <3>1, <3>3, <3>4
    <3> QED  BY ONLY <3>5, k \in Nat
  <2>2. CASE ~(k + 1 <= Len(Pairs))
    BY ONLY <2>2, k \in Nat
  <2> QED  BY ONLY <2>1, <2>2
<1>7. Len(Pairs) \in Def
  <2> HIDE DEF Def
  <2> QED  BY ONLY <1>5, <1>6, PairsLength, NatInduct
<1>8. Come(Len(Pairs))
  BY EveryPair
<1>9. Near(r[Len(Pairs)])
  <2> HIDE DEF Come, Done
  <2>1. Done(Len(Pairs))
    BY ONLY <1>7, PairsLength
  <2> QED  BY ONLY <1>8, <2>1 DEF Done
<1> QED  BY ONLY <1>2, <1>3, <1>9 DEF Near

(* Typed bodies are all that ImpactsResolved needs.                        *)
LEMMA TypeResolves == MotionType => ImpactsResolved
<1> SUFFICES ASSUME MotionType, NEW ending \in SUBSET Accelerating
             PROVE  LET bodies == CheckCollision(Moved(ending)).bodies
                        near == {pair \in m_CharacterList \X m_CharacterList :
                                   pair[1] < pair[2] /\ IsCollide(bodies, pair[1], pair[2])}
                    IN  Cardinality(near) = 1 =>
                          \A pair \in near : Approach(bodies, pair[1], pair[2]) <= 0
  BY DEF ImpactsResolved
<1> DEFINE moved == Moved(ending)
           bodies == CheckCollision(moved).bodies
           near == {pair \in m_CharacterList \X m_CharacterList :
                      pair[1] < pair[2] /\ IsCollide(bodies, pair[1], pair[2])}
<1>1. moved \in [Id -> Body] /\ m_CharacterList \subseteq Id
  BY MovedType DEF MotionType
<1> HIDE DEF moved
<1>2. Untouched(moved, bodies)
  BY <1>1, CheckCollisionKeeps DEF Kept
<1> SUFFICES ASSUME Cardinality(near) = 1, NEW pair \in near
             PROVE  Approach(bodies, pair[1], pair[2]) <= 0
  BY DEF moved
<1> HIDE DEF bodies
<1>3. near = {pair}
  <2>1. IsFiniteSet(m_CharacterList)
    BY <1>1, Ids, FS_Subset
  <2>2. IsFiniteSet(m_CharacterList \X m_CharacterList)
    BY <2>1, FS_Product
  <2>3. IsFiniteSet(near)
    BY <2>2, FS_Subset
  <2>4. \E only : near = {only}
    BY <2>3, FS_Singleton
  <2> QED  BY <2>4
<1> DEFINE i == pair[1]
           j == pair[2]
<1>4. /\ pair = <<i, j>> /\ i \in m_CharacterList /\ j \in m_CharacterList
      /\ i < j /\ IsCollide(bodies, i, j)
  OBVIOUS
<1>5. \A a, b \in m_CharacterList : a < b /\ IsCollide(bodies, a, b) => a = i /\ b = j
  <2> SUFFICES ASSUME NEW a \in m_CharacterList, NEW b \in m_CharacterList,
                      a < b, IsCollide(bodies, a, b)
               PROVE  a = i /\ b = j
    OBVIOUS
  <2>1. <<a, b>> \in near
    OBVIOUS
  <2> HIDE DEF near
  <2> QED  BY ONLY <1>3, <1>4, <2>1
<1> HIDE DEF near, i, j
<1>6. i \in Id /\ j \in Id /\ IsPair(i, j)
  BY <1>1, <1>4 DEF IsPair
<1>7. \A a, b \in Id : IsCollide(bodies, a, b) <=> IsCollide(moved, a, b)
  BY <1>2, CollideStays
<1>8. \A a, b \in Id : IsPair(a, b) /\ IsCollide(moved, a, b) => a = i /\ b = j
  BY ONLY <1>5, <1>7 DEF IsPair
<1>9. IsCollide(moved, i, j)
  BY ONLY <1>4, <1>6, <1>7
<1>10. Approach(CheckCollision(moved).bodies, i, j) <= 0
  BY <1>1, <1>6, <1>8, <1>9, CheckCollisionTurns
<1> QED  BY <1>10 DEF bodies, i, j

-----------------------------------------------------------------------------
(* The types of Motion.                                                    *)

(* A body that starts anew is typed.                                       *)
LEMMA InitRigidBodyType ==
  ASSUME NEW p \in Id, NEW box \in Int
  PROVE  /\ InitRigidBody(p, box) \in Body
         /\ InitRigidBody(p, box).vel = 0 /\ InitRigidBody(p, box).acc = 0
<1>1. PLAYER_POSITIONS[p] \in Place
  BY MotionAssumption
<1>2. PLAYER_POSITIONS[p] \in Int
  BY <1>1, Sizes DEF Place
<1> QED  BY <1>2 DEF InitRigidBody, Body

(* Thrusts leave a body typed, and move nothing.                           *)
LEMMA MoveType ==
  ASSUME NEW b \in Body, NEW d \in Int
  PROVE  /\ Move(b, d) \in Body
         /\ Move(b, d).pos = b.pos /\ Move(b, d).vel = b.vel
         /\ Move(b, d).acc = b.acc + ACCELERATION_WEIGHT * Sign(d)
<1>1. ACCELERATION_WEIGHT * Sign(d) \in Int
  BY Sizes, TimesSign
<1>2. Move(b, d) = [b EXCEPT !.acc = b.acc + ACCELERATION_WEIGHT * Sign(d)]
  BY DEF Move
<1> DEFINE force == ACCELERATION_WEIGHT * Sign(d)
<1> HIDE DEF force
<1> QED  BY ONLY <1>1, <1>2, b \in Body DEF force, Body

(* At the start there is nobody.                                           *)
LEMMA InitialMotion == Init => MotionType
<1> SUFFICES ASSUME Init PROVE MotionType
  OBVIOUS
<1>1. \A p \in Id : InitRigidBody(p, 0) \in Body
  BY InitRigidBodyType
<1> DEFINE start(p) == InitRigidBody(p, 0)
<1>2. body = [p \in Id |-> start(p)]
  BY DEF Init
<1>3. body \in [Id -> Body]
  <2> HIDE DEF start
  <2> QED  BY ONLY <1>1, <1>2 DEF start
<1> QED  BY <1>3 DEF Init, MotionType

(* One body becomes another.                                               *)
LEMMA OneBody ==
  ASSUME NEW bodies \in [Id -> Body], NEW p \in Id, NEW b \in Body
  PROVE  /\ [bodies EXCEPT ![p] = b] \in [Id -> Body]
         /\ [bodies EXCEPT ![p] = b][p] = b
         /\ \A i \in Id \ {p} : [bodies EXCEPT ![p] = b][i] = bodies[i]
OBVIOUS

(* What the requests make of the bodies.                                   *)
LEMMA DeregisterDoes ==
  ASSUME MotionType, NEW p \in Id, DeregisterCharacter(p)
  PROVE  MotionType' /\ \A i \in Id \ {p} : body'[i] = body[i]
<1>1. body' = [body EXCEPT ![p] = InitRigidBody(p, 0)]
  BY DEF DeregisterCharacter
<1>2. body \in [Id -> Body] /\ InitRigidBody(p, 0) \in Body
  BY InitRigidBodyType DEF MotionType
<1>3. body' \in [Id -> Body] /\ \A i \in Id \ {p} : body'[i] = body[i]
  BY ONLY <1>1, <1>2, OneBody, p \in Id
<1>4. (m_CharacterList \subseteq Id)' /\ (m_IsDead \subseteq m_CharacterList)'
  BY DEF DeregisterCharacter, MotionType
<1> QED  BY <1>3, <1>4 DEF MotionType

(* A respawn starts the body anew and changes no other.                    *)
LEMMA RespawnDoes ==
  ASSUME MotionType, NEW p \in Id, HandleRespawnRequest(p)
  PROVE  /\ MotionType' /\ \A i \in Id \ {p} : body'[i] = body[i]
         /\ body'[p].vel = 0 /\ body'[p].acc = 0
<1> DEFINE b == InitRigidBody(p, body[p].box)
<1>1. body' = [body EXCEPT ![p] = b]
  BY DEF HandleRespawnRequest
<1>2. body \in [Id -> Body] /\ body[p].box \in Int
  BY DEF MotionType, Body
<1>3. b \in Body /\ b.vel = 0 /\ b.acc = 0
  BY <1>2, InitRigidBodyType
<1> HIDE DEF b
<1>4. body' \in [Id -> Body] /\ body'[p] = b /\ \A i \in Id \ {p} : body'[i] = body[i]
  BY ONLY <1>1, <1>2, <1>3, OneBody, p \in Id
<1>5. (m_CharacterList \subseteq Id)' /\ (m_IsDead \subseteq m_CharacterList)'
  BY DEF HandleRespawnRequest, MotionType
<1> QED  BY <1>3, <1>4, <1>5 DEF MotionType

(* A thrust changes one acceleration.                                      *)
LEMMA GoForwardDoes ==
  ASSUME MotionType, NEW p \in Id, NEW d \in Direction, SkillGoForward(p, d)
  PROVE  /\ MotionType' /\ \A i \in Id \ {p} : body'[i] = body[i]
         /\ body'[p].pos = body[p].pos /\ body'[p].vel = body[p].vel
         /\ body'[p].acc = body[p].acc + ACCELERATION_WEIGHT * Sign(d)
<1> DEFINE b == Move(body[p], d)
<1>1. body' = [body EXCEPT ![p] = b]
  BY DEF SkillGoForward
<1>2. body \in [Id -> Body] /\ body[p] \in Body /\ d \in Int
  BY DEF MotionType, Direction
<1>3. /\ b \in Body /\ b.pos = body[p].pos /\ b.vel = body[p].vel
      /\ b.acc = body[p].acc + ACCELERATION_WEIGHT * Sign(d)
  BY <1>2, MoveType
<1> HIDE DEF b
<1>4. body' \in [Id -> Body] /\ body'[p] = b /\ \A i \in Id \ {p} : body'[i] = body[i]
  BY ONLY <1>1, <1>2, <1>3, OneBody, p \in Id
<1>5. (m_CharacterList \subseteq Id)' /\ (m_IsDead \subseteq m_CharacterList)'
  BY DEF SkillGoForward, MotionType
<1>6. MotionType'
  BY ONLY <1>4, <1>5 DEF MotionType
<1> QED  BY ONLY <1>3, <1>4, <1>6

(* A stopped body is typed and keeps its place.                            *)
LEMMA StandStill ==
  ASSUME NEW b \in Body
  PROVE  LET c == [b EXCEPT !.vel = 0, !.acc = 0]
         IN  c \in Body /\ c.pos = b.pos /\ c.vel = 0 /\ c.acc = 0
<1> DEFINE slow == [b EXCEPT !.vel = 0]
           still == [slow EXCEPT !.acc = 0]
<1>1. slow \in Body /\ slow.vel = 0 /\ slow.pos = b.pos
  BY NewVelocity
<1>2. [b EXCEPT !.vel = 0, !.acc = 0] = still
  OBVIOUS
<1> HIDE DEF slow
<1>3. still \in Body /\ still.vel = 0 /\ still.pos = b.pos /\ still.acc = 0
  BY ONLY <1>1 DEF Body
<1> QED  BY ONLY <1>2, <1>3

(* A stop takes velocity and acceleration from one body, not its place.    *)
LEMMA StopDoes ==
  ASSUME MotionType, NEW p \in Id, SkillStop(p)
  PROVE  /\ MotionType' /\ \A i \in Id \ {p} : body'[i] = body[i]
         /\ body'[p].pos = body[p].pos /\ body'[p].vel = 0 /\ body'[p].acc = 0
<1> DEFINE b == [body[p] EXCEPT !.vel = 0, !.acc = 0]
<1>1. body' = [body EXCEPT ![p] = b]
  BY DEF SkillStop, MotionType
<1>2. body \in [Id -> Body] /\ body[p] \in Body
  BY DEF MotionType
<1>3. b \in Body /\ b.pos = body[p].pos /\ b.vel = 0 /\ b.acc = 0
  BY ONLY <1>2, StandStill
<1> HIDE DEF b
<1>4. body' \in [Id -> Body] /\ body'[p] = b /\ \A i \in Id \ {p} : body'[i] = body[i]
  BY ONLY <1>1, <1>2, <1>3, OneBody, p \in Id
<1>5. (m_CharacterList \subseteq Id)' /\ (m_IsDead \subseteq m_CharacterList)'
  BY DEF SkillStop, MotionType
<1> QED  BY <1>3, <1>4, <1>5 DEF MotionType

(* The ray finds at most one character.                                    *)
LEMMA MinOfTwo ==
  ASSUME NEW a \in Int, NEW b \in Int, NEW S \in SUBSET {a, b}, S # {}
  PROVE  Min(S) \in Int
<1>1. \E m \in S : \A y \in S : m =< y
  <2>1. CASE a \in S /\ (b \notin S \/ a =< b)
    <3>1. \A y \in S : a =< y
      BY <2>1
    <3> QED  BY <2>1, <3>1
  <2>2. CASE b \in S /\ (a \notin S \/ ~(a =< b))
    <3>1. \A y \in S : b =< y
      BY <2>2
    <3> QED  BY <2>2, <3>1
  <2>3. a \in S \/ b \in S
    OBVIOUS
  <2> QED  BY ONLY <2>1, <2>2, <2>3
<1>2. Min(S) \in S
  BY <1>1 DEF Min
<1> QED  BY <1>2

(* A ray has at most one target.                                           *)
LEMMA OneTarget ==
  ASSUME MotionType, NEW p \in Id, NEW d \in Direction,
         NEW i \in DetectTarget(p, d), NEW j \in DetectTarget(p, d)
  PROVE  i = j /\ i \in m_CharacterList
<1> DEFINE faces(k) == IntersectionCheckRayBox(p, k, d)
           distance(k) == Min(faces(k))
           seen == {k \in m_CharacterList \ {p} : \E e \in faces(k) : e < SKILL_RANGE}
<1>1. /\ i \in seen /\ j \in seen
      /\ \A k \in seen \ {i} : distance(i) < distance(k) \/ (distance(i) = distance(k) /\ i < k)
      /\ \A k \in seen \ {j} : distance(j) < distance(k) \/ (distance(j) = distance(k) /\ j < k)
  BY DEF DetectTarget
<1>2. ASSUME NEW k \in seen PROVE distance(k) \in Int /\ k \in Id /\ k \in m_CharacterList
  <2>1. k \in Id /\ k \in m_CharacterList /\ faces(k) # {} /\ body[k] \in Body /\ body[p] \in Body
    BY DEF MotionType
  <2> DEFINE face(side) == (body[k].box + side * CB_LENGTH - body[p].pos) * d
  <2>2. face(1) \in Int /\ face(-1) \in Int
    <3>1. body[k].box \in Int /\ body[p].pos \in Int /\ CB_LENGTH \in Int
      BY <2>1, Sizes DEF Body
    <3>2. body[k].box + 1 * CB_LENGTH - body[p].pos \in Int
          /\ body[k].box + (-1) * CB_LENGTH - body[p].pos \in Int
      BY ONLY <3>1
    <3>3. \A x \in Int : x * d \in Int
      BY ONLY d \in Direction DEF Direction
    <3> QED  BY ONLY <3>2, <3>3
  <2>3. faces(k) \subseteq {face(1), face(-1)}
    BY DEF IntersectionCheckRayBox, Direction
  <2> HIDE DEF face, faces
  <2> QED  BY ONLY <2>1, <2>2, <2>3, MinOfTwo
<1> HIDE DEF seen, distance
<1>3. i \in Int /\ j \in Int /\ distance(i) \in Int /\ distance(j) \in Int /\ i \in m_CharacterList
  BY <1>1, <1>2, Ids
<1> QED  BY ONLY <1>1, <1>3

(* A push changes the acceleration of its target only.                     *)
LEMMA PushDoes ==
  ASSUME MotionType, NEW p \in Id, NEW d \in Direction, SkillPush(p, d)
  PROVE  /\ MotionType'
         /\ \A i \in Id \ DetectTarget(p, d) : body'[i] = body[i]
         /\ \A i \in DetectTarget(p, d) :
              /\ body'[i].pos = body[i].pos /\ body'[i].vel = body[i].vel
              /\ \E e \in Int : body'[i].acc = body[i].acc + ACCELERATION_WEIGHT * Sign(e)
<1>1. PICK i \in DetectTarget(p, d) : body' = [body EXCEPT ![i] = Move(@, @.pos - body[p].pos)]
  BY DEF SkillPush
<1>2. i \in m_CharacterList /\ DetectTarget(p, d) = {i}
  BY OneTarget
<1>3. i \in Id /\ body \in [Id -> Body] /\ body[i] \in Body /\ body[p] \in Body
  BY <1>2 DEF MotionType
<1> DEFINE e == body[i].pos - body[p].pos
           b == Move(body[i], e)
<1>4. e \in Int
  BY <1>3 DEF Body
<1>5. body' = [body EXCEPT ![i] = b]
  BY <1>1, <1>3
<1> HIDE DEF e
<1>6. /\ b \in Body /\ b.pos = body[i].pos /\ b.vel = body[i].vel
      /\ b.acc = body[i].acc + ACCELERATION_WEIGHT * Sign(e)
  BY <1>3, <1>4, MoveType
<1> HIDE DEF b
<1>7. body' \in [Id -> Body] /\ body'[i] = b /\ \A k \in Id \ {i} : body'[k] = body[k]
  BY ONLY <1>3, <1>5, <1>6, OneBody
<1>8. (m_CharacterList \subseteq Id)' /\ (m_IsDead \subseteq m_CharacterList)'
  BY DEF SkillPush, MotionType
<1>9. MotionType'
  BY ONLY <1>7, <1>8 DEF MotionType
<1> QED  BY ONLY <1>2, <1>4, <1>6, <1>7, <1>9

(* An update leaves typed bodies, and the dying are dead after it.         *)
LEMMA PeriodWorkDoes ==
  ASSUME MotionType, NEW ending,
         NEW dying \in SUBSET ((Mortal \cap m_CharacterList) \ m_IsDead),
         DoPeriodWork(ending, dying)
  PROVE  /\ MotionType' /\ m_CharacterList' = m_CharacterList /\ m_IsDead' = m_IsDead \cup dying
         /\ Kept(Moved(ending), CheckCollision(Moved(ending)))
         /\ body' = CheckCollision(Moved(ending)).bodies
<1>1. /\ m_CharacterList' = m_CharacterList /\ m_IsDead' = m_IsDead \cup dying
      /\ body' = CheckCollision(Moved(ending)).bodies
  BY DEF DoPeriodWork
<1>2. Moved(ending) \in [Id -> Body] /\ m_CharacterList \subseteq Id
  BY MovedType DEF MotionType
<1>3. Kept(Moved(ending), CheckCollision(Moved(ending)))
  BY <1>2, CheckCollisionKeeps
<1>4. body' \in [Id -> Body]
  BY <1>1, <1>3 DEF Kept, ScanType
<1>5. (m_CharacterList \subseteq Id)' /\ (m_IsDead \subseteq m_CharacterList)'
  BY <1>1 DEF MotionType
<1> QED  BY <1>1, <1>3, <1>4, <1>5 DEF MotionType

(* A new session changes nothing but the list.                             *)
LEMMA RegisterDoes ==
  ASSUME MotionType, NEW p \in Id, RegisterCharacter(p)
  PROVE  /\ MotionType' /\ body' = body /\ m_IsDead' = m_IsDead
         /\ m_CharacterList \subseteq m_CharacterList'
BY DEF RegisterCharacter, MotionType

(* Every step keeps the types.                                             *)
LEMMA StepKeepsMotionType == MotionType /\ [Next]_vars => MotionType'
<1> SUFFICES ASSUME MotionType, [Next]_vars PROVE MotionType'
  OBVIOUS
<1>1. ASSUME NEW ending \in SUBSET Accelerating,
             NEW dying \in SUBSET ((Mortal \cap m_CharacterList) \ m_IsDead),
             DoPeriodWork(ending, dying)
      PROVE  MotionType'
  BY <1>1, PeriodWorkDoes
<1>2. ASSUME NEW p \in Id, RegisterCharacter(p) PROVE MotionType'
  BY <1>2, RegisterDoes
<1>3. Acting \subseteq Id
  BY MotionAssumption
<1>4. ASSUME NEW p \in Acting, DeregisterCharacter(p) PROVE MotionType'
  BY <1>3, <1>4, DeregisterDoes
<1>5. ASSUME NEW p \in Acting, HandleRespawnRequest(p) PROVE MotionType'
  BY <1>3, <1>5, RespawnDoes
<1>6. ASSUME NEW p \in Acting, SkillStop(p) PROVE MotionType'
  BY <1>3, <1>6, StopDoes
<1>7. ASSUME NEW p \in Acting, NEW d \in Direction, SkillGoForward(p, d) PROVE MotionType'
  BY <1>3, <1>7, GoForwardDoes
<1>8. ASSUME NEW p \in Acting, NEW d \in Direction, SkillPush(p, d) PROVE MotionType'
  BY <1>3, <1>8, PushDoes
<1>9. CASE UNCHANGED vars
  BY <1>9 DEF vars, MotionType
<1> QED  BY <1>1, <1>2, <1>4, <1>5, <1>6, <1>7, <1>8, <1>9 DEF Next

(* The types are an invariant.                                             *)
LEMMA AlwaysMotionType == Spec => []MotionType
<1>1. Init => MotionType
  BY InitialMotion
<1>2. MotionType /\ [Next]_vars => MotionType'
  BY StepKeepsMotionType
<1> QED  BY <1>1, <1>2, PTL DEF Spec

(* The impacts of every update conserve momentum and energy, and whoever's *)
(* velocity they change is announced: CheckCollision, for any number of    *)
(* characters, wherever they are and however fast.                         *)
THEOREM ImpactsAlwaysConserve == Spec => []ImpactsConserve
<1>1. MotionType => ImpactsConserve
  BY TypeConserves
<1> QED  BY <1>1, AlwaysMotionType, PTL

(* After every update the only two bodies that overlap do not go on into   *)
(* each other: the early return of CheckCollision comes in time for them.  *)
THEOREM ImpactsAlwaysResolved == Spec => []ImpactsResolved
<1>1. MotionType => ImpactsResolved
  BY TypeResolves
<1> QED  BY <1>1, AlwaysMotionType, PTL

-----------------------------------------------------------------------------
(* The copy.                                                               *)

(* The records a copy is.                                                  *)
CopyRecord ==
  [ status : {"unknown", "follows", "lost"}, dead : BOOLEAN,
    pos : Int, vel : Int, acc : Int ]

(* A copy c that follows is right about a body b that is in use.           *)
Right(c, b, dead) ==
  /\ Watched \in m_CharacterList
  /\ c.dead <=> dead
  /\ c.pos = b.pos /\ c.vel = b.vel
  /\ ~dead => c.acc = b.acc

(* A copy that follows is right, and its character is in the list.         *)
CopyRight == Follows => Right(copy, body[Watched], Watched \in m_IsDead)

(* The inductive invariant: a copy follows only a character that is there. *)
ViewInv == MotionType /\ copy \in CopyRecord /\ CopyRight

(* What the invariant says of a copy that follows is CopyFollows.          *)
LEMMA ViewInvFollows == ViewInv => CopyFollows
BY DEF ViewInv, CopyRight, Right, CopyFollows, CopyRecord

(* The parts of a player.                                                  *)
LEMMA PlayerIs ==
  ASSUME NEW dead \in BOOLEAN, NEW pos \in Int, NEW vel \in Int, NEW acc \in Int
  PROVE  /\ Player(dead, pos, vel, acc) \in CopyRecord
         /\ Player(dead, pos, vel, acc).status = "follows"
         /\ Player(dead, pos, vel, acc).dead = dead
         /\ Player(dead, pos, vel, acc).pos = pos /\ Player(dead, pos, vel, acc).vel = vel
         /\ ~dead => Player(dead, pos, vel, acc).acc = acc
BY DEF Player, CopyRecord

(* The parts of a lost copy.                                               *)
LEMMA LostIs ==
  ASSUME NEW dead \in BOOLEAN
  PROVE  Lost(dead) \in CopyRecord /\ Lost(dead).status = "lost"
BY DEF Lost, Player, CopyRecord

(* A client without a copy.                                                *)
LEMMA UnknownIs == Unknown \in CopyRecord /\ Unknown.status = "unknown"
<1>1. Player(FALSE, 0, 0, 0) \in CopyRecord
  BY DEF Player, CopyRecord
<1> DEFINE c == Player(FALSE, 0, 0, 0)
<1>2. Unknown = [c EXCEPT !.status = "unknown"]
  BY DEF Unknown
<1> HIDE DEF c
<1>3. [c EXCEPT !.status = "unknown"] \in CopyRecord
      /\ [c EXCEPT !.status = "unknown"].status = "unknown"
  BY ONLY <1>1 DEF CopyRecord, c
<1> QED  BY ONLY <1>2, <1>3

(* The parts of a copy are typed.                                          *)
LEMMA CopyParts ==
  ASSUME NEW c \in CopyRecord
  PROVE  /\ c.status \in {"unknown", "follows", "lost"} /\ c.dead \in BOOLEAN
         /\ c.pos \in Int /\ c.vel \in Int /\ c.acc \in Int
BY DEF CopyRecord

(* The parts of a body are typed.                                          *)
LEMMA BodyParts ==
  ASSUME NEW b \in Body
  PROVE  b.pos \in Int /\ b.vel \in Int /\ b.acc \in Int /\ b.box \in Int
BY DEF Body

(* A copy made anew of the body is right.                                  *)
LEMMA PlayerRight ==
  ASSUME NEW dead \in BOOLEAN, NEW b \in Body, NEW acc \in Int,
         ~dead => acc = b.acc, Watched \in m_CharacterList
  PROVE  LET c == Player(dead, b.pos, b.vel, acc)
         IN  c \in CopyRecord /\ Right(c, b, dead)
<1> DEFINE c == Player(dead, b.pos, b.vel, acc)
<1>1. /\ c \in CopyRecord /\ c.dead = dead /\ c.pos = b.pos /\ c.vel = b.vel
      /\ ~dead => c.acc = acc
  BY BodyParts, PlayerIs
<1> HIDE DEF c
<1>2. c \in CopyRecord /\ Right(c, b, dead)
  BY <1>1 DEF Right
<1> QED  BY ONLY <1>2 DEF c

(* A copy of a living character with its place and course is right.        *)
LEMMA AliveRight ==
  ASSUME NEW b \in Body, Watched \in m_CharacterList, NEW c,
         c = Player(FALSE, b.pos, b.vel, b.acc)
  PROVE  c \in CopyRecord /\ Right(c, b, FALSE)
<1>1. b.pos \in Int /\ b.vel \in Int /\ b.acc \in Int
  BY BodyParts
<1>2. c = [status |-> "follows", dead |-> FALSE, pos |-> b.pos, vel |-> b.vel, acc |-> b.acc]
  BY DEF Player
<1>3. c \in CopyRecord
  BY ONLY <1>1, <1>2 DEF CopyRecord
<1>4. Right(c, b, FALSE)
  BY ONLY <1>2, Watched \in m_CharacterList DEF Right
<1> QED  BY <1>3, <1>4

(* A force changes the acceleration of a copy that lives.                  *)
LEMMA PlayerMoveRight ==
  ASSUME NEW dead \in BOOLEAN, NEW b \in Body, NEW acc \in Int, NEW d \in Int,
         ~dead => acc + ACCELERATION_WEIGHT * Sign(d) = b.acc, Watched \in m_CharacterList
  PROVE  LET c == PlayerMove(Player(dead, b.pos, b.vel, acc), d)
         IN  c \in CopyRecord /\ Right(c, b, dead)
<1> DEFINE force == ACCELERATION_WEIGHT * Sign(d)
           had == IF dead THEN 0 ELSE acc
<1>1. force \in Int
  BY Sizes, TimesSign
<1>2. PlayerMove(Player(dead, b.pos, b.vel, acc), d) = Player(dead, b.pos, b.vel, had + force)
  BY DEF Player, PlayerMove
<1>3. had + force \in Int /\ (~dead => had + force = b.acc)
  BY <1>1
<1> HIDE DEF had, force
<1> QED  BY <1>2, <1>3, PlayerRight

(* What is not about Watched leaves the copy right.                        *)
LEMMA CopyStays ==
  ASSUME ViewInv, copy' = copy, body'[Watched] = body[Watched],
         Watched \in m_IsDead' <=> Watched \in m_IsDead,
         Watched \in m_CharacterList => Watched \in m_CharacterList'
  PROVE  (copy \in CopyRecord)' /\ CopyRight'
<1>1. (copy \in CopyRecord)'
  BY DEF ViewInv
<1>2. ASSUME Follows' PROVE Right(copy, body[Watched], Watched \in m_IsDead)'
  <2>1. Right(copy, body[Watched], Watched \in m_IsDead)
    BY <1>2 DEF Follows, ViewInv, CopyRight
  <2> QED  BY <2>1 DEF Right
<1> QED  BY <1>1, <1>2 DEF CopyRight

(* Nobody is in the list, and nobody is known.                             *)
LEMMA InitialViewInv == ViewInit => ViewInv
<1> SUFFICES ASSUME ViewInit PROVE ViewInv
  OBVIOUS
<1>1. MotionType
  BY InitialMotion DEF ViewInit
<1>2. copy \in CopyRecord /\ ~Follows
  BY UnknownIs DEF ViewInit, Follows
<1> QED  BY <1>1, <1>2 DEF ViewInv, CopyRight

(* Nobody follows an id that was free.                                     *)
LEMMA ViewRegisterRight ==
  ASSUME ViewInv, NEW p \in Id, ViewRegister(p)
  PROVE  ViewInv'
<1>1. /\ MotionType' /\ body' = body /\ m_IsDead' = m_IsDead
      /\ m_CharacterList \subseteq m_CharacterList'
  BY RegisterDoes DEF ViewRegister, ViewInv
<1>2. copy' = copy
  BY DEF ViewRegister
<1>3. (copy \in CopyRecord)' /\ CopyRight'
  BY <1>1, <1>2, CopyStays
<1> QED  BY <1>1, <1>3 DEF ViewInv

(* The copy of whom leaves no longer follows.                              *)
LEMMA ViewDeregisterRight ==
  ASSUME ViewInv, NEW p \in Id, ViewDeregister(p)
  PROVE  ViewInv'
<1>1. MotionType' /\ \A i \in Id \ {p} : body'[i] = body[i]
  BY DeregisterDoes DEF ViewDeregister, ViewInv
<1>2. /\ m_CharacterList' = m_CharacterList \ {p} /\ m_IsDead' = m_IsDead \ {p}
      /\ copy' = IF p = Watched /\ Follows THEN Lost(copy.dead) ELSE copy
  BY DEF ViewDeregister, DeregisterCharacter
<1>3. copy \in CopyRecord
  BY DEF ViewInv
<1>4. CASE p = Watched
  <2>1. CASE Follows
    <3>1. copy' \in CopyRecord /\ copy'.status = "lost"
      BY <1>2, <1>3, <1>4, <2>1, CopyParts, LostIs
    <3> QED  BY <1>1, <3>1 DEF ViewInv, CopyRight, Follows
  <2>2. CASE ~Follows
    <3>1. copy' = copy
      BY <1>2, <2>2
    <3> QED  BY <1>1, <1>3, <2>2, <3>1 DEF ViewInv, CopyRight, Follows
  <2> QED  BY <2>1, <2>2
<1>5. CASE p # Watched
  <2>1. copy' = copy /\ body'[Watched] = body[Watched]
    BY <1>1, <1>2, <1>5, WatchedAssumption
  <2>2. (copy \in CopyRecord)' /\ CopyRight'
    BY <1>2, <1>5, <2>1, CopyStays
  <2> QED  BY <1>1, <2>2 DEF ViewInv
<1> QED  BY <1>4, <1>5

(* A respawn starts character and copy anew alike.                         *)
LEMMA ViewRespawnRight ==
  ASSUME ViewInv, NEW p \in Id, ViewRespawn(p)
  PROVE  ViewInv'
<1>1. /\ MotionType' /\ \A i \in Id \ {p} : body'[i] = body[i]
      /\ body'[p].vel = 0 /\ body'[p].acc = 0
  BY RespawnDoes DEF ViewRespawn, ViewInv
<1>2. /\ m_CharacterList' = m_CharacterList /\ m_IsDead' = m_IsDead \ {p}
      /\ p \in m_CharacterList
      /\ copy' = IF p = Watched THEN HandleRespawnResult(body'[Watched]) ELSE copy
  BY DEF ViewRespawn, HandleRespawnRequest, WatchedBody
<1>3. copy \in CopyRecord
  BY DEF ViewInv
<1>4. CASE p = Watched
  <2>1. CASE copy.status = "unknown"
    <3>1. copy' = copy
      BY <1>2, <1>4, <2>1 DEF HandleRespawnResult
    <3> QED  BY <1>1, <1>3, <2>1, <3>1 DEF ViewInv, CopyRight, Follows
  <2>2. CASE copy.status # "unknown"
    <3> DEFINE b == body'[Watched]
    <3>1. b \in Body /\ b.vel = 0 /\ b.acc = 0 /\ (Watched \in m_CharacterList)'
      BY <1>1, <1>2, <1>4 DEF MotionType
    <3>2. copy' = Player(FALSE, b.pos, b.vel, b.acc) /\ ~(Watched \in m_IsDead')
      BY <1>2, <1>4, <2>2, <3>1 DEF HandleRespawnResult
    <3>3. Watched \in m_CharacterList /\ (Watched \in m_CharacterList)'
      BY <1>2, <1>4
    <3>4. copy' \in CopyRecord /\ Right(copy', b, FALSE)
      <4> HIDE DEF b
      <4> QED  BY ONLY <3>1, <3>2, <3>3, AliveRight
    <3>5. CopyRight'
      BY ONLY <3>2, <3>3, <3>4 DEF CopyRight, Right, b
    <3> QED  BY ONLY <1>1, <3>4, <3>5 DEF ViewInv
  <2> QED  BY <2>1, <2>2
<1>5. CASE p # Watched
  <2>1. copy' = copy /\ body'[Watched] = body[Watched]
    BY <1>1, <1>2, <1>5, WatchedAssumption
  <2>2. (copy \in CopyRecord)' /\ CopyRight'
    BY <1>2, <1>5, <2>1, CopyStays
  <2> QED  BY <1>1, <2>2 DEF ViewInv
<1> QED  BY <1>4, <1>5

(* GO_FORWARD brings place and velocity, and both accelerate alike.        *)
LEMMA ViewGoForwardRight ==
  ASSUME ViewInv, NEW p \in Id, NEW d \in Direction, ViewGoForward(p, d)
  PROVE  ViewInv'
<1>1. /\ MotionType' /\ \A i \in Id \ {p} : body'[i] = body[i]
      /\ body'[p].pos = body[p].pos /\ body'[p].vel = body[p].vel
      /\ body'[p].acc = body[p].acc + ACCELERATION_WEIGHT * Sign(d)
  BY GoForwardDoes DEF ViewGoForward, ViewInv
<1>2. /\ m_CharacterList' = m_CharacterList /\ m_IsDead' = m_IsDead
      /\ copy' = IF p = Watched THEN HandleGoForwardResult(body'[Watched], d) ELSE copy
  BY DEF ViewGoForward, SkillGoForward, WatchedBody
<1>3. copy \in CopyRecord
  BY DEF ViewInv
<1>4. CASE p = Watched
  <2> DEFINE b == body'[Watched]
  <2>1. CASE Follows
    <3>1. Right(copy, body[Watched], Watched \in m_IsDead) /\ copy.dead \in BOOLEAN
      BY <1>3, <2>1, CopyParts DEF ViewInv, CopyRight
    <3>2. b \in Body /\ b.acc = body[Watched].acc + ACCELERATION_WEIGHT * Sign(d)
      BY <1>1, <1>4, WatchedAssumption DEF MotionType
    <3>3. copy' = PlayerMove(Player(copy.dead, b.pos, b.vel, copy.acc), d)
      BY <1>2, <1>4, <2>1 DEF HandleGoForwardResult
    <3>4. copy.acc \in Int /\ d \in Int /\ Watched \in m_CharacterList
      BY <1>3, <3>1, CopyParts DEF Direction, Right
    <3>5. ~copy.dead => copy.acc = body[Watched].acc
      BY ONLY <3>1 DEF Right
    <3> HIDE DEF b
    <3>6. ~copy.dead => copy.acc + ACCELERATION_WEIGHT * Sign(d) = b.acc
      BY ONLY <3>2, <3>5
    <3>7. copy' \in CopyRecord /\ Right(copy', b, copy.dead)
      BY ONLY <3>1, <3>2, <3>3, <3>4, <3>6, PlayerMoveRight
    <3>8. CopyRight'
      BY ONLY <1>2, <3>1, <3>7 DEF CopyRight, Right, b
    <3> QED  BY ONLY <1>1, <3>7, <3>8 DEF ViewInv
  <2>2. CASE ~Follows
    <3>1. copy' = copy
      BY <1>2, <2>2 DEF HandleGoForwardResult
    <3> QED  BY <1>1, <1>3, <2>2, <3>1 DEF ViewInv, CopyRight, Follows
  <2> QED  BY <2>1, <2>2
<1>5. CASE p # Watched
  <2>1. copy' = copy /\ body'[Watched] = body[Watched]
    BY <1>1, <1>2, <1>5, WatchedAssumption
  <2>2. (copy \in CopyRecord)' /\ CopyRight'
    BY <1>2, <2>1, CopyStays
  <2> QED  BY <1>1, <2>2 DEF ViewInv
<1> QED  BY <1>4, <1>5

(* STOP brings the place, and both stand.                                  *)
LEMMA ViewStopRight ==
  ASSUME ViewInv, NEW p \in Id, ViewStop(p)
  PROVE  ViewInv'
<1>1. /\ MotionType' /\ \A i \in Id \ {p} : body'[i] = body[i]
      /\ body'[p].pos = body[p].pos /\ body'[p].vel = 0 /\ body'[p].acc = 0
  BY StopDoes DEF ViewStop, ViewInv
<1>2. /\ m_CharacterList' = m_CharacterList /\ m_IsDead' = m_IsDead /\ p \in m_CharacterList
      /\ copy' = IF p = Watched THEN HandleStopResult(body'[Watched], Watched \in m_IsDead)
                 ELSE copy
  BY DEF ViewStop, SkillStop, WatchedBody, IsWatchedDead
<1>3. copy \in CopyRecord
  BY DEF ViewInv
<1>4. CASE p = Watched
  <2> DEFINE b == body'[Watched]
             dead == Watched \in m_IsDead
  <2>1. CASE copy.status # "unknown" /\ copy.dead = dead
    <3>1. b \in Body /\ b.vel = 0 /\ b.acc = 0
      BY <1>1, <1>4, WatchedAssumption DEF MotionType
    <3>2. copy' = Player(dead, b.pos, b.vel, 0)
      BY <1>2, <1>4, <2>1, <3>1 DEF HandleStopResult
    <3>3. dead \in BOOLEAN /\ Watched \in m_CharacterList
      BY <1>2, <1>4
    <3>4. copy' \in CopyRecord /\ Right(copy', b, dead)
      <4> HIDE DEF b, dead
      <4> QED  BY ONLY <3>1, <3>2, <3>3, PlayerRight
    <3>5. CopyRight'
      BY ONLY <1>2, <3>4 DEF CopyRight, Right, b, dead
    <3> QED  BY ONLY <1>1, <3>4, <3>5 DEF ViewInv
  <2>2. CASE ~(copy.status # "unknown" /\ copy.dead = dead)
    <3>1. copy' = copy
      BY <1>2, <2>2 DEF HandleStopResult
    <3>2. ~Follows
      BY <2>2, <1>3, CopyParts DEF ViewInv, CopyRight, Right, Follows
    <3> QED  BY <1>1, <1>3, <3>1, <3>2 DEF ViewInv, CopyRight, Follows
  <2> QED  BY <2>1, <2>2
<1>5. CASE p # Watched
  <2>1. copy' = copy /\ body'[Watched] = body[Watched]
    BY <1>1, <1>2, <1>5, WatchedAssumption
  <2>2. (copy \in CopyRecord)' /\ CopyRight'
    BY <1>2, <2>1, CopyStays
  <2> QED  BY <1>1, <2>2 DEF ViewInv
<1> QED  BY <1>4, <1>5

(* The sign of a force is the sign of what it was made of.                 *)
LEMMA SignOfForce ==
  ASSUME NEW e \in Int
  PROVE  ACCELERATION_WEIGHT * Sign(ACCELERATION_WEIGHT * Sign(e)) = ACCELERATION_WEIGHT * Sign(e)
<1> DEFINE force == ACCELERATION_WEIGHT * Sign(e)
<1>1. ACCELERATION_WEIGHT \in Nat
  BY Sizes
<1>2. force = IF e > 0 THEN ACCELERATION_WEIGHT ELSE IF e < 0 THEN -ACCELERATION_WEIGHT ELSE 0
  BY <1>1, TimesSign
<1>3. force \in Int
  BY ONLY <1>1, <1>2
<1> HIDE DEF force
<1>4. ACCELERATION_WEIGHT * Sign(force)
        = IF force > 0 THEN ACCELERATION_WEIGHT ELSE IF force < 0 THEN -ACCELERATION_WEIGHT ELSE 0
  BY <1>1, <1>3, TimesSign
<1> QED  BY ONLY <1>1, <1>2, <1>4, e \in Int DEF force

(* KINETIC_STATE is all the acceleration of a body that had none.          *)
LEMMA ViewPushRight ==
  ASSUME ViewInv, NEW p \in Id, NEW d \in Direction, ViewPush(p, d)
  PROVE  ViewInv'
<1>1. /\ MotionType' /\ \A i \in Id \ DetectTarget(p, d) : body'[i] = body[i]
      /\ \A i \in DetectTarget(p, d) :
           /\ body'[i].pos = body[i].pos /\ body'[i].vel = body[i].vel
           /\ \E e \in Int : body'[i].acc = body[i].acc + ACCELERATION_WEIGHT * Sign(e)
  BY PushDoes DEF ViewPush, ViewInv
<1>2. /\ m_CharacterList' = m_CharacterList /\ m_IsDead' = m_IsDead
      /\ copy' = IF Watched \in DetectTarget(p, d)
                 THEN HandleKineticStateResult(body'[Watched], body[Watched].acc # 0) ELSE copy
  BY DEF ViewPush, SkillPush, WatchedBody
<1>3. copy \in CopyRecord
  BY DEF ViewInv
<1>4. CASE Watched \in DetectTarget(p, d)
  <2> DEFINE b == body'[Watched]
  <2>1. CASE Follows /\ body[Watched].acc # 0
    <3>1. copy' \in CopyRecord /\ copy'.status = "lost"
      BY <1>2, <1>3, <1>4, <2>1, CopyParts, LostIs DEF HandleKineticStateResult
    <3> QED  BY <1>1, <3>1 DEF ViewInv, CopyRight, Follows
  <2>2. CASE Follows /\ body[Watched].acc = 0
    <3>1. Right(copy, body[Watched], Watched \in m_IsDead) /\ copy.dead \in BOOLEAN
      BY <1>3, <2>2, CopyParts DEF ViewInv, CopyRight
    <3>2. b \in Body
      BY <1>1, WatchedAssumption DEF MotionType
    <3>3. PICK e \in Int : b.acc = 0 + ACCELERATION_WEIGHT * Sign(e)
      BY <1>1, <1>4, <2>2
    <3>4. copy' = PlayerMove(Player(copy.dead, b.pos, b.vel, copy.acc), b.acc)
      BY <1>2, <1>4, <2>2 DEF HandleKineticStateResult
    <3>5. b.acc \in Int /\ copy.acc \in Int /\ Watched \in m_CharacterList
      BY <1>3, <3>1, <3>2, BodyParts, CopyParts DEF Right
    <3>6. ACCELERATION_WEIGHT * Sign(b.acc) = b.acc
      <4> DEFINE force == ACCELERATION_WEIGHT * Sign(e)
      <4>1. force \in Int
        BY ONLY Sizes, TimesSign, e \in Int
      <4>2. ACCELERATION_WEIGHT * Sign(force) = force
        BY ONLY SignOfForce, e \in Int
      <4>3. b.acc = 0 + force
        BY ONLY <3>3
      <4> HIDE DEF force, b
      <4>4. b.acc = force
        BY ONLY <4>1, <4>3
      <4> QED  BY ONLY <4>2, <4>4
    <3>7. ~copy.dead => copy.acc = 0
      BY ONLY <2>2, <3>1 DEF Right
    <3> HIDE DEF b
    <3>8. ~copy.dead => copy.acc + ACCELERATION_WEIGHT * Sign(b.acc) = b.acc
      BY ONLY <3>5, <3>6, <3>7
    <3>9. copy' \in CopyRecord /\ Right(copy', b, copy.dead)
      BY ONLY <3>1, <3>2, <3>4, <3>5, <3>8, PlayerMoveRight
    <3>10. CopyRight'
      BY ONLY <1>2, <3>1, <3>9 DEF CopyRight, Right, b
    <3> QED  BY ONLY <1>1, <3>9, <3>10 DEF ViewInv
  <2>3. CASE ~Follows
    <3>1. copy' = copy
      BY <1>2, <2>3 DEF HandleKineticStateResult
    <3> QED  BY <1>1, <1>3, <2>3, <3>1 DEF ViewInv, CopyRight, Follows
  <2> QED  BY <2>1, <2>2, <2>3
<1>5. CASE Watched \notin DetectTarget(p, d)
  <2>1. copy' = copy /\ body'[Watched] = body[Watched]
    BY <1>1, <1>2, <1>5, WatchedAssumption
  <2>2. (copy \in CopyRecord)' /\ CopyRight'
    BY <1>2, <2>1, CopyStays
  <2> QED  BY <1>1, <2>2 DEF ViewInv
<1> QED  BY <1>4, <1>5

(* A turn changes neither body nor course.                                 *)
LEMMA ViewTurnBodyRight == ASSUME ViewInv, ViewTurnBody PROVE ViewInv'
<1>1. MotionType' /\ copy \in CopyRecord
  BY DEF ViewInv, ViewTurnBody, MotionType
<1>2. CASE copy.status = "unknown"
  <2>1. copy' \in CopyRecord /\ copy'.status = "lost"
    BY <1>2, LostIs DEF ViewTurnBody, HandleTurnBodyResult
  <2> QED  BY <1>1, <2>1 DEF ViewInv, CopyRight, Follows
<1>3. CASE copy.status # "unknown"
  <2>1. copy' = copy
    BY <1>3 DEF ViewTurnBody, HandleTurnBodyResult
  <2>2. (copy \in CopyRecord)' /\ CopyRight'
    BY <2>1, CopyStays DEF ViewTurnBody
  <2> QED  BY <1>1, <2>2 DEF ViewInv
<1> QED  BY <1>2, <1>3

(* NEW brings place and velocity; the old copy has the acceleration.       *)
LEMMA ViewGameStateRight == ASSUME ViewInv, ViewGameState PROVE ViewInv'
<1>1. /\ MotionType' /\ copy \in CopyRecord /\ Watched \in m_CharacterList
      /\ m_CharacterList' = m_CharacterList /\ m_IsDead' = m_IsDead /\ body' = body
      /\ copy' = HandleNewResult(body[Watched], Watched \in m_IsDead)
  BY DEF ViewInv, ViewGameState, MotionType, WatchedBody, IsWatchedDead
<1> DEFINE b == body[Watched]
           dead == Watched \in m_IsDead
<1>2. b \in Body
  BY WatchedAssumption DEF ViewInv, MotionType
<1>3. CASE copy.status = "unknown" /\ (dead \/ b.acc # 0)
  <2>1. copy' = Lost(FALSE)
    BY <1>1, <1>3 DEF HandleNewResult, Follows
  <2>2. copy' \in CopyRecord /\ copy'.status = "lost"
    BY <2>1, LostIs
  <2> QED  BY <1>1, <2>2 DEF ViewInv, CopyRight, Follows
<1>4. CASE copy.status = "unknown" /\ ~dead /\ b.acc = 0
  <2>1. copy' = Player(FALSE, b.pos, b.vel, b.acc)
    <3>1. copy' = Player(FALSE, b.pos, b.vel, 0)
      BY <1>1, <1>4 DEF HandleNewResult, Follows
    <3> QED  BY ONLY <1>4, <3>1
  <2>2. copy' \in CopyRecord /\ Right(copy', b, FALSE)
    <3> HIDE DEF b
    <3> QED  BY ONLY <1>1, <1>2, <2>1, AliveRight
  <2>3. CopyRight'
    BY ONLY <1>1, <1>4, <2>2 DEF CopyRight, Right, b, dead
  <2> QED  BY ONLY <1>1, <2>2, <2>3 DEF ViewInv
<1>5. CASE Follows
  <2>1. Right(copy, b, dead) /\ copy.dead \in BOOLEAN /\ copy.acc \in Int
    BY <1>1, <1>5, CopyParts DEF ViewInv, CopyRight
  <2>2. copy' = Player(copy.dead, b.pos, b.vel, copy.acc)
    BY <1>1, <1>5 DEF HandleNewResult, Follows
  <2>3. ~copy.dead => copy.acc = b.acc
    BY ONLY <2>1 DEF Right
  <2>4. copy' \in CopyRecord /\ Right(copy', b, copy.dead)
    <3> HIDE DEF b
    <3> QED  BY ONLY <1>1, <1>2, <2>1, <2>2, <2>3, PlayerRight
  <2>5. CopyRight'
    BY ONLY <1>1, <2>1, <2>4 DEF CopyRight, Right, b, dead
  <2> QED  BY ONLY <1>1, <2>4, <2>5 DEF ViewInv
<1>6. CASE copy.status # "unknown" /\ ~Follows
  <2>1. copy' = copy
    BY <1>1, <1>6 DEF HandleNewResult
  <2>2. (copy \in CopyRecord)' /\ CopyRight'
    BY <1>1, <2>1, CopyStays
  <2> QED  BY <1>1, <2>2 DEF ViewInv
<1> QED  BY <1>3, <1>4, <1>5, <1>6

(* A right copy stays right when both sides update and it lives on, or was *)
(* dead before.                                                            *)
LEMMA PlayerUpdateRight ==
  ASSUME NEW c \in CopyRecord, NEW b \in Body, NEW dead \in BOOLEAN, NEW ends \in BOOLEAN,
         NEW expires, expires => c.dead, c.status = "follows", Right(c, b, dead)
  PROVE  LET moved == PlayerUpdateItSelf(c, ends, expires)
         IN  /\ moved \in CopyRecord /\ moved.status = "follows"
             /\ Right(moved, UpdateItSelf(b, dead, ends), dead)
<1> DEFINE moved == PlayerUpdateItSelf(c, ends, expires)
           there == UpdateItSelf(b, dead, ends)
           a == Thrust(b.acc, ends)
<1>1. /\ there.acc = a
      /\ dead => there.pos = b.pos /\ there.vel = b.vel
      /\ ~dead => /\ there.pos = b.pos + 2 * (b.vel + a) + a
                  /\ there.vel = Limited(b.vel + a)
  BY UpdateItSelfDoes
<1>2. /\ Watched \in m_CharacterList /\ (c.dead <=> dead)
      /\ c.pos = b.pos /\ c.vel = b.vel /\ (~dead => c.acc = b.acc)
  BY ONLY Right(c, b, dead) DEF Right
<1> HIDE DEF there
<1>3. CASE dead
  <2>1. moved = c
    BY <1>2, <1>3 DEF PlayerUpdateItSelf
  <2>2. Right(c, there, dead)
    BY ONLY <1>1, <1>2, <1>3 DEF Right
  <2> QED  BY <2>1, <2>2 DEF there
<1>4. CASE ~dead
  <2> DEFINE pushed == IF ends THEN [c EXCEPT !.acc = 0] ELSE c
             carried == CalcCurrentPosition(pushed)
  <2>1. moved = LimitSpeed(carried)
    BY <1>2, <1>4, c.status = "follows", expires => c.dead DEF PlayerUpdateItSelf
  <2> HIDE DEF moved
  <2>2. /\ c = [status |-> c.status, dead |-> c.dead, pos |-> c.pos, vel |-> c.vel, acc |-> c.acc]
        /\ c.pos \in Int /\ c.vel \in Int /\ c.acc \in Int /\ c.dead \in BOOLEAN
    BY ONLY c \in CopyRecord DEF CopyRecord
  <2>3. c.acc = b.acc
    BY ONLY <1>2, <1>4
  <2>4. pushed = [status |-> "follows", dead |-> c.dead, pos |-> b.pos, vel |-> b.vel, acc |-> a]
    <3>1. CASE ends
      BY ONLY <1>2, <2>2, <3>1, c.status = "follows" DEF Thrust
    <3>2. CASE ~ends
      BY ONLY <1>2, <2>2, <2>3, <3>2, c.status = "follows" DEF Thrust
    <3> QED  BY ONLY <3>1, <3>2, ends \in BOOLEAN
  <2>5. a \in Int /\ b.pos \in Int /\ b.vel \in Int
    BY BodyParts DEF Thrust
  <2> HIDE DEF pushed, a
  <2>6. carried = [status |-> "follows", dead |-> c.dead, pos |-> b.pos + 2 * (b.vel + a) + a,
                   vel |-> b.vel + a, acc |-> a]
    <3>1. carried = [pushed EXCEPT !.vel = pushed.vel + pushed.acc,
                                   !.pos = pushed.pos + 2 * (pushed.vel + pushed.acc) + pushed.acc]
      BY ONLY DEF CalcCurrentPosition
    <3>2. pushed.pos = b.pos /\ pushed.vel = b.vel /\ pushed.acc = a
      BY ONLY <2>4
    <3>3. carried = [pushed EXCEPT !.vel = b.vel + a, !.pos = b.pos + 2 * (b.vel + a) + a]
      BY ONLY <3>1, <3>2
    <3> QED  BY ONLY <2>4, <3>3
  <2> HIDE DEF carried
  <2>7. moved = [status |-> "follows", dead |-> c.dead, pos |-> b.pos + 2 * (b.vel + a) + a,
                 vel |-> Limited(b.vel + a), acc |-> a]
    BY ONLY <2>1, <2>6 DEF LimitSpeed, Limited
  <2>8. b.vel + a \in Int /\ b.pos + 2 * (b.vel + a) + a \in Int
    BY ONLY <2>5
  <2>9. Limited(b.vel + a) \in Int
    BY ONLY <2>8, LimitedType
  <2>10. moved \in CopyRecord /\ moved.status = "follows"
    BY ONLY <2>2, <2>5, <2>7, <2>8, <2>9 DEF CopyRecord
  <2>11. Right(moved, there, dead)
    BY ONLY <1>1, <1>2, <1>4, <2>7 DEF Right, a
  <2> QED  BY ONLY <2>10, <2>11 DEF moved, there
<1> QED  BY ONLY <1>3, <1>4, dead \in BOOLEAN

(* A copy that hears of the impacts its body had is right after them.      *)
LEMMA CollisionRight ==
  ASSUME NEW c \in CopyRecord, NEW b \in Body, NEW there \in Body, NEW dead \in BOOLEAN,
         NEW told \in BOOLEAN, c.status = "follows", Right(c, there, dead),
         b.pos = there.pos, b.acc = there.acc, b.vel # there.vel => told
  PROVE  LET steered == IF told THEN HandleCollisionResult(b, c) ELSE c
         IN  /\ steered \in CopyRecord /\ steered.status = "follows"
             /\ Right(steered, b, dead)
<1> DEFINE steered == IF told THEN HandleCollisionResult(b, c) ELSE c
<1>1. /\ Watched \in m_CharacterList /\ (c.dead <=> dead) /\ c.dead \in BOOLEAN /\ c.acc \in Int
      /\ c.pos = there.pos /\ c.vel = there.vel /\ (~dead => c.acc = there.acc)
  BY CopyParts DEF Right
<1>2. CASE told
  <2>1. steered = Player(c.dead, b.pos, b.vel, c.acc)
    BY <1>2, c.status = "follows" DEF HandleCollisionResult
  <2> HIDE DEF steered
  <2>2. ~c.dead => c.acc = b.acc
    BY ONLY <1>1, b.acc = there.acc
  <2>3. steered \in CopyRecord /\ Right(steered, b, c.dead)
    BY ONLY <1>1, <2>1, <2>2, b \in Body, PlayerRight
  <2>4. steered.status = "follows"
    BY ONLY <2>1 DEF Player
  <2>5. Right(steered, b, dead)
    BY ONLY <1>1, <2>3 DEF Right
  <2> QED  BY ONLY <2>3, <2>4, <2>5 DEF steered
<1>3. CASE ~told
  <2>1. Right(c, b, dead)
    BY ONLY <1>1, <1>3, b.pos = there.pos, b.acc = there.acc, b.vel # there.vel => told DEF Right
  <2> QED  BY <1>3, <2>1
<1> QED  BY ONLY <1>2, <1>3, told \in BOOLEAN

(* An update moves both alike, and an impact is told; a copy that dies by  *)
(* itself is lost.                                                         *)
LEMMA ViewPeriodWorkRight ==
  ASSUME ViewInv, NEW ending,
         NEW dying \in SUBSET ((Mortal \cap m_CharacterList) \ m_IsDead), NEW expires \in BOOLEAN,
         ViewPeriodWork(ending, dying, expires)
  PROVE  ViewInv'
<1> DEFINE scan == CheckCollision(Moved(ending))
           there == Moved(ending)[Watched]
           b == body'[Watched]
           dead == Watched \in m_IsDead
           told == Watched \in scan.collided
           moved == PlayerUpdateItSelf(copy, Watched \in ending, expires)
           steered == IF told THEN HandleCollisionResult(b, moved) ELSE moved
           expired == expires /\ ~copy.dead /\ copy.status # "unknown"
<1>1. /\ MotionType' /\ m_CharacterList' = m_CharacterList /\ m_IsDead' = m_IsDead \cup dying
      /\ Kept(Moved(ending), scan) /\ body' = scan.bodies
  BY PeriodWorkDoes DEF ViewPeriodWork, ViewInv
<1>2. copy' = IF Watched \in dying THEN HandleDeadResult(steered) ELSE steered
  BY DEF ViewPeriodWork, CollidedPlayers, WatchedBody
<1>3. copy \in CopyRecord
  BY DEF ViewInv
<1>4. CASE expired
  <2>1. moved = Lost(TRUE)
    BY <1>4 DEF PlayerUpdateItSelf
  <2>2. Lost(TRUE) \in CopyRecord /\ Lost(TRUE).status = "lost"
    BY LostIs DEF Lost
  <2> HIDE DEF moved, b, told
  <2>3. steered = Lost(TRUE)
    BY ONLY <2>1, <2>2 DEF HandleCollisionResult
  <2> HIDE DEF steered
  <2>4. HandleDeadResult(steered) = Lost(TRUE)
    BY ONLY <2>2, <2>3 DEF HandleDeadResult
  <2>5. copy' \in CopyRecord /\ copy'.status # "follows"
    BY ONLY <1>2, <2>2, <2>3, <2>4
  <2> QED  BY <1>1, <2>5 DEF ViewInv, CopyRight, Follows
<1>5. CASE ~Follows /\ ~expired
  <2>1. steered = copy
    <3>1. moved = copy
      <4>1. copy.dead \/ copy.status = "unknown" \/ (~expires /\ copy.status = "lost")
        BY <1>3, <1>5 DEF CopyRecord, Follows
      <4> QED  BY <4>1 DEF PlayerUpdateItSelf
    <3>2. copy.status # "follows"
      BY ONLY <1>5 DEF Follows
    <3> HIDE DEF moved, b, told
    <3> QED  BY ONLY <3>1, <3>2 DEF HandleCollisionResult
  <2>2. copy' \in CopyRecord /\ copy'.status # "follows"
    <3>1. CASE Watched \in dying /\ copy.status = "lost"
      <4>1. copy' = Lost(TRUE)
        <5> HIDE DEF steered
        <5>1. copy' = HandleDeadResult(copy)
          BY ONLY <1>2, <2>1, <3>1
        <5> QED  BY ONLY <3>1, <5>1 DEF HandleDeadResult
      <4> QED  BY <4>1, LostIs
    <3>2. CASE ~(Watched \in dying /\ copy.status = "lost")
      <4>1. copy' = copy
        BY <1>2, <1>5, <2>1, <3>2 DEF HandleDeadResult, Follows
      <4> QED  BY <1>3, <1>5, <4>1 DEF Follows
    <3> QED  BY <3>1, <3>2
  <2> QED  BY <1>1, <2>2 DEF ViewInv, CopyRight, Follows
<1>6. CASE Follows /\ ~expired
  <2>1. Right(copy, body[Watched], dead) /\ copy.status = "follows"
    BY <1>6 DEF ViewInv, CopyRight, Follows
  <2>2. Watched \in m_CharacterList /\ Watched \in Id /\ body[Watched] \in Body
    BY <2>1, WatchedAssumption DEF Right, ViewInv, MotionType
  <2>3. there = UpdateItSelf(body[Watched], dead, Watched \in ending) /\ there \in Body
    BY <2>2, MovedType DEF ViewInv
  <2>4. moved \in CopyRecord /\ moved.status = "follows" /\ Right(moved, there, dead)
    <3> DEFINE ends == Watched \in ending
    <3>1. ends \in BOOLEAN /\ dead \in BOOLEAN
      OBVIOUS
    <3>2. expires => copy.dead
      BY ONLY <1>6, <2>1
    <3>3. moved = PlayerUpdateItSelf(copy, ends, expires) /\ there = UpdateItSelf(body[Watched], dead, ends)
      BY ONLY <2>3
    <3> HIDE DEF ends, dead, moved, there
    <3> QED  BY ONLY <1>3, <2>1, <2>2, <3>1, <3>2, <3>3, PlayerUpdateRight
  <2>5. /\ b \in Body /\ b.pos = there.pos /\ b.acc = there.acc
        /\ b.vel # there.vel => told
    BY <1>1, <2>2 DEF Kept, Untouched, Announced, ScanType
  <2>6. told \in BOOLEAN /\ dead \in BOOLEAN
    OBVIOUS
  <2> HIDE DEF b, there, told, moved, dead
  <2>7. steered \in CopyRecord /\ steered.status = "follows" /\ Right(steered, b, dead)
    BY ONLY <2>3, <2>4, <2>5, <2>6, CollisionRight
  <2> HIDE DEF steered
  <2>8. CASE Watched \in dying
    <3>1. copy' = Player(TRUE, steered.pos, steered.vel, 0)
      BY ONLY <1>2, <2>7, <2>8 DEF HandleDeadResult
    <3>2. steered.pos = b.pos /\ steered.vel = b.vel
      BY ONLY <2>7 DEF Right
    <3>3. copy' = [status |-> "follows", dead |-> TRUE, pos |-> b.pos, vel |-> b.vel, acc |-> 0]
      BY ONLY <3>1, <3>2 DEF Player
    <3>4. b.pos \in Int /\ b.vel \in Int
      BY ONLY <2>5, BodyParts
    <3>5. copy' \in CopyRecord
      BY ONLY <3>3, <3>4 DEF CopyRecord
    <3>6. (Watched \in m_CharacterList)' /\ (Watched \in m_IsDead)'
      BY ONLY <1>1, <2>2, <2>8
    <3>7. CopyRight'
      BY ONLY <3>3, <3>6 DEF CopyRight, Right, b
    <3> QED  BY ONLY <1>1, <3>5, <3>7 DEF ViewInv
  <2>9. CASE Watched \notin dying
    <3>1. copy' = steered
      BY ONLY <1>2, <2>9
    <3>2. Watched \in m_IsDead' <=> dead
      BY ONLY <1>1, <2>9 DEF dead
    <3>3. CopyRight'
      BY ONLY <1>1, <2>7, <3>1, <3>2 DEF CopyRight, Right, b
    <3> QED  BY ONLY <1>1, <2>7, <3>1, <3>3 DEF ViewInv
  <2> QED  BY ONLY <2>8, <2>9
<1> QED  BY <1>4, <1>5, <1>6

(* Every step keeps the copy right.                                        *)
LEMMA StepKeepsViewInv == ViewInv /\ [ViewNext]_viewVars => ViewInv'
<1> SUFFICES ASSUME ViewInv, [ViewNext]_viewVars PROVE ViewInv'
  OBVIOUS
<1>1. ASSUME NEW ending \in SUBSET Accelerating,
             NEW dying \in SUBSET ((Mortal \cap m_CharacterList) \ m_IsDead),
             NEW expires \in BOOLEAN, ViewPeriodWork(ending, dying, expires)
      PROVE  ViewInv'
  BY <1>1, ViewPeriodWorkRight
<1>2. CASE ViewTurnBody
  BY <1>2, ViewTurnBodyRight
<1>3. CASE ViewGameState
  BY <1>3, ViewGameStateRight
<1>4. ASSUME NEW p \in Id, ViewRegister(p) PROVE ViewInv'
  BY <1>4, ViewRegisterRight
<1>5. Acting \subseteq Id
  BY MotionAssumption
<1>6. ASSUME NEW p \in Acting, ViewDeregister(p) PROVE ViewInv'
  BY <1>5, <1>6, ViewDeregisterRight
<1>7. ASSUME NEW p \in Acting, ViewRespawn(p) PROVE ViewInv'
  BY <1>5, <1>7, ViewRespawnRight
<1>8. ASSUME NEW p \in Acting, ViewStop(p) PROVE ViewInv'
  BY <1>5, <1>8, ViewStopRight
<1>9. ASSUME NEW p \in Acting, NEW d \in Direction, ViewGoForward(p, d) PROVE ViewInv'
  BY <1>5, <1>9, ViewGoForwardRight
<1>10. ASSUME NEW p \in Acting, NEW d \in Direction, ViewPush(p, d) PROVE ViewInv'
  BY <1>5, <1>10, ViewPushRight
<1>11. CASE UNCHANGED viewVars
  <2>1. MotionType'
    BY <1>11 DEF viewVars, vars, ViewInv, MotionType
  <2>2. (copy \in CopyRecord)' /\ CopyRight'
    BY <1>11, CopyStays DEF viewVars, vars
  <2> QED  BY <2>1, <2>2 DEF ViewInv
<1> QED
  BY <1>1, <1>2, <1>3, <1>4, <1>6, <1>7, <1>8, <1>9, <1>10, <1>11 DEF ViewNext

(* A copy that once agreed with the server stays with it: the handlers of  *)
(* NetworkManager and Player are told enough of what changes a course, for *)
(* any number of characters, any speeds, weights and ranges.               *)
THEOREM CopyAlwaysFollows == ViewSpec => []CopyFollows
<1>1. ViewInit => ViewInv
  BY InitialViewInv
<1>2. ViewInv /\ [ViewNext]_viewVars => ViewInv'
  BY StepKeepsViewInv
<1>3. ViewInv => CopyFollows
  BY ViewInvFollows
<1> QED  BY <1>1, <1>2, <1>3, PTL DEF ViewSpec

(* With the copies beside it the server does what it does alone.           *)
THEOREM ViewImplementsMotion == ViewSpec => Spec
<1>1. ViewInit => Init
  BY DEF ViewInit
<1>2. [ViewNext]_viewVars => [Next]_vars
  <2> SUFFICES ASSUME [ViewNext]_viewVars PROVE [Next]_vars
    OBVIOUS
  <2>1. ASSUME NEW ending \in SUBSET Accelerating,
               NEW dying \in SUBSET ((Mortal \cap m_CharacterList) \ m_IsDead),
               NEW expires \in BOOLEAN, ViewPeriodWork(ending, dying, expires)
        PROVE  Next
    BY <2>1 DEF ViewPeriodWork, Next
  <2>2. CASE ViewTurnBody \/ ViewGameState
    BY <2>2 DEF ViewTurnBody, ViewGameState, vars
  <2>3. ASSUME NEW p \in Id, ViewRegister(p) PROVE Next
    BY <2>3 DEF ViewRegister, Next
  <2>4. ASSUME NEW p \in Acting, ViewDeregister(p) \/ ViewRespawn(p) \/ ViewStop(p) PROVE Next
    BY <2>4 DEF ViewDeregister, ViewRespawn, ViewStop, Next
  <2>5. ASSUME NEW p \in Acting, NEW d \in Direction, ViewGoForward(p, d) \/ ViewPush(p, d),
               SumFunction([i \in Id |-> Distance(body'[i].acc, 0)]) <= MaxThrust
        PROVE  Next
    BY <2>5 DEF ViewGoForward, ViewPush, Next
  <2>6. CASE UNCHANGED viewVars
    BY <2>6 DEF viewVars
  <2> QED  BY <2>1, <2>2, <2>3, <2>4, <2>5, <2>6 DEF ViewNext
<1> QED  BY <1>1, <1>2, PTL DEF ViewSpec, Spec
-----------------------------------------------------------------------------
(***************************************************************************)
(* The client's frame.                                                     *)
(***************************************************************************)
(* The loop of RenderItSelf over the vertices, from a locked segment on.    *)
PutAll(locked, vs) == FoldLeft(PutVertex, locked, vs)

(* The loop of RenderItSelf goes over the vertices one by one.              *)
LEMMA RenderStages ==
  ASSUME NEW vs, Len(vs) \in Nat, DOMAIN vs = 1 .. Len(vs), NEW start
  PROVE  \E r : /\ r[0] = start
                /\ r[Len(vs)] = PutAll(start, vs)
                /\ \A k \in 0 .. Len(vs) - 1 : r[k + 1] = PutVertex(r[k], vs[k + 1])
<1> DEFINE next(v, i) == PutVertex(v, vs[i])
           Def == {k \in Nat : \E F : \A T \in SUBSET (1 .. k) :
                     F[T] = IF T = {} THEN start ELSE next(F[T \ {Max(T)}], Max(T))}
           Eq(F, D) == F = [T \in SUBSET D |-> IF T = {} THEN start
                                               ELSE next(F[T \ {Max(T)}], Max(T))]
           fold == CHOOSE F : Eq(F, DOMAIN vs)
<1>1. PutAll(start, vs) = fold[DOMAIN vs]
  BY DEF FoldLeft, MapThenFoldSet, PutAll
<1>2. \A v : \A k \in Nat : next(v, k + 1) = PutVertex(v, vs[k + 1])
  OBVIOUS
<1> HIDE DEF next
<1>3. 0 \in Def
  <2> DEFINE F == [T \in SUBSET (1 .. 0) |-> start]
  <2>1. \A T \in SUBSET (1 .. 0) : F[T] = start /\ T = {}
    OBVIOUS
  <2> HIDE DEF F
  <2> QED  BY ONLY <2>1
<1>4. ASSUME NEW k \in Nat, k \in Def PROVE k + 1 \in Def
  <2>1. PICK F : \A T \in SUBSET (1 .. k) :
                   F[T] = IF T = {} THEN start ELSE next(F[T \ {Max(T)}], Max(T))
    BY ONLY <1>4
  <2> DEFINE G == [T \in SUBSET (1 .. k + 1) |-> IF k + 1 \in T
                     THEN next(F[T \ {k + 1}], k + 1) ELSE F[T]]
  <2>2. ASSUME NEW T \in SUBSET (1 .. k + 1)
        PROVE  G[T] = IF T = {} THEN start ELSE next(G[T \ {Max(T)}], Max(T))
    <3>1. CASE k + 1 \in T
      <4>1. /\ Max(T) = k + 1
            /\ T \ {Max(T)} \in SUBSET (1 .. k + 1) /\ k + 1 \notin T \ {Max(T)}
        BY <3>1, MaxOfInitial
      <4>2. G[T \ {Max(T)}] = F[T \ {Max(T)}]
        BY ONLY <4>1
      <4>3. G[T] = next(F[T \ {k + 1}], k + 1)
        BY ONLY <3>1, T \in SUBSET (1 .. k + 1)
      <4> HIDE DEF G
      <4> QED  BY ONLY <3>1, <4>1, <4>2, <4>3
    <3>2. CASE k + 1 \notin T
      <4>1. T \in SUBSET (1 .. k)
        BY ONLY <3>2, k \in Nat, T \in SUBSET (1 .. k + 1)
      <4>2. T \ {Max(T)} \in SUBSET (1 .. k + 1) /\ k + 1 \notin T \ {Max(T)}
        BY ONLY <3>2, T \in SUBSET (1 .. k + 1)
      <4>3. G[T \ {Max(T)}] = F[T \ {Max(T)}] /\ G[T] = F[T]
        BY ONLY <3>2, <4>2, T \in SUBSET (1 .. k + 1)
      <4>4. F[T] = IF T = {} THEN start ELSE next(F[T \ {Max(T)}], Max(T))
        BY ONLY <2>1, <4>1
      <4> HIDE DEF G
      <4> QED  BY ONLY <4>3, <4>4
    <3> QED  BY ONLY <3>1, <3>2
  <2> HIDE DEF G
  <2>3. \E H : \A T \in SUBSET (1 .. k + 1) :
          H[T] = IF T = {} THEN start ELSE next(H[T \ {Max(T)}], Max(T))
    BY ONLY <2>2
  <2>4. k + 1 \in Nat
    BY ONLY k \in Nat
  <2> QED  BY ONLY <2>3, <2>4
<1>5. Len(vs) \in Nat /\ DOMAIN vs = 1 .. Len(vs)
  OBVIOUS
<1>6. Len(vs) \in Def
  <2> HIDE DEF Def
  <2> QED  BY ONLY <1>3, <1>4, <1>5, NatInduct
<1>7. Eq(fold, 1 .. Len(vs))
  <2>1. PICK F : \A T \in SUBSET DOMAIN vs :
                   F[T] = IF T = {} THEN start ELSE next(F[T \ {Max(T)}], Max(T))
    BY ONLY <1>5, <1>6
  <2> DEFINE G == [T \in SUBSET DOMAIN vs |-> F[T]]
  <2>2. \A T \in SUBSET DOMAIN vs : G[T] = F[T] /\ G[T \ {Max(T)}] = F[T \ {Max(T)}]
    OBVIOUS
  <2>3. G = [T \in SUBSET DOMAIN vs |-> G[T]]
    OBVIOUS
  <2> HIDE DEF G
  <2>4. Eq(G, DOMAIN vs)
    BY ONLY <2>1, <2>2, <2>3
  <2> HIDE DEF Eq
  <2>5. Eq(fold, DOMAIN vs)
    BY ONLY <2>4
  <2> QED  BY ONLY <1>5, <2>5
<1> HIDE DEF fold
<1>8. fold[1 .. 0] = start
  <2>1. 1 .. 0 = {} /\ {} \in SUBSET (1 .. Len(vs))
    OBVIOUS
  <2> QED  BY ONLY <1>7, <2>1
<1>9. ASSUME NEW k \in 0 .. Len(vs) - 1
      PROVE  fold[1 .. k + 1] = next(fold[1 .. k], k + 1)
  <2>1. k \in Nat /\ 1 .. k + 1 \in SUBSET (1 .. Len(vs))
    BY ONLY <1>5, k \in 0 .. Len(vs) - 1
  <2>2. Max(1 .. k + 1) = k + 1 /\ (1 .. k + 1) \ {k + 1} = 1 .. k /\ 1 .. k + 1 # {}
    BY ONLY <2>1, InitialStep
  <2>3. fold[1 .. k + 1] = next(fold[(1 .. k + 1) \ {Max(1 .. k + 1)}], Max(1 .. k + 1))
    BY ONLY <1>7, <2>1, <2>2
  <2> QED  BY ONLY <2>2, <2>3
<1> HIDE DEF Eq
<1> DEFINE r == [k \in 0 .. Len(vs) |-> fold[1 .. k]]
<1>10. r[0] = fold[1 .. 0] /\ r[Len(vs)] = fold[1 .. Len(vs)]
  BY ONLY <1>5
<1>11. \A k \in 0 .. Len(vs) - 1 : k \in Nat /\ r[k + 1] = fold[1 .. k + 1] /\ r[k] = fold[1 .. k]
  BY ONLY <1>5
<1> HIDE DEF r
<1>12. \A k \in 0 .. Len(vs) - 1 : r[k + 1] = next(r[k], k + 1)
  BY ONLY <1>9, <1>11
<1>13. \A k \in 0 .. Len(vs) - 1 : r[k + 1] = PutVertex(r[k], vs[k + 1])
  BY ONLY <1>2, <1>11, <1>12
<1>14. r[Len(vs)] = PutAll(start, vs)
  BY ONLY <1>1, <1>5, <1>10
<1> QED  BY ONLY <1>8, <1>10, <1>13, <1>14

(* The draws that go on reading are looked for one by one.                  *)
LEMMA ReadStages ==
  ASSUME Len(pending) \in Nat, DOMAIN pending = 1 .. Len(pending), NEW rendered
  PROVE  \E r : /\ r[0] = <<>>
                /\ r[Len(pending)] = StillRead(rendered)
                /\ \A k \in 0 .. Len(pending) - 1 : r[k + 1] =
                       (IF rendered[pending[k + 1].system].discarded
                        THEN r[k]
                        ELSE Append(r[k], pending[k + 1]))
<1> DEFINE next(v, i) ==
               (IF rendered[pending[i].system].discarded
                THEN v
                ELSE Append(v, pending[i]))
           Def == {k \in Nat : \E F : \A T \in SUBSET (1 .. k) :
                     F[T] = IF T = {} THEN <<>> ELSE next(F[T \ {Max(T)}], Max(T))}
           Eq(F, D) == F = [T \in SUBSET D |-> IF T = {} THEN <<>>
                                               ELSE next(F[T \ {Max(T)}], Max(T))]
           fold == CHOOSE F : Eq(F, DOMAIN pending)
<1>1. StillRead(rendered) = fold[DOMAIN pending]
  BY DEF FoldLeft, MapThenFoldSet, StillRead
<1>2. \A v : \A k \in Nat : next(v, k + 1) =
          (IF rendered[pending[k + 1].system].discarded
           THEN v
           ELSE Append(v, pending[k + 1]))
  OBVIOUS
<1> HIDE DEF next
<1>3. 0 \in Def
  <2> DEFINE F == [T \in SUBSET (1 .. 0) |-> <<>>]
  <2>1. \A T \in SUBSET (1 .. 0) : F[T] = <<>> /\ T = {}
    OBVIOUS
  <2> HIDE DEF F
  <2> QED  BY ONLY <2>1
<1>4. ASSUME NEW k \in Nat, k \in Def PROVE k + 1 \in Def
  <2>1. PICK F : \A T \in SUBSET (1 .. k) :
                   F[T] = IF T = {} THEN <<>> ELSE next(F[T \ {Max(T)}], Max(T))
    BY ONLY <1>4
  <2> DEFINE G == [T \in SUBSET (1 .. k + 1) |-> IF k + 1 \in T
                     THEN next(F[T \ {k + 1}], k + 1) ELSE F[T]]
  <2>2. ASSUME NEW T \in SUBSET (1 .. k + 1)
        PROVE  G[T] = IF T = {} THEN <<>> ELSE next(G[T \ {Max(T)}], Max(T))
    <3>1. CASE k + 1 \in T
      <4>1. /\ Max(T) = k + 1
            /\ T \ {Max(T)} \in SUBSET (1 .. k + 1) /\ k + 1 \notin T \ {Max(T)}
        BY <3>1, MaxOfInitial
      <4>2. G[T \ {Max(T)}] = F[T \ {Max(T)}]
        BY ONLY <4>1
      <4>3. G[T] = next(F[T \ {k + 1}], k + 1)
        BY ONLY <3>1, T \in SUBSET (1 .. k + 1)
      <4> HIDE DEF G
      <4> QED  BY ONLY <3>1, <4>1, <4>2, <4>3
    <3>2. CASE k + 1 \notin T
      <4>1. T \in SUBSET (1 .. k)
        BY ONLY <3>2, k \in Nat, T \in SUBSET (1 .. k + 1)
      <4>2. T \ {Max(T)} \in SUBSET (1 .. k + 1) /\ k + 1 \notin T \ {Max(T)}
        BY ONLY <3>2, T \in SUBSET (1 .. k + 1)
      <4>3. G[T \ {Max(T)}] = F[T \ {Max(T)}] /\ G[T] = F[T]
        BY ONLY <3>2, <4>2, T \in SUBSET (1 .. k + 1)
      <4>4. F[T] = IF T = {} THEN <<>> ELSE next(F[T \ {Max(T)}], Max(T))
        BY ONLY <2>1, <4>1
      <4> HIDE DEF G
      <4> QED  BY ONLY <4>3, <4>4
    <3> QED  BY ONLY <3>1, <3>2
  <2> HIDE DEF G
  <2>3. \E H : \A T \in SUBSET (1 .. k + 1) :
          H[T] = IF T = {} THEN <<>> ELSE next(H[T \ {Max(T)}], Max(T))
    BY ONLY <2>2
  <2>4. k + 1 \in Nat
    BY ONLY k \in Nat
  <2> QED  BY ONLY <2>3, <2>4
<1>5. Len(pending) \in Nat /\ DOMAIN pending = 1 .. Len(pending)
  OBVIOUS
<1>6. Len(pending) \in Def
  <2> HIDE DEF Def
  <2> QED  BY ONLY <1>3, <1>4, <1>5, NatInduct
<1>7. Eq(fold, 1 .. Len(pending))
  <2>1. PICK F : \A T \in SUBSET DOMAIN pending :
                   F[T] = IF T = {} THEN <<>> ELSE next(F[T \ {Max(T)}], Max(T))
    BY ONLY <1>5, <1>6
  <2> DEFINE G == [T \in SUBSET DOMAIN pending |-> F[T]]
  <2>2. \A T \in SUBSET DOMAIN pending : G[T] = F[T] /\ G[T \ {Max(T)}] = F[T \ {Max(T)}]
    OBVIOUS
  <2>3. G = [T \in SUBSET DOMAIN pending |-> G[T]]
    OBVIOUS
  <2> HIDE DEF G
  <2>4. Eq(G, DOMAIN pending)
    BY ONLY <2>1, <2>2, <2>3
  <2> HIDE DEF Eq
  <2>5. Eq(fold, DOMAIN pending)
    BY ONLY <2>4
  <2> QED  BY ONLY <1>5, <2>5
<1> HIDE DEF fold
<1>8. fold[1 .. 0] = <<>>
  <2>1. 1 .. 0 = {} /\ {} \in SUBSET (1 .. Len(pending))
    OBVIOUS
  <2> QED  BY ONLY <1>7, <2>1
<1>9. ASSUME NEW k \in 0 .. Len(pending) - 1
      PROVE  fold[1 .. k + 1] = next(fold[1 .. k], k + 1)
  <2>1. k \in Nat /\ 1 .. k + 1 \in SUBSET (1 .. Len(pending))
    BY ONLY <1>5, k \in 0 .. Len(pending) - 1
  <2>2. Max(1 .. k + 1) = k + 1 /\ (1 .. k + 1) \ {k + 1} = 1 .. k /\ 1 .. k + 1 # {}
    BY ONLY <2>1, InitialStep
  <2>3. fold[1 .. k + 1] = next(fold[(1 .. k + 1) \ {Max(1 .. k + 1)}], Max(1 .. k + 1))
    BY ONLY <1>7, <2>1, <2>2
  <2> QED  BY ONLY <2>2, <2>3
<1> HIDE DEF Eq
<1> DEFINE r == [k \in 0 .. Len(pending) |-> fold[1 .. k]]
<1>10. r[0] = fold[1 .. 0] /\ r[Len(pending)] = fold[1 .. Len(pending)]
  BY ONLY <1>5
<1>11. \A k \in 0 .. Len(pending) - 1 :
         k \in Nat /\ r[k + 1] = fold[1 .. k + 1] /\ r[k] = fold[1 .. k]
  BY ONLY <1>5
<1> HIDE DEF r
<1>12. \A k \in 0 .. Len(pending) - 1 : r[k + 1] = next(r[k], k + 1)
  BY ONLY <1>9, <1>11
<1>13. \A k \in 0 .. Len(pending) - 1 : r[k + 1] =
           (IF rendered[pending[k + 1].system].discarded
            THEN r[k]
            ELSE Append(r[k], pending[k + 1]))
  BY ONLY <1>2, <1>11, <1>12
<1>14. r[Len(pending)] = StillRead(rendered)
  BY ONLY <1>1, <1>5, <1>10
<1> QED  BY ONLY <1>8, <1>10, <1>13, <1>14

(* The draws of one more system.                                            *)
Behind(draws, r) == draws \o r.draws

(* The draws of a frame come system by system.                              *)
LEMMA DrawsStages ==
  ASSUME Len(RenderOrder) \in Nat, DOMAIN RenderOrder = 1 .. Len(RenderOrder),
         NEW rendered, NEW before
  PROVE  \E r : /\ r[0] = before
                /\ r[Len(RenderOrder)] = DrawsOf(rendered, before)
                /\ \A k \in 0 .. Len(RenderOrder) - 1 :
                     r[k + 1] = Behind(r[k], rendered[RenderOrder[k + 1]])
<1> DEFINE next(v, i) == Behind(v, rendered[RenderOrder[i]])
           Def == {k \in Nat : \E F : \A T \in SUBSET (1 .. k) :
                     F[T] = IF T = {} THEN before ELSE next(F[T \ {Max(T)}], Max(T))}
           Eq(F, D) == F = [T \in SUBSET D |-> IF T = {} THEN before
                                               ELSE next(F[T \ {Max(T)}], Max(T))]
           fold == CHOOSE F : Eq(F, DOMAIN RenderOrder)
<1>1. DrawsOf(rendered, before) = fold[DOMAIN RenderOrder]
  BY DEF FoldLeft, MapThenFoldSet, DrawsOf, Behind
<1>2. \A v : \A k \in Nat : next(v, k + 1) = Behind(v, rendered[RenderOrder[k + 1]])
  OBVIOUS
<1> HIDE DEF next
<1>3. 0 \in Def
  <2> DEFINE F == [T \in SUBSET (1 .. 0) |-> before]
  <2>1. \A T \in SUBSET (1 .. 0) : F[T] = before /\ T = {}
    OBVIOUS
  <2> HIDE DEF F
  <2> QED  BY ONLY <2>1
<1>4. ASSUME NEW k \in Nat, k \in Def PROVE k + 1 \in Def
  <2>1. PICK F : \A T \in SUBSET (1 .. k) :
                   F[T] = IF T = {} THEN before ELSE next(F[T \ {Max(T)}], Max(T))
    BY ONLY <1>4
  <2> DEFINE G == [T \in SUBSET (1 .. k + 1) |-> IF k + 1 \in T
                     THEN next(F[T \ {k + 1}], k + 1) ELSE F[T]]
  <2>2. ASSUME NEW T \in SUBSET (1 .. k + 1)
        PROVE  G[T] = IF T = {} THEN before ELSE next(G[T \ {Max(T)}], Max(T))
    <3>1. CASE k + 1 \in T
      <4>1. /\ Max(T) = k + 1
            /\ T \ {Max(T)} \in SUBSET (1 .. k + 1) /\ k + 1 \notin T \ {Max(T)}
        BY <3>1, MaxOfInitial
      <4>2. G[T \ {Max(T)}] = F[T \ {Max(T)}]
        BY ONLY <4>1
      <4>3. G[T] = next(F[T \ {k + 1}], k + 1)
        BY ONLY <3>1, T \in SUBSET (1 .. k + 1)
      <4> HIDE DEF G
      <4> QED  BY ONLY <3>1, <4>1, <4>2, <4>3
    <3>2. CASE k + 1 \notin T
      <4>1. T \in SUBSET (1 .. k)
        BY ONLY <3>2, k \in Nat, T \in SUBSET (1 .. k + 1)
      <4>2. T \ {Max(T)} \in SUBSET (1 .. k + 1) /\ k + 1 \notin T \ {Max(T)}
        BY ONLY <3>2, T \in SUBSET (1 .. k + 1)
      <4>3. G[T \ {Max(T)}] = F[T \ {Max(T)}] /\ G[T] = F[T]
        BY ONLY <3>2, <4>2, T \in SUBSET (1 .. k + 1)
      <4>4. F[T] = IF T = {} THEN before ELSE next(F[T \ {Max(T)}], Max(T))
        BY ONLY <2>1, <4>1
      <4> HIDE DEF G
      <4> QED  BY ONLY <4>3, <4>4
    <3> QED  BY ONLY <3>1, <3>2
  <2> HIDE DEF G
  <2>3. \E H : \A T \in SUBSET (1 .. k + 1) :
          H[T] = IF T = {} THEN before ELSE next(H[T \ {Max(T)}], Max(T))
    BY ONLY <2>2
  <2>4. k + 1 \in Nat
    BY ONLY k \in Nat
  <2> QED  BY ONLY <2>3, <2>4
<1>5. Len(RenderOrder) \in Nat /\ DOMAIN RenderOrder = 1 .. Len(RenderOrder)
  OBVIOUS
<1>6. Len(RenderOrder) \in Def
  <2> HIDE DEF Def
  <2> QED  BY ONLY <1>3, <1>4, <1>5, NatInduct
<1>7. Eq(fold, 1 .. Len(RenderOrder))
  <2>1. PICK F : \A T \in SUBSET DOMAIN RenderOrder :
                   F[T] = IF T = {} THEN before ELSE next(F[T \ {Max(T)}], Max(T))
    BY ONLY <1>5, <1>6
  <2> DEFINE G == [T \in SUBSET DOMAIN RenderOrder |-> F[T]]
  <2>2. \A T \in SUBSET DOMAIN RenderOrder : G[T] = F[T] /\ G[T \ {Max(T)}] = F[T \ {Max(T)}]
    OBVIOUS
  <2>3. G = [T \in SUBSET DOMAIN RenderOrder |-> G[T]]
    OBVIOUS
  <2> HIDE DEF G
  <2>4. Eq(G, DOMAIN RenderOrder)
    BY ONLY <2>1, <2>2, <2>3
  <2> HIDE DEF Eq
  <2>5. Eq(fold, DOMAIN RenderOrder)
    BY ONLY <2>4
  <2> QED  BY ONLY <1>5, <2>5
<1> HIDE DEF fold
<1>8. fold[1 .. 0] = before
  <2>1. 1 .. 0 = {} /\ {} \in SUBSET (1 .. Len(RenderOrder))
    OBVIOUS
  <2> QED  BY ONLY <1>7, <2>1
<1>9. ASSUME NEW k \in 0 .. Len(RenderOrder) - 1
      PROVE  fold[1 .. k + 1] = next(fold[1 .. k], k + 1)
  <2>1. k \in Nat /\ 1 .. k + 1 \in SUBSET (1 .. Len(RenderOrder))
    BY ONLY <1>5, k \in 0 .. Len(RenderOrder) - 1
  <2>2. Max(1 .. k + 1) = k + 1 /\ (1 .. k + 1) \ {k + 1} = 1 .. k /\ 1 .. k + 1 # {}
    BY ONLY <2>1, InitialStep
  <2>3. fold[1 .. k + 1] = next(fold[(1 .. k + 1) \ {Max(1 .. k + 1)}], Max(1 .. k + 1))
    BY ONLY <1>7, <2>1, <2>2
  <2> QED  BY ONLY <2>2, <2>3
<1> HIDE DEF Eq
<1> DEFINE r == [k \in 0 .. Len(RenderOrder) |-> fold[1 .. k]]
<1>10. r[0] = fold[1 .. 0] /\ r[Len(RenderOrder)] = fold[1 .. Len(RenderOrder)]
  BY ONLY <1>5
<1>11. \A k \in 0 .. Len(RenderOrder) - 1 :
         k \in Nat /\ r[k + 1] = fold[1 .. k + 1] /\ r[k] = fold[1 .. k]
  BY ONLY <1>5
<1> HIDE DEF r
<1>12. \A k \in 0 .. Len(RenderOrder) - 1 : r[k + 1] = next(r[k], k + 1)
  BY ONLY <1>9, <1>11
<1>13. \A k \in 0 .. Len(RenderOrder) - 1 : r[k + 1] = Behind(r[k], rendered[RenderOrder[k + 1]])
  BY ONLY <1>2, <1>11, <1>12
<1>14. r[Len(RenderOrder)] = DrawsOf(rendered, before)
  BY ONLY <1>1, <1>5, <1>10
<1> QED  BY ONLY <1>8, <1>10, <1>13, <1>14

(* The living are looked for one by one.                                    *)
LEMMA VertexStages ==
  ASSUME NEW particles, Len(Places(particles)) \in Nat,
         DOMAIN Places(particles) = 1 .. Len(Places(particles))
  PROVE  \E r : /\ r[0] = <<>>
                /\ r[Len(Places(particles))] = Vertices(particles)
                /\ \A k \in 0 .. Len(Places(particles)) - 1 : r[k + 1] =
                       (IF particles[Places(particles)[k + 1]]._isAlive
                        THEN Append(r[k],
                                    <<Places(particles)[k + 1], particles[Places(particles)[k + 1]]._age>>)
                        ELSE r[k])
<1> DEFINE next(v, i) ==
               (IF particles[Places(particles)[i]]._isAlive
                THEN Append(v,
                            <<Places(particles)[i], particles[Places(particles)[i]]._age>>)
                ELSE v)
           Def == {k \in Nat : \E F : \A T \in SUBSET (1 .. k) :
                     F[T] = IF T = {} THEN <<>> ELSE next(F[T \ {Max(T)}], Max(T))}
           Eq(F, D) == F = [T \in SUBSET D |-> IF T = {} THEN <<>>
                                               ELSE next(F[T \ {Max(T)}], Max(T))]
           fold == CHOOSE F : Eq(F, DOMAIN Places(particles))
<1>1. Vertices(particles) = fold[DOMAIN Places(particles)]
  BY DEF FoldLeft, MapThenFoldSet, Vertices
<1>2. \A v : \A k \in Nat : next(v, k + 1) =
          (IF particles[Places(particles)[k + 1]]._isAlive
           THEN Append(v,
                       <<Places(particles)[k + 1], particles[Places(particles)[k + 1]]._age>>)
           ELSE v)
  OBVIOUS
<1> HIDE DEF next
<1>3. 0 \in Def
  <2> DEFINE F == [T \in SUBSET (1 .. 0) |-> <<>>]
  <2>1. \A T \in SUBSET (1 .. 0) : F[T] = <<>> /\ T = {}
    OBVIOUS
  <2> HIDE DEF F
  <2> QED  BY ONLY <2>1
<1>4. ASSUME NEW k \in Nat, k \in Def PROVE k + 1 \in Def
  <2>1. PICK F : \A T \in SUBSET (1 .. k) :
                   F[T] = IF T = {} THEN <<>> ELSE next(F[T \ {Max(T)}], Max(T))
    BY ONLY <1>4
  <2> DEFINE G == [T \in SUBSET (1 .. k + 1) |-> IF k + 1 \in T
                     THEN next(F[T \ {k + 1}], k + 1) ELSE F[T]]
  <2>2. ASSUME NEW T \in SUBSET (1 .. k + 1)
        PROVE  G[T] = IF T = {} THEN <<>> ELSE next(G[T \ {Max(T)}], Max(T))
    <3>1. CASE k + 1 \in T
      <4>1. /\ Max(T) = k + 1
            /\ T \ {Max(T)} \in SUBSET (1 .. k + 1) /\ k + 1 \notin T \ {Max(T)}
        BY <3>1, MaxOfInitial
      <4>2. G[T \ {Max(T)}] = F[T \ {Max(T)}]
        BY ONLY <4>1
      <4>3. G[T] = next(F[T \ {k + 1}], k + 1)
        BY ONLY <3>1, T \in SUBSET (1 .. k + 1)
      <4> HIDE DEF G
      <4> QED  BY ONLY <3>1, <4>1, <4>2, <4>3
    <3>2. CASE k + 1 \notin T
      <4>1. T \in SUBSET (1 .. k)
        BY ONLY <3>2, k \in Nat, T \in SUBSET (1 .. k + 1)
      <4>2. T \ {Max(T)} \in SUBSET (1 .. k + 1) /\ k + 1 \notin T \ {Max(T)}
        BY ONLY <3>2, T \in SUBSET (1 .. k + 1)
      <4>3. G[T \ {Max(T)}] = F[T \ {Max(T)}] /\ G[T] = F[T]
        BY ONLY <3>2, <4>2, T \in SUBSET (1 .. k + 1)
      <4>4. F[T] = IF T = {} THEN <<>> ELSE next(F[T \ {Max(T)}], Max(T))
        BY ONLY <2>1, <4>1
      <4> HIDE DEF G
      <4> QED  BY ONLY <4>3, <4>4
    <3> QED  BY ONLY <3>1, <3>2
  <2> HIDE DEF G
  <2>3. \E H : \A T \in SUBSET (1 .. k + 1) :
          H[T] = IF T = {} THEN <<>> ELSE next(H[T \ {Max(T)}], Max(T))
    BY ONLY <2>2
  <2>4. k + 1 \in Nat
    BY ONLY k \in Nat
  <2> QED  BY ONLY <2>3, <2>4
<1>5. Len(Places(particles)) \in Nat /\ DOMAIN Places(particles) = 1 .. Len(Places(particles))
  OBVIOUS
<1>6. Len(Places(particles)) \in Def
  <2> HIDE DEF Def
  <2> QED  BY ONLY <1>3, <1>4, <1>5, NatInduct
<1>7. Eq(fold, 1 .. Len(Places(particles)))
  <2>1. PICK F : \A T \in SUBSET DOMAIN Places(particles) :
                   F[T] = IF T = {} THEN <<>> ELSE next(F[T \ {Max(T)}], Max(T))
    BY ONLY <1>5, <1>6
  <2> DEFINE G == [T \in SUBSET DOMAIN Places(particles) |-> F[T]]
  <2>2. \A T \in SUBSET DOMAIN Places(particles) : G[T] = F[T] /\ G[T \ {Max(T)}] = F[T \ {Max(T)}]
    OBVIOUS
  <2>3. G = [T \in SUBSET DOMAIN Places(particles) |-> G[T]]
    OBVIOUS
  <2> HIDE DEF G
  <2>4. Eq(G, DOMAIN Places(particles))
    BY ONLY <2>1, <2>2, <2>3
  <2> HIDE DEF Eq
  <2>5. Eq(fold, DOMAIN Places(particles))
    BY ONLY <2>4
  <2> QED  BY ONLY <1>5, <2>5
<1> HIDE DEF fold
<1>8. fold[1 .. 0] = <<>>
  <2>1. 1 .. 0 = {} /\ {} \in SUBSET (1 .. Len(Places(particles)))
    OBVIOUS
  <2> QED  BY ONLY <1>7, <2>1
<1>9. ASSUME NEW k \in 0 .. Len(Places(particles)) - 1
      PROVE  fold[1 .. k + 1] = next(fold[1 .. k], k + 1)
  <2>1. k \in Nat /\ 1 .. k + 1 \in SUBSET (1 .. Len(Places(particles)))
    BY ONLY <1>5, k \in 0 .. Len(Places(particles)) - 1
  <2>2. Max(1 .. k + 1) = k + 1 /\ (1 .. k + 1) \ {k + 1} = 1 .. k /\ 1 .. k + 1 # {}
    BY ONLY <2>1, InitialStep
  <2>3. fold[1 .. k + 1] = next(fold[(1 .. k + 1) \ {Max(1 .. k + 1)}], Max(1 .. k + 1))
    BY ONLY <1>7, <2>1, <2>2
  <2> QED  BY ONLY <2>2, <2>3
<1> HIDE DEF Eq
<1> DEFINE r == [k \in 0 .. Len(Places(particles)) |-> fold[1 .. k]]
<1>10. r[0] = fold[1 .. 0] /\ r[Len(Places(particles))] = fold[1 .. Len(Places(particles))]
  BY ONLY <1>5
<1>11. \A k \in 0 .. Len(Places(particles)) - 1 :
         k \in Nat /\ r[k + 1] = fold[1 .. k + 1] /\ r[k] = fold[1 .. k]
  BY ONLY <1>5
<1> HIDE DEF r
<1>12. \A k \in 0 .. Len(Places(particles)) - 1 : r[k + 1] = next(r[k], k + 1)
  BY ONLY <1>9, <1>11
<1>13. \A k \in 0 .. Len(Places(particles)) - 1 : r[k + 1] =
           (IF particles[Places(particles)[k + 1]]._isAlive
            THEN Append(r[k],
                        <<Places(particles)[k + 1], particles[Places(particles)[k + 1]]._age>>)
            ELSE r[k])
  BY ONLY <1>2, <1>11, <1>12
<1>14. r[Len(Places(particles))] = Vertices(particles)
  BY ONLY <1>1, <1>5, <1>10
<1> QED  BY ONLY <1>8, <1>10, <1>13, <1>14

-----------------------------------------------------------------------------
(* One system's rendering.                                                 *)

(* Particles, vertices, cells of a buffer, draws and renderings.           *)
Particle == [_isAlive : BOOLEAN, _age : Nat]
Vertex == Nat \X Nat
Cell == {Unwritten} \cup Vertex
Draw == [system : System, first : Nat, wrote : Seq(Cell)]
Rendering ==
  [ system : System, batch : Nat, memory : [0 .. m_VBSize - 1 -> Cell], offset : Nat,
    draws : Seq(Draw), drawn : Seq(Cell), discarded : BOOLEAN ]

(* A segment of the buffer begins here.                                    *)
Segment(offset) == offset % m_VBBatchSize = 0 /\ offset + m_VBBatchSize <= m_VBSize

(* The draw is from a segment below top, and what was written is there.    *)
Held(d, memory, top) ==
  /\ d.first + m_VBBatchSize <= top /\ Len(d.wrote) <= m_VBBatchSize
  /\ \A i \in 1 .. Len(d.wrote) : memory[d.first + i - 1] = d.wrote[i]

(* What was there before the rendering of s is there, below its offset.    *)
BatchKept(r, s) ==
  \/ r.discarded
  \/ /\ m_VBOffset[s] <= r.offset
     /\ \A a \in Nat : a < m_VBOffset[s] => r.memory[a] = m_VB[s][a]

(* After the first k vertices, with those of the last batch in memory.     *)
Going(r, s, vs, k) ==
  /\ r \in Rendering /\ r.system = s /\ Segment(r.offset) /\ r.batch <= m_VBBatchSize
  /\ \A n \in 1 .. Len(r.draws) : r.draws[n].system = s /\ Held(r.draws[n], r.memory, r.offset)
  /\ BatchKept(r, s)
  /\ Len(r.drawn) + r.batch = k
  /\ \A i \in 1 .. Len(r.drawn) : r.drawn[i] = vs[i]
  /\ \A i \in 1 .. r.batch : r.memory[r.offset + i - 1] = vs[Len(r.drawn) + i]

(* After these were drawn too.                                             *)
Flushed(r, s, vs, k) ==
  /\ r \in Rendering /\ r.system = s /\ Segment(r.offset)
  /\ \A n \in 1 .. Len(r.draws) :
       r.draws[n].system = s /\ Held(r.draws[n], r.memory, r.offset + m_VBBatchSize)
  /\ BatchKept(r, s)
  /\ Len(r.drawn) = k /\ \A i \in 1 .. k : r.drawn[i] = vs[i]

(* What is known of the offsets.                                           *)
Offsets == \A s \in System : m_VBOffset[s] \in Nat /\ m_VBOffset[s] % m_VBBatchSize = 0

(* The constants are numbers, the sizes positive.                          *)
LEMMA BufferSizes ==
  /\ m_VBSize \in Nat \ {0} /\ m_VBBatchSize \in Nat \ {0}
  /\ PARTICLE_EFFECT_BUFFER \in Nat \ {0}
  /\ NUMBER_OF_PARTICLES \in Nat /\ NUMBER_OF_DS_PARTICLES \in Nat
  /\ LIFETIME \in Nat /\ DS_LIFETIME \in Nat
BY EffectsAssumption

(* A number without a remainder is a multiple.                             *)
LEMMA Multiple ==
  ASSUME NEW a \in Nat, NEW b \in Nat \ {0}, a % b = 0
  PROVE  \E q \in Nat : a = b * q
<1>1. a \div b \in Nat /\ a = b * (a \div b) + (a % b)
  OBVIOUS
<1>2. a = b * (a \div b)
  BY <1>1
<1> QED  BY <1>1, <1>2

(* Segments are laid end to end, and the last one ends with the buffer.    *)
LEMMA SegmentsFill ==
  ASSUME NEW offset \in Nat, offset % m_VBBatchSize = 0
  PROVE  /\ offset < m_VBSize => Segment(offset)
         /\ (offset + m_VBBatchSize) % m_VBBatchSize = 0
         /\ Segment(0)
<1> DEFINE b == m_VBBatchSize
<1>1. PICK q \in Nat : offset = b * q
  BY BufferSizes, Multiple
<1>2. PICK p \in Nat : m_VBSize = b * p
  BY EffectsAssumption, BufferSizes, Multiple
<1>3. b \in Nat \ {0} /\ p # 0
  BY <1>2, BufferSizes
<1>8. offset % b = 0
  OBVIOUS
<1> HIDE DEF b
<1>4. offset + b = b * (q + 1) /\ (b * (q + 1)) % b = 0 /\ 0 % b = 0
  BY ONLY <1>1, <1>3
<1>5. b <= b * p
  BY ONLY <1>3
<1>6. ASSUME b * q < b * p PROVE b * q + b <= b * p
  <2>1. q < p
    BY ONLY <1>3, <1>6
  <2>2. b * (q + 1) <= b * p
    BY ONLY <1>3, <2>1
  <2> QED  BY ONLY <1>3, <2>2
<1>7. offset % b = 0 /\ (offset < m_VBSize => offset + b <= m_VBSize)
  BY ONLY <1>1, <1>2, <1>6, <1>8
<1>9. (offset + b) % b = 0
  BY ONLY <1>4
<1>10. 0 % b = 0 /\ 0 + b <= m_VBSize
  BY ONLY <1>2, <1>3, <1>4, <1>5
<1> QED  BY ONLY <1>7, <1>9, <1>10 DEF Segment, b

(* The memory of a new buffer is typed.                                    *)
LEMMA MemoryType == Memory \in [0 .. m_VBSize - 1 -> Cell]
BY DEF Memory, Cell

(* The parts of a rendering are typed.                                     *)
LEMMA Fields ==
  ASSUME NEW r \in Rendering
  PROVE  /\ r.system \in System /\ r.batch \in Nat /\ r.offset \in Nat
         /\ r.memory \in [0 .. m_VBSize - 1 -> Cell]
         /\ r.draws \in Seq(Draw) /\ r.drawn \in Seq(Cell) /\ r.discarded \in BOOLEAN
         /\ Len(r.draws) \in Nat /\ Len(r.drawn) \in Nat
BY LenProperties DEF Rendering

(* The vertex is put behind those of the batch.                            *)
LEMMA PutStays ==
  ASSUME NEW s \in System, NEW vs, NEW k \in Nat, NEW r, Going(r, s, vs, k),
         r.batch < m_VBBatchSize, vs[k + 1] \in Cell, Offsets
  PROVE  Going([r EXCEPT !.memory = [@ EXCEPT ![r.offset + r.batch] = vs[k + 1]],
                         !.batch = @ + 1], s, vs, k + 1)
<1> DEFINE at == r.offset + r.batch
           put == [r EXCEPT !.memory = [@ EXCEPT ![at] = vs[k + 1]], !.batch = @ + 1]
<1>1. r \in Rendering /\ r.system = s /\ Segment(r.offset) /\ BatchKept(r, s)
  BY DEF Going
<1>2. \A n \in 1 .. Len(r.draws) : r.draws[n].system = s /\ Held(r.draws[n], r.memory, r.offset)
  BY DEF Going
<1>3. Len(r.drawn) + r.batch = k /\ \A i \in 1 .. Len(r.drawn) : r.drawn[i] = vs[i]
  BY DEF Going
<1>4. \A i \in 1 .. r.batch : r.memory[r.offset + i - 1] = vs[Len(r.drawn) + i]
  BY DEF Going
<1>5. /\ r.batch \in Nat /\ r.offset \in Nat /\ r.memory \in [0 .. m_VBSize - 1 -> Cell]
      /\ Len(r.draws) \in Nat /\ Len(r.drawn) \in Nat
  BY <1>1, Fields
<1>6. \A n \in 1 .. Len(r.draws) : /\ r.draws[n].first \in Nat
                                   /\ Len(r.draws[n].wrote) \in Nat
  <2>1. \A n \in 1 .. Len(r.draws) : r.draws[n] \in Draw
    BY <1>1, Fields, ElementOfSeq
  <2> QED  BY <2>1, LenProperties DEF Draw
<1>7. at \in 0 .. m_VBSize - 1 /\ at \in Nat /\ r.offset <= at
  <2>1. r.offset + m_VBBatchSize <= m_VBSize
    BY <1>1 DEF Segment
  <2>2. r.batch < m_VBBatchSize
    OBVIOUS
  <2> QED  BY ONLY <1>5, <2>1, <2>2, BufferSizes
<1>8. /\ put.system = r.system /\ put.batch = r.batch + 1
      /\ put.offset = r.offset /\ put.draws = r.draws /\ put.drawn = r.drawn
      /\ put.discarded = r.discarded /\ put.memory = [r.memory EXCEPT ![at] = vs[k + 1]]
  BY <1>1 DEF Rendering
<1>9. put \in Rendering
  <2>1. [r.memory EXCEPT ![at] = vs[k + 1]] \in [0 .. m_VBSize - 1 -> Cell]
    BY ONLY <1>5, vs[k + 1] \in Cell
  <2>2. r.batch + 1 \in Nat
    BY ONLY <1>5
  <2> HIDE DEF at
  <2> QED  BY <1>1, <2>1, <2>2 DEF Rendering
<1>10. put.memory[at] = vs[k + 1] /\ \A a \in Nat : a < at => put.memory[a] = r.memory[a]
  <2>1. \A a \in Nat : a < at => a \in 0 .. m_VBSize - 1 /\ a # at
    BY ONLY <1>7, BufferSizes
  <2> HIDE DEF put, at
  <2>2. put.memory[at] = vs[k + 1]
    BY ONLY <1>5, <1>7, <1>8
  <2>3. \A a \in 0 .. m_VBSize - 1 : a # at => put.memory[a] = r.memory[a]
    BY ONLY <1>5, <1>8
  <2> QED  BY ONLY <2>1, <2>2, <2>3
<1> HIDE DEF put
<1>11. at = r.offset + r.batch
  OBVIOUS
<1> HIDE DEF at
<1>12. ASSUME NEW n \in 1 .. Len(put.draws)
       PROVE  put.draws[n].system = s /\ Held(put.draws[n], put.memory, put.offset)
  <2>1. n \in 1 .. Len(r.draws) /\ put.draws[n] = r.draws[n] /\ put.offset = r.offset
    BY <1>8
  <2>2. r.draws[n].system = s /\ Held(r.draws[n], r.memory, r.offset)
    BY <1>2, <2>1
  <2>3. r.draws[n].first \in Nat /\ Len(r.draws[n].wrote) \in Nat
    BY <1>6, <2>1
  <2>4. /\ r.draws[n].first + m_VBBatchSize <= r.offset
        /\ Len(r.draws[n].wrote) <= m_VBBatchSize
    BY <2>2 DEF Held
  <2>6. \A i \in 1 .. Len(r.draws[n].wrote) :
          r.memory[r.draws[n].first + i - 1] = r.draws[n].wrote[i]
    BY <2>2 DEF Held
  <2>5. ASSUME NEW i \in 1 .. Len(r.draws[n].wrote)
        PROVE  put.memory[r.draws[n].first + i - 1] = r.draws[n].wrote[i]
    <3>1. r.draws[n].first + i - 1 \in Nat /\ r.draws[n].first + i - 1 < at
      <4>1. /\ i \in Nat /\ i >= 1 /\ i <= Len(r.draws[n].wrote)
            /\ r.draws[n].first + m_VBBatchSize <= at
        BY ONLY <1>5, <1>7, <2>3, <2>4, BufferSizes, i \in 1 .. Len(r.draws[n].wrote)
      <4> QED  BY ONLY <1>7, <2>3, <2>4, <4>1, BufferSizes
    <3>2. put.memory[r.draws[n].first + i - 1] = r.memory[r.draws[n].first + i - 1]
      BY ONLY <1>10, <3>1
    <3> QED  BY ONLY <2>6, <3>2, i \in 1 .. Len(r.draws[n].wrote)
  <2> QED  BY ONLY <2>1, <2>2, <2>4, <2>5 DEF Held
<1>13. BatchKept(put, s)
  <2>1. CASE r.discarded
    BY <1>8, <2>1 DEF BatchKept
  <2>2. CASE ~r.discarded
    <3>1. m_VBOffset[s] <= r.offset /\ \A a \in Nat : a < m_VBOffset[s] => r.memory[a] = m_VB[s][a]
      BY <1>1, <2>2 DEF BatchKept
    <3>2. ASSUME NEW a \in Nat, a < m_VBOffset[s] PROVE put.memory[a] = m_VB[s][a]
      <4>0. m_VBOffset[s] \in Nat
        BY DEF Offsets
      <4>1. a < at
        BY ONLY <1>5, <1>7, <3>1, <3>2, <4>0
      <4> QED  BY <1>10, <3>1, <3>2, <4>1
    <3> QED  BY <1>8, <3>1, <3>2 DEF BatchKept
  <2> QED  BY <2>1, <2>2
<1>14. ASSUME NEW i \in 1 .. put.batch
       PROVE  put.memory[put.offset + i - 1] = vs[Len(put.drawn) + i]
  <2>1. put.offset = r.offset /\ put.drawn = r.drawn /\ put.batch = r.batch + 1
    BY <1>8
  <2>2. CASE i = r.batch + 1
    <3>1. r.offset + i - 1 = at /\ Len(r.drawn) + i = k + 1
      BY ONLY <1>3, <1>5, <1>11, <2>2
    <3> QED  BY ONLY <1>10, <2>1, <3>1
  <2>3. CASE i # r.batch + 1
    <3>1. i \in 1 .. r.batch /\ r.offset + i - 1 \in Nat /\ r.offset + i - 1 < at
      BY ONLY <1>5, <1>11, <2>1, <2>3, i \in 1 .. put.batch
    <3>2. put.memory[r.offset + i - 1] = r.memory[r.offset + i - 1]
      BY ONLY <1>10, <3>1
    <3> QED  BY ONLY <1>4, <2>1, <3>1, <3>2
  <2> QED  BY <2>2, <2>3
<1>15. put.batch <= m_VBBatchSize /\ Len(put.drawn) + put.batch = k + 1
  <2>1. r.batch < m_VBBatchSize
    OBVIOUS
  <2> QED  BY ONLY <1>3, <1>5, <1>8, <2>1, BufferSizes
<1>16. Segment(put.offset) /\ \A i \in 1 .. Len(put.drawn) : put.drawn[i] = vs[i]
  BY ONLY <1>1, <1>3, <1>8
<1>17. Going(put, s, vs, k + 1)
  BY ONLY <1>1, <1>8, <1>9, <1>12, <1>13, <1>14, <1>15, <1>16 DEF Going
<1> QED  BY <1>17 DEF put, at

(* What is held below an offset is held below the next one.                *)
LEMMA HeldHigher ==
  ASSUME NEW d, d.first \in Nat, NEW memory, NEW top \in Nat, Held(d, memory, top)
  PROVE  Held(d, memory, top + m_VBBatchSize)
<1>1. /\ d.first + m_VBBatchSize <= top /\ Len(d.wrote) <= m_VBBatchSize
      /\ \A i \in 1 .. Len(d.wrote) : memory[d.first + i - 1] = d.wrote[i]
  BY DEF Held
<1>2. d.first + m_VBBatchSize <= top + m_VBBatchSize
  <2>1. d.first + m_VBBatchSize <= top
    BY <1>1
  <2> QED  BY ONLY <2>1, d.first \in Nat, top \in Nat, BufferSizes
<1> QED  BY ONLY <1>1, <1>2, Zenon DEF Held

(* DrawPrimitive draws what is in the batch.                               *)
LEMMA DrawFlushes ==
  ASSUME NEW s \in System, NEW vs, NEW k \in Nat, NEW r, Going(r, s, vs, k), Offsets
  PROVE  Flushed(DrawPrimitive(r), s, vs, k)
<1> DEFINE wrote == [i \in 1 .. r.batch |-> r.memory[r.offset + i - 1]]
           draw == [system |-> r.system, first |-> r.offset, wrote |-> wrote]
           d == [r EXCEPT !.drawn = @ \o wrote, !.draws = Append(@, draw)]
<1>1. r \in Rendering /\ r.system = s /\ Segment(r.offset) /\ BatchKept(r, s)
  BY DEF Going
<1>2. \A n \in 1 .. Len(r.draws) : r.draws[n].system = s /\ Held(r.draws[n], r.memory, r.offset)
  BY DEF Going
<1>3. Len(r.drawn) + r.batch = k /\ \A i \in 1 .. Len(r.drawn) : r.drawn[i] = vs[i]
  BY DEF Going
<1>4. \A i \in 1 .. r.batch : r.memory[r.offset + i - 1] = vs[Len(r.drawn) + i]
  BY DEF Going
<1>5. /\ r.batch \in Nat /\ r.offset \in Nat /\ r.memory \in [0 .. m_VBSize - 1 -> Cell]
      /\ Len(r.draws) \in Nat /\ Len(r.drawn) \in Nat
      /\ r.draws \in Seq(Draw) /\ r.drawn \in Seq(Cell)
  BY <1>1, Fields
<1>6. r.batch <= m_VBBatchSize
  BY DEF Going
<1>7. \A i \in 1 .. r.batch : r.offset + i - 1 \in 0 .. m_VBSize - 1
  <2>1. r.offset + m_VBBatchSize <= m_VBSize
    BY <1>1 DEF Segment
  <2> QED  BY ONLY <1>5, <1>6, <2>1, BufferSizes
<1>8. wrote \in Seq(Cell) /\ Len(wrote) = r.batch
  <2>1. \A i \in 1 .. r.batch : r.memory[r.offset + i - 1] \in Cell
    BY ONLY <1>5, <1>7
  <2>2. wrote \in [1 .. r.batch -> Cell]
    BY ONLY <2>1
  <2> HIDE DEF wrote
  <2> QED  BY ONLY <1>5, <2>2, SeqDef, LenProperties
<1>9. \A i \in 1 .. r.batch : wrote[i] = r.memory[r.offset + i - 1]
  OBVIOUS
<1> HIDE DEF wrote
<1>10. draw \in Draw
  BY <1>1, <1>5, <1>8 DEF Draw
<1>11. /\ Append(r.draws, draw) \in Seq(Draw) /\ Len(Append(r.draws, draw)) = Len(r.draws) + 1
       /\ Append(r.draws, draw)[Len(r.draws) + 1] = draw
       /\ \A n \in 1 .. Len(r.draws) : Append(r.draws, draw)[n] = r.draws[n]
  <2> HIDE DEF draw
  <2> QED  BY <1>5, <1>10, AppendProperties
<1>12. /\ r.drawn \o wrote \in Seq(Cell) /\ Len(r.drawn \o wrote) = k
       /\ \A i \in 1 .. k : (r.drawn \o wrote)[i] = IF i <= Len(r.drawn) THEN r.drawn[i]
                                                   ELSE wrote[i - Len(r.drawn)]
  <2>1. r.drawn \in Seq(Cell) /\ wrote \in Seq(Cell)
    BY ONLY <1>5, <1>8
  <2>2. /\ r.drawn \o wrote \in Seq(Cell)
        /\ Len(r.drawn \o wrote) = Len(r.drawn) + Len(wrote)
        /\ \A i \in 1 .. Len(r.drawn) + Len(wrote) :
             (r.drawn \o wrote)[i] = IF i <= Len(r.drawn) THEN r.drawn[i]
                                                         ELSE wrote[i - Len(r.drawn)]
    BY ONLY <2>1, ConcatProperties, Zenon
  <2>3. Len(r.drawn) + Len(wrote) = k
    BY ONLY <1>3, <1>8
  <2> QED  BY ONLY <2>2, <2>3, Zenon
<1>13. /\ d.system = r.system /\ d.offset = r.offset /\ d.memory = r.memory
       /\ d.discarded = r.discarded /\ d.drawn = r.drawn \o wrote /\ d.draws = Append(r.draws, draw)
  BY <1>1 DEF Rendering
<1>14. d \in Rendering
  <2> HIDE DEF draw
  <2> QED  BY <1>1, <1>11, <1>12 DEF Rendering
<1>15. d = DrawPrimitive(r)
  BY DEF DrawPrimitive, wrote
<1>16. draw.system = s /\ draw.first = r.offset /\ draw.wrote = wrote
  BY <1>1
<1> HIDE DEF d, draw
<1>17. ASSUME NEW n \in 1 .. Len(d.draws)
       PROVE  /\ d.draws[n].system = s
              /\ Held(d.draws[n], d.memory, d.offset + m_VBBatchSize)
  <2>1. CASE n = Len(r.draws) + 1
    <3>1. d.draws[n] = draw
      BY ONLY <1>11, <1>13, <2>1
    <3>2. Held(draw, r.memory, r.offset + m_VBBatchSize)
      BY ONLY <1>5, <1>6, <1>8, <1>9, <1>16, BufferSizes DEF Held
    <3> QED  BY ONLY <1>13, <1>16, <3>1, <3>2
  <2>2. CASE n # Len(r.draws) + 1
    <3>1. n \in 1 .. Len(r.draws)
      BY ONLY <1>5, <1>11, <1>13, <2>2, n \in 1 .. Len(d.draws)
    <3>2. d.draws[n] = r.draws[n] /\ r.draws[n].system = s /\ Held(r.draws[n], r.memory, r.offset)
      BY ONLY <1>2, <1>11, <1>13, <3>1
    <3>3. r.draws[n].first \in Nat
      <4>1. r.draws[n] \in Draw
        BY <1>5, <3>1, ElementOfSeq
      <4> QED  BY <4>1 DEF Draw
    <3>4. Held(r.draws[n], r.memory, r.offset + m_VBBatchSize)
      BY ONLY <1>5, <3>2, <3>3, HeldHigher
    <3> QED  BY ONLY <1>13, <3>2, <3>4
  <2> QED  BY <2>1, <2>2
<1>18. ASSUME NEW i \in 1 .. k PROVE d.drawn[i] = vs[i]
  <2>1. CASE i <= Len(r.drawn)
    BY ONLY <1>3, <1>5, <1>12, <1>13, <2>1, i \in 1 .. k
  <2>2. CASE ~(i <= Len(r.drawn))
    <3>1. i - Len(r.drawn) \in 1 .. r.batch /\ Len(r.drawn) + (i - Len(r.drawn)) = i
      BY ONLY <1>3, <1>5, <2>2, i \in 1 .. k
    <3>2. d.drawn[i] = wrote[i - Len(r.drawn)]
      BY ONLY <1>12, <1>13, <2>2, i \in 1 .. k
    <3> QED  BY ONLY <1>4, <1>9, <3>1, <3>2
  <2> QED  BY <2>1, <2>2
<1>19. BatchKept(d, s)
  BY ONLY <1>1, <1>13 DEF BatchKept
<1>20. Flushed(d, s, vs, k)
  BY ONLY <1>1, <1>12, <1>13, <1>14, <1>17, <1>18, <1>19 DEF Flushed
<1> QED  BY <1>15, <1>20

(* With the next segment a new batch begins, in other memory when it is    *)
(* the first of the buffer.                                                *)
LEMMA NextGoes ==
  ASSUME NEW s \in System, NEW vs, NEW k \in Nat, NEW r, Flushed(r, s, vs, k), Offsets
  PROVE  /\ Going(Lock(NextSegment(r)), s, vs, k)
         /\ Lock(NextSegment(r)).batch = 0
<1> DEFINE top == r.offset + m_VBBatchSize
           next == IF top >= m_VBSize THEN 0 ELSE top
           q == [r EXCEPT !.offset = next, !.batch = 0]
           l == [q EXCEPT !.memory = Memory, !.draws = <<>>, !.discarded = TRUE]
<1>1. r \in Rendering /\ r.system = s /\ Segment(r.offset) /\ BatchKept(r, s)
  BY DEF Flushed
<1>2. \A n \in 1 .. Len(r.draws) : r.draws[n].system = s /\ Held(r.draws[n], r.memory, top)
  BY DEF Flushed
<1>3. Len(r.drawn) = k /\ \A i \in 1 .. k : r.drawn[i] = vs[i]
  BY DEF Flushed
<1>4. r.offset \in Nat
  BY <1>1, Fields
<1>5. top \in Nat /\ r.offset <= top
  BY ONLY <1>4, BufferSizes
<1>6. next \in Nat /\ Segment(next) /\ (next # 0 => next = top)
  <2>1. /\ top % m_VBBatchSize = 0 /\ Segment(0)
    BY <1>1, <1>4, SegmentsFill DEF Segment
  <2>2. top < m_VBSize => Segment(top)
    BY <1>5, <2>1, SegmentsFill
  <2> HIDE DEF top
  <2> QED  BY ONLY <1>5, <2>1, <2>2, BufferSizes
<1>7. Lock(NextSegment(r)) = IF q.offset = 0 THEN l ELSE q
  BY DEF Lock, NextSegment
<1> HIDE DEF next, top
<1>8. /\ q \in Rendering /\ q.system = s /\ q.offset = next /\ q.batch = 0 /\ q.drawn = r.drawn
      /\ q.memory = r.memory /\ q.draws = r.draws /\ q.discarded = r.discarded
  BY <1>1, <1>6 DEF Rendering
<1> HIDE DEF q
<1>9. CASE q.offset = 0
  <2>1. /\ l.system = s /\ l.offset = next /\ l.batch = 0 /\ l.drawn = r.drawn
        /\ l.draws = <<>> /\ l.discarded
    BY <1>8 DEF Rendering
  <2>2. l \in Rendering
    <3>1. <<>> \in Seq(Draw)
      OBVIOUS
    <3> HIDE DEF Memory
    <3> QED  BY <1>8, <3>1, MemoryType DEF Rendering
  <2>3. Len(l.draws) = 0
    BY ONLY <2>1
  <2> HIDE DEF l
  <2>4. BatchKept(l, s)
    BY ONLY <2>1 DEF BatchKept
  <2>5. l.batch <= m_VBBatchSize /\ Len(l.drawn) + l.batch = k
    BY ONLY <1>3, <2>1, BufferSizes
  <2>6. /\ \A n \in 1 .. Len(l.draws) :
             l.draws[n].system = s /\ Held(l.draws[n], l.memory, l.offset)
        /\ \A i \in 1 .. l.batch : l.memory[l.offset + i - 1] = vs[Len(l.drawn) + i]
    BY ONLY <2>1, <2>3
  <2>7. Going(l, s, vs, k)
    BY ONLY <1>3, <1>6, <2>1, <2>2, <2>4, <2>5, <2>6 DEF Going
  <2> QED  BY ONLY <1>7, <1>9, <2>1, <2>7
<1>10. CASE q.offset # 0
  <2>1. q.offset = top
    BY ONLY <1>6, <1>8, <1>10
  <2>2. BatchKept(q, s)
    <3>1. CASE r.discarded
      BY ONLY <1>8, <3>1 DEF BatchKept
    <3>2. CASE ~r.discarded
      <4>1. /\ m_VBOffset[s] <= r.offset
            /\ \A a \in Nat : a < m_VBOffset[s] => r.memory[a] = m_VB[s][a]
        BY ONLY <1>1, <3>2 DEF BatchKept
      <4>2. m_VBOffset[s] \in Nat
        BY DEF Offsets
      <4>3. m_VBOffset[s] <= q.offset
        BY ONLY <1>4, <1>5, <2>1, <4>1, <4>2
      <4> QED  BY ONLY <1>8, <4>1, <4>3 DEF BatchKept
    <3> QED  BY <3>1, <3>2
  <2>3. q.batch <= m_VBBatchSize /\ Len(q.drawn) + q.batch = k
    BY ONLY <1>3, <1>8, BufferSizes
  <2>4. \A i \in 1 .. q.batch : q.memory[q.offset + i - 1] = vs[Len(q.drawn) + i]
    BY ONLY <1>8
  <2>5. \A n \in 1 .. Len(q.draws) : q.draws[n].system = s /\ Held(q.draws[n], q.memory, q.offset)
    BY ONLY <1>2, <1>8, <2>1
  <2>6. Segment(q.offset) /\ \A i \in 1 .. Len(q.drawn) : q.drawn[i] = vs[i]
    BY ONLY <1>3, <1>6, <1>8
  <2>7. Going(q, s, vs, k)
    BY ONLY <1>8, <2>2, <2>3, <2>4, <2>5, <2>6 DEF Going
  <2> QED  BY ONLY <1>7, <1>8, <1>10, <2>7
<1> QED  BY <1>9, <1>10

(* One vertex after the other, the batch stays below a segment.            *)
LEMMA PutGoes ==
  ASSUME NEW s \in System, NEW vs, NEW k \in Nat, NEW r, Going(r, s, vs, k),
         r.batch < m_VBBatchSize, vs[k + 1] \in Cell, Offsets
  PROVE  /\ Going(PutVertex(r, vs[k + 1]), s, vs, k + 1)
         /\ PutVertex(r, vs[k + 1]).batch < m_VBBatchSize
<1> DEFINE put == [r EXCEPT !.memory = [@ EXCEPT ![r.offset + r.batch] = vs[k + 1]],
                            !.batch = @ + 1]
<1>1. Going(put, s, vs, k + 1)
  BY PutStays
<1>2. PutVertex(r, vs[k + 1]) = IF put.batch = m_VBBatchSize
                                THEN Lock(NextSegment(DrawPrimitive(put))) ELSE put
  BY DEF PutVertex
<1> HIDE DEF put
<1>3. put.batch \in Nat /\ put.batch <= m_VBBatchSize
  BY <1>1, Fields DEF Going
<1>4. CASE put.batch = m_VBBatchSize
  <2>1. Flushed(DrawPrimitive(put), s, vs, k + 1)
    BY <1>1, DrawFlushes
  <2>2. /\ Going(Lock(NextSegment(DrawPrimitive(put))), s, vs, k + 1)
        /\ Lock(NextSegment(DrawPrimitive(put))).batch = 0
    BY <2>1, NextGoes
  <2>3. 0 < m_VBBatchSize
    BY BufferSizes
  <2> QED  BY ONLY <1>2, <1>4, <2>2, <2>3
<1>5. CASE put.batch # m_VBBatchSize
  <2>1. put.batch < m_VBBatchSize
    BY ONLY <1>3, <1>5, BufferSizes
  <2> QED  BY ONLY <1>1, <1>2, <1>5, <2>1
<1> QED  BY <1>4, <1>5

(* The loop begins with the locked segment and an empty batch.             *)
LEMMA StartGoes ==
  ASSUME NEW s \in System, NEW vs, Offsets, m_VB[s] \in [0 .. m_VBSize - 1 -> Cell],
         NEW start,
         start = [system |-> s, batch |-> 0, memory |-> m_VB[s],
                  offset |-> IF m_VBOffset[s] >= m_VBSize THEN 0 ELSE m_VBOffset[s],
                  draws |-> <<>>, drawn |-> <<>>, discarded |-> FALSE]
  PROVE  Going(Lock(start), s, vs, 0) /\ Lock(start).batch = 0
<1> DEFINE first == IF m_VBOffset[s] >= m_VBSize THEN 0 ELSE m_VBOffset[s]
           l == [start EXCEPT !.memory = Memory, !.draws = <<>>, !.discarded = TRUE]
<1>1. m_VBOffset[s] \in Nat /\ m_VBOffset[s] % m_VBBatchSize = 0
  BY DEF Offsets
<1>2. /\ first \in Nat /\ Segment(first) /\ (first # 0 => first = m_VBOffset[s])
  <2>1. m_VBOffset[s] < m_VBSize => Segment(m_VBOffset[s])
    BY <1>1, SegmentsFill
  <2>2. Segment(0)
    BY <1>1, SegmentsFill
  <2> QED  BY ONLY <1>1, <2>1, <2>2, BufferSizes
<1>3. start.offset = first
  OBVIOUS
<1> HIDE DEF first
<1>4. <<>> \in Seq(Draw) /\ <<>> \in Seq(Cell)
  OBVIOUS
<1>5. /\ start.system = s /\ start.batch = 0 /\ start.memory = m_VB[s]
      /\ start.draws = <<>> /\ start.drawn = <<>> /\ ~start.discarded
  OBVIOUS
<1>6. start \in Rendering
  BY <1>2, <1>3, <1>4 DEF Rendering
<1>7. Lock(start) = IF start.offset = 0 THEN l ELSE start
  BY DEF Lock
<1>8. /\ l.system = s /\ l.offset = first /\ l.batch = 0 /\ l.drawn = <<>>
      /\ l.draws = <<>> /\ l.discarded
  BY <1>3, <1>5, <1>6 DEF Rendering
<1>9. l \in Rendering
  <2> HIDE DEF Memory
  <2> QED  BY <1>4, <1>6, MemoryType DEF Rendering
<1> HIDE DEF l
<1>10. ASSUME NEW r, r \in Rendering, r.system = s, r.offset = first, r.batch = 0,
              r.drawn = <<>>, r.draws = <<>>, BatchKept(r, s)
       PROVE  Going(r, s, vs, 0)
  <2>1. Len(r.draws) = 0 /\ Len(r.drawn) = 0
    BY ONLY <1>10
  <2>2. r.batch <= m_VBBatchSize /\ Len(r.drawn) + r.batch = 0
    BY ONLY <1>10, <2>1, BufferSizes
  <2>3. /\ \A n \in 1 .. Len(r.draws) :
             r.draws[n].system = s /\ Held(r.draws[n], r.memory, r.offset)
        /\ \A i \in 1 .. r.batch : r.memory[r.offset + i - 1] = vs[Len(r.drawn) + i]
        /\ \A i \in 1 .. Len(r.drawn) : r.drawn[i] = vs[i]
    BY ONLY <1>10, <2>1
  <2> QED  BY ONLY <1>2, <1>10, <2>2, <2>3 DEF Going
<1>11. CASE start.offset = 0
  <2>1. BatchKept(l, s)
    BY ONLY <1>8 DEF BatchKept
  <2> QED  BY <1>7, <1>8, <1>9, <1>10, <1>11, <2>1
<1>12. CASE start.offset # 0
  <2>1. first = m_VBOffset[s]
    BY ONLY <1>2, <1>3, <1>12
  <2>2. m_VBOffset[s] <= start.offset
    BY ONLY <1>1, <1>3, <2>1
  <2>3. BatchKept(start, s)
    BY ONLY <1>5, <2>2 DEF BatchKept
  <2> QED  BY <1>3, <1>5, <1>6, <1>7, <1>10, <1>12, <2>3
<1> QED  BY <1>11, <1>12

(* What a rendering leaves: all vertices drawn, every draw that may still  *)
(* be waiting from memory that says what was written.                      *)
Rendered(r, s, vs) ==
  /\ r.offset \in Nat /\ r.offset % m_VBBatchSize = 0
  /\ r.memory \in [0 .. m_VBSize - 1 -> Cell]
  /\ r.draws \in Seq(Draw)
  /\ \A n \in 1 .. Len(r.draws) : r.draws[n].system = s /\ Held(r.draws[n], r.memory, r.offset)
  /\ BatchKept(r, s)
  /\ r.drawn = vs

(* Rendering a system draws its vertices, each from where it was put.      *)
LEMMA RenderItSelfRenders ==
  ASSUME NEW s \in System, NEW particles, Vertices(particles) \in Seq(Vertex),
         Offsets, m_VB[s] \in [0 .. m_VBSize - 1 -> Cell]
  PROVE  Rendered(RenderItSelf(s, particles), s, Vertices(particles))
<1> DEFINE start == [system |-> s, batch |-> 0, memory |-> m_VB[s],
                     offset |-> IF m_VBOffset[s] >= m_VBSize THEN 0 ELSE m_VBOffset[s],
                     draws |-> <<>>, drawn |-> <<>>, discarded |-> FALSE]
           vs == Vertices(particles)
           e == PutAll(Lock(start), vs)
           f == LastBatch(e)
           res == [f EXCEPT !.offset = @ + m_VBBatchSize]
<1>1. RenderItSelf(s, particles) = res
  BY DEF RenderItSelf, PutAll
<1>2. Going(Lock(start), s, vs, 0) /\ Lock(start).batch = 0
  BY StartGoes
<1> HIDE DEF start, vs
<1>3. vs \in Seq(Vertex) /\ Len(vs) \in Nat /\ \A i \in 1 .. Len(vs) : vs[i] \in Cell
  <2>1. vs \in Seq(Vertex)
    BY DEF vs
  <2>2. \A i \in 1 .. Len(vs) : vs[i] \in Vertex
    BY <2>1, ElementOfSeq
  <2> QED  BY ONLY <2>1, <2>2, LenProperties DEF Cell
<1> DEFINE locked == Lock(start)
           last == PutAll(locked, vs)
<1>19. e = last
  OBVIOUS
<1> HIDE DEF e, locked
<1>20. \E r : /\ r[0] = locked /\ r[Len(vs)] = PutAll(locked, vs)
              /\ \A k \in 0 .. Len(vs) - 1 : r[k + 1] = PutVertex(r[k], vs[k + 1])
  <2>1. DOMAIN vs = 1 .. Len(vs)
    BY <1>3, LenProperties
  <2> QED  BY ONLY <1>3, <2>1, RenderStages
<1>4. PICK r : /\ r[0] = locked /\ r[Len(vs)] = last
               /\ \A k \in 0 .. Len(vs) - 1 : r[k + 1] = PutVertex(r[k], vs[k + 1])
  BY ONLY <1>20
<1> HIDE DEF last
<1>21. Going(locked, s, vs, 0) /\ locked.batch = 0
  BY <1>2 DEF locked
<1> DEFINE Done == {k \in Nat : k <= Len(vs) =>
                      Going(r[k], s, vs, k) /\ r[k].batch < m_VBBatchSize}
<1>5. 0 \in Done
  <2>1. Going(r[0], s, vs, 0) /\ r[0].batch = 0
    BY ONLY <1>4, <1>21
  <2>2. 0 < m_VBBatchSize
    BY BufferSizes
  <2> QED  BY ONLY <2>1, <2>2
<1>6. ASSUME NEW k \in Nat, k \in Done PROVE k + 1 \in Done
  <2>1. SUFFICES ASSUME k + 1 <= Len(vs)
                 PROVE  Going(r[k + 1], s, vs, k + 1) /\ r[k + 1].batch < m_VBBatchSize
    OBVIOUS
  <2>2. k <= Len(vs) /\ k \in 0 .. Len(vs) - 1 /\ k + 1 \in 1 .. Len(vs)
    BY ONLY <1>3, <2>1, k \in Nat
  <2>3. Going(r[k], s, vs, k) /\ r[k].batch < m_VBBatchSize
    BY ONLY <1>6, <2>2
  <2>4. r[k + 1] = PutVertex(r[k], vs[k + 1]) /\ vs[k + 1] \in Cell
    BY ONLY <1>3, <1>4, <2>2
  <2> QED  BY <2>3, <2>4, PutGoes
<1> HIDE DEF Done
<1>7. Len(vs) \in Done
  BY <1>3, <1>5, <1>6, NatInduct
<1>8. Going(e, s, vs, Len(vs))
  BY <1>3, <1>4, <1>7, <1>19 DEF Done
<1>9. Flushed(f, s, vs, Len(vs))
  <2>1. CASE e.batch > 0
    <3>1. f = DrawPrimitive(e)
      BY <2>1 DEF LastBatch
    <3> HIDE DEF f
    <3> QED  BY <1>3, <1>8, <3>1, DrawFlushes
  <2>2. CASE ~(e.batch > 0)
    <3>1. f = e
      BY <2>2 DEF LastBatch
    <3>2. e \in Rendering /\ e.system = s /\ Segment(e.offset) /\ BatchKept(e, s)
      BY <1>8 DEF Going
    <3>3. \A n \in 1 .. Len(e.draws) : e.draws[n].system = s /\ Held(e.draws[n], e.memory, e.offset)
      BY <1>8 DEF Going
    <3>4. Len(e.drawn) + e.batch = Len(vs) /\ \A i \in 1 .. Len(e.drawn) : e.drawn[i] = vs[i]
      BY <1>8 DEF Going
    <3>5. e.batch \in Nat /\ e.offset \in Nat /\ e.draws \in Seq(Draw) /\ Len(e.drawn) \in Nat
      BY <3>2, Fields
    <3>6. e.batch = 0
      BY ONLY <2>2, <3>5
    <3>7. Len(e.drawn) = Len(vs)
      BY ONLY <1>3, <3>4, <3>5, <3>6
    <3>8. ASSUME NEW n \in 1 .. Len(e.draws)
          PROVE  Held(e.draws[n], e.memory, e.offset + m_VBBatchSize)
      <4>1. e.draws[n] \in Draw
        BY <3>5, ElementOfSeq
      <4>2. e.draws[n].first \in Nat
        BY ONLY <4>1 DEF Draw
      <4>3. Held(e.draws[n], e.memory, e.offset)
        BY <3>3
      <4> QED  BY ONLY <3>5, <4>2, <4>3, BufferSizes DEF Held
    <3> HIDE DEF f
    <3> QED  BY ONLY <3>1, <3>2, <3>3, <3>4, <3>7, <3>8 DEF Flushed
  <2> QED  BY <2>1, <2>2
<1> HIDE DEF f
<1>10. f \in Rendering /\ Segment(f.offset) /\ BatchKept(f, s)
  BY <1>9 DEF Flushed
<1>11. \A n \in 1 .. Len(f.draws) :
         f.draws[n].system = s /\ Held(f.draws[n], f.memory, f.offset + m_VBBatchSize)
  BY <1>9 DEF Flushed
<1>12. Len(f.drawn) = Len(vs) /\ \A i \in 1 .. Len(vs) : f.drawn[i] = vs[i]
  BY <1>9 DEF Flushed
<1>13. /\ f.offset \in Nat /\ f.memory \in [0 .. m_VBSize - 1 -> Cell]
       /\ f.draws \in Seq(Draw) /\ f.drawn \in Seq(Cell)
  BY <1>10, Fields
<1>14. f.drawn = vs
  <2>1. vs \in Seq(Cell)
    <3>1. Vertex \subseteq Cell
      BY DEF Cell
    <3> QED  BY <1>3, <3>1
  <2> QED  BY ONLY <1>12, <1>13, <2>1, SeqEqual
<1>15. /\ res.offset = f.offset + m_VBBatchSize /\ res.memory = f.memory
       /\ res.draws = f.draws /\ res.discarded = f.discarded /\ res.drawn = f.drawn
  BY <1>10 DEF Rendering
<1> HIDE DEF res
<1>16. res.offset \in Nat /\ res.offset % m_VBBatchSize = 0 /\ f.offset <= res.offset
  <2>1. (f.offset + m_VBBatchSize) % m_VBBatchSize = 0
    BY <1>10, <1>13, SegmentsFill DEF Segment
  <2>2. f.offset + m_VBBatchSize \in Nat /\ f.offset <= f.offset + m_VBBatchSize
    BY ONLY <1>13, BufferSizes
  <2> QED  BY ONLY <1>15, <2>1, <2>2
<1>17. BatchKept(res, s)
  <2>1. CASE f.discarded
    BY ONLY <1>15, <2>1 DEF BatchKept
  <2>2. CASE ~f.discarded
    <3>1. /\ m_VBOffset[s] <= f.offset
          /\ \A a \in Nat : a < m_VBOffset[s] => f.memory[a] = m_VB[s][a]
      BY ONLY <1>10, <2>2 DEF BatchKept
    <3>2. m_VBOffset[s] \in Nat
      BY DEF Offsets
    <3>3. m_VBOffset[s] <= res.offset
      BY ONLY <1>13, <1>16, <3>1, <3>2
    <3> QED  BY ONLY <1>15, <3>1, <3>3 DEF BatchKept
  <2> QED  BY <2>1, <2>2
<1>18. Rendered(res, s, vs)
  BY ONLY <1>11, <1>13, <1>14, <1>15, <1>16, <1>17 DEF Rendered
<1> QED  BY <1>1, <1>18 DEF vs

-----------------------------------------------------------------------------
(* What a frame makes of the particles and of the draws that wait.         *)

(* A particle that grew older is a particle.                               *)
LEMMA AgedType ==
  ASSUME NEW p \in Particle, NEW lifeTime \in Nat, NEW dTime \in Nat
  PROVE  Aged(p, lifeTime, dTime) \in Particle
<1>1. p._isAlive \in BOOLEAN /\ p._age \in Nat /\ p._age + dTime \in Nat
  BY DEF Particle
<1>2. (p._age + dTime <= lifeTime) \in BOOLEAN
  OBVIOUS
<1> QED  BY <1>1, <1>2 DEF Aged, Particle

(* The vertices of a system are typed.                                     *)
LEMMA VerticesType ==
  ASSUME NEW particles \in Seq(Particle)
  PROVE  Vertices(particles) \in Seq(Vertex)
<1> DEFINE n == Len(particles)
           places == Places(particles)
<1>1. n \in Nat /\ DOMAIN particles = 1 .. n /\ \A i \in 1 .. n : particles[i] \in Particle
  BY LenProperties, ElementOfSeq
<1>2. places \in Seq(1 .. n) /\ Len(places) = n /\ \A i \in 1 .. n : places[i] = i
  <2>1. places = [i \in 1 .. n |-> i]
    BY <1>1 DEF Places
  <2> QED  BY ONLY <1>1, <2>1
<1>3. \E r : /\ r[0] = <<>> /\ r[Len(places)] = Vertices(particles)
             /\ \A k \in 0 .. Len(places) - 1 :
                  r[k + 1] = (IF particles[places[k + 1]]._isAlive
                              THEN Append(r[k], <<places[k + 1], particles[places[k + 1]]._age>>)
                              ELSE r[k])
  <2>1. Len(places) \in Nat /\ DOMAIN places = 1 .. Len(places)
    BY ONLY <1>2, LenProperties
  <2> QED  BY ONLY <2>1, VertexStages
<1> HIDE DEF places, n
<1>4. PICK r : /\ r[0] = <<>> /\ r[n] = Vertices(particles)
               /\ \A k \in 0 .. n - 1 :
                    r[k + 1] = (IF particles[places[k + 1]]._isAlive
                                THEN Append(r[k], <<places[k + 1], particles[places[k + 1]]._age>>)
                                ELSE r[k])
  BY ONLY <1>2, <1>3
<1> DEFINE Done == {k \in Nat : k <= n => r[k] \in Seq(Vertex)}
<1>5. 0 \in Done
  <2>1. <<>> \in Seq(Vertex)
    OBVIOUS
  <2> QED  BY ONLY <1>4, <2>1
<1>6. ASSUME NEW k \in Nat, k \in Done PROVE k + 1 \in Done
  <2>1. SUFFICES ASSUME k + 1 <= n PROVE r[k + 1] \in Seq(Vertex)
    OBVIOUS
  <2>2. k \in 0 .. n - 1 /\ k + 1 \in 1 .. n /\ k + 1 \in Nat /\ r[k] \in Seq(Vertex)
    BY ONLY <1>1, <1>6, <2>1, k \in Nat
  <2>3. particles[k + 1] \in Particle /\ places[k + 1] = k + 1
    BY ONLY <1>1, <1>2, <2>2
  <2>4. <<k + 1, particles[k + 1]._age>> \in Vertex
    BY ONLY <2>2, <2>3 DEF Vertex, Particle
  <2>5. r[k + 1] = IF particles[k + 1]._isAlive
                   THEN Append(r[k], <<k + 1, particles[k + 1]._age>>) ELSE r[k]
    BY ONLY <1>4, <2>2, <2>3
  <2> QED  BY ONLY <2>2, <2>4, <2>5
<1> HIDE DEF Done
<1>7. n \in Done
  BY <1>1, <1>5, <1>6, NatInduct
<1> QED  BY <1>1, <1>4, <1>7 DEF Done

(* The systems are drawn in some order.                                    *)
LEMMA RenderOrderType == RenderOrder \in Seq(System)
<1> DEFINE order == SetToSeq(Firework)
<1>1. IsFiniteSet(0 .. PARTICLE_EFFECT_BUFFER - 1)
  BY BufferSizes, FS_Interval
<1>2. IsFiniteSet(Firework)
  BY <1>1, EffectsAssumption, FS_Product DEF Firework
<1>3. Cardinality(Firework) \in Nat /\ ExistsBijection(1 .. Cardinality(Firework), Firework)
  BY <1>2, FS_CardinalityType
<1>4. \E f \in [1 .. Cardinality(Firework) -> Firework] : IsInjective(f)
  BY <1>3 DEF ExistsBijection, Bijection, Injection, Surjection, IsInjective
<1>5. order \in [1 .. Cardinality(Firework) -> Firework]
  BY <1>4 DEF SetToSeq
<1> HIDE DEF order
<1>6. order \in Seq(System)
  <2>1. Firework \subseteq System
    BY DEF System
  <2>2. order \in [1 .. Cardinality(Firework) -> System]
    BY ONLY <1>5, <2>1
  <2> QED  BY ONLY <1>3, <2>2
<1>7. <<Snow>> \in Seq(System)
  <2>1. Snow \in System
    BY DEF System
  <2> QED  BY ONLY <2>1
<1>8. RenderOrder = <<Snow>> \o order
  BY DEF RenderOrder, order
<1> QED  BY <1>6, <1>7, <1>8, ConcatProperties

(* Draws whose memory says what was written, below the offsets.            *)
HeldDraw(offsets, memories) ==
  {d \in Draw : Held(d, memories[d.system], offsets[d.system])}

(* Those that waited and are still read are from memory a frame left alone.*)
LEMMA StillReadHeld ==
  ASSUME NEW rendered, NEW offsets, NEW memories,
         pending \in Seq(HeldDraw(m_VBOffset, m_VB)), Offsets,
         \A s \in System : /\ rendered[s].offset = offsets[s] /\ offsets[s] \in Nat
                           /\ rendered[s].memory = memories[s]
                           /\ BatchKept(rendered[s], s)
  PROVE  StillRead(rendered) \in Seq(HeldDraw(offsets, memories))
<1> DEFINE n == Len(pending)
           Now == HeldDraw(offsets, memories)
           Before == HeldDraw(m_VBOffset, m_VB)
<1>1. n \in Nat /\ \A i \in 1 .. n : pending[i] \in Before
  BY LenProperties, ElementOfSeq
<1>7. DOMAIN pending = 1 .. n
  BY LenProperties
<1>2. PICK r : /\ r[0] = <<>> /\ r[n] = StillRead(rendered)
               /\ \A k \in 0 .. n - 1 :
                    r[k + 1] = (IF rendered[pending[k + 1].system].discarded THEN r[k]
                                ELSE Append(r[k], pending[k + 1]))
  BY ONLY <1>1, <1>7, ReadStages
<1>3. ASSUME NEW d \in Before, ~rendered[d.system].discarded
      PROVE  d \in Now
  <2> DEFINE s == d.system
  <2>1. d \in Draw /\ Held(d, m_VB[s], m_VBOffset[s])
    BY DEF HeldDraw
  <2>2. s \in System /\ d.first \in Nat /\ d.wrote \in Seq(Cell)
    BY ONLY <2>1 DEF Draw
  <2> HIDE DEF s
  <2>3. Len(d.wrote) \in Nat
    BY ONLY <2>2, LenProperties
  <2>4. /\ m_VBOffset[s] <= offsets[s] /\ offsets[s] \in Nat
        /\ \A a \in Nat : a < m_VBOffset[s] => memories[s][a] = m_VB[s][a]
    BY <1>3, <2>2 DEF BatchKept, s
  <2>5. m_VBOffset[s] \in Nat
    BY <2>2 DEF Offsets
  <2>6. /\ d.first + m_VBBatchSize <= m_VBOffset[s] /\ Len(d.wrote) <= m_VBBatchSize
        /\ \A i \in 1 .. Len(d.wrote) : m_VB[s][d.first + i - 1] = d.wrote[i]
    BY <2>1 DEF Held
  <2>7. d.first + m_VBBatchSize <= offsets[s]
    BY ONLY <2>2, <2>4, <2>5, <2>6, BufferSizes
  <2>8. ASSUME NEW i \in 1 .. Len(d.wrote) PROVE memories[s][d.first + i - 1] = d.wrote[i]
    <3>1. d.first + i - 1 \in Nat /\ d.first + i - 1 < m_VBOffset[s]
      BY ONLY <2>2, <2>3, <2>5, <2>6, BufferSizes, i \in 1 .. Len(d.wrote)
    <3> QED  BY ONLY <2>4, <2>6, <3>1, i \in 1 .. Len(d.wrote)
  <2>9. Held(d, memories[s], offsets[s])
    BY ONLY <2>6, <2>7, <2>8 DEF Held
  <2> QED  BY ONLY <2>1, <2>9 DEF HeldDraw, s
<1> HIDE DEF Now, Before, n
<1> DEFINE Done == {k \in Nat : k <= n => r[k] \in Seq(Now)}
<1>4. 0 \in Done
  <2>1. <<>> \in Seq(Now)
    OBVIOUS
  <2> QED  BY ONLY <1>2, <2>1
<1>5. ASSUME NEW k \in Nat, k \in Done PROVE k + 1 \in Done
  <2>1. SUFFICES ASSUME k + 1 <= n PROVE r[k + 1] \in Seq(Now)
    OBVIOUS
  <2>2. k \in 0 .. n - 1 /\ k + 1 \in 1 .. n /\ r[k] \in Seq(Now)
    BY ONLY <1>1, <1>5, <2>1, k \in Nat
  <2> DEFINE d == pending[k + 1]
  <2>3. r[k + 1] = IF rendered[d.system].discarded THEN r[k] ELSE Append(r[k], d)
    BY ONLY <1>2, <2>2
  <2>4. d \in Before
    BY ONLY <1>1, <2>2
  <2> HIDE DEF d
  <2>5. ~rendered[d.system].discarded => d \in Now
    BY <1>3, <2>4
  <2> QED  BY ONLY <2>2, <2>3, <2>5
<1> HIDE DEF Done
<1>6. n \in Done
  BY <1>1, <1>4, <1>5, NatInduct
<1> QED  BY <1>1, <1>2, <1>6 DEF Done, Now

(* And those of the frame are held when each system's are.                 *)
LEMMA DrawsOfHeld ==
  ASSUME NEW H, NEW rendered, NEW before \in Seq(H),
         \A s \in System : rendered[s].draws \in Seq(H)
  PROVE  DrawsOf(rendered, before) \in Seq(H)
<1> DEFINE order == RenderOrder
           n == Len(order)
<1>6. DOMAIN order = 1 .. n
  BY RenderOrderType, LenProperties
<1>1. n \in Nat /\ \A i \in 1 .. n : order[i] \in System
  BY RenderOrderType, LenProperties, ElementOfSeq
<1>7. \E r : /\ r[0] = before
             /\ r[Len(RenderOrder)] = DrawsOf(rendered, before)
             /\ \A k \in 0 .. Len(RenderOrder) - 1 :
                  r[k + 1] = Behind(r[k], rendered[RenderOrder[k + 1]])
  <2>1. Len(RenderOrder) \in Nat /\ DOMAIN RenderOrder = 1 .. Len(RenderOrder)
    BY <1>1, <1>6
  <2> HIDE DEF n, order
  <2> QED  BY ONLY <2>1, DrawsStages
<1>2. PICK r : /\ r[0] = before /\ r[n] = DrawsOf(rendered, before)
               /\ \A k \in 0 .. n - 1 : r[k + 1] = Behind(r[k], rendered[order[k + 1]])
  BY ONLY <1>7
<1> HIDE DEF n, order
<1> DEFINE Done == {k \in Nat : k <= n => r[k] \in Seq(H)}
<1>3. 0 \in Done
  BY ONLY <1>2, before \in Seq(H)
<1>4. ASSUME NEW k \in Nat, k \in Done PROVE k + 1 \in Done
  <2>1. SUFFICES ASSUME k + 1 <= n PROVE r[k + 1] \in Seq(H)
    OBVIOUS
  <2>2. k \in 0 .. n - 1 /\ k + 1 \in 1 .. n /\ r[k] \in Seq(H)
    BY ONLY <1>1, <1>4, <2>1, k \in Nat
  <2>3. rendered[order[k + 1]].draws \in Seq(H)
    BY <1>1, <2>2
  <2>4. r[k + 1] = Behind(r[k], rendered[order[k + 1]])
    BY ONLY <1>2, <2>2
  <2> QED  BY ONLY <2>2, <2>3, <2>4, ConcatProperties DEF Behind
<1> HIDE DEF Done
<1>5. n \in Done
  BY <1>1, <1>3, <1>4, NatInduct
<1> QED  BY <1>1, <1>2, <1>5 DEF Done

-----------------------------------------------------------------------------
(* The invariants of the loop.                                             *)

(* The types of the effects.                                               *)
EffectsType ==
  /\ m_Particles \in [System -> Seq(Particle)]
  /\ m_VBOffset \in [System -> Nat] /\ Offsets
  /\ m_VB \in [System -> [0 .. m_VBSize - 1 -> Cell]]
  /\ m_CurrentFireworkEffectNumber \in Nat

(* The draws not yet read are held, below the offset of their buffer.      *)
DrawsHeld == pending \in Seq(HeldDraw(m_VBOffset, m_VB))

(* A key that is down and was not sampled yet waits for its request.       *)
PressedSinceSampled ==
  /\ keyDown \subseteq Key /\ m_NowKeyState \in [Key -> BOOLEAN]
  /\ \A k \in keyDown : m_NowKeyState[k] \/ k \in pressed

(* The inductive invariant.                                                *)
FrameInv == EffectsType /\ DrawsHeld /\ PressedSinceSampled

(* At the start nothing is drawn or pressed.                               *)
LEMMA InitialFrameInv == FrameInit => FrameInv
<1> SUFFICES ASSUME FrameInit PROVE FrameInv
  OBVIOUS
<1>1. InitParticleEffects
  BY DEF FrameInit
<1>2. ASSUME NEW s \in System PROVE LifeTime(s) \in Nat
  BY BufferSizes DEF LifeTime
<1>3. ASSUME NEW s \in System PROVE addParticle(s) \in Particle
  BY <1>2 DEF addParticle, resetParticle, Particle
<1>4. SetSnowParticles \in Seq(Particle)
  <2>1. Snow \in System
    BY DEF System
  <2>2. addParticle(Snow) \in Particle
    BY <1>3, <2>1
  <2> QED  BY ONLY <2>2, BufferSizes DEF SetSnowParticles
<1>5. ASSUME NEW s \in System PROVE SetParticles(s) \in Seq(Particle)
  <2>1. addParticle(s) \in Particle
    BY <1>3
  <2> QED  BY ONLY <2>1, BufferSizes DEF SetParticles
<1>6. m_Particles \in [System -> Seq(Particle)]
  BY <1>1, <1>4, <1>5 DEF InitParticleEffects
<1>7. m_VBOffset \in [System -> Nat] /\ \A s \in System : m_VBOffset[s] = 0
  BY <1>1 DEF InitParticleEffects
<1>8. Offsets
  <2>1. 0 % m_VBBatchSize = 0
    BY SegmentsFill, BufferSizes DEF Segment
  <2> QED  BY ONLY <1>7, <2>1 DEF Offsets
<1>9. m_VB \in [System -> [0 .. m_VBSize - 1 -> Cell]]
  <2> HIDE DEF Memory
  <2> QED  BY <1>1, MemoryType DEF InitParticleEffects
<1>10. m_CurrentFireworkEffectNumber \in Nat
  BY <1>1 DEF InitParticleEffects
<1>11. DrawsHeld
  <2>1. pending = <<>>
    BY <1>1 DEF InitParticleEffects
  <2> QED  BY ONLY <2>1 DEF DrawsHeld
<1>12. PressedSinceSampled
  BY DEF FrameInit, PressedSinceSampled
<1> QED  BY ONLY <1>6, <1>7, <1>8, <1>9, <1>10, <1>11, <1>12 DEF FrameInv, EffectsType

(* What a frame makes of the effects.                                      *)
LEMMA FrameSteps ==
  ASSUME EffectsType, DrawsHeld, NEW dTime \in Nat, UpdateAndRender(dTime)
  PROVE  /\ EffectsType' /\ DrawsHeld'
         /\ \A s \in System : screen'[s] = Vertices(m_Particles'[s])
<1> DEFINE particles == UpdateEffects(dTime)
           rendered == [s \in System |-> RenderItSelf(s, particles[s])]
<1>1. /\ m_Particles' = particles
      /\ m_VBOffset' = [s \in System |-> rendered[s].offset]
      /\ m_VB' = [s \in System |-> rendered[s].memory]
      /\ screen' = [s \in System |-> rendered[s].drawn]
      /\ pending' = DrawsOf(rendered, StillRead(rendered))
      /\ m_CurrentFireworkEffectNumber' = m_CurrentFireworkEffectNumber
  BY DEF UpdateAndRender
<1>2. particles \in [System -> Seq(Particle)]
  <2>1. ASSUME NEW s \in System
        PROVE  /\ FireworkUpdateItSelf(m_Particles[s], dTime) \in Seq(Particle)
               /\ SnowUpdateItSelf(m_Particles[s], dTime) \in Seq(Particle)
    <3> DEFINE ps == m_Particles[s]
    <3>1. ps \in Seq(Particle)
      BY DEF EffectsType
    <3> HIDE DEF ps
    <3>2. Len(ps) \in Nat /\ DOMAIN ps = 1 .. Len(ps) /\ \A i \in 1 .. Len(ps) : ps[i] \in Particle
      BY ONLY <3>1, LenProperties, ElementOfSeq
    <3>3. \A i \in 1 .. Len(ps) : /\ Aged(ps[i], LIFETIME, dTime) \in Particle
                                  /\ Aged(ps[i], DS_LIFETIME, dTime) \in Particle
      BY <3>2, AgedType, BufferSizes
    <3>4. /\ FireworkUpdateItSelf(ps, dTime) \in Seq(Particle)
          /\ SnowUpdateItSelf(ps, dTime) \in Seq(Particle)
      BY ONLY <3>2, <3>3 DEF FireworkUpdateItSelf, SnowUpdateItSelf
    <3> QED  BY <3>4 DEF ps
  <2> QED  BY ONLY <2>1 DEF UpdateEffects
<1> HIDE DEF particles
<1>3. \A s \in System : rendered[s] = RenderItSelf(s, particles[s])
  OBVIOUS
<1> HIDE DEF rendered
<1>4. ASSUME NEW s \in System PROVE Rendered(rendered[s], s, Vertices(particles[s]))
  <2>1. Vertices(particles[s]) \in Seq(Vertex)
    BY <1>2, VerticesType
  <2>2. m_VB[s] \in [0 .. m_VBSize - 1 -> Cell] /\ Offsets
    BY DEF EffectsType
  <2> QED  BY <1>3, <2>1, <2>2, RenderItSelfRenders
<1>5. ASSUME NEW s \in System
      PROVE  /\ m_VBOffset'[s] = rendered[s].offset /\ rendered[s].offset \in Nat
             /\ rendered[s].offset % m_VBBatchSize = 0
             /\ m_VB'[s] = rendered[s].memory
             /\ rendered[s].memory \in [0 .. m_VBSize - 1 -> Cell]
             /\ screen'[s] = Vertices(m_Particles'[s])
  BY <1>1, <1>4 DEF Rendered
<1>6. Offsets' /\ m_VBOffset' \in [System -> Nat]
  BY <1>1, <1>5 DEF Offsets
<1>7. m_VB' \in [System -> [0 .. m_VBSize - 1 -> Cell]]
  BY <1>1, <1>5
<1>8. EffectsType'
  <2>1. m_CurrentFireworkEffectNumber' \in Nat
    BY <1>1 DEF EffectsType
  <2> QED  BY <1>1, <1>2, <1>6, <1>7, <2>1 DEF EffectsType
<1> DEFINE H == HeldDraw(m_VBOffset', m_VB')
<1>9. StillRead(rendered) \in Seq(H)
  <2>1. \A s \in System : /\ rendered[s].offset = m_VBOffset'[s] /\ m_VBOffset'[s] \in Nat
                          /\ rendered[s].memory = m_VB'[s]
                          /\ BatchKept(rendered[s], s)
    BY <1>4, <1>5 DEF Rendered
  <2>2. pending \in Seq(HeldDraw(m_VBOffset, m_VB)) /\ Offsets
    BY DEF DrawsHeld, EffectsType
  <2> QED  BY <2>1, <2>2, StillReadHeld
<1>10. ASSUME NEW s \in System PROVE rendered[s].draws \in Seq(H)
  <2> DEFINE draws == rendered[s].draws
  <2>1. /\ draws \in Seq(Draw)
        /\ \A n \in 1 .. Len(draws) :
             draws[n].system = s /\ Held(draws[n], rendered[s].memory, rendered[s].offset)
    BY <1>4 DEF Rendered
  <2>2. m_VBOffset'[s] = rendered[s].offset /\ m_VB'[s] = rendered[s].memory
    BY <1>5
  <2> HIDE DEF draws
  <2>3. \A n \in 1 .. Len(draws) : draws[n] \in Draw
    BY ONLY <2>1, ElementOfSeq
  <2>4. \A n \in 1 .. Len(draws) : draws[n] \in HeldDraw(m_VBOffset', m_VB')
    BY ONLY <2>1, <2>2, <2>3 DEF HeldDraw
  <2>5. Len(draws) \in Nat /\ draws = [n \in 1 .. Len(draws) |-> draws[n]]
    BY ONLY <2>1
  <2> HIDE DEF H
  <2>6. \A n \in 1 .. Len(draws) : draws[n] \in H
    BY <2>4 DEF H
  <2>7. draws \in Seq(H)
    BY ONLY <2>5, <2>6
  <2> QED  BY <2>7 DEF draws
<1>11. pending' \in Seq(H)
  <2> HIDE DEF H
  <2> QED  BY <1>1, <1>9, <1>10, DrawsOfHeld
<1>12. DrawsHeld'
  BY <1>11 DEF DrawsHeld
<1> QED  BY <1>5, <1>8, <1>12

(* A step that leaves the effects alone keeps what is known of them.       *)
LEMMA EffectsStay == EffectsType /\ DrawsHeld /\ UNCHANGED effectVars => EffectsType' /\ DrawsHeld'
BY DEF effectVars, EffectsType, DrawsHeld, Offsets

(* A step that changes no key keeps what is known of them.                 *)
LEMMA KeysStay ==
  PressedSinceSampled /\ keyDown' \subseteq keyDown /\ UNCHANGED <<m_NowKeyState, pressed>>
    => PressedSinceSampled'
BY DEF PressedSinceSampled

(* A key leaves pressed only with a request, and that is for a key that    *)
(* was sampled down.                                                       *)
LEMMA RequestsPressed ==
  ASSUME PressedSinceSampled, RunFrame
  PROVE  /\ PressedSinceSampled'
         /\ \A w \in written' : w[1] \in pressed
<1>1. /\ m_PrevKeyState' = m_NowKeyState /\ m_NowKeyState' = [k \in Key |-> k \in keyDown]
      /\ keyDown' = keyDown /\ PlaySceneUpdateItSelf
  BY DEF RunFrame, UpdateKeyState
<1>2. PressedSinceSampled'
  <2>1. keyDown' \subseteq Key
    BY <1>1 DEF PressedSinceSampled
  <2>2. m_NowKeyState' \in [Key -> BOOLEAN]
    BY ONLY <1>1
  <2>3. \A k \in keyDown' : m_NowKeyState'[k]
    BY ONLY <1>1, <2>1
  <2> QED  BY ONLY <2>1, <2>2, <2>3 DEF PressedSinceSampled
<1>3. ASSUME NEW k, NEW request, NEW w \in Send(k, request)
      PROVE  w[1] \in pressed
  <2>1. w = <<k, request>> /\ SceneKeyDown(k)
    BY DEF Send
  <2>2. k \in Key /\ ~m_NowKeyState[k] /\ k \in keyDown
    BY <1>1, <2>1 DEF SceneKeyDown, IsKeyDown
  <2> QED  BY <2>1, <2>2 DEF PressedSinceSampled
<1>4. ASSUME NEW w \in written' PROVE w[1] \in pressed
  <2>1. \E k, request : w \in Send(k, request)
    <3>1. w \in SendRespawnRequest
            \cup (SendAcceleration \cup SendStop \cup SendUsingSkill \cup SendTurnBody)
      <4> HIDE DEF SendRespawnRequest, SendAcceleration, SendStop, SendUsingSkill, SendTurnBody
      <4> QED  BY <1>1 DEF PlaySceneUpdateItSelf
    <3> QED  BY <3>1 DEF SendRespawnRequest, SendAcceleration, SendStop,
                         SendUsingSkill, SendTurnBody
  <2> QED  BY <1>3, <2>1
<1> QED  BY <1>2, <1>4

(* Every step keeps the invariant.                                         *)
LEMMA StepKeepsFrameInv == FrameInv /\ [FrameNext]_frameVars => FrameInv'
<1> SUFFICES ASSUME FrameInv, [FrameNext]_frameVars PROVE FrameInv'
  OBVIOUS
<1>1. EffectsType /\ DrawsHeld /\ PressedSinceSampled
  BY DEF FrameInv
<1>2. CASE \E k \in Key : PressKey(k)
  <2>1. UNCHANGED effectVars /\ m_NowKeyState' = m_NowKeyState
    BY <1>2 DEF PressKey, keys
  <2>2. PressedSinceSampled'
    BY <1>1, <1>2, <2>1 DEF PressedSinceSampled, PressKey
  <2> QED  BY <1>1, <2>1, <2>2, EffectsStay DEF FrameInv
<1>3. CASE \E k \in Key : ReleaseKey(k)
  BY <1>1, <1>3, EffectsStay, KeysStay DEF ReleaseKey, keys, FrameInv
<1>4. CASE ChangeFocus
  BY <1>1, <1>4, EffectsStay, KeysStay DEF ChangeFocus, keys, FrameInv
<1>5. CASE HandleLoginResult \/ FrameHandleDeadResult \/ FrameHandleRespawnResult
  BY <1>1, <1>5, EffectsStay, KeysStay
  DEF HandleLoginResult, FrameHandleDeadResult, FrameHandleRespawnResult, keys, FrameInv
<1>6. CASE HandleResultWithEffect
  <2>1. /\ PlayFireworkEffect("EXPLOSION")
        /\ keyDown' = keyDown /\ UNCHANGED <<m_NowKeyState, pressed>>
    BY <1>6 DEF HandleResultWithEffect, keys
  <2>2. PressedSinceSampled'
    BY <1>1, <2>1, KeysStay
  <2>3. PICK s : /\ m_Particles' = [m_Particles EXCEPT ![s] = PlayEffect(s)]
                 /\ m_CurrentFireworkEffectNumber' = m_CurrentFireworkEffectNumber + 1
                 /\ m_VBOffset' = m_VBOffset /\ m_VB' = m_VB /\ pending' = pending
    BY <2>1 DEF PlayFireworkEffect
  <2>4. s \in System => PlayEffect(s) \in Seq(Particle)
    <3> SUFFICES ASSUME s \in System PROVE PlayEffect(s) \in Seq(Particle)
      OBVIOUS
    <3>1. m_Particles[s] \in Seq(Particle)
      BY <1>1 DEF EffectsType
    <3>2. Len(m_Particles[s]) \in Nat /\ DOMAIN m_Particles[s] = 1 .. Len(m_Particles[s])
      BY <3>1, LenProperties
    <3>3. resetParticle(0) \in Particle
      BY DEF resetParticle, Particle
    <3> QED  BY ONLY <3>2, <3>3 DEF PlayEffect
  <2>5. m_Particles' \in [System -> Seq(Particle)]
    <3>1. m_Particles \in [System -> Seq(Particle)]
      BY <1>1 DEF EffectsType
    <3> QED  BY ONLY <2>3, <2>4, <3>1
  <2>6. EffectsType' /\ DrawsHeld'
    BY <1>1, <2>3, <2>5 DEF EffectsType, Offsets, DrawsHeld
  <2> QED  BY <2>2, <2>6 DEF FrameInv
<1>7. CASE RunFrame
  <2>1. \E dTime \in Nat : UpdateAndRender(dTime)
    <3>1. 0 .. MaxDelta \subseteq Nat
      BY FrameAssumption
    <3> QED  BY <1>7, <3>1 DEF RunFrame
  <2> QED  BY <1>1, <1>7, <2>1, FrameSteps, RequestsPressed DEF FrameInv
<1>8. CASE GraphicsCard
  <2>1. /\ pending # <<>> /\ pending' = Tail(pending)
        /\ UNCHANGED <<m_Particles, m_VBOffset, m_VB, m_CurrentFireworkEffectNumber>>
        /\ keyDown' = keyDown /\ UNCHANGED <<m_NowKeyState, pressed>>
    BY <1>8 DEF GraphicsCard, CardDraws, keys
  <2>2. PressedSinceSampled'
    BY <1>1, <2>1, KeysStay
  <2>3. EffectsType'
    BY <1>1, <2>1 DEF EffectsType, Offsets
  <2>4. DrawsHeld'
    BY <1>1, <2>1, HeadTailProperties DEF DrawsHeld
  <2> QED  BY <2>2, <2>3, <2>4 DEF FrameInv
<1>9. CASE UNCHANGED frameVars
  BY <1>1, <1>9, EffectsStay, KeysStay DEF frameVars, keys, FrameInv
<1> QED  BY <1>2, <1>3, <1>4, <1>5, <1>6, <1>7, <1>8, <1>9 DEF FrameNext

(* ... so that it holds always.                                            *)
LEMMA AlwaysFrameInv == FrameSpec => []FrameInv
BY InitialFrameInv, StepKeepsFrameInv, PTL DEF FrameSpec

-----------------------------------------------------------------------------
(* The theorems.                                                           *)

(* However many draws wait when the next frames are rendered, each finds   *)
(* in the vertex buffer what was written for it: a segment is written      *)
(* again only in other memory (ParticleSystem.cpp:137 to 147).             *)
THEOREM DrawsAreHeld == FrameSpec => []CardDrawsWhatWasWritten
<1>1. FrameInv => CardDrawsWhatWasWritten
  <2> SUFFICES ASSUME FrameInv, NEW n \in DOMAIN pending, NEW i \in DOMAIN pending[n].wrote
               PROVE  m_VB[pending[n].system][pending[n].first + i - 1] = pending[n].wrote[i]
    BY DEF CardDrawsWhatWasWritten
  <2>1. pending \in Seq(HeldDraw(m_VBOffset, m_VB))
    BY DEF FrameInv, DrawsHeld
  <2>2. pending[n] \in HeldDraw(m_VBOffset, m_VB)
    BY <2>1, LenProperties, ElementOfSeq
  <2>3. pending[n].wrote \in Seq(Cell)
    BY <2>2 DEF HeldDraw, Draw
  <2>4. i \in 1 .. Len(pending[n].wrote)
    BY <2>3, LenProperties
  <2> QED  BY <2>2, <2>4 DEF HeldDraw, Held
<1> QED  BY <1>1, AlwaysFrameInv, PTL

(* A frame draws every living particle of every system, once and in their  *)
(* order, whatever their number is to a segment and to the buffer.         *)
THEOREM FramesDrawTheLiving == FrameSpec => FrameDrawsTheLiving
<1>1. FrameInv /\ [FrameNext]_frameVars
        => [IsFrame => \A s \in System : screen'[s] = Vertices(m_Particles'[s])]_effectVars
  <2> SUFFICES ASSUME FrameInv, [FrameNext]_frameVars, IsFrame
               PROVE  \A s \in System : screen'[s] = Vertices(m_Particles'[s])
    OBVIOUS
  <2>1. RunFrame
    BY DEF IsFrame, FrameNext, frameVars, effectVars, PressKey, ReleaseKey,
           ChangeFocus, HandleLoginResult,
           FrameHandleDeadResult, FrameHandleRespawnResult, HandleResultWithEffect,
           PlayFireworkEffect,
           GraphicsCard, CardDraws
  <2>2. \E dTime \in Nat : UpdateAndRender(dTime)
    <3>1. 0 .. MaxDelta \subseteq Nat
      BY FrameAssumption
    <3> QED  BY <2>1, <3>1 DEF RunFrame
  <2> QED  BY <2>2, FrameSteps DEF FrameInv
<1> QED  BY <1>1, AlwaysFrameInv, PTL DEF FrameSpec, FrameDrawsTheLiving

(* A held key makes one request: it was pressed again since the last one,  *)
(* whatever came of the focus, the login and the player's life meanwhile.  *)
THEOREM RequestsFollowPresses == FrameSpec => OneRequestPerPress
<1>1. FrameInv /\ [FrameNext]_frameVars =>
        [IsFrame => \A w \in written' : w[1] \in pressed]_frameVars
  <2> SUFFICES ASSUME FrameInv, [FrameNext]_frameVars, IsFrame
               PROVE  \A w \in written' : w[1] \in pressed
    OBVIOUS
  <2>1. RunFrame
    BY DEF IsFrame, FrameNext, frameVars, effectVars, PressKey, ReleaseKey,
           ChangeFocus, HandleLoginResult,
           FrameHandleDeadResult, FrameHandleRespawnResult, HandleResultWithEffect,
           PlayFireworkEffect,
           GraphicsCard, CardDraws
  <2> QED  BY <2>1, RequestsPressed DEF FrameInv
<1> QED  BY <1>1, AlwaysFrameInv, PTL DEF FrameSpec, OneRequestPerPress
=============================================================================
