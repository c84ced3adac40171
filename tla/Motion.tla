------------------------------- MODULE Motion -------------------------------
(***************************************************************************)
(* The bodies of the characters on the server: acceleration, motion,       *)
(* impacts and the ray of a push.                                          *)
(*                                                                         *)
(* Space has one dimension, an update takes one unit of time, and places   *)
(* are counted in halves of a unit of length, so that a/2 is a whole       *)
(* number.  All masses are equal: nothing calls SetMass.  How much fuel,   *)
(* oxygen and cooldown a character has is Play's matter; here requests may *)
(* be granted and characters may die at any time.                          *)
(***************************************************************************)
EXTENDS Integers, FiniteSetsExt, SequencesExt, Functions

CONSTANTS
  REAL_PLAYER_NUM,  \* how many characters there can be
  PLAYER_POSITIONS, \* where the character of each id starts
  CB_LENGTH,        \* half the length of a collision box
  SKILL_RANGE, MAX_PLAYER_SPEED, ACCELERATION_WEIGHT,
  Acting, Mortal,   \* bounds: the players who send requests once they have
                    \* logged in, and the characters that may die
  Space,            \* bound on the places
  MaxThrust         \* bound on the accelerations of all bodies together

Id == 0 .. REAL_PLAYER_NUM - 1   \* the players' ids
Place == -Space .. Space
Direction == {-1, 1}

ASSUME MotionAssumption ==
  /\ Acting \cup Mortal \subseteq Id /\ PLAYER_POSITIONS \in [Id -> Place]
  /\ {REAL_PLAYER_NUM, CB_LENGTH, SKILL_RANGE, MAX_PLAYER_SPEED, ACCELERATION_WEIGHT,
      Space, MaxThrust} \subseteq Nat

VARIABLES
  m_CharacterList,   \* the ids in use
  m_IsDead,          \* the dead among them
  body               \* of each character: position, velocity, acceleration, and
                     \* the place at which its collision box is (m_Matrix)

vars == <<m_CharacterList, m_IsDead, body>>

Sign(n) == CASE n > 0 -> 1 [] n < 0 -> -1 [] OTHER -> 0
Distance(a, b) == IF a < b THEN b - a ELSE a - b

InitRigidBody(p, box) ==
  [pos |-> PLAYER_POSITIONS[p], vel |-> 0, acc |-> 0, box |-> box]

Init ==
  /\ m_CharacterList = {} /\ m_IsDead = {}
  /\ body = [p \in Id |-> InitRigidBody(p, 0)]

-----------------------------------------------------------------------------
(* Requests.                                                               *)

(* The matrix of a new session's character is the identity: until the next *)
(* update its box is at the origin.                                        *)
RegisterCharacter(p) ==
  /\ p \notin m_CharacterList /\ m_CharacterList' = m_CharacterList \cup {p}
  /\ UNCHANGED <<m_IsDead, body>>

DeregisterCharacter(p) ==
  /\ p \in m_CharacterList /\ m_CharacterList' = m_CharacterList \ {p}
  /\ m_IsDead' = m_IsDead \ {p}
  /\ body' = [body EXCEPT ![p] = InitRigidBody(p, 0)]

HandleRespawnRequest(p) ==
  /\ p \in m_CharacterList /\ m_IsDead' = m_IsDead \ {p}
  /\ body' = [body EXCEPT ![p] = InitRigidBody(p, @.box)]
  /\ UNCHANGED m_CharacterList

Move(b, direction) == [b EXCEPT !.acc = @ + ACCELERATION_WEIGHT * Sign(direction)]

(* A character accelerates to where it looks; it may turn anywhere.        *)
SkillGoForward(p, viewDirection) ==
  /\ p \in m_CharacterList /\ body' = [body EXCEPT ![p] = Move(@, viewDirection)]
  /\ UNCHANGED <<m_CharacterList, m_IsDead>>

SkillStop(p) ==
  /\ p \in m_CharacterList
  /\ body' = [body EXCEPT ![p].vel = 0, ![p].acc = 0]
  /\ UNCHANGED <<m_CharacterList, m_IsDead>>

(* The faces of the box of i that a ray of p meets, as distances.          *)
IntersectionCheckRayBox(p, i, viewDirection) ==
  {d \in {(body[i].box + side * CB_LENGTH - body[p].pos) * viewDirection : side \in Direction} :
     d >= 0}

DetectTarget(p, viewDirection) ==
  LET seen == {i \in m_CharacterList \ {p} :
                 \E d \in IntersectionCheckRayBox(p, i, viewDirection) : d < SKILL_RANGE}
      distance(i) == Min(IntersectionCheckRayBox(p, i, viewDirection))
  IN  {i \in seen : \A j \in seen \ {i} :
         distance(i) < distance(j) \/ (distance(i) = distance(j) /\ i < j)}

SkillPush(p, viewDirection) ==
  /\ p \in m_CharacterList
  /\ \E target \in DetectTarget(p, viewDirection) :
       body' = [body EXCEPT ![target] = Move(@, @.pos - body[p].pos)]
  /\ UNCHANGED <<m_CharacterList, m_IsDead>>

-----------------------------------------------------------------------------
(* The update.                                                             *)

(* The body is carried on at the speed it reaches, not the one it had.     *)
CalcCurrentPosition(b) ==
  [b EXCEPT !.vel = @ + b.acc, !.pos = @ + 2 * (b.vel + b.acc) + b.acc]

(* The limit of the speed comes after the place is computed.               *)
LimitSpeed(b) ==
  [b EXCEPT !.vel = IF Distance(@, 0) > MAX_PLAYER_SPEED
                    THEN MAX_PLAYER_SPEED * Sign(@) ELSE @]

(* The box is put where the body is before it moves.                       *)
UpdateItSelf(b, dead, accelerationEnds) ==
  LET pushed == IF accelerationEnds THEN [b EXCEPT !.acc = 0] ELSE b
  IN  IF dead THEN pushed
      ELSE LimitSpeed(CalcCurrentPosition([pushed EXCEPT !.box = b.pos]))

(* The boxes overlap where they were, the bodies are near where they are.  *)
IsCollide(bodies, i, j) ==
  /\ Distance(bodies[i].pos, bodies[j].pos) <= 2 * CB_LENGTH
  /\ Distance(bodies[i].box, bodies[j].box) <= 2 * CB_LENGTH

(* How fast the bodies come nearer to each other.                          *)
Approach(bodies, i, j) ==
  (bodies[i].vel - bodies[j].vel) * Sign(bodies[j].pos - bodies[i].pos)

(* What the impact changes along the line through the centers.             *)
Change(bodies, i, j) ==
  IF bodies[i].pos = bodies[j].pos THEN 0 ELSE bodies[j].vel - bodies[i].vel

(* Mutant: only the velocity of the first body changes.                    *)
Impact_OfOne(bodies, i, j) ==
  [bodies EXCEPT ![i].vel = @ + Change(bodies, i, j)]

(* The bodies exchange momentum.                                           *)
Impact(bodies, i, j) ==
  [bodies EXCEPT ![i].vel = @ + Change(bodies, i, j), ![j].vel = @ - Change(bodies, i, j)]

(* The pairs the loops look at: each with a lower and a higher id in use.   *)
IsPair(i, j) == i < j /\ {i, j} \subseteq m_CharacterList

(* Mutant: the condition of the line commented out, with i and j swapped.  *)
CheckPair_Swapped(scan, pair) ==
  LET i == pair[1]
      j == pair[2]
  IN  IF scan.returned \/ ~IsPair(i, j) \/ ~IsCollide(scan.bodies, i, j) THEN scan
      ELSE IF Approach(scan.bodies, i, j) > 0 THEN [scan EXCEPT !.returned = TRUE]
      ELSE [scan EXCEPT !.bodies = Impact(@, i, j), !.collided = @ \cup {i, j}]

(* Bodies that move apart end the whole check, not only that of the pair.  *)
CheckPair(scan, pair) ==
  LET i == pair[1]
      j == pair[2]
  IN  IF scan.returned \/ ~IsPair(i, j) \/ ~IsCollide(scan.bodies, i, j) THEN scan
      ELSE IF Approach(scan.bodies, i, j) < 0 THEN [scan EXCEPT !.returned = TRUE]
      ELSE [scan EXCEPT !.bodies = Impact(@, i, j), !.collided = @ \cup {i, j}]

(* The ids of the loops over i and, inside, over j.                        *)
Pairs ==
  [k \in 1 .. REAL_PLAYER_NUM * REAL_PLAYER_NUM |->
     <<(k - 1) \div REAL_PLAYER_NUM, (k - 1) % REAL_PLAYER_NUM>>]

CheckCollision(bodies) ==
  FoldLeft(CheckPair, [bodies |-> bodies, collided |-> {}, returned |-> FALSE], Pairs)

(* The bodies after Update has moved them, before it looks for collisions. *)
Moved(ending) ==
  [p \in Id |-> IF p \in m_CharacterList
                THEN UpdateItSelf(body[p], p \in m_IsDead, p \in ending) ELSE body[p]]

(* The characters whose COLLISION the update broadcasts.                   *)
CollidedPlayers(ending) == CheckCollision(Moved(ending)).collided

DoPeriodWork(ending, dying) ==
  /\ LET moved == Moved(ending)
     IN  /\ \A p \in Id : moved[p].pos \in Place
         /\ body' = CheckCollision(moved).bodies
  /\ m_IsDead' = m_IsDead \cup dying
  /\ UNCHANGED m_CharacterList

Accelerating == {p \in Id : body[p].acc # 0}

Next ==
  \/ \E ending \in SUBSET Accelerating,
        dying \in SUBSET ((Mortal \cap m_CharacterList) \ m_IsDead) :
       DoPeriodWork(ending, dying)
  \/ \E p \in Id : RegisterCharacter(p)
  \/ \E p \in Acting :
       \/ DeregisterCharacter(p) \/ HandleRespawnRequest(p) \/ SkillStop(p)
       \/ \E viewDirection \in Direction :
            /\ SkillGoForward(p, viewDirection) \/ SkillPush(p, viewDirection)
            /\ SumFunction([i \in Id |-> Distance(body'[i].acc, 0)]) <= MaxThrust

Spec == Init /\ [][Next]_vars

-----------------------------------------------------------------------------
(* Impacts change velocities only by passing momentum on: in any update    *)
(* the momentum and the energy of all bodies stay what they were, also     *)
(* through chains of impacts, and every body whose velocity they changed   *)
(* is announced, so that the clients' copies change course with it.        *)
ImpactsConserve ==
  \A ending \in SUBSET Accelerating :
    LET moved == Moved(ending)
        scan == CheckCollision(moved)
        before == [p \in Id |-> moved[p].vel]
        after == [p \in Id |-> scan.bodies[p].vel]
    IN  /\ SumFunction(after) = SumFunction(before)
        /\ SumFunction([p \in Id |-> after[p] * after[p]])
             = SumFunction([p \in Id |-> before[p] * before[p]])
        /\ \A p \in Id : after[p] # before[p] => p \in scan.collided

(* Two bodies that overlap, and no others, never go on into each other     *)
(* after an update: the impact is dealt with at once and not undone by a   *)
(* second one while they are still overlapping (the comment in             *)
(* CheckCollision on bodies that never get away from each other).          *)
ImpactsResolved ==
  \A ending \in SUBSET Accelerating :
    LET bodies == CheckCollision(Moved(ending)).bodies
        near == {pair \in m_CharacterList \X m_CharacterList :
                   pair[1] < pair[2] /\ IsCollide(bodies, pair[1], pair[2])}
    IN  Cardinality(near) = 1 => \A pair \in near : Approach(bodies, pair[1], pair[2]) <= 0
=============================================================================
