----------------------------- MODULE PlayProofs -----------------------------
(***************************************************************************)
(* Proofs about Play, for every set of ids, every way time advances and    *)
(* all values of the game's tables.                                        *)
(***************************************************************************)
EXTENDS Play, FiniteSetTheorems, TLAPS

-----------------------------------------------------------------------------
(* Class components.                                                       *)

LEMMA Constants ==
  /\ DEFAULT_OXYGEN \in Nat /\ DEFAULT_FUEL \in Nat /\ FUEL_FOR_GOFORWARD \in Nat
  /\ COOLDOWN_GLOBAL \in Nat /\ COOLDOWN_STUN \in Nat /\ OXYGEN_CONSUMPTION \in Nat
  /\ DEBRIS_TO_RESOURCE_AMOUNT \in Nat /\ MaxResource \in Nat
  /\ DEFAULT_HP \in Nat \ {0} /\ HEALTH_REDUCED_BY_OXYGEN_INSUFFICIENT \in Nat \ {0}
  /\ Id \subseteq Nat /\ TimeStep \subseteq Nat
  /\ SKILL_COOLDOWN_TABLE \in [Class!Skill -> Nat]
BY PlayAssumption

LEMMA CreateFacts == Class!Create \in Component /\ Class!IsAlive(Class!Create)
BY Constants DEF Class!Create, Component, Class!IsAlive

(* Update lets the cooldowns run down by dt at most, and gives nothing     *)
(* back.                                                                   *)
LEMMA UpdateFacts ==
  ASSUME NEW c \in Component, NEW dt \in Nat
  PROVE  LET d == Class!Update(c, dt)
         IN  /\ d \in Component
             /\ d.m_MovementControlCooldown + dt >= c.m_MovementControlCooldown
             /\ d.m_GlobalCooldown + dt >= c.m_GlobalCooldown
             /\ d.m_Fuel = c.m_Fuel /\ d.m_Resource = c.m_Resource
<1> DEFINE n == dt * OXYGEN_CONSUMPTION
           u == Class!UseOxygen(c, n)
<1>1. n \in Nat
  BY Constants
<1> HIDE DEF n
<1>2. /\ u \in Component /\ u.m_Fuel = c.m_Fuel /\ u.m_Resource = c.m_Resource
      /\ u.m_MovementControlCooldown = c.m_MovementControlCooldown
      /\ u.m_GlobalCooldown = c.m_GlobalCooldown
  <2>1. CASE n > c.m_Oxygen
    BY <1>1, <2>1, Constants DEF Class!UseOxygen, Class!Positive, Component
  <2>2. CASE ~(n > c.m_Oxygen)
    BY <1>1, <2>2, Constants DEF Class!UseOxygen, Class!Positive, Component
  <2>3. QED
    BY <2>1, <2>2
<1> HIDE DEF u
<1>3. [skill \in Class!Skill |-> Class!Positive(u.m_CooldownTable[skill] - dt)] \in [Class!Skill -> Nat]
  BY <1>2 DEF Component, Class!Positive
<1>4. /\ Class!Positive(u.m_MovementControlCooldown - dt) \in 0 .. COOLDOWN_STUN
      /\ Class!Positive(u.m_GlobalCooldown - dt) \in 0 .. COOLDOWN_GLOBAL
      /\ Class!Positive(u.m_MovementControlCooldown - dt) + dt >= u.m_MovementControlCooldown
      /\ Class!Positive(u.m_GlobalCooldown - dt) + dt >= u.m_GlobalCooldown
  BY <1>2, Constants DEF Component, Class!Positive
<1>5. Class!Update(c, dt) =
        [u EXCEPT !.m_MovementControlCooldown = Class!Positive(u.m_MovementControlCooldown - dt),
                  !.m_GlobalCooldown = Class!Positive(u.m_GlobalCooldown - dt),
                  !.m_CooldownTable = [skill \in Class!Skill |-> Class!Positive(u.m_CooldownTable[skill] - dt)]]
  BY DEF Class!Update, u, n
<1>6. QED
  BY <1>2, <1>3, <1>4, <1>5 DEF Component

(* The dead are passed over; b is the character with or without oxygen.    *)
LivesOn(c, b, dt) == IF ~Class!IsAlive(c) THEN c ELSE Class!Update(b, dt)

LEMMA UpdateItSelfFacts ==
  ASSUME NEW c \in Component, NEW dt \in Nat, NEW b \in {c, [c EXCEPT !.m_Oxygen = 0]}
  PROVE  LET d == LivesOn(c, b, dt)
         IN  /\ d \in Component
             /\ d.m_MovementControlCooldown + dt >= c.m_MovementControlCooldown
             /\ d.m_GlobalCooldown + dt >= c.m_GlobalCooldown
             /\ d.m_Fuel = c.m_Fuel /\ d.m_Resource = c.m_Resource
             /\ Class!IsAlive(d) => Class!IsAlive(c)
<1>1. /\ b \in Component /\ b.m_Fuel = c.m_Fuel /\ b.m_Resource = c.m_Resource
      /\ b.m_MovementControlCooldown = c.m_MovementControlCooldown
      /\ b.m_GlobalCooldown = c.m_GlobalCooldown
  BY Constants DEF Component
<1>2. CASE Class!IsAlive(c)
  BY <1>1, <1>2, UpdateFacts DEF LivesOn
<1>3. CASE ~Class!IsAlive(c)
  BY <1>3, Constants DEF Component, LivesOn
<1>4. QED
  BY <1>2, <1>3

(* What the skills do to the components of the one who uses them.          *)
LEMMA GoForwardFacts ==
  ASSUME NEW c \in Component, Class!MayGoForward(c)
  PROVE  LET d == [Class!UseFuel(c) EXCEPT !.m_GlobalCooldown = COOLDOWN_GLOBAL]
         IN  /\ d \in Component /\ d.m_GlobalCooldown = COOLDOWN_GLOBAL
             /\ d.m_MovementControlCooldown = c.m_MovementControlCooldown
             /\ d.m_Fuel = Class!UseFuel(c).m_Fuel /\ d.m_Fuel \in 0 .. c.m_Fuel
             /\ d.m_Resource = c.m_Resource /\ d.m_HP = c.m_HP
<1>1. /\ c.m_Fuel - FUEL_FOR_GOFORWARD \in 0 .. c.m_Fuel /\ c.m_Fuel - FUEL_FOR_GOFORWARD \in 0 .. DEFAULT_FUEL
      /\ COOLDOWN_GLOBAL \in 0 .. COOLDOWN_GLOBAL
  BY Constants DEF Class!MayGoForward, Component
<1> DEFINE n == c.m_Fuel - FUEL_FOR_GOFORWARD
<1>2. Class!UseFuel(c) = [c EXCEPT !.m_Fuel = n]
  BY DEF Class!UseFuel
<1> HIDE DEF n
<1>3. QED
  BY <1>1, <1>2 DEF Component, n

LEMMA SetCooldownFacts ==
  ASSUME NEW c \in Component, NEW skill \in Class!Skill
  PROVE  LET d == Class!SetCooldown(c, skill)
         IN  /\ d \in Component /\ d.m_GlobalCooldown = COOLDOWN_GLOBAL
             /\ d.m_MovementControlCooldown = c.m_MovementControlCooldown
             /\ d.m_Fuel = c.m_Fuel /\ d.m_Resource = c.m_Resource /\ d.m_HP = c.m_HP
<1>1. SKILL_COOLDOWN_TABLE[skill] \in Nat
  BY Constants
<1> DEFINE table == [c.m_CooldownTable EXCEPT ![skill] = SKILL_COOLDOWN_TABLE[skill]]
<1>2. table \in [Class!Skill -> Nat] /\ COOLDOWN_GLOBAL \in 0 .. COOLDOWN_GLOBAL
  BY <1>1, Constants DEF Component
<1>3. Class!SetCooldown(c, skill) = [c EXCEPT !.m_GlobalCooldown = COOLDOWN_GLOBAL, !.m_CooldownTable = table]
  BY DEF Class!SetCooldown
<1> HIDE DEF table
<1>4. QED
  BY <1>2, <1>3 DEF Component

LEMMA StunnedFacts ==
  ASSUME NEW c \in Component
  PROVE  LET d == Stunned(c)
         IN  /\ d \in Component /\ d.m_MovementControlCooldown = COOLDOWN_STUN
             /\ d.m_GlobalCooldown = c.m_GlobalCooldown
             /\ d.m_Fuel = c.m_Fuel /\ d.m_Resource = c.m_Resource /\ d.m_HP = c.m_HP
BY Constants DEF Stunned, Component

LEMMA ElapsedFacts ==
  ASSUME NEW limit \in Nat, NEW since \in [Id -> 0 .. limit], NEW dt \in Nat
  PROVE  /\ Elapsed(since, dt, limit) \in [Id -> 0 .. limit]
         /\ \A p \in Id : \/ Elapsed(since, dt, limit)[p] = limit
                          \/ Elapsed(since, dt, limit)[p] = since[p] + dt
<1>1. ASSUME NEW p \in Id
      PROVE  Min({since[p] + dt, limit}) \in {since[p] + dt, limit} /\ Min({since[p] + dt, limit}) <= limit
  <2> DEFINE S == {since[p] + dt, limit}
  <2>1. since[p] + dt \in Nat
    OBVIOUS
  <2>2. \E x \in S : \A y \in S : x =< y
    BY <2>1
  <2>3. Min(S) \in S /\ \A y \in S : Min(S) =< y
    BY <2>2 DEF Min
  <2>4. QED
    BY <2>3
<1>2. ASSUME NEW p \in Id
      PROVE  Min({since[p] + dt, limit}) \in 0 .. limit
  <2>1. since[p] + dt \in Nat
    OBVIOUS
  <2>2. QED
    BY <1>1, <2>1
<1>3. QED
  BY <1>1, <1>2 DEF Elapsed

-----------------------------------------------------------------------------
(* The inductive invariant.  A cooldown never ends before its time: what   *)
(* is left of it and the time since it was set make up the whole of it.    *)
(* And a player is noted as dead if and, while it is in the list, only if  *)
(* it is dead.                                                             *)
Types ==
  /\ m_CharacterList \subseteq Id /\ m_IsDead \subseteq Id
  /\ component \in [Id -> Component]
  /\ sinceStun \in [Id -> 0 .. COOLDOWN_STUN] /\ sinceSkill \in [Id -> 0 .. COOLDOWN_GLOBAL]
Clocks ==
  \A p \in Id : /\ component[p].m_MovementControlCooldown + sinceStun[p] >= COOLDOWN_STUN
                /\ component[p].m_GlobalCooldown + sinceSkill[p] >= COOLDOWN_GLOBAL
Noticed ==
  /\ \A p \in m_IsDead : ~Class!IsAlive(component[p])
  /\ \A p \in m_CharacterList \ m_IsDead : Class!IsAlive(component[p])
Inv == Types /\ Clocks /\ Noticed

LEMMA InvInit == Init => Inv
<1> SUFFICES ASSUME Init
             PROVE  Inv
  OBVIOUS
<1> USE Constants
<1>1. \A p \in Id : component[p] = Class!Create
  BY DEF Init
<1>2. Types
  BY <1>1, CreateFacts DEF Init, Types
<1>3. Clocks
  <2>1. \A p \in Id : component[p] \in Component /\ sinceStun[p] = COOLDOWN_STUN /\ sinceSkill[p] = COOLDOWN_GLOBAL
    BY <1>1, CreateFacts DEF Init
  <2>2. \A p \in Id : component[p].m_MovementControlCooldown \in Nat /\ component[p].m_GlobalCooldown \in Nat
    BY <2>1 DEF Component
  <2>3. QED
    BY <2>1, <2>2 DEF Clocks
<1>4. Noticed
  BY DEF Init, Noticed
<1>5. QED
  BY <1>2, <1>3, <1>4 DEF Inv

LEMMA FreshFacts ==
  ASSUME Inv, NEW p \in Id, Fresh(p)
  PROVE  /\ component' \in [Id -> Component] /\ m_IsDead' \subseteq Id
         /\ sinceStun' \in [Id -> 0 .. COOLDOWN_STUN] /\ sinceSkill' \in [Id -> 0 .. COOLDOWN_GLOBAL]
         /\ Clocks'
         /\ Class!IsAlive(component'[p]) /\ p \notin m_IsDead'
         /\ \A q \in Id \ {p} : component'[q] = component[q] /\ (q \in m_IsDead' <=> q \in m_IsDead)
<1> USE Constants
<1>1. /\ component' \in [Id -> Component] /\ component'[p] = Class!Create
      /\ \A q \in Id \ {p} : component'[q] = component[q]
  BY CreateFacts DEF Fresh, Inv, Types
<1>2. /\ sinceStun' \in [Id -> 0 .. COOLDOWN_STUN] /\ sinceSkill' \in [Id -> 0 .. COOLDOWN_GLOBAL]
      /\ sinceStun'[p] = COOLDOWN_STUN /\ sinceSkill'[p] = COOLDOWN_GLOBAL
      /\ \A q \in Id \ {p} : sinceStun'[q] = sinceStun[q] /\ sinceSkill'[q] = sinceSkill[q]
  BY DEF Fresh, Inv, Types
<1>3. Clocks'
  <2>1. /\ component'[p].m_MovementControlCooldown + sinceStun'[p] >= COOLDOWN_STUN
        /\ component'[p].m_GlobalCooldown + sinceSkill'[p] >= COOLDOWN_GLOBAL
    BY <1>1, <1>2, CreateFacts DEF Component
  <2>2. QED
    BY <1>1, <1>2, <2>1 DEF Clocks, Inv
<1>4. QED
  BY <1>1, <1>2, <1>3, CreateFacts DEF Fresh, Inv, Types

(* A skill used by p leaves life and death alone.                          *)
LEMMA SkillInv ==
  ASSUME Inv, NEW p \in Id, UNCHANGED <<m_CharacterList, m_IsDead>>,
         component' \in [Id -> Component],
         \A q \in Id : component'[q].m_HP = component[q].m_HP,
         sinceStun' \in [Id -> 0 .. COOLDOWN_STUN], sinceSkill' \in [Id -> 0 .. COOLDOWN_GLOBAL],
         Clocks'
  PROVE  Inv'
BY DEF Inv, Types, Noticed, Class!IsAlive

(* What a period does to a character.                                      *)
LEMMA PeriodFacts ==
  ASSUME Inv, NEW dt \in TimeStep, NEW far, DoPeriodWork(dt, far), NEW p \in Id
  PROVE  /\ component'[p] \in Component
         /\ component'[p].m_MovementControlCooldown + dt >= component[p].m_MovementControlCooldown
         /\ component'[p].m_GlobalCooldown + dt >= component[p].m_GlobalCooldown
         /\ component'[p].m_Fuel = component[p].m_Fuel /\ component'[p].m_Resource = component[p].m_Resource
         /\ Class!IsAlive(component'[p]) => Class!IsAlive(component[p])
         /\ p \notin m_CharacterList \/ ~Class!IsAlive(component[p]) => component'[p] = component[p]
<1>1. component'[p] = IF p \in m_CharacterList THEN UpdateItSelf(component[p], dt, p \in far) ELSE component[p]
  BY DEF DoPeriodWork
<1>2. component[p] \in Component /\ dt \in Nat
  BY Constants DEF Inv, Types
<1>3. CASE p \in m_CharacterList
  <2>1. PICK b \in {component[p], [component[p] EXCEPT !.m_Oxygen = 0]} :
          component'[p] = LivesOn(component[p], b, dt)
    BY <1>1, <1>3 DEF UpdateItSelf, LivesOn
  <2> DEFINE c == component[p]
             d == LivesOn(component[p], b, dt)
  <2>2. /\ d \in Component
        /\ d.m_MovementControlCooldown + dt >= c.m_MovementControlCooldown
        /\ d.m_GlobalCooldown + dt >= c.m_GlobalCooldown
        /\ d.m_Fuel = c.m_Fuel /\ d.m_Resource = c.m_Resource
        /\ Class!IsAlive(d) => Class!IsAlive(c)
    BY <1>2, <2>1, UpdateItSelfFacts
  <2>3. ~Class!IsAlive(c) => d = c
    BY DEF LivesOn
  <2>4. QED
    BY <1>3, <2>1, <2>2, <2>3
<1>4. CASE p \notin m_CharacterList
  <2>1. component'[p] = component[p]
    BY <1>1, <1>4
  <2>2. component[p].m_MovementControlCooldown \in Nat /\ component[p].m_GlobalCooldown \in Nat
    BY <1>2, Constants DEF Component
  <2>3. QED
    BY <1>2, <1>4, <2>1, <2>2
<1>5. QED
  BY <1>3, <1>4

LEMMA InvNext == Inv /\ [Next]_vars => Inv'
<1> SUFFICES ASSUME Inv, [Next]_vars
             PROVE  Inv'
  OBVIOUS
<1> USE Constants
<1>1. /\ m_CharacterList \subseteq Id /\ m_IsDead \subseteq Id /\ component \in [Id -> Component]
      /\ sinceStun \in [Id -> 0 .. COOLDOWN_STUN] /\ sinceSkill \in [Id -> 0 .. COOLDOWN_GLOBAL]
  BY DEF Inv, Types
<1>2. ASSUME NEW p \in Id, HandleLoginRequest(p)
      PROVE  Inv'
  <2>1. Fresh(p)
    BY <1>2 DEF HandleLoginRequest
  <2>2. /\ component' \in [Id -> Component] /\ m_IsDead' \subseteq Id
        /\ sinceStun' \in [Id -> 0 .. COOLDOWN_STUN] /\ sinceSkill' \in [Id -> 0 .. COOLDOWN_GLOBAL]
        /\ Clocks'
        /\ Class!IsAlive(component'[p]) /\ p \notin m_IsDead'
        /\ \A q \in Id \ {p} : component'[q] = component[q] /\ (q \in m_IsDead' <=> q \in m_IsDead)
    BY <2>1, FreshFacts
  <2>3. /\ m_CharacterList' \subseteq Id
        /\ \A q \in Id \ {p} : q \in m_CharacterList' <=> q \in m_CharacterList
    BY <1>1, <1>2 DEF HandleLoginRequest
  <2>4. ASSUME NEW q \in Id
        PROVE  /\ q \in m_IsDead' => ~Class!IsAlive(component'[q])
               /\ q \in m_CharacterList' /\ q \notin m_IsDead' => Class!IsAlive(component'[q])
    <3>1. CASE q = p
      BY <2>2, <3>1
    <3>2. CASE q \in Id \ {p}
      BY <2>2, <2>3, <3>2 DEF Inv, Noticed
    <3>3. QED
      BY <3>1, <3>2
  <2>5. QED
    BY <2>2, <2>3, <2>4 DEF Inv, Types, Noticed
<1>3. ASSUME NEW p \in Id, HandleGameStateRequest(p)
      PROVE  Inv'
  BY <1>3 DEF HandleGameStateRequest, Inv, Types, Clocks, Noticed
<1>4. ASSUME NEW p \in Id, Disconnect(p)
      PROVE  Inv'
  BY <1>4 DEF Disconnect, Inv, Types, Clocks, Noticed
<1>5. ASSUME NEW p \in Id, HandleAccelerationRequest(p)
      PROVE  Inv'
  <2> DEFINE d == [Class!UseFuel(component[p]) EXCEPT !.m_GlobalCooldown = COOLDOWN_GLOBAL]
  <2>1. /\ d \in Component /\ d.m_GlobalCooldown = COOLDOWN_GLOBAL
        /\ d.m_MovementControlCooldown = component[p].m_MovementControlCooldown /\ d.m_HP = component[p].m_HP
    <3>1. Class!MayGoForward(component[p]) /\ component[p] \in Component
      BY <1>1, <1>5 DEF HandleAccelerationRequest, SkillGoForward
    <3>2. QED
      BY <3>1, GoForwardFacts
  <2>2. component' = [component EXCEPT ![p] = d]
    BY <1>5 DEF HandleAccelerationRequest, SkillGoForward
  <2> HIDE DEF d
  <2>3. component' \in [Id -> Component] /\ component'[p] = d /\ \A q \in Id \ {p} : component'[q] = component[q]
    BY <1>1, <2>1, <2>2
  <2>4. /\ UNCHANGED <<m_CharacterList, m_IsDead, sinceStun>>
        /\ sinceSkill' \in [Id -> 0 .. COOLDOWN_GLOBAL] /\ sinceSkill'[p] = 0
        /\ \A q \in Id \ {p} : sinceSkill'[q] = sinceSkill[q]
    BY <1>1, <1>5 DEF HandleAccelerationRequest
  <2>5. Clocks'
    BY <1>1, <2>1, <2>3, <2>4 DEF Inv, Clocks
  <2>6. \A q \in Id : component'[q].m_HP = component[q].m_HP
    BY <2>1, <2>3
  <2>7. QED
    BY <1>1, <2>3, <2>4, <2>5, <2>6, SkillInv
<1>6. ASSUME NEW p \in Id, NEW type \in {"STOP", "ROTATION"}, HandleStopOrRotationRequest(p, type)
      PROVE  Inv'
  BY <1>6 DEF HandleStopOrRotationRequest, Inv, Types, Clocks, Noticed
<1>7. ASSUME NEW p \in Id, NEW target \in Id, SkillPush(p, target)
      PROVE  Inv'
  <2> DEFINE d == Class!SetCooldown(component[p], "PUSH")
             e == Stunned(component[target])
  <2>1. /\ d \in Component /\ d.m_GlobalCooldown = COOLDOWN_GLOBAL
        /\ d.m_MovementControlCooldown = component[p].m_MovementControlCooldown /\ d.m_HP = component[p].m_HP
    BY <1>1, SetCooldownFacts DEF Class!Skill
  <2>2. /\ e \in Component /\ e.m_GlobalCooldown = component[target].m_GlobalCooldown
        /\ e.m_MovementControlCooldown = COOLDOWN_STUN /\ e.m_HP = component[target].m_HP
    BY <1>1, StunnedFacts
  <2>3. p # target /\ component' = [component EXCEPT ![target] = e, ![p] = d]
    BY <1>1, <1>7 DEF SkillPush
  <2> HIDE DEF d, e
  <2>4. /\ component' \in [Id -> Component] /\ component'[p] = d /\ component'[target] = e
        /\ \A q \in Id \ {p, target} : component'[q] = component[q]
    BY <1>1, <2>1, <2>2, <2>3
  <2>5. /\ UNCHANGED <<m_CharacterList, m_IsDead>>
        /\ sinceSkill' \in [Id -> 0 .. COOLDOWN_GLOBAL] /\ sinceSkill'[p] = 0
        /\ \A q \in Id \ {p} : sinceSkill'[q] = sinceSkill[q]
        /\ sinceStun' \in [Id -> 0 .. COOLDOWN_STUN] /\ sinceStun'[target] = 0
        /\ \A q \in Id \ {target} : sinceStun'[q] = sinceStun[q]
    BY <1>1, <1>7 DEF SkillPush
  <2>6. Clocks'
    <3>1. ASSUME NEW q \in Id
          PROVE  /\ component'[q].m_MovementControlCooldown + sinceStun'[q] >= COOLDOWN_STUN
                 /\ component'[q].m_GlobalCooldown + sinceSkill'[q] >= COOLDOWN_GLOBAL
      <4>1. CASE q = p
        BY <2>1, <2>3, <2>4, <2>5, <4>1 DEF Inv, Clocks
      <4>2. CASE q = target
        BY <2>2, <2>3, <2>4, <2>5, <4>2 DEF Inv, Clocks
      <4>3. CASE q \in Id \ {p, target}
        BY <2>4, <2>5, <4>3 DEF Inv, Clocks
      <4>4. QED
        BY <4>1, <4>2, <4>3
    <3>2. QED
      BY <3>1 DEF Clocks
  <2>7. \A q \in Id : component'[q].m_HP = component[q].m_HP
    BY <2>1, <2>2, <2>4
  <2>8. QED
    BY <2>4, <2>5, <2>6, <2>7, SkillInv
<1>8. ASSUME NEW p \in Id, SkillGather(p)
      PROVE  Inv'
  <2> DEFINE b == Class!SetCooldown(component[p], "GATHER")
             d == [b EXCEPT !.m_Resource = b.m_Resource + DEBRIS_TO_RESOURCE_AMOUNT]
  <2>1. /\ b \in Component /\ b.m_GlobalCooldown = COOLDOWN_GLOBAL /\ b.m_Resource = component[p].m_Resource
        /\ b.m_MovementControlCooldown = component[p].m_MovementControlCooldown /\ b.m_HP = component[p].m_HP
    BY <1>1, SetCooldownFacts DEF Class!Skill
  <2>2. component' = [component EXCEPT ![p] = d]
    BY <1>8 DEF SkillGather, Gathered
  <2> HIDE DEF b
  <2>3. /\ d \in Component /\ d.m_GlobalCooldown = COOLDOWN_GLOBAL
        /\ d.m_MovementControlCooldown = component[p].m_MovementControlCooldown /\ d.m_HP = component[p].m_HP
    <3>1. b.m_Resource + DEBRIS_TO_RESOURCE_AMOUNT \in 0 .. MaxResource
      BY <1>1, <1>8, <2>1 DEF SkillGather, Component
    <3>2. QED
      BY <2>1, <3>1 DEF Component
  <2> HIDE DEF d
  <2>4. component' \in [Id -> Component] /\ component'[p] = d /\ \A q \in Id \ {p} : component'[q] = component[q]
    BY <1>1, <2>2, <2>3
  <2>5. /\ UNCHANGED <<m_CharacterList, m_IsDead, sinceStun>>
        /\ sinceSkill' \in [Id -> 0 .. COOLDOWN_GLOBAL] /\ sinceSkill'[p] = 0
        /\ \A q \in Id \ {p} : sinceSkill'[q] = sinceSkill[q]
    BY <1>1, <1>8 DEF SkillGather
  <2>6. Clocks'
    BY <1>1, <2>3, <2>4, <2>5 DEF Inv, Clocks
  <2>7. \A q \in Id : component'[q].m_HP = component[q].m_HP
    BY <2>3, <2>4
  <2>8. QED
    BY <1>1, <2>4, <2>5, <2>6, <2>7, SkillInv
<1>9. ASSUME NEW p \in Id, HandleRespawnRequest(p)
      PROVE  Inv'
  <2>1. Fresh(p)
    BY <1>9 DEF HandleRespawnRequest
  <2>2. /\ component' \in [Id -> Component] /\ m_IsDead' \subseteq Id
        /\ sinceStun' \in [Id -> 0 .. COOLDOWN_STUN] /\ sinceSkill' \in [Id -> 0 .. COOLDOWN_GLOBAL]
        /\ Clocks'
        /\ Class!IsAlive(component'[p]) /\ p \notin m_IsDead'
        /\ \A q \in Id \ {p} : component'[q] = component[q] /\ (q \in m_IsDead' <=> q \in m_IsDead)
    BY <2>1, FreshFacts
  <2>3. /\ m_CharacterList' \subseteq Id
        /\ \A q \in Id \ {p} : q \in m_CharacterList' <=> q \in m_CharacterList
    BY <1>1, <1>9 DEF HandleRespawnRequest
  <2>4. ASSUME NEW q \in Id
        PROVE  /\ q \in m_IsDead' => ~Class!IsAlive(component'[q])
               /\ q \in m_CharacterList' /\ q \notin m_IsDead' => Class!IsAlive(component'[q])
    <3>1. CASE q = p
      BY <2>2, <3>1
    <3>2. CASE q \in Id \ {p}
      BY <2>2, <2>3, <3>2 DEF Inv, Noticed
    <3>3. QED
      BY <3>1, <3>2
  <2>5. QED
    BY <2>2, <2>3, <2>4 DEF Inv, Types, Noticed
<1>10. ASSUME NEW dt \in TimeStep, NEW far \in SUBSET m_CharacterList, DoPeriodWork(dt, far)
       PROVE  Inv'
  <2>1. dt \in Nat
    BY Constants
  <2>2. ASSUME NEW p \in Id
        PROVE  /\ component'[p] \in Component
               /\ component'[p].m_MovementControlCooldown + dt >= component[p].m_MovementControlCooldown
               /\ component'[p].m_GlobalCooldown + dt >= component[p].m_GlobalCooldown
               /\ Class!IsAlive(component'[p]) => Class!IsAlive(component[p])
               /\ p \notin m_CharacterList => component'[p] = component[p]
    BY <1>10, PeriodFacts
  <2>3. component' \in [Id -> Component]
    <3>1. component' = [p \in Id |-> component'[p]]
      BY <1>10 DEF DoPeriodWork
    <3>2. QED
      BY <2>2, <3>1
  <2>4. /\ sinceStun' \in [Id -> 0 .. COOLDOWN_STUN] /\ sinceSkill' \in [Id -> 0 .. COOLDOWN_GLOBAL]
        /\ \A p \in Id : sinceStun'[p] = COOLDOWN_STUN \/ sinceStun'[p] = sinceStun[p] + dt
        /\ \A p \in Id : sinceSkill'[p] = COOLDOWN_GLOBAL \/ sinceSkill'[p] = sinceSkill[p] + dt
    <3>1. sinceStun' = Elapsed(sinceStun, dt, COOLDOWN_STUN) /\ sinceSkill' = Elapsed(sinceSkill, dt, COOLDOWN_GLOBAL)
      BY <1>10 DEF DoPeriodWork
    <3>2. QED
      BY <1>1, <2>1, <3>1, ElapsedFacts
  <2>5. Clocks'
    <3>1. ASSUME NEW p \in Id
          PROVE  /\ component'[p].m_MovementControlCooldown + sinceStun'[p] >= COOLDOWN_STUN
                 /\ component'[p].m_GlobalCooldown + sinceSkill'[p] >= COOLDOWN_GLOBAL
      <4>1. /\ component[p].m_MovementControlCooldown + sinceStun[p] >= COOLDOWN_STUN
            /\ component[p].m_GlobalCooldown + sinceSkill[p] >= COOLDOWN_GLOBAL
            /\ component[p] \in Component /\ component'[p] \in Component
            /\ sinceStun[p] \in Nat /\ sinceSkill[p] \in Nat
        <5>1. /\ component[p].m_MovementControlCooldown + sinceStun[p] >= COOLDOWN_STUN
              /\ component[p].m_GlobalCooldown + sinceSkill[p] >= COOLDOWN_GLOBAL
          BY DEF Inv, Clocks
        <5>2. component[p] \in Component /\ component'[p] \in Component
          BY <2>2 DEF Inv, Types
        <5>3. sinceStun[p] \in 0 .. COOLDOWN_STUN /\ sinceSkill[p] \in 0 .. COOLDOWN_GLOBAL
          BY DEF Inv, Types
        <5>4. QED
          BY <5>1, <5>2, <5>3, Constants
      <4>2. /\ component[p].m_MovementControlCooldown \in Nat /\ component'[p].m_MovementControlCooldown \in Nat
            /\ component[p].m_GlobalCooldown \in Nat /\ component'[p].m_GlobalCooldown \in Nat
        BY <4>1 DEF Component
      <4>3. QED
        BY <2>1, <2>2, <2>4, <4>1, <4>2
    <3>2. QED
      BY <3>1 DEF Clocks
  <2> DEFINE S == {p \in m_CharacterList \ m_IsDead : ~Class!IsAlive(component'[p])}
  <2>6. /\ m_IsDead' = m_IsDead \cup S /\ m_CharacterList' = m_CharacterList
    BY <1>10 DEF DoPeriodWork
  <2>7. Noticed'
    BY <1>1, <2>2, <2>6 DEF Noticed, Inv
  <2>8. QED
    BY <1>1, <2>3, <2>4, <2>5, <2>6, <2>7 DEF Inv, Types
<1>11. CASE UNCHANGED vars
  BY <1>11 DEF vars, Inv, Types, Clocks, Noticed
<1>12. QED
  BY <1>2, <1>3, <1>4, <1>5, <1>6, <1>7, <1>8, <1>9, <1>10, <1>11 DEF Next, Tick, Request

-----------------------------------------------------------------------------
(* Who moves is not stunned, and who uses a skill has waited long enough.  *)

LEMMA Silent ==
  ASSUME sent' = <<>>, NEW type, NEW p
  PROVE  ~Sends(type, p)'
BY DEF Sends

LEMMA SendsOne ==
  ASSUME NEW t, NEW q, NEW n, sent' = <<Result(t, q, n)>>, NEW type, NEW p, Sends(type, p)'
  PROVE  type = t /\ p = q
BY DEF Sends, Result

LEMMA SendsTwo ==
  ASSUME NEW t, NEW q, NEW n, NEW u, NEW r, NEW m, sent' = <<Result(t, q, n), Result(u, r, m)>>,
         NEW type, NEW p, Sends(type, p)'
  PROVE  (type = t /\ p = q) \/ (type = u /\ p = r)
<1>1. PICK i \in DOMAIN sent' : sent'[i].type = type /\ sent'[i].id = p
  BY DEF Sends
<1> DEFINE a == Result(t, q, n)
           b == Result(u, r, m)
<1>2. a.type = t /\ a.id = q /\ b.type = u /\ b.id = r
  BY DEF Result
<1>3. sent' = <<a, b>>
  OBVIOUS
<1> HIDE DEF a, b
<1>4. DOMAIN sent' = 1 .. 2 /\ sent'[1] = a /\ sent'[2] = b
  BY <1>3
<1>5. i = 1 \/ i = 2
  <2>1. i \in 1 .. 2
    BY <1>1, <1>4
  <2>2. QED
    BY <2>1
<1>6. sent'[i] = a \/ sent'[i] = b
  BY <1>4, <1>5
<1>7. QED
  BY <1>1, <1>2, <1>6

LEMMA SendsDead ==
  ASSUME NEW dt, NEW far, DoPeriodWork(dt, far), NEW type, NEW p, Sends(type, p)'
  PROVE  type = "DEAD"
<1> DEFINE S == {q \in m_CharacterList \ m_IsDead : ~Class!IsAlive(component'[q])}
<1>1. PICK order \in TheRoster!Ascending(S) :
        sent' = [i \in DOMAIN order |-> Result("DEAD", order[i], 0)]
  BY DEF DoPeriodWork
<1> HIDE DEF S
<1>2. PICK i \in DOMAIN sent' : sent'[i].type = type
  BY DEF Sends
<1>3. sent'[i].type = "DEAD"
  BY <1>1, <1>2 DEF Result
<1>4. QED
  BY <1>2, <1>3

LEMMA StunNext ==
  ASSUME Inv, Next, NEW p \in Id, sinceStun[p] < COOLDOWN_STUN
  PROVE  ~Sends("ACCELERATION", p)' /\ ~Sends("STOP", p)' /\ ~Sends("ROTATION", p)'
<1> DEFINE Moves == {"ACCELERATION", "STOP", "ROTATION"}
<1> SUFFICES ASSUME NEW type \in Moves, Sends(type, p)'
             PROVE  FALSE
  OBVIOUS
<1>1. ~Class!MayMove(component[p])
  <2>1. component[p].m_MovementControlCooldown + sinceStun[p] >= COOLDOWN_STUN
    BY DEF Inv, Clocks
  <2>2. sinceStun[p] \in Nat /\ component[p].m_MovementControlCooldown \in Nat
    BY Constants DEF Inv, Types, Component
  <2>3. QED
    BY <2>1, <2>2, Constants DEF Class!MayMove
<1>2. ASSUME NEW q \in Id, HandleLoginRequest(q) \/ Disconnect(q)
      PROVE  FALSE
  BY <1>2, Silent DEF HandleLoginRequest, Disconnect
<1>3. ASSUME NEW q \in Id, HandleGameStateRequest(q) \/ HandleRespawnRequest(q)
      PROVE  FALSE
  <2>1. type \in {"NEW", "RESPAWN"}
    BY <1>3, SendsOne DEF HandleGameStateRequest, HandleRespawnRequest
  <2>2. QED
    BY <2>1
<1>4. ASSUME NEW q \in Id, HandleAccelerationRequest(q)
      PROVE  FALSE
  <2>1. (type = "CHARACTER_STATE" /\ p = q) \/ (type = "ACCELERATION" /\ p = q)
    BY <1>4, SendsTwo DEF HandleAccelerationRequest, SkillGoForward
  <2>2. Class!MayMove(component[q])
    BY <1>4 DEF HandleAccelerationRequest, SkillGoForward, Class!MayGoForward
  <2>3. QED
    BY <1>1, <2>1, <2>2
<1>5. ASSUME NEW q \in Id, NEW t \in {"STOP", "ROTATION"}, HandleStopOrRotationRequest(q, t)
      PROVE  FALSE
  <2>1. p = q
    BY <1>5, SendsOne DEF HandleStopOrRotationRequest
  <2>2. QED
    BY <1>1, <1>5, <2>1 DEF HandleStopOrRotationRequest
<1>6. ASSUME NEW q \in Id, NEW target \in Id, SkillPush(q, target)
      PROVE  FALSE
  <2>1. type = "KINETIC_STATE" \/ type = "USING_SKILL"
    BY <1>6, SendsTwo DEF SkillPush
  <2>2. QED
    BY <2>1
<1>7. ASSUME NEW q \in Id, SkillGather(q)
      PROVE  FALSE
  <2>1. type = "GATHER" \/ type = "USING_SKILL"
    BY <1>7, SendsTwo DEF SkillGather
  <2>2. QED
    BY <2>1
<1>8. ASSUME NEW dt \in TimeStep, NEW far \in SUBSET m_CharacterList, DoPeriodWork(dt, far)
      PROVE  FALSE
  <2>1. type = "DEAD"
    BY <1>8, SendsDead
  <2>2. QED
    BY <2>1
<1>9. QED
  BY <1>2, <1>3, <1>4, <1>5, <1>6, <1>7, <1>8 DEF Next, Tick, Request

LEMMA CooldownNext ==
  ASSUME Inv, Next, NEW p \in Id, sinceSkill[p] < COOLDOWN_GLOBAL
  PROVE  ~Sends("ACCELERATION", p)' /\ ~Sends("USING_SKILL", p)'
<1> DEFINE Skills == {"ACCELERATION", "USING_SKILL"}
<1> SUFFICES ASSUME NEW type \in Skills, Sends(type, p)'
             PROVE  FALSE
  OBVIOUS
<1>1. component[p].m_GlobalCooldown # 0
  <2>1. component[p].m_GlobalCooldown + sinceSkill[p] >= COOLDOWN_GLOBAL
    BY DEF Inv, Clocks
  <2>2. sinceSkill[p] \in Nat /\ component[p].m_GlobalCooldown \in Nat
    BY Constants DEF Inv, Types, Component
  <2>3. QED
    BY <2>1, <2>2, Constants
<1>2. ASSUME NEW q \in Id, HandleLoginRequest(q) \/ Disconnect(q)
      PROVE  FALSE
  BY <1>2, Silent DEF HandleLoginRequest, Disconnect
<1>3. ASSUME NEW q \in Id, HandleGameStateRequest(q) \/ HandleRespawnRequest(q)
      PROVE  FALSE
  <2>1. type \in {"NEW", "RESPAWN"}
    BY <1>3, SendsOne DEF HandleGameStateRequest, HandleRespawnRequest
  <2>2. QED
    BY <2>1
<1>4. ASSUME NEW q \in Id, HandleAccelerationRequest(q)
      PROVE  FALSE
  <2>1. (type = "CHARACTER_STATE" /\ p = q) \/ (type = "ACCELERATION" /\ p = q)
    BY <1>4, SendsTwo DEF HandleAccelerationRequest, SkillGoForward
  <2>2. component[q].m_GlobalCooldown = 0
    BY <1>4 DEF HandleAccelerationRequest, SkillGoForward, Class!MayGoForward
  <2>3. QED
    BY <1>1, <2>1, <2>2
<1>5. ASSUME NEW q \in Id, NEW t \in {"STOP", "ROTATION"}, HandleStopOrRotationRequest(q, t)
      PROVE  FALSE
  <2>1. type = t
    BY <1>5, SendsOne DEF HandleStopOrRotationRequest
  <2>2. QED
    BY <2>1
<1>6. ASSUME NEW q \in Id, NEW target \in Id, SkillPush(q, target)
      PROVE  FALSE
  <2>1. (type = "KINETIC_STATE" /\ p = target) \/ (type = "USING_SKILL" /\ p = q)
    BY <1>6, SendsTwo DEF SkillPush
  <2>2. component[q].m_GlobalCooldown = 0
    BY <1>6 DEF SkillPush, Class!MayUse
  <2>3. QED
    BY <1>1, <2>1, <2>2
<1>7. ASSUME NEW q \in Id, SkillGather(q)
      PROVE  FALSE
  <2>1. (type = "GATHER" /\ p = q) \/ (type = "USING_SKILL" /\ p = q)
    BY <1>7, SendsTwo DEF SkillGather
  <2>2. component[q].m_GlobalCooldown = 0
    BY <1>7 DEF SkillGather, Class!MayUse
  <2>3. QED
    BY <1>1, <2>1, <2>2
<1>8. ASSUME NEW dt \in TimeStep, NEW far \in SUBSET m_CharacterList, DoPeriodWork(dt, far)
      PROVE  FALSE
  <2>1. type = "DEAD"
    BY <1>8, SendsDead
  <2>2. QED
    BY <2>1
<1>9. QED
  BY <1>2, <1>3, <1>4, <1>5, <1>6, <1>7, <1>8 DEF Next, Tick, Request

(* A pushed character stays out of control of its body for the whole stun. *)
THEOREM StunSafety == Spec => StunHolds
<1> DEFINE Held == \A p \in Id : sinceStun[p] < COOLDOWN_STUN =>
                     ~(Sends("ACCELERATION", p) \/ Sends("STOP", p) \/ Sends("ROTATION", p))'
<1>1. Inv /\ [Next]_vars => [Held]_vars
  <2> SUFFICES ASSUME Inv, Next
               PROVE  Held
    OBVIOUS
  <2>1. QED
    BY StunNext
<1>2. QED
  BY <1>1, InvInit, InvNext, PTL DEF Spec, StunHolds

(* Between two skills of a life lies the global cooldown.                  *)
THEOREM CooldownSafety == Spec => CooldownHolds
<1> DEFINE Held == \A p \in Id : sinceSkill[p] < COOLDOWN_GLOBAL =>
                     ~(Sends("ACCELERATION", p) \/ Sends("USING_SKILL", p))'
<1>1. Inv /\ [Next]_vars => [Held]_vars
  <2> SUFFICES ASSUME Inv, Next
               PROVE  Held
    OBVIOUS
  <2>1. QED
    BY CooldownNext
<1>2. QED
  BY <1>1, InvInit, InvNext, PTL DEF Spec, CooldownHolds

-----------------------------------------------------------------------------
(* Play refines Roster.                                                    *)
Announced(results) == Restrict(results, {i \in DOMAIN results : results[i].type \in RosterType})
Alive(c) == {p \in Id : Class!IsAlive(c[p])}
Fuel(c) == [p \in Id |-> c[p].m_Fuel]
Resource(c) == [p \in Id |-> c[p].m_Resource]

LEMMA AnnouncedNone == Announced(<<>>) = <<>>
BY DEF Announced, Restrict

LEMMA AnnouncedOne ==
  ASSUME NEW t, NEW p, NEW n
  PROVE  /\ t \in RosterType => Announced(<<Result(t, p, n)>>) = <<Result(t, p, n)>>
         /\ t \notin RosterType => Announced(<<Result(t, p, n)>>) = <<>>
<1> DEFINE r == Result(t, p, n)
           D == {i \in DOMAIN <<r>> : <<r>>[i].type \in RosterType}
<1>1. r.type = t
  BY DEF Result
<1> HIDE DEF r
<1>2. Announced(<<r>>) = [i \in D |-> <<r>>[i]]
  BY DEF Announced, Restrict
<1>3. ASSUME t \in RosterType
      PROVE  Announced(<<r>>) = <<r>>
  <2>1. D = {1}
    BY <1>1, <1>3
  <2>2. QED
    BY <1>2, <2>1
<1>4. ASSUME t \notin RosterType
      PROVE  Announced(<<r>>) = <<>>
  <2>1. D = {}
    BY <1>1, <1>4
  <2>2. QED
    BY <1>2, <2>1
<1>5. QED
  BY <1>3, <1>4 DEF r

LEMMA AnnouncedTwo ==
  ASSUME NEW t, NEW p, NEW n, NEW u, NEW q, NEW m, u \notin RosterType
  PROVE  /\ t \in RosterType => Announced(<<Result(t, p, n), Result(u, q, m)>>) = <<Result(t, p, n)>>
         /\ t \notin RosterType => Announced(<<Result(t, p, n), Result(u, q, m)>>) = <<>>
<1> DEFINE a == Result(t, p, n)
           b == Result(u, q, m)
           D == {i \in DOMAIN <<a, b>> : <<a, b>>[i].type \in RosterType}
<1>1. a.type = t /\ b.type = u
  BY DEF Result
<1> HIDE DEF a, b
<1>2. Announced(<<a, b>>) = [i \in D |-> <<a, b>>[i]]
  BY DEF Announced, Restrict
<1>3. ASSUME t \in RosterType
      PROVE  Announced(<<a, b>>) = <<a>>
  <2>1. D = {1}
    BY <1>1, <1>3
  <2>2. <<a, b>>[1] = a
    OBVIOUS
  <2>3. Announced(<<a, b>>) = [i \in {1} |-> a]
    BY <1>2, <2>1, <2>2
  <2>4. QED
    BY <2>3
<1>4. ASSUME t \notin RosterType
      PROVE  Announced(<<a, b>>) = <<>>
  <2>1. D = {}
    BY <1>1, <1>4
  <2> HIDE DEF D
  <2>2. QED
    BY <1>2, <2>1
<1>5. QED
  BY <1>3, <1>4 DEF a, b

LEMMA AnnouncedDead ==
  ASSUME NEW ids, NEW results, results = [i \in DOMAIN ids |-> Result("DEAD", ids[i], 0)]
  PROVE  Announced(results) = results
<1>1. \A i \in DOMAIN results : results[i].type \in RosterType
  BY DEF Result, RosterType
<1>2. {i \in DOMAIN results : results[i].type \in RosterType} = DOMAIN results
  BY <1>1
<1>3. QED
  BY <1>2 DEF Announced, Restrict

(* A change of one component changes at most its entries of the roster.    *)
Changed(c, e, p, d) == c \in [Id -> Component] /\ p \in Id /\ e = [c EXCEPT ![p] = d]

LEMMA OneChanged ==
  ASSUME NEW c, NEW e, NEW p, NEW d, Changed(c, e, p, d)
  PROVE  /\ Fuel(e) = [Fuel(c) EXCEPT ![p] = d.m_Fuel]
         /\ Resource(e) = [Resource(c) EXCEPT ![p] = d.m_Resource]
         /\ Class!IsAlive(d) => Alive(e) = Alive(c) \cup {p}
         /\ (Class!IsAlive(d) <=> Class!IsAlive(c[p])) => Alive(e) = Alive(c)
         /\ d.m_Fuel = c[p].m_Fuel => Fuel(e) = Fuel(c)
         /\ d.m_Resource = c[p].m_Resource => Resource(e) = Resource(c)
<1>1. c \in [Id -> Component] /\ p \in Id /\ e[p] = d /\ \A q \in Id \ {p} : e[q] = c[q]
  BY DEF Changed
<1>2. Fuel(e) = [Fuel(c) EXCEPT ![p] = d.m_Fuel]
  BY <1>1 DEF Fuel
<1>3. Resource(e) = [Resource(c) EXCEPT ![p] = d.m_Resource]
  BY <1>1 DEF Resource
<1>4. Class!IsAlive(d) => Alive(e) = Alive(c) \cup {p}
  BY <1>1 DEF Alive
<1>5. (Class!IsAlive(d) <=> Class!IsAlive(c[p])) => Alive(e) = Alive(c)
  BY <1>1 DEF Alive
<1>6. d.m_Fuel = c[p].m_Fuel => Fuel(e) = Fuel(c)
  BY <1>1 DEF Fuel
<1>7. d.m_Resource = c[p].m_Resource => Resource(e) = Resource(c)
  BY <1>1 DEF Resource
<1>8. QED
  BY <1>2, <1>3, <1>4, <1>5, <1>6, <1>7

LEMMA RosterNext == Inv /\ Inv' /\ [Next]_vars => [TheRoster!Next]_(TheRoster!vars)
<1> SUFFICES ASSUME Inv, Inv', [Next]_vars
             PROVE  [TheRoster!Next]_(TheRoster!vars)
  OBVIOUS
<1> USE Constants
<1>1. /\ m_CharacterList \subseteq Id /\ component \in [Id -> Component] /\ component' \in [Id -> Component]
  BY DEF Inv, Types
<1> DEFINE Same == UNCHANGED <<m_CharacterList, Alive(component), Fuel(component), Resource(component)>>
<1>2. ASSUME NEW p \in Id, Fresh(p)
      PROVE  /\ Alive(component)' = Alive(component) \cup {p}
             /\ Fuel(component)' = [Fuel(component) EXCEPT ![p] = DEFAULT_FUEL]
             /\ Resource(component)' = [Resource(component) EXCEPT ![p] = 0]
  <2>1. component' = [component EXCEPT ![p] = Class!Create]
    BY <1>2 DEF Fresh
  <2>2. Class!Create.m_Fuel = DEFAULT_FUEL /\ Class!Create.m_Resource = 0 /\ Class!IsAlive(Class!Create)
    BY CreateFacts DEF Class!Create
  <2>3. Changed(component, component', p, Class!Create)
    BY <1>1, <2>1 DEF Changed
  <2> DEFINE d == Class!Create
  <2> HIDE DEF d
  <2>4. /\ Alive(component') = Alive(component) \cup {p}
        /\ Fuel(component') = [Fuel(component) EXCEPT ![p] = d.m_Fuel]
        /\ Resource(component') = [Resource(component) EXCEPT ![p] = d.m_Resource]
    BY <2>2, <2>3, OneChanged DEF d
  <2>5. QED
    BY <2>2, <2>4 DEF d
<1>3. ASSUME NEW p \in Id, HandleLoginRequest(p)
      PROVE  TheRoster!Next
  <2>1. Announced(sent)' = <<>>
    BY <1>3, AnnouncedNone DEF HandleLoginRequest
  <2>2. TheRoster!Join(p)
    BY <1>2, <1>3, <2>1 DEF HandleLoginRequest, TheRoster!Join, Alive, Fuel, Resource, Announced
  <2>3. QED
    BY <2>2 DEF TheRoster!Next
<1>4. ASSUME NEW p \in Id, HandleGameStateRequest(p)
      PROVE  TheRoster!Next
  <2>1. Announced(sent)' = <<Result("NEW", p, 0)>>
    BY <1>4, AnnouncedOne DEF HandleGameStateRequest, RosterType
  <2>2. TheRoster!Introduce(p)
    BY <1>4, <2>1 DEF HandleGameStateRequest, TheRoster!Introduce, TheRoster!Result, Result, Announced
  <2>3. QED
    BY <2>2 DEF TheRoster!Next
<1>5. ASSUME NEW p \in Id, Disconnect(p)
      PROVE  TheRoster!Next
  <2>1. Announced(sent)' = <<>>
    BY <1>5, AnnouncedNone DEF Disconnect
  <2>2. TheRoster!Leave(p)
    BY <1>5, <2>1 DEF Disconnect, TheRoster!Leave, Announced
  <2>3. QED
    BY <2>2 DEF TheRoster!Next
<1>6. ASSUME NEW p \in Id, HandleAccelerationRequest(p)
      PROVE  TheRoster!Next
  <2> DEFINE d == [Class!UseFuel(component[p]) EXCEPT !.m_GlobalCooldown = COOLDOWN_GLOBAL]
             n == Class!UseFuel(component[p]).m_Fuel
  <2>1. component' = [component EXCEPT ![p] = d]
    BY <1>6 DEF HandleAccelerationRequest, SkillGoForward
  <2>2. /\ d.m_Fuel = n /\ n \in 0 .. component[p].m_Fuel
        /\ d.m_Resource = component[p].m_Resource /\ d.m_HP = component[p].m_HP
    <3>1. Class!MayGoForward(component[p]) /\ component[p] \in Component
      BY <1>1, <1>6 DEF HandleAccelerationRequest, SkillGoForward
    <3>2. QED
      BY <3>1, GoForwardFacts
  <2>3. sent' = <<Result("CHARACTER_STATE", p, n), Result("ACCELERATION", p, 0)>>
    BY <1>6 DEF HandleAccelerationRequest, SkillGoForward
  <2> HIDE DEF d, n
  <2>4. Announced(sent)' = <<Result("CHARACTER_STATE", p, n)>>
    BY <2>3, AnnouncedTwo DEF RosterType
  <2>5. /\ Fuel(component)' = [Fuel(component) EXCEPT ![p] = n]
        /\ Resource(component)' = Resource(component) /\ Alive(component)' = Alive(component)
    <3>1. Changed(component, component', p, d)
      BY <1>1, <2>1 DEF Changed
    <3>2. Class!IsAlive(d) <=> Class!IsAlive(component[p])
      BY <2>2 DEF Class!IsAlive
    <3>3. QED
      BY <2>2, <3>1, <3>2, OneChanged
  <2>6. n \in 0 .. Fuel(component)[p] /\ Fuel(component)'[p] = n
    BY <2>2, <2>5 DEF Fuel
  <2>7. p \in m_CharacterList /\ UNCHANGED m_CharacterList
    BY <1>6 DEF HandleAccelerationRequest
  <2>8. TheRoster!Spend(p)
    BY <2>4, <2>5, <2>6, <2>7 DEF TheRoster!Spend, TheRoster!Result, Result, Alive, Fuel, Resource, Announced
  <2>9. QED
    BY <2>8 DEF TheRoster!Next
<1>7. ASSUME NEW p \in Id, NEW type \in {"STOP", "ROTATION"}, HandleStopOrRotationRequest(p, type)
      PROVE  TheRoster!Next
  <2>1. Announced(sent)' = <<>>
    BY <1>7, AnnouncedOne DEF HandleStopOrRotationRequest, RosterType
  <2>2. TheRoster!Quiet
    BY <1>7, <2>1 DEF HandleStopOrRotationRequest, TheRoster!Quiet, Announced
  <2>3. QED
    BY <2>2 DEF TheRoster!Next
<1>8. ASSUME NEW p \in Id, NEW target \in Id, SkillPush(p, target)
      PROVE  TheRoster!Next
  <2> DEFINE d == Class!SetCooldown(component[p], "PUSH")
             e == Stunned(component[target])
             c == [component EXCEPT ![target] = e]
  <2>1. d \in Component /\ d.m_Fuel = component[p].m_Fuel /\ d.m_Resource = component[p].m_Resource /\ d.m_HP = component[p].m_HP
    BY <1>1, SetCooldownFacts DEF Class!Skill
  <2>2. e \in Component /\ e.m_Fuel = component[target].m_Fuel /\ e.m_Resource = component[target].m_Resource /\ e.m_HP = component[target].m_HP
    BY <1>1, StunnedFacts
  <2>3. p # target /\ component' = [component EXCEPT ![target] = e, ![p] = d]
    BY <1>1, <1>8 DEF SkillPush
  <2>4. Announced(sent)' = <<>>
    BY <1>8, AnnouncedTwo DEF SkillPush, RosterType
  <2> HIDE DEF d, e
  <2>5. \A q \in Id : /\ component'[q].m_Fuel = component[q].m_Fuel /\ component'[q].m_Resource = component[q].m_Resource
                      /\ component'[q].m_HP = component[q].m_HP
    <3>1. component'[p] = d /\ component'[target] = e /\ \A q \in Id \ {p, target} : component'[q] = component[q]
      BY <1>1, <2>3
    <3>2. QED
      BY <2>1, <2>2, <3>1
  <2>6. Alive(component)' = Alive(component) /\ Fuel(component)' = Fuel(component) /\ Resource(component)' = Resource(component)
    BY <2>5 DEF Alive, Fuel, Resource, Class!IsAlive
  <2>7. TheRoster!Quiet
    BY <1>8, <2>4, <2>6 DEF SkillPush, TheRoster!Quiet, Alive, Fuel, Resource, Announced
  <2>8. QED
    BY <2>7 DEF TheRoster!Next
<1>9. ASSUME NEW p \in Id, SkillGather(p)
      PROVE  TheRoster!Next
  <2> DEFINE d == Gathered(component[p])
             n == component[p].m_Resource + DEBRIS_TO_RESOURCE_AMOUNT
  <2>1. d.m_Resource = n /\ d.m_Fuel = component[p].m_Fuel /\ d.m_HP = component[p].m_HP
    <3> DEFINE b == Class!SetCooldown(component[p], "GATHER")
    <3>1. b \in Component /\ b.m_Resource = component[p].m_Resource /\ b.m_Fuel = component[p].m_Fuel /\ b.m_HP = component[p].m_HP
      BY <1>1, SetCooldownFacts DEF Class!Skill
    <3>2. d = [b EXCEPT !.m_Resource = b.m_Resource + DEBRIS_TO_RESOURCE_AMOUNT]
      BY DEF Gathered
    <3> HIDE DEF b, d
    <3>3. QED
      BY <3>1, <3>2 DEF Component
  <2>2. component' = [component EXCEPT ![p] = d] /\ p \in m_CharacterList /\ UNCHANGED m_CharacterList /\ n <= MaxResource
    BY <1>9 DEF SkillGather
  <2>3. sent' = <<Result("GATHER", p, component'[p].m_Resource), Result("USING_SKILL", p, 0)>>
    BY <1>9 DEF SkillGather
  <2> HIDE DEF d
  <2>4. /\ Resource(component)' = [Resource(component) EXCEPT ![p] = n]
        /\ Fuel(component)' = Fuel(component) /\ Alive(component)' = Alive(component)
    <3>1. Changed(component, component', p, d)
      BY <1>1, <2>2 DEF Changed
    <3>2. Class!IsAlive(d) <=> Class!IsAlive(component[p])
      BY <2>1 DEF Class!IsAlive
    <3>3. QED
      BY <2>1, <3>1, <3>2, OneChanged
  <2>5. n \in Resource(component)[p] .. MaxResource /\ Resource(component)'[p] = component'[p].m_Resource
    <3>1. Resource(component)[p] = component[p].m_Resource /\ component[p].m_Resource \in Nat
      BY <1>1 DEF Resource, Component
    <3>2. Resource(component)'[p] = component'[p].m_Resource
      BY DEF Resource
    <3>3. QED
      BY <2>2, <3>1, <3>2
  <2>6. Announced(sent)' = <<Result("GATHER", p, component'[p].m_Resource)>>
    BY <2>3, AnnouncedTwo DEF RosterType
  <2> HIDE DEF n
  <2>7. TheRoster!Gather(p)
    BY <2>2, <2>4, <2>5, <2>6 DEF TheRoster!Gather, TheRoster!Result, Result, Alive, Fuel, Resource, Announced
  <2>8. QED
    BY <2>7 DEF TheRoster!Next
<1>10. ASSUME NEW p \in Id, HandleRespawnRequest(p)
       PROVE  TheRoster!Next
  <2>1. Announced(sent)' = <<Result("RESPAWN", p, 0)>>
    BY <1>10, AnnouncedOne DEF HandleRespawnRequest, RosterType
  <2>2. TheRoster!Respawn(p)
    BY <1>2, <1>10, <2>1 DEF HandleRespawnRequest, TheRoster!Respawn, TheRoster!Result, Result, Alive, Fuel, Resource, Announced
  <2>3. QED
    BY <2>2 DEF TheRoster!Next
<1>11. ASSUME NEW dt \in TimeStep, NEW far \in SUBSET m_CharacterList, DoPeriodWork(dt, far)
       PROVE  TheRoster!Next
  <2> DEFINE S == {p \in m_CharacterList \ m_IsDead : ~Class!IsAlive(component'[p])}
  <2>1. PICK order \in TheRoster!Ascending(S) :
          /\ m_CharacterList' = m_CharacterList
          /\ sent' = [i \in DOMAIN order |-> Result("DEAD", order[i], 0)]
    BY <1>11 DEF DoPeriodWork
  <2>2. ASSUME NEW p \in Id
        PROVE  /\ component'[p].m_Fuel = component[p].m_Fuel /\ component'[p].m_Resource = component[p].m_Resource
               /\ Class!IsAlive(component'[p]) => Class!IsAlive(component[p])
               /\ p \notin m_CharacterList \/ ~Class!IsAlive(component[p]) => component'[p] = component[p]
    BY <1>11, PeriodFacts
  <2>3. S \in SUBSET Id /\ S \subseteq m_CharacterList \cap Alive(component)
    BY <1>1 DEF Alive, Inv, Noticed
  <2>4. Alive(component)' = Alive(component) \ S
    BY <1>1, <2>2 DEF Alive, Inv, Noticed
  <2>5. Fuel(component)' = Fuel(component) /\ Resource(component)' = Resource(component)
    BY <2>2 DEF Fuel, Resource
  <2> HIDE DEF S
  <2>6. Announced(sent)' = sent'
    BY <2>1, AnnouncedDead
  <2>7. TheRoster!Die(S)
    BY <2>1, <2>3, <2>4, <2>5, <2>6 DEF TheRoster!Die, TheRoster!Result, Result, Alive, Fuel, Resource, Announced
  <2>8. QED
    BY <2>3, <2>7 DEF TheRoster!Next
<1>12. CASE UNCHANGED vars
  BY <1>12 DEF vars, TheRoster!vars
<1>13. QED
  BY <1>3, <1>4, <1>5, <1>6, <1>7, <1>8, <1>9, <1>10, <1>11, <1>12 DEF Next, Tick, Request

(* Every change of life, fuel and resource is broadcast when it happens,   *)
(* and each death once in a life.                                          *)
THEOREM Implementation == Spec => ImplementsRoster
<1>1. Init => TheRoster!Init
  <2> SUFFICES ASSUME Init
               PROVE  TheRoster!Init
    OBVIOUS
  <2>1. \A p \in Id : component[p] = Class!Create
    BY DEF Init
  <2>2. Class!Create.m_Fuel = DEFAULT_FUEL /\ Class!Create.m_Resource = 0 /\ Class!IsAlive(Class!Create)
    BY CreateFacts DEF Class!Create
  <2>3. Alive(component) = Id /\ Fuel(component) = [p \in Id |-> DEFAULT_FUEL] /\ Resource(component) = [p \in Id |-> 0]
    BY <2>1, <2>2 DEF Alive, Fuel, Resource
  <2>4. Announced(sent) = <<>>
    BY AnnouncedNone DEF Init
  <2>5. QED
    BY <2>3, <2>4 DEF Init, TheRoster!Init, Alive, Fuel, Resource, Announced
<1>2. QED
  BY <1>1, InvInit, InvNext, RosterNext, PTL DEF Spec, ImplementsRoster, TheRoster!Spec
=============================================================================
