-------------------------- MODULE ClassComponentOps --------------------------
(***************************************************************************)
(* class ClassComponent of GameLogic, with its one subclass Engineer: what *)
(* a character has left and when it may act again.  The floats are natural *)
(* numbers here; a quantity the code keeps from falling below 0 ends at 0. *)
(***************************************************************************)
EXTENDS Integers

CONSTANTS
  DEFAULT_OXYGEN, DEFAULT_FUEL, DEFAULT_HP,
  OXYGEN_CONSUMPTION, HEALTH_REDUCED_BY_OXYGEN_INSUFFICIENT,
  FUEL_FOR_GOFORWARD, DEBRIS_TO_RESOURCE_AMOUNT,
  COOLDOWN_GLOBAL, COOLDOWN_STUN,
  SKILL_COOLDOWN_TABLE   \* of the skills of an Engineer

Skill == {"PUSH", "GATHER"}

Positive(n) == IF n < 0 THEN 0 ELSE n

Create ==
  [ m_Oxygen |-> DEFAULT_OXYGEN, m_Fuel |-> DEFAULT_FUEL, m_HP |-> DEFAULT_HP,
    m_Resource |-> 0, m_GlobalCooldown |-> 0,
    m_CooldownTable |-> [skill \in Skill |-> 0], m_MovementControlCooldown |-> 0 ]

IsAlive(c) == c.m_HP > 0

(* Mutant: without enough oxygen nothing happens.                          *)
UseOxygen_NoHarm(c, n) ==
  IF n > c.m_Oxygen THEN c ELSE [c EXCEPT !.m_Oxygen = @ - n]

(* Without enough oxygen it is health that goes down.                      *)
UseOxygen(c, n) ==
  IF n > c.m_Oxygen
  THEN [c EXCEPT !.m_HP = Positive(@ - HEALTH_REDUCED_BY_OXYGEN_INSUFFICIENT)]
  ELSE [c EXCEPT !.m_Oxygen = @ - n]

Update(c, dt) ==
  [UseOxygen(c, dt * OXYGEN_CONSUMPTION) EXCEPT
     !.m_MovementControlCooldown = Positive(@ - dt),
     !.m_GlobalCooldown = Positive(@ - dt),
     !.m_CooldownTable = [skill \in Skill |-> Positive(@[skill] - dt)]]

(* SkillStop and SkillTurnBody ask for no more than this.                  *)
MayMove(c) == c.m_MovementControlCooldown = 0

MayGoForward(c) ==
  MayMove(c) /\ c.m_GlobalCooldown = 0 /\ FUEL_FOR_GOFORWARD <= c.m_Fuel

UseFuel(c) == [c EXCEPT !.m_Fuel = @ - FUEL_FOR_GOFORWARD]

MayUse(c, skill) == c.m_GlobalCooldown = 0 /\ c.m_CooldownTable[skill] = 0

(* Mutant: only the skill's own cooldown is set.                           *)
SetCooldown_NotGlobal(c, skill) ==
  [c EXCEPT !.m_CooldownTable[skill] = SKILL_COOLDOWN_TABLE[skill]]

SetCooldown(c, skill) ==
  [c EXCEPT !.m_GlobalCooldown = COOLDOWN_GLOBAL,
            !.m_CooldownTable[skill] = SKILL_COOLDOWN_TABLE[skill]]
=============================================================================
