-------------------------------- MODULE Play --------------------------------
(***************************************************************************)
(* The rules of play on the server: what the requests of the players and   *)
(* the passing of time do to their characters, and what is broadcast.      *)
(*                                                                         *)
(* Handlers and timer work run in one thread.  Where the characters are is *)
(* not part of the state: whom a push or a gather hits, and who is farther *)
(* out than MAX_DISTANCE_FROM_ORIGIN, is a choice (Motion has the bodies). *)
(* A client the broadcasts disconnect leaves in a step of its own.         *)
(***************************************************************************)
EXTENDS Integers, Sequences, FiniteSetsExt, SequencesExt

CONSTANTS
  Id,            \* the players' ids
  DEFAULT_OXYGEN, DEFAULT_FUEL, DEFAULT_HP,
  OXYGEN_CONSUMPTION, HEALTH_REDUCED_BY_OXYGEN_INSUFFICIENT,
  FUEL_FOR_GOFORWARD, DEBRIS_TO_RESOURCE_AMOUNT,
  COOLDOWN_GLOBAL, COOLDOWN_STUN, SKILL_COOLDOWN_TABLE,
  TimeStep,      \* the values of dt in Update
  MaxResource    \* bound on what a player gathers

VARIABLES
  m_CharacterList, \* the ids in use
  component,       \* the class component of each character
  m_IsDead,        \* the characters whose death was noticed
  sent,            \* the results broadcast in the last step
  sinceStun,       \* time since the character was last pushed, up to COOLDOWN_STUN
  sinceSkill       \* time since it last used a skill, up to COOLDOWN_GLOBAL

vars == <<m_CharacterList, component, m_IsDead, sent, sinceStun, sinceSkill>>

Class == INSTANCE ClassComponentOps

ASSUME PlayAssumption ==
  /\ Id \cup TimeStep \subseteq Nat
  /\ {DEFAULT_OXYGEN, DEFAULT_FUEL, FUEL_FOR_GOFORWARD, COOLDOWN_GLOBAL, COOLDOWN_STUN,
      OXYGEN_CONSUMPTION, DEBRIS_TO_RESOURCE_AMOUNT, MaxResource} \subseteq Nat
  /\ {DEFAULT_HP, HEALTH_REDUCED_BY_OXYGEN_INSUFFICIENT} \subseteq Nat \ {0}
  /\ SKILL_COOLDOWN_TABLE \in [Class!Skill -> Nat]

Result(type, p, n) == [type |-> type, id |-> p, value |-> n]
RosterType == {"NEW", "CHARACTER_STATE", "GATHER", "DEAD", "RESPAWN"}
OtherType == {"ACCELERATION", "STOP", "ROTATION", "KINETIC_STATE", "USING_SKILL"}

(* The results the roster speaks of go out before all others.              *)
TheRoster == INSTANCE Roster
  WITH playing  <- m_CharacterList,
       alive    <- {p \in Id : Class!IsAlive(component[p])},
       fuel     <- [p \in Id |-> component[p].m_Fuel],
       resource <- [p \in Id |-> component[p].m_Resource],
       sent     <- Restrict(sent, {i \in DOMAIN sent : sent[i].type \in RosterType})

Init ==
  /\ m_CharacterList = {}
  /\ component = [p \in Id |-> Class!Create] /\ m_IsDead = {}
  /\ sent = <<>>
  /\ sinceStun = [p \in Id |-> COOLDOWN_STUN]
  /\ sinceSkill = [p \in Id |-> COOLDOWN_GLOBAL]

(* A new character, of a login or a respawn, has no history.               *)
Fresh(p) ==
  /\ component' = [component EXCEPT ![p] = Class!Create]
  /\ m_IsDead' = m_IsDead \ {p}
  /\ sinceStun' = [sinceStun EXCEPT ![p] = COOLDOWN_STUN]
  /\ sinceSkill' = [sinceSkill EXCEPT ![p] = COOLDOWN_GLOBAL]

-----------------------------------------------------------------------------
(* The handlers of a session whose mPlayerId is p.                         *)

HandleLoginRequest(p) ==
  /\ p \notin m_CharacterList /\ m_CharacterList' = m_CharacterList \cup {p}
  /\ Fresh(p) /\ sent' = <<>>

HandleGameStateRequest(p) ==
  /\ p \in m_CharacterList
  /\ sent' = <<Result("NEW", p, 0)>>
  /\ UNCHANGED <<m_CharacterList, component, m_IsDead, sinceStun, sinceSkill>>

Disconnect(p) ==
  /\ p \in m_CharacterList /\ m_CharacterList' = m_CharacterList \ {p}
  /\ sent' = <<>>
  /\ UNCHANGED <<component, m_IsDead, sinceStun, sinceSkill>>

(* The state goes out before the cooldown is set: clients get the old one. *)
SkillGoForward(p) ==
  /\ Class!MayGoForward(component[p])
  /\ component' = [component EXCEPT ![p] =
                     [Class!UseFuel(@) EXCEPT !.m_GlobalCooldown = COOLDOWN_GLOBAL]]
  /\ sent' = <<Result("CHARACTER_STATE", p, Class!UseFuel(component[p]).m_Fuel),
               Result("ACCELERATION", p, 0)>>

HandleAccelerationRequest(p) ==
  /\ p \in m_CharacterList /\ SkillGoForward(p)
  /\ sinceSkill' = [sinceSkill EXCEPT ![p] = 0]
  /\ UNCHANGED <<m_CharacterList, m_IsDead, sinceStun>>

(* SkillStop and SkillTurnBody leave the component alone.                  *)
HandleStopOrRotationRequest(p, type) ==
  /\ p \in m_CharacterList /\ Class!MayMove(component[p])
  /\ sent' = <<Result(type, p, 0)>>
  /\ UNCHANGED <<m_CharacterList, component, m_IsDead, sinceStun, sinceSkill>>

(* Mutant: the target is not stunned.                                      *)
Stunned_Not(c) == c
Stunned(c) == [c EXCEPT !.m_MovementControlCooldown = COOLDOWN_STUN]

SkillPush(p, target) ==
  /\ p \in m_CharacterList /\ target \in m_CharacterList \ {p}
  /\ Class!MayUse(component[p], "PUSH")
  /\ component' = [component EXCEPT ![target] = Stunned(@),
                                    ![p] = Class!SetCooldown(@, "PUSH")]
  /\ sent' = <<Result("KINETIC_STATE", target, 0), Result("USING_SKILL", p, 0)>>
  /\ sinceStun' = [sinceStun EXCEPT ![target] = 0]
  /\ sinceSkill' = [sinceSkill EXCEPT ![p] = 0]
  /\ UNCHANGED <<m_CharacterList, m_IsDead>>

(* The debris stays where it is; it can be gathered again.                 *)
Gathered(c) ==
  [Class!SetCooldown(c, "GATHER") EXCEPT !.m_Resource = @ + DEBRIS_TO_RESOURCE_AMOUNT]

SkillGather(p) ==
  /\ p \in m_CharacterList /\ Class!MayUse(component[p], "GATHER")
  /\ component[p].m_Resource + DEBRIS_TO_RESOURCE_AMOUNT <= MaxResource
  /\ component' = [component EXCEPT ![p] = Gathered(@)]
  /\ sent' = <<Result("GATHER", p, component'[p].m_Resource), Result("USING_SKILL", p, 0)>>
  /\ sinceSkill' = [sinceSkill EXCEPT ![p] = 0]
  /\ UNCHANGED <<m_CharacterList, m_IsDead, sinceStun>>

(* Mutant: a death noticed before the respawn stays noticed.               *)
HandleRespawnRequest_StaysDead(p) ==
  /\ p \in m_CharacterList
  /\ component' = [component EXCEPT ![p] = Class!Create]
  /\ sinceStun' = [sinceStun EXCEPT ![p] = COOLDOWN_STUN]
  /\ sinceSkill' = [sinceSkill EXCEPT ![p] = COOLDOWN_GLOBAL]
  /\ sent' = <<Result("RESPAWN", p, 0)>>
  /\ UNCHANGED <<m_CharacterList, m_IsDead>>

(* Nobody asks whether the character is dead.                              *)
HandleRespawnRequest(p) ==
  /\ p \in m_CharacterList /\ Fresh(p)
  /\ sent' = <<Result("RESPAWN", p, 0)>>
  /\ UNCHANGED m_CharacterList

-----------------------------------------------------------------------------
(* DoPeriodWork: the dead are passed over; outside of the range there is   *)
(* no oxygen; deaths nobody noticed before are broadcast.                  *)

Elapsed(since, dt, limit) == [p \in Id |-> Min({since[p] + dt, limit})]

UpdateItSelf(c, dt, far) ==
  IF ~Class!IsAlive(c) THEN c
  ELSE Class!Update(IF far THEN [c EXCEPT !.m_Oxygen = 0] ELSE c, dt)

DoPeriodWork(dt, far) ==
  /\ component' = [p \in Id |-> IF p \in m_CharacterList
                                THEN UpdateItSelf(component[p], dt, p \in far)
                                ELSE component[p]]
  /\ LET m_DeadPlayers == {p \in m_CharacterList \ m_IsDead : ~Class!IsAlive(component'[p])}
     IN  /\ m_IsDead' = m_IsDead \cup m_DeadPlayers
         /\ \E order \in TheRoster!Ascending(m_DeadPlayers) :
              sent' = [i \in DOMAIN order |-> Result("DEAD", order[i], 0)]
  /\ sinceStun' = Elapsed(sinceStun, dt, COOLDOWN_STUN)
  /\ sinceSkill' = Elapsed(sinceSkill, dt, COOLDOWN_GLOBAL)
  /\ UNCHANGED m_CharacterList

Tick == \E dt \in TimeStep, far \in SUBSET m_CharacterList : DoPeriodWork(dt, far)

Request(p) ==
  \/ HandleLoginRequest(p) \/ HandleGameStateRequest(p) \/ Disconnect(p)
  \/ HandleAccelerationRequest(p)
  \/ \E type \in {"STOP", "ROTATION"} : HandleStopOrRotationRequest(p, type)
  \/ \E target \in Id : SkillPush(p, target)
  \/ SkillGather(p) \/ HandleRespawnRequest(p)

Next == Tick \/ \E p \in Id : Request(p)

Spec == Init /\ [][Next]_vars

(* The timer of the client-handling thread keeps firing, and time passes.  *)
LiveSpec == Spec /\ WF_vars(\E dt \in TimeStep \ {0}, far \in SUBSET m_CharacterList :
                              DoPeriodWork(dt, far))

-----------------------------------------------------------------------------
Component ==
  [ m_Oxygen : 0 .. DEFAULT_OXYGEN, m_Fuel : 0 .. DEFAULT_FUEL, m_HP : 0 .. DEFAULT_HP,
    m_Resource : 0 .. MaxResource, m_GlobalCooldown : 0 .. COOLDOWN_GLOBAL,
    m_CooldownTable : [Class!Skill -> Nat], m_MovementControlCooldown : 0 .. COOLDOWN_STUN ]

TypeOK ==
  /\ m_CharacterList \subseteq Id /\ m_IsDead \subseteq Id
  /\ component \in [Id -> Component]
  /\ \A i \in DOMAIN sent : sent[i].type \in RosterType \cup OtherType /\ sent[i].id \in Id
  /\ sinceStun \in [Id -> 0 .. COOLDOWN_STUN] /\ sinceSkill \in [Id -> 0 .. COOLDOWN_GLOBAL]

(* Every change of life, fuel and resource is broadcast when it happens,   *)
(* and each death exactly once, however deaths, respawns, departures and   *)
(* the reuse of ids alternate.                                             *)
ImplementsRoster == TheRoster!Spec

Sends(type, p) == \E i \in DOMAIN sent : sent[i].type = type /\ sent[i].id = p

(* A pushed character is out of control of its body for the whole stun:    *)
(* until then it neither accelerates, stops nor turns, unless it respawns. *)
StunHolds ==
  [][\A p \in Id : sinceStun[p] < COOLDOWN_STUN =>
       ~(Sends("ACCELERATION", p) \/ Sends("STOP", p) \/ Sends("ROTATION", p))']_vars

(* Between two skills of a life lies the global cooldown, whichever they   *)
(* are.                                                                    *)
CooldownHolds ==
  [][\A p \in Id : sinceSkill[p] < COOLDOWN_GLOBAL =>
       ~(Sends("ACCELERATION", p) \/ Sends("USING_SKILL", p))']_vars

(* Nothing gives oxygen back: whoever stays and does not ask for a respawn *)
(* again and again is dead in the end.                                     *)
LivesEnd ==
  \A p \in Id : <>[](p \in m_CharacterList) =>
    \/ []<><<HandleRespawnRequest(p)>>_vars
    \/ <>[]~Class!IsAlive(component[p])
=============================================================================
