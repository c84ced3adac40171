------------------------------ MODULE Effects ------------------------------
(***************************************************************************)
(* The particle effects of the client: the fireworks the environment       *)
(* manager plays by turns, the particles they are made of, and the ring of *)
(* segments of a vertex buffer through which RenderItSelf hands them to    *)
(* the graphics card.                                                      *)
(*                                                                         *)
(* The card draws later, in the order of the calls and from the memory as  *)
(* it is then: `pending` holds the draws it has not done.  Where particles *)
(* fly to is left out; a particle is drawn as its place in the list and    *)
(* its age.                                                                *)
(***************************************************************************)
EXTENDS Integers, Sequences, FiniteSets, SequencesExt

CONSTANTS
  EffectType,               \* the kinds of fireworks; only "EXPLOSION" is played
  PARTICLE_EFFECT_BUFFER,   \* fireworks of each kind
  NUMBER_OF_PARTICLES, NUMBER_OF_DS_PARTICLES,
  LIFETIME, DS_LIFETIME,
  m_VBSize, m_VBBatchSize   \* particles in a vertex buffer and in a segment of it

(* The segments fill the buffer, or the last lock would leave it.          *)
ASSUME EffectsAssumption ==
  /\ IsFiniteSet(EffectType)
  /\ {PARTICLE_EFFECT_BUFFER, m_VBSize, m_VBBatchSize} \subseteq Nat \ {0}
  /\ {NUMBER_OF_PARTICLES, NUMBER_OF_DS_PARTICLES, LIFETIME, DS_LIFETIME} \subseteq Nat
  /\ m_VBSize % m_VBBatchSize = 0

Firework == EffectType \X (0 .. PARTICLE_EFFECT_BUFFER - 1)
Snow == <<"DEBRIS_STRIKE", 0>>
System == Firework \cup {Snow}

VARIABLES
  m_Particles,                   \* of each system
  m_VBOffset,                    \* of each system
  m_VB,                          \* of each system, the memory of its vertex buffer
  m_CurrentFireworkEffectNumber,
  pending,                       \* draws to come from memory that is still written to
  screen                         \* of each system, what the last frame drew

effectVars ==
  <<m_Particles, m_VBOffset, m_VB, m_CurrentFireworkEffectNumber, pending, screen>>

Unwritten == <<>>
Memory == [i \in 0 .. m_VBSize - 1 |-> Unwritten]

-----------------------------------------------------------------------------
(* Particles.                                                              *)

LifeTime(s) == IF s = Snow THEN DS_LIFETIME ELSE LIFETIME

resetParticle(age) == [_isAlive |-> TRUE, _age |-> age]

(* A new particle has its life behind it, and lives until time passes.     *)
addParticle(s) == resetParticle(LifeTime(s))

SetParticles(s) == [i \in 1 .. NUMBER_OF_PARTICLES |-> addParticle(s)]
SetSnowParticles == [i \in 1 .. NUMBER_OF_DS_PARTICLES |-> addParticle(Snow)]

Aged(particle, lifeTime, dTime) ==
  LET age == particle._age + dTime
  IN  IF particle._isAlive THEN [_isAlive |-> age <= lifeTime, _age |-> age] ELSE particle

FireworkUpdateItSelf(particles, dTime) ==
  [i \in DOMAIN particles |-> Aged(particles[i], LIFETIME, dTime)]

(* A flake that leaves the bounds is placed anew at its age.               *)
SnowUpdateItSelf(particles, dTime) ==
  [i \in DOMAIN particles |-> Aged(particles[i], DS_LIFETIME, dTime)]

UpdateEffects(dTime) ==
  [s \in System |-> IF s = Snow THEN SnowUpdateItSelf(m_Particles[s], dTime)
                    ELSE FireworkUpdateItSelf(m_Particles[s], dTime)]

(* What the card is given for the living, in the order of the list.        *)
Places(particles) == [i \in DOMAIN particles |-> i]
Vertices(particles) ==
  FoldLeft(LAMBDA living, i :
             IF particles[i]._isAlive THEN Append(living, <<i, particles[i]._age>>) ELSE living,
           <<>>, Places(particles))

-----------------------------------------------------------------------------
(* One system's rendering, a loop over its particles.  Its state: where    *)
(* the locked segment begins, how many particles are in it, the memory,    *)
(* the draws from that memory, and all that was drawn.                     *)

Lock_NoOverwrite(r) == r

(* D3DLOCK_DISCARD gives the program other memory, and nothing it writes   *)
(* later reaches the draws from the old.  D3DLOCK_NOOVERWRITE promises not *)
(* to touch what draws still read.                                         *)
Lock(r) ==
  IF r.offset = 0 THEN [r EXCEPT !.memory = Memory, !.draws = <<>>, !.discarded = TRUE] ELSE r

NextSegment(r) ==
  [r EXCEPT !.offset = IF @ + m_VBBatchSize >= m_VBSize THEN 0 ELSE @ + m_VBBatchSize,
            !.batch = 0]

DrawPrimitive(r) ==
  LET wrote == [i \in 1 .. r.batch |-> r.memory[r.offset + i - 1]]
  IN  [r EXCEPT !.drawn = @ \o wrote,
                !.draws = Append(@, [system |-> r.system, first |-> r.offset, wrote |-> wrote])]

PutVertex(r, v) ==
  LET put == [r EXCEPT !.memory = [@ EXCEPT ![r.offset + r.batch] = v], !.batch = @ + 1]
  IN  IF put.batch = m_VBBatchSize THEN Lock(NextSegment(DrawPrimitive(put))) ELSE put

LastBatch_Lost(r) == r
LastBatch(r) == IF r.batch > 0 THEN DrawPrimitive(r) ELSE r

RenderItSelf(s, particles) ==
  LET start == [system |-> s, batch |-> 0, memory |-> m_VB[s],
                offset |-> IF m_VBOffset[s] >= m_VBSize THEN 0 ELSE m_VBOffset[s],
                draws |-> <<>>, drawn |-> <<>>, discarded |-> FALSE]
      r == LastBatch(FoldLeft(PutVertex, Lock(start), Vertices(particles)))
  IN  [r EXCEPT !.offset = @ + m_VBBatchSize]

-----------------------------------------------------------------------------
(* The children of the play scene: the snow is a plain child, fireworks    *)
(* are drawn after those.                                                  *)
RenderOrder == <<Snow>> \o SetToSeq(Firework)

InitParticleEffects ==
  /\ m_Particles = [s \in System |-> IF s = Snow THEN SetSnowParticles ELSE SetParticles(s)]
  /\ m_VBOffset = [s \in System |-> 0]
  /\ m_VB = [s \in System |-> Memory]
  /\ m_CurrentFireworkEffectNumber = 0
  /\ pending = <<>>
  /\ screen = [s \in System |-> <<>>]

PlayEffect(s) == [i \in DOMAIN m_Particles[s] |-> resetParticle(0)]

PlayFireworkEffect(effectType) ==
  LET s == <<effectType, m_CurrentFireworkEffectNumber % PARTICLE_EFFECT_BUFFER>>
  IN  /\ m_Particles' = [m_Particles EXCEPT ![s] = PlayEffect(s)]
      /\ m_CurrentFireworkEffectNumber' = m_CurrentFireworkEffectNumber + 1
      /\ UNCHANGED <<m_VBOffset, m_VB, pending, screen>>

(* The draws from memory that was not discarded, and behind them those of  *)
(* this frame.                                                             *)
StillRead(rendered) ==
  FoldLeft(LAMBDA read, d : IF rendered[d.system].discarded THEN read ELSE Append(read, d),
           <<>>, pending)
DrawsOf(rendered, before) ==
  FoldLeft(LAMBDA draws, s : draws \o rendered[s].draws, before, RenderOrder)

(* What a frame does: time passes for the children of the scene, and all   *)
(* of them are drawn.                                                      *)
UpdateAndRender(dTime) ==
  LET particles == UpdateEffects(dTime)
      rendered == [s \in System |-> RenderItSelf(s, particles[s])]
  IN  /\ m_Particles' = particles
      /\ m_VBOffset' = [s \in System |-> rendered[s].offset]
      /\ m_VB' = [s \in System |-> rendered[s].memory]
      /\ screen' = [s \in System |-> rendered[s].drawn]
      /\ pending' = DrawsOf(rendered, StillRead(rendered))
      /\ UNCHANGED m_CurrentFireworkEffectNumber

(* The graphics card comes to its next draw.                               *)
CardDraws ==
  /\ pending # <<>> /\ pending' = Tail(pending)
  /\ UNCHANGED <<m_Particles, m_VBOffset, m_VB, m_CurrentFireworkEffectNumber, screen>>

-----------------------------------------------------------------------------
(* The card draws what the program wrote, however late it comes to it: no  *)
(* segment is written again while a draw from it is pending (lines 137 to  *)
(* 147 and 188 to 200 of ParticleSystem.cpp).                              *)
CardDrawsWhatWasWritten ==
  \A n \in DOMAIN pending :
    \A i \in DOMAIN pending[n].wrote :
      m_VB[pending[n].system][pending[n].first + i - 1] = pending[n].wrote[i]

(* Every frame moves every offset, and nothing else does.                  *)
IsFrame == m_VBOffset' # m_VBOffset

(* A frame draws every living particle once, in order and nothing else,    *)
(* over full segments, a last one that is not full, and the end of the     *)
(* buffer.                                                                 *)
FrameDrawsTheLiving ==
  [][IsFrame => \A s \in System : screen'[s] = Vertices(m_Particles'[s])]_effectVars

=============================================================================
