----------------------------- MODULE MotionView -----------------------------
(***************************************************************************)
(* The copy a client keeps of one character (Watched): Player, and the     *)
(* handlers of NetworkManager that steer it.                               *)
(*                                                                         *)
(* A copy moves by itself and hears only of what changes its course.  The  *)
(* model runs client and server in step: results are handled in the step   *)
(* that sends them, and one update of the server is one of the client.  So *)
(* it shows whether the results say enough, not how a network delays them. *)
(***************************************************************************)
EXTENDS Motion

CONSTANT Watched

ASSUME WatchedAssumption == Watched \in Id

VARIABLE copy
  \* status: the client has no copy ("unknown"), has one that need not agree
  \* with the server ("lost"), or has been told everything since they agreed
  \* and has not died by itself ("follows")

viewVars == <<vars, copy>>

(* A dead copy neither moves nor accelerates until a respawn starts it     *)
(* anew, and a lost one may be anywhere: what is not known is not kept.    *)
Player(dead, pos, vel, acc) ==
  [ status |-> "follows", dead |-> dead, pos |-> pos, vel |-> vel,
    acc |-> IF dead THEN 0 ELSE acc ]
Lost(dead) == [Player(dead, 0, 0, 0) EXCEPT !.status = "lost"]
Unknown == [Player(FALSE, 0, 0, 0) EXCEPT !.status = "unknown"]

Follows == copy.status = "follows"

ViewInit == Init /\ copy = Unknown

-----------------------------------------------------------------------------
(* Player.                                                                 *)

PlayerMove(c, direction) ==
  Player(c.dead, c.pos, c.vel, c.acc + ACCELERATION_WEIGHT * Sign(direction))

(* A copy has a class component of its own, which uses its oxygen and then *)
(* its health frame by frame; beyond MAX_DISTANCE its oxygen is set to 0.  *)
(* Only CHARACTER_STATE and RESPAWN tell it the server's, so here it may   *)
(* run out at any time (expires).  The copy is dead from then on and stays *)
(* where this frame puts it, while the server may go on moving the body.   *)
PlayerUpdateItSelf(c, accelerationEnds, expires) ==
  IF c.dead \/ c.status = "unknown" THEN c
  ELSE IF expires THEN Lost(TRUE)
  ELSE IF c.status = "lost" THEN c
  ELSE LimitSpeed(CalcCurrentPosition(IF accelerationEnds THEN [c EXCEPT !.acc = 0] ELSE c))

-----------------------------------------------------------------------------
(* The handlers: what becomes of the copy when the result says that the    *)
(* body is b.                                                              *)

HandleGoForwardResult(b, viewDirection) ==
  IF Follows THEN PlayerMove(Player(copy.dead, b.pos, b.vel, copy.acc), viewDirection)
  ELSE copy

(* A stop leaves no doubt about a copy that is dead or alive as it should. *)
HandleStopResult(b, dead) ==
  IF copy.status # "unknown" /\ copy.dead = dead THEN Player(dead, b.pos, 0, 0) ELSE copy

(* The result has no position, but AddPlayer makes a player it is new to.  *)
HandleTurnBodyResult == IF copy.status = "unknown" THEN Lost(FALSE) ELSE copy

(* The force is all the acceleration of the body, not what the push gave   *)
(* it: a body that was accelerating takes another course than its copy.    *)
HandleKineticStateResult(b, wasAccelerating) ==
  CASE Follows /\ wasAccelerating -> Lost(copy.dead)
    [] Follows /\ ~wasAccelerating ->
         PlayerMove(Player(copy.dead, b.pos, b.vel, copy.acc), b.acc)
    [] OTHER -> copy

(* NEW says neither how a body accelerates nor whether it is dead; an old  *)
(* copy keeps both.                                                        *)
HandleNewResult(b, dead) ==
  CASE copy.status = "unknown" ->
         IF dead \/ b.acc # 0 THEN Lost(FALSE) ELSE Player(FALSE, b.pos, b.vel, 0)
    [] Follows -> Player(copy.dead, b.pos, b.vel, copy.acc)
    [] OTHER -> copy

HandleRespawnResult(b) ==
  IF copy.status = "unknown" THEN copy ELSE Player(FALSE, b.pos, 0, 0)

(* Mutant: the copy keeps its velocity.                                    *)
HandleCollisionResult_PosOnly(b, c) ==
  IF c.status = "follows" THEN Player(c.dead, b.pos, c.vel, c.acc) ELSE c

HandleCollisionResult(b, c) ==
  IF c.status = "follows" THEN Player(c.dead, b.pos, b.vel, c.acc) ELSE c

HandleDeadResult(c) ==
  CASE c.status = "follows" -> Player(TRUE, c.pos, c.vel, 0)
    [] c.status = "lost" -> Lost(TRUE)
    [] OTHER -> c

-----------------------------------------------------------------------------
(* The server's steps, with what the client does about each result.        *)

WatchedBody == body'[Watched]
IsWatchedDead == Watched \in m_IsDead'

(* The new state is told when the new client asks for it, which is later;  *)
(* the old copy of an id that is free goes on by itself.                   *)
ViewRegister(p) == RegisterCharacter(p) /\ UNCHANGED copy

ViewDeregister(p) ==
  /\ DeregisterCharacter(p)
  /\ copy' = IF p = Watched /\ Follows THEN Lost(copy.dead) ELSE copy

ViewRespawn(p) ==
  /\ HandleRespawnRequest(p)
  /\ copy' = IF p = Watched THEN HandleRespawnResult(WatchedBody) ELSE copy

ViewGoForward(p, viewDirection) ==
  /\ SkillGoForward(p, viewDirection)
  /\ copy' = IF p = Watched THEN HandleGoForwardResult(WatchedBody, viewDirection)
             ELSE copy

ViewStop(p) ==
  /\ SkillStop(p)
  /\ copy' = IF p = Watched THEN HandleStopResult(WatchedBody, IsWatchedDead) ELSE copy

ViewPush(p, viewDirection) ==
  /\ SkillPush(p, viewDirection)
  /\ copy' = IF Watched \in DetectTarget(p, viewDirection)
             THEN HandleKineticStateResult(WatchedBody, body[Watched].acc # 0)
             ELSE copy

(* A turn moves nothing on the server.  A client that connects later hears *)
(* of neither this nor NEW.                                                *)
ViewTurnBody ==
  /\ Watched \in m_CharacterList
  /\ UNCHANGED <<m_CharacterList, m_IsDead, body>>
  /\ copy' = HandleTurnBodyResult

ViewGameState ==
  /\ Watched \in m_CharacterList
  /\ UNCHANGED <<m_CharacterList, m_IsDead, body>>
  /\ copy' = HandleNewResult(WatchedBody, IsWatchedDead)

ViewPeriodWork(ending, dying, expires) ==
  /\ DoPeriodWork(ending, dying)
  /\ LET moved == PlayerUpdateItSelf(copy, Watched \in ending, expires)
         steered == IF Watched \in CollidedPlayers(ending)
                    THEN HandleCollisionResult(WatchedBody, moved) ELSE moved
     IN  /\ moved.pos \in Place
         /\ copy' = IF Watched \in dying THEN HandleDeadResult(steered) ELSE steered

ViewNext ==
  \/ \E ending \in SUBSET Accelerating,
        dying \in SUBSET ((Mortal \cap m_CharacterList) \ m_IsDead), expires \in BOOLEAN :
       ViewPeriodWork(ending, dying, expires)
  \/ ViewTurnBody
  \/ ViewGameState
  \/ \E p \in Id : ViewRegister(p)
  \/ \E p \in Acting :
       \/ ViewDeregister(p) \/ ViewRespawn(p) \/ ViewStop(p)
       \/ \E viewDirection \in Direction :
            /\ ViewGoForward(p, viewDirection) \/ ViewPush(p, viewDirection)
            /\ SumFunction([i \in Id |-> Distance(body'[i].acc, 0)]) <= MaxThrust

ViewSpec == ViewInit /\ [][ViewNext]_viewVars

-----------------------------------------------------------------------------
(* The results say enough: a copy that once agreed with the server stays   *)
(* where the server has the body, on the same course and dead or alive     *)
(* with it, through thrusts, stops, pushes, impacts, deaths and respawns,  *)
(* until a push changes more than its result says or the copy's own class  *)
(* component lets it die before the server's does (Player::UpdateItSelf);  *)
(* and a STOP with both dead or both alive, or a respawn, puts any copy    *)
(* back on the course.                                                     *)
CopyFollows ==
  Follows =>
    /\ copy.dead = (Watched \in m_IsDead)
    /\ <<copy.pos, copy.vel>> = <<body[Watched].pos, body[Watched].vel>>
    /\ ~copy.dead => copy.acc = body[Watched].acc
=============================================================================
