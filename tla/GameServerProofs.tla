-------------------------- MODULE GameServerProofs --------------------------
(***************************************************************************)
(* Proofs about GameServer, for every number of sessions, sockets, places  *)
(* and seeds.                                                              *)
(***************************************************************************)
EXTENDS GameServer, TLAPS, WellFoundedInduction

-----------------------------------------------------------------------------
(* The handlers map registries to registries.                              *)

LEMMA EnvironmentFacts ==
  ASSUME NEW env \in Environment
  PROVE  env.seed \in Seed /\ (~SetSockOptMayFail => env.broken = {})
BY DEF Environment

LEMMA WithoutType ==
  ASSUME NEW slots \in Slots, NEW ids
  PROVE  Without(slots, ids) \in Slots
BY DEF Without, Slots

LEMMA AbortType ==
  ASSUME NEW g \in Game, NEW why \in Fault
  PROVE  Abort(g, why) \in Game
BY DEF Abort, Game

LEMMA DeregisterCharactersType ==
  ASSUME NEW g \in Game, NEW ids, NEW env, env.seed \in Seed
  PROVE  DeregisterCharacters(g, ids, env) \in Game
<1>1. Without(g.m_CharacterList, ids) \in Slots /\ Without(g.objectTable, ids) \in Slots
  BY WithoutType DEF Game
<1>2. QED
  BY <1>1 DEF DeregisterCharacters, Game

LEMMA CleanupType ==
  ASSUME NEW g \in Game, NEW ids, NEW dead
  PROVE  Cleanup(g, ids, dead) \in Game
<1>1. Without(g.mClientIdList, ids) \in Slots
  BY WithoutType DEF Game
<1>2. QED
  BY <1>1 DEF Cleanup, Game

LEMMA DisconnectAllType ==
  ASSUME NEW g \in Game, NEW S, NEW env, env.seed \in Seed
  PROVE  DisconnectAll(g, S, env) \in Game
<1>1. Abort(g, "DeregisterCharacter") \in Game /\ Abort(g, "DeregisterSession") \in Game
  BY AbortType DEF Fault
<1>2. \A ids, dead : Cleanup(DeregisterCharacters(g, ids, env), ids, dead) \in Game
  BY DeregisterCharactersType, CleanupType
<1>3. QED
  BY <1>1, <1>2 DEF DisconnectAll

LEMMA BroadcastType ==
  ASSUME NEW g \in Game, NEW s, NEW full, NEW env, env.seed \in Seed
  PROVE  Broadcast(g, s, full, env) \in Game
BY DisconnectAllType DEF Broadcast

LEMMA BroadcastCharacterChangeType ==
  ASSUME NEW g \in Game, NEW id, NEW env, env.seed \in Seed
  PROVE  BroadcastCharacterChange(g, id, env) \in Game
<1>1. Abort(g, "BroadcastCharacterChange") \in Game
  BY AbortType DEF Fault
<1>2. QED
  BY <1>1, BroadcastType DEF BroadcastCharacterChange

(* A free place, if there is one, is found.                                *)
LEMMA FreeSlotFree ==
  ASSUME NEW g \in Game, Registered(g) # Id
  PROVE  FreeSlot(g) \in Id \ Registered(g)
<1> DEFINE Free == Id \ Registered(g)
           Less == OpToRel(<, Nat)
<1>1. Free # {} /\ Free \subseteq Nat
  BY PlayerNumAssumption DEF Registered, Id
<1>2. IsWellFoundedOn(Less, Nat)
  BY NatLessThanWellFounded
<1>3. \A x, y \in Nat : x < y => <<x, y>> \in Less
  BY DEF OpToRel
<1> HIDE DEF Less, Free
<1>4. PICK least \in Free : \A y \in Free : ~(<<y, least>> \in Less)
  <2>1. PICK any \in Free : TRUE
    BY <1>1
  <2>2. QED
    BY <1>1, <1>2, <2>1, WFMin
<1>5. ASSUME NEW y \in Free
      PROVE  least <= y
  <2>1. y \in Nat /\ least \in Nat
    BY <1>1
  <2>2. ~(<<y, least>> \in Less)
    BY <1>4
  <2>3. ~(y < least)
    BY <1>3, <2>1, <2>2
  <2>4. QED
    BY <2>1, <2>3
<1>6. QED
  BY <1>5 DEF FreeSlot, Free

LEMMA RegisterCharacterType ==
  ASSUME NEW g \in Game, NEW s \in Session, NEW id \in Id
  PROVE  RegisterCharacter(g, s, id) \in Game
BY DEF RegisterCharacter, Game, Slots

LEMMA LoginDoneType ==
  ASSUME NEW g \in Game, NEW s \in Session, NEW id \in Id,
         NEW team \in {"RED", "BLUE"}, NEW env, env.seed \in Seed
  PROVE  LoginDone(g, s, id, team, env) \in Game
<1> DEFINE told == [g EXCEPT
             !.mPlayerId[s]      = id,
             !.mClientIdList[id] = s,
             !.loginResult[s]    = [id |-> id, team |-> team, seed |-> g.m_RandomSeed]]
<1>1. told \in Game
  <2>1. [id |-> id, team |-> team, seed |-> g.m_RandomSeed] \in LoginResult
    BY DEF LoginResult, Game
  <2>2. QED
    BY <2>1 DEF Game, Slots
<1>2. Abort(g, "RegisterSession") \in Game
  BY AbortType DEF Fault
<1>3. DisconnectAll(told, {s}, env) \in Game
  BY <1>1, DisconnectAllType
<1>4. QED
  BY <1>1, <1>2, <1>3 DEF LoginDone

LEMMA HandleLoginRequestType ==
  ASSUME NEW g \in Game, NEW s \in Session, NEW env, env.seed \in Seed
  PROVE  HandleLoginRequest(g, s, env) \in Game
<1>1. CASE Registered(g) = Id
  BY <1>1, AbortType DEF HandleLoginRequest, Fault
<1>2. CASE Registered(g) # Id
  <2>1. FreeSlot(g) \in Id
    BY <1>2, FreeSlotFree
  <2>2. RegisterCharacter(g, s, FreeSlot(g)) \in Game
    BY <2>1, RegisterCharacterType
  <2>3. TeamFor(g) \in {"RED", "BLUE"}
    BY DEF TeamFor
  <2>4. QED
    BY <1>2, <2>1, <2>2, <2>3, LoginDoneType DEF HandleLoginRequest
<1>3. QED
  BY <1>1, <1>2

LEMMA InitPlayerStateType ==
  ASSUME NEW g \in Game, NEW s \in Session, NEW env, env.seed \in Seed, Listed \subseteq Session
  PROVE  InitPlayerState(g, s, env) \in Game
<1>1. DisconnectAll(g, {s}, env) \in Game
  BY DisconnectAllType
<1>2. {g.mPlayerId[t] : t \in Listed \ {s}} \ {NoId} \subseteq Id
  BY DEF Game
<1>3. g.announced \in [Session -> SUBSET Id]
  BY DEF Game
<1>4. g.announced[s] \cup ({g.mPlayerId[t] : t \in Listed \ {s}} \ {NoId}) \in SUBSET Id
  BY <1>2, <1>3
<1>5. \A x \in SUBSET Id : [g EXCEPT !.announced[s] = x] \in Game
  BY DEF Game
<1>6. QED
  BY <1>1, <1>4, <1>5 DEF InitPlayerState

LEMMA HandleGameStateRequestType ==
  ASSUME NEW g \in Game, NEW s \in Session, NEW env, env.seed \in Seed, Listed \subseteq Session
  PROVE  HandleGameStateRequest(g, s, env) \in Game
<1> DEFINE sent == Broadcast(g, s, env.full, env)
           told == [t \in Session |->
                     IF t \in (Listed \ {s}) \cap sent.connected
                     THEN sent.announced[t] \cup ({g.mPlayerId[s]} \ {NoId})
                     ELSE sent.announced[t]]
           new  == [sent EXCEPT !.introduced = @ \cup {s}, !.announced = told]
<1>1. sent \in Game
  BY BroadcastType
<1>2. told \in [Session -> SUBSET Id]
  <2>1. {g.mPlayerId[s]} \ {NoId} \subseteq Id
    BY DEF Game
  <2>2. sent.announced \in [Session -> SUBSET Id]
    BY <1>1 DEF Game
  <2>3. QED
    BY <2>1, <2>2
<1>3. new \in Game
  <2> HIDE DEF sent, told
  <2>1. QED
    BY <1>1, <1>2 DEF Game
<1>4. InitPlayerState(IF s \in sent.connected THEN new ELSE sent, s, env) \in Game
  <2> HIDE DEF sent, new
  <2>1. QED
    BY <1>1, <1>3, InitPlayerStateType
<1>5. HandleGameStateRequest(g, s, env) =
        IF ~OwnId(g, s) THEN g
        ELSE InitPlayerState(IF s \in sent.connected THEN new ELSE sent, s, env)
  BY DEF HandleGameStateRequest
<1>6. QED
  BY <1>4, <1>5

LEMMA PlayType ==
  ASSUME NEW g \in Game, NEW s \in Session, NEW env, env.seed \in Seed
  PROVE  /\ HandleStopRequest(g, s, env) \in Game
         /\ HandleRotationRequest(g, s, env) \in Game
         /\ HandleRespawnRequest(g, s, env) \in Game
         /\ \A target : HandleSkill(g, s, target, env) \in Game
<1>1. Abort(g, "NoCharacter") \in Game
  BY AbortType DEF Fault
<1>2. HandleStopRequest(g, s, env) \in Game
  BY <1>1, BroadcastType DEF HandleStopRequest
<1>3. HandleRespawnRequest(g, s, env) \in Game
  BY BroadcastType DEF HandleRespawnRequest
<1>4. ASSUME NEW target
      PROVE  HandleSkill(g, s, target, env) \in Game
  <2>1. BroadcastCharacterChange(g, target, env) \in Game
    BY BroadcastCharacterChangeType
  <2>2. Broadcast(BroadcastCharacterChange(g, target, env), s, env.full2, env) \in Game
    BY <2>1, BroadcastType
  <2>3. QED
    BY <1>1, <2>2 DEF HandleSkill
<1>5. QED
  BY <1>2, <1>3, <1>4 DEF HandleRotationRequest

-----------------------------------------------------------------------------
(* The account of the overlapped requests: the counter of a session is the *)
(* number of its receives and sends in progress, all of them belong to     *)
(* live sessions, and the session whose OnRead runs has no receive.  The   *)
(* list of sessions holds live ones under their own socket.                *)
Account ==
  /\ \A s \in Session : mOverlappedRequested[s] = sendOps[s] + (IF s \in recvOp THEN 1 ELSE 0)
  /\ \A s \in Session : s \in recvOp \/ sendOps[s] > 0 => s \in allocated
  /\ reading # NoSession => reading \in allocated /\ reading \notin recvOp
  /\ \A k \in Sock : mClientList[k] # NoSession =>
       mClientList[k] \in allocated /\ mSocket[mClientList[k]] = k

IOInv == TypeOK /\ Account

LEMMA ListedType ==
  ASSUME IOInv
  PROVE  Listed \subseteq allocated /\ Listed \subseteq Session
BY DEF IOInv, Account, TypeOK, Listed

LEMMA InitIO == Init => IOInv
<1> SUFFICES ASSUME Init PROVE IOInv
  OBVIOUS
<1> USE DEF Init
<1>1. game \in Game
  BY DEF Game, Slots, Fault
<1>2. TypeOK
  BY <1>1 DEF TypeOK
<1>3. Account
  BY NoSessionAssumption DEF Account
<1>4. QED
  BY <1>2, <1>3 DEF IOInv

(* What Apply leaves typed.                                                *)
LEMMA ApplyType ==
  ASSUME TypeOK, NEW g \in Game, Apply(g, inFlight)
  PROVE  game' \in Game /\ openSocks' \subseteq Sock /\ inFlight' \in [Session -> Seq(Request)]
<1>1. game' = g /\ openSocks' \subseteq openSocks
  BY DEF Apply
<1>2. \A t \in Session : <<>> \in Seq(Request) /\ inFlight[t] \in Seq(Request)
  BY DEF TypeOK
<1>3. inFlight' \in [Session -> Seq(Request)]
  BY <1>2 DEF Apply
<1>4. QED
  BY <1>1, <1>3 DEF TypeOK

LEMMA DispatchIO ==
  ASSUME IOInv, NEW s \in Session, NEW request, NEW g \in Game, Dispatch(s, request, g)
  PROVE  IOInv'
<1> USE DEF IOInv, Dispatch, tableVars, ioVars
<1>1. game' \in Game /\ openSocks' \subseteq Sock /\ inFlight' \in [Session -> Seq(Request)]
  <2>1. Apply(g, inFlight)
    OBVIOUS
  <2>2. QED
    BY <2>1, ApplyType DEF IOInv
<1>2. recvBuffer' \in [Session -> Seq(Request)]
  <2>1. recvBuffer[s] \in Seq(Request) /\ recvBuffer[s] # <<>>
    BY DEF TypeOK
  <2>2. Tail(recvBuffer[s]) \in Seq(Request)
    BY <2>1
  <2>3. QED
    BY <2>2 DEF TypeOK
<1>3. TypeOK'
  BY <1>1, <1>2 DEF TypeOK
<1>4. Account'
  BY DEF Account
<1>5. QED
  BY <1>3, <1>4

LEMMA HandlerIO ==
  ASSUME IOInv, NEW s \in Session, NEW env \in Environment, Handler(s, env)
  PROVE  IOInv'
<1>1. game \in Game /\ Listed \subseteq Session
  BY ListedType DEF IOInv, TypeOK
<1>2. env.seed \in Seed
  BY EnvironmentFacts
<1>3. CASE Login(s, env)
  BY <1>1, <1>2, <1>3, HandleLoginRequestType, DispatchIO DEF Login
<1>4. CASE GameState(s, env)
  BY <1>1, <1>2, <1>4, HandleGameStateRequestType, DispatchIO DEF GameState
<1>5. CASE Stop(s, env)
  BY <1>1, <1>2, <1>5, PlayType, DispatchIO DEF Stop
<1>6. CASE Rotation(s, env)
  BY <1>1, <1>2, <1>6, PlayType, DispatchIO DEF Rotation
<1>7. CASE Respawn(s, env)
  BY <1>1, <1>2, <1>7, PlayType, DispatchIO DEF Respawn
<1>8. CASE Acceleration(s, env)
  <2>1. HandleAccelerationRequest(game, s, env) \in Game
    BY <1>1, <1>2, PlayType DEF HandleAccelerationRequest
  <2>2. QED
    BY <1>8, <2>1, DispatchIO DEF Acceleration
<1>9. CASE Gather(s, env)
  <2>1. SkillGather(game, s, env) \in Game
    BY <1>1, <1>2, PlayType DEF SkillGather
  <2>2. QED
    BY <1>9, <2>1, DispatchIO DEF Gather
<1>10. CASE Push(s, env)
  BY <1>1, <1>2, <1>10, PlayType, DispatchIO DEF Push
<1>11. CASE RefusedSkill(s)
  BY <1>1, <1>11, DispatchIO DEF RefusedSkill
<1>12. QED
  BY <1>3, <1>4, <1>5, <1>6, <1>7, <1>8, <1>9, <1>10, <1>11 DEF Handler

LEMMA AcceptIO ==
  ASSUME IOInv, NEW k \in Sock, Accept(k)
  PROVE  IOInv'
<1>1. TypeOK'
  BY DEF IOInv, Accept, TypeOK, ioVars, clientVars
<1>2. Account'
  BY DEF IOInv, Accept, Account, ioVars
<1>3. QED
  BY <1>1, <1>2 DEF IOInv

LEMMA ClientSendsIO ==
  ASSUME IOInv, NEW s \in Session, ClientSends(s)
  PROVE  IOInv'
<1>1. inFlight' \in [Session -> Seq(Request)]
  <2>1. \A r \in Request : Append(inFlight[s], r) \in Seq(Request)
    BY DEF IOInv, TypeOK
  <2>2. "PLAY" \in Request /\ "GAME_STATE" \in Request
    BY DEF Request
  <2>3. QED
    BY <2>1, <2>2 DEF IOInv, TypeOK, ClientSends
<1>2. TypeOK'
  BY <1>1 DEF IOInv, ClientSends, TypeOK, ioVars, tableVars
<1>3. Account'
  BY DEF IOInv, ClientSends, Account, ioVars, tableVars
<1>4. QED
  BY <1>2, <1>3 DEF IOInv

LEMMA RecvDataIO ==
  ASSUME IOInv, NEW s \in Session, NEW n \in Nat, n <= Len(inFlight[s]), RecvData(s, n)
  PROVE  IOInv'
<1> USE DEF IOInv
<1>1. inFlight[s] \in Seq(Request) /\ recvBuffer[s] \in Seq(Request)
  BY DEF TypeOK
<1>2. SubSeq(inFlight[s], 1, n) \in Seq(Request)
  BY <1>1
<1>3. SubSeq(inFlight[s], n + 1, Len(inFlight[s])) \in Seq(Request)
  BY <1>1
<1>4. recvBuffer[s] \o SubSeq(inFlight[s], 1, n) \in Seq(Request)
  <2> DEFINE received == SubSeq(inFlight[s], 1, n)
  <2>1. received \in Seq(Request)
    BY <1>2
  <2> HIDE DEF received
  <2>2. QED
    BY <1>1, <2>1
<1>5. inFlight' \in [Session -> Seq(Request)]
  BY <1>3 DEF RecvData, TypeOK
<1>6. recvBuffer' \in [Session -> Seq(Request)]
  BY <1>4 DEF RecvData, TypeOK
<1>7. /\ mOverlappedRequested' \in [Session -> Nat]
      /\ \A t \in Session :
           mOverlappedRequested'[t] = sendOps'[t] + (IF t \in recvOp' THEN 1 ELSE 0)
  BY DEF RecvData, EndRecv, TypeOK, Account
<1>8. TypeOK'
  BY <1>5, <1>6, <1>7 DEF RecvData, EndRecv, TypeOK
<1>9. Account'
  BY <1>7 DEF RecvData, EndRecv, Account, TypeOK
<1>10. QED
  BY <1>8, <1>9

LEMMA RecvFailedIO ==
  ASSUME IOInv, NEW s \in Session, NEW env \in Environment, RecvFailed(s, env)
  PROVE  IOInv'
<1> USE DEF IOInv
<1>1. game' \in Game /\ openSocks' \subseteq Sock /\ inFlight' \in [Session -> Seq(Request)]
  BY EnvironmentFacts, DisconnectAllType, ApplyType DEF RecvFailed, TypeOK
<1>2. /\ mOverlappedRequested' \in [Session -> Nat]
      /\ \A t \in Session :
           mOverlappedRequested'[t] = sendOps'[t] + (IF t \in recvOp' THEN 1 ELSE 0)
  BY DEF RecvFailed, EndRecv, TypeOK, Account
<1>3. TypeOK'
  BY <1>1, <1>2 DEF RecvFailed, ApcDone, EndRecv, TypeOK
<1>4. Account'
  BY <1>2 DEF RecvFailed, EndRecv, Account, TypeOK
<1>5. QED
  BY <1>3, <1>4

LEMMA SendCompletionIO ==
  ASSUME IOInv, NEW s \in Session, NEW ok \in BOOLEAN, NEW env \in Environment,
         SendCompletion(s, ok, env)
  PROVE  IOInv'
<1> USE DEF IOInv
<1> DEFINE g == IF ok THEN game ELSE DisconnectAll(game, {s}, env)
<1>1. g \in Game
  BY EnvironmentFacts, DisconnectAllType DEF TypeOK
<1>2. Apply(g, inFlight)
  BY DEF SendCompletion
<1>3. game' \in Game /\ openSocks' \subseteq Sock /\ inFlight' \in [Session -> Seq(Request)]
  <2> HIDE DEF g
  <2>1. QED
    BY <1>1, <1>2, ApplyType
<1>4. /\ mOverlappedRequested' \in [Session -> Nat] /\ sendOps' \in [Session -> Nat]
      /\ \A t \in Session :
           mOverlappedRequested'[t] = sendOps'[t] + (IF t \in recvOp' THEN 1 ELSE 0)
      /\ \A t \in Session : sendOps'[t] > 0 => sendOps[t] > 0
  <2>1. /\ sendOps[s] > 0 /\ recvOp' = recvOp
        /\ sendOps' = [sendOps EXCEPT ![s] = @ - 1]
        /\ mOverlappedRequested' = [mOverlappedRequested EXCEPT ![s] = @ - 1]
    BY DEF SendCompletion
  <2>2. /\ sendOps \in [Session -> Nat] /\ mOverlappedRequested \in [Session -> Nat]
        /\ \A t \in Session :
             mOverlappedRequested[t] = sendOps[t] + (IF t \in recvOp THEN 1 ELSE 0)
    BY DEF TypeOK, Account
  <2>3. sendOps[s] - 1 \in Nat /\ mOverlappedRequested[s] - 1 \in Nat
    BY <2>1, <2>2
  <2>4. /\ mOverlappedRequested' \in [Session -> Nat] /\ sendOps' \in [Session -> Nat]
    BY <2>1, <2>2, <2>3
  <2>5. ASSUME NEW t \in Session
        PROVE  /\ mOverlappedRequested'[t] = sendOps'[t] + (IF t \in recvOp' THEN 1 ELSE 0)
               /\ sendOps'[t] > 0 => sendOps[t] > 0
    BY <2>1, <2>2
  <2>6. QED
    BY <2>4, <2>5
<1>5. TypeOK'
  BY <1>3, <1>4 DEF SendCompletion, ApcDone, TypeOK
<1>6. Account'
  BY <1>4 DEF SendCompletion, Account, TypeOK
<1>7. QED
  BY <1>5, <1>6

(* A receive that starts, or does not, on a session without one keeps the  *)
(* account.                                                                *)
LEMMA StartRecvAccount ==
  ASSUME IOInv, NEW s \in Session, s \notin recvOp, sendOps' = sendOps,
         \/ StartRecv(s) \/ UNCHANGED <<recvOp, mOverlappedRequested>>
  PROVE  /\ mOverlappedRequested' \in [Session -> Nat] /\ recvOp' \subseteq recvOp \cup {s}
         /\ \A t \in Session :
              mOverlappedRequested'[t] = sendOps'[t] + (IF t \in recvOp' THEN 1 ELSE 0)
<1>1. /\ sendOps \in [Session -> Nat] /\ mOverlappedRequested \in [Session -> Nat]
      /\ \A t \in Session :
           mOverlappedRequested[t] = sendOps[t] + (IF t \in recvOp THEN 1 ELSE 0)
  BY DEF IOInv, TypeOK, Account
<1>2. CASE UNCHANGED <<recvOp, mOverlappedRequested>>
  BY <1>1, <1>2
<1>3. CASE StartRecv(s)
  <2>1. /\ recvOp' = recvOp \cup {s}
        /\ mOverlappedRequested' = [mOverlappedRequested EXCEPT ![s] = @ + 1]
    BY <1>3 DEF StartRecv
  <2>2. mOverlappedRequested[s] \in Nat /\ mOverlappedRequested[s] + 1 \in Nat
    BY <1>1
  <2>3. mOverlappedRequested' \in [Session -> Nat]
    BY <1>1, <2>1, <2>2
  <2>4. ASSUME NEW t \in Session
        PROVE  mOverlappedRequested'[t] = sendOps'[t] + (IF t \in recvOp' THEN 1 ELSE 0)
    <3>1. CASE t = s
      <4>1. mOverlappedRequested'[s] = mOverlappedRequested[s] + 1 /\ s \in recvOp'
        BY <1>1, <2>1
      <4>2. sendOps'[s] = sendOps[s] /\ mOverlappedRequested[s] = sendOps[s] + 0
        BY <1>1
      <4>3. sendOps[s] \in Nat
        BY <1>1
      <4>4. QED
        BY <3>1, <4>1, <4>2, <4>3
    <3>2. CASE t # s
      <4>1. mOverlappedRequested'[t] = mOverlappedRequested[t] /\ (t \in recvOp' <=> t \in recvOp)
        BY <1>1, <2>1, <3>2
      <4>2. QED
        BY <1>1, <4>1
    <3>3. QED
      BY <3>1, <3>2
  <2>5. QED
    BY <2>1, <2>3, <2>4
<1>4. QED
  BY <1>2, <1>3

LEMMA CreateClientIO ==
  ASSUME IOInv, NEW s \in Session, NEW posted \in BOOLEAN, NEW env \in Environment,
         CreateClient(s, posted, env)
  PROVE  IOInv'
<1> USE DEF IOInv
<1> DEFINE k  == Head(pending)
           g1 == [game EXCEPT !.mPlayerId[s] = NoId, !.loginResult[s] = NoLogin,
                              !.connected = @ \cup {s}]
<1>1. k \in Sock /\ Tail(pending) \in Seq(Sock)
  BY DEF CreateClient, TypeOK
<1>2. g1 \in Game
  BY DEF TypeOK, Game
<1>3. game' \in Game
  <2>1. game' = IF posted THEN g1 ELSE DisconnectAll(g1, {s}, env)
    BY DEF CreateClient
  <2>2. QED
    BY <1>2, <2>1, EnvironmentFacts, DisconnectAllType
<1>4. s \notin allocated /\ s \notin recvOp /\ sendOps[s] = 0 /\ sendOps' = sendOps
  BY DEF CreateClient, TypeOK, Account
<1>5. StartRecv(s) \/ UNCHANGED <<recvOp, mOverlappedRequested>>
  BY DEF CreateClient
<1>6. /\ mOverlappedRequested' \in [Session -> Nat] /\ recvOp' \subseteq recvOp \cup {s}
      /\ \A t \in Session :
           mOverlappedRequested'[t] = sendOps'[t] + (IF t \in recvOp' THEN 1 ELSE 0)
  BY <1>4, <1>5, StartRecvAccount
<1>7. inFlight' \in [Session -> Seq(Request)] /\ recvBuffer' \in [Session -> Seq(Request)]
  <2>1. <<"LOGIN">> \in Seq(Request) /\ <<>> \in Seq(Request)
    BY DEF Request
  <2>2. QED
    BY <2>1 DEF CreateClient, TypeOK
<1>8. /\ pending' = Tail(pending) /\ allocated' = allocated \cup {s}
      /\ mSocket' = [mSocket EXCEPT ![s] = k]
      /\ mClientList' = [mClientList EXCEPT ![k] = IF @ = NoSession THEN s ELSE @]
      /\ openSocks' \subseteq openSocks /\ stateAsked' = stateAsked \ {s}
      /\ UNCHANGED <<pc, reading>>
  BY DEF CreateClient
<1> HIDE DEF k
<1>9. TypeOK'
  BY <1>1, <1>3, <1>4, <1>6, <1>7, <1>8 DEF TypeOK
<1>10. Account'
  <2>1. reading' # NoSession => reading' \in allocated' /\ reading' \notin recvOp'
    BY <1>4, <1>6, <1>8 DEF Account
  <2>2. ASSUME NEW l \in Sock, mClientList'[l] # NoSession
        PROVE  mClientList'[l] \in allocated' /\ mSocket'[mClientList'[l]] = l
    BY <1>1, <1>4, <1>8, <2>2 DEF Account, TypeOK
  <2>3. QED
    BY <1>4, <1>6, <1>8, <2>1, <2>2 DEF Account
<1>11. QED
  BY <1>9, <1>10

LEMMA PostRecvIO ==
  ASSUME IOInv, NEW s \in Session, NEW posted \in BOOLEAN, NEW env \in Environment,
         PostRecv(s, posted, env)
  PROVE  IOInv'
<1> USE DEF IOInv
<1>1. game' \in Game /\ openSocks' \subseteq Sock /\ inFlight' \in [Session -> Seq(Request)]
  <2>1. CASE UNCHANGED <<game, openSocks, inFlight>>
    BY <2>1 DEF TypeOK
  <2>2. CASE Apply(DisconnectAll(game, {s}, env), inFlight)
    BY <2>2, EnvironmentFacts, DisconnectAllType, ApplyType DEF TypeOK
  <2>3. QED
    BY <2>1, <2>2 DEF PostRecv
<1>2. s \in allocated /\ s \notin recvOp /\ sendOps' = sendOps
  BY NoSessionAssumption DEF PostRecv, Account
<1>3. StartRecv(s) \/ UNCHANGED <<recvOp, mOverlappedRequested>>
  BY DEF PostRecv
<1>4. /\ mOverlappedRequested' \in [Session -> Nat] /\ recvOp' \subseteq recvOp \cup {s}
      /\ \A t \in Session :
           mOverlappedRequested'[t] = sendOps'[t] + (IF t \in recvOp' THEN 1 ELSE 0)
  BY <1>2, <1>3, StartRecvAccount
<1>5. /\ reading' = NoSession /\ pc' \in {"sleep", "loop"}
      /\ UNCHANGED <<allocated, mSocket, mClientList, pending, sendOps, recvBuffer, stateAsked>>
  BY DEF PostRecv, ApcDone
<1>6. TypeOK'
  BY <1>1, <1>4, <1>5 DEF TypeOK
<1>7. Account'
  BY <1>2, <1>4, <1>5 DEF Account
<1>8. QED
  BY <1>6, <1>7

(* Starting a send for each session of post keeps the account.             *)
LEMMA FlushIO ==
  ASSUME IOInv, NEW post \in SUBSET Session, NEW g, Flush(post, g), recvOp' = recvOp
  PROVE  /\ sendOps' \in [Session -> Nat] /\ mOverlappedRequested' \in [Session -> Nat]
         /\ \A t \in Session :
              mOverlappedRequested'[t] = sendOps'[t] + (IF t \in recvOp' THEN 1 ELSE 0)
         /\ \A t \in Session : sendOps'[t] > 0 => sendOps[t] > 0 \/ t \in post
<1>1. /\ sendOps' = [t \in Session |-> sendOps[t] + IF t \in post THEN 1 ELSE 0]
      /\ mOverlappedRequested' =
           [t \in Session |-> mOverlappedRequested[t] + IF t \in post THEN 1 ELSE 0]
  BY DEF Flush
<1>2. /\ sendOps \in [Session -> Nat] /\ mOverlappedRequested \in [Session -> Nat]
      /\ \A t \in Session :
           mOverlappedRequested[t] = sendOps[t] + (IF t \in recvOp THEN 1 ELSE 0)
  BY DEF IOInv, TypeOK, Account
<1>3. QED
  BY <1>1, <1>2

LEMMA FlushClientSendIO ==
  ASSUME IOInv, NEW post \in SUBSET Session, NEW env \in Environment,
         FlushClientSend(post, env)
  PROVE  IOInv'
<1> USE DEF IOInv
<1> DEFINE g == DisconnectAll(game, Listed \cap env.full, env)
<1>1. g \in Game
  BY EnvironmentFacts, DisconnectAllType DEF TypeOK
<1>2. Apply(g, inFlight) /\ Flush(post, g) /\ recvOp' = recvOp /\ post \subseteq Listed
  BY DEF FlushClientSend
<1> HIDE DEF g
<1>3. game' \in Game /\ openSocks' \subseteq Sock /\ inFlight' \in [Session -> Seq(Request)]
  BY <1>1, <1>2, ApplyType
<1>4. /\ sendOps' \in [Session -> Nat] /\ mOverlappedRequested' \in [Session -> Nat]
      /\ \A t \in Session :
           mOverlappedRequested'[t] = sendOps'[t] + (IF t \in recvOp' THEN 1 ELSE 0)
      /\ \A t \in Session : sendOps'[t] > 0 => sendOps[t] > 0 \/ t \in post
  BY <1>2, FlushIO
<1>5. post \subseteq allocated
  BY <1>2, ListedType
<1>6. /\ pc' = "sleep"
      /\ UNCHANGED <<reading, allocated, mSocket, mClientList, pending, recvOp,
                     recvBuffer, stateAsked>>
  BY DEF FlushClientSend
<1>7. TypeOK'
  BY <1>3, <1>4, <1>6 DEF TypeOK
<1>8. Account'
  BY <1>4, <1>5, <1>6 DEF Account
<1>9. QED
  BY <1>7, <1>8

(* The list after the collection holds the old entries that stay.          *)
LEMMA CollectionKeeps ==
  ASSUME IOInv, NEW garbage \in SUBSET Session,
         NEW list, list = Erase(garbage)
  PROVE  /\ list \in [Sock -> Session \cup {NoSession}]
         /\ \A k \in Sock : list[k] # NoSession =>
              /\ list[k] = mClientList[k] /\ list[k] \in allocated \ garbage
              /\ mSocket[list[k]] = k
BY DEF IOInv, TypeOK, Account, Erase

LEMMA ClientManagerInitType ==
  ASSUME NEW g \in Game, NEW env, env.seed \in Seed
  PROVE  ClientManagerInit(g, env) \in Game
<1> DEFINE h == DeregisterCharacters(g, Id, env)
<1>1. h \in Game
  BY DeregisterCharactersType
<1>2. Without(h.mClientIdList, Id) \in Slots
  BY <1>1, WithoutType DEF Game
<1> HIDE DEF h
<1>3. [h EXCEPT !.mClientIdList = Without(@, Id), !.m_RandomSeed = env.seed] \in Game
  BY <1>1, <1>2 DEF Game
<1>4. QED
  BY <1>3 DEF ClientManagerInit, h

LEMMA OnPeriodWorkIO ==
  ASSUME IOInv, NEW gc \in BOOLEAN, NEW post \in SUBSET Session, NEW env \in Environment,
         OnPeriodWork(gc, post, env)
  PROVE  IOInv'
<1> USE DEF IOInv
<1> DEFINE garbage == {s \in Listed : gc /\ Collectable(s)}
           list    == Erase(garbage)
           listed  == {list[k] : k \in Sock} \ {NoSession}
           g       == IF listed = {} THEN ClientManagerInit(game, env)
                      ELSE DisconnectAll(game, listed \cap env.full, env)
<1>1. g \in Game
  BY EnvironmentFacts, DisconnectAllType, ClientManagerInitType DEF TypeOK
<1>2. /\ Apply(g, inFlight) /\ Flush(post, g) /\ recvOp' = recvOp /\ post \subseteq listed
      /\ reading = NoSession /\ pc' \in {"sleep", "loop"}
      /\ mClientList' = list /\ allocated' = allocated \ garbage
      /\ UNCHANGED <<reading, mSocket, pending, recvOp, recvBuffer, stateAsked>>
  BY DEF OnPeriodWork, Apc, ApcDone
<1>3. game' \in Game /\ openSocks' \subseteq Sock /\ inFlight' \in [Session -> Seq(Request)]
  <2> HIDE DEF g
  <2>1. QED
    BY <1>1, <1>2, ApplyType
<1>4. garbage \in SUBSET Session
  BY ListedType
<1>5. \A s \in garbage : s \notin recvOp /\ ~(sendOps[s] > 0)
  <2>1. \A s \in garbage : s \in Session /\ ~(mOverlappedRequested[s] > 0)
    BY <1>4 DEF Collectable
  <2>2. QED
    BY <2>1 DEF Account, TypeOK
<1>6. /\ list \in [Sock -> Session \cup {NoSession}]
      /\ \A k \in Sock : list[k] # NoSession =>
           list[k] \in allocated \ garbage /\ mSocket[list[k]] = k
  <2>1. list = Erase(garbage)
    OBVIOUS
  <2> HIDE DEF garbage, list
  <2>2. QED
    BY <1>4, <2>1, CollectionKeeps
<1>7. listed \subseteq allocated \ garbage
  <2> HIDE DEF list, garbage
  <2>1. QED
    BY <1>6
<1>8. /\ sendOps' \in [Session -> Nat] /\ mOverlappedRequested' \in [Session -> Nat]
      /\ \A t \in Session :
           mOverlappedRequested'[t] = sendOps'[t] + (IF t \in recvOp' THEN 1 ELSE 0)
      /\ \A t \in Session : sendOps'[t] > 0 => sendOps[t] > 0 \/ t \in post
  BY <1>2, FlushIO
<1> HIDE DEF garbage, list, listed, g
<1>9. TypeOK'
  BY <1>2, <1>3, <1>6, <1>8 DEF TypeOK
<1>10. Account'
  BY <1>2, <1>5, <1>6, <1>7, <1>8 DEF Account
<1>11. QED
  BY <1>9, <1>10

-----------------------------------------------------------------------------
LEMMA NextIO == IOInv /\ [Next]_vars => IOInv'
<1> SUFFICES ASSUME IOInv, [Next]_vars PROVE IOInv'
  OBVIOUS
<1>1. ASSUME NEW k \in Sock, Accept(k) PROVE IOInv'
  BY <1>1, AcceptIO
<1>2. ASSUME NEW s \in Session, ClientSends(s) PROVE IOInv'
  BY <1>2, ClientSendsIO
<1>3. ASSUME NEW s \in Session, NEW n \in 0 .. MaxInFlight, n <= Len(inFlight[s]), RecvData(s, n)
      PROVE  IOInv'
  <2>1. n \in Nat
    BY BoundAssumption
  <2>2. QED
    BY <1>3, <2>1, RecvDataIO
<1>4. ASSUME NEW env \in Environment, NEW s \in Session, NEW ok \in BOOLEAN,
             \/ Handler(s, env) \/ RecvFailed(s, env) \/ CreateClient(s, ok, env)
             \/ SendCompletion(s, ok, env) \/ PostRecv(s, ok, env)
      PROVE  IOInv'
  BY <1>4, HandlerIO, RecvFailedIO, CreateClientIO, SendCompletionIO, PostRecvIO
<1>5. ASSUME NEW env \in Environment, NEW post \in SUBSET Session, NEW gc \in BOOLEAN,
             FlushClientSend(post, env) \/ OnPeriodWork(gc, post, env)
      PROVE  IOInv'
  BY <1>5, FlushClientSendIO, OnPeriodWorkIO
<1>6. CASE UNCHANGED vars
  BY <1>6 DEF vars, tableVars, ioVars, clientVars, IOInv, TypeOK, Account
<1>7. QED
  BY <1>1, <1>2, <1>3, <1>4, <1>5, <1>6 DEF Next

(* The state keeps its types, and no completion routine runs on a deleted  *)
(* session: the garbage collection deletes only sessions whose counter of  *)
(* overlapped requests is zero, and the counter is never short.            *)
THEOREM CompletionSafety == Spec => [](TypeOK /\ NoDanglingCompletion)
<1>1. IOInv => TypeOK /\ NoDanglingCompletion
  BY DEF IOInv, Account, NoDanglingCompletion
<1>2. QED
  BY <1>1, InitIO, NextIO, PTL DEF Spec

-----------------------------------------------------------------------------
(* The three tables agree, also where handles are reused and setsockopt    *)
(* fails: each handler writes to all of them or to none.                   *)
Agrees(g) ==
  g.fault = "none" => /\ g.m_CharacterList = g.objectTable
                      /\ g.m_CharacterList = g.mClientIdList

LEMMA AbortAgrees ==
  ASSUME NEW g \in Game, NEW why \in Fault \ {"none"}
  PROVE  Agrees(Abort(g, why))
BY DEF Agrees, Abort, Game

LEMMA DisconnectAllAgrees ==
  ASSUME NEW g \in Game, Agrees(g), NEW S, NEW env, env.seed \in Seed
  PROVE  Agrees(DisconnectAll(g, S, env))
<1>1. \A why \in {"DeregisterCharacter", "DeregisterSession"} : Agrees(Abort(g, why))
  BY AbortAgrees DEF Fault
<1>2. ASSUME NEW ids, NEW dead, g.fault = "none"
      PROVE  Agrees(Cleanup(DeregisterCharacters(g, ids, env), ids, dead))
  <2> DEFINE h == Cleanup(DeregisterCharacters(g, ids, env), ids, dead)
  <2>1. /\ h.m_CharacterList = Without(g.m_CharacterList, ids)
        /\ h.objectTable = Without(g.objectTable, ids)
        /\ h.mClientIdList = Without(g.mClientIdList, ids)
    BY DEF Cleanup, DeregisterCharacters, Game
  <2>2. QED
    BY <1>2, <2>1 DEF Agrees
<1>3. QED
  BY <1>1, <1>2 DEF DisconnectAll

LEMMA BroadcastAgrees ==
  ASSUME NEW g \in Game, Agrees(g), NEW s, NEW full, NEW env, env.seed \in Seed
  PROVE  Agrees(Broadcast(g, s, full, env))
BY DisconnectAllAgrees DEF Broadcast

LEMMA HandleLoginRequestAgrees ==
  ASSUME NEW g \in Game, Agrees(g), NEW s \in Session, NEW env, env.seed \in Seed
  PROVE  Agrees(HandleLoginRequest(g, s, env))
<1>1. CASE Registered(g) = Id
  BY <1>1, AbortAgrees DEF HandleLoginRequest, Fault
<1>2. CASE Registered(g) # Id
  <2> DEFINE id   == FreeSlot(g)
             team == TeamFor(g)
             r    == RegisterCharacter(g, s, id)
             told == [r EXCEPT
                       !.mPlayerId[s]      = id,
                       !.mClientIdList[id] = s,
                       !.loginResult[s]    = [id |-> id, team |-> team, seed |-> r.m_RandomSeed]]
  <2>1. id \in Id /\ team \in {"RED", "BLUE"}
    BY <1>2, FreeSlotFree DEF TeamFor
  <2>2. r \in Game
    BY <2>1, RegisterCharacterType
  <2>3. HandleLoginRequest(g, s, env) =
          IF r.mClientIdList[id] # NoSession THEN Abort(r, "RegisterSession")
          ELSE IF s \in env.full THEN DisconnectAll(told, {s}, env) ELSE told
    BY <1>2 DEF HandleLoginRequest, LoginDone
  <2>4. Agrees(told)
    <3> HIDE DEF id
    <3>1. /\ told.fault = g.fault
          /\ told.m_CharacterList = [g.m_CharacterList EXCEPT ![id] = s]
          /\ told.objectTable = [g.objectTable EXCEPT ![id] = s]
          /\ told.mClientIdList = [g.mClientIdList EXCEPT ![id] = s]
      BY <2>1 DEF RegisterCharacter, Game
    <3> HIDE DEF told
    <3>2. QED
      BY <3>1 DEF Agrees
  <2>5. told \in Game
    <3> HIDE DEF id, team, r
    <3>1. [id |-> id, team |-> team, seed |-> r.m_RandomSeed] \in LoginResult
      BY <2>1, <2>2 DEF LoginResult, Game
    <3>2. QED
      BY <2>1, <2>2, <3>1 DEF Game, Slots
  <2>6. Agrees(Abort(r, "RegisterSession"))
    <3> HIDE DEF r
    <3>1. QED
      BY <2>2, AbortAgrees DEF Fault
  <2> HIDE DEF id, team, r, told
  <2>7. QED
    BY <2>3, <2>4, <2>5, <2>6, DisconnectAllAgrees
<1>3. QED
  BY <1>1, <1>2

LEMMA HandleGameStateRequestAgrees ==
  ASSUME NEW g \in Game, Agrees(g), NEW s \in Session, NEW env, env.seed \in Seed,
         Listed \subseteq Session
  PROVE  Agrees(HandleGameStateRequest(g, s, env))
<1> DEFINE sent == Broadcast(g, s, env.full, env)
           told == [t \in Session |->
                     IF t \in (Listed \ {s}) \cap sent.connected
                     THEN sent.announced[t] \cup ({g.mPlayerId[s]} \ {NoId})
                     ELSE sent.announced[t]]
           new  == [sent EXCEPT !.introduced = @ \cup {s}, !.announced = told]
<1>1. sent \in Game /\ Agrees(sent)
  BY BroadcastType, BroadcastAgrees
<1>2. Agrees(new) /\ new \in Game
  <2>1. {g.mPlayerId[s]} \ {NoId} \subseteq Id
    BY DEF Game
  <2>2. sent.announced \in [Session -> SUBSET Id]
    BY <1>1 DEF Game
  <2> HIDE DEF sent
  <2>3. told \in [Session -> SUBSET Id]
    BY <2>1, <2>2
  <2> HIDE DEF told
  <2>4. QED
    BY <1>1, <2>3 DEF Agrees, Game
<1> HIDE DEF sent, new
<1>3. ASSUME NEW h \in Game, Agrees(h)
      PROVE  Agrees(InitPlayerState(h, s, env))
  <2>1. \A x : Agrees([h EXCEPT !.announced[s] = x])
    BY <1>3 DEF Agrees, Game
  <2>2. QED
    BY <1>3, <2>1, DisconnectAllAgrees DEF InitPlayerState
<1>4. HandleGameStateRequest(g, s, env) =
        IF ~OwnId(g, s) THEN g
        ELSE InitPlayerState(IF s \in sent.connected THEN new ELSE sent, s, env)
  BY DEF HandleGameStateRequest, sent, new
<1>5. QED
  BY <1>1, <1>2, <1>3, <1>4

LEMMA PlayAgrees ==
  ASSUME NEW g \in Game, Agrees(g), NEW s \in Session, NEW env, env.seed \in Seed
  PROVE  /\ Agrees(HandleStopRequest(g, s, env))
         /\ Agrees(HandleRespawnRequest(g, s, env))
         /\ \A target : Agrees(HandleSkill(g, s, target, env))
<1>1. \A why \in {"NoCharacter", "BroadcastCharacterChange"} : Agrees(Abort(g, why))
  BY AbortAgrees DEF Fault
<1>2. Agrees(HandleStopRequest(g, s, env)) /\ Agrees(HandleRespawnRequest(g, s, env))
  BY <1>1, BroadcastAgrees DEF HandleStopRequest, HandleRespawnRequest
<1>3. ASSUME NEW target
      PROVE  Agrees(HandleSkill(g, s, target, env))
  <2> DEFINE h == BroadcastCharacterChange(g, target, env)
  <2>1. h \in Game /\ Agrees(h)
    BY <1>1, BroadcastCharacterChangeType, BroadcastAgrees DEF BroadcastCharacterChange
  <2> HIDE DEF h
  <2>2. Agrees(Broadcast(h, s, env.full2, env))
    BY <2>1, BroadcastAgrees
  <2>3. QED
    BY <1>1, <2>2 DEF HandleSkill, h
<1>4. QED
  BY <1>2, <1>3

LEMMA ClientManagerInitAgrees ==
  ASSUME NEW g \in Game, NEW env, env.seed \in Seed
  PROVE  Agrees(ClientManagerInit(g, env))
<1> DEFINE h == DeregisterCharacters(g, Id, env)
           k == ClientManagerInit(g, env)
<1>1. /\ h \in Game /\ h.m_CharacterList = Without(g.m_CharacterList, Id)
      /\ h.objectTable = Without(g.objectTable, Id)
  <2>1. h \in Game
    BY DeregisterCharactersType
  <2>2. QED
    BY <2>1 DEF DeregisterCharacters, Game
<1>2. k = [h EXCEPT !.mClientIdList = Without(@, Id), !.m_RandomSeed = env.seed]
  BY DEF ClientManagerInit
<1> HIDE DEF h, k
<1>3. /\ k.m_CharacterList = Without(g.m_CharacterList, Id)
      /\ k.objectTable = Without(g.objectTable, Id)
      /\ k.mClientIdList = Without(h.mClientIdList, Id)
  BY <1>1, <1>2 DEF Game
<1>4. QED
  BY <1>3 DEF Agrees, Without, k

LEMMA HandlerAgrees ==
  ASSUME IOInv, Agrees(game), NEW s \in Session, NEW env, env.seed \in Seed, Handler(s, env)
  PROVE  Agrees(game')
<1>1. game \in Game /\ Listed \subseteq Session
  BY ListedType DEF IOInv, TypeOK
<1>2. ASSUME NEW request, NEW g, Agrees(g), Dispatch(s, request, g)
      PROVE  Agrees(game')
  BY <1>2 DEF Dispatch, Apply
<1>3. /\ Agrees(HandleLoginRequest(game, s, env)) /\ Agrees(HandleGameStateRequest(game, s, env))
      /\ Agrees(HandleStopRequest(game, s, env)) /\ Agrees(HandleRespawnRequest(game, s, env))
      /\ \A target : Agrees(HandleSkill(game, s, target, env))
  BY <1>1, HandleLoginRequestAgrees, HandleGameStateRequestAgrees, PlayAgrees
<1>4. QED
  BY <1>2, <1>3 DEF Handler, Login, GameState, Stop, Rotation, Respawn, Acceleration, Gather, Push,
     RefusedSkill, HandleRotationRequest, HandleAccelerationRequest, SkillGather

LEMMA NextAgrees == IOInv /\ Agrees(game) /\ [Next]_vars => Agrees(game')
<1> SUFFICES ASSUME IOInv, Agrees(game), [Next]_vars PROVE Agrees(game')
  OBVIOUS
<1>0. game \in Game /\ \A env \in Environment : env.seed \in Seed
  BY EnvironmentFacts DEF IOInv, TypeOK
<1>1. ASSUME NEW g, Agrees(g), Apply(g, inFlight)
      PROVE  Agrees(game')
  BY <1>1 DEF Apply
<1>2. \A env \in Environment : \A S : Agrees(DisconnectAll(game, S, env))
  BY <1>0, DisconnectAllAgrees
<1>3. ASSUME NEW env \in Environment, NEW s \in Session, NEW ok \in BOOLEAN, CreateClient(s, ok, env)
      PROVE  Agrees(game')
  <2> DEFINE g == [game EXCEPT !.mPlayerId[s] = NoId, !.loginResult[s] = NoLogin,
                               !.connected = @ \cup {s}]
  <2>1. g \in Game /\ Agrees(g)
    BY <1>0 DEF Game, Agrees
  <2>2. game' = IF ok THEN g ELSE DisconnectAll(g, {s}, env)
    BY <1>3 DEF CreateClient
  <2> HIDE DEF g
  <2>3. QED
    BY <1>0, <2>1, <2>2, DisconnectAllAgrees
<1>4. ASSUME NEW env \in Environment, NEW s \in Session, NEW ok \in BOOLEAN,
             \/ Handler(s, env) \/ RecvFailed(s, env) \/ SendCompletion(s, ok, env)
             \/ PostRecv(s, ok, env)
      PROVE  Agrees(game')
  <2>1. CASE Handler(s, env)
    BY <1>0, <2>1, HandlerAgrees
  <2>2. CASE RecvFailed(s, env)
    BY <1>1, <1>2, <2>2 DEF RecvFailed
  <2>3. CASE SendCompletion(s, ok, env)
    BY <1>1, <1>2, <2>3 DEF SendCompletion
  <2>4. CASE PostRecv(s, ok, env)
    BY <1>1, <1>2, <2>4 DEF PostRecv
  <2>5. QED
    BY <1>4, <2>1, <2>2, <2>3, <2>4
<1>5. ASSUME NEW env \in Environment, NEW post \in SUBSET Session, FlushClientSend(post, env)
      PROVE  Agrees(game')
  BY <1>1, <1>2, <1>5 DEF FlushClientSend
<1>6. ASSUME NEW env \in Environment, NEW post \in SUBSET Session, NEW gc \in BOOLEAN,
             OnPeriodWork(gc, post, env)
      PROVE  Agrees(game')
  <2>1. PICK S : \/ Apply(ClientManagerInit(game, env), inFlight)
                 \/ Apply(DisconnectAll(game, S, env), inFlight)
    BY <1>6 DEF OnPeriodWork
  <2>2. Agrees(ClientManagerInit(game, env))
    BY <1>0, ClientManagerInitAgrees
  <2>3. QED
    BY <1>1, <1>2, <2>1, <2>2
<1>7. CASE UNCHANGED game
  BY <1>7
<1>8. ASSUME NEW k \in Sock, Accept(k) PROVE UNCHANGED game
  BY <1>8 DEF Accept
<1>9. ASSUME NEW s \in Session, ClientSends(s) \/ \E n : RecvData(s, n) PROVE UNCHANGED game
  BY <1>9 DEF ClientSends, RecvData
<1>10. QED
  BY <1>3, <1>4, <1>5, <1>6, <1>7, <1>8, <1>9 DEF Next, vars

(* Between two requests the three tables that lead from a player id to its *)
(* session agree, whatever the system does with handles and options.       *)
THEOREM TableSafety == Spec => []SlotAgreement
<1>1. Init => Agrees(game)
  BY DEF Init, Agrees
<1>2. IOInv /\ Agrees(game) => SlotAgreement
  BY DEF Agrees, SlotAgreement, Running
<1>3. IOInv /\ Agrees(game) /\ [Next]_vars => IOInv' /\ Agrees(game)'
  BY NextIO, NextAgrees DEF Agrees
<1>4. QED
  BY <1>1, <1>2, <1>3, InitIO, PTL DEF Spec

-----------------------------------------------------------------------------
(* What the registry is between two requests, when no handle is reused     *)
(* before its session is collected and setsockopt does not fail.           *)

(* A session is found under an id exactly when it is connected and knows   *)
(* the id as its own.                                                      *)
Tables(g) ==
  /\ g.m_CharacterList = g.objectTable /\ g.m_CharacterList = g.mClientIdList
  /\ \A id \in Id, s \in Session :
       g.mClientIdList[id] = s <=> s \in g.connected /\ g.mPlayerId[s] = id

(* A connected session has an id once it has been told, and what it was    *)
(* told still holds.                                                       *)
Told(g) ==
  \A s \in g.connected :
    LET login == g.loginResult[s] IN
    IF g.mPlayerId[s] = NoId THEN login = NoLogin
    ELSE /\ login.id = g.mPlayerId[s] /\ login.seed = g.m_RandomSeed
         /\ login.id \in g.m_TeamBlue <=> login.team = "BLUE"
         /\ login.id \in g.m_TeamRed <=> login.team = "RED"

(* Nobody is in a team who is not registered.                              *)
Teams(g) == g.m_TeamBlue \cup g.m_TeamRed \subseteq Registered(g)

(* Players in the game know of each other, but for what the sessions of S  *)
(* were told.                                                              *)
PeersBut(g, S) ==
  /\ \A s \in g.introduced : s \in g.connected /\ g.mPlayerId[s] # NoId
  /\ \A a \in g.introduced, b \in g.introduced \ S : a # b => g.mPlayerId[a] \in g.announced[b]

Asserted == {"RegisterSession", "DeregisterSession", "BroadcastCharacterChange"}

SoundBut(g, S) ==
  /\ g \in Game /\ g.fault \notin Asserted
  /\ g.fault = "none" => Tables(g) /\ Told(g) /\ Teams(g) /\ PeersBut(g, S)

Sound(g) == SoundBut(g, {})

(* What disconnections do to a registry.                                   *)
Fades(g, h) ==
  h.fault = "none" =>
    /\ g.fault = "none" /\ h.connected \subseteq g.connected
    /\ h.mPlayerId = g.mPlayerId /\ h.loginResult = g.loginResult
    /\ \A id \in Id :
         \/ h.mClientIdList[id] = g.mClientIdList[id]
         \/ h.mClientIdList[id] = NoSession /\ g.mClientIdList[id] \notin h.connected
    /\ \A s \in g.connected \ h.connected : g.mPlayerId[s] # NoId

LEMMA FadesNothing == ASSUME NEW g PROVE Fades(g, g)
BY DEF Fades

LEMMA FadesTwice ==
  ASSUME NEW g \in Game, NEW h, NEW k, Fades(g, h), Fades(h, k)
  PROVE  Fades(g, k)
BY DEF Fades, Game

LEMMA AbortSound ==
  ASSUME NEW g, NEW S, SoundBut(g, S), NEW why \in {"ChannelFull", "DeregisterCharacter", "NoCharacter"}
  PROVE  Sound(Abort(g, why)) /\ Fades(g, Abort(g, why))
<1>1. Abort(g, why) \in Game
  BY AbortType DEF SoundBut, Fault
<1>2. Abort(g, why).fault = why
  BY DEF Abort, SoundBut, Game
<1>3. QED
  BY <1>1, <1>2 DEF Sound, SoundBut, SoundBut, Fades, Asserted

(* The registry without the sessions of live and without their ids.        *)
Removed(g, h, live, ids, seed) ==
  /\ h.fault = "none" /\ h.mPlayerId = g.mPlayerId /\ h.loginResult = g.loginResult
  /\ h.m_CharacterList = Without(g.m_CharacterList, ids)
  /\ h.objectTable = Without(g.objectTable, ids)
  /\ h.mClientIdList = Without(g.mClientIdList, ids)
  /\ h.m_TeamBlue = g.m_TeamBlue \ ids /\ h.m_TeamRed = g.m_TeamRed \ ids
  /\ Registered(g) \subseteq ids \/ h.m_RandomSeed = g.m_RandomSeed
  /\ h.connected = g.connected \ live /\ h.introduced = g.introduced \ live
  /\ \A s \in Session \ live : h.announced[s] = g.announced[s]

LEMMA RemovedSound ==
  ASSUME NEW g, NEW h, NEW S, SoundBut(g, S), g.fault = "none", h \in Game,
         NEW live, live = S \cap g.connected, NEW ids, ids = {g.mPlayerId[s] : s \in live},
         ids \subseteq Id, NEW seed, Removed(g, h, live, ids, seed)
  PROVE  Sound(h) /\ Fades(g, h)
<1> USE NoSessionAssumption
<1>0. g \in Game /\ Tables(g) /\ Told(g) /\ Teams(g) /\ PeersBut(g, S)
  BY DEF SoundBut
<1>1. /\ live \subseteq Session /\ g.connected \subseteq Session /\ g.introduced \subseteq Session
      /\ g.mPlayerId \in [Session -> Id \cup {NoId}] /\ NoId \notin Id
      /\ g.mClientIdList \in Slots
  BY <1>0, PlayerNumAssumption DEF Game, Id, NoId
<1>2. \A s \in live : g.mClientIdList[g.mPlayerId[s]] = s
  BY <1>0, <1>1 DEF Tables
<1>3. \A s \in g.connected \ live : g.mPlayerId[s] \notin ids
  BY <1>0, <1>1, <1>2 DEF Tables
<1>4. Tables(h)
  <2>1. h.m_CharacterList = h.objectTable /\ h.m_CharacterList = h.mClientIdList
    BY <1>0 DEF Tables, Removed
  <2>2. ASSUME NEW id \in Id, NEW s \in Session
        PROVE  h.mClientIdList[id] = s <=> s \in h.connected /\ h.mPlayerId[s] = id
    <3>1. h.mClientIdList[id] = IF id \in ids THEN NoSession ELSE g.mClientIdList[id]
      BY DEF Removed, Without
    <3>2. g.mClientIdList[id] = s <=> s \in g.connected /\ g.mPlayerId[s] = id
      BY <1>0 DEF Tables
    <3>3. h.connected = g.connected \ live /\ h.mPlayerId = g.mPlayerId
      BY DEF Removed
    <3>4. QED
      BY <1>3, <3>1, <3>2, <3>3
  <2>3. QED
    BY <2>1, <2>2 DEF Tables
<1>5. \A s \in h.connected : g.mPlayerId[s] # NoId =>
        /\ g.mPlayerId[s] \in Id \ ids /\ g.mPlayerId[s] \in Registered(g)
        /\ h.m_RandomSeed = g.m_RandomSeed
  <2> SUFFICES ASSUME NEW s \in h.connected, g.mPlayerId[s] # NoId
               PROVE  /\ g.mPlayerId[s] \in Id \ ids /\ g.mPlayerId[s] \in Registered(g)
                      /\ h.m_RandomSeed = g.m_RandomSeed
    OBVIOUS
  <2>1. s \in g.connected \ live /\ s \in Session
    BY <1>1 DEF Removed
  <2>2. g.mPlayerId[s] \in Id \ ids
    BY <1>1, <1>3, <2>1
  <2>3. g.mClientIdList[g.mPlayerId[s]] = s /\ g.m_CharacterList = g.mClientIdList
    BY <1>0, <2>1, <2>2 DEF Tables
  <2>4. g.mPlayerId[s] \in Registered(g)
    BY <2>1, <2>2, <2>3 DEF Registered
  <2>5. QED
    BY <2>2, <2>4 DEF Removed
<1>6. Told(h)
  <2> SUFFICES ASSUME NEW s \in h.connected
               PROVE  LET login == h.loginResult[s] IN
                      IF h.mPlayerId[s] = NoId THEN login = NoLogin
                      ELSE /\ login.id = h.mPlayerId[s] /\ login.seed = h.m_RandomSeed
                           /\ login.id \in h.m_TeamBlue <=> login.team = "BLUE"
                           /\ login.id \in h.m_TeamRed <=> login.team = "RED"
    BY DEF Told
  <2>1. s \in g.connected /\ h.mPlayerId[s] = g.mPlayerId[s] /\ h.loginResult[s] = g.loginResult[s]
    BY DEF Removed
  <2>2. h.m_TeamBlue = g.m_TeamBlue \ ids /\ h.m_TeamRed = g.m_TeamRed \ ids
    BY DEF Removed
  <2>3. QED
    BY <1>0, <1>5, <2>1, <2>2 DEF Told
<1>7. Teams(h)
  <2>1. Registered(h) = Registered(g) \ ids
    BY DEF Removed, Registered, Without
  <2>2. QED
    BY <1>0, <2>1 DEF Teams, Removed
<1>8. PeersBut(h, {})
  BY <1>0, <1>1 DEF PeersBut, Removed
<1>9. Fades(g, h)
  <2>1. \A id \in Id :
          \/ h.mClientIdList[id] = g.mClientIdList[id]
          \/ h.mClientIdList[id] = NoSession /\ g.mClientIdList[id] \notin h.connected
    BY <1>1, <1>2 DEF Removed, Without
  <2>2. \A s \in g.connected \ h.connected : g.mPlayerId[s] # NoId
    BY <1>1 DEF Removed
  <2>3. QED
    BY <2>1, <2>2 DEF Fades, Removed
<1>10. QED
  BY <1>4, <1>6, <1>7, <1>8, <1>9 DEF Sound, SoundBut, Removed, Asserted

LEMMA DisconnectAllSound ==
  ASSUME NEW g, NEW S, SoundBut(g, S), NEW env, env.seed \in Seed, env.broken = {}
  PROVE  Sound(DisconnectAll(g, S, env)) /\ Fades(g, DisconnectAll(g, S, env))
<1> DEFINE live == S \cap g.connected
           ids  == {g.mPlayerId[s] : s \in live}
           h    == Cleanup(DeregisterCharacters(g, ids, env), ids, live \ env.broken)
<1>0. g \in Game
  BY DEF SoundBut
<1>1. CASE live = {} \/ g.fault # "none"
  <2>1. DisconnectAll(g, S, env) = g
    BY <1>1 DEF DisconnectAll
  <2>2. live = {} /\ PeersBut(g, S) => PeersBut(g, {})
    BY DEF PeersBut
  <2>3. Sound(g)
    BY <1>1, <2>2 DEF Sound, SoundBut
  <2>4. QED
    BY <2>1, <2>3, FadesNothing
<1>2. CASE ~(live = {} \/ g.fault # "none") /\ ~(ids \subseteq Registered(g))
  BY <1>2, AbortSound DEF DisconnectAll
<1>3. CASE g.fault = "none" /\ live # {} /\ ids \subseteq Registered(g)
  <2>1. ids \subseteq Id
    BY <1>3 DEF Registered
  <2>2. \A s \in live : g.mClientIdList[g.mPlayerId[s]] = s
    <3>1. Tables(g) /\ live \subseteq Session
      BY <1>0, <1>3 DEF SoundBut, Game
    <3>2. \A s \in live : g.mPlayerId[s] \in Id
      BY <2>1
    <3>3. QED
      BY <3>1, <3>2 DEF Tables
  <2>3. DisconnectAll(g, S, env) = h
    BY <1>3, <2>2 DEF DisconnectAll
  <2>4. h \in Game
    BY <1>0, DeregisterCharactersType, CleanupType
  <2>5. Removed(g, h, live, ids, env.seed)
    <3> HIDE DEF live, ids
    <3>1. QED
      BY <1>0, <1>3 DEF Removed, Cleanup, DeregisterCharacters, Game, Registered
  <2> HIDE DEF h
  <2>7. QED
    BY <1>3, <2>1, <2>3, <2>4, <2>5, RemovedSound
<1>4. QED
  BY <1>1, <1>2, <1>3

LEMMA BroadcastSound ==
  ASSUME NEW g, Sound(g), NEW s, NEW full, NEW env, env.seed \in Seed, env.broken = {}
  PROVE  Sound(Broadcast(g, s, full, env)) /\ Fades(g, Broadcast(g, s, full, env))
<1>1. \A S : Sound(DisconnectAll(g, S, env)) /\ Fades(g, DisconnectAll(g, S, env))
  <2>1. \A S : SoundBut(g, S)
    BY DEF Sound, SoundBut, PeersBut
  <2>2. QED
    BY <2>1, DisconnectAllSound
<1>2. QED
  BY <1>1, FadesNothing DEF Broadcast

LEMMA PlaySound ==
  ASSUME NEW g, Sound(g), NEW s \in Session, NEW env, env.seed \in Seed, env.broken = {}
  PROVE  /\ Sound(HandleStopRequest(g, s, env)) /\ Fades(g, HandleStopRequest(g, s, env))
         /\ Sound(HandleRespawnRequest(g, s, env)) /\ Fades(g, HandleRespawnRequest(g, s, env))
<1>1. Sound(Abort(g, "NoCharacter")) /\ Fades(g, Abort(g, "NoCharacter"))
  BY AbortSound DEF Sound
<1>2. QED
  BY <1>1, BroadcastSound, FadesNothing DEF HandleStopRequest, HandleRespawnRequest

(* A skill finds the session of the character it changes.                  *)
LEMMA HandleSkillSound ==
  ASSUME NEW g, Sound(g), g.fault = "none",
         NEW s \in Session, NEW target, NEW env, env.seed \in Seed, env.broken = {}
  PROVE  Sound(HandleSkill(g, s, target, env)) /\ Fades(g, HandleSkill(g, s, target, env))
<1>0. g \in Game /\ Tables(g)
  BY DEF Sound, SoundBut
<1>1. CASE ~OwnId(g, s)
  BY <1>1, FadesNothing DEF HandleSkill
<1>2. CASE OwnId(g, s) /\ (\/ g.objectTable[g.mPlayerId[s]] = NoSession
                          \/ g.objectTable[target] = NoSession)
  BY <1>2, AbortSound DEF HandleSkill, Sound
<1>3. CASE /\ OwnId(g, s) /\ g.objectTable[g.mPlayerId[s]] # NoSession
           /\ g.objectTable[target] # NoSession
  <2> DEFINE h == BroadcastCharacterChange(g, target, env)
  <2>1. g.mClientIdList[target] # NoSession
    BY <1>0, <1>3 DEF Tables
  <2>2. Sound(h) /\ Fades(g, h)
    BY <2>1, BroadcastSound DEF BroadcastCharacterChange
  <2>3. HandleSkill(g, s, target, env) = Broadcast(h, s, env.full2, env)
    BY <1>3 DEF HandleSkill
  <2> HIDE DEF h
  <2>4. Sound(Broadcast(h, s, env.full2, env)) /\ Fades(h, Broadcast(h, s, env.full2, env))
    BY <2>2, BroadcastSound
  <2>5. QED
    BY <1>0, <2>2, <2>3, <2>4, FadesTwice
<1>4. QED
  BY <1>1, <1>2, <1>3

(* What a login does to a registry.                                        *)
Enters(g, h, s) ==
  h.fault = "none" =>
    /\ g.fault = "none" /\ h.connected \subseteq g.connected
    /\ h.mPlayerId[s] # NoId /\ \A t \in Session \ {s} : h.mPlayerId[t] = g.mPlayerId[t]
    /\ \A id \in Id :
         \/ h.mClientIdList[id] = g.mClientIdList[id]
         \/ h.mClientIdList[id] = NoSession /\ g.mClientIdList[id] \notin h.connected
         \/ g.mClientIdList[id] = NoSession
    /\ \A t \in g.connected \ h.connected : h.mPlayerId[t] # NoId

(* The registry with the session s under the id that was free.             *)
Entered(g, h, s, id, team) ==
  /\ h.fault = "none" /\ h.connected = g.connected
  /\ h.introduced = g.introduced /\ h.announced = g.announced
  /\ h.m_RandomSeed = g.m_RandomSeed
  /\ h.m_CharacterList = [g.m_CharacterList EXCEPT ![id] = s]
  /\ h.objectTable = [g.objectTable EXCEPT ![id] = s]
  /\ h.mClientIdList = [g.mClientIdList EXCEPT ![id] = s]
  /\ h.mPlayerId = [g.mPlayerId EXCEPT ![s] = id]
  /\ h.loginResult = [g.loginResult EXCEPT ![s] =
                        [id |-> id, team |-> team, seed |-> g.m_RandomSeed]]
  /\ h.m_TeamBlue = g.m_TeamBlue \cup (IF team = "BLUE" THEN {id} ELSE {})
  /\ h.m_TeamRed = g.m_TeamRed \cup (IF team = "RED" THEN {id} ELSE {})

LEMMA EnteredSound ==
  ASSUME NEW g, NEW h, Sound(g), g.fault = "none", h \in Game,
         NEW s \in g.connected, g.mPlayerId[s] = NoId,
         NEW id \in Id, g.mClientIdList[id] = NoSession,
         NEW team \in {"RED", "BLUE"}, Entered(g, h, s, id, team)
  PROVE  Sound(h) /\ Enters(g, h, s)
<1> USE NoSessionAssumption
<1>0. g \in Game /\ Tables(g) /\ Told(g) /\ Teams(g) /\ PeersBut(g, {})
  BY DEF Sound, SoundBut
<1>1. /\ s \in Session /\ g.connected \subseteq Session /\ g.introduced \subseteq Session
      /\ g.mPlayerId \in [Session -> Id \cup {NoId}] /\ NoId \notin Id
      /\ g.mClientIdList \in Slots /\ g.m_CharacterList \in Slots /\ g.objectTable \in Slots
      /\ g.loginResult \in [Session -> LoginResult \cup {NoLogin}]
  BY <1>0, PlayerNumAssumption DEF Game, Id, NoId
<1>2. /\ h.mClientIdList[id] = s /\ h.mPlayerId[s] = id /\ h.connected = g.connected
      /\ \A i \in Id \ {id} : h.mClientIdList[i] = g.mClientIdList[i]
      /\ \A t \in Session \ {s} : h.mPlayerId[t] = g.mPlayerId[t] /\ h.loginResult[t] = g.loginResult[t]
      /\ h.loginResult[s] = [id |-> id, team |-> team, seed |-> g.m_RandomSeed]
      /\ \A i \in Id : h.m_CharacterList[i] = IF i = id THEN s ELSE g.m_CharacterList[i]
  BY <1>1 DEF Entered, Slots
<1>3. \A t \in g.connected : g.mPlayerId[t] # NoId =>
        g.mPlayerId[t] \in Registered(g) /\ g.mPlayerId[t] # id
  <2> SUFFICES ASSUME NEW t \in g.connected, g.mPlayerId[t] # NoId
               PROVE  g.mPlayerId[t] \in Registered(g) /\ g.mPlayerId[t] # id
    OBVIOUS
  <2>1. t \in Session /\ g.mPlayerId[t] \in Id
    BY <1>1
  <2>2. g.mClientIdList[g.mPlayerId[t]] = t /\ g.m_CharacterList = g.mClientIdList
    BY <1>0, <2>1 DEF Tables
  <2>3. QED
    BY <2>1, <2>2 DEF Registered
<1>4. Tables(h)
  <2>1. h.m_CharacterList = h.objectTable /\ h.m_CharacterList = h.mClientIdList
    BY <1>0 DEF Tables, Entered
  <2>2. ASSUME NEW i \in Id, NEW t \in Session
        PROVE  h.mClientIdList[i] = t <=> t \in h.connected /\ h.mPlayerId[t] = i
    <3>1. g.mClientIdList[i] = t <=> t \in g.connected /\ g.mPlayerId[t] = i
      BY <1>0 DEF Tables
    <3>2. g.mClientIdList[id] = t <=> t \in g.connected /\ g.mPlayerId[t] = id
      BY <1>0 DEF Tables
    <3>3. QED
      BY <1>1, <1>2, <3>1, <3>2
  <2>3. QED
    BY <2>1, <2>2 DEF Tables
<1>5. id \notin g.m_TeamBlue /\ id \notin g.m_TeamRed
  BY <1>0 DEF Teams, Tables, Registered
<1>6. Told(h)
  <2> SUFFICES ASSUME NEW t \in h.connected
               PROVE  LET login == h.loginResult[t] IN
                      IF h.mPlayerId[t] = NoId THEN login = NoLogin
                      ELSE /\ login.id = h.mPlayerId[t] /\ login.seed = h.m_RandomSeed
                           /\ login.id \in h.m_TeamBlue <=> login.team = "BLUE"
                           /\ login.id \in h.m_TeamRed <=> login.team = "RED"
    BY DEF Told
  <2>1. CASE t = s
    <3>1. h.mPlayerId[t] = id /\ id # NoId
      BY <1>1, <1>2, <2>1
    <3>2. h.loginResult[t].id = id /\ h.loginResult[t].seed = g.m_RandomSeed
          /\ h.loginResult[t].team = team
      BY <1>2, <2>1
    <3>3. QED
      BY <1>5, <3>1, <3>2 DEF Entered
  <2>2. CASE t # s
    <3>1. /\ t \in g.connected /\ h.mPlayerId[t] = g.mPlayerId[t]
          /\ h.loginResult[t] = g.loginResult[t]
      BY <1>1, <1>2, <2>2
    <3>2. \A i : i # id => /\ i \in h.m_TeamBlue <=> i \in g.m_TeamBlue
                           /\ i \in h.m_TeamRed <=> i \in g.m_TeamRed
      BY DEF Entered
    <3>3. h.m_RandomSeed = g.m_RandomSeed
      BY DEF Entered
    <3>4. QED
      BY <1>0, <1>3, <3>1, <3>2, <3>3 DEF Told
  <2>3. QED
    BY <2>1, <2>2
<1>7. Teams(h)
  <2>1. Registered(h) = Registered(g) \cup {id}
    BY <1>1, <1>2 DEF Registered
  <2>2. QED
    BY <1>0, <2>1 DEF Teams, Entered
<1>8. PeersBut(h, {})
  <2>1. s \notin g.introduced
    BY <1>0 DEF PeersBut
  <2>2. h.introduced = g.introduced /\ h.announced = g.announced
    BY DEF Entered
  <2>3. \A t \in g.introduced : h.mPlayerId[t] = g.mPlayerId[t]
    BY <1>1, <1>2, <2>1
  <2>4. QED
    BY <1>0, <1>2, <2>2, <2>3 DEF PeersBut
<1>9. Enters(g, h, s)
  BY <1>1, <1>2 DEF Enters
<1>10. QED
  BY <1>4, <1>6, <1>7, <1>8, <1>9 DEF Sound, SoundBut, Entered, Asserted

(* A login followed by disconnections.                                     *)
LEMMA EntersAndFades ==
  ASSUME NEW g \in Game, NEW h \in Game, NEW k, NEW s \in Session, Enters(g, h, s), Fades(h, k)
  PROVE  Enters(g, k, s)
BY DEF Enters, Fades, Game

LEMMA HandleLoginRequestSound ==
  ASSUME NEW g, Sound(g), g.fault = "none", NEW s \in g.connected, g.mPlayerId[s] = NoId,
         NEW env, env.seed \in Seed, env.broken = {}
  PROVE  /\ Sound(HandleLoginRequest(g, s, env))
         /\ Enters(g, HandleLoginRequest(g, s, env), s)
<1>0. g \in Game /\ Tables(g) /\ s \in Session
  BY DEF Sound, SoundBut, Game
<1>1. CASE Registered(g) = Id
  <2>1. Sound(Abort(g, "ChannelFull"))
    BY AbortSound DEF Sound
  <2>2. Abort(g, "ChannelFull").fault = "ChannelFull"
    BY <1>0 DEF Abort, Game
  <2>3. QED
    BY <1>1, <2>1, <2>2 DEF HandleLoginRequest, Enters
<1>2. CASE Registered(g) # Id
  <2> DEFINE id   == FreeSlot(g)
             team == TeamFor(g)
             r    == RegisterCharacter(g, s, id)
             told == [r EXCEPT
                       !.mPlayerId[s]      = id,
                       !.mClientIdList[id] = s,
                       !.loginResult[s]    = [id |-> id, team |-> team, seed |-> r.m_RandomSeed]]
  <2>1. id \in Id /\ g.mClientIdList[id] = NoSession
    BY <1>0, <1>2, FreeSlotFree DEF Tables, Registered
  <2>2. team \in {"RED", "BLUE"}
    BY DEF TeamFor
  <2>3. r \in Game /\ r.mClientIdList = g.mClientIdList
    <3>1. r \in Game
      BY <1>0, <2>1, RegisterCharacterType
    <3>2. QED
      BY <1>0, <3>1 DEF RegisterCharacter, Game
  <2>4. HandleLoginRequest(g, s, env) =
          IF s \in env.full THEN DisconnectAll(told, {s}, env) ELSE told
    BY <1>2, <2>1, <2>3 DEF HandleLoginRequest, LoginDone
  <2>5. told \in Game
    <3> HIDE DEF id, team, r
    <3>1. [id |-> id, team |-> team, seed |-> r.m_RandomSeed] \in LoginResult
      BY <2>1, <2>2, <2>3 DEF LoginResult, Game
    <3>2. QED
      BY <1>0, <2>1, <2>3, <3>1 DEF Game, Slots
  <2>6. Entered(g, told, s, id, team)
    <3> HIDE DEF id
    <3>1. QED
      BY <1>0, <2>1 DEF Entered, RegisterCharacter, TeamFor, Game
  <2> HIDE DEF id, team, r, told
  <2>7. Sound(told) /\ Enters(g, told, s)
    BY <2>1, <2>2, <2>5, <2>6, EnteredSound
  <2>8. /\ Sound(DisconnectAll(told, {s}, env))
        /\ Fades(told, DisconnectAll(told, {s}, env))
    <3>1. SoundBut(told, {s})
      BY <2>7 DEF Sound, SoundBut, PeersBut
    <3>2. QED
      BY <3>1, DisconnectAllSound
  <2>9. QED
    BY <1>0, <2>4, <2>5, <2>7, <2>8, EntersAndFades
<1>3. QED
  BY <1>1, <1>2

(* Registries that differ in what was announced.                           *)
Alike(g, h) ==
  /\ h.fault = g.fault /\ h.connected = g.connected
  /\ h.mPlayerId = g.mPlayerId /\ h.loginResult = g.loginResult
  /\ h.m_CharacterList = g.m_CharacterList /\ h.objectTable = g.objectTable
  /\ h.mClientIdList = g.mClientIdList /\ h.m_RandomSeed = g.m_RandomSeed
  /\ h.m_TeamBlue = g.m_TeamBlue /\ h.m_TeamRed = g.m_TeamRed

LEMMA AlikeSound ==
  ASSUME NEW g, NEW S, SoundBut(g, S), NEW h \in Game, Alike(g, h), NEW T,
         g.fault = "none" => PeersBut(h, T)
  PROVE  SoundBut(h, T) /\ Fades(g, h)
<1>1. Fades(g, h)
  BY DEF Fades, Alike
<1>2. CASE g.fault # "none"
  BY <1>1, <1>2 DEF SoundBut, Alike
<1>3. CASE g.fault = "none"
  <2>1. Tables(g) /\ Told(g) /\ Teams(g)
    BY <1>3 DEF SoundBut
  <2>2. Tables(h)
    BY <2>1 DEF Tables, Alike
  <2>3. Told(h)
    BY <2>1 DEF Told, Alike
  <2>4. Teams(h)
    BY <2>1 DEF Teams, Alike, Registered
  <2>5. QED
    BY <1>1, <1>3, <2>2, <2>3, <2>4 DEF SoundBut, Alike
<1>4. QED
  BY <1>2, <1>3

(* The newcomer is announced to the others before they are to it.          *)
LEMMA HandleGameStateRequestSound ==
  ASSUME NEW g, Sound(g), g.fault = "none", NEW s \in Session, g.mPlayerId[s] # NoId,
         g.connected \subseteq Listed, Listed \subseteq Session,
         NEW env, env.seed \in Seed, env.broken = {}
  PROVE  /\ Sound(HandleGameStateRequest(g, s, env))
         /\ Fades(g, HandleGameStateRequest(g, s, env))
<1> DEFINE sent == Broadcast(g, s, env.full, env)
           told == [t \in Session |->
                     IF t \in (Listed \ {s}) \cap sent.connected
                     THEN sent.announced[t] \cup ({g.mPlayerId[s]} \ {NoId})
                     ELSE sent.announced[t]]
           new  == [sent EXCEPT !.introduced = @ \cup {s}, !.announced = told]
           others == {new.mPlayerId[t] : t \in Listed \ {s}} \ {NoId}
           last == [new EXCEPT !.announced[s] = @ \cup others]
<1>0. g \in Game
  BY DEF Sound, SoundBut
<1>1. Sound(sent) /\ Fades(g, sent)
  BY BroadcastSound
<1>2. CASE ~OwnId(g, s)
  BY <1>2, FadesNothing DEF HandleGameStateRequest
<1>3. CASE OwnId(g, s) /\ s \notin sent.connected
  <2>1. HandleGameStateRequest(g, s, env) = sent
    BY <1>3 DEF HandleGameStateRequest, InitPlayerState
  <2>2. QED
    BY <1>1, <2>1
<1>4. CASE OwnId(g, s) /\ s \in sent.connected
  <2>1. HandleGameStateRequest(g, s, env) = InitPlayerState(new, s, env)
    BY <1>4 DEF HandleGameStateRequest
  <2>2. sent \in Game /\ (sent.fault = "none" => PeersBut(sent, {}))
    BY <1>1 DEF Sound, SoundBut
  <2>3. told \in [Session -> SUBSET Id] /\ \A t \in Session : sent.announced[t] \subseteq told[t]
    <3>1. {g.mPlayerId[s]} \ {NoId} \subseteq Id
      BY <1>0 DEF Game
    <3>2. sent.announced \in [Session -> SUBSET Id]
      BY <2>2 DEF Game
    <3> HIDE DEF sent
    <3>3. QED
      BY <3>1, <3>2
  <2>4. /\ new \in Game /\ Alike(sent, new)
        /\ new.introduced = sent.introduced \cup {s} /\ new.announced = told
    <3> HIDE DEF sent, told
    <3>1. QED
      BY <2>2, <2>3 DEF Game, Alike
  <2>5. sent.fault = "none" =>
          /\ sent.mPlayerId = g.mPlayerId /\ sent.connected \subseteq Listed
          /\ g.mPlayerId[s] \in Id
    BY <1>0, <1>1 DEF Fades, Game
  <2>6. sent.fault = "none" => PeersBut(new, {s})
    <3> SUFFICES ASSUME sent.fault = "none" PROVE PeersBut(new, {s})
      OBVIOUS
    <3>1. \A t \in new.introduced : t \in new.connected /\ new.mPlayerId[t] # NoId
      BY <1>4, <2>2, <2>4, <2>5 DEF PeersBut, Alike
    <3>2. ASSUME NEW a \in new.introduced, NEW b \in new.introduced \ {s}, a # b
          PROVE  new.mPlayerId[a] \in new.announced[b]
      <4>1. b \in sent.introduced /\ b \in Session /\ new.mPlayerId = g.mPlayerId
        BY <2>2, <2>4, <2>5 DEF Alike, Game
      <4>2. CASE a = s
        <5>1. b \in (Listed \ {s}) \cap sent.connected
          BY <2>2, <2>5, <4>1 DEF PeersBut
        <5>2. g.mPlayerId[s] \in told[b]
          BY <4>1, <5>1
        <5>3. QED
          BY <2>4, <4>1, <4>2, <5>2
      <4>3. CASE a # s
        <5>1. a \in sent.introduced /\ sent.mPlayerId[a] \in sent.announced[b]
          BY <2>2, <2>4, <3>2, <4>1, <4>3 DEF PeersBut
        <5>2. sent.mPlayerId[a] \in told[b]
          BY <2>3, <4>1, <5>1
        <5>3. QED
          BY <2>4, <2>5, <4>1, <5>2
      <4>4. QED
        BY <4>2, <4>3
    <3>3. QED
      BY <3>1, <3>2 DEF PeersBut
  <2> HIDE DEF sent, told
  <2>7. SoundBut(new, {s}) /\ Fades(sent, new)
    <3> HIDE DEF new
    <3>1. QED
      BY <1>1, <2>4, <2>6, AlikeSound DEF Sound
  <2>8. Fades(g, new)
    <3> HIDE DEF new
    <3>1. QED
      BY <1>0, <1>1, <2>7, FadesTwice
  <2>9. sent.fault = "none" =>
          new.connected \subseteq Listed /\ new.introduced \subseteq new.connected
    BY <2>4, <2>5, <2>6 DEF Alike, PeersBut
  <2>10. CASE s \notin new.connected \/ Listed \subseteq {s}
    <3>1. InitPlayerState(new, s, env) = new
      BY <2>10 DEF InitPlayerState
    <3>2. s \in new.connected /\ new.fault = sent.fault
      BY <1>4, <2>4 DEF Alike
    <3> HIDE DEF new
    <3>3. sent.fault = "none" => PeersBut(new, {})
      BY <2>6, <2>9, <2>10, <3>2 DEF PeersBut
    <3>4. Sound(new)
      BY <2>7, <3>2, <3>3 DEF Sound, SoundBut
    <3>5. QED
      BY <2>1, <2>8, <3>1, <3>4
  <2>11. CASE /\ ~(s \notin new.connected \/ Listed \subseteq {s})
              /\ s \in env.full2
    <3>1. InitPlayerState(new, s, env) = DisconnectAll(new, {s}, env)
      BY <2>11 DEF InitPlayerState
    <3> HIDE DEF new
    <3>2. Sound(DisconnectAll(new, {s}, env)) /\ Fades(new, DisconnectAll(new, {s}, env))
      BY <2>7, DisconnectAllSound
    <3>3. QED
      BY <1>0, <2>1, <2>4, <2>8, <3>1, <3>2, FadesTwice
  <2>12. CASE /\ ~(s \notin new.connected \/ Listed \subseteq {s})
              /\ s \notin env.full2
    <3>1. InitPlayerState(new, s, env) = last
      BY <2>12 DEF InitPlayerState
    <3>2. others \subseteq Id
      <4>1. new.mPlayerId \in [Session -> Id \cup {NoId}]
        BY <2>4 DEF Game
      <4>2. QED
        BY <4>1
    <3>3. /\ last \in Game /\ Alike(new, last) /\ last.introduced = new.introduced
          /\ \A t \in Session \ {s} : last.announced[t] = new.announced[t]
          /\ last.announced[s] = new.announced[s] \cup others
      <4>1. new.announced \in [Session -> SUBSET Id]
        BY <2>4 DEF Game
      <4> HIDE DEF new, others
      <4>2. QED
        BY <2>4, <3>2, <4>1 DEF Game, Alike
    <3> HIDE DEF last
    <3>4. ASSUME new.fault = "none"
          PROVE  PeersBut(last, {})
      <4>1. sent.fault = "none"
        BY <2>4, <3>4 DEF Alike
      <4>2. \A a \in new.introduced \ {s} : new.mPlayerId[a] \in others
        BY <2>6, <2>9, <4>1 DEF PeersBut
      <4> HIDE DEF new, others
      <4>3. new.introduced \subseteq Session
        BY <2>4 DEF Game
      <4>4. \A a, b \in new.introduced : a # b => new.mPlayerId[a] \in last.announced[b]
        BY <2>6, <3>3, <4>1, <4>2, <4>3 DEF PeersBut
      <4>5. QED
        BY <2>6, <3>3, <4>1, <4>4 DEF PeersBut, Alike
    <3> HIDE DEF new
    <3>5. Sound(last) /\ Fades(new, last)
      BY <2>7, <3>3, <3>4, AlikeSound DEF Sound
    <3>6. QED
      BY <1>0, <2>1, <2>4, <2>8, <3>1, <3>5, FadesTwice
  <2>13. QED
    BY <2>10, <2>11, <2>12
<1>5. QED
  BY <1>2, <1>3, <1>4

-----------------------------------------------------------------------------
(* The state around the registry.                                          *)
(* The live sessions are listed under their own handles, and the handles   *)
(* that wait are open, different, and nobody's.                            *)
Handles ==
  /\ \A s \in allocated : mSocket[s] \in Sock /\ mClientList[mSocket[s]] = s
  /\ \A i \in DOMAIN pending : pending[i] \in openSocks /\ mClientList[pending[i]] = NoSession
  /\ \A i, j \in DOMAIN pending : pending[i] = pending[j] => i = j

(* The first request of a client is its login, and the only one.           *)
LoginOf(q) == q = <<>> \/ q = <<"LOGIN">>
NoLoginIn(q) == \A i \in DOMAIN q : q[i] # "LOGIN"

InTurn(id, open, buffered, flying) ==
  IF id = NoId
  THEN /\ open /\ LoginOf(buffered) /\ LoginOf(flying)
       /\ buffered = <<>> \/ flying = <<>>
  ELSE NoLoginIn(buffered) /\ NoLoginIn(flying)

(* Requests are buffered only while they are dispatched; a login waits     *)
(* nowhere but with a session that is connected and has no id.             *)
Requests ==
  /\ reading # NoSession => pc = "sleep"
  /\ \A s \in Session : s # reading => recvBuffer[s] = <<>>
  /\ \A s \in allocated :
       InTurn(game.mPlayerId[s], s \in game.connected, recvBuffer[s], inFlight[s])

Around == Handles /\ Requests /\ game.connected \subseteq allocated

RegistryInv == IOInv /\ Sound(game) /\ (Running => Around)

(* How ids pass from one session to another.                               *)
Passes(g, h) ==
  \A id \in Id :
    LET old == g.mClientIdList[id] IN
    h.fault = "none" /\ old # NoSession /\ h.mClientIdList[id] # old =>
      h.mClientIdList[id] = NoSession /\ old \notin h.connected

LEMMA FadesPasses == ASSUME NEW g, NEW h, Fades(g, h) PROVE Passes(g, h)
BY DEF Fades, Passes

LEMMA EntersPasses == ASSUME NEW g, NEW h, NEW s, Enters(g, h, s) PROVE Passes(g, h)
BY DEF Enters, Passes

LEMMA AllListed ==
  ASSUME RegistryInv, Running
  PROVE  game.connected \subseteq Listed /\ allocated \subseteq Listed
BY NoSessionAssumption DEF RegistryInv, IOInv, TypeOK, Around, Handles, Listed

(* What Apply leaves of the handles.                                       *)
LEMMA ApplyHandles ==
  ASSUME RegistryInv, Running, NEW g, NEW flight, Apply(g, flight),
         UNCHANGED <<allocated, mSocket, mClientList, pending>>
  PROVE  Handles'
<1>1. /\ game.connected \subseteq allocated /\ Handles /\ allocated \subseteq Session
  BY DEF RegistryInv, IOInv, TypeOK, Around
<1>2. \A s \in game.connected \ g.connected : mClientList[mSocket[s]] # NoSession
  BY <1>1, NoSessionAssumption DEF Handles
<1>3. \A i \in DOMAIN pending : pending[i] \in openSocks'
  BY <1>1, <1>2 DEF Handles, Apply
<1>4. QED
  BY <1>1, <1>3 DEF Handles

(* What disconnections leave of the requests.                              *)
LEMMA FadesInTurn ==
  ASSUME RegistryInv, Running, NEW g, Fades(game, g), g.fault = "none", Apply(g, inFlight),
         NEW s \in allocated
  PROVE  /\ game.mPlayerId[s] = NoId =>
              s \in game'.connected /\ game'.mPlayerId[s] = NoId /\ inFlight'[s] = inFlight[s]
         /\ game.mPlayerId[s] # NoId =>
              game'.mPlayerId[s] # NoId /\ NoLoginIn(inFlight'[s])
<1>1. /\ s \in Session /\ game' = g /\ g.mPlayerId = game.mPlayerId
      /\ InTurn(game.mPlayerId[s], s \in game.connected, recvBuffer[s], inFlight[s])
  BY DEF RegistryInv, IOInv, TypeOK, Around, Requests, Apply, Fades
<1>2. inFlight'[s] = IF s \in game.connected \ g.connected THEN <<>> ELSE inFlight[s]
  BY <1>1 DEF Apply
<1>3. \A t \in game.connected \ g.connected : game.mPlayerId[t] # NoId
  BY DEF Fades
<1>4. NoLoginIn(<<>>)
  BY DEF NoLoginIn
<1>5. CASE game.mPlayerId[s] = NoId
  <2>1. s \in game.connected
    BY <1>1, <1>5 DEF InTurn
  <2>2. QED
    BY <1>1, <1>2, <1>3, <1>5, <2>1
<1>6. CASE game.mPlayerId[s] # NoId
  <2>1. NoLoginIn(inFlight[s])
    BY <1>1, <1>6 DEF InTurn
  <2>2. QED
    BY <1>1, <1>2, <1>4, <1>6, <2>1
<1>7. QED
  BY <1>5, <1>6

(* A step that disconnects and takes nothing from the buffers.             *)
LEMMA FadesAround ==
  ASSUME RegistryInv, Running, NEW g, Sound(g), Fades(game, g), Apply(g, inFlight),
         UNCHANGED <<allocated, mSocket, mClientList, pending, recvBuffer>>,
         reading' = NoSession, reading # NoSession => recvBuffer[reading] = <<>>
  PROVE  Sound(game') /\ (Running' => Around') /\ Passes(game, game')
<1>1. game' = g /\ Sound(game') /\ Passes(game, game')
  BY FadesPasses DEF Apply
<1>2. ASSUME Running'
      PROVE  Around'
  <2>1. g.fault = "none"
    BY <1>1, <1>2 DEF Running
  <2>2. Handles'
    BY ApplyHandles
  <2>3. /\ \A s \in Session : s # reading => recvBuffer[s] = <<>>
        /\ \A s \in allocated :
             InTurn(game.mPlayerId[s], s \in game.connected, recvBuffer[s], inFlight[s])
        /\ game.connected \subseteq allocated
    BY DEF RegistryInv, Around, Requests
  <2>4. ASSUME NEW s \in allocated
        PROVE  InTurn(game'.mPlayerId[s], s \in game'.connected, recvBuffer'[s], inFlight'[s])
    BY <2>1, <2>3, FadesInTurn DEF InTurn
  <2>5. Requests'
    BY <2>3, <2>4 DEF Requests
  <2>6. game'.connected \subseteq allocated'
    BY <1>1, <2>1, <2>3 DEF Fades
  <2>7. QED
    BY <2>2, <2>5, <2>6 DEF Around
<1>3. QED
  BY <1>1, <1>2

LEMMA AcceptRegistry ==
  ASSUME RegistryInv, ~HandleReuse, NEW k \in Sock, Accept(k)
  PROVE  Sound(game') /\ (Running' => Around') /\ Passes(game, game')
<1>1. /\ Running /\ Around /\ Sound(game) /\ game' = game /\ pending \in Seq(Sock)
  BY DEF Accept, RegistryInv, IOInv, TypeOK
<1>2. /\ k \notin openSocks /\ mClientList[k] = NoSession
      /\ openSocks' = openSocks \cup {k} /\ pending' = Append(pending, k)
      /\ UNCHANGED <<pc, reading, allocated, mSocket, mClientList, recvBuffer, inFlight>>
  BY DEF Accept, clientVars
<1>3. /\ DOMAIN pending' = 1 .. Len(pending) + 1 /\ pending'[Len(pending) + 1] = k
      /\ \A i \in DOMAIN pending : pending'[i] = pending[i]
      /\ DOMAIN pending = 1 .. Len(pending) /\ Len(pending) \in Nat
  BY <1>1, <1>2
<1>4. Handles'
  <2>1. \A i \in DOMAIN pending : pending[i] # k
    BY <1>1, <1>2 DEF Around, Handles
  <2>2. \A i \in DOMAIN pending' : i \in DOMAIN pending \/ i = Len(pending) + 1
    BY <1>3
  <2>3. \A i \in DOMAIN pending' : pending'[i] \in openSocks' /\ mClientList'[pending'[i]] = NoSession
    BY <1>1, <1>2, <1>3, <2>2 DEF Around, Handles
  <2>4. \A i, j \in DOMAIN pending' : pending'[i] = pending'[j] => i = j
    BY <1>1, <1>3, <2>1, <2>2 DEF Around, Handles
  <2>5. QED
    BY <1>1, <1>2, <2>3, <2>4 DEF Around, Handles
<1>5. Requests' /\ game'.connected \subseteq allocated'
  BY <1>1, <1>2 DEF Around, Requests
<1>6. QED
  BY <1>1, <1>4, <1>5, FadesNothing, FadesPasses DEF Around

LEMMA ClientSendsRegistry ==
  ASSUME RegistryInv, NEW s \in Session, ClientSends(s)
  PROVE  Sound(game') /\ (Running' => Around') /\ Passes(game, game')
<1>1. /\ Running /\ Around /\ Sound(game) /\ game' = game /\ Told(game)
      /\ inFlight \in [Session -> Seq(Request)]
  BY DEF ClientSends, RegistryInv, IOInv, TypeOK, Running, Sound, SoundBut
<1>2. game.mPlayerId[s] # NoId /\ s \in allocated
  BY <1>1 DEF ClientSends, Told, Around
<1>3. PICK r \in {"PLAY", "GAME_STATE"} : inFlight' = [inFlight EXCEPT ![s] = Append(@, r)]
  <2>1. inFlight' = [inFlight EXCEPT ![s] = Append(@, IF s \in stateAsked THEN "PLAY" ELSE "GAME_STATE")]
    BY DEF ClientSends
  <2>2. QED
    BY <2>1
<1>4. NoLoginIn(inFlight[s])
  BY <1>1, <1>2 DEF Around, Requests, InTurn
<1>5. NoLoginIn(Append(inFlight[s], r))
  BY <1>1, <1>4 DEF NoLoginIn
<1>6. UNCHANGED <<pc, reading, allocated, openSocks, pending, mSocket, mClientList, recvBuffer>>
  BY DEF ClientSends, tableVars
<1>7. Requests'
  <2>1. inFlight'[s] = Append(inFlight[s], r) /\ \A t \in Session \ {s} : inFlight'[t] = inFlight[t]
    BY <1>1, <1>3
  <2>2. allocated \subseteq Session
    BY DEF RegistryInv, IOInv, TypeOK
  <2>3. QED
    BY <1>1, <1>2, <1>5, <1>6, <2>1, <2>2 DEF Around, Requests, InTurn
<1>8. Handles' /\ game'.connected \subseteq allocated'
  BY <1>1, <1>6 DEF Around, Handles
<1>9. QED
  BY <1>1, <1>7, <1>8, FadesNothing, FadesPasses DEF Around

LEMMA TakenRequests ==
  ASSUME NEW f \in Seq(Request), NEW n \in Nat, n <= Len(f)
  PROVE  /\ NoLoginIn(f) => NoLoginIn(SubSeq(f, 1, n)) /\ NoLoginIn(SubSeq(f, n + 1, Len(f)))
         /\ LoginOf(f) => /\ LoginOf(SubSeq(f, 1, n)) /\ LoginOf(SubSeq(f, n + 1, Len(f)))
                          /\ SubSeq(f, 1, n) = <<>> \/ SubSeq(f, n + 1, Len(f)) = <<>>
<1>1. NoLoginIn(f) => NoLoginIn(SubSeq(f, 1, n)) /\ NoLoginIn(SubSeq(f, n + 1, Len(f)))
  BY DEF NoLoginIn
<1>2. CASE n = 0
  <2>1. SubSeq(f, 1, n) = <<>> /\ SubSeq(f, n + 1, Len(f)) = f
    BY <1>2
  <2>2. QED
    BY <1>1, <2>1 DEF LoginOf
<1>3. CASE n = Len(f)
  <2>1. SubSeq(f, 1, n) = f /\ SubSeq(f, n + 1, Len(f)) = <<>>
    BY <1>3
  <2>2. QED
    BY <1>1, <2>1 DEF LoginOf
<1>4. CASE n # 0 /\ n # Len(f)
  <2>1. ~LoginOf(f)
    <3>1. f = <<>> => Len(f) = 0
      OBVIOUS
    <3>2. f = <<"LOGIN">> => Len(f) = 1
      OBVIOUS
    <3>3. Len(f) \in Nat
      OBVIOUS
    <3>4. Len(f) # 0 /\ Len(f) # 1
      <4> DEFINE m == Len(f)
      <4>1. m \in Nat /\ n <= m /\ n # 0 /\ n # m
        BY <1>4, <3>3
      <4> HIDE DEF m
      <4>2. m # 0 /\ m # 1
        BY <4>1
      <4>3. QED
        BY <4>2 DEF m
    <3>5. QED
      BY <3>1, <3>2, <3>4 DEF LoginOf
  <2>2. QED
    BY <1>1, <2>1
<1>5. QED
  BY <1>2, <1>3, <1>4

LEMMA RecvDataRegistry ==
  ASSUME RegistryInv, NEW s \in Session, NEW n \in Nat, n <= Len(inFlight[s]), RecvData(s, n)
  PROVE  Sound(game') /\ (Running' => Around') /\ Passes(game, game')
<1>1. /\ Running /\ Around /\ Sound(game) /\ game' = game
      /\ inFlight \in [Session -> Seq(Request)] /\ recvBuffer \in [Session -> Seq(Request)]
      /\ allocated \subseteq Session
  BY DEF RecvData, EndRecv, Apc, RegistryInv, IOInv, TypeOK
<1>2. /\ reading = NoSession /\ reading' = s /\ pc' = pc /\ pc = "sleep"
      /\ UNCHANGED <<allocated, openSocks, pending, mSocket, mClientList>>
  BY DEF RecvData, EndRecv, Apc
<1> DEFINE f == inFlight[s]
           taken == SubSeq(f, 1, n)
           rest == SubSeq(f, n + 1, Len(f))
<1>3. recvBuffer[s] = <<>> /\ taken \in Seq(Request)
  BY <1>1, <1>2, NoSessionAssumption DEF Around, Requests
<1>4. /\ recvBuffer'[s] = taken /\ inFlight'[s] = rest
      /\ \A t \in Session \ {s} : recvBuffer'[t] = recvBuffer[t] /\ inFlight'[t] = inFlight[t]
  <2>1. /\ recvBuffer' = [recvBuffer EXCEPT ![s] = @ \o taken]
        /\ inFlight' = [inFlight EXCEPT ![s] = rest]
    BY DEF RecvData
  <2>2. recvBuffer[s] \o taken = taken
    <3> HIDE DEF taken
    <3>1. QED
      BY <1>3
  <2> HIDE DEF taken, rest
  <2>3. QED
    BY <1>1, <2>1, <2>2
<1>5. /\ NoLoginIn(f) => NoLoginIn(taken) /\ NoLoginIn(rest)
      /\ LoginOf(f) => /\ LoginOf(taken) /\ LoginOf(rest)
                       /\ taken = <<>> \/ rest = <<>>
  BY <1>1, TakenRequests
<1> HIDE DEF taken, rest
<1>6. ASSUME NEW t \in allocated
      PROVE  InTurn(game.mPlayerId[t], t \in game.connected, recvBuffer'[t], inFlight'[t])
  <2>1. InTurn(game.mPlayerId[t], t \in game.connected, recvBuffer[t], inFlight[t])
    BY <1>1 DEF Around, Requests
  <2>2. CASE t = s
    BY <1>4, <1>5, <2>1, <2>2 DEF InTurn
  <2>3. CASE t # s
    BY <1>1, <1>4, <2>1, <2>3
  <2>4. QED
    BY <2>2, <2>3
<1>7. Requests'
  <2>1. \A t \in Session : t # s => recvBuffer'[t] = <<>>
    BY <1>1, <1>2, <1>4, NoSessionAssumption DEF Around, Requests
  <2>2. QED
    BY <1>1, <1>2, <1>6, <2>1 DEF Requests
<1>8. Handles' /\ game'.connected \subseteq allocated'
  BY <1>1, <1>2 DEF Around, Handles
<1>9. QED
  BY <1>1, <1>7, <1>8, FadesNothing, FadesPasses DEF Around

(* OnRead: a login is dispatched only to a session without an id.          *)
LEMMA HeadInTurn ==
  ASSUME NEW b \in Seq(Request), b # <<>>, NEW id, NEW open, NEW f, InTurn(id, open, b, f)
  PROVE  /\ id = NoId <=> Head(b) = "LOGIN"
         /\ id = NoId => Tail(b) = <<>> /\ f = <<>>
         /\ id # NoId => NoLoginIn(Tail(b))
<1>1. CASE id = NoId
  <2>1. b = <<"LOGIN">> /\ f = <<>>
    BY <1>1 DEF InTurn, LoginOf
  <2>2. Head(b) = "LOGIN" /\ Tail(b) = <<>>
    BY <2>1
  <2>3. QED
    BY <1>1, <2>1, <2>2
<1>2. CASE id # NoId
  <2>1. \A i \in DOMAIN b : b[i] # "LOGIN"
    BY <1>2 DEF InTurn, NoLoginIn
  <2>2. Head(b) # "LOGIN"
    BY <2>1
  <2>3. \A i \in DOMAIN Tail(b) : Tail(b)[i] = b[i + 1] /\ i + 1 \in DOMAIN b
    OBVIOUS
  <2>4. QED
    BY <1>2, <2>1, <2>2, <2>3 DEF NoLoginIn
<1>3. QED
  BY <1>1, <1>2

LEMMA DispatchFades ==
  ASSUME RegistryInv, NEW s \in Session, NEW request \in {"GAME_STATE", "PLAY"}, NEW g,
         Dispatch(s, request, g), Sound(g), Fades(game, g)
  PROVE  Sound(game') /\ (Running' => Around') /\ Passes(game, game')
<1>1. game' = g /\ Apply(g, inFlight) /\ Running /\ reading = s
  BY DEF Dispatch, Apply
<1>2. /\ UNCHANGED <<pc, reading, allocated, mSocket, mClientList, pending>>
      /\ recvBuffer' = [recvBuffer EXCEPT ![s] = Tail(@)]
      /\ recvBuffer[s] # <<>> /\ Head(recvBuffer[s]) = request
  BY DEF Dispatch
<1>3. /\ Around /\ allocated \subseteq Session /\ recvBuffer \in [Session -> Seq(Request)]
  BY <1>1 DEF RegistryInv, IOInv, TypeOK
<1>4. ASSUME Running'
      PROVE  Around'
  <2>1. g.fault = "none"
    BY <1>1, <1>4 DEF Running
  <2>2. Handles'
    BY <1>1, <1>2, ApplyHandles
  <2>3. ASSUME NEW t \in allocated
        PROVE  InTurn(game'.mPlayerId[t], t \in game'.connected, recvBuffer'[t], inFlight'[t])
    <3>1. InTurn(game.mPlayerId[t], t \in game.connected, recvBuffer[t], inFlight[t])
      BY <1>3 DEF Around, Requests
    <3>2. CASE t = s
      <4>1. game.mPlayerId[t] # NoId /\ NoLoginIn(Tail(recvBuffer[t]))
        BY <1>2, <1>3, <3>1, <3>2, HeadInTurn
      <4>2. recvBuffer'[t] = Tail(recvBuffer[t])
        BY <1>2, <1>3, <3>2
      <4>3. QED
        BY <1>1, <2>1, <4>1, <4>2, FadesInTurn DEF InTurn
    <3>3. CASE t # s
      <4>1. recvBuffer'[t] = recvBuffer[t]
        BY <1>2, <1>3, <3>3
      <4>2. QED
        BY <1>1, <2>1, <3>1, <4>1, FadesInTurn DEF InTurn
    <3>4. QED
      BY <3>2, <3>3
  <2>4. Requests'
    BY <1>1, <1>2, <1>3, <2>3 DEF Around, Requests
  <2>5. game'.connected \subseteq allocated'
    BY <1>1, <1>2, <1>3, <2>1 DEF Fades, Around
  <2>6. QED
    BY <2>2, <2>4, <2>5 DEF Around
<1>5. QED
  BY <1>1, <1>4, FadesPasses

LEMMA LoginRegistry ==
  ASSUME RegistryInv, NEW s \in Session, NEW env, env.seed \in Seed, env.broken = {},
         Login(s, env)
  PROVE  Sound(game') /\ (Running' => Around') /\ Passes(game, game')
<1> DEFINE g == HandleLoginRequest(game, s, env)
<1>1. game' = g /\ Apply(g, inFlight) /\ Running /\ reading = s
  BY DEF Login, Dispatch, Apply
<1>2. /\ UNCHANGED <<pc, reading, allocated, mSocket, mClientList, pending>>
      /\ recvBuffer' = [recvBuffer EXCEPT ![s] = Tail(@)]
      /\ recvBuffer[s] # <<>> /\ Head(recvBuffer[s]) = "LOGIN"
  BY DEF Login, Dispatch
<1>3. /\ Around /\ Sound(game) /\ allocated \subseteq Session /\ s \in allocated
      /\ recvBuffer \in [Session -> Seq(Request)] /\ inFlight \in [Session -> Seq(Request)]
  BY <1>1, NoSessionAssumption DEF RegistryInv, IOInv, TypeOK, Account
<1>4. /\ game.mPlayerId[s] = NoId /\ s \in game.connected
      /\ Tail(recvBuffer[s]) = <<>> /\ inFlight[s] = <<>>
  <2>1. InTurn(game.mPlayerId[s], s \in game.connected, recvBuffer[s], inFlight[s])
    BY <1>3 DEF Around, Requests
  <2>2. /\ game.mPlayerId[s] = NoId
        /\ Tail(recvBuffer[s]) = <<>> /\ inFlight[s] = <<>>
    BY <1>2, <1>3, <2>1, HeadInTurn
  <2>3. QED
    BY <2>1, <2>2 DEF InTurn
<1>5. Sound(g) /\ Enters(game, g, s)
  BY <1>1, <1>3, <1>4, HandleLoginRequestSound DEF Running
<1> HIDE DEF g
<1>6. ASSUME Running'
      PROVE  Around'
  <2>1. g.fault = "none" /\ NoLoginIn(<<>>)
    BY <1>1, <1>6 DEF Running, NoLoginIn
  <2>2. Handles'
    BY <1>1, <1>2, ApplyHandles
  <2>3. ASSUME NEW t \in allocated
        PROVE  InTurn(game'.mPlayerId[t], t \in game'.connected, recvBuffer'[t], inFlight'[t])
    <3>1. InTurn(game.mPlayerId[t], t \in game.connected, recvBuffer[t], inFlight[t])
      BY <1>3 DEF Around, Requests
    <3>2. inFlight'[t] = IF t \in game.connected \ g.connected THEN <<>> ELSE inFlight[t]
      BY <1>1, <1>3 DEF Apply
    <3>3. CASE t = s
      <4>1. game'.mPlayerId[t] # NoId
        BY <1>1, <1>5, <2>1, <3>3 DEF Enters
      <4>2. recvBuffer'[t] = <<>> /\ inFlight'[t] = <<>>
        BY <1>2, <1>3, <1>4, <3>2, <3>3
      <4>3. QED
        BY <2>1, <4>1, <4>2 DEF InTurn
    <3>4. CASE t # s
      <4>1. recvBuffer'[t] = recvBuffer[t] /\ game'.mPlayerId[t] = game.mPlayerId[t]
        BY <1>1, <1>2, <1>3, <1>5, <2>1, <3>4 DEF Enters
      <4>2. t \in game.connected \ g.connected => game.mPlayerId[t] # NoId
        BY <1>1, <1>5, <2>1, <4>1 DEF Enters
      <4>3. QED
        BY <1>1, <2>1, <3>1, <3>2, <4>1, <4>2 DEF InTurn
    <3>5. QED
      BY <3>3, <3>4
  <2>4. Requests'
    BY <1>1, <1>2, <1>3, <2>3 DEF Around, Requests
  <2>5. game'.connected \subseteq allocated'
    BY <1>1, <1>2, <1>3, <1>5, <2>1 DEF Enters, Around
  <2>6. QED
    BY <2>2, <2>4, <2>5 DEF Around
<1>7. QED
  BY <1>1, <1>5, <1>6, EntersPasses

LEMMA HandlerRegistry ==
  ASSUME RegistryInv, NEW s \in Session, NEW env, env.seed \in Seed, env.broken = {},
         Handler(s, env)
  PROVE  Sound(game') /\ (Running' => Around') /\ Passes(game, game')
<1>1. /\ Running /\ game.fault = "none" /\ Sound(game) /\ Around
      /\ reading = s /\ s \in allocated /\ recvBuffer[s] # <<>>
      /\ recvBuffer \in [Session -> Seq(Request)]
  <2>1. Running /\ reading = s /\ recvBuffer[s] # <<>>
    BY DEF Handler, Login, GameState, Stop, Rotation, Respawn, Acceleration, Gather, Push,
           RefusedSkill, Dispatch
  <2>2. QED
    BY <2>1, NoSessionAssumption DEF RegistryInv, IOInv, TypeOK, Account, Running
<1>2. /\ Sound(HandleStopRequest(game, s, env)) /\ Fades(game, HandleStopRequest(game, s, env))
      /\ Sound(HandleRespawnRequest(game, s, env)) /\ Fades(game, HandleRespawnRequest(game, s, env))
  BY <1>1, PlaySound
<1>3. \A target : /\ Sound(HandleSkill(game, s, target, env))
                  /\ Fades(game, HandleSkill(game, s, target, env))
  BY <1>1, HandleSkillSound
<1>4. CASE Login(s, env)
  BY <1>4, LoginRegistry
<1>5. CASE GameState(s, env)
  <2>1. Dispatch(s, "GAME_STATE", HandleGameStateRequest(game, s, env))
    BY <1>5 DEF GameState
  <2>2. game.mPlayerId[s] # NoId
    <3>1. Head(recvBuffer[s]) # "LOGIN"
      BY <2>1 DEF Dispatch
    <3>2. InTurn(game.mPlayerId[s], s \in game.connected, recvBuffer[s], inFlight[s])
      BY <1>1 DEF Around, Requests
    <3>3. QED
      BY <1>1, <3>1, <3>2, HeadInTurn
  <2>3. game.connected \subseteq Listed /\ Listed \subseteq Session
    BY <1>1, AllListed, ListedType DEF RegistryInv
  <2>4. /\ Sound(HandleGameStateRequest(game, s, env))
        /\ Fades(game, HandleGameStateRequest(game, s, env))
    BY <1>1, <2>2, <2>3, HandleGameStateRequestSound
  <2>5. QED
    BY <2>1, <2>4, DispatchFades
<1>6. CASE Stop(s, env)
  BY <1>2, <1>6, DispatchFades DEF Stop
<1>7. CASE Rotation(s, env)
  BY <1>2, <1>7, DispatchFades DEF Rotation, HandleRotationRequest
<1>8. CASE Respawn(s, env)
  BY <1>2, <1>8, DispatchFades DEF Respawn
<1>9. CASE Acceleration(s, env)
  BY <1>3, <1>9, DispatchFades DEF Acceleration, HandleAccelerationRequest
<1>10. CASE Gather(s, env)
  BY <1>3, <1>10, DispatchFades DEF Gather, SkillGather
<1>11. CASE Push(s, env)
  BY <1>3, <1>11, DispatchFades DEF Push
<1>12. CASE RefusedSkill(s)
  BY <1>1, <1>12, FadesNothing, DispatchFades DEF RefusedSkill
<1>13. QED
  BY <1>4, <1>5, <1>6, <1>7, <1>8, <1>9, <1>10, <1>11, <1>12 DEF Handler

LEMMA DisconnectSound ==
  ASSUME NEW g, Sound(g), NEW S, NEW env, env.seed \in Seed, env.broken = {}
  PROVE  Sound(DisconnectAll(g, S, env)) /\ Fades(g, DisconnectAll(g, S, env))
<1>1. SoundBut(g, S)
  BY DEF Sound, SoundBut, PeersBut
<1>2. QED
  BY <1>1, DisconnectAllSound

LEMMA RecvFailedRegistry ==
  ASSUME RegistryInv, NEW s \in Session, NEW env, env.seed \in Seed, env.broken = {},
         RecvFailed(s, env)
  PROVE  Sound(game') /\ (Running' => Around') /\ Passes(game, game')
<1> DEFINE g == DisconnectAll(game, {s}, env)
<1>1. Sound(g) /\ Fades(game, g)
  BY DisconnectSound DEF RegistryInv
<1>2. /\ Running /\ Apply(g, inFlight) /\ reading = NoSession /\ reading' = NoSession
      /\ UNCHANGED <<allocated, mSocket, mClientList, pending, recvBuffer>>
  BY DEF RecvFailed, EndRecv, Apc
<1> HIDE DEF g
<1>3. QED
  BY <1>1, <1>2, FadesAround

LEMMA SendCompletionRegistry ==
  ASSUME RegistryInv, NEW s \in Session, NEW ok \in BOOLEAN,
         NEW env, env.seed \in Seed, env.broken = {}, SendCompletion(s, ok, env)
  PROVE  Sound(game') /\ (Running' => Around') /\ Passes(game, game')
<1> DEFINE g == IF ok THEN game ELSE DisconnectAll(game, {s}, env)
<1>1. Sound(g) /\ Fades(game, g)
  BY DisconnectSound, FadesNothing DEF RegistryInv
<1>2. /\ Running /\ Apply(g, inFlight) /\ reading = NoSession /\ reading' = NoSession
      /\ UNCHANGED <<allocated, mSocket, mClientList, pending, recvBuffer>>
  BY DEF SendCompletion, Apc
<1> HIDE DEF g
<1>3. QED
  BY <1>1, <1>2, FadesAround

LEMMA PostRecvRegistry ==
  ASSUME RegistryInv, NEW s \in Session, NEW posted \in BOOLEAN,
         NEW env, env.seed \in Seed, env.broken = {}, PostRecv(s, posted, env)
  PROVE  Sound(game') /\ (Running' => Around') /\ Passes(game, game')
<1>1. /\ Running /\ reading = s /\ recvBuffer[s] = <<>> /\ reading' = NoSession
      /\ UNCHANGED <<allocated, mSocket, mClientList, pending, recvBuffer>>
  BY DEF PostRecv
<1>2. CASE posted /\ s \in game.connected
  <2>1. game' = game /\ openSocks' = openSocks /\ inFlight' = inFlight
    BY <1>2 DEF PostRecv
  <2>2. inFlight = [t \in Session |-> inFlight[t]]
    BY DEF RegistryInv, IOInv, TypeOK
  <2>3. Apply(game, inFlight)
    BY <2>1, <2>2 DEF Apply
  <2>4. QED
    BY <1>1, <2>3, FadesNothing, FadesAround DEF RegistryInv
<1>3. CASE ~(posted /\ s \in game.connected)
  <2> DEFINE g == DisconnectAll(game, {s}, env)
  <2>1. Sound(g) /\ Fades(game, g)
    BY DisconnectSound DEF RegistryInv
  <2>2. Apply(g, inFlight)
    BY <1>3 DEF PostRecv
  <2> HIDE DEF g
  <2>3. QED
    BY <1>1, <2>1, <2>2, FadesAround
<1>4. QED
  BY <1>2, <1>3

LEMMA FlushClientSendRegistry ==
  ASSUME RegistryInv, NEW post \in SUBSET Session,
         NEW env, env.seed \in Seed, env.broken = {}, FlushClientSend(post, env)
  PROVE  Sound(game') /\ (Running' => Around') /\ Passes(game, game')
<1> DEFINE g == DisconnectAll(game, Listed \cap env.full, env)
<1>1. Sound(g) /\ Fades(game, g)
  BY DisconnectSound DEF RegistryInv
<1>2. /\ Running /\ Apply(g, inFlight) /\ pc = "loop" /\ reading' = reading
      /\ UNCHANGED <<allocated, mSocket, mClientList, pending, recvBuffer>>
  BY DEF FlushClientSend
<1>3. reading = NoSession
  BY <1>2 DEF RegistryInv, Around, Requests
<1> HIDE DEF g
<1>4. QED
  BY <1>1, <1>2, <1>3, FadesAround

(* A session that cannot receive has no id, and its disconnection stops    *)
(* the program.                                                            *)
LEMMA CreateClientRegistry ==
  ASSUME RegistryInv, NEW s \in Session, NEW posted \in BOOLEAN,
         NEW env, env.seed \in Seed, env.broken = {}, CreateClient(s, posted, env)
  PROVE  Sound(game') /\ (Running' => Around') /\ Passes(game, game')
<1> USE NoSessionAssumption
<1> DEFINE k == Head(pending)
           g == [game EXCEPT !.mPlayerId[s] = NoId, !.loginResult[s] = NoLogin,
                             !.connected = @ \cup {s}]
<1>1. /\ Running /\ Around /\ game \in Game /\ game.fault = "none"
      /\ Tables(game) /\ Told(game) /\ Teams(game) /\ PeersBut(game, {})
      /\ pending \in Seq(Sock) /\ pending # <<>> /\ s \notin allocated
      /\ allocated \subseteq Session /\ mSocket \in [Session -> Sock \cup {NoSock}]
      /\ mClientList \in [Sock -> Session \cup {NoSession}]
      /\ inFlight \in [Session -> Seq(Request)] /\ recvBuffer \in [Session -> Seq(Request)]
      /\ reading # NoSession => reading \in allocated
  BY DEF CreateClient, RegistryInv, IOInv, TypeOK, Account, Running, Sound, SoundBut
<1>2. s \notin game.connected
  BY <1>1 DEF Around
<1>3. /\ g \in Game /\ g.fault = "none" /\ g.mPlayerId[s] = NoId /\ g.loginResult[s] = NoLogin
      /\ g.connected = game.connected \cup {s} /\ g.introduced = game.introduced
      /\ \A t \in Session \ {s} : /\ g.mPlayerId[t] = game.mPlayerId[t]
                                 /\ g.loginResult[t] = game.loginResult[t]
      /\ g.m_CharacterList = game.m_CharacterList /\ g.objectTable = game.objectTable
      /\ g.mClientIdList = game.mClientIdList /\ g.m_RandomSeed = game.m_RandomSeed
      /\ g.m_TeamBlue = game.m_TeamBlue /\ g.m_TeamRed = game.m_TeamRed
      /\ g.announced = game.announced
  BY <1>1 DEF Game
<1> HIDE DEF g
<1>4. NoId \notin Id /\ game.connected \subseteq Session /\ game.introduced \subseteq game.connected
  BY <1>1, PlayerNumAssumption DEF Id, NoId, PeersBut, Game
<1>5. Sound(g)
  <2>1. Tables(g)
    <3>1. ASSUME NEW id \in Id, NEW t \in Session
          PROVE  g.mClientIdList[id] = t <=> t \in g.connected /\ g.mPlayerId[t] = id
      <4>1. game.mClientIdList[id] = t <=> t \in game.connected /\ game.mPlayerId[t] = id
        BY <1>1 DEF Tables
      <4>2. QED
        BY <1>2, <1>3, <1>4, <4>1
    <3>2. QED
      BY <1>1, <1>3, <3>1 DEF Tables
  <2>2. Told(g)
    <3> SUFFICES ASSUME NEW t \in g.connected
                 PROVE  LET login == g.loginResult[t] IN
                        IF g.mPlayerId[t] = NoId THEN login = NoLogin
                        ELSE /\ login.id = g.mPlayerId[t] /\ login.seed = g.m_RandomSeed
                             /\ login.id \in g.m_TeamBlue <=> login.team = "BLUE"
                             /\ login.id \in g.m_TeamRed <=> login.team = "RED"
      BY DEF Told
    <3>1. CASE t = s
      BY <1>3, <3>1
    <3>2. CASE t # s
      <4>1. t \in game.connected /\ t \in Session
        BY <1>3, <1>4, <3>2
      <4>2. g.mPlayerId[t] = game.mPlayerId[t] /\ g.loginResult[t] = game.loginResult[t]
        BY <1>3, <3>2, <4>1
      <4>3. g.m_RandomSeed = game.m_RandomSeed /\ g.m_TeamBlue = game.m_TeamBlue
            /\ g.m_TeamRed = game.m_TeamRed
        BY <1>3
      <4>4. QED
        BY <1>1, <4>1, <4>2, <4>3 DEF Told
    <3>3. QED
      BY <3>1, <3>2
  <2>3. Teams(g)
    BY <1>1, <1>3 DEF Teams, Registered
  <2>4. PeersBut(g, {})
    BY <1>1, <1>2, <1>3, <1>4 DEF PeersBut
  <2>5. QED
    BY <1>3, <2>1, <2>2, <2>3, <2>4 DEF Sound, SoundBut, Asserted
<1>6. CASE ~posted
  <2>1. game' = DisconnectAll(g, {s}, env)
    BY <1>6 DEF CreateClient, g
  <2>2. Sound(game')
    BY <1>5, <2>1, DisconnectSound
  <2>3. game' = Abort(g, "DeregisterCharacter")
    <3>1. {s} \cap g.connected = {s} /\ NoId \notin Registered(g)
      BY <1>3, <1>4 DEF Registered
    <3>2. QED
      BY <1>3, <2>1, <3>1 DEF DisconnectAll
  <2>4. game'.fault = "DeregisterCharacter"
    BY <1>3, <2>3 DEF Abort, Game
  <2>5. QED
    BY <2>2, <2>4 DEF Running, Passes
<1>7. CASE posted
  <2>1. /\ game' = g /\ openSocks' = openSocks /\ pending' = Tail(pending)
        /\ allocated' = allocated \cup {s} /\ mSocket' = [mSocket EXCEPT ![s] = k]
        /\ mClientList' = [mClientList EXCEPT ![k] = IF @ = NoSession THEN s ELSE @]
        /\ inFlight' = [inFlight EXCEPT ![s] = <<"LOGIN">>]
        /\ recvBuffer' = [recvBuffer EXCEPT ![s] = <<>>]
        /\ UNCHANGED <<pc, reading>>
    <3>1. game' = g
      BY <1>7 DEF CreateClient, g
    <3>2. openSocks' = openSocks
      BY <1>3, <3>1 DEF CreateClient
    <3>3. QED
      BY <3>1, <3>2 DEF CreateClient
  <2>2. /\ k = pending[1] /\ k \in Sock /\ 1 \in DOMAIN pending
        /\ \A i \in DOMAIN Tail(pending) :
             Tail(pending)[i] = pending[i + 1] /\ i + 1 \in DOMAIN pending /\ i + 1 # 1
        /\ DOMAIN Tail(pending) \subseteq Nat
    BY <1>1
  <2>3. mClientList[k] = NoSession
    BY <1>1, <2>2 DEF Around, Handles
  <2> HIDE DEF k
  <2>4. mClientList' = [mClientList EXCEPT ![k] = s]
    BY <2>1, <2>3
  <2>5. Handles'
    <3>1. ASSUME NEW t \in allocated'
          PROVE  mSocket'[t] \in Sock /\ mClientList'[mSocket'[t]] = t
      <4>1. CASE t = s
        BY <1>1, <2>1, <2>2, <2>4, <4>1
      <4>2. CASE t # s
        <5>1. t \in allocated /\ mSocket[t] \in Sock /\ mClientList[mSocket[t]] = t
          BY <1>1, <2>1, <4>2 DEF Around, Handles
        <5>2. mSocket[t] # k /\ mSocket'[t] = mSocket[t]
          BY <1>1, <2>1, <2>3, <4>2, <5>1
        <5>3. QED
          BY <1>1, <2>2, <2>4, <5>1, <5>2
      <4>3. QED
        BY <4>1, <4>2
    <3>2. ASSUME NEW i \in DOMAIN pending'
          PROVE  pending'[i] \in openSocks' /\ mClientList'[pending'[i]] = NoSession
      <4>1. /\ pending'[i] = pending[i + 1] /\ i + 1 \in DOMAIN pending /\ i + 1 # 1
        BY <2>1, <2>2
      <4>2. pending[i + 1] \in openSocks /\ mClientList[pending[i + 1]] = NoSession
            /\ pending[i + 1] # k /\ pending[i + 1] \in Sock
        BY <1>1, <2>2, <4>1 DEF Around, Handles
      <4>3. QED
        BY <1>1, <2>1, <2>4, <4>1, <4>2
    <3>3. ASSUME NEW i \in DOMAIN pending', NEW j \in DOMAIN pending', pending'[i] = pending'[j]
          PROVE  i = j
      <4>1. i + 1 = j + 1
        BY <1>1, <2>1, <2>2, <3>3 DEF Around, Handles
      <4>2. i \in Nat /\ j \in Nat
        BY <2>1, <2>2
      <4>3. QED
        BY <4>1, <4>2
    <3>4. QED
      BY <3>1, <3>2, <3>3 DEF Handles
  <2>6. Requests'
    <3>1. ASSUME NEW t \in allocated'
          PROVE  InTurn(game'.mPlayerId[t], t \in game'.connected, recvBuffer'[t], inFlight'[t])
      <4>1. CASE t = s
        <5>1. recvBuffer'[t] = <<>> /\ inFlight'[t] = <<"LOGIN">>
          BY <1>1, <2>1, <4>1
        <5>2. QED
          BY <1>3, <2>1, <4>1, <5>1 DEF InTurn, LoginOf
      <4>2. CASE t # s
        <5>1. t \in allocated /\ t \in Session
          BY <1>1, <2>1, <4>2
        <5>2. InTurn(game.mPlayerId[t], t \in game.connected, recvBuffer[t], inFlight[t])
          BY <1>1, <5>1 DEF Around, Requests
        <5>3. /\ recvBuffer'[t] = recvBuffer[t] /\ inFlight'[t] = inFlight[t]
              /\ game'.mPlayerId[t] = game.mPlayerId[t]
              /\ t \in game.connected => t \in game'.connected
          BY <1>1, <1>3, <2>1, <4>2, <5>1
        <5>4. QED
          BY <5>2, <5>3 DEF InTurn
      <4>3. QED
        BY <4>1, <4>2
    <3>2. \A t \in Session : t # reading' => recvBuffer'[t] = <<>>
      BY <1>1, <2>1 DEF Around, Requests
    <3>3. reading' # NoSession => pc' = "sleep"
      BY <1>1, <2>1 DEF Around, Requests
    <3>4. QED
      BY <3>1, <3>2, <3>3 DEF Requests
  <2>7. game'.connected \subseteq allocated'
    BY <1>1, <1>3, <2>1 DEF Around
  <2>8. Passes(game, game')
    BY <1>3, <2>1 DEF Passes
  <2>9. QED
    BY <1>5, <2>1, <2>5, <2>6, <2>7, <2>8 DEF Around
<1>8. QED
  BY <1>6, <1>7

(* A collection that leaves nobody leaves nobody connected, and Init finds *)
(* the tables empty.                                                       *)
LEMMA ClientManagerInitSound ==
  ASSUME RegistryInv, Running, game.connected = {}, NEW env, env.seed \in Seed
  PROVE  Sound(ClientManagerInit(game, env)) /\ Fades(game, ClientManagerInit(game, env))
<1> USE NoSessionAssumption
<1> DEFINE h == DeregisterCharacters(game, Id, env)
           g == ClientManagerInit(game, env)
<1>1. /\ game \in Game /\ game.fault = "none" /\ Tables(game) /\ PeersBut(game, {})
      /\ game.mClientIdList \in Slots
  BY DEF RegistryInv, Running, Sound, SoundBut, Game
<1>2. \A id \in Id : game.mClientIdList[id] = NoSession
  BY <1>1 DEF Tables, Slots
<1>3. g \in Game
  BY <1>1, ClientManagerInitType
<1>4. /\ h.m_CharacterList = Without(game.m_CharacterList, Id)
      /\ h.objectTable = Without(game.objectTable, Id)
      /\ h.m_TeamBlue = game.m_TeamBlue \ Id /\ h.m_TeamRed = game.m_TeamRed \ Id
      /\ h.mClientIdList = game.mClientIdList /\ h.mPlayerId = game.mPlayerId
      /\ h.loginResult = game.loginResult /\ h.connected = game.connected
      /\ h.introduced = game.introduced /\ h.fault = game.fault
  BY <1>1 DEF DeregisterCharacters, Game
<1>5. /\ g.m_CharacterList = Without(game.m_CharacterList, Id)
      /\ g.objectTable = Without(game.objectTable, Id)
      /\ g.mClientIdList = Without(game.mClientIdList, Id)
      /\ g.m_TeamBlue = game.m_TeamBlue \ Id /\ g.m_TeamRed = game.m_TeamRed \ Id
      /\ g.mPlayerId = game.mPlayerId
      /\ g.loginResult = game.loginResult /\ g.connected = game.connected
      /\ g.introduced = game.introduced /\ g.fault = game.fault
  <2>1. h \in Game
    BY <1>1, DeregisterCharactersType
  <2>2. g = [h EXCEPT !.mClientIdList = Without(@, Id), !.m_RandomSeed = env.seed]
    BY DEF ClientManagerInit
  <2> HIDE DEF h, g
  <2>3. QED
    BY <1>4, <2>1, <2>2 DEF Game
<1> HIDE DEF g, h
<1>6. Tables(g)
  <2>1. g.m_CharacterList = g.mClientIdList /\ g.m_CharacterList = g.objectTable
    BY <1>1, <1>5 DEF Tables
  <2>2. QED
    BY <1>5, <2>1 DEF Tables, Without
<1>7. Told(g)
  BY <1>5 DEF Told
<1>8. Teams(g)
  BY <1>1, <1>5 DEF Teams, Game
<1>9. PeersBut(g, {})
  BY <1>1, <1>5 DEF PeersBut
<1>10. Fades(game, g)
  BY <1>1, <1>2, <1>5 DEF Fades, Without
<1>11. QED
  BY <1>1, <1>3, <1>5, <1>6, <1>7, <1>8, <1>9, <1>10 DEF Sound, SoundBut, Asserted, g

LEMMA OnPeriodWorkRegistry ==
  ASSUME RegistryInv, NEW gc \in BOOLEAN, NEW post \in SUBSET Session,
         NEW env, env.seed \in Seed, env.broken = {}, OnPeriodWork(gc, post, env)
  PROVE  Sound(game') /\ (Running' => Around') /\ Passes(game, game')
<1> USE NoSessionAssumption
<1> DEFINE garbage == {s \in Listed : gc /\ Collectable(s)}
           list    == Erase(garbage)
           listed  == {list[k] : k \in Sock} \ {NoSession}
           g       == IF listed = {} THEN ClientManagerInit(game, env)
                      ELSE DisconnectAll(game, listed \cap env.full, env)
<1>1. /\ Running /\ Around /\ allocated \subseteq Session
      /\ mClientList \in [Sock -> Session \cup {NoSession}]
      /\ reading = NoSession /\ reading' = NoSession
  BY DEF OnPeriodWork, Apc, RegistryInv, IOInv, TypeOK
<1>2. /\ mClientList' = list /\ allocated' = allocated \ garbage /\ Apply(g, inFlight)
      /\ UNCHANGED <<mSocket, pending, recvBuffer>>
  BY DEF OnPeriodWork
<1>3. garbage \cap game.connected = {}
  BY DEF Collectable
<1>4. \A t \in allocated \ garbage : mSocket[t] \in Sock /\ list[mSocket[t]] = t
  <2> SUFFICES ASSUME NEW t \in allocated \ garbage
               PROVE  mSocket[t] \in Sock /\ list[mSocket[t]] = t
    OBVIOUS
  <2>1. mSocket[t] \in Sock /\ mClientList[mSocket[t]] = t
    BY <1>1 DEF Around, Handles
  <2>2. garbage \subseteq allocated
    BY ListedType DEF RegistryInv
  <2>3. ~\E s \in garbage : mSocket[s] = mSocket[t]
    BY <1>1, <2>1, <2>2 DEF Around, Handles
  <2> HIDE DEF garbage
  <2>4. QED
    BY <2>1, <2>3 DEF Erase
<1>5. \A k \in Sock : mClientList[k] = NoSession => list[k] = NoSession
  BY DEF Erase
<1> HIDE DEF garbage, list
<1>6. Sound(g) /\ Fades(game, g)
  <2>1. CASE listed = {}
    <3>1. game.connected = {}
      BY <1>1, <1>3, <1>4, <2>1 DEF Around
    <3>2. QED
      BY <1>1, <2>1, <3>1, ClientManagerInitSound
  <2>2. CASE listed # {}
    BY <2>2, DisconnectSound DEF RegistryInv
  <2>3. QED
    BY <2>1, <2>2
<1> HIDE DEF g
<1>7. game' = g
  BY <1>2 DEF Apply
<1>8. ASSUME Running'
      PROVE  Around'
  <2>1. g.fault = "none"
    BY <1>7, <1>8 DEF Running
  <2>2. Handles'
    <3>1. \A s \in game.connected \ g.connected : mClientList[mSocket[s]] # NoSession
      BY <1>1 DEF Around, Handles
    <3>2. \A i \in DOMAIN pending : pending[i] \in openSocks' /\ mClientList'[pending[i]] = NoSession
      <4>1. \A i \in DOMAIN pending : pending[i] \in Sock
        BY DEF RegistryInv, IOInv, TypeOK
      <4>2. QED
        BY <1>1, <1>2, <1>5, <3>1, <4>1 DEF Around, Handles, Apply
    <3>3. QED
      BY <1>1, <1>2, <1>4, <3>2 DEF Around, Handles
  <2>3. \A t \in allocated :
          InTurn(game'.mPlayerId[t], t \in game'.connected, recvBuffer'[t], inFlight'[t])
    <3> SUFFICES ASSUME NEW t \in allocated
                 PROVE  InTurn(game'.mPlayerId[t], t \in game'.connected, recvBuffer'[t], inFlight'[t])
      OBVIOUS
    <3>1. InTurn(game.mPlayerId[t], t \in game.connected, recvBuffer[t], inFlight[t])
      BY <1>1 DEF Around, Requests
    <3>2. QED
      BY <1>1, <1>2, <1>6, <2>1, <3>1, FadesInTurn DEF InTurn
  <2>4. Requests'
    BY <1>1, <1>2, <2>3 DEF Around, Requests
  <2>5. game'.connected \subseteq allocated'
    BY <1>1, <1>2, <1>3, <1>6, <1>7, <2>1 DEF Fades, Around
  <2>6. QED
    BY <2>2, <2>4, <2>5 DEF Around
<1>9. QED
  BY <1>6, <1>7, <1>8, FadesPasses

-----------------------------------------------------------------------------
LEMMA InitRegistry == Init => RegistryInv
<1> SUFFICES ASSUME Init PROVE RegistryInv
  OBVIOUS
<1> USE NoSessionAssumption
<1>1. IOInv
  BY InitIO
<1>2. /\ game.fault = "none" /\ game.connected = {} /\ game.introduced = {}
      /\ game.m_TeamBlue = {} /\ game.m_TeamRed = {}
      /\ game.m_CharacterList = [i \in Id |-> NoSession]
      /\ game.objectTable = [i \in Id |-> NoSession]
      /\ game.mClientIdList = [i \in Id |-> NoSession]
  BY DEF Init
<1>3. Tables(game) /\ Told(game) /\ Teams(game) /\ PeersBut(game, {})
  BY <1>2 DEF Tables, Told, Teams, PeersBut
<1>4. Sound(game)
  BY <1>1, <1>2, <1>3 DEF Sound, SoundBut, Asserted, IOInv, TypeOK
<1>5. Around
  BY <1>2 DEF Init, Around, Handles, Requests
<1>6. QED
  BY <1>1, <1>4, <1>5 DEF RegistryInv

LEMMA NextRegistry ==
  ASSUME RegistryInv, [Next]_vars, ~HandleReuse, ~SetSockOptMayFail
  PROVE  RegistryInv' /\ Passes(game, game')
<1> DEFINE Kept == Sound(game') /\ (Running' => Around') /\ Passes(game, game')
<1>0. \A env \in Environment : env.seed \in Seed /\ env.broken = {}
  BY EnvironmentFacts
<1>1. ASSUME NEW k \in Sock, Accept(k) PROVE Kept
  BY <1>1, AcceptRegistry
<1>2. ASSUME NEW s \in Session, ClientSends(s) PROVE Kept
  BY <1>2, ClientSendsRegistry
<1>3. ASSUME NEW s \in Session, NEW n \in 0 .. MaxInFlight, n <= Len(inFlight[s]), RecvData(s, n)
      PROVE  Kept
  <2>1. n \in Nat
    BY BoundAssumption
  <2>2. QED
    BY <1>3, <2>1, RecvDataRegistry
<1>4. ASSUME NEW env \in Environment, NEW s \in Session, NEW ok \in BOOLEAN,
             \/ Handler(s, env) \/ RecvFailed(s, env) \/ CreateClient(s, ok, env)
             \/ SendCompletion(s, ok, env) \/ PostRecv(s, ok, env)
      PROVE  Kept
  BY <1>0, <1>4, HandlerRegistry, RecvFailedRegistry, CreateClientRegistry,
     SendCompletionRegistry, PostRecvRegistry
<1>5. ASSUME NEW env \in Environment, NEW post \in SUBSET Session, NEW gc \in BOOLEAN,
             FlushClientSend(post, env) \/ OnPeriodWork(gc, post, env)
      PROVE  Kept
  BY <1>0, <1>5, FlushClientSendRegistry, OnPeriodWorkRegistry
<1>6. ASSUME UNCHANGED vars PROVE Kept
  <2>1. /\ UNCHANGED <<pc, reading, game, allocated, mSocket, mClientList, openSocks, pending,
                       inFlight, recvBuffer>>
    BY <1>6 DEF vars, tableVars, clientVars
  <2>2. Sound(game') /\ Passes(game, game')
    BY <2>1, FadesNothing, FadesPasses DEF RegistryInv
  <2>3. Running' => Around'
    BY <2>1 DEF RegistryInv, Running, Around, Handles, Requests
  <2>4. QED
    BY <2>2, <2>3
<1> HIDE DEF Kept
<1>7. Kept
  BY <1>1, <1>2, <1>3, <1>4, <1>5, <1>6 DEF Next
<1>8. IOInv'
  BY NextIO DEF RegistryInv
<1>9. QED
  BY <1>7, <1>8 DEF Kept, RegistryInv

(* The registry is right between any two requests: ids, sessions, teams    *)
(* and seeds are what LoginResult told the clients, players in the game    *)
(* know of each other, and the assertions of the code hold.  With a handle *)
(* reused early, or with setsockopt failing, they need not.                *)
THEOREM RegistrySafety ==
  ~HandleReuse /\ ~SetSockOptMayFail =>
    (Spec => [](SlotAgreement /\ SlotOwnership /\ ClientAgreement /\ PeersKnown /\ AssertionsHold))
<1> SUFFICES ASSUME ~HandleReuse, ~SetSockOptMayFail
             PROVE  Spec => [](SlotAgreement /\ SlotOwnership /\ ClientAgreement
                                /\ PeersKnown /\ AssertionsHold)
  OBVIOUS
<1>1. RegistryInv /\ [Next]_vars => RegistryInv'
  BY NextRegistry
<1>2. RegistryInv => SlotAgreement /\ SlotOwnership
  BY DEF RegistryInv, Running, Sound, SoundBut, Tables, SlotAgreement, SlotOwnership
<1>3. RegistryInv => ClientAgreement
  <2> SUFFICES ASSUME RegistryInv, Running, NEW s \in game.connected, game.loginResult[s] # NoLogin
               PROVE  LET login == game.loginResult[s] IN
                      /\ login.id = game.mPlayerId[s]
                      /\ login.seed = game.m_RandomSeed
                      /\ (login.id \in game.m_TeamBlue) = (login.team = "BLUE")
                      /\ (login.id \in game.m_TeamRed) = (login.team = "RED")
    BY DEF ClientAgreement
  <2>1. Told(game)
    BY DEF RegistryInv, Running, Sound, SoundBut
  <2>2. QED
    BY <2>1 DEF Told
<1>4. RegistryInv => PeersKnown /\ AssertionsHold
  BY DEF RegistryInv, Running, Sound, SoundBut, PeersBut, PeersKnown, Asserted, AssertionsHold
<1>5. QED
  BY <1>1, <1>2, <1>3, <1>4, InitRegistry, PTL DEF Spec

(* An id passes to another session only after the one that had it has been *)
(* disconnected.                                                           *)
THEOREM TakeoverSafety == ~HandleReuse /\ ~SetSockOptMayFail => (Spec => NoTakeover)
<1> SUFFICES ASSUME ~HandleReuse, ~SetSockOptMayFail
             PROVE  Spec => NoTakeover
  OBVIOUS
<1> DEFINE Held == \A id \in Id :
             LET old == game.mClientIdList[id] IN
             game'.fault = "none" /\ old # NoSession /\ game'.mClientIdList[id] # old =>
               game'.mClientIdList[id] = NoSession /\ old \notin game'.connected
<1>1. RegistryInv /\ [Next]_vars => RegistryInv'
  BY NextRegistry
<1>2. RegistryInv /\ [Next]_vars => [Held]_vars
  BY NextRegistry DEF Passes
<1>3. QED
  BY <1>1, <1>2, InitRegistry, PTL DEF Spec, NoTakeover
=============================================================================
