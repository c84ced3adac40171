----------------------------- MODULE GameServer -----------------------------
(***************************************************************************)
(* The client-handling thread of DD_Server: sessions, the registry of      *)
(* players and the completion routines.                                    *)
(*                                                                         *)
(* One thread runs everything but accept().  It takes accepted sockets off *)
(* the pending list, flushes the send buffers and then sleeps alertably;   *)
(* the APCs that run in that sleep are the completions of WSARecv and      *)
(* WSASend and the 100 ms timer.  A player is entered in four places:      *)
(* ActorManager::m_CharacterList and the teams, ObjectTable,               *)
(* ClientManager::mClientIdList and the session's own mPlayerId.           *)
(* Disconnect takes it out of them at once; the session object stays in    *)
(* mClientList until the garbage collection finds it without pending I/O.  *)
(*                                                                         *)
(* The bytes in the buffers are the subject of CircularBuffer; here a      *)
(* SendRequest either fits or finds the buffer full (`full').  A failed    *)
(* assertion, which the Debug build turns into abort(), sets `fault' and   *)
(* stops the program.                                                      *)
(***************************************************************************)
EXTENDS Integers, Sequences, FiniteSets

CONSTANTS
  Session,     \* addresses of ClientSession objects
  NoSession,   \* nullptr
  Sock,        \* SOCKET handles
  NoSock,      \* INVALID_SOCKET
  PlayerNum,   \* REAL_PLAYER_NUM
  Seed,        \* values of rand()
  HandleReuse, \* may the system hand out a closed handle before it was collected?
  SetSockOptMayFail, \* may setsockopt(SO_LINGER) fail?
  MaxInFlight, \* bound on the requests of a client not yet received
  MaxSends     \* bound on the overlapping WSASends of one session

ASSUME NoSessionAssumption == NoSession \notin Session
ASSUME PlayerNumAssumption == PlayerNum \in Nat \ {0}
ASSUME SwitchAssumption == HandleReuse \in BOOLEAN /\ SetSockOptMayFail \in BOOLEAN
ASSUME BoundAssumption == MaxInFlight \in Nat /\ MaxSends \in Nat
ASSUME SeedAssumption == Seed # {}

VARIABLES
  pc,          \* "loop": before Consume and the flush; "sleep": in SleepEx
  reading,     \* the session whose OnRead loop is running, or NoSession
  game,        \* the registry and what the sessions know of it, see Game
  allocated,   \* the live ClientSession objects
  mSocket,     \* socket of each session
  mClientList, \* ClientManager's map from sockets to sessions
  openSocks,   \* handles the system has not closed
  pending,     \* pendingAcceptList
  recvOp,      \* the sessions with a WSARecv in progress
  sendOps,     \* number of WSASends in progress
  mOverlappedRequested, \* the session's own count of both
  inFlight,    \* requests on their way to the session
  recvBuffer,  \* complete requests in mRecvBuffer
  stateAsked   \* the sessions whose client has sent PKT_CS_GAME_STATE

ioVars == <<recvOp, sendOps, mOverlappedRequested>>
clientVars == <<inFlight, recvBuffer, stateAsked>>
tableVars == <<allocated, mSocket, mClientList, openSocks, pending>>
vars == <<pc, reading, game, tableVars, ioVars, clientVars>>

NoId == -1
Id == 0 .. (PlayerNum - 1)
Slots == [Id -> Session \cup {NoSession}]
Request == {"LOGIN", "GAME_STATE", "PLAY"}
NoLogin == [id |-> NoId, team |-> "NO_TEAM", seed |-> NoId]
LoginResult == [id : Id, team : {"RED", "BLUE"}, seed : Seed]
Fault == {"none", "ChannelFull", "DeregisterCharacter", "DeregisterSession",
          "RegisterSession", "BroadcastCharacterChange", "NoCharacter"}

(* The part of the state the handlers rewrite, one record so that a        *)
(* handler is a composition of the functions it calls.  m_CharacterId of   *)
(* the session's character always equals mPlayerId.                        *)
Game ==
  [ connected       : SUBSET Session,          \* mConnected
    mPlayerId       : [Session -> Id \cup {NoId}],
    m_CharacterList : Slots,                   \* ActorManager
    objectTable     : Slots,                   \* GObjectTable
    mClientIdList   : Slots,                   \* ClientManager
    m_TeamBlue      : SUBSET Id,
    m_TeamRed       : SUBSET Id,
    m_RandomSeed    : Seed,
    loginResult     : [Session -> LoginResult \cup {NoLogin}], \* last one sent
    introduced      : SUBSET Session,          \* NewResult was broadcast
    announced       : [Session -> SUBSET Id],  \* players the client was told of
    fault           : Fault ]

Registered(g) == {id \in Id : g.m_CharacterList[id] # NoSession}
Listed == {mClientList[k] : k \in Sock} \ {NoSession}

(* What the environment decides while one handler runs: whose send buffer  *)
(* is full at its first and at its second broadcast, whose setsockopt      *)
(* fails, and the seed ActorManager::Init would draw.                      *)
Environment ==
  [ full   : SUBSET game.connected,
    full2  : IF reading = NoSession THEN {{}} ELSE SUBSET game.connected,
    broken : IF SetSockOptMayFail THEN SUBSET game.connected ELSE {{}},
    seed   : Seed ]

-----------------------------------------------------------------------------
(* The functions the handlers call.                                        *)

Abort(g, why) == [g EXCEPT !.fault = why]

Without(slots, ids) == [i \in Id |-> IF i \in ids THEN NoSession ELSE slots[i]]

(* Mutants: the object table keeps the entry; the team keeps the id.       *)
DeregisterCharacters_KeepsObject(g, ids, env) ==
  [g EXCEPT !.m_CharacterList = Without(@, ids),
            !.m_TeamBlue      = @ \ ids,
            !.m_TeamRed       = @ \ ids]
DeregisterCharacters_KeepsTeam(g, ids, env) ==
  [g EXCEPT !.m_CharacterList = Without(@, ids),
            !.objectTable     = Without(@, ids),
            !.m_TeamBlue      = @ \ ids]

(* DeregisterCharacter of ids, and Init once nobody is left.               *)
DeregisterCharacters(g, ids, env) ==
  [g EXCEPT !.m_CharacterList = Without(@, ids),
            !.objectTable     = Without(@, ids),
            !.m_TeamBlue      = @ \ ids,
            !.m_TeamRed       = @ \ ids,
            !.m_RandomSeed    = IF Registered(g) \subseteq ids THEN env.seed ELSE @]

(* Mutants: DeregisterSession or mConnected = false is missing.            *)
Cleanup_KeepsId(g, ids, dead) ==
  [g EXCEPT !.connected = @ \ dead, !.introduced = @ \ dead]
Cleanup_StaysConnected(g, ids, dead) ==
  [g EXCEPT !.mClientIdList = Without(@, ids), !.introduced = @ \ dead]

(* The end of Disconnect: DeregisterSession of ids and, for the sessions   *)
(* `dead', closesocket and mConnected = false.                             *)
Cleanup(g, ids, dead) ==
  [g EXCEPT !.mClientIdList = Without(@, ids),
            !.connected     = @ \ dead,
            !.introduced    = @ \ dead,
            !.announced     = [s \in Session |-> IF s \in dead THEN {} ELSE @[s]]]

(* Disconnect, called for each session of S.  A failing setsockopt returns *)
(* before closesocket and before mConnected is cleared.                    *)
DisconnectAll(g, S, env) ==
  LET live == S \cap g.connected
      ids  == {g.mPlayerId[s] : s \in live}
  IN
  IF live = {} \/ g.fault # "none" THEN g
  ELSE IF ~(ids \subseteq Registered(g)) THEN Abort(g, "DeregisterCharacter")
  ELSE IF \E s \in live : g.mClientIdList[g.mPlayerId[s]] # s
       THEN Abort(g, "DeregisterSession")
  ELSE Cleanup(DeregisterCharacters(g, ids, env), ids, live \ env.broken)

(* Broadcast from s, and the Disconnect of s its callers make when it      *)
(* fails: s itself gets the packet first, then every other listed session. *)
Broadcast(g, s, full, env) ==
  IF s \notin g.connected THEN g
  ELSE IF s \in full THEN DisconnectAll(g, {s}, env)
  ELSE DisconnectAll(g, (Listed \ {s}) \cap full, env)

BroadcastCharacterChange(g, id, env) ==
  IF g.mClientIdList[id] = NoSession THEN Abort(g, "BroadcastCharacterChange")
  ELSE Broadcast(g, g.mClientIdList[id], env.full, env)

(* RegisterCharacter: the first free slot and the smaller team.            *)
FreeSlot(g) == CHOOSE id \in Id \ Registered(g) :
                 \A other \in Id \ Registered(g) : id <= other
TeamFor(g) ==
  IF Cardinality(g.m_TeamBlue) < Cardinality(g.m_TeamRed) THEN "BLUE" ELSE "RED"

RegisterCharacter(g, s, id) ==
  [g EXCEPT !.m_CharacterList[id] = s,
            !.objectTable[id]     = s,
            !.m_TeamBlue = IF TeamFor(g) = "BLUE" THEN @ \cup {id} ELSE @,
            !.m_TeamRed  = IF TeamFor(g) = "RED" THEN @ \cup {id} ELSE @]

(* LoginDone.                                                              *)
LoginDone(g, s, id, team, env) ==
  IF g.mClientIdList[id] # NoSession THEN Abort(g, "RegisterSession")
  ELSE LET told == [g EXCEPT
             !.mPlayerId[s]      = id,
             !.mClientIdList[id] = s,
             !.loginResult[s]    = [id |-> id, team |-> team, seed |-> g.m_RandomSeed]]
       IN  IF s \in env.full THEN DisconnectAll(told, {s}, env) ELSE told

(* A handler drops a request with another id than the session's; the       *)
(* client puts in the id its LoginResult carried.                          *)
OwnId(g, s) == g.loginResult[s].id = g.mPlayerId[s]

-----------------------------------------------------------------------------
(* The request handlers, as functions of the registry.                     *)

(* The full channel: Disconnect deregisters the id -1.                     *)
HandleLoginRequest(g, s, env) ==
  IF Registered(g) = Id THEN Abort(g, "ChannelFull")
  ELSE LoginDone(RegisterCharacter(g, s, FreeSlot(g)), s, FreeSlot(g), TeamFor(g), env)

(* Mutant: the newcomer never hears of those who came before.              *)
InitPlayerState_Nothing(g, s, env) == g

(* NewResult to everybody, then the others' states to the caller.  A       *)
(* session that has not logged in reports the id -1, which AddPlayer of    *)
(* the client ignores.                                                     *)
InitPlayerState(g, s, env) ==
  IF s \notin g.connected \/ Listed \subseteq {s} THEN g
  ELSE IF s \in env.full2 THEN DisconnectAll(g, {s}, env)
  ELSE [g EXCEPT !.announced[s] =
          @ \cup ({g.mPlayerId[t] : t \in Listed \ {s}} \ {NoId})]

HandleGameStateRequest(g, s, env) ==
  IF ~OwnId(g, s) THEN g
  ELSE LET sent == Broadcast(g, s, env.full, env)
           new  == [sent EXCEPT
                      !.introduced = @ \cup {s},
                      !.announced  = [t \in Session |->
                         IF t \in (Listed \ {s}) \cap sent.connected
                         THEN @[t] \cup ({g.mPlayerId[s]} \ {NoId}) ELSE @[t]]]
       IN  InitPlayerState(IF s \in sent.connected THEN new ELSE sent, s, env)

(* SkillStop and SkillTurnBody look the character up; a refused skill      *)
(* changes nothing here and is left out of the three handlers below.       *)
HandleStopRequest(g, s, env) ==
  IF ~OwnId(g, s) THEN g
  ELSE IF g.objectTable[g.mPlayerId[s]] = NoSession THEN Abort(g, "NoCharacter")
  ELSE Broadcast(g, s, env.full, env)

HandleRotationRequest(g, s, env) == HandleStopRequest(g, s, env)

(* RespawnRequest touches no table.                                        *)
HandleRespawnRequest(g, s, env) ==
  IF ~OwnId(g, s) THEN g ELSE Broadcast(g, s, env.full, env)

(* A skill of s that changes the character `target': SkillGoForward and    *)
(* SkillGather change the user's own, SkillPush that of somebody else.     *)
HandleSkill(g, s, target, env) ==
  IF ~OwnId(g, s) THEN g
  ELSE IF g.objectTable[g.mPlayerId[s]] = NoSession THEN Abort(g, "NoCharacter")
  ELSE IF g.objectTable[target] = NoSession THEN Abort(g, "NoCharacter")
  ELSE Broadcast(BroadcastCharacterChange(g, target, env), s, env.full2, env)

HandleAccelerationRequest(g, s, env) == HandleSkill(g, s, g.mPlayerId[s], env)
SkillGather(g, s, env) == HandleSkill(g, s, g.mPlayerId[s], env)

(* DetectTarget: any other registered character may be in the line of view.*)
PushTargets(g, s) == Registered(g) \ {g.mPlayerId[s]}

-----------------------------------------------------------------------------
(* Actions.                                                                *)

Init ==
  /\ pc = "loop" /\ reading = NoSession
  /\ game \in [ connected : {{}}, mPlayerId : {[s \in Session |-> NoId]},
                m_CharacterList : {[i \in Id |-> NoSession]},
                objectTable     : {[i \in Id |-> NoSession]},
                mClientIdList   : {[i \in Id |-> NoSession]},
                m_TeamBlue : {{}}, m_TeamRed : {{}}, m_RandomSeed : Seed,
                loginResult : {[s \in Session |-> NoLogin]},
                introduced : {{}}, announced : {[s \in Session |-> {}]},
                fault : {"none"} ]
  /\ allocated = {} /\ openSocks = {} /\ pending = <<>>
  /\ mSocket = [s \in Session |-> NoSock]
  /\ mClientList = [k \in Sock |-> NoSession]
  /\ recvOp = {}
  /\ sendOps = [s \in Session |-> 0]
  /\ mOverlappedRequested = [s \in Session |-> 0]
  /\ inFlight = [s \in Session |-> <<>>]
  /\ recvBuffer = [s \in Session |-> <<>>]
  /\ stateAsked = {}

Running == game.fault = "none"

(* The registry becomes g; the sessions it no longer has connected have    *)
(* had their socket closed, which discards what was still in flight.       *)
Apply(g, flight) ==
  LET closed == game.connected \ g.connected IN
  /\ game' = g
  /\ openSocks' = openSocks \ {mSocket[s] : s \in closed}
  /\ inFlight' = [s \in Session |-> IF s \in closed THEN <<>> ELSE flight[s]]

(* The accept loop of the main thread; Produce.                            *)
Accept(k) ==
  /\ Running
  /\ k \notin openSocks
  /\ HandleReuse \/ mClientList[k] = NoSession
  /\ openSocks' = openSocks \cup {k}
  /\ pending' = Append(pending, k)
  /\ UNCHANGED <<pc, reading, game, allocated, mSocket, mClientList, ioVars, clientVars>>

(* Mutant: the receive is counted twice.                                   *)
StartRecv_CountedTwice(s) ==
  /\ recvOp' = recvOp \cup {s}
  /\ mOverlappedRequested' = [mOverlappedRequested EXCEPT ![s] = @ + 2]

(* WSARecv and IncOverlappedRequest.                                       *)
StartRecv(s) ==
  /\ recvOp' = recvOp \cup {s}
  /\ mOverlappedRequested' = [mOverlappedRequested EXCEPT ![s] = @ + 1]

(* Consume, CreateClient and OnConnect; `posted' tells whether PostRecv    *)
(* succeeds.  unordered_map::insert leaves an entry that is already there. *)
(* The client at the other end sends its LOGIN at once.                    *)
CreateClient(s, posted, env) ==
  LET k  == Head(pending)
      g1 == [game EXCEPT !.mPlayerId[s] = NoId, !.loginResult[s] = NoLogin,
                         !.connected = @ \cup {s}]
  IN
  /\ Running /\ pc = "loop" /\ pending # <<>> /\ s \notin allocated
  /\ pending' = Tail(pending)
  /\ allocated' = allocated \cup {s}
  /\ mSocket' = [mSocket EXCEPT ![s] = k]
  /\ mClientList' = [mClientList EXCEPT ![k] = IF @ = NoSession THEN s ELSE @]
  /\ game' = IF posted THEN g1 ELSE DisconnectAll(g1, {s}, env)
  /\ IF posted THEN StartRecv(s) ELSE UNCHANGED <<recvOp, mOverlappedRequested>>
  /\ openSocks' = openSocks \ (IF s \in game'.connected THEN {} ELSE {k})
  /\ inFlight' = [inFlight EXCEPT ![s] = <<"LOGIN">>]
  /\ recvBuffer' = [recvBuffer EXCEPT ![s] = <<>>]
  /\ stateAsked' = stateAsked \ {s}
  /\ UNCHANGED <<pc, reading, sendOps>>

(* SendFlush of every listed session: those of env.full fail and are       *)
(* disconnected, those of `post' have data and start a WSASend.            *)
Flush(post, g) ==
  /\ post \subseteq g.connected
  /\ \A s \in post : sendOps[s] < MaxSends
  /\ sendOps' = [s \in Session |-> sendOps[s] + IF s \in post THEN 1 ELSE 0]
  /\ mOverlappedRequested' =
       [s \in Session |-> mOverlappedRequested[s] + IF s \in post THEN 1 ELSE 0]

FlushClientSend(post, env) ==
  LET g == DisconnectAll(game, Listed \cap env.full, env) IN
  /\ Running /\ pc = "loop" /\ pending = <<>>
  /\ pc' = "sleep"
  /\ post \subseteq Listed /\ Flush(post, g)
  /\ Apply(g, inFlight)
  /\ UNCHANGED <<reading, allocated, mSocket, mClientList, pending, recvOp,
                 recvBuffer, stateAsked>>

(* SleepEx runs the APCs that are queued, and returns after one or more.   *)
Apc == Running /\ pc = "sleep" /\ reading = NoSession
ApcDone == pc' \in {"sleep", "loop"}

(* ClientManager::Init, run by the timer while mClientList is empty.       *)
ClientManagerInit(g, env) ==
  [DeregisterCharacters(g, Id, env) EXCEPT !.mClientIdList = Without(@, Id),
                                           !.m_RandomSeed  = env.seed]

(* Mutant: an operation in progress does not matter.                       *)
Collectable_InProgress(s) == s \notin game.connected

(* CollectGarbageSessions deletes these sessions.                          *)
Collectable(s) == s \notin game.connected /\ ~(mOverlappedRequested[s] > 0)

(* The collection erases by socket handle.                                 *)
Erase(garbage) == [k \in Sock |-> IF \E s \in garbage : mSocket[s] = k
                                  THEN NoSession ELSE mClientList[k]]

(* OnPeriodWork: with `gc' once a second the collection, then what the     *)
(* game and the debug packets send, and the flush.                         *)
OnPeriodWork(gc, post, env) ==
  LET garbage == {s \in Listed : gc /\ Collectable(s)}
      list    == Erase(garbage)
      listed  == {list[k] : k \in Sock} \ {NoSession}
      g       == IF listed = {} THEN ClientManagerInit(game, env)
                 ELSE DisconnectAll(game, listed \cap env.full, env)
  IN
  /\ Apc /\ ApcDone
  /\ mClientList' = list
  /\ allocated' = allocated \ garbage
  /\ post \subseteq listed /\ Flush(post, g)
  /\ Apply(g, inFlight)
  /\ UNCHANGED <<reading, mSocket, pending, recvOp, recvBuffer, stateAsked>>

(* SendCompletion; `ok' is a completion without error.                     *)
SendCompletion(s, ok, env) ==
  LET g == IF ok THEN game ELSE DisconnectAll(game, {s}, env) IN
  /\ Apc /\ ApcDone
  /\ sendOps[s] > 0
  /\ sendOps' = [sendOps EXCEPT ![s] = @ - 1]
  /\ mOverlappedRequested' = [mOverlappedRequested EXCEPT ![s] = @ - 1]
  /\ Apply(g, inFlight)
  /\ UNCHANGED <<reading, allocated, mSocket, mClientList, pending, recvOp,
                 recvBuffer, stateAsked>>

(* RecvCompletion begins.                                                  *)
EndRecv(s) ==
  /\ Apc
  /\ s \in recvOp
  /\ recvOp' = recvOp \ {s}
  /\ mOverlappedRequested' = [mOverlappedRequested EXCEPT ![s] = @ - 1]
  /\ UNCHANGED <<allocated, mSocket, mClientList, pending, sendOps, stateAsked>>

(* ... of a session that is no longer connected, or with an error or 0.    *)
RecvFailed(s, env) ==
  /\ EndRecv(s) /\ ApcDone
  /\ Apply(DisconnectAll(game, {s}, env), inFlight)
  /\ UNCHANGED <<reading, recvBuffer>>

(* ... with data that completes n requests: OnRead begins.                 *)
RecvData(s, n) ==
  /\ EndRecv(s)
  /\ s \in game.connected
  /\ recvBuffer' = [recvBuffer EXCEPT ![s] = @ \o SubSeq(inFlight[s], 1, n)]
  /\ inFlight' = [inFlight EXCEPT ![s] = SubSeq(@, n + 1, Len(@))]
  /\ reading' = s
  /\ UNCHANGED <<pc, game, openSocks>>

(* OnRead dispatches the next complete request of the session.             *)
Dispatch(s, request, g) ==
  /\ Running /\ reading = s
  /\ recvBuffer[s] # <<>> /\ Head(recvBuffer[s]) = request
  /\ recvBuffer' = [recvBuffer EXCEPT ![s] = Tail(@)]
  /\ Apply(g, inFlight)
  /\ UNCHANGED <<pc, reading, allocated, mSocket, mClientList, pending, ioVars, stateAsked>>

Login(s, env)        == Dispatch(s, "LOGIN", HandleLoginRequest(game, s, env))
GameState(s, env)    == Dispatch(s, "GAME_STATE", HandleGameStateRequest(game, s, env))
Stop(s, env)         == Dispatch(s, "PLAY", HandleStopRequest(game, s, env))
Rotation(s, env)     == Dispatch(s, "PLAY", HandleRotationRequest(game, s, env))
Respawn(s, env)      == Dispatch(s, "PLAY", HandleRespawnRequest(game, s, env))
Acceleration(s, env) == Dispatch(s, "PLAY", HandleAccelerationRequest(game, s, env))
Gather(s, env)       == Dispatch(s, "PLAY", SkillGather(game, s, env))
Push(s, env)         == \E target \in PushTargets(game, s) :
                          Dispatch(s, "PLAY", HandleSkill(game, s, target, env))
RefusedSkill(s)      == Dispatch(s, "PLAY", game)

(* OnRead is done and RecvCompletion posts the next receive.               *)
PostRecv(s, posted, env) ==
  /\ Running /\ reading = s /\ recvBuffer[s] = <<>>
  /\ reading' = NoSession /\ ApcDone
  /\ IF posted /\ s \in game.connected
     THEN StartRecv(s) /\ UNCHANGED <<game, openSocks, inFlight>>
     ELSE /\ Apply(DisconnectAll(game, {s}, env), inFlight)
          /\ UNCHANGED <<recvOp, mOverlappedRequested>>
  /\ UNCHANGED <<allocated, mSocket, mClientList, pending, sendOps, recvBuffer, stateAsked>>

(* The client: PKT_CS_GAME_STATE in answer to the LoginResult, then the    *)
(* requests of the player.                                                 *)
ClientSends(s) ==
  /\ Running
  /\ s \in game.connected /\ game.loginResult[s] # NoLogin
  /\ Len(inFlight[s]) < MaxInFlight
  /\ inFlight' = [inFlight EXCEPT ![s] =
       Append(@, IF s \in stateAsked THEN "PLAY" ELSE "GAME_STATE")]
  /\ stateAsked' = stateAsked \cup {s}
  /\ UNCHANGED <<pc, reading, game, tableVars, ioVars, recvBuffer>>

Handler(s, env) ==
  \/ Login(s, env) \/ GameState(s, env) \/ Stop(s, env) \/ Rotation(s, env)
  \/ Respawn(s, env) \/ Acceleration(s, env) \/ Gather(s, env) \/ Push(s, env)
  \/ RefusedSkill(s)

Next ==
  \/ \E k \in Sock : Accept(k)
  \/ \E s \in Session : ClientSends(s) \/ \E n \in 0 .. MaxInFlight :
       n <= Len(inFlight[s]) /\ RecvData(s, n)
  \/ \E env \in Environment :
       \/ \E s \in Session : \/ Handler(s, env) \/ RecvFailed(s, env)
                             \/ \E ok \in BOOLEAN : \/ CreateClient(s, ok, env)
                                                    \/ SendCompletion(s, ok, env)
                                                    \/ PostRecv(s, ok, env)
       \/ \E post \in SUBSET Session : \/ FlushClientSend(post, env)
                                       \/ \E gc \in BOOLEAN : OnPeriodWork(gc, post, env)

Spec == Init /\ [][Next]_vars

-----------------------------------------------------------------------------
TypeOK ==
  /\ pc \in {"loop", "sleep"} /\ reading \in Session \cup {NoSession}
  /\ game \in Game
  /\ allocated \subseteq Session
  /\ mSocket \in [Session -> Sock \cup {NoSock}]
  /\ mClientList \in [Sock -> Session \cup {NoSession}]
  /\ openSocks \subseteq Sock /\ pending \in Seq(Sock)
  /\ recvOp \subseteq Session
  /\ sendOps \in [Session -> Nat] /\ mOverlappedRequested \in [Session -> Nat]
  /\ inFlight \in [Session -> Seq(Request)] /\ recvBuffer \in [Session -> Seq(Request)]
  /\ stateAsked \subseteq Session

(* Between two requests the three tables that lead from a player id to its *)
(* session agree, whichever functions filled and emptied them.             *)
SlotAgreement ==
  Running => /\ game.m_CharacterList = game.objectTable
             /\ game.m_CharacterList = game.mClientIdList

(* Registration, the cleanup of Disconnect and the collection leave no     *)
(* stale entry and go together with mConnected (the comment at the top of  *)
(* Disconnect): a session is found under an id exactly when it is          *)
(* connected and knows the id as its own.                                  *)
SlotOwnership ==
  Running => \A id \in Id, s \in Session :
    game.mClientIdList[id] = s <=> s \in game.connected /\ game.mPlayerId[s] = id

(* What LoginResult told a client stays true while it is connected: its    *)
(* id, its team and the seed from which it places the debris.  Init, run   *)
(* when the last player leaves, never changes the seed under a player.     *)
ClientAgreement ==
  Running => \A s \in game.connected : game.loginResult[s] # NoLogin =>
    LET login == game.loginResult[s] IN
    /\ login.id = game.mPlayerId[s]
    /\ login.seed = game.m_RandomSeed
    /\ (login.id \in game.m_TeamBlue) = (login.team = "BLUE")
    /\ (login.id \in game.m_TeamRed) = (login.team = "RED")

(* Two players in the game were told of each other: whoever came later     *)
(* was sent the state of the earlier one by InitPlayerState and announced  *)
(* to it (what their clients keep of it is another matter).                *)
PeersKnown ==
  Running => \A a, b \in game.introduced :
    a # b => game.mPlayerId[a] \in game.announced[b]

(* A completion routine never runs on a deleted session: the object stays  *)
(* while a receive or a send is in progress or its OnRead loop runs.       *)
NoDanglingCompletion ==
  /\ \A s \in Session : s \in recvOp \/ sendOps[s] > 0 => s \in allocated
  /\ reading # NoSession => reading \in allocated

(* These assertions of the code never fail: RegisterSession finds the slot *)
(* free, DeregisterSession finds the session in it, and the session of a   *)
(* character to broadcast about is there.                                  *)
AssertionsHold ==
  game.fault \notin {"RegisterSession", "DeregisterSession", "BroadcastCharacterChange"}

(* A player id passes from one session to another only after the first     *)
(* one has been disconnected.                                              *)
NoTakeover ==
  [][\A id \in Id :
       LET old == game.mClientIdList[id] IN
       game'.fault = "none" /\ old # NoSession /\ game'.mClientIdList[id] # old =>
         game'.mClientIdList[id] = NoSession /\ old \notin game'.connected]_vars

-----------------------------------------------------------------------------
(* Fairness.  The thread keeps running; the timer APC is queued every      *)
(* 100 ms and APCs run in the order they were queued, so it is not         *)
(* overtaken forever; once a second its work includes the collection; and  *)
(* the system completes the receives and sends of a closed socket.         *)
Fairness ==
  /\ WF_vars(\E env \in Environment :
               \/ \E s \in Session, posted \in BOOLEAN :
                    CreateClient(s, posted, env) \/ PostRecv(s, posted, env)
               \/ \E s \in Session : Handler(s, env)
               \/ FlushClientSend({}, env))
  /\ SF_vars(\E env \in Environment, post \in SUBSET Session : OnPeriodWork(TRUE, post, env))
  /\ \A s \in Session :
       SF_vars(s \notin game.connected /\ \E env \in Environment :
                 RecvFailed(s, env) \/ SendCompletion(s, FALSE, env))

LiveSpec == Spec /\ Fairness

(* A disconnected session is collected in the end, however long its        *)
(* receives and sends take to be aborted.                                  *)
DisconnectedIsCollected ==
  \A s \in Session :
    s \in allocated /\ s \notin game.connected ~> s \notin allocated \/ ~Running
=============================================================================
