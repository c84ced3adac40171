----------------------------- MODULE ClientView -----------------------------
(***************************************************************************)
(* One client next to the players it hears of: loading, the login          *)
(* handshake, the copies of the players that the results of the server     *)
(* keep, and what the user may ask for.                                    *)
(*                                                                         *)
(* The server is the abstract Roster, which Play implements; requests and  *)
(* results travel in order (RequestPath and ResultPath).  Where the        *)
(* players are is left out: results that only say that change nothing here.*)
(***************************************************************************)
EXTENDS Integers, Sequences, FiniteSetsExt, SequencesExt, Functions

CONSTANTS
  Id, DEFAULT_FUEL, MaxResource, \* of Roster
  REAL_PLAYER_NUM,   \* where the ids of the ghosts of the players begin
  MaxRequests,       \* bound on the requests on their way
  MaxActs,           \* bound on what other players and death do
  MaxResults         \* bound on the results on their way before the server acts

NoId == -1

ASSUME ClientViewAssumption ==
  /\ Id \subseteq Nat /\ \A p \in Id : p < REAL_PLAYER_NUM
  /\ {DEFAULT_FUEL, MaxResource, REAL_PLAYER_NUM, MaxRequests, MaxActs, MaxResults} \subseteq Nat

VARIABLES
  playing, alive, fuel, resource, sent, \* of Roster
  introduced,     \* the players whose GAME_STATE was answered
  mPlayerId,      \* the id of this client's session
  requests,       \* from this client, on their way
  results,        \* to this client, on their way
  scene,          \* "LOADING" or "PLAY"
  startsPosted,   \* SL_LOADINGSCENE_LOADING_START messages in the queue
  connections,    \* how often PlayScene::Init connected
  m_MyPlayerId,   \* what LOGIN said
  m_PlayerList,   \* the client's copies of the players it knows
  placed,         \* the camera and the debris are there
  fault,          \* what the client stopped on
  acts,           \* counts steps of other players and deaths
  since           \* history: whether the player of an id joined "before" the client
                  \* connected, "after", or after others "left" the id since then

server == <<playing, alive, fuel, resource, introduced, mPlayerId>>
loading == <<scene, startsPosted, connections>>
view == <<m_MyPlayerId, m_PlayerList, placed>>
vars == <<server, sent, requests, results, loading, view, fault, acts, since>>

Server == INSTANCE Roster

Init ==
  /\ Server!Init /\ introduced = {} /\ mPlayerId = NoId
  /\ requests = <<>> /\ results = <<>>
  /\ scene = "LOADING" /\ startsPosted = 0 /\ connections = 0
  /\ m_MyPlayerId = NoId /\ m_PlayerList = <<>> /\ placed = FALSE
  /\ fault = "none"
  /\ acts = 0 /\ since = [p \in Id |-> "before"]

Connected == connections > 0
Result(type, p, n) == [type |-> type, id |-> p, value |-> n]

-----------------------------------------------------------------------------
(* The server.  A broadcast reaches every session there is, logged in or   *)
(* not; a death goes to the client of the dead twice.                      *)

Received(broadcast) ==
  LET mine == {i \in DOMAIN broadcast : broadcast[i].type = "DEAD" /\ broadcast[i].id = mPlayerId}
  IN  IF mine = {} THEN broadcast
      ELSE LET i == CHOOSE i \in mine : TRUE IN InsertAt(broadcast, i, broadcast[i])

Deliver(broadcast) ==
  results' = IF Connected THEN results \o Received(broadcast) ELSE results

(* RegisterCharacter gives the first free id.                              *)
Login(p) ==
  /\ Id \ playing # {} /\ p = Min(Id \ playing)
  /\ Server!Join(p) /\ UNCHANGED introduced
  /\ since' = IF Connected /\ since[p] = "before" THEN [since EXCEPT ![p] = "after"]
                                                  ELSE since

(* What the requests of a player that is in the game may do.  The body is  *)
(* left out, so that a turn changes nothing here.                          *)
Act(p, type) ==
  /\ p \in introduced
  /\ \/ type = "ACCELERATION" /\ Server!Spend(p) /\ Deliver(sent')
     \/ type = "GATHER" /\ Server!Gather(p) /\ Deliver(sent')
     \/ type = "RESPAWN" /\ Server!Respawn(p) /\ Deliver(sent')
     \/ type = "ROTATION" /\ Server!Quiet /\ Deliver(<<Result("ROTATION", p, 0)>>)
  /\ UNCHANGED <<introduced, mPlayerId, since>>

Introduce(p) == Server!Introduce(p) /\ introduced' = introduced \cup {p}

RequestType == {"ACCELERATION", "GATHER", "RESPAWN", "ROTATION"}

(* Players at other clients.                                               *)
Others(p) ==
  /\ p # mPlayerId /\ Len(results) < MaxResults /\ acts < MaxActs /\ acts' = acts + 1
  /\ \/ Login(p) /\ UNCHANGED <<results, mPlayerId>>
     \/ /\ p \notin introduced /\ Introduce(p) /\ Deliver(sent')
        /\ UNCHANGED <<mPlayerId, since>>
     \/ /\ Server!Leave(p) /\ introduced' = introduced \ {p}
        /\ since' = IF Connected THEN [since EXCEPT ![p] = "left"] ELSE since
        /\ UNCHANGED <<mPlayerId, results>>
     \/ \E type \in RequestType : Act(p, type)
  /\ UNCHANGED <<requests, loading, view, fault>>

(* The oxygen of players runs out.                                         *)
Die(S) ==
  /\ Len(results) < MaxResults /\ acts < MaxActs /\ acts' = acts + 1 /\ Server!Die(S) /\ Deliver(sent')
  /\ UNCHANGED <<introduced, mPlayerId, requests, loading, view, fault, since>>

(* The requests of this client; what its state does not allow is dropped.  *)
(* A LOGIN that finds no free id waits (GameServer has what happens to it).*)
HandleLoginRequest ==
  /\ Head(requests) = "LOGIN"
  /\ \E p \in Id : Login(p) /\ mPlayerId' = p /\ results' = Append(results, Result("LOGIN", p, 0))

HandleGameStateRequest ==
  /\ Head(requests) = "GAME_STATE" /\ Introduce(mPlayerId)
  /\ \E order \in Server!Ascending(playing \ {mPlayerId}) :
       Deliver(sent' \o [i \in DOMAIN order |-> Result("SYNC", order[i], 0)])
  /\ UNCHANGED <<mPlayerId, since>>

HandleRequest ==
  /\ requests # <<>> /\ requests' = Tail(requests) /\ Len(results) < MaxResults
  /\ \/ HandleLoginRequest \/ HandleGameStateRequest
     \/ Act(mPlayerId, Head(requests))
     \/ Head(requests) \in RequestType /\ Server!Quiet
        /\ UNCHANGED <<introduced, mPlayerId, since, results>>
  /\ UNCHANGED <<loading, view, fault, acts>>

-----------------------------------------------------------------------------
(* The client: loading.                                                    *)

NoServerStep == sent' = <<>> /\ UNCHANGED server

(* Mutant: frames are rendered whether or not messages wait.               *)
RenderLoadingScene_Eager ==
  /\ scene = "LOADING" /\ startsPosted < 2 /\ startsPosted' = startsPosted + 1
  /\ NoServerStep /\ UNCHANGED <<requests, results, scene, connections, view, fault, acts, since>>

(* Run renders only when no message waits.  After 60 frames each frame     *)
(* posts one more start of the play scene.                                 *)
RenderLoadingScene ==
  /\ scene = "LOADING" /\ startsPosted = 0 /\ startsPosted' = startsPosted + 1
  /\ NoServerStep /\ UNCHANGED <<requests, results, scene, connections, view, fault, acts, since>>

(* How the first frame of the play scene may go.  Connect may be refused at *)
(* once: it is printed, and the program plays on without a server, for      *)
(* nothing tries again.  It may fail later: WM_SOCKET then brings the error *)
(* and the window is destroyed, with the LOGIN still in the ring.  Without  *)
(* its data the game stops (Init of the game data asserts).                 *)
Outcome == {"connected", "refused", "NoConnection", "NoGameData"}

(* Mutant: the connection is made, but nothing written.                    *)
Connect_NoLogin(outcome) ==
  \/ outcome = "connected" /\ connections' = connections + 1 /\ UNCHANGED <<requests, fault>>
  \/ outcome = "refused" /\ UNCHANGED <<connections, requests, fault>>
  \/ outcome = "NoConnection" /\ fault' = outcome /\ UNCHANGED <<connections, requests>>

Connect(outcome) ==
  \/ /\ outcome = "connected" /\ connections' = connections + 1
     /\ requests' = Append(requests, "LOGIN") /\ UNCHANGED fault
  \/ outcome = "refused" /\ UNCHANGED <<connections, requests, fault>>
  \/ outcome = "NoConnection" /\ fault' = outcome /\ UNCHANGED <<connections, requests>>

PlaySceneInit(outcome) ==
  IF outcome = "NoGameData" THEN fault' = outcome /\ UNCHANGED <<connections, requests>>
  ELSE Connect(outcome)

(* ChangeScene initialises the scene, whichever it is.                     *)
ChangeScene(outcome) ==
  /\ fault = "none" /\ startsPosted > 0 /\ startsPosted' = startsPosted - 1
  /\ scene' = "PLAY" /\ PlaySceneInit(outcome)
  /\ NoServerStep /\ UNCHANGED <<results, view, acts, since>>

(* The client: results.                                                    *)

NewPlayer == [alive |-> TRUE, fuel |-> DEFAULT_FUEL, resource |-> 0]

Knows(p) == p \in DOMAIN m_PlayerList
AddPlayer(p) ==
  [q \in DOMAIN m_PlayerList \cup {p} |-> IF Knows(q) THEN m_PlayerList[q] ELSE NewPlayer]

(* Results about players nobody told of are dropped.                       *)
Set(p, player) == m_PlayerList' = IF Knows(p) THEN [m_PlayerList EXCEPT ![p] = player]
                                              ELSE m_PlayerList

(* Mutant: the debris and the camera have to wait for GAME_STATE.          *)
HandleLoginResult_NotPlaced(p) ==
  /\ m_MyPlayerId' = p /\ m_PlayerList' = AddPlayer(p) /\ UNCHANGED <<placed, fault>>
  /\ requests' = Append(requests, "GAME_STATE")

HandleLoginResult(p) ==
  /\ m_MyPlayerId' = p /\ m_PlayerList' = AddPlayer(p)
  /\ placed' = (placed \/ ~Knows(p)) /\ UNCHANGED fault
  /\ requests' = Append(requests, "GAME_STATE")

HandleGatherResult(p, n) ==
  /\ fault' = IF placed THEN fault ELSE "NoDebris"
  /\ Set(p, [m_PlayerList[p] EXCEPT !.resource = n])
  /\ UNCHANGED <<requests, m_MyPlayerId, placed>>

HandleTurnBodyResult(p) == m_PlayerList' = AddPlayer(p)

HandleRespawnResult(p) == Set(p, NewPlayer)

(* With USE_CHARACTER_COLLISION_BOX defined the player is not looked at,   *)
(* only the ghost of it.                                                   *)
HandleSyncResult(p) ==
  m_PlayerList' = IF Knows(p + REAL_PLAYER_NUM) THEN AddPlayer(p + REAL_PLAYER_NUM)
                                                ELSE m_PlayerList

(* Mutant: a player that was heard of must not be added.                   *)
HandleNewResult_OnlyKnown(p) == UNCHANGED m_PlayerList
HandleNewResult(p) == m_PlayerList' = AddPlayer(p)

(* Mutant: the state goes to the component of one's own player.            *)
HandleCharacterStateResult_OfMine(p, n) ==
  IF Knows(m_MyPlayerId) THEN Set(m_MyPlayerId, [m_PlayerList[m_MyPlayerId] EXCEPT !.fuel = n])
                         ELSE UNCHANGED m_PlayerList
HandleCharacterStateResult(p, n) == Set(p, [m_PlayerList[p] EXCEPT !.fuel = n])
HandleDeadResult(p) == Set(p, [m_PlayerList[p] EXCEPT !.alive = FALSE])

HandleResult ==
  /\ fault = "none" /\ results # <<>> /\ results' = Tail(results)
  /\ LET type == Head(results).type
         p == Head(results).id
         n == Head(results).value
     IN     \/ type = "LOGIN" /\ HandleLoginResult(p)
            \/ type = "GATHER" /\ HandleGatherResult(p, n)
            \/ /\ \/ type = "ROTATION" /\ HandleTurnBodyResult(p)
                  \/ type = "SYNC" /\ HandleSyncResult(p)
                  \/ type = "NEW" /\ HandleNewResult(p)
                  \/ type = "CHARACTER_STATE" /\ HandleCharacterStateResult(p, n)
                  \/ type = "DEAD" /\ HandleDeadResult(p)
                  \/ type = "RESPAWN" /\ HandleRespawnResult(p)
               /\ UNCHANGED <<requests, m_MyPlayerId, placed, fault>>
  /\ NoServerStep /\ UNCHANGED <<loading, acts, since>>

(* The client: frames of the play scene.                                   *)

(* Each copy has an oxygen supply of its own, which may run out.           *)
UpdatePlayers(S) ==
  /\ fault = "none" /\ S # {} /\ S \subseteq {p \in DOMAIN m_PlayerList : m_PlayerList[p].alive}
  /\ m_PlayerList' = [p \in DOMAIN m_PlayerList |->
                        [m_PlayerList[p] EXCEPT !.alive = @ /\ p \notin S]]
  /\ NoServerStep /\ UNCHANGED <<requests, results, loading, m_MyPlayerId, placed, fault, acts, since>>

(* Before the login a frame does nothing; the dead can only respawn; for   *)
(* the others every frame moves the camera.                                *)
UpdatePlayScene(type) ==
  /\ fault = "none" /\ scene = "PLAY" /\ m_MyPlayerId # NoId
  /\ IF m_PlayerList[m_MyPlayerId].alive
     THEN IF placed THEN type # "RESPAWN" /\ Len(requests) < MaxRequests
                         /\ requests' = Append(requests, type) /\ UNCHANGED fault
                    ELSE fault' = "NoCamera" /\ UNCHANGED requests
     ELSE /\ type = "RESPAWN" /\ Len(requests) < MaxRequests
          /\ requests' = Append(requests, type) /\ UNCHANGED fault
  /\ NoServerStep /\ UNCHANGED <<results, loading, view, acts, since>>

-----------------------------------------------------------------------------
Client ==
  \/ RenderLoadingScene \/ (\E outcome \in Outcome : ChangeScene(outcome))
  \/ HandleResult
  \/ (\E S \in SUBSET Id : UpdatePlayers(S))
  \/ \E type \in RequestType : UpdatePlayScene(type)

Next == \/ Client \/ HandleRequest
        \/ (\E p \in Id : Others(p)) \/ \E S \in SUBSET Id : Die(S)

Spec == Init /\ [][Next]_vars

(* The thread of the client runs on; the server handles what it receives.  *)
LiveSpec ==
  /\ Spec /\ WF_vars(RenderLoadingScene) /\ WF_vars(\E outcome \in Outcome : ChangeScene(outcome))
  /\ WF_vars(HandleResult) /\ WF_vars(HandleRequest)

-----------------------------------------------------------------------------
TypeOK ==
  /\ Server!TypeOK /\ introduced \subseteq playing
  /\ mPlayerId \in Id \cup {NoId} /\ m_MyPlayerId \in {mPlayerId, NoId}
  /\ DOMAIN m_PlayerList \subseteq Id
  /\ scene \in {"LOADING", "PLAY"} /\ startsPosted \in 0 .. 1
  /\ fault \in {"none", "NoGameData", "NoConnection", "NoDebris", "NoCamera"}

(* The play scene is entered, and the server connected to, once, however   *)
(* many frames ask for it.                                                 *)
ConnectsOnce == connections <= 1

(* A client that was told its id has its camera and its debris, unless its *)
(* id was somebody else's since it connected: no other order in which the  *)
(* others come, act and go before its LOGIN makes a frame or a later       *)
(* GATHER reach for what is not there.                                     *)
LoginPlaces ==
  /\ m_MyPlayerId # NoId => placed \/ since[m_MyPlayerId] = "left"
  /\ fault = "NoDebris" /\ m_MyPlayerId # NoId => since[m_MyPlayerId] = "left"

(* A client that has handled everything sent to it knows every player that *)
(* entered the game after it had connected.                                *)
KnowsNewcomers ==
  results = <<>> /\ fault = "none" =>
    {p \in introduced : since[p] # "before"} \subseteq DOMAIN m_PlayerList

(* ... and has them right: fuel and resource are the server's.  The copy   *)
(* of an id that changed hands may be of its earlier player; nothing       *)
(* replaces it.                                                            *)
CaughtUp ==
  results = <<>> /\ fault = "none" =>
    \A p \in {q \in introduced : since[q] = "after"} :
      m_PlayerList[p].fuel = fuel[p] /\ m_PlayerList[p].resource = resource[p]

(* A client that has connected hears its id in the end, whatever others do *)
(* meanwhile, unless its LOGIN finds no free id or somebody gathers before *)
(* it was answered.                                                        *)
LoginCompletes ==
  Connected ~> \/ m_MyPlayerId # NoId \/ fault = "NoDebris"
               \/ requests = <<"LOGIN">> /\ playing = Id
=============================================================================
