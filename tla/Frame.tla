------------------------------- MODULE Frame -------------------------------
(***************************************************************************)
(* The loop of the client while its play scene is up: messages first, and  *)
(* when none waits a frame, which samples the keyboard, lets the play      *)
(* scene turn keys that went down into requests, lets time pass for the    *)
(* effects and draws them.                                                 *)
(*                                                                         *)
(* Of the network there is what the requests and the effects depend on:    *)
(* whether the client is logged in and whether its character is alive.     *)
(***************************************************************************)
EXTENDS Effects

CONSTANTS
  Key,          \* the keys in use
  MaxDelta,     \* bound on the time between two frames
  MaxEffects    \* bound on the effects played

ASSUME FrameAssumption ==
  /\ Key \subseteq {"W", "S", "1", "2", "SPACE", "ESCAPE"}
  /\ {MaxDelta, MaxEffects} \subseteq Nat

VARIABLES
  keyDown,          \* the keys held down, as the thread's messages have it
  focus,            \* the window has the focus
  m_PrevKeyState, m_NowKeyState,
  logon,            \* m_MyPlayerId is not -1
  alive,            \* the copy of one's own character
  running,          \* WM_QUIT was not posted
  written,          \* the keys whose requests the last frame wrote, with the request
  pressed           \* history: the keys that went down since their last request

keys == <<m_PrevKeyState, m_NowKeyState>>
player == <<logon, alive>>
frameVars == <<effectVars, keyDown, focus, keys, player, running, written, pressed>>

FrameInit ==
  /\ InitParticleEffects
  /\ keyDown = {} /\ focus = TRUE
  /\ m_PrevKeyState = [k \in Key |-> FALSE] /\ m_NowKeyState = m_PrevKeyState
  /\ logon = FALSE /\ alive = TRUE /\ running = TRUE
  /\ written = {} /\ pressed = {}

-----------------------------------------------------------------------------
(* Messages.                                                               *)

PressKey(k) ==
  /\ running /\ k \notin keyDown
  /\ keyDown' = keyDown \cup {k} /\ pressed' = pressed \cup {k}
  /\ UNCHANGED <<effectVars, focus, keys, player, running, written>>

ReleaseKey(k) ==
  /\ running /\ k \in keyDown /\ keyDown' = keyDown \ {k}
  /\ UNCHANGED <<effectVars, focus, keys, player, running, written, pressed>>

ChangeFocus ==
  /\ running /\ focus' = ~focus
  /\ UNCHANGED <<effectVars, keyDown, keys, player, running, written, pressed>>

HandleLoginResult ==
  /\ running /\ ~logon /\ logon' = TRUE
  /\ UNCHANGED <<effectVars, keyDown, focus, keys, alive, running, written, pressed>>

FrameHandleDeadResult ==
  /\ running /\ logon /\ alive' = FALSE
  /\ UNCHANGED <<effectVars, keyDown, focus, keys, logon, running, written, pressed>>

(* The answer to a respawn, also to one too many.                          *)
FrameHandleRespawnResult ==
  /\ running /\ logon /\ alive' = TRUE
  /\ UNCHANGED <<effectVars, keyDown, focus, keys, logon, running, written, pressed>>

(* ACCELERATION, KINETIC_STATE, COLLISION and GATHER results.              *)
HandleResultWithEffect ==
  /\ running /\ m_CurrentFireworkEffectNumber < MaxEffects /\ PlayFireworkEffect("EXPLOSION")
  /\ UNCHANGED <<keyDown, focus, keys, player, running, written, pressed>>

-----------------------------------------------------------------------------
(* The frame.                                                              *)

UpdateKeyState_KeepsPrev ==
  /\ UNCHANGED m_PrevKeyState
  /\ m_NowKeyState' = [k \in Key |-> k \in keyDown]

UpdateKeyState ==
  /\ m_PrevKeyState' = m_NowKeyState
  /\ m_NowKeyState' = [k \in Key |-> k \in keyDown]

(* KEY_DOWN: the key was up in the last frame and is down in this one.     *)
IsKeyDown(k) == ~m_PrevKeyState'[k] /\ m_NowKeyState'[k]

(* The scene hears of keys while the window has the focus.                 *)
SceneKeyDown(k) == focus /\ k \in Key /\ IsKeyDown(k)

Send(k, request) == IF SceneKeyDown(k) /\ logon THEN {<<k, request>>} ELSE {}

SendRespawnRequest == Send("SPACE", "RESPAWN")
SendAcceleration == Send("W", "ACCELERATION")
SendStop == Send("S", "STOP")
SendUsingSkill == Send("1", "PUSH") \cup Send("2", "GATHER")
SendTurnBody == Send("SPACE", "ROTATION")

(* PlayScene::UpdateItSelf: nothing before the login, a respawn while dead. *)
PlaySceneUpdateItSelf ==
  /\ written' = CASE ~logon -> {}
                  [] logon /\ ~alive -> SendRespawnRequest
                  [] OTHER -> SendAcceleration \cup SendStop \cup SendUsingSkill \cup SendTurnBody
  /\ pressed' = pressed \ {w[1] : w \in written'}

(* The oxygen of the copy may run out when time passes.                    *)
FramePlayerUpdateItSelf ==
  \/ UNCHANGED alive
  \/ logon /\ alive' = FALSE

RunFrame ==
  /\ running
  /\ UpdateKeyState
  /\ PlaySceneUpdateItSelf
  /\ \E dTime \in 0 .. MaxDelta : UpdateAndRender(dTime)
  /\ FramePlayerUpdateItSelf
  /\ running' = ~("ESCAPE" \in Key /\ IsKeyDown("ESCAPE"))
  /\ UNCHANGED <<keyDown, focus, logon>>

GraphicsCard == CardDraws /\ UNCHANGED <<keyDown, focus, keys, player, running, written, pressed>>

FrameNext ==
  \/ \E k \in Key : PressKey(k) \/ ReleaseKey(k)
  \/ ChangeFocus
  \/ HandleLoginResult \/ FrameHandleDeadResult \/ FrameHandleRespawnResult
  \/ HandleResultWithEffect
  \/ RunFrame
  \/ GraphicsCard

FrameSpec == FrameInit /\ [][FrameNext]_frameVars

-----------------------------------------------------------------------------
(* However long a key is held, whatever happens to the focus and the       *)
(* player meanwhile, it has to go down again for another request           *)
(* (DDInputSystem.cpp:35, PlayScene.cpp:172 to 218).                       *)
OneRequestPerPress ==
  [][IsFrame => \A w \in written' : w[1] \in pressed]_frameVars
=============================================================================
