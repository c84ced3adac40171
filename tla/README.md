# Debris Defragmentation: a TLA+ model of the game, its server and its client

Debris Defragmentation is a multiplayer space game for Windows (C++, 2014): a
server for eight players in two teams, a Direct3D client, and a C# tool that
edits the game's data. This directory holds TLA+ modules translated from its
source, TLC configurations that check them on small instances, and proofs for
every value of the constants. Paths below are relative to
`src/DebrisDefragmentation/`; the packets are in `src/PacketType.h`. The Debug build is the one modelled: there a failed `assert`
and an index outside a `std::array` stop the program, and the models stop too.

## 1. Inventory

### How the program works

The **server** (`DD_Server/`, with the rules of `GameLogic/`) has two threads.
The main thread accepts connections and puts the sockets in a queue. The
client-handling thread does everything else, without locks, in one loop: take a
socket off the queue and make a `ClientSession` of it, or, when the queue is
empty, flush the send buffers of all sessions and go to sleep alertably. In that
sleep run asynchronous procedure calls (APCs): completions of `WSARecv`,
completions of `WSASend`, and a timer every 100 ms that collects disconnected
sessions, advances the game, broadcasts its results and flushes again.

The **client** (`DebrisDefragmentation/`, on `DDFramework/`) is single-threaded:
window messages for socket events first and, when none waits, a frame that
samples the keyboard, turns keys into requests, moves its own copies of the
characters and draws. The **game tool** (`IndependentGameTool/`) edits the JSON
file both read at their start.

Requests go from the client's ring through its socket into a session's receive
buffer and to a handler; a handler changes a character and broadcasts results,
through the send buffer of every session, to the rings of the clients and to
their handlers, which steer the copies. Nothing is acknowledged or repeated:
what a result does not say, a client never learns.

| part | state | operations | used by |
|---|---|---|---|
| `CircularBuffer` | memory, offsets and sizes of regions A and B | Write, Read, Peek, Remove, Commit, GetBuffer, GetFreeSpaceSize, ... | both buffers of a session |
| `ProducerConsumerQueue` | ring, SRW lock, two condition variables | Produce, Consume | accept loop and client thread |
| `ClientSession` | socket, mConnected, mPlayerId, buffers, count of overlapped requests, its `Character` | OnConnect, PostRecv, OnRead, SendRequest, SendFlush, Disconnect, a handler per request | the APCs, `ClientManager` |
| `ClientManager` | mClientList (socket to session), mClientIdList (id to session), time stamps | CreateClient, Register/DeregisterSession, BroadcastPacket, OnPeriodWork, CollectGarbageSessions, FlushClientSend | thread loop, sessions |
| `ActorManager`, `ObjectTable` | m_CharacterList, teams, seed, debris; a second table of characters | Init, RegisterCharacter, DeregisterCharacter, Update, CheckCollision, DetectTarget | sessions, skills |
| `Character`, `ClassComponent`, `Engineer` | oxygen, fuel, HP, cooldowns, dead flag, position and velocity | skills, Update, ChangeClass | handlers, ActorManager |
| `GameManager` (server) | collided and dead players | DoPeriodWork, BroadcastCharacterChange | timer, skills |
| `ObjectPool` | free list | new, delete | sessions |
| `RigidBody`, `Physics`, `Transform` | position, velocity, acceleration, spin, collision boxes | CalcCurrentPosition, IsCollide, Collide, ... | `Character`, `ActorManager`, the client's `Player` |
| `DDCircularBuffer`, `DDNetwork` (client) | one wrapping region; socket | Write, Read, Peek, Consume; Send, Read, ProcessPacket | window procedure |
| `NetworkManager`, `PlayerManager` (client) | own id, list of players | a handler per result, AddPlayer | DDNetwork |
| `Player`, scenes (client) | local copy of oxygen, HP and body; current scene, object tree | frame update, ChangeScene | frame loop |
| `DDInputSystem`, `DDApplication` (client) | two samples of the keyboard; focus | UpdateKeyState, Run | frame loop |
| `ParticleSystem` and its effects (client) | particles, vertex buffer, offset in it | PlayEffect, Update, Render | result handlers, frame loop |
| `GameData` | the values of `Config.json` | Init, getters | server and client at their start |
| Game tool | the document, a tree on each of two tabs, files it reads | load, select, modify, save | its user |

Never compiled: `ISS*`, `SpaceMine`, `Dispenser`, `PlayerCharacter`, the client's
`GameLogic.cpp` and `GameManager.cpp`, `BarUI`, `FuelUI`, `OxygenUI`. Compiled
but without effect: in-game events (their update is commented out),
`DebrisManager`, the winner of the game (never set).

### What is hard here, and what must hold

* **Asynchronous I/O on shared memory.** The system fills the receive buffer and
  reads the send buffer between a call and its completion. A receive window must
  never cover stored bytes, a send must read exactly the bytes it was given.
* **Lifetime.** A session is disconnected at once but deleted by a collection
  that runs once a second; until then completions still arrive for it, its
  handle is already closed, and broadcasts still meet it.
* **Four tables.** A player is in `m_CharacterList` and a team, in `ObjectTable`,
  in `mClientIdList` and in its session. Any handler may disconnect its own
  session or any other one whose send buffer is full, in the middle of its work.
* **What clients were told.** The id, the team and the seed of a `LoginResult`
  are not sent again; two players must be told of each other whatever the order of
  their logins.
* **Threads.** The queue signals after releasing its lock, one thread per item.
* **Game rules.** Cooldowns, oxygen and death advance by timer ticks of varying
  length and are reset by a respawn that does not ask whether the player is dead.
* **The stream.** Packets are cut anywhere, `send` takes a part or nothing,
  FD_WRITE comes once, and a ring that is full drops what does not fit.
* **Copies.** A client hears of a body only when its course changes and moves its
  copy by itself meanwhile, oxygen and death included; it hears of others before
  its own login; ids are used again; the connection may never come about.
* **Frames.** Keys are compared between samples; the graphics card draws from
  vertex buffers that later frames write to.
* **The tool.** Its document, two trees, label and text box are kept in step by
  hand; an edit removes a key before it converts the new value and puts it in; what
  it takes for a number the game need not.

The hazards, each with its line and the properties that cover it, are listed
under `hazards` in `PROJECT.json`.

## 2. The modules

| module | models | abstraction |
|---|---|---|
| `ByteQueue` | what a byte buffer promises: a bounded FIFO with a receive window | abstract specification |
| `CircularBufferOps` | the methods of `CircularBuffer` as operators on a record | exact; bytes from a set, `Junk` for memory never written |
| `CircularBuffer` | one buffer under any sequence of legal calls | implements `ByteQueue` |
| `CircularBufferOpsProofs` | lemmas about the methods | |
| `BoundedFifo` | what the accept queue promises | abstract specification |
| `ProducerConsumerQueue` | the queue, its lock and its condition variables | implements `BoundedFifo` |
| `SendPath` | one session's send buffer, flushes, WSASends and completions | uses `CircularBufferOps` |
| `ServerBufferProofs` | theorems about the buffer and the send path | |
| `GameServer` | sessions, registry, handlers, completions, timer, collection | a buffer is full or not; a complete request is a unit |
| `GameServerProofs` | theorems about it | |
| `PacketChannel` | what either direction of a connection promises | abstract specification |
| `DDCircularBufferOps` | the client's ring as operators on a record | exact |
| `PacketPath` | what both directions share: packets, the stream, the client's ring | a packet is its size and bytes that tell it apart |
| `RequestPath` | a request from `DDNetwork::Write` to the handler in `OnRead` | both buffers byte by byte; implements `PacketChannel` |
| `ResultPath` | results from the stream to the client's handlers | byte by byte; implements `PacketChannel` until the ring is overrun |
| `PacketPathProofs` | theorems about both paths, lemmas about the client's ring | |
| `Roster` | what the server promises about the players' lives | abstract specification |
| `ClassComponentOps` | oxygen, fuel, health, resource and cooldowns of a character | whole numbers |
| `Play` | requests of play, ticks, deaths, respawns and what is broadcast | implements `Roster`; whom a skill hits is a choice |
| `PlayProofs` | theorems about it and `ClassComponentOps` | |
| `Motion` | bodies, thrusts, stops, impacts, the ray of a push | one dimension, whole numbers, unit time steps |
| `MotionView` | a client's copy of one body, composed with `Motion` | results handled at once |
| `ClientView` | one client: loading, login, its list of players | its server is `Roster`, its connection two queues |
| `ClientViewProofs` | theorems about it | |
| `Effects` | particle systems and their vertex buffers | a particle is its place in the list and its age |
| `Frame` | keyboard, play scene, frames, composed with `Effects` | of the network: logged in, alive |
| `UpdateProofs` | theorems about the two updates: `Motion`, `MotionView`, `Frame` | |
| `ConfigTool` | the editor of `Config.json` and what the game needs of it | a document is a function from paths |
| `StandaloneProofs` | theorems about the two components that share nothing with others: `ProducerConsumerQueue`, `ConfigTool` | |
| `MC_*` | instances for TLC | |

The chain from a key to a picture is covered by modules that meet at abstract
specifications: `Frame` writes requests, `RequestPath` implements the channel they
travel in, `GameServer` and `Play` handle them, `SendPath` and `ResultPath` carry
the results, and `ClientView` and `MotionView` take them in. `Play` implements
`Roster`, and `Roster` is the server that `ClientView` talks to.

**CircularBuffer.** `mARegionPointer`, `mARegionSize` and so on are the fields;
the addresses `0 .. Capacity - 1` are the memory. `Write`, `Read` and `Remove`
follow the branches of the code, region B first; `ReplaceEmptyA` is what they do
when A runs empty. `PostRecvBuffer` takes the window that `PostRecv` hands to
`WSARecv`, and `CommitReceived` is the completion, any number of bytes later;
the code calls nothing that writes to the receive buffer in between, and neither
does the model. `ByteQueue` is what a user of the buffer may rely on.

**ProducerConsumerQueue.** `pc` says where a thread is in its call: on its way to
the lock, holding it before its loop condition, asleep, holding it after its
change, and on its way to wake the other side. Sleeping gives up the lock in one
step (`SleepConditionVariableSRW`), wake-ups may be spurious, and a woken thread
takes the lock again. The server has one producer that waits and one consumer
that does not; the class allows more, and the run adds two consumers that wait.

**SendPath.** `sends` are the WSASends whose completion has not run, each an
address and a length in the buffer's own memory; `CarryOut` is the system reading
that memory at some later time. `undelivered` is a history variable: the accepted
bytes the client has not got. The code reuses one `OVERLAPPED` structure for
overlapping sends; the model lets both complete normally, which is the mildest of
the outcomes.

**GameServer.** `game` is the record of everything a handler may rewrite, so that a
handler is the composition of the functions it calls, in the order of the code:
`HandleGameStateRequest` broadcasts, disconnects the caller if that failed, and
then runs `InitPlayerState`. A `Disconnect` inside a broadcast is part of the same
step, because one thread runs it all. `DisconnectAll` is `Disconnect` of each
session of a set; the order does not matter, except that the last one to leave
draws the seed. `Environment` holds what the code does not determine: whose
buffers are full, whose `setsockopt` fails, the next seed. `pc` and `reading` tell
whether the thread is in its loop, asleep, or in the dispatch loop of `OnRead`.
`fault` names a failed assertion. The client's part is small: it sends `LOGIN`
on connecting, `GAME_STATE` in answer to its `LoginResult` (which is why it needs
one), and requests of play after that.

Two switches separate the assumptions on the system from the code:
`HandleReuse` (a closed handle may be handed out again before the collection has
erased it) and `SetSockOptMayFail`. Section 4 says which theorems need them off.

Some modules of proofs are about two components, whose definitions therefore have
different names: `SendSpec`, `ResultSpec`, `ViewSpec`, `FrameSpec` and `ToolSpec` are
the specifications of `SendPath`, `ResultPath`, `MotionView`, `Frame` and `ConfigTool`.

**PacketPath, RequestPath and ResultPath.** A packet begins with its size, which is what the
framing reads; its other bytes tell packets apart. `armed` says that the system
owes the client an FD_WRITE (after `WSAAsyncSelect` and after `WSAEWOULDBLOCK`),
`posted` counts the messages in its queue, among them those `Write` posts itself.
`SizeT` is the conversion of `send`'s and `recv`'s -1 to a `size_t`, which the ring
then refuses. `granted` is the window the receive in progress was given.
`undispatched` and `last` are what the channel promises: `OnRead` and
`HandlePacket` must hand out exactly the head. In `ResultPath` `recv` may take a
whole ring's size at once, whether or not there is room: `overrun`.

**Play.** `component` is each character's class component, replaced by a respawn.
`sent` are the results of the last step, in order. `sinceStun` and `sinceSkill` are
history variables, clocks independent of the cooldowns in the code. `m_IsDead`
is the flag `DoPeriodWork` compares with `IsAlive`. Skills ask neither for life
nor for a free target; neither does the model.

**Motion and MotionView.** Positions count half units so that `a/2` is whole. A
body's `box` is where `m_Matrix` was when it was last drawn up, one update behind
the position: `IsCollide` uses the boxes, `Collide` the velocities. Players are
the numbers below `REAL_PLAYER_NUM`; `CheckCollision` goes through their `Pairs` in
the order of the code, with its `return`. Spin is left
out: it moves nothing. In `MotionView` `copy.status` is "follows" while the results
told the client all there was to tell; it becomes "lost" where the code cannot
know (section 5), and "follows" again with STOP or RESPAWN. A copy has a class
component of its own: when it runs out of oxygen and health (`expires`, at any frame)
the copy is dead to the client and stays where it is, whatever the server does.

**ClientView.** `Outcome` is how the start of the play scene may go: the game data is
missing, the connection is made, refused at once (the program plays on without a
server) or lost later. The client may draw the loading scene, change the scene, handle a
result, let the oxygen of copies run out and write requests; other players enter,
act, die, respawn and leave. Results reach the client in the order of their
broadcasts, its own death twice (`BroadcastDeadResult` sends it to the session and
then broadcasts it). `since` remembers whether an id was taken before the
client connected, after, or changed hands. `fault` names where the code would
reach through a null pointer.

**Effects and Frame.** `CardDraws` performs an earlier draw call at any later time,
from the memory as it is then; a lock that discards gives the buffer new memory
and leaves the old to the pending draws. `RunFrame` is the whole frame: sample, play
scene, update, draw. Where particles fly is left out.

**ConfigTool.** `ChangeSelected` is a Modify button: the document is changed through
the path of the selected node in one tree, that node gets its new text, and the
other tree is built anew and has no selection then. Label and text are any, since
a right click and the arrow keys part them from the selection. `ChangeValue` does
what `ChangeJsonData` does in its order: `IndexOf` remembers the place, `RemoveKey`
removes the key with what is below it, the text is converted, `InsertKey` puts the
value in. `spoilt` remembers where an edit failed or removed a node. `CanBeRead` is
what `GameData::Init` and its getters need. The tool and the game do not take the same
numbers: `UInt32` and `Number` are the texts the tool converts, `Int32` those of them that
`GetInt` accepts, `JsonNumber` those that JSON can write.

## 3. The runs

| run | instance | shows |
|---|---|---|
| `buffer` | 5 bytes of memory, 2 byte values, transfers of up to 3 | layout, no unwritten byte read, FIFO |
| `queue` | a waiting producer, a polling and two waiting consumers, 2 places, 2 items, with fairness | no lost wake-up, no deadlock, FIFO, `Produce` returns |
| `send_path` | 5 bytes, 2 byte values, packets of up to 3, 2 overlapping sends | every byte once and in order unless sends overlap |
| `server` | 2 sessions, 2 sockets, 2 places, 2 seeds, 2 requests in flight, 1 send | tables agree, what clients were told holds, no dangling completion, no id taken over |
| `server_live` | `server` with 1 seed, 1 request in flight, with fairness | every disconnected session is collected |
| `requests` | client ring 4, server buffer 6, packets of 2 and 3 bytes, 2 bytes on the wire, 2 messages, with fairness | every accepted request is dispatched whole, once, in order; no empty window |
| `results` | ring 5, packets of 2, 2 and 3 bytes, 6 bytes on the wire | every result is handled whole, once, in order, until the client is a ring behind |
| `play` | 2 players, oxygen 2, fuel 2 (a thrust costs 2), health 1, cooldown 1, stun 2, time steps 0 and 1, with fairness | implements `Roster`; stun and cooldown hold; lives end |
| `motion` | 3 bodies that start at -3, 0 and 3, places -3 to 3 and speed 1, boxes 2, range 3; players 0 and 1 act, 1 may die and is watched | impacts conserve and resolve; the copy follows while its own oxygen lasts |
| `client` | 2 players, fuel 1, resource 1, 1 request on its way, 5 acts of others, 2 results, with fairness | connects once, logs in when connected, knows newcomers, catches up |
| `frame` | 2 fireworks of 2 particles, snow of 4, buffer 6 in segments of 3, lifetimes 1, keys SPACE and ESCAPE, 3 effects | what is drawn is what was written; living particles are drawn; one request per press |
| `config_tool` | `Config.json` and an empty file, 2 edits, six texts | the game can read what is saved, unless an edit failed or the number is none to it |

**Bounds.** Five bytes with transfers of three reach every order of the two
regions: A full to the end, B in front, B becoming A, windows of zero; in
`send_path` they leave room for a packet behind a send in progress. Two places
in `queue` let the producer get two items ahead while two consumers sleep, and
the ring wrap. Two sessions are enough for every relation the properties state
between a player and another one, and places, sockets and objects pass from one
to the other. `MaxInFlight` = 2 puts two requests in one receive, which the
dispatch loop needs; `MaxSends` = 1 keeps a session alive through one send.
`ServerCapacity` is twice the longest packet, as `BUFSIZE` is much more than
that: it is what `WindowOpen` needs. A client ring of 4 holds one or two packets,
so requests are refused, sent in part and wrap. Six bytes on the wire are more than the results
ring, so that it overruns. `Play`'s quantities are the least at which a player
runs out of each in several steps; fuel 2 with a cost of 2 lets one thrust through and
refuses the next. Three bodies make chains of impacts, and a body hit by two
others in one update; `MaxThrust` keeps at most one acting unit of acceleration
in the system, `Space` stops bodies that fly off. Five acts are enough for a
player to enter, act, die, leave and be replaced. A buffer of two segments is
the least that wraps, and four snowflakes the least that fill one segment and
part of the next. Two edits let the trees and the document go out of step and an
edit use that; the six texts of `config_tool` are one of each sort that the tool, the game
and JSON tell apart. The bounds are `MaxTransfer`, `MaxPacketSize`, `MaxInFlight`, `MaxSends`,
`MaxWire`, `MaxPosted`, `MaxResource`, `Space`, `MaxThrust`, `Acting`, `Mortal`,
`MaxRequests`, `MaxActs`, `MaxResults`, `MaxDelta`, `MaxEffects` and `MaxEdits`.

**Sizes.** Distinct states: `server` 32,510, `server_live` 49,434, `send_path`
163,190, `requests` 297,534, `results` 18,058, `play` 169,277, `motion` 217,408,
`client` 1,370,336, `frame` 272,040, `config_tool` 265,956. Each run ends within
two and a half minutes.

**Where runs may stop.** Deadlock is checked in `buffer`, `queue`, `play`, `motion`
and `config_tool`. `server` and `server_live` stop exploring at a failed assertion
(`Running`); `send_path` at the first byte sent twice; `requests` and `results` when
the connection is closed or the ring overrun; `client` at a crash and at its
bounds; `frame` when ESCAPE quits. Sessions, sockets and seeds are symmetric in `server`,
bytes in `send_path`; the runs with liveness use no symmetry.

**Fairness.** `server_live`: the thread keeps running (weak fairness of its own
steps); the timer APC is queued every 100 ms and APCs run in the order in which
they were queued, so the timer is never overtaken for ever, and once a second
its work includes the collection (strong fairness of `OnPeriodWork` with the
collection); the system completes, with an error, the operations of a closed
socket (strong fairness of those completions). Nothing is assumed of clients.
`queue`: the threads go on with what they can do, a consumer calls `Consume` again
and again because the timer ends the client thread's sleep, and each gets the
lock it waits for, since all spend their time outside of it.
`requests`: both threads handle their messages and completions, and the network
keeps taking bytes: a socket that refuses now and then (`WSAEWOULDBLOCK`) does not
refuse for ever (strong fairness of a `Send` that consumes). `play`: the timer
keeps firing and time passes. `client`: the loop of the client draws and handles
messages, and the server handles requests; nothing is assumed of other players.
The other runs check safety only and assume no fairness.

**Mutants.** Next to a definition stands, where a property needs one, a variant
with a plausible bug (`Cleanup_KeepsId`, `Complete_Strict`, `UpdateKeyState_KeepsPrev`,
...). `PROJECT.json` names for each property the variant that breaks it.

## 4. The proofs

Each theorem is about the specification of its component and holds for every value
of the constants that the `ASSUME`s of its module admit; nothing else is assumed except where it says so.
That a step keeps an invariant is a lemma for each action.

| module | theorem | states |
|---|---|---|
| `ServerBufferProofs` | `BufferSafety` | `TypeOK`, `Layout`, `SmallTail`, `OnlyWrittenBytes`, `WindowFree` |
| | `Implementation` | `ImplementsByteQueue` |
| | `SendSafety` | `ExactUnlessOverlapped`, `NothingLost` |
| `StandaloneProofs` | `LockSafety` | `TypeOK`, mutual exclusion |
| | `WakeupSafety` | `NoLostWakeup` |
| | `Implementation` | `ImplementsFifo` |
| | `ConfigStaysReadable` (readable files) | `GameReadsConfig` |
| `GameServerProofs` | `CompletionSafety` | `NoDanglingCompletion` |
| | `TableSafety` | `SlotAgreement` |
| | `RegistrySafety` (switches off) | `SlotOwnership`, `ClientAgreement`, `PeersKnown`, `AssertionsHold` |
| | `TakeoverSafety` (switches off) | `NoTakeover` |
| `PacketPathProofs` | `RequestSafety` | `NoStrandedRequest`, `WindowOpen` |
| | `Implementation` | `ImplementsPacketChannel` |
| | `ResultsArrive` | `ResultsImplementChannel` |
| | `LossOnlyBehind` | `LossOnlyWhenBehind` |
| `PlayProofs` | `StunSafety`, `CooldownSafety` | `StunHolds`, `CooldownHolds` |
| | `Implementation` | `ImplementsRoster` |
| `ClientViewProofs` | `ViewSafety` | `ConnectsOnce`, `LoginPlaces`, `KnowsNewcomers`, `CaughtUp` |
| `UpdateProofs` | `ImpactsAlwaysConserve`, `ImpactsAlwaysResolved` | `ImpactsConserve`, `ImpactsResolved` |
| | `CopyAlwaysFollows` | `CopyFollows` |
| | `ViewImplementsMotion` | `MotionView` implements `Motion` |
| | `DrawsAreHeld` | `CardDrawsWhatWasWritten` |
| | `FramesDrawTheLiving` | `FrameDrawsTheLiving` |
| | `RequestsFollowPresses` | `OneRequestPerPress` |

**The buffer.** `CircularBufferOpsProofs` says, of any buffer value of the class's
layout (`Good`), what each method does to its content: `Write` and `Commit` put
bytes behind it, `Remove` and `Read` take them from its front, and all keep the
layout. `ServerBufferProofs` has only to add the window of a receive.

**The queue.** `OwnsLock` ties the holder of the lock to the places of the threads.
`NoLostWakeup` is inductive with it: both of its halves are inequalities between
the ring's fill and the numbers of threads at certain places, and each step moves
one thread or one item. `Hands` says whose hands hold an item: with it each `Put`
and `Take` is a step of the FIFO, and everything else a stutter.

**The send path.** `Handed`: at most one send is in progress, it covers the bytes at
the front of the buffer, and what follows those it has handed over is
`undelivered`. The layout lemmas show that a write never touches what it covers.

**The server.** `CompletionSafety` is not inductive: that the collection spares a
session with an operation in progress follows only because the session's counter is
never short. `Account` says so (`mOverlappedRequested[s]` is the number of sends in
progress plus one if a receive is), with what makes it inductive: every entry of
`mClientList` is a live session under its own socket, a session has at most one
receive, and none while its dispatch loop runs. `TableSafety` needs no more than
that every function a handler is composed of changes the three tables together.

`RegistrySafety` and `TakeoverSafety` are about what happens when no closed handle is
handed out again before its collection and no `setsockopt` fails, as in the
runs; without that the code breaks them (section 5). Their invariant is
`RegistryInv`. `Sound` is about the registry alone: the tables, what clients were
told, the teams, and who knows whom. It is proved for each function on registries,
with `SoundBut(g, S)` for the middle of a handler, when the sessions of `S` are not
yet told or not yet gone; `Fades` is all that a chain of disconnections may do to
the rest. `Around` is about the state around it, and holds what one would not
guess: a LOGIN is only ever the first request of a session without an id, so
that no session is registered twice, and no two queued handles are the same.

**The request path.** `RingGood` and lemmas about `Write`, `Peek` and `Consume` describe
the client's ring. `Framed(Stream(...), undispatched)` is the invariant: the bytes
in the session's buffer, on the wire and in the ring, one after the other, are those
of the undispatched packets, of which the first may begin nowhere but at the
front. What `OnRead` takes for a header is therefore one, and it finds a whole packet
exactly when all its bytes are there. `Offered` keeps the window open: less than one
packet is left when a receive is posted, and `ServerCapacity` is at least two
times the longest request (`RequestAssumption`; the code has 10 KB for requests of
less than 100 bytes).

**The result path.** `ResultInv` says the same of the bytes on the wire and in the
client's ring, until some were thrown away, and besides that `ProcessPacket` leaves no
complete packet behind. So the ring holds less than the longest packet when `Read`
runs, which has room for all but that of what `recv` can return: hence the bound in
`LossOnlyWhenBehind`.

**Play.** `Clocks` relates the history variables to the code's cooldowns (what is left of
a cooldown and what has passed since are at least its length), and `Noticed` says
that the flag of the dead is right between ticks. The refinement maps the class
components to the lives of the `Roster` and leaves all the results that are not
about lives out of `sent`; deaths found by one tick are told in the order of the ids.

**The client.** `Tracked` is why copies catch up: for each player that came after the
client connected and has not left, the last result on its way that says anything of
its fuel, or of its resource, says what the server has, and if there is none the
copy does. `Coming` promises the NEW of who is not known yet; `First` that a client's
own LOGIN comes before all results that speak of its id; `LoginOnce` and
`Unconnected` that there is one login on one connection. Together they are
inductive.

**Impacts.** `CheckCollision` goes over the pairs of bodies. `Kept` says what one look
at a pair keeps: places, accelerations and boxes; whose velocity differs is
announced; and the sums of the velocities and of their squares, since an impact
exchanges two velocities or none (`SumsSplit` takes one number out of a sum). For
`ImpactsResolved`, `EveryPair` says that the order of the code reaches each pair, and
`CheckPairTurns` that an impact leaves its two bodies no longer approaching; when no
other pair overlaps, nothing changes them again. Both hold in every state of
the right types, so the only invariant they need is `MotionType`.

**The copy.** `ViewInv`: a copy that follows is of a player in the list, is dead as it
is, and has its place and velocity and, while it lives, its acceleration. Of each
step of the server the proof compares what it does to the body with what the results
of that step make the client do. A copy its own component has killed no longer
follows, so nothing is claimed of it. An update without impact moves both by the
same formula; after one the client has the server's values. `ViewImplementsMotion`
says that the copy adds nothing to what the server may do.

**The frame.** A rendering fills a segment of the buffer, draws it and goes on with the
next one, in memory of its own after a discard. `Going` says what holds after each
vertex: the draws so far are held in segments below the one being filled, what the
frame before left there is untouched unless it was discarded, and the batch lies in
memory in its order. `DrawsHeld` says of the draws the card has not read that they
lie below their system's offset, where nothing is written before a discard, which
leaves them the old memory; with it `CardDrawsWhatWasWritten` is inductive.
`OneRequestPerPress` needs only `PressedSinceSampled`: a key that is down and was up
at the last sample has been pressed since.

**Folds.** The loops over pairs, particles and buffers are folds of the community modules,
and the library's induction theorems cannot be used (they take an operator). What
a fold has computed after each element is shown to exist by an induction over the
length of the sequence that speaks of a set of numbers, `NatInduct`, from the
well-foundedness of `<`. The lemmas called `...Stages` state it.

**The tool.** `IsTree` is what a parser makes of a text: each key hangs on an Object that
lists it. `FilesAssumption` asks it of the documents among the files. The lemmas
follow the steps of an edit: `RemoveKeyParts` says what a removal leaves of each
Object, `RemoveKeyKeeps` that the rest is still a tree, `InsertRemoved` that a sequence
is as it was when what was removed is put in at its former index, and `PutBackKeeps`
that, with the value put in there, every Object has its keys in their order, as
before the edit. So an edit that neither throws nor loses a node keeps what the
game needs, and the invariant `UnspoiltIsReadable` says that each file, and the document in
memory, that is not spoilt is `Readable`: laid out for the game, with a number of debris
the tool can convert (`ReadableNumbers` says it of the other numbers). What is left between that and `CanBeRead` are the numbers the tool
takes and the game does not, which `GameReadsConfig` names.
`ConfigStaysReadable` supposes that the game can read each document the tool finds when
it starts, as it can those of the repository: any other document, loaded and saved as
`Config.json`, would break the game, and the tool does not look.

**Model-checked only, and why.** Liveness (`DisconnectedIsCollected`, `ProduceReturns`,
`RequestsDispatched`, `LivesEnd`, `LoginCompletes`): fairness and `ENABLED` are beyond the
prover. Everything else the runs check is a theorem as well.

## 5. Where the code does not do what one would expect

The properties hold of the code as it is; where it goes wrong they except it, and these
are the places. The models do in each what the code does.

* Two flushes before the first completion send the same bytes twice
  (`DD_Server/ClientSession.cpp:205`, `ClientManager.cpp:87`). The property is
  `ExactUnlessOverlapped`, and `NothingLost` excepts it too.
* A connection lost before its LOGIN (`ClientSession.cpp:115`), a LOGIN when all
  places are taken (514), and a request dispatched after the one before it
  disconnected the session (165) end in a failed assertion or an index of -1:
  faults `DeregisterCharacter`, `ChannelFull` and `NoCharacter`, which
  `AssertionsHold` excepts.
* A socket handle reused before the collection erased its old entry leaves the new
  session out of `mClientList` (`ClientManager.cpp:18`), and a failing `setsockopt`
  leaves a session connected without its place (`ClientSession.cpp:127`). The runs
  leave both out (`HandleReuse`, `SetSockOptMayFail`); the theorems `CompletionSafety`
  and `TableSafety` do not.
* After a partial `send` the rest waits for the next request: only a send that
  fails brings a new FD_WRITE (`DDFramework/DDNetwork.cpp:135`). `NoStrandedRequest` and
  `RequestsDispatched` except it (`short`).
* A client that reads when its ring has less room than `recv` returned loses the
  bytes and is out of step from then on (`DDNetwork.cpp:101`): `LossOnlyWhenBehind`.
* `CheckCollision` returns at the first overlapping pair that separates
  (`GameLogic/ActorManager.cpp:226`), so that other pairs are not looked at in
  that update; bodies that cross within one update are taken as separating.
  `ImpactsResolved` speaks of pairs that touch nobody else.
* Skills and respawn do not ask whether the character is alive, and the
  cooldowns of the dead stand still.
* SYNC is taken only by a ghost that nobody creates
  (`DebrisDefragmentation/NetworkManager.cpp:292`; the comment at
  `ClientSession.cpp:558` expects otherwise): who joined before this client is
  unknown to it until the next turn. `KnowsNewcomers` is about the later ones.
* NEW does not replace a copy that is there: an id that changed hands keeps its
  earlier player's state, dead until a RESPAWN, and a client whose own id it was
  gets neither camera nor debris. `LoginPlaces` and `CaughtUp` except it.
* NEW says neither acceleration nor death, KINETIC_STATE tells all of the target's
  acceleration as if the push had given it, and the server clears a dead body's
  acceleration when it ends while a dead copy keeps it. There the copy is "lost".
* A copy uses up oxygen and then health of its own
  (`DebrisDefragmentation/Player.cpp:99`, and 135 beyond the allowed distance) and stands
  still when it is dead (91), though the server's character may live and move on. Only
  CHARACTER_STATE, which follows a thrust, tells its oxygen, and only a RESPAWN
  brings it back. `CopyFollows` speaks of copies that have not died so.
* A refused connection is printed and nothing more
  (`DebrisDefragmentation/NetworkManager.cpp:55`): the client plays on without a server, nothing
  tries again and no LOGIN is written. `LoginCompletes` speaks of clients that connected.
* Two SPACE presses while dead may send two respawns; a key pressed and released
  between two frames, or that goes down without the focus, is missed.
* An edit of the tool that fails has removed the key already
  (`IndependentGameTool/Class/JSONInOut.cs:281`), and one of a node with others below it puts
  nothing in for it (286): `GameReadsConfig` excepts both (`spoilt`). A selection
  on the tab of objects shuts out edits on the other tab until its tree is built anew.
* The tool converts the number of debris with `ToUInt32`, the game reads it with `GetInt`
  (`GameLogic/GameData.cpp:69`), whose assertion fails from 2147483648 on.
  `ToDouble` takes texts such as NaN, which are no JSON. `GameReadsConfig` excepts both
  (`TooLarge`, `NotJson`).

## 6. Not modelled

Meshes, animation, camera, sound, mouse and user interface: they draw what is
there. Logging and crash reports: output. The object pool: a free list used by
one thread and one class; `GameServer` takes a session's object as an identity.
In-game events and the station: dead code. The result scene: nothing sends
GAME_RESULT. Debris: where it is and what a gather hits is a choice of `Play`; it
is never removed. Spin, rotations and two of three dimensions. Reading the JSON
file line by line (`GameData::Init`), and the tool's views of meshes, boxes and
items. Debug packets and the once-a-second OnTick, which change no table. Memory use:
`ActorManager::Init` leaks its debris each time it runs. What becomes of a stream after
the client lost a part of it. Packets of a size no client sends. The Release build,
which continues after a failed assertion. Vendored code.

## 7. Plan

Nothing of the plan is open. What is only model-checked stays so for the reasons
given in section 4; what could be added is listed in section 6, of which a stream
that lost bytes, and the lines of `Config.json` as `GameData::Init` reads them, come first.
