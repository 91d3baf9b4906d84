# A TLA+ verification of the Scorched3D server protocols

Scorched3D is a turn based artillery game. A server (`src/scorched/src/server`)
and its clients (`src/scorched/src/client`) run the same deterministic simulation
(`src/scorched/src/common`). This directory models the protocols and state
machines that keep these replicas together, checks small instances of them with
TLC, and proves the main results for every value of the constants with TLAPS.

## 1. Inventory

Paths are relative to `src/scorched/src`. The server is one main thread that polls
(`serverLoop`, `server/server/ServerMain.cpp`): every 10 ms it handles queued
network messages, simulates, runs the round state machine, then the queue of
authorisations, the file server and the channels. Only the network layer has
other threads.

| Component | State it keeps | Operations |
| --- | --- | --- |
| Simulation replication (`common/engine/Simulator`, `server/server/ServerSimulator`, `client/client/ClientSimulator`) | clocks, next send time, actions to send, actions to apply, the recording of the level | request an action, a step, send a batch, receive a batch, new level |
| Level loading (`ServerLoadLevel`, `ServerStateNewGame`, `ClientLoadLevelHandler`) | state and level number of each destination, tank states | mod initialised, new game, load, level loaded |
| Turn disciplines (`ServerTurns*`, `PlayMovesSimAction`, `Tank*MoveSimAction`) | who may move, move ids, timers, shots in flight | start a move, answer, time out, play shots, next turn |
| Round state machine (`ServerState*`) | the state of the match, buying and score screens | enough players, new game, buying, playing, score, finish |
| Actions in flight (`common/engine/ActionController`) | actions and their ages | add, simulate, time out |
| Player life cycle (`ServerConnect*`, `ServerMessageHandler`, `ServerStateEnoughPlayers`, `Tank*SimAction`) | destinations, queued authorisations, tanks | connect, authorise, add, change, leave, balance bots |
| Network threads (`common/net`) | sockets, queues of messages, threads | accept, receive, send, disconnect, clean up |
| Mod file download (`ServerFileServer`, `ServerHaveModFilesHandler`) | files to send, acknowledgement, bytes of this second | list, send, acknowledge, initialise |
| Sync check (`ServerSyncCheck`) | outstanding checks with their answers | send, answer, compare |
| Channels, administration, statistics, weapons and physics, landscape, economy, computer players, presentation, launcher | see `PROJECT.json` | |

How they interact: the destinations and the main thread exchange messages in TCP
order through a queue; everything that changes the game is a simulation action
that the server puts in its simulator and broadcasts; completion comes back by
callbacks from the simulator of the server (`shotsStarted`, `moveStarted`,
`roundStarted`, ...), at a later tick than the request.

Hard behaviours: a new level while clients load; joining late; answers that cross
with time outs; callbacks that come late or never (`processRemaining` drops
them); players that leave at any point; threads that add messages for a
destination that is going. `PROJECT.json` lists each at its line.

## 2. The modules

| Module | Models |
| --- | --- |
| `LevelSync` | `ServerSimulator`, `Simulator`, `ClientSimulator`, `ComsLoadLevelMessage`, `ServerLoadLevel`, `newGame`, `ClientLoadLevelHandler` |
| `ReplicatedSimulation` | the abstract promise of `LevelSync` |
| `MCLevelSync` | its instances |
| `LevelSyncProofs` | theorems about the server's part of `LevelSync` |
| `LockStepProofs` | theorems about its clients and connections, and the proof that it implements `ReplicatedSimulation` |
| `LevelLoadProofs` | theorems about its loads |
| `TurnMoves` | `playMove`, `playMoveFinished`, `playShots` and the other methods of `ServerTurns` that every discipline uses, as operators on the record of the turns' state |
| `ServerTurnsSequential`, `ServerTurnsSimultaneous`, `ServerTurnsFree` | the virtual methods of the class of that name |
| `ServerTurns` | `ServerTurns`, the simulation actions of a move, tanks and players: composes the four modules above |
| `MCServerTurns` | its instances |
| `ServerTurnsProofs` | theorems about `ServerTurns` |
| `ServerRounds` | `ServerState*`, `ShowScoreAction` in `ActionController`, `TankState`, the simulation actions that change a tank between rounds |
| `MCServerRounds` | its instance |
| `ServerRoundsProofs` | theorems about `ServerRounds` |
| `LoopTheorems` | theorems about loops, for the proofs about turns and rounds |
| `Joining` | `ServerConnectHandler`, `ServerConnectAuthHandler`, `ServerMessageHandler`, `ServerCommon::kickPlayer`, `TankAddSimAction`, `TankRemoveSimAction`, `TankRemove` |
| `MCJoining` | its instances |
| `JoiningProofs` | theorems about `Joining` |
| `NetServer` | the server side of `NetServerTCP3`, `NetServerTCP3Send`, `NetServerTCP3Recv`, `NetMessageHandler` |
| `MCNetServer` | its instance |
| `NetServerProofs` | theorems about `NetServer` |

How they fit together: `NetServer` shows what the main thread may expect of the
network (a connection is heard of first, its end once, messages in order, a late
message never brings anybody back), and `Joining` and `LevelSync` take that as
their network. `LevelSync` shows that an action is applied by all, once, at the
step it announced and in order; `ServerTurns`, `ServerRounds` and `Joining` take
that as their simulator, a queue of actions. `ServerRounds` takes a round of
`ServerTurns` as something that may end at any time.

### LevelSync

Time is counted in steps of the simulation (1/50 s). The state of a simulation is
a function of its level and of the actions applied to it, each at its step, so a
`world` is kept as that sequence. One action of the module is one handler:

| Action | Code |
| --- | --- |
| `AddSimulatorAction` | any code of the server that asks for an action |
| `SimulateStep` | one step of `simulateTime`: send a batch when it is time (`continueToSimulate`, `nextSendTime`), then apply what is due |
| `NewGame` | `ServerStateNewGame::newGame` with `ServerSimulator::newLevel` and the loads it sends |
| `InitializeMod`, `LevelLoaded` | `ServerLoadLevel`, the second for a `ComsLevelLoadedMessage` |
| `ClientNext` | a client receives a load or a batch, simulates a step, or ends a load handler |

A load handler of a client processes messages before it returns, so handlers nest
and the client keeps a count of them. A batch carries its level, and `log` keeps
what was sent in each level; both are history that no guard reads.

### ServerTurns

The turns' state is a record `turns`. An operator such as
`SequentialMoveFinished(s, tank, m)` is a method: it takes the record to the next
one, and what it asks the simulator for is appended to `turns.sendActions`. The
actions of `ServerTurns` are

| Action | Code |
| --- | --- |
| `Tick` | `ServerStatePlaying::simulate`: shots that ended, time outs, delays, then the discipline's `internalSimulate` |
| `SimulateInterval` | the simulator between two sends: what was sent an interval ago is applied, with its call backs and the answers of computer players; what is asked for now is sent |
| `PlayedMove` | `ServerPlayedMoveHandler` for a player's answer, in time or late |
| `ShotEnds`, `TankDies`, `Resurrect` | what the simulation does with shots and tanks |
| `Leave`, `Removed` | `TankRemoveSimAction` and, some seconds later, `TankRemove`; between them the server plays the tank with `TankAINone` |
| `EnterState` | the next round |

`LevelSync` shows that actions are applied in the order they were asked for, at
the same step by all; `ServerTurns` uses this as its model of the simulator. Time
is counted in send intervals: `elapsed` tells a tick whether one ended since the
tick before. A move lasts `MoveTime` intervals, two of which the code adds for
the way of the action.

### ServerRounds

`game` is a record with the states of the server and what they own. An operator
such as `BuyingFinished(g, tanks, p, move)` is a method and takes the record to
the next one.

| Action | Code |
| --- | --- |
| `Tick` | `ServerState::simulate`, one of `StartupTick` ... `ScoreTick` for each state; `BuyingTick` is `ServerStateBuying::simulate` whole: its time, each tank in turn, the timers, the end of buying |
| `SimulateInterval` | the simulator between two sends, with the call backs `buyingStarted` and `roundStarted`, and the action controller with its time out of referenced actions |
| `NewGame` (in a tick) | `ServerStateNewGame::newGame`: the actions that wait are applied without call backs, the tanks load, the action controller is cleared |
| `PlayedMove`, `LevelLoaded`, `Change`, `Leave`, `Join` | the messages of players |
| `Removed`, `Shoot`, `ShotsEnd` | what the simulation does |

`bought` is `ServerStateBuying`'s list of who bought; `told` are the moves a client
may still answer, late ones included.

### Joining

| Action | Code |
| --- | --- |
| `ProcessMessage` | `NetInterface::processMessages` and the handler of the message, called by the main loop or by a kick |
| `ProcessRequest`, `EndKick`, `EndAuth` | `ServerConnectAuthHandler::processMessages`, cut where the kick of a refused destination processes other messages (`main = "kick"`) |
| `ReadDeleted` | the same, when the request was deleted: reading it is undefined, the server may go on (`ProcessRequest`) or be lost |
| `KickPlayer` | `ServerCommon::kickPlayer` by an administrator |
| `ApplyAction`, `TankRemoved` | the simulator |
| `Connects`, `Closes`, `Asks` | the clients, and the network as `NetServer` shows it |

`Refused` are the destinations whose requests may be turned down for reasons that are not
modelled: a ban, an authentication that fails, a request that cannot be read, an answer
that cannot be sent. `Duplicate` is the comparison of ids: the code makes it only when the
option `AllowSameUniqueId` is off (it is on by default), of the unique id (`Unique`) and of
the id of the machine (`SUI`), each only when it is not empty (`NoId`).

### NetServer

One action is one step of a thread between two accesses to what threads share.

| Action | Code |
| --- | --- |
| `CheckClients`, `CheckNewConnections`, `AddDestination`, `ProcessOutgoing`, `ProcessDisconnectAll`, `EndOfLoop`, `Tidy` | the loop of the network thread, `actualSendRecvFunc` |
| `SendThread(d)` | `NetServerTCP3Send`: take a message, write it, stop after the reason of a disconnection or an error |
| `RecvThread(d)` | `NetServerTCP3Recv`: read a message, add it, stop |
| `ProcessIncoming`, `SendMessage`, `DisconnectClient`, `Stop` | the main thread |
| `ClientCloses` | the other end; a stalled client stops reading, or stops inside a message. A bad length, after which the receive thread stops while the client is connected, is a step of `RecvFunc` |

## 3. The runs

| Run | Instance | Shows |
| --- | --- | --- |
| `level_sync` | one client, intervals of 1 or 2 steps, 2 levels of up to 5 steps, 1 action besides the loading ones | server and client apply the same actions at the same steps; the recording is complete; the system implements `ReplicatedSimulation` |
| `level_load` | two clients, 3 levels, 1 step each | loads of a client never overlap, no tank is left loading or loaded twice, a new level reaches each destination that is ready, every load ends |
| `level_stale` | two clients, 2 levels | expected violation, finding 1 |
| `turns_sequential` | players 1 and 2, computer player 3, one life, two rounds, at most two missed moves | only the playing player has a move, each move is played once at most, timers belong to current moves, clients know who moves, the turns go on |
| `turns_simultaneous` | tanks 1 and 2 of one player, 3 of another; tank 1 can die twice | one choice at a time for each player, nobody chooses while shots fly, the turns go on |
| `turns_free` | timed free turns; tanks 1 and 2 of one player, computer player 3, turret 4 that does not use the normal moves | delays are kept, one move at a time per player, clients know who moves |
| `turns_onebyone` | as `turns_sequential`, the computer player being a turret | expected violation, finding 2 |
| `turns_missed` | as `turns_sequential`, one missed move allowed | expected violation, finding 3 |
| `server_rounds` | two players of two destinations, one changes to spectator and back, one joins late and leaves; two rounds a match, three levels; a short and a long score screen | nobody plays a round without a turn to buy; the server leaves every state, except for what `Held` names |
| `joining` | `AllowSameUniqueId` off; destination 1 may leave and shares its unique id with 2 and its machine with 3; 3 has no unique id, asks for two players and may be refused; three places; one kick by an administrator | the players fit, no id that is not empty plays twice, nobody stays behind when a connection ends |
| `joining_requests` | the same with one player each, two places and `AllowSameUniqueId` on, its default | expected violation, finding 4 |
| `net_server` | two connections, the first of which sends, gets up to two messages, is kicked, leaves, sends a bad length or stalls | the five invariants that section 4 proves; the end of a connection is noticed, its object deleted, `stop` returns |

### Bounds

`MaxLevel`, `MaxTime`, `MaxActions`, `MaxMoves`, `MaxQueue`, `MaxRounds` bound
counters; `Mortal` and `Leaving` say which tanks die and which players leave.

- `level_sync`: five steps hold several send intervals of either length, so that
  intervals change while a batch is on its way; the second level makes the client
  reload with batches of the first still in the connection. One client is enough
  for lock step: clients do not influence one another.
- `level_load`: with three levels the level changes twice under one load, so a
  client that loads is told to load again while its first answer is on its way.
  Steps do not matter here.
- Turns: three moves (five ids in simultaneous turns, where a round uses one) let a
  move time out or end, its successor start, and an old answer arrive in the
  middle. Two rounds let an answer of the first arrive in the second. A move
  lasts two intervals: an answer is possible before, between and after them.
  `Delays` is 0 or one interval. `MaxQueue` never stops a tick that would only
  fill the queue between two intervals with the same kind of actions.
- `server_rounds`: `BuyingTime`, `RoundTime` and `RoundScoreTime` are one interval, so
  that a limit passes while an action is on its way; `ReferencedTime` is two and
  `ScoreTimes` has a value below and one above it. Three levels hold a whole match
  of two rounds and the beginning of the next. Players leave and change while
  buying, where the tanks matter. `MaxLag` is 1 (the run also passes with 2 in a
  few minutes).
- `joining`: a request that is refused while others wait needs three destinations;
  three places, of which the third destination asks for two, make a request fit, not fit,
  and fit again. The ids make one pair of destinations equal in the unique id only, one
  in the machine only, and one in none: each of its ids is empty at one of the two.
- `net_server`: a connection is a row of threads and queues of its own, so one that
  does everything and one that is only there meet every order. The server sends two
  messages, which can wait in each of the queues together (`MaxOutgoing` is 2), so their
  order shows, or one while the client sends one (`MaxMessages` is 2), with up to two
  disconnections between and behind them. The proofs lift the bounds.

### Fairness

- `LevelSync`: the main loop of the server runs for ever and simulates when time
  has passed (`WF(SimulateStep)`), handles each message (`WF(LevelLoaded(d))`);
  a client's main loop reads its connection and simulates, and a load handler
  returns (`WF(ClientNext(d))`). New games and requests are not fair.
- `ServerTurns`: ticks and intervals come for ever while the round is played, an
  interval after a tick and a tick after an interval (the loop polls every 10 ms,
  an interval is 100 ms at least), and what flies ends: the action controller
  removes a referenced action after 30 seconds. No player has to answer, die or
  leave. Ticks and intervals are named by what they do to `elapsed`, which no other
  step changes; this only spares TLC the evaluation of `ENABLED Tick`. That the turns go
  on (`TurnsGoOn`) although nobody answers needs a time limit: `TimesAssumption` says
  that `ShotTime` is not 0. With 0, the default of the option, `ServerTurns` starts no
  timer and waits for each answer (line 361).
- `ServerRounds`: the same two kinds of steps, and shots end. Nobody has to load, to
  answer or to stay. `EveryStateEnds` needs `BuyingTime` and `RoundTime` above 0, as the run
  has them: without these limits buying and a round last as long as their players like.
- `Joining`: the main loop runs (`WF(MainLoop)`); each of its rounds may apply what is
  due, and in the end it is (`SF(ApplyAction)`, `SF(TankRemoved(p))`: the loop leaves
  the simulation before an action is due, again and again); the network closes
  what it was told to close. Clients need not ask or leave.
- `NetServer`: the network thread and the main loop run; the threads of a connection
  run unless its client stalls while it is connected, for then their call on the
  socket does not return. Nobody has to send, leave, disconnect or stop; so a receive
  thread must make a step only when it has a message in hand, was told to stop, or its
  client has closed (`MustRecv`).

## 4. What is proved

`LevelSyncProofs` proves, for all sets of destinations, step sizes and bounds
(the assumptions are `DestsAssumption`, `StepsAssumption`, `BoundsAssumption`):

- `TypeCorrect`: `Spec => []TypeOK`;
- `ScheduleCorrect`: `Spec => []ServerOnSchedule`;
- `RecordingCorrect`: `Spec => []RecordingComplete`;
- `Invariance`: the inductive invariant `IInv` behind the last two.

`ServerOnSchedule` is not inductive: nothing in it says that what waits in
`simActions` is what is missing from `world`. `IInv` adds the relation between
them and the clocks:

1. what was sent in the level is what was applied followed by what waits
   (`log[level]` is `world` followed by `simActions`, each with its stamp);
2. what waits is sorted by its stamp, and nothing in it is older than the clock,
   so the loop of `actualSimulate`, which stops at the first action that is not
   due, never leaves one behind;
3. the send and event times are ahead of the clock in the order the code keeps them,
   so that a new batch is stamped later than the clock and not before the last one;
4. when the last recorded batch had no actions, the remembered buffer position is
   the end of the recorded actions, so that overwriting it loses nothing.

Each action has one lemma. `DueProperties` is the lemma about the loop: the number
of leading due actions is well defined for every queue. Everything about clients
(`ClientStep` and the receiving of messages) leaves the server's part unchanged
except for its type (`ClientOnly`).

`LockStepProofs` proves `LockStepCorrect` (`ClientsInLockStep`) and `LateCorrect`
(`LateOnlyBeforeFirstBatch`) on top of it. What a client will apply depends on what is
still in its connection, so `LockStepInv` speaks of every message, under way or handled
(it is one conjunct for each destination, `Connection`):

1. `Messages`, `Faithful`: a load has what was sent in its level up to its event time; a
   batch has what was sent for its own event time;
2. `InARow`: two messages of one level that follow one another leave no action out
   between them, and the first one leaves none out after what the client has;
3. `LoadFirst`: a load without batches, which does not set `waitingEventTime_`, comes
   before all batches of its level;
4. `NothingMissed`: who has the end of what was sent in the current level is one of those
   that get the next batch;
5. `InStep`, `Attached`: what an attached client applied and what waits are the
   beginning of what was sent, up to the event time it heard of, and nothing that waits
   is late.

The same module proves `Refinement` (`ImplementsReplicated`): every step of `LevelSync` is
one of `ReplicatedSimulation` or changes nothing that it shows. The mapping is in
`LevelSync` (`ClientReplicas`): a client is attached when it has every batch since its load
and has caught up with it (`CaughtUp`). The proof needs `LockStepInv` and that
what a client applied is of the past (`PastInv`). A simulation step of the server is `Advance`:
a send is stamped beyond the server's clock and beyond the clock of all that are
attached after it. A load is `Attach`. A batch that a client can use changes nothing that
shows: that it had already caught up follows from `InARow`. A step of a client is `Step`, or
`Stray` for one that ran ahead of its first batch. `ReplicasAtClock` is the promise itself:
an attached client has applied what was sent for the steps before its clock, in order, and
nothing else.

`LevelLoadProofs` proves `LoadsCorrect` (`OneLoadAtATime`), `TanksCorrect`
(`NoTankForgotten`) and `NewGameCorrect` (`NewGameRetells`). `LoadInv` is both invariants in one
sum for each destination (`Balanced`): loads on their way, in a handler or being answered, plus
the actions that let its tank play, plus one while its mod is initialised, are one
when the tank is loading and none otherwise. Neither goes through alone: that an
answer finds its destination in `sLoadingLevel` is the first, that `newGame`
finds no load for a tank that plays is the second. The lemmas before it say how the
number of elements of a kind changes when a sequence grows, shrinks or is joined.

`NetServerProofs` proves all five invariants of `NetServer`, for any number of
connections and messages (`NetBoundsAssumption`): `TypeCorrect`, `HearsCorrect`
(`GameHearsOfLeaving`), `NoGhostCorrect` (`NoGhostConnection`), `DeletedCorrect`
(`DeletedIsOver`) and `OrderCorrect` (`DeliveredInOrder`). Three inductive invariants
are behind them, each on top of the types:

1. `LivesInv`: where a destination is in its life. It is accepted, is in
   `destinations` until it is closed, waits once in `finished`, and is then deleted;
   no two of these at once, and the threads of a deleted one have stopped. Between
   its acceptance and its announcement the network thread is the only one to know
   it, so `Announced` leaves it out.
2. `HeardInv`: a `Disconnect` in the queue is of a destination that was announced and is
   closed; a `Connect` in the queue is of one that is connected or has the `Disconnect`
   behind it; whom the game knows is connected or has its `Disconnect` queued. What
   is behind what in the queue keeps a destination that is heard of late from being
   known for ever. `NoGhostConnection` goes through together with it.
3. `OrderInv`: for each destination what was delivered, followed by what its send
   thread took (`Line`), has rising numbers, and nothing after the reason of a
   disconnection, after which the send thread does not run; the numbers rise on
   through its send queue and `outgoing`; in the send queue nothing follows a
   disconnection, and then the destination is closed, so nobody adds to it.

`JoiningProofs` proves all four invariants of `Joining`, for any destinations, ids and
numbers of players (`JoiningAssumption`). Every step is first shown to be one of seven
that matter to the players (`PlayerSteps`), and what each does to who is there and who
is on the way is one lemma (`WhoIsThere`). Then

- `RoomCorrect` (`NotTooMany`): either nobody new appears, or a destination is accepted
  while nobody is on the way, so what the request counted is what is there;
- `NoDuplicatesCorrect` (`NoDuplicates`): when `AllowSameUniqueId` is off, and of ids that are
  not empty. The same argument needs that all on the way are of one destination, which is
  added to the invariant. With the option on, its default, the code lets two destinations
  play with one id, and nothing is claimed;
- `ForgottenCorrect` (`NobodyForgotten`): inductive on top of the types, which include
  that the tanks are finitely many, since the loop of `clientDisconnected` is
  `SetToSeq` of a set.

`ServerTurnsProofs` proves, for any tankets, owners, options and bounds
(`TanketsAssumption`, `TimesAssumption` and the assumptions of the disciplines):

- `TypeCorrect` (`TypeOK`), `TimersCorrect` (`TimerOfCurrentMove`), `EachMoveOnceCorrect`
  (`EachMoveOnce`) and `OneMoveCorrect` (`OneMovePerDestination`), for all three disciplines;
- `OnlyPlayingCorrect` (`OnlyPlayingPlayerMoves`) for the sequential turns. In free turns
  everybody may have a move;
- `DelayCorrect` (`DelayIsOver`), in simultaneous turns only when all tankets use the normal
  moves: `ServerTurnsSimultaneous` gives moves to those that wait because they do not.
- `OneByOneCorrect` (`OneByOne`) for simultaneous turns that wait for the shots and in which
  all tankets use the normal moves;
- `ClientsKnowMovesCorrect` (`ClientsKnowMoves`) with one life, in simultaneous turns only when
  all tankets use the normal moves.

The invariant is `IInv`: the types, `TurnsInv` and `LivesFit`. `TurnsInv` says of the
record `turns`, of the tanks and of what was sent before that `turns \in Turns(...)`, and
`Turns` is a conjunction:

1. `Common`: a timer is the one of the move its player has (`Timers`), and `Ids`, the
   strengthening of `EachMoveOnce`: the moves in the queue of what is to be applied, those
   that wait for others, and those the players have rise for each player and do not
   exceed `nextMoveId`. Without the last part a new move could repeat an old one.
2. `OnlyPlaying`, `OneEach`, `Collects` and `Waits`: what each discipline promises. `OneEach` is
   stronger than `OneMovePerDestination`: a dead tank that still has a move counts, since it
   can come back. `Waits` adds that only the free turns delay those that use the normal moves.

`LivesFit` ties what revives a tank to its lives: without it a tank could die below zero
lives (`TypeOK`). TLC checked all parts on the instances of the runs before they were proved.

Every handler has a lemma that it keeps `Turns(...)`, for any queue `ahead` of what was sent
before: `TurnsEnd`, `TurnsGive`, `TurnsShots` and so on for the parts of `TurnMoves`,
`TurnsSequential`, `TurnsSimultaneous` and `TurnsFree` for the disciplines, `MoveFinishedKeeps`
for answers, `TurnsSimulate` for a tick and `TurnsEnter` for a new round. An action that is
applied may call handlers while others are still ahead: `AppliedAll` says that a whole
queue can be applied so that what is `Left` shrinks with each action (`TurnsTail`).

`OneByOne` needs a second invariant, `PhasesInv`: the state of the shots says where the
shots are. Only in `eShotsWaitingStart` can shots (a `PlayMovesSimAction`) be on their way to the
simulator, at most one action of them (`OneShots`), and only in `eShotsWaitingEnd` can they
fly; in both nobody has a move; and who has chosen (`HasMove`) has no move to choose
again, so that the shots that start do not leave a move behind. `simulate` can go from one
phase to the next inside one call (`PhasesSimulate`), and the call backs do when the shots
are applied (`PhasesShots`) or have ended (`PhasesInterval`). TLC checked `PhasesInv` on two
instances, of 357,000 and 702,000 states, before it was proved.

`ClientsKnowMoves` speaks of what the clients show once everything on its way is applied,
so the third invariant, `KnowInv`, reads it off the queue of the actions to apply, `Knowing`:

1. `Shown`: the last action of the queue that starts or ends a move of a living player tells
   the move it has, and if there is none its client shows that move already.
2. `Asked`: a computer player is asked at most once for the move it has, and then the timer of
   that move has not started, and it is asked again only without a timer; all ids it was
   asked for are at most `Highest`, so a new id is new. Without this the answer of a
   computer player, which comes while the action is applied, could end another move than the
   one the rest of the queue tells.
3. `KnownTanks` and `Unrevived`: a tank alive on the server is alive at the clients, and
   nothing on its way revives one. With more lives both fail, and so does the property.

`KnowingGiven`, `KnowingEnded` and `KnowingAgain` say what an action at the end of the queue
does, `KnowingTail` what applying its head does, and `KnowersAll` follows a whole interval.
TLC checked `KnowInv` on three instances before it was proved.

`ServerRoundsProofs` proves, for any players, options and bounds (`PlayersAssumption`,
`RoundOptionsAssumption`, `RoundBoundsAssumption`), `TypeCorrect` (`TypeOK`) and `BoughtCorrect`
(`BoughtBeforeRound`). Whether somebody plays without having had a turn to buy is decided by
actions that are on their way, so the invariant `RoundsInv` speaks of them. For each player
it has

1. `Loads`: each load has one answer, to a tank that still loads, and the answer says
   whether its player wants to play;
2. `Buys`: a tank that was asked to buy neither loads nor buys yet, and its player did not
   ask to play before it; once the tanks are made ready for the game, such a request is
   only under way to one that watches;
3. `Plays`: who is due, that is, has a turn to buy to come in this round, does not play,
   and is not made ready while it buys;
4. `Between`: between two intervals a dead tank has been asked to buy (the loop of
   `ServerStateBuying::simulate` asks each of them in every tick), and tanks are only made
   ready in the state for it.

The first three are stated for the actions to apply from place `n` on, so that the same
formula holds before, between and after the actions of one interval; `Between` does not
hold among them. TLC checked the invariant, with `game.round <= levels`, on the
instance of `server_rounds` before it was proved. `FitsInvoked` says of each
kind of action that applying it keeps the invariant for what is left (`FitsTail` for the
whole queue, `IntervalHolds` for an interval, `NewGameHolds` for actions that are applied
without call backs); each state of the server has a lemma for its tick (`BuyingHolds`
is the one with the loops), and each message of a player one.

A loop of the code is a recursive function in the models. `LoopTheorems` proves that such a
function exists (`LoopDefined`), what it keeps (`LoopKeeps`), and both for a loop over the
players of a set (`LoopOver`), from the least number of a set (`Least`, `UpTo`), in place of an
induction theorem with an operator as its parameter.

Not proved: `ClientsKnowMoves` with more than one life, where it is false (see below), and in
simultaneous turns with turrets, where TLC found no counterexample on an instance of 284,000
states; `OneByOne` in the cases `OneByOneCorrect` leaves out, where it is false (in sequential turns
a time out breaks it, with turrets any discipline does: finding 2). Only model-checked:
all liveness, with `EveryStateEnds` of the rounds. Liveness and `ENABLED` are out of reach of the
prover.

## 5. Findings

1. `level_stale`: a new game that comes between the handling of a
   `ComsLevelLoadedMessage` and the sending of its `TankLoadedSimAction` forgets
   that destination: it is `sFinished` on the old level and gets the batches of the
   new one. `NewGameRetells` bounds the damage: the next new game reaches it.
2. `turns_onebyone`: the call back `shotsStarted` serves any shots. With a turret
   that fires outside the normal moves, the next player gets a move before the
   shot of the player before is even started. A time out has the same effect in
   sequential turns without any turret: `simulate` goes on to `internalSimulate` although
   `moveFinished` has just set `eShotsWaitingStart`, so the next player has a move while the
   time out is on its way, and the call back of the time out ends the wait for the
   shots of that player.
3. `turns_missed`: a player that missed too many moves becomes a spectator on the
   server only (option `AllowedMissedMoves`, 0 by default); the replicas differ
   until the next game.

4. `joining_requests`: `ServerConnectAuthHandler::processMessages` deletes the last
   request after it processed one that was the last. When it was refused, the kick
   has processed other messages in between: a request that came then is lost, and
   the one that was processed stays in the list, deleted.

More, which no sentence of the repository contradicts, are listed as hazards or are excepted by name in a property.
A tank that dies while its move is on the way, and comes back before the server
looks again, has a move that its client was never shown; in sequential turns the
time out ends it, in free turns nothing does for a computer player. This is why
`ClientsKnowMoves` is checked with one life (`turns_sequential`, `turns_free`), and does not catch this
case; `turns_simultaneous`, in which a tank comes back, shows that a lost move does not hold
up the turns there. And a dead computer player in free
turns is given a move and loses it again on every second tick. And in the rounds:

- `Kept`: `ServerStateBuying::buyingFinished` erases the timer of a tank before it looks
  whether the tank plays and whether the answer is to its current move. A late
  answer to an older move, or a time out while the tank watches, leaves a move
  that only its player can end, and buying waits for it.
- `ShownTooLong`: the option `ScoreTime` goes up to 90 seconds, and the action controller
  removes a `ShowScoreAction` after 30 without finishing it; the server then stays in
  the score state (`ServerStateScore` waits for `scoreFinished`).
- `TankNewMatch` makes a dead tank of a spectator, which then has to buy, although
  its player asked to watch; `BoughtBeforeRound` speaks of who wants to play.
- `ServerStateEnoughPlayers` says it kicks the computer players "that have been on the
  server the longest" and goes through them from the newest (not modelled).

## 6. Not modelled

Most of the lines of the repository are not the program's own logic: headers and
sources of libraries under `scorched-dep-win32`, generated lexers, windows,
drawing, sound, the launcher, landscapes and weapons. They are deterministic
functions of data or presentation, and have no protocol to check. The modules cover
the server's main loop and what it shares with clients and threads, which is a small
part of the lines and most of the concurrency. For the rest:

- `LevelSync`: pings matter only as the choice of the next send interval; the sync check
  action changes no world. `InitializeMod` is for a client that asks once: the handler
  itself does not look at the state of the destination.
- Turns: wins, objectives, the limits on turns, time and skipped shots that end a round
  (any round may end once nothing is on the way), players that join during a round,
  more than one use of batteries, unlimited lives.
- Rounds: teams and computer players in the count of players, who wins, tanks that die in
  a round, what is kept of a player who comes back. The turns of a round end when they
  like. A player joins in one step (its parts are in `Joining`), so `Undecided` has no
  requests and no tanks on their way to count. Players begin as ones that chose to play,
  whereas a `TankState` is a spectator's until the first `TankChangeSimAction`. The score
  makes the tanks that still play dead (`ShowScoreSimAction.cpp:243`); in the model they stay as
  they are until they load the next level. The build is the one with `S3D_SERVER`, where
  `BuyingTime` limits the whole of buying. Call backs that `processRemaining` drops while
  something waits for them do not occur in these states.
- Joining: computer players and their balance, teams, names, models and the database.
- Network: the client mode of the class, the loop back of a game with one player, and
  the reports of sent messages, for which the server has no handler.
- The download of mod files, the sync check, channels, administration, statistics and the
  other components: the reason for each is in `PROJECT.json`.

## 7. What could follow

1. A proof of `ClientsKnowMoves` in simultaneous turns with turrets.
2. The composition of `Joining` with `LevelSync`: a destination that finishes loading before
   its tank is added.
3. The download of mod files under its limit of bytes.
