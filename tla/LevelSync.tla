------------------------------ MODULE LevelSync ------------------------------
(***************************************************************************)
(* The replicated simulation of a Scorched3D game and the loading of a     *)
(* level (ServerSimulator, ServerLoadLevel, ServerStateNewGame::newGame,   *)
(* ComsLoadLevelMessage, ClientSimulator, ClientLoadLevelHandler).         *)
(*                                                                         *)
(* The server and every client run the same simulation in fixed steps.     *)
(* Only the server decides which simulation actions happen and at which    *)
(* step: it broadcasts them in batches, each stamped with an event time    *)
(* in the future, and a client never simulates beyond the event time of    *)
(* the last batch it received.  A client that loads a level gets the       *)
(* state at the start of the level and every batch sent since.             *)
(*                                                                         *)
(* The state of a simulation is a function of its starting level and of    *)
(* the actions applied to it, each at its step, so a replica's world is    *)
(* kept as that sequence.  Time is counted in simulation steps.            *)
(* SyncCheckSimAction, the one action a loading client drops, does not     *)
(* change the world and is left to another module.                         *)
(***************************************************************************)
EXTENDS Integers, Sequences, FiniteSets

CONSTANTS
    Dests,          \* network destinations that initialise their mod and load
    Bot,            \* destination 0: the computer players of the server
    StepSizes,      \* values calcSendStepSize can return, in simulation steps
    MaxLevel,       \* bound: levels played
    MaxTime,        \* bound: simulation steps of one level
    MaxActions      \* bound: game actions requested

ASSUME DestsAssumption  == Bot \notin Dests
ASSUME StepsAssumption  == StepSizes \subseteq Nat \ {0} /\ StepSizes # {}
ASSUME BoundsAssumption == /\ MaxLevel \in Nat \ {0}
                           /\ MaxTime \in Nat
                           /\ MaxActions \in Nat

VARIABLES
    level,          \* LandscapeDefinition number of the current level
    currentTime, nextSendTime, nextEventTime, sendStepSize, \* ServerSimulator
    sendActions,    \* requested actions not yet sent
    simActions,     \* sent actions, each with the step it fires at
    levelMessage,   \* batches recorded for the destinations that load later
    world,          \* actions applied to the server's simulation
    dest,           \* ServerDestination: state and level number
    tank,           \* TankState of the tank of each destination
    toClient,       \* server to client connection (TCP, in order)
    toServer,       \* number of ComsLevelLoadedMessages on their way back
    client,         \* the simulation of each client
    requested,      \* game actions requested so far (gives them identity)
    log             \* history: all entries sent in each level

server == <<level, currentTime, nextSendTime, nextEventTime, sendStepSize,
            sendActions, simActions, levelMessage, world, dest, tank,
            requested, log>>
vars == <<server, toClient, toServer, client>>

Tanks == Dests \cup {Bot}

(***************************************************************************)
(* Data.                                                                   *)
(***************************************************************************)
GameAction(n)   == [kind |-> "game", id |-> n]
TankLoaded(t)   == [kind |-> "loaded", id |-> t]
Action == [kind : {"game"}, id : 1 .. MaxActions]
            \cup [kind : {"loaded"}, id : Tanks]

\* An action and the step it fires at, or was applied at.
Entry == [act : Action, at : Nat]

\* ComsSimulateMessage.  The level number is history: the code sends none.
Batch == [type : {"batch"}, level : 1 .. MaxLevel, event : Nat, entries : Seq(Entry)]

\* The simulateBuffer_ of a ComsLoadLevelMessage: the actions of the batches in
\* it, the event time of the last batch (0 if there is none), lastEmpty_, and
\* emptyPosition_ as the number of actions before that position.
Recording == [entries : Seq(Entry), event : Nat, lastEmpty : BOOLEAN,
              emptyPosition : Nat]

\* ComsLoadLevelMessage as sent: it has the recording and the server's time.
Load == [type : {"load"}, level : 1 .. MaxLevel, time : Nat,
         entries : Seq(Entry), event : Nat]

Client == [level    : 0 .. MaxLevel, \* level of the landscape in memory
           loading  : BOOLEAN,       \* loadingLevel_
           handlers : Nat,           \* load handlers on the stack
           target   : Nat,           \* argument of setSimulationTime
           time     : Nat,           \* currentTime_
           waiting  : Nat,           \* waitingEventTime_
           queue    : Seq(Entry),    \* simActions_
           world    : Seq(Entry),
           batchLevel : 0 .. MaxLevel, \* history: level waitingEventTime_ is of
           attached : BOOLEAN]       \* history: every batch was usable

\* ServerDestination, once its mod is on the client.
Destination == [state : {"sInitializingMod", "sLoadingLevel", "sFinished"},
                levelNumber : 0 .. MaxLevel]

EntriesAt(acts, t) == [i \in 1 .. Len(acts) |-> [act |-> acts[i], at |-> t]]

\* Mutant: the loop stops at an action that is due now.
DueBefore(queue, t) ==
    CHOOSE n \in 0 .. Len(queue) :
        /\ \A i \in 1 .. n : queue[i].at < t
        /\ n < Len(queue) => queue[n + 1].at >= t

\* Mutant: actions fire one step early.
DueEarly(queue, t) ==
    CHOOSE n \in 0 .. Len(queue) :
        /\ \A i \in 1 .. n : queue[i].at <= t + 1
        /\ n < Len(queue) => queue[n + 1].at > t + 1

(***************************************************************************)
(* Simulator::actualSimulate: the leading actions of the queue whose time  *)
(* has come are applied, in order; the first that is not due stops the     *)
(* loop.                                                                   *)
(***************************************************************************)
Due(queue, t) ==
    CHOOSE n \in 0 .. Len(queue) :
        /\ \A i \in 1 .. n : queue[i].at <= t
        /\ n < Len(queue) => queue[n + 1].at > t

Fired(queue, t) ==
    [i \in 1 .. Due(queue, t) |-> [act |-> queue[i].act, at |-> t]]

NotFired(queue, t) == SubSeq(queue, Due(queue, t) + 1, Len(queue))

\* TankLoadedSimAction::invokeAction, for the tanks loaded by the entries.
TanksAfter(entries) ==
    [t \in Tanks |->
        IF \E i \in 1 .. Len(entries) : entries[i].act = TankLoaded(t)
        THEN "ready" ELSE tank[t]]

(***************************************************************************)
(* Server.                                                                 *)
(***************************************************************************)
EmptyRecording ==
    [entries |-> <<>>, event |-> 0, lastEmpty |-> FALSE, emptyPosition |-> 0]

NewClient ==
    [level |-> 0, loading |-> FALSE, handlers |-> 0, target |-> 0, time |-> 0,
     waiting |-> 0, queue |-> <<>>, world |-> <<>>, batchLevel |-> 0,
     attached |-> FALSE]

\* A first level, and destinations that are about to initialise their mod.
Init ==
    /\ level = 1
    /\ currentTime = 0
    /\ nextSendTime = 0
    /\ sendStepSize \in StepSizes
    /\ nextEventTime = sendStepSize
    /\ sendActions = <<>>
    /\ simActions = <<>>
    /\ levelMessage = EmptyRecording
    /\ world = <<>>
    /\ dest = [d \in Dests |-> [state |-> "sInitializingMod", levelNumber |-> 0]]
    /\ tank = [t \in Tanks |-> IF t = Bot THEN "ready" ELSE "sLoading"]
    /\ toClient = [d \in Dests |-> <<>>]
    /\ toServer = [d \in Dests |-> 0]
    /\ client = [d \in Dests |-> NewClient]
    /\ requested = 0
    /\ log = [l \in 1 .. MaxLevel |-> <<>>]

\* addSimulatorAction, for any action of the game.
AddSimulatorAction ==
    /\ requested < MaxActions
    /\ requested' = requested + 1
    /\ sendActions' = Append(sendActions, GameAction(requested + 1))
    /\ UNCHANGED <<level, currentTime, nextSendTime, nextEventTime, sendStepSize,
                   simActions, levelMessage, world, dest, tank, log,
                   toClient, toServer, client>>

\* Mutant: a batch is not sent to the clients that still load.
FinishedClient(d) == dest[d].state = "sFinished"

\* sendToAllLoadedClients: the destinations a batch is sent to.
LoadedClient(d) ==
    \/ dest[d].state = "sFinished"
    \/ dest[d].state = "sLoadingLevel" /\ dest[d].levelNumber = level

\* Mutant: lastEmpty_ stays set when a batch with actions follows.
RecordedNoReset(rec, batch) ==
    LET kept == IF rec.lastEmpty THEN SubSeq(rec.entries, 1, rec.emptyPosition)
                                 ELSE rec.entries
    IN  [entries |-> kept \o batch.entries,
         event |-> batch.event,
         lastEmpty |-> rec.lastEmpty \/ batch.entries = <<>>,
         emptyPosition |-> IF batch.entries = <<>> THEN Len(kept) ELSE rec.emptyPosition]

\* ComsLoadLevelMessage::addSimulation: a batch without actions that ends the
\* recording is overwritten by the next batch.
Recorded(rec, batch) ==
    LET kept == IF rec.lastEmpty THEN SubSeq(rec.entries, 1, rec.emptyPosition)
                                 ELSE rec.entries
    IN  [entries |-> kept \o batch.entries,
         event |-> batch.event,
         lastEmpty |-> batch.entries = <<>>,
         emptyPosition |-> IF batch.entries = <<>> THEN Len(kept) ELSE rec.emptyPosition]

\* ServerSimulator::continueToSimulate when it is time to send, and nextSendTime.
Send ==
    /\ currentTime >= nextSendTime
    /\ sendStepSize' \in StepSizes
    /\ nextSendTime' = nextEventTime
    /\ nextEventTime' = nextEventTime + sendStepSize'
    /\ sendActions' = <<>>
    /\ LET entries == EntriesAt(sendActions, nextEventTime')
           batch == [type |-> "batch", level |-> level,
                     event |-> nextEventTime', entries |-> entries]
       IN  /\ simActions' = NotFired(simActions \o entries, currentTime)
           /\ world' = world \o Fired(simActions \o entries, currentTime)
           /\ tank' = TanksAfter(Fired(simActions \o entries, currentTime))
           /\ levelMessage' = Recorded(levelMessage, batch)
           /\ log' = [log EXCEPT ![level] = @ \o entries]
           /\ toClient' = [d \in Dests |->
                IF LoadedClient(d) THEN Append(toClient[d], batch) ELSE toClient[d]]

NoSend ==
    /\ currentTime < nextSendTime
    /\ simActions' = NotFired(simActions, currentTime)
    /\ world' = world \o Fired(simActions, currentTime)
    /\ tank' = TanksAfter(Fired(simActions, currentTime))
    /\ UNCHANGED <<nextSendTime, nextEventTime, sendStepSize, sendActions,
                   levelMessage, log, toClient>>

\* One turn of the loop of Simulator::simulateTime on the server.
SimulateStep ==
    /\ currentTime < MaxTime
    /\ currentTime' = currentTime + 1
    /\ Send \/ NoSend
    /\ UNCHANGED <<level, dest, requested, toServer, client>>

\* ServerDestination::setState, which ignores the transitions it does not list.
AllowedStateTransitions ==
    {<<"sDownloadingMod", "sInitializingMod">>, <<"sInitializingMod", "sLoadingLevel">>,
     <<"sLoadingLevel", "sFinished">>, <<"sFinished", "sLoadingLevel">>}

SetState(s, to) == IF <<s, to>> \in AllowedStateTransitions THEN to ELSE s

\* Mutant: the number of the next level is noted.
ToldNextLevel(d, l) ==
    [state |-> SetState(dest[d].state, "sLoadingLevel"), levelNumber |-> l + 1]

\* destinationLoadLevel for a network destination.
ToldToLoad(d, l) ==
    [state |-> SetState(dest[d].state, "sLoadingLevel"), levelNumber |-> l]

LoadMessage(l, t, rec) ==
    [type |-> "load", level |-> l, time |-> t,
     entries |-> rec.entries, event |-> rec.event]

\* Mutant: all tanks reload.
AllTanks(processed) == Tanks

\* Mutant: the tanks are looked at before the remaining actions are processed.
ReadyBefore(processed) == {t \in Tanks : tank[t] # "sLoading"}

\* The tanks newGame sends back to loading.
Reloading(processed) == {t \in Tanks : processed[t] # "sLoading"}

(***************************************************************************)
(* ServerStateNewGame::newGame: the actions already sent are applied at    *)
(* once, the tanks that play go back to loading, and the destinations of   *)
(* those tanks, and no others, are told to load the new level.  Actions    *)
(* that were requested and not yet sent stay for the new level.            *)
(***************************************************************************)
NewGame ==
    /\ level < MaxLevel
    /\ level' = level + 1
    /\ currentTime' = 0
    /\ nextSendTime' = 0
    /\ nextEventTime' = sendStepSize
    /\ simActions' = <<>>
    /\ levelMessage' = EmptyRecording
    /\ world' = <<>>
    /\ tank' = [t \in Tanks |-> "sLoading"]
    /\ LET reload == Reloading(TanksAfter(simActions))
       IN  /\ sendActions' = IF Bot \in reload
                             THEN Append(sendActions, TankLoaded(Bot))
                             ELSE sendActions
           /\ dest' = [d \in Dests |->
                IF d \in reload THEN ToldToLoad(d, level + 1) ELSE dest[d]]
           /\ toClient' = [d \in Dests |->
                IF d \in reload
                THEN Append(toClient[d], LoadMessage(level + 1, 0, EmptyRecording))
                ELSE toClient[d]]
    /\ UNCHANGED <<sendStepSize, requested, log, toServer, client>>

\* ServerInitializeModHandler: the client has set up the mod and wants the level.
\* The handler does not look at the state of the destination; the guard stands for
\* a client, which asks once.
InitializeMod(d) ==
    /\ dest[d].state = "sInitializingMod"
    /\ dest' = [dest EXCEPT ![d] = ToldToLoad(d, level)]
    /\ toClient' = [toClient EXCEPT ![d] =
                        Append(@, LoadMessage(level, currentTime, levelMessage))]
    /\ UNCHANGED <<level, currentTime, nextSendTime, nextEventTime, sendStepSize,
                   sendActions, simActions, levelMessage, world, tank,
                   requested, log, toServer, client>>

\* Mutant: the answer for an old level is ignored.
OldAnswerIgnored(d) ==
    /\ toServer[d] > 0
    /\ toServer' = [toServer EXCEPT ![d] = @ - 1]
    /\ IF dest[d].levelNumber # level
       THEN UNCHANGED <<dest, sendActions>>
       ELSE /\ dest' = [dest EXCEPT ![d].state = SetState(@, "sFinished")]
            /\ sendActions' = Append(sendActions, TankLoaded(d))
    /\ UNCHANGED <<level, currentTime, nextSendTime, nextEventTime, sendStepSize,
                   simActions, levelMessage, world, tank, requested, log,
                   toClient, client>>

\* ServerLoadLevel::processMessage: the destination loaded a level.  If it is
\* not the current one it must load again, otherwise its tank may play.
LevelLoaded(d) ==
    /\ toServer[d] > 0
    /\ toServer' = [toServer EXCEPT ![d] = @ - 1]
    /\ \/ /\ dest[d].levelNumber # level
          /\ dest' = [dest EXCEPT ![d] = ToldToLoad(d, level)]
          /\ toClient' = [toClient EXCEPT ![d] =
                              Append(@, LoadMessage(level, currentTime, levelMessage))]
          /\ UNCHANGED sendActions
       \/ /\ dest[d].levelNumber = level
          /\ dest' = [dest EXCEPT ![d].state = SetState(@, "sFinished")]
          /\ sendActions' = Append(sendActions, TankLoaded(d))
          /\ UNCHANGED toClient
    /\ UNCHANGED <<level, currentTime, nextSendTime, nextEventTime, sendStepSize,
                   simActions, levelMessage, world, tank, requested, log, client>>

(***************************************************************************)
(* Client.  It is a single thread: the load handler runs to its end before *)
(* the main loop goes on, but it processes messages itself before it       *)
(* returns, so load handlers can nest.                                     *)
(***************************************************************************)

\* Mutant: nothing holds the client back.
NeverChoked(c) == TRUE

\* ClientSimulator::continueToSimulate
ContinueToSimulate(c) == c.time < c.waiting

\* The loop of setSimulationTime still has steps to do.
CatchingUp(c) == c.loading /\ c.time < c.target /\ ContinueToSimulate(c)

\* The client reads its connection, from the main loop or from a load handler.
Reading(d) == toClient[d] # <<>> /\ ~CatchingUp(client[d])

RECEIVE(d, type) == Reading(d) /\ Head(toClient[d]).type = type

\* ClientLoadLevelHandler up to the call of setSimulationTime.  The new level
\* does not reset waitingEventTime_: the recorded batches do, if there are any.
StartLoad(c, m) ==
    [level |-> m.level, loading |-> TRUE, handlers |-> c.handlers + 1,
     target |-> m.time, time |-> 0,
     waiting |-> IF m.event = 0 THEN c.waiting ELSE m.event,
     queue |-> m.entries, world |-> <<>>,
     batchLevel |-> IF m.event = 0 THEN c.batchLevel ELSE m.level,
     attached |-> TRUE]

ReceiveLoad(d) ==
    /\ RECEIVE(d, "load")
    /\ client' = [client EXCEPT ![d] = StartLoad(@, Head(toClient[d]))]
    /\ toClient' = [toClient EXCEPT ![d] = Tail(@)]
    /\ UNCHANGED <<server, toServer>>

\* processComsSimulateMessage; a loading client also catches up with the batch.
AddBatch(c, m) ==
    [c EXCEPT !.waiting = m.event,
              !.queue = @ \o m.entries,
              !.target = IF c.loading THEN m.event ELSE @,
              !.batchLevel = m.level,
              !.attached = @ /\ m.level = c.level /\ c.time <= m.event]

ReceiveBatch(d) ==
    /\ RECEIVE(d, "batch")
    /\ client' = [client EXCEPT ![d] = AddBatch(@, Head(toClient[d]))]
    /\ toClient' = [toClient EXCEPT ![d] = Tail(@)]
    /\ UNCHANGED <<server, toServer>>

\* Simulator::actualSimulate on a client.
Stepped(c) ==
    [c EXCEPT !.time = @ + 1,
              !.queue = NotFired(@, c.time),
              !.world = @ \o Fired(c.queue, c.time)]

\* One turn of the loop of Simulator::simulateTime on a client, in the load
\* handler or in the main loop.
ClientStep(d) ==
    /\ ContinueToSimulate(client[d])
    /\ CatchingUp(client[d]) \/ (~client[d].loading /\ client[d].handlers = 0)
    /\ client' = [client EXCEPT ![d] = Stepped(@)]
    /\ UNCHANGED <<server, toClient, toServer>>

\* The end of ClientLoadLevelHandler.
FinishLoad(d) ==
    /\ client[d].handlers > 0
    /\ ~CatchingUp(client[d])
    /\ client' = [client EXCEPT ![d].loading = FALSE,
                                ![d].target = 0,
                                ![d].handlers = @ - 1]
    /\ toServer' = [toServer EXCEPT ![d] = @ + 1]
    /\ UNCHANGED <<server, toClient>>

ServerNext ==
    \/ AddSimulatorAction
    \/ SimulateStep
    \/ NewGame
    \/ \E d \in Dests : InitializeMod(d) \/ LevelLoaded(d)

ClientNext(d) ==
    \/ ReceiveLoad(d)
    \/ ReceiveBatch(d)
    \/ ClientStep(d)
    \/ FinishLoad(d)

Next == ServerNext \/ \E d \in Dests : ClientNext(d)

Spec == Init /\ [][Next]_vars

\* The server's tick polls its connections and simulates; a client's frame reads
\* its connection and simulates, and a load handler runs to its end.
Fairness ==
    /\ WF_vars(SimulateStep)
    /\ \A d \in Dests : WF_vars(LevelLoaded(d)) /\ WF_vars(ClientNext(d))

FairSpec == Spec /\ Fairness
-----------------------------------------------------------------------------
(***************************************************************************)
(* Properties.                                                             *)
(***************************************************************************)
TypeOK ==
    /\ level \in 1 .. MaxLevel
    /\ currentTime \in Nat /\ nextSendTime \in Nat /\ nextEventTime \in Nat
    /\ sendStepSize \in StepSizes
    /\ sendActions \in Seq(Action)
    /\ simActions \in Seq(Entry)
    /\ levelMessage \in Recording
    /\ world \in Seq(Entry)
    /\ dest \in [Dests -> Destination]
    /\ tank \in [Tanks -> {"sLoading", "ready"}]
    /\ toClient \in [Dests -> Seq(Load \cup Batch)]
    /\ toServer \in [Dests -> Nat]
    /\ client \in [Dests -> Client]
    /\ requested \in 0 .. MaxActions
    /\ log \in [1 .. MaxLevel -> Seq(Entry)]

\* What a replica applied is the beginning of what was sent in the level, each
\* action at the very step it was stamped with.
AppliedAsSent(w, l) ==
    /\ Len(w) <= Len(log[l])
    /\ \A i \in 1 .. Len(w) : w[i] = log[l][i]

\* A replica whose clock shows t has applied every action stamped before t.
UpToDate(w, l, t) ==
    \A i \in 1 .. Len(log[l]) : log[l][i].at < t => i <= Len(w)

\* The server applies every action at the step it told the clients, although it
\* chooses the step from a send interval that changes with the measured pings.
ServerOnSchedule ==
    AppliedAsSent(world, level) /\ UpToDate(world, level, currentTime)

\* A client that joined late, replayed the recording and goes on with the live
\* batches applies the same actions at the same steps as the server: none is
\* lost, doubled or late between the recording and the first live batch.
ClientsInLockStep ==
    \A d \in Dests : LET c == client[d] IN
        c.attached =>
            /\ AppliedAsSent(c.world, c.level)
            /\ c.batchLevel = c.level => UpToDate(c.world, c.level, c.time)

\* The recording for late joiners holds every batch of the level although
\* batches without actions are overwritten, and ends with the last event time.
RecordingComplete ==
    /\ levelMessage.entries = log[level]
    /\ currentTime > 0 => levelMessage.event = nextEventTime

Count(seq, Test(_)) == Cardinality({i \in 1 .. Len(seq) : Test(seq[i])})

Loads(d) == Count(toClient[d], LAMBDA m : m.type = "load")
              + client[d].handlers + toServer[d]

PendingLoaded(t) == Count(sendActions, LAMBDA a : a = TankLoaded(t))
                      + Count(simActions, LAMBDA e : e.act = TankLoaded(t))

\* The server thinks a destination is loading exactly when one load is on its
\* way, in progress or being answered: loads of one client never overlap, so an
\* answer, which carries no level number, is never taken for another load's.
OneLoadAtATime ==
    \A d \in Dests :
        Loads(d) = IF dest[d].state = "sLoadingLevel" THEN 1 ELSE 0

\* A tank that is loading has exactly one cause to leave that state: it is never
\* forgotten by a new game that finds it loading, and never loaded twice.
NoTankForgotten ==
    /\ \A d \in Dests :
          Loads(d) + PendingLoaded(d)
            + (IF dest[d].state = "sInitializingMod" THEN 1 ELSE 0)
          = IF tank[d] = "sLoading" THEN 1 ELSE 0
    /\ PendingLoaded(Bot) = IF tank[Bot] = "sLoading" THEN 1 ELSE 0

\* Once a client has one batch of its level, no later batch of that level is late
\* for it: only before the first batch can it run ahead, because the limit it
\* obeys then is the one of the level before.
LateOnlyBeforeFirstBatch ==
    [][\A d \in Dests :
         client[d].attached /\ ~client'[d].attached =>
            \/ client[d].batchLevel # client[d].level
            \/ Head(toClient[d]).level # client[d].level]_vars

\* A destination that finished loading uses the current level, as the comments
\* of newGame ("Tell all destinations to load") and of ServerLoadLevel want it.
FinishedUsesCurrentLevel ==
    \A d \in Dests :
        dest[d].state = "sFinished" => dest[d].levelNumber = level

\* A destination is left on an old level only by a new game that came between
\* its ComsLevelLoadedMessage and the sending of its TankLoadedSimAction, and
\* for no longer than until the next new game that finds its tank ready.
NewGameRetells ==
    [][\A d \in Dests :
         /\ level' # level
         /\ dest[d].state = "sFinished"
         /\ Count(sendActions, LAMBDA a : a = TankLoaded(d)) = 0
         => dest'[d] = [state |-> "sLoadingLevel", levelNumber |-> level']]_vars

\* Every destination that starts to load finishes, however often the level
\* changes under it.
LoadingFinishes ==
    \A d \in Dests :
        dest[d].state = "sLoadingLevel" ~> dest[d].state = "sFinished"
(***************************************************************************)
(* The replicated simulation this implements.  A client that has no batch  *)
(* of its level yet and applied less than its clock tells has run ahead of *)
(* the first batch: it counts as detached.                                 *)
(***************************************************************************)
CaughtUp(d) ==
    /\ client[d].attached
    /\ client[d].level > 0
    /\ \/ client[d].batchLevel = client[d].level
       \/ UpToDate(client[d].world, client[d].level, client[d].time)

ClientReplicas ==
    [d \in Dests |-> [level |-> client[d].level, clock |-> client[d].time,
                     world |-> client[d].world, attached |-> CaughtUp(d)]]

Replicated == INSTANCE ReplicatedSimulation WITH
    Replicas <- Dests,
    clock    <- currentTime,
    schedule <- log,
    replica  <- ClientReplicas

\* The server, the recording, the connections and the clients together behave as
\* one simulation with attached replicas.
ImplementsReplicated == Replicated!Spec
=============================================================================
