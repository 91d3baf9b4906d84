---------------------------- MODULE ServerRounds -----------------------------
(***************************************************************************)
(* The states of the server: waiting for players, the count down to a      *)
(* match, and for each round a new level, buying, playing and the scores.  *)
(* ServerState::simulate is called once in the main loop, after the        *)
(* messages were processed and the simulator simulated; it and the         *)
(* messages append actions to sendActions.  The simulator sends these at   *)
(* the end of an interval and applies those of the interval before.        *)
(*                                                                         *)
(* Buying is modelled in full; of a round only how it begins and ends (its *)
(* turns are ServerTurns), of the players only what moves their tanks      *)
(* between states.  Time is counted in send intervals.                     *)
(*                                                                         *)
(* This is the server of the build with S3D_SERVER, where BuyingTime       *)
(* limits the whole of buying; in the server inside a client it limits     *)
(* each turn to buy only (the #ifdefs of ServerStateBuying).               *)
(***************************************************************************)
EXTENDS Integers, Sequences, FiniteSets, SequencesExt

CONSTANTS
    N,               \* number of players
    Owner,           \* destination of each player
    NoMinPlayers,    \* option
    NoRounds,        \* option: rounds of a match
    BuyOnRound,      \* option MoneyBuyOnRound: the first round with buying
    BuyingTime,      \* option, 0 without limit
    StartTime,       \* option: the count down to a match
    RoundTime,       \* option: 0 without limit
    RoundScoreTime,  \* option
    ScoreTimes,      \* values of the option ScoreTime
    ReferencedTime,  \* the 30 seconds of ActionController
    WaitForShots,    \* option WaitForShotsBeforeShowingScore
    MaxLevels,       \* bound: levels
    MaxLag,          \* bound: send intervals in one main loop
    MaxChanges,      \* bound: changes the players ask for
    ChangeStates,    \* bound: states of the server in which players change or leave
    MayChange,       \* bound: players that become spectators and come back
    MayLeave,        \* bound: players that leave
    MayJoin          \* bound: players that are not there from the beginning

Players == 1 .. N

ASSUME PlayersAssumption ==
    /\ N \in Nat /\ Owner \in [Players -> Nat \ {0}]
    /\ MayChange \subseteq Players /\ MayLeave \subseteq Players /\ MayJoin \subseteq Players
ASSUME RoundOptionsAssumption ==
    /\ NoMinPlayers \in Nat /\ NoRounds \in Nat \ {0} /\ BuyOnRound \in Nat \ {0}
    /\ BuyingTime \in Nat /\ StartTime \in Nat /\ RoundTime \in Nat
    /\ RoundScoreTime \in Nat /\ ScoreTimes \subseteq Nat /\ ReferencedTime \in Nat
    /\ RoundScoreTime <= ReferencedTime /\ WaitForShots \in BOOLEAN
ASSUME RoundBoundsAssumption ==
    MaxLevels \in Nat \ {0} /\ MaxLag \in Nat \ {0} /\ MaxChanges \in Nat

VARIABLES
    game,        \* ServerState and the states it owns, and the actions to send
    simActions,  \* the actions sent at the last interval, to be applied at the next
    tank,        \* TankState of each player's tank, "away" and "gone" when there is none
    notSpectator,\* TankState::notSpectator_
    deserted,    \* players that left: TankAINone plays for them until they are removed
    score,       \* the ShowScoreAction in the action controller
    shots,       \* whether other referenced actions are in the action controller
    toLoad,      \* players whose client loads the level
    told,        \* buying moves the clients were told of and did not answer
    levels,      \* levels so far
    changes,     \* changes players asked for so far
    elapsed      \* send intervals that ended since the last tick

vars == <<game, simActions, tank, notSpectator, deserted, score, shots, toLoad, told,
          levels, changes, elapsed>>

\* What most states leave to the simulator and the players.
others == <<simActions, tank, notSpectator, deserted, score, shots, toLoad, levels>>

(***************************************************************************)
(* Data.                                                                   *)
(***************************************************************************)
States == {"Startup", "WaitingForPlayers", "MatchCountDown", "NewLevel", "Buying",
           "TankNewGame", "Playing", "FinishWait", "Score"}

TankStates == {"sLoading", "sSpectator", "sBuying", "sNormal", "sDead"}

\* TankState::allowedStateTransitions
AllowedStateTransitions ==
    {"sLoading"} \X {"sSpectator", "sDead"}
    \cup {"sSpectator"} \X {"sNormal", "sDead", "sLoading"}
    \cup {"sDead"} \X {"sNormal", "sBuying", "sLoading", "sSpectator"}
    \cup {"sNormal"} \X {"sDead", "sLoading", "sSpectator"}
    \cup {"sBuying"} \X {"sSpectator", "sLoading", "sNormal"}

\* TankState::setState: any other transition is ignored.
SetState(from, to) == IF <<from, to>> \in AllowedStateTransitions THEN to ELSE from

\* The simulation actions, of a player or of the round: the number is a move id, a
\* time or a flag.
Action(kind, p, n) == [kind |-> kind, player |-> p, number |-> n]
PlayerKinds == {"newMatch", "buying", "start", "stop", "newGame", "loaded", "spectate",
                "play", "remove"}
RoundKinds == {"roundStart", "roundStop", "score"}
SimAction == [kind : PlayerKinds, player : Players, number : Nat]
             \cup [kind : RoundKinds, player : {0}, number : Nat]

\* ServerStateBuying::BuyingPlayer
NoTimer == [move |-> 0, started |-> FALSE, time |-> 0]
Timer == [move : Nat, started : BOOLEAN, time : 0 .. BuyingTime]

NoScore == [shown |-> FALSE, left |-> 0, age |-> 0]

GameState ==
    [state : States, round : 0 .. MaxLevels, time : Nat,
     bought : SUBSET Players, timers : [Players -> Timer],   \* ServerStateBuying
     moveId : [Players -> Nat], nextMoveId : Nat,
     newlyJoined : SUBSET Players,
     roundState : {"eNone", "eCountingDown", "eFinished"},   \* ServerStatePlaying
     finished : BOOLEAN, overAllWinner : BOOLEAN,            \* ServerStateScore
     sendActions : Seq(SimAction)]

\* ServerSimulator::addSimulatorAction
Add(g, a) == [g EXCEPT !.sendActions = Append(@, a)]

Present == {p \in Players : tank[p] \in TankStates}

\* TankState::getTankPlaying
TankPlaying == {p \in Players : tank[p] \in {"sNormal", "sDead", "sBuying"}}

\* Tank::getDestinationId
DestinationOf(p) == IF p \in deserted THEN 0 ELSE Owner[p]

\* Players with an action of this kind that was not applied (the counts of instances).
Running(g, kind) ==
    {a.player : a \in {b \in ToSet(g.sendActions) \cup ToSet(simActions) : b.kind = kind}}

\* An operator applied for each player in the set, in the order of the map of tanks.
ForEachPlayer(S, Op(_, _), s) ==
    LET after[p \in 0 .. N] ==
            IF p = 0 THEN s
            ELSE IF p \in S THEN Op(after[p - 1], p) ELSE after[p - 1]
    IN  after[N]
-----------------------------------------------------------------------------
(***************************************************************************)
(* ServerStateBuying.                                                      *)
(***************************************************************************)
\* simulate: whether there is buying in this round.
BuyingRound(g) == g.round >= BuyOnRound

\* enterState
EnterBuying(g) ==
    [g EXCEPT !.state = "Buying",
              !.bought = {}, !.time = 0,
              !.timers = [p \in Players |-> NoTimer],
              !.moveId = [p \in Players |-> 0],
              !.newlyJoined = IF g.round = 1 THEN Players ELSE @]

\* Mutant: who comes late only has what is left.
LeftOver(g) == BuyingTime - g.time

\* playerBuying: the time for a move, at least one.
MoveTime(g) == IF LeftOver(g) < 1 THEN 1 ELSE LeftOver(g)

\* playerBuying
PlayerBuying(g, p) ==
    LET move == g.nextMoveId + 1
    IN  Add([g EXCEPT !.nextMoveId = move, !.moveId[p] = move,
                      !.timers[p] = IF BuyingTime = 0 THEN @
                          ELSE [move |-> move, started |-> FALSE, time |-> MoveTime(g)]],
            Action("start", p, move))

\* simulate: a dead tank asks to buy, and to begin the match if it is new.
AskToBuy(g, p) ==
    LET new == IF p \in g.newlyJoined
               THEN Add([g EXCEPT !.newlyJoined = @ \ {p}, !.bought = @ \ {p}],
                        Action("newMatch", p, 0))
               ELSE g
    IN  IF p \in Running(new, "buying") THEN new
        ELSE Add([new EXCEPT !.bought = @ \ {p}], Action("buying", p, 0))

\* simulate: a tank that buys holds its destination, or gets a move if it is the
\* first of its destination that has not bought.
Buy(s, p) ==
    LET d == DestinationOf(p)
        held == [s EXCEPT !.playing = @ \cup {d}]
    IN  IF s.game.moveId[p] # 0 THEN held
        ELSE IF p \notin s.game.bought /\ (d = 0 \/ d \notin s.playing)
             THEN [held EXCEPT !.game = PlayerBuying(s.game, p)]
        ELSE s

\* simulate: the tanks in turn.
EachTank(s, p) ==
    IF tank[p] = "sDead" THEN [s EXCEPT !.game = AskToBuy(s.game, p)]
    ELSE IF tank[p] = "sBuying" /\ BuyingRound(s.game) THEN Buy(s, p)
    ELSE s

\* buyingFinished
BuyingFinished(g, tanks, p, move) ==
    LET untimed == [g EXCEPT !.timers[p] = NoTimer]
    IN  IF tanks[p] \in {"sNormal", "sDead", "sBuying"} /\ move = g.moveId[p]
        THEN Add([untimed EXCEPT !.bought = @ \cup {p}, !.moveId[p] = 0], Action("stop", p, 0))
        ELSE untimed

\* simulate: time passes for the started moves, and those whose time is over end.
RunTimers(g) ==
    LET over == {p \in Players : g.timers[p].started /\ g.timers[p].time < elapsed}
        passed == [g EXCEPT !.timers = [p \in Players |->
                    IF g.timers[p].started /\ p \notin over
                    THEN [g.timers[p] EXCEPT !.time = @ - elapsed] ELSE g.timers[p]]]
        Finish(h, p) == BuyingFinished(h, tank, p, h.timers[p].move)
    IN  ForEachPlayer(over, Finish, passed)

\* simulate: time passes for the state; two intervals are added to the limit.
RunTime(g) ==
    [g EXCEPT !.time = IF BuyingTime = 0 \/ @ > BuyingTime + 2 THEN @ ELSE @ + elapsed]

\* Mutant: nobody waits for the dead.
DeadMayWait(s) ==
    s.playing = {} /\ ((\A p \in Players : tank[p] # "sLoading") \/ s.game.time > BuyingTime + 2)

\* simulate: everybody bought, and loaded unless the time is over.
EverybodyBought(s) ==
    /\ \A p \in Players : tank[p] # "sDead"
    /\ s.playing = {}
    /\ \/ \A p \in Players : tank[p] # "sLoading"
       \/ BuyingTime # 0 /\ s.game.time > BuyingTime + 2

\* ServerStateTankNewGame::enterState
EnterTankNewGame(g) ==
    LET AddNewGame(h, p) == Add(h, Action("newGame", p, 0))
    IN  ForEachPlayer(Present, AddNewGame, [g EXCEPT !.state = "TankNewGame", !.time = 0])

BuyingTick ==
    LET s == ForEachPlayer(Players, EachTank, [game |-> RunTime(game), playing |-> {}])
        timed == RunTimers(s.game)
    IN  /\ game.state = "Buying"
        /\ game' = IF EverybodyBought(s) THEN EnterTankNewGame(timed) ELSE timed
        /\ UNCHANGED others
-----------------------------------------------------------------------------
(***************************************************************************)
(* The simulation actions.  w has the variables they change.               *)
(***************************************************************************)
World == [game |-> game, tank |-> tank, notSpectator |-> notSpectator,
          deserted |-> deserted, score |-> score]

\* TankChangeSimAction: a tank that loads is left alone.
InvokeChange(w, p, spectate) ==
    IF w.tank[p] = "sLoading" \/ (w.tank[p] = "sSpectator") = spectate THEN w
    ELSE [w EXCEPT !.tank[p] = SetState(@, IF spectate THEN "sSpectator" ELSE "sDead"),
                   !.notSpectator[p] = ~spectate]

\* TankStartMoveSimAction: the server answers for who left.
InvokeStart(w, p, move) ==
    IF w.tank[p] = "sBuying" /\ p \in w.deserted /\ w.game.state = "Buying"
    THEN [w EXCEPT !.game = BuyingFinished(@, w.tank, p, move)]
    ELSE w

\* invokeAction of each action; the ones of tanks that are gone do nothing, and the
\* stop of a move or a round is for the clients.  That the score makes dead who still
\* plays is left to the load of the next level.
Invoke(w, a) ==
    LET p == a.player
    IN  IF a.kind = "score" THEN
            [w EXCEPT !.score = [shown |-> TRUE, left |-> a.number, age |-> 0],
                      !.game.moveId = [q \in Players |-> 0]]
        ELSE IF a.kind \in {"roundStart", "roundStop", "stop"} \/ w.tank[p] \notin TankStates THEN w
        ELSE IF a.kind = "newMatch" THEN
            [w EXCEPT !.tank[p] = SetState(@, "sDead"), !.game.newlyJoined = @ \ {p}]
        ELSE IF a.kind = "buying" THEN
            [w EXCEPT !.tank[p] = IF @ = "sDead" THEN "sBuying" ELSE @]
        ELSE IF a.kind = "start" THEN InvokeStart(w, p, a.number)
        ELSE IF a.kind = "newGame" THEN
            [w EXCEPT !.tank[p] = IF @ = "sBuying" THEN "sNormal" ELSE @]
        ELSE IF a.kind = "loaded" THEN
            [w EXCEPT !.tank[p] = SetState(@, IF a.number = 1 THEN "sDead" ELSE "sSpectator")]
        ELSE IF a.kind = "remove" THEN [w EXCEPT !.deserted = @ \cup {p}]
        ELSE InvokeChange(w, p, a.kind = "spectate")

\* Mutant: the time of a move that was given does not run.
NotStarted(g, a) == IF a.kind = "roundStart" THEN [g EXCEPT !.roundState = "eCountingDown"] ELSE g

\* The call backs: ServerStateBuying::buyingStarted, ServerStatePlaying::roundStarted.
ActionInvoked(g, a) ==
    IF a.kind = "start" /\ g.timers[a.player] # NoTimer
    THEN [g EXCEPT !.timers[a.player].started = TRUE]
    ELSE IF a.kind = "roundStart" /\ RoundTime > 0 THEN [g EXCEPT !.roundState = "eCountingDown"]
    ELSE g

InvokeAndTell(w, a) ==
    LET done == Invoke(w, a) IN [done EXCEPT !.game = ActionInvoked(done.game, a)]

\* An operator applied to the actions of a queue, one after the other.
ForEachAction(q, Op(_, _), w) ==
    LET after[i \in 0 .. Len(q)] == IF i = 0 THEN w ELSE Op(after[i - 1], q[i])
    IN  after[Len(q)]

\* ActionController::simulate and ShowScoreAction::simulate: the score is finished
\* when its time is over, and only removed when it is older than an action may be.
RunScore(w) ==
    IF ~w.score.shown THEN w
    ELSE IF w.score.left <= 1 THEN
        [w EXCEPT !.score = NoScore,
                  !.game.finished = IF w.game.state = "Score" THEN TRUE ELSE @]
    ELSE IF w.score.age >= ReferencedTime THEN [w EXCEPT !.score = NoScore]
    ELSE [w EXCEPT !.score.left = @ - 1, !.score.age = @ + 1]

\* A send interval of the simulator, or several when the main loop is late.
SimulateInterval ==
    LET w == ForEachAction(simActions, InvokeAndTell,
                           RunScore([World EXCEPT !.game.sendActions = <<>>]))
    IN  /\ elapsed < MaxLag
        /\ elapsed' = elapsed + 1
        /\ simActions' = game.sendActions
        /\ game' = w.game
        /\ tank' = w.tank
        /\ notSpectator' = w.notSpectator
        /\ deserted' = w.deserted
        /\ score' = w.score
        /\ told' = told \cup {<<a.player, a.number>> :
                a \in {b \in ToSet(game.sendActions) :
                        b.kind = "start" /\ b.player \notin deserted}}
        /\ UNCHANGED <<shots, toLoad, levels, changes>>
-----------------------------------------------------------------------------
(***************************************************************************)
(* The other states.                                                       *)
(***************************************************************************)
\* ServerStateEnoughPlayers::enoughPlayers: not decided while players come or go.
Undecided(g) == Running(g, "spectate") \cup Running(g, "play") \cup Running(g, "remove") # {}
NotEnough(g) == ~Undecided(g) /\ Cardinality(TankPlaying) < NoMinPlayers
Enough(g)    == ~Undecided(g) /\ Cardinality(TankPlaying) >= NoMinPlayers

\* ServerStateNewGame::newGame: what was sent is applied without call backs, the
\* tanks load and the action controller is cleared, which removes who left.
NewGame(g) ==
    LET w == ForEachAction(simActions, Invoke, [World EXCEPT !.game = [g EXCEPT !.round = @ + 1]])
        there == {p \in Present : w.tank[p] # "sLoading"}
    IN  /\ levels < MaxLevels
        /\ levels' = levels + 1
        /\ simActions' = <<>>
        /\ tank' = [p \in Players |->
                IF p \in w.deserted THEN "gone"
                ELSE IF p \in there THEN "sLoading" ELSE w.tank[p]]
        /\ notSpectator' = w.notSpectator
        /\ deserted' = {}
        /\ score' = NoScore
        /\ shots' = FALSE
        /\ toLoad' = (toLoad \cup there) \ w.deserted
        /\ game' = IF g.state = "Startup"
                   THEN [w.game EXCEPT !.state = "WaitingForPlayers"]
                   ELSE EnterBuying(w.game)

StartupTick ==
    /\ game.state = "Startup"
    /\ NewGame([game EXCEPT !.round = 0])

\* Nobody plays for a long time: a new level.
WaitingTick ==
    /\ game.state = "WaitingForPlayers"
    /\ \/ Enough(game) /\ game' = [game EXCEPT !.state = "MatchCountDown", !.time = 0]
       \/ NotEnough(game) /\ game' = [game EXCEPT !.state = "Startup"]
       \/ ~Enough(game) /\ UNCHANGED game
    /\ UNCHANGED others

MatchCountDownTick ==
    /\ game.state = "MatchCountDown"
    /\ game' =
        IF Undecided(game) THEN game
        ELSE IF NotEnough(game) THEN [game EXCEPT !.state = "WaitingForPlayers", !.time = 0]
        ELSE IF game.time + elapsed > StartTime
             THEN [game EXCEPT !.state = "NewLevel", !.round = 0, !.time = 0]
        ELSE [game EXCEPT !.time = @ + elapsed]
    /\ UNCHANGED others

NewLevelTick ==
    /\ game.state = "NewLevel"
    /\ NewGame(game)

\* ServerStatePlaying::enterState, and ServerTurns::enterState for the move ids
EnterPlaying(g) ==
    Add([g EXCEPT !.state = "Playing", !.roundState = "eNone", !.time = 0,
                  !.moveId = [p \in Players |-> 0]],
        Action("roundStart", 0, 0))

TankNewGameTick ==
    /\ game.state = "TankNewGame"
    /\ game' = IF Running(game, "newGame") = {} THEN EnterPlaying(game) ELSE game
    /\ UNCHANGED others

\* ServerStatePlaying::simulate: the time of the round.
RunRound(g) ==
    IF g.roundState # "eCountingDown" THEN g
    ELSE IF g.time + elapsed > RoundTime THEN [g EXCEPT !.roundState = "eFinished"]
    ELSE [g EXCEPT !.time = @ + elapsed]

\* The turns can be over at any time.
PlayingTick ==
    /\ game.state = "Playing"
    /\ \E turnsFinished \in BOOLEAN :
        game' = IF game.roundState = "eFinished" \/ turnsFinished \/ NotEnough(game)
                THEN Add([game EXCEPT !.state = "FinishWait", !.time = 0], Action("roundStop", 0, 0))
                ELSE RunRound(game)
    /\ UNCHANGED others

\* ServerStateScore::enterState
EnterScore(g, scoreTime) ==
    LET winner == g.round >= NoRounds \/ NotEnough(g)
        time == IF winner THEN scoreTime ELSE RoundScoreTime
    IN  Add([g EXCEPT !.state = "Score", !.finished = FALSE, !.overAllWinner = winner,
                      !.time = time],
            Action("score", 0, time))

FinishWaitTick ==
    /\ game.state = "FinishWait"
    /\ \E scoreTime \in ScoreTimes :
        game' = IF WaitForShots /\ shots THEN game ELSE EnterScore(game, scoreTime)
    /\ UNCHANGED others

\* ServerStateScore::simulate
ScoreTick ==
    /\ game.state = "Score"
    /\ game' = IF ~game.finished \/ game.sendActions # <<>> THEN game
               ELSE [game EXCEPT !.time = 0,
                                !.state = IF game.overAllWinner
                                          THEN "WaitingForPlayers" ELSE "NewLevel"]
    /\ UNCHANGED others

\* ServerState::simulate
Tick ==
    /\ elapsed' = 0
    /\ UNCHANGED <<told, changes>>
    /\ \/ StartupTick \/ WaitingTick \/ MatchCountDownTick \/ NewLevelTick
       \/ BuyingTick \/ TankNewGameTick \/ PlayingTick \/ FinishWaitTick \/ ScoreTick
-----------------------------------------------------------------------------
(***************************************************************************)
(* The players.  Their messages are processed before the simulator runs.   *)
(***************************************************************************)
\* ServerPlayedMoveHandler: a player finished buying, in time or not.
PlayedMove(p, move) ==
    /\ elapsed = 0
    /\ <<p, move>> \in told
    /\ told' = {o \in told : o[1] # p \/ o[2] > move}
    /\ game' = IF p \in Present \ deserted /\ game.state = "Buying"
               THEN BuyingFinished(game, tank, p, move) ELSE game
    /\ UNCHANGED <<simActions, tank, notSpectator, deserted, score, shots, toLoad,
                   levels, changes, elapsed>>

\* ServerLoadLevel: the client loaded the level; what it did before was before.
LevelLoaded(p) ==
    /\ elapsed = 0
    /\ p \in toLoad \cap Present
    /\ toLoad' = toLoad \ {p}
    /\ told' = {o \in told : o[1] # p}
    /\ game' = Add(game, Action("loaded", p, IF notSpectator[p] THEN 1 ELSE 0))
    /\ UNCHANGED <<simActions, tank, notSpectator, deserted, score, shots,
                   levels, changes, elapsed>>

\* ServerTankChangeHandler: a player wants to watch, or to play.
Change(p, kind) ==
    /\ elapsed = 0
    /\ changes < MaxChanges /\ game.state \in ChangeStates
    /\ changes' = changes + 1
    /\ p \in (Present \cap MayChange) \ (deserted \cup Running(game, "remove"))
    /\ game' = Add(game, Action(kind, p, 0))
    /\ UNCHANGED <<simActions, tank, notSpectator, deserted, score, shots, toLoad, told,
                   levels, elapsed>>

\* A player leaves: ServerMessageHandler::destroyPlayer.
Leave(p) ==
    /\ elapsed = 0
    /\ game.state \in ChangeStates
    /\ p \in (Present \cap MayLeave) \ (deserted \cup Running(game, "remove"))
    /\ game' = Add(game, Action("remove", p, 0))
    /\ toLoad' = toLoad \ {p}
    /\ told' = {o \in told : o[1] # p}
    /\ UNCHANGED <<simActions, tank, notSpectator, deserted, score, shots,
                   levels, changes, elapsed>>

\* A player comes (its tank is added) and loads the level.
Join(p) ==
    /\ tank[p] = "away"
    /\ tank' = [tank EXCEPT ![p] = "sLoading"]
    /\ toLoad' = toLoad \cup {p}
    /\ UNCHANGED <<game, simActions, notSpectator, deserted, score, shots, told,
                   levels, changes, elapsed>>

\* TankRemove: the tank of who left is removed.
Removed(p) ==
    /\ p \in deserted
    /\ tank' = [tank EXCEPT ![p] = "gone"]
    /\ deserted' = deserted \ {p}
    /\ UNCHANGED <<game, simActions, notSpectator, score, shots, toLoad, told,
                   levels, changes, elapsed>>

\* Shots fly in a round, and end.
Shoot ==
    /\ game.state = "Playing" /\ ~shots
    /\ shots' = TRUE
    /\ UNCHANGED <<game, simActions, tank, notSpectator, deserted, score, toLoad, told,
                   levels, changes, elapsed>>

ShotsEnd ==
    /\ shots
    /\ shots' = FALSE
    /\ UNCHANGED <<game, simActions, tank, notSpectator, deserted, score, toLoad, told,
                   levels, changes, elapsed>>

\* The players that are there load the first level and have chosen to play
\* (TankState begins as a spectator until the first TankChangeSimAction).
Init ==
    /\ tank = [p \in Players |-> IF p \in MayJoin THEN "away" ELSE "sLoading"]
    /\ game = [state |-> "WaitingForPlayers", round |-> 1, time |-> 0,
               bought |-> {}, timers |-> [p \in Players |-> NoTimer],
               moveId |-> [p \in Players |-> 0], nextMoveId |-> 0, newlyJoined |-> Players,
               roundState |-> "eNone", finished |-> FALSE, overAllWinner |-> FALSE,
               sendActions |-> <<>>]
    /\ simActions = <<>>
    /\ notSpectator = [p \in Players |-> TRUE]
    /\ deserted = {}
    /\ score = NoScore
    /\ shots = FALSE
    /\ toLoad = Players \ MayJoin
    /\ told = {}
    /\ levels = 1
    /\ changes = 0
    /\ elapsed = 0

Player(p) ==
    \/ \E o \in told : o[1] = p /\ PlayedMove(p, o[2])
    \/ LevelLoaded(p)
    \/ Change(p, "spectate")
    \/ Change(p, "play")
    \/ Leave(p)
    \/ Join(p)
    \/ Removed(p)

Next == Tick \/ SimulateInterval \/ Shoot \/ ShotsEnd \/ \E p \in Players : Player(p)

Spec == Init /\ [][Next]_vars

AtBound == game.state \in {"Startup", "NewLevel"} /\ levels = MaxLevels

\* The main loop goes on and time passes; shots end or are removed.  Nobody has to
\* load, to answer or to stay.  A tick is the only step that resets "elapsed", an
\* interval the only one that raises it.
Fairness ==
    /\ WF_elapsed(elapsed > 0 /\ ~AtBound /\ elapsed' = 0)
    /\ WF_elapsed(elapsed = 0 /\ elapsed' = 1)
    /\ WF_shots(shots /\ shots' = FALSE)

FairSpec == Spec /\ Fairness
-----------------------------------------------------------------------------
(***************************************************************************)
(* Properties.                                                             *)
(***************************************************************************)
TypeOK ==
    /\ game \in GameState
    /\ simActions \in Seq(SimAction)
    /\ tank \in [Players -> TankStates \cup {"away", "gone"}]
    /\ notSpectator \in [Players -> BOOLEAN]
    /\ deserted \subseteq Present
    /\ score \in [shown : BOOLEAN, left : Nat, age : 0 .. ReferencedTime]
    /\ shots \in BOOLEAN
    /\ toLoad \subseteq Players
    /\ told \subseteq Players \X Nat
    /\ levels \in 0 .. MaxLevels
    /\ changes \in 0 .. MaxChanges
    /\ elapsed \in 0 .. MaxLag

\* Who wants to play plays no round without its turn to buy, answered or over: not
\* who loads late, comes back from watching, or joins while the others are ready.
\* (Who wants to watch can: TankNewMatch makes a dead tank of a spectator.)
BoughtBeforeRound ==
    \A p \in Players :
        tank[p] = "sNormal" /\ notSpectator[p] /\ BuyingRound(game) => p \in game.bought

\* A buying move without a timer, that only its player can end: the timer was
\* dropped while the tank did not play, or by the answer to an older move.
Kept(p) ==
    BuyingTime # 0 /\ tank[p] = "sBuying" /\ game.moveId[p] # 0 /\ game.timers[p] = NoTimer

\* The final score is shown longer than an action may be.
ShownTooLong == game.time > ReferencedTime + 1

\* What holds up a match.
Held ==
    \/ game.state = "WaitingForPlayers" /\ ~Enough(game)
    \/ AtBound
    \/ game.state = "Buying" /\ \E p \in Players : Kept(p)
    \/ game.state = "Score" /\ ShownTooLong

\* The server leaves every state, although nobody has to load, answer or stay: only
\* a lack of players holds it, a kept buying move and a final score shown too long.
EveryStateEnds == []<>Held \/ []<><<game.state' # game.state>>_game
=============================================================================
