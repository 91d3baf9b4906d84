----------------------------- MODULE ServerTurns -----------------------------
(***************************************************************************)
(* The turns of a round: ServerTurns with the discipline that the option   *)
(* TurnType chooses, the simulation actions it sends, and the players.     *)
(*                                                                         *)
(* A tick of the server calls ServerTurns::simulate; an answer of a player *)
(* calls moveFinished; both append actions to sendActions.  At the next    *)
(* send interval these are sent, and the actions sent an interval earlier  *)
(* are applied, with their callbacks (LevelSync shows that this is what    *)
(* the simulator does).  A client can run ahead of the server: a player    *)
(* can answer from the moment a move was sent.                             *)
(***************************************************************************)
EXTENDS ServerTurnsSequential, ServerTurnsSimultaneous, ServerTurnsFree

CONSTANTS
    Discipline,     \* the class turns_ points to
    AllowedMissed,  \* option AllowedMissedMoves
    Lives,          \* option PlayerLives
    MaxMoves,       \* bound: move ids given in all rounds
    MaxQueue,       \* bound: actions that wait to be sent when a tick begins
    MaxRounds,      \* bound: rounds
    Mortal,         \* bound: tankets that are destroyed
    Leaving         \* bound: players that leave

ASSUME DisciplineAssumption ==
    Discipline \in {"Sequential", "Simultaneous", "Free"}
ASSUME OptionsAssumption ==
    AllowedMissed \in Nat /\ Lives \in Nat \ {0}
ASSUME TurnBoundsAssumption ==
    /\ MaxMoves \in Nat /\ MaxQueue \in Nat /\ MaxRounds \in Nat \ {0}
    /\ Mortal \subseteq Tankets /\ Leaving \subseteq Tankets

VARIABLES
    turns,      \* the ServerTurns object and the actions to send
    sent,       \* the actions sent at the last interval, to be applied at the next
    tank,       \* state of each tanket on the server
    lives,      \* lives left
    missedMoves,\* TanketShotInfo, counted on the server
    flying,     \* referenced actions of the action controller
    told,       \* moves the clients were told of and did not answer
    clientTank, \* state of each tanket in the clients' simulation
    clientMove, \* TanketShotInfo::moveId_ in the clients' simulation
    elapsed,    \* send intervals that ended since the last tick (0 or 1)
    round       \* number of the round

vars == <<turns, sent, tank, lives, missedMoves, flying, told, clientTank,
          clientMove, elapsed, round>>

Humans == {p \in Tankets \ Computer : Owner[p] # 0}

\* Only the sequential turns have an order.
DrawnOrders(tk) == IF Discipline = "Sequential" THEN Orders(tk) ELSE {<<>>}
-----------------------------------------------------------------------------
(***************************************************************************)
(* The virtual methods.                                                    *)
(***************************************************************************)
InternalEnterState(s, tk, order) ==
    IF Discipline = "Sequential" THEN SequentialEnterState(s, tk, order)
    ELSE IF Discipline = "Simultaneous" THEN SimultaneousEnterState(s, tk)
    ELSE FreeEnterState(s, tk)

InternalSimulate(s, tk, time, order) ==
    IF Discipline = "Sequential" THEN SequentialSimulate(s, tk, order)
    ELSE IF Discipline = "Simultaneous" THEN SimultaneousSimulate(s, tk, time)
    ELSE FreeSimulate(s, tk)

InternalMoveFinished(s, tk, m, thinking) ==
    IF Discipline = "Sequential" THEN SequentialMoveFinished(s, tk, m)
    ELSE IF Discipline = "Simultaneous" THEN SimultaneousMoveFinished(s, tk, m)
    ELSE FreeMoveFinished(s, tk, m, thinking)

InternalShotsFinished(s) ==
    IF Discipline = "Simultaneous" THEN SimultaneousShotsFinished(s) ELSE s

(***************************************************************************)
(* ServerTurns.                                                            *)
(***************************************************************************)
\* moveFinished, for a tanket that does not use the normal moves.
NonNormalMoveFinished(s, tk, m, thinking) ==
    LET p == m.player
        ended == PlayMoveFinished(s, p)
        next  == [ended EXCEPT !.nextNonNormalMoveId = @ + 1]
    IN  IF s.moveId[p] # m.move THEN s
        ELSE IF p \in Alive(tk) \cap Computer
        THEN Delayed(PlayShots(next, {m}, FALSE, FALSE), p, thinking)
        ELSE ended

\* moveFinished
MoveFinished(s, tk, m, thinking) ==
    IF m.player \in Present(tk) \cap NonNormal
    THEN NonNormalMoveFinished(s, tk, m, thinking)
    ELSE InternalMoveFinished(s, tk, m, thinking)

\* Time passes for the started moves (-1 stands for any time below 0).
RunTimers(s, time) ==
    LET Run(timer) == IF timer.started /\ timer.time >= 0
                      THEN [timer EXCEPT !.time = @ - time] ELSE timer
    IN  [s EXCEPT !.playingPlayers = [p \in Tankets |-> Run(@[p])]]

\* The moves whose time is over are finished by the server.
TimeOut(s, tk) ==
    LET TimedOut(t, p) ==
            MoveFinished(t, tk, [player |-> p, move |-> t.playingPlayers[p].move,
                                 type |-> "eTimeout"], 0)
    IN  ForEach({p \in Tankets : s.playingPlayers[p].started /\ s.playingPlayers[p].time < 0},
                TimedOut, s)

\* The computer players that do not use the normal moves get one at any time.
GiveNonNormalMoves(s, tk) ==
    LET Give(t, p) ==
            IF t.moveId[p] = 0 /\ t.timedPlayers[p] = 0
            THEN PlayMove([t EXCEPT !.nextNonNormalMoveId = @ + 1],
                          p, t.nextNonNormalMoveId + 1, 0)
            ELSE t
    IN  ForEach(Present(tk) \cap NonNormal \cap Computer, Give, s)

\* The delays run down; the loop ends at the first one that is over.
RunDelays(s, time) ==
    LET over == {p \in Tankets : s.timedPlayers[p] = time}
    IN  [s EXCEPT !.timedPlayers = [p \in Tankets |->
            IF @[p] > 0 /\ (\A q \in over : p <= q) THEN @[p] - time ELSE @[p]]]

\* Shots that are referenced are over (ActionController::noReferencedActions).
WaitForShotsToEnd(s, inFlight) ==
    IF s.shotsState = "eShotsWaitingEnd" /\ inFlight = {}
    THEN [InternalShotsFinished(s) EXCEPT !.shotsState = "eShotsNone"]
    ELSE s

\* simulate
Simulate(s, tk, inFlight, time, order) ==
    LET t == WaitForShotsToEnd(s, inFlight)
    IN  IF t.shotsState # "eShotsNone" THEN t
        ELSE InternalSimulate(
                RunDelays(GiveNonNormalMoves(TimeOut(RunTimers(t, time), tk), tk), time),
                tk, time, order)

\* enterState
EnterTurns(s, tk, order) ==
    InternalEnterState(
        [s EXCEPT !.shotsState = "eShotsNone",
                  !.playingPlayers = [p \in Tankets |-> NoTimer],
                  !.timedPlayers = [p \in Tankets |-> 0],
                  !.moveId = [p \in Tankets |-> IF p \in Present(tk) THEN 0 ELSE @[p]]],
        tk, order)
-----------------------------------------------------------------------------
(***************************************************************************)
(* The simulation actions, on the server and in the clients' simulation.   *)
(* w has the variables they change; "answers" and "thinking" are what the  *)
(* computer players choose.                                                *)
(***************************************************************************)
World == [turns |-> turns, tank |-> tank, lives |-> lives,
          missedMoves |-> missedMoves, flying |-> flying, clientMove |-> clientMove]

\* TankStartMoveSimAction::invokeAction.  A computer player answers at once, or
\* uses its batteries and starts again: once, the batteries it can use do not
\* last as long as the time for a move.  For a player that left it is a skip.
InvokeStart(w, a, answers, thinking) ==
    LET p == a.player
        answered ==
            IF p \notin Alive(w.tank) \/ ~HasAI(w.turns, p) THEN w.turns
            ELSE IF answers[p] = "batteries" /\ ~a.again
            THEN AddSimulatorAction(w.turns, StartAgain(p, a.move))
            ELSE MoveFinished(w.turns, w.tank,
                              [player |-> p, move |-> a.move,
                               type |-> IF p \in Computer THEN "eShot" ELSE "eSkip"],
                              thinking[p])
    IN  [w EXCEPT !.turns = IF a.timed THEN MoveStarted(answered, p) ELSE answered,
                  !.clientMove[p] = IF clientTank[p] = "sNormal" THEN a.move ELSE @]

\* TankStopMoveSimAction::invokeAction
InvokeStop(w, a) ==
    [w EXCEPT !.clientMove[a.player] = IF clientTank[a.player] = "gone" THEN @ ELSE 0]

\* PlayMovesSimAction::tankTimedOut: the tanks that missed too many moves.
MissedTooMany(missed, moves) ==
    {m.player : m \in {n \in moves : /\ n.type = "eTimeout"
                                     /\ AllowedMissed > 0
                                     /\ missed[n.player] + 1 >= AllowedMissed}} \ Turrets

\* Mutant: no call back when nobody is left to play.
NoCallBack(w, a) ==
    [w EXCEPT !.turns = IF WaitForShots /\ \E m \in a.moves : m.player \in Alive(w.tank)
                        THEN ShotsStarted(@) ELSE @]

\* PlayMovesSimAction::invokeAction.  Only the server counts missed moves and
\* makes a spectator of a tank.
InvokeShots(w, a) ==
    LET moves == {m \in a.moves : m.player \in Alive(w.tank)}
        out   == IF a.timeOut THEN MissedTooMany(w.missedMoves, moves) ELSE {}
        missed(p) == \E m \in moves : m.player = p /\ m.type = "eTimeout" /\ a.timeOut
        answered(p) == ~missed(p) /\ \E m \in moves : m.player = p
    IN  [w EXCEPT
            !.flying = @ \cup {<<"shot", m.player>> :
                               m \in {n \in moves : n.type = "eShot" /\ a.referenced}},
            !.missedMoves = [p \in Tankets |->
                IF missed(p) /\ AllowedMissed > 0 THEN @[p] + 1
                ELSE IF answered(p) THEN 0 ELSE @[p]],
            !.tank = [p \in Tankets |-> IF p \in out THEN "sSpectator" ELSE @[p]],
            !.lives = [p \in Tankets |-> IF p \in out THEN 0 ELSE @[p]],
            !.turns = IF WaitForShots THEN ShotsStarted(@) ELSE @]

\* An action of the queue.  The number of the turn is not kept here.
Invoke(w, a, answers, thinking) ==
    IF a.kind = "start" THEN InvokeStart(w, a, answers, thinking)
    ELSE IF a.kind = "stop" THEN InvokeStop(w, a)
    ELSE IF a.kind = "shots" THEN InvokeShots(w, a)
    ELSE w

\* The actions of the queue q, one after the other.
InvokeAll(w, q, answers, thinking) ==
    LET after[i \in 0 .. Len(q)] ==
            IF i = 0 THEN w ELSE Invoke(after[i - 1], q[i], answers, thinking)
    IN  after[Len(q)]
-----------------------------------------------------------------------------
AliveCount == Cardinality({p \in Tankets \ Turrets :
                            tank[p] \in {"sNormal", "sDead"} /\ lives[p] > 0})

\* ServerTurns::showScore, as far as it depends on who is alive.
ShowScore == AliveCount <= 1

Init ==
    /\ tank = [p \in Tankets |-> "sNormal"]
    /\ lives = [p \in Tankets |-> Lives]
    /\ missedMoves = [p \in Tankets |-> 0]
    /\ \E order \in DrawnOrders(tank) : turns = EnterTurns(NewTurns, tank, order)
    /\ sent = <<>>
    /\ flying = {}
    /\ told = {}
    /\ clientTank = tank
    /\ clientMove = [p \in Tankets |-> 0]
    /\ elapsed = 0
    /\ round = 1

\* An order is drawn when a sequential turn begins: when nobody waits any more.
OrdersNow ==
    IF turns.waitingPlayers = <<>> THEN DrawnOrders(tank) ELSE {<<>>}

Playing ==
    /\ ~ShowScore
    /\ turns.nextMoveId < MaxMoves /\ turns.nextNonNormalMoveId < MaxMoves
    /\ Len(turns.sendActions) <= MaxQueue

\* A Resurrection takes five seconds: two intervals at least, with ticks between.
Reviving == {"dead", "dying"}

AfterInterval(f) ==
    IF elapsed = 0 /\ f[1] = "dead" THEN <<"dying", f[2]>>
    ELSE IF elapsed = 0 /\ f[1] = "dying" THEN <<"rez", f[2]>>
    ELSE f

\* A tick of the server in the playing state.
Tick ==
    /\ Playing
    /\ elapsed' = 0
    /\ UNCHANGED <<sent, tank, lives, missedMoves, flying, told, clientTank,
                   clientMove, round>>
    /\ \E order \in OrdersNow : turns' = Simulate(turns, tank, flying, elapsed, order)

\* The players of the server that are told of a move by the actions applied now,
\* and what they do with it; those that left only skip.
Called == {p \in Computer \cup turns.deserted :
            \E a \in ToSet(sent) : a.kind = "start" /\ a.player = p}

Answers ==
    {f \in [Called -> {"answer", "batteries"}] :
        \A p \in Called \ Computer : f[p] = "answer"}

\* A send interval of the simulator.
SimulateInterval ==
    /\ sent # <<>> \/ turns.sendActions # <<>> \/ elapsed = 0
    /\ elapsed' = 1
    /\ UNCHANGED <<clientTank, round>>
    /\ sent' = turns.sendActions
    /\ told' = told \cup {<<a.player, a.move>> :
                    a \in {b \in ToSet(turns.sendActions) :
                            b.kind = "start" /\ b.player \in Humans \ turns.deserted}}
    /\ \E answers \in Answers, thinking \in [Called -> Delays] :
        LET start == [World EXCEPT !.turns.sendActions = <<>>,
                                  !.flying = {AfterInterval(f) : f \in flying}]
            w == InvokeAll(start, sent, answers, thinking)
        IN  /\ turns' = w.turns
            /\ tank' = w.tank
            /\ lives' = w.lives
            /\ missedMoves' = w.missedMoves
            /\ flying' = w.flying
            /\ clientMove' = w.clientMove

\* ServerPlayedMoveHandler: a player answers a move it was told of, in time or
\* not, and forgets the ones before.
PlayedMove(p, move, type) ==
    /\ <<p, move>> \in told
    /\ told' = {o \in told : o[1] # p \/ o[2] > move}
    /\ p \in Present(tank) \ turns.deserted
    /\ turns' = MoveFinished(turns, tank, [player |-> p, move |-> move, type |-> type], 0)
    /\ UNCHANGED <<sent, tank, lives, missedMoves, flying, clientTank, clientMove, elapsed, round>>

\* A shot landed.
ShotEnds(p) ==
    /\ <<"shot", p>> \in flying
    /\ flying' = flying \ {<<"shot", p>>}
    /\ UNCHANGED <<turns, sent, tank, lives, missedMoves, told, clientTank, clientMove, elapsed, round>>

\* Mutant: a tank that is dead already dies again.
DiesAgain(p) ==
    /\ p \in Present(tank) \cap Mortal
    /\ tank' = [tank EXCEPT ![p] = "sDead"]
    /\ lives' = [lives EXCEPT ![p] = @ - 1]
    /\ clientTank' = [clientTank EXCEPT ![p] = "sDead"]
    /\ UNCHANGED <<turns, sent, missedMoves, flying, told, clientMove, elapsed, round>>

\* A tank is destroyed: by a shot in flight or by what shots leave behind.
TankDies(p) ==
    /\ p \in Alive(tank) \cap Mortal
    /\ tank' = [tank EXCEPT ![p] = "sDead"]
    /\ lives' = [lives EXCEPT ![p] = @ - 1]
    /\ flying' = IF lives[p] > 1 /\ p \notin Turrets
                 THEN flying \cup {<<"dead", p>>} ELSE flying
    /\ clientTank' = [clientTank EXCEPT ![p] = "sDead"]
    /\ UNCHANGED <<turns, sent, missedMoves, told, clientMove, elapsed, round>>

\* Resurrection: a tank that has lives left comes back.
Rezzed(s) == IF s = "sDead" THEN "sNormal" ELSE s

Resurrect(p) ==
    /\ <<"rez", p>> \in flying
    /\ flying' = flying \ {<<"rez", p>>}
    /\ tank' = [tank EXCEPT ![p] = Rezzed(@)]
    /\ clientTank' = [clientTank EXCEPT ![p] = Rezzed(@)]
    /\ UNCHANGED <<turns, sent, lives, missedMoves, told, clientMove, elapsed, round>>

\* TankRemoveSimAction::invokeAction: a player left, the server plays its tank.
Leave(p) ==
    /\ p \in (Present(tank) \cap Humans \cap Leaving) \ turns.deserted
    /\ turns' = [turns EXCEPT !.deserted = @ \cup {p}]
    /\ told' = {o \in told : o[1] # p}
    /\ UNCHANGED <<sent, tank, lives, missedMoves, flying, clientTank, clientMove, elapsed, round>>

\* TankRemove: after some seconds, ten by default, the tank is removed.
Removed(p) ==
    /\ p \in Present(tank) \cap turns.deserted
    /\ tank' = [tank EXCEPT ![p] = "gone"]
    /\ clientTank' = [clientTank EXCEPT ![p] = "gone"]
    /\ UNCHANGED <<turns, sent, lives, missedMoves, flying, told, clientMove, elapsed, round>>

\* The next round: those who play are alive again.  The states between two
\* rounds last longer than two send intervals and than what is in flight, and the
\* new level removes who left.
EnterState ==
    /\ round < MaxRounds
    /\ round' = round + 1
    /\ sent = <<>> /\ turns.sendActions = <<>>
    /\ \A f \in flying : f[1] # "shot"
    /\ flying' = {}
    /\ tank' = [p \in Tankets |->
            IF p \in turns.deserted THEN "gone" ELSE Rezzed(tank[p])]
    /\ clientTank' = tank'
    /\ lives' = [p \in Tankets |-> IF p \in Alive(tank') THEN Lives ELSE lives[p]]
    /\ missedMoves' = [p \in Tankets |-> IF p \in Alive(tank') THEN 0 ELSE missedMoves[p]]
    /\ clientMove' = [p \in Tankets |-> 0]
    /\ \E order \in DrawnOrders(tank') : turns' = EnterTurns(turns, tank', order)
    /\ UNCHANGED <<sent, told, elapsed>>

Player(p) ==
    \/ \E o \in told, type \in {"eShot", "eSkip"} : o[1] = p /\ PlayedMove(p, o[2], type)
    \/ ShotEnds(p)
    \/ TankDies(p)
    \/ Resurrect(p)
    \/ Leave(p)
    \/ Removed(p)

Next == Tick \/ SimulateInterval \/ EnterState \/ \E p \in Tankets : Player(p)

Spec == Init /\ [][Next]_vars

\* The main loop ticks and simulates for ever, and an action in flight ends (the
\* action controller removes it after 30 seconds).  Nobody has to answer.  A tick
\* is the only step that resets "elapsed", an interval the only one that sets it.
Fairness ==
    /\ WF_elapsed(Playing /\ elapsed = 1 /\ elapsed' = 0)
    /\ WF_elapsed(elapsed = 0 /\ elapsed' = 1)
    /\ WF_vars(\E p \in Tankets : ShotEnds(p) \/ Resurrect(p))

FairSpec == Spec /\ Fairness
-----------------------------------------------------------------------------
(***************************************************************************)
(* Properties.                                                             *)
(***************************************************************************)
TypeOK ==
    /\ turns \in TurnsState
    /\ sent \in Seq(SimAction)
    /\ tank \in [Tankets -> TankStates]
    /\ lives \in [Tankets -> 0 .. Lives]
    /\ missedMoves \in [Tankets -> Nat]
    /\ flying \subseteq ({"shot", "rez"} \cup Reviving) \X Tankets
    /\ told \subseteq Humans \X MoveIds
    /\ clientTank \in [Tankets -> TankStates]
    /\ clientMove \in [Tankets -> Nat]
    /\ elapsed \in {0, 1}
    /\ round \in 1 .. MaxRounds

\* What is on its way to be applied.
Pending == sent \o turns.sendActions

\* The moves that the i-th action of a queue plays.
MovesAt(q, i) == IF q[i].kind = "shots" THEN q[i].moves ELSE {}

\* The moves the players have.
CurrentMoves(s) ==
    {[player |-> p, move |-> s.moveId[p]] : p \in {r \in Tankets : s.moveId[r] # 0}}

\* Each player's moves in the first set are earlier than those in the second.
Earlier(first, second) ==
    \A m \in first, n \in second :
        m.player = n.player /\ m.player \notin NonNormal => m.move < n.move

\* The moves of each player rise from those in the queue q to the ones that wait
\* for the others and to the one it has.
InOrder(s, q) ==
    /\ \A i \in 1 .. Len(q) :
            /\ OnePerPlayer(MovesAt(q, i))
            /\ \A j \in i + 1 .. Len(q) : Earlier(MovesAt(q, i), MovesAt(q, j))
            /\ Earlier(MovesAt(q, i), s.moves)
            /\ Earlier(MovesAt(q, i), CurrentMoves(s))
    /\ OnePerPlayer(s.moves)
    /\ Earlier(s.moves, CurrentMoves(s))

\* A move given to a player is played once at most, although the player's answer,
\* the time out and a late answer to an earlier move, even of an earlier round,
\* can arrive in any order.
EachMoveOnce == InOrder(turns, Pending)

\* In sequential turns only the playing player has a move, whoever dies, leaves,
\* or answers late.
OnlyPlayingPlayerMoves ==
    \A p \in Present(tank) \ NonNormal :
        turns.moveId[p] # 0 => p = turns.playingPlayer

\* A destination that owns several tankets has one move at a time.
OneMovePerDestination ==
    \A p, q \in Alive(tank) \ NonNormal :
        /\ DestinationOf(turns, p) = DestinationOf(turns, q)
        /\ DestinationOf(turns, p) # 0
        /\ turns.moveId[p] # 0 /\ turns.moveId[q] # 0
        => p = q

\* A timer that runs is the one of the move the player has: a time out never
\* ends another move.
TimerOfCurrentMove ==
    \A p \in Present(tank) :
        turns.playingPlayers[p] # NoTimer =>
            turns.playingPlayers[p].move = turns.moveId[p]

\* The move a client thinks a tanket has, when all actions on their way are
\* applied.
MoveAtClients(p) ==
    LET own  == {i \in 1 .. Len(Pending) :
                    Pending[i].kind \in {"start", "stop"} /\ Pending[i].player = p}
        last == CHOOSE i \in own : \A j \in own : j <= i
    IN  IF own = {} THEN clientMove[p]
        ELSE IF Pending[last].kind = "start" THEN Pending[last].move ELSE 0

\* No client is left with a move that is over, or without one it has to answer:
\* every end of a move is told to the clients after its start.
ClientsKnowMoves ==
    \A p \in Alive(tank) : MoveAtClients(p) = turns.moveId[p]

\* The shots that wait to be played, or fly.
ShotsToEnd ==
    {m.player : m \in {n \in UNION {MovesAt(Pending, i) : i \in 1 .. Len(Pending)} :
                        n.type = "eShot" /\ n.player \in Alive(tank) \ NonNormal}}
        \cup {f[2] : f \in {g \in flying : g[1] = "shot"}}

\* "Players take it in turns, one by one, to setup defenses and fire their
\* weapons": nobody has a move while a shot is played.
OneByOne ==
    ShotsToEnd # {} => \A p \in Alive(tank) \ NonNormal : turns.moveId[p] = 0

\* A player has no move before the time it has to wait since its last one is over.
DelayIsOver ==
    \A p \in Alive(tank) : turns.timedPlayers[p] > 0 => turns.moveId[p] = 0

\* The clients' simulation and the server's agree on which tanks play.
ClientsKnowTanks == clientTank = tank

AtBound ==
    \/ turns.nextMoveId >= MaxMoves
    \/ turns.nextNonNormalMoveId >= MaxMoves
    \/ ShowScore

\* The turns go on although nobody has to answer: moves time out, shots that were
\* waited for end, and one move after the other is given.
TurnsGoOn == <>AtBound
=============================================================================
