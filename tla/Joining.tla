------------------------------- MODULE Joining -------------------------------
(***************************************************************************)
(* How players come and go on a server: a connection, the request of its   *)
(* client to join, that is recorded and processed when no tank is on its   *)
(* way, the actions that add and remove tanks, and kicks, whose handler    *)
(* processes the messages that wait before it returns.                     *)
(*                                                                         *)
(* The network is what NetServer says of it: the game hears of a connection*)
(* before its messages and of its end once, and a late message can come    *)
(* after the end.  A player is <<d, k>>, the kth of destination d: without *)
(* a statistics database every tank gets an id of its own.  Computer       *)
(* players are left out.                                                   *)
(***************************************************************************)
EXTENDS Integers, Sequences, FiniteSets, SequencesExt

CONSTANTS
    Destinations,
    NoPlayers,      \* players each destination asks for
    AllowSameUniqueId,  \* option, TRUE by default
    Unique,         \* the unique id of each destination, as the authentication and the
                    \* database leave it
    SUI,            \* the id each destination computes of its machine
    NoId,           \* the empty id
    Refused,        \* destinations that may be refused: they are banned, fail the
                    \* authentication or send a request that cannot be read, or the
                    \* answer cannot be sent
    MayLeave,       \* bound: destinations that may leave on their own
    NoMaxPlayers,   \* how many players fit
    MaxKicks        \* bound: kicks by the administrators

ASSUME JoiningAssumption ==
    /\ NoPlayers \in [Destinations -> Nat \ {0}]
    /\ AllowSameUniqueId \in BOOLEAN
    /\ DOMAIN Unique = Destinations /\ DOMAIN SUI = Destinations
    /\ Refused \subseteq Destinations /\ MayLeave \subseteq Destinations
    /\ NoMaxPlayers \in Nat \ {0} /\ MaxKicks \in Nat

VARIABLES
    main,           \* where serverLoop is
    \* clients and network
    conn,           \* "out", "in" or "over"
    phase,          \* how far the request of each client is
    incoming,       \* messages for the main thread
    kicked,         \* destinations the network was told to disconnect
    kicks,          \* kicks by the administrators so far
    \* the server
    known,          \* ServerDestinations
    authMessages,   \* authMessages_; a request that was deleted is marked
    current,        \* the position of the request that is processed, or 0
    waiting,        \* simulation actions on their way
    tanks,          \* players in the target container
    left,           \* those whose destination was taken away
    removing        \* TankRemove actions

clientVars == <<conn, phase>>
tankVars == <<tanks, left, removing>>
vars == <<main, clientVars, incoming, kicked, kicks, known, authMessages, current,
          waiting, tankVars>>

Players == UNION {{d} \X (1 .. NoPlayers[d]) : d \in Destinations}

Message(kind, d) == [kind |-> kind, dest |-> d]
Messages == [kind : {"Connect", "Hello", "Auth", "Disconnect"}, dest : Destinations]

TankAdd(p) == [kind |-> "Add", player |-> p]
TankRemoveSim(p) == [kind |-> "Remove", player |-> p]
Actions == [kind : {"Add", "Remove"}, player : Players]

Init ==
    /\ main = "messages"
    /\ conn = [d \in Destinations |-> "out"]
    /\ phase = [d \in Destinations |-> "start"]
    /\ incoming = <<>> /\ kicked = {} /\ kicks = 0
    /\ known = {} /\ authMessages = <<>> /\ current = 0
    /\ waiting = <<>> /\ tanks = {} /\ left = {} /\ removing = {}
-----------------------------------------------------------------------------
(***************************************************************************)
(* Clients and the network.                                                *)
(***************************************************************************)
Connects(d) ==
    /\ conn[d] = "out"
    /\ conn' = [conn EXCEPT ![d] = "in"]
    /\ incoming' = Append(incoming, Message("Connect", d))
    /\ UNCHANGED <<main, phase, kicked, kicks, known, authMessages, current, waiting, tankVars>>

\* The connection ends: the client left, or the server disconnects it.
Closes(d) ==
    /\ conn[d] = "in"
    /\ d \in kicked \/ d \in MayLeave
    /\ conn' = [conn EXCEPT ![d] = "over"]
    /\ incoming' = Append(incoming, Message("Disconnect", d))
    /\ UNCHANGED <<main, phase, kicked, kicks, known, authMessages, current, waiting, tankVars>>

\* The client asks to join, and when it was answered sends its request.
Asks(d) ==
    /\ conn[d] # "out"
    /\ \/ /\ phase[d] = "start"
          /\ phase' = [phase EXCEPT ![d] = "hello"]
          /\ incoming' = Append(incoming, Message("Hello", d))
       \/ /\ phase[d] = "answered"
          /\ phase' = [phase EXCEPT ![d] = "auth"]
          /\ incoming' = Append(incoming, Message("Auth", d))
    /\ UNCHANGED <<main, conn, kicked, kicks, known, authMessages, current, waiting, tankVars>>
-----------------------------------------------------------------------------
(***************************************************************************)
(* The handlers of the server.                                             *)
(***************************************************************************)
PlayersOf(d) == {p \in tanks \ left : p[1] = d}

Full == Cardinality(tanks) >= NoMaxPlayers

\* destroyPlayer, for each of a set of players
DestroyPlayers(players) ==
    waiting' = waiting \o SetToSeq({TankRemoveSim(p) : p \in players})

\* clientConnected
HandleConnect(d) ==
    /\ \/ /\ known' = known \cup {d}
          /\ UNCHANGED kicked
       \/ /\ d \in Refused
          /\ kicked' = kicked \cup {d}
          /\ UNCHANGED known
    /\ UNCHANGED <<phase, authMessages, waiting>>

\* ServerConnectHandler::processMessage, which does not look up the destination
HandleHello(d) ==
    /\ \/ /\ Full \/ d \in Refused
          /\ kicked' = kicked \cup {d}
          /\ UNCHANGED phase
       \/ /\ ~Full
          /\ phase' = [phase EXCEPT ![d] = "answered"]
          /\ UNCHANGED kicked
    /\ UNCHANGED <<known, authMessages, waiting>>

\* ServerConnectAuthHandler::processMessage
HandleAuth(d) ==
    /\ \/ /\ phase' = [phase EXCEPT ![d] = "recorded"]
          /\ authMessages' = Append(authMessages, [dest |-> d, deleted |-> FALSE])
          /\ UNCHANGED kicked
       \/ /\ d \in Refused
          /\ kicked' = kicked \cup {d}
          /\ UNCHANGED <<phase, authMessages>>
    /\ UNCHANGED <<known, waiting>>

\* Mutant: the players stay.
ForgetDisconnect(d) ==
    /\ known' = known \ {d}
    /\ UNCHANGED <<phase, kicked, authMessages, waiting>>

\* clientDisconnected
HandleDisconnect(d) ==
    /\ DestroyPlayers(PlayersOf(d))
    /\ known' = known \ {d}
    /\ UNCHANGED <<phase, kicked, authMessages>>

\* NetInterface::processMessages, from the main loop or from a kick
ProcessMessage ==
    /\ main \in {"messages", "kick"}
    /\ incoming # <<>>
    /\ incoming' = Tail(incoming)
    /\ LET m == Head(incoming) IN
        \/ m.kind = "Connect" /\ HandleConnect(m.dest)
        \/ m.kind = "Hello" /\ HandleHello(m.dest)
        \/ m.kind = "Auth" /\ HandleAuth(m.dest)
        \/ m.kind = "Disconnect" /\ HandleDisconnect(m.dest)
    /\ UNCHANGED <<main, conn, kicks, current, tankVars>>

\* An administrator kicks a player (kickPlayer).  When its destination is gone the
\* tank is removed, again if need be.
KickPlayer(p) ==
    /\ main = "messages"
    /\ kicks < MaxKicks
    /\ p \in tanks
    /\ kicks' = kicks + 1
    /\ \/ /\ p \notin left /\ p[1] \in known
          /\ kicked' = kicked \cup {p[1]}
          /\ UNCHANGED waiting
       \/ /\ p \in left \/ p[1] \notin known
          /\ DestroyPlayers({p})
          /\ UNCHANGED kicked
    /\ UNCHANGED <<main, clientVars, incoming, known, authMessages, current, tankVars>>

\* The loop goes on when no message waits.
EndMessages ==
    /\ main = "messages" /\ incoming = <<>>
    /\ main' = "simulate"
    /\ UNCHANGED <<clientVars, incoming, kicked, kicks, known, authMessages, current,
                   waiting, tankVars>>
-----------------------------------------------------------------------------
(***************************************************************************)
(* The simulation.                                                         *)
(***************************************************************************)
\* Mutant: nobody looks whether the destination is still there.
AddOnly(p) ==
    /\ tanks' = tanks \cup {p}
    /\ waiting' = Tail(waiting)
    /\ UNCHANGED <<left, removing>>

\* TankAddSimAction::invokeAction
AddTank(p) ==
    /\ tanks' = tanks \cup {p}
    /\ waiting' = Tail(waiting)
                    \o (IF p[1] \in known THEN <<>> ELSE <<TankRemoveSim(p)>>)
    /\ UNCHANGED <<left, removing>>

\* Mutant: nobody looks whether the player is still there.
RemoveUnseen(p) ==
    /\ left' = left \cup {p}
    /\ removing' = removing \cup {p}
    /\ waiting' = Tail(waiting)
    /\ UNCHANGED tanks

\* TankRemoveSimAction::invokeAction
RemoveTank(p) ==
    /\ left' = left \cup (tanks \cap {p})
    /\ removing' = removing \cup {p}
    /\ waiting' = Tail(waiting)
    /\ UNCHANGED tanks

ApplyAction ==
    /\ main = "simulate"
    /\ waiting # <<>>
    /\ \/ Head(waiting).kind = "Add" /\ AddTank(Head(waiting).player)
       \/ Head(waiting).kind = "Remove" /\ RemoveTank(Head(waiting).player)
    /\ UNCHANGED <<main, clientVars, incoming, kicked, kicks, known, authMessages, current>>

\* TankRemove is over; there may be no player left to remove.
TankRemoved(p) ==
    /\ main = "simulate"
    /\ p \in removing
    /\ removing' = removing \ {p}
    /\ tanks' = tanks \ {p} /\ left' = left \ {p}
    /\ UNCHANGED <<main, clientVars, incoming, kicked, kicks, known, authMessages,
                   current, waiting>>

EndSimulate ==
    /\ main = "simulate"
    /\ main' = "auth"
    /\ UNCHANGED <<clientVars, incoming, kicked, kicks, known, authMessages, current,
                   waiting, tankVars>>
-----------------------------------------------------------------------------
(***************************************************************************)
(* ServerConnectAuthHandler::processMessages.                              *)
(***************************************************************************)
\* Mutant: a request does not wait for the tanks of the one before.
NoneAdding == TRUE

Adding == \E i \in 1 .. Len(waiting) : waiting[i].kind = "Add"

\* The requests are served while no tank is on its way.
MayServe == ~Adding

EndAuth ==
    /\ main = "auth"
    /\ authMessages = <<>> \/ ~MayServe
    /\ main' = "messages"
    /\ UNCHANGED <<clientVars, incoming, kicked, kicks, known, authMessages, current,
                   waiting, tankVars>>

\* The last request is deleted, which need not be the one that was processed: a
\* kick may have recorded others.
PopBack(at) ==
    authMessages' =
        Front([i \in 1 .. Len(authMessages) |->
            IF i = at THEN [authMessages[i] EXCEPT !.deleted = TRUE] ELSE authMessages[i]])

\* One of the ids of d is also one of e; the empty id is nobody's.
SameId(d, e) ==
    \/ Unique[d] # NoId /\ Unique[d] = Unique[e]
    \/ SUI[d] # NoId /\ SUI[d] = SUI[e]

\* An id of d plays already, which only matters when the option forbids it.
Duplicate(d) ==
    ~AllowSameUniqueId /\ \E p \in tanks \ left : SameId(d, p[1])

\* Mutant: one place is enough.
AnyRoom(d) == ~Full

Room(d) == NoPlayers[d] <= NoMaxPlayers - Cardinality(tanks)

\* processMessageInternal does not accept d: it is kicked, and the kick processes
\* the messages that wait.
Reject(d) ==
    /\ \/ Full \/ d \in Refused
       \/ d \in known /\ (~Room(d) \/ Duplicate(d))
    /\ kicked' = kicked \cup {d}
    /\ main' = "kick"
    /\ current' = Len(authMessages)
    /\ UNCHANGED <<authMessages, waiting>>

\* d has left
Ignore(d) ==
    /\ ~Full /\ d \notin known
    /\ PopBack(Len(authMessages))
    /\ UNCHANGED <<main, current, kicked, waiting>>

Accept(d) ==
    /\ ~Full /\ d \in known /\ Room(d) /\ ~Duplicate(d)
    /\ waiting' = waiting \o [k \in 1 .. NoPlayers[d] |-> TankAdd(<<d, k>>)]
    /\ PopBack(Len(authMessages))
    /\ UNCHANGED <<main, current, kicked>>

\* processMessageInternal, for the last request
ProcessRequest ==
    /\ main = "auth"
    /\ authMessages # <<>> /\ MayServe
    /\ LET d == Last(authMessages).dest IN
        /\ phase' = [phase EXCEPT ![d] = "processed"]
        /\ Reject(d) \/ Ignore(d) \/ Accept(d)
    /\ UNCHANGED <<conn, incoming, kicks, known, tankVars>>

\* A request that was deleted is read: the memory may still hold it
\* (ProcessRequest), or the server is lost.
ReadDeleted ==
    /\ main = "auth"
    /\ authMessages # <<>> /\ MayServe /\ Last(authMessages).deleted
    /\ main' = "crashed"
    /\ UNCHANGED <<clientVars, incoming, kicked, kicks, known, authMessages, current,
                   waiting, tankVars>>

\* The kick returns when no message waits.
EndKick ==
    /\ main = "kick" /\ incoming = <<>>
    /\ main' = "auth"
    /\ PopBack(current)
    /\ current' = 0
    /\ UNCHANGED <<clientVars, incoming, kicked, kicks, known, waiting, tankVars>>
-----------------------------------------------------------------------------
MainLoop ==
    \/ ProcessMessage \/ EndMessages \/ EndSimulate
    \/ ProcessRequest \/ ReadDeleted \/ EndAuth \/ EndKick

Next ==
    \/ MainLoop
    \/ ApplyAction
    \/ \E p \in Players : TankRemoved(p) \/ KickPlayer(p)
    \/ \E d \in Destinations : Connects(d) \/ Closes(d) \/ Asks(d)

Spec == Init /\ [][Next]_vars

\* The main loop runs, each of its rounds may apply what is due, in the end it is,
\* and the network closes what it is told to.
Fairness ==
    /\ WF_vars(MainLoop)
    /\ SF_vars(ApplyAction)
    /\ \A p \in Players : SF_vars(TankRemoved(p))
    /\ \A d \in Destinations : WF_vars(d \in kicked /\ Closes(d))

FairSpec == Spec /\ Fairness
-----------------------------------------------------------------------------
(***************************************************************************)
(* Properties.                                                             *)
(***************************************************************************)
TypeOK ==
    /\ main \in {"messages", "simulate", "auth", "kick", "crashed"}
    /\ conn \in [Destinations -> {"out", "in", "over"}]
    /\ phase \in [Destinations ->
                    {"start", "hello", "answered", "auth", "recorded", "processed"}]
    /\ incoming \in Seq(Messages)
    /\ kicked \subseteq Destinations /\ kicks \in 0 .. MaxKicks
    /\ known \subseteq Destinations
    /\ authMessages \in Seq([dest : Destinations, deleted : BOOLEAN])
    /\ current \in 0 .. Len(authMessages)
    /\ waiting \in Seq(Actions)
    /\ tanks \subseteq Players /\ left \subseteq tanks /\ removing \subseteq Players

Coming == {p \in Players : \E i \in 1 .. Len(waiting) : waiting[i] = TankAdd(p)}

\* The players that are there and those on their way fit on the server.
NotTooMany == Cardinality(tanks \cup Coming) <= NoMaxPlayers

\* Unless the option allows it, no id plays for two destinations, whether their
\* tanks are there or on their way.  Players without an id may be any number.
NoDuplicates ==
    ~AllowSameUniqueId =>
        \A p, q \in (tanks \ left) \cup Coming : p[1] # q[1] => ~SameId(p[1], q[1])

\* A player whose destination is gone is going to be removed, whether it left
\* before or after its tank was added.
NobodyForgotten ==
    \A p \in tanks \ left :
        \/ p[1] \in known
        \/ \E i \in 1 .. Len(waiting) : waiting[i] = TankRemoveSim(p)

\* When a connection has ended its players are gone in the end, for good.
Gone(d) == \A p \in tanks \cup Coming : p[1] # d

LeaversGo ==
    \A d \in Destinations :
        <>[](conn[d] = "over" => Gone(d) \/ main = "crashed")

\* A request that was recorded stays in the list until it is processed.
RecordedIsKept ==
    \A d \in Destinations :
        phase[d] = "recorded" =>
            \E i \in 1 .. Len(authMessages) : authMessages[i] = [dest |-> d, deleted |-> FALSE]
=============================================================================
