------------------------------ MODULE NetServer ------------------------------
(***************************************************************************)
(* The server side of NetServerTCP3: the network thread, a send and a      *)
(* receive thread for each connection, and the main thread, that handles   *)
(* the incoming messages and queues the outgoing ones.  They share only    *)
(* the message queues (NetMessageHandler, under its mutex) and the flags   *)
(* stopped_ and running_; one action is one step between two accesses.     *)
(*                                                                         *)
(* Destinations are numbered in the order in which they are accepted.  A   *)
(* message is its kind and its destination, and for what the server sends, *)
(* its number.  A message that was sent is reported as a SentMessage; the  *)
(* server has no handler for those, and they are left out.                 *)
(***************************************************************************)
EXTENDS Integers, Sequences

CONSTANTS
    MaxConnections, \* bound: connections accepted
    MaxSent,        \* bound: messages to each destination
    MaxReceived,    \* bound: messages of the client of each destination
    MaxMessages,    \* bound: messages to a destination and of its client together
    MaxOutgoing,    \* bound: messages that wait in outgoingMessageHandler_
    MayKick,        \* bound: destinations the game disconnects
    MayLeave,       \* bound: destinations whose client closes or sends a bad length
    MayStall        \* destinations whose client may stall

Dests == 1 .. MaxConnections

ASSUME NetBoundsAssumption ==
    /\ MaxConnections \in Nat
    /\ MaxSent \in [Dests -> Nat] /\ MaxReceived \in [Dests -> Nat]
    /\ MaxMessages \in Nat /\ MaxOutgoing \in Nat /\ MayKick \subseteq Dests
    /\ MayLeave \subseteq Dests /\ MayStall \subseteq Dests

VARIABLES
    \* the network thread
    net,            \* where actualSendRecvFunc is
    stopped,        \* stopped_
    accepted,       \* connections accepted so far
    destinations,   \* destinations_
    finished,       \* finishedDestinations_
    deleted,        \* destinations that were deleted, their sockets closed
    \* NetServerTCP3Send
    sendStopped,    \* stopped_
    sendQueue,      \* sendMessageHandler_
    outgoingMessages,
    sendRunning,    \* running_
    \* NetServerTCP3Recv
    recv,           \* where the receive thread is; "stopped" is stopped_
    recvRunning,    \* running_
    \* the queues of the main thread
    incoming,       \* incomingMessageHandler_
    outgoing,       \* outgoingMessageHandler_
    known,          \* ServerDestinations
    sent,           \* messages the game sent to each destination
    stopping,       \* stop was called
    \* the clients
    open,           \* the client has not closed its end
    received,       \* messages of the client that were received
    delivered,      \* what was written to the socket of each client
    stalled         \* clients that stop reading, or stop inside a message

netVars == <<net, stopped, accepted, destinations, finished, deleted>>
sendVars == <<sendStopped, sendQueue, outgoingMessages, sendRunning>>
recvVars == <<recv, recvRunning>>
gameVars == <<incoming, outgoing, known, sent, stopping>>
peerVars == <<open, received, delivered, stalled>>
vars == <<netVars, sendVars, recvVars, gameVars, peerVars>>

Connect(d) == [kind |-> "Connect", dest |-> d]
Buffer(d) == [kind |-> "Buffer", dest |-> d]
Disconnect(d) == [kind |-> "Disconnect", dest |-> d]
Incoming == [kind : {"Connect", "Buffer", "Disconnect"}, dest : Dests]

\* What the game sends: a numbered message, or a disconnection with or without
\* a reason (0: none).
Data(d, n) == [kind |-> "Data", dest |-> d, n |-> n]
Kick(d, reason) == [kind |-> "Kick", dest |-> d, n |-> reason]
DisconnectAll == [kind |-> "All", dest |-> 0, n |-> 0]
ToDest == [kind : {"Data", "Kick"}, dest : Dests, n : Nat]
Outgoing == ToDest \cup {DisconnectAll}

Reason == 0     \* the disconnect reason, in what is written to a client

MoreMessages(d) == sent[d] + received[d] < MaxMessages

Has(queue, m) == \E i \in 1 .. Len(queue) : queue[i] = m

Accepted == {d \in Dests : d <= accepted}
-----------------------------------------------------------------------------
Init ==
    /\ net = "clients" /\ stopped = FALSE /\ accepted = 0
    /\ destinations = {} /\ finished = <<>> /\ deleted = {}
    /\ sendStopped = [d \in Dests |-> FALSE]
    /\ sendQueue = [d \in Dests |-> <<>>]
    /\ outgoingMessages = [d \in Dests |-> <<>>]
    /\ sendRunning = [d \in Dests |-> TRUE]
    /\ recv = [d \in Dests |-> "receive"]
    /\ recvRunning = [d \in Dests |-> TRUE]
    /\ incoming = <<>> /\ outgoing = <<>> /\ known = {}
    /\ sent = [d \in Dests |-> 0]
    /\ stopping = FALSE
    /\ open = [d \in Dests |-> TRUE]
    /\ received = [d \in Dests |-> 0]
    /\ delivered = [d \in Dests |-> <<>>]
    /\ stalled \in SUBSET MayStall
-----------------------------------------------------------------------------
(***************************************************************************)
(* The network thread.                                                     *)
(***************************************************************************)
\* Mutant: a connection is over when both its threads are.
BothFinished(d) == sendStopped[d] /\ recv[d] = "stopped"

\* Mutant: the send thread may still run.
OneFinished(d) == recv[d] = "stopped"

AnyFinished(d) == sendStopped[d] \/ recv[d] = "stopped"
AllFinished(d) == sendStopped[d] /\ recv[d] = "stopped"

\* Mutant: the game is told that another one left.
CloseNext(d, reason) ==
    /\ destinations' = destinations \ {d}
    /\ sendQueue' = [sendQueue EXCEPT ![d] = Append(@, Kick(d, reason))]
    /\ recvRunning' = [recvRunning EXCEPT ![d] = FALSE]
    /\ incoming' = Append(incoming, Disconnect(d + 1))

\* Mutant: the receive thread is not stopped.
CloseWithoutStop(d, reason) ==
    /\ destinations' = destinations \ {d}
    /\ sendQueue' = [sendQueue EXCEPT ![d] = Append(@, Kick(d, reason))]
    /\ incoming' = Append(incoming, Disconnect(d))
    /\ UNCHANGED recvRunning

\* destroyDestination, with NetServerTCP3Destination::close
Close(d, reason) ==
    /\ destinations' = destinations \ {d}
    /\ sendQueue' = [sendQueue EXCEPT ![d] = Append(@, Kick(d, reason))]
    /\ recvRunning' = [recvRunning EXCEPT ![d] = FALSE]
    /\ incoming' = Append(incoming, Disconnect(d))

DestroyDestination(d, reason) ==
    Close(d, reason) /\ finished' = Append(finished, d)

\* Of the destinations that are closing the first is deleted, when its threads
\* are over.
DeleteFirst(closing) ==
    IF closing # <<>> /\ AllFinished(Head(closing))
    THEN /\ deleted' = deleted \cup {Head(closing)}
         /\ finished' = Tail(closing)
    ELSE /\ finished' = closing
         /\ UNCHANGED deleted

\* checkClients: the first destination that has closed is destroyed
CheckClients ==
    /\ net = "clients"
    /\ net' = "connections"
    /\ \/ /\ \A d \in destinations : ~AnyFinished(d)
          /\ DeleteFirst(finished)
          /\ UNCHANGED <<destinations, sendQueue, recvRunning, incoming>>
       \/ \E d \in destinations :
            /\ AnyFinished(d)
            /\ \A c \in destinations : AnyFinished(c) => d <= c
            /\ Close(d, 0)
            /\ DeleteFirst(Append(finished, d))
    /\ UNCHANGED <<stopped, accepted, sendStopped, outgoingMessages, sendRunning,
                   recv, outgoing, known, sent, stopping, peerVars>>

\* checkNewConnections: the threads of a new destination start before the game is
\* told of it.
CheckNewConnections ==
    /\ net = "connections"
    /\ \/ /\ net' = "messages"
          /\ UNCHANGED accepted
       \/ /\ accepted < MaxConnections
          /\ accepted' = accepted + 1
          /\ net' = "announce"
    /\ UNCHANGED <<stopped, destinations, finished, deleted, sendVars, recvVars,
                   gameVars, peerVars>>

\* addDestination, when the destination has been made
AddDestination ==
    /\ net = "announce"
    /\ net' = "messages"
    /\ destinations' = destinations \cup {accepted}
    /\ incoming' = Append(incoming, Connect(accepted))
    /\ UNCHANGED <<stopped, accepted, finished, deleted, sendVars, recvVars,
                   outgoing, known, sent, stopping, peerVars>>

\* processMessage, for the messages to one destination
ProcessOutgoing ==
    /\ net = "messages"
    /\ outgoing # <<>> /\ Head(outgoing) # DisconnectAll
    /\ outgoing' = Tail(outgoing)
    /\ LET m == Head(outgoing) IN
        \/ /\ m.dest \notin destinations
           /\ UNCHANGED <<destinations, sendQueue, recvRunning, finished, incoming>>
        \/ /\ m.dest \in destinations /\ m.kind = "Kick"
           /\ DestroyDestination(m.dest, m.n)
        \/ /\ m.dest \in destinations /\ m.kind = "Data"
           /\ sendQueue' = [sendQueue EXCEPT ![m.dest] = Append(@, m)]
           /\ UNCHANGED <<destinations, recvRunning, finished, incoming>>
    /\ UNCHANGED <<net, stopped, accepted, deleted, sendStopped, outgoingMessages, sendRunning,
                   recv, known, sent, stopping, peerVars>>

\* Mutant: the connections are left as they are.
StopAtOnce ==
    /\ net = "messages"
    /\ outgoing # <<>> /\ Head(outgoing) = DisconnectAll
    /\ stopped' = TRUE
    /\ outgoing' = Tail(outgoing)
    /\ UNCHANGED <<destinations, sendQueue, recvRunning, finished, incoming>>
    /\ UNCHANGED <<net, accepted, deleted, sendStopped, outgoingMessages, sendRunning,
                   recv, known, sent, stopping, peerVars>>

\* processMessage, for DisconnectAllMessage: a loop over destinations_
ProcessDisconnectAll ==
    /\ net = "messages"
    /\ outgoing # <<>> /\ Head(outgoing) = DisconnectAll
    /\ \/ /\ destinations = {}
          /\ stopped' = TRUE
          /\ outgoing' = Tail(outgoing)
          /\ UNCHANGED <<destinations, sendQueue, recvRunning, finished, incoming>>
       \/ \E d \in destinations :
            /\ \A c \in destinations : d <= c
            /\ DestroyDestination(d, 0)
            /\ UNCHANGED <<stopped, outgoing>>
    /\ UNCHANGED <<net, accepted, deleted, sendStopped, outgoingMessages, sendRunning,
                   recv, known, sent, stopping, peerVars>>

\* There are no more messages: the loop goes on or is over.
EndOfLoop ==
    /\ net = "messages" /\ outgoing = <<>>
    /\ net' = IF stopped THEN "tidy" ELSE "clients"
    /\ UNCHANGED <<stopped, accepted, destinations, finished, deleted, sendVars,
                   recvVars, gameVars, peerVars>>

\* The loop that waits for what is closing.
Tidy ==
    /\ net = "tidy"
    /\ net' = IF finished = <<>> THEN "ended" ELSE "tidy"
    /\ DeleteFirst(finished)
    /\ UNCHANGED <<stopped, accepted, destinations, sendVars, recvVars, gameVars, peerVars>>

NetThread ==
    \/ CheckClients \/ CheckNewConnections \/ AddDestination
    \/ ProcessOutgoing \/ ProcessDisconnectAll \/ EndOfLoop \/ Tidy
-----------------------------------------------------------------------------
(***************************************************************************)
(* The send thread of a destination.                                       *)
(***************************************************************************)
\* Mutant: what is taken from the queue is sent before what waits.
NewestFirst(waiting, m) ==
    IF m.kind = "Data" THEN <<m.n>> \o waiting
    ELSE IF m.n # 0 THEN <<Reason>> ELSE <<>>

\* What is left to send when NetServerTCP3Send::processMessage has handled m.
ToSend(waiting, m) ==
    IF m.kind = "Data" THEN Append(waiting, m.n)
    ELSE IF m.n # 0 THEN <<Reason>> ELSE <<>>

\* actualSendFunc, sendMessageHandler_.processMessages: all that is queued is
\* taken before anything is sent.
SendProcess(d) ==
    /\ sendQueue[d] # <<>>
    /\ sendQueue' = [sendQueue EXCEPT ![d] = Tail(@)]
    /\ outgoingMessages' = [outgoingMessages EXCEPT ![d] = ToSend(@, Head(sendQueue[d]))]
    /\ sendRunning' = [sendRunning EXCEPT ![d] = @ /\ Head(sendQueue[d]).kind # "Kick"]
    /\ UNCHANGED <<sendStopped, delivered>>

\* actualSendFunc: the first message is sent.  That can fail when the client has
\* closed.
SendFirst(d) ==
    /\ sendQueue[d] = <<>> /\ outgoingMessages[d] # <<>>
    /\ \/ /\ delivered' = [delivered EXCEPT ![d] = Append(@, Head(outgoingMessages[d]))]
          /\ outgoingMessages' = [outgoingMessages EXCEPT ![d] = Tail(@)]
          /\ UNCHANGED sendStopped
       \/ /\ ~open[d]
          /\ sendStopped' = [sendStopped EXCEPT ![d] = TRUE]
          /\ UNCHANGED <<delivered, outgoingMessages>>
    /\ UNCHANGED <<sendQueue, sendRunning>>

\* actualSendFunc: there is nothing left to send, and there will not be
SendNothing(d) ==
    /\ sendQueue[d] = <<>> /\ outgoingMessages[d] = <<>> /\ ~sendRunning[d]
    /\ sendStopped' = [sendStopped EXCEPT ![d] = TRUE]
    /\ UNCHANGED <<sendQueue, outgoingMessages, sendRunning, delivered>>

SendThread(d) ==
    /\ d \in Accepted /\ ~sendStopped[d]
    /\ SendProcess(d) \/ SendFirst(d) \/ SendNothing(d)
    /\ UNCHANGED <<netVars, recvVars, gameVars, open, received, stalled>>

(***************************************************************************)
(* The receive thread of a destination.                                    *)
(***************************************************************************)
\* recvThreadFunc: the loop ends
RecvEnds(d) ==
    /\ recv[d] = "receive" /\ ~recvRunning[d]
    /\ recv' = [recv EXCEPT ![d] = "stopped"]
    /\ UNCHANGED <<received, incoming>>

\* actualRecvFunc: a message begins, that the client may have sent before it
\* closed, its length is not one of a message, or the connection ends
RecvFunc(d) ==
    /\ recv[d] = "receive" /\ recvRunning[d]
    /\ \/ /\ received[d] < MaxReceived[d] /\ MoreMessages(d)
          /\ received' = [received EXCEPT ![d] = @ + 1]
          /\ recv' = [recv EXCEPT ![d] = "add"]
       \/ /\ d \in MayLeave \/ ~open[d]
          /\ recv' = [recv EXCEPT ![d] = "stopped"]
          /\ UNCHANGED received
    /\ UNCHANGED incoming

\* actualRecvFunc: the message is added to the queue of the game, or its rest does
\* not come any more
RecvAdd(d) ==
    /\ recv[d] = "add"
    /\ \/ /\ recv' = [recv EXCEPT ![d] = "receive"]
          /\ incoming' = Append(incoming, Buffer(d))
       \/ /\ ~open[d]
          /\ recv' = [recv EXCEPT ![d] = "stopped"]
          /\ UNCHANGED incoming
    /\ UNCHANGED received

RecvThread(d) ==
    /\ d \in Accepted
    /\ RecvEnds(d) \/ RecvFunc(d) \/ RecvAdd(d)
    /\ UNCHANGED <<netVars, sendVars, recvRunning, outgoing, known, sent, stopping,
                   open, delivered, stalled>>
-----------------------------------------------------------------------------
(***************************************************************************)
(* The main thread.                                                        *)
(***************************************************************************)
Queue(m) == outgoing' = Append(outgoing, m)
CanQueue == Len(outgoing) < MaxOutgoing
CanKick(d) == CanQueue /\ d \in MayKick

\* Mutant: who is refused is not disconnected.
RefuseQuietly(d) ==
    /\ known' \in {known, known \cup {d}}
    /\ UNCHANGED outgoing

\* ServerMessageHandler::clientConnected: known from now on, or refused
HandleConnect(d) ==
    \/ /\ known' = known \cup {d}
       /\ UNCHANGED outgoing
    \/ /\ CanKick(d)
       /\ Queue(Kick(d, 0))
       /\ UNCHANGED known

\* Mutant: a destination that left can come back by a message of it.
HandleLate(d) ==
    /\ known' = known \cup {d}
    /\ UNCHANGED outgoing

\* A handler of ComsMessageHandler: it does not have to answer, and one that fails
\* has the destination kicked (clientError).
HandleBuffer(d) ==
    /\ UNCHANGED known
    /\ UNCHANGED outgoing \/ (CanKick(d) /\ Queue(Kick(d, 1)))

\* ServerMessageHandler::clientDisconnected
HandleDisconnect(d) ==
    /\ known' = known \ {d}
    /\ UNCHANGED outgoing

\* processMessages, one message
ProcessIncoming ==
    /\ ~stopping
    /\ incoming # <<>>
    /\ incoming' = Tail(incoming)
    /\ LET m == Head(incoming) IN
        \/ m.kind = "Connect" /\ HandleConnect(m.dest)
        \/ m.kind = "Buffer" /\ HandleBuffer(m.dest)
        \/ m.kind = "Disconnect" /\ HandleDisconnect(m.dest)
    /\ UNCHANGED <<netVars, sendVars, recvVars, sent, stopping, peerVars>>

\* sendMessageDest
SendMessage(d) ==
    /\ ~stopping /\ d \in known
    /\ sent[d] < MaxSent[d] /\ MoreMessages(d) /\ CanQueue
    /\ sent' = [sent EXCEPT ![d] = @ + 1]
    /\ Queue(Data(d, sent[d] + 1))
    /\ UNCHANGED <<netVars, sendVars, recvVars, incoming, known, stopping, peerVars>>

\* disconnectClient, with a reason
DisconnectClient(d) ==
    /\ ~stopping /\ d \in known
    /\ CanKick(d)
    /\ Queue(Kick(d, 1))
    /\ UNCHANGED <<netVars, sendVars, recvVars, incoming, known, sent, stopping, peerVars>>

\* stop: the main thread waits from now on until the network thread has ended
Stop ==
    /\ ~stopping
    /\ stopping' = TRUE
    /\ Queue(DisconnectAll)
    /\ UNCHANGED <<netVars, sendVars, recvVars, incoming, known, sent, peerVars>>

(***************************************************************************)
(* The clients.                                                            *)
(***************************************************************************)
ClientCloses(d) ==
    /\ d \in Accepted \cap MayLeave /\ open[d]
    /\ open' = [open EXCEPT ![d] = FALSE]
    /\ UNCHANGED <<netVars, sendVars, recvVars, gameVars, received, delivered, stalled>>
-----------------------------------------------------------------------------
Next ==
    \/ NetThread
    \/ ProcessIncoming
    \/ Stop
    \/ \E d \in Dests :
        \/ SendThread(d) \/ RecvThread(d)
        \/ SendMessage(d) \/ DisconnectClient(d)
        \/ ClientCloses(d)

Spec == Init /\ [][Next]_vars

\* Threads run, and the main loop handles messages.  Calls on the socket of a
\* client that stalls need not return while it is connected; nobody has to send,
\* to leave or to stop, so a receive thread may have nothing to do.
Responsive(d) == d \notin stalled \/ ~open[d]
MustRecv(d) == recv[d] = "add" \/ ~recvRunning[d] \/ ~open[d]

Fairness ==
    /\ WF_vars(NetThread)
    /\ WF_vars(ProcessIncoming)
    /\ \A d \in Dests :
        /\ WF_vars(Responsive(d) /\ SendThread(d))
        /\ WF_vars(Responsive(d) /\ MustRecv(d) /\ RecvThread(d))

FairSpec == Spec /\ Fairness
-----------------------------------------------------------------------------
(***************************************************************************)
(* Properties.                                                             *)
(***************************************************************************)
TypeOK ==
    /\ net \in {"clients", "connections", "announce", "messages", "tidy", "ended"}
    /\ stopped \in BOOLEAN /\ stopping \in BOOLEAN
    /\ accepted \in 0 .. MaxConnections
    /\ destinations \subseteq Dests /\ deleted \subseteq Dests
    /\ finished \in Seq(Dests)
    /\ sendStopped \in [Dests -> BOOLEAN]
    /\ sendQueue \in [Dests -> Seq(ToDest)]
    /\ outgoingMessages \in [Dests -> Seq(Nat)]
    /\ sendRunning \in [Dests -> BOOLEAN]
    /\ recv \in [Dests -> {"receive", "add", "stopped"}]
    /\ recvRunning \in [Dests -> BOOLEAN]
    /\ incoming \in Seq(Incoming)
    /\ outgoing \in Seq(Outgoing)
    /\ known \subseteq Dests
    /\ sent \in [Dests -> Nat]
    /\ open \in [Dests -> BOOLEAN]
    /\ received \in [Dests -> Nat]
    /\ delivered \in [Dests -> Seq(Nat)]
    /\ stalled \subseteq MayStall

\* A destination the game knows is connected, or the message that it is not is on
\* its way; so is that of one the game is about to hear of.  A late message of a
\* receive thread never brings back who left.
GameHearsOfLeaving ==
    /\ \A d \in known : d \in destinations \/ Has(incoming, Disconnect(d))
    /\ \A i \in 1 .. Len(incoming) :
        incoming[i].kind = "Connect" =>
            \/ incoming[i].dest \in destinations
            \/ \E j \in i + 1 .. Len(incoming) : incoming[j] = Disconnect(incoming[i].dest)

\* No connection is left that the game does not know: it knows it, is going to be
\* told of it, or has refused it.
NoGhostConnection ==
    \A d \in destinations :
        \/ d \in known
        \/ Has(incoming, Connect(d))
        \/ \E n \in {0, 1} : Has(outgoing, Kick(d, n))

\* No thread uses the socket or the object of a destination that was deleted.
DeletedIsOver ==
    \A d \in deleted :
        /\ sendStopped[d] /\ recv[d] = "stopped"
        /\ d \notin destinations /\ ~Has(finished, d)

\* A client gets the messages in the order in which they were sent, and nothing
\* after the reason of its disconnection, whatever waited in the queues then.
DeliveredInOrder ==
    \A d \in Dests : \A i, j \in 1 .. Len(delivered[d]) :
        i < j => /\ delivered[d][i] # Reason
                 /\ delivered[d][j] = Reason \/ delivered[d][i] < delivered[d][j]

\* When a client has left, or its receive thread has ended because it sent a bad
\* length, the game forgets it, unless the server stops first.
LeavingIsNoticed ==
    \A d \in MayLeave :
        (d \in known /\ (~open[d] \/ recv[d] = "stopped")) ~> (d \notin known \/ stopping)

\* A destination that is closing is deleted when nobody who is closing before it
\* has stalled.
Before(d) == {finished[i] : i \in {j \in 1 .. Len(finished) :
                \E k \in j .. Len(finished) : finished[k] = d}}

ClosingIsDeleted ==
    \A d \in Dests :
        (Has(finished, d) /\ Before(d) \cap stalled = {}) ~> d \in deleted

\* stop returns, with every connection closed.
StopReturns ==
    (stopping /\ stalled = {}) ~> (net = "ended" /\ destinations = {} /\ finished = <<>>)
=============================================================================
