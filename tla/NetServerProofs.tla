--------------------------- MODULE NetServerProofs ---------------------------
(***************************************************************************)
(* Proofs about NetServer, for any number of connections and any bounds.   *)
(***************************************************************************)
EXTENDS NetServer, SequenceTheorems, TLAPS

-----------------------------------------------------------------------------
(* What the actions do to queues. *)

\* A queue to which a message is added: its old messages stay where they are.
LEMMA Appended ==
    ASSUME NEW S, NEW q \in Seq(S), NEW x \in S
    PROVE  /\ Append(q, x) \in Seq(S)
           /\ Len(q) \in Nat
           /\ Len(Append(q, x)) = Len(q) + 1
           /\ \A i \in 1 .. Len(q) : Append(q, x)[i] = q[i]
           /\ Append(q, x)[Len(q) + 1] = x
OBVIOUS

\* A queue whose first message is taken: the others move up by one place.
LEMMA Taken ==
    ASSUME NEW S, NEW q \in Seq(S), q # <<>>
    PROVE  /\ Tail(q) \in Seq(S)
           /\ Len(q) \in Nat /\ Len(q) >= 1
           /\ Len(Tail(q)) = Len(q) - 1
           /\ \A i \in 1 .. Len(q) - 1 : Tail(q)[i] = q[i + 1]
           /\ Head(q) = q[1] /\ Head(q) \in S
OBVIOUS
-----------------------------------------------------------------------------
(* The types. *)

\* While a destination is announced it has been accepted.
TypeInv ==
    /\ TypeOK
    /\ net = "announce" => accepted \in Dests

\* A message of the kinds the network thread adds for a destination is of the
\* types of the queues it goes to.
LEMMA MessageTypes ==
    ASSUME NEW d \in Dests, NEW n \in Nat
    PROVE  /\ Connect(d) \in Incoming /\ Buffer(d) \in Incoming
           /\ Disconnect(d) \in Incoming
           /\ Kick(d, n) \in ToDest /\ Data(d, n) \in ToDest
           /\ ToDest \subseteq Outgoing /\ DisconnectAll \in Outgoing
           /\ \A m \in Outgoing : m # DisconnectAll => m \in ToDest
           /\ \A m \in ToDest : m # DisconnectAll
BY DEF Connect, Buffer, Disconnect, Incoming, Kick, Data, ToDest, Outgoing,
       DisconnectAll

\* What closing a destination does keeps the types.
LEMMA CloseTypes ==
    ASSUME TypeOK, NEW d \in destinations, NEW n \in Nat, Close(d, n)
    PROVE  /\ (destinations \subseteq Dests)' /\ (incoming \in Seq(Incoming))'
           /\ (sendQueue \in [Dests -> Seq(ToDest)])'
           /\ (recvRunning \in [Dests -> BOOLEAN])'
<1>1. d \in Dests
  BY DEF TypeOK
<1>2. Kick(d, n) \in ToDest /\ Disconnect(d) \in Incoming
  BY <1>1, MessageTypes
<1>3. Append(sendQueue[d], Kick(d, n)) \in Seq(ToDest)
  BY <1>1, <1>2, Appended DEF TypeOK
<1>4. Append(incoming, Disconnect(d)) \in Seq(Incoming)
  BY <1>2, Appended DEF TypeOK
<1> QED
  BY <1>1, <1>3, <1>4 DEF TypeOK, Close

LEMMA DestroyTypes ==
    ASSUME TypeOK, NEW d \in destinations, NEW n \in Nat, DestroyDestination(d, n)
    PROVE  /\ (destinations \subseteq Dests)' /\ (incoming \in Seq(Incoming))'
           /\ (sendQueue \in [Dests -> Seq(ToDest)])'
           /\ (recvRunning \in [Dests -> BOOLEAN])'
           /\ (finished \in Seq(Dests))'
<1>1. Close(d, n) /\ finished' = Append(finished, d)
  BY DEF DestroyDestination
<1>2. d \in Dests /\ finished \in Seq(Dests)
  BY DEF TypeOK
<1>3. finished' \in Seq(Dests)
  BY <1>1, <1>2, Appended
<1> QED
  BY <1>1, <1>3, CloseTypes

\* Deleting the first of those that are closing keeps the types.
LEMMA DeleteFirstTypes ==
    ASSUME TypeOK, NEW closing \in Seq(Dests), DeleteFirst(closing)
    PROVE  /\ (deleted \subseteq Dests)' /\ (finished \in Seq(Dests))'
<1>1. CASE closing # <<>> /\ AllFinished(Head(closing))
  <2>1. Head(closing) \in Dests /\ Tail(closing) \in Seq(Dests)
    BY <1>1, Taken
  <2> QED
    BY <1>1, <2>1 DEF TypeOK, DeleteFirst
<1>2. CASE ~(closing # <<>> /\ AllFinished(Head(closing)))
  BY <1>2 DEF TypeOK, DeleteFirst
<1> QED
  BY <1>1, <1>2

LEMMA NetThreadTypes ==
    ASSUME TypeInv, NetThread
    PROVE  TypeInv'
<1> USE DEF TypeInv
<1>1. CASE CheckClients
  <2>1. PICK closing \in Seq(Dests) : DeleteFirst(closing)
    <3>1. CASE DeleteFirst(finished)
      BY <3>1 DEF TypeOK
    <3>2. CASE \E d \in destinations : DeleteFirst(Append(finished, d))
      BY <3>2, Appended DEF TypeOK
    <3> QED
      BY <1>1, <3>1, <3>2 DEF CheckClients
  <2>2. (deleted \subseteq Dests)' /\ (finished \in Seq(Dests))'
    BY <2>1, DeleteFirstTypes
  <2>3. /\ (destinations \subseteq Dests)' /\ (incoming \in Seq(Incoming))'
        /\ (sendQueue \in [Dests -> Seq(ToDest)])'
        /\ (recvRunning \in [Dests -> BOOLEAN])'
    <3>1. CASE UNCHANGED <<destinations, sendQueue, recvRunning, incoming>>
      BY <3>1 DEF TypeOK
    <3>2. CASE \E d \in destinations : Close(d, 0)
      BY <3>2, CloseTypes
    <3> QED
      BY <1>1, <3>1, <3>2 DEF CheckClients
  <2>4. net' = "connections"
    BY <1>1 DEF CheckClients
  <2>5. UNCHANGED <<stopped, accepted, sendStopped, outgoingMessages, sendRunning,
                    recv, outgoing, known, sent, stopping, open, received, delivered,
                    stalled>>
    BY <1>1 DEF CheckClients, peerVars
  <2> QED
    BY <2>2, <2>3, <2>4, <2>5 DEF TypeOK
<1>2. CASE CheckNewConnections
  <2>1. net' \in {"messages", "announce"}
    BY <1>2 DEF CheckNewConnections
  <2>2. accepted' \in 0 .. MaxConnections /\ (net' = "announce" => accepted' \in Dests)
    <3>1. accepted \in 0 .. MaxConnections /\ MaxConnections \in Nat
      BY NetBoundsAssumption DEF TypeOK
    <3>2. \/ net' = "messages" /\ accepted' = accepted
          \/ accepted < MaxConnections /\ accepted' = accepted + 1
      BY <1>2 DEF CheckNewConnections
    <3>3. net' = "messages" => net' # "announce"
      OBVIOUS
    <3> HIDE DEF TypeInv
    <3> QED
      BY <3>1, <3>2, <3>3 DEF Dests
  <2>3. UNCHANGED <<stopped, destinations, finished, deleted, sendStopped, sendQueue,
                    outgoingMessages, sendRunning, recv, recvRunning, incoming, outgoing,
                    known, sent, stopping, open, received, delivered, stalled>>
    BY <1>2 DEF CheckNewConnections, sendVars, recvVars, gameVars, peerVars
  <2> QED
    BY <2>1, <2>2, <2>3 DEF TypeOK
<1>3. CASE AddDestination
  <2>1. accepted \in Dests
    BY <1>3 DEF AddDestination
  <2>2. Append(incoming, Connect(accepted)) \in Seq(Incoming)
    BY <2>1, MessageTypes, Appended DEF TypeOK
  <2>3. UNCHANGED <<stopped, accepted, finished, deleted, sendStopped, sendQueue,
                    outgoingMessages, sendRunning, recv, recvRunning, outgoing, known, sent,
                    stopping, open, received, delivered, stalled>>
    BY <1>3 DEF AddDestination, sendVars, recvVars, peerVars
  <2>4. net' = "messages" /\ (destinations \subseteq Dests)' /\ (incoming \in Seq(Incoming))'
    BY <1>3, <2>1, <2>2 DEF AddDestination, TypeOK
  <2> QED
    BY <2>3, <2>4 DEF TypeOK
<1>4. CASE ProcessOutgoing
  <2>0. outgoing \in Seq(Outgoing) /\ outgoing # <<>> /\ Head(outgoing) # DisconnectAll
    BY <1>4 DEF ProcessOutgoing, TypeOK
  <2>1. Tail(outgoing) \in Seq(Outgoing) /\ Head(outgoing) \in ToDest
    BY <2>0, Taken DEF Outgoing
  <2>2. /\ (destinations \subseteq Dests)' /\ (incoming \in Seq(Incoming))'
        /\ (sendQueue \in [Dests -> Seq(ToDest)])'
        /\ (recvRunning \in [Dests -> BOOLEAN])'
        /\ (finished \in Seq(Dests))'
    <3>1. CASE UNCHANGED <<destinations, sendQueue, recvRunning, finished, incoming>>
      BY <3>1 DEF TypeOK
    <3>2. CASE \E d \in destinations, n \in Nat : DestroyDestination(d, n)
      BY <3>2, DestroyTypes
    <3>3. CASE /\ sendQueue' = [sendQueue EXCEPT ![Head(outgoing).dest] =
                                  Append(@, Head(outgoing))]
               /\ UNCHANGED <<destinations, recvRunning, finished, incoming>>
      BY <3>3, <2>1, Appended DEF TypeOK, ToDest
    <3> QED
      BY <1>4, <2>1, <3>1, <3>2, <3>3 DEF ProcessOutgoing, ToDest
  <2> QED
    BY <1>4, <2>1, <2>2 DEF TypeOK, ProcessOutgoing, peerVars
<1>5. CASE ProcessDisconnectAll
  <2>1. Tail(outgoing) \in Seq(Outgoing)
    BY <1>5, Taken DEF ProcessDisconnectAll, TypeOK
  <2>2. /\ (destinations \subseteq Dests)' /\ (incoming \in Seq(Incoming))'
        /\ (sendQueue \in [Dests -> Seq(ToDest)])'
        /\ (recvRunning \in [Dests -> BOOLEAN])'
        /\ (finished \in Seq(Dests))'
    <3>1. CASE UNCHANGED <<destinations, sendQueue, recvRunning, finished, incoming>>
      BY <3>1 DEF TypeOK
    <3>2. CASE \E d \in destinations : DestroyDestination(d, 0)
      BY <3>2, DestroyTypes
    <3> QED
      BY <1>5, <3>1, <3>2 DEF ProcessDisconnectAll
  <2> QED
    BY <1>5, <2>1, <2>2 DEF TypeOK, ProcessDisconnectAll, peerVars
<1>6. CASE EndOfLoop
  BY <1>6 DEF TypeOK, EndOfLoop, sendVars, recvVars, gameVars, peerVars
<1>7. CASE Tidy
  <2>1. (deleted \subseteq Dests)' /\ (finished \in Seq(Dests))'
    BY <1>7, DeleteFirstTypes DEF Tidy, TypeOK
  <2> QED
    BY <1>7, <2>1 DEF TypeOK, Tidy, sendVars, recvVars, gameVars, peerVars
<1> QED
  BY <1>1, <1>2, <1>3, <1>4, <1>5, <1>6, <1>7 DEF NetThread

LEMMA SendThreadTypes ==
    ASSUME TypeInv, NEW d \in Dests, SendThread(d)
    PROVE  TypeInv'
<1> USE DEF TypeInv
<1>1. UNCHANGED <<net, stopped, accepted, destinations, finished, deleted, recv,
                  recvRunning, incoming, outgoing, known, sent, stopping, open, received,
                  stalled>>
  BY DEF SendThread, netVars, recvVars, gameVars
<1>2. /\ (sendStopped \in [Dests -> BOOLEAN])'
      /\ (sendQueue \in [Dests -> Seq(ToDest)])'
      /\ (outgoingMessages \in [Dests -> Seq(Nat)])'
      /\ (sendRunning \in [Dests -> BOOLEAN])'
      /\ (delivered \in [Dests -> Seq(Nat)])'
  <2>1. CASE SendProcess(d)
    <3>1. Head(sendQueue[d]) \in ToDest /\ Tail(sendQueue[d]) \in Seq(ToDest)
      BY <2>1, Taken DEF SendProcess, TypeOK
    <3>2. ToSend(outgoingMessages[d], Head(sendQueue[d])) \in Seq(Nat)
      <4>1. outgoingMessages[d] \in Seq(Nat) /\ Head(sendQueue[d]).n \in Nat
        BY <3>1 DEF ToDest, TypeOK
      <4>2. Append(outgoingMessages[d], Head(sendQueue[d]).n) \in Seq(Nat)
        BY <4>1, Appended
      <4>3. <<Reason>> \in Seq(Nat) /\ <<>> \in Seq(Nat)
        BY DEF Reason
      <4> QED
        BY <4>2, <4>3 DEF ToSend
    <3>3. (sendRunning[d] /\ Head(sendQueue[d]).kind # "Kick") \in BOOLEAN
      OBVIOUS
    <3> QED
      BY <2>1, <3>1, <3>2, <3>3 DEF SendProcess, TypeOK
  <2>2. CASE SendFirst(d)
    <3>1. Head(outgoingMessages[d]) \in Nat /\ Tail(outgoingMessages[d]) \in Seq(Nat)
      BY <2>2, Taken DEF SendFirst, TypeOK
    <3>2. Append(delivered[d], Head(outgoingMessages[d])) \in Seq(Nat)
      BY <3>1, Appended DEF TypeOK
    <3>3. /\ \/ outgoingMessages' = outgoingMessages
             \/ outgoingMessages' = [outgoingMessages EXCEPT ![d] = Tail(@)]
          /\ \/ delivered' = delivered
             \/ delivered' = [delivered EXCEPT ![d] = Append(@, Head(outgoingMessages[d]))]
          /\ \/ sendStopped' = sendStopped
             \/ sendStopped' = [sendStopped EXCEPT ![d] = TRUE]
          /\ UNCHANGED <<sendQueue, sendRunning>>
      BY <2>2 DEF SendFirst
    <3>4. /\ (sendStopped \in [Dests -> BOOLEAN])'
          /\ (sendQueue \in [Dests -> Seq(ToDest)])'
          /\ (sendRunning \in [Dests -> BOOLEAN])'
      BY <3>3 DEF TypeOK
    <3>5. (outgoingMessages \in [Dests -> Seq(Nat)])'
      BY <3>1, <3>3 DEF TypeOK
    <3>6. (delivered \in [Dests -> Seq(Nat)])'
      BY <3>2, <3>3 DEF TypeOK
    <3> QED
      BY <3>4, <3>5, <3>6
  <2>3. CASE SendNothing(d)
    BY <2>3 DEF SendNothing, TypeOK
  <2> QED
    BY <2>1, <2>2, <2>3 DEF SendThread
<1> QED
  BY <1>1, <1>2 DEF TypeOK

LEMMA RecvThreadTypes ==
    ASSUME TypeInv, NEW d \in Dests, RecvThread(d)
    PROVE  TypeInv'
<1> USE DEF TypeInv
<1>1. UNCHANGED <<net, stopped, accepted, destinations, finished, deleted, sendStopped,
                  sendQueue, outgoingMessages, sendRunning, recvRunning, outgoing, known,
                  sent, stopping, open, delivered, stalled>>
  BY DEF RecvThread, netVars, sendVars
<1>2. Append(incoming, Buffer(d)) \in Seq(Incoming)
  BY MessageTypes, Appended DEF TypeOK
<1>3. /\ (recv \in [Dests -> {"receive", "add", "stopped"}])'
      /\ (received \in [Dests -> Nat])'
      /\ (incoming \in Seq(Incoming))'
  <2>1. CASE RecvEnds(d)
    BY <2>1 DEF RecvEnds, TypeOK
  <2>2. CASE RecvFunc(d)
    <3>1. /\ received[d] + 1 \in Nat /\ received \in [Dests -> Nat]
          /\ recv \in [Dests -> {"receive", "add", "stopped"}]
          /\ incoming \in Seq(Incoming)
      BY DEF TypeOK
    <3>2. /\ received' \in {received, [received EXCEPT ![d] = @ + 1]}
          /\ \E x \in {"add", "stopped"} : recv' = [recv EXCEPT ![d] = x]
          /\ incoming' = incoming
      BY <2>2 DEF RecvFunc
    <3> QED
      BY <3>1, <3>2
  <2>3. CASE RecvAdd(d)
    BY <2>3, <1>2 DEF RecvAdd, TypeOK
  <2> QED
    BY <2>1, <2>2, <2>3 DEF RecvThread
<1> QED
  BY <1>1, <1>3 DEF TypeOK

LEMMA GameTypes ==
    ASSUME TypeInv,
           \/ ProcessIncoming \/ Stop
           \/ \E d \in Dests : SendMessage(d) \/ DisconnectClient(d) \/ ClientCloses(d)
    PROVE  TypeInv'
<1> USE DEF TypeInv
<1>1. CASE ProcessIncoming
  <2>0. Tail(incoming) \in Seq(Incoming) /\ Head(incoming) \in Incoming
    BY <1>1, Taken DEF ProcessIncoming, TypeOK
  <2>1. Tail(incoming) \in Seq(Incoming) /\ Head(incoming).dest \in Dests
    BY <2>0 DEF Incoming
  <2>2. \A d \in Dests, n \in Nat : Append(outgoing, Kick(d, n)) \in Seq(Outgoing)
    BY MessageTypes, Appended DEF TypeOK
  <2> DEFINE d == Head(incoming).dest
  <2>3. HandleConnect(d) \/ HandleBuffer(d) \/ HandleDisconnect(d)
    BY <1>1 DEF ProcessIncoming
  <2>4. known' \subseteq known \cup {d}
    BY <2>3 DEF HandleConnect, HandleBuffer, HandleDisconnect
  <2>5. \/ outgoing' = outgoing
        \/ \E n \in {0, 1} : outgoing' = Append(outgoing, Kick(d, n))
    BY <2>3 DEF HandleConnect, HandleBuffer, HandleDisconnect, Queue
  <2>6. (known \subseteq Dests)' /\ (outgoing \in Seq(Outgoing))'
    <3>1. known \subseteq Dests /\ outgoing \in Seq(Outgoing)
      BY DEF TypeOK
    <3>2. known' \subseteq Dests
      BY <3>1, <2>1, <2>4
    <3>3. outgoing' \in Seq(Outgoing)
      BY <3>1, <2>1, <2>2, <2>5
    <3> QED
      BY <3>2, <3>3
  <2>7. UNCHANGED <<net, stopped, accepted, destinations, finished, deleted, sendStopped,
                    sendQueue, outgoingMessages, sendRunning, recv, recvRunning, sent,
                    stopping, open, received, delivered, stalled>>
    BY <1>1 DEF ProcessIncoming, netVars, sendVars, recvVars, peerVars
  <2>8. incoming' = Tail(incoming)
    BY <1>1 DEF ProcessIncoming
  <2> QED
    BY <2>1, <2>6, <2>7, <2>8 DEF TypeOK
<1>2. CASE Stop
  <2>1. Append(outgoing, DisconnectAll) \in Seq(Outgoing)
    BY Appended DEF TypeOK, Outgoing
  <2> QED
    BY <1>2, <2>1 DEF Stop, Queue, TypeOK, netVars, sendVars, recvVars, peerVars
<1>3. ASSUME NEW d \in Dests, SendMessage(d) PROVE TypeInv'
  <2>1. sent[d] + 1 \in Nat
    BY DEF TypeOK
  <2>2. Append(outgoing, Data(d, sent[d] + 1)) \in Seq(Outgoing)
    BY <2>1, MessageTypes, Appended DEF TypeOK
  <2> QED
    BY <1>3, <2>1, <2>2 DEF SendMessage, Queue, TypeOK, netVars, sendVars, recvVars, peerVars
<1>4. ASSUME NEW d \in Dests, DisconnectClient(d) PROVE TypeInv'
  <2>1. Append(outgoing, Kick(d, 1)) \in Seq(Outgoing)
    BY MessageTypes, Appended DEF TypeOK
  <2> QED
    BY <1>4, <2>1 DEF DisconnectClient, Queue, TypeOK, netVars, sendVars, recvVars, peerVars
<1>5. ASSUME NEW d \in Dests, ClientCloses(d) PROVE TypeInv'
  BY <1>5 DEF ClientCloses, TypeOK, netVars, sendVars, recvVars, gameVars
<1> QED
  BY <1>1, <1>2, <1>3, <1>4, <1>5

LEMMA InitTypes == Init => TypeInv
<1> SUFFICES ASSUME Init PROVE TypeInv
  OBVIOUS
<1>1. accepted \in 0 .. MaxConnections
  BY NetBoundsAssumption DEF Init
<1>2. finished \in Seq(Dests) /\ incoming \in Seq(Incoming) /\ outgoing \in Seq(Outgoing)
  BY DEF Init
<1>3. /\ sendQueue \in [Dests -> Seq(ToDest)]
      /\ outgoingMessages \in [Dests -> Seq(Nat)]
      /\ delivered \in [Dests -> Seq(Nat)]
  BY DEF Init
<1>4. net = "clients" /\ stalled \subseteq MayStall
  BY DEF Init
<1> QED
  BY <1>1, <1>2, <1>3, <1>4 DEF Init, TypeInv, TypeOK

LEMMA NextTypes == TypeInv /\ [Next]_vars => TypeInv'
<1> SUFFICES ASSUME TypeInv, [Next]_vars PROVE TypeInv'
  OBVIOUS
<1>1. CASE NetThread
  BY <1>1, NetThreadTypes
<1>2. CASE \/ ProcessIncoming \/ Stop
           \/ \E d \in Dests : SendMessage(d) \/ DisconnectClient(d) \/ ClientCloses(d)
  BY <1>2, GameTypes
<1>3. ASSUME NEW d \in Dests, SendThread(d) PROVE TypeInv'
  BY <1>3, SendThreadTypes
<1>4. ASSUME NEW d \in Dests, RecvThread(d) PROVE TypeInv'
  BY <1>4, RecvThreadTypes
<1>5. CASE UNCHANGED vars
  BY <1>5 DEF TypeInv, TypeOK, vars, netVars, sendVars, recvVars, gameVars, peerVars
<1> QED
  BY <1>1, <1>2, <1>3, <1>4, <1>5 DEF Next

\* Every variable of the threads, the queues and the clients keeps its type.
THEOREM TypeCorrect == Spec => []TypeOK
<1>1. TypeInv => TypeOK
  BY DEF TypeInv
<1> QED
  BY <1>1, InitTypes, NextTypes, PTL DEF Spec
-----------------------------------------------------------------------------
(* The life of a destination: announced, connected, closing, deleted. *)

\* The destinations the network thread has told the game of.
Announced == {d \in Accepted : ~(net = "announce" /\ d = accepted)}

\* Of the destinations in A some are connected, some wait in a queue to be deleted,
\* each once, some are deleted, and none is two of these.
Lives(A, connected, closing, gone) ==
    /\ connected \subseteq A /\ gone \subseteq A /\ connected \cap gone = {}
    /\ \A i \in 1 .. Len(closing) :
        closing[i] \in A /\ closing[i] \notin connected /\ closing[i] \notin gone
    /\ \A i, j \in 1 .. Len(closing) : closing[i] = closing[j] => i = j

LEMMA LifeBegins ==
    ASSUME NEW A, NEW connected, NEW closing, NEW gone, NEW d,
           Lives(A, connected, closing, gone), d \notin A
    PROVE  Lives(A \cup {d}, connected \cup {d}, closing, gone)
BY DEF Lives

LEMMA LifeCloses ==
    ASSUME NEW A \in SUBSET Dests, NEW connected, NEW closing \in Seq(Dests), NEW gone,
           NEW d \in connected, Lives(A, connected, closing, gone)
    PROVE  Lives(A, connected \ {d}, Append(closing, d), gone)
<1>1. d \in Dests
  BY DEF Lives
<1>2. /\ Len(closing) \in Nat /\ Len(Append(closing, d)) = Len(closing) + 1
      /\ \A i \in 1 .. Len(closing) : Append(closing, d)[i] = closing[i]
      /\ Append(closing, d)[Len(closing) + 1] = d
  BY <1>1, Appended
<1>3. \A i \in 1 .. Len(closing) : closing[i] # d
  BY DEF Lives
<1>4. \A i \in 1 .. Len(closing) + 1 : i \in 1 .. Len(closing) \/ i = Len(closing) + 1
  BY <1>2
<1> QED
  BY <1>2, <1>3, <1>4 DEF Lives

LEMMA LifeEnds ==
    ASSUME NEW A \in SUBSET Dests, NEW connected, NEW closing \in Seq(Dests), NEW gone,
           closing # <<>>, Lives(A, connected, closing, gone)
    PROVE  Lives(A, connected, Tail(closing), gone \cup {Head(closing)})
<1>1. /\ Len(closing) \in Nat /\ Len(closing) >= 1
      /\ Len(Tail(closing)) = Len(closing) - 1
      /\ \A i \in 1 .. Len(closing) - 1 : Tail(closing)[i] = closing[i + 1]
      /\ Head(closing) = closing[1]
  BY Taken
<1>2. 1 \in 1 .. Len(closing)
      /\ \A i \in 1 .. Len(closing) - 1 : i + 1 \in 1 .. Len(closing) /\ i + 1 # 1
  BY <1>1
<1>3. \A i, j \in 1 .. Len(closing) - 1 : i + 1 = j + 1 => i = j
  BY <1>1
<1> QED
  BY <1>1, <1>2, <1>3 DEF Lives

\* The destinations keep to their lives, and the threads of those that were deleted
\* are over.
LivesInv ==
    /\ Lives(Announced, destinations, finished, deleted)
    /\ \A d \in deleted : sendStopped[d] /\ recv[d] = "stopped"

LEMMA AnnouncedType == Announced \in SUBSET Dests
BY DEF Announced, Accepted

\* What the loop of destinations that are closing does to their lives.
LEMMA DeleteFirstLives ==
    ASSUME NEW A \in SUBSET Dests, NEW connected, NEW closing \in Seq(Dests),
           Lives(A, connected, closing, deleted), DeleteFirst(closing),
           \A d \in deleted : sendStopped[d] /\ recv[d] = "stopped"
    PROVE  /\ Lives(A, connected, finished', deleted')
           /\ \A d \in deleted' : sendStopped[d] /\ recv[d] = "stopped"
<1>1. CASE closing # <<>> /\ AllFinished(Head(closing))
  <2>1. deleted' = deleted \cup {Head(closing)} /\ finished' = Tail(closing)
    BY <1>1 DEF DeleteFirst
  <2>2. Lives(A, connected, finished', deleted')
    BY <1>1, <2>1, LifeEnds
  <2>3. sendStopped[Head(closing)] /\ recv[Head(closing)] = "stopped"
    BY <1>1 DEF AllFinished
  <2> QED
    BY <2>1, <2>2, <2>3
<1>2. CASE ~(closing # <<>> /\ AllFinished(Head(closing)))
  BY <1>2 DEF DeleteFirst
<1> QED
  BY <1>1, <1>2

\* Steps of the other threads leave the destinations where they are, and a thread
\* that is over stays so.
LEMMA OtherLives ==
    ASSUME LivesInv, UNCHANGED netVars,
           \A d \in deleted : (sendStopped[d] => sendStopped'[d])
                              /\ (recv[d] = "stopped" => recv'[d] = "stopped")
    PROVE  LivesInv'
<1>1. Announced' = Announced
  BY DEF netVars, Announced, Accepted
<1> QED
  BY <1>1 DEF LivesInv, netVars

LEMMA NetThreadLives ==
    ASSUME TypeInv, LivesInv, NetThread
    PROVE  LivesInv'
<1> DEFINE A == Announced
<1>1. A \in SUBSET Dests /\ finished \in Seq(Dests) /\ destinations \subseteq Dests
  BY AnnouncedType DEF TypeInv, TypeOK
<1>2. Lives(A, destinations, finished, deleted)
  BY DEF LivesInv
<1>3. \A d \in deleted : sendStopped[d] /\ recv[d] = "stopped"
  BY DEF LivesInv
<1>4. UNCHANGED <<sendStopped, recv>>
  BY DEF NetThread, CheckClients, CheckNewConnections, AddDestination, ProcessOutgoing,
         ProcessDisconnectAll, EndOfLoop, Tidy, sendVars, recvVars
<1>5. \A d \in destinations, n \in Nat :
        DestroyDestination(d, n) => Lives(A, destinations', finished', deleted)
  BY <1>1, <1>2, LifeCloses DEF DestroyDestination, Close
<1> HIDE DEF A
<1>6. CASE CheckClients
  <2>1. A' = A
    BY <1>6 DEF CheckClients, A, Announced, Accepted
  <2>2. CASE DeleteFirst(finished) /\ UNCHANGED destinations
    BY <1>1, <1>2, <1>3, <1>4, <2>1, <2>2, DeleteFirstLives DEF LivesInv, A
  <2>3. CASE \E d \in destinations : Close(d, 0) /\ DeleteFirst(Append(finished, d))
    <3>1. PICK d \in destinations : Close(d, 0) /\ DeleteFirst(Append(finished, d))
      BY <2>3
    <3>2. Lives(A, destinations', Append(finished, d), deleted)
      BY <1>1, <1>2, <3>1, LifeCloses DEF Close
    <3>3. Append(finished, d) \in Seq(Dests)
      BY <1>1, Appended
    <3> QED
      BY <1>1, <1>3, <1>4, <2>1, <3>1, <3>2, <3>3, DeleteFirstLives DEF LivesInv, A
  <2> QED
    BY <1>6, <2>2, <2>3 DEF CheckClients
<1>7. CASE CheckNewConnections
  <2>1. accepted \in Int
    BY DEF TypeInv, TypeOK
  <2>2. A' = A
    BY <1>7, <2>1 DEF CheckNewConnections, A, Announced, Accepted, Dests
  <2> QED
    BY <1>2, <1>3, <1>4, <1>7, <2>2 DEF CheckNewConnections, LivesInv, A
<1>8. CASE AddDestination
  <2>1. accepted \in Dests /\ accepted \in Int
    BY <1>8 DEF AddDestination, TypeInv, TypeOK
  <2>2. accepted \notin A /\ A' = A \cup {accepted}
    BY <1>8, <2>1 DEF AddDestination, A, Announced, Accepted, Dests
  <2> QED
    BY <1>2, <1>3, <1>4, <1>8, <2>2, LifeBegins DEF AddDestination, LivesInv, A
<1>9. CASE ProcessOutgoing
  <2>1. A' = A /\ UNCHANGED deleted
    BY <1>9 DEF ProcessOutgoing, A, Announced, Accepted
  <2>2. Head(outgoing).n \in Nat
    <3>1. outgoing \in Seq(Outgoing) /\ outgoing # <<>> /\ Head(outgoing) # DisconnectAll
      BY <1>9 DEF ProcessOutgoing, TypeInv, TypeOK
    <3>2. Head(outgoing) \in ToDest
      BY <3>1, Taken DEF Outgoing
    <3> QED
      BY <3>2 DEF ToDest
  <2>3. \/ UNCHANGED <<destinations, finished>>
        \/ \E d \in destinations, n \in Nat : DestroyDestination(d, n)
    BY <1>9, <2>2 DEF ProcessOutgoing
  <2>4. Lives(A, destinations', finished', deleted)
    BY <1>2, <1>5, <2>3
  <2> QED
    BY <1>3, <1>4, <2>1, <2>4 DEF LivesInv, A
<1>10. CASE ProcessDisconnectAll
  <2>1. A' = A /\ UNCHANGED deleted
    BY <1>10 DEF ProcessDisconnectAll, A, Announced, Accepted
  <2>2. \/ UNCHANGED <<destinations, finished>>
        \/ \E d \in destinations, n \in Nat : DestroyDestination(d, n)
    BY <1>10 DEF ProcessDisconnectAll
  <2>3. Lives(A, destinations', finished', deleted)
    BY <1>2, <1>5, <2>2
  <2> QED
    BY <1>3, <1>4, <2>1, <2>3 DEF LivesInv, A
<1>11. CASE EndOfLoop
  <2>1. A' = A
    BY <1>11 DEF EndOfLoop, A, Announced, Accepted
  <2> QED
    BY <1>2, <1>3, <1>4, <1>11, <2>1 DEF EndOfLoop, LivesInv, A
<1>12. CASE Tidy
  <2>1. A' = A /\ UNCHANGED destinations /\ DeleteFirst(finished)
    BY <1>12 DEF Tidy, A, Announced, Accepted
  <2> QED
    BY <1>1, <1>2, <1>3, <1>4, <2>1, DeleteFirstLives DEF LivesInv, A
<1> QED
  BY <1>6, <1>7, <1>8, <1>9, <1>10, <1>11, <1>12 DEF NetThread

LEMMA NextLives == TypeInv /\ LivesInv /\ [Next]_vars => LivesInv'
<1> SUFFICES ASSUME TypeInv, LivesInv, [Next]_vars PROVE LivesInv'
  OBVIOUS
<1>1. CASE NetThread
  BY <1>1, NetThreadLives
<1>2. CASE UNCHANGED <<netVars, sendStopped, recv>>
  BY <1>2, OtherLives
<1>3. ASSUME NEW d \in Dests, SendThread(d) PROVE LivesInv'
  <2>1. UNCHANGED <<netVars, recv>> /\ d \in Dests
    BY <1>3 DEF SendThread, recvVars
  <2>2. sendStopped' = sendStopped \/ sendStopped' = [sendStopped EXCEPT ![d] = TRUE]
    BY <1>3 DEF SendThread, SendProcess, SendFirst, SendNothing
  <2>3. sendStopped \in [Dests -> BOOLEAN] /\ deleted \subseteq Dests
    BY DEF TypeInv, TypeOK
  <2>4. \A c \in deleted : sendStopped[c] => sendStopped'[c]
    BY <2>2, <2>3
  <2> QED
    BY <2>1, <2>4, OtherLives
<1>4. ASSUME NEW d \in Dests, RecvThread(d) PROVE LivesInv'
  <2>1. UNCHANGED <<netVars, sendStopped>>
    BY <1>4 DEF RecvThread, sendVars
  <2>2. recv[d] # "stopped" /\ \E x : recv' = [recv EXCEPT ![d] = x]
    BY <1>4 DEF RecvThread, RecvEnds, RecvFunc, RecvAdd
  <2>3. recv \in [Dests -> {"receive", "add", "stopped"}] /\ deleted \subseteq Dests
    BY DEF TypeInv, TypeOK
  <2>4. \A c \in deleted : recv[c] = "stopped" => recv'[c] = "stopped"
    BY <2>2, <2>3
  <2> QED
    BY <2>1, <2>4, OtherLives
<1>5. ProcessIncoming \/ Stop => UNCHANGED <<netVars, sendStopped, recv>>
  BY DEF ProcessIncoming, Stop, sendVars, recvVars
<1>6. \A d \in Dests : SendMessage(d) \/ DisconnectClient(d) \/ ClientCloses(d)
        => UNCHANGED <<netVars, sendStopped, recv>>
  BY DEF SendMessage, DisconnectClient, ClientCloses, sendVars, recvVars
<1>7. UNCHANGED vars => UNCHANGED <<netVars, sendStopped, recv>>
  BY DEF vars, sendVars, recvVars
<1> QED
  BY <1>1, <1>2, <1>3, <1>4, <1>5, <1>6, <1>7 DEF Next

\* A destination is deleted when its threads are over, and it is neither connected
\* nor to be deleted again.
THEOREM DeletedCorrect == Spec => []DeletedIsOver
<1>1. Init => LivesInv
  BY DEF Init, LivesInv, Lives
<1>2. LivesInv => DeletedIsOver
  BY DEF LivesInv, Lives, DeletedIsOver, Has
<1> QED
  BY <1>1, <1>2, InitTypes, NextTypes, NextLives, PTL DEF Spec
-----------------------------------------------------------------------------
(* What the game has been told, and is going to be told. *)

\* A message of the queue of the game is given by its kind and its destination.
LEMMA IncomingMessages ==
    ASSUME NEW m \in Incoming
    PROVE  /\ m.dest \in Dests
           /\ m.kind \in {"Connect", "Buffer", "Disconnect"}
           /\ m.kind = "Connect" => m = Connect(m.dest)
           /\ m.kind = "Disconnect" => m = Disconnect(m.dest)
           /\ \A d : m = Disconnect(d) => m.kind = "Disconnect" /\ m.dest = d
           /\ \A d : m = Connect(d) => m.kind = "Connect" /\ m.dest = d
BY DEF Incoming, Connect, Disconnect

\* The destination the queue tells to be connected at place i is, or the queue
\* tells later that it is not.
Settled(connected, queue, i) ==
    \/ queue[i].dest \in connected
    \/ \E j \in i + 1 .. Len(queue) : queue[j] = Disconnect(queue[i].dest)

\* Destinations in A have been announced.  The queue tells of leaving only once they
\* have left, and of each destination that is known and has left.
Heard(A, connected, queue, knows) ==
    /\ \A i \in 1 .. Len(queue) : queue[i].kind = "Disconnect" =>
          queue[i].dest \in A /\ queue[i].dest \notin connected
    /\ \A i \in 1 .. Len(queue) : queue[i].kind = "Connect" => Settled(connected, queue, i)
    /\ \A d \in knows : d \in connected \/ Has(queue, Disconnect(d))

\* A message added to the queue settles what it did, and perhaps more.
LEMMA StaysSettled ==
    ASSUME NEW connected, NEW now, NEW queue \in Seq(Incoming), NEW m \in Incoming,
           NEW i \in 1 .. Len(queue), Settled(connected, queue, i),
           \A d \in connected : d \in now \/ m = Disconnect(d)
    PROVE  Settled(now, Append(queue, m), i)
<1>1. /\ Len(queue) \in Nat /\ Len(Append(queue, m)) = Len(queue) + 1
      /\ \A j \in 1 .. Len(queue) : Append(queue, m)[j] = queue[j]
      /\ Append(queue, m)[Len(queue) + 1] = m
  BY Appended
<1>2. Append(queue, m)[i] = queue[i]
  BY <1>1
<1>3. CASE queue[i].dest \in now
  BY <1>2, <1>3 DEF Settled
<1>4. CASE m = Disconnect(queue[i].dest)
  <2>1. Len(queue) + 1 \in i + 1 .. Len(Append(queue, m))
    BY <1>1
  <2> QED
    BY <1>1, <1>2, <1>4, <2>1 DEF Settled
<1>5. CASE queue[i].dest \notin connected
  <2>1. PICK j \in i + 1 .. Len(queue) : queue[j] = Disconnect(queue[i].dest)
    BY <1>5 DEF Settled
  <2>2. j \in i + 1 .. Len(Append(queue, m)) /\ j \in 1 .. Len(queue)
    BY <1>1
  <2>3. Append(queue, m)[j] = Disconnect(Append(queue, m)[i].dest)
    BY <1>1, <1>2, <2>1, <2>2
  <2> QED
    BY <2>2, <2>3 DEF Settled
<1> QED
  BY <1>3, <1>4, <1>5

LEMMA HasAppended ==
    ASSUME NEW queue \in Seq(Incoming), NEW m \in Incoming, NEW x
    PROVE  /\ Has(queue, x) => Has(Append(queue, m), x)
           /\ Has(Append(queue, m), m)
<1>1. /\ Len(queue) \in Nat /\ Len(Append(queue, m)) = Len(queue) + 1
      /\ \A j \in 1 .. Len(queue) : Append(queue, m)[j] = queue[j]
      /\ Append(queue, m)[Len(queue) + 1] = m
  BY Appended
<1>2. /\ 1 .. Len(queue) \subseteq 1 .. Len(Append(queue, m))
      /\ Len(queue) + 1 \in 1 .. Len(Append(queue, m))
  BY <1>1
<1> QED
  BY <1>1, <1>2 DEF Has

\* A message is added: of a destination that leaves, that comes, or of the
\* client of a destination.
LEMMA HeardMore ==
    ASSUME NEW A, NEW B, NEW connected, NEW now, NEW queue \in Seq(Incoming),
           NEW knows \in SUBSET Dests, NEW m \in Incoming,
           Heard(A, connected, queue, knows), A \subseteq B,
           \A d \in connected : d \in now \/ m = Disconnect(d),
           now \subseteq connected \cup (B \ A),
           m.kind = "Disconnect" => m.dest \in A /\ m.dest \notin now,
           m.kind = "Connect" => m.dest \in now
    PROVE  Heard(B, now, Append(queue, m), knows)
<1> DEFINE q == Append(queue, m)
<1>1. /\ Len(queue) \in Nat /\ Len(q) = Len(queue) + 1
      /\ \A j \in 1 .. Len(queue) : q[j] = queue[j]
      /\ q[Len(queue) + 1] = m
  BY Appended
<1>2. \A i \in 1 .. Len(q) : i \in 1 .. Len(queue) \/ i = Len(queue) + 1
  BY <1>1
<1>3. ASSUME NEW i \in 1 .. Len(q), q[i].kind = "Disconnect"
      PROVE  q[i].dest \in B /\ q[i].dest \notin now
  <2>1. CASE i \in 1 .. Len(queue)
    BY <1>1, <1>3, <2>1 DEF Heard
  <2>2. CASE i = Len(queue) + 1
    BY <1>1, <1>3, <2>2
  <2> QED
    BY <1>2, <2>1, <2>2
<1>4. ASSUME NEW i \in 1 .. Len(q), q[i].kind = "Connect"
      PROVE  Settled(now, q, i)
  <2>1. CASE i \in 1 .. Len(queue)
    <3>1. Settled(connected, queue, i)
      BY <1>1, <1>4, <2>1 DEF Heard
    <3> QED
      BY <2>1, <3>1, StaysSettled
  <2>2. CASE i = Len(queue) + 1
    BY <1>1, <1>4, <2>2 DEF Settled
  <2> QED
    BY <1>2, <2>1, <2>2
<1>5. ASSUME NEW d \in knows PROVE d \in now \/ Has(q, Disconnect(d))
  <2>1. d \in connected \/ Has(queue, Disconnect(d))
    BY DEF Heard
  <2>2. d \in now \/ m = Disconnect(d) \/ Has(queue, Disconnect(d))
    BY <2>1
  <2> QED
    BY <2>2, HasAppended
<1> QED
  BY <1>3, <1>4, <1>5 DEF Heard

\* The game takes the first message, and knows a destination that comes until it
\* hears that it has left.
LEMMA HeardTaken ==
    ASSUME NEW A, NEW connected, NEW queue \in Seq(Incoming), NEW knows \in SUBSET Dests,
           NEW then, queue # <<>>, Heard(A, connected, queue, knows),
           \/ Head(queue).kind = "Connect" /\ then \subseteq knows \cup {Head(queue).dest}
           \/ Head(queue).kind = "Buffer" /\ then \subseteq knows
           \/ Head(queue).kind = "Disconnect" /\ then \subseteq knows \ {Head(queue).dest}
    PROVE  Heard(A, connected, Tail(queue), then)
<1> DEFINE q == Tail(queue)
<1>1. /\ q \in Seq(Incoming) /\ Len(queue) \in Nat /\ Len(queue) >= 1
      /\ Len(q) = Len(queue) - 1
      /\ \A i \in 1 .. Len(queue) - 1 : q[i] = queue[i + 1]
      /\ Head(queue) = queue[1] /\ Head(queue) \in Incoming
  BY Taken
<1>2. \A i \in 1 .. Len(q) : i + 1 \in 1 .. Len(queue) /\ q[i] = queue[i + 1]
  BY <1>1
<1>3. \A i \in 2 .. Len(queue) : i - 1 \in 1 .. Len(q) /\ q[i - 1] = queue[i]
  BY <1>1
<1>4. ASSUME NEW i \in 1 .. Len(q), q[i].kind = "Connect"
      PROVE  Settled(connected, q, i)
  <2>1. Settled(connected, queue, i + 1)
    BY <1>2, <1>4 DEF Heard
  <2>2. CASE queue[i + 1].dest \in connected
    BY <1>2, <2>2 DEF Settled
  <2>3. CASE \E j \in (i + 1) + 1 .. Len(queue) : queue[j] = Disconnect(queue[i + 1].dest)
    <3>1. PICK j \in (i + 1) + 1 .. Len(queue) : queue[j] = Disconnect(queue[i + 1].dest)
      BY <2>3
    <3>2. j \in 2 .. Len(queue) /\ j - 1 \in i + 1 .. Len(q)
      BY <1>1
    <3>3. q[j - 1] = Disconnect(q[i].dest)
      BY <1>2, <1>3, <3>1, <3>2
    <3> QED
      BY <3>2, <3>3 DEF Settled
  <2> QED
    BY <2>1, <2>2, <2>3 DEF Settled
<1>5. ASSUME NEW d, Has(queue, Disconnect(d)), Head(queue) # Disconnect(d)
      PROVE  Has(q, Disconnect(d))
  <2>1. PICK j \in 1 .. Len(queue) : queue[j] = Disconnect(d)
    BY <1>5 DEF Has
  <2>2. j \in 2 .. Len(queue)
    BY <1>1, <1>5, <2>1
  <2> QED
    BY <1>3, <2>1, <2>2 DEF Has
<1>6. ASSUME NEW d \in then PROVE d \in connected \/ Has(q, Disconnect(d))
  <2>1. CASE d \in knows
    <3>1. d \in connected \/ Has(queue, Disconnect(d))
      BY <2>1 DEF Heard
    <3>2. Head(queue) # Disconnect(d)
      BY <1>1, <1>6, IncomingMessages
    <3> QED
      BY <1>5, <3>1, <3>2
  <2>2. CASE d \notin knows
    <3>1. Head(queue).kind = "Connect" /\ d = Head(queue).dest
      BY <1>6, <2>2
    <3>2. Settled(connected, queue, 1)
      BY <1>1, <3>1 DEF Heard
    <3>3. d \in connected \/ \E j \in 2 .. Len(queue) : queue[j] = Disconnect(d)
      BY <1>1, <3>1, <3>2 DEF Settled
    <3> QED
      BY <1>3, <3>3 DEF Has
  <2> QED
    BY <2>1, <2>2
<1>7. \A i \in 1 .. Len(q) : q[i].kind = "Disconnect" =>
          q[i].dest \in A /\ q[i].dest \notin connected
  BY <1>2 DEF Heard
<1> QED
  BY <1>4, <1>6, <1>7 DEF Heard
\* No destination is connected without the game knowing it, hearing of it or having
\* refused it.
HeardInv ==
    /\ Heard(Announced, destinations, incoming, known)
    /\ NoGhostConnection

\* What a step of the network thread does to the queues of the game: it adds a
\* message for a destination that comes or leaves, or takes a message that is of no
\* use to those that are still connected.
LEMMA NetThreadSteps ==
    ASSUME TypeInv, NetThread
    PROVE  /\ UNCHANGED known
           /\ \/ UNCHANGED <<Announced, destinations, incoming>>
              \/ /\ UNCHANGED Announced
                 /\ \E d \in destinations : /\ destinations' = destinations \ {d}
                                           /\ incoming' = Append(incoming, Disconnect(d))
              \/ \E d \in Dests : /\ d \notin Announced /\ Announced' = Announced \cup {d}
                                 /\ destinations' = destinations \cup {d}
                                 /\ incoming' = Append(incoming, Connect(d))
           /\ \/ UNCHANGED outgoing
              \/ /\ outgoing # <<>> /\ outgoing' = Tail(outgoing)
                 /\ \A d \in destinations', n \in {0, 1} : Head(outgoing) # Kick(d, n)
<1>1. CASE CheckClients
  BY <1>1 DEF CheckClients, Close, Announced, Accepted
<1>2. CASE CheckNewConnections
  <2>1. accepted \in Int
    BY DEF TypeInv, TypeOK
  <2>2. Announced' = Announced
    BY <1>2, <2>1 DEF CheckNewConnections, Announced, Accepted, Dests
  <2> QED
    BY <1>2, <2>2 DEF CheckNewConnections, gameVars
<1>3. CASE AddDestination
  <2>1. accepted \in Dests /\ accepted \in Int
    BY <1>3 DEF AddDestination, TypeInv, TypeOK
  <2>2. accepted \notin Announced /\ Announced' = Announced \cup {accepted}
    BY <1>3, <2>1 DEF AddDestination, Announced, Accepted, Dests
  <2> QED
    BY <1>3, <2>1, <2>2 DEF AddDestination
<1>4. CASE ProcessOutgoing
  <2>1. UNCHANGED <<Announced, known>> /\ outgoing # <<>> /\ outgoing' = Tail(outgoing)
    BY <1>4 DEF ProcessOutgoing, Announced, Accepted
  <2> DEFINE m == Head(outgoing)
  <2>2. \/ m.dest \notin destinations /\ UNCHANGED <<destinations, incoming>>
        \/ m.dest \in destinations /\ DestroyDestination(m.dest, m.n)
        \/ m.kind = "Data" /\ UNCHANGED <<destinations, incoming>>
    BY <1>4 DEF ProcessOutgoing
  <2>3. \A d, n : m = Kick(d, n) => m.dest = d /\ m.kind = "Kick"
    BY DEF Kick
  <2> HIDE DEF m
  <2>4. \A d \in destinations', n \in {0, 1} : m # Kick(d, n)
    BY <2>2, <2>3 DEF DestroyDestination, Close
  <2> QED
    BY <2>1, <2>2, <2>4 DEF DestroyDestination, Close, m
<1>5. CASE ProcessDisconnectAll
  <2>1. UNCHANGED <<Announced, known>> /\ outgoing # <<>> /\ Head(outgoing) = DisconnectAll
    BY <1>5 DEF ProcessDisconnectAll, Announced, Accepted
  <2>2. \/ UNCHANGED <<destinations, incoming>> /\ outgoing' = Tail(outgoing)
        \/ UNCHANGED outgoing /\ \E d \in destinations : DestroyDestination(d, 0)
    BY <1>5 DEF ProcessDisconnectAll
  <2>3. \A d, n : DisconnectAll # Kick(d, n)
    BY DEF Kick, DisconnectAll
  <2> QED
    BY <2>1, <2>2, <2>3 DEF DestroyDestination, Close
<1>6. CASE EndOfLoop
  BY <1>6 DEF EndOfLoop, gameVars, Announced, Accepted
<1>7. CASE Tidy
  BY <1>7 DEF Tidy, gameVars, Announced, Accepted
<1> QED
  BY <1>1, <1>2, <1>3, <1>4, <1>5, <1>6, <1>7 DEF NetThread

\* A message stays in the queue when another is taken.
LEMMA HasTaken ==
    ASSUME NEW S, NEW queue \in Seq(S), queue # <<>>, NEW x, Has(queue, x), Head(queue) # x
    PROVE  Has(Tail(queue), x)
<1>1. /\ Len(queue) \in Nat /\ Len(Tail(queue)) = Len(queue) - 1
      /\ \A i \in 1 .. Len(queue) - 1 : Tail(queue)[i] = queue[i + 1]
      /\ Head(queue) = queue[1]
  BY Taken
<1>2. PICK j \in 1 .. Len(queue) : queue[j] = x
  BY DEF Has
<1>3. j - 1 \in 1 .. Len(Tail(queue)) /\ Tail(queue)[j - 1] = x
  BY <1>1, <1>2
<1> QED
  BY <1>3 DEF Has

LEMMA OutgoingAppended ==
    ASSUME NEW queue \in Seq(Outgoing), NEW m \in Outgoing, NEW x
    PROVE  /\ Has(queue, x) => Has(Append(queue, m), x)
           /\ Has(Append(queue, m), m)
<1>1. /\ Len(queue) \in Nat /\ Len(Append(queue, m)) = Len(queue) + 1
      /\ \A j \in 1 .. Len(queue) : Append(queue, m)[j] = queue[j]
      /\ Append(queue, m)[Len(queue) + 1] = m
  BY Appended
<1>2. /\ 1 .. Len(queue) \subseteq 1 .. Len(Append(queue, m))
      /\ Len(queue) + 1 \in 1 .. Len(Append(queue, m))
  BY <1>1
<1> QED
  BY <1>1, <1>2 DEF Has

LEMMA NetThreadHeard ==
    ASSUME TypeInv, LivesInv, HeardInv, NetThread
    PROVE  HeardInv'
<1>1. /\ incoming \in Seq(Incoming) /\ known \in SUBSET Dests /\ outgoing \in Seq(Outgoing)
      /\ destinations \subseteq Dests
  BY DEF TypeInv, TypeOK
<1>2. destinations \subseteq Announced
  BY DEF LivesInv, Lives
<1>3. Heard(Announced, destinations, incoming, known)
  BY DEF HeardInv
<1>4. \A d \in destinations', n \in {0, 1} :
        Has(outgoing, Kick(d, n)) => Has(outgoing', Kick(d, n))
  BY <1>1, NetThreadSteps, HasTaken
<1>5. \A d \in destinations : d \in known \/ Has(incoming, Connect(d))
                                      \/ \E n \in {0, 1} : Has(outgoing, Kick(d, n))
  BY DEF HeardInv, NoGhostConnection
<1>6. CASE UNCHANGED <<Announced, destinations, incoming>>
  BY <1>3, <1>4, <1>5, <1>6, NetThreadSteps DEF HeardInv, NoGhostConnection
<1>7. ASSUME NEW d \in destinations, UNCHANGED Announced,
             destinations' = destinations \ {d},
             incoming' = Append(incoming, Disconnect(d))
      PROVE  HeardInv'
  <2>1. /\ Disconnect(d) \in Incoming /\ Disconnect(d).kind = "Disconnect"
        /\ Disconnect(d).dest = d
    BY <1>1, MessageTypes DEF Disconnect
  <2>2. Heard(Announced, destinations', incoming', known)
    BY <1>1, <1>2, <1>3, <1>7, <2>1, HeardMore
  <2>3. \A c : Has(incoming, Connect(c)) => Has(incoming', Connect(c))
    BY <1>1, <1>7, <2>1, HasAppended
  <2> QED
    BY <1>4, <1>5, <1>7, <2>2, <2>3, NetThreadSteps DEF HeardInv, NoGhostConnection
<1>8. ASSUME NEW d \in Dests, d \notin Announced, Announced' = Announced \cup {d},
             destinations' = destinations \cup {d},
             incoming' = Append(incoming, Connect(d))
      PROVE  HeardInv'
  <2>1. /\ Connect(d) \in Incoming /\ Connect(d).kind = "Connect"
        /\ Connect(d).dest = d
    BY MessageTypes DEF Connect
  <2>2. Heard(Announced', destinations', incoming', known)
    BY <1>1, <1>3, <1>8, <2>1, HeardMore
  <2>3. \A c : Has(incoming, Connect(c)) => Has(incoming', Connect(c))
    BY <1>1, <1>8, <2>1, HasAppended
  <2>4. Has(incoming', Connect(d))
    BY <1>1, <1>8, <2>1, HasAppended
  <2> QED
    BY <1>4, <1>5, <1>8, <2>2, <2>3, <2>4, NetThreadSteps DEF HeardInv, NoGhostConnection
<1> QED
  BY <1>6, <1>7, <1>8, NetThreadSteps

\* Steps that leave the destinations and what the game knows of them as they are, and
\* at most add a message of a client or one that is to be sent.
LEMMA QuietHeard ==
    ASSUME TypeInv, HeardInv, UNCHANGED <<netVars, known>>,
           incoming' = incoming \/ \E d \in Dests : incoming' = Append(incoming, Buffer(d)),
           outgoing' = outgoing \/ \E m \in Outgoing : outgoing' = Append(outgoing, m)
    PROVE  HeardInv'
<1>1. incoming \in Seq(Incoming) /\ known \in SUBSET Dests /\ outgoing \in Seq(Outgoing)
  BY DEF TypeInv, TypeOK
<1>2. UNCHANGED <<Announced, destinations>>
  BY DEF netVars, Announced, Accepted
<1>3. \A d \in Dests : Buffer(d) \in Incoming /\ Buffer(d).kind = "Buffer"
  BY MessageTypes DEF Buffer
<1>4. Heard(Announced, destinations, incoming, known)
  BY DEF HeardInv
<1>5. Heard(Announced, destinations, incoming', known)
  BY <1>1, <1>3, <1>4, HeardMore
<1>6. \A x : Has(incoming, x) => Has(incoming', x)
  BY <1>1, <1>3, HasAppended
<1>7. \A x : Has(outgoing, x) => Has(outgoing', x)
  BY <1>1, OutgoingAppended
<1> QED
  BY <1>2, <1>5, <1>6, <1>7 DEF HeardInv, NoGhostConnection

LEMMA ProcessIncomingHeard ==
    ASSUME TypeInv, HeardInv, ProcessIncoming
    PROVE  HeardInv'
<1> DEFINE m == Head(incoming)
<1>1. /\ incoming \in Seq(Incoming) /\ known \in SUBSET Dests /\ outgoing \in Seq(Outgoing)
      /\ incoming # <<>> /\ incoming' = Tail(incoming)
  BY DEF TypeInv, TypeOK, ProcessIncoming
<1>2. UNCHANGED <<Announced, destinations>>
  BY DEF ProcessIncoming, netVars, Announced, Accepted
<1>3. m \in Incoming /\ m = incoming[1] /\ 1 \in 1 .. Len(incoming)
  BY <1>1, Taken
<1>4. /\ m.dest \in Dests
      /\ \A d : m = Connect(d) => m.kind = "Connect" /\ m.dest = d
  BY <1>3, IncomingMessages
<1>5. Heard(Announced, destinations, incoming, known)
  BY DEF HeardInv
<1>6. \/ m.kind = "Connect" /\ HandleConnect(m.dest)
      \/ m.kind = "Buffer" /\ HandleBuffer(m.dest)
      \/ m.kind = "Disconnect" /\ HandleDisconnect(m.dest)
  BY DEF ProcessIncoming
<1> HIDE DEF m
<1>7. \/ m.kind = "Connect" /\ known' \subseteq known \cup {m.dest}
      \/ m.kind = "Buffer" /\ known' \subseteq known
      \/ m.kind = "Disconnect" /\ known' \subseteq known \ {m.dest}
  BY <1>6 DEF HandleConnect, HandleBuffer, HandleDisconnect
<1>8. Heard(Announced, destinations, incoming', known')
  BY <1>1, <1>5, <1>7, HeardTaken DEF m
<1>9. \A d \in Dests, n \in {0, 1} : Kick(d, n) \in Outgoing
  BY MessageTypes
<1>10. \A x : Has(outgoing, x) => Has(outgoing', x)
  <2>1. \/ outgoing' = outgoing
        \/ \E n \in {0, 1} : outgoing' = Append(outgoing, Kick(m.dest, n))
    BY <1>6 DEF HandleConnect, HandleBuffer, HandleDisconnect, Queue
  <2>2. CASE outgoing' = outgoing
    BY <2>2
  <2>3. ASSUME NEW n \in {0, 1}, outgoing' = Append(outgoing, Kick(m.dest, n))
        PROVE  \A x : Has(outgoing, x) => Has(outgoing', x)
    BY <1>1, <1>4, <1>9, <2>3, OutgoingAppended
  <2> QED
    BY <2>1, <2>2, <2>3
<1>11. \A d \in known \ known' : d \notin destinations
  <2> SUFFICES ASSUME NEW d \in known \ known' PROVE d \notin destinations
    OBVIOUS
  <2>1. m.kind = "Disconnect" /\ d = m.dest
    BY <1>6 DEF HandleConnect, HandleBuffer, HandleDisconnect
  <2> QED
    BY <1>3, <1>5, <2>1 DEF Heard
<1>12. ASSUME NEW d \in destinations, m = Connect(d)
       PROVE  d \in known' \/ \E n \in {0, 1} : Has(outgoing', Kick(d, n))
  <2>1. HandleConnect(d) /\ d \in Dests
    BY <1>4, <1>6, <1>12
  <2> QED
    BY <1>1, <1>9, <2>1, OutgoingAppended DEF HandleConnect, Queue
<1>13. \A d : Has(incoming, Connect(d)) /\ m # Connect(d) => Has(incoming', Connect(d))
  BY <1>1, HasTaken DEF m
<1> QED
  BY <1>2, <1>8, <1>10, <1>11, <1>12, <1>13 DEF HeardInv, NoGhostConnection

LEMMA NextHeard == TypeInv /\ LivesInv /\ HeardInv /\ [Next]_vars => HeardInv'
<1> SUFFICES ASSUME TypeInv, LivesInv, HeardInv, [Next]_vars PROVE HeardInv'
  OBVIOUS
<1>1. CASE NetThread
  BY <1>1, NetThreadHeard
<1>2. CASE ProcessIncoming
  BY <1>2, ProcessIncomingHeard
<1>3. CASE Stop
  <2>1. DisconnectAll \in Outgoing
    BY DEF Outgoing
  <2> QED
    BY <1>3, <2>1, QuietHeard DEF Stop, Queue
<1>4. ASSUME NEW d \in Dests, SendThread(d) PROVE HeardInv'
  BY <1>4, QuietHeard DEF SendThread, gameVars
<1>5. ASSUME NEW d \in Dests, RecvThread(d) PROVE HeardInv'
  BY <1>5, QuietHeard DEF RecvThread, RecvEnds, RecvFunc, RecvAdd
<1>6. ASSUME NEW d \in Dests, SendMessage(d) PROVE HeardInv'
  <2>1. sent[d] + 1 \in Nat
    BY DEF TypeInv, TypeOK
  <2>2. Data(d, sent[d] + 1) \in Outgoing
    BY <2>1, MessageTypes
  <2> QED
    BY <1>6, <2>2, QuietHeard DEF SendMessage, Queue
<1>7. ASSUME NEW d \in Dests, DisconnectClient(d) PROVE HeardInv'
  <2>1. Kick(d, 1) \in Outgoing
    BY MessageTypes
  <2> QED
    BY <1>7, <2>1, QuietHeard DEF DisconnectClient, Queue
<1>8. ASSUME NEW d \in Dests, ClientCloses(d) PROVE HeardInv'
  BY <1>8, QuietHeard DEF ClientCloses, gameVars
<1>9. CASE UNCHANGED vars
  BY <1>9, QuietHeard DEF vars, gameVars
<1> QED
  BY <1>1, <1>2, <1>3, <1>4, <1>5, <1>6, <1>7, <1>8, <1>9 DEF Next

LEMMA InitHeard == Init => LivesInv /\ HeardInv
BY DEF Init, LivesInv, Lives, HeardInv, Heard, NoGhostConnection

\* Whom the game knows, or is about to be told of, is connected, or the message that
\* it is not is on its way, whatever the threads of the destination still do.
THEOREM HearsCorrect == Spec => []GameHearsOfLeaving
<1>1. HeardInv => GameHearsOfLeaving
  BY DEF HeardInv, Heard, Settled, GameHearsOfLeaving
<1> QED
  BY <1>1, InitTypes, InitHeard, NextTypes, NextLives, NextHeard, PTL DEF Spec

\* No connection is left that the game does not know, is not told of and has not
\* refused.
THEOREM NoGhostCorrect == Spec => []NoGhostConnection
<1>1. HeardInv => NoGhostConnection
  BY DEF HeardInv
<1> QED
  BY <1>1, InitTypes, InitHeard, NextTypes, NextLives, NextHeard, PTL DEF Spec
-----------------------------------------------------------------------------
(* The order of what is sent. *)

\* Message m is one that the game numbered for d.
DataTo(m, d) == m.kind = "Data" /\ m.dest = d

\* What is written, or is next to be written, to a client: rising numbers, and
\* nothing after a reason.
Ordered(line) ==
    \A i, j \in 1 .. Len(line) :
        i < j => line[i] # Reason /\ (line[j] = Reason \/ line[i] < line[j])

\* The numbers for d in a queue rise, up to count.
Rising(queue, d, count) ==
    /\ \A i \in 1 .. Len(queue) : DataTo(queue[i], d) => queue[i].n \in 1 .. count
    /\ \A i, j \in 1 .. Len(queue) :
        i < j /\ DataTo(queue[i], d) /\ DataTo(queue[j], d) => queue[i].n < queue[j].n

\* What is sent to d, from the first that was written to the last that waits: the
\* line, the queue of its send thread and the queue of the network thread.  Nothing
\* follows a disconnection into the queue of the send thread, and left are those
\* to whom nothing is queued any more.
Pipe(d, line, queue, out, running, left, count) ==
    /\ Ordered(line)
    /\ \A i \in 1 .. Len(line) : line[i] = Reason => ~running
    /\ ~running => queue = <<>> /\ d \in left
    /\ \A i \in 1 .. Len(queue) :
        /\ queue[i].dest = d
        /\ queue[i].kind = "Kick" => i = Len(queue) /\ d \in left
    /\ Rising(queue, d, count) /\ Rising(out, d, count)
    /\ \A i \in 1 .. Len(line) : line[i] <= count
    /\ \A i \in 1 .. Len(line), j \in 1 .. Len(queue) :
        queue[j].kind = "Data" => line[i] < queue[j].n
    /\ \A i \in 1 .. Len(line), j \in 1 .. Len(out) :
        DataTo(out[j], d) => line[i] < out[j].n
    /\ \A i \in 1 .. Len(queue), j \in 1 .. Len(out) :
        queue[i].kind = "Data" /\ DataTo(out[j], d) => queue[i].n < out[j].n

\* The game queues a message: the next number for d, or something else.
LEMMA PipeSent ==
    ASSUME NEW d \in Dests, NEW line \in Seq(Nat), NEW queue \in Seq(ToDest),
           NEW out \in Seq(Outgoing), NEW running \in BOOLEAN, NEW left, NEW count \in Nat,
           Pipe(d, line, queue, out, running, left, count),
           NEW m \in Outgoing, NEW now \in Nat, count <= now,
           DataTo(m, d) => m.n = now /\ now = count + 1
    PROVE  Pipe(d, line, queue, Append(out, m), running, left, now)
<1> DEFINE q == Append(out, m)
<1>1. /\ Len(out) \in Nat /\ Len(q) = Len(out) + 1
      /\ \A j \in 1 .. Len(out) : q[j] = out[j]
      /\ q[Len(out) + 1] = m
  BY Appended
<1>2. \A i \in 1 .. Len(q) : i \in 1 .. Len(out) \/ i = Len(out) + 1
  BY <1>1
<1>3. /\ \A i \in 1 .. Len(line) : line[i] \in Nat
      /\ \A i \in 1 .. Len(queue) : queue[i] \in ToDest
  BY ElementOfSeq
<1>4. \A i \in 1 .. Len(queue) : queue[i].kind = "Data" => queue[i].n \in 1 .. count
  BY DEF Pipe, Rising, DataTo
<1>5. \A i \in 1 .. Len(out) : DataTo(out[i], d) => out[i].n \in 1 .. count
  BY DEF Pipe, Rising
<1>6. Rising(queue, d, now)
  BY DEF Pipe, Rising
<1>7. Rising(q, d, now)
  <2>1. \A i \in 1 .. Len(q) : DataTo(q[i], d) => q[i].n \in 1 .. now
    BY <1>1, <1>2, <1>5
  <2>2. ASSUME NEW i \in 1 .. Len(q), NEW j \in 1 .. Len(q), i < j,
               DataTo(q[i], d), DataTo(q[j], d)
        PROVE  q[i].n < q[j].n
    <3>1. i \in 1 .. Len(out) /\ q[i] = out[i]
      BY <1>1, <2>2
    <3>2. CASE j \in 1 .. Len(out)
      BY <1>1, <2>2, <3>1, <3>2 DEF Pipe, Rising
    <3>3. CASE j = Len(out) + 1
      BY <1>1, <1>5, <2>2, <3>1, <3>3
    <3> QED
      BY <1>2, <3>2, <3>3
  <2> QED
    BY <2>1, <2>2 DEF Rising
<1>8. \A i \in 1 .. Len(line) : line[i] <= now
  BY <1>3 DEF Pipe
<1>9. ASSUME NEW i \in 1 .. Len(line), NEW j \in 1 .. Len(q), DataTo(q[j], d)
      PROVE  line[i] < q[j].n
  <2>1. CASE j \in 1 .. Len(out)
    BY <1>1, <1>9, <2>1 DEF Pipe
  <2>2. CASE j = Len(out) + 1
    <3>1. q[j].n = count + 1
      BY <1>1, <1>9, <2>2
    <3>2. line[i] <= count
      BY DEF Pipe
    <3> QED
      BY <1>3, <3>1, <3>2
  <2> QED
    BY <1>2, <2>1, <2>2
<1>10. ASSUME NEW i \in 1 .. Len(queue), NEW j \in 1 .. Len(q),
              queue[i].kind = "Data", DataTo(q[j], d)
       PROVE  queue[i].n < q[j].n
  <2>1. CASE j \in 1 .. Len(out)
    BY <1>1, <1>10, <2>1 DEF Pipe
  <2>2. CASE j = Len(out) + 1
    BY <1>1, <1>4, <1>10, <2>2
  <2> QED
    BY <1>2, <2>1, <2>2
<1> QED
  BY <1>6, <1>7, <1>8, <1>9, <1>10 DEF Pipe

\* The network thread takes the first message and does nothing with it for d.
LEMMA PipeTaken ==
    ASSUME NEW d \in Dests, NEW line \in Seq(Nat), NEW queue \in Seq(ToDest),
           NEW out \in Seq(Outgoing), NEW running \in BOOLEAN, NEW left, NEW count \in Nat,
           Pipe(d, line, queue, out, running, left, count), out # <<>>
    PROVE  Pipe(d, line, queue, Tail(out), running, left, count)
<1> DEFINE q == Tail(out)
<1>1. /\ Len(out) \in Nat /\ Len(q) = Len(out) - 1
      /\ \A i \in 1 .. Len(out) - 1 : q[i] = out[i + 1]
  BY Taken
<1>2. \A i \in 1 .. Len(q) : i + 1 \in 1 .. Len(out) /\ q[i] = out[i + 1]
  BY <1>1
<1>3. Rising(q, d, count)
  <2>1. \A i, j \in 1 .. Len(q) : i < j => i + 1 < j + 1
    BY <1>1
  <2> QED
    BY <1>2, <2>1 DEF Pipe, Rising
<1> QED
  BY <1>2, <1>3 DEF Pipe

\* The network thread takes a message for d and queues it for its send thread.
LEMMA PipeQueued ==
    ASSUME NEW d \in Dests, NEW line \in Seq(Nat), NEW queue \in Seq(ToDest),
           NEW out \in Seq(Outgoing), NEW running \in BOOLEAN, NEW left, NEW count \in Nat,
           Pipe(d, line, queue, out, running, left, count), out # <<>>,
           Head(out) \in ToDest, DataTo(Head(out), d), d \notin left
    PROVE  Pipe(d, line, Append(queue, Head(out)), Tail(out), running, left, count)
<1> DEFINE m == Head(out)
           q == Append(queue, m)
           o == Tail(out)
<1>1. Pipe(d, line, queue, o, running, left, count)
  BY PipeTaken
<1>2. /\ Len(out) \in Nat /\ Len(out) >= 1 /\ Len(o) = Len(out) - 1
      /\ \A i \in 1 .. Len(out) - 1 : o[i] = out[i + 1]
      /\ m = out[1]
  BY Taken
<1>3. /\ Len(queue) \in Nat /\ Len(q) = Len(queue) + 1
      /\ \A j \in 1 .. Len(queue) : q[j] = queue[j]
      /\ q[Len(queue) + 1] = m
  BY Appended
<1>4. \A i \in 1 .. Len(q) : i \in 1 .. Len(queue) \/ i = Len(queue) + 1
  BY <1>3
<1>5. \A i \in 1 .. Len(queue) : queue[i].kind = "Data" =>
        DataTo(queue[i], d) /\ queue[i].n < m.n
  <2>1. 1 \in 1 .. Len(out) /\ DataTo(out[1], d)
    BY <1>2
  <2> QED
    BY <1>2, <2>1 DEF Pipe, DataTo
<1>6. \A i \in 1 .. Len(o) : DataTo(o[i], d) => m.n < o[i].n
  <2> SUFFICES ASSUME NEW i \in 1 .. Len(o), DataTo(o[i], d) PROVE m.n < o[i].n
    OBVIOUS
  <2>1. /\ i + 1 \in 1 .. Len(out) /\ 1 \in 1 .. Len(out) /\ 1 < i + 1
        /\ o[i] = out[i + 1]
    BY <1>2
  <2> QED
    BY <1>2, <2>1 DEF Pipe, Rising
<1>7. m.n \in 1 .. count /\ \A i \in 1 .. Len(line) : line[i] < m.n
  <2>1. 1 \in 1 .. Len(out) /\ DataTo(out[1], d)
    BY <1>2
  <2> QED
    BY <1>2, <2>1 DEF Pipe, Rising
<1>8. running /\ m.dest = d /\ m.kind = "Data" /\ m.kind # "Kick"
  BY DEF Pipe, DataTo
<1>9. \A i \in 1 .. Len(queue) : queue[i].kind # "Kick"
  BY DEF Pipe
<1> HIDE DEF m, o, q
<1>10. Rising(q, d, count)
  <2>1. \A i \in 1 .. Len(q) : DataTo(q[i], d) => q[i].n \in 1 .. count
    BY <1>1, <1>3, <1>4, <1>7 DEF Pipe, Rising
  <2>2. ASSUME NEW i \in 1 .. Len(q), NEW j \in 1 .. Len(q), i < j,
               DataTo(q[i], d), DataTo(q[j], d)
        PROVE  q[i].n < q[j].n
    <3>1. i \in 1 .. Len(queue) /\ q[i] = queue[i]
      BY <1>3, <2>2
    <3>2. CASE j \in 1 .. Len(queue)
      BY <1>1, <1>3, <2>2, <3>1, <3>2 DEF Pipe, Rising
    <3>3. CASE j = Len(queue) + 1
      BY <1>3, <1>5, <2>2, <3>1, <3>3 DEF DataTo
    <3> QED
      BY <1>4, <3>2, <3>3
  <2> QED
    BY <2>1, <2>2 DEF Rising
<1>11. \A i \in 1 .. Len(q) : q[i].dest = d /\ q[i].kind # "Kick"
  BY <1>1, <1>3, <1>4, <1>8, <1>9 DEF Pipe
<1>12. \A i \in 1 .. Len(line), j \in 1 .. Len(q) : q[j].kind = "Data" => line[i] < q[j].n
  BY <1>1, <1>3, <1>4, <1>7 DEF Pipe
<1>13. \A i \in 1 .. Len(q), j \in 1 .. Len(o) :
        q[i].kind = "Data" /\ DataTo(o[j], d) => q[i].n < o[j].n
  BY <1>1, <1>3, <1>4, <1>6 DEF Pipe
<1>14. Pipe(d, line, q, o, running, left, count)
  BY <1>1, <1>8, <1>10, <1>11, <1>12, <1>13 DEF Pipe
<1> QED
  BY <1>14 DEF m, o, q

\* The network thread closes d: the disconnection is the last in its queue.
LEMMA PipeClosed ==
    ASSUME NEW d \in Dests, NEW line \in Seq(Nat), NEW queue \in Seq(ToDest),
           NEW out \in Seq(Outgoing), NEW running \in BOOLEAN, NEW left, NEW count \in Nat,
           Pipe(d, line, queue, out, running, left, count), d \notin left, NEW n \in Nat
    PROVE  Pipe(d, line, Append(queue, Kick(d, n)), out, running, left \cup {d}, count)
<1> DEFINE q == Append(queue, Kick(d, n))
<1>1. Kick(d, n) \in ToDest /\ Kick(d, n).kind = "Kick" /\ Kick(d, n).dest = d
  BY MessageTypes DEF Kick
<1>2. /\ Len(queue) \in Nat /\ Len(q) = Len(queue) + 1
      /\ \A j \in 1 .. Len(queue) : q[j] = queue[j]
      /\ q[Len(queue) + 1] = Kick(d, n)
  BY <1>1, Appended
<1>3. \A i \in 1 .. Len(q) : i \in 1 .. Len(queue) \/ i = Len(queue) + 1
  BY <1>2
<1>4. \A i \in 1 .. Len(queue) : queue[i].kind # "Kick"
  BY DEF Pipe
<1>5. \A i \in 1 .. Len(q) : q[i].kind = "Data" => i \in 1 .. Len(queue) /\ q[i] = queue[i]
  BY <1>1, <1>2, <1>3
<1>6. running
  BY DEF Pipe
<1> HIDE DEF q
<1>7. Rising(q, d, count)
  BY <1>5 DEF Pipe, Rising, DataTo
<1>8. \A i \in 1 .. Len(q) : q[i].dest = d /\ (q[i].kind = "Kick" => i = Len(q))
  BY <1>1, <1>2, <1>3, <1>4 DEF Pipe
<1>9. Pipe(d, line, q, out, running, left \cup {d}, count)
  BY <1>5, <1>6, <1>7, <1>8 DEF Pipe
<1> QED
  BY <1>9 DEF q
\* The send thread takes a number.
LEMMA PipeNumber ==
    ASSUME NEW d \in Dests, NEW line \in Seq(Nat), NEW queue \in Seq(ToDest),
           NEW out \in Seq(Outgoing), NEW running \in BOOLEAN, NEW left, NEW count \in Nat,
           Pipe(d, line, queue, out, running, left, count),
           queue # <<>>, Head(queue).kind = "Data"
    PROVE  Pipe(d, Append(line, Head(queue).n), Tail(queue), out, running, left, count)
<1> DEFINE m == Head(queue)
           q == Tail(queue)
           k == Append(line, m.n)
<1>1. /\ Len(queue) \in Nat /\ Len(queue) >= 1 /\ Len(q) = Len(queue) - 1
      /\ \A i \in 1 .. Len(queue) - 1 : q[i] = queue[i + 1]
      /\ m = queue[1] /\ m \in ToDest
  BY Taken
<1>2. m.n \in Nat
  BY <1>1 DEF ToDest
<1>3. /\ Len(line) \in Nat /\ Len(k) = Len(line) + 1
      /\ \A j \in 1 .. Len(line) : k[j] = line[j]
      /\ k[Len(line) + 1] = m.n
  BY <1>2, Appended
<1>4. \A i \in 1 .. Len(k) : i \in 1 .. Len(line) \/ i = Len(line) + 1
  BY <1>3
<1>5. /\ \A i \in 1 .. Len(q) : i + 1 \in 1 .. Len(queue) /\ q[i] = queue[i + 1] /\ 1 < i + 1
      /\ \A i, j \in 1 .. Len(q) : i < j => i + 1 < j + 1
      /\ \A i \in 1 .. Len(q) : i + 1 = Len(queue) => i = Len(q)
      /\ 1 \in 1 .. Len(queue) /\ queue[1] = m
  <2> HIDE DEF m, q
  <2>1. \A i \in 1 .. Len(q) : i + 1 \in 1 .. Len(queue) /\ q[i] = queue[i + 1] /\ 1 < i + 1
    BY <1>1
  <2>2. \A i, j \in 1 .. Len(q) : i < j => i + 1 < j + 1
    BY <1>1
  <2>3. \A i \in 1 .. Len(q) : i + 1 = Len(queue) => i = Len(q)
    BY <1>1
  <2>4. 1 \in 1 .. Len(queue) /\ queue[1] = m
    BY <1>1
  <2> QED
    BY <2>1, <2>2, <2>3, <2>4
<1>6. running /\ DataTo(m, d)
  BY <1>5 DEF Pipe, DataTo
<1>7. /\ m.n \in 1 .. count
      /\ \A i \in 1 .. Len(line) : line[i] < m.n /\ line[i] # Reason
      /\ \A j \in 1 .. Len(out) : DataTo(out[j], d) => m.n < out[j].n
  BY <1>5, <1>6 DEF Pipe, Rising, DataTo
<1>8. \A i \in 1 .. Len(q) : q[i].kind = "Data" => m.n < q[i].n
  <2> SUFFICES ASSUME NEW i \in 1 .. Len(q), q[i].kind = "Data" PROVE m.n < q[i].n
    OBVIOUS
  <2>1. DataTo(queue[i + 1], d) /\ DataTo(queue[1], d)
    BY <1>5, <1>6 DEF Pipe, DataTo
  <2> QED
    BY <1>5, <2>1 DEF Pipe, Rising
<1> HIDE DEF m, q, k
<1>9. Ordered(k)
  <2> SUFFICES ASSUME NEW i \in 1 .. Len(k), NEW j \in 1 .. Len(k), i < j
               PROVE  k[i] # Reason /\ (k[j] = Reason \/ k[i] < k[j])
    BY DEF Ordered
  <2>1. i \in 1 .. Len(line) /\ k[i] = line[i]
    BY <1>3
  <2>2. CASE j \in 1 .. Len(line)
    BY <1>3, <2>1, <2>2 DEF Pipe, Ordered
  <2>3. CASE j = Len(line) + 1
    BY <1>3, <1>7, <2>1, <2>3
  <2> QED
    BY <1>4, <2>2, <2>3
<1>10. \A i \in 1 .. Len(k) : k[i] # Reason /\ k[i] <= count
  <2> SUFFICES ASSUME NEW i \in 1 .. Len(k) PROVE k[i] # Reason /\ k[i] <= count
    OBVIOUS
  <2>1. CASE i \in 1 .. Len(line)
    <3>1. line[i] # Reason /\ line[i] <= count
      BY <1>7, <2>1 DEF Pipe
    <3> QED
      BY <1>3, <2>1, <3>1
  <2>2. CASE i = Len(line) + 1
    BY <1>3, <1>7, <2>2 DEF Reason
  <2> QED
    BY <1>4, <2>1, <2>2
<1>11. Rising(q, d, count)
  BY <1>5 DEF Pipe, Rising
<1>12. \A i \in 1 .. Len(q) : q[i].dest = d /\ (q[i].kind = "Kick" => i = Len(q) /\ d \in left)
  BY <1>5 DEF Pipe
<1>13. \A i \in 1 .. Len(k), j \in 1 .. Len(q) : q[j].kind = "Data" => k[i] < q[j].n
  <2> SUFFICES ASSUME NEW i \in 1 .. Len(k), NEW j \in 1 .. Len(q), q[j].kind = "Data"
               PROVE  k[i] < q[j].n
    OBVIOUS
  <2>1. CASE i \in 1 .. Len(line)
    <3>1. line[i] < queue[j + 1].n
      BY <1>5, <2>1 DEF Pipe
    <3> QED
      BY <1>3, <1>5, <2>1, <3>1
  <2>2. CASE i = Len(line) + 1
    BY <1>3, <1>8, <2>2
  <2> QED
    BY <1>4, <2>1, <2>2
<1>14. \A i \in 1 .. Len(k), j \in 1 .. Len(out) : DataTo(out[j], d) => k[i] < out[j].n
  BY <1>3, <1>4, <1>7 DEF Pipe
<1>15. \A i \in 1 .. Len(q), j \in 1 .. Len(out) :
        q[i].kind = "Data" /\ DataTo(out[j], d) => q[i].n < out[j].n
  BY <1>5 DEF Pipe
<1>16. Pipe(d, k, q, out, running, left, count)
  BY <1>6, <1>9, <1>10, <1>11, <1>12, <1>13, <1>14, <1>15 DEF Pipe
<1> QED
  BY <1>16 DEF m, q, k

\* The send thread takes the disconnection: of what was to be sent a part stays, with
\* the reason, if there is one, as its end.
LEMMA PipeEnd ==
    ASSUME NEW d \in Dests, NEW done \in Seq(Nat), NEW line \in Seq(Nat),
           NEW queue \in Seq(ToDest), NEW out \in Seq(Outgoing), NEW running \in BOOLEAN,
           NEW left, NEW count \in Nat,
           Pipe(d, line, queue, out, running, left, count),
           Len(done) <= Len(line), \A i \in 1 .. Len(done) : done[i] = line[i],
           queue # <<>>, Head(queue).kind = "Kick", NEW now, now \in {done, Append(done, Reason)}
    PROVE  Pipe(d, now, Tail(queue), out, FALSE, left, count)
<1>1. /\ Len(queue) \in Nat /\ Len(queue) >= 1 /\ Len(Tail(queue)) = Len(queue) - 1
      /\ Head(queue) = queue[1] /\ Tail(queue) \in Seq(ToDest)
  BY Taken
<1>2. d \in left /\ Len(queue) = 1 /\ running
  <2>1. 1 \in 1 .. Len(queue) /\ queue[1].kind = "Kick"
    BY <1>1
  <2>2. d \in left /\ 1 = Len(queue)
    BY <2>1 DEF Pipe
  <2>3. running
    BY DEF Pipe
  <2> QED
    BY <2>2, <2>3
<1>3. Tail(queue) = <<>> /\ Len(Tail(queue)) = 0
  <2>1. Len(Tail(queue)) = 0
    BY <1>1, <1>2
  <2> QED
    BY <1>1, <2>1, EmptySeq
<1>4. /\ Len(done) \in Nat /\ Len(line) \in Nat
      /\ \A i \in 1 .. Len(done) : i \in 1 .. Len(line) /\ done[i] = line[i]
                                 /\ done[i] \in Nat /\ done[i] # Reason
  <2>1. Len(done) \in Nat /\ Len(line) \in Nat /\ \A i \in 1 .. Len(done) : done[i] \in Nat
    BY ElementOfSeq
  <2> QED
    BY <1>2, <2>1 DEF Pipe
<1>5. Ordered(done)
  BY <1>4 DEF Pipe, Ordered
<1>6. Ordered(now)
  <2>1. CASE now = Append(done, Reason)
    <3>1. /\ Len(now) = Len(done) + 1 /\ now[Len(done) + 1] = Reason
          /\ \A i \in 1 .. Len(done) : now[i] = done[i]
      BY <2>1, Appended DEF Reason
    <3> SUFFICES ASSUME NEW i \in 1 .. Len(now), NEW j \in 1 .. Len(now), i < j
                 PROVE  now[i] # Reason /\ (now[j] = Reason \/ now[i] < now[j])
      BY DEF Ordered
    <3>2. i \in 1 .. Len(done)
      BY <1>4, <3>1
    <3>3. \A m \in Nat : \A x \in 1 .. m + 1 : x \in 1 .. m \/ x = m + 1
      OBVIOUS
    <3>4. j \in 1 .. Len(done) \/ j = Len(done) + 1
      BY <1>4, <3>1, <3>3
    <3> QED
      BY <1>4, <1>5, <3>1, <3>2, <3>4 DEF Ordered
  <2> QED
    BY <1>5, <2>1
<1>7. \A i \in 1 .. Len(now) : now[i] = Reason \/ \E j \in 1 .. Len(line) : now[i] = line[j]
  <2>1. CASE now = Append(done, Reason)
    <3>1. /\ Len(now) = Len(done) + 1 /\ now[Len(done) + 1] = Reason
          /\ \A i \in 1 .. Len(done) : now[i] = done[i]
      BY <2>1, Appended DEF Reason
    <3>2. \A i \in 1 .. Len(now) : i \in 1 .. Len(done) \/ i = Len(done) + 1
      BY <1>4, <3>1
    <3> QED
      BY <1>4, <3>1, <3>2
  <2> QED
    BY <1>4, <2>1
<1>8. \A j \in 1 .. Len(out) : DataTo(out[j], d) => out[j].n \in 1 .. count
  BY DEF Pipe, Rising
<1>9. \A i \in 1 .. Len(now) : now[i] <= count
  <2>1. Reason <= count
    BY DEF Reason
  <2>2. \A j \in 1 .. Len(line) : line[j] <= count
    BY DEF Pipe
  <2> QED
    BY <1>7, <2>1, <2>2
<1>10. \A i \in 1 .. Len(now), j \in 1 .. Len(out) : DataTo(out[j], d) => now[i] < out[j].n
  <2>1. \A j \in 1 .. Len(out) : DataTo(out[j], d) => Reason < out[j].n
    BY <1>8 DEF Reason
  <2>2. \A i \in 1 .. Len(line), j \in 1 .. Len(out) : DataTo(out[j], d) => line[i] < out[j].n
    BY DEF Pipe
  <2> QED
    BY <1>7, <2>1, <2>2
<1>11. Rising(Tail(queue), d, count)
  <2>1. 1 .. Len(Tail(queue)) = {}
    BY <1>3
  <2> QED
    BY <2>1 DEF Rising
<1>12. Rising(out, d, count)
  BY DEF Pipe
<1>13. 1 .. Len(Tail(queue)) = {}
  BY <1>3
<1> QED
  BY <1>2, <1>3, <1>6, <1>9, <1>10, <1>11, <1>12, <1>13 DEF Pipe

Line(d) == delivered[d] \o outgoingMessages[d]

Left == Announced \ destinations

OrderInv ==
    \A d \in Dests :
        Pipe(d, Line(d), sendQueue[d], outgoing, sendRunning[d], Left, sent[d])

\* Sending the first of what waits leaves the line as it is.
LEMMA LineSent ==
    ASSUME NEW s \in Seq(Nat), NEW t \in Seq(Nat), t # <<>>
    PROVE  Append(s, Head(t)) \o Tail(t) = s \o t
<1>1. Tail(t) \in Seq(Nat) /\ Head(t) \in Nat /\ Head(t) = t[1] /\ 1 \in 1 .. Len(t)
  BY Taken
<1>2. t = <<Head(t)>> \o Tail(t)
  <2>1. Len(t) \in 1 .. Len(t)
    BY <1>1
  <2>2. SubSeq(t, 1, Len(t)) = <<t[1]>> \o SubSeq(t, 1 + 1, Len(t))
    BY <1>1, <2>1, SubSeqRecursiveFirst
  <2>3. SubSeq(t, 1, Len(t)) = t /\ Tail(t) = SubSeq(t, 2, Len(t))
    BY SubSeqFull, TailIsSubSeq
  <2> QED
    BY <1>1, <2>2, <2>3
<1>3. Append(s, Head(t)) = s \o <<Head(t)>>
  BY <1>1, AppendIsConcat
<1>4. <<Head(t)>> \in Seq(Nat)
  BY <1>1
<1>5. (s \o <<Head(t)>>) \o Tail(t) = s \o (<<Head(t)>> \o Tail(t))
  BY <1>1, <1>4, ConcatAssociative
<1> QED
  BY <1>2, <1>3, <1>5

\* A number that is added to what waits is added to the line.
LEMMA LineAppended ==
    ASSUME NEW s \in Seq(Nat), NEW t \in Seq(Nat), NEW n \in Nat
    PROVE  s \o Append(t, n) = Append(s \o t, n)
OBVIOUS
\* What was written is the beginning of the line.
LEMMA LinePrefix ==
    ASSUME NEW s \in Seq(Nat), NEW t \in Seq(Nat)
    PROVE  /\ Len(s) <= Len(s \o t)
           /\ \A i \in 1 .. Len(s) : i \in 1 .. Len(s \o t) /\ s[i] = (s \o t)[i]
<1>1. /\ Len(s \o t) = Len(s) + Len(t)
      /\ \A i \in 1 .. Len(s) + Len(t) :
          (s \o t)[i] = IF i <= Len(s) THEN s[i] ELSE t[i - Len(s)]
  BY ConcatProperties
<1>2. \A m, n \in Nat : m <= m + n /\ \A i \in 1 .. m : i \in 1 .. m + n /\ i <= m
  OBVIOUS
<1>3. Len(s) \in Nat /\ Len(t) \in Nat
  BY LenProperties
<1>4. \A i \in 1 .. Len(s) : i \in 1 .. Len(s) + Len(t) /\ i <= Len(s)
  BY <1>2, <1>3
<1>5. Len(s) <= Len(s) + Len(t)
  BY <1>2, <1>3
<1> QED
  BY <1>1, <1>4, <1>5

LEMMA OrderTypes ==
    ASSUME TypeInv, NEW d \in Dests
    PROVE  /\ delivered[d] \in Seq(Nat) /\ outgoingMessages[d] \in Seq(Nat)
           /\ Line(d) \in Seq(Nat) /\ sendQueue[d] \in Seq(ToDest)
           /\ sendQueue \in [Dests -> Seq(ToDest)]
           /\ outgoing \in Seq(Outgoing) /\ sendRunning[d] \in BOOLEAN /\ sent[d] \in Nat
<1>1. /\ delivered[d] \in Seq(Nat) /\ outgoingMessages[d] \in Seq(Nat)
      /\ sendQueue[d] \in Seq(ToDest) /\ sendQueue \in [Dests -> Seq(ToDest)]
      /\ outgoing \in Seq(Outgoing) /\ sendRunning[d] \in BOOLEAN /\ sent[d] \in Nat
  BY DEF TypeInv, TypeOK
<1> QED
  BY <1>1, ConcatProperties DEF Line

\* Who has left stays so.
LEMMA PipeLeft ==
    ASSUME NEW d, NEW line, NEW queue, NEW out, NEW running, NEW left, NEW then, NEW count,
           Pipe(d, line, queue, out, running, left, count), left \subseteq then
    PROVE  Pipe(d, line, queue, out, running, then, count)
BY DEF Pipe

\* What a step of the network thread does to the queues of the send threads.
LEMMA NetThreadQueues ==
    ASSUME TypeInv, NetThread
    PROVE  /\ UNCHANGED <<delivered, outgoingMessages, sendRunning, sent>>
           /\ outgoing' = outgoing \/ (outgoing # <<>> /\ outgoing' = Tail(outgoing))
           /\ \/ UNCHANGED sendQueue
              \/ \E c \in destinations, n \in Nat : Close(c, n) /\ UNCHANGED Announced
              \/ /\ outgoing # <<>> /\ outgoing' = Tail(outgoing)
                 /\ Head(outgoing) \in ToDest /\ Head(outgoing).kind = "Data"
                 /\ Head(outgoing).dest \in destinations
                 /\ sendQueue' = [sendQueue EXCEPT ![Head(outgoing).dest] =
                                     Append(@, Head(outgoing))]
<1>1. CASE CheckClients
  <2>1. UNCHANGED <<delivered, outgoingMessages, sendRunning, sent, outgoing, Announced>>
    BY <1>1 DEF CheckClients, peerVars, Announced, Accepted
  <2> QED
    BY <1>1, <2>1 DEF CheckClients
<1>2. CASE CheckNewConnections
  BY <1>2 DEF CheckNewConnections, sendVars, gameVars, peerVars
<1>3. CASE AddDestination
  BY <1>3 DEF AddDestination, sendVars, peerVars
<1>4. CASE ProcessOutgoing
  <2>1. /\ UNCHANGED <<delivered, outgoingMessages, sendRunning, sent, Announced>>
        /\ outgoing # <<>> /\ outgoing' = Tail(outgoing) /\ Head(outgoing) # DisconnectAll
    BY <1>4 DEF ProcessOutgoing, peerVars, Announced, Accepted
  <2>2. Head(outgoing) \in ToDest
    <3>1. outgoing \in Seq(Outgoing)
      BY DEF TypeInv, TypeOK
    <3> QED
      BY <2>1, <3>1, Taken DEF Outgoing
  <2>3. Head(outgoing).n \in Nat
    BY <2>2 DEF ToDest
  <2> QED
    BY <1>4, <2>1, <2>2, <2>3 DEF ProcessOutgoing, DestroyDestination
<1>5. CASE ProcessDisconnectAll
  <2>1. /\ UNCHANGED <<delivered, outgoingMessages, sendRunning, sent, Announced>>
        /\ outgoing # <<>>
    BY <1>5 DEF ProcessDisconnectAll, peerVars, Announced, Accepted
  <2> QED
    BY <1>5, <2>1 DEF ProcessDisconnectAll, DestroyDestination
<1>6. CASE EndOfLoop
  BY <1>6 DEF EndOfLoop, sendVars, gameVars, peerVars
<1>7. CASE Tidy
  BY <1>7 DEF Tidy, sendVars, gameVars, peerVars
<1> QED
  BY <1>1, <1>2, <1>3, <1>4, <1>5, <1>6, <1>7 DEF NetThread

LEMMA NetThreadOrder ==
    ASSUME TypeInv, LivesInv, OrderInv, NetThread
    PROVE  OrderInv'
<1>1. Left \subseteq Left'
  BY NetThreadSteps DEF Left
<1>2. destinations \subseteq Announced /\ destinations \subseteq Dests
  BY AnnouncedType DEF LivesInv, Lives
<1> SUFFICES ASSUME NEW d \in Dests
             PROVE  Pipe(d, Line(d), sendQueue[d], outgoing, sendRunning[d], Left, sent[d])'
  BY DEF OrderInv
<1>3. Line(d)' = Line(d) /\ sendRunning'[d] = sendRunning[d] /\ sent'[d] = sent[d]
  BY NetThreadQueues DEF Line
<1>4. /\ Line(d) \in Seq(Nat) /\ sendQueue[d] \in Seq(ToDest) /\ outgoing \in Seq(Outgoing)
      /\ sendRunning[d] \in BOOLEAN /\ sent[d] \in Nat
      /\ sendQueue \in [Dests -> Seq(ToDest)]
  BY OrderTypes
<1>5. Pipe(d, Line(d), sendQueue[d], outgoing, sendRunning[d], Left, sent[d])
  BY DEF OrderInv
<1>6. Pipe(d, Line(d), sendQueue[d], outgoing', sendRunning[d], Left, sent[d])
      /\ outgoing' \in Seq(Outgoing)
  <2>1. CASE outgoing' = outgoing
    BY <1>4, <1>5, <2>1
  <2>2. CASE outgoing # <<>> /\ outgoing' = Tail(outgoing)
    <3>1. Tail(outgoing) \in Seq(Outgoing)
      BY <1>4, <2>2, Taken
    <3>2. Pipe(d, Line(d), sendQueue[d], Tail(outgoing), sendRunning[d], Left, sent[d])
      BY <1>4, <1>5, <2>2, PipeTaken
    <3> QED
      BY <2>2, <3>1, <3>2
  <2> QED
    BY <2>1, <2>2, NetThreadQueues
<1>7. CASE sendQueue'[d] = sendQueue[d]
  BY <1>1, <1>3, <1>6, <1>7, PipeLeft
<1>8. ASSUME NEW n \in Nat, d \in destinations, Close(d, n), UNCHANGED Announced
      PROVE  Pipe(d, Line(d), sendQueue[d], outgoing, sendRunning[d], Left, sent[d])'
  <2>1. d \notin Left /\ Left \cup {d} \subseteq Left'
    BY <1>1, <1>2, <1>8 DEF Left, Close
  <2>2. sendQueue'[d] = Append(sendQueue[d], Kick(d, n))
    BY <1>4, <1>8 DEF Close
  <2>3. Pipe(d, Line(d), sendQueue'[d], outgoing', sendRunning[d], Left \cup {d}, sent[d])
    BY <1>4, <1>6, <2>1, <2>2, PipeClosed
  <2> QED
    BY <1>3, <2>1, <2>3, PipeLeft
<1>9. ASSUME outgoing # <<>>, outgoing' = Tail(outgoing), Head(outgoing) \in ToDest,
             Head(outgoing).kind = "Data", Head(outgoing).dest = d, d \in destinations,
             sendQueue'[d] = Append(sendQueue[d], Head(outgoing))
      PROVE  Pipe(d, Line(d), sendQueue[d], outgoing, sendRunning[d], Left, sent[d])'
  <2>1. d \notin Left /\ DataTo(Head(outgoing), d)
    BY <1>9 DEF Left, DataTo
  <2>2. Pipe(d, Line(d), sendQueue'[d], outgoing', sendRunning[d], Left, sent[d])
    BY <1>4, <1>5, <1>9, <2>1, PipeQueued
  <2> QED
    BY <1>1, <1>3, <2>2, PipeLeft
<1>10. \A c \in destinations, n \in Nat : c # d /\ Close(c, n) => sendQueue'[d] = sendQueue[d]
  BY <1>2, <1>4 DEF Close
<1>11. \/ UNCHANGED sendQueue
       \/ \E c \in destinations, n \in Nat : Close(c, n) /\ UNCHANGED Announced
       \/ /\ outgoing # <<>> /\ outgoing' = Tail(outgoing)
          /\ Head(outgoing) \in ToDest /\ Head(outgoing).kind = "Data"
          /\ Head(outgoing).dest \in destinations
          /\ sendQueue' = [sendQueue EXCEPT ![Head(outgoing).dest] =
                              Append(@, Head(outgoing))]
  BY NetThreadQueues
<1> QED
  BY <1>2, <1>4, <1>7, <1>8, <1>9, <1>10, <1>11

LEMMA SendThreadOrder ==
    ASSUME TypeInv, OrderInv, NEW c \in Dests, SendThread(c)
    PROVE  OrderInv'
<1> SUFFICES ASSUME NEW d \in Dests
             PROVE  Pipe(d, Line(d), sendQueue[d], outgoing, sendRunning[d], Left, sent[d])'
  BY DEF OrderInv
<1>1. UNCHANGED <<outgoing, sent>> /\ Left' = Left
  BY DEF SendThread, gameVars, netVars, Left, Announced, Accepted
<1>2. /\ delivered[d] \in Seq(Nat) /\ outgoingMessages[d] \in Seq(Nat)
      /\ Line(d) \in Seq(Nat) /\ sendQueue[d] \in Seq(ToDest) /\ outgoing \in Seq(Outgoing)
      /\ sendRunning[d] \in BOOLEAN /\ sent[d] \in Nat
  BY OrderTypes
<1>3. /\ sendQueue \in [Dests -> Seq(ToDest)] /\ outgoingMessages \in [Dests -> Seq(Nat)]
      /\ sendRunning \in [Dests -> BOOLEAN] /\ delivered \in [Dests -> Seq(Nat)]
  BY DEF TypeInv, TypeOK
<1>4. Pipe(d, Line(d), sendQueue[d], outgoing, sendRunning[d], Left, sent[d])
  BY DEF OrderInv
<1>5. CASE UNCHANGED <<Line(d), sendQueue[d], sendRunning[d]>>
  BY <1>1, <1>4, <1>5
<1>6. CASE d # c
  <2>1. /\ sendQueue'[d] = sendQueue[d] /\ outgoingMessages'[d] = outgoingMessages[d]
        /\ sendRunning'[d] = sendRunning[d] /\ delivered'[d] = delivered[d]
    BY <1>3, <1>6 DEF SendThread, SendProcess, SendFirst, SendNothing
  <2> QED
    BY <1>5, <2>1 DEF Line
<1>7. CASE d = c /\ SendProcess(d)
  <2> DEFINE m == Head(sendQueue[d])
  <2>1. /\ sendQueue[d] # <<>> /\ sendQueue'[d] = Tail(sendQueue[d])
        /\ outgoingMessages'[d] = ToSend(outgoingMessages[d], m)
        /\ delivered'[d] = delivered[d]
    BY <1>3, <1>7 DEF SendProcess
  <2>2. m \in ToDest /\ m.n \in Nat /\ m.kind \in {"Data", "Kick"}
    <3>1. m \in ToDest
      BY <1>2, <2>1, Taken
    <3> QED
      BY <3>1 DEF ToDest
  <2>3. CASE m.kind = "Data"
    <3>1. sendRunning'[d] = sendRunning[d]
      <4>1. m.kind # "Kick"
        BY <2>3
      <4>2. sendRunning'[d] = (sendRunning[d] /\ m.kind # "Kick")
        BY <1>3, <1>7 DEF SendProcess
      <4> HIDE DEF m
      <4> QED
        BY <1>2, <4>1, <4>2
    <3>2. Line(d)' = Append(Line(d), m.n)
      <4>1. outgoingMessages'[d] = Append(outgoingMessages[d], m.n)
        BY <2>1, <2>3 DEF ToSend
      <4>2. Line(d)' = delivered[d] \o Append(outgoingMessages[d], m.n)
        BY <2>1, <4>1 DEF Line
      <4> HIDE DEF m
      <4>3. delivered[d] \o Append(outgoingMessages[d], m.n) = Append(Line(d), m.n)
        BY <1>2, <2>2, LineAppended DEF Line
      <4> QED
        BY <4>2, <4>3
    <3>3. Pipe(d, Append(Line(d), m.n), Tail(sendQueue[d]), outgoing, sendRunning[d], Left, sent[d])
      BY <1>2, <1>4, <2>1, <2>3, PipeNumber
    <3> QED
      BY <1>1, <2>1, <3>1, <3>2, <3>3
  <2>4. CASE m.kind = "Kick"
    <3>1. sendRunning'[d] = FALSE
      BY <1>2, <1>3, <1>7, <2>4 DEF SendProcess
    <3>2. outgoingMessages'[d] \in {<<>>, <<Reason>>}
      BY <2>1, <2>4 DEF ToSend
    <3>3. Line(d)' \in {delivered[d], Append(delivered[d], Reason)}
      <4>1. delivered[d] \o <<>> = delivered[d]
        BY <1>2, ConcatEmptySeq
      <4>2. delivered[d] \o <<Reason>> = Append(delivered[d], Reason)
        BY <1>2, AppendIsConcat DEF Reason
      <4> QED
        BY <2>1, <3>2, <4>1, <4>2 DEF Line
    <3>4. Len(delivered[d]) <= Len(Line(d))
          /\ \A i \in 1 .. Len(delivered[d]) : delivered[d][i] = Line(d)[i]
      BY <1>2, LinePrefix DEF Line
    <3>5. Pipe(d, Line(d)', Tail(sendQueue[d]), outgoing, FALSE, Left, sent[d])
      BY <1>2, <1>4, <2>1, <2>4, <3>3, <3>4, PipeEnd
    <3> QED
      BY <1>1, <2>1, <3>1, <3>5
  <2> QED
    BY <2>2, <2>3, <2>4
<1>8. CASE d = c /\ SendFirst(d)
  <2>1. UNCHANGED <<sendQueue, sendRunning>>
    BY <1>8 DEF SendFirst
  <2>2. CASE UNCHANGED <<delivered, outgoingMessages>>
    BY <1>5, <2>1, <2>2 DEF Line
  <2>3. CASE /\ delivered' = [delivered EXCEPT ![d] = Append(@, Head(outgoingMessages[d]))]
             /\ outgoingMessages' = [outgoingMessages EXCEPT ![d] = Tail(@)]
    <3>1. Line(d)' = Append(delivered[d], Head(outgoingMessages[d])) \o Tail(outgoingMessages[d])
      BY <1>3, <2>3 DEF Line
    <3>2. Line(d)' = Line(d)
      BY <1>2, <1>8, <3>1, LineSent DEF Line, SendFirst
    <3> QED
      BY <1>5, <2>1, <3>2
  <2> QED
    BY <1>8, <2>2, <2>3 DEF SendFirst
<1>9. CASE d = c /\ SendNothing(d)
  BY <1>5, <1>9 DEF SendNothing, Line
<1> QED
  BY <1>6, <1>7, <1>8, <1>9 DEF SendThread

\* The game queues at most one message, numbered if it is data.
LEMMA GameOrder ==
    ASSUME TypeInv, OrderInv,
           UNCHANGED <<netVars, delivered, outgoingMessages, sendQueue, sendRunning>>,
           \/ UNCHANGED <<outgoing, sent>>
           \/ /\ UNCHANGED sent
              /\ \E m \in Outgoing : outgoing' = Append(outgoing, m) /\ m.kind # "Data"
           \/ \E c \in Dests : /\ sent' = [sent EXCEPT ![c] = @ + 1]
                              /\ outgoing' = Append(outgoing, Data(c, sent[c] + 1))
    PROVE  OrderInv'
<1> SUFFICES ASSUME NEW d \in Dests
             PROVE  Pipe(d, Line(d), sendQueue[d], outgoing, sendRunning[d], Left, sent[d])'
  BY DEF OrderInv
<1>1. Left' = Left /\ Line(d)' = Line(d) /\ UNCHANGED <<sendQueue, sendRunning>>
  BY DEF netVars, Left, Announced, Accepted, Line
<1>2. /\ Line(d) \in Seq(Nat) /\ sendQueue[d] \in Seq(ToDest) /\ outgoing \in Seq(Outgoing)
      /\ sendRunning[d] \in BOOLEAN /\ sent[d] \in Nat
  BY OrderTypes
<1>3. sent \in [Dests -> Nat]
  BY DEF TypeInv, TypeOK
<1>4. Pipe(d, Line(d), sendQueue[d], outgoing, sendRunning[d], Left, sent[d])
  BY DEF OrderInv
<1>5. CASE UNCHANGED <<outgoing, sent>>
  BY <1>1, <1>4, <1>5
<1>6. ASSUME NEW m \in Outgoing, outgoing' = Append(outgoing, m), m.kind # "Data",
             UNCHANGED sent
      PROVE  Pipe(d, Line(d), sendQueue[d], outgoing, sendRunning[d], Left, sent[d])'
  <2>1. ~DataTo(m, d)
    BY <1>6 DEF DataTo
  <2>2. Pipe(d, Line(d), sendQueue[d], outgoing', sendRunning[d], Left, sent[d])
    BY <1>2, <1>4, <1>6, <2>1, PipeSent
  <2> QED
    BY <1>1, <1>6, <2>2
<1>7. ASSUME NEW c \in Dests, sent' = [sent EXCEPT ![c] = @ + 1],
             outgoing' = Append(outgoing, Data(c, sent[c] + 1))
      PROVE  Pipe(d, Line(d), sendQueue[d], outgoing, sendRunning[d], Left, sent[d])'
  <2> DEFINE m == Data(c, sent[c] + 1)
  <2>1. sent[c] + 1 \in Nat
    BY <1>3
  <2>2. m \in Outgoing /\ m.dest = c /\ m.n = sent[c] + 1
    BY <2>1, MessageTypes DEF Data
  <2>3. /\ sent'[d] \in Nat /\ sent[d] <= sent'[d]
        /\ DataTo(m, d) => m.n = sent'[d] /\ sent'[d] = sent[d] + 1
    BY <1>3, <1>7, <2>2 DEF DataTo
  <2>4. Pipe(d, Line(d), sendQueue[d], outgoing', sendRunning[d], Left, sent'[d])
    BY <1>2, <1>4, <1>7, <2>2, <2>3, PipeSent
  <2> QED
    BY <1>1, <2>4
<1> QED
  BY <1>5, <1>6, <1>7

LEMMA NextOrder == TypeInv /\ LivesInv /\ OrderInv /\ [Next]_vars => OrderInv'
<1> SUFFICES ASSUME TypeInv, LivesInv, OrderInv, [Next]_vars PROVE OrderInv'
  OBVIOUS
<1>0. \A d \in Dests, n \in Nat : Kick(d, n) \in Outgoing /\ Kick(d, n).kind # "Data"
  BY MessageTypes DEF Kick
<1>1. CASE NetThread
  BY <1>1, NetThreadOrder
<1>2. CASE ProcessIncoming
  <2>1. Head(incoming).dest \in Dests
    <3>1. incoming \in Seq(Incoming) /\ incoming # <<>>
      BY <1>2 DEF ProcessIncoming, TypeInv, TypeOK
    <3>2. Head(incoming) \in Incoming
      BY <3>1, Taken
    <3> QED
      BY <3>2, IncomingMessages
  <2>2. /\ UNCHANGED <<netVars, delivered, outgoingMessages, sendQueue, sendRunning, sent>>
        /\ \/ UNCHANGED outgoing
           \/ \E n \in {0, 1} : outgoing' = Append(outgoing, Kick(Head(incoming).dest, n))
    BY <1>2 DEF ProcessIncoming, HandleConnect, HandleBuffer, HandleDisconnect, Queue,
         sendVars, peerVars
  <2> QED
    BY <1>0, <2>1, <2>2, GameOrder
<1>3. CASE Stop
  <2>1. DisconnectAll \in Outgoing /\ DisconnectAll.kind # "Data"
    BY DEF Outgoing, DisconnectAll
  <2>2. /\ UNCHANGED <<netVars, delivered, outgoingMessages, sendQueue, sendRunning, sent>>
        /\ outgoing' = Append(outgoing, DisconnectAll)
    BY <1>3 DEF Stop, Queue, sendVars, peerVars
  <2> QED
    BY <2>1, <2>2, GameOrder
<1>4. ASSUME NEW d \in Dests, SendThread(d) PROVE OrderInv'
  BY <1>4, SendThreadOrder
<1>5. ASSUME NEW d \in Dests, RecvThread(d) PROVE OrderInv'
  BY <1>5, GameOrder DEF RecvThread, sendVars
<1>6. ASSUME NEW d \in Dests, SendMessage(d) PROVE OrderInv'
  BY <1>6, GameOrder DEF SendMessage, Queue, sendVars, peerVars
<1>7. ASSUME NEW d \in Dests, DisconnectClient(d) PROVE OrderInv'
  BY <1>0, <1>7, GameOrder DEF DisconnectClient, Queue, sendVars, peerVars
<1>8. ASSUME NEW d \in Dests, ClientCloses(d) PROVE OrderInv'
  BY <1>8, GameOrder DEF ClientCloses, sendVars, gameVars
<1>9. CASE UNCHANGED vars
  BY <1>9, GameOrder DEF vars, sendVars, gameVars, peerVars
<1> QED
  BY <1>1, <1>2, <1>3, <1>4, <1>5, <1>6, <1>7, <1>8, <1>9 DEF Next

LEMMA InitOrder == Init => OrderInv
<1> SUFFICES ASSUME Init, NEW d \in Dests
             PROVE  Pipe(d, Line(d), sendQueue[d], outgoing, sendRunning[d], Left, sent[d])
  BY DEF OrderInv
<1>1. delivered[d] = <<>> /\ outgoingMessages[d] = <<>> /\ sendQueue[d] = <<>>
      /\ outgoing = <<>> /\ sendRunning[d] = TRUE
  BY DEF Init
<1>2. Line(d) = <<>>
  BY <1>1 DEF Line
<1>3. 1 .. Len(<<>>) = {}
  OBVIOUS
<1> QED
  BY <1>1, <1>2, <1>3 DEF Pipe, Ordered, Rising

\* A client gets what was sent to it in the order in which it was sent, and nothing
\* after the reason of its disconnection.
THEOREM OrderCorrect == Spec => []DeliveredInOrder
<1>1. TypeInv /\ OrderInv => DeliveredInOrder
  <2> SUFFICES ASSUME TypeInv, OrderInv, NEW d \in Dests,
                      NEW i \in 1 .. Len(delivered[d]), NEW j \in 1 .. Len(delivered[d]), i < j
               PROVE  /\ delivered[d][i] # Reason
                      /\ delivered[d][j] = Reason \/ delivered[d][i] < delivered[d][j]
    BY DEF DeliveredInOrder
  <2>1. delivered[d] \in Seq(Nat) /\ outgoingMessages[d] \in Seq(Nat)
    BY OrderTypes
  <2>2. /\ i \in 1 .. Len(Line(d)) /\ Line(d)[i] = delivered[d][i]
        /\ j \in 1 .. Len(Line(d)) /\ Line(d)[j] = delivered[d][j]
    BY <2>1, LinePrefix DEF Line
  <2>3. Ordered(Line(d))
    BY DEF OrderInv, Pipe
  <2> QED
    BY <2>2, <2>3 DEF Ordered
<1>2. Init => LivesInv
  BY InitHeard
<1> QED
  BY <1>1, <1>2, InitTypes, InitOrder, NextTypes, NextLives, NextOrder, PTL DEF Spec
=============================================================================
