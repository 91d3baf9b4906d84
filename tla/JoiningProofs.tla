---------------------------- MODULE JoiningProofs ----------------------------
(***************************************************************************)
(* Proofs about Joining, for any number of destinations and players.       *)
(***************************************************************************)
EXTENDS Joining, FiniteSetTheorems, TLAPS

-----------------------------------------------------------------------------
(* What is in a queue. *)

Has(q, x) == \E i \in 1 .. Len(q) : q[i] = x

\* A queue that is added to another.
LEMMA HasConcat ==
    ASSUME NEW S, NEW a \in Seq(S), NEW b \in Seq(S)
    PROVE  /\ a \o b \in Seq(S)
           /\ \A x : Has(a \o b, x) <=> Has(a, x) \/ Has(b, x)
<1>1. /\ a \o b \in Seq(S) /\ Len(a) \in Nat /\ Len(b) \in Nat
      /\ Len(a \o b) = Len(a) + Len(b)
      /\ \A i \in 1 .. Len(a) : (a \o b)[i] = a[i]
      /\ \A i \in 1 .. Len(b) : (a \o b)[Len(a) + i] = b[i]
  OBVIOUS
<1>2. ASSUME NEW x, Has(a \o b, x)
      PROVE  Has(a, x) \/ Has(b, x)
  <2>1. PICK i \in 1 .. Len(a \o b) : (a \o b)[i] = x
    BY <1>2 DEF Has
  <2>2. CASE i \in 1 .. Len(a)
    BY <2>1, <2>2, <1>1 DEF Has
  <2>3. CASE i \notin 1 .. Len(a)
    <3>1. i - Len(a) \in 1 .. Len(b) /\ i = Len(a) + (i - Len(a))
      BY <2>3, <1>1
    <3>2. b[i - Len(a)] = x
      BY <3>1, <1>1, <2>1
    <3> QED
      BY <3>1, <3>2 DEF Has
  <2> QED
    BY <2>2, <2>3
<1>3. ASSUME NEW x, Has(a, x)
      PROVE  Has(a \o b, x)
  <2>1. PICK i \in 1 .. Len(a) : a[i] = x
    BY <1>3 DEF Has
  <2>2. i \in 1 .. Len(a \o b) /\ (a \o b)[i] = x
    BY <2>1, <1>1
  <2> QED
    BY <2>2 DEF Has
<1>4. ASSUME NEW x, Has(b, x)
      PROVE  Has(a \o b, x)
  <2>1. PICK i \in 1 .. Len(b) : b[i] = x
    BY <1>4 DEF Has
  <2>2. Len(a) + i \in 1 .. Len(a \o b) /\ (a \o b)[Len(a) + i] = x
    BY <2>1, <1>1
  <2> QED
    BY <2>2 DEF Has
<1> QED
  BY <1>1, <1>2, <1>3, <1>4

\* A queue whose first element is taken.
LEMMA HasTail ==
    ASSUME NEW S, NEW q \in Seq(S), q # <<>>
    PROVE  /\ Tail(q) \in Seq(S) /\ Head(q) \in S /\ Has(q, Head(q))
           /\ \A x : Has(Tail(q), x) => Has(q, x)
           /\ \A x : Has(q, x) => x = Head(q) \/ Has(Tail(q), x)
<1>1. /\ Tail(q) \in Seq(S) /\ Len(q) \in Nat /\ Len(q) >= 1
      /\ Len(Tail(q)) = Len(q) - 1
      /\ \A i \in 1 .. Len(q) - 1 : Tail(q)[i] = q[i + 1]
      /\ Head(q) = q[1] /\ Head(q) \in S
  OBVIOUS
<1>2. ASSUME NEW x, Has(Tail(q), x)
      PROVE  Has(q, x)
  <2>1. PICK i \in 1 .. Len(q) - 1 : Tail(q)[i] = x
    BY <1>1, <1>2 DEF Has
  <2>2. i + 1 \in 1 .. Len(q) /\ q[i + 1] = x
    BY <2>1, <1>1
  <2> QED
    BY <2>2 DEF Has
<1>3. ASSUME NEW x, Has(q, x)
      PROVE  x = Head(q) \/ Has(Tail(q), x)
  <2>1. PICK i \in 1 .. Len(q) : q[i] = x
    BY <1>3 DEF Has
  <2>2. CASE i = 1
    BY <2>1, <2>2, <1>1
  <2>3. CASE i # 1
    <3>1. i - 1 \in 1 .. Len(Tail(q)) /\ Tail(q)[i - 1] = x
      BY <2>1, <2>3, <1>1
    <3> QED
      BY <3>1 DEF Has
  <2> QED
    BY <2>2, <2>3
<1>4. 1 \in 1 .. Len(q)
  BY <1>1
<1> QED
  BY <1>1, <1>2, <1>3, <1>4 DEF Has

\* The queue of the elements of a finite set.
LEMMA HasSetToSeq ==
    ASSUME NEW S, IsFiniteSet(S)
    PROVE  /\ SetToSeq(S) \in Seq(S)
           /\ \A x : Has(SetToSeq(S), x) <=> x \in S
<1> DEFINE n == Cardinality(S)
           f == SetToSeq(S)
<1>1. n \in Nat /\ ExistsBijection(1 .. n, S)
  BY FS_CardinalityType
<1>2. f \in [1 .. n -> S] /\ IsInjective(f)
  <2>1. \E g \in [1 .. n -> S] : IsInjective(g)
    BY <1>1 DEF ExistsBijection, Bijection, Injection, IsInjective
  <2> QED
    BY <2>1 DEF SetToSeq
<1>3. f \in Seq(S) /\ Len(f) = n
  BY <1>1, <1>2
<1>4. f \in Injection(1 .. n, S)
  BY <1>2 DEF Injection, IsInjective
<1>5. Cardinality(1 .. n) = n
  BY <1>1, FS_Interval
<1>6. f \in Surjection(1 .. n, S)
  BY <1>4, <1>5, FS_Injection
<1>7. \A x \in S : \E i \in 1 .. n : f[i] = x
  BY <1>6 DEF Surjection
<1>8. \A i \in 1 .. n : f[i] \in S
  BY <1>2
<1> HIDE DEF n, f
<1>9. \A x : Has(f, x) <=> x \in S
  BY <1>3, <1>7, <1>8 DEF Has
<1> QED
  BY <1>3, <1>9 DEF f

\* The queue of the removals of a finite set of players.
LEMMA Removals ==
    ASSUME NEW players \in SUBSET Players, IsFiniteSet(players)
    PROVE  /\ SetToSeq({TankRemoveSim(p) : p \in players}) \in Seq(Actions)
           /\ \A x : Has(SetToSeq({TankRemoveSim(p) : p \in players}), x)
                        <=> \E p \in players : x = TankRemoveSim(p)
<1> DEFINE S == {TankRemoveSim(p) : p \in players}
           f == [p \in players |-> TankRemoveSim(p)]
<1>1. f \in Surjection(players, S)
  BY DEF Surjection
<1>2. IsFiniteSet(S)
  <2> HIDE DEF S, f
  <2> QED
    BY <1>1, FS_Surjection
<1>3. SetToSeq(S) \in Seq(S) /\ \A x : Has(SetToSeq(S), x) <=> x \in S
  BY <1>2, HasSetToSeq
<1>4. S \subseteq Actions
  BY DEF TankRemoveSim, Actions
<1>5. SetToSeq(S) \in Seq(Actions)
  <2> HIDE DEF S
  <2> QED BY <1>3, <1>4
<1> QED
  BY <1>3, <1>5
-----------------------------------------------------------------------------
(* The types. *)

\* A request is in process exactly while a kick processes messages, and the tanks
\* are finitely many.
TypeInv ==
    /\ TypeOK
    /\ IsFiniteSet(tanks)
    /\ main = "kick" => current >= 1
    /\ main # "kick" => current = 0

\* The actions that put a player on the server and take it away are different.
LEMMA ActionsDiffer ==
    ASSUME NEW p \in Players
    PROVE  /\ TankAdd(p) \in Actions /\ TankRemoveSim(p) \in Actions
           /\ \A q : TankAdd(q) # TankRemoveSim(p)
           /\ \A q : TankAdd(q) = TankAdd(p) => q = p
           /\ \A q : TankRemoveSim(q) = TankRemoveSim(p) => q = p
BY DEF TankAdd, TankRemoveSim, Actions

\* Every action on its way is one of the two.
LEMMA ActionKinds ==
    ASSUME NEW a \in Actions
    PROVE  /\ a.player \in Players
           /\ a.kind = "Add" => a = TankAdd(a.player)
           /\ a.kind = "Remove" => a = TankRemoveSim(a.player)
BY DEF TankAdd, TankRemoveSim, Actions

\* What an accepted destination asks for.
LEMMA Additions ==
    ASSUME NEW d \in Destinations
    PROVE  LET q == [k \in 1 .. NoPlayers[d] |-> TankAdd(<<d, k>>)]
           IN  /\ q \in Seq(Actions)
               /\ \A x : Has(q, x) <=> \E k \in 1 .. NoPlayers[d] : x = TankAdd(<<d, k>>)
<1> DEFINE n == NoPlayers[d]
           q == [k \in 1 .. n |-> TankAdd(<<d, k>>)]
<1>1. n \in Nat
  BY JoiningAssumption
<1>2. \A k \in 1 .. n : <<d, k>> \in Players
  BY DEF Players
<1>3. \A k \in 1 .. n : TankAdd(<<d, k>>) \in Actions
  BY <1>2, ActionsDiffer
<1>4. q \in Seq(Actions) /\ Len(q) = n
  <2>1. q \in [1 .. n -> Actions]
    BY <1>3
  <2> HIDE DEF n, q
  <2> QED
    BY <1>1, <2>1
<1>5. \A x : Has(q, x) <=> \E k \in 1 .. n : x = TankAdd(<<d, k>>)
  <2>1. \A k \in 1 .. n : q[k] = TankAdd(<<d, k>>)
    OBVIOUS
  <2> HIDE DEF n, q
  <2> QED BY <1>4, <2>1 DEF Has
<1> QED
  BY <1>4, <1>5

\* The last request is deleted.
Requests == [dest : Destinations, deleted : BOOLEAN]

LEMMA LastRequest ==
    ASSUME TypeOK, authMessages # <<>>
    PROVE  /\ authMessages \in Seq(Requests) /\ Len(authMessages) \in Nat \ {0}
           /\ Last(authMessages) \in Requests
<1>1. authMessages \in Seq(Requests)
  BY DEF TypeOK, Requests
<1>2. Len(authMessages) \in Nat \ {0} /\ authMessages[Len(authMessages)] \in Requests
  BY <1>1
<1> QED
  BY <1>1, <1>2 DEF Last

LEMMA PopBackTypes ==
    ASSUME authMessages \in Seq(Requests), authMessages # <<>>, NEW at, PopBack(at)
    PROVE  /\ authMessages' \in Seq(Requests)
           /\ Len(authMessages') = Len(authMessages) - 1
<1> DEFINE n == Len(authMessages)
           q == [i \in 1 .. n |->
                   IF i = at THEN [authMessages[i] EXCEPT !.deleted = TRUE]
                             ELSE authMessages[i]]
<1>1. n \in Nat /\ n >= 1 /\ \A i \in 1 .. n : authMessages[i] \in Requests
  OBVIOUS
<1>2. \A i \in 1 .. n : [authMessages[i] EXCEPT !.deleted = TRUE] \in Requests
  BY <1>1 DEF Requests
<1>3. q \in [1 .. n -> Requests]
  BY <1>1, <1>2
<1>4. authMessages' = Front(q)
  BY DEF PopBack
<1> HIDE DEF n, q
<1>5. q \in Seq(Requests) /\ Len(q) = n
  BY <1>1, <1>3
<1>6. authMessages' = SubSeq(q, 1, n - 1)
  BY <1>4, <1>5 DEF Front
<1> QED
  BY <1>1, <1>5, <1>6 DEF n

\* What a step may do to the players: nothing that matters here; the end of the
\* connection of d; a kick of a player whose destination is gone; an action of the
\* simulation; the end of a removal; or the acceptance of a request.
Quiet == UNCHANGED <<waiting, tankVars>> /\ known \subseteq known'

Ends(d) == HandleDisconnect(d) /\ UNCHANGED tankVars

KickGone(p) == DestroyPlayers({p}) /\ UNCHANGED <<known, tankVars>>

Adds(p) ==
    waiting # <<>> /\ Head(waiting) = TankAdd(p) /\ AddTank(p) /\ UNCHANGED known

Removes(p) ==
    waiting # <<>> /\ Head(waiting) = TankRemoveSim(p) /\ RemoveTank(p) /\ UNCHANGED known

Vanishes(p) ==
    /\ removing' = removing \ {p} /\ tanks' = tanks \ {p} /\ left' = left \ {p}
    /\ UNCHANGED <<waiting, known>>

Accepted(d) == MayServe /\ Accept(d) /\ UNCHANGED <<known, tankVars>>

PlayerStep ==
    \/ Quiet
    \/ \E d \in Destinations : Ends(d) \/ Accepted(d)
    \/ \E p \in Players : KickGone(p) \/ Adds(p) \/ Removes(p) \/ Vanishes(p)

\* Every step is one of them.
LEMMA PlayerSteps ==
    ASSUME TypeOK, Next
    PROVE  PlayerStep
<1>1. CASE ProcessMessage
  <2>1. Head(incoming) \in Messages
    BY <1>1 DEF ProcessMessage, TypeOK
  <2>2. Head(incoming).dest \in Destinations
    BY <2>1 DEF Messages
  <2>3. UNCHANGED tankVars
    BY <1>1 DEF ProcessMessage
  <2> DEFINE d == Head(incoming).dest
  <2>4. HandleConnect(d) \/ HandleHello(d) \/ HandleAuth(d) \/ HandleDisconnect(d)
    BY <1>1 DEF ProcessMessage
  <2>5. ASSUME HandleConnect(d) \/ HandleHello(d) \/ HandleAuth(d)
        PROVE  Quiet
    BY <2>3, <2>5 DEF HandleConnect, HandleHello, HandleAuth, Quiet
  <2> QED
    BY <2>2, <2>3, <2>4, <2>5 DEF PlayerStep, Ends
<1>2. CASE EndMessages \/ EndSimulate \/ EndAuth \/ ReadDeleted \/ EndKick
  BY <1>2 DEF EndMessages, EndSimulate, EndAuth, ReadDeleted, EndKick, PlayerStep, Quiet
<1>3. CASE ProcessRequest
  <2> DEFINE d == Last(authMessages).dest
  <2>1. Last(authMessages) \in Requests
    BY <1>3, LastRequest DEF ProcessRequest
  <2>2. d \in Destinations
    BY <2>1 DEF Requests
  <2>3. MayServe /\ UNCHANGED <<known, tankVars>>
    BY <1>3 DEF ProcessRequest
  <2>4. Reject(d) \/ Ignore(d) \/ Accept(d)
    BY <1>3 DEF ProcessRequest
  <2>5. ASSUME Reject(d) \/ Ignore(d)
        PROVE  Quiet
    BY <2>3, <2>5 DEF Reject, Ignore, Quiet
  <2> QED
    BY <2>2, <2>3, <2>4, <2>5 DEF PlayerStep, Accepted
<1>4. CASE ApplyAction
  <2> DEFINE a == Head(waiting)
  <2>1. waiting # <<>> /\ a \in Actions
    BY <1>4 DEF ApplyAction, TypeOK
  <2>2. a.player \in Players
    BY <2>1, ActionKinds
  <2>3. UNCHANGED known
    BY <1>4 DEF ApplyAction
  <2>4. CASE a.kind = "Add" /\ AddTank(a.player)
    BY <2>1, <2>2, <2>3, <2>4, ActionKinds DEF PlayerStep, Adds
  <2>5. CASE a.kind = "Remove" /\ RemoveTank(a.player)
    BY <2>1, <2>2, <2>3, <2>5, ActionKinds DEF PlayerStep, Removes
  <2> QED
    BY <1>4, <2>4, <2>5 DEF ApplyAction
<1>5. ASSUME NEW p \in Players, TankRemoved(p)
      PROVE  PlayerStep
  BY <1>5 DEF TankRemoved, Vanishes, PlayerStep
<1>6. ASSUME NEW p \in Players, KickPlayer(p)
      PROVE  PlayerStep
  BY <1>6 DEF KickPlayer, KickGone, Quiet, PlayerStep
<1>7. ASSUME NEW d \in Destinations, Connects(d) \/ Closes(d) \/ Asks(d)
      PROVE  PlayerStep
  BY <1>7 DEF Connects, Closes, Asks, PlayerStep, Quiet
<1> QED
  BY <1>1, <1>2, <1>3, <1>4, <1>5, <1>6, <1>7 DEF Next, MainLoop

\* The types of what it changes.
LEMMA PlayerTypes ==
    ASSUME TypeInv, PlayerStep
    PROVE  /\ (waiting \in Seq(Actions))' /\ (tanks \subseteq Players)'
           /\ (left \subseteq tanks)' /\ (removing \subseteq Players)'
           /\ IsFiniteSet(tanks)'
<1>0. /\ waiting \in Seq(Actions) /\ tanks \subseteq Players /\ left \subseteq tanks
      /\ removing \subseteq Players /\ IsFiniteSet(tanks)
  BY DEF TypeInv, TypeOK
<1>1. ASSUME NEW players \in SUBSET Players, IsFiniteSet(players), DestroyPlayers(players),
             UNCHANGED tankVars
      PROVE  (waiting \in Seq(Actions))'
  BY <1>0, <1>1, Removals, HasConcat DEF DestroyPlayers
<1>2. CASE Quiet
  BY <1>0, <1>2 DEF Quiet, tankVars
<1>3. ASSUME NEW d \in Destinations, Ends(d)
      PROVE  (waiting \in Seq(Actions))' /\ UNCHANGED tankVars
  <2>1. PlayersOf(d) \subseteq tanks
    BY DEF PlayersOf
  <2>2. IsFiniteSet(PlayersOf(d)) /\ PlayersOf(d) \in SUBSET Players
    BY <2>1, <1>0, FS_Subset
  <2> QED
    BY <2>2, <1>3, <1>1 DEF Ends, HandleDisconnect
<1>4. ASSUME NEW d \in Destinations, Accepted(d)
      PROVE  (waiting \in Seq(Actions))' /\ UNCHANGED tankVars
  BY <1>0, <1>4, Additions, HasConcat DEF Accepted, Accept
<1>5. ASSUME NEW p \in Players, KickGone(p)
      PROVE  (waiting \in Seq(Actions))' /\ UNCHANGED tankVars
  <2>1. IsFiniteSet({p}) /\ {p} \in SUBSET Players
    BY FS_Singleton
  <2> QED
    BY <2>1, <1>5, <1>1 DEF KickGone
<1>6. ASSUME NEW p \in Players, Adds(p)
      PROVE  /\ (waiting \in Seq(Actions))' /\ IsFiniteSet(tanks)'
             /\ tanks' = tanks \cup {p} /\ UNCHANGED <<left, removing>>
  <2>1. Tail(waiting) \in Seq(Actions)
    BY <1>0, <1>6, HasTail DEF Adds
  <2>2. (IF p[1] \in known THEN <<>> ELSE <<TankRemoveSim(p)>>) \in Seq(Actions)
    BY ActionsDiffer
  <2>3. (waiting \in Seq(Actions))'
    BY <2>1, <2>2, <1>6, HasConcat DEF Adds, AddTank
  <2>4. IsFiniteSet(tanks \cup {p})
    BY <1>0, FS_AddElement
  <2> QED
    BY <2>3, <2>4, <1>6 DEF Adds, AddTank
<1>7. ASSUME NEW p \in Players, Removes(p)
      PROVE  /\ (waiting \in Seq(Actions))' /\ UNCHANGED tanks
             /\ left' = left \cup (tanks \cap {p}) /\ removing' = removing \cup {p}
  BY <1>0, <1>7, HasTail DEF Removes, RemoveTank
<1>8. ASSUME NEW p \in Players, Vanishes(p)
      PROVE  IsFiniteSet(tanks)'
  BY <1>0, <1>8, FS_RemoveElement DEF Vanishes
<1>9. ASSUME UNCHANGED tankVars
      PROVE  /\ (tanks \subseteq Players)' /\ (left \subseteq tanks)'
             /\ (removing \subseteq Players)' /\ IsFiniteSet(tanks)'
  BY <1>0, <1>9 DEF tankVars
<1>10. ASSUME NEW p \in Players, Adds(p) \/ Removes(p) \/ Vanishes(p)
       PROVE  /\ (tanks \subseteq Players)' /\ (left \subseteq tanks)'
              /\ (removing \subseteq Players)' /\ IsFiniteSet(tanks)'
  BY <1>0, <1>6, <1>7, <1>8, <1>10 DEF Vanishes
<1>11. ASSUME NEW p \in Players, Vanishes(p)
       PROVE  (waiting \in Seq(Actions))'
  BY <1>0, <1>11 DEF Vanishes
<1> QED
  BY <1>2, <1>3, <1>4, <1>5, <1>6, <1>7, <1>9, <1>10, <1>11 DEF PlayerStep

\* The types of the rest, action by action.
OtherTypes ==
    /\ main \in {"messages", "simulate", "auth", "kick", "crashed"}
    /\ conn \in [Destinations -> {"out", "in", "over"}]
    /\ phase \in [Destinations ->
                    {"start", "hello", "answered", "auth", "recorded", "processed"}]
    /\ incoming \in Seq(Messages)
    /\ kicked \subseteq Destinations /\ kicks \in 0 .. MaxKicks
    /\ known \subseteq Destinations
    /\ authMessages \in Seq(Requests)
    /\ current \in 0 .. Len(authMessages)
    /\ main = "kick" => current >= 1
    /\ main # "kick" => current = 0

LEMMA TypeParts ==
    TypeInv <=> /\ OtherTypes
                /\ waiting \in Seq(Actions) /\ tanks \subseteq Players
                /\ left \subseteq tanks /\ removing \subseteq Players
                /\ IsFiniteSet(tanks)
BY DEF TypeInv, TypeOK, OtherTypes, Requests

LEMMA MessageTypes ==
    ASSUME NEW d \in Destinations, NEW kind \in {"Connect", "Hello", "Auth", "Disconnect"},
           OtherTypes
    PROVE  Append(incoming, Message(kind, d)) \in Seq(Messages)
<1>1. Message(kind, d) \in Messages
  BY DEF Message, Messages
<1> QED
  BY <1>1 DEF OtherTypes

LEMMA ProcessMessageTypes ==
    ASSUME OtherTypes, ProcessMessage
    PROVE  OtherTypes'
<1>1. Head(incoming) \in Messages /\ Tail(incoming) \in Seq(Messages)
  BY HasTail DEF ProcessMessage, OtherTypes
<1> DEFINE d == Head(incoming).dest
<1>2. d \in Destinations
  BY <1>1 DEF Messages
<1>3. HandleConnect(d) \/ HandleHello(d) \/ HandleAuth(d) \/ HandleDisconnect(d)
  BY DEF ProcessMessage
<1>4. incoming' \in Seq(Messages) /\ UNCHANGED <<main, conn, kicks, current>>
  BY <1>1 DEF ProcessMessage
<1> HIDE DEF d
<1>5. (kicked \subseteq Destinations)' /\ (known \subseteq Destinations)'
  BY <1>2, <1>3
     DEF OtherTypes, HandleConnect, HandleHello, HandleAuth, HandleDisconnect
<1>6. phase' \in [Destinations ->
                    {"start", "hello", "answered", "auth", "recorded", "processed"}]
  BY <1>2, <1>3
     DEF OtherTypes, HandleConnect, HandleHello, HandleAuth, HandleDisconnect
<1>7. (authMessages \in Seq(Requests))' /\ (current \in 0 .. Len(authMessages))'
  <2>1. CASE UNCHANGED authMessages
    BY <2>1, <1>4 DEF OtherTypes
  <2>2. CASE authMessages' = Append(authMessages, [dest |-> d, deleted |-> FALSE])
    <3>1. [dest |-> d, deleted |-> FALSE] \in Requests
      BY <1>2 DEF Requests
    <3>2. /\ authMessages' \in Seq(Requests) /\ Len(authMessages) \in Nat
          /\ Len(authMessages') = Len(authMessages) + 1
      BY <3>1, <2>2 DEF OtherTypes
    <3>3. current' = current /\ current \in 0 .. Len(authMessages)
      BY <1>4 DEF OtherTypes
    <3> QED
      BY <3>2, <3>3
  <2> QED
    BY <1>3, <2>1, <2>2 DEF HandleConnect, HandleHello, HandleAuth, HandleDisconnect
<1> QED
  BY <1>4, <1>5, <1>6, <1>7 DEF OtherTypes

LEMMA ProcessRequestTypes ==
    ASSUME TypeOK, OtherTypes, ProcessRequest
    PROVE  OtherTypes'
<1> DEFINE d == Last(authMessages).dest
           n == Len(authMessages)
<1>1. /\ authMessages \in Seq(Requests) /\ authMessages # <<>>
      /\ n \in Nat \ {0} /\ d \in Destinations
  BY LastRequest DEF ProcessRequest, Requests
<1>2. Reject(d) \/ Ignore(d) \/ Accept(d)
  BY DEF ProcessRequest
<1>3. UNCHANGED <<conn, incoming, kicks, known>>
  BY DEF ProcessRequest
<1>4. phase' = [phase EXCEPT ![d] = "processed"]
  BY DEF ProcessRequest
<1>5. main = "auth" /\ current = 0
  BY DEF ProcessRequest, OtherTypes
<1>6. CASE Reject(d)
  <2>1. main' = "kick" /\ kicked' = kicked \cup {d} /\ UNCHANGED authMessages
    BY <1>6 DEF Reject
  <2>2. current' = n
    BY <1>6 DEF Reject
  <2>3. current' \in 0 .. n /\ current' >= 1
    BY <2>2, <1>1
  <2> HIDE DEF d
  <2> QED
    BY <2>1, <2>3, <1>1, <1>3, <1>4 DEF OtherTypes
<1>7. CASE Ignore(d) \/ Accept(d)
  <2>1. UNCHANGED <<main, current, kicked>> /\ PopBack(n)
    BY <1>7 DEF Ignore, Accept
  <2>2. authMessages' \in Seq(Requests) /\ Len(authMessages') = n - 1
    BY <2>1, <1>1, PopBackTypes
  <2>3. current' \in 0 .. Len(authMessages')
    BY <2>1, <2>2, <1>1, <1>5
  <2> HIDE DEF d, n
  <2> QED
    BY <2>1, <2>2, <2>3, <1>1, <1>3, <1>4, <1>5 DEF OtherTypes
<1> QED
  BY <1>2, <1>6, <1>7

LEMMA OtherTypesStep ==
    ASSUME TypeOK, OtherTypes, Next
    PROVE  OtherTypes'
<1>1. CASE ProcessMessage
  BY <1>1, ProcessMessageTypes
<1>2. CASE EndMessages \/ EndSimulate \/ EndAuth \/ ReadDeleted
  BY <1>2 DEF EndMessages, EndSimulate, EndAuth, ReadDeleted, clientVars, OtherTypes
<1>3. CASE EndKick
  <2>1. /\ main = "kick" /\ main' = "auth" /\ PopBack(current) /\ current' = 0
        /\ UNCHANGED <<conn, phase, incoming, kicked, kicks, known>>
    BY <1>3 DEF EndKick, clientVars
  <2>2. authMessages \in Seq(Requests) /\ authMessages # <<>>
    BY <2>1 DEF OtherTypes
  <2>3. authMessages' \in Seq(Requests)
    BY <2>1, <2>2, PopBackTypes
  <2>4. Len(authMessages') \in Nat
    BY <2>3
  <2> QED
    BY <2>1, <2>3, <2>4 DEF OtherTypes
<1>4. CASE ProcessRequest
  BY <1>4, ProcessRequestTypes
<1>5. CASE ApplyAction
  BY <1>5 DEF ApplyAction, AddTank, RemoveTank, clientVars, OtherTypes
<1>6. ASSUME NEW p \in Players, TankRemoved(p)
      PROVE  OtherTypes'
  BY <1>6 DEF TankRemoved, clientVars, OtherTypes
<1>7. ASSUME NEW p \in Players, KickPlayer(p)
      PROVE  OtherTypes'
  <2>1. UNCHANGED <<main, conn, phase, incoming, known, authMessages, current>>
    BY <1>7 DEF KickPlayer, clientVars
  <2>2. kicks' \in 0 .. MaxKicks
    <3>1. kicks \in 0 .. MaxKicks /\ kicks < MaxKicks /\ kicks' = kicks + 1
      BY <1>7 DEF KickPlayer, OtherTypes
    <3> QED
      BY <3>1, JoiningAssumption
  <2>3. kicked' \subseteq Destinations
    BY <1>7 DEF KickPlayer, OtherTypes
  <2> QED
    BY <2>1, <2>2, <2>3 DEF OtherTypes
<1>8. ASSUME NEW d \in Destinations, Connects(d)
      PROVE  OtherTypes'
  <2>1. incoming' \in Seq(Messages)
    BY <1>8, MessageTypes DEF Connects
  <2> QED
    BY <2>1, <1>8 DEF Connects, OtherTypes
<1>9. ASSUME NEW d \in Destinations, Closes(d)
      PROVE  OtherTypes'
  <2>1. incoming' \in Seq(Messages)
    BY <1>9, MessageTypes DEF Closes
  <2> QED
    BY <2>1, <1>9 DEF Closes, OtherTypes
<1>10. ASSUME NEW d \in Destinations, Asks(d)
       PROVE  OtherTypes'
  <2>1. incoming' \in Seq(Messages)
    BY <1>10, MessageTypes DEF Asks
  <2>2. phase' \in [Destinations ->
                      {"start", "hello", "answered", "auth", "recorded", "processed"}]
    BY <1>10 DEF Asks, OtherTypes
  <2> QED
    BY <2>1, <2>2, <1>10 DEF Asks, OtherTypes
<1> QED
  BY <1>1, <1>2, <1>3, <1>4, <1>5, <1>6, <1>7, <1>8, <1>9, <1>10 DEF Next, MainLoop

LEMMA TypeInit ==
    ASSUME Init
    PROVE  TypeInv
<1>1. IsFiniteSet(tanks)
  BY FS_EmptySet DEF Init
<1>2. MaxKicks \in Nat
  BY JoiningAssumption
<1> QED
  BY <1>1, <1>2 DEF Init, TypeInv, TypeOK

LEMMA TypeStep ==
    ASSUME TypeInv, [Next]_vars
    PROVE  TypeInv'
<1>1. CASE Next
  <2>1. OtherTypes /\ TypeOK
    BY TypeParts DEF TypeInv
  <2>2. OtherTypes'
    BY <1>1, <2>1, OtherTypesStep
  <2>3. PlayerStep
    BY <1>1, <2>1, PlayerSteps
  <2>4. /\ (waiting \in Seq(Actions))' /\ (tanks \subseteq Players)'
        /\ (left \subseteq tanks)' /\ (removing \subseteq Players)'
        /\ IsFiniteSet(tanks)'
    BY <2>3, PlayerTypes
  <2> QED
    BY <2>2, <2>4 DEF TypeInv, TypeOK, OtherTypes, Requests
<1>2. CASE UNCHANGED vars
  BY <1>2 DEF vars, clientVars, tankVars, TypeInv, TypeOK
<1> QED
  BY <1>1, <1>2

LEMMA TypeInvariance == Spec => []TypeInv
<1>1. Init => TypeInv
  BY TypeInit
<1>2. TypeInv /\ [Next]_vars => TypeInv'
  BY TypeStep
<1> QED
  BY <1>1, <1>2, PTL DEF Spec

\* Every variable keeps its type, in every reachable state.
THEOREM TypeCorrect == Spec => []TypeOK
<1>1. TypeInv => TypeOK
  BY DEF TypeInv
<1> QED
  BY <1>1, TypeInvariance, PTL
-----------------------------------------------------------------------------
(* What the steps do to who is there and who is on the way. *)

LEMMA ComingIsHas == Coming = {p \in Players : Has(waiting, TankAdd(p))}
BY DEF Coming, Has

LEMMA ComingFinite ==
    ASSUME TypeInv
    PROVE  IsFiniteSet(Coming)
<1> DEFINE n == Len(waiting)
           I == {i \in 1 .. n : waiting[i].kind = "Add"}
           f == [i \in I |-> waiting[i].player]
           T == {f[i] : i \in I}
<1>1. n \in Nat /\ \A i \in 1 .. n : waiting[i] \in Actions
  BY DEF TypeInv, TypeOK
<1>2. IsFiniteSet(I)
  <2>1. IsFiniteSet(1 .. n)
    BY <1>1, FS_Interval
  <2>2. I \in SUBSET (1 .. n)
    OBVIOUS
  <2> HIDE DEF I, n
  <2> QED
    BY <2>1, <2>2, FS_Subset
<1>3. f \in Surjection(I, T)
  BY DEF Surjection
<1>4. IsFiniteSet(T)
  <2> HIDE DEF I, f, T
  <2> QED
    BY <1>2, <1>3, FS_Surjection
<1>5. Coming \subseteq T
  BY DEF Coming, TankAdd
<1> HIDE DEF T
<1> QED
  BY <1>4, <1>5, FS_Subset

\* Who is there after a step was there, or was on its way; who is on the way was on
\* its way, or the step accepted a destination, and nobody was on the way before.
LEMMA WhoIsThere ==
    ASSUME TypeInv, PlayerStep
    PROVE  \/ /\ tanks' \cup Coming' \subseteq tanks \cup Coming
              /\ (tanks \ left)' \cup Coming' \subseteq (tanks \ left) \cup Coming
              /\ Coming' \subseteq Coming
           \/ \E d \in Destinations :
                /\ Accepted(d) /\ Coming = {}
                /\ Coming' = {d} \X (1 .. NoPlayers[d])
<1>0. /\ waiting \in Seq(Actions) /\ tanks \subseteq Players /\ left \subseteq tanks
      /\ IsFiniteSet(tanks)
  BY DEF TypeInv, TypeOK
<1>1. ASSUME NEW players \in SUBSET Players, IsFiniteSet(players), DestroyPlayers(players)
      PROVE  Coming' = Coming
  <2> DEFINE q == SetToSeq({TankRemoveSim(p) : p \in players})
  <2>1. /\ q \in Seq(Actions)
        /\ \A x : Has(q, x) <=> \E p \in players : x = TankRemoveSim(p)
    BY <1>1, Removals
  <2>2. \A p \in Players : ~Has(q, TankAdd(p))
    BY <2>1, ActionsDiffer
  <2>3. waiting' = waiting \o q
    BY <1>1 DEF DestroyPlayers
  <2> HIDE DEF q
  <2>4. \A x : Has(waiting \o q, x) <=> Has(waiting, x) \/ Has(q, x)
    BY <2>1, <1>0, HasConcat
  <2> QED
    BY <2>2, <2>3, <2>4, ComingIsHas DEF Coming, Has
<1>2. CASE Quiet
  BY <1>2 DEF Quiet, tankVars, Coming
<1>3. ASSUME NEW d \in Destinations, Ends(d)
      PROVE  Coming' = Coming /\ UNCHANGED tankVars
  <2>1. PlayersOf(d) \subseteq tanks
    BY DEF PlayersOf
  <2>2. IsFiniteSet(PlayersOf(d)) /\ PlayersOf(d) \in SUBSET Players
    BY <2>1, <1>0, FS_Subset
  <2> QED
    BY <2>2, <1>3, <1>1 DEF Ends, HandleDisconnect
<1>4. ASSUME NEW p \in Players, KickGone(p)
      PROVE  Coming' = Coming /\ UNCHANGED tankVars
  <2>1. IsFiniteSet({p}) /\ {p} \in SUBSET Players
    BY FS_Singleton
  <2> QED
    BY <2>1, <1>4, <1>1 DEF KickGone
<1>5. ASSUME NEW p \in Players, Adds(p)
      PROVE  /\ Coming' \subseteq Coming /\ p \in Coming
             /\ tanks' = tanks \cup {p} /\ left' = left
  <2> DEFINE q == IF p[1] \in known THEN <<>> ELSE <<TankRemoveSim(p)>>
  <2>1. waiting' = Tail(waiting) \o q /\ Head(waiting) = TankAdd(p) /\ waiting # <<>>
    BY <1>5 DEF Adds, AddTank
  <2>2. q \in Seq(Actions) /\ \A x : Has(q, x) => x = TankRemoveSim(p)
    BY ActionsDiffer DEF Has
  <2>3. \A r \in Players : ~Has(q, TankAdd(r))
    BY <2>2, ActionsDiffer
  <2> HIDE DEF q
  <2>4. Tail(waiting) \in Seq(Actions) /\ \A x : Has(Tail(waiting), x) => Has(waiting, x)
    BY <2>1, <1>0, HasTail
  <2>5. \A x : Has(waiting', x) <=> Has(Tail(waiting), x) \/ Has(q, x)
    BY <2>1, <2>2, <2>4, HasConcat
  <2>6. Has(waiting, TankAdd(p))
    BY <2>1, <1>0, HasTail
  <2>7. Coming' = {r \in Players : Has(waiting', TankAdd(r))}
    BY DEF Coming, Has
  <2> QED
    BY <2>3, <2>4, <2>5, <2>6, <2>7, <1>5, ComingIsHas DEF Adds, AddTank
<1>6. ASSUME NEW p \in Players, Removes(p)
      PROVE  /\ Coming' \subseteq Coming
             /\ tanks' = tanks /\ left' = left \cup (tanks \cap {p})
  <2>1. \A x : Has(Tail(waiting), x) => Has(waiting, x)
    BY <1>6, <1>0, HasTail DEF Removes
  <2>2. waiting' = Tail(waiting)
    BY <1>6 DEF Removes, RemoveTank
  <2>3. Coming' = {r \in Players : Has(waiting', TankAdd(r))}
    BY DEF Coming, Has
  <2> QED
    BY <2>1, <2>2, <2>3, <1>6, ComingIsHas DEF Removes, RemoveTank
<1>7. ASSUME NEW p \in Players, Vanishes(p)
      PROVE  Coming' = Coming /\ tanks' = tanks \ {p} /\ left' = left \ {p}
  BY <1>7 DEF Vanishes, Coming
<1>8. ASSUME NEW d \in Destinations, Accepted(d)
      PROVE  Coming = {} /\ Coming' = {d} \X (1 .. NoPlayers[d])
  <2> DEFINE n == NoPlayers[d]
             q == [k \in 1 .. n |-> TankAdd(<<d, k>>)]
  <2>1. Coming = {}
    BY <1>8 DEF Accepted, MayServe, Adding, Coming, TankAdd
  <2>2. q \in Seq(Actions) /\ \A x : Has(q, x) <=> \E k \in 1 .. n : x = TankAdd(<<d, k>>)
    BY Additions
  <2>3. waiting' = waiting \o q
    BY <1>8 DEF Accepted, Accept
  <2>4. {d} \X (1 .. n) \subseteq Players
    BY DEF Players
  <2>5. \A r \in Players : Has(q, TankAdd(r)) <=> r \in {d} \X (1 .. n)
    <3>1. \A r \in Players : \A k \in 1 .. n : TankAdd(r) = TankAdd(<<d, k>>) <=> r = <<d, k>>
      BY ActionsDiffer
    <3>2. \A r : r \in {d} \X (1 .. n) <=> \E k \in 1 .. n : r = <<d, k>>
      OBVIOUS
    <3> HIDE DEF n, q
    <3> QED
      BY <2>2, <3>1, <3>2
  <2>6. Coming' = {r \in Players : Has(waiting', TankAdd(r))}
    BY DEF Coming, Has
  <2> HIDE DEF n, q
  <2>7. \A x : Has(waiting \o q, x) <=> Has(waiting, x) \/ Has(q, x)
    BY <2>2, <1>0, HasConcat
  <2>8. Coming' = {d} \X (1 .. n)
    BY <2>1, <2>3, <2>4, <2>5, <2>6, <2>7, ComingIsHas
  <2> QED
    BY <2>1, <2>8 DEF n
<1>9. CASE Quiet \/ \E d \in Destinations : Ends(d)
  BY <1>2, <1>3, <1>9 DEF tankVars, Quiet
<1>10. CASE \E p \in Players : KickGone(p) \/ Adds(p) \/ Removes(p) \/ Vanishes(p)
  BY <1>0, <1>4, <1>5, <1>6, <1>7, <1>10 DEF tankVars
<1> QED
  BY <1>8, <1>9, <1>10 DEF PlayerStep
-----------------------------------------------------------------------------
(* The invariants. *)

\* The players that are there and those on their way fit on the server, although
\* room is looked for when a request is processed and the tanks come later.
RoomInv == TypeInv /\ NotTooMany

LEMMA RoomInit ==
    ASSUME Init
    PROVE  RoomInv
<1>1. tanks \cup Coming = {}
  BY DEF Init, Coming
<1>2. Cardinality(tanks \cup Coming) = 0
  BY <1>1, FS_EmptySet
<1>3. 0 <= NoMaxPlayers
  BY JoiningAssumption
<1> QED
  BY <1>2, <1>3, TypeInit DEF RoomInv, NotTooMany

LEMMA Pairs ==
    ASSUME NEW d, NEW n \in Nat
    PROVE  IsFiniteSet({d} \X (1 .. n)) /\ Cardinality({d} \X (1 .. n)) = n
<1> DEFINE S == {d} \X (1 .. n)
           f == [k \in 1 .. n |-> <<d, k>>]
<1>1. f \in Bijection(1 .. n, S)
  <2>1. f \in [1 .. n -> S] /\ DOMAIN f = 1 .. n
    OBVIOUS
  <2>2. \A k, l \in 1 .. n : f[k] = f[l] => k = l
    OBVIOUS
  <2>3. \A p \in S : \E k \in 1 .. n : f[k] = p
    OBVIOUS
  <2> HIDE DEF f, S
  <2> QED
    BY <2>1, <2>2, <2>3 DEF Bijection, Injection, Surjection, IsInjective
<1>2. IsFiniteSet(1 .. n) /\ Cardinality(1 .. n) = n
  BY FS_Interval
<1>3. ExistsBijection(1 .. n, S)
  BY <1>1 DEF ExistsBijection
<1> QED
  BY <1>2, <1>3, FS_Bijection

LEMMA RoomStep ==
    ASSUME RoomInv, [Next]_vars
    PROVE  RoomInv'
<1>0. TypeInv /\ TypeInv' /\ IsFiniteSet(tanks) /\ NoMaxPlayers \in Nat
  BY TypeStep, JoiningAssumption DEF RoomInv, TypeInv
<1>1. CASE UNCHANGED vars
  BY <1>0, <1>1 DEF RoomInv, NotTooMany, Coming, vars, tankVars
<1>2. CASE tanks' \cup Coming' \subseteq tanks \cup Coming
  <2>1. CASE IsFiniteSet(tanks \cup Coming)
    <3>1. /\ IsFiniteSet(tanks' \cup Coming')
          /\ Cardinality(tanks' \cup Coming') <= Cardinality(tanks \cup Coming)
      BY <1>2, <2>1, FS_Subset
    <3>2. Cardinality(tanks' \cup Coming') \in Nat /\ Cardinality(tanks \cup Coming) \in Nat
      BY <3>1, <2>1, FS_CardinalityType
    <3> QED
      BY <1>0, <3>1, <3>2 DEF RoomInv, NotTooMany
  <2>2. IsFiniteSet(Coming)
    BY <1>0, ComingFinite
  <2> QED
    BY <1>0, <2>1, <2>2, FS_Union
<1>3. ASSUME NEW d \in Destinations, Accepted(d), Coming' = {d} \X (1 .. NoPlayers[d])
      PROVE  NotTooMany'
  <2>1. /\ tanks' = tanks /\ NoPlayers[d] \in Nat
        /\ NoPlayers[d] <= NoMaxPlayers - Cardinality(tanks)
    BY <1>3, JoiningAssumption DEF Accepted, Accept, Room, tankVars
  <2>2. IsFiniteSet(Coming') /\ Cardinality(Coming') = NoPlayers[d]
    BY <1>3, <2>1, Pairs
  <2>3. /\ IsFiniteSet(tanks \cup Coming')
        /\ Cardinality(tanks \cup Coming') =
             Cardinality(tanks) + Cardinality(Coming') - Cardinality(tanks \cap Coming')
    BY <1>0, <2>2, FS_Union
  <2>4. IsFiniteSet(tanks \cap Coming')
    BY <1>0, FS_Subset
  <2>5. Cardinality(tanks) \in Nat /\ Cardinality(tanks \cap Coming') \in Nat
    BY <1>0, <2>4, FS_CardinalityType
  <2>6. Cardinality(tanks \cup Coming') <= NoMaxPlayers
    BY <1>0, <2>1, <2>2, <2>3, <2>5
  <2> QED
    BY <2>1, <2>6 DEF NotTooMany
<1>4. CASE Next
  <2>1. PlayerStep
    BY <1>0, <1>4, PlayerSteps DEF TypeInv
  <2> QED
    BY <1>0, <1>2, <1>3, <2>1, WhoIsThere DEF RoomInv
<1> QED
  BY <1>1, <1>4

THEOREM RoomCorrect == Spec => []NotTooMany
<1>1. Init => RoomInv
  BY RoomInit
<1>2. RoomInv /\ [Next]_vars => RoomInv'
  BY RoomStep
<1>3. RoomInv => NotTooMany
  BY DEF RoomInv
<1> QED
  BY <1>1, <1>2, <1>3, PTL DEF Spec

\* Unless the option allows it, no id plays for two destinations.  The ids are looked
\* for among the players that are there, which is enough while nobody is on the way:
\* so those on the way must all be of one destination.
NoDuplicatesInv ==
    /\ TypeInv
    /\ NoDuplicates
    /\ \A p, q \in Coming : p[1] = q[1]

LEMMA SameIdSymmetric ==
    \A d, e : SameId(d, e) <=> SameId(e, d)
BY DEF SameId

LEMMA NoDuplicatesStep ==
    ASSUME NoDuplicatesInv, [Next]_vars
    PROVE  NoDuplicatesInv'
<1>0. TypeInv /\ TypeInv'
  BY TypeStep DEF NoDuplicatesInv
<1>1. CASE UNCHANGED vars
  BY <1>0, <1>1 DEF NoDuplicatesInv, NoDuplicates, Coming, vars, tankVars
<1>2. CASE PlayerStep
  <2>1. CASE /\ (tanks \ left)' \cup Coming' \subseteq (tanks \ left) \cup Coming
             /\ Coming' \subseteq Coming
    BY <1>0, <2>1 DEF NoDuplicatesInv, NoDuplicates
  <2>2. ASSUME NEW d \in Destinations, Accepted(d), Coming' = {d} \X (1 .. NoPlayers[d])
        PROVE  NoDuplicatesInv'
    <3>1. ~AllowSameUniqueId => \A p \in tanks \ left : ~SameId(d, p[1]) /\ ~SameId(p[1], d)
      BY <2>2, SameIdSymmetric DEF Accepted, Accept, Duplicate
    <3>2. \A p \in Coming' : p[1] = d
      BY <2>2
    <3>3. (tanks \ left)' = tanks \ left
      BY <2>2 DEF Accepted, tankVars
    <3>4. ~AllowSameUniqueId =>
            \A p, q \in tanks \ left : p[1] # q[1] => ~SameId(p[1], q[1])
      BY DEF NoDuplicatesInv, NoDuplicates
    <3>5. NoDuplicates'
      BY <3>1, <3>2, <3>3, <3>4 DEF NoDuplicates
    <3> QED
      BY <1>0, <3>2, <3>5 DEF NoDuplicatesInv
  <2> QED
    BY <1>0, <1>2, <2>1, <2>2, WhoIsThere
<1> QED
  BY <1>0, <1>1, <1>2, PlayerSteps DEF TypeInv

\* When the option forbids it (AllowSameUniqueId is FALSE), no unique id and no
\* machine plays for two destinations; who has none is left alone.
THEOREM NoDuplicatesCorrect == Spec => []NoDuplicates
<1>1. Init => NoDuplicatesInv
  <2>1. ASSUME Init
        PROVE  tanks = {} /\ Coming = {}
    BY <2>1 DEF Init, Coming
  <2> QED
    BY <2>1, TypeInit DEF NoDuplicatesInv, NoDuplicates
<1>2. NoDuplicatesInv /\ [Next]_vars => NoDuplicatesInv'
  BY NoDuplicatesStep
<1>3. NoDuplicatesInv => NoDuplicates
  BY DEF NoDuplicatesInv
<1> QED
  BY <1>1, <1>2, <1>3, PTL DEF Spec

\* A player whose destination is gone is going to be removed, whether it left
\* before or after its tank was added.
ForgottenInv == TypeInv /\ NobodyForgotten

LEMMA ForgottenIsHas ==
    NobodyForgotten <=>
        \A p \in tanks \ left : p[1] \in known \/ Has(waiting, TankRemoveSim(p))
BY DEF NobodyForgotten, Has

LEMMA ForgottenStep ==
    ASSUME ForgottenInv, [Next]_vars
    PROVE  ForgottenInv'
<1>0. /\ TypeInv /\ TypeInv'
      /\ waiting \in Seq(Actions) /\ tanks \subseteq Players /\ left \subseteq tanks
      /\ IsFiniteSet(tanks)
  BY TypeStep DEF ForgottenInv, TypeInv, TypeOK
<1> DEFINE Safe(p) == p[1] \in known \/ Has(waiting, TankRemoveSim(p))
           SafeThen(p) == p[1] \in known' \/ Has(waiting', TankRemoveSim(p))
<1>1. \A p \in tanks \ left : Safe(p)
  BY ForgottenIsHas DEF ForgottenInv
<1>2. SUFFICES \A p \in tanks' \ left' : SafeThen(p)
  BY <1>0 DEF ForgottenInv, NobodyForgotten, Has
\* Requests that are added at the end leave those that wait.
<1>3. ASSUME NEW q \in Seq(Actions), waiting' = waiting \o q
      PROVE  \A x : Has(waiting', x) <=> Has(waiting, x) \/ Has(q, x)
  BY <1>0, <1>3, HasConcat
<1>4. CASE Quiet \/ UNCHANGED vars
  BY <1>1, <1>4 DEF Quiet, vars, tankVars
<1>5. ASSUME NEW d \in Destinations, Ends(d)
      PROVE  \A p \in tanks' \ left' : SafeThen(p)
  <2> DEFINE q == SetToSeq({TankRemoveSim(p) : p \in PlayersOf(d)})
  <2>1. PlayersOf(d) \in SUBSET Players /\ IsFiniteSet(PlayersOf(d))
    <3>1. PlayersOf(d) \subseteq tanks
      BY DEF PlayersOf
    <3> QED
      BY <3>1, <1>0, FS_Subset
  <2>2. /\ q \in Seq(Actions)
        /\ \A x : Has(q, x) <=> \E p \in PlayersOf(d) : x = TankRemoveSim(p)
    BY <2>1, Removals
  <2>3. waiting' = waiting \o q /\ known' = known \ {d} /\ tanks' = tanks /\ left' = left
    BY <1>5 DEF Ends, HandleDisconnect, DestroyPlayers, tankVars
  <2> HIDE DEF q
  <2>4. \A x : Has(waiting', x) <=> Has(waiting, x) \/ Has(q, x)
    BY <2>2, <2>3, <1>3
  <2>5. \A p \in tanks \ left : p[1] = d => p \in PlayersOf(d)
    BY DEF PlayersOf
  <2> QED
    BY <1>1, <2>2, <2>3, <2>4, <2>5
<1>6. ASSUME NEW d \in Destinations, Accepted(d)
      PROVE  \A p \in tanks' \ left' : SafeThen(p)
  <2> DEFINE q == [k \in 1 .. NoPlayers[d] |-> TankAdd(<<d, k>>)]
  <2>1. q \in Seq(Actions) /\ waiting' = waiting \o q
    BY <1>6, Additions DEF Accepted, Accept
  <2>2. known' = known /\ tanks' = tanks /\ left' = left
    BY <1>6 DEF Accepted, tankVars
  <2> HIDE DEF q
  <2> QED
    BY <1>1, <1>3, <2>1, <2>2
<1>7. ASSUME NEW p \in Players, KickGone(p)
      PROVE  \A r \in tanks' \ left' : SafeThen(r)
  <2> DEFINE q == SetToSeq({TankRemoveSim(r) : r \in {p}})
  <2>1. IsFiniteSet({p}) /\ {p} \in SUBSET Players
    BY FS_Singleton
  <2>2. q \in Seq(Actions) /\ waiting' = waiting \o q
    BY <2>1, <1>7, Removals DEF KickGone, DestroyPlayers
  <2>3. known' = known /\ tanks' = tanks /\ left' = left
    BY <1>7 DEF KickGone, tankVars
  <2> HIDE DEF q
  <2> QED
    BY <1>1, <1>3, <2>2, <2>3
<1>8. ASSUME NEW p \in Players, Adds(p)
      PROVE  \A r \in tanks' \ left' : SafeThen(r)
  <2> DEFINE q == IF p[1] \in known THEN <<>> ELSE <<TankRemoveSim(p)>>
  <2>1. /\ waiting # <<>> /\ Head(waiting) = TankAdd(p) /\ waiting' = Tail(waiting) \o q
        /\ known' = known /\ tanks' = tanks \cup {p} /\ left' = left
    BY <1>8 DEF Adds, AddTank
  <2>2. q \in Seq(Actions)
    BY ActionsDiffer
  <2>3. p[1] \notin known => Has(q, TankRemoveSim(p))
    BY DEF Has
  <2> HIDE DEF q
  <2>4. Tail(waiting) \in Seq(Actions)
    BY <2>1, <1>0, HasTail
  <2>5. \A x : Has(waiting', x) <=> Has(Tail(waiting), x) \/ Has(q, x)
    BY <2>1, <2>2, <2>4, HasConcat
  <2>6. \A x : Has(waiting, x) => x = TankAdd(p) \/ Has(Tail(waiting), x)
    BY <2>1, <1>0, HasTail
  <2>7. \A r \in Players : TankRemoveSim(r) # TankAdd(p)
    BY ActionsDiffer
  <2> QED
    BY <1>0, <1>1, <2>1, <2>3, <2>5, <2>6, <2>7
<1>9. ASSUME NEW p \in Players, Removes(p)
      PROVE  \A r \in tanks' \ left' : SafeThen(r)
  <2>1. /\ waiting # <<>> /\ Head(waiting) = TankRemoveSim(p) /\ waiting' = Tail(waiting)
        /\ known' = known /\ tanks' = tanks /\ left' = left \cup (tanks \cap {p})
    BY <1>9 DEF Removes, RemoveTank
  <2>2. \A x : Has(waiting, x) => x = TankRemoveSim(p) \/ Has(Tail(waiting), x)
    BY <2>1, <1>0, HasTail
  <2>3. \A r \in Players : TankRemoveSim(r) = TankRemoveSim(p) => r = p
    BY ActionsDiffer
  <2> QED
    BY <1>0, <1>1, <2>1, <2>2, <2>3
<1>10. ASSUME NEW p \in Players, Vanishes(p)
       PROVE  \A r \in tanks' \ left' : SafeThen(r)
  BY <1>1, <1>10 DEF Vanishes
<1> HIDE DEF SafeThen
<1>11. CASE Next
  <2>1. PlayerStep
    BY <1>0, <1>11, PlayerSteps DEF TypeInv
  <2> QED
    BY <2>1, <1>4, <1>5, <1>6, <1>7, <1>8, <1>9, <1>10 DEF PlayerStep
<1> QED
  BY <1>4, <1>11

THEOREM ForgottenCorrect == Spec => []NobodyForgotten
<1>1. Init => ForgottenInv
  <2>1. ASSUME Init
        PROVE  tanks = {}
    BY <2>1 DEF Init
  <2> QED
    BY <2>1, TypeInit DEF ForgottenInv, NobodyForgotten
<1>2. ForgottenInv /\ [Next]_vars => ForgottenInv'
  BY ForgottenStep
<1>3. ForgottenInv => NobodyForgotten
  BY DEF ForgottenInv
<1> QED
  BY <1>1, <1>2, <1>3, PTL DEF Spec
=============================================================================
