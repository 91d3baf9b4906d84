---------------------------- MODULE LevelLoadProofs ----------------------------
(***************************************************************************)
(* Proofs that in LevelSync loads do not overlap and no tank is forgotten, *)
(* for any destinations, send intervals and bounds.                        *)
(***************************************************************************)
EXTENDS LevelSyncProofs, FiniteSetTheorems

-----------------------------------------------------------------------------
(* Counting in sequences. *)

\* The elements of a sequence that are in a set.
Number(q, P) == Cardinality({i \in 1 .. Len(q) : q[i] \in P})

LEMMA NumberType ==
    ASSUME NEW S, NEW q \in Seq(S), NEW P
    PROVE  /\ IsFiniteSet({i \in 1 .. Len(q) : q[i] \in P})
           /\ Number(q, P) \in Nat
           /\ Number(q, P) > 0 <=> \E i \in 1 .. Len(q) : q[i] \in P
<1> DEFINE I == {i \in 1 .. Len(q) : q[i] \in P}
<1>1. IsFiniteSet(1 .. Len(q))
  BY LenProperties, FS_Interval
<1>2. IsFiniteSet(I)
  BY <1>1, FS_Subset
<1>3. Cardinality(I) \in Nat /\ (Cardinality(I) = 0 <=> I = {})
  BY <1>2, FS_CardinalityType, FS_EmptySet
<1>4. I # {} <=> \E i \in 1 .. Len(q) : q[i] \in P
  OBVIOUS
<1> HIDE DEF I
<1>5. Number(q, P) = Cardinality(I)
  BY DEF Number, I
<1>6. Number(q, P) > 0 <=> I # {}
  BY <1>3, <1>5
<1> QED
  BY <1>2, <1>3, <1>4, <1>5, <1>6 DEF I

\* Sequences of one length whose elements are in one set at the same places.
LEMMA NumberSame ==
    ASSUME NEW q, NEW r, NEW P, NEW Q, Len(q) = Len(r),
           \A i \in 1 .. Len(q) : q[i] \in P <=> r[i] \in Q
    PROVE  Number(q, P) = Number(r, Q)
<1>1. {i \in 1 .. Len(q) : q[i] \in P} = {i \in 1 .. Len(r) : r[i] \in Q}
  OBVIOUS
<1> QED
  BY <1>1 DEF Number

LEMMA NumberEmpty ==
    ASSUME NEW P
    PROVE  Number(<<>>, P) = 0
<1>1. {i \in 1 .. Len(<<>>) : <<>>[i] \in P} = {}
  OBVIOUS
<1> QED
  BY <1>1, FS_EmptySet DEF Number

LEMMA NumberAppend ==
    ASSUME NEW S, NEW q \in Seq(S), NEW x \in S, NEW P
    PROVE  Number(Append(q, x), P) = Number(q, P) + IF x \in P THEN 1 ELSE 0
<1>1. PICK n \in Nat : n = Len(q)
  BY LenProperties
<1>2. PICK r : r = Append(q, x)
  OBVIOUS
<1>3. Len(r) = n + 1 /\ r[n + 1] = x /\ \A i \in 1 .. n : r[i] = q[i]
  BY <1>1, <1>2, AppendProperties
<1> DEFINE I == {i \in 1 .. n : q[i] \in P}
           J == {i \in 1 .. n + 1 : r[i] \in P}
<1>4. IsFiniteSet(I) /\ Cardinality(I) \in Nat /\ n + 1 \notin I
  BY <1>1, NumberType DEF Number
<1>5. CASE x \in P
  <2>1. J = I \cup {n + 1}
    BY <1>3, <1>5
  <2>2. Cardinality(J) = Cardinality(I) + 1
    BY <2>1, <1>4, FS_AddElement
  <2> QED
    BY <2>2, <1>1, <1>2, <1>3, <1>5 DEF Number
<1>6. CASE x \notin P
  <2>1. J = I
    BY <1>3, <1>6
  <2>2. Number(q, P) = Cardinality(I) /\ Number(r, P) = Cardinality(J)
    BY <1>1, <1>3 DEF Number
  <2> HIDE DEF I, J
  <2>3. Number(r, P) = Number(q, P) /\ Number(q, P) \in Nat
    BY <2>1, <2>2, <1>4
  <2> QED
    BY <2>3, <1>2, <1>6
<1> QED
  BY <1>5, <1>6

\* As many numbers are in a finite set as in the set moved by a.
LEMMA MovedSet ==
    ASSUME NEW S \in SUBSET Int, IsFiniteSet(S), NEW a \in Int
    PROVE  /\ IsFiniteSet({a + i : i \in S})
           /\ Cardinality({a + i : i \in S}) = Cardinality(S)
<1> DEFINE T == {a + i : i \in S}
           f == [i \in S |-> a + i]
<1>1. f \in [S -> T] /\ \A t \in T : \E i \in S : f[i] = t
  OBVIOUS
<1>2. \A i, j \in S : f[i] = f[j] => i = j
  OBVIOUS
<1>3. f \in Bijection(S, T)
  BY <1>1, <1>2 DEF Bijection, Injection, Surjection, IsInjective
<1>4. ExistsBijection(S, T)
  BY <1>3 DEF ExistsBijection
<1> QED
  BY <1>4, FS_Bijection

LEMMA NumberConcat ==
    ASSUME NEW S, NEW q \in Seq(S), NEW r \in Seq(S), NEW P
    PROVE  Number(q \o r, P) = Number(q, P) + Number(r, P)
<1>1. PICK a \in Nat : a = Len(q)
  BY LenProperties
<1>2. PICK b \in Nat : b = Len(r)
  BY LenProperties
<1>3. PICK u : u = q \o r
  OBVIOUS
<1>4. Len(u) = a + b /\ \A i \in 1 .. a + b : u[i] = IF i <= a THEN q[i] ELSE r[i - a]
  BY <1>1, <1>2, <1>3, ConcatProperties
<1> DEFINE I == {i \in 1 .. a : q[i] \in P}
           J == {i \in 1 .. b : r[i] \in P}
           K == {a + i : i \in J}
           U == {i \in 1 .. a + b : u[i] \in P}
<1>5. IsFiniteSet(I) /\ IsFiniteSet(J) /\ Cardinality(I) \in Nat /\ Cardinality(J) \in Nat
  BY <1>1, <1>2, NumberType DEF Number
<1>6. IsFiniteSet(K) /\ Cardinality(K) = Cardinality(J)
  <2>1. J \in SUBSET Int /\ a \in Int
    OBVIOUS
  <2> HIDE DEF J
  <2> QED
    BY <2>1, <1>5, MovedSet
<1>7. U = I \cup K
  <2>1. ASSUME NEW i \in U PROVE i \in I \cup K
    <3>1. CASE i <= a
      BY <3>1, <1>4
    <3>2. CASE ~(i <= a)
      <4>1. i - a \in J /\ i = a + (i - a)
        BY <3>2, <1>4
      <4> QED
        BY <4>1
    <3> QED
      BY <3>1, <3>2
  <2>2. ASSUME NEW i \in I PROVE i \in U
    BY <1>4
  <2>3. ASSUME NEW k \in K PROVE k \in U
    <3>1. PICK i \in J : k = a + i
      OBVIOUS
    <3>2. k \in 1 .. a + b /\ ~(k <= a) /\ k - a = i
      BY <3>1
    <3> QED
      BY <3>2, <1>4
  <2> QED
    BY <2>1, <2>2, <2>3
<1>8. I \cap K = {}
  OBVIOUS
<1>9. Number(q, P) = Cardinality(I) /\ Number(r, P) = Cardinality(J)
      /\ Number(u, P) = Cardinality(U)
  BY <1>1, <1>2, <1>4 DEF Number
<1> HIDE DEF I, J, K, U
<1>10. Cardinality(I \cup K) = Cardinality(I) + Cardinality(K) - Cardinality(I \cap K)
  BY <1>5, <1>6, FS_Union
<1>11. Cardinality(I \cap K) = 0
  BY <1>8, FS_EmptySet
<1> QED
  BY <1>3, <1>5, <1>6, <1>7, <1>9, <1>10, <1>11

LEMMA NumberTail ==
    ASSUME NEW S, NEW q \in Seq(S), q # <<>>, NEW P
    PROVE  Number(q, P) = Number(Tail(q), P) + IF Head(q) \in P THEN 1 ELSE 0
<1>1. PICK r \in Seq(S) : r = Tail(q)
  BY HeadTailProperties
<1>2. PICK n \in Nat : n = Len(r)
  BY LenProperties
<1>3. Len(q) = n + 1 /\ Head(q) = q[1] /\ \A i \in 1 .. n : r[i] = q[i + 1]
  <2>1. Len(q) \in Nat /\ Len(r) = Len(q) - 1
        /\ \A i \in 1 .. Len(r) : r[i] = q[i + 1]
    BY <1>1, HeadTailProperties, LenProperties
  <2> QED
    BY <2>1, <1>2
<1> DEFINE I == {i \in 1 .. n + 1 : q[i] \in P}
           J == {i \in 1 .. n : r[i] \in P}
           K == {1 + i : i \in J}
<1>4. IsFiniteSet(I) /\ IsFiniteSet(J) /\ Cardinality(J) \in Nat
  BY <1>2, <1>3, NumberType DEF Number
<1>5. IsFiniteSet(K) /\ Cardinality(K) = Cardinality(J)
  <2>1. J \in SUBSET Int /\ 1 \in Int
    OBVIOUS
  <2> HIDE DEF J
  <2> QED
    BY <2>1, <1>4, MovedSet
<1>6. 1 \notin K
  OBVIOUS
<1>7. I = IF q[1] \in P THEN K \cup {1} ELSE K
  <2>1. ASSUME NEW i \in I PROVE i \in K \/ (i = 1 /\ q[1] \in P)
    <3>1. CASE i = 1
      BY <3>1
    <3>2. CASE i # 1
      <4>1. i - 1 \in 1 .. n /\ i = 1 + (i - 1) /\ r[i - 1] = q[i]
        BY <3>2, <1>3
      <4>2. i - 1 \in J
        BY <4>1
      <4> QED
        BY <4>1, <4>2
    <3> QED
      BY <3>1, <3>2
  <2>2. ASSUME NEW k \in K PROVE k \in I
    <3>1. PICK i \in J : k = 1 + i
      OBVIOUS
    <3>2. k \in 1 .. n + 1 /\ r[i] = q[k]
      BY <3>1, <1>3
    <3> QED
      BY <3>1, <3>2
  <2>3. q[1] \in P => 1 \in I
    OBVIOUS
  <2> QED
    BY <2>1, <2>2, <2>3
<1>8. Number(q, P) = Cardinality(I) /\ Number(r, P) = Cardinality(J)
  BY <1>2, <1>3 DEF Number
<1> HIDE DEF I, J, K
<1>9. Cardinality(K \cup {1}) = Cardinality(K) + 1
  BY <1>5, <1>6, FS_AddElement
<1> QED
  BY <1>1, <1>3, <1>4, <1>5, <1>7, <1>8, <1>9
-----------------------------------------------------------------------------
(* The invariant. *)

\* The entries that let tank t play.
LoadedEntry(t) == {e \in Entry : e.act = TankLoaded(t)}

\* Loads of a destination on their way, in progress or being answered.
LoadsOf(d) == Number(toClient[d], Load) + client[d].handlers + toServer[d]

\* Actions that let a tank play, requested or sent and not applied.
Waiting(t) == Number(sendActions, {TankLoaded(t)}) + Number(simActions, LoadedEntry(t))

\* Who loads has one load, and a tank that is loading has one cause to play.
Balanced(loads, waiting, state, tankState) ==
    /\ loads = IF state = "sLoadingLevel" THEN 1 ELSE 0
    /\ loads + waiting + (IF state = "sInitializingMod" THEN 1 ELSE 0)
         = IF tankState = "sLoading" THEN 1 ELSE 0

LoadInv ==
    /\ \A d \in Dests : Balanced(LoadsOf(d), Waiting(d), dest[d].state, tank[d])
    /\ Waiting(Bot) = IF tank[Bot] = "sLoading" THEN 1 ELSE 0

LEMMA CountTypes ==
    ASSUME TypeOK
    PROVE  /\ \A d \in Dests :
                /\ Number(toClient[d], Load) \in Nat /\ client[d].handlers \in Nat
                /\ toServer[d] \in Nat /\ LoadsOf(d) \in Nat
                /\ dest[d].state \in {"sInitializingMod", "sLoadingLevel", "sFinished"}
           /\ \A t \in Tanks :
                /\ Number(sendActions, {TankLoaded(t)}) \in Nat
                /\ Number(simActions, LoadedEntry(t)) \in Nat /\ Waiting(t) \in Nat
                /\ tank[t] \in {"sLoading", "ready"}
<1>1. ASSUME NEW d \in Dests
      PROVE  /\ Number(toClient[d], Load) \in Nat /\ client[d].handlers \in Nat
             /\ toServer[d] \in Nat
             /\ dest[d].state \in {"sInitializingMod", "sLoadingLevel", "sFinished"}
  <2>1. toClient[d] \in Seq(Load \cup Batch)
    BY DEF TypeOK
  <2> QED
    BY <2>1, NumberType DEF TypeOK, Client, Destination
<1>2. \A d \in Dests : LoadsOf(d) \in Nat
  BY <1>1 DEF LoadsOf
<1>3. ASSUME NEW t \in Tanks
      PROVE  /\ Number(sendActions, {TankLoaded(t)}) \in Nat
             /\ Number(simActions, LoadedEntry(t)) \in Nat
             /\ tank[t] \in {"sLoading", "ready"}
  <2>1. sendActions \in Seq(Action) /\ simActions \in Seq(Entry)
    BY DEF TypeOK
  <2> QED
    BY <2>1, NumberType DEF TypeOK
<1>4. \A t \in Tanks : Waiting(t) \in Nat
  BY <1>3 DEF Waiting
<1> QED
  BY <1>1, <1>2, <1>3, <1>4

\* The counts of the properties are these counts.
LEMMA LoadsCounted ==
    ASSUME TypeOK, NEW d \in Dests
    PROVE  Loads(d) = LoadsOf(d)
<1>1. PICK q \in Seq(Load \cup Batch) : q = toClient[d]
  BY DEF TypeOK
<1>2. \A i \in 1 .. Len(q) : q[i] \in Load \cup Batch
  BY ElementOfSeq
<1>3. \A i \in 1 .. Len(q) : q[i].type = "load" <=> q[i] \in Load
  BY <1>2 DEF Load, Batch
<1>4. {i \in 1 .. Len(q) : q[i].type = "load"} = {i \in 1 .. Len(q) : q[i] \in Load}
  BY <1>3
<1> QED
  BY <1>1, <1>4 DEF Loads, LoadsOf, Count, Number

LEMMA WaitingCounted ==
    ASSUME TypeOK, NEW t \in Tanks
    PROVE  PendingLoaded(t) = Waiting(t)
<1>1. simActions \in Seq(Entry)
  BY DEF TypeOK
<1>2. \A i \in 1 .. Len(simActions) : simActions[i] \in Entry
  BY <1>1, ElementOfSeq
<1>3. {i \in 1 .. Len(simActions) : simActions[i].act = TankLoaded(t)}
        = {i \in 1 .. Len(simActions) : simActions[i] \in LoadedEntry(t)}
  BY <1>2 DEF LoadedEntry
<1>4. {i \in 1 .. Len(sendActions) : sendActions[i] = TankLoaded(t)}
        = {i \in 1 .. Len(sendActions) : sendActions[i] \in {TankLoaded(t)}}
  OBVIOUS
<1> QED
  BY <1>3, <1>4 DEF PendingLoaded, Waiting, Count, Number

LEMMA InitLoads == Init => LoadInv
<1> SUFFICES ASSUME Init PROVE LoadInv
  OBVIOUS
<1>1. \A P : Number(<<>>, P) = 0
  BY NumberEmpty
<1>2. \A t \in Tanks : Waiting(t) = 0
  BY <1>1 DEF Init, Waiting
<1>3. \A d \in Dests : LoadsOf(d) = 0
  BY <1>1 DEF Init, NewClient, LoadsOf
<1>4. ASSUME NEW d \in Dests
      PROVE  dest[d].state = "sInitializingMod" /\ tank[d] = "sLoading" /\ d \in Tanks
  BY DestsAssumption DEF Init, Tanks
<1>5. tank[Bot] = "ready" /\ Bot \in Tanks
  BY DEF Init, Tanks
<1> QED
  BY <1>2, <1>3, <1>4, <1>5 DEF LoadInv, Balanced
-----------------------------------------------------------------------------
(* The steps. *)

\* A step that leaves all counts and states.
LEMMA CountsKept ==
    ASSUME LoadInv, UNCHANGED <<dest, tank>>,
           \A d \in Dests : LoadsOf(d)' = LoadsOf(d),
           \A t \in Tanks : Waiting(t)' = Waiting(t)
    PROVE  LoadInv'
<1>1. Bot \in Tanks /\ Dests \subseteq Tanks
  BY DEF Tanks
<1> QED
  BY <1>1 DEF LoadInv, Balanced

LEMMA AddLoads ==
    ASSUME IInv, LoadInv, AddSimulatorAction
    PROVE  LoadInv'
<1>1. /\ sendActions' = Append(sendActions, GameAction(requested + 1))
      /\ UNCHANGED <<dest, tank, simActions, toClient, toServer, client>>
      /\ requested < MaxActions
  BY DEF AddSimulatorAction
<1>2. PICK g \in Action : g = GameAction(requested + 1)
  <2>1. requested + 1 \in 1 .. MaxActions
    BY <1>1, BoundsAssumption DEF IInv, TypeOK
  <2> QED
    BY <2>1, ActionTypes
<1>3. sendActions \in Seq(Action)
  BY DEF IInv, TypeOK
<1>4. ASSUME NEW t \in Tanks
      PROVE  Waiting(t)' = Waiting(t)
  <2>1. g \notin {TankLoaded(t)}
    BY <1>2 DEF GameAction, TankLoaded
  <2>2. Number(sendActions', {TankLoaded(t)}) = Number(sendActions, {TankLoaded(t)})
    BY <2>1, <1>1, <1>2, <1>3, NumberAppend, CountTypes DEF IInv
  <2> QED
    BY <2>2, <1>1 DEF Waiting
<1>5. \A d \in Dests : LoadsOf(d)' = LoadsOf(d)
  BY <1>1 DEF LoadsOf
<1> QED
  BY <1>1, <1>4, <1>5, CountsKept

\* A step of one client or of the server with one destination.
LEMMA OneDestination ==
    ASSUME LoadInv, NEW d \in Dests, UNCHANGED <<tank, simActions>>,
           \A x \in Dests : x # d =>
               /\ toClient'[x] = toClient[x] /\ client'[x] = client[x]
               /\ toServer'[x] = toServer[x] /\ dest'[x] = dest[x],
           \A t \in Tanks : t # d =>
               Number(sendActions', {TankLoaded(t)}) = Number(sendActions, {TankLoaded(t)}),
           Balanced(LoadsOf(d)', Waiting(d)', dest'[d].state, tank[d])
    PROVE  LoadInv'
<1>1. Bot \in Tanks /\ Dests \subseteq Tanks /\ Bot # d
  BY DestsAssumption DEF Tanks
<1>2. \A t \in Tanks : t # d => Waiting(t)' = Waiting(t)
  BY DEF Waiting
<1>3. \A x \in Dests : x # d => LoadsOf(x)' = LoadsOf(x)
  BY DEF LoadsOf
<1>4. ASSUME NEW x \in Dests
      PROVE  Balanced(LoadsOf(x)', Waiting(x)', dest'[x].state, tank'[x])
  <2>1. CASE x = d
    BY <2>1
  <2>2. CASE x # d
    BY <2>2, <1>1, <1>2, <1>3 DEF LoadInv, Balanced
  <2> QED
    BY <2>1, <2>2
<1>5. Waiting(Bot)' = IF tank'[Bot] = "sLoading" THEN 1 ELSE 0
  BY <1>1, <1>2 DEF LoadInv
<1> QED
  BY <1>4, <1>5 DEF LoadInv

\* The server tells a destination to load the level it plays.
LEMMA ToldLoads ==
    ASSUME IInv, LoadInv, NEW d \in Dests,
           dest' = [dest EXCEPT ![d] = ToldToLoad(d, level)],
           toClient' = [toClient EXCEPT ![d] =
                            Append(@, LoadMessage(level, currentTime, levelMessage))],
           UNCHANGED <<tank, simActions, sendActions, client>>,
           \/ dest[d].state = "sInitializingMod" /\ UNCHANGED toServer
           \/ toServer[d] > 0 /\ toServer' = [toServer EXCEPT ![d] = @ - 1]
    PROVE  LoadInv'
<1>1. /\ dest \in [Dests -> Destination] /\ toServer \in [Dests -> Nat]
      /\ toClient \in [Dests -> Seq(Load \cup Batch)] /\ client \in [Dests -> Client]
  BY DEF IInv, TypeOK
<1>2. PICK m : m = LoadMessage(level, currentTime, levelMessage)
  OBVIOUS
<1>3. m \in Load
  BY <1>2 DEF IInv, TypeOK, LoadMessage, Load, Recording
<1>4. PICK n \in Nat : n = Number(toClient[d], Load)
  BY CountTypes DEF IInv
<1>5. PICK h \in Nat : h = client[d].handlers
  BY CountTypes DEF IInv
<1>6. PICK s \in Nat : s = toServer[d]
  BY <1>1
<1>7. PICK w \in Nat : w = Waiting(d)
  BY CountTypes DEF IInv, Tanks
<1>8. Number(toClient'[d], Load) = n + 1
  <2>1. toClient'[d] = Append(toClient[d], m)
    BY <1>1, <1>2
  <2> QED
    BY <2>1, <1>1, <1>3, <1>4, NumberAppend
<1>9. Waiting(d)' = w
  BY <1>7 DEF Waiting
<1>10. Balanced(n + h + s, w, dest[d].state, tank[d])
  BY <1>4, <1>5, <1>6, <1>7 DEF LoadInv, LoadsOf
<1>11. dest[d].state \in {"sInitializingMod", "sLoadingLevel", "sFinished"}
  BY <1>1 DEF Destination
<1>12. PICK state : state = dest[d].state
  OBVIOUS
<1>13. CASE state = "sInitializingMod" /\ UNCHANGED toServer
  <2>1. LoadsOf(d)' = n + 1 + h + s
    BY <1>5, <1>6, <1>8, <1>13 DEF LoadsOf
  <2>2. dest'[d].state = "sLoadingLevel"
    BY <1>1, <1>12, <1>13 DEF ToldToLoad, SetState, AllowedStateTransitions
  <2>3. Balanced(n + 1 + h + s, w, "sLoadingLevel", tank[d])
    BY <1>10, <1>12, <1>13 DEF Balanced
  <2> QED
    BY <2>1, <2>2, <2>3, <1>1, <1>9, <1>13, OneDestination
<1>14. CASE s > 0 /\ toServer' = [toServer EXCEPT ![d] = @ - 1]
  <2>1. LoadsOf(d)' = n + 1 + h + (s - 1)
    <3>1. toServer'[d] = s - 1
      BY <1>1, <1>6, <1>14
    <3> QED
      BY <3>1, <1>5, <1>8 DEF LoadsOf
  <2>2. state = "sLoadingLevel"
    BY <1>10, <1>12, <1>14 DEF Balanced
  <2>3. dest'[d].state = "sLoadingLevel"
    BY <2>2, <1>1, <1>12 DEF ToldToLoad, SetState, AllowedStateTransitions
  <2>4. n + 1 + h + (s - 1) = n + h + s
    OBVIOUS
  <2>5. Balanced(LoadsOf(d)', w, dest'[d].state, tank[d])
    BY <2>1, <2>2, <2>3, <2>4, <1>10, <1>12
  <2> QED
    BY <2>5, <1>1, <1>9, <1>14, OneDestination
<1> QED
  BY <1>6, <1>12, <1>13, <1>14

LEMMA InitializeLoads ==
    ASSUME IInv, LoadInv, NEW d \in Dests, InitializeMod(d)
    PROVE  LoadInv'
BY ToldLoads DEF InitializeMod

LEMMA LevelLoadedLoads ==
    ASSUME IInv, LoadInv, NEW d \in Dests, LevelLoaded(d)
    PROVE  LoadInv'
<1>1. CASE dest[d].levelNumber # level
  BY <1>1, ToldLoads DEF LevelLoaded
<1>2. CASE dest[d].levelNumber = level
  <2>1. /\ toServer[d] > 0 /\ toServer' = [toServer EXCEPT ![d] = @ - 1]
        /\ dest' = [dest EXCEPT ![d].state = SetState(@, "sFinished")]
        /\ sendActions' = Append(sendActions, TankLoaded(d))
        /\ UNCHANGED <<tank, simActions, client, toClient>>
    BY <1>2 DEF LevelLoaded
  <2>2. /\ dest \in [Dests -> Destination] /\ toServer \in [Dests -> Nat]
        /\ sendActions \in Seq(Action) /\ d \in Tanks
    BY DEF IInv, TypeOK, Tanks
  <2>3. PICK n \in Nat : n = Number(toClient[d], Load) + client[d].handlers
    BY CountTypes DEF IInv
  <2>4. PICK s \in Nat : s = toServer[d]
    BY <2>2
  <2>5. PICK a \in Nat : a = Number(sendActions, {TankLoaded(d)})
    BY <2>2, CountTypes DEF IInv
  <2>6. PICK b \in Nat : b = Number(simActions, LoadedEntry(d))
    BY <2>2, CountTypes DEF IInv
  <2>7. PICK state : state = dest[d].state
    OBVIOUS
  <2>8. Balanced(n + s, a + b, state, tank[d])
    BY <2>3, <2>4, <2>5, <2>6, <2>7 DEF LoadInv, LoadsOf, Waiting
  <2>9. PICK x \in Action : x = TankLoaded(d)
    BY <2>2, ActionTypes
  <2>10. \A t \in Tanks : Number(sendActions', {TankLoaded(t)})
            = Number(sendActions, {TankLoaded(t)}) + IF x \in {TankLoaded(t)} THEN 1 ELSE 0
    BY <2>1, <2>2, <2>9, NumberAppend
  <2>11. Waiting(d)' = (a + 1) + b
    <3>1. Number(sendActions', {TankLoaded(d)}) = a + 1
      BY <2>2, <2>5, <2>9, <2>10
    <3>2. Number(simActions', LoadedEntry(d)) = b
      BY <2>1, <2>6
    <3> QED
      BY <3>1, <3>2 DEF Waiting
  <2>12. \A t \in Tanks : t # d =>
            Number(sendActions', {TankLoaded(t)}) = Number(sendActions, {TankLoaded(t)})
    <3>1. \A t \in Tanks : t # d => x \notin {TankLoaded(t)}
      BY <2>9 DEF TankLoaded
    <3> QED
      BY <3>1, <2>10, CountTypes DEF IInv
  <2>13. LoadsOf(d)' = n + (s - 1)
    <3>1. toServer'[d] = s - 1
      BY <2>1, <2>2, <2>4
    <3> QED
      BY <3>1, <2>1, <2>3 DEF LoadsOf
  <2>14. state = "sLoadingLevel"
    BY <2>1, <2>4, <2>8 DEF Balanced
  <2>15. dest'[d].state = "sFinished"
    BY <2>1, <2>2, <2>7, <2>14 DEF SetState, AllowedStateTransitions, Destination
  <2>16. Balanced(n + (s - 1), (a + 1) + b, "sFinished", tank[d])
    BY <2>8, <2>14 DEF Balanced
  <2>17. \A y \in Dests : y # d =>
            /\ toClient'[y] = toClient[y] /\ client'[y] = client[y]
            /\ toServer'[y] = toServer[y] /\ dest'[y] = dest[y]
    BY <2>1, <2>2
  <2> QED
    BY <2>1, <2>11, <2>12, <2>13, <2>15, <2>16, <2>17, OneDestination
<1> QED
  BY <1>1, <1>2

\* A step of a client: what it has received is in its hands or answered.
LEMMA ClientLoads ==
    ASSUME IInv, LoadInv, NEW d \in Dests, ClientNext(d)
    PROVE  LoadInv'
<1>1. /\ client \in [Dests -> Client] /\ toServer \in [Dests -> Nat]
      /\ toClient \in [Dests -> Seq(Load \cup Batch)]
  BY DEF IInv, TypeOK
<1>2. UNCHANGED server
  BY DEF ClientNext, ReceiveLoad, ReceiveBatch, ClientStep, FinishLoad
<1>3. UNCHANGED <<dest, tank, simActions, sendActions>>
  BY <1>2 DEF server
<1>4. ASSUME NEW x \in Dests, x # d
      PROVE  LoadsOf(x)' = LoadsOf(x)
  <2>1. toClient'[x] = toClient[x] /\ client'[x] = client[x] /\ toServer'[x] = toServer[x]
    BY <1>1, <1>4 DEF ClientNext, ReceiveLoad, ReceiveBatch, ClientStep, FinishLoad
  <2> QED
    BY <2>1 DEF LoadsOf
<1>5. PICK n \in Nat : n = Number(toClient[d], Load)
  BY CountTypes DEF IInv
<1>6. PICK h \in Nat : h = client[d].handlers
  BY CountTypes DEF IInv
<1>7. PICK s \in Nat : s = toServer[d]
  BY <1>1
<1>8. LoadsOf(d) = n + h + s
  BY <1>5, <1>6, <1>7 DEF LoadsOf
<1>9. ASSUME toClient[d] # <<>>, toClient' = [toClient EXCEPT ![d] = Tail(@)]
      PROVE  n = Number(toClient'[d], Load) + (IF Head(toClient[d]) \in Load THEN 1 ELSE 0)
             /\ Number(toClient'[d], Load) \in Nat
  <2>1. toClient'[d] = Tail(toClient[d]) /\ toClient[d] \in Seq(Load \cup Batch)
    BY <1>1, <1>9
  <2>2. Tail(toClient[d]) \in Seq(Load \cup Batch)
    BY <2>1, <1>9, HeadTailProperties
  <2> QED
    BY <2>1, <2>2, <1>5, <1>9, NumberTail, NumberType
<1>10. ASSUME ReceiveLoad(d) PROVE LoadsOf(d)' = LoadsOf(d)
  <2>1. Head(toClient[d]) \in Load
    <3>1. Head(toClient[d]) \in Load \cup Batch
      BY <1>1, <1>10, HeadTailProperties DEF ReceiveLoad, RECEIVE, Reading
    <3> QED
      BY <3>1, <1>10 DEF ReceiveLoad, RECEIVE, Load, Batch
  <2>2. PICK k \in Nat : k = Number(toClient'[d], Load) /\ n = k + 1
    BY <2>1, <1>9, <1>10 DEF ReceiveLoad, RECEIVE, Reading
  <2>3. client'[d].handlers = h + 1 /\ toServer'[d] = s
    BY <1>1, <1>6, <1>7, <1>10 DEF ReceiveLoad, StartLoad
  <2>4. LoadsOf(d)' = k + (h + 1) + s
    BY <2>2, <2>3 DEF LoadsOf
  <2>5. k + (h + 1) + s = n + h + s
    BY <2>2
  <2> QED
    BY <2>4, <2>5, <1>8
<1>11. ASSUME ReceiveBatch(d) PROVE LoadsOf(d)' = LoadsOf(d)
  <2>1. Head(toClient[d]) \notin Load
    <3>1. PICK m : m = Head(toClient[d])
      OBVIOUS
    <3>2. m.type = "batch"
      BY <3>1, <1>11 DEF ReceiveBatch, RECEIVE
    <3>3. m \notin Load
      BY <3>2 DEF Load
    <3> QED
      BY <3>1, <3>3
  <2>2. toClient[d] # <<>> /\ toClient' = [toClient EXCEPT ![d] = Tail(@)]
    BY <1>11 DEF ReceiveBatch, RECEIVE, Reading
  <2>3. PICK k \in Nat : k = Number(toClient'[d], Load) /\ n = k
    BY <2>1, <2>2, <1>9
  <2>4. client'[d].handlers = h /\ toServer'[d] = s
    BY <1>1, <1>6, <1>7, <1>11 DEF ReceiveBatch, AddBatch, Client
  <2>5. LoadsOf(d)' = n + h + s
    BY <2>3, <2>4 DEF LoadsOf
  <2> QED
    BY <2>5, <1>8
<1>12. ASSUME ClientStep(d) PROVE LoadsOf(d)' = LoadsOf(d)
  <2>1. client'[d].handlers = h
    BY <1>1, <1>6, <1>12 DEF ClientStep, Stepped, Client
  <2>2. toServer'[d] = s /\ Number(toClient'[d], Load) = n
    BY <1>5, <1>7, <1>12 DEF ClientStep
  <2>3. LoadsOf(d)' = n + h + s
    BY <2>1, <2>2 DEF LoadsOf
  <2> QED
    BY <2>3, <1>8
<1>13. ASSUME FinishLoad(d) PROVE LoadsOf(d)' = LoadsOf(d)
  <2>1. client'[d].handlers = h - 1
    BY <1>1, <1>6, <1>13 DEF FinishLoad, Client
  <2>2. toServer'[d] = s + 1 /\ Number(toClient'[d], Load) = n
    BY <1>1, <1>5, <1>7, <1>13 DEF FinishLoad
  <2>3. LoadsOf(d)' = n + (h - 1) + (s + 1)
    BY <2>1, <2>2 DEF LoadsOf
  <2>4. n + (h - 1) + (s + 1) = n + h + s
    OBVIOUS
  <2> QED
    BY <2>3, <2>4, <1>8
<1>14. LoadsOf(d)' = LoadsOf(d)
  BY <1>10, <1>11, <1>12, <1>13 DEF ClientNext
<1>15. \A x \in Dests : LoadsOf(x)' = LoadsOf(x)
  BY <1>4, <1>14
<1>16. \A t \in Tanks : Waiting(t)' = Waiting(t)
  BY <1>3 DEF Waiting
<1> QED
  BY <1>3, <1>15, <1>16, CountsKept
-----------------------------------------------------------------------------
(* A simulation step of the server. *)

\* Simulating applies some actions of the queue and forgets none.
LEMMA SplitCounted ==
    ASSUME NEW q \in Seq(Entry), NEW now \in Nat, NEW t \in Tanks
    PROVE  Number(q, LoadedEntry(t)) = Number(Fired(q, now), LoadedEntry(t))
                                         + Number(NotFired(q, now), LoadedEntry(t))
<1>1. PICK n \in Nat : n = Len(q)
  BY LenProperties
<1>2. PICK k \in 0 .. n : k = Due(q, now)
  BY <1>1, DueProperties
<1>3. PICK f \in Seq(Entry) : f = Fired(q, now)
  BY FiredType
<1>4. PICK w \in Seq(Entry) : w = NotFired(q, now)
  BY FiredType
<1>5. /\ Len(f) = k /\ \A i \in 1 .. k : f[i] = [act |-> q[i].act, at |-> now]
      /\ Len(w) = n - k /\ \A i \in 1 .. n - k : w[i] = q[k + i]
  <2>1. /\ Len(f) = Due(q, now)
        /\ \A i \in 1 .. Due(q, now) : f[i] = [act |-> q[i].act, at |-> now]
    BY <1>3, FiredType
  <2>2. /\ Len(w) = Len(q) - Due(q, now)
        /\ \A i \in 1 .. Len(q) - Due(q, now) : w[i] = q[Due(q, now) + i]
    BY <1>4, FiredType
  <2> QED
    BY <2>1, <2>2, <1>1, <1>2
<1>6. PICK r : r = f \o w
  OBVIOUS
<1>7. Len(r) = n /\ \A i \in 1 .. n : r[i] = IF i <= k THEN f[i] ELSE w[i - k]
  <2>1. Len(f) + Len(w) = n
    BY <1>5
  <2> QED
    BY <2>1, <1>5, <1>6, ConcatProperties
<1>8. ASSUME NEW i \in 1 .. n
      PROVE  q[i] \in LoadedEntry(t) <=> r[i] \in LoadedEntry(t)
  <2>1. CASE i <= k
    <3>1. r[i] = [act |-> q[i].act, at |-> now]
      <4>1. i \in 1 .. k
        BY <2>1
      <4>2. f[i] = [act |-> q[i].act, at |-> now]
        BY <4>1, <1>5
      <4>3. r[i] = f[i]
        BY <2>1, <1>7
      <4> QED
        BY <4>2, <4>3
    <3>2. q[i] \in Entry
      BY <1>1, ElementOfSeq
    <3>3. r[i] \in Entry /\ r[i].act = q[i].act
      BY <3>1, <3>2 DEF Entry
    <3> QED
      BY <3>2, <3>3 DEF LoadedEntry
  <2>2. CASE ~(i <= k)
    <3>1. i - k \in 1 .. n - k /\ k + (i - k) = i
      BY <2>2
    <3>2. r[i] = q[i]
      BY <3>1, <2>2, <1>5, <1>7
    <3> QED
      BY <3>2
  <2> QED
    BY <2>1, <2>2
<1>9. Number(q, LoadedEntry(t)) = Number(r, LoadedEntry(t))
  BY <1>1, <1>7, <1>8, NumberSame
<1>10. Number(r, LoadedEntry(t)) = Number(f, LoadedEntry(t)) + Number(w, LoadedEntry(t))
  BY <1>6, NumberConcat
<1> QED
  BY <1>3, <1>4, <1>9, <1>10

\* A tank is ready when an action that lets it play was applied, or was ready.
LEMMA TankReady ==
    ASSUME NEW f \in Seq(Entry), NEW t \in Tanks
    PROVE  TanksAfter(f)[t] = IF Number(f, LoadedEntry(t)) > 0 THEN "ready" ELSE tank[t]
<1>1. \A i \in 1 .. Len(f) : f[i] \in Entry
  BY ElementOfSeq
<1>2. \A i \in 1 .. Len(f) : f[i].act = TankLoaded(t) <=> f[i] \in LoadedEntry(t)
  BY <1>1 DEF LoadedEntry
<1>3. Number(f, LoadedEntry(t)) > 0 <=> \E i \in 1 .. Len(f) : f[i].act = TankLoaded(t)
  BY <1>2, NumberType
<1> QED
  BY <1>3 DEF TanksAfter

\* What is applied was waiting, for the tanks that it makes ready.
LEMMA FiredLoads ==
    ASSUME IInv, LoadInv, NEW q \in Seq(Entry), NEW acts \in Seq(Action),
           dest' = dest, sendActions' = acts,
           simActions' = NotFired(q, currentTime),
           tank' = TanksAfter(Fired(q, currentTime)),
           \A t \in Tanks : Waiting(t) = Number(acts, {TankLoaded(t)})
                                           + Number(q, LoadedEntry(t)),
           \A d \in Dests : LoadsOf(d)' = LoadsOf(d)
    PROVE  LoadInv'
<1>1. Bot \in Tanks /\ Dests \subseteq Tanks
  BY DEF Tanks
<1>2. currentTime \in Nat /\ \A t \in Tanks : tank[t] \in {"sLoading", "ready"}
  BY DEF IInv, TypeOK
<1>3. PICK f \in Seq(Entry) : f = Fired(q, currentTime)
  BY <1>2, FiredType
<1>4. PICK w \in Seq(Entry) : w = NotFired(q, currentTime)
  BY <1>2, FiredType
<1>5. ASSUME NEW t \in Tanks
      PROVE  \E i, j \in Nat : /\ Waiting(t) = i + j
                               /\ Waiting(t)' = i
                               /\ tank'[t] = IF j > 0 THEN "ready" ELSE tank[t]
  <2>1. PICK a \in Nat : a = Number(acts, {TankLoaded(t)})
    BY NumberType
  <2>2. PICK j \in Nat : j = Number(f, LoadedEntry(t))
    BY NumberType
  <2>3. PICK b \in Nat : b = Number(w, LoadedEntry(t))
    BY NumberType
  <2>4. Number(q, LoadedEntry(t)) = j + b
    BY <1>2, <1>3, <1>4, <2>2, <2>3, SplitCounted
  <2>5. Waiting(t) = a + (j + b)
    BY <2>1, <2>4
  <2>6. a + (j + b) = (a + b) + j /\ a + b \in Nat
    OBVIOUS
  <2>7. Waiting(t)' = a + b
    <3>1. Waiting(t)' = Number(acts, {TankLoaded(t)}) + Number(w, LoadedEntry(t))
      BY <1>4 DEF Waiting
    <3> QED
      BY <3>1, <2>1, <2>3
  <2>8. tank'[t] = IF j > 0 THEN "ready" ELSE tank[t]
    BY <1>3, <2>2, TankReady
  <2> QED
    BY <2>5, <2>6, <2>7, <2>8
<1>6. ASSUME NEW d \in Dests
      PROVE  Balanced(LoadsOf(d)', Waiting(d)', dest'[d].state, tank'[d])
  <2>1. PICK n \in Nat : n = LoadsOf(d)
    BY CountTypes DEF IInv
  <2>2. PICK i \in Nat, j \in Nat : /\ Waiting(d) = i + j
                                    /\ Waiting(d)' = i
                                    /\ tank'[d] = IF j > 0 THEN "ready" ELSE tank[d]
    BY <1>1, <1>5
  <2>3. Balanced(n, i + j, dest[d].state, tank[d])
    BY <2>1, <2>2 DEF LoadInv
  <2>4. PICK old \in {"sLoading", "ready"} : old = tank[d]
    BY <1>1, <1>2
  <2>5. PICK state : state = dest[d].state
    OBVIOUS
  <2>6. Balanced(n, i, state, IF j > 0 THEN "ready" ELSE old)
    BY <2>3, <2>4, <2>5 DEF Balanced
  <2> QED
    BY <2>1, <2>2, <2>4, <2>5, <2>6
<1>7. Waiting(Bot)' = IF tank'[Bot] = "sLoading" THEN 1 ELSE 0
  <2>1. PICK i \in Nat, j \in Nat : /\ Waiting(Bot) = i + j
                                    /\ Waiting(Bot)' = i
                                    /\ tank'[Bot] = IF j > 0 THEN "ready" ELSE tank[Bot]
    BY <1>1, <1>5
  <2>2. PICK old \in {"sLoading", "ready"} : old = tank[Bot]
    BY <1>1, <1>2
  <2>3. i + j = IF old = "sLoading" THEN 1 ELSE 0
    BY <2>1, <2>2 DEF LoadInv
  <2>4. i = IF (IF j > 0 THEN "ready" ELSE old) = "sLoading" THEN 1 ELSE 0
    BY <2>2, <2>3
  <2> QED
    BY <2>1, <2>2, <2>4
<1> QED
  BY <1>6, <1>7 DEF LoadInv

LEMMA NoSendLoads ==
    ASSUME IInv, LoadInv, SimulateStep, NoSend
    PROVE  LoadInv'
<1>1. /\ UNCHANGED <<dest, client, toServer, toClient, sendActions>>
      /\ simActions' = NotFired(simActions, currentTime)
      /\ tank' = TanksAfter(Fired(simActions, currentTime))
  BY DEF SimulateStep, NoSend
<1>2. simActions \in Seq(Entry) /\ sendActions \in Seq(Action)
  BY DEF IInv, TypeOK
<1>3. \A d \in Dests : LoadsOf(d)' = LoadsOf(d)
  BY <1>1 DEF LoadsOf
<1>4. \A t \in Tanks : Waiting(t) = Number(sendActions, {TankLoaded(t)})
                                      + Number(simActions, LoadedEntry(t))
  BY DEF Waiting
<1> QED
  BY <1>1, <1>2, <1>3, <1>4, FiredLoads

LEMMA SendLoads ==
    ASSUME IInv, LoadInv, SimulateStep, Send
    PROVE  LoadInv'
<1>1. PICK event \in Nat : event = nextEventTime'
  <2>1. sendStepSize' \in StepSizes /\ nextEventTime' = nextEventTime + sendStepSize'
    BY DEF Send
  <2>2. PICK step \in Nat : step = sendStepSize'
    BY <2>1, StepsAssumption
  <2>3. PICK last \in Nat : last = nextEventTime
    BY DEF IInv, TypeOK
  <2>4. last + step \in Nat
    OBVIOUS
  <2>5. last + step = nextEventTime'
    BY <2>1, <2>2, <2>3
  <2> QED
    BY <2>4, <2>5
<1>2. PICK entries : entries = EntriesAt(sendActions, event)
  OBVIOUS
<1>3. PICK batch : batch = [type |-> "batch", level |-> level, event |-> event,
                            entries |-> entries]
  OBVIOUS
<1>4. PICK q : q = simActions \o entries
  OBVIOUS
<1>5. /\ UNCHANGED <<dest, client, toServer>> /\ sendActions' = <<>>
      /\ simActions' = NotFired(q, currentTime)
      /\ tank' = TanksAfter(Fired(q, currentTime))
      /\ toClient' = [d \in Dests |->
                        IF LoadedClient(d) THEN Append(toClient[d], batch) ELSE toClient[d]]
  BY <1>1, <1>2, <1>3, <1>4 DEF SimulateStep, Send
<1>6. /\ simActions \in Seq(Entry) /\ sendActions \in Seq(Action)
      /\ level \in 1 .. MaxLevel /\ toClient \in [Dests -> Seq(Load \cup Batch)]
  BY DEF IInv, TypeOK
<1>7. /\ entries \in Seq(Entry) /\ Len(entries) = Len(sendActions)
      /\ \A i \in 1 .. Len(sendActions) : entries[i].act = sendActions[i]
  <2>1. entries \in Seq(Entry) /\ Len(entries) = Len(sendActions)
    BY <1>2, <1>6, EntriesAtType
  <2>2. \A i \in 1 .. Len(sendActions) : entries[i].act = sendActions[i]
    BY <1>2 DEF EntriesAt
  <2> QED
    BY <2>1, <2>2
<1>8. q \in Seq(Entry)
  BY <1>4, <1>6, <1>7, ConcatProperties
<1>9. batch \in Batch /\ batch \notin Load
  <2>1. batch.type = "batch" /\ batch \in Batch
    BY <1>3, <1>6, <1>7 DEF Batch
  <2> QED
    BY <2>1 DEF Load
<1>10. ASSUME NEW d \in Dests
       PROVE  LoadsOf(d)' = LoadsOf(d)
  <2>1. PICK n \in Nat : n = Number(toClient[d], Load)
    BY CountTypes DEF IInv
  <2>2. Number(Append(toClient[d], batch), Load) = n
    BY <2>1, <1>6, <1>9, NumberAppend
  <2>3. Number(toClient'[d], Load) = Number(toClient[d], Load)
    BY <2>1, <2>2, <1>5
  <2> QED
    BY <2>3, <1>5 DEF LoadsOf
<1>11. ASSUME NEW t \in Tanks
       PROVE  Waiting(t) = Number(<<>>, {TankLoaded(t)}) + Number(q, LoadedEntry(t))
  <2>1. \A i \in 1 .. Len(sendActions) : entries[i] \in Entry
    BY <1>7, ElementOfSeq
  <2>2. \A i \in 1 .. Len(sendActions) :
           sendActions[i] \in {TankLoaded(t)} <=> entries[i] \in LoadedEntry(t)
    BY <2>1, <1>7 DEF LoadedEntry
  <2>3. Number(sendActions, {TankLoaded(t)}) = Number(entries, LoadedEntry(t))
    BY <2>2, <1>7, NumberSame
  <2>4. PICK a \in Nat : a = Number(entries, LoadedEntry(t))
    BY <1>7, NumberType
  <2>5. PICK b \in Nat : b = Number(simActions, LoadedEntry(t))
    BY <1>6, NumberType
  <2>6. Number(q, LoadedEntry(t)) = b + a
    BY <2>4, <2>5, <1>4, <1>6, <1>7, NumberConcat
  <2>7. Number(<<>>, {TankLoaded(t)}) = 0
    BY NumberEmpty
  <2>8. Waiting(t) = a + b
    BY <2>3, <2>4, <2>5 DEF Waiting
  <2> QED
    BY <2>6, <2>7, <2>8
<1>12. <<>> \in Seq(Action)
  BY EmptySeq
<1> QED
  BY <1>5, <1>8, <1>10, <1>11, <1>12, FiredLoads
-----------------------------------------------------------------------------
(* A new game. *)

\* newGame applies the sent actions, sends the tanks that play back to loading
\* and tells their destinations to load: no tank gets a second cause to play.
LEMMA NewGameLoads ==
    ASSUME IInv, LoadInv, NewGame
    PROVE  LoadInv'
<1>1. PICK reload : reload = Reloading(TanksAfter(simActions))
  OBVIOUS
<1>2. PICK m : m = LoadMessage(level + 1, 0, EmptyRecording)
  OBVIOUS
<1>3. /\ simActions' = <<>> /\ tank' = [t \in Tanks |-> "sLoading"]
      /\ sendActions' = IF Bot \in reload THEN Append(sendActions, TankLoaded(Bot))
                                          ELSE sendActions
      /\ dest' = [d \in Dests |-> IF d \in reload THEN ToldToLoad(d, level + 1)
                                                  ELSE dest[d]]
      /\ toClient' = [d \in Dests |-> IF d \in reload THEN Append(toClient[d], m)
                                                      ELSE toClient[d]]
      /\ UNCHANGED <<toServer, client>>
  BY <1>1, <1>2 DEF NewGame
<1>4. /\ simActions \in Seq(Entry) /\ sendActions \in Seq(Action)
      /\ toClient \in [Dests -> Seq(Load \cup Batch)]
      /\ \A t \in Tanks : tank[t] \in {"sLoading", "ready"}
      /\ Bot \in Tanks /\ Dests \subseteq Tanks /\ Bot \notin Dests
  BY DestsAssumption DEF IInv, TypeOK, Tanks
<1>5. m \in Load
  <2>1. level + 1 \in 1 .. MaxLevel
    BY BoundsAssumption DEF IInv, TypeOK, NewGame
  <2>2. <<>> \in Seq(Entry)
    BY EmptySeq
  <2> QED
    BY <1>2, <2>1, <2>2 DEF LoadMessage, EmptyRecording, Load
<1>6. ASSUME NEW t \in Tanks
      PROVE  t \in reload <=> (Number(simActions, LoadedEntry(t)) > 0 \/ tank[t] = "ready")
  <2>1. t \in reload <=> TanksAfter(simActions)[t] # "sLoading"
    BY <1>1 DEF Reloading
  <2>2. TanksAfter(simActions)[t]
          = IF Number(simActions, LoadedEntry(t)) > 0 THEN "ready" ELSE tank[t]
    BY <1>4, TankReady
  <2> QED
    BY <2>1, <2>2, <1>4
<1>7. ASSUME NEW t \in Tanks
      PROVE  Waiting(t)' = Number(sendActions', {TankLoaded(t)})
  <2>1. Number(simActions', LoadedEntry(t)) = 0
    BY <1>3, NumberEmpty
  <2>2. sendActions' \in Seq(Action)
    BY <1>3, <1>4, ActionTypes, AppendProperties
  <2>3. PICK a \in Nat : a = Number(sendActions', {TankLoaded(t)})
    BY <2>2, NumberType
  <2>4. Waiting(t)' = a + 0
    BY <2>1, <2>3 DEF Waiting
  <2> QED
    BY <2>3, <2>4
<1>8. PICK x \in Action : x = TankLoaded(Bot)
  BY <1>4, ActionTypes
<1>9. ASSUME NEW d \in Dests
      PROVE  Balanced(LoadsOf(d)', Waiting(d)', dest'[d].state, tank'[d])
  <2>1. PICK n \in Nat : n = Number(toClient[d], Load)
    BY CountTypes DEF IInv
  <2>2. PICK h \in Nat : h = client[d].handlers
    BY CountTypes DEF IInv
  <2>3. PICK s \in Nat : s = toServer[d]
    BY CountTypes DEF IInv
  <2>4. PICK a \in Nat : a = Number(sendActions, {TankLoaded(d)})
    BY <1>4, NumberType
  <2>5. PICK b \in Nat : b = Number(simActions, LoadedEntry(d))
    BY <1>4, NumberType
  <2>6. PICK old \in {"sLoading", "ready"} : old = tank[d]
    BY <1>4
  <2>7. PICK state : state = dest[d].state
    OBVIOUS
  <2>8. state \in {"sInitializingMod", "sLoadingLevel", "sFinished"}
    BY <2>7, CountTypes DEF IInv
  <2>9. Balanced(n + h + s, a + b, state, old)
    BY <2>1, <2>2, <2>3, <2>4, <2>5, <2>6, <2>7 DEF LoadInv, LoadsOf, Waiting
  <2>10. d \in reload <=> (b > 0 \/ old = "ready")
    BY <1>4, <1>6, <2>5, <2>6
  <2>11. Waiting(d)' = a
    <3>1. x \notin {TankLoaded(d)}
      BY <1>4, <1>8 DEF TankLoaded
    <3>2. Number(Append(sendActions, x), {TankLoaded(d)}) = a
      BY <3>1, <1>4, <2>4, NumberAppend
    <3>3. Number(sendActions', {TankLoaded(d)}) = a
      BY <3>2, <1>3, <1>8, <2>4
    <3> QED
      BY <3>3, <1>4, <1>7
  <2>12. tank'[d] = "sLoading"
    BY <1>3, <1>4
  <2>13. CASE d \in reload
    <3>1. b > 0 \/ old = "ready"
      BY <2>10, <2>13
    <3>2. a = 0 /\ n + h + s = 0 /\ state = "sFinished"
      BY <3>1, <2>8, <2>9 DEF Balanced
    <3>3. dest'[d].state = "sLoadingLevel"
      BY <1>3, <2>7, <2>13, <3>2 DEF ToldToLoad, SetState, AllowedStateTransitions
    <3>4. Number(toClient'[d], Load) = n + 1
      <4>1. PICK q \in Seq(Load \cup Batch) : q = toClient[d]
        BY <1>4
      <4>2. Number(Append(q, m), Load) = n + 1
        BY <4>1, <1>5, <2>1, NumberAppend
      <4>3. toClient'[d] = Append(q, m)
        BY <4>1, <1>3, <2>13
      <4> QED
        BY <4>2, <4>3
    <3>5. LoadsOf(d)' = n + 1 + h + s
      BY <3>4, <1>3, <2>2, <2>3 DEF LoadsOf
    <3>6. n + 1 + h + s = 1
      BY <3>2
    <3>7. Balanced(1, 0, "sLoadingLevel", "sLoading")
      BY DEF Balanced
    <3>8. LoadsOf(d)' = 1 /\ Waiting(d)' = 0
      BY <3>2, <3>5, <3>6, <2>11
    <3> QED
      BY <3>3, <3>7, <3>8, <2>12
  <2>14. CASE d \notin reload
    <3>1. b = 0 /\ old = "sLoading"
      BY <2>10, <2>14
    <3>2. Balanced(n + h + s, a, state, "sLoading")
      BY <3>1, <2>9 DEF Balanced
    <3>3. dest'[d].state = state
      BY <1>3, <2>7, <2>14
    <3>4. LoadsOf(d)' = n + h + s
      <4>1. Number(toClient'[d], Load) = n
        BY <1>3, <2>1, <2>14
      <4> QED
        BY <4>1, <1>3, <2>2, <2>3 DEF LoadsOf
    <3> QED
      BY <3>2, <3>3, <3>4, <2>11, <2>12
  <2> QED
    BY <2>13, <2>14
<1>10. Waiting(Bot)' = IF tank'[Bot] = "sLoading" THEN 1 ELSE 0
  <2>1. PICK a \in Nat : a = Number(sendActions, {x})
    BY <1>4, NumberType
  <2>2. PICK b \in Nat : b = Number(simActions, LoadedEntry(Bot))
    BY <1>4, NumberType
  <2>3. PICK old \in {"sLoading", "ready"} : old = tank[Bot]
    BY <1>4
  <2>4. a + b = IF old = "sLoading" THEN 1 ELSE 0
    BY <1>8, <2>1, <2>2, <2>3 DEF LoadInv, Waiting
  <2>5. Bot \in reload <=> (b > 0 \/ old = "ready")
    BY <1>4, <1>6, <2>2, <2>3
  <2>6. Number(Append(sendActions, x), {x}) = a + 1
    BY <1>4, <2>1, NumberAppend
  <2>7. Number(sendActions', {x}) = IF Bot \in reload THEN a + 1 ELSE a
    BY <1>3, <1>8, <2>1, <2>6
  <2>8. (IF Bot \in reload THEN a + 1 ELSE a) = 1
    BY <2>4, <2>5
  <2>9. Waiting(Bot)' = 1
    BY <1>4, <1>7, <1>8, <2>7, <2>8
  <2>10. tank'[Bot] = "sLoading"
    BY <1>3, <1>4
  <2> QED
    BY <2>9, <2>10
<1> QED
  BY <1>9, <1>10 DEF LoadInv
-----------------------------------------------------------------------------
(* The theorems. *)

LEMMA NextLoads == IInv /\ LoadInv /\ [Next]_vars => LoadInv'
<1> SUFFICES ASSUME IInv, LoadInv, [Next]_vars
             PROVE  LoadInv'
  OBVIOUS
<1>1. CASE AddSimulatorAction
  BY <1>1, AddLoads
<1>2. CASE SimulateStep
  <2>1. Send \/ NoSend
    BY <1>2 DEF SimulateStep
  <2> QED
    BY <1>2, <2>1, SendLoads, NoSendLoads
<1>3. CASE NewGame
  BY <1>3, NewGameLoads
<1>4. ASSUME NEW d \in Dests, InitializeMod(d)
      PROVE  LoadInv'
  BY <1>4, InitializeLoads
<1>5. ASSUME NEW d \in Dests, LevelLoaded(d)
      PROVE  LoadInv'
  BY <1>5, LevelLoadedLoads
<1>6. ASSUME NEW d \in Dests, ClientNext(d)
      PROVE  LoadInv'
  BY <1>6, ClientLoads
<1>7. CASE UNCHANGED vars
  <2>1. UNCHANGED <<dest, tank, sendActions, simActions, toClient, toServer, client>>
    BY <1>7 DEF vars, server
  <2>2. \A d \in Dests : LoadsOf(d)' = LoadsOf(d)
    BY <2>1 DEF LoadsOf
  <2>3. \A t \in Tanks : Waiting(t)' = Waiting(t)
    BY <2>1 DEF Waiting
  <2> QED
    BY <2>1, <2>2, <2>3, CountsKept
<1> QED
  BY <1>1, <1>2, <1>3, <1>4, <1>5, <1>6, <1>7 DEF Next, ServerNext

\* Loads and the actions that let tanks play are balanced in every state.
THEOREM LoadInvariance == Spec => [](IInv /\ LoadInv)
<1>1. Init => IInv /\ LoadInv
  BY InitIInv, InitLoads
<1>2. (IInv /\ LoadInv) /\ [Next]_vars => (IInv /\ LoadInv)'
  BY NextIInv, NextLoads
<1> QED
  BY <1>1, <1>2, PTL DEF Spec

\* The loads of one destination never overlap: one ComsLoadLevelMessage is on its
\* way, handled or answered exactly while the server has it in sLoadingLevel.
THEOREM LoadsCorrect == Spec => []OneLoadAtATime
<1>1. IInv /\ LoadInv => OneLoadAtATime
  <2> SUFFICES ASSUME IInv, LoadInv, NEW d \in Dests
               PROVE  Loads(d) = IF dest[d].state = "sLoadingLevel" THEN 1 ELSE 0
    BY DEF OneLoadAtATime
  <2>1. Loads(d) = LoadsOf(d)
    BY LoadsCounted DEF IInv
  <2> QED
    BY <2>1 DEF LoadInv, Balanced
<1> QED
  BY <1>1, LoadInvariance, PTL

\* A tank in sLoading has exactly one cause to play: a mod to initialise, a load,
\* or a TankLoadedSimAction.
THEOREM TanksCorrect == Spec => []NoTankForgotten
<1>1. IInv /\ LoadInv => NoTankForgotten
  <2> SUFFICES ASSUME IInv, LoadInv
               PROVE  NoTankForgotten
    OBVIOUS
  <2>1. Bot \in Tanks /\ Dests \subseteq Tanks
    BY DEF Tanks
  <2>2. \A d \in Dests : Loads(d) = LoadsOf(d)
    BY LoadsCounted DEF IInv
  <2>3. \A t \in Tanks : PendingLoaded(t) = Waiting(t)
    BY WaitingCounted DEF IInv
  <2>4. PendingLoaded(Bot) = IF tank[Bot] = "sLoading" THEN 1 ELSE 0
    BY <2>1, <2>3 DEF LoadInv
  <2>5. \A d \in Dests :
          Loads(d) + PendingLoaded(d)
            + (IF dest[d].state = "sInitializingMod" THEN 1 ELSE 0)
          = IF tank[d] = "sLoading" THEN 1 ELSE 0
    BY <2>1, <2>2, <2>3 DEF LoadInv, Balanced
  <2> QED
    BY <2>4, <2>5 DEF NoTankForgotten
<1> QED
  BY <1>1, LoadInvariance, PTL

\* A new game tells every destination that finished loading to load its level,
\* unless the action that lets its tank play is still to be sent.
THEOREM NewGameCorrect == Spec => NewGameRetells
<1> DEFINE Retold(d) ==
             (/\ level' # level
              /\ dest[d].state = "sFinished"
              /\ Count(sendActions, LAMBDA a : a = TankLoaded(d)) = 0)
             => dest'[d] = [state |-> "sLoadingLevel", levelNumber |-> level']
<1>1. ASSUME IInv, LoadInv, [Next]_vars, NEW d \in Dests
      PROVE  Retold(d)
  <2> SUFFICES ASSUME level' # level, dest[d].state = "sFinished",
                      Count(sendActions, LAMBDA a : a = TankLoaded(d)) = 0
               PROVE  dest'[d] = [state |-> "sLoadingLevel", levelNumber |-> level']
    OBVIOUS
  <2>1. NewGame
    BY <1>1 DEF Next, ServerNext, ClientNext, AddSimulatorAction, SimulateStep,
                InitializeMod, LevelLoaded, ReceiveLoad, ReceiveBatch, ClientStep,
                FinishLoad, vars, server
  <2>2. /\ simActions \in Seq(Entry) /\ d \in Tanks
        /\ tank[d] \in {"sLoading", "ready"}
    BY <1>1 DEF IInv, TypeOK, Tanks
  <2>3. Number(sendActions, {TankLoaded(d)}) = 0
    <3>1. {i \in 1 .. Len(sendActions) : sendActions[i] \in {TankLoaded(d)}}
            = {i \in 1 .. Len(sendActions) : sendActions[i] = TankLoaded(d)}
      OBVIOUS
    <3> QED
      BY <3>1 DEF Count, Number
  <2>4. PICK b \in Nat : b = Number(simActions, LoadedEntry(d))
    BY <2>2, NumberType
  <2>5. PICK old \in {"sLoading", "ready"} : old = tank[d]
    BY <2>2
  <2>6. Waiting(d) = b
    BY <2>3, <2>4 DEF Waiting
  <2>7. Balanced(LoadsOf(d), b, "sFinished", old)
    BY <1>1, <2>5, <2>6 DEF LoadInv
  <2>8. b > 0 \/ old = "ready"
    BY <2>5, <2>7 DEF Balanced
  <2>9. TanksAfter(simActions)[d] = "ready"
    BY <2>2, <2>4, <2>5, <2>8, TankReady
  <2>10. d \in Reloading(TanksAfter(simActions))
    BY <2>2, <2>9 DEF Reloading
  <2> QED
    BY <2>1, <2>10 DEF NewGame, ToldToLoad, SetState, AllowedStateTransitions
<1>2. IInv /\ LoadInv /\ [Next]_vars => \A d \in Dests : Retold(d)
  BY <1>1
<1>3. IInv /\ LoadInv /\ [Next]_vars => [\A d \in Dests : Retold(d)]_vars
  BY <1>2
<1> QED
  BY <1>3, LoadInvariance, PTL DEF Spec, NewGameRetells
=============================================================================
