--------------------------- MODULE LevelSyncProofs ---------------------------
(***************************************************************************)
(* Proofs about LevelSync, for any destinations, step sizes and bounds.    *)
(***************************************************************************)
EXTENDS LevelSync, SequenceTheorems, WellFoundedInduction, TLAPS

-----------------------------------------------------------------------------
(* What the loop of actualSimulate takes from a queue. *)

\* The number of leading actions that are due is well defined for every queue:
\* the loop stops before the first action that is not due, or at the end.
LEMMA DueProperties ==
    ASSUME NEW q \in Seq(Entry), NEW t \in Nat
    PROVE  /\ Due(q, t) \in 0 .. Len(q)
           /\ \A i \in 1 .. Due(q, t) : q[i].at <= t
           /\ Due(q, t) < Len(q) => q[Due(q, t) + 1].at > t
<1> DEFINE Late == {i \in 1 .. Len(q) : ~(q[i].at <= t)}
           P(n) == /\ \A i \in 1 .. n : q[i].at <= t
                   /\ n < Len(q) => q[n + 1].at > t
<1>1. Len(q) \in Nat /\ \A i \in 1 .. Len(q) : q[i] \in Entry
  BY LenProperties, ElementOfSeq
<1>2. \A i \in 1 .. Len(q) : q[i].at \in Nat
  BY <1>1 DEF Entry
<1>3. \E n \in 0 .. Len(q) : P(n)
  <2>1. CASE Late = {}
    BY <2>1, <1>1, <1>2
  <2>2. CASE Late # {}
    <3>1. PICK m \in Late : \A k \in Late : ~ (<<k, m>> \in OpToRel(<, Nat))
      <4>1. Late \subseteq Nat
        BY <1>1
      <4> QED
        BY <4>1, <2>2, WFMin, NatLessThanWellFounded
    <3>2. \A k \in Late : ~ (k < m)
      <4> SUFFICES ASSUME NEW k \in Late, k < m PROVE FALSE
        OBVIOUS
      <4>1. <<k, m>> \in Nat \X Nat
        BY <1>1
      <4>2. <<k, m>> \in OpToRel(<, Nat)
        BY <4>1 DEF OpToRel
      <4> QED
        BY <4>2, <3>1
    <3>3. m - 1 \in 0 .. Len(q) /\ P(m - 1)
      BY <3>2, <1>1, <1>2
    <3> QED
      BY <3>3
  <2> QED
    BY <2>1, <2>2
<1> QED
  BY <1>3 DEF Due

\* A sequence given by its elements.
LEMMA SeqByElements ==
    ASSUME NEW S, NEW n \in Nat, NEW f \in [1 .. n -> S]
    PROVE  f \in Seq(S) /\ Len(f) = n
OBVIOUS

\* What is applied and what stays have the types of the queue, and their lengths
\* add up to it.
LEMMA FiredType ==
    ASSUME NEW q \in Seq(Entry), NEW t \in Nat
    PROVE  /\ Fired(q, t) \in Seq(Entry)
           /\ Len(Fired(q, t)) = Due(q, t)
           /\ \A i \in 1 .. Due(q, t) : Fired(q, t)[i] = [act |-> q[i].act, at |-> t]
           /\ NotFired(q, t) \in Seq(Entry)
           /\ Len(NotFired(q, t)) = Len(q) - Due(q, t)
           /\ \A i \in 1 .. Len(q) - Due(q, t) : NotFired(q, t)[i] = q[Due(q, t) + i]
<1>1. Due(q, t) \in 0 .. Len(q) /\ Len(q) \in Nat
  BY DueProperties, LenProperties
<1>2. \A i \in 1 .. Len(q) : q[i] \in Entry
  BY ElementOfSeq
<1>3. \A i \in 1 .. Due(q, t) : [act |-> q[i].act, at |-> t] \in Entry
  BY <1>1, <1>2 DEF Entry
<1>4. Fired(q, t) \in [1 .. Due(q, t) -> Entry]
  BY <1>3 DEF Fired
<1>5. Fired(q, t) \in Seq(Entry) /\ Len(Fired(q, t)) = Due(q, t)
  BY <1>1, <1>4, SeqByElements
<1>6. \A i \in Due(q, t) + 1 .. Len(q) : q[i] \in Entry
  BY <1>1, <1>2
<1>7. /\ NotFired(q, t) \in Seq(Entry)
      /\ Len(NotFired(q, t)) = Len(q) - Due(q, t)
      /\ \A i \in 1 .. Len(q) - Due(q, t) : NotFired(q, t)[i] = q[Due(q, t) + i]
  <2> DEFINE m == Due(q, t) + 1
             n == Len(q)
  <2>1. m \in Int /\ n \in Int /\ \A i \in m .. n : q[i] \in Entry
    BY <1>1, <1>6
  <2>2. /\ SubSeq(q, m, n) \in Seq(Entry)
        /\ Len(SubSeq(q, m, n)) = IF m <= n THEN n - m + 1 ELSE 0
        /\ \A i \in 1 .. n - m + 1 : SubSeq(q, m, n)[i] = q[m + i - 1]
    BY <2>1, SubSeqProperties
  <2> QED
    BY <2>2, <1>1 DEF NotFired
<1> QED
  BY <1>5, <1>7 DEF Fired

Sorted(q) == \A i, j \in 1 .. Len(q) : i <= j => q[i].at <= q[j].at

\* On a sorted queue none of whose actions is late, the loop applies each action
\* at the step it is stamped with and leaves only later ones.
LEMMA FiredOnTime ==
    ASSUME NEW q \in Seq(Entry), NEW t \in Nat, Sorted(q),
           \A i \in 1 .. Len(q) : t <= q[i].at
    PROVE  /\ \A i \in 1 .. Due(q, t) : Fired(q, t)[i] = q[i] /\ q[i].at = t
           /\ Sorted(NotFired(q, t))
           /\ \A i \in 1 .. Len(NotFired(q, t)) : t < NotFired(q, t)[i].at
           /\ Fired(q, t) \o NotFired(q, t) = q
<1> DEFINE n == Due(q, t)
<1>1. n \in 0 .. Len(q) /\ Len(q) \in Nat
  BY DueProperties, LenProperties
<1>2. \A i \in 1 .. Len(q) : q[i] \in Entry /\ q[i].at \in Nat
  <2>1. \A i \in 1 .. Len(q) : q[i] \in Entry
    BY ElementOfSeq
  <2> QED
    BY <2>1 DEF Entry
<1>3. \A i \in 1 .. n : q[i].at = t
  BY <1>1, <1>2, DueProperties
<1>4. \A i \in 1 .. n : Fired(q, t)[i] = q[i]
  <2>1. \A i \in 1 .. n : q[i] = [act |-> q[i].act, at |-> t]
    BY <1>1, <1>2, <1>3 DEF Entry
  <2> QED
    BY <2>1, FiredType
<1>5. \A i \in 1 .. Len(q) : i > n => q[i].at > t
  <2> SUFFICES ASSUME NEW i \in 1 .. Len(q), i > n PROVE q[i].at > t
    OBVIOUS
  <2>1. n < Len(q) /\ n + 1 \in 1 .. Len(q) /\ n + 1 <= i
    BY <1>1
  <2>2. q[n + 1].at > t
    BY <2>1, DueProperties
  <2>3. q[n + 1].at <= q[i].at
    BY <2>1 DEF Sorted
  <2> QED
    BY <2>1, <2>2, <2>3, <1>2
<1>6. Len(NotFired(q, t)) = Len(q) - n
      /\ \A i \in 1 .. Len(q) - n : NotFired(q, t)[i] = q[n + i]
  BY FiredType
<1>7. \A i \in 1 .. Len(NotFired(q, t)) : t < NotFired(q, t)[i].at
  <2> SUFFICES ASSUME NEW i \in 1 .. Len(q) - n
               PROVE  t < NotFired(q, t)[i].at
    BY <1>6
  <2>1. n + i \in 1 .. Len(q) /\ n + i > n
    BY <1>1
  <2>2. q[n + i].at > t /\ q[n + i].at \in Nat
    BY <2>1, <1>2, <1>5
  <2>3. NotFired(q, t)[i] = q[n + i]
    BY <1>6
  <2> QED
    BY <2>2, <2>3
<1>8. Sorted(NotFired(q, t))
  <2> SUFFICES ASSUME NEW i \in 1 .. Len(q) - n, NEW j \in 1 .. Len(q) - n, i <= j
               PROVE  NotFired(q, t)[i].at <= NotFired(q, t)[j].at
    BY <1>6 DEF Sorted
  <2>1. n + i \in 1 .. Len(q) /\ n + j \in 1 .. Len(q) /\ n + i <= n + j
    BY <1>1
  <2>2. q[n + i].at <= q[n + j].at
    BY <2>1 DEF Sorted
  <2>3. NotFired(q, t)[i] = q[n + i] /\ NotFired(q, t)[j] = q[n + j]
    BY <1>6
  <2> QED
    BY <2>2, <2>3
<1>9. Fired(q, t) \o NotFired(q, t) = q
  <2> DEFINE r == Fired(q, t) \o NotFired(q, t)
  <2>1. Fired(q, t) \in Seq(Entry) /\ NotFired(q, t) \in Seq(Entry)
        /\ Len(Fired(q, t)) = n
    BY FiredType
  <2>2. r \in Seq(Entry) /\ Len(r) = Len(q)
        /\ \A i \in 1 .. Len(q) : r[i] = IF i <= n THEN Fired(q, t)[i]
                                                  ELSE NotFired(q, t)[i - n]
    <3>1. PICK f \in Seq(Entry) : f = Fired(q, t)
      BY <2>1
    <3>2. PICK g \in Seq(Entry) : g = NotFired(q, t)
      BY <2>1
    <3>3. PICK u : u = f \o g
      OBVIOUS
    <3>4. /\ u \in Seq(Entry) /\ Len(u) = Len(f) + Len(g)
          /\ \A i \in 1 .. Len(f) + Len(g) : u[i] = IF i <= Len(f) THEN f[i] ELSE g[i - Len(f)]
      BY <3>3, ConcatProperties
    <3>5. Len(f) = n /\ Len(f) + Len(g) = Len(q)
      BY <3>1, <3>2, <2>1, <1>1, <1>6
    <3>6. r = u
      BY <3>1, <3>2, <3>3
    <3> HIDE DEF r
    <3> QED
      BY <3>1, <3>2, <3>4, <3>5, <3>6
  <2>3. ASSUME NEW i \in 1 .. Len(q) PROVE r[i] = q[i]
    <3>1. r[i] = IF i <= n THEN Fired(q, t)[i] ELSE NotFired(q, t)[i - n]
      BY <2>2
    <3> HIDE DEF r
    <3>2. CASE i <= n
      BY <3>1, <3>2, <1>1, <1>4
    <3>3. CASE ~(i <= n)
      <4>1. i - n \in 1 .. Len(q) - n /\ n + (i - n) = i
        BY <3>3, <1>1
      <4> QED
        BY <3>1, <3>3, <4>1, <1>6
    <3> QED
      BY <3>2, <3>3
  <2> QED
    BY <2>2, <2>3, SeqEqual
<1> QED
  BY <1>3, <1>4, <1>7, <1>8, <1>9

\* The entries of a batch carry its event time.
LEMMA EntriesAtType ==
    ASSUME NEW acts \in Seq(Action), NEW t \in Nat
    PROVE  /\ EntriesAt(acts, t) \in Seq(Entry)
           /\ Len(EntriesAt(acts, t)) = Len(acts)
           /\ \A i \in 1 .. Len(acts) : EntriesAt(acts, t)[i].at = t
<1>1. Len(acts) \in Nat /\ \A i \in 1 .. Len(acts) : acts[i] \in Action
  BY LenProperties, ElementOfSeq
<1>2. EntriesAt(acts, t) \in [1 .. Len(acts) -> Entry]
  BY <1>1 DEF EntriesAt, Entry
<1> QED
  BY <1>1, <1>2, SeqByElements DEF EntriesAt
-----------------------------------------------------------------------------
(* Type correctness. *)

\* The tanks' states stay tank states, whatever is applied.
LEMMA TanksAfterType ==
    ASSUME TypeOK, NEW entries
    PROVE  TanksAfter(entries) \in [Tanks -> {"sLoading", "ready"}]
BY DEF TypeOK, TanksAfter

LEMMA ActionTypes ==
    /\ \A t \in Tanks : TankLoaded(t) \in Action
    /\ \A n \in 1 .. MaxActions : GameAction(n) \in Action
BY DEF TankLoaded, GameAction, Action

LEMMA RecordedType ==
    ASSUME NEW rec \in Recording, NEW batch \in Batch,
           rec.lastEmpty => rec.emptyPosition = Len(rec.entries)
    PROVE  /\ Recorded(rec, batch) \in Recording
           /\ Recorded(rec, batch).entries = rec.entries \o batch.entries
           /\ Recorded(rec, batch).event = batch.event
           /\ Recorded(rec, batch).lastEmpty =>
                 Recorded(rec, batch).emptyPosition = Len(Recorded(rec, batch).entries)
<1> DEFINE kept == IF rec.lastEmpty THEN SubSeq(rec.entries, 1, rec.emptyPosition)
                                    ELSE rec.entries
<1>1. /\ rec.entries \in Seq(Entry) /\ rec.emptyPosition \in Nat
      /\ batch.entries \in Seq(Entry) /\ batch.event \in Nat
  BY DEF Recording, Batch
<1>2. kept = rec.entries
  BY <1>1, SubSeqFull
<1>3. /\ rec.entries \o batch.entries \in Seq(Entry)
      /\ Len(rec.entries) \in Nat
      /\ batch.entries = <<>> => rec.entries \o batch.entries = rec.entries
  BY <1>1, ConcatProperties, ConcatEmptySeq, LenProperties
<1> DEFINE all == rec.entries \o batch.entries
           new == [entries |-> all, event |-> batch.event,
                   lastEmpty |-> batch.entries = <<>>,
                   emptyPosition |-> IF batch.entries = <<>> THEN Len(rec.entries)
                                                             ELSE rec.emptyPosition]
<1>4. Recorded(rec, batch) = new
  BY <1>2 DEF Recorded
<1>5. all \in Seq(Entry)
  BY <1>3
<1>6. /\ new.entries = all /\ new.event = batch.event
      /\ new.lastEmpty = (batch.entries = <<>>)
      /\ batch.entries = <<>> => new.emptyPosition = Len(rec.entries)
  OBVIOUS
<1>7. new.lastEmpty => new.emptyPosition = Len(new.entries)
  BY <1>3, <1>6
<1>8. new \in Recording
  BY <1>1, <1>3, <1>5 DEF Recording
<1> HIDE DEF new
<1> QED
  BY <1>4, <1>6, <1>7, <1>8

LEMMA InitType == Init => TypeOK
<1> SUFFICES ASSUME Init PROVE TypeOK
  OBVIOUS
<1> USE DestsAssumption, StepsAssumption, BoundsAssumption DEF Init
<1>1. <<>> \in Seq(Action) /\ <<>> \in Seq(Entry) /\ <<>> \in Seq(Load \cup Batch)
  BY EmptySeq
<1>2. EmptyRecording \in Recording
  BY <1>1 DEF EmptyRecording, Recording
<1>3. NewClient \in Client
  BY <1>1 DEF NewClient, Client
<1>4. sendStepSize \in Nat
  OBVIOUS
<1> QED
  BY <1>1, <1>2, <1>3, <1>4 DEF TypeOK, Tanks, Destination
-----------------------------------------------------------------------------
(* The invariant of the server's schedule.                                 *)

\* Nothing was sent for a level to come; what was sent in this level is what was
\* applied and what waits, in that order; what waits is sorted and never late.
ScheduleInv ==
    /\ currentTime <= nextSendTime /\ nextSendTime < nextEventTime
    /\ currentTime = 0 => nextSendTime = 0
    /\ Sorted(simActions)
    /\ \A i \in 1 .. Len(simActions) :
          currentTime <= simActions[i].at /\ simActions[i].at <= nextEventTime
    /\ log[level] = world \o simActions
    /\ \A l \in 1 .. MaxLevel : l > level => log[l] = <<>>

\* The recording is complete, and overwriting its last batch loses no action.
RecordingInv ==
    /\ RecordingComplete
    /\ levelMessage.lastEmpty => levelMessage.emptyPosition = Len(levelMessage.entries)
    /\ currentTime = 0 => levelMessage.event = 0

IInv == TypeOK /\ ScheduleInv /\ RecordingInv

LEMMA InitIInv == Init => IInv
<1> SUFFICES ASSUME Init PROVE IInv
  OBVIOUS
<1>1. TypeOK
  BY InitType
<1>2. ScheduleInv
  <2>1. sendStepSize \in Nat /\ sendStepSize > 0
    BY StepsAssumption DEF Init
  <2>2. Sorted(simActions) /\ world \o simActions = <<>>
    BY EmptySeq, ConcatEmptySeq DEF Init, Sorted
  <2> QED
    BY <2>1, <2>2, BoundsAssumption DEF Init, ScheduleInv
<1>3. RecordingInv
  BY BoundsAssumption DEF Init, RecordingInv, RecordingComplete, EmptyRecording
<1> QED
  BY <1>1, <1>2, <1>3 DEF IInv

\* addSimulatorAction touches only what is still to be sent.
LEMMA AddStep == IInv /\ AddSimulatorAction => IInv'
<1> SUFFICES ASSUME IInv, AddSimulatorAction PROVE IInv'
  OBVIOUS
<1> USE DEF AddSimulatorAction
<1>1. requested + 1 \in 1 .. MaxActions
  BY BoundsAssumption DEF IInv, TypeOK
<1>2. sendActions' \in Seq(Action)
  BY <1>1, ActionTypes, AppendProperties DEF IInv, TypeOK
<1>3. TypeOK'
  BY <1>1, <1>2 DEF IInv, TypeOK
<1>4. ScheduleInv'
  BY DEF IInv, ScheduleInv
<1>5. RecordingInv'
  BY DEF IInv, RecordingInv, RecordingComplete
<1> QED
  BY <1>3, <1>4, <1>5 DEF IInv

LEMMA ToldToLoadType ==
    ASSUME TypeOK, NEW d \in Dests, NEW l \in 1 .. MaxLevel
    PROVE  ToldToLoad(d, l) \in Destination
BY DEF TypeOK, ToldToLoad, SetState, Destination

\* Initialising a mod and answering a finished load send messages and queue
\* actions; they leave the schedule and the recording alone.
LEMMA LoadStep ==
    ASSUME IInv, NEW d \in Dests, InitializeMod(d) \/ LevelLoaded(d)
    PROVE  IInv'
<1>1. LoadMessage(level, currentTime, levelMessage) \in Load \cup Batch
  BY DEF IInv, TypeOK, LoadMessage, Load, Recording
<1>2. toClient' \in [Dests -> Seq(Load \cup Batch)]
  <2>1. Append(toClient[d], LoadMessage(level, currentTime, levelMessage))
          \in Seq(Load \cup Batch)
    BY <1>1, AppendProperties DEF IInv, TypeOK
  <2> QED
    BY <2>1 DEF IInv, TypeOK, InitializeMod, LevelLoaded
<1>3. dest' \in [Dests -> Destination]
  <2>1. ToldToLoad(d, level) \in Destination
    BY ToldToLoadType DEF IInv, TypeOK
  <2>2. SetState(dest[d].state, "sFinished")
          \in {"sInitializingMod", "sLoadingLevel", "sFinished"}
    BY DEF IInv, TypeOK, Destination, SetState
  <2>3. CASE InitializeMod(d) \/ dest[d].levelNumber # level
    BY <2>1, <2>3 DEF IInv, TypeOK, InitializeMod, LevelLoaded
  <2>4. CASE dest' = [dest EXCEPT ![d].state = SetState(@, "sFinished")]
    BY <2>2, <2>4 DEF IInv, TypeOK, Destination
  <2> QED
    BY <2>3, <2>4 DEF InitializeMod, LevelLoaded
<1>4. sendActions' \in Seq(Action)
  <2>1. Append(sendActions, TankLoaded(d)) \in Seq(Action)
    BY ActionTypes, AppendProperties DEF IInv, TypeOK, Tanks
  <2> QED
    BY <2>1 DEF IInv, TypeOK, InitializeMod, LevelLoaded
<1>5. toServer' \in [Dests -> Nat]
  <2>1. toServer \in [Dests -> Nat]
    BY DEF IInv, TypeOK
  <2>2. CASE InitializeMod(d)
    BY <2>1, <2>2 DEF InitializeMod
  <2>3. CASE LevelLoaded(d)
    BY <2>1, <2>3 DEF LevelLoaded
  <2> QED
    BY <2>2, <2>3
<1>6. UNCHANGED <<level, currentTime, nextSendTime, nextEventTime, sendStepSize,
                  simActions, levelMessage, world, tank, requested, log, client>>
  BY DEF InitializeMod, LevelLoaded
<1>7. TypeOK'
  BY <1>2, <1>3, <1>4, <1>5, <1>6 DEF IInv, TypeOK
<1>8. ScheduleInv'
  BY <1>6 DEF IInv, ScheduleInv
<1>9. RecordingInv'
  BY <1>6 DEF IInv, RecordingInv, RecordingComplete
<1> QED
  BY <1>7, <1>8, <1>9 DEF IInv

\* What SimulateStep does with a queue q that holds the waiting actions and those
\* being sent: it goes on holding what is not due, in order and on time.
LEMMA QueueStep ==
    ASSUME NEW q \in Seq(Entry), Sorted(q), currentTime \in Nat, world \in Seq(Entry),
           \A i \in 1 .. Len(q) : currentTime <= q[i].at
    PROVE  /\ NotFired(q, currentTime) \in Seq(Entry)
           /\ world \o Fired(q, currentTime) \in Seq(Entry)
           /\ Sorted(NotFired(q, currentTime))
           /\ (world \o Fired(q, currentTime)) \o NotFired(q, currentTime) = world \o q
           /\ \A i \in 1 .. Len(NotFired(q, currentTime)) :
                 /\ currentTime + 1 <= NotFired(q, currentTime)[i].at
                 /\ \E j \in 1 .. Len(q) : NotFired(q, currentTime)[i] = q[j]
<1> DEFINE t == currentTime
           n == Due(q, t)
<1>1. /\ Fired(q, t) \in Seq(Entry) /\ NotFired(q, t) \in Seq(Entry)
      /\ Len(NotFired(q, t)) = Len(q) - n
      /\ \A i \in 1 .. Len(q) - n : NotFired(q, t)[i] = q[n + i]
  BY FiredType
<1>2. /\ Sorted(NotFired(q, t))
      /\ \A i \in 1 .. Len(NotFired(q, t)) : t < NotFired(q, t)[i].at
      /\ Fired(q, t) \o NotFired(q, t) = q
  BY FiredOnTime
<1>3. n \in 0 .. Len(q) /\ Len(q) \in Nat
  BY DueProperties, LenProperties
<1>4. world \o Fired(q, t) \in Seq(Entry)
  BY <1>1, ConcatProperties
<1>5. (world \o Fired(q, t)) \o NotFired(q, t) = world \o q
  <2>1. PICK f : f = Fired(q, t)
    OBVIOUS
  <2>2. PICK r : r = NotFired(q, t)
    OBVIOUS
  <2>3. f \in Seq(Entry) /\ r \in Seq(Entry)
    BY <1>1, <2>1, <2>2
  <2>4. (world \o f) \o r = world \o (f \o r)
    BY ONLY <2>3, world \in Seq(Entry), ConcatAssociative
  <2>5. f \o r = q
    BY <1>2, <2>1, <2>2
  <2>6. (world \o f) \o r = world \o q
    BY ONLY <2>4, <2>5
  <2> QED
    BY ONLY <2>1, <2>2, <2>6
<1>6. \A i \in 1 .. Len(NotFired(q, t)) :
         /\ t + 1 <= NotFired(q, t)[i].at
         /\ \E j \in 1 .. Len(q) : NotFired(q, t)[i] = q[j]
  <2> SUFFICES ASSUME NEW i \in 1 .. Len(q) - n
               PROVE  /\ t + 1 <= NotFired(q, t)[i].at
                      /\ \E j \in 1 .. Len(q) : NotFired(q, t)[i] = q[j]
    BY <1>1
  <2>1. n + i \in 1 .. Len(q) /\ NotFired(q, t)[i] = q[n + i]
    BY <1>1, <1>3
  <2>2. NotFired(q, t)[i].at \in Nat
    <3>1. q[n + i] \in Entry
      BY <2>1, ElementOfSeq
    <3> QED
      BY <3>1, <2>1 DEF Entry
  <2>3. t < NotFired(q, t)[i].at
    BY <1>1, <1>2
  <2> QED
    BY <2>1, <2>2, <2>3
<1> QED
  BY <1>1, <1>2, <1>4, <1>5, <1>6

\* A step of the server that sends nothing.
LEMMA NoSendStep ==
    ASSUME IInv, SimulateStep, NoSend
    PROVE  IInv'
<1> USE DEF SimulateStep, NoSend
<1>1. /\ simActions \in Seq(Entry) /\ Sorted(simActions)
      /\ currentTime \in Nat /\ nextSendTime \in Nat /\ nextEventTime \in Nat
      /\ world \in Seq(Entry)
      /\ \A i \in 1 .. Len(simActions) :
            currentTime <= simActions[i].at /\ simActions[i].at <= nextEventTime
  BY DEF IInv, TypeOK, ScheduleInv
<1>2. /\ simActions' \in Seq(Entry)
      /\ world' \in Seq(Entry)
      /\ Sorted(simActions')
      /\ world' \o simActions' = world \o simActions
      /\ \A i \in 1 .. Len(simActions') :
            /\ currentTime + 1 <= simActions'[i].at
            /\ \E j \in 1 .. Len(simActions) : simActions'[i] = simActions[j]
  BY <1>1, QueueStep
<1>3. tank' \in [Tanks -> {"sLoading", "ready"}]
  BY TanksAfterType DEF IInv
<1>4. UNCHANGED <<level, dest, requested, toServer, client, nextSendTime,
                  nextEventTime, sendStepSize, sendActions, levelMessage, log, toClient>>
      /\ currentTime' = currentTime + 1
  OBVIOUS
<1>5. TypeOK'
  BY <1>1, <1>2, <1>3, <1>4 DEF IInv, TypeOK
<1>6. ScheduleInv'
  <2>1. \A i \in 1 .. Len(simActions') :
          currentTime' <= simActions'[i].at /\ simActions'[i].at <= nextEventTime'
    BY <1>1, <1>2, <1>4
  <2>2. currentTime' <= nextSendTime' /\ nextSendTime' < nextEventTime'
    BY <1>1 DEF IInv, ScheduleInv
  <2>3. log'[level'] = world' \o simActions'
    BY <1>2, <1>4 DEF IInv, ScheduleInv
  <2>4. \A l \in 1 .. MaxLevel : l > level' => log'[l] = <<>>
    BY <1>4 DEF IInv, ScheduleInv
  <2>5. currentTime' # 0 /\ level' = level
    BY <1>1, <1>4
  <2> QED
    BY <1>2, <2>1, <2>2, <2>3, <2>4, <2>5 DEF ScheduleInv
<1>7. RecordingInv'
  <2>1. currentTime > 0
    BY <1>1, BoundsAssumption DEF IInv, ScheduleInv
  <2> QED
    BY <1>1, <1>4, <2>1 DEF IInv, RecordingInv, RecordingComplete
<1> QED
  BY <1>5, <1>6, <1>7 DEF IInv

\* A batch whose event time is later than all the server still waits for keeps
\* the queue sorted.
LEMMA BatchAppended ==
    ASSUME NEW q \in Seq(Entry), NEW acts \in Seq(Action), NEW now \in Nat,
           NEW last \in Nat, NEW event \in Nat, Sorted(q), now <= last, last < event,
           \A i \in 1 .. Len(q) : now <= q[i].at /\ q[i].at <= last,
           NEW all, all = q \o EntriesAt(acts, event)
    PROVE  /\ all \in Seq(Entry)
           /\ Sorted(all)
           /\ \A i \in 1 .. Len(all) : now <= all[i].at /\ all[i].at <= event
<1>1. PICK e : e = EntriesAt(acts, event)
  OBVIOUS
<1>2. e \in Seq(Entry) /\ \A i \in 1 .. Len(e) : e[i].at = event
  BY <1>1, EntriesAtType
<1>3. all = q \o e
  BY <1>1
<1>4. /\ all \in Seq(Entry)
      /\ Len(all) = Len(q) + Len(e)
      /\ \A i \in 1 .. Len(q) + Len(e) : all[i] =
            IF i <= Len(q) THEN q[i] ELSE e[i - Len(q)]
  BY ONLY <1>2, <1>3, q \in Seq(Entry), ConcatProperties
<1>5. Len(q) \in Nat /\ Len(e) \in Nat
  BY <1>2, LenProperties
<1>6. \A i \in 1 .. Len(q) : q[i].at \in Nat
  <2>1. \A i \in 1 .. Len(q) : q[i] \in Entry
    BY ElementOfSeq
  <2> QED
    BY <2>1 DEF Entry
<1>7. \A i \in 1 .. Len(all) : all[i].at =
            IF i <= Len(q) THEN q[i].at ELSE event
  <2> SUFFICES ASSUME NEW i \in 1 .. Len(all)
               PROVE  all[i].at = IF i <= Len(q) THEN q[i].at ELSE event
    OBVIOUS
  <2>1. CASE i <= Len(q)
    BY <2>1, <1>4
  <2>2. CASE ~(i <= Len(q))
    <3>1. i - Len(q) \in 1 .. Len(e)
      BY <2>2, <1>4, <1>5
    <3> QED
      BY <3>1, <2>2, <1>2, <1>4
  <2> QED
    BY <2>1, <2>2
<1>8. Sorted(all)
  <2> SUFFICES ASSUME NEW i \in 1 .. Len(all), NEW j \in 1 .. Len(all), i <= j
               PROVE  all[i].at <= all[j].at
    BY DEF Sorted
  <2>1. CASE j <= Len(q)
    <3>1. i \in 1 .. Len(q) /\ j \in 1 .. Len(q)
      BY <2>1, <1>4, <1>5
    <3>2. q[i].at <= q[j].at
      BY <3>1 DEF Sorted
    <3> QED
      BY <3>1, <3>2, <1>4, <1>5, <1>7
  <2>2. CASE ~(j <= Len(q)) /\ i <= Len(q)
    <3>1. i \in 1 .. Len(q)
      BY <2>2, <1>4, <1>5
    <3>2. q[i].at \in Nat /\ q[i].at <= last
      BY <3>1, <1>6
    <3>3. all[i].at = q[i].at /\ all[j].at = event
      BY <2>2, <1>7
    <3> QED
      BY <3>2, <3>3
  <2>3. CASE ~(i <= Len(q))
    BY <2>3, <1>4, <1>5, <1>7
  <2> QED
    BY <2>1, <2>2, <2>3, <1>4, <1>5
<1>9. \A i \in 1 .. Len(all) : now <= all[i].at /\ all[i].at <= event
  BY <1>4, <1>5, <1>6, <1>7
<1> QED
  BY <1>4, <1>8, <1>9

\* A step of the server that sends a batch.
LEMMA SendStep ==
    ASSUME IInv, SimulateStep, Send
    PROVE  IInv'
<1> DEFINE entries == EntriesAt(sendActions, nextEventTime')
           batch == [type |-> "batch", level |-> level,
                     event |-> nextEventTime', entries |-> entries]
<1>1. /\ currentTime' = currentTime + 1
      /\ currentTime < MaxTime
      /\ currentTime >= nextSendTime
      /\ sendStepSize' \in StepSizes
      /\ nextSendTime' = nextEventTime
      /\ nextEventTime' = nextEventTime + sendStepSize'
      /\ sendActions' = <<>>
      /\ UNCHANGED <<level, dest, requested, toServer, client>>
  BY DEF SimulateStep, Send
<1>2. /\ simActions' = NotFired(simActions \o entries, currentTime)
      /\ world' = world \o Fired(simActions \o entries, currentTime)
      /\ tank' = TanksAfter(Fired(simActions \o entries, currentTime))
  BY DEF Send
<1>3. /\ levelMessage' = Recorded(levelMessage, batch)
      /\ log' = [log EXCEPT ![level] = @ \o entries]
      /\ toClient' = [d \in Dests |->
           IF LoadedClient(d) THEN Append(toClient[d], batch) ELSE toClient[d]]
  BY DEF Send
<1>4. /\ simActions \in Seq(Entry) /\ Sorted(simActions)
      /\ currentTime \in Nat /\ nextSendTime \in Nat /\ nextEventTime \in Nat
      /\ world \in Seq(Entry) /\ sendActions \in Seq(Action)
      /\ currentTime <= nextSendTime /\ nextSendTime < nextEventTime
      /\ \A i \in 1 .. Len(simActions) :
            currentTime <= simActions[i].at /\ simActions[i].at <= nextEventTime
  BY DEF IInv, TypeOK, ScheduleInv
<1>5. /\ sendStepSize' \in Nat \ {0}
      /\ nextEventTime' \in Nat /\ nextEventTime < nextEventTime'
      /\ currentTime <= nextEventTime
  BY <1>1, <1>4, StepsAssumption
<1>6. entries \in Seq(Entry)
  BY <1>4, <1>5, EntriesAtType
<1>7. PICK q : q = simActions \o entries
  OBVIOUS
<1>8. /\ q \in Seq(Entry) /\ Sorted(q)
      /\ \A i \in 1 .. Len(q) : currentTime <= q[i].at /\ q[i].at <= nextEventTime'
  BY <1>4, <1>5, <1>7, BatchAppended
<1>9. simActions' = NotFired(q, currentTime) /\ world' = world \o Fired(q, currentTime)
  BY <1>2, <1>7
<1>10. /\ simActions' \in Seq(Entry)
       /\ world' \in Seq(Entry)
       /\ Sorted(simActions')
       /\ world' \o simActions' = world \o q
       /\ \A i \in 1 .. Len(simActions') :
             /\ currentTime + 1 <= simActions'[i].at
             /\ \E j \in 1 .. Len(q) : simActions'[i] = q[j]
  BY <1>4, <1>8, <1>9, QueueStep
<1>11. /\ log \in [1 .. MaxLevel -> Seq(Entry)] /\ level \in 1 .. MaxLevel
       /\ log[level] = world \o simActions
  BY DEF IInv, TypeOK, ScheduleInv
<1>12. PICK e : e = entries
  OBVIOUS
<1>13. log' = [log EXCEPT ![level] = log[level] \o e]
  BY <1>3, <1>12
<1>14. log[level] \o e = world \o q
  <2>1. (world \o simActions) \o e = world \o (simActions \o e)
    BY ONLY <1>4, <1>6, <1>12, ConcatAssociative
  <2>2. q = simActions \o e
    BY <1>7, <1>12
  <2> QED
    BY ONLY <2>1, <2>2, <1>11
<1>15. log[level] \o e \in Seq(Entry)
  BY <1>6, <1>11, <1>12, ConcatProperties
<1>16. /\ log' \in [1 .. MaxLevel -> Seq(Entry)]
       /\ log'[level] = log[level] \o e
       /\ \A l \in 1 .. MaxLevel : l # level => log'[l] = log[l]
  <2>1. PICK new : new = log[level] \o e
    OBVIOUS
  <2>2. log' = [log EXCEPT ![level] = new] /\ new \in Seq(Entry)
    BY <2>1, <1>13, <1>15
  <2>3. /\ log' \in [1 .. MaxLevel -> Seq(Entry)]
        /\ log'[level] = new
        /\ \A l \in 1 .. MaxLevel : l # level => log'[l] = log[l]
    BY <2>2, <1>11
  <2> QED
    BY <2>1, <2>3
<1>17. batch \in Batch
  BY <1>5, <1>6, <1>11 DEF Batch
<1>18. /\ levelMessage' \in Recording
       /\ levelMessage'.entries = levelMessage.entries \o e
       /\ levelMessage'.event = nextEventTime'
       /\ levelMessage'.lastEmpty =>
             levelMessage'.emptyPosition = Len(levelMessage'.entries)
  <2>1. /\ levelMessage \in Recording
        /\ levelMessage.lastEmpty => levelMessage.emptyPosition = Len(levelMessage.entries)
    BY DEF IInv, TypeOK, RecordingInv
  <2>2. PICK b : b = batch
    OBVIOUS
  <2>3. b \in Batch /\ b.entries = e /\ b.event = nextEventTime'
    BY <1>12, <1>17, <2>2
  <2>4. levelMessage' = Recorded(levelMessage, b)
    BY <1>3, <2>2
  <2>5. /\ Recorded(levelMessage, b) \in Recording
        /\ Recorded(levelMessage, b).entries = levelMessage.entries \o b.entries
        /\ Recorded(levelMessage, b).event = b.event
        /\ Recorded(levelMessage, b).lastEmpty =>
              Recorded(levelMessage, b).emptyPosition = Len(Recorded(levelMessage, b).entries)
    BY <2>1, <2>3, RecordedType
  <2> QED
    BY <2>3, <2>4, <2>5
<1>19. toClient' \in [Dests -> Seq(Load \cup Batch)]
  <2>1. \A d \in Dests : Append(toClient[d], batch) \in Seq(Load \cup Batch)
    BY <1>17, AppendProperties DEF IInv, TypeOK
  <2> HIDE DEF batch
  <2> QED
    BY <2>1, <1>3 DEF IInv, TypeOK
<1>20. tank' \in [Tanks -> {"sLoading", "ready"}]
  BY <1>2, TanksAfterType DEF IInv
<1>21. TypeOK'
  <2>1. sendActions' \in Seq(Action)
    BY <1>1, EmptySeq
  <2> QED
    <3>1. currentTime' \in Nat /\ nextSendTime' \in Nat
      BY <1>1, <1>4
    <3>2. /\ level' \in 1 .. MaxLevel
          /\ dest' \in [Dests -> Destination]
          /\ toServer' \in [Dests -> Nat]
          /\ client' \in [Dests -> Client]
          /\ requested' \in 0 .. MaxActions
      BY <1>1 DEF IInv, TypeOK
    <3>3. /\ nextEventTime' \in Nat /\ sendStepSize' \in StepSizes
          /\ simActions' \in Seq(Entry) /\ world' \in Seq(Entry)
          /\ levelMessage' \in Recording
          /\ log' \in [1 .. MaxLevel -> Seq(Entry)]
      BY <1>1, <1>5, <1>10, <1>16, <1>18
    <3> QED
      BY <2>1, <3>1, <3>2, <3>3, <1>19, <1>20 DEF TypeOK
<1>22. ScheduleInv'
  <2>1. \A i \in 1 .. Len(simActions') :
          currentTime' <= simActions'[i].at /\ simActions'[i].at <= nextEventTime'
    BY <1>1, <1>8, <1>10
  <2>2. currentTime' <= nextSendTime' /\ nextSendTime' < nextEventTime'
        /\ currentTime' # 0
    <3>1. currentTime + 1 <= nextEventTime /\ currentTime + 1 # 0
      BY <1>4
    <3> QED
      BY <3>1, <1>1, <1>5
  <2>3. log'[level'] = world' \o simActions'
    <3>1. log'[level'] = world \o q
      BY <1>1, <1>14, <1>16
    <3> QED
      BY <3>1, <1>10
  <2>4. \A l \in 1 .. MaxLevel : l > level' => log'[l] = <<>>
    BY <1>1, <1>11, <1>16 DEF IInv, ScheduleInv
  <2> QED
    BY <2>1, <2>2, <2>3, <2>4, <1>10 DEF ScheduleInv
<1>23. RecordingInv'
  <2>1. levelMessage'.entries = log'[level']
    <3>1. levelMessage.entries = log[level]
      BY DEF IInv, RecordingInv, RecordingComplete
    <3> QED
      BY <3>1, <1>1, <1>16, <1>18
  <2>2. currentTime' # 0
    BY <1>1, <1>4
  <2> QED
    BY <2>1, <2>2, <1>18 DEF RecordingInv, RecordingComplete
<1> QED
  BY <1>21, <1>22, <1>23 DEF IInv

\* A new game starts the next level with nothing sent, recorded or applied.
LEMMA NewGameStep ==
    ASSUME IInv, NewGame
    PROVE  IInv'
<1>1. /\ level' = level + 1 /\ level < MaxLevel
      /\ currentTime' = 0 /\ nextSendTime' = 0 /\ nextEventTime' = sendStepSize
      /\ simActions' = <<>> /\ world' = <<>> /\ levelMessage' = EmptyRecording
      /\ tank' = [t \in Tanks |-> "sLoading"]
      /\ UNCHANGED <<sendStepSize, requested, log, toServer, client>>
  BY DEF NewGame
<1>2. level' \in 1 .. MaxLevel
  BY <1>1, BoundsAssumption DEF IInv, TypeOK
<1>3. <<>> \in Seq(Entry) /\ EmptyRecording \in Recording
  BY EmptySeq DEF EmptyRecording, Recording
<1>4. sendActions' \in Seq(Action)
  <2>1. Append(sendActions, TankLoaded(Bot)) \in Seq(Action)
    BY ActionTypes, AppendProperties DEF IInv, TypeOK, Tanks
  <2>2. sendActions' = Append(sendActions, TankLoaded(Bot)) \/ sendActions' = sendActions
    BY DEF NewGame
  <2> QED
    BY <2>1, <2>2 DEF IInv, TypeOK
<1>5. dest' \in [Dests -> Destination]
  <2>1. \A d \in Dests : ToldToLoad(d, level + 1) \in Destination
    BY <1>1, <1>2, ToldToLoadType DEF IInv
  <2>2. PICK reload : dest' = [d \in Dests |->
            IF d \in reload THEN ToldToLoad(d, level + 1) ELSE dest[d]]
    BY DEF NewGame
  <2> QED
    BY <2>1, <2>2 DEF IInv, TypeOK
<1>6. toClient' \in [Dests -> Seq(Load \cup Batch)]
  <2>1. PICK m : m = LoadMessage(level + 1, 0, EmptyRecording)
    OBVIOUS
  <2>2. m \in Load
    BY <1>1, <1>2, <1>3, <2>1 DEF LoadMessage, Load, EmptyRecording
  <2>3. \A d \in Dests : Append(toClient[d], m) \in Seq(Load \cup Batch)
    BY <2>2, AppendProperties DEF IInv, TypeOK
  <2>4. PICK reload : toClient' = [d \in Dests |->
            IF d \in reload THEN Append(toClient[d], m) ELSE toClient[d]]
    BY <2>1 DEF NewGame
  <2> QED
    BY <2>3, <2>4 DEF IInv, TypeOK
<1>7. TypeOK'
  <2>1. nextEventTime' \in Nat /\ sendStepSize' \in StepSizes
    BY <1>1, StepsAssumption DEF IInv, TypeOK
  <2>2. tank' \in [Tanks -> {"sLoading", "ready"}]
    BY <1>1
  <2>3. toServer' \in [Dests -> Nat] /\ client' \in [Dests -> Client]
        /\ requested' \in 0 .. MaxActions
        /\ log' \in [1 .. MaxLevel -> Seq(Entry)]
    BY <1>1 DEF IInv, TypeOK
  <2> QED
    BY <1>1, <1>2, <1>3, <1>4, <1>5, <1>6, <2>1, <2>2, <2>3 DEF TypeOK
<1>8. ScheduleInv'
  <2>1. nextSendTime' < nextEventTime' /\ currentTime' <= nextSendTime'
    BY <1>1, StepsAssumption DEF IInv, TypeOK
  <2>2. Sorted(simActions') /\ Len(simActions') = 0
    BY <1>1, EmptySeq DEF Sorted
  <2>3. log'[level'] = <<>> /\ \A l \in 1 .. MaxLevel : l > level' => log'[l] = <<>>
    BY <1>1, <1>2 DEF IInv, TypeOK, ScheduleInv
  <2>4. world' \o simActions' = <<>>
    BY <1>1, <1>3, ConcatEmptySeq
  <2> QED
    BY <1>1, <2>1, <2>2, <2>3, <2>4 DEF ScheduleInv
<1>9. RecordingInv'
  <2>1. log'[level'] = <<>>
    BY <1>1, <1>2 DEF IInv, TypeOK, ScheduleInv
  <2> QED
    BY <1>1, <2>1 DEF RecordingInv, RecordingComplete, EmptyRecording
<1> QED
  BY <1>7, <1>8, <1>9 DEF IInv

\* A step of a client that leaves a client record in place keeps the invariant:
\* a client changes nothing of the server.
LEMMA ClientOnly ==
    ASSUME IInv, NEW d \in Dests, NEW c \in Client,
           client' = [client EXCEPT ![d] = c], UNCHANGED server,
           toClient' \in [Dests -> Seq(Load \cup Batch)],
           toServer' \in [Dests -> Nat]
    PROVE  IInv'
<1>1. client' \in [Dests -> Client]
  BY DEF IInv, TypeOK
<1>2. TypeOK'
  BY <1>1 DEF IInv, TypeOK, server
<1>3. ScheduleInv'
  BY DEF IInv, ScheduleInv, server
<1>4. RecordingInv'
  BY DEF IInv, RecordingInv, RecordingComplete, server
<1> QED
  BY <1>2, <1>3, <1>4 DEF IInv

\* A message taken from a connection has one of the two types, and the rest of
\* the connection keeps its own.
LEMMA ReceiveType ==
    ASSUME TypeOK, NEW d \in Dests, toClient[d] # <<>>,
           toClient' = [toClient EXCEPT ![d] = Tail(@)]
    PROVE  /\ toClient' \in [Dests -> Seq(Load \cup Batch)]
           /\ Head(toClient[d]) \in Load \cup Batch
<1>1. toClient[d] \in Seq(Load \cup Batch)
  BY DEF TypeOK
<1>2. Tail(toClient[d]) \in Seq(Load \cup Batch) /\ Head(toClient[d]) \in Load \cup Batch
  BY <1>1, HeadTailProperties
<1> QED
  BY <1>2 DEF TypeOK

LEMMA ReceiveLoadStep ==
    ASSUME IInv, NEW d \in Dests, ReceiveLoad(d)
    PROVE  IInv'
<1> DEFINE m == Head(toClient[d])
           old == client[d]
<1>1. /\ toClient' \in [Dests -> Seq(Load \cup Batch)]
      /\ m \in Load \cup Batch
  BY ReceiveType DEF IInv, ReceiveLoad, RECEIVE, Reading
<1>2. m \in Load
  BY <1>1 DEF ReceiveLoad, RECEIVE, Load, Batch
<1>3. old \in Client
  BY DEF IInv, TypeOK
<1>4. StartLoad(old, m) \in Client
  <2>1. /\ m.level \in 0 .. MaxLevel /\ m.time \in Nat /\ m.event \in Nat
        /\ m.entries \in Seq(Entry)
    BY <1>2 DEF Load
  <2>2. old.handlers \in Nat /\ old.waiting \in Nat /\ old.batchLevel \in 0 .. MaxLevel
    BY <1>3 DEF Client
  <2>3. <<>> \in Seq(Entry)
    BY EmptySeq
  <2> HIDE DEF m, old
  <2> QED
    BY <2>1, <2>2, <2>3 DEF Client, StartLoad
<1>5. client' = [client EXCEPT ![d] = StartLoad(old, m)]
  BY DEF ReceiveLoad
<1>6. UNCHANGED server /\ toServer' \in [Dests -> Nat]
  BY DEF IInv, TypeOK, ReceiveLoad
<1> QED
  BY <1>1, <1>4, <1>5, <1>6, ClientOnly

LEMMA ReceiveBatchStep ==
    ASSUME IInv, NEW d \in Dests, ReceiveBatch(d)
    PROVE  IInv'
<1> DEFINE m == Head(toClient[d])
           old == client[d]
<1>1. /\ toClient' \in [Dests -> Seq(Load \cup Batch)]
      /\ m \in Load \cup Batch
  BY ReceiveType DEF IInv, ReceiveBatch, RECEIVE, Reading
<1>2. m \in Batch
  BY <1>1 DEF ReceiveBatch, RECEIVE, Load, Batch
<1>3. old \in Client
  BY DEF IInv, TypeOK
<1>4. AddBatch(old, m) \in Client
  <2>1. m.level \in 0 .. MaxLevel /\ m.event \in Nat /\ m.entries \in Seq(Entry)
    BY <1>2 DEF Batch
  <2>2. old.queue \in Seq(Entry) /\ old.target \in Nat
    BY <1>3 DEF Client
  <2>3. PICK q : q = old.queue \o m.entries
    OBVIOUS
  <2>4. q \in Seq(Entry)
    BY <2>1, <2>2, <2>3, ConcatProperties
  <2>5. PICK a \in BOOLEAN : AddBatch(old, m) =
            [old EXCEPT !.waiting = m.event, !.queue = q,
                        !.target = IF old.loading THEN m.event ELSE old.target,
                        !.batchLevel = m.level, !.attached = a]
    <3>1. (old.attached /\ m.level = old.level /\ old.time <= m.event) \in BOOLEAN
      OBVIOUS
    <3> QED
      BY <3>1, <2>3, <1>3 DEF Client, AddBatch
  <2> HIDE DEF m, old
  <2> QED
    BY <2>1, <2>2, <2>4, <2>5, <1>3 DEF Client
<1>5. client' = [client EXCEPT ![d] = AddBatch(old, m)]
  BY DEF ReceiveBatch
<1>6. UNCHANGED server /\ toServer' \in [Dests -> Nat]
  BY DEF IInv, TypeOK, ReceiveBatch
<1> QED
  BY <1>1, <1>4, <1>5, <1>6, ClientOnly

LEMMA ClientStepStep ==
    ASSUME IInv, NEW d \in Dests, ClientStep(d)
    PROVE  IInv'
<1> DEFINE old == client[d]
<1>1. old \in Client
  BY DEF IInv, TypeOK
<1>2. Stepped(old) \in Client
  <2>1. old.queue \in Seq(Entry) /\ old.world \in Seq(Entry) /\ old.time \in Nat
    BY <1>1 DEF Client
  <2>2. PICK w : w = old.world \o Fired(old.queue, old.time)
    OBVIOUS
  <2>3. PICK q : q = NotFired(old.queue, old.time)
    OBVIOUS
  <2>4. w \in Seq(Entry) /\ q \in Seq(Entry) /\ old.time + 1 \in Nat
    BY <2>1, <2>2, <2>3, FiredType, ConcatProperties
  <2>5. Stepped(old) = [old EXCEPT !.time = old.time + 1, !.queue = q, !.world = w]
    BY <2>2, <2>3, <1>1 DEF Client, Stepped
  <2>6. PICK n \in Nat : n = old.time + 1
    BY <2>4
  <2> HIDE DEF old
  <2>7. Stepped(old) = [old EXCEPT !.time = n, !.queue = q, !.world = w]
    BY <2>5, <2>6
  <2> QED
    BY <2>4, <2>7, <1>1 DEF Client
<1>3. client' = [client EXCEPT ![d] = Stepped(old)]
  BY DEF ClientStep
<1>4. /\ UNCHANGED server
      /\ toServer' \in [Dests -> Nat]
      /\ toClient' \in [Dests -> Seq(Load \cup Batch)]
  BY DEF IInv, TypeOK, ClientStep
<1> QED
  BY <1>2, <1>3, <1>4, ClientOnly

LEMMA FinishLoadStep ==
    ASSUME IInv, NEW d \in Dests, FinishLoad(d)
    PROVE  IInv'
<1> DEFINE old == client[d]
           c == [old EXCEPT !.loading = FALSE, !.target = 0, !.handlers = @ - 1]
<1>1. old \in Client /\ old.handlers > 0
  BY DEF IInv, TypeOK, FinishLoad
<1>2. c \in Client
  <2>1. old.handlers - 1 \in Nat
    BY <1>1 DEF Client
  <2> HIDE DEF old
  <2> QED
    BY <1>1, <2>1 DEF Client
<1>3. client' = [client EXCEPT ![d] = c]
  BY <1>1 DEF IInv, TypeOK, Client, FinishLoad
<1>4. UNCHANGED server /\ toClient' \in [Dests -> Seq(Load \cup Batch)]
  BY DEF IInv, TypeOK, FinishLoad
<1>5. toServer' \in [Dests -> Nat]
  BY DEF IInv, TypeOK, FinishLoad
<1> HIDE DEF c
<1> QED
  BY <1>2, <1>3, <1>4, <1>5, ClientOnly
-----------------------------------------------------------------------------
(* The theorems. *)

LEMMA NextIInv == IInv /\ [Next]_vars => IInv'
<1> SUFFICES ASSUME IInv, [Next]_vars PROVE IInv'
  OBVIOUS
<1>1. CASE AddSimulatorAction
  BY <1>1, AddStep
<1>2. CASE SimulateStep
  BY <1>2, SendStep, NoSendStep DEF SimulateStep
<1>3. CASE NewGame
  BY <1>3, NewGameStep
<1>4. CASE \E d \in Dests : InitializeMod(d) \/ LevelLoaded(d)
  BY <1>4, LoadStep
<1>5. CASE \E d \in Dests : ClientNext(d)
  BY <1>5, ReceiveLoadStep, ReceiveBatchStep, ClientStepStep, FinishLoadStep
     DEF ClientNext
<1>6. CASE UNCHANGED vars
  <2>1. TypeOK'
    BY <1>6 DEF IInv, TypeOK, vars, server
  <2>2. ScheduleInv'
    BY <1>6 DEF IInv, ScheduleInv, vars, server
  <2>3. RecordingInv'
    BY <1>6 DEF IInv, RecordingInv, RecordingComplete, vars, server
  <2> QED
    BY <2>1, <2>2, <2>3 DEF IInv
<1> QED
  BY <1>1, <1>2, <1>3, <1>4, <1>5, <1>6 DEF Next, ServerNext

\* The invariant of the schedule and of the recording holds in every execution.
THEOREM Invariance == Spec => []IInv
BY InitIInv, NextIInv, PTL DEF Spec

\* Every variable of the server, the connections and the clients has its type.
THEOREM TypeCorrect == Spec => []TypeOK
<1>1. IInv => TypeOK
  BY DEF IInv
<1> QED
  BY <1>1, Invariance, PTL

\* The server applies each action at the step that ServerSimulator announced to
\* the clients, for every sequence of send intervals.
LEMMA OnSchedule == IInv => ServerOnSchedule
<1> SUFFICES ASSUME IInv PROVE ServerOnSchedule
  OBVIOUS
<1>1. /\ world \in Seq(Entry) /\ simActions \in Seq(Entry)
      /\ log[level] = world \o simActions
      /\ \A i \in 1 .. Len(simActions) : currentTime <= simActions[i].at
      /\ currentTime \in Nat
  BY DEF IInv, TypeOK, ScheduleInv
<1>2. PICK all : all = log[level]
  OBVIOUS
<1>3. all = world \o simActions
  BY <1>1, <1>2
<1>4. /\ Len(all) = Len(world) + Len(simActions)
      /\ \A i \in 1 .. Len(world) + Len(simActions) : all[i] =
            IF i <= Len(world) THEN world[i] ELSE simActions[i - Len(world)]
  BY ONLY <1>1, <1>3, ConcatProperties
<1>5. Len(world) \in Nat /\ Len(simActions) \in Nat
  BY <1>1, LenProperties
<1>6. AppliedAsSent(world, level)
  BY <1>2, <1>4, <1>5 DEF AppliedAsSent
<1>7. UpToDate(world, level, currentTime)
  <2> SUFFICES ASSUME NEW i \in 1 .. Len(all), all[i].at < currentTime, ~(i <= Len(world))
               PROVE  FALSE
    BY <1>2 DEF UpToDate
  <2>1. i - Len(world) \in 1 .. Len(simActions) /\ all[i] = simActions[i - Len(world)]
    BY <1>4, <1>5
  <2>2. simActions[i - Len(world)].at \in Nat
    <3>1. simActions[i - Len(world)] \in Entry
      BY <2>1, <1>1, ElementOfSeq
    <3> QED
      BY <3>1 DEF Entry
  <2> QED
    BY <2>1, <2>2, <1>1
<1> QED
  BY <1>6, <1>7 DEF ServerOnSchedule

THEOREM ScheduleCorrect == Spec => []ServerOnSchedule
BY OnSchedule, Invariance, PTL

\* The recording that a late joiner replays has every action sent in the level
\* and the last event time, although batches without actions are overwritten.
THEOREM RecordingCorrect == Spec => []RecordingComplete
<1>1. IInv => RecordingComplete
  BY DEF IInv, RecordingInv
<1> QED
  BY <1>1, Invariance, PTL
=============================================================================
