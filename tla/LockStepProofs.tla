---------------------------- MODULE LockStepProofs ----------------------------
(***************************************************************************)
(* A proof that the clients of LevelSync are in lock step with the server, *)
(* and that LevelSync implements ReplicatedSimulation, for any             *)
(* destinations, send intervals and bounds.                                *)
(***************************************************************************)
EXTENDS LevelSyncProofs

-----------------------------------------------------------------------------
(* The invariant. *)

\* The first n entries of what was sent, and no others, are stamped e or before.
Cut(sent, n, e) ==
    n \in 0 .. Len(sent) /\ \A i \in 1 .. Len(sent) : sent[i].at <= e <=> i <= n

\* q is what follows the first k entries.
PartOf(sent, k, q) ==
    k + Len(q) <= Len(sent) /\ \A i \in 1 .. Len(q) : q[i] = sent[k + i]

\* A load has what was sent up to its event time, a batch what was sent for its
\* own.
Faithful(m, sent) ==
    /\ m.type = "load" => PartOf(sent, 0, m.entries) /\ Cut(sent, Len(m.entries), m.event)
    /\ m.type = "batch" =>
        /\ m.event > 0
        /\ \E k \in 0 .. Len(sent) :
            /\ PartOf(sent, k, m.entries)
            /\ Cut(sent, k, m.event - 1) /\ Cut(sent, k + Len(m.entries), m.event)

\* Nothing was sent between the event time e and the batch m.
Follows(sent, e, m) ==
    m.type = "batch" =>
        e < m.event /\ \A i \in 1 .. Len(sent) : sent[i].at <= e \/ sent[i].at >= m.event

\* The event time up to which a client has what was sent in its level.
Heard(c) == IF c.batchLevel = c.level THEN c.waiting ELSE 0

\* The log: sorted, never at step 0, not beyond the next event time.
LogInv ==
    /\ \A l \in 1 .. MaxLevel :
        Sorted(log[l]) /\ \A i \in 1 .. Len(log[l]) : log[l][i].at > 0
    /\ \A i \in 1 .. Len(log[level]) : log[level][i].at <= nextEventTime
    /\ currentTime = 0 => log[level] = <<>>

\* What is in a connection.
Messages(q, lv, next, time, sent) ==
    \A i \in 1 .. Len(q) :
        /\ q[i].level <= lv
        /\ q[i].level = lv => q[i].event <= next /\ (q[i].event > 0 => time > 0)
        /\ Faithful(q[i], sent[q[i].level])

\* The messages of one level follow one another, and the first follows what the client has.
InARow(q, c, sent) ==
    /\ \A i \in 1 .. Len(q) - 1 :
        q[i + 1].level = q[i].level => Follows(sent[q[i].level], q[i].event, q[i + 1])
    /\ Len(q) > 0 /\ c.attached /\ q[1].level = c.level => Follows(sent[c.level], Heard(c), q[1])

\* A load without batches comes before all batches of its level.
LoadFirst(q, c) ==
    \A i \in 1 .. Len(q) : q[i].event = 0 =>
        /\ c.batchLevel # q[i].level
        /\ \A j \in 1 .. i - 1 : q[j].event = 0 \/ q[j].level # q[i].level

\* Who has the end of what was sent in the current level is sent the rest.
NothingMissed(q, c, lv, loaded, sent) ==
    /\ Len(q) > 0 /\ q[Len(q)].level = lv =>
        loaded /\ \A i \in 1 .. Len(sent[lv]) : sent[lv][i].at <= q[Len(q)].event
    /\ Len(q) = 0 /\ c.attached /\ c.level = lv =>
        loaded /\ \A i \in 1 .. Len(sent[lv]) : sent[lv][i].at <= Heard(c)

\* The client.
Attached(c, sent) ==
    /\ PartOf(sent, 0, c.world) /\ PartOf(sent, Len(c.world), c.queue)
    /\ Cut(sent, Len(c.world) + Len(c.queue), Heard(c))
    /\ \A i \in 1 .. Len(c.queue) : c.time <= c.queue[i].at
    /\ c.batchLevel = c.level => c.time <= c.waiting

InStep(c, lv, next, time, sent) ==
    /\ c.batchLevel <= lv
    /\ c.batchLevel = lv => time > 0 /\ c.waiting <= next
    /\ c.attached => c.level \in 1 .. lv /\ Attached(c, sent[c.level])

Connection(q, c, lv, next, time, loaded, sent) ==
    /\ Messages(q, lv, next, time, sent)
    /\ InARow(q, c, sent)
    /\ LoadFirst(q, c)
    /\ NothingMissed(q, c, lv, loaded, sent)
    /\ InStep(c, lv, next, time, sent)

LockStepInv ==
    /\ LogInv
    /\ \A d \in Dests :
        Connection(toClient[d], client[d], level, nextEventTime, currentTime,
                   LoadedClient(d), log)
-----------------------------------------------------------------------------
(* What happens to what a client has. *)

\* What types say of entries and messages.
LEMMA EntryStamps ==
    ASSUME NEW q \in Seq(Entry)
    PROVE  Len(q) \in Nat /\ \A i \in 1 .. Len(q) : q[i] \in Entry /\ q[i].at \in Nat
<1>1. \A i \in 1 .. Len(q) : q[i] \in Entry
  BY ElementOfSeq
<1> QED
  BY <1>1, LenProperties DEF Entry

LEMMA MessageFields ==
    ASSUME NEW m \in Load \cup Batch
    PROVE  /\ m.level \in 1 .. MaxLevel /\ m.event \in Nat /\ m.entries \in Seq(Entry)
           /\ m.type \in {"load", "batch"}
           /\ m.type = "load" => m \in Load
           /\ m.type = "batch" => m \in Batch
BY DEF Load, Batch

LEMMA ClientFields ==
    ASSUME NEW c \in Client
    PROVE  /\ c.level \in 0 .. MaxLevel /\ c.time \in Nat /\ c.waiting \in Nat
           /\ c.queue \in Seq(Entry) /\ c.world \in Seq(Entry)
           /\ c.batchLevel \in 0 .. MaxLevel /\ c.attached \in BOOLEAN
           /\ Heard(c) \in Nat
BY DEF Client, Heard

\* A load gives a client what was sent in the level so far.
LEMMA AttachedLoad ==
    ASSUME NEW c \in Client, NEW m \in Load, NEW sent \in Seq(Entry), Faithful(m, sent),
           m.event = 0 => c.batchLevel # m.level
    PROVE  LET n == StartLoad(c, m)
           IN  /\ n.attached /\ n.level = m.level /\ Heard(n) = m.event
               /\ n.batchLevel = IF m.event = 0 THEN c.batchLevel ELSE m.level
               /\ n.waiting = IF m.event = 0 THEN c.waiting ELSE m.event
               /\ Attached(n, sent)
<1> DEFINE n == StartLoad(c, m)
<1>1. /\ m.level \in 1 .. MaxLevel /\ m.event \in Nat /\ m.entries \in Seq(Entry)
      /\ m.type = "load"
  BY DEF Load
<1>2. /\ n.attached /\ n.level = m.level /\ n.time = 0 /\ n.world = <<>>
      /\ n.queue = m.entries
      /\ n.batchLevel = IF m.event = 0 THEN c.batchLevel ELSE m.level
      /\ n.waiting = IF m.event = 0 THEN c.waiting ELSE m.event
  BY DEF StartLoad
<1>3. Heard(n) = m.event
  BY <1>1, <1>2 DEF Heard
<1>4. PartOf(sent, 0, m.entries) /\ Cut(sent, Len(m.entries), m.event)
  BY <1>1 DEF Faithful
<1>5. /\ Len(n.world) = 0 /\ Len(n.queue) \in Nat
      /\ \A i \in 1 .. Len(n.queue) : n.queue[i].at \in Nat
  BY <1>1, <1>2, EntryStamps
<1>6. n.batchLevel = n.level => n.time <= n.waiting
  BY <1>1, <1>2
<1> HIDE DEF n
<1>7. PartOf(sent, 0, n.world) /\ PartOf(sent, 0, n.queue)
  BY <1>2, <1>4, <1>5, LenProperties DEF PartOf
<1>8. Cut(sent, 0 + Len(n.queue), Heard(n))
  BY <1>2, <1>3, <1>4, <1>5
<1>9. \A i \in 1 .. Len(n.queue) : n.time <= n.queue[i].at
  BY <1>2, <1>5
<1>10. Attached(n, sent)
  BY <1>5, <1>6, <1>7, <1>8, <1>9 DEF Attached
<1> QED
  BY <1>2, <1>3, <1>10 DEF n

\* A batch that follows what the client has continues it: a actions are applied, q
\* waits, and e begins where q ends.
LEMMA BatchContinues ==
    ASSUME NEW sent \in Seq(Entry), NEW q \in Seq(Entry), NEW e \in Seq(Entry),
           NEW a \in Nat, NEW h \in Nat, NEW event \in Nat, NEW time \in Nat,
           PartOf(sent, a, q), Cut(sent, a + Len(q), h),
           \A i \in 1 .. Len(q) : time <= q[i].at,
           NEW k \in 0 .. Len(sent), PartOf(sent, k, e), Cut(sent, k, event - 1),
           Cut(sent, k + Len(e), event),
           h < event, time <= event,
           \A i \in 1 .. Len(sent) : sent[i].at <= h \/ sent[i].at >= event
    PROVE  /\ PartOf(sent, a, q \o e)
           /\ Cut(sent, a + Len(q \o e), event)
           /\ \A i \in 1 .. Len(q \o e) : time <= (q \o e)[i].at
<1>1. PICK b \in Nat : b = Len(q)
  BY LenProperties
<1>2. PICK l \in Nat : l = Len(e)
  BY LenProperties
<1>3. PICK n \in Nat : n = Len(sent)
  BY LenProperties
<1>4. PICK at \in [1 .. n -> Nat] : \A i \in 1 .. n : at[i] = sent[i].at
  <2>1. [i \in 1 .. n |-> sent[i].at] \in [1 .. n -> Nat]
    BY <1>3, EntryStamps
  <2> QED
    BY <2>1
<1>5. /\ k \in 0 .. n /\ a + b \in 0 .. n /\ k + l \in 0 .. n
      /\ \A i \in 1 .. n : at[i] <= h <=> i <= a + b
      /\ \A i \in 1 .. n : at[i] <= event - 1 <=> i <= k
      /\ \A i \in 1 .. n : at[i] <= event <=> i <= k + l
      /\ \A i \in 1 .. n : at[i] <= h \/ at[i] >= event
  BY <1>1, <1>2, <1>3, <1>4 DEF Cut
<1>6. k = a + b
  <2>1. \A i \in 1 .. n : at[i] <= h <=> at[i] <= event - 1
    BY <1>5
  <2>2. \A i \in 1 .. n : i <= k <=> i <= a + b
    BY <2>1, <1>5
  <2>3. CASE k < a + b
    <3>1. PICK j \in 1 .. n : j = a + b
      BY <2>3, <1>5
    <3>2. j <= k <=> j <= a + b
      BY <2>2, <3>1
    <3> QED
      BY <3>1, <3>2, <2>3, <1>5
  <2>4. CASE k > a + b
    <3>1. k \in 1 .. n
      BY <2>4, <1>5
    <3> QED
      BY <3>1, <2>2, <2>4, <1>5
  <2>5. k \in Nat /\ a + b \in Nat
    BY <1>5
  <2> QED
    BY <2>3, <2>4, <2>5
<1>7. /\ Len(q \o e) = b + l
      /\ \A i \in 1 .. b + l : (q \o e)[i] = IF i <= b THEN q[i] ELSE e[i - b]
  BY <1>1, <1>2, ConcatProperties
<1>8. PICK r : /\ r = q \o e /\ Len(r) = b + l
               /\ \A i \in 1 .. b + l : r[i] = IF i <= b THEN q[i] ELSE e[i - b]
  BY <1>7
<1>9. /\ \A i \in 1 .. b : q[i] = sent[a + i] /\ time <= q[i].at
      /\ \A i \in 1 .. l : e[i] = sent[k + i]
  BY <1>1, <1>2 DEF PartOf
<1>10. \A i \in 1 .. l : e[i] = sent[k + i] /\ e[i].at = event
  <2> SUFFICES ASSUME NEW i \in 1 .. l
               PROVE  e[i].at = event
    BY <1>9
  <2>1. k + i \in 1 .. n /\ k + i <= k + l /\ ~(k + i <= k)
    BY <1>5
  <2>2. at[k + i] <= event /\ ~(at[k + i] <= event - 1) /\ at[k + i] \in Nat
    BY <2>1, <1>4, <1>5
  <2>3. at[k + i] = event
    BY <2>2
  <2> QED
    BY <2>1, <2>3, <1>4, <1>9
<1>11. \A i \in 1 .. b + l : r[i] = sent[a + i] /\ time <= r[i].at
  <2> SUFFICES ASSUME NEW i \in 1 .. b + l PROVE r[i] = sent[a + i] /\ time <= r[i].at
    OBVIOUS
  <2>1. CASE i <= b
    <3>1. i \in 1 .. b /\ r[i] = q[i]
      BY <2>1, <1>8
    <3> QED
      BY <3>1, <1>9
  <2>2. CASE ~(i <= b)
    <3>1. i - b \in 1 .. l /\ k + (i - b) = a + i
      <4>1. PICK j \in 1 .. b + l : j = i
        OBVIOUS
      <4>2. PICK x \in Nat : x = k
        BY <1>6
      <4>3. j - b \in 1 .. l /\ x + (j - b) = a + j
        <5>1. j > b /\ x = a + b
          BY <4>1, <4>2, <2>2, <1>6
        <5> QED
          BY <5>1
      <4> QED
        BY <4>1, <4>2, <4>3
    <3>2. r[i] = e[i - b]
      BY <2>2, <1>8
    <3>3. e[i - b] = sent[k + (i - b)] /\ e[i - b].at = event
      BY <3>1, <1>10
    <3>4. time <= event
      BY <1>4, <1>5
    <3> QED
      BY <3>1, <3>2, <3>3, <3>4
  <2> QED
    BY <2>1, <2>2
<1>12. a + (b + l) = k + l /\ a + (b + l) <= n
  BY <1>5, <1>6
<1>13. PartOf(sent, a, r)
  BY <1>3, <1>7, <1>8, <1>11, <1>12 DEF PartOf
<1>14. Cut(sent, a + Len(r), event)
  BY <1>2, <1>7, <1>8, <1>12
<1> QED
  BY <1>7, <1>8, <1>11, <1>13, <1>14

LEMMA AttachedBatch ==
    ASSUME NEW c \in Client, NEW m \in Batch, NEW sent \in Seq(Entry), Faithful(m, sent),
           Attached(c, sent), Follows(sent, Heard(c), m), m.level = c.level,
           c.time <= m.event
    PROVE  LET n == AddBatch(c, m)
           IN  /\ Heard(n) = m.event /\ Attached(n, sent)
<1> DEFINE n == AddBatch(c, m)
<1>1. /\ m.event \in Nat /\ m.entries \in Seq(Entry) /\ m.type = "batch"
      /\ c.time \in Nat /\ c.queue \in Seq(Entry) /\ c.world \in Seq(Entry)
      /\ Heard(c) \in Nat /\ Len(c.world) \in Nat
  BY ClientFields, LenProperties DEF Batch
<1>2. /\ n.world = c.world /\ n.queue = c.queue \o m.entries /\ n.time = c.time
      /\ n.level = c.level /\ n.batchLevel = m.level /\ n.waiting = m.event
  BY DEF AddBatch, Client
<1>3. Heard(n) = m.event
  BY <1>2 DEF Heard
<1>4. PICK k \in 0 .. Len(sent) :
        /\ PartOf(sent, k, m.entries)
        /\ Cut(sent, k, m.event - 1) /\ Cut(sent, k + Len(m.entries), m.event)
  BY <1>1 DEF Faithful
<1>5. /\ PartOf(sent, 0, c.world) /\ PartOf(sent, Len(c.world), c.queue)
      /\ Cut(sent, Len(c.world) + Len(c.queue), Heard(c))
      /\ \A i \in 1 .. Len(c.queue) : c.time <= c.queue[i].at
  BY DEF Attached
<1>6. /\ Heard(c) < m.event
      /\ \A i \in 1 .. Len(sent) : sent[i].at <= Heard(c) \/ sent[i].at >= m.event
  BY <1>1 DEF Follows
<1>7. PICK w : w = c.world
  OBVIOUS
<1>8. PICK q : q = c.queue
  OBVIOUS
<1>9. PICK e : e = m.entries
  OBVIOUS
<1>10. /\ PartOf(sent, Len(w), q \o e)
       /\ Cut(sent, Len(w) + Len(q \o e), m.event)
       /\ \A i \in 1 .. Len(q \o e) : c.time <= (q \o e)[i].at
  BY <1>1, <1>4, <1>5, <1>6, <1>7, <1>8, <1>9, BatchContinues
<1>11. n.world = w /\ n.queue = q \o e /\ n.time = c.time /\ n.waiting = m.event
  BY <1>2, <1>7, <1>8, <1>9
<1> HIDE DEF n
<1>12. Attached(n, sent)
  BY <1>3, <1>5, <1>7, <1>10, <1>11 DEF Attached
<1> QED
  BY <1>3, <1>12 DEF n

\* f is the first k entries of q, and r the others.
Split(q, k, f, r) ==
    /\ k \in 0 .. Len(q)
    /\ Len(f) = k /\ \A i \in 1 .. k : f[i] = q[i]
    /\ Len(r) = Len(q) - k /\ \A i \in 1 .. Len(q) - k : r[i] = q[k + i]

\* A step applies the first k actions of the queue and leaves the others: both stay
\* parts of what was sent.
LEMMA StepContinues ==
    ASSUME NEW sent \in Seq(Entry), NEW w \in Seq(Entry), NEW q \in Seq(Entry),
           PartOf(sent, 0, w), PartOf(sent, Len(w), q),
           NEW f \in Seq(Entry), NEW r \in Seq(Entry), NEW k, Split(q, k, f, r)
    PROVE  /\ PartOf(sent, 0, w \o f) /\ PartOf(sent, Len(w \o f), r)
           /\ Len(w \o f) + Len(r) = Len(w) + Len(q)
<1>1. PICK a \in Nat : a = Len(w)
  BY LenProperties
<1>2. PICK b \in Nat : b = Len(q)
  BY LenProperties
<1>3. PICK n \in Nat : n = Len(sent)
  BY LenProperties
<1>4. /\ k \in 0 .. b /\ a + b <= n
      /\ Len(f) = k /\ \A i \in 1 .. k : f[i] = q[i]
      /\ Len(r) = b - k /\ \A i \in 1 .. b - k : r[i] = q[k + i]
  BY <1>1, <1>2, <1>3 DEF PartOf, Split
<1>5. /\ \A i \in 1 .. a : w[i] = sent[i]
      /\ \A i \in 1 .. b : q[i] = sent[a + i]
  <2>1. \A i \in 1 .. a : w[i] = sent[0 + i]
    BY <1>1 DEF PartOf
  <2> QED
    BY <2>1, <1>1, <1>2 DEF PartOf
<1>6. /\ Len(w \o f) = a + k
      /\ \A i \in 1 .. a + k : (w \o f)[i] = IF i <= a THEN w[i] ELSE f[i - a]
  <2>1. /\ Len(w \o f) = Len(w) + Len(f)
        /\ \A i \in 1 .. Len(w) + Len(f) :
              (w \o f)[i] = IF i <= Len(w) THEN w[i] ELSE f[i - Len(w)]
    BY ConcatProperties
  <2>2. Len(w) = a /\ Len(f) = k
    BY <1>1, <1>4
  <2> QED
    BY <2>1, <2>2
<1>7. PICK u : /\ u = w \o f /\ Len(u) = a + k
               /\ \A i \in 1 .. a + k : u[i] = IF i <= a THEN w[i] ELSE f[i - a]
  BY <1>6
<1>8. \A i \in 1 .. a + k : u[i] = sent[i]
  <2> SUFFICES ASSUME NEW i \in 1 .. a + k PROVE u[i] = sent[i]
    OBVIOUS
  <2>1. CASE i <= a
    <3>1. i \in 1 .. a /\ u[i] = w[i]
      BY <2>1, <1>7
    <3> QED
      BY <3>1, <1>5
  <2>2. CASE ~(i <= a)
    <3>1. i - a \in 1 .. k /\ i - a \in 1 .. b /\ a + (i - a) = i
      BY <2>2, <1>4
    <3>2. u[i] = f[i - a]
      BY <2>2, <1>7
    <3>3. u[i] = sent[a + (i - a)]
      BY <3>1, <3>2, <1>4, <1>5
    <3> QED
      BY <3>1, <3>3
  <2> QED
    BY <2>1, <2>2
<1>9. \A i \in 1 .. b - k : r[i] = sent[(a + k) + i]
  <2> SUFFICES ASSUME NEW i \in 1 .. b - k PROVE r[i] = sent[(a + k) + i]
    OBVIOUS
  <2>1. k + i \in 1 .. b /\ a + (k + i) = (a + k) + i
    BY <1>4
  <2>2. r[i] = q[k + i]
    BY <1>4
  <2>3. q[k + i] = sent[a + (k + i)]
    BY <2>1, <1>5
  <2> QED
    BY <2>1, <2>2, <2>3
<1>10. (a + k) + (b - k) <= n /\ a + k <= n /\ (a + k) + (b - k) = a + b
  BY <1>4
<1>11. Len(u) = a + k /\ Len(r) = b - k
  BY <1>4, <1>6, <1>7
<1>12. PartOf(sent, a + k, r)
  BY <1>3, <1>9, <1>10, <1>11 DEF PartOf
<1>13. PartOf(sent, 0, u)
  <2>1. 0 + (a + k) <= n
    BY <1>1, <1>4, <1>10
  <2>2. ASSUME NEW i \in 1 .. a + k
        PROVE  u[i] = sent[0 + i]
    <3>1. 0 + i = i
      BY <1>1, <1>4
    <3>2. u[i] = sent[i]
      BY <1>8
    <3> QED
      BY <3>1, <3>2
  <2> QED
    BY <2>1, <2>2, <1>3, <1>11 DEF PartOf
<1> QED
  BY <1>1, <1>2, <1>7, <1>10, <1>11, <1>12, <1>13

\* A part of what was sent is sorted when what was sent is.
LEMMA PartSorted ==
    ASSUME NEW sent \in Seq(Entry), NEW q \in Seq(Entry), NEW a \in Nat,
           PartOf(sent, a, q), Sorted(sent)
    PROVE  Sorted(q)
<1>1. PICK b \in Nat : b = Len(q)
  BY LenProperties
<1>2. PICK n \in Nat : n = Len(sent)
  BY LenProperties
<1>3. a + b <= n /\ \A i \in 1 .. b : q[i] = sent[a + i]
  BY <1>1, <1>2 DEF PartOf
<1>4. \A i, j \in 1 .. n : i <= j => sent[i].at <= sent[j].at
  BY <1>2 DEF Sorted
<1>5. ASSUME NEW i \in 1 .. b, NEW j \in 1 .. b, i <= j
      PROVE  q[i].at <= q[j].at
  <2>1. a + i \in 1 .. n /\ a + j \in 1 .. n /\ a + i <= a + j
    BY <1>3, <1>5
  <2> QED
    BY <2>1, <1>3, <1>4
<1> QED
  BY <1>1, <1>5 DEF Sorted

\* A step applies what is due, which no action of the queue can be late for.
LEMMA AttachedStep ==
    ASSUME NEW c \in Client, NEW sent \in Seq(Entry), Sorted(sent), Attached(c, sent),
           c.time < c.waiting
    PROVE  Attached(Stepped(c), sent) /\ Heard(Stepped(c)) = Heard(c)
<1> DEFINE n == Stepped(c)
<1>1. /\ c.time \in Nat /\ c.queue \in Seq(Entry) /\ c.world \in Seq(Entry)
      /\ c.waiting \in Nat /\ Len(c.world) \in Nat
  BY ClientFields, LenProperties
<1>2. /\ n.time = c.time + 1 /\ n.queue = NotFired(c.queue, c.time)
      /\ n.world = c.world \o Fired(c.queue, c.time)
      /\ n.level = c.level /\ n.batchLevel = c.batchLevel /\ n.waiting = c.waiting
  BY DEF Stepped, Client
<1>3. Heard(n) = Heard(c)
  BY <1>2 DEF Heard
<1>4. /\ PartOf(sent, 0, c.world) /\ PartOf(sent, Len(c.world), c.queue)
      /\ Cut(sent, Len(c.world) + Len(c.queue), Heard(c))
      /\ \A i \in 1 .. Len(c.queue) : c.time <= c.queue[i].at
  BY DEF Attached
<1>5. PICK w : w = c.world
  OBVIOUS
<1>6. PICK q : q = c.queue
  OBVIOUS
<1>7. PICK t : t = c.time
  OBVIOUS
<1>8. PICK f : f = Fired(q, t)
  OBVIOUS
<1>9. PICK r : r = NotFired(q, t)
  OBVIOUS
<1>10. /\ w \in Seq(Entry) /\ q \in Seq(Entry) /\ t \in Nat /\ Len(w) \in Nat
       /\ PartOf(sent, 0, w) /\ PartOf(sent, Len(w), q)
       /\ \A i \in 1 .. Len(q) : t <= q[i].at
  BY <1>1, <1>4, <1>5, <1>6, <1>7
<1>11. Sorted(q)
  BY <1>10, PartSorted
<1>12. Due(q, t) \in 0 .. Len(q)
  BY <1>10, DueProperties
<1>13. /\ f \in Seq(Entry) /\ Len(f) = Due(q, t)
       /\ r \in Seq(Entry) /\ Len(r) = Len(q) - Due(q, t)
       /\ \A i \in 1 .. Len(q) - Due(q, t) : r[i] = q[Due(q, t) + i]
  BY <1>8, <1>9, <1>10, FiredType
<1>14. /\ \A i \in 1 .. Due(q, t) : f[i] = q[i]
       /\ \A i \in 1 .. Len(r) : t < r[i].at
  BY <1>8, <1>9, <1>10, <1>11, FiredOnTime
<1>15. /\ PartOf(sent, 0, w \o f) /\ PartOf(sent, Len(w \o f), r)
       /\ Len(w \o f) + Len(r) = Len(w) + Len(q)
  <2>1. PICK k : k = Due(q, t)
    OBVIOUS
  <2>2. Split(q, k, f, r)
    BY <2>1, <1>12, <1>13, <1>14 DEF Split
  <2> QED
    <3>1. /\ PartOf(sent, 0, w) /\ PartOf(sent, Len(w), q) /\ Split(q, k, f, r)
          /\ w \in Seq(Entry) /\ q \in Seq(Entry) /\ f \in Seq(Entry) /\ r \in Seq(Entry)
      BY <2>2, <1>10, <1>13
    <3> QED
      BY ONLY <3>1, sent \in Seq(Entry), StepContinues
<1>16. \A i \in 1 .. Len(r) : t + 1 <= r[i].at
  <2>1. \A i \in 1 .. Len(r) : r[i].at \in Nat
    BY <1>13, EntryStamps
  <2>2. t \in Nat /\ \A i \in 1 .. Len(r) : t < r[i].at
    BY <1>10, <1>14
  <2> QED
    BY ONLY <2>1, <2>2
<1>17. /\ n.world = w \o f /\ n.queue = r /\ n.time = t + 1 /\ n.waiting = c.waiting
       /\ t + 1 <= n.waiting
  BY <1>1, <1>2, <1>5, <1>6, <1>7, <1>8, <1>9
<1>18. Cut(sent, Len(n.world) + Len(n.queue), Heard(n))
  BY <1>3, <1>4, <1>5, <1>6, <1>15, <1>17
<1> HIDE DEF n
<1>19. Attached(n, sent)
  BY <1>15, <1>16, <1>17, <1>18 DEF Attached
<1> QED
  BY <1>3, <1>19 DEF n
-----------------------------------------------------------------------------
(* What a batch adds to what was sent in a level. *)

\* e was sent after s, at the event time n, which is beyond the next event time m.
Grown(s, e, m, n) ==
    /\ m < n
    /\ \A i \in 1 .. Len(s) : s[i].at <= m
    /\ \A i \in 1 .. Len(e) : e[i].at = n

LEMMA GrownEntries ==
    ASSUME NEW s \in Seq(Entry), NEW e \in Seq(Entry), NEW m \in Nat, NEW n \in Nat,
           Grown(s, e, m, n)
    PROVE  /\ s \o e \in Seq(Entry) /\ Len(s \o e) = Len(s) + Len(e)
           /\ Len(s) \in Nat /\ Len(e) \in Nat
           /\ \A i \in 1 .. Len(s) : (s \o e)[i] = s[i] /\ (s \o e)[i].at <= m
           /\ \A i \in 1 .. Len(e) : (s \o e)[Len(s) + i] = e[i]
           /\ \A i \in 1 .. Len(s) + Len(e) : i > Len(s) => (s \o e)[i].at = n
           /\ \A i \in 1 .. Len(s) + Len(e) : (s \o e)[i].at \in Nat
<1>1. PICK a \in Nat : a = Len(s)
  BY LenProperties
<1>2. PICK b \in Nat : b = Len(e)
  BY LenProperties
<1>3. PICK u : u = s \o e
  OBVIOUS
<1>4. /\ u \in Seq(Entry) /\ Len(u) = a + b
      /\ \A i \in 1 .. a + b : u[i] = IF i <= a THEN s[i] ELSE e[i - a]
  BY <1>1, <1>2, <1>3, ConcatProperties
<1>5. /\ \A i \in 1 .. a : s[i].at <= m
      /\ \A i \in 1 .. b : e[i].at = n
  BY <1>1, <1>2 DEF Grown
<1>6. \A i \in 1 .. a : u[i] = s[i] /\ u[i].at <= m
  BY <1>4, <1>5
<1>7. \A i \in 1 .. b : u[a + i] = e[i]
  <2> SUFFICES ASSUME NEW i \in 1 .. b PROVE u[a + i] = e[i]
    OBVIOUS
  <2>1. a + i \in 1 .. a + b /\ ~(a + i <= a) /\ (a + i) - a = i
    OBVIOUS
  <2> QED
    BY <2>1, <1>4
<1>8. \A i \in 1 .. a + b : i > a => u[i].at = n
  <2> SUFFICES ASSUME NEW i \in 1 .. a + b, i > a PROVE u[i].at = n
    OBVIOUS
  <2>1. i - a \in 1 .. b /\ u[i] = e[i - a]
    BY <1>4
  <2> QED
    BY <2>1, <1>5
<1>9. \A i \in 1 .. a + b : u[i].at \in Nat
  BY <1>4, EntryStamps
<1> QED
  BY <1>1, <1>2, <1>3, <1>4, <1>6, <1>7, <1>8, <1>9

\* What was a part stays a part, and what was cut before n stays cut.
LEMMA GrowPart ==
    ASSUME NEW s \in Seq(Entry), NEW e \in Seq(Entry), NEW m \in Nat, NEW n \in Nat,
           Grown(s, e, m, n), NEW k \in Nat, NEW q \in Seq(Entry), PartOf(s, k, q)
    PROVE  PartOf(s \o e, k, q)
<1>1. PICK u : u = s \o e
  OBVIOUS
<1>2. PICK a \in Nat : a = Len(s)
  BY LenProperties
<1>3. PICK b \in Nat : b = Len(e)
  BY LenProperties
<1>4. PICK l \in Nat : l = Len(q)
  BY LenProperties
<1>5. Len(u) = a + b /\ \A i \in 1 .. a : u[i] = s[i]
  BY <1>1, <1>2, <1>3, GrownEntries
<1>6. k + l <= a /\ \A i \in 1 .. l : q[i] = s[k + i]
  BY <1>2, <1>4 DEF PartOf
<1>7. \A i \in 1 .. l : k + i \in 1 .. a
  BY <1>6
<1> QED
  BY <1>1, <1>4, <1>5, <1>6, <1>7 DEF PartOf

LEMMA GrowCut ==
    ASSUME NEW s \in Seq(Entry), NEW e \in Seq(Entry), NEW m \in Nat, NEW n \in Nat,
           Grown(s, e, m, n), NEW k \in Nat, NEW t \in Int, t < n, Cut(s, k, t)
    PROVE  Cut(s \o e, k, t)
<1>1. PICK u : u = s \o e
  OBVIOUS
<1>2. PICK a \in Nat : a = Len(s)
  BY LenProperties
<1>3. PICK b \in Nat : b = Len(e)
  BY LenProperties
<1>4. /\ Len(u) = a + b /\ \A i \in 1 .. a : u[i] = s[i]
      /\ \A i \in 1 .. a + b : i > a => u[i].at = n
  BY <1>1, <1>2, <1>3, GrownEntries
<1>5. k \in 0 .. a /\ \A i \in 1 .. a : s[i].at <= t <=> i <= k
  BY <1>2 DEF Cut
<1>6. ASSUME NEW i \in 1 .. a + b
      PROVE  u[i].at <= t <=> i <= k
  <2>1. CASE i <= a
    BY <2>1, <1>4, <1>5
  <2>2. CASE i > a
    <3>1. u[i].at = n /\ ~(i <= k)
      BY <2>2, <1>4, <1>5
    <3> QED
      BY <3>1
  <2> QED
    BY <2>1, <2>2
<1>7. k \in 0 .. a + b
  BY <1>5
<1> QED
  BY <1>1, <1>4, <1>6, <1>7 DEF Cut

\* What a message of the past says stays true.
LEMMA GrowFaithful ==
    ASSUME NEW s \in Seq(Entry), NEW e \in Seq(Entry), NEW m \in Nat, NEW n \in Nat,
           Grown(s, e, m, n), NEW x \in Load \cup Batch, x.event <= m, Faithful(x, s)
    PROVE  Faithful(x, s \o e)
<1>1. PICK f \in Seq(Entry) : f = x.entries
  BY MessageFields
<1>2. PICK t \in Nat : t = x.event
  BY MessageFields
<1>3. Len(f) \in Nat /\ Len(s) \in Nat /\ t < n /\ t - 1 < n /\ t - 1 \in Int
  <2>1. m < n
    BY DEF Grown
  <2> QED
    BY <2>1, <1>2, LenProperties
<1>4. CASE x.type = "load"
  <2>1. PartOf(s, 0, f) /\ Cut(s, Len(f), t)
    BY <1>1, <1>2, <1>4 DEF Faithful
  <2>2. PartOf(s \o e, 0, f) /\ Cut(s \o e, Len(f), t)
    BY <2>1, <1>3, GrowPart, GrowCut
  <2> QED
    BY <2>2, <1>1, <1>2, <1>4 DEF Faithful
<1>5. CASE x.type = "batch"
  <2>1. PICK k \in 0 .. Len(s) : /\ PartOf(s, k, f)
                                 /\ Cut(s, k, t - 1) /\ Cut(s, k + Len(f), t)
    BY <1>1, <1>2, <1>5 DEF Faithful
  <2>2. k \in Nat /\ k + Len(f) \in Nat /\ k \in 0 .. Len(s \o e)
    BY <1>3, GrownEntries
  <2>3. /\ PartOf(s \o e, k, f)
        /\ Cut(s \o e, k, t - 1) /\ Cut(s \o e, k + Len(f), t)
    BY <2>1, <2>2, <1>3, GrowPart, GrowCut
  <2>4. x.event > 0
    BY <1>5 DEF Faithful
  <2> QED
    BY <2>2, <2>3, <2>4, <1>1, <1>2, <1>5 DEF Faithful
<1> QED
  BY <1>4, <1>5, MessageFields

LEMMA GrowFollows ==
    ASSUME NEW s \in Seq(Entry), NEW e \in Seq(Entry), NEW m \in Nat, NEW n \in Nat,
           Grown(s, e, m, n), NEW x \in Load \cup Batch, x.event <= m,
           NEW t \in Nat, Follows(s, t, x)
    PROVE  Follows(s \o e, t, x)
<1> SUFFICES ASSUME x.type = "batch" PROVE Follows(s \o e, t, x)
  BY DEF Follows
<1>1. PICK u : u = s \o e
  OBVIOUS
<1>2. PICK a \in Nat : a = Len(s)
  BY LenProperties
<1>3. PICK b \in Nat : b = Len(e)
  BY LenProperties
<1>4. PICK h \in Nat : h = x.event
  BY MessageFields
<1>5. /\ Len(u) = a + b /\ \A i \in 1 .. a : u[i] = s[i]
      /\ \A i \in 1 .. a + b : i > a => u[i].at = n
  BY <1>1, <1>2, <1>3, GrownEntries
<1>6. t < h /\ \A i \in 1 .. a : s[i].at <= t \/ s[i].at >= h
  BY <1>2, <1>4 DEF Follows
<1>7. h <= m /\ m < n
  BY <1>4 DEF Grown
<1>8. ASSUME NEW i \in 1 .. a + b
      PROVE  u[i].at <= t \/ u[i].at >= h
  <2>1. CASE i <= a
    BY <2>1, <1>5, <1>6
  <2>2. CASE i > a
    BY <2>2, <1>5, <1>7
  <2> QED
    BY <2>1, <2>2
<1> QED
  BY <1>1, <1>4, <1>5, <1>6, <1>8 DEF Follows

LEMMA GrowAttached ==
    ASSUME NEW s \in Seq(Entry), NEW e \in Seq(Entry), NEW m \in Nat, NEW n \in Nat,
           Grown(s, e, m, n), NEW c \in Client, Heard(c) <= m, Attached(c, s)
    PROVE  Attached(c, s \o e)
<1>1. PICK h \in Nat : h = Heard(c)
  BY ClientFields
<1>2. PICK w \in Seq(Entry) : w = c.world
  BY ClientFields
<1>3. PICK q \in Seq(Entry) : q = c.queue
  BY ClientFields
<1>4. PICK k \in Nat : k = Len(w) + Len(q)
  <2>1. Len(w) \in Nat /\ Len(q) \in Nat
    BY LenProperties
  <2> QED
    BY <2>1
<1>5. Len(w) \in Nat /\ h < n
  BY <1>1, LenProperties DEF Grown
<1>6. PartOf(s, 0, w) /\ PartOf(s, Len(w), q) /\ Cut(s, k, h)
  BY <1>1, <1>2, <1>3, <1>4 DEF Attached
<1>7. PartOf(s \o e, 0, w) /\ PartOf(s \o e, Len(w), q)
  BY <1>5, <1>6, GrowPart
<1>8. Cut(s \o e, k, h)
  BY <1>5, <1>6, GrowCut
<1> QED
  BY <1>1, <1>2, <1>3, <1>4, <1>7, <1>8 DEF Attached

\* A batch has what it adds, and follows an event time up to which all was sent.
LEMMA GrownBatch ==
    ASSUME NEW s \in Seq(Entry), NEW e \in Seq(Entry), NEW m \in Nat, NEW n \in Nat,
           Grown(s, e, m, n), NEW x \in Batch, x.event = n, x.entries = e
    PROVE  /\ Faithful(x, s \o e)
           /\ \A t \in Nat : t <= m /\ (\A i \in 1 .. Len(s) : s[i].at <= t)
                                => Follows(s \o e, t, x)
           /\ \A i \in 1 .. Len(s \o e) : (s \o e)[i].at <= n
<1>1. PICK u : u = s \o e
  OBVIOUS
<1>2. PICK a \in Nat : a = Len(s)
  BY LenProperties
<1>3. PICK b \in Nat : b = Len(e)
  BY LenProperties
<1>4. /\ Len(u) = a + b
      /\ \A i \in 1 .. a : u[i] = s[i] /\ u[i].at <= m
      /\ \A i \in 1 .. b : u[a + i] = e[i]
      /\ \A i \in 1 .. a + b : i > a => u[i].at = n
      /\ \A i \in 1 .. a + b : u[i].at \in Nat
  <2>1. /\ Len(u) = Len(s) + Len(e)
        /\ \A i \in 1 .. Len(s) : u[i] = s[i] /\ u[i].at <= m
        /\ \A i \in 1 .. Len(e) : u[Len(s) + i] = e[i]
        /\ \A i \in 1 .. Len(s) + Len(e) : i > Len(s) => u[i].at = n
        /\ \A i \in 1 .. Len(s) + Len(e) : u[i].at \in Nat
    BY <1>1, GrownEntries
  <2> QED
    BY <2>1, <1>2, <1>3
<1>5. m < n /\ n > 0 /\ x.type = "batch"
  BY DEF Grown, Batch
<1>6. a \in 0 .. a + b /\ a + b \in 0 .. a + b
  OBVIOUS
<1>7. PartOf(u, a, e)
  BY <1>3, <1>4 DEF PartOf
<1>8. ASSUME NEW i \in 1 .. a + b
      PROVE  /\ u[i].at <= n - 1 <=> i <= a
             /\ u[i].at <= n
             /\ \A t \in Nat : (\A j \in 1 .. a : s[j].at <= t) => u[i].at <= t \/ u[i].at >= n
  <2>1. CASE i <= a
    BY <2>1, <1>4, <1>5
  <2>2. CASE i > a
    BY <2>2, <1>4, <1>5
  <2> QED
    BY <2>1, <2>2
<1>9. Cut(u, a, n - 1)
  BY <1>4, <1>6, <1>8 DEF Cut
<1>10. Cut(u, a + b, n)
  BY <1>4, <1>6, <1>8 DEF Cut
<1>11. Faithful(x, u)
  BY <1>3, <1>4, <1>5, <1>6, <1>7, <1>9, <1>10 DEF Faithful
<1>12. ASSUME NEW t \in Nat, t <= m, \A i \in 1 .. Len(s) : s[i].at <= t
       PROVE  Follows(u, t, x)
  BY <1>2, <1>4, <1>5, <1>8, <1>12 DEF Follows
<1> QED
  BY <1>1, <1>4, <1>8, <1>11, <1>12
-----------------------------------------------------------------------------
(* The steps of a connection and its client. *)

\* A client that takes the first message of its connection.
LEMMA Received ==
    ASSUME NEW q \in Seq(Load \cup Batch), q # <<>>, NEW c \in Client, NEW n \in Client,
           NEW lv \in 1 .. MaxLevel, NEW next \in Nat, NEW time \in Nat,
           NEW loaded \in BOOLEAN, NEW sent \in [1 .. MaxLevel -> Seq(Entry)],
           Connection(q, c, lv, next, time, loaded, sent),
           n.attached => /\ n.level = Head(q).level /\ Heard(n) = Head(q).event
                         /\ Attached(n, sent[n.level]),
           \/ /\ Head(q).event = 0
              /\ n.batchLevel = c.batchLevel /\ n.waiting = c.waiting
           \/ /\ Head(q).event > 0
              /\ n.batchLevel = Head(q).level /\ n.waiting = Head(q).event
    PROVE  Connection(Tail(q), n, lv, next, time, loaded, sent)
<1>1. PICK r \in Seq(Load \cup Batch) : r = Tail(q)
  BY HeadTailProperties
<1>2. PICK m \in Load \cup Batch : m = Head(q)
  BY HeadTailProperties
<1>3. PICK k \in Nat : k = Len(r)
  BY LenProperties
<1>4. /\ Len(q) = k + 1 /\ q[1] = m
      /\ \A i \in 1 .. k : r[i] = q[i + 1]
  <2>1. Len(Tail(q)) = Len(q) - 1 /\ \A i \in 1 .. Len(Tail(q)) : Tail(q)[i] = q[i + 1]
    BY HeadTailProperties
  <2>2. Len(q) \in Nat
    BY LenProperties
  <2>3. Len(q) = k + 1
    BY <2>1, <2>2, <1>1, <1>3
  <2> QED
    BY <2>1, <2>3, <1>1, <1>2, <1>3
<1>5. /\ \A i \in 1 .. k : i + 1 \in 1 .. k + 1
      /\ 1 \in 1 .. k + 1
      /\ \A i \in 1 .. k - 1 : i + 1 \in 1 .. (k + 1) - 1 /\ i + 1 \in 1 .. k
      /\ k # 0 => k \in 1 .. k /\ 1 \in 1 .. k /\ 1 \in 1 .. (k + 1) - 1
  OBVIOUS
<1>6. /\ m.level \in 1 .. MaxLevel /\ m.event \in Nat
  BY MessageFields
<1>7. Messages(r, lv, next, time, sent)
  <2>1. Messages(q, lv, next, time, sent)
    BY DEF Connection
  <2> QED
    BY <2>1, <1>3, <1>4, <1>5 DEF Messages
<1>8. /\ m.level <= lv
      /\ m.level = lv => m.event <= next /\ (m.event > 0 => time > 0)
  <2>1. Messages(q, lv, next, time, sent)
    BY DEF Connection
  <2> QED
    BY <2>1, <1>4, <1>5 DEF Messages
<1>9. InARow(r, n, sent)
  <2>1. \A i \in 1 .. (k + 1) - 1 :
          q[i + 1].level = q[i].level => Follows(sent[q[i].level], q[i].event, q[i + 1])
    BY <1>4 DEF Connection, InARow
  <2>2. ASSUME NEW i \in 1 .. k - 1, r[i + 1].level = r[i].level
        PROVE  Follows(sent[r[i].level], r[i].event, r[i + 1])
    <3>1. r[i] = q[i + 1] /\ r[i + 1] = q[(i + 1) + 1] /\ i + 1 \in 1 .. (k + 1) - 1
      BY <1>4, <1>5
    <3> QED
      BY <3>1, <2>1, <2>2
  <2>3. ASSUME k > 0, n.attached, r[1].level = n.level
        PROVE  Follows(sent[n.level], Heard(n), r[1])
    <3>1. r[1] = q[1 + 1] /\ 1 \in 1 .. (k + 1) - 1
      BY <2>3, <1>4, <1>5
    <3>2. n.level = m.level /\ Heard(n) = m.event
      BY <2>3, <1>2
    <3> QED
      BY <3>1, <3>2, <2>1, <2>3, <1>4
  <2> QED
    BY <2>2, <2>3, <1>3 DEF InARow
<1>10. LoadFirst(r, n)
  <2>1. \A i \in 1 .. k + 1 : q[i].event = 0 =>
          /\ c.batchLevel # q[i].level
          /\ \A j \in 1 .. i - 1 : q[j].event = 0 \/ q[j].level # q[i].level
    BY <1>4 DEF Connection, LoadFirst
  <2>2. ASSUME NEW i \in 1 .. k, r[i].event = 0
        PROVE  /\ n.batchLevel # r[i].level
               /\ \A j \in 1 .. i - 1 : r[j].event = 0 \/ r[j].level # r[i].level
    <3>1. r[i] = q[i + 1] /\ i + 1 \in 1 .. k + 1 /\ 1 \in 1 .. (i + 1) - 1
      BY <1>4, <1>5
    <3>2. m.event = 0 \/ m.level # r[i].level
      BY <3>1, <2>1, <2>2, <1>4
    <3>3. c.batchLevel # r[i].level
      BY <3>1, <2>1, <2>2
    <3>4. n.batchLevel # r[i].level
      BY <3>2, <3>3, <1>2, <1>6
    <3>5. ASSUME NEW j \in 1 .. i - 1
          PROVE  r[j].event = 0 \/ r[j].level # r[i].level
      <4>1. j \in 1 .. k /\ j + 1 \in 1 .. (i + 1) - 1
        OBVIOUS
      <4>2. r[j] = q[j + 1]
        BY <4>1, <1>4
      <4> QED
        BY <4>1, <4>2, <3>1, <2>1, <2>2
    <3> QED
      BY <3>4, <3>5
  <2> QED
    BY <2>2, <1>3 DEF LoadFirst
<1>11. NothingMissed(r, n, lv, loaded, sent)
  <2>1. q[k + 1].level = lv =>
            loaded /\ \A i \in 1 .. Len(sent[lv]) : sent[lv][i].at <= q[k + 1].event
    BY <1>4 DEF Connection, NothingMissed
  <2>2. CASE k = 0
    <3>1. ASSUME n.attached, n.level = lv
          PROVE  loaded /\ \A i \in 1 .. Len(sent[lv]) : sent[lv][i].at <= Heard(n)
      <4>1. n.level = m.level /\ Heard(n) = m.event
        BY <3>1, <1>2
      <4>2. q[k + 1] = m
        BY <2>2, <1>4
      <4> QED
        BY <4>1, <4>2, <3>1, <2>1
    <3> QED
      BY <3>1, <2>2, <1>3 DEF NothingMissed
  <2>3. CASE k # 0
    <3>1. r[k] = q[k + 1]
      BY <2>3, <1>4, <1>5
    <3> QED
      BY <3>1, <2>1, <2>3, <1>3 DEF NothingMissed
  <2> QED
    BY <2>2, <2>3
<1>12. InStep(n, lv, next, time, sent)
  <2>1. c.batchLevel <= lv /\ (c.batchLevel = lv => time > 0 /\ c.waiting <= next)
    BY DEF Connection, InStep
  <2>2. n.batchLevel <= lv /\ (n.batchLevel = lv => time > 0 /\ n.waiting <= next)
    BY <2>1, <1>2, <1>8
  <2>3. n.attached => n.level \in 1 .. lv /\ Attached(n, sent[n.level])
    BY <1>2, <1>6, <1>8
  <2> QED
    BY <2>2, <2>3 DEF InStep
<1> QED
  BY <1>1, <1>7, <1>9, <1>10, <1>11, <1>12 DEF Connection

\* A client that does not read goes on from what it has.
LEMMA ClientMoves ==
    ASSUME NEW q, NEW c, NEW n, NEW lv, NEW next, NEW time, NEW loaded, NEW sent,
           Connection(q, c, lv, next, time, loaded, sent),
           n.attached = c.attached, n.level = c.level, n.batchLevel = c.batchLevel,
           n.waiting = c.waiting,
           c.attached /\ Attached(c, sent[c.level]) => Attached(n, sent[c.level])
    PROVE  Connection(q, n, lv, next, time, loaded, sent)
<1>1. Heard(n) = Heard(c)
  BY DEF Heard
<1>2. Messages(q, lv, next, time, sent)
  BY DEF Connection
<1>3. InARow(q, n, sent)
  BY <1>1 DEF Connection, InARow
<1>4. LoadFirst(q, n)
  BY DEF Connection, LoadFirst
<1>5. NothingMissed(q, n, lv, loaded, sent)
  BY <1>1 DEF Connection, NothingMissed
<1>6. InStep(n, lv, next, time, sent)
  BY DEF Connection, InStep
<1> QED
  BY <1>2, <1>3, <1>4, <1>5, <1>6 DEF Connection

\* The server's clock goes on, or it sends to a destination again.
LEMMA TimeMoves ==
    ASSUME NEW q, NEW c, NEW lv, NEW next, NEW time, NEW loaded, NEW sent,
           NEW time2, time > 0 => time2 > 0, NEW loaded2, loaded => loaded2,
           Connection(q, c, lv, next, time, loaded, sent)
    PROVE  Connection(q, c, lv, next, time2, loaded2, sent)
<1>1. Messages(q, lv, next, time2, sent)
  BY DEF Connection, Messages
<1>2. NothingMissed(q, c, lv, loaded2, sent)
  BY DEF Connection, NothingMissed
<1>3. InStep(c, lv, next, time2, sent)
  BY DEF Connection, InStep
<1> QED
  BY <1>1, <1>2, <1>3 DEF Connection

\* The next level begins: nothing of it is in a connection or a client.
LEMMA LevelMoves ==
    ASSUME NEW q \in Seq(Load \cup Batch), NEW c \in Client, NEW lv \in 1 .. MaxLevel,
           NEW next, NEW time, NEW loaded, NEW sent,
           NEW next2, NEW time2, NEW loaded2,
           Connection(q, c, lv, next, time, loaded, sent)
    PROVE  Connection(q, c, lv + 1, next2, time2, loaded2, sent)
<1>1. Len(q) \in Nat /\ \A i \in 1 .. Len(q) : q[i] \in Load \cup Batch
  BY LenProperties, ElementOfSeq
<1>2. \A i \in 1 .. Len(q) : q[i].level \in 1 .. MaxLevel
  BY <1>1, MessageFields
<1>3. c.level \in 0 .. MaxLevel /\ c.batchLevel \in 0 .. MaxLevel
  BY ClientFields
<1>4. \A i \in 1 .. Len(q) : q[i].level <= lv /\ Faithful(q[i], sent[q[i].level])
  BY DEF Connection, Messages
<1>5. \A i \in 1 .. Len(q) : q[i].level <= lv + 1 /\ q[i].level # lv + 1
  BY <1>2, <1>4
<1>6. Messages(q, lv + 1, next2, time2, sent)
  BY <1>4, <1>5 DEF Messages
<1>7. c.batchLevel <= lv /\ (c.attached => c.level \in 1 .. lv /\ Attached(c, sent[c.level]))
  BY DEF Connection, InStep
<1>8. NothingMissed(q, c, lv + 1, loaded2, sent)
  <2>1. Len(q) > 0 => Len(q) \in 1 .. Len(q)
    BY <1>1
  <2>2. c.attached => c.level # lv + 1
    BY <1>7
  <2> QED
    BY <2>1, <2>2, <1>5 DEF NothingMissed
<1>9. InStep(c, lv + 1, next2, time2, sent)
  <2>1. c.batchLevel <= lv + 1 /\ c.batchLevel # lv + 1
    BY <1>3, <1>7
  <2>2. c.attached => c.level \in 1 .. lv + 1
    BY <1>7
  <2> QED
    BY <2>1, <2>2, <1>7 DEF InStep
<1> QED
  BY <1>6, <1>8, <1>9 DEF Connection

\* The server tells a destination to load its level and sends it the recording.
LEMMA LoadSent ==
    ASSUME NEW q \in Seq(Load \cup Batch), NEW c \in Client, NEW lv \in 1 .. MaxLevel,
           NEW next \in Nat, NEW time \in Nat, NEW loaded \in BOOLEAN,
           NEW sent \in [1 .. MaxLevel -> Seq(Entry)],
           Connection(q, c, lv, next, time, loaded, sent),
           NEW m \in Load, m.level = lv, m.event <= next, m.event > 0 <=> time > 0,
           Faithful(m, sent[lv]), \A i \in 1 .. Len(sent[lv]) : sent[lv][i].at <= m.event
    PROVE  Connection(Append(q, m), c, lv, next, time, TRUE, sent)
<1>1. PICK k \in Nat : k = Len(q)
  BY LenProperties
<1>2. PICK r : r = Append(q, m)
  OBVIOUS
<1>3. Len(r) = k + 1 /\ r[k + 1] = m /\ \A i \in 1 .. k : r[i] = q[i]
  BY <1>1, <1>2, AppendProperties
<1>4. m.type = "load" /\ m.event \in Nat
  BY DEF Load
<1>5. \A i \in 1 .. k + 1 : i \in 1 .. k \/ i = k + 1
  OBVIOUS
<1>6. Messages(r, lv, next, time, sent)
  <2>1. Messages(q, lv, next, time, sent)
    BY DEF Connection
  <2>2. \A i \in 1 .. k : /\ q[i].level <= lv
                          /\ q[i].level = lv => q[i].event <= next /\ (q[i].event > 0 => time > 0)
                          /\ Faithful(q[i], sent[q[i].level])
    BY <2>1, <1>1 DEF Messages
  <2>3. m.level <= lv
    OBVIOUS
  <2> QED
    BY <2>2, <2>3, <1>3, <1>5 DEF Messages
<1>7. InARow(r, c, sent)
  <2>1. /\ \A i \in 1 .. k - 1 :
            q[i + 1].level = q[i].level => Follows(sent[q[i].level], q[i].event, q[i + 1])
        /\ k > 0 /\ c.attached /\ q[1].level = c.level => Follows(sent[c.level], Heard(c), q[1])
    BY <1>1 DEF Connection, InARow
  <2>2. \A s, t : Follows(s, t, m)
    BY <1>4 DEF Follows
  <2>3. ASSUME NEW i \in 1 .. (k + 1) - 1, r[i + 1].level = r[i].level
        PROVE  Follows(sent[r[i].level], r[i].event, r[i + 1])
    <3>1. CASE i = k
      BY <3>1, <2>2, <1>3
    <3>2. CASE i # k
      <4>1. i \in 1 .. k - 1 /\ i \in 1 .. k /\ i + 1 \in 1 .. k
        BY <3>2
      <4>2. r[i] = q[i] /\ r[i + 1] = q[i + 1]
        BY <4>1, <1>3
      <4> QED
        BY <4>1, <4>2, <2>1, <2>3
    <3> QED
      BY <3>1, <3>2
  <2>4. ASSUME c.attached, r[1].level = c.level
        PROVE  Follows(sent[c.level], Heard(c), r[1])
    <3>1. CASE k = 0
      BY <3>1, <2>2, <1>3
    <3>2. CASE k # 0
      <4>1. k > 0 /\ r[1] = q[1]
        BY <3>2, <1>3
      <4> QED
        BY <4>1, <2>1, <2>4
    <3> QED
      BY <3>1, <3>2
  <2> QED
    BY <2>3, <2>4, <1>3 DEF InARow
<1>8. LoadFirst(r, c)
  <2>1. \A i \in 1 .. k : q[i].event = 0 =>
          /\ c.batchLevel # q[i].level
          /\ \A j \in 1 .. i - 1 : q[j].event = 0 \/ q[j].level # q[i].level
    BY <1>1 DEF Connection, LoadFirst
  <2>2. ASSUME NEW i \in 1 .. k, r[i].event = 0
        PROVE  /\ c.batchLevel # r[i].level
               /\ \A j \in 1 .. i - 1 : r[j].event = 0 \/ r[j].level # r[i].level
    <3>1. r[i] = q[i] /\ q[i].event = 0
      BY <2>2, <1>3
    <3>2. /\ c.batchLevel # q[i].level
          /\ \A j \in 1 .. i - 1 : q[j].event = 0 \/ q[j].level # q[i].level
      BY <3>1, <2>1
    <3>3. ASSUME NEW j \in 1 .. i - 1
          PROVE  r[j].event = 0 \/ r[j].level # r[i].level
      <4>1. r[j] = q[j]
        BY <1>3
      <4> QED
        BY <4>1, <3>1, <3>2
    <3> QED
      BY <3>1, <3>2, <3>3
  <2>3. ASSUME m.event = 0
        PROVE  /\ c.batchLevel # lv
               /\ \A j \in 1 .. k : r[j].event = 0 \/ r[j].level # lv
    <3>1. ~(time > 0)
      BY <2>3
    <3>2. c.batchLevel # lv
      BY <3>1 DEF Connection, InStep
    <3>3. \A j \in 1 .. k : q[j] \in Load \cup Batch
      BY <1>1, ElementOfSeq
    <3>4. \A j \in 1 .. k : q[j].event \in Nat
      BY <3>3, MessageFields
    <3>5. \A j \in 1 .. k : q[j].level = lv => ~(q[j].event > 0)
      BY <3>1, <1>1 DEF Connection, Messages
    <3> QED
      BY <3>2, <3>4, <3>5, <1>3
  <2>4. ASSUME NEW i \in 1 .. k + 1, r[i].event = 0
        PROVE  /\ c.batchLevel # r[i].level
               /\ \A j \in 1 .. i - 1 : r[j].event = 0 \/ r[j].level # r[i].level
    <3>1. CASE i \in 1 .. k
      BY <3>1, <2>2, <2>4
    <3>2. CASE i = k + 1
      <4>1. r[i] = m /\ m.event = 0 /\ i - 1 = k
        BY <3>2, <2>4, <1>3
      <4> QED
        BY <4>1, <2>3
    <3> QED
      BY <3>1, <3>2, <1>5
  <2> QED
    BY <2>4, <1>3 DEF LoadFirst
<1>9. NothingMissed(r, c, lv, TRUE, sent)
  BY <1>3 DEF NothingMissed
<1>10. InStep(c, lv, next, time, sent)
  BY DEF Connection
<1> QED
  BY <1>2, <1>6, <1>7, <1>8, <1>9, <1>10 DEF Connection

\* The server sends a batch: what was sent in the level grows, for all clients.
LEMMA LogGrows ==
    ASSUME NEW q \in Seq(Load \cup Batch), NEW c \in Client, NEW lv \in 1 .. MaxLevel,
           NEW next \in Nat, NEW time \in Nat, NEW next2 \in Nat,
           NEW loaded \in BOOLEAN, NEW sent \in [1 .. MaxLevel -> Seq(Entry)],
           Connection(q, c, lv, next, time, loaded, sent),
           NEW e \in Seq(Entry), Grown(sent[lv], e, next, next2),
           NEW sent2 \in [1 .. MaxLevel -> Seq(Entry)],
           sent2 = [sent EXCEPT ![lv] = @ \o e]
    PROVE  /\ Messages(q, lv, next2, time + 1, sent2)
           /\ InARow(q, c, sent2)
           /\ LoadFirst(q, c)
           /\ InStep(c, lv, next2, time + 1, sent2)
<1>1. /\ sent2[lv] = sent[lv] \o e /\ sent[lv] \in Seq(Entry)
      /\ \A l \in 1 .. MaxLevel : l # lv => sent2[l] = sent[l]
  OBVIOUS
<1>2. next < next2
  BY DEF Grown
<1>3. \A i \in 1 .. Len(q) : q[i] \in Load \cup Batch
  BY ElementOfSeq
<1>4. \A i \in 1 .. Len(q) : q[i].level \in 1 .. MaxLevel /\ q[i].event \in Nat
  BY <1>3, MessageFields
<1>5. \A i \in 1 .. Len(q) :
        /\ q[i].level <= lv
        /\ q[i].level = lv => q[i].event <= next /\ (q[i].event > 0 => time > 0)
        /\ Faithful(q[i], sent[q[i].level])
  BY DEF Connection, Messages
<1>6. Messages(q, lv, next2, time + 1, sent2)
  <2> SUFFICES ASSUME NEW i \in 1 .. Len(q)
               PROVE  /\ q[i].level <= lv
                      /\ q[i].level = lv =>
                            q[i].event <= next2 /\ (q[i].event > 0 => time + 1 > 0)
                      /\ Faithful(q[i], sent2[q[i].level])
    BY DEF Messages
  <2>1. PICK m \in Load \cup Batch : m = q[i]
    BY <1>3
  <2>2. /\ m.level \in 1 .. MaxLevel /\ m.event \in Nat /\ m.level <= lv
        /\ m.level = lv => m.event <= next
        /\ Faithful(m, sent[m.level])
    BY <2>1, <1>4, <1>5
  <2>3. Faithful(m, sent2[m.level])
    BY <2>2, <1>1, GrowFaithful
  <2>4. m.level = lv => m.event <= next2
    BY <2>2, <1>2
  <2>5. time + 1 > 0
    OBVIOUS
  <2> QED
    BY <2>1, <2>2, <2>3, <2>4, <2>5
<1>7. InARow(q, c, sent2)
  <2>1. PICK k \in Nat : k = Len(q)
    BY LenProperties
  <2>2. /\ \A i \in 1 .. k - 1 :
            q[i + 1].level = q[i].level => Follows(sent[q[i].level], q[i].event, q[i + 1])
        /\ k > 0 /\ c.attached /\ q[1].level = c.level => Follows(sent[c.level], Heard(c), q[1])
    BY <2>1 DEF Connection, InARow
  <2>3. ASSUME NEW l \in 1 .. MaxLevel, NEW m \in Load \cup Batch, NEW t \in Nat,
               l = lv => m.event <= next, Follows(sent[l], t, m)
        PROVE  Follows(sent2[l], t, m)
    BY <2>3, <1>1, GrowFollows
  <2>4. ASSUME NEW i \in 1 .. k - 1, q[i + 1].level = q[i].level
        PROVE  Follows(sent2[q[i].level], q[i].event, q[i + 1])
    <3>1. i \in 1 .. k /\ i + 1 \in 1 .. k
      OBVIOUS
    <3>2. PICK m \in Load \cup Batch : m = q[i + 1]
      BY <3>1, <2>1, <1>3
    <3>3. PICK l \in 1 .. MaxLevel : l = q[i].level
      BY <3>1, <2>1, <1>4
    <3>4. PICK t \in Nat : t = q[i].event
      BY <3>1, <2>1, <1>4
    <3>5. l = lv => m.event <= next
      BY <3>1, <3>2, <3>3, <2>1, <2>4, <1>5
    <3>6. Follows(sent[l], t, m)
      BY <3>2, <3>3, <3>4, <2>2, <2>4
    <3> QED
      BY <3>2, <3>3, <3>4, <3>5, <3>6, <2>3
  <2>5. ASSUME k > 0, c.attached, q[1].level = c.level
        PROVE  Follows(sent2[c.level], Heard(c), q[1])
    <3>1. 1 \in 1 .. k
      BY <2>5
    <3>2. PICK m \in Load \cup Batch : m = q[1]
      BY <3>1, <2>1, <1>3
    <3>3. PICK l \in 1 .. MaxLevel : l = c.level
      BY <3>1, <2>1, <2>5, <1>4
    <3>4. PICK t \in Nat : t = Heard(c)
      BY ClientFields
    <3>5. l = lv => m.event <= next
      BY <3>1, <3>2, <3>3, <2>1, <2>5, <1>5
    <3>6. Follows(sent[l], t, m)
      BY <3>2, <3>3, <3>4, <2>2, <2>5
    <3> QED
      BY <3>2, <3>3, <3>4, <3>5, <3>6, <2>3
  <2> QED
    BY <2>1, <2>4, <2>5 DEF InARow
<1>8. LoadFirst(q, c)
  BY DEF Connection
<1>9. InStep(c, lv, next2, time + 1, sent2)
  <2>1. /\ c.batchLevel <= lv
        /\ c.batchLevel = lv => time > 0 /\ c.waiting <= next
        /\ c.attached => c.level \in 1 .. lv /\ Attached(c, sent[c.level])
    BY DEF Connection, InStep
  <2>2. c.waiting \in Nat /\ c.level \in 0 .. MaxLevel /\ Heard(c) \in Nat
    BY ClientFields
  <2>3. c.batchLevel = lv => time + 1 > 0 /\ c.waiting <= next2
    BY <2>1, <2>2, <1>2
  <2>4. ASSUME c.attached PROVE Attached(c, sent2[c.level])
    <3>1. CASE c.level = lv
      <4>1. Heard(c) <= next
        BY <3>1, <2>1, <2>2 DEF Heard
      <4>2. Attached(c, sent[lv])
        BY <3>1, <2>1, <2>4
      <4>3. Attached(c, sent[lv] \o e)
        BY <4>1, <4>2, <1>1, GrowAttached
      <4> QED
        BY <4>3, <3>1, <1>1
    <3>2. CASE c.level # lv
      <4>1. PICK l \in 1 .. MaxLevel : l = c.level
        BY <2>1, <2>2, <2>4
      <4>2. sent2[l] = sent[l]
        BY <4>1, <3>2, <1>1
      <4> QED
        BY <4>1, <4>2, <2>1, <2>4
    <3> QED
      BY <3>1, <3>2
  <2> QED
    BY <2>1, <2>3, <2>4 DEF InStep
<1> QED
  BY <1>6, <1>7, <1>8, <1>9

\* The destinations a batch is sent to go on missing nothing.
LEMMA BatchSent ==
    ASSUME NEW q \in Seq(Load \cup Batch), NEW c \in Client, NEW lv \in 1 .. MaxLevel,
           NEW next \in Nat, NEW time \in Nat, NEW next2 \in Nat,
           NEW sent \in [1 .. MaxLevel -> Seq(Entry)],
           Connection(q, c, lv, next, time, TRUE, sent),
           NEW e \in Seq(Entry), Grown(sent[lv], e, next, next2),
           NEW sent2 \in [1 .. MaxLevel -> Seq(Entry)],
           sent2 = [sent EXCEPT ![lv] = @ \o e],
           NEW m \in Batch, m.level = lv, m.event = next2, m.entries = e
    PROVE  Connection(Append(q, m), c, lv, next2, time + 1, TRUE, sent2)
<1>1. PICK k \in Nat : k = Len(q)
  BY LenProperties
<1>2. PICK r : r = Append(q, m)
  OBVIOUS
<1>3. Len(r) = k + 1 /\ r[k + 1] = m /\ \A i \in 1 .. k : r[i] = q[i]
  BY <1>1, <1>2, AppendProperties
<1>4. sent2[lv] = sent[lv] \o e /\ sent[lv] \in Seq(Entry)
  OBVIOUS
<1>5. \A i \in 1 .. k + 1 : i \in 1 .. k \/ i = k + 1
  OBVIOUS
<1>6. /\ Messages(q, lv, next2, time + 1, sent2)
      /\ InARow(q, c, sent2)
      /\ LoadFirst(q, c)
      /\ InStep(c, lv, next2, time + 1, sent2)
  BY LogGrows
<1>7. next < next2 /\ m.event > 0 /\ time + 1 > 0
  BY DEF Grown
<1>8. /\ Faithful(m, sent2[lv])
      /\ \A t \in Nat : t <= next /\ (\A i \in 1 .. Len(sent[lv]) : sent[lv][i].at <= t)
                            => Follows(sent2[lv], t, m)
      /\ \A i \in 1 .. Len(sent2[lv]) : sent2[lv][i].at <= next2
  BY <1>4, GrownBatch
<1>9. Messages(r, lv, next2, time + 1, sent2)
  <2>1. \A i \in 1 .. k : /\ q[i].level <= lv
                          /\ q[i].level = lv => q[i].event <= next2
                                                /\ (q[i].event > 0 => time + 1 > 0)
                          /\ Faithful(q[i], sent2[q[i].level])
    BY <1>1, <1>6 DEF Messages
  <2>2. /\ m.level <= lv /\ m.event <= next2
        /\ Faithful(m, sent2[m.level])
    BY <1>8
  <2> QED
    BY <2>1, <2>2, <1>3, <1>5, <1>7 DEF Messages
<1>10. InARow(r, c, sent2)
  <2>1. /\ \A i \in 1 .. k - 1 :
            q[i + 1].level = q[i].level => Follows(sent2[q[i].level], q[i].event, q[i + 1])
        /\ k > 0 /\ c.attached /\ q[1].level = c.level => Follows(sent2[c.level], Heard(c), q[1])
    BY <1>1, <1>6 DEF InARow
  <2>2. /\ k > 0 /\ q[k].level = lv =>
              \A i \in 1 .. Len(sent[lv]) : sent[lv][i].at <= q[k].event
        /\ k = 0 /\ c.attached /\ c.level = lv =>
              \A i \in 1 .. Len(sent[lv]) : sent[lv][i].at <= Heard(c)
    BY <1>1 DEF Connection, NothingMissed
  <2>3. ASSUME k > 0, q[k].level = lv
        PROVE  Follows(sent2[lv], q[k].event, m)
    <3>1. k \in 1 .. k /\ q[k] \in Load \cup Batch
      BY <2>3, <1>1, ElementOfSeq
    <3>2. q[k].event \in Nat
      BY <3>1, MessageFields
    <3>3. q[k].event <= next
      BY <3>1, <2>3, <1>1 DEF Connection, Messages
    <3> QED
      BY <3>2, <3>3, <2>2, <2>3, <1>8
  <2>4. ASSUME k = 0, c.attached, c.level = lv
        PROVE  Follows(sent2[lv], Heard(c), m)
    <3>1. Heard(c) \in Nat
      BY ClientFields
    <3>2. c.batchLevel = lv => c.waiting <= next
      BY DEF Connection, InStep
    <3>3. Heard(c) <= next
      BY <3>2, <2>4 DEF Heard
    <3> QED
      BY <3>1, <3>3, <2>2, <2>4, <1>8
  <2>5. ASSUME NEW i \in 1 .. (k + 1) - 1, r[i + 1].level = r[i].level
        PROVE  Follows(sent2[r[i].level], r[i].event, r[i + 1])
    <3>1. CASE i = k
      <4>1. r[i] = q[k] /\ r[i + 1] = m /\ k > 0
        BY <3>1, <1>3
      <4> QED
        BY <4>1, <2>3, <2>5
    <3>2. CASE i # k
      <4>1. i \in 1 .. k - 1 /\ i \in 1 .. k /\ i + 1 \in 1 .. k
        BY <3>2
      <4>2. r[i] = q[i] /\ r[i + 1] = q[i + 1]
        BY <4>1, <1>3
      <4> QED
        BY <4>1, <4>2, <2>1, <2>5
    <3> QED
      BY <3>1, <3>2
  <2>6. ASSUME c.attached, r[1].level = c.level
        PROVE  Follows(sent2[c.level], Heard(c), r[1])
    <3>1. CASE k = 0
      <4>1. r[1] = m
        BY <3>1, <1>3
      <4> QED
        BY <4>1, <3>1, <2>4, <2>6
    <3>2. CASE k # 0
      <4>1. k > 0 /\ r[1] = q[1]
        BY <3>2, <1>3
      <4> QED
        BY <4>1, <2>1, <2>6
    <3> QED
      BY <3>1, <3>2
  <2> QED
    BY <2>5, <2>6, <1>3 DEF InARow
<1>11. LoadFirst(r, c)
  <2>1. \A i \in 1 .. k : q[i].event = 0 =>
          /\ c.batchLevel # q[i].level
          /\ \A j \in 1 .. i - 1 : q[j].event = 0 \/ q[j].level # q[i].level
    BY <1>1, <1>6 DEF LoadFirst
  <2>2. ASSUME NEW i \in 1 .. k + 1, r[i].event = 0
        PROVE  /\ c.batchLevel # r[i].level
               /\ \A j \in 1 .. i - 1 : r[j].event = 0 \/ r[j].level # r[i].level
    <3>1. i \in 1 .. k
      BY <2>2, <1>3, <1>5, <1>7
    <3>2. r[i] = q[i] /\ q[i].event = 0
      BY <3>1, <2>2, <1>3
    <3>3. /\ c.batchLevel # q[i].level
          /\ \A j \in 1 .. i - 1 : q[j].event = 0 \/ q[j].level # q[i].level
      BY <3>1, <3>2, <2>1
    <3>4. ASSUME NEW j \in 1 .. i - 1
          PROVE  r[j].event = 0 \/ r[j].level # r[i].level
      <4>1. r[j] = q[j]
        BY <3>1, <1>3
      <4> QED
        BY <4>1, <3>2, <3>3
    <3> QED
      BY <3>2, <3>3, <3>4
  <2> QED
    BY <2>2, <1>3 DEF LoadFirst
<1>12. NothingMissed(r, c, lv, TRUE, sent2)
  BY <1>3, <1>8 DEF NothingMissed
<1> QED
  BY <1>2, <1>6, <1>9, <1>10, <1>11, <1>12 DEF Connection

\* The destinations it is not sent to have nothing of the end of the level.
LEMMA BatchNotSent ==
    ASSUME NEW q \in Seq(Load \cup Batch), NEW c \in Client, NEW lv \in 1 .. MaxLevel,
           NEW next \in Nat, NEW time \in Nat, NEW next2 \in Nat,
           NEW sent \in [1 .. MaxLevel -> Seq(Entry)],
           Connection(q, c, lv, next, time, FALSE, sent),
           NEW e \in Seq(Entry), Grown(sent[lv], e, next, next2),
           NEW sent2 \in [1 .. MaxLevel -> Seq(Entry)],
           sent2 = [sent EXCEPT ![lv] = @ \o e]
    PROVE  Connection(q, c, lv, next2, time + 1, FALSE, sent2)
<1>1. NothingMissed(q, c, lv, FALSE, sent2)
  BY DEF Connection, NothingMissed
<1> QED
  BY <1>1, LogGrows DEF Connection
-----------------------------------------------------------------------------
(* The steps of the system. *)

LEMMA InitLockStep == Init => LockStepInv
<1> SUFFICES ASSUME Init PROVE LockStepInv
  OBVIOUS
<1>1. LogInv
  BY EmptySeq, BoundsAssumption DEF Init, LogInv, Sorted
<1>2. ASSUME NEW d \in Dests
      PROVE  Connection(toClient[d], client[d], level, nextEventTime, currentTime,
                        LoadedClient(d), log)
  <2>1. /\ toClient[d] = <<>> /\ level = 1
        /\ client[d].attached = FALSE /\ client[d].batchLevel = 0
    BY DEF Init, NewClient
  <2>2. Len(toClient[d]) = 0
    BY <2>1
  <2>3. /\ Messages(toClient[d], level, nextEventTime, currentTime, log)
        /\ LoadFirst(toClient[d], client[d])
    BY <2>2 DEF Messages, LoadFirst
  <2>4. InARow(toClient[d], client[d], log)
    BY <2>2 DEF InARow
  <2>5. NothingMissed(toClient[d], client[d], level, LoadedClient(d), log)
    BY <2>1, <2>2 DEF NothingMissed
  <2>6. InStep(client[d], level, nextEventTime, currentTime, log)
    BY <2>1 DEF InStep
  <2> QED
    BY <2>3, <2>4, <2>5, <2>6 DEF Connection
<1> QED
  BY <1>1, <1>2 DEF LockStepInv

\* The types the lemmas about a connection ask for.
LEMMA ConnectionTypes ==
    ASSUME IInv, NEW d \in Dests
    PROVE  /\ toClient[d] \in Seq(Load \cup Batch) /\ client[d] \in Client
           /\ level \in 1 .. MaxLevel /\ nextEventTime \in Nat /\ currentTime \in Nat
           /\ log \in [1 .. MaxLevel -> Seq(Entry)]
           /\ LoadedClient(d) \in BOOLEAN
BY DEF IInv, TypeOK, LoadedClient

\* A step of one client, which changes nothing of the server.
LEMMA OneClientMoves ==
    ASSUME IInv, LockStepInv, NEW d \in Dests, UNCHANGED server,
           \A x \in Dests : x # d => toClient'[x] = toClient[x] /\ client'[x] = client[x],
           Connection(toClient'[d], client'[d], level, nextEventTime, currentTime,
                      LoadedClient(d), log)
    PROVE  LockStepInv'
<1>1. LogInv'
  BY DEF LockStepInv, LogInv, server
<1>2. ASSUME NEW x \in Dests
      PROVE  Connection(toClient'[x], client'[x], level', nextEventTime', currentTime',
                        LoadedClient(x)', log')
  <2>1. /\ level' = level /\ nextEventTime' = nextEventTime /\ currentTime' = currentTime
        /\ log' = log /\ (LoadedClient(x)' <=> LoadedClient(x))
    BY DEF server, LoadedClient
  <2>2. Connection(toClient'[x], client'[x], level, nextEventTime, currentTime,
                   LoadedClient(x), log)
    <3>1. CASE x = d
      BY <3>1
    <3>2. CASE x # d
      BY <3>2 DEF LockStepInv
    <3> QED
      BY <3>1, <3>2
  <2>3. LoadedClient(x) \in BOOLEAN /\ LoadedClient(x)' \in BOOLEAN
    BY DEF LoadedClient
  <2>4. LoadedClient(x)' = LoadedClient(x)
    BY <2>1, <2>3
  <2> QED
    BY <2>1, <2>2, <2>4
<1> QED
  BY <1>1, <1>2 DEF LockStepInv

LEMMA ReceiveLoadLocked ==
    ASSUME IInv, LockStepInv, NEW d \in Dests, ReceiveLoad(d)
    PROVE  LockStepInv'
<1>1. PICK q \in Seq(Load \cup Batch) : q = toClient[d]
  BY ConnectionTypes
<1>2. PICK c \in Client : c = client[d]
  BY ConnectionTypes
<1>3. PICK m : m = Head(q)
  OBVIOUS
<1>4. q # <<>> /\ m.type = "load" /\ m \in Load \cup Batch
  BY <1>1, <1>3, HeadTailProperties DEF ReceiveLoad, RECEIVE, Reading
<1>5. m \in Load
  BY <1>4, MessageFields DEF Batch
<1>6. PICK n : n = StartLoad(c, m)
  OBVIOUS
<1>7. n \in Client
  <2>1. /\ m.level \in 0 .. MaxLevel /\ m.time \in Nat /\ m.event \in Nat
        /\ m.entries \in Seq(Entry)
    BY <1>5 DEF Load
  <2>2. c.handlers \in Nat /\ c.waiting \in Nat /\ c.batchLevel \in 0 .. MaxLevel
    BY DEF Client
  <2>3. <<>> \in Seq(Entry)
    BY EmptySeq
  <2> QED
    BY <2>1, <2>2, <2>3, <1>6 DEF Client, StartLoad
<1>8. /\ client' = [client EXCEPT ![d] = n]
      /\ toClient' = [toClient EXCEPT ![d] = Tail(q)]
      /\ UNCHANGED server
  BY <1>1, <1>2, <1>3, <1>6 DEF ReceiveLoad
<1>9. client \in [Dests -> Client] /\ toClient \in [Dests -> Seq(Load \cup Batch)]
  BY DEF IInv, TypeOK
<1>10. Connection(q, c, level, nextEventTime, currentTime, LoadedClient(d), log)
  BY <1>1, <1>2 DEF LockStepInv
<1>11. q[1] = m /\ 1 \in 1 .. Len(q) /\ 1 .. 1 - 1 = {}
  <2>1. Len(q) \in Nat /\ Len(q) # 0
    BY <1>4, LenProperties, EmptySeq
  <2> QED
    BY <2>1, <1>3, <1>4, HeadTailProperties
<1>12. m.event = 0 => c.batchLevel # m.level
  BY <1>10, <1>11 DEF Connection, LoadFirst
<1>13. m.level \in 1 .. MaxLevel /\ m.event \in Nat /\ Faithful(m, log[m.level])
  BY <1>4, <1>10, <1>11, MessageFields DEF Connection, Messages
<1>14. log[m.level] \in Seq(Entry)
  BY <1>13 DEF IInv, TypeOK
<1>15. /\ n.attached /\ n.level = m.level /\ Heard(n) = m.event
       /\ n.batchLevel = IF m.event = 0 THEN c.batchLevel ELSE m.level
       /\ n.waiting = IF m.event = 0 THEN c.waiting ELSE m.event
       /\ Attached(n, log[m.level])
  BY <1>5, <1>6, <1>12, <1>13, <1>14, AttachedLoad
<1>16. \/ /\ m.event = 0
          /\ n.batchLevel = c.batchLevel /\ n.waiting = c.waiting
       \/ /\ m.event > 0
          /\ n.batchLevel = m.level /\ n.waiting = m.event
  BY <1>13, <1>15
<1>17. Connection(Tail(q), n, level, nextEventTime, currentTime, LoadedClient(d), log)
  BY <1>3, <1>4, <1>7, <1>10, <1>15, <1>16, ConnectionTypes, Received
<1> QED
  BY <1>8, <1>9, <1>17, OneClientMoves

LEMMA ReceiveBatchLocked ==
    ASSUME IInv, LockStepInv, NEW d \in Dests, ReceiveBatch(d)
    PROVE  LockStepInv'
<1>1. PICK q \in Seq(Load \cup Batch) : q = toClient[d]
  BY ConnectionTypes
<1>2. PICK c \in Client : c = client[d]
  BY ConnectionTypes
<1>3. PICK m : m = Head(q)
  OBVIOUS
<1>4. q # <<>> /\ m.type = "batch" /\ m \in Load \cup Batch
  BY <1>1, <1>3, HeadTailProperties DEF ReceiveBatch, RECEIVE, Reading
<1>5. m \in Batch
  BY <1>4, MessageFields DEF Load
<1>6. PICK n : n = AddBatch(c, m)
  OBVIOUS
<1>7. /\ client' = [client EXCEPT ![d] = n]
      /\ toClient' = [toClient EXCEPT ![d] = Tail(q)]
      /\ UNCHANGED server
  BY <1>1, <1>2, <1>3, <1>6 DEF ReceiveBatch
<1>8. client \in [Dests -> Client] /\ toClient \in [Dests -> Seq(Load \cup Batch)]
  BY DEF IInv, TypeOK
<1>9. n \in Client
  <2>1. client' \in [Dests -> Client]
    BY ReceiveBatchStep DEF IInv, TypeOK
  <2>2. client'[d] = n
    BY <1>7, <1>8
  <2> QED
    BY <2>1, <2>2
<1>10. Connection(q, c, level, nextEventTime, currentTime, LoadedClient(d), log)
  BY <1>1, <1>2 DEF LockStepInv
<1>11. q[1] = m /\ 1 \in 1 .. Len(q) /\ Len(q) > 0
  <2>1. Len(q) \in Nat /\ Len(q) # 0
    BY <1>4, LenProperties, EmptySeq
  <2> QED
    BY <2>1, <1>3, <1>4, HeadTailProperties
<1>12. m.level \in 1 .. MaxLevel /\ m.event \in Nat /\ Faithful(m, log[m.level])
  BY <1>4, <1>10, <1>11, MessageFields DEF Connection, Messages
<1>13. m.event > 0 /\ log[m.level] \in Seq(Entry)
  BY <1>4, <1>12 DEF IInv, TypeOK, Faithful
<1>14. /\ n.batchLevel = m.level /\ n.waiting = m.event /\ n.level = c.level
       /\ n.attached = (c.attached /\ m.level = c.level /\ c.time <= m.event)
  BY <1>6 DEF AddBatch, Client
<1>15. ASSUME n.attached
       PROVE  /\ n.level = m.level /\ Heard(n) = m.event
              /\ Attached(n, log[n.level])
  <2>1. c.attached /\ m.level = c.level /\ c.time <= m.event
    BY <1>14, <1>15
  <2>2. Attached(c, log[m.level])
    BY <2>1, <1>10 DEF Connection, InStep
  <2>3. Follows(log[m.level], Heard(c), m)
    BY <2>1, <1>10, <1>11 DEF Connection, InARow
  <2>4. Heard(n) = m.event /\ Attached(n, log[m.level])
    BY <2>1, <2>2, <2>3, <1>5, <1>6, <1>12, <1>13, AttachedBatch
  <2> QED
    BY <2>1, <2>4, <1>14
<1>16. Connection(Tail(q), n, level, nextEventTime, currentTime, LoadedClient(d), log)
  BY <1>3, <1>4, <1>9, <1>10, <1>13, <1>14, <1>15, ConnectionTypes, Received
<1> QED
  BY <1>7, <1>8, <1>16, OneClientMoves

LEMMA ClientStepLocked ==
    ASSUME IInv, LockStepInv, NEW d \in Dests, ClientStep(d)
    PROVE  LockStepInv'
<1>1. PICK c \in Client : c = client[d]
  BY ConnectionTypes
<1>2. PICK n : n = Stepped(c)
  OBVIOUS
<1>3. /\ client' = [client EXCEPT ![d] = n] /\ UNCHANGED <<server, toClient>>
      /\ c.time < c.waiting
  BY <1>1, <1>2 DEF ClientStep, ContinueToSimulate
<1>4. client \in [Dests -> Client]
  BY DEF IInv, TypeOK
<1>5. Connection(toClient[d], c, level, nextEventTime, currentTime, LoadedClient(d), log)
  BY <1>1 DEF LockStepInv
<1>6. /\ n.attached = c.attached /\ n.level = c.level /\ n.batchLevel = c.batchLevel
      /\ n.waiting = c.waiting
  BY <1>2 DEF Stepped, Client
<1>7. ASSUME c.attached, Attached(c, log[c.level])
      PROVE  Attached(n, log[c.level])
  <2>1. c.level \in 1 .. MaxLevel
    <3>1. c.level \in 1 .. level
      BY <1>5, <1>7 DEF Connection, InStep
    <3>2. level \in 1 .. MaxLevel
      BY DEF IInv, TypeOK
    <3> QED
      BY <3>1, <3>2, BoundsAssumption
  <2>2. log[c.level] \in Seq(Entry) /\ Sorted(log[c.level])
    BY <2>1 DEF IInv, TypeOK, LockStepInv, LogInv
  <2> QED
    BY <2>2, <1>2, <1>3, <1>7, AttachedStep
<1>8. Connection(toClient[d], n, level, nextEventTime, currentTime, LoadedClient(d), log)
  BY <1>5, <1>6, <1>7, ClientMoves
<1> QED
  BY <1>3, <1>4, <1>8, OneClientMoves

LEMMA FinishLoadLocked ==
    ASSUME IInv, LockStepInv, NEW d \in Dests, FinishLoad(d)
    PROVE  LockStepInv'
<1>1. PICK c \in Client : c = client[d]
  BY ConnectionTypes
<1>2. PICK n : n = [c EXCEPT !.loading = FALSE, !.target = 0, !.handlers = @ - 1]
  OBVIOUS
<1>3. client \in [Dests -> Client]
  BY DEF IInv, TypeOK
<1>4. client' = [client EXCEPT ![d] = n] /\ UNCHANGED <<server, toClient>>
  BY <1>1, <1>2, <1>3 DEF FinishLoad, Client
<1>5. Connection(toClient[d], c, level, nextEventTime, currentTime, LoadedClient(d), log)
  BY <1>1 DEF LockStepInv
<1>6. /\ n.attached = c.attached /\ n.level = c.level /\ n.batchLevel = c.batchLevel
      /\ n.waiting = c.waiting /\ n.world = c.world /\ n.queue = c.queue /\ n.time = c.time
  BY <1>2 DEF Client
<1>7. Attached(c, log[c.level]) => Attached(n, log[c.level])
  BY <1>6 DEF Attached, Heard
<1>8. Connection(toClient[d], n, level, nextEventTime, currentTime, LoadedClient(d), log)
  BY <1>5, <1>6, <1>7, ClientMoves
<1> QED
  BY <1>3, <1>4, <1>8, OneClientMoves

\* The recording a destination is sent is faithful: it has all that was sent.
LEMMA RecordingFaithful ==
    ASSUME IInv, LockStepInv, NEW m, m = LoadMessage(level, currentTime, levelMessage)
    PROVE  /\ m \in Load /\ m.level = level /\ m.event <= nextEventTime
           /\ m.event > 0 <=> currentTime > 0
           /\ Faithful(m, log[level])
           /\ \A i \in 1 .. Len(log[level]) : log[level][i].at <= m.event
<1>1. /\ m.type = "load" /\ m.level = level /\ m.event = levelMessage.event
      /\ m.entries = levelMessage.entries
  BY DEF LoadMessage
<1>2. m \in Load
  BY DEF IInv, TypeOK, LoadMessage, Load, Recording
<1>3. PICK s \in Seq(Entry) : s = log[level]
  BY DEF IInv, TypeOK
<1>4. m.entries = s
  BY <1>1, <1>3 DEF IInv, RecordingInv, RecordingComplete
<1>5. /\ currentTime \in Nat /\ nextEventTime \in Nat /\ nextEventTime > 0
      /\ m.event = IF currentTime > 0 THEN nextEventTime ELSE 0
  BY <1>1 DEF IInv, TypeOK, ScheduleInv, RecordingInv, RecordingComplete
<1>6. PICK n \in Nat : n = Len(s)
  BY LenProperties
<1>7. \A i \in 1 .. n : s[i].at <= m.event
  <2>1. CASE currentTime > 0
    BY <2>1, <1>3, <1>5, <1>6 DEF LockStepInv, LogInv
  <2>2. CASE ~(currentTime > 0)
    <3>1. s = <<>>
      BY <2>2, <1>3, <1>5 DEF LockStepInv, LogInv
    <3>2. n = 0
      BY <3>1, <1>6
    <3> QED
      BY <3>2
  <2> QED
    BY <2>1, <2>2
<1>8. PartOf(s, 0, s)
  BY <1>6 DEF PartOf
<1>9. Cut(s, Len(s), m.event)
  BY <1>6, <1>7 DEF Cut
<1>10. Faithful(m, s)
  BY <1>1, <1>4, <1>8, <1>9 DEF Faithful
<1> QED
  BY <1>1, <1>2, <1>3, <1>5, <1>6, <1>7, <1>10

\* A step of the server that leaves the log, the level and the clients alone and
\* sends at most a load to a destination.
LEMMA OneToldToLoad ==
    ASSUME IInv, LockStepInv, NEW d \in Dests,
           UNCHANGED <<level, currentTime, nextEventTime, log, client>>,
           \A x \in Dests : x # d => toClient'[x] = toClient[x] /\ dest'[x] = dest[x],
           \/ /\ toClient'[d] = toClient[d]
              /\ LoadedClient(d) => LoadedClient(d)'
           \/ /\ toClient'[d] =
                    Append(toClient[d], LoadMessage(level, currentTime, levelMessage))
              /\ LoadedClient(d)'
    PROVE  LockStepInv'
<1>1. LogInv'
  BY DEF LockStepInv, LogInv
<1>2. ASSUME NEW x \in Dests
      PROVE  Connection(toClient'[x], client'[x], level', nextEventTime', currentTime',
                        LoadedClient(x)', log')
  <2>1. Connection(toClient[x], client[x], level, nextEventTime, currentTime,
                   LoadedClient(x), log)
    BY DEF LockStepInv
  <2>2. PICK loaded \in BOOLEAN : loaded = LoadedClient(x)'
    BY DEF LoadedClient
  <2>3. CASE toClient'[x] = toClient[x] /\ (LoadedClient(x) => LoadedClient(x)')
    <3>1. Connection(toClient[x], client[x], level, nextEventTime, currentTime, loaded, log)
      BY <2>1, <2>2, <2>3, TimeMoves
    <3> QED
      BY <3>1, <2>2, <2>3
  <2>4. CASE /\ toClient'[x] =
                    Append(toClient[x], LoadMessage(level, currentTime, levelMessage))
             /\ LoadedClient(x)'
    <3>1. PICK m : m = LoadMessage(level, currentTime, levelMessage)
      OBVIOUS
    <3>2. Connection(Append(toClient[x], m), client[x], level, nextEventTime, currentTime,
                     TRUE, log)
      BY <2>1, <3>1, RecordingFaithful, ConnectionTypes, LoadSent
    <3>3. loaded = TRUE
      BY <2>2, <2>4
    <3> QED
      BY <3>1, <3>2, <3>3, <2>2, <2>4
  <2>5. x # d => LoadedClient(x)' = LoadedClient(x)
    BY DEF LoadedClient
  <2> QED
    BY <2>3, <2>4, <2>5
<1> QED
  BY <1>1, <1>2 DEF LockStepInv

LEMMA LoadLocked ==
    ASSUME IInv, LockStepInv, NEW d \in Dests, InitializeMod(d) \/ LevelLoaded(d)
    PROVE  LockStepInv'
<1>1. /\ dest \in [Dests -> Destination] /\ toClient \in [Dests -> Seq(Load \cup Batch)]
      /\ level' = level
  BY DEF IInv, TypeOK, InitializeMod, LevelLoaded
<1>2. UNCHANGED <<level, currentTime, nextEventTime, log, client>>
  BY DEF InitializeMod, LevelLoaded
<1>3. dest[d].state \in {"sInitializingMod", "sLoadingLevel", "sFinished"}
  BY <1>1 DEF Destination
<1>4. CASE /\ dest' = [dest EXCEPT ![d] = ToldToLoad(d, level)]
           /\ toClient' = [toClient EXCEPT ![d] =
                        Append(@, LoadMessage(level, currentTime, levelMessage))]
  <2>1. dest'[d] = ToldToLoad(d, level)
    BY <1>1, <1>4
  <2>2. dest'[d].state = "sLoadingLevel" /\ dest'[d].levelNumber = level'
    BY <2>1, <1>1, <1>3 DEF ToldToLoad, SetState, AllowedStateTransitions
  <2>3. LoadedClient(d)'
    BY <2>2 DEF LoadedClient
  <2> QED
    BY <2>3, <1>1, <1>2, <1>4, OneToldToLoad
<1>5. CASE /\ dest' = [dest EXCEPT ![d].state = SetState(@, "sFinished")]
           /\ toClient' = toClient
  <2>1. /\ dest'[d].state = SetState(dest[d].state, "sFinished")
        /\ dest'[d].levelNumber = dest[d].levelNumber
        /\ \A x \in Dests : x # d => dest'[x] = dest[x]
    BY <1>1, <1>5 DEF Destination
  <2>2. LoadedClient(d) => LoadedClient(d)'
    BY <2>1, <1>3 DEF LoadedClient, SetState, AllowedStateTransitions
  <2> QED
    BY <2>1, <2>2, <1>2, <1>5, OneToldToLoad
<1> QED
  BY <1>4, <1>5 DEF InitializeMod, LevelLoaded

LEMMA AddLocked ==
    ASSUME IInv, LockStepInv, AddSimulatorAction
    PROVE  LockStepInv'
<1>1. UNCHANGED <<level, currentTime, nextEventTime, log, client, toClient, dest>>
  BY DEF AddSimulatorAction
<1>2. \A x \in Dests : LoadedClient(x)' <=> LoadedClient(x)
  BY <1>1 DEF LoadedClient
<1>3. \A x \in Dests : LoadedClient(x)' = LoadedClient(x)
  BY <1>2 DEF LoadedClient
<1> QED
  BY <1>1, <1>3 DEF LockStepInv, LogInv

LEMMA NoSendLocked ==
    ASSUME IInv, LockStepInv, SimulateStep, NoSend
    PROVE  LockStepInv'
<1>1. /\ UNCHANGED <<level, nextEventTime, log, client, toClient, dest>>
      /\ currentTime' = currentTime + 1 /\ currentTime \in Nat
  BY DEF IInv, TypeOK, SimulateStep, NoSend
<1>2. LogInv'
  BY <1>1 DEF LockStepInv, LogInv
<1>3. ASSUME NEW x \in Dests
      PROVE  Connection(toClient'[x], client'[x], level', nextEventTime', currentTime',
                        LoadedClient(x)', log')
  <2>1. LoadedClient(x)' <=> LoadedClient(x)
    BY <1>1 DEF LoadedClient
  <2>2. LoadedClient(x)' = LoadedClient(x)
    BY <2>1 DEF LoadedClient
  <2>3. PICK loaded \in BOOLEAN : loaded = LoadedClient(x)
    BY DEF LoadedClient
  <2>4. PICK time \in Nat : time = currentTime'
    BY <1>1
  <2>5. time > 0
    BY <2>4, <1>1
  <2>6. Connection(toClient[x], client[x], level, nextEventTime, currentTime, loaded, log)
    BY <2>3 DEF LockStepInv
  <2>7. Connection(toClient[x], client[x], level, nextEventTime, time, loaded, log)
    BY <2>5, <2>6, TimeMoves
  <2> QED
    BY <2>2, <2>3, <2>4, <2>7, <1>1
<1> QED
  BY <1>2, <1>3 DEF LockStepInv

LEMMA SendLocked ==
    ASSUME IInv, LockStepInv, SimulateStep, Send
    PROVE  LockStepInv'
<1> DEFINE entries == EntriesAt(sendActions, nextEventTime')
           batch == [type |-> "batch", level |-> level,
                     event |-> nextEventTime', entries |-> entries]
<1>1. /\ currentTime' = currentTime + 1
      /\ sendStepSize' \in StepSizes
      /\ nextEventTime' = nextEventTime + sendStepSize'
      /\ log' = [log EXCEPT ![level] = @ \o entries]
      /\ toClient' = [d \in Dests |->
           IF LoadedClient(d) THEN Append(toClient[d], batch) ELSE toClient[d]]
      /\ UNCHANGED <<level, dest, requested, toServer, client>>
  BY DEF SimulateStep, Send
<1>2. /\ currentTime \in Nat /\ nextEventTime \in Nat /\ level \in 1 .. MaxLevel
      /\ log \in [1 .. MaxLevel -> Seq(Entry)] /\ sendActions \in Seq(Action)
  BY DEF IInv, TypeOK
<1>3. PICK next2 \in Nat : next2 = nextEventTime' /\ nextEventTime < next2
  <2>1. PICK k \in Nat : k = sendStepSize' /\ k > 0
    <3>1. sendStepSize' \in StepSizes
      BY <1>1
    <3>2. \A k \in StepSizes : k \in Nat /\ k > 0
      BY StepsAssumption
    <3> QED
      BY <3>1, <3>2
  <2>2. PICK t \in Nat : t = nextEventTime
    BY <1>2
  <2>3. t + k \in Nat /\ t < t + k
    <3>1. k > 0
      BY <2>1
    <3> QED
      BY <3>1
  <2>4. t + k = nextEventTime'
    BY <2>1, <2>2, <1>1
  <2> QED
    BY <2>2, <2>3, <2>4
<1>4. PICK e \in Seq(Entry) : e = entries /\ \A i \in 1 .. Len(e) : e[i].at = next2
  BY <1>2, <1>3, EntriesAtType
<1>5. PICK m \in Batch : m = batch /\ m.level = level /\ m.event = next2 /\ m.entries = e
  <2>1. batch = [type |-> "batch", level |-> level, event |-> next2, entries |-> e]
    BY <1>3, <1>4
  <2>2. next2 > 0
    BY <1>2, <1>3
  <2> QED
    BY <2>1, <2>2, <1>2 DEF Batch
<1>6. PICK s \in Seq(Entry) : s = log[level]
  BY <1>2
<1>7. /\ Sorted(s) /\ \A i \in 1 .. Len(s) : s[i].at > 0
      /\ \A i \in 1 .. Len(s) : s[i].at <= nextEventTime
  BY <1>2, <1>6 DEF LockStepInv, LogInv
<1>8. Grown(s, e, nextEventTime, next2)
  BY <1>3, <1>4, <1>7 DEF Grown
<1> HIDE DEF batch, entries
<1>9. /\ log' = [log EXCEPT ![level] = s \o e]
      /\ toClient' = [d \in Dests |->
           IF LoadedClient(d) THEN Append(toClient[d], m) ELSE toClient[d]]
  BY <1>1, <1>4, <1>5, <1>6
<1>10. /\ s \o e \in Seq(Entry)
       /\ log' \in [1 .. MaxLevel -> Seq(Entry)] /\ log'[level] = s \o e
       /\ \A l \in 1 .. MaxLevel : l # level => log'[l] = log[l]
  <2>1. PICK u \in Seq(Entry) : u = s \o e
    BY <1>2, <1>8, GrownEntries
  <2> QED
    BY <2>1, <1>2, <1>9
<1>11. /\ Sorted(s \o e) /\ \A i \in 1 .. Len(s \o e) : (s \o e)[i].at > 0
       /\ \A i \in 1 .. Len(s \o e) : (s \o e)[i].at <= next2
  <2>1. PICK u : u = s \o e
    OBVIOUS
  <2>2. PICK a \in Nat : a = Len(s)
    BY LenProperties
  <2>3. PICK b \in Nat : b = Len(e)
    BY LenProperties
  <2>4. /\ Len(u) = a + b
        /\ \A i \in 1 .. a : u[i] = s[i] /\ u[i].at <= nextEventTime
        /\ \A i \in 1 .. a + b : i > a => u[i].at = next2
        /\ \A i \in 1 .. a + b : u[i].at \in Nat
    <3>1. PICK t \in Nat : t = nextEventTime
      BY <1>2
    <3>2. Grown(s, e, t, next2)
      BY <3>1, <1>8
    <3>3. /\ Len(s \o e) = Len(s) + Len(e)
          /\ \A i \in 1 .. Len(s) : (s \o e)[i] = s[i] /\ (s \o e)[i].at <= t
          /\ \A i \in 1 .. Len(s) + Len(e) : i > Len(s) => (s \o e)[i].at = next2
          /\ \A i \in 1 .. Len(s) + Len(e) : (s \o e)[i].at \in Nat
      BY <3>2, GrownEntries
    <3> QED
      BY <3>1, <3>3, <2>1, <2>2, <2>3
  <2>5. ASSUME NEW i \in 1 .. a + b
        PROVE  u[i].at > 0 /\ u[i].at <= next2
    <3>1. CASE i <= a
      BY <3>1, <2>2, <2>4, <1>2, <1>3, <1>7
    <3>2. CASE i > a
      BY <3>2, <2>4, <1>2, <1>3
    <3> QED
      BY <3>1, <3>2
  <2>6. ASSUME NEW i \in 1 .. a + b, NEW j \in 1 .. a + b, i <= j
        PROVE  u[i].at <= u[j].at
    <3>1. CASE j <= a
      <4>1. i \in 1 .. a /\ j \in 1 .. a
        BY <3>1, <2>6
      <4>2. s[i].at <= s[j].at
        BY <4>1, <2>2, <2>6, <1>7 DEF Sorted
      <4> QED
        BY <4>1, <4>2, <2>4
    <3>2. CASE j > a
      BY <3>2, <2>4, <2>5
    <3> QED
      BY <3>1, <3>2
  <2> QED
    BY <2>1, <2>4, <2>5, <2>6 DEF Sorted
<1>12. LogInv'
  <2>1. ASSUME NEW l \in 1 .. MaxLevel
        PROVE  Sorted(log'[l]) /\ \A i \in 1 .. Len(log'[l]) : log'[l][i].at > 0
    <3>1. CASE l = level
      BY <3>1, <1>10, <1>11
    <3>2. CASE l # level
      BY <3>2, <1>10 DEF LockStepInv, LogInv
    <3> QED
      BY <3>1, <3>2
  <2>2. \A i \in 1 .. Len(log'[level']) : log'[level'][i].at <= nextEventTime'
    BY <1>1, <1>3, <1>10, <1>11
  <2>3. currentTime' # 0
    BY <1>1, <1>2
  <2> QED
    BY <2>1, <2>2, <2>3 DEF LogInv
<1>13. ASSUME NEW d \in Dests
       PROVE  Connection(toClient'[d], client'[d], level', nextEventTime', currentTime',
                         LoadedClient(d)', log')
  <2>1. PICK loaded \in BOOLEAN : loaded = LoadedClient(d)
    BY DEF LoadedClient
  <2>2. LoadedClient(d)' <=> LoadedClient(d)
    BY <1>1 DEF LoadedClient
  <2>3. LoadedClient(d)' = loaded
    BY <2>1, <2>2 DEF LoadedClient
  <2>4. Connection(toClient[d], client[d], level, nextEventTime, currentTime, loaded, log)
    BY <2>1 DEF LockStepInv
  <2>5. PICK log2 \in [1 .. MaxLevel -> Seq(Entry)] :
            log2 = log' /\ log2 = [log EXCEPT ![level] = @ \o e]
    BY <1>6, <1>9, <1>10
  <2>6. Grown(log[level], e, nextEventTime, next2)
    BY <1>6, <1>8
  <2>7. CASE loaded = TRUE
    <3>1. Connection(Append(toClient[d], m), client[d], level, next2, currentTime + 1,
                     TRUE, log2)
      BY <2>4, <2>5, <2>6, <2>7, <1>5, ConnectionTypes, BatchSent
    <3>2. toClient'[d] = Append(toClient[d], m)
      BY <2>1, <2>7, <1>9
    <3> QED
      BY <3>1, <3>2, <2>3, <2>5, <2>7, <1>1, <1>3
  <2>8. CASE loaded = FALSE
    <3>1. Connection(toClient[d], client[d], level, next2, currentTime + 1, FALSE, log2)
      BY <2>4, <2>5, <2>6, <2>8, ConnectionTypes, BatchNotSent
    <3>2. toClient'[d] = toClient[d]
      BY <2>1, <2>8, <1>9
    <3> QED
      BY <3>1, <3>2, <2>3, <2>5, <2>8, <1>1, <1>3
  <2> QED
    BY <2>7, <2>8
<1> QED
  BY <1>12, <1>13 DEF LockStepInv

LEMMA NewGameLocked ==
    ASSUME IInv, LockStepInv, NewGame
    PROVE  LockStepInv'
<1>1. /\ level' = level + 1 /\ level < MaxLevel
      /\ currentTime' = 0 /\ nextEventTime' = sendStepSize
      /\ UNCHANGED <<log, client>>
  BY DEF NewGame
<1>2. PICK reload :
        /\ dest' = [d \in Dests |->
                IF d \in reload THEN ToldToLoad(d, level + 1) ELSE dest[d]]
        /\ toClient' = [d \in Dests |->
                IF d \in reload
                THEN Append(toClient[d], LoadMessage(level + 1, 0, EmptyRecording))
                ELSE toClient[d]]
  BY DEF NewGame
<1>3. /\ level \in 1 .. MaxLevel /\ level + 1 \in 1 .. MaxLevel
      /\ log \in [1 .. MaxLevel -> Seq(Entry)] /\ dest \in [Dests -> Destination]
      /\ sendStepSize \in Nat
  BY <1>1, StepsAssumption, BoundsAssumption DEF IInv, TypeOK
<1>4. log[level + 1] = <<>>
  BY <1>1, <1>3 DEF IInv, ScheduleInv
<1>5. Len(<<>>) = 0
  OBVIOUS
<1>6. LogInv'
  <2>1. \A l \in 1 .. MaxLevel :
          Sorted(log'[l]) /\ \A i \in 1 .. Len(log'[l]) : log'[l][i].at > 0
    BY <1>1 DEF LockStepInv, LogInv
  <2>2. log'[level'] = <<>>
    BY <1>1, <1>4
  <2> QED
    BY <2>1, <2>2, <1>5 DEF LogInv
<1>7. PICK m : m = LoadMessage(level + 1, 0, EmptyRecording)
  OBVIOUS
<1>8. /\ m \in Load /\ m.level = level + 1 /\ m.event = 0 /\ m.entries = <<>>
      /\ m.type = "load"
  <2>1. m = [type |-> "load", level |-> level + 1, time |-> 0, entries |-> <<>>, event |-> 0]
    BY <1>7 DEF LoadMessage, EmptyRecording
  <2>2. <<>> \in Seq(Entry)
    BY EmptySeq
  <2> QED
    BY <2>1, <2>2, <1>3 DEF Load
<1>9. Faithful(m, log[level + 1])
  <2>1. PartOf(<<>>, 0, <<>>) /\ Cut(<<>>, 0, 0)
    BY <1>5 DEF PartOf, Cut
  <2> QED
    BY <2>1, <1>4, <1>5, <1>8 DEF Faithful
<1>10. ASSUME NEW d \in Dests
       PROVE  Connection(toClient'[d], client'[d], level', nextEventTime', currentTime',
                         LoadedClient(d)', log')
  <2>1. PICK loaded \in BOOLEAN : loaded = LoadedClient(d)'
    BY DEF LoadedClient
  <2>2. Connection(toClient[d], client[d], level, nextEventTime, currentTime,
                   LoadedClient(d), log)
    BY DEF LockStepInv
  <2>3. Connection(toClient[d], client[d], level + 1, sendStepSize, 0, loaded, log)
    BY <2>2, ConnectionTypes, LevelMoves
  <2>4. CASE d \in reload
    <3>1. toClient'[d] = Append(toClient[d], m) /\ dest'[d] = ToldToLoad(d, level + 1)
      BY <2>4, <1>2, <1>7
    <3>2. dest[d].state \in {"sInitializingMod", "sLoadingLevel", "sFinished"}
      BY <1>3 DEF Destination
    <3>3. dest'[d].state = "sLoadingLevel" /\ dest'[d].levelNumber = level'
      BY <3>1, <3>2, <1>1 DEF ToldToLoad, SetState, AllowedStateTransitions
    <3>4. loaded = TRUE
      BY <3>3, <2>1 DEF LoadedClient
    <3>5. \A i \in 1 .. Len(log[level + 1]) : log[level + 1][i].at <= m.event
      BY <1>4, <1>5
    <3>6. m.event <= sendStepSize /\ (m.event > 0 <=> 0 > 0)
      BY <1>3, <1>8
    <3>7. toClient[d] \in Seq(Load \cup Batch) /\ client[d] \in Client /\ 0 \in Nat
      BY ConnectionTypes
    <3>8. Connection(Append(toClient[d], m), client[d], level + 1, sendStepSize, 0, TRUE, log)
      BY <2>3, <3>5, <3>6, <3>7, <1>3, <1>8, <1>9, LoadSent
    <3> QED
      BY <3>1, <3>4, <3>8, <2>1, <1>1
  <2>5. CASE d \notin reload
    <3>1. toClient'[d] = toClient[d]
      BY <2>5, <1>2
    <3> QED
      BY <3>1, <2>1, <2>3, <1>1
  <2> QED
    BY <2>4, <2>5
<1> QED
  BY <1>6, <1>10 DEF LockStepInv

LEMMA NextLockStep == IInv /\ LockStepInv /\ [Next]_vars => LockStepInv'
<1> SUFFICES ASSUME IInv, LockStepInv, [Next]_vars PROVE LockStepInv'
  OBVIOUS
<1>1. CASE AddSimulatorAction
  BY <1>1, AddLocked
<1>2. CASE SimulateStep
  BY <1>2, SendLocked, NoSendLocked DEF SimulateStep
<1>3. CASE NewGame
  BY <1>3, NewGameLocked
<1>4. CASE \E d \in Dests : InitializeMod(d) \/ LevelLoaded(d)
  BY <1>4, LoadLocked
<1>5. CASE \E d \in Dests : ClientNext(d)
  BY <1>5, ReceiveLoadLocked, ReceiveBatchLocked, ClientStepLocked, FinishLoadLocked
     DEF ClientNext
<1>6. CASE UNCHANGED vars
  <2>1. UNCHANGED <<level, currentTime, nextEventTime, log, client, toClient, dest>>
    BY <1>6 DEF vars, server
  <2>2. \A x \in Dests : LoadedClient(x)' = LoadedClient(x)
    <3>1. \A x \in Dests : LoadedClient(x)' <=> LoadedClient(x)
      BY <2>1 DEF LoadedClient
    <3> QED
      BY <3>1 DEF LoadedClient
  <2> QED
    BY <2>1, <2>2 DEF LockStepInv, LogInv
<1> QED
  BY <1>1, <1>2, <1>3, <1>4, <1>5, <1>6 DEF Next, ServerNext
-----------------------------------------------------------------------------
(* The theorems. *)

\* What a destination is sent, and what its client has, continues what was sent.
THEOREM LockStepInvariance == Spec => [](IInv /\ LockStepInv)
<1>1. Init => IInv /\ LockStepInv
  BY InitIInv, InitLockStep
<1>2. IInv /\ LockStepInv /\ [Next]_vars => (IInv /\ LockStepInv)'
  BY NextIInv, NextLockStep
<1> QED
  BY <1>1, <1>2, PTL DEF Spec

\* What a client has of its level is what it applied and what waits; what waits is
\* not late, and what it does not have is later than it may simulate.
LEMMA AttachedApplied ==
    ASSUME NEW c \in Client, NEW l \in 1 .. MaxLevel, log[l] \in Seq(Entry),
           Attached(c, log[l]), c.level = l
    PROVE  /\ AppliedAsSent(c.world, l)
           /\ c.batchLevel = l => UpToDate(c.world, l, c.time)
<1>1. PICK s \in Seq(Entry) : s = log[l]
  OBVIOUS
<1>2. PICK w \in Seq(Entry) : w = c.world
  BY ClientFields
<1>3. PICK q \in Seq(Entry) : q = c.queue
  BY ClientFields
<1>4. PICK t \in Nat : t = c.time
  BY ClientFields
<1>5. PICK h \in Nat : h = Heard(c)
  BY ClientFields
<1>6. PICK a \in Nat : a = Len(w)
  BY LenProperties
<1>7. PICK b \in Nat : b = Len(q)
  BY LenProperties
<1>8. PICK n \in Nat : n = Len(s)
  BY LenProperties
<1>9. /\ PartOf(s, 0, w) /\ PartOf(s, a, q) /\ Cut(s, a + b, h)
      /\ \A i \in 1 .. b : t <= q[i].at
      /\ c.batchLevel = l => t <= h
  BY <1>1, <1>2, <1>3, <1>4, <1>5, <1>6, <1>7 DEF Attached, Heard
<1>10. /\ a <= n /\ \A i \in 1 .. a : w[i] = s[i]
       /\ \A i \in 1 .. b : q[i] = s[a + i]
       /\ a + b <= n /\ \A i \in 1 .. n : s[i].at <= h <=> i <= a + b
  <2>1. 0 + a <= n /\ \A i \in 1 .. a : w[i] = s[0 + i]
    BY <1>6, <1>8, <1>9 DEF PartOf
  <2>2. \A i \in 1 .. b : q[i] = s[a + i]
    BY <1>7, <1>9 DEF PartOf
  <2>3. a + b \in 0 .. n /\ \A i \in 1 .. n : s[i].at <= h <=> i <= a + b
    BY <1>8, <1>9 DEF Cut
  <2> QED
    BY <2>1, <2>2, <2>3
<1>11. AppliedAsSent(w, l)
  BY <1>1, <1>6, <1>8, <1>10 DEF AppliedAsSent
<1>12. ASSUME c.batchLevel = l
       PROVE  UpToDate(w, l, t)
  <2>1. t <= h
    BY <1>9, <1>12
  <2>2. ASSUME NEW i \in 1 .. n, s[i].at < t, ~(i <= a)
        PROVE  FALSE
    <3>1. s[i].at \in Nat
      BY <1>8, EntryStamps
    <3>2. i <= a + b
      BY <3>1, <2>1, <2>2, <1>10
    <3>3. i - a \in 1 .. b /\ a + (i - a) = i
      BY <3>2, <2>2
    <3>4. q[i - a] = s[i] /\ t <= q[i - a].at
      BY <3>3, <1>9, <1>10
    <3> QED
      BY <3>1, <3>4, <2>2
  <2> QED
    BY <2>2, <1>1, <1>6, <1>8 DEF UpToDate
<1> QED
  BY <1>2, <1>4, <1>11, <1>12

LEMMA InLockStep == IInv /\ LockStepInv => ClientsInLockStep
<1> SUFFICES ASSUME IInv, LockStepInv, NEW d \in Dests, client[d].attached
             PROVE  /\ AppliedAsSent(client[d].world, client[d].level)
                    /\ client[d].batchLevel = client[d].level =>
                         UpToDate(client[d].world, client[d].level, client[d].time)
  BY DEF ClientsInLockStep
<1>1. PICK c \in Client : c = client[d]
  BY ConnectionTypes
<1>2. c.level \in 1 .. level /\ Attached(c, log[c.level])
  BY <1>1 DEF LockStepInv, Connection, InStep
<1>3. PICK l \in 1 .. MaxLevel : l = c.level
  <2>1. level \in 1 .. MaxLevel
    BY ConnectionTypes
  <2> QED
    BY <2>1, <1>2, BoundsAssumption
<1>4. log[l] \in Seq(Entry)
  BY DEF IInv, TypeOK
<1> QED
  BY <1>1, <1>2, <1>3, <1>4, AttachedApplied

\* A batch that follows another of its level finds the client before its event time.
LEMMA BatchInTime ==
    ASSUME IInv, LockStepInv, NEW d \in Dests, ReceiveBatch(d),
           client[d].attached, client[d].batchLevel = client[d].level,
           Head(toClient[d]).level = client[d].level
    PROVE  client'[d].attached
<1>1. PICK q \in Seq(Load \cup Batch) : q = toClient[d]
  BY ConnectionTypes
<1>2. PICK c \in Client : c = client[d]
  BY ConnectionTypes
<1>3. PICK m : m = Head(q)
  OBVIOUS
<1>4. q # <<>> /\ m.type = "batch" /\ m \in Load \cup Batch
  BY <1>1, <1>3, HeadTailProperties DEF ReceiveBatch, RECEIVE, Reading
<1>5. q[1] = m /\ Len(q) > 0
  <2>1. Len(q) \in Nat /\ Len(q) # 0
    BY <1>4, LenProperties, EmptySeq
  <2> QED
    BY <2>1, <1>3, <1>4, HeadTailProperties
<1>6. Connection(q, c, level, nextEventTime, currentTime, LoadedClient(d), log)
  BY <1>1, <1>2 DEF LockStepInv
<1>7. c.attached /\ c.batchLevel = c.level /\ m.level = c.level
  BY <1>1, <1>2, <1>3
<1>8. c.time <= c.waiting
  BY <1>6, <1>7 DEF Connection, InStep, Attached
<1>9. c.waiting < m.event
  <2>1. Follows(log[c.level], Heard(c), m)
    BY <1>5, <1>6, <1>7 DEF Connection, InARow
  <2> QED
    BY <2>1, <1>4, <1>7 DEF Follows, Heard
<1>10. c.time <= m.event
  <2>1. c.time \in Nat /\ c.waiting \in Nat /\ m.event \in Nat
    BY <1>4, ClientFields, MessageFields
  <2> QED
    BY <2>1, <1>8, <1>9
<1>11. client' = [client EXCEPT ![d] = AddBatch(c, m)]
  BY <1>1, <1>2, <1>3 DEF ReceiveBatch
<1>12. AddBatch(c, m).attached = (c.attached /\ m.level = c.level /\ c.time <= m.event)
  BY DEF AddBatch, Client
<1>13. AddBatch(c, m).attached
  BY <1>7, <1>10, <1>12
<1>14. client'[d] = AddBatch(c, m)
  BY <1>11 DEF IInv, TypeOK
<1> QED
  BY <1>13, <1>14

LEMMA InTimeStep ==
    ASSUME IInv, LockStepInv, [Next]_vars, NEW d \in Dests,
           client[d].attached, ~client'[d].attached
    PROVE  \/ client[d].batchLevel # client[d].level
           \/ Head(toClient[d]).level # client[d].level
<1> DEFINE Goal == \/ client[d].batchLevel # client[d].level
                   \/ Head(toClient[d]).level # client[d].level
<1>1. client \in [Dests -> Client]
  BY DEF IInv, TypeOK
<1>2. client'[d] # client[d]
  OBVIOUS
<1>3. CASE ServerNext \/ UNCHANGED vars
  <2>1. client' = client
    BY <1>3 DEF ServerNext, AddSimulatorAction, SimulateStep, NewGame, InitializeMod,
                LevelLoaded, vars
  <2> QED
    BY <2>1, <1>2
<1>4. CASE \E x \in Dests : ClientNext(x)
  <2>1. PICK x \in Dests : ClientNext(x)
    BY <1>4
  <2>2. x = d
    <3>1. CASE x # d
      <4>1. client'[d] = client[d]
        BY <2>1, <3>1, <1>1 DEF ClientNext, ReceiveLoad, ReceiveBatch, ClientStep, FinishLoad
      <4> QED
        BY <4>1, <1>2
    <3> QED
      BY <3>1
  <2>3. CASE ReceiveLoad(d)
    BY <2>3, <1>1 DEF ReceiveLoad, StartLoad
  <2>4. CASE ReceiveBatch(d)
    BY <2>4, BatchInTime
  <2>5. CASE ClientStep(d)
    <3>1. client'[d] = Stepped(client[d])
      BY <2>5, <1>1 DEF ClientStep
    <3>2. Stepped(client[d]).attached = client[d].attached
      BY <1>1 DEF Stepped, Client
    <3> QED
      BY <3>1, <3>2
  <2>6. CASE FinishLoad(d)
    BY <2>6, <1>1 DEF FinishLoad, Client
  <2> QED
    BY <2>1, <2>2, <2>3, <2>4, <2>5, <2>6 DEF ClientNext
<1> QED
  BY <1>3, <1>4 DEF Next

\* ClientSimulator and ClientLoadLevelHandler keep every client in lock step with
\* the server: whoever has the recording and all batches after it has applied the
\* same actions at the same steps, for any clients, send intervals and levels.
THEOREM LockStepCorrect == Spec => []ClientsInLockStep
<1>1. IInv /\ LockStepInv => ClientsInLockStep
  BY InLockStep
<1> QED
  BY <1>1, LockStepInvariance, PTL

\* Only before the first batch of its level can a client be beyond the event time
\* of a batch that processComsSimulateMessage gives it.
THEOREM LateCorrect == Spec => LateOnlyBeforeFirstBatch
<1>1. IInv /\ LockStepInv /\ [Next]_vars =>
        [\A d \in Dests :
            client[d].attached /\ ~client'[d].attached =>
                \/ client[d].batchLevel # client[d].level
                \/ Head(toClient[d]).level # client[d].level]_vars
  BY InTimeStep
<1> QED
  BY <1>1, LockStepInvariance, PTL DEF Spec, LateOnlyBeforeFirstBatch
-----------------------------------------------------------------------------
(* The refinement of ReplicatedSimulation. *)

\* What a client applied, it applied before the step its clock shows.
PastInv ==
    \A d \in Dests : \A i \in 1 .. Len(client[d].world) :
        client[d].world[i].at < client[d].time

RefinementInv == IInv /\ LockStepInv /\ PastInv
-----------------------------------------------------------------------------
(* What the clients applied is of the past. *)

LEMMA StepPast ==
    ASSUME NEW c \in Client, \A i \in 1 .. Len(c.world) : c.world[i].at < c.time
    PROVE  /\ Stepped(c).world = c.world \o Fired(c.queue, c.time)
           /\ Stepped(c).time = c.time + 1
           /\ \A i \in 1 .. Len(Stepped(c).world) : Stepped(c).world[i].at < c.time + 1
           /\ \A i \in 1 .. Len(Stepped(c).world) :
                 i <= Len(c.world) \/ Stepped(c).world[i].at = c.time
<1>1. PICK w \in Seq(Entry) : w = c.world
  BY ClientFields
<1>2. PICK q \in Seq(Entry) : q = c.queue
  BY ClientFields
<1>3. PICK t \in Nat : t = c.time
  BY ClientFields
<1>4. PICK a \in Nat : a = Len(w)
  BY LenProperties
<1>5. PICK f \in Seq(Entry) : f = Fired(q, t)
  BY FiredType
<1>6. PICK b \in Nat : b = Len(f)
  BY LenProperties
<1>7. \A i \in 1 .. b : f[i].at = t
  <2>1. Len(f) = Due(q, t) /\ \A i \in 1 .. Due(q, t) : f[i] = [act |-> q[i].act, at |-> t]
    BY <1>5, FiredType
  <2> QED
    BY <2>1, <1>6
<1>8. PICK u : u = w \o f
  OBVIOUS
<1>9. Len(u) = a + b /\ \A i \in 1 .. a + b : u[i] = IF i <= a THEN w[i] ELSE f[i - a]
  BY <1>4, <1>6, <1>8, ConcatProperties
<1>10. \A i \in 1 .. a : w[i].at < t
  BY <1>1, <1>3, <1>4
<1>11. ASSUME NEW i \in 1 .. a + b
       PROVE  u[i].at < t + 1 /\ (i <= a \/ u[i].at = t)
  <2>1. CASE i <= a
    <3>1. u[i] = w[i] /\ w[i].at < t /\ w[i].at \in Nat
      BY <2>1, <1>4, <1>9, <1>10, EntryStamps
    <3> QED
      BY <2>1, <3>1
  <2>2. CASE ~(i <= a)
    <3>1. i - a \in 1 .. b
      BY <2>2
    <3>2. u[i].at = t
      BY <3>1, <2>2, <1>7, <1>9
    <3> QED
      BY <3>2
  <2> QED
    BY <2>1, <2>2
<1>12. Stepped(c).world = u /\ Stepped(c).time = t + 1
  BY <1>1, <1>2, <1>3, <1>5, <1>8 DEF Stepped, Client
<1>13. \A i \in 1 .. Len(u) : u[i].at < t + 1 /\ (i <= a \/ u[i].at = t)
  BY <1>9, <1>11
<1> QED
  BY <1>1, <1>2, <1>3, <1>4, <1>5, <1>8, <1>12, <1>13

LEMMA InitPast == Init => PastInv
BY DEF Init, PastInv, NewClient

LEMMA NextPast == IInv /\ PastInv /\ [Next]_vars => PastInv'
<1> SUFFICES ASSUME IInv, PastInv, [Next]_vars, NEW d \in Dests
             PROVE  \A i \in 1 .. Len(client'[d].world) :
                        client'[d].world[i].at < client'[d].time
  BY DEF PastInv
<1>1. client \in [Dests -> Client]
  BY DEF IInv, TypeOK
<1>2. PICK c \in Client : c = client[d]
  BY <1>1
<1>3. \A i \in 1 .. Len(c.world) : c.world[i].at < c.time
  BY <1>2 DEF PastInv
<1>4. \/ client'[d].world = c.world /\ client'[d].time = c.time
      \/ client'[d].world = <<>>
      \/ client'[d] = Stepped(c)
  <2>1. CASE ServerNext \/ UNCHANGED vars
    <3>1. client' = client
      BY <2>1 DEF ServerNext, AddSimulatorAction, SimulateStep, NewGame, InitializeMod,
                  LevelLoaded, vars
    <3> QED
      BY <3>1, <1>2
  <2>2. CASE \E x \in Dests : ClientNext(x)
    <3>1. PICK x \in Dests : ClientNext(x)
      BY <2>2
    <3>2. CASE x # d
      <4>1. client'[d] = client[d]
        BY <3>1, <3>2, <1>1 DEF ClientNext, ReceiveLoad, ReceiveBatch, ClientStep, FinishLoad
      <4> QED
        BY <4>1, <1>2
    <3>3. CASE x = d
      <4>1. CASE ReceiveLoad(d)
        BY <4>1, <1>1 DEF ReceiveLoad, StartLoad
      <4>2. CASE ReceiveBatch(d)
        <5>1. client'[d] = AddBatch(c, Head(toClient[d]))
          BY <4>2, <1>1, <1>2 DEF ReceiveBatch
        <5> QED
          BY <5>1 DEF AddBatch, Client
      <4>3. CASE ClientStep(d)
        BY <4>3, <1>1, <1>2 DEF ClientStep
      <4>4. CASE FinishLoad(d)
        BY <4>4, <1>1, <1>2 DEF FinishLoad, Client
      <4> QED
        BY <3>1, <3>3, <4>1, <4>2, <4>3, <4>4 DEF ClientNext
    <3> QED
      BY <3>2, <3>3
  <2> QED
    BY <2>1, <2>2 DEF Next
<1>5. CASE client'[d].world = <<>>
  BY <1>5
<1>6. CASE client'[d] = Stepped(c)
  BY <1>3, <1>6, StepPast
<1> QED
  BY <1>3, <1>4, <1>5, <1>6
-----------------------------------------------------------------------------
(* The replicas. *)

\* A replica is what its client shows; a step of the server shows others' only.
LEMMA Shown ==
    /\ \A d \in Dests :
        /\ ClientReplicas[d] = [level |-> client[d].level, clock |-> client[d].time,
                                world |-> client[d].world, attached |-> CaughtUp(d)]
        /\ CaughtUp(d) \in BOOLEAN
    /\ (\A d \in Dests : ClientReplicas'[d] = ClientReplicas[d])
         => ClientReplicas' = ClientReplicas
BY DEF ClientReplicas, CaughtUp

LEMMA ShownNext ==
    \A d \in Dests :
        /\ ClientReplicas'[d] = [level |-> client'[d].level, clock |-> client'[d].time,
                                 world |-> client'[d].world, attached |-> CaughtUp(d)']
        /\ CaughtUp(d)' \in BOOLEAN
BY DEF ClientReplicas, CaughtUp

\* Others see of a client that stays as it is only whether it has caught up.
LEMMA ReplicaKept ==
    ASSUME NEW d \in Dests, client'[d] = client[d], CaughtUp(d)' => CaughtUp(d)
    PROVE  \/ ClientReplicas'[d] = ClientReplicas[d]
           \/ ClientReplicas'[d] = Replicated!Detached(d)
<1>1. PICK c : c = client[d] /\ c = client'[d]
  OBVIOUS
<1>2. CASE CaughtUp(d)' = CaughtUp(d)
  BY <1>1, <1>2, Shown, ShownNext
<1>3. CASE CaughtUp(d)' = FALSE /\ CaughtUp(d) = TRUE
  <2>1. PICK l, t, w : l = c.level /\ t = c.time /\ w = c.world
    OBVIOUS
  <2>2. PICK old, new : old = ClientReplicas[d] /\ new = ClientReplicas'[d]
    OBVIOUS
  <2>3. new = [level |-> l, clock |-> t, world |-> w, attached |-> FALSE]
    BY <1>1, <1>3, <2>1, <2>2, ShownNext
  <2>4. old = [level |-> l, clock |-> t, world |-> w, attached |-> TRUE]
    BY <1>1, <1>3, <2>1, <2>2, Shown
  <2>5. old.level = l /\ old.clock = t /\ old.world = w
    BY <2>4
  <2>6. new = [level |-> old.level, clock |-> old.clock, world |-> old.world,
               attached |-> FALSE]
    BY <2>3, <2>5
  <2> QED
    BY <2>2, <2>6 DEF Replicated!Detached
<1> QED
  BY <1>2, <1>3, Shown, ShownNext

LEMMA NotShown ==
    ASSUME NEW d \in Dests, ~CaughtUp(d)'
    PROVE  ~ClientReplicas'[d].attached
<1>1. CaughtUp(d)' = FALSE
  BY ShownNext
<1>2. ClientReplicas'[d] = [level |-> client'[d].level, clock |-> client'[d].time,
                            world |-> client'[d].world, attached |-> FALSE]
  BY <1>1, ShownNext
<1>3. ClientReplicas'[d].attached = FALSE
  BY <1>2
<1> QED
  BY <1>3

LEMMA NothingShown ==
    ASSUME UNCHANGED <<client, log>>
    PROVE  UNCHANGED ClientReplicas
BY DEF ClientReplicas, CaughtUp, UpToDate

\* Any step that shows only one replica.
LEMMA OneReplica ==
    ASSUME NEW d \in Dests, UNCHANGED <<level, currentTime, log>>,
           \A x \in Dests : x # d => client'[x] = client[x],
           \/ ClientReplicas'[d] = ClientReplicas[d]
           \/ ~ClientReplicas'[d].attached
           \/ Replicated!Attach(d)
           \/ Replicated!Step(d)
    PROVE  [Replicated!Next]_(Replicated!vars)
<1>1. ASSUME NEW x \in Dests, x # d
      PROVE  ClientReplicas'[x] = ClientReplicas[x]
  <2>1. client'[x] = client[x] /\ log' = log
    BY <1>1
  <2>2. CaughtUp(x)' = CaughtUp(x)
    BY <2>1 DEF CaughtUp, UpToDate
  <2> QED
    BY <2>1, <2>2, Shown, ShownNext
<1>2. CASE ClientReplicas'[d] = ClientReplicas[d]
  <2>1. \A x \in Dests : ClientReplicas'[x] = ClientReplicas[x]
    BY <1>1, <1>2
  <2>2. UNCHANGED ClientReplicas
    BY <2>1, Shown
  <2> QED
    BY <2>2 DEF Replicated!vars
<1>3. CASE \/ ~ClientReplicas'[d].attached
           \/ Replicated!Attach(d)
           \/ Replicated!Step(d)
  <2>1. Replicated!Attach(d) \/ Replicated!Step(d) \/ Replicated!Stray(d)
    BY <1>3 DEF Replicated!Stray
  <2>2. Replicated!Replica
    BY <2>1, <1>1 DEF Replicated!Replica
  <2> QED
    BY <2>2 DEF Replicated!Next
<1> QED
  BY <1>2, <1>3
-----------------------------------------------------------------------------
(* The steps of a client. *)

LEMMA ReceiveLoadRefined ==
    ASSUME RefinementInv, NEW d \in Dests, ReceiveLoad(d)
    PROVE  [Replicated!Next]_(Replicated!vars)
<1>1. PICK q \in Seq(Load \cup Batch) : q = toClient[d]
  BY ConnectionTypes DEF RefinementInv
<1>2. PICK m : m = Head(q)
  OBVIOUS
<1>3. q # <<>> /\ m \in Load \cup Batch
  BY <1>1, <1>2, HeadTailProperties DEF ReceiveLoad, RECEIVE, Reading
<1>4. q[1] = m /\ Len(q) > 0
  <2>1. Len(q) \in Nat /\ Len(q) # 0
    BY <1>3, LenProperties, EmptySeq
  <2> QED
    BY <2>1, <1>2, <1>3, HeadTailProperties
<1>5. m.level \in 1 .. level
  <2>1. Messages(q, level, nextEventTime, currentTime, log)
    BY <1>1 DEF RefinementInv, LockStepInv, Connection
  <2>2. 1 \in 1 .. Len(q)
    BY <1>4, LenProperties
  <2>3. m.level <= level
    BY <2>1, <2>2, <1>4 DEF Messages
  <2> QED
    BY <2>3, <1>3, MessageFields, ConnectionTypes, BoundsAssumption DEF RefinementInv
<1>6. PICK l \in 1 .. MaxLevel : l = m.level
  BY <1>3, MessageFields
<1>7. client \in [Dests -> Client] /\ log[l] \in Seq(Entry)
  BY DEF RefinementInv, IInv, TypeOK
<1>8. /\ client' = [client EXCEPT ![d] = StartLoad(client[d], m)]
      /\ UNCHANGED server
  BY <1>1, <1>2 DEF ReceiveLoad
<1>9. client'[d] = StartLoad(client[d], m)
  BY <1>7, <1>8
<1>10. /\ client'[d].level = l /\ client'[d].time = 0 /\ client'[d].world = <<>>
       /\ client'[d].attached
  BY <1>6, <1>9 DEF StartLoad
<1>11. UNCHANGED <<level, currentTime, log>>
  BY <1>8 DEF server
<1>12. UpToDate(<<>>, l, 0)
  <2>1. \A i \in 1 .. Len(log[l]) : log[l][i].at \in Nat
    BY <1>7, EntryStamps
  <2> QED
    BY <2>1 DEF UpToDate
<1>13. CaughtUp(d)' = TRUE
  BY <1>10, <1>11, <1>12 DEF CaughtUp, UpToDate
<1>14. ClientReplicas'[d] = [level |-> l, clock |-> 0, world |-> <<>>, attached |-> TRUE]
  BY <1>10, <1>13, ShownNext
<1>15. Replicated!Attach(d)
  BY <1>5, <1>6, <1>14 DEF Replicated!Attach
<1>16. \A x \in Dests : x # d => client'[x] = client[x]
  BY <1>7, <1>8
<1> QED
  BY <1>11, <1>15, <1>16, OneReplica

\* A batch that a client can use finds it where its clock is.
LEMMA ReceiveBatchRefined ==
    ASSUME RefinementInv, NEW d \in Dests, ReceiveBatch(d)
    PROVE  [Replicated!Next]_(Replicated!vars)
<1>1. PICK q \in Seq(Load \cup Batch) : q = toClient[d]
  BY ConnectionTypes DEF RefinementInv
<1>2. PICK c \in Client : c = client[d]
  BY ConnectionTypes DEF RefinementInv
<1>3. PICK m : m = Head(q)
  OBVIOUS
<1>4. q # <<>> /\ m.type = "batch" /\ m \in Load \cup Batch
  BY <1>1, <1>3, HeadTailProperties DEF ReceiveBatch, RECEIVE, Reading
<1>5. q[1] = m /\ Len(q) > 0
  <2>1. Len(q) \in Nat /\ Len(q) # 0
    BY <1>4, LenProperties, EmptySeq
  <2> QED
    BY <2>1, <1>3, <1>4, HeadTailProperties
<1>6. client \in [Dests -> Client]
  BY DEF RefinementInv, IInv, TypeOK
<1>7. /\ client' = [client EXCEPT ![d] = AddBatch(c, m)]
      /\ UNCHANGED server
  BY <1>1, <1>2, <1>3 DEF ReceiveBatch
<1>8. PICK n : n = AddBatch(c, m)
  OBVIOUS
<1>9. /\ n.level = c.level /\ n.time = c.time /\ n.world = c.world
      /\ n.batchLevel = m.level
      /\ n.attached = (c.attached /\ m.level = c.level /\ c.time <= m.event)
  BY <1>8 DEF AddBatch, Client
<1>10. client'[d] = n
  BY <1>6, <1>7, <1>8
<1>11. UNCHANGED <<level, currentTime, log>>
  BY <1>7 DEF server
<1>12. \A x \in Dests : x # d => client'[x] = client[x]
  BY <1>6, <1>7
<1>13. CASE ~n.attached
  <2>1. ~CaughtUp(d)'
    BY <1>10, <1>13 DEF CaughtUp, UpToDate
  <2>2. ~ClientReplicas'[d].attached
    BY <2>1, NotShown
  <2> QED
    BY <2>2, <1>11, <1>12, OneReplica
<1>14. CASE n.attached
  <2>1. c.attached /\ m.level = c.level /\ c.time <= m.event
    BY <1>9, <1>14
  <2>2. Connection(q, c, level, nextEventTime, currentTime, LoadedClient(d), log)
    BY <1>1, <1>2 DEF RefinementInv, LockStepInv
  <2>3. c.level \in 1 .. level
    BY <2>1, <2>2 DEF Connection, InStep
  <2>4. PICK l \in 1 .. MaxLevel : l = c.level
    BY <2>1, <1>4, MessageFields
  <2>5. log[l] \in Seq(Entry)
    BY DEF RefinementInv, IInv, TypeOK
  <2>6. c.batchLevel = l \/ UpToDate(c.world, l, c.time)
    <3>1. CASE c.batchLevel # l
      <4>1. Follows(log[l], 0, m)
        BY <3>1, <2>1, <2>2, <2>4, <1>5 DEF Connection, InARow, Heard
      <4>2. \A i \in 1 .. Len(log[l]) : log[l][i].at <= 0 \/ log[l][i].at >= m.event
        BY <4>1, <1>4 DEF Follows
      <4>3. \A i \in 1 .. Len(log[l]) : log[l][i].at > 0 /\ log[l][i].at \in Nat
        BY <2>5, EntryStamps DEF RefinementInv, LockStepInv, LogInv
      <4>4. PICK t \in Nat : t = c.time
        BY ClientFields
      <4>5. PICK e \in Nat : e = m.event
        BY <1>4, MessageFields
      <4>6. t <= e
        BY <2>1, <4>4, <4>5
      <4>7. \A i \in 1 .. Len(log[l]) : ~(log[l][i].at < t)
        BY <4>2, <4>3, <4>5, <4>6
      <4> QED
        BY <4>4, <4>7 DEF UpToDate
    <3> QED
      BY <3>1
  <2>7. CaughtUp(d) = TRUE
    BY <2>1, <2>3, <2>4, <2>6, <1>2 DEF CaughtUp
  <2>8. n.batchLevel = n.level /\ n.level > 0
    BY <2>1, <2>4, <1>9
  <2>9. CaughtUp(d)' = TRUE
    BY <2>8, <1>10, <1>14 DEF CaughtUp
  <2>10. ClientReplicas'[d] = ClientReplicas[d]
    BY <2>7, <2>9, <1>2, <1>9, <1>10, Shown, ShownNext
  <2> QED
    BY <2>10, <1>11, <1>12, OneReplica
<1> QED
  BY <1>13, <1>14

\* A client that did a step and has caught up had caught up before, and is where
\* its clock is.
LEMMA StepShown ==
    ASSUME NEW c \in Client, NEW l \in 1 .. MaxLevel, log[l] \in Seq(Entry),
           Sorted(log[l]), Attached(c, log[l]), c.level = l, c.time < c.waiting,
           \A i \in 1 .. Len(c.world) : c.world[i].at < c.time,
           c.batchLevel = l \/ UpToDate(Stepped(c).world, l, c.time + 1)
    PROVE  /\ c.batchLevel = l \/ UpToDate(c.world, l, c.time)
           /\ Replicated!AtClock(Stepped(c).world, l, c.time + 1)
<1>1. PICK s \in Seq(Entry) : s = log[l]
  OBVIOUS
<1>2. PICK w \in Seq(Entry) : w = c.world
  BY ClientFields
<1>3. PICK t \in Nat : t = c.time
  BY ClientFields
<1>4. PICK a \in Nat : a = Len(w)
  BY LenProperties
<1>5. PICK n \in Client : n = Stepped(c)
  <2>1. c.queue \in Seq(Entry) /\ c.world \in Seq(Entry) /\ c.time \in Nat
    BY ClientFields
  <2>2. NotFired(c.queue, c.time) \in Seq(Entry) /\ Fired(c.queue, c.time) \in Seq(Entry)
    BY <2>1, FiredType
  <2>3. c.world \o Fired(c.queue, c.time) \in Seq(Entry) /\ c.time + 1 \in Nat
    BY <2>1, <2>2, ConcatProperties
  <2>4. Stepped(c) \in Client
    BY <2>2, <2>3 DEF Stepped, Client
  <2> QED
    BY <2>4
<1>6. /\ n.level = l /\ n.batchLevel = c.batchLevel /\ n.time = t + 1
  BY <1>3, <1>5 DEF Stepped, Client
<1>7. PICK u \in Seq(Entry) : u = n.world
  BY ClientFields
<1>8. PICK b \in Nat : b = Len(u)
  BY LenProperties
<1>9. PICK k \in Nat : k = Len(s)
  BY LenProperties
<1>10. \A i \in 1 .. b : u[i].at < t + 1 /\ (i <= a \/ u[i].at = t)
  BY <1>2, <1>3, <1>4, <1>5, <1>7, <1>8, StepPast
<1>11. Attached(n, log[l])
  BY <1>5, AttachedStep
<1>12. AppliedAsSent(u, l) /\ (n.batchLevel = l => UpToDate(u, l, n.time))
  BY <1>6, <1>7, <1>11, AttachedApplied
<1>13. b <= k /\ \A i \in 1 .. b : u[i] = s[i]
  BY <1>1, <1>8, <1>9, <1>12 DEF AppliedAsSent
<1>14. UpToDate(u, l, t + 1)
  BY <1>3, <1>5, <1>6, <1>7, <1>12
<1>15. \A i \in 1 .. k : s[i].at < t + 1 => i <= b
  BY <1>1, <1>8, <1>9, <1>14 DEF UpToDate
<1>16. \A i \in 1 .. k : i <= b => s[i].at < t + 1
  BY <1>10, <1>13
<1>17. Replicated!AtClock(u, l, t + 1)
  BY <1>1, <1>8, <1>9, <1>13, <1>15, <1>16 DEF Replicated!AtClock
<1>18. UpToDate(w, l, t)
  <2>1. ASSUME NEW i \in 1 .. k, s[i].at < t
        PROVE  i <= a
    <3>1. s[i].at \in Nat
      BY <1>9, EntryStamps
    <3>2. i <= b
      BY <3>1, <2>1, <1>15
    <3>3. i \in 1 .. b
      BY <3>2
    <3>4. u[i] = s[i] /\ (i <= a \/ u[i].at = t)
      BY <3>3, <1>10, <1>13
    <3>5. s[i].at # t
      BY <3>1, <2>1
    <3> QED
      BY <3>4, <3>5
  <2> QED
    BY <2>1, <1>1, <1>4, <1>9 DEF UpToDate
<1> QED
  BY <1>2, <1>3, <1>5, <1>7, <1>17, <1>18

LEMMA ClientStepRefined ==
    ASSUME RefinementInv, NEW d \in Dests, ClientStep(d)
    PROVE  [Replicated!Next]_(Replicated!vars)
<1>1. client \in [Dests -> Client] /\ log \in [1 .. MaxLevel -> Seq(Entry)]
  BY DEF RefinementInv, IInv, TypeOK
<1>2. PICK c \in Client : c = client[d]
  BY <1>1
<1>3. PICK n : n = Stepped(c)
  OBVIOUS
<1>4. /\ client'[d] = n /\ c.time < c.waiting
      /\ \A x \in Dests : x # d => client'[x] = client[x]
      /\ UNCHANGED server
  BY <1>1, <1>2, <1>3 DEF ClientStep, ContinueToSimulate
<1>5. UNCHANGED <<level, currentTime, log>>
  BY <1>4 DEF server
<1>6. /\ n.level = c.level /\ n.batchLevel = c.batchLevel /\ n.attached = c.attached
      /\ n.time = c.time + 1
  BY <1>3 DEF Stepped, Client
<1>7. CASE ~CaughtUp(d)'
  <2>1. ~ClientReplicas'[d].attached
    BY <1>7, NotShown
  <2> QED
    BY <2>1, <1>4, <1>5, OneReplica
<1>8. CASE CaughtUp(d)'
  <2>1. /\ c.attached /\ c.level > 0
        /\ c.batchLevel = c.level \/ UpToDate(n.world, c.level, c.time + 1)
    BY <1>4, <1>5, <1>6, <1>8 DEF CaughtUp, UpToDate
  <2>2. c.level \in 1 .. level /\ Attached(c, log[c.level])
    BY <2>1, <1>2 DEF RefinementInv, LockStepInv, Connection, InStep
  <2>3. PICK l \in 1 .. MaxLevel : l = c.level
    <3>1. level \in 1 .. MaxLevel
      BY ConnectionTypes DEF RefinementInv
    <3> QED
      BY <3>1, <2>2, BoundsAssumption
  <2>4. log[l] \in Seq(Entry) /\ Sorted(log[l])
    BY <1>1 DEF RefinementInv, LockStepInv, LogInv
  <2>5. \A i \in 1 .. Len(c.world) : c.world[i].at < c.time
    BY <1>2 DEF RefinementInv, PastInv
  <2>6. /\ c.batchLevel = l \/ UpToDate(c.world, l, c.time)
        /\ Replicated!AtClock(n.world, l, c.time + 1)
    BY <1>3, <1>4, <2>1, <2>2, <2>3, <2>4, <2>5, StepShown
  <2>7. CaughtUp(d) = TRUE
    BY <2>1, <2>3, <2>6, <1>2 DEF CaughtUp
  <2>8. CaughtUp(d)' = TRUE
    BY <1>8, ShownNext
  <2>9. ClientReplicas[d] = [level |-> l, clock |-> c.time, world |-> c.world,
                             attached |-> TRUE]
    BY <2>3, <2>7, <1>2, Shown
  <2>10. ClientReplicas'[d] = [level |-> l, clock |-> c.time + 1, world |-> n.world,
                               attached |-> TRUE]
    BY <2>3, <2>8, <1>4, <1>6, ShownNext
  <2>11. Replicated!Step(d)
    <3>1. PICK old : old = ClientReplicas[d]
      OBVIOUS
    <3>2. PICK new : new = ClientReplicas'[d]
      OBVIOUS
    <3>3. new = [level |-> old.level, clock |-> old.clock + 1, world |-> new.world,
                 attached |-> TRUE]
      BY <3>1, <3>2, <2>9, <2>10
    <3>4. /\ old.level = l /\ old.clock = c.time /\ old.attached = TRUE
          /\ new.world = n.world
      BY <3>1, <3>2, <2>9, <2>10
    <3> QED
      BY <3>1, <3>2, <3>3, <3>4, <2>6 DEF Replicated!Step
  <2> QED
    BY <2>11, <1>4, <1>5, OneReplica
<1> QED
  BY <1>7, <1>8

LEMMA FinishLoadRefined ==
    ASSUME RefinementInv, NEW d \in Dests, FinishLoad(d)
    PROVE  [Replicated!Next]_(Replicated!vars)
<1>1. client \in [Dests -> Client]
  BY DEF RefinementInv, IInv, TypeOK
<1>2. PICK c \in Client : c = client[d]
  BY <1>1
<1>3. PICK n : n = client'[d]
  OBVIOUS
<1>4. /\ n.level = c.level /\ n.batchLevel = c.batchLevel /\ n.attached = c.attached
      /\ n.time = c.time /\ n.world = c.world
  BY <1>1, <1>2, <1>3 DEF FinishLoad, Client
<1>5. UNCHANGED server /\ \A x \in Dests : x # d => client'[x] = client[x]
  BY <1>1 DEF FinishLoad
<1>6. UNCHANGED <<level, currentTime, log>>
  BY <1>5 DEF server
<1>7. CaughtUp(d)' <=> CaughtUp(d)
  BY <1>2, <1>3, <1>4, <1>6 DEF CaughtUp, UpToDate
<1>8. CaughtUp(d)' = CaughtUp(d)
  BY <1>7, Shown, ShownNext
<1>9. ClientReplicas'[d] = ClientReplicas[d]
  BY <1>2, <1>3, <1>4, <1>8, Shown, ShownNext
<1> QED
  BY <1>5, <1>6, <1>9, OneReplica
-----------------------------------------------------------------------------
(* The steps of the server. *)

LEMMA NewGameRefined ==
    ASSUME RefinementInv, NewGame
    PROVE  [Replicated!Next]_(Replicated!vars)
<1>1. level' = level + 1 /\ currentTime' = 0 /\ UNCHANGED <<log, client>>
  BY DEF NewGame
<1>2. UNCHANGED ClientReplicas
  BY <1>1, NothingShown
<1> QED
  BY <1>1, <1>2 DEF Replicated!Next, Replicated!NewLevel

LEMMA NoSendRefined ==
    ASSUME RefinementInv, SimulateStep, NoSend
    PROVE  [Replicated!Next]_(Replicated!vars)
<1>1. level' = level /\ currentTime' = currentTime + 1 /\ UNCHANGED <<log, client>>
  BY DEF SimulateStep, NoSend
<1>2. UNCHANGED ClientReplicas
  BY <1>1, NothingShown
<1>3. PICK s \in Seq(Entry) : s = log[level]
  BY DEF RefinementInv, IInv, TypeOK
<1>4. PICK n \in Nat : n = Len(s)
  BY LenProperties
<1>5. Replicated!Extends(s, s)
  BY <1>4, SubSeqFull DEF Replicated!Extends
<1>6. \A i \in n + 1 .. n : FALSE
  OBVIOUS
<1>7. Replicated!Advance
  BY <1>1, <1>2, <1>3, <1>4, <1>5, <1>6 DEF Replicated!Advance
<1> QED
  BY <1>7 DEF Replicated!Next

\* Sending schedules actions beyond the clock of the server and of every client
\* that has caught up.
LEMMA SendRefined ==
    ASSUME RefinementInv, SimulateStep, Send
    PROVE  [Replicated!Next]_(Replicated!vars)
<1>1. PICK event \in Nat : event = nextEventTime' /\ nextEventTime < event
  <2>1. sendStepSize' \in StepSizes /\ nextEventTime' = nextEventTime + sendStepSize'
    BY DEF Send
  <2>2. \A k \in StepSizes : k \in Nat /\ k > 0
    BY StepsAssumption
  <2>3. PICK k \in Nat : k = sendStepSize' /\ k > 0
    BY <2>1, <2>2
  <2>4. PICK t \in Nat : t = nextEventTime
    BY ConnectionTypes DEF RefinementInv, IInv, TypeOK
  <2>5. k > 0
    BY <2>3
  <2>6. t + k \in Nat /\ t < t + k
    BY <2>5
  <2>7. t + k = nextEventTime'
    BY <2>1, <2>3, <2>4
  <2> QED
    BY <2>4, <2>6, <2>7
<1>2. PICK e : e = EntriesAt(sendActions, event)
  OBVIOUS
<1>3. /\ level' = level /\ currentTime' = currentTime + 1 /\ UNCHANGED client
      /\ log' = [log EXCEPT ![level] = @ \o e]
  BY <1>1, <1>2 DEF SimulateStep, Send
<1>4. /\ log \in [1 .. MaxLevel -> Seq(Entry)] /\ level \in 1 .. MaxLevel
      /\ sendActions \in Seq(Action) /\ currentTime \in Nat /\ nextEventTime \in Nat
      /\ client \in [Dests -> Client]
  BY DEF RefinementInv, IInv, TypeOK
<1>5. e \in Seq(Entry) /\ \A i \in 1 .. Len(e) : e[i].at = event
  <2>1. Len(e) = Len(sendActions)
        /\ \A i \in 1 .. Len(sendActions) : e[i].at = event
    BY <1>2, <1>4, EntriesAtType
  <2> QED
    BY <2>1, <1>2, <1>4, EntriesAtType
<1>6. PICK s \in Seq(Entry) : s = log[level]
  BY <1>4
<1>7. PICK a \in Nat : a = Len(s)
  BY LenProperties
<1>8. PICK b \in Nat : b = Len(e)
  BY LenProperties
<1>9. PICK u \in Seq(Entry) : u = s \o e
  BY <1>5, ConcatProperties
<1>10. /\ Len(u) = a + b
       /\ \A i \in 1 .. a + b : u[i] = IF i <= a THEN s[i] ELSE e[i - a]
  BY <1>5, <1>7, <1>8, <1>9, ConcatProperties
<1>11. /\ \A i \in 1 .. a : u[i] = s[i]
       /\ \A i \in a + 1 .. a + b : u[i].at = event
  <2>1. \A i \in 1 .. a : u[i] = s[i]
    BY <1>10
  <2>2. ASSUME NEW i \in a + 1 .. a + b
        PROVE  u[i].at = event
    <3>1. i - a \in 1 .. b /\ ~(i <= a) /\ i \in 1 .. a + b
      OBVIOUS
    <3>2. u[i] = e[i - a]
      BY <3>1, <1>10
    <3> QED
      BY <3>1, <3>2, <1>5, <1>8
  <2> QED
    BY <2>1, <2>2
<1>12. /\ log'[level] = u
       /\ \A l \in 1 .. MaxLevel : l # level => log'[l] = log[l]
  BY <1>3, <1>4, <1>6, <1>9
<1>13. Replicated!Extends(u, s)
  <2>1. SubSeq(u, 1, a) = s
    <3>1. PICK v \in Seq(Entry) : v = SubSeq(u, 1, a)
      <4>1. \A i \in 1 .. a : u[i] \in Entry
        BY <1>10, ElementOfSeq
      <4>2. SubSeq(u, 1, a) \in Seq(Entry)
        BY <4>1, SubSeqProperties
      <4> QED
        BY <4>2
    <3>2. Len(v) = a /\ \A i \in 1 .. a : v[i] = s[i]
      <4>1. \A i \in 1 .. a : u[i] \in Entry
        BY <1>10, ElementOfSeq
      <4>2. /\ Len(v) = IF 1 <= a THEN a - 1 + 1 ELSE 0
            /\ \A i \in 1 .. a - 1 + 1 : v[i] = u[1 + i - 1]
        BY <3>1, <4>1, SubSeqProperties
      <4>3. a - 1 + 1 = a /\ (IF 1 <= a THEN a ELSE 0) = a /\ \A i \in 1 .. a : 1 + i - 1 = i
        OBVIOUS
      <4>4. \A i \in 1 .. a : v[i] = u[i]
        BY <4>2, <4>3
      <4> QED
        BY <4>2, <4>3, <4>4, <1>11
    <3> QED
      BY <3>1, <3>2, <1>7, SeqEqual
  <2> QED
    BY <2>1, <1>7, <1>10 DEF Replicated!Extends
<1>14. ASSUME NEW d \in Dests
       PROVE  /\ ClientReplicas'[d] = ClientReplicas[d]
                 \/ ClientReplicas'[d] = Replicated!Detached(d)
              /\ CaughtUp(d)' /\ client[d].level = level /\ b > 0 => client[d].time <= event
  <2>1. PICK c \in Client : c = client[d] /\ c = client'[d]
    BY <1>3, <1>4
  <2>2. InStep(c, level, nextEventTime, currentTime, log)
    BY <2>1 DEF RefinementInv, LockStepInv, Connection
  <2>3. CASE c.attached /\ c.level = level
    <3>1. PICK t \in Nat : t = c.time
      BY ClientFields
    <3>2. PICK w \in Seq(Entry) : w = c.world
      BY ClientFields
    <3>3. PICK k \in Nat : k = Len(w)
      BY LenProperties
    <3>4. k <= a
      <4>1. PartOf(s, 0, w)
        BY <2>2, <2>3, <3>2, <1>6 DEF InStep, Attached
      <4> QED
        BY <4>1, <3>3, <1>7 DEF PartOf
    <3>5. UpToDate(w, level, t) <=> \A i \in 1 .. a : s[i].at < t => i <= k
      BY <3>3, <1>6, <1>7 DEF UpToDate
    <3>6. CaughtUp(d) <=> c.batchLevel = level \/ \A i \in 1 .. a : s[i].at < t => i <= k
      BY <2>1, <2>3, <3>1, <3>2, <3>5, <1>4 DEF CaughtUp
    <3>7. CaughtUp(d)' <=> c.batchLevel = level
                            \/ \A i \in 1 .. a + b : u[i].at < t => i <= k
      BY <2>1, <2>3, <3>1, <3>2, <3>3, <1>4, <1>10, <1>12 DEF CaughtUp, UpToDate
    <3>8. CaughtUp(d)' => CaughtUp(d)
      <4>1. \A i \in 1 .. a : i \in 1 .. a + b
        OBVIOUS
      <4> QED
        BY <4>1, <3>6, <3>7, <1>11
    <3>9. CaughtUp(d)' /\ b > 0 => t <= event
      <4>1. CASE c.batchLevel = level
        <5>1. PICK h \in Nat : h = c.waiting
          BY ClientFields
        <5>2. t <= h
          BY <4>1, <5>1, <2>2, <2>3, <3>1 DEF InStep, Attached
        <5>3. h <= nextEventTime
          BY <4>1, <5>1, <2>2 DEF InStep
        <5>4. PICK x \in Nat : x = nextEventTime
          BY <1>4
        <5>5. x < event
          BY <1>1, <5>4
        <5>6. h <= x
          BY <5>3, <5>4
        <5> QED
          BY <5>2, <5>5, <5>6
      <4>2. CASE c.batchLevel # level
        <5>1. ASSUME CaughtUp(d)', b > 0, event < t
              PROVE  FALSE
          <6>1. \A i \in 1 .. a + b : u[i].at < t => i <= k
            BY <4>2, <5>1, <3>7
          <6>2. a + b \in a + 1 .. a + b /\ a + b \in 1 .. a + b /\ ~(a + b <= k)
            BY <5>1, <3>4
          <6>3. u[a + b].at < t
            BY <5>1, <6>2, <1>11
          <6> QED
            BY <6>1, <6>2, <6>3
        <5> QED
          BY <5>1
      <4> QED
        BY <4>1, <4>2
    <3>10. ClientReplicas'[d] = ClientReplicas[d]
              \/ ClientReplicas'[d] = Replicated!Detached(d)
      BY <2>1, <3>8, ReplicaKept
    <3> QED
      BY <2>1, <3>1, <3>9, <3>10
  <2>4. CASE ~(c.attached /\ c.level = level)
    <3>1. CaughtUp(d)' => CaughtUp(d)
      <4>1. CASE ~c.attached
        BY <4>1, <2>1 DEF CaughtUp, UpToDate
      <4>2. CASE c.attached /\ c.level # level
        <5>1. c.level \in 1 .. level
          BY <4>2, <2>2 DEF InStep
        <5>2. PICK l \in 1 .. MaxLevel : l = c.level
          BY <5>1, <1>4, BoundsAssumption
        <5>3. log'[l] = log[l]
          BY <4>2, <5>2, <1>12
        <5> QED
          BY <2>1, <5>2, <5>3 DEF CaughtUp, UpToDate
      <4> QED
        BY <4>1, <4>2, <2>4
    <3>2. ~(CaughtUp(d)' /\ client[d].level = level)
      BY <2>1, <2>4 DEF CaughtUp, UpToDate
    <3>3. ClientReplicas'[d] = ClientReplicas[d]
             \/ ClientReplicas'[d] = Replicated!Detached(d)
      BY <2>1, <3>1, ReplicaKept
    <3> QED
      BY <3>2, <3>3
  <2> QED
    BY <2>3, <2>4
<1>15. ASSUME NEW i \in a + 1 .. a + b
       PROVE  /\ u[i].at > currentTime
              /\ \A d \in Dests : ClientReplicas'[d].attached /\ ClientReplicas[d].level = level
                                   => ClientReplicas[d].clock <= u[i].at
  <2>1. u[i].at = event /\ b > 0
    BY <1>11
  <2>2. currentTime < event
    <3>1. PICK t \in Nat, x \in Nat, y \in Nat :
             t = currentTime /\ x = nextSendTime /\ y = nextEventTime
      BY DEF RefinementInv, IInv, TypeOK
    <3>2. t <= x /\ x < y
      BY <3>1 DEF RefinementInv, IInv, ScheduleInv
    <3>3. y < event
      BY <3>1, <1>1
    <3> QED
      BY <3>1, <3>2, <3>3
  <2>3. ASSUME NEW d \in Dests, ClientReplicas'[d].attached, ClientReplicas[d].level = level
        PROVE  ClientReplicas[d].clock <= event
    <3>1. CaughtUp(d)'
      BY <2>3, NotShown
    <3>2. client[d].level = level /\ ClientReplicas[d].clock = client[d].time
      <4>1. PICK x : ClientReplicas[d] = [level |-> client[d].level, clock |-> client[d].time,
                                          world |-> client[d].world, attached |-> x]
        BY Shown
      <4> QED
        BY <4>1, <2>3
    <3> QED
      BY <3>1, <3>2, <2>1, <1>14
  <2> QED
    BY <2>1, <2>2, <2>3
<1>16. Replicated!Advance
  <2>1. \A d \in Dests :
          ClientReplicas'[d] \in {ClientReplicas[d],
                                 Replicated!Detached(d)}
    BY <1>14
  <2>2. \A l \in 1 .. MaxLevel \ {level} : log'[l] = log[l]
    BY <1>12
  <2>3. Len(log[level]) = a /\ Len(log'[level]) = a + b /\ log[level] = s /\ log'[level] = u
    BY <1>6, <1>7, <1>10, <1>12
  <2> QED
    BY <1>3, <1>13, <1>15, <2>1, <2>2, <2>3 DEF Replicated!Advance
<1> QED
  BY <1>16 DEF Replicated!Next
-----------------------------------------------------------------------------
(* The theorems. *)

LEMMA InitRefined == Init => Replicated!Init
<1> SUFFICES ASSUME Init PROVE Replicated!Init
  OBVIOUS
<1>1. level = 1 /\ currentTime = 0 /\ log = [l \in 1 .. MaxLevel |-> <<>>]
  BY DEF Init
<1>2. ASSUME NEW d \in Dests
      PROVE  ~ClientReplicas[d].attached
  <2>1. client[d].attached = FALSE
    BY DEF Init, NewClient
  <2>2. CaughtUp(d) = FALSE
    BY <2>1 DEF CaughtUp, UpToDate
  <2>3. ClientReplicas[d] = [level |-> client[d].level, clock |-> client[d].time,
                             world |-> client[d].world, attached |-> FALSE]
    BY <2>2, Shown
  <2>4. ClientReplicas[d].attached = FALSE
    BY <2>3
  <2> QED
    BY <2>4
<1> QED
  BY <1>1, <1>2 DEF Replicated!Init

LEMMA NextRefined ==
    RefinementInv /\ [Next]_vars => [Replicated!Next]_(Replicated!vars)
<1> SUFFICES ASSUME RefinementInv, [Next]_vars
             PROVE  [Replicated!Next]_(Replicated!vars)
  OBVIOUS
<1>1. CASE UNCHANGED <<level, currentTime, log, client>>
  <2>1. UNCHANGED ClientReplicas
    BY <1>1, NothingShown
  <2> QED
    BY <1>1, <2>1 DEF Replicated!vars
<1>2. CASE \/ AddSimulatorAction
           \/ \E d \in Dests : InitializeMod(d) \/ LevelLoaded(d)
           \/ UNCHANGED vars
  <2>1. UNCHANGED <<level, currentTime, log, client>>
    BY <1>2 DEF AddSimulatorAction, InitializeMod, LevelLoaded, vars, server
  <2> QED
    BY <1>1, <2>1
<1>3. CASE SimulateStep
  <2>1. Send \/ NoSend
    BY <1>3 DEF SimulateStep
  <2> QED
    BY <1>3, <2>1, SendRefined, NoSendRefined
<1>4. CASE NewGame
  BY <1>4, NewGameRefined
<1>5. ASSUME NEW d \in Dests, ClientNext(d)
      PROVE  [Replicated!Next]_(Replicated!vars)
  BY <1>5, ReceiveLoadRefined, ReceiveBatchRefined, ClientStepRefined, FinishLoadRefined
     DEF ClientNext
<1> QED
  BY <1>2, <1>3, <1>4, <1>5 DEF Next, ServerNext

\* The clients' past on top of the invariants of the server and the connections.
THEOREM RefinementInvariance == Spec => []RefinementInv
<1>1. Init => PastInv
  BY InitPast
<1>2. (IInv /\ LockStepInv) /\ PastInv /\ [Next]_vars => PastInv'
  BY NextPast
<1>3. Spec => []PastInv
  BY <1>1, <1>2, LockStepInvariance, PTL DEF Spec
<1> QED
  BY <1>3, LockStepInvariance, PTL DEF RefinementInv

\* The server, the recording, the connections and the clients behave as one
\* authority with replicas: every step of LevelSync is one of the abstract
\* simulation, or changes nothing that it shows.
THEOREM Refinement == Spec => ImplementsReplicated
<1>1. Spec => Init /\ [][Next]_vars
  BY DEF Spec
<1> QED
  BY <1>1, InitRefined, NextRefined, RefinementInvariance, PTL
     DEF ImplementsReplicated, Replicated!Spec

\* Every client that the abstract simulation calls attached has applied what was
\* sent before the step its clock shows, and nothing else.
THEOREM ReplicasAtClock == Spec => []Replicated!AttachedInStep
<1>1. RefinementInv => Replicated!AttachedInStep
  <2> SUFFICES ASSUME RefinementInv, NEW d \in Dests, ClientReplicas[d].attached
               PROVE  Replicated!AtClock(ClientReplicas[d].world, ClientReplicas[d].level,
                                         ClientReplicas[d].clock)
    BY DEF Replicated!AttachedInStep
  <2>1. PICK c \in Client : c = client[d]
    BY ConnectionTypes DEF RefinementInv
  <2>2. CaughtUp(d)
    <3>1. CASE CaughtUp(d) = FALSE
      <4>1. ClientReplicas[d] = [level |-> client[d].level, clock |-> client[d].time,
                                 world |-> client[d].world, attached |-> FALSE]
        BY <3>1, Shown
      <4>2. ClientReplicas[d].attached = FALSE
        BY <4>1
      <4> QED
        BY <4>2
    <3> QED
      BY <3>1, Shown
  <2>3. c.attached /\ (c.batchLevel = c.level \/ UpToDate(c.world, c.level, c.time))
    BY <2>1, <2>2 DEF CaughtUp
  <2>4. c.level \in 1 .. level /\ Attached(c, log[c.level])
    BY <2>1, <2>3 DEF RefinementInv, LockStepInv, Connection, InStep
  <2>5. PICK l \in 1 .. MaxLevel : l = c.level
    <3>1. level \in 1 .. MaxLevel
      BY ConnectionTypes DEF RefinementInv
    <3> QED
      BY <3>1, <2>4, BoundsAssumption
  <2>6. log[l] \in Seq(Entry)
    BY DEF RefinementInv, IInv, TypeOK
  <2>7. AppliedAsSent(c.world, l) /\ UpToDate(c.world, l, c.time)
    BY <2>3, <2>4, <2>5, <2>6, AttachedApplied
  <2>8. \A i \in 1 .. Len(c.world) : c.world[i].at < c.time
    BY <2>1 DEF RefinementInv, PastInv
  <2>9. PICK w \in Seq(Entry) : w = c.world
    BY ClientFields
  <2>10. PICK k \in Nat : k = Len(w)
    BY LenProperties
  <2>11. PICK n \in Nat : n = Len(log[l])
    BY <2>6, LenProperties
  <2>12. Replicated!AtClock(w, l, c.time)
    BY <2>7, <2>8, <2>9, <2>10, <2>11 DEF AppliedAsSent, UpToDate, Replicated!AtClock
  <2>13. PICK x : ClientReplicas[d] = [level |-> client[d].level, clock |-> client[d].time,
                                       world |-> client[d].world, attached |-> x]
    BY Shown
  <2>14. /\ ClientReplicas[d].level = l /\ ClientReplicas[d].clock = c.time
         /\ ClientReplicas[d].world = w
    BY <2>1, <2>5, <2>9, <2>13
  <2> QED
    BY <2>12, <2>14
<1> QED
  BY <1>1, RefinementInvariance, PTL
=============================================================================
