------------------------- MODULE ServerRoundsProofs --------------------------
(***************************************************************************)
(* Proofs about the states of the server, for any players, options and     *)
(* bounds: nobody who wants to play plays a round with buying before its   *)
(* turn to buy is over.                                                    *)
(*                                                                         *)
(* Whether that is so is decided by actions that are on their way: the     *)
(* answer to a load, the request to buy of a dead tank, and the request of *)
(* its player to play or to watch.  The invariant says of each player      *)
(* which of them can be among the actions to be applied (S from place n    *)
(* on) and the ones to be sent (Q), so that it is one both between the     *)
(* intervals and while the actions of one are applied.                     *)
(***************************************************************************)
EXTENDS ServerRounds, LoopTheorems, SequenceTheorems, TLAPS

-----------------------------------------------------------------------------
(* The invariant.                                                           *)

\* Whether the actions of q from place n on have one of this kind for player p.
Has(q, n, kind, p) == \E i \in n .. Len(q) : q[i].kind = kind /\ q[i].player = p

\* There is at most one.
Once(q, n, kind, p) ==
    \A i, j \in n .. Len(q) :
        /\ q[i].kind = kind /\ q[i].player = p
        /\ q[j].kind = kind /\ q[j].player = p
        => i = j

\* Each answer of a client says whether its player wants to play.
Flags(q, n, ns, p) ==
    \A i \in n .. Len(q) :
        q[i].kind = "loaded" /\ q[i].player = p => (q[i].number = 1 <=> ns[p])

\* Who asked to buy did not ask to play before, in these actions.
NoPlayBefore(q, n, p) ==
    \A i \in n .. Len(q) : q[i].kind = "buying" /\ q[i].player = p =>
        \A j \in n .. i : q[j].kind = "play" => q[j].player # p

\* The actions to apply are those of S from place n on and those of Q.
Pending(S, n, Q, kind, p) == Has(S, n, kind, p) \/ Has(Q, 1, kind, p)

PendingOnce(S, n, Q, kind, p) ==
    /\ Once(S, n, kind, p) /\ Once(Q, 1, kind, p)
    /\ ~(Has(S, n, kind, p) /\ Has(Q, 1, kind, p))

\* Of each load one answer, to a tank that still loads.
Loads(S, n, Q, tk, ns, tl, p) ==
    /\ PendingOnce(S, n, Q, "loaded", p)
    /\ p \in tl => ~Pending(S, n, Q, "loaded", p)
    /\ Pending(S, n, Q, "loaded", p) \/ p \in tl => tk[p] \in {"sLoading", "gone"}
    /\ Flags(S, n, ns, p) /\ Flags(Q, 1, ns, p)
    /\ tk[p] = "sSpectator" => ~ns[p]

\* Who asked to buy does not load and does not buy yet; when the tanks are made ready
\* for the game it only watches.
Buys(S, n, Q, st, tk, ns, p) ==
    /\ PendingOnce(S, n, Q, "buying", p)
    /\ NoPlayBefore(S, n, p) /\ NoPlayBefore(Q, 1, p)
    /\ Pending(S, n, Q, "buying", p) => tk[p] \notin {"away", "sLoading", "sBuying"}
    /\ Pending(S, n, Q, "newMatch", p) => tk[p] \notin {"away", "sLoading"}
    /\ Pending(S, n, Q, "buying", p) /\ tk[p] # "gone" =>
           st = "Buying" \/ (st = "TankNewGame" /\ ~Has(Q, 1, "buying", p) /\ ~ns[p])
    /\ Pending(S, n, Q, "newMatch", p) /\ tk[p] # "gone" =>
           st = "Buying" \/ (st = "TankNewGame" /\ ~Has(Q, 1, "newMatch", p))

\* Whose turn to buy is not over in a round with buying.
Due(g, p) == BuyingRound(g) /\ p \notin g.bought

\* Who is due does not play, nor will by being made ready.
Plays(S, n, g, tk, ns, p) ==
    /\ Has(S, n, "newGame", p) => g.state = "TankNewGame"
    /\ g.state = "Buying" => tk[p] # "sNormal"
    /\ tk[p] = "sNormal" /\ ns[p] => ~Due(g, p)
    /\ tk[p] = "sBuying" /\ g.state = "TankNewGame" /\ ns[p] => ~Due(g, p)

Fits(S, n, Q, g, tk, ns, tl, p) ==
    /\ Loads(S, n, Q, tk, ns, tl, p)
    /\ Buys(S, n, Q, g.state, tk, ns, p)
    /\ Plays(S, n, g, tk, ns, p)

\* Between the intervals: the actions of S are all to be applied, and a dead tank has
\* asked to buy in every tick.
Between(S, Q, st, tk, el, p) ==
    /\ Has(Q, 1, "newGame", p) => st = "TankNewGame"
    /\ st = "TankNewGame" /\ tk[p] # "gone" =>
           (Has(S, 1, "buying", p) \/ Has(S, 1, "newMatch", p) => Has(Q, 1, "newGame", p))
    /\ st = "Buying" /\ tk[p] = "sDead" =>
           Pending(S, 1, Q, "buying", p) \/ (el > 0 /\ ~Has(Q, 1, "play", p))
    /\ st = "Buying" /\ (Has(Q, 1, "buying", p) \/ Has(Q, 1, "newMatch", p)) =>
           tk[p] \in {"sDead", "gone"}

AllFit(S, n, Q, g, tk, ns, tl) == \A p \in Players : Fits(S, n, Q, g, tk, ns, tl, p)

RoundsInv ==
    \A p \in Players :
        /\ Fits(simActions, 1, game.sendActions, game, tank, notSpectator, toLoad, p)
        /\ Between(simActions, game.sendActions, game.state, tank, elapsed, p)

IInv == TypeOK /\ game.round <= levels /\ RoundsInv
-----------------------------------------------------------------------------
(* Queues of actions.                                                       *)

LEMMA AppendIs ==
    ASSUME NEW q \in Seq(SimAction), NEW a \in SimAction
    PROVE  /\ Append(q, a) \in Seq(SimAction)
           /\ Len(q) \in Nat /\ Len(Append(q, a)) = Len(q) + 1
           /\ Append(q, a)[Len(q) + 1] = a
           /\ \A i \in 1 .. Len(q) : Append(q, a)[i] = q[i]
OBVIOUS

LEMMA HasAppend ==
    ASSUME NEW q \in Seq(SimAction), NEW a \in SimAction, NEW kind, NEW p
    PROVE  Has(Append(q, a), 1, kind, p) <=>
               Has(q, 1, kind, p) \/ (a.kind = kind /\ a.player = p)
<1> DEFINE r == Append(q, a)
<1>1. /\ Len(q) \in Nat /\ Len(r) = Len(q) + 1 /\ r[Len(q) + 1] = a
      /\ \A i \in 1 .. Len(q) : r[i] = q[i]
  BY AppendIs
<1> HIDE DEF r
<1>2. ASSUME Has(r, 1, kind, p) PROVE Has(q, 1, kind, p) \/ (a.kind = kind /\ a.player = p)
  <2>1. PICK i \in 1 .. Len(r) : r[i].kind = kind /\ r[i].player = p
    BY <1>2 DEF Has
  <2>2. CASE i = Len(q) + 1
    BY <1>1, <2>1, <2>2
  <2>3. CASE i # Len(q) + 1
    <3>1. i \in 1 .. Len(q)
      BY <1>1, <2>3
    <3> QED
      BY <1>1, <2>1, <3>1 DEF Has
  <2> QED
    BY <2>2, <2>3
<1>3. ASSUME Has(q, 1, kind, p) PROVE Has(r, 1, kind, p)
  <2>1. PICK i \in 1 .. Len(q) : q[i].kind = kind /\ q[i].player = p
    BY <1>3 DEF Has
  <2>2. i \in 1 .. Len(r) /\ r[i] = q[i]
    BY <1>1
  <2> QED
    BY <2>1, <2>2 DEF Has
<1>4. ASSUME a.kind = kind, a.player = p PROVE Has(r, 1, kind, p)
  <2>1. Len(q) + 1 \in 1 .. Len(r)
    BY <1>1
  <2> QED
    BY <1>1, <1>4, <2>1 DEF Has
<1> QED
  BY <1>2, <1>3, <1>4 DEF r

LEMMA OnceAppend ==
    ASSUME NEW q \in Seq(SimAction), NEW a \in SimAction, NEW kind, NEW p,
           Once(q, 1, kind, p), a.kind = kind /\ a.player = p => ~Has(q, 1, kind, p)
    PROVE  Once(Append(q, a), 1, kind, p)
<1> DEFINE r == Append(q, a)
<1>1. /\ Len(q) \in Nat /\ Len(r) = Len(q) + 1 /\ r[Len(q) + 1] = a
      /\ \A i \in 1 .. Len(q) : r[i] = q[i]
  BY AppendIs
<1> HIDE DEF r
<1> DEFINE at(i) == r[i].kind = kind /\ r[i].player = p
<1>2. ASSUME NEW i \in 1 .. Len(r), i # Len(q) + 1, at(i) PROVE i \in 1 .. Len(q) /\ Has(q, 1, kind, p)
  <2>1. i \in 1 .. Len(q)
    BY <1>1, <1>2
  <2> QED
    BY <1>1, <1>2, <2>1 DEF Has
<1>3. ASSUME NEW i \in 1 .. Len(r), NEW j \in 1 .. Len(r), at(i), at(j) PROVE i = j
  <2>1. CASE i # Len(q) + 1 /\ j # Len(q) + 1
    <3>1. i \in 1 .. Len(q) /\ j \in 1 .. Len(q)
      BY <1>2, <1>3, <2>1
    <3> QED
      BY <1>1, <1>3, <3>1 DEF Once
  <2>2. CASE i # Len(q) + 1 /\ j = Len(q) + 1
    BY <1>1, <1>2, <1>3, <2>2
  <2>3. CASE i = Len(q) + 1 /\ j # Len(q) + 1
    BY <1>1, <1>2, <1>3, <2>3
  <2> QED
    BY <2>1, <2>2, <2>3
<1>4. Once(r, 1, kind, p)
  BY <1>3 DEF Once
<1> QED
  BY <1>4 DEF r

LEMMA FlagsAppend ==
    ASSUME NEW q \in Seq(SimAction), NEW a \in SimAction, NEW ns, NEW p, Flags(q, 1, ns, p),
           a.kind = "loaded" /\ a.player = p => (a.number = 1 <=> ns[p])
    PROVE  Flags(Append(q, a), 1, ns, p)
<1> DEFINE r == Append(q, a)
<1>1. /\ Len(q) \in Nat /\ Len(r) = Len(q) + 1 /\ r[Len(q) + 1] = a
      /\ \A i \in 1 .. Len(q) : r[i] = q[i]
  BY AppendIs
<1> HIDE DEF r
<1>2. ASSUME NEW i \in 1 .. Len(r), r[i].kind = "loaded", r[i].player = p
      PROVE  r[i].number = 1 <=> ns[p]
  <2>1. CASE i = Len(q) + 1
    BY <1>1, <1>2, <2>1
  <2>2. CASE i # Len(q) + 1
    <3>1. i \in 1 .. Len(q)
      BY <1>1, <2>2
    <3> QED
      BY <1>1, <1>2, <3>1 DEF Flags
  <2> QED
    BY <2>1, <2>2
<1>3. Flags(r, 1, ns, p)
  BY <1>2 DEF Flags
<1> QED
  BY <1>3 DEF r

LEMMA NoPlayAppend ==
    ASSUME NEW q \in Seq(SimAction), NEW a \in SimAction, NEW p, NoPlayBefore(q, 1, p),
           a.kind = "buying" /\ a.player = p => ~Has(q, 1, "play", p)
    PROVE  NoPlayBefore(Append(q, a), 1, p)
<1> DEFINE r == Append(q, a)
<1>1. /\ Len(q) \in Nat /\ Len(r) = Len(q) + 1 /\ r[Len(q) + 1] = a
      /\ \A i \in 1 .. Len(q) : r[i] = q[i]
  BY AppendIs
<1> HIDE DEF r
<1>2. ASSUME NEW i \in 1 .. Len(r), r[i].kind = "buying", r[i].player = p,
             NEW j \in 1 .. i, r[j].kind = "play", r[j].player = p
      PROVE  FALSE
  <2>1. CASE i = Len(q) + 1
    <3>1. j # i
      BY <1>2
    <3>2. j \in 1 .. Len(q)
      BY <1>1, <2>1, <3>1
    <3>3. Has(q, 1, "play", p)
      BY <1>1, <1>2, <3>2 DEF Has
    <3> QED
      BY <1>1, <1>2, <2>1, <3>3
  <2>2. CASE i # Len(q) + 1
    <3>1. i \in 1 .. Len(q) /\ j \in 1 .. Len(q)
      BY <1>1, <2>2
    <3>2. r[i] = q[i] /\ r[j] = q[j]
      BY <1>1, <3>1
    <3> QED
      BY <1>2, <3>1, <3>2 DEF NoPlayBefore
  <2> QED
    BY <2>1, <2>2
<1>3. NoPlayBefore(r, 1, p)
  BY <1>2 DEF NoPlayBefore
<1> QED
  BY <1>3 DEF r

\* What the first action of those to be applied, and the ones after it, have.
LEMMA HasHead ==
    ASSUME NEW q \in Seq(SimAction), NEW n \in 1 .. Len(q), NEW kind, NEW p
    PROVE  Has(q, n, kind, p) <=>
               (q[n].kind = kind /\ q[n].player = p) \/ Has(q, n + 1, kind, p)
<1>1. Len(q) \in Nat
  OBVIOUS
<1>2. ASSUME Has(q, n, kind, p), ~(q[n].kind = kind /\ q[n].player = p) PROVE Has(q, n + 1, kind, p)
  <2>1. PICK i \in n .. Len(q) : q[i].kind = kind /\ q[i].player = p
    BY <1>2 DEF Has
  <2>2. i \in n + 1 .. Len(q)
    BY <1>1, <1>2, <2>1
  <2> QED
    BY <2>1, <2>2 DEF Has
<1>3. ASSUME Has(q, n + 1, kind, p) PROVE Has(q, n, kind, p)
  <2>1. PICK i \in n + 1 .. Len(q) : q[i].kind = kind /\ q[i].player = p
    BY <1>3 DEF Has
  <2>2. i \in n .. Len(q)
    BY <1>1
  <2> QED
    BY <2>1, <2>2 DEF Has
<1>4. n \in n .. Len(q)
  BY <1>1
<1> QED
  BY <1>2, <1>3, <1>4 DEF Has

LEMMA OnceHead ==
    ASSUME NEW q \in Seq(SimAction), NEW n \in 1 .. Len(q), NEW kind, NEW p, Once(q, n, kind, p)
    PROVE  /\ Once(q, n + 1, kind, p)
           /\ q[n].kind = kind /\ q[n].player = p => ~Has(q, n + 1, kind, p)
<1>1. Len(q) \in Nat /\ n \in n .. Len(q) /\ \A i \in n + 1 .. Len(q) : i \in n .. Len(q) /\ i # n
  OBVIOUS
<1> QED
  BY <1>1 DEF Once, Has

LEMMA FlagsHead ==
    ASSUME NEW q \in Seq(SimAction), NEW n \in 1 .. Len(q), NEW ns, NEW p, Flags(q, n, ns, p)
    PROVE  /\ Flags(q, n + 1, ns, p)
           /\ q[n].kind = "loaded" /\ q[n].player = p => (q[n].number = 1 <=> ns[p])
<1>1. Len(q) \in Nat /\ n \in n .. Len(q) /\ \A i \in n + 1 .. Len(q) : i \in n .. Len(q)
  OBVIOUS
<1> QED
  BY <1>1 DEF Flags

LEMMA NoPlayHead ==
    ASSUME NEW q \in Seq(SimAction), NEW n \in 1 .. Len(q), NEW p, NoPlayBefore(q, n, p)
    PROVE  /\ NoPlayBefore(q, n + 1, p)
           /\ q[n].kind = "play" /\ q[n].player = p => ~Has(q, n + 1, "buying", p)
<1>1. /\ Len(q) \in Nat
      /\ \A i \in n + 1 .. Len(q) : i \in n .. Len(q) /\ n \in n .. i /\ \A j \in n + 1 .. i : j \in n .. i
  OBVIOUS
<1> QED
  BY <1>1 DEF NoPlayBefore, Has

\* There is nothing in an empty queue, nor behind the last place of one.
LEMMA NothingLeft ==
    ASSUME NEW q, NEW n \in Nat, Len(q) \in Nat, Len(q) < n, NEW p, NEW ns
    PROVE  /\ \A kind : ~Has(q, n, kind, p) /\ Once(q, n, kind, p)
           /\ Flags(q, n, ns, p) /\ NoPlayBefore(q, n, p)
<1>1. n .. Len(q) = {}
  OBVIOUS
<1> QED
  BY <1>1 DEF Has, Once, Flags, NoPlayBefore
-----------------------------------------------------------------------------
(* What keeps the invariant of a player.                                    *)

\* Actions that say nothing of what p asks for.
Apart(a, p) == a.player # p \/ a.kind \notin {"newMatch", "buying", "newGame", "loaded", "play"}

\* Only a dead tank is asked to begin and to buy, and only to buy when it is not yet.
MaySend(S, n, Q, g, tk, a, p) ==
    a.player = p =>
        /\ a.kind # "loaded"
        /\ a.kind \in {"newMatch", "buying"} => g.state = "Buying" /\ tk[p] = "sDead"
        /\ a.kind = "buying" => ~Pending(S, n, Q, "buying", p) /\ ~Has(Q, 1, "play", p)

LEMMA FitsAppend ==
    ASSUME NEW S, NEW n, NEW Q \in Seq(SimAction), NEW a \in SimAction, NEW g, NEW tk, NEW ns,
           NEW tl, NEW p, MaySend(S, n, Q, g, tk, a, p), Fits(S, n, Q, g, tk, ns, tl, p)
    PROVE  Fits(S, n, Append(Q, a), g, tk, ns, tl, p)
<1> DEFINE R == Append(Q, a)
<1>1. ASSUME NEW kind
      PROVE  Has(R, 1, kind, p) <=> Has(Q, 1, kind, p) \/ (a.kind = kind /\ a.player = p)
  BY HasAppend
<1>2. Once(Q, 1, "loaded", p) /\ Flags(Q, 1, ns, p)
  BY DEF Fits, Loads, PendingOnce
<1>3. Once(Q, 1, "buying", p) /\ NoPlayBefore(Q, 1, p)
  BY DEF Fits, Buys, PendingOnce
<1>4. Once(R, 1, "loaded", p) /\ Flags(R, 1, ns, p)
  BY <1>2, OnceAppend, FlagsAppend DEF MaySend
<1>5. Once(R, 1, "buying", p) /\ NoPlayBefore(R, 1, p)
  BY <1>3, OnceAppend, NoPlayAppend DEF MaySend, Pending
<1> HIDE DEF R
<1>6. Loads(S, n, R, tk, ns, tl, p)
  <2>1. Has(R, 1, "loaded", p) <=> Has(Q, 1, "loaded", p)
    BY <1>1 DEF MaySend
  <2> QED
    BY <1>4, <2>1 DEF Fits, Loads, Pending, PendingOnce
<1>7. Buys(S, n, R, g.state, tk, ns, p)
  <2>1. CASE a.player = p /\ a.kind \in {"newMatch", "buying"}
    <3>1. g.state = "Buying" /\ tk[p] = "sDead"
      BY <2>1 DEF MaySend
    <3>2. ~(Has(S, n, "buying", p) /\ Has(R, 1, "buying", p))
      BY <1>1 DEF MaySend, Fits, Buys, PendingOnce, Pending
    <3> QED
      BY <1>5, <3>1, <3>2 DEF Fits, Buys, PendingOnce
  <2>2. CASE ~(a.player = p /\ a.kind \in {"newMatch", "buying"})
    <3>1. /\ Has(R, 1, "newMatch", p) <=> Has(Q, 1, "newMatch", p)
          /\ Has(R, 1, "buying", p) <=> Has(Q, 1, "buying", p)
      BY <1>1, <2>2
    <3> QED
      BY <1>5, <3>1 DEF Fits, Buys, Pending, PendingOnce
  <2> QED
    BY <2>1, <2>2
<1>8. Fits(S, n, R, g, tk, ns, tl, p)
  BY <1>6, <1>7 DEF Fits
<1> QED
  BY <1>8 DEF R

LEMMA BetweenAppend ==
    ASSUME NEW S, NEW Q \in Seq(SimAction), NEW a \in SimAction, NEW st, NEW tk, NEW el,
           NEW p, Apart(a, p), Between(S, Q, st, tk, el, p)
    PROVE  Between(S, Append(Q, a), st, tk, el, p)
<1> DEFINE R == Append(Q, a)
<1>1. ASSUME NEW kind \in {"newMatch", "buying", "newGame", "loaded", "play"}
      PROVE  Has(R, 1, kind, p) <=> Has(Q, 1, kind, p)
  BY HasAppend DEF Apart
<1> HIDE DEF R
<1>2. Between(S, R, st, tk, el, p)
  BY <1>1 DEF Between, Pending
<1> QED
  BY <1>2 DEF R

\* What the invariant of p depends on.
LEMMA FitsSame ==
    ASSUME NEW S, NEW n, NEW Q, NEW g, NEW tk, NEW ns, NEW tl, NEW p,
           NEW g2, NEW tk2, NEW ns2, NEW tl2,
           Fits(S, n, Q, g, tk, ns, tl, p),
           g2.state = g.state, Due(g2, p) => Due(g, p),
           tk2[p] = tk[p], ns2[p] = ns[p], p \in tl2 => p \in tl
    PROVE  Fits(S, n, Q, g2, tk2, ns2, tl2, p)
<1>1. Loads(S, n, Q, tk2, ns2, tl2, p)
  <2>1. Flags(S, n, ns2, p) /\ Flags(Q, 1, ns2, p)
    BY DEF Fits, Loads, Flags
  <2> QED
    BY <2>1 DEF Fits, Loads
<1>2. Buys(S, n, Q, g2.state, tk2, ns2, p)
  BY DEF Fits, Buys
<1>3. Plays(S, n, g2, tk2, ns2, p)
  BY DEF Fits, Plays
<1> QED
  BY <1>1, <1>2, <1>3 DEF Fits

\* The answers to loads only matter when there is one.
LEMMA FlagsSame ==
    ASSUME NEW q, NEW n, NEW ns, NEW ns2, NEW p, Flags(q, n, ns, p),
           Has(q, n, "loaded", p) => (ns2[p] <=> ns[p])
    PROVE  Flags(q, n, ns2, p)
BY DEF Flags, Has

-----------------------------------------------------------------------------
(* The actions of an interval.                                              *)

AllTankStates == TankStates \cup {"away", "gone"}

\* The state of the tank of an action's player when it is invoked, and whether the
\* player wants to play.
TankAfter(a, x) ==
    IF x \notin TankStates THEN x
    ELSE IF a.kind = "newMatch" THEN SetState(x, "sDead")
    ELSE IF a.kind = "buying" THEN IF x = "sDead" THEN "sBuying" ELSE x
    ELSE IF a.kind = "newGame" THEN IF x = "sBuying" THEN "sNormal" ELSE x
    ELSE IF a.kind = "loaded" THEN SetState(x, IF a.number = 1 THEN "sDead" ELSE "sSpectator")
    ELSE IF a.kind = "spectate" THEN IF x = "sLoading" THEN x ELSE "sSpectator"
    ELSE IF a.kind = "play" THEN IF x = "sSpectator" THEN "sDead" ELSE x
    ELSE x

WantsAfter(a, x, b) ==
    IF a.kind = "spectate" /\ x \in {"sNormal", "sBuying", "sDead"} THEN FALSE
    ELSE IF a.kind = "play" /\ x = "sSpectator" THEN TRUE
    ELSE b

\* The invariant of the player of the first action, when it is invoked.
LEMMA FitsInvoked ==
    ASSUME NEW S \in Seq(SimAction), NEW n \in 1 .. Len(S), NEW Q, NEW g, NEW tk, NEW ns, NEW tl,
           NEW p, NEW tk2, NEW ns2,
           Fits(S, n, Q, g, tk, ns, tl, p), S[n].player = p,
           tk[p] \in AllTankStates,
           tk2[p] = TankAfter(S[n], tk[p]), ns2[p] = WantsAfter(S[n], tk[p], ns[p])
    PROVE  Fits(S, n + 1, Q, g, tk2, ns2, tl, p)
<1>1. PICK a : a = S[n] /\ a.player = p
  OBVIOUS
<1>2. /\ Has(S, n, "loaded", p) <=> a.kind = "loaded" \/ Has(S, n + 1, "loaded", p)
      /\ Has(S, n, "buying", p) <=> a.kind = "buying" \/ Has(S, n + 1, "buying", p)
      /\ Has(S, n, "newMatch", p) <=> a.kind = "newMatch" \/ Has(S, n + 1, "newMatch", p)
      /\ Has(S, n, "newGame", p) <=> a.kind = "newGame" \/ Has(S, n + 1, "newGame", p)
  BY <1>1, HasHead
<1>3. /\ Once(S, n + 1, "loaded", p) /\ Once(S, n + 1, "buying", p)
      /\ a.kind = "loaded" => ~Has(S, n + 1, "loaded", p)
      /\ a.kind = "buying" => ~Has(S, n + 1, "buying", p)
  BY <1>1, OnceHead DEF Fits, Loads, Buys, PendingOnce
<1>4. /\ Flags(S, n + 1, ns, p)
      /\ a.kind = "loaded" => (a.number = 1 <=> ns[p])
  BY <1>1, FlagsHead DEF Fits, Loads
<1>5. /\ NoPlayBefore(S, n + 1, p)
      /\ a.kind = "play" => ~Has(S, n + 1, "buying", p)
  BY <1>1, NoPlayHead DEF Fits, Buys
<1>6. PICK x \in AllTankStates : x = tk[p]
  OBVIOUS
<1>16. PICK y, st : y = tk2[p] /\ st = g.state
  OBVIOUS
<1>7. y = TankAfter(a, x) /\ ns2[p] = WantsAfter(a, x, ns[p])
  BY <1>1, <1>6, <1>16
<1>8. /\ (Has(S, n, "loaded", p) \/ Has(Q, 1, "loaded", p)) \/ p \in tl => x \in {"sLoading", "gone"}
      /\ x = "sSpectator" => ~ns[p]
      /\ ~(Has(S, n, "loaded", p) /\ Has(Q, 1, "loaded", p))
      /\ p \in tl => ~(Has(S, n, "loaded", p) \/ Has(Q, 1, "loaded", p))
      /\ Flags(Q, 1, ns, p) /\ Once(Q, 1, "loaded", p)
  BY <1>6 DEF Fits, Loads, Pending, PendingOnce
<1>9. /\ ~(Has(S, n, "buying", p) /\ Has(Q, 1, "buying", p))
      /\ Has(S, n, "buying", p) \/ Has(Q, 1, "buying", p) => x \notin {"away", "sLoading", "sBuying"}
      /\ Has(S, n, "newMatch", p) \/ Has(Q, 1, "newMatch", p) => x \notin {"away", "sLoading"}
      /\ (Has(S, n, "buying", p) \/ Has(Q, 1, "buying", p)) /\ x # "gone" =>
           st = "Buying" \/ (st = "TankNewGame" /\ ~Has(Q, 1, "buying", p) /\ ~ns[p])
      /\ (Has(S, n, "newMatch", p) \/ Has(Q, 1, "newMatch", p)) /\ x # "gone" =>
           st = "Buying" \/ (st = "TankNewGame" /\ ~Has(Q, 1, "newMatch", p))
      /\ NoPlayBefore(Q, 1, p) /\ Once(Q, 1, "buying", p)
  BY <1>6, <1>16 DEF Fits, Buys, Pending, PendingOnce
<1>10. /\ Has(S, n, "newGame", p) => st = "TankNewGame"
       /\ st = "Buying" => x # "sNormal"
       /\ x = "sNormal" /\ ns[p] => ~Due(g, p)
       /\ x = "sBuying" /\ st = "TankNewGame" /\ ns[p] => ~Due(g, p)
  BY <1>6, <1>16 DEF Fits, Plays
<1> USE DEF TankAfter, WantsAfter, SetState, AllowedStateTransitions, TankStates, AllTankStates
<1>11. x = "sLoading" /\ a.kind # "loaded" /\ a.kind # "newMatch" => y = x /\ ns2[p] = ns[p]
  BY <1>7
<1>12. x = "gone" => y = x /\ ns2[p] = ns[p]
  BY <1>7
<1>13. Loads(S, n + 1, Q, tk2, ns2, tl, p)
  <2>1. Has(S, n + 1, "loaded", p) \/ Has(Q, 1, "loaded", p) \/ p \in tl => y = x /\ ns2[p] = ns[p]
    <3>1. CASE x = "sLoading" /\ a.kind # "loaded"
      BY <1>2, <1>9, <1>11, <3>1
    <3>2. CASE x = "gone"
      BY <1>12, <3>2
    <3>3. CASE a.kind = "loaded"
      BY <1>2, <1>3, <1>8, <3>3
    <3> QED
      BY <1>2, <1>8, <3>1, <3>2, <3>3
  <2>2. Flags(S, n + 1, ns2, p) /\ Flags(Q, 1, ns2, p)
    BY <1>4, <1>8, <2>1, FlagsSame
  <2>3. (Has(S, n + 1, "loaded", p) \/ Has(Q, 1, "loaded", p)) \/ p \in tl => y \in {"sLoading", "gone"}
    BY <1>2, <1>8, <2>1
  <2>4. y = "sSpectator" => ~ns2[p]
    BY <1>2, <1>4, <1>7, <1>8
  <2> QED
    BY <1>2, <1>3, <1>8, <1>16, <2>2, <2>3, <2>4 DEF Loads, Pending, PendingOnce
<1>14. Buys(S, n + 1, Q, g.state, tk2, ns2, p)
  <2>1. Has(S, n + 1, "buying", p) \/ Has(Q, 1, "buying", p) =>
            y \notin {"away", "sLoading", "sBuying"} /\ (y = "gone" <=> x = "gone")
    BY <1>2, <1>3, <1>7, <1>9
  <2>2. Has(S, n + 1, "newMatch", p) \/ Has(Q, 1, "newMatch", p) =>
            y \notin {"away", "sLoading"} /\ (y = "gone" <=> x = "gone")
    BY <1>2, <1>7, <1>9
  <2>3. Has(S, n + 1, "buying", p) /\ ~ns[p] => ~ns2[p]
    BY <1>5, <1>7
  <2> QED
    BY <1>2, <1>3, <1>5, <1>9, <1>16, <2>1, <2>2, <2>3 DEF Buys, Pending, PendingOnce
<1>15. Plays(S, n + 1, g, tk2, ns2, p)
  <2>1. st = "Buying" => y # "sNormal"
    BY <1>2, <1>7, <1>10
  <2>2. y = "sNormal" /\ ns2[p] => ~Due(g, p)
    BY <1>2, <1>7, <1>10
  <2>3. y = "sBuying" /\ st = "TankNewGame" /\ ns2[p] => ~Due(g, p)
    BY <1>2, <1>7, <1>9, <1>10
  <2> QED
    BY <1>2, <1>10, <1>16, <2>1, <2>2, <2>3 DEF Plays
<1> QED
  BY <1>13, <1>14, <1>15 DEF Fits
-----------------------------------------------------------------------------
(* The operations of the states: what they change, and that they keep the   *)
(* types.                                                                   *)

LEMMA GameFields ==
    ASSUME NEW g \in GameState
    PROVE  /\ g.state \in States /\ g.round \in 0 .. MaxLevels /\ g.time \in Nat
           /\ g.bought \subseteq Players /\ g.timers \in [Players -> Timer]
           /\ g.moveId \in [Players -> Nat] /\ g.nextMoveId \in Nat
           /\ g.newlyJoined \subseteq Players
           /\ g.roundState \in {"eNone", "eCountingDown", "eFinished"}
           /\ g.finished \in BOOLEAN /\ g.overAllWinner \in BOOLEAN
           /\ g.sendActions \in Seq(SimAction)
BY DEF GameState

LEMMA ActionTypes ==
    /\ \A kind \in PlayerKinds, p \in Players, n \in Nat :
           /\ Action(kind, p, n) \in SimAction
           /\ Action(kind, p, n).kind = kind /\ Action(kind, p, n).player = p
           /\ Action(kind, p, n).number = n
    /\ \A kind \in RoundKinds, n \in Nat :
           /\ Action(kind, 0, n) \in SimAction
           /\ Action(kind, 0, n).kind = kind
BY DEF Action, SimAction

\* What leaves alone whatever the invariant speaks of but the actions to send: h is g
\* with more that bought.
Later(g, h) ==
    /\ h \in GameState
    /\ h.state = g.state /\ h.round = g.round
    /\ g.bought \subseteq h.bought

LEMMA LaterDue ==
    ASSUME NEW g, NEW h, Later(g, h), NEW p
    PROVE  Due(h, p) => Due(g, p)
BY DEF Later, Due, BuyingRound

LEMMA AddIs ==
    ASSUME NEW g \in GameState, NEW a \in SimAction, NEW h, h = Add(g, a)
    PROVE  /\ h \in GameState /\ h.sendActions = Append(g.sendActions, a)
           /\ h.state = g.state /\ h.round = g.round /\ h.time = g.time
           /\ h.bought = g.bought /\ h.newlyJoined = g.newlyJoined
           /\ h.moveId = g.moveId /\ h.timers = g.timers
<1>1. Append(g.sendActions, a) \in Seq(SimAction)
  BY GameFields, AppendIs
<1> QED
  BY <1>1 DEF Add, GameState

\* The stop of a move, if any, is all that a finished move sends.
Stopped(q, r) == r = q \/ \E p \in Players : r = Append(q, Action("stop", p, 0))

LEMMA BuyingFinishedIs ==
    ASSUME NEW g \in GameState, NEW tanks, NEW p \in Players, NEW move, NEW h,
           h = BuyingFinished(g, tanks, p, move)
    PROVE  /\ Later(g, h) /\ Stopped(g.sendActions, h.sendActions)
           /\ h.time = g.time
           /\ \A q \in Players : q # p => h.timers[q] = g.timers[q]
<1>1. PICK u : u = [g EXCEPT !.timers[p] = NoTimer]
  OBVIOUS
<1>2. NoTimer \in Timer
  BY RoundOptionsAssumption DEF NoTimer, Timer
<1>3. /\ u \in GameState /\ u.state = g.state /\ u.round = g.round /\ u.bought = g.bought
      /\ u.sendActions = g.sendActions /\ u.time = g.time /\ u.moveId = g.moveId
      /\ \A q \in Players : q # p => u.timers[q] = g.timers[q]
  BY <1>1, <1>2 DEF GameState
<1>4. CASE ~(tanks[p] \in {"sNormal", "sDead", "sBuying"} /\ move = g.moveId[p])
  <2>1. h = u
    BY <1>1, <1>4 DEF BuyingFinished
  <2> QED
    BY <1>3, <2>1 DEF Later, Stopped
<1>5. CASE tanks[p] \in {"sNormal", "sDead", "sBuying"} /\ move = g.moveId[p]
  <2>1. PICK v : v = [u EXCEPT !.bought = @ \cup {p}, !.moveId[p] = 0]
    OBVIOUS
  <2>2. /\ v \in GameState /\ v.state = g.state /\ v.round = g.round /\ v.bought = g.bought \cup {p}
        /\ v.sendActions = g.sendActions /\ v.time = g.time /\ v.timers = u.timers
    BY <1>3, <2>1 DEF GameState
  <2>3. PICK a \in SimAction : a = Action("stop", p, 0)
    BY ActionTypes DEF PlayerKinds
  <2>4. h = Add(v, a) /\ v \in GameState
    BY <1>1, <1>5, <2>1, <2>2, <2>3 DEF BuyingFinished
  <2>5. /\ h \in GameState /\ h.sendActions = Append(v.sendActions, a)
        /\ h.state = v.state /\ h.round = v.round /\ h.time = v.time
        /\ h.bought = v.bought /\ h.timers = v.timers
    BY <2>4, AddIs
  <2> QED
    BY <1>3, <2>2, <2>3, <2>5 DEF Later, Stopped
<1> QED
  BY <1>4, <1>5

LEMMA StartedIs ==
    ASSUME NEW g \in GameState, NEW a \in SimAction, NEW h, h = ActionInvoked(g, a)
    PROVE  Later(g, h) /\ h.sendActions = g.sendActions
<1>1. CASE a.kind = "start" /\ g.timers[a.player] # NoTimer
  <2>1. PICK p \in Players : p = a.player
    BY <1>1 DEF SimAction, RoundKinds
  <2>2. PICK u \in Timer : u = g.timers[p]
    BY GameFields
  <2>3. PICK t \in Timer : t = [u EXCEPT !.started = TRUE]
    BY DEF Timer
  <2>4. PICK T \in [Players -> Timer] : T = [g.timers EXCEPT ![p] = t]
    BY GameFields
  <2>5. h = [g EXCEPT !.timers = T]
    <3>1. h = [g EXCEPT !.timers[p].started = TRUE]
      BY <1>1, <2>1 DEF ActionInvoked
    <3>2. T = [g.timers EXCEPT ![p].started = TRUE]
      BY <2>2, <2>3, <2>4
    <3>3. [g EXCEPT !.timers[p].started = TRUE] = [g EXCEPT !.timers = [g.timers EXCEPT ![p].started = TRUE]]
      BY DEF GameState
    <3> QED
      BY <3>1, <3>2, <3>3
  <2> QED
    BY <2>5 DEF Later, GameState
<1>2. CASE ~(a.kind = "start" /\ g.timers[a.player] # NoTimer) /\ a.kind = "roundStart" /\ RoundTime > 0
  <2>1. h = [g EXCEPT !.roundState = "eCountingDown"]
    BY <1>2 DEF ActionInvoked
  <2> QED
    BY <2>1 DEF Later, GameState
<1>3. CASE ~(a.kind = "start" /\ g.timers[a.player] # NoTimer) /\ ~(a.kind = "roundStart" /\ RoundTime > 0)
  <2>1. h = g
    BY <1>3 DEF ActionInvoked
  <2> QED
    BY <2>1 DEF Later
<1> QED
  BY <1>1, <1>2, <1>3
-----------------------------------------------------------------------------
(* Invoking an action.                                                      *)

There(tk) == {p \in Players : tk[p] \in TankStates}

WorldState ==
    [game : GameState, tank : [Players -> AllTankStates], notSpectator : [Players -> BOOLEAN],
     deserted : SUBSET Players,
     score : [shown : BOOLEAN, left : Nat, age : 0 .. ReferencedTime]]

\* Only tanks that are there are without their player.
Worlds == {w \in WorldState : w.deserted \subseteq There(w.tank)}

OnlyStops(q) == \A i \in 1 .. Len(q) : q[i].kind = "stop"

\* While actions are invoked the server answers for who left, if the players buy.
Answers(g, h) ==
    /\ OnlyStops(g.sendActions) => OnlyStops(h.sendActions)
    /\ g.state # "Buying" => h.sendActions = g.sendActions

\* What an action does to a player, and that it keeps the others.
Moved(w, u, a) ==
    /\ \A q \in Players : q # a.player =>
           u.tank[q] = w.tank[q] /\ u.notSpectator[q] = w.notSpectator[q]
    /\ a.player \in Players =>
           /\ u.tank[a.player] = TankAfter(a, w.tank[a.player])
           /\ u.notSpectator[a.player] =
                  WantsAfter(a, w.tank[a.player], w.notSpectator[a.player])

Invoked(w, u, a) ==
    /\ u \in Worlds
    /\ Later(w.game, u.game) /\ Answers(w.game, u.game)
    /\ Moved(w, u, a)

LEMMA WorldFields ==
    ASSUME NEW w \in Worlds
    PROVE  /\ w \in WorldState
           /\ w.game \in GameState /\ w.tank \in [Players -> AllTankStates]
           /\ w.notSpectator \in [Players -> BOOLEAN] /\ w.deserted \subseteq Players
           /\ w.score \in [shown : BOOLEAN, left : Nat, age : 0 .. ReferencedTime]
           /\ w.deserted \subseteq There(w.tank)
BY DEF Worlds, WorldState

LEMMA PlayersAre == 0 \notin Players /\ Players \subseteq Nat /\ N \in Nat /\ Players = 1 .. N
BY PlayersAssumption DEF Players

LEMMA TankAfterTypes ==
    ASSUME NEW a, NEW x \in AllTankStates, NEW b \in BOOLEAN
    PROVE  /\ TankAfter(a, x) \in AllTankStates
           /\ TankAfter(a, x) \in TankStates <=> x \in TankStates
           /\ WantsAfter(a, x, b) \in BOOLEAN
BY DEF TankAfter, WantsAfter, SetState, AllowedStateTransitions, TankStates, AllTankStates

WithGame(w, h) == [w EXCEPT !.game = h]
WithTank(w, p, y, b) == [w EXCEPT !.tank[p] = y, !.notSpectator[p] = b]

\* Another game in the same world.
LEMMA WorldGame ==
    ASSUME NEW w \in Worlds, NEW h \in GameState, NEW u, u = WithGame(w, h)
    PROVE  /\ u \in Worlds /\ u.game = h /\ u.tank = w.tank
           /\ u.notSpectator = w.notSpectator /\ u.deserted = w.deserted /\ u.score = w.score
<1>1. w \in WorldState /\ w.deserted \subseteq There(w.tank)
  BY DEF Worlds
<1>2. /\ u \in WorldState /\ u.game = h /\ u.tank = w.tank
      /\ u.notSpectator = w.notSpectator /\ u.deserted = w.deserted /\ u.score = w.score
  BY <1>1 DEF WorldState, WithGame
<1> QED
  BY <1>1, <1>2 DEF Worlds

LEMMA WorldTank ==
    ASSUME NEW w \in Worlds, NEW p \in Players, NEW y \in AllTankStates, NEW b \in BOOLEAN,
           y \in TankStates <=> w.tank[p] \in TankStates,
           NEW u, u = WithTank(w, p, y, b)
    PROVE  /\ u \in Worlds /\ u.game = w.game /\ u.tank[p] = y /\ u.notSpectator[p] = b
           /\ \A q \in Players : q # p =>
                  u.tank[q] = w.tank[q] /\ u.notSpectator[q] = w.notSpectator[q]
<1>1. /\ w \in WorldState /\ w.tank \in [Players -> AllTankStates]
      /\ w.notSpectator \in [Players -> BOOLEAN] /\ w.deserted \subseteq There(w.tank)
  BY WorldFields
<1>2. /\ u \in WorldState /\ u.deserted = w.deserted /\ u.game = w.game
      /\ u.tank = [w.tank EXCEPT ![p] = y] /\ u.notSpectator = [w.notSpectator EXCEPT ![p] = b]
  BY <1>1 DEF WorldState, WithTank
<1>3. There(u.tank) = There(w.tank)
  <2>1. ASSUME NEW q \in Players PROVE u.tank[q] \in TankStates <=> w.tank[q] \in TankStates
    <3>1. CASE q = p
      BY <1>1, <1>2, <3>1
    <3>2. CASE q # p
      BY <1>1, <1>2, <3>2
    <3> QED
      BY <3>1, <3>2
  <2> QED
    BY <2>1 DEF There
<1>4. u \in Worlds
  BY <1>1, <1>2, <1>3 DEF Worlds
<1> QED
  BY <1>1, <1>2, <1>4

LEMMA SameGame ==
    ASSUME NEW g \in GameState
    PROVE  Later(g, g) /\ Answers(g, g)
BY DEF Later, Answers

LEMMA StopsAnswer ==
    ASSUME NEW g \in GameState, NEW h, g.state = "Buying", Stopped(g.sendActions, h.sendActions)
    PROVE  Answers(g, h)
<1>1. PICK q \in Seq(SimAction) : q = g.sendActions
  BY GameFields
<1>2. ASSUME OnlyStops(q), NEW p \in Players, h.sendActions = Append(q, Action("stop", p, 0))
      PROVE  OnlyStops(h.sendActions)
  <2>1. PICK a \in SimAction : a = Action("stop", p, 0) /\ a.kind = "stop"
    BY ActionTypes DEF PlayerKinds
  <2>2. PICK r : r = Append(q, a)
    OBVIOUS
  <2>3. /\ Len(q) \in Nat /\ Len(r) = Len(q) + 1 /\ r[Len(q) + 1] = a
        /\ \A i \in 1 .. Len(q) : r[i] = q[i]
    BY <2>2, AppendIs
  <2>4. ASSUME NEW i \in 1 .. Len(r) PROVE r[i].kind = "stop"
    <3>1. CASE i = Len(q) + 1
      BY <2>1, <2>3, <3>1
    <3>2. CASE i # Len(q) + 1
      <4>1. i \in 1 .. Len(q)
        BY <2>3, <3>2
      <4> QED
        BY <1>2, <2>3, <4>1 DEF OnlyStops
    <3> QED
      BY <3>1, <3>2
  <2> QED
    BY <1>2, <2>1, <2>2, <2>4 DEF OnlyStops
<1> QED
  BY <1>1, <1>2 DEF Answers, Stopped

\* An action whose player is not there, or that is not of a player.
LEMMA NotInvoked ==
    ASSUME NEW w \in Worlds, NEW a \in SimAction,
           a.player \in Players => w.tank[a.player] \notin TankStates \/ a.kind \in {"stop", "start", "remove"}
    PROVE  Moved(w, w, a)
<1>1. ASSUME a.player \in Players
      PROVE  /\ TankAfter(a, w.tank[a.player]) = w.tank[a.player]
             /\ WantsAfter(a, w.tank[a.player], w.notSpectator[a.player]) = w.notSpectator[a.player]
  BY <1>1 DEF TankAfter, WantsAfter, TankStates
<1> QED
  BY <1>1 DEF Moved

LEMMA InvokeStartIs ==
    ASSUME NEW w \in Worlds, NEW p \in Players, NEW move, NEW u, u = InvokeStart(w, p, move)
    PROVE  /\ u \in Worlds /\ Later(w.game, u.game) /\ Answers(w.game, u.game)
           /\ u.tank = w.tank /\ u.notSpectator = w.notSpectator
<1>1. PICK g \in GameState : g = w.game
  BY WorldFields
<1>2. CASE w.tank[p] = "sBuying" /\ p \in w.deserted /\ w.game.state = "Buying"
  <2>1. PICK h : h = BuyingFinished(g, w.tank, p, move)
    OBVIOUS
  <2>2. u = WithGame(w, h)
    BY <1>1, <1>2, <2>1 DEF InvokeStart, WithGame
  <2>3. Later(g, h) /\ Stopped(g.sendActions, h.sendActions)
    BY <2>1, BuyingFinishedIs
  <2>4. Answers(g, h)
    BY <1>1, <1>2, <2>3, StopsAnswer
  <2> QED
    <3>1. h \in GameState
      BY <2>3 DEF Later
    <3> QED
      BY <1>1, <2>2, <2>3, <2>4, <3>1, WorldGame
<1>3. CASE ~(w.tank[p] = "sBuying" /\ p \in w.deserted /\ w.game.state = "Buying")
  <2>1. u = w
    BY <1>3 DEF InvokeStart
  <2> QED
    BY <1>1, <2>1, SameGame
<1> QED
  BY <1>2, <1>3

\* The actions that move a tank.
LEMMA InvokeMove ==
    ASSUME NEW w \in Worlds, NEW a \in SimAction, NEW p \in Players, p = a.player,
           NEW h, Later(w.game, h), Answers(w.game, h), NEW y, NEW b,
           y = TankAfter(a, w.tank[p]), b = WantsAfter(a, w.tank[p], w.notSpectator[p]),
           NEW u, u = WithTank(WithGame(w, h), p, y, b)
    PROVE  Invoked(w, u, a)
<1>1. w.tank[p] \in AllTankStates /\ w.notSpectator[p] \in BOOLEAN
  BY WorldFields
<1>2. /\ y \in AllTankStates /\ b \in BOOLEAN
      /\ y \in TankStates <=> w.tank[p] \in TankStates
  BY <1>1, TankAfterTypes
<1>3. PICK v : v = WithGame(w, h)
  OBVIOUS
<1>4. /\ v \in Worlds /\ v.game = h /\ v.tank = w.tank /\ v.notSpectator = w.notSpectator
  <2>1. h \in GameState
    BY DEF Later
  <2> QED
    BY <1>3, <2>1, WorldGame
<1>5. u = WithTank(v, p, y, b)
  BY <1>3
<1>7. y \in TankStates <=> v.tank[p] \in TankStates
  BY <1>2, <1>4
<1>6. /\ u \in Worlds /\ u.game = v.game /\ u.tank[p] = y /\ u.notSpectator[p] = b
      /\ \A q \in Players : q # p => u.tank[q] = v.tank[q] /\ u.notSpectator[q] = v.notSpectator[q]
  BY <1>2, <1>4, <1>5, <1>7, WorldTank
<1>8. Moved(w, u, a)
  <2>1. \A q \in Players : q # p => u.tank[q] = w.tank[q] /\ u.notSpectator[q] = w.notSpectator[q]
    BY <1>4, <1>6
  <2>2. u.tank[p] = TankAfter(a, w.tank[p])
    BY <1>6
  <2>3. u.notSpectator[p] = WantsAfter(a, w.tank[p], w.notSpectator[p])
    BY <1>6
  <2> QED
    BY <2>1, <2>2, <2>3 DEF Moved
<1>9. Later(w.game, u.game) /\ Answers(w.game, u.game)
  BY <1>4, <1>6
<1> QED
  BY <1>6, <1>8, <1>9 DEF Invoked

LEMMA InvokeIs ==
    ASSUME NEW w \in Worlds, NEW a \in SimAction, NEW u, u = Invoke(w, a)
    PROVE  Invoked(w, u, a)
<1>1. /\ w \in WorldState /\ w.game \in GameState /\ w.tank \in [Players -> AllTankStates]
      /\ w.notSpectator \in [Players -> BOOLEAN] /\ w.deserted \subseteq Players
      /\ w.deserted \subseteq There(w.tank)
  BY WorldFields
<1>2. Later(w.game, w.game) /\ Answers(w.game, w.game)
  BY <1>1, SameGame
<1>3. CASE a.kind = "score"
  <2>1. a.player \notin Players /\ a.number \in Nat
    BY <1>3, PlayersAre DEF SimAction, PlayerKinds
  <2>2. PICK h : h = [w.game EXCEPT !.moveId = [q \in Players |-> 0]]
    OBVIOUS
  <2>3. Later(w.game, h) /\ h.sendActions = w.game.sendActions
    BY <1>1, <2>2 DEF Later, GameState
  <2>4. PICK sc \in [shown : BOOLEAN, left : Nat, age : 0 .. ReferencedTime] :
            sc = [shown |-> TRUE, left |-> a.number, age |-> 0]
    <3>1. 0 \in 0 .. ReferencedTime
      BY RoundOptionsAssumption
    <3>2. [shown |-> TRUE, left |-> a.number, age |-> 0]
              \in [shown : BOOLEAN, left : Nat, age : 0 .. ReferencedTime]
      BY <2>1, <3>1
    <3> QED
      BY <3>2
  <2>5. u = [w EXCEPT !.score = sc, !.game = h]
    BY <1>1, <1>3, <2>2, <2>4 DEF Invoke, WorldState
  <2>6. h \in GameState
    BY <2>3 DEF Later
  <2>7. /\ u \in WorldState /\ u.game = h /\ u.tank = w.tank
        /\ u.notSpectator = w.notSpectator /\ u.deserted = w.deserted
    BY <1>1, <2>4, <2>5, <2>6 DEF WorldState
  <2>8. u \in Worlds
    BY <1>1, <2>7 DEF Worlds
  <2> QED
    BY <2>1, <2>3, <2>7, <2>8 DEF Invoked, Moved, Answers
<1>4. CASE a.kind \in {"roundStart", "roundStop", "stop"} \/ w.tank[a.player] \notin TankStates
  <2>1. CASE a.kind # "score"
    <3>1. u = w
      BY <1>4, <2>1 DEF Invoke
    <3>2. a.player \in Players => w.tank[a.player] \notin TankStates \/ a.kind = "stop"
      BY <1>4, PlayersAre DEF SimAction, PlayerKinds
    <3>3. Moved(w, w, a)
      BY <3>2, NotInvoked
    <3> QED
      BY <1>2, <3>1, <3>3 DEF Invoked
  <2> QED
    BY <1>3, <2>1
<1>5. CASE ~(a.kind \in {"score", "roundStart", "roundStop", "stop"} \/ w.tank[a.player] \notin TankStates)
  <2>1. PICK p \in Players : p = a.player
    BY <1>5 DEF SimAction, RoundKinds
  <2>2. a.kind \in {"newMatch", "buying", "start", "newGame", "loaded", "spectate", "play", "remove"}
    BY <1>5 DEF SimAction, PlayerKinds, RoundKinds
  <2>3. PICK x \in TankStates : x = w.tank[p]
    BY <1>5, <2>1
  <2>4. PICK y, b : y = TankAfter(a, w.tank[p]) /\ b = WantsAfter(a, w.tank[p], w.notSpectator[p])
    OBVIOUS
  <2>5. CASE a.kind = "start"
    <3>1. u = InvokeStart(w, p, a.number)
      BY <1>5, <2>1, <2>5 DEF Invoke
    <3>2. /\ u \in Worlds /\ Later(w.game, u.game) /\ Answers(w.game, u.game)
          /\ u.tank = w.tank /\ u.notSpectator = w.notSpectator
      BY <3>1, InvokeStartIs
    <3>3. Moved(w, w, a)
      BY <2>5, NotInvoked
    <3> QED
      BY <3>2, <3>3 DEF Invoked, Moved
  <2>6. CASE a.kind = "remove"
    <3>1. u = [w EXCEPT !.deserted = w.deserted \cup {p}]
      BY <1>5, <2>1, <2>6 DEF Invoke
    <3>2. /\ u \in WorldState /\ u.game = w.game /\ u.tank = w.tank
          /\ u.notSpectator = w.notSpectator /\ u.deserted = w.deserted \cup {p}
      BY <1>1, <3>1 DEF WorldState
    <3>3. u \in Worlds
      BY <1>1, <2>3, <3>2 DEF Worlds, There
    <3>4. Moved(w, w, a)
      BY <2>6, NotInvoked
    <3> QED
      BY <1>2, <3>2, <3>3, <3>4 DEF Invoked, Moved
  <2>7. CASE a.kind = "newMatch"
    <3>1. PICK h : h = [w.game EXCEPT !.newlyJoined = @ \ {p}]
      OBVIOUS
    <3>2. Later(w.game, h) /\ Answers(w.game, h)
      BY <1>1, <3>1 DEF Later, Answers, GameState
    <3>3. y = SetState(x, "sDead") /\ b = w.notSpectator[p]
      BY <2>3, <2>4, <2>7 DEF TankAfter, WantsAfter
    <3>4. u = WithTank(WithGame(w, h), p, y, b)
      BY <1>1, <1>5, <2>1, <2>3, <2>7, <3>1, <3>3 DEF Invoke, WorldState, WithTank, WithGame
    <3> QED
      BY <2>1, <2>4, <3>2, <3>4, InvokeMove
  <2>8. CASE a.kind \in {"buying", "newGame", "loaded"}
    <3>1. b = w.notSpectator[p]
      BY <2>4, <2>8 DEF WantsAfter
    <3>2. u = [w EXCEPT !.tank[p] = y]
      BY <1>1, <1>5, <2>1, <2>3, <2>4, <2>8 DEF Invoke, TankAfter, WorldState
    <3>3. u = WithTank(WithGame(w, w.game), p, y, b)
      BY <1>1, <3>1, <3>2 DEF WorldState, WithTank, WithGame
    <3> QED
      BY <1>2, <2>1, <2>4, <3>3, InvokeMove
  <2>9. CASE a.kind \in {"spectate", "play"}
    <3>1. u = InvokeChange(w, p, a.kind = "spectate")
      BY <1>5, <2>1, <2>9 DEF Invoke
    <3>2. u = WithTank(WithGame(w, w.game), p, y, b)
      <4>1. CASE x = "sLoading" \/ (x = "sSpectator") = (a.kind = "spectate")
        <5>1. u = w /\ y = x /\ b = w.notSpectator[p]
          BY <2>3, <2>4, <2>9, <3>1, <4>1 DEF InvokeChange, TankAfter, WantsAfter, TankStates
        <5> QED
          BY <1>1, <2>3, <5>1 DEF WorldState, WithTank, WithGame
      <4>2. CASE ~(x = "sLoading" \/ (x = "sSpectator") = (a.kind = "spectate"))
        <5>1. u = [w EXCEPT !.tank[p] = SetState(x, IF a.kind = "spectate" THEN "sSpectator" ELSE "sDead"),
                            !.notSpectator[p] = ~(a.kind = "spectate")]
          BY <1>1, <2>3, <3>1, <4>2 DEF InvokeChange, WorldState
        <5>2. y = SetState(x, IF a.kind = "spectate" THEN "sSpectator" ELSE "sDead")
          BY <2>3, <2>4, <2>9, <4>2
             DEF TankAfter, TankStates, SetState, AllowedStateTransitions
        <5>3. b = ~(a.kind = "spectate")
          BY <2>3, <2>4, <2>9, <4>2 DEF WantsAfter, TankStates
        <5> QED
          BY <1>1, <5>1, <5>2, <5>3 DEF WorldState, WithTank, WithGame
      <4> QED
        BY <4>1, <4>2
    <3> QED
      BY <1>2, <2>1, <2>4, <3>2, InvokeMove
  <2> QED
    BY <2>2, <2>5, <2>6, <2>7, <2>8, <2>9
<1> QED
  BY <1>3, <1>4, <1>5

LEMMA LaterTwice ==
    ASSUME NEW g, NEW h, NEW k, Later(g, h), Later(h, k), Answers(g, h), Answers(h, k)
    PROVE  Later(g, k) /\ Answers(g, k)
BY DEF Later, Answers

LEMMA InvokeAndTellIs ==
    ASSUME NEW w \in Worlds, NEW a \in SimAction, NEW u, u = InvokeAndTell(w, a)
    PROVE  Invoked(w, u, a)
<1>1. PICK v : v = Invoke(w, a)
  OBVIOUS
<1>2. Invoked(w, v, a)
  BY <1>1, InvokeIs
<1>3. v \in Worlds
  BY <1>2 DEF Invoked
<1>4. PICK g \in GameState : g = v.game
  BY <1>3, WorldFields
<1>5. PICK h : h = ActionInvoked(g, a)
  OBVIOUS
<1>6. Later(g, h) /\ h.sendActions = g.sendActions
  BY <1>5, StartedIs
<1>7. u = WithGame(v, h)
  <2>1. u = [v EXCEPT !.game = ActionInvoked(v.game, a)]
    BY <1>1 DEF InvokeAndTell
  <2> QED
    BY <1>4, <1>5, <2>1 DEF WithGame
<1>8. u \in Worlds /\ u.game = h /\ u.tank = v.tank /\ u.notSpectator = v.notSpectator
  <2>1. h \in GameState
    BY <1>6 DEF Later
  <2> QED
    BY <1>3, <1>7, <2>1, WorldGame
<1>9. Later(w.game, h) /\ Answers(w.game, h)
  <2>1. Later(w.game, g) /\ Answers(w.game, g) /\ Answers(g, h)
    BY <1>2, <1>4, <1>6 DEF Invoked, Answers
  <2> QED
    BY <1>6, <2>1, LaterTwice
<1>10. Moved(w, u, a)
  BY <1>2, <1>8 DEF Invoked, Moved
<1> QED
  BY <1>8, <1>9, <1>10 DEF Invoked

\* The invariant of a player when an action of another is done.
LEMMA FitsTail ==
    ASSUME NEW S \in Seq(SimAction), NEW n \in 1 .. Len(S), NEW Q, NEW g, NEW tk, NEW ns, NEW tl,
           NEW p, Fits(S, n, Q, g, tk, ns, tl, p), S[n].player # p
    PROVE  Fits(S, n + 1, Q, g, tk, ns, tl, p)
<1>1. ASSUME NEW kind PROVE Has(S, n, kind, p) <=> Has(S, n + 1, kind, p)
  BY HasHead
<1>2. Once(S, n + 1, "loaded", p) /\ Once(S, n + 1, "buying", p)
  BY OnceHead DEF Fits, Loads, Buys, PendingOnce
<1>3. Flags(S, n + 1, ns, p)
  BY FlagsHead DEF Fits, Loads
<1>4. NoPlayBefore(S, n + 1, p)
  BY NoPlayHead DEF Fits, Buys
<1>5. Loads(S, n + 1, Q, tk, ns, tl, p)
  BY <1>1, <1>2, <1>3 DEF Fits, Loads, Pending, PendingOnce
<1>6. Buys(S, n + 1, Q, g.state, tk, ns, p)
  BY <1>1, <1>2, <1>4 DEF Fits, Buys, Pending, PendingOnce
<1>7. Plays(S, n + 1, g, tk, ns, p)
  BY <1>1 DEF Fits, Plays
<1> QED
  BY <1>5, <1>6, <1>7 DEF Fits

\* The invariant of the players of a world, in the game g.
WorldFits(S, n, Q, g, w, tl) == AllFit(S, n, Q, g, w.tank, w.notSpectator, tl)

\* The first of the actions is done.
LEMMA AllFitInvoked ==
    ASSUME NEW S \in Seq(SimAction), NEW n \in 1 .. Len(S), NEW Q, NEW g, NEW tl, NEW w \in Worlds,
           NEW u, Invoked(w, u, S[n]), WorldFits(S, n, Q, g, w, tl)
    PROVE  WorldFits(S, n + 1, Q, g, u, tl)
<1>1. PICK tk, ns : tk = w.tank /\ ns = w.notSpectator
  OBVIOUS
<1>2. PICK tk2, ns2 : tk2 = u.tank /\ ns2 = u.notSpectator
  OBVIOUS
<1>3. PICK a : a = S[n]
  OBVIOUS
<1>4. ASSUME NEW p \in Players PROVE Fits(S, n + 1, Q, g, tk2, ns2, tl, p)
  <2>1. Fits(S, n, Q, g, tk, ns, tl, p)
    BY <1>1 DEF WorldFits, AllFit
  <2>2. CASE a.player # p
    <3>1. tk2[p] = tk[p] /\ ns2[p] = ns[p]
      BY <1>1, <1>2, <1>3, <2>2 DEF Invoked, Moved
    <3>2. Fits(S, n + 1, Q, g, tk, ns, tl, p)
      BY <1>3, <2>1, <2>2, FitsTail
    <3> QED
      BY <3>1, <3>2, FitsSame
  <2>3. CASE a.player = p
    <3>1. tk2[p] = TankAfter(S[n], tk[p]) /\ ns2[p] = WantsAfter(S[n], tk[p], ns[p])
      BY <1>1, <1>2, <1>3, <2>3 DEF Invoked, Moved
    <3>2. tk[p] \in AllTankStates /\ S[n].player = p
      BY <1>1, <1>3, <2>3, WorldFields
    <3> QED
      BY <2>1, <3>1, <3>2, FitsInvoked
  <2> QED
    BY <2>2, <2>3
<1> QED
  BY <1>2, <1>4 DEF WorldFits, AllFit

\* Who is there stays there, while actions are invoked.
KeepsThere(w, u) ==
    \A p \in Players :
        /\ u.tank[p] \in TankStates <=> w.tank[p] \in TankStates
        /\ w.tank[p] \notin TankStates => u.tank[p] = w.tank[p]

LEMMA InvokedThere ==
    ASSUME NEW w \in Worlds, NEW u, NEW a, Invoked(w, u, a)
    PROVE  KeepsThere(w, u)
<1>1. ASSUME NEW p \in Players
      PROVE  /\ u.tank[p] \in TankStates <=> w.tank[p] \in TankStates
             /\ w.tank[p] \notin TankStates => u.tank[p] = w.tank[p]
  <2>1. CASE p # a.player
    BY <2>1 DEF Invoked, Moved
  <2>2. CASE p = a.player
    <3>1. PICK x \in AllTankStates, b \in BOOLEAN : x = w.tank[p] /\ b = w.notSpectator[p]
      BY WorldFields
    <3>2. u.tank[p] = TankAfter(a, x)
      BY <2>2, <3>1 DEF Invoked, Moved
    <3>3. TankAfter(a, x) \in TankStates <=> x \in TankStates
      BY <3>1, TankAfterTypes
    <3>4. x \notin TankStates => TankAfter(a, x) = x
      BY DEF TankAfter
    <3> QED
      BY <3>1, <3>2, <3>3, <3>4
  <2> QED
    BY <2>1, <2>2
<1> QED
  BY <1>1 DEF KeepsThere

\* All actions of a queue are invoked.
LEMMA AllInvoked ==
    ASSUME NEW S \in Seq(SimAction), NEW Q, NEW g, NEW tl, NEW w \in Worlds,
           WorldFits(S, 1, Q, g, w, tl),
           NEW after, after[0] = w,
           \A i \in 1 .. Len(S) : after[i - 1] \in Worlds => Invoked(after[i - 1], after[i], S[i])
    PROVE  /\ after[Len(S)] \in Worlds
           /\ Later(w.game, after[Len(S)].game) /\ Answers(w.game, after[Len(S)].game)
           /\ WorldFits(S, Len(S) + 1, Q, g, after[Len(S)], tl)
           /\ KeepsThere(w, after[Len(S)])
<1> DEFINE Done(i, u) == /\ u \in Worlds /\ Later(w.game, u.game) /\ Answers(w.game, u.game)
                         /\ WorldFits(S, i + 1, Q, g, u, tl) /\ KeepsThere(w, u)
<1> DEFINE U == {i \in 0 .. Len(S) : Done(i, after[i])}
<1>1. Len(S) \in Nat
  OBVIOUS
<1>2. 0 \in U
  <2>1. Later(w.game, w.game) /\ Answers(w.game, w.game) /\ KeepsThere(w, w)
    BY WorldFields, SameGame DEF KeepsThere
  <2>2. WorldFits(S, 0 + 1, Q, g, w, tl) /\ 0 \in 0 .. Len(S)
    BY <1>1
  <2> QED
    BY <2>1, <2>2
<1>3. ASSUME NEW i \in 1 .. Len(S), i - 1 \in U PROVE i \in U
  <2>1. PICK v : v = after[i - 1]
    OBVIOUS
  <2>2. PICK u : u = after[i]
    OBVIOUS
  <2>3. /\ v \in Worlds /\ Later(w.game, v.game) /\ Answers(w.game, v.game)
        /\ WorldFits(S, (i - 1) + 1, Q, g, v, tl) /\ KeepsThere(w, v)
    BY <1>3, <2>1
  <2>4. (i - 1) + 1 = i /\ i \in 0 .. Len(S)
    BY <1>1
  <2>5. Invoked(v, u, S[i])
    BY <2>1, <2>2, <2>3
  <2>6. WorldFits(S, i + 1, Q, g, u, tl)
    BY <2>3, <2>4, <2>5, AllFitInvoked
  <2>7. u \in Worlds /\ Later(v.game, u.game) /\ Answers(v.game, u.game)
    BY <2>5 DEF Invoked
  <2>8. Later(w.game, u.game) /\ Answers(w.game, u.game)
    BY <2>3, <2>7, LaterTwice
  <2>9. KeepsThere(v, u)
    BY <2>3, <2>5, InvokedThere
  <2>10. KeepsThere(w, u)
    BY <2>3, <2>9 DEF KeepsThere
  <2> QED
    BY <2>2, <2>4, <2>6, <2>7, <2>8, <2>10
<1>4. \A i \in 0 .. Len(S) : i \in U
  <2>1. \A i \in 1 .. Len(S) : i - 1 \in U => i \in U
    BY <1>3
  <2> HIDE DEF U
  <2> QED
    BY <1>1, <1>2, <2>1, UpTo
<1>5. Len(S) \in U
  BY <1>1, <1>4
<1> QED
  BY <1>5

\* What happens when the actions of a queue are invoked: without the call backs,
LEMMA InvokeLoop ==
    ASSUME NEW S \in Seq(SimAction), NEW w \in Worlds
    PROVE  \E after :
              /\ after[0] = w
              /\ \A i \in 1 .. Len(S) : after[i - 1] \in Worlds => Invoked(after[i - 1], after[i], S[i])
              /\ ForEachAction(S, Invoke, w) = after[Len(S)]
<1> DEFINE step == [x \in Worlds \X (1 .. Len(S)) |-> Invoke(x[1], S[x[2]])]
<1>1. ASSUME NEW x \in Worlds, NEW i \in 1 .. Len(S) PROVE Invoked(x, Invoke(x, S[i]), S[i])
  <2>1. PICK a \in SimAction : a = S[i]
    OBVIOUS
  <2>2. Invoked(x, Invoke(x, a), a)
    BY InvokeIs
  <2> QED
    BY <2>1, <2>2
<1>2. \A x \in Worlds, i \in 1 .. Len(S) : Invoke(x, S[i]) \in Worlds
  BY <1>1 DEF Invoked
<1>3. step \in [Worlds \X (1 .. Len(S)) -> Worlds]
  BY <1>2
<1>4. \A x \in Worlds, i \in 1 .. Len(S) : step[<<x, i>>] = Invoke(x, S[i])
  OBVIOUS
<1> HIDE DEF step
<1>5. Len(S) \in Nat
  OBVIOUS
<1>6. PICK f \in [0 .. Len(S) -> Worlds] : IsLoop(f, Len(S), w, step)
  BY <1>3, <1>5, LoopDefined
<1>7. ASSUME NEW i \in 0 .. Len(S), i # 0 PROVE step[<<f[i - 1], i>>] = Invoke(f[i - 1], S[i])
  <2>1. i \in 1 .. Len(S) /\ i - 1 \in 0 .. Len(S)
    BY <1>5, <1>7
  <2>2. f[i - 1] \in Worlds
    BY <2>1
  <2> QED
    BY <1>4, <2>1, <2>2
<1>8. f = [i \in 0 .. Len(S) |-> IF i = 0 THEN w ELSE Invoke(f[i - 1], S[i])]
  BY <1>6, <1>7 DEF IsLoop
<1> DEFINE after == CHOOSE g : g = [i \in 0 .. Len(S) |-> IF i = 0 THEN w ELSE Invoke(g[i - 1], S[i])]
<1>9. after = [i \in 0 .. Len(S) |-> IF i = 0 THEN w ELSE Invoke(after[i - 1], S[i])]
  BY <1>8, Zenon
<1>10. ForEachAction(S, Invoke, w) = after[Len(S)]
  BY Zenon DEF ForEachAction
<1> HIDE DEF after
<1>11. /\ after[0] = w
       /\ \A i \in 1 .. Len(S) : after[i] = Invoke(after[i - 1], S[i])
  BY <1>5, <1>9
<1>12. ASSUME NEW i \in 1 .. Len(S), after[i - 1] \in Worlds
       PROVE  Invoked(after[i - 1], after[i], S[i])
  BY <1>1, <1>11, <1>12
<1> QED
  BY <1>10, <1>11, <1>12

\* and with them.
LEMMA TellLoop ==
    ASSUME NEW S \in Seq(SimAction), NEW w \in Worlds
    PROVE  \E after :
              /\ after[0] = w
              /\ \A i \in 1 .. Len(S) : after[i - 1] \in Worlds => Invoked(after[i - 1], after[i], S[i])
              /\ ForEachAction(S, InvokeAndTell, w) = after[Len(S)]
<1> DEFINE step == [x \in Worlds \X (1 .. Len(S)) |-> InvokeAndTell(x[1], S[x[2]])]
<1>1. ASSUME NEW x \in Worlds, NEW i \in 1 .. Len(S) PROVE Invoked(x, InvokeAndTell(x, S[i]), S[i])
  <2>1. PICK a \in SimAction : a = S[i]
    OBVIOUS
  <2>2. Invoked(x, InvokeAndTell(x, a), a)
    BY InvokeAndTellIs
  <2> QED
    BY <2>1, <2>2
<1>2. \A x \in Worlds, i \in 1 .. Len(S) : InvokeAndTell(x, S[i]) \in Worlds
  BY <1>1 DEF Invoked
<1>3. step \in [Worlds \X (1 .. Len(S)) -> Worlds]
  BY <1>2
<1>4. \A x \in Worlds, i \in 1 .. Len(S) : step[<<x, i>>] = InvokeAndTell(x, S[i])
  OBVIOUS
<1> HIDE DEF step
<1>5. Len(S) \in Nat
  OBVIOUS
<1>6. PICK f \in [0 .. Len(S) -> Worlds] : IsLoop(f, Len(S), w, step)
  BY <1>3, <1>5, LoopDefined
<1>7. ASSUME NEW i \in 0 .. Len(S), i # 0 PROVE step[<<f[i - 1], i>>] = InvokeAndTell(f[i - 1], S[i])
  <2>1. i \in 1 .. Len(S) /\ i - 1 \in 0 .. Len(S)
    BY <1>5, <1>7
  <2>2. f[i - 1] \in Worlds
    BY <2>1
  <2> QED
    BY <1>4, <2>1, <2>2
<1>8. f = [i \in 0 .. Len(S) |-> IF i = 0 THEN w ELSE InvokeAndTell(f[i - 1], S[i])]
  BY <1>6, <1>7 DEF IsLoop
<1> DEFINE after == CHOOSE g : g = [i \in 0 .. Len(S) |-> IF i = 0 THEN w ELSE InvokeAndTell(g[i - 1], S[i])]
<1>9. after = [i \in 0 .. Len(S) |-> IF i = 0 THEN w ELSE InvokeAndTell(after[i - 1], S[i])]
  BY <1>8, Zenon
<1>10. ForEachAction(S, InvokeAndTell, w) = after[Len(S)]
  BY Zenon DEF ForEachAction
<1> HIDE DEF after
<1>11. /\ after[0] = w
       /\ \A i \in 1 .. Len(S) : after[i] = InvokeAndTell(after[i - 1], S[i])
  BY <1>5, <1>9
<1>12. ASSUME NEW i \in 1 .. Len(S), after[i - 1] \in Worlds
       PROVE  Invoked(after[i - 1], after[i], S[i])
  BY <1>1, <1>11, <1>12
<1> QED
  BY <1>10, <1>11, <1>12
-----------------------------------------------------------------------------
(* An interval.                                                             *)

LEMMA StopsOnly ==
    ASSUME NEW q, OnlyStops(q), NEW p, NEW ns
    PROVE  /\ \A kind : kind # "stop" => ~Has(q, 1, kind, p) /\ Once(q, 1, kind, p)
           /\ Flags(q, 1, ns, p) /\ NoPlayBefore(q, 1, p)
<1>1. ASSUME NEW kind, kind # "stop" PROVE ~Has(q, 1, kind, p) /\ Once(q, 1, kind, p)
  BY <1>1 DEF OnlyStops, Has, Once
<1>2. Flags(q, 1, ns, p)
  BY DEF OnlyStops, Flags
<1>3. NoPlayBefore(q, 1, p)
  BY DEF OnlyStops, NoPlayBefore
<1> QED
  BY <1>1, <1>2, <1>3

\* When all actions of S are done those of Q are the next, and R the ones to send.
LEMMA FitsNext ==
    ASSUME NEW S \in Seq(SimAction), NEW Q, NEW R, NEW g, NEW tk, NEW ns, NEW tl, NEW p,
           Fits(S, Len(S) + 1, Q, g, tk, ns, tl, p), OnlyStops(R),
           Has(Q, 1, "newGame", p) => g.state = "TankNewGame",
           NEW el \in Nat, el > 0
    PROVE  Fits(Q, 1, R, g, tk, ns, tl, p) /\ Between(Q, R, g.state, tk, el, p)
<1> DEFINE n == Len(S) + 1
<1>1. \A kind : ~Has(S, n, kind, p)
  <2>1. n \in Nat /\ Len(S) \in Nat /\ Len(S) < n
    OBVIOUS
  <2> QED
    BY <2>1, NothingLeft
<1> HIDE DEF n
<1>2. Fits(S, n, Q, g, tk, ns, tl, p)
  BY DEF n
<1>3. /\ \A kind : kind # "stop" => ~Has(R, 1, kind, p) /\ Once(R, 1, kind, p)
      /\ Flags(R, 1, ns, p) /\ NoPlayBefore(R, 1, p)
  BY StopsOnly
<1>4. Loads(Q, 1, R, tk, ns, tl, p)
  BY <1>1, <1>2, <1>3 DEF Fits, Loads, Pending, PendingOnce
<1>5. Buys(Q, 1, R, g.state, tk, ns, p)
  BY <1>1, <1>2, <1>3 DEF Fits, Buys, Pending, PendingOnce
<1>6. Plays(Q, 1, g, tk, ns, p)
  BY <1>2 DEF Fits, Plays
<1>7. Between(Q, R, g.state, tk, el, p)
  BY <1>1, <1>2, <1>3 DEF Between, Fits, Buys, Pending
<1> QED
  BY <1>4, <1>5, <1>6, <1>7 DEF Fits

LEMMA RunScoreIs ==
    ASSUME NEW w \in Worlds, NEW u, u = RunScore(w)
    PROVE  /\ u \in Worlds /\ Later(w.game, u.game) /\ u.game.sendActions = w.game.sendActions
           /\ u.tank = w.tank /\ u.notSpectator = w.notSpectator /\ u.deserted = w.deserted
<1>1. /\ w \in WorldState /\ w.game \in GameState
      /\ w.score \in [shown : BOOLEAN, left : Nat, age : 0 .. ReferencedTime]
      /\ w.deserted \subseteq There(w.tank)
  BY WorldFields
<1>2. PICK sc \in [shown : BOOLEAN, left : Nat, age : 0 .. ReferencedTime] : sc = w.score
  BY <1>1
<1>3. PICK no \in [shown : BOOLEAN, left : Nat, age : 0 .. ReferencedTime] : no = NoScore
  <2>1. 0 \in 0 .. ReferencedTime
    BY RoundOptionsAssumption
  <2> QED
    BY <2>1 DEF NoScore
<1>4. PICK g \in GameState, so \in [shown : BOOLEAN, left : Nat, age : 0 .. ReferencedTime] :
          u = [w EXCEPT !.score = so, !.game = g] /\ Later(w.game, g) /\ g.sendActions = w.game.sendActions
  <2>1. Later(w.game, w.game)
    BY <1>1, SameGame
  <2>2. CASE ~sc.shown
    <3>1. u = w
      BY <1>2, <2>2 DEF RunScore
    <3>2. u = [w EXCEPT !.score = sc, !.game = w.game]
      BY <1>1, <1>2, <3>1 DEF WorldState
    <3> QED
      BY <1>1, <2>1, <3>2
  <2>3. CASE sc.shown /\ sc.left <= 1
    <3>1. PICK g : g = [w.game EXCEPT !.finished = IF w.game.state = "Score" THEN TRUE ELSE @]
      OBVIOUS
    <3>2. g \in GameState /\ Later(w.game, g) /\ g.sendActions = w.game.sendActions
      BY <1>1, <3>1 DEF GameState, Later
    <3>3. u = [w EXCEPT !.score = no, !.game = g]
      BY <1>1, <1>2, <1>3, <2>3, <3>1 DEF RunScore, WorldState
    <3> QED
      BY <3>2, <3>3
  <2>4. CASE sc.shown /\ ~(sc.left <= 1) /\ sc.age >= ReferencedTime
    <3>1. u = [w EXCEPT !.score = no]
      BY <1>2, <1>3, <2>4 DEF RunScore
    <3>2. u = [w EXCEPT !.score = no, !.game = w.game]
      BY <1>1, <3>1 DEF WorldState
    <3> QED
      BY <1>1, <2>1, <3>2
  <2>5. CASE sc.shown /\ ~(sc.left <= 1) /\ ~(sc.age >= ReferencedTime)
    <3>1. u = [w EXCEPT !.score.left = @ - 1, !.score.age = @ + 1]
      BY <1>2, <2>5 DEF RunScore
    <3>2. PICK left \in Nat, age \in 0 .. ReferencedTime : left = sc.left - 1 /\ age = sc.age + 1
      BY <2>5, RoundOptionsAssumption
    <3>3. PICK so \in [shown : BOOLEAN, left : Nat, age : 0 .. ReferencedTime] :
              so = [sc EXCEPT !.left = left, !.age = age]
      OBVIOUS
    <3>4. u = [w EXCEPT !.score = so, !.game = w.game]
      BY <1>1, <1>2, <3>1, <3>2, <3>3 DEF WorldState
    <3> QED
      BY <1>1, <2>1, <3>4
  <2> QED
    BY <2>2, <2>3, <2>4, <2>5
<1>5. /\ u \in WorldState /\ u.game = g /\ u.tank = w.tank
      /\ u.notSpectator = w.notSpectator /\ u.deserted = w.deserted
  BY <1>1, <1>4 DEF WorldState
<1>6. u \in Worlds
  BY <1>1, <1>5 DEF Worlds
<1> QED
  BY <1>4, <1>5, <1>6

LEMMA PresentIs == Present = There(tank)
BY DEF Present, There

LEMMA WorldIs ==
    ASSUME TypeOK
    PROVE  /\ World \in Worlds /\ World.game = game /\ World.tank = tank
           /\ World.notSpectator = notSpectator /\ World.deserted = deserted
<1>1. World \in WorldState
  BY PresentIs DEF TypeOK, World, WorldState, AllTankStates, Present
<1> QED
  BY <1>1, PresentIs DEF TypeOK, Worlds, World

LEMMA RoundsFit ==
    ASSUME RoundsInv, NEW w, w.tank = tank, w.notSpectator = notSpectator
    PROVE  WorldFits(simActions, 1, game.sendActions, game, w, toLoad)
BY DEF RoundsInv, WorldFits, AllFit

LEMMA IntervalHolds ==
    ASSUME IInv, SimulateInterval
    PROVE  IInv'
<1>1. TypeOK /\ RoundsInv /\ game.round <= levels
  BY DEF IInv
<1>2. PICK Q \in Seq(SimAction) : Q = game.sendActions
  BY <1>1, GameFields DEF TypeOK
<1>3. PICK g0 : g0 = [game EXCEPT !.sendActions = <<>>]
  OBVIOUS
<1>4. Later(game, g0) /\ g0.sendActions = <<>> /\ g0.bought = game.bought
  <2>1. <<>> \in Seq(SimAction)
    OBVIOUS
  <2> QED
    BY <1>1, <1>3, <2>1 DEF TypeOK, GameState, Later
<1>5. PICK w0 : w0 = WithGame(World, g0)
  OBVIOUS
<1>6. /\ w0 \in Worlds /\ w0.game = g0 /\ w0.tank = tank /\ w0.notSpectator = notSpectator
      /\ w0.deserted = deserted
  <2>1. g0 \in GameState
    BY <1>4 DEF Later
  <2> QED
    BY <1>1, <1>5, <2>1, WorldIs, WorldGame
<1>7. PICK w1 : w1 = RunScore(w0)
  OBVIOUS
<1>8. /\ w1 \in Worlds /\ Later(g0, w1.game) /\ w1.game.sendActions = <<>>
      /\ w1.tank = tank /\ w1.notSpectator = notSpectator /\ w1.deserted = deserted
  BY <1>4, <1>6, <1>7, RunScoreIs
<1>9. PICK w : w = ForEachAction(simActions, InvokeAndTell, w1)
  OBVIOUS
<1>10. simActions \in Seq(SimAction)
  BY <1>1 DEF TypeOK
<1>11. PICK after : /\ after[0] = w1
                    /\ \A i \in 1 .. Len(simActions) : after[i - 1] \in Worlds =>
                           Invoked(after[i - 1], after[i], simActions[i])
                    /\ w = after[Len(simActions)]
  BY <1>8, <1>9, <1>10, TellLoop
<1>12. WorldFits(simActions, 1, Q, game, w1, toLoad)
  BY <1>1, <1>2, <1>8, RoundsFit
<1>13. /\ w \in Worlds /\ Later(w1.game, w.game) /\ Answers(w1.game, w.game)
       /\ WorldFits(simActions, Len(simActions) + 1, Q, game, w, toLoad)
  BY <1>8, <1>10, <1>11, <1>12, AllInvoked
<1>14. /\ elapsed < MaxLag /\ elapsed' = elapsed + 1 /\ simActions' = Q
       /\ game' = w.game /\ tank' = w.tank /\ notSpectator' = w.notSpectator
       /\ deserted' = w.deserted /\ score' = w.score
       /\ UNCHANGED <<shots, toLoad, levels, changes>>
  <2>1. w = ForEachAction(simActions, InvokeAndTell, RunScore([World EXCEPT !.game.sendActions = <<>>]))
    <3>1. w0 = [World EXCEPT !.game.sendActions = <<>>]
      BY <1>3, <1>5 DEF WithGame, World
    <3> QED
      BY <1>7, <1>9, <3>1
  <2> QED
    BY <1>2, <2>1 DEF SimulateInterval
<1>15. told' \subseteq Players \X Nat
  <2>1. ASSUME NEW a \in ToSet(game.sendActions), a.kind = "start" PROVE <<a.player, a.number>> \in Players \X Nat
    <3>1. a \in SimAction
      BY <1>2 DEF ToSet
    <3> QED
      BY <2>1, <3>1 DEF SimAction, RoundKinds
  <2>2. told' = told \cup {<<a.player, a.number>> :
                a \in {b \in ToSet(game.sendActions) :
                        b.kind = "start" /\ b.player \notin deserted}}
    BY DEF SimulateInterval
  <2> QED
    BY <1>1, <2>1, <2>2 DEF TypeOK
<1>16. /\ game'.state = game.state /\ game'.round = game.round
       /\ game.bought \subseteq game'.bought
  BY <1>4, <1>8, <1>13, <1>14 DEF Later
<1>17. TypeOK'
  <2>1. /\ w.game \in GameState /\ w.tank \in [Players -> AllTankStates]
        /\ w.notSpectator \in [Players -> BOOLEAN]
        /\ w.score \in [shown : BOOLEAN, left : Nat, age : 0 .. ReferencedTime]
        /\ w.deserted \subseteq There(w.tank)
    BY <1>13, WorldFields
  <2>2. (deserted \subseteq Present)'
    BY <1>14, <2>1 DEF Present, There
  <2>3. elapsed' \in 0 .. MaxLag
    BY <1>1, <1>14, RoundBoundsAssumption DEF TypeOK
  <2> QED
    BY <1>1, <1>14, <1>15, <2>1, <2>2, <2>3 DEF TypeOK, AllTankStates
<1>18. OnlyStops(game'.sendActions)
  <2>1. OnlyStops(w1.game.sendActions)
    BY <1>8 DEF OnlyStops
  <2> QED
    BY <1>13, <1>14, <2>1 DEF Answers
<1>19. RoundsInv'
  <2>1. PICK g, tk : g = game' /\ tk = tank'
    OBVIOUS
  <2>2. PICK ns, R : ns = notSpectator' /\ R = game'.sendActions
    OBVIOUS
  <2>3. PICK el \in Nat : el = elapsed' /\ el > 0
    BY <1>1, <1>14, RoundBoundsAssumption DEF TypeOK
  <2>4. ASSUME NEW p \in Players
        PROVE  Fits(Q, 1, R, g, tk, ns, toLoad, p) /\ Between(Q, R, g.state, tk, el, p)
    <3>1. Fits(simActions, Len(simActions) + 1, Q, g, tk, ns, toLoad, p)
      <4>1. Fits(simActions, Len(simActions) + 1, Q, game, tk, ns, toLoad, p)
        BY <1>13, <1>14, <2>1, <2>2 DEF WorldFits, AllFit
      <4>2. g.state = game.state /\ (Due(g, p) => Due(game, p))
        BY <1>16, <2>1 DEF Due, BuyingRound
      <4> QED
        BY <4>1, <4>2, FitsSame
    <3>2. Has(Q, 1, "newGame", p) => g.state = "TankNewGame"
      BY <1>1, <1>2, <1>16, <2>1 DEF RoundsInv, Between
    <3> QED
      BY <1>10, <1>18, <2>2, <2>3, <3>1, <3>2, FitsNext
  <2> QED
    BY <1>14, <2>1, <2>2, <2>3, <2>4 DEF RoundsInv
<1> QED
  BY <1>1, <1>14, <1>16, <1>17, <1>19 DEF IInv
-----------------------------------------------------------------------------
(* A new level.                                                             *)

\* Whoever is there loads it, but who left.
LoadingTank(tk, away, p) ==
    IF p \in away THEN "gone" ELSE IF tk[p] \in TankStates THEN "sLoading" ELSE tk[p]

LoadsLevel(tl, tk, away, p) ==
    p \notin away /\ (p \in tl \/ tk[p] \in TankStates \ {"sLoading"})

NewLoads(tk, tk2, tl, tl2, away, p) ==
    /\ tk[p] \in AllTankStates
    /\ tk2[p] = LoadingTank(tk, away, p)
    /\ p \in tl2 => LoadsLevel(tl, tk, away, p)

FreshFits(E, Q, g, tk, ns, tl, p) ==
    Fits(E, 1, Q, g, tk, ns, tl, p) /\ Between(E, Q, g.state, tk, 0, p)

LEMMA FitsNewGame ==
    ASSUME NEW S \in Seq(SimAction), NEW Q, NEW g, NEW tk, NEW ns, NEW tl, NEW p, NEW away,
           Fits(S, Len(S) + 1, Q, g, tk, ns, tl, p), g.state \in {"Startup", "NewLevel"},
           ~Has(Q, 1, "newGame", p), NEW tk2, NEW tl2, NewLoads(tk, tk2, tl, tl2, away, p),
           NEW g2, g2.state \in {"WaitingForPlayers", "Buying"}, NEW E, E = <<>>
    PROVE  FreshFits(E, Q, g2, tk2, ns, tl2, p)
<1> DEFINE n == Len(S) + 1
<1>1. \A kind : ~Has(S, n, kind, p)
  <2>1. n \in Nat /\ Len(S) \in Nat /\ Len(S) < n
    OBVIOUS
  <2> QED
    BY <2>1, NothingLeft
<1> HIDE DEF n
<1>2. Fits(S, n, Q, g, tk, ns, tl, p)
  BY DEF n
<1>3. /\ \A kind : ~Has(E, 1, kind, p) /\ Once(E, 1, kind, p)
      /\ Flags(E, 1, ns, p) /\ NoPlayBefore(E, 1, p)
  <2>1. Len(E) \in Nat /\ 1 \in Nat /\ Len(E) < 1
    OBVIOUS
  <2> QED
    BY <2>1, NothingLeft
<1>4. PICK x \in AllTankStates : x = tk[p]
  BY DEF NewLoads
<1>5. PICK y : y = tk2[p]
  OBVIOUS
<1>6. /\ y = IF p \in away THEN "gone" ELSE IF x \in TankStates THEN "sLoading" ELSE x
      /\ p \in tl2 => p \notin away /\ (p \in tl \/ x \in TankStates \ {"sLoading"})
  BY <1>4, <1>5 DEF NewLoads, LoadingTank, LoadsLevel
<1>7. Loads(E, 1, Q, tk2, ns, tl2, p)
  BY <1>1, <1>2, <1>3, <1>4, <1>5, <1>6
     DEF Fits, Loads, Pending, PendingOnce, TankStates, AllTankStates
<1>8. /\ Has(Q, 1, "buying", p) \/ Has(Q, 1, "newMatch", p) => x = "gone" /\ y = "gone"
  BY <1>1, <1>2, <1>4, <1>5, <1>6 DEF Fits, Buys, Pending, TankStates
<1>9. Buys(E, 1, Q, g2.state, tk2, ns, p)
  BY <1>1, <1>2, <1>3, <1>4, <1>5, <1>8 DEF Fits, Buys, Pending, PendingOnce
<1>10. y \in {"sLoading", "gone", "away"}
  BY <1>6 DEF AllTankStates
<1>11. Plays(E, 1, g2, tk2, ns, p)
  BY <1>3, <1>4, <1>5, <1>10 DEF Plays
<1>12. Between(E, Q, g2.state, tk2, 0, p)
  BY <1>3, <1>4, <1>5, <1>8, <1>10 DEF Between
<1> QED
  BY <1>7, <1>9, <1>11, <1>12 DEF Fits, FreshFits

LEMMA EnterBuyingIs ==
    ASSUME NEW g \in GameState, NEW h, h = EnterBuying(g)
    PROVE  /\ h \in GameState /\ h.state = "Buying" /\ h.round = g.round
           /\ h.sendActions = g.sendActions
<1>1. PICK timers \in [Players -> Timer], moveId \in [Players -> Nat] :
          timers = [p \in Players |-> NoTimer] /\ moveId = [p \in Players |-> 0]
  <2>1. NoTimer \in Timer
    BY RoundOptionsAssumption DEF NoTimer, Timer
  <2> QED
    BY <2>1
<1>2. PICK new \in SUBSET Players : new = IF g.round = 1 THEN Players ELSE g.newlyJoined
  BY GameFields
<1>3. PICK none \in SUBSET Players, st \in States, zero \in Nat :
          none = {} /\ st = "Buying" /\ zero = 0
  BY DEF States
<1>4. h = [g EXCEPT !.state = st, !.bought = none, !.time = zero, !.timers = timers,
                    !.moveId = moveId, !.newlyJoined = new]
  BY <1>1, <1>2, <1>3 DEF EnterBuying
<1> QED
  BY <1>3, <1>4 DEF GameState

LEMMA NewGameHolds ==
    ASSUME IInv, NEW g \in GameState, g.state = game.state, g.state \in {"Startup", "NewLevel"},
           g.sendActions = game.sendActions, g.round <= levels,
           NewGame(g), elapsed' = 0, UNCHANGED <<told, changes>>
    PROVE  IInv'
<1>1. TypeOK /\ RoundsInv /\ simActions \in Seq(SimAction)
  BY DEF IInv, TypeOK
<1>2. levels < MaxLevels /\ levels \in 0 .. MaxLevels /\ MaxLevels \in Nat
  BY <1>1, RoundBoundsAssumption DEF TypeOK, NewGame
<1>3. PICK g1 : g1 = [g EXCEPT !.round = @ + 1]
  OBVIOUS
<1>4. /\ g1 \in GameState /\ g1.state = g.state /\ g1.round = g.round + 1
      /\ g1.sendActions = g.sendActions
  <2>1. g.round + 1 \in 0 .. MaxLevels
    BY <1>2, GameFields
  <2> QED
    BY <1>3, <2>1 DEF GameState
<1>5. PICK w0 : w0 = WithGame(World, g1)
  OBVIOUS
<1>6. /\ w0 \in Worlds /\ w0.game = g1 /\ w0.tank = tank /\ w0.notSpectator = notSpectator
      /\ w0.deserted = deserted
  BY <1>1, <1>4, <1>5, WorldIs, WorldGame
<1>7. PICK w : w = ForEachAction(simActions, Invoke, w0)
  OBVIOUS
<1>8. PICK after : /\ after[0] = w0
                   /\ \A i \in 1 .. Len(simActions) : after[i - 1] \in Worlds =>
                          Invoked(after[i - 1], after[i], simActions[i])
                   /\ w = after[Len(simActions)]
  BY <1>1, <1>6, <1>7, InvokeLoop
<1>9. PICK Q \in Seq(SimAction) : Q = game.sendActions
  BY <1>1, GameFields DEF TypeOK
<1>10. WorldFits(simActions, 1, Q, game, w0, toLoad)
  BY <1>1, <1>6, <1>9, RoundsFit
<1>11. /\ w \in Worlds /\ Later(g1, w.game) /\ Answers(g1, w.game)
       /\ WorldFits(simActions, Len(simActions) + 1, Q, game, w, toLoad)
       /\ KeepsThere(w0, w)
  BY <1>1, <1>6, <1>8, <1>10, AllInvoked
<1>12. w.game \in GameState /\ w.game.round = g.round + 1 /\ w.game.sendActions = Q
  BY <1>4, <1>9, <1>11 DEF Later, Answers
<1> DEFINE there == {p \in Present : w.tank[p] # "sLoading"}
<1>13. /\ levels' = levels + 1 /\ simActions' = <<>>
       /\ tank' = [p \in Players |-> IF p \in w.deserted THEN "gone"
                                     ELSE IF p \in there THEN "sLoading" ELSE w.tank[p]]
       /\ notSpectator' = w.notSpectator /\ deserted' = {} /\ score' = NoScore /\ shots' = FALSE
       /\ toLoad' = (toLoad \cup there) \ w.deserted
       /\ game' = IF g.state = "Startup" THEN [w.game EXCEPT !.state = "WaitingForPlayers"]
                  ELSE EnterBuying(w.game)
  <2>1. w = ForEachAction(simActions, Invoke, [World EXCEPT !.game = [g EXCEPT !.round = @ + 1]])
    BY <1>3, <1>5, <1>7 DEF WithGame
  <2> QED
    BY <2>1 DEF NewGame
<1>14. /\ game' \in GameState /\ game'.round = g.round + 1 /\ game'.sendActions = Q
       /\ game'.state \in {"WaitingForPlayers", "Buying"}
  <2>1. CASE g.state = "Startup"
    <3>1. game' = [w.game EXCEPT !.state = "WaitingForPlayers"]
      BY <1>13, <2>1
    <3> QED
      BY <1>12, <3>1 DEF GameState, States
  <2>2. CASE g.state # "Startup"
    <3>1. PICK h \in GameState : h = w.game
      BY <1>12
    <3>2. game' = EnterBuying(h)
      BY <1>13, <2>2, <3>1
    <3> QED
      BY <1>12, <3>1, <3>2, EnterBuyingIs
  <2> QED
    BY <2>1, <2>2
<1>15. /\ w.tank \in [Players -> AllTankStates] /\ w.notSpectator \in [Players -> BOOLEAN]
       /\ w.deserted \subseteq Players
  BY <1>11, WorldFields
<1>16. TypeOK'
  <2>1. tank' \in [Players -> TankStates \cup {"away", "gone"}]
    BY <1>13, <1>15 DEF TankStates, AllTankStates
  <2>2. toLoad' \subseteq Players
    BY <1>1, <1>13 DEF TypeOK, Present
  <2>3. score' \in [shown : BOOLEAN, left : Nat, age : 0 .. ReferencedTime]
    <3>1. 0 \in 0 .. ReferencedTime
      BY RoundOptionsAssumption
    <3> QED
      BY <1>13, <3>1 DEF NoScore
  <2>4. levels' \in 0 .. MaxLevels /\ elapsed' \in 0 .. MaxLag
    BY <1>2, <1>13, RoundBoundsAssumption
  <2>5. /\ shots' \in BOOLEAN /\ deserted' = {}
        /\ notSpectator' \in [Players -> BOOLEAN] /\ told' = told /\ changes' = changes
    BY <1>13, <1>15
  <2>6. simActions' \in Seq(SimAction)
    BY <1>13
  <2> QED
    BY <1>1, <1>14, <2>1, <2>2, <2>3, <2>4, <2>5, <2>6 DEF TypeOK
<1>17. ASSUME NEW p \in Players
       PROVE  /\ tank'[p] = LoadingTank(w.tank, w.deserted, p)
              /\ p \in toLoad' => LoadsLevel(toLoad, w.tank, w.deserted, p)
  <2>1. p \in Present <=> w.tank[p] \in TankStates
    BY <1>6, <1>11 DEF KeepsThere, Present
  <2>2. p \in there <=> w.tank[p] \in TankStates \ {"sLoading"}
    BY <2>1
  <2>3. tank'[p] = IF p \in w.deserted THEN "gone"
                   ELSE IF p \in there THEN "sLoading" ELSE w.tank[p]
    BY <1>13
  <2>4. p \in toLoad' => p \notin w.deserted /\ (p \in toLoad \/ p \in there)
    BY <1>13
  <2> HIDE DEF there
  <2>5. tank'[p] = LoadingTank(w.tank, w.deserted, p)
    BY <2>2, <2>3 DEF LoadingTank
  <2> QED
    BY <2>2, <2>4, <2>5 DEF LoadsLevel
<1>18. RoundsInv'
  <2>1. PICK g2, tk2 : g2 = game' /\ tk2 = tank'
    OBVIOUS
  <2>2. PICK tl2, away : tl2 = toLoad' /\ away = w.deserted
    OBVIOUS
  <2>3. PICK tk, ns : tk = w.tank /\ ns = w.notSpectator
    OBVIOUS
  <2>4. PICK E : E = simActions'
    OBVIOUS
  <2>5. ASSUME NEW p \in Players
        PROVE  FreshFits(E, Q, g2, tk2, ns, tl2, p)
    <3>1. Fits(simActions, Len(simActions) + 1, Q, game, tk, ns, toLoad, p)
      BY <1>11, <2>3 DEF WorldFits, AllFit
    <3>2. ~Has(Q, 1, "newGame", p)
      BY <1>1, <1>9 DEF RoundsInv, Between
    <3>3. NewLoads(tk, tk2, toLoad, tl2, away, p)
      BY <1>15, <1>17, <2>1, <2>2, <2>3 DEF NewLoads
    <3>4. g2.state \in {"WaitingForPlayers", "Buying"}
      BY <1>14, <2>1
    <3>5. game.state \in {"Startup", "NewLevel"} /\ E = <<>>
      BY <1>13, <2>4
    <3> QED
      BY <1>1, <3>1, <3>2, <3>3, <3>4, <3>5, FitsNewGame
  <2> QED
    BY <1>13, <1>14, <2>1, <2>2, <2>3, <2>4, <2>5 DEF RoundsInv, FreshFits
<1>19. game'.round <= levels'
  BY <1>2, <1>13, <1>14, GameFields
<1> QED
  BY <1>16, <1>18, <1>19 DEF IInv
-----------------------------------------------------------------------------
(* The other states.                                                        *)

LEMMA RunningIs ==
    ASSUME NEW g \in GameState, simActions \in Seq(SimAction), NEW kind, NEW p
    PROVE  p \in Running(g, kind) <=> Has(g.sendActions, 1, kind, p) \/ Has(simActions, 1, kind, p)
<1>1. PICK q \in Seq(SimAction) : q = g.sendActions
  BY GameFields
<1>2. Len(q) \in Nat /\ DOMAIN q = 1 .. Len(q) /\ DOMAIN simActions = 1 .. Len(simActions)
  OBVIOUS
<1>3. ASSUME p \in Running(g, kind) PROVE Has(q, 1, kind, p) \/ Has(simActions, 1, kind, p)
  <2>1. PICK a \in ToSet(q) \cup ToSet(simActions) : a.kind = kind /\ a.player = p
    BY <1>1, <1>3 DEF Running
  <2>2. CASE a \in ToSet(q)
    BY <1>2, <2>1, <2>2 DEF ToSet, Has
  <2>3. CASE a \in ToSet(simActions)
    BY <1>2, <2>1, <2>3 DEF ToSet, Has
  <2> QED
    BY <2>1, <2>2, <2>3
<1>4. ASSUME NEW r \in {q, simActions}, Has(r, 1, kind, p) PROVE p \in Running(g, kind)
  <2>1. PICK i \in 1 .. Len(r) : r[i].kind = kind /\ r[i].player = p
    BY <1>4 DEF Has
  <2>2. r[i] \in ToSet(q) \cup ToSet(simActions)
    BY <1>2, <1>4, <2>1 DEF ToSet
  <2> QED
    BY <1>1, <2>1, <2>2 DEF Running
<1> QED
  BY <1>1, <1>3, <1>4

\* What a state sends when it begins or ends: nothing that concerns a player alone.
Sends(q, r) ==
    r = q \/ \E a \in SimAction :
                 /\ a.kind \notin {"newMatch", "buying", "newGame", "loaded", "play"}
                 /\ r = Append(q, a)

\* The invariant of a player when the state stays,
LEMMA FitsSends ==
    ASSUME NEW S, NEW Q \in Seq(SimAction), NEW R, Sends(Q, R), NEW g, NEW tk, NEW ns, NEW tl,
           NEW el, NEW p, Fits(S, 1, Q, g, tk, ns, tl, p), Between(S, Q, g.state, tk, el, p)
    PROVE  Fits(S, 1, R, g, tk, ns, tl, p) /\ Between(S, R, g.state, tk, el, p)
<1>1. CASE R = Q
  BY <1>1
<1>2. CASE R # Q
  <2>1. PICK a \in SimAction : Apart(a, p) /\ R = Append(Q, a)
    BY <1>2 DEF Sends, Apart
  <2>2. Fits(S, 1, Append(Q, a), g, tk, ns, tl, p)
    BY <2>1, FitsAppend DEF Apart, MaySend
  <2>3. Between(S, Append(Q, a), g.state, tk, el, p)
    BY <2>1, BetweenAppend
  <2> QED
    BY <2>1, <2>2, <2>3
<1> QED
  BY <1>1, <1>2

\* and when it becomes another than the two of buying.
LEMMA FitsLeaves ==
    ASSUME NEW S, NEW Q, NEW g, NEW tk, NEW ns, NEW tl, NEW el, NEW p,
           Fits(S, 1, Q, g, tk, ns, tl, p), Between(S, Q, g.state, tk, el, p),
           g.state # "Buying",
           ~Has(S, 1, "newGame", p) /\ ~Has(Q, 1, "newGame", p),
           NEW g2, g2.state \notin {"Buying", "TankNewGame"}, Due(g2, p) => Due(g, p), NEW el2
    PROVE  Fits(S, 1, Q, g2, tk, ns, tl, p) /\ Between(S, Q, g2.state, tk, el2, p)
<1>1. Pending(S, 1, Q, "buying", p) \/ Pending(S, 1, Q, "newMatch", p) => tk[p] = "gone"
  BY DEF Fits, Buys, Between, Pending
<1>2. Buys(S, 1, Q, g2.state, tk, ns, p)
  BY <1>1 DEF Fits, Buys
<1>3. Plays(S, 1, g2, tk, ns, p)
  BY DEF Fits, Plays
<1>4. Between(S, Q, g2.state, tk, el2, p)
  BY DEF Between
<1> QED
  BY <1>2, <1>3, <1>4 DEF Fits

\* A tick of a state other than buying, that makes g of the game.
Quiet(g) ==
    \/ Later(game, g)
    \/ /\ g.state \notin {"Buying", "TankNewGame"}
       /\ \A p \in Players : Due(g, p) => Due(game, p)
       /\ game.state = "TankNewGame" => Running(game, "newGame") = {}

LEMMA QuietHolds ==
    ASSUME IInv, game.state # "Buying", NEW g \in GameState, game' = g, g.round <= levels,
           Quiet(g), Sends(game.sendActions, g.sendActions),
           elapsed' = 0, UNCHANGED others, UNCHANGED <<told, changes>>
    PROVE  IInv'
<1>1. TypeOK /\ RoundsInv /\ simActions \in Seq(SimAction) /\ game \in GameState
  BY DEF IInv, TypeOK
<1>2. UNCHANGED <<simActions, tank, notSpectator, deserted, score, shots, toLoad, levels>>
  BY DEF others
<1>3. PICK Q \in Seq(SimAction) : Q = game.sendActions
  BY <1>1, GameFields
<1>4. TypeOK'
  <2>1. 0 \in 0 .. MaxLag
    BY RoundBoundsAssumption
  <2> QED
    BY <1>1, <1>2, <2>1 DEF TypeOK, Present
<1>5. PICK R : R = g.sendActions
  OBVIOUS
<1>6. ASSUME NEW p \in Players
      PROVE  /\ Fits(simActions, 1, R, g, tank, notSpectator, toLoad, p)
             /\ Between(simActions, R, g.state, tank, 0, p)
  <2>1. /\ Fits(simActions, 1, Q, game, tank, notSpectator, toLoad, p)
        /\ Between(simActions, Q, game.state, tank, elapsed, p)
    BY <1>1, <1>3 DEF RoundsInv
  <2>2. /\ Fits(simActions, 1, Q, g, tank, notSpectator, toLoad, p)
        /\ Between(simActions, Q, g.state, tank, 0, p)
    <3>1. CASE Later(game, g)
      <4>1. g.state = game.state /\ (Due(g, p) => Due(game, p))
        BY <3>1, LaterDue DEF Later
      <4>2. Fits(simActions, 1, Q, g, tank, notSpectator, toLoad, p)
        BY <2>1, <4>1, FitsSame
      <4>3. Between(simActions, Q, g.state, tank, 0, p)
        BY <2>1, <4>1 DEF Between
      <4> QED
        BY <4>2, <4>3
    <3>2. CASE ~Later(game, g)
      <4>1. ~Has(simActions, 1, "newGame", p) /\ ~Has(Q, 1, "newGame", p)
        <5>1. CASE game.state = "TankNewGame"
          <6>1. p \notin Running(game, "newGame")
            BY <3>2, <5>1 DEF Quiet
          <6> QED
            BY <1>1, <1>3, <6>1, RunningIs
        <5>2. CASE game.state # "TankNewGame"
          BY <2>1, <5>2 DEF Fits, Plays, Between
        <5> QED
          BY <5>1, <5>2
      <4>2. g.state \notin {"Buying", "TankNewGame"} /\ (Due(g, p) => Due(game, p))
        BY <3>2 DEF Quiet
      <4> QED
        BY <2>1, <4>1, <4>2, FitsLeaves
    <3> QED
      BY <3>1, <3>2
  <2> QED
    BY <1>3, <1>5, <2>2, FitsSends
<1>7. RoundsInv'
  BY <1>2, <1>5, <1>6 DEF RoundsInv
<1> QED
  BY <1>2, <1>4, <1>7 DEF IInv

\* The actions of the round.
LEMMA RoundSends ==
    ASSUME NEW g \in GameState, NEW kind \in RoundKinds, NEW n \in Nat, NEW h,
           h = Add(g, Action(kind, 0, n))
    PROVE  /\ h \in GameState /\ Sends(g.sendActions, h.sendActions)
           /\ h.state = g.state /\ h.round = g.round /\ h.bought = g.bought
<1>1. PICK a \in SimAction : a = Action(kind, 0, n) /\ a.kind = kind
  BY ActionTypes
<1>2. /\ h \in GameState /\ h.sendActions = Append(g.sendActions, a)
      /\ h.state = g.state /\ h.round = g.round /\ h.bought = g.bought
  BY <1>1, AddIs
<1> QED
  BY <1>1, <1>2 DEF Sends, RoundKinds

LEMMA InRound ==
    ASSUME IInv
    PROVE  /\ TypeOK /\ game \in GameState /\ game.state \in States
           /\ game.round \in Nat /\ game.round <= levels /\ levels \in Nat
           /\ elapsed \in Nat /\ game.time \in Nat
<1>1. TypeOK /\ game \in GameState /\ levels \in 0 .. MaxLevels /\ elapsed \in 0 .. MaxLag
  BY DEF IInv, TypeOK
<1> QED
  BY <1>1, RoundBoundsAssumption, GameFields DEF IInv

LEMMA StartupHolds ==
    ASSUME IInv, StartupTick, elapsed' = 0, UNCHANGED <<told, changes>>
    PROVE  IInv'
<1>1. PICK g : g = [game EXCEPT !.round = 0]
  OBVIOUS
<1>2. g \in GameState /\ g.state = game.state /\ g.sendActions = game.sendActions /\ g.round = 0
  <2>1. 0 \in 0 .. MaxLevels
    BY RoundBoundsAssumption
  <2> QED
    BY <1>1, <2>1, InRound DEF GameState
<1>3. game.state = "Startup" /\ NewGame(g)
  BY <1>1 DEF StartupTick
<1>4. g.round <= levels
  BY <1>2, InRound
<1> QED
  BY <1>2, <1>3, <1>4, NewGameHolds

LEMMA NewLevelHolds ==
    ASSUME IInv, NewLevelTick, elapsed' = 0, UNCHANGED <<told, changes>>
    PROVE  IInv'
<1>1. PICK g : g = game
  OBVIOUS
<1>2. g.state = "NewLevel" /\ NewGame(g)
  BY <1>1 DEF NewLevelTick
<1>3. g \in GameState /\ g.round <= levels
  BY <1>1, InRound
<1> QED
  BY <1>1, <1>2, <1>3, NewGameHolds

\* Another state that is not one of buying, in the same round: what is due is the same.
LEMMA OtherState ==
    ASSUME NEW g, g.state \notin {"Buying", "TankNewGame"}, game.state # "TankNewGame",
           g.round = game.round, g.bought = game.bought
    PROVE  Quiet(g)
BY DEF Quiet, Due, BuyingRound

\* Nothing is sent.
LEMMA SendsNothing == \A q : Sends(q, q)
BY DEF Sends

LEMMA WaitingHolds ==
    ASSUME IInv, WaitingTick, elapsed' = 0, UNCHANGED <<told, changes>>
    PROVE  IInv'
<1>1. PICK g : g = game'
  OBVIOUS
<1>2. game.state = "WaitingForPlayers" /\ UNCHANGED others
  BY DEF WaitingTick
<1>3. \/ g = [game EXCEPT !.state = "MatchCountDown", !.time = 0]
      \/ g = [game EXCEPT !.state = "Startup"]
      \/ g = game
  BY <1>1 DEF WaitingTick
<1>4. /\ g \in GameState /\ g.state \in {"WaitingForPlayers", "MatchCountDown", "Startup"}
      /\ g.round = game.round /\ g.bought = game.bought /\ g.sendActions = game.sendActions
  <2>1. PICK st \in {"MatchCountDown", "Startup"}, t \in Nat :
            g = [game EXCEPT !.state = st, !.time = t] \/ g = [game EXCEPT !.state = st] \/ g = game
    BY <1>3
  <2>2. st \in States /\ game \in GameState
    BY <2>1, InRound DEF States
  <2> QED
    BY <1>2, <2>1, <2>2 DEF GameState
<1>5. Quiet(g) /\ Sends(game.sendActions, g.sendActions) /\ g.round <= levels
  BY <1>2, <1>4, InRound, OtherState, SendsNothing
<1> QED
  BY <1>1, <1>2, <1>4, <1>5, QuietHolds

LEMMA MatchCountDownHolds ==
    ASSUME IInv, MatchCountDownTick, elapsed' = 0, UNCHANGED <<told, changes>>
    PROVE  IInv'
<1>1. PICK g : g = game'
  OBVIOUS
<1>2. game.state = "MatchCountDown" /\ UNCHANGED others
  BY DEF MatchCountDownTick
<1>3. \/ g = game
      \/ g = [game EXCEPT !.state = "WaitingForPlayers", !.time = 0]
      \/ g = [game EXCEPT !.state = "NewLevel", !.round = 0, !.time = 0]
      \/ g = [game EXCEPT !.time = @ + elapsed]
  BY <1>1, Zenon DEF MatchCountDownTick
<1>4. CASE g = [game EXCEPT !.state = "NewLevel", !.round = 0, !.time = 0]
  <2>1. /\ g \in GameState /\ g.state = "NewLevel" /\ g.round = 0
        /\ g.sendActions = game.sendActions
    <3>1. PICK st \in States, t \in Nat : st = "NewLevel" /\ t = 0
      BY DEF States
    <3>2. g = [game EXCEPT !.state = st, !.round = 0, !.time = t]
      BY <1>4, <3>1
    <3>3. 0 \in 0 .. MaxLevels /\ game \in GameState
      BY RoundBoundsAssumption, InRound
    <3> QED
      BY <3>1, <3>2, <3>3 DEF GameState
  <2>2. \A p \in Players : ~Due(g, p)
    BY <2>1, RoundOptionsAssumption DEF Due, BuyingRound
  <2>3. Quiet(g)
    BY <1>2, <2>1, <2>2 DEF Quiet
  <2>4. g.round <= levels /\ Sends(game.sendActions, g.sendActions)
    BY <2>1, InRound, SendsNothing
  <2> QED
    BY <1>1, <1>2, <2>1, <2>3, <2>4, QuietHolds
<1>5. CASE g # [game EXCEPT !.state = "NewLevel", !.round = 0, !.time = 0]
  <2>1. PICK t \in Nat : t = game.time + elapsed
    BY InRound
  <2>2. /\ g \in GameState /\ g.state \in {"WaitingForPlayers", "MatchCountDown"}
        /\ g.round = game.round /\ g.bought = game.bought /\ g.sendActions = game.sendActions
    <3>1. PICK st \in {"WaitingForPlayers", "MatchCountDown"}, u \in Nat :
              \/ g = [game EXCEPT !.state = st, !.time = u]
              \/ g = [game EXCEPT !.time = u]
              \/ g = game
      BY <1>3, <1>5, <2>1
    <3>2. st \in States /\ game \in GameState
      BY <3>1, InRound DEF States
    <3> QED
      BY <1>2, <3>1, <3>2 DEF GameState
  <2>3. Quiet(g) /\ Sends(game.sendActions, g.sendActions) /\ g.round <= levels
    BY <1>2, <2>2, InRound, OtherState, SendsNothing
  <2> QED
    BY <1>1, <1>2, <2>2, <2>3, QuietHolds
<1> QED
  BY <1>4, <1>5

LEMMA TankNewGameHolds ==
    ASSUME IInv, TankNewGameTick, elapsed' = 0, UNCHANGED <<told, changes>>
    PROVE  IInv'
<1>1. PICK g : g = game'
  OBVIOUS
<1>2. game.state = "TankNewGame" /\ UNCHANGED others
  BY DEF TankNewGameTick
<1>3. g = IF Running(game, "newGame") = {} THEN EnterPlaying(game) ELSE game
  BY <1>1 DEF TankNewGameTick
<1>4. CASE Running(game, "newGame") = {}
  <2>1. PICK moveId \in [Players -> Nat] : moveId = [p \in Players |-> 0]
    OBVIOUS
  <2>2. PICK h : h = [game EXCEPT !.state = "Playing", !.roundState = "eNone", !.time = 0,
                                  !.moveId = moveId]
    OBVIOUS
  <2>3. /\ h \in GameState /\ h.state = "Playing" /\ h.round = game.round
        /\ h.bought = game.bought /\ h.sendActions = game.sendActions
    BY <2>2, InRound DEF GameState, States
  <2>4. g = Add(h, Action("roundStart", 0, 0))
    BY <1>3, <1>4, <2>1, <2>2 DEF EnterPlaying
  <2>5. /\ g \in GameState /\ Sends(game.sendActions, g.sendActions)
        /\ g.state = "Playing" /\ g.round = game.round /\ g.bought = game.bought
    BY <2>3, <2>4, RoundSends DEF RoundKinds
  <2>6. Quiet(g)
    BY <1>4, <2>5 DEF Quiet, Due, BuyingRound
  <2>7. g.round <= levels
    BY <2>5, InRound
  <2> QED
    BY <1>1, <1>2, <2>5, <2>6, <2>7, QuietHolds
<1>5. CASE Running(game, "newGame") # {}
  <2>1. g = game
    BY <1>3, <1>5
  <2>2. Later(game, g)
    BY <2>1, InRound DEF Later
  <2>3. /\ g \in GameState /\ Quiet(g) /\ g.round <= levels
        /\ Sends(game.sendActions, g.sendActions)
    BY <2>1, <2>2, InRound, SendsNothing DEF Quiet
  <2> QED
    BY <1>1, <1>2, <2>3, QuietHolds
<1> QED
  BY <1>4, <1>5

LEMMA PlayingHolds ==
    ASSUME IInv, PlayingTick, elapsed' = 0, UNCHANGED <<told, changes>>
    PROVE  IInv'
<1>1. PICK g : g = game'
  OBVIOUS
<1>2. game.state = "Playing" /\ UNCHANGED others
  BY DEF PlayingTick
<1>3. \/ g = Add([game EXCEPT !.state = "FinishWait", !.time = 0], Action("roundStop", 0, 0))
      \/ g = RunRound(game)
  BY <1>1 DEF PlayingTick
<1>4. CASE g = Add([game EXCEPT !.state = "FinishWait", !.time = 0], Action("roundStop", 0, 0))
  <2>1. PICK h : h = [game EXCEPT !.state = "FinishWait", !.time = 0]
    OBVIOUS
  <2>2. /\ h \in GameState /\ h.state = "FinishWait" /\ h.round = game.round
        /\ h.bought = game.bought /\ h.sendActions = game.sendActions
    BY <2>1, InRound DEF GameState, States
  <2>3. /\ g \in GameState /\ Sends(game.sendActions, g.sendActions)
        /\ g.state = "FinishWait" /\ g.round = game.round /\ g.bought = game.bought
    <3>1. PICK kind \in RoundKinds : kind = "roundStop"
      BY DEF RoundKinds
    <3>2. g = Add(h, Action(kind, 0, 0))
      BY <1>4, <2>1, <3>1
    <3> QED
      BY <2>2, <3>2, RoundSends
  <2>4. Quiet(g) /\ g.round <= levels
    BY <1>2, <2>3, InRound, OtherState
  <2> QED
    BY <1>1, <1>2, <2>3, <2>4, QuietHolds
<1>5. CASE g = RunRound(game)
  <2>1. PICK t \in Nat : t = game.time + elapsed
    BY InRound
  <2>2. \/ g = game
        \/ g = [game EXCEPT !.roundState = "eFinished"]
        \/ g = [game EXCEPT !.time = t]
    BY <1>5, <2>1 DEF RunRound
  <2>3. /\ g \in GameState /\ g.state = game.state
        /\ g.round = game.round /\ g.bought = game.bought /\ g.sendActions = game.sendActions
    BY <2>2, InRound DEF GameState
  <2>4. Quiet(g) /\ Sends(game.sendActions, g.sendActions) /\ g.round <= levels
    BY <1>2, <2>3, InRound, OtherState, SendsNothing
  <2> QED
    BY <1>1, <1>2, <2>3, <2>4, QuietHolds
<1> QED
  BY <1>3, <1>4, <1>5

LEMMA FinishWaitHolds ==
    ASSUME IInv, FinishWaitTick, elapsed' = 0, UNCHANGED <<told, changes>>
    PROVE  IInv'
<1>1. PICK g : g = game'
  OBVIOUS
<1>2. game.state = "FinishWait" /\ UNCHANGED others
  BY DEF FinishWaitTick
<1>3. PICK scoreTime \in ScoreTimes :
          g = IF WaitForShots /\ shots THEN game ELSE EnterScore(game, scoreTime)
  BY <1>1 DEF FinishWaitTick
<1>4. CASE WaitForShots /\ shots
  <2>1. g = game
    BY <1>3, <1>4
  <2>2. Quiet(g) /\ Sends(game.sendActions, g.sendActions) /\ g \in GameState /\ g.round <= levels
    BY <1>2, <2>1, InRound, OtherState, SendsNothing
  <2> QED
    BY <1>1, <1>2, <2>2, QuietHolds
<1>5. CASE ~(WaitForShots /\ shots)
  <2>1. PICK winner \in BOOLEAN : winner = (game.round >= NoRounds \/ NotEnough(game))
    OBVIOUS
  <2>2. PICK time \in Nat : time = IF winner THEN scoreTime ELSE RoundScoreTime
    BY RoundOptionsAssumption
  <2>3. PICK h : h = [game EXCEPT !.state = "Score", !.finished = FALSE,
                                  !.overAllWinner = winner, !.time = time]
    OBVIOUS
  <2>4. /\ h \in GameState /\ h.state = "Score" /\ h.round = game.round
        /\ h.bought = game.bought /\ h.sendActions = game.sendActions
    BY <2>3, InRound DEF GameState, States
  <2>5. g = Add(h, Action("score", 0, time))
    BY <1>3, <1>5, <2>1, <2>2, <2>3 DEF EnterScore
  <2>6. /\ g \in GameState /\ Sends(game.sendActions, g.sendActions)
        /\ g.state = "Score" /\ g.round = game.round /\ g.bought = game.bought
    BY <2>4, <2>5, RoundSends DEF RoundKinds
  <2>7. Quiet(g) /\ g.round <= levels
    BY <1>2, <2>6, InRound, OtherState
  <2> QED
    BY <1>1, <1>2, <2>6, <2>7, QuietHolds
<1> QED
  BY <1>4, <1>5

LEMMA ScoreHolds ==
    ASSUME IInv, ScoreTick, elapsed' = 0, UNCHANGED <<told, changes>>
    PROVE  IInv'
<1>1. PICK g : g = game'
  OBVIOUS
<1>2. game.state = "Score" /\ UNCHANGED others
  BY DEF ScoreTick
<1>3. PICK st \in {"WaitingForPlayers", "NewLevel"} :
          g = game \/ g = [game EXCEPT !.time = 0, !.state = st]
  BY <1>1 DEF ScoreTick
<1>4. /\ g \in GameState /\ g.state \in {"Score", "WaitingForPlayers", "NewLevel"}
      /\ g.round = game.round /\ g.bought = game.bought /\ g.sendActions = game.sendActions
  <2>1. PICK t \in Nat : g = game \/ g = [game EXCEPT !.time = t, !.state = st]
    BY <1>3
  <2>2. st \in States /\ game \in GameState
    BY <1>3, InRound DEF States
  <2> QED
    BY <1>2, <1>3, <2>1, <2>2 DEF GameState
<1>5. Quiet(g) /\ Sends(game.sendActions, g.sendActions) /\ g.round <= levels
  BY <1>2, <1>4, InRound, OtherState, SendsNothing
<1> QED
  BY <1>1, <1>2, <1>4, <1>5, QuietHolds
-----------------------------------------------------------------------------
(* The players.                                                             *)

LEMMA BetweenSame ==
    ASSUME NEW S, NEW Q, NEW st, NEW tk, NEW el, NEW p, NEW tk2,
           Between(S, Q, st, tk, el, p), tk2[p] = tk[p]
    PROVE  Between(S, Q, st, tk2, el, p)
BY DEF Between

\* The invariant of the players when the actions to send are R.
Holds(R, g, tk, tl, el, p) ==
    /\ Fits(simActions, 1, R, g, tk, notSpectator, tl, p)
    /\ Between(simActions, R, g.state, tk, el, p)

LEMMA HoldsNow ==
    ASSUME RoundsInv, NEW p \in Players
    PROVE  Holds(game.sendActions, game, tank, toLoad, elapsed, p)
BY DEF RoundsInv, Holds

LEMMA HoldsAppend ==
    ASSUME NEW Q \in Seq(SimAction), NEW a \in SimAction, NEW g, NEW tk, NEW tl, NEW el, NEW p,
           Apart(a, p), Holds(Q, g, tk, tl, el, p)
    PROVE  Holds(Append(Q, a), g, tk, tl, el, p)
BY FitsAppend, BetweenAppend DEF Holds, Apart, MaySend

LEMMA HoldsSame ==
    ASSUME NEW Q, NEW g, NEW tk, NEW tl, NEW el, NEW p, NEW h, NEW tk2, NEW tl2,
           Holds(Q, g, tk, tl, el, p), h.state = g.state, Due(h, p) => Due(g, p),
           tk2[p] = tk[p], p \in tl2 => p \in tl
    PROVE  Holds(Q, h, tk2, tl2, el, p)
<1>1. Fits(simActions, 1, Q, g, tk, notSpectator, tl, p)
  BY DEF Holds
<1>2. Fits(simActions, 1, Q, h, tk2, notSpectator, tl2, p)
  BY <1>1, FitsSame
<1>3. Between(simActions, Q, h.state, tk2, el, p)
  BY BetweenSame DEF Holds
<1> QED
  BY <1>2, <1>3 DEF Holds

HoldsAll(g, el) == \A p \in Players : Holds(g.sendActions, g, tank, toLoad, el, p)

\* A move that ends.
LEMMA StoppedHolds ==
    ASSUME NEW g \in GameState, NEW h, Later(g, h), Stopped(g.sendActions, h.sendActions),
           NEW el, HoldsAll(g, el)
    PROVE  HoldsAll(h, el)
<1>1. PICK Q \in Seq(SimAction) : Q = g.sendActions
  BY GameFields
<1>2. ASSUME NEW q \in Players PROVE Holds(h.sendActions, h, tank, toLoad, el, q)
  <2>1. Holds(Q, g, tank, toLoad, el, q)
    BY <1>1 DEF HoldsAll
  <2>2. h.state = g.state /\ (Due(h, q) => Due(g, q))
    BY LaterDue DEF Later
  <2>3. Holds(Q, h, tank, toLoad, el, q)
    BY <2>1, <2>2, HoldsSame
  <2>4. CASE h.sendActions = Q
    BY <2>3, <2>4
  <2>5. CASE h.sendActions # Q
    <3>1. PICK o \in Players : h.sendActions = Append(Q, Action("stop", o, 0))
      BY <1>1, <2>5 DEF Stopped
    <3>2. PICK a \in SimAction : a = Action("stop", o, 0) /\ Apart(a, q)
      BY ActionTypes DEF PlayerKinds, Apart
    <3> QED
      BY <2>3, <3>1, <3>2, HoldsAppend
  <2> QED
    BY <2>4, <2>5
<1> QED
  BY <1>2 DEF HoldsAll

LEMMA PlayedMoveHolds ==
    ASSUME IInv, NEW p \in Players, NEW move, PlayedMove(p, move)
    PROVE  IInv'
<1>1. TypeOK /\ RoundsInv /\ game \in GameState
  BY DEF IInv, TypeOK
<1>2. PICK g : g = game'
  OBVIOUS
<1>3. UNCHANGED <<simActions, tank, notSpectator, deserted, score, shots, toLoad,
                  levels, changes, elapsed>>
  BY DEF PlayedMove
<1>4. g = BuyingFinished(game, tank, p, move) \/ g = game
  BY <1>2 DEF PlayedMove
<1>5. Later(game, g) /\ Stopped(game.sendActions, g.sendActions)
  <2>1. CASE g = game
    BY <1>1, <2>1 DEF Later, Stopped
  <2>2. CASE g = BuyingFinished(game, tank, p, move)
    BY <1>1, <2>2, BuyingFinishedIs
  <2> QED
    BY <1>4, <2>1, <2>2
<1>6. TypeOK'
  <2>1. told' \subseteq told
    BY DEF PlayedMove
  <2>2. game' \in GameState
    BY <1>2, <1>5 DEF Later
  <2> QED
    BY <1>1, <1>3, <2>1, <2>2 DEF TypeOK, Present
<1>7. HoldsAll(g, elapsed)
  <2>1. HoldsAll(game, elapsed)
    BY <1>1, HoldsNow DEF HoldsAll
  <2> QED
    BY <1>1, <1>5, <2>1, StoppedHolds
<1>8. RoundsInv'
  BY <1>2, <1>3, <1>7 DEF RoundsInv, HoldsAll, Holds
<1>9. game'.round <= levels'
  BY <1>2, <1>3, <1>5 DEF IInv, Later
<1> QED
  BY <1>6, <1>8, <1>9 DEF IInv

\* An action is sent for a player, that may also stop to load.
LEMMA SentHolds ==
    ASSUME IInv, NEW p \in Players, NEW a \in SimAction, a.player = p, NEW tl \in SUBSET toLoad,
           \A q \in toLoad : q \in tl \/ q = p,
           Holds(Append(game.sendActions, a), game, tank, tl, elapsed, p),
           game' = Add(game, a), toLoad' = tl, told' \subseteq told,
           UNCHANGED <<simActions, tank, notSpectator, deserted, score, shots, levels, elapsed>>,
           changes' \in 0 .. MaxChanges
    PROVE  IInv'
<1>1. TypeOK /\ RoundsInv /\ game \in GameState
  BY DEF IInv, TypeOK
<1>2. PICK Q \in Seq(SimAction) : Q = game.sendActions
  BY <1>1, GameFields
<1>3. PICK g : g = game'
  OBVIOUS
<1>4. /\ g \in GameState /\ g.sendActions = Append(Q, a) /\ g.state = game.state
      /\ g.round = game.round /\ g.bought = game.bought
  BY <1>1, <1>2, <1>3, AddIs
<1>5. TypeOK'
  BY <1>1, <1>2, <1>3, <1>4 DEF TypeOK, Present
<1>6. ASSUME NEW q \in Players
      PROVE  Holds(g.sendActions, g, tank, tl, elapsed, q)
  <2>1. Holds(Append(Q, a), game, tank, tl, elapsed, q)
    <3>1. CASE q = p
      BY <1>2, <1>3, <3>1
    <3>2. CASE q # p
      <4>1. Holds(Q, game, tank, toLoad, elapsed, q)
        BY <1>1, <1>2, <1>3, HoldsNow
      <4>2. Holds(Q, game, tank, tl, elapsed, q)
        BY <4>1, HoldsSame
      <4> QED
        BY <3>2, <4>2, HoldsAppend DEF Apart
    <3> QED
      BY <3>1, <3>2
  <2>2. Due(g, q) => Due(game, q)
    BY <1>4 DEF Due, BuyingRound
  <2> QED
    BY <1>4, <2>1, <2>2, HoldsSame
<1>7. RoundsInv'
  BY <1>2, <1>3, <1>6 DEF RoundsInv, Holds
<1>8. game'.round <= levels'
  BY <1>2, <1>3, <1>4 DEF IInv
<1> QED
  BY <1>5, <1>7, <1>8 DEF IInv

LEMMA ChangeHolds ==
    ASSUME IInv, NEW p \in Players, NEW kind \in {"spectate", "play"}, Change(p, kind)
    PROVE  IInv'
<1>1. TypeOK /\ RoundsInv /\ game \in GameState
  BY DEF IInv, TypeOK
<1>2. PICK Q \in Seq(SimAction) : Q = game.sendActions
  BY <1>1, GameFields
<1>3. PICK a \in SimAction : /\ a = Action(kind, p, 0) /\ a.kind = kind /\ a.player = p
  BY ActionTypes DEF PlayerKinds
<1>4. Holds(Q, game, tank, toLoad, elapsed, p) /\ elapsed = 0
  BY <1>1, <1>2, HoldsNow DEF Change
<1>5. Holds(Append(Q, a), game, tank, toLoad, elapsed, p)
  <2>1. CASE kind = "spectate"
    BY <1>3, <1>4, <2>1, HoldsAppend DEF Apart
  <2>2. CASE kind = "play"
    <3>1. MaySend(simActions, 1, Q, game, tank, a, p)
      BY <1>3, <2>2 DEF MaySend
    <3>2. Fits(simActions, 1, Append(Q, a), game, tank, notSpectator, toLoad, p)
      BY <1>4, <3>1, FitsAppend DEF Holds
    <3>3. ASSUME NEW k \in {"newMatch", "buying", "newGame"}
          PROVE  Has(Append(Q, a), 1, k, p) <=> Has(Q, 1, k, p)
      BY <1>3, <2>2, HasAppend
    <3>4. Between(simActions, Append(Q, a), game.state, tank, elapsed, p)
      BY <1>4, <3>3 DEF Holds, Between, Pending
    <3> QED
      BY <3>2, <3>4 DEF Holds
  <2> QED
    BY <2>1, <2>2
<1>6. /\ game' = Add(game, a) /\ changes' = changes + 1 /\ changes < MaxChanges
      /\ UNCHANGED <<simActions, tank, notSpectator, deserted, score, shots, toLoad, told,
                     levels, elapsed>>
  BY <1>3 DEF Change
<1>7. changes' \in 0 .. MaxChanges
  BY <1>1, <1>6, RoundBoundsAssumption DEF TypeOK
<1> QED
  BY <1>2, <1>3, <1>5, <1>6, <1>7, SentHolds

LEMMA LeaveHolds ==
    ASSUME IInv, NEW p \in Players, Leave(p)
    PROVE  IInv'
<1>1. TypeOK /\ RoundsInv /\ game \in GameState
  BY DEF IInv, TypeOK
<1>2. PICK Q \in Seq(SimAction) : Q = game.sendActions
  BY <1>1, GameFields
<1>3. PICK a \in SimAction : a = Action("remove", p, 0) /\ a.player = p /\ Apart(a, p)
  BY ActionTypes DEF PlayerKinds, Apart
<1>4. Holds(Q, game, tank, toLoad, elapsed, p)
  BY <1>1, <1>2, HoldsNow
<1>5. PICK tl \in SUBSET toLoad : tl = toLoad \ {p}
  OBVIOUS
<1>6. Holds(Q, game, tank, tl, elapsed, p)
  BY <1>4, <1>5, HoldsSame
<1>7. Holds(Append(Q, a), game, tank, tl, elapsed, p)
  BY <1>3, <1>6, HoldsAppend
<1>8. /\ game' = Add(game, a) /\ toLoad' = tl /\ told' \subseteq told
      /\ UNCHANGED <<simActions, tank, notSpectator, deserted, score, shots,
                     levels, changes, elapsed>>
  BY <1>3, <1>5 DEF Leave
<1>9. changes' \in 0 .. MaxChanges
  BY <1>1, <1>8 DEF TypeOK
<1>10. \A q \in toLoad : q \in tl \/ q = p
  BY <1>5
<1> QED
  BY <1>2, <1>3, <1>7, <1>8, <1>9, <1>10, SentHolds

LEMMA LevelLoadedHolds ==
    ASSUME IInv, NEW p \in Players, LevelLoaded(p)
    PROVE  IInv'
<1>1. TypeOK /\ RoundsInv /\ game \in GameState
  BY DEF IInv, TypeOK
<1>2. PICK Q \in Seq(SimAction) : Q = game.sendActions
  BY <1>1, GameFields
<1>3. PICK n \in Nat : n = IF notSpectator[p] THEN 1 ELSE 0
  OBVIOUS
<1>4. PICK a \in SimAction : /\ a = Action("loaded", p, n)
                             /\ a.kind = "loaded" /\ a.player = p /\ a.number = n
  BY ActionTypes DEF PlayerKinds
<1>5. Holds(Q, game, tank, toLoad, elapsed, p)
  BY <1>1, <1>2, HoldsNow
<1>6. PICK tl \in SUBSET toLoad : tl = toLoad \ {p}
  OBVIOUS
<1>7. p \in toLoad /\ tank[p] \in TankStates
  BY DEF LevelLoaded, Present
<1>8. tank[p] = "sLoading" /\ ~Pending(simActions, 1, Q, "loaded", p)
  BY <1>5, <1>7 DEF Holds, Fits, Loads, TankStates
<1>9. Holds(Append(Q, a), game, tank, tl, elapsed, p)
  <2> DEFINE R == Append(Q, a)
  <2>1. ASSUME NEW k, k # "loaded" PROVE Has(R, 1, k, p) <=> Has(Q, 1, k, p)
    BY <1>4, <2>1, HasAppend
  <2>2. Once(R, 1, "loaded", p) /\ Flags(R, 1, notSpectator, p)
    <3>1. Once(Q, 1, "loaded", p) /\ Flags(Q, 1, notSpectator, p) /\ ~Has(Q, 1, "loaded", p)
      BY <1>5, <1>8 DEF Holds, Fits, Loads, PendingOnce, Pending
    <3> QED
      BY <1>3, <1>4, <3>1, OnceAppend, FlagsAppend
  <2>3. Once(R, 1, "buying", p) /\ NoPlayBefore(R, 1, p)
    BY <1>4, <1>5, OnceAppend, NoPlayAppend DEF Holds, Fits, Buys, PendingOnce
  <2> HIDE DEF R
  <2>4. Loads(simActions, 1, R, tank, notSpectator, tl, p)
    BY <1>5, <1>6, <1>8, <2>2 DEF Holds, Fits, Loads, Pending, PendingOnce
  <2>5. Buys(simActions, 1, R, game.state, tank, notSpectator, p)
    BY <1>5, <2>1, <2>3 DEF Holds, Fits, Buys, Pending, PendingOnce
  <2>6. Between(simActions, R, game.state, tank, elapsed, p)
    BY <1>5, <2>1 DEF Holds, Between, Pending
  <2>7. Fits(simActions, 1, R, game, tank, notSpectator, tl, p)
    BY <1>5, <2>4, <2>5 DEF Holds, Fits
  <2> QED
    BY <2>6, <2>7 DEF R, Holds
<1>10. /\ game' = Add(game, a) /\ toLoad' = tl /\ told' \subseteq told
       /\ UNCHANGED <<simActions, tank, notSpectator, deserted, score, shots,
                      levels, changes, elapsed>>
  BY <1>3, <1>4, <1>6 DEF LevelLoaded
<1>11. changes' \in 0 .. MaxChanges
  BY <1>1, <1>10 DEF TypeOK
<1>12. \A q \in toLoad : q \in tl \/ q = p
  BY <1>6
<1> QED
  BY <1>2, <1>4, <1>9, <1>10, <1>11, <1>12, SentHolds

\* The tank of a player is added, or removed.
LEMMA TankHolds ==
    ASSUME IInv, NEW p \in Players, NEW y \in {"sLoading", "gone"},
           tank' = [tank EXCEPT ![p] = y], deserted' \subseteq deserted,
           \/ tank[p] = "away" /\ y = "sLoading" /\ toLoad' = toLoad \cup {p}
           \/ p \notin deserted' /\ y = "gone" /\ toLoad' = toLoad,
           UNCHANGED <<game, simActions, notSpectator, score, shots, told,
                       levels, changes, elapsed>>
    PROVE  IInv'
<1>1. /\ TypeOK /\ RoundsInv /\ tank \in [Players -> TankStates \cup {"away", "gone"}]
      /\ game.round <= levels
  BY DEF IInv, TypeOK
<1>2. PICK tk, tl : tk = tank' /\ tl = toLoad'
  OBVIOUS
<1>3. /\ tk \in [Players -> TankStates \cup {"away", "gone"}] /\ tk[p] = y
      /\ \A q \in Players : q # p => tk[q] = tank[q]
  <2>1. y \in TankStates \cup {"away", "gone"}
    BY DEF TankStates
  <2> QED
    BY <1>1, <1>2, <2>1
<1>4. TypeOK'
  <2>1. deserted' \subseteq Present'
    <3> SUFFICES ASSUME NEW q \in deserted' PROVE q \in Present'
      OBVIOUS
    <3>1. q \in Players /\ tank[q] \in TankStates
      BY <1>1 DEF TypeOK, Present
    <3>2. tk[q] \in TankStates
      <4>1. CASE q = p
        BY <1>3, <4>1 DEF TankStates
      <4>2. CASE q # p
        BY <1>3, <3>1, <4>2
      <4> QED
        BY <4>1, <4>2
    <3> QED
      BY <1>2, <3>1, <3>2 DEF Present
  <2>2. toLoad' \subseteq Players
    BY <1>1 DEF TypeOK
  <2> QED
    BY <1>1, <1>2, <1>3, <2>1, <2>2 DEF TypeOK
<1>5. PICK Q : Q = game.sendActions
  OBVIOUS
<1>6. ASSUME NEW q \in Players PROVE Holds(Q, game, tk, tl, elapsed, q)
  <2>1. Holds(Q, game, tank, toLoad, elapsed, q)
    BY <1>1, <1>5, HoldsNow
  <2>2. CASE q # p
    <3>1. tk[q] = tank[q] /\ (q \in tl => q \in toLoad)
      BY <1>2, <1>3, <2>2
    <3> QED
      BY <2>1, <3>1, HoldsSame
  <2>3. CASE q = p
    <3>1. PICK x : x = tank[p]
      OBVIOUS
    <3>2. /\ tk[p] = y
          /\ (y = "sLoading" /\ x = "away") \/ (y = "gone" /\ (p \in tl => p \in toLoad))
      <4>1. CASE tank[p] = "away" /\ y = "sLoading"
        BY <1>3, <3>1, <4>1
      <4>2. CASE y = "gone" /\ toLoad' = toLoad
        BY <1>2, <1>3, <4>2
      <4> QED
        BY <4>1, <4>2
    <3>3. Loads(simActions, 1, Q, tk, notSpectator, tl, p)
      BY <2>1, <2>3, <3>1, <3>2 DEF Holds, Fits, Loads
    <3>4. Buys(simActions, 1, Q, game.state, tk, notSpectator, p)
      BY <2>1, <2>3, <3>1, <3>2 DEF Holds, Fits, Buys
    <3>5. Plays(simActions, 1, game, tk, notSpectator, p)
      BY <2>1, <2>3, <3>2 DEF Holds, Fits, Plays
    <3>6. Between(simActions, Q, game.state, tk, elapsed, p)
      BY <2>1, <2>3, <3>1, <3>2 DEF Holds, Between, Fits, Buys, Pending
    <3> QED
      BY <2>3, <3>3, <3>4, <3>5, <3>6 DEF Holds, Fits
  <2> QED
    BY <2>2, <2>3
<1>7. RoundsInv'
  BY <1>2, <1>5, <1>6 DEF RoundsInv, Holds
<1> QED
  BY <1>1, <1>4, <1>7 DEF IInv

LEMMA PlayerHolds ==
    ASSUME IInv, NEW p \in Players, Player(p)
    PROVE  IInv'
<1>1. CASE \E o \in told : o[1] = p /\ PlayedMove(p, o[2])
  <2>1. PICK move : PlayedMove(p, move)
    BY <1>1
  <2> QED
    BY <2>1, PlayedMoveHolds
<1>2. CASE LevelLoaded(p)
  BY <1>2, LevelLoadedHolds
<1>3. CASE Change(p, "spectate") \/ Change(p, "play")
  BY <1>3, ChangeHolds
<1>4. CASE Leave(p)
  BY <1>4, LeaveHolds
<1>5. CASE Join(p)
  <2>1. /\ tank[p] = "away" /\ tank' = [tank EXCEPT ![p] = "sLoading"]
        /\ toLoad' = toLoad \cup {p} /\ deserted' = deserted
        /\ UNCHANGED <<game, simActions, notSpectator, score, shots, told,
                       levels, changes, elapsed>>
    BY <1>5 DEF Join
  <2> QED
    BY <2>1, TankHolds
<1>6. CASE Removed(p)
  <2>1. /\ p \notin deserted' /\ tank' = [tank EXCEPT ![p] = "gone"]
        /\ toLoad' = toLoad /\ deserted' \subseteq deserted
        /\ UNCHANGED <<game, simActions, notSpectator, score, shots, told,
                       levels, changes, elapsed>>
    BY <1>6 DEF Removed
  <2> QED
    BY <2>1, TankHolds
<1> QED
  BY <1>1, <1>2, <1>3, <1>4, <1>5, <1>6 DEF Player

\* Shots do not matter.
LEMMA ShotsHold ==
    ASSUME IInv, shots' \in BOOLEAN,
           UNCHANGED <<game, simActions, tank, notSpectator, deserted, score, toLoad, told,
                       levels, changes, elapsed>>
    PROVE  IInv'
<1>1. TypeOK'
  BY DEF IInv, TypeOK, Present
<1>2. RoundsInv' /\ game'.round <= levels'
  BY DEF IInv, RoundsInv
<1> QED
  BY <1>1, <1>2 DEF IInv
-----------------------------------------------------------------------------
(* Buying.                                                                  *)

\* While the players buy it does not matter who did.
LEMMA HoldsBuying ==
    ASSUME NEW g, NEW h, NEW el, HoldsAll(g, el), g.state = "Buying", h.state = "Buying",
           h.sendActions = g.sendActions
    PROVE  HoldsAll(h, el)
<1>1. ASSUME NEW p \in Players PROVE Holds(h.sendActions, h, tank, toLoad, el, p)
  <2>1. PICK Q : Q = g.sendActions
    OBVIOUS
  <2>2. Fits(simActions, 1, Q, g, tank, notSpectator, toLoad, p)
    BY <2>1 DEF HoldsAll, Holds
  <2>3. Plays(simActions, 1, h, tank, notSpectator, p)
    BY <2>2 DEF Fits, Plays
  <2>4. Fits(simActions, 1, Q, h, tank, notSpectator, toLoad, p)
    BY <2>2, <2>3 DEF Fits
  <2>5. Between(simActions, Q, h.state, tank, el, p)
    BY <2>1 DEF HoldsAll, Holds
  <2> QED
    BY <2>1, <2>4, <2>5 DEF Holds
<1> QED
  BY <1>1 DEF HoldsAll

\* What is done for p while the players buy: who asked to buy still asks, and nobody
\* else has to buy again.
Served(g, h, p) ==
    /\ h \in GameState /\ h.state = g.state /\ h.round = g.round
    /\ \A q \in Players :
           /\ Pending(simActions, 1, g.sendActions, "buying", q) =>
                  Pending(simActions, 1, h.sendActions, "buying", q)
           /\ q # p /\ q \in g.bought => q \in h.bought

LEMMA ServedTwice ==
    ASSUME NEW g, NEW h, NEW k, NEW p, Served(g, h, p), Served(h, k, p)
    PROVE  Served(g, k, p)
BY DEF Served

LEMMA ServedSame ==
    ASSUME NEW g, NEW h \in GameState, NEW p, h.state = g.state, h.round = g.round,
           h.sendActions = g.sendActions, \A q \in Players : q # p /\ q \in g.bought => q \in h.bought
    PROVE  Served(g, h, p)
BY DEF Served

\* What the server sends then.
BuyingSends(g, a) ==
    /\ a.kind \in {"newMatch", "buying", "start", "stop"}
    /\ a.kind \in {"newMatch", "buying"} => tank[a.player] = "sDead"
    /\ a.kind = "buying" => /\ ~Pending(simActions, 1, g.sendActions, "buying", a.player)
                            /\ ~Has(g.sendActions, 1, "play", a.player)

LEMMA BuyingSent ==
    ASSUME NEW g \in GameState, g.state = "Buying", NEW el, HoldsAll(g, el),
           NEW a \in SimAction, BuyingSends(g, a), NEW h, h = Add(g, a), NEW p
    PROVE  /\ HoldsAll(h, el) /\ Served(g, h, p)
           /\ a.player \in Players /\ a.kind = "buying" =>
                  Pending(simActions, 1, h.sendActions, "buying", a.player)
<1>1. PICK Q \in Seq(SimAction) : Q = g.sendActions
  BY GameFields
<1>2. /\ h \in GameState /\ h.sendActions = Append(Q, a) /\ h.state = "Buying"
      /\ h.round = g.round /\ h.bought = g.bought
  BY <1>1, AddIs
<1> DEFINE R == Append(Q, a)
<1>3. ASSUME NEW kind, NEW q
      PROVE  Has(R, 1, kind, q) <=> Has(Q, 1, kind, q) \/ (a.kind = kind /\ a.player = q)
  BY HasAppend
<1>4. ASSUME NEW q \in Players PROVE Holds(R, g, tank, toLoad, el, q)
  <2>1. /\ Fits(simActions, 1, Q, g, tank, notSpectator, toLoad, q)
        /\ Between(simActions, Q, g.state, tank, el, q)
    BY <1>1 DEF HoldsAll, Holds
  <2>2. MaySend(simActions, 1, Q, g, tank, a, q)
    BY <1>1 DEF BuyingSends, MaySend
  <2>3. Fits(simActions, 1, R, g, tank, notSpectator, toLoad, q)
    BY <2>1, <2>2, FitsAppend
  <2>4. /\ Has(R, 1, "newGame", q) <=> Has(Q, 1, "newGame", q)
        /\ Has(R, 1, "play", q) <=> Has(Q, 1, "play", q)
        /\ Has(Q, 1, "buying", q) => Has(R, 1, "buying", q)
        /\ Has(R, 1, "buying", q) \/ Has(R, 1, "newMatch", q) =>
               Has(Q, 1, "buying", q) \/ Has(Q, 1, "newMatch", q) \/ tank[q] = "sDead"
    BY <1>3 DEF BuyingSends
  <2> HIDE DEF R
  <2>5. Between(simActions, R, g.state, tank, el, q)
    BY <2>1, <2>4 DEF Between, Pending
  <2> QED
    BY <2>3, <2>5 DEF Holds
<1>5. \A q \in Players : Has(Q, 1, "buying", q) => Has(R, 1, "buying", q)
  BY <1>3
<1>6. a.kind = "buying" => Has(R, 1, "buying", a.player)
  BY <1>3
<1> HIDE DEF R
<1>7. h.sendActions = R
  BY <1>2 DEF R
<1>8. HoldsAll(h, el)
  <2>1. ASSUME NEW q \in Players PROVE Holds(R, h, tank, toLoad, el, q)
    <3>1. Fits(simActions, 1, R, g, tank, notSpectator, toLoad, q)
      BY <1>4 DEF Holds
    <3>2. Fits(simActions, 1, R, h, tank, notSpectator, toLoad, q)
      BY <1>2, <3>1 DEF Fits, Plays
    <3>3. Between(simActions, R, h.state, tank, el, q)
      BY <1>2, <1>4 DEF Holds
    <3> QED
      BY <3>2, <3>3 DEF Holds
  <2> QED
    BY <1>7, <2>1 DEF HoldsAll
<1>9. Served(g, h, p)
  BY <1>1, <1>2, <1>5, <1>7 DEF Served, Pending
<1> QED
  BY <1>6, <1>7, <1>8, <1>9 DEF Pending

\* A dead tank is asked to buy, in every tick.
LEMMA AskToBuyIs ==
    ASSUME NEW g \in GameState, g.state = "Buying", NEW el, HoldsAll(g, el),
           simActions \in Seq(SimAction), NEW p \in Players, tank[p] = "sDead",
           NEW h, h = AskToBuy(g, p)
    PROVE  /\ HoldsAll(h, el) /\ Served(g, h, p)
           /\ Pending(simActions, 1, h.sendActions, "buying", p)
<1>1. PICK a \in SimAction : /\ a = Action("newMatch", p, 0)
                             /\ a.kind = "newMatch" /\ a.player = p
  BY ActionTypes DEF PlayerKinds
<1>2. PICK b \in SimAction : b = Action("buying", p, 0) /\ b.kind = "buying" /\ b.player = p
  BY ActionTypes DEF PlayerKinds
<1>3. PICK k : k = [g EXCEPT !.newlyJoined = @ \ {p}, !.bought = @ \ {p}]
  OBVIOUS
<1>4. /\ k \in GameState /\ k.state = g.state /\ k.round = g.round
      /\ k.sendActions = g.sendActions /\ k.bought = g.bought \ {p}
  BY <1>3 DEF GameState
<1>5. HoldsAll(k, el) /\ Served(g, k, p)
  BY <1>4, HoldsBuying, ServedSame
<1>6. PICK m : m = IF p \in g.newlyJoined THEN Add(k, a) ELSE g
  OBVIOUS
<1>7. HoldsAll(m, el) /\ Served(g, m, p)
  <2>1. CASE p \in g.newlyJoined
    <3>1. BuyingSends(k, a)
      BY <1>1 DEF BuyingSends
    <3>2. m = Add(k, a)
      BY <1>6, <2>1
    <3>3. HoldsAll(m, el) /\ Served(k, m, p)
      BY <1>4, <1>5, <3>1, <3>2, BuyingSent
    <3> QED
      BY <1>5, <3>3, ServedTwice
  <2>2. CASE p \notin g.newlyJoined
    <3>1. m = g
      BY <1>6, <2>2
    <3> QED
      BY <3>1, ServedSame
  <2> QED
    BY <2>1, <2>2
<1>8. m \in GameState /\ m.state = "Buying" /\ m.round = g.round
  BY <1>7 DEF Served
<1>9. PICK u : u = [m EXCEPT !.bought = @ \ {p}]
  OBVIOUS
<1>10. h = IF p \in Running(m, "buying") THEN m ELSE Add(u, b)
  BY <1>1, <1>2, <1>3, <1>6, <1>9 DEF AskToBuy
<1>11. p \in Running(m, "buying") <=> Pending(simActions, 1, m.sendActions, "buying", p)
  BY <1>8, RunningIs DEF Pending
<1>12. CASE Pending(simActions, 1, m.sendActions, "buying", p)
  BY <1>7, <1>10, <1>11, <1>12
<1>13. CASE ~Pending(simActions, 1, m.sendActions, "buying", p)
  <2>1. /\ u \in GameState /\ u.state = m.state /\ u.round = m.round
        /\ u.sendActions = m.sendActions /\ u.bought = m.bought \ {p}
    BY <1>8, <1>9 DEF GameState
  <2>2. HoldsAll(u, el) /\ Served(m, u, p)
    BY <1>7, <1>8, <2>1, HoldsBuying, ServedSame
  <2>3. ~Has(u.sendActions, 1, "play", p)
    BY <1>8, <1>13, <2>1, <2>2 DEF HoldsAll, Holds, Between
  <2>4. BuyingSends(u, b)
    BY <1>2, <1>13, <2>1, <2>3 DEF BuyingSends
  <2>5. h = Add(u, b)
    BY <1>10, <1>11, <1>13
  <2>6. u.state = "Buying"
    BY <1>8, <2>1
  <2>7. /\ HoldsAll(h, el) /\ Served(u, h, p)
        /\ Pending(simActions, 1, h.sendActions, "buying", p)
    BY <1>2, <2>1, <2>2, <2>4, <2>5, <2>6, BuyingSent
  <2> QED
    BY <1>7, <2>2, <2>7, ServedTwice
<1> QED
  BY <1>12, <1>13

\* A tank that buys gets a move.
LEMMA PlayerBuyingIs ==
    ASSUME NEW g \in GameState, g.state = "Buying", NEW el, HoldsAll(g, el), NEW p \in Players,
           NEW h, h = PlayerBuying(g, p)
    PROVE  /\ HoldsAll(h, el) /\ Served(g, h, p)
           /\ \A q \in Players : q \in g.bought => q \in h.bought
<1>1. PICK move \in Nat : move = g.nextMoveId + 1
  BY GameFields
<1>2. PICK timer \in Timer :
          timer = IF BuyingTime = 0 THEN g.timers[p]
                  ELSE [move |-> move, started |-> FALSE, time |-> MoveTime(g)]
  <2>1. g.timers[p] \in Timer
    BY GameFields
  <2>2. BuyingTime # 0 => MoveTime(g) \in 0 .. BuyingTime
    BY GameFields, RoundOptionsAssumption DEF MoveTime, LeftOver
  <2> QED
    BY <2>1, <2>2 DEF Timer
<1>3. PICK k : k = [g EXCEPT !.nextMoveId = move, !.moveId[p] = move, !.timers[p] = timer]
  OBVIOUS
<1>4. /\ k \in GameState /\ k.state = g.state /\ k.round = g.round
      /\ k.sendActions = g.sendActions /\ k.bought = g.bought
  BY <1>3 DEF GameState
<1>5. PICK a \in SimAction : a = Action("start", p, move) /\ a.kind = "start"
  BY ActionTypes DEF PlayerKinds
<1>6. h = Add(k, a)
  BY <1>1, <1>2, <1>3, <1>5 DEF PlayerBuying
<1>7. HoldsAll(k, el) /\ Served(g, k, p)
  BY <1>4, HoldsBuying, ServedSame
<1>8. BuyingSends(k, a)
  BY <1>5 DEF BuyingSends
<1>9. HoldsAll(h, el) /\ Served(k, h, p) /\ h.bought = k.bought
  BY <1>4, <1>6, <1>7, <1>8, BuyingSent, AddIs
<1> QED
  BY <1>4, <1>7, <1>9, ServedTwice

\* The states of the loop over the tanks, in a tick that began with elapsed.
BuyStates ==
    {s \in [game : GameState, playing : SUBSET Nat] :
        s.game.state = "Buying" /\ s.game.round = game.round /\ HoldsAll(s.game, elapsed)}

LEMMA BuyFields ==
    ASSUME NEW s \in BuyStates
    PROVE  /\ s.game \in GameState /\ s.playing \subseteq Nat /\ s.game.state = "Buying"
           /\ s.game.round = game.round /\ HoldsAll(s.game, elapsed)
           /\ s \in [game : GameState, playing : SUBSET Nat]
BY DEF BuyStates

\* What is done for p in it: a dead tank has asked to buy then, and if no destination
\* is held then who buys has bought.
Visits(s, u, p) ==
    /\ u \in BuyStates /\ Served(s.game, u.game, p) /\ s.playing \subseteq u.playing
    /\ tank[p] = "sDead" => Pending(simActions, 1, u.game.sendActions, "buying", p)
    /\ tank[p] = "sBuying" /\ BuyingRound(game) /\ u.playing = {} => p \in u.game.bought

\* A state of the loop with another game and other held destinations in them.
WithBuying(s, h, held) == [s EXCEPT !.game = h, !.playing = held]

LEMMA BuyStateIs ==
    ASSUME NEW s \in BuyStates, NEW h \in GameState, h.state = "Buying", h.round = game.round,
           HoldsAll(h, elapsed), NEW held \in SUBSET Nat, NEW u,
           u = WithBuying(s, h, held)
    PROVE  u \in BuyStates /\ u.game = h /\ u.playing = held
BY DEF BuyStates, WithBuying

LEMMA BuyIs ==
    ASSUME NEW s \in BuyStates, NEW p \in Players, tank[p] = "sBuying", NEW u, u = Buy(s, p)
    PROVE  Visits(s, u, p)
<1>1. PICK d \in Nat : d = DestinationOf(p)
  BY PlayersAssumption DEF DestinationOf
<1>2. PICK g \in GameState : g = s.game
  BY BuyFields
<1>3. PICK held \in SUBSET Nat : held = s.playing \cup {d}
  BY BuyFields
<1>4. PICK h : h = PlayerBuying(g, p)
  OBVIOUS
<1>5. g.state = "Buying" /\ HoldsAll(g, elapsed) /\ g.round = game.round
  BY <1>2, BuyFields
<1>6. /\ HoldsAll(h, elapsed) /\ Served(g, h, p)
      /\ \A q \in Players : q \in g.bought => q \in h.bought
  BY <1>4, <1>5, PlayerBuyingIs
<1>7. Served(g, g, p)
  BY <1>2, ServedSame
<1>8. CASE g.moveId[p] # 0
  <2>1. u = [s EXCEPT !.playing = held]
    BY <1>1, <1>2, <1>3, <1>8 DEF Buy
  <2>2. u = WithBuying(s, g, held)
    BY <1>2, <2>1, BuyFields DEF WithBuying
  <2>3. u \in BuyStates /\ u.game = g /\ u.playing = held
    BY <1>5, <2>2, BuyStateIs
  <2> QED
    BY <1>2, <1>3, <1>7, <2>3 DEF Visits
<1>9. CASE g.moveId[p] = 0 /\ p \notin g.bought /\ (d = 0 \/ d \notin s.playing)
  <2>1. u = [[s EXCEPT !.playing = held] EXCEPT !.game = h]
    BY <1>1, <1>2, <1>3, <1>4, <1>9 DEF Buy
  <2>2. u = WithBuying(s, h, held)
    BY <2>1, BuyFields DEF WithBuying
  <2>3. h \in GameState /\ h.state = "Buying" /\ h.round = game.round
    BY <1>5, <1>6 DEF Served
  <2>4. u \in BuyStates /\ u.game = h /\ u.playing = held
    BY <1>6, <2>2, <2>3, BuyStateIs
  <2> QED
    BY <1>2, <1>3, <1>6, <2>4 DEF Visits
<1>10. CASE g.moveId[p] = 0 /\ ~(p \notin g.bought /\ (d = 0 \/ d \notin s.playing))
  <2>1. u = s
    BY <1>1, <1>2, <1>10, Zenon DEF Buy
  <2>2. p \in g.bought \/ s.playing # {}
    BY <1>10
  <2> QED
    BY <1>2, <1>7, <2>1, <2>2 DEF Visits
<1> QED
  BY <1>8, <1>9, <1>10

LEMMA EachTankIs ==
    ASSUME TypeOK, NEW s \in BuyStates, NEW p \in Players, NEW u, u = EachTank(s, p)
    PROVE  Visits(s, u, p)
<1>1. PICK g \in GameState : g = s.game
  BY BuyFields
<1>2. g.state = "Buying" /\ HoldsAll(g, elapsed) /\ g.round = game.round
  BY <1>1, BuyFields
<1>3. simActions \in Seq(SimAction)
  BY DEF TypeOK
<1>4. CASE tank[p] = "sDead"
  <2>1. PICK h : h = AskToBuy(g, p)
    OBVIOUS
  <2>2. /\ HoldsAll(h, elapsed) /\ Served(g, h, p)
        /\ Pending(simActions, 1, h.sendActions, "buying", p)
    BY <1>2, <1>3, <1>4, <2>1, AskToBuyIs
  <2>3. h \in GameState /\ h.state = "Buying" /\ h.round = game.round
    BY <1>2, <2>2 DEF Served
  <2>4. PICK held \in SUBSET Nat : held = s.playing
    BY BuyFields
  <2>5. u = [s EXCEPT !.game = h]
    BY <1>1, <1>4, <2>1 DEF EachTank
  <2>6. u = WithBuying(s, h, held)
    BY <2>4, <2>5, BuyFields DEF WithBuying
  <2>7. u \in BuyStates /\ u.game = h /\ u.playing = held
    BY <2>2, <2>3, <2>6, BuyStateIs
  <2> QED
    BY <1>1, <1>4, <2>2, <2>4, <2>7 DEF Visits
<1>5. CASE tank[p] = "sBuying" /\ BuyingRound(s.game)
  <2>1. u = Buy(s, p)
    BY <1>5 DEF EachTank
  <2> QED
    BY <1>5, <2>1, BuyIs
<1>6. CASE tank[p] # "sDead" /\ ~(tank[p] = "sBuying" /\ BuyingRound(s.game))
  <2>1. u = s
    BY <1>6 DEF EachTank
  <2>2. tank[p] # "sBuying" \/ ~BuyingRound(game)
    BY <1>1, <1>2, <1>6 DEF BuyingRound
  <2>3. Served(g, g, p)
    BY ServedSame
  <2> QED
    BY <1>1, <1>6, <2>1, <2>2, <2>3 DEF Visits
<1> QED
  BY <1>4, <1>5, <1>6

\* The loop over the tanks.  When no destination is held at its end, none was before,
\* and when no tank is dead, nobody has to buy again.
LEMMA TanksLoop ==
    ASSUME TypeOK, NEW s \in BuyStates, NEW u, u = ForEachPlayer(Players, EachTank, s)
    PROVE  /\ u \in BuyStates
           /\ \A p \in Players :
                 /\ tank[p] = "sDead" => Pending(simActions, 1, u.game.sendActions, "buying", p)
                 /\ tank[p] = "sBuying" /\ BuyingRound(game) /\ u.playing = {} =>
                        p \in u.game.bought
<1> DEFINE step == [x \in BuyStates \X (1 .. N) |-> EachTank(x[1], x[2])]
<1>1. ASSUME NEW x \in BuyStates, NEW p \in 1 .. N PROVE Visits(x, EachTank(x, p), p)
  BY EachTankIs, PlayersAre
<1>2. ASSUME NEW x \in BuyStates, NEW p \in 1 .. N PROVE EachTank(x, p) \in BuyStates
  BY <1>1 DEF Visits
<1>3. step \in [BuyStates \X (1 .. N) -> BuyStates]
  BY <1>2
<1>4. \A x \in BuyStates, p \in 1 .. N : step[<<x, p>>] = EachTank(x, p)
  OBVIOUS
<1> HIDE DEF step
<1>5. PICK f \in [0 .. N -> BuyStates] : IsLoopOver(f, N, Players, s, step)
  BY <1>3, LoopOver, PlayersAre
<1>6. ASSUME NEW p \in 0 .. N, p # 0, p \in Players
      PROVE  step[<<f[p - 1], p>>] = EachTank(f[p - 1], p)
  <2>1. p \in 1 .. N /\ f[p - 1] \in BuyStates
    BY <1>6, PlayersAre
  <2> QED
    BY <1>4, <2>1
<1>7. f = [p \in 0 .. N |-> IF p = 0 THEN s
                            ELSE IF p \in Players THEN EachTank(f[p - 1], p) ELSE f[p - 1]]
  BY <1>5, <1>6 DEF IsLoopOver
<1> DEFINE after == CHOOSE g : g = [p \in 0 .. N |-> IF p = 0 THEN s
                            ELSE IF p \in Players THEN EachTank(g[p - 1], p) ELSE g[p - 1]]
<1>8. after = [p \in 0 .. N |-> IF p = 0 THEN s
                            ELSE IF p \in Players THEN EachTank(after[p - 1], p) ELSE after[p - 1]]
  BY <1>7, Zenon
<1>9. ForEachPlayer(Players, EachTank, s) = after[N]
  BY Zenon DEF ForEachPlayer
<1> HIDE DEF after
<1>10. after[0] = s /\ \A p \in 1 .. N : after[p] = EachTank(after[p - 1], p)
  BY <1>8, PlayersAre
<1> DEFINE Visited(i, x) ==
        /\ x \in BuyStates
        /\ \A p \in 1 .. i :
              /\ tank[p] = "sDead" => Pending(simActions, 1, x.game.sendActions, "buying", p)
              /\ tank[p] = "sBuying" /\ BuyingRound(game) /\ x.playing = {} => p \in x.game.bought
<1> DEFINE U == {i \in 0 .. N : Visited(i, after[i])}
<1>11. 0 \in U
  BY <1>10, PlayersAre
<1>12. ASSUME NEW i \in 1 .. N, i - 1 \in U PROVE i \in U
  <2>1. PICK x : x = after[i - 1]
    OBVIOUS
  <2>2. PICK y : y = after[i]
    OBVIOUS
  <2>3. x \in BuyStates /\ Visited(i - 1, x)
    BY <1>12, <2>1
  <2>4. Visits(x, y, i)
    BY <1>1, <1>10, <2>1, <2>2, <2>3
  <2>5. ASSUME NEW p \in 1 .. i
        PROVE  /\ tank[p] = "sDead" => Pending(simActions, 1, y.game.sendActions, "buying", p)
               /\ tank[p] = "sBuying" /\ BuyingRound(game) /\ y.playing = {} =>
                      p \in y.game.bought
    <3>1. p \in Players /\ i \in Players /\ N \in Nat
      BY PlayersAre
    <3>2. CASE p = i
      BY <2>4, <3>2 DEF Visits
    <3>3. CASE p # i
      <4>1. p \in 1 .. i - 1
        BY <3>1, <3>3
      <4>2. /\ tank[p] = "sDead" => Pending(simActions, 1, x.game.sendActions, "buying", p)
            /\ tank[p] = "sBuying" /\ BuyingRound(game) /\ x.playing = {} => p \in x.game.bought
        BY <2>3, <4>1
      <4>3. /\ Pending(simActions, 1, x.game.sendActions, "buying", p) =>
                   Pending(simActions, 1, y.game.sendActions, "buying", p)
            /\ p \in x.game.bought => p \in y.game.bought
            /\ x.playing \subseteq y.playing
        BY <2>4, <3>1, <3>3 DEF Visits, Served
      <4>4. y.playing = {} => x.playing = {}
        BY <4>3
      <4> QED
        BY <4>2, <4>3, <4>4
    <3> QED
      BY <3>2, <3>3
  <2>6. y \in BuyStates
    BY <2>4 DEF Visits
  <2> QED
    BY <2>2, <2>5, <2>6
<1>13. \A i \in 0 .. N : i \in U
  <2> HIDE DEF U
  <2> QED
    BY <1>11, <1>12, UpTo, PlayersAre
<1>14. Visited(N, after[N])
  <2>1. N \in 0 .. N
    BY PlayersAre
  <2> QED
    BY <1>13, <2>1
<1>15. u = after[N]
  BY <1>9
<1> QED
  BY <1>14, <1>15, PlayersAre

LEMMA StoppedServed ==
    ASSUME NEW g \in GameState, NEW h, Later(g, h), Stopped(g.sendActions, h.sendActions), NEW p
    PROVE  Served(g, h, p)
<1>1. PICK Q \in Seq(SimAction) : Q = g.sendActions
  BY GameFields
<1>2. ASSUME NEW q \in Players, Has(Q, 1, "buying", q) PROVE Has(h.sendActions, 1, "buying", q)
  <2>1. CASE h.sendActions = Q
    BY <1>2, <2>1
  <2>2. CASE h.sendActions # Q
    <3>1. PICK o \in Players : h.sendActions = Append(Q, Action("stop", o, 0))
      BY <1>1, <2>2 DEF Stopped
    <3>2. PICK a \in SimAction : a = Action("stop", o, 0)
      BY ActionTypes DEF PlayerKinds
    <3> QED
      BY <1>2, <3>1, <3>2, HasAppend
  <2> QED
    BY <2>1, <2>2
<1> QED
  BY <1>1, <1>2 DEF Served, Later, Pending

\* Time passes for the moves, and those whose time is over end.
LEMMA RunTimersIs ==
    ASSUME TypeOK, NEW g \in GameState, g.state = "Buying", HoldsAll(g, elapsed),
           NEW u, u = RunTimers(g)
    PROVE  Later(g, u) /\ HoldsAll(u, elapsed) /\ Served(g, u, 0)
<1> DEFINE over == {p \in Players : g.timers[p].started /\ g.timers[p].time < elapsed}
<1> DEFINE passing == [p \in Players |->
               IF g.timers[p].started /\ p \notin over
               THEN [g.timers[p] EXCEPT !.time = @ - elapsed] ELSE g.timers[p]]
<1> DEFINE passed == [g EXCEPT !.timers = passing]
<1> DEFINE Finish(h, p) == BuyingFinished(h, tank, p, h.timers[p].move)
<1> DEFINE D == {h \in GameState : Later(g, h) /\ HoldsAll(h, elapsed) /\ Served(g, h, 0)}
<1>1. passed \in D
  <2>1. elapsed \in Nat
    BY RoundBoundsAssumption DEF TypeOK
  <2>2. ASSUME NEW p \in Players PROVE passing[p] \in Timer
    <3>1. PICK t \in Timer : t = g.timers[p]
      BY GameFields
    <3>2. passing[p] = IF t.started /\ ~(t.time < elapsed) THEN [t EXCEPT !.time = @ - elapsed] ELSE t
      BY <3>1
    <3>3. t.time \in 0 .. BuyingTime /\ BuyingTime \in Nat
      BY RoundOptionsAssumption DEF Timer
    <3>4. ~(t.time < elapsed) => t.time - elapsed \in 0 .. BuyingTime
      BY <2>1, <3>3
    <3> QED
      BY <3>2, <3>4 DEF Timer
  <2>3. passing \in [Players -> Timer]
    BY <2>2
  <2> HIDE DEF passing
  <2>4. PICK h : h = [g EXCEPT !.timers = passing]
    OBVIOUS
  <2>5. /\ h \in GameState /\ h.state = g.state /\ h.round = g.round
        /\ h.sendActions = g.sendActions /\ h.bought = g.bought
    BY <2>3, <2>4 DEF GameState
  <2>6. Later(g, h) /\ HoldsAll(h, elapsed) /\ Served(g, h, 0)
    BY <2>5, HoldsBuying, ServedSame DEF Later
  <2> QED
    BY <2>4, <2>5, <2>6
<1>2. ASSUME NEW h \in D, NEW p \in 1 .. N PROVE Finish(h, p) \in D
  <2>1. PICK k : k = Finish(h, p)
    OBVIOUS
  <2>2. h \in GameState /\ Later(g, h) /\ HoldsAll(h, elapsed) /\ Served(g, h, 0)
    OBVIOUS
  <2>3. Later(h, k) /\ Stopped(h.sendActions, k.sendActions)
    BY <2>1, <2>2, BuyingFinishedIs, PlayersAre
  <2>4. HoldsAll(k, elapsed)
    BY <2>2, <2>3, StoppedHolds
  <2>5. k \in GameState /\ Later(g, k)
    BY <2>2, <2>3 DEF Later
  <2>6. Served(g, k, 0)
    BY <2>2, <2>3, StoppedServed, ServedTwice
  <2> QED
    BY <2>1, <2>4, <2>5, <2>6
<1> HIDE DEF D
<1> DEFINE step == [x \in D \X (1 .. N) |-> Finish(x[1], x[2])]
<1>3. step \in [D \X (1 .. N) -> D]
  BY <1>2
<1>4. \A x \in D, p \in 1 .. N : step[<<x, p>>] = Finish(x, p)
  OBVIOUS
<1> HIDE DEF step, passed, over
<1>5. PICK f \in [0 .. N -> D] : IsLoopOver(f, N, over, passed, step)
  BY <1>1, <1>3, LoopOver, PlayersAre
<1>6. ASSUME NEW p \in 0 .. N, p # 0, p \in over
      PROVE  step[<<f[p - 1], p>>] = Finish(f[p - 1], p)
  <2>1. p \in 1 .. N /\ f[p - 1] \in D
    BY <1>6, PlayersAre
  <2> HIDE DEF Finish
  <2> QED
    BY <1>4, <2>1
<1>7. f = [p \in 0 .. N |-> IF p = 0 THEN passed
                            ELSE IF p \in over THEN Finish(f[p - 1], p) ELSE f[p - 1]]
  <2> HIDE DEF Finish
  <2> QED
    BY <1>5, <1>6 DEF IsLoopOver
<1> DEFINE after == CHOOSE h : h = [p \in 0 .. N |-> IF p = 0 THEN passed
                            ELSE IF p \in over THEN Finish(h[p - 1], p) ELSE h[p - 1]]
<1>8. after = [p \in 0 .. N |-> IF p = 0 THEN passed
                            ELSE IF p \in over THEN Finish(after[p - 1], p) ELSE after[p - 1]]
  BY <1>7, Zenon
<1>9. u = after[N]
  BY Zenon DEF RunTimers, ForEachPlayer, over, passed
<1> HIDE DEF after
<1>10. /\ after[0] = passed
       /\ \A p \in 1 .. N :
             after[p] = IF p \in over THEN Finish(after[p - 1], p) ELSE after[p - 1]
  <2> HIDE DEF Finish
  <2> QED
    BY <1>8, PlayersAre
<1>11. \A i \in 1 .. N : after[i - 1] \in D => after[i] \in D
  <2> HIDE DEF Finish
  <2> QED
    BY <1>2, <1>10
<1>12. after[N] \in D
  <2>1. N \in Nat /\ N \in 0 .. N /\ after[0] \in D
    BY <1>1, <1>10, PlayersAre
  <2> QED
    BY <1>11, <2>1, LoopKeeps
<1> QED
  BY <1>9, <1>12 DEF D

\* The game is ready in h when it was in g, with the same to send but new games.
MadeReady(g, h) ==
    /\ h \in GameState /\ h.state = g.state /\ h.round = g.round /\ h.bought = g.bought
    /\ \A p \in Players : Fits(simActions, 1, h.sendActions, g, tank, notSpectator, toLoad, p)

\* A tank is made ready.
LEMMA NewGameSent ==
    ASSUME NEW g, NEW h, MadeReady(g, h), NEW p \in Players,
           NEW u, u = Add(h, Action("newGame", p, 0))
    PROVE  /\ MadeReady(g, u) /\ Has(u.sendActions, 1, "newGame", p)
           /\ \A q \in Players : Has(h.sendActions, 1, "newGame", q) =>
                                     Has(u.sendActions, 1, "newGame", q)
<1>1. PICK a \in SimAction : /\ a = Action("newGame", p, 0)
                             /\ a.kind = "newGame" /\ a.player = p
  BY ActionTypes DEF PlayerKinds
<1>2. PICK Q \in Seq(SimAction) : Q = h.sendActions
  BY GameFields DEF MadeReady
<1>3. /\ u \in GameState /\ u.sendActions = Append(Q, a) /\ u.state = h.state
      /\ u.round = h.round /\ u.bought = h.bought
  BY <1>1, <1>2, AddIs DEF MadeReady
<1>4. ASSUME NEW q \in Players
      PROVE  Fits(simActions, 1, Append(Q, a), g, tank, notSpectator, toLoad, q)
  <2>1. Fits(simActions, 1, Q, g, tank, notSpectator, toLoad, q)
    BY <1>2 DEF MadeReady
  <2>2. MaySend(simActions, 1, Q, g, tank, a, q)
    BY <1>1 DEF MaySend
  <2> QED
    BY <2>1, <2>2, FitsAppend
<1>5. MadeReady(g, u)
  BY <1>3, <1>4 DEF MadeReady
<1>6. \A q : Has(Append(Q, a), 1, "newGame", q) <=> Has(Q, 1, "newGame", q) \/ q = p
  BY <1>1, HasAppend
<1> QED
  BY <1>2, <1>3, <1>5, <1>6

\* All that are there are.
Readied(t) == [t EXCEPT !.state = "TankNewGame", !.time = 0]

LEMMA NewGameLoop ==
    ASSUME NEW t, MadeReady(Readied(t), Readied(t)), NEW u, u = EnterTankNewGame(t)
    PROVE  /\ MadeReady(Readied(t), u)
           /\ \A p \in Present : Has(u.sendActions, 1, "newGame", p)
<1> DEFINE g == Readied(t)
<1> DEFINE AddNewGame(h, p) == Add(h, Action("newGame", p, 0))
<1> DEFINE D == {h \in GameState : MadeReady(g, h)}
<1>1. g \in D
  BY DEF MadeReady
<1> HIDE DEF g
<1>2. ASSUME NEW h \in D, NEW p \in 1 .. N
      PROVE  /\ AddNewGame(h, p) \in D
             /\ Has(AddNewGame(h, p).sendActions, 1, "newGame", p)
             /\ \A q \in Players : Has(h.sendActions, 1, "newGame", q) =>
                                       Has(AddNewGame(h, p).sendActions, 1, "newGame", q)
  <2>1. PICK k : k = AddNewGame(h, p)
    OBVIOUS
  <2>2. /\ MadeReady(g, k) /\ Has(k.sendActions, 1, "newGame", p)
        /\ \A q \in Players : Has(h.sendActions, 1, "newGame", q) =>
                                  Has(k.sendActions, 1, "newGame", q)
    BY <2>1, NewGameSent, PlayersAre
  <2>3. k \in D
    BY <2>2 DEF MadeReady
  <2> QED
    BY <2>1, <2>2, <2>3
<1> HIDE DEF D
<1> DEFINE step == [x \in D \X (1 .. N) |-> AddNewGame(x[1], x[2])]
<1>3. step \in [D \X (1 .. N) -> D]
  BY <1>2
<1>4. \A x \in D, p \in 1 .. N : step[<<x, p>>] = AddNewGame(x, p)
  OBVIOUS
<1> HIDE DEF step
<1>5. PICK f \in [0 .. N -> D] : IsLoopOver(f, N, Present, g, step)
  BY <1>1, <1>3, LoopOver, PlayersAre
<1>6. ASSUME NEW p \in 0 .. N, p # 0, p \in Present
      PROVE  step[<<f[p - 1], p>>] = AddNewGame(f[p - 1], p)
  <2>1. p \in 1 .. N /\ f[p - 1] \in D
    BY <1>6, PlayersAre
  <2> HIDE DEF AddNewGame
  <2> QED
    BY <1>4, <2>1
<1>7. f = [p \in 0 .. N |-> IF p = 0 THEN g
                            ELSE IF p \in Present THEN AddNewGame(f[p - 1], p) ELSE f[p - 1]]
  <2> HIDE DEF AddNewGame
  <2> QED
    BY <1>5, <1>6 DEF IsLoopOver
<1> DEFINE after == CHOOSE h : h = [p \in 0 .. N |-> IF p = 0 THEN g
                            ELSE IF p \in Present THEN AddNewGame(h[p - 1], p) ELSE h[p - 1]]
<1>8. after = [p \in 0 .. N |-> IF p = 0 THEN g
                            ELSE IF p \in Present THEN AddNewGame(after[p - 1], p) ELSE after[p - 1]]
  BY <1>7, Zenon
<1>9. u = after[N]
  BY Zenon DEF EnterTankNewGame, ForEachPlayer, g, Readied
<1> HIDE DEF after, AddNewGame
<1>10. /\ after[0] = g
       /\ \A p \in 1 .. N :
             after[p] = IF p \in Present THEN AddNewGame(after[p - 1], p) ELSE after[p - 1]
  BY <1>8, PlayersAre
<1> DEFINE Sent(i, h) ==
        h \in D /\ \A p \in Present : p <= i => Has(h.sendActions, 1, "newGame", p)
<1> DEFINE U == {i \in 0 .. N : Sent(i, after[i])}
<1>11. 0 \in U
  <2>1. \A p \in Present : ~(p <= 0)
    BY PlayersAre DEF Present
  <2> QED
    BY <1>1, <1>10, <2>1, PlayersAre
<1>12. ASSUME NEW i \in 1 .. N, i - 1 \in U PROVE i \in U
  <2>1. PICK h : h = after[i - 1]
    OBVIOUS
  <2>2. Sent(i - 1, h)
    BY <1>12, <2>1
  <2>3. PICK k : k = IF i \in Present THEN AddNewGame(h, i) ELSE h
    OBVIOUS
  <2>4. k = after[i]
    BY <1>10, <2>1, <2>3
  <2>5. /\ k \in D
        /\ i \in Present => Has(k.sendActions, 1, "newGame", i)
        /\ \A q \in Players : Has(h.sendActions, 1, "newGame", q) =>
                                  Has(k.sendActions, 1, "newGame", q)
    BY <1>2, <2>2, <2>3
  <2>6. ASSUME NEW p \in Present, p <= i PROVE Has(k.sendActions, 1, "newGame", p)
    <3>1. CASE p = i
      BY <2>5, <3>1
    <3>2. CASE p # i
      <4>1. p \in Players /\ p <= i - 1
        BY <2>6, <3>2, PlayersAre DEF Present
      <4> QED
        BY <2>2, <2>5, <4>1
    <3> QED
      BY <3>1, <3>2
  <2> QED
    BY <2>4, <2>5, <2>6
<1>13. \A i \in 0 .. N : i \in U
  <2> HIDE DEF U
  <2> QED
    BY <1>11, <1>12, UpTo, PlayersAre
<1>14. Sent(N, after[N])
  <2>1. N \in 0 .. N
    BY PlayersAre
  <2> QED
    BY <1>13, <2>1
<1>15. \A p \in Present : p <= N
  BY PlayersAre DEF Present
<1> QED
  BY <1>9, <1>14, <1>15 DEF D, g

\* When everybody bought and no tank is dead, the tanks are made ready: nobody is due.
LEMMA ReadyFits ==
    ASSUME NEW g, NEW h, NEW el, HoldsAll(g, el), NEW p \in Players, g.state = "Buying",
           tank[p] # "sDead", h.state = "TankNewGame", h.round = g.round,
           h.bought = g.bought, tank[p] \in AllTankStates, tank[p] = "sBuying" /\ BuyingRound(g) => p \in g.bought
    PROVE  Fits(simActions, 1, g.sendActions, h, tank, notSpectator, toLoad, p)
<1>1. PICK Q : Q = g.sendActions
  OBVIOUS
<1>2. /\ Fits(simActions, 1, Q, g, tank, notSpectator, toLoad, p)
      /\ Between(simActions, Q, g.state, tank, el, p)
  BY <1>1 DEF HoldsAll, Holds
<1>3. tank[p] # "sNormal" /\ ~Has(simActions, 1, "newGame", p)
  BY <1>2 DEF Fits, Plays
<1>4. Has(Q, 1, "buying", p) \/ Has(Q, 1, "newMatch", p) => tank[p] = "gone"
  BY <1>2 DEF Between
<1>5. Due(h, p) => tank[p] # "sBuying"
  BY DEF Due, BuyingRound
<1>6. Plays(simActions, 1, h, tank, notSpectator, p)
  BY <1>3, <1>5 DEF Plays
<1>7. Pending(simActions, 1, Q, "buying", p) /\ tank[p] # "gone" =>
          ~Has(Q, 1, "buying", p) /\ ~notSpectator[p]
  <2> SUFFICES ASSUME Pending(simActions, 1, Q, "buying", p), tank[p] # "gone"
               PROVE  ~Has(Q, 1, "buying", p) /\ ~notSpectator[p]
    OBVIOUS
  <2>1. tank[p] \notin {"away", "sLoading", "sBuying"}
    BY <1>2 DEF Fits, Buys
  <2>2. tank[p] = "sSpectator"
    BY <1>3, <2>1 DEF AllTankStates, TankStates
  <2> QED
    BY <1>2, <1>4, <2>2 DEF Fits, Loads
<1>8. Pending(simActions, 1, Q, "newMatch", p) /\ tank[p] # "gone" => ~Has(Q, 1, "newMatch", p)
  BY <1>4
<1>9. Buys(simActions, 1, Q, h.state, tank, notSpectator, p)
  BY <1>2, <1>7, <1>8 DEF Fits, Buys
<1> QED
  BY <1>1, <1>2, <1>6, <1>9 DEF Fits

LEMMA BuyingHolds ==
    ASSUME IInv, BuyingTick, elapsed' = 0, UNCHANGED <<told, changes>>
    PROVE  IInv'
<1>1. TypeOK /\ RoundsInv /\ game \in GameState /\ game.state = "Buying"
  BY DEF IInv, TypeOK, BuyingTick
<1>2. UNCHANGED <<simActions, tank, notSpectator, deserted, score, shots, toLoad, levels>>
  BY DEF BuyingTick, others
<1>3. PICK ran : ran = RunTime(game)
  OBVIOUS
<1>4. /\ ran \in GameState /\ ran.state = "Buying" /\ ran.round = game.round
      /\ HoldsAll(ran, elapsed)
  <2>1. PICK t \in Nat :
            t = IF BuyingTime = 0 \/ game.time > BuyingTime + 2 THEN game.time
                ELSE game.time + elapsed
    BY InRound
  <2>2. ran = [game EXCEPT !.time = t]
    BY <1>3, <2>1 DEF RunTime
  <2>3. /\ ran \in GameState /\ ran.state = "Buying" /\ ran.round = game.round
        /\ ran.sendActions = game.sendActions
    BY <1>1, <2>2 DEF GameState
  <2>4. HoldsAll(game, elapsed)
    BY <1>1, HoldsNow DEF HoldsAll
  <2> QED
    BY <1>1, <2>3, <2>4, HoldsBuying
<1>5. PICK s0 : s0 = [game |-> ran, playing |-> {}]
  OBVIOUS
<1>6. s0 \in BuyStates
  BY <1>4, <1>5 DEF BuyStates
<1>7. PICK s : s = ForEachPlayer(Players, EachTank, s0)
  OBVIOUS
<1>8. /\ s \in BuyStates
      /\ \A p \in Players :
            /\ tank[p] = "sDead" => Pending(simActions, 1, s.game.sendActions, "buying", p)
            /\ tank[p] = "sBuying" /\ BuyingRound(game) /\ s.playing = {} => p \in s.game.bought
  BY <1>1, <1>6, <1>7, TanksLoop
<1>9. PICK b \in GameState : b = s.game
  BY <1>8, BuyFields
<1>10. b.state = "Buying" /\ b.round = game.round /\ HoldsAll(b, elapsed)
  BY <1>8, <1>9, BuyFields
<1>11. PICK g : g = RunTimers(b)
  OBVIOUS
<1>12. Later(b, g) /\ HoldsAll(g, elapsed) /\ Served(b, g, 0)
  BY <1>1, <1>10, <1>11, RunTimersIs
<1>13. game' = IF EverybodyBought(s) THEN EnterTankNewGame(g) ELSE g
  BY <1>3, <1>5, <1>7, <1>9, <1>11 DEF BuyingTick
<1>14. /\ g \in GameState /\ g.state = "Buying" /\ g.round = game.round
       /\ b.bought \subseteq g.bought /\ g.round <= levels
  BY <1>10, <1>12, InRound DEF Later
<1>15. ASSUME NEW h \in GameState, game' = h PROVE TypeOK'
  <2>1. 0 \in 0 .. MaxLag
    BY RoundBoundsAssumption
  <2> QED
    BY <1>1, <1>2, <1>15, <2>1 DEF TypeOK, Present
<1>16. CASE ~EverybodyBought(s)
  <2>1. game' = g
    BY <1>13, <1>16
  <2>2. PICK R : R = g.sendActions
    OBVIOUS
  <2>3. ASSUME NEW p \in Players
        PROVE  /\ Fits(simActions, 1, R, g, tank, notSpectator, toLoad, p)
               /\ Between(simActions, R, g.state, tank, 0, p)
    <3>1. /\ Fits(simActions, 1, R, g, tank, notSpectator, toLoad, p)
          /\ Between(simActions, R, g.state, tank, elapsed, p)
      BY <1>12, <2>2 DEF HoldsAll, Holds
    <3>2. tank[p] = "sDead" => Pending(simActions, 1, R, "buying", p)
      BY <1>8, <1>9, <1>12, <2>2 DEF Served
    <3>3. Between(simActions, R, g.state, tank, 0, p)
      BY <3>1, <3>2 DEF Between
    <3> QED
      BY <3>1, <3>3
  <2>4. RoundsInv'
    BY <1>2, <2>1, <2>2, <2>3 DEF RoundsInv
  <2>5. TypeOK' /\ game'.round <= levels'
    BY <1>2, <1>14, <1>15, <2>1
  <2> QED
    BY <2>4, <2>5 DEF IInv
<1>17. CASE EverybodyBought(s)
  <2>1. PICK u : u = EnterTankNewGame(g)
    OBVIOUS
  <2>2. PICK h : h = Readied(g)
    OBVIOUS
  <2>3. /\ h \in GameState /\ h.state = "TankNewGame" /\ h.round = g.round
        /\ h.bought = g.bought /\ h.sendActions = g.sendActions
    <3>1. PICK st \in States, t \in Nat : st = "TankNewGame" /\ t = 0
      BY DEF States
    <3>2. h = [g EXCEPT !.state = st, !.time = t]
      BY <2>2, <3>1 DEF Readied
    <3> QED
      BY <1>14, <3>1, <3>2 DEF GameState
  <2>4. ASSUME NEW p \in Players
        PROVE  Fits(simActions, 1, h.sendActions, h, tank, notSpectator, toLoad, p)
    <3>1. tank[p] # "sDead" /\ s.playing = {}
      BY <1>17 DEF EverybodyBought
    <3>2. tank[p] = "sBuying" /\ BuyingRound(g) => p \in g.bought
      BY <1>8, <1>9, <1>14, <3>1 DEF BuyingRound
    <3>3. tank[p] \in AllTankStates
      BY <1>1 DEF TypeOK, AllTankStates
    <3> QED
      BY <1>12, <1>14, <2>3, <3>1, <3>2, <3>3, ReadyFits
  <2>5. MadeReady(h, h)
    BY <2>3, <2>4 DEF MadeReady
  <2>6. /\ MadeReady(h, u)
        /\ \A p \in Present : Has(u.sendActions, 1, "newGame", p)
    BY <2>1, <2>2, <2>5, NewGameLoop
  <2>7. PICK R : R = u.sendActions
    OBVIOUS
  <2>8. u \in GameState /\ u.state = "TankNewGame" /\ u.round = game.round /\ u.bought = h.bought
    BY <1>14, <2>3, <2>6 DEF MadeReady
  <2>9. ASSUME NEW p \in Players
        PROVE  /\ Fits(simActions, 1, R, u, tank, notSpectator, toLoad, p)
               /\ Between(simActions, R, u.state, tank, 0, p)
    <3>1. Fits(simActions, 1, R, h, tank, notSpectator, toLoad, p)
      BY <2>6, <2>7 DEF MadeReady
    <3>2. u.state = h.state /\ (Due(u, p) => Due(h, p))
      BY <2>6 DEF MadeReady, Due, BuyingRound
    <3>3. Fits(simActions, 1, R, u, tank, notSpectator, toLoad, p)
      BY <3>1, <3>2, FitsSame
    <3>4. tank[p] \in AllTankStates
      BY <1>1 DEF TypeOK, AllTankStates
    <3>5. Has(simActions, 1, "buying", p) \/ Has(simActions, 1, "newMatch", p) => tank[p] # "away"
      BY <3>3 DEF Fits, Buys, Pending
    <3>6. tank[p] \notin {"away", "gone"} => p \in Present
      BY <3>4 DEF AllTankStates, Present
    <3>7. Between(simActions, R, u.state, tank, 0, p)
      BY <2>6, <2>7, <2>8, <3>5, <3>6 DEF Between
    <3> QED
      BY <3>3, <3>7
  <2>10. game' = u
    BY <1>13, <1>17, <2>1
  <2>11. RoundsInv'
    BY <1>2, <2>7, <2>9, <2>10 DEF RoundsInv
  <2>12. TypeOK' /\ game'.round <= levels'
    BY <1>2, <1>14, <1>15, <2>8, <2>10
  <2> QED
    BY <2>11, <2>12 DEF IInv
<1> QED
  BY <1>16, <1>17
-----------------------------------------------------------------------------
(* The invariance.                                                          *)

LEMMA InitHolds ==
    ASSUME Init
    PROVE  IInv
<1>1. /\ tank = [p \in Players |-> IF p \in MayJoin THEN "away" ELSE "sLoading"]
      /\ simActions = <<>> /\ notSpectator = [p \in Players |-> TRUE] /\ deserted = {}
      /\ score = NoScore /\ shots = FALSE /\ toLoad = Players \ MayJoin /\ told = {}
      /\ levels = 1 /\ changes = 0 /\ elapsed = 0
  BY DEF Init
<1>2. /\ game \in GameState /\ game.state = "WaitingForPlayers" /\ game.round = 1
      /\ game.sendActions = <<>>
  <2>1. PICK timers \in [Players -> Timer], moveId \in [Players -> Nat] :
            timers = [p \in Players |-> NoTimer] /\ moveId = [p \in Players |-> 0]
    <3>1. NoTimer \in Timer
      BY RoundOptionsAssumption DEF NoTimer, Timer
    <3> QED
      BY <3>1
  <2>2. game = [state |-> "WaitingForPlayers", round |-> 1, time |-> 0,
                bought |-> {}, timers |-> timers, moveId |-> moveId, nextMoveId |-> 0,
                newlyJoined |-> Players, roundState |-> "eNone", finished |-> FALSE,
                overAllWinner |-> FALSE, sendActions |-> <<>>]
    BY <2>1 DEF Init
  <2>3. 1 \in 0 .. MaxLevels /\ <<>> \in Seq(SimAction)
    BY RoundBoundsAssumption
  <2> QED
    BY <2>2, <2>3 DEF GameState, States
<1>3. TypeOK
  <2>1. /\ levels \in 0 .. MaxLevels /\ changes \in 0 .. MaxChanges /\ elapsed \in 0 .. MaxLag
        /\ 0 \in 0 .. ReferencedTime
    BY <1>1, RoundBoundsAssumption, RoundOptionsAssumption
  <2>2. score \in [shown : BOOLEAN, left : Nat, age : 0 .. ReferencedTime]
    BY <1>1, <2>1 DEF NoScore
  <2>3. tank \in [Players -> TankStates \cup {"away", "gone"}]
    BY <1>1 DEF TankStates
  <2>4. /\ simActions \in Seq(SimAction) /\ notSpectator \in [Players -> BOOLEAN]
        /\ shots \in BOOLEAN
    <3>1. <<>> \in Seq(SimAction)
      OBVIOUS
    <3> QED
      BY <1>1, <3>1
  <2>5. deserted \subseteq Present /\ toLoad \subseteq Players /\ told \subseteq Players \X Nat
    BY <1>1
  <2> QED
    BY <1>2, <2>1, <2>2, <2>3, <2>4, <2>5 DEF TypeOK
<1>4. ASSUME NEW p \in Players
      PROVE  /\ Fits(simActions, 1, game.sendActions, game, tank, notSpectator, toLoad, p)
             /\ Between(simActions, game.sendActions, game.state, tank, elapsed, p)
  <2>1. PICK q : q = <<>>
    OBVIOUS
  <2>2. /\ \A kind : ~Has(q, 1, kind, p) /\ Once(q, 1, kind, p)
        /\ Flags(q, 1, notSpectator, p) /\ NoPlayBefore(q, 1, p)
    <3>1. Len(q) \in Nat /\ 1 \in Nat /\ Len(q) < 1
      BY <2>1
    <3> QED
      BY <3>1, NothingLeft
  <2>3. tank[p] \in {"away", "sLoading"} /\ (p \in toLoad => tank[p] = "sLoading")
    BY <1>1
  <2>4. Loads(q, 1, q, tank, notSpectator, toLoad, p)
    BY <2>2, <2>3 DEF Loads, Pending, PendingOnce
  <2>5. Buys(q, 1, q, game.state, tank, notSpectator, p)
    BY <2>2 DEF Buys, Pending, PendingOnce
  <2>6. Plays(q, 1, game, tank, notSpectator, p)
    BY <2>2, <2>3 DEF Plays
  <2>7. Between(q, q, game.state, tank, elapsed, p)
    BY <2>2, <2>3 DEF Between
  <2> QED
    BY <1>1, <1>2, <2>1, <2>4, <2>5, <2>6, <2>7 DEF Fits
<1>5. RoundsInv
  BY <1>4 DEF RoundsInv
<1> QED
  BY <1>1, <1>2, <1>3, <1>5 DEF IInv

LEMMA TickHolds ==
    ASSUME IInv, Tick
    PROVE  IInv'
BY StartupHolds, WaitingHolds, MatchCountDownHolds, NewLevelHolds, BuyingHolds,
   TankNewGameHolds, PlayingHolds, FinishWaitHolds, ScoreHolds DEF Tick

LEMMA NextHolds ==
    ASSUME IInv, [Next]_vars
    PROVE  IInv'
<1>1. CASE Tick
  BY <1>1, TickHolds
<1>2. CASE SimulateInterval
  BY <1>2, IntervalHolds
<1>3. CASE Shoot \/ ShotsEnd
  BY <1>3, ShotsHold DEF Shoot, ShotsEnd
<1>4. CASE \E p \in Players : Player(p)
  BY <1>4, PlayerHolds
<1>5. CASE UNCHANGED vars
  <2>1. shots' \in BOOLEAN
    BY <1>5 DEF vars, IInv, TypeOK
  <2> QED
    BY <1>5, <2>1, ShotsHold DEF vars
<1> QED
  BY <1>1, <1>2, <1>3, <1>4, <1>5 DEF Next

\* The invariant holds in every state.
THEOREM RoundsInvariance == Spec => []IInv
<1>1. Init => IInv
  BY InitHolds
<1>2. IInv /\ [Next]_vars => IInv'
  BY NextHolds
<1> QED
  BY <1>1, <1>2, PTL DEF Spec

\* The types: among them that only players whose tank is there can have left it.
THEOREM TypeCorrect == Spec => []TypeOK
<1>1. IInv => TypeOK
  BY DEF IInv
<1> QED
  BY <1>1, RoundsInvariance, PTL

\* Who wants to play plays no round with buying before its turn to buy was answered or
\* over (ServerStateBuying::simulate waits for it).
THEOREM BoughtCorrect == Spec => []BoughtBeforeRound
<1>1. IInv => BoughtBeforeRound
  <2> SUFFICES ASSUME IInv, NEW p \in Players,
                      tank[p] = "sNormal", notSpectator[p], BuyingRound(game)
               PROVE  p \in game.bought
    BY DEF BoughtBeforeRound
  <2>1. Plays(simActions, 1, game, tank, notSpectator, p)
    BY DEF IInv, RoundsInv, Fits
  <2> QED
    BY <2>1 DEF Plays, Due
<1> QED
  BY <1>1, RoundsInvariance, PTL
=============================================================================
