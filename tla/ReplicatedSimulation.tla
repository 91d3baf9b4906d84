------------------------ MODULE ReplicatedSimulation ------------------------
(***************************************************************************)
(* What the network code promises to a game of Scorched3D: one authority   *)
(* schedules actions in its own future, and each replica of the simulation *)
(* that is attached to it has, at every value of its own clock, applied    *)
(* exactly the actions scheduled before that value.  A replica attaches at *)
(* the start of a level.  One that lost the authority (it missed a batch,  *)
(* or ran ahead of one) is detached and promised nothing until it attaches *)
(* again.                                                                  *)
(***************************************************************************)
EXTENDS Integers, Sequences

CONSTANTS Replicas, MaxLevel

VARIABLES
    level,      \* level the authority plays
    clock,      \* its clock
    schedule,   \* per level, the actions scheduled and their time, in order
    replica     \* level, clock, world and attachment of each replica

vars == <<level, clock, schedule, replica>>

\* A replica with world w is where its clock t is: w is what was scheduled before
\* t, in the order in which it was scheduled.
AtClock(w, l, t) ==
    /\ Len(w) <= Len(schedule[l])
    /\ \A i \in 1 .. Len(w) : w[i] = schedule[l][i]
    /\ \A i \in 1 .. Len(schedule[l]) : schedule[l][i].at < t <=> i <= Len(w)

Init ==
    /\ level = 1
    /\ clock = 0
    /\ schedule = [l \in 1 .. MaxLevel |-> <<>>]
    /\ \A r \in Replicas : ~replica[r].attached

Extends(new, old) ==
    /\ Len(old) <= Len(new)
    /\ SubSeq(new, 1, Len(old)) = old

Detached(r) == [level |-> replica[r].level, clock |-> replica[r].clock,
                world |-> replica[r].world, attached |-> FALSE]

\* The authority schedules any number of actions, all later than its clock, and
\* advances.  A replica whose clock is beyond one of them is detached.
Advance ==
    /\ level' = level
    /\ clock' = clock + 1
    /\ Extends(schedule'[level], schedule[level])
    /\ \A l \in 1 .. MaxLevel \ {level} : schedule'[l] = schedule[l]
    /\ \A i \in Len(schedule[level]) + 1 .. Len(schedule'[level]) :
          /\ schedule'[level][i].at > clock
          /\ \A r \in Replicas :
                replica'[r].attached /\ replica[r].level = level
                    => replica[r].clock <= schedule'[level][i].at
    /\ \A r \in Replicas :
          replica'[r] \in {replica[r], Detached(r)}

NewLevel ==
    /\ level' = level + 1
    /\ clock' = 0
    /\ UNCHANGED <<schedule, replica>>

\* A replica starts the level the authority plays, or one it was told of before.
Attach(r) ==
    \E l \in 1 .. level :
        replica'[r] = [level |-> l, clock |-> 0, world |-> <<>>, attached |-> TRUE]

\* An attached replica advances by one step and applies what is scheduled for it.
Step(r) ==
    /\ replica[r].attached
    /\ replica'[r] = [level |-> replica[r].level, clock |-> replica[r].clock + 1,
                      world |-> replica'[r].world, attached |-> TRUE]
    /\ AtClock(replica'[r].world, replica[r].level, replica[r].clock + 1)

Stray(r) == ~replica'[r].attached

Replica ==
    /\ UNCHANGED <<level, clock, schedule>>
    /\ \E r \in Replicas :
          /\ Attach(r) \/ Step(r) \/ Stray(r)
          /\ \A s \in Replicas \ {r} : replica'[s] = replica[s]

Next == Advance \/ NewLevel \/ Replica

Spec == Init /\ [][Next]_vars

\* An attached replica is in the state its clock tells.
AttachedInStep ==
    \A r \in Replicas :
        replica[r].attached => AtClock(replica[r].world, replica[r].level, replica[r].clock)
=============================================================================
