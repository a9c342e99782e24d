------------------------------ MODULE WorkPool ------------------------------
(***************************************************************************)
(* What the regeneration script promises: the jobs start in their order,   *)
(* at most Capacity of them run at once, and every job runs once.          *)
(***************************************************************************)
EXTENDS Naturals, Sequences, FiniteSets

CONSTANTS Jobs,      \* every job there may be
          Order,     \* a sequence of them
          Capacity

VARIABLES waiting,   \* the jobs which have not been started
          running,   \* the jobs which have a slot
          ended      \* the jobs which have given their slot back

poolVars == <<waiting, running, ended>>

PoolInit == /\ waiting \in SUBSET Jobs
            /\ running = {}
            /\ ended   = {}

Before(j, k) == \E m, n \in DOMAIN Order : m < n /\ Order[m] = j /\ Order[n] = k

\* There is a slot, and j is the first job that waits for one.
MayStart(j) == /\ Cardinality(running) < Capacity
               /\ j \in waiting
               /\ \A k \in waiting \ {j} : Before(j, k)

Start(j) == /\ MayStart(j)
            /\ running' = running \cup {j}
            /\ waiting' = waiting \ {j}
            /\ UNCHANGED ended

\* A job which ends before it has really begun.
StartAndEnd(j) == /\ MayStart(j)
                  /\ ended'   = ended \cup {j}
                  /\ waiting' = waiting \ {j}
                  /\ UNCHANGED running

End(j) == /\ j \in running
          /\ running' = running \ {j}
          /\ ended'   = ended \cup {j}
          /\ UNCHANGED waiting

PoolNext == \E j \in Jobs : Start(j) \/ StartAndEnd(j) \/ End(j)

Pool == PoolInit /\ [][PoolNext]_poolVars
=============================================================================
