---------------------------- MODULE BuildDriver ----------------------------
(***************************************************************************)
(* .scripts/tspcompile.js regenerates the test crates: it calls generate   *)
(* for every crate of a fixed list, and generate starts the compiler under *)
(* the counting semaphore of .scripts/semaphore.js.                        *)
(*                                                                         *)
(* Node runs the script to its end first, then the functions given to      *)
(* nextTick, and only when there are none left the next event: a timer of  *)
(* the retry loop or the exit of a compiler.  generate always takes one    *)
(* unit and its task never calls take, so `firstHere` is false between two *)
(* calls of take and the unit it adds and subtracts again is not modelled. *)
(*                                                                         *)
(* A definition Name_Fault is Name with a plausible mistake in the code;   *)
(* no specification uses it: the properties must fail with it.             *)
(***************************************************************************)
EXTENDS Naturals, Sequences, FiniteSets, Functions

CONSTANTS Script,        \* the crates, in the order of the calls of generate
          Capacity,      \* how many builds may run at once
          MaxRmRetries   \* how often the old output is tried to be deleted

Crates == Range(Script)

ASSUME BuildAssumption ==
    /\ Script \in Seq(Crates) /\ IsInjective(Script)
    /\ Capacity \in Nat \ {0} /\ MaxRmRetries \in Nat \ {0}

VARIABLES selected,   \* the crates --filter lets through
          todo,       \* the calls of generate still to come
          current,    \* semaphore.current
          queue,      \* semaphore.queue
          ticks,      \* what nextTick has to run
          phase,      \* how far each crate is
          attempt,    \* the attempts to delete its old output that failed
          output      \* what its src/generated holds

vars == <<selected, todo, current, queue, ticks, phase, attempt, output>>

\* "scheduled" is given to nextTick, "backoff" waits to delete once more.
Phases == {"new", "skipped", "queued", "scheduled", "backoff", "compiling", "ok", "error"}
Ended(c) == phase[c] \in {"ok", "error"}

Init == /\ selected \in SUBSET Crates
        /\ todo    = Script
        /\ current = 0
        /\ queue   = <<>>
        /\ ticks   = <<>>
        /\ phase   = [c \in Crates |-> "new"]
        /\ attempt = [c \in Crates |-> 0]
        /\ output  = [c \in Crates |-> "old"]

Leave_CountsTwice(c, outcome, cur, tks) ==
    /\ current' = cur - 1
    /\ IF queue # <<>> /\ cur <= Capacity
       THEN /\ queue' = Tail(queue)
            /\ ticks' = Append(tks, Head(queue))
            /\ phase' = [phase EXCEPT ![c] = outcome, ![Head(queue)] = "scheduled"]
       ELSE /\ ticks' = tks
            /\ phase' = [phase EXCEPT ![c] = outcome]
            /\ UNCHANGED queue

Leave_WakesNobody(c, outcome, cur, tks) ==
    /\ current' = cur - 1
    /\ ticks'   = tks
    /\ phase'   = [phase EXCEPT ![c] = outcome]
    /\ UNCHANGED queue

Leave_LastFirst(c, outcome, cur, tks) ==
    IF queue # <<>> /\ cur <= Capacity
    THEN LET last == queue[Len(queue)] IN
         /\ queue'   = SubSeq(queue, 1, Len(queue) - 1)
         /\ ticks'   = Append(tks, last)
         /\ current' = cur
         /\ phase'   = [phase EXCEPT ![c] = outcome, ![last] = "scheduled"]
    ELSE Leave_WakesNobody(c, outcome, cur, tks)

\* The slot of c is free again (cur slots are taken, the one of c included):
\* the first waiting build takes it over at once and runs as a tick.
Leave(c, outcome, cur, tks) ==
    IF queue # <<>> /\ cur <= Capacity
    THEN /\ queue'   = Tail(queue)
         /\ ticks'   = Append(tks, Head(queue))
         /\ current' = cur
         /\ phase'   = [phase EXCEPT ![c] = outcome, ![Head(queue)] = "scheduled"]
    ELSE /\ current' = cur - 1
         /\ ticks'   = tks
         /\ phase'   = [phase EXCEPT ![c] = outcome]
         /\ UNCHANGED queue

\* c goes on holding its slot.
Hold(c, ph, cur, tks) == /\ phase'   = [phase EXCEPT ![c] = ph]
                         /\ current' = cur
                         /\ ticks'   = tks
                         /\ UNCHANGED queue

\* The old output is deleted and the compiler started, unless exec throws.
DeletedAndCompiles(c, cur, tks) ==
    /\ output' = [output EXCEPT ![c] = "none"]
    /\ \/ Hold(c, "compiling", cur, tks)
       \/ Leave(c, "error", cur, tks)
    /\ UNCHANGED attempt

DeleteFails_Ignored(c, cur, tks) ==
    /\ attempt' = [attempt EXCEPT ![c] = @ + 1]
    /\ IF attempt[c] = MaxRmRetries - 1
       THEN Hold(c, "compiling", cur, tks)
       ELSE Hold(c, "backoff", cur, tks)
    /\ UNCHANGED output

DeleteFails_Forever(c, cur, tks) ==
    /\ attempt' = [attempt EXCEPT ![c] = (@ + 1) % MaxRmRetries]
    /\ Hold(c, "backoff", cur, tks)
    /\ UNCHANGED output

\* rmSync throws: another attempt later, or the build fails.
DeleteFails(c, cur, tks) ==
    /\ attempt' = [attempt EXCEPT ![c] = @ + 1]
    /\ IF attempt[c] = MaxRmRetries - 1
       THEN Leave(c, "error", cur, tks)
       ELSE Hold(c, "backoff", cur, tks)
    /\ UNCHANGED output

\* The task of generate up to the next wait.
Task(c, cur, tks) == DeletedAndCompiles(c, cur, tks) \/ DeleteFails(c, cur, tks)

----------------------------------------------------------------------------
\* --filter excludes the next crate.
Skip == /\ todo # <<>> /\ Head(todo) \notin selected
        /\ todo'  = Tail(todo)
        /\ phase' = [phase EXCEPT ![Head(todo)] = "skipped"]
        /\ UNCHANGED <<selected, current, queue, ticks, attempt, output>>

\* take: there is a slot, the task runs at once.
TakeAndRun == /\ todo # <<>> /\ Head(todo) \in selected /\ current < Capacity
              /\ todo' = Tail(todo)
              /\ Task(Head(todo), current + 1, ticks)
              /\ UNCHANGED selected

\* take: there is none.
TakeAndWait == /\ todo # <<>> /\ Head(todo) \in selected /\ current >= Capacity
               /\ todo'  = Tail(todo)
               /\ queue' = Append(queue, Head(todo))
               /\ phase' = [phase EXCEPT ![Head(todo)] = "queued"]
               /\ UNCHANGED <<selected, current, ticks, attempt, output>>

\* The script has run to its end.
Tick == /\ todo = <<>> /\ ticks # <<>>
        /\ Task(Head(ticks), current, Tail(ticks))
        /\ UNCHANGED <<selected, todo>>

Idle == todo = <<>> /\ ticks = <<>>

RetryDelete(c) == /\ Idle /\ phase[c] = "backoff"
                  /\ Task(c, current, ticks)
                  /\ UNCHANGED <<selected, todo>>

CompilerExits(c) == /\ Idle /\ phase[c] = "compiling"
                    /\ \/ /\ output' = [output EXCEPT ![c] = "fresh"]
                          /\ Leave(c, "ok", current, ticks)
                       \/ /\ Leave(c, "error", current, ticks)
                          /\ UNCHANGED output
                    /\ UNCHANGED <<selected, todo, attempt>>

Exited == /\ Idle /\ \A c \in Crates : phase[c] \in {"ok", "error", "skipped"}
          /\ UNCHANGED vars

Next == \/ Skip \/ TakeAndRun \/ TakeAndWait \/ Tick
        \/ \E c \in Crates : RetryDelete(c) \/ CompilerExits(c)
        \/ Exited

Spec == Init /\ [][Next]_vars

\* Timers fire and the compiler exits, sooner or later.
FairSpec == Spec /\ WF_vars(Next)

----------------------------------------------------------------------------
Holding == {c \in Crates : phase[c] \in {"scheduled", "backoff", "compiling"}}

TypeOK == /\ selected \in SUBSET Crates
          /\ todo \in Seq(Crates) /\ queue \in Seq(Crates) /\ ticks \in Seq(Crates)
          /\ current \in Nat
          /\ phase   \in [Crates -> Phases]
          /\ attempt \in [Crates -> 0..MaxRmRetries]
          /\ output  \in [Crates -> {"old", "none", "fresh"}]

\* The counter of the semaphore is the number of builds that hold a slot, and
\* never more than its capacity: no slot is lost when a build fails, and none
\* is given back twice ("leave called too many times").
SlotsAccounted == /\ current = Cardinality(Holding)
                  /\ current <= Capacity

\* A build waits only while every slot is taken.
NoIdleSlot == queue # <<>> => current = Capacity

\* A build that is waiting is in the queue or scheduled, once.
QueuesMatchPhases ==
    /\ Range(queue) = {c \in Crates : phase[c] = "queued"} /\ IsInjective(queue)
    /\ Range(ticks) = {c \in Crates : phase[c] = "scheduled"} /\ IsInjective(ticks)
    /\ Range(todo)  = {c \in Crates : phase[c] = "new"} /\ IsInjective(todo)

\* The compiler never runs over old output, and a build that failed leaves old
\* output behind only if every attempt to delete it has failed ("delete all
\* content before regenerating").
NoStaleOutput ==
    \A c \in Crates :
        /\ phase[c] \in {"compiling", "ok"} => output[c] # "old"
        /\ phase[c] = "error" /\ output[c] = "old" => attempt[c] = MaxRmRetries

\* Every crate that is not filtered out is built or reported as failed.
EveryBuildEnds == \A c \in Crates : <>(c \in selected => Ended(c))

\* A build that was handed its slot but has not run yet is still waiting, and
\* one that has begun to run holds its slot until it ends.
Waiting == {c \in Crates : phase[c] \in {"queued", "scheduled"} \/ (phase[c] = "new" /\ c \in selected)}
Begun   == {c \in Crates : phase[c] \in {"backoff", "compiling"}}
Gone    == {c \in Crates : Ended(c)}

\* The script implements a pool of workers that starts its jobs in order.
WP == INSTANCE WorkPool
        WITH Jobs <- Crates, Order <- Script,
             waiting <- Waiting, running <- Begun, ended <- Gone

PoolRefined == WP!Pool
=============================================================================
