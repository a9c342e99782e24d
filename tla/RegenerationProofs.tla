------------------------- MODULE RegenerationProofs -------------------------
(***************************************************************************)
(* What a regeneration of the crates does: the script that starts the      *)
(* compilers, for any number of crates, any capacity and any number of     *)
(* retries, and what a run of the emitter leaves in its output directory,  *)
(* for any number of sub-modules, files and runs.                          *)
(***************************************************************************)
EXTENDS BuildDriver, Emitter, SequenceTheorems, FiniteSetTheorems, TLAPS

----------------------------------------------------------------------------
(* Queues without duplicates. *)

LEMMA Shifted ==
    ASSUME NEW S, NEW s \in Seq(S), s # <<>>, IsInjective(s)
    PROVE  /\ Head(s) \in S /\ Head(s) \in Range(s)
           /\ Tail(s) \in Seq(S) /\ IsInjective(Tail(s))
           /\ Range(Tail(s)) = Range(s) \ {Head(s)}
<1>1. /\ Len(s) \in Nat /\ Len(s) # 0 /\ DOMAIN s = 1..Len(s)
      /\ Head(s) = s[1] /\ Head(s) \in S
  OBVIOUS
<1>2. /\ Tail(s) \in Seq(S)
      /\ Len(Tail(s)) = Len(s) - 1
      /\ DOMAIN Tail(s) = 1..(Len(s) - 1)
      /\ \A i \in 1..(Len(s) - 1) : Tail(s)[i] = s[i + 1]
  <2>1. /\ Tail(s) \in Seq(S)
        /\ Len(Tail(s)) = Len(s) - 1
        /\ \A i \in 1..Len(Tail(s)) : Tail(s)[i] = s[i + 1]
    BY HeadTailProperties
  <2>2. QED
    BY <2>1
<1>3. \A i \in 1..(Len(s) - 1) : i + 1 \in 1..Len(s) /\ i + 1 # 1
  BY <1>1
<1>4. \A i \in 1..Len(s) : i = 1 \/ (i - 1 \in 1..(Len(s) - 1) /\ i = (i - 1) + 1)
  BY <1>1
<1>5. IsInjective(Tail(s))
  BY <1>1, <1>2, <1>3 DEF IsInjective
<1>6. Range(Tail(s)) = Range(s) \ {Head(s)}
  <2>1. ASSUME NEW x \in Range(Tail(s))
        PROVE  x \in Range(s) /\ x # s[1]
    BY <1>1, <1>2, <1>3, <2>1 DEF Range, IsInjective
  <2>2. ASSUME NEW x \in Range(s), x # s[1]
        PROVE  x \in Range(Tail(s))
    <3>1. PICK i \in 1..Len(s) : x = s[i]
      BY <1>1, <2>2 DEF Range
    <3>2. i - 1 \in 1..(Len(s) - 1) /\ i = (i - 1) + 1
      BY <1>4, <2>2, <3>1
    <3>3. x = Tail(s)[i - 1]
      BY <1>2, <3>1, <3>2
    <3>4. QED
      BY <1>2, <3>2, <3>3 DEF Range
  <2>3. QED
    BY <1>1, <2>1, <2>2
<1>7. Head(s) \in Range(s)
  BY <1>1 DEF Range
<1>8. QED
  BY <1>1, <1>2, <1>5, <1>6, <1>7

LEMMA Queued ==
    ASSUME NEW S, NEW s \in Seq(S), NEW x \in S, IsInjective(s), x \notin Range(s)
    PROVE  /\ Append(s, x) \in Seq(S) /\ IsInjective(Append(s, x))
           /\ Range(Append(s, x)) = Range(s) \cup {x}
<1>1. /\ Append(s, x) \in Seq(S)
      /\ Len(s) \in Nat
      /\ DOMAIN s = 1..Len(s)
      /\ DOMAIN Append(s, x) = 1..(Len(s) + 1)
      /\ \A i \in 1..Len(s) : Append(s, x)[i] = s[i]
      /\ Append(s, x)[Len(s) + 1] = x
  OBVIOUS
<1>2. \A i \in 1..(Len(s) + 1) : i \in 1..Len(s) \/ i = Len(s) + 1
  BY <1>1
<1>3. \A i \in 1..Len(s) : i \in 1..(Len(s) + 1) /\ s[i] \in Range(s)
  BY <1>1 DEF Range
<1>4. Len(s) + 1 \in 1..(Len(s) + 1)
  BY <1>1
<1>5. IsInjective(Append(s, x))
  BY <1>1, <1>2, <1>3 DEF IsInjective
<1>6. Range(Append(s, x)) = Range(s) \cup {x}
  BY <1>1, <1>2, <1>3, <1>4 DEF Range
<1>7. QED
  BY <1>1, <1>5, <1>6

LEMMA CratesFinite == IsFiniteSet(Crates)
<1>1. Script \in Seq(Crates) /\ Crates = {Script[i] : i \in DOMAIN Script}
  BY BuildAssumption DEF Crates, Range
<1>2. Len(Script) \in Nat /\ DOMAIN Script = 1..Len(Script)
  BY <1>1
<1>3. IsFiniteSet(1..Len(Script))
  BY <1>2, FS_Interval
<1>4. Script \in Surjection(1..Len(Script), Crates)
  BY <1>1, <1>2 DEF Surjection
<1>5. QED
  BY <1>3, <1>4, FS_Surjection DEF ExistsSurjection

----------------------------------------------------------------------------
(* The slots.                                                              *)
(*                                                                         *)
(* Every step but Skip and TakeAndWait runs for one crate c, which holds a *)
(* slot or is just taking one (Runs), and ends with Leave or with Hold.    *)

\* A crate that has not run out of attempts may still run.
RetriesLeft ==
    \A c \in Crates : phase[c] \in {"new", "queued", "scheduled", "backoff"} =>
        attempt[c] < MaxRmRetries

Inv == TypeOK /\ QueuesMatchPhases /\ SlotsAccounted /\ NoIdleSlot /\ RetriesLeft

LEMMA InvInit == Init => Inv
<1> SUFFICES ASSUME Init PROVE Inv
  OBVIOUS
<1>1. TypeOK
  BY BuildAssumption DEF Init, TypeOK, Phases
<1>2. Range(<<>>) = {} /\ IsInjective(<<>>)
  BY DEF Range, IsInjective
<1>3. QueuesMatchPhases
  BY <1>2, BuildAssumption DEF Init, QueuesMatchPhases, Crates
<1>4. Holding = {}
  BY DEF Init, Holding
<1>5. SlotsAccounted /\ NoIdleSlot
  BY <1>4, FS_EmptySet, BuildAssumption DEF Init, SlotsAccounted, NoIdleSlot
<1>6. RetriesLeft
  BY BuildAssumption DEF Init, RetriesLeft
<1>7. QED
  BY <1>1, <1>3, <1>5, <1>6 DEF Inv

\* c runs with cur slots taken, its own included, and nextTick still has tks;
\* the calls of generate still to come are those of todo'.
Runs(c, cur, tks) ==
    /\ c \in Crates /\ phase[c] # "queued"
    /\ cur \in Nat /\ cur <= Capacity
    /\ cur = Cardinality(Holding \cup {c})
    /\ queue # <<>> => cur = Capacity
    /\ tks \in Seq(Crates) /\ IsInjective(tks)
    /\ Range(tks) = {d \in Crates : phase[d] = "scheduled"} \ {c}
    /\ todo' \in Seq(Crates) /\ IsInjective(todo')
    /\ Range(todo') = {d \in Crates : phase[d] = "new"} \ {c}
    /\ selected' = selected
    /\ attempt' \in [Crates -> 0..MaxRmRetries]
    /\ \A d \in Crates : d # c => attempt'[d] = attempt[d]
    /\ output'  \in [Crates -> {"old", "none", "fresh"}]

LEMMA HoldInv ==
    ASSUME Inv, NEW c, NEW cur, NEW tks, Runs(c, cur, tks),
           NEW ph \in {"backoff", "compiling"}, Hold(c, ph, cur, tks),
           ph = "backoff" => attempt'[c] < MaxRmRetries
    PROVE  Inv'
<1> USE DEF Inv, Runs, Hold
<1>1. phase' = [phase EXCEPT ![c] = ph] /\ phase \in [Crates -> Phases]
  BY DEF TypeOK
<1>2. phase'[c] = ph /\ \A d \in Crates : d # c => phase'[d] = phase[d]
  BY <1>1
<1>3. TypeOK'
  BY <1>1 DEF TypeOK, Phases
<1>4. Holding' = Holding \cup {c}
  BY <1>2 DEF Holding
<1>5. /\ {d \in Crates : phase'[d] = "queued"} = {d \in Crates : phase[d] = "queued"}
      /\ {d \in Crates : phase'[d] = "scheduled"} = {d \in Crates : phase[d] = "scheduled"} \ {c}
      /\ {d \in Crates : phase'[d] = "new"} = {d \in Crates : phase[d] = "new"} \ {c}
  BY <1>2
<1>6. QueuesMatchPhases'
  BY <1>5 DEF QueuesMatchPhases
<1>7. SlotsAccounted' /\ NoIdleSlot'
  BY <1>4 DEF SlotsAccounted, NoIdleSlot
<1>8. RetriesLeft'
  BY <1>2 DEF RetriesLeft
<1>9. QED
  BY <1>3, <1>6, <1>7, <1>8

LEMMA LeaveInv ==
    ASSUME Inv, NEW c, NEW cur, NEW tks, Runs(c, cur, tks),
           NEW outcome \in {"ok", "error"}, Leave(c, outcome, cur, tks)
    PROVE  Inv'
<1> USE DEF Inv, Runs
<1>0. phase \in [Crates -> Phases] /\ c \in Crates
  BY DEF TypeOK
<1>a. IsFiniteSet(Holding \cup {c}) /\ IsFiniteSet(Holding)
  <2>1. Holding \cup {c} \in SUBSET Crates /\ Holding \in SUBSET Crates
    BY DEF Holding
  <2>2. QED
    BY <2>1, CratesFinite, FS_Subset
\* The slot goes to the next build.
<1>1. CASE queue # <<>> /\ cur <= Capacity
  <2>0. PICK h : h = Head(queue)
    OBVIOUS
  <2>1. /\ queue' = Tail(queue)
        /\ ticks' = Append(tks, h)
        /\ current' = cur
        /\ phase' = [phase EXCEPT ![c] = outcome, ![h] = "scheduled"]
    BY <1>1, <2>0 DEF Leave
  <2>2. /\ h \in Crates /\ h \in Range(queue)
        /\ queue' \in Seq(Crates) /\ IsInjective(queue')
        /\ Range(queue') = Range(queue) \ {h}
    BY <1>1, <2>0, <2>1, Shifted DEF TypeOK, QueuesMatchPhases
  <2>3. phase[h] = "queued" /\ h # c
    BY <2>2 DEF QueuesMatchPhases
  <2>4. /\ ticks' \in Seq(Crates) /\ IsInjective(ticks')
        /\ Range(ticks') = Range(tks) \cup {h}
    BY <2>1, <2>2, <2>3, Queued
  <2>5. /\ phase'[c] = outcome /\ phase'[h] = "scheduled"
        /\ \A d \in Crates : d # c /\ d # h => phase'[d] = phase[d]
    BY <1>0, <2>1, <2>2, <2>3
  <2>6. TypeOK'
    BY <1>0, <2>1, <2>2, <2>4 DEF TypeOK, Phases
  <2>7. /\ {d \in Crates : phase'[d] = "queued"} = {d \in Crates : phase[d] = "queued"} \ {h}
        /\ {d \in Crates : phase'[d] = "scheduled"}
              = ({d \in Crates : phase[d] = "scheduled"} \ {c}) \cup {h}
        /\ {d \in Crates : phase'[d] = "new"} = {d \in Crates : phase[d] = "new"} \ {c}
    BY <2>2, <2>3, <2>5
  <2>8. QueuesMatchPhases'
    BY <2>2, <2>4, <2>7 DEF QueuesMatchPhases
  <2>9. Holding' = ((Holding \cup {c}) \ {c}) \cup {h}
    BY <2>2, <2>5 DEF Holding
  <2>10. Cardinality(Holding') = Cardinality(Holding \cup {c})
    <3> DEFINE R == (Holding \cup {c}) \ {c}
    <3>1. h \notin R
      BY <2>3 DEF Holding
    <3>2. IsFiniteSet(R) /\ Cardinality(R) = Cardinality(Holding \cup {c}) - 1
      BY <1>a, FS_RemoveElement
    <3>3. Cardinality(Holding \cup {c}) \in Nat
      OBVIOUS
    <3>4. Holding' = R \cup {h}
      BY <2>9
    <3> HIDE DEF R
    <3>5. Cardinality(R \cup {h}) = Cardinality(R) + 1
      BY <3>1, <3>2, FS_AddElement
    <3>6. QED
      BY <3>2, <3>3, <3>4, <3>5
  <2>11. SlotsAccounted' /\ NoIdleSlot'
    BY <1>1, <2>1, <2>10 DEF SlotsAccounted, NoIdleSlot
  <2>12. RetriesLeft'
    BY <2>3, <2>5 DEF RetriesLeft
  <2>13. QED
    BY <2>6, <2>8, <2>11, <2>12
\* Nobody waits.
<1>2. CASE queue = <<>>
  <2>1. /\ queue' = queue /\ ticks' = tks /\ current' = cur - 1
        /\ phase' = [phase EXCEPT ![c] = outcome]
    BY <1>2 DEF Leave
  <2>2. phase'[c] = outcome /\ \A d \in Crates : d # c => phase'[d] = phase[d]
    BY <1>0, <2>1
  <2>3. Holding' = (Holding \cup {c}) \ {c}
    BY <1>0, <2>2 DEF Holding
  <2>4. Cardinality(Holding') = cur - 1 /\ cur - 1 \in Nat
    <3>1. /\ IsFiniteSet(Holding')
          /\ Cardinality(Holding') = cur - 1
      BY <1>a, <2>3, FS_RemoveElement
    <3>2. QED
      BY <3>1, FS_CardinalityType
  <2>5. TypeOK'
    BY <1>0, <2>1, <2>4 DEF TypeOK, Phases
  <2>6. /\ {d \in Crates : phase'[d] = "queued"} = {d \in Crates : phase[d] = "queued"}
        /\ {d \in Crates : phase'[d] = "scheduled"} = {d \in Crates : phase[d] = "scheduled"} \ {c}
        /\ {d \in Crates : phase'[d] = "new"} = {d \in Crates : phase[d] = "new"} \ {c}
    BY <1>0, <2>2
  <2>7. QueuesMatchPhases'
    BY <2>1, <2>6 DEF QueuesMatchPhases
  <2>8. SlotsAccounted' /\ NoIdleSlot'
    BY <1>2, <2>1, <2>4, BuildAssumption DEF SlotsAccounted, NoIdleSlot
  <2>9. RetriesLeft'
    BY <2>2 DEF RetriesLeft
  <2>10. QED
    BY <2>5, <2>7, <2>8, <2>9
<1>3. QED
  BY <1>1, <1>2

\* The task of a crate that runs preserves the invariant.
LEMMA TaskInv ==
    ASSUME Inv, NEW c \in Crates, NEW cur, NEW tks, Task(c, cur, tks),
           attempt[c] < MaxRmRetries,
           (/\ attempt' \in [Crates -> 0..MaxRmRetries]
            /\ \A d \in Crates : d # c => attempt'[d] = attempt[d]
            /\ output'  \in [Crates -> {"old", "none", "fresh"}]) => Runs(c, cur, tks)
    PROVE  Inv'
<1>1. attempt \in [Crates -> 0..MaxRmRetries] /\ output \in [Crates -> {"old", "none", "fresh"}]
  BY DEF Inv, TypeOK
<1>2. CASE DeletedAndCompiles(c, cur, tks)
  <2>1. Runs(c, cur, tks)
    BY <1>1, <1>2 DEF DeletedAndCompiles
  <2>2. QED
    BY <1>2, <2>1, HoldInv, LeaveInv DEF DeletedAndCompiles
<1>3. CASE DeleteFails(c, cur, tks)
  <2>1. /\ attempt[c] \in Nat /\ attempt[c] + 1 \in 0..MaxRmRetries
        /\ attempt[c] # MaxRmRetries - 1 => attempt[c] + 1 < MaxRmRetries
    BY <1>1, BuildAssumption
  <2>2. attempt' = [attempt EXCEPT ![c] = attempt[c] + 1]
    BY <1>3 DEF DeleteFails
  <2>3. /\ attempt' \in [Crates -> 0..MaxRmRetries]
        /\ \A d \in Crates : d # c => attempt'[d] = attempt[d]
        /\ attempt'[c] = attempt[c] + 1
    BY <1>1, <2>1, <2>2
  <2>4. Runs(c, cur, tks)
    BY <1>1, <1>3, <2>3 DEF DeleteFails
  <2>5. QED
    BY <1>3, <2>1, <2>3, <2>4, HoldInv, LeaveInv DEF DeleteFails
<1>4. QED
  BY <1>2, <1>3 DEF Task

LEMMA InvStep == Inv /\ [Next]_vars => Inv'
<1> SUFFICES ASSUME Inv, [Next]_vars PROVE Inv'
  OBVIOUS
<1> USE DEF Inv
<1>1. CASE Skip
  <2>0. PICK c : c = Head(todo)
    OBVIOUS
  <2>1. /\ c \in Crates /\ c \in Range(todo)
        /\ todo' \in Seq(Crates) /\ IsInjective(todo') /\ Range(todo') = Range(todo) \ {c}
    BY <1>1, <2>0, Shifted DEF Skip, TypeOK, QueuesMatchPhases
  <2>2. phase[c] = "new" /\ phase \in [Crates -> Phases]
    BY <2>1 DEF QueuesMatchPhases, TypeOK
  <2>3. /\ phase' = [phase EXCEPT ![c] = "skipped"]
        /\ UNCHANGED <<selected, current, queue, ticks, attempt, output>>
    BY <1>1, <2>0 DEF Skip
  <2>4. phase'[c] = "skipped" /\ \A d \in Crates : d # c => phase'[d] = phase[d]
    BY <2>1, <2>2, <2>3
  <2>5. TypeOK'
    BY <2>1, <2>2, <2>3 DEF TypeOK, Phases
  <2>6. Holding' = Holding
    BY <2>2, <2>4 DEF Holding
  <2>7. QueuesMatchPhases'
    <3>1. /\ {d \in Crates : phase'[d] = "queued"} = {d \in Crates : phase[d] = "queued"}
          /\ {d \in Crates : phase'[d] = "scheduled"} = {d \in Crates : phase[d] = "scheduled"}
          /\ {d \in Crates : phase'[d] = "new"} = {d \in Crates : phase[d] = "new"} \ {c}
      BY <2>2, <2>4
    <3>2. QED
      BY <2>1, <2>3, <3>1 DEF QueuesMatchPhases
  <2>8. SlotsAccounted' /\ NoIdleSlot' /\ RetriesLeft'
    BY <2>3, <2>4, <2>6 DEF SlotsAccounted, NoIdleSlot, RetriesLeft
  <2>9. QED
    BY <2>5, <2>7, <2>8
<1>2. CASE TakeAndRun
  <2>0. PICK c : c = Head(todo)
    OBVIOUS
  <2>1. /\ c \in Crates /\ c \in Range(todo)
        /\ todo' \in Seq(Crates) /\ IsInjective(todo') /\ Range(todo') = Range(todo) \ {c}
    BY <1>2, <2>0, Shifted DEF TakeAndRun, TypeOK, QueuesMatchPhases
  <2>2. phase[c] = "new" /\ c \notin Holding
    BY <2>1 DEF QueuesMatchPhases, Holding
  <2>3. Cardinality(Holding \cup {c}) = current + 1
    <3>1. Holding \in SUBSET Crates
      BY DEF Holding
    <3>2. IsFiniteSet(Holding)
      BY <3>1, CratesFinite, FS_Subset
    <3>3. QED
      BY <2>2, <3>2, FS_AddElement DEF SlotsAccounted
  <2>4. current + 1 \in Nat /\ current + 1 <= Capacity /\ queue = <<>>
    BY <1>2, BuildAssumption DEF TakeAndRun, TypeOK, NoIdleSlot
  <2>5. (/\ attempt' \in [Crates -> 0..MaxRmRetries]
         /\ \A d \in Crates : d # c => attempt'[d] = attempt[d]
         /\ output'  \in [Crates -> {"old", "none", "fresh"}]) => Runs(c, current + 1, ticks)
    BY <1>2, <2>1, <2>2, <2>3, <2>4 DEF TakeAndRun, TypeOK, QueuesMatchPhases, Runs
  <2>6. attempt[c] < MaxRmRetries
    BY <2>1, <2>2 DEF RetriesLeft
  <2>7. Task(c, current + 1, ticks)
    BY <1>2, <2>0 DEF TakeAndRun
  <2>8. QED
    BY <2>1, <2>5, <2>6, <2>7, TaskInv
<1>3. CASE TakeAndWait
  <2>0. PICK c : c = Head(todo)
    OBVIOUS
  <2>1. /\ c \in Crates /\ c \in Range(todo)
        /\ todo' \in Seq(Crates) /\ IsInjective(todo') /\ Range(todo') = Range(todo) \ {c}
    BY <1>3, <2>0, Shifted DEF TakeAndWait, TypeOK, QueuesMatchPhases
  <2>2. phase[c] = "new" /\ c \notin Range(queue) /\ phase \in [Crates -> Phases]
    BY <2>1 DEF QueuesMatchPhases, TypeOK
  <2>3. /\ phase' = [phase EXCEPT ![c] = "queued"] /\ queue' = Append(queue, c)
        /\ UNCHANGED <<selected, current, ticks, attempt, output>>
    BY <1>3, <2>0 DEF TakeAndWait
  <2>4. phase'[c] = "queued" /\ \A d \in Crates : d # c => phase'[d] = phase[d]
    BY <2>1, <2>2, <2>3
  <2>5. queue' \in Seq(Crates) /\ IsInjective(queue') /\ Range(queue') = Range(queue) \cup {c}
    BY <2>1, <2>2, <2>3, Queued DEF TypeOK, QueuesMatchPhases
  <2>6. TypeOK'
    BY <2>1, <2>2, <2>3, <2>5 DEF TypeOK, Phases
  <2>7. Holding' = Holding
    BY <2>2, <2>4 DEF Holding
  <2>8. QueuesMatchPhases'
    <3>1. /\ {d \in Crates : phase'[d] = "queued"} = {d \in Crates : phase[d] = "queued"} \cup {c}
          /\ {d \in Crates : phase'[d] = "scheduled"} = {d \in Crates : phase[d] = "scheduled"}
          /\ {d \in Crates : phase'[d] = "new"} = {d \in Crates : phase[d] = "new"} \ {c}
      BY <2>1, <2>2, <2>4
    <3>2. QED
      BY <2>1, <2>3, <2>5, <3>1 DEF QueuesMatchPhases
  <2>9. SlotsAccounted' /\ NoIdleSlot' /\ RetriesLeft'
    BY <1>3, <2>2, <2>3, <2>4, <2>7, BuildAssumption
       DEF TakeAndWait, TypeOK, SlotsAccounted, NoIdleSlot, RetriesLeft
  <2>10. QED
    BY <2>6, <2>8, <2>9
<1>4. CASE Tick
  <2>0. PICK c : c = Head(ticks)
    OBVIOUS
  <2>1. /\ c \in Crates /\ c \in Range(ticks)
        /\ Tail(ticks) \in Seq(Crates) /\ IsInjective(Tail(ticks))
        /\ Range(Tail(ticks)) = Range(ticks) \ {c}
    BY <1>4, <2>0, Shifted DEF Tick, TypeOK, QueuesMatchPhases
  <2>2. phase[c] = "scheduled" /\ Holding \cup {c} = Holding
    BY <2>1 DEF QueuesMatchPhases, Holding
  <2>3. (/\ attempt' \in [Crates -> 0..MaxRmRetries]
         /\ \A d \in Crates : d # c => attempt'[d] = attempt[d]
         /\ output'  \in [Crates -> {"old", "none", "fresh"}]) => Runs(c, current, Tail(ticks))
    BY <1>4, <2>1, <2>2 DEF Tick, TypeOK, QueuesMatchPhases, SlotsAccounted, NoIdleSlot, Runs
  <2>4. attempt[c] < MaxRmRetries
    BY <2>1, <2>2 DEF RetriesLeft
  <2>5. Task(c, current, Tail(ticks))
    BY <1>4, <2>0 DEF Tick
  <2>6. QED
    BY <2>1, <2>3, <2>4, <2>5, TaskInv
<1>5. ASSUME NEW c \in Crates, RetryDelete(c)
      PROVE  Inv'
  <2>1. phase[c] = "backoff" /\ Holding \cup {c} = Holding
    BY <1>5 DEF RetryDelete, Holding
  <2>2. (/\ attempt' \in [Crates -> 0..MaxRmRetries]
         /\ \A d \in Crates : d # c => attempt'[d] = attempt[d]
         /\ output'  \in [Crates -> {"old", "none", "fresh"}]) => Runs(c, current, ticks)
    BY <1>5, <2>1 DEF RetryDelete, TypeOK, QueuesMatchPhases, SlotsAccounted, NoIdleSlot, Runs
  <2>3. attempt[c] < MaxRmRetries
    BY <2>1 DEF RetriesLeft
  <2>4. QED
    BY <1>5, <2>2, <2>3, TaskInv DEF RetryDelete
<1>6. ASSUME NEW c \in Crates, CompilerExits(c)
      PROVE  Inv'
  <2>1. phase[c] = "compiling" /\ Holding \cup {c} = Holding
    BY <1>6 DEF CompilerExits, Holding
  <2>2. output' \in [Crates -> {"old", "none", "fresh"}]
    BY <1>6 DEF CompilerExits, TypeOK
  <2>3. Runs(c, current, ticks)
    BY <1>6, <2>1, <2>2
       DEF CompilerExits, TypeOK, QueuesMatchPhases, SlotsAccounted, NoIdleSlot, Runs
  <2>4. QED
    BY <1>6, <2>3, LeaveInv DEF CompilerExits
<1>7. CASE UNCHANGED vars
  BY <1>7 DEF vars, TypeOK, QueuesMatchPhases, SlotsAccounted, Holding, NoIdleSlot, RetriesLeft
<1>8. QED
  BY <1>1, <1>2, <1>3, <1>4, <1>5, <1>6, <1>7 DEF Next, Exited

\* The variables always have their types; the counter never goes below zero.
THEOREM TypeCorrect == Spec => []TypeOK
<1>1. Inv => TypeOK
  BY DEF Inv
<1>2. QED
  BY <1>1, InvInit, InvStep, PTL DEF Spec

\* However builds fail and retry, semaphore.current is the number of builds
\* that hold a slot, and at most the capacity.
THEOREM SlotsNeverLeak == Spec => []SlotsAccounted
<1>1. Inv => SlotsAccounted
  BY DEF Inv
<1>2. QED
  BY <1>1, InvInit, InvStep, PTL DEF Spec

\* No build waits while a slot is free.
THEOREM SlotsNeverIdle == Spec => []NoIdleSlot
<1>1. Inv => NoIdleSlot
  BY DEF Inv
<1>2. QED
  BY <1>1, InvInit, InvStep, PTL DEF Spec

----------------------------------------------------------------------------
(* The old output.                                                         *)

\* What a step for c does to the phases of the others.
Others(c) == \A d \in Crates : d # c =>
                 phase'[d] = phase[d] \/ phase'[d] \in {"scheduled", "queued", "skipped"}

LEMMA LeaveOthers ==
    ASSUME Inv, NEW c \in Crates, NEW outcome, NEW cur, NEW tks,
           phase[c] # "queued", Leave(c, outcome, cur, tks)
    PROVE  phase'[c] = outcome /\ Others(c)
<1>1. phase \in [Crates -> Phases]
  BY DEF Inv, TypeOK
<1>2. CASE queue # <<>> /\ cur <= Capacity
  <2>0. PICK h : h = Head(queue)
    OBVIOUS
  <2>1. h \in Crates /\ h \in Range(queue)
    BY <1>2, <2>0, Shifted DEF Inv, TypeOK, QueuesMatchPhases
  <2>2. h # c
    BY <2>1 DEF Inv, QueuesMatchPhases
  <2>3. phase' = [phase EXCEPT ![c] = outcome, ![h] = "scheduled"]
    BY <1>2, <2>0 DEF Leave
  <2>4. QED
    BY <1>1, <2>1, <2>2, <2>3 DEF Others
<1>3. CASE ~(queue # <<>> /\ cur <= Capacity)
  <2>1. phase' = [phase EXCEPT ![c] = outcome]
    BY <1>3 DEF Leave
  <2>2. QED
    BY <1>1, <2>1 DEF Others
<1>4. QED
  BY <1>2, <1>3

LEMMA TaskOutput ==
    ASSUME Inv, NoStaleOutput, NEW c \in Crates, NEW cur, NEW tks, Task(c, cur, tks),
           phase[c] # "queued"
    PROVE  NoStaleOutput'
<1>1. /\ attempt \in [Crates -> 0..MaxRmRetries] /\ phase \in [Crates -> Phases]
      /\ output \in [Crates -> {"old", "none", "fresh"}]
  BY DEF Inv, TypeOK
<1>2. CASE DeletedAndCompiles(c, cur, tks)
  <2>1. /\ output'[c] = "none" /\ \A d \in Crates : d # c => output'[d] = output[d]
        /\ attempt' = attempt
    BY <1>1, <1>2 DEF DeletedAndCompiles
  <2>2. Others(c)
    BY <1>1, <1>2, LeaveOthers DEF DeletedAndCompiles, Hold, Others
  <2>3. QED
    BY <2>1, <2>2 DEF NoStaleOutput, Others
<1>3. CASE DeleteFails(c, cur, tks)
  <2>1. /\ attempt'[c] = attempt[c] + 1 /\ output' = output
        /\ \A d \in Crates : d # c => attempt'[d] = attempt[d]
    BY <1>1, <1>3 DEF DeleteFails
  <2>2. /\ phase'[c] \in {"error", "backoff"} /\ Others(c)
        /\ phase'[c] = "error" => attempt[c] = MaxRmRetries - 1
    BY <1>1, <1>3, LeaveOthers DEF DeleteFails, Hold, Others
  <2>3. phase'[c] = "error" => attempt'[c] = MaxRmRetries
    BY <2>1, <2>2, BuildAssumption
  <2>4. QED
    BY <2>1, <2>2, <2>3 DEF NoStaleOutput, Others
<1>4. QED
  BY <1>2, <1>3 DEF Task

LEMMA OutputStep == Inv /\ NoStaleOutput /\ [Next]_vars => NoStaleOutput'
<1> SUFFICES ASSUME Inv, NoStaleOutput, [Next]_vars PROVE NoStaleOutput'
  OBVIOUS
<1>0. phase \in [Crates -> Phases]
  BY DEF Inv, TypeOK
<1>1. CASE Skip \/ TakeAndWait
  <2>0. PICK c : c = Head(todo)
    OBVIOUS
  <2>1. c \in Crates
    BY <1>1, <2>0, Shifted DEF Skip, TakeAndWait, Inv, TypeOK, QueuesMatchPhases
  <2>2. /\ attempt' = attempt /\ output' = output
        /\ phase' = [phase EXCEPT ![c] = "skipped"] \/ phase' = [phase EXCEPT ![c] = "queued"]
    BY <1>1, <2>0 DEF Skip, TakeAndWait
  <2>3. QED
    BY <1>0, <2>1, <2>2 DEF NoStaleOutput
<1>2. CASE TakeAndRun
  <2>0. PICK c : c = Head(todo)
    OBVIOUS
  <2>1. c \in Crates /\ phase[c] = "new"
    BY <1>2, <2>0, Shifted DEF TakeAndRun, Inv, TypeOK, QueuesMatchPhases
  <2>2. Task(c, current + 1, ticks)
    BY <1>2, <2>0 DEF TakeAndRun
  <2>3. QED
    BY <2>1, <2>2, TaskOutput
<1>3. CASE Tick
  <2>0. PICK c : c = Head(ticks)
    OBVIOUS
  <2>1. c \in Crates /\ phase[c] = "scheduled"
    BY <1>3, <2>0, Shifted DEF Tick, Inv, TypeOK, QueuesMatchPhases
  <2>2. Task(c, current, Tail(ticks))
    BY <1>3, <2>0 DEF Tick
  <2>3. QED
    BY <2>1, <2>2, TaskOutput
<1>4. ASSUME NEW c \in Crates, RetryDelete(c)
      PROVE  NoStaleOutput'
  BY <1>4, TaskOutput DEF RetryDelete
<1>5. ASSUME NEW c \in Crates, CompilerExits(c)
      PROVE  NoStaleOutput'
  <2>1. /\ phase[c] = "compiling" /\ attempt' = attempt
        /\ \/ output' = [output EXCEPT ![c] = "fresh"] /\ Leave(c, "ok", current, ticks)
           \/ output' = output /\ Leave(c, "error", current, ticks)
    BY <1>5 DEF CompilerExits
  <2>2. /\ output'[c] # "old" /\ phase'[c] \in {"ok", "error"} /\ Others(c)
        /\ \A d \in Crates : d # c => output'[d] = output[d]
    BY <2>1, LeaveOthers DEF NoStaleOutput, Inv, TypeOK
  <2>3. QED
    BY <2>1, <2>2 DEF NoStaleOutput, Others
<1>6. CASE UNCHANGED vars
  BY <1>6 DEF vars, NoStaleOutput
<1>7. QED
  BY <1>1, <1>2, <1>3, <1>4, <1>5, <1>6 DEF Next, Exited

\* The compiler never runs over old output, and old output is left behind
\* only when every attempt to delete it has failed.
THEOREM OutputNeverStale == Spec => []NoStaleOutput
<1>1. Init => NoStaleOutput
  BY DEF Init, NoStaleOutput
<1>2. QED
  BY <1>1, InvInit, InvStep, OutputStep, PTL DEF Spec

----------------------------------------------------------------------------
(* The pool of workers.                                                    *)

Ordered(s) == \A i, j \in DOMAIN s : i < j => WP!Before(s[i], s[j])

Precede(from, to) == \A c, d \in Crates : phase[c] = from /\ phase[d] = to => WP!Before(c, d)

\* The builds that wait do so in the order of the script.
WaitsInOrder ==
    /\ Ordered(todo) /\ Ordered(queue) /\ Ordered(ticks)
    /\ Precede("scheduled", "queued") /\ Precede("scheduled", "new") /\ Precede("queued", "new")
    /\ todo # <<>> => ticks = <<>>

LEMMA OrderedTail ==
    ASSUME NEW s \in Seq(Crates), s # <<>>, Ordered(s)
    PROVE  Ordered(Tail(s)) /\ \A c \in Range(Tail(s)) : WP!Before(Head(s), c)
<1>1. /\ Len(s) \in Nat /\ Len(s) # 0 /\ DOMAIN s = 1..Len(s) /\ Head(s) = s[1]
  OBVIOUS
<1>2. /\ DOMAIN Tail(s) = 1..(Len(s) - 1)
      /\ \A i \in 1..(Len(s) - 1) : Tail(s)[i] = s[i + 1]
  <2>1. /\ Tail(s) \in Seq(Crates)
        /\ Len(Tail(s)) = Len(s) - 1
        /\ \A i \in 1..Len(Tail(s)) : Tail(s)[i] = s[i + 1]
    BY HeadTailProperties
  <2>2. QED
    BY <2>1
<1>3. ASSUME NEW i \in 1..(Len(s) - 1)
      PROVE  /\ i + 1 \in 1..Len(s) /\ 1 < i + 1 /\ 1 \in 1..Len(s)
             /\ \A j \in 1..(Len(s) - 1) : i < j => i + 1 < j + 1
  BY <1>1
<1>4. Ordered(Tail(s))
  BY <1>1, <1>2, <1>3 DEF Ordered
<1>5. ASSUME NEW c \in Range(Tail(s))
      PROVE  WP!Before(Head(s), c)
  <2>1. PICK i \in 1..(Len(s) - 1) : c = s[i + 1]
    BY <1>2 DEF Range
  <2>2. QED
    BY <1>1, <1>3, <2>1 DEF Ordered
<1>6. QED
  BY <1>4, <1>5

LEMMA OrderedAppend ==
    ASSUME NEW s \in Seq(Crates), NEW c \in Crates, Ordered(s), \A d \in Range(s) : WP!Before(d, c)
    PROVE  Ordered(Append(s, c))
<1>1. /\ Len(s) \in Nat
      /\ DOMAIN s = 1..Len(s)
      /\ DOMAIN Append(s, c) = 1..(Len(s) + 1)
      /\ \A i \in 1..Len(s) : Append(s, c)[i] = s[i]
      /\ Append(s, c)[Len(s) + 1] = c
  OBVIOUS
<1>2. SUFFICES ASSUME NEW i \in 1..(Len(s) + 1), NEW j \in 1..(Len(s) + 1), i < j
               PROVE  WP!Before(Append(s, c)[i], Append(s, c)[j])
  BY <1>1 DEF Ordered
<1>3. i \in 1..Len(s) /\ (j \in 1..Len(s) \/ j = Len(s) + 1)
  BY <1>1, <1>2
<1>4. s[i] \in Range(s)
  BY <1>1, <1>3 DEF Range
<1>5. QED
  BY <1>1, <1>2, <1>3, <1>4 DEF Ordered

\* The slot of c goes on, or to nobody: what waits stays in order.
LEMMA LeaveOrder ==
    ASSUME Inv, WaitsInOrder, NEW c \in Crates, NEW outcome \in {"ok", "error"}, NEW cur,
           NEW tks \in Seq(Crates), phase[c] # "queued", Leave(c, outcome, cur, tks),
           Ordered(tks), Range(tks) \subseteq {d \in Crates : phase[d] = "scheduled"},
           Ordered(todo'), todo' # <<>> => queue = <<>> /\ tks = <<>>
    PROVE  WaitsInOrder'
<1>1. phase \in [Crates -> Phases] /\ queue \in Seq(Crates)
  BY DEF Inv, TypeOK
<1>2. CASE queue # <<>> /\ cur <= Capacity
  <2>0. PICK h : h = Head(queue)
    OBVIOUS
  <2>1. /\ queue' = Tail(queue) /\ ticks' = Append(tks, h)
        /\ phase' = [phase EXCEPT ![c] = outcome, ![h] = "scheduled"]
    BY <1>2, <2>0 DEF Leave
  <2>2. /\ h \in Crates /\ h \in Range(queue) /\ Range(Tail(queue)) = Range(queue) \ {h}
        /\ Range(queue) = {d \in Crates : phase[d] = "queued"}
    BY <1>1, <1>2, <2>0, Shifted DEF Inv, QueuesMatchPhases
  <2>3. phase[h] = "queued" /\ h # c
    BY <2>2
  <2>4. /\ phase'[c] = outcome /\ phase'[h] = "scheduled"
        /\ \A d \in Crates : d # c /\ d # h => phase'[d] = phase[d]
    BY <1>1, <2>1, <2>2, <2>3
  <2>5. Ordered(queue') /\ \A d \in Crates : phase[d] = "queued" /\ d # h => WP!Before(h, d)
    BY <1>1, <1>2, <2>0, <2>1, <2>2, OrderedTail DEF WaitsInOrder
  <2>6. Ordered(ticks')
    BY <2>1, <2>2, <2>3, OrderedAppend DEF WaitsInOrder, Precede
  <2>7. Precede("scheduled", "queued")' /\ Precede("scheduled", "new")' /\ Precede("queued", "new")'
    BY <2>2, <2>3, <2>4, <2>5 DEF WaitsInOrder, Precede
  <2>8. todo' = <<>>
    BY <1>2
  <2>9. QED
    BY <2>5, <2>6, <2>7, <2>8 DEF WaitsInOrder
<1>3. CASE ~(queue # <<>> /\ cur <= Capacity)
  <2>1. queue' = queue /\ ticks' = tks /\ phase' = [phase EXCEPT ![c] = outcome]
    BY <1>3 DEF Leave
  <2>2. phase'[c] = outcome /\ \A d \in Crates : d # c => phase'[d] = phase[d]
    BY <1>1, <2>1
  <2>3. QED
    BY <2>1, <2>2 DEF WaitsInOrder, Precede
<1>4. QED
  BY <1>2, <1>3

LEMMA TaskOrder ==
    ASSUME Inv, WaitsInOrder, NEW c \in Crates, NEW cur,
           NEW tks \in Seq(Crates), phase[c] # "queued", Task(c, cur, tks),
           Ordered(tks), Range(tks) \subseteq {d \in Crates : phase[d] = "scheduled"},
           Ordered(todo'), todo' # <<>> => queue = <<>> /\ tks = <<>>
    PROVE  WaitsInOrder'
<1>1. phase \in [Crates -> Phases]
  BY DEF Inv, TypeOK
<1>2. CASE \E ph \in {"backoff", "compiling"} : Hold(c, ph, cur, tks)
  <2>1. PICK ph \in {"backoff", "compiling"} : Hold(c, ph, cur, tks)
    BY <1>2
  <2>2. /\ queue' = queue /\ ticks' = tks
        /\ phase'[c] = ph /\ \A d \in Crates : d # c => phase'[d] = phase[d]
    BY <1>1, <2>1 DEF Hold
  <2>3. QED
    BY <2>2 DEF WaitsInOrder, Precede
<1>3. CASE Leave(c, "error", cur, tks)
  BY <1>3, LeaveOrder
<1>4. QED
  BY <1>2, <1>3 DEF Task, DeletedAndCompiles, DeleteFails

LEMMA OrderStep == Inv /\ WaitsInOrder /\ [Next]_vars => WaitsInOrder'
<1> SUFFICES ASSUME Inv, WaitsInOrder, [Next]_vars PROVE WaitsInOrder'
  OBVIOUS
<1>0. /\ phase \in [Crates -> Phases]
      /\ todo \in Seq(Crates) /\ queue \in Seq(Crates) /\ ticks \in Seq(Crates)
      /\ Range(ticks) = {d \in Crates : phase[d] = "scheduled"}
      /\ Range(queue) = {d \in Crates : phase[d] = "queued"}
      /\ Range(todo)  = {d \in Crates : phase[d] = "new"}
  BY DEF Inv, TypeOK, QueuesMatchPhases
<1>1. CASE Skip
  <2>0. PICK c : c = Head(todo)
    OBVIOUS
  <2>1. c \in Crates /\ phase[c] = "new"
    BY <1>0, <1>1, <2>0, Shifted DEF Skip, Inv, QueuesMatchPhases
  <2>2. /\ todo' = Tail(todo) /\ phase' = [phase EXCEPT ![c] = "skipped"]
        /\ queue' = queue /\ ticks' = ticks
    BY <1>1, <2>0 DEF Skip
  <2>3. Ordered(todo')
    BY <1>0, <1>1, <2>2, OrderedTail DEF Skip, WaitsInOrder
  <2>4. phase'[c] = "skipped" /\ \A d \in Crates : d # c => phase'[d] = phase[d]
    BY <1>0, <2>1, <2>2
  <2>5. QED
    BY <1>1, <2>2, <2>3, <2>4 DEF WaitsInOrder, Precede, Skip
<1>2. CASE TakeAndRun
  <2>0. PICK c : c = Head(todo)
    OBVIOUS
  <2>1. c \in Crates /\ phase[c] = "new"
    BY <1>0, <1>2, <2>0, Shifted DEF TakeAndRun, Inv, QueuesMatchPhases
  <2>2. Task(c, current + 1, ticks) /\ todo' = Tail(todo)
    BY <1>2, <2>0 DEF TakeAndRun
  <2>3. Ordered(todo')
    BY <1>0, <1>2, <2>2, OrderedTail DEF TakeAndRun, WaitsInOrder
  <2>4. queue = <<>> /\ ticks = <<>>
    BY <1>2, BuildAssumption DEF TakeAndRun, Inv, NoIdleSlot, TypeOK, WaitsInOrder
  <2>5. QED
    BY <1>0, <2>1, <2>2, <2>3, <2>4, TaskOrder DEF WaitsInOrder
<1>3. CASE TakeAndWait
  <2>0. PICK c : c = Head(todo)
    OBVIOUS
  <2>1. /\ c \in Crates /\ phase[c] = "new" /\ Range(Tail(todo)) = Range(todo) \ {c}
    BY <1>0, <1>3, <2>0, Shifted DEF TakeAndWait, Inv, QueuesMatchPhases
  <2>2. /\ todo' = Tail(todo) /\ queue' = Append(queue, c)
        /\ phase' = [phase EXCEPT ![c] = "queued"] /\ ticks' = ticks
    BY <1>3, <2>0 DEF TakeAndWait
  <2>3. Ordered(todo') /\ \A d \in Crates : phase[d] = "new" /\ d # c => WP!Before(c, d)
    BY <1>0, <1>3, <2>0, <2>1, <2>2, OrderedTail DEF TakeAndWait, WaitsInOrder
  <2>4. Ordered(queue')
    BY <1>0, <2>1, <2>2, OrderedAppend DEF WaitsInOrder, Precede
  <2>5. phase'[c] = "queued" /\ \A d \in Crates : d # c => phase'[d] = phase[d]
    BY <1>0, <2>1, <2>2
  <2>6. Precede("scheduled", "queued")' /\ Precede("scheduled", "new")' /\ Precede("queued", "new")'
    BY <2>1, <2>3, <2>5 DEF WaitsInOrder, Precede
  <2>7. QED
    BY <1>3, <2>2, <2>3, <2>4, <2>6 DEF WaitsInOrder, TakeAndWait
<1>4. CASE Tick
  <2>0. PICK c : c = Head(ticks)
    OBVIOUS
  <2>1. /\ c \in Crates /\ phase[c] = "scheduled" /\ Tail(ticks) \in Seq(Crates)
        /\ Range(Tail(ticks)) \subseteq {d \in Crates : phase[d] = "scheduled"}
    BY <1>0, <1>4, <2>0, Shifted DEF Tick, Inv, QueuesMatchPhases
  <2>2. Task(c, current, Tail(ticks)) /\ todo' = todo /\ todo = <<>>
    BY <1>4, <2>0 DEF Tick
  <2>3. Ordered(Tail(ticks))
    BY <1>0, <1>4, OrderedTail DEF Tick, WaitsInOrder
  <2>4. QED
    BY <2>1, <2>2, <2>3, TaskOrder DEF WaitsInOrder
<1>5. ASSUME NEW c \in Crates, RetryDelete(c) \/ CompilerExits(c)
      PROVE  WaitsInOrder'
  <2>1. todo = <<>> /\ todo' = todo /\ phase[c] \in {"backoff", "compiling"}
    BY <1>5 DEF RetryDelete, CompilerExits, Idle
  <2>2. Task(c, current, ticks) \/ Leave(c, "ok", current, ticks) \/ Leave(c, "error", current, ticks)
    BY <1>5 DEF RetryDelete, CompilerExits
  <2>3. QED
    BY <1>0, <2>1, <2>2, TaskOrder, LeaveOrder DEF WaitsInOrder
<1>6. CASE UNCHANGED vars
  BY <1>6 DEF vars, WaitsInOrder, Precede, Ordered
<1>7. QED
  BY <1>1, <1>2, <1>3, <1>4, <1>5, <1>6 DEF Next, Exited

LEMMA OrderInit == Init => WaitsInOrder
<1> SUFFICES ASSUME Init PROVE WaitsInOrder
  OBVIOUS
<1>1. Ordered(Script)
  BY DEF Ordered, WP!Before
<1>2. Ordered(<<>>)
  BY DEF Ordered
<1>3. QED
  BY <1>1, <1>2 DEF Init, WaitsInOrder, Precede

\* What a task does to the pool.
LEMMA LeaveMaps ==
    ASSUME Inv, NEW c \in Crates, NEW outcome \in {"ok", "error"}, NEW cur, NEW tks,
           phase[c] # "queued", selected' = selected, Leave(c, outcome, cur, tks)
    PROVE  Waiting' = Waiting \ {c} /\ Begun' = Begun \ {c} /\ Gone' = Gone \cup {c}
<1>1. phase \in [Crates -> Phases]
  BY DEF Inv, TypeOK
<1>2. CASE queue # <<>> /\ cur <= Capacity
  <2>0. PICK h : h = Head(queue)
    OBVIOUS
  <2>1. h \in Crates /\ phase[h] = "queued" /\ h # c
    BY <1>2, <2>0, Shifted DEF Inv, TypeOK, QueuesMatchPhases
  <2>2. phase' = [phase EXCEPT ![c] = outcome, ![h] = "scheduled"]
    BY <1>2, <2>0 DEF Leave
  <2>3. /\ phase'[c] = outcome /\ phase'[h] = "scheduled"
        /\ \A d \in Crates : d # c /\ d # h => phase'[d] = phase[d]
    BY <1>1, <2>1, <2>2
  <2>4. QED
    BY <2>1, <2>3 DEF Waiting, Begun, Gone, Ended
<1>3. CASE ~(queue # <<>> /\ cur <= Capacity)
  <2>1. phase' = [phase EXCEPT ![c] = outcome]
    BY <1>3 DEF Leave
  <2>2. phase'[c] = outcome /\ \A d \in Crates : d # c => phase'[d] = phase[d]
    BY <1>1, <2>1
  <2>3. QED
    BY <2>2 DEF Waiting, Begun, Gone, Ended
<1>4. QED
  BY <1>2, <1>3

LEMMA TaskMaps ==
    ASSUME Inv, NEW c \in Crates, NEW cur, NEW tks, phase[c] \in {"new", "scheduled", "backoff"},
           selected' = selected, Task(c, cur, tks)
    PROVE  /\ Waiting' = Waiting \ {c}
           /\ \/ Begun' = Begun \cup {c} /\ Gone' = Gone
              \/ Begun' = Begun \ {c} /\ Gone' = Gone \cup {c}
<1>1. CASE \E ph \in {"backoff", "compiling"} : Hold(c, ph, cur, tks)
  <2>1. PICK ph \in {"backoff", "compiling"} : Hold(c, ph, cur, tks)
    BY <1>1
  <2>2. phase'[c] = ph /\ \A d \in Crates : d # c => phase'[d] = phase[d]
    BY <2>1 DEF Hold, Inv, TypeOK
  <2>3. QED
    BY <2>2 DEF Waiting, Begun, Gone, Ended
<1>2. CASE Leave(c, "error", cur, tks)
  BY <1>2, LeaveMaps
<1>3. QED
  BY <1>1, <1>2 DEF Task, DeletedAndCompiles, DeleteFails

\* The first build that waits runs.
LEMMA FirstRuns ==
    ASSUME Inv, NEW c \in Waiting, NEW cur, NEW tks, phase[c] \in {"new", "scheduled"},
           selected' = selected, Task(c, cur, tks),
           Cardinality(Begun) < Capacity, \A d \in Waiting \ {c} : WP!Before(c, d)
    PROVE  WP!PoolNext
<1>1. c \in Crates /\ c \notin Begun
  BY DEF Waiting, Begun
<1>2. /\ Waiting' = Waiting \ {c}
      /\ \/ Begun' = Begun \cup {c} /\ Gone' = Gone
         \/ Begun' = Begun \ {c} /\ Gone' = Gone \cup {c}
  BY <1>1, TaskMaps
<1>3. Begun \ {c} = Begun
  BY <1>1
<1>4. WP!MayStart(c)
  BY Zenon DEF WP!MayStart, Cardinality, WP!Cardinality
<1>5. WP!Start(c) \/ WP!StartAndEnd(c)
  BY <1>2, <1>3, <1>4 DEF WP!Start, WP!StartAndEnd
<1>6. QED
  BY <1>1, <1>5 DEF WP!PoolNext

LEMMA SetsFinite == IsFiniteSet(Holding) /\ IsFiniteSet(Begun) /\ Begun \subseteq Holding
<1>1. Holding \in SUBSET Crates /\ Begun \in SUBSET Crates
  BY DEF Holding, Begun
<1>2. QED
  BY <1>1, CratesFinite, FS_Subset DEF Holding, Begun

LEMMA PoolStep == Inv /\ WaitsInOrder /\ [Next]_vars => [WP!PoolNext]_(WP!poolVars)
<1> SUFFICES ASSUME Inv, WaitsInOrder, [Next]_vars PROVE WP!PoolNext \/ UNCHANGED WP!poolVars
  OBVIOUS
<1>0. /\ phase \in [Crates -> Phases]
      /\ todo \in Seq(Crates) /\ queue \in Seq(Crates) /\ ticks \in Seq(Crates)
      /\ Range(ticks) = {d \in Crates : phase[d] = "scheduled"}
      /\ Range(queue) = {d \in Crates : phase[d] = "queued"}
      /\ Range(todo)  = {d \in Crates : phase[d] = "new"}
      /\ current = Cardinality(Holding) /\ current <= Capacity /\ current \in Nat /\ Capacity \in Nat
  BY BuildAssumption DEF Inv, TypeOK, QueuesMatchPhases, SlotsAccounted
<1>a. UNCHANGED <<Waiting, Begun, Gone>> => UNCHANGED WP!poolVars
  BY DEF WP!poolVars
<1>1. CASE Skip
  <2>0. PICK c : c = Head(todo)
    OBVIOUS
  <2>1. c \in Crates /\ phase[c] = "new" /\ c \notin selected /\ selected' = selected
    BY <1>0, <1>1, <2>0, Shifted DEF Skip, Inv, QueuesMatchPhases
  <2>2. phase' = [phase EXCEPT ![c] = "skipped"]
    BY <1>1, <2>0 DEF Skip
  <2>3. phase'[c] = "skipped" /\ \A d \in Crates : d # c => phase'[d] = phase[d]
    BY <1>0, <2>1, <2>2
  <2>4. QED
    BY <1>a, <2>1, <2>3 DEF Waiting, Begun, Gone, Ended
<1>2. CASE TakeAndRun
  <2>0. PICK c : c = Head(todo)
    OBVIOUS
  <2>1. /\ c \in Crates /\ phase[c] = "new" /\ c \in selected
        /\ Range(Tail(todo)) = {d \in Crates : phase[d] = "new"} \ {c}
    BY <1>0, <1>2, <2>0, Shifted DEF TakeAndRun, Inv, QueuesMatchPhases
  <2>2. Task(c, current + 1, ticks) /\ selected' = selected /\ current < Capacity
    BY <1>2, <2>0 DEF TakeAndRun
  <2>3. queue = <<>> /\ ticks = <<>>
    BY <1>0, <1>2 DEF TakeAndRun, Inv, NoIdleSlot, WaitsInOrder
  <2>4. Range(queue) = {} /\ Range(ticks) = {}
    BY <2>3 DEF Range
  <2>5. \A d \in Waiting \ {c} : WP!Before(c, d)
    <3>1. \A d \in Waiting \ {c} : d \in Range(Tail(todo))
      BY <1>0, <2>1, <2>4 DEF Waiting
    <3>2. QED
      BY <1>0, <1>2, <2>0, <3>1, OrderedTail DEF TakeAndRun, WaitsInOrder
  <2>6. Cardinality(Begun) < Capacity
    <3>1. Cardinality(Begun) <= Cardinality(Holding) /\ Cardinality(Begun) \in Nat
      BY SetsFinite, FS_Subset, FS_CardinalityType
    <3>2. QED
      BY <1>0, <2>2, <3>1
  <2>7. c \in Waiting
    BY <2>1 DEF Waiting
  <2>8. QED
    BY <2>1, <2>2, <2>5, <2>6, <2>7, FirstRuns
<1>3. CASE TakeAndWait
  <2>0. PICK c : c = Head(todo)
    OBVIOUS
  <2>1. c \in Crates /\ phase[c] = "new" /\ c \in selected /\ selected' = selected
    BY <1>0, <1>3, <2>0, Shifted DEF TakeAndWait, Inv, QueuesMatchPhases
  <2>2. phase' = [phase EXCEPT ![c] = "queued"]
    BY <1>3, <2>0 DEF TakeAndWait
  <2>3. phase'[c] = "queued" /\ \A d \in Crates : d # c => phase'[d] = phase[d]
    BY <1>0, <2>1, <2>2
  <2>4. QED
    BY <1>a, <2>1, <2>3 DEF Waiting, Begun, Gone, Ended
<1>4. CASE Tick
  <2>0. PICK c : c = Head(ticks)
    OBVIOUS
  <2>1. /\ c \in Crates /\ phase[c] = "scheduled"
        /\ Range(Tail(ticks)) = {d \in Crates : phase[d] = "scheduled"} \ {c}
    BY <1>0, <1>4, <2>0, Shifted DEF Tick, Inv, QueuesMatchPhases
  <2>2. Task(c, current, Tail(ticks)) /\ selected' = selected
    BY <1>4, <2>0 DEF Tick
  <2>3. \A d \in Crates : phase[d] = "scheduled" /\ d # c => WP!Before(c, d)
    BY <1>0, <1>4, <2>0, <2>1, OrderedTail DEF Tick, WaitsInOrder
  <2>4. \A d \in Waiting \ {c} : WP!Before(c, d)
    BY <2>1, <2>3 DEF Waiting, WaitsInOrder, Precede
  <2>5. Cardinality(Begun) < Capacity
    <3>1. c \in Holding /\ Begun \subseteq Holding \ {c}
      BY <2>1 DEF Holding, Begun
    <3>2. IsFiniteSet(Holding \ {c}) /\ Cardinality(Holding \ {c}) = current - 1
      BY <1>0, <3>1, SetsFinite, FS_RemoveElement
    <3>3. Cardinality(Begun) <= Cardinality(Holding \ {c}) /\ Cardinality(Begun) \in Nat
      BY <3>1, <3>2, SetsFinite, FS_Subset, FS_CardinalityType
    <3>4. QED
      BY <1>0, <3>2, <3>3
  <2>6. c \in Waiting
    BY <2>1 DEF Waiting
  <2>7. QED
    BY <2>1, <2>2, <2>4, <2>5, <2>6, FirstRuns
<1>5. ASSUME NEW c \in Crates, RetryDelete(c)
      PROVE  WP!PoolNext \/ UNCHANGED WP!poolVars
  <2>1. phase[c] = "backoff" /\ Task(c, current, ticks) /\ selected' = selected
    BY <1>5 DEF RetryDelete
  <2>2. /\ Waiting' = Waiting \ {c}
        /\ \/ Begun' = Begun \cup {c} /\ Gone' = Gone
           \/ Begun' = Begun \ {c} /\ Gone' = Gone \cup {c}
    BY <2>1, TaskMaps
  <2>3. c \notin Waiting /\ c \in Begun
    BY <2>1 DEF Waiting, Begun
  <2>4. Waiting' = Waiting /\ Begun \cup {c} = Begun
    BY <2>2, <2>3
  <2>5. CASE Begun' = Begun \cup {c} /\ Gone' = Gone
    BY <1>a, <2>4, <2>5
  <2>6. CASE Begun' = Begun \ {c} /\ Gone' = Gone \cup {c}
    <3>1. WP!End(c)
      BY <2>3, <2>4, <2>6 DEF WP!End
    <3>2. QED
      BY <3>1 DEF WP!PoolNext
  <2>7. QED
    BY <2>2, <2>5, <2>6
<1>6. ASSUME NEW c \in Crates, CompilerExits(c)
      PROVE  WP!PoolNext
  <2>1. /\ phase[c] = "compiling" /\ selected' = selected
        /\ Leave(c, "ok", current, ticks) \/ Leave(c, "error", current, ticks)
    BY <1>6 DEF CompilerExits
  <2>2. Waiting' = Waiting \ {c} /\ Begun' = Begun \ {c} /\ Gone' = Gone \cup {c}
    BY <2>1, LeaveMaps
  <2>3. c \notin Waiting /\ c \in Begun
    BY <2>1 DEF Waiting, Begun
  <2>4. Waiting' = Waiting
    BY <2>2, <2>3
  <2>5. WP!End(c)
    BY <2>2, <2>3, <2>4 DEF WP!End
  <2>6. QED
    BY <2>5 DEF WP!PoolNext
<1>7. CASE UNCHANGED vars
  BY <1>7, <1>a DEF vars, Waiting, Begun, Gone, Ended
<1>8. QED
  BY <1>1, <1>2, <1>3, <1>4, <1>5, <1>6, <1>7 DEF Next, Exited

LEMMA PoolStart == Init => WP!PoolInit
<1> SUFFICES ASSUME Init PROVE WP!PoolInit
  OBVIOUS
<1>1. \A c \in Crates : phase[c] = "new"
  BY DEF Init
<1>2. Begun = {} /\ Gone = {} /\ Waiting \subseteq Crates
  BY <1>1 DEF Begun, Gone, Waiting, Ended
<1>3. QED
  BY <1>2 DEF WP!PoolInit

\* The script is a pool of workers: the builds start in the order of the
\* script, never more of them than there are slots, and each once.
THEOREM ImplementsWorkPool == Spec => PoolRefined
  BY InvInit, InvStep, OrderInit, OrderStep, PoolStart, PoolStep, PTL DEF Spec, PoolRefined, WP!Pool

----------------------------------------------------------------------------
(* The inductive invariant. *)

Written == 1..MaxRuns

EmitterTypeOK ==
          /\ run \in 0..MaxRuns /\ (Running => run > 0)
          /\ crate \in Crate /\ overwrite \in BOOLEAN
          /\ torn \in SUBSET Dirs /\ toScan \in SUBSET Dirs /\ toWrite \in SUBSET (Dirs \X Files)
          /\ pc \in {"ok", "failed", "lib", "scan", "write"}
          /\ disk \in [Dirs -> [Files -> 0..Hand]]
          /\ lib \in SUBSET Dirs

\* The files still to write are files of the crate; the others are written.
Progresses ==
    /\ toWrite \subseteq Content(crate)
    /\ pc # "write" => toWrite = {}
    /\ pc = "write" \/ Succeeded => \A w \in Content(crate) \ toWrite : disk[w[1]][w[2]] = run

\* What comes after a file that is still to write is still to write.
WrittenInOrder ==
    pc = "write" => \A w \in toWrite, v \in Content(crate) : Before(w, v) => v \in toWrite

LibFits == pc \in {"scan", "write"} \/ Succeeded => (overwrite => lib = crate.mods)

\* A directory with generated files is recognised by the next run.
Told(d) == (\E f \in Files : disk[d][f] \in Written) => ShouldRmDir(d)

Untorn(d) ==
    /\ pc # "write" => Told(d)
    /\ pc = "scan" /\ d \notin toScan => \A f \in Files : disk[d][f] \notin Written
    /\ pc = "write" => \A f \in Files : disk[d][f] \in Written => <<d, f>> \in Content(crate) \ toWrite
    /\ Succeeded => \A f \in Files : disk[d][f] \in Written => <<d, f>> \in Content(crate)

UntornRemoved == \A d \in Dirs \ torn : Untorn(d)

EmitterInv == EmitterTypeOK /\ HandwrittenKept /\ Progresses /\ WrittenInOrder /\ LibFits /\ UntornRemoved

----------------------------------------------------------------------------
\* The handwritten modules that no sub-module is named like.
Beside == HandMods \ SubMods

LEMMA ContentTyped ==
    ASSUME NEW c \in Crate
    PROVE  /\ Content(c) \subseteq Dirs \X Files
           /\ \A w \in Content(c) : w[1] \in Dirs \ Beside /\ w[2] \in Files /\ w = <<w[1], w[2]>>
           /\ c.mods \in SUBSET Dirs
<1>1. c.mods \subseteq {Root} \cup SubMods
  BY DEF Crate
<1>2. c.mods \subseteq Dirs \ Beside
  BY <1>1, EmitterAssumption DEF Dirs, Beside
<1>3. QED
  BY <1>2 DEF Content

\* One file changes.
LEMMA OneFile ==
    ASSUME NEW a \in Dirs, NEW b \in Files, NEW r \in 0..Hand, EmitterTypeOK,
           disk' = [disk EXCEPT ![a][b] = r]
    PROVE  /\ disk' \in [Dirs -> [Files -> 0..Hand]]
           /\ \A d \in Dirs, f \in Files : disk'[d][f] = IF d = a /\ f = b THEN r ELSE disk[d][f]
  BY DEF EmitterTypeOK

\* One directory changes.
LEMMA OneDir ==
    ASSUME NEW a \in Dirs, NEW fs \in [Files -> 0..Hand], EmitterTypeOK, disk' = [disk EXCEPT ![a] = fs]
    PROVE  /\ disk' \in [Dirs -> [Files -> 0..Hand]]
           /\ \A d \in Dirs : disk'[d] = IF d = a THEN fs ELSE disk[d]
  BY DEF EmitterTypeOK

LEMMA Numbers == Absent \in 0..Hand /\ Absent \notin Written /\ Hand \notin Written /\ Written \subseteq 0..Hand
  BY EmitterAssumption DEF Absent, Hand, Written

\* The directory of such a module is never taken for a generated one.
LEMMA HandNotRemoved ==
    ASSUME HandwrittenKept, NEW d \in Beside
    PROVE  ~ShouldRmDir(d)
<1>1. d # Root
  BY EmitterAssumption DEF Beside
<1>2. disk[d]["mod.rs"] = Hand
  BY DEF HandwrittenKept, Beside
<1>3. QED
  BY <1>1, <1>2, Numbers DEF ShouldRmDir, Written

\* While files are written, a directory is recognised as soon as it has one:
\* a sub-module because its mod.rs is first, src/generated when its is written.
LEMMA MarkWritten ==
    ASSUME EmitterInv, pc = "write", NEW d \in Dirs \ torn,
           d = Root => <<Root, "generated/mod.rs">> \notin toWrite
    PROVE  Told(d)
<1> SUFFICES ASSUME NEW f \in Files, disk[d][f] \in Written
             PROVE  ShouldRmDir(d)
  BY DEF Told
<1>1. <<d, f>> \in Content(crate) \ toWrite
  BY DEF EmitterInv, UntornRemoved, Untorn
<1>2. d \in crate.mods /\ \/ f \in crate.srcs[d]
                          \/ f = "mod.rs" /\ d # Root
                          \/ f = "generated/mod.rs" /\ crate.srcs[d] # {}
  BY <1>1 DEF Content
<1>3. run \in Written
  BY DEF EmitterInv, EmitterTypeOK, Running, Written
<1>4. CASE d = Root
  <2>1. <<d, "generated/mod.rs">> \in Content(crate)
    BY <1>2, <1>4 DEF Content, Files
  <2>2. disk[d]["generated/mod.rs"] = run
    BY <1>4, <2>1 DEF EmitterInv, Progresses
  <2>3. QED
    BY <1>3, <1>4, <2>2 DEF ShouldRmDir, Written
<1>5. CASE d # Root
  <2>1. <<d, "mod.rs">> \in Content(crate)
    BY <1>2, <1>5 DEF Content, Files
  <2>2. <<d, "mod.rs">> \notin toWrite
    <3>1. CASE f = "mod.rs"
      BY <1>1, <3>1
    <3>2. CASE f # "mod.rs"
      <4>1. Rank("mod.rs") = 1 /\ Rank(f) \in {2, 3}
        BY <3>2 DEF Rank
      <4>2. Before(<<d, "mod.rs">>, <<d, f>>)
        BY <4>1 DEF Before
      <4>3. QED
        BY <1>1, <4>2 DEF EmitterInv, WrittenInOrder
    <3>3. QED
      BY <3>1, <3>2
  <2>3. disk[d]["mod.rs"] = run
    BY <2>1, <2>2 DEF EmitterInv, Progresses
  <2>4. QED
    BY <1>3, <1>5, <2>3 DEF ShouldRmDir, Written
<1>6. QED
  BY <1>4, <1>5

----------------------------------------------------------------------------
LEMMA EmitterInvInit == EmitterInit => EmitterInv
<1> SUFFICES ASSUME EmitterInit PROVE EmitterInv
  OBVIOUS
<1>1. EmitterTypeOK
  <2>1. crate \in Crate
    BY DEF EmitterInit, Crate
  <2>2. disk \in [Dirs -> [Files -> 0..Hand]]
    BY Numbers, EmitterAssumption DEF EmitterInit, Hand
  <2>3. run \in 0..MaxRuns /\ pc = "ok"
    BY EmitterAssumption DEF EmitterInit
  <2>4. torn \subseteq Dirs /\ toScan \subseteq Dirs /\ toWrite \subseteq Dirs \X Files /\ lib \subseteq Dirs
    BY DEF EmitterInit
  <2>5. overwrite \in BOOLEAN
    BY Zenon DEF EmitterInit
  <2>6. QED
    BY <2>1, <2>2, <2>3, <2>4, <2>5 DEF EmitterTypeOK, Running
<1>2. HandwrittenKept
  BY DEF EmitterInit, HandwrittenKept, Dirs, Files
<1>3. \A d \in Dirs, f \in Files : disk[d][f] \notin Written
  BY Numbers DEF EmitterInit
<1>4. UntornRemoved
  BY <1>3 DEF EmitterInit, UntornRemoved, Untorn, Told, Succeeded
<1>5. Progresses /\ WrittenInOrder /\ LibFits
  BY DEF EmitterInit, Progresses, WrittenInOrder, LibFits, Succeeded
<1>6. QED
  BY <1>1, <1>2, <1>4, <1>5 DEF EmitterInv

\* While nothing is written, and the files stay as they are.
LEMMA DiskKept ==
    ASSUME EmitterInv, disk' = disk, torn \subseteq torn', pc # "write", pc' # "write", pc' # "scan", ~Succeeded', toWrite' = toWrite
    PROVE  HandwrittenKept' /\ Progresses' /\ WrittenInOrder' /\ LibFits' /\ UntornRemoved'
<1>1. HandwrittenKept'
  BY DEF EmitterInv, HandwrittenKept
<1>2. toWrite' = {}
  BY DEF EmitterInv, Progresses
<1>3. Progresses' /\ WrittenInOrder' /\ LibFits'
  BY <1>2 DEF Progresses, WrittenInOrder, LibFits
<1>4. ASSUME NEW d \in Dirs \ torn'
      PROVE  Untorn(d)'
  <2>1. Told(d)
    BY <1>4 DEF EmitterInv, UntornRemoved, Untorn
  <2>2. QED
    BY <2>1 DEF Untorn, Told, ShouldRmDir
<1>5. QED
  BY <1>1, <1>3, <1>4 DEF UntornRemoved

LEMMA StartRunInv == EmitterInv /\ StartRun => EmitterInv'
<1> SUFFICES ASSUME EmitterInv, StartRun PROVE EmitterInv'
  OBVIOUS
<1>1. EmitterTypeOK'
  BY EmitterAssumption DEF EmitterInv, EmitterTypeOK, StartRun, Running
<1>2. pc # "write" /\ pc' = "lib" /\ ~Succeeded'
  BY DEF StartRun, Running, Succeeded
<1>3. QED
  BY <1>1, <1>2, DiskKept DEF EmitterInv, StartRun

LEMMA AdapterFailsInv == EmitterInv /\ AdapterFails => EmitterInv'
<1> SUFFICES ASSUME EmitterInv, AdapterFails PROVE EmitterInv'
  OBVIOUS
<1>1. EmitterTypeOK'
  BY DEF EmitterInv, EmitterTypeOK, AdapterFails, options, Running
<1>2. QED
  BY <1>1, DiskKept DEF EmitterInv, AdapterFails, options, Succeeded

LEMMA WriteLibRsInv == EmitterInv /\ WriteLibRs => EmitterInv'
<1> SUFFICES ASSUME EmitterInv, WriteLibRs PROVE EmitterInv'
  OBVIOUS
<1> USE DEF WriteLibRs, options
<1>1. EmitterTypeOK'
  BY ContentTyped DEF EmitterInv, EmitterTypeOK, Running
<1>2. HandwrittenKept'
  BY DEF EmitterInv, HandwrittenKept
<1>3. Progresses' /\ WrittenInOrder' /\ LibFits'
  BY DEF EmitterInv, Progresses, WrittenInOrder, LibFits, Succeeded
<1>4. ASSUME NEW d \in Dirs \ torn
      PROVE  Untorn(d)'
  <2>1. Told(d)
    BY <1>4 DEF EmitterInv, UntornRemoved, Untorn
  <2>2. d \notin toScan' => \A f \in Files : disk[d][f] = Absent
    BY <1>4
  <2>3. QED
    BY <2>1, <2>2, Numbers DEF Untorn, Told, ShouldRmDir, Succeeded
<1>5. QED
  BY <1>1, <1>2, <1>3, <1>4 DEF EmitterInv, UntornRemoved

LEMMA KeepDirInv == ASSUME NEW d \in Dirs, EmitterInv, KeepDir(d) PROVE EmitterInv'
<1> USE DEF KeepDir, options
<1>1. EmitterTypeOK'
  BY DEF EmitterInv, EmitterTypeOK, Running
<1>2. HandwrittenKept'
  BY DEF EmitterInv, HandwrittenKept
<1>3. Progresses' /\ WrittenInOrder' /\ LibFits'
  BY DEF EmitterInv, Progresses, WrittenInOrder, LibFits, Succeeded
<1>4. ASSUME NEW e \in Dirs \ torn
      PROVE  Untorn(e)'
  <2>1. Told(e) /\ (e \notin toScan => \A f \in Files : disk[e][f] \notin Written)
    BY <1>4 DEF EmitterInv, UntornRemoved, Untorn
  <2>2. e = d => \A f \in Files : disk[e][f] \notin Written
    BY <2>1 DEF Told
  <2>3. QED
    BY <2>1, <2>2 DEF Untorn, Told, ShouldRmDir, Succeeded
<1>5. QED
  BY <1>1, <1>2, <1>3, <1>4 DEF EmitterInv, UntornRemoved

LEMMA RemoveDirInv == ASSUME NEW d \in Dirs, EmitterInv, RemoveDir(d) PROVE EmitterInv'
<1> USE DEF RemoveDir, options
<1> DEFINE none == [f \in Files |-> Absent]
<1>1. none \in [Files -> 0..Hand]
  BY Numbers
<1>2. /\ disk' \in [Dirs -> [Files -> 0..Hand]]
      /\ \A e \in Dirs : disk'[e] = IF e = d THEN none ELSE disk[e]
  BY <1>1, OneDir DEF EmitterInv
<1>3. EmitterTypeOK'
  BY <1>2 DEF EmitterInv, EmitterTypeOK, Running
<1>4. HandwrittenKept'
  <2>1. d \notin Beside
    BY HandNotRemoved DEF EmitterInv
  <2>2. Beside \subseteq Dirs
    BY DEF Dirs, Beside
  <2>3. QED
    BY <1>2, <2>1, <2>2 DEF EmitterInv, HandwrittenKept, Beside
<1>5. Progresses' /\ WrittenInOrder' /\ LibFits'
  BY DEF EmitterInv, Progresses, WrittenInOrder, LibFits, Succeeded
<1>6. ASSUME NEW e \in Dirs \ torn
      PROVE  Untorn(e)'
  <2>1. CASE e = d
    <3>1. \A f \in Files : disk'[e][f] \notin Written
      BY <1>2, <2>1, Numbers
    <3>2. QED
      BY <3>1 DEF Untorn, Told, Succeeded
  <2>2. CASE e # d
    <3>1. disk'[e] = disk[e]
      BY <1>2, <2>2
    <3>2. Told(e) /\ (e \notin toScan => \A f \in Files : disk[e][f] \notin Written)
      BY <1>6 DEF EmitterInv, UntornRemoved, Untorn
    <3>3. QED
      BY <2>2, <3>1, <3>2 DEF Untorn, Told, ShouldRmDir, Succeeded
  <2>3. QED
    BY <2>1, <2>2
<1>7. QED
  BY <1>3, <1>4, <1>5, <1>6 DEF EmitterInv, UntornRemoved

LEMMA EmitContentInv == EmitterInv /\ EmitContent => EmitterInv'
<1> SUFFICES ASSUME EmitterInv, EmitContent PROVE EmitterInv'
  OBVIOUS
<1> USE DEF EmitContent, options
<1>1. EmitterTypeOK'
  BY ContentTyped DEF EmitterInv, EmitterTypeOK, Running
<1>2. HandwrittenKept'
  BY DEF EmitterInv, HandwrittenKept
<1>3. Progresses' /\ WrittenInOrder' /\ LibFits'
  BY DEF EmitterInv, Progresses, WrittenInOrder, LibFits, Succeeded
<1>4. ASSUME NEW d \in Dirs \ torn
      PROVE  Untorn(d)'
  <2>1. \A f \in Files : disk[d][f] \notin Written
    BY <1>4 DEF EmitterInv, UntornRemoved, Untorn
  <2>2. QED
    BY <2>1 DEF Untorn, Told, Succeeded
<1>5. QED
  BY <1>1, <1>2, <1>3, <1>4 DEF EmitterInv, UntornRemoved

LEMMA WriteFileInv == EmitterInv /\ WriteFile => EmitterInv'
<1> SUFFICES ASSUME EmitterInv, WriteFile PROVE EmitterInv'
  OBVIOUS
<1>0. PICK w \in toWrite :
         /\ \A v \in toWrite : ~Before(v, w)
         /\ disk' = [disk EXCEPT ![w[1]][w[2]] = run]
         /\ toWrite' = toWrite \ {w}
  BY DEF WriteFile
<1>u. pc = "write" /\ UNCHANGED <<run, crate, overwrite, torn, pc, toScan, lib>>
  BY DEF WriteFile, options
<1>1. /\ w[1] \in Dirs \ Beside /\ w[2] \in Files /\ w = <<w[1], w[2]>> /\ w \in Content(crate)
      /\ run \in 0..Hand /\ run \in Written
  BY <1>u, ContentTyped, EmitterAssumption DEF EmitterInv, EmitterTypeOK, Progresses, Hand, Running, Written
<1>2. /\ disk' \in [Dirs -> [Files -> 0..Hand]]
      /\ \A d \in Dirs, f \in Files : disk'[d][f] = IF d = w[1] /\ f = w[2] THEN run ELSE disk[d][f]
  BY <1>0, <1>1, OneFile DEF EmitterInv
<1>3. EmitterTypeOK'
  BY <1>0, <1>u, <1>2 DEF EmitterInv, EmitterTypeOK, Running
<1>4. HandwrittenKept'
  <2>1. \A d \in Beside : d \in Dirs /\ d # w[1] /\ "mod.rs" \in Files
    BY <1>1 DEF Dirs, Files, Beside
  <2>2. QED
    BY <1>2, <2>1 DEF EmitterInv, HandwrittenKept, Beside
<1>5. Progresses'
  <2>1. ASSUME NEW v \in Content(crate) \ toWrite'
        PROVE  disk'[v[1]][v[2]] = run
    <3>1. v[1] \in Dirs /\ v[2] \in Files
      BY ContentTyped DEF EmitterInv, EmitterTypeOK
    <3>2. v = w \/ disk[v[1]][v[2]] = run
      BY <1>0, <1>u, <2>1 DEF EmitterInv, Progresses
    <3>3. QED
      BY <1>2, <3>1, <3>2
  <2>2. QED
    BY <1>0, <1>u, <2>1 DEF EmitterInv, Progresses
<1>6. WrittenInOrder'
  BY <1>0, <1>u DEF EmitterInv, WrittenInOrder, Before
<1>7. LibFits'
  BY <1>u DEF EmitterInv, LibFits, Succeeded
<1>8. ASSUME NEW d \in Dirs \ torn
      PROVE  Untorn(d)'
  <2>1. ASSUME NEW f \in Files, disk'[d][f] \in Written
        PROVE  <<d, f>> \in Content(crate) \ toWrite'
    <3>1. CASE d = w[1] /\ f = w[2]
      BY <1>0, <1>1, <3>1
    <3>2. CASE ~(d = w[1] /\ f = w[2])
      <4>1. disk'[d][f] = disk[d][f]
        BY <1>2, <3>2
      <4>2. <<d, f>> \in Content(crate) \ toWrite
        BY <1>u, <1>8, <2>1, <4>1 DEF EmitterInv, UntornRemoved, Untorn
      <4>3. QED
        BY <1>0, <4>2
    <3>3. QED
      BY <3>1, <3>2
  <2>2. QED
    BY <1>u, <2>1 DEF Untorn, Succeeded
<1>9. UntornRemoved'
  BY <1>u, <1>8 DEF UntornRemoved
<1>10. QED
  BY <1>3, <1>4, <1>5, <1>6, <1>7, <1>9 DEF EmitterInv

LEMMA FinishInv == EmitterInv /\ Finish => EmitterInv'
<1> SUFFICES ASSUME EmitterInv, Finish PROVE EmitterInv'
  OBVIOUS
<1> USE DEF Finish, options
<1>1. EmitterTypeOK'
  BY DEF EmitterInv, EmitterTypeOK, Running
<1>2. HandwrittenKept'
  BY DEF EmitterInv, HandwrittenKept
<1>3. Progresses' /\ WrittenInOrder' /\ LibFits'
  BY DEF EmitterInv, Progresses, WrittenInOrder, LibFits, Succeeded
<1>4. ASSUME NEW d \in Dirs \ torn
      PROVE  Untorn(d)'
  <2>1. Told(d)
    BY <1>4, MarkWritten
  <2>2. \A f \in Files : disk[d][f] \in Written => <<d, f>> \in Content(crate)
    BY <1>4 DEF EmitterInv, UntornRemoved, Untorn
  <2>3. QED
    BY <2>1, <2>2 DEF Untorn, Told, ShouldRmDir
<1>5. QED
  BY <1>1, <1>2, <1>3, <1>4 DEF EmitterInv, UntornRemoved

LEMMA CrashInv == EmitterInv /\ Crash => EmitterInv'
<1> SUFFICES ASSUME EmitterInv, Crash PROVE EmitterInv'
  OBVIOUS
<1> USE DEF Crash, Stopped
<1>1. EmitterTypeOK'
  BY DEF EmitterInv, EmitterTypeOK, Running, Dirs
<1>2. HandwrittenKept'
  BY DEF EmitterInv, HandwrittenKept
<1>3. Progresses' /\ WrittenInOrder' /\ LibFits'
  BY DEF EmitterInv, Progresses, WrittenInOrder, LibFits, Succeeded
<1>4. ASSUME NEW d \in Dirs \ torn'
      PROVE  Untorn(d)'
  <2>1. d \in Dirs \ torn
    BY <1>4
  <2>2. CASE pc = "write"
    <3>1. d = Root => <<Root, "generated/mod.rs">> \notin toWrite
      BY <1>4
    <3>2. Told(d)
      BY <2>1, <2>2, <3>1, MarkWritten
    <3>3. QED
      BY <3>2 DEF Untorn, Told, ShouldRmDir, Succeeded
  <2>3. CASE pc # "write"
    <3>1. Told(d)
      BY <2>1, <2>3 DEF EmitterInv, UntornRemoved, Untorn
    <3>2. QED
      BY <3>1 DEF Untorn, Told, ShouldRmDir, Succeeded
  <2>4. QED
    BY <2>2, <2>3
<1>5. QED
  BY <1>1, <1>2, <1>3, <1>4 DEF EmitterInv, UntornRemoved

LEMMA CrashInRemovalInv == ASSUME NEW d \in Dirs, EmitterInv, CrashInRemoval(d) PROVE EmitterInv'
<1> USE DEF CrashInRemoval, Stopped
<1>0. PICK left \in SUBSET Files :
         disk' = [disk EXCEPT ![d] = [f \in Files |-> IF f \in left THEN @[f] ELSE Absent]]
  OBVIOUS
<1> DEFINE some == [f \in Files |-> IF f \in left THEN disk[d][f] ELSE Absent]
<1>1. some \in [Files -> 0..Hand]
  BY Numbers DEF EmitterInv, EmitterTypeOK
<1>2. /\ disk' \in [Dirs -> [Files -> 0..Hand]]
      /\ \A e \in Dirs : disk'[e] = IF e = d THEN some ELSE disk[e]
  <2>1. disk' = [disk EXCEPT ![d] = some]
    BY <1>0 DEF EmitterInv, EmitterTypeOK
  <2>2. QED
    BY <1>1, <2>1, OneDir DEF EmitterInv
<1>3. EmitterTypeOK'
  BY <1>2 DEF EmitterInv, EmitterTypeOK, Running
<1>4. HandwrittenKept'
  <2>1. d \notin Beside
    BY HandNotRemoved DEF EmitterInv
  <2>2. Beside \subseteq Dirs
    BY DEF Dirs, Beside
  <2>3. QED
    BY <1>2, <2>1, <2>2 DEF EmitterInv, HandwrittenKept, Beside
<1>5. Progresses' /\ WrittenInOrder' /\ LibFits'
  BY DEF EmitterInv, Progresses, WrittenInOrder, LibFits, Succeeded
<1>6. ASSUME NEW e \in Dirs \ torn'
      PROVE  Untorn(e)'
  <2>1. e # d /\ e \in Dirs \ torn
    BY <1>6
  <2>2. disk'[e] = disk[e]
    BY <1>2, <2>1
  <2>3. Told(e)
    BY <2>1 DEF EmitterInv, UntornRemoved, Untorn
  <2>4. QED
    BY <2>2, <2>3 DEF Untorn, Told, ShouldRmDir, Succeeded
<1>7. QED
  BY <1>3, <1>4, <1>5, <1>6 DEF EmitterInv, UntornRemoved

LEMMA UnchangedInv == EmitterInv /\ UNCHANGED emitterVars => EmitterInv'
<1> SUFFICES ASSUME EmitterInv, UNCHANGED emitterVars PROVE EmitterInv'
  OBVIOUS
<1> USE DEF emitterVars, options
<1>1. EmitterTypeOK' /\ HandwrittenKept' /\ Progresses' /\ LibFits'
  BY DEF EmitterInv, EmitterTypeOK, HandwrittenKept, Progresses, LibFits, Running, Succeeded
<1>2. WrittenInOrder'
  BY DEF EmitterInv, WrittenInOrder
<1>3. UntornRemoved'
  BY DEF EmitterInv, UntornRemoved, Untorn, Told, ShouldRmDir, Succeeded
<1>4. QED
  BY <1>1, <1>2, <1>3 DEF EmitterInv

LEMMA EmitterInvStep == EmitterInv /\ [EmitterNext]_emitterVars => EmitterInv'
<1> SUFFICES ASSUME EmitterInv, [EmitterNext]_emitterVars PROVE EmitterInv'
  OBVIOUS
<1>1. CASE StartRun \/ AdapterFails \/ WriteLibRs
  BY <1>1, StartRunInv, AdapterFailsInv, WriteLibRsInv
<1>2. CASE \E d \in Dirs : KeepDir(d) \/ RemoveDir(d) \/ CrashInRemoval(d)
  BY <1>2, KeepDirInv, RemoveDirInv, CrashInRemovalInv
<1>3. CASE EmitContent \/ WriteFile \/ Finish \/ Crash
  BY <1>3, EmitContentInv, WriteFileInv, FinishInv, CrashInv
<1>4. CASE Quiet \/ UNCHANGED emitterVars
  BY <1>4, UnchangedInv DEF Quiet
<1>5. QED
  BY <1>1, <1>2, <1>3, <1>4 DEF EmitterNext

THEOREM EmitterInvariance == EmitterSpec => []EmitterInv
  BY EmitterInvInit, EmitterInvStep, PTL DEF EmitterSpec

\* Every variable keeps its type.
THEOREM EmitterTypeCorrect == EmitterSpec => []EmitterTypeOK
<1>1. EmitterInv => EmitterTypeOK
  BY DEF EmitterInv
<1>2. QED
  BY <1>1, EmitterInvariance, PTL

\* Handwritten modules beside the generated ones survive every run (shouldRmDir reads
\* their mod.rs), but for those in a directory that has the name of a sub-module.
THEOREM HandwrittenSurvives == EmitterSpec => []HandwrittenKept
<1>1. EmitterInv => HandwrittenKept
  BY DEF EmitterInv
<1>2. QED
  BY <1>1, EmitterInvariance, PTL

\* After a run that succeeds every file of the crate comes from this run, and
\* lib.rs declares its modules if it may be overwritten.
THEOREM OutputIsFresh == EmitterSpec => []OutputFresh
<1>1. EmitterInv => OutputFresh
  BY DEF EmitterInv, Progresses, LibFits, OutputFresh, Succeeded
<1>2. QED
  BY <1>1, EmitterInvariance, PTL

\* After a run that succeeds no file of an earlier run is left, but in a
\* directory that a killed run was removing and below src/generated.
THEOREM OutputIsExact == EmitterSpec => []OutputExact
<1>1. EmitterInv => OutputExact
  BY DEF EmitterInv, UntornRemoved, Untorn, OutputExact, Written
<1>2. QED
  BY <1>1, EmitterInvariance, PTL
=============================================================================
