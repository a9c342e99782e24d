------------------------------ MODULE Emitter ------------------------------
(***************************************************************************)
(* $onEmit run after run over the same output directory: src/lib.rs is     *)
(* written unless it exists, the directories of src that an earlier run    *)
(* generated are removed, and then the files of the crate are written one  *)
(* by one.  A run may fail in the adapter, in the code generator or while  *)
(* it removes a directory, or be killed between any two steps; then the    *)
(* next run finds what was left.                                           *)
(*                                                                         *)
(* The directories are src/generated (Root) and one for every sub-module   *)
(* of the crate.  A directory has some sources, the generated/mod.rs that  *)
(* declares them and, for a sub-module, its own mod.rs.  What is in a file *)
(* is abstracted to the run that wrote it.  cargo fmt, which runs last and *)
(* rewrites files in place, is left out.                                   *)
(*                                                                         *)
(* A definition Name_Fault is Name with a plausible mistake in the code;   *)
(* no specification uses it: the properties must fail with it.             *)
(***************************************************************************)
EXTENDS Naturals, Sequences, Functions

CONSTANTS Root,      \* src/generated
          Sorted,    \* the directories of the sub-modules, by name
          HandMods,  \* directories of src that had handwritten modules before the first run
          Sources,   \* the names of generated files other than mod.rs
          MaxRuns    \* the number of runs considered

SubMods == Range(Sorted)

Dirs  == {Root} \cup SubMods \cup HandMods
Files == Sources \cup {"mod.rs", "generated/mod.rs"}

\* The contents of a crate: what to generate for each of its modules.
Crate == [mods : {{Root} \cup s : s \in SUBSET SubMods},
          srcs : [{Root} \cup SubMods -> SUBSET Sources]]

ASSUME EmitterAssumption ==
    /\ MaxRuns \in Nat
    /\ Sorted \in Seq(SubMods) /\ IsInjective(Sorted)
    /\ Root \notin SubMods \cup HandMods
    /\ {"mod.rs", "generated/mod.rs"} \cap Sources = {}

Absent == 0
Hand   == MaxRuns + 1

VARIABLES run,     \* the number of the run
          crate,   \* the contents of the crate in this run
          overwrite, \* the option overwrite-lib-rs
          torn,    \* the directories whose removal or contents a kill cut short
          pc,      \* what the run does next
          toScan,  \* the directories still to look at
          toWrite, \* the files still to write
          disk,    \* which run wrote a file
          lib      \* the modules lib.rs declares

options == <<overwrite, torn>>

emitterVars == <<run, crate, options, pc, toScan, toWrite, disk, lib>>

EmitterInit ==
        /\ run = 0 /\ overwrite = FALSE /\ torn = {} /\ pc = "ok" /\ toScan = {} /\ toWrite = {} /\ lib = {}
        /\ crate = [mods |-> {Root}, srcs |-> [d \in {Root} \cup SubMods |-> {}]]
        /\ disk = [d \in Dirs |-> [f \in Files |->
                     IF d \in HandMods /\ f = "mod.rs" THEN Hand ELSE Absent]]

\* The files that emitContent returns, as directory and name.
Content(c) ==
    {w \in c.mods \X Files :
        \/ w[2] \in c.srcs[w[1]]
        \/ w[2] = "mod.rs" /\ w[1] # Root
        \/ w[2] = "generated/mod.rs" /\ c.srcs[w[1]] # {}}

\* Their order: module by module, the mod.rs of a sub-module before what is
\* inside, generated/mod.rs after its sources.
Place(d) == IF d = Root THEN 0 ELSE CHOOSE i \in DOMAIN Sorted : Sorted[i] = d

Rank_ModLast(f) == IF f \in Sources THEN 1 ELSE 2

Rank(f) == IF f = "mod.rs" THEN 1 ELSE IF f \in Sources THEN 2 ELSE 3

Before(v, w) == \/ Place(v[1]) < Place(w[1])
                \/ v[1] = w[1] /\ Rank(v[2]) < Rank(w[2])

ShouldRmDir_AnyModRs(d) ==
    disk[d][IF d = Root THEN "generated/mod.rs" ELSE "mod.rs"] # Absent

\* shouldRmDir: a directory is taken for generated by its mod.rs.
ShouldRmDir(d) ==
    disk[d][IF d = Root THEN "generated/mod.rs" ELSE "mod.rs"] \in 1..MaxRuns

Running == pc \in {"lib", "scan", "write"}

----------------------------------------------------------------------------
\* Somebody runs the emitter, for a crate that may have changed.
StartRun == /\ ~Running /\ run < MaxRuns
            /\ run' = run + 1
            /\ crate' \in {c \in Crate : \A d \in SubMods \ c.mods : c.srcs[d] = {}}
            /\ overwrite' \in BOOLEAN
            /\ pc' = "lib"
            /\ UNCHANGED <<torn, toScan, toWrite, disk, lib>>

\* The adapter reports an error before anything is touched.
AdapterFails == /\ pc = "lib" /\ pc' = "failed"
                /\ UNCHANGED <<run, crate, options, toScan, toWrite, disk, lib>>

WriteLibRs_Once == /\ pc = "lib" /\ pc' = "scan"
                   /\ lib' = IF lib = {} THEN crate.mods ELSE lib
                   /\ toScan' = {d \in Dirs : \E f \in Files : disk[d][f] # Absent}
                   /\ UNCHANGED <<run, crate, options, toWrite, disk>>

\* lib.rs is written if there is none or the option says to overwrite it.
WriteLibRs == /\ pc = "lib" /\ pc' = "scan"
              /\ lib' = IF lib = {} \/ overwrite THEN crate.mods ELSE lib
              /\ toScan' = {d \in Dirs : \E f \in Files : disk[d][f] # Absent}
              /\ UNCHANGED <<run, crate, options, toWrite, disk>>

KeepDir(d) == /\ pc = "scan" /\ d \in toScan /\ ~ShouldRmDir(d)
              /\ toScan' = toScan \ {d}
              /\ UNCHANGED <<run, crate, options, pc, toWrite, disk, lib>>

RemoveDir(d) == /\ pc = "scan" /\ d \in toScan /\ ShouldRmDir(d)
                /\ toScan' = toScan \ {d}
                /\ disk' = [disk EXCEPT ![d] = [f \in Files |-> Absent]]
                /\ UNCHANGED <<run, crate, options, pc, toWrite, lib>>

EmitContent == /\ pc = "scan" /\ toScan = {}
               /\ \/ /\ pc' = "write"
                     /\ toWrite' = Content(crate)
                  \/ /\ pc' = "failed"          \* CodegenError
                     /\ UNCHANGED toWrite
               /\ UNCHANGED <<run, crate, options, toScan, disk, lib>>

WriteFile == /\ pc = "write"
             /\ \E w \in toWrite :
                  /\ \A v \in toWrite : ~Before(v, w)
                  /\ disk' = [disk EXCEPT ![w[1]][w[2]] = run]
                  /\ toWrite' = toWrite \ {w}
             /\ UNCHANGED <<run, crate, options, pc, toScan, lib>>

Finish == /\ pc = "write" /\ toWrite = {}
          /\ pc' = "ok"
          /\ UNCHANGED <<run, crate, options, toScan, toWrite, disk, lib>>

Stopped == /\ pc' = "failed" /\ toScan' = {} /\ toWrite' = {}
           /\ UNCHANGED <<run, crate, overwrite, lib>>

\* The run is killed, or a write fails.
Crash == /\ Running
         /\ torn' = IF <<Root, "generated/mod.rs">> \in toWrite THEN torn \cup {Root} ELSE torn
         /\ Stopped
         /\ UNCHANGED disk

\* It is killed while it removes a directory, and some files are left.
CrashInRemoval(d) == /\ pc = "scan" /\ d \in toScan /\ ShouldRmDir(d)
                     /\ \E left \in SUBSET Files :
                          disk' = [disk EXCEPT ![d] = [f \in Files |-> IF f \in left THEN @[f] ELSE Absent]]
                     /\ torn' = torn \cup {d}
                     /\ Stopped

Quiet == ~Running /\ run = MaxRuns /\ UNCHANGED emitterVars

EmitterNext ==
        \/ StartRun \/ AdapterFails \/ WriteLibRs
        \/ \E d \in Dirs : KeepDir(d) \/ RemoveDir(d) \/ CrashInRemoval(d)
        \/ EmitContent \/ WriteFile \/ Finish \/ Crash \/ Quiet

EmitterSpec == EmitterInit /\ [][EmitterNext]_emitterVars

----------------------------------------------------------------------------
Succeeded == pc = "ok" /\ run > 0

\* After a run that succeeds every file of the crate is there and comes from
\* this run, whatever earlier runs have left behind; and a lib.rs that may be
\* overwritten declares exactly the modules that are there.
OutputFresh ==
    Succeeded => /\ \A w \in Content(crate) : disk[w[1]][w[2]] = run
                 /\ overwrite => lib = crate.mods

\* After a run that succeeds no directory has files of earlier runs: a run that
\* fails, however late, leaves nothing behind, and neither does one that is
\* killed, but in the directory that it was removing and, as the mod.rs there
\* is written last, below src/generated.
OutputExact ==
    Succeeded => \A d \in Dirs \ torn, f \in Files :
                    disk[d][f] \in 1..MaxRuns => <<d, f>> \in Content(crate)

\* Handwritten modules beside the generated ones survive every run.  Nothing keeps
\* one whose directory has the name of a sub-module: its mod.rs is overwritten, and
\* the next run takes the directory for its own.
HandwrittenKept == \A d \in HandMods \ SubMods : disk[d]["mod.rs"] = Hand

=============================================================================
