------------------------------ MODULE Workload ------------------------------
(***************************************************************************)
(* The process of a task: the loop every workload of the repository runs   *)
(* (counter, benchmark, LLM training, the Dendro harness and Dendro        *)
(* itself) and the files it shares with the daemon.  A process loads the   *)
(* last checkpoint, announces itself where its kind does so, works, saves  *)
(* as it goes, saves once more at the end and, when nobody asked it to     *)
(* stop, publishes its output and then the completion marker.              *)
(*                                                                         *)
(* What is computed is abstracted to the number of units done.  The kinds  *)
(* differ in how a checkpoint reaches the disk and in who writes the       *)
(* completion marker:                                                      *)
(*   "file"    counter and benchmark: one file, replaced atomically;       *)
(*   "parts"   LLM training: the model, the optimizer's state and meta.json*)
(*             each replaced in turn, then a manifest with their sizes;    *)
(*   "native"  Dendro: rank files, complete when the last is there and     *)
(*             stable; the daemon finds the last complete save, writes the *)
(*             manifest and makes the completion marker.                   *)
(***************************************************************************)
EXTENDS Integers, FiniteSets

CONSTANTS Procs,    \* the processes that may ever be started
          Units,    \* the units of work of the task
          SaveEvery, \* units between two saves, where not every unit is saved
          Kinds     \* the kinds of workload

ASSUME WorkAssumption == /\ Units \in Nat \ {0} /\ SaveEvery \in Nat \ {0}
                         /\ Kinds \subseteq {"file", "parts", "native"}

VARIABLES kind,     \* how this task saves; it never changes
          proc,     \* the processes
          disk      \* the task's directory

None == -1
Step == 0 .. Units
Saved == Step \cup {None}

Process == [life : {"unborn", "live", "frozen", "gone"},
            at   : {"load", "work", "model", "state", "meta", "manifest", "publish", "commit"},
            step : Step,          \* units done, in memory
            term : BOOLEAN,       \* stop_requested: SIGTERM was handled
            last : BOOLEAN,       \* it has left the loop
            clean : BOOLEAN]      \* it exited with code 0
Directory == [model : Saved,          \* the parts of a checkpoint
              state : Saved,
              meta : {"none", "same", "other"},  \* the save meta.json names: the state's?
              manifest : Saved,
              ready : BOOLEAN,        \* the readiness marker
              log : BOOLEAN,          \* the log tells of success
              output : Saved,         \* the published result
              marker : BOOLEAN]       \* the completion marker

Unborn == [life |-> "unborn", at |-> "load", step |-> 0, term |-> FALSE,
           last |-> FALSE, clean |-> FALSE]
EmptyDisk == [model |-> None, state |-> None, meta |-> "none", manifest |-> None,
              ready |-> FALSE, log |-> FALSE, output |-> None, marker |-> FALSE]

WorkloadInit == kind \in Kinds /\ proc = [p \in Procs |-> Unborn] /\ disk = EmptyDisk

Alive(p) == p \in Procs /\ proc[p].life \in {"live", "frozen"}
Whole == disk.model = disk.state

(***************************************************************************)
(* What CheckpointManager.validate may answer.  A single file need only    *)
(* exist.  Parts need a manifest whose sizes they have: those of another   *)
(* step may or may not have the same size.  Before, the native saves are   *)
(* searched for the last one all of whose rank files are there and stable, *)
(* and the manifest, with digests, is made to name it.                     *)
(***************************************************************************)
FileValid == {disk.state # None}
ManifestValid == CASE disk.manifest = None -> {FALSE}
                   [] kind = "native" \/ Whole -> {TRUE}
                   [] OTHER -> BOOLEAN
LastComplete == disk.state
Discovered == IF kind = "native" THEN [disk EXCEPT !.manifest = LastComplete] ELSE disk
ValidAnswers == CASE kind = "file"   -> FileValid
                  [] kind = "native" -> {LastComplete # None}
                  [] OTHER           -> ManifestValid

(***************************************************************************)
(* Loading the last checkpoint.  A native application is told the step of  *)
(* the manifest, the others read the state.  Training refuses a state that *)
(* is not of the save meta.json names, and saves before it is ready.       *)
(***************************************************************************)
Running(p, at) == proc[p].life = "live" /\ proc[p].at = at
Goes(p, at) == proc' = [proc EXCEPT ![p].at = at]
Exits(p) == proc' = [proc EXCEPT ![p].life = "gone", ![p].clean = TRUE]
From(saved) == IF saved = None THEN 0 ELSE saved
Loaded(p, saved, at) == proc' = [proc EXCEPT ![p].step = From(saved), ![p].at = at]

LoadFile(p) ==
  /\ kind = "file" /\ Running(p, "load") /\ Loaded(p, disk.state, "work")
  /\ UNCHANGED <<kind, disk>>

LoadNative(p) ==
  /\ kind = "native" /\ Running(p, "load") /\ Loaded(p, disk.manifest, "work")
  /\ UNCHANGED <<kind, disk>>

LoadTraining(p) ==
  /\ kind = "parts" /\ Running(p, "load")
  /\ IF disk.meta # "other" THEN Loaded(p, disk.state, "model")
     ELSE proc' = [proc EXCEPT ![p].life = "gone"]
  /\ UNCHANGED <<kind, disk>>

(***************************************************************************)
(* One unit of work.  A single file is replaced after each unit, the other *)
(* programs save every SaveEvery units.  The loop ends by request, or      *)
(* because everything is done, and everything is saved once more.          *)
(***************************************************************************)
MayWork(p) == Running(p, "work") /\ ~proc[p].term /\ proc[p].step < Units
Advance(p, at) == proc' = [proc EXCEPT ![p].step = @ + 1, ![p].at = at]
SaveIsDue(p) == (proc[p].step + 1) % SaveEvery = 0

Iterate(p) ==
  /\ kind = "file" /\ MayWork(p) /\ Advance(p, "work")
  /\ disk' = [disk EXCEPT !.model = proc[p].step + 1, !.state = proc[p].step + 1]
  /\ UNCHANGED kind

Train(p) ==
  /\ kind = "parts" /\ MayWork(p)
  /\ Advance(p, IF SaveIsDue(p) THEN "model" ELSE "work")
  /\ UNCHANGED <<kind, disk>>

Simulate(p) ==
  /\ kind = "native" /\ MayWork(p)
  /\ Advance(p, IF SaveIsDue(p) THEN "model" ELSE "work")
  /\ UNCHANGED <<kind, disk>>

LeaveLoop(p) ==
  /\ Running(p, "work") /\ (proc[p].term \/ proc[p].step = Units)
  /\ proc' = [proc EXCEPT ![p].at = "model", ![p].last = TRUE]
  /\ UNCHANGED <<kind, disk>>

(***************************************************************************)
(* Saving, and what follows: back to work, or out.  Only a process that    *)
(* was not asked to stop and has done everything publishes.                *)
(***************************************************************************)
Natural(p) == ~proc[p].term /\ proc[p].step = Units
AfterSave(p) ==
  IF ~proc[p].last THEN Goes(p, "work")
  ELSE IF Natural(p) THEN Goes(p, "publish") ELSE Exits(p)

SaveFile(p) ==
  /\ kind = "file" /\ Running(p, "model") /\ AfterSave(p)
  /\ disk' = [disk EXCEPT !.model = proc[p].step, !.state = proc[p].step]
  /\ UNCHANGED kind

\* The parts of a native save have names of their own: until the last is there
\* and stable the save is not found, and an earlier one is.
SaveRanks(p) ==
  /\ kind = "native" /\ Running(p, "model") /\ AfterSave(p)
  /\ disk' = [disk EXCEPT !.model = proc[p].step, !.state = proc[p].step]
  /\ UNCHANGED kind

SaveModel(p) ==
  /\ kind = "parts" /\ Running(p, "model") /\ Goes(p, "state")
  /\ disk' = [disk EXCEPT !.model = proc[p].step]
  /\ UNCHANGED kind

SaveState(p) ==
  /\ Running(p, "state") /\ Goes(p, "meta")
  /\ disk' = [disk EXCEPT !.state = proc[p].step,
                        !.meta = IF @ = "none" THEN "none" ELSE "other"]
  /\ UNCHANGED kind

SaveMeta(p) ==
  /\ Running(p, "meta") /\ Goes(p, "manifest")
  /\ disk' = [disk EXCEPT !.meta = "same"]
  /\ UNCHANGED kind

\* The manifest is written last; the first one makes the process ready.
SaveManifest(p) ==
  /\ Running(p, "manifest") /\ AfterSave(p)
  /\ disk' = [disk EXCEPT !.manifest = proc[p].step, !.ready = TRUE]
  /\ UNCHANGED kind

Publish(p) ==
  /\ Running(p, "publish") /\ Goes(p, "commit")
  /\ disk' = [disk EXCEPT !.output = proc[p].step, !.log = (kind = "native")]
  /\ UNCHANGED kind

\* Written last: this is the success commit record.  A native application writes
\* none.
Commit(p) ==
  /\ Running(p, "commit") /\ Exits(p)
  /\ disk' = [disk EXCEPT !.marker = @ \/ kind # "native"]
  /\ UNCHANGED kind

ProcessStep(p) ==
  \/ LoadFile(p) \/ LoadNative(p) \/ LoadTraining(p)
  \/ Iterate(p) \/ Train(p) \/ Simulate(p) \/ LeaveLoop(p)
  \/ SaveFile(p) \/ SaveRanks(p)
  \/ SaveModel(p) \/ SaveState(p) \/ SaveMeta(p) \/ SaveManifest(p)
  \/ Publish(p) \/ Commit(p)

\* A process may fail at any moment of its own.
Dies(p) ==
  /\ Alive(p) /\ proc' = [proc EXCEPT ![p].life = "gone"]
  /\ UNCHANGED <<kind, disk>>

(***************************************************************************)
(* Signals, as they change the processes.                                  *)
(***************************************************************************)
Lives(p, life) == IF Alive(p) THEN [proc EXCEPT ![p].life = life] ELSE proc
Frozen(p) == Lives(p, "frozen")     \* SIGSTOP
Thawed(p) == Lives(p, "live")       \* SIGCONT
Killed(p) == Lives(p, "gone")       \* SIGKILL
=============================================================================
