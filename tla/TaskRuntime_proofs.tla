--------------------------- MODULE TaskRuntime_proofs --------------------------
(***************************************************************************)
(* One node and one task, for any number of processes, units of work,      *)
(* restarts, requests and faults: types, the bound on restart attempts,    *)
(* and that completion is earned.                                          *)
(***************************************************************************)
EXTENDS TaskRuntime, TLAPS

USE WorkAssumption, RuntimeAssumption DEF WorkAssumption, RuntimeAssumption

(* The log tells whether a native application that exited has succeeded. *)
LogTells == LogMustTell \/ "native" \notin Kinds

(* A process publishes when it has done everything, and commits what it has
   published; the markers and the log tell of what is published. *)
Earned ==
    /\ \A p \in Procs :
         /\ proc[p].at \in {"publish", "commit"} => proc[p].step = Units
         /\ proc[p].at = "commit" => disk.output = Units
    /\ (LogTells /\ disk.marker) \/ disk.log => disk.output = Units

WorkOK ==
    /\ kind \in Kinds /\ proc \in [Procs -> Process] /\ disk \in Directory
    /\ Earned

EntryOK ==
    /\ entry \in RuntimeEntry
    /\ LogTells => CompletionIsEarned

(* Nobody else counts attempts between the look at the count and the attempt. *)
AttemptLeft == thread["recovery"].at = "validating" => entry.restarts < MaxRestarts

ThreadType == [Services -> [at : Places, pid : Pids \cup {NoPid}]]
ThreadOK == thread \in ThreadType /\ AttemptLeft

RestOK ==
    /\ handle \in Pids \cup {NoPid} /\ opLock \in Services \cup {Free}
    /\ dead \subseteq Loops /\ up \in BOOLEAN
    /\ requests \in 0 .. MaxRequests /\ faults \in 0 .. MaxFaults

RuntimeInv == WorkOK /\ EntryOK /\ ThreadOK /\ RestOK

-------------------------------------------------------------------------------
(* The process of a task, by itself. *)

LEMMA OneProcess ==
  ASSUME WorkOK, NEW p \in Procs, NEW q \in Process, kind' = kind,
         proc' = [proc EXCEPT ![p] = q], disk' \in Directory,
         disk.output = Units => disk'.output = Units,
         (LogTells /\ disk'.marker) \/ disk'.log => disk'.output = Units,
         q.at \in {"publish", "commit"} => q.step = Units,
         q.at = "commit" => disk'.output = Units
  PROVE  WorkOK'
<1>1. proc' \in [Procs -> Process] BY DEF WorkOK
<1>2. Earned' BY DEF WorkOK, Earned
<1> QED BY <1>1, <1>2 DEF WorkOK

(* How a step of a process leaves the files. *)
OutputKept == disk.output = Units => disk'.output = Units

LEMMA ProcessChanges ==
  ASSUME WorkOK, NEW p \in Procs
  PROVE  /\ \A a, b : [proc EXCEPT ![p].at = a, ![p].last = b]
                    = [proc EXCEPT ![p] = [proc[p] EXCEPT !.at = a, !.last = b]]
         /\ \A a : [proc EXCEPT ![p].at = a] = [proc EXCEPT ![p] = [proc[p] EXCEPT !.at = a]]
         /\ \A l : [proc EXCEPT ![p].life = l] = [proc EXCEPT ![p] = [proc[p] EXCEPT !.life = l]]
OBVIOUS

LEMMA ProcessStep_Work ==
  ASSUME WorkOK, NEW p \in Procs, ProcessStep(p)
  PROVE  WorkOK' /\ OutputKept
<1>0. /\ proc[p] \in Process /\ disk \in Directory /\ Earned
      /\ proc \in [Procs -> Process]
  BY DEF WorkOK
<1>w. ASSUME NEW q \in Process, kind' = kind, proc' = [proc EXCEPT ![p] = q],
             disk' \in Directory, OutputKept,
             (LogTells /\ disk'.marker) \/ disk'.log => disk'.output = Units,
             q.at \in {"publish", "commit"} => q.step = Units,
             q.at = "commit" => disk'.output = Units
      PROVE  WorkOK' /\ OutputKept
  BY <1>w, OneProcess DEF OutputKept
<1>s. /\ Units \in Nat /\ \A s \in Saved : From(s) \in Step
  BY DEF Saved, Step, From, None
(* a process that loads, or dies of what it loads *)
<1>1. ASSUME NEW saved \in Saved, NEW at \in {"work", "model"}, Loaded(p, saved, at),
             UNCHANGED <<kind, disk>>
      PROVE  WorkOK' /\ OutputKept
  <2> DEFINE q == [proc[p] EXCEPT !.step = From(saved), !.at = at]
  <2>1. q \in Process BY <1>0, <1>s DEF Process
  <2>2. proc' = [proc EXCEPT ![p] = q] BY <1>0, <1>1 DEF Loaded
  <2>3. q.at = at BY <1>0 DEF Process
  <2> HIDE DEF q
  <2> QED BY <1>0, <1>1, <1>w, <2>1, <2>2, <2>3 DEF OutputKept, Earned
<1>2. ASSUME NEW life \in {"live", "frozen", "gone"}, NEW clean \in BOOLEAN,
             proc' = [proc EXCEPT ![p] = [proc[p] EXCEPT !.life = life, !.clean = clean]],
             kind' = kind, disk' \in Directory, OutputKept,
             (LogTells /\ disk'.marker) \/ disk'.log => disk'.output = Units
      PROVE  WorkOK' /\ OutputKept
  <2> DEFINE q == [proc[p] EXCEPT !.life = life, !.clean = clean]
  <2>1. q \in Process /\ q.at = proc[p].at /\ q.step = proc[p].step BY <1>0 DEF Process
  <2>2. proc' = [proc EXCEPT ![p] = q] BY <1>2
  <2> HIDE DEF q
  <2> QED BY <1>0, <1>2, <1>w, <2>1, <2>2 DEF Earned, OutputKept
<1>3. CASE LoadFile(p) \/ LoadNative(p) \/ LoadTraining(p)
  <2>1. disk.state \in Saved /\ disk.manifest \in Saved BY <1>0 DEF Directory
  <2>2. CASE LoadFile(p) BY <1>1, <2>1, <2>2 DEF LoadFile
  <2>3. CASE LoadNative(p) BY <1>1, <2>1, <2>3 DEF LoadNative
  <2>4. CASE LoadTraining(p)
    <3>1. CASE disk.meta # "other" BY <1>1, <2>1, <2>4, <3>1 DEF LoadTraining
    <3>2. CASE disk.meta = "other"
      <4>1. proc' = [proc EXCEPT ![p].life = "gone"] /\ UNCHANGED <<kind, disk>>
        BY <2>4, <3>2 DEF LoadTraining
      <4>2. proc' = [proc EXCEPT ![p] = [proc[p] EXCEPT !.life = "gone", !.clean = proc[p].clean]]
        BY <1>0, <4>1 DEF Process
      <4>3. proc[p].clean \in BOOLEAN BY <1>0 DEF Process
      <4> QED BY <1>0, <1>2, <4>1, <4>2, <4>3 DEF OutputKept, Earned
    <3> QED BY <3>1, <3>2
  <2> QED BY <1>3, <2>2, <2>3, <2>4
(* ... that works *)
<1>4. CASE Iterate(p) \/ Train(p) \/ Simulate(p)
  <2>1. /\ proc[p].step \in Step /\ proc[p].step < Units
        /\ \E a \in {"work", "model"} : Advance(p, a)
        /\ kind' = kind
        /\ disk' = disk \/ disk' = [disk EXCEPT !.model = proc[p].step + 1, !.state = proc[p].step + 1]
    BY <1>0, <1>4 DEF Iterate, Train, Simulate, MayWork, Process
  <2>2. PICK a \in {"work", "model"} : Advance(p, a) BY <2>1
  <2> DEFINE q == [proc[p] EXCEPT !.step = proc[p].step + 1, !.at = a]
  <2>3. proc[p].step + 1 \in Step BY <2>1 DEF Step
  <2>4. q \in Process /\ q.at = a BY <1>0, <2>3 DEF Process
  <2>5. proc' = [proc EXCEPT ![p] = q] BY <1>0, <2>2 DEF Advance
  <2>6. /\ disk' \in Directory /\ disk'.output = disk.output
        /\ disk'.marker = disk.marker /\ disk'.log = disk.log
    BY <1>0, <2>1, <2>3 DEF Directory, Saved
  <2> HIDE DEF q
  <2> QED BY <1>0, <1>w, <2>1, <2>4, <2>5, <2>6 DEF Earned, OutputKept
<1>5. CASE LeaveLoop(p)
  <2> DEFINE q == [proc[p] EXCEPT !.at = "model", !.last = TRUE]
  <2>1. proc' = [proc EXCEPT ![p] = q] /\ UNCHANGED <<kind, disk>> BY <1>0, <1>5 DEF LeaveLoop
  <2>2. q \in Process /\ q.at = "model" BY <1>0 DEF Process
  <2> HIDE DEF q
  <2> QED BY <1>0, <1>w, <2>1, <2>2 DEF Earned, OutputKept
(* ... that saves *)
<1>6. ASSUME NEW a \in {"work", "model", "state", "meta", "manifest", "publish", "commit"},
             Goes(p, a), kind' = kind, disk' \in Directory, OutputKept,
             (LogTells /\ disk'.marker) \/ disk'.log => disk'.output = Units,
             a \in {"publish", "commit"} => proc[p].step = Units,
             a = "commit" => disk'.output = Units
      PROVE  WorkOK' /\ OutputKept
  <2> DEFINE q == [proc[p] EXCEPT !.at = a]
  <2>1. proc' = [proc EXCEPT ![p] = q] BY <1>0, <1>6 DEF Goes
  <2>2. q \in Process /\ q.at = a /\ q.step = proc[p].step BY <1>0 DEF Process
  <2> HIDE DEF q
  <2> QED BY <1>6, <1>w, <2>1, <2>2
<1>7. ASSUME AfterSave(p), kind' = kind, disk' \in Directory, OutputKept,
             (LogTells /\ disk'.marker) \/ disk'.log => disk'.output = Units
      PROVE  WorkOK' /\ OutputKept
  <2>1. CASE Goes(p, "work") BY <1>6, <1>7, <2>1
  <2>2. CASE Goes(p, "publish") /\ Natural(p) BY <1>6, <1>7, <2>2 DEF Natural
  <2>3. CASE Exits(p)
    <3>1. proc' = [proc EXCEPT ![p] = [proc[p] EXCEPT !.life = "gone", !.clean = TRUE]]
      BY <1>0, <2>3 DEF Exits
    <3> QED BY <1>2, <1>7, <3>1
  <2> QED BY <1>7, <2>1, <2>2, <2>3 DEF AfterSave
<1>8. CASE \/ SaveFile(p) \/ SaveRanks(p) \/ SaveModel(p) \/ SaveState(p) \/ SaveMeta(p)
           \/ SaveManifest(p)
  <2>1. proc[p].step \in Saved BY <1>0 DEF Process, Saved
  <2>2. /\ disk' \in Directory /\ disk'.output = disk.output
        /\ disk'.marker = disk.marker /\ disk'.log = disk.log /\ kind' = kind
    <3>1. CASE SaveFile(p) \/ SaveRanks(p) BY <1>0, <2>1, <3>1 DEF SaveFile, SaveRanks, Directory
    <3>2. CASE SaveModel(p) BY <1>0, <2>1, <3>2 DEF SaveModel, Directory
    <3>3. CASE SaveState(p)
      <4> DEFINE meta == IF disk.meta = "none" THEN "none" ELSE "other"
      <4>1. disk' = [disk EXCEPT !.state = proc[p].step, !.meta = meta] /\ kind' = kind
        BY <3>3 DEF SaveState
      <4>2. meta \in {"none", "same", "other"} OBVIOUS
      <4> HIDE DEF meta
      <4> QED BY <1>0, <2>1, <4>1, <4>2 DEF Directory
    <3>4. CASE SaveMeta(p) BY <1>0, <3>4 DEF SaveMeta, Directory
    <3>5. CASE SaveManifest(p) BY <1>0, <2>1, <3>5 DEF SaveManifest, Directory
    <3> QED BY <1>8, <3>1, <3>2, <3>3, <3>4, <3>5
  <2>3. AfterSave(p) \/ Goes(p, "state") \/ Goes(p, "meta") \/ Goes(p, "manifest")
    BY <1>8 DEF SaveFile, SaveRanks, SaveModel, SaveState, SaveMeta, SaveManifest
  <2>4. OutputKept /\ ((LogTells /\ disk'.marker) \/ disk'.log => disk'.output = Units)
    BY <1>0, <2>2 DEF OutputKept, Earned
  <2>5. CASE AfterSave(p) BY <1>7, <2>2, <2>4, <2>5
  <2>6. CASE Goes(p, "state") \/ Goes(p, "meta") \/ Goes(p, "manifest")
    BY <1>6, <2>2, <2>4, <2>6
  <2> QED BY <2>3, <2>5, <2>6
(* ... that publishes and commits *)
<1>9. CASE Publish(p)
  <2>1. proc[p].step = Units BY <1>0, <1>9 DEF Publish, Running, Earned
  <2> DEFINE log == kind = "native"
  <2>2. disk' = [disk EXCEPT !.output = Units, !.log = log] /\ Goes(p, "commit") /\ kind' = kind
    BY <1>9, <2>1 DEF Publish
  <2>3. log \in BOOLEAN /\ Units \in Saved BY <1>s DEF Saved, Step
  <2> HIDE DEF log
  <2>4. disk' \in Directory /\ disk'.output = Units BY <1>0, <2>2, <2>3 DEF Directory
  <2> QED BY <1>6, <2>1, <2>2, <2>4 DEF OutputKept
<1>10. CASE Commit(p)
  <2>1. disk.output = Units BY <1>0, <1>10 DEF Commit, Running, Earned
  <2> DEFINE marker == disk.marker \/ kind # "native"
  <2>2. disk' = [disk EXCEPT !.marker = marker] /\ Exits(p) /\ kind' = kind BY <1>10 DEF Commit
  <2>3. marker \in BOOLEAN BY <1>0 DEF Directory
  <2> HIDE DEF marker
  <2>4. disk' \in Directory /\ disk'.output = Units BY <1>0, <2>1, <2>2, <2>3 DEF Directory
  <2>5. proc' = [proc EXCEPT ![p] = [proc[p] EXCEPT !.life = "gone", !.clean = TRUE]]
    BY <1>0, <2>2 DEF Exits
  <2> QED BY <1>2, <2>2, <2>4, <2>5 DEF OutputKept
<1> QED BY <1>3, <1>4, <1>5, <1>8, <1>9, <1>10 DEF ProcessStep

(* Signals, and a process that dies by itself. *)
LEMMA Lives_Work ==
  ASSUME WorkOK, NEW p, NEW life \in {"live", "frozen", "gone"},
         proc' = Lives(p, life), UNCHANGED <<kind, disk>>
  PROVE  WorkOK'
<1>1. CASE Alive(p)
  <2> DEFINE q == [proc[p] EXCEPT !.life = life]
  <2>0. p \in Procs /\ proc[p] \in Process BY <1>1 DEF Alive, WorkOK
  <2>1. q \in Process /\ q.at = proc[p].at /\ q.step = proc[p].step BY <2>0 DEF Process
  <2>2. proc' = [proc EXCEPT ![p] = q] BY <1>1 DEF Lives, WorkOK
  <2> HIDE DEF q
  <2> QED BY <2>0, <2>1, <2>2, OneProcess DEF WorkOK, Earned
<1>2. CASE ~Alive(p)
  BY <1>2 DEF Lives, WorkOK, Earned
<1> QED BY <1>1, <1>2

-------------------------------------------------------------------------------
(* The registry's transitions. *)

LEMMA EntryStep ==
  ASSUME EntryOK, OutputKept,
         \/ entry' \in {entry, NowFailed, NowPaused, NowResumed, NowStopped, NowScheduled,
                        NowExhausted}
         \/ \E p \in Pids \cup {NoPid} : entry' = NowRunning(p)
  PROVE  EntryOK' /\ entry'.restarts = entry.restarts
<1>0. entry \in RuntimeEntry BY DEF EntryOK
<1> DEFINE Keeps(e) == /\ e \in RuntimeEntry /\ e.restarts = entry.restarts
                       /\ e.status = "completed" => entry.status = "completed"
<1>1. Keeps(NowFailed)
  BY <1>0 DEF NowFailed, NoTimes, MarkFailed, RuntimeEntry, Status, Deadline, NoPid
<1>2. Keeps(NowPaused) BY <1>0 DEF NowPaused, RuntimeEntry, Status, Deadline
<1>3. Keeps(NowResumed) BY <1>0 DEF NowResumed, RuntimeEntry, Status, Deadline
<1>4. Keeps(NowStopped) BY <1>0 DEF NowStopped, MarkStopped, RuntimeEntry, Status, Deadline, NoPid
<1>5. Keeps(NowScheduled) BY <1>0 DEF NowScheduled, RuntimeEntry, Deadline
<1>6. Keeps(NowExhausted)
  BY <1>0 DEF NowExhausted, MarkExhausted, RuntimeEntry, Status, Deadline, NoPid
<1>7. ASSUME NEW p \in Pids \cup {NoPid} PROVE Keeps(NowRunning(p))
  BY <1>0 DEF NowRunning, NoTimes, MarkRunning, RuntimeEntry, Status, Deadline
<1>8. Keeps(entry) BY <1>0
<1>9. Keeps(entry') BY <1>1, <1>2, <1>3, <1>4, <1>5, <1>6, <1>7, <1>8
<1> QED BY <1>9 DEF EntryOK, CompletionIsEarned, OutputKept

LEMMA ThreadStep ==
  ASSUME ThreadOK, NEW s \in Services, NEW at \in Places, NEW p \in Pids \cup {NoPid},
         Goto(s, at, p), entry'.restarts = entry.restarts,
         at = "validating" => entry.restarts < MaxRestarts
  PROVE  ThreadOK'
BY DEF ThreadOK, ThreadType, AttemptLeft, Goto, Services

LEMMA DoneIsGoto == ASSUME NEW s, Done(s) PROVE Goto(s, "idle", NoPid)
BY DEF Done, Goto, Idle

LEMMA ThreadSame ==
  ASSUME ThreadOK, thread' = thread, entry'.restarts = entry.restarts PROVE ThreadOK'
BY DEF ThreadOK, AttemptLeft

LEMMA FilesSame == ASSUME WorkOK, UNCHANGED Files PROVE WorkOK' /\ OutputKept
BY DEF WorkOK, Earned, Files, OutputKept

LEMMA FilesDiscovered ==
  ASSUME WorkOK, UNCHANGED <<kind, proc>>, disk' = Discovered PROVE WorkOK' /\ OutputKept
<1>1. disk' \in Directory /\ disk'.output = disk.output
      /\ disk'.marker = disk.marker /\ disk'.log = disk.log
  BY DEF Discovered, LastComplete, WorkOK, Directory
<1> QED BY <1>1 DEF WorkOK, Earned, OutputKept

LEMMA SpawnStep ==
  ASSUME RuntimeInv, NEW s \in Services, Spawn(s), UNCHANGED <<kind, entry>>
  PROVE  WorkOK' /\ OutputKept /\ ThreadOK' /\ EntryOK'
<1>0. WorkOK /\ EntryOK /\ ThreadOK BY DEF RuntimeInv
<1>1. PICK p \in Procs : /\ proc' = [proc EXCEPT ![p].life = "live"]
                         /\ disk' = Cleared /\ Goto(s, "booting", p)
  BY DEF Spawn
<1> DEFINE q == [proc[p] EXCEPT !.life = "live"]
<1>2. q \in Process /\ q.at = proc[p].at /\ q.step = proc[p].step BY <1>0 DEF WorkOK, Process
<1>3. proc' = [proc EXCEPT ![p] = q] BY <1>0, <1>1 DEF WorkOK
<1>4. /\ disk' \in Directory /\ disk'.output = disk.output
      /\ disk'.marker = FALSE /\ disk'.log = disk.log
  BY <1>0, <1>1 DEF WorkOK, Directory, Cleared
<1> HIDE DEF q
<1>5. WorkOK' BY <1>0, <1>2, <1>3, <1>4, OneProcess DEF WorkOK, Earned
<1>6. OutputKept BY <1>4 DEF OutputKept
<1>7. ThreadOK' BY <1>0, <1>1, ThreadStep DEF Places
<1>8. EntryOK' BY <1>0, <1>6, EntryStep
<1> QED BY <1>5, <1>6, <1>7, <1>8

-------------------------------------------------------------------------------
LEMMA Init_Inv == Init => RuntimeInv
<1> SUFFICES ASSUME Init PROVE RuntimeInv
  OBVIOUS
<1>1. WorkOK
  BY DEF Init, WorkloadInit, WorkOK, Earned, Unborn, EmptyDisk, Process, Directory, Saved, Step, None
<1>2. EntryOK
  <2>1. FirstEntry = [owner |-> Here, gen |-> 0, status |-> "stopped", pid |-> NoPid,
                      last |-> NoMigration, exhausted |-> FALSE,
                      due |-> "none", restarts |-> 0, next |-> "none"]
    BY DEF FirstEntry
  <2> QED BY <2>1 DEF Init, EntryOK, CompletionIsEarned, RuntimeEntry, Status, Deadline
<1>3. ThreadOK BY DEF Init, ThreadOK, ThreadType, AttemptLeft, Idle, Places, Services
<1>4. RestOK BY DEF Init, RestOK
<1> QED BY <1>1, <1>2, <1>3, <1>4 DEF RuntimeInv

LEMMA Operator_Inv ==
  ASSUME RuntimeInv, Api \/ StopTimesOut \/ Stopped PROVE RuntimeInv'
<1>0. WorkOK /\ EntryOK /\ ThreadOK /\ RestOK /\ "api" \in Services /\ entry \in RuntimeEntry
  BY DEF RuntimeInv, Services, EntryOK
<1>p. entry.pid \in Pids \cup {NoPid} BY <1>0 DEF RuntimeEntry
<1>r. ASSUME NEW what, Asked(what) PROVE requests' \in 0 .. MaxRequests /\ faults' = faults
  BY <1>0, <1>r DEF Asked, RestOK
<1>1. CASE ApiStart
  <2>1. /\ Spawn("api") /\ UNCHANGED <<kind, entry, handle, opLock, dead, up>>
        /\ requests' \in 0 .. MaxRequests /\ faults' = faults
    BY <1>1, <1>r DEF ApiStart, registry
  <2>2. RestOK' BY <1>0, <2>1 DEF RestOK
  <2> QED BY <1>0, <2>1, <2>2, SpawnStep DEF RuntimeInv
<1>2. CASE ApiStop
  <2>1. UNCHANGED <<kind, disk, opLock, dead, up>> /\ requests' \in 0 .. MaxRequests /\ faults' = faults
    BY <1>2, <1>r DEF ApiStop
  <2>2. CASE entry.pid = NoPid \/ ~Alive(entry.pid)
    <3>1. entry' = NowStopped /\ handle' \in {handle, NoPid} /\ UNCHANGED <<proc, thread>>
      BY <1>2, <2>2 DEF ApiStop
    <3>2. WorkOK' /\ OutputKept BY <1>0, <2>1, <3>1, FilesSame DEF Files
    <3>3. EntryOK' /\ entry'.restarts = entry.restarts BY <1>0, <3>1, <3>2, EntryStep
    <3>4. ThreadOK' BY <1>0, <3>1, <3>3, ThreadSame
    <3>5. RestOK' BY <1>0, <2>1, <3>1 DEF RestOK
    <3> QED BY <3>2, <3>3, <3>4, <3>5 DEF RuntimeInv
  <2>3. CASE ~(entry.pid = NoPid \/ ~Alive(entry.pid))
    <3> DEFINE p == entry.pid
               life == IF entry.status = "paused" THEN "live" ELSE proc[p].life
               q == [proc[p] EXCEPT !.term = TRUE, !.life = life]
    <3>0. p \in Procs /\ Alive(p) BY <2>3 DEF Alive
    <3>l. proc[p] \in Process /\ life \in {"unborn", "live", "frozen", "gone"}
      BY <1>0, <3>0 DEF WorkOK, Process
    <3>1. /\ proc' = [proc EXCEPT ![p].term = TRUE,
                                  ![p].life = IF entry.status = "paused" THEN "live" ELSE @]
          /\ Goto("api", "stopping", p) /\ UNCHANGED <<entry, handle>>
      BY <1>2, <2>3 DEF ApiStop, registry
    <3>3. proc' = [proc EXCEPT ![p] = q] BY <1>0, <3>0, <3>1 DEF WorkOK, Process
    <3>2. q \in Process /\ q.at = proc[p].at /\ q.step = proc[p].step
      <4> HIDE DEF life, p
      <4> QED BY <3>l DEF Process
    <3>4. p \in Pids \cup {NoPid} BY <1>p
    <3> HIDE DEF q, life, p
    <3>5. WorkOK' /\ OutputKept
      BY <1>0, <2>1, <3>0, <3>2, <3>3, OneProcess DEF WorkOK, Earned, OutputKept
    <3>6. EntryOK' BY <1>0, <3>1, <3>5, EntryStep
    <3>7. ThreadOK' BY <1>0, <3>1, <3>4, ThreadStep DEF Places
    <3>8. RestOK' BY <1>0, <2>1, <3>1 DEF RestOK
    <3> QED BY <3>5, <3>6, <3>7, <3>8 DEF RuntimeInv
  <2> QED BY <2>2, <2>3
<1>3. CASE ApiPause
  <2>1. /\ proc' = Frozen(entry.pid) /\ Goto("api", "freezing", entry.pid)
        /\ opLock' = "api" /\ UNCHANGED <<kind, disk, entry, handle, dead, up>>
        /\ requests' \in 0 .. MaxRequests /\ faults' = faults
    BY <1>3, <1>r DEF ApiPause, Freeze, registry
  <2>2. WorkOK' /\ OutputKept BY <1>0, <2>1, Lives_Work DEF Frozen, OutputKept
  <2>3. EntryOK' BY <1>0, <2>1, <2>2, EntryStep
  <2>4. ThreadOK' BY <1>0, <1>p, <2>1, ThreadStep DEF Places
  <2>5. RestOK' BY <1>0, <2>1 DEF RestOK
  <2> QED BY <2>2, <2>3, <2>4, <2>5 DEF RuntimeInv
<1>4. CASE ApiResume
  <2>1. /\ Goto("api", "resuming", entry.pid) /\ opLock' = "api"
        /\ UNCHANGED <<Files, entry, handle, dead, up>>
        /\ requests' \in 0 .. MaxRequests /\ faults' = faults
    BY <1>4, <1>r DEF ApiResume, registry
  <2>2. WorkOK' /\ OutputKept BY <1>0, <2>1, FilesSame
  <2>3. EntryOK' BY <1>0, <2>1, <2>2, EntryStep
  <2>4. ThreadOK' BY <1>0, <1>p, <2>1, ThreadStep DEF Places
  <2>5. RestOK' BY <1>0, <2>1 DEF RestOK
  <2> QED BY <2>2, <2>3, <2>4, <2>5 DEF RuntimeInv
<1>5. CASE StopTimesOut
  <2>1. /\ proc' = Killed(thread["api"].pid)
        /\ UNCHANGED <<kind, disk, entry, handle, thread, opLock, dead, up, requests, faults>>
    BY <1>5 DEF StopTimesOut, registry, bounds
  <2>2. WorkOK' /\ OutputKept BY <1>0, <2>1, Lives_Work DEF Killed, OutputKept
  <2>3. EntryOK' BY <1>0, <2>1, <2>2, EntryStep
  <2>4. ThreadOK' BY <1>0, <2>1, ThreadSame
  <2>5. RestOK' BY <1>0, <2>1 DEF RestOK
  <2> QED BY <2>2, <2>3, <2>4, <2>5 DEF RuntimeInv
<1>6. CASE Stopped
  <2>1. /\ entry' = NowStopped /\ handle' = NoPid /\ Goto("api", "idle", NoPid)
        /\ UNCHANGED <<Files, opLock, dead, up, requests, faults>>
    BY <1>6, DoneIsGoto DEF Stopped, bounds
  <2>2. WorkOK' /\ OutputKept BY <1>0, <2>1, FilesSame
  <2>3. EntryOK' /\ entry'.restarts = entry.restarts BY <1>0, <2>1, <2>2, EntryStep
  <2>4. ThreadOK' BY <1>0, <2>1, <2>3, ThreadStep DEF Places
  <2>5. RestOK' BY <1>0, <2>1 DEF RestOK
  <2> QED BY <2>2, <2>3, <2>4, <2>5 DEF RuntimeInv
<1> QED BY <1>1, <1>2, <1>3, <1>4, <1>5, <1>6 DEF Api

LEMMA Service_Inv ==
  ASSUME RuntimeInv, NEW s \in Services, ServiceStep(s) PROVE RuntimeInv'
<1>0. WorkOK /\ EntryOK /\ ThreadOK /\ RestOK /\ entry \in RuntimeEntry
  BY DEF RuntimeInv, EntryOK
<1>p. entry.pid \in Pids \cup {NoPid} /\ thread[s].pid \in Pids \cup {NoPid}
  BY <1>0 DEF RuntimeEntry, ThreadOK, ThreadType
<1>1. ASSUME \/ UNCHANGED Files
             \/ UNCHANGED <<kind, disk>>
                /\ \E p \in Pids \cup {NoPid}, life \in {"live", "gone"} : proc' = Lives(p, life),
             \/ entry' \in {entry, NowFailed, NowPaused, NowResumed}
             \/ entry' = NowRunning(thread[s].pid),
             \E at \in Places \ {"validating"}, p \in Pids \cup {NoPid} : Goto(s, at, p),
             handle' \in Pids \cup {NoPid}, opLock' \in {opLock, Free},
             UNCHANGED <<dead, up, requests, faults>>
      PROVE  RuntimeInv'
  <2>1. WorkOK' /\ OutputKept
    <3>1. CASE UNCHANGED Files BY <1>0, <3>1, FilesSame
    <3>2. CASE UNCHANGED <<kind, disk>>
               /\ \E p \in Pids \cup {NoPid}, life \in {"live", "gone"} : proc' = Lives(p, life)
      BY <1>0, <3>2, Lives_Work DEF OutputKept
    <3> QED BY <1>1, <3>1, <3>2
  <2>2. EntryOK' /\ entry'.restarts = entry.restarts
    BY <1>0, <1>1, <1>p, <2>1, EntryStep
  <2>3. ThreadOK' BY <1>0, <1>1, <2>2, ThreadStep
  <2>4. RestOK' BY <1>0, <1>1 DEF RestOK
  <2> QED BY <2>1, <2>2, <2>3, <2>4 DEF RuntimeInv
<1>h. handle \in Pids \cup {NoPid} BY <1>0 DEF RestOK
<1>2. CASE Booted(s)
  BY <1>1, <1>2, <1>p, DoneIsGoto DEF Booted, bounds, Places
<1>3. CASE BootFailed(s)
  <2>1. /\ proc' = Lives(thread[s].pid, "gone") /\ UNCHANGED <<kind, disk>>
        /\ entry' = NowFailed /\ Goto(s, "idle", NoPid)
        /\ UNCHANGED <<handle, opLock, dead, up, requests, faults>>
    BY <1>3, DoneIsGoto DEF BootFailed, Killed, bounds
  <2> QED BY <1>1, <1>h, <1>p, <2>1 DEF Places
<1>4. CASE FreezeRecorded(s)
  <2>1. /\ entry' \in {entry, NowPaused} /\ opLock' = Free /\ Goto(s, "idle", NoPid)
        /\ UNCHANGED <<Files, handle, dead, up, requests, faults>>
    BY <1>4, DoneIsGoto DEF FreezeRecorded, bounds
  <2> QED BY <1>1, <1>h, <2>1 DEF Places
<1>5. CASE Thaw(s)
  <2>1. UNCHANGED <<kind, disk, handle, dead, up, requests, faults>> BY <1>5 DEF Thaw, bounds
  <2>2. \/ proc' = Lives(entry.pid, "live") /\ Goto(s, "thawing", entry.pid)
           /\ UNCHANGED <<entry, opLock>>
        \/ /\ entry' \in {entry, NowFailed} /\ Done(s) /\ Unlock(s) /\ UNCHANGED proc
    BY <1>5 DEF Thaw, Thawed, Raised
  <2>3. CASE proc' = Lives(entry.pid, "live") /\ Goto(s, "thawing", entry.pid)
             /\ UNCHANGED <<entry, opLock>>
    BY <1>1, <1>h, <1>p, <2>1, <2>3 DEF Places
  <2>4. CASE entry' \in {entry, NowFailed} /\ Done(s) /\ Unlock(s) /\ UNCHANGED proc
    <3>1. Goto(s, "idle", NoPid) /\ opLock' \in {opLock, Free} /\ UNCHANGED Files
      BY <2>1, <2>4, DoneIsGoto DEF Unlock, Files
    <3> QED BY <1>1, <1>h, <2>1, <2>4, <3>1 DEF Places
  <2> QED BY <2>2, <2>3, <2>4
<1>6. CASE ThawRecorded(s)
  <2>1. /\ entry' \in {entry, NowResumed, NowFailed} /\ opLock' \in {opLock, Free}
        /\ Goto(s, "idle", NoPid) /\ UNCHANGED <<Files, handle, dead, up, requests, faults>>
    BY <1>6, DoneIsGoto DEF ThawRecorded, Raised, Unlock, bounds
  <2> QED BY <1>1, <1>h, <2>1 DEF Places
<1> QED BY <1>2, <1>3, <1>4, <1>5, <1>6 DEF ServiceStep

LEMMA Scheduler_Inv ==
  ASSUME RuntimeInv, EvaluatePause \/ EvaluateCheckpoint \/ SchedulerStep \/ PauseOver
  PROVE  RuntimeInv'
<1>0. /\ WorkOK /\ EntryOK /\ ThreadOK /\ RestOK /\ entry \in RuntimeEntry
      /\ "sched" \in Services /\ "pauser" \in Services
  BY DEF RuntimeInv, EntryOK, Services
<1>p. entry.pid \in Pids \cup {NoPid} BY <1>0 DEF RuntimeEntry
<1>1. CASE EvaluatePause
  <2>1. /\ proc' = Frozen(entry.pid) /\ Goto("sched", "freezing", entry.pid)
        /\ opLock' = "sched" /\ UNCHANGED <<kind, disk, entry, handle, dead, up, requests, faults>>
    BY <1>1 DEF EvaluatePause, Freeze, registry, bounds
  <2>2. WorkOK' /\ OutputKept BY <1>0, <2>1, Lives_Work DEF Frozen, OutputKept
  <2>3. EntryOK' BY <1>0, <2>1, <2>2, EntryStep
  <2>4. ThreadOK' BY <1>0, <1>p, <2>1, ThreadStep DEF Places
  <2>5. RestOK' BY <1>0, <2>1 DEF RestOK
  <2> QED BY <2>2, <2>3, <2>4, <2>5 DEF RuntimeInv
<1>2. CASE EvaluateCheckpoint
  <2>1. disk' = Discovered /\ UNCHANGED <<kind, proc, entry, handle, thread, opLock, dead, up, requests, faults>>
    BY <1>2 DEF EvaluateCheckpoint, registry, bounds
  <2>2. WorkOK' /\ OutputKept BY <1>0, <2>1, FilesDiscovered
  <2>3. EntryOK' BY <1>0, <2>1, <2>2, EntryStep
  <2>4. ThreadOK' BY <1>0, <2>1, ThreadSame
  <2>5. RestOK' BY <1>0, <2>1 DEF RestOK
  <2> QED BY <2>2, <2>3, <2>4, <2>5 DEF RuntimeInv
<1>3. CASE Reconcile
  <2>1. /\ Goto("sched", "reaping", CleanExit) /\ handle' = NoPid
        /\ UNCHANGED <<Files, entry, opLock, dead, up, requests, faults>>
    BY <1>3 DEF Reconcile, bounds
  <2>2. CleanExit \in Pids \cup {NoPid} BY <1>0 DEF CleanExit, RestOK
  <2>3. WorkOK' /\ OutputKept BY <1>0, <2>1, FilesSame
  <2>4. EntryOK' BY <1>0, <2>1, <2>3, EntryStep
  <2>5. ThreadOK' BY <1>0, <2>1, <2>2, ThreadStep DEF Places
  <2>6. RestOK' BY <1>0, <2>1 DEF RestOK
  <2> QED BY <2>3, <2>4, <2>5, <2>6 DEF RuntimeInv
(* The one step that completes a task: it has a marker, or a clean exit and,
   where the log must tell, a log that tells of success. *)
<1>4. CASE Reaped
  <2> DEFINE marker == disk.marker \/ Synthesized(thread["sched"].pid)
  <2>1. /\ disk' = [disk EXCEPT !.marker = marker]
        /\ entry' = IF marker THEN NowCompleted ELSE NowFailed
        /\ Goto("sched", "idle", NoPid)
        /\ UNCHANGED <<kind, proc, handle, opLock, dead, up, requests, faults>>
    BY <1>4, DoneIsGoto DEF Reaped, bounds
  <2>2. marker \in BOOLEAN BY <1>0 DEF WorkOK, Directory, Synthesized
  <2>3. LogTells /\ marker => disk.output = Units
    BY <1>0 DEF LogTells, Synthesized, WorkOK, Earned
  <2> HIDE DEF marker
  <2>4. /\ disk' \in Directory /\ disk'.output = disk.output
        /\ disk'.marker = marker /\ disk'.log = disk.log
    BY <1>0, <2>1, <2>2 DEF WorkOK, Directory
  <2>5. WorkOK' /\ OutputKept BY <1>0, <2>1, <2>3, <2>4 DEF WorkOK, Earned, OutputKept
  <2>6. EntryOK' /\ entry'.restarts = entry.restarts
    <3>1. CASE marker
      <4>1. entry' = NowCompleted BY <2>1, <3>1
      <4>2. NowCompleted \in RuntimeEntry /\ NowCompleted.restarts = entry.restarts
        BY <1>0 DEF NowCompleted, NoTimes, MarkCompleted, RuntimeEntry, Status, Deadline, NoPid
      <4> QED BY <2>3, <2>4, <3>1, <4>1, <4>2 DEF EntryOK, CompletionIsEarned
    <3>2. CASE ~marker BY <1>0, <2>1, <2>5, <3>2, EntryStep
    <3> QED BY <3>1, <3>2
  <2>7. ThreadOK' BY <1>0, <2>1, <2>6, ThreadStep DEF Places
  <2>8. RestOK' BY <1>0, <2>1 DEF RestOK
  <2> QED BY <2>5, <2>6, <2>7, <2>8 DEF RuntimeInv
<1>5. CASE PauseOver
  <2>1. /\ Goto("pauser", "resuming", entry.pid)
        /\ UNCHANGED <<Files, entry, handle, opLock, dead, up, requests, faults>>
    BY <1>5 DEF PauseOver, registry, bounds
  <2>2. WorkOK' /\ OutputKept BY <1>0, <2>1, FilesSame
  <2>3. EntryOK' BY <1>0, <2>1, <2>2, EntryStep
  <2>4. ThreadOK' BY <1>0, <1>p, <2>1, ThreadStep DEF Places
  <2>5. RestOK' BY <1>0, <2>1 DEF RestOK
  <2> QED BY <2>2, <2>3, <2>4, <2>5 DEF RuntimeInv
<1> QED BY <1>1, <1>2, <1>3, <1>4, <1>5 DEF SchedulerStep

LEMMA Recovery_Inv == ASSUME RuntimeInv, RecoveryStep PROVE RuntimeInv'
<1>0. /\ WorkOK /\ EntryOK /\ ThreadOK /\ RestOK /\ entry \in RuntimeEntry
      /\ "recovery" \in Services
  BY DEF RuntimeInv, EntryOK, Services
<1>1. ASSUME UNCHANGED Files \/ (UNCHANGED <<kind, proc>> /\ disk' = Discovered),
             entry' \in {entry, NowScheduled, NowExhausted},
             \/ thread' = thread
             \/ Goto("recovery", "idle", NoPid)
             \/ Goto("recovery", "validating", NoPid) /\ entry.restarts < MaxRestarts,
             UNCHANGED <<handle, opLock, up, requests, faults>>, dead' \subseteq Loops
      PROVE  RuntimeInv'
  <2>1. WorkOK' /\ OutputKept BY <1>0, <1>1, FilesSame, FilesDiscovered
  <2>2. EntryOK' /\ entry'.restarts = entry.restarts BY <1>0, <1>1, <2>1, EntryStep
  <2>3. ThreadOK' BY <1>0, <1>1, <2>2, ThreadStep, ThreadSame DEF Places
  <2>4. RestOK' BY <1>0, <1>1 DEF RestOK
  <2> QED BY <2>1, <2>2, <2>3, <2>4 DEF RuntimeInv
<1>d. dead \subseteq Loops BY <1>0 DEF RestOK
<1>r. entry.restarts \in 0 .. MaxRestarts BY <1>0 DEF RuntimeEntry
<1>2. CASE GiveUp
  BY <1>1, <1>2, <1>d DEF GiveUp, bounds
<1>3. CASE Schedule
  BY <1>1, <1>3, <1>d DEF Schedule, bounds
<1>4. CASE Validate
  BY <1>1, <1>4, <1>d, <1>r DEF Validate, OutOfAttempts, registry, bounds
<1>5. CASE Invalid
  <2>1. /\ UNCHANGED <<kind, proc>> /\ disk' = Discovered /\ entry' = NowExhausted
        /\ Goto("recovery", "idle", NoPid)
        /\ UNCHANGED <<handle, opLock, dead, up, requests, faults>>
    BY <1>5, DoneIsGoto DEF Invalid, bounds
  <2> QED BY <1>1, <1>d, <2>1
<1>6. CASE BeginAttempt
  <2>1. /\ UNCHANGED <<kind, proc>> /\ disk' = Discovered
        /\ UNCHANGED <<handle, opLock, up, requests, faults>>
        /\ thread["recovery"].at = "validating"
    BY <1>6 DEF BeginAttempt, At, bounds
  <2>2. CASE CanRecover(Here, entry)
    <3>1. /\ entry' = NowRecovering /\ Goto("recovery", "starting", NoPid) /\ dead' = dead
      BY <1>6, <2>2 DEF BeginAttempt
    <3>2. entry.restarts < MaxRestarts BY <1>0, <2>1 DEF ThreadOK, AttemptLeft
    <3>3. entry.restarts + 1 \in 0 .. MaxRestarts BY <1>r, <3>2
    <3>4. NowRecovering \in RuntimeEntry /\ NowRecovering.status = "recovering"
      BY <1>0, <3>3 DEF NowRecovering, BeginRecovery, RuntimeEntry, Status, Deadline
    <3>5. WorkOK' BY <1>0, <2>1, FilesDiscovered
    <3>6. EntryOK' BY <3>1, <3>4 DEF EntryOK, CompletionIsEarned
    <3>7. ThreadOK' BY <1>0, <3>1 DEF Goto, ThreadOK, ThreadType, AttemptLeft, Places
    <3>8. RestOK' BY <1>0, <2>1, <3>1 DEF RestOK
    <3> QED BY <3>5, <3>6, <3>7, <3>8 DEF RuntimeInv
  <2>3. CASE ~CanRecover(Here, entry)
    <3>1. entry' = entry /\ Goto("recovery", "idle", NoPid) /\ dead' = dead \cup {"recovery"}
      BY <1>6, <2>3, DoneIsGoto DEF BeginAttempt
    <3>2. dead' \subseteq Loops BY <1>d, <3>1 DEF Loops, Services
    <3> QED BY <1>1, <2>1, <3>1, <3>2
  <2> QED BY <2>2, <2>3
<1>7. CASE Restart
  <2>1. UNCHANGED <<kind, entry, handle, opLock, dead, up, requests, faults>>
    BY <1>7 DEF Restart, registry, bounds
  <2>2. CASE Spawn("recovery")
    <3>1. RestOK' BY <1>0, <2>1 DEF RestOK
    <3> QED BY <1>0, <2>1, <2>2, <3>1, SpawnStep DEF RuntimeInv
  <2>3. CASE Done("recovery") /\ UNCHANGED <<proc, disk>>
    <3>1. Goto("recovery", "idle", NoPid) /\ UNCHANGED Files BY <2>1, <2>3, DoneIsGoto DEF Files
    <3> QED BY <1>1, <1>d, <2>1, <3>1
  <2> QED BY <1>7, <2>2, <2>3 DEF Restart
<1> QED BY <1>2, <1>3, <1>4, <1>5, <1>6, <1>7 DEF RecoveryStep

LEMMA Environment_Inv ==
  ASSUME RuntimeInv,
         TimePasses \/ Crash \/ Boot \/ \E p \in Procs : ProcessRuns(p) \/ ProcessDies(p)
  PROVE  RuntimeInv'
<1>0. WorkOK /\ EntryOK /\ ThreadOK /\ RestOK /\ entry \in RuntimeEntry
  BY DEF RuntimeInv, EntryOK
<1>f. ASSUME Fault PROVE faults' \in 0 .. MaxFaults /\ requests' = requests
  BY <1>0, <1>f DEF Fault, RestOK
<1>1. CASE TimePasses
  <2>1. UNCHANGED <<Files, thread, handle, opLock, dead, up, requests, faults>>
    BY <1>1 DEF TimePasses, bounds
  <2>2. PICK due \in Deadline, next \in Deadline :
          entry' \in {[entry EXCEPT !.due = due], [entry EXCEPT !.next = next]}
    <3>1. entry.due \in Deadline /\ entry.next \in Deadline BY <1>0 DEF RuntimeEntry
    <3> QED BY <1>1, <3>1 DEF TimePasses, Deadline
  <2>3. /\ entry' \in RuntimeEntry /\ entry'.restarts = entry.restarts
        /\ entry'.status = entry.status
    BY <1>0, <2>2 DEF RuntimeEntry
  <2>4. WorkOK' /\ OutputKept BY <1>0, <2>1, FilesSame
  <2>5. EntryOK' BY <1>0, <2>3, <2>4 DEF EntryOK, CompletionIsEarned, OutputKept
  <2>6. ThreadOK' BY <1>0, <2>1, <2>3, ThreadSame
  <2>7. RestOK' BY <1>0, <2>1 DEF RestOK
  <2> QED BY <2>4, <2>5, <2>6, <2>7 DEF RuntimeInv
<1>2. CASE Crash
  <2>1. /\ UNCHANGED <<Files, entry>> /\ thread' = [s \in Services |-> Idle]
        /\ handle' = NoPid /\ opLock' = Free /\ dead' = {} /\ up' = FALSE
        /\ faults' \in 0 .. MaxFaults /\ requests' = requests
    BY <1>2, <1>f DEF Crash
  <2>2. WorkOK' /\ OutputKept BY <1>0, <2>1, FilesSame
  <2>3. EntryOK' BY <1>0, <2>1, <2>2, EntryStep
  <2>4. ThreadOK' BY <2>1 DEF ThreadOK, ThreadType, AttemptLeft, Idle, Places, Services
  <2>5. RestOK' BY <1>0, <2>1 DEF RestOK
  <2> QED BY <2>2, <2>3, <2>4, <2>5 DEF RuntimeInv
<1>3. CASE Boot
  <2>1. up' = TRUE /\ UNCHANGED <<Files, entry, handle, thread, opLock, dead, requests, faults>>
    BY <1>3 DEF Boot, registry, bounds
  <2>2. WorkOK' /\ OutputKept BY <1>0, <2>1, FilesSame
  <2>3. EntryOK' BY <1>0, <2>1, <2>2, EntryStep
  <2>4. ThreadOK' BY <1>0, <2>1, ThreadSame
  <2>5. RestOK' BY <1>0, <2>1 DEF RestOK
  <2> QED BY <2>2, <2>3, <2>4, <2>5 DEF RuntimeInv
<1>4. ASSUME NEW p \in Procs, ProcessRuns(p) \/ ProcessDies(p) PROVE RuntimeInv'
  <2>1. /\ UNCHANGED <<entry, handle, thread, opLock, dead, up, requests>>
        /\ faults' \in 0 .. MaxFaults
    BY <1>0, <1>4, <1>f DEF ProcessRuns, ProcessDies, registry, bounds, RestOK
  <2>2. WorkOK' /\ OutputKept
    <3>1. CASE ProcessStep(p) BY <1>0, <3>1, ProcessStep_Work
    <3>2. CASE Dies(p)
      <4>1. proc' = Lives(p, "gone") /\ UNCHANGED <<kind, disk>> BY <3>2 DEF Dies, Lives
      <4> QED BY <1>0, <4>1, Lives_Work DEF OutputKept
    <3> QED BY <1>4, <3>1, <3>2 DEF ProcessRuns, ProcessDies
  <2>3. EntryOK' BY <1>0, <2>1, <2>2, EntryStep
  <2>4. ThreadOK' BY <1>0, <2>1, ThreadSame
  <2>5. RestOK' BY <1>0, <2>1 DEF RestOK
  <2> QED BY <2>2, <2>3, <2>4, <2>5 DEF RuntimeInv
<1> QED BY <1>1, <1>2, <1>3, <1>4

LEMMA Next_Inv == RuntimeInv /\ [Next]_vars => RuntimeInv'
<1> SUFFICES ASSUME RuntimeInv, [Next]_vars PROVE RuntimeInv'
  OBVIOUS
<1>1. CASE UNCHANGED vars
  <2>1. UNCHANGED <<Files, entry, handle, thread, opLock, dead, up, requests, faults>>
    BY <1>1 DEF vars, Files, bounds
  <2>2. WorkOK' /\ OutputKept BY <2>1, FilesSame DEF RuntimeInv
  <2>3. EntryOK' /\ ThreadOK' BY <2>1, <2>2, EntryStep, ThreadSame DEF RuntimeInv
  <2>4. RestOK' BY <2>1 DEF RuntimeInv, RestOK
  <2> QED BY <2>2, <2>3, <2>4 DEF RuntimeInv
<1> QED
  BY <1>1, Operator_Inv, Service_Inv, Scheduler_Inv, Recovery_Inv, Environment_Inv DEF Next

LEMMA Spec_Inv == Spec => []RuntimeInv
BY Init_Inv, Next_Inv, PTL DEF Spec

(* Types, and with them that recovery never begins more than
   max_restart_attempts attempts, although it looks at the count and raises it
   in different steps (runtime/recovery.py). *)
THEOREM AttemptsAreBounded == Spec => []TypeOK
<1>1. RuntimeInv => TypeOK BY DEF RuntimeInv, TypeOK, WorkOK, EntryOK, ThreadOK, ThreadType, RestOK
<1> QED BY <1>1, Spec_Inv, PTL

(* A completed task has published the result of all its units, whatever
   processes of earlier runs, signals, crashes and restarts left behind --
   when the log of a native application tells of its success
   (runtime/completion.py, runtime/local_process.py). *)
THEOREM CompletedIsDone ==
  ASSUME LogMustTell \/ "native" \notin Kinds PROVE Spec => []CompletionIsEarned
<1>1. RuntimeInv => CompletionIsEarned BY DEF RuntimeInv, EntryOK, LogTells
<1> QED BY <1>1, Spec_Inv, PTL
===============================================================================
