---------------------------- MODULE TaskRuntime -----------------------------
(***************************************************************************)
(* One node looking after one task of its own: the process runtime         *)
(* (LocalProcessRuntime), the pause service, the recovery service, the     *)
(* completion manager and the scheduler's epochs, with the operator's      *)
(* requests, on the registry entry, the process and the files of the task. *)
(*                                                                         *)
(* Each service is a loop of the daemon's event loop that runs its slow    *)
(* parts in worker threads, so their steps interleave.  An action is the   *)
(* code between two points where another of them may run: an await, a      *)
(* thread call, a wait for a process, or the gap between reading and       *)
(* writing state.json.  Only the scheduler and the operator's pause and    *)
(* resume take the task's operation lock.                                  *)
(*                                                                         *)
(* Moving the task to another node is module Migration.                    *)
(***************************************************************************)
EXTENDS TaskRegistry, Workload

CONSTANTS Here,            \* this node
          MaxRestarts,     \* RecoveryPolicy.max_restart_attempts
          RecoveryEnabled, \* RecoveryPolicy.enabled
          LogMustTell,     \* DendroCompletionSpec has a success_regex
          Requests,        \* what the operator may ask for
          MaxRequests,     \* bound: requests of the operator
          MaxFaults        \* bound: crashes of the daemon and deaths of processes

ASSUME RuntimeAssumption ==
  /\ Here \in Nodes /\ Procs = Pids
  /\ MaxRestarts \in Nat /\ MaxRequests \in Nat /\ MaxFaults \in Nat
  /\ RecoveryEnabled \in BOOLEAN /\ LogMustTell \in BOOLEAN
  /\ Requests \subseteq {"start", "stop", "pause", "resume"}

VARIABLES entry,     \* state.json of the task
          thread,    \* where each service is, and what it has read
          handle,    \* the process this daemon has a Popen object for
          opLock,    \* who holds the task's operation lock
          dead,      \* services whose loop an exception has ended
          up,        \* is the daemon running?
          requests, faults   \* how many, see the bounds

registry == <<entry, handle>>
bounds == <<requests, faults>>
vars == <<kind, proc, disk, entry, thread, handle, opLock, dead, up, bounds>>

Services == {"api", "sched", "pauser", "recovery"}
Loops == Services \ {"api"}
Deadline == {"none", "set", "passed"}   \* a stored time: none, ahead or over
Free == "free"

RuntimeEntry == [owner : Nodes, gen : Nat, status : Status, pid : Pids \cup {NoPid},
                 last : Migrations \cup {NoMigration}, exhausted : BOOLEAN,
                 due : Deadline,               \* resume_wall_at_utc
                 restarts : 0 .. MaxRestarts,  \* recovery_attempts
                 next : Deadline]              \* next_recovery_at_utc
FirstEntry == [owner |-> Here, gen |-> 0, status |-> "stopped", pid |-> NoPid,
               last |-> NoMigration, exhausted |-> FALSE,
               due |-> "none", restarts |-> 0, next |-> "none"]

Idle == [at |-> "idle", pid |-> NoPid]
Places == {"idle", "booting", "stopping", "freezing", "resuming", "thawing",
           "reaping", "validating", "starting"}

TypeOK ==
  /\ kind \in Kinds /\ proc \in [Procs -> Process] /\ disk \in Directory
  /\ entry \in RuntimeEntry
  /\ thread \in [Services -> [at : Places, pid : Pids \cup {NoPid}]]
  /\ handle \in Pids \cup {NoPid} /\ opLock \in Services \cup {Free}
  /\ dead \subseteq Loops /\ up \in BOOLEAN
  /\ requests \in 0 .. MaxRequests /\ faults \in 0 .. MaxFaults

Init ==
  /\ WorkloadInit
  /\ entry = FirstEntry /\ handle = NoPid /\ opLock = Free
  /\ thread = [s \in Services |-> Idle]
  /\ dead = {} /\ up = TRUE /\ requests = 0 /\ faults = 0

(***************************************************************************)
(* The registry's transitions, with the deadlines they clear.              *)
(***************************************************************************)
NoTimes(e) == [e EXCEPT !.due = "none", !.next = "none"]
NowRunning(p) == NoTimes(MarkRunning(entry, p))
NowPaused_NoTime == [entry EXCEPT !.status = "paused"]
NowPaused == [entry EXCEPT !.status = "paused", !.due = "set"]
NowResumed == [entry EXCEPT !.status = "running", !.due = "none"]
NowStopped == IF entry.status = "completed" THEN entry
              ELSE [MarkStopped(entry) EXCEPT !.due = "none"]
NowFailed == NoTimes(MarkFailed(entry))
NowScheduled == IF entry.status = "failed" THEN [entry EXCEPT !.next = "set"] ELSE entry
NowRecovering == [BeginRecovery(entry) EXCEPT !.restarts = @ + 1, !.next = "none"]
NowExhausted == [MarkExhausted(entry) EXCEPT !.next = "none"]
NowCompleted == NoTimes(MarkCompleted(entry))

(***************************************************************************)
(* Threads.                                                                *)
(***************************************************************************)
At(s, place) == up /\ thread[s].at = place
Ready(s) == At(s, "idle") /\ s \notin dead
Goto(s, place, p) == thread' = [thread EXCEPT ![s] = [at |-> place, pid |-> p]]
Done(s) == thread' = [thread EXCEPT ![s] = Idle]
Files == <<kind, proc, disk>>
Fault == faults < MaxFaults /\ faults' = faults + 1 /\ UNCHANGED requests
Asked(what) == /\ Ready("api") /\ what \in Requests /\ requests < MaxRequests
               /\ requests' = requests + 1 /\ UNCHANGED faults

(***************************************************************************)
(* start: refused for a completed task and for one whose recorded process  *)
(* lives.  The readiness and completion markers of earlier runs go before  *)
(* the process is spawned.                                                 *)
(***************************************************************************)
\* A child that exited and has not been waited for still answers to signals.
SeemsAlive(p) == Alive(p) \/ (p # NoPid /\ p = handle)
Startable == /\ CanRun(Here, entry)
             /\ ~(entry.status \in {"running", "paused"} /\ SeemsAlive(entry.pid))

Cleared == [disk EXCEPT !.ready = FALSE, !.marker = FALSE]

Spawn(s) ==
  \E p \in Procs :
    /\ proc[p].life = "unborn"
    /\ \A q \in Procs : q < p => proc[q].life # "unborn"
    /\ proc' = [proc EXCEPT ![p].life = "live"]
    /\ disk' = Cleared
    /\ Goto(s, "booting", p)

\* _wait_for_readiness; a readiness marker is needed only where one is defined.
Booted(s) ==
  LET p == thread[s].pid IN
  /\ At(s, "booting") /\ Alive(p) /\ (kind = "parts" => disk.ready)
  /\ IF CanRun(Here, entry) THEN entry' = NowRunning(p) ELSE UNCHANGED entry
  /\ handle' = p /\ Done(s)
  /\ UNCHANGED <<Files, opLock, dead, up, bounds>>

BootFailed(s) ==
  LET p == thread[s].pid IN
  /\ At(s, "booting")
  /\ proc' = Killed(p)
  /\ entry' = NowFailed /\ Done(s)
  /\ UNCHANGED <<kind, disk, handle, opLock, dead, up, bounds>>

ApiStart ==
  /\ Asked("start") /\ Startable /\ Spawn("api")
  /\ UNCHANGED <<kind, registry, opLock, dead, up>>

(***************************************************************************)
(* stop: a paused process is continued first, then asked, then killed.     *)
(***************************************************************************)
ApiStop ==
  LET p == entry.pid IN
  /\ Asked("stop") /\ UNCHANGED <<kind, disk, opLock, dead, up>>
  /\ IF p = NoPid \/ ~Alive(p)
     THEN /\ entry' = NowStopped /\ handle' = IF p = NoPid THEN handle ELSE NoPid
          /\ UNCHANGED <<proc, thread>>
     ELSE /\ proc' = [proc EXCEPT ![p].term = TRUE,
                                  ![p].life = IF entry.status = "paused" THEN "live" ELSE @]
          /\ Goto("api", "stopping", p) /\ UNCHANGED registry

StopTimesOut ==
  LET p == thread["api"].pid IN
  /\ At("api", "stopping") /\ Alive(p)
  /\ proc' = Killed(p)
  /\ UNCHANGED <<kind, disk, registry, thread, opLock, dead, up, bounds>>

Stopped ==
  /\ At("api", "stopping") /\ ~Alive(thread["api"].pid)
  /\ entry' = NowStopped /\ handle' = NoPid /\ Done("api")
  /\ UNCHANGED <<Files, opLock, dead, up, bounds>>

(***************************************************************************)
(* pause: freeze the process group, then write PAUSED, which is refused if *)
(* the task is no longer running.  The scheduler pauses under a decision,  *)
(* the operator by request; both hold the operation lock meanwhile.        *)
(***************************************************************************)
Freeze(s) ==
  /\ opLock = Free /\ entry.status = "running" /\ SeemsAlive(entry.pid)
  /\ proc' = Frozen(entry.pid) /\ opLock' = s
  /\ Goto(s, "freezing", entry.pid)
  /\ UNCHANGED <<kind, disk, registry, dead, up>>

ApiPause == Asked("pause") /\ Freeze("api")
EvaluatePause == Ready("sched") /\ Freeze("sched") /\ UNCHANGED bounds

\* Each evaluation looks for the last checkpoint, whatever it decides.
EvaluateCheckpoint ==
  /\ Ready("sched") /\ opLock = Free /\ entry.status = "running"
  /\ disk' = Discovered /\ disk' # disk
  /\ UNCHANGED <<kind, proc, registry, thread, opLock, dead, up, bounds>>

FreezeRecorded(s) ==
  /\ At(s, "freezing")
  /\ entry' = IF entry.status = "running" /\ entry.pid # NoPid THEN NowPaused ELSE entry
  /\ opLock' = Free /\ Done(s)
  /\ UNCHANGED <<Files, handle, dead, up, bounds>>

(***************************************************************************)
(* resume: by request, or by the pause service when the time is over.  The *)
(* accounting is settled in between, and the service, which takes no lock, *)
(* records a failure when resume raises.                                   *)
(***************************************************************************)
ApiResume ==
  /\ Asked("resume") /\ opLock = Free /\ entry.status = "paused"
  /\ opLock' = "api" /\ Goto("api", "resuming", entry.pid)
  /\ UNCHANGED <<Files, registry, dead, up>>

IsDue == entry.due = "passed"
PauseOver ==
  /\ Ready("pauser") /\ entry.owner = Here /\ entry.status = "paused" /\ IsDue
  /\ Goto("pauser", "resuming", entry.pid)
  /\ UNCHANGED <<Files, registry, opLock, dead, up, bounds>>

Unlock(s) == opLock' = IF opLock = s THEN Free ELSE opLock
Raised(s) == IF s = "pauser" THEN NowFailed ELSE entry

Thaw(s) ==
  LET p == entry.pid IN
  /\ At(s, "resuming") /\ UNCHANGED <<kind, disk, handle, dead, up, bounds>>
  /\ CASE entry.status = "paused" /\ SeemsAlive(p) ->
            /\ proc' = Thawed(p) /\ Goto(s, "thawing", p) /\ UNCHANGED <<entry, opLock>>
       [] entry.status = "paused" /\ ~SeemsAlive(p) ->
            entry' = NowFailed /\ Done(s) /\ Unlock(s) /\ UNCHANGED proc
       [] entry.status = "running" ->
            Done(s) /\ Unlock(s) /\ UNCHANGED <<entry, proc>>
       [] OTHER ->
            entry' = Raised(s) /\ Done(s) /\ Unlock(s) /\ UNCHANGED proc

ThawRecorded(s) ==
  /\ At(s, "thawing")
  /\ entry' = IF entry.status = "paused" /\ entry.pid # NoPid THEN NowResumed ELSE Raised(s)
  /\ Done(s) /\ Unlock(s)
  /\ UNCHANGED <<Files, handle, dead, up, bounds>>

(***************************************************************************)
(* The scheduler's epoch begins with reconcile: a recorded process that is *)
(* gone has completed if there is a marker, and failed otherwise.  For a   *)
(* native application the marker is made when it exited with code 0, which *)
(* only the daemon that started it can know, and its log tells of success. *)
(***************************************************************************)
Gone_Child == handle # NoPid /\ ~Alive(handle)
Gone == ~Alive(entry.pid) \/ (handle # NoPid /\ ~Alive(handle))
CleanExit == IF handle # NoPid /\ proc[handle].clean THEN handle ELSE NoPid

Reconcile ==
  /\ Ready("sched") /\ entry.owner = Here /\ entry.status \in {"running", "paused"}
  /\ Gone
  /\ Goto("sched", "reaping", CleanExit) /\ handle' = NoPid
  /\ UNCHANGED <<Files, entry, opLock, dead, up, bounds>>

Synthesized_AnyLog(exited) == kind = "native" /\ exited # NoPid
Synthesized(exited) == kind = "native" /\ exited # NoPid /\ (LogMustTell => disk.log)

Reaped ==
  /\ At("sched", "reaping") /\ Done("sched")
  /\ LET marker == disk.marker \/ Synthesized(thread["sched"].pid)
     IN /\ disk' = [disk EXCEPT !.marker = marker]
        /\ entry' = IF marker THEN NowCompleted ELSE NowFailed
  /\ UNCHANGED <<kind, proc, handle, opLock, dead, up, bounds>>

(***************************************************************************)
(* Recovery of a failed task: schedule it, wait, validate the checkpoint,  *)
(* count the attempt, start.  begin_recovery raises when the task is no    *)
(* longer failed, and nothing catches that: the loop ends.                 *)
(***************************************************************************)
Failed == entry.owner = Here /\ entry.status = "failed" /\ ~entry.exhausted
OutOfAttempts == entry.restarts >= MaxRestarts

GiveUp ==
  /\ Ready("recovery") /\ Failed /\ (~RecoveryEnabled \/ OutOfAttempts)
  /\ entry' = NowExhausted
  /\ UNCHANGED <<Files, thread, handle, opLock, dead, up, bounds>>

Schedule ==
  /\ Ready("recovery") /\ Failed /\ RecoveryEnabled /\ ~OutOfAttempts /\ entry.next = "none"
  /\ entry' = NowScheduled
  /\ UNCHANGED <<Files, thread, handle, opLock, dead, up, bounds>>

Validate ==
  /\ Ready("recovery") /\ Failed /\ RecoveryEnabled /\ ~OutOfAttempts /\ entry.next = "passed"
  /\ Goto("recovery", "validating", NoPid)
  /\ UNCHANGED <<Files, registry, opLock, dead, up, bounds>>

Invalid_TryAgain ==
  /\ At("recovery", "validating") /\ FALSE \in ValidAnswers
  /\ disk' = Discovered /\ Done("recovery")
  /\ UNCHANGED <<kind, proc, entry, handle, opLock, dead, up, bounds>>
Invalid ==
  /\ At("recovery", "validating") /\ FALSE \in ValidAnswers
  /\ disk' = Discovered /\ entry' = NowExhausted /\ Done("recovery")
  /\ UNCHANGED <<kind, proc, handle, opLock, dead, up, bounds>>

BeginAttempt ==
  /\ At("recovery", "validating") /\ TRUE \in ValidAnswers
  /\ disk' = Discovered
  /\ IF CanRecover(Here, entry)
     THEN entry' = NowRecovering /\ Goto("recovery", "starting", NoPid) /\ UNCHANGED dead
     ELSE Done("recovery") /\ dead' = dead \cup {"recovery"} /\ UNCHANGED entry
  /\ UNCHANGED <<kind, proc, handle, opLock, up, bounds>>

\* start may raise before it spawns anything: an artifact is missing, the node
\* is not compatible, or the command cannot be executed.
Restart ==
  /\ At("recovery", "starting")
  /\ \/ Startable /\ Spawn("recovery")
     \/ Done("recovery") /\ UNCHANGED <<proc, disk>>
  /\ UNCHANGED <<kind, registry, opLock, dead, up, bounds>>

(***************************************************************************)
(* The environment.                                                        *)
(***************************************************************************)
TimePasses ==
  /\ entry' \in {[entry EXCEPT !.due = IF @ = "set" THEN "passed" ELSE @],
                 [entry EXCEPT !.next = IF @ = "set" THEN "passed" ELSE @]}
  /\ entry' # entry
  /\ UNCHANGED <<Files, thread, handle, opLock, dead, up, bounds>>

ProcessRuns(p) ==
  ProcessStep(p) /\ UNCHANGED <<registry, thread, opLock, dead, up, bounds>>

ProcessDies(p) ==
  /\ Fault /\ Dies(p)
  /\ UNCHANGED <<registry, thread, opLock, dead, up>>

\* The daemon dies with everything it has in memory; the processes live on.
Crash ==
  /\ up /\ Fault
  /\ up' = FALSE /\ handle' = NoPid /\ opLock' = Free /\ dead' = {}
  /\ thread' = [s \in Services |-> Idle]
  /\ UNCHANGED <<Files, entry>>

Boot ==
  /\ ~up /\ up' = TRUE
  /\ UNCHANGED <<Files, registry, thread, opLock, dead, bounds>>

Api == ApiStart \/ ApiStop \/ ApiPause \/ ApiResume
ServiceStep(s) ==
  \/ Booted(s) \/ BootFailed(s) \/ FreezeRecorded(s) \/ Thaw(s) \/ ThawRecorded(s)
SchedulerStep == Reconcile \/ Reaped
RecoveryStep == GiveUp \/ Schedule \/ Validate \/ Invalid \/ BeginAttempt \/ Restart

Next ==
  \/ Api \/ StopTimesOut \/ Stopped
  \/ \E s \in Services : ServiceStep(s)
  \/ EvaluatePause \/ EvaluateCheckpoint \/ SchedulerStep \/ PauseOver \/ RecoveryStep
  \/ TimePasses \/ Crash \/ Boot
  \/ \E p \in Procs : ProcessRuns(p) \/ ProcessDies(p)

Spec == Init /\ [][Next]_vars

(***************************************************************************)
(* Every loop scans again and again, a thread that was called returns, a   *)
(* stopping process is killed in the end, stored times come, and the       *)
(* daemon is restarted.  Nothing is assumed of the operator, of the        *)
(* scheduler's choice to pause, nor of what processes do.                  *)
(***************************************************************************)
Fairness ==
  /\ \A s \in Services : WF_vars(ServiceStep(s))
  /\ WF_vars(StopTimesOut) /\ WF_vars(Stopped)
  /\ SF_vars(SchedulerStep) /\ WF_vars(PauseOver) /\ WF_vars(RecoveryStep)
  /\ WF_vars(TimePasses) /\ WF_vars(Boot)

FairSpec == Spec /\ Fairness

(***************************************************************************)
(* Properties.                                                             *)
(***************************************************************************)
\* A completed task has published the result of all its units: no crash, request to
\* stop, restart or marker of an earlier run makes half-done work count as success
\* (completion marker, clean exit and log; docs/milestones/
\* task-lifecycle-recovery.md, invariant 4).
CompletionIsEarned == entry.status = "completed" => disk.output = Units

\* A pause ends, even when the daemon was down at its time or the process died while
\* it was frozen: the pause service resumes it, or records that it cannot.
PauseEnds == entry.status = "paused" ~> entry.status # "paused"

\* A failed task is not forgotten: recovery begins an attempt or gives it up for good.
\* The one way out is the exception of begin_recovery that ends the recovery loop.
FailureIsHandled == Failed ~> (~Failed \/ "recovery" \in dead)

\* A process that is gone while its task is recorded as running is noticed in the
\* end, also by a daemon that did not start it.
DeathIsNoticed == (entry.status = "running" /\ ~Alive(entry.pid))
                    ~> (entry.status # "running" \/ Alive(entry.pid))
=============================================================================
