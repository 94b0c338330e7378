------------------------------ MODULE Accounting ------------------------------
(***************************************************************************)
(* The accounting of a task (runtime/accounting.py, runtime/progress.py    *)
(* and the registry's entry of the task): what is charged for running it   *)
(* and how fast it is believed to work, while the accounting loop, the     *)
(* operations that settle on their own, migrations and the ownership       *)
(* anti-entropy all write to the same entry.                               *)
(*                                                                         *)
(* The registry's lock is held while an entry is read and while it is      *)
(* written, and not in between (persistent_registry.py): every update here *)
(* is a Load of the whole entry and, later, a Save of it, between which    *)
(* the other threads of the node load and save, so that updates are lost.  *)
(*                                                                         *)
(* Time is in ticks of one clock.  Prices, power and carbon intensity      *)
(* multiply what is charged; they, the time paused and the cost of         *)
(* transfers, which nothing here reads, are left out.  At most one process *)
(* of the task is in memory, and a source waits until its destination has  *)
(* answered: a second process, timeouts and crashes are the subject of     *)
(* Migration and TaskRuntime.                                              *)
(***************************************************************************)
EXTENDS Integers, Sequences, FiniteSets

CONSTANTS AccountingNodes,
          Workers,      \* the threads of a node
          First,        \* the initial owner
          MaxTime,      \* bound: ticks
          MaxSpeed,     \* the most units of work that a tick can bring
          MaxMoves,     \* bound: generations
          MaxAtOnce,    \* bound: threads that work on the task at a time
          MaxChanges    \* bound: operations that begin and deaths of the process

ASSUME AccountingAssumption ==
    First \in AccountingNodes /\ MaxTime \in Nat /\ MaxSpeed \in Nat \ {0} /\ MaxMoves \in Nat
    /\ Workers \subseteq Nat /\ MaxAtOnce \in Nat /\ MaxChanges \in Nat

VARIABLES now,      \* ticks
          record,   \* [AccountingNodes -> the node's entry of the task, state.json]
          process,  \* [node, pid, does]  the process that was started last
          done,     \* units that it has done
          file,     \* [AccountingNodes -> [units, at]]  progress.json
          ahead,    \* [Threads -> what the operation of the thread has still to do]
          call,     \* [Threads -> the local variables of the operation]
          request,  \* [AccountingNodes -> the activation that the node asks for]
          frozen,   \* the ticks in which the process was frozen
          changes   \* for the bound

accountVars == <<now, record, process, done, file, ahead, call, request, frozen, changes>>
outside == <<now, file, frozen>>

Threads == AccountingNodes \X Workers
Never == -1
NoProcess == 0
Scale == 12     \* rates are in 12ths of a unit

NewEntry == [owner |-> First, gen |-> 0, status |-> "remote", pid |-> NoProcess, ran |-> 0,
             last |-> Never, units |-> 0, at |-> Never, rate |-> 0]
NothingNew == [units |-> 0, at |-> Never, rate |-> 0]

(* The stages of what is first in ahead: "next" is not begun, "found" has what to
   charge, "ready" is about to load and "holds" about to save.  `other` is the
   entry of before a migration, or what a peer says. *)
NoCall == [stage |-> "next", role |-> "alone", from |-> First, wall |-> 0, run |-> 0,
           progress |-> NothingNew, pid |-> NoProcess, copy |-> NewEntry, other |-> NewEntry]
NoRequest == [answer |-> "none", to |-> First, snapshot |-> NewEntry]

AccountTypeOK ==
    /\ now \in 0 .. MaxTime
    /\ \A n \in AccountingNodes :
         /\ record[n].owner \in AccountingNodes /\ record[n].gen \in Nat
         /\ record[n].status \in {"stopped", "running", "paused", "failed", "migrating", "remote"}
         /\ record[n].last \in Never .. MaxTime /\ record[n].at \in Never .. MaxTime
         /\ record[n].ran \in Nat /\ record[n].units \in Nat /\ record[n].rate \in Nat
    /\ process.node \in AccountingNodes /\ process.does \in {"runs", "frozen", "gone"}
    /\ \A t \in Threads : call[t].stage \in {"next", "found", "ready", "holds"}

AccountInit ==
    /\ now = 0
    /\ record = [n \in AccountingNodes |->
                   [NewEntry EXCEPT !.status = IF n = First THEN "stopped" ELSE "remote"]]
    /\ process = [node |-> First, pid |-> NoProcess, does |-> "gone"]
    /\ done = 0
    /\ file = [n \in AccountingNodes |-> [units |-> 0, at |-> Never]]
    /\ ahead = [t \in Threads |-> <<>>] /\ call = [t \in Threads |-> NoCall]
    /\ request = [n \in AccountingNodes |-> NoRequest]
    /\ frozen = {} /\ changes = 0

Owner(n) == record[n].owner = n
Alive(n) == process.does # "gone" /\ process.node = n /\ process.pid = record[n].pid

-------------------------------------------------------------------------------
(* The operations, and what each does one after the other.  A settlement,
   "charge", takes the time when it begins; the accounting loop takes it once
   for all tasks, so that any time passes before the thread goes on.  Threads
   are all alike: the idle one with the lowest number takes what comes. *)

Begins(t, role, from, list, other) ==
    /\ ahead[t] = <<>> /\ changes < MaxChanges
    /\ Cardinality({u \in Threads : ahead[u] # <<>>}) < MaxAtOnce
    /\ \A u \in Threads : u[1] = t[1] /\ u[2] < t[2] => ahead[u] # <<>>
    /\ ahead' = [ahead EXCEPT ![t] = list]
    /\ call' = [call EXCEPT ![t] = [NoCall EXCEPT !.role = role, !.from = from, !.other = other,
                                                  !.wall = IF Head(list) = "charge" THEN now ELSE 0]]
    /\ changes' = changes + 1
    /\ UNCHANGED <<outside, record, process, done>>

Operates(t, list) == Begins(t, "alone", t[1], list, NewEntry) /\ UNCHANGED request

(* The scheduler's lock of the task, for pauses and migrations.  The pause loop,
   the accounting loop and whoever stops or starts the task do not take it. *)
OperationLocked(n) == \E t \in Threads : t[1] = n /\ call[t].role \in {"pauser", "source"}

(* Of the scheduler before it evaluates the task, and of the accounting loop. *)
Settle(t) ==
    Owner(t[1]) /\ record[t[1]].status \in {"running", "paused"} /\ Operates(t, <<"charge">>)

Pause(t) ==
    /\ Owner(t[1]) /\ record[t[1]].status = "running" /\ ~OperationLocked(t[1])
    /\ Begins(t, "pauser", t[1], <<"charge", "paused">>, NewEntry) /\ UNCHANGED request
Resume(t) == Owner(t[1]) /\ record[t[1]].status = "paused" /\ Operates(t, <<"charge", "resumed">>)
Stop(t) == Operates(t, <<"charge", "stopped">>)
Start(t) == Operates(t, <<"running">>)

(* reconcile of the runtime, by what it saw in its snapshot of the registry *)
ReconcileProcess(t) ==
    /\ Owner(t[1]) /\ record[t[1]].status \in {"running", "paused"} /\ ~Alive(t[1])
    /\ Operates(t, <<"failed">>)

(* The ownership anti-entropy applies what a peer said when it was asked. *)
Hear(t, m) == m # t[1] /\ Begins(t, "alone", t[1], <<"heard">>, record[m]) /\ UNCHANGED request

Migrate(t, m) ==
    LET n == t[1]
    IN  /\ m # n /\ Owner(n) /\ record[n].gen < MaxMoves /\ ~OperationLocked(n)
        /\ Begins(t, "source", m, <<"charge", "migrating", "stopped", "moved", "send", "wait">>, record[n])
        /\ request' = [request EXCEPT ![n] = [NoRequest EXCEPT !.to = m]]

(* activate_incoming *)
ActivateIncoming(t, n) ==
    /\ request[n].answer = "sent" /\ request[n].to = t[1]
    /\ Begins(t, "destination", n, <<"claimed", "running", "activated">>, record[t[1]])
    /\ request' = [request EXCEPT ![n].answer = "taken"]

-------------------------------------------------------------------------------
(* What an operation does. *)

Doing(t, what, stage) == ahead[t] # <<>> /\ Head(ahead[t]) = what /\ call[t].stage = stage

(* The operation goes on with another list of things to do ... *)
Continues(t, list) ==
    /\ ahead' = [ahead EXCEPT ![t] = list]
    /\ call' = [call EXCEPT ![t] =
           IF list = <<>> THEN NoCall
           ELSE [NoCall EXCEPT !.role = call[t].role, !.from = call[t].from, !.other = call[t].other]]

(* ... or with the first of them. *)
Reaches(t, c) == call' = [call EXCEPT ![t] = c] /\ UNCHANGED ahead

(* It raises: an activation rolls back, a migration restores the task, recovery,
   the pause loop and the restart after a migration mark it failed, and the rest
   is told to whoever asked. *)
Raised(t) ==
    CASE call[t].role = "destination" -> {<<"reset", "refused">>}
      [] call[t].role = "source" /\ Head(ahead[t]) = "migrating" -> {<<"restored">>}
      [] Head(ahead[t]) = "paused" -> {<<>>}
      [] OTHER -> {<<>>, <<"failed">>}

Elapsed(r, f) == f.at - r.at

(* _progress_update: a file that is not newer is ignored, and the rate is an
   average of what was observed (progress_ema_alpha = 1/2).
   Mutant: the units are set against the time of the last of them. *)
Observed_All(r, f) == (Scale * f.units) \div Elapsed(r, f)
Observed(r, f) == (Scale * (f.units - r.units)) \div Elapsed(r, f)
Rate(r, f) ==
    IF r.at = Never \/ f.units <= r.units \/ Elapsed(r, f) <= 0 THEN r.rate
    ELSE IF r.rate = 0 THEN Observed(r, f) ELSE (Observed(r, f) + r.rate) \div 2
Progress(r, f) ==
    IF f.at = Never \/ (r.at # Never /\ f.at <= r.at) THEN NothingNew
    ELSE [units |-> f.units, at |-> f.at, rate |-> Rate(r, f)]

(* settle_task: how long the task ran since it was settled *)
RunTime(n, wall) ==
    IF record[n].status = "running" /\ Alive(n) /\ record[n].last # Never /\ wall > record[n].last
    THEN wall - record[n].last ELSE 0

(* It reads the entry ... *)
Reads(t) ==
    /\ Doing(t, "charge", "next")
    /\ IF Owner(t[1])
       THEN Reaches(t, [call[t] EXCEPT !.stage = "found", !.run = RunTime(t[1], call[t].wall)])
       ELSE Continues(t, Tail(ahead[t]))
    /\ UNCHANGED <<outside, record, process, done, request, changes>>

(* ... and once more, with the progress file. *)
Observes(t) ==
    /\ Doing(t, "charge", "found")
    /\ Reaches(t, [call[t] EXCEPT !.stage = "ready", !.progress = Progress(record[t[1]], file[t[1]])])
    /\ UNCHANGED <<outside, record, process, done, request, changes>>

Ready(t) == Reaches(t, [call[t] EXCEPT !.stage = "ready"])
Does(what) == process' = [process EXCEPT !.does = what]

(* The signals, before the registry is told. *)
Freeze(t) ==
    /\ Doing(t, "paused", "next")
    /\ IF Owner(t[1]) /\ record[t[1]].status = "running" /\ Alive(t[1])
       THEN Ready(t) /\ Does("frozen")
       ELSE Continues(t, <<>>) /\ UNCHANGED process
    /\ UNCHANGED <<outside, record, done, request, changes>>

Thaw(t) ==
    LET r == record[t[1]]  paused == Owner(t[1]) /\ r.status = "paused" /\ r.pid # NoProcess
        running == Owner(t[1]) /\ r.status = "running"
    IN  /\ Doing(t, "resumed", "next")
        /\ IF paused /\ Alive(t[1]) THEN Ready(t) /\ Does("runs")
           ELSE /\ \E list \in IF paused THEN {<<"failed">>} ELSE IF running THEN {<<>>} ELSE Raised(t) :
                     Continues(t, list)
                /\ UNCHANGED process
        /\ UNCHANGED <<outside, record, done, request, changes>>

Kill(t) ==
    /\ Doing(t, "stopped", "next")
    /\ Ready(t)
    /\ IF Alive(t[1]) THEN Does("gone") ELSE UNCHANGED process
    /\ UNCHANGED <<outside, record, done, request, changes>>

(* A launch from a checkpoint, which may be of any age. *)
Launch(t, units) ==
    /\ Doing(t, "running", "next")
    /\ Owner(t[1]) /\ process.does = "gone" /\ units <= done
    /\ process' = [node |-> t[1], pid |-> process.pid + 1, does |-> "runs"]
    /\ done' = units
    /\ Reaches(t, [call[t] EXCEPT !.stage = "ready", !.pid = process.pid + 1])
    /\ UNCHANGED <<outside, record, request, changes>>

(* The task runs already, or it cannot be started. *)
NoLaunch(t) ==
    /\ Doing(t, "running", "next")
    /\ IF Owner(t[1]) /\ record[t[1]].status = "running" /\ Alive(t[1])
       THEN Continues(t, Tail(ahead[t]))
       ELSE \E list \in Raised(t) : Continues(t, list)
    /\ UNCHANGED <<outside, record, process, done, request, changes>>

-------------------------------------------------------------------------------
(* The registry. *)

Signalled == {"paused", "resumed", "stopped", "running"}
Plain == {"failed", "heard", "migrating", "moved", "claimed", "remote", "restored"}

(* The checks of mark_paused, mark_resumed, mark_running, mark_migrating,
   claim_local and apply_ownership. *)
Allowed(t, r) ==
    LET what == Head(ahead[t])
    IN  /\ what \in {"paused", "resumed", "running", "migrating"} => r.owner = t[1]
        /\ what = "paused" => r.status = "running" /\ r.pid # NoProcess
        /\ what = "resumed" => r.status = "paused" /\ r.pid # NoProcess
        /\ what = "claimed" => request[call[t].from].snapshot.gen >= r.gen
        /\ what = "heard" => \/ call[t].other.gen > r.gen
                             \/ call[t].other.gen = r.gen /\ call[t].other.owner = r.owner

(* get_state of record_accounting, of a mark_*, claim_local or apply_ownership *)
Load(t) ==
    /\ \/ \E what \in Signalled \cup {"charge"} : Doing(t, what, "ready")
       \/ \E what \in Plain : Doing(t, what, "next")
    /\ IF Allowed(t, record[t[1]])
       THEN Reaches(t, [call[t] EXCEPT !.stage = "holds", !.copy = record[t[1]]])
       ELSE \E list \in Raised(t) : Continues(t, list)
    /\ UNCHANGED <<outside, record, process, done, request, changes>>

(* record_accounting *)
Charged(r, c) ==
    LET p == IF c.progress.at = Never THEN r
             ELSE [r EXCEPT !.units = c.progress.units, !.at = c.progress.at,
                            !.rate = IF c.progress.rate = 0 THEN @ ELSE c.progress.rate]
    IN  [p EXCEPT !.ran = @ + c.run, !.last = c.wall]

(* TaskAccountingSnapshot: all of it replaces what the entry has. *)
WithSnapshot(r, s) ==
    [r EXCEPT !.ran = s.ran, !.last = s.last, !.units = s.units, !.at = s.at, !.rate = s.rate]

Without(r, status) == [r EXCEPT !.status = status, !.pid = NoProcess]
WithClaim(r, owner, gen, status) == [Without(r, status) EXCEPT !.owner = owner, !.gen = gen]

(* What the operation makes of the entry that it loaded: record_accounting, and
   mark_paused, mark_resumed, mark_running, mark_stopped, mark_failed,
   mark_migrating, record_migration, claim_local, mark_remote,
   restore_local_after_failure and apply_ownership. *)
Update(t) ==
    LET n == t[1]  c == call[t]  r == c.copy  what == Head(ahead[t])
    IN  CASE what = "charge" -> Charged(r, c)
          [] what = "paused" -> [r EXCEPT !.status = "paused", !.last = now]
          [] what = "resumed" -> [r EXCEPT !.status = "running", !.last = now]
          [] what = "running" -> [r EXCEPT !.status = "running", !.last = now, !.pid = c.pid]
          [] what = "stopped" -> Without(r, "stopped")
          [] what = "failed" -> Without(r, "failed")
          [] what = "migrating" -> [r EXCEPT !.status = "migrating"]
          [] what = "moved" -> [r EXCEPT !.last = now]
          [] what = "claimed" ->
               LET s == request[c.from].snapshot
               IN  WithSnapshot(WithClaim(r, n, s.gen, "stopped"), s)
          [] what = "remote" -> WithClaim(r, c.from, c.other.gen + 1, "remote")
          [] what = "restored" -> WithClaim(r, n, c.other.gen, "stopped")
          [] what = "heard" /\ c.other.owner # n ->
               WithSnapshot(WithClaim(r, c.other.owner, c.other.gen, "remote"), c.other)
          [] OTHER -> WithSnapshot([r EXCEPT !.owner = c.other.owner, !.gen = c.other.gen], c.other)

Put(n, r) == record' = [record EXCEPT ![n] = r]

(* set_state: the whole entry, whatever was saved since it was loaded *)
Save(t) ==
    /\ ahead[t] # <<>> /\ call[t].stage = "holds"
    /\ Put(t[1], Update(t))
    /\ Continues(t, Tail(ahead[t]))
    /\ UNCHANGED <<outside, process, done, request, changes>>

(* A rollback writes the entry of before the migration. *)
Reset(t) ==
    /\ Doing(t, "reset", "next")
    /\ Put(t[1], IF call[t].role = "source" THEN Without(call[t].other, "stopped") ELSE call[t].other)
    /\ Continues(t, Tail(ahead[t]))
    /\ UNCHANGED <<outside, process, done, request, changes>>

-------------------------------------------------------------------------------
(* The migration. *)

(* The checkpoint is not valid, or the transfer fails. *)
TransferFails(t) ==
    /\ Doing(t, "moved", "next")
    /\ Continues(t, <<"restored", "running">>)
    /\ UNCHANGED <<outside, record, process, done, request, changes>>

(* The activation request, with the accounts as they are by now *)
SendActivation(t) ==
    /\ Doing(t, "send", "next")
    /\ request' = [request EXCEPT ![t[1]] =
           [@ EXCEPT !.answer = "sent", !.snapshot = [record[t[1]] EXCEPT !.gen = call[t].other.gen + 1]]]
    /\ Continues(t, Tail(ahead[t]))
    /\ UNCHANGED <<outside, record, process, done, changes>>

(* The destination answers; consuming the reservation may fail after the start. *)
AnswerActivation(t) ==
    /\ \/ /\ Doing(t, "activated", "next") \/ Doing(t, "refused", "next")
          /\ request' = [request EXCEPT ![call[t].from] = [NoRequest EXCEPT !.answer = Head(ahead[t])]]
          /\ Continues(t, Tail(ahead[t]))
       \/ /\ Doing(t, "activated", "next")
          /\ Continues(t, <<"stopped", "reset", "refused">>) /\ UNCHANGED request
    /\ UNCHANGED <<outside, record, process, done, changes>>

(* The source hears of the outcome, or that there was no activation. *)
HearOutcome(t) ==
    /\ Doing(t, "wait", "next")
    /\ \/ /\ request[t[1]].answer = "activated"
          /\ Continues(t, <<"remote">>)
       \/ /\ request[t[1]].answer \in {"sent", "refused"}
          /\ \E list \in {<<"restored", "running">>, <<"reset", "running">>} : Continues(t, list)
    /\ request' = [request EXCEPT ![t[1]] = NoRequest]
    /\ UNCHANGED <<outside, record, process, done, changes>>

-------------------------------------------------------------------------------
(* The task. *)

Die ==
    /\ process.does # "gone" /\ Does("gone")
    /\ changes < MaxChanges /\ changes' = changes + 1
    /\ UNCHANGED <<outside, record, done, ahead, call, request>>

(* A tick: the process does some work and says so. *)
Tick(units) ==
    /\ now < MaxTime /\ now' = now + 1
    /\ frozen' = IF process.does = "frozen" THEN frozen \cup {now'} ELSE frozen
    /\ IF process.does = "runs"
       THEN /\ done' = done + units
            /\ file' = [file EXCEPT ![process.node] = [units |-> done', at |-> now']]
       ELSE units = 0 /\ UNCHANGED <<done, file>>
    /\ UNCHANGED <<record, process, ahead, call, request, changes>>

-------------------------------------------------------------------------------
BeginOperation(t) ==
    \/ Settle(t) \/ Pause(t) \/ Resume(t) \/ Stop(t) \/ Start(t) \/ ReconcileProcess(t)
    \/ \E m \in AccountingNodes : Hear(t, m) \/ Migrate(t, m) \/ ActivateIncoming(t, m)

TakeStep(t) ==
    \/ Reads(t) \/ Observes(t) \/ Freeze(t) \/ Thaw(t) \/ Kill(t) \/ NoLaunch(t)
    \/ \E u \in 0 .. MaxSpeed * MaxTime : Launch(t, u)
    \/ Load(t) \/ Save(t) \/ Reset(t)
    \/ TransferFails(t) \/ SendActivation(t) \/ AnswerActivation(t) \/ HearOutcome(t)

AccountNext ==
    \/ \E t \in Threads : BeginOperation(t) \/ TakeStep(t)
    \/ Die
    \/ \E u \in 0 .. MaxSpeed : Tick(u)

AccountSpec == AccountInit /\ [][AccountNext]_accountVars

-------------------------------------------------------------------------------
(* The rate at which a task is believed to work is one that it could have,
   although updates are lost: over entries that a thread writes back after
   others wrote to them, stale progress, restarts from older checkpoints,
   migrations and their rollbacks, and accounts that come back from peers. *)
RateIsPossible == \A n \in AccountingNodes : record[n].rate <= Scale * MaxSpeed

(* The time in which a task was paused is not charged as running: the ticks that
   a settlement is about to charge are none in which the task was frozen. *)
IdleIsNotCharged ==
    \A t \in Threads :
      call[t].run > 0 => (call[t].wall - call[t].run + 1 .. call[t].wall) \cap frozen = {}
===============================================================================
