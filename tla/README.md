# A TLA+ development of Magellan V2

Magellan V2 runs long tasks on a handful of peer nodes and moves each of them to
where it is cheapest to run in carbon, money and time. There is no controller:
every node runs the same daemon (`src/magellan/api/app.py`), keeps its own
durable state and talks HTTP to its peers. What makes that hard is not the
scoring but the handover: a task must be executed by exactly one node while
requests are lost or repeated, processes die and daemons restart.

This directory specifies that part of the program in TLA+, checks it with TLC on
small instances and proves theorems about it, for all instances, with TLAPS.

## Inventory

| Component | State it keeps | Operations | Interacts with | What makes it correct |
|---|---|---|---|---|
| **migration protocol** `migration/service.py`, `client.py`, `journal.py` | per node a journal of migration records, one lock per task | `migrate`, `activate_incoming`, `reconcile_durable_state`; activation attempts, status queries | registry, runtime, the destination's bids, peers | one execution of the task; both ends decide alike and once; every migration ends; an activation is all or nothing |
| **task registry** `state/persistent_registry.py` | `state.json` of each task: owner, generation, status, pid, last migration, accounting | `mark_*`, `claim_local`, `mark_remote`, `restore_local_after_failure`, `apply_ownership` | everybody | the generation fence: one owner per generation, no older claim wins |
| **ownership anti-entropy** `reconciliation/` | none of its own | fetch peers' snapshots, apply, reconcile the journal, merge the catalog | registry, journal, catalog, policy store | ownership converges and changes only with a commit |
| **local process runtime** `runtime/local_process.py` | live processes, Popen handles | `start`, `stop`, `pause`, `resume`, `reconcile` | registry, operating system | a live process is one the registry names |
| **failure recovery** `runtime/recovery.py` | attempts, next attempt, exhausted flag | `_recover_one` under a lock of its own | registry, runtime | a failed task restarts a bounded number of times, never beside a migration |
| **pause and resume** `runtime/pause.py` | resume deadlines | `pause`, `resume`, `run_once` | runtime, accounting | a pause ends; nobody resumes a task that moved |
| **completion** `runtime/completion.py`, `dendro.py` | marker, output manifest | `finalize`, `synthesize` | registry | completed is terminal |
| **bidding market** `bidding/` | bids and credits in `bids.json` | `submit`, `decide`, `renew`, `begin_activation`, `consume`, `cancel`, expiry; the arbiter's auction | scheduler, migration | capacity is never promised twice; a lease ends as consumed, cancelled or expired |
| **scheduler** `daemon/scheduler_service.py` | per-task operation locks | the epoch loop, operator's requests | scoring, market, migration, pause | one operation per task at a time |
| **accounting** `runtime/accounting.py` | accumulated cost, carbon, time, progress | `settle_task`, `record_migration` | registry, migration, the pause loop, the operator | what is charged happened; a rate of work is one that was observed |
| **submission and catalog** `submission/` | definitions with revisions, runs with idempotency keys | register, create, merge | anti-entropy, registry | replicas converge, a definition or a run never changes, one run per key |
| **artifacts** `artifacts/` | content-addressed cache, digests in the registry, links | import, prefetch, commit, stage | migration, runtime | what a task is linked to is whole, and stays the version it began with |
| **telemetry** `telemetry/` | samples per link, times of the last probes, a probe lock | the probe loop, refreshes, transfers | scoring, migration | an old sample is not taken for a measurement; a link that is up stays measured |
| **policy, forecasts, cost models** `policy/`, `carbon/`, `models/`, `scheduler/` | rolling windows of estimates, the last decision, the trace clock | estimate, normalize, weigh, choose | scheduler, anti-entropy | decisions use the past only, and compare what is comparable |
| **capabilities** `capabilities/` | - | check compatibility | bidding, runtime | nothing is admitted that cannot run |
| **workloads** `workloads/` | checkpoint, output, marker in files | load, work, save, publish | runtime, completion | the files say what was done |
| configuration, deployment, graph, experiments, scripts | - | offline | - | - |

The hard behaviours are two daemons and a client with timeouts and retries,
services that run beside each other in one daemon and look at the same entry
under different locks or none, threads that read and write in steps, caches and
samples that outlive what they were taken from, and restarts between any two
durable writes. `PROJECT.json` lists the hazards one by one, each at its line,
with the properties that would catch it going wrong or the reason why none does.

## The modules

| Module | Models |
|---|---|
| `TaskRegistry` | one task's registry entry and the registry's transitions on it, as functions on entries; a transition that raises is a guard (`CanRun`, `CanMigrate`, `CanClaim`, `Accepts`) |
| `Handover` | the abstract specification: a task with a place, at most one process, and migrations that move it in one step or not at all |
| `Migration` | the handover of one task between nodes: both ends' `MigrationService`, the client, the journal, the reservation at the destination, the processes, anti-entropy, recovery and restarts |
| `Admission` | resource vectors and the ledger, ranking keys, version clauses and capability checks, as operators |
| `BidMarket` | one destination's bid store and arbiter, the bidders, and the activations as far as they hold capacity |
| `Workload` | the process of a task and the files it shares with the daemon |
| `TaskRuntime` | one node and one task: start, stop, pause, resume, completion, recovery, epochs and the operator |
| `Catalog`, `Replication` | definitions and runs; their replication and that of ownership, completions and decision counts between peers |
| `Artifacts` | caches, prefetches and links of the tasks that share an artifact |
| `Accounting` | the accounts of one task, read and written in separate steps by the threads of its nodes: settlements, pauses, stops, starts, migrations with their rollbacks, claims of peers |
| `Telemetry` | the link probes of one node |
| `Decision` | forecasts, estimates, normalization, weights and the choice, epoch after epoch |
| `MCMigration`, `MCBidMarket`, `MCTaskRuntime`, `MCControlPlane` | the instances that TLC checks; the first has the refinement of `Handover`, the last puts five services side by side |
| `*_proofs` | the theorems, see below |

The modules meet where the components do. `TaskRegistry` is the entry of
`Migration`, `TaskRuntime` and `Replication` alike; `TaskRuntime` runs the
processes of `Workload`; `BidMarket` admits with `Admission`; `Replication`
merges with `Catalog`. Where one module needs a step of another component, it
has the part of it that others can see, and says so: the two visible steps of a
migration in `Replication`, the activation as a holder of capacity in
`BidMarket`, the reservation in `Migration`.

### How Migration corresponds to the code

*One task.* Nothing in the protocol relates two tasks except the capacity of the
destination, which is here a choice (`ExpireReservation`); so the model has one
task and as many migrations of it as `Migrations` numbers.

*State.* `reg[n]` is the task's `state.json` at node `n`, `procs[n]` the task's
live processes there, `journal[n][m]` and `original[n][m]` the status and the
`original_state` of `n`'s record of migration `m`, `plan[m]` the fields of the
record that never change, `bid[m]` the reservation at the destination. These are
durable. `call[n]` is the program counter and the local variables of the call
that holds the task's lock at `n` (`_lock_for`: `migrate`, `activate_incoming`
or the reconciliation of a record), `starter[n]` those of a start by recovery or
by the operator, which take no such lock, `listed[n]` the records that
`reconcile_durable_state` has read and not handled yet. These are lost with the
daemon. `requests` and `responses` are activation requests and responses on the
wire, one per attempt of the client.

*Steps.* An action is the code between two points at which another actor may
write or the daemon may die: an `await`, a thread call, or a pair of durable
writes. `migrate` is thus

    StartMigration, PrefetchDone | PrefetchFailed, MarkSource, JournalTransfer,
    StopProcess, TransferDone | TransferFailed, RequestActivation,
    ReceiveResponse | AttemptFails ...

followed by `GiveAway`, `CommitSource` when the destination activated
(`_finalize_source_success`), `RestoreSource`, `Spawn`, `MarkRunningAfterSpawn`,
`JournalUndo`, `CancelReservation` when it refused, and a poll (`QueryAnswered`,
`QueryFails`, `PollAgain`) with `ResolveActivated`, `ResolveNotCommitted` or
`ResolveUnknown` when nobody answered. `activate_incoming` is `AnswerClaimed`,
`AnswerRolledBack` or `StartActivation`, then `BeginActivation`, `ClaimTask`,
`Spawn`, `MarkRunningAfterSpawn`, `ConsumeReservation`, `ConfirmActivation`, or
from any of them `AbortActivation`, `JournalAbort`, `RefuseActivation`.
Reconciliation is `ListRecords` and then per record `ReconcileCommitted`,
`ReconcileIncomplete`, `ReconcileSettled` or `ReconcileSource`, the last two
sharing the query and the rollback with `migrate`, as they do in the code. The
map in `PROJECT.json` gives the lines of each.

*Abstractions.* A migration id is a number; timestamps, error texts, artifacts,
checkpoints, accounting and adaptive weights are left out; checkpoint validation
and transfer succeed or fail as they like. The reservation's expiry may come at
any moment at which the code looks for it. Process ids are small numbers that
are not reused while a daemon remembers them. The 0.1 s between the end of a
process and `mark_stopped` is not a place of its own.

### How the other modules correspond to the code

*BidMarket.* `status[b]` is the record of a bid in `bids.json`, `left[b]` what is
left of its lease, `age[b]` how long it has been pending, `credit` the durable
credits, `auction` the local variables of `BidArbiter.run_once`, `host` what the
registry counts, `activation` an activation's progress. An auction is
`StartAuction`, one `DecideAccept` or `DecideReject` per bid in ranked order and
`EndAuction`, with a possible `Restart` between any two; leases expire when
something looks (`Expired`), as `_expire_locked` does. Time passes in ticks.

*TaskRuntime and Workload.* `entry` is the registry entry with its deadlines,
`thread[s]` where the service `s` is and what it has read, `handle` the process
the daemon has a `Popen` for, `proc` the operating system's processes, `disk` the
task's directory. A start is `Spawn`, then `Booted` or `BootFailed`; a pause
`Freeze` and `FreezeRecorded`; a resume `Thaw` and `ThawRecorded`; an end
`Reconcile` and `Reaped`; a recovery `Schedule`, `Validate`, `BeginAttempt` or
`Invalid`, `Restart`. The workloads of the repository share a loop and differ in
how a checkpoint gets to the disk and who writes the marker: the three `Kinds`.

*Replication.* `round[n]` is the anti-entropy loop at `n`: it merges the catalog
of one peer after another, then asks each for its claims and applies them later
(`FetchClaims`, `ApplyClaims`). `posts` are broadcasts, which may be lost, late or
received in any order. Merging a snapshot that conflicts stops at the conflict.

*Artifacts.* A directory is "good", "sized" or "short", as far as the two kinds of
validation can tell. `Import` publishes a copy of the source directory under the
digest that it had when it was hashed; the directory may have changed before it
was copied, and what is then in the cache is not good. The import fails, and so
does what asked for it (`Bound`), but the entry stays. A prefetch is `Begin`,
`Ask`, `Send`, `Move`, `Validate`, `Answer`, `Activate`; the commit goes on at the
destination when the source gives up.

*Accounting.* `record[n]` is the node's entry of the task, `call[t]` the local
variables of what thread `t` is doing and `ahead[t]` what it has still to do, by
name: a pause, say, is `<<"charge", "paused">>`, a settlement and then the pause.
The registry holds its lock while it reads an entry (`get_state`) and while it
writes one (`set_state`) and not in between, so each of `record_accounting`, the
`mark_*`, `claim_local` and `apply_ownership` is a `Load` of the whole entry and,
any time later, a `Save` of it with its own changes (`Update`): what other threads
wrote in between is lost, and so a charge, the cost of a transfer or a status can
be. A settlement takes the time, then reads the entry for the time to charge
(`Reads`), then reads it again with the progress file (`Observes`), then records.
Signals come before what the registry is told (`Freeze`, `Thaw`, `Kill`,
`Launch`). A migration has the settlement, the mark, the stop, the record of the
transfer, the request with the accounts as they are by then, and the rollbacks of
either end. `frozen` remembers the ticks in which the process was stopped by a
signal. `OperationLocked` is the scheduler's lock, which pauses and migrations take
and nobody else does; the pause loop's resumption has none.

*Telemetry.* A sample is its age. A probe is `Ping`, the wait for the
lock, `Lock`, `Measure`; the lock is a queue, as asyncio's is. *Decision.* One
action, `Evaluate`, is an epoch for the task, `Hour` the passing of time between
epochs; the arithmetic is over integers with a common denominator. The confidences
of a forecast and of the power are one number, and forecasts are enabled, which is
the default.

### Faults

What the environment may do is the constant `Faults`, a subset of the
`FaultKinds` that the module explains, and `MaxFaults` bounds how many exits,
failed starts, crashes and operator's starts a behaviour has. Losing a request
or a response, losing a cancellation, a failed query, an expired reservation, a
failed transfer or prefetch and an invalid checkpoint need no permission and are
not counted. The kinds let a run say under which circumstances a property holds,
and `lateRequest`, `moveOn` and `crashOnMove` stand for circumstances under
which the code does not keep its promise of one execution; the hazards say how.

## The runs

The runs of `Migration` have two nodes, `n1` being the home, and three process
ids. Two nodes are enough because every migration has two ends and the third
parties only read ownership; three ids let three generations of a process be
alive at once.

| Run | Instance | Shows |
|---|---|---|
| `failures` | one migration, two attempts of the client, two faults of exit, startFails, crash, serviceCrash | `NoDuplicateExecution`, `NoOrphanProcess`, `ActivatedConsumed`, `RestartOnlyIfNotCommitted`, `MigrationEnds` |
| `back_and_forth` | two migrations, one fault of startFails, serviceCrash | `ImplementsHandover`, `OneOwnerPerGeneration`, `OwnershipAfterCommit`, `DecisionIsFinal`, `GenerationFallsOnlyOnAbort`, `EventuallyLookedAfter` |
| `any_fault` | one migration, one attempt, all fourteen kinds of fault, one counted | `TypeOK`, `WriteAhead` |
| `market` | three bids of two tasks for two cores, each task needing both; one restart, one renewal | `CapacityPromisedOnce`, `AuctionIsFair`, `DecidedOnce`, `CreditOnlyForLosers`, `LeaseEnds`, `BidDecided` |
| `lifecycle` | the three kinds of workload, two processes, two requests of the operator, one fault, one restart attempt | `CompletionIsEarned`, `PauseEnds`, `FailureIsHandled`, `DeathIsNoticed` |
| `control_plane` | two nodes, the five services by themselves, see below | the properties of `Replication`, `Artifacts`, `Accounting`, `Telemetry` and `Decision` |

`failures` has two counted faults because the interesting sequences need two: one
to make the outcome unknown, another while it is being resolved. Two attempts
(the code has three) are enough for a retry to meet each stage of the first one.
`back_and_forth` has two migrations so that a task returns to a node that has an
old record and an old claim, with one fault to keep it small. In `any_fault`
nothing is excluded, so it checks what should hold whatever happens; with one
attempt the retries of the client are those of reconciliation.

*The refinement.* `ImplementsHandover` says that `Migration`, its messages,
records and restarts hidden, behaves as `Handover` does: `MCMigration` maps the two records of
a migration to an outcome (and two records that contradict each other to none of
them), the task's place to the destination of the last migration that moved it,
and its workers to the live processes of all nodes. It contains that there is one
process, that both ends tell the same outcome and never another one, and that
whoever executes the task when that is decided is on the right side of it.
`Handover` itself is a few lines; its invariant is proved, and so is the
refinement, for every instance with the faults of `failures`.

In `market` both tasks need the whole node, so that every promise excludes every
other; the third bid is a second bid of a task that has one already. Leases last
two ticks, so that an activation can outlive its lease, and one restart falls
between any two decisions of an auction. In `lifecycle` two processes are what
one restart attempt or one operator's start can bring beside the first. In
`control_plane` a behaviour chooses one of the modules at its start and the
variables of the others stay as they are: the modules share no variable and each
property is about one of them, so this checks exactly what separate runs would. Its
bounds: contradicting submissions at the two nodes, one handover, one decision, a
restart and a lost broadcast; two tasks that share an artifact of two versions,
two prefetches, and two of one damaged node, one crash and one change of the
directory; two ticks, one migration, two threads of a node, four operations of
which two go on at a time and the last one alone, or beside another one that ends
the same pause; two links, two incidents; five traces of four hours, one restart
of a clock.
The accounts have two parts, of which a behaviour has one: all operations but
migrations, and migrations with starts and settlements. Two ticks and four
operations are what a rate needs that is made of an observation before a migration
and one after it, or of two observations between which another thread writes. The
task works as fast as it can there; that it may be slower is in the theorems.

Six runs state a sentence of the documentation and show that the code does not
keep it; each of them has the smallest set of faults that is needed.

| Run | Property | What happens |
|---|---|---|
| `poll_failure` | `RestartOnlyIfNotCommitted` | a poll answers `activating`, the next one fails: `_query_remote_outcome` returns "reached, no record" and the source restarts while the destination is activating |
| `stale_listing` | `NoDuplicateExecution` | a transfer fails and the source starts the task again; meanwhile reconciliation has listed the record as `transferring`. When `migrate` has recorded `rolled_back` and left the lock, the record is reconciled as it was listed: the destination knows nothing of it, so `_rollback_source_record` writes back the entry of before the migration, without a pid, and starts the task a second time on the same node. The failed transfer is all that goes wrong |
| `claimed_crash` | `ActivatedConsumed` | the destination dies between `claim_local` and the start; the client's retry finds the claim and is answered `activated` |
| `claim_leak` | `OwnershipAfterCommit` | a peer reads the claim before the activation commits |
| `uncertain_recovery` | `UncertainStaysStopped` | recovery restarts the task at a source whose migration is uncertain: it looks neither at the journal nor at the lock |
| `idle_charged` | `IdleIsNotCharged` | the snapshot of a peer, fetched by anti-entropy, has accounts of the same generation that it heard of before a pause; the owner takes them over and charges the time of the pause as running |

### Known divergences that no run shows

* `docs/milestones/pause-runtime-accounting.md:48` says that `min_pause_gap_seconds`
  prevents a task that was just resumed from being paused again. `choose_action`
  checks the gap when the best action is a pause, but when the best action is a
  migration that it does not take it falls back on `best_local`, which may be a
  pause, without that check.
* Nothing of the code says that a charge may be lost, and any two threads that
  settle, pause, stop or migrate a task can lose one (`persistent_registry.py:393`
  reads what `:436` writes back). `Accounting` has these behaviours; no property
  holds of the amounts under them, and so none is stated.
* Two resumes of one pause, the operator's and the pause service's, may both find
  the entry paused. The second `mark_resumed` raises, and `pause.py` then marks the
  task failed, although its process runs; recovery starts another. `TaskRuntime`
  has these behaviours (`ThawRecorded` after another one), and `PauseEnds` and
  `FailureIsHandled` hold of them.
* `docs/milestones/task-lifecycle-recovery.md:18` says that a crashed local owner
  restarts from its last valid checkpoint. A daemon that dies during an attempt
  leaves the entry `recovering`, which neither recovery nor `reconcile` takes up.

### Fairness

`FairSpec` assumes weak fairness of each node's source, process, destination,
reconciliation and service steps: the daemon's event loop runs, its loops
(`run` of reconciliation and recovery) come round, and systemd restarts it.
Two assumptions are strong. `_query_remote_outcome` has a deadline, so a source
does not poll for ever (`Resolve`), and a destination that is asked again and
again answers in the end (`QueryAnswered`): the faults are bounded, and a
network that fails for ever leaves the migration uncertain for ever, as the
documentation says. Nothing is assumed of the environment, of the scheduler or of
expiry.

In `BidMarket` the arbiter's loop runs, time passes and an activation ends one way
or the other; nothing is assumed of bidders. In `TaskRuntime` every service's
steps are weakly fair, deadlines come and the daemon is started again; the
epoch's `reconcile` is strongly fair, because an operator's requests may disable
it again and again while the loop comes round for ever. In `Replication` each
peer is reached again and again (`MCSpec` states it as `[]<>`, which the endless
rounds make the same as strong fairness): a partition that lasts for ever keeps
peers apart. In `Telemetry` the loop, an operator's call and time go on; the
probe lock is a queue, so weak fairness is enough.

Deadlock is not checked, because the migrations and the faults of a
behaviour are bounded and the system then comes to rest; that it rests in a good
state is what the liveness properties say.

## The proofs

Eight modules hold theorems. Where nothing else is said, the sets of nodes, tasks,
versions, migrations and processes are arbitrary in them, finite or not.

**`Migration_proofs`.** Assumed is `ConstantsAssumption`: `Home` is a node,
migrations and processes are numbered from 1, `MaxAttempts` is positive. In the
first part `Faults` is any subset of the kinds, so its theorems cover every fault
the model knows at once.

* `TypeCorrect == Spec => []TypeOK`. `TypeOK` is inductive, because it says
  besides the types that a call that holds the lock is about a migration. The
  proof has one lemma per way of changing a variable (a registry write, a journal
  write, a call that goes on), one per group of actions, and in each of those a
  case per action.
* `RecordsWrittenAhead == Spec => []WriteAhead`: a destination has a record of a
  migration only if the source's own record says that it may have been
  activated, and touches its reservation only after its own record. It is what
  makes reconciliation after a restart meaningful: "never recorded" at the
  destination and `preparing` or `transferring` at the source really mean that
  nothing has happened. `WriteAhead` alone is not inductive: a request in flight
  carries the obligation from the source's record to the destination's. The
  invariant `WriteAheadInv` adds that plans name two nodes and precede records
  (`PlanInv`), that a call in progress has its record and is made where its plan
  says (`CallInv`), that what is listed is a record (`ListInv`), that nothing is
  known of a migration outside its source before the request (`EarlyInv`), and
  that a request on its way is in the source's record (`RequestInv`). All but
  three actions are *ordinary*: they change each variable in one of five ways
  that keep the invariant (`OrdinaryStep`). The three others are
  `StartMigration`, `JournalTransfer`, the only one that takes a record back to
  an earlier status, and `RequestActivation`.

The second part of the module says who owns the task. Assumed besides is
`Orderly`: `Faults` is any set without `lateRequest`, `flakyQuery`, `moveOn`,
`staleList` and `claimLeak`. None of the five can be left out. `flakyQuery`, `staleList` and `claimLeak` are
what the runs `poll_failure`, `stale_listing` and `claim_leak` have; with
`lateRequest` alone TLC finds `RestartOnlyIfNotCommitted` violated for one
migration, with `moveOn` alone `DecisionIsFinal` for two. Crashes and restarts
anywhere, exits, completions, failed starts, operators and an eager recovery are
not excluded.

* `OwnersAreFenced`, `OwnershipFollowsCommit`, `RestartsAreSafe`,
  `DecisionsAreFinal` and `GenerationsAreMonotone` prove `OneOwnerPerGeneration`,
  `OwnershipAfterCommit`, `RestartOnlyIfNotCommitted`, `DecisionIsFinal` and
  `GenerationFallsOnlyOnAbort`. They need two invariants.

  `CourseInv` says how far everybody is: which places a call of each kind has and
  at which end (`RoleInv`), who has records (`PartyInv`), that a listed record is
  still as it was listed (`ListedInv`), that a call in progress has an open record
  (`OpenCallInv`), and that the client's attempt is on its way, or served, or
  answered, exactly once (`ClientInv`).

  `OwnerInv` says what that means for ownership. An entry is *proper* if its owner
  got its generation by a migration that landed, or is the home; the only other
  entries are claims of the destination of an open migration (`Fits`). Generations
  order the migrations, and one at most is open, on top of them (`OrderInv`). What
  an abort would restore is proper (`OriginInv`). The source's terminal record
  agrees with the destination's (`VerdictInv`), and so does what a response on its
  way says (`ResponseInv`) and what a call is about to do (`StandInv`). The
  invariant is as large as the protocol because each part is what another one's
  step relies on: `OneOwnerPerGeneration` follows from `Fits` and `OrderInv`, but
  that an abort keeps `Fits` needs `OriginInv`, and that the source takes the task
  back only from a migration that has not landed needs the last three.
* `ActivationsConsume` proves `ActivatedConsumed`, assuming that the daemon does
  not die between claim and commit (`crashOnClaim`), which the run `claimed_crash`
  shows to be needed. `ConsumedInv` says where in `activate_incoming` the
  reservation is already consumed.

**`MigrationExecution_proofs`.** Assumed besides is `Sober`: none of `completes`,
`crashOnMove`, `recoverEarly` and `operatorStart` either, so what remains are
exits, failed starts and crashes. Each of the four, added by itself, lets TLC find
`NoDuplicateExecution` and `NoOrphanProcess` violated for one migration.

* `ProcessesAreNamed` and `ExecutedOnce` prove `NoOrphanProcess` and
  `NoDuplicateExecution`. `WorkInv` says of each node which processes it may have at the place where its call is,
  that it has them only as the owner, and that recovery runs only where no
  migration is in progress. Two nodes with processes would both be owners; if no
  migration is open, `OwnerInv` leaves one owner; if one is, they are its two
  ends, and a destination that has claimed the task has a source that quiesced.
* `ProtocolImplementsHandover == Spec => ImplementsHandover`, the refinement.
  `ViewInv` says what the abstract state is: the outcome of a migration is told by
  its two records and never torn, the place is the destination of the last one
  that landed, which is the source of an open one, and whoever executes the task
  is there or at an undecided destination. A step changes the processes, or one
  record, or begins a migration (`StepKinds`). The first is `Start`, `End` or a
  stutter; the second is `Move` or `Stay` if it is the record that decides, and a
  stutter if not; the third is `Begin`. That the place is found by the highest
  number is `NumberInv`: the migrations are begun, and land, in the order of
  their numbers.
* `TaskIsInPlace` and `PlaceIsDecided` carry the two theorems of `Handover_proofs`
  through the refinement (`Promise` is that module with the same mapping): a
  process of the task is at the destination of the last migration that both
  records decided, or where an undecided one takes it, and the task changes its
  place in the step that decides a migration and in no other.

**`Artifacts_proofs`.** Assumed is `ArtifactsAssumption`: some node has a source
directory, there is a task, versions are positive numbers and 1 is one of them.

* `ArtifactsTypeCorrect == ArtifactsSpec => []TypeInv`: types, and that a
  prefetch in progress or a commit asked for is about a version, without which
  neither of the next two is inductive.
* `LinkedStaysGood == ArtifactsSpec => []LinkedIsGood`. The argument is one lemma
  (`KeepsGood`): a step leaves what is good as it is, unless it damages the node,
  and links only what is good. A commit that is moved into place and not yet
  validated is the case to look at: it takes the place of nothing that is there,
  and takes away only what is not good.
* `VersionIsKept == ArtifactsSpec => VersionKept`. The invariant `KeepInv` adds
  that the registry says what is linked, that a task has one prefetch in progress
  at most (`OneOfEach`), from its holder (`FromHolder`), and of the version it has
  (`OfItsVersion`). Without `OneOfEach` an activation could leave another prefetch
  of the same task behind, from a node that is not its holder any more.

**`Handover_proofs`.** Assumed is that `Home` is a node.

* `WorksWhereItBelongs == HandoverSpec => []WorksInPlace`: one process at most,
  at the task's place or where an undecided migration takes it. The invariant adds
  that one migration is open at a time and takes the task from its place.
* `DecisionsStand == HandoverSpec => MovesByDecision`: a migration is decided
  once, and the place changes with such a decision only.

`TaskIsInPlace` and `PlaceIsDecided` say the same of `Migration`, in terms of its
records and processes.

**`BidMarket_proofs`.** Assumed is `MarketAssumption`, the ranges of the
constants, and for the last three that there are finitely many tasks and bids.

* `BidsAreDecidedOnce == Spec => DecidedOnce`: the record of a bid goes from
  pending to one decision and from there to one end. An auction decides what it
  read as pending at its beginning, over many steps; the invariant `MarketInv`
  says that those bids are pending until it decides them (`TodoIsPending`), also
  when the bidder cancels or the daemon dies meanwhile, and that only a bidder
  that has not come has no record (`RecordForEveryBidder`).
* `CapacityIsPromisedOnce` proves `CapacityPromisedOnce`, assuming that the tasks
  which the node has to begin with fit. Needs are added over the set of tasks that
  have a right to capacity (`Entitled`); `LedgerIsFree` says that in an auction the
  ledger is what that sum leaves, although bids expire, are cancelled or activated
  while it goes on: each of these only takes tasks out of the sum, and
  `DecideAccept` moves one need from the ledger to it.
* `AuctionsAreFair` and `CreditIsForLosers` prove `AuctionIsFair` and
  `CreditOnlyForLosers`. `RankedInTurn` says that what has been accepted ranks
  before all that is still to be decided, `LosersAreRejected` that a loser could
  have been served and nothing of its task was.

**`TaskRuntime_proofs`.** Assumed are `WorkAssumption` and `RuntimeAssumption`,
the ranges of the constants.

* `AttemptsAreBounded == Spec => []TypeOK`: besides the types, no entry counts
  more restarts than the limit. The count is looked at in one step and raised in
  another; `AttemptLeft` says that it does not change in between.
* `CompletedIsDone`: `Spec => []CompletionIsEarned`, assuming that the log tells a
  native application that succeeded from one that did not, or that there is no
  native application. The assumption is the point: for such an application the
  code synthesizes the completion marker from the exit and the log. `Earned`
  follows the result from the process over the published file to the marker.

**`Accounting_proofs`.** Assumed is `AccountingAssumption`, the ranges of the
constants.

* `RatesArePossible` proves `RateIsPossible`, for any number of nodes, threads,
  operations and migrations at once. A mark is a pair of units of work and a time,
  in an entry, in a progress file, in an activation request, or in what a thread
  has read and may write at any time (`Mark`). `MarksInv` says of all of them that
  the work between any two was possible in the time between them, and that none is
  ahead of the work that is done. So it does not matter which two a rate is made
  of, nor in which order the threads write, nor what they lose. The proof has one
  lemma per kind of step, and each of them says that the step writes only marks
  that are known (`Quiet`); a tick alone makes a new one.
* `AccountsAreTyped == AccountSpec => []AccountTypeOK`. A rate is a difference
  divided by a time; that neither is negative comes of what `MarksInv` says of its
  two marks, so the types are inductive only together with it. They hold of what
  the threads have read as well (`CallBy`).

**`ControlPlane_proofs`.** Assumed are the ranges of the constants:
`ReplicationAssumption`, `TelemetryAssumption` and `DecisionAssumption`. The last
one says what the code's validation does (prices, weights and intensities are not
negative, `config/models.py`, `config/policy_models.py`, `carbon/forecast.py`),
and that a trace is not empty and has an hour after the other.
`ReplicationAssumption` says that there are two peers at least, that a submission
has an id and a digest and nothing else, that a run is asked for at a node of the
cluster or at none (`create_run` refuses another owner), and that a migration has
a number for each generation.

* `CatalogsAreSound`: `CatalogInv` is `CatalogIsSound` of the catalogs in memory
  and on disk, with their shape and a bound on the revisions of each.
* `OneOwnerEverywhere` and `KnowledgeOnlyGrows` prove `OneOwner` and
  `KnowledgeGrows`. That two nodes agree about a generation is not inductive,
  because what a node will believe is under way: in a broadcast, in a snapshot of a
  peer that a round has fetched and not yet applied, in a migration that has not
  ended at its source. `OneSaid` says of all of these together that nothing in
  contradiction is *said* of a generation. It needs `OwnerIsLast`: who has the
  task as its own has heard of every generation that is said anywhere, so the
  next one, which it alone can open, is new. `HomeIsFirst` covers the beginning:
  generation 0 belongs to the home that the catalog names, and while the home
  itself has no entry nothing but that is said. `HomeInv` says that the homes are
  saved, and that is why a restart cannot begin a run anew elsewhere.
* `GoneLinksAreForgotten` and `LinksAreMeasuredSeldom` prove `GoneIsNotMeasured`
  and `MeasuredSeldom`. `LinksInv` relates the ages: a sample of a link that is
  down is as old as that, and what a daemon remembers of its last measurement is
  its age or nothing.
* `DecisionsLackForesight`, `BoundsAlwaysCover` and `DisturbancesAreWorthIt` prove
  `NoForesight`, `BoundsCover` and `WorthIt`, for all traces, prices, weights and
  thresholds. The first one follows the forecast from the samples that are known
  to the estimates; the second needs that every estimate is a natural number, that
  least and greatest elements of finite sets exist, and that the window ends with
  the extent of what is decided on; the third that a score never falls when a
  metric grows, and that each of the ways in which `choose_action` falls back
  leads to something that scores no more than to continue.
* `TypesAreKept == MCSpec => []MCTypeOK`. The types of a service are inductive
  only with what it hears from elsewhere: `RegistryTyped` says of every update that
  is under way, in a broadcast, in a round that has fetched it and not applied it,
  in a migration that has not ended, that an entry could take it over
  (`TypedUpdate`), and of a round that it has a peer to go to; `CatalogsTyped`
  that runs have owners in the cluster, which makes an entry of a run that is
  registered or loaded after a restart a typed one. `AgesOK` and `LockInv` are
  about links, and `TimesOK`, with the shape of the window, about decisions. The
  types of the artifacts and the accounts are proved in their modules.
* `ProbersTakeTurns` is what `LockInv` is for: the queue of the lock consists of
  the probers that wait or measure, each once, and only its first one measures. So
  no two transfers of a probe share the bandwidth that they measure.
* `EachServiceByItself` says that a behaviour of `MCSpec` is one of `Spec`,
  `ArtifactsSpec`, `AccountSpec`, `TelemetrySpec` and `DecisionSpec`, so that all
  the theorems about the services hold of the instance that TLC checks.

Some of these proofs are about recursive functions (sums) and finite sets. The
library's induction theorems cannot be instantiated with the provers at hand; the
proofs take the least number for which the claim fails instead (`LeastNumber`).

Only model-checked are

* liveness, which needs fairness: `MigrationEnds`, `EventuallyLookedAfter`,
  `LeaseEnds`, `BidDecided`, `PauseEnds`, `FailureIsHandled`, `DeathIsNoticed`,
  `TasksSpread`, `ClaimsSpread`, `LinksKnown`;
* the violations that six runs expect. Four properties of `Migration` that are
  proved under `Orderly` or `Sober` are violated there by a fault that these
  exclude. `UncertainStaysStopped` and `IdleIsNotCharged` are stated only in the
  runs that violate them: recovery does not look at the journal, and anti-entropy
  does not look at which accounts are newer.

## Not modelled, and why

* Transfer of checkpoints (`migration/transfer.py`), launch plans and adapters,
  discovery of capabilities, power and process sampling, the topology graph:
  I/O and lookup whose outcome, where it matters, is a choice in the module that
  calls it.
* Floating-point arithmetic: `Decision` has the forecasts, models and scores over
  small integers, which keeps the order of what is compared and loses rounding.
* Configuration and deployment: parsing and validation. The unit file tells what
  a restart of a daemon does to task processes (`serviceCrash`).
* `policy/calibration.py`, the experiments and the scripts: offline evaluation.
* Handlers that only read, wording, logs.
* In `Accounting`: prices, carbon intensities and the amounts that they make, a
  second process of the task, crashes, a source that stops waiting, and two nodes
  whose clocks differ.
* In `Artifacts`: updates of `artifact_digests` that are lost between two threads
  of a node; `VersionKept` is shown of updates that are not.
* In `Telemetry`: the first line of the ssh stream, which is read without a timeout
  and may keep the probe lock for ever, and an exception that ends the telemetry
  loop. `LinksKnown` assumes that neither happens.
* In `Decision`: a disabled forecast, which averages the samples of the store, the
  future ones too (`carbon/forecast.py:328`), and the confidences of power and of
  the forecast, which are one.
* A daemon that dies between the spawn of a process and `mark_running`, and, but
  for `claimed_crash`, between the claim of an activation and the start.
* A second task whose rollback meets a slot given away meanwhile, and a daemon
  that dies twice around one migration: the instances would be too large.

## The plan

Done: the handover with its refinement, the market, the life of a task, the
replication of tasks and claims, artifacts, accounting, telemetry and decisions.

Every invariant and every action property of the passing runs is proved, and the
refinement. What is left, the most important first:

1. `BidMarket` composed with `Migration` at two nodes, for the slot that a
   rollback comes back to.
2. Checkpoint transfer with a source that writes meanwhile.
