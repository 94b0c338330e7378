------------------------------ MODULE Migration -------------------------------
(***************************************************************************)
(* Moving one task between nodes: MigrationService of                      *)
(* src/magellan/migration/service.py on every node, with the client that   *)
(* sends activation requests and status queries, the durable journal, the  *)
(* destination's reservation, the task's registry entries and processes,   *)
(* anti-entropy, recovery of failed tasks and daemon restarts.             *)
(*                                                                         *)
(* The service holds one lock per task and node across migrate,            *)
(* activate_incoming and the reconciliation of a record, so a node has at  *)
(* most one of them in progress: call[n].  An action is the code between   *)
(* two points at which the daemon may die or another actor may write: an   *)
(* await, a thread call, or a pair of durable writes.                      *)
(***************************************************************************)
EXTENDS TaskRegistry, FiniteSets

CONSTANTS Home,          \* the node the task is first assigned to
          MaxAttempts,   \* attempts of the activation client (3 in the code)
          MaxFaults,     \* bound: exits, crashes and failed starts in a behaviour
          Faults         \* what the environment may do, see FaultKinds

(* lateRequest   an activation attempt may outlive the client that gave it up
   flakyQuery    a status query may fail after an earlier one was answered
   moveOn        a node may pass the task on before an earlier migration it took
                 part in is decided at both ends
   staleList     a call may run between the listing of the journal and the
                 reconciliation of a listed record
   recoverEarly  recovery, which looks neither at the journal nor at the lock,
                 may begin to start the task while the node has a migration
                 record that is not terminal
   claimLeak     anti-entropy may read a claim before its activation commits
   exit          a task process may end by itself
   completes     a process that ended may have written its completion marker
   startFails    a started process may not become ready
   crash         a daemon may die and restart, task processes survive
   crashOnMove   ... also between quiescing or restarting the task and the
                 record that says so
   crashOnClaim  ... also while an activation is claimed but not committed
   serviceCrash  a daemon may die with its task processes (control group)
   operatorStart an operator may start the task at a node (POST .../start)  *)
FaultKinds == {"lateRequest", "flakyQuery", "moveOn", "staleList", "recoverEarly",
               "claimLeak", "exit", "completes", "startFails", "crash",
               "crashOnMove", "crashOnClaim", "serviceCrash", "operatorStart"}

ASSUME ConstantsAssumption ==
    /\ Home \in Nodes
    /\ Migrations \subseteq Nat \ {0}
    /\ Pids \subseteq Nat \ {0}
    /\ MaxAttempts \in Nat \ {0}
    /\ MaxFaults \in Nat
    /\ Faults \subseteq FaultKinds

JournalStatus == {"none", "preparing", "transferring", "activating",
                  "uncertain", "activated", "rolled_back"}
Terminal == {"activated", "rolled_back"}

BidStatus == {"none", "accepted", "activating", "consumed", "cancelled", "expired"}
HeldBid   == {"accepted", "activating"}

Attempts == 1 .. MaxAttempts

Plan   == [src : Nodes, dst : Nodes, gen : Nat]
NoPlan == [src |-> Home, dst |-> Home, gen |-> 0]

(* The call that holds a node's lock on the task: migrate ("source"),
   activate_incoming ("destination") or the reconciliation of one record. *)
Kind == {"none", "source", "destination", "reconcile"}
Place == {"idle", "prefetch", "mark", "journalTransfer", "kill", "transfer",
          "request", "await", "query", "decide", "remote", "commit", "undo",
          "restore", "spawn", "running", "journalUndo", "cancel", "begin",
          "claim", "consume", "confirm", "abort", "journalAbort", "refuse"}

Call == [kind    : Kind,
         at      : Place,
         mig     : Migrations \cup {NoMigration},
         attempt : 0 .. MaxAttempts,      \* of the client, or of the request served
         stopped : BOOLEAN,               \* source_was_stopped
         answer  : JournalStatus,         \* last_record of _query_remote_outcome
         reached : BOOLEAN,               \* destination_reached
         pid     : Pids \cup {NoPid},     \* started, not yet in the registry
         saved   : Entry]                 \* original_state of an activation

VARIABLES reg,       \* [Nodes -> Entry]             state.json of the task
          procs,     \* [Nodes -> SUBSET Pids]       its live processes
          journal,   \* [Nodes -> [Migrations -> JournalStatus]]
          original,  \* [Nodes -> [Migrations -> Entry]]  record.original_state
          plan,      \* [Migrations -> Plan]         fields a record never changes
          bid,       \* [Migrations -> BidStatus]    reservation at the destination
          call,      \* [Nodes -> Call]
          starter,   \* [Nodes -> ...]  a start by recovery or by the operator
          listed,    \* [Nodes -> [Migrations -> JournalStatus]]  the records
                     \* reconcile_durable_state has listed and not handled yet
          requests,  \* activation attempts on their way, as <<m, k>>
          responses, \* activation responses on their way, as <<m, k, activated>>
          budget     \* faults left

vars == <<reg, procs, journal, original, plan, bid, call, starter, listed,
          requests, responses, budget>>
records == <<journal, original>>
network == <<requests, responses>>

NoStart == [at |-> "idle", pid |-> NoPid]
NoCall(n) == [kind |-> "none", at |-> "idle", mig |-> NoMigration, attempt |-> 0,
              stopped |-> FALSE, answer |-> "none", reached |-> FALSE, pid |-> NoPid,
              saved |-> InitialEntry(n, Home)]
NothingListed == [m \in Migrations |-> "none"]

(* Types; a call that holds the lock is about a migration. *)
TypeOK ==
    /\ reg \in [Nodes -> Entry]
    /\ procs \in [Nodes -> SUBSET Pids]
    /\ journal \in [Nodes -> [Migrations -> JournalStatus]]
    /\ original \in [Nodes -> [Migrations -> Entry]]
    /\ plan \in [Migrations -> Plan]
    /\ bid \in [Migrations -> BidStatus]
    /\ call \in [Nodes -> Call]
    /\ \A n \in Nodes : call[n].at # "idle" => call[n].mig \in Migrations
    /\ starter \in [Nodes -> [at : {"idle", "spawn", "running"}, pid : Pids \cup {NoPid}]]
    /\ listed \in [Nodes -> [Migrations -> JournalStatus]]
    /\ requests \subseteq Migrations \X Attempts
    /\ responses \subseteq Migrations \X (0 .. MaxAttempts) \X BOOLEAN
    /\ budget \in 0 .. MaxFaults

(* The task was submitted at Home and started there by the operator. *)
Init ==
    \E p \in Pids :
        /\ \A q \in Pids : p <= q
        /\ reg = [n \in Nodes |-> IF n = Home THEN MarkRunning(InitialEntry(n, Home), p)
                                              ELSE InitialEntry(n, Home)]
        /\ procs = [n \in Nodes |-> IF n = Home THEN {p} ELSE {}]
        /\ journal = [n \in Nodes |-> [m \in Migrations |-> "none"]]
        /\ original = [n \in Nodes |-> [m \in Migrations |-> InitialEntry(n, Home)]]
        /\ plan = [m \in Migrations |-> NoPlan]
        /\ bid = [m \in Migrations |-> "none"]
        /\ call = [n \in Nodes |-> NoCall(n)]
        /\ starter = [n \in Nodes |-> NoStart]
        /\ listed = [n \in Nodes |-> NothingListed]
        /\ requests = {}
        /\ responses = {}
        /\ budget = MaxFaults

-------------------------------------------------------------------------------
(* Helpers. *)

At(n, kind, place) == call[n].kind = kind /\ call[n].at = place
Free(n) == call[n].at = "idle"
Go(n, place) == call' = [call EXCEPT ![n].at = place]
Release(n) == call' = [call EXCEPT ![n] = NoCall(n)]
Write(n, e) == reg' = [reg EXCEPT ![n] = e]
Record(n, m, s) == journal' = [journal EXCEPT ![n][m] = s]
Fault(f) == f \in Faults /\ budget > 0 /\ budget' = budget - 1

(* The node has a migration record that is not terminal. *)
Unfinished(n) == \E m \in Migrations : journal[n][m] \notin Terminal \cup {"none"}

Undisturbed(n) == "staleList" \in Faults \/ listed[n] = NothingListed

Alive(n, p) == p # NoPid /\ p \in procs[n]

(* The operating system hands out a number no live process of the node has;
   numbers still named by the daemon are avoided so that they stay identities. *)
FreshPid(n, p) ==
    LET taken == procs[n] \cup {reg[n].pid, call[n].pid, starter[n].pid}
    IN  p \in Pids \ taken /\ \A q \in Pids \ taken : p <= q

-------------------------------------------------------------------------------
(* migrate at the source. *)

Undecided(n) == \E m \in Migrations : /\ plan[m] # NoPlan
                                      /\ n \in {plan[m].src, plan[m].dst}
                                      /\ journal[plan[m].src][m] \notin Terminal

(* The scheduler's or the operator's checks (owner, running) and the bid's
   acceptance have passed; migrate re-checks the owner only. *)
StartMigration(n, d) ==
    \E m \in Migrations :
        /\ plan[m] = NoPlan
        /\ \A i \in Migrations : i < m => plan[i] # NoPlan
        /\ d # n
        /\ Free(n)
        /\ Undisturbed(n)
        /\ Undecided(n) => "moveOn" \in Faults
        /\ reg[n].owner = n
        /\ reg[n].status = "running"
        /\ plan' = [plan EXCEPT ![m] = [src |-> n, dst |-> d, gen |-> reg[n].gen + 1]]
        /\ bid' = [bid EXCEPT ![m] = "accepted"]
        /\ Record(n, m, "preparing")
        /\ original' = [original EXCEPT ![n][m] = reg[n]]
        /\ call' = [call EXCEPT ![n] = [NoCall(n) EXCEPT !.kind = "source",
                                                         !.at = "prefetch", !.mig = m]]
        /\ UNCHANGED <<reg, procs, starter, listed, network, budget>>

PrefetchDone(n) ==
    /\ At(n, "source", "prefetch")
    /\ Go(n, "mark")
    /\ UNCHANGED <<reg, procs, records, plan, bid, starter, listed, network, budget>>

PrefetchFailed(n) ==
    /\ At(n, "source", "prefetch")
    /\ Record(n, call[n].mig, "rolled_back")
    /\ Go(n, "cancel")
    /\ UNCHANGED <<reg, procs, original, plan, bid, starter, listed, network, budget>>

(* mark_migrating, after prefetch and settlement; it raises when the task was
   completed or given away meanwhile. *)
MarkSource(n) ==
    /\ At(n, "source", "mark")
    /\ IF CanMigrate(n, reg[n])
       THEN Write(n, MarkMigrating(reg[n], call[n].mig)) /\ Go(n, "journalTransfer")
       ELSE UNCHANGED reg /\ Go(n, "restore")
    /\ UNCHANGED <<procs, records, plan, bid, starter, listed, network, budget>>

JournalTransfer(n) ==
    /\ At(n, "source", "journalTransfer")
    /\ Record(n, call[n].mig, "transferring")
    /\ Go(n, "kill")
    /\ UNCHANGED <<reg, procs, original, plan, bid, starter, listed, network, budget>>

(* runtime.stop, in a thread: signal the recorded process, wait for its end,
   mark_stopped.  What can fall between the end and mark_stopped is at most the
   polling interval of 0.1 s and is left out; a daemon that dies there is one
   that dies before the signal with a process that exits by itself. *)
StopProcess(n) ==
    /\ call[n].at = "kill"
    /\ procs' = IF reg[n].status = "completed" THEN procs
                ELSE [procs EXCEPT ![n] = @ \ {reg[n].pid}]
    /\ Write(n, MarkStopped(reg[n]))
    /\ call' = IF call[n].kind = "source"
               THEN [call EXCEPT ![n] = [@ EXCEPT !.at = "transfer", !.stopped = TRUE]]
               ELSE [call EXCEPT ![n] = [@ EXCEPT !.at = "abort"]]
    /\ UNCHANGED <<records, plan, bid, starter, listed, network, budget>>

(* Checkpoint validation and transfer. *)
TransferDone(n) ==
    /\ At(n, "source", "transfer")
    /\ Go(n, "request")
    /\ UNCHANGED <<reg, procs, records, plan, bid, starter, listed, network, budget>>

TransferFailed(n) ==
    /\ At(n, "source", "transfer")
    /\ Go(n, "restore")
    /\ UNCHANGED <<reg, procs, records, plan, bid, starter, listed, network, budget>>

(* Mutant: the record is not written before the request is sent. *)
RequestActivation_Unrecorded(n) ==
    /\ At(n, "source", "request")
    /\ requests' = requests \cup {<<call[n].mig, 1>>}
    /\ call' = [call EXCEPT ![n] = [@ EXCEPT !.at = "await", !.attempt = 1]]
    /\ UNCHANGED <<reg, procs, records, plan, bid, starter, listed, responses, budget>>

RequestActivation(n) ==
    /\ At(n, "source", "request")
    /\ Record(n, call[n].mig, "activating")
    /\ requests' = requests \cup {<<call[n].mig, 1>>}
    /\ call' = [call EXCEPT ![n] = [@ EXCEPT !.at = "await", !.attempt = 1]]
    /\ UNCHANGED <<reg, procs, original, plan, bid, starter, listed, responses, budget>>

(* Mutant: response.activated is not looked at. *)
ReceiveResponse_AnyIsSuccess(n) ==
    /\ At(n, "source", "await")
    /\ \E ok \in BOOLEAN :
          /\ <<call[n].mig, call[n].attempt, ok>> \in responses
          /\ responses' = responses \ {<<call[n].mig, call[n].attempt, ok>>}
          /\ Go(n, "remote")
    /\ UNCHANGED <<reg, procs, records, plan, bid, starter, listed, requests, budget>>

ReceiveResponse(n) ==
    /\ At(n, "source", "await")
    /\ \E ok \in BOOLEAN :
          /\ <<call[n].mig, call[n].attempt, ok>> \in responses
          /\ responses' = responses \ {<<call[n].mig, call[n].attempt, ok>>}
          /\ Go(n, IF ok THEN "remote" ELSE "restore")
    /\ UNCHANGED <<reg, procs, records, plan, bid, starter, listed, requests, budget>>

Serving(m, k) ==
    LET d == plan[m].dst
    IN  At(d, "destination", call[d].at) /\ call[d].mig = m /\ call[d].attempt = k

(* Mutant: the retry loop makes one attempt too many. *)
AttemptFails_OneMore(n) ==
    LET m == call[n].mig
        k == call[n].attempt
    IN  /\ At(n, "source", "await")
        /\ responses' = responses \ {<<m, k, ok>> : ok \in BOOLEAN}
        /\ ~Serving(m, k)
        /\ IF k <= MaxAttempts
           THEN /\ requests' = (requests \ {<<m, k>>}) \cup {<<m, k + 1>>}
                /\ call' = [call EXCEPT ![n] = [@ EXCEPT !.attempt = k + 1]]
                /\ UNCHANGED journal
           ELSE /\ requests' = requests \ {<<m, k>>}
                /\ Record(n, m, "uncertain")
                /\ Go(n, "query")
        /\ UNCHANGED <<reg, procs, original, plan, bid, starter, listed, budget>>

(* An attempt ends without a response: the request or the response was lost,
   or the client's timeout came first and the request lives on.  After the
   last attempt the outcome is unknown. *)
AttemptFails(n) ==
    LET m == call[n].mig
        k == call[n].attempt
    IN  /\ At(n, "source", "await")
        /\ responses' = responses \ {<<m, k, ok>> : ok \in BOOLEAN}
        /\ \E kept \in {r \in SUBSET (requests \cap {<<m, k>>}) :
                            r # {} => "lateRequest" \in Faults} :
              LET others == (requests \ {<<m, k>>}) \cup kept
              IN  /\ Serving(m, k) => "lateRequest" \in Faults
                  /\ IF k < MaxAttempts
                     THEN /\ requests' = others \cup {<<m, k + 1>>}
                          /\ call' = [call EXCEPT ![n] = [@ EXCEPT !.attempt = k + 1]]
                          /\ UNCHANGED journal
                     ELSE /\ requests' = others
                          /\ Record(n, m, "uncertain")
                          /\ Go(n, "query")
        /\ UNCHANGED <<reg, procs, original, plan, bid, starter, listed, budget>>

(* _query_remote_outcome polls until a terminal answer or its deadline; the
   reconciliation's window admits one query only. *)
QueryAnswered(n) ==
    /\ call[n].at = "query"
    /\ LET m == call[n].mig
       IN  call' = [call EXCEPT ![n] = [@ EXCEPT !.at = "decide", !.reached = TRUE,
                                                 !.answer = journal[plan[m].dst][m]]]
    /\ UNCHANGED <<reg, procs, records, plan, bid, starter, listed, network, budget>>

QueryFails(n) ==
    /\ call[n].at = "query"
    /\ call[n].reached => "flakyQuery" \in Faults
    /\ call' = [call EXCEPT ![n] = [@ EXCEPT !.at = "decide", !.answer = "none"]]
    /\ UNCHANGED <<reg, procs, records, plan, bid, starter, listed, network, budget>>

PollAgain(n) ==
    /\ At(n, "source", "decide")
    /\ call[n].answer \notin Terminal
    /\ Go(n, "query")
    /\ UNCHANGED <<reg, procs, records, plan, bid, starter, listed, network, budget>>

(* Mutant: any answer but "activated" counts as not committed. *)
NotCommitted_AnyAnswer(c) == c.reached /\ c.answer # "activated"

(* The destination rolled back, or answered and knew of nothing. *)
NotCommitted(c) == \/ c.answer = "rolled_back"
                   \/ c.reached /\ c.answer = "none"

ResolveActivated(n) ==
    /\ call[n].at = "decide"
    /\ call[n].answer = "activated"
    /\ Go(n, "remote")
    /\ UNCHANGED <<reg, procs, records, plan, bid, starter, listed, network, budget>>

ResolveNotCommitted(n) ==
    /\ call[n].at = "decide"
    /\ NotCommitted(call[n])
    /\ Go(n, "undo")
    /\ UNCHANGED <<reg, procs, records, plan, bid, starter, listed, network, budget>>

(* Mutant: an unknown outcome is handled like a failure, the source restarts. *)
ResolveUnknown_Restart(n) ==
    /\ call[n].at = "decide"
    /\ call[n].answer # "activated"
    /\ ~NotCommitted(call[n])
    /\ Go(n, "undo")
    /\ UNCHANGED <<reg, procs, records, plan, bid, starter, listed, network, budget>>

ResolveUnknown(n) ==
    /\ call[n].at = "decide"
    /\ call[n].answer # "activated"
    /\ ~NotCommitted(call[n])
    /\ IF call[n].kind = "source"
       THEN Write(n, MarkExhausted(reg[n])) /\ Go(n, "cancel") /\ UNCHANGED journal
       ELSE Record(n, call[n].mig, "uncertain") /\ Release(n) /\ UNCHANGED reg
    /\ UNCHANGED <<procs, original, plan, bid, starter, listed, network, budget>>

(* _finalize_source_success: give the task away, broadcast, journal.  The
   broadcast is best effort; what it carries is what Gossip reads. *)
GiveAway(n) ==
    LET m == call[n].mig
    IN  /\ call[n].at = "remote"
        /\ Write(n, MarkRemote(reg[n], plan[m].dst, plan[m].gen, m))
        /\ Go(n, "commit")
        /\ UNCHANGED <<procs, records, plan, bid, starter, listed, network, budget>>

CommitSource(n) ==
    /\ call[n].at = "commit"
    /\ Record(n, call[n].mig, "activated")
    /\ Release(n)
    /\ UNCHANGED <<reg, procs, original, plan, bid, starter, listed, network, budget>>

Previous(gen) == IF gen = 0 THEN 0 ELSE gen - 1

(* _rollback_source_record: restore the record's snapshot as a stopped local
   task of the previous generation, start it, journal. *)
UndoSource(n) ==
    LET m == call[n].mig
    IN  /\ call[n].at = "undo"
        /\ Write(n, RestoreLocal(n, original[n][m], Previous(plan[m].gen)))
        /\ Go(n, "spawn")
        /\ UNCHANGED <<procs, records, plan, bid, starter, listed, network, budget>>

(* Mutant: the failure path forgets to start the task again. *)
RestoreSource_NoRestart(n) ==
    /\ At(n, "source", "restore")
    /\ Write(n, RestoreLocal(n, reg[n], original[n][call[n].mig].gen))
    /\ Go(n, "journalUndo")
    /\ UNCHANGED <<procs, records, plan, bid, starter, listed, network, budget>>

(* The generic failure path of migrate: restart only if the stop returned. *)
RestoreSource(n) ==
    /\ At(n, "source", "restore")
    /\ Write(n, RestoreLocal(n, reg[n], original[n][call[n].mig].gen))
    /\ Go(n, IF call[n].stopped THEN "spawn" ELSE "journalUndo")
    /\ UNCHANGED <<procs, records, plan, bid, starter, listed, network, budget>>

JournalUndo(n) ==
    /\ call[n].at = "journalUndo"
    /\ Record(n, call[n].mig, "rolled_back")
    /\ IF call[n].kind = "source" THEN Go(n, "cancel") ELSE Release(n)
    /\ UNCHANGED <<reg, procs, original, plan, bid, starter, listed, network, budget>>

Cancelled(b) == IF b \in HeldBid THEN "cancelled" ELSE b

(* The finally clause: cancel the destination's reservation; errors are
   swallowed, so the cancellation may be lost. *)
CancelReservation(n) ==
    /\ At(n, "source", "cancel")
    /\ \/ bid' = [bid EXCEPT ![call[n].mig] = Cancelled(@)]
       \/ UNCHANGED bid
    /\ Release(n)
    /\ UNCHANGED <<reg, procs, records, plan, starter, listed, network, budget>>

-------------------------------------------------------------------------------
(* runtime.start, in a thread, within a call: the registry's checks, the new
   process and its readiness, then mark_running.  A start that raises leaves
   the source with a failed task and makes an activation roll back. *)

AfterStart(n) == IF call[n].kind = "destination" THEN "consume" ELSE "journalUndo"

StartRaised(n, e) ==
    /\ Write(n, IF call[n].kind = "destination" THEN e ELSE MarkFailed(e))
    /\ Go(n, IF call[n].kind = "destination" THEN "abort" ELSE "journalUndo")

AlreadyRunning(n) == reg[n].status = "running" /\ Alive(n, reg[n].pid)

Spawn(n) ==
    /\ call[n].at = "spawn"
    /\ CanRun(n, reg[n])
    /\ ~AlreadyRunning(n)
    /\ \E p \in Pids : /\ FreshPid(n, p)
                       /\ procs' = [procs EXCEPT ![n] = @ \cup {p}]
                       /\ call' = [call EXCEPT ![n] = [@ EXCEPT !.at = "running", !.pid = p]]
    /\ UNCHANGED <<reg, records, plan, bid, starter, listed, network, budget>>

SpawnNotNeeded(n) ==
    /\ call[n].at = "spawn"
    /\ CanRun(n, reg[n])
    /\ AlreadyRunning(n)
    /\ Go(n, AfterStart(n))
    /\ UNCHANGED <<reg, procs, records, plan, bid, starter, listed, network, budget>>

SpawnRefused(n) ==
    /\ call[n].at = "spawn"
    /\ ~CanRun(n, reg[n])
    /\ StartRaised(n, reg[n])
    /\ UNCHANGED <<procs, records, plan, bid, starter, listed, network, budget>>

(* The process is killed again and start marks the task failed. *)
SpawnNotReady(n) ==
    /\ call[n].at = "spawn"
    /\ CanRun(n, reg[n])
    /\ ~AlreadyRunning(n)
    /\ Fault("startFails")
    /\ StartRaised(n, MarkFailed(reg[n]))
    /\ UNCHANGED <<procs, records, plan, bid, starter, listed, network>>

MarkRunningAfterSpawn(n) ==
    /\ call[n].at = "running"
    /\ IF CanRun(n, reg[n])
       THEN /\ Write(n, MarkRunning(reg[n], call[n].pid))
            /\ call' = [call EXCEPT ![n] = [@ EXCEPT !.at = AfterStart(n), !.pid = NoPid]]
       ELSE StartRaised(n, reg[n])   \* and nobody stops the new process
    /\ UNCHANGED <<procs, records, plan, bid, starter, listed, network, budget>>

-------------------------------------------------------------------------------
(* activate_incoming at the destination. *)

Respond(m, k, ok) ==
    LET s == plan[m].src
    IN  responses' = IF At(s, "source", "await") /\ call[s].mig = m /\ call[s].attempt = k
                     THEN responses \cup {<<m, k, ok>>} ELSE responses

ClaimedFor(n, m) == reg[n].last = m /\ reg[n].owner = n /\ reg[n].gen = plan[m].gen

(* A retry of an activation that has already claimed the task is answered
   from the registry entry. *)
AnswerClaimed(n, m, k) ==
    /\ Free(n)
    /\ Undisturbed(n)
    /\ n = plan[m].dst
    /\ <<m, k>> \in requests
    /\ ClaimedFor(n, m)
    /\ requests' = requests \ {<<m, k>>}
    /\ Record(n, m, "activated")
    /\ Respond(m, k, TRUE)
    /\ UNCHANGED <<reg, procs, original, plan, bid, call, starter, listed, budget>>

AnswerRolledBack(n, m, k) ==
    /\ Free(n)
    /\ n = plan[m].dst
    /\ <<m, k>> \in requests
    /\ ~ClaimedFor(n, m)
    /\ journal[n][m] = "rolled_back"
    /\ requests' = requests \ {<<m, k>>}
    /\ Respond(m, k, FALSE)
    /\ UNCHANGED <<reg, procs, records, plan, bid, call, starter, listed, budget>>

(* Mutant: a request for a migration rolled back before is tried again. *)
StartActivation_AfterRollback(n, m, k) ==
    /\ Free(n)
    /\ Undisturbed(n)
    /\ n = plan[m].dst
    /\ <<m, k>> \in requests
    /\ ~ClaimedFor(n, m)
    /\ requests' = requests \ {<<m, k>>}
    /\ Record(n, m, "activating")
    /\ call' = [call EXCEPT ![n] = [NoCall(n) EXCEPT !.kind = "destination", !.at = "begin",
                                        !.mig = m, !.attempt = k, !.saved = reg[n]]]
    /\ UNCHANGED <<reg, procs, original, plan, bid, starter, listed, responses, budget>>

StartActivation(n, m, k) ==
    /\ Free(n)
    /\ Undisturbed(n)
    /\ n = plan[m].dst
    /\ <<m, k>> \in requests
    /\ ~ClaimedFor(n, m)
    /\ journal[n][m] # "rolled_back"
    /\ requests' = requests \ {<<m, k>>}
    /\ Record(n, m, "activating")
    /\ original' = IF journal[n][m] = "none" THEN [original EXCEPT ![n][m] = reg[n]]
                                             ELSE original
    /\ call' = [call EXCEPT ![n] = [NoCall(n) EXCEPT !.kind = "destination", !.at = "begin",
                                        !.mig = m, !.attempt = k, !.saved = reg[n]]]
    /\ UNCHANGED <<reg, procs, plan, bid, starter, listed, responses, budget>>

(* Only a matching, unexpired reservation may activate. *)
BeginActivation(n) ==
    /\ At(n, "destination", "begin")
    /\ IF bid[call[n].mig] = "accepted"
       THEN bid' = [bid EXCEPT ![call[n].mig] = "activating"] /\ Go(n, "claim")
       ELSE UNCHANGED bid /\ Go(n, "abort")
    /\ UNCHANGED <<reg, procs, records, plan, starter, listed, network, budget>>

(* Checkpoint copied and validated, artifacts staged, then claim_local. *)
ClaimTask(n) ==
    LET m == call[n].mig
    IN  /\ At(n, "destination", "claim")
        /\ IF CanClaim(reg[n], plan[m].gen)
           THEN Write(n, ClaimLocal(n, reg[n], plan[m].gen, m)) /\ Go(n, "spawn")
           ELSE UNCHANGED reg /\ Go(n, "abort")
        /\ UNCHANGED <<procs, records, plan, bid, starter, listed, network, budget>>

CheckpointInvalid(n) ==
    /\ At(n, "destination", "claim")
    /\ Go(n, "abort")
    /\ UNCHANGED <<reg, procs, records, plan, bid, starter, listed, network, budget>>

(* Mutants: a reservation that expired meanwhile is not noticed; the process
   that was started is left running when it is. *)
ConsumeReservation_Expired(n) ==
    /\ At(n, "destination", "consume")
    /\ bid' = [bid EXCEPT ![call[n].mig] = IF @ = "activating" THEN "consumed" ELSE @]
    /\ Go(n, "confirm")
    /\ UNCHANGED <<reg, procs, records, plan, starter, listed, network, budget>>

ConsumeReservation_NoStop(n) ==
    /\ At(n, "destination", "consume")
    /\ IF bid[call[n].mig] = "activating"
       THEN bid' = [bid EXCEPT ![call[n].mig] = "consumed"] /\ Go(n, "confirm")
       ELSE UNCHANGED bid /\ Go(n, "abort")
    /\ UNCHANGED <<reg, procs, records, plan, starter, listed, network, budget>>

ConsumeReservation(n) ==
    /\ At(n, "destination", "consume")
    /\ IF bid[call[n].mig] = "activating"
       THEN bid' = [bid EXCEPT ![call[n].mig] = "consumed"] /\ Go(n, "confirm")
       ELSE UNCHANGED bid /\ Go(n, "kill")
    /\ UNCHANGED <<reg, procs, records, plan, starter, listed, network, budget>>

ConfirmActivation(n) ==
    LET c == call[n]
    IN  /\ At(n, "destination", "confirm")
        /\ Record(n, c.mig, "activated")
        /\ Respond(c.mig, c.attempt, TRUE)
        /\ Release(n)
        /\ UNCHANGED <<reg, procs, original, plan, bid, starter, listed, requests, budget>>

(* Roll back: restore the entry saved by this call (or kept in the record, in
   reconciliation), journal, and give the reservation back. *)
AbortActivation(n) ==
    /\ call[n].at = "abort"
    /\ Write(n, call[n].saved)
    /\ Go(n, "journalAbort")
    /\ UNCHANGED <<procs, records, plan, bid, starter, listed, network, budget>>

(* Mutant: an activation is undone but its record is not closed. *)
JournalAbort_Open(n) ==
    LET m == call[n].mig
    IN  /\ call[n].at = "journalAbort"
        /\ IF call[n].kind = "destination"
           THEN UNCHANGED bid /\ Go(n, "refuse")
           ELSE bid' = [bid EXCEPT ![m] = Cancelled(@)] /\ Release(n)
        /\ UNCHANGED <<reg, procs, records, plan, starter, listed, network, budget>>

(* The record is closed.  Reconciliation gives the reservation back just
   before; dying between the two leaves what an expired reservation leaves. *)
JournalAbort(n) ==
    LET m == call[n].mig
    IN  /\ call[n].at = "journalAbort"
        /\ Record(n, m, "rolled_back")
        /\ IF call[n].kind = "destination"
           THEN UNCHANGED bid /\ Go(n, "refuse")
           ELSE bid' = [bid EXCEPT ![m] = Cancelled(@)] /\ Release(n)
        /\ UNCHANGED <<reg, procs, original, plan, starter, listed, network, budget>>

RefuseActivation(n) ==
    LET c == call[n]
    IN  /\ At(n, "destination", "refuse")
        /\ bid' = [bid EXCEPT ![c.mig] = Cancelled(@)]
        /\ Respond(c.mig, c.attempt, FALSE)
        /\ Release(n)
        /\ UNCHANGED <<reg, procs, records, plan, starter, listed, requests, budget>>

-------------------------------------------------------------------------------
(* reconcile_durable_state: list the records once, then handle each non-terminal
   one under the lock, as it was when it was listed. *)

ListRecords(n) ==
    /\ listed[n] = NothingListed
    /\ ~Free(n) => "staleList" \in Faults
    /\ Unfinished(n)
    /\ listed' = [listed EXCEPT ![n] =
                    [m \in Migrations |-> IF journal[n][m] \in Terminal THEN "none"
                                                                        ELSE journal[n][m]]]
    /\ UNCHANGED <<reg, procs, records, plan, bid, call, starter, network, budget>>

Turn(n, m) == /\ Free(n)
              /\ listed[n][m] # "none"
              /\ \A i \in Migrations : i < m => listed[n][i] = "none"
Handled(n, m) == listed' = [listed EXCEPT ![n][m] = "none"]
TakeUp(n, m, place) ==
    call' = [call EXCEPT ![n] = [NoCall(n) EXCEPT !.kind = "reconcile", !.at = place,
                                                  !.mig = m, !.saved = original[n][m]]]

Committed(n, m) == ClaimedFor(n, m) /\ reg[n].status \in LiveStatus

ReconcileCommitted(n, m) ==
    /\ Turn(n, m)
    /\ n = plan[m].dst
    /\ Committed(n, m)
    /\ bid' = [bid EXCEPT ![m] = IF @ \in HeldBid THEN "consumed" ELSE @]
    /\ Record(n, m, "activated")
    /\ Handled(n, m)
    /\ UNCHANGED <<reg, procs, original, plan, call, starter, network, budget>>

ReconcileIncomplete(n, m) ==
    /\ Turn(n, m)
    /\ n = plan[m].dst
    /\ ~Committed(n, m)
    /\ TakeUp(n, m, IF reg[n].last = m /\ reg[n].owner = n /\ reg[n].pid # NoPid
                       THEN "kill" ELSE "abort")
    /\ Handled(n, m)
    /\ UNCHANGED <<reg, procs, records, plan, bid, starter, network, budget>>

GivenAway(n, m) == reg[n].owner = plan[m].dst /\ reg[n].gen >= plan[m].gen
NeverQuiesced(n, m) == /\ listed[n][m] = "preparing"
                       /\ reg[n].owner = n
                       /\ reg[n].status # "migrating"

ReconcileSettled(n, m) ==
    /\ Turn(n, m)
    /\ n = plan[m].src
    /\ \/ GivenAway(n, m) /\ Record(n, m, "activated")
       \/ ~GivenAway(n, m) /\ NeverQuiesced(n, m) /\ Record(n, m, "rolled_back")
    /\ Handled(n, m)
    /\ UNCHANGED <<reg, procs, original, plan, bid, call, starter, network, budget>>

ReconcileSource(n, m) ==
    /\ Turn(n, m)
    /\ n = plan[m].src
    /\ ~GivenAway(n, m)
    /\ ~NeverQuiesced(n, m)
    /\ TakeUp(n, m, "query")
    /\ Handled(n, m)
    /\ UNCHANGED <<reg, procs, records, plan, bid, starter, network, budget>>

-------------------------------------------------------------------------------
(* The services that do not take the migration lock. *)

(* A claim that may still be rolled back. *)
Uncommitted(n) == \E m \in Migrations : /\ n = plan[m].dst
                                        /\ ClaimedFor(n, m)
                                        /\ journal[n][m] # "activated"

(* Anti-entropy and broadcasts: n applies what j's registry says. *)
Gossip(n, j) ==
    /\ Uncommitted(j) => "claimLeak" \in Faults
    /\ Accepts(reg[n], Claim(reg[j]))
    /\ ApplyOwnership(n, reg[n], Claim(reg[j])) # reg[n]
    /\ Write(n, ApplyOwnership(n, reg[n], Claim(reg[j])))
    /\ UNCHANGED <<procs, records, plan, bid, call, starter, listed, network, budget>>

(* Expiry by any access to the destination's bid store. *)
ExpireReservation(m) ==
    /\ bid[m] \in HeldBid
    /\ bid' = [bid EXCEPT ![m] = "expired"]
    /\ UNCHANGED <<reg, procs, records, plan, call, starter, listed, network, budget>>

ProcessExits(n) ==
    /\ Fault("exit")
    /\ \E p \in procs[n] : procs' = [procs EXCEPT ![n] = @ \ {p}]
    /\ UNCHANGED <<reg, records, plan, bid, call, starter, listed, network>>

(* runtime.reconcile: a recorded process that is gone has completed if it left
   a valid marker and has failed otherwise. *)
ReconcileRuntime(n) ==
    /\ reg[n].owner = n
    /\ reg[n].status \in {"running", "paused"}
    /\ ~Alive(n, reg[n].pid)
    /\ \/ Write(n, MarkFailed(reg[n]))
       \/ "completes" \in Faults /\ Write(n, MarkCompleted(reg[n]))
    /\ UNCHANGED <<procs, records, plan, bid, call, starter, listed, network, budget>>

(* FailureRecoveryService, its backoff and attempt limit left to TaskLifecycle. *)
Recover(n) ==
    /\ starter[n].at = "idle"
    /\ CanRecover(n, reg[n])
    /\ ~reg[n].exhausted
    /\ Unfinished(n) => "recoverEarly" \in Faults
    /\ Write(n, BeginRecovery(reg[n]))
    /\ starter' = [starter EXCEPT ![n].at = "spawn"]
    /\ UNCHANGED <<procs, records, plan, bid, call, listed, network, budget>>

OperatorStart(n) ==
    /\ starter[n].at = "idle"
    /\ CanRun(n, reg[n])
    /\ Fault("operatorStart")
    /\ starter' = [starter EXCEPT ![n].at = "spawn"]
    /\ UNCHANGED <<reg, procs, records, plan, bid, call, listed, network>>

StarterSpawn(n) ==
    /\ starter[n].at = "spawn"
    /\ IF CanRun(n, reg[n]) /\ ~AlreadyRunning(n)
       THEN \E p \in Pids : /\ FreshPid(n, p)
                            /\ procs' = [procs EXCEPT ![n] = @ \cup {p}]
                            /\ starter' = [starter EXCEPT ![n] = [at |-> "running", pid |-> p]]
       ELSE UNCHANGED procs /\ starter' = [starter EXCEPT ![n] = NoStart]
    /\ UNCHANGED <<reg, records, plan, bid, call, listed, network, budget>>

StarterNotReady(n) ==
    /\ starter[n].at = "spawn"
    /\ CanRun(n, reg[n])
    /\ ~AlreadyRunning(n)
    /\ Fault("startFails")
    /\ Write(n, MarkFailed(reg[n]))
    /\ starter' = [starter EXCEPT ![n] = NoStart]
    /\ UNCHANGED <<procs, records, plan, bid, call, listed, network>>

StarterRunning(n) ==
    /\ starter[n].at = "running"
    /\ IF CanRun(n, reg[n]) THEN Write(n, MarkRunning(reg[n], starter[n].pid))
                            ELSE UNCHANGED reg
    /\ starter' = [starter EXCEPT ![n] = NoStart]
    /\ UNCHANGED <<procs, records, plan, bid, call, listed, network, budget>>

-------------------------------------------------------------------------------
(* A daemon dies and is restarted: its calls, its lists and the connections to
   it are gone; what is durable stays. *)

Moving(n) == call[n].at \in {"journalTransfer", "kill", "running", "journalUndo"}
             \/ starter[n].at # "idle"

Forget(n) ==
    /\ Release(n)
    /\ starter' = [starter EXCEPT ![n] = NoStart]
    /\ listed' = [listed EXCEPT ![n] = NothingListed]
    /\ requests' = {r \in requests : /\ plan[r[1]].dst # n
                                     /\ plan[r[1]].src = n => "lateRequest" \in Faults}
    /\ responses' = {r \in responses : plan[r[1]].src # n}

Crash(n) ==
    /\ Fault("crash")
    /\ Moving(n) => "crashOnMove" \in Faults
    /\ Uncommitted(n) => "crashOnClaim" \in Faults
    /\ Forget(n)
    /\ UNCHANGED <<reg, procs, records, plan, bid>>

ServiceCrash(n) ==
    /\ Fault("serviceCrash")
    /\ Uncommitted(n) => "crashOnClaim" \in Faults
    /\ Forget(n)
    /\ procs' = [procs EXCEPT ![n] = {}]
    /\ UNCHANGED <<reg, records, plan, bid>>

-------------------------------------------------------------------------------
SchedulerNext(n) == \E d \in Nodes : StartMigration(n, d)

SourceNext(n) ==
    \/ PrefetchDone(n)      \/ PrefetchFailed(n)    \/ MarkSource(n)
    \/ JournalTransfer(n)   \/ TransferDone(n)      \/ TransferFailed(n)
    \/ RequestActivation(n) \/ ReceiveResponse(n)   \/ AttemptFails(n)
    \/ QueryAnswered(n)     \/ QueryFails(n)        \/ PollAgain(n)
    \/ ResolveActivated(n)  \/ ResolveNotCommitted(n) \/ ResolveUnknown(n)
    \/ GiveAway(n)          \/ CommitSource(n)      \/ UndoSource(n)
    \/ RestoreSource(n)     \/ JournalUndo(n)       \/ CancelReservation(n)

ProcessNext(n) ==
    \/ StopProcess(n)       \/ Spawn(n)             \/ SpawnNotNeeded(n)    \/ SpawnRefused(n)
    \/ SpawnNotReady(n)     \/ MarkRunningAfterSpawn(n)

DestinationNext(n) ==
    \/ \E m \in Migrations, k \in Attempts :
          AnswerClaimed(n, m, k) \/ AnswerRolledBack(n, m, k) \/ StartActivation(n, m, k)
    \/ BeginActivation(n)   \/ ClaimTask(n)         \/ CheckpointInvalid(n)
    \/ ConsumeReservation(n) \/ ConfirmActivation(n)
    \/ AbortActivation(n)   \/ JournalAbort(n)      \/ RefuseActivation(n)

ReconcileNext(n) ==
    \/ ListRecords(n)
    \/ \E m \in Migrations : \/ ReconcileCommitted(n, m) \/ ReconcileIncomplete(n, m)
                             \/ ReconcileSettled(n, m)   \/ ReconcileSource(n, m)

ServiceNext(n) ==
    \/ \E j \in Nodes : Gossip(n, j)
    \/ ReconcileRuntime(n)  \/ Recover(n)
    \/ StarterSpawn(n)      \/ StarterRunning(n)    \/ StarterNotReady(n)

EnvironmentNext(n) ==
    \/ ProcessExits(n) \/ OperatorStart(n) \/ Crash(n) \/ ServiceCrash(n)

Next ==
    \/ \E n \in Nodes : \/ SchedulerNext(n) \/ SourceNext(n) \/ ProcessNext(n) \/ DestinationNext(n)
                        \/ ReconcileNext(n) \/ ServiceNext(n) \/ EnvironmentNext(n)
    \/ \E m \in Migrations : ExpireReservation(m)

Spec == Init /\ [][Next]_vars

Resolve(n) == ResolveActivated(n) \/ ResolveNotCommitted(n) \/ ResolveUnknown(n)
(* Every daemon runs: a call that can go on goes on, the service loops come
   round.  The polling loop has a deadline, so a source does not poll for ever;
   a destination that is asked again and again answers in the end. *)
Fairness ==
    \A n \in Nodes : /\ WF_vars(SourceNext(n))
                     /\ WF_vars(ProcessNext(n))
                     /\ WF_vars(DestinationNext(n))
                     /\ WF_vars(ReconcileNext(n))
                     /\ WF_vars(ServiceNext(n))
                     /\ SF_vars(Resolve(n))
                     /\ SF_vars(QueryAnswered(n))
FairSpec == Spec /\ Fairness

-------------------------------------------------------------------------------
(* Properties. *)

Begun == {m \in Migrations : plan[m] # NoPlan}

(* The task is executed by at most one process of the whole cluster: whatever
   is lost, fails or restarts, the source's restart (the two spawn paths of
   migrate and _rollback_source_record) and the destination's start
   (activate_incoming) never overlap. *)
NoDuplicateExecution ==
    \A a, b \in Nodes : \A p \in procs[a], q \in procs[b] : <<a, p>> = <<b, q>>

(* Every live process is the one its node's registry names, or is being started
   by a call that will write it there: LocalProcessRuntime.stop and .pause find
   a process by the recorded pid only, so nobody could ever stop another. *)
NoOrphanProcess ==
    \A n \in Nodes : procs[n] \subseteq {reg[n].pid, call[n].pid, starter[n].pid}

(* The records are written ahead: a destination has a record of a migration
   only if the source's own record says that it may have been activated, and
   touches the reservation only after its own record.  A restart at either end
   (reconcile_durable_state) therefore never mistakes a migration that may have
   moved the task for one that had not begun. *)
WriteAhead ==
    \A m \in Migrations :
        /\ journal[plan[m].dst][m] # "none" /\ plan[m] # NoPlan
              => journal[plan[m].src][m] \notin {"none", "preparing", "transferring"}
        /\ bid[m] \in {"activating", "consumed"} => journal[plan[m].dst][m] # "none"

(* The fence works: no two registries name different owners for the same
   generation, so apply_ownership never meets a conflict it cannot resolve. *)
OneOwnerPerGeneration ==
    \A a, b \in Nodes : reg[a].gen = reg[b].gen => reg[a].owner = reg[b].owner

(* Ownership moves only after the activation committed: no other node names a
   destination as owner by a migration the destination has not committed,
   although claim_local precedes the commit and anti-entropy may read it. *)
OwnershipAfterCommit ==
    \A m \in Begun, n \in Nodes :
        /\ n # plan[m].dst
        /\ reg[n].last = m
        /\ reg[n].owner = plan[m].dst
        => journal[plan[m].dst][m] = "activated"

(* While the outcome is uncertain the source stays stopped: after
   mark_recovery_exhausted neither recovery nor anyone else starts the task
   there until reconciliation has resolved the record. *)
UncertainStaysStopped ==
    \A m \in Begun :
        LET s == plan[m].src
        IN  journal[s][m] = "uncertain" /\ Free(s) => procs[s] = {}

(* An activation is all or nothing: a destination whose record is committed
   (activate_incoming, _reconcile_destination_record) has consumed the
   reservation, so its capacity is not given to another task as well. *)
ActivatedConsumed ==
    \A m \in Begun : journal[plan[m].dst][m] = "activated" => bid[m] = "consumed"

(* A source that restarts the task after an unknown outcome (migrate's and
   _reconcile_source_record's use of _query_remote_outcome) does so only while
   the destination's journal says it was rolled back or never recorded. *)
RestartOnlyIfNotCommitted ==
    [][\A n \in Nodes : call[n].at = "decide" /\ call'[n].at = "undo" =>
          LET m == call[n].mig IN journal[plan[m].dst][m] \in {"none", "rolled_back"}]_vars

(* A terminal record is final: what migrate, activate_incoming or reconciliation
   decided once is never decided otherwise by a retry or a restart. *)
DecisionIsFinal ==
    [][\A m \in Begun, n \in Nodes : journal[n][m] \in Terminal
                                        => journal'[n][m] = journal[n][m]]_vars

(* A node's generation, the fence of apply_ownership, falls only where
   activate_incoming or reconciliation undoes the claim it had made itself. *)
GenerationFallsOnlyOnAbort ==
    [][\A n \in Nodes : reg'[n].gen < reg[n].gen => call[n].at = "abort"]_vars

(* Every migration that begins ends: its source's record becomes terminal, by
   migrate itself or by reconciliation, however often a daemon restarts. *)
MigrationEnds ==
    \A m \in Migrations :
        plan[m] # NoPlan ~> plan[m] # NoPlan /\ journal[plan[m].src][m] \in Terminal

(* And in the end the task is looked after: from some time on its owner runs it,
   has completed it, or knows that it failed. *)
LookedAfter == \E n \in Nodes :
                  /\ reg[n].owner = n
                  /\ \/ Alive(n, reg[n].pid)
                     \/ reg[n].status \in {"failed", "completed"}
EventuallyLookedAfter == <>[]LookedAfter
===============================================================================
