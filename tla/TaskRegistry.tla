----------------------------- MODULE TaskRegistry -----------------------------
(***************************************************************************)
(* One task's durable entry in a node's PersistentTaskRegistry             *)
(* (src/magellan/state/persistent_registry.py) and the transitions the     *)
(* registry's mark_*, claim_* and apply_* methods make on it, as functions *)
(* on entries.  Timestamps, error texts, adapters and checkpoint metadata  *)
(* are left out; accounting counters have a module of their own.           *)
(*                                                                         *)
(* A transition that raises in the code is a guard here (CanX): the caller *)
(* decides what happens when it is false.                                  *)
(***************************************************************************)
EXTENDS Naturals

CONSTANTS Nodes,        \* the peers of the cluster
          Migrations,   \* numbers of the migrations that may be attempted
          Pids          \* numbers of the operating-system processes of a node

NoPid == 0
NoMigration == 0

Status == {"stopped", "running", "paused", "migrating", "recovering",
           "remote", "completed", "failed"}

(* A destination record is committed when the claimed task has one of these. *)
LiveStatus == {"running", "paused", "completed"}

Entry == [owner     : Nodes,
          gen       : Nat,
          status    : Status,
          pid       : Pids \cup {NoPid},
          last      : Migrations \cup {NoMigration},
          exhausted : BOOLEAN]

(* What a peer tells others of a task: the fields of an OwnershipUpdate that
   decide whether it is applied, and how. *)
Claim(e) == [owner |-> e.owner, gen |-> e.gen, last |-> e.last,
             completed |-> e.status = "completed"]

InitialEntry(n, home) ==
    [owner |-> home, gen |-> 0, status |-> IF n = home THEN "stopped" ELSE "remote",
     pid |-> NoPid, last |-> NoMigration, exhausted |-> FALSE]

CanRun(n, e)     == e.owner = n /\ e.status # "completed"
CanMigrate(n, e) == e.owner = n /\ e.status # "completed"
CanRecover(n, e) == e.owner = n /\ e.status = "failed"
CanClaim(e, g)   == g >= e.gen

MarkRunning(e, p)  == [e EXCEPT !.status = "running", !.pid = p, !.exhausted = FALSE]
MarkMigrating(e, m) == [e EXCEPT !.status = "migrating", !.last = m]
MarkFailed(e)      == [e EXCEPT !.status = "failed", !.pid = NoPid]
BeginRecovery(e)   == [e EXCEPT !.status = "recovering"]
MarkExhausted(e)   == [e EXCEPT !.status = "failed", !.pid = NoPid, !.exhausted = TRUE]
MarkCompleted(e)   == [e EXCEPT !.status = "completed", !.pid = NoPid, !.exhausted = FALSE]

(* mark_stopped: a completed task stays completed, every other status (even
   "migrating") becomes "stopped". *)
MarkStopped(e) ==
    IF e.status = "completed" THEN e ELSE [e EXCEPT !.status = "stopped", !.pid = NoPid]

(* Mutant: the claim does not raise the generation. *)
ClaimLocal_SameGeneration(n, e, g, m) ==
    [e EXCEPT !.owner = n, !.status = "stopped", !.pid = NoPid, !.last = m]

ClaimLocal(n, e, g, m) ==
    [e EXCEPT !.owner = n, !.gen = g, !.status = "stopped", !.pid = NoPid, !.last = m]

(* mark_remote overwrites whatever is there, except a completion reported by
   this very owner and generation. *)
MarkRemote(e, o, g, m) ==
    IF e.gen = g /\ e.owner = o /\ e.status = "completed"
    THEN e
    ELSE [e EXCEPT !.owner = o, !.gen = g, !.status = "remote", !.pid = NoPid, !.last = m]

RestoreLocal(n, e, g) ==
    [e EXCEPT !.owner = n, !.gen = g, !.status = "stopped", !.pid = NoPid]

(* Mutant: no fence. *)
Accepts_Unfenced(e, u) == u.gen = e.gen /\ e.status = "completed" => u.completed

(* apply_ownership: the generation fence.  A lower generation, another owner
   at the same generation, and a non-terminal claim over a completion of the
   same generation are refused. *)
Accepts(e, u) ==
    /\ u.gen >= e.gen
    /\ u.gen = e.gen => u.owner = e.owner
    /\ u.gen = e.gen /\ e.status = "completed" => u.completed

ApplyOwnership(n, e, u) ==
    LET known == [e EXCEPT !.owner = u.owner, !.gen = u.gen,
                           !.last = IF u.last = NoMigration THEN @ ELSE u.last]
    IN  CASE u.completed  -> [known EXCEPT !.status = "completed", !.pid = NoPid]
          [] ~u.completed /\ u.owner # n
                          -> [known EXCEPT !.status = "remote", !.pid = NoPid]
          [] OTHER        -> known
===============================================================================
