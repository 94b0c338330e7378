------------------------------- MODULE Handover -------------------------------
(***************************************************************************)
(* What the migration protocol promises: a task has a place, one process   *)
(* at most executes it, and a migration moves it as a whole or not at all. *)
(* There are no messages, records, claims or restarts here; Migration is   *)
(* shown to implement this.                                                *)
(***************************************************************************)
CONSTANTS Nodes, Home, Migrations, Pids

VARIABLES place,    \* the node the task belongs to
          workers,  \* the processes that execute it, as <<node, pid>>
          outcome,  \* [Migrations -> Outcome]
          from, to  \* [Migrations -> Nodes]  of migrations that have begun

handoverVars == <<place, workers, outcome, from, to>>

Outcome == {"none", "open", "moved", "stayed"}

HandoverTypeOK ==
    /\ place \in Nodes
    /\ workers \subseteq Nodes \X Pids
    /\ outcome \in [Migrations -> Outcome]
    /\ from \in [Migrations -> Nodes] /\ to \in [Migrations -> Nodes]

HandoverInit ==
    /\ place = Home
    /\ \E p \in Pids : workers = {<<Home, p>>}
    /\ outcome = [m \in Migrations |-> "none"]
    /\ from = [m \in Migrations |-> Home] /\ to = [m \in Migrations |-> Home]

Open(m) == outcome[m] = "open"

(* One migration at a time, from the task's place. *)
Begin(m, d) ==
    /\ outcome[m] = "none" /\ \A i \in Migrations : ~Open(i)
    /\ d \in Nodes \ {place}
    /\ outcome' = [outcome EXCEPT ![m] = "open"]
    /\ from' = [from EXCEPT ![m] = place] /\ to' = [to EXCEPT ![m] = d]
    /\ UNCHANGED <<place, workers>>

(* The task has moved: nobody but its new place executes it. *)
Move(m) ==
    /\ Open(m) /\ workers \subseteq {to[m]} \X Pids
    /\ outcome' = [outcome EXCEPT ![m] = "moved"]
    /\ place' = to[m]
    /\ UNCHANGED <<workers, from, to>>

(* The task stays: nobody but its old place executes it. *)
Stay(m) ==
    /\ Open(m) /\ workers \subseteq {from[m]} \X Pids
    /\ outcome' = [outcome EXCEPT ![m] = "stayed"]
    /\ UNCHANGED <<place, workers, from, to>>

(* The task is executed at its place, or where it is about to move to, and only
   when nobody executes it. *)
May(n) == n = place \/ \E m \in Migrations : Open(m) /\ to[m] = n

Start(n, p) ==
    /\ May(n) /\ workers = {}
    /\ workers' = {<<n, p>>}
    /\ UNCHANGED <<place, outcome, from, to>>

(* Stopped, ended or died. *)
End ==
    /\ workers # {} /\ workers' = {}
    /\ UNCHANGED <<place, outcome, from, to>>

HandoverNext ==
    \/ \E m \in Migrations, d \in Nodes : Begin(m, d)
    \/ \E m \in Migrations : Move(m) \/ Stay(m)
    \/ \E n \in Nodes, p \in Pids : Start(n, p)
    \/ End

HandoverSpec == HandoverInit /\ [][HandoverNext]_handoverVars

-------------------------------------------------------------------------------
(* One process at most executes the task, and only where it belongs or where an
   undecided migration is about to take it. *)
WorksInPlace ==
    /\ \A v, w \in workers : v = w
    /\ \A w \in workers : May(w[1])

(* What was decided about a migration stays decided, and the task changes its
   place with such a decision only. *)
MovesByDecision ==
    [][ /\ \A m \in Migrations : outcome[m] \in {"moved", "stayed"} => outcome'[m] = outcome[m]
        /\ place' # place => \E m \in Migrations :
                               outcome[m] = "open" /\ outcome'[m] = "moved" /\ place' = to[m] ]_handoverVars
===============================================================================
