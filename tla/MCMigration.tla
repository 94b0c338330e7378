----------------------------- MODULE MCMigration ------------------------------
(* Model checking of Migration on small instances, and the refinement that shows
   that it implements Handover. *)
EXTENDS Migration

(* What the two records of a migration say together. *)
OutcomeOf(m) ==
    LET s == journal[plan[m].src][m]
        d == journal[plan[m].dst][m]
    IN  IF plan[m] = NoPlan THEN "none"
        ELSE CASE d = "activated" /\ s # "rolled_back" -> "moved"
               [] "activated" \notin {s, d} /\ "rolled_back" \in {s, d} -> "stayed"
               [] {s, d} \cap Terminal = {} -> "open"
               [] OTHER -> "torn"

Moved == {m \in Migrations : OutcomeOf(m) = "moved"}
PlaceOf == IF Moved = {} THEN Home
           ELSE plan[CHOOSE m \in Moved : \A i \in Moved : i <= m].dst

Abstract == INSTANCE Handover WITH
    place   <- PlaceOf,
    workers <- UNION {{n} \X procs[n] : n \in Nodes},
    outcome <- [m \in Migrations |-> OutcomeOf(m)],
    from    <- [m \in Migrations |-> plan[m].src],
    to      <- [m \in Migrations |-> plan[m].dst]

(* The protocol implements a handover that is a single step: the task has one
   process, at its place or where an undecided migration takes it, both records
   of a migration tell the same outcome, once and for all, and whoever executes
   the task when it is decided is on the right side of it. *)
ImplementsHandover == Abstract!HandoverSpec
===============================================================================
