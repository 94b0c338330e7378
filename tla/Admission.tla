------------------------------- MODULE Admission ------------------------------
(***************************************************************************)
(* What a destination computes about a bid: whether the node could run the *)
(* task at all (capabilities/checker.py), whether the task fits what is    *)
(* left of the node (bidding/resources.py) and where the bid ranks among   *)
(* its competitors (bidding/ranking.py).                                   *)
(*                                                                         *)
(* Amounts are whole numbers and shares are percentages.  A resource with  *)
(* no configured limit is not in the domain of a capacity; the task slot   *)
(* is a resource of which every task needs one.                            *)
(***************************************************************************)
EXTENDS Integers, Sequences, FiniteSetsExt

Resources == {"slot", "cpu", "memory", "gpu"}

(* What is left of a capacity when "used" is taken: never below zero, even
   if more is used than there is. *)
Remaining(capacity, used) ==
    [r \in DOMAIN capacity |-> IF used[r] > capacity[r] THEN 0 ELSE capacity[r] - used[r]]

FitsIn(left, need) == \A r \in DOMAIN left : need[r] <= left[r]

(* A task that wants a GPU of some type gets one of that type, unless the
   node does not say which types it has. *)
AcceleratorFits(node, offer, need) ==
    \/ need["gpu"] = 0
    \/ offer.accelerator = "any"
    \/ node.accelerators = {}
    \/ offer.accelerator \in node.accelerators

Total(need, T) == [r \in Resources |->
                     MapThenSumSet(LAMBDA t : need[t][r], T)]

(* The largest share of a limited resource that the task would take.  CPU
   counts always, memory and GPU only when they are asked for; without any
   limit the number of cores, but at least one, stands for the share. *)
DominantShare(capacity, need) ==
    LET counted == {r \in DOMAIN capacity \ {"slot"} : r = "cpu" \/ need[r] > 0}
        share(r) == IF capacity[r] = 0 THEN 10000 ELSE (100 * need[r]) \div capacity[r]
    IN  IF counted = {} THEN 100 * Max({need["cpu"], 1})
        ELSE Max({share(r) : r \in counted})

(* Versions are sequences of numbers, compared as Python compares tuples. *)
Precedes(v, w) ==
    \/ \E i \in DOMAIN v \cap DOMAIN w :
          v[i] < w[i] /\ \A j \in 1 .. i - 1 : v[j] = w[j]
    \/ Len(v) < Len(w) /\ \A j \in DOMAIN v : v[j] = w[j]

Satisfies(v, clause) ==
    CASE clause.op = ">=" -> ~Precedes(v, clause.version)
      [] clause.op = "<=" -> ~Precedes(clause.version, v)
      [] clause.op = ">"  -> Precedes(clause.version, v)
      [] clause.op = "<"  -> Precedes(v, clause.version)
      [] clause.op = "==" -> /\ Len(clause.version) <= Len(v)
                             /\ SubSeq(v, 1, Len(clause.version)) = clause.version

(* check_compatibility: what is not asked for is not checked, what is not
   advertised is missing. *)
Compatible(wants, has) ==
    /\ wants.architectures = {} \/ has.architecture \in wants.architectures
    /\ wants.systems = {} \/ has.system \in wants.systems
    /\ \A r \in DOMAIN wants.minimum : r \in DOMAIN has.amount /\ has.amount[r] >= wants.minimum[r]
    /\ wants.accelerators = {} \/ wants.accelerators \cap has.accelerators # {}
    /\ wants.commands \subseteq has.commands
    /\ wants.features \subseteq has.features
    /\ \A x \in DOMAIN wants.runtimes :
          /\ x \in DOMAIN has.runtimes
          /\ \A clause \in wants.runtimes[x] : Satisfies(has.runtimes[x], clause)

Strategies == {"lowest_score", "shortest_remaining", "longest_remaining", "credit_fair",
               "highest_regret", "priority_deadline", "resource_efficiency"}

Unknown == -1   \* a remaining time, or a deadline, that the bid does not state

(* Urgency in percent, from the slack that is left "age" after the bid came. *)
Urgency(offer, age, window) ==
    IF offer.slack = Unknown THEN 0
    ELSE Max({0, Min({200, 100 - (100 * (offer.slack - age)) \div window})})

(* What leaving the task where it is would lose, per share of the node. *)
Efficiency(capacity, offer, need, floor) ==
    (100 * Max({offer.loss, Max({0, 100 - offer.score})}))
        \div Max({DominantShare(capacity, need), floor})

(* The first component of the sort key: smaller is better. *)
RankKey(strategy, capacity, policy, offer, need, credit, age) ==
    CASE strategy = "lowest_score"        -> offer.score
      [] strategy = "shortest_remaining"  -> IF offer.remaining = Unknown THEN 1000000
                                             ELSE offer.remaining
      [] strategy = "longest_remaining"   -> IF offer.remaining = Unknown THEN 1
                                             ELSE -offer.remaining
      [] strategy = "credit_fair"         -> -credit
      [] strategy = "highest_regret"      -> -offer.loss
      [] strategy = "priority_deadline"   -> -(Urgency(offer, age, policy.window) + offer.priority)
      [] strategy = "resource_efficiency" -> -Efficiency(capacity, offer, need, policy.floor)

(* Lexicographic order of the sort keys (first, score, arrival, identifier). *)
LexLess(k, l) ==
    \E i \in DOMAIN k : k[i] < l[i] /\ \A j \in 1 .. i - 1 : k[j] = l[j]
===============================================================================
