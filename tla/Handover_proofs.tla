---------------------------- MODULE Handover_proofs ----------------------------
(***************************************************************************)
(* What every implementation of Handover keeps, for all nodes, migrations  *)
(* and processes.                                                          *)
(***************************************************************************)
EXTENDS Handover, TLAPS

(* One migration is open at a time and takes the task from where it is. *)
OpenFromPlace ==
    /\ \A m \in Migrations : Open(m) => from[m] = place
    /\ \A m, i \in Migrations : Open(m) /\ Open(i) => m = i

Shape ==
    /\ workers \subseteq Nodes \X Pids
    /\ DOMAIN outcome = Migrations /\ DOMAIN from = Migrations /\ DOMAIN to = Migrations
    /\ outcome = [m \in Migrations |-> outcome[m]]
    /\ from = [m \in Migrations |-> from[m]] /\ to = [m \in Migrations |-> to[m]]

HandoverInv == Shape /\ OpenFromPlace /\ WorksInPlace

LEMMA HandoverInit_Inv == ASSUME Home \in Nodes PROVE HandoverInit => HandoverInv
BY DEF HandoverInit, HandoverInv, Shape, OpenFromPlace, WorksInPlace, Open, May

LEMMA HandoverStep_Inv == HandoverInv /\ [HandoverNext]_handoverVars => HandoverInv'
<1> SUFFICES ASSUME HandoverInv, [HandoverNext]_handoverVars PROVE HandoverInv'
  OBVIOUS
<1> USE DEF HandoverInv, Shape, Open
<1>1. ASSUME NEW m \in Migrations, NEW d \in Nodes, Begin(m, d) PROVE HandoverInv'
  <2>1. Shape' BY <1>1 DEF Begin
  <2>2. OpenFromPlace' BY <1>1 DEF Begin, OpenFromPlace
  <2>3. WorksInPlace' BY <1>1 DEF Begin, WorksInPlace, May
  <2> QED BY <2>1, <2>2, <2>3
<1>2. ASSUME NEW m \in Migrations, Move(m) PROVE HandoverInv'
  <2>1. Shape' BY <1>2 DEF Move
  <2>2. OpenFromPlace' BY <1>2 DEF Move, OpenFromPlace
  <2>3. \A w \in workers : w[1] = to[m] BY <1>2 DEF Move
  <2>4. WorksInPlace' BY <1>2, <2>3 DEF Move, WorksInPlace, May
  <2> QED BY <2>1, <2>2, <2>4
<1>3. ASSUME NEW m \in Migrations, Stay(m) PROVE HandoverInv'
  <2>1. Shape' BY <1>3 DEF Stay
  <2>2. OpenFromPlace' BY <1>3 DEF Stay, OpenFromPlace
  <2>3. \A w \in workers : w[1] = place BY <1>3 DEF Stay, OpenFromPlace
  <2>4. WorksInPlace' BY <1>3, <2>3 DEF Stay, WorksInPlace, May
  <2> QED BY <2>1, <2>2, <2>4
<1>4. ASSUME NEW n \in Nodes, NEW p \in Pids, Start(n, p) PROVE HandoverInv'
  <2>1. Shape' BY <1>4 DEF Start
  <2>2. OpenFromPlace' BY <1>4 DEF Start, OpenFromPlace
  <2>3. WorksInPlace' BY <1>4 DEF Start, WorksInPlace, May
  <2> QED BY <2>1, <2>2, <2>3
<1>5. CASE End
  BY <1>5 DEF End, OpenFromPlace, WorksInPlace, May
<1>6. CASE UNCHANGED handoverVars
  BY <1>6 DEF handoverVars, OpenFromPlace, WorksInPlace, May
<1> QED BY <1>1, <1>2, <1>3, <1>4, <1>5, <1>6 DEF HandoverNext

(* One process at most executes the task, and only where it belongs or where an
   undecided migration takes it: what migrate, activate_incoming and
   reconciliation (migration/service.py) promise together. *)
THEOREM WorksWhereItBelongs ==
  ASSUME Home \in Nodes PROVE HandoverSpec => []WorksInPlace
<1>1. HandoverInit => HandoverInv BY HandoverInit_Inv
<1>2. HandoverInv /\ [HandoverNext]_handoverVars => HandoverInv' BY HandoverStep_Inv
<1>3. HandoverInv => WorksInPlace BY DEF HandoverInv
<1> QED BY <1>1, <1>2, <1>3, PTL DEF HandoverSpec

(* A step that takes no decision back and moves the task by a decision only. *)
Keeps ==
    /\ \A m \in Migrations : outcome[m] \in {"moved", "stayed"} => outcome'[m] = outcome[m]
    /\ place' # place => \E m \in Migrations :
                           outcome[m] = "open" /\ outcome'[m] = "moved" /\ place' = to[m]

LEMMA HandoverStep_Keeps == HandoverInv /\ [HandoverNext]_handoverVars => Keeps
BY DEF Keeps, HandoverInv, Shape, HandoverNext, Begin, Move, Stay, Start, End, Open, handoverVars

(* The outcome of a migration is final, and the place of the task changes with
   one only: what both journals (migration/journal.py) promise together. *)
THEOREM DecisionsStand ==
  ASSUME Home \in Nodes PROVE HandoverSpec => MovesByDecision
<1>1. HandoverInv /\ [HandoverNext]_handoverVars =>
        [ /\ \A m \in Migrations : outcome[m] \in {"moved", "stayed"} => outcome'[m] = outcome[m]
          /\ place' # place => \E m \in Migrations :
               outcome[m] = "open" /\ outcome'[m] = "moved" /\ place' = to[m] ]_handoverVars
  BY HandoverStep_Keeps DEF Keeps
<1>2. HandoverInit => HandoverInv BY HandoverInit_Inv
<1>3. HandoverInv /\ [HandoverNext]_handoverVars => HandoverInv' BY HandoverStep_Inv
<1> QED BY <1>1, <1>2, <1>3, PTL DEF HandoverSpec, MovesByDecision
===============================================================================
