--------------------------- MODULE ControlPlane_proofs --------------------------
(***************************************************************************)
(* What the services keep that a node runs beside its tasks, for all       *)
(* nodes, submissions, runs, links, traces and tasks.                      *)
(*                                                                         *)
(* Registries and catalogs: whoever has a task as its own has heard of its *)
(* latest generation, whatever is said of a generation anywhere (an entry, *)
(* a message, a round, a migration on its way) names the same owner, and   *)
(* the first generation is the home of the run.                            *)
(*                                                                         *)
(* Links: whatever is kept of a link that is down is as old as that.       *)
(*                                                                         *)
(* Decisions: all estimates are numbers, for which sums, least elements    *)
(* and ranks are needed.  What a recursive function computes is shown of   *)
(* its least counterexample.                                               *)
(*                                                                         *)
(* Types: every update on its way or fetched is one that an entry could    *)
(* take over, the lock of the probers is with at most two, no clock is     *)
(* ahead of the ticks.  The instance that TLC checks is a behaviour of     *)
(* each service, so that all of its types follow.                          *)
(***************************************************************************)
EXTENDS MCControlPlane, Artifacts_proofs, Accounting_proofs, FiniteSetTheorems, SequenceTheorems, TLAPS

(* ------------------------ Catalogs: they are sound --------------------- *)

(* What catalogs are made of; some number is no less than any revision. *)
CatalogShape(c) ==
    /\ c = [defs |-> c.defs, runs |-> c.runs]
    /\ \A d \in c.defs : /\ d = [id |-> d.id, rev |-> d.rev, digest |-> d.digest]
                         /\ d.id \in Nat /\ d.rev \in Nat
    /\ \E b \in Nat : \A d \in c.defs : d.rev <= b
    /\ \A r \in c.runs : r.run \in Nat

Sound(c) ==
    /\ CatalogShape(c)
    /\ \A r, s \in c.runs : r.key = s.key => r = s
    /\ \A r \in c.runs : Materializes(c, r)
    /\ \A d, e \in c.defs : d.id = e.id /\ d.rev = e.rev => d = e

CatalogInv ==
    /\ catalog = [n \in Nodes |-> catalog[n]]
    /\ saved = [n \in Nodes |-> saved[n]]
    /\ \A n \in Nodes : Sound(catalog[n]) /\ Sound(saved[n])

LEMMA LeastNumber ==
  ASSUME NEW T, T \subseteq Nat, T # {} PROVE \E x \in T : \A y \in T : x <= y
<1>1. PICK x \in T : \A y \in T : ~(<<y, x>> \in OpToRel(<, Nat))
  BY NatLessThanWellFounded, WFMin
<1>2. \A y \in T : ~(y < x) BY <1>1 DEF OpToRel
<1> QED BY <1>2

(* Max of a set of numbers that has a bound. *)
LEMMA MaxOfBounded ==
  ASSUME NEW S, S \subseteq Nat, 0 \in S, NEW b \in Nat, \A x \in S : x <= b
  PROVE  Max(S) \in S /\ \A x \in S : x <= Max(S)
<1> DEFINE T == {i \in Nat : \A x \in S : x <= i}
<1>1. PICK m \in T : \A i \in T : m <= i
  <2>1. b \in T OBVIOUS
  <2> QED BY <2>1, LeastNumber
<1>2. m \in S
  <2> SUFFICES ASSUME m \notin S PROVE FALSE OBVIOUS
  <2>1. m \in Nat /\ m # 0 BY <1>1
  <2>2. m - 1 \in Nat /\ ~(m <= m - 1) BY <2>1
  <2>3. \A x \in S : x <= m - 1
    <3> SUFFICES ASSUME NEW x \in S PROVE x <= m - 1 OBVIOUS
    <3>1. x \in Nat /\ x <= m /\ x # m BY <1>1
    <3> QED BY <2>1, <3>1
  <2> QED BY <1>1, <2>2, <2>3
<1>3. \A x \in S : m >= x BY <1>1, <1>2
<1>4. Max(S) \in S /\ \A x \in S : Max(S) >= x BY <1>2, <1>3 DEF Max
<1> QED BY <1>4

LEMMA LastRevisionIsLast ==
  ASSUME NEW c, CatalogShape(c), NEW id
  PROVE  /\ LastRevision(c, id) \in Nat
         /\ \A d \in Revisions(c, id) : d.rev <= LastRevision(c, id)
         /\ \A b \in Nat : (\A d \in c.defs : d.rev <= b) => LastRevision(c, id) <= b
<1> DEFINE S == {0} \cup {d.rev : d \in Revisions(c, id)}
<1>0. Revisions(c, id) \subseteq c.defs BY DEF Revisions
<1>1. S \subseteq Nat /\ 0 \in S BY <1>0 DEF CatalogShape
<1>2. PICK b \in Nat : \A d \in c.defs : d.rev <= b BY DEF CatalogShape
<1>3. \A x \in S : x <= b BY <1>0, <1>2
<1>4. LastRevision(c, id) = Max(S) BY DEF LastRevision
<1> HIDE DEF S
<1>5. Max(S) \in S /\ \A x \in S : x <= Max(S) BY <1>1, <1>3, MaxOfBounded
<1>6. \A d \in Revisions(c, id) : d.rev <= Max(S) BY <1>5 DEF S
<1>7. ASSUME NEW a \in Nat, \A d \in c.defs : d.rev <= a PROVE Max(S) <= a
  <2>1. \A x \in S : x <= a BY <1>0, <1>7 DEF S
  <2> QED BY <1>5, <2>1
<1> QED BY <1>1, <1>4, <1>5, <1>6, <1>7

LEMMA RegisterIsSound ==
  ASSUME NEW c, Sound(c), NEW id \in Nat, NEW digest
  PROVE  Sound(RegisterDefinition(c, id, digest))
<1>1. CASE \E d \in Revisions(c, id) : d.digest = digest
  BY <1>1 DEF RegisterDefinition
<1>2. CASE ~\E d \in Revisions(c, id) : d.digest = digest
  <2>0. CatalogShape(c) BY DEF Sound
  <2>1. PICK v \in Nat : v = LastRevision(c, id) BY <2>0, LastRevisionIsLast
  <2> DEFINE new == [id |-> id, rev |-> v + 1, digest |-> digest]
             e == [defs |-> c.defs \cup {new}, runs |-> c.runs]
  <2>2. RegisterDefinition(c, id, digest) = e
    BY <1>2, <2>0, <2>1 DEF RegisterDefinition, CatalogShape
  <2>3. \A d \in c.defs : d.id = id => d.rev <= v
    BY <2>0, <2>1, LastRevisionIsLast DEF Revisions
  <2>4. PICK b \in Nat : \A d \in c.defs : d.rev <= b BY <2>0 DEF CatalogShape
  <2>5. \A d \in e.defs : d.rev <= b + v + 1
    <3> SUFFICES ASSUME NEW d \in e.defs PROVE d.rev <= b + v + 1 OBVIOUS
    <3>1. CASE d = new BY <3>1
    <3>2. CASE d \in c.defs BY <2>0, <2>4, <3>2 DEF CatalogShape
    <3> QED BY <3>1, <3>2
  <2>6. \E i \in Nat : \A d \in e.defs : d.rev <= i
    <3>1. b + v + 1 \in Nat OBVIOUS
    <3> HIDE DEF e
    <3> QED BY <2>5, <3>1
  <2>7. CatalogShape(e) BY <2>0, <2>6 DEF CatalogShape
  <2>8. \A d, f \in e.defs : d.id = f.id /\ d.rev = f.rev => d = f
    <3> SUFFICES ASSUME NEW d \in e.defs, NEW f \in e.defs, d.id = f.id, d.rev = f.rev
                 PROVE  d = f
      OBVIOUS
    <3>1. \A x \in c.defs : x.id = id => x.rev # v + 1 BY <2>0, <2>3 DEF CatalogShape
    <3>2. new.id = id /\ new.rev = v + 1 OBVIOUS
    <3>3. CASE d \in c.defs /\ f \in c.defs BY <3>3 DEF Sound
    <3>4. CASE d \notin c.defs \/ f \notin c.defs BY <3>1, <3>2, <3>4
    <3> QED BY <3>3, <3>4
  <2>9. \A r \in e.runs : Materializes(e, r) BY DEF Sound, Materializes
  <2>10. \A r, s \in e.runs : r.key = s.key => r = s BY DEF Sound
  <2> QED BY <2>2, <2>7, <2>8, <2>9, <2>10 DEF Sound
<1> QED BY <1>1, <1>2

LEMMA CatalogParts ==
  ASSUME NEW c, CatalogShape(c)
  PROVE  /\ \A X : [c EXCEPT !.runs = @ \cup X] = [defs |-> c.defs, runs |-> c.runs \cup X]
         /\ \A X : [c EXCEPT !.defs = @ \cup X] = [defs |-> c.defs \cup X, runs |-> c.runs]
<1>1. c = [defs |-> c.defs, runs |-> c.runs] BY DEF CatalogShape
<1>2. PICK D, R : D = c.defs /\ R = c.runs OBVIOUS
<1>3. c = [defs |-> D, runs |-> R] BY <1>1, <1>2
<1> QED BY <1>2, <1>3

LEMMA NewRunIsSound ==
  ASSUME NEW c, Sound(c), NEW q, NEW r \in Nat, NEW n, MayCreate(c, q)
  PROVE  Sound([c EXCEPT !.runs = @ \cup {NewRun(c, q, r, n)}])
<1> DEFINE new == NewRun(c, q, r, n)
           e == [defs |-> c.defs, runs |-> c.runs \cup {new}]
<1>1. PICK d \in Meant(c, q) : d = CHOOSE x \in Meant(c, q) : TRUE BY DEF MayCreate
<1>2. d \in c.defs /\ d = [id |-> d.id, rev |-> d.rev, digest |-> d.digest]
  BY <1>1 DEF Meant, Revisions, Sound, CatalogShape
<1>3. /\ new.run = r /\ new.key = q.key
      /\ new.id = d.id /\ new.rev = d.rev /\ new.digest = d.digest
  BY <1>1 DEF NewRun
<1> HIDE DEF new
<1>4. [c EXCEPT !.runs = @ \cup {new}] = e BY CatalogParts DEF Sound
<1>5. \A s \in c.runs : s.key # q.key BY DEF MayCreate, RunsWithKey
<1>6. CatalogShape(e) BY <1>3 DEF Sound, CatalogShape
<1>7. \A s, t \in e.runs : s.key = t.key => s = t
  <2> SUFFICES ASSUME NEW s \in e.runs, NEW t \in e.runs, s.key = t.key PROVE s = t OBVIOUS
  <2>1. CASE s \in c.runs /\ t \in c.runs BY <2>1 DEF Sound
  <2>2. CASE s \notin c.runs \/ t \notin c.runs BY <1>3, <1>5, <2>2
  <2> QED BY <2>1, <2>2
<1>8. \A s \in e.runs : Materializes(e, s) BY <1>2, <1>3 DEF Sound, Materializes
<1>9. \A x, y \in e.defs : x.id = y.id /\ x.rev = y.rev => x = y BY DEF Sound
<1>10. Sound(e) BY <1>6, <1>7, <1>8, <1>9 DEF Sound
<1> QED BY <1>4, <1>10 DEF new

LEMMA MergeIsSound ==
  ASSUME NEW c, Sound(c), NEW s, Sound(s) PROVE Sound(MergeSnapshot(c, s))
<1>0. CatalogShape(c) /\ CatalogShape(s) BY DEF Sound
<1>1. PICK D : D = {d \in s.defs : \A e \in s.defs : Clashes(c, e) => Before(d, e)} OBVIOUS
<1>2. PICK k : k = MergeDefinitions(c, s) OBVIOUS
<1>3. k = [defs |-> c.defs \cup D, runs |-> c.runs]
  BY <1>0, <1>1, <1>2, CatalogParts DEF MergeDefinitions
<1>4. \A d \in D : d \in s.defs /\ ~Clashes(c, d)
  <2> SUFFICES ASSUME NEW d \in D, Clashes(c, d) PROVE FALSE BY <1>1
  <2>1. d \in s.defs /\ Before(d, d) BY <1>1
  <2>2. d.id \in Nat /\ d.rev \in Nat BY <1>0, <2>1 DEF CatalogShape
  <2> QED BY <2>1, <2>2 DEF Before
<1>5. Sound(k)
  <2>1. \E b \in Nat : \A d \in k.defs : d.rev <= b
    <3>1. PICK i \in Nat : \A d \in c.defs : d.rev <= i BY <1>0 DEF CatalogShape
    <3>2. PICK j \in Nat : \A d \in s.defs : d.rev <= j BY <1>0 DEF CatalogShape
    <3>3. \A d \in k.defs : d.rev <= i + j
      <4> SUFFICES ASSUME NEW d \in k.defs PROVE d.rev <= i + j OBVIOUS
      <4>1. d \in c.defs \/ d \in s.defs BY <1>3, <1>4
      <4>2. d.rev \in Nat /\ (d.rev <= i \/ d.rev <= j)
        BY <1>0, <3>1, <3>2, <4>1 DEF CatalogShape
      <4> QED BY <4>2
    <3>4. PICK b \in Nat : b = i + j OBVIOUS
    <3>5. \A d \in k.defs : d.rev <= b BY <3>3, <3>4
    <3> QED BY <3>5
  <2>2. CatalogShape(k) BY <1>0, <1>3, <1>4, <2>1 DEF CatalogShape
  <2>3. ASSUME NEW d \in k.defs, NEW e \in k.defs, d.id = e.id, d.rev = e.rev PROVE d = e
    <3>1. CASE d \in c.defs /\ e \in c.defs BY <2>3, <3>1 DEF Sound
    <3>2. CASE d \in s.defs /\ e \in s.defs BY <2>3, <3>2 DEF Sound
    <3>3. CASE d \in c.defs /\ e \in D
      <4>1. d.digest = e.digest BY <1>4, <2>3, <3>3 DEF Clashes
      <4> QED BY <1>0, <1>4, <2>3, <3>3, <4>1 DEF CatalogShape
    <3>4. CASE e \in c.defs /\ d \in D
      <4>1. d.digest = e.digest BY <1>4, <2>3, <3>4 DEF Clashes
      <4> QED BY <1>0, <1>4, <2>3, <3>4, <4>1 DEF CatalogShape
    <3> QED BY <1>3, <1>4, <3>1, <3>2, <3>3, <3>4
  <2>4. \A r \in k.runs : Materializes(k, r) BY <1>3 DEF Sound, Materializes
  <2>5. \A r, t \in k.runs : r.key = t.key => r = t BY <1>3 DEF Sound
  <2> QED BY <2>2, <2>3, <2>4, <2>5 DEF Sound
<1>6. Sound(MergeRuns(k, s))
  <2>1. PICK R : R = {r \in s.runs : \A o \in s.runs : ClashesRun(k, o) => r.run < o.run}
    OBVIOUS
  <2>2. PICK m : m = MergeRuns(k, s) OBVIOUS
  <2>3. CatalogShape(k) BY <1>5 DEF Sound
  <2>4. m = [defs |-> k.defs, runs |-> k.runs \cup R]
    BY <2>1, <2>2, <2>3, CatalogParts DEF MergeRuns
  <2>5. \A r \in R : r \in s.runs /\ ~ClashesRun(k, r)
    <3> SUFFICES ASSUME NEW r \in R, ClashesRun(k, r) PROVE FALSE BY <2>1
    <3>1. r \in s.runs /\ r.run < r.run BY <2>1
    <3>2. r.run \in Nat BY <1>0, <3>1 DEF CatalogShape
    <3> QED BY <3>1, <3>2
  <2>6. CatalogShape(m) BY <1>0, <2>3, <2>4, <2>5 DEF CatalogShape
  <2>7. ASSUME NEW r \in m.runs, NEW t \in m.runs, r.key = t.key PROVE r = t
    <3>1. CASE r \in k.runs /\ t \in k.runs BY <1>5, <2>7, <3>1 DEF Sound
    <3>2. CASE r \in s.runs /\ t \in s.runs BY <2>7, <3>2 DEF Sound
    <3>3. CASE r \in k.runs /\ t \in R BY <2>5, <2>7, <3>3 DEF ClashesRun
    <3>4. CASE t \in k.runs /\ r \in R BY <2>5, <2>7, <3>4 DEF ClashesRun
    <3> QED BY <2>4, <2>5, <3>1, <3>2, <3>3, <3>4
  <2>8. ASSUME NEW r \in m.runs PROVE Materializes(m, r)
    <3>1. Materializes(k, r) BY <1>5, <2>4, <2>5 DEF ClashesRun, Sound
    <3> QED BY <2>4, <3>1 DEF Materializes
  <2>9. \A d, e \in m.defs : d.id = e.id /\ d.rev = e.rev => d = e BY <1>5, <2>4 DEF Sound
  <2>10. Sound(m) BY <2>6, <2>7, <2>8, <2>9 DEF Sound
  <2> QED BY <2>2, <2>10
<1> QED BY <1>2, <1>5, <1>6 DEF MergeSnapshot

LEMMA CatalogInit == Init => CatalogInv
<1>1. Sound(Empty)
  <2>1. 0 \in Nat /\ \A d \in Empty.defs : d.rev <= 0 BY DEF Empty
  <2> QED BY <2>1 DEF Empty, Sound, CatalogShape
<1> QED BY <1>1 DEF Init, CatalogInv

(* Every step leaves a catalog and what is saved of it as they are, or puts a
   sound one there. *)
LEMMA CatalogStep == CatalogInv /\ [Next]_vars => CatalogInv'
<1> SUFFICES ASSUME CatalogInv, [Next]_vars PROVE CatalogInv' OBVIOUS
<1>0. /\ DOMAIN catalog = Nodes /\ DOMAIN saved = Nodes
      /\ \A n \in Nodes : Sound(catalog[n]) /\ Sound(saved[n])
  BY DEF CatalogInv
<1>1. ASSUME NEW n \in Nodes, NEW c, Sound(c), catalog' = [catalog EXCEPT ![n] = c],
             saved' = saved \/ saved' = [saved EXCEPT ![n] = c]
      PROVE  CatalogInv'
  <2>1. catalog' = [i \in Nodes |-> catalog'[i]] BY <1>0, <1>1
  <2>2. saved' = [i \in Nodes |-> saved'[i]]
    <3>1. CASE saved' = saved BY <3>1 DEF CatalogInv
    <3>2. CASE saved' = [saved EXCEPT ![n] = c] BY <1>0, <3>2
    <3> QED BY <1>1, <3>1, <3>2
  <2>3. \A i \in Nodes : Sound(catalog'[i]) /\ Sound(saved'[i]) BY <1>0, <1>1
  <2> HIDE DEF Sound
  <2> QED BY <2>1, <2>2, <2>3 DEF CatalogInv, Sound, CatalogShape, Materializes
<1>2. CASE UNCHANGED <<catalog, saved>>
  BY <1>2 DEF CatalogInv, Sound, CatalogShape, Materializes
<1>3. ASSUME NEW n \in Nodes, NEW s \in Submissions[n], SubmitDefinition(n, s) PROVE CatalogInv'
  <2>1. s.id \in Nat BY ReplicationAssumption
  <2>2. Sound(RegisterDefinition(catalog[n], s.id, s.digest)) BY <1>0, <2>1, RegisterIsSound
  <2> QED BY <1>1, <1>3, <2>2 DEF SubmitDefinition, Store
<1>4. ASSUME NEW n \in Nodes, NEW q \in Requests[n], NEW r \in Runs, CreateRun(n, q, r)
      PROVE  CatalogInv'
  <2>1. r \in Nat /\ MayCreate(catalog[n], q) BY <1>4, ReplicationAssumption DEF CreateRun
  <2>2. Sound([catalog[n] EXCEPT !.runs = @ \cup {NewRun(catalog[n], q, r, n)}])
    BY <1>0, <2>1, NewRunIsSound
  <2> QED BY <1>1, <1>4, <2>2 DEF CreateRun, Store
<1>5. ASSUME NEW n \in Nodes, NEW m \in Peers(n), MergeCatalog(n, m) PROVE CatalogInv'
  <2>1. PICK c : c = MergeSnapshot(catalog[n], catalog[m]) OBVIOUS
  <2>2. Sound(c) BY <1>0, <2>1, MergeIsSound DEF Peers
  <2>3. saved' = saved \/ saved' = [saved EXCEPT ![n] = c]
    <3>1. saved' = saved \/ saved' = [saved EXCEPT ![n] = IF c = catalog[n] THEN @ ELSE c]
      BY <1>5, <2>1 DEF MergeCatalog
    <3>2. saved = [saved EXCEPT ![n] = saved[n]] BY DEF CatalogInv
    <3>3. CASE c = catalog[n] BY <3>1, <3>2, <3>3
    <3>4. CASE c # catalog[n] BY <3>1, <3>4
    <3> QED BY <3>3, <3>4
  <2>4. catalog' = [catalog EXCEPT ![n] = c] BY <1>5, <2>1 DEF MergeCatalog
  <2> QED BY <1>1, <2>2, <2>3, <2>4
<1>6. ASSUME NEW n \in Nodes, Restart(n) PROVE CatalogInv'
  <2>1. catalog' = [catalog EXCEPT ![n] = saved[n]] /\ saved' = saved BY <1>6 DEF Restart
  <2> QED BY <1>0, <1>1, <2>1
<1>7. ASSUME NEW n \in Nodes, Reconcile(n) PROVE CatalogInv'
  <2>1. CASE \E m \in Peers(n) : MergeCatalog(n, m) BY <1>5, <2>1
  <2>2. CASE NoCatalog(n) BY <1>2, <2>2 DEF NoCatalog, catalogs
  <2>3. CASE \E s \in SUBSET Peers(n) : FetchClaims(n, s) BY <1>2, <2>3 DEF FetchClaims, catalogs
  <2>4. CASE ApplyClaims(n) BY <1>2, <2>4 DEF ApplyClaims, catalogs
  <2> QED BY <1>7, <2>1, <2>2, <2>3, <2>4 DEF Reconcile
<1>8. ASSUME NEW n \in Nodes, Submit(n) PROVE CatalogInv'
  <2>1. CASE \E q \in Requests[n] : CreateRunAgain(n, q) BY <1>2, <2>1 DEF CreateRunAgain
  <2>2. CASE \E r \in catalog[n].runs : RegisterRun(n, r) BY <1>2, <2>2 DEF RegisterRun
  <2> QED BY <1>3, <1>4, <1>8, <2>1, <2>2 DEF Submit
<1>9. ASSUME NEW n \in Nodes, Own(n) PROVE CatalogInv'
  <2> SUFFICES ASSUME NEW r \in Busy,
                      \/ Decide(n, r) \/ Complete(n, r) \/ BroadcastCompleted(n, r)
                      \/ \E m \in Nodes : HandOver(n, m, r)
               PROVE  UNCHANGED <<catalog, saved>>
    BY <1>2, <1>9 DEF Own
  <2> QED BY DEF Decide, Complete, BroadcastCompleted, HandOver, catalogs
<1>10. ASSUME NEW h \in moving, Finalize(h) \/ Close(h) PROVE CatalogInv'
  BY <1>2, <1>10 DEF Finalize, Close, catalogs
<1>11. ASSUME NEW p \in posts, Deliver(p) PROVE CatalogInv'
  BY <1>2, <1>11 DEF Deliver, catalogs
<1>12. CASE UNCHANGED vars BY <1>2, <1>12 DEF vars
<1> QED BY <1>6, <1>7, <1>8, <1>9, <1>10, <1>11, <1>12 DEF Next

(* In every catalog, in memory and on disk, a key names one run, a revision is
   one definition and every run has its definition, whatever peers are given
   and in whatever order they merge what they hear, until the first conflict
   or beyond it (submission/catalog.py: create_run, merge_snapshot). *)
THEOREM CatalogsAreSound == Spec => []CatalogIsSound
<1>1. CatalogInv => CatalogIsSound BY DEF CatalogInv, CatalogIsSound, Sound
<1> QED BY <1>1, CatalogInit, CatalogStep, PTL DEF Spec

(* --------------- Runs: each has one home, and is saved there ----------- *)

HomeInv ==
    /\ \A n \in Nodes : \A x \in saved[n].runs : x \in catalog[n].runs /\ x.run \in Runs
    /\ \A n \in Nodes : \A x \in catalog[n].runs : \E o \in Nodes : x \in saved[o].runs
    /\ \A n, m \in Nodes : \A x \in saved[n].runs : \A y \in saved[m].runs :
         x.run = y.run => x = y

(* Nothing that is saved is ever lost. *)
SavedGrows == \A n \in Nodes : \A x \in saved[n].runs : x \in saved'[n].runs

LEMMA MergedRuns ==
  ASSUME NEW c, Sound(c), NEW s
  PROVE  /\ \A x \in c.runs : x \in MergeSnapshot(c, s).runs
         /\ \A x \in MergeSnapshot(c, s).runs : x \in c.runs \/ x \in s.runs
<1>0. CatalogShape(c) BY DEF Sound
<1>1. PICK D : D = {d \in s.defs : \A e \in s.defs : Clashes(c, e) => Before(d, e)} OBVIOUS
<1>2. PICK k : k = MergeDefinitions(c, s) OBVIOUS
<1>3. k = [defs |-> c.defs \cup D, runs |-> c.runs]
  BY <1>0, <1>1, <1>2, CatalogParts DEF MergeDefinitions
<1>4. PICK R : R = {r \in s.runs : \A o \in s.runs : ClashesRun(k, o) => r.run < o.run}
  OBVIOUS
<1>5. MergeRuns(k, s) = [k EXCEPT !.runs = @ \cup R] BY <1>4 DEF MergeRuns
<1>6. MergeRuns(k, s).runs = c.runs \cup R BY <1>3, <1>5
<1>7. R \subseteq s.runs BY <1>4
<1>8. MergeSnapshot(c, s) = k \/ MergeSnapshot(c, s) = MergeRuns(k, s)
  BY <1>2 DEF MergeSnapshot
<1> QED BY <1>3, <1>6, <1>7, <1>8

LEMMA HomeKept == CatalogInv /\ HomeInv /\ [Next]_vars => HomeInv' /\ SavedGrows
<1> SUFFICES ASSUME CatalogInv, HomeInv, [Next]_vars PROVE HomeInv' /\ SavedGrows OBVIOUS
<1>0. /\ DOMAIN catalog = Nodes /\ DOMAIN saved = Nodes
      /\ \A n \in Nodes : Sound(catalog[n]) /\ Sound(saved[n])
      /\ saved = [n \in Nodes |-> saved[n]]
  BY DEF CatalogInv
(* A catalog that takes in runs that others have. *)
<1>1. ASSUME NEW n \in Nodes, NEW c, catalog' = [catalog EXCEPT ![n] = c],
             saved' = saved \/ saved' = [saved EXCEPT ![n] = c],
             \A x \in saved[n].runs : x \in c.runs,
             \A x \in c.runs : \E o \in Nodes : x \in catalog[o].runs
      PROVE  HomeInv' /\ SavedGrows
  <2>1. \A i \in Nodes : catalog'[i] = (IF i = n THEN c ELSE catalog[i]) BY <1>0, <1>1
  <2>2. \/ \A i \in Nodes : saved'[i] = saved[i]
        \/ \A i \in Nodes : saved'[i] = (IF i = n THEN c ELSE saved[i])
    BY <1>0, <1>1
  <2>3. \A i \in Nodes : \A x \in saved[i].runs : x \in saved'[i].runs BY <1>1, <2>2
  <2>4. \A i \in Nodes : \A x \in saved'[i].runs : \E o \in Nodes : x \in saved[o].runs
    BY <1>1, <2>2 DEF HomeInv
  <2>5. ASSUME NEW i \in Nodes, NEW x \in saved'[i].runs
        PROVE  x \in catalog'[i].runs /\ x.run \in Runs
    BY <1>1, <2>1, <2>2, <2>4 DEF HomeInv
  <2>6. ASSUME NEW i \in Nodes, NEW x \in catalog'[i].runs
        PROVE  \E o \in Nodes : x \in saved'[o].runs
    <3>1. \E o \in Nodes : x \in catalog[o].runs BY <1>1, <2>1
    <3> QED BY <2>3, <3>1 DEF HomeInv
  <2>7. ASSUME NEW i \in Nodes, NEW j \in Nodes, NEW x \in saved'[i].runs,
               NEW y \in saved'[j].runs, x.run = y.run
        PROVE  x = y
    BY <2>4, <2>7 DEF HomeInv
  <2>8. HomeInv' BY <2>5, <2>6, <2>7 DEF HomeInv
  <2> QED BY <2>3, <2>8 DEF SavedGrows
<1>2. CASE UNCHANGED <<catalog, saved>> BY <1>2 DEF HomeInv, SavedGrows
<1>3. ASSUME NEW n \in Nodes, NEW s \in Submissions[n], SubmitDefinition(n, s)
      PROVE  HomeInv' /\ SavedGrows
  <2>1. PICK c : c = RegisterDefinition(catalog[n], s.id, s.digest) OBVIOUS
  <2>2. c.runs = catalog[n].runs
    <3>1. catalog[n] = [defs |-> catalog[n].defs, runs |-> catalog[n].runs]
      BY <1>0 DEF Sound, CatalogShape
    <3>2. PICK D : RegisterDefinition(catalog[n], s.id, s.digest)
                     \in {catalog[n], [catalog[n] EXCEPT !.defs = @ \cup D]}
      BY DEF RegisterDefinition
    <3>3. [catalog[n] EXCEPT !.defs = @ \cup D].runs = catalog[n].runs BY <3>1
    <3> QED BY <2>1, <3>2, <3>3
  <2>3. catalog' = [catalog EXCEPT ![n] = c] /\ saved' = [saved EXCEPT ![n] = c]
    BY <1>3, <2>1 DEF SubmitDefinition, Store
  <2>4. \A x \in saved[n].runs : x \in c.runs BY <2>2 DEF HomeInv
  <2>5. \A x \in c.runs : \E o \in Nodes : x \in catalog[o].runs BY <2>2
  <2> QED BY <1>1, <2>3, <2>4, <2>5
<1>4. ASSUME NEW n \in Nodes, NEW q \in Requests[n], NEW r \in Runs, CreateRun(n, q, r)
      PROVE  HomeInv' /\ SavedGrows
  <2>1. PICK x : x = NewRun(catalog[n], q, r, n) OBVIOUS
  <2>2. PICK c : c = [catalog[n] EXCEPT !.runs = @ \cup {x}] OBVIOUS
  <2>3. x.run = r BY <2>1 DEF NewRun
  <2>4. c.runs = catalog[n].runs \cup {x} BY <1>0, <2>2, CatalogParts DEF Sound
  <2>5. catalog' = [catalog EXCEPT ![n] = c] /\ saved' = [saved EXCEPT ![n] = c]
    BY <1>4, <2>1, <2>2 DEF CreateRun, Store
  <2>6. \A i \in Nodes : /\ catalog'[i] = (IF i = n THEN c ELSE catalog[i])
                         /\ saved'[i] = (IF i = n THEN c ELSE saved[i])
    BY <1>0, <2>5
  <2>7. \A i \in Nodes : \A y \in catalog[i].runs : y.run # r BY <1>4 DEF CreateRun, AllRuns
  <2>8. \A i \in Nodes : \A y \in saved[i].runs : y.run # r /\ y \in saved'[i].runs
    BY <2>4, <2>6, <2>7 DEF HomeInv
  <2>9. \A i \in Nodes : \A y \in saved'[i].runs :
          y = x \/ (y # x /\ y.run # r /\ \E o \in Nodes : y \in saved[o].runs)
    <3> SUFFICES ASSUME NEW i \in Nodes, NEW y \in saved'[i].runs, y # x
                 PROVE  y.run # r /\ \E o \in Nodes : y \in saved[o].runs
      OBVIOUS
    <3>1. y \in saved[i].runs \/ y \in catalog[n].runs BY <2>4, <2>6
    <3> QED BY <2>7, <2>8, <3>1 DEF HomeInv
  <2>10. \A i \in Nodes : \A y \in saved'[i].runs : y \in catalog'[i].runs /\ y.run \in Runs
    BY <2>3, <2>4, <2>6, <2>9 DEF HomeInv
  <2>11. ASSUME NEW i \in Nodes, NEW y \in catalog'[i].runs
         PROVE  \E o \in Nodes : y \in saved'[o].runs
    <3>1. y = x \/ y \in catalog[i].runs BY <2>4, <2>6
    <3>2. x \in saved'[n].runs BY <2>4, <2>6
    <3> QED BY <2>8, <3>1, <3>2 DEF HomeInv
  <2>12. ASSUME NEW i \in Nodes, NEW j \in Nodes, NEW y \in saved'[i].runs,
                NEW z \in saved'[j].runs, y.run = z.run
         PROVE  y = z
    BY <2>3, <2>9, <2>12 DEF HomeInv
  <2>13. HomeInv' BY <2>10, <2>11, <2>12 DEF HomeInv
  <2> QED BY <2>8, <2>13 DEF SavedGrows
<1>5. ASSUME NEW n \in Nodes, NEW m \in Peers(n), MergeCatalog(n, m)
      PROVE  HomeInv' /\ SavedGrows
  <2>1. PICK c : c = MergeSnapshot(catalog[n], catalog[m]) OBVIOUS
  <2>2. /\ \A x \in catalog[n].runs : x \in c.runs
        /\ \A x \in c.runs : x \in catalog[n].runs \/ x \in catalog[m].runs
    BY <1>0, <2>1, MergedRuns
  <2>3. saved' = saved \/ saved' = [saved EXCEPT ![n] = c]
    <3>1. saved' = saved \/ saved' = [saved EXCEPT ![n] = IF c = catalog[n] THEN @ ELSE c]
      BY <1>5, <2>1 DEF MergeCatalog
    <3>2. saved = [saved EXCEPT ![n] = saved[n]] BY <1>0
    <3>3. CASE c = catalog[n] BY <3>1, <3>2, <3>3
    <3>4. CASE c # catalog[n] BY <3>1, <3>4
    <3> QED BY <3>3, <3>4
  <2>4. catalog' = [catalog EXCEPT ![n] = c] BY <1>5, <2>1 DEF MergeCatalog
  <2>5. \A x \in saved[n].runs : x \in c.runs BY <2>2 DEF HomeInv
  <2>6. \A x \in c.runs : \E o \in Nodes : x \in catalog[o].runs BY <2>2 DEF Peers
  <2> QED BY <1>1, <2>3, <2>4, <2>5, <2>6
<1>6. ASSUME NEW n \in Nodes, Restart(n) PROVE HomeInv' /\ SavedGrows
  <2>1. catalog' = [catalog EXCEPT ![n] = saved[n]] /\ saved' = saved BY <1>6 DEF Restart
  <2>2. \A x \in saved[n].runs : \E o \in Nodes : x \in catalog[o].runs BY DEF HomeInv
  <2> QED BY <1>1, <2>1, <2>2
<1>7. ASSUME NEW n \in Nodes, Reconcile(n) PROVE HomeInv' /\ SavedGrows
  <2>1. CASE \E m \in Peers(n) : MergeCatalog(n, m) BY <1>5, <2>1
  <2>2. CASE NoCatalog(n) BY <1>2, <2>2 DEF NoCatalog, catalogs
  <2>3. CASE \E s \in SUBSET Peers(n) : FetchClaims(n, s) BY <1>2, <2>3 DEF FetchClaims, catalogs
  <2>4. CASE ApplyClaims(n) BY <1>2, <2>4 DEF ApplyClaims, catalogs
  <2> QED BY <1>7, <2>1, <2>2, <2>3, <2>4 DEF Reconcile
<1>8. ASSUME NEW n \in Nodes, Submit(n) PROVE HomeInv' /\ SavedGrows
  <2>1. CASE \E q \in Requests[n] : CreateRunAgain(n, q) BY <1>2, <2>1 DEF CreateRunAgain
  <2>2. CASE \E r \in catalog[n].runs : RegisterRun(n, r) BY <1>2, <2>2 DEF RegisterRun
  <2> QED BY <1>3, <1>4, <1>8, <2>1, <2>2 DEF Submit
<1>9. ASSUME NEW n \in Nodes, Own(n) PROVE HomeInv' /\ SavedGrows
  <2> SUFFICES ASSUME NEW r \in Busy,
                      \/ Decide(n, r) \/ Complete(n, r) \/ BroadcastCompleted(n, r)
                      \/ \E m \in Nodes : HandOver(n, m, r)
               PROVE  UNCHANGED <<catalog, saved>>
    BY <1>2, <1>9 DEF Own
  <2> QED BY DEF Decide, Complete, BroadcastCompleted, HandOver, catalogs
<1>10. ASSUME NEW h \in moving, Finalize(h) \/ Close(h) PROVE HomeInv' /\ SavedGrows
  BY <1>2, <1>10 DEF Finalize, Close, catalogs
<1>11. ASSUME NEW p \in posts, Deliver(p) PROVE HomeInv' /\ SavedGrows
  BY <1>2, <1>11 DEF Deliver, catalogs
<1>12. CASE UNCHANGED vars BY <1>2, <1>12 DEF vars
<1> QED BY <1>6, <1>7, <1>8, <1>9, <1>10, <1>11, <1>12 DEF Next

(* --------------- Owners: one for each generation of a run -------------- *)

(* A node says, or somebody has heard and not applied yet, or a migration is
   about to bring about, that run i is owned by o at generation g. *)
EntrySays(n, i, g, o) ==
    entry[n][i] # Unwritten /\ entry[n][i].gen = g /\ entry[n][i].owner = o
PostSays(p, i, g, o) == p.run = i /\ p.claim.gen = g /\ p.claim.owner = o
Fetched(n, m) == round[n].at = "claims" /\ m \in round[n].todo
RoundSays(n, m, i, g, o) ==
    /\ Fetched(n, m) /\ i \in DOMAIN round[n].got[m]
    /\ round[n].got[m][i].claim.gen = g /\ round[n].got[m][i].claim.owner = o
MoveSays(h, i, g, o) == h.run = i /\ h.gen = g /\ h.to = o

Said(i, g, o) ==
    \/ \E n \in Nodes : EntrySays(n, i, g, o)
    \/ \E p \in posts : PostSays(p, i, g, o)
    \/ \E n, m \in Nodes : RoundSays(n, m, i, g, o)
    \/ \E h \in moving : MoveSays(h, i, g, o)

(* The record of an entry that is written. *)
IsEntry(e) ==
    /\ e = [owner |-> e.owner, gen |-> e.gen, status |-> e.status, pid |-> e.pid,
            last |-> e.last, exhausted |-> e.exhausted]
    /\ e.gen \in Nat /\ e.status \in Status

EntryShape ==
    /\ entry = [n \in Nodes |-> [i \in Runs |-> entry[n][i]]]
    /\ \A n \in Nodes : \A i \in Runs : entry[n][i] = Unwritten \/ IsEntry(entry[n][i])
    /\ known = [n \in Nodes |-> known[n]]
    /\ \A n \in Nodes : \A i \in known[n] : i \in Runs /\ entry[n][i] # Unwritten

MessageShape ==
    /\ \A p \in posts : p.to \in Nodes /\ p.claim.gen \in Nat
    /\ \A h \in moving : h.from \in Nodes /\ h.gen \in Nat

RoundShape ==
    /\ round = [n \in Nodes |-> round[n]]
    /\ \A n \in Nodes :
         /\ round[n] = [at |-> round[n].at, todo |-> round[n].todo, got |-> round[n].got]
         /\ round[n].at = "claims" => round[n].todo # {} /\ round[n].todo \subseteq Nodes
         /\ \A m \in Nodes : Fetched(n, m) =>
              \A i \in DOMAIN round[n].got[m] : round[n].got[m][i].claim.gen \in Nat

RegistryShape == EntryShape /\ MessageShape /\ RoundShape

(* What is said of a generation agrees. *)
OneSaid == \A i \in Runs : \A g, o, q : Said(i, g, o) /\ Said(i, g, q) => o = q

(* Who has a task as its own has heard of the latest generation. *)
OwnerIsLast ==
    \A n \in Nodes : \A i \in Runs :
      entry[n][i].status = "stopped" =>
        /\ entry[n][i].owner = n
        /\ \A g, o : Said(i, g, o) => g <= entry[n][i].gen

(* A run has its home in some catalog, and has not left it as long as its home
   has not heard of it. *)
HomeIsFirst ==
    \A i \in Runs : \A g, o : Said(i, g, o) =>
      /\ \E n \in Nodes : \E x \in saved[n].runs : x.run = i /\ (g = 0 => o = x.owner)
      /\ \A n \in Nodes : \A x \in saved[n].runs :
           x.run = i /\ x.owner \in Nodes /\ entry[x.owner][i] = Unwritten => g = 0

OwnersInv ==
    /\ CatalogInv /\ HomeInv /\ RegistryShape
    /\ OneSaid /\ OwnerIsLast /\ HomeIsFirst

LEMMA WrittenEntry ==
  ASSUME NEW e, IsEntry(e) PROVE e # Unwritten /\ e.gen \in Nat /\ e.status # "unwritten"
BY DEF IsEntry, Unwritten, Status

LEMMA UnwrittenEntry == Unwritten.status = "unwritten" /\ Unwritten.status # "stopped"
BY DEF Unwritten

(* apply_ownership of a claim that is accepted: what is known is no older than
   before, and a completion stays one. *)
LEMMA HeardClaim ==
  ASSUME NEW n, NEW e, IsEntry(e), NEW u, u.gen \in Nat, Accepts(e, u), NEW f,
         f = ApplyOwnership(n, e, u)
  PROVE  /\ IsEntry(f) /\ f.gen = u.gen /\ f.owner = u.owner /\ f.gen >= e.gen
         /\ f.status = "stopped" => e.status = "stopped"
         /\ f.gen = e.gen => f.owner = e.owner
         /\ f.gen = e.gen /\ e.status = "completed" => f.status = "completed"
<1>1. PICK l : l = IF u.last = NoMigration THEN e.last ELSE u.last OBVIOUS
<1>2. PICK k : k = [e EXCEPT !.owner = u.owner, !.gen = u.gen, !.last = l] OBVIOUS
<1>3. k = [owner |-> u.owner, gen |-> u.gen, status |-> e.status, pid |-> e.pid,
           last |-> l, exhausted |-> e.exhausted]
  BY <1>2 DEF IsEntry
<1>4. /\ u.completed => f = [k EXCEPT !.status = "completed", !.pid = NoPid]
      /\ ~u.completed /\ u.owner # n => f = [k EXCEPT !.status = "remote", !.pid = NoPid]
      /\ ~u.completed /\ u.owner = n => f = k
  BY <1>1, <1>2 DEF ApplyOwnership
<1>5. e.status \in Status /\ "completed" \in Status /\ "remote" \in Status
  BY DEF IsEntry, Status
<1>6. e.gen \in Nat BY DEF IsEntry
<1>7. CASE u.completed
  <2>1. f = [owner |-> u.owner, gen |-> u.gen, status |-> "completed", pid |-> NoPid,
             last |-> l, exhausted |-> e.exhausted]
    BY <1>3, <1>4, <1>7
  <2> QED BY <1>5, <1>6, <2>1 DEF Accepts, IsEntry
<1>8. CASE ~u.completed /\ u.owner # n
  <2>1. f = [owner |-> u.owner, gen |-> u.gen, status |-> "remote", pid |-> NoPid,
             last |-> l, exhausted |-> e.exhausted]
    BY <1>3, <1>4, <1>8
  <2> QED BY <1>5, <1>6, <1>8, <2>1 DEF Accepts, IsEntry
<1>9. CASE ~u.completed /\ u.owner = n
  <2>1. f = k BY <1>4, <1>9
  <2> QED BY <1>3, <1>5, <1>6, <1>9, <2>1 DEF Accepts, IsEntry
<1> QED BY <1>7, <1>8, <1>9

(* A step that says of runs only what is said already or what their home says
   of them to begin with. *)
LEMMA NothingNewSaid ==
  ASSUME OwnersInv, CatalogInv', HomeInv', SavedGrows, RegistryShape',
         \A i \in Runs : \A g, o : Said(i, g, o)' =>
           \/ Said(i, g, o)
           \/ g = 0 /\ \E n \in Nodes : \E x \in saved[n].runs : x.run = i /\ o = x.owner,
         \A n \in Nodes : \A i \in Runs : entry'[n][i].status = "stopped" =>
           \/ /\ entry[n][i].status = "stopped" /\ entry'[n][i].owner = entry[n][i].owner
              /\ entry'[n][i].gen = entry[n][i].gen
           \/ /\ entry[n][i] = Unwritten /\ entry'[n][i].gen = 0 /\ entry'[n][i].owner = n
              /\ \E k \in Nodes : \E x \in saved[k].runs : x.run = i /\ x.owner = n,
         \A n \in Nodes : \A i \in Runs : entry'[n][i] = Unwritten => entry[n][i] = Unwritten
  PROVE  OwnersInv'
<1>0. HomeInv /\ EntryShape /\ OneSaid /\ OwnerIsLast /\ HomeIsFirst
  BY DEF OwnersInv, RegistryShape
<1>1. OneSaid'
  <2> SUFFICES ASSUME NEW i \in Runs, NEW g, NEW o, NEW q, Said(i, g, o)', Said(i, g, q)'
               PROVE  o = q
    BY DEF OneSaid
  <2>1. CASE Said(i, g, o) /\ Said(i, g, q) BY <1>0, <2>1 DEF OneSaid
  <2>2. CASE ~Said(i, g, o) \/ ~Said(i, g, q)
    <3>1. g = 0 BY <2>2
    <3>2. \E n \in Nodes : \E x \in saved[n].runs : x.run = i /\ o = x.owner
      BY <1>0, <3>1 DEF HomeIsFirst
    <3>3. \E n \in Nodes : \E x \in saved[n].runs : x.run = i /\ q = x.owner
      BY <1>0, <3>1 DEF HomeIsFirst
    <3> QED BY <1>0, <3>2, <3>3 DEF HomeInv
  <2> QED BY <2>1, <2>2
<1>2. OwnerIsLast'
  <2> SUFFICES ASSUME NEW n \in Nodes, NEW i \in Runs, entry'[n][i].status = "stopped"
               PROVE  /\ entry'[n][i].owner = n
                      /\ \A g, o : Said(i, g, o)' => g <= entry'[n][i].gen
    BY DEF OwnerIsLast
  <2>1. CASE /\ entry[n][i].status = "stopped" /\ entry'[n][i].owner = entry[n][i].owner
             /\ entry'[n][i].gen = entry[n][i].gen
    <3>1. entry[n][i].gen \in Nat BY <1>0, <2>1, WrittenEntry, UnwrittenEntry DEF EntryShape
    <3>2. \A g, o : Said(i, g, o) => g <= entry[n][i].gen BY <1>0, <2>1 DEF OwnerIsLast
    <3>3. 0 <= entry[n][i].gen BY <3>1
    <3> QED BY <1>0, <2>1, <3>2, <3>3 DEF OwnerIsLast
  <2>2. CASE /\ entry[n][i] = Unwritten /\ entry'[n][i].gen = 0 /\ entry'[n][i].owner = n
             /\ \E k \in Nodes : \E x \in saved[k].runs : x.run = i /\ x.owner = n
    <3>1. \A g, o : Said(i, g, o) => g = 0 BY <1>0, <2>2 DEF HomeIsFirst
    <3> QED BY <2>2, <3>1
  <2> QED BY <2>1, <2>2
<1>3. HomeIsFirst'
  <2> SUFFICES ASSUME NEW i \in Runs, NEW g, NEW o, Said(i, g, o)'
               PROVE  /\ \E n \in Nodes : \E x \in saved'[n].runs :
                           x.run = i /\ (g = 0 => o = x.owner)
                      /\ \A n \in Nodes : \A x \in saved'[n].runs :
                           x.run = i /\ x.owner \in Nodes /\ entry'[x.owner][i] = Unwritten
                             => g = 0
    BY DEF HomeIsFirst
  <2>1. \E n \in Nodes : \E x \in saved[n].runs : x.run = i /\ (g = 0 => o = x.owner)
    BY <1>0 DEF HomeIsFirst
  <2>2. PICK n \in Nodes : \E x \in saved[n].runs : x.run = i /\ (g = 0 => o = x.owner)
    BY <2>1
  <2>6. PICK x \in saved[n].runs : x.run = i /\ (g = 0 => o = x.owner) BY <2>2
  <2>3. x \in saved'[n].runs BY DEF SavedGrows
  <2>4. \A m \in Nodes : \A y \in saved'[m].runs : y.run = i => y = x
    BY <2>3, <2>6 DEF HomeInv
  <2>5. x.owner \in Nodes /\ entry'[x.owner][i] = Unwritten => g = 0
    BY <1>0, <2>6 DEF HomeIsFirst
  <2> QED BY <2>3, <2>4, <2>5, <2>6
<1> QED BY <1>1, <1>2, <1>3 DEF OwnersInv

(* Steps that change entries to what is said already, if at all. *)
LEMMA NothingNewHeard ==
  ASSUME OwnersInv, CatalogInv', HomeInv', SavedGrows, MessageShape', RoundShape',
         known' = known, moving' \subseteq moving,
         entry' = [n \in Nodes |-> [i \in Runs |-> entry'[n][i]]],
         \A n \in Nodes : \A i \in Runs :
           \/ entry'[n][i] = entry[n][i]
           \/ /\ entry[n][i] # Unwritten /\ IsEntry(entry'[n][i])
              /\ Said(i, entry'[n][i].gen, entry'[n][i].owner)
              /\ entry'[n][i].status = "stopped" =>
                   /\ entry[n][i].status = "stopped" /\ entry'[n][i].owner = entry[n][i].owner
                   /\ entry'[n][i].gen = entry[n][i].gen,
         \A p \in posts' : \A i \in Runs : \A g, o : PostSays(p, i, g, o) => Said(i, g, o),
         \A n, m \in Nodes : \A i \in Runs : \A g, o : RoundSays(n, m, i, g, o)' => Said(i, g, o)
  PROVE  OwnersInv'
<1>0. EntryShape BY DEF OwnersInv, RegistryShape
<1>1. ASSUME NEW n \in Nodes, NEW i \in Runs
      PROVE  /\ entry'[n][i] = Unwritten \/ IsEntry(entry'[n][i])
             /\ entry'[n][i] = Unwritten <=> entry[n][i] = Unwritten
  BY <1>0, WrittenEntry DEF EntryShape
<1>2. EntryShape'
  <2>1. \A n \in Nodes : \A i \in known'[n] : i \in Runs /\ entry'[n][i] # Unwritten
    BY <1>0, <1>1 DEF EntryShape
  <2>2. \A n \in Nodes : \A i \in Runs : entry'[n][i] = Unwritten \/ IsEntry(entry'[n][i])
    BY <1>1
  <2>3. known' = [n \in Nodes |-> known'[n]] BY <1>0 DEF EntryShape
  <2> QED BY <2>1, <2>2, <2>3 DEF EntryShape, IsEntry
<1>3. RegistryShape' BY <1>2 DEF RegistryShape
<1>4. ASSUME NEW i \in Runs, NEW g, NEW o, Said(i, g, o)' PROVE Said(i, g, o)
  <2>1. CASE \E n \in Nodes : EntrySays(n, i, g, o)'
    <3>1. PICK n \in Nodes : EntrySays(n, i, g, o)' BY <2>1
    <3>2. entry'[n][i] # Unwritten /\ entry'[n][i].gen = g /\ entry'[n][i].owner = o
      BY <3>1 DEF EntrySays
    <3>3. CASE entry'[n][i] = entry[n][i] BY <3>2, <3>3 DEF Said, EntrySays
    <3>4. CASE Said(i, entry'[n][i].gen, entry'[n][i].owner) BY <3>2, <3>4
    <3> QED BY <3>3, <3>4
  <2>2. CASE \E p \in posts' : PostSays(p, i, g, o) BY <2>2
  <2>3. CASE \E n, m \in Nodes : RoundSays(n, m, i, g, o)' BY <2>3
  <2>4. CASE \E h \in moving' : MoveSays(h, i, g, o) BY <2>4 DEF Said
  <2> QED BY <1>4, <2>1, <2>2, <2>3, <2>4 DEF Said, PostSays, MoveSays
<1>5. ASSUME NEW n \in Nodes, NEW i \in Runs, entry'[n][i].status = "stopped"
      PROVE  /\ entry[n][i].status = "stopped" /\ entry'[n][i].owner = entry[n][i].owner
             /\ entry'[n][i].gen = entry[n][i].gen
  BY <1>5
<1> QED BY <1>1, <1>3, <1>4, <1>5, NothingNewSaid

(* Steps that register runs. *)
LEMMA RunsRegistered ==
  ASSUME OwnersInv, CatalogInv', HomeInv', SavedGrows, MessageShape', RoundShape',
         posts' = posts, moving' = moving,
         known' = [n \in Nodes |-> known'[n]],
         entry' = [n \in Nodes |-> [i \in Runs |-> entry'[n][i]]],
         \A n \in Nodes : \A i \in Runs :
           \/ entry'[n][i] = entry[n][i]
           \/ /\ entry[n][i] = Unwritten
              /\ \E k \in Nodes : \E x \in saved[k].runs :
                   x.run = i /\ entry'[n][i] = InitialEntry(n, x.owner),
         \A n \in Nodes : \A i \in known'[n] : i \in Runs /\ entry'[n][i] # Unwritten,
         \A n, m \in Nodes : \A i \in Runs : \A g, o : RoundSays(n, m, i, g, o)' => Said(i, g, o)
  PROVE  OwnersInv'
<1>0. EntryShape BY DEF OwnersInv, RegistryShape
<1>i. ASSUME NEW n, NEW o, NEW e, e = InitialEntry(n, o)
      PROVE  /\ IsEntry(e) /\ e.gen = 0 /\ e.owner = o
             /\ e.status = "stopped" => o = n
  <2>1. "stopped" \in Status /\ "remote" \in Status BY DEF Status
  <2> QED BY <1>i, <2>1 DEF InitialEntry, IsEntry
<1>1. ASSUME NEW n \in Nodes, NEW i \in Runs, entry'[n][i] # entry[n][i]
      PROVE  /\ entry[n][i] = Unwritten /\ IsEntry(entry'[n][i]) /\ entry'[n][i] # Unwritten
             /\ entry'[n][i].gen = 0
             /\ entry'[n][i].status = "stopped" => entry'[n][i].owner = n
             /\ \E k \in Nodes : \E x \in saved[k].runs :
                  x.run = i /\ entry'[n][i].owner = x.owner
  <2>1. PICK k \in Nodes : \E x \in saved[k].runs :
          x.run = i /\ entry'[n][i] = InitialEntry(n, x.owner)
    BY <1>1
  <2>2. PICK x \in saved[k].runs : x.run = i /\ entry'[n][i] = InitialEntry(n, x.owner)
    BY <2>1
  <2>3. entry[n][i] = Unwritten BY <1>1
  <2>4. /\ IsEntry(entry'[n][i]) /\ entry'[n][i].gen = 0 /\ entry'[n][i].owner = x.owner
        /\ entry'[n][i].status = "stopped" => x.owner = n
    BY <1>i, <2>2
  <2>5. entry'[n][i] # Unwritten BY <2>4, WrittenEntry
  <2> QED BY <2>2, <2>3, <2>4, <2>5
<1>2. \A n \in Nodes : \A i \in Runs : entry'[n][i] = Unwritten \/ IsEntry(entry'[n][i])
  BY <1>0, <1>1 DEF EntryShape
<1>3. RegistryShape' BY <1>2 DEF RegistryShape, EntryShape, IsEntry
<1>4. ASSUME NEW i \in Runs, NEW g, NEW o, Said(i, g, o)'
      PROVE  \/ Said(i, g, o)
             \/ g = 0 /\ \E n \in Nodes : \E x \in saved[n].runs : x.run = i /\ o = x.owner
  <2>1. CASE \E n \in Nodes : EntrySays(n, i, g, o)'
    <3>1. PICK n \in Nodes : EntrySays(n, i, g, o)' BY <2>1
    <3>2. entry'[n][i] # Unwritten /\ entry'[n][i].gen = g /\ entry'[n][i].owner = o
      BY <3>1 DEF EntrySays
    <3>3. CASE entry'[n][i] = entry[n][i] BY <3>2, <3>3 DEF Said, EntrySays
    <3>4. CASE entry'[n][i] # entry[n][i] BY <1>1, <3>2, <3>4
    <3> QED BY <3>3, <3>4
  <2>2. CASE \E p \in posts' : PostSays(p, i, g, o) BY <2>2 DEF Said
  <2>3. CASE \E n, m \in Nodes : RoundSays(n, m, i, g, o)' BY <2>3
  <2>4. CASE \E h \in moving' : MoveSays(h, i, g, o) BY <2>4 DEF Said
  <2> QED BY <1>4, <2>1, <2>2, <2>3, <2>4 DEF Said, PostSays, MoveSays
<1>5. ASSUME NEW n \in Nodes, NEW i \in Runs, entry'[n][i].status = "stopped"
      PROVE  \/ /\ entry[n][i].status = "stopped" /\ entry'[n][i].owner = entry[n][i].owner
                /\ entry'[n][i].gen = entry[n][i].gen
             \/ /\ entry[n][i] = Unwritten /\ entry'[n][i].gen = 0 /\ entry'[n][i].owner = n
                /\ \E k \in Nodes : \E x \in saved[k].runs : x.run = i /\ x.owner = n
  <2>1. CASE entry'[n][i] = entry[n][i] BY <1>5, <2>1
  <2>2. CASE entry'[n][i] # entry[n][i] BY <1>1, <1>5, <2>2
  <2> QED BY <2>1, <2>2
<1>6. \A n \in Nodes : \A i \in Runs : entry'[n][i] = Unwritten => entry[n][i] = Unwritten
  BY <1>1
<1> QED BY <1>3, <1>4, <1>5, <1>6, NothingNewSaid

(* A round that moves on says nothing new unless it fetches. *)
RoundIsQuiet ==
    /\ RoundShape'
    /\ \A n, m \in Nodes : \A i \in Runs : \A g, o : RoundSays(n, m, i, g, o)' => Said(i, g, o)

LEMMA RoundStays ==
  ASSUME RoundShape, round' = round PROVE RoundIsQuiet
<1>1. RoundShape' BY DEF RoundShape, Fetched
<1>2. \A n, m \in Nodes : \A i \in Runs : \A g, o :
        RoundSays(n, m, i, g, o)' => RoundSays(n, m, i, g, o)
  BY DEF RoundSays, Fetched
<1> QED BY <1>1, <1>2 DEF RoundIsQuiet, Said

LEMMA RoundMoves ==
  ASSUME RoundShape, NEW k \in Nodes, NEW x, round' = [round EXCEPT ![k] = x],
         x = [at |-> x.at, todo |-> x.todo, got |-> x.got], x.at # "claims"
  PROVE  RoundIsQuiet
<1>1. \A n \in Nodes : round'[n] = (IF n = k THEN x ELSE round[n]) BY DEF RoundShape
<1>2. \A n, m \in Nodes : Fetched(n, m)' => n # k /\ Fetched(n, m) BY <1>1 DEF Fetched
<1>3. round' = [n \in Nodes |-> round'[n]] BY DEF RoundShape
<1>4. RoundShape' BY <1>1, <1>2, <1>3 DEF RoundShape
<1>5. \A n, m \in Nodes : \A i \in Runs : \A g, o :
        RoundSays(n, m, i, g, o)' => RoundSays(n, m, i, g, o)
  BY <1>1, <1>2 DEF RoundSays
<1> QED BY <1>4, <1>5 DEF RoundIsQuiet, Said

LEMMA RoundRestarts ==
  ASSUME RoundShape, NEW k \in Nodes,
         \/ round' = [round EXCEPT ![k] = NewRound(k)]
         \/ NextCatalog(k)
  PROVE  RoundIsQuiet
<1>1. ASSUME NEW at, NEW peers, at # "claims",
             round' = [round EXCEPT ![k] = [at |-> at, todo |-> peers, got |-> <<>>]]
      PROVE  RoundIsQuiet
  <2>1. PICK x : x = [at |-> at, todo |-> peers, got |-> <<>>] OBVIOUS
  <2>2. x = [at |-> x.at, todo |-> x.todo, got |-> x.got] /\ x.at = at BY <2>1
  <2> QED BY <1>1, <2>1, <2>2, RoundMoves
<1>2. CASE round' = [round EXCEPT ![k] = NewRound(k)] BY <1>1, <1>2 DEF NewRound
<1>3. CASE NextCatalog(k) BY <1>1, <1>3 DEF NextCatalog, Go
<1> QED BY <1>2, <1>3

LEMMA OneEntry ==
  ASSUME EntryShape, NEW k \in Nodes, NEW r \in Runs, NEW e, SetEntry(k, r, e)
  PROVE  /\ entry' = [n \in Nodes |-> [i \in Runs |-> entry'[n][i]]]
         /\ entry'[k][r] = e
         /\ \A n \in Nodes : \A i \in Runs : n # k \/ i # r => entry'[n][i] = entry[n][i]
<1>1. entry = [n \in Nodes |-> [i \in Runs |-> entry[n][i]]] BY DEF EntryShape
<1>2. entry' = [n \in Nodes |-> IF n = k THEN [i \in Runs |-> IF i = r THEN e ELSE entry[n][i]]
                                          ELSE [i \in Runs |-> entry[n][i]]]
  BY <1>1 DEF SetEntry
<1> QED BY <1>2

LEMMA OwnersInit == Init => OwnersInv
<1> SUFFICES ASSUME Init PROVE OwnersInv OBVIOUS
<1>1. CatalogInv BY CatalogInit
<1>2. HomeInv BY DEF Init, HomeInv, Empty
<1>3. EntryShape BY DEF Init, EntryShape
<1>4. MessageShape BY DEF Init, MessageShape
<1>5. RoundShape BY DEF Init, RoundShape, NewRound, Fetched
<1>6. \A i \in Runs : \A g, o : ~Said(i, g, o)
  BY DEF Init, Said, EntrySays, RoundSays, Fetched, NewRound
<1>7. OwnerIsLast BY UnwrittenEntry DEF Init, OwnerIsLast
<1> QED BY <1>1, <1>2, <1>3, <1>4, <1>5, <1>6, <1>7
        DEF OwnersInv, RegistryShape, OneSaid, HomeIsFirst

(* What the steps of a node do to what it knows of a run: KnowledgeGrows. *)
NotForgotten(a, b) ==
    b.gen > a.gen \/ (b.gen = a.gen /\ (a.status = "completed" => b.status = "completed"))
Ended(n, i) == \E h \in moving : h \notin moving' /\ h.from = n /\ h.run = i
ClaimsGrown ==
    \A n \in Nodes, i \in Runs :
      entry[n][i] # Unwritten => NotForgotten(entry[n][i], entry'[n][i]) \/ Ended(n, i)

CatalogsKept == CatalogInv' /\ HomeInv' /\ SavedGrows

PostsAreSaid ==
    /\ MessageShape'
    /\ \A p \in posts' : \A i \in Runs : \A g, o : PostSays(p, i, g, o) => Said(i, g, o)

LEMMA SamePosts ==
  ASSUME MessageShape, posts' \subseteq posts, moving' \subseteq moving PROVE PostsAreSaid
BY DEF PostsAreSaid, MessageShape, Said

LEMMA PostedClaims ==
  ASSUME MessageShape, NEW n, NEW r, NEW e, NEW reached \in SUBSET Nodes,
         Post(n, r, e, reached), moving' \subseteq moving,
         e.gen \in Nat, Said(r, e.gen, e.owner)
  PROVE  PostsAreSaid
<1>1. PICK u : u = Claim(e) OBVIOUS
<1>2. u.gen = e.gen /\ u.owner = e.owner BY <1>1 DEF Claim
<1>3. \A p \in posts' : \/ p \in posts
                        \/ p.to \in Nodes /\ p.run = r /\ p.claim = u
  BY <1>1 DEF Post
<1>4. MessageShape' BY <1>2, <1>3 DEF MessageShape
<1>5. ASSUME NEW p \in posts', NEW i \in Runs, NEW g, NEW o, PostSays(p, i, g, o)
      PROVE  Said(i, g, o)
  <2>1. CASE p \in posts BY <1>5, <2>1 DEF Said
  <2>2. CASE p.run = r /\ p.claim = u
    <3>1. i = r /\ g = e.gen /\ o = e.owner BY <1>2, <1>5, <2>2 DEF PostSays
    <3> QED BY <3>1
  <2> QED BY <1>3, <2>1, <2>2
<1> QED BY <1>4, <1>5 DEF PostsAreSaid

LEMMA SameNotForgotten ==
  ASSUME NEW e, IsEntry(e) PROVE NotForgotten(e, e)
BY DEF NotForgotten

LEMMA NothingEntered ==
  ASSUME OwnersInv, CatalogsKept, PostsAreSaid, RoundIsQuiet, known' = known, entry' = entry,
         moving' \subseteq moving
  PROVE  OwnersInv' /\ ClaimsGrown
<1>0. EntryShape BY DEF OwnersInv, RegistryShape
<1>1. entry' = [n \in Nodes |-> [i \in Runs |-> entry'[n][i]]] BY <1>0 DEF EntryShape
<1>2. \A n \in Nodes : \A i \in Runs : entry'[n][i] = entry[n][i] OBVIOUS
<1>3. OwnersInv'
  BY <1>1, <1>2, NothingNewHeard DEF CatalogsKept, PostsAreSaid, RoundIsQuiet
<1>4. ClaimsGrown BY <1>0, SameNotForgotten DEF ClaimsGrown, EntryShape
<1> QED BY <1>3, <1>4

LEMMA EntryIsSaid ==
  ASSUME NEW n \in Nodes, NEW i \in Runs, entry[n][i] # Unwritten
  PROVE  Said(i, entry[n][i].gen, entry[n][i].owner)
BY DEF Said, EntrySays

(* One entry changes to what is said of its run already. *)
LEMMA OneHeard ==
  ASSUME OwnersInv, CatalogsKept, PostsAreSaid, RoundIsQuiet, known' = known,
         moving' \subseteq moving,
         NEW k \in Nodes, NEW r \in Runs, NEW e, SetEntry(k, r, e), entry[k][r] # Unwritten,
         IsEntry(e), Said(r, e.gen, e.owner),
         e.status = "stopped" => /\ entry[k][r].status = "stopped"
                                 /\ e.owner = entry[k][r].owner /\ e.gen = entry[k][r].gen,
         NotForgotten(entry[k][r], e) \/ Ended(k, r)
  PROVE  OwnersInv' /\ ClaimsGrown
<1>0. EntryShape BY DEF OwnersInv, RegistryShape
<1>1. /\ entry' = [n \in Nodes |-> [i \in Runs |-> entry'[n][i]]]
      /\ entry'[k][r] = e
      /\ \A n \in Nodes : \A i \in Runs : n # k \/ i # r => entry'[n][i] = entry[n][i]
  BY <1>0, OneEntry
<1>2. OwnersInv'
  <2>1. ASSUME NEW n \in Nodes, NEW i \in Runs, entry'[n][i] # entry[n][i]
        PROVE  /\ entry[n][i] # Unwritten /\ IsEntry(entry'[n][i])
               /\ Said(i, entry'[n][i].gen, entry'[n][i].owner)
               /\ entry'[n][i].status = "stopped" =>
                    /\ entry[n][i].status = "stopped" /\ entry'[n][i].owner = entry[n][i].owner
                    /\ entry'[n][i].gen = entry[n][i].gen
    <3>1. n = k /\ i = r BY <1>1, <2>1
    <3> QED BY <1>1, <3>1
  <2> QED BY <1>1, <2>1, NothingNewHeard DEF CatalogsKept, PostsAreSaid, RoundIsQuiet
<1>3. ASSUME NEW n \in Nodes, NEW i \in Runs, entry[n][i] # Unwritten
      PROVE  NotForgotten(entry[n][i], entry'[n][i]) \/ Ended(n, i)
  <2>1. CASE n = k /\ i = r BY <1>1, <2>1
  <2>2. CASE n # k \/ i # r
    <3>1. entry'[n][i] = entry[n][i] BY <1>1, <2>2
    <3>2. IsEntry(entry[n][i]) BY <1>0, <1>3 DEF EntryShape
    <3>3. NotForgotten(entry[n][i], entry[n][i]) BY <3>2, SameNotForgotten
    <3> QED BY <3>1, <3>3
  <2> QED BY <2>1, <2>2
<1>4. ClaimsGrown BY <1>3 DEF ClaimsGrown
<1> QED BY <1>2, <1>4

LEMMA HeardIsSaid ==
  ASSUME OwnersInv, NEW n \in Nodes, NEW r \in known[n], NEW u, u.gen \in Nat,
         Said(r, u.gen, u.owner), Accepts(entry[n][r], u),
         NEW f, f = ApplyOwnership(n, entry[n][r], u)
  PROVE  /\ IsEntry(f) /\ Said(r, f.gen, f.owner) /\ NotForgotten(entry[n][r], f)
         /\ f.status = "stopped" => /\ entry[n][r].status = "stopped"
                                    /\ f.owner = entry[n][r].owner /\ f.gen = entry[n][r].gen
<1>1. r \in Runs /\ IsEntry(entry[n][r]) BY DEF OwnersInv, RegistryShape, EntryShape
<1>2. PICK e : e = entry[n][r] OBVIOUS
<1>3. /\ IsEntry(f) /\ f.gen = u.gen /\ f.owner = u.owner /\ f.gen >= e.gen
      /\ f.status = "stopped" => e.status = "stopped"
      /\ f.gen = e.gen => f.owner = e.owner
      /\ f.gen = e.gen /\ e.status = "completed" => f.status = "completed"
  BY <1>1, <1>2, HeardClaim
<1>4. e.gen \in Nat /\ f.gen \in Nat BY <1>1, <1>2, <1>3, WrittenEntry
<1>5. NotForgotten(e, f) BY <1>3, <1>4 DEF NotForgotten
<1>6. ASSUME f.status = "stopped" PROVE f.gen = e.gen
  <2>1. f.gen <= e.gen BY <1>1, <1>2, <1>3, <1>6 DEF OwnersInv, OwnerIsLast
  <2> QED BY <1>3, <1>4, <2>1
<1> QED BY <1>2, <1>3, <1>5, <1>6

LEMMA HeardEntry ==
  ASSUME NEW n, NEW e, NEW c, NEW u, NEW f, f = Heard(n, [e |-> e, c |-> c], u).e
  PROVE  f = e \/ (Accepts(e, u.claim) /\ f = ApplyOwnership(n, e, u.claim))
<1>1. PICK x : x = [e |-> e, c |-> c] OBVIOUS
<1>2. x.e = e BY <1>1
<1>3. CASE Accepts(e, u.claim)
  <2>1. Heard(n, x, u) = [e |-> ApplyOwnership(n, e, u.claim), c |-> Newer(x.c, u.count)]
    BY <1>2, <1>3 DEF Heard
  <2> QED BY <1>1, <1>3, <2>1
<1>4. CASE ~Accepts(e, u.claim)
  <2>1. Heard(n, x, u) = x BY <1>2, <1>4 DEF Heard
  <2> QED BY <1>1, <1>2, <2>1
<1> QED BY <1>3, <1>4

LEMMA NextIsAPeer ==
  ASSUME RoundShape, NEW n \in Nodes, round[n].at = "claims"
  PROVE  NextPeer(n) \in round[n].todo /\ NextPeer(n) \in Nodes /\ Fetched(n, NextPeer(n))
<1>1. round[n].todo # {} /\ round[n].todo \subseteq Nodes BY DEF RoundShape
<1>2. \E x \in round[n].todo : \A y \in round[n].todo : x <= y
  BY <1>1, LeastNumber, ReplicationAssumption
<1>3. NextPeer(n) \in round[n].todo BY <1>2 DEF NextPeer, Min
<1> QED BY <1>1, <1>3 DEF Fetched

LEMMA RoundGoesOn ==
  ASSUME RoundShape, NEW k \in Nodes, NEW peer, round[k].at = "claims",
         IF round[k].todo = {peer}
         THEN round' = [round EXCEPT ![k] = NewRound(k)]
         ELSE Go(k, "claims", round[k].todo \ {peer},
                 [o \in round[k].todo \ {peer} |-> round[k].got[o]])
  PROVE  RoundIsQuiet
<1>1. CASE round' = [round EXCEPT ![k] = NewRound(k)] BY <1>1, RoundRestarts
<1>2. CASE round[k].todo # {peer}
  <2>1. PICK D : D = round[k].todo \ {peer} OBVIOUS
  <2>2. PICK got : got = [o \in D |-> round[k].got[o]] OBVIOUS
  <2>3. PICK x : x = [at |-> "claims", todo |-> D, got |-> got] OBVIOUS
  <2>4. round' = [round EXCEPT ![k] = x] BY <1>2, <2>1, <2>2, <2>3 DEF Go
  <2>5. \A n \in Nodes : round'[n] = (IF n = k THEN x ELSE round[n]) BY <2>4 DEF RoundShape
  <2>6. D # {} /\ D \subseteq Nodes /\ D \subseteq round[k].todo
    BY <1>2, <2>1 DEF RoundShape
  <2>7. \A n, m \in Nodes : Fetched(n, m)' =>
          Fetched(n, m) /\ round'[n].got[m] = round[n].got[m]
    <3> SUFFICES ASSUME NEW n \in Nodes, NEW m \in Nodes, Fetched(n, m)'
                 PROVE  Fetched(n, m) /\ round'[n].got[m] = round[n].got[m]
      OBVIOUS
    <3>1. CASE n = k
      <4>1. round'[n] = x BY <2>5, <3>1
      <4>2. m \in D BY <2>3, <4>1 DEF Fetched
      <4>3. x.got[m] = round[k].got[m] BY <2>2, <2>3, <4>2
      <4> QED BY <2>6, <3>1, <4>1, <4>2, <4>3 DEF Fetched
    <3>2. CASE n # k
      <4>1. round'[n] = round[n] BY <2>5, <3>2
      <4> QED BY <4>1 DEF Fetched
    <3> QED BY <3>1, <3>2
  <2>8. RoundShape'
    <3>1. round' = [n \in Nodes |-> round'[n]] BY <2>4 DEF RoundShape
    <3>2. \A n \in Nodes : round'[n] = [at |-> round'[n].at, todo |-> round'[n].todo,
                                        got |-> round'[n].got]
      BY <2>3, <2>5 DEF RoundShape
    <3>3. \A n \in Nodes : round'[n].at = "claims" =>
            round'[n].todo # {} /\ round'[n].todo \subseteq Nodes
      BY <2>3, <2>5, <2>6 DEF RoundShape
    <3>4. ASSUME NEW n \in Nodes, NEW m \in Nodes, Fetched(n, m)'
          PROVE  \A i \in DOMAIN round'[n].got[m] : round'[n].got[m][i].claim.gen \in Nat
      BY <2>7, <3>4 DEF RoundShape
    <3>5. \A n \in Nodes : \A m \in round'[n].todo : round'[n].at = "claims" => m \in Nodes
      BY <3>3
    <3>6. ASSUME NEW n \in Nodes, NEW m, Fetched(n, m)' PROVE m \in Nodes
      BY <3>5, <3>6 DEF Fetched
    <3> QED BY <3>1, <3>2, <3>3, <3>4, <3>6 DEF RoundShape
  <2>9. \A n, m \in Nodes : \A i \in Runs : \A g, o :
          RoundSays(n, m, i, g, o)' => RoundSays(n, m, i, g, o)
    BY <2>7 DEF RoundSays
  <2> QED BY <2>8, <2>9 DEF RoundIsQuiet, Said
<1> QED BY <1>1, <1>2

LEMMA RoundFetches ==
  ASSUME OwnersInv, NEW k \in Nodes, NEW answered \in SUBSET Peers(k),
         FetchClaims(k, answered)
  PROVE  RoundIsQuiet
<1>0. RoundShape /\ EntryShape BY DEF OwnersInv, RegistryShape
<1>1. CASE answered = {}
  <2>1. round' = [round EXCEPT ![k] = NewRound(k)] BY <1>1 DEF FetchClaims
  <2> QED BY <1>0, <2>1, RoundRestarts
<1>2. CASE answered # {}
  <2>1. PICK got : got = [m \in answered |-> Updates(m)] OBVIOUS
  <2>2. PICK x : x = [at |-> "claims", todo |-> answered, got |-> got] OBVIOUS
  <2>3. round' = [round EXCEPT ![k] = x] BY <1>2, <2>1, <2>2 DEF FetchClaims, Go
  <2>4. \A n \in Nodes : round'[n] = (IF n = k THEN x ELSE round[n])
    BY <1>0, <2>3 DEF RoundShape
  <2>5. answered \subseteq Nodes BY DEF Peers
  <2>6. ASSUME NEW m \in answered
        PROVE  /\ DOMAIN got[m] = known[m]
               /\ \A i \in known[m] : /\ got[m][i].claim.gen = entry[m][i].gen
                                      /\ got[m][i].claim.owner = entry[m][i].owner
                                      /\ entry[m][i] # Unwritten /\ entry[m][i].gen \in Nat
    <3>1. got[m] = [r \in known[m] |-> [claim |-> Claim(entry[m][r]), count |-> count[m][r]]]
      BY <2>1, <2>6 DEF Updates
    <3>2. \A i \in known[m] : got[m][i].claim = Claim(entry[m][i]) BY <3>1
    <3>3. \A i \in known[m] : entry[m][i] # Unwritten /\ entry[m][i].gen \in Nat
      BY <1>0, <2>5, WrittenEntry DEF EntryShape
    <3> QED BY <3>1, <3>2, <3>3 DEF Claim
  <2>7. ASSUME NEW n \in Nodes, NEW m \in Nodes, Fetched(n, m)'
        PROVE  \/ n = k /\ m \in answered /\ round'[n].got[m] = got[m]
               \/ n # k /\ Fetched(n, m) /\ round'[n].got[m] = round[n].got[m]
    <3>1. CASE n = k
      <4>1. round'[n] = x BY <2>4, <3>1
      <4> QED BY <2>2, <2>7, <3>1, <4>1 DEF Fetched
    <3>2. CASE n # k
      <4>1. round'[n] = round[n] BY <2>4, <3>2
      <4> QED BY <2>7, <3>2, <4>1 DEF Fetched
    <3> QED BY <3>1, <3>2
  <2>8. RoundShape'
    <3>1. round' = [n \in Nodes |-> round'[n]] BY <1>0, <2>3 DEF RoundShape
    <3>2. \A n \in Nodes : round'[n] = [at |-> round'[n].at, todo |-> round'[n].todo,
                                        got |-> round'[n].got]
      BY <1>0, <2>2, <2>4 DEF RoundShape
    <3>3. \A n \in Nodes : round'[n].at = "claims" =>
            round'[n].todo # {} /\ round'[n].todo \subseteq Nodes
      BY <1>0, <1>2, <2>2, <2>4, <2>5 DEF RoundShape
    <3>4. ASSUME NEW n \in Nodes, NEW m \in Nodes, Fetched(n, m)'
          PROVE  \A i \in DOMAIN round'[n].got[m] : round'[n].got[m][i].claim.gen \in Nat
      BY <1>0, <2>6, <2>7, <3>4 DEF RoundShape
    <3>6. ASSUME NEW n \in Nodes, NEW m, Fetched(n, m)' PROVE m \in Nodes
      BY <3>3, <3>6 DEF Fetched
    <3> QED BY <3>1, <3>2, <3>3, <3>4, <3>6 DEF RoundShape
  <2>9. ASSUME NEW n \in Nodes, NEW m \in Nodes, NEW i \in Runs, NEW g, NEW o,
               RoundSays(n, m, i, g, o)'
        PROVE  Said(i, g, o)
    <3>1. /\ Fetched(n, m)' /\ i \in DOMAIN round'[n].got[m]
          /\ round'[n].got[m][i].claim.gen = g /\ round'[n].got[m][i].claim.owner = o
      BY <2>9 DEF RoundSays
    <3>2. CASE n = k /\ m \in answered /\ round'[n].got[m] = got[m]
      <4>1. i \in known[m] /\ EntrySays(m, i, g, o) BY <2>6, <3>1, <3>2 DEF EntrySays
      <4> QED BY <4>1 DEF Said
    <3>3. CASE Fetched(n, m) /\ round'[n].got[m] = round[n].got[m]
      <4>1. RoundSays(n, m, i, g, o) BY <3>1, <3>3 DEF RoundSays
      <4> QED BY <4>1 DEF Said
    <3> QED BY <2>7, <3>1, <3>2, <3>3
  <2> QED BY <2>8, <2>9 DEF RoundIsQuiet
<1> QED BY <1>1, <1>2

LEMMA OwnersComplete ==
  ASSUME OwnersInv, CatalogsKept, NEW n \in Nodes, NEW r \in Runs, Complete(n, r)
  PROVE  OwnersInv' /\ ClaimsGrown
<1>1. EntryShape /\ MessageShape /\ RoundShape BY DEF OwnersInv, RegistryShape
<1>2. r \in known[n] /\ UNCHANGED <<known, round, posts, moving>>
  BY DEF Complete, Owns, catalogs
<1>3. PICK e : e = entry[n][r] OBVIOUS
<1>4. IsEntry(e) /\ e # Unwritten BY <1>1, <1>2, <1>3 DEF EntryShape
<1>5. PICK f : f = MarkCompleted(e) OBVIOUS
<1>6. f = [owner |-> e.owner, gen |-> e.gen, status |-> "completed", pid |-> NoPid,
           last |-> e.last, exhausted |-> FALSE]
  BY <1>4, <1>5 DEF MarkCompleted, IsEntry
<1>7. IsEntry(f) /\ f.status = "completed" /\ f.gen = e.gen /\ f.owner = e.owner
  BY <1>4, <1>6 DEF IsEntry, Status
<1>8. SetEntry(n, r, f) BY <1>3, <1>5 DEF Complete
<1>9. Said(r, f.gen, f.owner) BY <1>3, <1>4, <1>7, EntryIsSaid
<1>10. NotForgotten(e, f) BY <1>4, <1>7, WrittenEntry DEF NotForgotten
<1>11. PostsAreSaid /\ RoundIsQuiet BY <1>1, <1>2, SamePosts, RoundStays
<1> QED BY <1>2, <1>3, <1>4, <1>7, <1>8, <1>9, <1>10, <1>11, OneHeard

LEMMA OwnersFinalize ==
  ASSUME OwnersInv, CatalogsKept, NEW h \in moving, Finalize(h)
  PROVE  OwnersInv' /\ ClaimsGrown
<1>1. EntryShape /\ MessageShape /\ RoundShape BY DEF OwnersInv, RegistryShape
<1>2. PICK n : n = h.from OBVIOUS
<1>3. PICK r : r = h.run OBVIOUS
<1>4. PICK e : e = entry[n][r] OBVIOUS
<1>5. PICK f : f = MarkRemote(e, h.to, h.gen, h.gen) OBVIOUS
<1>6. PICK p : p = [f EXCEPT !.owner = h.to, !.gen = h.gen, !.status = "remote"] OBVIOUS
<1>7. /\ r \in known[n] /\ moving' = moving \ {h} /\ SetEntry(n, r, f)
      /\ \E reached \in SUBSET Peers(n) : Post(n, r, p, reached)
      /\ known' = known /\ round' = round
  BY <1>2, <1>3, <1>4, <1>5, <1>6 DEF Finalize
<1>8. n \in Nodes /\ h.gen \in Nat BY <1>1, <1>2 DEF MessageShape
<1>9. r \in Runs /\ e # Unwritten /\ IsEntry(e) BY <1>1, <1>4, <1>7, <1>8 DEF EntryShape
<1>10. /\ IsEntry(f) /\ f.gen = h.gen /\ f.owner = h.to /\ f.status # "stopped"
  <2>1. CASE e.gen = h.gen /\ e.owner = h.to /\ e.status = "completed"
    <3>1. f = e BY <1>5, <2>1 DEF MarkRemote
    <3> QED BY <1>9, <2>1, <3>1
  <2>2. CASE ~(e.gen = h.gen /\ e.owner = h.to /\ e.status = "completed")
    <3>1. f = [owner |-> h.to, gen |-> h.gen, status |-> "remote", pid |-> NoPid,
               last |-> h.gen, exhausted |-> e.exhausted]
      BY <1>5, <1>9, <2>2 DEF MarkRemote, IsEntry
    <3> QED BY <1>8, <3>1 DEF IsEntry, Status
  <2> QED BY <2>1, <2>2
<1>11. p.gen = h.gen /\ p.owner = h.to
  <2>1. p = [owner |-> h.to, gen |-> h.gen, status |-> "remote", pid |-> f.pid,
             last |-> f.last, exhausted |-> f.exhausted]
    BY <1>6, <1>10 DEF IsEntry
  <2> QED BY <2>1
<1>12. Said(r, h.gen, h.to) BY <1>3 DEF Said, MoveSays
<1>13. PostsAreSaid
  <2>1. PICK reached \in SUBSET Peers(n) : Post(n, r, p, reached) BY <1>7
  <2>2. reached \in SUBSET Nodes BY DEF Peers
  <2>3. moving' \subseteq moving BY <1>7
  <2> QED BY <1>1, <1>8, <1>11, <1>12, <2>1, <2>2, <2>3, PostedClaims
<1>14. RoundIsQuiet BY <1>1, <1>7, RoundStays
<1>15. Ended(n, r) BY <1>2, <1>3, <1>7 DEF Ended
<1>16. known' = known /\ moving' \subseteq moving BY <1>7
<1> QED BY <1>4, <1>7, <1>8, <1>9, <1>10, <1>12, <1>13, <1>14, <1>15, <1>16, OneHeard

LEMMA OwnersDeliver ==
  ASSUME OwnersInv, CatalogsKept, NEW p \in posts, Deliver(p)
  PROVE  OwnersInv' /\ ClaimsGrown
<1>1. EntryShape /\ MessageShape /\ RoundShape BY DEF OwnersInv, RegistryShape
<1>2. posts' = posts \ {p} /\ UNCHANGED <<known, round, moving>> BY DEF Deliver
<1>3. PostsAreSaid /\ RoundIsQuiet BY <1>1, <1>2, SamePosts, RoundStays
<1>4. CASE p.run \notin known[p.to]
  <2>1. entry' = entry BY <1>4 DEF Deliver, claims
  <2> QED BY <1>2, <1>3, <2>1, NothingEntered
<1>5. CASE p.run \in known[p.to]
  <2>1. PICK n : n = p.to OBVIOUS
  <2>2. PICK r : r = p.run OBVIOUS
  <2>3. PICK c : c = count[n][r] OBVIOUS
  <2>4. PICK f : f = Heard(n, [e |-> entry[n][r], c |-> c], p).e OBVIOUS
  <2>5. SetEntry(n, r, f) BY <1>5, <2>1, <2>2, <2>3, <2>4 DEF Deliver
  <2>6. n \in Nodes /\ p.claim.gen \in Nat BY <1>1, <2>1 DEF MessageShape
  <2>7. r \in known[n] /\ r \in Runs /\ entry[n][r] # Unwritten /\ IsEntry(entry[n][r])
    BY <1>1, <1>5, <2>1, <2>2, <2>6 DEF EntryShape
  <2>8. Said(r, p.claim.gen, p.claim.owner) BY <2>2 DEF Said, PostSays
  <2>9. \/ f = entry[n][r]
        \/ Accepts(entry[n][r], p.claim) /\ f = ApplyOwnership(n, entry[n][r], p.claim)
    BY <2>4, HeardEntry
  <2>10. CASE f = entry[n][r]
    <3>1. Said(r, f.gen, f.owner) BY <2>6, <2>7, <2>10, EntryIsSaid
    <3>2. NotForgotten(entry[n][r], f) BY <2>7, <2>10, SameNotForgotten
    <3>3. known' = known /\ moving' \subseteq moving BY <1>2
    <3>4. IsEntry(f) BY <2>7, <2>10
    <3>5. f.status = "stopped" => /\ entry[n][r].status = "stopped"
                                  /\ f.owner = entry[n][r].owner /\ f.gen = entry[n][r].gen
      BY <2>10
    <3> QED BY <1>3, <2>5, <2>6, <2>7, <3>1, <3>2, <3>3, <3>4, <3>5, OneHeard
  <2>11. CASE Accepts(entry[n][r], p.claim) /\ f = ApplyOwnership(n, entry[n][r], p.claim)
    <3>1. PICK u : u = p.claim OBVIOUS
    <3>2. /\ IsEntry(f) /\ Said(r, f.gen, f.owner) /\ NotForgotten(entry[n][r], f)
          /\ f.status = "stopped" => /\ entry[n][r].status = "stopped"
                                     /\ f.owner = entry[n][r].owner /\ f.gen = entry[n][r].gen
      BY <2>6, <2>7, <2>8, <2>11, <3>1, HeardIsSaid
    <3>3. known' = known /\ moving' \subseteq moving BY <1>2
    <3> QED BY <1>3, <2>5, <2>6, <2>7, <3>2, <3>3, OneHeard
  <2> QED BY <2>9, <2>10, <2>11
<1> QED BY <1>4, <1>5

LEMMA OwnersApply ==
  ASSUME OwnersInv, CatalogsKept, NEW n \in Nodes, ApplyClaims(n)
  PROVE  OwnersInv' /\ ClaimsGrown
<1>1. EntryShape /\ MessageShape /\ RoundShape BY DEF OwnersInv, RegistryShape
<1>2. PICK m : m = NextPeer(n) OBVIOUS
<1>3. PICK got : got = round[n].got[m] OBVIOUS
<1>4. round[n].at = "claims" /\ UNCHANGED <<known, posts, moving>> BY DEF ApplyClaims
<1>5. m \in Nodes /\ Fetched(n, m) BY <1>1, <1>2, <1>4, NextIsAPeer
<1>6. PostsAreSaid BY <1>1, <1>4, SamePosts
<1>7. RoundIsQuiet
  <2>1. IF round[n].todo = {m}
        THEN round' = [round EXCEPT ![n] = NewRound(n)]
        ELSE Go(n, "claims", round[n].todo \ {m},
                [o \in round[n].todo \ {m} |-> round[n].got[o]])
    BY <1>2 DEF ApplyClaims
  <2> QED BY <1>1, <1>4, <2>1, RoundGoesOn
<1> DEFINE after(r) ==
      IF r \in known[n] \cap DOMAIN got
      THEN Heard(n, [e |-> entry[n][r], c |-> count[n][r]], got[r])
      ELSE [e |-> entry[n][r], c |-> count[n][r]]
<1>8. entry' = [entry EXCEPT ![n] = [r \in Runs |-> after(r).e]]
  BY <1>2, <1>3 DEF ApplyClaims
<1>9. ASSUME NEW r \in Runs, NEW f, f = after(r).e, f # entry[n][r]
      PROVE  /\ entry[n][r] # Unwritten /\ IsEntry(f) /\ Said(r, f.gen, f.owner)
             /\ NotForgotten(entry[n][r], f)
             /\ f.status = "stopped" => /\ entry[n][r].status = "stopped"
                                        /\ f.owner = entry[n][r].owner
                                        /\ f.gen = entry[n][r].gen
  <2>1. r \in known[n] /\ r \in DOMAIN got
    <3>1. [e |-> entry[n][r], c |-> count[n][r]].e = entry[n][r] OBVIOUS
    <3> QED BY <1>9, <3>1
  <2>2. f = Heard(n, [e |-> entry[n][r], c |-> count[n][r]], got[r]).e BY <1>9, <2>1
  <2>3. PICK u : u = got[r].claim OBVIOUS
  <2>4. Accepts(entry[n][r], u) /\ f = ApplyOwnership(n, entry[n][r], u)
    BY <1>9, <2>2, <2>3, HeardEntry
  <2>5. u.gen \in Nat BY <1>1, <1>3, <1>5, <2>1, <2>3 DEF RoundShape
  <2>6. RoundSays(n, m, r, u.gen, u.owner) BY <1>3, <1>5, <2>1, <2>3 DEF RoundSays
  <2>7. Said(r, u.gen, u.owner) BY <1>5, <2>6 DEF Said
  <2>8. entry[n][r] # Unwritten BY <1>1, <2>1 DEF EntryShape
  <2> QED BY <2>1, <2>4, <2>5, <2>7, <2>8, HeardIsSaid
<1>10. entry' = [k \in Nodes |-> [i \in Runs |-> entry'[k][i]]]
  BY <1>1, <1>8 DEF EntryShape
<1>11. ASSUME NEW k \in Nodes, NEW i \in Runs, entry'[k][i] # entry[k][i]
       PROVE  k = n /\ entry'[k][i] = after(i).e
  <2>1. DOMAIN entry = Nodes BY <1>1 DEF EntryShape
  <2>2. k = n BY <1>8, <1>11, <2>1
  <2>3. entry'[n] = [r \in Runs |-> after(r).e] BY <1>8, <2>1
  <2> QED BY <2>2, <2>3
<1> HIDE DEF after
<1>12. OwnersInv'
  <2>1. ASSUME NEW k \in Nodes, NEW i \in Runs, entry'[k][i] # entry[k][i]
        PROVE  /\ entry[k][i] # Unwritten /\ IsEntry(entry'[k][i])
               /\ Said(i, entry'[k][i].gen, entry'[k][i].owner)
               /\ entry'[k][i].status = "stopped" =>
                    /\ entry[k][i].status = "stopped" /\ entry'[k][i].owner = entry[k][i].owner
                    /\ entry'[k][i].gen = entry[k][i].gen
    BY <1>9, <1>11, <2>1
  <2> QED BY <1>4, <1>6, <1>7, <1>10, <2>1, NothingNewHeard
          DEF CatalogsKept, PostsAreSaid, RoundIsQuiet
<1>13. ASSUME NEW k \in Nodes, NEW i \in Runs, entry[k][i] # Unwritten
       PROVE  NotForgotten(entry[k][i], entry'[k][i])
  <2>1. CASE entry'[k][i] = entry[k][i]
    <3>1. IsEntry(entry[k][i]) BY <1>1, <1>13 DEF EntryShape
    <3> QED BY <2>1, <3>1, SameNotForgotten
  <2>2. CASE entry'[k][i] # entry[k][i] BY <1>9, <1>11, <2>2
  <2> QED BY <2>1, <2>2
<1> QED BY <1>12, <1>13 DEF ClaimsGrown

EntersRuns(n, rs) ==
    entry' = [entry EXCEPT ![n] = [i \in Runs |->
                IF \E r \in rs : r.run = i
                THEN Entered(n, CHOOSE r \in rs : r.run = i, entry[n][i])
                ELSE entry[n][i]]]
EntersKnown(n, rs, K) ==
    /\ known' = [known EXCEPT ![n] = K]
    /\ \A i \in K : i \in known[n] \/ \E x \in rs : x.run = i

LEMMA EnteredRuns ==
  ASSUME OwnersInv, CatalogsKept, RoundIsQuiet, posts' = posts, moving' = moving,
         NEW n \in Nodes, NEW rs, \A x \in rs : \E k \in Nodes : x \in saved[k].runs,
         EntersRuns(n, rs),
         NEW K, EntersKnown(n, rs, K)
  PROVE  OwnersInv' /\ ClaimsGrown
<1>0. /\ known' = [known EXCEPT ![n] = K]
      /\ \A i \in K : i \in known[n] \/ \E x \in rs : x.run = i
      /\ entry' = [entry EXCEPT ![n] = [i \in Runs |->
                     IF \E r \in rs : r.run = i
                     THEN Entered(n, CHOOSE r \in rs : r.run = i, entry[n][i])
                     ELSE entry[n][i]]]
  BY DEF EntersRuns, EntersKnown
<1>1. EntryShape /\ MessageShape /\ HomeInv BY DEF OwnersInv, RegistryShape
<1>2. DOMAIN entry = Nodes /\ DOMAIN known = Nodes BY <1>1 DEF EntryShape
<1>3. entry' = [k \in Nodes |-> [i \in Runs |-> entry'[k][i]]] BY <1>0, <1>1 DEF EntryShape
<1>4. ASSUME NEW k \in Nodes, NEW i \in Runs, entry'[k][i] # entry[k][i]
      PROVE  /\ entry[k][i] = Unwritten
             /\ \E o \in Nodes : \E x \in saved[o].runs :
                  x.run = i /\ entry'[k][i] = InitialEntry(k, x.owner)
  <2>1. k = n BY <1>0, <1>2, <1>4
  <2>2. entry'[n][i] = IF \E r \in rs : r.run = i
                       THEN Entered(n, CHOOSE r \in rs : r.run = i, entry[n][i])
                       ELSE entry[n][i]
    BY <1>0, <1>2
  <2>3. \E r \in rs : r.run = i BY <1>4, <2>1, <2>2
  <2>4. PICK x : x = CHOOSE r \in rs : r.run = i OBVIOUS
  <2>5. x \in rs /\ x.run = i BY <2>3, <2>4
  <2>6. entry'[n][i] = Entered(n, x, entry[n][i]) BY <2>2, <2>3, <2>4
  <2>7. entry[n][i] = Unwritten /\ entry'[n][i] = InitialEntry(n, x.owner)
    BY <1>4, <2>1, <2>6 DEF Entered
  <2> QED BY <2>1, <2>5, <2>7
<1>5. ASSUME NEW k \in Nodes, NEW i \in known'[k] PROVE i \in Runs /\ entry'[k][i] # Unwritten
  <2>1. CASE i \in known[k]
    <3>1. i \in Runs /\ entry[k][i] # Unwritten BY <1>1, <2>1 DEF EntryShape
    <3> QED BY <1>4, <3>1
  <2>2. CASE i \notin known[k]
    <3>1. k = n /\ i \in K BY <1>0, <1>2, <1>5, <2>2
    <3>2. PICK x \in rs : x.run = i BY <1>0, <2>2, <3>1
    <3>3. i \in Runs BY <1>1, <3>2 DEF HomeInv
    <3>4. entry'[n][i] = Entered(n, CHOOSE r \in rs : r.run = i, entry[n][i])
      BY <1>0, <1>2, <3>2, <3>3
    <3>5. PICK y : y = CHOOSE r \in rs : r.run = i OBVIOUS
    <3>6. CASE entry[n][i] = Unwritten
      <4>1. entry'[n][i] = InitialEntry(n, y.owner) BY <3>4, <3>5, <3>6 DEF Entered
      <4>2. InitialEntry(n, y.owner).status # "unwritten" BY DEF InitialEntry
      <4> QED BY <3>1, <3>3, <4>1, <4>2, UnwrittenEntry
    <3>7. CASE entry[n][i] # Unwritten
      <4>1. entry'[n][i] = entry[n][i] BY <3>4, <3>7 DEF Entered
      <4> QED BY <3>1, <3>3, <3>7, <4>1
    <3> QED BY <3>6, <3>7
  <2> QED BY <2>1, <2>2
<1>6. OwnersInv'
  <2>1. known' = [k \in Nodes |-> known'[k]] BY <1>0, <1>1 DEF EntryShape
  <2>2. MessageShape' BY <1>1 DEF MessageShape
  <2> QED BY <1>3, <1>4, <1>5, <2>1, <2>2, RunsRegistered DEF CatalogsKept, RoundIsQuiet
<1>7. ASSUME NEW k \in Nodes, NEW i \in Runs, entry[k][i] # Unwritten
      PROVE  NotForgotten(entry[k][i], entry'[k][i])
  <2>1. entry'[k][i] = entry[k][i] BY <1>4, <1>7
  <2>2. IsEntry(entry[k][i]) BY <1>1, <1>7 DEF EntryShape
  <2> QED BY <2>1, <2>2, SameNotForgotten
<1> QED BY <1>6, <1>7 DEF ClaimsGrown

LEMMA OwnersRegister ==
  ASSUME OwnersInv, CatalogsKept, NEW n \in Nodes, NEW r \in catalog[n].runs, RegisterRun(n, r)
  PROVE  OwnersInv' /\ ClaimsGrown
<1>1. RoundShape /\ HomeInv BY DEF OwnersInv, RegistryShape
<1>2. UNCHANGED <<round, posts, moving>> /\ Register(n, {r}) BY DEF RegisterRun
<1>3. RoundIsQuiet BY <1>1, <1>2, RoundStays
<1>4. PICK rs : rs = {r} OBVIOUS
<1>5. \A x \in rs : \E k \in Nodes : x \in saved[k].runs BY <1>1, <1>4 DEF HomeInv
<1>6. PICK K : K = known[n] \cup {x.run : x \in rs} OBVIOUS
<1>7. EntersKnown(n, rs, K) BY <1>2, <1>4, <1>6 DEF EntersKnown, Register
<1>9. EntersRuns(n, rs)
  BY <1>2, <1>4 DEF EntersRuns, Register
<1> QED BY <1>2, <1>3, <1>5, <1>7, <1>9, EnteredRuns

LEMMA OwnersMerge ==
  ASSUME OwnersInv, CatalogsKept, NEW n \in Nodes, NEW m \in Peers(n), MergeCatalog(n, m)
  PROVE  OwnersInv' /\ ClaimsGrown
<1>1. EntryShape /\ MessageShape /\ RoundShape /\ HomeInv /\ CatalogInv
  BY DEF OwnersInv, RegistryShape
<1>2. posts' = posts /\ moving' = moving BY DEF MergeCatalog
<1>3. CASE Conflict(catalog[n], catalog[m])
  <2>1. known' = known /\ entry' = entry /\ round' = [round EXCEPT ![n] = NewRound(n)]
    BY <1>3 DEF MergeCatalog
  <2>2. PostsAreSaid /\ RoundIsQuiet BY <1>1, <1>2, <2>1, SamePosts, RoundRestarts
  <2> QED BY <1>2, <2>1, <2>2, NothingEntered
<1>4. CASE ~Conflict(catalog[n], catalog[m])
  <2>1. PICK rs : rs = Added(n, MergeSnapshot(catalog[n], catalog[m])) OBVIOUS
  <2>2. Register(n, rs) /\ NextCatalog(n) BY <1>4, <2>1 DEF MergeCatalog
  <2>3. RoundIsQuiet BY <1>1, <2>2, RoundRestarts
  <2>4. m \in Nodes BY DEF Peers
  <2>5. \A x \in rs : x \in catalog[m].runs BY <1>1, <2>1, MergedRuns DEF Added, CatalogInv
  <2>6. \A x \in rs : \E k \in Nodes : x \in saved[k].runs BY <1>1, <2>4, <2>5 DEF HomeInv
  <2>7. PICK K : K = known[n] \cup {x.run : x \in rs} OBVIOUS
  <2>8. EntersKnown(n, rs, K) BY <2>2, <2>7 DEF EntersKnown, Register
  <2>10. EntersRuns(n, rs)
    BY <2>2 DEF EntersRuns, Register
  <2> QED BY <1>2, <2>3, <2>6, <2>8, <2>10, EnteredRuns
<1> QED BY <1>3, <1>4

LEMMA OwnersRestart ==
  ASSUME OwnersInv, CatalogsKept, NEW n \in Nodes, Restart(n)
  PROVE  OwnersInv' /\ ClaimsGrown
<1>1. EntryShape /\ RoundShape BY DEF OwnersInv, RegistryShape
<1>2. /\ posts' = posts /\ moving' = moving /\ round' = [round EXCEPT ![n] = NewRound(n)]
  BY DEF Restart
<1>3. RoundIsQuiet BY <1>1, <1>2, RoundRestarts
<1>4. PICK rs : rs = saved[n].runs OBVIOUS
<1>5. \A x \in rs : \E k \in Nodes : x \in saved[k].runs BY <1>4
<1>6. PICK K : K = {x.run : x \in rs} OBVIOUS
<1>7. EntersKnown(n, rs, K) BY <1>4, <1>6 DEF EntersKnown, Restart
<1>9. EntersRuns(n, rs)
  BY <1>1, <1>4 DEF EntersRuns, Restart, EntryShape
<1> QED BY <1>2, <1>3, <1>5, <1>7, <1>9, EnteredRuns

LEMMA SaidIsNat ==
  ASSUME RegistryShape, NEW i \in Runs, NEW g, NEW o, Said(i, g, o) PROVE g \in Nat
<1>1. EntryShape /\ MessageShape /\ RoundShape BY DEF RegistryShape
<1>2. CASE \E n \in Nodes : EntrySays(n, i, g, o)
  BY <1>1, <1>2, WrittenEntry DEF EntrySays, EntryShape
<1>3. CASE \E p \in posts : PostSays(p, i, g, o) BY <1>1, <1>3 DEF PostSays, MessageShape
<1>4. CASE \E n, m \in Nodes : RoundSays(n, m, i, g, o)
  BY <1>1, <1>4 DEF RoundSays, RoundShape
<1>5. CASE \E h \in moving : MoveSays(h, i, g, o) BY <1>1, <1>5 DEF MoveSays, MessageShape
<1> QED BY <1>2, <1>3, <1>4, <1>5 DEF Said

(* The claim opens a generation that nobody has heard of. *)
LEMMA OwnersHandOver ==
  ASSUME OwnersInv, CatalogsKept, NEW n \in Nodes, NEW m \in Nodes, NEW r \in Runs,
         HandOver(n, m, r)
  PROVE  OwnersInv' /\ ClaimsGrown
<1>0. /\ EntryShape /\ MessageShape /\ RoundShape /\ RegistryShape
      /\ HomeInv /\ OneSaid /\ OwnerIsLast /\ HomeIsFirst
  BY DEF OwnersInv, RegistryShape
<1>1. /\ m # n /\ r \in known[n] /\ r \in known[m] /\ entry[n][r].status = "stopped"
      /\ UNCHANGED <<known, round, posts, saved>>
  BY DEF HandOver, Owns, catalogs
<1>2. PICK a : a = entry[n][r] OBVIOUS
<1>3. PICK b : b = entry[m][r] OBVIOUS
<1>4. PICK g : g = a.gen + 1 OBVIOUS
<1>5. IsEntry(a) /\ IsEntry(b) /\ a # Unwritten /\ b # Unwritten
  BY <1>0, <1>1, <1>2, <1>3 DEF EntryShape
<1>6. a.gen \in Nat /\ b.gen \in Nat /\ g \in Nat /\ a.gen < g /\ g # 0
  BY <1>4, <1>5, WrittenEntry
<1>7. PICK x : x = MarkMigrating(a, g) OBVIOUS
<1>8. PICK y : y = ClaimLocal(m, b, g, g) OBVIOUS
<1>9. PICK h : h = [from |-> n, to |-> m, run |-> r, gen |-> g] OBVIOUS
<1>10. moving' = moving \cup {h} BY <1>2, <1>4, <1>9 DEF HandOver
<1>11. /\ IsEntry(x) /\ x.gen = a.gen /\ x.owner = a.owner /\ x.status = "migrating"
  <2>1. x = [owner |-> a.owner, gen |-> a.gen, status |-> "migrating", pid |-> a.pid,
             last |-> g, exhausted |-> a.exhausted]
    BY <1>5, <1>7 DEF MarkMigrating, IsEntry
  <2> QED BY <1>6, <2>1 DEF IsEntry, Status
<1>12. /\ IsEntry(y) /\ y.gen = g /\ y.owner = m /\ y.status = "stopped"
  <2>1. y = [owner |-> m, gen |-> g, status |-> "stopped", pid |-> NoPid,
             last |-> g, exhausted |-> b.exhausted]
    BY <1>5, <1>8 DEF ClaimLocal, IsEntry
  <2> QED BY <1>6, <2>1 DEF IsEntry, Status
<1>13. x # Unwritten /\ y # Unwritten BY <1>11, <1>12, WrittenEntry
<1>14. /\ entry'[n][r] = x /\ entry'[m][r] = y
       /\ \A k \in Nodes : \A i \in Runs :
            i # r \/ (k # n /\ k # m) => entry'[k][i] = entry[k][i]
       /\ entry' = [k \in Nodes |-> [i \in Runs |-> entry'[k][i]]]
  <2>1. entry' = [entry EXCEPT ![n][r] = MarkMigrating(@, g), ![m][r] = ClaimLocal(m, @, g, g)]
    BY <1>2, <1>4 DEF HandOver
  <2>2. entry = [k \in Nodes |-> [i \in Runs |-> entry[k][i]]] BY <1>0 DEF EntryShape
  <2>3. PICK E : E = [entry EXCEPT ![n][r] = x] OBVIOUS
  <2>4. /\ E[m][r] = b /\ E[n][r] = x
        /\ E = [k \in Nodes |-> [i \in Runs |-> E[k][i]]]
        /\ \A k \in Nodes : \A i \in Runs : i # r \/ k # n => E[k][i] = entry[k][i]
    BY <1>1, <1>3, <2>2, <2>3
  <2>5. entry' = [E EXCEPT ![m][r] = y]
    BY <1>1, <1>2, <1>3, <1>7, <1>8, <2>1, <2>2, <2>3
  <2> QED BY <1>1, <2>4, <2>5
<1>15. EntrySays(n, r, a.gen, a.owner) /\ EntrySays(m, r, b.gen, b.owner)
  BY <1>2, <1>3, <1>5 DEF EntrySays
<1>16. Said(r, a.gen, a.owner) /\ Said(r, b.gen, b.owner) BY <1>15 DEF Said
<1>17. a.owner = n /\ \A f, o : Said(r, f, o) => f <= a.gen /\ f \in Nat
  BY <1>0, <1>1, <1>2, SaidIsNat DEF OwnerIsLast
<1>18. MessageShape' BY <1>0, <1>1, <1>6, <1>9, <1>10 DEF MessageShape
<1>19. RoundIsQuiet BY <1>0, <1>1, RoundStays
<1>20. EntryShape'
  <2>1. \A k \in Nodes : \A i \in Runs : entry'[k][i] = Unwritten \/ IsEntry(entry'[k][i])
    BY <1>0, <1>11, <1>12, <1>14 DEF EntryShape
  <2>2. ASSUME NEW k \in Nodes, NEW i \in known'[k]
        PROVE  i \in Runs /\ entry'[k][i] # Unwritten
    <3>1. i \in known[k] BY <1>1
    <3>2. i \in Runs /\ entry[k][i] # Unwritten BY <1>0, <3>1 DEF EntryShape
    <3> QED BY <1>13, <1>14, <3>2
  <2>3. known' = [k \in Nodes |-> known'[k]] BY <1>0, <1>1 DEF EntryShape
  <2> QED BY <1>14, <2>1, <2>2, <2>3 DEF EntryShape, IsEntry
<1>21. RegistryShape' BY <1>18, <1>19, <1>20 DEF RegistryShape, RoundIsQuiet
<1>22. ASSUME NEW i \in Runs, NEW f, NEW o, Said(i, f, o)'
       PROVE  Said(i, f, o) \/ (i = r /\ f = g /\ o = m)
  <2>1. CASE \E k \in Nodes : EntrySays(k, i, f, o)'
    <3>1. PICK k \in Nodes : EntrySays(k, i, f, o)' BY <2>1
    <3>2. entry'[k][i] # Unwritten /\ entry'[k][i].gen = f /\ entry'[k][i].owner = o
      BY <3>1 DEF EntrySays
    <3>3. CASE i = r /\ k = n BY <1>11, <1>14, <1>16, <3>2, <3>3
    <3>4. CASE i = r /\ k = m BY <1>12, <1>14, <3>2, <3>4
    <3>5. CASE i # r \/ (k # n /\ k # m)
      <4>1. EntrySays(k, i, f, o) BY <1>14, <3>2, <3>5 DEF EntrySays
      <4> QED BY <4>1 DEF Said
    <3> QED BY <3>3, <3>4, <3>5
  <2>2. CASE \E p \in posts' : PostSays(p, i, f, o) BY <1>1, <2>2 DEF Said
  <2>3. CASE \E k, l \in Nodes : RoundSays(k, l, i, f, o)' BY <1>19, <2>3 DEF RoundIsQuiet
  <2>4. CASE \E d \in moving' : MoveSays(d, i, f, o)
    <3>1. PICK d \in moving' : MoveSays(d, i, f, o) BY <2>4
    <3>2. CASE d \in moving BY <3>1, <3>2 DEF Said
    <3>3. CASE d = h BY <1>9, <3>1, <3>3 DEF MoveSays
    <3> QED BY <1>10, <3>2, <3>3
  <2> QED BY <1>22, <2>1, <2>2, <2>3, <2>4 DEF Said, PostSays, MoveSays
<1>23. OneSaid'
  <2> SUFFICES ASSUME NEW i \in Runs, NEW f, NEW o, NEW q, Said(i, f, o)', Said(i, f, q)'
               PROVE  o = q
    BY DEF OneSaid
  <2>1. CASE Said(i, f, o) /\ Said(i, f, q) BY <1>0, <2>1 DEF OneSaid
  <2>2. CASE i = r /\ f = g
    <3>1. ~Said(r, g, o) /\ ~Said(r, g, q) BY <1>6, <1>17
    <3> QED BY <1>22, <2>2, <3>1
  <2> QED BY <1>22, <2>1, <2>2
<1>24. OwnerIsLast'
  <2> SUFFICES ASSUME NEW k \in Nodes, NEW i \in Runs, entry'[k][i].status = "stopped"
               PROVE  /\ entry'[k][i].owner = k
                      /\ \A f, o : Said(i, f, o)' => f <= entry'[k][i].gen
    BY DEF OwnerIsLast
  <2>1. CASE i # r
    <3>1. entry'[k][i] = entry[k][i] BY <1>14, <2>1
    <3> QED BY <1>0, <1>22, <2>1, <3>1 DEF OwnerIsLast
  <2>2. CASE i = r /\ k = n BY <1>11, <1>14, <2>2
  <2>3. CASE i = r /\ k = m
    <3>1. entry'[k][i] = y BY <1>14, <2>3
    <3>2. ASSUME NEW f, NEW o, Said(r, f, o)' PROVE f <= g
      <4>1. CASE Said(r, f, o) BY <1>6, <1>17, <4>1
      <4>2. CASE f = g BY <1>6, <4>2
      <4> QED BY <1>22, <3>2, <4>1, <4>2
    <3> QED BY <1>12, <2>3, <3>1, <3>2
  <2>4. CASE i = r /\ k # n /\ k # m
    <3>1. PICK c : c = entry[k][r] OBVIOUS
    <3>2. c.status = "stopped" BY <1>14, <2>4, <3>1
    <3>3. c # Unwritten /\ IsEntry(c) BY <1>0, <3>1, <3>2, UnwrittenEntry DEF EntryShape
    <3>4. c.owner = k /\ a.gen <= c.gen BY <1>0, <1>16, <3>1, <3>2 DEF OwnerIsLast
    <3>5. Said(r, c.gen, c.owner) BY <3>1, <3>3, EntryIsSaid
    <3>6. c.gen = a.gen BY <1>6, <1>17, <3>4, <3>5
    <3> QED BY <1>0, <1>16, <1>17, <2>4, <3>4, <3>5, <3>6 DEF OneSaid
  <2> QED BY <2>1, <2>2, <2>3, <2>4
<1>25. HomeIsFirst'
  <2>0. ASSUME NEW k \in Nodes, NEW i \in Runs, entry'[k][i] = Unwritten
        PROVE  entry[k][i] = Unwritten
    <3>1. i # r \/ (k # n /\ k # m) BY <1>13, <1>14, <2>0
    <3> QED BY <1>14, <2>0, <3>1
  <2> SUFFICES ASSUME NEW i \in Runs, NEW f, NEW o, Said(i, f, o)'
               PROVE  /\ \E k \in Nodes : \E z \in saved'[k].runs :
                           z.run = i /\ (f = 0 => o = z.owner)
                      /\ \A k \in Nodes : \A z \in saved'[k].runs :
                           z.run = i /\ z.owner \in Nodes /\ entry'[z.owner][i] = Unwritten
                             => f = 0
    BY DEF HomeIsFirst
  <2>1. CASE Said(i, f, o) BY <1>0, <1>1, <2>0, <2>1 DEF HomeIsFirst
  <2>2. CASE i = r /\ f = g /\ o = m
    <3>1. PICK k \in Nodes : \E z \in saved[k].runs : z.run = r /\ (a.gen = 0 => n = z.owner)
      BY <1>0, <1>16, <1>17 DEF HomeIsFirst
    <3>2. PICK z \in saved[k].runs : z.run = r /\ (a.gen = 0 => n = z.owner) BY <3>1
    <3>3. ASSUME NEW l \in Nodes, NEW w \in saved[l].runs, w.run = r, w.owner \in Nodes,
                 entry'[w.owner][r] = Unwritten
          PROVE  FALSE
      <4>1. w = z BY <1>0, <3>2, <3>3 DEF HomeInv
      <4>2. entry[w.owner][r] = Unwritten BY <2>0, <3>3
      <4>3. a.gen = 0 BY <1>0, <1>16, <3>3, <4>2 DEF HomeIsFirst
      <4>4. w.owner = n BY <3>2, <4>1, <4>3
      <4> QED BY <1>2, <1>5, <4>2, <4>4
    <3> QED BY <1>1, <1>6, <2>2, <3>2, <3>3
  <2> QED BY <1>22, <2>1, <2>2
<1>26. OwnersInv' BY <1>21, <1>23, <1>24, <1>25 DEF OwnersInv, CatalogsKept
<1>27. ASSUME NEW k \in Nodes, NEW i \in Runs, entry[k][i] # Unwritten
       PROVE  NotForgotten(entry[k][i], entry'[k][i])
  <2>1. CASE i = r /\ k = n
    BY <1>1, <1>2, <1>6, <1>11, <1>14, <2>1 DEF NotForgotten
  <2>2. CASE i = r /\ k = m
    <3>1. b.gen <= a.gen BY <1>16, <1>17
    <3>2. g > b.gen BY <1>6, <3>1
    <3> QED BY <1>3, <1>12, <1>14, <2>2, <3>2 DEF NotForgotten
  <2>3. CASE i # r \/ (k # n /\ k # m)
    <3>1. IsEntry(entry[k][i]) BY <1>0, <1>27 DEF EntryShape
    <3> QED BY <1>14, <2>3, <3>1, SameNotForgotten
  <2> QED BY <2>1, <2>2, <2>3
<1> QED BY <1>26, <1>27 DEF ClaimsGrown

LEMMA OwnersStep == OwnersInv /\ [Next]_vars => OwnersInv' /\ ClaimsGrown
<1> SUFFICES ASSUME OwnersInv, [Next]_vars PROVE OwnersInv' /\ ClaimsGrown OBVIOUS
<1>0. EntryShape /\ MessageShape /\ RoundShape /\ CatalogInv /\ HomeInv
  BY DEF OwnersInv, RegistryShape
<1>1. CatalogsKept BY <1>0, CatalogStep, HomeKept DEF CatalogsKept
<1>2. ASSUME posts' = posts, moving' \subseteq moving, RoundIsQuiet, known' = known,
             entry' = entry
      PROVE  OwnersInv' /\ ClaimsGrown
  BY <1>0, <1>1, <1>2, SamePosts, NothingEntered
<1>3. CASE UNCHANGED vars BY <1>0, <1>2, <1>3, RoundStays DEF vars, claims
<1>4. ASSUME NEW n \in Nodes, Reconcile(n) PROVE OwnersInv' /\ ClaimsGrown
  <2>1. CASE \E m \in Peers(n) : MergeCatalog(n, m) BY <1>1, <2>1, OwnersMerge
  <2>2. CASE NoCatalog(n)
    <3>1. NextCatalog(n) /\ UNCHANGED <<posts, moving, known, entry>>
      BY <2>2 DEF NoCatalog, claims
    <3>2. RoundIsQuiet BY <1>0, <3>1, RoundRestarts
    <3> QED BY <1>2, <3>1, <3>2
  <2>3. CASE \E s \in SUBSET Peers(n) : FetchClaims(n, s)
    <3>1. PICK s \in SUBSET Peers(n) : FetchClaims(n, s) BY <2>3
    <3>2. UNCHANGED <<posts, moving, known, entry>> BY <3>1 DEF FetchClaims, claims
    <3>3. RoundIsQuiet BY <3>1, RoundFetches
    <3> QED BY <1>2, <3>2, <3>3
  <2>4. CASE ApplyClaims(n) BY <1>1, <2>4, OwnersApply
  <2> QED BY <1>4, <2>1, <2>2, <2>3, <2>4 DEF Reconcile
<1>5. ASSUME NEW n \in Nodes, Submit(n) PROVE OwnersInv' /\ ClaimsGrown
  <2>1. CASE \E r \in catalog[n].runs : RegisterRun(n, r) BY <1>1, <2>1, OwnersRegister
  <2>2. CASE \/ \E s \in Submissions[n] : SubmitDefinition(n, s)
             \/ \E q \in Requests[n], r \in Runs : CreateRun(n, q, r)
             \/ \E q \in Requests[n] : CreateRunAgain(n, q)
    <3>1. UNCHANGED <<round, posts, moving, known, entry>>
      BY <2>2 DEF SubmitDefinition, CreateRun, CreateRunAgain, claims
    <3>2. RoundIsQuiet BY <1>0, <3>1, RoundStays
    <3> QED BY <1>2, <3>1, <3>2
  <2> QED BY <1>5, <2>1, <2>2 DEF Submit
<1>6. ASSUME NEW n \in Nodes, Own(n) PROVE OwnersInv' /\ ClaimsGrown
  <2>1. PICK r \in Busy : \/ Decide(n, r) \/ Complete(n, r) \/ BroadcastCompleted(n, r)
                          \/ \E m \in Nodes : HandOver(n, m, r)
    BY <1>6 DEF Own
  <2>2. r \in Runs BY ReplicationAssumption
  <2>3. CASE Decide(n, r)
    <3>1. UNCHANGED <<round, posts, moving, known, entry>> BY <2>3 DEF Decide
    <3>2. RoundIsQuiet BY <1>0, <3>1, RoundStays
    <3> QED BY <1>2, <3>1, <3>2
  <2>4. CASE Complete(n, r) BY <1>1, <2>2, <2>4, OwnersComplete
  <2>5. CASE BroadcastCompleted(n, r)
    <3>1. /\ r \in known[n] /\ UNCHANGED <<round, moving, known, entry>>
          /\ \E reached \in SUBSET Peers(n) : Post(n, r, entry[n][r], reached)
      BY <2>5 DEF BroadcastCompleted, Untold, claims
    <3>2. PICK reached \in SUBSET Nodes : Post(n, r, entry[n][r], reached)
      BY <3>1 DEF Peers
    <3>3. PICK e : e = entry[n][r] OBVIOUS
    <3>4. e # Unwritten /\ IsEntry(e) BY <1>0, <3>1, <3>3 DEF EntryShape
    <3>5. e.gen \in Nat /\ Said(r, e.gen, e.owner)
      BY <2>2, <3>3, <3>4, WrittenEntry, EntryIsSaid
    <3>6. moving' \subseteq moving BY <3>1
    <3>7. PostsAreSaid BY <1>0, <3>2, <3>3, <3>5, <3>6, PostedClaims
    <3>8. RoundIsQuiet BY <1>0, <3>1, RoundStays
    <3> QED BY <1>1, <3>1, <3>6, <3>7, <3>8, NothingEntered
  <2>6. CASE \E m \in Nodes : HandOver(n, m, r) BY <1>1, <2>2, <2>6, OwnersHandOver
  <2> QED BY <2>1, <2>3, <2>4, <2>5, <2>6
<1>7. ASSUME NEW n \in Nodes, Restart(n) PROVE OwnersInv' /\ ClaimsGrown
  BY <1>1, <1>7, OwnersRestart
<1>8. ASSUME NEW h \in moving, Finalize(h) PROVE OwnersInv' /\ ClaimsGrown
  BY <1>1, <1>8, OwnersFinalize
<1>9. ASSUME NEW h \in moving, Close(h) PROVE OwnersInv' /\ ClaimsGrown
  <2>1. UNCHANGED <<round, posts, known, entry>> /\ moving' \subseteq moving
    BY <1>9 DEF Close, claims
  <2>2. RoundIsQuiet BY <1>0, <2>1, RoundStays
  <2> QED BY <1>2, <2>1, <2>2
<1>10. ASSUME NEW p \in posts, Deliver(p) PROVE OwnersInv' /\ ClaimsGrown
  BY <1>1, <1>10, OwnersDeliver
<1> QED BY <1>3, <1>4, <1>5, <1>6, <1>7, <1>8, <1>9, <1>10 DEF Next

(* Two nodes that know a task at the same generation know the same owner,
   through lost, late and repeated broadcasts, snapshots that were fetched
   before the node moved on, restarts, and handovers that end long after the
   task was handed on: only an owner that has heard of every generation opens
   the next one, and whatever is said of a generation repeats its claim
   (state/persistent_registry.py: apply_ownership, claim_local). *)
THEOREM OneOwnerEverywhere == Spec => []OneOwner
<1>1. OwnersInv => OneOwner
  <2> SUFFICES ASSUME OwnersInv, NEW i \in Runs, NEW n \in Nodes, NEW m \in Nodes,
                      entry[n][i] # Unwritten, entry[m][i] # Unwritten,
                      entry[n][i].gen = entry[m][i].gen
               PROVE  entry[n][i].owner = entry[m][i].owner
    BY DEF OneOwner
  <2>1. /\ Said(i, entry[n][i].gen, entry[n][i].owner)
        /\ Said(i, entry[m][i].gen, entry[m][i].owner)
    BY EntryIsSaid
  <2>2. Said(i, entry[n][i].gen, entry[m][i].owner) BY <2>1
  <2> QED BY <2>1, <2>2 DEF OwnersInv, OneSaid
<1> QED BY <1>1, OwnersInit, OwnersStep, PTL DEF Spec

(* A node's knowledge of a task never goes back to an earlier generation and
   never loses a completion, whatever it hears and in whatever order; the one
   exception is the end of its own handover, which mark_remote writes without
   a look at the generation (migration/service.py: _finalize_source_success). *)
THEOREM KnowledgeOnlyGrows == Spec => KnowledgeGrows
<1>1. ClaimsGrown => \A n \in Nodes, r \in Runs :
                 LET a == entry[n][r]  b == entry'[n][r]
                 IN  a # Unwritten =>
                       \/ b.gen > a.gen
                       \/ b.gen = a.gen /\ (a.status = "completed" => b.status = "completed")
                       \/ \E h \in moving : h \notin moving' /\ h.from = n /\ h.run = r
  BY DEF ClaimsGrown, NotForgotten, Ended
<1> QED BY <1>1, OwnersInit, OwnersStep, PTL DEF Spec, KnowledgeGrows

(* ------------------ Registries and catalogs: the types ----------------- *)

TypedCatalog(c) ==
    /\ \A d \in c.defs : [id |-> d.id, digest |-> d.digest] \in UNION Range(Submissions) /\ d.rev \in Nat
    /\ \A r \in c.runs : r.run \in Runs /\ r.request \in UNION Range(Requests) /\ r.owner \in Nodes
CatalogsTyped == \A n \in Nodes : TypedCatalog(catalog[n]) /\ TypedCatalog(saved[n])

LEMMA SubmissionIsTyped ==
  ASSUME NEW n \in Nodes, NEW s \in Submissions[n]
  PROVE  s \in UNION Range(Submissions) /\ s.id \in Nat /\ s = [id |-> s.id, digest |-> s.digest]
<1>1. Submissions[n] \in Range(Submissions) BY ReplicationAssumption DEF Range
<1> QED BY <1>1, ReplicationAssumption

LEMMA RequestIsTyped ==
  ASSUME NEW n \in Nodes, NEW q \in Requests[n]
  PROVE  q \in UNION Range(Requests) /\ q.owner \in Nodes \cup {Open}
<1>1. Requests[n] \in Range(Requests) BY ReplicationAssumption DEF Range
<1> QED BY <1>1, ReplicationAssumption

LEMMA RegisterIsTyped ==
  ASSUME NEW c, Sound(c), TypedCatalog(c), NEW n \in Nodes, NEW s \in Submissions[n]
  PROVE  TypedCatalog(RegisterDefinition(c, s.id, s.digest))
<1>1. PICK e : e = RegisterDefinition(c, s.id, s.digest) OBVIOUS
<1>2. CASE e = c BY <1>1, <1>2
<1>3. CASE e # c
  <2>1. PICK v \in Nat : v = LastRevision(c, s.id)
    BY SubmissionIsTyped, LastRevisionIsLast DEF Sound
  <2>2. PICK w \in Nat : w = v + 1 OBVIOUS
  <2>3. PICK new : new = [id |-> s.id, rev |-> w, digest |-> s.digest] OBVIOUS
  <2>4. e = [c EXCEPT !.defs = @ \cup {new}]
    BY <1>1, <1>3, <2>1, <2>2, <2>3 DEF RegisterDefinition
  <2>5. e = [defs |-> c.defs \cup {new}, runs |-> c.runs] BY <2>4, CatalogParts DEF Sound
  <2>6. [id |-> new.id, digest |-> new.digest] = s /\ new.rev \in Nat
    BY <2>3, SubmissionIsTyped
  <2>7. s \in UNION Range(Submissions) BY SubmissionIsTyped
  <2>8. \A d \in e.defs : d = new \/ d \in c.defs BY <2>5
  <2>9. e.runs = c.runs BY <2>5
  <2>10. TypedCatalog(e) BY <2>6, <2>7, <2>8, <2>9 DEF TypedCatalog
  <2> QED BY <1>1, <2>10
<1> QED BY <1>2, <1>3

LEMMA NewRunIsTyped ==
  ASSUME NEW c, Sound(c), TypedCatalog(c), NEW n \in Nodes, NEW q \in Requests[n], NEW r \in Runs
  PROVE  TypedCatalog([c EXCEPT !.runs = @ \cup {NewRun(c, q, r, n)}])
<1>1. PICK x : x = NewRun(c, q, r, n) OBVIOUS
<1>2. PICK e : e = [c EXCEPT !.runs = @ \cup {x}] OBVIOUS
<1>3. x.run = r /\ x.request = q /\ x.owner = IF q.owner = Open THEN n ELSE q.owner
  BY <1>1 DEF NewRun
<1>4. q \in UNION Range(Requests) /\ x.owner \in Nodes BY <1>3, RequestIsTyped
<1>5. e = [defs |-> c.defs, runs |-> c.runs \cup {x}] BY <1>2, CatalogParts DEF Sound
<1>6. e.defs = c.defs /\ \A y \in e.runs : y = x \/ y \in c.runs BY <1>5
<1>7. TypedCatalog(e) BY <1>3, <1>4, <1>6 DEF TypedCatalog
<1> QED BY <1>1, <1>2, <1>7

LEMMA MergedDefinitions ==
  ASSUME NEW c, Sound(c), NEW s
  PROVE  \A d \in MergeSnapshot(c, s).defs : d \in c.defs \/ d \in s.defs
<1>0. CatalogShape(c) BY DEF Sound
<1>1. PICK D : D = {d \in s.defs : \A e \in s.defs : Clashes(c, e) => Before(d, e)} OBVIOUS
<1>2. PICK k : k = MergeDefinitions(c, s) OBVIOUS
<1>3. k = [defs |-> c.defs \cup D, runs |-> c.runs]
  BY <1>0, <1>1, <1>2, CatalogParts DEF MergeDefinitions
<1>4. PICK R : MergeRuns(k, s) = [k EXCEPT !.runs = @ \cup R] BY DEF MergeRuns
<1>5. MergeRuns(k, s).defs = c.defs \cup D BY <1>3, <1>4
<1>6. D \subseteq s.defs BY <1>1
<1>7. MergeSnapshot(c, s) = k \/ MergeSnapshot(c, s) = MergeRuns(k, s)
  BY <1>2 DEF MergeSnapshot
<1> QED BY <1>3, <1>5, <1>6, <1>7

LEMMA CatalogsStayTyped == CatalogInv /\ CatalogsTyped /\ [Next]_vars => CatalogsTyped'
<1> SUFFICES ASSUME CatalogInv, CatalogsTyped, [Next]_vars PROVE CatalogsTyped' OBVIOUS
<1>0. /\ DOMAIN catalog = Nodes /\ DOMAIN saved = Nodes
      /\ \A n \in Nodes : Sound(catalog[n]) /\ Sound(saved[n])
      /\ \A n \in Nodes : TypedCatalog(catalog[n]) /\ TypedCatalog(saved[n])
  BY DEF CatalogInv, CatalogsTyped
<1>1. ASSUME NEW n \in Nodes, NEW c, TypedCatalog(c), catalog' = [catalog EXCEPT ![n] = c],
             saved' = saved \/ saved' = [saved EXCEPT ![n] = c]
      PROVE  CatalogsTyped'
  <2>1. \A i \in Nodes : TypedCatalog(catalog'[i]) /\ TypedCatalog(saved'[i]) BY <1>0, <1>1
  <2> QED BY <2>1 DEF CatalogsTyped, TypedCatalog
<1>2. CASE UNCHANGED <<catalog, saved>> BY <1>2 DEF CatalogsTyped, TypedCatalog
<1>3. ASSUME NEW n \in Nodes, NEW s \in Submissions[n], SubmitDefinition(n, s) PROVE CatalogsTyped'
  <2>1. TypedCatalog(RegisterDefinition(catalog[n], s.id, s.digest)) BY <1>0, RegisterIsTyped
  <2> QED BY <1>1, <1>3, <2>1 DEF SubmitDefinition, Store
<1>4. ASSUME NEW n \in Nodes, NEW q \in Requests[n], NEW r \in Runs, CreateRun(n, q, r)
      PROVE  CatalogsTyped'
  <2>1. TypedCatalog([catalog[n] EXCEPT !.runs = @ \cup {NewRun(catalog[n], q, r, n)}])
    BY <1>0, NewRunIsTyped
  <2> QED BY <1>1, <1>4, <2>1 DEF CreateRun, Store
<1>5. ASSUME NEW n \in Nodes, NEW m \in Peers(n), MergeCatalog(n, m) PROVE CatalogsTyped'
  <2>1. PICK c : c = MergeSnapshot(catalog[n], catalog[m]) OBVIOUS
  <2>2. /\ \A d \in c.defs : d \in catalog[n].defs \/ d \in catalog[m].defs
        /\ \A x \in c.runs : x \in catalog[n].runs \/ x \in catalog[m].runs
    BY <1>0, <2>1, MergedDefinitions, MergedRuns
  <2>3. TypedCatalog(c) BY <1>0, <2>2 DEF TypedCatalog, Peers
  <2>4. saved' = saved \/ saved' = [saved EXCEPT ![n] = c]
    <3>1. saved' = saved \/ saved' = [saved EXCEPT ![n] = IF c = catalog[n] THEN @ ELSE c]
      BY <1>5, <2>1 DEF MergeCatalog
    <3>2. saved = [saved EXCEPT ![n] = saved[n]] BY DEF CatalogInv
    <3>3. CASE c = catalog[n] BY <3>1, <3>2, <3>3
    <3>4. CASE c # catalog[n] BY <3>1, <3>4
    <3> QED BY <3>3, <3>4
  <2>5. catalog' = [catalog EXCEPT ![n] = c] BY <1>5, <2>1 DEF MergeCatalog
  <2> QED BY <1>1, <2>3, <2>4, <2>5
<1>6. ASSUME NEW n \in Nodes, Restart(n) PROVE CatalogsTyped'
  <2>1. catalog' = [catalog EXCEPT ![n] = saved[n]] /\ saved' = saved BY <1>6 DEF Restart
  <2> QED BY <1>0, <1>1, <2>1
<1>7. ASSUME NEW n \in Nodes, Reconcile(n) PROVE CatalogsTyped'
  <2>1. CASE \E m \in Peers(n) : MergeCatalog(n, m) BY <1>5, <2>1
  <2>2. CASE NoCatalog(n) BY <1>2, <2>2 DEF NoCatalog, catalogs
  <2>3. CASE \E s \in SUBSET Peers(n) : FetchClaims(n, s) BY <1>2, <2>3 DEF FetchClaims, catalogs
  <2>4. CASE ApplyClaims(n) BY <1>2, <2>4 DEF ApplyClaims, catalogs
  <2> QED BY <1>7, <2>1, <2>2, <2>3, <2>4 DEF Reconcile
<1>8. ASSUME NEW n \in Nodes, Submit(n) PROVE CatalogsTyped'
  <2>1. CASE \E q \in Requests[n] : CreateRunAgain(n, q) BY <1>2, <2>1 DEF CreateRunAgain
  <2>2. CASE \E r \in catalog[n].runs : RegisterRun(n, r) BY <1>2, <2>2 DEF RegisterRun
  <2> QED BY <1>3, <1>4, <1>8, <2>1, <2>2 DEF Submit
<1>9. ASSUME NEW n \in Nodes, Own(n) PROVE CatalogsTyped'
  <2> SUFFICES ASSUME NEW r \in Busy,
                      \/ Decide(n, r) \/ Complete(n, r) \/ BroadcastCompleted(n, r)
                      \/ \E m \in Nodes : HandOver(n, m, r)
               PROVE  UNCHANGED <<catalog, saved>>
    BY <1>2, <1>9 DEF Own
  <2> QED BY DEF Decide, Complete, BroadcastCompleted, HandOver, catalogs
<1>10. ASSUME NEW h \in moving, Finalize(h) \/ Close(h) PROVE CatalogsTyped'
  BY <1>2, <1>10 DEF Finalize, Close, catalogs
<1>11. ASSUME NEW p \in posts, Deliver(p) PROVE CatalogsTyped'
  BY <1>2, <1>11 DEF Deliver, catalogs
<1>12. CASE UNCHANGED vars BY <1>2, <1>12 DEF vars
<1> QED BY <1>6, <1>7, <1>8, <1>9, <1>10, <1>11, <1>12 DEF Next

(* create_run between the catalog and the registry, for runs of the catalog. *)
AnswersTyped == answering \in [Nodes -> SUBSET Runs]
RestartsTyped == restarts \in 0 .. MaxRestarts

LEMMA AnswersStayTyped ==
  CatalogsTyped /\ AnswersTyped /\ RestartsTyped /\ [Next]_vars => AnswersTyped' /\ RestartsTyped'
<1> SUFFICES ASSUME CatalogsTyped, AnswersTyped, RestartsTyped, [Next]_vars
             PROVE  AnswersTyped' /\ RestartsTyped'
  OBVIOUS
<1>1. ASSUME UNCHANGED <<answering, restarts>> PROVE AnswersTyped' /\ RestartsTyped'
  BY <1>1 DEF AnswersTyped, RestartsTyped
<1>2. ASSUME NEW n \in Nodes, NEW A \in SUBSET Runs, answering' = [answering EXCEPT ![n] = A],
             restarts' \in 0 .. MaxRestarts
      PROVE  AnswersTyped' /\ RestartsTyped'
  BY <1>2 DEF AnswersTyped, RestartsTyped
<1>3. \A n \in Nodes : answering[n] \subseteq Runs BY DEF AnswersTyped
<1>4. restarts \in 0 .. MaxRestarts BY DEF RestartsTyped
<1>5. ASSUME NEW n \in Nodes, Submit(n) PROVE AnswersTyped' /\ RestartsTyped'
  <2>1. ASSUME NEW s \in Submissions[n], SubmitDefinition(n, s)
        PROVE  AnswersTyped' /\ RestartsTyped'
    BY <1>1, <2>1 DEF SubmitDefinition
  <2>2. ASSUME NEW q \in Requests[n], NEW r \in Runs, CreateRun(n, q, r)
        PROVE  AnswersTyped' /\ RestartsTyped'
    <3>1. answering' = [answering EXCEPT ![n] = answering[n] \cup {r}] /\ restarts' = restarts
      BY <2>2 DEF CreateRun
    <3>2. PICK A : A = answering[n] \cup {r} OBVIOUS
    <3>3. A \in SUBSET Runs BY <1>3, <3>2
    <3> QED BY <1>2, <1>4, <3>1, <3>2, <3>3
  <2>3. ASSUME NEW q \in Requests[n], CreateRunAgain(n, q)
        PROVE  AnswersTyped' /\ RestartsTyped'
    <3>1. PICK r \in catalog[n].runs :
            answering' = [answering EXCEPT ![n] = answering[n] \cup {r.run}]
      BY <2>3 DEF CreateRunAgain, RunsWithKey
    <3>2. r.run \in Runs BY DEF CatalogsTyped, TypedCatalog
    <3>3. restarts' = restarts BY <2>3 DEF CreateRunAgain
    <3>4. PICK A : A = answering[n] \cup {r.run} OBVIOUS
    <3>5. A \in SUBSET Runs BY <1>3, <3>2, <3>4
    <3> QED BY <1>2, <1>4, <3>1, <3>3, <3>4, <3>5
  <2>4. ASSUME NEW r \in catalog[n].runs, RegisterRun(n, r)
        PROVE  AnswersTyped' /\ RestartsTyped'
    <3>1. answering' = [answering EXCEPT ![n] = answering[n] \ {r.run}] /\ restarts' = restarts
      BY <2>4 DEF RegisterRun
    <3>2. PICK A : A = answering[n] \ {r.run} OBVIOUS
    <3>3. A \in SUBSET Runs BY <1>3, <3>2
    <3> QED BY <1>2, <1>4, <3>1, <3>2, <3>3
  <2> QED BY <1>5, <2>1, <2>2, <2>3, <2>4 DEF Submit
<1>6. ASSUME NEW n \in Nodes, Restart(n) PROVE AnswersTyped' /\ RestartsTyped'
  <2>1. restarts' \in 0 .. MaxRestarts BY <1>4, <1>6, ReplicationAssumption DEF Restart
  <2>2. answering' = [answering EXCEPT ![n] = {}] BY <1>6 DEF Restart
  <2>3. {} \in SUBSET Runs OBVIOUS
  <2> QED BY <1>2, <2>1, <2>2, <2>3
<1>7. ASSUME NEW n \in Nodes, Reconcile(n) PROVE AnswersTyped' /\ RestartsTyped'
  <2>1. UNCHANGED <<answering, restarts>>
    BY <1>7 DEF Reconcile, MergeCatalog, NoCatalog, FetchClaims, ApplyClaims, catalogs
  <2> QED BY <1>1, <2>1
<1>8. ASSUME NEW n \in Nodes, Own(n) PROVE AnswersTyped' /\ RestartsTyped'
  <2> SUFFICES ASSUME NEW r \in Busy,
                      \/ Decide(n, r) \/ Complete(n, r) \/ BroadcastCompleted(n, r)
                      \/ \E m \in Nodes : HandOver(n, m, r)
               PROVE  UNCHANGED <<answering, restarts>>
    BY <1>1, <1>8 DEF Own
  <2> QED BY DEF Decide, Complete, BroadcastCompleted, HandOver, catalogs
<1>9. ASSUME NEW h \in moving, Finalize(h) \/ Close(h) PROVE AnswersTyped' /\ RestartsTyped'
  BY <1>1, <1>9 DEF Finalize, Close, catalogs
<1>10. ASSUME NEW p \in posts, Deliver(p) PROVE AnswersTyped' /\ RestartsTyped'
  BY <1>1, <1>10 DEF Deliver, catalogs
<1>11. CASE UNCHANGED vars BY <1>1, <1>11 DEF vars
<1> QED BY <1>5, <1>6, <1>7, <1>8, <1>9, <1>10, <1>11 DEF Next

(* Entries, what is said of them, and the decisions that are counted. *)
Counted == 0 .. MaxDecisions
TypedEntry(e) ==
    /\ IsEntry(e) /\ e.owner \in Nodes /\ e.gen \in 0 .. MaxGeneration
    /\ e.pid \in Pids \cup {NoPid} /\ e.last \in Migrations \cup {NoMigration}
    /\ e.exhausted \in BOOLEAN
TypedClaim(u) ==
    /\ u.owner \in Nodes /\ u.gen \in 0 .. MaxGeneration
    /\ u.last \in Migrations \cup {NoMigration}
TypedUpdate(u) == TypedClaim(u.claim) /\ u.count \in Counted

EntriesTyped == \A n \in Nodes, i \in Runs : entry[n][i] = Unwritten \/ TypedEntry(entry[n][i])
CountsTyped == count \in [Nodes -> [Runs -> Counted]]
MessagesTyped ==
    /\ \A p \in posts : TypedUpdate(p)
    /\ \A h \in moving : h.to \in Nodes /\ h.gen \in 1 .. MaxGeneration
RoundsTyped ==
    \A n \in Nodes :
      /\ round[n].at \in {"catalogs", "ask", "claims"} /\ round[n].todo # {}
      /\ \A m \in Nodes : Fetched(n, m) =>
           \A i \in DOMAIN round[n].got[m] : TypedUpdate(round[n].got[m][i])

LEMMA EntryFromParts ==
  ASSUME NEW o \in Nodes, NEW g \in 0 .. MaxGeneration, NEW s \in Status,
         NEW p \in Pids \cup {NoPid}, NEW l \in Migrations \cup {NoMigration}, NEW x \in BOOLEAN,
         NEW e, e = [owner |-> o, gen |-> g, status |-> s, pid |-> p, last |-> l, exhausted |-> x]
  PROVE  TypedEntry(e)
<1>1. g \in Nat BY ReplicationAssumption
<1> QED BY <1>1 DEF TypedEntry, IsEntry

LEMMA TypedIsEntry == ASSUME NEW e, TypedEntry(e) PROVE e \in Entry /\ e.gen <= MaxGeneration
BY ReplicationAssumption DEF TypedEntry, IsEntry, Entry

LEMMA ClaimIsTyped == ASSUME NEW e, TypedEntry(e) PROVE TypedClaim(Claim(e))
<1>1. PICK u : u = Claim(e) OBVIOUS
<1>2. u.owner = e.owner /\ u.gen = e.gen /\ u.last = e.last BY <1>1 DEF Claim
<1> QED BY <1>1, <1>2 DEF TypedClaim, TypedEntry, IsEntry

LEMMA InitialIsTyped == ASSUME NEW n, NEW o \in Nodes PROVE TypedEntry(InitialEntry(n, o))
<1>1. PICK s \in Status : s = IF n = o THEN "stopped" ELSE "remote" BY DEF Status
<1>2. PICK e : e = InitialEntry(n, o) OBVIOUS
<1>3. e = [owner |-> o, gen |-> 0, status |-> s, pid |-> NoPid, last |-> NoMigration,
           exhausted |-> FALSE]
  BY <1>1, <1>2 DEF InitialEntry
<1>4. 0 \in 0 .. MaxGeneration BY ReplicationAssumption
<1> QED BY <1>2, <1>3, <1>4, EntryFromParts

LEMMA CompletedIsTyped == ASSUME NEW e, TypedEntry(e) PROVE TypedEntry(MarkCompleted(e))
<1>1. PICK f : f = MarkCompleted(e) OBVIOUS
<1>2. f = [owner |-> e.owner, gen |-> e.gen, status |-> "completed", pid |-> NoPid,
           last |-> e.last, exhausted |-> FALSE]
  BY <1>1 DEF MarkCompleted, TypedEntry, IsEntry
<1>3. "completed" \in Status BY DEF Status
<1> QED BY <1>1, <1>2, <1>3, EntryFromParts DEF TypedEntry, IsEntry

LEMMA HandedOverIsTyped ==
  ASSUME NEW e, TypedEntry(e), NEW o \in Nodes, NEW g \in 1 .. MaxGeneration
  PROVE  /\ TypedEntry(MarkMigrating(e, g)) /\ TypedEntry(ClaimLocal(o, e, g, g))
         /\ TypedEntry(MarkRemote(e, o, g, g))
         /\ TypedEntry([MarkRemote(e, o, g, g) EXCEPT !.owner = o, !.gen = g, !.status = "remote"])
<1>1. g \in Migrations \cup {NoMigration} /\ g \in 0 .. MaxGeneration BY ReplicationAssumption
<1>2. "migrating" \in Status /\ "stopped" \in Status /\ "remote" \in Status BY DEF Status
<1>3. TypedEntry(MarkMigrating(e, g))
  <2>1. PICK f : f = MarkMigrating(e, g) OBVIOUS
  <2>2. f = [owner |-> e.owner, gen |-> e.gen, status |-> "migrating", pid |-> e.pid,
             last |-> g, exhausted |-> e.exhausted]
    BY <2>1 DEF MarkMigrating, TypedEntry, IsEntry
  <2> QED BY <1>1, <1>2, <2>1, <2>2, EntryFromParts DEF TypedEntry, IsEntry
<1>4. TypedEntry(ClaimLocal(o, e, g, g))
  <2>1. PICK f : f = ClaimLocal(o, e, g, g) OBVIOUS
  <2>2. f = [owner |-> o, gen |-> g, status |-> "stopped", pid |-> NoPid,
             last |-> g, exhausted |-> e.exhausted]
    BY <2>1 DEF ClaimLocal, TypedEntry, IsEntry
  <2> QED BY <1>1, <1>2, <2>1, <2>2, EntryFromParts DEF TypedEntry, IsEntry
<1>5. PICK f : f = MarkRemote(e, o, g, g) OBVIOUS
<1>6. TypedEntry(f)
  <2>1. CASE f = e BY <2>1
  <2>2. CASE f # e
    <3>1. f = [owner |-> o, gen |-> g, status |-> "remote", pid |-> NoPid,
               last |-> g, exhausted |-> e.exhausted]
      BY <1>5, <2>2 DEF MarkRemote, TypedEntry, IsEntry
    <3> QED BY <1>1, <1>2, <3>1, EntryFromParts DEF TypedEntry, IsEntry
  <2> QED BY <2>1, <2>2
<1>7. TypedEntry([f EXCEPT !.owner = o, !.gen = g, !.status = "remote"])
  <2>1. PICK x : x = [f EXCEPT !.owner = o, !.gen = g, !.status = "remote"] OBVIOUS
  <2>2. x = [owner |-> o, gen |-> g, status |-> "remote", pid |-> f.pid,
             last |-> f.last, exhausted |-> f.exhausted]
    BY <1>6, <2>1 DEF TypedEntry, IsEntry
  <2>3. /\ f.pid \in Pids \cup {NoPid} /\ f.last \in Migrations \cup {NoMigration}
        /\ f.exhausted \in BOOLEAN
    BY <1>6 DEF TypedEntry
  <2>4. PICK q, l, v : q = f.pid /\ l = f.last /\ v = f.exhausted OBVIOUS
  <2>5. TypedEntry(x) BY <1>1, <1>2, <2>2, <2>3, <2>4, EntryFromParts
  <2> QED BY <2>1, <2>5
<1> QED BY <1>3, <1>4, <1>5, <1>6, <1>7, Zenon

LEMMA HeardClaimIsTyped ==
  ASSUME NEW n, NEW e, TypedEntry(e), NEW u, TypedClaim(u), NEW f, f = ApplyOwnership(n, e, u)
  PROVE  TypedEntry(f)
<1>1. PICK l \in Migrations \cup {NoMigration} : l = IF u.last = NoMigration THEN e.last ELSE u.last
  BY DEF TypedClaim, TypedEntry, IsEntry
<1>2. PICK k : k = [e EXCEPT !.owner = u.owner, !.gen = u.gen, !.last = l] OBVIOUS
<1>3. k = [owner |-> u.owner, gen |-> u.gen, status |-> e.status, pid |-> e.pid,
           last |-> l, exhausted |-> e.exhausted]
  BY <1>2 DEF TypedEntry, IsEntry
<1>4. /\ u.completed => f = [k EXCEPT !.status = "completed", !.pid = NoPid]
      /\ ~u.completed /\ u.owner # n => f = [k EXCEPT !.status = "remote", !.pid = NoPid]
      /\ ~u.completed /\ u.owner = n => f = k
  BY <1>1, <1>2 DEF ApplyOwnership
<1>5. PICK s, p : /\ f = [owner |-> u.owner, gen |-> u.gen, status |-> s, pid |-> p,
                          last |-> l, exhausted |-> e.exhausted]
                  /\ s \in {e.status, "completed", "remote"} /\ p \in {e.pid, NoPid}
  BY <1>3, <1>4
<1>6. s \in Status /\ p \in Pids \cup {NoPid} BY <1>5 DEF Status, TypedEntry, IsEntry
<1> QED BY <1>1, <1>5, <1>6, EntryFromParts DEF TypedClaim, TypedEntry, IsEntry

LEMMA HeardIsTyped ==
  ASSUME NEW n, NEW e, TypedEntry(e), NEW c \in Counted, NEW u, TypedUpdate(u),
         NEW y, y = Heard(n, [e |-> e, c |-> c], u)
  PROVE  TypedEntry(y.e) /\ y.c \in Counted
<1>1. PICK x : x = [e |-> e, c |-> c] OBVIOUS
<1>2. x.e = e /\ x.c = c BY <1>1
<1>3. CASE Accepts(e, u.claim)
  <2>1. y = [e |-> ApplyOwnership(n, e, u.claim), c |-> Newer(c, u.count)]
    BY <1>1, <1>2, <1>3 DEF Heard
  <2>2. TypedEntry(ApplyOwnership(n, e, u.claim)) BY HeardClaimIsTyped DEF TypedUpdate
  <2>3. Newer(c, u.count) \in Counted BY DEF Newer, TypedUpdate
  <2>4. y.e = ApplyOwnership(n, e, u.claim) /\ y.c = Newer(c, u.count) BY <2>1
  <2> QED BY <2>2, <2>3, <2>4
<1>4. CASE ~Accepts(e, u.claim)
  <2>1. y = x BY <1>1, <1>2, <1>4 DEF Heard
  <2> QED BY <1>2, <2>1
<1> QED BY <1>3, <1>4

LEMMA TypedNext ==
  ASSUME \A k \in Nodes, i \in Runs : entry'[k][i] = Unwritten \/ TypedEntry(entry'[k][i])
  PROVE  EntriesTyped'
BY DEF EntriesTyped, TypedEntry, IsEntry

LEMMA SameEntriesTyped == ASSUME EntriesTyped, entry' = entry PROVE EntriesTyped'
<1>1. \A k \in Nodes, i \in Runs : entry'[k][i] = Unwritten \/ TypedEntry(entry'[k][i])
  BY DEF EntriesTyped
<1> QED BY <1>1, TypedNext

LEMMA KnownIsTyped ==
  ASSUME EntryShape, EntriesTyped, NEW n \in Nodes, NEW i \in known[n]
  PROVE  i \in Runs /\ TypedEntry(entry[n][i])
BY DEF EntryShape, EntriesTyped

LEMMA OneTypedEntry ==
  ASSUME EntryShape, EntriesTyped, NEW k \in Nodes, NEW r \in Runs, NEW e, SetEntry(k, r, e),
         TypedEntry(e)
  PROVE  EntriesTyped'
<1>1. \A n \in Nodes, i \in Runs : entry'[n][i] = e \/ entry'[n][i] = entry[n][i]
  BY OneEntry
<1>2. \A n \in Nodes, i \in Runs : entry'[n][i] = Unwritten \/ TypedEntry(entry'[n][i])
  BY <1>1 DEF EntriesTyped
<1> QED BY <1>2, TypedNext

LEMMA EnteredAreTyped ==
  ASSUME EntryShape, EntriesTyped, NEW n \in Nodes, NEW rs, \A x \in rs : x.owner \in Nodes,
         EntersRuns(n, rs)
  PROVE  EntriesTyped'
<1> SUFFICES ASSUME NEW k \in Nodes, NEW i \in Runs
             PROVE  entry'[k][i] = Unwritten \/ TypedEntry(entry'[k][i])
  BY TypedNext
<1>1. entry[k][i] = Unwritten \/ TypedEntry(entry[k][i]) BY DEF EntriesTyped
<1>2. entry'[k][i] = entry[k][i] \/ \E r \in rs : entry'[k][i] = Entered(n, r, entry[k][i])
  <2>1. CASE k # n BY <2>1 DEF EntersRuns, EntryShape
  <2>2. CASE k = n
    <3>1. entry'[n] = [j \in Runs |-> IF \E r \in rs : r.run = j
                                      THEN Entered(n, CHOOSE r \in rs : r.run = j, entry[n][j])
                                      ELSE entry[n][j]]
      BY DEF EntersRuns, EntryShape
    <3>2. CASE \E r \in rs : r.run = i
      <4>1. PICK r \in rs : r = CHOOSE x \in rs : x.run = i BY <3>2
      <4> QED BY <2>2, <3>1, <3>2, <4>1
    <3>3. CASE ~\E r \in rs : r.run = i BY <2>2, <3>1, <3>3
    <3> QED BY <3>2, <3>3
  <2> QED BY <2>1, <2>2
<1>3. ASSUME NEW r \in rs, entry'[k][i] = Entered(n, r, entry[k][i])
      PROVE  entry'[k][i] = Unwritten \/ TypedEntry(entry'[k][i])
  <2>1. entry'[k][i] = entry[k][i] \/ entry'[k][i] = InitialEntry(n, r.owner)
    BY <1>3 DEF Entered
  <2>2. TypedEntry(InitialEntry(n, r.owner)) BY InitialIsTyped
  <2> QED BY <1>1, <2>1, <2>2
<1> QED BY <1>1, <1>2, <1>3

LEMMA OneCount ==
  ASSUME CountsTyped, NEW n \in Nodes, NEW r \in Runs, NEW c \in Counted,
         count' = [count EXCEPT ![n][r] = c]
  PROVE  CountsTyped'
BY DEF CountsTyped, Counted

LEMMA CountIsTyped ==
  ASSUME CountsTyped, NEW n \in Nodes, NEW r \in Runs PROVE count[n][r] \in Counted
BY DEF CountsTyped

LEMMA FewerMessages ==
  ASSUME MessagesTyped, posts' \subseteq posts, moving' \subseteq moving PROVE MessagesTyped'
BY DEF MessagesTyped, TypedUpdate, TypedClaim, Counted

LEMMA PostsAreTyped ==
  ASSUME MessagesTyped, CountsTyped, NEW n \in Nodes, NEW r \in Runs, NEW e, TypedEntry(e),
         NEW reached, Post(n, r, e, reached), moving' \subseteq moving
  PROVE  MessagesTyped'
<1>1. PICK u, c : u = Claim(e) /\ c = count[n][r] OBVIOUS
<1>2. TypedClaim(u) /\ c \in Counted BY <1>1, ClaimIsTyped, CountIsTyped
<1>3. \A p \in posts' : p \in posts \/ (p.claim = u /\ p.count = c) BY <1>1 DEF Post
<1>4. \A p \in posts' : TypedUpdate(p) BY <1>2, <1>3 DEF MessagesTyped, TypedUpdate
<1>5. \A h \in moving' : h.to \in Nodes /\ h.gen \in 1 .. MaxGeneration BY DEF MessagesTyped
<1> QED BY <1>4, <1>5 DEF MessagesTyped, TypedUpdate, TypedClaim, Counted

(* Rounds. *)
RoundTyped(x) ==
    /\ x.at \in {"catalogs", "ask", "claims"} /\ x.todo # {}
    /\ x.at = "claims" => \A m \in x.todo : m \in Nodes =>
         \A i \in DOMAIN x.got[m] : TypedUpdate(x.got[m][i])

LEMMA RoundTypedNext ==
  ASSUME RoundShape, RoundsTyped,
         round' = round \/ \E k \in Nodes : \E x : round' = [round EXCEPT ![k] = x] /\ RoundTyped(x)
  PROVE  RoundsTyped'
<1>1. \A n \in Nodes : RoundTyped(round[n]) BY DEF RoundsTyped, RoundTyped, Fetched
<1>2. \A n \in Nodes : RoundTyped(round'[n]) BY <1>1 DEF RoundShape
<1>3. \A n \in Nodes : /\ round'[n].at \in {"catalogs", "ask", "claims"} /\ round'[n].todo # {}
                       /\ \A m \in Nodes : round'[n].at = "claims" /\ m \in round'[n].todo =>
                            \A i \in DOMAIN round'[n].got[m] : TypedUpdate(round'[n].got[m][i])
  BY <1>2 DEF RoundTyped
<1> QED BY <1>3 DEF RoundsTyped, Fetched, TypedUpdate, TypedClaim, Counted

LEMMA PeersExist == ASSUME NEW n \in Nodes PROVE Peers(n) # {}
BY ReplicationAssumption DEF Peers

LEMMA RestartedIsTyped ==
  ASSUME RoundShape, RoundsTyped, NEW k \in Nodes,
         \/ round' = [round EXCEPT ![k] = NewRound(k)]
         \/ NextCatalog(k) /\ round[k].at = "catalogs"
  PROVE  RoundsTyped'
<1>1. ASSUME NEW at \in {"catalogs", "ask"}, NEW peers, peers # {},
             round' = [round EXCEPT ![k] = [at |-> at, todo |-> peers, got |-> <<>>]]
      PROVE  RoundsTyped'
  <2>1. PICK x : x = [at |-> at, todo |-> peers, got |-> <<>>] OBVIOUS
  <2>2. x.at = at /\ x.todo = peers BY <2>1
  <2>3. RoundTyped(x) BY <1>1, <2>2 DEF RoundTyped
  <2> QED BY <1>1, <2>1, <2>3, RoundTypedNext
<1>2. CASE round' = [round EXCEPT ![k] = NewRound(k)] BY <1>1, <1>2, PeersExist DEF NewRound
<1>3. CASE NextCatalog(k) /\ round[k].at = "catalogs"
  <2>1. CASE round[k].todo = {NextPeer(k)}
    BY <1>1, <1>3, <2>1, PeersExist DEF NextCatalog, Go
  <2>2. CASE round[k].todo # {NextPeer(k)}
    <3>1. round[k].todo \ {NextPeer(k)} # {} BY <2>2 DEF RoundsTyped
    <3> QED BY <1>1, <1>3, <2>2, <3>1 DEF NextCatalog, Go
  <2> QED BY <2>1, <2>2
<1> QED BY <1>2, <1>3

LEMMA GoingOnIsTyped ==
  ASSUME RoundShape, RoundsTyped, NEW k \in Nodes, NEW peer, round[k].at = "claims",
         IF round[k].todo = {peer}
         THEN round' = [round EXCEPT ![k] = NewRound(k)]
         ELSE Go(k, "claims", round[k].todo \ {peer},
                 [o \in round[k].todo \ {peer} |-> round[k].got[o]])
  PROVE  RoundsTyped'
<1>1. CASE round' = [round EXCEPT ![k] = NewRound(k)] BY <1>1, RestartedIsTyped
<1>2. CASE round[k].todo # {peer}
  <2>1. PICK D : D = round[k].todo \ {peer} OBVIOUS
  <2>2. PICK got : got = [o \in D |-> round[k].got[o]] OBVIOUS
  <2>3. PICK x : x = [at |-> "claims", todo |-> D, got |-> got] OBVIOUS
  <2>4. round' = [round EXCEPT ![k] = x] BY <1>2, <2>1, <2>2, <2>3 DEF Go
  <2>5. D # {} /\ D \subseteq round[k].todo BY <1>2, <2>1 DEF RoundsTyped
  <2>6. x.at = "claims" /\ x.todo = D /\ \A m \in D : x.got[m] = round[k].got[m]
    BY <2>2, <2>3
  <2>7. ASSUME NEW m \in D, m \in Nodes
        PROVE  \A i \in DOMAIN x.got[m] : TypedUpdate(x.got[m][i])
    <3>1. Fetched(k, m) BY <2>5 DEF Fetched
    <3> QED BY <2>6, <2>7, <3>1 DEF RoundsTyped
  <2>8. RoundTyped(x) BY <2>5, <2>6, <2>7 DEF RoundTyped
  <2> QED BY <2>4, <2>8, RoundTypedNext
<1> QED BY <1>1, <1>2

LEMMA FetchingIsTyped ==
  ASSUME EntryShape, RoundShape, EntriesTyped, CountsTyped, RoundsTyped, NEW k \in Nodes,
         NEW answered \in SUBSET Peers(k), FetchClaims(k, answered)
  PROVE  RoundsTyped'
<1>1. CASE answered = {} BY <1>1, RestartedIsTyped DEF FetchClaims
<1>2. CASE answered # {}
  <2>1. PICK got : got = [m \in answered |-> Updates(m)] OBVIOUS
  <2>2. PICK x : x = [at |-> "claims", todo |-> answered, got |-> got] OBVIOUS
  <2>3. round' = [round EXCEPT ![k] = x] BY <1>2, <2>1, <2>2 DEF FetchClaims, Go
  <2>4. x.at = "claims" /\ x.todo = answered /\ x.got = got BY <2>2
  <2>5. ASSUME NEW m \in answered, m \in Nodes
        PROVE  \A i \in DOMAIN x.got[m] : TypedUpdate(x.got[m][i])
    <3>1. x.got[m] = [r \in known[m] |-> [claim |-> Claim(entry[m][r]), count |-> count[m][r]]]
      BY <2>1, <2>4 DEF Updates
    <3> SUFFICES ASSUME NEW i \in known[m] PROVE TypedUpdate(x.got[m][i]) BY <3>1
    <3>2. i \in Runs /\ TypedEntry(entry[m][i]) BY <2>5, KnownIsTyped
    <3>3. TypedClaim(Claim(entry[m][i])) BY <3>2, ClaimIsTyped
    <3>4. count[m][i] \in Counted BY <2>5, <3>2, CountIsTyped
    <3>5. x.got[m][i].claim = Claim(entry[m][i]) /\ x.got[m][i].count = count[m][i] BY <3>1
    <3> QED BY <3>3, <3>4, <3>5 DEF TypedUpdate
  <2>6. RoundTyped(x) BY <1>2, <2>4, <2>5 DEF RoundTyped
  <2> QED BY <2>3, <2>6, RoundTypedNext
<1> QED BY <1>1, <1>2

RegistryTyped == EntriesTyped /\ CountsTyped /\ MessagesTyped /\ RoundsTyped
TypesInv == OwnersInv /\ CatalogsTyped /\ AnswersTyped /\ RestartsTyped /\ RegistryTyped

LEMMA SameCounts == ASSUME CountsTyped, count' = count PROVE CountsTyped'
BY DEF CountsTyped, Counted

LEMMA SameRounds == ASSUME RoundShape, RoundsTyped, round' = round PROVE RoundsTyped'
BY RoundTypedNext

LEMMA TypesInit == Init => TypesInv
<1> SUFFICES ASSUME Init PROVE TypesInv OBVIOUS
<1>1. OwnersInv BY OwnersInit
<1>2. CatalogsTyped BY DEF Init, CatalogsTyped, TypedCatalog, Empty
<1>3. AnswersTyped BY DEF Init, AnswersTyped
<1>4. RestartsTyped BY ReplicationAssumption DEF Init, RestartsTyped
<1>5. EntriesTyped BY DEF Init, EntriesTyped
<1>6. CountsTyped
  <2>1. 0 \in Counted BY ReplicationAssumption DEF Counted
  <2> QED BY <2>1 DEF Init, CountsTyped
<1>7. MessagesTyped BY DEF Init, MessagesTyped
<1>8. RoundsTyped
  <2> SUFFICES ASSUME NEW n \in Nodes
               PROVE  round[n].at = "catalogs" /\ round[n].todo # {}
    BY DEF RoundsTyped, Fetched
  <2>1. round[n] = [at |-> "catalogs", todo |-> Peers(n), got |-> <<>>] BY DEF Init, NewRound
  <2> QED BY <2>1, PeersExist
<1> QED BY <1>1, <1>2, <1>3, <1>4, <1>5, <1>6, <1>7, <1>8 DEF TypesInv, RegistryTyped

LEMMA MergedAreTyped ==
  ASSUME OwnersInv, CatalogsTyped, RegistryTyped, NEW n \in Nodes, NEW m \in Peers(n),
         MergeCatalog(n, m)
  PROVE  RegistryTyped'
<1>1. EntryShape /\ RoundShape /\ CatalogInv BY DEF OwnersInv, RegistryShape
<1>2. EntriesTyped /\ CountsTyped /\ MessagesTyped /\ RoundsTyped BY DEF RegistryTyped
<1>3. UNCHANGED <<count, posts, moving>> BY DEF MergeCatalog
<1>4. CountsTyped' /\ MessagesTyped' BY <1>2, <1>3, SameCounts, FewerMessages
<1>5. CASE Conflict(catalog[n], catalog[m])
  <2>1. entry' = entry /\ round' = [round EXCEPT ![n] = NewRound(n)] BY <1>5 DEF MergeCatalog
  <2>2. EntriesTyped' BY <1>2, <2>1, SameEntriesTyped
  <2>3. RoundsTyped' BY <1>1, <1>2, <2>1, RestartedIsTyped
  <2> QED BY <1>4, <2>2, <2>3 DEF RegistryTyped
<1>6. CASE ~Conflict(catalog[n], catalog[m])
  <2>1. PICK rs : rs = Added(n, MergeSnapshot(catalog[n], catalog[m])) OBVIOUS
  <2>2. Register(n, rs) /\ NextCatalog(n) /\ round[n].at = "catalogs"
    BY <1>6, <2>1 DEF MergeCatalog
  <2>3. EntersRuns(n, rs) BY <2>2 DEF EntersRuns, Register
  <2>4. \A x \in rs : x \in catalog[m].runs BY <1>1, <2>1, MergedRuns DEF Added, CatalogInv
  <2>5. \A x \in rs : x.owner \in Nodes BY <2>4 DEF CatalogsTyped, TypedCatalog, Peers
  <2>6. EntriesTyped' BY <1>1, <1>2, <2>3, <2>5, EnteredAreTyped
  <2>7. RoundsTyped' BY <1>1, <1>2, <2>2, RestartedIsTyped
  <2> QED BY <1>4, <2>6, <2>7 DEF RegistryTyped
<1> QED BY <1>5, <1>6

LEMMA RegisteredAreTyped ==
  ASSUME OwnersInv, CatalogsTyped, RegistryTyped, NEW n \in Nodes, NEW r \in catalog[n].runs,
         RegisterRun(n, r)
  PROVE  RegistryTyped'
<1>1. EntryShape /\ RoundShape BY DEF OwnersInv, RegistryShape
<1>2. EntriesTyped /\ CountsTyped /\ MessagesTyped /\ RoundsTyped BY DEF RegistryTyped
<1>3. UNCHANGED <<count, posts, moving, round>> /\ Register(n, {r}) BY DEF RegisterRun
<1>4. PICK rs : rs = {r} OBVIOUS
<1>5. EntersRuns(n, rs) BY <1>3, <1>4 DEF EntersRuns, Register
<1>6. \A x \in rs : x.owner \in Nodes BY <1>4 DEF CatalogsTyped, TypedCatalog
<1>7. EntriesTyped' BY <1>1, <1>2, <1>5, <1>6, EnteredAreTyped
<1> QED BY <1>1, <1>2, <1>3, <1>7, SameCounts, FewerMessages, SameRounds DEF RegistryTyped

LEMMA RestartIsTyped ==
  ASSUME OwnersInv, CatalogsTyped, RegistryTyped, NEW n \in Nodes, Restart(n)
  PROVE  RegistryTyped'
<1>1. EntryShape /\ RoundShape BY DEF OwnersInv, RegistryShape
<1>2. EntriesTyped /\ CountsTyped /\ MessagesTyped /\ RoundsTyped BY DEF RegistryTyped
<1>3. UNCHANGED <<count, posts, moving>> /\ round' = [round EXCEPT ![n] = NewRound(n)]
  BY DEF Restart
<1>4. PICK rs : rs = saved[n].runs OBVIOUS
<1>5. EntersRuns(n, rs) BY <1>1, <1>4 DEF EntersRuns, Restart, EntryShape
<1>6. \A x \in rs : x.owner \in Nodes BY <1>4 DEF CatalogsTyped, TypedCatalog
<1>7. EntriesTyped' BY <1>1, <1>2, <1>5, <1>6, EnteredAreTyped
<1>8. RoundsTyped' BY <1>1, <1>2, <1>3, RestartedIsTyped
<1> QED BY <1>2, <1>3, <1>7, <1>8, SameCounts, FewerMessages DEF RegistryTyped

LEMMA AppliedAreTyped ==
  ASSUME OwnersInv, RegistryTyped, NEW n \in Nodes, ApplyClaims(n)
  PROVE  RegistryTyped'
<1>1. EntryShape /\ RoundShape BY DEF OwnersInv, RegistryShape
<1>2. EntriesTyped /\ CountsTyped /\ MessagesTyped /\ RoundsTyped BY DEF RegistryTyped
<1>3. PICK m : m = NextPeer(n) OBVIOUS
<1>4. PICK got : got = round[n].got[m] OBVIOUS
<1>5. round[n].at = "claims" /\ UNCHANGED <<posts, moving>> BY DEF ApplyClaims
<1>6. m \in Nodes /\ Fetched(n, m) BY <1>1, <1>3, <1>5, NextIsAPeer
<1>7. \A i \in DOMAIN got : TypedUpdate(got[i]) BY <1>2, <1>4, <1>6 DEF RoundsTyped
<1> DEFINE after(r) ==
      IF r \in known[n] \cap DOMAIN got
      THEN Heard(n, [e |-> entry[n][r], c |-> count[n][r]], got[r])
      ELSE [e |-> entry[n][r], c |-> count[n][r]]
<1>8. /\ entry' = [entry EXCEPT ![n] = [r \in Runs |-> after(r).e]]
      /\ count' = [count EXCEPT ![n] = [r \in Runs |-> after(r).c]]
  BY <1>3, <1>4 DEF ApplyClaims
<1>9. ASSUME NEW r \in Runs
      PROVE  /\ after(r).e = Unwritten \/ TypedEntry(after(r).e)
             /\ after(r).c \in Counted
  <2>1. CASE r \in known[n] \cap DOMAIN got
    <3>1. TypedEntry(entry[n][r]) /\ count[n][r] \in Counted
      BY <1>1, <1>2, <2>1, KnownIsTyped, CountIsTyped
    <3>2. PICK e : e = entry[n][r] OBVIOUS
    <3>3. PICK c : c = count[n][r] OBVIOUS
    <3>4. PICK u : u = got[r] OBVIOUS
    <3>5. TypedUpdate(u) BY <1>7, <2>1, <3>4
    <3>6. PICK y : y = Heard(n, [e |-> e, c |-> c], u) OBVIOUS
    <3>7. TypedEntry(y.e) /\ y.c \in Counted BY <3>1, <3>2, <3>3, <3>5, <3>6, HeardIsTyped
    <3>8. after(r) = y BY <2>1, <3>2, <3>3, <3>4, <3>6
    <3> QED BY <3>7, <3>8
  <2>2. CASE r \notin known[n] \cap DOMAIN got
    <3>1. after(r) = [e |-> entry[n][r], c |-> count[n][r]] BY <2>2
    <3>2. after(r).e = entry[n][r] /\ after(r).c = count[n][r] BY <3>1
    <3>3. count[n][r] \in Counted BY <1>2, CountIsTyped
    <3> QED BY <1>2, <3>2, <3>3 DEF EntriesTyped
  <2> QED BY <2>1, <2>2
<1> HIDE DEF after
<1>10. EntriesTyped'
  <2>1. DOMAIN entry = Nodes BY <1>1 DEF EntryShape
  <2>2. \A k \in Nodes, i \in Runs : entry'[k][i] = entry[k][i] \/ entry'[k][i] = after(i).e
    BY <1>8, <2>1
  <2>3. \A k \in Nodes, i \in Runs : entry'[k][i] = Unwritten \/ TypedEntry(entry'[k][i])
    BY <1>2, <1>9, <2>2 DEF EntriesTyped
  <2> QED BY <2>3, TypedNext
<1>11. CountsTyped'
  <2>1. PICK row : row = [r \in Runs |-> after(r).c] OBVIOUS
  <2>2. row \in [Runs -> Counted] BY <1>9, <2>1
  <2>3. count' = [count EXCEPT ![n] = row] BY <1>8, <2>1
  <2> QED BY <1>2, <2>2, <2>3 DEF CountsTyped, Counted
<1>12. RoundsTyped'
  <2>1. IF round[n].todo = {m}
        THEN round' = [round EXCEPT ![n] = NewRound(n)]
        ELSE Go(n, "claims", round[n].todo \ {m},
                [o \in round[n].todo \ {m} |-> round[n].got[o]])
    BY <1>3 DEF ApplyClaims
  <2> QED BY <1>1, <1>2, <1>5, <2>1, GoingOnIsTyped
<1> QED BY <1>2, <1>5, <1>10, <1>11, <1>12, FewerMessages DEF RegistryTyped

LEMMA DeliveredIsTyped ==
  ASSUME OwnersInv, RegistryTyped, NEW p \in posts, Deliver(p)
  PROVE  RegistryTyped'
<1>1. EntryShape /\ MessageShape /\ RoundShape BY DEF OwnersInv, RegistryShape
<1>2. EntriesTyped /\ CountsTyped /\ MessagesTyped /\ RoundsTyped BY DEF RegistryTyped
<1>3. posts' = posts \ {p} /\ UNCHANGED <<round, moving>> BY DEF Deliver
<1>4. MessagesTyped' /\ RoundsTyped' BY <1>1, <1>2, <1>3, FewerMessages, SameRounds
<1>5. CASE p.run \notin known[p.to]
  <2>1. UNCHANGED <<entry, count>> BY <1>5 DEF Deliver, claims
  <2> QED BY <1>2, <1>4, <2>1, SameEntriesTyped, SameCounts DEF RegistryTyped
<1>6. CASE p.run \in known[p.to]
  <2>1. PICK n : n = p.to OBVIOUS
  <2>2. PICK r : r = p.run OBVIOUS
  <2>3. PICK e : e = entry[n][r] OBVIOUS
  <2>4. PICK c : c = count[n][r] OBVIOUS
  <2>5. PICK y : y = Heard(n, [e |-> e, c |-> c], p) OBVIOUS
  <2>6. n \in Nodes /\ r \in known[n] BY <1>1, <1>6, <2>1, <2>2 DEF MessageShape
  <2>7. r \in Runs /\ TypedEntry(e) /\ c \in Counted
    BY <1>1, <1>2, <2>3, <2>4, <2>6, KnownIsTyped, CountIsTyped
  <2>8. TypedUpdate(p) BY <1>2 DEF MessagesTyped
  <2>9. TypedEntry(y.e) /\ y.c \in Counted BY <2>5, <2>7, <2>8, HeardIsTyped
  <2>10. SetEntry(n, r, y.e) /\ count' = [count EXCEPT ![n][r] = y.c]
    BY <1>6, <2>1, <2>2, <2>3, <2>4, <2>5 DEF Deliver
  <2>11. EntriesTyped' BY <1>1, <1>2, <2>6, <2>7, <2>9, <2>10, OneTypedEntry
  <2>12. CountsTyped' BY <1>2, <2>6, <2>7, <2>9, <2>10, OneCount
  <2> QED BY <1>4, <2>11, <2>12 DEF RegistryTyped
<1> QED BY <1>5, <1>6

LEMMA FinalizedIsTyped ==
  ASSUME OwnersInv, RegistryTyped, NEW h \in moving, Finalize(h)
  PROVE  RegistryTyped'
<1>1. EntryShape /\ MessageShape /\ RoundShape BY DEF OwnersInv, RegistryShape
<1>2. EntriesTyped /\ CountsTyped /\ MessagesTyped /\ RoundsTyped BY DEF RegistryTyped
<1>3. PICK n : n = h.from OBVIOUS
<1>4. PICK r : r = h.run OBVIOUS
<1>5. PICK e : e = entry[n][r] OBVIOUS
<1>6. PICK o : o = h.to OBVIOUS
<1>7. PICK g : g = h.gen OBVIOUS
<1>8. PICK f : f = MarkRemote(e, o, g, g) OBVIOUS
<1>9. PICK x : x = [f EXCEPT !.owner = o, !.gen = g, !.status = "remote"] OBVIOUS
<1>10. /\ r \in known[n] /\ moving' = moving \ {h} /\ SetEntry(n, r, f)
       /\ \E reached \in SUBSET Peers(n) : Post(n, r, x, reached)
       /\ round' = round /\ count' = count
  BY <1>3, <1>4, <1>5, <1>6, <1>7, <1>8, <1>9 DEF Finalize
<1>11. n \in Nodes BY <1>1, <1>3 DEF MessageShape
<1>12. o \in Nodes /\ g \in 1 .. MaxGeneration BY <1>2, <1>6, <1>7 DEF MessagesTyped
<1>13. r \in Runs /\ TypedEntry(e) BY <1>1, <1>2, <1>5, <1>10, <1>11, KnownIsTyped
<1>14. TypedEntry(f) /\ TypedEntry(x) BY <1>8, <1>9, <1>12, <1>13, HandedOverIsTyped
<1>15. EntriesTyped' BY <1>1, <1>2, <1>10, <1>11, <1>13, <1>14, OneTypedEntry
<1>16. MessagesTyped'
  <2>1. PICK reached \in SUBSET Peers(n) : Post(n, r, x, reached) BY <1>10
  <2>2. moving' \subseteq moving BY <1>10
  <2> QED BY <1>2, <1>11, <1>13, <1>14, <2>1, <2>2, PostsAreTyped
<1> QED BY <1>1, <1>2, <1>10, <1>15, <1>16, SameCounts, SameRounds DEF RegistryTyped

LEMMA HandedIsTyped ==
  ASSUME OwnersInv, RegistryTyped, NEW n \in Nodes, NEW m \in Nodes, NEW r \in Runs,
         HandOver(n, m, r)
  PROVE  RegistryTyped'
<1>1. EntryShape /\ RoundShape BY DEF OwnersInv, RegistryShape
<1>2. EntriesTyped /\ CountsTyped /\ MessagesTyped /\ RoundsTyped BY DEF RegistryTyped
<1>3. r \in known[n] /\ r \in known[m] /\ UNCHANGED <<round, posts>>
  BY DEF HandOver, Owns
<1>4. PICK a : a = entry[n][r] OBVIOUS
<1>5. PICK b : b = entry[m][r] OBVIOUS
<1>6. PICK g : g = a.gen + 1 OBVIOUS
<1>7. TypedEntry(a) /\ TypedEntry(b) BY <1>1, <1>2, <1>3, <1>4, <1>5, KnownIsTyped
<1>8. g \in 1 .. MaxGeneration
  <2>1. a.gen \in 0 .. MaxGeneration BY <1>7 DEF TypedEntry
  <2>2. a.gen < MaxGeneration BY <1>4 DEF HandOver
  <2>3. PICK i : i = a.gen OBVIOUS
  <2> QED BY <1>6, <2>1, <2>2, <2>3, ReplicationAssumption
<1>9. PICK x : x = MarkMigrating(a, g) OBVIOUS
<1>10. PICK y : y = ClaimLocal(m, b, g, g) OBVIOUS
<1>11. TypedEntry(x) /\ TypedEntry(y) BY <1>7, <1>8, <1>9, <1>10, HandedOverIsTyped
<1>12. entry' = [entry EXCEPT ![n][r] = MarkMigrating(@, g), ![m][r] = ClaimLocal(m, @, g, g)]
  BY <1>4, <1>6 DEF HandOver
<1>13. EntriesTyped'
  <2>1. m # n BY DEF HandOver
  <2>2. entry = [k \in Nodes |-> [i \in Runs |-> entry[k][i]]] BY <1>1 DEF EntryShape
  <2>3. entry' = [entry EXCEPT ![n][r] = x, ![m][r] = y]
    BY <1>4, <1>5, <1>9, <1>10, <1>12, <2>1, <2>2
  <2>4. \A k \in Nodes, i \in Runs :
          entry'[k][i] = entry[k][i] \/ entry'[k][i] = x \/ entry'[k][i] = y
    BY <2>1, <2>2, <2>3
  <2>5. \A k \in Nodes, i \in Runs : entry'[k][i] = Unwritten \/ TypedEntry(entry'[k][i])
    BY <1>2, <1>11, <2>4 DEF EntriesTyped
  <2> QED BY <2>5, TypedNext
<1>14. CountsTyped'
  <2>1. count[n][r] \in Counted /\ count[m][r] \in Counted BY <1>2, CountIsTyped
  <2>2. PICK c : c = IF count[n][r] > count[m][r] THEN count[n][r] ELSE count[m][r] OBVIOUS
  <2>3. c \in Counted BY <2>1, <2>2
  <2>4. count' = [count EXCEPT ![m][r] = c] BY <1>2, <2>2 DEF HandOver, CountsTyped
  <2> QED BY <1>2, <2>3, <2>4, OneCount
<1>15. MessagesTyped'
  <2>1. PICK h : h = [from |-> n, to |-> m, run |-> r, gen |-> g] OBVIOUS
  <2>2. moving' = moving \cup {h} BY <1>4, <1>6, <2>1 DEF HandOver
  <2>3. h.to = m /\ h.gen = g BY <2>1
  <2>4. \A k \in moving' : k = h \/ k \in moving BY <2>2
  <2>5. \A k \in moving' : k.to \in Nodes /\ k.gen \in 1 .. MaxGeneration
    BY <1>2, <1>8, <2>3, <2>4 DEF MessagesTyped
  <2> QED BY <1>2, <1>3, <2>5 DEF MessagesTyped, TypedUpdate, TypedClaim, Counted
<1> QED BY <1>1, <1>2, <1>3, <1>13, <1>14, <1>15, SameRounds DEF RegistryTyped

LEMMA TypesStep == TypesInv /\ [Next]_vars => TypesInv'
<1> SUFFICES ASSUME TypesInv, [Next]_vars PROVE TypesInv' OBVIOUS
<1>1. OwnersInv /\ CatalogsTyped /\ AnswersTyped /\ RestartsTyped /\ RegistryTyped
  BY DEF TypesInv
<1>2. OwnersInv' BY <1>1, OwnersStep
<1>3. CatalogsTyped' BY <1>1, CatalogsStayTyped DEF OwnersInv
<1>4. AnswersTyped' /\ RestartsTyped' BY <1>1, AnswersStayTyped
<1>5. /\ EntryShape /\ RoundShape /\ EntriesTyped /\ CountsTyped /\ MessagesTyped /\ RoundsTyped
  BY <1>1 DEF OwnersInv, RegistryShape, RegistryTyped
<1>6. ASSUME UNCHANGED <<entry, count, round>>, posts' = posts, moving' \subseteq moving
      PROVE  RegistryTyped'
  <2>1. EntriesTyped' BY <1>5, <1>6, SameEntriesTyped
  <2>2. CountsTyped' BY <1>5, <1>6, SameCounts
  <2>3. RoundsTyped' BY <1>5, <1>6, SameRounds
  <2>4. MessagesTyped' BY <1>5, <1>6, FewerMessages
  <2> QED BY <2>1, <2>2, <2>3, <2>4 DEF RegistryTyped
<1>7. ASSUME UNCHANGED <<entry, count, posts, moving>>, RoundsTyped' PROVE RegistryTyped'
  BY <1>5, <1>7, SameEntriesTyped, SameCounts, FewerMessages DEF RegistryTyped
<1>8. ASSUME UNCHANGED vars PROVE RegistryTyped'
  <2>1. UNCHANGED <<entry, count, round, posts, moving>> BY <1>8 DEF vars, claims
  <2>2. posts' = posts /\ moving' \subseteq moving BY <2>1
  <2> QED BY <1>6, <2>1, <2>2
<1>9. ASSUME NEW n \in Nodes, Reconcile(n) PROVE RegistryTyped'
  <2>1. CASE \E m \in Peers(n) : MergeCatalog(n, m) BY <1>1, <2>1, MergedAreTyped
  <2>2. CASE NoCatalog(n)
    <3>1. NextCatalog(n) /\ round[n].at = "catalogs" /\ UNCHANGED <<entry, count, posts, moving>>
      BY <2>2 DEF NoCatalog, claims
    <3>2. RoundsTyped' BY <1>5, <3>1, RestartedIsTyped
    <3> QED BY <1>7, <3>1, <3>2
  <2>3. CASE \E s \in SUBSET Peers(n) : FetchClaims(n, s)
    <3>1. UNCHANGED <<entry, count, posts, moving>> BY <2>3 DEF FetchClaims, claims
    <3>2. RoundsTyped' BY <1>5, <2>3, FetchingIsTyped
    <3> QED BY <1>7, <3>1, <3>2
  <2>4. CASE ApplyClaims(n) BY <1>1, <2>4, AppliedAreTyped
  <2> QED BY <1>9, <2>1, <2>2, <2>3, <2>4 DEF Reconcile
<1>10. ASSUME NEW n \in Nodes, Submit(n) PROVE RegistryTyped'
  <2>1. CASE \E r \in catalog[n].runs : RegisterRun(n, r) BY <1>1, <2>1, RegisteredAreTyped
  <2>2. CASE \/ \E s \in Submissions[n] : SubmitDefinition(n, s)
             \/ \E q \in Requests[n], r \in Runs : CreateRun(n, q, r)
             \/ \E q \in Requests[n] : CreateRunAgain(n, q)
    <3>1. UNCHANGED <<entry, count, round, posts, moving>>
      BY <2>2 DEF SubmitDefinition, CreateRun, CreateRunAgain, claims
    <3> QED BY <1>6, <3>1
  <2> QED BY <1>10, <2>1, <2>2 DEF Submit
<1>11. ASSUME NEW n \in Nodes, Own(n) PROVE RegistryTyped'
  <2>1. PICK r \in Busy : \/ Decide(n, r) \/ Complete(n, r) \/ BroadcastCompleted(n, r)
                          \/ \E m \in Nodes : HandOver(n, m, r)
    BY <1>11 DEF Own
  <2>2. r \in Runs BY ReplicationAssumption
  <2>3. CASE Decide(n, r)
    <3>1. UNCHANGED <<entry, round, posts, moving>> BY <2>3 DEF Decide
    <3>2. count[n][r] \in 0 .. MaxDecisions BY <1>5, <2>2, CountIsTyped DEF Counted
    <3>3. PICK i : i = count[n][r] OBVIOUS
    <3>4. PICK c : c = i + 1 OBVIOUS
    <3>5. c \in Counted BY <2>3, <3>2, <3>3, <3>4, ReplicationAssumption DEF Decide, Counted
    <3>6. count' = [count EXCEPT ![n][r] = c] BY <2>3, <3>3, <3>4 DEF Decide
    <3>7. CountsTyped' BY <1>5, <2>2, <3>5, <3>6, OneCount
    <3> QED BY <1>5, <3>1, <3>7, SameEntriesTyped, SameRounds, FewerMessages DEF RegistryTyped
  <2>4. CASE Complete(n, r)
    <3>1. r \in known[n] /\ UNCHANGED <<count, round, posts, moving>> BY <2>4 DEF Complete, Owns
    <3>2. PICK e : e = entry[n][r] OBVIOUS
    <3>3. TypedEntry(e) BY <1>5, <3>1, <3>2, KnownIsTyped
    <3>4. PICK f : f = MarkCompleted(e) OBVIOUS
    <3>5. TypedEntry(f) BY <3>3, <3>4, CompletedIsTyped
    <3>6. SetEntry(n, r, f) BY <2>4, <3>2, <3>4 DEF Complete
    <3>7. EntriesTyped' BY <1>5, <2>2, <3>5, <3>6, OneTypedEntry
    <3> QED BY <1>5, <3>1, <3>7, SameCounts, SameRounds, FewerMessages DEF RegistryTyped
  <2>5. CASE BroadcastCompleted(n, r)
    <3>1. r \in known[n] /\ UNCHANGED <<entry, count, round, moving>>
      BY <2>5 DEF BroadcastCompleted, Untold, claims
    <3>2. PICK e : e = entry[n][r] OBVIOUS
    <3>3. TypedEntry(e) BY <1>5, <3>1, <3>2, KnownIsTyped
    <3>4. PICK reached \in SUBSET Peers(n) : Post(n, r, e, reached)
      BY <2>5, <3>2 DEF BroadcastCompleted
    <3>5. moving' \subseteq moving BY <3>1
    <3>6. MessagesTyped' BY <1>5, <2>2, <3>3, <3>4, <3>5, PostsAreTyped
    <3> QED BY <1>5, <3>1, <3>6, SameEntriesTyped, SameCounts, SameRounds DEF RegistryTyped
  <2>6. CASE \E m \in Nodes : HandOver(n, m, r) BY <1>1, <2>2, <2>6, HandedIsTyped
  <2> QED BY <2>1, <2>3, <2>4, <2>5, <2>6
<1>12. ASSUME NEW n \in Nodes, Restart(n) PROVE RegistryTyped' BY <1>1, <1>12, RestartIsTyped
<1>13. ASSUME NEW h \in moving, Finalize(h) PROVE RegistryTyped' BY <1>1, <1>13, FinalizedIsTyped
<1>14. ASSUME NEW h \in moving, Close(h) PROVE RegistryTyped'
  <2>1. UNCHANGED <<entry, count, round>> /\ posts' = posts /\ moving' \subseteq moving
    BY <1>14 DEF Close, claims
  <2> QED BY <1>6, <2>1
<1>15. ASSUME NEW p \in posts, Deliver(p) PROVE RegistryTyped' BY <1>1, <1>15, DeliveredIsTyped
<1>16. RegistryTyped'
  <2>1. CASE Next
    <3>1. CASE \E n \in Nodes : Reconcile(n) \/ Submit(n) \/ Own(n) \/ Restart(n)
      BY <1>9, <1>10, <1>11, <1>12, <3>1
    <3>2. CASE \E h \in moving : Finalize(h) \/ Close(h) BY <1>13, <1>14, <3>2
    <3>3. CASE \E p \in posts : Deliver(p) BY <1>15, <3>3
    <3> QED BY <2>1, <3>1, <3>2, <3>3 DEF Next
  <2> QED BY <1>8, <2>1
<1> QED BY <1>2, <1>3, <1>4, <1>16 DEF TypesInv

(* What the registries, the catalogs and the rounds are made of. *)
LEMMA RegistryTypes == Spec => []TypeOK
<1>1. TypesInv => TypeOK
  <2> SUFFICES ASSUME TypesInv PROVE TypeOK OBVIOUS
  <2>1. /\ EntryShape /\ EntriesTyped /\ CountsTyped /\ RoundsTyped
        /\ CatalogsTyped /\ AnswersTyped /\ RestartsTyped
    BY DEF TypesInv, OwnersInv, RegistryShape, RegistryTyped
  <2>2. \A n \in Nodes : \A c \in {catalog[n], saved[n]} : TypedCatalog(c)
    BY <2>1 DEF CatalogsTyped
  <2>3. known \in [Nodes -> SUBSET Runs] BY <2>1 DEF EntryShape
  <2>4. \A n \in Nodes, r \in Runs :
          /\ entry[n][r] = Unwritten \/ (entry[n][r] \in Entry /\ entry[n][r].gen <= MaxGeneration)
          /\ r \in known[n] => entry[n][r] # Unwritten
    BY <2>1, TypedIsEntry DEF EntryShape, EntriesTyped
  <2>5. \A n \in Nodes, r \in Runs : count[n][r] \in 0 .. MaxDecisions
    BY <2>1, CountIsTyped DEF Counted
  <2>6. \A n \in Nodes : round[n].at \in {"catalogs", "ask", "claims"} /\ round[n].todo # {}
    BY <2>1 DEF RoundsTyped
  <2> QED BY <2>1, <2>2, <2>3, <2>4, <2>5, <2>6
          DEF TypeOK, TypedCatalog, AnswersTyped, RestartsTyped
<1> QED BY <1>1, TypesInit, TypesStep, PTL DEF Spec

(* --------------------- Telemetry: ages of the samples ------------------ *)

Edges(f) == f \in [Links -> Nat]

TelemetryShape ==
    /\ up \in [Links -> BOOLEAN]
    /\ Edges(downFor) /\ Edges(latency) /\ Edges(model) /\ Edges(probed) /\ Edges(measured)
    /\ todo \subseteq Links
    /\ prober \in [Probers -> [at : {"idle", "ping", "wait", "measure"}, link : Links,
                               force : BOOLEAN]]

(* No sample of a link that is down is younger than its loss. *)
SamplesAreOld == \A l \in Links : ~up[l] => latency[l] >= downFor[l] /\ model[l] >= downFor[l]

(* The time of the last probe, where it is known, is that of the last
   measurement, and no measurement is younger than what is known of it. *)
MeasuredIsKnown ==
    \A l \in Links :
      /\ measured[l] >= model[l]
      /\ model[l] = Unavailable => measured[l] = Unavailable
      /\ probed[l] # Unavailable => measured[l] = probed[l]

LinksInv == TelemetryShape /\ SamplesAreOld /\ MeasuredIsKnown

LEMMA OldIsLast ==
  /\ Old \in Nat /\ Unavailable \in Nat /\ Unavailable > Old
  /\ ProbeEvery \in Nat /\ MeasureEvery \in Nat /\ StaleAfter \in Nat
  /\ Old > MeasureEvery
<1>1. /\ ProbeEvery \in Nat /\ MeasureEvery \in Nat /\ StaleAfter \in Nat
  BY TelemetryAssumption
<1>2. PICK S : S = {ProbeEvery, MeasureEvery, StaleAfter} OBVIOUS
<1>3. \E x \in S : \A y \in S : y <= x
  <2>1. CASE ProbeEvery <= MeasureEvery /\ StaleAfter <= MeasureEvery BY <1>1, <1>2, <2>1
  <2>2. CASE MeasureEvery <= ProbeEvery /\ StaleAfter <= ProbeEvery BY <1>1, <1>2, <2>2
  <2>3. CASE ProbeEvery <= StaleAfter /\ MeasureEvery <= StaleAfter BY <1>1, <1>2, <2>3
  <2> QED BY <1>1, <2>1, <2>2, <2>3
<1>4. PICK t : t = Max(S) OBVIOUS
<1>5. t \in S /\ \A y \in S : y <= t
  <2>1. \E x \in S : \A y \in S : x >= y BY <1>1, <1>2, <1>3
  <2>2. t \in S /\ \A y \in S : t >= y BY <1>4, <2>1 DEF Max
  <2> QED BY <1>1, <1>2, <2>2
<1>6. t \in Nat /\ t >= MeasureEvery BY <1>1, <1>2, <1>5
<1>7. Old = t + 1 BY <1>2, <1>4 DEF Old
<1> QED BY <1>1, <1>6, <1>7 DEF Unavailable

LEMMA OlderIsNoYounger ==
  ASSUME NEW a \in Nat, NEW b \in Nat
  PROVE  /\ Older(a) \in Nat /\ Older(a) >= a
         /\ a >= b => Older(a) >= Older(b)
         /\ Older(a) = Unavailable <=> a = Unavailable
<1>1. Older(a) = IF a < Old THEN a + 1 ELSE a BY DEF Older
<1>2. Older(b) = IF b < Old THEN b + 1 ELSE b BY DEF Older
<1>3. Unavailable = Old + 1 BY DEF Unavailable
<1> QED BY <1>1, <1>2, <1>3, OldIsLast

LEMMA FirstLink == Min(Links) \in Links
<1>1. \E x \in Links : \A y \in Links : x <= y BY TelemetryAssumption, LeastNumber
<1> QED BY <1>1 DEF Min

LEMMA LinksInit == TelemetryInit => LinksInv
<1> SUFFICES ASSUME TelemetryInit PROVE LinksInv OBVIOUS
<1>1. TelemetryShape
  BY FirstLink, OldIsLast DEF TelemetryInit, TelemetryShape, Edges, NoProbe
<1>2. SamplesAreOld BY DEF TelemetryInit, SamplesAreOld
<1>3. MeasuredIsKnown BY OldIsLast DEF TelemetryInit, MeasuredIsKnown
<1> QED BY <1>1, <1>2, <1>3 DEF LinksInv

(* A step that changes samples of one link at most. *)
LEMMA OneLink ==
  ASSUME LinksInv, NEW l \in Links, TelemetryShape',
         up' = up, downFor' = downFor,
         latency' = latency \/ (up[l] /\ latency' = [latency EXCEPT ![l] = 0]),
         \/ UNCHANGED <<model, probed, measured>>
         \/ /\ up[l] /\ model' = [model EXCEPT ![l] = 0]
            /\ probed' = [probed EXCEPT ![l] = 0] /\ measured' = [measured EXCEPT ![l] = 0]
         \/ /\ up[l] /\ model[l] # Unavailable /\ model' = [model EXCEPT ![l] = 0]
            /\ UNCHANGED <<probed, measured>>
  PROVE  LinksInv'
<1>1. TelemetryShape /\ SamplesAreOld /\ MeasuredIsKnown BY DEF LinksInv
<1>2. /\ up \in [Links -> BOOLEAN] /\ downFor \in [Links -> Nat] /\ latency \in [Links -> Nat]
      /\ model \in [Links -> Nat] /\ probed \in [Links -> Nat] /\ measured \in [Links -> Nat]
  BY <1>1 DEF TelemetryShape, Edges
<1>3. ASSUME NEW k \in Links, ~up'[k]
      PROVE  latency'[k] >= downFor'[k] /\ model'[k] >= downFor'[k]
  <2>1. k # l \/ (latency' = latency /\ model' = model) BY <1>3
  <2>2. latency'[k] = latency[k] /\ model'[k] = model[k] BY <1>2, <2>1
  <2> QED BY <1>1, <1>3, <2>2 DEF SamplesAreOld
<1>4. ASSUME NEW k \in Links
      PROVE  /\ measured'[k] >= model'[k]
             /\ model'[k] = Unavailable => measured'[k] = Unavailable
             /\ probed'[k] # Unavailable => measured'[k] = probed'[k]
  <2>1. CASE UNCHANGED <<model, probed, measured>> BY <1>1, <2>1 DEF MeasuredIsKnown
  <2>2. CASE /\ model' = [model EXCEPT ![l] = 0]
             /\ probed' = [probed EXCEPT ![l] = 0] /\ measured' = [measured EXCEPT ![l] = 0]
    <3>1. CASE k = l BY <1>2, <2>2, <3>1, OldIsLast
    <3>2. CASE k # l
      <4>1. model'[k] = model[k] /\ probed'[k] = probed[k] /\ measured'[k] = measured[k]
        BY <1>2, <2>2, <3>2
      <4> QED BY <1>1, <4>1 DEF MeasuredIsKnown
    <3> QED BY <3>1, <3>2
  <2>3. CASE /\ model[l] # Unavailable /\ model' = [model EXCEPT ![l] = 0]
             /\ UNCHANGED <<probed, measured>>
    <3>1. CASE k = l
      <4>1. model'[k] = 0 /\ measured'[k] = measured[k] /\ probed'[k] = probed[k]
        BY <1>2, <2>3, <3>1
      <4>2. measured[k] >= 0 /\ model'[k] # Unavailable BY <1>2, <4>1, OldIsLast
      <4> QED BY <1>1, <4>1, <4>2 DEF MeasuredIsKnown
    <3>2. CASE k # l
      <4>1. model'[k] = model[k] /\ probed'[k] = probed[k] /\ measured'[k] = measured[k]
        BY <1>2, <2>3, <3>2
      <4> QED BY <1>1, <4>1 DEF MeasuredIsKnown
    <3> QED BY <3>1, <3>2
  <2> QED BY <2>1, <2>2, <2>3
<1>5. SamplesAreOld' BY <1>3 DEF SamplesAreOld
<1>6. MeasuredIsKnown' BY <1>4 DEF MeasuredIsKnown, Unavailable, Old
<1> QED BY <1>5, <1>6 DEF LinksInv

(* What the properties of a step say of it. *)
Seldom ==
    \A q \in Probers :
      prober[q].at = "wait" /\ prober'[q].at = "measure" /\ ~prober[q].force =>
        measured[prober[q].link] >= MeasureEvery

LEMMA SetProberKeeps ==
  ASSUME TelemetryShape, NEW q \in Probers, NEW p, SetProber(q, p),
         p \in [at : {"idle", "ping", "wait", "measure"}, link : Links, force : BOOLEAN]
  PROVE  /\ prober' \in [Probers -> [at : {"idle", "ping", "wait", "measure"}, link : Links,
                                     force : BOOLEAN]]
         /\ prober'[q] = p /\ \A r \in Probers : r # q => prober'[r] = prober[r]
BY DEF SetProber, TelemetryShape

LEMMA NoProbeIsAProbe ==
  /\ NoProbe \in [at : {"idle", "ping", "wait", "measure"}, link : Links, force : BOOLEAN]
  /\ NoProbe.at = "idle"
BY FirstLink DEF NoProbe

LEMMA LinksPing ==
  ASSUME LinksInv, NEW q \in Probers, Ping(q) PROVE LinksInv' /\ Seldom
<1>1. TelemetryShape BY DEF LinksInv
<1>2. PICK p : p = prober[q] OBVIOUS
<1>3. /\ p \in [at : {"idle", "ping", "wait", "measure"}, link : Links, force : BOOLEAN]
      /\ p.at = "ping"
  BY <1>1, <1>2 DEF TelemetryShape, Ping
<1>4. PICK l \in Links : l = p.link BY <1>3
<1>5. /\ latency' = [latency EXCEPT ![l] = IF up[l] THEN 0 ELSE FailureAge(@)]
      /\ SetProber(q, [p EXCEPT !.at = "wait"]) \/ SetProber(q, NoProbe)
      /\ UNCHANGED <<model, probed, measured, todo, up, downFor>>
  BY <1>2, <1>4 DEF Ping, Return, world
<1>6. PICK x : x = [p EXCEPT !.at = "wait"] OBVIOUS
<1>7. x \in [at : {"idle", "ping", "wait", "measure"}, link : Links, force : BOOLEAN]
  BY <1>3, <1>6
<1>8. /\ prober' \in [Probers -> [at : {"idle", "ping", "wait", "measure"}, link : Links,
                                  force : BOOLEAN]]
      /\ \A r \in Probers : r # q => prober'[r] = prober[r]
  BY <1>1, <1>5, <1>6, <1>7, NoProbeIsAProbe, SetProberKeeps
<1>9. latency' = latency \/ (up[l] /\ latency' = [latency EXCEPT ![l] = 0])
  <2>1. latency \in [Links -> Nat] BY <1>1 DEF TelemetryShape, Edges
  <2>2. CASE up[l] BY <1>5, <2>2
  <2>3. CASE ~up[l] BY <1>5, <2>1, <2>3 DEF FailureAge
  <2> QED BY <2>2, <2>3
<1>10. TelemetryShape'
  <2>1. Edges(latency') BY <1>1, <1>9 DEF TelemetryShape, Edges
  <2> QED BY <1>1, <1>5, <1>8, <2>1 DEF TelemetryShape, Edges
<1>11. Seldom BY <1>2, <1>3, <1>8 DEF Seldom
<1>12. LinksInv' BY <1>5, <1>9, <1>10, OneLink
<1> QED BY <1>11, <1>12

LEMMA LinksLock ==
  ASSUME LinksInv, NEW q \in Probers, Lock(q) PROVE LinksInv' /\ Seldom
<1>1. TelemetryShape /\ MeasuredIsKnown /\ SamplesAreOld BY DEF LinksInv
<1>2. PICK p : p = prober[q] OBVIOUS
<1>3. /\ p \in [at : {"idle", "ping", "wait", "measure"}, link : Links, force : BOOLEAN]
  BY <1>1, <1>2 DEF TelemetryShape
<1>4. PICK l \in Links : l = p.link BY <1>3
<1>5. /\ UNCHANGED <<model, probed, measured, todo, up, downFor, latency>>
      /\ \/ Due(l, p.force) /\ SetProber(q, [p EXCEPT !.at = "measure"])
         \/ SetProber(q, NoProbe)
  BY <1>2, <1>4 DEF Lock, StillDue, Return, world, edges
<1>6. PICK x : x = [p EXCEPT !.at = "measure"] OBVIOUS
<1>7. x \in [at : {"idle", "ping", "wait", "measure"}, link : Links, force : BOOLEAN]
  BY <1>3, <1>6
<1>8. /\ prober' \in [Probers -> [at : {"idle", "ping", "wait", "measure"}, link : Links,
                                  force : BOOLEAN]]
      /\ \A r \in Probers : r # q => prober'[r] = prober[r]
  BY <1>1, <1>5, <1>6, <1>7, NoProbeIsAProbe, SetProberKeeps
<1>9. TelemetryShape' BY <1>1, <1>5, <1>8 DEF TelemetryShape, Edges
<1>10. LinksInv' BY <1>1, <1>5, <1>9 DEF LinksInv, SamplesAreOld, MeasuredIsKnown
<1>11. ASSUME NEW r \in Probers, prober[r].at = "wait", prober'[r].at = "measure",
              ~prober[r].force
       PROVE  measured[prober[r].link] >= MeasureEvery
  <2>1. r = q BY <1>8, <1>11
  <2>2. prober'[q] # NoProbe BY <1>11, <2>1, NoProbeIsAProbe
  <2>3. ~SetProber(q, NoProbe) BY <1>1, <2>2, NoProbeIsAProbe, SetProberKeeps
  <2>4. Due(l, p.force) /\ ~p.force BY <1>2, <1>5, <1>11, <2>1, <2>3
  <2>5. \/ model[l] = Unavailable
        \/ probed[l] = Unavailable /\ model[l] >= MeasureEvery
        \/ probed[l] # Unavailable /\ probed[l] >= MeasureEvery
    BY <2>4 DEF Due
  <2>6. model[l] \in Nat /\ probed[l] \in Nat /\ measured[l] \in Nat
    BY <1>1 DEF TelemetryShape, Edges
  <2>7. measured[l] >= MeasureEvery
    <3>1. /\ measured[l] >= model[l]
          /\ model[l] = Unavailable => measured[l] = Unavailable
          /\ probed[l] # Unavailable => measured[l] = probed[l]
      BY <1>1 DEF MeasuredIsKnown
    <3> QED BY <2>5, <2>6, <3>1, OldIsLast
  <2> QED BY <1>2, <1>4, <2>1, <2>7
<1> QED BY <1>10, <1>11 DEF Seldom

LEMMA LinksMeasure ==
  ASSUME LinksInv, NEW q \in Probers, Measure(q) PROVE LinksInv' /\ Seldom
<1>1. TelemetryShape BY DEF LinksInv
<1>2. PICK p : p = prober[q] OBVIOUS
<1>3. /\ p \in [at : {"idle", "ping", "wait", "measure"}, link : Links, force : BOOLEAN]
      /\ p.at = "measure"
  BY <1>1, <1>2 DEF TelemetryShape, Measure
<1>4. PICK l \in Links : l = p.link BY <1>3
<1>5. /\ UNCHANGED <<latency, todo, up, downFor>> /\ SetProber(q, NoProbe)
      /\ \/ /\ up[l] /\ model' = [model EXCEPT ![l] = 0]
            /\ probed' = [probed EXCEPT ![l] = 0] /\ measured' = [measured EXCEPT ![l] = 0]
         \/ model' = [model EXCEPT ![l] = model[l]] /\ UNCHANGED <<probed, measured>>
  BY <1>2, <1>4 DEF Measure, Transported, Sampled, FailureAge, Return, world
<1>6. model \in [Links -> Nat] BY <1>1 DEF TelemetryShape, Edges
<1>7. \/ /\ up[l] /\ model' = [model EXCEPT ![l] = 0]
         /\ probed' = [probed EXCEPT ![l] = 0] /\ measured' = [measured EXCEPT ![l] = 0]
      \/ UNCHANGED <<model, probed, measured>>
  BY <1>5, <1>6
<1>8. /\ prober' \in [Probers -> [at : {"idle", "ping", "wait", "measure"}, link : Links,
                                  force : BOOLEAN]]
      /\ prober'[q].at = "idle" /\ \A r \in Probers : r # q => prober'[r] = prober[r]
  BY <1>1, <1>5, NoProbeIsAProbe, SetProberKeeps
<1>9. TelemetryShape'
  <2>1. Edges(model') /\ Edges(probed') /\ Edges(measured')
    BY <1>1, <1>7 DEF TelemetryShape, Edges
  <2> QED BY <1>1, <1>5, <1>8, <2>1 DEF TelemetryShape, Edges
<1>10. LinksInv' BY <1>5, <1>7, <1>9, OneLink
<1>11. Seldom BY <1>8 DEF Seldom
<1> QED BY <1>10, <1>11

LEMMA LinksProbe ==
  ASSUME LinksInv, RunOnce \/ ProbeNext \/ \E l \in Asked : Refresh(l)
  PROVE  LinksInv' /\ Seldom
<1>1. TelemetryShape BY DEF LinksInv
<1>2. UNCHANGED <<latency, model, probed, measured, up, downFor>>
  BY DEF RunOnce, ProbeNext, Refresh, edges, world
<1>3. /\ todo' \subseteq Links
      /\ prober' \in [Probers -> [at : {"idle", "ping", "wait", "measure"}, link : Links,
                                  force : BOOLEAN]]
      /\ \A q \in Probers : prober[q].at = "wait" => prober'[q].at # "measure"
  <2>1. CASE RunOnce BY <1>1, <2>1 DEF RunOnce, TelemetryShape
  <2>2. ASSUME NEW q \in Probers, NEW l \in Links, NEW f \in BOOLEAN,
               SetProber(q, [at |-> "ping", link |-> l, force |-> f])
        PROVE  /\ prober' \in [Probers -> [at : {"idle", "ping", "wait", "measure"},
                                           link : Links, force : BOOLEAN]]
               /\ \A r \in Probers : prober[r].at = "wait" => prober'[r].at # "measure"
    <3>1. PICK p : p = [at |-> "ping", link |-> l, force |-> f] OBVIOUS
    <3>2. /\ p \in [at : {"idle", "ping", "wait", "measure"}, link : Links, force : BOOLEAN]
          /\ p.at = "ping"
      BY <3>1
    <3>3. SetProber(q, p) BY <2>2, <3>1
    <3> QED BY <1>1, <3>2, <3>3, SetProberKeeps
  <2>3. CASE ProbeNext
    <3>1. PICK l : l = Min(todo) OBVIOUS
    <3>2. \E x \in todo : \A y \in todo : x <= y
      BY <1>1, <2>3, TelemetryAssumption, LeastNumber DEF TelemetryShape, ProbeNext
    <3>3. l \in todo BY <3>1, <3>2 DEF Min
    <3>4. l \in Links /\ "loop" \in Probers BY <1>1, <3>3 DEF TelemetryShape, Probers
    <3>5. /\ SetProber("loop", [at |-> "ping", link |-> l, force |-> FALSE])
          /\ todo' = todo \ {l}
      BY <2>3, <3>1 DEF ProbeNext
    <3>6. todo' \subseteq Links BY <1>1, <3>5 DEF TelemetryShape
    <3> QED BY <2>2, <3>4, <3>5, <3>6
  <2>4. CASE \E l \in Asked : Refresh(l)
    <3>1. PICK l \in Asked : Refresh(l) BY <2>4
    <3>2. l \in Links /\ "operator" \in Probers BY TelemetryAssumption DEF Probers
    <3>3. SetProber("operator", [at |-> "ping", link |-> l, force |-> TRUE]) /\ todo' = todo
      BY <3>1 DEF Refresh
    <3> QED BY <1>1, <2>2, <3>2, <3>3 DEF TelemetryShape
  <2> QED BY <2>1, <2>3, <2>4
<1>4. TelemetryShape' BY <1>1, <1>2, <1>3 DEF TelemetryShape, Edges
<1>5. LinksInv' BY <1>2, <1>4 DEF LinksInv, SamplesAreOld, MeasuredIsKnown
<1> QED BY <1>3, <1>5 DEF Seldom

LEMMA LinksTransfer ==
  ASSUME LinksInv, NEW l \in Links, Transfer(l) PROVE LinksInv' /\ Seldom
<1>1. TelemetryShape BY DEF LinksInv
<1>2. /\ up[l] /\ model[l] # Unavailable /\ model' = [model EXCEPT ![l] = 0]
      /\ UNCHANGED <<latency, probed, measured, todo, prober, up, downFor>>
  BY DEF Transfer, world
<1>3. Edges(model') BY <1>1, <1>2 DEF TelemetryShape, Edges
<1>4. TelemetryShape' BY <1>1, <1>2, <1>3 DEF TelemetryShape, Edges
<1>5. LinksInv' BY <1>2, <1>4, OneLink
<1>6. Seldom BY <1>2 DEF Seldom
<1> QED BY <1>5, <1>6

LEMMA LinksFlip ==
  ASSUME LinksInv, NEW l \in Links, Flip(l) PROVE LinksInv' /\ Seldom
<1>1. TelemetryShape /\ SamplesAreOld BY DEF LinksInv
<1>2. /\ up' = [up EXCEPT ![l] = ~@] /\ downFor' = [downFor EXCEPT ![l] = 0]
      /\ UNCHANGED <<latency, model, probed, measured, todo, prober>>
  BY DEF Flip, edges
<1>3. /\ up \in [Links -> BOOLEAN] /\ downFor \in [Links -> Nat] /\ latency \in [Links -> Nat]
      /\ model \in [Links -> Nat]
  BY <1>1 DEF TelemetryShape, Edges
<1>4. up' \in [Links -> BOOLEAN] /\ downFor' \in [Links -> Nat] BY <1>2, <1>3
<1>5. TelemetryShape' BY <1>1, <1>2, <1>4 DEF TelemetryShape, Edges
<1>6. SamplesAreOld'
  <2> SUFFICES ASSUME NEW k \in Links, ~up'[k]
               PROVE  latency'[k] >= downFor'[k] /\ model'[k] >= downFor'[k]
    BY DEF SamplesAreOld
  <2>1. CASE k = l BY <1>2, <1>3, <2>1
  <2>2. CASE k # l
    <3>1. up'[k] = up[k] /\ downFor'[k] = downFor[k] BY <1>2, <1>3, <2>2
    <3> QED BY <1>1, <1>2, <3>1 DEF SamplesAreOld
  <2> QED BY <2>1, <2>2
<1>7. LinksInv' BY <1>2, <1>5, <1>6 DEF LinksInv, MeasuredIsKnown
<1> QED BY <1>2, <1>7 DEF Seldom

LEMMA LinksTick ==
  ASSUME LinksInv, TelemetryTick PROVE LinksInv' /\ Seldom
<1>1. TelemetryShape /\ SamplesAreOld /\ MeasuredIsKnown BY DEF LinksInv
<1>2. /\ up \in [Links -> BOOLEAN] /\ downFor \in [Links -> Nat] /\ latency \in [Links -> Nat]
      /\ model \in [Links -> Nat] /\ probed \in [Links -> Nat] /\ measured \in [Links -> Nat]
  BY <1>1 DEF TelemetryShape, Edges
<1>3. UNCHANGED <<up, todo, prober>> BY DEF TelemetryTick
<1>4. ASSUME NEW f, Edges(f)
      PROVE  Edges(AllOlder(f)) /\ \A l \in Links : AllOlder(f)[l] = Older(f[l])
  BY <1>4, OlderIsNoYounger DEF AllOlder, Edges
<1>5. /\ latency' = AllOlder(latency) /\ model' = AllOlder(model)
      /\ probed' = AllOlder(probed) /\ measured' = AllOlder(measured)
  BY DEF TelemetryTick
<1>6. /\ Edges(latency') /\ Edges(model') /\ Edges(probed') /\ Edges(measured')
      /\ \A l \in Links : /\ latency'[l] = Older(latency[l]) /\ model'[l] = Older(model[l])
                          /\ probed'[l] = Older(probed[l]) /\ measured'[l] = Older(measured[l])
  BY <1>1, <1>4, <1>5 DEF TelemetryShape
<1>7. /\ Edges(downFor')
      /\ \A l \in Links : downFor'[l] = IF up[l] THEN 0 ELSE Older(downFor[l])
  BY <1>2, OlderIsNoYounger DEF TelemetryTick, Edges
<1>8. TelemetryShape' BY <1>1, <1>3, <1>6, <1>7 DEF TelemetryShape, Edges
<1>9. SamplesAreOld'
  <2> SUFFICES ASSUME NEW l \in Links, ~up'[l]
               PROVE  latency'[l] >= downFor'[l] /\ model'[l] >= downFor'[l]
    BY DEF SamplesAreOld
  <2>1. latency[l] >= downFor[l] /\ model[l] >= downFor[l] BY <1>1, <1>3 DEF SamplesAreOld
  <2>2. /\ Older(latency[l]) >= Older(downFor[l]) /\ Older(model[l]) >= Older(downFor[l])
    BY <1>2, <2>1, OlderIsNoYounger
  <2>3. downFor'[l] = Older(downFor[l]) BY <1>3, <1>7
  <2> QED BY <1>6, <2>2, <2>3
<1>10. MeasuredIsKnown'
  <2>1. ASSUME NEW l \in Links
        PROVE  /\ measured'[l] >= model'[l]
               /\ model'[l] = Unavailable => measured'[l] = Unavailable
               /\ probed'[l] # Unavailable => measured'[l] = probed'[l]
    <3>1. /\ measured[l] >= model[l]
          /\ model[l] = Unavailable => measured[l] = Unavailable
          /\ probed[l] # Unavailable => measured[l] = probed[l]
      BY <1>1 DEF MeasuredIsKnown
    <3>2. Older(measured[l]) >= Older(model[l]) BY <1>2, <3>1, OlderIsNoYounger
    <3>3. /\ Older(model[l]) = Unavailable <=> model[l] = Unavailable
          /\ Older(measured[l]) = Unavailable <=> measured[l] = Unavailable
          /\ Older(probed[l]) = Unavailable <=> probed[l] = Unavailable
      BY <1>2, OlderIsNoYounger
    <3> QED BY <1>6, <3>1, <3>2, <3>3
  <2> QED BY <2>1 DEF MeasuredIsKnown, Unavailable, Old
<1> QED BY <1>3, <1>8, <1>9, <1>10 DEF LinksInv, Seldom

LEMMA LinksRestart ==
  ASSUME LinksInv, TelemetryRestart PROVE LinksInv' /\ Seldom
<1>1. TelemetryShape /\ SamplesAreOld /\ MeasuredIsKnown BY DEF LinksInv
<1>2. /\ UNCHANGED <<latency, model, measured, up, downFor>>
      /\ probed' = [l \in Links |-> Unavailable]
      /\ todo' = {} /\ prober' = [q \in Probers |-> NoProbe]
  BY DEF TelemetryRestart
<1>3. Edges(probed') BY <1>2, OldIsLast DEF Edges
<1>4. prober' \in [Probers -> [at : {"idle", "ping", "wait", "measure"}, link : Links,
                               force : BOOLEAN]]
  BY <1>2, NoProbeIsAProbe
<1>5. TelemetryShape' BY <1>1, <1>2, <1>3, <1>4 DEF TelemetryShape, Edges
<1>6. SamplesAreOld' BY <1>1, <1>2 DEF SamplesAreOld
<1>7. MeasuredIsKnown'
  <2>1. \A l \in Links : probed'[l] = Unavailable BY <1>2
  <2> QED BY <1>1, <1>2, <2>1 DEF MeasuredIsKnown, Unavailable, Old
<1>8. Seldom BY <1>2, NoProbeIsAProbe DEF Seldom
<1> QED BY <1>5, <1>6, <1>7, <1>8 DEF LinksInv

LEMMA LinksStep == LinksInv /\ [TelemetryNext]_telemetryVars => LinksInv' /\ Seldom
<1> SUFFICES ASSUME LinksInv, [TelemetryNext]_telemetryVars PROVE LinksInv' /\ Seldom OBVIOUS
<1>1. CASE UNCHANGED telemetryVars
  <2>1. UNCHANGED <<up, downFor, latency, model, probed, measured, todo, prober>>
    BY <1>1 DEF telemetryVars
  <2>2. LinksInv'
    BY <2>1 DEF LinksInv, TelemetryShape, Edges, SamplesAreOld, MeasuredIsKnown
  <2> QED BY <2>1, <2>2 DEF Seldom
<1>2. ASSUME NEW q \in Probers, Ping(q) \/ Lock(q) \/ Measure(q) PROVE LinksInv' /\ Seldom
  BY <1>2, LinksPing, LinksLock, LinksMeasure
<1>3. CASE RunOnce \/ ProbeNext \/ \E l \in Asked : Refresh(l) BY <1>3, LinksProbe
<1>4. ASSUME NEW l \in Asked, Transfer(l) PROVE LinksInv' /\ Seldom
  BY <1>4, TelemetryAssumption, LinksTransfer
<1>5. ASSUME NEW l \in Links, Flip(l) PROVE LinksInv' /\ Seldom BY <1>5, LinksFlip
<1>6. CASE TelemetryTick BY <1>6, LinksTick
<1>7. CASE TelemetryRestart BY <1>7, LinksRestart
<1> QED BY <1>1, <1>2, <1>3, <1>4, <1>5, <1>6, <1>7 DEF TelemetryNext

(* Nothing that was measured over a link that is gone is taken for true once
   the link has been gone for longer than samples may be old: what fails leaves
   the times of the samples alone and only a link that is up gives new ones
   (telemetry/store.py: record_edge_failure, edge_view). *)
THEOREM GoneLinksAreForgotten == TelemetrySpec => []GoneIsNotMeasured
<1>1. LinksInv => GoneIsNotMeasured
  <2> SUFFICES ASSUME LinksInv, NEW l \in Links, ~up[l], downFor[l] > StaleAfter
               PROVE  ~LatencyIsMeasured(l) /\ ~ModelIsMeasured(l)
    BY DEF GoneIsNotMeasured
  <2>1. latency[l] >= downFor[l] /\ model[l] >= downFor[l] BY DEF LinksInv, SamplesAreOld
  <2>2. latency[l] \in Nat /\ model[l] \in Nat /\ downFor[l] \in Nat
    BY DEF LinksInv, TelemetryShape, Edges
  <2>3. latency[l] > StaleAfter /\ model[l] > StaleAfter BY <2>1, <2>2, OldIsLast
  <2> QED BY <2>2, <2>3, OldIsLast DEF LatencyIsMeasured, ModelIsMeasured, Fresh
<1> QED BY <1>1, LinksInit, LinksStep, PTL DEF TelemetrySpec

(* The loop, which waits for the lock while others measure, and which forgets
   in a restart when it measured last, never measures a link within
   MeasureEvery of the last time that anybody did
   (telemetry/service.py: _bandwidth_probe_due, probe_edge). *)
THEOREM LinksAreMeasuredSeldom == TelemetrySpec => MeasuredSeldom
<1>1. LinksInv /\ [TelemetryNext]_telemetryVars =>
        \A q \in Probers :
          prober[q].at = "wait" /\ prober'[q].at = "measure" /\ ~prober[q].force =>
            measured[prober[q].link] >= MeasureEvery
  BY LinksStep DEF Seldom
<1> QED BY <1>1, LinksInit, LinksStep, PTL DEF TelemetrySpec, MeasuredSeldom

(* Ages end at Old, or say that there is no sample; the lock is with the probers
   that wait for it or measure, each once, and only the first may measure. *)
Ages(f) == f \in [Links -> Age]
AgesOK ==
    /\ Ages(downFor) /\ Ages(latency) /\ Ages(model) /\ Ages(probed) /\ Ages(measured)
    /\ sinceRound \in 0 .. Old /\ incidents \in 0 .. MaxIncidents

AtLock(q) == prober[q].at \in {"wait", "measure"}
LockInv ==
    \/ lock = <<>> /\ \A s \in Probers : ~AtLock(s)
    \/ \E q \in Probers : lock = <<q>> /\ \A s \in Probers : AtLock(s) <=> s = q
    \/ \E q, r \in Probers :
         /\ q # r /\ lock = <<q, r>> /\ prober[r].at = "wait"
         /\ \A s \in Probers : AtLock(s) <=> s \in {q, r}

LEMMA AgesAre ==
  /\ 0 \in Age /\ Unavailable \in Age /\ Old \in 0 .. Old
  /\ \A a \in Age : Older(a) \in Age
  /\ \A a \in 0 .. Old : Older(a) \in 0 .. Old
<1>1. PICK o \in Nat : o = Old BY OldIsLast
<1>2. Age = 0 .. o + 1 /\ Unavailable = o + 1 BY <1>1 DEF Age, Unavailable
<1>3. \A a : Older(a) = IF a < o THEN a + 1 ELSE a BY <1>1 DEF Older
<1> QED BY <1>1, <1>2, <1>3

LEMMA AgesStart == TelemetryInit => AgesOK /\ LockInv
<1> SUFFICES ASSUME TelemetryInit PROVE AgesOK /\ LockInv OBVIOUS
<1>1. AgesOK BY AgesAre, TelemetryAssumption DEF TelemetryInit, AgesOK, Ages
<1>2. LockInv BY NoProbeIsAProbe DEF TelemetryInit, LockInv, AtLock
<1> QED BY <1>1, <1>2

(* One age set to zero, or what it was. *)
LEMMA OneAge ==
  ASSUME NEW f, NEW g, Ages(f), NEW l, NEW a, a = 0 \/ a = f[l], g = [f EXCEPT ![l] = a]
  PROVE  Ages(g)
<1>1. f \in [Links -> Age] BY DEF Ages
<1>2. CASE l \in Links
  <2>1. f[l] \in Age BY <1>1, <1>2
  <2>2. a \in Age BY <2>1, AgesAre
  <2> QED BY <1>1, <1>2, <2>2 DEF Ages
<1>3. CASE l \notin Links BY <1>1, <1>3 DEF Ages
<1> QED BY <1>2, <1>3

LEMMA AgesStep == AgesOK /\ [TelemetryNext]_telemetryVars => AgesOK'
<1> SUFFICES ASSUME AgesOK, [TelemetryNext]_telemetryVars PROVE AgesOK' OBVIOUS
<1> USE DEF edges, world
<1>1. /\ Ages(downFor) /\ Ages(latency) /\ Ages(model) /\ Ages(probed) /\ Ages(measured)
      /\ sinceRound \in 0 .. Old /\ incidents \in 0 .. MaxIncidents
      /\ MaxIncidents \in Nat
  BY TelemetryAssumption DEF AgesOK
<1>2. ASSUME UNCHANGED <<downFor, latency, model, probed, measured, sinceRound, incidents>> PROVE AgesOK'
  BY <1>1, <1>2 DEF AgesOK, Ages, Age, Unavailable, Old
<1>3. ASSUME /\ Ages(downFor') /\ Ages(latency') /\ Ages(model') /\ Ages(probed') /\ Ages(measured')
             /\ sinceRound' \in 0 .. Old /\ incidents' \in 0 .. MaxIncidents
      PROVE  AgesOK'
  BY <1>3 DEF AgesOK, Ages, Age, Unavailable, Old
<1>4. CASE UNCHANGED telemetryVars BY <1>2, <1>4 DEF telemetryVars
<1>5. ASSUME NEW q \in Probers, Ping(q) PROVE AgesOK'
  <2>1. PICK l : l = prober[q].link OBVIOUS
  <2>2. PICK a : a = IF up[l] THEN 0 ELSE latency[l] OBVIOUS
  <2>i. latency' = [latency EXCEPT ![l] = a] BY <1>5, <2>1, <2>2 DEF Ping, FailureAge
  <2>3. Ages(latency') BY <1>1, <2>2, <2>i, OneAge
  <2>4. UNCHANGED <<downFor, model, probed, measured, sinceRound, incidents>> BY <1>5 DEF Ping
  <2> QED BY <1>1, <1>3, <2>3, <2>4
<1>6. ASSUME NEW q \in Probers, Lock(q) PROVE AgesOK' BY <1>2, <1>6 DEF Lock
<1>7. ASSUME NEW q \in Probers, Measure(q) PROVE AgesOK'
  <2>1. PICK l : l = prober[q].link OBVIOUS
  <2>2. \/ /\ model' = [model EXCEPT ![l] = 0] /\ probed' = [probed EXCEPT ![l] = 0]
           /\ measured' = [measured EXCEPT ![l] = 0]
        \/ model' = [model EXCEPT ![l] = model[l]] /\ UNCHANGED <<probed, measured>>
    BY <1>7, <2>1 DEF Measure, Sampled, FailureAge
  <2>3. Ages(model') /\ Ages(probed') /\ Ages(measured') BY <1>1, <2>2, OneAge
  <2>4. UNCHANGED <<downFor, latency, sinceRound, incidents>> BY <1>7 DEF Measure
  <2> QED BY <1>1, <1>3, <2>3, <2>4
<1>8. CASE RunOnce
  <2>1. sinceRound' \in 0 .. Old BY <1>1, <1>8, OldIsLast DEF RunOnce
  <2> QED BY <1>1, <1>3, <1>8, <2>1 DEF RunOnce
<1>9. CASE ProbeNext BY <1>2, <1>9 DEF ProbeNext
<1>10. ASSUME NEW l \in Asked, Refresh(l) PROVE AgesOK' BY <1>2, <1>10 DEF Refresh
<1>11. ASSUME NEW l \in Asked, Transfer(l) PROVE AgesOK'
  <2>1. Ages(model') BY <1>1, <1>11, OneAge DEF Transfer
  <2> QED BY <1>1, <1>3, <1>11, <2>1 DEF Transfer
<1>12. ASSUME NEW l \in Links, Flip(l) PROVE AgesOK'
  <2>1. Ages(downFor') BY <1>1, <1>12, OneAge DEF Flip
  <2>2. incidents' \in 0 .. MaxIncidents BY <1>1, <1>12 DEF Flip
  <2> QED BY <1>1, <1>3, <1>12, <2>1, <2>2 DEF Flip
<1>13. CASE TelemetryTick
  <2>1. ASSUME NEW f, Ages(f) PROVE Ages(AllOlder(f)) BY <2>1, AgesAre DEF Ages, AllOlder
  <2>2. Ages(downFor') BY <1>1, <1>13, AgesAre DEF Ages, TelemetryTick
  <2>3. sinceRound' \in 0 .. Old BY <1>1, <1>13, AgesAre DEF TelemetryTick
  <2> QED BY <1>1, <1>3, <1>13, <2>1, <2>2, <2>3 DEF TelemetryTick
<1>14. CASE TelemetryRestart
  <2>1. Ages(probed') BY <1>14, AgesAre DEF TelemetryRestart, Ages
  <2>2. sinceRound' \in 0 .. Old BY <1>14, AgesAre DEF TelemetryRestart
  <2>3. incidents' \in 0 .. MaxIncidents BY <1>1, <1>14 DEF TelemetryRestart
  <2> QED BY <1>1, <1>3, <1>14, <2>1, <2>2, <2>3 DEF TelemetryRestart
<1> QED BY <1>4, <1>5, <1>6, <1>7, <1>8, <1>9, <1>10, <1>11, <1>12, <1>13, <1>14
     DEF TelemetryNext

(* A prober that is not at the lock, and a step that leaves it so. *)
LEMMA LockStays ==
  ASSUME LockInv, UNCHANGED lock,
         \A s \in Probers : prober'[s] = prober[s] \/ (~AtLock(s) /\ ~AtLock(s)')
  PROVE  LockInv'
<1>1. \A s \in Probers : AtLock(s)' <=> AtLock(s) BY DEF AtLock
<1>2. ASSUME NEW q \in Probers, prober[q].at = "wait" PROVE prober'[q].at = "wait"
  BY <1>2 DEF AtLock
<1>3. CASE lock = <<>> /\ \A s \in Probers : ~AtLock(s) BY <1>1, <1>3 DEF LockInv
<1>4. CASE \E q \in Probers : lock = <<q>> /\ \A s \in Probers : AtLock(s) <=> s = q
  BY <1>1, <1>4 DEF LockInv
<1>5. CASE \E q, r \in Probers :
             /\ q # r /\ lock = <<q, r>> /\ prober[r].at = "wait"
             /\ \A s \in Probers : AtLock(s) <=> s \in {q, r}
  BY <1>1, <1>2, <1>5 DEF LockInv
<1> QED BY <1>3, <1>4, <1>5 DEF LockInv

LEMMA TwoInARow == ASSUME NEW S, NEW a \in S, NEW b \in S PROVE Append(<<a>>, b) = <<a, b>>
<1>1. <<a>> \in Seq(S) OBVIOUS
<1>2. Append(<<a>>, b) \in Seq(S) /\ Len(Append(<<a>>, b)) = 2 BY <1>1
<1>3. Append(<<a>>, b)[1] = a /\ Append(<<a>>, b)[2] = b BY <1>1
<1>4. PICK s : s = Append(<<a>>, b) OBVIOUS
<1>5. PICK t : t = <<a, b>> OBVIOUS
<1>6. t \in Seq(S) /\ Len(t) = 2 /\ t[1] = a /\ t[2] = b BY <1>5
<1>7. \A i \in 1 .. Len(s) : s[i] = t[i] BY <1>2, <1>3, <1>4, <1>6
<1> QED BY <1>2, <1>4, <1>5, <1>6, <1>7, SeqEqual

LEMMA LockIsTaken ==
  ASSUME LockInv, NEW q \in Probers, prober[q].at = "ping", prober'[q].at = "wait",
         \A s \in Probers : s # q => prober'[s] = prober[s], lock' = Append(lock, q)
  PROVE  LockInv'
<1>1. ~AtLock(q) /\ AtLock(q)' BY DEF AtLock
<1>2. \A s \in Probers : s # q => (AtLock(s)' <=> AtLock(s)) BY DEF AtLock
<1>3. CASE lock = <<>> /\ \A s \in Probers : ~AtLock(s)
  <2>1. lock' = <<q>> BY <1>3
  <2> QED BY <1>1, <1>2, <1>3, <2>1 DEF LockInv
<1>4. ASSUME NEW h \in Probers, lock = <<h>>, \A s \in Probers : AtLock(s) <=> s = h
      PROVE  LockInv'
  <2>i. h # q BY <1>1, <1>4
  <2>j. lock' = Append(lock, q) OBVIOUS
  <2>1. lock' = <<h, q>> BY <1>4, <2>j, TwoInARow
  <2>2. \A s \in Probers : AtLock(s)' <=> s \in {h, q} BY <1>1, <1>2, <1>4
  <2> QED BY <2>i, <2>1, <2>2 DEF LockInv
<1>5. ASSUME NEW h \in Probers, NEW r \in Probers, h # r, AtLock(h), AtLock(r) PROVE FALSE
  <2>1. h # q /\ r # q BY <1>1, <1>5
  <2> QED BY <1>5, <2>1 DEF Probers
<1> QED BY <1>3, <1>4, <1>5 DEF LockInv

(* Who waits first goes on to measure, or returns as who has measured does. *)
LEMMA LockIsUsed ==
  ASSUME LockInv, NEW q \in Probers, AtLock(q), prober[q].at = "wait" => Head(lock) = q,
         \A s \in Probers : s # q => prober'[s] = prober[s],
         \/ prober'[q].at = "measure" /\ lock' = lock
         \/ ~AtLock(q)' /\ lock' = Tail(lock)
  PROVE  LockInv'
<1>1. \A s \in Probers : s # q => (AtLock(s)' <=> AtLock(s)) BY DEF AtLock
<1>2. ASSUME NEW h \in Probers, lock = <<h>>, \A s \in Probers : AtLock(s) <=> s = h
      PROVE  LockInv'
  <2>1. h = q BY <1>2
  <2>2. CASE prober'[q].at = "measure" /\ lock' = lock
    <3>1. \A s \in Probers : AtLock(s)' <=> s = q BY <1>1, <1>2, <2>1, <2>2 DEF AtLock
    <3> QED BY <1>2, <2>1, <2>2, <3>1 DEF LockInv
  <2>3. CASE ~AtLock(q)' /\ lock' = Tail(lock)
    <3>1. lock' = <<>> BY <1>2, <2>3
    <3> QED BY <1>1, <1>2, <2>1, <2>3, <3>1 DEF LockInv
  <2> QED BY <2>2, <2>3
<1>3. ASSUME NEW h \in Probers, NEW r \in Probers, h # r, lock = <<h, r>>, prober[r].at = "wait",
             \A s \in Probers : AtLock(s) <=> s \in {h, r}
      PROVE  LockInv'
  <2>1. Head(lock) = h BY <1>3
  <2>2. q = h BY <1>3, <2>1
  <2>3. prober'[r] = prober[r] BY <1>3, <2>2
  <2>4. CASE prober'[q].at = "measure" /\ lock' = lock
    <3>1. \A s \in Probers : AtLock(s)' <=> s \in {q, r} BY <1>1, <1>3, <2>2, <2>4 DEF AtLock
    <3> QED BY <1>3, <2>2, <2>3, <2>4, <3>1 DEF LockInv
  <2>5. CASE ~AtLock(q)' /\ lock' = Tail(lock)
    <3>1. lock' = <<r>> BY <1>3, <2>5
    <3>2. \A s \in Probers : AtLock(s)' <=> s = r BY <1>1, <1>3, <2>2, <2>5
    <3> QED BY <3>1, <3>2 DEF LockInv
  <2> QED BY <2>4, <2>5
<1> QED BY <1>2, <1>3 DEF LockInv

LEMMA LockStep == TelemetryShape /\ LockInv /\ [TelemetryNext]_telemetryVars => LockInv'
<1> SUFFICES ASSUME TelemetryShape, LockInv, [TelemetryNext]_telemetryVars PROVE LockInv' OBVIOUS
<1>1. \A q \in Probers :
        prober[q] \in [at : {"idle", "ping", "wait", "measure"}, link : Links, force : BOOLEAN]
  BY DEF TelemetryShape
<1>2. ASSUME UNCHANGED <<prober, lock>> PROVE LockInv' BY <1>2, LockStays
<1>3. CASE UNCHANGED telemetryVars BY <1>2, <1>3 DEF telemetryVars
<1>4. ASSUME NEW q \in Probers, Ping(q) PROVE LockInv'
  <2>1. PICK x : x = [prober[q] EXCEPT !.at = "wait"] OBVIOUS
  <2>2. x \in [at : {"idle", "ping", "wait", "measure"}, link : Links, force : BOOLEAN] /\ x.at = "wait"
    BY <1>1, <2>1
  <2>3. CASE SetProber(q, x) /\ lock' = Append(lock, q)
    <3>1. prober'[q] = x /\ \A s \in Probers : s # q => prober'[s] = prober[s]
      BY <2>2, <2>3, SetProberKeeps
    <3> QED BY <1>4, <2>2, <2>3, <3>1, LockIsTaken DEF Ping
  <2>4. CASE SetProber(q, NoProbe) /\ lock' = lock
    <3>1. prober'[q] = NoProbe /\ \A s \in Probers : s # q => prober'[s] = prober[s]
      BY <2>4, NoProbeIsAProbe, SetProberKeeps
    <3>2. ~AtLock(q) /\ ~AtLock(q)' BY <1>4, <3>1, NoProbeIsAProbe DEF AtLock, Ping
    <3> QED BY <2>4, <3>1, <3>2, LockStays
  <2> QED BY <1>4, <2>1, <2>3, <2>4 DEF Ping, Return
<1>5. ASSUME NEW q \in Probers, Lock(q) PROVE LockInv'
  <2>1. PICK x : x = [prober[q] EXCEPT !.at = "measure"] OBVIOUS
  <2>2. x \in [at : {"idle", "ping", "wait", "measure"}, link : Links, force : BOOLEAN] /\ x.at = "measure"
    BY <1>1, <2>1
  <2>3. AtLock(q) /\ Head(lock) = q BY <1>5 DEF Lock, HasLock, AtLock
  <2>4. CASE SetProber(q, x) /\ lock' = lock
    <3>1. prober'[q] = x /\ \A s \in Probers : s # q => prober'[s] = prober[s]
      BY <2>2, <2>4, SetProberKeeps
    <3> QED BY <2>2, <2>3, <2>4, <3>1, LockIsUsed
  <2>5. CASE SetProber(q, NoProbe) /\ lock' = Tail(lock)
    <3>1. prober'[q] = NoProbe /\ \A s \in Probers : s # q => prober'[s] = prober[s]
      BY <2>5, NoProbeIsAProbe, SetProberKeeps
    <3>2. ~AtLock(q)' BY <3>1, NoProbeIsAProbe DEF AtLock
    <3> QED BY <2>3, <2>5, <3>1, <3>2, LockIsUsed
  <2> QED BY <1>5, <2>1, <2>4, <2>5 DEF Lock, Return
<1>6. ASSUME NEW q \in Probers, Measure(q) PROVE LockInv'
  <2>1. AtLock(q) /\ prober[q].at # "wait" BY <1>6 DEF Measure, AtLock
  <2>2. SetProber(q, NoProbe) /\ lock' = Tail(lock) BY <1>6 DEF Measure, Return
  <2>3. prober'[q] = NoProbe /\ \A s \in Probers : s # q => prober'[s] = prober[s]
    BY <2>2, NoProbeIsAProbe, SetProberKeeps
  <2>4. ~AtLock(q)' BY <2>3, NoProbeIsAProbe DEF AtLock
  <2> QED BY <2>1, <2>2, <2>3, <2>4, LockIsUsed
<1>7. CASE RunOnce BY <1>2, <1>7 DEF RunOnce
<1>8. ASSUME NEW q \in Probers, NEW l, NEW f, prober[q].at = "idle",
             SetProber(q, [at |-> "ping", link |-> l, force |-> f]), UNCHANGED lock
      PROVE  LockInv'
  <2>1. prober'[q].at = "ping" /\ \A s \in Probers : s # q => prober'[s] = prober[s]
    BY <1>8 DEF SetProber, TelemetryShape
  <2>2. ~AtLock(q) /\ ~AtLock(q)' BY <1>8, <2>1 DEF AtLock
  <2> QED BY <1>8, <2>1, <2>2, LockStays
<1>9. CASE ProbeNext
  <2>1. "loop" \in Probers BY DEF Probers
  <2> QED BY <1>8, <1>9, <2>1 DEF ProbeNext, LoopIdle
<1>10. ASSUME NEW l \in Asked, Refresh(l) PROVE LockInv'
  <2>1. "operator" \in Probers BY DEF Probers
  <2> QED BY <1>8, <1>10, <2>1 DEF Refresh
<1>11. ASSUME NEW l \in Asked, Transfer(l) PROVE LockInv' BY <1>2, <1>11 DEF Transfer
<1>12. ASSUME NEW l \in Links, Flip(l) PROVE LockInv' BY <1>2, <1>12 DEF Flip
<1>13. CASE TelemetryTick BY <1>2, <1>13 DEF TelemetryTick
<1>14. CASE TelemetryRestart
  <2>1. \A s \in Probers : ~AtLock(s)' BY <1>14, NoProbeIsAProbe DEF TelemetryRestart, AtLock
  <2> QED BY <1>14, <2>1 DEF TelemetryRestart, LockInv
<1> QED BY <1>3, <1>4, <1>5, <1>6, <1>7, <1>9, <1>10, <1>11, <1>12, <1>13, <1>14
     DEF TelemetryNext

LinksTypeInv == LinksInv /\ AgesOK /\ LockInv

LEMMA LinksTypes == TelemetrySpec => []LinksTypeInv
<1>1. TelemetryInit => LinksTypeInv BY LinksInit, AgesStart DEF LinksTypeInv
<1>2. LinksInv => TelemetryShape BY DEF LinksInv
<1>3. LinksTypeInv /\ [TelemetryNext]_telemetryVars => LinksTypeInv'
  BY <1>2, LinksStep, AgesStep, LockStep DEF LinksTypeInv
<1> QED BY <1>1, <1>3, PTL DEF TelemetrySpec

LEMMA LinksAreTyped == LinksTypeInv => TelemetryTypeOK
<1> SUFFICES ASSUME LinksTypeInv PROVE TelemetryTypeOK OBVIOUS
<1>1. LinksInv /\ AgesOK /\ LockInv BY DEF LinksTypeInv
<1>2. TelemetryShape BY <1>1 DEF LinksInv
<1>3. lock \in {<<>>} \cup {<<q>> : q \in Probers} \cup {<<q, r>> : q, r \in Probers}
  BY <1>1 DEF LockInv
<1>4. {downFor, latency, model, probed, measured} \subseteq [Links -> Age]
  BY <1>1 DEF AgesOK, Ages
<1> QED BY <1>1, <1>2, <1>3, <1>4 DEF TelemetryTypeOK, AgesOK, TelemetryShape

(* The loop and those who ask for a probe never measure a link at the same time,
   however the probes, restarts and losses of links interleave: their transfers
   would share the bandwidth that they measure
   (telemetry/service.py: _bandwidth_probe_lock in probe_edge). *)
THEOREM ProbersTakeTurns ==
  TelemetrySpec => [](\A q, r \in Probers :
                        prober[q].at = "measure" /\ prober[r].at = "measure" => q = r)
<1>1. LockInv => \A q, r \in Probers : prober[q].at = "measure" /\ prober[r].at = "measure" => q = r
  BY DEF LockInv, AtLock
<1>2. LinksTypeInv => LockInv BY DEF LinksTypeInv
<1> QED BY <1>1, <1>2, LinksTypes, PTL

(* ------------------------ Forecasts: they are numbers ------------------ *)

(* The sums of the first values of f. *)
SumsTo(f, g, k) ==
    \A i \in 0 .. k : g[i] = IF i = 0 THEN f[0] ELSE g[i - 1] + f[i]

LEMMA SumsAreNat ==
  ASSUME NEW f \in [Nat -> Nat], NEW k \in Nat, NEW g, SumsTo(f, g, k)
  PROVE  \A i \in 0 .. k : g[i] \in Nat
<1> DEFINE Bad == {i \in 0 .. k : g[i] \notin Nat}
<1> SUFFICES ASSUME Bad # {} PROVE FALSE OBVIOUS
<1>1. PICK i \in Bad : \A j \in Bad : i <= j
  <2>1. Bad \subseteq Nat OBVIOUS
  <2> QED BY <2>1, LeastNumber
<1>2. i \in 0 .. k /\ g[i] = IF i = 0 THEN f[0] ELSE g[i - 1] + f[i] BY <1>1 DEF SumsTo
<1>3. i # 0 BY <1>1, <1>2
<1>4. i - 1 \in 0 .. k /\ ~(i <= i - 1) BY <1>2, <1>3
<1>5. g[i - 1] \in Nat /\ f[i] \in Nat BY <1>1, <1>2, <1>4
<1> QED BY <1>1, <1>2, <1>3, <1>5

LEMMA SumsAgreeTo ==
  ASSUME NEW f \in [Nat -> Nat], NEW k \in Nat, NEW g, SumsTo(f, g, k),
         NEW l \in Nat, NEW h, SumsTo(f, h, l), k <= l
  PROVE  \A i \in 0 .. k : g[i] = h[i]
<1> DEFINE Bad == {i \in 0 .. k : g[i] # h[i]}
<1> SUFFICES ASSUME Bad # {} PROVE FALSE OBVIOUS
<1>1. PICK i \in Bad : \A j \in Bad : i <= j
  <2>1. Bad \subseteq Nat OBVIOUS
  <2> QED BY <2>1, LeastNumber
<1>2. i \in 0 .. k /\ i \in 0 .. l BY <1>1
<1>3. /\ g[i] = IF i = 0 THEN f[0] ELSE g[i - 1] + f[i]
      /\ h[i] = IF i = 0 THEN f[0] ELSE h[i - 1] + f[i]
  BY <1>2 DEF SumsTo
<1>4. i # 0 BY <1>1, <1>3
<1>5. i - 1 \in 0 .. k /\ ~(i <= i - 1) BY <1>2, <1>4
<1>6. g[i - 1] = h[i - 1] BY <1>1, <1>5
<1> QED BY <1>1, <1>3, <1>6

LEMMA SumsToExist ==
  ASSUME NEW f \in [Nat -> Nat], NEW k \in Nat PROVE \E g \in [0 .. k -> Nat] : SumsTo(f, g, k)
<1> DEFINE Missing == {i \in Nat : ~\E g \in [0 .. i -> Nat] : SumsTo(f, g, i)}
<1> SUFFICES ASSUME Missing # {} PROVE FALSE OBVIOUS
<1>1. PICK i \in Missing : \A j \in Missing : i <= j
  <2>1. Missing \subseteq Nat OBVIOUS
  <2> QED BY <2>1, LeastNumber
<1>2. i \in Nat /\ ~\E g \in [0 .. i -> Nat] : SumsTo(f, g, i) BY <1>1
<1>3. i # 0
  <2> SUFFICES ASSUME i = 0 PROVE FALSE OBVIOUS
  <2>1. PICK g : g = [j \in 0 .. 0 |-> f[0]] OBVIOUS
  <2>2. g \in [0 .. i -> Nat] /\ SumsTo(f, g, i) BY <2>1 DEF SumsTo
  <2> QED BY <1>2, <2>2
<1>4. i - 1 \in Nat /\ ~(i <= i - 1) BY <1>2, <1>3
<1>5. PICK g \in [0 .. i - 1 -> Nat] : SumsTo(f, g, i - 1) BY <1>1, <1>4
<1>6. PICK h : h = [j \in 0 .. i |-> IF j = i THEN g[i - 1] + f[i] ELSE g[j]] OBVIOUS
<1>7. g[i - 1] \in Nat /\ f[i] \in Nat BY <1>2, <1>4, <1>5
<1>8. h \in [0 .. i -> Nat]
  <2>1. \A j \in 0 .. i : j # i => g[j] \in Nat
    <3>1. i \in Nat BY <1>2
    <3>2. \A j \in 0 .. i : j # i => j \in 0 .. i - 1 BY <3>1
    <3> QED BY <1>5, <3>2
  <2>2. PICK x \in Nat, y \in Nat : x = g[i - 1] /\ y = f[i] BY <1>7
  <2>3. PICK a \in Nat : a = x + y OBVIOUS
  <2>4. h = [j \in 0 .. i |-> IF j = i THEN a ELSE g[j]] BY <1>6, <2>2, <2>3
  <2> QED BY <2>1, <2>3, <2>4
<1>9. \A j \in 0 .. i - 1 : h[j] = g[j] BY <1>2, <1>6
<1>10. ASSUME NEW j \in 0 .. i PROVE h[j] = IF j = 0 THEN f[0] ELSE h[j - 1] + f[j]
  <2>1. CASE j = i
    <3>1. h[j] = g[i - 1] + f[i] /\ h[i - 1] = g[i - 1] BY <1>2, <1>4, <1>6, <1>9, <2>1
    <3> QED BY <1>3, <2>1, <3>1
  <2>2. CASE j # i
    <3>1. j \in 0 .. i - 1 /\ (j # 0 => j - 1 \in 0 .. i - 1) BY <1>2, <2>2
    <3>2. g[j] = IF j = 0 THEN f[0] ELSE g[j - 1] + f[j] BY <1>5, <3>1 DEF SumsTo
    <3> QED BY <1>9, <3>1, <3>2
  <2> QED BY <2>1, <2>2
<1>11. SumsTo(f, h, i) BY <1>10 DEF SumsTo
<1> QED BY <1>2, <1>8, <1>11

LEMMA SumsOfAllExist ==
  ASSUME NEW f \in [Nat -> Nat]
  PROVE  \E g : g = [k \in Nat |-> IF k = 0 THEN f[0] ELSE g[k - 1] + f[k]]
<1> DEFINE to(k) == CHOOSE g \in [0 .. k -> Nat] : SumsTo(f, g, k)
           g == [k \in Nat |-> to(k)[k]]
<1>1. \A k \in Nat : to(k) \in [0 .. k -> Nat] /\ SumsTo(f, to(k), k) BY SumsToExist
<1> HIDE DEF to
<1>2. ASSUME NEW k \in Nat PROVE g[k] = IF k = 0 THEN f[0] ELSE g[k - 1] + f[k]
  <2>1. k \in 0 .. k OBVIOUS
  <2>2. to(k)[k] = IF k = 0 THEN f[0] ELSE to(k)[k - 1] + f[k] BY <1>1, <2>1 DEF SumsTo
  <2>3. CASE k = 0 BY <2>2, <2>3
  <2>4. CASE k # 0
    <3>1. k - 1 \in Nat /\ k - 1 <= k /\ k - 1 \in 0 .. k - 1 BY <2>4
    <3>2. PICK l \in Nat : l = k - 1 BY <3>1
    <3>3. SumsTo(f, to(l), l) /\ SumsTo(f, to(k), k) /\ l <= k /\ l \in 0 .. l
      BY <1>1, <3>1, <3>2
    <3>4. \A i \in 0 .. l : to(l)[i] = to(k)[i] BY <3>3, SumsAgreeTo
    <3>5. to(k - 1)[k - 1] = to(k)[k - 1] BY <3>2, <3>3, <3>4
    <3>6. g[k - 1] = to(k - 1)[k - 1] BY <3>1
    <3> QED BY <2>2, <2>4, <3>5, <3>6
  <2> QED BY <2>3, <2>4
<1> HIDE DEF g
<1>3. g = [k \in Nat |-> g[k]] BY DEF g
<1>4. g = [k \in Nat |-> IF k = 0 THEN f[0] ELSE g[k - 1] + f[k]] BY <1>2, <1>3
<1> QED BY <1>4

LEMMA DecisionConstants ==
  /\ Places \subseteq Nat /\ IsFiniteSet(Places)
  /\ \A tr \in Traces : \A n \in Places : IsSeries(tr[n])
  /\ \A n \in Places : Price[n] \in Nat
  /\ \A m \in Metrics : Weight[m] \in Nat
  /\ TransferTime \in Nat /\ Egress \in Nat /\ Network \in Nat /\ PauseTime \in Nat
  /\ ResumeTime \in Nat /\ MaxPauseWindow \in Nat /\ CarbonStaleAfter \in Nat
  /\ MaximumChange \in Nat /\ Deadline \in Nat /\ Work \in Nat
  /\ Horizon \in Nat /\ MultiplierBound \in Nat /\ RollingWindow \in Nat /\ RollingWindow # 0
  /\ CostCap \in Nat /\ CostCap # 0 /\ MaxTicks \in Nat /\ MaxClockRestarts \in Nat
  /\ IdleCandidates \subseteq Nat /\ IsFiniteSet(IdleCandidates) /\ Confidences \subseteq Nat
BY DecisionAssumption

LEMMA Between ==
  ASSUME NEW a \in Int, NEW b \in Int
  PROVE  /\ AtMost(a, b) \in Int /\ AtMost(a, b) <= a /\ AtMost(a, b) <= b
         /\ AtMost(a, b) \in {a, b}
         /\ AtLeast(a, b) \in Int /\ AtLeast(a, b) >= a /\ AtLeast(a, b) >= b
         /\ AtLeast(a, b) \in {a, b}
BY DEF AtMost, AtLeast

LEMMA Clamped ==
  ASSUME NEW a \in Int, NEW low \in Int, NEW high \in Int
  PROVE  /\ Clamp(a, low, high) \in Int /\ Clamp(a, low, high) >= low
         /\ low <= high => Clamp(a, low, high) <= high
BY DEF Clamp, AtMost, AtLeast

LEMMA PredictedIsNat ==
  ASSUME NEW older \in Nat, NEW last \in Nat, NEW hours \in Int
  PROVE  Predicted(older, last, hours) \in Nat
<1>1. PICK s : s = Clamp(last - older, -MaximumChange, MaximumChange) OBVIOUS
<1>2. s \in Int BY <1>1, Clamped, DecisionConstants
<1>3. PICK v : v = last + s * hours OBVIOUS
<1>4. v \in Int BY <1>2, <1>3
<1>5. PICK low : low = AtLeast(0, AtMost(older, last) - MaximumChange) OBVIOUS
<1>6. low \in Int /\ low >= 0
  <2>1. AtMost(older, last) - MaximumChange \in Int BY Between, DecisionConstants
  <2> QED BY <1>5, <2>1, Between
<1>7. PICK high : high = AtLeast(older, last) + MaximumChange OBVIOUS
<1>8. high \in Int BY <1>7, Between, DecisionConstants
<1>9. Predicted(older, last, hours) = Clamp(v, low, high)
  BY <1>1, <1>3, <1>5, <1>7 DEF Predicted
<1>10. Clamp(v, low, high) \in Int /\ Clamp(v, low, high) >= low BY <1>4, <1>6, <1>8, Clamped
<1> QED BY <1>6, <1>9, <1>10

LEMMA AverageIsNat ==
  ASSUME NEW older \in Nat, NEW last \in Nat, NEW from \in Int, NEW duration \in Nat
  PROVE  Average(older, last, from, duration) \in Nat
<1> DEFINE sum[k \in Nat] == IF k = 0 THEN Predicted(older, last, from)
                                      ELSE sum[k - 1] + Predicted(older, last, from + k)
<1>1. Average(older, last, from, duration) = sum[duration] * (Unit \div (duration + 1))
  BY DEF Average
<1>2. PICK f : f = [k \in Nat |-> Predicted(older, last, from + k)] OBVIOUS
<1>3. f \in [Nat -> Nat] BY <1>2, PredictedIsNat
<1>4. f[0] = Predicted(older, last, from)
  <2>1. from + 0 = from OBVIOUS
  <2> QED BY <1>2, <2>1
<1>5. \A k \in Nat : f[k] = Predicted(older, last, from + k) BY <1>2
<1>6. PICK g : g = [k \in Nat |-> IF k = 0 THEN f[0] ELSE g[k - 1] + f[k]]
  BY <1>3, SumsOfAllExist
<1>7. g = [k \in Nat |-> IF k = 0 THEN Predicted(older, last, from)
                         ELSE g[k - 1] + Predicted(older, last, from + k)]
  BY <1>4, <1>5, <1>6
<1>8. sum = [k \in Nat |-> IF k = 0 THEN Predicted(older, last, from)
                           ELSE sum[k - 1] + Predicted(older, last, from + k)]
  BY <1>7
<1> HIDE DEF sum
<1>9. SumsTo(f, sum, duration) BY <1>4, <1>5, <1>8 DEF SumsTo
<1>10. sum[duration] \in Nat BY <1>3, <1>9, SumsAreNat
<1>11. Unit \div (duration + 1) \in Nat BY DEF Unit
<1> QED BY <1>1, <1>10, <1>11

(* Of a series and a time, the samples that count. *)
LEMMA LatestSample ==
  ASSUME NEW series, IsSeries(series), NEW hr \in Nat, NEW latest,
         latest = Max(Known(series, hr))
  PROVE  /\ latest \in Nat /\ latest <= hr /\ series[latest] \in Nat
         /\ latest \in DOMAIN series
         /\ latest # 0 => latest - 1 \in DOMAIN series /\ series[latest - 1] \in Nat
<1>1. PICK S : S = Known(series, hr) OBVIOUS
<1>2. S \subseteq Nat /\ 0 \in S /\ \A x \in S : x <= hr BY <1>1 DEF Known, IsSeries
<1>3. latest \in S BY <1>1, <1>2, MaxOfBounded
<1> QED BY <1>1, <1>3 DEF Known, IsSeries

LEMMA ForecastIsNat ==
  ASSUME NEW series, IsSeries(series), NEW hr \in Nat, NEW start \in Nat, NEW duration \in Nat
  PROVE  Forecast(series, hr, start, duration) \in Nat
<1>1. PICK latest : latest = Max(Known(series, hr)) OBVIOUS
<1>2. /\ latest \in Nat /\ series[latest] \in Nat
      /\ latest # 0 => series[latest - 1] \in Nat
  BY <1>1, LatestSample
<1>3. CASE hr - latest > CarbonStaleAfter \/ latest = 0
  <2>1. Forecast(series, hr, start, duration) = Unit * series[latest]
    BY <1>1, <1>3 DEF Forecast
  <2> QED BY <1>2, <2>1 DEF Unit
<1>4. CASE ~(hr - latest > CarbonStaleAfter \/ latest = 0)
  <2>1. Forecast(series, hr, start, duration)
          = Average(series[latest - 1], series[latest], start - latest, duration)
    BY <1>1, <1>4 DEF Forecast
  <2>2. start - latest \in Int BY <1>2
  <2>3. latest # 0 BY <1>4
  <2>4. series[latest - 1] \in Nat BY <1>2, <2>3
  <2> QED BY <1>2, <2>1, <2>2, <2>4, AverageIsNat
<1> QED BY <1>3, <1>4

(* A forecast depends on what is known only. *)
LEMMA ForecastOfTheKnown ==
  ASSUME NEW series, IsSeries(series), NEW hr \in Nat, NEW other,
         DOMAIN other = DOMAIN series,
         \A k \in DOMAIN series : k <= hr => other[k] = series[k],
         NEW start, NEW duration
  PROVE  Forecast(other, hr, start, duration) = Forecast(series, hr, start, duration)
<1>1. PICK latest : latest = Max(Known(series, hr)) OBVIOUS
<1>2. /\ latest \in Nat /\ latest <= hr /\ latest \in DOMAIN series
      /\ latest # 0 => latest - 1 \in DOMAIN series
  BY <1>1, LatestSample
<1>3. Known(other, hr) = Known(series, hr) BY DEF Known
<1>4. other[latest] = series[latest] /\ (latest # 0 => other[latest - 1] = series[latest - 1])
  BY <1>2
<1>5. CASE hr - latest > CarbonStaleAfter \/ latest = 0
  BY <1>1, <1>3, <1>4, <1>5 DEF Forecast
<1>6. CASE ~(hr - latest > CarbonStaleAfter \/ latest = 0)
  BY <1>1, <1>3, <1>4, <1>6 DEF Forecast
<1> QED BY <1>5, <1>6

(* ------------------ Forecasts: only of what is known ------------------ *)

LEMMA FiniteIsBounded ==
  ASSUME NEW S, S \subseteq Nat, IsFiniteSet(S) PROVE \E b \in Nat : \A x \in S : x <= b
<1> DEFINE Bounded(T) == \E b \in Nat : \A x \in T : x <= b
           Bad == {k \in Nat : \E T \in SUBSET S : Cardinality(T) = k /\ ~Bounded(T)}
<1> SUFFICES ASSUME ~Bounded(S) PROVE FALSE OBVIOUS
<1>1. Cardinality(S) \in Bad
  <2>1. Cardinality(S) \in Nat BY FS_CardinalityType
  <2> QED BY <2>1
<1>2. PICK k \in Bad : \A j \in Bad : k <= j
  <2>1. Bad \subseteq Nat OBVIOUS
  <2> QED BY <1>1, <2>1, LeastNumber
<1>3. PICK T \in SUBSET S : Cardinality(T) = k /\ ~Bounded(T) BY <1>2
<1>4. IsFiniteSet(T) BY <1>3, FS_Subset
<1>5. PICK x : x \in T BY <1>3
<1>6. x \in Nat /\ IsFiniteSet(T \ {x}) /\ Cardinality(T \ {x}) = k - 1
  BY <1>3, <1>4, <1>5, FS_RemoveElement
<1>7. Cardinality(T \ {x}) \in Nat BY <1>6, FS_CardinalityType
<1>8. k \in Nat /\ k - 1 \in Nat /\ ~(k <= k - 1) BY <1>2, <1>6, <1>7
<1>9. Bounded(T \ {x})
  <2>1. k - 1 \notin Bad BY <1>2, <1>8
  <2>2. T \ {x} \in SUBSET S OBVIOUS
  <2> QED BY <1>6, <1>8, <2>1, <2>2
<1>10. PICK b \in Nat : \A y \in T \ {x} : y <= b BY <1>9
<1>11. PICK c \in Nat : c = b + x BY <1>6, <1>10
<1>12. \A y \in T : y <= c
  <2> SUFFICES ASSUME NEW y \in T PROVE y <= c OBVIOUS
  <2>1. y \in Nat OBVIOUS
  <2>2. y = x \/ y <= b BY <1>10
  <2> QED BY <1>6, <1>10, <1>11, <2>1, <2>2
<1> QED BY <1>3, <1>11, <1>12

(* Every place in the order has an element. *)
LEMMA AscendingIsIn ==
  ASSUME NEW S, S \subseteq Nat, IsFiniteSet(S), NEW i \in 1 .. Cardinality(S)
  PROVE  Ascending(S)[i] \in S
<1> DEFINE Below(v) == {y \in S : y <= v}
           High == {v \in Nat : Cardinality(Below(v)) >= i}
<1>1. \A v \in Nat : IsFiniteSet(Below(v)) /\ Cardinality(Below(v)) \in Nat
  <2> TAKE v \in Nat
  <2>1. IsFiniteSet(Below(v)) BY FS_Subset
  <2> QED BY <2>1, FS_CardinalityType
<1>2. i \in Nat /\ i # 0 /\ Cardinality(S) \in Nat /\ i <= Cardinality(S) BY FS_CardinalityType
<1>3. PICK v \in High : \A w \in High : v <= w
  <2>1. PICK b \in Nat : \A x \in S : x <= b BY FiniteIsBounded
  <2>2. Below(b) = S BY <2>1
  <2>3. b \in High BY <1>2, <2>1, <2>2
  <2>4. High \subseteq Nat OBVIOUS
  <2> QED BY <2>3, <2>4, LeastNumber
<1>4. v \in Nat /\ Cardinality(Below(v)) >= i /\ IsFiniteSet(Below(v)) BY <1>1, <1>3
<1>5. Cardinality(Below(v) \ {v}) < i
  <2>1. CASE v = 0
    <3>1. Below(v) \ {v} = {}
      <4>1. \A y \in Nat : y <= 0 => y = 0 OBVIOUS
      <4> QED BY <2>1, <4>1
    <3> QED BY <1>2, <3>1, FS_EmptySet
  <2>2. CASE v # 0
    <3>1. v - 1 \in Nat /\ ~(v <= v - 1) BY <1>4, <2>2
    <3>2. Below(v) \ {v} = Below(v - 1)
      <4>1. \A y \in Nat : (y <= v /\ y # v) <=> y <= v - 1 BY <1>4
      <4> QED BY <4>1
    <3>3. PICK u \in Nat : u = v - 1 BY <3>1
    <3>4. u \notin High BY <1>3, <3>1, <3>3
    <3>5. PICK c \in Nat : c = Cardinality(Below(u)) BY <1>1
    <3>6. ~(c >= i) BY <3>4, <3>5
    <3> QED BY <1>2, <3>2, <3>3, <3>5, <3>6
  <2> QED BY <2>1, <2>2
<1>6. Cardinality(Below(v) \ {v}) = IF v \in Below(v) THEN Cardinality(Below(v)) - 1
                                    ELSE Cardinality(Below(v))
  BY <1>4, FS_RemoveElement
<1>7. v \in S /\ Cardinality(Below(v)) = i
  <2>1. PICK c \in Nat : c = Cardinality(Below(v)) BY <1>1, <1>4
  <2>2. v \in Below(v) /\ c = i BY <1>2, <1>4, <1>5, <1>6, <2>1
  <2> QED BY <2>1, <2>2
<1>8. \E x \in S : Cardinality({y \in S : y <= x}) = i BY <1>7
<1> QED BY <1>8 DEF Ascending

LEMMA AscendingIsASeq ==
  ASSUME NEW S, S \subseteq Nat, IsFiniteSet(S)
  PROVE  /\ Cardinality(S) \in Nat
         /\ Ascending(S) \in [1 .. Cardinality(S) -> S]
<1>1. Cardinality(S) \in Nat BY FS_CardinalityType
<1>2. Ascending(S) = [i \in 1 .. Cardinality(S) |-> Ascending(S)[i]] BY DEF Ascending
<1> QED BY <1>1, <1>2, AscendingIsIn

(* What is true of the task and its node whenever it is decided about. *)
DecisionShape ==
    /\ trace \in Traces /\ hour \in [Places -> Nat] /\ place \in Places
    /\ work \in Nat /\ spent \in Nat

(* The parts of the estimates. *)
Idles == {i \in IdleCandidates : MayPauseFor(i)}
Affordable(tr, d) == {n \in d : spent + MigrateTo(tr, hour[place], n).cost <= CostCap}
Pauses(tr) ==
    [i \in DOMAIN Ascending(Idles) |-> PauseFor(tr, hour[place], Ascending(Idles)[i])]
Moves(tr, d) ==
    [i \in DOMAIN Ascending(Affordable(tr, d)) |->
        MigrateTo(tr, hour[place], Ascending(Affordable(tr, d))[i])]

LEMMA EstimateParts ==
  ASSUME NEW tr, NEW d
  PROVE  Estimates(tr, d) = <<Continue(tr, hour[place])>> \o Pauses(tr) \o Moves(tr, d)
BY DEF Estimates, Pauses, Moves, Idles, Affordable

LEMMA IdlesAreNumbers ==
  /\ Idles \subseteq Nat /\ IsFiniteSet(Idles)
BY DecisionConstants, FS_Subset DEF Idles

LEMMA AffordableIsSome ==
  ASSUME NEW tr, NEW d, d \subseteq Places
  PROVE  /\ Affordable(tr, d) \subseteq d
         /\ Affordable(tr, d) \subseteq Nat /\ IsFiniteSet(Affordable(tr, d))
<1>1. Affordable(tr, d) \subseteq d BY DEF Affordable
<1>2. Affordable(tr, d) \subseteq Places BY <1>1
<1> QED BY <1>1, <1>2, DecisionConstants, FS_Subset

(* The same up to now. *)
SameSoFar(tr) ==
    \A n \in Places : /\ DOMAIN tr[n] = DOMAIN trace[n]
                      /\ \A k \in DOMAIN trace[n] : k <= hour[place] => tr[n][k] = trace[n][k]

LEMMA SameForecast ==
  ASSUME DecisionShape, NEW tr, SameSoFar(tr), NEW n \in Places, NEW start, NEW duration
  PROVE  Forecast(tr[n], hour[place], start, duration)
           = Forecast(trace[n], hour[place], start, duration)
<1>1. IsSeries(trace[n]) BY DecisionConstants DEF DecisionShape
<1>2. hour[place] \in Nat BY DEF DecisionShape
<1>3. /\ DOMAIN tr[n] = DOMAIN trace[n]
      /\ \A k \in DOMAIN trace[n] : k <= hour[place] => tr[n][k] = trace[n][k]
  BY DEF SameSoFar
<1> QED BY <1>1, <1>2, <1>3, ForecastOfTheKnown

LEMMA SameEstimates ==
  ASSUME DecisionShape, NEW tr, SameSoFar(tr), NEW d, d \subseteq Places
  PROVE  Estimates(tr, d) = Estimates(trace, d)
<1> DEFINE hr == hour[place]
<1>1. \A n \in Places : \A s, t : Forecast(tr[n], hr, s, t) = Forecast(trace[n], hr, s, t)
  BY SameForecast
<1>2. place \in Places BY DEF DecisionShape
<1> HIDE DEF hr
<1>3. Continue(tr, hr) = Continue(trace, hr) BY <1>1, <1>2 DEF Continue
<1>4. \A i : PauseFor(tr, hr, i) = PauseFor(trace, hr, i) BY <1>1, <1>2 DEF PauseFor
<1>5. \A n \in Places : MigrateTo(tr, hr, n) = MigrateTo(trace, hr, n)
  BY <1>1, <1>2 DEF MigrateTo
<1>6. Pauses(tr) = Pauses(trace) BY <1>4 DEF Pauses, hr
<1>7. Affordable(tr, d) = Affordable(trace, d) BY <1>5 DEF Affordable, hr
<1>8. Moves(tr, d) = Moves(trace, d)
  <2>1. PICK a : a = Affordable(trace, d) OBVIOUS
  <2>2. a \subseteq Places /\ a \subseteq Nat /\ IsFiniteSet(a) BY <2>1, AffordableIsSome
  <2>3. PICK s : s = Ascending(a) OBVIOUS
  <2>4. \A i \in DOMAIN s : s[i] \in Places BY <2>2, <2>3, AscendingIsASeq
  <2>5. Moves(tr, d) = [i \in DOMAIN s |-> MigrateTo(tr, hr, s[i])]
    BY <1>7, <2>1, <2>3 DEF Moves, hr
  <2>6. Moves(trace, d) = [i \in DOMAIN s |-> MigrateTo(trace, hr, s[i])]
    BY <2>1, <2>3 DEF Moves, hr
  <2> QED BY <1>5, <2>4, <2>5, <2>6
<1>9. Continue(tr, hour[place]) = Continue(trace, hour[place]) BY <1>3 DEF hr
<1> QED BY <1>6, <1>8, <1>9, EstimateParts

LEMMA ShapeHasNoForesight == DecisionShape => NoForesight
<1> SUFFICES ASSUME DecisionShape, NEW tr \in Traces
             PROVE  LET other == [n \in Places |-> [k \in DOMAIN trace[n] |->
                                   IF k <= hour[place] THEN trace[n][k] ELSE tr[n][k]]]
                    IN  Estimates(other, Places \ {place}) = Estimates(trace, Places \ {place})
  BY DEF NoForesight
<1>1. PICK other : other = [n \in Places |-> [k \in DOMAIN trace[n] |->
                                IF k <= hour[place] THEN trace[n][k] ELSE tr[n][k]]]
  OBVIOUS
<1>2. SameSoFar(other) BY <1>1 DEF SameSoFar
<1>3. Estimates(other, Places \ {place}) = Estimates(trace, Places \ {place})
  BY <1>2, SameEstimates
<1> QED BY <1>1, <1>3

(* ---------------------- Estimates: what they are ----------------------- *)

Estimate == [action : {"continue", "pause", "migrate"}, to : Places, idle : Nat,
             time : Nat, carbon : Nat, cost : Nat]

AreEstimates(es) ==
    /\ es \in Seq(Estimate) /\ Len(es) \in Nat /\ Len(es) >= 1
    /\ es[1].action = "continue"
    /\ \A i \in 2 .. Len(es) : es[i].action # "continue"

LEMMA ProductIsNat == \A a, b \in Nat : a * b \in Nat
OBVIOUS

LEMMA ForecastHere ==
  ASSUME DecisionShape, NEW n \in Places, NEW start \in Nat, NEW duration \in Nat
  PROVE  Forecast(trace[n], hour[place], start, duration) \in Nat
<1>1. IsSeries(trace[n]) BY DecisionConstants DEF DecisionShape
<1>2. hour[place] \in Nat BY DEF DecisionShape
<1> QED BY <1>1, <1>2, ForecastIsNat

LEMMA ContinueIsAnEstimate ==
  ASSUME DecisionShape
  PROVE  /\ Continue(trace, hour[place]) \in Estimate
         /\ Continue(trace, hour[place]).action = "continue"
<1>1. PICK hr \in Nat : hr = hour[place] BY DEF DecisionShape
<1>2. place \in Places BY DEF DecisionShape
<1>3. PICK c \in Nat : c = Compute BY Between, DecisionConstants DEF Compute, DecisionShape
<1>4. PICK f \in Nat : f = Forecast(trace[place], hr, hr, c) BY <1>1, <1>2, ForecastHere
<1>5. PICK p \in Nat : p = Price[place] BY <1>2, DecisionConstants
<1>6. PICK x \in Nat, y \in Nat : x = c * f /\ y = c * p BY ProductIsNat
<1>7. Continue(trace, hr)
        = [action |-> "continue", to |-> place, idle |-> 0, time |-> c, carbon |-> x, cost |-> y]
  BY <1>3, <1>4, <1>5, <1>6 DEF Continue
<1> QED BY <1>1, <1>2, <1>7 DEF Estimate

LEMMA PauseIsAnEstimate ==
  ASSUME DecisionShape, NEW i \in Nat
  PROVE  /\ PauseFor(trace, hour[place], i) \in Estimate
         /\ PauseFor(trace, hour[place], i).action = "pause"
<1>1. PICK hr \in Nat : hr = hour[place] BY DEF DecisionShape
<1>2. place \in Places BY DEF DecisionShape
<1>3. PICK c \in Nat : c = Compute BY Between, DecisionConstants DEF Compute, DecisionShape
<1>4. PICK p \in Nat, r \in Nat : p = PauseTime /\ r = ResumeTime BY DecisionConstants
<1>5. PICK a \in Nat, b \in Nat : a = hr + p + i /\ b = a + r OBVIOUS
<1>6. PICK f \in Nat, g \in Nat, h \in Nat :
        /\ f = Forecast(trace[place], hr, hr, p)
        /\ g = Forecast(trace[place], hr, a, r)
        /\ h = Forecast(trace[place], hr, b, c)
  BY <1>1, <1>2, ForecastHere
<1>7. PICK q \in Nat : q = Price[place] BY <1>2, DecisionConstants
<1>8. PICK x \in Nat, y \in Nat, z \in Nat, w \in Nat :
        x = p * f /\ y = r * g /\ z = c * h /\ w = c * q
  BY ProductIsNat
<1>9. PICK t \in Nat, k \in Nat : t = p + i + r + c /\ k = x + y + z OBVIOUS
<1>10. PauseFor(trace, hr, i)
         = [action |-> "pause", to |-> place, idle |-> i, time |-> t, carbon |-> k, cost |-> w]
  BY <1>3, <1>4, <1>5, <1>6, <1>7, <1>8, <1>9 DEF PauseFor
<1> QED BY <1>1, <1>2, <1>10 DEF Estimate

LEMMA MoveIsAnEstimate ==
  ASSUME DecisionShape, NEW n \in Places
  PROVE  /\ MigrateTo(trace, hour[place], n) \in Estimate
         /\ MigrateTo(trace, hour[place], n).action = "migrate"
<1>1. PICK hr \in Nat : hr = hour[place] BY DEF DecisionShape
<1>2. place \in Places BY DEF DecisionShape
<1>3. PICK c \in Nat : c = Compute BY Between, DecisionConstants DEF Compute, DecisionShape
<1>4. PICK p \in Nat, r \in Nat, t \in Nat, e \in Nat, l \in Nat :
        p = PauseTime /\ r = ResumeTime /\ t = TransferTime /\ e = Egress /\ l = Network
  BY DecisionConstants
<1>5. PICK a \in Nat, b \in Nat : a = hr + p + t /\ b = a + r OBVIOUS
<1>6. PICK f \in Nat, g \in Nat, h \in Nat :
        /\ f = Forecast(trace[place], hr, hr, p)
        /\ g = Forecast(trace[n], hr, a, r)
        /\ h = Forecast(trace[n], hr, b, c)
  BY <1>1, <1>2, ForecastHere
<1>7. PICK q \in Nat : q = Price[n] BY DecisionConstants
<1>8. PICK s \in Nat : s = f + g OBVIOUS
<1>9. PICK x \in Nat, y \in Nat, z \in Nat, u \in Nat, w \in Nat :
        x = p * f /\ y = r * g /\ z = c * h /\ u = l * s /\ w = c * q
  BY ProductIsNat
<1>10. PICK v \in Nat : v = u \div 2 OBVIOUS
<1>11. PICK d \in Nat, k \in Nat, m \in Nat : d = p + t + r + c /\ k = x + y + z + v /\ m = w + e
  OBVIOUS
<1>12. MigrateTo(trace, hr, n)
         = [action |-> "migrate", to |-> n, idle |-> 0, time |-> d, carbon |-> k, cost |-> m]
  BY <1>3, <1>4, <1>5, <1>6, <1>7, <1>8, <1>9, <1>10, <1>11 DEF MigrateTo
<1> QED BY <1>1, <1>12 DEF Estimate

(* A function on the first numbers is a sequence. *)
LEMMA SeqOfFunction ==
  ASSUME NEW S, NEW k \in Nat, NEW f \in [1 .. k -> S]
  PROVE  f \in Seq(S) /\ Len(f) = k
<1>1. f \in Seq(S) BY SeqDef
<1>2. DOMAIN f = 1 .. Len(f) /\ Len(f) \in Nat BY <1>1, LenProperties
<1>3. 1 .. k = 1 .. Len(f) BY <1>2
<1> QED BY <1>1, <1>2, <1>3

LEMMA EstimatesAre ==
  ASSUME DecisionShape, NEW d, d \subseteq Places PROVE AreEstimates(Estimates(trace, d))
<1>1. PICK one : one = <<Continue(trace, hour[place])>> OBVIOUS
<1>2. one \in Seq(Estimate) /\ Len(one) = 1 /\ one[1].action = "continue"
  BY <1>1, ContinueIsAnEstimate
<1>3. PICK ps : ps = Pauses(trace) OBVIOUS
<1>4. /\ ps \in Seq(Estimate) /\ Len(ps) \in Nat
      /\ \A i \in 1 .. Len(ps) : ps[i].action = "pause"
  <2>1. PICK k \in Nat : /\ k = Cardinality(Idles)
                         /\ Ascending(Idles) \in [1 .. k -> Idles]
    BY AscendingIsASeq, IdlesAreNumbers
  <2>2. PICK s : s = Ascending(Idles) OBVIOUS
  <2>3. \A i \in 1 .. k : s[i] \in Nat BY <2>1, <2>2, IdlesAreNumbers
  <2>4. ps = [i \in 1 .. k |-> PauseFor(trace, hour[place], s[i])]
    BY <1>3, <2>1, <2>2 DEF Pauses
  <2>5. \A i \in 1 .. k : ps[i] \in Estimate /\ ps[i].action = "pause"
    BY <2>3, <2>4, PauseIsAnEstimate
  <2>6. ps \in [1 .. k -> Estimate] BY <2>4, <2>5
  <2> QED BY <2>5, <2>6, SeqOfFunction
<1>5. PICK ms : ms = Moves(trace, d) OBVIOUS
<1>6. /\ ms \in Seq(Estimate) /\ Len(ms) \in Nat
      /\ \A i \in 1 .. Len(ms) : ms[i].action = "migrate"
  <2>1. PICK a : a = Affordable(trace, d) OBVIOUS
  <2>2. a \subseteq Places /\ a \subseteq Nat /\ IsFiniteSet(a) BY <2>1, AffordableIsSome
  <2>3. PICK k \in Nat : k = Cardinality(a) /\ Ascending(a) \in [1 .. k -> a]
    BY <2>2, AscendingIsASeq
  <2>4. PICK s : s = Ascending(a) OBVIOUS
  <2>5. \A i \in 1 .. k : s[i] \in Places BY <2>2, <2>3, <2>4
  <2>6. ms = [i \in 1 .. k |-> MigrateTo(trace, hour[place], s[i])]
    BY <1>5, <2>1, <2>3, <2>4 DEF Moves
  <2>7. \A i \in 1 .. k : ms[i] \in Estimate /\ ms[i].action = "migrate"
    BY <2>5, <2>6, MoveIsAnEstimate
  <2>8. ms \in [1 .. k -> Estimate] BY <2>6, <2>7
  <2> QED BY <2>7, <2>8, SeqOfFunction
<1>7. PICK op : op = one \o ps OBVIOUS
<1>8. /\ op \in Seq(Estimate) /\ Len(op) = 1 + Len(ps)
      /\ \A i \in 1 .. 1 + Len(ps) : op[i] = IF i <= 1 THEN one[i] ELSE ps[i - 1]
  <2>1. /\ one \o ps \in Seq(Estimate) /\ Len(one \o ps) = Len(one) + Len(ps)
        /\ \A i \in 1 .. Len(one) + Len(ps) :
             (one \o ps)[i] = IF i <= Len(one) THEN one[i] ELSE ps[i - Len(one)]
    BY <1>2, <1>4, ConcatProperties
  <2> QED BY <1>2, <1>7, <2>1
<1>9. PICK es : es = op \o ms OBVIOUS
<1>10. /\ es \in Seq(Estimate) /\ Len(es) = 1 + Len(ps) + Len(ms)
       /\ \A i \in 1 .. 1 + Len(ps) + Len(ms) :
            es[i] = IF i <= 1 + Len(ps) THEN op[i] ELSE ms[i - (1 + Len(ps))]
  <2>1. /\ op \o ms \in Seq(Estimate) /\ Len(op \o ms) = Len(op) + Len(ms)
        /\ \A i \in 1 .. Len(op) + Len(ms) :
             (op \o ms)[i] = IF i <= Len(op) THEN op[i] ELSE ms[i - Len(op)]
    BY <1>6, <1>8, ConcatProperties
  <2> QED BY <1>8, <1>9, <2>1
<1>11. PICK p \in Nat, m \in Nat : p = Len(ps) /\ m = Len(ms) BY <1>4, <1>6
<1>12. Len(es) \in Nat /\ Len(es) >= 1 BY <1>10, <1>11
<1>13. es[1] = one[1]
  <2>1. 1 \in 1 .. 1 + p /\ 1 \in 1 .. 1 + p + m /\ 1 <= 1 + p /\ 1 <= 1 OBVIOUS
  <2> QED BY <1>8, <1>10, <1>11, <2>1
<1>14. ASSUME NEW i \in 2 .. Len(es) PROVE es[i].action # "continue"
  <2>1. i \in 1 .. 1 + p + m /\ ~(i <= 1) /\ i \in Nat BY <1>10, <1>11
  <2>2. CASE i <= 1 + p
    <3>1. i \in 1 .. 1 + p /\ i - 1 \in 1 .. p BY <2>1, <2>2
    <3>2. es[i] = ps[i - 1] BY <1>8, <1>10, <1>11, <2>1, <2>2, <3>1
    <3> QED BY <1>4, <1>11, <3>1, <3>2
  <2>3. CASE ~(i <= 1 + p)
    <3>1. i - (1 + p) \in 1 .. m BY <2>1, <2>3
    <3>2. es[i] = ms[i - (1 + p)] BY <1>10, <1>11, <2>1, <2>3
    <3> QED BY <1>6, <1>11, <3>1, <3>2
  <2> QED BY <2>2, <2>3
<1>15. es = Estimates(trace, d) BY <1>1, <1>3, <1>5, <1>7, <1>9, EstimateParts
<1>16. AreEstimates(es) BY <1>2, <1>10, <1>12, <1>13, <1>14 DEF AreEstimates
<1> QED BY <1>15, <1>16

(* ----------------- Bounds: they cover the estimates -------------------- *)

LEMMA MinOfNumbers ==
  ASSUME NEW S, S \subseteq Nat, S # {}
  PROVE  Min(S) \in S /\ \A x \in S : Min(S) <= x
BY LeastNumber DEF Min

LEMMA MaxOfNumbers ==
  ASSUME NEW S, S \subseteq Nat, S # {}, IsFiniteSet(S)
  PROVE  Max(S) \in S /\ \A x \in S : x <= Max(S)
<1> DEFINE T == {i \in Nat : \A x \in S : x <= i}
<1>1. PICK m \in T : \A i \in T : m <= i
  <2>1. T # {} BY FiniteIsBounded
  <2>2. T \subseteq Nat OBVIOUS
  <2> QED BY <2>1, <2>2, LeastNumber
<1>2. m \in Nat /\ \A x \in S : x \in Nat /\ x <= m BY <1>1
<1>3. m \in S
  <2> SUFFICES ASSUME m \notin S PROVE FALSE OBVIOUS
  <2>1. CASE m = 0
    <3>1. PICK x : x \in S OBVIOUS
    <3>2. x \in Nat /\ x <= 0 BY <1>2, <2>1, <3>1
    <3> QED BY <2>1, <3>1, <3>2
  <2>2. CASE m # 0
    <3>1. PICK l \in Nat : l = m - 1 BY <1>2, <2>2
    <3>2. \A x \in S : x <= l
      <4> SUFFICES ASSUME NEW x \in S PROVE x <= l OBVIOUS
      <4>1. x \in Nat /\ x <= m /\ x # m BY <1>2
      <4> QED BY <1>2, <3>1, <4>1
    <3>3. m <= l BY <1>1, <3>2
    <3> QED BY <1>2, <3>1, <3>3
  <2> QED BY <2>1, <2>2
<1>4. \A x \in S : m >= x BY <1>2
<1>5. Max(S) \in S /\ \A x \in S : Max(S) >= x BY <1>3, <1>4 DEF Max
<1> QED BY <1>5

(* The least and the greatest value of a function on the first numbers. *)
LEMMA Extremes ==
  ASSUME NEW k \in Nat, k >= 1, NEW f \in [1 .. k -> Nat],
         NEW S, S = {f[i] : i \in 1 .. k}
  PROVE  /\ Min(S) \in Nat /\ Max(S) \in Nat
         /\ \A i \in 1 .. k : Min(S) <= f[i] /\ f[i] <= Max(S)
<1>1. S \subseteq Nat /\ \A i \in 1 .. k : f[i] \in S OBVIOUS
<1>2. f[1] \in S BY <1>1
<1>3. IsFiniteSet(S)
  <2>1. f \in Surjection(1 .. k, S) BY DEF Surjection
  <2>2. 1 \in Int /\ k \in Int OBVIOUS
  <2>3. IsFiniteSet(1 .. k) BY <2>2, FS_Interval
  <2> QED BY <2>1, <2>3, FS_Surjection
<1> QED BY <1>1, <1>2, <1>3, MinOfNumbers, MaxOfNumbers

MetricRange == {r \in [min : Nat, max : Nat] : r.min <= r.max}
Ranges == [time : MetricRange, carbon : MetricRange, cost : MetricRange]

LEMMA RangeOf ==
  ASSUME NEW r, \A m \in Metrics : r[m] \in MetricRange,
         NEW a, NEW b, NEW c, r = [time |-> a, carbon |-> b, cost |-> c]
  PROVE  r \in Ranges
BY DEF Ranges, Metrics

Covers(r, e) == \A m \in Metrics : r[m].min <= e[m] /\ e[m] <= r[m].max

LEMMA ExtentCovers ==
  ASSUME NEW es, AreEstimates(es)
  PROVE  Extent(es) \in Ranges /\ \A i \in 1 .. Len(es) : Covers(Extent(es), es[i])
<1>1. PICK k \in Nat : k = Len(es) /\ k >= 1 BY DEF AreEstimates
<1>2. DOMAIN es = 1 .. k /\ \A i \in 1 .. k : es[i] \in Estimate
  BY <1>1, LenProperties, ElementOfSeq DEF AreEstimates
<1> DEFINE All(m) == {es[i][m] : i \in DOMAIN es}
           of(m) == [min |-> Min(All(m)), max |-> Max(All(m))]
<1>3. Extent(es) = [time |-> of("time"), carbon |-> of("carbon"), cost |-> of("cost")]
  BY DEF Extent, PerMetric
<1>4. \A m \in Metrics : Extent(es)[m] = of(m)
  <2>1. PICK t, c, u : t = of("time") /\ c = of("carbon") /\ u = of("cost") OBVIOUS
  <2> HIDE DEF of
  <2>2. Extent(es) = [time |-> t, carbon |-> c, cost |-> u] BY <1>3, <2>1
  <2> QED BY <2>1, <2>2 DEF Metrics
<1>5. ASSUME NEW m \in Metrics
      PROVE  /\ of(m) \in MetricRange
             /\ \A i \in 1 .. k : of(m).min <= es[i][m] /\ es[i][m] <= of(m).max
  <2>1. PICK f : f = [i \in 1 .. k |-> es[i][m]] OBVIOUS
  <2>2. f \in [1 .. k -> Nat] BY <1>2, <2>1 DEF Estimate, Metrics
  <2>3. All(m) = {f[i] : i \in 1 .. k} BY <1>2, <2>1
  <2> HIDE DEF All
  <2>4. /\ Min(All(m)) \in Nat /\ Max(All(m)) \in Nat
        /\ \A i \in 1 .. k : Min(All(m)) <= f[i] /\ f[i] <= Max(All(m))
    BY <1>1, <2>2, <2>3, Extremes
  <2>5. PICK low \in Nat, high \in Nat : low = Min(All(m)) /\ high = Max(All(m)) BY <2>4
  <2>6. low <= high
    <3>1. PICK v \in Nat : v = f[1] BY <1>1, <2>2
    <3>2. low <= v /\ v <= high BY <1>1, <2>4, <2>5, <3>1
    <3> QED BY <3>2
  <2>7. of(m) = [min |-> low, max |-> high] BY <2>5
  <2> QED BY <2>1, <2>4, <2>5, <2>6, <2>7 DEF MetricRange
<1> HIDE DEF of
<1>6. Extent(es) \in Ranges BY <1>3, <1>4, <1>5, RangeOf
<1> QED BY <1>1, <1>4, <1>5, <1>6 DEF Covers

LEMMA BoundsCoverEach ==
  ASSUME NEW w, w \in Seq(Ranges), Len(w) >= 1
  PROVE  /\ Bounds(w) \in Ranges
         /\ \A i \in 1 .. Len(w) : \A m \in Metrics :
              Bounds(w)[m].min <= w[i][m].min /\ w[i][m].max <= Bounds(w)[m].max
<1>1. PICK k \in Nat : k = Len(w) /\ k >= 1 BY LenProperties
<1>2. DOMAIN w = 1 .. k /\ \A i \in 1 .. k : w[i] \in Ranges
  BY <1>1, LenProperties, ElementOfSeq
<1> DEFINE Low(m) == {w[i][m].min : i \in DOMAIN w}
           High(m) == {w[i][m].max : i \in DOMAIN w}
           of(m) == [min |-> Min(Low(m)), max |-> Max(High(m))]
<1>3. Bounds(w) = [time |-> of("time"), carbon |-> of("carbon"), cost |-> of("cost")]
  BY DEF Bounds, PerMetric
<1>4. \A m \in Metrics : Bounds(w)[m] = of(m)
  <2>1. PICK t, c, u : t = of("time") /\ c = of("carbon") /\ u = of("cost") OBVIOUS
  <2> HIDE DEF of
  <2>2. Bounds(w) = [time |-> t, carbon |-> c, cost |-> u] BY <1>3, <2>1
  <2> QED BY <2>1, <2>2 DEF Metrics
<1>5. ASSUME NEW m \in Metrics
      PROVE  /\ of(m) \in MetricRange
             /\ \A i \in 1 .. k : of(m).min <= w[i][m].min /\ w[i][m].max <= of(m).max
  <2>1. PICK f, g : /\ f = [i \in 1 .. k |-> w[i][m].min]
                    /\ g = [i \in 1 .. k |-> w[i][m].max]
    OBVIOUS
  <2>2. \A i \in 1 .. k : w[i][m] \in MetricRange BY <1>2 DEF Ranges, Metrics
  <2>3. \A i \in 1 .. k : w[i][m].min \in Nat /\ w[i][m].max \in Nat BY <2>2 DEF MetricRange
  <2>4. f \in [1 .. k -> Nat] /\ g \in [1 .. k -> Nat] BY <2>1, <2>3
  <2>5. Low(m) = {f[i] : i \in 1 .. k} /\ High(m) = {g[i] : i \in 1 .. k} BY <1>2, <2>1
  <2> HIDE DEF Low, High
  <2>6. Min(Low(m)) \in Nat /\ \A i \in 1 .. k : Min(Low(m)) <= f[i]
    BY <1>1, <2>4, <2>5, Extremes
  <2>7. Max(High(m)) \in Nat /\ \A i \in 1 .. k : g[i] <= Max(High(m))
    BY <1>1, <2>4, <2>5, Extremes
  <2>8. PICK low \in Nat, high \in Nat : low = Min(Low(m)) /\ high = Max(High(m)) BY <2>6, <2>7
  <2>9. low <= high
    <3>1. PICK a \in Nat, b \in Nat : a = w[1][m].min /\ b = w[1][m].max /\ a <= b
      BY <1>1, <2>2 DEF MetricRange
    <3>2. f[1] = a /\ g[1] = b BY <1>1, <2>1, <3>1
    <3>3. low <= a /\ b <= high BY <1>1, <2>6, <2>7, <2>8, <3>2
    <3> QED BY <3>1, <3>3
  <2>10. of(m) = [min |-> low, max |-> high] BY <2>8
  <2> QED BY <2>1, <2>6, <2>7, <2>8, <2>9, <2>10 DEF MetricRange
<1> HIDE DEF of
<1>6. Bounds(w) \in Ranges BY <1>3, <1>4, <1>5, RangeOf
<1> QED BY <1>1, <1>4, <1>5, <1>6

LEMMA WindowEndsWithExtent ==
  ASSUME window \in Seq(Ranges), NEW es, Extent(es) \in Ranges
  PROVE  /\ AppendRange(es) \in Seq(Ranges) /\ Len(AppendRange(es)) >= 1
         /\ Len(AppendRange(es)) <= RollingWindow
         /\ AppendRange(es)[Len(AppendRange(es))] = Extent(es)
<1>1. PICK longer : longer = Append(window, Extent(es)) OBVIOUS
<1>2. PICK k \in Nat : k = Len(window) BY LenProperties
<1>3. longer \in Seq(Ranges) /\ Len(longer) = k + 1 /\ longer[k + 1] = Extent(es)
  BY <1>1, <1>2, AppendProperties
<1>4. PICK a : a = AtLeast(1, Len(longer) - RollingWindow + 1) OBVIOUS
<1>5. a \in Int /\ a >= 1 /\ a <= k + 1 /\ k + 1 - a + 1 <= RollingWindow
  <2>1. PICK r \in Nat : r = RollingWindow /\ r # 0 BY DecisionConstants
  <2>2. PICK b \in Int : b = k + 1 - r + 1 OBVIOUS
  <2>3. b <= k + 1 BY <2>1, <2>2
  <2>4. a = AtLeast(1, b) BY <1>3, <1>4, <2>1, <2>2
  <2>5. a \in Int /\ a >= 1 /\ a >= b /\ a \in {1, b} BY <2>4, Between
  <2> QED BY <2>1, <2>2, <2>3, <2>5
<1>6. AppendRange(es) = SubSeq(longer, a, k + 1)
  <2>1. AppendRange(es) = SubSeq(longer, a, Len(longer)) BY <1>1, <1>4 DEF AppendRange
  <2> QED BY <1>3, <2>1
<1>7. \A i \in a .. k + 1 : longer[i] \in Ranges
  <2>1. \A i \in a .. k + 1 : i \in 1 .. k + 1 BY <1>5
  <2> QED BY <1>3, <2>1, ElementOfSeq
<1>8. PICK s : s = SubSeq(longer, a, k + 1) OBVIOUS
<1>9. PICK n \in Int : n = k + 1 OBVIOUS
<1>10. /\ s \in Seq(Ranges) /\ Len(s) = IF a <= n THEN n - a + 1 ELSE 0
       /\ \A i \in 1 .. n - a + 1 : s[i] = longer[a + i - 1]
  BY <1>5, <1>7, <1>8, <1>9, SubSeqProperties
<1>11. PICK l \in Nat : l = n - a + 1 /\ l >= 1 /\ l <= RollingWindow BY <1>5, <1>9
<1>12. Len(s) = l /\ a + l - 1 = k + 1 BY <1>5, <1>9, <1>10, <1>11
<1>13. s[l] = longer[k + 1]
  <2>1. l \in 1 .. n - a + 1 BY <1>11
  <2>2. s[l] = longer[a + l - 1] BY <1>10, <2>1
  <2> QED BY <1>12, <2>2
<1> QED BY <1>3, <1>6, <1>8, <1>10, <1>11, <1>12, <1>13

LEMMA EstimatesAreCovered ==
  ASSUME window \in Seq(Ranges), NEW es, AreEstimates(es), NEW b, b = Bounds(AppendRange(es))
  PROVE  b \in Ranges /\ \A i \in 1 .. Len(es) : Covers(b, es[i])
<1>1. PICK x : x = Extent(es) OBVIOUS
<1>2. x \in Ranges /\ \A i \in 1 .. Len(es) : Covers(x, es[i]) BY <1>1, ExtentCovers
<1>3. PICK w : w = AppendRange(es) OBVIOUS
<1>4. w \in Seq(Ranges) /\ Len(w) >= 1 /\ w[Len(w)] = x
  BY <1>1, <1>2, <1>3, WindowEndsWithExtent
<1>5. Len(w) \in 1 .. Len(w) BY <1>4, LenProperties
<1>6. b \in Ranges /\ \A m \in Metrics : b[m].min <= x[m].min /\ x[m].max <= b[m].max
  BY <1>3, <1>4, <1>5, BoundsCoverEach
<1>7. ASSUME NEW i \in 1 .. Len(es), NEW m \in Metrics
      PROVE  b[m].min <= es[i][m] /\ es[i][m] <= b[m].max
  <2>1. x[m] \in MetricRange /\ b[m] \in MetricRange BY <1>2, <1>6 DEF Ranges, Metrics
  <2>2. es[i] \in Estimate BY ElementOfSeq DEF AreEstimates
  <2>3. PICK v \in Nat : v = es[i][m] BY <2>2 DEF Estimate, Metrics
  <2>4. x[m].min <= v /\ v <= x[m].max BY <1>2, <2>3 DEF Covers
  <2>5. PICK p \in Nat, q \in Nat, r \in Nat, t \in Nat :
          p = x[m].min /\ q = x[m].max /\ r = b[m].min /\ t = b[m].max
    BY <2>1 DEF MetricRange
  <2>6. r <= p /\ q <= t BY <1>6, <2>5
  <2>7. r <= v /\ v <= t BY <2>4, <2>5, <2>6
  <2> QED BY <2>3, <2>5, <2>7
<1> QED BY <1>6, <1>7 DEF Covers

(* ------------------- Scores: what is better scores less ---------------- *)

LEMMA CarbonsAreNat ==
  ASSUME NEW es, AreEstimates(es), NEW actions PROVE Carbons(es, actions) \subseteq Nat
<1>1. es \in Seq(Estimate) BY DEF AreEstimates
<1>2. DOMAIN es = 1 .. Len(es) BY <1>1, LenProperties
<1>3. \A i \in DOMAIN es : es[i] \in Estimate BY <1>1, <1>2, ElementOfSeq
<1>4. \A i \in DOMAIN es : es[i].carbon \in Nat BY <1>3 DEF Estimate
<1> QED BY <1>4 DEF Carbons

LEMMA Quotient ==
  ASSUME NEW a \in Int, NEW b \in Nat, b > 0 PROVE a \div b \in Int
OBVIOUS

LEMMA OpportunityIsNat ==
  ASSUME NEW es, AreEstimates(es) PROVE Opportunity(es) \in Nat
<1>1. PICK here : here = Min(Carbons(es, {"continue", "pause"})) OBVIOUS
<1>2. PICK there : there = Carbons(es, {"migrate"}) OBVIOUS
<1>3. here \in Nat
  <2>1. 1 \in DOMAIN es BY LenProperties DEF AreEstimates
  <2>2. es[1].carbon \in Carbons(es, {"continue", "pause"})
    BY <2>1 DEF Carbons, AreEstimates
  <2> QED BY <1>1, <2>2, CarbonsAreNat, MinOfNumbers
<1>4. CASE there = {} \/ here = 0
  BY <1>1, <1>2, <1>4 DEF Opportunity
<1>5. CASE ~(there = {} \/ here = 0)
  <2>1. PICK m \in Nat : m = Min(there) BY <1>2, <1>5, CarbonsAreNat, MinOfNumbers
  <2>2. PICK a \in Int : a = Grain * (here - m) BY <1>3 DEF Grain
  <2>3. PICK q \in Int : q = a \div here
    <3>1. here > 0 BY <1>3, <1>5
    <3> QED BY <1>3, <3>1, Quotient
  <2>4. Opportunity(es) = Clamp(q, 0, Grain)
    BY <1>1, <1>2, <1>5, <2>1, <2>2, <2>3 DEF Opportunity
  <2>5. Clamp(q, 0, 4) \in Int /\ Clamp(q, 0, 4) >= 0 BY Clamped
  <2> QED BY <2>4, <2>5 DEF Grain
<1> QED BY <1>4, <1>5

LEMMA PressureIsNat ==
  ASSUME DecisionShape, NEW es, AreEstimates(es), NEW c \in Confidences
  PROVE  \A m \in Metrics : Pressure(es, c)[m] \in Nat
<1>1. PICK t : t = IF Deadline - hour[place] <= work THEN Grain ELSE 0 OBVIOUS
<1>2. t \in Nat BY <1>1 DEF Grain
<1>3. PICK x \in Nat : x = Opportunity(es) * c
  BY OpportunityIsNat, DecisionConstants, ProductIsNat
<1>4. PICK y \in Nat : y = x \div Grain BY DEF Grain
<1>5. PICK p \in Nat, s \in Nat : p = CostCap /\ p # 0 /\ s = spent
  BY DecisionConstants DEF DecisionShape
<1>6. PICK left \in Int : left = AtLeast(0, p - s) /\ left >= 0 /\ left <= p
  <2>1. PICK d \in Int : d = p - s OBVIOUS
  <2>2. AtLeast(0, d) \in Int /\ AtLeast(0, d) >= 0 /\ AtLeast(0, d) \in {0, d} BY Between
  <2> QED BY <1>5, <2>1, <2>2
<1>7. PICK q \in Int : q = (4 * left) \div p
  <2>1. PICK a \in Int : a = 4 * left OBVIOUS
  <2>2. p > 0 BY <1>5
  <2> QED BY <2>1, <2>2, Quotient
<1>8. q <= 4
  <2>1. PICK a \in Int : a = 4 * left OBVIOUS
  <2>2. a <= 4 * p BY <1>6, <2>1
  <2>3. q = a \div p BY <1>7, <2>1
  <2>4. p * q <= a BY <1>5, <2>3
  <2>5. q >= 5 => p * q >= p * 5 BY <1>5
  <2> QED BY <1>5, <2>2, <2>4, <2>5
<1>9. PICK z \in Nat : z = 4 - q BY <1>8
<1>10. Pressure(es, c) = [time |-> t, carbon |-> y, cost |-> z]
  BY <1>1, <1>3, <1>4, <1>5, <1>6, <1>7, <1>9 DEF Pressure, Grain
<1> QED BY <1>2, <1>10 DEF Metrics

AreWeights(w) == w.time \in Nat /\ w.carbon \in Nat /\ w.cost \in Nat

LEMMA EffectiveAreWeights ==
  ASSUME DecisionShape, NEW es, AreEstimates(es), NEW c \in Confidences
  PROVE  AreWeights(Effective(es, c))
<1>1. PICK p : p = Pressure(es, c) OBVIOUS
<1>2. \A m \in Metrics : p[m] \in Nat BY <1>1, PressureIsNat
<1>3. PICK g \in Nat : g = Grain * MultiplierBound BY DecisionConstants DEF Grain
<1>4. ASSUME NEW m \in Metrics PROVE Weight[m] * (g + p[m]) \in Nat
  <2>1. PICK a \in Nat, b \in Nat : a = Weight[m] /\ b = p[m] BY <1>2, DecisionConstants
  <2>2. PICK d \in Nat : d = g + b OBVIOUS
  <2>3. a * d \in Nat BY ProductIsNat
  <2> QED BY <2>1, <2>2, <2>3
<1>5. Effective(es, c) = [time |-> Weight["time"] * (g + p["time"]),
                          carbon |-> Weight["carbon"] * (g + p["carbon"]),
                          cost |-> Weight["cost"] * (g + p["cost"])]
  BY <1>1, <1>3 DEF Effective, PerMetric
<1>6. PICK x \in Nat, y \in Nat, z \in Nat :
        /\ x = Weight["time"] * (g + p["time"])
        /\ y = Weight["carbon"] * (g + p["carbon"])
        /\ z = Weight["cost"] * (g + p["cost"])
  BY <1>4 DEF Metrics
<1>7. Effective(es, c) = [time |-> x, carbon |-> y, cost |-> z] BY <1>5, <1>6
<1> QED BY <1>7 DEF AreWeights

LEMMA NormalGrows ==
  ASSUME NEW b \in Ranges, NEW m \in Metrics, NEW e \in Estimate, NEW f \in Estimate,
         e[m] <= f[m]
  PROVE  /\ Span(b, m) \in Nat
         /\ Normal(b, e, m) \in Nat /\ Normal(b, f, m) \in Nat
         /\ Normal(b, e, m) <= Normal(b, f, m)
<1>1. b[m] \in MetricRange BY DEF Ranges, Metrics
<1>2. PICK low \in Nat, high \in Nat : low = b[m].min /\ high = b[m].max
  BY <1>1 DEF MetricRange
<1>3. PICK x \in Nat, y \in Nat : x = e[m] /\ y = f[m] BY DEF Estimate, Metrics
<1>4. CASE high <= low
  BY <1>2, <1>4 DEF Span, Normal
<1>5. CASE ~(high <= low)
  <2>1. PICK s \in Nat : s = high - low BY <1>5
  <2>2. Span(b, m) = s BY <1>2, <1>5, <2>1 DEF Span
  <2>3. PICK u \in Int, v \in Int : u = x - low /\ v = y - low OBVIOUS
  <2>4. Normal(b, e, m) = Clamp(u, 0, s) /\ Normal(b, f, m) = Clamp(v, 0, s)
    BY <1>2, <1>3, <1>5, <2>2, <2>3 DEF Normal
  <2>5. u <= v BY <1>3, <2>3
  <2>6. Clamp(u, 0, s) <= Clamp(v, 0, s) /\ Clamp(u, 0, s) \in Nat /\ Clamp(v, 0, s) \in Nat
    BY <2>5 DEF Clamp, AtMost, AtLeast
  <2> QED BY <2>2, <2>4, <2>6
<1> QED BY <1>4, <1>5

(* A product of three numbers grows with the second. *)
LEMMA ProductGrows ==
  ASSUME NEW w \in Nat, NEW x \in Nat, NEW y \in Nat, NEW s \in Nat, NEW t \in Nat, x <= y
  PROVE  /\ w * x * s * t \in Nat /\ w * y * s * t \in Nat
         /\ w * x * s * t <= w * y * s * t
<1>1. \A a, c, d \in Nat : c <= d => a * c <= a * d /\ c * a <= d * a OBVIOUS
<1>2. PICK p \in Nat, q \in Nat : p = w * x /\ q = w * y /\ p <= q BY <1>1, ProductIsNat
<1>3. PICK a \in Nat, c \in Nat : a = p * s /\ c = q * s /\ a <= c BY <1>1, <1>2, ProductIsNat
<1>4. a * t \in Nat /\ c * t \in Nat /\ a * t <= c * t BY <1>1, <1>3, ProductIsNat
<1> QED BY <1>2, <1>3, <1>4

LEMMA ScoreGrows ==
  ASSUME NEW b \in Ranges, NEW w, AreWeights(w), NEW e \in Estimate, NEW f \in Estimate,
         \A m \in Metrics : e[m] <= f[m]
  PROVE  /\ Score(b, w, e) \in Nat /\ Score(b, w, f) \in Nat
         /\ Score(b, w, e) <= Score(b, w, f)
<1>1. PICK s \in Nat, t \in Nat, u \in Nat :
        s = Span(b, "time") /\ t = Span(b, "carbon") /\ u = Span(b, "cost")
  BY NormalGrows DEF Metrics
<1>2. PICK x \in Nat, p \in Nat :
        x = Normal(b, e, "time") /\ p = Normal(b, f, "time") /\ x <= p
  BY NormalGrows DEF Metrics
<1>3. PICK y \in Nat, q \in Nat :
        y = Normal(b, e, "carbon") /\ q = Normal(b, f, "carbon") /\ y <= q
  BY NormalGrows DEF Metrics
<1>4. PICK z \in Nat, r \in Nat :
        z = Normal(b, e, "cost") /\ r = Normal(b, f, "cost") /\ z <= r
  BY NormalGrows DEF Metrics
<1>5. PICK i \in Nat, j \in Nat, k \in Nat : i = w.time /\ j = w.carbon /\ k = w.cost
  BY DEF AreWeights
<1>6. PICK c1 \in Nat, d1 \in Nat :
        c1 = i * x * t * u /\ d1 = i * p * t * u /\ c1 <= d1
  <2>1. /\ i * x * t * u \in Nat /\ i * p * t * u \in Nat
        /\ i * x * t * u <= i * p * t * u
    BY <1>2, ProductGrows
  <2> QED BY <2>1
<1>7. PICK c2 \in Nat, d2 \in Nat :
        c2 = j * y * s * u /\ d2 = j * q * s * u /\ c2 <= d2
  BY <1>3, ProductGrows
<1>8. PICK c3 \in Nat, d3 \in Nat :
        c3 = k * z * s * t /\ d3 = k * r * s * t /\ c3 <= d3
  BY <1>4, ProductGrows
<1>9. Score(b, w, e) = c1 + c2 + c3
  BY <1>1, <1>2, <1>3, <1>4, <1>5, <1>6, <1>7, <1>8 DEF Score
<1>10. Score(b, w, f) = d1 + d2 + d3
  BY <1>1, <1>2, <1>3, <1>4, <1>5, <1>6, <1>7, <1>8 DEF Score
<1>11. c1 + c2 + c3 \in Nat /\ d1 + d2 + d3 \in Nat /\ c1 + c2 + c3 <= d1 + d2 + d3
  BY <1>6, <1>7, <1>8
<1> QED BY <1>9, <1>10, <1>11

(* ------------------ Choices: they are worth the disturbance ------------ *)

IsBefore(a, o) == a.score < o.score \/ (a.score = o.score /\ a.index <= o.index)

LEMMA ForemostIsFirst ==
  ASSUME NEW scored, scored # {}, \A a \in scored : a.index \in Nat /\ a.score \in Nat
  PROVE  Foremost(scored) \in scored /\ \A o \in scored : IsBefore(Foremost(scored), o)
<1>1. PICK s \in {a.score : a \in scored} : \A t \in {a.score : a \in scored} : s <= t
  <2>1. {a.score : a \in scored} \subseteq Nat /\ {a.score : a \in scored} # {} OBVIOUS
  <2> QED BY <2>1, LeastNumber
<1>2. PICK low : low = {a \in scored : a.score = s} OBVIOUS
<1>3. PICK i \in {a.index : a \in low} : \A j \in {a.index : a \in low} : i <= j
  <2>1. {a.index : a \in low} \subseteq Nat /\ {a.index : a \in low} # {} BY <1>1, <1>2
  <2> QED BY <2>1, LeastNumber
<1>4. PICK a \in scored : a.score = s /\ a.index = i BY <1>2, <1>3
<1>5. ASSUME NEW o \in scored PROVE IsBefore(a, o)
  <2>1. s <= o.score /\ s \in Nat /\ o.score \in Nat BY <1>1
  <2>2. CASE o.score = s
    <3>1. o \in low BY <1>2, <2>2
    <3>2. i <= o.index BY <1>3, <3>1
    <3> QED BY <1>4, <2>2, <3>2 DEF IsBefore
  <2>3. CASE o.score # s
    <3>1. s < o.score BY <2>1, <2>3
    <3> QED BY <1>4, <3>1 DEF IsBefore
  <2> QED BY <2>2, <2>3
<1>6. Foremost(scored) = CHOOSE x \in scored : \A o \in scored : IsBefore(x, o)
  BY DEF Foremost, IsBefore
<1>7. \E x \in scored : \A o \in scored : IsBefore(x, o) BY <1>5
<1> QED BY <1>6, <1>7

AreScored(scored, es) ==
    /\ \A a \in scored : /\ a.index \in 1 .. Len(es) /\ a.score \in Nat
                         /\ a.action \in {"continue", "pause", "migrate"}
                         /\ a.action = "continue" <=> a.index = 1
    /\ \A a, o \in scored : a.index = o.index => a = o
    /\ \E a \in scored : a.index = 1

(* No worse than to continue. *)
NoWorse(x, scored) == \A a \in scored : a.index = 1 => x = a \/ x.score < a.score

LEMMA ForemostIsNoWorse ==
  ASSUME NEW scored, NEW es, AreScored(scored, es), NEW some, some \subseteq scored,
         \A a \in scored : a.index = 1 => a \in some
  PROVE  Foremost(some) \in scored /\ NoWorse(Foremost(some), scored)
<1>1. some # {} BY DEF AreScored
<1>2. \A a \in some : a.index \in Nat /\ a.score \in Nat BY DEF AreScored
<1>3. PICK x \in some : x = Foremost(some) /\ \A o \in some : IsBefore(x, o)
  BY <1>1, <1>2, ForemostIsFirst
<1>4. ASSUME NEW a \in scored, a.index = 1 PROVE x = a \/ x.score < a.score
  <2>1. x \in scored /\ x.index \in Nat /\ x.index # 0 BY <1>3 DEF AreScored
  <2>2. IsBefore(x, a) BY <1>3, <1>4
  <2>3. CASE x.score < a.score BY <2>3
  <2>4. CASE x.score = a.score /\ x.index <= a.index
    <3>1. x.index = a.index BY <1>4, <2>1, <2>4
    <3> QED BY <2>1, <3>1 DEF AreScored
  <2> QED BY <2>2, <2>3, <2>4 DEF IsBefore
<1> QED BY <1>3, <1>4 DEF NoWorse

LEMMA ChosenIsNoWorse ==
  ASSUME NEW scored, NEW es, AreScored(scored, es)
  PROVE  Choose(scored) \in scored /\ NoWorse(Choose(scored), scored)
<1>1. PICK best : best = Foremost(scored) OBVIOUS
<1>2. best \in scored /\ NoWorse(best, scored) BY <1>1, ForemostIsNoWorse
<1>3. PICK local : local = BestLocal(scored) OBVIOUS
<1>4. local \in scored /\ NoWorse(local, scored)
  <2>1. PICK some : some = {a \in scored : a.action # "migrate"} OBVIOUS
  <2>2. \A a \in scored : a.index = 1 => a \in some BY <2>1 DEF AreScored
  <2>3. local = Foremost(some) BY <1>3, <2>1 DEF BestLocal
  <2> QED BY <2>1, <2>2, <2>3, ForemostIsNoWorse
<1>5. PICK stay : stay = CHOOSE a \in scored : a.action = "continue" OBVIOUS
<1>6. stay \in scored /\ NoWorse(stay, scored)
  <2>1. \E a \in scored : a.action = "continue" BY DEF AreScored
  <2>2. stay \in scored /\ stay.action = "continue" BY <1>5, <2>1
  <2>3. stay.index = 1 BY <2>2 DEF AreScored
  <2> QED BY <2>2, <2>3 DEF AreScored, NoWorse
<1>7. Choose(scored) \in {best, local, stay}
  <2>1. best.action \in {"continue", "pause", "migrate"} BY <1>2 DEF AreScored
  <2>2. CASE best.action = "continue" BY <1>1, <2>2 DEF Choose
  <2>3. CASE best.action = "pause" BY <1>1, <1>5, <2>3 DEF Choose
  <2>4. CASE best.action = "migrate" BY <1>1, <1>3, <2>4 DEF Choose
  <2> QED BY <2>1, <2>2, <2>3, <2>4
<1> QED BY <1>2, <1>4, <1>6, <1>7

LEMMA ScoredAre ==
  ASSUME NEW es, AreEstimates(es), NEW b \in Ranges, NEW w, AreWeights(w)
  PROVE  /\ AreScored(Scored(es, b, w), es)
         /\ \A a \in Scored(es, b, w) : a.score = Score(b, w, es[a.index])
<1>1. es \in Seq(Estimate) BY DEF AreEstimates
<1>2. PICK k \in Nat : k = Len(es) /\ k >= 1 BY DEF AreEstimates
<1>3. DOMAIN es = 1 .. k BY <1>1, <1>2, LenProperties
<1>4. \A i \in 1 .. k : es[i] \in Estimate BY <1>1, <1>2, ElementOfSeq
<1>5. \A i \in 1 .. k : Score(b, w, es[i]) \in Nat
  <2> SUFFICES ASSUME NEW i \in 1 .. k PROVE Score(b, w, es[i]) \in Nat OBVIOUS
  <2>1. PICK e \in Estimate : e = es[i] BY <1>4
  <2>2. \A m \in Metrics : e[m] <= e[m]
    <3>1. \A m \in Metrics : e[m] \in Nat BY DEF Estimate, Metrics
    <3> QED BY <3>1
  <2> QED BY <2>1, <2>2, ScoreGrows
<1>6. \A i \in 1 .. k : /\ es[i].action \in {"continue", "pause", "migrate"}
                        /\ es[i].action = "continue" <=> i = 1
  <2> SUFFICES ASSUME NEW i \in 1 .. k
               PROVE  /\ es[i].action \in {"continue", "pause", "migrate"}
                      /\ es[i].action = "continue" <=> i = 1
    OBVIOUS
  <2>1. es[i].action \in {"continue", "pause", "migrate"} BY <1>4 DEF Estimate
  <2>2. i = 1 \/ i \in 2 .. k OBVIOUS
  <2> QED BY <1>2, <2>1, <2>2 DEF AreEstimates
<1>7. PICK scored : scored = Scored(es, b, w) OBVIOUS
<1>8. \A a \in scored : \E i \in 1 .. k :
        a = [index |-> i, action |-> es[i].action, score |-> Score(b, w, es[i])]
  BY <1>3, <1>7 DEF Scored
<1>9. \A a \in scored : /\ a.index \in 1 .. k /\ a.action = es[a.index].action
                        /\ a.score = Score(b, w, es[a.index])
                        /\ a = [index |-> a.index, action |-> a.action, score |-> a.score]
  BY <1>8
<1>10. [index |-> 1, action |-> es[1].action, score |-> Score(b, w, es[1])] \in scored
  <2>1. 1 \in 1 .. k BY <1>2
  <2> QED BY <1>3, <1>7, <2>1 DEF Scored
<1>11. \E a \in scored : a.index = 1 BY <1>10
<1>12. \A a \in scored : /\ a.index \in 1 .. Len(es) /\ a.score \in Nat
                         /\ a.action \in {"continue", "pause", "migrate"}
                         /\ a.action = "continue" <=> a.index = 1
  BY <1>2, <1>5, <1>6, <1>9
<1>13. ASSUME NEW a \in scored, NEW o \in scored, a.index = o.index PROVE a = o
  BY <1>9, <1>13
<1>14. AreScored(scored, es) BY <1>11, <1>12, <1>13 DEF AreScored
<1> QED BY <1>7, <1>9, <1>14

(* What is decided on is an estimate, and better than to continue if it is another. *)
LEMMA SelectedIsBetter ==
  ASSUME NEW es, AreEstimates(es), NEW b \in Ranges, NEW w, AreWeights(w),
         NEW i, i = Choose(Scored(es, b, w)).index
  PROVE  /\ i \in 1 .. Len(es) /\ es[i] \in Estimate
         /\ es[i].action # "continue" => \E m \in Metrics : es[i][m] < es[1][m]
<1>1. PICK scored : scored = Scored(es, b, w) OBVIOUS
<1>2. /\ AreScored(scored, es)
      /\ \A a \in scored : a.score = Score(b, w, es[a.index])
  BY <1>1, ScoredAre
<1>3. PICK x \in scored : x = Choose(scored) /\ NoWorse(x, scored)
  BY <1>2, ChosenIsNoWorse
<1>4. i = x.index /\ i \in 1 .. Len(es) BY <1>1, <1>2, <1>3 DEF AreScored
<1>5. es \in Seq(Estimate) /\ 1 \in 1 .. Len(es) BY DEF AreEstimates
<1>6. es[i] \in Estimate /\ es[1] \in Estimate BY <1>4, <1>5, ElementOfSeq
<1>7. ASSUME es[i].action # "continue", \A m \in Metrics : ~(es[i][m] < es[1][m])
      PROVE  FALSE
  <2>1. PICK a \in scored : a.index = 1 BY <1>2 DEF AreScored
  <2>2. i # 1 BY <1>7 DEF AreEstimates
  <2>3. x # a BY <1>4, <2>1, <2>2
  <2>4. x.score < a.score BY <1>3, <2>1, <2>3 DEF NoWorse
  <2>5. Score(b, w, es[i]) < Score(b, w, es[1]) BY <1>2, <1>3, <1>4, <2>1, <2>4
  <2>6. \A m \in Metrics : es[1][m] <= es[i][m]
    <3>1. \A m \in Metrics : es[1][m] \in Nat /\ es[i][m] \in Nat BY <1>6 DEF Estimate, Metrics
    <3> QED BY <1>7, <3>1
  <2>7. PICK e \in Estimate, f \in Estimate : e = es[1] /\ f = es[i] BY <1>6
  <2>8. PICK p \in Nat, q \in Nat : p = Score(b, w, e) /\ q = Score(b, w, f) /\ p <= q
    BY <2>6, <2>7, ScoreGrows
  <2> QED BY <2>5, <2>7, <2>8
<1> QED BY <1>4, <1>6, <1>7

DecisionInv ==
    /\ DecisionShape
    /\ window \in Seq(Ranges) /\ Len(window) <= RollingWindow
    /\ BoundsCover
    /\ WorthIt

LEMMA DecisionStarts == DecisionInit => DecisionInv
<1> SUFFICES ASSUME DecisionInit PROVE DecisionInv OBVIOUS
<1>1. DecisionShape BY DecisionConstants DEF DecisionInit, DecisionShape
<1>2. window \in Seq(Ranges) /\ Len(window) <= RollingWindow
  BY EmptySeq, DecisionConstants DEF DecisionInit
<1>3. ~choice.made BY DEF DecisionInit, NoChoice
<1> QED BY <1>1, <1>2, <1>3 DEF DecisionInv, BoundsCover, WorthIt

LEMMA SameChoice ==
  ASSUME BoundsCover, WorthIt, choice' = choice \/ choice' = NoChoice
  PROVE  BoundsCover' /\ WorthIt'
<1>1. CASE choice' = choice BY <1>1 DEF BoundsCover, WorthIt
<1>2. CASE choice' = NoChoice
  <2>1. ~choice'.made BY <1>2 DEF NoChoice
  <2> QED BY <2>1 DEF BoundsCover, WorthIt
<1> QED BY <1>1, <1>2

LEMMA DecisionEvaluate ==
  ASSUME DecisionInv, NEW d \in SUBSET (Places \ {place}), NEW c \in Confidences,
         NEW happens \in BOOLEAN, Evaluate(d, c, happens)
  PROVE  DecisionInv'
<1>1. DecisionShape /\ window \in Seq(Ranges) BY DEF DecisionInv
<1>2. PICK es : es = Estimates(trace, d) OBVIOUS
<1>3. d \subseteq Places OBVIOUS
<1>4. AreEstimates(es) BY <1>1, <1>2, <1>3, EstimatesAre
<1>5. PICK w : w = AppendRange(es) OBVIOUS
<1>6. w \in Seq(Ranges) /\ Len(w) <= RollingWindow
  BY <1>1, <1>4, <1>5, ExtentCovers, WindowEndsWithExtent
<1>7. PICK b : b = Bounds(w) OBVIOUS
<1>8. b \in Ranges /\ \A i \in 1 .. Len(es) : Covers(b, es[i])
  BY <1>1, <1>4, <1>5, <1>7, EstimatesAreCovered
<1>9. PICK weights : weights = Effective(es, c) OBVIOUS
<1>10. AreWeights(weights) BY <1>1, <1>4, <1>9, EffectiveAreWeights
<1>11. PICK k : k = Choose(Scored(es, b, weights)).index OBVIOUS
<1>12. /\ k \in 1 .. Len(es) /\ es[k] \in Estimate
       /\ es[k].action # "continue" => \E m \in Metrics : es[k][m] < es[1][m]
  BY <1>4, <1>8, <1>10, <1>11, SelectedIsBetter
<1>13. PICK selected : selected = es[k] OBVIOUS
<1>14. /\ window' = w
       /\ choice' = [made |-> TRUE, estimates |-> es, bounds |-> b, selected |-> selected]
       /\ place' = selected.to \/ place' = place
       /\ UNCHANGED <<trace, hour, work, spent>>
  BY <1>2, <1>5, <1>7, <1>9, <1>11, <1>13 DEF Evaluate
<1>15. DecisionShape'
  <2>1. selected.to \in Places BY <1>12, <1>13 DEF Estimate
  <2>2. place' \in Places BY <1>1, <1>14, <2>1 DEF DecisionShape
  <2> QED BY <1>1, <1>14, <2>2 DEF DecisionShape
<1>16. es \in Seq(Estimate) BY <1>4 DEF AreEstimates
<1>17. DOMAIN es = 1 .. Len(es) /\ \A i \in 1 .. Len(es) : es[i] \in Estimate
  BY <1>16, LenProperties, ElementOfSeq
<1>18. \A i \in 1 .. Len(es) : \A m \in Metrics : es[i][m] \in b[m].min .. b[m].max
  <2> SUFFICES ASSUME NEW i \in 1 .. Len(es), NEW m \in Metrics
               PROVE  es[i][m] \in b[m].min .. b[m].max
    OBVIOUS
  <2>1. PICK v \in Nat : v = es[i][m] BY <1>17 DEF Estimate, Metrics
  <2>2. PICK low \in Nat, high \in Nat : low = b[m].min /\ high = b[m].max
    BY <1>8 DEF Ranges, MetricRange, Metrics
  <2>3. low <= v /\ v <= high BY <1>8, <2>1, <2>2 DEF Covers
  <2> QED BY <2>1, <2>2, <2>3
<1>19. BoundsCover'
  <2>1. choice'.estimates = es /\ choice'.bounds = b BY <1>14
  <2> QED BY <1>17, <1>18, <2>1 DEF BoundsCover, Metrics
<1>20. WorthIt'
  <2>1. choice'.estimates = es /\ choice'.selected = selected BY <1>14
  <2> QED BY <1>12, <1>13, <2>1 DEF WorthIt, Metrics
<1> QED BY <1>6, <1>14, <1>15, <1>19, <1>20 DEF DecisionInv

LEMMA DecisionHour == DecisionInv /\ Hour => DecisionInv'
<1> SUFFICES ASSUME DecisionInv, Hour PROVE DecisionInv' OBVIOUS
<1>1. DecisionShape /\ window \in Seq(Ranges) /\ Len(window) <= RollingWindow BY DEF DecisionInv
<1>2. /\ hour' = [n \in Places |-> hour[n] + 1]
      /\ UNCHANGED <<trace, place, window>> /\ choice' = NoChoice
  BY DEF Hour
<1>3. hour' \in [Places -> Nat]
  <2>1. \A n \in Places : hour[n] + 1 \in Nat
    <3>1. \A n \in Places : hour[n] \in Nat BY <1>1 DEF DecisionShape
    <3> QED BY <3>1
  <2> QED BY <1>2, <2>1
<1>4. work' \in Nat /\ spent' \in Nat
  <2>1. CASE mode = "running" /\ work > 0
    <3>1. work' = work - 1 /\ spent' = spent + Price[place] BY <2>1 DEF Hour
    <3>2. PICK p \in Nat : p = Price[place] BY <1>1, DecisionConstants DEF DecisionShape
    <3>3. work \in Nat /\ spent \in Nat BY <1>1 DEF DecisionShape
    <3> QED BY <2>1, <3>1, <3>2, <3>3
  <2>2. CASE ~(mode = "running" /\ work > 0)
    <3>1. work' = work /\ spent' = spent BY <2>2 DEF Hour
    <3> QED BY <1>1, <3>1 DEF DecisionShape
  <2> QED BY <2>1, <2>2
<1>5. DecisionShape' BY <1>1, <1>2, <1>3, <1>4 DEF DecisionShape
<1>6. BoundsCover' /\ WorthIt' BY <1>2, SameChoice DEF DecisionInv
<1> QED BY <1>1, <1>2, <1>5, <1>6 DEF DecisionInv

LEMMA DecisionStep == DecisionInv /\ [DecisionNext]_decisionVars => DecisionInv'
<1> SUFFICES ASSUME DecisionInv, [DecisionNext]_decisionVars PROVE DecisionInv' OBVIOUS
<1>1. DecisionShape /\ window \in Seq(Ranges) /\ Len(window) <= RollingWindow BY DEF DecisionInv
<1>2. CASE \E d \in SUBSET (Places \ {place}), c \in Confidences, happens \in BOOLEAN :
             Evaluate(d, c, happens)
  BY <1>2, DecisionEvaluate
<1>3. CASE Hour BY <1>3, DecisionHour
<1>4. CASE \E n \in Places : ClockRestart(n)
  <2>1. PICK n \in Places : ClockRestart(n) BY <1>4
  <2>2. /\ hour' = [hour EXCEPT ![n] = 0]
        /\ UNCHANGED <<trace, place, work, spent, window, choice>>
    BY <2>1 DEF ClockRestart
  <2>3. DecisionShape' BY <1>1, <2>2 DEF DecisionShape
  <2>4. BoundsCover' /\ WorthIt' BY <2>2, SameChoice DEF DecisionInv
  <2> QED BY <1>1, <2>2, <2>3, <2>4 DEF DecisionInv
<1>5. CASE ResetPolicy
  <2>1. window' = <<>> /\ UNCHANGED <<trace, hour, place, work, spent, choice>>
    BY <1>5 DEF ResetPolicy
  <2>2. DecisionShape' BY <1>1, <2>1 DEF DecisionShape
  <2>3. BoundsCover' /\ WorthIt' BY <2>1, SameChoice DEF DecisionInv
  <2>4. window' \in Seq(Ranges) /\ Len(window') <= RollingWindow
    BY <2>1, EmptySeq, DecisionConstants
  <2> QED BY <2>2, <2>3, <2>4 DEF DecisionInv
<1>6. CASE UNCHANGED decisionVars
  <2>1. UNCHANGED <<trace, hour, place, work, spent, window, choice>> BY <1>6 DEF decisionVars
  <2>2. DecisionShape' BY <1>1, <2>1 DEF DecisionShape
  <2>3. BoundsCover' /\ WorthIt' BY <2>1, SameChoice DEF DecisionInv
  <2> QED BY <1>1, <2>1, <2>2, <2>3 DEF DecisionInv
<1> QED BY <1>2, <1>3, <1>4, <1>5, <1>6 DEF DecisionNext

LEMMA DecisionInvAlways == DecisionSpec => []DecisionInv
BY DecisionStarts, DecisionStep, PTL DEF DecisionSpec

(* The scheduler uses no sample that its forecaster does not have yet,
   whatever trace and however its clock was reset (carbon/forecast.py:
   forecast). *)
THEOREM DecisionsLackForesight == DecisionSpec => []NoForesight
<1>1. DecisionInv => NoForesight BY ShapeHasNoForesight DEF DecisionInv
<1> QED BY <1>1, DecisionInvAlways, PTL

(* The bounds that estimates are normalized with cover all of them, with any
   rolling window and after any reset (policy/adaptive.py: _append_ranges). *)
THEOREM BoundsAlwaysCover == DecisionSpec => []BoundsCover
<1>1. DecisionInv => BoundsCover BY DEF DecisionInv
<1> QED BY <1>1, DecisionInvAlways, PTL

(* What the scheduler selects in the place of continuing is less than that in
   some metric, with any weights, pressures, gaps and thresholds
   (scheduler/scoring.py: choose_action). *)
THEOREM DisturbancesAreWorthIt == DecisionSpec => []WorthIt
<1>1. DecisionInv => WorthIt BY DEF DecisionInv
<1> QED BY <1>1, DecisionInvAlways, PTL

(* No clock is ahead of the ticks, and no decision is later than the clock that
   it was made by. *)
TimesOK ==
    /\ ticks \in 0 .. MaxTicks
    /\ \A n \in Places : hour[n] <= ticks
    /\ lastPause \in NoTime .. ticks /\ lastMove \in NoTime .. ticks
    /\ work <= Work /\ mode \in {"running", "paused"} /\ resumeIn \in Nat

LEMMA TimesStart == DecisionInit => TimesOK
<1> SUFFICES ASSUME DecisionInit PROVE TimesOK OBVIOUS
<1>1. /\ \A n \in Places : hour[n] = 0
      /\ mode = "running" /\ resumeIn = 0 /\ lastPause = NoTime /\ lastMove = NoTime
      /\ work = Work /\ ticks = 0
  BY DEF DecisionInit
<1> QED BY <1>1, DecisionConstants DEF TimesOK, NoTime

LEMMA TimesEvaluate ==
  ASSUME DecisionInv, TimesOK, NEW d \in SUBSET (Places \ {place}), NEW c \in Confidences,
         NEW happens \in BOOLEAN, Evaluate(d, c, happens)
  PROVE  TimesOK'
<1>1. DecisionShape /\ window \in Seq(Ranges) BY DEF DecisionInv
<1>2. PICK es : es = Estimates(trace, d) OBVIOUS
<1>3. AreEstimates(es) BY <1>1, <1>2, EstimatesAre
<1>4. PICK b : b = Bounds(AppendRange(es)) /\ b \in Ranges
  BY <1>1, <1>3, EstimatesAreCovered
<1>5. PICK weights : weights = Effective(es, c) /\ AreWeights(weights)
  BY <1>1, <1>3, EffectiveAreWeights
<1>6. PICK k : k = Choose(Scored(es, b, weights)).index OBVIOUS
<1>7. PICK selected \in Estimate : selected = es[k] BY <1>3, <1>4, <1>5, <1>6, SelectedIsBetter
<1>8. PICK h \in Nat : h = hour[place] BY <1>1 DEF DecisionShape
<1>9. PICK i \in Nat : i = selected.idle BY DEF Estimate
<1>10. h <= ticks /\ ticks \in Nat /\ lastPause \in NoTime .. ticks /\ lastMove \in NoTime .. ticks
  BY <1>1, <1>8 DEF TimesOK, DecisionShape
<1>11. /\ \/ /\ mode' \in {"running", "paused"} /\ resumeIn' = i /\ lastPause' = h
          \/ UNCHANGED <<mode, resumeIn, lastPause>>
       /\ lastMove' = h \/ lastMove' = lastMove
       /\ UNCHANGED <<hour, work, ticks>>
  BY <1>2, <1>4, <1>5, <1>6, <1>7, <1>8, <1>9 DEF Evaluate
<1>12. lastPause' \in NoTime .. ticks /\ lastMove' \in NoTime .. ticks
  BY <1>10, <1>11 DEF NoTime
<1> QED BY <1>11, <1>12 DEF TimesOK

LEMMA TimesStep == DecisionInv /\ TimesOK /\ [DecisionNext]_decisionVars => TimesOK'
<1> SUFFICES ASSUME DecisionInv, TimesOK, [DecisionNext]_decisionVars PROVE TimesOK' OBVIOUS
<1>1. DecisionShape BY DEF DecisionInv
<1>2. PICK t \in Nat : t = ticks BY DEF TimesOK
<1>3. \A n \in Places : hour[n] \in Nat /\ hour[n] <= t BY <1>1, <1>2 DEF DecisionShape, TimesOK
<1>4. CASE \E d \in SUBSET (Places \ {place}), c \in Confidences, happens \in BOOLEAN :
             Evaluate(d, c, happens)
  BY <1>4, TimesEvaluate
<1>5. CASE Hour
  <2>1. ticks' = t + 1 /\ t < MaxTicks BY <1>2, <1>5 DEF Hour
  <2>2. ASSUME NEW n \in Places PROVE hour'[n] <= t + 1
    <3>1. PICK h \in Nat : h = hour[n] /\ h <= t BY <1>3
    <3>2. hour'[n] = h + 1 BY <1>5, <3>1 DEF Hour
    <3> QED BY <3>1, <3>2
  <2>3. resumeIn' \in Nat
    <3>1. PICK r \in Nat : r = resumeIn BY DEF TimesOK
    <3>2. resumeIn' = AtLeast(0, r - 1) BY <1>5, <3>1 DEF Hour
    <3> QED BY <3>1, <3>2 DEF AtLeast
  <2>4. work' <= Work
    <3>1. PICK w \in Nat : w = work /\ w <= Work BY <1>1 DEF DecisionShape, TimesOK
    <3>2. work' = w - 1 \/ work' = w BY <1>5, <3>1 DEF Hour
    <3> QED BY <3>1, <3>2, DecisionConstants
  <2>5. mode' \in {"running", "paused"} BY <1>5 DEF Hour, TimesOK
  <2>6. lastPause' \in NoTime .. t + 1 /\ lastMove' \in NoTime .. t + 1
    <3>1. UNCHANGED <<lastPause, lastMove>> BY <1>5 DEF Hour
    <3> QED BY <1>2, <3>1 DEF TimesOK, NoTime
  <2> QED BY <2>1, <2>2, <2>3, <2>4, <2>5, <2>6, DecisionConstants DEF TimesOK
<1>6. CASE \E n \in Places : ClockRestart(n)
  <2>1. PICK n \in Places : ClockRestart(n) BY <1>6
  <2>2. /\ hour' = [hour EXCEPT ![n] = 0]
        /\ UNCHANGED <<mode, resumeIn, lastPause, lastMove, work, ticks>>
    BY <2>1 DEF ClockRestart
  <2>3. \A k \in Places : hour'[k] = 0 \/ hour'[k] = hour[k] BY <1>1, <2>2 DEF DecisionShape
  <2>4. \A k \in Places : hour'[k] <= t BY <1>3, <2>3
  <2> QED BY <1>2, <2>2, <2>4 DEF TimesOK
<1>7. CASE ResetPolicy
  BY <1>7 DEF ResetPolicy, TimesOK
<1>8. CASE UNCHANGED decisionVars BY <1>8 DEF decisionVars, TimesOK
<1> QED BY <1>4, <1>5, <1>6, <1>7, <1>8 DEF DecisionNext

DecisionTypeInv == DecisionInv /\ TimesOK

LEMMA DecisionTypes == DecisionSpec => []DecisionTypeInv
<1>1. DecisionInit => DecisionTypeInv BY DecisionStarts, TimesStart DEF DecisionTypeInv
<1>2. DecisionTypeInv /\ [DecisionNext]_decisionVars => DecisionTypeInv'
  BY DecisionStep, TimesStep DEF DecisionTypeInv
<1> QED BY <1>1, <1>2, PTL DEF DecisionSpec

LEMMA DecisionIsTyped == DecisionTypeInv => DecisionTypeOK
<1> SUFFICES ASSUME DecisionTypeInv PROVE DecisionTypeOK OBVIOUS
<1>1. DecisionInv /\ TimesOK BY DEF DecisionTypeInv
<1>2. /\ DecisionShape /\ window \in Seq(Ranges) /\ Len(window) <= RollingWindow
  BY <1>1 DEF DecisionInv
<1>3. hour \in [Places -> 0 .. MaxTicks]
  <2>1. ASSUME NEW n \in Places PROVE hour[n] \in 0 .. MaxTicks
    <3>1. PICK h \in Nat, t \in Nat : h = hour[n] /\ t = ticks /\ h <= t /\ t <= MaxTicks
      BY <1>1, <1>2 DEF DecisionShape, TimesOK
    <3> QED BY <3>1, DecisionConstants
  <2> QED BY <1>2, <2>1 DEF DecisionShape
<1>4. lastPause \in NoTime .. MaxTicks /\ lastMove \in NoTime .. MaxTicks
  BY <1>1, DecisionConstants DEF TimesOK, NoTime
<1>5. work \in 0 .. Work BY <1>1, <1>2, DecisionConstants DEF TimesOK, DecisionShape
<1>6. ASSUME NEW i \in DOMAIN window, NEW m \in Metrics
      PROVE  window[i][m].min \in 0 .. window[i][m].max
  <2>1. window[i] \in Ranges BY <1>2, <1>6, LenProperties, ElementOfSeq
  <2>2. window[i][m] \in MetricRange BY <2>1 DEF Ranges, Metrics
  <2> QED BY <2>2 DEF MetricRange
<1> QED BY <1>1, <1>2, <1>3, <1>4, <1>5, <1>6 DEF DecisionTypeOK, DecisionShape, TimesOK

(* ------------------------- The services together ----------------------- *)

LEMMA MCStep ==
  [MCNext]_MCVars =>
    /\ [Next]_vars /\ [ArtifactsNext]_artifactVars /\ [AccountNext]_accountVars
    /\ [TelemetryNext]_telemetryVars /\ [DecisionNext]_decisionVars
<1>1. AccountsAlone => AccountNext BY DEF AccountsAlone
<1>2. AccountsMove => AccountNext
  BY Zenon DEF AccountsMove, AccountNext, BeginOperation
<1> QED BY <1>1, <1>2, Zenon DEF MCNext, MCVars

LEMMA MCStart == MCInit => Init /\ ArtifactsInit /\ AccountInit /\ TelemetryInit /\ DecisionInit
  BY DEF MCInit

LEMMA MCSteps == MCSpec => MCInit /\ [][MCNext]_MCVars
  BY PTL DEF MCSpec

(* What is proved of each service holds of the instance that has all of them:
   a behaviour of it is one of every service, of which all but one rest. *)
THEOREM EachServiceByItself ==
  MCSpec => Spec /\ ArtifactsSpec /\ AccountSpec /\ TelemetrySpec /\ DecisionSpec
<1>1. MCInit /\ [][MCNext]_MCVars => Spec BY MCStart, MCStep, PTL DEF Spec
<1>2. MCInit /\ [][MCNext]_MCVars => ArtifactsSpec BY MCStart, MCStep, PTL DEF ArtifactsSpec
<1>3. MCInit /\ [][MCNext]_MCVars => AccountSpec BY MCStart, MCStep, PTL DEF AccountSpec
<1>4. MCInit /\ [][MCNext]_MCVars => TelemetrySpec BY MCStart, MCStep, PTL DEF TelemetrySpec
<1>5. MCInit /\ [][MCNext]_MCVars => DecisionSpec BY MCStart, MCStep, PTL DEF DecisionSpec
<1> QED BY <1>1, <1>2, <1>3, <1>4, <1>5, MCSteps, PTL

(* Every field of every service stays what it is declared to be, through all
   restarts, losses and interleavings: the registries know only runs that have
   an entry, no generation is past the handovers that were made, no round of the
   anti-entropy loop is left without a peer to go to, the rates of an account and
   the ages of a sample are numbers, and at most two probers are at the lock. *)
THEOREM TypesAreKept == MCSpec => []MCTypeOK
<1>1. MCSpec => []TypeOK BY EachServiceByItself, RegistryTypes, PTL
<1>2. MCSpec => []ArtifactsTypeOK
  <2>1. TypeInv => ArtifactsTypeOK BY DEF TypeInv
  <2> QED BY <2>1, EachServiceByItself, ArtifactsTypeCorrect, PTL
<1>3. MCSpec => []AccountTypeOK BY EachServiceByItself, AccountsAreTyped, PTL
<1>4. MCSpec => []TelemetryTypeOK BY EachServiceByItself, LinksTypes, LinksAreTyped, PTL
<1>5. MCSpec => []DecisionTypeOK BY EachServiceByItself, DecisionTypes, DecisionIsTyped, PTL
<1>6. TypeOK /\ ArtifactsTypeOK /\ AccountTypeOK /\ TelemetryTypeOK /\ DecisionTypeOK => MCTypeOK
  BY Zenon DEF MCTypeOK
<1> QED BY <1>1, <1>2, <1>3, <1>4, <1>5, <1>6, PTL
===============================================================================
