------------------------------ MODULE Replication -----------------------------
(***************************************************************************)
(* How the peers come to know the same tasks and the same owners:          *)
(* submissions to any peer (submission/service.py), the anti-entropy loop  *)
(* that pulls catalogs and ownership (reconciliation/service.py), and the  *)
(* broadcast of completions (daemon/scheduler_service.py,                  *)
(* migration/client.py), over an unreliable network and across restarts.   *)
(*                                                                         *)
(* A handover is the two steps of a migration that others can see, the     *)
(* claim at the destination and the release at the source; Migration.tla   *)
(* has all of them.  Here an owned task is "stopped" whether it runs or    *)
(* not.  The anti-entropy loop awaits only while it fetches, so what was   *)
(* fetched is applied in one step, but to a node that has moved on.        *)
(***************************************************************************)
EXTENDS Catalog, TaskRegistry, Functions

CONSTANTS Submissions,   \* [Nodes -> set of [id, digest]]  definitions a peer is given
          Requests,      \* [Nodes -> set of [key, id, rev, owner]]  runs it is asked for
          Runs,          \* run ids: Nat
          Busy,          \* bound: the runs that their owners work on
          MaxGeneration, \* bound: handovers of a run
          MaxDecisions,  \* bound: decisions of the scheduler about a run
          MaxRestarts    \* bound: restarts of daemons

(* There are at least two peers; create_run refuses an owner that is none of
   them; a handover is numbered as the generation that it opens. *)
ASSUME ReplicationAssumption ==
    /\ Nodes \subseteq Nat /\ \A n \in Nodes : Nodes # {n}
    /\ Runs \subseteq Nat /\ Busy \subseteq Runs
    /\ DOMAIN Submissions = Nodes /\ DOMAIN Requests = Nodes
    /\ \A n \in Nodes : \A s \in Submissions[n] :
         s.id \in Nat /\ s = [id |-> s.id, digest |-> s.digest]
    /\ \A n \in Nodes : \A q \in Requests[n] : q.owner \in Nodes \cup {Open}
    /\ MaxGeneration \in Nat /\ MaxDecisions \in Nat /\ MaxRestarts \in Nat
    /\ 1 .. MaxGeneration \subseteq Migrations

VARIABLES catalog,   \* [Nodes -> catalog]  TaskCatalogStore, in memory
          saved,     \* [Nodes -> catalog]  task_catalog.json
          answering, \* [Nodes -> SUBSET Runs]  create_run between catalog and registry
          known,     \* [Nodes -> SUBSET Runs]  definitions in the registry
          entry,     \* [Nodes -> [Runs -> Entry or Unwritten]]  state.json files
          count,     \* [Nodes -> [Runs -> Nat]]  decision_count, adaptive-policy.json
          round,     \* [Nodes -> ...]  run_once of the anti-entropy loop
          told,      \* [Nodes -> SUBSET ...]  _broadcasted_completions
          posts,     \* POSTs to /ownership on their way
          moving,    \* handovers that the source has not finalized
          restarts

vars == <<catalog, saved, answering, known, entry, count, round, told, posts, moving, restarts>>
catalogs == <<catalog, saved, answering>>
claims == <<entry, count>>

Unwritten == [status |-> "unwritten"]
AllRuns(n) == {r.run : r \in catalog[n].runs}
Peers(n) == Nodes \ {n}
NewRound(n) == [at |-> "catalogs", todo |-> Peers(n), got |-> <<>>]

TypeOK ==
    /\ \A n \in Nodes : \A c \in {catalog[n], saved[n]} :
         /\ \A d \in c.defs : [id |-> d.id, digest |-> d.digest] \in UNION Range(Submissions) /\ d.rev \in Nat
         /\ \A r \in c.runs : r.run \in Runs /\ r.request \in UNION Range(Requests) /\ r.owner \in Nodes
    /\ answering \in [Nodes -> SUBSET Runs]
    /\ known \in [Nodes -> SUBSET Runs]
    /\ \A n \in Nodes, r \in Runs :
         /\ entry[n][r] = Unwritten \/ (entry[n][r] \in Entry /\ entry[n][r].gen <= MaxGeneration)
         /\ r \in known[n] => entry[n][r] # Unwritten
         /\ count[n][r] \in 0 .. MaxDecisions
    /\ \A n \in Nodes : round[n].at \in {"catalogs", "ask", "claims"} /\ round[n].todo # {}
    /\ restarts \in 0 .. MaxRestarts

Init ==
    /\ catalog = [n \in Nodes |-> Empty]
    /\ saved = [n \in Nodes |-> Empty]
    /\ answering = [n \in Nodes |-> {}]
    /\ known = [n \in Nodes |-> {}]
    /\ entry = [n \in Nodes |-> [r \in Runs |-> Unwritten]]
    /\ count = [n \in Nodes |-> [r \in Runs |-> 0]]
    /\ round = [n \in Nodes |-> NewRound(n)]
    /\ told = [n \in Nodes |-> {}]
    /\ posts = {}
    /\ moving = {}
    /\ restarts = 0

-------------------------------------------------------------------------------
(* Submissions. *)

Store(n, c) == catalog' = [catalog EXCEPT ![n] = c] /\ saved' = [saved EXCEPT ![n] = c]

SubmitDefinition(n, s) ==
    /\ RegisterDefinition(catalog[n], s.id, s.digest) # catalog[n]
    /\ Store(n, RegisterDefinition(catalog[n], s.id, s.digest))
    /\ UNCHANGED <<answering, known, claims, round, told, posts, moving, restarts>>

CreateRun(n, q, r) ==
    /\ MayCreate(catalog[n], q)
    /\ \A o \in Nodes : r \notin AllRuns(o) \cup {x.run : x \in saved[o].runs}
    /\ Store(n, [catalog[n] EXCEPT !.runs = @ \cup {NewRun(catalog[n], q, r, n)}])
    /\ answering' = [answering EXCEPT ![n] = @ \cup {r}]
    /\ UNCHANGED <<known, claims, round, told, posts, moving, restarts>>

(* The same request again finds the run in memory; nothing is written. *)
CreateRunAgain(n, q) ==
    /\ \E r \in RunsWithKey(catalog[n], q.key) :
         /\ r.request = q
         /\ r.run \notin known[n] \cup answering[n]
         /\ answering' = [answering EXCEPT ![n] = @ \cup {r.run}]
    /\ UNCHANGED <<catalog, saved, known, claims, round, told, posts, moving, restarts>>

(* Mutant: the entry of a new run is not written. *)
Entered_Missing(n, r, e) == e

(* PersistentTaskRegistry.register_definition: an entry left by an earlier
   life of the daemon is kept. *)
Entered(n, r, e) == IF e = Unwritten THEN InitialEntry(n, r.owner) ELSE e
Register(n, rs) ==
    /\ known' = [known EXCEPT ![n] = @ \cup {r.run : r \in rs}]
    /\ entry' = [entry EXCEPT ![n] = [i \in Runs |->
                    IF \E r \in rs : r.run = i
                    THEN Entered(n, CHOOSE r \in rs : r.run = i, entry[n][i])
                    ELSE entry[n][i]]]

RegisterRun(n, r) ==
    /\ r.run \in answering[n]
    /\ answering' = [answering EXCEPT ![n] = @ \ {r.run}]
    /\ Register(n, {r})
    /\ UNCHANGED <<catalog, saved, count, round, told, posts, moving, restarts>>

-------------------------------------------------------------------------------
(* What owners do. *)

Owns(n, r) == r \in known[n] /\ entry[n][r].owner = n /\ entry[n][r].status = "stopped"
SetEntry(n, r, e) == entry' = [entry EXCEPT ![n][r] = e]

Decide(n, r) ==
    /\ Owns(n, r) /\ count[n][r] < MaxDecisions
    /\ count' = [count EXCEPT ![n][r] = @ + 1]
    /\ UNCHANGED <<catalogs, known, entry, round, told, posts, moving, restarts>>

Complete(n, r) ==
    /\ Owns(n, r)
    /\ SetEntry(n, r, MarkCompleted(entry[n][r]))
    /\ UNCHANGED <<catalogs, known, count, round, told, posts, moving, restarts>>

(* The source is migrating and the destination has claimed the task: the
   decisions come with the activation request. *)
HandOver(n, m, r) ==
    /\ m # n /\ Owns(n, r) /\ r \in known[m]
    /\ entry[n][r].gen < MaxGeneration
    /\ CanClaim(entry[m][r], entry[n][r].gen + 1)
    /\ LET g == entry[n][r].gen + 1
       IN  /\ entry' = [entry EXCEPT ![n][r] = MarkMigrating(@, g), ![m][r] = ClaimLocal(m, @, g, g)]
           /\ moving' = moving \cup {[from |-> n, to |-> m, run |-> r, gen |-> g]}
    /\ count' = [count EXCEPT ![m][r] = IF count[n][r] > @ THEN count[n][r] ELSE @]
    /\ UNCHANGED <<catalogs, known, round, told, posts, restarts>>

(* OwnershipBroadcaster.broadcast reaches some peers and the request of each
   is handled some time later. *)
Post(n, r, e, reached) ==
    posts' = posts \cup {[to |-> m, run |-> r, claim |-> Claim(e), count |-> count[n][r]] : m \in reached}

(* _finalize_source_success: mark_remote does not look at the generation. *)
Finalize(h) ==
    LET e == MarkRemote(entry[h.from][h.run], h.to, h.gen, h.gen)
    IN  /\ h \in moving /\ h.run \in known[h.from]
        /\ moving' = moving \ {h}
        /\ SetEntry(h.from, h.run, e)
        /\ \E reached \in SUBSET Peers(h.from) :
             Post(h.from, h.run, [e EXCEPT !.owner = h.to, !.gen = h.gen, !.status = "remote"], reached)
        /\ UNCHANGED <<catalogs, known, count, round, told, restarts>>

(* _reconcile_source_record closes the record without a word when the entry
   names the destination already. *)
Close(h) ==
    /\ h.run \in known[h.from]
    /\ entry[h.from][h.run].owner = h.to /\ entry[h.from][h.run].gen >= h.gen
    /\ moving' = moving \ {h}
    /\ UNCHANGED <<catalogs, known, claims, round, told, posts, restarts>>

(* _broadcast_completed_states: once for each completion and life of the
   daemon, whoever the broadcast reached. *)
Untold(n) == {r \in known[n] : entry[n][r].owner = n /\ entry[n][r].status = "completed"
                               /\ <<r, entry[n][r].gen>> \notin told[n]}
BroadcastCompleted(n, r) ==
    /\ r \in Untold(n)
    /\ \E reached \in SUBSET Peers(n) : Post(n, r, entry[n][r], reached)
    /\ told' = [told EXCEPT ![n] = @ \cup {<<r, entry[n][r].gen>>}]
    /\ UNCHANGED <<catalogs, known, claims, round, moving, restarts>>

-------------------------------------------------------------------------------
(* Claims of others. *)

(* AdaptivePolicyStore.merge, with the number of decisions for the version. *)
Newer(mine, other) == IF other > mine THEN other ELSE mine

(* One update for an entry and a decision count. *)
Heard(n, x, u) ==
    IF Accepts(x.e, u.claim)
    THEN [e |-> ApplyOwnership(n, x.e, u.claim), c |-> Newer(x.c, u.count)]
    ELSE x

(* ownership_update: an unknown task is answered with 404. *)
Deliver(p) ==
    LET x == Heard(p.to, [e |-> entry[p.to][p.run], c |-> count[p.to][p.run]], p)
    IN  /\ posts' = posts \ {p}
        /\ IF p.run \in known[p.to]
           THEN SetEntry(p.to, p.run, x.e) /\ count' = [count EXCEPT ![p.to][p.run] = x.c]
           ELSE UNCHANGED claims
        /\ UNCHANGED <<catalogs, known, round, told, moving, restarts>>

-------------------------------------------------------------------------------
(* The anti-entropy loop. *)

Go(n, at, todo, got) == round' = [round EXCEPT ![n] = [at |-> at, todo |-> todo, got |-> got]]
NextPeer(n) == Min(round[n].todo)
NextCatalog(n) ==
    IF round[n].todo = {NextPeer(n)} THEN Go(n, "ask", Peers(n), <<>>)
                                     ELSE Go(n, "catalogs", round[n].todo \ {NextPeer(n)}, <<>>)

(* Mutant: the runs of a snapshot are not registered. *)
Added_None(n, c) == {}

Added(n, c) == c.runs \ catalog[n].runs

(* _reconcile_catalog, one peer after the other: merge the answer and register
   the runs it added.  What the peer adds while its answer is on the way could
   as well come after the merge, so the answer is what it knows now.  A conflict
   ends run_once: nothing is saved or registered, the peers after this one are
   dropped and ownership is not looked at. *)
MergeCatalog(n, m) ==
    LET c == MergeSnapshot(catalog[n], catalog[m])
    IN  /\ round[n].at = "catalogs" /\ m = NextPeer(n)
        /\ catalog' = [catalog EXCEPT ![n] = c]
        /\ IF Conflict(catalog[n], catalog[m])
           THEN /\ round' = [round EXCEPT ![n] = NewRound(n)]
                /\ UNCHANGED <<saved, known, entry>>
           ELSE /\ saved' = [saved EXCEPT ![n] = IF c = catalog[n] THEN @ ELSE c]
                /\ Register(n, Added(n, c))
                /\ NextCatalog(n)
        /\ UNCHANGED <<answering, count, told, posts, moving, restarts>>

(* A peer that does not answer is left out. *)
NoCatalog(n) ==
    /\ round[n].at = "catalogs"
    /\ NextCatalog(n)
    /\ UNCHANGED <<catalogs, known, claims, told, posts, moving, restarts>>

(* Mutant: what a peer says of a completion is left to the broadcast. *)
Updates_NotCompleted(m) ==
    [r \in {x \in known[m] : entry[m][x].status # "completed"} |->
        [claim |-> Claim(entry[m][r]), count |-> count[m][r]]]

(* GET /ownership/snapshot: the peer's claims about the tasks it knows. *)
Updates(m) == [r \in known[m] |-> [claim |-> Claim(entry[m][r]), count |-> count[m][r]]]

(* fetch_all of the ownership client: the peers that answer. *)
FetchClaims(n, answered) ==
    /\ round[n].at = "ask"
    /\ IF answered = {}
       THEN round' = [round EXCEPT ![n] = NewRound(n)]
       ELSE Go(n, "claims", answered, [m \in answered |-> Updates(m)])
    /\ UNCHANGED <<catalogs, known, claims, told, posts, moving, restarts>>

(* The updates of one peer after those of the other. *)
ApplyClaims(n) ==
    LET m == NextPeer(n)
        u == round[n].got[m]
        after(r) == IF r \in known[n] \cap DOMAIN u
                    THEN Heard(n, [e |-> entry[n][r], c |-> count[n][r]], u[r])
                    ELSE [e |-> entry[n][r], c |-> count[n][r]]
    IN  /\ round[n].at = "claims"
        /\ entry' = [entry EXCEPT ![n] = [r \in Runs |-> after(r).e]]
        /\ count' = [count EXCEPT ![n] = [r \in Runs |-> after(r).c]]
        /\ IF round[n].todo = {m}
           THEN round' = [round EXCEPT ![n] = NewRound(n)]
           ELSE Go(n, "claims", round[n].todo \ {m}, [o \in round[n].todo \ {m} |-> round[n].got[o]])
        /\ UNCHANGED <<catalogs, known, told, posts, moving, restarts>>

(* The daemon starts again from what it saved: build_context registers the
   runs of the file before anything else. *)
Restart(n) ==
    /\ restarts < MaxRestarts
    /\ restarts' = restarts + 1
    /\ catalog' = [catalog EXCEPT ![n] = saved[n]]
    /\ known' = [known EXCEPT ![n] = {r.run : r \in saved[n].runs}]
    /\ entry' = [entry EXCEPT ![n] = [i \in Runs |->
                    IF \E r \in saved[n].runs : r.run = i
                    THEN Entered(n, CHOOSE r \in saved[n].runs : r.run = i, @[i])
                    ELSE @[i]]]
    /\ answering' = [answering EXCEPT ![n] = {}]
    /\ round' = [round EXCEPT ![n] = NewRound(n)]
    /\ told' = [told EXCEPT ![n] = {}]
    /\ UNCHANGED <<saved, count, posts, moving>>

-------------------------------------------------------------------------------
Reconcile(n) ==
    \/ \E m \in Peers(n) : MergeCatalog(n, m)
    \/ NoCatalog(n)
    \/ \E s \in SUBSET Peers(n) : FetchClaims(n, s)
    \/ ApplyClaims(n)

Submit(n) ==
    \/ \E s \in Submissions[n] : SubmitDefinition(n, s)
    \/ \E q \in Requests[n], r \in Runs : CreateRun(n, q, r)
    \/ \E q \in Requests[n] : CreateRunAgain(n, q)
    \/ \E r \in catalog[n].runs : RegisterRun(n, r)

Own(n) ==
    \E r \in Busy :
      \/ Decide(n, r)
      \/ Complete(n, r)
      \/ \E m \in Nodes : HandOver(n, m, r)
      \/ BroadcastCompleted(n, r)

Next ==
    \/ \E n \in Nodes : Reconcile(n) \/ Submit(n) \/ Own(n) \/ Restart(n)
    \/ \E h \in moving : Finalize(h) \/ Close(h)
    \/ \E p \in posts : Deliver(p)

Spec == Init /\ [][Next]_vars

-------------------------------------------------------------------------------
(* A key names one run in each catalog, and every run can be materialized, in
   memory and after a restart: the merge never lets in a second run with a key
   and takes the definitions first. *)
CatalogIsSound ==
    \A n \in Nodes : \A c \in {catalog[n], saved[n]} :
      /\ \A r, s \in c.runs : r.key = s.key => r = s
      /\ \A r \in c.runs : Materializes(c, r)
      /\ \A d, e \in c.defs : d.id = e.id /\ d.rev = e.rev => d = e

(* At most one node holds a task as its own at the highest generation that
   anybody has heard of. *)
OneOwner ==
    \A r \in Runs : \A n, m \in Nodes :
      LET a == entry[n][r]  b == entry[m][r]
      IN  a # Unwritten /\ b # Unwritten /\ a.gen = b.gen => a.owner = b.owner

(* What a node knows of a task's generation never gets older, nor its
   completion forgotten, except in the last step of its own handover: an
   outcome that came late may give the task away at a generation that is past
   already. *)
KnowledgeGrows ==
    [][ \A n \in Nodes, r \in Runs :
          LET a == entry[n][r]  b == entry'[n][r]
          IN  a # Unwritten =>
                \/ b.gen > a.gen
                \/ b.gen = a.gen /\ (a.status = "completed" => b.status = "completed")
                \/ \E h \in moving : h \notin moving' /\ h.from = n /\ h.run = r ]_vars

(* Nothing in two catalogs contradicts the other. *)
Compatible == \A n, m \in Nodes : ~Conflict(catalog[n], catalog[m])

(* As long as no two peers were given contradicting submissions, everybody
   comes to know every definition and every run, in memory, on disk and in the
   registry. *)
SameTasks ==
    \A n, m \in Nodes : catalog[n] = catalog[m] /\ saved[n] = catalog[n] /\ known[n] = AllRuns(n)
TasksSpread == <>[](Compatible => SameTasks)

(* ... and to agree on who owns it, whether it is completed and how often it
   was decided about: broadcasts may all be lost. *)
SameClaims ==
    \A r \in Runs : \A n, m \in Nodes :
      r \in known[n] \cap known[m] =>
        /\ entry[n][r].owner = entry[m][r].owner /\ entry[n][r].gen = entry[m][r].gen
        /\ (entry[n][r].status = "completed") = (entry[m][r].status = "completed")
        /\ count[n][r] = count[m][r]
ClaimsSpread == <>[](Compatible => SameClaims)
===============================================================================
