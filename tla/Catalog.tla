-------------------------------- MODULE Catalog -------------------------------
(***************************************************************************)
(* The operations of TaskCatalogStore (src/magellan/submission/catalog.py) *)
(* as functions on catalogs.                                               *)
(*                                                                         *)
(* A definition is [id, rev, digest]; a run is [run, key, request, id,     *)
(* rev, digest, owner], where the request is what canonical_digest tells   *)
(* apart: a record [key, id, rev, owner] whose rev or owner may be left    *)
(* open.  Ids, run ids and nodes are numbers, in the order in which the    *)
(* code sorts them.                                                        *)
(***************************************************************************)
EXTENDS Naturals, FiniteSetsExt

Open == 0       \* a request's revision or owner that was not given
Empty == [defs |-> {}, runs |-> {}]

Revisions(c, id) == {d \in c.defs : d.id = id}
LastRevision(c, id) == Max({0} \cup {d.rev : d \in Revisions(c, id)})

(* register_definition: the content decides whether the definition is there. *)
RegisterDefinition(c, id, digest) ==
    IF \E d \in Revisions(c, id) : d.digest = digest
    THEN c
    ELSE [c EXCEPT !.defs = @ \cup
             {[id |-> id, rev |-> LastRevision(c, id) + 1, digest |-> digest]}]

(* get_definition *)
Meant(c, request) ==
    {d \in Revisions(c, request.id) :
        d.rev = IF request.rev = Open THEN LastRevision(c, request.id) ELSE request.rev}

(* create_run answers with the run that has the key already, refuses a key
   that was used for something else, and otherwise makes a run. *)
RunsWithKey(c, key) == {r \in c.runs : r.key = key}
MayCreate(c, request) == RunsWithKey(c, request.key) = {} /\ Meant(c, request) # {}
NewRun(c, request, id, here) ==
    LET d == CHOOSE d \in Meant(c, request) : TRUE
    IN  [run |-> id, key |-> request.key, request |-> request,
         id |-> d.id, rev |-> d.rev, digest |-> d.digest,
         owner |-> IF request.owner = Open THEN here ELSE request.owner]

(* materialize_run *)
Materializes(c, r) == [id |-> r.id, rev |-> r.rev, digest |-> r.digest] \in c.defs

(* merge_snapshot takes the definitions in order and then the runs in order,
   up to the first that conflicts: it raises there, and what came before stays
   in memory. *)
Before(d, e) == d.id < e.id \/ (d.id = e.id /\ d.rev < e.rev)
Clashes(c, d) == \E e \in c.defs : e.id = d.id /\ e.rev = d.rev /\ e.digest # d.digest
MergeDefinitions(c, s) ==
    [c EXCEPT !.defs = @ \cup
        {d \in s.defs : \A e \in s.defs : Clashes(c, e) => Before(d, e)}]

(* Mutant: the key of a run is not compared. *)
ClashesRun_AnyKey(c, r) ==
    \/ \E o \in c.runs : o.run = r.run /\ o # r
    \/ r \notin c.runs /\ ~Materializes(c, r)

ClashesRun(c, r) ==
    \/ \E o \in c.runs : o.run # r.run /\ o.key = r.key
    \/ \E o \in c.runs : o.run = r.run /\ o # r
    \/ r \notin c.runs /\ ~Materializes(c, r)

MergeRuns(c, s) ==
    [c EXCEPT !.runs = @ \cup
        {r \in s.runs : \A o \in s.runs : ClashesRun(c, o) => r.run < o.run}]

Conflict(c, s) ==
    \/ \E d \in s.defs : Clashes(c, d)
    \/ \E r \in s.runs : ClashesRun(MergeDefinitions(c, s), r)

MergeSnapshot(c, s) ==
    LET known == MergeDefinitions(c, s)
    IN  IF \E d \in s.defs : Clashes(c, d) THEN known ELSE MergeRuns(known, s)
===============================================================================
