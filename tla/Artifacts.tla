------------------------------- MODULE Artifacts ------------------------------
(***************************************************************************)
(* The static artifacts of tasks: the cache of each node                   *)
(* (artifacts/manager.py), the prefetch to a destination before a          *)
(* migration (artifacts/prefetch.py, client.py, transfer.py) and the       *)
(* staging of what was prefetched (stage_bindings).                        *)
(*                                                                         *)
(* A digest stands for the version of the source directory it was made     *)
(* from.  Of a directory in the cache, or in artifact-incoming, only what  *)
(* validation tells apart is kept: "good", "sized" (every file has its     *)
(* size, some file has not its hash) and "short" (some file is missing or  *)
(* has another size).                                                      *)
(*                                                                         *)
(* The tasks here share an artifact.  Their links lead into the cache, so  *)
(* a task that writes to its artifacts writes to the cache: Damage.        *)
(***************************************************************************)
EXTENDS Naturals, FiniteSets

CONSTANTS ArtifactNodes,
          Origins,      \* the nodes that have the source directory
          Users,        \* the tasks that use the artifact
          Versions,     \* versions of the source directory: 1 ..
          Prefetches,   \* bound: migrations that prefetch
          MaxDamaged,   \* bound: nodes whose cache is damaged, by the disk or a task
          MaxCrashes    \* bound: crashes of daemons

ASSUME ArtifactsAssumption ==
    /\ Origins \subseteq ArtifactNodes /\ Origins # {} /\ Users # {}
    /\ Versions \subseteq Nat \ {0} /\ 1 \in Versions
    /\ MaxDamaged \in Nat /\ MaxCrashes \in Nat

VARIABLES cache,     \* [ArtifactNodes -> [Versions -> Content]]  artifact-cache/<digest>
          directory, \* [Origins -> Versions]  what is in source_directory
          recorded,  \* [ArtifactNodes -> [Users -> Digest]]  artifact_digests in the registry
          link,      \* [ArtifactNodes -> [Users -> Digest]]  the symlink of the task
          holder,    \* [Users -> ArtifactNodes]  the owner of the task
          job,       \* [Prefetches -> Job]
          damaged,   \* nodes whose cache was damaged: for the properties
          crashed

artifactVars == <<cache, directory, recorded, link, holder, job, damaged, crashed>>
places == <<directory, recorded, link, holder>>

None == 0
Content == {"none", "good", "sized", "short"}
Digest == Versions \cup {None}

(* A prefetch is made by the source for one task; at the destination a commit
   may go on after the source gave up. *)
Job == [at : {"idle", "ask", "send", "commit", "stage", "done", "failed"},
        user : Users, from : ArtifactNodes, to : ArtifactNodes, digest : Digest,
        incoming : Content,
        commit : {"none", "asked", "moved", "committed", "refused"}]

ArtifactsTypeOK ==
    /\ cache \in [ArtifactNodes -> [Versions -> Content]]
    /\ directory \in [Origins -> Versions]
    /\ recorded \in [ArtifactNodes -> [Users -> Digest]]
    /\ link \in [ArtifactNodes -> [Users -> Digest]]
    /\ holder \in [Users -> ArtifactNodes]
    /\ job \in [Prefetches -> Job]
    /\ damaged \subseteq ArtifactNodes
    /\ crashed \in 0 .. MaxCrashes

NoJob(u, n) == [at |-> "idle", user |-> u, from |-> n, to |-> n, digest |-> None,
                incoming |-> "none", commit |-> "none"]

ArtifactsInit ==
    /\ cache = [n \in ArtifactNodes |-> [v \in Versions |-> "none"]]
    /\ directory = [n \in Origins |-> 1]
    /\ recorded = [n \in ArtifactNodes |-> [u \in Users |-> None]]
    /\ link = [n \in ArtifactNodes |-> [u \in Users |-> None]]
    /\ holder \in [Users -> Origins]
    /\ job = [p \in Prefetches |-> NoJob(CHOOSE u \in Users : TRUE, CHOOSE n \in ArtifactNodes : TRUE)]
    /\ damaged = {}
    /\ crashed = 0

-------------------------------------------------------------------------------
(* The cache of a node. *)

(* has_artifact does not look at the hashes, validate_cache does. *)
Has(n, v) == cache[n][v] \in {"good", "sized"}

Valid(c) == c = "good"

(* ArtifactManager._lock, which a commit holds from the move to the validation
   and nobody else for longer than a step.  artifact_status and the staging of
   an activation do not take it. *)
Locked(n) == \E p \in Prefetches : job[p].to = n /\ job[p].commit = "moved"

(* Mutant: the source directory is imported whatever the task had. *)
Wanted_Fresh(n, u) == IF n \in Origins THEN directory[n] ELSE recorded[n][u]

(* ensure_task_artifacts: what the task had, if that seems to be there, or
   else what is in the source directory now. *)
Wanted(n, u) ==
    IF recorded[n][u] # None /\ Has(n, recorded[n][u]) THEN recorded[n][u]
    ELSE IF n \in Origins THEN directory[n] ELSE None

(* _import_source publishes a copy of the directory under the digest that it had
   before, and validates it afterwards: what changed in between (c # "good")
   stays in the cache.  A directory that is there already is never replaced. *)
Import(n, u, c) ==
    /\ holder[u] = n /\ ~Locked(n)
    /\ n \in Origins /\ Wanted(n, u) = directory[n]
    /\ cache[n][directory[n]] = "none" /\ c # "none"
    /\ cache' = [cache EXCEPT ![n][directory[n]] = c]
    /\ IF c = "good" THEN UNCHANGED directory
       ELSE directory[n] + 1 \in Versions /\ directory' = [directory EXCEPT ![n] = @ + 1]
    /\ UNCHANGED <<recorded, link, holder, job, damaged, crashed>>

(* The binding is what the task wants, and valid. *)
Bound(n, u) == Wanted(n, u) # None /\ Valid(cache[n][Wanted(n, u)])

(* stage_bindings, once the binding is valid *)
Stage(n, u, v) ==
    /\ link' = [link EXCEPT ![n][u] = v]
    /\ recorded' = [recorded EXCEPT ![n][u] = v]

(* A start of the task, or a look at what its migration would cost. *)
Ensure(n, u) ==
    /\ holder[u] = n /\ ~Locked(n) /\ Bound(n, u)
    /\ Stage(n, u, Wanted(n, u))
    /\ UNCHANGED <<cache, directory, holder, job, damaged, crashed>>

-------------------------------------------------------------------------------
(* The prefetch of a migration. *)

SetJob(p, j) == job' = [job EXCEPT ![p] = j]
Prefetching(u) == \E p \in Prefetches : job[p].user = u /\ job[p].at \notin {"idle", "done", "failed"}

(* prefetch begins with ensure_task_artifacts. *)
Begin(p, u, m) ==
    LET n == holder[u]
    IN  /\ job[p].at = "idle" /\ ~Prefetching(u) /\ m # n /\ ~Locked(n) /\ Bound(n, u)
        /\ Stage(n, u, Wanted(n, u))
        /\ SetJob(p, [NoJob(u, n) EXCEPT !.at = "ask", !.to = m, !.digest = Wanted(n, u)])
        /\ UNCHANGED <<cache, directory, holder, damaged, crashed>>

(* POST /artifacts/status *)
Ask(p) ==
    /\ job[p].at = "ask"
    /\ SetJob(p, [job[p] EXCEPT !.at = IF Has(job[p].to, job[p].digest) THEN "stage" ELSE "send"])
    /\ UNCHANGED <<cache, places, damaged, crashed>>

(* rsync, and the request to commit *)
Send(p) ==
    /\ job[p].at = "send" /\ cache[job[p].from][job[p].digest] # "none"
    /\ SetJob(p, [job[p] EXCEPT !.at = "commit", !.commit = "asked",
                                !.incoming = cache[job[p].from][job[p].digest]])
    /\ UNCHANGED <<cache, places, damaged, crashed>>

(* Mutant: what was sent takes the place of what is there. *)
Move_Replace(p) ==
    LET n == job[p].to  v == job[p].digest
    IN  /\ job[p].commit = "asked" /\ ~Locked(n)
        /\ cache' = [cache EXCEPT ![n][v] = job[p].incoming]
        /\ SetJob(p, [job[p] EXCEPT !.incoming = "none", !.commit = "moved"])
        /\ UNCHANGED <<places, damaged, crashed>>

(* commit_incoming drops what was sent when the cache has the digest by now,
   and otherwise moves it there ... *)
Move(p) ==
    LET n == job[p].to  v == job[p].digest
    IN  /\ job[p].commit = "asked" /\ ~Locked(n)
        /\ IF cache[n][v] # "none"
           THEN /\ SetJob(p, [job[p] EXCEPT !.incoming = "none",
                                            !.commit = IF Valid(cache[n][v]) THEN "committed" ELSE "refused"])
                /\ UNCHANGED cache
           ELSE /\ SetJob(p, [job[p] EXCEPT !.incoming = "none", !.commit = "moved"])
                /\ cache' = [cache EXCEPT ![n][v] = job[p].incoming]
        /\ UNCHANGED <<places, damaged, crashed>>

(* ... validates it and takes it away again if it is not valid. *)
Validate(p) ==
    LET n == job[p].to  v == job[p].digest
    IN  /\ job[p].commit = "moved"
        /\ IF Valid(cache[n][v])
           THEN SetJob(p, [job[p] EXCEPT !.commit = "committed"]) /\ UNCHANGED cache
           ELSE /\ SetJob(p, [job[p] EXCEPT !.commit = "refused"])
                /\ cache' = [cache EXCEPT ![n][v] = "none"]
        /\ UNCHANGED <<places, damaged, crashed>>

Answer(p) ==
    /\ job[p].at = "commit" /\ job[p].commit \in {"committed", "refused"}
    /\ SetJob(p, [job[p] EXCEPT !.at = IF job[p].commit = "committed" THEN "stage" ELSE "failed"])
    /\ UNCHANGED <<cache, places, damaged, crashed>>

(* The activation at the destination: stage_bindings and claim_local, or the
   refusal of an entry that is not valid. *)
Activate(p) ==
    LET n == job[p].to  v == job[p].digest  u == job[p].user
    IN  /\ job[p].at = "stage"
        /\ IF Valid(cache[n][v])
           THEN /\ Stage(n, u, v)
                /\ holder' = [holder EXCEPT ![u] = n]
                /\ SetJob(p, [job[p] EXCEPT !.at = "done"])
           ELSE /\ SetJob(p, [job[p] EXCEPT !.at = "failed"])
                /\ UNCHANGED <<link, recorded, holder>>
        /\ UNCHANGED <<cache, directory, damaged, crashed>>

(* A request that fails, or an answer that does not come in time, ends the
   prefetch; a commit that was asked for goes on. *)
GiveUpPrefetch(p) ==
    /\ job[p].at \in {"ask", "send", "commit", "stage"}
    /\ SetJob(p, [job[p] EXCEPT !.at = "failed"])
    /\ UNCHANGED <<cache, places, damaged, crashed>>

-------------------------------------------------------------------------------
(* What happens to nodes. *)

(* The prefetches of the node end, and a commit stops where it is. *)
Crash(n) ==
    /\ crashed < MaxCrashes
    /\ crashed' = crashed + 1
    /\ job' = [p \in Prefetches |->
                 LET at == IF job[p].from = n /\ job[p].at \in {"ask", "send", "commit", "stage"}
                           THEN "failed" ELSE job[p].at
                     commit == IF job[p].to = n /\ job[p].commit \in {"asked", "moved"}
                               THEN "refused" ELSE job[p].commit
                 IN  [job[p] EXCEPT !.at = at, !.commit = commit]]
    /\ UNCHANGED <<cache, places, damaged>>

Damage(n, v, c) ==
    /\ Cardinality(damaged \cup {n}) <= MaxDamaged
    /\ cache[n][v] = "good" /\ c \in {"sized", "short"}
    /\ cache' = [cache EXCEPT ![n][v] = c]
    /\ damaged' = damaged \cup {n}
    /\ UNCHANGED <<places, job, crashed>>

ChangeDirectory(n) ==
    /\ directory[n] + 1 \in Versions
    /\ directory' = [directory EXCEPT ![n] = @ + 1]
    /\ UNCHANGED <<cache, recorded, link, holder, job, damaged, crashed>>

-------------------------------------------------------------------------------
Prefetch(p) ==
    \/ \E u \in Users, m \in ArtifactNodes : Begin(p, u, m)
    \/ Ask(p) \/ Send(p) \/ Move(p) \/ Validate(p) \/ Answer(p) \/ Activate(p)
    \/ GiveUpPrefetch(p)

ArtifactsNext ==
    \/ \E p \in Prefetches : Prefetch(p)
    \/ \E n \in ArtifactNodes, u \in Users : Ensure(n, u)
    \/ \E n \in ArtifactNodes, u \in Users, c \in Content : Import(n, u, c)
    \/ \E n \in ArtifactNodes : Crash(n)
    \/ \E n \in ArtifactNodes, v \in Versions, c \in Content : Damage(n, v, c)
    \/ \E n \in Origins : ChangeDirectory(n)

ArtifactsSpec == ArtifactsInit /\ [][ArtifactsNext]_artifactVars

-------------------------------------------------------------------------------
(* What a task is linked to is whole, on every node whose own cache was never
   damaged: neither a damaged source, nor a crash in the middle of a commit,
   nor the failing transfer of another task's migration gives it a directory
   that is not, or takes away the one it has. *)
LinkedIsGood ==
    \A n \in ArtifactNodes, u \in Users :
      link[n][u] # None /\ n \notin damaged => cache[n][link[n][u]] = "good"

(* A task goes on with the version of the artifact that it began with, however
   often it is started and wherever it moves while the directory it came from
   changes -- as long as no cache is damaged. *)
VersionKept ==
    [][ \A u \in Users :
          LET v == recorded[holder[u]][u]
          IN  v # None /\ damaged' = {} => recorded'[holder'[u]][u] = v ]_artifactVars
===============================================================================
