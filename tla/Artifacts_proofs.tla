---------------------------- MODULE Artifacts_proofs ---------------------------
(***************************************************************************)
(* Artifacts, for all nodes, tasks, versions and prefetches: types, that   *)
(* what a task is linked to is whole, and that it keeps its version.       *)
(***************************************************************************)
EXTENDS Artifacts, TLAPS

Active(p) == job[p].at \notin {"idle", "done", "failed"}

(* A prefetch that has begun is about a version, and so is a commit. *)
DigestKnown ==
    \A p \in Prefetches :
      Active(p) \/ job[p].commit # "none" => job[p].digest \in Versions

TypeInv == ArtifactsTypeOK /\ DigestKnown

USE ArtifactsAssumption DEF ArtifactsAssumption

LEMMA NoneIsNoVersion == None \notin Versions
BY DEF None

LEMMA Init_TypeInv == ArtifactsInit => TypeInv
<1> SUFFICES ASSUME ArtifactsInit PROVE TypeInv
  OBVIOUS
<1>1. (CHOOSE u \in Users : TRUE) \in Users OBVIOUS
<1>2. (CHOOSE n \in ArtifactNodes : TRUE) \in ArtifactNodes OBVIOUS
<1>3. ArtifactsTypeOK
  BY <1>1, <1>2 DEF ArtifactsInit, ArtifactsTypeOK, Job, NoJob, Digest, Content
<1>4. DigestKnown
  BY DEF ArtifactsInit, DigestKnown, Active, NoJob
<1> QED BY <1>3, <1>4 DEF TypeInv

(* The three ways in which a step changes a variable that has a type. *)
LEMMA SetJob_Type ==
  ASSUME job \in [Prefetches -> Job], DigestKnown,
         NEW p \in Prefetches, NEW j \in Job, SetJob(p, j),
         j.at \notin {"idle", "done", "failed"} \/ j.commit # "none" => j.digest \in Versions
  PROVE  job' \in [Prefetches -> Job] /\ DigestKnown'
<1>1. job' \in [Prefetches -> Job] BY DEF SetJob
<1>2. DigestKnown' BY DEF SetJob, DigestKnown, Active
<1> QED BY <1>1, <1>2

LEMMA Stage_Type ==
  ASSUME link \in [ArtifactNodes -> [Users -> Digest]],
         recorded \in [ArtifactNodes -> [Users -> Digest]],
         NEW n \in ArtifactNodes, NEW u \in Users, NEW v \in Digest, Stage(n, u, v)
  PROVE  /\ link' \in [ArtifactNodes -> [Users -> Digest]]
         /\ recorded' \in [ArtifactNodes -> [Users -> Digest]]
BY DEF Stage

LEMMA Wanted_Type ==
  ASSUME ArtifactsTypeOK, NEW n \in ArtifactNodes, NEW u \in Users, Wanted(n, u) # None
  PROVE  Wanted(n, u) \in Versions
BY DEF ArtifactsTypeOK, Wanted, Digest

LEMMA Next_TypeInv == TypeInv /\ [ArtifactsNext]_artifactVars => TypeInv'
<1> SUFFICES ASSUME TypeInv, [ArtifactsNext]_artifactVars PROVE TypeInv'
  OBVIOUS
<1>0. ArtifactsTypeOK /\ DigestKnown BY DEF TypeInv
<1>c. cache \in [ArtifactNodes -> [Versions -> Content]] BY <1>0 DEF ArtifactsTypeOK
<1>n. crashed \in 0 .. MaxCrashes BY <1>0 DEF ArtifactsTypeOK
<1>1. ASSUME NEW p \in Prefetches, NEW u \in Users, NEW m \in ArtifactNodes, Begin(p, u, m)
      PROVE  TypeInv'
  <2> DEFINE n == holder[u]
             v == Wanted(n, u)
             j == [NoJob(u, n) EXCEPT !.at = "ask", !.to = m, !.digest = v]
  <2>1. n \in ArtifactNodes BY <1>0 DEF ArtifactsTypeOK
  <2>2. v \in Versions BY <1>0, <1>1, <2>1, Wanted_Type DEF Begin, Bound
  <2>3. cache' \in [ArtifactNodes -> [Versions -> Content]] BY <1>c, <1>1 DEF Begin
  <2>4. j \in Job BY <2>1, <2>2 DEF NoJob, Job, Digest, Content
  <2>5. job' \in [Prefetches -> Job] /\ DigestKnown'
    <3>1. SetJob(p, j) BY <1>1 DEF Begin
    <3>2. j.digest \in Versions BY <2>2 DEF NoJob
    <3> HIDE DEF j
    <3> QED BY <1>0, <2>4, <3>1, <3>2, SetJob_Type DEF ArtifactsTypeOK
  <2>6. /\ link' \in [ArtifactNodes -> [Users -> Digest]]
        /\ recorded' \in [ArtifactNodes -> [Users -> Digest]]
    BY <1>0, <1>1, <2>1, <2>2, Stage_Type DEF Begin, ArtifactsTypeOK, Digest
  <2> QED BY <1>0, <1>1, <2>3, <2>5, <2>6 DEF Begin, ArtifactsTypeOK, TypeInv
<1>2. ASSUME NEW p \in Prefetches, NEW j \in Job, SetJob(p, j),
             Active(p) \/ job[p].commit # "none", j.digest = job[p].digest,
             UNCHANGED <<directory, damaged, crashed>>,
             cache' \in [ArtifactNodes -> [Versions -> Content]],
             /\ link' \in [ArtifactNodes -> [Users -> Digest]]
             /\ recorded' \in [ArtifactNodes -> [Users -> Digest]],
             holder' \in [Users -> ArtifactNodes]
      PROVE  TypeInv'
  <2>1. j.digest \in Versions BY <1>0, <1>2 DEF DigestKnown
  <2>2. job' \in [Prefetches -> Job] /\ DigestKnown'
    BY <1>0, <1>2, <2>1, SetJob_Type DEF ArtifactsTypeOK
  <2> QED BY <1>0, <1>2, <2>2 DEF ArtifactsTypeOK, TypeInv
<1>3. ASSUME NEW p \in Prefetches, Ask(p) PROVE TypeInv'
  <2> DEFINE j == [job[p] EXCEPT !.at = IF Has(job[p].to, job[p].digest) THEN "stage" ELSE "send"]
  <2>1. j \in Job BY <1>0 DEF ArtifactsTypeOK, Job
  <2>2. j.digest = job[p].digest /\ SetJob(p, j) BY <1>0, <1>3 DEF Ask, ArtifactsTypeOK, Job
  <2>3. Active(p) BY <1>3 DEF Ask, Active
  <2> HIDE DEF j
  <2> QED BY <1>0, <1>2, <1>3, <2>1, <2>2, <2>3 DEF Ask, places, ArtifactsTypeOK
<1>4. ASSUME NEW p \in Prefetches, Send(p) PROVE TypeInv'
  <2> DEFINE j == [job[p] EXCEPT !.at = "commit", !.commit = "asked",
                                 !.incoming = cache[job[p].from][job[p].digest]]
  <2>1. job[p].digest \in Versions /\ job[p].from \in ArtifactNodes
    BY <1>0, <1>4 DEF Send, ArtifactsTypeOK, DigestKnown, Active, Job
  <2> DEFINE c == cache[job[p].from][job[p].digest]
  <2>5. c \in Content BY <1>c, <2>1
  <2>6. j = [job[p] EXCEPT !.at = "commit", !.commit = "asked", !.incoming = c] OBVIOUS
  <2>2. j \in Job
    <3> HIDE DEF c, j
    <3> QED BY <1>0, <2>5, <2>6 DEF ArtifactsTypeOK, Job
  <2>3. j.digest = job[p].digest /\ SetJob(p, j) BY <1>0, <1>4 DEF Send, ArtifactsTypeOK, Job
  <2>4. Active(p) BY <1>4 DEF Send, Active
  <2> HIDE DEF j
  <2> QED BY <1>0, <1>2, <1>4, <2>2, <2>3, <2>4 DEF Send, places, ArtifactsTypeOK
<1>5. ASSUME NEW p \in Prefetches, Move(p) PROVE TypeInv'
  <2> DEFINE n == job[p].to
             v == job[p].digest
             c == IF cache[n][v] # "none"
                  THEN IF Valid(cache[n][v]) THEN "committed" ELSE "refused" ELSE "moved"
             j == [job[p] EXCEPT !.incoming = "none", !.commit = c]
  <2>1. job[p].commit # "none" BY <1>5 DEF Move
  <2>2. j \in Job BY <1>0 DEF ArtifactsTypeOK, Job, Content
  <2>3. j.digest = job[p].digest BY <1>0 DEF ArtifactsTypeOK, Job
  <2>4. SetJob(p, j) BY <1>5 DEF Move
  <2>5. cache' \in [ArtifactNodes -> [Versions -> Content]]
    <3>1. job[p].incoming \in Content BY <1>0 DEF ArtifactsTypeOK, Job
    <3>2. cache' = cache \/ cache' = [cache EXCEPT ![n][v] = job[p].incoming] BY <1>5 DEF Move
    <3> QED BY <1>c, <3>1, <3>2
  <2> HIDE DEF j
  <2> QED BY <1>0, <1>2, <1>5, <2>1, <2>2, <2>3, <2>4, <2>5 DEF Move, places, ArtifactsTypeOK
<1>6. ASSUME NEW p \in Prefetches, Validate(p) PROVE TypeInv'
  <2> DEFINE n == job[p].to
             v == job[p].digest
             j == [job[p] EXCEPT !.commit = IF Valid(cache[n][v]) THEN "committed" ELSE "refused"]
  <2>1. job[p].commit # "none" BY <1>6 DEF Validate
  <2>2. j \in Job BY <1>0 DEF ArtifactsTypeOK, Job
  <2>3. j.digest = job[p].digest BY <1>0 DEF ArtifactsTypeOK, Job
  <2>4. SetJob(p, j) BY <1>6 DEF Validate
  <2>5. cache' \in [ArtifactNodes -> [Versions -> Content]]
    <3>1. cache' = cache \/ cache' = [cache EXCEPT ![n][v] = "none"] BY <1>6 DEF Validate
    <3>2. "none" \in Content BY DEF Content
    <3> QED BY <1>c, <3>1, <3>2
  <2> HIDE DEF j
  <2> QED BY <1>0, <1>2, <1>6, <2>1, <2>2, <2>3, <2>4, <2>5 DEF Validate, places, ArtifactsTypeOK
<1>7. ASSUME NEW p \in Prefetches, Answer(p) PROVE TypeInv'
  <2> DEFINE j == [job[p] EXCEPT !.at = IF job[p].commit = "committed" THEN "stage" ELSE "failed"]
  <2>1. j \in Job BY <1>0 DEF ArtifactsTypeOK, Job
  <2>2. j.digest = job[p].digest /\ SetJob(p, j) BY <1>0, <1>7 DEF Answer, ArtifactsTypeOK, Job
  <2>3. Active(p) BY <1>7 DEF Answer, Active
  <2> HIDE DEF j
  <2> QED BY <1>0, <1>2, <1>7, <2>1, <2>2, <2>3 DEF Answer, places, ArtifactsTypeOK
<1>8. ASSUME NEW p \in Prefetches, Activate(p) PROVE TypeInv'
  <2> DEFINE n == job[p].to
             v == job[p].digest
             u == job[p].user
             j == [job[p] EXCEPT !.at = IF Valid(cache[n][v]) THEN "done" ELSE "failed"]
  <2>1. n \in ArtifactNodes /\ u \in Users BY <1>0 DEF ArtifactsTypeOK, Job
  <2>2. v \in Digest BY <1>0 DEF ArtifactsTypeOK, Job
  <2>3. j \in Job BY <1>0 DEF ArtifactsTypeOK, Job
  <2>4. j.digest = job[p].digest BY <1>0 DEF ArtifactsTypeOK, Job
  <2>5. SetJob(p, j) BY <1>8 DEF Activate
  <2>6. Active(p) BY <1>8 DEF Activate, Active
  <2>7. /\ link' \in [ArtifactNodes -> [Users -> Digest]]
        /\ recorded' \in [ArtifactNodes -> [Users -> Digest]]
        /\ holder' \in [Users -> ArtifactNodes]
    <3>1. CASE Valid(cache[n][v])
      <4>1. Stage(n, u, v) /\ holder' = [holder EXCEPT ![u] = n] BY <1>8, <3>1 DEF Activate
      <4> QED BY <1>0, <2>1, <2>2, <4>1, Stage_Type DEF ArtifactsTypeOK
    <3>2. CASE ~Valid(cache[n][v])
      BY <1>0, <1>8, <3>2 DEF Activate, ArtifactsTypeOK
    <3> QED BY <3>1, <3>2
  <2>8. UNCHANGED <<cache, directory, damaged, crashed>> BY <1>8 DEF Activate
  <2> HIDE DEF j, n, v, u
  <2> QED BY <1>0, <1>2, <2>3, <2>4, <2>5, <2>6, <2>7, <2>8 DEF ArtifactsTypeOK
<1>9. ASSUME NEW p \in Prefetches, GiveUpPrefetch(p) PROVE TypeInv'
  <2> DEFINE j == [job[p] EXCEPT !.at = "failed"]
  <2>1. j \in Job BY <1>0 DEF ArtifactsTypeOK, Job
  <2>2. j.digest = job[p].digest /\ SetJob(p, j)
    BY <1>0, <1>9 DEF GiveUpPrefetch, ArtifactsTypeOK, Job
  <2>3. Active(p) BY <1>9 DEF GiveUpPrefetch, Active
  <2> HIDE DEF j
  <2> QED BY <1>0, <1>2, <1>9, <2>1, <2>2, <2>3 DEF GiveUpPrefetch, places, ArtifactsTypeOK
<1>10. ASSUME NEW n \in ArtifactNodes, NEW u \in Users, Ensure(n, u) PROVE TypeInv'
  <2> DEFINE v == Wanted(n, u)
  <2>1. v \in Versions BY <1>0, <1>10, Wanted_Type DEF Ensure, Bound
  <2>2. cache' \in [ArtifactNodes -> [Versions -> Content]] BY <1>c, <1>10 DEF Ensure
  <2>3. /\ link' \in [ArtifactNodes -> [Users -> Digest]]
        /\ recorded' \in [ArtifactNodes -> [Users -> Digest]]
    BY <1>0, <1>10, <2>1, Stage_Type DEF Ensure, ArtifactsTypeOK, Digest
  <2> QED BY <1>0, <1>10, <2>2, <2>3 DEF Ensure, ArtifactsTypeOK, TypeInv, DigestKnown, Active
<1>11. ASSUME NEW n \in ArtifactNodes, Crash(n) PROVE TypeInv'
  <2>1. job' \in [Prefetches -> Job]
    <3>1. ASSUME NEW p \in Prefetches PROVE job'[p] \in Job
      <4>1. PICK at \in {"failed", job[p].at}, commit \in {"refused", job[p].commit} :
              job'[p] = [job[p] EXCEPT !.at = at, !.commit = commit]
        BY <1>11 DEF Crash
      <4>2. job[p] \in Job BY <1>0 DEF ArtifactsTypeOK
      <4> QED BY <4>1, <4>2 DEF Job
    <3>2. job' = [p \in Prefetches |-> job'[p]] BY <1>11 DEF Crash
    <3> QED BY <3>1, <3>2
  <2>2. DigestKnown' BY <1>0, <1>11 DEF Crash, ArtifactsTypeOK, DigestKnown, Active, Job
  <2>4. crashed < MaxCrashes /\ crashed' = crashed + 1 BY <1>11 DEF Crash
  <2>5. MaxCrashes \in Nat BY ArtifactsAssumption
  <2>3. crashed' \in 0 .. MaxCrashes BY <1>n, <2>4, <2>5
  <2> QED BY <1>0, <1>11, <2>1, <2>2, <2>3 DEF Crash, ArtifactsTypeOK, TypeInv, places
<1>12. ASSUME NEW n \in ArtifactNodes, NEW v \in Versions, NEW c \in Content, Damage(n, v, c)
       PROVE  TypeInv'
  <2>1. cache' \in [ArtifactNodes -> [Versions -> Content]]
    BY <1>0, <1>12 DEF Damage, ArtifactsTypeOK
  <2> QED BY <1>0, <1>12, <2>1 DEF Damage, ArtifactsTypeOK, TypeInv, DigestKnown, Active, places
<1>13. ASSUME NEW n \in Origins, ChangeDirectory(n) PROVE TypeInv'
  BY <1>0, <1>13 DEF ChangeDirectory, ArtifactsTypeOK, TypeInv, DigestKnown, Active
<1>15. ASSUME NEW n \in ArtifactNodes, NEW u \in Users, NEW c \in Content, Import(n, u, c)
       PROVE  TypeInv'
  <2>1. n \in Origins /\ directory[n] \in Versions
    BY <1>0, <1>15 DEF Import, ArtifactsTypeOK
  <2>2. cache' \in [ArtifactNodes -> [Versions -> Content]]
    BY <1>c, <1>15, <2>1 DEF Import
  <2>3. directory' \in [Origins -> Versions] BY <1>0, <1>15, <2>1 DEF Import, ArtifactsTypeOK
  <2> QED BY <1>0, <1>15, <2>2, <2>3 DEF Import, ArtifactsTypeOK, TypeInv, DigestKnown, Active
<1>14. CASE UNCHANGED artifactVars
  BY <1>0, <1>14 DEF artifactVars, ArtifactsTypeOK, TypeInv, DigestKnown, Active
<1> QED
  BY <1>1, <1>3, <1>4, <1>5, <1>6, <1>7, <1>8, <1>9, <1>10, <1>11, <1>12, <1>13, <1>14, <1>15
     DEF ArtifactsNext, Prefetch

(* Types, and that a prefetch in progress has a version (artifacts/manager.py,
   artifacts/prefetch.py). *)
THEOREM ArtifactsTypeCorrect == ArtifactsSpec => []TypeInv
BY Init_TypeInv, Next_TypeInv, PTL DEF ArtifactsSpec

-------------------------------------------------------------------------------
(* What is linked stays good: a step leaves what is good as it is, unless it
   damages the node, and links only what is good. *)
LEMMA KeepsGood ==
  ASSUME TypeInv, LinkedIsGood, damaged \subseteq damaged',
         \A n \in ArtifactNodes, v \in Versions :
           cache[n][v] = "good" /\ n \notin damaged' => cache'[n][v] = "good",
         \A n \in ArtifactNodes, u \in Users :
           link'[n][u] = link[n][u] \/ cache'[n][link'[n][u]] = "good"
  PROVE  LinkedIsGood'
<1> SUFFICES ASSUME NEW n \in ArtifactNodes, NEW u \in Users,
                    link'[n][u] # None, n \notin damaged'
             PROVE  cache'[n][link'[n][u]] = "good"
  BY DEF LinkedIsGood
<1>1. CASE link'[n][u] = link[n][u]
  <2>1. link[n][u] \in Versions BY <1>1 DEF TypeInv, ArtifactsTypeOK, Digest, None
  <2>2. cache[n][link[n][u]] = "good" BY <1>1 DEF LinkedIsGood, None
  <2> QED BY <1>1, <2>1, <2>2
<1> QED BY <1>1

(* An entry that is not good may change. *)
LEMMA OneEntry_Keeps ==
  ASSUME cache \in [ArtifactNodes -> [Versions -> Content]],
         NEW m \in ArtifactNodes, NEW v \in Versions, NEW c,
         cache' = cache \/ (cache[m][v] # "good" /\ cache' = [cache EXCEPT ![m][v] = c])
  PROVE  \A k \in ArtifactNodes, w \in Versions : cache[k][w] = "good" => cache'[k][w] = "good"
OBVIOUS

LEMMA Stage_Links ==
  ASSUME ArtifactsTypeOK, NEW n \in ArtifactNodes, NEW u \in Users, NEW v \in Versions,
         Stage(n, u, v), NEW m \in ArtifactNodes, NEW w \in Users
  PROVE  link'[m][w] = link[m][w] \/ (m = n /\ link'[m][w] = v)
BY DEF Stage, ArtifactsTypeOK

LEMMA Next_LinkedIsGood ==
  TypeInv /\ LinkedIsGood /\ [ArtifactsNext]_artifactVars => LinkedIsGood'
<1> SUFFICES ASSUME TypeInv, LinkedIsGood, [ArtifactsNext]_artifactVars PROVE LinkedIsGood'
  OBVIOUS
<1>0. ArtifactsTypeOK /\ DigestKnown BY DEF TypeInv
<1>1. ASSUME NEW p \in Prefetches, NEW u \in Users, NEW m \in ArtifactNodes, Begin(p, u, m)
      PROVE  LinkedIsGood'
  <2> DEFINE n == holder[u]
             v == Wanted(n, u)
  <2>1. n \in ArtifactNodes BY <1>0 DEF ArtifactsTypeOK
  <2>2. v \in Versions BY <1>0, <1>1, <2>1, Wanted_Type DEF Begin, Bound
  <2>3. cache' = cache /\ Valid(cache[n][v]) /\ Stage(n, u, v) /\ damaged' = damaged
    BY <1>1 DEF Begin, Bound
  <2> HIDE DEF n, v
  <2>4. \A k \in ArtifactNodes, w \in Versions : cache[k][w] = "good" => cache'[k][w] = "good"
    BY <2>3
  <2>5. \A k \in ArtifactNodes, w \in Users :
          link'[k][w] = link[k][w] \/ cache'[k][link'[k][w]] = "good"
    BY <1>0, <2>1, <2>2, <2>3, Stage_Links DEF Valid
  <2> QED BY <2>3, <2>4, <2>5, KeepsGood
<1>2. ASSUME NEW p \in Prefetches, Move(p) PROVE LinkedIsGood'
  <2>1. \A k \in ArtifactNodes, w \in Versions : cache[k][w] = "good" => cache'[k][w] = "good"
    <3>1. \/ cache' = cache
          \/ /\ cache[job[p].to][job[p].digest] = "none"
             /\ cache' = [cache EXCEPT ![job[p].to][job[p].digest] = job[p].incoming]
      BY <1>2 DEF Move
    <3>2. job[p].to \in ArtifactNodes /\ job[p].digest \in Versions
      BY <1>0, <1>2 DEF Move, ArtifactsTypeOK, Job, DigestKnown
    <3>3. cache \in [ArtifactNodes -> [Versions -> Content]] BY <1>0 DEF ArtifactsTypeOK
    <3> QED BY <3>1, <3>2, <3>3, OneEntry_Keeps
  <2>2. link' = link /\ damaged' = damaged BY <1>2 DEF Move, places
  <2> QED BY <2>1, <2>2, KeepsGood
<1>3. ASSUME NEW p \in Prefetches, Validate(p) PROVE LinkedIsGood'
  <2>1. \A k \in ArtifactNodes, w \in Versions : cache[k][w] = "good" => cache'[k][w] = "good"
    <3>1. \/ cache' = cache
          \/ /\ cache[job[p].to][job[p].digest] # "good"
             /\ cache' = [cache EXCEPT ![job[p].to][job[p].digest] = "none"]
      BY <1>3 DEF Validate, Valid
    <3>2. job[p].to \in ArtifactNodes /\ job[p].digest \in Versions
      BY <1>0, <1>3 DEF Validate, ArtifactsTypeOK, Job, DigestKnown
    <3>3. cache \in [ArtifactNodes -> [Versions -> Content]] BY <1>0 DEF ArtifactsTypeOK
    <3> QED BY <3>1, <3>2, <3>3, OneEntry_Keeps
  <2>2. link' = link /\ damaged' = damaged BY <1>3 DEF Validate, places
  <2> QED BY <2>1, <2>2, KeepsGood
<1>4. ASSUME NEW p \in Prefetches, Activate(p) PROVE LinkedIsGood'
  <2> DEFINE n == job[p].to
             v == job[p].digest
             u == job[p].user
  <2>1. n \in ArtifactNodes /\ u \in Users BY <1>0 DEF ArtifactsTypeOK, Job
  <2>2. v \in Versions BY <1>0, <1>4 DEF Activate, DigestKnown, Active
  <2>3. cache' = cache /\ damaged' = damaged BY <1>4 DEF Activate
  <2>4. link' = link \/ (Stage(n, u, v) /\ cache[n][v] = "good") BY <1>4 DEF Activate, Valid
  <2> HIDE DEF n, v, u
  <2>5. \A k \in ArtifactNodes, w \in Users :
          link'[k][w] = link[k][w] \/ cache'[k][link'[k][w]] = "good"
    BY <1>0, <2>1, <2>2, <2>3, <2>4, Stage_Links
  <2> QED BY <2>3, <2>5, KeepsGood
<1>5. ASSUME NEW n \in ArtifactNodes, NEW u \in Users, Ensure(n, u) PROVE LinkedIsGood'
  <2> DEFINE v == Wanted(n, u)
  <2>1. v \in Versions BY <1>0, <1>5, Wanted_Type DEF Ensure, Bound
  <2>2. cache' = cache /\ damaged' = damaged BY <1>5 DEF Ensure
  <2>3. Stage(n, u, v) /\ cache[n][v] = "good" BY <1>5 DEF Ensure, Bound, Valid
  <2> HIDE DEF v
  <2>4. \A k \in ArtifactNodes, w \in Versions : cache[k][w] = "good" => cache'[k][w] = "good"
    BY <2>2
  <2>5. \A k \in ArtifactNodes, w \in Users :
          link'[k][w] = link[k][w] \/ cache'[k][link'[k][w]] = "good"
    BY <1>0, <2>1, <2>2, <2>3, Stage_Links
  <2> QED BY <2>2, <2>4, <2>5, KeepsGood
<1>6. ASSUME NEW n \in ArtifactNodes, NEW v \in Versions, NEW c \in Content, Damage(n, v, c)
      PROVE  LinkedIsGood'
  <2>1. /\ cache' = [cache EXCEPT ![n][v] = c] /\ damaged' = damaged \cup {n} /\ link' = link
    BY <1>6 DEF Damage, places
  <2>2. \A k \in ArtifactNodes, w \in Versions :
          cache[k][w] = "good" /\ k \notin damaged' => cache'[k][w] = "good"
    BY <1>0, <2>1 DEF ArtifactsTypeOK
  <2> QED BY <2>1, <2>2, KeepsGood
<1>7. CASE cache' = cache /\ link' = link /\ damaged' = damaged
  BY <1>7 DEF LinkedIsGood
<1>8. ASSUME NEW p \in Prefetches,
             Ask(p) \/ Send(p) \/ Answer(p) \/ GiveUpPrefetch(p)
      PROVE  LinkedIsGood'
  BY <1>7, <1>8 DEF Ask, Send, Answer, GiveUpPrefetch, places
<1>9. ASSUME NEW n \in ArtifactNodes, Crash(n) PROVE LinkedIsGood'
  BY <1>7, <1>9 DEF Crash, places
<1>10. ASSUME NEW n \in Origins, ChangeDirectory(n) PROVE LinkedIsGood'
  BY <1>7, <1>10 DEF ChangeDirectory
<1>11. CASE UNCHANGED artifactVars
  BY <1>7, <1>11 DEF artifactVars
<1>12. ASSUME NEW n \in ArtifactNodes, NEW u \in Users, NEW c \in Content, Import(n, u, c)
       PROVE  LinkedIsGood'
  <2>1. /\ cache[n][directory[n]] # "good"
        /\ cache' = [cache EXCEPT ![n][directory[n]] = c]
        /\ link' = link /\ damaged' = damaged
    BY <1>12 DEF Import
  <2>2. directory[n] \in Versions BY <1>0, <1>12 DEF Import, ArtifactsTypeOK
  <2>3. \A k \in ArtifactNodes, w \in Versions : cache[k][w] = "good" => cache'[k][w] = "good"
    BY <1>0, <2>1, <2>2, OneEntry_Keeps DEF ArtifactsTypeOK
  <2> QED BY <2>1, <2>3, KeepsGood
<1> QED
  BY <1>1, <1>2, <1>3, <1>4, <1>5, <1>6, <1>8, <1>9, <1>10, <1>11, <1>12 DEF ArtifactsNext, Prefetch

(* A task is never linked to a directory that is not whole on a node whose own
   cache was not damaged (commit_incoming and stage_bindings of
   artifacts/manager.py). *)
THEOREM LinkedStaysGood == ArtifactsSpec => []LinkedIsGood
<1>1. ArtifactsInit => LinkedIsGood BY DEF ArtifactsInit, LinkedIsGood
<1> QED BY <1>1, ArtifactsTypeCorrect, Next_LinkedIsGood, PTL DEF ArtifactsSpec

-------------------------------------------------------------------------------
(* The version of a task.  Its registry says what it is linked to; a prefetch
   in progress is from the holder of its task, is the only one of that task,
   and, as long as no cache is damaged, is of the version the task has. *)
OneOfEach ==
    \A p, q \in Prefetches :
      Active(p) /\ Active(q) /\ job[p].user = job[q].user => p = q

FromHolder == \A p \in Prefetches : Active(p) => job[p].from = holder[job[p].user]

OfItsVersion ==
    damaged = {} => \A p \in Prefetches :
      Active(p) => job[p].digest = recorded[job[p].from][job[p].user]

Rest == recorded = link /\ OneOfEach /\ FromHolder /\ OfItsVersion

KeepInv == TypeInv /\ LinkedIsGood /\ Rest

VersionStep ==
    \A u \in Users :
      LET v == recorded[holder[u]][u]
      IN  v # None /\ damaged' = {} => recorded'[holder'[u]][u] = v

LEMMA StagePlaces ==
  ASSUME ArtifactsTypeOK, NEW n \in ArtifactNodes, NEW u \in Users, NEW v, Stage(n, u, v),
         recorded = link
  PROVE  /\ recorded' = link'
         /\ recorded'[n][u] = v
         /\ \A m \in ArtifactNodes, w \in Users :
              m # n \/ w # u => recorded'[m][w] = recorded[m][w]
BY DEF Stage, ArtifactsTypeOK

(* What a task has is there, and is wanted again. *)
LEMMA WantsWhatItHas ==
  ASSUME KeepInv, damaged = {}, NEW n \in ArtifactNodes, NEW u \in Users, recorded[n][u] # None
  PROVE  Wanted(n, u) = recorded[n][u]
BY DEF KeepInv, Rest, LinkedIsGood, Wanted, Has

(* A step that begins no prefetch and moves and links nothing. *)
LEMMA QuietStep ==
  ASSUME KeepInv, UNCHANGED <<recorded, link, holder>>, damaged \subseteq damaged',
         \A p \in Prefetches :
           /\ Active(p)' => Active(p)
           /\ job'[p].user = job[p].user
           /\ job'[p].from = job[p].from
           /\ job'[p].digest = job[p].digest
  PROVE  Rest' /\ VersionStep
<1>1. recorded' = link' BY DEF KeepInv, Rest
<1>2. OneOfEach' BY DEF KeepInv, Rest, OneOfEach
<1>3. FromHolder' BY DEF KeepInv, Rest, FromHolder
<1>4. OfItsVersion' BY DEF KeepInv, Rest, OfItsVersion
<1>5. VersionStep BY DEF VersionStep
<1> QED BY <1>1, <1>2, <1>3, <1>4, <1>5 DEF Rest

LEMMA Next_Rest == KeepInv /\ [ArtifactsNext]_artifactVars => Rest' /\ VersionStep
<1> SUFFICES ASSUME KeepInv, [ArtifactsNext]_artifactVars PROVE Rest' /\ VersionStep
  OBVIOUS
<1>0. /\ ArtifactsTypeOK /\ DigestKnown /\ recorded = link
      /\ OneOfEach /\ FromHolder /\ OfItsVersion
  BY DEF KeepInv, TypeInv, Rest
<1>t. /\ job \in [Prefetches -> Job]
      /\ holder \in [Users -> ArtifactNodes]
      /\ \A p \in Prefetches : job[p] \in Job /\ job[p].user \in Users /\ job[p].from \in ArtifactNodes
  BY <1>0 DEF ArtifactsTypeOK, Job
<1>1. ASSUME NEW p \in Prefetches, NEW u \in Users, NEW m \in ArtifactNodes, Begin(p, u, m)
      PROVE  Rest' /\ VersionStep
  <2> DEFINE n == holder[u]
             v == Wanted(n, u)
             j == [NoJob(u, n) EXCEPT !.at = "ask", !.to = m, !.digest = v]
  <2>1. n \in ArtifactNodes BY <1>t
  <2>2. /\ Stage(n, u, v) /\ SetJob(p, j) /\ holder' = holder /\ damaged' = damaged
        /\ ~Prefetching(u)
    BY <1>1 DEF Begin
  <2>3. j.user = u /\ j.from = n /\ j.digest = v BY DEF NoJob
  <2>4. n = holder[u] OBVIOUS
  <2>5. damaged = {} /\ recorded[n][u] # None => v = recorded[n][u] BY <2>1, WantsWhatItHas
  <2> HIDE DEF j, v, n
  <2>6. job'[p] = j /\ \A q \in Prefetches : q # p => job'[q] = job[q]
    BY <1>t, <2>2 DEF SetJob
  <2>7. /\ recorded' = link'
        /\ recorded'[n][u] = v
        /\ \A k \in ArtifactNodes, w \in Users :
             k # n \/ w # u => recorded'[k][w] = recorded[k][w]
    BY <1>0, <2>1, <2>2, StagePlaces
  <2>8. \A q \in Prefetches : q # p /\ Active(q)' => Active(q) /\ job[q].user # u
    BY <2>2, <2>6 DEF Prefetching, Active
  <2>9. OneOfEach' BY <1>0, <2>3, <2>6, <2>8 DEF OneOfEach
  <2>10. FromHolder' BY <1>0, <2>2, <2>3, <2>4, <2>6, <2>8 DEF FromHolder
  <2>11. OfItsVersion'
    <3> SUFFICES ASSUME damaged = {}, NEW q \in Prefetches, Active(q)'
                 PROVE  job'[q].digest = recorded'[job'[q].from][job'[q].user]
      BY <2>2 DEF OfItsVersion
    <3>1. CASE q = p BY <2>3, <2>6, <2>7, <3>1
    <3>2. CASE q # p
      BY <1>0, <1>t, <2>6, <2>7, <2>8, <3>2 DEF OfItsVersion
    <3> QED BY <3>1, <3>2
  <2>12. VersionStep
    <3> SUFFICES ASSUME NEW w \in Users, recorded[holder[w]][w] # None, damaged = {}
                 PROVE  recorded'[holder[w]][w] = recorded[holder[w]][w]
      BY <2>2 DEF VersionStep
    <3>1. CASE w = u BY <2>4, <2>5, <2>7, <3>1
    <3>2. CASE w # u BY <1>t, <2>7, <3>2
    <3> QED BY <3>1, <3>2
  <2> QED BY <2>7, <2>9, <2>10, <2>11, <2>12 DEF Rest
<1>2. ASSUME NEW p \in Prefetches, Activate(p) PROVE Rest' /\ VersionStep
  <2> DEFINE n == job[p].to
             v == job[p].digest
             u == job[p].user
             j == [job[p] EXCEPT !.at = IF Valid(cache[n][v]) THEN "done" ELSE "failed"]
  <2>1. n \in ArtifactNodes /\ u \in Users BY <1>0 DEF ArtifactsTypeOK, Job
  <2>2. SetJob(p, j) /\ damaged' = damaged /\ Active(p) BY <1>2 DEF Activate, Active
  <2>3. /\ j.user = u /\ j.from = job[p].from /\ j.digest = v
        /\ j.at \in {"done", "failed"}
    BY <1>t DEF Job
  <2>4. \/ Stage(n, u, v) /\ holder' = [holder EXCEPT ![u] = n]
        \/ UNCHANGED <<link, recorded, holder>>
    BY <1>2 DEF Activate
  <2>d. v = job[p].digest /\ u = job[p].user OBVIOUS
  <2> HIDE DEF j, v, n, u
  <2>5. job'[p] = j /\ \A q \in Prefetches : q # p => job'[q] = job[q]
    BY <1>t, <2>2 DEF SetJob
  <2>6. \A q \in Prefetches : Active(q)' => q # p /\ Active(q) /\ job'[q] = job[q]
    BY <2>3, <2>5 DEF Active
  <2>7. CASE UNCHANGED <<link, recorded, holder>>
    <3>1. \A q \in Prefetches :
            /\ Active(q)' => Active(q)
            /\ job'[q].user = job[q].user
            /\ job'[q].from = job[q].from
            /\ job'[q].digest = job[q].digest
      BY <2>3, <2>5, <2>6, <2>d
    <3> QED BY <2>2, <2>7, <3>1, QuietStep
  <2>8. CASE Stage(n, u, v) /\ holder' = [holder EXCEPT ![u] = n]
    <3>1. /\ recorded' = link'
          /\ recorded'[n][u] = v
          /\ \A k \in ArtifactNodes, w \in Users :
               k # n \/ w # u => recorded'[k][w] = recorded[k][w]
      BY <1>0, <2>1, <2>8, StagePlaces
    <3>2. \A q \in Prefetches : Active(q)' => job[q].user # u
      BY <1>0, <2>2, <2>6, <2>d DEF OneOfEach
    <3>3. holder'[u] = n /\ \A w \in Users : w # u => holder'[w] = holder[w]
      BY <1>t, <2>1, <2>8
    <3>4. OneOfEach' BY <1>0, <2>6 DEF OneOfEach
    <3>5. FromHolder' BY <1>0, <1>t, <2>6, <3>2, <3>3 DEF FromHolder
    <3>6. OfItsVersion' BY <1>0, <1>t, <2>2, <2>6, <3>1, <3>2 DEF OfItsVersion
    <3>7. VersionStep
      <4> SUFFICES ASSUME NEW w \in Users, recorded[holder[w]][w] # None, damaged = {}
                   PROVE  recorded'[holder'[w]][w] = recorded[holder[w]][w]
        BY <2>2 DEF VersionStep
      <4>1. CASE w = u
        <5>1. v = recorded[holder[u]][u]
          BY <1>0, <2>2, <2>d DEF FromHolder, OfItsVersion
        <5> QED BY <3>1, <3>3, <4>1, <5>1
      <4>2. CASE w # u BY <1>t, <3>1, <3>3, <4>2
      <4> QED BY <4>1, <4>2
    <3> QED BY <3>1, <3>4, <3>5, <3>6, <3>7 DEF Rest
  <2> QED BY <2>4, <2>7, <2>8
<1>3. ASSUME NEW n \in ArtifactNodes, NEW u \in Users, Ensure(n, u) PROVE Rest' /\ VersionStep
  <2> DEFINE v == Wanted(n, u)
  <2>1. job' = job /\ holder' = holder /\ damaged' = damaged /\ holder[u] = n BY <1>3 DEF Ensure
  <2>2. Stage(n, u, v) BY <1>3 DEF Ensure
  <2>3. damaged = {} /\ recorded[n][u] # None => v = recorded[n][u] BY WantsWhatItHas
  <2> HIDE DEF v
  <2>4. /\ recorded' = link'
        /\ recorded'[n][u] = v
        /\ \A k \in ArtifactNodes, w \in Users :
             k # n \/ w # u => recorded'[k][w] = recorded[k][w]
    BY <1>0, <2>2, StagePlaces
  <2>5. OneOfEach' /\ FromHolder'
    BY <1>0, <2>1 DEF OneOfEach, FromHolder, Active
  <2>6. OfItsVersion'
    <3> SUFFICES ASSUME damaged = {}, NEW q \in Prefetches, Active(q)
                 PROVE  job[q].digest = recorded'[job[q].from][job[q].user]
      BY <2>1 DEF OfItsVersion, Active
    <3>1. job[q].digest = recorded[job[q].from][job[q].user] BY <1>0 DEF OfItsVersion
    <3>2. CASE job[q].from # n \/ job[q].user # u BY <1>t, <2>4, <3>1, <3>2
    <3>3. CASE job[q].from = n /\ job[q].user = u
      <4>1. recorded[n][u] # None
        <5>1. job[q].digest \in Versions BY <1>0 DEF DigestKnown
        <5> QED BY <3>1, <3>3, <5>1, NoneIsNoVersion
      <4> QED BY <2>3, <2>4, <3>1, <3>3, <4>1
    <3> QED BY <3>2, <3>3
  <2>7. VersionStep
    <3> SUFFICES ASSUME NEW w \in Users, recorded[holder[w]][w] # None, damaged = {}
                 PROVE  recorded'[holder[w]][w] = recorded[holder[w]][w]
      BY <2>1 DEF VersionStep
    <3>1. CASE w = u BY <2>1, <2>3, <2>4, <3>1
    <3>2. CASE w # u BY <1>t, <2>4, <3>2
    <3> QED BY <3>1, <3>2
  <2> QED BY <2>4, <2>5, <2>6, <2>7 DEF Rest
<1>4. ASSUME NEW p \in Prefetches, NEW j, SetJob(p, j),
             UNCHANGED places, UNCHANGED damaged,
             j.user = job[p].user /\ j.from = job[p].from /\ j.digest = job[p].digest,
             j.at \notin {"idle", "done", "failed"} => Active(p)
      PROVE  Rest' /\ VersionStep
  <2>1. job'[p] = j /\ \A q \in Prefetches : q # p => job'[q] = job[q]
    BY <1>t, <1>4 DEF SetJob
  <2>2. \A q \in Prefetches :
          /\ Active(q)' => Active(q)
          /\ job'[q].user = job[q].user
          /\ job'[q].from = job[q].from
          /\ job'[q].digest = job[q].digest
    BY <1>4, <2>1 DEF Active
  <2> QED BY <1>4, <2>2, QuietStep DEF places
<1>5. ASSUME NEW p \in Prefetches,
             Ask(p) \/ Send(p) \/ Answer(p) \/ GiveUpPrefetch(p) \/ Move(p) \/ Validate(p)
      PROVE  Rest' /\ VersionStep
  <2>1. PICK at, incoming, commit :
          /\ SetJob(p, [job[p] EXCEPT !.at = at, !.incoming = incoming, !.commit = commit])
          /\ at = job[p].at \/ Active(p)
    <3>r. /\ job[p] = [job[p] EXCEPT !.at = job[p].at]
          /\ job[p] = [job[p] EXCEPT !.incoming = job[p].incoming]
          /\ job[p] = [job[p] EXCEPT !.commit = job[p].commit]
      BY <1>t DEF Job
    <3> DEFINE Changes(at, incoming, commit) ==
                 /\ SetJob(p, [job[p] EXCEPT !.at = at, !.incoming = incoming, !.commit = commit])
                 /\ at = job[p].at \/ Active(p)
    <3>f. \A at, incoming, commit :
            /\ [job[p] EXCEPT !.at = at] =
                 [job[p] EXCEPT !.at = at, !.incoming = job[p].incoming, !.commit = job[p].commit]
            /\ [job[p] EXCEPT !.commit = commit] =
                 [job[p] EXCEPT !.at = job[p].at, !.incoming = job[p].incoming, !.commit = commit]
            /\ [job[p] EXCEPT !.incoming = incoming, !.commit = commit] =
                 [job[p] EXCEPT !.at = job[p].at, !.incoming = incoming, !.commit = commit]
            /\ [job[p] EXCEPT !.at = at, !.commit = commit, !.incoming = incoming] =
                 [job[p] EXCEPT !.at = at, !.incoming = incoming, !.commit = commit]
      BY <1>t DEF Job
    <3>1. CASE Ask(p)
      <4> DEFINE a == IF Has(job[p].to, job[p].digest) THEN "stage" ELSE "send"
      <4>1. SetJob(p, [job[p] EXCEPT !.at = a]) /\ Active(p) BY <3>1 DEF Ask, Active
      <4> HIDE DEF a
      <4>2. Changes(a, job[p].incoming, job[p].commit) BY <3>f, <4>1
      <4> QED BY <4>2
    <3>2. CASE Send(p)
      <4> DEFINE i == cache[job[p].from][job[p].digest]
      <4>1. /\ SetJob(p, [job[p] EXCEPT !.at = "commit", !.commit = "asked", !.incoming = i])
            /\ Active(p)
        BY <3>2 DEF Send, Active
      <4> HIDE DEF i
      <4>2. Changes("commit", i, "asked") BY <3>f, <4>1
      <4> QED BY <4>2
    <3>3. CASE Answer(p)
      <4> DEFINE a == IF job[p].commit = "committed" THEN "stage" ELSE "failed"
      <4>1. SetJob(p, [job[p] EXCEPT !.at = a]) /\ Active(p) BY <3>3 DEF Answer, Active
      <4> HIDE DEF a
      <4>2. Changes(a, job[p].incoming, job[p].commit) BY <3>f, <4>1
      <4> QED BY <4>2
    <3>4. CASE GiveUpPrefetch(p)
      <4>1. SetJob(p, [job[p] EXCEPT !.at = "failed"]) /\ Active(p)
        BY <3>4 DEF GiveUpPrefetch, Active
      <4>2. Changes("failed", job[p].incoming, job[p].commit) BY <3>f, <4>1
      <4> QED BY <4>2
    <3>5. CASE Move(p)
      <4>1. PICK c : SetJob(p, [job[p] EXCEPT !.incoming = "none", !.commit = c])
        BY <3>5 DEF Move
      <4>2. Changes(job[p].at, "none", c) BY <3>f, <4>1
      <4> QED BY <4>2
    <3>6. CASE Validate(p)
      <4>1. PICK c : SetJob(p, [job[p] EXCEPT !.commit = c]) BY <3>6 DEF Validate
      <4>2. Changes(job[p].at, job[p].incoming, c) BY <3>f, <4>1
      <4> QED BY <4>2
    <3> HIDE DEF Changes
    <3> QED BY <1>5, <3>1, <3>2, <3>3, <3>4, <3>5, <3>6
  <2> DEFINE j == [job[p] EXCEPT !.at = at, !.incoming = incoming, !.commit = commit]
  <2>2. /\ j.user = job[p].user /\ j.from = job[p].from /\ j.digest = job[p].digest
        /\ j.at = at
    BY <1>t DEF Job
  <2>3. UNCHANGED places /\ UNCHANGED damaged
    BY <1>5 DEF Ask, Send, Answer, GiveUpPrefetch, Move, Validate
  <2>4. SetJob(p, j) BY <2>1
  <2> HIDE DEF j
  <2>5. j.at \notin {"idle", "done", "failed"} => Active(p) BY <2>1, <2>2 DEF Active
  <2> QED BY <1>4, <2>2, <2>3, <2>4, <2>5
<1>6. ASSUME NEW n \in ArtifactNodes, Crash(n) PROVE Rest' /\ VersionStep
  <2>1. ASSUME NEW p \in Prefetches
        PROVE  /\ Active(p)' => Active(p)
               /\ job'[p].user = job[p].user
               /\ job'[p].from = job[p].from
               /\ job'[p].digest = job[p].digest
    <3>1. PICK at \in {"failed", job[p].at}, commit \in {"refused", job[p].commit} :
            job'[p] = [job[p] EXCEPT !.at = at, !.commit = commit]
      BY <1>6 DEF Crash
    <3>2. /\ job'[p].user = job[p].user /\ job'[p].from = job[p].from
          /\ job'[p].digest = job[p].digest /\ job'[p].at = at
      BY <1>t, <3>1 DEF Job
    <3> QED BY <3>1, <3>2 DEF Active
  <2>2. UNCHANGED <<recorded, link, holder, damaged>> BY <1>6 DEF Crash, places
  <2> QED BY <2>1, <2>2, QuietStep
<1>7. CASE UNCHANGED <<job, recorded, link, holder>> /\ damaged \subseteq damaged'
  BY <1>7, QuietStep DEF Active
<1>8. ASSUME NEW n \in ArtifactNodes, NEW v \in Versions, NEW c \in Content, Damage(n, v, c)
      PROVE  Rest' /\ VersionStep
  BY <1>7, <1>8 DEF Damage, places
<1>9. ASSUME NEW n \in Origins, ChangeDirectory(n) PROVE Rest' /\ VersionStep
  BY <1>7, <1>9 DEF ChangeDirectory
<1>10. CASE UNCHANGED artifactVars
  BY <1>7, <1>10 DEF artifactVars
<1>11. ASSUME NEW n \in ArtifactNodes, NEW u \in Users, NEW c \in Content, Import(n, u, c)
       PROVE  Rest' /\ VersionStep
  BY <1>7, <1>11 DEF Import
<1> QED
  BY <1>1, <1>2, <1>3, <1>5, <1>6, <1>8, <1>9, <1>10, <1>11 DEF ArtifactsNext, Prefetch

(* A task keeps the version of its artifact through starts, prefetches,
   migrations and crashes, whatever becomes of the source directories, unless
   a cache is damaged (ensure_task_artifacts of artifacts/manager.py). *)
THEOREM VersionIsKept == ArtifactsSpec => VersionKept
<1>1. ArtifactsInit => KeepInv
  <2>1. ArtifactsInit => Rest
    BY DEF ArtifactsInit, Rest, OneOfEach, FromHolder, OfItsVersion, Active, NoJob
  <2>2. ArtifactsInit => LinkedIsGood BY DEF ArtifactsInit, LinkedIsGood
  <2> QED BY <2>1, <2>2, Init_TypeInv DEF KeepInv
<1>2. KeepInv /\ [ArtifactsNext]_artifactVars => KeepInv' /\ [VersionStep]_artifactVars
  BY Next_TypeInv, Next_LinkedIsGood, Next_Rest DEF KeepInv
<1>3. VersionKept <=> [][VersionStep]_artifactVars BY PTL DEF VersionKept, VersionStep
<1> QED BY <1>1, <1>2, <1>3, PTL DEF ArtifactsSpec
===============================================================================
