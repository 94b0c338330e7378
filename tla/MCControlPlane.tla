---------------------------- MODULE MCControlPlane ----------------------------
(***************************************************************************)
(* Model checking of the services of a node that share no state with each  *)
(* other in these models: the anti-entropy of registries and catalogs      *)
(* (Replication), artifacts, accounting, telemetry and decisions.          *)
(* Their properties are about one of them each, so a behaviour of this     *)
(* module is a behaviour of one of them, which is chosen at the start,     *)
(* while the variables of the others stay as they are.                     *)
(***************************************************************************)
EXTENDS Replication, Artifacts, Accounting, Telemetry, Decision

VARIABLE part

Contents(d) == [id |-> 1, digest |-> d]
MCSubmissions == <<{Contents("a")}, {Contents("b")}>>
MCRequest == [key |-> "k", id |-> 1, rev |-> Open, owner |-> Open]
MCRequests == <<{MCRequest}, {MCRequest}>>

(* Intensities of four hours. *)
Hourly(a, b, c, d) == [k \in 0 .. 3 |-> CASE k = 0 -> a [] k = 1 -> b [] k = 2 -> c [] OTHER -> d]
Falling == Hourly(6, 4, 2, 0)
Rising == Hourly(0, 2, 4, 6)
Level == Hourly(4, 4, 4, 4)
Spike == Hourly(4, 4, 0, 4)
Valley == Hourly(8, 4, 4, 8)
Hill == Hourly(0, 6, 2, 0)
MCTraces ==
    {<<Falling, Level>>, <<Level, Falling>>, <<Level, Spike>>, <<Rising, Level>>, <<Valley, Hill>>}
MCPrice == [n \in Places |-> n]
MCWeight == [time |-> 1, carbon |-> 2, cost |-> 1]

(* The accounts in two parts, which bounds how much of it happens at once: every
   operation but migrations; and migrations, by the first thread of each node.  Of
   the operations that MaxChanges allows, the last one works alone, or beside
   another one that ends the same pause.  Where nothing moves, the node that is
   not the owner has nothing to do but to listen.  The task works as fast as it
   can, whenever it runs. *)
AtFullSpeed == now' # now => done' = IF process.does = "runs" THEN done + MaxSpeed ELSE done
LastAlone ==
    changes' = MaxChanges =>
        \/ Cardinality({t \in Threads : ahead'[t] # <<>>}) <= 1
        \/ \A t \in Threads : ahead'[t] # <<>> => Last(ahead'[t]) = "resumed"
OthersListen == \A t \in Threads : t[1] # First => ahead'[t] \in {<<>>, <<"heard">>}

AccountsAlone == AccountNext /\ AtFullSpeed /\ LastAlone /\ OthersListen /\ UNCHANGED request

AccountsMove ==
    /\ \/ \E t \in Threads :
            \/ t[2] = 1 /\ (Start(t) \/ Settle(t))
            \/ t[2] = 1 /\ \E m \in AccountingNodes : Migrate(t, m) \/ ActivateIncoming(t, m)
            \/ TakeStep(t)
       \/ \E u \in 0 .. MaxSpeed : Tick(u)
    /\ AtFullSpeed /\ LastAlone

(* Of a damaged cache, a crash and a source directory that changes, two happen. *)
TwoMishaps ==
    Cardinality(damaged') + crashed' + Cardinality({n \in Origins : directory'[n] # 1}) <= 2

MCInit ==
    /\ part \in {"registries", "artifacts", "accounts", "moves", "links", "decisions"}
    /\ Init /\ ArtifactsInit /\ AccountInit /\ TelemetryInit /\ DecisionInit
    /\ part # "artifacts" => holder = [u \in Users |-> CHOOSE n \in Origins : TRUE]
    /\ part # "decisions" => trace = CHOOSE t \in Traces : TRUE
    /\ part # "decisions" => place = CHOOSE n \in Places : TRUE

MCNext ==
    /\ UNCHANGED part
    /\ \/ /\ part = "registries" /\ Next
          /\ UNCHANGED <<artifactVars, accountVars, telemetryVars, decisionVars>>
       \/ /\ part = "artifacts" /\ ArtifactsNext /\ TwoMishaps
          /\ UNCHANGED <<vars, accountVars, telemetryVars, decisionVars>>
       \/ /\ part = "accounts" /\ AccountsAlone
          /\ UNCHANGED <<vars, artifactVars, telemetryVars, decisionVars>>
       \/ /\ part = "moves" /\ AccountsMove
          /\ UNCHANGED <<vars, artifactVars, telemetryVars, decisionVars>>
       \/ /\ part = "links" /\ TelemetryNext
          /\ UNCHANGED <<vars, artifactVars, accountVars, decisionVars>>
       \/ /\ part = "decisions" /\ DecisionNext
          /\ UNCHANGED <<vars, artifactVars, accountVars, telemetryVars>>

MCVars == <<part, vars, artifactVars, accountVars, telemetryVars, decisionVars>>

(* The loops of a node go on and the network is not down for ever: in a
   behaviour of registries every peer is reached again and again, for its
   catalog and for its claims. *)
Reached(A) == part = "registries" => A

MCSpec ==
    /\ MCInit /\ [][MCNext]_MCVars
    /\ \A n \in Nodes :
         /\ \A m \in Peers(n) : []<><<Reached(MergeCatalog(n, m))>>_MCVars
         /\ []<><<Reached(FetchClaims(n, Peers(n)))>>_MCVars
         /\ WF_vars(part = "registries" /\ ApplyClaims(n))
         /\ WF_vars(part = "registries" /\ \E r \in catalog[n].runs : RegisterRun(n, r))
    /\ WF_telemetryVars(part = "links" /\ TelemetryTick)
    /\ WF_telemetryVars(part = "links" /\ LoopStep)
    /\ WF_telemetryVars(part = "links" /\ OperatorStep)

(* LinksStayKnown, of the behaviours that are about links. *)
LinksKnown ==
    \A l \in Links : <>[](part = "links" /\ up[l]) => []<>ModelIsMeasured(l)

MCTypeOK == TypeOK /\ ArtifactsTypeOK /\ AccountTypeOK /\ TelemetryTypeOK /\ DecisionTypeOK
===============================================================================
