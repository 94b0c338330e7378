------------------------------- MODULE Telemetry ------------------------------
(***************************************************************************)
(* The telemetry of a node (telemetry/service.py, telemetry/store.py): the *)
(* loop that probes the node's links to its peers, the probes and          *)
(* transfers that others ask for meanwhile, and what the views say is      *)
(* measured.                                                               *)
(*                                                                         *)
(* What is measured is left out; of a sample its age is kept, in ticks and *)
(* up to Old, beyond which nothing can tell ages apart.  A link that is up *)
(* answers what is asked over it in time, one that is down does not.       *)
(***************************************************************************)
EXTENDS Naturals, SequencesExt

CONSTANTS Links,         \* the peers, numbered in the order in which they are probed
          ProbeEvery,    \* edge_probe_interval_seconds
          MeasureEvery,  \* edge_bandwidth_probe_interval_seconds
          StaleAfter,    \* *_stale_after_seconds
          Asked,         \* bound: the links that others probe, or migrate over
          MaxIncidents   \* bound: restarts of the daemon, and links that go down or come up

ASSUME TelemetryAssumption ==
    /\ Links \subseteq Nat /\ Links # {} /\ Asked \subseteq Links
    /\ {ProbeEvery, MeasureEvery, StaleAfter, MaxIncidents} \subseteq Nat

VARIABLES up,        \* [Links -> BOOLEAN]
          downFor,   \* [Links -> Age]  since the link went down
          latency,   \* [Links -> Age]  last_latency_sample_at_utc
          model,     \* [Links -> Age]  last_transfer_model_sample_at_utc
          probed,    \* [Links -> Age]  _last_bandwidth_probe_monotonic
          measured,  \* [Links -> Age]  since the last measurement, for the properties
          todo,      \* the links that run_once has still to probe
          sinceRound, \* _last_edge_probe_monotonic
          prober,    \* [Probers -> ...]  calls of probe_edge
          lock,      \* _bandwidth_probe_lock: who has it, and behind them who waits, in order
          incidents

telemetryVars == <<up, downFor, latency, model, probed, measured, todo, sinceRound, prober, lock,
                   incidents>>
edges == <<latency, model, probed, measured>>
world == <<up, downFor, incidents>>

Old == Max({ProbeEvery, MeasureEvery, StaleAfter}) + 1
Unavailable == Old + 1   \* there is no sample
Age == 0 .. Unavailable

Probers == {"loop", "operator"}
NoProbe == [at |-> "idle", link |-> Min(Links), force |-> FALSE]

TelemetryTypeOK ==
    /\ up \in [Links -> BOOLEAN]
    /\ {downFor, latency, model, probed, measured} \subseteq [Links -> Age]
    /\ todo \subseteq Links /\ sinceRound \in 0 .. Old
    /\ prober \in [Probers -> [at : {"idle", "ping", "wait", "measure"}, link : Links, force : BOOLEAN]]
    /\ lock \in {<<>>} \cup {<<q>> : q \in Probers} \cup {<<q, r>> : q, r \in Probers}
    /\ incidents \in 0 .. MaxIncidents

TelemetryInit ==
    /\ up = [l \in Links |-> TRUE] /\ downFor = [l \in Links |-> 0]
    /\ latency = [l \in Links |-> Unavailable] /\ model = [l \in Links |-> Unavailable]
    /\ probed = [l \in Links |-> Unavailable] /\ measured = [l \in Links |-> Unavailable]
    /\ todo = {} /\ sinceRound = Old
    /\ prober = [q \in Probers |-> NoProbe]
    /\ lock = <<>>
    /\ incidents = 0

-------------------------------------------------------------------------------
(* What the views say. *)

(* _freshness *)
Fresh(age) == age <= StaleAfter

(* Whether edge_view takes what was measured over what is configured. *)
LatencyIsMeasured(l) == Fresh(latency[l])
ModelIsMeasured(l) == Fresh(model[l])

(* Mutant: after a restart the time of the last probe is not known, and the
   link is not due. *)
Due_ThisLife(l, force) ==
    \/ force
    \/ model[l] = Unavailable
    \/ probed[l] # Unavailable /\ probed[l] >= MeasureEvery

(* _bandwidth_probe_due *)
Due(l, force) ==
    \/ force
    \/ model[l] = Unavailable
    \/ IF probed[l] = Unavailable THEN model[l] >= MeasureEvery ELSE probed[l] >= MeasureEvery

-------------------------------------------------------------------------------
(* probe_edge: the latency, and when it is due the transport, of one link at a
   time. *)

SetProber(q, p) == prober' = [prober EXCEPT ![q] = p]
Return(q) == SetProber(q, NoProbe)

(* Mutant: a failure counts as a sample. *)
FailureAge_Now(age) == 0

(* record_edge_failure leaves the times of the samples as they are. *)
FailureAge(age) == age

Ping(q) ==
    LET l == prober[q].link
        due == up[l] /\ Due(l, prober[q].force)
    IN  /\ prober[q].at = "ping"
        /\ latency' = [latency EXCEPT ![l] = IF up[l] THEN 0 ELSE FailureAge(@)]
        /\ IF due THEN SetProber(q, [prober[q] EXCEPT !.at = "wait"]) ELSE Return(q)
        /\ lock' = IF due THEN Append(lock, q) ELSE lock
        /\ UNCHANGED <<model, probed, measured, todo, sinceRound, world>>

(* Mutant: once it has the lock the probe measures. *)
StillDue_Once(q) == TRUE

(* It is asked again with the lock: another may have measured the link. *)
StillDue(q) == Due(prober[q].link, prober[q].force)

HasLock(q) == Head(lock) = q

Lock(q) ==
    /\ prober[q].at = "wait" /\ HasLock(q)
    /\ IF StillDue(q)
       THEN SetProber(q, [prober[q] EXCEPT !.at = "measure"]) /\ UNCHANGED lock
       ELSE Return(q) /\ lock' = Tail(lock)
    /\ UNCHANGED <<edges, todo, sinceRound, world>>

(* _measure_migration_transport_model: the small rsync and the stream over ssh,
   both of which need the link. *)
Transported(l) == up[l]

(* record_transfer_model_stream *)
Sampled(f, l) == [f EXCEPT ![l] = 0]

Measure(q) ==
    LET l == prober[q].link
    IN  /\ prober[q].at = "measure"
        /\ IF Transported(l)
           THEN /\ model' = Sampled(model, l)
                /\ probed' = [probed EXCEPT ![l] = 0]
                /\ measured' = [measured EXCEPT ![l] = 0]
           ELSE /\ model' = [model EXCEPT ![l] = FailureAge(@)]
                /\ UNCHANGED <<probed, measured>>
        /\ Return(q) /\ lock' = Tail(lock)
        /\ UNCHANGED <<latency, todo, sinceRound, world>>

-------------------------------------------------------------------------------
(* The loop: run_once, when a round is due, probes the peers one after the
   other.  The round counts from its beginning. *)

LoopIdle == prober["loop"].at = "idle"

RunOnce ==
    /\ LoopIdle /\ todo = {}
    /\ IF sinceRound >= ProbeEvery THEN todo' = Links /\ sinceRound' = 0 ELSE UNCHANGED <<todo, sinceRound>>
    /\ UNCHANGED <<edges, prober, lock, world>>

ProbeNext ==
    /\ LoopIdle /\ todo # {}
    /\ SetProber("loop", [at |-> "ping", link |-> Min(todo), force |-> FALSE])
    /\ todo' = todo \ {Min(todo)}
    /\ UNCHANGED <<edges, sinceRound, lock, world>>

(* POST /telemetry/refresh and /telemetry/edges/.../refresh, and ensure_edges_fresh
   for a link whose telemetry is stale. *)
Refresh(l) ==
    /\ prober["operator"].at = "idle"
    /\ SetProber("operator", [at |-> "ping", link |-> l, force |-> TRUE])
    /\ UNCHANGED <<edges, todo, sinceRound, lock, world>>

(* record_transfer: a migration's transfer refines the model that there is. *)
Transfer(l) ==
    /\ up[l] /\ model[l] # Unavailable
    /\ model' = [model EXCEPT ![l] = 0]
    /\ UNCHANGED <<latency, probed, measured, todo, sinceRound, prober, lock, world>>

-------------------------------------------------------------------------------
Older(age) == IF age < Old THEN age + 1 ELSE age
AllOlder(f) == [l \in Links |-> Older(f[l])]

TelemetryTick ==
    /\ latency' = AllOlder(latency) /\ model' = AllOlder(model)
    /\ probed' = AllOlder(probed) /\ measured' = AllOlder(measured)
    /\ downFor' = [l \in Links |-> IF up[l] THEN 0 ELSE Older(downFor[l])]
    /\ sinceRound' = Older(sinceRound)
    /\ UNCHANGED <<up, todo, prober, lock, incidents>>

Flip(l) ==
    /\ incidents < MaxIncidents /\ incidents' = incidents + 1
    /\ up' = [up EXCEPT ![l] = ~@]
    /\ downFor' = [downFor EXCEPT ![l] = 0]
    /\ UNCHANGED <<edges, todo, sinceRound, prober, lock>>

(* telemetry.json has the records of links and tasks, and no more. *)
TelemetryRestart ==
    /\ incidents < MaxIncidents /\ incidents' = incidents + 1
    /\ probed' = [l \in Links |-> Unavailable]
    /\ todo' = {} /\ sinceRound' = Old
    /\ prober' = [q \in Probers |-> NoProbe] /\ lock' = <<>>
    /\ UNCHANGED <<latency, model, measured, up, downFor>>

-------------------------------------------------------------------------------
TelemetryNext ==
    \/ \E q \in Probers : Ping(q) \/ Lock(q) \/ Measure(q)
    \/ RunOnce \/ ProbeNext
    \/ \E l \in Asked : Refresh(l) \/ Transfer(l)
    \/ \E l \in Links : Flip(l)
    \/ TelemetryTick \/ TelemetryRestart

TelemetrySpec == TelemetryInit /\ [][TelemetryNext]_telemetryVars

(* Time passes, the loop goes on, and what is asked of a link ends: one of the
   steps of the loop is enabled unless it waits for the lock. *)
LoopStep == RunOnce \/ ProbeNext \/ Ping("loop") \/ Lock("loop") \/ Measure("loop")
OperatorStep == Lock("operator") \/ Measure("operator")

-------------------------------------------------------------------------------
(* Of a link that has been down for longer than samples may be old, nothing is
   taken for measured, however often it was tried meanwhile and whatever a
   restart brought back. *)
GoneIsNotMeasured ==
    \A l \in Links : ~up[l] /\ downFor[l] > StaleAfter => ~LatencyIsMeasured(l) /\ ~ModelIsMeasured(l)

(* The loop measures a link at most once in MeasureEvery, over restarts and
   though others may measure it while the loop waits. *)
MeasuredSeldom ==
    [][ \A q \in Probers :
          prober[q].at = "wait" /\ prober'[q].at = "measure" /\ ~prober[q].force =>
            measured[prober[q].link] >= MeasureEvery ]_telemetryVars

(* A link that stays up is measured again and again, after restarts too. *)
LinksStayKnown == \A l \in Links : <>[]up[l] => []<>ModelIsMeasured(l)
===============================================================================
