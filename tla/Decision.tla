------------------------------- MODULE Decision -------------------------------
(***************************************************************************)
(* The decisions about a task: what the carbon forecast says of a node     *)
(* (carbon/forecast.py), what continuing, pausing and migrating would cost *)
(* (models/), how the policy weighs that (policy/adaptive.py,              *)
(* scheduler/scoring.py) and what the scheduler then does with the task    *)
(* (daemon/scheduler_service.py), epoch after epoch.                       *)
(*                                                                         *)
(* A tick is an hour and an epoch, a task uses a kilowatt.  A forecast     *)
(* looks at two points, through which its line goes.  Carbon is counted in *)
(* parts of a gram (Unit), fractions in Grains, and scores are compared    *)
(* without the denominators that they share.  Each node reads the trace at *)
(* a clock of its own, which begins again when its daemon restarts.        *)
(***************************************************************************)
EXTENDS Integers, Sequences, FiniteSetsExt

CONSTANTS Places,         \* the nodes, numbered in the order of the cluster's configuration
          Traces,         \* the carbon intensities there may be: [Places -> [0 .. -> Nat]]
          Price,          \* [Places -> Nat]  compute_price_usd_per_hour
          TransferTime, Egress, Network,      \* what a transfer takes
          PauseTime, ResumeTime, IdleCandidates, MaxPauseWindow, MinPauseGap,
          MinMigrationGap, RequiredImprovement,  \* in Percent
          Horizon, Weight, MultiplierBound,   \* the bound is 1 / MultiplierBound
          RollingWindow, CarbonStaleAfter, MaximumChange,
          Work,           \* the hours that the task takes
          Deadline, CostCap,
          Confidences,    \* in Grains
          MaxTicks, MaxClockRestarts  \* bounds

Metrics == {"time", "carbon", "cost"}

(* A trace has a sample of every hour up to its end. *)
IsSeries(s) ==
    /\ 0 \in DOMAIN s
    /\ \A k \in DOMAIN s : k \in Nat /\ s[k] \in Nat /\ (k # 0 => k - 1 \in DOMAIN s)

ASSUME DecisionAssumption ==
    /\ Places \subseteq Nat /\ IsFiniteSet(Places)
    /\ \A tr \in Traces : DOMAIN tr = Places /\ \A n \in Places : IsSeries(tr[n])
    /\ Price \in [Places -> Nat] /\ Weight \in [Metrics -> Nat]
    /\ {TransferTime, Egress, Network, PauseTime, ResumeTime, MaxPauseWindow, MinPauseGap} \subseteq Nat
    /\ {MinMigrationGap, RequiredImprovement, CarbonStaleAfter, MaximumChange, Deadline, Work, MaxTicks,
        MaxClockRestarts} \subseteq Nat
    /\ {Horizon, MultiplierBound, RollingWindow, CostCap} \subseteq Nat \ {0}
    /\ IdleCandidates \subseteq Nat /\ IsFiniteSet(IdleCandidates) /\ Confidences \subseteq Nat

VARIABLES trace,      \* member of Traces
          hour,       \* [Places -> Nat]  TaskClock.now
          place,      \* the owner of the task
          mode,       \* "running" or "paused"
          resumeIn,   \* resume_wall_at_utc, as ticks to come
          lastPause,  \* last_pause_at_utc
          lastMove,   \* last_migration_at_utc
          work,       \* hours of work left, which is what the task is estimated to take
          spent,      \* accumulated_cost_usd
          window,     \* normalization.*.samples
          choice,     \* the last decision, for the properties
          ticks, clockRestarts  \* for the bounds

decisionVars == <<trace, hour, place, mode, resumeIn, lastPause, lastMove, work, spent, window,
                  choice, ticks, clockRestarts>>

NoTime == -1
Unit == 12
Grain == 4
Percent == 100
NoChoice == [made |-> FALSE]

DecisionTypeOK ==
    /\ trace \in Traces /\ hour \in [Places -> 0 .. MaxTicks] /\ place \in Places
    /\ mode \in {"running", "paused"} /\ resumeIn \in Nat
    /\ lastPause \in NoTime .. MaxTicks /\ lastMove \in NoTime .. MaxTicks
    /\ work \in 0 .. Work /\ spent \in Nat
    /\ Len(window) <= RollingWindow
    /\ \A i \in DOMAIN window : \A m \in Metrics : window[i][m].min \in 0 .. window[i][m].max

DecisionInit ==
    /\ trace \in Traces
    /\ hour = [n \in Places |-> 0] /\ place \in Places
    /\ mode = "running" /\ resumeIn = 0
    /\ lastPause = NoTime /\ lastMove = NoTime
    /\ work = Work /\ spent = 0
    /\ window = <<>> /\ choice = NoChoice
    /\ ticks = 0 /\ clockRestarts = 0

AtMost(a, b) == IF a < b THEN a ELSE b
AtLeast(a, b) == IF a > b THEN a ELSE b
Clamp(a, low, high) == AtLeast(low, AtMost(high, a))

-------------------------------------------------------------------------------
(* The forecast. *)

(* Mutant: the samples that are still to come are known. *)
Known_All(series, now) == DOMAIN series

Known(series, now) == {k \in DOMAIN series : k <= now}

(* The regression through the last two points, kept near to them. *)
Predicted(older, last, hours) ==
    LET slope == Clamp(last - older, -MaximumChange, MaximumChange)
    IN  Clamp(last + slope * hours,
              AtLeast(0, AtMost(older, last) - MaximumChange),
              AtLeast(older, last) + MaximumChange)

(* The average of what is predicted for the hours of a window, times Unit. *)
Average(older, last, from, duration) ==
    LET sum[k \in Nat] == IF k = 0 THEN Predicted(older, last, from)
                                   ELSE sum[k - 1] + Predicted(older, last, from + k)
    IN  sum[duration] * (Unit \div (duration + 1))

(* The forecast for a window: the latest sample alone when that is stale or is
   all there is. *)
Forecast(series, now, start, duration) ==
    LET latest == Max(Known(series, now))
    IN  IF now - latest > CarbonStaleAfter \/ latest = 0
        THEN Unit * series[latest]
        ELSE Average(series[latest - 1], series[latest], start - latest, duration)

-------------------------------------------------------------------------------
(* What the actions would cost. *)

Compute == AtMost(Horizon, work)

(* estimate_continue *)
Continue(tr, now) ==
    [action |-> "continue", to |-> place, idle |-> 0, time |-> Compute,
     carbon |-> Compute * Forecast(tr[place], now, now, Compute),
     cost |-> Compute * Price[place]]

(* estimate_pause *)
MayPauseFor(idle) == idle + Compute <= MaxPauseWindow
PauseFor(tr, now, idle) ==
    LET resume == now + PauseTime + idle
    IN  [action |-> "pause", to |-> place, idle |-> idle,
         time |-> PauseTime + idle + ResumeTime + Compute,
         carbon |-> PauseTime * Forecast(tr[place], now, now, PauseTime)
                    + ResumeTime * Forecast(tr[place], now, resume, ResumeTime)
                    + Compute * Forecast(tr[place], now, resume + ResumeTime, Compute),
         cost |-> Compute * Price[place]]

(* estimate_migrate *)
MigrateTo(tr, now, n) ==
    LET restore == now + PauseTime + TransferTime
        atSource == Forecast(tr[place], now, now, PauseTime)
        atRestore == Forecast(tr[n], now, restore, ResumeTime)
    IN  [action |-> "migrate", to |-> n, idle |-> 0,
         time |-> PauseTime + TransferTime + ResumeTime + Compute,
         carbon |-> PauseTime * atSource + ResumeTime * atRestore
                    + Compute * Forecast(tr[n], now, restore + ResumeTime, Compute)
                    + (Network * (atSource + atRestore)) \div 2,
         cost |-> Compute * Price[n] + Egress]

(* build_raw_actions: in this order, which decides between equal scores. *)
Ascending(s) == [i \in 1 .. Cardinality(s) |-> CHOOSE x \in s : Cardinality({y \in s : y <= x}) = i]
Estimates(tr, destinations) ==
    LET now == hour[place]
        idles == Ascending({i \in IdleCandidates : MayPauseFor(i)})
        affordable == Ascending({n \in destinations : spent + MigrateTo(tr, now, n).cost <= CostCap})
    IN  <<Continue(tr, now)>>
        \o [i \in DOMAIN idles |-> PauseFor(tr, now, idles[i])]
        \o [i \in DOMAIN affordable |-> MigrateTo(tr, now, affordable[i])]

-------------------------------------------------------------------------------
(* The policy. *)

PerMetric(of(_)) == [time |-> of("time"), carbon |-> of("carbon"), cost |-> of("cost")]

Extent(es) ==
    LET of(m) == [min |-> Min({es[i][m] : i \in DOMAIN es}), max |-> Max({es[i][m] : i \in DOMAIN es})]
    IN  PerMetric(of)

(* Mutant: the window keeps its oldest samples. *)
AppendRange_Oldest(es) == SubSeq(Append(window, Extent(es)), 1, AtMost(RollingWindow, Len(window) + 1))

(* _append_ranges *)
AppendRange(es) ==
    LET longer == Append(window, Extent(es))
    IN  SubSeq(longer, AtLeast(1, Len(longer) - RollingWindow + 1), Len(longer))

Bounds(w) ==
    LET of(m) == [min |-> Min({w[i][m].min : i \in DOMAIN w}), max |-> Max({w[i][m].max : i \in DOMAIN w})]
    IN  PerMetric(of)

(* _signals and _adapt: a pressure on each weight, from 0 to Grain.  A deadline
   presses with all it can or not at all. *)
Carbons(es, actions) == {es[i].carbon : i \in {j \in DOMAIN es : es[j].action \in actions}}
Opportunity(es) ==
    LET here == Min(Carbons(es, {"continue", "pause"}))
        there == Carbons(es, {"migrate"})
    IN  IF there = {} \/ here = 0 THEN 0
        ELSE Clamp((Grain * (here - Min(there))) \div here, 0, Grain)
Pressure(es, confidence) ==
    [time |-> IF Deadline - hour[place] <= work THEN Grain ELSE 0,
     carbon |-> (Opportunity(es) * confidence) \div Grain,
     cost |-> Grain - (Grain * AtLeast(0, CostCap - spent)) \div CostCap]
Effective(es, confidence) ==
    LET pressure == Pressure(es, confidence)
        of(m) == Weight[m] * (Grain * MultiplierBound + pressure[m])
    IN  PerMetric(of)

(* _normalize_with_bounds and score_actions, times the product of the spans. *)
Span(b, m) == IF b[m].max <= b[m].min THEN 1 ELSE b[m].max - b[m].min
Normal(b, e, m) == IF b[m].max <= b[m].min THEN 0 ELSE Clamp(e[m] - b[m].min, 0, Span(b, m))
Score(b, weights, e) ==
    weights.time * Normal(b, e, "time") * Span(b, "carbon") * Span(b, "cost")
    + weights.carbon * Normal(b, e, "carbon") * Span(b, "time") * Span(b, "cost")
    + weights.cost * Normal(b, e, "cost") * Span(b, "time") * Span(b, "carbon")

(* The actions with their scores, and the one that comes first of some. *)
Scored(es, b, weights) ==
    {[index |-> i, action |-> es[i].action, score |-> Score(b, weights, es[i])] : i \in DOMAIN es}
Foremost(scored) ==
    CHOOSE a \in scored : \A o \in scored :
      a.score < o.score \/ (a.score = o.score /\ a.index <= o.index)

Since(last) == hour[place] - last

(* Mutant: the longest pause that is possible stands for what can be done here. *)
BestLocal_Last(scored) ==
    CHOOSE a \in scored : a.action # "migrate" /\ \A o \in scored : o.action # "migrate" => o.index <= a.index

BestLocal(scored) == Foremost({a \in scored : a.action # "migrate"})

(* choose_action *)
Choose(scored) ==
    LET best == Foremost(scored)
        local == BestLocal(scored)
        continue == CHOOSE a \in scored : a.action = "continue"
        tooSoon == lastMove # NoTime /\ Since(lastMove) < MinMigrationGap
        tooLittle == (local.score - best.score) * Percent < RequiredImprovement * local.score
    IN  CASE best.action = "pause" ->
               IF lastPause # NoTime /\ Since(lastPause) < MinPauseGap THEN continue ELSE best
          [] best.action = "continue" -> best
          [] best.action = "migrate" -> IF tooSoon \/ tooLittle THEN local ELSE best

-------------------------------------------------------------------------------
(* An evaluation of the task in an epoch of its owner: destinations is empty
   as long as there is no valid checkpoint, and a migration happens when its
   bid is accepted and nothing fails. *)
Evaluate(destinations, confidence, happens) ==
    LET es == Estimates(trace, destinations)
        w == AppendRange(es)
        b == Bounds(w)
        weights == Effective(es, confidence)
        selected == es[Choose(Scored(es, b, weights)).index]
    IN  /\ mode = "running" /\ work > 0 /\ ~choice.made
        /\ window' = w
        /\ choice' = [made |-> TRUE, estimates |-> es, bounds |-> b, selected |-> selected]
        /\ IF selected.action = "pause"
           THEN /\ mode' = IF selected.idle = 0 THEN "running" ELSE "paused"
                /\ resumeIn' = selected.idle
                /\ lastPause' = hour[place]
           ELSE UNCHANGED <<mode, resumeIn, lastPause>>
        /\ IF selected.action = "migrate" /\ happens
           THEN place' = selected.to /\ lastMove' = hour[place]
           ELSE UNCHANGED <<place, lastMove>>
        /\ UNCHANGED <<trace, hour, work, spent, ticks, clockRestarts>>

(* An hour: the task runs and is charged for it, or is resumed when the hour
   that it was paused for is over. *)
Hour ==
    /\ ticks < MaxTicks /\ ticks' = ticks + 1
    /\ hour' = [n \in Places |-> hour[n] + 1]
    /\ IF mode = "running" /\ work > 0
       THEN work' = work - 1 /\ spent' = spent + Price[place]
       ELSE UNCHANGED <<work, spent>>
    /\ resumeIn' = AtLeast(0, resumeIn - 1)
    /\ mode' = IF resumeIn <= 1 THEN "running" ELSE mode
    /\ choice' = NoChoice
    /\ UNCHANGED <<trace, place, lastPause, lastMove, window, clockRestarts>>

(* The daemon of a node restarts, and with it the clock of its trace. *)
ClockRestart(n) ==
    /\ clockRestarts < MaxClockRestarts /\ clockRestarts' = clockRestarts + 1
    /\ hour' = [hour EXCEPT ![n] = 0]
    /\ UNCHANGED <<trace, place, mode, resumeIn, lastPause, lastMove, work, spent, window, choice, ticks>>

(* DELETE /policy/{task_id} *)
ResetPolicy ==
    /\ window # <<>> /\ window' = <<>>
    /\ UNCHANGED <<trace, hour, place, mode, resumeIn, lastPause, lastMove, work, spent, choice,
                   ticks, clockRestarts>>

DecisionNext ==
    \/ \E d \in SUBSET (Places \ {place}), c \in Confidences, happens \in BOOLEAN : Evaluate(d, c, happens)
    \/ Hour
    \/ \E n \in Places : ClockRestart(n)
    \/ ResetPolicy

DecisionSpec == DecisionInit /\ [][DecisionNext]_decisionVars

-------------------------------------------------------------------------------
(* Only what is known so far counts in an epoch: with the future of any other trace in the
   place of this one's the estimates are the same, whatever clocks were reset
   and however stale the samples are. *)
NoForesight ==
    choice.made => \A tr \in Traces :
      LET other == [n \in Places |-> [k \in DOMAIN trace[n] |->
                      IF k <= hour[place] THEN trace[n][k] ELSE tr[n][k]]]
      IN  Estimates(other, Places \ {place}) = Estimates(trace, Places \ {place})

(* What is decided on lies within the bounds that it is normalized with, over
   any number of epochs, moves and resets of the policy: the clamps never make
   two different estimates equal. *)
BoundsCover ==
    choice.made =>
      \A i \in DOMAIN choice.estimates : \A m \in Metrics :
        choice.estimates[i][m] \in choice.bounds[m].min .. choice.bounds[m].max

(* A task is disturbed only for something: what is selected is better than to
   continue in one of the metrics (time, carbon or cost), whichever gap or
   threshold made the scheduler fall back on it. *)
WorthIt ==
    choice.made /\ choice.selected.action # "continue" =>
      \E m \in Metrics : choice.selected[m] < choice.estimates[1][m]
===============================================================================
