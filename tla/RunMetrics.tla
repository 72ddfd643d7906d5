----------------------------- MODULE RunMetrics ------------------------------
(***************************************************************************)
(* The report of a performance run: the plan of the clock probe            *)
(* (performance_clock.py), what was emitted against it                     *)
(* (scheduling_metrics.py), and the resource samples with their gates      *)
(* (performance.py).  A behaviour emits the notes of the plan one by one,  *)
(* or records samples one by one.  Nanoseconds and limits are small        *)
(* numbers; MaxNotes and MaxRows bound a run.                              *)
(***************************************************************************)
EXTENDS Integers, Sequences, FiniteSets, SequencesExt

CONSTANTS Minute, Bpm, PulsesPerBeat,   \* sixty seconds in ticks, tempo, resolution
          MaxNotes, Delays,             \* notes of the plan, delays of their emissions
          Density,                      \* voices of a burst
          P99Limit, MaximumLimit, FinalLimit,
          MaxRows, Loads,               \* samples, what the machine does between two
          SlopeWindow                   \* the window of the memory slope

ASSUME RunMetricsAssumption ==
  /\ {Minute, Bpm, PulsesPerBeat, Density, SlopeWindow} \subseteq Nat \ {0}
  /\ {MaxNotes, P99Limit, MaximumLimit, FinalLimit, MaxRows} \subseteq Nat
  /\ Delays \subseteq Int
  /\ Loads \subseteq [throttled : Nat, queue : Nat, rss : Nat]

VARIABLES emission,   \* the times of the notes emitted so far
          rows        \* the resource samples so far

metricsVars == <<emission, rows>>

MetricsInit == emission = <<>> /\ rows = <<>>

Abs(n) == IF n < 0 THEN -n ELSE n

-----------------------------------------------------------------------------
(* internal_clock_plan: a burst of ons and offs at every pulse.             *)

\* Round a fraction to the nearest integer, halves up.
NearestInteger(num, den) == (2 * num + den) \div (2 * den)
PulseDen == Bpm * PulsesPerBeat
Pulse == NearestInteger(Minute, PulseDen)
Width == 2 * Density

DeadlineAccumulated(step) == step * Pulse

Deadline(step) == NearestInteger(step * Minute, PulseDen)

BurstOf(i) == (i + Width - 1) \div Width
Plan == [i \in 1..MaxNotes |-> Deadline(BurstOf(i))]

\* A note of the plan is emitted; emissions never move backwards.
Emit(delay) ==
  LET at == Plan[Len(emission) + 1] + delay IN
  /\ rows = <<>> /\ Len(emission) < MaxNotes
  /\ emission # <<>> => at >= Last(emission)
  /\ emission' = Append(emission, at)
  /\ UNCHANGED rows

-----------------------------------------------------------------------------
(* scheduling_metrics.                                                      *)

\* The k-th of the values in order.
Ranked(values, k) ==
  CHOOSE v \in ToSet(values) :
    /\ Cardinality({i \in DOMAIN values : values[i] < v}) < k
    /\ k <= Cardinality({i \in DOMAIN values : values[i] <= v})

NearestRank(values, percent) == Ranked(values, (percent * Len(values) + 99) \div 100)

Errors == [i \in DOMAIN emission |-> emission[i] - Plan[i]]
AbsoluteErrors == [i \in DOMAIN emission |-> Abs(Errors[i])]

WithinProfile ==
  /\ NearestRank(AbsoluteErrors, 99) <= P99Limit
  /\ NearestRank(AbsoluteErrors, 100) <= MaximumLimit
  /\ Abs(Last(Errors)) <= FinalLimit

\* burst_service_times: from the first note of a burst to its last.
ServiceTimes ==
  [k \in 1..(Len(emission) \div Width) |-> emission[k * Width] - emission[(k - 1) * Width + 1]]

\* The service gates of performance_metrics.
SustainedService == 2 * NearestRank(ServiceTimes, 99) <= Pulse
HardService == NearestRank(ServiceTimes, 100) <= Pulse

-----------------------------------------------------------------------------
(* performance.py: samples with increasing timestamps and cumulative        *)
(* counters; percentiles are scheduling_metrics' too.                       *)

TakeRow(elapsed, load) ==
  LET last == IF rows = <<>> THEN [t |-> 0, throttled |-> 0] ELSE Last(rows) IN
  /\ emission = <<>> /\ Len(rows) < MaxRows
  /\ rows' = Append(rows, [t |-> last.t + elapsed, throttled |-> last.throttled + load.throttled,
                            queue |-> load.queue, rss |-> load.rss])
  /\ UNCHANGED emission

\* bracketing_samples: the samples that enclose a window.
FirstOf(start) == Max({i \in DOMAIN rows : rows[i].t <= start} \cup {1})
LastOf(end) == Min({i \in DOMAIN rows : rows[i].t >= end} \cup {Len(rows)})

Bracket(start, end) ==
  IF FirstOf(start) # LastOf(end) THEN <<FirstOf(start), LastOf(end)>>
  ELSE LET last == Min({FirstOf(start) + 1, Len(rows)}) IN <<last - 1, last>>

\* throttling_deltas, between two samples.
Throttled(first, last) ==
  LET changed == {i \in first..(last - 1) : rows[i + 1].throttled # rows[i].throttled} IN
  [delta |-> rows[last].throttled - rows[first].throttled,
   intervals |-> {[from |-> rows[i].t, to |-> rows[i + 1].t,
                   by |-> rows[i + 1].throttled - rows[i].throttled] : i \in changed}]

\* queue_recovery: the first quiet sample after an overload, within a bar of its end.
RecoveryPassed(overloadEnd, bar) ==
  LET quiet == {i \in DOMAIN rows : rows[i].t >= overloadEnd /\ rows[i].queue = 0}
  IN quiet # {} /\ rows[Min(quiet)].t - overloadEnd <= bar

\* _rss_slope over the last samples, a fraction <<numerator, denominator>>; none for a
\* recording shorter than the window, or with one sample in it.
InSlope == {i \in DOMAIN rows : rows[i].t >= Last(rows).t - SlopeWindow}
HasSlope == Last(rows).t - rows[1].t >= SlopeWindow /\ Cardinality(InSlope) >= 2
Slope ==
  LET n == Cardinality(InSlope)
      x == SumFunction([i \in InSlope |-> rows[i].t])
      y == SumFunction([i \in InSlope |-> rows[i].rss])
  IN <<n * SumFunction([i \in InSlope |-> rows[i].t * rows[i].rss]) - x * y,
       n * SumFunction([i \in InSlope |-> rows[i].t * rows[i].t]) - x * x>>

MetricsNext ==
  \/ \E delay \in Delays : Emit(delay)
  \/ \E elapsed \in 1..2, load \in Loads : TakeRow(elapsed, load)

MetricsSpec == MetricsInit /\ [][MetricsNext]_metricsVars

-----------------------------------------------------------------------------
(* Properties. *)

(* The plan of the clock probe has no drift: a run whose scheduling errors  *)
(* are within the profile played every note near the exact time of its      *)
(* pulse, the last notes of a long run as the first, and a percentile is    *)
(* the least error that its share of the notes does not exceed; a run that  *)
(* passes the service gates ends every burst by the time the next is due,   *)
(* but for the lateness it began with and the rounding of a deadline, and   *)
(* all but one burst in a hundred within half a pulse (burst_service_times).*)
PassedRunsKeepTime ==
  emission # <<>> =>
    /\ WithinProfile =>
         \A i \in DOMAIN emission :
           2 * Abs(emission[i] * PulseDen - BurstOf(i) * Minute)
             <= (2 * MaximumLimit + 1) * PulseDen
    /\ \A percent \in {50, 95, 99, 100} :
         LET below(v) == Cardinality({i \in DOMAIN emission : AbsoluteErrors[i] <= v})
             r == NearestRank(AbsoluteErrors, percent)
         IN /\ 100 * below(r) >= percent * Len(emission)
            /\ \A v \in 0..(r - 1) : 100 * below(v) < percent * Len(emission)
    /\ ServiceTimes # <<>> =>
         /\ HardService =>
              \A k \in DOMAIN ServiceTimes :
                emission[k * Width] <= Deadline(k + 1) + 1 + Errors[(k - 1) * Width + 1]
         /\ SustainedService =>
              100 * Cardinality({k \in DOMAIN ServiceTimes : 2 * ServiceTimes[k] > Pulse})
                <= Len(ServiceTimes)

(* The samples chosen for a window are two at least, enclose it wherever    *)
(* the recording does, and hold all the throttling in it; the throttled     *)
(* intervals add up to the delta of the counters, and lie in the window's   *)
(* samples (bracketing_samples, throttling_deltas).                         *)
WindowsAreEnclosed ==
  Len(rows) >= 2 =>
    \A start, end \in 0..(Last(rows).t + 1) :
      start <= end =>
        LET b == Bracket(start, end)
            t == Throttled(b[1], b[2])
        IN /\ b[1] < b[2]
           /\ rows[1].t <= start => rows[b[1]].t <= start
           /\ Last(rows).t >= end => rows[b[2]].t >= end
           /\ SumFunction([i \in t.intervals |-> i.by]) = t.delta

(* Samples at uneven times tell the truth about a run: memory that grows    *)
(* steadily through the last window has that growth as its slope, and an    *)
(* overload has recovered exactly when a quiet queue is seen within a bar   *)
(* of its end, however busy the queue is later (performance_metrics).       *)
GrowthAndRecoveryAreSeen ==
  Len(rows) >= 2 =>
    /\ HasSlope =>
         \A growth \in {0, 1, 2} :
           (\A i, j \in InSlope : rows[j].rss - rows[i].rss = growth * (rows[j].t - rows[i].t))
             => Slope[2] > 0 /\ Slope[1] = growth * Slope[2]
    /\ \A end \in 0..Last(rows).t, bar \in 1..3 :
         RecoveryPassed(end, bar)
           <=> \E i \in DOMAIN rows : rows[i].t \in end..(end + bar) /\ rows[i].queue = 0
=============================================================================
