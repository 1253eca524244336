------------------------------- MODULE SdkCore -------------------------------
(***************************************************************************)
(* WardxCore between two captures: the metric series, the event and log    *)
(* buffers, the counters of what was dropped, and the assignments of the   *)
(* experiments, whose exposures and goals are events like any other.       *)
(*                                                                         *)
(* Every call of the application is one action; Capture takes what is live *)
(* into a frame and starts over.  What becomes of a frame is NodeSdk's     *)
(* subject: here it joins what was captured.  A sketch is the set of       *)
(* identifiers that raised it, an experiment's fingerprint the experiment. *)
(***************************************************************************)
EXTENDS Integers, Sequences, FiniteSets, SequencesExt

CONSTANTS
    Subjects,           \* subject ids the application uses
    Metrics,            \* metric names of goals
    ConfigKeys,         \* Remote Config keys it reads
    Configs,            \* experiments of the snapshots the server may send
    Bucket,             \* [experiment id -> [Subjects -> 0..(Buckets - 1)]], the salted hash
    Buckets,            \* size of the unit interval
    Series,             \* <<kind, dims>> pairs it records to; dims Invalid do not validate
    Invalid,
    Recordings,         \* <<series, value, attrs>> of the calls that record
    Levels,             \* log levels, as ranks
    Nil,
    MaxSeries,          \* settings.maxSeriesPerMetric
    MaxEvents, MaxLogs, \* settings.maxBufferedEvents, maxBufferedLogs
    MaxSubjects,        \* settings.experimentStateMaxSubjects
    MaxCalls            \* bound: calls of the application and answers of the server

Kinds == {"counter", "gauge", "histogram", "distinct"}

ASSUME SdkCoreAssumption ==
    /\ Buckets \in Nat \ {0} /\ MaxSeries \in Nat \ {0}
    /\ MaxEvents \in Nat \ {0} /\ MaxLogs \in Nat \ {0} /\ MaxSubjects \in Nat \ {0}
    /\ Levels \subseteq Nat /\ Nil \notin Nat
    /\ \A s \in Series : s[1] \in Kinds
    /\ \A r \in Recordings : r[1] \in Series /\ r[2] \in Nat
    /\ \A config \in Configs :         \* the server keys experiments by id
          /\ config \in Seq(ToSet(config))
          /\ \A k \in DOMAIN config : config[k].id \in DOMAIN Bucket
          /\ \A j, k \in DOMAIN config : config[j].id = config[k].id => j = k

VARIABLES
    experiments,    \* ConfigStore.experiments
    assignments,    \* ExperimentResolver.stateBySubject, in its insertion order
    events,         \* EventBuffer.buf
    logs,           \* LogBuffer.buf, as ranks
    series,         \* [series created -> live value]
    rejected,       \* MetricsRegistry.rejected
    internal,       \* InternalMetrics: drops not captured yet
    captured,       \* ghost: everything captured so far
    recorded,       \* ghost: [Series -> what was recorded to it]
    attempts,       \* ghost: calls to event and log
    dropped,        \* ghost: events a full buffer refused, ranks dropped since the capture
    renewals,       \* ghost: how often each was forgotten, by eviction or a snapshot
    calls

resolver == <<experiments, assignments, renewals>>
registry == <<series, rejected, recorded>>
vars == <<resolver, registry, events, logs, internal, captured, attempts, dropped, calls>>

Pairs == Subjects \X DOMAIN Bucket

\* A series nothing was recorded to since the last capture.
Clean(kind) ==
    CASE kind = "counter" -> 0
      [] kind = "gauge" -> Nil
      [] kind = "histogram" -> [count |-> 0, max |-> -1, exemplar |-> Nil]
      [] kind = "distinct" -> {}

Init ==
    /\ experiments = <<>> /\ assignments = <<>>
    /\ renewals = [p \in Pairs |-> 0]
    /\ events = <<>> /\ logs = <<>>
    /\ series = <<>> /\ rejected = {}
    /\ internal = [events |-> 0, logs |-> 0, series |-> 0]
    /\ captured = [events |-> <<>>, logs |-> 0, series |-> [s \in Series |-> Clean(s[1])],
                   drops |-> [events |-> 0, logs |-> 0, series |-> 0]]
    /\ recorded = [s \in Series |-> <<>>]
    /\ attempts = [events |-> 0, logs |-> 0]
    /\ dropped = [events |-> {}, logs |-> {}]
    /\ calls = 0

Call == calls < MaxCalls /\ calls' = calls + 1

-----------------------------------------------------------------------------
(* Buffers. *)

\* event(name, attrs): a full buffer refuses the new row, which is counted.
Emit(event) ==
    /\ attempts' = [attempts EXCEPT !.events = @ + 1]
    /\ IF Len(events) < MaxEvents
       THEN /\ events' = Append(events, event)
            /\ UNCHANGED <<internal, dropped>>
       ELSE /\ internal' = [internal EXCEPT !.events = @ + 1]
            /\ dropped' = [dropped EXCEPT !.events = @ \cup {event}]
            /\ UNCHANGED events

\* The entry a full log buffer gives up for a line of this rank: the first of the lowest
\* rank below it, or none.
Victim(rank) ==
    LET lower == {k \in 1..Len(logs) : logs[k] < rank}
        lowest == {k \in lower : \A j \in lower : logs[k] <= logs[j]}
    IN  IF lower = {} THEN 0 ELSE CHOOSE k \in lowest : \A j \in lowest : k <= j

LogCall(rank) ==
    /\ Call
    /\ attempts' = [attempts EXCEPT !.logs = @ + 1]
    /\ IF Len(logs) < MaxLogs
       THEN logs' = Append(logs, rank) /\ UNCHANGED <<internal, dropped>>
       ELSE /\ internal' = [internal EXCEPT !.logs = @ + 1]
            /\ LET victim == Victim(rank) IN
               IF victim = 0
               THEN dropped' = [dropped EXCEPT !.logs = @ \cup {rank}] /\ UNCHANGED logs
               ELSE /\ dropped' = [dropped EXCEPT !.logs = @ \cup {logs[victim]}]
                    /\ logs' = [logs EXCEPT ![victim] = rank]
    /\ UNCHANGED <<resolver, registry, events, captured>>

-----------------------------------------------------------------------------
(* Series. *)

\* _series: an existing series, a new one if the dimensions validate and the metric has
\* room; a series refused once stays refused and is counted once.
OfKind(kind) == {s \in DOMAIN series : s[1] = kind}

Admits(s) == s \in DOMAIN series \/ (s[2] # Invalid /\ Cardinality(OfKind(s[1])) < MaxSeries)

Live(s) == IF s \in DOMAIN series THEN series[s] ELSE Clean(s[1])

\* One observation of a live value: inc, set, observe, add.
Recorded(kind, live, v, attrs) ==
    CASE kind = "counter" -> live + v
      [] kind = "gauge" -> v
      [] kind = "histogram" ->
            [count |-> live.count + 1,
             max |-> IF v >= live.max THEN v ELSE live.max,
             exemplar |-> IF v >= live.max THEN attrs ELSE live.exemplar]
      [] kind = "distinct" -> live \cup {v}

Record(s, v, attrs) ==
    /\ Call
    /\ IF s \notin rejected /\ Admits(s)
       THEN /\ series' = [t \in DOMAIN series \cup {s} |->
                            IF t = s THEN Recorded(s[1], Live(s), v, attrs) ELSE series[t]]
            /\ recorded' = [recorded EXCEPT ![s] = Append(@, <<v, attrs>>)]
            /\ UNCHANGED <<rejected, internal>>
       ELSE /\ rejected' = rejected \cup {s}
            /\ internal' = [internal EXCEPT !.series = @ + IF s \in rejected THEN 0 ELSE 1]
            /\ UNCHANGED <<series, recorded>>
    /\ UNCHANGED <<resolver, events, logs, captured, attempts, dropped>>

\* What a frame adds to the values captured before: the server sums, keeps the last, merges.
Merged(kind, before, live) ==
    CASE kind = "counter" -> before + live
      [] kind = "gauge" -> IF live = Nil THEN before ELSE live
      [] kind = "histogram" ->
            [count |-> before.count + live.count, exemplar |-> Nil,
             max |-> IF live.max > before.max THEN live.max ELSE before.max]
      [] kind = "distinct" -> before \cup live

\* isDirty and hasCounterActivity.
HasActivity ==
    \/ events # <<>> \/ logs # <<>>
    \/ \E s \in DOMAIN series : series[s] # Clean(s[1])
    \/ internal # [events |-> 0, logs |-> 0, series |-> 0]

\* Mutant: a captured histogram goes on counting.
HistogramsKept == [s \in DOMAIN series |-> IF s[1] = "histogram" THEN series[s] ELSE Clean(s[1])]

\* The series after snapshotAndReset: they stay, cleaned.
Cleaned == [s \in DOMAIN series |-> Clean(s[1])]

\* Mutant: a frame that reports drops keeps counting them.
Unreset(counts) == counts

\* snapshotAndReset of the drop counters.
Reset(counts) == [events |-> 0, logs |-> 0, series |-> 0]

\* _captureFrame: everything live goes into the frame.
Capture ==
    /\ HasActivity /\ Call
    /\ captured' = [events |-> captured.events \o events,
                    logs |-> captured.logs + Len(logs),
                    series |-> [s \in Series |-> Merged(s[1], captured.series[s], Live(s))],
                    drops |-> [c \in DOMAIN internal |-> captured.drops[c] + internal[c]]]
    /\ series' = Cleaned
    /\ events' = <<>> /\ logs' = <<>>
    /\ internal' = Reset(internal)
    /\ dropped' = [dropped EXCEPT !.logs = {}]
    /\ UNCHANGED <<resolver, rejected, recorded, attempts>>

-----------------------------------------------------------------------------
(* Experiments. *)

WeightUpTo(experiment, k) ==
    FoldLeft(LAMBDA total, variant : total + variant.weight, 0, SubSeq(experiment.variants, 1, k))

\* assignVariant: outside the allocation nobody; inside it the first variant whose share of
\* the allocation reaches beyond the subject's bucket.
VariantAt(experiment, bucket) ==
    LET n == Len(experiment.variants)
        beyond == {k \in 1..n : bucket * WeightUpTo(experiment, n)
                                  < WeightUpTo(experiment, k) * experiment.allocation}
    IN  IF ~experiment.enabled \/ bucket >= experiment.allocation THEN Nil
        ELSE experiment.variants[IF beyond = {} THEN n ELSE CHOOSE k \in beyond : \A j \in beyond : k <= j]

AssignVariant(experiment, subject) == VariantAt(experiment, Bucket[experiment.id][subject])

\* The experiment that answers for a key: the first enabled one whose variant sets it.
Answering(key, subject) ==
    LET sets(e) == LET variant == AssignVariant(e, subject) IN
                   variant # Nil /\ key \in DOMAIN variant.values
        setting == {k \in 1..Len(experiments) : sets(experiments[k])}
    IN  IF setting = {} THEN Nil
        ELSE experiments[CHOOSE k \in setting : \A j \in setting : k <= j]

AssignmentsOf(subject) ==
    UNION {entry.assignments : entry \in {e \in ToSet(assignments) : e.subject = subject}}

Knows(subject) == \E entry \in ToSet(assignments) : entry.subject = subject

\* The pairs of subject and experiment the entries remember.
Remembered(entries) ==
    UNION {{<<entry.subject, a.experiment>> : a \in entry.assignments} : entry \in ToSet(entries)}

Assignment(experiment, variant) ==
    [experiment |-> experiment.id, variant |-> variant.key, goalMetric |-> experiment.goalMetric,
     fingerprint |-> experiment]

\* What replacing the entries forgets.
Forgetting(entries) ==
    LET gone == Remembered(assignments) \ Remembered(entries)
    IN  [p \in Pairs |-> renewals[p] + IF p \in gone THEN 1 ELSE 0]

\* Mutant: room is made once the bound is passed.
MakeRoomLate == IF Len(assignments) > MaxSubjects THEN Len(assignments) - MaxSubjects ELSE 0

\* The subjects evicted before a new one is remembered.
MakeRoom == IF Len(assignments) >= MaxSubjects THEN Len(assignments) - MaxSubjects + 1 ELSE 0

\* recordAssignment: a new subject pushes out the ones remembered longest.
RecordAssignment(subject, assignment) ==
    /\ assignments' =
          IF Knows(subject)
          THEN [k \in 1..Len(assignments) |->
                  IF assignments[k].subject # subject THEN assignments[k]
                  ELSE [assignments[k] EXCEPT !.assignments = @ \cup {assignment}]]
          ELSE Append(SubSeq(assignments, MakeRoom + 1, Len(assignments)),
                      [subject |-> subject, assignments |-> {assignment}])
    /\ renewals' = Forgetting(assignments')

\* The rows; "under" is for the properties and does not leave.
Exposure(subject, assignment) ==
    [name |-> "exposure", subject |-> subject, experiment |-> assignment.experiment,
     variant |-> assignment.variant, under |-> assignment.fingerprint]

\* The experiment of this name in the snapshot being served.
Served(id) ==
    LET serving == {e \in ToSet(experiments) : e.id = id /\ e.enabled}
    IN  IF serving = {} THEN Nil ELSE CHOOSE e \in serving : TRUE

Goal(subject, assignment) ==
    [name |-> "goal", subject |-> subject, experiment |-> assignment.experiment,
     variant |-> assignment.variant, under |-> Served(assignment.experiment)]

\* configGet for a subject: the first answer of an experiment exposes it.
ConfigGet(key, subject) ==
    LET experiment == Answering(key, subject) IN
    /\ experiment # Nil
    /\ <<subject, experiment.id>> \notin Remembered(assignments)
    /\ Call
    /\ LET assignment == Assignment(experiment, AssignVariant(experiment, subject)) IN
       /\ RecordAssignment(subject, assignment)
       /\ Emit(Exposure(subject, assignment))
    /\ UNCHANGED <<experiments, registry, logs, captured>>

\* experimentGoal: one matching exposed assignment, or nothing; two throw.
Matching(subject, metric) == {a \in AssignmentsOf(subject) : a.goalMetric = metric}

ExperimentGoal(subject, metric) ==
    /\ Call
    /\ \E a \in AssignmentsOf(subject) :
          /\ Matching(subject, metric) = {a}
          /\ Emit(Goal(subject, a))
    /\ UNCHANGED <<resolver, registry, logs, captured>>

\* Mutant: an assignment lives as long as an experiment of its name.
KeptById(list, config) ==
    {a \in list : \E k \in 1..Len(config) : config[k].enabled /\ config[k].id = a.experiment}

\* Active assignments of a subject under a new snapshot.
Kept(list, config) ==
    {a \in list : \E k \in 1..Len(config) : config[k].enabled /\ config[k] = a.fingerprint}

\* The entries in order, without those that have no assignment left.
Remaining(entries) ==
    LET upTo[k \in 0..Len(entries)] ==
          IF k = 0 THEN <<>>
          ELSE IF entries[k].assignments = {} THEN upTo[k - 1]
          ELSE Append(upTo[k - 1], entries[k])
    IN  upTo[Len(entries)]

\* applyConfig: what the snapshot changed or ended is forgotten.
ApplyConfig(config) ==
    LET left == [k \in 1..Len(assignments) |->
                   [assignments[k] EXCEPT !.assignments = Kept(@, config)]]
    IN  /\ config # experiments
        /\ Call
        /\ experiments' = config
        /\ assignments' = Remaining(left)
        /\ renewals' = Forgetting(assignments')
        /\ UNCHANGED <<registry, events, logs, internal, captured, attempts, dropped>>

Next ==
    \/ \E rank \in Levels : LogCall(rank)
    \/ \E r \in Recordings : Record(r[1], r[2], r[3])
    \/ Capture
    \/ \E key \in ConfigKeys, subject \in Subjects : ConfigGet(key, subject)
    \/ \E subject \in Subjects, metric \in Metrics : ExperimentGoal(subject, metric)
    \/ \E config \in Configs : ApplyConfig(config)

Spec == Init /\ [][Next]_vars

-----------------------------------------------------------------------------
(* Properties. *)

\* Every call to event and log is in a frame, in a buffer or in the count of drops the next
\* frame reports; a refused series is counted once, however often it is used.  A full log
\* buffer gives up no line for a lesser one: what it holds ranks at least as high as
\* everything it dropped since the last capture.
DropsAreReported ==
    /\ attempts.events = Len(captured.events) + Len(events)
                            + captured.drops.events + internal.events
    /\ attempts.logs = captured.logs + Len(logs) + captured.drops.logs + internal.logs
    /\ Cardinality(rejected) = captured.drops.series + internal.series
    /\ \A k \in 1..Len(logs) : \A rank \in dropped.logs : logs[k] >= rank

SumOf(list) ==
    LET upTo[k \in 0..Len(list)] == IF k = 0 THEN 0 ELSE upTo[k - 1] + list[k][1]
    IN  upTo[Len(list)]

LargestOf(S) == CHOOSE x \in S : \A y \in S : x >= y

\* The frames so far and the live value make up what was recorded, wherever the captures fell:
\* counters sum to it, a gauge is the last value, a histogram has every observation, a sketch
\* every identifier.  What a refused series was given is in neither.  The exemplar of a live
\* histogram is that of the last of its largest observations since the capture, none if that
\* one had none: a capture leaves no exemplar behind for the next frame.
CapturesAddUp ==
    \A s \in Series :
        LET total == Merged(s[1], captured.series[s], Live(s))
            given == recorded[s]
        IN  CASE s[1] = "counter" -> total = SumOf(given)
              [] s[1] = "gauge" -> total = IF given = <<>> THEN Nil ELSE Last(given)[1]
              [] s[1] = "histogram" ->
                    /\ total.count = Len(given)
                    /\ total.max = LargestOf({-1} \cup {given[k][1] : k \in 1..Len(given)})
                    /\ Live(s).count > 0 =>
                          LET since == (Len(given) - Live(s).count + 1)..Len(given)
                              top == {k \in since : given[k][1] = Live(s).max}
                          IN  /\ \A k \in since : given[k][1] <= Live(s).max
                              /\ top # {} /\ Live(s).exemplar = given[LargestOf(top)][2]
              [] s[1] = "distinct" -> total = {given[k][1] : k \in 1..Len(given)}

Stream == captured.events \o events

\* The server refuses a goal without its exposure.  A goal leaves only behind an exposure of
\* the same subject, variant and version of the experiment, or that exposure was refused by a
\* full buffer and counted.
GoalsAreProvable ==
    \A g \in 1..Len(Stream) : Stream[g].name = "goal" =>
        LET exposure == [Stream[g] EXCEPT !.name = "exposure"] IN
        \/ \E k \in 1..(g - 1) : Stream[k] = exposure
        \/ exposure \in dropped.events

\* The exposures of a subject to an experiment that left or will.
Exposures(subject, id) ==
    {k \in 1..Len(Stream) : /\ Stream[k].name = "exposure"
                            /\ Stream[k].subject = subject /\ Stream[k].experiment = id}

\* A subject is exposed to an experiment once, and again only after its assignment was evicted
\* or a snapshot changed the experiment.  What is remembered is bounded, one entry a subject,
\* every assignment of an experiment served as it was when the subject met it.
ExposedOncePerStay ==
    /\ \A subject \in Subjects, id \in DOMAIN Bucket :
          Cardinality(Exposures(subject, id)) <= 1 + renewals[<<subject, id>>]
    /\ Len(assignments) <= MaxSubjects
    /\ \A j, k \in 1..Len(assignments) :
          assignments[j].subject = assignments[k].subject => j = k
    /\ \A k \in 1..Len(assignments) : \A a \in assignments[k].assignments :
          a.fingerprint = Served(a.experiment)

\* Claimed by the protocol: a goal is emitted only for an assignment already exposed.
GoalsHaveTheirExposure ==
    \A g \in 1..Len(Stream) : Stream[g].name = "goal" =>
        \E k \in 1..(g - 1) : Stream[k] = [Stream[g] EXCEPT !.name = "exposure"]
=============================================================================
