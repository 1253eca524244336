------------------------------ MODULE LiveViews ------------------------------
(***************************************************************************)
(* What a project shows of the present: the minute windows and persisted   *)
(* log rollups of FrameAggregator, and the three rings of recent clients,  *)
(* events and logs.  Everything is fed by commitIngest, in memory only,    *)
(* and cut back by the catalog operations that unlist a name.              *)
(*                                                                         *)
(* The environment is a set of SDK instances that capture consecutive      *)
(* frames on a clock they realign at every answer, and whose envelopes may *)
(* arrive late or never.  A frame's content is a list of rows, each        *)
(* stamped with the end of its frame.  An ingest walks an envelope as one  *)
(* sequence of items: every frame, followed by its rows.  Sums stand for   *)
(* every additive field of a histogram.                                    *)
(***************************************************************************)
EXTENDS Integers, Sequences, FiniteSets, SequencesExt

CONSTANTS
    Instances, ClientRoles,
    RoleOf,             \* [Instances -> ClientRoles]
    Rows,               \* the rows of every kind a frame may list
    Bodies,             \* [Instances -> contents its frames may have]
    Registers,          \* the registers of a sketch
    PersistNames,       \* log names a catalog may persist
    InspectNames,       \* event names a catalog may list for inspection
    Nil,                \* no exemplar, no experiment
    Minute,             \* ticks in a minute
    Retention,          \* aggregateRetentionMinutes, in ticks
    InstanceTtl,        \* aggregateInstanceTtlMs, in ticks
    MaxSeries,          \* aggregateMaxSeriesPerMetric
    MaxClients, MaxEvents, MaxLogs,     \* recent*Max
    Errors,             \* [Instances -> errors its clock may have after an answer]
    MaxNow, MaxSpan, MaxFrames, MaxSyncs, MaxChanges, MaxRestarts  \* bounds of the model

Metrics == {"counters", "gauges", "histograms", "distincts"}

ASSUME LiveViewsAssumption ==
    /\ RoleOf \in [Instances -> ClientRoles]
    /\ \A row \in Rows :
          /\ row.kind = "counters" => row.value \in Int
          /\ row.kind = "histograms" => row.value.count \in Nat /\ row.value.max \in Int
          /\ row.kind = "distincts" => row.value \in [Registers -> Nat]
    /\ Bodies \in [Instances -> SUBSET Seq(Rows)]
    /\ Minute \in Nat \ {0} /\ Retention \in Nat \ {0} /\ InstanceTtl \in Nat \ {0}
    /\ MaxSeries \in Nat \ {0}
    /\ MaxClients \in Nat \ {0} /\ MaxEvents \in Nat \ {0} /\ MaxLogs \in Nat \ {0}
    /\ Errors \in [Instances -> SUBSET Int]
    /\ MaxNow \in Nat

VARIABLES
    now,            \* the server's clock
    windows,        \* [minute -> window], for the minutes held
    instances,      \* the aggregator's map of instances, in its insertion order
    rollups,        \* persistLogLifetime
    clients,        \* RecentClients.byId, in its insertion order
    ring,           \* RecentEvents: buf, next, size
    logs,           \* RecentLogs.buf
    catalog,        \* the lists of the served catalog
    delivered,      \* [Instances -> when the last frame it delivered was captured]
    accepted,       \* ghost: items ingested since the start
    arrivals,       \* ghost: envelopes ingested since the start
    forgotten,      \* ghost: [PersistNames -> items ingested when it was last forgotten]
    inspected,      \* ghost: rows admitted for inspection and neither evicted nor forgotten
    spent           \* bound: frames, syncs, catalog changes and restarts so far

live == <<windows, instances, rollups, clients, ring, logs>>
record == <<accepted, arrivals, forgotten, inspected>>
viewVars == <<now, live, catalog, delivered, record, spent>>

MinuteFloor(t) == (t \div Minute) * Minute

NoEntries == [key \in {} |-> 0]

EmptyRing == [buf |-> [i \in 0..(MaxEvents - 1) |-> Nil], next |-> 0, size |-> 0]

ViewsInit ==
    /\ now = 0
    /\ windows = NoEntries /\ instances = <<>> /\ rollups = NoEntries
    /\ clients = <<>> /\ ring = EmptyRing /\ logs = <<>>
    /\ accepted = <<>> /\ arrivals = <<>> /\ inspected = <<>>
    /\ forgotten = [n \in PersistNames |-> 0]
    /\ catalog = [persistLogs |-> PersistNames, inspectEvents |-> InspectNames]
    /\ delivered = [i \in Instances |-> 0]
    /\ spent = [frames |-> 0, syncs |-> 0, changes |-> 0, restarts |-> 0]

-----------------------------------------------------------------------------
(* Maps and items. *)

\* The entry of a map, or what stands for a missing one.
At(map, key, missing) == IF key \in DOMAIN map THEN map[key] ELSE missing

Put(map, key, row) == [k \in DOMAIN map \cup {key} |-> IF k = key THEN row ELSE map[k]]

Bump(map, key) == Put(map, key, At(map, key, 0) + 1)

\* An item is a row as ingest knows it: with its frame, its instance and the persist list.
\* A frame itself comes first, as a row of its own kind.
ItemsOf(i, frame) ==
    LET listed == <<[kind |-> "frames"]>> \o frame.body
    IN  [k \in 1..Len(listed) |->
            [row |-> listed[k], instance |-> i, from |-> frame.from, to |-> frame.to,
             persist |-> catalog.persistLogs]]

\* The items of an envelope.
Items(i, frames) ==
    LET upTo[k \in 0..Len(frames)] ==
            IF k = 0 THEN <<>> ELSE upTo[k - 1] \o ItemsOf(i, frames[k])
    IN  upTo[Len(frames)]

RoleIn(x) == RoleOf[x.instance]
MinuteOf(x) == MinuteFloor(x.from)
SeriesOf(x) == [kind |-> x.row.kind, role |-> RoleIn(x), name |-> x.row.name, dims |-> x.row.dims]
LogKey(x) == <<RoleIn(x), x.row.level, x.row.name>>

-----------------------------------------------------------------------------
(* The merges of the aggregator. *)

MergeCounter(value, row) == value + row.value

\* Mutant: whatever arrives last wins.
LastArrival(gauge, row, ts) == [value |-> row.value, ts |-> ts]

\* The latest timestamp wins, the later delivery among equals.
MergeGauge(gauge, row, ts) ==
    IF ts >= gauge.ts THEN [value |-> row.value, ts |-> ts] ELSE gauge

\* A new maximum brings its exemplar or clears the old one; an equal one only brings it.
MergeHistogram(body, incoming) ==
    [count |-> body.count + incoming.count,
     max |-> IF incoming.max > body.max THEN incoming.max ELSE body.max,
     exemplar |-> IF \/ incoming.max > body.max
                     \/ incoming.max = body.max /\ incoming.exemplar # Nil
                  THEN incoming.exemplar ELSE body.exemplar]

\* mergeHllBodies: register by register, the larger rank.
MergeHll(left, right) ==
    [r \in Registers |-> IF right[r] > left[r] THEN right[r] ELSE left[r]]

\* The entry of a series after one more row of it.
Merged(series, x) ==
    LET key == SeriesOf(x)
        known == key \in DOMAIN series
        old == series[key]
        row == x.row
    IN  CASE row.kind = "counters" -> MergeCounter(IF known THEN old ELSE 0, row)
          [] row.kind = "gauges" -> IF known THEN MergeGauge(old, row, x.to)
                                    ELSE [value |-> row.value, ts |-> x.to]
          [] row.kind = "histograms" -> IF known THEN MergeHistogram(old, row.value) ELSE row.value
          [] row.kind = "distincts" -> IF known THEN MergeHll(old, row.value) ELSE row.value

SameMetric(s, t) == s.kind = t.kind /\ s.role = t.role /\ s.name = t.name

\* admitSeries: a known series, or one of at most MaxSeries of its metric in this window.
AdmitSeries(series, key) ==
    \/ key \in DOMAIN series
    \/ Cardinality({s \in DOMAIN series : SameMetric(s, key)}) < MaxSeries

\* ingestPersistLogs and bumpPersistLog: count and last exemplar of a persisted log line, in
\* the map of a window and in the lifetime map alike.
AddPersistLog(map, x) ==
    LET key == LogKey(x)
        line == [ts |-> x.to, instance |-> x.instance]
    IN  IF x.row.kind = "logs" /\ x.row.name \in x.persist
        THEN Put(map, key,
                 IF key \in DOMAIN map
                 THEN [count |-> map[key].count + 1,
                       exemplar |-> IF line.ts >= map[key].exemplar.ts THEN line
                                    ELSE map[key].exemplar]
                 ELSE [count |-> 1, exemplar |-> line])
        ELSE map

\* The counts a frame adds to: frames, events and logs.
Counted == {"frames", "events", "logs"}

AddCount(map, x, key) == IF x.row.kind \in Counted THEN Bump(map, key) ELSE map

\* ingestExperimentEvents: the count of an event name, and the exposures and goals of a slot.
AddEvent(map, x) == IF x.row.kind = "events" THEN Bump(map, <<RoleIn(x), x.row.name>>) ELSE map

AddExperiment(map, x) ==
    IF x.row.kind = "events" /\ x.row.slot # Nil THEN Bump(map, <<x.row.slot, x.row.name>>) ELSE map

EmptyWindow ==
    [total |-> NoEntries, roles |-> NoEntries, eventNames |-> NoEntries,
     experiments |-> NoEntries, logNames |-> NoEntries, series |-> NoEntries, dropped |-> 0]

\* One item added to the window of the minute its frame starts in.
AddToWindow(w, x) ==
    LET metric == x.row.kind \in Metrics
        key == SeriesOf(x)
        admitted == AdmitSeries(w.series, key)
    IN  [total |-> AddCount(w.total, x, x.row.kind),
         roles |-> AddCount(w.roles, x, <<RoleIn(x), x.row.kind>>),
         eventNames |-> AddEvent(w.eventNames, x),
         experiments |-> AddExperiment(w.experiments, x),
         logNames |-> AddPersistLog(w.logNames, x),
         series |-> IF metric /\ admitted THEN Put(w.series, key, Merged(w.series, x)) ELSE w.series,
         dropped |-> IF metric /\ ~admitted THEN w.dropped + 1 ELSE w.dropped]

-----------------------------------------------------------------------------
(* The rings. *)

Newest(seq, max) == IF Len(seq) <= max THEN seq ELSE SubSeq(seq, Len(seq) - max + 1, Len(seq))

\* Map.delete and Map.set: the entry moves to the end.
Touch(map, entry) ==
    LET known == {k \in 1..Len(map) : map[k].id = entry.id}
    IN  Append(IF known = {} THEN map ELSE RemoveAt(map, CHOOSE k \in known : TRUE), entry)

Push(r, row) ==
    [buf |-> [r.buf EXCEPT ![r.next] = row],
     next |-> (r.next + 1) % MaxEvents,
     size |-> IF r.size < MaxEvents THEN r.size + 1 ELSE r.size]

\* The rows of the ring, oldest first, as forget and query walk them.
RingRows(r) == [i \in 1..r.size |-> r.buf[(r.next - (r.size - i + 1) + MaxEvents) % MaxEvents]]

\* The rows of other names pushed one by one onto a ring.
PushOthers(start, rows, gone) ==
    LET upTo[k \in 0..Len(rows)] ==
            IF k = 0 THEN start
            ELSE IF rows[k].name \in gone THEN upTo[k - 1] ELSE Push(upTo[k - 1], rows[k])
    IN  upTo[Len(rows)]

\* Mutant: the ring is not emptied before the rows return.
NotEmptied(r, gone) == PushOthers(r, RingRows(r), gone)

\* forget, for a set of names: the ring is rebuilt from the rows of the others.
Forget(r, gone) == PushOthers(EmptyRing, RingRows(r), gone)

\* RecentEvents.ingest: the events of a listed name.
Inspected(x) == x.row.kind = "events" /\ x.row.name \in catalog.inspectEvents
EventRow(x) == [ts |-> x.to, name |-> x.row.name, instance |-> x.instance]

LogRow(x) == [ts |-> x.to, level |-> x.row.level, name |-> x.row.name, instance |-> x.instance]

-----------------------------------------------------------------------------
(* An ingest. *)

\* One item: to its window, to the rollups, and into the rings of events and logs.
AddItem(v, x) ==
    LET m == MinuteOf(x) IN
    [windows |-> Put(v.windows, m, AddToWindow(At(v.windows, m, EmptyWindow), x)),
     rollups |-> AddPersistLog(v.rollups, x),
     ring |-> IF Inspected(x) THEN Push(v.ring, EventRow(x)) ELSE v.ring,
     logs |-> IF x.row.kind = "logs" THEN Newest(Append(v.logs, LogRow(x)), MaxLogs) ELSE v.logs,
     inspected |-> IF Inspected(x) THEN Newest(Append(v.inspected, EventRow(x)), MaxEvents)
                   ELSE v.inspected]

\* The walks over an envelope; what one of them writes no other reads.
Ingested(v, items) ==
    LET upTo[k \in 0..Len(items)] == IF k = 0 THEN v ELSE AddItem(upTo[k - 1], items[k])
    IN  upTo[Len(items)]

LargestOf(S) == CHOOSE x \in S : \A y \in S : x >= y

\* The furthest frame end an instance delivered, with those of a new envelope.
DataThrough(i, frames) ==
    LargestOf({frames[f].to : f \in 1..Len(frames)}
              \cup {instances[k].dataThrough : k \in {j \in 1..Len(instances) : instances[j].id = i}})

\* _prune: the walk over the map stops at the first instance that is not stale.
Fresh(map) ==
    LET first == SelectInSeq(map, LAMBDA e : e.lastSyncAt >= now - InstanceTtl)
    IN  IF first = 0 THEN <<>> ELSE SubSeq(map, first, Len(map))

\* The aggregator's map after an envelope: the instance at its end, unless it brought no frame.
InstancesAfter(i, frames) ==
    Fresh(IF frames = <<>> THEN instances
          ELSE Touch(instances, [id |-> i, role |-> RoleOf[i],
                                 dataThrough |-> DataThrough(i, frames), lastSyncAt |-> now]))

-----------------------------------------------------------------------------
(* The SDK instances. *)

\* Bound: nothing more happens once the model's envelopes are spent.
Sending == spent.syncs < MaxSyncs

Tick ==
    /\ now < MaxNow /\ Sending
    /\ now' = now + 1
    /\ UNCHANGED <<live, catalog, delivered, record, spent>>

\* The frames an instance may have captured since the last it delivered, each shifted by
\* the error its clock had at that capture.  A stretch no frame covers was lost: the
\* request, or every retry of it, never arrived.  An envelope carries consecutive frames.
Captures(i) ==
    {[start |-> start, end |-> end, error |-> e, body |-> b] :
        start \in delivered[i]..(now - 1), end \in 1..now, e \in Errors[i], b \in Bodies[i]}

Batches(i) ==
    LET captures == {c \in Captures(i) : c.start < c.end /\ c.end - c.start <= MaxSpan}
    IN  {<<>>} \cup {<<c>> : c \in captures}
        \cup {pair \in captures \X captures : pair[1].end = pair[2].start}

\* The frames as the SDK's clock stamps them.
Shifted(batch) ==
    [k \in 1..Len(batch) |-> [from |-> batch[k].start + batch[k].error,
                              to |-> batch[k].end + batch[k].error, body |-> batch[k].body]]

\* commitIngest of an accepted envelope.
Sync(i, batch) ==
    LET frames == Shifted(batch)
        items == Items(i, frames)
        v == Ingested([windows |-> windows, rollups |-> rollups, ring |-> ring, logs |-> logs,
                       inspected |-> inspected], items)
    IN  /\ Sending /\ spent.frames + Len(batch) <= MaxFrames
        /\ windows' = [m \in {k \in DOMAIN v.windows : k >= now - Retention} |-> v.windows[m]]
        /\ instances' = InstancesAfter(i, frames)
        /\ rollups' = v.rollups
        /\ clients' = Newest(Touch(clients, [id |-> i, role |-> RoleOf[i], lastSeen |-> now]),
                             MaxClients)
        /\ ring' = v.ring /\ inspected' = v.inspected
        /\ logs' = v.logs
        /\ delivered' = IF batch = <<>> THEN delivered
                        ELSE [delivered EXCEPT ![i] = batch[Len(batch)].end]
        /\ accepted' = accepted \o items
        /\ arrivals' = Append(arrivals, [instance |-> i, at |-> now, frames |-> Len(batch)])
        /\ spent' = [spent EXCEPT !.syncs = @ + 1, !.frames = @ + Len(batch)]
        /\ UNCHANGED <<now, catalog, forgotten>>

-----------------------------------------------------------------------------
(* The catalog operations that change a list, as far as the views go. *)

\* The rows of other names, in their order: what a forgotten name leaves of the record.
Without(rows, gone) ==
    LET upTo[k \in 0..Len(rows)] ==
            IF k = 0 THEN <<>>
            ELSE IF rows[k].name \in gone THEN upTo[k - 1] ELSE Append(upTo[k - 1], rows[k])
    IN  upTo[Len(rows)]

\* publish: the events of a name that leaves the inspection list are forgotten.
Publish(new) ==
    LET gone == catalog.inspectEvents \ new.inspectEvents IN
    /\ catalog' = new
    /\ ring' = IF gone = {} THEN ring ELSE Forget(ring, gone)
    /\ inspected' = Without(inspected, gone)
    /\ UNCHANGED <<windows, instances, clients, logs>>

Changes(new) ==
    /\ spent.changes + spent.restarts < MaxChanges /\ Sending
    /\ spent' = [spent EXCEPT !.changes = @ + 1]
    /\ Publish(new)
    /\ UNCHANGED <<now, delivered, accepted, arrivals>>

\* Mutant: the name leaves the list, the rollup stays.
KeepRollup(name) ==
    /\ forgotten' = [forgotten EXCEPT ![name] = Len(accepted)]
    /\ UNCHANGED rollups

ForgetRollup(name) ==
    /\ rollups' = [k \in {key \in DOMAIN rollups : key[3] # name} |-> rollups[k]]
    /\ forgotten' = [forgotten EXCEPT ![name] = Len(accepted)]

SetPersistLog(name) ==
    /\ name \notin catalog.persistLogs
    /\ Changes([catalog EXCEPT !.persistLogs = @ \cup {name}])
    /\ UNCHANGED <<rollups, forgotten>>

DeletePersistLog(name) ==
    /\ name \in catalog.persistLogs
    /\ Changes([catalog EXCEPT !.persistLogs = @ \ {name}])
    /\ ForgetRollup(name)

\* A rollback of the change that listed the name: publish, and nothing else.
RollbackPersistLog(name) ==
    /\ name \in catalog.persistLogs
    /\ Changes([catalog EXCEPT !.persistLogs = @ \ {name}])
    /\ UNCHANGED <<rollups, forgotten>>

\* Listing and unlisting for inspection, by an operation or by a rollback: publish does it all.
SetInspectEvent(name) ==
    /\ name \notin catalog.inspectEvents
    /\ Changes([catalog EXCEPT !.inspectEvents = @ \cup {name}])
    /\ UNCHANGED <<rollups, forgotten>>

DeleteInspectEvent(name) ==
    /\ name \in catalog.inspectEvents
    /\ Changes([catalog EXCEPT !.inspectEvents = @ \ {name}])
    /\ UNCHANGED <<rollups, forgotten>>

\* A new process serves the stored catalog and starts with empty views.
Restart ==
    /\ spent.restarts < MaxRestarts /\ spent.changes = 0 /\ Sending
    /\ spent' = [spent EXCEPT !.restarts = @ + 1]
    /\ windows' = NoEntries /\ instances' = <<>> /\ rollups' = NoEntries
    /\ clients' = <<>> /\ ring' = EmptyRing /\ logs' = <<>>
    /\ accepted' = <<>> /\ arrivals' = <<>> /\ inspected' = <<>>
    /\ forgotten' = [n \in PersistNames |-> 0]
    /\ UNCHANGED <<now, catalog, delivered>>

ViewsNext ==
    \/ Tick \/ Restart
    \/ \E i \in Instances : \E batch \in Batches(i) : Sync(i, batch)
    \/ \E name \in PersistNames :
          SetPersistLog(name) \/ DeletePersistLog(name) \/ RollbackPersistLog(name)
    \/ \E name \in InspectNames : SetInspectEvent(name) \/ DeleteInspectEvent(name)

ViewsSpec == ViewsInit /\ [][ViewsNext]_viewVars

-----------------------------------------------------------------------------
(* What the aggregator answers. *)

\* Live instances, by their last sync.
Delivering(role) ==
    {k \in 1..Len(instances) : instances[k].role = role
                               /\ instances[k].lastSyncAt >= now - InstanceTtl}

\* Mutant: the furthest instance speaks for its role.
FurthestThrough(role, minute) ==
    Delivering(role) = {} \/
    \E k \in Delivering(role) : instances[k].dataThrough >= minute + Minute

\* _settledThrough and the completeness of a role in a minute: every live instance of
\* the role has delivered beyond it.
RoleComplete(role, minute) ==
    \A k \in Delivering(role) : instances[k].dataThrough >= minute + Minute

\* What snapshot reports for a window under a role filter.
FilteredTotal(role, minute) ==
    LET w == windows[minute] IN
    [kind \in Counted |-> IF <<role, "frames">> \in DOMAIN w.roles
                          THEN At(w.roles, <<role, kind>>, 0) ELSE At(w.total, kind, 0)]

\* The persisted logs of overviewRows, which getOverview lists as they are.
OverviewLogs == {key[3] : key \in DOMAIN rollups}

-----------------------------------------------------------------------------
(***************************************************************************)
(* The reference: the same answers read off a history h, a function from   *)
(* positions of the record to the items accepted there.                    *)
(***************************************************************************)

OfKinds(h, kinds) == Restrict(h, {k \in DOMAIN h : h[k].row.kind \in kinds})

\* How often each key comes up among the values of f.
Tally(f) ==
    [key \in Range(f) |-> Cardinality({k \in DOMAIN f : f[k] = key})]

\* Frames, events and logs, in all and by role; event names; exposures and goals by slot.
CountsMatch(w, h) ==
    LET counted == DOMAIN OfKinds(h, Counted)
        events == DOMAIN OfKinds(h, {"events"})
        slots == {k \in events : h[k].row.slot # Nil}
    IN  /\ w.total = Tally([k \in counted |-> h[k].row.kind])
        /\ w.roles = Tally([k \in counted |-> <<RoleIn(h[k]), h[k].row.kind>>])
        /\ w.eventNames = Tally([k \in events |-> <<RoleIn(h[k]), h[k].row.name>>])
        /\ w.experiments = Tally([k \in slots |-> <<h[k].row.slot, h[k].row.name>>])

\* Position k holds the last to arrive of the latest timestamp.
IsLatest(k, h) ==
    /\ k \in DOMAIN h
    /\ \A j \in DOMAIN h : h[j].to < h[k].to \/ (h[j].to = h[k].to /\ j <= k)

\* The lines of a list that was in force when they came.
Persisted(h) ==
    Restrict(h, {k \in DOMAIN h : h[k].row.kind = "logs" /\ h[k].row.name \in h[k].persist})

LogsMatch(map, h) ==
    /\ DOMAIN map = {LogKey(h[k]) : k \in DOMAIN h}
    /\ \A key \in DOMAIN map :
          LET mine == Restrict(h, {k \in DOMAIN h : LogKey(h[k]) = key}) IN
          /\ map[key].count = Cardinality(DOMAIN mine)
          /\ \E k \in DOMAIN mine :
                IsLatest(k, mine) /\ map[key].exemplar = [ts |-> h[k].to, instance |-> h[k].instance]

\* The sum of f over its positions.
SumOf(f) ==
    LET last == LargestOf({0} \cup DOMAIN f)
        upTo[k \in 0..last] ==
            IF k = 0 THEN 0 ELSE upTo[k - 1] + (IF k \in DOMAIN f THEN f[k] ELSE 0)
    IN  upTo[last]

\* The exemplar of a top value is the last one that came with it.
TopMatches(value, h) ==
    LET tops == {k \in DOMAIN h : h[k].row.value.max = value.max}
        shown == {k \in tops : h[k].row.value.exemplar # Nil}
    IN  /\ tops # {} /\ \A k \in DOMAIN h : h[k].row.value.max <= value.max
        /\ shown = {} => value.exemplar = Nil
        /\ shown # {} => \E k \in shown : /\ \A j \in shown : j <= k
                                          /\ value.exemplar = h[k].row.value.exemplar

\* The value a series should have, from all of its rows.
ExactValue(kind, value, h) ==
    CASE kind = "counters" -> value = SumOf([k \in DOMAIN h |-> h[k].row.value])
      [] kind = "gauges" ->
            \E k \in DOMAIN h :
                IsLatest(k, h) /\ value = [value |-> h[k].row.value, ts |-> h[k].to]
      [] kind = "histograms" ->
            value.count = SumOf([k \in DOMAIN h |-> h[k].row.value.count]) /\ TopMatches(value, h)
      [] kind = "distincts" ->
            \A r \in Registers : /\ \E k \in DOMAIN h : value[r] = h[k].row.value[r]
                                 /\ \A k \in DOMAIN h : h[k].row.value[r] <= value[r]

\* The rows that bring a new series, and those of them that find fewer than MaxSeries others
\* of their metric before them.
Firsts(h) == {k \in DOMAIN h : \A j \in DOMAIN h : j < k => SeriesOf(h[j]) # SeriesOf(h[k])}

Fitting(h) ==
    LET firsts == Firsts(h) IN
    {k \in firsts : Cardinality({j \in firsts : j < k /\ SameMetric(SeriesOf(h[j]), SeriesOf(h[k]))})
                        < MaxSeries}

SeriesRows(h, s) == Restrict(h, {k \in DOMAIN h : SeriesOf(h[k]) = s})

\* The series that fit hold their rows whole; the rows of the others are counted as dropped.
SeriesMatch(w, h) ==
    /\ DOMAIN w.series = {SeriesOf(h[k]) : k \in Fitting(h)}
    /\ \A s \in DOMAIN w.series : ExactValue(s.kind, w.series[s], SeriesRows(h, s))
    /\ w.dropped = Cardinality({k \in DOMAIN h : SeriesOf(h[k]) \notin DOMAIN w.series})

WindowMatches(w, h) ==
    CountsMatch(w, h) /\ LogsMatch(w.logNames, Persisted(h)) /\ SeriesMatch(w, OfKinds(h, Metrics))

\* The items of a record that belong to a minute.
Within(minute, h) == Restrict(h, {k \in DOMAIN h : MinuteOf(h[k]) = minute})

\* A bounded list holds, in order, the newest of the entries, by their positions.
HoldsNewest(list, entries, max) ==
    LET n == Cardinality(DOMAIN entries) IN
    /\ Len(list) = IF n <= max THEN n ELSE max
    /\ \A k \in DOMAIN entries :
          LET fromEnd == Cardinality({j \in DOMAIN entries : j >= k}) IN
          fromEnd <= max => list[Len(list) - fromEnd + 1] = entries[k]

LogRows(h) == [k \in DOMAIN OfKinds(h, {"logs"}) |-> LogRow(h[k])]

\* The persisted lines accepted since their name was last forgotten.
SinceForgotten ==
    LET lines == Persisted(accepted) IN
    Restrict(lines, {k \in DOMAIN lines : k > forgotten[lines[k].row.name]})

ClientRow(arrival) ==
    [id |-> arrival.instance, role |-> RoleOf[arrival.instance], lastSeen |-> arrival.at]

\* The last envelope of every instance.
LastSyncs(e) ==
    [a \in {a \in DOMAIN e : \A b \in DOMAIN e : b > a => e[b].instance # e[a].instance} |->
        ClientRow(e[a])]

\* What a window says of a role.
RoleView(w, role) ==
    [counts |-> [key \in {k \in DOMAIN w.roles : k[1] = role} |-> w.roles[key]],
     eventNames |-> [key \in {k \in DOMAIN w.eventNames : k[1] = role} |-> w.eventNames[key]],
     logNames |-> [key \in {k \in DOMAIN w.logNames : k[1] = role} |-> w.logNames[key]],
     series |-> [s \in {s \in DOMAIN w.series : s.role = role} |-> w.series[s]]]

-----------------------------------------------------------------------------
(* Properties. *)

\* A minute window is kept until an ingest finds it older than the retention, and says of
\* every frame that started in it, however late it came, exactly what was sent: a row is
\* counted whole in its series, or its series was refused and the row is counted as dropped.
WindowsAreExact ==
    /\ arrivals # <<>> =>
          DOMAIN windows = {m \in {MinuteOf(accepted[k]) : k \in 1..Len(accepted)} :
                                m >= arrivals[Len(arrivals)].at - Retention}
    /\ \A m \in DOMAIN windows : WindowMatches(windows[m], Within(m, accepted))

\* The lifetime rollup of a log name counts every line admitted since it was last forgotten,
\* and nothing before: neither unlisting and relisting a name nor a late line revives one.
RollupsAreExact ==
    LogsMatch(rollups, SinceForgotten)

\* The aggregator's map holds one entry for each instance that brought a frame within the TTL
\* before the last ingest, and no other.
InstancesAreLive ==
    LET cutoff == arrivals[Len(arrivals)].at - InstanceTtl IN
    /\ \A j, k \in 1..Len(instances) :
          j < k => /\ instances[j].lastSyncAt <= instances[k].lastSyncAt
                   /\ instances[j].id # instances[k].id
    /\ \A k \in 1..Len(instances) :
          \E a \in 1..Len(arrivals) : /\ arrivals[a].instance = instances[k].id
                                      /\ arrivals[a].frames # 0 /\ arrivals[a].at >= cutoff
                                      /\ instances[k].lastSyncAt = arrivals[a].at
    /\ \A a \in 1..Len(arrivals) :
          arrivals[a].frames # 0 /\ arrivals[a].at >= cutoff =>
              \E k \in 1..Len(instances) : /\ instances[k].id = arrivals[a].instance
                                           /\ instances[k].lastSyncAt >= arrivals[a].at

\* The rings show the last distinct clients by their last sync, the last log lines, and the
\* last event rows whose name is listed and was listed all the time since: the index
\* arithmetic of the ring, a wrap and a rebuild lose and repeat none.  The aggregator's map of
\* instances is in the order of the last syncs, so that its prune may stop at a fresh one.
RingsHoldTheNewest ==
    /\ RingRows(ring) = inspected
    /\ \A k \in 1..Len(inspected) : inspected[k].name \in catalog.inspectEvents
    /\ HoldsNewest(logs, LogRows(accepted), MaxLogs)
    /\ HoldsNewest(clients, LastSyncs(arrivals), MaxClients)
    /\ InstancesAreLive

\* What a complete role of a window says stands: it changes later only by an item of an
\* instance the aggregator did not count as live, or of a frame that a realigned clock starts
\* before the end its instance had delivered.
SettledWindowsStand ==
    [][\A m \in DOMAIN windows, role \in ClientRoles :
        ( /\ RoleComplete(role, m)
          /\ m \in DOMAIN windows'
          /\ RoleView(windows'[m], role) # RoleView(windows[m], role) )
        => \E n \in (Len(accepted) + 1)..Len(accepted') :
              LET x == accepted'[n] IN
              /\ RoleIn(x) = role /\ MinuteOf(x) = m
              /\ \A k \in Delivering(role) :
                    instances[k].id = x.instance => x.from < instances[k].dataThrough]_viewVars

\* Claimed by the overview: the persisted log rollups it lists are those of listed names.
OverviewListsAllowlisted == OverviewLogs \subseteq catalog.persistLogs

\* Claimed by the role filter: the totals of a filtered window are that role's.
FilterIsTheRoles ==
    \A m \in DOMAIN windows, role \in ClientRoles :
        FilteredTotal(role, m) =
            [kind \in Counted |-> At(windows[m].roles, <<role, kind>>, 0)]
=============================================================================
