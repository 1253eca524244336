------------------------------ MODULE History ------------------------------
(***************************************************************************)
(* The historical telemetry pipeline of one project of the Wardx server:   *)
(*                                                                         *)
(*   - HistoryAccumulator: the open minute buckets in memory and the set   *)
(*     of minutes that SQLite has not seen yet;                            *)
(*   - PersistenceCoordinator._writeHistory: the flush that saves minutes, *)
(*     compacts minutes to hours and hours to days, and prunes;            *)
(*   - SqliteStateStore: the three bucket tables and the watermarks, one   *)
(*     transaction at a time;                                              *)
(*   - start-up (hydrateHistoricalState), graceful stop and crash.         *)
(*                                                                         *)
(* JavaScript runs _writeHistory to completion, so no request is served    *)
(* and no clock is read between two of its transactions; the process can   *)
(* still die there, and any of them can fail.  Hence one action per        *)
(* transaction, with the clock and the ingest path held while pc # "idle". *)
(*                                                                         *)
(* Data.  A bucket's rows are abstracted to one additive count (counters,  *)
(* events, logs, drops and histogram counts all merge by addition) and to  *)
(* the histogram bounds of one series.  The count of an hour or a day is   *)
(* kept as its contribution per minute of origin, which tells a minute     *)
(* that is missing from one that is merged twice.                          *)
(***************************************************************************)
EXTENDS Integers, FiniteSets

CONSTANTS
    MinuteMs,             \* width of a minute bucket in clock ticks
    MinutesPerHour,
    HoursPerDay,
    Days,                 \* days on the model's calendar
    ClockSkewAllowance,   \* history.clockSkewAllowanceMs
    MaxAcceptedPast,      \* history.maxAcceptedPastAgeMs
    MaxClockSkew,         \* limits.maxClockSkewMs: how far ahead a frame may be
    CompactionInterval,   \* history.compactionIntervalMs
    MinuteRetention,      \* aggregateRetentionMinutes, in ticks
    HourRetention,        \* history.aggregateHourlyRetentionHours, in ticks
    DayRetention,         \* history.aggregateDailyRetentionDays, in ticks
    MaxPendingBatches,    \* sqlite.maxPendingBatches
    MaxWriteBatchRows,    \* sqlite.maxWriteBatchRows
    Shapes,               \* histogram bounds a frame may carry
    NoBounds,             \* a frame or bucket without a histogram
    MaxNow,               \* bound: the clock stops here
    MaxFrames,            \* bound: frames ingested in a behaviour
    MaxFailures,          \* bound: transactions that fail by themselves
    MaxStops              \* bound: crashes and graceful stops

(* Every setting is an integer >= 1 (loadConfig.js); the loader compares   *)
(* no two of them.                                                         *)
ASSUME SettingsAreIntegers ==
    /\ {MinuteMs, MinutesPerHour, HoursPerDay, Days, ClockSkewAllowance,
        MaxAcceptedPast, CompactionInterval, MinuteRetention, HourRetention,
        DayRetention, MaxPendingBatches, MaxWriteBatchRows} \subseteq Nat \ {0}
    /\ {MaxClockSkew, MaxNow, MaxFrames, MaxFailures, MaxStops} \subseteq Nat
ASSUME NoBoundsIsNoShape == NoBounds \notin Shapes

VARIABLES
    mode,        \* the process: up, closing, exiting or down
    now,         \* Date.now()
    mem,         \* HistoryAccumulator.states
    dirty,       \* HistoryAccumulator.dirty
    marked,      \* "history" is in dirtyKinds
    healthy,     \* writeHealthy
    hourCand,    \* compactionCandidates, minute to hour
    dayCand,     \* compactionCandidates, hour to day
    pc,          \* where _writeHistory stands
    work,        \* the buckets left in its current loop
    minuteRows, hourRows, dayRows,   \* the SQLite tables
    minuteMark, hourMark,            \* compaction_watermarks, or Never
    accepted,    \* ghost: frames per minute the server answered for
    saved,       \* ghost: what of them a committed transaction held
    frames, failures, stops          \* counters behind the bounds

memory == <<mem, dirty, marked, healthy, hourCand, dayCand>>
disk == <<minuteRows, hourRows, dayRows, minuteMark, hourMark>>
ghosts == <<accepted, saved>>
counters == <<frames, failures, stops>>
vars == <<mode, now, memory, pc, work, disk, ghosts, counters>>

-----------------------------------------------------------------------------
(* The calendar: buckets are numbered, utcBucketStart(t) = t \div width.   *)

HourMs == MinutesPerHour * MinuteMs
DayMs == HoursPerDay * HourMs

Minutes == 0 .. Days * HoursPerDay * MinutesPerHour - 1
Hours == 0 .. Days * HoursPerDay - 1
DayNumbers == 0 .. Days - 1

MinuteOf(t) == t \div MinuteMs
HourOf(m) == m \div MinutesPerHour
DayOf(h) == h \div HoursPerDay

MinuteEnd(m) == (m + 1) * MinuteMs
HourEnd(h) == (h + 1) * HourMs
DayEnd(d) == (d + 1) * DayMs

MinutesOf(h) == {m \in Minutes : HourOf(m) = h}
HoursOf(d) == {h \in Hours : DayOf(h) = d}

(* An hour's rows are finalized once no frame for it can be accepted.      *)
FinalAtHourEnd(h) == HourEnd(h)   \* fault: late frames forgotten
HourFinalizesAt(h) == HourEnd(h) + MaxAcceptedPast
FinalAtDayEnd(d) == DayEnd(d)     \* fault: late hours forgotten
DayFinalizesAt(d) == DayEnd(d) + MaxAcceptedPast

-----------------------------------------------------------------------------
(* Rows.  "pruned" is read by the code as "absent"; the properties use the *)
(* difference and the last content.                                        *)

Never == -1
Bounds == Shapes \cup {NoBounds}
Status == {"absent", "open", "final", "pruned"}

MinuteRow == [status : Status, count : Nat, bounds : Bounds]
RollupRow == [status : Status, parts : [Minutes -> Nat], bounds : Bounds]
NoParts == [m \in Minutes |-> 0]
NoMinute == [status |-> "absent", count |-> 0, bounds |-> NoBounds]
NoRollup == [status |-> "absent", parts |-> NoParts, bounds |-> NoBounds]

Present(row) == row.status \in {"open", "final"}
Sealed(row) == row.status \in {"final", "pruned"}

(* A minute in memory: states.has(from), its count and its bounds.         *)
MemoryState == [held : BOOLEAN, count : Nat, bounds : Bounds]
NoState == [held |-> FALSE, count |-> 0, bounds |-> NoBounds]

(* A compaction candidate; NoCandidate is a key missing from the Map, and  *)
(* compactedAt = Never is null.                                            *)
Candidate == [dueAt : Nat \cup {Never}, compactedAt : Nat \cup {Never}]
NoCandidate == [dueAt |-> Never, compactedAt |-> Never]
Waiting(c) == c # NoCandidate
Due(c) == Waiting(c) /\ now >= c.dueAt

LaterOf(a, b) == IF a >= b THEN a ELSE b

(* PersistenceCoordinator._scheduleCompaction                              *)
Scheduled(c, closesAt) ==
    [dueAt |-> IF ~Waiting(c) THEN closesAt
               ELSE IF c.compactedAt = Never THEN LaterOf(c.dueAt, closesAt)
               ELSE LaterOf(closesAt, c.compactedAt + CompactionInterval),
     compactedAt |-> Never]

(* mergeHistoryBuckets throws on two different bounds of one series.       *)
Mergeable(bs) == \A b, c \in bs \ {NoBounds} : b = c
MergedBounds(bs) ==
    IF bs \subseteq {NoBounds} THEN NoBounds ELSE CHOOSE b \in bs : b # NoBounds

-----------------------------------------------------------------------------
TypeOK ==
    /\ mode \in {"up", "closing", "exiting", "down"}
    /\ now \in 0 .. MaxNow
    /\ mem \in [Minutes -> MemoryState]
    /\ dirty \in SUBSET {m \in Minutes : mem[m].held}
    /\ marked \in BOOLEAN
    /\ healthy \in BOOLEAN
    /\ hourCand \in [Hours -> Candidate]
    /\ dayCand \in [DayNumbers -> Candidate]
    /\ pc \in {"idle", "save", "schedule", "finalize", "hours", "days",
               "pruneMinutes", "pruneHours", "pruneDays"}
    /\ work \in SUBSET Nat
    /\ minuteRows \in [Minutes -> MinuteRow]
    /\ hourRows \in [Hours -> RollupRow]
    /\ dayRows \in [DayNumbers -> RollupRow]
    /\ minuteMark \in Nat \cup {Never}
    /\ hourMark \in Nat \cup {Never}
    /\ accepted \in [Minutes -> Nat]
    /\ saved \in [Minutes -> Nat]
    /\ frames \in Nat /\ failures \in Nat /\ stops \in Nat

Init ==
    /\ mode = "up"
    /\ now = 0
    /\ mem = [m \in Minutes |-> NoState]
    /\ dirty = {}
    /\ marked = TRUE
    /\ healthy = TRUE
    /\ hourCand = [h \in Hours |-> NoCandidate]
    /\ dayCand = [d \in DayNumbers |-> NoCandidate]
    /\ pc = "idle"
    /\ work = {}
    /\ minuteRows = [m \in Minutes |-> NoMinute]
    /\ hourRows = [h \in Hours |-> NoRollup]
    /\ dayRows = [d \in DayNumbers |-> NoRollup]
    /\ minuteMark = Never
    /\ hourMark = Never
    /\ accepted = [m \in Minutes |-> 0]
    /\ saved = [m \in Minutes |-> 0]
    /\ frames = 0 /\ failures = 0 /\ stops = 0

-----------------------------------------------------------------------------
(* Time, and the ingest path.                                              *)

Tick ==
    /\ pc = "idle"
    /\ now < MaxNow
    /\ now' = now + 1
    /\ UNCHANGED <<mode, memory, pc, work, disk, ghosts, counters>>

(* IngestPipeline.accept for one frame that starts at t: validation of the *)
(* timestamp, prepare (400 on bounds that differ within the minute),       *)
(* canAcceptHistory (503 when too many minutes are pending), commit, mark. *)
(* A refused frame changes nothing.                                        *)
AcceptableTime(t) == now - MaxAcceptedPast <= t /\ t <= now + MaxClockSkew
CompatibleInMinute(m, b) == Mergeable({mem[m].bounds, b})
WithinCapacity(m) == Cardinality(dirty \cup {m}) <= MaxPendingBatches

Ingest(t, b) ==
    LET m == MinuteOf(t) IN
    /\ mode = "up" /\ pc = "idle" /\ frames < MaxFrames
    /\ m \in Minutes
    /\ AcceptableTime(t)
    /\ CompatibleInMinute(m, b)
    /\ WithinCapacity(m)
    /\ mem' = [mem EXCEPT ![m] =
                 [held |-> TRUE, count |-> @.count + 1,
                  bounds |-> IF b = NoBounds THEN @.bounds ELSE b]]
    /\ dirty' = dirty \cup {m}
    /\ marked' = TRUE
    /\ accepted' = [accepted EXCEPT ![m] = @ + 1]
    /\ frames' = frames + 1
    /\ UNCHANGED <<mode, now, healthy, hourCand, dayCand, pc, work, disk,
                   saved, failures, stops>>

(* The setInterval of the constructor; close() clears it.                  *)
CompactionTimer ==
    /\ mode = "up" /\ pc = "idle" /\ ~marked
    /\ marked' = TRUE
    /\ UNCHANGED <<mode, now, mem, dirty, healthy, hourCand, dayCand, pc, work,
                   disk, ghosts, counters>>

-----------------------------------------------------------------------------
(* _drain takes the marks, _writeHistory starts with pending(now).         *)
FlushBegin ==
    /\ mode \in {"up", "closing"} /\ pc = "idle" /\ marked
    /\ marked' = FALSE
    /\ work' = dirty
    /\ pc' = "save"
    /\ UNCHANGED <<mode, now, mem, dirty, healthy, hourCand, dayCand, disk,
                   ghosts, counters>>

(* saveBuckets: the next maxWriteBatchRows pending minutes, one            *)
(* transaction, each written as it stands in memory.                       *)
NextChunk ==
    {m \in work : Cardinality({k \in work : k < m}) < MaxWriteBatchRows}
ClosedMinute(m) == now >= MinuteEnd(m) + ClockSkewAllowance
PendingRow(m) == [status |-> IF ClosedMinute(m) THEN "final" ELSE "open",
                  count |-> mem[m].count, bounds |-> mem[m].bounds]

SaveChunk ==
    /\ pc = "save" /\ work # {}
    /\ minuteRows' = [m \in Minutes |-> IF m \in NextChunk THEN PendingRow(m)
                                        ELSE minuteRows[m]]
    /\ saved' = [m \in Minutes |-> IF m \in NextChunk THEN mem[m].count
                                   ELSE saved[m]]
    /\ work' = work \ NextChunk
    /\ UNCHANGED <<mode, now, memory, pc, hourRows, dayRows, minuteMark,
                   hourMark, accepted, counters>>

FirstSliceOnly ==                  \* fault: the other slices are not written
    /\ pc = "save"
    /\ work' = dirty
    /\ pc' = "schedule"
    /\ UNCHANGED <<mode, now, memory, disk, ghosts, counters>>
SavesDone ==
    /\ pc = "save" /\ work = {}
    /\ work' = dirty
    /\ pc' = "schedule"
    /\ UNCHANGED <<mode, now, memory, disk, ghosts, counters>>

(* _scheduleCompaction(project, 'minute', 'hour', bucket), bucket by bucket *)
ScheduleHour(m) ==
    LET h == HourOf(m) IN
    /\ pc = "schedule" /\ m \in work
    /\ \A k \in work : m <= k
    /\ hourCand' = [hourCand EXCEPT ![h] =
                      Scheduled(@, MinuteEnd(m) + ClockSkewAllowance)]
    /\ work' = work \ {m}
    /\ UNCHANGED <<mode, now, mem, dirty, marked, healthy, dayCand, pc, disk,
                   ghosts, counters>>

(* history.acknowledge(pending); history.prunePersisted(now - maxPast)     *)
Forgotten(m) == MinuteEnd(m) <= now - MaxAcceptedPast
Acknowledge ==
    /\ pc = "schedule" /\ work = {}
    /\ dirty' = {}
    /\ mem' = [m \in Minutes |-> IF Forgotten(m) THEN NoState ELSE mem[m]]
    /\ pc' = "finalize"
    /\ UNCHANGED <<mode, now, marked, healthy, hourCand, dayCand, work, disk,
                   ghosts, counters>>

(* finalizeBucketsThrough(project, 'minute', now - clockSkewAllowanceMs),  *)
(* then the scan of the hour candidates begins.                            *)
FinalizeMinutes ==
    /\ pc = "finalize"
    /\ minuteRows' = [m \in Minutes |->
                        IF minuteRows[m].status = "open" /\ ClosedMinute(m)
                        THEN [minuteRows[m] EXCEPT !.status = "final"]
                        ELSE minuteRows[m]]
    /\ work' = {h \in Hours : Due(hourCand[h])}
    /\ pc' = "hours"
    /\ UNCHANGED <<mode, now, memory, hourRows, dayRows, minuteMark, hourMark,
                   ghosts, counters>>

-----------------------------------------------------------------------------
(* _scanCompaction(project, 'minute', 'hour', now), one due candidate at a *)
(* time.  The Map is walked in insertion order; any order is allowed here. *)

HourSources(h) == {m \in MinutesOf(h) : Present(minuteRows[m])}
OpenMinutes(h) == {m \in HourSources(h) : minuteRows[m].status = "open"}
HourReady(h) == HourSources(h) # {} /\ OpenMinutes(h) = {}
HourRollup(h) ==
    [status |-> IF now >= HourFinalizesAt(h) THEN "final" ELSE "open",
     parts |-> [m \in Minutes |-> IF m \in HourSources(h)
                                  THEN minuteRows[m].count ELSE 0],
     bounds |-> MergedBounds({minuteRows[m].bounds : m \in HourSources(h)})]
HourMerges(h) == Mergeable({minuteRows[m].bounds : m \in HourSources(h)})

(* _assertHistoricalBucketMutable: a finalized row admits only itself.     *)
Writable(row, new) == row.status = "final" => row = new

(* What becomes of a candidate whose destination was just written.         *)
DoneOnceCompacted(finalizesAt) == NoCandidate   \* fault: never finalized
Compacted(finalizesAt) ==
    IF now >= finalizesAt THEN NoCandidate
    ELSE [dueAt |-> finalizesAt, compactedAt |-> now]

(* Without source rows the candidate is forgotten; with open ones it waits *)
(* for the last of them to close.                                          *)
LastOpenMinute(h) == {m \in OpenMinutes(h) : \A k \in OpenMinutes(h) : k <= m}
DeferredHour(h) ==
    IF HourSources(h) = {} THEN {NoCandidate}
    ELSE {[dueAt |-> MinuteEnd(m) + ClockSkewAllowance, compactedAt |-> Never] :
          m \in LastOpenMinute(h)}

DeferHour(h) ==
    /\ pc = "hours" /\ h \in work
    /\ ~HourReady(h)
    /\ \E c \in DeferredHour(h) : hourCand' = [hourCand EXCEPT ![h] = c]
    /\ work' = work \ {h}
    /\ UNCHANGED <<mode, now, mem, dirty, marked, healthy, dayCand, pc, disk,
                   ghosts, counters>>

(* HistoricalCompactor.compact: replaceCompactedBucket writes the row and  *)
(* the watermark in one transaction; then the day is scheduled.            *)
CompactHour(h) ==
    /\ pc = "hours" /\ h \in work
    /\ HourReady(h) /\ HourMerges(h) /\ Writable(hourRows[h], HourRollup(h))
    /\ hourRows' = [hourRows EXCEPT ![h] = HourRollup(h)]
    /\ minuteMark' = LaterOf(minuteMark, HourEnd(h))
    /\ hourCand' = [hourCand EXCEPT ![h] = Compacted(HourFinalizesAt(h))]
    /\ dayCand' = [dayCand EXCEPT ![DayOf(h)] =
                     Scheduled(@, HourEnd(h) + MaxAcceptedPast)]
    /\ work' = work \ {h}
    /\ UNCHANGED <<mode, now, mem, dirty, marked, healthy, pc, minuteRows,
                   dayRows, hourMark, ghosts, counters>>

HoursDone ==
    /\ pc = "hours" /\ work = {}
    /\ work' = {d \in DayNumbers : Due(dayCand[d])}
    /\ pc' = "days"
    /\ UNCHANGED <<mode, now, memory, disk, ghosts, counters>>

(* _scanCompaction(project, 'hour', 'day', now)                            *)
DaySources(d) == {h \in HoursOf(d) : Present(hourRows[h])}
OpenHours(d) == {h \in DaySources(d) : hourRows[h].status = "open"}
DayReady(d) == DaySources(d) # {} /\ OpenHours(d) = {}
DayRollup(d) ==
    [status |-> IF now >= DayFinalizesAt(d) THEN "final" ELSE "open",
     parts |-> [m \in Minutes |-> IF HourOf(m) \in DaySources(d)
                                  THEN hourRows[HourOf(m)].parts[m] ELSE 0],
     bounds |-> MergedBounds({hourRows[h].bounds : h \in DaySources(d)})]
DayMerges(d) == Mergeable({hourRows[h].bounds : h \in DaySources(d)})

LastOpenHour(d) == {h \in OpenHours(d) : \A k \in OpenHours(d) : k <= h}
DeferredDay(d) ==
    IF DaySources(d) = {} THEN {NoCandidate}
    ELSE {[dueAt |-> HourEnd(h) + MaxAcceptedPast, compactedAt |-> Never] :
          h \in LastOpenHour(d)}

DeferDay(d) ==
    /\ pc = "days" /\ d \in work
    /\ ~DayReady(d)
    /\ \E c \in DeferredDay(d) : dayCand' = [dayCand EXCEPT ![d] = c]
    /\ work' = work \ {d}
    /\ UNCHANGED <<mode, now, mem, dirty, marked, healthy, hourCand, pc, disk,
                   ghosts, counters>>

CompactDay(d) ==
    /\ pc = "days" /\ d \in work
    /\ DayReady(d) /\ DayMerges(d) /\ Writable(dayRows[d], DayRollup(d))
    /\ dayRows' = [dayRows EXCEPT ![d] = DayRollup(d)]
    /\ hourMark' = LaterOf(hourMark, DayEnd(d))
    /\ dayCand' = [dayCand EXCEPT ![d] = Compacted(DayFinalizesAt(d))]
    /\ work' = work \ {d}
    /\ UNCHANGED <<mode, now, mem, dirty, marked, healthy, hourCand, pc,
                   minuteRows, hourRows, minuteMark, ghosts, counters>>

DaysDone ==
    /\ pc = "days" /\ work = {}
    /\ pc' = "pruneMinutes"
    /\ UNCHANGED <<mode, now, memory, work, disk, ghosts, counters>>

-----------------------------------------------------------------------------
(* _pruneHistory: pruneBuckets for each tier, one transaction each.        *)

Prunable(end, retention, watermark) ==
    /\ end <= now - retention
    /\ watermark # Never /\ end <= watermark

CoveredMinute(m) == hourRows[HourOf(m)].status = "final"

PruneMinutes ==
    /\ pc = "pruneMinutes"
    /\ minuteRows' = [m \in Minutes |->
         IF /\ minuteRows[m].status = "final"
            /\ Prunable(MinuteEnd(m), MinuteRetention, minuteMark)
            /\ CoveredMinute(m)
         THEN [minuteRows[m] EXCEPT !.status = "pruned"] ELSE minuteRows[m]]
    /\ pc' = "pruneHours"
    /\ UNCHANGED <<mode, now, memory, work, hourRows, dayRows, minuteMark,
                   hourMark, ghosts, counters>>

PruneHours ==
    /\ pc = "pruneHours"
    /\ hourRows' = [h \in Hours |->
         IF /\ hourRows[h].status = "final"
            /\ Prunable(HourEnd(h), HourRetention, hourMark)
            /\ dayRows[DayOf(h)].status = "final"
         THEN [hourRows[h] EXCEPT !.status = "pruned"] ELSE hourRows[h]]
    /\ pc' = "pruneDays"
    /\ UNCHANGED <<mode, now, memory, work, minuteRows, dayRows, minuteMark,
                   hourMark, ghosts, counters>>

(* The last transaction; _drain then finds no mark left and returns.       *)
PruneDays ==
    /\ pc = "pruneDays"
    /\ dayRows' = [d \in DayNumbers |->
         IF dayRows[d].status = "final" /\ DayEnd(d) <= now - DayRetention
         THEN [dayRows[d] EXCEPT !.status = "pruned"] ELSE dayRows[d]]
    /\ pc' = "idle"
    /\ healthy' = TRUE
    /\ mode' = IF mode = "closing" THEN "exiting" ELSE mode
    /\ UNCHANGED <<now, mem, dirty, marked, hourCand, dayCand, work, minuteRows,
                   hourRows, minuteMark, hourMark, ghosts, counters>>

-----------------------------------------------------------------------------
(* _drain's catch: the marks come back and the next timer flush retries;   *)
(* close() rejects and the process exits with what it holds.               *)
Fail ==
    /\ marked' = TRUE
    /\ healthy' = FALSE
    /\ pc' = "idle"
    /\ work' = {}
    /\ mode' = IF mode = "closing" THEN "exiting" ELSE mode
    /\ UNCHANGED <<now, mem, dirty, hourCand, dayCand, disk, ghosts>>

TransactionFails ==
    /\ pc # "idle"
    /\ failures < MaxFailures
    /\ Fail
    /\ failures' = failures + 1
    /\ UNCHANGED <<frames, stops>>

(* The two errors compaction raises whenever it meets them.                *)
HourBlocked(h) == HourReady(h) /\ ~HourMerges(h)
DayBlocked(d) == DayReady(d) /\ ~DayMerges(d)
HourConflict(h) == HourReady(h) /\ ~Writable(hourRows[h], HourRollup(h))
DayConflict(d) == DayReady(d) /\ ~Writable(dayRows[d], DayRollup(d))

CompactionThrows ==
    /\ \/ pc = "hours" /\ \E h \in work : HourBlocked(h) \/ HourConflict(h)
       \/ pc = "days" /\ \E d \in work : DayBlocked(d) \/ DayConflict(d)
    /\ Fail
    /\ UNCHANGED counters

-----------------------------------------------------------------------------
(* Stopping and starting.                                                  *)

(* The process is gone: memory is lost, the ghost forgets what only memory *)
(* held.                                                                   *)
Dies ==
    /\ mode' = "down"
    /\ pc' = "idle"
    /\ work' = {}
    /\ mem' = [m \in Minutes |-> NoState]
    /\ dirty' = {}
    /\ marked' = FALSE
    /\ healthy' = TRUE
    /\ hourCand' = [h \in Hours |-> NoCandidate]
    /\ dayCand' = [d \in DayNumbers |-> NoCandidate]
    /\ accepted' = saved
    /\ UNCHANGED <<now, disk, saved>>

Crash ==
    /\ mode \in {"up", "closing"}
    /\ stops < MaxStops
    /\ Dies
    /\ stops' = stops + 1
    /\ UNCHANGED <<frames, failures>>

(* stop(): requests have drained, persistence.close() marks and flushes.   *)
Close ==
    /\ mode = "up" /\ pc = "idle"
    /\ stops < MaxStops
    /\ mode' = "closing"
    /\ marked' = TRUE
    /\ stops' = stops + 1
    /\ UNCHANGED <<now, mem, dirty, healthy, hourCand, dayCand, pc, work, disk,
                   ghosts, frames, failures>>

Exit ==
    /\ mode = "exiting"
    /\ Dies
    /\ UNCHANGED counters

(* hydrateHistoricalState and the coordinator's constructor.  _candidates  *)
(* reads compactionStarts on its first use; every row written between the  *)
(* start and that use is scheduled by itself, so reading at the start      *)
(* yields the same candidates.                                             *)
OnlyNewWork(sources, destination) == NoCandidate       \* fault: no restart scan
Uncompacted(sources, destination) ==
    IF sources # {} /\ destination.status # "final"
    THEN [dueAt |-> 0, compactedAt |-> Never] ELSE NoCandidate

Restart ==
    /\ mode = "down"
    /\ mode' = "up"
    /\ mem' = [m \in Minutes |->
                 IF Present(minuteRows[m]) /\ ~Forgotten(m)
                 THEN [held |-> TRUE, count |-> minuteRows[m].count,
                       bounds |-> minuteRows[m].bounds]
                 ELSE NoState]
    /\ dirty' = {}
    /\ marked' = TRUE
    /\ hourCand' = [h \in Hours |-> Uncompacted(HourSources(h), hourRows[h])]
    /\ dayCand' = [d \in DayNumbers |-> Uncompacted(DaySources(d), dayRows[d])]
    /\ UNCHANGED <<now, healthy, pc, work, disk, ghosts, counters>>

-----------------------------------------------------------------------------
FlushStep ==
    \/ FlushBegin
    \/ SaveChunk \/ SavesDone
    \/ \E m \in Minutes : ScheduleHour(m)
    \/ Acknowledge \/ FinalizeMinutes
    \/ \E h \in Hours : DeferHour(h) \/ CompactHour(h)
    \/ HoursDone
    \/ \E d \in DayNumbers : DeferDay(d) \/ CompactDay(d)
    \/ DaysDone
    \/ PruneMinutes \/ PruneHours \/ PruneDays
    \/ CompactionThrows

Next ==
    \/ Tick
    \/ \E t \in 0 .. MaxNow + MaxClockSkew, b \in Bounds : Ingest(t, b)
    \/ CompactionTimer
    \/ FlushStep
    \/ TransactionFails
    \/ Crash \/ Close \/ Exit \/ Restart

Spec == Init /\ [][Next]_vars

(* The clock runs (strongly fair, because a flush in progress holds it     *)
(* back in the model only), the flush timer is re-armed by every mark and  *)
(* every failed flush, the maintenance timer marks again, a flush runs to  *)
(* its end, and an operator restarts a stopped server.                     *)
Fairness ==
    /\ SF_vars(Tick)
    /\ WF_vars(CompactionTimer)
    /\ WF_vars(FlushStep)
    /\ WF_vars(Exit)
    /\ WF_vars(Restart)

FairSpec == Spec /\ Fairness

-----------------------------------------------------------------------------
(* The abstract promise: hours and days with a final row are published,    *)
(* and stay so when retention removes the row.                             *)
Published(row) == IF Sealed(row) THEN {row.parts} ELSE {}
R == INSTANCE Rollups WITH
       durable <- saved,
       hourTotal <- [h \in Hours |-> Published(hourRows[h])],
       dayTotal <- [d \in DayNumbers |-> Published(dayRows[d])]

(* History implements Rollups (under SettingsOrdered): flushes, failures,  *)
(* restarts and retention are invisible to a reader of finalized totals.   *)
ImplementsRollups == R!Spec

(* Settings the rollups rely on: minutes close before frames for them      *)
(* become unacceptable, and a tier outlives the tier it was built from.    *)
(* The loader enforces neither.                                            *)
SettingsOrdered ==
    /\ ClockSkewAllowance <= MaxAcceptedPast
    /\ MinuteRetention <= HourRetention
    /\ HourRetention <= DayRetention

(* A finalized hour or day counts every accepted frame of its period, each *)
(* exactly once: _scanCompaction finalizes a bucket only when no source    *)
(* can change any more (PersistenceCoordinator.js:253-264).                *)
FinalRollupsAreExact ==
    /\ \A h \in Hours : Sealed(hourRows[h]) =>
         \A m \in Minutes :
           hourRows[h].parts[m] = IF HourOf(m) = h THEN accepted[m] ELSE 0
    /\ \A d \in DayNumbers : Sealed(dayRows[d]) =>
         \A m \in Minutes :
           dayRows[d].parts[m] = IF DayOf(HourOf(m)) = d THEN accepted[m] ELSE 0

(* Compaction never runs into "finalized historical buckets are immutable" *)
(* (SqliteStateStore.js:551): a due candidate either leaves a finalized    *)
(* destination alone or writes it again unchanged.                         *)
NoImmutableConflict ==
    /\ pc = "hours" => \A h \in work : ~HourConflict(h)
    /\ pc = "days" => \A d \in work : ~DayConflict(d)

(* While frames for a minute can still be accepted, memory holds all of    *)
(* the minute, across restarts too: saveBuckets replaces the stored row by *)
(* what memory has, so anything less would erase saved counts.             *)
MemoryCoversOpenWindow ==
    mode \in {"up", "closing"} =>
      \A m \in Minutes : MinuteEnd(m) > now - MaxAcceptedPast
                           => mem[m].count = accepted[m]

(* What a transaction has saved stays readable in some tier until the day  *)
(* retention passes: pruning never runs ahead of a durable rollup.         *)
SavedStaysReadable ==
    \A m \in Minutes : saved[m] > 0 =>
      LET h == HourOf(m)
          d == DayOf(h) IN
      \/ Present(minuteRows[m]) /\ minuteRows[m].count = saved[m]
      \/ hourRows[h].status = "final" /\ hourRows[h].parts[m] = saved[m]
      \/ dayRows[d].status = "final" /\ dayRows[d].parts[m] = saved[m]
      \/ DayEnd(d) <= now - DayRetention

(* Nothing waits for a flush or a compaction that nobody will run: dirty   *)
(* minutes keep the history mark, and rows that are not rolled up for good *)
(* keep a candidate, through failed flushes and restarts.                  *)
PendingWorkIsScheduled ==
    mode = "up" /\ pc = "idle" =>
      /\ dirty # {} => marked
      /\ \A h \in Hours :
           HourSources(h) \ dirty # {} /\ hourRows[h].status # "final"
             => Waiting(hourCand[h])
      /\ \A d \in DayNumbers :
           DaySources(d) # {} /\ dayRows[d].status # "final"
             => Waiting(dayCand[d])

(* A graceful stop whose flush succeeded leaves nothing behind in memory.  *)
CleanStopSavesAll == mode = "exiting" /\ healthy => accepted = saved

(* Rows of two bounds for one series never meet in a compaction: they are  *)
(* refused where they arrive.                                              *)
BoundsRejectedAtIngest ==
    /\ pc = "hours" => \A h \in work : ~HourBlocked(h)
    /\ pc = "days" => \A d \in work : ~DayBlocked(d)

(* Every accepted frame that no crash takes away reaches a finalized day,  *)
(* whatever fails and restarts on the way.  (Checked with compatible       *)
(* bounds: with others, compaction is stuck, see BoundsRejectedAtIngest.)  *)
EventuallyRolledUp ==
    \A m \in Minutes :
      accepted[m] > 0 ~> accepted[m] = 0 \/ Sealed(dayRows[DayOf(HourOf(m))])
=============================================================================
