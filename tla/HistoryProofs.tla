--------------------------- MODULE HistoryProofs ---------------------------
(***************************************************************************)
(* Proofs about the historical pipeline, for every calendar, every setting *)
(* and any number of frames, failures and stops.                           *)
(*                                                                         *)
(* TypeOK needs no assumption.  The other results hold under               *)
(* SettingsOrdered, which the configuration loader does not check; they    *)
(* follow from the inductive invariant IInv.                               *)
(***************************************************************************)
EXTENDS History, TLAPS

-----------------------------------------------------------------------------
(* The inductive invariant, in the order its parts depend on each other.   *)

(* A flush acknowledges every dirty minute before it compacts, and no      *)
(* minute becomes dirty while it runs.                                     *)
Stages ==
    /\ mode = "down" => pc = "idle" /\ dirty = {}
    /\ mode = "exiting" => pc = "idle" /\ (healthy => dirty = {})
    /\ pc \in {"save", "schedule"} => work \subseteq dirty
    /\ pc \notin {"idle", "save", "schedule"} => dirty = {}

(* Where the frames of a minute are.                                       *)
Written(m) == m \notin dirty \/ pc = "schedule" \/ (pc = "save" /\ m \notin work)
Ledger ==
    \A m \in Minutes :
      /\ minuteRows[m].count = saved[m]
      /\ minuteRows[m].status = "absent" => saved[m] = 0
      /\ Written(m) => saved[m] = accepted[m]
      /\ mode # "down" /\ (m \in dirty \/ ~Forgotten(m))
           => mem[m].count = accepted[m]

(* A sealed hour: nothing can reach it any more.                           *)
SealedHour(h) ==
    /\ now >= HourFinalizesAt(h)
    /\ minuteMark >= HourEnd(h)
    /\ ~Waiting(hourCand[h])
    /\ pc = "hours" => h \notin work
    /\ \A m \in MinutesOf(h) : m \notin dirty /\ minuteRows[m].status # "open"
    /\ \A m \in Minutes :
         hourRows[h].parts[m] = IF HourOf(m) = h THEN accepted[m] ELSE 0
    /\ hourRows[h].status = "pruned"
         => HourSources(h) = {} /\ Sealed(dayRows[DayOf(h)])
HourTier ==
    /\ \A h \in Hours : Sealed(hourRows[h]) => SealedHour(h)
    /\ \A m \in Minutes :
         minuteRows[m].status = "pruned" => Sealed(hourRows[HourOf(m)])
    /\ pc = "pruneHours" =>
         \A h \in Hours :
           hourRows[h].status = "final" /\ HourEnd(h) <= now - MinuteRetention
             => HourSources(h) = {}

(* An hour without a row has a candidate that comes due before the hour    *)
(* finalizes, and a flush that passes that point compacts it before days.  *)
Unscheduled == IF pc = "schedule" THEN work ELSE dirty
Late(h) == hourRows[h].status = "absent" /\ now >= HourFinalizesAt(h)
HourQueue ==
    /\ \A h \in Hours :
         hourRows[h].status = "absent" =>
           /\ Waiting(hourCand[h]) =>
                /\ hourCand[h].compactedAt = Never
                /\ hourCand[h].dueAt <= HourEnd(h) + ClockSkewAllowance
           /\ mode # "down" /\ ~Waiting(hourCand[h])
                => HourSources(h) \subseteq Unscheduled
    /\ pc = "hours" =>
         /\ \A m \in Minutes : minuteRows[m].status = "open" => ~ClosedMinute(m)
         /\ \A h \in Hours : Late(h) /\ HourSources(h) # {} => h \in work
    /\ pc = "days" => \A h \in Hours : Late(h) => HourSources(h) = {}

(* A sealed day: its hours are sealed or never had a frame.                *)
EmptyHour(h) ==
    /\ hourRows[h].status = "absent"
    /\ \A m \in MinutesOf(h) : minuteRows[m].status = "absent" /\ m \notin dirty
SealedDay(d) ==
    /\ now >= DayFinalizesAt(d)
    /\ hourMark >= DayEnd(d)
    /\ ~Waiting(dayCand[d])
    /\ pc = "days" => d \notin work
    /\ \A h \in HoursOf(d) : Sealed(hourRows[h]) \/ EmptyHour(h)
    /\ \A m \in Minutes :
         dayRows[d].parts[m] = IF DayOf(HourOf(m)) = d THEN accepted[m] ELSE 0
    /\ dayRows[d].status = "pruned"
         => DaySources(d) = {} /\ DayEnd(d) <= now - DayRetention
DayTier ==
    /\ \A d \in DayNumbers : Sealed(dayRows[d]) => SealedDay(d)
    /\ pc = "pruneDays" =>
         \A d \in DayNumbers :
           dayRows[d].status = "final" /\ DayEnd(d) <= now - HourRetention
             => DaySources(d) = {}

IInv ==
    /\ SettingsOrdered
    /\ TypeOK
    /\ Stages /\ Ledger /\ HourTier /\ HourQueue /\ DayTier

-----------------------------------------------------------------------------
(* The calendar.                                                           *)

(* Multiplication by a width is monotone.                                  *)
LEMMA TimesMonotone ==
    ASSUME NEW a \in Nat, NEW b \in Nat, NEW w \in Nat, a <= b
    PROVE  a * w <= b * w /\ a * w \in Nat
OBVIOUS

(* utcBucketStart: the bucket of t contains t.                             *)
LEMMA QuotientBounds ==
    ASSUME NEW t \in Nat, NEW w \in Nat \ {0}
    PROVE  t \div w \in Nat /\ (t \div w) * w <= t /\ t < (t \div w + 1) * w
OBVIOUS

(* A bucket of a bucket number below n * w is below n.                     *)
LEMMA QuotientBelow ==
    ASSUME NEW t \in Nat, NEW w \in Nat \ {0}, NEW n \in Nat, t < n * w
    PROVE  t \div w < n
OBVIOUS

(* Every bucket ends within the bucket it is rolled up into, and the       *)
(* minute a frame is counted in ends after the frame's timestamp.          *)
LEMMA Calendar ==
    /\ \A m \in Minutes : /\ HourOf(m) \in Hours
                          /\ MinuteEnd(m) \in Nat
                          /\ MinuteEnd(m) <= HourEnd(HourOf(m))
    /\ \A h \in Hours : /\ DayOf(h) \in DayNumbers
                        /\ HourEnd(h) \in Nat
                        /\ HourEnd(h) <= DayEnd(DayOf(h))
    /\ \A d \in DayNumbers : DayEnd(d) \in Nat
    /\ \A t \in Nat : t < MinuteEnd(MinuteOf(t))
<1> USE SettingsAreIntegers DEF Minutes, Hours, DayNumbers
<1>1. ASSUME NEW m \in Minutes
      PROVE  /\ HourOf(m) \in Hours
             /\ MinuteEnd(m) \in Nat
             /\ MinuteEnd(m) <= HourEnd(HourOf(m))
  <2> DEFINE k == Days * HoursPerDay
             q == m \div MinutesPerHour
  <2>1. k \in Nat /\ m \in Nat /\ m < k * MinutesPerHour
    OBVIOUS
  <2>2. q \in Nat /\ m + 1 <= (q + 1) * MinutesPerHour /\ q < k
    <3> HIDE DEF k
    <3>1. q \in Nat /\ m < (q + 1) * MinutesPerHour
      BY <2>1, QuotientBounds
    <3>2. q < k
      BY <2>1, QuotientBelow
    <3> QED BY <2>1, <3>1, <3>2
  <2>3. /\ (m + 1) * MinuteMs <= ((q + 1) * MinutesPerHour) * MinuteMs
        /\ (m + 1) * MinuteMs \in Nat
    <3> HIDE DEF q
    <3> (q + 1) * MinutesPerHour \in Nat
      BY <2>2
    <3> QED BY <2>1, <2>2, TimesMonotone
  <2>4. ((q + 1) * MinutesPerHour) * MinuteMs = (q + 1) * HourMs
    <3> HIDE DEF q
    <3> QED BY <2>2 DEF HourMs
  <2> QED BY <2>2, <2>3, <2>4 DEF HourOf, MinuteEnd, HourEnd
<1>2. ASSUME NEW h \in Hours
      PROVE  /\ DayOf(h) \in DayNumbers
             /\ HourEnd(h) \in Nat
             /\ HourEnd(h) <= DayEnd(DayOf(h))
  <2> DEFINE q == h \div HoursPerDay
  <2>1. h \in Nat /\ h < Days * HoursPerDay /\ HourMs \in Nat
    BY DEF HourMs
  <2>2. q \in Nat /\ h + 1 <= (q + 1) * HoursPerDay /\ q < Days
    <3>1. q \in Nat /\ h < (q + 1) * HoursPerDay
      BY <2>1, QuotientBounds
    <3>2. q < Days
      BY <2>1, QuotientBelow
    <3> QED BY <2>1, <3>1, <3>2
  <2>3. /\ (h + 1) * HourMs <= ((q + 1) * HoursPerDay) * HourMs
        /\ (h + 1) * HourMs \in Nat
    <3> HIDE DEF q
    <3> (q + 1) * HoursPerDay \in Nat
      BY <2>2
    <3> QED BY <2>1, <2>2, TimesMonotone
  <2>4. ((q + 1) * HoursPerDay) * HourMs = (q + 1) * DayMs
    <3> HIDE DEF q
    <3> QED BY <2>1, <2>2 DEF DayMs
  <2> QED BY <2>2, <2>3, <2>4 DEF DayOf, HourEnd, DayEnd
<1>3. ASSUME NEW d \in DayNumbers PROVE DayEnd(d) \in Nat
  BY DEF DayEnd, DayMs, HourMs
<1>4. ASSUME NEW t \in Nat PROVE t < MinuteEnd(MinuteOf(t))
  BY QuotientBounds DEF MinuteEnd, MinuteOf
<1> QED BY <1>1, <1>2, <1>3, <1>4

-----------------------------------------------------------------------------
(* Type correctness.                                                       *)

(* The bounds of merged rows are the bounds of one of them, or none.       *)
LEMMA MergedBoundsType ==
    ASSUME NEW bs \in SUBSET Bounds PROVE MergedBounds(bs) \in Bounds
BY DEF MergedBounds, Bounds

(* The times the candidates are computed from are natural numbers.         *)
LEMMA EndsAreNat ==
    /\ \A m \in Minutes : MinuteEnd(m) + ClockSkewAllowance \in Nat
    /\ \A h \in Hours : HourEnd(h) + MaxAcceptedPast \in Nat
    /\ \A h \in Hours : HourFinalizesAt(h) \in Nat
    /\ \A d \in DayNumbers : DayFinalizesAt(d) \in Nat
BY Calendar, SettingsAreIntegers DEF HourFinalizesAt, DayFinalizesAt

(* Scheduling and compacting leave well-formed candidates.                 *)
LEMMA CandidateTypes ==
    /\ NoCandidate \in Candidate
    /\ \A c \in Candidate, n \in Nat : Scheduled(c, n) \in Candidate
    /\ \A n \in Nat : [dueAt |-> n, compactedAt |-> Never] \in Candidate
    /\ now \in Nat => \A n \in Nat : Compacted(n) \in Candidate
BY SettingsAreIntegers
   DEF Candidate, NoCandidate, Scheduled, Waiting, LaterOf, Never, Compacted

(* Compaction writes well-formed rows.                                     *)
LEMMA RollupTypes ==
    ASSUME TypeOK
    PROVE  /\ \A h \in Hours : HourRollup(h) \in RollupRow
           /\ \A d \in DayNumbers : DayRollup(d) \in RollupRow
<1>1. ASSUME NEW h \in Hours PROVE HourRollup(h) \in RollupRow
  <2>1. MergedBounds({minuteRows[m].bounds : m \in HourSources(h)}) \in Bounds
    <3> {minuteRows[m].bounds : m \in HourSources(h)} \subseteq Bounds
      BY DEF TypeOK, MinuteRow, HourSources, MinutesOf
    <3> QED BY MergedBoundsType
  <2>2. \A m \in Minutes : minuteRows[m].count \in Nat
    BY DEF TypeOK, MinuteRow
  <2> QED BY <2>1, <2>2 DEF HourRollup, RollupRow, Status
<1>2. ASSUME NEW d \in DayNumbers PROVE DayRollup(d) \in RollupRow
  <2>1. MergedBounds({hourRows[h].bounds : h \in DaySources(d)}) \in Bounds
    <3> {hourRows[h].bounds : h \in DaySources(d)} \subseteq Bounds
      BY DEF TypeOK, RollupRow, DaySources, HoursOf
    <3> QED BY MergedBoundsType
  <2>2. \A h \in DaySources(d), m \in Minutes : hourRows[h].parts[m] \in Nat
    BY DEF TypeOK, RollupRow, DaySources, HoursOf
  <2> QED BY <2>1, <2>2 DEF DayRollup, RollupRow, Status
<1> QED BY <1>1, <1>2

(* Types hold initially.                                                   *)
LEMMA InitType == Init => TypeOK
BY SettingsAreIntegers
   DEF Init, TypeOK, MemoryState, NoState, Bounds, Candidate, NoCandidate,
       MinuteRow, NoMinute, RollupRow, NoRollup, NoParts, Status, Never

(* Every step keeps the types.                                             *)
LEMMA StepType == TypeOK /\ [Next]_vars => TypeOK'
<1> SUFFICES ASSUME TypeOK, [Next]_vars PROVE TypeOK'
  OBVIOUS
<1> USE DEF memory, disk, ghosts, counters
<1>1. CASE Tick
  BY <1>1, SettingsAreIntegers DEF Tick, TypeOK
<1>2. ASSUME NEW t \in 0 .. MaxNow + MaxClockSkew, NEW b \in Bounds, Ingest(t, b)
      PROVE  TypeOK'
  <2> DEFINE m == MinuteOf(t)
  <2>1. m \in Minutes
    BY <1>2 DEF Ingest
  <2>2. mem' \in [Minutes -> MemoryState]
    BY <1>2, <2>1 DEF Ingest, TypeOK, MemoryState
  <2>3. \A k \in Minutes : mem[k].held \/ k = m => mem'[k].held
    BY <1>2, <2>1 DEF Ingest, TypeOK, MemoryState
  <2>4. accepted' \in [Minutes -> Nat] /\ frames' \in Nat
    BY <1>2, <2>1 DEF Ingest, TypeOK
  <2>5. dirty' = dirty \cup {m} /\ marked' = TRUE
    BY <1>2 DEF Ingest
  <2>6. UNCHANGED <<mode, now, healthy, hourCand, dayCand, pc, work, disk,
                    saved, failures, stops>>
    BY <1>2 DEF Ingest
  <2> HIDE DEF m
  <2> QED BY <2>1, <2>2, <2>3, <2>4, <2>5, <2>6 DEF TypeOK
<1>3. CASE CompactionTimer
  BY <1>3 DEF CompactionTimer, TypeOK
<1>4. CASE FlushBegin
  <2>1. marked' \in BOOLEAN
    BY <1>4 DEF FlushBegin
  <2>2. work' \in SUBSET Nat
    BY <1>4 DEF FlushBegin, TypeOK, Minutes
  <2> QED BY <1>4, <2>1, <2>2 DEF FlushBegin, TypeOK
<1>5. CASE SaveChunk
  BY <1>5 DEF SaveChunk, TypeOK, PendingRow, MinuteRow, MemoryState, Status
<1>6. CASE SavesDone
  BY <1>6 DEF SavesDone, TypeOK, Minutes
<1>7. ASSUME NEW m \in Minutes, ScheduleHour(m) PROVE TypeOK'
  BY <1>7, EndsAreNat, CandidateTypes, Calendar DEF ScheduleHour, TypeOK
<1>8. CASE Acknowledge
  BY <1>8 DEF Acknowledge, TypeOK, MemoryState, NoState, Bounds
<1>9. CASE FinalizeMinutes
  <2>1. minuteRows' \in [Minutes -> MinuteRow]
    BY <1>9 DEF FinalizeMinutes, TypeOK, MinuteRow, Status
  <2>2. work' \in SUBSET Nat
    BY <1>9 DEF FinalizeMinutes, Hours
  <2> QED BY <1>9, <2>1, <2>2 DEF FinalizeMinutes, TypeOK
<1>11. ASSUME NEW h \in Hours, DeferHour(h) PROVE TypeOK'
  <2>1. DeferredHour(h) \subseteq Candidate
    BY CandidateTypes, EndsAreNat
    DEF DeferredHour, LastOpenMinute, OpenMinutes, HourSources, MinutesOf
  <2> QED BY <1>11, <2>1 DEF DeferHour, TypeOK
<1>12. ASSUME NEW h \in Hours, CompactHour(h) PROVE TypeOK'
  <2>1. hourRows' \in [Hours -> RollupRow]
    BY <1>12, RollupTypes DEF CompactHour, TypeOK
  <2>2. minuteMark' \in Nat \cup {Never}
    BY <1>12, Calendar DEF CompactHour, TypeOK, LaterOf
  <2>3. /\ hourCand' \in [Hours -> Candidate]
        /\ dayCand' \in [DayNumbers -> Candidate]
    BY <1>12, CandidateTypes, EndsAreNat, Calendar DEF CompactHour, TypeOK
  <2> QED BY <1>12, <2>1, <2>2, <2>3 DEF CompactHour, TypeOK
<1>13. CASE HoursDone
  BY <1>13 DEF HoursDone, TypeOK, DayNumbers
<1>15. ASSUME NEW d \in DayNumbers, DeferDay(d) PROVE TypeOK'
  <2>1. DeferredDay(d) \subseteq Candidate
    BY CandidateTypes, EndsAreNat
    DEF DeferredDay, LastOpenHour, OpenHours, DaySources, HoursOf
  <2> QED BY <1>15, <2>1 DEF DeferDay, TypeOK
<1>16. ASSUME NEW d \in DayNumbers, CompactDay(d) PROVE TypeOK'
  <2>1. dayRows' \in [DayNumbers -> RollupRow]
    BY <1>16, RollupTypes DEF CompactDay, TypeOK
  <2>2. hourMark' \in Nat \cup {Never}
    BY <1>16, Calendar DEF CompactDay, TypeOK, LaterOf
  <2>3. dayCand' \in [DayNumbers -> Candidate]
    BY <1>16, CandidateTypes, EndsAreNat DEF CompactDay, TypeOK
  <2> QED BY <1>16, <2>1, <2>2, <2>3 DEF CompactDay, TypeOK
<1>17. CASE DaysDone
  BY <1>17 DEF DaysDone, TypeOK
<1>18. CASE PruneMinutes
  BY <1>18 DEF PruneMinutes, TypeOK, MinuteRow, Status
<1>19. CASE PruneHours
  BY <1>19 DEF PruneHours, TypeOK, RollupRow, Status
<1>20. CASE PruneDays
  BY <1>20 DEF PruneDays, TypeOK, RollupRow, Status
<1>21. CASE TransactionFails \/ CompactionThrows
  <2>1. Fail /\ frames' \in Nat /\ failures' \in Nat /\ stops' \in Nat
    BY <1>21 DEF TransactionFails, CompactionThrows, TypeOK
  <2>2. marked' \in BOOLEAN /\ healthy' \in BOOLEAN
    BY <2>1 DEF Fail
  <2> QED BY <2>1, <2>2 DEF Fail, TypeOK
<1>22. CASE Crash \/ Exit
  <2>1. Dies /\ frames' \in Nat /\ failures' \in Nat /\ stops' \in Nat
    BY <1>22 DEF Crash, Exit, TypeOK
  <2>2. mem' \in [Minutes -> MemoryState]
    BY <2>1 DEF Dies, MemoryState, NoState, Bounds
  <2>3. marked' \in BOOLEAN /\ healthy' \in BOOLEAN
    BY <2>1 DEF Dies
  <2>4. /\ hourCand' \in [Hours -> Candidate]
        /\ dayCand' \in [DayNumbers -> Candidate]
    BY <2>1, CandidateTypes DEF Dies
  <2> QED BY <2>1, <2>2, <2>3, <2>4 DEF Dies, TypeOK
<1>23. CASE Close
  BY <1>23 DEF Close, TypeOK
<1>24. CASE Restart
  <2>1. mem' \in [Minutes -> MemoryState]
    BY <1>24 DEF Restart, TypeOK, MemoryState, NoState, Bounds, MinuteRow
  <2>2. /\ hourCand' \in [Hours -> Candidate]
        /\ dayCand' \in [DayNumbers -> Candidate]
    BY <1>24, CandidateTypes DEF Restart, Uncompacted
  <2>3. marked' \in BOOLEAN
    BY <1>24 DEF Restart
  <2>4. dirty' \in SUBSET {m \in Minutes : mem'[m].held}
    BY <1>24 DEF Restart
  <2> QED BY <1>24, <2>1, <2>2, <2>3, <2>4 DEF Restart, TypeOK
<1>25. CASE UNCHANGED vars
  BY <1>25 DEF vars, TypeOK
<1> QED
  BY <1>1, <1>2, <1>3, <1>4, <1>5, <1>6, <1>7, <1>8, <1>9, <1>11, <1>12,
     <1>13, <1>15, <1>16, <1>17, <1>18, <1>19, <1>20, <1>21, <1>22, <1>23,
     <1>24, <1>25 DEF Next, FlushStep

(* The state never leaves its types, whatever the settings.                *)
THEOREM TypeCorrect == Spec => []TypeOK
BY InitType, StepType, PTL DEF Spec

-----------------------------------------------------------------------------
(* The inductive invariant, part by part.                                  *)

(* It holds initially.                                                     *)
LEMMA InitIInv == SettingsOrdered /\ Init => IInv
<1> SUFFICES ASSUME SettingsOrdered, Init PROVE IInv
  OBVIOUS
<1> USE DEF Init, Sealed, Present, NoMinute, NoRollup, NoParts
<1>1. TypeOK
  BY InitType
<1>2. Stages
  BY DEF Stages
<1>3. Ledger
  <2>1. ASSUME NEW m \in Minutes PROVE mem[m].count = 0 /\ minuteRows[m].count = 0
    BY DEF NoState
  <2> QED BY <2>1 DEF Ledger
<1>4. HourTier
  BY DEF HourTier
<1>5. HourQueue
  BY DEF HourQueue, Waiting, HourSources, MinutesOf
<1>6. DayTier
  BY DEF DayTier
<1> QED BY <1>1, <1>2, <1>3, <1>4, <1>5, <1>6 DEF IInv

(* Dirty minutes are acknowledged before compaction, and ingest waits.     *)
LEMMA StagesStep == TypeOK /\ Stages /\ [Next]_vars => Stages'
<1> SUFFICES ASSUME TypeOK, Stages, [Next]_vars PROVE Stages'
  OBVIOUS
<1> USE DEF Stages, memory, disk, ghosts, counters
<1>1. CASE Tick \/ CompactionTimer \/ FlushBegin \/ SavesDone \/ SaveChunk
  BY <1>1 DEF Tick, CompactionTimer, FlushBegin, SavesDone, SaveChunk
<1>2. ASSUME NEW t \in 0 .. MaxNow + MaxClockSkew, NEW b \in Bounds, Ingest(t, b)
      PROVE  Stages'
  BY <1>2 DEF Ingest
<1>3. ASSUME NEW m \in Minutes, ScheduleHour(m) PROVE Stages'
  BY <1>3 DEF ScheduleHour
<1>4. CASE Acknowledge \/ FinalizeMinutes \/ HoursDone \/ DaysDone
  BY <1>4 DEF Acknowledge, FinalizeMinutes, HoursDone, DaysDone
<1>5. ASSUME NEW h \in Hours, DeferHour(h) \/ CompactHour(h)
      PROVE  Stages'
  BY <1>5 DEF DeferHour, CompactHour
<1>6. ASSUME NEW d \in DayNumbers, DeferDay(d) \/ CompactDay(d)
      PROVE  Stages'
  BY <1>6 DEF DeferDay, CompactDay
<1>7. CASE PruneMinutes \/ PruneHours \/ PruneDays
  BY <1>7 DEF PruneMinutes, PruneHours, PruneDays, TypeOK
<1>8. CASE TransactionFails \/ CompactionThrows
  BY <1>8 DEF TransactionFails, CompactionThrows, Fail, TypeOK
<1>9. CASE Crash \/ Exit \/ Close \/ Restart
  BY <1>9 DEF Crash, Exit, Close, Restart, Dies
<1>10. CASE UNCHANGED vars
  BY <1>10 DEF vars
<1> QED
  BY <1>1, <1>2, <1>3, <1>4, <1>5, <1>6, <1>7, <1>8, <1>9, <1>10
  DEF Next, FlushStep

(* The timestamps are integers wherever two of them are compared.          *)
LEMMA Times ==
    ASSUME TypeOK
    PROVE  /\ now \in Nat
           /\ {ClockSkewAllowance, MaxAcceptedPast, MinuteRetention,
               HourRetention, DayRetention, MaxClockSkew} \subseteq Nat
BY SettingsAreIntegers DEF TypeOK

(* validate.js and prunePersisted agree: a frame that is accepted falls    *)
(* into a minute that memory still holds.                                  *)
LEMMA AcceptedIsRemembered ==
    ASSUME TypeOK, NEW t \in 0 .. MaxNow + MaxClockSkew,
           MinuteOf(t) \in Minutes, AcceptableTime(t)
    PROVE  ~Forgotten(MinuteOf(t))
<1>1. t \in Nat
  BY SettingsAreIntegers
<1>2. t < MinuteEnd(MinuteOf(t)) /\ MinuteEnd(MinuteOf(t)) \in Nat
  BY <1>1, Calendar
<1> QED BY <1>1, <1>2, Times DEF AcceptableTime, Forgotten

(* The minutes of an hour past its finalization are out of reach of ingest, *)
(* and so are the hours and minutes of a day past its own.                  *)
LEMMA PastFinalization ==
    ASSUME TypeOK
    PROVE  /\ \A m \in Minutes : now >= HourFinalizesAt(HourOf(m)) => Forgotten(m)
           /\ \A h \in Hours : now >= DayFinalizesAt(DayOf(h))
                                 => now >= HourFinalizesAt(h)
BY Times, Calendar DEF HourFinalizesAt, DayFinalizesAt, Forgotten

(* Memory, the minute table and the ghosts stay consistent.                *)
LEMMA LedgerStep == IInv /\ [Next]_vars => Ledger'
<1> SUFFICES ASSUME IInv, [Next]_vars PROVE Ledger'
  OBVIOUS
<1> USE DEF memory, disk, ghosts, counters
<1>0. TypeOK /\ Stages /\ Ledger /\ HourTier
  BY DEF IInv
<1>1. CASE Tick
  <2>1. \A m \in Minutes : ~Forgotten(m)' => ~Forgotten(m)
    BY <1>0, <1>1, Times, Calendar DEF Tick, Forgotten
  <2> QED BY <1>0, <1>1, <2>1 DEF Tick, Ledger, Written
<1>2. ASSUME NEW t \in 0 .. MaxNow + MaxClockSkew, NEW b \in Bounds, Ingest(t, b)
      PROVE  Ledger'
  <2> DEFINE m == MinuteOf(t)
  <2>1. /\ m \in Minutes /\ mode = "up" /\ pc = "idle" /\ AcceptableTime(t)
        /\ mem' = [mem EXCEPT ![m] =
                     [held |-> TRUE, count |-> @.count + 1,
                      bounds |-> IF b = NoBounds THEN @.bounds ELSE b]]
        /\ dirty' = dirty \cup {m}
        /\ accepted' = [accepted EXCEPT ![m] = @ + 1]
        /\ UNCHANGED <<mode, now, pc, work, minuteRows, saved>>
    BY <1>2 DEF Ingest
  <2>2. ~Forgotten(m)
    BY <1>0, <2>1, AcceptedIsRemembered
  <2>3. mem[m].count = accepted[m]
    BY <1>0, <2>1, <2>2 DEF Ledger
  <2>4. ASSUME NEW k \in Minutes
        PROVE  /\ k # m => accepted'[k] = accepted[k] /\ mem'[k] = mem[k]
               /\ mem'[m].count = accepted'[m]
    BY <1>0, <2>1, <2>3 DEF TypeOK, MemoryState
  <2>5. \A k \in Minutes : Forgotten(k)' = Forgotten(k)
    BY <2>1 DEF Forgotten
  <2> HIDE DEF m
  <2> QED BY <1>0, <2>1, <2>4, <2>5 DEF Ledger, Written
<1>3. CASE FlushBegin \/ SavesDone \/ Close
  BY <1>0, <1>3 DEF FlushBegin, SavesDone, Close, Ledger, Written, Forgotten, Stages
<1>4. CASE SaveChunk
  <2>1. NextChunk \subseteq dirty /\ work' \subseteq work
    BY <1>0, <1>4 DEF SaveChunk, NextChunk, Stages
  <2>2. \A m \in NextChunk : m \in Minutes /\ mem[m].count = accepted[m]
    BY <1>0, <1>4, <2>1 DEF SaveChunk, Stages, Ledger, TypeOK
  <2>3. \A m \in Minutes :
          /\ minuteRows'[m] = IF m \in NextChunk THEN PendingRow(m) ELSE minuteRows[m]
          /\ saved'[m] = IF m \in NextChunk THEN mem[m].count ELSE saved[m]
    BY <1>4 DEF SaveChunk
  <2>4. UNCHANGED <<mode, now, mem, dirty, pc, accepted>> /\ work' = work \ NextChunk
    BY <1>4 DEF SaveChunk
  <2>5. \A m \in Minutes : PendingRow(m).status # "absent"
                           /\ PendingRow(m).count = mem[m].count
    BY DEF PendingRow
  <2> HIDE DEF NextChunk, PendingRow
  <2> QED BY <1>0, <2>2, <2>3, <2>4, <2>5 DEF Ledger, Written, Forgotten
<1>5. ASSUME NEW m \in Minutes, ScheduleHour(m) PROVE Ledger'
  BY <1>0, <1>5 DEF ScheduleHour, Ledger, Written, Forgotten
<1>6. CASE Acknowledge
  BY <1>0, <1>6 DEF Acknowledge, Ledger, Written, Forgotten
<1>7. CASE FinalizeMinutes
  BY <1>0, <1>7 DEF FinalizeMinutes, Ledger, Written, Forgotten, Stages, TypeOK,
                    MinuteRow
<1>8. ASSUME NEW h \in Hours, DeferHour(h) \/ CompactHour(h)
      PROVE  Ledger'
  BY <1>0, <1>8 DEF DeferHour, CompactHour, Ledger, Written, Forgotten
<1>9. ASSUME NEW d \in DayNumbers, DeferDay(d) \/ CompactDay(d)
      PROVE  Ledger'
  BY <1>0, <1>9 DEF DeferDay, CompactDay, Ledger, Written, Forgotten
<1>10. CASE HoursDone \/ DaysDone \/ PruneHours \/ PruneDays
  BY <1>0, <1>10 DEF HoursDone, DaysDone, PruneHours, PruneDays, Ledger, Written,
                     Forgotten, Stages
<1>11. CASE PruneMinutes
  BY <1>0, <1>11 DEF PruneMinutes, Ledger, Written, Forgotten, TypeOK, MinuteRow
<1>12. CASE TransactionFails \/ CompactionThrows
  <2>1. Fail
    BY <1>12 DEF TransactionFails, CompactionThrows
  <2> QED BY <1>0, <2>1 DEF Fail, Ledger, Written, Forgotten, Stages
<1>13. CASE Crash \/ Exit
  BY <1>0, <1>13 DEF Crash, Exit, Dies, Ledger
<1>14. CASE Restart
  <2>1. \A m \in Minutes : ~Forgotten(m) => minuteRows[m].status # "pruned"
    BY <1>0, PastFinalization, Calendar DEF HourTier, SealedHour
  <2>2. \A m \in Minutes : saved[m] = accepted[m]
    BY <1>0, <1>14 DEF Restart, Ledger, Written, Stages
  <2>3. ASSUME NEW m \in Minutes, ~Forgotten(m) PROVE mem'[m].count = accepted[m]
    <3>1. CASE Present(minuteRows[m])
      BY <1>0, <1>14, <2>2, <2>3, <3>1 DEF Restart, Ledger
    <3>2. CASE ~Present(minuteRows[m])
      <4>1. minuteRows[m].status = "absent"
        BY <1>0, <2>1, <2>3, <3>2 DEF Present, TypeOK, MinuteRow, Status
      <4> QED BY <1>0, <1>14, <2>2, <3>2, <4>1 DEF Restart, Ledger, NoState
    <3> QED BY <3>1, <3>2
  <2> QED BY <1>0, <1>14, <2>2, <2>3 DEF Restart, Ledger, Written, Forgotten
<1>15. CASE CompactionTimer \/ UNCHANGED vars
  BY <1>0, <1>15 DEF CompactionTimer, vars, Ledger, Written, Forgotten
<1> QED
  BY <1>1, <1>2, <1>3, <1>4, <1>5, <1>6, <1>7, <1>8, <1>9, <1>10, <1>11,
     <1>12, <1>13, <1>14, <1>15 DEF Next, FlushStep

(* A flush that compacts has saved every accepted frame.                   *)
LEMMA CompactionSeesAll ==
    ASSUME Stages, Ledger, pc \notin {"idle", "save", "schedule"}
    PROVE  dirty = {} /\ \A m \in Minutes : saved[m] = accepted[m]
BY DEF Stages, Ledger, Written

(* What compaction adds up for an hour it may still finalize is exact.     *)
LEMMA HourRollupIsExact ==
    ASSUME IInv, NEW h \in Hours, pc = "hours", h \in work, HourReady(h)
    PROVE  /\ ~Sealed(hourRows[h])
           /\ \A m \in Minutes :
                HourRollup(h).parts[m] = IF HourOf(m) = h THEN accepted[m] ELSE 0
           /\ \A m \in MinutesOf(h) : minuteRows[m].status # "open"
<1>1. ~Sealed(hourRows[h])
  BY DEF IInv, HourTier, SealedHour
<1>2. ASSUME NEW m \in Minutes
      PROVE  HourRollup(h).parts[m] = IF HourOf(m) = h THEN accepted[m] ELSE 0
  <2>1. minuteRows[m].count = saved[m] /\ saved[m] = accepted[m]
    BY CompactionSeesAll DEF IInv, Ledger
  <2>2. HourOf(m) = h /\ ~Present(minuteRows[m]) => saved[m] = 0
    BY <1>1 DEF IInv, HourTier, Ledger, Present, TypeOK, MinuteRow, Status
  <2> QED BY <2>1, <2>2 DEF HourRollup, HourSources, MinutesOf
<1>3. \A m \in MinutesOf(h) : minuteRows[m].status # "open"
  BY DEF HourReady, OpenMinutes, HourSources, Present
<1> QED BY <1>1, <1>2, <1>3

(* Sealed hours stay exact and out of reach.                               *)
LEMMA HourTierStep == IInv /\ [Next]_vars => HourTier'
<1> SUFFICES ASSUME IInv, [Next]_vars PROVE HourTier'
  OBVIOUS
<1> USE DEF memory, disk, ghosts, counters
<1>0. TypeOK /\ Stages /\ Ledger /\ HourTier
  BY DEF IInv
<1>1. CASE Tick
  BY <1>0, <1>1, Times, EndsAreNat
  DEF Tick, HourTier, SealedHour, HourSources, MinutesOf, Sealed, Present
<1>2. ASSUME NEW t \in 0 .. MaxNow + MaxClockSkew, NEW b \in Bounds, Ingest(t, b)
      PROVE  HourTier'
  <2> DEFINE m == MinuteOf(t)
  <2>1. /\ m \in Minutes /\ pc = "idle" /\ AcceptableTime(t)
        /\ dirty' = dirty \cup {m}
        /\ accepted' = [accepted EXCEPT ![m] = @ + 1]
        /\ UNCHANGED <<now, hourCand, pc, work, disk>>
    BY <1>2 DEF Ingest
  <2>2. ~Sealed(hourRows[HourOf(m)])
    BY <1>0, <2>1, AcceptedIsRemembered, PastFinalization, Calendar
    DEF HourTier, SealedHour
  <2>3. \A k \in Minutes : k # m => accepted'[k] = accepted[k]
    BY <1>0, <2>1 DEF TypeOK
  <2> HIDE DEF m
  <2> QED BY <1>0, <2>1, <2>2, <2>3
          DEF HourTier, SealedHour, HourSources, MinutesOf
<1>3. CASE FlushBegin \/ SavesDone \/ Close
  BY <1>0, <1>3 DEF FlushBegin, SavesDone, Close, HourTier, SealedHour,
                    HourSources, MinutesOf
<1>4. CASE SaveChunk
  <2>1. NextChunk \subseteq dirty /\ pc = "save"
    BY <1>0, <1>4 DEF SaveChunk, NextChunk, Stages
  <2>2. \A m \in Minutes : m \notin NextChunk => minuteRows'[m] = minuteRows[m]
    BY <1>4 DEF SaveChunk
  <2>3. UNCHANGED <<now, dirty, hourCand, pc, hourRows, dayRows, minuteMark, accepted>>
    BY <1>4 DEF SaveChunk
  <2>4. \A m \in NextChunk : minuteRows'[m].status # "pruned"
    BY <1>0, <1>4, <2>1 DEF SaveChunk, PendingRow, TypeOK
  <2>5. \A h \in Hours : Sealed(hourRows[h]) =>
          \A m \in MinutesOf(h) : minuteRows'[m] = minuteRows[m]
    BY <1>0, <2>1, <2>2 DEF HourTier, SealedHour, MinutesOf
  <2> HIDE DEF NextChunk
  <2> QED BY <1>0, <2>1, <2>2, <2>3, <2>4, <2>5
          DEF HourTier, SealedHour, HourSources, MinutesOf
<1>5. ASSUME NEW m \in Minutes, ScheduleHour(m) PROVE HourTier'
  <2>1. m \in dirty /\ pc = "schedule"
    BY <1>0, <1>5 DEF ScheduleHour, Stages
  <2>2. ~Sealed(hourRows[HourOf(m)])
    BY <1>0, <2>1, Calendar DEF HourTier, SealedHour, MinutesOf
  <2>3. \A h \in Hours : h # HourOf(m) => hourCand'[h] = hourCand[h]
    BY <1>0, <1>5 DEF ScheduleHour, TypeOK
  <2>4. UNCHANGED <<now, dirty, pc, disk, accepted>>
    BY <1>5 DEF ScheduleHour
  <2> QED BY <1>0, <2>1, <2>2, <2>3, <2>4
          DEF HourTier, SealedHour, HourSources, MinutesOf
<1>6. CASE Acknowledge
  BY <1>0, <1>6 DEF Acknowledge, HourTier, SealedHour, HourSources, MinutesOf
<1>7. CASE FinalizeMinutes
  <2>1. /\ pc' = "hours" /\ \A h \in work' : Waiting(hourCand[h])
        /\ UNCHANGED <<now, dirty, hourCand, hourRows, dayRows, minuteMark, accepted>>
    BY <1>7 DEF FinalizeMinutes, Due
  <2>2. \A m \in Minutes :
          /\ minuteRows[m].status # "open" => minuteRows'[m] = minuteRows[m]
          /\ minuteRows'[m].status = "pruned" => minuteRows[m].status = "pruned"
    BY <1>0, <1>7 DEF FinalizeMinutes, TypeOK, MinuteRow
  <2> QED BY <1>0, <2>1, <2>2 DEF HourTier, SealedHour, HourSources, MinutesOf
<1>8. ASSUME NEW h \in Hours, DeferHour(h) PROVE HourTier'
  <2>1. /\ pc = "hours" /\ h \in work /\ work' \subseteq work
        /\ UNCHANGED <<now, dirty, pc, disk, accepted>>
    BY <1>8 DEF DeferHour
  <2>2. \A k \in Hours : k # h => hourCand'[k] = hourCand[k]
    BY <1>0, <1>8 DEF DeferHour, TypeOK
  <2>3. ~Sealed(hourRows[h])
    BY <1>0, <2>1 DEF HourTier, SealedHour
  <2> QED BY <1>0, <2>1, <2>2, <2>3
          DEF HourTier, SealedHour, HourSources, MinutesOf
<1>9. ASSUME NEW h \in Hours, CompactHour(h) PROVE HourTier'
  <2>1. /\ pc = "hours" /\ h \in work /\ work' = work \ {h} /\ HourReady(h)
        /\ minuteMark' = LaterOf(minuteMark, HourEnd(h))
        /\ UNCHANGED <<now, dirty, pc, minuteRows, dayRows, accepted>>
    BY <1>9 DEF CompactHour
  <2>2. /\ hourRows'[h] = HourRollup(h)
        /\ hourCand'[h] = Compacted(HourFinalizesAt(h))
        /\ \A k \in Hours : k # h =>
             hourRows'[k] = hourRows[k] /\ hourCand'[k] = hourCand[k]
    BY <1>0, <1>9 DEF CompactHour, TypeOK
  <2>3. minuteMark' >= HourEnd(h) /\ minuteMark' >= minuteMark
    BY <1>0, <2>1, Calendar DEF LaterOf, TypeOK, Never
  <2>4. /\ ~Sealed(hourRows[h])
        /\ \A m \in Minutes :
             HourRollup(h).parts[m] = IF HourOf(m) = h THEN accepted[m] ELSE 0
        /\ \A m \in MinutesOf(h) : minuteRows[m].status # "open"
    BY <2>1, HourRollupIsExact
  <2>5. dirty = {}
    BY <1>0, <2>1 DEF Stages
  <2>6. Sealed(HourRollup(h)) => /\ now >= HourFinalizesAt(h)
                                 /\ ~Waiting(Compacted(HourFinalizesAt(h)))
                                 /\ HourRollup(h).status # "pruned"
    BY DEF HourRollup, Sealed, Compacted, Waiting
  <2>7. ASSUME NEW k \in Hours, Sealed(hourRows'[k]) PROVE SealedHour(k)'
    <3>1. CASE k = h
      BY <2>1, <2>2, <2>3, <2>4, <2>5, <2>6, <2>7, <3>1 DEF SealedHour
    <3>2. CASE k # h
      <4>1. SealedHour(k)
        BY <1>0, <2>2, <2>7, <3>2 DEF HourTier
      <4>2. minuteMark' >= HourEnd(k)
        BY <1>0, <2>1, <2>3, <4>1, Calendar DEF SealedHour, TypeOK, LaterOf, Never
      <4> QED BY <2>1, <2>2, <2>5, <3>2, <4>1, <4>2
              DEF SealedHour, HourSources, MinutesOf
    <3> QED BY <3>1, <3>2
  <2>8. \A m \in Minutes :
          minuteRows'[m].status = "pruned" => Sealed(hourRows'[HourOf(m)])
    BY <1>0, <2>1, <2>2, <2>4, Calendar DEF HourTier
  <2> QED BY <2>1, <2>7, <2>8 DEF HourTier
<1>10. CASE HoursDone \/ DaysDone
  BY <1>0, <1>10 DEF HoursDone, DaysDone, HourTier, SealedHour, HourSources, MinutesOf
<1>11. ASSUME NEW d \in DayNumbers, DeferDay(d) PROVE HourTier'
  BY <1>0, <1>11 DEF DeferDay, HourTier, SealedHour, HourSources, MinutesOf
<1>12. ASSUME NEW d \in DayNumbers, CompactDay(d) PROVE HourTier'
  <2>1. /\ pc = "days" /\ d \in work
        /\ UNCHANGED <<now, dirty, hourCand, pc, minuteRows, hourRows, minuteMark, accepted>>
    BY <1>12 DEF CompactDay
  <2>2. ~Sealed(dayRows[d])
    BY <2>1 DEF IInv, DayTier, SealedDay
  <2>3. \A k \in DayNumbers : Sealed(dayRows[k]) => Sealed(dayRows'[k])
    BY <1>0, <1>12, <2>2 DEF CompactDay, TypeOK
  <2> QED BY <1>0, <2>1, <2>3, Calendar DEF HourTier, SealedHour, HourSources, MinutesOf
<1>13. CASE PruneMinutes
  <2>1. /\ pc = "pruneMinutes" /\ pc' = "pruneHours"
        /\ UNCHANGED <<now, dirty, hourCand, work, hourRows, dayRows, minuteMark, accepted>>
    BY <1>13 DEF PruneMinutes
  <2>2. ASSUME NEW m \in Minutes
        PROVE  \/ minuteRows'[m] = minuteRows[m]
               \/ minuteRows'[m].status = "pruned" /\ Sealed(hourRows[HourOf(m)])
    BY <1>0, <1>13 DEF PruneMinutes, CoveredMinute, Sealed, TypeOK, MinuteRow
  <2>3. ASSUME NEW h \in Hours, hourRows[h].status = "final",
               HourEnd(h) <= now - MinuteRetention, NEW m \in MinutesOf(h),
               Present(minuteRows[m])
        PROVE  minuteRows'[m].status = "pruned"
    <3>1. SealedHour(h) /\ m \in Minutes /\ HourOf(m) = h
      BY <1>0, <2>3 DEF HourTier, Sealed, MinutesOf
    <3>2. minuteRows[m].status = "final"
      BY <2>3, <3>1 DEF SealedHour, Present
    <3>3. Prunable(MinuteEnd(m), MinuteRetention, minuteMark)
      BY <1>0, <2>3, <3>1, Calendar, Times DEF SealedHour, Prunable, TypeOK, Never
    <3> QED BY <1>0, <1>13, <2>3, <3>1, <3>2, <3>3
            DEF PruneMinutes, CoveredMinute, TypeOK, MinuteRow
  <2>4. \A h \in Hours : hourRows[h].status = "final"
                         /\ HourEnd(h) <= now - MinuteRetention => HourSources(h)' = {}
    BY <2>2, <2>3 DEF HourSources, MinutesOf, Present
  <2>5. \A h \in Hours : HourSources(h)' \subseteq HourSources(h)
    BY <2>2 DEF HourSources, MinutesOf, Present
  <2>6. \A h \in Hours : Sealed(hourRows[h]) => SealedHour(h)'
    BY <1>0, <2>1, <2>2, <2>5 DEF HourTier, SealedHour, MinutesOf
  <2>7. \A m \in Minutes :
          minuteRows'[m].status = "pruned" => Sealed(hourRows[HourOf(m)])
    BY <1>0, <2>2 DEF HourTier
  <2> QED BY <2>1, <2>4, <2>6, <2>7 DEF HourTier
<1>14. CASE PruneHours
  <2>1. /\ pc = "pruneHours" /\ pc' = "pruneDays"
        /\ UNCHANGED <<now, dirty, hourCand, work, minuteRows, dayRows, minuteMark, accepted>>
    BY <1>14 DEF PruneHours
  <2>2. ASSUME NEW h \in Hours
        PROVE  \/ hourRows'[h] = hourRows[h]
               \/ /\ hourRows[h].status = "final" /\ hourRows'[h].status = "pruned"
                  /\ hourRows'[h].parts = hourRows[h].parts
                  /\ HourEnd(h) <= now - HourRetention
                  /\ Sealed(dayRows[DayOf(h)])
    BY <1>0, <1>14 DEF PruneHours, Prunable, Sealed, TypeOK, RollupRow
  <2>3. \A h \in Hours : HourEnd(h) <= now - HourRetention
                           => HourEnd(h) <= now - MinuteRetention
    BY <1>0, Times, Calendar DEF IInv, SettingsOrdered
  <2>4. ASSUME NEW h \in Hours, Sealed(hourRows'[h]) PROVE SealedHour(h)'
    <3>1. SealedHour(h)
      BY <1>0, <2>2, <2>4 DEF HourTier, Sealed
    <3>2. hourRows'[h].status = "pruned"
            => HourSources(h)' = {} /\ Sealed(dayRows'[DayOf(h)])
      BY <1>0, <2>1, <2>2, <2>3, <3>1
      DEF HourTier, SealedHour, HourSources, MinutesOf
    <3> QED BY <2>1, <2>2, <3>1, <3>2 DEF SealedHour
  <2>5. \A h \in Hours : Sealed(hourRows[h]) => Sealed(hourRows'[h])
    BY <2>2 DEF Sealed
  <2> QED BY <1>0, <2>1, <2>4, <2>5, Calendar DEF HourTier
<1>15. CASE PruneDays
  <2>1. /\ pc' = "idle"
        /\ UNCHANGED <<now, dirty, hourCand, minuteRows, hourRows, minuteMark, accepted>>
    BY <1>15 DEF PruneDays
  <2>2. \A d \in DayNumbers : Sealed(dayRows[d]) => Sealed(dayRows'[d])
    BY <1>0, <1>15 DEF PruneDays, Sealed, TypeOK, RollupRow
  <2> QED BY <1>0, <2>1, <2>2, Calendar DEF HourTier, SealedHour, HourSources, MinutesOf
<1>16. CASE TransactionFails \/ CompactionThrows
  <2>1. Fail
    BY <1>16 DEF TransactionFails, CompactionThrows
  <2> QED BY <1>0, <2>1 DEF Fail, HourTier, SealedHour, HourSources, MinutesOf
<1>17. CASE Crash \/ Exit
  <2>1. Dies
    BY <1>17 DEF Crash, Exit
  <2>2. ASSUME NEW h \in Hours, Sealed(hourRows[h]), NEW m \in MinutesOf(h)
        PROVE  saved[m] = accepted[m]
    BY <1>0, <2>2 DEF HourTier, SealedHour, MinutesOf, Ledger, Written
  <2>3. \A h \in Hours : ~Waiting(hourCand'[h])
    BY <2>1 DEF Dies, Waiting
  <2> QED BY <1>0, <2>1, <2>2, <2>3 DEF Dies, HourTier, SealedHour, HourSources, MinutesOf
<1>18. CASE Restart
  <2>1. \A h \in Hours : Sealed(hourRows[h]) => ~Waiting(hourCand'[h])
    BY <1>0, <1>18 DEF Restart, Uncompacted, Waiting, HourTier, SealedHour, Sealed
  <2>2. pc = "idle"
    BY <1>0, <1>18 DEF Restart, Stages
  <2> QED BY <1>0, <1>18, <2>1, <2>2
          DEF Restart, HourTier, SealedHour, HourSources, MinutesOf
<1>19. CASE CompactionTimer \/ UNCHANGED vars
  BY <1>0, <1>19 DEF CompactionTimer, vars, HourTier, SealedHour, HourSources, MinutesOf
<1> QED
  BY <1>1, <1>2, <1>3, <1>4, <1>5, <1>6, <1>7, <1>8, <1>9, <1>10, <1>11,
     <1>12, <1>13, <1>14, <1>15, <1>16, <1>17, <1>18, <1>19 DEF Next, FlushStep

(* An hour without a row is always on its way to be compacted.             *)
LEMMA HourQueueStep == IInv /\ [Next]_vars => HourQueue'
<1> SUFFICES ASSUME IInv, [Next]_vars PROVE HourQueue'
  OBVIOUS
<1> USE DEF memory, disk, ghosts, counters
<1>0. TypeOK /\ Stages /\ HourTier /\ HourQueue
  BY DEF IInv
<1>1. CASE Tick \/ FlushBegin \/ SavesDone \/ Close \/ CompactionTimer
  BY <1>0, <1>1 DEF Tick, FlushBegin, SavesDone, Close, CompactionTimer, HourQueue,
                    Unscheduled, HourSources, MinutesOf, Stages
<1>2. ASSUME NEW t \in 0 .. MaxNow + MaxClockSkew, NEW b \in Bounds, Ingest(t, b)
      PROVE  HourQueue'
  BY <1>0, <1>2 DEF Ingest, HourQueue, Unscheduled, HourSources, MinutesOf
<1>3. CASE SaveChunk
  <2>1. NextChunk \subseteq dirty /\ pc = "save"
    BY <1>0, <1>3 DEF SaveChunk, NextChunk, Stages
  <2>2. \A m \in Minutes : m \notin NextChunk => minuteRows'[m] = minuteRows[m]
    BY <1>3 DEF SaveChunk
  <2>3. UNCHANGED <<mode, dirty, hourCand, pc, hourRows>>
    BY <1>3 DEF SaveChunk
  <2>4. \A h \in Hours : HourSources(h)' \subseteq HourSources(h) \cup dirty
    BY <2>1, <2>2 DEF HourSources, MinutesOf
  <2> QED BY <1>0, <2>1, <2>3, <2>4 DEF HourQueue, Unscheduled
<1>4. ASSUME NEW m \in Minutes, ScheduleHour(m) PROVE HourQueue'
  <2> DEFINE c == Scheduled(hourCand[HourOf(m)], MinuteEnd(m) + ClockSkewAllowance)
  <2>1. /\ pc = "schedule" /\ pc' = "schedule" /\ work' = work \ {m}
        /\ hourCand'[HourOf(m)] = c
        /\ \A h \in Hours : h # HourOf(m) => hourCand'[h] = hourCand[h]
        /\ UNCHANGED <<mode, minuteRows, hourRows>>
    BY <1>0, <1>4, Calendar DEF ScheduleHour, TypeOK
  <2>2. Waiting(c)
    BY <1>0, EndsAreNat, Calendar, SettingsAreIntegers
    DEF Scheduled, Waiting, LaterOf, TypeOK, Candidate, NoCandidate, Never
  <2>3. hourRows[HourOf(m)].status = "absent" =>
          c.compactedAt = Never /\ c.dueAt <= HourEnd(HourOf(m)) + ClockSkewAllowance
    BY <1>0, Calendar, Times DEF HourQueue, Scheduled, LaterOf, TypeOK, Candidate
  <2>4. \A h \in Hours : h # HourOf(m) => m \notin HourSources(h)
    BY DEF HourSources, MinutesOf
  <2> HIDE DEF c
  <2> QED BY <1>0, <2>1, <2>2, <2>3, <2>4
          DEF HourQueue, Unscheduled, HourSources, MinutesOf
<1>5. CASE Acknowledge
  BY <1>0, <1>5 DEF Acknowledge, HourQueue, Unscheduled, HourSources, MinutesOf
<1>6. CASE FinalizeMinutes
  <2>1. /\ pc' = "hours" /\ pc = "finalize" /\ dirty = {} /\ mode # "down"
        /\ work' = {h \in Hours : Due(hourCand[h])}
        /\ UNCHANGED <<mode, now, dirty, hourCand, hourRows>>
    BY <1>0, <1>6 DEF FinalizeMinutes, Stages
  <2>2. ASSUME NEW m \in Minutes
        PROVE  /\ Present(minuteRows'[m]) <=> Present(minuteRows[m])
               /\ minuteRows'[m].status = "open" => ~ClosedMinute(m)
    BY <1>0, <1>6 DEF FinalizeMinutes, TypeOK, MinuteRow, Present
  <2>3. \A h \in Hours : HourSources(h)' = HourSources(h)
    BY <2>2 DEF HourSources, MinutesOf
  <2>4. ASSUME NEW h \in Hours, Late(h), HourSources(h) # {}
        PROVE  Due(hourCand[h])
    <3>1. Waiting(hourCand[h]) /\ hourCand[h].dueAt <= HourEnd(h) + ClockSkewAllowance
      BY <1>0, <2>1, <2>4 DEF HourQueue, Unscheduled, Late
    <3>2. hourCand[h].dueAt \in Int
      BY <1>0 DEF TypeOK, Candidate, Never
    <3>3. HourEnd(h) + ClockSkewAllowance <= HourFinalizesAt(h)
      BY <1>0, Times, Calendar DEF IInv, SettingsOrdered, HourFinalizesAt
    <3> QED BY <1>0, <2>4, <3>1, <3>2, <3>3, Times, Calendar, EndsAreNat DEF Late, Due
  <2>5. \A m \in Minutes : minuteRows'[m].status = "open" => ~ClosedMinute(m)'
    BY <2>1, <2>2 DEF ClosedMinute
  <2>6. \A h \in Hours : Late(h)' <=> Late(h)
    BY <2>1 DEF Late
  <2> QED BY <1>0, <2>1, <2>3, <2>4, <2>5, <2>6 DEF HourQueue, Unscheduled
<1>8. ASSUME NEW h \in Hours, DeferHour(h) PROVE HourQueue'
  <2>1. /\ pc = "hours" /\ pc' = pc /\ work' = work \ {h}
        /\ UNCHANGED <<mode, now, dirty, minuteRows, hourRows>>
    BY <1>8 DEF DeferHour
  <2>2. PICK c \in DeferredHour(h) : hourCand' = [hourCand EXCEPT ![h] = c]
    BY <1>8 DEF DeferHour
  <2>3. hourCand'[h] = c /\ \A k \in Hours : k # h => hourCand'[k] = hourCand[k]
    BY <1>0, <2>2 DEF TypeOK
  <2>4. CASE HourSources(h) = {}
    <3>1. ~Waiting(hourCand'[h])
      BY <2>2, <2>3, <2>4 DEF DeferredHour, Waiting
    <3> QED BY <1>0, <2>1, <2>3, <2>4, <3>1
            DEF HourQueue, Unscheduled, HourSources, MinutesOf, Late, ClosedMinute
  <2>5. CASE HourSources(h) # {}
    <3>1. PICK last \in LastOpenMinute(h) :
            c = [dueAt |-> MinuteEnd(last) + ClockSkewAllowance, compactedAt |-> Never]
      BY <2>2, <2>5 DEF DeferredHour
    <3>2. last \in Minutes /\ HourOf(last) = h /\ minuteRows[last].status = "open"
      BY DEF LastOpenMinute, OpenMinutes, HourSources, MinutesOf
    <3>3. Waiting(hourCand'[h])
      BY <2>3, <3>1, <3>2, EndsAreNat DEF Waiting, NoCandidate, Never
    <3>4. MinuteEnd(last) + ClockSkewAllowance <= HourEnd(h) + ClockSkewAllowance
      BY <1>0, <3>2, Calendar, Times
    <3>5. now < MinuteEnd(last) + ClockSkewAllowance
      BY <1>0, <2>1, <3>2, Calendar, Times DEF HourQueue, ClosedMinute
    <3>6. ~Late(h)
      BY <1>0, <3>2, <3>4, <3>5, Calendar, Times
      DEF Late, IInv, SettingsOrdered, HourFinalizesAt
    <3>7. /\ hourCand'[h].compactedAt = Never
          /\ hourCand'[h].dueAt <= HourEnd(h) + ClockSkewAllowance
      BY <2>3, <3>1, <3>4
    <3> QED BY <1>0, <2>1, <2>3, <3>3, <3>6, <3>7
            DEF HourQueue, Unscheduled, HourSources, MinutesOf, Late, ClosedMinute
  <2> QED BY <2>4, <2>5
<1>9. ASSUME NEW h \in Hours, CompactHour(h) PROVE HourQueue'
  <2>1. /\ pc = "hours" /\ pc' = pc /\ work' = work \ {h}
        /\ UNCHANGED <<mode, now, dirty, minuteRows>>
    BY <1>9 DEF CompactHour
  <2>2. /\ hourRows'[h].status # "absent"
        /\ \A k \in Hours : k # h =>
             hourCand'[k] = hourCand[k] /\ hourRows'[k] = hourRows[k]
    BY <1>0, <1>9 DEF CompactHour, TypeOK, HourRollup
  <2> QED BY <1>0, <2>1, <2>2
          DEF HourQueue, Unscheduled, HourSources, MinutesOf, Late, ClosedMinute
<1>10. CASE HoursDone
  BY <1>0, <1>10 DEF HoursDone, HourQueue, Unscheduled, HourSources, MinutesOf, Late
<1>11. ASSUME NEW d \in DayNumbers, DeferDay(d) \/ CompactDay(d)
       PROVE  HourQueue'
  BY <1>0, <1>11 DEF DeferDay, CompactDay, HourQueue, Unscheduled,
                     HourSources, MinutesOf, Late
<1>12. CASE DaysDone \/ PruneDays
  BY <1>0, <1>12
  DEF DaysDone, PruneDays, HourQueue, Unscheduled, HourSources, MinutesOf
<1>13. CASE PruneMinutes
  <2>1. \A h \in Hours : HourSources(h)' \subseteq HourSources(h)
    BY <1>0, <1>13 DEF PruneMinutes, HourSources, MinutesOf, Present, TypeOK, MinuteRow
  <2> QED BY <1>0, <1>13, <2>1 DEF PruneMinutes, HourQueue, Unscheduled
<1>14. CASE PruneHours
  <2>1. \A h \in Hours : hourRows'[h].status = "absent" => hourRows[h].status = "absent"
    BY <1>0, <1>14 DEF PruneHours, TypeOK, RollupRow
  <2> QED BY <1>0, <1>14, <2>1
          DEF PruneHours, HourQueue, Unscheduled, HourSources, MinutesOf
<1>15. CASE TransactionFails \/ CompactionThrows
  <2>1. Fail
    BY <1>15 DEF TransactionFails, CompactionThrows
  <2> QED BY <1>0, <2>1 DEF Fail, HourQueue, Unscheduled, HourSources, MinutesOf, Stages
<1>16. CASE Crash \/ Exit
  <2>1. Dies
    BY <1>16 DEF Crash, Exit
  <2> QED BY <1>0, <2>1 DEF Dies, HourQueue, Waiting
<1>17. CASE Restart
  <2>1. ASSUME NEW h \in Hours, hourRows[h].status = "absent"
        PROVE  /\ Waiting(hourCand'[h]) => /\ hourCand'[h].compactedAt = Never
                                           /\ hourCand'[h].dueAt = 0
               /\ ~Waiting(hourCand'[h]) => HourSources(h) = {}
    BY <1>0, <1>17, <2>1 DEF Restart, Uncompacted, Waiting, NoCandidate, Never
  <2>2. \A h \in Hours : 0 <= HourEnd(h) + ClockSkewAllowance
    BY <1>0, Calendar, Times
  <2>3. pc' = "idle" /\ UNCHANGED <<minuteRows, hourRows>>
    BY <1>0, <1>17 DEF Restart, Stages
  <2> QED BY <2>1, <2>2, <2>3 DEF HourQueue, HourSources, MinutesOf
<1>18. CASE UNCHANGED vars
  BY <1>0, <1>18 DEF vars, HourQueue, Unscheduled, HourSources, MinutesOf, Late,
                     ClosedMinute
<1> QED
  BY <1>1, <1>2, <1>3, <1>4, <1>5, <1>6, <1>8, <1>9, <1>10, <1>11, <1>12,
     <1>13, <1>14, <1>15, <1>16, <1>17, <1>18 DEF Next, FlushStep

(* What compaction adds up for a day it may still finalize is exact, and   *)
(* every hour of the day is sealed or empty.                               *)
LEMMA DayRollupIsExact ==
    ASSUME IInv, NEW d \in DayNumbers, pc = "days", d \in work, DayReady(d),
           now >= DayFinalizesAt(d)
    PROVE  /\ \A h \in HoursOf(d) : Sealed(hourRows[h]) \/ EmptyHour(h)
           /\ \A m \in Minutes :
                DayRollup(d).parts[m] =
                  IF DayOf(HourOf(m)) = d THEN accepted[m] ELSE 0
<1>0. TypeOK /\ Stages /\ Ledger /\ HourTier /\ HourQueue
  BY DEF IInv
<1>1. ASSUME NEW h \in HoursOf(d) PROVE Sealed(hourRows[h]) \/ EmptyHour(h)
  <2>1. h \in Hours /\ DayOf(h) = d
    BY DEF HoursOf
  <2>2. CASE hourRows[h].status = "absent"
    <3>1. HourSources(h) = {}
      BY <1>0, <2>1, <2>2, PastFinalization DEF HourQueue, Late
    <3>2. ASSUME NEW m \in MinutesOf(h) PROVE minuteRows[m].status = "absent"
      BY <1>0, <2>1, <2>2, <3>1
      DEF HourTier, HourSources, MinutesOf, Present, Sealed, TypeOK, MinuteRow, Status
    <3> QED BY <1>0, <2>2, <3>2 DEF EmptyHour, Stages
  <2>3. CASE hourRows[h].status # "absent"
    <3>1. hourRows[h].status # "open"
      BY <2>1 DEF DayReady, OpenHours, DaySources, Present
    <3> QED BY <1>0, <2>1, <2>3, <3>1 DEF Sealed, TypeOK, RollupRow, Status
  <2> QED BY <2>2, <2>3
<1>2. ~Sealed(dayRows[d])
  BY DEF IInv, DayTier, SealedDay
<1>3. ASSUME NEW m \in Minutes
      PROVE  DayRollup(d).parts[m] = IF DayOf(HourOf(m)) = d THEN accepted[m] ELSE 0
  <2>1. HourOf(m) \in Hours /\ saved[m] = accepted[m]
    BY <1>0, CompactionSeesAll, Calendar
  <2>2. DayRollup(d).parts[m] = IF HourOf(m) \in DaySources(d)
                                THEN hourRows[HourOf(m)].parts[m] ELSE 0
    BY DEF DayRollup
  <2>3. CASE DayOf(HourOf(m)) # d
    BY <2>2, <2>3 DEF DaySources, HoursOf
  <2>4. CASE DayOf(HourOf(m)) = d /\ Sealed(hourRows[HourOf(m)])
    <3>1. Present(hourRows[HourOf(m)])
      BY <1>0, <1>2, <2>1, <2>4 DEF HourTier, SealedHour, Sealed, Present
    <3>2. hourRows[HourOf(m)].parts[m] = accepted[m]
      BY <1>0, <2>1, <2>4 DEF HourTier, SealedHour
    <3> QED BY <2>1, <2>2, <2>4, <3>1, <3>2 DEF DaySources, HoursOf
  <2>5. CASE DayOf(HourOf(m)) = d /\ EmptyHour(HourOf(m))
    <3>1. accepted[m] = 0
      BY <1>0, <2>1, <2>5 DEF EmptyHour, MinutesOf, Ledger
    <3> QED BY <2>2, <2>5, <3>1 DEF EmptyHour, DaySources, Present
  <2> QED BY <1>1, <2>1, <2>3, <2>4, <2>5 DEF HoursOf
<1> QED BY <1>1, <1>3

(* No minute of a sealed day is dirty, and none of its hours is ready.     *)
LEMMA SealedDayIsQuiet ==
    ASSUME IInv
    PROVE  /\ \A m \in dirty : ~Sealed(dayRows[DayOf(HourOf(m))])
           /\ \A h \in Hours : pc = "hours" /\ h \in work /\ HourReady(h)
                                 => ~Sealed(dayRows[DayOf(h)])
<1>0. TypeOK /\ HourTier /\ DayTier
  BY DEF IInv
<1>1. ASSUME NEW m \in dirty, Sealed(dayRows[DayOf(HourOf(m))]) PROVE FALSE
  <2>1. m \in Minutes /\ HourOf(m) \in Hours /\ DayOf(HourOf(m)) \in DayNumbers
    BY <1>0, Calendar DEF TypeOK
  <2>2. m \in MinutesOf(HourOf(m)) /\ HourOf(m) \in HoursOf(DayOf(HourOf(m)))
    BY <2>1 DEF MinutesOf, HoursOf
  <2> QED BY <1>0, <1>1, <2>1, <2>2
          DEF DayTier, SealedDay, EmptyHour, HourTier, SealedHour
<1>2. ASSUME NEW h \in Hours, pc = "hours", h \in work, HourReady(h),
             Sealed(dayRows[DayOf(h)])
      PROVE  FALSE
  <2>1. ~Sealed(hourRows[h])
    BY <1>0, <1>2 DEF HourTier, SealedHour
  <2>2. EmptyHour(h)
    BY <1>0, <1>2, <2>1, Calendar DEF DayTier, SealedDay, HoursOf
  <2> QED BY <1>2, <2>2 DEF EmptyHour, HourReady, HourSources, Present
<1> QED BY <1>1, <1>2

(* Sealed days stay exact and out of reach.                                *)
LEMMA DayTierStep == IInv /\ [Next]_vars => DayTier'
<1> SUFFICES ASSUME IInv, [Next]_vars PROVE DayTier'
  OBVIOUS
<1> USE DEF memory, disk, ghosts, counters
<1>0. TypeOK /\ Stages /\ Ledger /\ HourTier /\ DayTier
  BY DEF IInv
<1>1. CASE Tick
  BY <1>0, <1>1, Times, EndsAreNat, Calendar
  DEF Tick, DayTier, SealedDay, EmptyHour, DaySources, HoursOf
<1>2. ASSUME NEW t \in 0 .. MaxNow + MaxClockSkew, NEW b \in Bounds, Ingest(t, b)
      PROVE  DayTier'
  <2> DEFINE m == MinuteOf(t)
  <2>1. /\ m \in Minutes /\ pc = "idle" /\ AcceptableTime(t)
        /\ dirty' = dirty \cup {m}
        /\ accepted' = [accepted EXCEPT ![m] = @ + 1]
        /\ UNCHANGED <<now, dayCand, pc, work, disk>>
    BY <1>2 DEF Ingest
  <2>2. HourOf(m) \in Hours /\ DayOf(HourOf(m)) \in DayNumbers
    BY <2>1, Calendar
  <2>3. ~Sealed(dayRows[DayOf(HourOf(m))])
    BY <1>0, <2>1, <2>2, AcceptedIsRemembered, PastFinalization
    DEF DayTier, SealedDay
  <2>4. \A k \in Minutes : k # m => accepted'[k] = accepted[k]
    BY <1>0, <2>1 DEF TypeOK
  <2>5. ASSUME NEW d \in DayNumbers, Sealed(dayRows[d]), NEW h \in HoursOf(d)
        PROVE  Sealed(hourRows'[h]) \/ EmptyHour(h)'
    <3>1. m \notin MinutesOf(h)
      BY <2>3, <2>5 DEF HoursOf, MinutesOf
    <3> QED BY <1>0, <2>1, <2>5, <3>1 DEF DayTier, SealedDay, EmptyHour, MinutesOf
  <2> HIDE DEF m
  <2> QED BY <1>0, <2>1, <2>3, <2>4, <2>5
          DEF DayTier, SealedDay, DaySources, HoursOf
<1>3. CASE FlushBegin \/ SavesDone \/ Close \/ CompactionTimer
  BY <1>0, <1>3 DEF FlushBegin, SavesDone, Close, CompactionTimer, DayTier,
                    SealedDay, EmptyHour, MinutesOf, DaySources, HoursOf
<1>4. CASE SaveChunk
  <2>1. NextChunk \subseteq dirty /\ pc = "save"
    BY <1>0, <1>4 DEF SaveChunk, NextChunk, Stages
  <2>2. \A m \in Minutes : m \notin NextChunk => minuteRows'[m] = minuteRows[m]
    BY <1>4 DEF SaveChunk
  <2>3. UNCHANGED <<now, dirty, dayCand, pc, hourRows, dayRows, hourMark, accepted>>
    BY <1>4 DEF SaveChunk
  <2>4. \A h \in Hours : EmptyHour(h) => EmptyHour(h)'
    BY <2>1, <2>2, <2>3 DEF EmptyHour, MinutesOf
  <2> QED BY <1>0, <2>1, <2>3, <2>4 DEF DayTier, SealedDay, DaySources, HoursOf
<1>5. ASSUME NEW m \in Minutes, ScheduleHour(m) PROVE DayTier'
  BY <1>0, <1>5 DEF ScheduleHour, DayTier, SealedDay, EmptyHour, MinutesOf,
                    DaySources, HoursOf
<1>6. CASE Acknowledge \/ DaysDone
  BY <1>0, <1>6 DEF Acknowledge, DaysDone, DayTier, SealedDay, EmptyHour, MinutesOf,
                    DaySources, HoursOf
<1>7. CASE FinalizeMinutes
  <2>1. \A m \in Minutes :
          minuteRows[m].status = "absent" => minuteRows'[m].status = "absent"
    BY <1>7 DEF FinalizeMinutes
  <2> QED BY <1>0, <1>7, <2>1 DEF FinalizeMinutes, DayTier, SealedDay, EmptyHour,
                                  MinutesOf, DaySources, HoursOf
<1>8. ASSUME NEW h \in Hours, DeferHour(h) PROVE DayTier'
  BY <1>0, <1>8 DEF DeferHour, DayTier, SealedDay, EmptyHour, MinutesOf,
                    DaySources, HoursOf
<1>9. ASSUME NEW h \in Hours, CompactHour(h) PROVE DayTier'
  <2>1. /\ pc = "hours" /\ h \in work /\ HourReady(h)
        /\ UNCHANGED <<now, dirty, pc, minuteRows, dayRows, hourMark, accepted>>
    BY <1>9 DEF CompactHour
  <2>2. ~Sealed(dayRows[DayOf(h)])
    BY <2>1, SealedDayIsQuiet
  <2>3. /\ \A k \in Hours : k # h => hourRows'[k] = hourRows[k]
        /\ \A d \in DayNumbers : d # DayOf(h) => dayCand'[d] = dayCand[d]
    BY <1>0, <1>9 DEF CompactHour, TypeOK
  <2> QED BY <1>0, <2>1, <2>2, <2>3 DEF DayTier, SealedDay, EmptyHour, MinutesOf,
                                        DaySources, HoursOf
<1>10. CASE HoursDone
  BY <1>0, <1>10 DEF HoursDone, Due, DayTier, SealedDay, EmptyHour, MinutesOf,
                     DaySources, HoursOf
<1>11. ASSUME NEW d \in DayNumbers, DeferDay(d) PROVE DayTier'
  <2>1. /\ pc = "days" /\ d \in work /\ work' \subseteq work
        /\ UNCHANGED <<now, dirty, pc, disk, accepted>>
    BY <1>11 DEF DeferDay
  <2>2. \A k \in DayNumbers : k # d => dayCand'[k] = dayCand[k]
    BY <1>0, <1>11 DEF DeferDay, TypeOK
  <2>3. ~Sealed(dayRows[d])
    BY <1>0, <2>1 DEF DayTier, SealedDay
  <2> QED BY <1>0, <2>1, <2>2, <2>3 DEF DayTier, SealedDay, EmptyHour, MinutesOf,
                                        DaySources, HoursOf
<1>12. ASSUME NEW d \in DayNumbers, CompactDay(d) PROVE DayTier'
  <2>1. /\ pc = "days" /\ d \in work /\ work' = work \ {d} /\ DayReady(d)
        /\ hourMark' = LaterOf(hourMark, DayEnd(d))
        /\ UNCHANGED <<now, dirty, pc, minuteRows, hourRows, accepted>>
    BY <1>12 DEF CompactDay
  <2>2. /\ dayRows'[d] = DayRollup(d)
        /\ dayCand'[d] = Compacted(DayFinalizesAt(d))
        /\ \A k \in DayNumbers : k # d =>
             dayRows'[k] = dayRows[k] /\ dayCand'[k] = dayCand[k]
    BY <1>0, <1>12 DEF CompactDay, TypeOK
  <2>3. hourMark' >= DayEnd(d) /\ hourMark' >= hourMark
    BY <1>0, <2>1, Calendar DEF LaterOf, TypeOK, Never
  <2>4. Sealed(DayRollup(d)) => /\ now >= DayFinalizesAt(d)
                                /\ ~Waiting(Compacted(DayFinalizesAt(d)))
                                /\ DayRollup(d).status # "pruned"
    BY DEF DayRollup, Sealed, Compacted, Waiting
  <2>5. ASSUME NEW k \in DayNumbers, Sealed(dayRows'[k]) PROVE SealedDay(k)'
    <3>1. CASE k = d
      <4>1. /\ \A h \in HoursOf(d) : Sealed(hourRows[h]) \/ EmptyHour(h)
            /\ \A m \in Minutes :
                 DayRollup(d).parts[m] =
                   IF DayOf(HourOf(m)) = d THEN accepted[m] ELSE 0
        BY <2>1, <2>2, <2>4, <2>5, <3>1, DayRollupIsExact
      <4> QED BY <2>1, <2>2, <2>3, <2>4, <2>5, <3>1, <4>1
              DEF SealedDay, EmptyHour, MinutesOf, HoursOf
    <3>2. CASE k # d
      <4>1. SealedDay(k)
        BY <1>0, <2>2, <2>5, <3>2 DEF DayTier
      <4>2. hourMark' >= DayEnd(k)
        <5>1. hourMark \in Int /\ hourMark' \in Int /\ DayEnd(k) \in Int
          BY <1>0, <2>1, Calendar DEF TypeOK, LaterOf, Never
        <5> QED BY <2>3, <4>1, <5>1 DEF SealedDay
      <4> QED BY <2>1, <2>2, <3>2, <4>1, <4>2
              DEF SealedDay, EmptyHour, MinutesOf, DaySources, HoursOf
    <3> QED BY <3>1, <3>2
  <2> QED BY <2>1, <2>5 DEF DayTier
<1>13. CASE PruneMinutes
  <2>1. \A m \in Minutes :
          minuteRows[m].status = "absent" => minuteRows'[m].status = "absent"
    BY <1>13 DEF PruneMinutes
  <2> QED BY <1>0, <1>13, <2>1 DEF PruneMinutes, DayTier, SealedDay, EmptyHour,
                                   MinutesOf, DaySources, HoursOf
<1>14. CASE PruneHours
  <2>1. /\ pc = "pruneHours" /\ pc' = "pruneDays"
        /\ UNCHANGED <<now, dirty, dayCand, work, minuteRows, dayRows, hourMark, accepted>>
    BY <1>14 DEF PruneHours
  <2>2. ASSUME NEW h \in Hours
        PROVE  \/ hourRows'[h] = hourRows[h]
               \/ hourRows[h].status = "final" /\ hourRows'[h].status = "pruned"
    BY <1>0, <1>14 DEF PruneHours, TypeOK, RollupRow
  <2>3. \A h \in Hours : /\ Sealed(hourRows[h]) => Sealed(hourRows'[h])
                         /\ EmptyHour(h) => EmptyHour(h)'
                         /\ Present(hourRows'[h]) => Present(hourRows[h])
    BY <2>1, <2>2 DEF Sealed, Present, EmptyHour, MinutesOf
  <2>4. ASSUME NEW d \in DayNumbers, Sealed(dayRows[d]) PROVE SealedDay(d)'
    BY <1>0, <2>1, <2>3, <2>4 DEF DayTier, SealedDay, DaySources, HoursOf
  <2>5. ASSUME NEW d \in DayNumbers, dayRows[d].status = "final",
               DayEnd(d) <= now - HourRetention, NEW h \in HoursOf(d),
               Present(hourRows[h])
        PROVE  hourRows'[h].status = "pruned"
    <3>1. SealedDay(d) /\ h \in Hours /\ DayOf(h) = d
      BY <1>0, <2>5 DEF DayTier, Sealed, HoursOf
    <3>2. hourRows[h].status = "final"
      BY <2>5, <3>1 DEF SealedDay, EmptyHour, Present, Sealed
    <3>3. Prunable(HourEnd(h), HourRetention, hourMark)
      BY <1>0, <2>5, <3>1, Calendar, Times DEF SealedDay, Prunable, TypeOK, Never
    <3> QED BY <1>0, <1>14, <2>5, <3>1, <3>2, <3>3 DEF PruneHours, TypeOK, RollupRow
  <2>6. \A d \in DayNumbers : dayRows[d].status = "final"
                              /\ DayEnd(d) <= now - HourRetention => DaySources(d)' = {}
    BY <2>3, <2>5 DEF DaySources, HoursOf, Present
  <2> QED BY <2>1, <2>4, <2>6 DEF DayTier
<1>15. CASE PruneDays
  <2>1. /\ pc = "pruneDays" /\ pc' = "idle"
        /\ UNCHANGED <<now, dirty, dayCand, minuteRows, hourRows, hourMark, accepted>>
    BY <1>15 DEF PruneDays
  <2>2. ASSUME NEW d \in DayNumbers
        PROVE  \/ dayRows'[d] = dayRows[d]
               \/ /\ dayRows[d].status = "final" /\ dayRows'[d].status = "pruned"
                  /\ dayRows'[d].parts = dayRows[d].parts
                  /\ DayEnd(d) <= now - DayRetention
    BY <1>0, <1>15 DEF PruneDays, TypeOK, RollupRow
  <2>3. \A d \in DayNumbers : DayEnd(d) <= now - DayRetention
                                => DayEnd(d) <= now - HourRetention
    BY <1>0, Times, Calendar DEF IInv, SettingsOrdered
  <2>4. ASSUME NEW d \in DayNumbers, Sealed(dayRows'[d]) PROVE SealedDay(d)'
    <3>1. SealedDay(d)
      BY <1>0, <2>2, <2>4 DEF DayTier, Sealed
    <3>2. dayRows'[d].status = "pruned"
            => DaySources(d)' = {} /\ DayEnd(d) <= now - DayRetention
      BY <1>0, <2>1, <2>2, <2>3, <3>1
      DEF DayTier, SealedDay, DaySources, HoursOf
    <3> QED BY <2>1, <2>2, <3>1, <3>2 DEF SealedDay, EmptyHour, MinutesOf, HoursOf
  <2> QED BY <2>1, <2>4 DEF DayTier
<1>16. CASE TransactionFails \/ CompactionThrows
  <2>1. Fail
    BY <1>16 DEF TransactionFails, CompactionThrows
  <2> QED BY <1>0, <2>1 DEF Fail, DayTier, SealedDay, EmptyHour, MinutesOf,
                            DaySources, HoursOf
<1>17. CASE Crash \/ Exit
  <2>1. Dies
    BY <1>17 DEF Crash, Exit
  <2>2. ASSUME NEW d \in DayNumbers, Sealed(dayRows[d]), NEW m \in Minutes,
               DayOf(HourOf(m)) = d
        PROVE  saved[m] = accepted[m]
    BY <1>0, <2>2, SealedDayIsQuiet DEF Ledger, Written
  <2>3. \A d \in DayNumbers : ~Waiting(dayCand'[d])
    BY <2>1 DEF Dies, Waiting
  <2> QED BY <1>0, <2>1, <2>2, <2>3 DEF Dies, DayTier, SealedDay, EmptyHour,
                                        MinutesOf, DaySources, HoursOf
<1>18. CASE Restart
  <2>1. \A d \in DayNumbers : Sealed(dayRows[d]) => ~Waiting(dayCand'[d])
    BY <1>0, <1>18 DEF Restart, Uncompacted, Waiting, DayTier, SealedDay, Sealed
  <2>2. pc = "idle"
    BY <1>0, <1>18 DEF Restart, Stages
  <2> QED BY <1>0, <1>18, <2>1, <2>2 DEF Restart, DayTier, SealedDay, EmptyHour,
                                         MinutesOf, DaySources, HoursOf
<1>19. CASE UNCHANGED vars
  BY <1>0, <1>19 DEF vars, DayTier, SealedDay, EmptyHour, MinutesOf, DaySources,
                     HoursOf
<1> QED
  BY <1>1, <1>2, <1>3, <1>4, <1>5, <1>6, <1>7, <1>8, <1>9, <1>10, <1>11,
     <1>12, <1>13, <1>14, <1>15, <1>16, <1>17, <1>18, <1>19 DEF Next, FlushStep

(* Under ordered settings the whole invariant holds in every state.        *)
LEMMA Invariance == SettingsOrdered /\ Spec => []IInv
<1>1. IInv /\ [Next]_vars => IInv'
  BY StepType, StagesStep, LedgerStep, HourTierStep, HourQueueStep, DayTierStep
  DEF IInv, SettingsOrdered
<1> QED BY InitIInv, <1>1, PTL DEF Spec

-----------------------------------------------------------------------------
(* What the invariant means for the properties the runs check.             *)

(* Whatever the settings between them, as long as they are ordered: a      *)
(* finalized hour or day counts every accepted frame of its period once.   *)
(* _scanCompaction never finalizes too early and never merges twice.       *)
THEOREM ExactRollups == SettingsOrdered /\ Spec => []FinalRollupsAreExact
<1>1. IInv => FinalRollupsAreExact
  BY DEF IInv, HourTier, SealedHour, DayTier, SealedDay, FinalRollupsAreExact
<1> QED BY <1>1, Invariance, PTL

(* saveBuckets and compaction never meet a finalized bucket they would     *)
(* have to change: "finalized historical buckets are immutable" is dead    *)
(* code in the flush.                                                      *)
THEOREM NoConflict == SettingsOrdered /\ Spec => []NoImmutableConflict
<1>1. IInv => NoImmutableConflict
  <2> SUFFICES ASSUME IInv PROVE NoImmutableConflict
    OBVIOUS
  <2> USE DEF IInv, Sealed, Writable
  <2>1. ASSUME pc = "hours", NEW h \in work, HourConflict(h) PROVE FALSE
    <3>1. h \in Hours
      BY <2>1, Calendar DEF HourConflict, HourReady, HourSources, MinutesOf
    <3> QED BY <2>1, <3>1 DEF HourTier, SealedHour, HourConflict
  <2>2. ASSUME pc = "days", NEW d \in work, DayConflict(d) PROVE FALSE
    <3>1. d \in DayNumbers
      BY <2>2, Calendar DEF DayConflict, DayReady, DaySources, HoursOf
    <3> QED BY <2>2, <3>1 DEF DayTier, SealedDay, DayConflict
  <2> QED BY <2>1, <2>2 DEF NoImmutableConflict
<1> QED BY <1>1, Invariance, PTL

(* prunePersisted and seed keep in memory every frame of a minute that can *)
(* still grow.                                                             *)
THEOREM MemoryIsComplete == SettingsOrdered /\ Spec => []MemoryCoversOpenWindow
<1>1. IInv => MemoryCoversOpenWindow
  BY Times, Calendar DEF IInv, Ledger, Forgotten, MemoryCoversOpenWindow
<1> QED BY <1>1, Invariance, PTL

(* Retention removes no saved frame before the day retention has passed.   *)
THEOREM NothingSavedIsLost == SettingsOrdered /\ Spec => []SavedStaysReadable
<1>1. IInv => SavedStaysReadable
  <2> SUFFICES ASSUME IInv, NEW m \in Minutes, saved[m] > 0, ~Present(minuteRows[m])
               PROVE  \/ /\ hourRows[HourOf(m)].status = "final"
                         /\ hourRows[HourOf(m)].parts[m] = saved[m]
                      \/ /\ dayRows[DayOf(HourOf(m))].status = "final"
                         /\ dayRows[DayOf(HourOf(m))].parts[m] = saved[m]
                      \/ DayEnd(DayOf(HourOf(m))) <= now - DayRetention
    BY DEF SavedStaysReadable, IInv, Ledger
  <2> DEFINE h == HourOf(m)
             d == DayOf(h)
  <2>0. h \in Hours /\ d \in DayNumbers
    BY Calendar
  <2>1. minuteRows[m].status = "pruned"
    BY DEF IInv, Ledger, TypeOK, MinuteRow, Status, Present
  <2>2. Sealed(hourRows[h]) /\ SealedHour(h)
    BY <2>0, <2>1 DEF IInv, HourTier
  <2>3. saved[m] = accepted[m]
    BY <2>2 DEF IInv, SealedHour, MinutesOf, Ledger, Written
  <2>4. CASE hourRows[h].status = "final"
    BY <2>2, <2>3, <2>4 DEF SealedHour
  <2>5. CASE hourRows[h].status = "pruned"
    <3>1. Sealed(dayRows[d]) /\ SealedDay(d)
      BY <2>0, <2>2, <2>5 DEF IInv, SealedHour, DayTier
    <3> QED BY <2>3, <3>1 DEF SealedDay, Sealed
  <2> QED BY <2>2, <2>4, <2>5 DEF Sealed
<1> QED BY <1>1, Invariance, PTL

(* A graceful stop that reports success leaves nothing in memory only.     *)
THEOREM CleanStop == SettingsOrdered /\ Spec => []CleanStopSavesAll
<1>1. IInv => CleanStopSavesAll
  <2> SUFFICES ASSUME IInv, mode = "exiting", healthy PROVE accepted = saved
    BY DEF CleanStopSavesAll
  <2>1. \A m \in Minutes : saved[m] = accepted[m]
    BY DEF IInv, Stages, Ledger, Written
  <2> QED BY <2>1 DEF IInv, TypeOK
<1> QED BY <1>1, Invariance, PTL

-----------------------------------------------------------------------------
(* Nothing waits for a flush or a compaction that nobody will run.         *)

(* The property, at every point of a flush: dirty minutes have a mark or a *)
(* flush that is saving them, and a row that is not rolled up for good has *)
(* a candidate or a flush that is about to schedule one.                   *)
Marked == mode = "up" /\ dirty # {} => marked \/ pc \in {"save", "schedule"}
HoursWait ==
    \A h \in Hours :
        HourSources(h) \ Unscheduled # {} /\ hourRows[h].status # "final"
            => Waiting(hourCand[h])
DaysWait ==
    \A d \in DayNumbers :
        DaySources(d) # {} /\ dayRows[d].status # "final" => Waiting(dayCand[d])
Tasks == Marked /\ (mode # "down" => HoursWait /\ DaysWait)

(* The coordinator's marks survive failed flushes and restarts.            *)
LEMMA MarkedStep == IInv /\ Marked /\ [Next]_vars => Marked'
<1> SUFFICES ASSUME IInv, Marked, [Next]_vars PROVE Marked'
  OBVIOUS
<1> USE DEF Marked, memory, disk, ghosts, counters
<1>0. TypeOK /\ Stages
  BY DEF IInv
<1>1. CASE Tick \/ CompactionTimer \/ FlushBegin \/ SavesDone \/ SaveChunk
  BY <1>1 DEF Tick, CompactionTimer, FlushBegin, SavesDone, SaveChunk
<1>2. ASSUME NEW t \in 0 .. MaxNow + MaxClockSkew, NEW b \in Bounds, Ingest(t, b)
      PROVE  Marked'
  BY <1>2 DEF Ingest
<1>3. ASSUME NEW m \in Minutes, ScheduleHour(m) PROVE Marked'
  BY <1>3 DEF ScheduleHour
<1>4. CASE Acknowledge \/ FinalizeMinutes \/ HoursDone \/ DaysDone
  BY <1>0, <1>4 DEF Acknowledge, FinalizeMinutes, HoursDone, DaysDone, Stages
<1>5. ASSUME NEW h \in Hours, DeferHour(h) \/ CompactHour(h) PROVE Marked'
  BY <1>5 DEF DeferHour, CompactHour
<1>6. ASSUME NEW d \in DayNumbers, DeferDay(d) \/ CompactDay(d) PROVE Marked'
  BY <1>6 DEF DeferDay, CompactDay
<1>7. CASE PruneMinutes \/ PruneHours \/ PruneDays
  BY <1>0, <1>7 DEF PruneMinutes, PruneHours, PruneDays, Stages
<1>8. CASE TransactionFails \/ CompactionThrows
  BY <1>8 DEF TransactionFails, CompactionThrows, Fail
<1>9. CASE Crash \/ Exit \/ Close \/ Restart
  BY <1>9 DEF Crash, Exit, Close, Restart, Dies
<1>10. CASE UNCHANGED vars
  BY <1>10 DEF vars
<1> QED
  BY <1>1, <1>2, <1>3, <1>4, <1>5, <1>6, <1>7, <1>8, <1>9, <1>10
  DEF Next, FlushStep

(* A candidate that was scheduled or deferred waits, and so does one whose *)
(* destination was compacted before it finalizes.                          *)
LEMMA ScheduledWaits ==
    ASSUME NEW n \in Nat, NEW c \in Candidate, now \in Nat
    PROVE  /\ Waiting(Scheduled(c, n))
           /\ Waiting([dueAt |-> n, compactedAt |-> Never])
           /\ now < n => Waiting(Compacted(n))
BY SettingsAreIntegers
   DEF Scheduled, Waiting, LaterOf, Candidate, NoCandidate, Never, Compacted

(* Every hour with sources that are not rolled up for good has a candidate *)
(* or will be scheduled by the flush that is under way.                    *)
LEMMA HoursWaitStep ==
    ASSUME IInv, IInv', mode # "down" => HoursWait, [Next]_vars, mode' # "down"
    PROVE  HoursWait'
<1> USE DEF memory, disk, ghosts, counters
<1>0. TypeOK /\ Stages /\ HourTier /\ now \in Nat
  BY Times DEF IInv
<1>a. ASSUME mode # "down", UNCHANGED <<hourRows, hourCand>>,
             \A h \in Hours :
                (HourSources(h) \ Unscheduled)' \subseteq HourSources(h) \ Unscheduled
      PROVE  HoursWait'
  BY <1>a DEF HoursWait
<1>1. CASE Tick \/ CompactionTimer \/ FlushBegin \/ SavesDone \/ Close \/ Acknowledge
  BY <1>0, <1>1, <1>a DEF Tick, CompactionTimer, FlushBegin, SavesDone, Close, Acknowledge,
                    HourSources, MinutesOf, Unscheduled, Stages
<1>2. ASSUME NEW t \in 0 .. MaxNow + MaxClockSkew, NEW b \in Bounds, Ingest(t, b)
      PROVE  HoursWait'
  BY <1>2, <1>a DEF Ingest, HourSources, MinutesOf, Unscheduled
<1>3. CASE SaveChunk
  <2>1. NextChunk \subseteq dirty /\ pc = "save" /\ mode # "down"
    BY <1>0, <1>3 DEF SaveChunk, NextChunk, Stages
  <2>2. \A m \in Minutes : m \notin NextChunk => minuteRows'[m] = minuteRows[m]
    BY <1>3 DEF SaveChunk
  <2>3. UNCHANGED <<mode, dirty, hourCand, pc, hourRows>>
    BY <1>3 DEF SaveChunk
  <2>4. \A h \in Hours : HourSources(h)' \subseteq HourSources(h) \cup dirty
    BY <2>1, <2>2 DEF HourSources, MinutesOf
  <2> QED BY <2>1, <2>3, <2>4, <1>a DEF Unscheduled
<1>4. ASSUME NEW m \in Minutes, ScheduleHour(m) PROVE HoursWait'
  <2> DEFINE c == Scheduled(hourCand[HourOf(m)], MinuteEnd(m) + ClockSkewAllowance)
  <2>1. /\ pc = "schedule" /\ pc' = "schedule" /\ work' = work \ {m}
        /\ hourCand'[HourOf(m)] = c
        /\ \A h \in Hours : h # HourOf(m) => hourCand'[h] = hourCand[h]
        /\ UNCHANGED <<mode, minuteRows, hourRows>>
    BY <1>0, <1>4, Calendar DEF ScheduleHour, TypeOK
  <2>2. Waiting(c)
    BY <1>0, EndsAreNat, Calendar, ScheduledWaits DEF TypeOK
  <2>3. \A h \in Hours : h # HourOf(m) => m \notin HourSources(h)
    BY DEF HourSources, MinutesOf
  <2>4. mode # "down"
    BY <1>0, <2>1 DEF Stages
  <2> HIDE DEF c
  <2> QED BY <2>1, <2>2, <2>3, <2>4 DEF HoursWait, Unscheduled, HourSources, MinutesOf
<1>6. CASE FinalizeMinutes
  <2>1. \A m \in Minutes : Present(minuteRows'[m]) <=> Present(minuteRows[m])
    BY <1>0, <1>6 DEF FinalizeMinutes, TypeOK, MinuteRow, Present
  <2>2. \A h \in Hours : HourSources(h)' = HourSources(h)
    BY <2>1 DEF HourSources, MinutesOf
  <2> QED BY <1>0, <1>6, <2>2, <1>a DEF FinalizeMinutes, Unscheduled, Stages
<1>8. ASSUME NEW h \in Hours, DeferHour(h) PROVE HoursWait'
  <2>1. /\ pc = "hours" /\ pc' = pc /\ mode # "down"
        /\ UNCHANGED <<mode, dirty, minuteRows, hourRows>>
    BY <1>0, <1>8 DEF DeferHour, Stages
  <2>2. PICK c \in DeferredHour(h) : hourCand' = [hourCand EXCEPT ![h] = c]
    BY <1>8 DEF DeferHour
  <2>3. hourCand'[h] = c /\ \A k \in Hours : k # h => hourCand'[k] = hourCand[k]
    BY <1>0, <2>2 DEF TypeOK
  <2>4. HourSources(h) # {} => Waiting(c)
    <3> SUFFICES ASSUME HourSources(h) # {} PROVE Waiting(c)
      OBVIOUS
    <3>1. PICK last \in LastOpenMinute(h) :
            c = [dueAt |-> MinuteEnd(last) + ClockSkewAllowance, compactedAt |-> Never]
      BY <2>2 DEF DeferredHour
    <3>2. last \in Minutes
      BY DEF LastOpenMinute, OpenMinutes, HourSources, MinutesOf
    <3> QED BY <3>1, <3>2, EndsAreNat DEF Waiting, NoCandidate, Never
  <2> QED BY <2>1, <2>3, <2>4 DEF HoursWait, Unscheduled, HourSources, MinutesOf
<1>9. ASSUME NEW h \in Hours, CompactHour(h) PROVE HoursWait'
  <2>1. /\ pc = "hours" /\ pc' = pc /\ mode # "down"
        /\ UNCHANGED <<mode, dirty, minuteRows>>
    BY <1>0, <1>9 DEF CompactHour, Stages
  <2>2. /\ hourRows'[h] = HourRollup(h) /\ hourCand'[h] = Compacted(HourFinalizesAt(h))
        /\ \A k \in Hours : k # h =>
             hourCand'[k] = hourCand[k] /\ hourRows'[k] = hourRows[k]
    BY <1>0, <1>9 DEF CompactHour, TypeOK
  <2>3. hourRows'[h].status # "final" => Waiting(hourCand'[h])
    <3>1. HourFinalizesAt(h) \in Nat
      BY EndsAreNat
    <3>2. hourRows'[h].status # "final" => now < HourFinalizesAt(h)
      BY <2>2, <3>1, <1>0 DEF HourRollup
    <3> QED BY <2>2, <3>1, <3>2, <1>0
            DEF Compacted, Waiting, NoCandidate, Never
  <2> QED BY <2>1, <2>2, <2>3 DEF HoursWait, Unscheduled, HourSources, MinutesOf
<1>10. CASE HoursDone \/ DaysDone \/ PruneDays
  BY <1>0, <1>10, <1>a DEF HoursDone, DaysDone, PruneDays, HourSources, MinutesOf, Unscheduled, Stages
<1>11. ASSUME NEW d \in DayNumbers, DeferDay(d) \/ CompactDay(d)
       PROVE  HoursWait'
  BY <1>0, <1>11, <1>a DEF DeferDay, CompactDay, HourSources, MinutesOf, Unscheduled, Stages
<1>13. CASE PruneMinutes
  <2>1. \A h \in Hours : HourSources(h)' \subseteq HourSources(h)
    BY <1>0, <1>13 DEF PruneMinutes, HourSources, MinutesOf, Present, TypeOK, MinuteRow
  <2> QED BY <1>0, <1>13, <2>1, <1>a DEF PruneMinutes, Unscheduled, Stages
<1>14. CASE PruneHours
  <2>1. /\ mode # "down" /\ UNCHANGED <<mode, hourCand, minuteRows, dirty>>
        /\ pc = "pruneHours" /\ pc' = "pruneDays"
    BY <1>0, <1>14 DEF PruneHours, Stages
  <2>2. \A h \in Hours : \/ hourRows'[h] = hourRows[h]
                         \/ hourRows'[h].status = "pruned"
    BY <1>0, <1>14 DEF PruneHours, TypeOK, RollupRow
  <2>3. \A h \in Hours : hourRows'[h].status = "pruned" => HourSources(h)' = {}
    BY DEF IInv, HourTier, SealedHour, Sealed
  <2> QED BY <2>1, <2>2, <2>3 DEF HoursWait, HourSources, MinutesOf, Unscheduled
<1>15. CASE TransactionFails \/ CompactionThrows
  <2>1. Fail /\ mode # "down"
    BY <1>0, <1>15 DEF TransactionFails, CompactionThrows, Stages
  <2> QED BY <1>0, <2>1, <1>a DEF Fail, HourSources, MinutesOf, Unscheduled, Stages
<1>16. CASE Crash \/ Exit
  BY <1>16 DEF Crash, Exit, Dies
<1>17. CASE Restart
  BY <1>17 DEF Restart, HoursWait, Uncompacted, Waiting, NoCandidate, Never,
               HourSources, MinutesOf
<1>18. CASE UNCHANGED vars
  BY <1>18, <1>a DEF vars, HourSources, MinutesOf, Unscheduled
<1> QED
  BY <1>1, <1>2, <1>3, <1>4, <1>6, <1>8, <1>9, <1>10, <1>11, <1>13, <1>14, <1>15,
     <1>16, <1>17, <1>18 DEF Next, FlushStep

(* Every day with hours that are not rolled up for good has a candidate.   *)
LEMMA DaysWaitStep ==
    ASSUME IInv, IInv', mode # "down" => DaysWait, [Next]_vars, mode' # "down"
    PROVE  DaysWait'
<1> USE DEF memory, disk, ghosts, counters
<1>0. TypeOK /\ Stages /\ now \in Nat
  BY Times DEF IInv
<1>a. ASSUME mode # "down", UNCHANGED <<hourRows, dayRows, dayCand>>
      PROVE  DaysWait'
  BY <1>a DEF DaysWait, DaySources, HoursOf
<1>1. CASE Tick \/ CompactionTimer \/ FlushBegin \/ SaveChunk \/ SavesDone \/ Close
           \/ Acknowledge \/ FinalizeMinutes \/ HoursDone \/ DaysDone \/ PruneMinutes
  BY <1>0, <1>1, <1>a
  DEF Tick, CompactionTimer, FlushBegin, SaveChunk, SavesDone, Close, Acknowledge,
      FinalizeMinutes, HoursDone, DaysDone, PruneMinutes, Stages
<1>2. ASSUME NEW t \in 0 .. MaxNow + MaxClockSkew, NEW b \in Bounds, Ingest(t, b)
      PROVE  DaysWait'
  BY <1>2, <1>a DEF Ingest
<1>3. ASSUME NEW m \in Minutes, ScheduleHour(m) PROVE DaysWait'
  BY <1>0, <1>3, <1>a DEF ScheduleHour, Stages
<1>4. ASSUME NEW h \in Hours, DeferHour(h) PROVE DaysWait'
  BY <1>0, <1>4, <1>a DEF DeferHour, Stages
<1>5. ASSUME NEW h \in Hours, CompactHour(h) PROVE DaysWait'
  <2>1. mode # "down" /\ UNCHANGED dayRows
    BY <1>0, <1>5 DEF CompactHour, Stages
  <2>2. /\ \A k \in Hours : k # h => hourRows'[k] = hourRows[k]
        /\ dayCand'[DayOf(h)] = Scheduled(dayCand[DayOf(h)], HourEnd(h) + MaxAcceptedPast)
        /\ \A d \in DayNumbers : d # DayOf(h) => dayCand'[d] = dayCand[d]
    BY <1>0, <1>5, Calendar DEF CompactHour, TypeOK
  <2>3. Waiting(dayCand'[DayOf(h)])
    BY <1>0, <2>2, EndsAreNat, Calendar, ScheduledWaits DEF TypeOK
  <2>4. \A d \in DayNumbers : d # DayOf(h) => DaySources(d)' = DaySources(d)
    BY <2>2 DEF DaySources, HoursOf
  <2> QED BY <2>1, <2>2, <2>3, <2>4 DEF DaysWait
<1>6. ASSUME NEW d \in DayNumbers, DeferDay(d) PROVE DaysWait'
  <2>1. mode # "down" /\ UNCHANGED <<hourRows, dayRows>>
    BY <1>0, <1>6 DEF DeferDay, Stages
  <2>2. PICK c \in DeferredDay(d) : dayCand' = [dayCand EXCEPT ![d] = c]
    BY <1>6 DEF DeferDay
  <2>3. dayCand'[d] = c /\ \A k \in DayNumbers : k # d => dayCand'[k] = dayCand[k]
    BY <1>0, <2>2 DEF TypeOK
  <2>4. DaySources(d) # {} => Waiting(c)
    <3> SUFFICES ASSUME DaySources(d) # {} PROVE Waiting(c)
      OBVIOUS
    <3>1. PICK last \in LastOpenHour(d) :
            c = [dueAt |-> HourEnd(last) + MaxAcceptedPast, compactedAt |-> Never]
      BY <2>2 DEF DeferredDay
    <3>2. last \in Hours
      BY DEF LastOpenHour, OpenHours, DaySources, HoursOf
    <3> QED BY <3>1, <3>2, EndsAreNat DEF Waiting, NoCandidate, Never
  <2> QED BY <2>1, <2>3, <2>4 DEF DaysWait, DaySources, HoursOf
<1>7. ASSUME NEW d \in DayNumbers, CompactDay(d) PROVE DaysWait'
  <2>1. mode # "down" /\ UNCHANGED hourRows
    BY <1>0, <1>7 DEF CompactDay, Stages
  <2>2. /\ dayRows'[d] = DayRollup(d) /\ dayCand'[d] = Compacted(DayFinalizesAt(d))
        /\ \A k \in DayNumbers : k # d =>
             dayCand'[k] = dayCand[k] /\ dayRows'[k] = dayRows[k]
    BY <1>0, <1>7 DEF CompactDay, TypeOK
  <2>3. dayRows'[d].status # "final" => Waiting(dayCand'[d])
    <3>1. DayFinalizesAt(d) \in Nat
      BY EndsAreNat
    <3>2. dayRows'[d].status # "final" => now < DayFinalizesAt(d)
      BY <2>2, <3>1, <1>0 DEF DayRollup
    <3> QED BY <2>2, <3>1, <3>2, <1>0
            DEF Compacted, Waiting, NoCandidate, Never
  <2> QED BY <2>1, <2>2, <2>3 DEF DaysWait, DaySources, HoursOf
<1>8. CASE PruneHours
  <2>1. mode # "down" /\ UNCHANGED <<dayRows, dayCand>>
    BY <1>0, <1>8 DEF PruneHours, Stages
  <2>2. \A d \in DayNumbers : DaySources(d)' \subseteq DaySources(d)
    BY <1>0, <1>8 DEF PruneHours, DaySources, HoursOf, Present, TypeOK, RollupRow
  <2> QED BY <2>1, <2>2 DEF DaysWait
<1>9. CASE PruneDays
  <2>1. mode # "down" /\ UNCHANGED <<hourRows, dayCand>>
    BY <1>0, <1>9 DEF PruneDays, Stages
  <2>2. \A d \in DayNumbers : \/ dayRows'[d] = dayRows[d]
                              \/ dayRows'[d].status = "pruned"
    BY <1>0, <1>9 DEF PruneDays, TypeOK, RollupRow
  <2>3. \A d \in DayNumbers : dayRows'[d].status = "pruned" => DaySources(d)' = {}
    BY DEF IInv, DayTier, SealedDay, Sealed
  <2> QED BY <2>1, <2>2, <2>3 DEF DaysWait, DaySources, HoursOf
<1>10. CASE TransactionFails \/ CompactionThrows
  <2>1. Fail /\ mode # "down"
    BY <1>0, <1>10 DEF TransactionFails, CompactionThrows, Stages
  <2> QED BY <2>1, <1>a DEF Fail
<1>11. CASE Crash \/ Exit
  BY <1>11 DEF Crash, Exit, Dies
<1>12. CASE Restart
  BY <1>12 DEF Restart, DaysWait, Uncompacted, Waiting, NoCandidate, Never,
               DaySources, HoursOf
<1>13. CASE UNCHANGED vars
  BY <1>13, <1>a DEF vars
<1> QED
  BY <1>1, <1>2, <1>3, <1>4, <1>5, <1>6, <1>7, <1>8, <1>9, <1>10, <1>11, <1>12,
     <1>13 DEF Next, FlushStep

(* Every dirty minute has a mark and every row that is not rolled up for   *)
(* good a candidate, whatever failed or was restarted: the coordinator     *)
(* forgets no work.                                                        *)
THEOREM NoWorkIsForgotten == SettingsOrdered /\ Spec => []PendingWorkIsScheduled
<1>1. Init => Tasks
  BY DEF Init, Tasks, Marked, HoursWait, DaysWait, HourSources, DaySources, MinutesOf,
         HoursOf, Present, NoMinute, NoRollup
<1>2. IInv /\ IInv' /\ Tasks /\ [Next]_vars => Tasks'
  BY MarkedStep, HoursWaitStep, DaysWaitStep DEF Tasks
<1>3. Tasks => PendingWorkIsScheduled
  BY DEF Tasks, Marked, HoursWait, DaysWait, Unscheduled, PendingWorkIsScheduled
<1> QED BY <1>1, <1>2, <1>3, Invariance, PTL DEF Spec

-----------------------------------------------------------------------------
(* Refinement: the pipeline implements Rollups.                            *)

hourTotal == [h \in Hours |-> Published(hourRows[h])]
dayTotal == [d \in DayNumbers |-> Published(dayRows[d])]

(* The published totals change only when an hour or a day is sealed.       *)
LEMMA TotalsUnchanged ==
    ASSUME \A h \in Hours : Published(hourRows'[h]) = Published(hourRows[h]),
           \A d \in DayNumbers : Published(dayRows'[d]) = Published(dayRows[d])
    PROVE  UNCHANGED <<hourTotal, dayTotal>>
BY DEF hourTotal, dayTotal

(* The pipeline starts where Rollups starts.                               *)
LEMMA RefinesInit == Init => R!Init
BY DEF Init, R!Init, NoRollup, Published, Sealed

(* A frame accepted by ingest belongs to no published total.               *)
LEMMA IngestRefines ==
    ASSUME IInv, NEW t \in 0 .. MaxNow + MaxClockSkew, NEW b \in Bounds, Ingest(t, b)
    PROVE  R!Next
<1> DEFINE m == MinuteOf(t)
<1>1. /\ m \in Minutes /\ AcceptableTime(t)
      /\ accepted' = [accepted EXCEPT ![m] = @ + 1]
      /\ UNCHANGED <<saved, hourRows, dayRows>>
  BY DEF Ingest, disk
<1>2. Forgotten(m) = FALSE /\ HourOf(m) \in Hours /\ DayOf(HourOf(m)) \in DayNumbers
  BY <1>1, AcceptedIsRemembered, Calendar DEF IInv
<1>3. ~Sealed(hourRows[HourOf(m)]) /\ ~Sealed(dayRows[DayOf(HourOf(m))])
  BY <1>1, <1>2, PastFinalization
  DEF IInv, HourTier, SealedHour, DayTier, SealedDay
<1>4. R!Accept(m)
  <2> HIDE DEF m
  <2> QED BY <1>1, <1>2, <1>3 DEF R!Accept, Published
<1> QED BY <1>1, <1>4 DEF R!Next

(* A save makes accepted frames durable.                                   *)
LEMMA SaveRefines == ASSUME IInv, SaveChunk PROVE R!Next
<1>1. NextChunk \in SUBSET Minutes
  BY DEF SaveChunk, IInv, Stages, NextChunk, TypeOK
<1>2. \A m \in NextChunk : mem[m].count = accepted[m]
  BY <1>1 DEF SaveChunk, IInv, Stages, Ledger, NextChunk
<1>3. R!Save(NextChunk)
  BY <1>1, <1>2 DEF R!Save, SaveChunk
<1> QED BY <1>1, <1>3 DEF R!Next

(* Sealing an hour publishes its total; writing an open hour is invisible. *)
LEMMA CompactHourRefines ==
    ASSUME IInv, NEW h \in Hours, CompactHour(h)
    PROVE  R!Next \/ UNCHANGED <<accepted, saved, hourTotal, dayTotal>>
<1>1. /\ pc = "hours" /\ h \in work /\ HourReady(h)
      /\ UNCHANGED <<accepted, saved, dayRows>>
  BY DEF CompactHour, ghosts
<1>2. /\ hourRows'[h] = HourRollup(h)
      /\ \A k \in Hours : k # h => hourRows'[k] = hourRows[k]
  BY DEF CompactHour, IInv, TypeOK
<1>3. /\ ~Sealed(hourRows[h])
      /\ HourRollup(h).parts = [m \in Minutes |-> IF HourOf(m) = h THEN accepted[m]
                                                                   ELSE 0]
  <2>1. HourRollup(h).parts \in [Minutes -> Nat]
    BY RollupTypes DEF IInv, RollupRow
  <2> QED BY <1>1, <2>1, HourRollupIsExact
<1>4. CASE Sealed(HourRollup(h))
  <2>1. \A m \in Minutes : saved[m] = accepted[m]
    BY <1>1, CompactionSeesAll DEF IInv
  <2>2. hourTotal' = [hourTotal EXCEPT ![h] = {R!HourShare(h)}] /\ dayTotal' = dayTotal
    BY <1>1, <1>2, <1>3, <1>4 DEF hourTotal, dayTotal, Published, R!HourShare
  <2>3. R!PublishHour(h)
    BY <1>1, <1>3, <2>1, <2>2 DEF R!PublishHour, hourTotal, dayTotal, Published
  <2> QED BY <2>3 DEF R!Next
<1>5. CASE ~Sealed(HourRollup(h))
  <2>1. \A k \in Hours : Published(hourRows'[k]) = Published(hourRows[k])
    BY <1>2, <1>3, <1>5 DEF Published
  <2> QED BY <1>1, <2>1, TotalsUnchanged
<1> QED BY <1>4, <1>5

(* Sealing a day publishes its total; writing an open day is invisible.    *)
LEMMA CompactDayRefines ==
    ASSUME IInv, NEW d \in DayNumbers, CompactDay(d)
    PROVE  R!Next \/ UNCHANGED <<accepted, saved, hourTotal, dayTotal>>
<1>1. /\ pc = "days" /\ d \in work /\ DayReady(d)
      /\ UNCHANGED <<accepted, saved, hourRows>>
  BY DEF CompactDay, ghosts
<1>2. /\ dayRows'[d] = DayRollup(d)
      /\ \A k \in DayNumbers : k # d => dayRows'[k] = dayRows[k]
  BY DEF CompactDay, IInv, TypeOK
<1>3. ~Sealed(dayRows[d])
  BY <1>1 DEF IInv, DayTier, SealedDay
<1>4. CASE Sealed(DayRollup(d))
  <2>1. \A m \in Minutes : saved[m] = accepted[m]
    BY <1>1, CompactionSeesAll DEF IInv
  <2>2. now >= DayFinalizesAt(d)
    BY <1>4 DEF DayRollup, Sealed
  <2>3. DayRollup(d).parts = [m \in Minutes |-> IF DayOf(HourOf(m)) = d
                                                THEN accepted[m] ELSE 0]
    <3>1. DayRollup(d).parts \in [Minutes -> Nat]
      BY RollupTypes DEF IInv, RollupRow
    <3> QED BY <1>1, <2>2, <3>1, DayRollupIsExact
  <2>4. dayTotal' = [dayTotal EXCEPT ![d] = {R!DayShare(d)}] /\ hourTotal' = hourTotal
    BY <1>1, <1>2, <1>4, <2>3 DEF hourTotal, dayTotal, Published, R!DayShare
  <2>5. R!PublishDay(d)
    BY <1>1, <1>3, <2>1, <2>4 DEF R!PublishDay, hourTotal, dayTotal, Published
  <2> QED BY <2>5 DEF R!Next
<1>5. CASE ~Sealed(DayRollup(d))
  <2>1. \A k \in DayNumbers : Published(dayRows'[k]) = Published(dayRows[k])
    BY <1>2, <1>3, <1>5 DEF Published
  <2> QED BY <1>1, <2>1, TotalsUnchanged
<1> QED BY <1>4, <1>5

(* Every other step leaves what a reader of totals sees unchanged, except  *)
(* that a crash may lose what is not durable.                              *)
LEMMA StepRefines ==
    IInv /\ [Next]_vars
      => R!Next \/ UNCHANGED <<accepted, saved, hourTotal, dayTotal>>
<1> SUFFICES ASSUME IInv, [Next]_vars
             PROVE  R!Next \/ UNCHANGED <<accepted, saved, hourTotal, dayTotal>>
  OBVIOUS
<1> USE DEF disk, ghosts
<1>1. ASSUME UNCHANGED <<accepted, saved, hourRows, dayRows>>
      PROVE  UNCHANGED <<accepted, saved, hourTotal, dayTotal>>
  BY <1>1 DEF hourTotal, dayTotal
<1>2. CASE PruneHours
  <2>1. \A h \in Hours : Published(hourRows'[h]) = Published(hourRows[h])
    BY <1>2 DEF PruneHours, Published, Sealed, IInv, TypeOK, RollupRow
  <2> QED BY <1>2, <2>1, TotalsUnchanged DEF PruneHours
<1>3. CASE PruneDays
  <2>1. \A d \in DayNumbers : Published(dayRows'[d]) = Published(dayRows[d])
    BY <1>3 DEF PruneDays, Published, Sealed, IInv, TypeOK, RollupRow
  <2> QED BY <1>3, <2>1, TotalsUnchanged DEF PruneDays
<1>4. CASE Crash \/ Exit
  <2>1. R!Lose
    BY <1>4 DEF Crash, Exit, Dies, R!Lose
  <2> QED BY <2>1 DEF R!Next
<1>5. CASE Tick \/ CompactionTimer \/ FlushBegin \/ SavesDone \/ Acknowledge
           \/ FinalizeMinutes \/ HoursDone \/ DaysDone \/ PruneMinutes
  BY <1>1, <1>5 DEF Tick, CompactionTimer, FlushBegin, SavesDone, Acknowledge,
                    FinalizeMinutes, HoursDone, DaysDone, PruneMinutes
<1>6. CASE \/ \E m \in Minutes : ScheduleHour(m)
           \/ \E h \in Hours : DeferHour(h)
           \/ \E d \in DayNumbers : DeferDay(d)
  BY <1>1, <1>6 DEF ScheduleHour, DeferHour, DeferDay
<1>7. CASE TransactionFails \/ CompactionThrows \/ Close \/ Restart \/ UNCHANGED vars
  BY <1>1, <1>7 DEF TransactionFails, CompactionThrows, Fail, Close, Restart, vars
<1> QED
  BY <1>2, <1>3, <1>4, <1>5, <1>6, <1>7, IngestRefines, SaveRefines,
     CompactHourRefines, CompactDayRefines DEF Next, FlushStep

(* Under ordered settings the pipeline implements Rollups: flushes,        *)
(* failures, retries, restarts and retention are invisible in the totals.  *)
THEOREM Implementation == SettingsOrdered /\ Spec => ImplementsRollups
<1>1. Init => R!Init
  BY RefinesInit
<1>2. IInv /\ [Next]_vars => [R!Next]_(R!vars)
  BY StepRefines DEF R!vars, hourTotal, dayTotal
<1> QED BY <1>1, <1>2, Invariance, PTL DEF Spec, ImplementsRollups, R!Spec
=============================================================================
