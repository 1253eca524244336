------------------------------ MODULE Rollups ------------------------------
(***************************************************************************)
(* What the historical pipeline promises, without buffers, tables, timers  *)
(* or a clock: frames are accepted per minute, become durable, and are     *)
(* finally reported in the total of their hour and of their day.  A total  *)
(* is published once, counts every accepted frame of its period exactly    *)
(* once, and no frame is accepted for a period that has been reported.     *)
(* Only what is not durable yet can be lost.                               *)
(***************************************************************************)
EXTENDS Naturals

CONSTANTS
    Minutes, Hours, DayNumbers,
    HourOf(_), DayOf(_)

VARIABLES
    accepted, durable,         \* frames per minute
    hourTotal, dayTotal        \* {} until published, then {the total}
vars == <<accepted, durable, hourTotal, dayTotal>>

HourShare(h) == [m \in Minutes |-> IF HourOf(m) = h THEN accepted[m] ELSE 0]
DayShare(d) ==
    [m \in Minutes |-> IF DayOf(HourOf(m)) = d THEN accepted[m] ELSE 0]

Init ==
    /\ accepted = [m \in Minutes |-> 0]
    /\ durable = [m \in Minutes |-> 0]
    /\ hourTotal = [h \in Hours |-> {}]
    /\ dayTotal = [d \in DayNumbers |-> {}]

Accept(m) ==
    /\ hourTotal[HourOf(m)] = {}
    /\ dayTotal[DayOf(HourOf(m))] = {}
    /\ accepted' = [accepted EXCEPT ![m] = @ + 1]
    /\ UNCHANGED <<durable, hourTotal, dayTotal>>

Save(S) ==
    /\ durable' = [m \in Minutes |-> IF m \in S THEN accepted[m] ELSE durable[m]]
    /\ UNCHANGED <<accepted, hourTotal, dayTotal>>

PublishHour(h) ==
    /\ hourTotal[h] = {}
    /\ \A m \in Minutes : HourOf(m) = h => durable[m] = accepted[m]
    /\ hourTotal' = [hourTotal EXCEPT ![h] = {HourShare(h)}]
    /\ UNCHANGED <<accepted, durable, dayTotal>>

PublishDay(d) ==
    /\ dayTotal[d] = {}
    /\ \A m \in Minutes : DayOf(HourOf(m)) = d => durable[m] = accepted[m]
    /\ dayTotal' = [dayTotal EXCEPT ![d] = {DayShare(d)}]
    /\ UNCHANGED <<accepted, durable, hourTotal>>

Lose ==
    /\ accepted' = durable
    /\ UNCHANGED <<durable, hourTotal, dayTotal>>

Next ==
    \/ \E m \in Minutes : Accept(m)
    \/ \E S \in SUBSET Minutes : Save(S)
    \/ \E h \in Hours : PublishHour(h)
    \/ \E d \in DayNumbers : PublishDay(d)
    \/ Lose

Spec == Init /\ [][Next]_vars
=============================================================================
