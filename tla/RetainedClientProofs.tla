------------------------ MODULE RetainedClientProofs ------------------------
(***************************************************************************)
(* Theorems about the C# client, for every set of increments and events    *)
(* and every bound on them and on faults.                                  *)
(*                                                                         *)
(* Three invariants, each resting on the one before.  TasksInv: how far    *)
(* the tasks are, and what the final sync of ShutdownAsync may rely on.    *)
(* LedgerInv: where each increment is - in memory, in the file, on its     *)
(* way, delivered, given up - and that it is nowhere twice.  PromiseInv:   *)
(* what was recorded before ShutdownAsync moves only towards the server.   *)
(***************************************************************************)
EXTENDS RetainedClient, TLAPS

-----------------------------------------------------------------------------
(* The tasks.                                                              *)

Flags == SUBSET {"flush", "bootstrap"}
Syncs == [at : {"idle", "await", "post", "retained", "flight"}, flags : Flags, pass : {1, 2},
          wasAligned : BOOLEAN, final : BOOLEAN]

TaskTypes ==
    /\ up \in BOOLEAN /\ aligned \in BOOLEAN /\ snapshotQueued \in BOOLEAN
    /\ stopped \in BOOLEAN /\ closed \in BOOLEAN /\ finalOk \in BOOLEAN
    /\ missed \in BOOLEAN /\ crashed \in BOOLEAN
    /\ snapshot \in {"idle", "started", "split"} /\ awaited \in 0 .. 2
    /\ queuedSync \in Flags \cup {Nil} /\ sync \in Syncs
    /\ shutdown \in {"no", "settling", "flushing", "closing", "done", "failed"}

(* No number is taken while a snapshot is split, no task survives the      *)
(* process, and the clock is known where the code relies on it.            *)
TaskOrder ==
    /\ gap = 0
    /\ sync.at = "idle" => sync = NoSync
    /\ ~up => sync = NoSync /\ queuedSync = Nil /\ shutdown = "no" /\ crashed
    /\ sync.wasAligned \/ sync.pass = 2 \/ sync.at = "flight" => aligned

(* The final sync has nobody behind it and waits for every snapshot there  *)
(* is; once it waited, no snapshot runs.                                   *)
Queued == IF snapshotQueued THEN 1 ELSE 0
FinalIsLast ==
    /\ shutdown # "no" => stopped
    /\ sync.final <=> shutdown = "flushing"
    /\ shutdown \in {"flushing", "closing", "done"} => queuedSync = Nil
    /\ shutdown \in {"closing", "done"} => sync.at = "idle"
    /\ sync.final => sync.flags # {} /\ sync.at # "idle"
    /\ sync.final /\ sync.at = "await" => awaited = Running + Queued
    /\ sync.final /\ sync.at \in {"post", "retained", "flight"} =>
           snapshot = "idle" /\ ~snapshotQueued
    /\ sync.final /\ sync.at \in {"retained", "flight"} => aligned

TasksInv == TaskTypes /\ TaskOrder /\ FinalIsLast

LEMMA NoSyncIsASync ==
    /\ NoSync \in Syncs /\ NoSync.at = "idle" /\ NoSync.flags = {} /\ NoSync.pass = 1
    /\ NoSync.wasAligned = FALSE /\ NoSync.final = FALSE
BY DEF NoSync, Syncs, Flags

(* What SendPending begins with: a forced sync asks for a snapshot.        *)
LEMMA PassBegins ==
    ASSUME TaskTypes, NEW s \in Syncs, BeginPass(s)
    PROVE  /\ sync' = [s EXCEPT !.at = "await"] /\ sync' \in Syncs
           /\ snapshotQueued' \in BOOLEAN /\ awaited' \in 0 .. 2
           /\ s.flags # {} => snapshotQueued' /\ awaited' = Running + 1
<1>1. sync' = [s EXCEPT !.at = "await"] /\ sync' \in Syncs
    BY DEF BeginPass, Syncs
<1>2. CASE s.flags # {}
    BY <1>1, <1>2 DEF TaskTypes, BeginPass, Forced, Running
<1>3. CASE s.flags = {}
    BY <1>1, <1>3 DEF TaskTypes, BeginPass, Forced, Running
<1> QED
    BY <1>2, <1>3

(* How a pass ends: with a second pass that knows the time, or the sync.   *)
LEMMA PassEnds ==
    ASSUME TaskTypes, NEW known \in BOOLEAN, EndPass(known)
    PROVE  /\ sync' \in Syncs /\ snapshotQueued' \in BOOLEAN /\ awaited' \in 0 .. 2
           /\ \/ /\ sync.pass = 1 /\ ~sync.wasAligned /\ sync.flags # {} /\ known
                 /\ sync' = [sync EXCEPT !.pass = 2, !.at = "await"]
                 /\ snapshotQueued' /\ awaited' = Running + 1
                 /\ UNCHANGED <<shutdown, finalOk>>
              \/ /\ ~(sync.pass = 1 /\ ~sync.wasAligned /\ sync.flags # {} /\ known)
                 /\ Over(TRUE) /\ UNCHANGED <<snapshotQueued, awaited>>
<1>1. CASE sync.pass = 1 /\ ~sync.wasAligned /\ Forced(sync.flags) /\ known
  <2> DEFINE second == [sync EXCEPT !.pass = 2]
  <2>1. second \in Syncs /\ second.flags = sync.flags
      BY DEF TaskTypes, Syncs
  <2>2. BeginPass(second) /\ UNCHANGED <<shutdown, finalOk>>
      BY <1>1 DEF EndPass
  <2>3. /\ sync' = [second EXCEPT !.at = "await"] /\ sync' \in Syncs
        /\ snapshotQueued' \in BOOLEAN /\ awaited' \in 0 .. 2
        /\ second.flags # {} => snapshotQueued' /\ awaited' = Running + 1
    <3> HIDE DEF second
    <3> QED
        BY <2>1, <2>2, PassBegins
  <2>4. sync' = [sync EXCEPT !.pass = 2, !.at = "await"]
      BY <2>3 DEF TaskTypes, Syncs
  <2> QED
      BY <1>1, <2>1, <2>2, <2>3, <2>4 DEF Forced
<1>2. CASE ~(sync.pass = 1 /\ ~sync.wasAligned /\ Forced(sync.flags) /\ known)
  <2>1. Over(TRUE) /\ UNCHANGED <<snapshotQueued, awaited>>
      BY <1>2 DEF EndPass
  <2>2. sync' \in Syncs
      BY <2>1, NoSyncIsASync DEF Over
  <2> QED
      BY <1>2, <2>1, <2>2 DEF Forced, TaskTypes
<1> QED
    BY <1>1, <1>2

LEMMA TasksInvInit == Init => TasksInv
<1> SUFFICES ASSUME Init PROVE TasksInv
    OBVIOUS
<1>1. {"bootstrap"} \in Flags
    BY DEF Flags
<1>2. TaskTypes
  <2>1. queuedSync \in Flags \cup {Nil} /\ sync \in Syncs
      BY <1>1, NoSyncIsASync DEF Init
  <2>2. /\ up \in BOOLEAN /\ aligned \in BOOLEAN /\ snapshotQueued \in BOOLEAN
        /\ stopped \in BOOLEAN /\ closed \in BOOLEAN /\ finalOk \in BOOLEAN
        /\ missed \in BOOLEAN /\ crashed \in BOOLEAN
      BY DEF Init
  <2>3. /\ snapshot \in {"idle", "started", "split"} /\ awaited \in 0 .. 2
        /\ shutdown \in {"no", "settling", "flushing", "closing", "done", "failed"}
      BY DEF Init
  <2> QED
      BY <2>1, <2>2, <2>3 DEF TaskTypes
<1>3. TaskOrder
    BY NoSyncIsASync DEF Init, TaskOrder
<1>4. FinalIsLast
    BY NoSyncIsASync DEF Init, FinalIsLast
<1> QED
    BY <1>2, <1>3, <1>4 DEF TasksInv

(* Timers, flush requests and suspension queue work, and stop() keeps them *)
(* from it.                                                                *)
LEMMA TasksQueue ==
    ASSUME TasksInv, FlushAsync \/ Suspend \/ SyncTick \/ AggregateTick \/ SnapshotStart
    PROVE  TasksInv'
<1> USE DEF TasksInv
<1>1. CASE FlushAsync \/ Suspend \/ SyncTick
  <2>1. /\ UNCHANGED <<gap, snapshot, snapshotQueued, sync, awaited, up, aligned, stopped, closed, shutdown>>
        /\ UNCHANGED <<finalOk, missed, crashed>>
      BY <1>1 DEF FlushAsync, Suspend, SyncTick, capture, snapshots, lifecycle, server
  <2>2. queuedSync' \in Flags \cup {Nil} /\ up /\ (stopped => queuedSync' = queuedSync)
    <3>1. {} \in Flags /\ {"flush"} \in Flags /\ \A f \in Flags : f \cup {"flush"} \in Flags /\ f \cup {} \in Flags
        BY DEF Flags
    <3> QED
        BY <1>1, <3>1 DEF FlushAsync, Suspend, SyncTick, EnqueueSync, TaskTypes
  <2>3. TaskTypes'
      BY <2>1, <2>2 DEF TaskTypes
  <2>4. TaskOrder' /\ FinalIsLast'
      BY <2>1, <2>2 DEF TaskOrder, FinalIsLast, Running, Queued, TaskTypes
  <2> QED
      BY <2>3, <2>4
<1>2. CASE AggregateTick
  <2>1. TaskTypes' /\ TaskOrder'
      BY <1>2 DEF AggregateTick, TaskTypes, TaskOrder, capture, syncs, lifecycle, server
  <2>2. FinalIsLast'
      BY <1>2 DEF AggregateTick, FinalIsLast, syncs, lifecycle, server
  <2> QED
      BY <2>1, <2>2
<1>3. CASE SnapshotStart
  <2>1. TaskTypes' /\ TaskOrder'
      BY <1>3 DEF SnapshotStart, TaskTypes, TaskOrder, capture, syncs, lifecycle, server
  <2>2. FinalIsLast'
      BY <1>3 DEF SnapshotStart, FinalIsLast, Running, Queued, TaskTypes, syncs, lifecycle, server
  <2> QED
      BY <2>1, <2>2
<1> QED
    BY <1>1, <1>2, <1>3

(* The snapshot task.                                                      *)
LEMMA TasksSnapshot ==
    ASSUME TasksInv, SnapshotCapture \/ SnapshotCommit \/ SnapshotFails
    PROVE  TasksInv'
<1> USE DEF TasksInv
<1>1. /\ UNCHANGED <<snapshotQueued, queuedSync, sync, up, aligned, stopped, closed, shutdown>>
      /\ UNCHANGED <<finalOk, crashed>>
      /\ up /\ snapshot # "idle" /\ gap' = 0 /\ missed' \in BOOLEAN
    BY DEF SnapshotCapture, SnapshotCommit, SnapshotFails, lifecycle, server, capture, TaskTypes, TaskOrder
<1>2. \/ Completed
      \/ snapshot' = "split" /\ awaited' = awaited
    BY DEF SnapshotCapture, SnapshotCommit, SnapshotFails
<1>3. TaskTypes'
    BY <1>1, <1>2 DEF TaskTypes, Completed
<1>4. TaskOrder'
    BY <1>1 DEF TaskOrder
<1>5. FinalIsLast'
    BY <1>1, <1>2 DEF FinalIsLast, Completed, Running, Queued, TaskTypes
<1> QED
    BY <1>3, <1>4, <1>5

(* The sync that ends lets the next one start, or ShutdownAsync go on.     *)
LEMMA TasksSyncOver ==
    ASSUME TasksInv, sync.at # "idle", NEW ok \in BOOLEAN, Over(ok), aligned' \in BOOLEAN,
           UNCHANGED <<up, snapshotQueued, stopped, closed, missed, crashed, snapshot, awaited,
                       queuedSync, gap>>
    PROVE  TasksInv'
<1> USE DEF TasksInv
<1>1. sync' = NoSync
    BY DEF Over
<1>2. /\ shutdown' = IF sync.final THEN "closing" ELSE shutdown
      /\ finalOk' \in BOOLEAN
    BY DEF Over, TaskTypes
<1>3. TaskTypes'
  <2>1. shutdown' \in {"no", "settling", "flushing", "closing", "done", "failed"}
      BY <1>2 DEF TaskTypes
  <2>2. sync' \in Syncs
      BY <1>1, NoSyncIsASync
  <2> QED
      BY <1>2, <2>1, <2>2 DEF TaskTypes
<1>4. TaskOrder'
    BY <1>1, <1>2, NoSyncIsASync DEF TaskOrder, FinalIsLast
<1>5. FinalIsLast'
  <2>1. CASE sync.final
      BY <1>1, <1>2, <2>1, NoSyncIsASync DEF FinalIsLast
  <2>2. CASE ~sync.final
      BY <1>1, <1>2, <2>2, NoSyncIsASync DEF FinalIsLast
  <2> QED
      BY <2>1, <2>2
<1> QED
    BY <1>3, <1>4, <1>5

LEMMA TasksPassOver ==
    ASSUME TasksInv, sync.at \in {"retained", "flight"}, NEW known \in BOOLEAN, known => aligned,
           EndPass(known),
           UNCHANGED <<up, aligned, stopped, closed, missed, crashed, snapshot, queuedSync, gap>>
    PROVE  TasksInv'
<1>1. TaskTypes
    BY DEF TasksInv
<1>2. CASE /\ sync' = [sync EXCEPT !.pass = 2, !.at = "await"]
           /\ snapshotQueued' /\ awaited' = Running + 1
           /\ UNCHANGED <<shutdown, finalOk>> /\ known
  <2>1. sync' \in Syncs /\ snapshotQueued' \in BOOLEAN /\ awaited' \in 0 .. 2
      BY <1>1, PassEnds
  <2>2. /\ sync'.at = "await" /\ sync'.pass = 2 /\ sync'.flags = sync.flags
        /\ sync'.wasAligned = sync.wasAligned /\ sync'.final = sync.final
      BY <1>1, <1>2 DEF TaskTypes, Syncs
  <2>3. TaskTypes'
      BY <1>2, <2>1 DEF TaskTypes, TasksInv
  <2>4. TaskOrder'
      BY <1>2, <2>2, NoSyncIsASync DEF TaskOrder, TasksInv
  <2>5. FinalIsLast'
      BY <1>2, <2>2 DEF FinalIsLast, TasksInv, Running, Queued
  <2> QED
      BY <2>3, <2>4, <2>5 DEF TasksInv
<1>3. CASE Over(TRUE) /\ UNCHANGED <<snapshotQueued, awaited>>
    BY <1>1, <1>3, TasksSyncOver DEF TaskTypes
<1> QED
    BY <1>1, <1>2, <1>3, PassEnds

(* A sync up to the retained counters.                                     *)
LEMMA TasksSync ==
    ASSUME TasksInv, SyncStart \/ TakePendingFrames \/ PostOk \/ PostFails
    PROVE  TasksInv'
<1> USE DEF TasksInv
<1>1. CASE SyncStart
  <2>1. /\ UNCHANGED <<up, aligned, stopped, closed, missed, crashed, snapshot, gap, shutdown, finalOk>>
        /\ queuedSync' = Nil /\ queuedSync \in Flags /\ up /\ sync = NoSync
      BY <1>1 DEF SyncStart, lifecycle, server, capture, TaskTypes, TaskOrder
  <2>2. shutdown \notin {"flushing", "closing", "done"} /\ ~sync.final
      BY <1>1, <2>1, NoSyncIsASync DEF SyncStart, FinalIsLast
  <2>3. CASE UNCHANGED <<sync, snapshotQueued, awaited>>
    <3>1. TaskTypes'
        BY <2>1, <2>3 DEF TaskTypes
    <3>2. TaskOrder' /\ FinalIsLast'
        BY <2>1, <2>2, <2>3, NoSyncIsASync DEF TaskOrder, FinalIsLast
    <3> QED
        BY <3>1, <3>2
  <2>4. CASE BeginPass([NoSync EXCEPT !.flags = queuedSync, !.wasAligned = aligned])
    <3> DEFINE s == [NoSync EXCEPT !.flags = queuedSync, !.wasAligned = aligned]
    <3>1. s \in Syncs /\ s.pass = 1 /\ s.wasAligned = aligned /\ s.final = FALSE
        BY <2>1 DEF NoSync, Syncs, Flags, TaskTypes
    <3>2. /\ sync' = [s EXCEPT !.at = "await"] /\ sync' \in Syncs
          /\ snapshotQueued' \in BOOLEAN /\ awaited' \in 0 .. 2
      <4> HIDE DEF s
      <4> QED
          BY <2>4, <3>1, PassBegins DEF s
    <3>3. sync'.at = "await" /\ sync'.pass = 1 /\ sync'.wasAligned = aligned /\ sync'.final = FALSE
      <4> HIDE DEF s
      <4> QED
          BY <3>1, <3>2 DEF Syncs
    <3>4. TaskTypes'
        BY <2>1, <3>2 DEF TaskTypes
    <3>5. TaskOrder' /\ FinalIsLast'
        BY <2>1, <2>2, <3>3 DEF TaskOrder, FinalIsLast, TaskTypes
    <3> QED
        BY <3>4, <3>5
  <2> QED
      BY <1>1, <2>3, <2>4 DEF SyncStart
<1>2. CASE TakePendingFrames \/ PostOk
  <2>1. /\ UNCHANGED <<up, stopped, closed, missed, crashed, snapshot, snapshotQueued, gap, shutdown>>
        /\ UNCHANGED <<finalOk, queuedSync, awaited>>
      BY <1>2 DEF TakePendingFrames, PostOk, lifecycle, server, capture, snapshots
  <2>2. up /\ (aligned => aligned') /\ aligned' \in BOOLEAN /\ (sync.at = "post" => aligned')
      BY <1>2 DEF TakePendingFrames, PostOk, server, TaskTypes
  <2>3. sync.at \in {"await", "post"} /\ (sync.at = "await" => awaited = 0)
      BY <1>2 DEF TakePendingFrames, PostOk
  <2>4. \E at \in {"post", "retained"} :
            /\ sync' = [sync EXCEPT !.at = at]
            /\ at = "retained" /\ sync.at = "await" => ~SendEmpty
      BY <1>2 DEF TakePendingFrames, PostOk
  <2>5. PICK at \in {"post", "retained"} :
            /\ sync' = [sync EXCEPT !.at = at]
            /\ at = "retained" /\ sync.at = "await" => ~SendEmpty
      BY <2>4
  <2>6. /\ sync' \in Syncs /\ sync'.at = at /\ sync'.pass = sync.pass /\ sync'.flags = sync.flags
        /\ sync'.wasAligned = sync.wasAligned /\ sync'.final = sync.final /\ sync.pass \in {1, 2}
      BY <2>5 DEF TaskTypes, Syncs
  <2>7. TaskTypes'
      BY <2>1, <2>2, <2>6 DEF TaskTypes
  <2>8. TaskOrder'
      BY <2>1, <2>2, <2>6 DEF TaskOrder
  <2>9. sync.final => snapshot = "idle" /\ ~snapshotQueued
      BY <2>3 DEF FinalIsLast, Running, Queued
  <2>10. sync.final /\ at = "retained" => aligned'
      BY <2>2, <2>3, <2>5, <2>6 DEF FinalIsLast, TaskOrder, SendEmpty, Forced
  <2>11. FinalIsLast'
      BY <2>1, <2>3, <2>6, <2>9, <2>10 DEF FinalIsLast
  <2> QED
      BY <2>7, <2>8, <2>11
<1>3. CASE PostFails
    BY <1>3, TasksSyncOver DEF PostFails, snapshots, TaskTypes
<1> QED
    BY <1>1, <1>2, <1>3

(* The retained counters of a sync.                                        *)
LEMMA TasksFlight ==
    ASSUME TasksInv,
           \/ NoFlight \/ BeginFlight \/ BeginFlightThrows \/ FlightOk \/ FlightRejected \/ FlightFails
           \/ \E units \in SUBSET Units : FlightReceived(units)
    PROVE  TasksInv'
<1> USE DEF TasksInv
<1>1. CASE NoFlight
  <2>1. sync.at = "retained" /\ EndPass(aligned) /\ aligned \in BOOLEAN
      BY <1>1 DEF NoFlight, TaskTypes
  <2>2. UNCHANGED <<up, aligned, stopped, closed, missed, crashed, snapshot, queuedSync, gap>>
      BY <1>1 DEF NoFlight, capture, server
  <2> QED
      BY <2>1, <2>2, TasksPassOver
<1>2. CASE FlightOk
  <2>1. /\ sync.at = "flight" /\ aligned
        /\ UNCHANGED <<up, aligned, stopped, closed, missed, crashed, snapshot, queuedSync, gap>>
      BY <1>2 DEF FlightOk, TaskOrder, capture
  <2>2. CASE EndPass(TRUE)
      BY <2>1, <2>2, TasksPassOver
  <2>3. CASE Over(FALSE) /\ UNCHANGED <<snapshotQueued, awaited>>
      BY <2>1, <2>3, TasksSyncOver DEF TaskTypes
  <2> QED
      BY <1>2, <2>2, <2>3 DEF FlightOk, Closed
<1>3. CASE FlightRejected \/ FlightFails \/ BeginFlightThrows
  <2>1. sync.at # "idle" /\ Over(FALSE)
      BY <1>3 DEF FlightRejected, FlightFails, BeginFlightThrows, FlightOpens
  <2>2. UNCHANGED <<up, aligned, snapshotQueued, stopped, closed, missed, crashed, snapshot, awaited, queuedSync>>
      BY <1>3 DEF FlightRejected, FlightFails, BeginFlightThrows, FlightOpens, capture, snapshots
  <2>3. gap' = gap
      BY <1>3 DEF FlightRejected, FlightFails, BeginFlightThrows, FlightOpens, MayFly, NumberTaken, capture
  <2> QED
      BY <2>1, <2>2, <2>3, TasksSyncOver DEF TaskTypes
<1>4. CASE BeginFlight
  <2>1. /\ UNCHANGED <<up, aligned, stopped, closed, missed, crashed, snapshot, snapshotQueued, shutdown>>
        /\ UNCHANGED <<finalOk, queuedSync, awaited>>
        /\ aligned /\ snapshot # "split" /\ sync.at = "retained" /\ up
      BY <1>4 DEF BeginFlight, FlightOpens, MayFly, snapshots
  <2>2. gap' = gap
      BY <1>4, <2>1 DEF BeginFlight, NumberTaken
  <2>3. /\ sync' \in Syncs /\ sync'.at = "flight" /\ sync'.pass = sync.pass /\ sync'.flags = sync.flags
        /\ sync'.wasAligned = sync.wasAligned /\ sync'.final = sync.final
      BY <1>4 DEF BeginFlight, TaskTypes, Syncs
  <2>4. TaskTypes'
      BY <2>1, <2>3 DEF TaskTypes
  <2>5. TaskOrder' /\ FinalIsLast'
      BY <2>1, <2>2, <2>3 DEF TaskOrder, FinalIsLast
  <2> QED
      BY <2>4, <2>5
<1>5. CASE \E units \in SUBSET Units : FlightReceived(units)
  <2>1. /\ UNCHANGED <<up, aligned, stopped, closed, missed, crashed, snapshot, snapshotQueued, shutdown>>
        /\ UNCHANGED <<finalOk, queuedSync, awaited, sync, gap>>
      BY <1>5 DEF FlightReceived, lifecycle, snapshots, capture
  <2> QED
      BY <2>1 DEF TaskTypes, TaskOrder, FinalIsLast, Running, Queued
<1> QED
    BY <1>1, <1>2, <1>3, <1>4, <1>5

(* The end of the client, and steps of the application.                    *)
LEMMA TasksEnd ==
    ASSUME TasksInv, ShutdownAsync \/ FinalSync \/ ShutdownDone \/ Stop \/ Crash \/ Restart
    PROVE  TasksInv'
<1> USE DEF TasksInv
<1>1. CASE ShutdownAsync
  <2>1. TaskTypes' /\ TaskOrder'
      BY <1>1 DEF ShutdownAsync, TaskTypes, TaskOrder, capture, snapshots, syncs, server
  <2>2. FinalIsLast'
      BY <1>1 DEF ShutdownAsync, FinalIsLast, Running, Queued, snapshots, syncs, server
  <2> QED
      BY <2>1, <2>2
<1>2. CASE FinalSync
  <2> DEFINE s == [NoSync EXCEPT !.flags = {"flush"}, !.wasAligned = aligned, !.final = TRUE]
  <2>1. /\ UNCHANGED <<up, aligned, stopped, closed, missed, crashed, snapshot, gap, finalOk>>
        /\ queuedSync' = Nil /\ shutdown' = "flushing" /\ stopped /\ up
      BY <1>2 DEF FinalSync, Settled, FinalIsLast, server, capture
  <2>2. /\ s \in Syncs /\ s.pass = 1 /\ s.wasAligned = aligned /\ s.final = TRUE /\ s.flags # {}
      BY DEF NoSync, Syncs, Flags, TaskTypes
  <2>3. BeginPass(s)
      BY <1>2 DEF FinalSync
  <2> HIDE DEF s
  <2>4. /\ sync' = [s EXCEPT !.at = "await"] /\ sync' \in Syncs
        /\ snapshotQueued' \in BOOLEAN /\ awaited' \in 0 .. 2
        /\ snapshotQueued' /\ awaited' = Running + 1
      BY <2>2, <2>3, PassBegins
  <2>5. /\ sync'.at = "await" /\ sync'.pass = 1 /\ sync'.wasAligned = aligned /\ sync'.final = TRUE
        /\ sync'.flags # {}
      BY <2>2, <2>4 DEF Syncs
  <2>6. TaskTypes'
      BY <2>1, <2>4 DEF TaskTypes
  <2>7. TaskOrder'
      BY <2>1, <2>5 DEF TaskOrder, TaskTypes
  <2>8. FinalIsLast'
      BY <2>1, <2>4, <2>5 DEF FinalIsLast, Running, Queued
  <2> QED
      BY <2>6, <2>7, <2>8
<1>3. CASE ShutdownDone
  <2>1. /\ UNCHANGED <<up, aligned, snapshotQueued, stopped, missed, crashed, snapshot, awaited, gap>>
        /\ UNCHANGED <<finalOk, queuedSync, sync>>
        /\ closed' \in BOOLEAN /\ shutdown' \in {"done", "failed"} /\ shutdown = "closing"
        /\ up
      BY <1>3 DEF ShutdownDone, capture, snapshots, syncs, server, TaskTypes
  <2>2. TaskTypes' /\ TaskOrder'
      BY <2>1 DEF TaskTypes, TaskOrder
  <2>3. FinalIsLast'
      BY <2>1 DEF FinalIsLast, Running, Queued
  <2> QED
      BY <2>2, <2>3
<1>4. CASE Stop
  <2>1. /\ UNCHANGED <<up, aligned, snapshotQueued, missed, crashed, snapshot, awaited, gap, shutdown>>
        /\ UNCHANGED <<finalOk, queuedSync, sync>>
        /\ closed' \in BOOLEAN /\ stopped' \in BOOLEAN /\ (stopped => stopped') /\ up
      BY <1>4 DEF Stop, capture, snapshots, syncs, server, TaskTypes
  <2>2. TaskTypes' /\ TaskOrder'
      BY <2>1 DEF TaskTypes, TaskOrder
  <2>3. FinalIsLast'
      BY <2>1 DEF FinalIsLast, Running, Queued
  <2> QED
      BY <2>2, <2>3
<1>5. CASE Crash
  <2>1. /\ up' = FALSE /\ crashed' = TRUE /\ gap' = 0 /\ snapshot' = "idle" /\ snapshotQueued' = FALSE
        /\ queuedSync' = Nil /\ sync' = NoSync /\ awaited' = 0
        /\ stopped' = FALSE /\ closed' = FALSE /\ shutdown' = "no"
        /\ finalOk' = FALSE /\ missed' = FALSE /\ aligned' = FALSE
      BY <1>5 DEF Crash
  <2>2. TaskTypes'
    <3>1. /\ up' \in BOOLEAN /\ aligned' \in BOOLEAN /\ snapshotQueued' \in BOOLEAN
          /\ stopped' \in BOOLEAN /\ closed' \in BOOLEAN /\ finalOk' \in BOOLEAN
          /\ missed' \in BOOLEAN /\ crashed' \in BOOLEAN
        BY <2>1
    <3>2. /\ snapshot' \in {"idle", "started", "split"} /\ awaited' \in 0 .. 2
          /\ shutdown' \in {"no", "settling", "flushing", "closing", "done", "failed"}
          /\ queuedSync' \in Flags \cup {Nil} /\ sync' \in Syncs
        BY <2>1, NoSyncIsASync
    <3> QED
        BY <3>1, <3>2 DEF TaskTypes
  <2>3. TaskOrder'
      BY <2>1, NoSyncIsASync DEF TaskOrder
  <2>4. FinalIsLast'
      BY <2>1, NoSyncIsASync DEF FinalIsLast
  <2> QED
      BY <2>2, <2>3, <2>4
<1>6. CASE Restart
  <2>1. /\ UNCHANGED <<aligned, snapshotQueued, stopped, closed, missed, crashed, snapshot, awaited, gap>>
        /\ UNCHANGED <<finalOk, shutdown, sync>>
        /\ up' = TRUE /\ queuedSync' = {"bootstrap"} /\ sync = NoSync /\ shutdown = "no"
      BY <1>6 DEF Restart, capture, snapshots, TaskOrder
  <2>2. queuedSync' \in Flags
      BY <2>1 DEF Flags
  <2>3. TaskTypes'
      BY <2>1, <2>2 DEF TaskTypes
  <2>4. TaskOrder' /\ FinalIsLast'
      BY <2>1, NoSyncIsASync DEF TaskOrder, FinalIsLast
  <2> QED
      BY <2>3, <2>4
<1> QED
    BY <1>1, <1>2, <1>3, <1>4, <1>5, <1>6

LEMMA TasksInvHolds == Spec => []TasksInv
<1>1. TasksInv /\ [Next]_vars => TasksInv'
  <2> SUFFICES ASSUME TasksInv, [Next]_vars PROVE TasksInv'
      OBVIOUS
  <2>1. CASE (\E u \in Units : Inc(u)) \/ (\E e \in Events : Event(e)) \/ UNCHANGED vars
    <3>1. /\ UNCHANGED <<up, aligned, snapshotQueued, stopped, closed, missed, crashed, snapshot, awaited>>
          /\ UNCHANGED <<gap, shutdown, finalOk, queuedSync, sync>>
        BY <2>1 DEF Inc, Event, vars, capture, snapshots, syncs, lifecycle, server
    <3> QED
        BY <3>1 DEF TasksInv, TaskTypes, TaskOrder, FinalIsLast, Running, Queued
  <2>2. CASE FlushAsync \/ Suspend \/ SyncTick \/ AggregateTick \/ SnapshotStart
      BY <2>2, TasksQueue
  <2>3. CASE SnapshotCapture \/ SnapshotCommit \/ SnapshotFails
      BY <2>3, TasksSnapshot
  <2>4. CASE SyncStart \/ TakePendingFrames \/ PostOk \/ PostFails
      BY <2>4, TasksSync
  <2>5. CASE \/ NoFlight \/ BeginFlight \/ BeginFlightThrows \/ FlightOk \/ FlightRejected \/ FlightFails
             \/ \E units \in SUBSET Units : FlightReceived(units)
      BY <2>5, TasksFlight
  <2>6. CASE ShutdownAsync \/ FinalSync \/ ShutdownDone \/ Stop \/ Crash \/ Restart
      BY <2>6, TasksEnd
  <2> QED
      BY <2>1, <2>2, <2>3, <2>4, <2>5, <2>6 DEF Next
<1> QED
    BY <1>1, TasksInvInit, PTL DEF Spec

-----------------------------------------------------------------------------
(* The increments.                                                         *)

Counters == [Units -> Nat]

LedgerTypes ==
    /\ pending \in Counters /\ flight \in Counters
    /\ file \in [pending : Counters, flight : Counters]
    /\ delivered \in [Units -> 0 .. 2]
    /\ left \subseteq Units /\ kept \subseteq Units /\ refused \subseteq Units /\ doubted \subseteq Units
    /\ stranded \subseteq Units
    /\ recorded \subseteq Units \cup Events
    /\ dirty \in BOOLEAN /\ faults \in 0 .. MaxFaults

Arrived(u) == delivered[u] > 0 \/ u \in refused

(* An increment is in one place of memory and one of the file, and if it   *)
(* was delivered beyond doubt it is not going to be sent.                  *)
NowhereTwice ==
    /\ \A u \in Units : pending[u] + flight[u] <= 1 /\ file.pending[u] + file.flight[u] <= 1
    /\ \A u \in Units \ doubted :
          /\ delivered[u] <= 1
          /\ delivered[u] > 0 => pending[u] = 0 /\ u \notin left

NowhereBefore ==
    \A u \in Units \ recorded :
        /\ pending[u] = 0 /\ flight[u] = 0 /\ file.pending[u] = 0 /\ file.flight[u] = 0
        /\ delivered[u] = 0 /\ u \notin kept \cup refused \cup doubted \cup left

(* A sync that sends a flight sends the only one; what is not left of it   *)
(* arrived.  Without such a sync the flight is the one that was stranded.  *)
FlightIsSent ==
    /\ sync.at = "flight" =>
           /\ flight # None /\ stranded = {}
           /\ left \subseteq Counted(flight)
           /\ \A u \in Counted(flight) \ left : delivered[u] > 0
    /\ sync.at # "flight" => Counted(flight) = stranded /\ left = {}
    /\ ~up => stranded = {}

SomewhereAlways ==
    /\ \A u \in kept : Arrived(u) \/ file.pending[u] + file.flight[u] > 0
    /\ up => \A u \in kept : Arrived(u) \/ pending[u] + flight[u] > 0
    /\ up /\ ~crashed => \A u \in Units \cap recorded : Arrived(u) \/ pending[u] + flight[u] > 0

LedgerInv == LedgerTypes /\ NowhereTwice /\ NowhereBefore /\ FlightIsSent /\ SomewhereAlways

LEMMA NoneCountsNothing ==
    /\ None \in Counters /\ Counted(None) = {}
    /\ \A u \in Units : None[u] = 0
    /\ \A c \in Counters : Counted(c) = {} => c = None
BY DEF None, Counters, Counted

LEMMA SumsAdd ==
    ASSUME NEW a \in Counters, NEW b \in Counters
    PROVE  Sum(a, b) \in Counters /\ \A u \in Units : Sum(a, b)[u] = a[u] + b[u]
BY DEF Sum, Counters

LEMMA LedgerInvInit == Init => LedgerInv
<1> SUFFICES ASSUME Init PROVE LedgerInv
    OBVIOUS
<1>1. LedgerTypes
  <2>1. /\ pending = None /\ flight = None /\ file = [pending |-> None, flight |-> None]
        /\ left = {} /\ kept = {} /\ refused = {} /\ doubted = {} /\ recorded = {} /\ faults = 0
        /\ stranded = {}
      BY DEF Init
  <2>2. delivered \in [Units -> 0 .. 2]
      BY DEF Init, None
  <2>3. dirty \in BOOLEAN
      BY DEF Init
  <2> QED
      BY <2>1, <2>2, <2>3, NoneCountsNothing, RetainedClientAssumption DEF LedgerTypes
<1>2. NowhereTwice /\ NowhereBefore
    BY NoneCountsNothing DEF Init, NowhereTwice, NowhereBefore
<1>3. FlightIsSent /\ SomewhereAlways
    BY NoneCountsNothing, NoSyncIsASync DEF Init, FlightIsSent, SomewhereAlways
<1> QED
    BY <1>1, <1>2, <1>3 DEF LedgerInv

(* Steps that have nothing to do with retained counters.                   *)
LEMMA LedgerUntouched ==
    ASSUME LedgerInv, UNCHANGED <<retained, left, delivered, refused, doubted, stranded, up, crashed>>,
           sync'.at = "flight" <=> sync.at = "flight",
           recorded \subseteq recorded', recorded' \subseteq recorded \cup Events
    PROVE  LedgerInv'
<1>1. UNCHANGED <<pending, flight, dirty, file, kept, faults>>
    BY DEF retained
<1>2. Units \cap recorded' = Units \cap recorded /\ Units \ recorded' = Units \ recorded
    BY RetainedClientAssumption
<1>3. LedgerTypes'
    BY <1>1 DEF LedgerInv, LedgerTypes
<1>4. NowhereTwice' /\ NowhereBefore'
    BY <1>1, <1>2 DEF LedgerInv, NowhereTwice, NowhereBefore
<1>5. FlightIsSent'
    BY <1>1 DEF LedgerInv, FlightIsSent
<1>6. SomewhereAlways'
    BY <1>1, <1>2 DEF LedgerInv, SomewhereAlways, Arrived
<1> QED
    BY <1>3, <1>4, <1>5, <1>6 DEF LedgerInv

(* What a write of the counters p and f has to respect.                    *)
LEMMA LedgerSaved ==
    ASSUME LedgerInv, NEW p \in Counters, NEW f \in Counters, Save(p, f) \/ SaveThrows(p, f),
           UNCHANGED <<recorded, crashed, delivered>>, up' = TRUE,
           refused \subseteq refused', refused' \subseteq Units,
           doubted \subseteq doubted', doubted' \subseteq Units, left' \subseteq Units,
           stranded' \subseteq Units, FlightIsSent',
           \A u \in Units : p[u] + f[u] <= 1,
           \A u \in Units \ doubted' : delivered[u] > 0 => p[u] = 0 /\ u \notin left',
           \A u \in Units \ recorded : p[u] = 0 /\ f[u] = 0 /\ u \notin refused' \cup doubted' \cup left',
           \A u \in kept : Arrived(u)' \/ p[u] + f[u] > 0,
           ~crashed => \A u \in Units \cap recorded : Arrived(u)' \/ p[u] + f[u] > 0
    PROVE  LedgerInv'
<1>1. pending' = p /\ flight' = f
    BY DEF Save, SaveThrows
<1>2. \A u \in Units : Arrived(u) => Arrived(u)'
    BY DEF Arrived
<1>3. \/ /\ file' = [pending |-> p, flight |-> f] /\ dirty' = FALSE /\ faults' = faults
         /\ kept' = kept \cup Counted(p) \cup Counted(f)
      \/ /\ file' = file /\ kept' = kept /\ dirty' \in BOOLEAN /\ faults < MaxFaults /\ faults' = faults + 1
    BY DEF Save, SaveThrows, Image
<1>4. LedgerTypes'
  <2>1. faults' \in 0 .. MaxFaults
      BY <1>3, RetainedClientAssumption DEF LedgerInv, LedgerTypes
  <2>2. dirty' \in BOOLEAN
      BY <1>3
  <2>3. kept' \subseteq Units
      BY <1>3 DEF LedgerInv, LedgerTypes, Counted
  <2>4. file' \in [pending : Counters, flight : Counters]
      BY <1>3 DEF LedgerInv, LedgerTypes
  <2> QED
      BY <1>1, <2>1, <2>2, <2>3, <2>4 DEF LedgerInv, LedgerTypes
<1>5. NowhereTwice'
  <2>1. \A u \in Units : file'.pending[u] + file'.flight[u] <= 1
      BY <1>3 DEF LedgerInv, NowhereTwice
  <2>2. \A u \in Units \ doubted' : delivered[u] <= 1
      BY DEF LedgerInv, NowhereTwice
  <2> QED
      BY <1>1, <2>1, <2>2 DEF NowhereTwice
<1>6. NowhereBefore'
  <2>1. ASSUME NEW u \in Units \ recorded
        PROVE  file'.pending[u] = 0 /\ file'.flight[u] = 0 /\ u \notin kept'
      BY <1>3 DEF LedgerInv, NowhereBefore, Counted
  <2>2. \A u \in Units \ recorded : delivered[u] = 0
      BY DEF LedgerInv, NowhereBefore
  <2> QED
      BY <1>1, <2>1, <2>2 DEF NowhereBefore
<1>7. SomewhereAlways'
  <2>1. \A u \in kept' : Arrived(u)' \/ p[u] + f[u] > 0
    <3>1. \A u \in Counted(p) \cup Counted(f) : p[u] + f[u] > 0
        BY DEF Counted, Counters
    <3> QED
        BY <1>3, <3>1
  <2>2. \A u \in kept' : Arrived(u)' \/ file'.pending[u] + file'.flight[u] > 0
    <3>1. CASE file' = [pending |-> p, flight |-> f]
        BY <2>1, <3>1
    <3>2. CASE file' = file /\ kept' = kept
        BY <1>2, <3>2 DEF LedgerInv, LedgerTypes, SomewhereAlways
    <3> QED
        BY <1>3, <3>1, <3>2
  <2> QED
      BY <1>1, <2>1, <2>2 DEF SomewhereAlways
<1> QED
    BY <1>4, <1>5, <1>6, <1>7 DEF LedgerInv

(* SaveIfDirty writes what memory holds.                                   *)
LEMMA LedgerSavedAsIs ==
    ASSUME TasksInv, LedgerInv, up, up' = TRUE, SaveIfDirty \/ SaveIfDirtyThrows,
           UNCHANGED <<recorded, crashed, delivered, refused, doubted, stranded, left>>,
           sync'.at = "flight" <=> sync.at = "flight"
    PROVE  LedgerInv'
<1>1. CASE UNCHANGED retained
    BY <1>1, LedgerUntouched DEF TasksInv, TaskTypes
<1>2. CASE Save(pending, flight) \/ SaveThrows(pending, flight)
  <2>1. pending \in Counters /\ flight \in Counters /\ stranded \subseteq Units /\ refused \subseteq Units /\ doubted \subseteq Units /\ left \subseteq Units
      BY DEF LedgerInv, LedgerTypes
  <2>2. /\ \A u \in Units : pending[u] + flight[u] <= 1
        /\ \A u \in Units \ doubted : delivered[u] > 0 => pending[u] = 0 /\ u \notin left
        /\ \A u \in Units \ recorded :
              pending[u] = 0 /\ flight[u] = 0 /\ u \notin refused \cup doubted \cup left
      BY DEF LedgerInv, NowhereTwice, NowhereBefore
  <2>3. FlightIsSent'
    <3>1. flight' = flight
        BY <1>2 DEF Save, SaveThrows
    <3> QED
        BY <3>1 DEF LedgerInv, FlightIsSent
  <2>4. /\ \A u \in kept : Arrived(u)' \/ pending[u] + flight[u] > 0
        /\ ~crashed => \A u \in Units \cap recorded : Arrived(u)' \/ pending[u] + flight[u] > 0
      BY DEF LedgerInv, SomewhereAlways, Arrived
  <2> QED
      BY <1>2, <2>1, <2>2, <2>3, <2>4, LedgerSaved
<1> QED
    BY <1>1, <1>2 DEF SaveIfDirty, SaveIfDirtyThrows

(* The application makes an increment.                                     *)
LEMMA LedgerInc ==
    ASSUME TasksInv, LedgerInv, NEW i \in Units, Inc(i)
    PROVE  LedgerInv'
<1> USE DEF LedgerInv
<1>1. /\ pending' = [pending EXCEPT ![i] = @ + 1] /\ dirty' = TRUE /\ recorded' = recorded \cup {i}
      /\ i \notin recorded /\ up
      /\ UNCHANGED <<flight, file, kept, faults, left, delivered, refused, doubted, stranded, up, crashed, sync>>
    BY DEF Inc, syncs, lifecycle, server
<1>2. pending \in Counters /\ flight \in Counters
    BY DEF LedgerTypes
<1>3. /\ pending' \in Counters /\ pending'[i] = pending[i] + 1
      /\ \A u \in Units \ {i} : pending'[u] = pending[u]
    BY <1>1, <1>2 DEF Counters
<1>4. pending[i] = 0 /\ flight[i] = 0 /\ delivered[i] = 0 /\ i \notin left /\ i \notin kept
    BY <1>1 DEF NowhereBefore
<1>5. LedgerTypes'
    BY <1>1, <1>3 DEF LedgerTypes
<1>6. NowhereTwice'
  <2>1. ASSUME NEW u \in Units
        PROVE  /\ pending'[u] + flight[u] <= 1
               /\ u \notin doubted /\ delivered[u] > 0 => pending'[u] = 0
    <3>1. CASE u = i
        BY <1>3, <1>4, <3>1
    <3>2. CASE u # i
        BY <1>3, <3>2 DEF NowhereTwice
    <3> QED
        BY <3>1, <3>2
  <2> QED
      BY <1>1, <2>1 DEF NowhereTwice
<1>7. NowhereBefore'
    BY <1>1, <1>3 DEF NowhereBefore
<1>8. FlightIsSent'
    BY <1>1 DEF FlightIsSent
<1>9. SomewhereAlways'
  <2>1. \A u \in Units : pending[u] + flight[u] > 0 => pending'[u] + flight[u] > 0
    <3>1. \A u \in Units : pending[u] \in Nat /\ flight[u] \in Nat
        BY <1>2 DEF Counters
    <3> QED
        BY <1>3, <3>1
  <2>2. pending'[i] + flight[i] > 0
      BY <1>3, <1>4
  <2>3. kept \subseteq Units
      BY DEF LedgerTypes
  <2>4. \A u \in Units : Arrived(u)' <=> Arrived(u)
      BY <1>1 DEF Arrived
  <2> QED
      BY <1>1, <2>1, <2>2, <2>3, <2>4 DEF SomewhereAlways
<1> QED
    BY <1>5, <1>6, <1>7, <1>8, <1>9

(* A flight begins: everything pending is on its way, or is stranded.      *)
LEMMA LedgerBeginFlight ==
    ASSUME TasksInv, LedgerInv, BeginFlight \/ BeginFlightThrows
    PROVE  LedgerInv'
<1>1. /\ Save(None, pending) \/ SaveThrows(None, pending)
      /\ UNCHANGED <<recorded, crashed, delivered, refused, doubted, up>> /\ up
      /\ sync.at = "retained" /\ flight = None /\ Counted(pending) # {}
    BY DEF BeginFlight, BeginFlightThrows, FlightOpens
<1>2. left = {} /\ stranded = {}
    BY <1>1, NoneCountsNothing DEF LedgerInv, FlightIsSent
<1>3. /\ pending \in Counters /\ flight \in Counters /\ refused \subseteq Units /\ doubted \subseteq Units
      /\ kept \subseteq Units
    BY DEF LedgerInv, LedgerTypes
<1>4. flight' = pending /\ Counted(pending) \subseteq Units /\ up' = TRUE
    BY <1>1 DEF Save, SaveThrows, Counted, TasksInv, TaskTypes
<1>5. \A u \in Units : None[u] = 0 /\ flight[u] = 0 /\ None[u] + pending[u] = pending[u] + flight[u]
    BY <1>1, <1>3, NoneCountsNothing DEF Counters
<1>6. left' \subseteq Counted(pending) /\ stranded' \subseteq Units /\ FlightIsSent'
  <2>1. CASE BeginFlight
    <3>1. left' = Counted(pending) /\ stranded' = {} /\ sync' = [sync EXCEPT !.at = "flight"]
        BY <1>2, <2>1 DEF BeginFlight
    <3>2. sync'.at = "flight"
        BY <3>1 DEF TasksInv, TaskTypes, Syncs
    <3>3. pending # None
        BY <1>1, NoneCountsNothing
    <3> QED
        BY <1>4, <3>1, <3>2, <3>3 DEF FlightIsSent
  <2>2. CASE BeginFlightThrows
    <3>1. left' = {} /\ stranded' = Counted(pending) /\ sync' = NoSync
        BY <1>2, <2>2 DEF BeginFlightThrows, Over
    <3> QED
        BY <1>4, <3>1, NoSyncIsASync DEF FlightIsSent
  <2> QED
      BY <2>1, <2>2
<1>7. \A u \in Units : None[u] + pending[u] <= 1
    BY <1>5 DEF LedgerInv, NowhereTwice
<1>8. \A u \in Units \ doubted' : delivered[u] > 0 => None[u] = 0 /\ u \notin left'
    BY <1>1, <1>5, <1>6 DEF LedgerInv, NowhereTwice, Counted
<1>9. \A u \in Units \ recorded :
          None[u] = 0 /\ pending[u] = 0 /\ u \notin refused' \cup doubted' \cup left'
    BY <1>1, <1>5, <1>6 DEF LedgerInv, NowhereBefore, Counted
<1>10. \A u \in kept : Arrived(u)' \/ None[u] + pending[u] > 0
    BY <1>1, <1>3, <1>5 DEF LedgerInv, SomewhereAlways, Arrived
<1>11. ~crashed => \A u \in Units \cap recorded : Arrived(u)' \/ None[u] + pending[u] > 0
    BY <1>1, <1>5 DEF LedgerInv, SomewhereAlways, Arrived
<1>12. left' \subseteq Units
    BY <1>4, <1>6
<1> QED
    BY <1>1, <1>3, <1>4, <1>6, <1>7, <1>8, <1>9, <1>10, <1>11, <1>12, NoneCountsNothing, LedgerSaved

(* The server takes envelopes of the flight.                               *)
LEMMA LedgerReceived ==
    ASSUME TasksInv, LedgerInv, NEW units \in SUBSET Units, FlightReceived(units)
    PROVE  LedgerInv'
<1> USE DEF LedgerInv
<1>1. /\ units \subseteq left /\ left' = left \ units /\ sync.at = "flight"
      /\ delivered' = [u \in Units |-> IF u \in units /\ delivered[u] < 2 THEN delivered[u] + 1 ELSE delivered[u]]
      /\ UNCHANGED <<pending, flight, dirty, file, kept, faults, refused, doubted, stranded, up, crashed>>
      /\ UNCHANGED <<sync, recorded>>
    BY DEF FlightReceived, retained, lifecycle
<1>2. /\ delivered' \in [Units -> 0 .. 2]
      /\ \A u \in units : delivered'[u] > 0
      /\ \A u \in Units : (delivered[u] > 0 => delivered'[u] > 0) /\ (u \notin units => delivered'[u] = delivered[u])
    BY <1>1 DEF LedgerTypes
<1>3. LedgerTypes'
    BY <1>1, <1>2 DEF LedgerTypes
<1>4. NowhereTwice'
  <2>1. ASSUME NEW u \in Units \ doubted
        PROVE  delivered'[u] <= 1 /\ (delivered'[u] > 0 => pending[u] = 0 /\ u \notin left')
    <3>1. CASE u \in units
      <4>1. u \in left /\ u \in Counted(flight) /\ delivered[u] \in 0 .. 2
          BY <1>1, <3>1 DEF FlightIsSent, LedgerTypes
      <4>2. delivered[u] = 0
          BY <4>1 DEF NowhereTwice
      <4>3. delivered'[u] = 1
          BY <1>1, <3>1, <4>2
      <4>4. pending[u] = 0
          BY <4>1 DEF NowhereTwice, Counted, LedgerTypes, Counters
      <4> QED
          BY <1>1, <3>1, <4>3, <4>4
    <3>2. CASE u \notin units
        BY <1>1, <1>2, <3>2 DEF NowhereTwice
    <3> QED
        BY <3>1, <3>2
  <2> QED
      BY <1>1, <2>1 DEF NowhereTwice
<1>5. NowhereBefore'
    BY <1>1, <1>2 DEF NowhereBefore
<1>6. FlightIsSent'
    BY <1>1, <1>2 DEF FlightIsSent, Counted
<1>7. SomewhereAlways'
  <2>1. \A u \in Units : Arrived(u) => Arrived(u)'
      BY <1>1, <1>2 DEF Arrived
  <2>2. kept \subseteq Units
      BY DEF LedgerTypes
  <2> QED
      BY <1>1, <2>1, <2>2 DEF SomewhereAlways
<1> QED
    BY <1>3, <1>4, <1>5, <1>6, <1>7

(* A flight that was answered or rejected is dropped: all of it arrived or *)
(* is given up.                                                            *)
LEMMA LedgerSettled ==
    ASSUME TasksInv, LedgerInv, FlightOk \/ FlightRejected
    PROVE  LedgerInv'
<1>1. /\ Save(pending, None) \/ SaveThrows(pending, None)
      /\ sync.at = "flight" /\ left' = {}
      /\ UNCHANGED <<recorded, crashed, delivered, doubted, stranded, up>> /\ up
      /\ refused' = refused \cup left
    BY DEF FlightOk, FlightRejected, Closed
<1>2. sync'.at # "flight"
  <2>1. CASE FlightOk
    <3>1. EndPass(TRUE) \/ Over(FALSE)
        BY <2>1 DEF FlightOk, Closed
    <3>2. sync' = [sync EXCEPT !.pass = 2, !.at = "await"] \/ sync' = NoSync
        BY <3>1, PassEnds DEF TasksInv, Over
    <3> QED
        BY <3>2, NoSyncIsASync DEF TasksInv, TaskTypes, Syncs
  <2>2. CASE FlightRejected
      BY <2>2, NoSyncIsASync DEF FlightRejected, Over
  <2> QED
      BY <2>1, <2>2
<1>3. /\ pending \in Counters /\ flight \in Counters /\ refused \subseteq Units /\ doubted \subseteq Units
      /\ kept \subseteq Units /\ left \subseteq Units
    BY DEF LedgerInv, LedgerTypes
<1>4. \A u \in Units : pending[u] \in Nat /\ flight[u] \in Nat /\ None[u] = 0
    BY <1>3, NoneCountsNothing DEF Counters
<1>5. \A u \in Units : flight[u] > 0 => Arrived(u)'
    BY <1>1 DEF LedgerInv, FlightIsSent, Arrived, Counted
<1>6. \A u \in Units : Arrived(u) => Arrived(u)'
    BY <1>1 DEF Arrived
<1>7. \A u \in Units : pending[u] + None[u] <= 1
    BY <1>4 DEF LedgerInv, NowhereTwice
<1>8. \A u \in Units \ doubted' : delivered[u] > 0 => pending[u] = 0 /\ u \notin left'
    BY <1>1 DEF LedgerInv, NowhereTwice
<1>9. \A u \in Units \ recorded :
          pending[u] = 0 /\ None[u] = 0 /\ u \notin refused' \cup doubted' \cup left'
    BY <1>1, <1>4 DEF LedgerInv, NowhereBefore
<1>10. \A u \in kept : Arrived(u)' \/ pending[u] + None[u] > 0
    BY <1>1, <1>3, <1>4, <1>5, <1>6 DEF LedgerInv, SomewhereAlways
<1>11. ~crashed => \A u \in Units \cap recorded : Arrived(u)' \/ pending[u] + None[u] > 0
    BY <1>1, <1>4, <1>5, <1>6 DEF LedgerInv, SomewhereAlways
<1>12. up' = TRUE /\ refused \subseteq refused' /\ refused' \subseteq Units
    BY <1>1, <1>3 DEF TasksInv, TaskTypes
<1>13. stranded' = {} /\ FlightIsSent'
  <2>1. stranded' = {} /\ flight' = None
      BY <1>1 DEF LedgerInv, FlightIsSent, Save, SaveThrows
  <2> QED
      BY <1>1, <1>2, <2>1, NoneCountsNothing DEF FlightIsSent
<1> QED
    BY <1>1, <1>3, <1>7, <1>8, <1>9, <1>10, <1>11, <1>12, <1>13, NoneCountsNothing, LedgerSaved

(* A flight that failed, or was found in the file, is pending again.       *)
LEMMA LedgerFlightFails ==
    ASSUME TasksInv, LedgerInv, FlightFails
    PROVE  LedgerInv'
<1> DEFINE p == Restored(pending, flight)
<1>1. /\ Save(p, None) \/ SaveThrows(p, None)
      /\ sync.at = "flight" /\ left' = {}
      /\ UNCHANGED <<recorded, crashed, delivered, refused, stranded, up>> /\ up
      /\ doubted' = doubted \cup Counted(flight) /\ sync' = NoSync
    BY DEF FlightFails, Over
<1>2. /\ pending \in Counters /\ flight \in Counters /\ refused \subseteq Units /\ doubted \subseteq Units
      /\ kept \subseteq Units
    BY DEF LedgerInv, LedgerTypes
<1>3. p \in Counters /\ \A u \in Units : p[u] = pending[u] + flight[u] /\ None[u] = 0
    BY <1>2, SumsAdd, NoneCountsNothing DEF Restored
<1>4. \A u \in Units : pending[u] \in Nat /\ flight[u] \in Nat /\ p[u] \in Nat
    BY <1>2, <1>3 DEF Counters
<1> HIDE DEF p
<1>5. \A u \in Units : p[u] + None[u] <= 1
    BY <1>3, <1>4 DEF LedgerInv, NowhereTwice
<1>6. \A u \in Units \ doubted' : delivered[u] > 0 => p[u] = 0 /\ u \notin left'
    BY <1>1, <1>3, <1>4 DEF LedgerInv, NowhereTwice, Counted
<1>7. \A u \in Units \ recorded : p[u] = 0 /\ None[u] = 0 /\ u \notin refused' \cup doubted' \cup left'
    BY <1>1, <1>3 DEF LedgerInv, NowhereBefore, Counted
<1>8. \A u \in kept : Arrived(u)' \/ p[u] + None[u] > 0
    BY <1>1, <1>2, <1>3, <1>4 DEF LedgerInv, SomewhereAlways, Arrived
<1>9. ~crashed => \A u \in Units \cap recorded : Arrived(u)' \/ p[u] + None[u] > 0
    BY <1>1, <1>3, <1>4 DEF LedgerInv, SomewhereAlways, Arrived
<1>10. /\ up' = TRUE /\ doubted' \subseteq Units /\ None \in Counters
       /\ stranded' = {} /\ FlightIsSent'
  <2>1. flight' = None /\ stranded' = {} /\ up' = TRUE
      BY <1>1 DEF TasksInv, TaskTypes, LedgerInv, FlightIsSent, Save, SaveThrows
  <2>2. FlightIsSent'
      BY <1>1, <2>1, NoneCountsNothing, NoSyncIsASync DEF FlightIsSent
  <2> QED
      BY <1>1, <1>2, <2>1, <2>2, NoneCountsNothing DEF Counted
<1> QED
    BY <1>1, <1>2, <1>3, <1>5, <1>6, <1>7, <1>8, <1>9, <1>10, LedgerSaved

LEMMA LedgerRestart ==
    ASSUME TasksInv, LedgerInv, Restart
    PROVE  LedgerInv'
<1> DEFINE p == Loaded(file)
<1>1. /\ Save(p, None) /\ UNCHANGED <<recorded, crashed, delivered, refused, stranded, left, sync>> /\ up' = TRUE
      /\ ~up /\ doubted' = doubted \cup Counted(p)
    BY DEF Restart
<1>2. /\ file.pending \in Counters /\ file.flight \in Counters /\ refused \subseteq Units
      /\ doubted \subseteq Units /\ kept \subseteq Units
    BY DEF LedgerInv, LedgerTypes
<1>3. p \in Counters /\ \A u \in Units : p[u] = file.pending[u] + file.flight[u] /\ None[u] = 0
    BY <1>2, SumsAdd, NoneCountsNothing DEF Loaded
<1>4. \A u \in Units : p[u] \in Nat
    BY <1>3 DEF Counters
<1> HIDE DEF p
<1>5. crashed /\ left = {} /\ stranded' = {} /\ FlightIsSent'
  <2>1. /\ crashed /\ sync'.at # "flight" /\ left = {} /\ stranded' = {} /\ flight' = None /\ left' = {}
      BY <1>1, NoSyncIsASync DEF TasksInv, TaskOrder, LedgerInv, FlightIsSent, Save
  <2> QED
      BY <2>1, NoneCountsNothing DEF FlightIsSent
<1>6. \A u \in Units : p[u] + None[u] <= 1
    BY <1>3, <1>4 DEF LedgerInv, NowhereTwice
<1>7. \A u \in Units \ doubted' : delivered[u] > 0 => p[u] = 0 /\ u \notin left'
    BY <1>1, <1>4, <1>5 DEF Counted
<1>8. \A u \in Units \ recorded : p[u] = 0 /\ None[u] = 0 /\ u \notin refused' \cup doubted' \cup left'
    BY <1>1, <1>3 DEF LedgerInv, NowhereBefore, Counted
<1>9. \A u \in kept : Arrived(u)' \/ p[u] + None[u] > 0
    BY <1>1, <1>2, <1>3, <1>4 DEF LedgerInv, SomewhereAlways, Arrived
<1>10. doubted' \subseteq Units /\ None \in Counters
    BY <1>1, <1>2, NoneCountsNothing DEF Counted
<1> QED
    BY <1>1, <1>2, <1>3, <1>5, <1>6, <1>7, <1>8, <1>9, <1>10, LedgerSaved

LEMMA LedgerCrash ==
    ASSUME TasksInv, LedgerInv, Crash
    PROVE  LedgerInv'
<1> USE DEF LedgerInv
<1>1. /\ pending' = None /\ flight' = None /\ left' = {} /\ dirty' = FALSE /\ up' = FALSE /\ sync' = NoSync
      /\ stranded' = {}
      /\ faults < MaxFaults /\ faults' = faults + 1
      /\ UNCHANGED <<file, kept, delivered, refused, doubted, recorded>>
    BY DEF Crash
<1>2. LedgerTypes'
  <2>1. dirty' \in BOOLEAN
      BY <1>1
  <2>2. faults' \in 0 .. MaxFaults
      BY <1>1, RetainedClientAssumption DEF LedgerTypes
  <2> QED
      BY <1>1, <2>1, <2>2, NoneCountsNothing DEF LedgerTypes
<1>3. NowhereTwice'
    BY <1>1, NoneCountsNothing DEF NowhereTwice
<1>4. NowhereBefore'
    BY <1>1, NoneCountsNothing DEF NowhereBefore
<1>5. FlightIsSent'
    BY <1>1, NoneCountsNothing, NoSyncIsASync DEF FlightIsSent
<1>6. SomewhereAlways'
    BY <1>1 DEF SomewhereAlways, Arrived
<1> QED
    BY <1>2, <1>3, <1>4, <1>5, <1>6

(* Every other step: it writes memory as it is, or nothing.                *)
LEMMA LedgerElsewhere ==
    ASSUME TasksInv, LedgerInv,
           \/ \E e \in Events : Event(e)
           \/ FlushAsync \/ Suspend \/ SyncTick \/ AggregateTick
           \/ SnapshotStart \/ SnapshotCapture \/ SnapshotCommit \/ SnapshotFails
           \/ SyncStart \/ TakePendingFrames \/ PostOk \/ PostFails \/ NoFlight
           \/ ShutdownAsync \/ FinalSync \/ ShutdownDone \/ Stop
           \/ UNCHANGED vars
    PROVE  LedgerInv'
<1>1. sync \in Syncs /\ (sync.at = "idle" => sync = NoSync)
    BY DEF TasksInv, TaskTypes, TaskOrder
<1>2. CASE \/ \E e \in Events : Event(e)
           \/ FlushAsync \/ SyncTick \/ AggregateTick \/ SnapshotStart \/ SnapshotCommit
           \/ SnapshotFails /\ UNCHANGED retained
           \/ ShutdownAsync \/ UNCHANGED vars
  <2>1. /\ UNCHANGED <<retained, left, delivered, refused, doubted, stranded, up, crashed, sync>>
        /\ recorded \subseteq recorded' /\ recorded' \subseteq recorded \cup Events
      BY <1>2 DEF Event, FlushAsync, SyncTick, AggregateTick, SnapshotStart, SnapshotCommit, SnapshotFails,
                  ShutdownAsync, vars, syncs, lifecycle, server
  <2> QED
      BY <2>1, LedgerUntouched
<1>3. CASE SyncStart \/ TakePendingFrames \/ PostOk \/ PostFails \/ NoFlight \/ FinalSync
  <2>1. UNCHANGED <<retained, left, delivered, refused, doubted, stranded, up, crashed, recorded>>
      BY <1>3 DEF SyncStart, TakePendingFrames, PostOk, PostFails, NoFlight, FinalSync, lifecycle, server
  <2>2. sync.at # "flight"
    <3>1. sync.at \in {"idle", "await", "post", "retained"}
        BY <1>3 DEF SyncStart, TakePendingFrames, PostOk, PostFails, NoFlight, FinalSync, Settled
    <3> QED
        BY <3>1
  <2>3. sync'.at # "flight"
    <3>1. CASE SyncStart
      <4> DEFINE s == [NoSync EXCEPT !.flags = queuedSync, !.wasAligned = aligned]
      <4>1. CASE sync' = sync
          BY <2>2, <4>1
      <4>2. CASE BeginPass(s)
        <5>1. sync' = [s EXCEPT !.at = "await"]
            BY <4>2 DEF BeginPass
        <5> QED
            BY <5>1 DEF NoSync
      <4> QED
          BY <3>1, <4>1, <4>2 DEF SyncStart
    <3>2. CASE TakePendingFrames \/ PostOk
      <4>1. PICK at \in {"post", "retained"} : sync' = [sync EXCEPT !.at = at]
          BY <3>2 DEF TakePendingFrames, PostOk
      <4> QED
          BY <1>1, <4>1 DEF Syncs
    <3>3. CASE PostFails
        BY <3>3, NoSyncIsASync DEF PostFails, Over
    <3>4. CASE NoFlight
      <4>1. EndPass(aligned) /\ aligned \in BOOLEAN
          BY <3>4 DEF NoFlight, TasksInv, TaskTypes
      <4>2. sync' = [sync EXCEPT !.pass = 2, !.at = "await"] \/ sync' = NoSync
          BY <4>1, PassEnds DEF TasksInv, Over
      <4> QED
          BY <1>1, <4>2, NoSyncIsASync DEF Syncs
    <3>5. CASE FinalSync
        BY <3>5 DEF FinalSync, BeginPass, NoSync
    <3> QED
        BY <1>3, <3>1, <3>2, <3>3, <3>4, <3>5
  <2> QED
      BY <2>1, <2>2, <2>3, LedgerUntouched
<1>4. CASE Suspend \/ SnapshotCapture \/ (SnapshotFails /\ SaveIfDirtyThrows) \/ ShutdownDone \/ Stop
  <2>1. /\ up /\ (SaveIfDirty \/ SaveIfDirtyThrows) /\ up' = up
        /\ UNCHANGED <<recorded, crashed, delivered, refused, doubted, stranded, left, sync>>
      BY <1>4 DEF Suspend, SnapshotCapture, SnapshotFails, ShutdownDone, Stop, syncs, lifecycle, server
  <2>2. up' = TRUE
      BY <2>1 DEF TasksInv, TaskTypes
  <2> QED
      BY <2>1, <2>2, LedgerSavedAsIs
<1>5. SnapshotFails => UNCHANGED retained \/ SaveIfDirtyThrows
    BY DEF SnapshotFails
<1> QED
    BY <1>2, <1>3, <1>4, <1>5

LEMMA LedgerInvHolds == Spec => [](TasksInv /\ LedgerInv)
<1>1. TasksInv /\ LedgerInv /\ [Next]_vars => LedgerInv'
  <2> SUFFICES ASSUME TasksInv, LedgerInv, [Next]_vars PROVE LedgerInv'
      OBVIOUS
  <2> QED
      BY LedgerInc, LedgerBeginFlight, LedgerReceived, LedgerSettled, LedgerFlightFails, LedgerCrash,
         LedgerRestart, LedgerElsewhere
         DEF Next
<1> QED
    BY <1>1, TasksInvHolds, LedgerInvInit, PTL DEF Spec

-----------------------------------------------------------------------------
(* What was recorded before ShutdownAsync.                                 *)

EventTypes ==
    /\ buffer \subseteq Events /\ opened \subseteq Events /\ frames \subseteq Events
    /\ hand \subseteq Events /\ sent \subseteq Events /\ lost \subseteq Events
    /\ promised \subseteq recorded

(* An event is in one of the stores on its way, and a store that belongs   *)
(* to a task is empty when the task does not run.                          *)
EventsAreKept ==
    /\ snapshot # "split" => opened = {}
    /\ sync.at # "post" => hand = {}
    /\ ~framesHeld => frames = {}
    /\ ~crashed => recorded \cap Events \subseteq buffer \cup opened \cup frames \cup hand \cup sent \cup lost

(* The pass of the final sync that knew the time when it asked for its     *)
(* snapshot takes everything that was promised.                            *)
Taking == sync.final /\ (sync.wasAligned \/ sync.pass = 2) /\ ~missed
PromiseIsTaken ==
    /\ Taking /\ sync.at = "await" /\ ~snapshotQueued /\ snapshot # "started" =>
           promised \cap buffer = {}
    /\ Taking /\ sync.at \in {"post", "retained", "flight"} =>
           promised \cap (buffer \cup opened \cup frames) = {}
    /\ shutdown \in {"closing", "done"} /\ finalOk /\ ~missed =>
           promised \cap (buffer \cup opened \cup frames \cup hand) = {}

(* The flight of the final sync takes every promised increment, unless a   *)
(* stranded one is in its place.                                           *)
PromiseIsFlown ==
    /\ sync.final /\ sync.at = "flight" => \A u \in promised \cap Units : pending[u] = 0
    /\ shutdown \in {"closing", "done"} /\ finalOk /\ stranded = {} => \A u \in promised \cap Units : pending[u] = 0

PromiseInv == EventTypes /\ EventsAreKept /\ PromiseIsTaken /\ PromiseIsFlown

LEMMA PromiseInvInit == Init => PromiseInv
<1> SUFFICES ASSUME Init PROVE PromiseInv
    OBVIOUS
<1>1. EventTypes
    BY DEF Init, EventTypes
<1>2. EventsAreKept
    BY DEF Init, EventsAreKept
<1>3. PromiseIsTaken
    BY DEF Init, PromiseIsTaken
<1>4. PromiseIsFlown
    BY DEF Init, PromiseIsFlown
<1> QED
    BY <1>1, <1>2, <1>3, <1>4 DEF PromiseInv

(* SaveIfDirty leaves the counters as they are.                            *)
LEMMA SavingChangesNothing ==
    SaveIfDirty \/ SaveIfDirtyThrows => pending' = pending /\ flight' = flight
BY DEF SaveIfDirty, SaveIfDirtyThrows, Save, SaveThrows, retained

(* Recording: what is recorded now was not promised.                       *)
LEMMA PromiseRecord ==
    ASSUME TasksInv, LedgerInv, PromiseInv, (\E u \in Units : Inc(u)) \/ (\E e \in Events : Event(e))
    PROVE  PromiseInv'
<1> USE DEF PromiseInv
<1>1. /\ UNCHANGED <<opened, frames, framesHeld, lost, hand, sent, sync, snapshot, snapshotQueued>>
      /\ UNCHANGED <<promised, shutdown, finalOk, missed, crashed, stranded>>
    BY DEF Inc, Event, capture, snapshots, syncs, lifecycle, server
<1>2. CASE \E u \in Units : Inc(u)
  <2>1. PICK u \in Units : Inc(u)
      BY <1>2
  <2>2. /\ pending' = [pending EXCEPT ![u] = @ + 1] /\ recorded' = recorded \cup {u} /\ u \notin recorded
        /\ buffer' = buffer
      BY <2>1 DEF Inc, capture
  <2>3. EventTypes' /\ EventsAreKept'
      BY <1>1, <2>2, RetainedClientAssumption DEF EventTypes, EventsAreKept
  <2>4. PromiseIsTaken'
      BY <1>1, <2>2 DEF PromiseIsTaken, Taking
  <2>5. \A q \in promised \cap Units : pending'[q] = pending[q]
      BY <2>2 DEF EventTypes, LedgerInv, LedgerTypes, Counters
  <2>6. PromiseIsFlown'
      BY <1>1, <2>5 DEF PromiseIsFlown
  <2> QED
      BY <2>3, <2>4, <2>6
<1>3. CASE \E e \in Events : Event(e)
  <2>1. PICK e \in Events : Event(e)
      BY <1>3
  <2>2. buffer' = buffer \cup {e} /\ recorded' = recorded \cup {e} /\ e \notin recorded /\ pending' = pending
      BY <2>1 DEF Event, retained
  <2>3. EventTypes' /\ EventsAreKept'
      BY <1>1, <2>2 DEF EventTypes, EventsAreKept
  <2>4. promised \cap buffer' = promised \cap buffer
      BY <2>2 DEF EventTypes
  <2>5. PromiseIsTaken'
      BY <1>1, <2>4 DEF PromiseIsTaken, Taking
  <2>6. PromiseIsFlown'
      BY <1>1, <2>2 DEF PromiseIsFlown
  <2> QED
      BY <2>3, <2>5, <2>6
<1> QED
    BY <1>2, <1>3

(* Requests, ticks, stop and the end of the shutdown move nothing.         *)
LEMMA PromiseAsIs ==
    ASSUME TasksInv, LedgerInv, PromiseInv,
           \/ FlushAsync \/ Suspend \/ SyncTick \/ AggregateTick \/ SnapshotStart
           \/ ShutdownDone \/ Stop \/ UNCHANGED vars
           \/ \E units \in SUBSET Units : FlightReceived(units)
    PROVE  PromiseInv'
<1> USE DEF PromiseInv
<1>1. /\ UNCHANGED <<buffer, opened, frames, framesHeld, lost, hand, sent, recorded, sync>>
      /\ UNCHANGED <<promised, finalOk, missed, crashed, stranded>>
    BY DEF FlushAsync, Suspend, SyncTick, AggregateTick, SnapshotStart, ShutdownDone, Stop, FlightReceived,
           vars, capture, snapshots, syncs, lifecycle, server
<1>2. pending' = pending
    BY SavingChangesNothing
       DEF FlushAsync, Suspend, SyncTick, AggregateTick, SnapshotStart, ShutdownDone, Stop, FlightReceived,
           vars, retained
<1>3. \/ UNCHANGED <<snapshot, snapshotQueued>>
      \/ snapshot' = snapshot /\ snapshotQueued'
      \/ snapshot = "idle" /\ snapshot' = "started"
    BY DEF FlushAsync, Suspend, SyncTick, AggregateTick, SnapshotStart, ShutdownDone, Stop, FlightReceived,
           vars, snapshots
<1>4. shutdown' \in {"closing", "done"} => shutdown \in {"closing", "done"}
    BY DEF FlushAsync, Suspend, SyncTick, AggregateTick, SnapshotStart, ShutdownDone, Stop, FlightReceived,
           vars, lifecycle
<1>5. EventTypes' /\ EventsAreKept'
    BY <1>1, <1>3 DEF EventTypes, EventsAreKept
<1>6. PromiseIsTaken'
    BY <1>1, <1>3, <1>4 DEF PromiseIsTaken, Taking
<1>7. PromiseIsFlown'
    BY <1>1, <1>2, <1>4 DEF PromiseIsFlown
<1> QED
    BY <1>5, <1>6, <1>7

(* A snapshot moves events on, or gives them up and counts them.           *)
LEMMA PromiseSnapshot ==
    ASSUME TasksInv, LedgerInv, PromiseInv, SnapshotCapture \/ SnapshotCommit \/ SnapshotFails
    PROVE  PromiseInv'
<1> USE DEF PromiseInv
<1>1. /\ UNCHANGED <<hand, sent, recorded, sync, promised, finalOk, crashed, snapshotQueued, shutdown>>
      /\ UNCHANGED stranded
      /\ snapshot # "idle" /\ pending' = pending
    BY SavingChangesNothing
       DEF SnapshotCapture, SnapshotCommit, SnapshotFails, lifecycle, server, capture, retained
<1>2. PromiseIsFlown'
    BY <1>1 DEF PromiseIsFlown
<1>3. CASE SnapshotCapture
  <2>1. /\ snapshot = "started" /\ missed' = missed /\ lost' = lost /\ frames' = frames
        /\ framesHeld' = framesHeld
        /\ \/ aligned /\ snapshot' = "split" /\ opened' = buffer /\ buffer' = {}
           \/ /\ ~aligned \/ buffer = {}
              /\ snapshot' = "idle" /\ UNCHANGED <<buffer, opened>>
      BY <1>3 DEF SnapshotCapture, Completed, capture, lifecycle
  <2>2. opened = {} /\ opened' \cup buffer' = opened \cup buffer
      BY <2>1 DEF EventsAreKept
  <2>3. EventTypes' /\ EventsAreKept'
      BY <1>1, <2>1, <2>2 DEF EventTypes, EventsAreKept
  <2>4. Taking => aligned
      BY DEF Taking, TasksInv, TaskOrder
  <2>5. PromiseIsTaken'
      BY <1>1, <2>1, <2>2, <2>4 DEF PromiseIsTaken, Taking
  <2> QED
      BY <1>2, <2>3, <2>5
<1>4. CASE SnapshotCommit
  <2>1. /\ snapshot = "split" /\ snapshot' = "idle" /\ missed' = missed /\ buffer' = buffer
        /\ opened' = {} /\ framesHeld' = TRUE
        /\ frames' \subseteq frames \cup opened /\ lost' \subseteq lost \cup frames \cup opened
        /\ lost \cup frames \cup opened \subseteq lost' \cup frames'
      BY <1>4 DEF SnapshotCommit, Completed, lifecycle
  <2>2. EventTypes'
      BY <1>1, <2>1 DEF EventTypes
  <2>3. EventsAreKept'
      BY <1>1, <2>1 DEF EventsAreKept
  <2>4. PromiseIsTaken'
      BY <1>1, <2>1 DEF PromiseIsTaken, Taking
  <2> QED
      BY <1>2, <2>2, <2>3, <2>4
<1>5. CASE SnapshotFails
  <2>1. /\ snapshot' = "idle" /\ opened' = {} /\ lost' = lost \cup opened
        /\ missed' = (missed \/ (snapshot = "started" /\ shutdown = "flushing"))
        /\ UNCHANGED <<buffer, frames, framesHeld>>
      BY <1>5 DEF SnapshotFails, Completed
  <2>2. EventTypes'
      BY <1>1, <2>1 DEF EventTypes
  <2>3. EventsAreKept'
      BY <1>1, <2>1 DEF EventsAreKept
  <2>4. sync.final => shutdown = "flushing"
      BY DEF TasksInv, FinalIsLast
  <2>5. PromiseIsTaken'
      BY <1>1, <2>1, <2>4 DEF PromiseIsTaken, Taking
  <2> QED
      BY <1>2, <2>2, <2>3, <2>5
<1> QED
    BY <1>3, <1>4, <1>5

(* A sync that fails is no answer to ShutdownAsync.                        *)
LEMMA PromiseSyncFails ==
    ASSUME TasksInv, LedgerInv, PromiseInv,
           \/ PostFails \/ BeginFlightThrows \/ FlightRejected \/ FlightFails
           \/ FlightOk /\ Over(FALSE)
    PROVE  PromiseInv'
<1> USE DEF PromiseInv
<1>1. /\ sync' = NoSync /\ hand' = {}
      /\ (sync.final => ~finalOk') /\ (~sync.final => shutdown' = shutdown)
    BY DEF PostFails, BeginFlightThrows, FlightOpens, FlightRejected, FlightFails, FlightOk, Over, EventsAreKept
<1>2. /\ UNCHANGED <<buffer, opened, frames, framesHeld, recorded, promised, missed, crashed, snapshot>>
      /\ sync.at # "idle"
    BY DEF PostFails, BeginFlightThrows, FlightOpens, FlightRejected, FlightFails, FlightOk, capture, snapshots
<1>3. /\ sent \subseteq sent' /\ lost \subseteq lost' /\ hand \subseteq sent' \cup lost'
      /\ sent' \subseteq Events /\ lost' \subseteq Events
  <2>1. CASE PostFails
      BY <2>1 DEF PostFails, EventTypes
  <2>2. CASE BeginFlightThrows \/ FlightRejected \/ FlightFails \/ FlightOk
      BY <2>2 DEF BeginFlightThrows, FlightOpens, FlightRejected, FlightFails, FlightOk, capture, EventTypes,
                  EventsAreKept
  <2> QED
      BY <2>1, <2>2
<1>4. EventTypes'
    BY <1>1, <1>2, <1>3 DEF EventTypes
<1>5. EventsAreKept'
    BY <1>1, <1>2, <1>3 DEF EventsAreKept
<1>6. ~sync'.final /\ sync'.at = "idle"
    BY <1>1, NoSyncIsASync
<1>7. ~(shutdown' \in {"closing", "done"} /\ finalOk')
    BY <1>1, <1>2 DEF TasksInv, FinalIsLast
<1>8. PromiseIsTaken' /\ PromiseIsFlown'
    BY <1>6, <1>7 DEF PromiseIsTaken, PromiseIsFlown, Taking
<1> QED
    BY <1>4, <1>5, <1>8

(* A pass that ends well, with or without a flight.                        *)
LEMMA PromisePassEnds ==
    ASSUME TasksInv, LedgerInv, PromiseInv, NoFlight \/ (FlightOk /\ EndPass(TRUE))
    PROVE  PromiseInv'
<1> USE DEF PromiseInv
<1>1. /\ UNCHANGED <<buffer, opened, frames, framesHeld, lost, hand, sent, recorded, promised>>
      /\ UNCHANGED <<missed, crashed, snapshot, stranded>>
      /\ pending' = pending /\ sync.at \in {"retained", "flight"} /\ sync \in Syncs
    BY DEF NoFlight, FlightOk, Closed, Save, SaveThrows, capture, server, retained, TasksInv, TaskTypes
<1>2. hand = {}
    BY <1>1 DEF EventsAreKept
<1>3. EventTypes' /\ EventsAreKept'
    BY <1>1, <1>2 DEF EventTypes, EventsAreKept
<1>4. PICK known \in BOOLEAN : EndPass(known) /\ (aligned => known)
    BY DEF NoFlight, FlightOk, TasksInv, TaskTypes
<1>5. CASE /\ sync' = [sync EXCEPT !.pass = 2, !.at = "await"]
           /\ snapshotQueued' /\ UNCHANGED <<shutdown, finalOk>>
  <2>1. sync'.at = "await" /\ sync'.final = sync.final
      BY <1>1, <1>5 DEF Syncs
  <2>2. ~(shutdown' \in {"closing", "done"})
      BY <1>1, <1>5 DEF TasksInv, FinalIsLast
  <2>3. PromiseIsTaken' /\ PromiseIsFlown'
      BY <1>5, <2>1, <2>2 DEF PromiseIsTaken, PromiseIsFlown, Taking
  <2> QED
      BY <1>3, <2>3
<1>6. CASE /\ ~(sync.pass = 1 /\ ~sync.wasAligned /\ sync.flags # {} /\ known)
           /\ Over(TRUE)
  <2>1. sync' = NoSync /\ ~sync'.final /\ sync'.at = "idle"
      BY <1>6, NoSyncIsASync DEF Over
  <2>2. CASE ~sync.final
    <3>1. ~(shutdown' \in {"closing", "done"})
        BY <1>1, <1>6, <2>2 DEF Over, TasksInv, FinalIsLast
    <3> QED
        BY <1>3, <2>1, <3>1 DEF PromiseIsTaken, PromiseIsFlown, Taking
  <2>3. CASE sync.final
    <3>1. aligned /\ sync.flags # {} /\ snapshot = "idle"
        BY <1>1, <2>3 DEF TasksInv, FinalIsLast
    <3>2. sync.wasAligned \/ sync.pass = 2
        BY <1>1, <1>4, <1>6, <3>1 DEF Syncs
    <3>3. ~missed => promised \cap (buffer \cup opened \cup frames) = {}
        BY <1>1, <2>3, <3>2 DEF PromiseIsTaken, Taking
    <3>4. stranded = {} => \A u \in promised \cap Units : pending[u] = 0
      <4>1. CASE NoFlight /\ stranded = {}
        <5>1. Counted(flight) = {} /\ flight \in Counters
            BY <4>1 DEF NoFlight, LedgerInv, LedgerTypes, FlightIsSent
        <5>2. flight = None
            BY <5>1, NoneCountsNothing
        <5>3. Counted(pending) = {}
            BY <3>1, <4>1, <5>2 DEF NoFlight, MayFly
        <5> QED
            BY <5>3 DEF Counted, LedgerInv, LedgerTypes, Counters
      <4>2. CASE FlightOk
          BY <2>3, <4>2 DEF FlightOk, PromiseIsFlown
      <4> QED
          BY <4>1, <4>2
    <3> QED
        BY <1>1, <1>2, <1>3, <2>1, <3>3, <3>4 DEF PromiseIsTaken, PromiseIsFlown, Taking
  <2> QED
      BY <2>2, <2>3
<1> QED
    BY <1>4, <1>5, <1>6, PassEnds DEF TasksInv

(* The sync up to the answer of its frames, and the start of a flight.     *)
LEMMA PromiseSync ==
    ASSUME TasksInv, LedgerInv, PromiseInv,
           SyncStart \/ TakePendingFrames \/ PostOk \/ BeginFlight
    PROVE  PromiseInv'
<1> USE DEF PromiseInv
<1>1. /\ UNCHANGED <<buffer, opened, lost, recorded, promised, missed, crashed, snapshot, shutdown, finalOk>>
      /\ sync \in Syncs
    BY DEF SyncStart, TakePendingFrames, PostOk, BeginFlight, FlightOpens, capture, snapshots, lifecycle,
           TasksInv, TaskTypes
<1>2. CASE SyncStart
  <2>1. UNCHANGED <<frames, framesHeld, hand, sent, pending>> /\ sync.at = "idle" /\ queuedSync # Nil
      BY <1>2 DEF SyncStart, capture, server, retained
  <2>2. /\ shutdown \notin {"flushing", "closing", "done"} /\ ~sync.final
      BY <2>1 DEF TasksInv, FinalIsLast
  <2>3. ~sync'.final /\ sync'.at # "post"
    <3> DEFINE s == [NoSync EXCEPT !.flags = queuedSync, !.wasAligned = aligned]
    <3>1. CASE sync' = sync
        BY <2>1, <2>2, <3>1
    <3>2. CASE BeginPass(s)
      <4>1. sync' = [s EXCEPT !.at = "await"]
          BY <3>2 DEF BeginPass
      <4> QED
          BY <4>1 DEF NoSync
    <3> QED
        BY <1>2, <3>1, <3>2 DEF SyncStart
  <2>4. EventTypes' /\ EventsAreKept'
      BY <1>1, <2>1, <2>3 DEF EventTypes, EventsAreKept
  <2>5. PromiseIsTaken' /\ PromiseIsFlown'
      BY <1>1, <2>2, <2>3 DEF PromiseIsTaken, PromiseIsFlown, Taking
  <2> QED
      BY <2>4, <2>5
<1>3. CASE TakePendingFrames
  <2>1. /\ sync.at = "await" /\ awaited = 0 /\ hand' = frames /\ frames' = {} /\ framesHeld' = FALSE
        /\ UNCHANGED <<sent, pending, snapshotQueued>>
      BY <1>3 DEF TakePendingFrames, server, retained, snapshots
  <2>2. PICK at \in {"post", "retained"} :
            sync' = [sync EXCEPT !.at = at] /\ (at = "retained" => ~framesHeld)
      BY <1>3 DEF TakePendingFrames
  <2>3. /\ sync'.at = at /\ sync'.final = sync.final /\ sync'.pass = sync.pass
        /\ sync'.wasAligned = sync.wasAligned
      BY <1>1, <2>2 DEF Syncs
  <2>4. hand = {} /\ (at = "retained" => hand' = {})
      BY <2>1, <2>2 DEF EventsAreKept
  <2>5. EventTypes' /\ EventsAreKept'
      BY <1>1, <2>1, <2>3, <2>4 DEF EventTypes, EventsAreKept
  <2>6. sync.final => snapshot = "idle" /\ ~snapshotQueued
      BY <2>1 DEF TasksInv, TaskTypes, FinalIsLast, Running, Queued
  <2>7. snapshot = "idle" => opened = {}
      BY DEF EventsAreKept
  <2>8. shutdown \notin {"closing", "done"}
      BY <2>1 DEF TasksInv, FinalIsLast
  <2>9. PromiseIsTaken'
      BY <1>1, <2>1, <2>3, <2>6, <2>7, <2>8 DEF PromiseIsTaken, Taking
  <2>10. PromiseIsFlown'
      BY <1>1, <2>2, <2>3, <2>8 DEF PromiseIsFlown
  <2> QED
      BY <2>5, <2>9, <2>10
<1>4. CASE PostOk \/ BeginFlight
  <2>1. /\ UNCHANGED <<frames, framesHeld, snapshotQueued>> /\ sync.at \in {"post", "retained"}
        /\ sent' = sent \cup hand /\ hand' = {}
    <3>1. CASE PostOk
        BY <3>1 DEF PostOk, capture, snapshots
    <3>2. CASE BeginFlight
        BY <3>2 DEF BeginFlight, FlightOpens, snapshots, EventsAreKept
    <3> QED
        BY <1>4, <3>1, <3>2
  <2>2. PICK at \in {"retained", "flight"} : sync' = [sync EXCEPT !.at = at]
      BY <1>4 DEF PostOk, BeginFlight
  <2>3. /\ sync'.at = at /\ sync'.final = sync.final /\ sync'.pass = sync.pass
        /\ sync'.wasAligned = sync.wasAligned
      BY <1>1, <2>2 DEF Syncs
  <2>4. at = "flight" => pending' = None
      BY <1>1, <1>4, <2>2 DEF PostOk, BeginFlight, Save, Syncs
  <2>5. EventTypes' /\ EventsAreKept'
      BY <1>1, <2>1, <2>3 DEF EventTypes, EventsAreKept
  <2>6. shutdown \notin {"closing", "done"}
      BY <2>1 DEF TasksInv, FinalIsLast
  <2>7. PromiseIsTaken'
      BY <1>1, <2>1, <2>3, <2>6 DEF PromiseIsTaken, Taking
  <2>8. PromiseIsFlown'
      BY <1>1, <2>3, <2>4, <2>6, NoneCountsNothing DEF PromiseIsFlown
  <2> QED
      BY <2>5, <2>7, <2>8
<1> QED
    BY <1>2, <1>3, <1>4

(* The promise is made, its sync begins; a kill takes it back.             *)
LEMMA PromiseBeginsAndEnds ==
    ASSUME TasksInv, LedgerInv, PromiseInv, ShutdownAsync \/ FinalSync \/ Crash \/ Restart
    PROVE  PromiseInv'
<1> USE DEF PromiseInv
<1>1. CASE ShutdownAsync
  <2>1. /\ UNCHANGED <<buffer, opened, frames, framesHeld, lost, hand, sent, recorded, sync, snapshot, crashed>>
        /\ promised' = recorded /\ shutdown = "no" /\ shutdown' = "settling"
      BY <1>1 DEF ShutdownAsync, capture, snapshots, syncs, server
  <2>2. ~sync'.final
      BY <2>1 DEF TasksInv, FinalIsLast
  <2>3. EventTypes' /\ EventsAreKept'
      BY <2>1 DEF EventTypes, EventsAreKept
  <2>4. PromiseIsTaken' /\ PromiseIsFlown'
      BY <2>1, <2>2 DEF PromiseIsTaken, PromiseIsFlown, Taking
  <2> QED
      BY <2>3, <2>4
<1>2. CASE FinalSync
  <2> DEFINE s == [NoSync EXCEPT !.flags = {"flush"}, !.wasAligned = aligned, !.final = TRUE]
  <2>1. /\ UNCHANGED <<buffer, opened, frames, framesHeld, lost, hand, sent, recorded, promised, snapshot, crashed>>
        /\ shutdown' = "flushing" /\ sync.at = "idle" /\ BeginPass(s)
      BY <1>2 DEF FinalSync, Settled, capture, server
  <2>2. sync'.at = "await" /\ snapshotQueued'
    <3>1. s.flags # {} /\ sync' = [s EXCEPT !.at = "await"] /\ snapshotQueued' = TRUE
        BY <2>1 DEF BeginPass, Forced, NoSync
    <3> QED
        BY <3>1 DEF NoSync
  <2>3. EventTypes' /\ EventsAreKept'
      BY <2>1, <2>2 DEF EventTypes, EventsAreKept
  <2>4. PromiseIsTaken' /\ PromiseIsFlown'
      BY <2>1, <2>2 DEF PromiseIsTaken, PromiseIsFlown
  <2> QED
      BY <2>3, <2>4
<1>3. CASE Crash
  <2>1. /\ buffer' = {} /\ opened' = {} /\ frames' = {} /\ hand' = {} /\ promised' = {} /\ crashed'
        /\ UNCHANGED <<sent, lost, recorded>>
      BY <1>3 DEF Crash
  <2>2. EventTypes' /\ EventsAreKept'
      BY <2>1 DEF EventTypes, EventsAreKept
  <2>3. PromiseIsTaken' /\ PromiseIsFlown'
      BY <2>1 DEF PromiseIsTaken, PromiseIsFlown
  <2> QED
      BY <2>2, <2>3
<1>4. CASE Restart
  <2>1. /\ UNCHANGED <<buffer, opened, frames, framesHeld, lost, hand, sent, recorded, sync, promised, snapshot>>
        /\ UNCHANGED <<shutdown, crashed>> /\ crashed /\ shutdown = "no" /\ sync = NoSync
      BY <1>4 DEF Restart, capture, snapshots, TasksInv, TaskOrder
  <2>2. EventTypes' /\ EventsAreKept'
      BY <2>1 DEF EventTypes, EventsAreKept
  <2>3. PromiseIsTaken' /\ PromiseIsFlown'
      BY <2>1, NoSyncIsASync DEF PromiseIsTaken, PromiseIsFlown, Taking
  <2> QED
      BY <2>2, <2>3
<1> QED
    BY <1>1, <1>2, <1>3, <1>4

LEMMA PromiseInvHolds == Spec => [](TasksInv /\ LedgerInv /\ PromiseInv)
<1>1. TasksInv /\ LedgerInv /\ PromiseInv /\ [Next]_vars => PromiseInv'
  <2> SUFFICES ASSUME TasksInv, LedgerInv, PromiseInv, [Next]_vars PROVE PromiseInv'
      OBVIOUS
  <2>1. CASE FlightOk
    <3>1. EndPass(TRUE) \/ Over(FALSE)
        BY <2>1 DEF FlightOk, Closed
    <3>2. CASE EndPass(TRUE)
        BY <2>1, <3>2, PromisePassEnds
    <3>3. CASE Over(FALSE)
        BY <2>1, <3>3, PromiseSyncFails
    <3> QED
        BY <3>1, <3>2, <3>3
  <2>2. CASE ~FlightOk
      BY <2>2, PromiseRecord, PromiseAsIs, PromiseSnapshot, PromiseSyncFails, PromisePassEnds, PromiseSync,
         PromiseBeginsAndEnds
         DEF Next
  <2> QED
      BY <2>1, <2>2
<1> QED
    BY <1>1, LedgerInvHolds, PromiseInvInit, PTL DEF Spec

-----------------------------------------------------------------------------
(* The theorems.                                                           *)

(* Whether frames wait is set by a commit, by taking them and by a crash.   *)
HeldOrNot == framesHeld \in BOOLEAN

LEMMA FramesHeldHolds == Spec => []HeldOrNot
<1>1. Init => HeldOrNot
    BY DEF Init, HeldOrNot
<1>2. HeldOrNot /\ [Next]_vars => HeldOrNot'
  <2> USE DEF HeldOrNot
  <2> SUFFICES ASSUME framesHeld \in BOOLEAN, [Next]_vars PROVE framesHeld' \in BOOLEAN
      OBVIOUS
  <2>1. CASE SnapshotCommit \/ TakePendingFrames \/ Crash
      BY <2>1 DEF SnapshotCommit, TakePendingFrames, Crash
  <2>2. CASE \/ \E u \in Units : Inc(u)
             \/ \E e \in Events : Event(e)
             \/ FlushAsync \/ Suspend \/ SyncTick \/ AggregateTick
             \/ SnapshotStart \/ SnapshotFails
    <3>1. framesHeld' = framesHeld
        BY <2>2 DEF Inc, Event, FlushAsync, Suspend, SyncTick, AggregateTick, SnapshotStart, SnapshotFails, capture
    <3> QED
        BY <3>1
  <2>3. CASE SnapshotCapture
    <3>1. framesHeld' = framesHeld
        BY <2>3 DEF SnapshotCapture, capture
    <3> QED
        BY <3>1
  <2>4. CASE \/ SyncStart \/ PostOk \/ PostFails \/ NoFlight \/ BeginFlight \/ BeginFlightThrows
             \/ FlightOk \/ FlightRejected \/ FlightFails
    <3>1. framesHeld' = framesHeld
        BY <2>4 DEF SyncStart, PostOk, PostFails, NoFlight, BeginFlight, BeginFlightThrows, FlightOpens,
                    FlightOk, FlightRejected, FlightFails, capture
    <3> QED
        BY <3>1
  <2>5. CASE (\E units \in SUBSET Units : FlightReceived(units)) \/ ShutdownAsync \/ FinalSync \/ ShutdownDone \/ Stop \/ Restart
    <3>1. framesHeld' = framesHeld
        BY <2>5 DEF FlightReceived, ShutdownAsync, FinalSync, ShutdownDone, Stop, Restart, capture
    <3> QED
        BY <3>1
  <2>6. CASE UNCHANGED vars
    <3>1. framesHeld' = framesHeld
        BY <2>6 DEF vars, capture
    <3> QED
        BY <3>1
  <2> QED
      BY <2>1, <2>2, <2>3, <2>4, <2>5, <2>6 DEF Next
<1> QED
    BY <1>1, <1>2, PTL DEF Spec

(* Every variable of the client keeps its type, for any increments, events *)
(* and bounds.  In particular a sync waits for two snapshots at most       *)
(* (SendPending), and neither half of the retained state, in memory or in  *)
(* the file, counts an increment twice.                                    *)
THEOREM ClientTypes == Spec => []TypeOK
<1>1. TasksInv /\ LedgerInv /\ PromiseInv /\ HeldOrNot => TypeOK
  <2> SUFFICES ASSUME TasksInv, LedgerInv, PromiseInv, HeldOrNot PROVE TypeOK
      OBVIOUS
  <2>1. /\ {pending, flight, file.pending, file.flight} \subseteq [Units -> 0 .. 1]
        /\ delivered \in [Units -> 0 .. 2]
    <3>1. ASSUME NEW u \in Units
          PROVE  pending[u] \in 0 .. 1 /\ flight[u] \in 0 .. 1 /\ file.pending[u] \in 0 .. 1 /\ file.flight[u] \in 0 .. 1
      <4>1. pending[u] \in Nat /\ flight[u] \in Nat /\ file.pending[u] \in Nat /\ file.flight[u] \in Nat
          BY DEF LedgerInv, LedgerTypes, Counters
      <4>2. pending[u] + flight[u] <= 1 /\ file.pending[u] + file.flight[u] <= 1
          BY DEF LedgerInv, NowhereTwice
      <4> QED
          BY <4>1, <4>2
    <3> QED
        BY <3>1 DEF LedgerInv, LedgerTypes, Counters
  <2>2. {up, aligned, dirty, snapshotQueued, framesHeld, stopped, closed, finalOk, missed, crashed} \subseteq BOOLEAN
      BY Zenon DEF HeldOrNot, TasksInv, TaskTypes, LedgerInv, LedgerTypes
  <2>3. {buffer, opened, frames, hand, sent, lost} \subseteq SUBSET Events /\ promised \subseteq recorded
      BY DEF PromiseInv, EventTypes
  <2>4. /\ {left, kept, refused, doubted, stranded} \subseteq SUBSET Units
        /\ recorded \subseteq Units \cup Events /\ faults \in 0 .. MaxFaults
      BY DEF LedgerInv, LedgerTypes
  <2>5. gap \in Nat
      BY DEF TasksInv, TaskOrder
  <2>6. /\ snapshot \in {"idle", "started", "split"} /\ awaited \in 0 .. 2
        /\ queuedSync \in (SUBSET {"flush", "bootstrap"}) \cup {Nil}
        /\ sync \in [at : {"idle", "await", "post", "retained", "flight"},
                    flags : SUBSET {"flush", "bootstrap"}, pass : {1, 2},
                    wasAligned : BOOLEAN, final : BOOLEAN]
        /\ shutdown \in {"no", "settling", "flushing", "closing", "done", "failed"}
    <3>1. TaskTypes
        BY DEF TasksInv
    <3>2. queuedSync \in (SUBSET {"flush", "bootstrap"}) \cup {Nil}
      <4>1. queuedSync \in Flags \cup {Nil}
          BY <3>1 DEF TaskTypes
      <4> QED
          BY <4>1 DEF Flags
    <3>3. awaited \in 0 .. 2
        BY <3>1 DEF TaskTypes
    <3>4. snapshot \in {"idle", "started", "split"}
        BY <3>1 DEF TaskTypes
    <3>5. shutdown \in {"no", "settling", "flushing", "closing", "done", "failed"}
        BY <3>1 DEF TaskTypes
    <3>6. sync \in [at : {"idle", "await", "post", "retained", "flight"},
                   flags : SUBSET {"flush", "bootstrap"}, pass : {1, 2},
                   wasAligned : BOOLEAN, final : BOOLEAN]
      <4>1. sync \in Syncs
          BY <3>1 DEF TaskTypes
      <4> QED
          BY <4>1 DEF Syncs, Flags
    <3> QED
        BY <3>2, <3>3, <3>4, <3>5, <3>6
  <2> QED
      BY <2>1, <2>2, <2>3, <2>4, <2>5, <2>6 DEF TypeOK
<1> QED
    BY <1>1, PromiseInvHolds, FramesHeldHolds, PTL

(* A kill at any instant leaves every saved increment in the file, unless  *)
(* it arrived (RetainedMetrics.Save, BeginFlight, Restore).                *)
THEOREM SavedIncrementsSurvive == Spec => []RetainedSurvives
<1>1. LedgerInv => RetainedSurvives
  <2> SUFFICES ASSUME LedgerInv PROVE RetainedSurvives
      OBVIOUS
  <2>1. /\ \A u \in Units : Sum(pending, flight)[u] = pending[u] + flight[u]
        /\ \A u \in Units : Sum(file.pending, file.flight)[u] = file.pending[u] + file.flight[u]
      BY SumsAdd DEF LedgerInv, LedgerTypes
  <2> QED
      BY <2>1 DEF LedgerInv, LedgerTypes, SomewhereAlways, Arrived, RetainedSurvives
<1> QED
    BY <1>1, LedgerInvHolds, PTL

(* Only what was in doubt is ever counted twice.                           *)
THEOREM IncrementsCountOnce == Spec => []CountedTwiceOnlyInDoubt
<1>1. LedgerInv => CountedTwiceOnlyInDoubt
  <2> SUFFICES ASSUME LedgerInv PROVE CountedTwiceOnlyInDoubt
      OBVIOUS
  <2>1. /\ \A u \in Units : Sum(pending, flight)[u] = pending[u] + flight[u]
        /\ \A u \in Units : Sum(file.pending, file.flight)[u] = file.pending[u] + file.flight[u]
      BY SumsAdd DEF LedgerInv, LedgerTypes
  <2>2. \A u \in Units : delivered[u] \in 0 .. 2
      BY DEF LedgerInv, LedgerTypes
  <2> QED
      BY <2>1, <2>2 DEF LedgerInv, NowhereTwice, CountedTwiceOnlyInDoubt
<1> QED
    BY <1>1, LedgerInvHolds, PTL

(* The snapshot task and a flight never take each other's number; a sync   *)
(* never sends beside a flight an exception stranded (SendRetained),       *)
(* which stays as it is until the process ends.                            *)
THEOREM TasksTakeTurns == Spec => []TakeTurns
<1>1. TasksInv /\ LedgerInv => TakeTurns
    BY DEF TasksInv, TaskOrder, LedgerInv, FlightIsSent, TakeTurns
<1> QED
    BY <1>1, LedgerInvHolds, PTL

(* ShutdownAsync resolves after a good sync only with everything recorded  *)
(* before it delivered or given up for good: all events that no failed     *)
(* snapshot left behind and, where no flight is stranded, all increments.  *)
THEOREM ShutdownLeavesNothing == Spec => []ShutdownSendsAll
<1>1. TasksInv /\ LedgerInv /\ PromiseInv => ShutdownSendsAll
  <2> SUFFICES ASSUME TasksInv, LedgerInv, PromiseInv, shutdown = "done", finalOk, ~crashed
               PROVE  /\ stranded = {} => \A u \in promised \cap Units : delivered[u] > 0 \/ u \in refused
                      /\ ~missed => promised \cap Events \subseteq sent \cup lost
      BY DEF ShutdownSendsAll
  <2>1. up /\ sync.at = "idle"
      BY DEF TasksInv, TaskTypes, TaskOrder, FinalIsLast
  <2>2. stranded = {} => flight = None
      BY <2>1, NoneCountsNothing DEF LedgerInv, LedgerTypes, FlightIsSent
  <2>3. ASSUME stranded = {}, NEW u \in promised \cap Units PROVE delivered[u] > 0 \/ u \in refused
    <3>1. pending[u] = 0 /\ flight[u] = 0
        BY <2>2, <2>3, NoneCountsNothing DEF PromiseInv, PromiseIsFlown
    <3>2. u \in recorded
        BY DEF PromiseInv, EventTypes
    <3> QED
        BY <2>1, <3>1, <3>2 DEF LedgerInv, SomewhereAlways, Arrived
  <2>4. ASSUME ~missed PROVE promised \cap Events \subseteq sent \cup lost
    <3>1. promised \cap (buffer \cup opened \cup frames \cup hand) = {}
        BY <2>4 DEF PromiseInv, PromiseIsTaken
    <3>2. promised \cap Events \subseteq buffer \cup opened \cup frames \cup hand \cup sent \cup lost
        BY DEF PromiseInv, EventTypes, EventsAreKept
    <3> QED
        BY <3>1, <3>2
  <2> QED
      BY <2>3, <2>4
<1> QED
    BY <1>1, PromiseInvHolds, PTL
=============================================================================
