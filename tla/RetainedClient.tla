--------------------------- MODULE RetainedClient ---------------------------
(***************************************************************************)
(* The C# client, which is called from any thread: the two queues of tasks *)
(* of WardxClient (snapshots and syncs), its shutdown, and the retained    *)
(* counters that live in a file until a sync delivers them.                *)
(*                                                                         *)
(* A section under a lock, or a step between two awaits, is one action, and*)
(* any two tasks interleave between them.  A unit is one increment of a    *)
(* retained counter; a frame is the set of events in it.  The process can  *)
(* be killed at any step, a write of the file can fail, also by an         *)
(* exception that ends the task, and the answer to a request can be lost   *)
(* with or without the request.                                            *)
(***************************************************************************)
EXTENDS Naturals, FiniteSets

CONSTANTS
    Units,      \* increments of retained counters, each made once
    Oversized,  \* those of a series whose row no frame can hold (maxFrameBytes)
    Events,     \* events, each recorded once
    Nil,        \* no sync is queued
    MaxRecorded, \* bound: increments and events of a behaviour
    MaxFaults   \* bound: how often the process dies or a write of the file fails

ASSUME RetainedClientAssumption ==
    /\ MaxRecorded \in Nat /\ MaxFaults \in Nat
    /\ Units \cap Events = {} /\ Oversized \subseteq Units
    /\ \A flags \in SUBSET {"flush", "bootstrap"} : flags # Nil

VARIABLES
    up,             \* the process runs
    aligned,        \* a server time is known (_clockOffsetMs)
    pending,        \* RetainedMetrics._pending: [Units -> how often it is counted]
    flight,         \* _flight, all zero when there is none
    dirty,          \* _dirty
    file,           \* what the file at retainedPath says of both
    buffer,         \* events of no frame yet
    snapshot,       \* the task that runs: "idle", "started" or "split"
    snapshotQueued, \* _queuedSnapshot is not null
    opened,         \* events of the captured frame while it is split
    gap,            \* _seq + 1 less the number that frame was given
    frames,         \* events of _pendingFrames
    framesHeld,     \* _pendingFrames is not empty
    queuedSync,     \* flags of _queuedSync, or Nil
    sync,           \* the sync that runs
    awaited,        \* snapshots to complete before it goes on
    hand,           \* events of the frames it took
    left,           \* units of its flight that are still to be sent
    stopped,        \* _stopped
    closed,         \* the transport is closed
    shutdown,       \* how far ShutdownAsync is
    recorded,       \* ghost: units and events recorded so far
    promised,       \* ghost: what was recorded before ShutdownAsync was called
    kept,           \* ghost: units some write put into the file
    delivered,      \* ghost: [Units -> 0, 1, or 2 for more often]
    refused,        \* ghost: units given up: rejected for good, or too large for a frame
    doubted,        \* ghost: units of a flight that failed or of a restart
    stranded,       \* ghost: units of a flight whose sync an exception ended before its try block
    sent, lost,     \* ghost: events a server received, events given up and counted
    finalOk,        \* ghost: the sync of ShutdownAsync got through
    missed,         \* ghost: a snapshot it waited for failed before it captured anything
    faults,
    crashed         \* the process died once

retained == <<pending, flight, dirty, file, kept, faults>>
capture == <<buffer, opened, gap, frames, framesHeld, lost>>
snapshots == <<snapshot, snapshotQueued>>
syncs == <<queuedSync, sync, awaited, hand, left>>
lifecycle == <<up, stopped, closed, shutdown, promised, finalOk, missed, crashed>>
server == <<aligned, delivered, refused, doubted, stranded, sent>>
vars == <<retained, capture, snapshots, syncs, lifecycle, server, recorded>>

None == [u \in Units |-> 0]
Counted(count) == {u \in Units : count[u] > 0}
Sum(a, b) == [u \in Units |-> a[u] + b[u]]

NoSync == [at |-> "idle", flags |-> {}, pass |-> 1, wasAligned |-> FALSE, final |-> FALSE]

Init ==
    /\ up = TRUE /\ aligned = FALSE
    /\ pending = None /\ flight = None /\ dirty = FALSE
    /\ file = [pending |-> None, flight |-> None]
    /\ buffer = {} /\ opened = {} /\ gap = 0 /\ frames = {} /\ framesHeld = FALSE
    /\ snapshot = "idle" /\ snapshotQueued = FALSE
    /\ queuedSync = {"bootstrap"} /\ sync = NoSync
    /\ awaited = 0 /\ hand = {} /\ left = {}
    /\ stopped = FALSE /\ closed = FALSE /\ shutdown = "no"
    /\ recorded = {} /\ promised = {} /\ kept = {}
    /\ delivered = None /\ refused = {} /\ doubted = {} /\ stranded = {} /\ sent = {} /\ lost = {}
    /\ finalOk = FALSE /\ missed = FALSE /\ faults = 0 /\ crashed = FALSE

-----------------------------------------------------------------------------
(* The file. *)

\* Mutant: a flight is not in the file.
FlightNotSaved(p, f) == [pending |-> p, flight |-> None]

Image(p, f) == [pending |-> p, flight |-> f]

\* Save: the file is replaced as a whole, or it stays and the state stays dirty.
Save(p, f) ==
    /\ pending' = p /\ flight' = f
    /\ \/ /\ file' = Image(p, f)
          /\ dirty' = FALSE
          /\ kept' = kept \cup Counted(p) \cup Counted(f)
          /\ UNCHANGED faults
       \/ /\ faults < MaxFaults /\ faults' = faults + 1
          /\ dirty' = TRUE
          /\ UNCHANGED <<file, kept>>

\* Save is left by an exception that is no IOException: the state is no longer marked dirty.
SaveThrows(p, f) ==
    /\ pending' = p /\ flight' = f /\ dirty' = FALSE
    /\ faults < MaxFaults /\ faults' = faults + 1
    /\ UNCHANGED <<file, kept>>

SaveIfDirty == IF dirty THEN Save(pending, flight) ELSE UNCHANGED retained
SaveIfDirtyThrows == dirty /\ SaveThrows(pending, flight)

-----------------------------------------------------------------------------
(* The application. *)

Inc(u) ==
    /\ up /\ u \notin recorded /\ Cardinality(recorded) < MaxRecorded
    /\ pending' = [pending EXCEPT ![u] = @ + 1]
    /\ dirty' = TRUE
    /\ recorded' = recorded \cup {u}
    /\ UNCHANGED <<flight, file, kept, faults, capture, snapshots, syncs, lifecycle, server>>

Event(e) ==
    /\ up /\ e \notin recorded /\ Cardinality(recorded) < MaxRecorded
    /\ buffer' = buffer \cup {e}
    /\ recorded' = recorded \cup {e}
    /\ UNCHANGED <<retained, opened, gap, frames, framesHeld, lost, snapshots, syncs, lifecycle, server>>

\* EnqueueSync joins the sync that has not started, or queues one.
EnqueueSync(flags) == queuedSync' = IF queuedSync = Nil THEN flags ELSE queuedSync \cup flags

FlushAsync ==
    /\ up /\ ~stopped
    /\ EnqueueSync({"flush"})
    /\ UNCHANGED <<retained, capture, snapshots, sync, awaited, hand, left, lifecycle, server, recorded>>

\* The application pauses: retained values are written and a flush is queued.
Suspend ==
    /\ up
    /\ \/ SaveIfDirty /\ IF stopped THEN UNCHANGED queuedSync ELSE EnqueueSync({"flush"})
       \/ SaveIfDirtyThrows /\ UNCHANGED queuedSync
    /\ UNCHANGED <<capture, snapshots, sync, awaited, hand, left, lifecycle, server, recorded>>

\* The one-shot sync timer, armed again when the sync it asked for is over: here at any time.
SyncTick ==
    /\ up /\ ~stopped
    /\ EnqueueSync({})
    /\ UNCHANGED <<retained, capture, snapshots, sync, awaited, hand, left, lifecycle, server, recorded>>

AggregateTick ==
    /\ up /\ ~stopped /\ ~snapshotQueued
    /\ snapshotQueued' = TRUE
    /\ UNCHANGED <<retained, capture, snapshot, syncs, lifecycle, server, recorded>>

-----------------------------------------------------------------------------
(* The snapshot queue: one task runs, one may be queued behind it. *)

\* The task is over: whoever waits for it or for the one behind it is a step nearer.
Completed == snapshot' = "idle" /\ awaited' = IF awaited > 0 THEN awaited - 1 ELSE 0

\* The previous task is over; from here on a new request queues a task of its own.
SnapshotStart ==
    /\ up /\ snapshot = "idle" /\ snapshotQueued
    /\ snapshot' = "started" /\ snapshotQueued' = FALSE
    /\ UNCHANGED <<retained, capture, syncs, lifecycle, server, recorded>>

\* Under the lock: retained values are written and, once the clock is aligned, what was
\* recorded since the last frame is captured.  (Internal counters make a frame by themselves.)
SnapshotCapture ==
    /\ up /\ snapshot = "started"
    /\ SaveIfDirty
    /\ \/ /\ aligned
          /\ snapshot' = "split"
          /\ opened' = buffer /\ buffer' = {} /\ gap' = 0
          /\ UNCHANGED <<awaited, frames, framesHeld, lost>>
       \/ /\ ~aligned \/ buffer = {}
          /\ Completed
          /\ UNCHANGED capture
    /\ UNCHANGED <<snapshotQueued, queuedSync, sync, hand, left, lifecycle, server, recorded>>

\* CommitSnapshot, after the split outside the lock.  What maxPendingFrames has no room for is
\* dropped and counted, the oldest frames and the front of a long batch; so are the rows
\* that no frame can hold.
SnapshotCommit ==
    /\ up /\ snapshot = "split" /\ gap = 0
    /\ Completed
    /\ opened' = {} /\ framesHeld' = TRUE
    /\ \E gone \in SUBSET (frames \cup opened) :
          frames' = (frames \cup opened) \ gone /\ lost' = lost \cup gone
    /\ UNCHANGED <<retained, buffer, gap, snapshotQueued, queuedSync, sync, hand, left,
                   lifecycle, server, recorded>>

\* Reading the RSS or writing the retained values throws before anything is captured; or
\* splitting or committing does, and the frame is given up and counted.
SnapshotFails ==
    /\ up /\ snapshot # "idle"
    /\ Completed
    /\ UNCHANGED retained \/ (snapshot = "started" /\ SaveIfDirtyThrows)
    /\ opened' = {} /\ lost' = lost \cup opened /\ gap' = 0
    /\ missed' = (missed \/ (snapshot = "started" /\ shutdown = "flushing"))
    /\ UNCHANGED <<buffer, frames, framesHeld, snapshotQueued, queuedSync, sync, hand, left,
                   up, stopped, closed, shutdown, promised, finalOk, crashed, server, recorded>>

-----------------------------------------------------------------------------
(* A sync. *)

Forced(flags) == flags # {}

Running == IF snapshot = "idle" THEN 0 ELSE 1

\* Mutant: a forced sync is content with the snapshot that runs.
JoinsRunning(s) ==
    /\ sync' = [s EXCEPT !.at = "await"]
    /\ awaited' = 1
    /\ snapshotQueued' = (snapshotQueued \/ snapshot = "idle")

\* SendPending: a forced sync asks for a snapshot, joining one that has not started; any
\* other waits for the last one asked for.
BeginPass(s) ==
    /\ sync' = [s EXCEPT !.at = "await"]
    /\ IF Forced(s.flags)
       THEN snapshotQueued' = TRUE /\ awaited' = Running + 1
       ELSE /\ awaited' = Running + (IF snapshotQueued THEN 1 ELSE 0)
            /\ UNCHANGED snapshotQueued

\* A sync that is over lets the next one start.
Over(ok) ==
    /\ sync' = NoSync
    /\ IF sync.final THEN shutdown' = "closing" /\ finalOk' = ok ELSE UNCHANGED <<shutdown, finalOk>>

SyncStart ==
    /\ up /\ sync.at = "idle" /\ queuedSync # Nil
    /\ queuedSync' = Nil
    /\ IF stopped /\ "flush" \notin queuedSync
       THEN UNCHANGED <<sync, snapshotQueued, awaited>>
       ELSE BeginPass([NoSync EXCEPT !.flags = queuedSync, !.wasAligned = aligned])
    /\ UNCHANGED <<retained, capture, snapshot, hand, left, lifecycle, server, recorded>>

SendEmpty == sync.pass = 1 /\ (~sync.wasAligned \/ Forced(sync.flags))

TakePendingFrames ==
    /\ up /\ sync.at = "await" /\ awaited = 0
    /\ hand' = frames /\ frames' = {} /\ framesHeld' = FALSE
    /\ sync' = [sync EXCEPT !.at = IF SendEmpty \/ framesHeld THEN "post" ELSE "retained"]
    /\ UNCHANGED <<retained, buffer, opened, gap, lost, snapshots, queuedSync, awaited, left,
                   lifecycle, server, recorded>>

\* Every envelope of the frames is answered, and the answer carries the server's time.
PostOk ==
    /\ up /\ sync.at = "post" /\ ~closed
    /\ sent' = sent \cup hand /\ hand' = {}
    /\ aligned' = TRUE
    /\ sync' = [sync EXCEPT !.at = "retained"]
    /\ UNCHANGED <<retained, capture, snapshots, queuedSync, awaited, left, lifecycle,
                   delivered, refused, doubted, stranded, recorded>>

\* A request fails, times out or is not answered: the rest of the sync is given up, whatever
\* of it the server received.  An earlier envelope of it may have been answered.
PostFails ==
    /\ up /\ sync.at = "post"
    /\ \E received \in SUBSET hand : sent' = sent \cup received
    /\ lost' = lost \cup hand /\ hand' = {}
    /\ aligned' \in {aligned, TRUE}
    /\ Over(FALSE)
    /\ UNCHANGED <<retained, buffer, opened, gap, frames, framesHeld, snapshots, queuedSync, awaited, left,
                   up, stopped, closed, promised, missed, crashed, delivered, refused, doubted, stranded, recorded>>

\* A first pass that only learnt the clock is followed by a second.
EndPass(alignedNow) ==
    IF /\ sync.pass = 1 /\ ~sync.wasAligned /\ Forced(sync.flags) /\ alignedNow
    THEN BeginPass([sync EXCEPT !.pass = 2]) /\ UNCHANGED <<shutdown, finalOk>>
    ELSE Over(TRUE) /\ UNCHANGED <<snapshotQueued, awaited>>

\* Mutant: a flight does not wait for the snapshot being split.
AnyTime == aligned

\* CaptureRetainedFrames: not before the clock is aligned, and not while a snapshot that
\* owns the next number is split.
MayFly == aligned /\ snapshot # "split"

\* SendRetained without a flight: nothing to send, or one is still open.
NoFlight ==
    /\ up /\ sync.at = "retained"
    /\ ~MayFly \/ flight # None \/ Counted(pending) = {}
    /\ EndPass(aligned)
    /\ UNCHANGED <<retained, capture, snapshot, queuedSync, hand, left, up, stopped, closed, promised,
                   missed, crashed, server, recorded>>

FlightOpens ==
    /\ up /\ sync.at = "retained"
    /\ MayFly /\ flight = None /\ Counted(pending) # {}
    /\ UNCHANGED <<buffer, opened, frames, framesHeld, lost, snapshots, queuedSync, awaited, hand,
                   up, stopped, closed, promised, missed, crashed, aligned, delivered, refused, doubted,
                   sent, recorded>>

NumberTaken == gap' = IF snapshot = "split" THEN gap + 1 ELSE gap

BeginFlight ==
    /\ FlightOpens
    /\ Save(None, pending)
    /\ NumberTaken
    /\ left' = Counted(pending)
    /\ sync' = [sync EXCEPT !.at = "flight"]
    /\ UNCHANGED <<shutdown, finalOk, stranded>>

\* Writing the file, splitting the frame or a tracer throws after the flight was opened and
\* before the try block that would end it: the sync is over, the flight stays open.
BeginFlightThrows ==
    /\ FlightOpens
    /\ \/ Save(None, pending) /\ (NumberTaken \/ UNCHANGED gap)
       \/ SaveThrows(None, pending) /\ UNCHANGED gap
    /\ stranded' = Counted(pending)
    /\ Over(FALSE)
    /\ UNCHANGED left

\* The server takes some of the envelopes of the flight; the client may never hear of it.
\* Rows that are too large are in none of them.
FlightReceived(units) ==
    /\ up /\ sync.at = "flight" /\ ~closed
    /\ units # {} /\ units \subseteq left \ Oversized
    /\ left' = left \ units
    /\ delivered' = [u \in Units |-> IF u \in units /\ delivered[u] < 2 THEN delivered[u] + 1 ELSE delivered[u]]
    /\ UNCHANGED <<retained, capture, snapshots, queuedSync, sync, awaited, hand, lifecycle,
                   aligned, refused, doubted, stranded, sent, recorded>>

\* The flight is closed with p pending.  The sync goes on, unless writing the file throws.
Closed(p) ==
    \/ Save(p, None) /\ EndPass(TRUE)
    \/ SaveThrows(p, None) /\ Over(FALSE) /\ UNCHANGED <<snapshotQueued, awaited>>

\* Mutant: only a rejection settles a flight, an answer does not.
OnlyRejectionsSettle ==
    /\ up /\ sync.at = "flight" /\ left \subseteq Oversized
    /\ refused' = refused \cup left /\ left' = {}
    /\ Closed(Sum(pending, flight))
    /\ UNCHANGED <<capture, snapshot, queuedSync, hand, up, stopped, closed, promised, missed, crashed,
                   aligned, delivered, doubted, stranded, sent, recorded>>

\* Every envelope was answered: CommitRetained, with the rows that were too large for any.
FlightOk ==
    /\ up /\ sync.at = "flight" /\ left \subseteq Oversized
    /\ refused' = refused \cup left /\ left' = {}
    /\ Closed(pending)
    /\ UNCHANGED <<capture, snapshot, queuedSync, hand, up, stopped, closed, promised, missed, crashed,
                   aligned, delivered, doubted, stranded, sent, recorded>>

\* 400, 413 or 415: the flight is dropped, never to be sent again.
FlightRejected ==
    /\ up /\ sync.at = "flight" /\ left # {} /\ ~closed
    /\ refused' = refused \cup left /\ left' = {}
    /\ Save(pending, None) \/ SaveThrows(pending, None)
    /\ Over(FALSE)
    /\ UNCHANGED <<capture, snapshots, queuedSync, awaited, hand, up, stopped, closed, promised, missed, crashed,
                   aligned, delivered, doubted, stranded, sent, recorded>>

\* Restore(_flight), series by series.
Restored(p, f) == Sum(p, f)

\* Any other failure of any of its envelopes: AbortRetained.
FlightFails ==
    /\ up /\ sync.at = "flight"
    /\ doubted' = doubted \cup Counted(flight)
    /\ left' = {}
    /\ Save(Restored(pending, flight), None) \/ SaveThrows(Restored(pending, flight), None)
    /\ Over(FALSE)
    /\ UNCHANGED <<capture, snapshots, queuedSync, awaited, hand, up, stopped, closed, promised, missed, crashed,
                   aligned, delivered, refused, stranded, sent, recorded>>

-----------------------------------------------------------------------------
(* The end of the client. *)

\* Under the lifecycle lock; the scheduler is stopped with it.
ShutdownAsync ==
    /\ up /\ shutdown = "no"
    /\ stopped' = TRUE /\ shutdown' = "settling"
    /\ promised' = recorded
    /\ UNCHANGED <<retained, capture, snapshots, syncs, up, closed, finalOk, missed, crashed, server, recorded>>

\* SettleCurrentSync: every sync asked for before is over.
Settled == sync.at = "idle" /\ queuedSync = Nil

FinalSync ==
    /\ up /\ shutdown = "settling" /\ Settled
    /\ shutdown' = "flushing"
    /\ BeginPass([NoSync EXCEPT !.flags = {"flush"}, !.wasAligned = aligned, !.final = TRUE])
    /\ UNCHANGED <<retained, capture, snapshot, queuedSync, hand, left, up, stopped, closed,
                   promised, finalOk, missed, crashed, server, recorded>>

\* If writing the retained values throws, so does ShutdownAsync, and the transport stays open.
ShutdownDone ==
    /\ up /\ shutdown = "closing"
    /\ \/ SaveIfDirty /\ closed' = TRUE /\ shutdown' = "done"
       \/ SaveIfDirtyThrows /\ UNCHANGED closed /\ shutdown' = "failed"
    /\ UNCHANGED <<capture, snapshots, syncs, up, stopped, promised, finalOk, missed, crashed, server, recorded>>

\* Stop: the values are written, then the client is stopped, unless writing them throws;
\* nothing is sent.
Stop ==
    /\ up /\ ~stopped
    /\ \/ SaveIfDirty /\ stopped' = TRUE /\ closed' = TRUE
       \/ SaveIfDirtyThrows /\ UNCHANGED <<stopped, closed>>
    /\ UNCHANGED <<capture, snapshots, syncs, up, shutdown, promised, finalOk, missed, crashed, server, recorded>>

\* The process ends, killed or not: what is not in the file is gone.
Crash ==
    /\ up /\ faults < MaxFaults
    /\ up' = FALSE /\ crashed' = TRUE /\ faults' = faults + 1
    /\ pending' = None /\ flight' = None /\ dirty' = FALSE
    /\ buffer' = {} /\ opened' = {} /\ gap' = 0 /\ frames' = {} /\ framesHeld' = FALSE
    /\ snapshot' = "idle" /\ snapshotQueued' = FALSE
    /\ queuedSync' = Nil /\ sync' = NoSync /\ awaited' = 0 /\ hand' = {} /\ left' = {}
    /\ stopped' = FALSE /\ closed' = FALSE /\ shutdown' = "no"
    /\ promised' = {} /\ finalOk' = FALSE /\ missed' = FALSE /\ aligned' = FALSE
    /\ stranded' = {}
    /\ UNCHANGED <<file, kept, lost, delivered, refused, doubted, sent, recorded>>

\* Load: an unacknowledged flight may or may not have arrived, so it is counted again.  (If
\* reading or writing the file throws, there is no client yet: the process stays down.)
Loaded(saved) == Sum(saved.pending, saved.flight)

Restart ==
    /\ ~up
    /\ up' = TRUE
    /\ queuedSync' = {"bootstrap"}
    /\ Save(Loaded(file), None)
    /\ doubted' = doubted \cup Counted(Loaded(file))
    /\ UNCHANGED <<capture, snapshots, sync, awaited, hand, left, stopped, closed, shutdown, promised,
                   finalOk, missed, crashed, aligned, delivered, refused, stranded, sent, recorded>>

Next ==
    \/ \E u \in Units : Inc(u)
    \/ \E e \in Events : Event(e)
    \/ FlushAsync \/ Suspend \/ SyncTick \/ AggregateTick
    \/ SnapshotStart \/ SnapshotCapture \/ SnapshotCommit \/ SnapshotFails
    \/ SyncStart \/ TakePendingFrames \/ PostOk \/ PostFails
    \/ NoFlight \/ BeginFlight \/ BeginFlightThrows \/ FlightOk \/ FlightRejected \/ FlightFails
    \/ \E units \in SUBSET Units : FlightReceived(units)
    \/ ShutdownAsync \/ FinalSync \/ ShutdownDone \/ Stop
    \/ Crash \/ Restart

Spec == Init /\ [][Next]_vars

-----------------------------------------------------------------------------
(* Properties. *)

TypeOK ==
    /\ {up, aligned, dirty, snapshotQueued, framesHeld, stopped, closed, finalOk, missed, crashed} \subseteq BOOLEAN
    /\ {pending, flight, file.pending, file.flight} \subseteq [Units -> 0..1]
    /\ delivered \in [Units -> 0..2]
    /\ {buffer, opened, frames, hand, sent, lost} \subseteq SUBSET Events
    /\ {left, kept, refused, doubted, stranded} \subseteq SUBSET Units
    /\ recorded \subseteq Units \cup Events /\ promised \subseteq recorded
    /\ snapshot \in {"idle", "started", "split"} /\ awaited \in 0..2
    /\ queuedSync \in (SUBSET {"flush", "bootstrap"}) \cup {Nil}
    /\ sync \in [at : {"idle", "await", "post", "retained", "flight"},
                flags : SUBSET {"flush", "bootstrap"}, pass : {1, 2},
                wasAligned : BOOLEAN, final : BOOLEAN]
    /\ shutdown \in {"no", "settling", "flushing", "closing", "done", "failed"}
    /\ gap \in Nat /\ faults \in 0..MaxFaults

\* An increment that was written once is delivered, was given up for good, or is in the file,
\* at every instant a kill may come; one that was not is in memory until then.
RetainedSurvives ==
    /\ \A u \in kept : \/ delivered[u] > 0 \/ u \in refused
                       \/ Sum(file.pending, file.flight)[u] > 0
    /\ \A u \in Units \cap recorded :
          up /\ ~crashed => \/ delivered[u] > 0 \/ u \in refused
                               \/ Sum(pending, flight)[u] > 0

\* An increment is counted twice by the server only if a flight that carried it failed or it
\* was read back after a restart; neither memory nor the file ever holds it twice.
CountedTwiceOnlyInDoubt ==
    /\ \A u \in Units : /\ Sum(pending, flight)[u] <= 1
                        /\ Sum(file.pending, file.flight)[u] <= 1
                        /\ delivered[u] > 1 => u \in doubted
    /\ \A u \in Units : delivered[u] > 0 /\ u \notin doubted => pending[u] = 0

\* Snapshots are completed in sequence, as CommitSnapshot insists.  While a sync sends a flight
\* it is the only one that was opened; at any other time the open flight is the one an
\* exception stranded between CaptureRetainedFrames and its try block, if any, untouched.
TakeTurns ==
    /\ snapshot = "split" => gap = 0
    /\ sync.at = "flight" => flight # None /\ stranded = {}
    /\ sync.at # "flight" => Counted(flight) = stranded

\* CaptureRetainedFrames asks of its caller that every flight be ended.  Not so: see stranded.
FlightsAreSettled == flight # None => sync.at = "flight"

\* ShutdownAsync resolves after a sync that got through only with everything recorded before
\* the call delivered: increments by this sync or before, unless given up for good, or unless
\* a stranded flight lets no other be opened; events unless given up and counted, or left
\* behind by a snapshot that failed.
ShutdownSendsAll ==
    shutdown = "done" /\ finalOk /\ ~crashed =>
        /\ stranded = {} => \A u \in promised \cap Units : delivered[u] > 0 \/ u \in refused
        /\ ~missed => promised \cap Events \subseteq sent \cup lost
=============================================================================
