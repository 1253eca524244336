------------------------------ MODULE NodeSdk ------------------------------
(***************************************************************************)
(* Delivery of the Node SDK (WardxNode over WardxCore): from event() to    *)
(* the server, and what flush() answers for.                               *)
(*                                                                         *)
(* Two chains of promises run beside the application: snapshots, which     *)
(* turn the buffers into frames while the event loop goes on, and syncs,   *)
(* which post pending frames.  Each has at most one running and one queued *)
(* job that later requests join.  Timers, flush() and shutdown() feed      *)
(* them; an await is where another step can come in between, so there is   *)
(* an action from each await to the next.                                  *)
(*                                                                         *)
(* Events are numbered as they are recorded.  A frame is the set of its    *)
(* events; metrics and logs make frames without events.  A sync that has a *)
(* queued successor is awaited through a ticket: the number of syncs that  *)
(* will have started when it runs, 0 for the running one.                  *)
(***************************************************************************)
EXTENDS Integers, Sequences, FiniteSets

CONSTANTS
    Callers,      \* of flush()
    MaxBuffered,  \* maxBufferedEvents
    MaxPending,   \* maxPendingFrames
    MaxSplit,     \* bound: frames of one snapshot
    MaxEvents,    \* bound: events recorded
    MaxQuiet,     \* bound: snapshots taken for metrics alone
    NoTicket, NoCall

ASSUME SettingsArePositive ==
    /\ MaxBuffered \in Nat \ {0} /\ MaxPending \in Nat \ {0}
    /\ MaxSplit \in Nat \ {0}
    /\ MaxEvents \in Nat /\ MaxQuiet \in Nat
Frames == Seq(SUBSET Nat)
Tickets == Nat \cup {NoTicket}
Calls == [losses : Nat, covers : SUBSET Nat, ticket : Tickets]
ASSUME NamesAreDistinct == NoTicket \notin Nat /\ NoCall \notin Calls

VARIABLES
    recorded,     \* events recorded so far
    buffer,       \* EventBuffer
    quiet,        \* snapshots taken for metrics alone
    snapQueued,   \* _queuedSnapshot
    snapshot,     \* the running snapshot and the events it captured
    pending,      \* pendingFrames
    chain,        \* the syncs that have not started
    sync,         \* the running sync
    tick,         \* the sync the timer waits for; NoTicket while it is armed
    aligned,      \* _clockAligned
    losses,       \* _deliveryLosses
    flushLosses,  \* _flushLosses
    calls,        \* unresolved flush() calls
    closing,      \* _stopped, the final sync, and what it delivered
    received,     \* events that reached the server
    fresh,        \* events recorded since the last flush() call
    confirmed,    \* events that an answer { ok: true } stands for
    lossesBefore  \* for each event, _deliveryLosses when it was recorded

snapVars == <<snapQueued, snapshot>>
callVars == <<flushLosses, calls, fresh, confirmed>>
vars == <<recorded, buffer, quiet, snapVars, pending, chain, sync, tick, aligned,
          losses, callVars, closing, received, lossesBefore>>

Syncs == [stage : {"idle", "skip", "snapshot", "sending"}, awaits : {"queued", "running", "none"},
          again : BOOLEAN, empty : BOOLEAN, rest : Frames]
NoSync == [stage |-> "idle", awaits |-> "none", again |-> FALSE, empty |-> FALSE, rest |-> <<>>]
NoSnapshot == [running |-> FALSE, rows |-> {}]

TypeOK ==
    /\ recorded \in Nat /\ quiet \in Nat
    /\ buffer \in SUBSET Nat
    /\ snapQueued \in BOOLEAN
    /\ snapshot \in [running : BOOLEAN, rows : SUBSET Nat]
    /\ pending \in Frames /\ Len(pending) <= MaxPending
    /\ chain \in Seq({"bootstrap", "tick", "flush"})
    /\ sync \in Syncs
    /\ tick \in Tickets
    /\ aligned \in BOOLEAN
    /\ losses \in Nat /\ flushLosses \in Nat
    /\ calls \in [Callers -> Calls \cup {NoCall}]
    /\ closing \in [stopped : BOOLEAN, ticket : Tickets, done : BOOLEAN,
                    delivered : BOOLEAN, after : Nat]
    /\ received \in SUBSET Nat /\ fresh \in SUBSET Nat /\ confirmed \in SUBSET Nat
    /\ lossesBefore \in Seq(Nat) /\ Len(lossesBefore) = recorded

Init ==
    /\ recorded = 0 /\ quiet = 0
    /\ buffer = {}
    /\ snapQueued = FALSE /\ snapshot = NoSnapshot
    /\ pending = <<>>
    /\ chain = <<"bootstrap">> /\ sync = NoSync
    /\ tick = NoTicket
    /\ aligned = FALSE
    /\ losses = 0 /\ flushLosses = 0
    /\ calls = [c \in Callers |-> NoCall]
    /\ closing = [stopped |-> FALSE, ticket |-> NoTicket, done |-> FALSE,
                  delivered |-> FALSE, after |-> 0]
    /\ received = {} /\ fresh = {} /\ confirmed = {}
    /\ lossesBefore = <<>>

Rows(frames) == UNION {frames[i] : i \in DOMAIN frames}

-----------------------------------------------------------------------------
(* Recording.                                                              *)

event ==
    /\ recorded < MaxEvents
    /\ recorded' = recorded + 1
    /\ lossesBefore' = Append(lossesBefore, losses)
    /\ fresh' = fresh \cup {recorded + 1}
    /\ IF Cardinality(buffer) < MaxBuffered
       THEN buffer' = buffer \cup {recorded + 1} /\ UNCHANGED losses
       ELSE losses' = losses + 1 /\ UNCHANGED buffer
    /\ UNCHANGED <<quiet, snapVars, pending, chain, sync, tick, aligned,
                   flushLosses, calls, confirmed, closing, received>>

-----------------------------------------------------------------------------
(* Snapshots.                                                              *)

AggregateTimer ==
    /\ ~closing.stopped /\ ~snapQueued
    /\ snapQueued' = TRUE
    /\ UNCHANGED <<recorded, buffer, quiet, snapshot, pending, chain, sync, tick,
                   aligned, losses, callVars, closing, received, lossesBefore>>

(* Nothing is captured before the server's clock is known, nor when there  *)
(* is nothing to tell; metrics alone may be reason enough.                 *)
SnapshotIdle ==
    /\ snapQueued /\ ~snapshot.running
    /\ ~aligned \/ buffer = {}
    /\ snapQueued' = FALSE
    /\ sync' = [sync EXCEPT !.awaits = IF @ = "queued" THEN "none" ELSE @]
    /\ UNCHANGED <<recorded, buffer, quiet, snapshot, pending, chain, tick,
                   aligned, losses, callVars, closing, received, lossesBefore>>

SnapshotStart ==
    /\ snapQueued /\ ~snapshot.running
    /\ aligned
    /\ IF buffer = {} THEN quiet < MaxQuiet /\ quiet' = quiet + 1 ELSE UNCHANGED quiet
    /\ snapQueued' = FALSE
    /\ snapshot' = [running |-> TRUE, rows |-> buffer]
    /\ buffer' = {}
    /\ sync' = [sync EXCEPT !.awaits = IF @ = "queued" THEN "running" ELSE @]
    /\ UNCHANGED <<recorded, pending, chain, tick, aligned, losses, callVars,
                   closing, received, lossesBefore>>

(* Consecutive frames of the captured events, without those whose row no   *)
(* frame can hold.  Frame and row sizes decide where they are split.       *)
Splits(rows) ==
    {f \in UNION {[1 .. k -> SUBSET rows] : k \in 1 .. MaxSplit} :
        \A i, j \in DOMAIN f : i < j => \A x \in f[i], y \in f[j] : x < y}
Excess(frames) == IF Len(frames) > MaxPending THEN Len(frames) - MaxPending ELSE 0
Newest(frames) == SubSeq(frames, Excess(frames) + 1, Len(frames))
(* Fault: frames that overflow are dropped without a trace.                *)
OnlyRows(frames, dropped) == Cardinality(dropped)
Dropped(frames, dropped) == Excess(frames) + Cardinality(dropped)

(* Whoever awaits the running snapshot goes on, whatever became of it.     *)
(* Fault: an await that is not released.                                   *)
Unreleased(s) == s
Released(s) == [s EXCEPT !.awaits = IF @ = "running" THEN "none" ELSE @]

SnapshotDone ==
    /\ snapshot.running
    /\ \E f \in Splits(snapshot.rows) :
          /\ pending' = Newest(pending \o f)
          /\ losses' = losses + Dropped(pending \o f, snapshot.rows \ Rows(f))
    /\ snapshot' = NoSnapshot
    /\ sync' = Released(sync)
    /\ UNCHANGED <<recorded, buffer, quiet, snapQueued, chain, tick, aligned,
                   callVars, closing, received, lossesBefore>>

(* An event or a log that cannot be serialized costs its whole snapshot.   *)
SnapshotFails ==
    /\ snapshot.running
    /\ losses' = losses + 1
    /\ snapshot' = NoSnapshot
    /\ sync' = Released(sync)
    /\ UNCHANGED <<recorded, buffer, quiet, snapQueued, pending, chain, tick,
                   aligned, callVars, closing, received, lossesBefore>>

-----------------------------------------------------------------------------
(* Requests for a sync.                                                    *)

Joins == IF chain = <<>> THEN FALSE ELSE chain[Len(chain)] # "bootstrap"
Enqueued(kind) ==
    IF ~Joins THEN Append(chain, kind)
    ELSE IF kind = "flush" THEN [chain EXCEPT ![Len(chain)] = "flush"] ELSE chain

(* The timer is armed again when the sync it asked for is over.            *)
MayTick == tick = NoTicket /\ ~closing.stopped
SyncTimer ==
    /\ MayTick
    /\ chain' = Enqueued("tick")
    /\ tick' = Len(Enqueued("tick"))
    /\ UNCHANGED <<recorded, buffer, quiet, snapVars, pending, sync, aligned,
                   losses, callVars, closing, received, lossesBefore>>

flush(c) ==
    /\ calls[c] = NoCall
    /\ flushLosses' = losses
    /\ fresh' = {}
    /\ IF closing.stopped THEN UNCHANGED chain ELSE chain' = Enqueued("flush")
    /\ calls' = [calls EXCEPT ![c] =
                    [losses |-> flushLosses, covers |-> fresh,
                     ticket |-> IF closing.stopped THEN NoTicket
                                ELSE Len(Enqueued("flush"))]]
    /\ UNCHANGED <<recorded, buffer, quiet, snapVars, pending, sync, tick, aligned,
                   losses, confirmed, closing, received, lossesBefore>>

shutdown ==
    /\ ~closing.stopped
    /\ chain' = Enqueued("flush")
    /\ closing' = [closing EXCEPT !.stopped = TRUE, !.after = recorded,
                                  !.ticket = Len(Enqueued("flush"))]
    /\ UNCHANGED <<recorded, buffer, quiet, snapVars, pending, sync, tick, aligned,
                   losses, callVars, received, lossesBefore>>

-----------------------------------------------------------------------------
(* A sync: one pass of snapshot and posts, and a second one when the first *)
(* had to learn the server's clock.                                        *)

(* The snapshot a pass waits for: a new one if it must send everything     *)
(* that is recorded, else the last one there is.                           *)
(* Fault: one that is under way is taken to be enough.                     *)
AnySnapshot(forced) ==
    IF snapshot.running THEN "running" ELSE IF forced \/ snapQueued THEN "queued" ELSE "none"
Awaited(forced) ==
    IF forced \/ snapQueued THEN "queued" ELSE IF snapshot.running THEN "running" ELSE "none"
Pass(forced, again, empty) ==
    /\ sync' = [stage |-> "snapshot", awaits |-> Awaited(forced), again |-> again,
                empty |-> empty, rest |-> <<>>]
    /\ snapQueued' = (snapQueued \/ forced)

Later(ticket) == IF ticket \in Nat \ {0} THEN ticket - 1 ELSE ticket
SyncStart ==
    /\ sync.stage = "idle" /\ chain # <<>>
    /\ chain' = Tail(chain)
    /\ tick' = Later(tick)
    /\ closing' = [closing EXCEPT !.ticket = Later(@)]
    /\ calls' = [c \in Callers |->
                    IF calls[c] = NoCall THEN NoCall
                    ELSE [calls[c] EXCEPT !.ticket = Later(@)]]
    /\ LET forced == Head(chain) # "tick" IN
       IF closing.stopped /\ Head(chain) # "flush"
       THEN sync' = [NoSync EXCEPT !.stage = "skip"] /\ UNCHANGED snapQueued
       ELSE Pass(forced, ~aligned /\ forced, ~aligned \/ forced)
    /\ UNCHANGED <<recorded, buffer, quiet, snapshot, pending, aligned, losses,
                   flushLosses, fresh, confirmed, received, lossesBefore>>

(* Fault: the timer is armed again only after a sync that delivered.       *)
RearmedIfDelivered(delivered) == IF tick = 0 /\ delivered THEN NoTicket ELSE tick
Rearmed(delivered) == IF tick = 0 THEN NoTicket ELSE tick

(* The end of a sync resolves what awaits it.                              *)
Awaits(c) == IF calls[c] = NoCall THEN FALSE ELSE calls[c].ticket = 0
Ok(c, delivered) == delivered /\ losses' = calls[c].losses
Finish(delivered) ==
    /\ sync' = NoSync
    /\ confirmed' = confirmed \cup
           UNION {calls[c].covers : c \in {d \in Callers : Awaits(d) /\ Ok(d, delivered)}}
    /\ calls' = [c \in Callers |-> IF Awaits(c) THEN NoCall ELSE calls[c]]
    /\ tick' = Rearmed(delivered)
    /\ closing' = IF closing.ticket # 0 THEN closing
                  ELSE [closing EXCEPT !.ticket = NoTicket, !.done = TRUE,
                                       !.delivered = delivered]

SkipSync ==
    /\ sync.stage = "skip"
    /\ UNCHANGED losses /\ Finish(TRUE)
    /\ UNCHANGED <<recorded, buffer, quiet, snapVars, pending, chain, aligned,
                   flushLosses, fresh, received, lossesBefore>>

TakePending ==
    /\ sync.stage = "snapshot" /\ sync.awaits = "none"
    /\ sync.empty \/ pending # <<>>
    /\ sync' = [sync EXCEPT !.stage = "sending", !.rest = pending]
    /\ pending' = <<>>
    /\ UNCHANGED <<recorded, buffer, quiet, snapVars, chain, tick, aligned, losses,
                   callVars, closing, received, lossesBefore>>

NothingToSend ==
    /\ sync.stage = "snapshot" /\ sync.awaits = "none"
    /\ ~sync.empty /\ pending = <<>>
    /\ UNCHANGED losses /\ Finish(TRUE)
    /\ UNCHANGED <<recorded, buffer, quiet, snapVars, pending, chain, aligned,
                   flushLosses, fresh, received, lossesBefore>>

(* An envelope: the first frames of the rest, at least one unless there    *)
(* is none.  The item and byte limits decide how many.                     *)
Envelopes == {k \in 0 .. Len(sync.rest) : k = 0 <=> sync.rest = <<>>}
Sent(k) == Rows(SubSeq(sync.rest, 1, k))

PostNext(k) ==
    /\ sync.stage = "sending" /\ k < Len(sync.rest)
    /\ received' = received \cup Sent(k)
    /\ aligned' = TRUE
    /\ sync' = [sync EXCEPT !.rest = SubSeq(sync.rest, k + 1, Len(sync.rest))]
    /\ UNCHANGED <<recorded, buffer, quiet, snapVars, pending, chain, tick, losses,
                   callVars, closing, lossesBefore>>

PostLast(k) ==
    /\ sync.stage = "sending" /\ k = Len(sync.rest)
    /\ received' = received \cup Sent(k)
    /\ aligned' = TRUE
    /\ UNCHANGED losses
    /\ IF sync.again
       THEN /\ Pass(TRUE, FALSE, FALSE)
            /\ UNCHANGED <<calls, confirmed, tick, closing>>
       ELSE Finish(TRUE) /\ UNCHANGED snapQueued
    /\ UNCHANGED <<recorded, buffer, quiet, snapshot, pending, chain, flushLosses,
                   fresh, lossesBefore>>

(* A post that fails, with or without having reached the server: the rest  *)
(* of the batch is discarded.  Fault: it is kept for the next sync.        *)
Requeued == sync.rest \o pending
Kept == pending
PostFails(k, arrived) ==
    /\ sync.stage = "sending"
    /\ received' = IF arrived THEN received \cup Sent(k) ELSE received
    /\ losses' = losses + Len(sync.rest)
    /\ pending' = Kept
    /\ Finish(FALSE)
    /\ UNCHANGED <<recorded, buffer, quiet, snapVars, chain, aligned, flushLosses,
                   fresh, lossesBefore>>

(* flush() after shutdown() answers with what the final sync delivered.    *)
LateAnswer(c) ==
    /\ closing.done
    /\ calls[c] # NoCall
    /\ calls[c].ticket = NoTicket
    /\ confirmed' = IF closing.delivered /\ losses = calls[c].losses
                    THEN confirmed \cup calls[c].covers ELSE confirmed
    /\ calls' = [calls EXCEPT ![c] = NoCall]
    /\ UNCHANGED <<recorded, buffer, quiet, snapVars, pending, chain, sync, tick,
                   aligned, losses, flushLosses, fresh, closing, received, lossesBefore>>

Post == \E k \in Envelopes :
            PostNext(k) \/ PostLast(k) \/ \E arrived \in BOOLEAN : PostFails(k, arrived)
Next ==
    \/ event \/ AggregateTimer \/ SnapshotIdle \/ SnapshotStart
    \/ SnapshotDone \/ SnapshotFails
    \/ SyncTimer \/ shutdown \/ \E c \in Callers : flush(c) \/ LateAnswer(c)
    \/ SyncStart \/ SkipSync \/ TakePending \/ NothingToSend \/ Post

(* Timers fire, promises settle, and httpTimeoutMs ends every post.        *)
Fairness ==
    /\ WF_vars(AggregateTimer) /\ WF_vars(SnapshotIdle \/ SnapshotStart)
    /\ WF_vars(SnapshotDone \/ SnapshotFails)
    /\ WF_vars(SyncTimer) /\ WF_vars(SyncStart) /\ WF_vars(SkipSync)
    /\ WF_vars(TakePending \/ NothingToSend) /\ WF_vars(Post)
    /\ \A c \in Callers : WF_vars(LateAnswer(c))
Spec == Init /\ [][Next]_vars
FairSpec == Spec /\ Fairness

-----------------------------------------------------------------------------
Unsent == buffer \cup snapshot.rows \cup Rows(pending) \cup Rows(sync.rest)

(* Whatever is given up is counted: an event that is neither on its way    *)
(* nor received has raised _deliveryLosses since it was recorded.          *)
NoSilentLoss ==
    \A k \in 1 .. recorded :
        k \in Unsent \/ k \in received \/ losses > lossesBefore[k]

(* "ok is false when anything recorded after the previous flush() call may *)
(* not have reached the server" (README), for what was recorded before     *)
(* shutdown(): joined syncs, failing ones and snapshots under way          *)
(* notwithstanding.                                                        *)
FlushIsHonest ==
    \A k \in confirmed : ~closing.stopped \/ k <= closing.after => k \in received

(* The same for everything recorded.                                       *)
FlushAnswersForAll == confirmed \subseteq received

(* Delivery is at most once and in order: what is still to be sent is      *)
(* younger than all that has arrived, answered or not.                     *)
DeliveredInOrder == \A x \in received, y \in Unsent : x < y

(* Nothing is posted once shutdown() has resolved.                         *)
ShutdownIsFinal == [][closing.done => received' = received /\ sync' = sync]_vars

(* Every flush() and shutdown() resolves.                                  *)
EveryCallResolves ==
    /\ \A c \in Callers : calls[c] # NoCall ~> calls[c] = NoCall
    /\ closing.stopped ~> closing.done

(* Once the clock is known an event does not stay behind: it is sent or    *)
(* given up, unless it came after shutdown().                              *)
EventsLeave ==
    \A k \in 1 .. MaxEvents :
        aligned /\ k <= recorded /\ ~closing.stopped ~> k \notin Unsent
=============================================================================
