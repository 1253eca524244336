---------------------------- MODULE IngestServer ----------------------------
(***************************************************************************)
(* The ingest process as its event loop runs it: HTTP requests that wait   *)
(* for their body, the two concurrency gates, the ingest pipeline, the     *)
(* flush timer of the persistence coordinator, stop(), a crash at any      *)
(* instant and the next start.                                             *)
(*                                                                         *)
(* Node runs one callback at a time, and in the server every SQLite call   *)
(* is synchronous, so one action is one turn of the event loop: the code   *)
(* between two awaits that really wait (a body, a tool call, a stage of    *)
(* stop()).  The ledgers are abstracted to "whose evidence is stored" and  *)
(* history to "whose frames a minute holds"; Experiments, Retention and    *)
(* History model what is behind them.                                      *)
(***************************************************************************)
EXTENDS Naturals, FiniteSets

CONSTANTS
    Requests,           \* HTTP requests, each sent at most once
    Minutes,            \* minute buckets of the one project
    Keys, Roles,        \* credential values and client roles
    Credentials,        \* the records of config.credentials
    Envelopes,          \* the bodies a sync request may carry
    Mcp,                \* model value: the request is for the MCP path
    Nothing,            \* model value: no body to remember (not arrived, or not accepted)
    SyncLimit,          \* capacity.maxConcurrentSyncHandlers
    McpLimit,           \* mcpHttp.maxConcurrentRequests
    MaxPendingBatches,  \* sqlite.maxPendingBatches
    MaxStarts           \* bound: starts of the process

Outcome == {"none", "ok", "refused"}

\* What the code reads of an envelope: the key of its request, the role and
\* whether the project it names is the key's, whether it passes the decoders and
\* validators, what each ledger says of its events, the minutes it updates.
EnvelopeType == [key: Keys, role: Roles, ownProject: BOOLEAN, wellFormed: BOOLEAN,
                 experiment: Outcome, retention: Outcome, minutes: SUBSET Minutes]

ASSUME IngestServerAssumption ==
    /\ IsFiniteSet(Requests)
    /\ SyncLimit \in Nat \ {0} /\ McpLimit \in Nat \ {0}
    /\ MaxPendingBatches \in Nat \ {0} /\ MaxStarts \in Nat \ {0}
    /\ Credentials \in [Keys -> [known: BOOLEAN, enabled: BOOLEAN, roles: SUBSET Roles]]
    /\ Envelopes \subseteq EnvelopeType
    /\ Mcp \notin Envelopes /\ Nothing \notin Envelopes /\ Mcp # Nothing

VARIABLES
    up,             \* the process runs
    starts,         \* starts so far
    phase,          \* [Requests -> where its handler is]
    body,           \* [Requests -> envelope, Mcp or Nothing]
    syncActive,     \* syncGate.active
    mcpActive,      \* requestGate.active of the MCP handler
    connections,    \* activeConnections of the MCP handler
    stopping,       \* health.stopping
    stop,           \* how far stop() is
    awaited,        \* the requests Promise.all was given
    storeOpen,      \* the SQLite handle is open
    sqliteReady,    \* the last probe could write
    exposures,      \* requests whose experiment evidence is stored
    activity,       \* requests whose retention evidence is stored
    held,           \* [Minutes -> requests counted by the bucket in memory]
    disk,           \* [Minutes -> requests counted by the saved bucket]
    unsaved,        \* minutes whose bucket is not acknowledged
    dirtyKinds,     \* kinds marked and not written
    timer,          \* the flush timer is armed
    compaction,     \* the compaction interval is armed
    writeHealthy,   \* the last flush succeeded
    acked,          \* ghost: requests answered 200 since this start
    refused         \* ghost: requests answered with a refusal

process == <<up, starts>>
requests == <<phase, body>>
gates == <<syncActive, mcpActive, connections>>
lifecycle == <<stopping, stop, awaited, storeOpen, sqliteReady>>
evidence == <<exposures, activity>>
history == <<held, disk, unsaved>>
coordinator == <<dirtyKinds, timer, compaction, writeHealthy>>
ghosts == <<acked, refused>>
vars == <<process, requests, gates, lifecycle, evidence, history, coordinator, ghosts>>

Active == {r \in Requests : phase[r] \in {"body", "call"}}
SyncHolders == {r \in Active : body[r] # Mcp}
McpHolders == {r \in Active : body[r] = Mcp}

TypeOK ==
    /\ up \in BOOLEAN /\ starts \in 1..MaxStarts
    /\ phase \in [Requests -> {"new", "body", "call", "gone"}]
    /\ body \in [Requests -> Envelopes \cup {Mcp, Nothing}]
    /\ syncActive \in 0..SyncLimit /\ mcpActive \in 0..McpLimit
    /\ connections \subseteq Requests /\ awaited \subseteq Requests
    /\ stopping \in BOOLEAN
    /\ stop \in {"no", "listener", "mcp", "requests", "sink", "closed", "failed"}
    /\ storeOpen \in BOOLEAN /\ sqliteReady \in BOOLEAN
    /\ exposures \subseteq Requests /\ activity \subseteq Requests
    /\ held \in [Minutes -> SUBSET Requests] /\ disk \in [Minutes -> SUBSET Requests]
    /\ unsaved \subseteq Minutes
    /\ dirtyKinds \subseteq {"history", "sqliteMaintenance"}
    /\ timer \in BOOLEAN /\ compaction \in BOOLEAN /\ writeHealthy \in BOOLEAN
    /\ acked \subseteq Requests /\ refused \subseteq Requests

Init ==
    /\ up = TRUE /\ starts = 1
    /\ phase = [r \in Requests |-> "new"] /\ body = [r \in Requests |-> Nothing]
    /\ syncActive = 0 /\ mcpActive = 0 /\ connections = {}
    /\ stopping = FALSE /\ stop = "no" /\ awaited = {}
    /\ storeOpen = TRUE /\ sqliteReady = TRUE
    /\ exposures = {} /\ activity = {}
    /\ held = [m \in Minutes |-> {}] /\ disk = [m \in Minutes |-> {}] /\ unsaved = {}
    \* the coordinator's constructor marks history and arms the interval
    /\ dirtyKinds = {"history"} /\ timer = TRUE /\ compaction = TRUE /\ writeHealthy = TRUE
    /\ acked = {} /\ refused = {}

-----------------------------------------------------------------------------
(* The coordinator's bookkeeping, shared by the actions below. *)

\* mark(kind): the kind is dirty and a flush is on its way.
Mark(kinds) ==
    /\ dirtyKinds' = dirtyKinds \cup kinds
    /\ timer' = TRUE

\* projectedPending: the buckets that would wait for the next flush.
ProjectedPending(minutes) == Cardinality(unsaved \cup minutes)

CanAcceptHistory(minutes) == ProjectedPending(minutes) <= MaxPendingBatches

\* What a flush does to history when it gets through: everything pending is
\* saved and acknowledged.
SaveAll ==
    /\ disk' = [m \in Minutes |-> IF m \in unsaved THEN held[m] ELSE disk[m]]
    /\ unsaved' = {}
    /\ held' = held

\* A write fails after some of the batches were committed: nothing is
\* acknowledged, the kinds are marked again.
SaveSome ==
    /\ \E saved \in SUBSET unsaved :
          disk' = [m \in Minutes |-> IF m \in saved THEN held[m] ELSE disk[m]]
    /\ UNCHANGED <<held, unsaved>>

DrainSucceeds(kinds) ==
    /\ IF "history" \in kinds THEN SaveAll ELSE UNCHANGED history
    /\ dirtyKinds' = {} /\ timer' = FALSE /\ writeHealthy' = TRUE

\* Maintenance may fail after history got through; retry: the caller arms the timer again.
DrainFails(kinds, retry) ==
    /\ \/ "history" \in kinds /\ SaveSome
       \/ "history" \in kinds /\ "sqliteMaintenance" \in kinds /\ SaveAll
       \/ "history" \notin kinds /\ UNCHANGED history
    /\ dirtyKinds' = kinds /\ timer' = retry /\ writeHealthy' = FALSE

-----------------------------------------------------------------------------
(* Requests: arrival, up to the await for the body. *)

Authenticates(key) == Credentials[key].known /\ Credentials[key].enabled

Authorizes(key, role) == role \in Credentials[key].roles

\* The handler answers 503 when stopping, 503 at the gate, 401 or 415 before it
\* waits for anything: the slot it may have taken is back within the turn.
Turnaway(r) ==
    /\ up /\ phase[r] = "new"
    /\ \/ stopping
       \/ syncActive >= SyncLimit \/ mcpActive >= McpLimit
       \/ \E key \in Keys : ~Authenticates(key)
    /\ phase' = [phase EXCEPT ![r] = "gone"]
    /\ refused' = refused \cup {r}
    /\ UNCHANGED <<process, body, gates, lifecycle, evidence, history, coordinator, acked>>

SyncArrives(r) ==
    /\ up /\ phase[r] = "new" /\ ~stopping
    /\ syncActive < SyncLimit
    /\ \E e \in Envelopes : Authenticates(e.key) /\ body' = [body EXCEPT ![r] = e]
    /\ syncActive' = syncActive + 1
    /\ phase' = [phase EXCEPT ![r] = "body"]
    /\ UNCHANGED <<process, mcpActive, connections, lifecycle, evidence, history, coordinator, ghosts>>

McpArrives(r) ==
    /\ up /\ phase[r] = "new" /\ ~stopping
    /\ mcpActive < McpLimit
    /\ body' = [body EXCEPT ![r] = Mcp]
    /\ mcpActive' = mcpActive + 1
    /\ phase' = [phase EXCEPT ![r] = "body"]
    /\ UNCHANGED <<process, syncActive, connections, lifecycle, evidence, history, coordinator, ghosts>>

\* Mutant: the lease is released behind the answer, not in a finally block.
LeaseKept(r, accepted) ==
    /\ phase' = [phase EXCEPT ![r] = "gone"]
    /\ body' = [body EXCEPT ![r] = IF accepted THEN @ ELSE Nothing]
    /\ IF body[r] = Mcp
       THEN mcpActive' = mcpActive - 1 /\ UNCHANGED syncActive
       ELSE /\ syncActive' = IF accepted THEN syncActive - 1 ELSE syncActive
            /\ UNCHANGED mcpActive
    /\ connections' = connections \ {r}

\* The handler's promise settles: its lease is released, activeRequests forgets it.
\* (The body of an accepted envelope stays on record for the properties.)
Settle(r, accepted) ==
    /\ phase' = [phase EXCEPT ![r] = "gone"]
    /\ body' = [body EXCEPT ![r] = IF accepted THEN @ ELSE Nothing]
    /\ IF body[r] = Mcp
       THEN mcpActive' = mcpActive - 1 /\ UNCHANGED syncActive
       ELSE syncActive' = syncActive - 1 /\ UNCHANGED mcpActive
    /\ connections' = connections \ {r}

\* Mutant: only the sync endpoint arms the timer.
OnlySyncTimesOut(r) ==
    /\ up /\ phase[r] = "body" /\ body[r] # Mcp
    /\ Settle(r, FALSE)
    /\ refused' = refused \cup {r}
    /\ UNCHANGED <<process, lifecycle, evidence, history, coordinator, acked>>

\* The body timer fires, the client goes away or the body is too large.  Each
\* way out passes the same finally blocks; not every one has an answer.
BodyFails(r) ==
    /\ up /\ phase[r] = "body"
    /\ Settle(r, FALSE)
    /\ refused' = refused \cup {r}
    /\ UNCHANGED <<process, lifecycle, evidence, history, coordinator, acked>>

-----------------------------------------------------------------------------
(* The ingest pipeline: one turn, from the complete body to the answer. *)

\* experimentLedger.ingestBatch and then retentionLedger.ingestBatch, in one
\* transaction whenever the envelope has retention events: a RetentionInputError
\* takes the experiment evidence back, and refused experiment evidence keeps the
\* retention ledger from being asked.
EvidenceStands(e) == e.experiment # "refused" /\ e.retention # "refused"

\* Mutant: each ledger commits for itself.
NotRolledBack(r, e) ==
    /\ exposures' = IF e.experiment = "ok" THEN exposures \cup {r} ELSE exposures
    /\ activity' = IF EvidenceStands(e) /\ e.retention = "ok" THEN activity \cup {r} ELSE activity

StoreEvidence(r, e) ==
    /\ exposures' = IF EvidenceStands(e) /\ e.experiment = "ok" THEN exposures \cup {r} ELSE exposures
    /\ activity' = IF EvidenceStands(e) /\ e.retention = "ok" THEN activity \cup {r} ELSE activity

\* project.commitIngest and the mark that follows it.
CommitIngest(r, e) ==
    /\ held' = [m \in Minutes |-> IF m \in e.minutes THEN held[m] \cup {r} ELSE held[m]]
    /\ unsaved' = unsaved \cup e.minutes
    /\ disk' = disk
    /\ IF e.minutes # {} THEN Mark({"history"}) ELSE UNCHANGED <<dirtyKinds, timer>>

\* The envelope passes every check before the first ledger is asked.
Fit(e) ==
    /\ e.wellFormed /\ Authorizes(e.key, e.role) /\ e.ownProject
    /\ CanAcceptHistory(e.minutes)

Ingest(r) ==
    /\ up /\ phase[r] = "body" /\ body[r] # Mcp
    /\ LET e == body[r]
           accepted == Fit(e) /\ EvidenceStands(e)
       IN  /\ Settle(r, accepted)
           /\ IF Fit(e) THEN StoreEvidence(r, e) ELSE UNCHANGED evidence
           /\ \/ /\ accepted
                 /\ CommitIngest(r, e)
                 /\ acked' = acked \cup {r} /\ UNCHANGED refused
              \/ /\ ~accepted
                 /\ refused' = refused \cup {r}
                 /\ UNCHANGED <<history, dirtyKinds, timer, acked>>
    /\ UNCHANGED <<process, lifecycle, compaction, writeHealthy>>

-----------------------------------------------------------------------------
(* MCP over HTTP. *)

\* The body is read and parsed, the connection registered and the call handed on.
\* Nothing asks again whether the server is stopping.
McpCall(r) ==
    /\ up /\ phase[r] = "body" /\ body[r] = Mcp
    /\ phase' = [phase EXCEPT ![r] = "call"]
    /\ connections' = connections \cup {r}
    /\ UNCHANGED <<process, body, syncActive, mcpActive, lifecycle, evidence, history, coordinator, ghosts>>

\* handleRequest returns (answered, or its connection was closed); the finally
\* blocks close the connection and release the slot.
McpReturns(r) ==
    /\ up /\ phase[r] = "call"
    /\ Settle(r, FALSE)
    /\ UNCHANGED <<process, lifecycle, evidence, history, coordinator, ghosts>>

-----------------------------------------------------------------------------
(* Timers. *)

\* _schedule's timer fires: the flush gets through, or it fails and the catch
\* schedules the next.
FlushSucceeds ==
    /\ up /\ timer /\ storeOpen
    /\ DrainSucceeds(dirtyKinds)
    /\ UNCHANGED <<process, requests, gates, lifecycle, evidence, compaction, ghosts>>

\* Mutant: the catch reports and leaves it at that.
FailsForGood ==
    /\ up /\ timer /\ dirtyKinds # {}
    /\ DrainFails(dirtyKinds, FALSE)
    /\ UNCHANGED <<process, requests, gates, lifecycle, evidence, compaction, ghosts>>

FlushFails ==
    /\ up /\ timer /\ dirtyKinds # {}
    /\ DrainFails(dirtyKinds, TRUE)
    /\ UNCHANGED <<process, requests, gates, lifecycle, evidence, compaction, ghosts>>

\* The interval marks history and sqliteMaintenance.
CompactionTick ==
    /\ up /\ compaction
    /\ Mark({"history", "sqliteMaintenance"})
    /\ UNCHANGED <<process, requests, gates, lifecycle, evidence, history, compaction, writeHealthy, ghosts>>

\* probe(): can the store be written?
Probe ==
    /\ up /\ ~stopping
    /\ sqliteReady' \in BOOLEAN
    /\ UNCHANGED <<process, requests, gates, stopping, stop, awaited, storeOpen, evidence, history, coordinator, ghosts>>

-----------------------------------------------------------------------------
(* stop(), stage by stage. *)

\* stop() is memoized and raises the flag at once.  A server of its own that
\* listens is closed first; a mounted handler has no listener to close.
StopCalled ==
    /\ up /\ stop = "no"
    /\ stopping' = TRUE
    /\ stop' \in {"listener", "mcp"}
    /\ UNCHANGED <<process, requests, gates, awaited, storeOpen, sqliteReady, evidence, history, coordinator, ghosts>>

\* server.close() calls back when the open connections have ended.
ListenerClosed ==
    /\ up /\ stop = "listener" /\ Active = {}
    /\ stop' = "mcp"
    /\ UNCHANGED <<process, requests, gates, stopping, awaited, storeOpen, sqliteReady, evidence, history, coordinator, ghosts>>

\* Mutant: active requests are not waited for.
AwaitsNobody ==
    /\ up /\ stop = "mcp"
    /\ connections' = {}
    /\ awaited' = {}
    /\ stop' = "requests"
    /\ UNCHANGED <<process, requests, syncActive, mcpActive, stopping, storeOpen, sqliteReady, evidence, history, coordinator, ghosts>>

\* mcpHttp.stop() closes the connections there are; Promise.all then takes the
\* requests that are active at that moment.
McpStopped ==
    /\ up /\ stop = "mcp"
    /\ connections' = {}
    /\ awaited' = Active
    /\ stop' = "requests"
    /\ UNCHANGED <<process, requests, syncActive, mcpActive, stopping, storeOpen, sqliteReady, evidence, history, coordinator, ghosts>>

\* Mutant: a failed last flush is reported and stop() goes on.
FailureGoesOn ==
    /\ up /\ stop = "requests" /\ awaited \cap Active = {}
    /\ compaction' = FALSE
    /\ \/ DrainSucceeds(dirtyKinds \cup {"history"}) /\ stop' = "sink"
       \/ DrainFails(dirtyKinds \cup {"history"}, FALSE) /\ stop' = "sink"
    /\ UNCHANGED <<process, requests, gates, stopping, awaited, storeOpen, sqliteReady, evidence, ghosts>>

\* persistence.close(): the interval is cleared, history marked and flushed; a flush
\* that fails rejects stop() for good, with store and sink left open.
PersistenceClosed ==
    /\ up /\ stop = "requests" /\ awaited \cap Active = {}
    /\ compaction' = FALSE
    /\ \/ DrainSucceeds(dirtyKinds \cup {"history"}) /\ stop' = "sink"
       \/ DrainFails(dirtyKinds \cup {"history"}, FALSE) /\ stop' = "failed"
    /\ UNCHANGED <<process, requests, gates, stopping, awaited, storeOpen, sqliteReady, evidence, ghosts>>

\* The sink is closed, and then the store.
StoreClosed ==
    /\ up /\ stop = "sink"
    /\ storeOpen' = FALSE
    /\ stop' = "closed"
    /\ UNCHANGED <<process, requests, gates, stopping, awaited, sqliteReady, evidence, history, coordinator, ghosts>>

-----------------------------------------------------------------------------
(* The end of a process and the start of the next. *)

\* Memory is gone; what the process was doing is not answered.
Die ==
    /\ up' = FALSE
    /\ phase' = [r \in Requests |-> IF r \in Active THEN "gone" ELSE phase[r]]
    /\ body' = [r \in Requests |-> IF r \in Active THEN Nothing ELSE body[r]]
    /\ syncActive' = 0 /\ mcpActive' = 0 /\ connections' = {}
    /\ stopping' = FALSE /\ stop' = "no" /\ awaited' = {}
    /\ storeOpen' = FALSE /\ sqliteReady' = FALSE
    /\ held' = [m \in Minutes |-> {}] /\ unsaved' = {} /\ disk' = disk
    /\ dirtyKinds' = {} /\ timer' = FALSE /\ compaction' = FALSE
    /\ acked' = {}
    /\ UNCHANGED <<starts, writeHealthy, refused>>

\* A kill, or the exit startServer makes when stop() has settled.
Crash == up /\ Die /\ UNCHANGED evidence

\* A kill between the committed evidence and the rest of the ingest.
CrashInIngest(r) ==
    /\ up /\ phase[r] = "body" /\ body[r] # Mcp
    /\ Fit(body[r]) /\ EvidenceStands(body[r])
    /\ StoreEvidence(r, body[r])
    /\ Die

\* createIngestRuntime: the store is opened, the saved buckets seed the history,
\* the coordinator marks history and arms its interval, health probes.
Start ==
    /\ ~up /\ starts < MaxStarts
    /\ up' = TRUE /\ starts' = starts + 1
    /\ held' = disk
    /\ storeOpen' = TRUE /\ sqliteReady' \in BOOLEAN
    /\ Mark({"history"})
    /\ compaction' = TRUE /\ writeHealthy' = TRUE
    /\ UNCHANGED <<requests, gates, stopping, stop, awaited, evidence, disk, unsaved, ghosts>>

Next ==
    \/ \E r \in Requests :
          \/ Turnaway(r) \/ SyncArrives(r) \/ McpArrives(r)
          \/ BodyFails(r) \/ Ingest(r) \/ McpCall(r) \/ McpReturns(r)
          \/ CrashInIngest(r)
    \/ FlushSucceeds \/ FlushFails \/ CompactionTick \/ Probe
    \/ StopCalled \/ ListenerClosed \/ McpStopped \/ PersistenceClosed \/ StoreClosed
    \/ Crash \/ Start

Spec == Init /\ [][Next]_vars

(***************************************************************************)
(* Every body wait ends, because bodyTimer is armed before it; a tool call *)
(* returns (tools do synchronous work under the read gate); armed timers   *)
(* fire; stop() goes on when what it awaits has settled.  Writing is not   *)
(* assumed to work, only not to fail for ever: strong fairness for the     *)
(* flush that gets through.                                                *)
(***************************************************************************)
Fairness ==
    /\ \A r \in Requests : WF_vars(BodyFails(r)) /\ WF_vars(McpReturns(r))
    /\ SF_vars(FlushSucceeds) /\ WF_vars(FlushFails)
    /\ WF_vars(ListenerClosed) /\ WF_vars(McpStopped)
    /\ WF_vars(PersistenceClosed) /\ WF_vars(StoreClosed)

FairSpec == Spec /\ Fairness

-----------------------------------------------------------------------------
(* Properties. *)

\* Once stop() has closed the SQLite handle nothing is left that could use it: no
\* request on its way to a ledger, no tool call, no flush timer, no interval.
StoreOutlivesItsUsers ==
    up /\ ~storeOpen => Active = {} /\ ~timer /\ ~compaction

\* Whatever way a request ends - answered, refused, timed out, its connection closed
\* by stop() - each gate counts exactly the requests that hold one of its slots.
LeasesMatchHolders ==
    /\ syncActive = Cardinality(SyncHolders)
    /\ mcpActive = Cardinality(McpHolders)

\* An answered envelope is in both ledgers and in the history in memory; a refused
\* one is nowhere; and saved history never counts an envelope whose evidence is
\* missing, wherever the process was killed.
EvidenceAndHistoryAgree ==
    /\ \A r \in acked : \A m \in body[r].minutes : r \in held[m]
    /\ \A r \in acked \cup UNION {disk[m] : m \in Minutes} :
          /\ body[r].experiment = "ok" => r \in exposures
          /\ body[r].retention = "ok" => r \in activity
    /\ \A r \in refused : r \notin exposures \cup activity \cup UNION {held[m] \cup disk[m] : m \in Minutes}

\* When stop() resolves, every envelope answered 200 since the start is on disk.
CleanStopKeepsAcked ==
    stop \in {"sink", "closed"} =>
        \A r \in acked : \A m \in body[r].minutes : r \in disk[m]

\* stop() settles: it waits for requests whose body never comes no longer than
\* their timer, and for nothing that arrives after it was called.
StopSettles == stop # "no" ~> stop \in {"closed", "failed", "no"}

\* A minute whose bucket waits to be saved is saved, however often a flush fails,
\* unless the process dies or stop() gives up.
UnsavedIsRetried ==
    \A m \in Minutes : m \in unsaved ~> m \notin unsaved \/ stop = "failed"
=============================================================================
