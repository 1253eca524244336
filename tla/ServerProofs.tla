---------------------------- MODULE ServerProofs ----------------------------
(***************************************************************************)
(* Theorems about the server: the ingest process, and the views in memory  *)
(* that its commit feeds.                                                  *)
(*                                                                         *)
(* The process, for every finite set of requests, every set of minutes,    *)
(* credentials and envelopes, and all limits: two arguments, one for each  *)
(* half of its state.  About the process: a gate counts its holders, and   *)
(* from stage to stage stop() leaves less behind that could still run      *)
(* (Stages).  About the records: a request that is anywhere on record is   *)
(* over (RecordsAreSettled), so no later step of it can disagree, and      *)
(* memory and disk differ only in minutes that wait to be saved            *)
(* (MemoryAgrees).                                                         *)
(*                                                                         *)
(* The views, for every capacity and every set of batches: an ingest is a  *)
(* computation along a frame's items, so every lemma about it is an        *)
(* induction along them, and says that one more arrival leaves each view   *)
(* (the windows, the rollups with the rows since them, the rings) equal to *)
(* what the reference definitions say of all arrivals (ViewsInv).  A       *)
(* window is exact only because a series that it refused finds it full     *)
(* for good (RefusedAreFull), and a ring only because the order of its     *)
(* cells is arithmetic modulo its size (RingPush).                         *)
(***************************************************************************)
EXTENDS IngestServer, LiveViews, FiniteSetTheorems, SequenceTheorems, WellFoundedInduction, TLAPS

-----------------------------------------------------------------------------
(* The parts of the inductive invariant.                                   *)

BodiesAreThere == \A r \in Active : body[r] # Nothing

(* What is left when the process is down, and at each stage of stop().     *)
Stages ==
    /\ stop # "no" => up /\ stopping
    /\ ~up => Active = {} /\ ~timer /\ ~compaction /\ unsaved = {} /\ acked = {}
    /\ up /\ stop # "closed" => storeOpen
    /\ stop \in {"requests", "sink", "closed", "failed"} => Active \subseteq awaited
    /\ stop \in {"sink", "closed", "failed"} => Active = {} /\ ~timer /\ ~compaction
    /\ stop \in {"sink", "closed"} => unsaved = {}

InHistory(r) == \E m \in Minutes : r \in held[m] \cup disk[m]

RecordsAreSettled ==
    \A r \in Requests :
        r \in exposures \cup activity \cup acked \cup refused \/ InHistory(r) => phase[r] = "gone"

HasEvidence(r) ==
    /\ body[r] \in Envelopes
    /\ body[r].experiment = "ok" => r \in exposures
    /\ body[r].retention = "ok" => r \in activity

Evidence ==
    /\ \A r \in acked : \A m \in body[r].minutes : r \in held[m]
    /\ \A r \in Requests : r \in acked \/ InHistory(r) => HasEvidence(r)
    /\ \A r \in refused : r \notin exposures \cup activity /\ ~InHistory(r)

MemoryAgrees ==
    up => \A m \in Minutes : /\ disk[m] \subseteq held[m]
                             /\ m \notin unsaved => held[m] \subseteq disk[m]

ProcessInv == TypeOK /\ LeasesMatchHolders /\ BodiesAreThere /\ Stages
RecordInv == RecordsAreSettled /\ Evidence /\ MemoryAgrees

-----------------------------------------------------------------------------
(* Cardinalities of the sets of holders.                                   *)

LEMMA HoldersAreFinite ==
    /\ IsFiniteSet(SyncHolders) /\ IsFiniteSet(McpHolders)
    /\ Cardinality(SyncHolders) \in Nat /\ Cardinality(McpHolders) \in Nat
<1>1. SyncHolders \in SUBSET Requests /\ McpHolders \in SUBSET Requests
    BY DEF SyncHolders, McpHolders, Active
<1> QED
    BY <1>1, FS_Subset, FS_CardinalityType, IngestServerAssumption

(* A request that ends gives back the slot it held, and only that one.     *)
LEMMA SettleReleases ==
    ASSUME ProcessInv, NEW r \in Active, NEW fits \in BOOLEAN, Settle(r, fits)
    PROVE  /\ phase' \in [Requests -> {"new", "body", "call", "gone"}]
           /\ body' \in [Requests -> Envelopes \cup {Mcp, Nothing}]
           /\ syncActive' \in 0 .. SyncLimit /\ mcpActive' \in 0 .. McpLimit
           /\ connections' \subseteq Requests
           /\ LeasesMatchHolders'
           /\ Active' = Active \ {r}
           /\ \A q \in Active' : body'[q] = body[q]
<1> USE DEF ProcessInv
<1>1. r \in Requests
    BY DEF Active
<1>2. /\ phase' \in [Requests -> {"new", "body", "call", "gone"}]
      /\ body' \in [Requests -> Envelopes \cup {Mcp, Nothing}]
      /\ connections' \subseteq Requests
    BY <1>1 DEF TypeOK, Settle
<1>3. Active' = Active \ {r}
    BY <1>1 DEF TypeOK, Settle, Active
<1>4. \A q \in Requests \ {r} : body'[q] = body[q]
    BY <1>1 DEF TypeOK, Settle
<1>5. \A q \in Active' : body'[q] = body[q]
    BY <1>3, <1>4 DEF Active
<1>6. /\ SyncLimit \in Nat /\ McpLimit \in Nat
      /\ syncActive \in 0 .. SyncLimit /\ mcpActive \in 0 .. McpLimit
    BY IngestServerAssumption DEF TypeOK
<1>7. CASE body[r] = Mcp
  <2>1. McpHolders' = McpHolders \ {r} /\ SyncHolders' = SyncHolders
    <3>1. r \in McpHolders /\ r \notin SyncHolders
        BY <1>7 DEF McpHolders, SyncHolders
    <3> QED
        BY <1>3, <1>5, <3>1 DEF McpHolders, SyncHolders
  <2>2. r \in McpHolders
    BY <1>7 DEF McpHolders
  <2>3. Cardinality(McpHolders') = Cardinality(McpHolders) - 1
    BY <2>1, <2>2, HoldersAreFinite, FS_RemoveElement
  <2>4. Cardinality(McpHolders') \in Nat
    BY <2>1, HoldersAreFinite, FS_RemoveElement, FS_CardinalityType
  <2>5. mcpActive' = mcpActive - 1 /\ syncActive' = syncActive
    BY <1>7 DEF Settle
  <2>6. LeasesMatchHolders'
    BY <2>1, <2>3, <2>5 DEF LeasesMatchHolders
  <2>7. syncActive' \in 0 .. SyncLimit /\ mcpActive' \in 0 .. McpLimit
    BY <1>6, <2>3, <2>4, <2>5 DEF LeasesMatchHolders
  <2> QED
    BY <1>2, <1>3, <1>5, <2>6, <2>7
<1>8. CASE body[r] # Mcp
  <2>1. McpHolders' = McpHolders /\ SyncHolders' = SyncHolders \ {r}
    <3>1. r \notin McpHolders /\ r \in SyncHolders
        BY <1>8 DEF McpHolders, SyncHolders
    <3> QED
        BY <1>3, <1>5, <3>1 DEF McpHolders, SyncHolders
  <2>2. r \in SyncHolders
    BY <1>8 DEF SyncHolders
  <2>3. Cardinality(SyncHolders') = Cardinality(SyncHolders) - 1
    BY <2>1, <2>2, HoldersAreFinite, FS_RemoveElement
  <2>4. Cardinality(SyncHolders') \in Nat
    BY <2>1, HoldersAreFinite, FS_RemoveElement, FS_CardinalityType
  <2>5. syncActive' = syncActive - 1 /\ mcpActive' = mcpActive
    BY <1>8 DEF Settle
  <2>6. LeasesMatchHolders'
    BY <2>1, <2>3, <2>5 DEF LeasesMatchHolders
  <2>7. syncActive' \in 0 .. SyncLimit /\ mcpActive' \in 0 .. McpLimit
    BY <1>6, <2>3, <2>4, <2>5 DEF LeasesMatchHolders
  <2> QED
    BY <1>2, <1>3, <1>5, <2>6, <2>7
<1> QED
    BY <1>7, <1>8

(* A request that waits for its body holds one slot of the gate it passed. *)
LEMMA ArrivalTakesASlot ==
    ASSUME ProcessInv, NEW r \in Requests, SyncArrives(r) \/ McpArrives(r)
    PROVE  /\ phase' \in [Requests -> {"new", "body", "call", "gone"}]
           /\ body' \in [Requests -> Envelopes \cup {Mcp, Nothing}]
           /\ syncActive' \in 0 .. SyncLimit /\ mcpActive' \in 0 .. McpLimit
           /\ LeasesMatchHolders' /\ BodiesAreThere'
<1> USE DEF ProcessInv
<1>1. /\ SyncLimit \in Nat /\ McpLimit \in Nat
      /\ syncActive \in 0 .. SyncLimit /\ mcpActive \in 0 .. McpLimit
    BY IngestServerAssumption DEF TypeOK
<1>2. /\ phase' \in [Requests -> {"new", "body", "call", "gone"}]
      /\ body' \in [Requests -> Envelopes \cup {Mcp, Nothing}]
      /\ \A q \in Requests \ {r} : body'[q] = body[q]
    BY DEF TypeOK, SyncArrives, McpArrives
<1>3. Active' = Active \cup {r} /\ r \notin Active
    BY DEF TypeOK, SyncArrives, McpArrives, Active
<1>4. body'[r] # Nothing
    BY IngestServerAssumption DEF TypeOK, SyncArrives, McpArrives
<1>5. BodiesAreThere'
  <2> SUFFICES ASSUME NEW q \in Active' PROVE body'[q] # Nothing
      BY DEF BodiesAreThere
  <2>1. CASE q = r
      BY <1>4, <2>1
  <2>2. CASE q # r
      BY <1>2, <1>3, <2>2 DEF BodiesAreThere, Active
  <2> QED
      BY <2>1, <2>2
<1>6. CASE SyncArrives(r)
  <2>1. body'[r] # Mcp
      BY <1>6, IngestServerAssumption DEF TypeOK, SyncArrives
  <2>2. SyncHolders' = SyncHolders \cup {r} /\ McpHolders' = McpHolders
      BY <1>2, <1>3, <2>1 DEF SyncHolders, McpHolders, Active
  <2>3. r \notin SyncHolders
      BY <1>3 DEF SyncHolders
  <2>4. Cardinality(SyncHolders') = Cardinality(SyncHolders) + 1
      BY <2>2, <2>3, HoldersAreFinite, FS_AddElement
  <2>5. syncActive' = syncActive + 1 /\ syncActive < SyncLimit /\ mcpActive' = mcpActive
      BY <1>6 DEF SyncArrives
  <2>6. LeasesMatchHolders'
      BY <2>2, <2>4, <2>5 DEF LeasesMatchHolders
  <2>7. syncActive' \in 0 .. SyncLimit /\ mcpActive' \in 0 .. McpLimit
      BY <1>1, <2>5
  <2> QED
      BY <1>2, <1>5, <2>6, <2>7
<1>7. CASE McpArrives(r)
  <2>1. body'[r] = Mcp
      BY <1>7 DEF TypeOK, McpArrives
  <2>2. McpHolders' = McpHolders \cup {r} /\ SyncHolders' = SyncHolders
      BY <1>2, <1>3, <2>1 DEF SyncHolders, McpHolders, Active
  <2>3. r \notin McpHolders
      BY <1>3 DEF McpHolders
  <2>4. Cardinality(McpHolders') = Cardinality(McpHolders) + 1
      BY <2>2, <2>3, HoldersAreFinite, FS_AddElement
  <2>5. mcpActive' = mcpActive + 1 /\ mcpActive < McpLimit /\ syncActive' = syncActive
      BY <1>7 DEF McpArrives
  <2>6. LeasesMatchHolders'
      BY <2>2, <2>4, <2>5 DEF LeasesMatchHolders
  <2>7. syncActive' \in 0 .. SyncLimit /\ mcpActive' \in 0 .. McpLimit
      BY <1>1, <2>5
  <2> QED
      BY <1>2, <1>5, <2>6, <2>7
<1> QED
    BY <1>6, <1>7

-----------------------------------------------------------------------------
(* The process: types, slots and stages.                                   *)

(* Nothing holds a slot once nobody is active.                             *)
LEMMA NobodyHoldsASlot ==
    ASSUME Active = {}
    PROVE  Cardinality(SyncHolders) = 0 /\ Cardinality(McpHolders) = 0
<1>1. SyncHolders = {} /\ McpHolders = {}
    BY DEF SyncHolders, McpHolders
<1> QED
    BY <1>1, FS_EmptySet

LEMMA ProcessInvInit == Init => ProcessInv
<1> SUFFICES ASSUME Init PROVE ProcessInv
    OBVIOUS
<1>1. Active = {}
    BY DEF Init, Active
<1>2. 0 \in 0 .. SyncLimit /\ 0 \in 0 .. McpLimit /\ 1 \in 1 .. MaxStarts
    BY IngestServerAssumption
<1>3. TypeOK
    BY <1>2 DEF Init, TypeOK
<1>4. LeasesMatchHolders
    BY <1>1, NobodyHoldsASlot DEF Init, LeasesMatchHolders
<1>5. BodiesAreThere /\ Stages
    BY <1>1 DEF Init, BodiesAreThere, Stages
<1> QED
    BY <1>3, <1>4, <1>5 DEF ProcessInv

(* The holders depend on phase and body alone.                             *)
LEMMA SameHolders ==
    ASSUME phase' = phase, body' = body
    PROVE  Active' = Active /\ SyncHolders' = SyncHolders /\ McpHolders' = McpHolders
BY DEF Active, SyncHolders, McpHolders

(* What a flush writes and leaves are saved buckets and pending minutes.   *)
LEMMA FlushTypes ==
    ASSUME TypeOK, NEW kinds \in SUBSET {"history", "sqliteMaintenance"}, NEW retry \in BOOLEAN,
           DrainSucceeds(kinds) \/ DrainFails(kinds, retry)
    PROVE  /\ held' = held /\ disk' \in [Minutes -> SUBSET Requests] /\ unsaved' \subseteq unsaved
           /\ dirtyKinds' \subseteq kinds /\ timer' \in BOOLEAN /\ writeHealthy' \in BOOLEAN
           /\ \A m \in Minutes : disk'[m] = disk[m] \/ disk'[m] = held[m]
           /\ \A m \in Minutes : m \in unsaved \ unsaved' => disk'[m] = held[m]
<1>1. CASE SaveAll
    BY <1>1 DEF SaveAll, TypeOK, DrainSucceeds, DrainFails
<1>2. CASE SaveSome
  <2>1. PICK saved \in SUBSET unsaved :
            disk' = [m \in Minutes |-> IF m \in saved THEN held[m] ELSE disk[m]]
      BY <1>2 DEF SaveSome
  <2> QED
      BY <1>2, <2>1 DEF SaveSome, TypeOK, DrainSucceeds, DrainFails
<1>3. CASE UNCHANGED history
    BY <1>3 DEF history, TypeOK, DrainSucceeds, DrainFails
<1> QED
    BY <1>1, <1>2, <1>3 DEF DrainSucceeds, DrainFails

LEMMA ProcessInvArrivals ==
    ASSUME ProcessInv, NEW r \in Requests, Turnaway(r) \/ SyncArrives(r) \/ McpArrives(r) \/ McpCall(r)
    PROVE  ProcessInv'
<1> USE DEF ProcessInv
<1>1. CASE Turnaway(r)
  <2>1. Active' = Active /\ body' = body
      BY <1>1 DEF Turnaway, TypeOK, Active
  <2>2. TypeOK'
      BY <1>1 DEF Turnaway, TypeOK, process, gates, lifecycle, evidence, history, coordinator
  <2>3. LeasesMatchHolders' /\ BodiesAreThere'
      BY <1>1, <2>1 DEF Turnaway, LeasesMatchHolders, SyncHolders, McpHolders, BodiesAreThere, gates
  <2>4. Stages'
      BY <1>1, <2>1 DEF Turnaway, Stages, process, lifecycle, history, coordinator
  <2> QED
      BY <2>2, <2>3, <2>4
<1>2. CASE SyncArrives(r) \/ McpArrives(r)
  <2>1. /\ phase' \in [Requests -> {"new", "body", "call", "gone"}]
        /\ body' \in [Requests -> Envelopes \cup {Mcp, Nothing}]
        /\ syncActive' \in 0 .. SyncLimit /\ mcpActive' \in 0 .. McpLimit
        /\ LeasesMatchHolders' /\ BodiesAreThere'
    <3> HIDE DEF ProcessInv
    <3> QED
        BY <1>2, ArrivalTakesASlot
  <2>2. TypeOK'
      BY <1>2, <2>1
         DEF SyncArrives, McpArrives, TypeOK, process, lifecycle, evidence, history, coordinator, ghosts
  <2>3. stop = "no" /\ up
      BY <1>2 DEF SyncArrives, McpArrives, Stages
  <2>4. Stages'
      BY <1>2, <2>3
         DEF SyncArrives, McpArrives, Stages, process, lifecycle, history, coordinator, ghosts
  <2> QED
      BY <2>1, <2>2, <2>4
<1>3. CASE McpCall(r)
  <2>1. Active' = Active /\ body' = body
      BY <1>3 DEF McpCall, TypeOK, Active
  <2>2. TypeOK'
      BY <1>3 DEF McpCall, TypeOK, process, lifecycle, evidence, history, coordinator, ghosts
  <2>3. LeasesMatchHolders' /\ BodiesAreThere'
      BY <1>3, <2>1 DEF McpCall, LeasesMatchHolders, SyncHolders, McpHolders, BodiesAreThere
  <2>4. Stages'
      BY <1>3, <2>1 DEF McpCall, Stages, process, lifecycle, history, coordinator, ghosts
  <2> QED
      BY <2>2, <2>3, <2>4
<1> QED
    BY <1>1, <1>2, <1>3

LEMMA ProcessInvEnds ==
    ASSUME ProcessInv, NEW r \in Requests, BodyFails(r) \/ Ingest(r) \/ McpReturns(r)
    PROVE  ProcessInv'
<1> USE DEF ProcessInv
<1>1. r \in Active /\ up
    BY DEF BodyFails, Ingest, McpReturns, Active
<1>2. PICK fits \in BOOLEAN : Settle(r, fits)
  <2>1. CASE Ingest(r)
    <3>1. Settle(r, Fit(body[r]) /\ EvidenceStands(body[r]))
        BY <2>1 DEF Ingest
    <3>2. (Fit(body[r]) /\ EvidenceStands(body[r])) \in BOOLEAN
        BY DEF Fit, EvidenceStands
    <3> QED
        BY <3>1, <3>2
  <2> QED
      BY <2>1 DEF BodyFails, McpReturns
<1>3. /\ phase' \in [Requests -> {"new", "body", "call", "gone"}]
      /\ body' \in [Requests -> Envelopes \cup {Mcp, Nothing}]
      /\ syncActive' \in 0 .. SyncLimit /\ mcpActive' \in 0 .. McpLimit
      /\ connections' \subseteq Requests
      /\ LeasesMatchHolders'
      /\ Active' = Active \ {r}
      /\ \A q \in Active' : body'[q] = body[q]
    BY <1>1, <1>2, SettleReleases
<1>4. BodiesAreThere'
    BY <1>3 DEF BodiesAreThere
<1>5. stop \notin {"sink", "closed", "failed"}
    BY <1>1 DEF Stages
<1>6. CASE BodyFails(r) \/ McpReturns(r)
  <2>1. TypeOK'
      BY <1>3, <1>6
         DEF BodyFails, McpReturns, TypeOK, process, lifecycle, evidence, history, coordinator, ghosts
  <2>2. Stages'
      BY <1>1, <1>3, <1>5, <1>6
         DEF BodyFails, McpReturns, Stages, process, lifecycle, history, coordinator, ghosts
  <2> QED
      BY <1>3, <1>4, <2>1, <2>2
<1>7. CASE Ingest(r)
  <2>1. body[r] \in Envelopes
      BY <1>1, <1>7 DEF Ingest, TypeOK, BodiesAreThere
  <2>2. body[r].minutes \subseteq Minutes
      BY <2>1, IngestServerAssumption DEF EnvelopeType
  <2>3. /\ held' \in [Minutes -> SUBSET Requests] /\ disk' = disk /\ unsaved' \subseteq Minutes
        /\ dirtyKinds' \subseteq {"history", "sqliteMaintenance"} /\ timer' \in BOOLEAN
    <3>1. CASE CommitIngest(r, body[r])
      <4>1. held' \in [Minutes -> SUBSET Requests] /\ disk' = disk /\ unsaved' \subseteq Minutes
          BY <3>1, <2>2 DEF CommitIngest, TypeOK
      <4>2. dirtyKinds' \subseteq {"history", "sqliteMaintenance"} /\ timer' \in BOOLEAN
          BY <3>1 DEF CommitIngest, Mark, TypeOK
      <4> QED
          BY <4>1, <4>2
    <3>2. CASE UNCHANGED <<history, dirtyKinds, timer>>
        BY <3>2 DEF TypeOK, history
    <3> QED
        BY <1>7, <3>1, <3>2 DEF Ingest
  <2>4. acked' \subseteq Requests /\ refused' \subseteq Requests
      BY <1>7 DEF Ingest, TypeOK
  <2>5. exposures' \subseteq Requests /\ activity' \subseteq Requests
      BY <1>7 DEF Ingest, StoreEvidence, TypeOK, evidence
  <2>6. TypeOK'
      BY <1>3, <1>7, <2>3, <2>5, <2>4 DEF Ingest, TypeOK, process, lifecycle
  <2>7. Stages'
      BY <1>1, <1>3, <1>5, <1>7 DEF Ingest, Stages, process, lifecycle
  <2> QED
      BY <1>3, <1>4, <2>6, <2>7
<1> QED
    BY <1>6, <1>7

LEMMA ProcessInvTimers ==
    ASSUME ProcessInv, FlushSucceeds \/ FlushFails \/ CompactionTick \/ Probe
    PROVE  ProcessInv'
<1> USE DEF ProcessInv
<1>1. phase' = phase /\ body' = body /\ Active' = Active
    BY SameHolders DEF FlushSucceeds, FlushFails, CompactionTick, Probe, requests
<1>2. LeasesMatchHolders' /\ BodiesAreThere'
    BY <1>1, SameHolders
       DEF FlushSucceeds, FlushFails, CompactionTick, Probe, gates, LeasesMatchHolders, BodiesAreThere
<1>3. CASE FlushSucceeds \/ FlushFails
  <2>1. dirtyKinds \in SUBSET {"history", "sqliteMaintenance"}
      BY DEF TypeOK
  <2>2. PICK retry \in BOOLEAN : DrainSucceeds(dirtyKinds) \/ DrainFails(dirtyKinds, retry)
      BY <1>3 DEF FlushSucceeds, FlushFails
  <2>3. /\ held' = held /\ disk' \in [Minutes -> SUBSET Requests] /\ unsaved' \subseteq unsaved
        /\ dirtyKinds' \subseteq dirtyKinds /\ timer' \in BOOLEAN /\ writeHealthy' \in BOOLEAN
      BY <2>1, <2>2, FlushTypes
  <2>4. TypeOK'
      BY <1>3, <2>1, <2>3
         DEF FlushSucceeds, FlushFails, TypeOK, process, requests, gates, lifecycle, evidence, ghosts
  <2>5. up /\ stop \notin {"sink", "closed", "failed"}
      BY <1>3 DEF FlushSucceeds, FlushFails, Stages
  <2>6. Stages'
      BY <1>1, <1>3, <2>5 DEF FlushSucceeds, FlushFails, Stages, process, lifecycle
  <2> QED
      BY <1>2, <2>4, <2>6
<1>4. CASE CompactionTick
  <2>1. TypeOK'
      BY <1>4 DEF CompactionTick, Mark, TypeOK, process, requests, gates, lifecycle, evidence, history, ghosts
  <2>2. Stages'
      BY <1>1, <1>4 DEF CompactionTick, Mark, Stages, process, lifecycle, history
  <2> QED
      BY <1>2, <2>1, <2>2
<1>5. CASE Probe
  <2>1. TypeOK'
      BY <1>5 DEF Probe, TypeOK, process, requests, gates, evidence, history, coordinator, ghosts
  <2>2. Stages'
      BY <1>1, <1>5 DEF Probe, Stages, process, history, coordinator, ghosts
  <2> QED
      BY <1>2, <2>1, <2>2
<1> QED
    BY <1>3, <1>4, <1>5

LEMMA ProcessInvStop ==
    ASSUME ProcessInv, StopCalled \/ ListenerClosed \/ McpStopped \/ PersistenceClosed \/ StoreClosed
    PROVE  ProcessInv'
<1> USE DEF ProcessInv
<1>1. phase' = phase /\ body' = body /\ Active' = Active
    BY SameHolders
       DEF StopCalled, ListenerClosed, McpStopped, PersistenceClosed, StoreClosed, requests
<1>2. LeasesMatchHolders' /\ BodiesAreThere'
    BY <1>1, SameHolders
       DEF StopCalled, ListenerClosed, McpStopped, PersistenceClosed, StoreClosed, gates,
           LeasesMatchHolders, BodiesAreThere
<1>3. CASE StopCalled \/ ListenerClosed
  <2>1. TypeOK'
      BY <1>3 DEF StopCalled, ListenerClosed, TypeOK, process, requests, gates, evidence, history,
                  coordinator, ghosts
  <2>2. Stages'
      BY <1>1, <1>3 DEF StopCalled, ListenerClosed, Stages, process, history, coordinator
  <2> QED
      BY <1>2, <2>1, <2>2
<1>4. CASE McpStopped
  <2>1. TypeOK'
      BY <1>4 DEF McpStopped, TypeOK, Active, process, requests, evidence, history, coordinator, ghosts
  <2>2. Stages'
      BY <1>1, <1>4 DEF McpStopped, Stages, process, history, coordinator
  <2> QED
      BY <1>2, <2>1, <2>2
<1>5. CASE PersistenceClosed
  <2> DEFINE kinds == dirtyKinds \cup {"history"}
  <2>1. kinds \in SUBSET {"history", "sqliteMaintenance"}
      BY DEF TypeOK
  <2>2. DrainSucceeds(kinds) \/ DrainFails(kinds, FALSE)
      BY <1>5 DEF PersistenceClosed
  <2>3. /\ held' = held /\ disk' \in [Minutes -> SUBSET Requests] /\ unsaved' \subseteq unsaved
        /\ dirtyKinds' \subseteq kinds /\ timer' \in BOOLEAN /\ writeHealthy' \in BOOLEAN
    <3> HIDE DEF kinds
    <3> QED
        BY <2>1, <2>2, FlushTypes
  <2>4. TypeOK'
      BY <1>5, <2>1, <2>3
         DEF PersistenceClosed, TypeOK, process, requests, gates, evidence, ghosts
  <2>5. Active = {} /\ ~timer' /\ ~compaction'
      BY <1>5 DEF PersistenceClosed, Stages, DrainSucceeds, DrainFails
  <2>6. stop' = "sink" => unsaved' = {}
      BY <1>5 DEF PersistenceClosed, DrainSucceeds, SaveAll
  <2>7. Stages'
      BY <1>1, <1>5, <2>5, <2>6 DEF PersistenceClosed, Stages, process
  <2> QED
      BY <1>2, <2>4, <2>7
<1>6. CASE StoreClosed
  <2>1. TypeOK'
      BY <1>6 DEF StoreClosed, TypeOK, process, requests, gates, evidence, history, coordinator, ghosts
  <2>2. Stages'
      BY <1>1, <1>6 DEF StoreClosed, Stages, process, history, coordinator
  <2> QED
      BY <1>2, <2>1, <2>2
<1> QED
    BY <1>3, <1>4, <1>5, <1>6

LEMMA ProcessInvRestart ==
    ASSUME ProcessInv, Crash \/ Start \/ \E r \in Requests : CrashInIngest(r)
    PROVE  ProcessInv'
<1> USE DEF ProcessInv
<1>1. CASE Start
  <2>1. TypeOK'
    <3>1. starts' \in 1 .. MaxStarts
        BY <1>1, IngestServerAssumption DEF Start, TypeOK
    <3> QED
        BY <1>1, <3>1 DEF Start, Mark, TypeOK, requests, gates, evidence, ghosts
  <2>2. Active' = Active /\ body' = body
      BY <1>1, SameHolders DEF Start, requests
  <2>3. LeasesMatchHolders' /\ BodiesAreThere'
      BY <1>1, <2>2, SameHolders DEF Start, requests, gates, LeasesMatchHolders, BodiesAreThere
  <2>4. Stages'
      BY <1>1, <2>2 DEF Start, Mark, Stages, ghosts
  <2> QED
      BY <2>1, <2>3, <2>4
<1>2. CASE Die
  <2>1. Active' = {}
      BY <1>2 DEF Die, TypeOK, Active
  <2>2. exposures' \subseteq Requests /\ activity' \subseteq Requests
      BY DEF Crash, CrashInIngest, Start, StoreEvidence, TypeOK, evidence
  <2>3. 0 \in 0 .. SyncLimit /\ 0 \in 0 .. McpLimit
      BY IngestServerAssumption
  <2>4. TypeOK'
      BY <1>2, <2>2, <2>3 DEF Die, TypeOK
  <2>5. LeasesMatchHolders'
    <3>1. SyncHolders' = {} /\ McpHolders' = {}
        BY <2>1 DEF SyncHolders, McpHolders
    <3> QED
        BY <1>2, <3>1, FS_EmptySet DEF Die, LeasesMatchHolders
  <2>6. BodiesAreThere' /\ Stages'
      BY <1>2, <2>1 DEF Die, BodiesAreThere, Stages
  <2> QED
      BY <2>4, <2>5, <2>6
<1> QED
    BY <1>1, <1>2 DEF Crash, CrashInIngest

(* The invariant of the process holds throughout.                          *)
LEMMA ProcessInvHolds == Spec => []ProcessInv
<1>1. ProcessInv /\ [Next]_vars => ProcessInv'
  <2> SUFFICES ASSUME ProcessInv, [Next]_vars PROVE ProcessInv'
      OBVIOUS
  <2>1. CASE Next
      BY <2>1, ProcessInvArrivals, ProcessInvEnds, ProcessInvTimers, ProcessInvStop, ProcessInvRestart
         DEF Next
  <2>2. CASE UNCHANGED vars
    <3>1. Active' = Active /\ SyncHolders' = SyncHolders /\ McpHolders' = McpHolders
        BY <2>2, SameHolders DEF vars, requests
    <3> QED
        BY <2>2, <3>1
           DEF vars, process, requests, gates, lifecycle, evidence, history, coordinator, ghosts,
               ProcessInv, TypeOK, LeasesMatchHolders, BodiesAreThere, Stages
  <2> QED
      BY <2>1, <2>2
<1> QED
    BY <1>1, ProcessInvInit, PTL DEF Spec

-----------------------------------------------------------------------------
(* The records: who is in which store.                                     *)

LEMMA RecordInvInit == Init => RecordInv
BY DEF Init, RecordInv, RecordsAreSettled, Evidence, MemoryAgrees, InHistory

(* A step that leaves the records alone and settles no request that is on  *)
(* record changes nothing about them.                                      *)
LEMMA RecordsUntouched ==
    ASSUME TypeOK, RecordInv, up' => up, acked' = acked,
           UNCHANGED <<evidence, history>>,
           NEW gone \in SUBSET Requests, refused' = refused \cup gone,
           \A q \in gone : phase[q] # "gone" /\ phase'[q] = "gone",
           \A q \in Requests : phase[q] = "gone" => phase'[q] = "gone" /\ body'[q] = body[q]
    PROVE  RecordInv'
<1> USE DEF RecordInv
<1>1. UNCHANGED <<exposures, activity, held, disk, unsaved>>
    BY DEF evidence, history
<1>2. \A q \in Requests : InHistory(q)' <=> InHistory(q)
    BY <1>1 DEF InHistory
<1>3. RecordsAreSettled'
    BY <1>1, <1>2 DEF RecordsAreSettled
<1>4. Evidence'
  <2>1. \A q \in acked : phase[q] = "gone" /\ q \in Requests
      BY DEF RecordsAreSettled, TypeOK
  <2>2. ASSUME NEW q \in acked' PROVE \A m \in body'[q].minutes : q \in held'[m]
      BY <1>1, <2>1, <2>2 DEF Evidence
  <2>3. ASSUME NEW q \in Requests, q \in acked' \/ InHistory(q)' PROVE HasEvidence(q)'
    <3>1. q \in acked \/ InHistory(q)
        BY <1>2, <2>3
    <3>2. phase[q] = "gone" /\ HasEvidence(q)
        BY <3>1 DEF RecordsAreSettled, Evidence
    <3> QED
        BY <1>1, <3>2 DEF HasEvidence
  <2>4. ASSUME NEW q \in refused' PROVE q \notin exposures' \cup activity' /\ ~InHistory(q)'
    <3>1. CASE q \in refused
        BY <1>1, <1>2, <3>1 DEF Evidence, TypeOK
    <3>2. CASE q \in gone
        BY <1>1, <1>2, <3>2 DEF RecordsAreSettled
    <3> QED
        BY <3>1, <3>2
  <2> QED
      BY <2>2, <2>3, <2>4 DEF Evidence
<1>5. MemoryAgrees'
    BY <1>1 DEF MemoryAgrees
<1> QED
    BY <1>3, <1>4, <1>5

(* A flush copies memory to disk: nobody is new to history, and whatever   *)
(* is no longer pending is equal in both.                                  *)
LEMMA RecordsFlushed ==
    ASSUME TypeOK, RecordInv, up, up', UNCHANGED <<requests, evidence, ghosts>>,
           NEW kinds \in SUBSET {"history", "sqliteMaintenance"}, NEW retry \in BOOLEAN,
           DrainSucceeds(kinds) \/ DrainFails(kinds, retry)
    PROVE  RecordInv'
<1> USE DEF RecordInv
<1>1. /\ held' = held /\ disk' \in [Minutes -> SUBSET Requests] /\ unsaved' \subseteq unsaved
      /\ \A m \in Minutes : disk'[m] = disk[m] \/ disk'[m] = held[m]
      /\ \A m \in Minutes : m \in unsaved \ unsaved' => disk'[m] = held[m]
    BY FlushTypes
<1>2. UNCHANGED <<phase, body, exposures, activity, acked, refused>>
    BY DEF requests, evidence, ghosts
<1>3. \A q \in Requests : InHistory(q)' => InHistory(q)
    BY <1>1 DEF InHistory
<1>4. RecordsAreSettled'
    BY <1>2, <1>3 DEF RecordsAreSettled
<1>5. Evidence'
  <2>1. \A q \in Requests : HasEvidence(q)' <=> HasEvidence(q)
      BY <1>2 DEF HasEvidence
  <2>2. refused \subseteq Requests
      BY DEF TypeOK
  <2> QED
      BY <1>1, <1>2, <1>3, <2>1, <2>2 DEF Evidence
<1>6. MemoryAgrees'
    BY <1>1 DEF MemoryAgrees
<1> QED
    BY <1>4, <1>5, <1>6

(* The pipeline: the request that is settled was on no record, and gets on *)
(* all of them or is refused and on none.                                  *)
LEMMA RecordsIngest ==
    ASSUME ProcessInv, RecordInv, NEW r \in Requests, Ingest(r)
    PROVE  RecordInv'
<1> USE DEF RecordInv
<1> DEFINE e == body[r]
           fits == Fit(e) /\ EvidenceStands(e)
<1>1. TypeOK /\ r \in Active /\ up /\ up' /\ phase[r] = "body"
    BY DEF ProcessInv, Ingest, Active, process
<1>2. e \in Envelopes
    BY <1>1 DEF Ingest, ProcessInv, TypeOK, BodiesAreThere
<1>3. /\ phase' = [phase EXCEPT ![r] = "gone"]
      /\ body' = [body EXCEPT ![r] = IF fits THEN @ ELSE Nothing]
    BY DEF Ingest, Settle
<1>4. /\ r \notin exposures \cup activity \cup acked \cup refused
      /\ ~InHistory(r)
    BY <1>1 DEF RecordsAreSettled
<1>5. CASE ~fits
  <2>1. UNCHANGED evidence
    <3>1. CASE ~Fit(e)
        BY <1>5, <3>1 DEF Ingest
    <3>2. CASE ~EvidenceStands(e)
        BY <1>5, <3>2 DEF Ingest, StoreEvidence, evidence
    <3> QED
        BY <1>5, <3>1, <3>2
  <2>2. refused' = refused \cup {r} /\ acked' = acked /\ UNCHANGED history
      BY <1>5 DEF Ingest
  <2>3. \A q \in Requests : phase[q] = "gone" => phase'[q] = "gone" /\ body'[q] = body[q]
      BY <1>1, <1>3 DEF TypeOK
  <2>4. {r} \in SUBSET Requests /\ \A q \in {r} : phase[q] # "gone" /\ phase'[q] = "gone"
      BY <1>1, <1>3 DEF TypeOK
  <2> QED
      BY <1>1, <2>1, <2>2, <2>3, <2>4, RecordsUntouched
<1>6. CASE fits
  <2>1. /\ exposures' = IF e.experiment = "ok" THEN exposures \cup {r} ELSE exposures
        /\ activity' = IF e.retention = "ok" THEN activity \cup {r} ELSE activity
      BY <1>6 DEF Ingest, StoreEvidence
  <2>2. /\ held' = [m \in Minutes |-> IF m \in e.minutes THEN held[m] \cup {r} ELSE held[m]]
        /\ unsaved' = unsaved \cup e.minutes /\ disk' = disk
        /\ acked' = acked \cup {r} /\ refused' = refused
      BY <1>6 DEF Ingest, CommitIngest
  <2>3. body' = body /\ phase'[r] = "gone" /\ \A q \in Requests \ {r} : phase'[q] = phase[q]
      BY <1>1, <1>3, <1>6 DEF TypeOK
  <2>4. \A q \in Requests \ {r} : InHistory(q)' <=> InHistory(q)
      BY <2>2 DEF InHistory
  <2>5. \A q \in Requests \ {r} :
            (q \in exposures' <=> q \in exposures) /\ (q \in activity' <=> q \in activity)
      BY <2>1
  <2>6. RecordsAreSettled'
      BY <2>2, <2>3, <2>4, <2>5 DEF RecordsAreSettled
  <2>7. HasEvidence(r)'
      BY <1>2, <2>1, <2>3 DEF HasEvidence
  <2>8. e.minutes \subseteq Minutes
      BY <1>2, IngestServerAssumption DEF EnvelopeType
  <2>9. Evidence'
    <3>1. acked \subseteq Requests /\ refused \subseteq Requests /\ r \notin refused
        BY <1>1, <1>4 DEF TypeOK
    <3>2. ASSUME NEW q \in acked', NEW m \in body'[q].minutes PROVE q \in held'[m]
      <4>1. CASE q = r
          BY <2>2, <2>3, <2>8, <3>2, <4>1
      <4>2. CASE q # r
        <5>1. q \in acked /\ m \in body[q].minutes
            BY <2>2, <2>3, <3>2, <4>2
        <5>2. q \in held[m]
            BY <5>1 DEF Evidence
        <5>3. m \in Minutes
          <6>1. body[q] \in Envelopes
              BY <3>1, <5>1 DEF Evidence, HasEvidence
          <6> QED
              BY <5>1, <6>1, IngestServerAssumption DEF EnvelopeType
        <5> QED
            BY <2>2, <5>2, <5>3
      <4> QED
          BY <4>1, <4>2
    <3>3. ASSUME NEW q \in Requests, q \in acked' \/ InHistory(q)' PROVE HasEvidence(q)'
      <4>1. CASE q # r
        <5>1. HasEvidence(q)
            BY <2>2, <2>4, <3>3, <4>1 DEF Evidence
        <5> QED
            BY <2>3, <2>5, <4>1, <5>1 DEF HasEvidence
      <4> QED
          BY <2>7, <4>1
    <3>4. ASSUME NEW q \in refused' PROVE q \notin exposures' \cup activity' /\ ~InHistory(q)'
        BY <2>2, <2>4, <2>5, <3>1, <3>4 DEF Evidence
    <3> QED
        BY <3>2, <3>3, <3>4 DEF Evidence
  <2>10. MemoryAgrees'
      BY <1>1, <2>2, <2>8 DEF MemoryAgrees
  <2> QED
      BY <2>6, <2>9, <2>10
<1> QED
    BY <1>5, <1>6

(* A death, also one behind the committed evidence, and the next start.    *)
LEMMA RecordsRestart ==
    ASSUME ProcessInv, RecordInv, Crash \/ Start \/ \E r \in Requests : CrashInIngest(r)
    PROVE  RecordInv'
<1> USE DEF RecordInv
<1>1. TypeOK
    BY DEF ProcessInv
<1>2. CASE Start
  <2>1. UNCHANGED <<phase, body, exposures, activity, acked, refused, disk>> /\ held' = disk
      BY <1>2 DEF Start, requests, evidence, ghosts
  <2>2. acked = {}
      BY <1>2 DEF Start, ProcessInv, Stages
  <2>3. \A q \in Requests : InHistory(q)' => InHistory(q)
      BY <2>1 DEF InHistory
  <2>4. \A q \in Requests : HasEvidence(q)' <=> HasEvidence(q)
      BY <2>1 DEF HasEvidence
  <2>5. RecordsAreSettled'
      BY <2>1, <2>3 DEF RecordsAreSettled
  <2>6. Evidence'
      BY <1>1, <2>1, <2>2, <2>3, <2>4 DEF Evidence, TypeOK
  <2>7. MemoryAgrees'
      BY <2>1 DEF MemoryAgrees
  <2> QED
      BY <2>5, <2>6, <2>7
<1>3. CASE Die
  <2>1. /\ held' = [m \in Minutes |-> {}] /\ disk' = disk /\ acked' = {} /\ refused' = refused /\ ~up'
        /\ \A q \in Requests : phase[q] = "gone" => phase'[q] = "gone" /\ body'[q] = body[q]
        /\ \A q \in Active : phase'[q] = "gone"
      BY <1>1, <1>3 DEF Die, TypeOK, Active
  <2>2. \A q \in Requests : InHistory(q)' => InHistory(q)
      BY <2>1 DEF InHistory
  <2>3. /\ exposures \subseteq exposures' /\ activity \subseteq activity'
        /\ \A q \in exposures' \cup activity' : q \in exposures \cup activity \/ q \in Active
      BY DEF Crash, Start, CrashInIngest, StoreEvidence, evidence, Active
  <2>4. RecordsAreSettled'
    <3> SUFFICES ASSUME NEW q \in Requests,
                        q \in exposures' \cup activity' \cup refused \/ InHistory(q)'
                 PROVE  phase'[q] = "gone"
        BY <2>1 DEF RecordsAreSettled
    <3>1. CASE q \in Active
        BY <2>1, <3>1
    <3>2. CASE q \notin Active
        BY <2>1, <2>2, <2>3, <3>2 DEF RecordsAreSettled
    <3> QED
        BY <3>1, <3>2
  <2>5. Evidence'
    <3>1. ASSUME NEW q \in Requests, InHistory(q)' PROVE HasEvidence(q)'
      <4>1. phase[q] = "gone" /\ HasEvidence(q)
          BY <2>2, <3>1 DEF RecordsAreSettled, Evidence
      <4> QED
          BY <2>1, <2>3, <4>1 DEF HasEvidence
    <3>2. ASSUME NEW q \in refused PROVE q \notin exposures' \cup activity' /\ ~InHistory(q)'
      <4>1. q \in Requests /\ phase[q] = "gone"
          BY <1>1, <3>2 DEF TypeOK, RecordsAreSettled
      <4>2. q \notin Active
          BY <4>1 DEF Active
      <4> QED
          BY <2>2, <2>3, <3>2, <4>1, <4>2 DEF Evidence
    <3> QED
        BY <2>1, <3>1, <3>2 DEF Evidence
  <2>6. MemoryAgrees'
      BY <2>1 DEF MemoryAgrees
  <2> QED
      BY <2>4, <2>5, <2>6
<1> QED
    BY <1>2, <1>3 DEF Crash, CrashInIngest

(* Every other step of a request or of stop() leaves the records alone.    *)
LEMMA RecordsElsewhere ==
    ASSUME ProcessInv, RecordInv,
           \/ \E r \in Requests : \/ Turnaway(r) \/ SyncArrives(r) \/ McpArrives(r)
                                  \/ BodyFails(r) \/ McpCall(r) \/ McpReturns(r)
           \/ CompactionTick \/ Probe \/ StopCalled \/ ListenerClosed \/ McpStopped \/ StoreClosed
           \/ UNCHANGED vars
    PROVE  RecordInv'
<1>1. TypeOK
    BY DEF ProcessInv
<1>2. CASE \E r \in Requests : Turnaway(r) \/ BodyFails(r)
  <2>1. PICK r \in Requests : Turnaway(r) \/ BodyFails(r)
      BY <1>2
  <2>2. /\ up' = up /\ acked' = acked /\ UNCHANGED <<evidence, history>>
        /\ refused' = refused \cup {r} /\ phase[r] # "gone" /\ phase'[r] = "gone"
        /\ \A q \in Requests : phase[q] = "gone" => phase'[q] = "gone" /\ body'[q] = body[q]
      BY <1>1, <2>1 DEF Turnaway, BodyFails, Settle, TypeOK, process
  <2>3. {r} \in SUBSET Requests /\ \A q \in {r} : phase[q] # "gone" /\ phase'[q] = "gone"
      BY <2>2
  <2> QED
      BY <1>1, <2>2, <2>3, RecordsUntouched
<1>3. CASE \E r \in Requests : SyncArrives(r) \/ McpArrives(r) \/ McpCall(r) \/ McpReturns(r)
  <2>1. PICK r \in Requests : SyncArrives(r) \/ McpArrives(r) \/ McpCall(r) \/ McpReturns(r)
      BY <1>3
  <2>2. /\ up' = up /\ acked' = acked /\ UNCHANGED <<evidence, history>> /\ refused' = refused
        /\ \A q \in Requests : phase[q] = "gone" => phase'[q] = "gone" /\ body'[q] = body[q]
      BY <1>1, <2>1 DEF SyncArrives, McpArrives, McpCall, McpReturns, Settle, TypeOK, process, ghosts
  <2>3. {} \in SUBSET Requests /\ refused' = refused \cup {}
      BY <2>2
  <2> QED
      BY <1>1, <2>2, <2>3, RecordsUntouched
<1>4. CASE \/ CompactionTick \/ Probe \/ StopCalled \/ ListenerClosed \/ McpStopped \/ StoreClosed
           \/ UNCHANGED vars
  <2>1. /\ up' = up /\ acked' = acked /\ UNCHANGED <<evidence, history>> /\ refused' = refused
        /\ phase' = phase /\ body' = body
      BY <1>4 DEF CompactionTick, Probe, StopCalled, ListenerClosed, McpStopped, StoreClosed, vars,
                  process, requests, ghosts
  <2>2. {} \in SUBSET Requests /\ refused' = refused \cup {}
      BY <2>1
  <2> QED
      BY <1>1, <2>1, <2>2, RecordsUntouched
<1> QED
    BY <1>2, <1>3, <1>4

LEMMA RecordInvHolds == Spec => [](ProcessInv /\ RecordInv)
<1>1. ProcessInv /\ RecordInv /\ [Next]_vars => RecordInv'
  <2> SUFFICES ASSUME ProcessInv, RecordInv, [Next]_vars PROVE RecordInv'
      OBVIOUS
  <2>1. CASE FlushSucceeds \/ FlushFails \/ PersistenceClosed
    <3>1. up /\ up' /\ UNCHANGED <<requests, evidence, ghosts>>
      <4>1. CASE FlushSucceeds
          BY <4>1 DEF FlushSucceeds, process
      <4>2. CASE FlushFails
          BY <4>2 DEF FlushFails, process
      <4>3. CASE PersistenceClosed
          BY <4>3 DEF PersistenceClosed, process
      <4> QED
          BY <2>1, <4>1, <4>2, <4>3
    <3>2. TypeOK /\ dirtyKinds \in SUBSET {"history", "sqliteMaintenance"}
        BY DEF ProcessInv, TypeOK
    <3>3. PICK kinds \in SUBSET {"history", "sqliteMaintenance"}, retry \in BOOLEAN :
              DrainSucceeds(kinds) \/ DrainFails(kinds, retry)
        BY <2>1, <3>2 DEF FlushSucceeds, FlushFails, PersistenceClosed
    <3> QED
        BY <3>1, <3>2, <3>3, RecordsFlushed
  <2>2. CASE \E r \in Requests : Ingest(r)
      BY <2>2, RecordsIngest
  <2>3. CASE Crash \/ Start \/ \E r \in Requests : CrashInIngest(r)
      BY <2>3, RecordsRestart
  <2>4. CASE \/ \E r \in Requests : \/ Turnaway(r) \/ SyncArrives(r) \/ McpArrives(r)
                                    \/ BodyFails(r) \/ McpCall(r) \/ McpReturns(r)
             \/ CompactionTick \/ Probe \/ StopCalled \/ ListenerClosed \/ McpStopped \/ StoreClosed
             \/ UNCHANGED vars
      BY <2>4, RecordsElsewhere
  <2> QED
      BY <2>1, <2>2, <2>3, <2>4 DEF Next
<1> QED
    BY <1>1, ProcessInvHolds, RecordInvInit, PTL DEF Spec

-----------------------------------------------------------------------------
(* The theorems.                                                           *)

(* Every variable of the ingest process keeps its type; the slots taken    *)
(* never exceed the limits of the two gates.                               *)
THEOREM ServerTypes == Spec => []TypeOK
<1>1. ProcessInv => TypeOK
    BY DEF ProcessInv
<1> QED
    BY <1>1, ProcessInvHolds, PTL

(* However requests end, no slot of a gate leaks and none is given back    *)
(* twice (ConcurrencyGate.enter and the finally blocks around it).         *)
THEOREM NoSlotLeaks == Spec => []LeasesMatchHolders
<1>1. ProcessInv => LeasesMatchHolders
    BY DEF ProcessInv
<1> QED
    BY <1>1, ProcessInvHolds, PTL

(* When stop() closes the store, nothing that could use it is left.        *)
THEOREM StoreIsClosedLast == Spec => []StoreOutlivesItsUsers
<1>1. ProcessInv => StoreOutlivesItsUsers
    BY DEF ProcessInv, Stages, StoreOutlivesItsUsers
<1> QED
    BY <1>1, ProcessInvHolds, PTL

(* An answered envelope is in the ledgers and in the history, a refused    *)
(* one nowhere, and no saved minute counts an envelope without evidence.   *)
THEOREM RecordsAgree == Spec => []EvidenceAndHistoryAgree
<1>1. ProcessInv /\ RecordInv => EvidenceAndHistoryAgree
  <2> SUFFICES ASSUME ProcessInv, RecordInv PROVE EvidenceAndHistoryAgree
      OBVIOUS
  <2>1. /\ acked \subseteq Requests /\ refused \subseteq Requests
        /\ \A m \in Minutes : disk[m] \subseteq Requests
      BY DEF ProcessInv, TypeOK
  <2>2. \A r \in acked : \A m \in body[r].minutes : r \in held[m]
      BY DEF RecordInv, Evidence
  <2>3. ASSUME NEW r \in acked \cup UNION {disk[m] : m \in Minutes} PROVE HasEvidence(r)
    <3>1. r \in Requests /\ (r \in acked \/ InHistory(r))
        BY <2>1, <2>3 DEF InHistory
    <3> QED
        BY <3>1 DEF RecordInv, Evidence
  <2>4. ASSUME NEW r \in refused
        PROVE  r \notin exposures \cup activity \cup UNION {held[m] \cup disk[m] : m \in Minutes}
      BY <2>4 DEF RecordInv, Evidence, InHistory
  <2> QED
      BY <2>2, <2>3, <2>4 DEF EvidenceAndHistoryAgree, HasEvidence
<1> QED
    BY <1>1, RecordInvHolds, PTL

(* stop() resolves only with every answered envelope on disk.              *)
THEOREM CleanStopLosesNothing == Spec => []CleanStopKeepsAcked
<1>1. ProcessInv /\ RecordInv => CleanStopKeepsAcked
  <2> SUFFICES ASSUME ProcessInv, RecordInv, stop \in {"sink", "closed"},
                      NEW r \in acked, NEW m \in body[r].minutes
               PROVE  r \in disk[m]
      BY DEF CleanStopKeepsAcked
  <2>1. up /\ unsaved = {}
      BY DEF ProcessInv, Stages
  <2>2. r \in Requests /\ r \in held[m] /\ body[r] \in Envelopes
      BY DEF ProcessInv, TypeOK, RecordInv, Evidence, HasEvidence
  <2>3. m \in Minutes
      BY <2>2, IngestServerAssumption DEF EnvelopeType
  <2> QED
      BY <2>1, <2>2, <2>3 DEF RecordInv, MemoryAgrees
<1> QED
    BY <1>1, RecordInvHolds, PTL

-----------------------------------------------------------------------------
(* Induction over lists. *)

\* A set of naturals that is not empty has a least member.
LEMMA Least ==
    ASSUME NEW S \in SUBSET Nat, S # {}
    PROVE  \E x \in S : \A y \in S : x <= y
<1> DEFINE below == {p \in Nat \X Nat : p[1] < p[2]}
<1>1. IsWellFoundedOn(below, Nat)
  BY NatLessThanWellFounded, Zenon DEF OpToRel
<1>2. PICK x \in S : \A y \in S : ~(<<y, x>> \in below)
  <2> HIDE DEF below
  <2> QED
    BY <1>1, WFMin
<1>3. ASSUME NEW y \in S PROVE x <= y
  <2>1. x \in Nat /\ y \in Nat /\ <<y, x>> \notin below
    BY <1>2
  <2>2. ~(y < x)
    BY <2>1
  <2> QED
    BY <2>1, <2>2
<1> QED
  BY <1>3

\* A set of naturals that holds 0 and with a number the next one holds them all.
LEMMA InductiveSet ==
    ASSUME NEW S, 0 \in S, \A n \in Nat : n \in S => n + 1 \in S
    PROVE  Nat \subseteq S
<1> DEFINE T == {n \in Nat : n \notin S}
<1>1. SUFFICES ASSUME T # {} PROVE FALSE
  OBVIOUS
<1>2. PICK x \in T : \A y \in T : x <= y
  <2>1. T \in SUBSET Nat
    OBVIOUS
  <2> HIDE DEF T
  <2> QED
    BY <1>1, <2>1, Least
<1>3. x \in Nat /\ x # 0 /\ x - 1 \in Nat
  BY <1>2
<1>4. x - 1 \in S
  BY <1>2, <1>3
<1> QED
  BY <1>3, <1>4

\* Functions computed along a list exist: an ingest's.
IngestedUpTo(v, items, f, n) ==
    f = [k \in 0..n |-> IF k = 0 THEN v ELSE AddItem(f[k - 1], items[k])]

\* An ingest computes a view after each of its items,
LEMMA IngestedExists ==
    ASSUME NEW v, NEW items
    PROVE  \A n \in Nat : \E f : IngestedUpTo(v, items, f, n)
<1> DEFINE S == {n \in Nat : \E f : IngestedUpTo(v, items, f, n)}
<1>1. 0 \in S
  <2> DEFINE f == [k \in 0..0 |-> v]
  <2>1. IngestedUpTo(v, items, f, 0)
    BY DEF IngestedUpTo
  <2> QED
    BY <2>1
<1>2. ASSUME NEW n \in Nat, n \in S PROVE n + 1 \in S
  <2>1. PICK f : IngestedUpTo(v, items, f, n)
    BY <1>2
  <2> DEFINE g == [k \in 0..(n + 1) |-> IF k = n + 1 THEN AddItem(f[n], items[n + 1]) ELSE f[k]]
  <2>2. \A k \in 0..n : f[k] = IF k = 0 THEN v ELSE AddItem(f[k - 1], items[k])
    BY <2>1 DEF IngestedUpTo
  <2>3. ASSUME NEW k \in 0..(n + 1)
        PROVE  g[k] = IF k = 0 THEN v ELSE AddItem(g[k - 1], items[k])
    <3>1. CASE k = n + 1
      <4>1. g[k] = AddItem(f[n], items[n + 1]) /\ g[k - 1] = f[n] /\ k # 0
        BY <3>1
      <4> QED
        BY <4>1, <3>1
    <3>2. CASE k # n + 1
      <4>1. k \in 0..n /\ g[k] = f[k]
        BY <3>2
      <4>2. k # 0 => g[k - 1] = f[k - 1]
        BY <4>1
      <4> HIDE DEF g
      <4> QED
        BY <4>1, <4>2, <2>2
    <3> QED
      BY <3>1, <3>2
  <2>4. IngestedUpTo(v, items, g, n + 1)
    BY <2>3 DEF IngestedUpTo
  <2> QED
    BY <2>4
<1> HIDE DEF S
<1>3. Nat \subseteq S
  BY <1>1, <1>2, InductiveSet
<1> QED
  BY <1>3 DEF S

\* and the last of them is its result.
LEMMA IngestedIs ==
    ASSUME NEW v, NEW items, Len(items) \in Nat
    PROVE  \E f : /\ Ingested(v, items) = f[Len(items)]
                  /\ f[0] = v
                  /\ \A k \in 1..Len(items) : f[k] = AddItem(f[k - 1], items[k])
<1> DEFINE n == Len(items)
           upTo == CHOOSE f : IngestedUpTo(v, items, f, n)
<1>1. IngestedUpTo(v, items, upTo, n)
  <2>1. \E f : IngestedUpTo(v, items, f, n)
    BY IngestedExists
  <2> HIDE DEF n
  <2> QED
    BY <2>1
<1>2. Ingested(v, items) = upTo[n]
  BY DEF Ingested, IngestedUpTo
<1> HIDE DEF upTo
<1>3. \A k \in 0..n : upTo[k] = IF k = 0 THEN v ELSE AddItem(upTo[k - 1], items[k])
  BY <1>1 DEF IngestedUpTo
<1>4. upTo[0] = v
  BY <1>3
<1>5. \A k \in 1..n : upTo[k] = AddItem(upTo[k - 1], items[k])
  BY <1>3
<1> QED
  BY <1>2, <1>4, <1>5

\* The same for the items of an envelope,
ItemsUpTo(i, frames, f, n) ==
    f = [k \in 0..n |-> IF k = 0 THEN <<>> ELSE f[k - 1] \o ItemsOf(i, frames[k])]

\* An envelope has a list of items after each of its frames,
LEMMA ItemsExists ==
    ASSUME NEW i, NEW frames
    PROVE  \A n \in Nat : \E f : ItemsUpTo(i, frames, f, n)
<1> DEFINE S == {n \in Nat : \E f : ItemsUpTo(i, frames, f, n)}
<1>1. 0 \in S
  <2> DEFINE f == [k \in 0..0 |-> <<>>]
  <2>1. ItemsUpTo(i, frames, f, 0)
    BY DEF ItemsUpTo
  <2> QED
    BY <2>1
<1>2. ASSUME NEW n \in Nat, n \in S PROVE n + 1 \in S
  <2>1. PICK f : ItemsUpTo(i, frames, f, n)
    BY <1>2
  <2> DEFINE g == [k \in 0..(n + 1) |-> IF k = n + 1 THEN f[n] \o ItemsOf(i, frames[n + 1]) ELSE f[k]]
  <2>2. \A k \in 0..n : f[k] = IF k = 0 THEN <<>> ELSE f[k - 1] \o ItemsOf(i, frames[k])
    BY <2>1 DEF ItemsUpTo
  <2>3. ASSUME NEW k \in 0..(n + 1)
        PROVE  g[k] = IF k = 0 THEN <<>> ELSE g[k - 1] \o ItemsOf(i, frames[k])
    <3>1. CASE k = n + 1
      <4>1. g[k] = f[n] \o ItemsOf(i, frames[n + 1]) /\ g[k - 1] = f[n] /\ k # 0
        BY <3>1
      <4> QED
        BY <4>1, <3>1
    <3>2. CASE k # n + 1
      <4>1. k \in 0..n /\ g[k] = f[k]
        BY <3>2
      <4>2. k # 0 => g[k - 1] = f[k - 1]
        BY <4>1
      <4> HIDE DEF g
      <4> QED
        BY <4>1, <4>2, <2>2
    <3> QED
      BY <3>1, <3>2
  <2>4. ItemsUpTo(i, frames, g, n + 1)
    BY <2>3 DEF ItemsUpTo
  <2> QED
    BY <2>4
<1> HIDE DEF S
<1>3. Nat \subseteq S
  BY <1>1, <1>2, InductiveSet
<1> QED
  BY <1>3 DEF S

\* and the last of them is the list of its items.
LEMMA ItemsIs ==
    ASSUME NEW i, NEW frames, Len(frames) \in Nat
    PROVE  \E f : /\ Items(i, frames) = f[Len(frames)]
                  /\ f[0] = <<>>
                  /\ \A k \in 1..Len(frames) : f[k] = f[k - 1] \o ItemsOf(i, frames[k])
<1> DEFINE n == Len(frames)
           upTo == CHOOSE f : ItemsUpTo(i, frames, f, n)
<1>1. ItemsUpTo(i, frames, upTo, n)
  <2>1. \E f : ItemsUpTo(i, frames, f, n)
    BY ItemsExists
  <2> HIDE DEF n
  <2> QED
    BY <2>1
<1>2. Items(i, frames) = upTo[n]
  BY DEF Items, ItemsUpTo
<1> HIDE DEF upTo
<1>3. \A k \in 0..n : upTo[k] = IF k = 0 THEN <<>> ELSE upTo[k - 1] \o ItemsOf(i, frames[k])
  BY <1>1 DEF ItemsUpTo
<1>4. upTo[0] = <<>>
  BY <1>3
<1>5. \A k \in 1..Len(frames) : upTo[k] = upTo[k - 1] \o ItemsOf(i, frames[k])
  <2>1. \A k \in 1..n : k \in 0..n /\ k # 0
    OBVIOUS
  <2> QED
    BY <1>3, <2>1, Zenon
<1>6. Items(i, frames) = upTo[Len(frames)]
  BY <1>2
<1> QED
  BY <1>4, <1>5, <1>6, Zenon

\* for the rebuild of a ring,
PushOthersUpTo(start, rows, gone, f, n) ==
    f = [k \in 0..n |-> IF k = 0 THEN start ELSE (IF rows[k].name \in gone THEN f[k - 1] ELSE Push(f[k - 1], rows[k]))]

\* A rebuild of the ring goes row by row,
LEMMA PushOthersExists ==
    ASSUME NEW start, NEW rows, NEW gone
    PROVE  \A n \in Nat : \E f : PushOthersUpTo(start, rows, gone, f, n)
<1> DEFINE S == {n \in Nat : \E f : PushOthersUpTo(start, rows, gone, f, n)}
<1>1. 0 \in S
  <2> DEFINE f == [k \in 0..0 |-> start]
  <2>1. PushOthersUpTo(start, rows, gone, f, 0)
    BY DEF PushOthersUpTo
  <2> QED
    BY <2>1
<1>2. ASSUME NEW n \in Nat, n \in S PROVE n + 1 \in S
  <2>1. PICK f : PushOthersUpTo(start, rows, gone, f, n)
    BY <1>2
  <2> DEFINE g == [k \in 0..(n + 1) |-> IF k = n + 1 THEN (IF rows[n + 1].name \in gone THEN f[n] ELSE Push(f[n], rows[n + 1])) ELSE f[k]]
  <2>2. \A k \in 0..n : f[k] = IF k = 0 THEN start ELSE (IF rows[k].name \in gone THEN f[k - 1] ELSE Push(f[k - 1], rows[k]))
    BY <2>1 DEF PushOthersUpTo
  <2>3. ASSUME NEW k \in 0..(n + 1)
        PROVE  g[k] = IF k = 0 THEN start ELSE (IF rows[k].name \in gone THEN g[k - 1] ELSE Push(g[k - 1], rows[k]))
    <3>1. CASE k = n + 1
      <4>1. g[k] = (IF rows[n + 1].name \in gone THEN f[n] ELSE Push(f[n], rows[n + 1])) /\ g[k - 1] = f[n] /\ k # 0
        BY <3>1
      <4> QED
        BY <4>1, <3>1
    <3>2. CASE k # n + 1
      <4>1. k \in 0..n /\ g[k] = f[k]
        BY <3>2
      <4>2. k # 0 => g[k - 1] = f[k - 1]
        BY <4>1
      <4> HIDE DEF g
      <4> QED
        BY <4>1, <4>2, <2>2
    <3> QED
      BY <3>1, <3>2
  <2>4. PushOthersUpTo(start, rows, gone, g, n + 1)
    BY <2>3 DEF PushOthersUpTo
  <2> QED
    BY <2>4
<1> HIDE DEF S
<1>3. Nat \subseteq S
  BY <1>1, <1>2, InductiveSet
<1> QED
  BY <1>3 DEF S

\* and the ring after the last row is the result.
LEMMA PushOthersIs ==
    ASSUME NEW start, NEW rows, NEW gone, Len(rows) \in Nat
    PROVE  \E f : /\ PushOthers(start, rows, gone) = f[Len(rows)]
                  /\ f[0] = start
                  /\ \A k \in 1..Len(rows) : f[k] = (IF rows[k].name \in gone THEN f[k - 1] ELSE Push(f[k - 1], rows[k]))
<1> DEFINE n == Len(rows)
           upTo == CHOOSE f : PushOthersUpTo(start, rows, gone, f, n)
<1>1. PushOthersUpTo(start, rows, gone, upTo, n)
  <2>1. \E f : PushOthersUpTo(start, rows, gone, f, n)
    BY PushOthersExists
  <2> HIDE DEF n
  <2> QED
    BY <2>1
<1>2. PushOthers(start, rows, gone) = upTo[n]
  BY DEF PushOthers, PushOthersUpTo
<1> HIDE DEF upTo
<1>3. \A k \in 0..n : upTo[k] = IF k = 0 THEN start ELSE (IF rows[k].name \in gone THEN upTo[k - 1] ELSE Push(upTo[k - 1], rows[k]))
  BY <1>1 DEF PushOthersUpTo
<1>4. upTo[0] = start
  BY <1>3
<1>5. \A k \in 1..n : upTo[k] = (IF rows[k].name \in gone THEN upTo[k - 1] ELSE Push(upTo[k - 1], rows[k]))
  BY <1>3
<1> QED
  BY <1>2, <1>4, <1>5

\* for the rows of other names.
WithoutUpTo(rows, gone, f, n) ==
    f = [k \in 0..n |-> IF k = 0 THEN <<>> ELSE (IF rows[k].name \in gone THEN f[k - 1] ELSE Append(f[k - 1], rows[k]))]

\* The record of a forgetting goes row by row,
LEMMA WithoutExists ==
    ASSUME NEW rows, NEW gone
    PROVE  \A n \in Nat : \E f : WithoutUpTo(rows, gone, f, n)
<1> DEFINE S == {n \in Nat : \E f : WithoutUpTo(rows, gone, f, n)}
<1>1. 0 \in S
  <2> DEFINE f == [k \in 0..0 |-> <<>>]
  <2>1. WithoutUpTo(rows, gone, f, 0)
    BY DEF WithoutUpTo
  <2> QED
    BY <2>1
<1>2. ASSUME NEW n \in Nat, n \in S PROVE n + 1 \in S
  <2>1. PICK f : WithoutUpTo(rows, gone, f, n)
    BY <1>2
  <2> DEFINE g == [k \in 0..(n + 1) |-> IF k = n + 1 THEN (IF rows[n + 1].name \in gone THEN f[n] ELSE Append(f[n], rows[n + 1])) ELSE f[k]]
  <2>2. \A k \in 0..n : f[k] = IF k = 0 THEN <<>> ELSE (IF rows[k].name \in gone THEN f[k - 1] ELSE Append(f[k - 1], rows[k]))
    BY <2>1 DEF WithoutUpTo
  <2>3. ASSUME NEW k \in 0..(n + 1)
        PROVE  g[k] = IF k = 0 THEN <<>> ELSE (IF rows[k].name \in gone THEN g[k - 1] ELSE Append(g[k - 1], rows[k]))
    <3>1. CASE k = n + 1
      <4>1. g[k] = (IF rows[n + 1].name \in gone THEN f[n] ELSE Append(f[n], rows[n + 1])) /\ g[k - 1] = f[n] /\ k # 0
        BY <3>1
      <4> QED
        BY <4>1, <3>1
    <3>2. CASE k # n + 1
      <4>1. k \in 0..n /\ g[k] = f[k]
        BY <3>2
      <4>2. k # 0 => g[k - 1] = f[k - 1]
        BY <4>1
      <4> HIDE DEF g
      <4> QED
        BY <4>1, <4>2, <2>2
    <3> QED
      BY <3>1, <3>2
  <2>4. WithoutUpTo(rows, gone, g, n + 1)
    BY <2>3 DEF WithoutUpTo
  <2> QED
    BY <2>4
<1> HIDE DEF S
<1>3. Nat \subseteq S
  BY <1>1, <1>2, InductiveSet
<1> QED
  BY <1>3 DEF S

\* and what is left after the last row is the result.
LEMMA WithoutIs ==
    ASSUME NEW rows, NEW gone, Len(rows) \in Nat
    PROVE  \E f : /\ Without(rows, gone) = f[Len(rows)]
                  /\ f[0] = <<>>
                  /\ \A k \in 1..Len(rows) : f[k] = (IF rows[k].name \in gone THEN f[k - 1] ELSE Append(f[k - 1], rows[k]))
<1> DEFINE n == Len(rows)
           upTo == CHOOSE f : WithoutUpTo(rows, gone, f, n)
<1>1. WithoutUpTo(rows, gone, upTo, n)
  <2>1. \E f : WithoutUpTo(rows, gone, f, n)
    BY WithoutExists
  <2> HIDE DEF n
  <2> QED
    BY <2>1
<1>2. Without(rows, gone) = upTo[n]
  BY DEF Without, WithoutUpTo
<1> HIDE DEF upTo
<1>3. \A k \in 0..n : upTo[k] = IF k = 0 THEN <<>> ELSE (IF rows[k].name \in gone THEN upTo[k - 1] ELSE Append(upTo[k - 1], rows[k]))
  BY <1>1 DEF WithoutUpTo
<1>4. upTo[0] = <<>>
  BY <1>3
<1>5. \A k \in 1..n : upTo[k] = (IF rows[k].name \in gone THEN upTo[k - 1] ELSE Append(upTo[k - 1], rows[k]))
  BY <1>3
<1> QED
  BY <1>2, <1>4, <1>5

-----------------------------------------------------------------------------
(* Records and counts. *)

\* A row of its own kind stands for a frame.
Listed == Rows \cup {[kind |-> "frames"]}

Item == [row : Listed, instance : Instances, from : Int, to : Int, persist : SUBSET PersistNames]

\* A record of items by position.
IsRecord(h) ==
    /\ h = [k \in DOMAIN h |-> h[k]]
    /\ IsFiniteSet(DOMAIN h) /\ DOMAIN h \subseteq Nat \ {0}
    /\ \A k \in DOMAIN h : h[k] \in Item

\* Position n comes after the whole of a record.
Follows(n, h) == n \in Nat \ {0} /\ \A k \in DOMAIN h : k < n

\* A record with one more item is a record.
LEMMA RecordPut ==
    ASSUME NEW h, IsRecord(h), NEW n, Follows(n, h), NEW x \in Item
    PROVE  /\ IsRecord(Put(h, n, x)) /\ n \notin DOMAIN h
           /\ \A k \in DOMAIN h : Put(h, n, x)[k] = h[k]
<1>1. n \notin DOMAIN h
  BY DEF Follows
<1>2. IsFiniteSet(DOMAIN h \cup {n})
  BY FS_AddElement DEF IsRecord
<1> QED
  BY <1>1, <1>2 DEF IsRecord, Follows, Put

\* Part of a record is one.
LEMMA RecordPart ==
    ASSUME NEW h, IsRecord(h), NEW S \in SUBSET DOMAIN h
    PROVE  IsRecord(Restrict(h, S)) /\ DOMAIN Restrict(h, S) = S /\ \A k \in S : Restrict(h, S)[k] = h[k]
<1>1. IsFiniteSet(S)
  BY FS_Subset DEF IsRecord
<1> QED
  BY <1>1 DEF IsRecord, Restrict

\* What comes after a record comes after a part of it.
LEMMA FollowsPart ==
    ASSUME NEW h, NEW n, Follows(n, h), NEW S \in SUBSET DOMAIN h
    PROVE  Follows(n, Restrict(h, S))
BY DEF Follows, Restrict

\* What a part of a record becomes with the record.
LEMMA PartPut ==
    ASSUME NEW h, IsRecord(h), NEW n, Follows(n, h), NEW x \in Item, NEW S \in SUBSET DOMAIN h
    PROVE  /\ Restrict(Put(h, n, x), S) = Restrict(h, S)
           /\ Restrict(Put(h, n, x), S \cup {n}) = Put(Restrict(h, S), n, x)
<1>1. \A k \in S : k # n
  BY DEF Follows
<1>2. \A k \in S : Put(h, n, x)[k] = h[k]
  BY <1>1 DEF Put
<1>3. Put(h, n, x)[n] = x
  BY DEF Put
<1>4. Restrict(Put(h, n, x), S) = Restrict(h, S)
  BY <1>2 DEF Restrict
<1>5. Restrict(Put(h, n, x), S \cup {n}) = [k \in S \cup {n} |-> IF k = n THEN x ELSE h[k]]
  BY <1>2, <1>3 DEF Restrict
<1>6. Put(Restrict(h, S), n, x) = [k \in S \cup {n} |-> IF k = n THEN x ELSE h[k]]
  BY <1>1 DEF Restrict, Put
<1> QED
  BY <1>4, <1>5, <1>6

\* A new item joins the items of its kind and of no other.
LEMMA OfKindsPut ==
    ASSUME NEW h, IsRecord(h), NEW n, Follows(n, h), NEW x \in Item, NEW kinds
    PROVE  /\ x.row.kind \in kinds => OfKinds(Put(h, n, x), kinds) = Put(OfKinds(h, kinds), n, x)
           /\ x.row.kind \notin kinds => OfKinds(Put(h, n, x), kinds) = OfKinds(h, kinds)
<1> DEFINE S == {k \in DOMAIN h : h[k].row.kind \in kinds}
           T == {k \in DOMAIN Put(h, n, x) : Put(h, n, x)[k].row.kind \in kinds}
<1>1. T = IF x.row.kind \in kinds THEN S \cup {n} ELSE S
  <2>1. n \notin DOMAIN h
    BY DEF Follows
  <2> QED
    BY <2>1 DEF Put
<1>2. S \in SUBSET DOMAIN h
  OBVIOUS
<1>3. OfKinds(Put(h, n, x), kinds) = Restrict(Put(h, n, x), T) /\ OfKinds(h, kinds) = Restrict(h, S)
  BY DEF OfKinds
<1> HIDE DEF S, T
<1> QED
  BY <1>1, <1>2, <1>3, PartPut

\* The items of some kinds are a record, part of the whole.
LEMMA OfKindsFacts ==
    ASSUME NEW h, IsRecord(h), NEW kinds
    PROVE  /\ IsRecord(OfKinds(h, kinds)) /\ DOMAIN OfKinds(h, kinds) \subseteq DOMAIN h
           /\ \A k \in DOMAIN OfKinds(h, kinds) : OfKinds(h, kinds)[k] = h[k] /\ h[k].row.kind \in kinds
           /\ \A n : Follows(n, h) => Follows(n, OfKinds(h, kinds))
<1> DEFINE S == {k \in DOMAIN h : h[k].row.kind \in kinds}
<1>1. S \in SUBSET DOMAIN h /\ OfKinds(h, kinds) = Restrict(h, S)
  BY DEF OfKinds
<1>2. \A k \in S : h[k].row.kind \in kinds
  OBVIOUS
<1> HIDE DEF S
<1> QED
  BY <1>1, <1>2, RecordPart, FollowsPart

\* A tally of one value more.
LEMMA TallyPut ==
    ASSUME NEW f, IsFiniteSet(DOMAIN f), NEW n, n \notin DOMAIN f, NEW key
    PROVE  Tally(Put(f, n, key)) = Bump(Tally(f), key)
<1> DEFINE g == Put(f, n, key)
           Of(t) == {k \in DOMAIN f : f[k] = t}
           OfG(t) == {k \in DOMAIN g : g[k] = t}
<1>1. /\ DOMAIN g = DOMAIN f \cup {n} /\ g[n] = key
      /\ \A k \in DOMAIN f : g[k] = f[k]
  BY DEF Put
<1> HIDE DEF g
<1>2. Range(g) = Range(f) \cup {key}
  BY <1>1 DEF Range
<1>3. ASSUME NEW t PROVE IsFiniteSet(Of(t)) /\ Cardinality(Of(t)) \in Nat
  BY FS_Subset, FS_CardinalityType
<1>4. ASSUME NEW t, t # key PROVE OfG(t) = Of(t)
  BY <1>1, <1>4
<1>5. Cardinality(OfG(key)) = Cardinality(Of(key)) + 1
  <2>1. OfG(key) = Of(key) \cup {n} /\ n \notin Of(key)
    BY <1>1
  <2> HIDE DEF Of, OfG
  <2> QED
    BY <2>1, <1>3, FS_AddElement
<1>6. At(Tally(f), key, 0) = Cardinality(Of(key))
  <2>1. CASE key \in Range(f)
    BY <2>1 DEF At, Tally
  <2>2. CASE key \notin Range(f)
    <3>1. Of(key) = {}
      BY <2>2 DEF Range
    <3>2. At(Tally(f), key, 0) = 0
      BY <2>2 DEF At, Tally
    <3> HIDE DEF Of
    <3> QED
      BY <3>1, <3>2, FS_EmptySet
  <2> QED
    BY <2>1, <2>2
<1>7. Tally(g) = [t \in Range(f) \cup {key} |-> Cardinality(OfG(t))]
  BY <1>2 DEF Tally
<1>8. Bump(Tally(f), key) = [t \in Range(f) \cup {key} |->
                               IF t = key THEN At(Tally(f), key, 0) + 1 ELSE Cardinality(Of(t))]
  BY DEF Bump, Put, Tally
<1> HIDE DEF Of, OfG
<1> QED
  BY <1>4, <1>5, <1>6, <1>7, <1>8 DEF g

\* The counts of a window with one item more.
LEMMA CountsPut ==
    ASSUME NEW h, IsRecord(h), NEW n, Follows(n, h), NEW x \in Item, NEW w, CountsMatch(w, h)
    PROVE  CountsMatch(AddToWindow(w, x), Put(h, n, x))
<1> DEFINE g == Put(h, n, x)
           Cs(r) == DOMAIN OfKinds(r, Counted)
           Es(r) == DOMAIN OfKinds(r, {"events"})
           Ss(r) == {k \in Es(r) : r[k].row.slot # Nil}
           Ks(r) == [k \in Cs(r) |-> r[k].row.kind]
           Rs(r) == [k \in Cs(r) |-> <<RoleIn(r[k]), r[k].row.kind>>]
           Ns(r) == [k \in Es(r) |-> <<RoleIn(r[k]), r[k].row.name>>]
           Xs(r) == [k \in Ss(r) |-> <<r[k].row.slot, r[k].row.name>>]
           v == AddToWindow(w, x)
<1>1. n \notin DOMAIN h /\ g[n] = x /\ \A k \in DOMAIN h : g[k] = h[k]
  BY DEF Put, Follows
<1>2. /\ w.total = Tally(Ks(h)) /\ w.roles = Tally(Rs(h))
      /\ w.eventNames = Tally(Ns(h)) /\ w.experiments = Tally(Xs(h))
  BY DEF CountsMatch
<1>3. /\ Cs(h) \subseteq DOMAIN h /\ Es(h) \subseteq DOMAIN h /\ Ss(h) \subseteq DOMAIN h
      /\ IsFiniteSet(Cs(h)) /\ IsFiniteSet(Es(h)) /\ IsFiniteSet(Ss(h))
  <2>1. Cs(h) \subseteq DOMAIN h /\ Es(h) \subseteq DOMAIN h
    BY OfKindsFacts
  <2>2. Ss(h) \subseteq DOMAIN h
    BY <2>1
  <2> QED
    BY <2>1, <2>2, FS_Subset DEF IsRecord
<1>4. /\ Cs(g) = IF x.row.kind \in Counted THEN Cs(h) \cup {n} ELSE Cs(h)
      /\ Es(g) = IF x.row.kind = "events" THEN Es(h) \cup {n} ELSE Es(h)
  <2>1. ASSUME NEW kinds
        PROVE  DOMAIN OfKinds(g, kinds) = IF x.row.kind \in kinds THEN DOMAIN OfKinds(h, kinds) \cup {n}
                                          ELSE DOMAIN OfKinds(h, kinds)
    <3>1. /\ x.row.kind \in kinds => OfKinds(g, kinds) = Put(OfKinds(h, kinds), n, x)
          /\ x.row.kind \notin kinds => OfKinds(g, kinds) = OfKinds(h, kinds)
      BY OfKindsPut
    <3> HIDE DEF g
    <3> QED
      BY <3>1 DEF Put
  <2> QED
    BY <2>1
<1> HIDE DEF g, Cs, Es
<1>5. Ss(g) = IF x.row.kind = "events" /\ x.row.slot # Nil THEN Ss(h) \cup {n} ELSE Ss(h)
  BY <1>1, <1>3, <1>4
<1> HIDE DEF Ss
<1>6. v.total = Tally(Ks(g))
  <2>1. v.total = AddCount(w.total, x, x.row.kind)
    BY DEF AddToWindow
  <2>2. Ks(g) = IF x.row.kind \in Counted THEN Put(Ks(h), n, x.row.kind) ELSE Ks(h)
    BY <1>1, <1>3, <1>4 DEF Put
  <2>3. IsFiniteSet(DOMAIN Ks(h)) /\ n \notin DOMAIN Ks(h)
    BY <1>1, <1>3
  <2> HIDE DEF Ks, v
  <2> QED
    BY <2>1, <2>2, <2>3, <1>2, TallyPut DEF AddCount
<1>7. v.roles = Tally(Rs(g))
  <2>1. v.roles = AddCount(w.roles, x, <<RoleIn(x), x.row.kind>>)
    BY DEF AddToWindow
  <2>2. Rs(g) = IF x.row.kind \in Counted THEN Put(Rs(h), n, <<RoleIn(x), x.row.kind>>) ELSE Rs(h)
    BY <1>1, <1>3, <1>4 DEF Put
  <2>3. IsFiniteSet(DOMAIN Rs(h)) /\ n \notin DOMAIN Rs(h)
    BY <1>1, <1>3
  <2> HIDE DEF Rs, v
  <2> QED
    BY <2>1, <2>2, <2>3, <1>2, TallyPut DEF AddCount
<1>8. v.eventNames = Tally(Ns(g))
  <2>1. v.eventNames = AddEvent(w.eventNames, x)
    BY DEF AddToWindow
  <2>2. Ns(g) = IF x.row.kind = "events" THEN Put(Ns(h), n, <<RoleIn(x), x.row.name>>) ELSE Ns(h)
    BY <1>1, <1>3, <1>4 DEF Put
  <2>3. IsFiniteSet(DOMAIN Ns(h)) /\ n \notin DOMAIN Ns(h)
    BY <1>1, <1>3
  <2> HIDE DEF Ns, v
  <2> QED
    BY <2>1, <2>2, <2>3, <1>2, TallyPut DEF AddEvent
<1>9. v.experiments = Tally(Xs(g))
  <2>1. v.experiments = AddExperiment(w.experiments, x)
    BY DEF AddToWindow
  <2>2. Xs(g) = IF x.row.kind = "events" /\ x.row.slot # Nil
                THEN Put(Xs(h), n, <<x.row.slot, x.row.name>>) ELSE Xs(h)
    BY <1>1, <1>3, <1>5 DEF Put
  <2>3. IsFiniteSet(DOMAIN Xs(h)) /\ n \notin DOMAIN Xs(h)
    BY <1>1, <1>3
  <2> HIDE DEF Xs, v
  <2> QED
    BY <2>1, <2>2, <2>3, <1>2, TallyPut DEF AddExperiment
<1> QED
  BY <1>6, <1>7, <1>8, <1>9 DEF CountsMatch, g, Cs, Es, Ss

-----------------------------------------------------------------------------
(* Persisted log lines. *)

\* The latest of a record with one position more.
LEMMA LatestPut ==
    ASSUME NEW h, IsRecord(h), NEW n, Follows(n, h), NEW x \in Item
    PROVE  /\ (\A j \in DOMAIN h : h[j].to <= x.to) => IsLatest(n, Put(h, n, x))
           /\ \A k : IsLatest(k, h) =>
                 /\ x.to >= h[k].to => IsLatest(n, Put(h, n, x))
                 /\ x.to < h[k].to => IsLatest(k, Put(h, n, x))
<1> DEFINE g == Put(h, n, x)
<1>1. /\ DOMAIN g = DOMAIN h \cup {n} /\ g[n] = x /\ n \notin DOMAIN h
      /\ \A k \in DOMAIN h : g[k] = h[k] /\ k < n /\ k \in Nat
  BY DEF Put, Follows, IsRecord
<1>2. n \in Nat /\ x.to \in Int /\ \A k \in DOMAIN h : h[k].to \in Int
  BY DEF Follows, IsRecord, Item
<1> HIDE DEF g
<1>3. (\A j \in DOMAIN h : h[j].to <= x.to) => IsLatest(n, g)
  BY <1>1, <1>2 DEF IsLatest
<1>4. ASSUME NEW k, IsLatest(k, h)
      PROVE  /\ x.to >= h[k].to => IsLatest(n, g)
             /\ x.to < h[k].to => IsLatest(k, g)
  <2>1. k \in DOMAIN h /\ \A j \in DOMAIN h : h[j].to < h[k].to \/ (h[j].to = h[k].to /\ j <= k)
    BY <1>4 DEF IsLatest
  <2>2. x.to >= h[k].to => \A j \in DOMAIN h : h[j].to <= x.to
    BY <1>2, <2>1
  <2>3. x.to < h[k].to => IsLatest(k, g)
    BY <1>1, <1>2, <2>1 DEF IsLatest
  <2> QED
    BY <1>3, <2>2, <2>3
<1> QED
  BY <1>3, <1>4 DEF g

LinesOf(h, key) == Restrict(h, {k \in DOMAIN h : LogKey(h[k]) = key})

\* The lines of one key are a record, part of the whole.
LEMMA LinesPart ==
    ASSUME NEW h, IsRecord(h), NEW tag
    PROVE  /\ IsRecord(LinesOf(h, tag))
           /\ DOMAIN LinesOf(h, tag) = {k \in DOMAIN h : LogKey(h[k]) = tag}
           /\ \A k \in DOMAIN LinesOf(h, tag) : LinesOf(h, tag)[k] = h[k]
           /\ \A n : Follows(n, h) => Follows(n, LinesOf(h, tag))
<1> DEFINE S == {k \in DOMAIN h : LogKey(h[k]) = tag}
<1>1. S \in SUBSET DOMAIN h /\ LinesOf(h, tag) = Restrict(h, S)
  BY DEF LinesOf
<1> HIDE DEF S
<1>2. IsRecord(Restrict(h, S)) /\ DOMAIN Restrict(h, S) = S /\ \A k \in S : Restrict(h, S)[k] = h[k]
  BY <1>1, RecordPart
<1>3. \A n : Follows(n, h) => Follows(n, Restrict(h, S))
  BY <1>1, FollowsPart
<1> QED
  BY <1>1, <1>2, <1>3 DEF S

\* A new line joins the lines of its key and of no other.
LEMMA LinesPut ==
    ASSUME NEW h, IsRecord(h), NEW n, Follows(n, h), NEW x \in Item, NEW tag
    PROVE  LinesOf(Put(h, n, x), tag) = IF LogKey(x) = tag THEN Put(LinesOf(h, tag), n, x)
                                        ELSE LinesOf(h, tag)
<1> DEFINE g == Put(h, n, x)
           S == {k \in DOMAIN h : LogKey(h[k]) = tag}
           T == {k \in DOMAIN g : LogKey(g[k]) = tag}
<1>1. /\ DOMAIN g = DOMAIN h \cup {n} /\ g[n] = x /\ n \notin DOMAIN h
      /\ \A k \in DOMAIN h : g[k] = h[k]
  BY DEF Put, Follows
<1>2. LinesOf(g, tag) = Restrict(g, T) /\ LinesOf(h, tag) = Restrict(h, S)
  BY DEF LinesOf
<1> HIDE DEF g
<1>3. T = IF LogKey(x) = tag THEN S \cup {n} ELSE S
  BY <1>1
<1>4. S \in SUBSET DOMAIN h
  OBVIOUS
<1> HIDE DEF S, T
<1>5. Restrict(g, S) = Restrict(h, S) /\ Restrict(g, S \cup {n}) = Put(Restrict(h, S), n, x)
  BY <1>4, PartPut DEF g
<1> QED
  BY <1>2, <1>3, <1>5 DEF g

\* One more persisted line.
LEMMA LogsPut ==
    ASSUME NEW h, IsRecord(h), NEW n, Follows(n, h), NEW x \in Item, NEW map, LogsMatch(map, h),
           x.row.kind = "logs", x.row.name \in x.persist
    PROVE  LogsMatch(AddPersistLog(map, x), Put(h, n, x))
<1> DEFINE g == Put(h, n, x)
           key == LogKey(x)
           line == [ts |-> x.to, instance |-> x.instance]
           entry == IF key \in DOMAIN map
                    THEN [count |-> map[key].count + 1,
                          exemplar |-> IF line.ts >= map[key].exemplar.ts THEN line
                                       ELSE map[key].exemplar]
                    ELSE [count |-> 1, exemplar |-> line]
           new == AddPersistLog(map, x)
<1>1. /\ DOMAIN g = DOMAIN h \cup {n} /\ g[n] = x /\ n \notin DOMAIN h
      /\ \A k \in DOMAIN h : g[k] = h[k]
  BY DEF Put, Follows
<1>2. new = Put(map, key, entry)
  BY DEF AddPersistLog
<1>3. /\ DOMAIN new = DOMAIN map \cup {key} /\ new[key] = entry
      /\ \A k \in DOMAIN map : k # key => new[k] = map[k]
  BY <1>2 DEF Put
<1> HIDE DEF g, new
<1>4. /\ DOMAIN map = {LogKey(h[k]) : k \in DOMAIN h}
      /\ \A t \in DOMAIN map :
            /\ map[t].count = Cardinality(DOMAIN LinesOf(h, t))
            /\ \E k \in DOMAIN LinesOf(h, t) :
                  /\ IsLatest(k, LinesOf(h, t))
                  /\ map[t].exemplar = [ts |-> h[k].to, instance |-> h[k].instance]
  BY DEF LogsMatch, LinesOf
<1>5. DOMAIN new = {LogKey(g[k]) : k \in DOMAIN g}
  BY <1>1, <1>3, <1>4
<1> DEFINE Good(t) ==
             /\ new[t].count = Cardinality(DOMAIN LinesOf(g, t))
             /\ \E k \in DOMAIN LinesOf(g, t) :
                   /\ IsLatest(k, LinesOf(g, t))
                   /\ new[t].exemplar = [ts |-> g[k].to, instance |-> g[k].instance]
<1>6. ASSUME NEW t \in DOMAIN map, t # key PROVE Good(t)
  <2>1. LinesOf(g, t) = LinesOf(h, t) /\ DOMAIN LinesOf(h, t) \subseteq DOMAIN h
    <3>1. DOMAIN LinesOf(h, t) = {k \in DOMAIN h : LogKey(h[k]) = t}
      BY LinesPart
    <3>2. LinesOf(Put(h, n, x), t) = IF LogKey(x) = t THEN Put(LinesOf(h, t), n, x) ELSE LinesOf(h, t)
      BY LinesPut
    <3> QED
      BY <1>6, <3>1, <3>2 DEF g
  <2>2. new[t] = map[t]
    BY <1>3, <1>6
  <2>3. PICK k \in DOMAIN LinesOf(h, t) :
                /\ IsLatest(k, LinesOf(h, t))
                /\ map[t].exemplar = [ts |-> h[k].to, instance |-> h[k].instance]
    BY <1>4
  <2>4. g[k] = h[k]
    BY <1>1, <2>1, <2>3
  <2>5. map[t].count = Cardinality(DOMAIN LinesOf(h, t))
    BY <1>4
  <2> QED
    BY <2>1, <2>2, <2>3, <2>4, <2>5
<1>7. Good(key)
  <2> DEFINE old == LinesOf(h, key)
  <2>1. /\ IsRecord(old) /\ Follows(n, old) /\ LinesOf(g, key) = Put(old, n, x)
        /\ DOMAIN old = {k \in DOMAIN h : LogKey(h[k]) = key}
        /\ \A k \in DOMAIN old : old[k] = h[k]
    BY LinesPart, LinesPut DEF g
  <2> HIDE DEF old
  <2>2. DOMAIN LinesOf(g, key) = DOMAIN old \cup {n} /\ n \notin DOMAIN old
    BY <2>1, <1>1 DEF Put
  <2>3. Cardinality(DOMAIN LinesOf(g, key)) = Cardinality(DOMAIN old) + 1
    <3>1. IsFiniteSet(DOMAIN old)
      BY <2>1 DEF IsRecord
    <3> QED
      BY <2>2, <3>1, FS_AddElement
  <2>4. CASE key \notin DOMAIN map
    <3>1. DOMAIN old = {}
      BY <1>4, <2>1, <2>4
    <3>2. Cardinality(DOMAIN LinesOf(g, key)) = 1
      BY <2>3, <3>1, FS_EmptySet
    <3>3. IsLatest(n, LinesOf(g, key))
      BY <2>1, <3>1, LatestPut
    <3>4. new[key].count = 1 /\ new[key].exemplar = line
      BY <1>3, <2>4
    <3> QED
      BY <1>1, <2>2, <3>2, <3>3, <3>4
  <2>5. CASE key \in DOMAIN map
    <3>1. new[key].count = Cardinality(DOMAIN LinesOf(g, key))
      BY <1>3, <1>4, <2>3, <2>5 DEF old
    <3>2. PICK k \in DOMAIN old :
                  /\ IsLatest(k, old)
                  /\ map[key].exemplar = [ts |-> h[k].to, instance |-> h[k].instance]
      BY <1>4, <2>5 DEF old
    <3>3. old[k] = h[k] /\ g[k] = h[k] /\ k \in DOMAIN h
      BY <1>1, <2>1, <3>2
    <3>4. x.to \in Int /\ h[k].to \in Int
      BY <3>3 DEF IsRecord, Item
    <3>5. /\ x.to >= h[k].to => IsLatest(n, LinesOf(g, key))
          /\ x.to < h[k].to => IsLatest(k, LinesOf(g, key))
      BY <2>1, <3>2, <3>3, LatestPut
    <3>6. new[key].exemplar = IF x.to >= h[k].to THEN line ELSE map[key].exemplar
      BY <1>3, <2>5, <3>2
    <3>7. CASE x.to >= h[k].to
      BY <1>1, <2>2, <3>1, <3>5, <3>6, <3>7
    <3>8. CASE x.to < h[k].to
      BY <2>2, <3>1, <3>2, <3>3, <3>4, <3>5, <3>6, <3>8
    <3> QED
      BY <3>4, <3>7, <3>8
  <2> QED
    BY <2>4, <2>5
<1>8. \A t \in DOMAIN new : Good(t)
  BY <1>3, <1>6, <1>7
<1> QED
  BY <1>5, <1>8 DEF LogsMatch, LinesOf, new, g

\* A new item joins the persisted lines if it is a log line whose name its list holds.
LEMMA PersistedPut ==
    ASSUME NEW h, IsRecord(h), NEW n, Follows(n, h), NEW x \in Item
    PROVE  /\ IsRecord(Persisted(h)) /\ Follows(n, Persisted(h)) /\ DOMAIN Persisted(h) \subseteq DOMAIN h
           /\ \A k \in DOMAIN Persisted(h) :
                 Persisted(h)[k] = h[k] /\ h[k].row.kind = "logs" /\ h[k].row.name \in h[k].persist
           /\ x.row.kind = "logs" /\ x.row.name \in x.persist
                 => Persisted(Put(h, n, x)) = Put(Persisted(h), n, x)
           /\ ~(x.row.kind = "logs" /\ x.row.name \in x.persist) => Persisted(Put(h, n, x)) = Persisted(h)
<1> DEFINE g == Put(h, n, x)
           S == {k \in DOMAIN h : h[k].row.kind = "logs" /\ h[k].row.name \in h[k].persist}
           T == {k \in DOMAIN g : g[k].row.kind = "logs" /\ g[k].row.name \in g[k].persist}
<1>1. /\ DOMAIN g = DOMAIN h \cup {n} /\ g[n] = x /\ n \notin DOMAIN h
      /\ \A k \in DOMAIN h : g[k] = h[k]
  BY DEF Put, Follows
<1>2. Persisted(g) = Restrict(g, T) /\ Persisted(h) = Restrict(h, S)
  BY DEF Persisted
<1> HIDE DEF g
<1>3. T = IF x.row.kind = "logs" /\ x.row.name \in x.persist THEN S \cup {n} ELSE S
  BY <1>1
<1>4. S \in SUBSET DOMAIN h /\ \A k \in S : h[k].row.kind = "logs" /\ h[k].row.name \in h[k].persist
  OBVIOUS
<1> HIDE DEF S, T
<1>5. Restrict(g, S) = Restrict(h, S) /\ Restrict(g, S \cup {n}) = Put(Restrict(h, S), n, x)
  BY <1>4, PartPut DEF g
<1>6. IsRecord(Restrict(h, S)) /\ DOMAIN Restrict(h, S) = S /\ \A k \in S : Restrict(h, S)[k] = h[k]
  BY <1>4, RecordPart
<1>7. Follows(n, Restrict(h, S))
  BY <1>4, FollowsPart
<1> QED
  BY <1>2, <1>3, <1>4, <1>5, <1>6, <1>7 DEF g

\* The log counts of a window stay right with one more item of any kind.
LEMMA WindowLogsPut ==
    ASSUME NEW h, IsRecord(h), NEW n, Follows(n, h), NEW x \in Item, NEW map,
           LogsMatch(map, Persisted(h))
    PROVE  LogsMatch(AddPersistLog(map, x), Persisted(Put(h, n, x)))
<1>1. CASE x.row.kind = "logs" /\ x.row.name \in x.persist
  <2>1. IsRecord(Persisted(h)) /\ Follows(n, Persisted(h))
    BY PersistedPut
  <2>2. Persisted(Put(h, n, x)) = Put(Persisted(h), n, x)
    BY <1>1, PersistedPut
  <2> QED
    BY <1>1, <2>1, <2>2, LogsPut
<1>2. CASE ~(x.row.kind = "logs" /\ x.row.name \in x.persist)
  <2>1. Persisted(Put(h, n, x)) = Persisted(h)
    BY <1>2, PersistedPut
  <2>2. AddPersistLog(map, x) = map
    BY <1>2 DEF AddPersistLog
  <2> QED
    BY <2>1, <2>2
<1> QED
  BY <1>1, <1>2

-----------------------------------------------------------------------------
(* Sums and largest members. *)

\* A finite set of integers that is not empty has a largest member,
LEMMA LargestExists ==
    ASSUME NEW S \in SUBSET Int, IsFiniteSet(S), S # {}
    PROVE  \E x \in S : \A y \in S : x >= y
<1> DEFINE HasLargest(A) == \E x \in A : \A y \in A : x >= y
           T == {n \in Nat : \A A \in SUBSET Int :
                               IsFiniteSet(A) /\ Cardinality(A) = n /\ n # 0 => HasLargest(A)}
<1>1. 0 \in T
  OBVIOUS
<1>2. ASSUME NEW n \in Nat, n \in T PROVE n + 1 \in T
  <2>1. SUFFICES ASSUME NEW A \in SUBSET Int, IsFiniteSet(A), Cardinality(A) = n + 1
                 PROVE  HasLargest(A)
    BY <1>2
  <2>2. A # {}
    BY <2>1, FS_EmptySet
  <2>3. PICK a \in A : TRUE
    BY <2>2
  <2>4. IsFiniteSet(A \ {a}) /\ Cardinality(A \ {a}) = n
    <3>1. IsFiniteSet(A \ {a}) /\ Cardinality(A \ {a}) = Cardinality(A) - 1
      BY <2>1, <2>3, FS_RemoveElement
    <3> QED
      BY <2>1, <3>1
  <2>5. CASE n = 0
    <3>1. A \ {a} = {}
      BY <2>4, <2>5, FS_EmptySet
    <3>2. A = {a} /\ a \in Int
      BY <2>3, <3>1
    <3> QED
      BY <3>2
  <2>6. CASE n # 0
    <3>1. HasLargest(A \ {a})
      <4>1. A \ {a} \in SUBSET Int
        OBVIOUS
      <4> HIDE DEF HasLargest
      <4> QED
        BY <1>2, <2>4, <2>6, <4>1
    <3>2. PICK b \in A \ {a} : \A y \in A \ {a} : b >= y
      BY <3>1
    <3>3. a \in Int /\ b \in Int /\ b \in A /\ A \subseteq Int
      BY <2>3, <3>2
    <3>4. CASE b >= a
      BY <3>2, <3>3, <3>4
    <3>5. CASE a > b
      BY <2>3, <3>2, <3>3, <3>5
    <3> QED
      BY <3>3, <3>4, <3>5
  <2> QED
    BY <2>5, <2>6
<1> HIDE DEF T
<1>3. Nat \subseteq T
  BY <1>1, <1>2, InductiveSet
<1>4. Cardinality(S) \in T /\ Cardinality(S) # 0
  BY <1>3, FS_CardinalityType, FS_EmptySet
<1>5. HasLargest(S)
  <2> HIDE DEF HasLargest
  <2> QED
    BY <1>4 DEF T
<1> QED
  BY <1>5

\* and LargestOf is that member.
LEMMA LargestIs ==
    ASSUME NEW S \in SUBSET Int, IsFiniteSet(S), S # {}
    PROVE  LargestOf(S) \in S /\ \A y \in S : LargestOf(S) >= y
<1>1. \E x \in S : \A y \in S : x >= y
  BY LargestExists
<1> QED
  BY <1>1 DEF LargestOf

ValueAt(f, k) == IF k \in DOMAIN f THEN f[k] ELSE 0

SumUpTo(f, u, n) == u = [k \in 0..n |-> IF k = 0 THEN 0 ELSE u[k - 1] + ValueAt(f, k)]

\* A sum has a value after each position.
LEMMA SumExists ==
    ASSUME NEW f
    PROVE  \A n \in Nat : \E u : SumUpTo(f, u, n)
<1> DEFINE S == {n \in Nat : \E u : SumUpTo(f, u, n)}
<1>1. 0 \in S
  <2> DEFINE u == [k \in 0..0 |-> 0]
  <2>1. SumUpTo(f, u, 0)
    BY DEF SumUpTo
  <2> QED
    BY <2>1
<1>2. ASSUME NEW n \in Nat, n \in S PROVE n + 1 \in S
  <2>1. PICK u : SumUpTo(f, u, n)
    BY <1>2
  <2> DEFINE g == [k \in 0..(n + 1) |-> IF k = n + 1 THEN u[n] + ValueAt(f, n + 1) ELSE u[k]]
  <2>2. \A k \in 0..n : u[k] = IF k = 0 THEN 0 ELSE u[k - 1] + ValueAt(f, k)
    BY <2>1 DEF SumUpTo
  <2>3. ASSUME NEW k \in 0..(n + 1)
        PROVE  g[k] = IF k = 0 THEN 0 ELSE g[k - 1] + ValueAt(f, k)
    <3>1. CASE k = n + 1
      <4>1. g[k] = u[n] + ValueAt(f, n + 1) /\ g[k - 1] = u[n] /\ k # 0
        BY <3>1
      <4> QED
        BY <4>1, <3>1
    <3>2. CASE k # n + 1
      <4>1. k \in 0..n /\ g[k] = u[k]
        BY <3>2
      <4>2. k # 0 => g[k - 1] = u[k - 1]
        BY <4>1
      <4> HIDE DEF g
      <4> QED
        BY <4>1, <4>2, <2>2
    <3> QED
      BY <3>1, <3>2
  <2>4. SumUpTo(f, g, n + 1)
    BY <2>3 DEF SumUpTo
  <2> QED
    BY <2>4
<1> HIDE DEF S
<1>3. Nat \subseteq S
  BY <1>1, <1>2, InductiveSet
<1> QED
  BY <1>3 DEF S

\* A function of numbers at positions.
IsNumbered(f) ==
    /\ IsFiniteSet(DOMAIN f) /\ DOMAIN f \subseteq Nat \ {0}
    /\ \A k \in DOMAIN f : f[k] \in Int

\* A sum may be computed up to any position after the last.
LEMMA SumIs ==
    ASSUME NEW f, IsNumbered(f), NEW n \in Nat, \A k \in DOMAIN f : k <= n
    PROVE  \E u : /\ SumOf(f) = u[n] /\ u[0] = 0
                  /\ \A k \in 1..n : u[k] = u[k - 1] + ValueAt(f, k)
                  /\ \A k \in 0..n : u[k] \in Int
<1> DEFINE last == LargestOf({0} \cup DOMAIN f)
           upTo == CHOOSE u : SumUpTo(f, u, last)
<1>1. last \in Nat /\ last <= n /\ \A k \in DOMAIN f : k <= last
  <2>1. {0} \cup DOMAIN f \in SUBSET Int /\ {0} \cup DOMAIN f # {}
    BY DEF IsNumbered
  <2>2. IsFiniteSet({0} \cup DOMAIN f)
    BY FS_Singleton, FS_Union DEF IsNumbered
  <2>3. last \in {0} \cup DOMAIN f /\ \A y \in {0} \cup DOMAIN f : last >= y
    BY <2>1, <2>2, LargestIs
  <2> HIDE DEF last
  <2> QED
    BY <2>3 DEF IsNumbered
<1>2. SumOf(f) = upTo[last]
  BY DEF SumOf, SumUpTo, ValueAt
<1>3. SumUpTo(f, upTo, last)
  <2>1. \E u : SumUpTo(f, u, last)
    BY <1>1, SumExists
  <2> HIDE DEF last
  <2> QED
    BY <2>1
<1> HIDE DEF last, upTo
<1>4. \A k \in 0..last : upTo[k] = IF k = 0 THEN 0 ELSE upTo[k - 1] + ValueAt(f, k)
  BY <1>3 DEF SumUpTo
<1>5. PICK u : SumUpTo(f, u, n)
  BY SumExists
<1>6. \A k \in 0..n : u[k] = IF k = 0 THEN 0 ELSE u[k - 1] + ValueAt(f, k)
  BY <1>5 DEF SumUpTo
<1>7. \A k : ValueAt(f, k) \in Int /\ (k \notin DOMAIN f => ValueAt(f, k) = 0)
  BY DEF ValueAt, IsNumbered
<1> DEFINE T == {k \in Nat : k <= n => u[k] \in Int /\ u[k] = IF k <= last THEN upTo[k] ELSE upTo[last]}
<1>8. 0 \in T
  BY <1>1, <1>4, <1>6
<1>9. ASSUME NEW k \in Nat, k \in T PROVE k + 1 \in T
  <2>1. SUFFICES ASSUME k + 1 <= n
                 PROVE  u[k + 1] \in Int /\ u[k + 1] = IF k + 1 <= last THEN upTo[k + 1] ELSE upTo[last]
    OBVIOUS
  <2>2. u[k] \in Int /\ u[k] = IF k <= last THEN upTo[k] ELSE upTo[last]
    BY <1>9, <2>1
  <2>3. u[k + 1] = u[k] + ValueAt(f, k + 1)
    <3>1. k + 1 \in 0..n /\ k + 1 # 0 /\ (k + 1) - 1 = k
      BY <2>1
    <3> QED
      BY <1>6, <3>1
  <2>4. u[k + 1] \in Int
    BY <1>7, <2>2, <2>3
  <2>5. CASE k + 1 <= last
    <3>1. k + 1 \in 0..last /\ k + 1 # 0 /\ (k + 1) - 1 = k
      BY <1>1, <2>5
    <3>2. upTo[k + 1] = upTo[k] + ValueAt(f, k + 1)
      BY <1>4, <3>1
    <3> QED
      BY <1>1, <2>2, <2>3, <2>4, <2>5, <3>2
  <2>6. CASE ~(k + 1 <= last)
    <3>1. k + 1 \notin DOMAIN f /\ k >= last
      BY <1>1, <2>6
    <3>2. u[k + 1] = u[k]
      BY <1>7, <2>2, <2>3, <3>1
    <3>3. u[k] = upTo[last]
      BY <1>1, <2>2, <3>1
    <3> QED
      BY <2>4, <2>6, <3>2, <3>3
  <2> QED
    BY <2>5, <2>6
<1> HIDE DEF T
<1>10. Nat \subseteq T
  BY <1>8, <1>9, InductiveSet
<1>11. \A k \in 0..n : u[k] \in Int
  BY <1>10 DEF T
<1>12. u[n] = upTo[last]
  BY <1>1, <1>10 DEF T
<1>13. \A k \in 1..n : u[k] = u[k - 1] + ValueAt(f, k)
  BY <1>6
<1>14. u[0] = 0
  BY <1>6
<1> QED
  BY <1>2, <1>11, <1>12, <1>13, <1>14

\* One number more.
LEMMA SumPut ==
    ASSUME NEW f, IsNumbered(f), NEW n \in Nat \ {0}, \A k \in DOMAIN f : k < n, NEW value \in Int
    PROVE  SumOf(f) \in Int /\ SumOf(Put(f, n, value)) = SumOf(f) + value
<1> DEFINE g == Put(f, n, value)
<1>1. /\ DOMAIN g = DOMAIN f \cup {n} /\ g[n] = value /\ n \notin DOMAIN f
      /\ \A k \in DOMAIN f : g[k] = f[k]
  BY DEF Put
<1>2. IsNumbered(g) /\ \A k \in DOMAIN g : k <= n
  <2>1. IsFiniteSet(DOMAIN g)
    BY <1>1, FS_AddElement DEF IsNumbered
  <2> HIDE DEF g
  <2> QED
    BY <1>1, <2>1 DEF IsNumbered
<1> HIDE DEF g
<1>3. PICK u : /\ SumOf(f) = u[n] /\ u[0] = 0
               /\ \A k \in 1..n : u[k] = u[k - 1] + ValueAt(f, k)
               /\ \A k \in 0..n : u[k] \in Int
  BY SumIs DEF IsNumbered
<1>4. PICK w : /\ SumOf(g) = w[n] /\ w[0] = 0
               /\ \A k \in 1..n : w[k] = w[k - 1] + ValueAt(g, k)
               /\ \A k \in 0..n : w[k] \in Int
  BY <1>2, SumIs
<1> DEFINE T == {k \in Nat : k < n => w[k] = u[k]}
<1>5. 0 \in T
  BY <1>3, <1>4
<1>6. ASSUME NEW k \in Nat, k \in T PROVE k + 1 \in T
  <2>1. SUFFICES ASSUME k + 1 < n PROVE w[k + 1] = u[k + 1]
    OBVIOUS
  <2>2. k + 1 \in 1..n /\ (k + 1) - 1 = k /\ k + 1 # n
    BY <2>1
  <2>3. ValueAt(g, k + 1) = ValueAt(f, k + 1)
    BY <1>1, <2>2 DEF ValueAt
  <2>4. w[k] = u[k]
    BY <1>6, <2>1
  <2>5. u[k + 1] = u[k] + ValueAt(f, k + 1) /\ w[k + 1] = w[k] + ValueAt(g, k + 1)
    BY <1>3, <1>4, <2>2
  <2> QED
    BY <2>3, <2>4, <2>5
<1> HIDE DEF T
<1>7. Nat \subseteq T
  BY <1>5, <1>6, InductiveSet
<1>8. n - 1 \in Nat /\ n \in 1..n /\ n - 1 < n /\ n - 1 \in 0..n
  OBVIOUS
<1>9. w[n - 1] = u[n - 1] /\ u[n - 1] \in Int
  BY <1>3, <1>7, <1>8 DEF T
<1>10. ValueAt(f, n) = 0 /\ ValueAt(g, n) = value
  BY <1>1 DEF ValueAt
<1>11. u[n] = u[n - 1] + ValueAt(f, n) /\ w[n] = w[n - 1] + ValueAt(g, n)
  BY <1>3, <1>4, <1>8
<1> QED
  BY <1>3, <1>4, <1>9, <1>10, <1>11 DEF g

\* Nothing sums to zero.
LEMMA SumOfNothing ==
    ASSUME NEW f, DOMAIN f = {}
    PROVE  SumOf(f) = 0
<1>1. IsNumbered(f) /\ \A k \in DOMAIN f : k <= 0
  BY FS_EmptySet DEF IsNumbered
<1>2. \E u : SumOf(f) = u[0] /\ u[0] = 0
  BY <1>1, SumIs
<1> QED
  BY <1>2


-----------------------------------------------------------------------------
(* Series. *)

\* The values of an item, by its kind.
LEMMA ItemValues ==
    ASSUME NEW x \in Item
    PROVE  /\ x.row.kind = "counters" => x.row.value \in Int
           /\ x.row.kind = "histograms" => x.row.value.count \in Nat /\ x.row.value.max \in Int
           /\ x.row.kind = "distincts" => x.row.value \in [Registers -> Nat]
           /\ x.to \in Int /\ x.from \in Int
<1>1. x.row \in Listed /\ x.to \in Int /\ x.from \in Int
  BY DEF Item
<1>2. CASE x.row \in Rows
  BY <1>1, <1>2, LiveViewsAssumption
<1>3. CASE x.row = [kind |-> "frames"]
  BY <1>1, <1>3
<1> QED
  BY <1>1, <1>2, <1>3 DEF Listed

\* One more row of a counter.
LEMMA CounterPut ==
    ASSUME NEW h, IsRecord(h), \A k \in DOMAIN h : h[k].row.kind = "counters",
           NEW n, Follows(n, h), NEW x \in Item, x.row.kind = "counters"
    PROVE  LET old == SumOf([k \in DOMAIN h |-> h[k].row.value])
           IN  ExactValue("counters", old + x.row.value, Put(h, n, x))
<1> DEFINE f == [k \in DOMAIN h |-> h[k].row.value]
           g == Put(h, n, x)
<1>1. \A k \in DOMAIN h : h[k].row.value \in Int
  BY ItemValues DEF IsRecord
<1>2. IsNumbered(f) /\ DOMAIN f = DOMAIN h
  BY <1>1 DEF IsNumbered, IsRecord
<1>3. n \in Nat \ {0} /\ \A k \in DOMAIN f : k < n
  BY DEF Follows
<1>4. x.row.value \in Int
  BY ItemValues
<1>5. [k \in DOMAIN g |-> g[k].row.value] = Put(f, n, x.row.value)
  BY <1>3 DEF Put
<1> HIDE DEF f
<1>6. SumOf(Put(f, n, x.row.value)) = SumOf(f) + x.row.value
  BY <1>2, <1>3, <1>4, SumPut
<1> HIDE DEF g
<1>7. ExactValue("counters", SumOf(f) + x.row.value, g)
  BY <1>5, <1>6 DEF ExactValue
<1> QED
  BY <1>7 DEF f, g

\* One more row of a gauge.
LEMMA GaugePut ==
    ASSUME NEW h, IsRecord(h), NEW n, Follows(n, h), NEW x \in Item,
           NEW value, ExactValue("gauges", value, h)
    PROVE  ExactValue("gauges", MergeGauge(value, x.row, x.to), Put(h, n, x))
<1> DEFINE g == Put(h, n, x)
<1>1. PICK k \in DOMAIN h : IsLatest(k, h) /\ value = [value |-> h[k].row.value, ts |-> h[k].to]
  BY DEF ExactValue
<1>2. n \in DOMAIN g /\ g[n] = x /\ k \in DOMAIN g /\ g[k] = h[k]
  BY DEF Put, Follows
<1>3. x.to >= h[k].to => IsLatest(n, g)
  BY <1>1, LatestPut
<1>4. x.to < h[k].to => IsLatest(k, g)
  BY <1>1, LatestPut
<1>5. x.to \in Int /\ h[k].to \in Int /\ value.ts = h[k].to
  BY <1>1 DEF IsRecord, Item
<1> HIDE DEF g
<1>6. CASE x.to >= h[k].to
  <2>1. MergeGauge(value, x.row, x.to) = [value |-> x.row.value, ts |-> x.to]
    BY <1>5, <1>6 DEF MergeGauge
  <2> QED
    BY <1>2, <1>3, <1>6, <2>1 DEF ExactValue, g
<1>7. CASE x.to < h[k].to
  <2>1. MergeGauge(value, x.row, x.to) = value
    BY <1>5, <1>7 DEF MergeGauge
  <2> QED
    BY <1>1, <1>2, <1>4, <1>7, <2>1 DEF ExactValue, g
<1> QED
  BY <1>5, <1>6, <1>7

\* The top value and its exemplar with one row more.
LEMMA TopPut ==
    ASSUME NEW h, IsRecord(h), \A k \in DOMAIN h : h[k].row.kind = "histograms",
           NEW n, Follows(n, h), NEW x \in Item, x.row.kind = "histograms",
           NEW value, TopMatches(value, h)
    PROVE  TopMatches(MergeHistogram(value, x.row.value), Put(h, n, x))
<1> DEFINE g == Put(h, n, x)
           incoming == x.row.value
           new == MergeHistogram(value, incoming)
           Tops(r, v) == {k \in DOMAIN r : r[k].row.value.max = v.max}
           Shown(r, v) == {k \in Tops(r, v) : r[k].row.value.exemplar # Nil}
<1>1. /\ DOMAIN g = DOMAIN h \cup {n} /\ g[n] = x /\ n \notin DOMAIN h
      /\ \A k \in DOMAIN h : g[k] = h[k] /\ k < n /\ k \in Nat
      /\ n \in Nat
  BY DEF Put, Follows, IsRecord
<1>2. /\ Tops(h, value) # {} /\ \A k \in DOMAIN h : h[k].row.value.max <= value.max
      /\ Shown(h, value) = {} => value.exemplar = Nil
      /\ Shown(h, value) # {} => \E k \in Shown(h, value) :
            (\A j \in Shown(h, value) : j <= k) /\ value.exemplar = h[k].row.value.exemplar
  BY DEF TopMatches
<1>3. incoming.max \in Int /\ \A k \in DOMAIN h : h[k].row.value.max \in Int
  BY ItemValues DEF IsRecord
<1>4. value.max \in Int
  BY <1>2, <1>3
<1> HIDE DEF g
<1>5. /\ new.max = IF incoming.max > value.max THEN incoming.max ELSE value.max
      /\ new.exemplar = IF \/ incoming.max > value.max
                           \/ incoming.max = value.max /\ incoming.exemplar # Nil
                        THEN incoming.exemplar ELSE value.exemplar
  BY DEF MergeHistogram
<1> HIDE DEF new
<1> DEFINE Good == /\ Tops(g, new) # {} /\ \A k \in DOMAIN g : g[k].row.value.max <= new.max
                   /\ Shown(g, new) = {} => new.exemplar = Nil
                   /\ Shown(g, new) # {} => \E k \in Shown(g, new) :
                         (\A j \in Shown(g, new) : j <= k) /\ new.exemplar = g[k].row.value.exemplar
<1>6. ASSUME incoming.max > value.max PROVE Good
  <2>1. new.max = incoming.max /\ new.exemplar = incoming.exemplar
    BY <1>5, <1>6
  <2>2. Tops(g, new) = {n}
    BY <1>1, <1>2, <1>3, <1>4, <1>6, <2>1
  <2>3. Shown(g, new) = IF incoming.exemplar # Nil THEN {n} ELSE {}
    <3> HIDE DEF Tops
    <3> QED
      BY <1>1, <2>2
  <2>4. \A k \in DOMAIN g : g[k].row.value.max <= new.max
    BY <1>1, <1>2, <1>3, <1>4, <1>6, <2>1
  <2> HIDE DEF Tops, Shown
  <2> QED
    BY <1>1, <2>1, <2>2, <2>3, <2>4
<1>7. ASSUME incoming.max = value.max PROVE Good
  <2>1. new.max = value.max
    BY <1>4, <1>5, <1>7
  <2>2. Tops(g, new) = Tops(h, value) \cup {n}
    BY <1>1, <1>7, <2>1
  <2>3. Shown(g, new) = IF incoming.exemplar # Nil THEN Shown(h, value) \cup {n} ELSE Shown(h, value)
    <3>1. Tops(h, value) \subseteq DOMAIN h
      OBVIOUS
    <3> HIDE DEF Tops
    <3> QED
      BY <1>1, <2>2, <3>1
  <2>4. \A k \in DOMAIN g : g[k].row.value.max <= new.max
    BY <1>1, <1>2, <1>3, <1>4, <1>7, <2>1
  <2>5. new.exemplar = IF incoming.exemplar # Nil THEN incoming.exemplar ELSE value.exemplar
    BY <1>3, <1>4, <1>5, <1>7
  <2>6. Shown(h, value) \subseteq DOMAIN h
    OBVIOUS
  <2> HIDE DEF Tops, Shown
  <2>7. CASE incoming.exemplar # Nil
    <3>1. \A j \in Shown(g, new) : j <= n
      BY <1>1, <2>3, <2>6, <2>7
    <3>2. n \in Shown(g, new) /\ new.exemplar = g[n].row.value.exemplar
      BY <1>1, <2>3, <2>5, <2>7
    <3> QED
      BY <2>2, <2>4, <3>1, <3>2
  <2>8. CASE incoming.exemplar = Nil
    <3>1. Shown(g, new) = Shown(h, value) /\ new.exemplar = value.exemplar
      BY <2>3, <2>5, <2>8
    <3>2. \A k \in Shown(h, value) : g[k] = h[k]
      BY <1>1, <2>6
    <3> QED
      BY <1>2, <2>2, <2>4, <3>1, <3>2
  <2> QED
    BY <2>7, <2>8
<1>8. ASSUME incoming.max < value.max PROVE Good
  <2>1. new.max = value.max /\ new.exemplar = value.exemplar
    BY <1>3, <1>4, <1>5, <1>8
  <2>2. Tops(g, new) = Tops(h, value)
    BY <1>1, <1>3, <1>4, <1>8, <2>1
  <2>3. Shown(g, new) = Shown(h, value)
    <3>1. Tops(h, value) \subseteq DOMAIN h
      OBVIOUS
    <3> HIDE DEF Tops
    <3> QED
      BY <1>1, <2>2, <3>1
  <2>4. \A k \in DOMAIN g : g[k].row.value.max <= new.max
    BY <1>1, <1>2, <1>3, <1>4, <1>8, <2>1
  <2>5. Shown(h, value) \subseteq DOMAIN h
    OBVIOUS
  <2>6. \A k \in Shown(h, value) : g[k] = h[k]
    BY <1>1, <2>5
  <2> HIDE DEF Tops, Shown
  <2> QED
    BY <1>2, <2>1, <2>2, <2>3, <2>4, <2>6
<1>9. Good
  <2> HIDE DEF Good
  <2> QED
    BY <1>3, <1>4, <1>6, <1>7, <1>8
<1> QED
  BY <1>9 DEF TopMatches, new, g

\* One more row of a histogram.
LEMMA HistogramPut ==
    ASSUME NEW h, IsRecord(h), \A k \in DOMAIN h : h[k].row.kind = "histograms",
           NEW n, Follows(n, h), NEW x \in Item, x.row.kind = "histograms",
           NEW value
    PROVE  /\ ExactValue("histograms", value, h)
                 => ExactValue("histograms", MergeHistogram(value, x.row.value), Put(h, n, x))
           /\ DOMAIN h = {} => ExactValue("histograms", x.row.value, Put(h, n, x))
<1> DEFINE f == [k \in DOMAIN h |-> h[k].row.value.count]
           g == Put(h, n, x)
<1>1. \A k \in DOMAIN h : h[k].row.value.count \in Int
  BY ItemValues DEF IsRecord
<1>2. IsNumbered(f) /\ DOMAIN f = DOMAIN h
  BY <1>1 DEF IsNumbered, IsRecord
<1>3. n \in Nat \ {0} /\ \A k \in DOMAIN f : k < n
  BY DEF Follows
<1>4. x.row.value.count \in Int /\ x.row.value.max \in Int
  BY ItemValues
<1>5. [k \in DOMAIN g |-> g[k].row.value.count] = Put(f, n, x.row.value.count)
  BY <1>3 DEF Put
<1>6. SumOf(f) \in Int /\ SumOf(Put(f, n, x.row.value.count)) = SumOf(f) + x.row.value.count
  <2> HIDE DEF f
  <2> QED
    BY <1>2, <1>3, <1>4, SumPut
<1>7. ASSUME ExactValue("histograms", value, h)
      PROVE  ExactValue("histograms", MergeHistogram(value, x.row.value), g)
  <2>1. value.count = SumOf(f) /\ TopMatches(value, h)
    BY <1>7 DEF ExactValue
  <2>2. TopMatches(MergeHistogram(value, x.row.value), g)
    BY <2>1, TopPut
  <2>3. MergeHistogram(value, x.row.value).count = SumOf(f) + x.row.value.count
    BY <2>1 DEF MergeHistogram
  <2> HIDE DEF g, f
  <2> QED
    BY <1>5, <1>6, <2>2, <2>3 DEF ExactValue
<1>8. ASSUME DOMAIN h = {}
      PROVE  ExactValue("histograms", x.row.value, g)
  <2>1. SumOf(f) = 0
    BY <1>2, <1>8, SumOfNothing
  <2>2. DOMAIN g = {n} /\ g[n] = x
    BY <1>8 DEF Put
  <2>3. n \in Nat
    BY <1>3
  <2> HIDE DEF g, f
  <2>4. SumOf([k \in DOMAIN g |-> g[k].row.value.count]) = x.row.value.count
    BY <1>4, <1>5, <1>6, <2>1
  <2>5. TopMatches(x.row.value, g)
    BY <1>4, <2>2, <2>3 DEF TopMatches
  <2> QED
    BY <2>4, <2>5 DEF ExactValue
<1> QED
  BY <1>7, <1>8

\* One more row of a sketch.
LEMMA DistinctPut ==
    ASSUME NEW h, IsRecord(h), \A k \in DOMAIN h : h[k].row.kind = "distincts",
           NEW n, Follows(n, h), NEW x \in Item, x.row.kind = "distincts",
           NEW value, ExactValue("distincts", value, h)
    PROVE  ExactValue("distincts", MergeHll(value, x.row.value), Put(h, n, x))
<1> DEFINE g == Put(h, n, x)
           new == MergeHll(value, x.row.value)
<1>1. /\ DOMAIN g = DOMAIN h \cup {n} /\ g[n] = x /\ n \notin DOMAIN h
      /\ \A k \in DOMAIN h : g[k] = h[k]
  BY DEF Put, Follows
<1>2. ASSUME NEW r \in Registers
      PROVE  /\ \E k \in DOMAIN g : new[r] = g[k].row.value[r]
             /\ \A k \in DOMAIN g : g[k].row.value[r] <= new[r]
  <2>1. x.row.value[r] \in Nat /\ \A k \in DOMAIN h : h[k].row.value[r] \in Nat
    BY ItemValues DEF IsRecord
  <2>2. /\ \E k \in DOMAIN h : value[r] = h[k].row.value[r]
        /\ \A k \in DOMAIN h : h[k].row.value[r] <= value[r]
    BY DEF ExactValue
  <2>3. value[r] \in Nat
    BY <2>1, <2>2
  <2>4. new[r] = IF x.row.value[r] > value[r] THEN x.row.value[r] ELSE value[r]
    BY DEF MergeHll
  <2> HIDE DEF g, new
  <2>5. \E k \in DOMAIN g : new[r] = g[k].row.value[r]
    BY <1>1, <2>2, <2>4
  <2>6. \A k \in DOMAIN g : g[k].row.value[r] <= new[r]
    BY <1>1, <2>1, <2>2, <2>3, <2>4
  <2> QED
    BY <2>5, <2>6
<1> HIDE DEF g, new
<1> QED
  BY <1>2 DEF ExactValue, g, new

\* One more row of a series, known or new.
LEMMA MergedPut ==
    ASSUME NEW h, IsRecord(h), NEW n, Follows(n, h), NEW x \in Item, x.row.kind \in Metrics,
           \A k \in DOMAIN h : h[k].row.kind = x.row.kind, NEW series,
           IF SeriesOf(x) \in DOMAIN series THEN ExactValue(x.row.kind, series[SeriesOf(x)], h)
           ELSE DOMAIN h = {}
    PROVE  ExactValue(x.row.kind, Merged(series, x), Put(h, n, x))
<1> DEFINE key == SeriesOf(x)
           g == Put(h, n, x)
<1>1. DOMAIN h = {} => DOMAIN g = {n} /\ g[n] = x /\ n \in Nat
  BY DEF Put, Follows
<1>2. x.to \in Int
  BY ItemValues
<1>3. CASE x.row.kind = "counters"
  <2>1. ExactValue("counters", SumOf([k \in DOMAIN h |-> h[k].row.value]) + x.row.value, g)
    BY <1>3, CounterPut
  <2>2. DOMAIN h = {} => SumOf([k \in DOMAIN h |-> h[k].row.value]) = 0
    BY SumOfNothing
  <2>3. Merged(series, x) = (IF key \in DOMAIN series THEN series[key] ELSE 0) + x.row.value
    BY <1>3 DEF Merged, MergeCounter
  <2>4. key \in DOMAIN series => series[key] = SumOf([k \in DOMAIN h |-> h[k].row.value])
    BY <1>3 DEF ExactValue
  <2> HIDE DEF g, key
  <2> QED
    BY <1>3, <2>1, <2>2, <2>3, <2>4 DEF key, g
<1>4. CASE x.row.kind = "gauges"
  <2>1. CASE key \in DOMAIN series
    <3>1. Merged(series, x) = MergeGauge(series[key], x.row, x.to)
      BY <1>4, <2>1 DEF Merged
    <3> QED
      BY <1>4, <2>1, <3>1, GaugePut
  <2>2. CASE key \notin DOMAIN series
    <3>1. Merged(series, x) = [value |-> x.row.value, ts |-> x.to]
      BY <1>4, <2>2 DEF Merged
    <3>2. DOMAIN g = {n} /\ g[n] = x /\ n \in Nat
      BY <1>1, <2>2
    <3> HIDE DEF g
    <3>3. IsLatest(n, g)
      BY <1>2, <3>2 DEF IsLatest
    <3> QED
      BY <1>4, <3>1, <3>2, <3>3 DEF ExactValue, g
  <2> QED
    BY <2>1, <2>2
<1>5. CASE x.row.kind = "histograms"
  <2>1. CASE key \in DOMAIN series
    <3>1. Merged(series, x) = MergeHistogram(series[key], x.row.value)
      BY <1>5, <2>1 DEF Merged
    <3> QED
      BY <1>5, <2>1, <3>1, HistogramPut
  <2>2. CASE key \notin DOMAIN series
    <3>1. Merged(series, x) = x.row.value
      BY <1>5, <2>2 DEF Merged
    <3> QED
      BY <1>5, <2>2, <3>1, HistogramPut
  <2> QED
    BY <2>1, <2>2
<1>6. CASE x.row.kind = "distincts"
  <2>1. CASE key \in DOMAIN series
    <3>1. Merged(series, x) = MergeHll(series[key], x.row.value)
      BY <1>6, <2>1 DEF Merged
    <3> QED
      BY <1>6, <2>1, <3>1, DistinctPut
  <2>2. CASE key \notin DOMAIN series
    <3>1. Merged(series, x) = x.row.value
      BY <1>6, <2>2 DEF Merged
    <3>2. DOMAIN g = {n} /\ g[n] = x
      BY <1>1, <2>2
    <3>3. \A r \in Registers : x.row.value[r] \in Nat
      BY <1>6, ItemValues
    <3> HIDE DEF g
    <3>4. \A r \in Registers : /\ \E k \in DOMAIN g : x.row.value[r] = g[k].row.value[r]
                               /\ \A k \in DOMAIN g : g[k].row.value[r] <= x.row.value[r]
      BY <3>2, <3>3
    <3> QED
      BY <1>6, <3>1, <3>4 DEF ExactValue, g
  <2> QED
    BY <2>1, <2>2
<1> QED
  BY <1>3, <1>4, <1>5, <1>6 DEF Metrics

\* The rows of a series are a record, part of the whole.
LEMMA SeriesRowsPart ==
    ASSUME NEW h, IsRecord(h), NEW s
    PROVE  /\ IsRecord(SeriesRows(h, s))
           /\ DOMAIN SeriesRows(h, s) = {k \in DOMAIN h : SeriesOf(h[k]) = s}
           /\ \A k \in DOMAIN SeriesRows(h, s) : SeriesRows(h, s)[k] = h[k]
           /\ \A n : Follows(n, h) => Follows(n, SeriesRows(h, s))
<1> DEFINE S == {k \in DOMAIN h : SeriesOf(h[k]) = s}
<1>1. S \in SUBSET DOMAIN h /\ SeriesRows(h, s) = Restrict(h, S)
  BY DEF SeriesRows
<1> HIDE DEF S
<1>2. IsRecord(Restrict(h, S)) /\ DOMAIN Restrict(h, S) = S /\ \A k \in S : Restrict(h, S)[k] = h[k]
  BY <1>1, RecordPart
<1>3. \A n : Follows(n, h) => Follows(n, Restrict(h, S))
  BY <1>1, FollowsPart
<1> QED
  BY <1>1, <1>2, <1>3 DEF S

\* A new row joins the rows of its series and of no other.
LEMMA SeriesRowsPut ==
    ASSUME NEW h, IsRecord(h), NEW n, Follows(n, h), NEW x \in Item, NEW s
    PROVE  SeriesRows(Put(h, n, x), s) = IF SeriesOf(x) = s THEN Put(SeriesRows(h, s), n, x)
                                         ELSE SeriesRows(h, s)
<1> DEFINE g == Put(h, n, x)
           S == {k \in DOMAIN h : SeriesOf(h[k]) = s}
           T == {k \in DOMAIN g : SeriesOf(g[k]) = s}
<1>1. /\ DOMAIN g = DOMAIN h \cup {n} /\ g[n] = x /\ n \notin DOMAIN h
      /\ \A k \in DOMAIN h : g[k] = h[k]
  BY DEF Put, Follows
<1>2. SeriesRows(g, s) = Restrict(g, T) /\ SeriesRows(h, s) = Restrict(h, S)
  BY DEF SeriesRows
<1> HIDE DEF g
<1>3. T = IF SeriesOf(x) = s THEN S \cup {n} ELSE S
  BY <1>1
<1>4. S \in SUBSET DOMAIN h
  OBVIOUS
<1> HIDE DEF S, T
<1>5. Restrict(g, S) = Restrict(h, S) /\ Restrict(g, S \cup {n}) = Put(Restrict(h, S), n, x)
  BY <1>4, PartPut DEF g
<1> QED
  BY <1>2, <1>3, <1>5 DEF g

\* The series of the positions that fit are distinct, so that they count alike.
Shown(h) == {SeriesOf(h[k]) : k \in Fitting(h)}

FittingOf(h, metric) == {k \in Fitting(h) : SameMetric(SeriesOf(h[k]), metric)}

\* A metric shows as many series as it has rows that fit.
LEMMA FittingCount ==
    ASSUME NEW h, IsRecord(h), NEW metric
    PROVE  /\ Cardinality(FittingOf(h, metric)) = Cardinality({s \in Shown(h) : SameMetric(s, metric)})
           /\ Cardinality(FittingOf(h, metric)) \in Nat
           /\ IsFiniteSet(FittingOf(h, metric)) /\ IsFiniteSet(Shown(h))
<1> DEFINE F == Fitting(h)
           shown == {SeriesOf(h[k]) : k \in F}
           fitting == {k \in F : SameMetric(SeriesOf(h[k]), metric)}
           same == {s \in shown : SameMetric(s, metric)}
           f == [k \in fitting |-> SeriesOf(h[k])]
           e == [k \in F |-> SeriesOf(h[k])]
<1>1. F \subseteq DOMAIN h /\ fitting \subseteq F
  BY DEF Fitting, Firsts
<1>2. \A j, k \in F : SeriesOf(h[j]) = SeriesOf(h[k]) => j = k
  <2>1. ASSUME NEW j \in F, NEW k \in F, SeriesOf(h[j]) = SeriesOf(h[k]) PROVE j = k
    <3>1. /\ j \in DOMAIN h /\ k \in DOMAIN h
          /\ \A i \in DOMAIN h : i < k => SeriesOf(h[i]) # SeriesOf(h[k])
          /\ \A i \in DOMAIN h : i < j => SeriesOf(h[i]) # SeriesOf(h[j])
      BY DEF Fitting, Firsts
    <3>2. ~(j < k) /\ ~(k < j) /\ j \in Nat /\ k \in Nat
      BY <2>1, <3>1 DEF IsRecord
    <3> QED
      BY <3>2
  <2> QED
    BY <2>1
<1>3. IsFiniteSet(F) /\ IsFiniteSet(fitting)
  <2>1. IsFiniteSet(DOMAIN h)
    BY DEF IsRecord
  <2> HIDE DEF F, fitting
  <2> QED
    BY <1>1, <2>1, FS_Subset
<1> HIDE DEF F
<1>4. IsFiniteSet(shown)
  <2>1. e \in Surjection(F, shown)
    BY DEF Surjection, F
  <2> HIDE DEF e, shown
  <2> QED
    BY <1>3, <2>1, FS_Surjection
<1>5. f \in Bijection(fitting, same)
  <2>1. f \in [fitting -> same]
    BY DEF F
  <2>2. \A a, b \in fitting : f[a] = f[b] => a = b
    BY <1>1, <1>2
  <2>3. \A t \in same : \E a \in fitting : f[a] = t
    BY DEF F
  <2> HIDE DEF f, fitting, same
  <2> QED
    BY <2>1, <2>2, <2>3 DEF Bijection, Injection, Surjection, IsInjective
<1> HIDE DEF f, fitting, same, shown
<1>6. ExistsBijection(fitting, same)
  BY <1>5 DEF ExistsBijection
<1>7. Cardinality(fitting) = Cardinality(same) /\ Cardinality(fitting) \in Nat
  BY <1>3, <1>6, FS_Bijection, FS_CardinalityType
<1> QED
  BY <1>3, <1>4, <1>7 DEF same, fitting, shown, F, Shown, FittingOf

\* A metric that refused a row holds as many series as it may.
RefusedAreFull(w, h) ==
    \A k \in DOMAIN h :
        SeriesOf(h[k]) \notin DOMAIN w.series =>
            Cardinality({s \in DOMAIN w.series : SameMetric(s, SeriesOf(h[k]))}) >= MaxSeries

\* The series of a window with one row more.
LEMMA SeriesPut ==
    ASSUME NEW h, IsRecord(h), \A k \in DOMAIN h : h[k].row.kind \in Metrics,
           NEW n, Follows(n, h), NEW x \in Item, x.row.kind \in Metrics,
           NEW w, SeriesMatch(w, h), RefusedAreFull(w, h)
    PROVE  SeriesMatch(AddToWindow(w, x), Put(h, n, x)) /\ RefusedAreFull(AddToWindow(w, x), Put(h, n, x))
<1> DEFINE g == Put(h, n, x)
           v == AddToWindow(w, x)
           key == SeriesOf(x)
           S == DOMAIN w.series
           Same(A, t) == {s \in A : SameMetric(s, t)}
           Missed(r, A) == {k \in DOMAIN r : SeriesOf(r[k]) \notin A}
           Before(r, k) == {j \in Firsts(r) : j < k /\ SameMetric(SeriesOf(r[j]), SeriesOf(r[k]))}
           OfKey == {k \in Fitting(h) : SameMetric(SeriesOf(h[k]), key)}
<1>1. /\ DOMAIN g = DOMAIN h \cup {n} /\ g[n] = x /\ n \notin DOMAIN h /\ n \in Nat
      /\ \A k \in DOMAIN h : g[k] = h[k] /\ k < n /\ k \in Nat
  BY DEF Put, Follows, IsRecord
<1>2. /\ S = {SeriesOf(h[k]) : k \in Fitting(h)}
      /\ \A s \in S : ExactValue(s.kind, w.series[s], SeriesRows(h, s))
      /\ w.dropped = Cardinality(Missed(h, S))
  BY DEF SeriesMatch
<1>3. /\ v.series = IF AdmitSeries(w.series, key) THEN Put(w.series, key, Merged(w.series, x)) ELSE w.series
      /\ v.dropped = IF ~AdmitSeries(w.series, key) THEN w.dropped + 1 ELSE w.dropped
  BY DEF AddToWindow
<1> HIDE DEF g, v
<1>4. \A s \in S : ExactValue(s.kind, w.series[s], SeriesRows(h, s))
  BY <1>2
<1>5. /\ Cardinality(OfKey) = Cardinality(Same(S, key)) /\ Cardinality(OfKey) \in Nat
      /\ IsFiniteSet(OfKey) /\ IsFiniteSet(S)
  <2>1. S = Shown(h) /\ OfKey = FittingOf(h, key)
    BY <1>2 DEF Shown, FittingOf
  <2> HIDE DEF S, OfKey
  <2> QED
    BY <2>1, FittingCount
<1>6. Firsts(h) \subseteq DOMAIN h /\ Fitting(h) \subseteq Firsts(h)
  BY DEF Firsts, Fitting
<1>7. Firsts(g) = IF \E j \in DOMAIN h : SeriesOf(h[j]) = key THEN Firsts(h) ELSE Firsts(h) \cup {n}
  <2>1. \A k \in DOMAIN h : k \in Firsts(g) <=> k \in Firsts(h)
    BY <1>1 DEF Firsts
  <2>2. n \in Firsts(g) <=> ~\E j \in DOMAIN h : SeriesOf(h[j]) = key
    BY <1>1 DEF Firsts
  <2>3. Firsts(g) \subseteq DOMAIN h \cup {n}
    BY <1>1 DEF Firsts
  <2>4. CASE \E j \in DOMAIN h : SeriesOf(h[j]) = key
    <3>1. n \notin Firsts(g)
      BY <2>2, <2>4
    <3>2. Firsts(g) = Firsts(h)
      BY <1>6, <2>1, <2>3, <3>1
    <3> QED
      BY <2>4, <3>2
  <2>5. CASE ~\E j \in DOMAIN h : SeriesOf(h[j]) = key
    BY <1>6, <2>1, <2>2, <2>3, <2>5
  <2> QED
    BY <2>4, <2>5
<1>8. \A k \in Firsts(h) : Before(g, k) = Before(h, k)
  BY <1>1, <1>6, <1>7
<1>9. Fitting(g) = IF n \in Firsts(g) /\ Cardinality(Before(g, n)) < MaxSeries
                   THEN Fitting(h) \cup {n} ELSE Fitting(h)
  <2>1. \A r : Fitting(r) = {k \in Firsts(r) : Cardinality(Before(r, k)) < MaxSeries}
    BY DEF Fitting
  <2> HIDE DEF Before
  <2>2. \A k \in Firsts(h) : k \in Fitting(g) <=> k \in Fitting(h)
    BY <1>7, <1>8, <2>1
  <2>3. n \notin Firsts(h)
    BY <1>1, <1>6
  <2> QED
    BY <1>6, <1>7, <2>1, <2>2, <2>3
<1>10. Before(g, n) = {j \in Firsts(h) : SameMetric(SeriesOf(h[j]), key)}
  BY <1>1, <1>6, <1>7
<1>11. OfKey \subseteq Before(g, n) /\ IsFiniteSet(Before(g, n))
  <2>1. Before(g, n) \subseteq DOMAIN h /\ OfKey \subseteq Before(g, n)
    BY <1>6, <1>10
  <2> HIDE DEF Before
  <2> QED
    BY <2>1, FS_Subset DEF IsRecord
\* A position that fits brings the first row of a series shown.
<1>12. \A k \in Firsts(h) : SeriesOf(h[k]) \in S => k \in Fitting(h)
  <2>1. SUFFICES ASSUME NEW k \in Firsts(h), NEW j \in Fitting(h), SeriesOf(h[k]) = SeriesOf(h[j])
                 PROVE  k = j
    BY <1>2
  <2>2. /\ j \in DOMAIN h /\ k \in DOMAIN h
        /\ \A i \in DOMAIN h : i < k => SeriesOf(h[i]) # SeriesOf(h[k])
        /\ \A i \in DOMAIN h : i < j => SeriesOf(h[i]) # SeriesOf(h[j])
    BY <1>6 DEF Firsts
  <2>3. ~(j < k) /\ ~(k < j) /\ j \in Nat /\ k \in Nat
    BY <1>1, <2>1, <2>2
  <2> QED
    BY <2>3
<1>13. /\ DOMAIN v.series = {SeriesOf(g[k]) : k \in Fitting(g)}
       /\ v.dropped = Cardinality(Missed(g, DOMAIN v.series))
       /\ RefusedAreFull(v, g)
       /\ AdmitSeries(w.series, key) /\ key \notin S => \A k \in DOMAIN h : SeriesOf(h[k]) # key
  <2>1. CASE key \in S
    <3>1. AdmitSeries(w.series, key)
      BY <2>1 DEF AdmitSeries
    <3>2. \E j \in DOMAIN h : SeriesOf(h[j]) = key
      BY <1>2, <1>6, <2>1
    <3>3. n \notin Firsts(g)
      BY <1>1, <1>6, <1>7, <3>2
    <3>4. Fitting(g) = Fitting(h)
      BY <1>9, <3>3
    <3>5. DOMAIN v.series = S /\ v.dropped = w.dropped
      BY <1>3, <2>1, <3>1 DEF Put
    <3>6. DOMAIN v.series = {SeriesOf(g[k]) : k \in Fitting(g)}
      BY <1>1, <1>2, <1>6, <3>4, <3>5
    <3>7. Missed(g, S) = Missed(h, S)
      BY <1>1, <2>1
    <3>8. RefusedAreFull(v, g)
      BY <1>1, <2>1, <3>5 DEF RefusedAreFull
    <3> HIDE DEF Missed
    <3> QED
      BY <1>2, <2>1, <3>5, <3>6, <3>7, <3>8
  <2>2. CASE key \notin S /\ AdmitSeries(w.series, key)
    <3>1. Cardinality(Same(S, key)) < MaxSeries
      BY <2>2 DEF AdmitSeries
    <3>2. Cardinality(Same(S, key)) \in Nat /\ MaxSeries \in Nat
      BY <1>5, LiveViewsAssumption
    <3>3. ASSUME NEW k \in DOMAIN h, SameMetric(SeriesOf(h[k]), key) PROVE SeriesOf(h[k]) \in S
      <4>1. Same(S, SeriesOf(h[k])) = Same(S, key)
        BY <3>3 DEF SameMetric
      <4>2. ~(Cardinality(Same(S, SeriesOf(h[k]))) >= MaxSeries)
        <5> HIDE DEF Same, S
        <5> QED
          BY <3>1, <3>2, <4>1
      <4> QED
        BY <4>2 DEF RefusedAreFull
    <3>4. \A k \in DOMAIN h : SeriesOf(h[k]) # key
      BY <2>2, <3>3 DEF SameMetric
    <3>5. n \in Firsts(g)
      BY <1>7, <3>4
    <3>6. Before(g, n) = OfKey
      BY <1>6, <1>10, <1>12, <3>3
    <3>7. Fitting(g) = Fitting(h) \cup {n}
      <4> HIDE DEF Before, OfKey, Same
      <4> QED
        BY <1>5, <1>9, <3>1, <3>5, <3>6
    <3>8. DOMAIN v.series = S \cup {key} /\ v.dropped = w.dropped
      BY <1>3, <2>2 DEF Put
    <3>9. DOMAIN v.series = {SeriesOf(g[k]) : k \in Fitting(g)}
      BY <1>1, <1>2, <1>6, <3>7, <3>8
    <3>10. Missed(g, S \cup {key}) = Missed(h, S)
      BY <1>1, <3>4
    <3>11. RefusedAreFull(v, g)
      <4>1. SUFFICES ASSUME NEW k \in DOMAIN g, SeriesOf(g[k]) \notin S \cup {key}
                     PROVE  Cardinality(Same(S \cup {key}, SeriesOf(g[k]))) >= MaxSeries
        BY <3>8 DEF RefusedAreFull
      <4>2. k \in DOMAIN h /\ g[k] = h[k]
        BY <1>1, <4>1
      <4>3. Cardinality(Same(S, SeriesOf(h[k]))) >= MaxSeries
        BY <4>1, <4>2 DEF RefusedAreFull
      <4>4. ~SameMetric(SeriesOf(h[k]), key)
        BY <3>3, <4>1, <4>2
      <4>5. Same(S \cup {key}, SeriesOf(h[k])) = Same(S, SeriesOf(h[k]))
        BY <4>4 DEF SameMetric
      <4> QED
        BY <4>2, <4>3, <4>5
    <3> HIDE DEF Missed
    <3> QED
      BY <1>2, <3>4, <3>8, <3>9, <3>10, <3>11
  <2>3. CASE ~AdmitSeries(w.series, key)
    <3>1. key \notin S /\ ~(Cardinality(Same(S, key)) < MaxSeries)
      BY <2>3 DEF AdmitSeries
    <3>2. Cardinality(Same(S, key)) \in Nat /\ MaxSeries \in Nat
      BY <1>5, LiveViewsAssumption
    <3>3. ~(Cardinality(Before(g, n)) < MaxSeries)
      <4>1. Cardinality(OfKey) <= Cardinality(Before(g, n)) /\ Cardinality(Before(g, n)) \in Nat
        <5> HIDE DEF Before, OfKey
        <5> QED
          BY <1>11, FS_Subset, FS_CardinalityType
      <4> HIDE DEF Before, OfKey, Same
      <4> QED
        BY <1>5, <3>1, <3>2, <4>1
    <3>4. Fitting(g) = Fitting(h)
      BY <1>9, <3>3
    <3>5. DOMAIN v.series = S /\ v.dropped = w.dropped + 1
      BY <1>3, <2>3
    <3>6. DOMAIN v.series = {SeriesOf(g[k]) : k \in Fitting(g)}
      BY <1>1, <1>2, <1>6, <3>4, <3>5
    <3>7. Missed(g, S) = Missed(h, S) \cup {n} /\ n \notin Missed(h, S)
      BY <1>1, <3>1
    <3>8. Cardinality(Missed(g, S)) = Cardinality(Missed(h, S)) + 1
      <4>1. IsFiniteSet(Missed(h, S))
        <5>1. Missed(h, S) \subseteq DOMAIN h /\ IsFiniteSet(DOMAIN h)
          BY DEF IsRecord
        <5> HIDE DEF Missed
        <5> QED
          BY <5>1, FS_Subset
      <4> HIDE DEF Missed
      <4> QED
        BY <3>7, <4>1, FS_AddElement
    <3>9. RefusedAreFull(v, g)
      <4>1. SUFFICES ASSUME NEW k \in DOMAIN g, SeriesOf(g[k]) \notin S
                     PROVE  Cardinality(Same(S, SeriesOf(g[k]))) >= MaxSeries
        BY <3>5 DEF RefusedAreFull
      <4>2. CASE k = n
        <5> HIDE DEF Same
        <5> QED
          BY <1>1, <3>1, <3>2, <4>2
      <4>3. CASE k # n
        BY <1>1, <4>1, <4>3 DEF RefusedAreFull
      <4> QED
        BY <4>2, <4>3
    <3> HIDE DEF Missed
    <3> QED
      BY <1>2, <2>3, <3>5, <3>6, <3>8, <3>9
  <2> QED
    BY <2>1, <2>2, <2>3 DEF AdmitSeries
<1>14. ASSUME NEW s \in DOMAIN v.series
       PROVE  ExactValue(s.kind, v.series[s], SeriesRows(g, s))
  <2>1. CASE s # key
    <3>1. s \in S /\ v.series[s] = w.series[s]
      BY <1>3, <1>14, <2>1 DEF Put
    <3>2. SeriesRows(g, s) = SeriesRows(h, s)
      BY <2>1, SeriesRowsPut DEF g
    <3> QED
      BY <1>4, <3>1, <3>2
  <2>2. CASE s = key
    <3>1. AdmitSeries(w.series, key) /\ v.series[s] = Merged(w.series, x)
      BY <1>3, <1>14, <2>2 DEF Put, AdmitSeries
    <3> DEFINE rows == SeriesRows(h, key)
    <3>2. /\ IsRecord(rows) /\ Follows(n, rows)
          /\ DOMAIN rows = {k \in DOMAIN h : SeriesOf(h[k]) = key}
          /\ \A k \in DOMAIN rows : rows[k] = h[k]
      BY SeriesRowsPart
    <3>3. SeriesRows(g, key) = Put(rows, n, x)
      BY SeriesRowsPut DEF g
    <3> HIDE DEF rows
    <3>4. key.kind = x.row.kind /\ \A k \in DOMAIN rows : rows[k].row.kind = x.row.kind
      BY <3>2 DEF SeriesOf
    <3>5. IF key \in S THEN ExactValue(x.row.kind, w.series[key], rows) ELSE DOMAIN rows = {}
      BY <1>4, <1>13, <3>1, <3>2, <3>4 DEF rows
    <3>6. ExactValue(x.row.kind, Merged(w.series, x), Put(rows, n, x))
      BY <3>2, <3>4, <3>5, MergedPut
    <3> QED
      BY <2>2, <3>1, <3>3, <3>4, <3>6
  <2> QED
    BY <2>1, <2>2
<1> QED
  BY <1>13, <1>14 DEF SeriesMatch, g, v

-----------------------------------------------------------------------------
(* Windows. *)

\* A window matches its items, with what a refused series needs to stay refused.
WindowOK(w, h) == WindowMatches(w, h) /\ RefusedAreFull(w, OfKinds(h, Metrics))

\* A window with one more item matches the record with that item.
LEMMA WindowPut ==
    ASSUME NEW h, IsRecord(h), NEW n, Follows(n, h), NEW x \in Item, NEW w, WindowOK(w, h)
    PROVE  WindowOK(AddToWindow(w, x), Put(h, n, x))
<1> DEFINE g == Put(h, n, x)
           v == AddToWindow(w, x)
           rows == OfKinds(h, Metrics)
<1>1. /\ CountsMatch(w, h) /\ LogsMatch(w.logNames, Persisted(h))
      /\ SeriesMatch(w, rows) /\ RefusedAreFull(w, rows)
  BY DEF WindowOK, WindowMatches
<1>2. CountsMatch(v, g)
  BY <1>1, CountsPut
<1>3. LogsMatch(v.logNames, Persisted(g))
  <2>1. v.logNames = AddPersistLog(w.logNames, x)
    BY DEF AddToWindow
  <2> QED
    BY <1>1, <2>1, WindowLogsPut
<1>4. SeriesMatch(v, OfKinds(g, Metrics)) /\ RefusedAreFull(v, OfKinds(g, Metrics))
  <2>1. /\ IsRecord(rows) /\ Follows(n, rows)
        /\ \A k \in DOMAIN rows : rows[k].row.kind \in Metrics
    BY OfKindsFacts
  <2>2. CASE x.row.kind \in Metrics
    <3>1. OfKinds(g, Metrics) = Put(rows, n, x)
      BY <2>2, OfKindsPut
    <3>2. SeriesMatch(v, Put(rows, n, x)) /\ RefusedAreFull(v, Put(rows, n, x))
      <4> HIDE DEF rows
      <4> QED
        BY <1>1, <2>1, <2>2, SeriesPut
    <3> QED
      BY <3>1, <3>2
  <2>3. CASE x.row.kind \notin Metrics
    <3>1. OfKinds(g, Metrics) = rows
      BY <2>3, OfKindsPut
    <3>2. v.series = w.series /\ v.dropped = w.dropped
      BY <2>3 DEF AddToWindow
    <3> HIDE DEF rows, v
    <3> QED
      BY <1>1, <3>1, <3>2 DEF SeriesMatch, RefusedAreFull
  <2> QED
    BY <2>2, <2>3
<1> QED
  BY <1>2, <1>3, <1>4 DEF WindowOK, WindowMatches

\* Nothing has no counts.
LEMMA TallyOfNothing ==
    ASSUME NEW f, DOMAIN f = {}
    PROVE  Tally(f) = NoEntries
BY DEF Tally, NoEntries, Range

\* No lines, no log counts.
LEMMA NothingMatches ==
    ASSUME NEW map, DOMAIN map = {}, NEW h, DOMAIN h = {}
    PROVE  LogsMatch(map, h)
BY DEF LogsMatch

\* A new window is the window of no items.
LEMMA EmptyMatches ==
    ASSUME NEW h, DOMAIN h = {}
    PROVE  WindowOK(EmptyWindow, h)
<1> DEFINE rows == OfKinds(h, Metrics)
           w == EmptyWindow
<1>1. \A kinds : DOMAIN OfKinds(h, kinds) = {}
  BY DEF OfKinds, Restrict
<1>2. CountsMatch(w, h)
  <2>1. w.total = NoEntries /\ w.roles = NoEntries /\ w.eventNames = NoEntries /\ w.experiments = NoEntries
    BY DEF EmptyWindow
  <2> DEFINE counted == DOMAIN OfKinds(h, Counted)
             events == DOMAIN OfKinds(h, {"events"})
             slots == {k \in events : h[k].row.slot # Nil}
  <2>2. /\ Tally([k \in counted |-> h[k].row.kind]) = NoEntries
        /\ Tally([k \in counted |-> <<RoleIn(h[k]), h[k].row.kind>>]) = NoEntries
        /\ Tally([k \in events |-> <<RoleIn(h[k]), h[k].row.name>>]) = NoEntries
        /\ Tally([k \in slots |-> <<h[k].row.slot, h[k].row.name>>]) = NoEntries
    <3>1. counted = {} /\ events = {} /\ slots = {}
      BY <1>1
    <3> HIDE DEF counted, events, slots
    <3> QED
      BY <3>1, TallyOfNothing
  <2> QED
    BY <2>1, <2>2 DEF CountsMatch
<1>3. LogsMatch(w.logNames, Persisted(h))
  <2>1. DOMAIN w.logNames = {} /\ DOMAIN Persisted(h) = {}
    BY DEF EmptyWindow, NoEntries, Persisted, Restrict
  <2> QED
    BY <2>1, NothingMatches
<1>4. SeriesMatch(w, rows) /\ RefusedAreFull(w, rows)
  <2>1. DOMAIN w.series = {} /\ w.dropped = 0
    BY DEF EmptyWindow, NoEntries
  <2>2. DOMAIN rows = {}
    BY <1>1
  <2> HIDE DEF rows, w
  <2>3. Fitting(rows) = {}
    BY <2>2 DEF Fitting, Firsts
  <2>4. Cardinality({k \in DOMAIN rows : SeriesOf(rows[k]) \notin DOMAIN w.series}) = 0
    BY <2>2, FS_EmptySet
  <2> QED
    BY <2>1, <2>2, <2>3, <2>4 DEF SeriesMatch, RefusedAreFull
<1> QED
  BY <1>2, <1>3, <1>4 DEF WindowOK, WindowMatches

\* The items of a minute are a record, part of the whole.
LEMMA WithinPart ==
    ASSUME NEW h, IsRecord(h), NEW m
    PROVE  /\ IsRecord(Within(m, h))
           /\ DOMAIN Within(m, h) = {k \in DOMAIN h : MinuteOf(h[k]) = m}
           /\ \A n : Follows(n, h) => Follows(n, Within(m, h))
<1> DEFINE S == {k \in DOMAIN h : MinuteOf(h[k]) = m}
<1>1. S \in SUBSET DOMAIN h /\ Within(m, h) = Restrict(h, S)
  BY DEF Within
<1> HIDE DEF S
<1>2. IsRecord(Restrict(h, S)) /\ DOMAIN Restrict(h, S) = S
  BY <1>1, RecordPart
<1>3. \A n : Follows(n, h) => Follows(n, Restrict(h, S))
  BY <1>1, FollowsPart
<1> QED
  BY <1>1, <1>2, <1>3 DEF S

\* A new item joins the items of its minute and of no other.
LEMMA WithinPut ==
    ASSUME NEW h, IsRecord(h), NEW n, Follows(n, h), NEW x \in Item, NEW m
    PROVE  Within(m, Put(h, n, x)) = IF MinuteOf(x) = m THEN Put(Within(m, h), n, x) ELSE Within(m, h)
<1> DEFINE g == Put(h, n, x)
           S == {k \in DOMAIN h : MinuteOf(h[k]) = m}
           T == {k \in DOMAIN g : MinuteOf(g[k]) = m}
<1>1. /\ DOMAIN g = DOMAIN h \cup {n} /\ g[n] = x /\ n \notin DOMAIN h
      /\ \A k \in DOMAIN h : g[k] = h[k]
  BY DEF Put, Follows
<1>2. Within(m, g) = Restrict(g, T) /\ Within(m, h) = Restrict(h, S)
  BY DEF Within
<1> HIDE DEF g
<1>3. T = IF MinuteOf(x) = m THEN S \cup {n} ELSE S
  BY <1>1
<1>4. S \in SUBSET DOMAIN h
  OBVIOUS
<1> HIDE DEF S, T
<1>5. Restrict(g, S) = Restrict(h, S) /\ Restrict(g, S \cup {n}) = Put(Restrict(h, S), n, x)
  BY <1>4, PartPut DEF g
<1> QED
  BY <1>2, <1>3, <1>5 DEF g

\* A list of items is a record, and one item more comes after it.
LEMMA ListIsRecord ==
    ASSUME NEW s \in Seq(Item)
    PROVE  /\ IsRecord(s) /\ Follows(Len(s) + 1, s)
           /\ \A x \in Item : Append(s, x) = Put(s, Len(s) + 1, x)
<1>1. /\ Len(s) \in Nat /\ DOMAIN s = 1..Len(s) /\ s = [k \in 1..Len(s) |-> s[k]]
      /\ \A k \in 1..Len(s) : s[k] \in Item
  OBVIOUS
<1>2. IsFiniteSet(1..Len(s))
  BY FS_Interval
<1>3. IsRecord(s)
  BY <1>1, <1>2 DEF IsRecord
<1>4. Follows(Len(s) + 1, s)
  BY <1>1 DEF Follows
<1>5. ASSUME NEW x \in Item PROVE Append(s, x) = Put(s, Len(s) + 1, x)
  <2> DEFINE g == Append(s, x)
  <2>2. 1..Len(s) \cup {Len(s) + 1} = 1..(Len(s) + 1)
    BY <1>1
  <2>7. /\ g \in Seq(Item) /\ Len(g) = Len(s) + 1
        /\ g[Len(s) + 1] = x /\ \A k \in 1..Len(s) : g[k] = s[k]
    OBVIOUS
  <2> HIDE DEF g
  <2>1. /\ g = [k \in DOMAIN g |-> g[k]] /\ DOMAIN g = 1..(Len(s) + 1)
        /\ g[Len(s) + 1] = x /\ \A k \in 1..Len(s) : g[k] = s[k]
    <3>1. DOMAIN g = 1..Len(g) /\ g = [k \in 1..Len(g) |-> g[k]]
      BY <2>7
    <3> QED
      BY <2>7, <3>1
  <2>3. DOMAIN s \cup {Len(s) + 1} = DOMAIN g
    BY <1>1, <2>1, <2>2
  <2>4. \A k \in DOMAIN g : g[k] = IF k = Len(s) + 1 THEN x ELSE s[k]
    BY <1>1, <2>1
  <2>5. g = [k \in DOMAIN g |-> IF k = Len(s) + 1 THEN x ELSE s[k]]
    BY <2>1, <2>4
  <2>6. g = Put(s, Len(s) + 1, x)
    BY <2>3, <2>5 DEF Put
  <2> QED
    BY <2>6 DEF g
<1> QED
  BY <1>3, <1>4, <1>5

\* The windows of the minutes from a cutoff on show all of a list of items.
WindowsShow(map, s, cutoff) ==
    \A m \in Int : m >= cutoff =>
        /\ m \in DOMAIN map <=> \E k \in 1..Len(s) : MinuteOf(s[k]) = m
        /\ m \in DOMAIN map => WindowOK(map[m], Within(m, s))

\* The windows that were exact are exact with one more item.
LEMMA WindowsAddItem ==
    ASSUME NEW s \in Seq(Item), NEW x \in Item, NEW v, NEW cutoff, WindowsShow(v.windows, s, cutoff)
    PROVE  WindowsShow(AddItem(v, x).windows, Append(s, x), cutoff)
<1> DEFINE n == Len(s) + 1
           g == Append(s, x)
           old == v.windows
           new == AddItem(v, x).windows
           minute == MinuteOf(x)
<1>1. IsRecord(s) /\ Follows(n, s) /\ g = Put(s, n, x)
  BY ListIsRecord
<1>2. new = Put(old, minute, AddToWindow(At(old, minute, EmptyWindow), x))
  BY DEF AddItem
<1>3. /\ DOMAIN new = DOMAIN old \cup {minute}
      /\ new[minute] = AddToWindow(At(old, minute, EmptyWindow), x)
      /\ \A m \in DOMAIN old : m # minute => new[m] = old[m]
  BY <1>2 DEF Put
<1>4. /\ Len(g) = n /\ Len(s) \in Nat /\ g[n] = x
      /\ \A k \in 1..Len(s) : g[k] = s[k]
  OBVIOUS
<1> HIDE DEF g, new
<1>5. SUFFICES ASSUME NEW m \in Int, m >= cutoff
               PROVE  /\ m \in DOMAIN new <=> \E k \in 1..Len(g) : MinuteOf(g[k]) = m
                      /\ m \in DOMAIN new => WindowOK(new[m], Within(m, g))
  BY DEF WindowsShow, g, new
<1>6. /\ m \in DOMAIN old <=> \E k \in 1..Len(s) : MinuteOf(s[k]) = m
      /\ m \in DOMAIN old => WindowOK(old[m], Within(m, s))
  BY <1>5 DEF WindowsShow
<1>7. m \in DOMAIN new <=> \E k \in 1..Len(g) : MinuteOf(g[k]) = m
  BY <1>3, <1>4, <1>6
<1>8. ASSUME m \in DOMAIN new PROVE WindowOK(new[m], Within(m, g))
  <2>1. CASE m # minute
    <3>1. Within(m, g) = Within(m, s)
      BY <1>1, <2>1, WithinPut
    <3> QED
      BY <1>3, <1>6, <1>8, <2>1, <3>1
  <2>2. CASE m = minute
    <3>1. Within(m, g) = Put(Within(m, s), n, x)
      BY <1>1, <2>2, WithinPut
    <3>2. /\ IsRecord(Within(m, s)) /\ Follows(n, Within(m, s))
          /\ DOMAIN Within(m, s) = {k \in DOMAIN s : MinuteOf(s[k]) = m}
      BY <1>1, WithinPart
    <3>3. WindowOK(At(old, m, EmptyWindow), Within(m, s))
      <4>1. CASE m \in DOMAIN old
        BY <1>6, <4>1 DEF At
      <4>2. CASE m \notin DOMAIN old
        <5>1. DOMAIN Within(m, s) = {}
          BY <1>6, <3>2, <4>2
        <5> QED
          BY <4>2, <5>1, EmptyMatches DEF At
      <4> QED
        BY <4>1, <4>2
    <3> QED
      BY <1>3, <2>2, <3>1, <3>2, <3>3, WindowPut
  <2> QED
    BY <2>1, <2>2
<1> QED
  BY <1>7, <1>8

-----------------------------------------------------------------------------
(* Rollups. *)

\* The persisted lines of a record after the last forgetting of their name.
Since(h, f) ==
    LET lines == Persisted(h) IN
    Restrict(lines, {k \in DOMAIN lines : k > f[lines[k].row.name]})

\* A new persisted line comes after every forgetting so far.
LEMMA SincePut ==
    ASSUME NEW h, IsRecord(h), NEW n, Follows(n, h), NEW x \in Item, NEW f,
           x.row.name \in x.persist => n > f[x.row.name]
    PROVE  /\ IsRecord(Since(h, f)) /\ Follows(n, Since(h, f))
           /\ Since(Put(h, n, x), f) = IF x.row.kind = "logs" /\ x.row.name \in x.persist
                                       THEN Put(Since(h, f), n, x) ELSE Since(h, f)
<1> DEFINE lines == Persisted(h)
           S == {k \in DOMAIN lines : k > f[lines[k].row.name]}
<1>1. IsRecord(lines) /\ Follows(n, lines)
  BY PersistedPut
<1>2. Since(h, f) = Restrict(lines, S) /\ S \in SUBSET DOMAIN lines
  BY DEF Since
<1>3. IsRecord(Restrict(lines, S)) /\ Follows(n, Restrict(lines, S))
  <2> HIDE DEF lines, S
  <2> QED
    BY <1>1, <1>2, RecordPart, FollowsPart
<1>4. CASE x.row.kind = "logs" /\ x.row.name \in x.persist
  <2> DEFINE more == Persisted(Put(h, n, x))
             T == {k \in DOMAIN more : k > f[more[k].row.name]}
  <2>1. more = Put(lines, n, x)
    BY <1>4, PersistedPut
  <2>2. Since(Put(h, n, x), f) = Restrict(more, T)
    BY DEF Since
  <2> HIDE DEF lines, more
  <2>3. /\ DOMAIN more = DOMAIN lines \cup {n} /\ more[n] = x /\ n \notin DOMAIN lines
        /\ \A k \in DOMAIN lines : more[k] = lines[k]
    BY <1>1, <2>1 DEF Put, Follows
  <2>4. T = S \cup {n}
    BY <1>4, <2>3
  <2> HIDE DEF S, T
  <2>5. Restrict(more, S \cup {n}) = Put(Restrict(lines, S), n, x)
    BY <1>1, <1>2, <2>1, PartPut
  <2> QED
    BY <1>2, <1>3, <1>4, <2>2, <2>4, <2>5
<1>5. CASE ~(x.row.kind = "logs" /\ x.row.name \in x.persist)
  <2>1. Persisted(Put(h, n, x)) = lines
    BY <1>5, PersistedPut
  <2> QED
    BY <1>2, <1>3, <1>5, <2>1 DEF Since
<1> QED
  BY <1>4, <1>5

\* The rollups stay exact with one more item.
LEMMA RollupsAddItem ==
    ASSUME NEW s \in Seq(Item), NEW x \in Item, NEW f \in [PersistNames -> 0..Len(s)],
           NEW v, LogsMatch(v.rollups, Since(s, f))
    PROVE  LogsMatch(AddItem(v, x).rollups, Since(Append(s, x), f))
<1> DEFINE n == Len(s) + 1
<1>1. IsRecord(s) /\ Follows(n, s) /\ Append(s, x) = Put(s, n, x)
  BY ListIsRecord
<1>2. AddItem(v, x).rollups = AddPersistLog(v.rollups, x)
  BY DEF AddItem
<1>3. x.row.name \in x.persist => n > f[x.row.name]
  BY DEF Item
<1> HIDE DEF n
<1>4. /\ IsRecord(Since(s, f)) /\ Follows(n, Since(s, f))
      /\ Since(Put(s, n, x), f) = IF x.row.kind = "logs" /\ x.row.name \in x.persist
                                  THEN Put(Since(s, f), n, x) ELSE Since(s, f)
  BY <1>1, <1>3, SincePut
<1>5. CASE x.row.kind = "logs" /\ x.row.name \in x.persist
  <2>1. LogsMatch(AddPersistLog(v.rollups, x), Put(Since(s, f), n, x))
    BY <1>4, <1>5, LogsPut
  <2> QED
    BY <1>1, <1>2, <1>4, <1>5, <2>1
<1>6. CASE ~(x.row.kind = "logs" /\ x.row.name \in x.persist)
  <2>1. AddPersistLog(v.rollups, x) = v.rollups
    BY <1>6 DEF AddPersistLog
  <2> QED
    BY <1>1, <1>2, <1>4, <1>6, <2>1
<1> QED
  BY <1>5, <1>6

\* A forgotten name leaves the rollups and the lines alike.
LEMMA RollupsForget ==
    ASSUME NEW s \in Seq(Item), NEW f \in [PersistNames -> 0..Len(s)], NEW name \in PersistNames,
           NEW map, LogsMatch(map, Since(s, f))
    PROVE  LogsMatch([k \in {key \in DOMAIN map : key[3] # name} |-> map[k]],
                     Since(s, [f EXCEPT ![name] = Len(s)]))
<1> DEFINE lines == Persisted(s)
           e == [f EXCEPT ![name] = Len(s)]
           old == Since(s, f)
           new == Since(s, e)
           kept == [k \in {key \in DOMAIN map : key[3] # name} |-> map[k]]
<1>1. /\ DOMAIN lines \subseteq 1..Len(s)
      /\ \A k \in DOMAIN lines : lines[k] = s[k] /\ s[k].row.name \in PersistNames
  <2>1. /\ DOMAIN lines = {k \in 1..Len(s) : s[k].row.kind = "logs" /\ s[k].row.name \in s[k].persist}
        /\ \A k \in DOMAIN lines : lines[k] = s[k]
    BY DEF Persisted, Restrict
  <2>2. \A k \in 1..Len(s) : s[k] \in Item
    OBVIOUS
  <2> HIDE DEF lines
  <2> QED
    BY <2>1, <2>2 DEF Item
<1>2. /\ DOMAIN old = {k \in DOMAIN lines : k > f[lines[k].row.name]}
      /\ \A k \in DOMAIN old : old[k] = lines[k]
  BY DEF Since, Restrict
<1>3. /\ DOMAIN new = {k \in DOMAIN lines : k > e[lines[k].row.name]}
      /\ \A k \in DOMAIN new : new[k] = lines[k]
  BY DEF Since, Restrict
<1>4. /\ DOMAIN new = {k \in DOMAIN old : old[k].row.name # name}
      /\ \A k \in DOMAIN new : new[k] = old[k]
  <2>1. \A n \in PersistNames : e[n] = IF n = name THEN Len(s) ELSE f[n]
    OBVIOUS
  <2> HIDE DEF old, new, lines, e
  <2>2. \A k \in DOMAIN lines : k \in DOMAIN new <=> k \in DOMAIN old /\ old[k].row.name # name
    BY <1>1, <1>2, <1>3, <2>1
  <2> QED
    BY <1>2, <1>3, <2>2
<1>10. LogsMatch(map, old)
  OBVIOUS
<1> HIDE DEF old, new, lines, e
<1>5. \A x : LogKey(x)[3] = x.row.name
  BY DEF LogKey
<1>6. /\ DOMAIN map = {LogKey(old[k]) : k \in DOMAIN old}
      /\ \A key \in DOMAIN map :
            LET mine == Restrict(old, {k \in DOMAIN old : LogKey(old[k]) = key}) IN
            /\ map[key].count = Cardinality(DOMAIN mine)
            /\ \E k \in DOMAIN mine :
                  IsLatest(k, mine) /\ map[key].exemplar = [ts |-> old[k].to, instance |-> old[k].instance]
  BY <1>10 DEF LogsMatch
<1>7. DOMAIN kept = {LogKey(new[k]) : k \in DOMAIN new}
  <2>1. DOMAIN kept = {key \in DOMAIN map : key[3] # name}
    OBVIOUS
  <2>2. ASSUME NEW key
        PROVE  key \in DOMAIN map /\ key[3] # name <=> \E k \in DOMAIN new : key = LogKey(new[k])
    <3>1. key \in DOMAIN map <=> \E k \in DOMAIN old : key = LogKey(old[k])
      BY <1>6
    <3>2. \A k : k \in DOMAIN new <=> k \in DOMAIN old /\ LogKey(old[k])[3] # name
      BY <1>4, <1>5
    <3>3. \A k \in DOMAIN new : new[k] = old[k]
      BY <1>4
    <3> QED
      BY <3>1, <3>2, <3>3
  <2> HIDE DEF kept
  <2> QED
    BY <2>1, <2>2
<1>8. ASSUME NEW key \in DOMAIN kept
      PROVE  LET mine == Restrict(new, {k \in DOMAIN new : LogKey(new[k]) = key}) IN
             /\ kept[key].count = Cardinality(DOMAIN mine)
             /\ \E k \in DOMAIN mine :
                   IsLatest(k, mine) /\ kept[key].exemplar = [ts |-> new[k].to, instance |-> new[k].instance]
  <2> DEFINE mine == Restrict(old, {k \in DOMAIN old : LogKey(old[k]) = key})
  <2>1. key \in DOMAIN map /\ key[3] # name /\ kept[key] = map[key]
    OBVIOUS
  <2>2. {k \in DOMAIN new : LogKey(new[k]) = key} = {k \in DOMAIN old : LogKey(old[k]) = key}
    BY <1>4, <1>5, <2>1
  <2>3. Restrict(new, {k \in DOMAIN new : LogKey(new[k]) = key}) = mine
    BY <1>4, <2>2 DEF Restrict
  <2>4. \A k \in DOMAIN mine : new[k] = old[k]
    BY <1>4, <2>2 DEF Restrict
  <2>5. /\ map[key].count = Cardinality(DOMAIN mine)
        /\ \E k \in DOMAIN mine :
              IsLatest(k, mine) /\ map[key].exemplar = [ts |-> old[k].to, instance |-> old[k].instance]
    BY <1>6, <2>1
  <2> HIDE DEF mine, kept
  <2> QED
    BY <2>1, <2>3, <2>4, <2>5
<1> HIDE DEF kept
<1>9. LogsMatch(kept, new)
  BY <1>7, <1>8 DEF LogsMatch
<1> QED
  BY <1>9 DEF kept, new, e

-----------------------------------------------------------------------------
(* Bounded lists. *)

\* A list shows the entries at the last positions p of e, in their order.
IsTail(list, p, e) ==
    /\ p \in [1..Len(list) -> DOMAIN e]
    /\ \A i \in 1..Len(list) : list[i] = e[p[i]]
    /\ \A i, j \in 1..Len(list) : i < j => p[i] < p[j]
    /\ \A i \in 1..Len(list) : \A k \in DOMAIN e : k > p[i] => \E j \in 1..Len(list) : k = p[j]

\* Entries by position.
IsListing(e) == IsFiniteSet(DOMAIN e) /\ DOMAIN e \subseteq Nat \ {0}

PositionsFrom(p, first, last) == {p[i] : i \in first..last}

\* Increasing positions are as many as their indices.
LEMMA PositionsCount ==
    ASSUME NEW last \in Nat, NEW first \in 1..last, NEW p,
           \A i \in 1..last : p[i] \in Nat,
           \A i, j \in 1..last : i < j => p[i] < p[j]
    PROVE  /\ IsFiniteSet(PositionsFrom(p, first, last))
           /\ Cardinality(PositionsFrom(p, first, last)) = last - first + 1
<1> DEFINE S == first..last
           T == {p[i] : i \in S}
           f == [i \in S |-> p[i]]
<1>1. IsFiniteSet(S) /\ Cardinality(S) = last - first + 1
  BY FS_Interval
<1>2. f \in Bijection(S, T)
  <2>1. f \in [S -> T] /\ \A t \in T : \E i \in S : f[i] = t
    OBVIOUS
  <2>2. \A i, j \in S : f[i] = f[j] => i = j
    <3>1. ASSUME NEW i \in S, NEW j \in S, p[i] = p[j] PROVE i = j
      <4>1. /\ i \in 1..last /\ j \in 1..last /\ i \in Int /\ j \in Int
            /\ p[i] \in Nat /\ p[j] \in Nat
        OBVIOUS
      <4>2. ~(i < j) /\ ~(j < i)
        BY <3>1, <4>1
      <4> QED
        BY <4>1, <4>2
    <3> QED
      BY <3>1
  <2> HIDE DEF f, S, T
  <2> QED
    BY <2>1, <2>2 DEF Bijection, Injection, Surjection, IsInjective
<1> HIDE DEF f, S, T
<1>3. IsFiniteSet(T) /\ Cardinality(T) = Cardinality(S)
  BY <1>1, <1>2, FS_Bijection DEF ExistsBijection
<1> QED
  BY <1>1, <1>3 DEF S, T, PositionsFrom

\* The newest entries, as many as fit, are what a bounded list should hold.
LEMMA TailHolds ==
    ASSUME NEW V, NEW list \in Seq(V), NEW e, IsListing(e), NEW p, IsTail(list, p, e),
           NEW max \in Nat,
           Len(list) = IF Cardinality(DOMAIN e) <= max THEN Cardinality(DOMAIN e) ELSE max
    PROVE  HoldsNewest(list, e, max)
<1> DEFINE n == Cardinality(DOMAIN e)
           L == Len(list)
           From(k) == {j \in DOMAIN e : j >= k}
<1>0. \A k \in DOMAIN e : k \in Nat
  BY DEF IsListing
<1>1. n \in Nat /\ L \in Nat /\ \A k \in DOMAIN e : IsFiniteSet(From(k))
  <2>1. \A k : From(k) \subseteq DOMAIN e
    OBVIOUS
  <2> HIDE DEF From
  <2> QED
    BY <2>1, FS_CardinalityType, FS_Subset DEF IsListing
<1>2. /\ \A i \in 1..L : p[i] \in DOMAIN e /\ p[i] \in Nat /\ list[i] = e[p[i]]
      /\ \A i, j \in 1..L : i < j => p[i] < p[j]
      /\ \A i \in 1..L : \A k \in DOMAIN e : k > p[i] => \E j \in 1..L : k = p[j]
  BY DEF IsTail, IsListing
<1>3. ASSUME NEW i \in 1..L PROVE Cardinality(From(p[i])) = L - i + 1
  <2>1. From(p[i]) = PositionsFrom(p, i, L)
    <3>1. ASSUME NEW j \in i..L PROVE p[j] \in From(p[i])
      <4>1. j \in 1..L /\ (j = i \/ i < j)
        OBVIOUS
      <4> QED
        BY <1>2, <4>1
    <3>2. ASSUME NEW k \in From(p[i]) PROVE \E j \in i..L : k = p[j]
      <4>1. k \in DOMAIN e /\ k \in Nat /\ (k = p[i] \/ k > p[i])
        BY <1>0, <1>2
      <4>2. CASE k = p[i]
        <5>1. i \in i..L
          OBVIOUS
        <5> QED
          BY <4>2, <5>1
      <4>3. CASE k > p[i]
        <5>1. PICK j \in 1..L : k = p[j]
          BY <1>2, <4>1, <4>3
        <5>2. ~(j < i) /\ j # i
          <6>1. p[j] > p[i] /\ p[i] \in Nat /\ p[j] \in Nat
            BY <1>2, <4>3, <5>1
          <6>2. j < i => p[j] < p[i]
            BY <1>2
          <6> QED
            BY <6>1, <6>2
        <5>3. j \in i..L
          BY <5>2
        <5> QED
          BY <5>1, <5>3
      <4> QED
        BY <4>1, <4>2, <4>3
    <3> HIDE DEF From
    <3> QED
      BY <3>1, <3>2 DEF PositionsFrom
  <2>2. Cardinality(PositionsFrom(p, i, L)) = L - i + 1
    <3> HIDE DEF L
    <3> QED
      BY <1>1, <1>2, PositionsCount
  <2> QED
    BY <2>1, <2>2
<1>4. ASSUME NEW k \in DOMAIN e, \A i \in 1..L : k # p[i]
      PROVE  Cardinality(From(k)) > max
  <2>1. ASSUME NEW i \in 1..L PROVE k < p[i]
    <3>1. ~(k > p[i]) /\ k # p[i]
      BY <1>2, <1>4
    <3>2. k \in Nat /\ p[i] \in Nat
      BY <1>0, <1>2
    <3> QED
      BY <3>1, <3>2
  <2>2. CASE L = 0
    <3>1. n # 0
      BY FS_EmptySet DEF IsListing
    <3>2. max = 0
      BY <1>1, <2>2, <3>1
    <3>3. k \in From(k)
      BY <1>0
    <3>4. Cardinality(From(k)) \in Nat /\ Cardinality(From(k)) # 0
      <4> HIDE DEF From
      <4> QED
        BY <1>1, <3>3, FS_EmptySet, FS_CardinalityType
    <3> QED
      BY <3>2, <3>4
  <2>3. CASE L # 0
    <3> DEFINE T == PositionsFrom(p, 1, L)
    <3>1. IsFiniteSet(T) /\ Cardinality(T) = L
      <4>1. 1 \in 1..L
        BY <1>1, <2>3
      <4>2. IsFiniteSet(T) /\ Cardinality(T) = L - 1 + 1
        <5> HIDE DEF L
        <5> QED
          BY <1>1, <1>2, <4>1, PositionsCount
      <4> QED
        BY <1>1, <4>2
    <3>2. k \notin T /\ T \cup {k} \subseteq From(k)
      <4>1. ASSUME NEW j \in 1..L PROVE p[j] \in From(k)
        BY <1>0, <1>2, <2>1
      <4>2. k \in From(k)
        BY <1>0
      <4> HIDE DEF From
      <4> QED
        BY <1>4, <4>1, <4>2 DEF PositionsFrom
    <3>3. From(k) \subseteq DOMAIN e
      OBVIOUS
    <3> HIDE DEF T, From
    <3>4. Cardinality(T \cup {k}) = L + 1
      BY <3>1, <3>2, FS_AddElement
    <3>5. Cardinality(T \cup {k}) <= Cardinality(From(k)) /\ Cardinality(From(k)) \in Nat
      BY <1>1, <3>2, FS_Subset, FS_CardinalityType
    <3>6. Cardinality(From(k)) <= n
      BY <3>3, FS_Subset DEF IsListing
    <3>7. L + 1 <= n
      BY <1>1, <3>4, <3>5, <3>6
    <3>8. L = max
      BY <1>1, <3>7
    <3> QED
      BY <1>1, <3>4, <3>5, <3>8
  <2> QED
    BY <2>2, <2>3
<1>5. ASSUME NEW k \in DOMAIN e, Cardinality(From(k)) <= max
      PROVE  list[L - Cardinality(From(k)) + 1] = e[k]
  <2>1. Cardinality(From(k)) \in Nat
    <3> HIDE DEF From
    <3> QED
      BY <1>1, FS_CardinalityType
  <2>2. PICK i \in 1..L : k = p[i]
    <3> HIDE DEF From
    <3> QED
      BY <1>4, <1>5, <2>1
  <2>3. L - Cardinality(From(k)) + 1 = i
    <3> HIDE DEF From
    <3> QED
      BY <1>1, <1>3, <2>2
  <2> QED
    BY <1>2, <2>2, <2>3
<1> QED
  BY <1>5 DEF HoldsNewest

\* One entry more at the end of both.
LEMMA TailAppend ==
    ASSUME NEW V, NEW list \in Seq(V), NEW e, IsListing(e), NEW p, IsTail(list, p, e),
           NEW n \in Nat, \A k \in DOMAIN e : k < n, NEW row \in V
    PROVE  \E t : IsTail(Append(list, row), t, Put(e, n, row))
<1> DEFINE L == Len(list)
           g == Put(e, n, row)
           more == Append(list, row)
           t == [i \in 1..(L + 1) |-> IF i = L + 1 THEN n ELSE p[i]]
<1>1. /\ DOMAIN g = DOMAIN e \cup {n} /\ g[n] = row /\ n \notin DOMAIN e
      /\ \A k \in DOMAIN e : g[k] = e[k] /\ k \in Nat /\ k < n
  BY DEF Put, IsListing
<1>2. /\ Len(more) = L + 1 /\ L \in Nat /\ more[L + 1] = row
      /\ \A i \in 1..L : more[i] = list[i]
  OBVIOUS
<1>3. /\ \A i \in 1..L : p[i] \in DOMAIN e /\ p[i] \in Nat /\ list[i] = e[p[i]]
      /\ \A i, j \in 1..L : i < j => p[i] < p[j]
      /\ \A i \in 1..L : \A k \in DOMAIN e : k > p[i] => \E j \in 1..L : k = p[j]
  BY DEF IsTail, IsListing
<1>4. /\ t = [i \in 1..(L + 1) |-> t[i]] /\ t[L + 1] = n
      /\ \A i \in 1..L : t[i] = p[i]
  BY <1>2
<1>5. \A i \in 1..(L + 1) : i = L + 1 \/ i \in 1..L
  BY <1>2
<1> HIDE DEF g, more, t, L
<1>6. ASSUME NEW i \in 1..(L + 1) PROVE t[i] \in DOMAIN g /\ more[i] = g[t[i]]
  <2>1. CASE i = L + 1
    BY <1>1, <1>2, <1>4, <2>1
  <2>2. CASE i \in 1..L
    <3>1. t[i] = p[i] /\ more[i] = list[i] /\ list[i] = e[p[i]] /\ p[i] \in DOMAIN e
      BY <1>2, <1>3, <1>4, <2>2
    <3> QED
      BY <1>1, <3>1
  <2> QED
    BY <1>5, <2>1, <2>2
<1>7. \A i, j \in 1..(L + 1) : i < j => t[i] < t[j]
  <2>1. ASSUME NEW i \in 1..(L + 1), NEW j \in 1..(L + 1), i < j PROVE t[i] < t[j]
    <3>1. i \in 1..L
      BY <1>2, <2>1
    <3>2. CASE j = L + 1
      BY <1>1, <1>3, <1>4, <3>1, <3>2
    <3>3. CASE j \in 1..L
      BY <1>3, <1>4, <2>1, <3>1, <3>3
    <3> QED
      BY <1>5, <3>2, <3>3
  <2> QED
    BY <2>1
<1>8. \A i \in 1..(L + 1) : \A k \in DOMAIN g : k > t[i] => \E j \in 1..(L + 1) : k = t[j]
  <2>1. ASSUME NEW i \in 1..(L + 1), NEW k \in DOMAIN g, k > t[i]
        PROVE  \E j \in 1..(L + 1) : k = t[j]
    <3>1. CASE k = n
      BY <1>2, <1>4, <3>1
    <3>2. CASE k # n
      <4>1. k \in DOMAIN e
        BY <1>1, <3>2
      <4>2. i # L + 1
        <5>1. k < n /\ k \in Nat
          BY <1>1, <4>1
        <5> QED
          BY <1>4, <2>1, <5>1
      <4>5. i \in 1..L /\ t[i] = p[i] /\ k > p[i]
        BY <1>4, <1>5, <2>1, <4>2
      <4>3. PICK j \in 1..L : k = p[j]
        BY <1>3, <4>1, <4>5
      <4>4. j \in 1..(L + 1) /\ t[j] = p[j]
        <5>1. L \in Nat /\ j \in 1..L
          BY <1>2, <4>3
        <5>2. j \in 1..(L + 1)
          BY <5>1
        <5> QED
          BY <1>4, <5>1, <5>2
      <4> QED
        BY <4>3, <4>4
    <3> QED
      BY <3>1, <3>2
  <2> QED
    BY <2>1
<1>9. t \in [1..(L + 1) -> DOMAIN g]
  BY <1>4, <1>6
<1>10. IsTail(more, t, g)
  BY <1>2, <1>6, <1>7, <1>8, <1>9 DEF IsTail
<1> QED
  BY <1>10 DEF g, more

\* Without its oldest entry, a list is still a tail.
LEMMA TailDrop ==
    ASSUME NEW V, NEW list \in Seq(V), NEW e, IsListing(e), NEW p, IsTail(list, p, e), Len(list) # 0
    PROVE  \E t : IsTail(SubSeq(list, 2, Len(list)), t, e)
<1> DEFINE L == Len(list)
           less == SubSeq(list, 2, L)
           t == [i \in 1..(L - 1) |-> p[i + 1]]
<1>1. /\ L \in Nat /\ Len(less) = L - 1
      /\ \A i \in 1..(L - 1) : less[i] = list[i + 1]
  <2>1. L \in Nat \ {0} /\ \A i \in 2..L : list[i] \in V
    OBVIOUS
  <2>2. /\ Len(less) = IF 2 <= L THEN L - 2 + 1 ELSE 0
        /\ \A i \in 1..(L - 2 + 1) : less[i] = list[2 + i - 1]
    <3> HIDE DEF L
    <3> QED
      BY <2>1, SubSeqProperties
  <2> HIDE DEF less, L
  <2> QED
    BY <2>1, <2>2
<1>2. /\ \A i \in 1..L : p[i] \in DOMAIN e /\ p[i] \in Nat /\ list[i] = e[p[i]]
      /\ \A i, j \in 1..L : i < j => p[i] < p[j]
      /\ \A i \in 1..L : \A k \in DOMAIN e : k > p[i] => \E j \in 1..L : k = p[j]
  BY DEF IsTail, IsListing
<1>3. \A i \in 1..(L - 1) : i + 1 \in 1..L /\ t[i] = p[i + 1]
  BY <1>1
<1>4. t \in [1..(L - 1) -> DOMAIN e]
  BY <1>2, <1>3
<1> HIDE DEF t, less, L
<1>5. \A i \in 1..(L - 1) : less[i] = e[t[i]]
  BY <1>1, <1>2, <1>3
<1>6. \A i, j \in 1..(L - 1) : i < j => t[i] < t[j]
  BY <1>1, <1>2, <1>3
<1>7. ASSUME NEW i \in 1..(L - 1), NEW k \in DOMAIN e, k > t[i]
      PROVE  \E j \in 1..(L - 1) : k = t[j]
  <2>1. PICK j \in 1..L : k = p[j]
    BY <1>2, <1>3, <1>7
  <2>2. CASE j = 1
    <3>1. p[1] < p[i + 1] /\ p[1] \in Nat /\ p[i + 1] \in Nat
      BY <1>1, <1>2, <1>3
    <3>2. p[1] > p[i + 1]
      BY <1>3, <1>7, <2>1, <2>2
    <3> QED
      BY <3>1, <3>2
  <2>3. CASE j # 1
    <3>1. j - 1 \in 1..(L - 1) /\ t[j - 1] = p[j]
      BY <1>1, <1>3, <2>3
    <3> QED
      BY <2>1, <3>1
  <2> QED
    BY <2>2, <2>3
<1>8. IsTail(less, t, e)
  BY <1>1, <1>4, <1>5, <1>6, <1>7 DEF IsTail
<1> QED
  BY <1>8 DEF less, L

\* A list without one of its entries.
LEMMA RemoveAtIs ==
    ASSUME NEW V, NEW list \in Seq(V), NEW q \in 1..Len(list)
    PROVE  /\ RemoveAt(list, q) \in Seq(V) /\ Len(RemoveAt(list, q)) = Len(list) - 1
           /\ \A i \in 1..(Len(list) - 1) : RemoveAt(list, q)[i] = IF i < q THEN list[i] ELSE list[i + 1]
<1> DEFINE L == Len(list)
           less == RemoveAt(list, q)
<1>1. /\ less \in Seq(V) /\ Len(less) = L - 1 /\ L \in Nat
      /\ \A i \in 1..(L - 1) : less[i] = IF i < q THEN list[i] ELSE list[i + 1]
  <2> DEFINE left == SubSeq(list, 1, q - 1)
             right == SubSeq(list, q + 1, L)
  <2>1. L \in Nat /\ q \in Nat /\ q >= 1 /\ q <= L /\ \A i \in 1..L : list[i] \in V
    OBVIOUS
  <2>2. /\ left \in Seq(V) /\ Len(left) = q - 1
        /\ \A i \in 1..(q - 1) : left[i] = list[i]
    <3>1. /\ left \in Seq(V) /\ Len(left) = IF 1 <= q - 1 THEN (q - 1) - 1 + 1 ELSE 0
          /\ \A i \in 1..((q - 1) - 1 + 1) : left[i] = list[1 + i - 1]
      <4> HIDE DEF L
      <4>1. 1 \in Int /\ q - 1 \in Int /\ \A i \in 1..(q - 1) : list[i] \in V
        BY <2>1
      <4> QED
        BY <4>1, SubSeqProperties
    <3> HIDE DEF left, L
    <3> QED
      BY <2>1, <3>1
  <2>3. /\ right \in Seq(V) /\ Len(right) = L - q
        /\ \A i \in 1..(L - q) : right[i] = list[q + i]
    <3>1. /\ right \in Seq(V) /\ Len(right) = IF q + 1 <= L THEN L - (q + 1) + 1 ELSE 0
          /\ \A i \in 1..(L - (q + 1) + 1) : right[i] = list[(q + 1) + i - 1]
      <4> HIDE DEF L
      <4>1. q + 1 \in Int /\ L \in Int /\ \A i \in (q + 1)..L : list[i] \in V
        BY <2>1
      <4> QED
        BY <4>1, SubSeqProperties
    <3> HIDE DEF right, L
    <3> QED
      BY <2>1, <3>1
  <2>4. less = left \o right
    BY DEF RemoveAt
  <2> HIDE DEF left, right, less, L
  <2>5. /\ less \in Seq(V) /\ Len(less) = Len(left) + Len(right)
        /\ \A i \in 1..Len(less) : less[i] = IF i <= Len(left) THEN left[i] ELSE right[i - Len(left)]
    <3>1. /\ left \o right \in Seq(V) /\ Len(left \o right) = Len(left) + Len(right)
          /\ \A i \in 1..(Len(left) + Len(right)) :
                (left \o right)[i] = IF i <= Len(left) THEN left[i] ELSE right[i - Len(left)]
      BY <2>2, <2>3, ConcatProperties, Zenon
    <3> QED
      BY <2>4, <3>1, Zenon
  <2>6. Len(less) = L - 1
    BY <2>1, <2>2, <2>3, <2>5
  <2>7. ASSUME NEW i \in 1..(L - 1) PROVE less[i] = IF i < q THEN list[i] ELSE list[i + 1]
    <3>1. less[i] = IF i <= q - 1 THEN left[i] ELSE right[i - (q - 1)]
      BY <2>2, <2>5, <2>6
    <3>2. CASE i < q
      <4>1. i \in 1..(q - 1)
        BY <2>1, <3>2
      <4> QED
        BY <2>1, <2>2, <3>1, <3>2, <4>1
    <3>3. CASE ~(i < q)
      <4>1. i - (q - 1) \in 1..(L - q) /\ q + (i - (q - 1)) = i + 1
        BY <2>1, <3>3
      <4>2. right[i - (q - 1)] = list[i + 1]
        BY <2>3, <4>1
      <4> QED
        BY <2>1, <3>1, <3>3, <4>2
    <3> QED
      BY <3>2, <3>3
  <2> QED
    BY <2>1, <2>5, <2>6, <2>7
<1> QED
  BY <1>1 DEF L, less

\* Without one of its entries.
LEMMA TailRemove ==
    ASSUME NEW V, NEW list \in Seq(V), NEW e, IsListing(e), NEW p, IsTail(list, p, e),
           NEW q \in 1..Len(list)
    PROVE  /\ \E t : IsTail(RemoveAt(list, q), t, Restrict(e, DOMAIN e \ {p[q]}))
           /\ RemoveAt(list, q) \in Seq(V) /\ Len(RemoveAt(list, q)) = Len(list) - 1
           /\ \A i \in 1..(Len(list) - 1) : RemoveAt(list, q)[i] = IF i < q THEN list[i] ELSE list[i + 1]
<1> DEFINE L == Len(list)
           less == RemoveAt(list, q)
           g == Restrict(e, DOMAIN e \ {p[q]})
           t == [i \in 1..(L - 1) |-> IF i < q THEN p[i] ELSE p[i + 1]]
<1>1. /\ less \in Seq(V) /\ Len(less) = L - 1 /\ L \in Nat
      /\ \A i \in 1..(L - 1) : less[i] = IF i < q THEN list[i] ELSE list[i + 1]
  BY RemoveAtIs
<1>2. /\ \A i \in 1..L : p[i] \in DOMAIN e /\ p[i] \in Nat /\ list[i] = e[p[i]]
      /\ \A i, j \in 1..L : i < j => p[i] < p[j]
      /\ \A i \in 1..L : \A k \in DOMAIN e : k > p[i] => \E j \in 1..L : k = p[j]
  BY DEF IsTail, IsListing
<1>3. DOMAIN g = DOMAIN e \ {p[q]} /\ \A k \in DOMAIN g : g[k] = e[k]
  BY DEF Restrict
<1>4. q \in 1..L /\ q \in Nat
  OBVIOUS
<1>5. \A i \in 1..L : i # q => p[i] # p[q]
  <2>1. ASSUME NEW i \in 1..L, i # q PROVE p[i] # p[q]
    <3>1. i < q \/ q < i
      BY <1>4, <2>1
    <3>2. p[i] < p[q] \/ p[q] < p[i]
      BY <1>2, <1>4, <3>1
    <3> QED
      BY <1>2, <1>4, <3>2
  <2> QED
    BY <2>1
\* Where an index of the shorter list lies in the longer one.
<1> DEFINE at(i) == IF i < q THEN i ELSE i + 1
<1>6. ASSUME NEW i \in 1..(L - 1)
      PROVE  at(i) \in 1..L /\ at(i) # q /\ t[i] = p[at(i)] /\ less[i] = list[at(i)]
  BY <1>1, <1>4
<1>7. \A i, j \in 1..(L - 1) : i < j => at(i) < at(j)
  BY <1>1, <1>4
<1>8. ASSUME NEW j \in 1..L, j # q PROVE \E i \in 1..(L - 1) : at(i) = j
  <2>1. CASE j < q
    <3>1. j \in 1..(L - 1) /\ at(j) = j
      BY <1>1, <1>4, <2>1
    <3> QED
      BY <3>1
  <2>2. CASE ~(j < q)
    <3>1. j - 1 \in 1..(L - 1) /\ at(j - 1) = j
      BY <1>1, <1>4, <1>8, <2>2
    <3> QED
      BY <3>1
  <2> QED
    BY <2>1, <2>2
<1>9. t = [i \in 1..(L - 1) |-> t[i]]
  OBVIOUS
<1> HIDE DEF t, less, L, g, at
<1>10. ASSUME NEW i \in 1..(L - 1) PROVE t[i] \in DOMAIN g /\ less[i] = g[t[i]]
  <2>1. at(i) \in 1..L /\ at(i) # q /\ t[i] = p[at(i)] /\ less[i] = list[at(i)]
    BY <1>6
  <2>2. p[at(i)] \in DOMAIN e /\ p[at(i)] # p[q] /\ list[at(i)] = e[p[at(i)]]
    BY <1>2, <1>5, <2>1
  <2> QED
    BY <1>3, <2>1, <2>2
<1>11. \A i, j \in 1..(L - 1) : i < j => t[i] < t[j]
  BY <1>2, <1>6, <1>7
<1>12. ASSUME NEW i \in 1..(L - 1), NEW k \in DOMAIN g, k > t[i]
       PROVE  \E j \in 1..(L - 1) : k = t[j]
  <2>1. k \in DOMAIN e /\ k # p[q]
    BY <1>3
  <2>2. at(i) \in 1..L /\ k > p[at(i)]
    BY <1>6, <1>12
  <2>3. PICK j \in 1..L : k = p[j]
    BY <1>2, <2>1, <2>2
  <2>4. PICK a \in 1..(L - 1) : at(a) = j
    BY <1>8, <2>1, <2>3
  <2>5. t[a] = p[at(a)]
    BY <1>6
  <2> QED
    BY <2>3, <2>4, <2>5
<1>13. t \in [1..(L - 1) -> DOMAIN g]
  BY <1>9, <1>10
<1>14. IsTail(less, t, g)
  BY <1>1, <1>10, <1>11, <1>12, <1>13 DEF IsTail
<1> QED
  BY <1>1, <1>14 DEF g, less, L

Later(s) == SubSeq(s, 2, Len(s))

\* The entries of a bounded list after an append: the first leaves when the list was full.
LEMMA NewestItems ==
    ASSUME NEW V, NEW list \in Seq(V), NEW max \in Nat \ {0}, Len(list) <= max, NEW row \in V
    PROVE  LET full == Append(list, row) IN
           /\ Len(list) < max => Newest(full, max) = full
           /\ ~(Len(list) < max) => Newest(full, max) = Later(full)
           /\ Newest(full, max) \in Seq(V)
           /\ Len(Newest(full, max)) = IF Len(list) < max THEN Len(list) + 1 ELSE max
           /\ Len(list) < max => \A i \in 1..Len(list) : Newest(full, max)[i] = list[i]
           /\ ~(Len(list) < max) => \A i \in 1..(max - 1) : Newest(full, max)[i] = list[i + 1]
           /\ Newest(full, max)[Len(Newest(full, max))] = row
<1> DEFINE full == Append(list, row)
           L == Len(list)
<1>1. /\ full \in Seq(V) /\ Len(full) = L + 1 /\ L \in Nat /\ full[L + 1] = row
      /\ \A i \in 1..L : full[i] = list[i]
  OBVIOUS
<1> HIDE DEF full, L
<1>2. CASE L < max
  <2>1. Newest(full, max) = full
    BY <1>1, <1>2 DEF Newest
  <2> QED
    BY <1>1, <1>2, <2>1 DEF full, L
<1>3. CASE ~(L < max)
  <2>1. L = max /\ Len(full) - max + 1 = 2 /\ ~(Len(full) <= max)
    BY <1>1, <1>3 DEF L
  <2>2. Newest(full, max) = SubSeq(full, 2, Len(full))
    BY <2>1 DEF Newest
  <2> DEFINE less == SubSeq(full, 2, L + 1)
  <2>3. /\ less \in Seq(V) /\ Len(less) = IF 2 <= L + 1 THEN (L + 1) - 2 + 1 ELSE 0
        /\ \A i \in 1..((L + 1) - 2 + 1) : less[i] = full[2 + i - 1]
    <3>1. 2 \in Int /\ L + 1 \in Int /\ \A i \in 2..(L + 1) : full[i] \in V
      BY <1>1
    <3> QED
      BY <3>1, SubSeqProperties
  <2> HIDE DEF less
  <2>4. Len(less) = max /\ less[max] = row
    BY <1>1, <2>1, <2>3
  <2>5. \A i \in 1..(max - 1) : less[i] = list[i + 1]
    BY <1>1, <2>1, <2>3
  <2>6. Newest(full, max) = less
    BY <1>1, <2>2 DEF less
  <2> QED
    BY <1>3, <2>2, <2>3, <2>4, <2>5, <2>6 DEF full, L, Later
<1> QED
  BY <1>2, <1>3

\* What is needed of it below.
LEMMA NewestAppend ==
    ASSUME NEW V, NEW list \in Seq(V), NEW max \in Nat \ {0}, Len(list) <= max, NEW row \in V
    PROVE  /\ Len(list) < max => Newest(Append(list, row), max) = Append(list, row)
           /\ ~(Len(list) < max)
                 => Newest(Append(list, row), max) = Later(Append(list, row))
           /\ Newest(Append(list, row), max) \in Seq(V)
           /\ Len(Newest(Append(list, row), max)) = IF Len(list) < max THEN Len(list) + 1 ELSE max
BY NewestItems

\* A bounded list shows the last entries, as many as fit.
Bounded(list, e, max) ==
    /\ Len(list) = IF Cardinality(DOMAIN e) <= max THEN Cardinality(DOMAIN e) ELSE max
    /\ \E p : IsTail(list, p, e)

\* One entry more.
LEMMA ListingPut ==
    ASSUME NEW e, IsListing(e), NEW n \in Nat \ {0}, \A k \in DOMAIN e : k < n, NEW row
    PROVE  /\ IsListing(Put(e, n, row)) /\ Cardinality(DOMAIN e) \in Nat
           /\ Cardinality(DOMAIN Put(e, n, row)) = Cardinality(DOMAIN e) + 1
<1>1. DOMAIN Put(e, n, row) = DOMAIN e \cup {n} /\ n \notin DOMAIN e
  BY DEF Put, IsListing
<1>2. /\ IsFiniteSet(DOMAIN e \cup {n}) /\ Cardinality(DOMAIN e) \in Nat
      /\ Cardinality(DOMAIN e \cup {n}) = Cardinality(DOMAIN e) + 1
  BY <1>1, FS_AddElement, FS_CardinalityType DEF IsListing
<1> QED
  BY <1>1, <1>2 DEF IsListing

\* A bounded list keeps the last entries after an append.
LEMMA BoundedAppend ==
    ASSUME NEW V, NEW list \in Seq(V), NEW e, IsListing(e), NEW max \in Nat \ {0}, Bounded(list, e, max),
           NEW n \in Nat \ {0}, \A k \in DOMAIN e : k < n, NEW row \in V
    PROVE  /\ Bounded(Newest(Append(list, row), max), Put(e, n, row), max)
           /\ Newest(Append(list, row), max) \in Seq(V)
<1> DEFINE N == Cardinality(DOMAIN e)
           L == Len(list)
           full == Append(list, row)
           g == Put(e, n, row)
<1>1. /\ IsListing(g) /\ N \in Nat /\ L \in Nat
      /\ Cardinality(DOMAIN g) = N + 1
      /\ L = IF N <= max THEN N ELSE max
  BY ListingPut DEF Bounded
<1>2. PICK p : IsTail(list, p, e)
  BY DEF Bounded
<1>3. PICK t : IsTail(full, t, g)
  BY <1>2, TailAppend
<1>4. full \in Seq(V) /\ Len(full) = L + 1
  OBVIOUS
<1>5. /\ L < max => Newest(full, max) = full
      /\ ~(L < max) => Newest(full, max) = Later(full)
      /\ Newest(full, max) \in Seq(V)
      /\ Len(Newest(full, max)) = IF L < max THEN L + 1 ELSE max
  <2>1. Len(list) <= max
    <3> HIDE DEF N
    <3> QED
      BY <1>1
  <2> QED
    BY <2>1, NewestAppend
<1>6. \E u : IsTail(Later(full), u, g)
  <2> HIDE DEF full, g
  <2> QED
    BY <1>1, <1>3, <1>4, TailDrop DEF Later
<1> HIDE DEF N, L, full, g
<1>7. \E u : IsTail(Newest(full, max), u, g)
  BY <1>3, <1>5, <1>6
<1>8. Bounded(Newest(full, max), g, max)
  BY <1>1, <1>5, <1>7 DEF Bounded
<1> QED
  BY <1>5, <1>8 DEF full, g

\* One entry replaced by a new one at the end.
LEMMA BoundedReplace ==
    ASSUME NEW V, NEW list \in Seq(V), NEW e, IsListing(e), NEW max \in Nat \ {0}, Bounded(list, e, max),
           NEW n \in Nat \ {0}, \A k \in DOMAIN e : k < n, NEW row \in V,
           NEW k0 \in DOMAIN e, e[k0].id = row.id, \A k \in DOMAIN e : e[k].id = row.id => k = k0
    PROVE  /\ Bounded(Newest(Touch(list, row), max), Put(Restrict(e, DOMAIN e \ {k0}), n, row), max)
           /\ Newest(Touch(list, row), max) \in Seq(V)
<1> DEFINE N == Cardinality(DOMAIN e)
           L == Len(list)
           r == Restrict(e, DOMAIN e \ {k0})
           g == Put(r, n, row)
           known == {q \in 1..L : list[q].id = row.id}
<1>1. PICK p : IsTail(list, p, e)
  BY DEF Bounded
<1>2. /\ \A i \in 1..L : p[i] \in DOMAIN e /\ p[i] \in Nat /\ list[i] = e[p[i]]
      /\ \A i, j \in 1..L : i < j => p[i] < p[j]
  BY <1>1 DEF IsTail, IsListing
<1>3. L \in Nat /\ L = IF N <= max THEN N ELSE max
  BY DEF Bounded
<1>4. /\ DOMAIN r = DOMAIN e \ {k0} /\ \A k \in DOMAIN r : r[k] = e[k]
      /\ IsListing(r) /\ N \in Nat /\ Cardinality(DOMAIN r) = N - 1
  <2>1. DOMAIN r = DOMAIN e \ {k0} /\ \A k \in DOMAIN r : r[k] = e[k]
    BY DEF Restrict
  <2>2. /\ IsFiniteSet(DOMAIN e \ {k0}) /\ N \in Nat
        /\ Cardinality(DOMAIN e \ {k0}) = IF k0 \in DOMAIN e THEN N - 1 ELSE N
    BY FS_RemoveElement, FS_CardinalityType DEF IsListing
  <2> HIDE DEF r, N
  <2> QED
    BY <2>1, <2>2 DEF IsListing
<1>5. /\ IsListing(g) /\ Cardinality(DOMAIN g) = N
      /\ \A k \in DOMAIN r : k < n
  <2>1. \A k \in DOMAIN r : k < n
    BY <1>4
  <2>2. IsListing(g) /\ Cardinality(DOMAIN g) = Cardinality(DOMAIN r) + 1
    <3> HIDE DEF r
    <3> QED
      BY <1>4, <2>1, ListingPut
  <2> HIDE DEF g, N, r
  <2> QED
    BY <1>4, <2>1, <2>2
<1>6. CASE \E q \in 1..L : p[q] = k0
  <2>1. PICK q \in 1..L : p[q] = k0
    BY <1>6
  <2>2. known = {q}
    <3>1. ASSUME NEW i \in 1..L, list[i].id = row.id PROVE i = q
      <4>1. p[i] = p[q]
        BY <1>2, <2>1, <3>1
      <4>2. ~(i < q) /\ ~(q < i)
        BY <1>2, <2>1, <4>1
      <4> QED
        BY <4>2
    <3>2. list[q].id = row.id
      BY <1>2, <2>1
    <3> QED
      BY <3>1, <3>2
  <2> DEFINE less == RemoveAt(list, q)
             full == Append(less, row)
  <2>3. Touch(list, row) = full
    <3>1. (CHOOSE k \in known : TRUE) = q
      BY <2>2
    <3>2. Touch(list, row) = Append(IF known = {} THEN list ELSE RemoveAt(list, CHOOSE k \in known : TRUE), row)
      BY DEF Touch
    <3> HIDE DEF known
    <3> QED
      BY <2>2, <3>1, <3>2
  <2>4. less \in Seq(V) /\ Len(less) = L - 1 /\ \E t : IsTail(less, t, r)
    BY <1>1, <2>1, TailRemove
  <2>5. full \in Seq(V) /\ Len(full) = L
    <3> HIDE DEF less
    <3> QED
      BY <1>3, <2>4
  <2>6. \E t : IsTail(full, t, g)
    <3> HIDE DEF less, r, known
    <3> QED
      BY <1>4, <1>5, <2>4, TailAppend
  <2>7. Newest(full, max) = full
    <3> HIDE DEF full
    <3> QED
      BY <1>3, <1>4, <2>5 DEF Newest
  <2> HIDE DEF full, g, N, L
  <2>8. Bounded(full, g, max)
    BY <1>3, <1>5, <2>5, <2>6 DEF Bounded
  <2> QED
    BY <2>3, <2>5, <2>7, <2>8 DEF g
<1>7. CASE ~\E q \in 1..L : p[q] = k0
  <2>1. known = {}
    BY <1>2, <1>7
  <2> DEFINE full == Append(list, row)
  <2>2. Touch(list, row) = full
    BY <2>1 DEF Touch
  <2>3. IsTail(list, p, r)
    <3>1. p \in [1..L -> DOMAIN r]
      BY <1>1, <1>4, <1>7 DEF IsTail
    <3>2. \A i \in 1..L : list[i] = r[p[i]]
      BY <1>2, <1>4, <1>7
    <3>3. \A i \in 1..L : \A k \in DOMAIN r : k > p[i] => \E j \in 1..L : k = p[j]
      BY <1>1, <1>4 DEF IsTail
    <3> HIDE DEF r
    <3> QED
      BY <1>2, <3>1, <3>2, <3>3 DEF IsTail
  <2>4. \E t : IsTail(full, t, g)
    <3> HIDE DEF r, known
    <3> QED
      BY <1>4, <1>5, <2>3, TailAppend
  <2>5. L = max /\ N > max
    <3>1. CASE L = 0
      <4>1. N # 0
        BY FS_EmptySet DEF IsListing
      <4> HIDE DEF N, L
      <4> QED
        BY <1>3, <1>4, <3>1, <4>1
    <3>2. CASE L # 0
      <4> DEFINE T == PositionsFrom(p, 1, L)
      <4>1. IsFiniteSet(T) /\ Cardinality(T) = L - 1 + 1
        <5>1. 1 \in 1..L
          BY <1>3, <3>2
        <5>2. L \in Nat /\ \A i \in 1..L : p[i] \in Nat
          BY <1>2, <1>3
        <5>3. \A i, j \in 1..L : i < j => p[i] < p[j]
          BY <1>2
        <5> HIDE DEF L, N, T
        <5> QED
          BY <5>1, <5>2, <5>3, PositionsCount, Zenon DEF T
      <4>2. k0 \notin T /\ T \cup {k0} \subseteq DOMAIN e
        BY <1>2, <1>7 DEF PositionsFrom
      <4> HIDE DEF T
      <4>3. Cardinality(T \cup {k0}) = Cardinality(T) + 1
        BY <4>1, <4>2, FS_AddElement
      <4>4. Cardinality(T \cup {k0}) <= N
        BY <4>2, FS_Subset DEF IsListing
      <4> HIDE DEF L, N
      <4>5. L + 1 <= N
        BY <1>3, <1>4, <4>1, <4>3, <4>4
      <4> QED
        BY <1>3, <1>4, <4>5
    <3> QED
      BY <3>1, <3>2
  <2>6. full \in Seq(V) /\ Len(full) = L + 1
    OBVIOUS
  <2>7. /\ Newest(full, max) = Later(full)
        /\ Newest(full, max) \in Seq(V) /\ Len(Newest(full, max)) = max
    <3>1. Len(list) <= max /\ ~(Len(list) < max)
      <4> HIDE DEF N
      <4> QED
        BY <2>5
    <3> QED
      BY <3>1, NewestAppend
  <2>8. \E u : IsTail(Later(full), u, g)
    <3> HIDE DEF full, g
    <3>1. PICK t : IsTail(full, t, g)
      BY <2>4
    <3>2. full \in Seq(V) /\ Len(full) # 0
      <4> HIDE DEF L
      <4> QED
        BY <1>3, <2>6
    <3>3. \E u : IsTail(SubSeq(full, 2, Len(full)), u, g)
      BY <1>5, <3>1, <3>2, TailDrop, Zenon
    <3> QED
      BY <3>3 DEF Later
  <2> HIDE DEF full, g, N, L
  <2>10. Bounded(Newest(full, max), g, max)
    BY <1>4, <1>5, <2>5, <2>7, <2>8 DEF Bounded
  <2> QED
    BY <2>2, <2>7, <2>10 DEF g
<1> QED
  BY <1>6, <1>7

-----------------------------------------------------------------------------
(* Logs and clients. *)

LogLines == {LogRow(x) : x \in Item}

\* A new item joins the log lines if it is one.
LEMMA LogRowsPut ==
    ASSUME NEW h, IsRecord(h), NEW n, Follows(n, h), NEW x \in Item
    PROVE  /\ IsListing(LogRows(h)) /\ \A k \in DOMAIN LogRows(h) : k < n
           /\ LogRows(Put(h, n, x)) = IF x.row.kind = "logs" THEN Put(LogRows(h), n, LogRow(x))
                                      ELSE LogRows(h)
<1> DEFINE lines == OfKinds(h, {"logs"})
           more == OfKinds(Put(h, n, x), {"logs"})
<1>1. /\ IsRecord(lines) /\ Follows(n, lines)
      /\ \A k \in DOMAIN lines : lines[k] = h[k] /\ k \in DOMAIN h
  BY OfKindsFacts
<1>2. more = IF x.row.kind = "logs" THEN Put(lines, n, x) ELSE lines
  <2>1. /\ x.row.kind \in {"logs"} => OfKinds(Put(h, n, x), {"logs"}) = Put(OfKinds(h, {"logs"}), n, x)
        /\ x.row.kind \notin {"logs"} => OfKinds(Put(h, n, x), {"logs"}) = OfKinds(h, {"logs"})
    BY OfKindsPut
  <2> QED
    BY <2>1
<1>3. /\ LogRows(h) = [k \in DOMAIN lines |-> LogRow(h[k])]
      /\ LogRows(Put(h, n, x)) = [k \in DOMAIN more |-> LogRow(Put(h, n, x)[k])]
  BY DEF LogRows
<1> HIDE DEF lines, more
<1>4. IsListing(LogRows(h)) /\ \A k \in DOMAIN LogRows(h) : k < n
  BY <1>1, <1>3 DEF IsListing, IsRecord, Follows
<1>5. n \notin DOMAIN h /\ n \notin DOMAIN lines
  BY <1>1 DEF Follows
<1>6. Put(h, n, x)[n] = x /\ \A k \in DOMAIN lines : Put(h, n, x)[k] = h[k]
  BY <1>1, <1>5 DEF Put
<1>7. CASE x.row.kind = "logs"
  <2>1. DOMAIN more = DOMAIN lines \cup {n}
    BY <1>2, <1>7 DEF Put
  <2>2. LogRows(Put(h, n, x)) = [k \in DOMAIN lines \cup {n} |-> IF k = n THEN LogRow(x) ELSE LogRow(h[k])]
    BY <1>3, <1>5, <1>6, <2>1
  <2>3. Put(LogRows(h), n, LogRow(x)) = [k \in DOMAIN lines \cup {n} |-> IF k = n THEN LogRow(x) ELSE LogRow(h[k])]
    BY <1>3, <1>5 DEF Put
  <2> QED
    BY <1>4, <1>7, <2>2, <2>3
<1>8. CASE x.row.kind # "logs"
  <2>1. LogRows(Put(h, n, x)) = LogRows(h)
    BY <1>2, <1>3, <1>6, <1>8
  <2> QED
    BY <1>4, <1>8, <2>1
<1> QED
  BY <1>7, <1>8

\* The recent logs stay the last lines with one more item.
LEMMA LogsAddItem ==
    ASSUME NEW s \in Seq(Item), NEW x \in Item, NEW v, v.logs \in Seq(LogLines),
           Bounded(v.logs, LogRows(s), MaxLogs)
    PROVE  /\ AddItem(v, x).logs \in Seq(LogLines)
           /\ Bounded(AddItem(v, x).logs, LogRows(Append(s, x)), MaxLogs)
<1> DEFINE n == Len(s) + 1
<1>1. IsRecord(s) /\ Follows(n, s) /\ Append(s, x) = Put(s, n, x)
  BY ListIsRecord
<1>2. AddItem(v, x).logs = IF x.row.kind = "logs" THEN Newest(Append(v.logs, LogRow(x)), MaxLogs)
                           ELSE v.logs
  BY DEF AddItem
<1>3. /\ IsListing(LogRows(s)) /\ \A k \in DOMAIN LogRows(s) : k < n
      /\ LogRows(Append(s, x)) = IF x.row.kind = "logs" THEN Put(LogRows(s), n, LogRow(x))
                                 ELSE LogRows(s)
  BY <1>1, LogRowsPut
<1>4. n \in Nat \ {0} /\ MaxLogs \in Nat \ {0} /\ LogRow(x) \in LogLines
  BY LiveViewsAssumption DEF LogLines
<1> HIDE DEF n
<1>5. CASE x.row.kind = "logs"
  <2>1. /\ Bounded(Newest(Append(v.logs, LogRow(x)), MaxLogs), Put(LogRows(s), n, LogRow(x)), MaxLogs)
        /\ Newest(Append(v.logs, LogRow(x)), MaxLogs) \in Seq(LogLines)
    BY <1>3, <1>4, BoundedAppend
  <2> QED
    BY <1>2, <1>3, <1>5, <2>1
<1>6. CASE x.row.kind # "logs"
  BY <1>2, <1>3, <1>6
<1> QED
  BY <1>5, <1>6

\* Envelopes as they are recorded, and the entries of RecentClients.
Arrival == [instance : Instances, at : Nat, frames : Nat]

ClientLines == [id : Instances, role : ClientRoles, lastSeen : Nat]

\* The recent clients stay the last ones by their last sync after an envelope.
LEMMA ClientsAfter ==
    ASSUME NEW list \in Seq(ClientLines), NEW a \in Seq(Arrival), NEW b \in Arrival,
           Bounded(list, LastSyncs(a), MaxClients)
    PROVE  /\ Newest(Touch(list, ClientRow(b)), MaxClients) \in Seq(ClientLines)
           /\ Bounded(Newest(Touch(list, ClientRow(b)), MaxClients), LastSyncs(Append(a, b)), MaxClients)
<1> DEFINE n == Len(a) + 1
           e == LastSyncs(a)
           more == Append(a, b)
           g == LastSyncs(more)
           row == ClientRow(b)
           LastOf(r) == {k \in DOMAIN r : \A j \in DOMAIN r : j > k => r[j].instance # r[k].instance}
           Mine == {k \in DOMAIN e : a[k].instance = b.instance}
<1>1. /\ n \in Nat \ {0} /\ Len(a) \in Nat /\ DOMAIN a = 1..Len(a) /\ DOMAIN more = 1..n
      /\ more[n] = b /\ \A k \in 1..Len(a) : more[k] = a[k]
  OBVIOUS
<1>2. row \in ClientLines /\ row.id = b.instance
  BY LiveViewsAssumption DEF ClientRow, ClientLines, Arrival
<1>3. e = [k \in LastOf(a) |-> ClientRow(a[k])] /\ g = [k \in LastOf(more) |-> ClientRow(more[k])]
  BY DEF LastSyncs
<1> HIDE DEF more
<1>4. LastOf(more) = (LastOf(a) \ Mine) \cup {n}
  <2>1. n \in LastOf(more)
    BY <1>1
  <2>2. \A k \in 1..Len(a) : k \in LastOf(more) <=> k \in LastOf(a) /\ a[k].instance # b.instance
    BY <1>1
  <2>3. \A k \in LastOf(more) : k = n \/ k \in 1..Len(a)
    BY <1>1
  <2>4. LastOf(a) \subseteq 1..Len(a) /\ Mine = {k \in LastOf(a) : a[k].instance = b.instance}
    BY <1>1, <1>3
  <2> HIDE DEF LastOf, Mine
  <2> QED
    BY <2>1, <2>2, <2>3, <2>4
<1>5. /\ IsListing(e) /\ \A k \in DOMAIN e : k < n /\ e[k].id = a[k].instance /\ k \in 1..Len(a)
      /\ \A j, k \in DOMAIN e : a[j].instance = a[k].instance => j = k
  <2>1. DOMAIN e = LastOf(a) /\ LastOf(a) \subseteq 1..Len(a)
    BY <1>1, <1>3
  <2>2. IsFiniteSet(1..Len(a))
    BY FS_Interval
  <2>3. IsFiniteSet(LastOf(a))
    <3> HIDE DEF LastOf
    <3> QED
      BY <2>1, <2>2, FS_Subset
  <2>4. \A k \in DOMAIN e : k < n /\ k \in 1..Len(a) /\ k \in Nat \ {0}
    BY <1>1, <2>1
  <2>5. \A k \in DOMAIN e : e[k].id = a[k].instance
    BY <1>3 DEF ClientRow
  <2>6. \A j, k \in DOMAIN e : a[j].instance = a[k].instance => j = k
    <3>1. ASSUME NEW j \in DOMAIN e, NEW k \in DOMAIN e, a[j].instance = a[k].instance PROVE j = k
      <4>1. ~(j > k) /\ ~(k > j)
        BY <1>1, <2>1, <3>1
      <4> QED
        BY <2>4, <4>1
    <3> QED
      BY <3>1
  <2> HIDE DEF e, LastOf
  <2> QED
    BY <2>1, <2>3, <2>4, <2>5, <2>6 DEF IsListing
<1>6. MaxClients \in Nat \ {0} /\ Bounded(list, e, MaxClients)
  BY LiveViewsAssumption
<1>7. \A k \in LastOf(a) : k \in 1..Len(a) /\ more[k] = a[k]
  BY <1>1
<1> HIDE DEF row, n, g
<1>8. CASE Mine = {}
  <2>1. g = Put(e, n, row)
    <3>1. DOMAIN g = DOMAIN e \cup {n}
      BY <1>3, <1>4, <1>8
    <3>2. \A k \in DOMAIN g : g[k] = IF k = n THEN row ELSE e[k]
      BY <1>1, <1>3, <1>7, <3>1 DEF row
    <3>3. g = [k \in DOMAIN g |-> g[k]]
      BY <1>3
    <3>4. g = [k \in DOMAIN e \cup {n} |-> IF k = n THEN row ELSE e[k]]
      BY <3>1, <3>2, <3>3
    <3> QED
      BY <3>4 DEF Put
  <2> HIDE DEF e
  <2>2. Touch(list, row) = Append(list, row)
    <3>1. PICK p : IsTail(list, p, e)
      BY <1>6 DEF Bounded
    <3>2. \A q \in 1..Len(list) : list[q].id # row.id
      <4>1. \A q \in 1..Len(list) : p[q] \in DOMAIN e /\ list[q] = e[p[q]]
        BY <3>1 DEF IsTail
      <4>2. \A k \in DOMAIN e : e[k].id # row.id
        BY <1>2, <1>5, <1>8
      <4> QED
        BY <4>1, <4>2
    <3>3. {q \in 1..Len(list) : list[q].id = row.id} = {}
      BY <3>2
    <3> QED
      BY <3>3 DEF Touch
  <2>3. /\ Bounded(Newest(Append(list, row), MaxClients), Put(e, n, row), MaxClients)
        /\ Newest(Append(list, row), MaxClients) \in Seq(ClientLines)
    BY <1>1, <1>2, <1>5, <1>6, BoundedAppend
  <2> QED
    BY <2>1, <2>2, <2>3 DEF row, g, more
<1>9. CASE Mine # {}
  <2>1. PICK k0 \in DOMAIN e : a[k0].instance = b.instance
    BY <1>9
  <2>2. Mine = {k0}
    BY <1>5, <2>1
  <2> DEFINE r == Restrict(e, DOMAIN e \ {k0})
  <2>3. g = Put(r, n, row)
    <3>1. DOMAIN g = (DOMAIN e \ {k0}) \cup {n} /\ DOMAIN r = DOMAIN e \ {k0}
      BY <1>3, <1>4, <2>2 DEF Restrict
    <3>2. \A k \in DOMAIN r : r[k] = e[k]
      BY DEF Restrict
    <3> HIDE DEF r
    <3>3. ASSUME NEW k \in DOMAIN g PROVE g[k] = IF k = n THEN row ELSE r[k]
      <4>1. g[k] = ClientRow(more[k])
        BY <1>3
      <4>2. CASE k = n
        BY <1>1, <4>1, <4>2 DEF row
      <4>3. CASE k # n
        <5>1. k \in DOMAIN r /\ k \in DOMAIN e /\ k \in LastOf(a)
          BY <1>3, <3>1, <4>3
        <5>2. r[k] = ClientRow(a[k]) /\ more[k] = a[k]
          BY <1>3, <1>7, <3>2, <5>1
        <5> QED
          BY <4>1, <4>3, <5>2
      <4> QED
        BY <4>2, <4>3
    <3>4. g = [k \in DOMAIN g |-> g[k]]
      BY <1>3
    <3>5. g = [k \in DOMAIN r \cup {n} |-> IF k = n THEN row ELSE r[k]]
      BY <3>1, <3>3, <3>4
    <3> QED
      BY <3>5 DEF Put
  <2>4. e[k0].id = row.id /\ \A k \in DOMAIN e : e[k].id = row.id => k = k0
    BY <1>2, <1>5, <2>1
  <2>5. /\ Bounded(Newest(Touch(list, row), MaxClients), Put(r, n, row), MaxClients)
        /\ Newest(Touch(list, row), MaxClients) \in Seq(ClientLines)
    <3> HIDE DEF e
    <3> QED
      BY <1>1, <1>2, <1>5, <1>6, <2>1, <2>4, BoundedReplace
  <2> QED
    BY <2>3, <2>5 DEF row, g, more
<1> QED
  BY <1>8, <1>9

-----------------------------------------------------------------------------
(* The ring of events. *)

EventLines == {EventRow(x) : x \in Item}

IsRing(r) ==
    /\ r.buf = [i \in 0..(MaxEvents - 1) |-> r.buf[i]]
    /\ r.next \in 0..(MaxEvents - 1) /\ r.size \in 0..MaxEvents

\* Indices of a ring of m slots.
LEMMA Wrap ==
    ASSUME NEW m \in Nat \ {0}, NEW a \in 0..(m + m - 1)
    PROVE  a % m = IF a < m THEN a ELSE a - m
OBVIOUS

\* One slot further, an index that was a distance d behind is d + 1 behind.
LEMMA WrapBehind ==
    ASSUME NEW m \in Nat \ {0}, NEW slot \in 0..(m - 1), NEW next,
           next = (slot + 1) % m, NEW d \in 0..(m - 1)
    PROVE  /\ next \in 0..(m - 1)
           /\ (next - (d + 1) + m) % m = (slot - d + m) % m
           /\ (slot - d + m) % m \in 0..(m - 1)
           /\ d = 0 => (slot - d + m) % m = slot
           /\ d # 0 => (slot - d + m) % m # slot
<1> DEFINE a == slot + 1
           b == slot - d + m
           c == next - (d + 1) + m
<1>1. a \in 0..(m + m - 1) /\ b \in 0..(m + m - 1) /\ next = a % m
  OBVIOUS
<1>2. /\ b < m <=> slot < d
      /\ b - m = slot - d
      /\ a < m <=> slot + 1 < m
      /\ a - m = 0 <=> slot + 1 = m
      /\ a = slot + 1 /\ b = slot - d + m /\ c = next - (d + 1) + m
  OBVIOUS
<1> HIDE DEF a, b, c
<1>3. next = IF a < m THEN a ELSE a - m
  BY <1>1, Wrap
<1>4. b % m = IF b < m THEN b ELSE b - m
  BY <1>1, Wrap
<1>5. next = IF slot + 1 < m THEN slot + 1 ELSE 0
  BY <1>1, <1>2, <1>3
<1>6. c \in 0..(m + m - 1)
  BY <1>2, <1>5
<1>7. c % m = IF c < m THEN c ELSE c - m
  BY <1>6, Wrap
<1>8. b % m = IF slot < d THEN slot - d + m ELSE slot - d
  BY <1>2, <1>4
<1>9. c % m = b % m
  BY <1>2, <1>5, <1>6, <1>7, <1>8
<1>10. b % m \in 0..(m - 1) /\ (d = 0 => b % m = slot) /\ (d # 0 => b % m # slot)
  BY <1>8
<1>11. next \in 0..(m - 1)
  BY <1>5
<1> QED
  BY <1>9, <1>10, <1>11 DEF b, c

\* The next slot of a ring takes a row: the newest rows are shown.
LEMMA RingPush ==
    ASSUME NEW r, IsRing(r), NEW V, RingRows(r) \in Seq(V), NEW row \in V
    PROVE  /\ IsRing(Push(r, row))
           /\ RingRows(Push(r, row)) = Newest(Append(RingRows(r), row), MaxEvents)
           /\ RingRows(Push(r, row)) \in Seq(V) /\ Len(RingRows(r)) = r.size
<1> DEFINE M == MaxEvents
           t == Push(r, row)
           old == RingRows(r)
           new == RingRows(t)
           full == Append(old, row)
           Slot(q, i) == (q.next - (q.size - i + 1) + M) % M
<1>1. M \in Nat \ {0}
  BY LiveViewsAssumption
<1>2. /\ r.next \in 0..(M - 1) /\ r.size \in 0..M
      /\ DOMAIN r.buf = 0..(M - 1)
  BY DEF IsRing
<1>3. /\ t.buf = [r.buf EXCEPT ![r.next] = row]
      /\ t.next = (r.next + 1) % M
      /\ t.size = IF r.size < M THEN r.size + 1 ELSE r.size
  BY DEF Push
<1>4. old = [i \in 1..r.size |-> r.buf[Slot(r, i)]] /\ new = [i \in 1..t.size |-> t.buf[Slot(t, i)]]
  BY DEF RingRows
<1> HIDE DEF t, M, old, new
<1>5. /\ t.next \in 0..(M - 1) /\ t.size \in 0..M
      /\ \A d \in 0..(M - 1) :
            /\ (t.next - (d + 1) + M) % M = (r.next - d + M) % M
            /\ (r.next - d + M) % M \in 0..(M - 1)
            /\ d = 0 => (r.next - d + M) % M = r.next
            /\ d # 0 => (r.next - d + M) % M # r.next
  <2>1. t.next = (r.next + 1) % M /\ t.size \in 0..M
    BY <1>1, <1>2, <1>3
  <2>2. 0 \in 0..(M - 1)
    BY <1>1
  <2>3. ASSUME NEW d \in 0..(M - 1)
        PROVE  /\ t.next \in 0..(M - 1)
               /\ (t.next - (d + 1) + M) % M = (r.next - d + M) % M
               /\ (r.next - d + M) % M \in 0..(M - 1)
               /\ d = 0 => (r.next - d + M) % M = r.next
               /\ d # 0 => (r.next - d + M) % M # r.next
    BY <1>1, <1>2, <2>1, WrapBehind
  <2> QED
    BY <2>1, <2>2, <2>3
<1>6. /\ t.buf = [i \in 0..(M - 1) |-> t.buf[i]] /\ t.buf[r.next] = row
      /\ \A i \in 0..(M - 1) : i # r.next => t.buf[i] = r.buf[i]
  BY <1>2, <1>3
<1>7. IsRing(t)
  BY <1>5, <1>6 DEF IsRing, M
<1>8. Len(old) = r.size
  BY <1>2, <1>4
<1>9. ASSUME NEW i \in 1..t.size
      PROVE  new[i] = IF i = t.size THEN row
                      ELSE IF r.size < M THEN old[i] ELSE old[i + 1]
  <2>1. new[i] = t.buf[Slot(t, i)]
    BY <1>4
  <2>2. CASE i = t.size
    <3>1. Slot(t, i) = r.next
      <4>1. t.next - (t.size - i + 1) + M = t.next - (0 + 1) + M
        <5>1. t.size \in Int /\ t.next \in Int /\ M \in Int
          <6>1. t.size \in 0..M /\ t.next \in 0..(M - 1)
            BY <1>5
          <6> HIDE DEF Slot
          <6> QED
            BY ONLY <1>1, <6>1
        <5> DEFINE size == t.size
        <5> HIDE DEF size
        <5>2. size - size = 0
          BY <5>1 DEF size
        <5> QED
          BY <2>2, <5>2 DEF size
      <4>2. ASSUME NEW d \in 0..(M - 1), d = 0 PROVE (t.next - (d + 1) + M) % M = r.next
        BY <1>5, <4>2
      <4>3. 0 \in 0..(M - 1)
        BY <1>1
      <4>4. (t.next - (0 + 1) + M) % M = r.next
        BY <4>2, <4>3
      <4> QED
        BY <4>1, <4>4
    <3> QED
      BY <1>6, <2>1, <2>2, <3>1
  <2>3. CASE i # t.size
    <3> DEFINE j == IF r.size < M THEN i ELSE i + 1
    <3>1. j \in 1..r.size /\ t.size - i = r.size - j + 1 /\ r.size - j + 1 \in 1..(M - 1)
      <4>1. CASE r.size < M
        <5>1. t.size = r.size + 1 /\ j = i
          BY <1>3, <4>1
        <5> QED
          BY <1>1, <1>2, <2>3, <4>1, <5>1
      <4>2. CASE ~(r.size < M)
        <5>1. t.size = M /\ r.size = M /\ j = i + 1
          BY <1>1, <1>2, <1>3, <4>2
        <5> QED
          BY <1>1, <2>3, <5>1
      <4> QED
        BY <4>1, <4>2
    <3> DEFINE d == r.size - j + 1
    <3>2. Slot(r, j) = (r.next - d + M) % M /\ Slot(t, i) = (t.next - (d + 1) + M) % M
      BY <3>1
    <3>3. d \in 1..(M - 1)
      BY <3>1
    <3> HIDE DEF d
    <3>4. (r.next - d + M) % M = (t.next - (d + 1) + M) % M
      BY <1>5, <3>3
    <3>5. (r.next - d + M) % M \in 0..(M - 1) /\ (r.next - d + M) % M # r.next
      BY <1>5, <3>3
    <3>6. Slot(t, i) = Slot(r, j) /\ Slot(r, j) \in 0..(M - 1) /\ Slot(r, j) # r.next
      <4> HIDE DEF Slot
      <4> QED
        BY <3>2, <3>4, <3>5
    <3>7. new[i] = r.buf[Slot(r, j)]
      <4> HIDE DEF Slot
      <4> QED
        BY <1>6, <2>1, <3>6
    <3>8. old[j] = r.buf[Slot(r, j)]
      <4> HIDE DEF Slot
      <4> QED
        BY <1>4, <3>1
    <3> QED
      BY <2>3, <3>7, <3>8
  <2> QED
    BY <2>2, <2>3
<1>10. /\ Newest(full, M) \in Seq(V)
       /\ Len(Newest(full, M)) = IF r.size < M THEN r.size + 1 ELSE M
       /\ r.size < M => \A i \in 1..r.size : Newest(full, M)[i] = old[i]
       /\ ~(r.size < M) => \A i \in 1..(M - 1) : Newest(full, M)[i] = old[i + 1]
       /\ Newest(full, M)[Len(Newest(full, M))] = row
  <2>1. old \in Seq(V) /\ Len(old) <= M
    BY <1>2, <1>8 DEF old
  <2>2. row \in V
    OBVIOUS
  <2> HIDE DEF full
  <2>3. /\ Newest(full, M) \in Seq(V)
        /\ Len(Newest(full, M)) = IF Len(old) < M THEN Len(old) + 1 ELSE M
        /\ Len(old) < M => \A i \in 1..Len(old) : Newest(full, M)[i] = old[i]
        /\ ~(Len(old) < M) => \A i \in 1..(M - 1) : Newest(full, M)[i] = old[i + 1]
        /\ Newest(full, M)[Len(Newest(full, M))] = row
    BY <1>1, <2>1, <2>2, NewestItems DEF full
  <2> QED
    BY <1>8, <2>3
<1> HIDE DEF full
<1>11. new = Newest(full, M)
  <2> DEFINE u == Newest(full, M)
  <2>1. Len(u) = t.size /\ t.size \in Nat
    <3>1. t.size = IF r.size < M THEN r.size + 1 ELSE M
      BY <1>1, <1>2, <1>3
    <3>2. t.size \in Nat
      BY <1>1, <1>2, <3>1
    <3>3. Len(Newest(full, M)) = t.size
      BY <1>10, <3>1
    <3> QED
      BY <3>2, <3>3
  <2>2. ASSUME NEW i \in 1..t.size PROVE u[i] = new[i]
    <3>1. CASE i = t.size
      BY <1>9, <1>10, <2>1, <3>1
    <3>2. CASE i # t.size /\ r.size < M
      <4>1. i \in 1..r.size
        BY <1>1, <1>2, <1>3, <3>2
      <4> QED
        BY <1>9, <1>10, <3>2, <4>1
    <3>3. CASE i # t.size /\ ~(r.size < M)
      <4>1. i \in 1..(M - 1)
        BY <1>1, <1>2, <1>3, <3>3
      <4> QED
        BY <1>9, <1>10, <3>3, <4>1
    <3> QED
      BY <3>1, <3>2, <3>3
  <2>3. u = [i \in 1..t.size |-> u[i]]
    <3>1. u \in Seq(V)
      BY <1>10
    <3> HIDE DEF u
    <3>2. u = [i \in 1..Len(u) |-> u[i]]
      BY <3>1
    <3> QED
      BY <2>1, <3>2
  <2>4. new = [i \in 1..t.size |-> new[i]]
    BY <1>4
  <2> HIDE DEF u
  <2>5. u = new
    BY <2>2, <2>3, <2>4
  <2> QED
    BY <2>5 DEF u
<1> QED
  BY <1>7, <1>8, <1>10, <1>11 DEF t, M, old, new, full

\* The empty ring shows nothing.
LEMMA RingEmpty ==
    IsRing(EmptyRing) /\ RingRows(EmptyRing) = <<>>
<1>1. MaxEvents \in Nat \ {0}
  BY LiveViewsAssumption
<1>2. IsRing(EmptyRing)
  BY <1>1 DEF IsRing, EmptyRing
<1>3. RingRows(EmptyRing) = <<>>
  <2>1. EmptyRing.size = 0 /\ 1..0 = {}
    BY DEF EmptyRing
  <2>2. RingRows(EmptyRing) \in Seq({}) /\ Len(RingRows(EmptyRing)) = 0
    BY <2>1 DEF RingRows
  <2> QED
    BY <2>2
<1> QED
  BY <1>2, <1>3

\* A rebuild of the ring shows the rows of the other names, in their order.
LEMMA RingForget ==
    ASSUME NEW r, IsRing(r), NEW V, RingRows(r) \in Seq(V), NEW gone
    PROVE  /\ IsRing(Forget(r, gone))
           /\ RingRows(Forget(r, gone)) = Without(RingRows(r), gone)
           /\ Without(RingRows(r), gone) \in Seq(V)
           /\ \A i \in 1..Len(Without(RingRows(r), gone)) :
                 /\ Without(RingRows(r), gone)[i].name \notin gone
                 /\ \E j \in 1..Len(RingRows(r)) : Without(RingRows(r), gone)[i] = RingRows(r)[j]
<1> DEFINE rows == RingRows(r)
           n == Len(rows)
<1>1. n \in Nat /\ n <= MaxEvents /\ MaxEvents \in Nat \ {0} /\ \A k \in 1..n : rows[k] \in V
  <2>1. n = r.size
    BY DEF RingRows, IsRing
  <2>2. r.size \in 0..MaxEvents
    BY DEF IsRing
  <2>3. MaxEvents \in Nat \ {0}
    BY LiveViewsAssumption
  <2> HIDE DEF rows
  <2> QED
    BY <2>1, <2>2, <2>3 DEF rows
<1>2. PICK f : /\ PushOthers(EmptyRing, rows, gone) = f[n]
               /\ f[0] = EmptyRing
               /\ \A k \in 1..n :
                     f[k] = (IF rows[k].name \in gone THEN f[k - 1] ELSE Push(f[k - 1], rows[k]))
  <2> HIDE DEF rows
  <2> QED
    BY <1>1, PushOthersIs, SMTT(30)
<1>3. PICK g : /\ Without(rows, gone) = g[n]
               /\ g[0] = <<>>
               /\ \A k \in 1..n :
                     g[k] = (IF rows[k].name \in gone THEN g[k - 1] ELSE Append(g[k - 1], rows[k]))
  <2> HIDE DEF rows
  <2> QED
    BY <1>1, WithoutIs, SMTT(30)
<1> DEFINE Left(k) == \A i \in 1..Len(g[k]) : /\ g[k][i].name \notin gone
                                              /\ \E j \in 1..n : g[k][i] = rows[j]
           Good(k) == /\ IsRing(f[k]) /\ RingRows(f[k]) = g[k]
                      /\ g[k] \in Seq(V) /\ Len(g[k]) <= k /\ Left(k)
           S == {k \in Nat : k <= n => Good(k)}
<1>4. Forget(r, gone) = f[n]
  BY <1>2 DEF Forget
<1> HIDE DEF rows, n
<1>5. 0 \in S
  <2>1. g[0] \in Seq(V) /\ Len(g[0]) = 0
    BY <1>3
  <2>2. Left(0)
    BY <2>1
  <2>3. IsRing(f[0]) /\ RingRows(f[0]) = g[0]
    BY <1>2, <1>3, RingEmpty
  <2> HIDE DEF Left
  <2> QED
    BY <2>1, <2>2, <2>3
<1>6. ASSUME NEW k \in Nat, k \in S PROVE k + 1 \in S
  <2>1. SUFFICES ASSUME k + 1 <= n PROVE Good(k + 1)
    OBVIOUS
  <2> HIDE DEF Good
  <2>2. Good(k) /\ k + 1 \in 1..n /\ (k + 1) - 1 = k
    BY <1>1, <1>6, <2>1
  <2> DEFINE row == rows[k + 1]
  <2>3. row \in V
    BY <1>1, <2>2
  <2>4. /\ f[k + 1] = (IF row.name \in gone THEN f[k] ELSE Push(f[k], row))
        /\ g[k + 1] = (IF row.name \in gone THEN g[k] ELSE Append(g[k], row))
    BY <1>2, <1>3, <2>2
  <2> HIDE DEF row, Left
  <2>5. CASE row.name \in gone
    <3>1. f[k + 1] = f[k] /\ g[k + 1] = g[k]
      BY <2>4, <2>5
    <3>2. Left(k + 1) <=> Left(k)
      BY <3>1 DEF Left
    <3>3. Len(g[k + 1]) <= k + 1
      BY <2>2, <3>1 DEF Good
    <3> QED
      BY <2>2, <3>1, <3>2, <3>3 DEF Good
  <2>6. CASE row.name \notin gone
    <3>1. f[k + 1] = Push(f[k], row) /\ g[k + 1] = Append(g[k], row)
      BY <2>4, <2>6
    <3>2. IsRing(f[k]) /\ RingRows(f[k]) = g[k] /\ g[k] \in Seq(V) /\ Len(g[k]) <= k /\ Left(k)
      BY <2>2 DEF Good
    <3>3. /\ IsRing(Push(f[k], row))
          /\ RingRows(Push(f[k], row)) = Newest(Append(g[k], row), MaxEvents)
      BY <2>3, <3>2, RingPush
    <3>4. Len(g[k]) < MaxEvents /\ Len(g[k]) <= MaxEvents
      <4>1. Len(g[k]) \in Nat
        BY <3>2
      <4> QED
        BY <1>1, <2>1, <3>2, <4>1
    <3>5. Newest(Append(g[k], row), MaxEvents) = Append(g[k], row)
      BY <1>1, <2>3, <3>2, <3>4, NewestAppend
    <3>6. Append(g[k], row) \in Seq(V) /\ Len(Append(g[k], row)) <= k + 1
      BY <2>3, <3>2
    <3>7. Left(k + 1)
      <4>1. Len(g[k + 1]) = Len(g[k]) + 1 /\ Len(g[k]) \in Nat
        BY <3>1, <3>2
      <4>2. ASSUME NEW i \in 1..Len(g[k + 1])
            PROVE  /\ g[k + 1][i].name \notin gone
                   /\ \E j \in 1..n : g[k + 1][i] = rows[j]
        <5>1. CASE i = Len(g[k]) + 1
          <6>1. g[k + 1][i] = row
            BY <2>3, <3>1, <3>2, <5>1
          <6> QED
            BY <2>2, <2>6, <6>1 DEF row
        <5>2. CASE i # Len(g[k]) + 1
          <6>1. i \in 1..Len(g[k]) /\ g[k + 1][i] = g[k][i]
            BY <2>3, <3>1, <3>2, <4>1, <5>2
          <6> QED
            BY <3>2, <6>1 DEF Left
        <5> QED
          BY <5>1, <5>2
      <4> QED
        BY <4>2 DEF Left
    <3> QED
      BY <3>1, <3>3, <3>5, <3>6, <3>7 DEF Good
  <2> QED
    BY <2>5, <2>6
<1>7. Good(n)
  <2> HIDE DEF S
  <2>1. Nat \subseteq S
    BY <1>5, <1>6, InductiveSet
  <2>2. n \in S
    BY <1>1, <2>1
  <2> HIDE DEF Good
  <2> QED
    BY <1>1, <2>2 DEF S
<1> QED
  BY <1>2, <1>3, <1>4, <1>7 DEF n, rows

\* Nothing is lost when no name goes.
LEMMA WithoutNone ==
    ASSUME NEW V, NEW rows \in Seq(V)
    PROVE  Without(rows, {}) = rows
<1> DEFINE n == Len(rows)
           gone == {}
<1>1. n \in Nat /\ \A k \in 1..n : rows[k] \in V
  OBVIOUS
<1>2. PICK g : /\ Without(rows, gone) = g[n]
               /\ g[0] = <<>>
               /\ \A k \in 1..n :
                     g[k] = (IF rows[k].name \in gone THEN g[k - 1] ELSE Append(g[k - 1], rows[k]))
  <2> HIDE DEF gone
  <2> QED
    BY <1>1, WithoutIs, SMTT(30)
<1> DEFINE Good(k) == /\ g[k] \in Seq(V) /\ Len(g[k]) = k
                      /\ \A i \in 1..k : g[k][i] = rows[i]
           S == {k \in Nat : k <= n => Good(k)}
<1> HIDE DEF n
<1>3. 0 \in S
  <2>1. g[0] \in Seq(V) /\ Len(g[0]) = 0
    BY <1>2
  <2> QED
    BY <2>1
<1>4. ASSUME NEW k \in Nat, k \in S PROVE k + 1 \in S
  <2>1. SUFFICES ASSUME k + 1 <= n PROVE Good(k + 1)
    OBVIOUS
  <2>2. Good(k) /\ k + 1 \in 1..n /\ (k + 1) - 1 = k /\ rows[k + 1] \in V
    BY <1>1, <1>4, <2>1
  <2>3. g[k + 1] = Append(g[k], rows[k + 1])
    BY <1>2, <2>2
  <2> QED
    BY <2>2, <2>3
<1>5. Good(n)
  <2> HIDE DEF S
  <2>1. Nat \subseteq S
    BY <1>3, <1>4, InductiveSet
  <2>2. n \in S
    BY <1>1, <2>1
  <2> HIDE DEF Good
  <2> QED
    BY <1>1, <2>2 DEF S
<1>6. g[n] = rows
  <2> DEFINE u == g[n]
  <2>1. u \in Seq(V) /\ Len(u) = n /\ \A i \in 1..n : u[i] = rows[i]
    BY <1>5
  <2> HIDE DEF u
  <2>2. u = [i \in 1..n |-> u[i]] /\ rows = [i \in 1..n |-> rows[i]]
    BY <2>1 DEF n
  <2>3. u = rows
    BY <2>1, <2>2
  <2> QED
    BY <2>3 DEF u
<1> QED
  BY <1>2, <1>6

\* A ring that shows the rows it should, all of listed names.
RingShows(v) ==
    /\ IsRing(v.ring) /\ RingRows(v.ring) = v.inspected /\ v.inspected \in Seq(EventLines)
    /\ \A k \in 1..Len(v.inspected) : v.inspected[k].name \in catalog.inspectEvents

\* The ring shows the rows it should with one more item.
LEMMA RingAddItem ==
    ASSUME NEW x \in Item, NEW v, RingShows(v)
    PROVE  RingShows(AddItem(v, x))
<1> DEFINE w == AddItem(v, x)
           row == EventRow(x)
<1>1. /\ w.ring = IF Inspected(x) THEN Push(v.ring, row) ELSE v.ring
      /\ w.inspected = IF Inspected(x) THEN Newest(Append(v.inspected, row), MaxEvents)
                       ELSE v.inspected
  BY DEF AddItem
<1>2. row \in EventLines /\ (Inspected(x) => row.name \in catalog.inspectEvents)
  BY DEF EventLines, EventRow, Inspected
<1>3. IsRing(v.ring) /\ RingRows(v.ring) = v.inspected /\ v.inspected \in Seq(EventLines)
  BY DEF RingShows
<1> HIDE DEF w, row
<1>4. CASE ~Inspected(x)
  BY <1>1, <1>4 DEF RingShows, w
<1>5. CASE Inspected(x)
  <2>1. /\ IsRing(Push(v.ring, row))
        /\ RingRows(Push(v.ring, row)) = Newest(Append(v.inspected, row), MaxEvents)
        /\ Newest(Append(v.inspected, row), MaxEvents) \in Seq(EventLines)
        /\ Len(v.inspected) = v.ring.size
    BY <1>2, <1>3, RingPush
  <2>2. /\ MaxEvents \in Nat \ {0} /\ Len(v.inspected) <= MaxEvents /\ Len(v.inspected) \in Nat
        /\ v.ring.size \in 0..MaxEvents
    BY <1>3, <2>1, LiveViewsAssumption DEF IsRing
  <2> DEFINE l == Len(v.inspected)
             full == Append(v.inspected, row)
             u == Newest(full, MaxEvents)
  <2> HIDE DEF full
  <2>3. /\ Len(u) = IF l < MaxEvents THEN l + 1 ELSE MaxEvents
        /\ l < MaxEvents => \A i \in 1..l : u[i] = v.inspected[i]
        /\ ~(l < MaxEvents) => \A i \in 1..(MaxEvents - 1) : u[i] = v.inspected[i + 1]
        /\ u[Len(u)] = row
    <3> DEFINE old == v.inspected
               max == MaxEvents
    <3>1. row \in EventLines /\ old \in Seq(EventLines) /\ max \in Nat \ {0} /\ Len(old) <= max
      BY <1>2, <1>3, <2>2
    <3> HIDE DEF old, max
    <3> DEFINE all == Append(old, row)
    <3> HIDE DEF all
    <3>2. /\ Len(Newest(all, max)) = IF Len(old) < max THEN Len(old) + 1 ELSE max
          /\ Len(old) < max => \A i \in 1..Len(old) : Newest(all, max)[i] = old[i]
          /\ ~(Len(old) < max) => \A i \in 1..(max - 1) : Newest(all, max)[i] = old[i + 1]
          /\ Newest(all, max)[Len(Newest(all, max))] = row
      BY <3>1, NewestItems DEF all
    <3> QED
      BY <3>2 DEF all, old, max, full
  <2> HIDE DEF u, l
  <2>4. ASSUME NEW k \in 1..Len(u)
        PROVE  u[k].name \in catalog.inspectEvents
    <3>1. l \in Nat /\ l <= MaxEvents /\ MaxEvents \in Nat \ {0}
      BY <2>2 DEF l
    <3>2. \A i \in 1..l : v.inspected[i].name \in catalog.inspectEvents
      BY DEF RingShows, l
    <3>3. CASE k = Len(u)
      BY <1>2, <1>5, <2>3, <3>3
    <3>4. CASE k # Len(u) /\ l < MaxEvents
      <4>1. k \in 1..l
        BY <2>3, <3>1, <3>4
      <4> QED
        BY <2>3, <3>2, <3>4, <4>1
    <3>5. CASE k # Len(u) /\ ~(l < MaxEvents)
      <4>1. k \in 1..(MaxEvents - 1) /\ k + 1 \in 1..l
        BY <2>3, <3>1, <3>5
      <4> QED
        BY <2>3, <3>2, <3>5, <4>1
    <3> QED
      BY <3>3, <3>4, <3>5
  <2>5. w.ring = Push(v.ring, row) /\ w.inspected = u
    BY <1>1, <1>5 DEF u, full
  <2>6. IsRing(w.ring) /\ RingRows(w.ring) = w.inspected /\ w.inspected \in Seq(EventLines)
    BY <2>1, <2>5 DEF u, full
  <2> QED
    BY <2>4, <2>5, <2>6 DEF RingShows, w
<1> QED
  BY <1>4, <1>5

-----------------------------------------------------------------------------
(* An envelope, item by item. *)

\* What the views of v say of the items s, when f tells the last forgetting of each log name.
ViewsShow(v, s, f, cutoff) ==
    /\ DOMAIN v.windows \subseteq Int /\ WindowsShow(v.windows, s, cutoff)
    /\ LogsMatch(v.rollups, Since(s, f))
    /\ v.logs \in Seq(LogLines) /\ Bounded(v.logs, LogRows(s), MaxLogs)
    /\ RingShows(v)

\* Every view stays right with one more item.
LEMMA ViewsAddItem ==
    ASSUME NEW s \in Seq(Item), NEW x \in Item, NEW f \in [PersistNames -> 0..Len(s)],
           NEW cutoff, NEW v, ViewsShow(v, s, f, cutoff)
    PROVE  ViewsShow(AddItem(v, x), Append(s, x), f, cutoff)
<1>1. WindowsShow(AddItem(v, x).windows, Append(s, x), cutoff)
  BY WindowsAddItem DEF ViewsShow
<1>2. LogsMatch(AddItem(v, x).rollups, Since(Append(s, x), f))
  BY RollupsAddItem DEF ViewsShow
<1>3. /\ AddItem(v, x).logs \in Seq(LogLines)
      /\ Bounded(AddItem(v, x).logs, LogRows(Append(s, x)), MaxLogs)
  BY LogsAddItem DEF ViewsShow
<1>4. RingShows(AddItem(v, x))
  BY RingAddItem DEF ViewsShow
<1>5. DOMAIN AddItem(v, x).windows \subseteq Int
  <2>1. DOMAIN AddItem(v, x).windows = DOMAIN v.windows \cup {MinuteOf(x)}
    BY DEF AddItem, Put
  <2>2. MinuteOf(x) \in Int
    <3>1. x.from \in Int /\ Minute \in Nat \ {0}
      BY LiveViewsAssumption DEF Item
    <3> QED
      BY <3>1 DEF MinuteOf, MinuteFloor
  <2> QED
    BY <2>1, <2>2 DEF ViewsShow
<1> QED
  BY <1>1, <1>2, <1>3, <1>4, <1>5 DEF ViewsShow

\* A list and the first n of another.
Extended(s, t, n) == [k \in 1..(Len(s) + n) |-> IF k <= Len(s) THEN s[k] ELSE t[k - Len(s)]]

\* The next item of the second list extends the first.
LEMMA ExtendedNext ==
    ASSUME NEW V, NEW s \in Seq(V), NEW t \in Seq(V), NEW n \in Nat, n < Len(t)
    PROVE  /\ Extended(s, t, n) \in Seq(V) /\ Len(Extended(s, t, n)) = Len(s) + n
           /\ Extended(s, t, n + 1) = Append(Extended(s, t, n), t[n + 1])
<1>0. Len(s) \in Nat /\ Len(t) \in Nat
  OBVIOUS
<1>1. ASSUME NEW k \in 1..(Len(s) + n) PROVE Extended(s, t, n)[k] \in V
  BY <1>0 DEF Extended
<1>2. Extended(s, t, n) = [k \in 1..(Len(s) + n) |-> Extended(s, t, n)[k]] /\ Len(s) + n \in Nat
  BY <1>0 DEF Extended
<1> DEFINE u == Extended(s, t, n)
           w == Extended(s, t, n + 1)
<1>3. u \in Seq(V) /\ Len(u) = Len(s) + n
  <2> DEFINE l == Len(s) + n
  <2>1. l \in Nat /\ u = [k \in 1..l |-> u[k]] /\ \A k \in 1..l : u[k] \in V
    BY <1>1, <1>2
  <2> HIDE DEF u, l
  <2>2. u \in Seq(V) /\ Len(u) = l
    BY <2>1
  <2> QED
    BY <2>2 DEF l
<1>4. t[n + 1] \in V
  BY <1>0
<1>5. w = [k \in 1..(Len(u) + 1) |-> w[k]]
  BY <1>0, <1>3 DEF Extended
<1>6. \A k \in 1..(Len(u) + 1) : w[k] = IF k = Len(u) + 1 THEN t[n + 1] ELSE u[k]
  <2> HIDE DEF u, w
  <2>1. ASSUME NEW k \in 1..(Len(u) + 1) PROVE w[k] = IF k = Len(u) + 1 THEN t[n + 1] ELSE u[k]
    <3>1. k \in 1..(Len(s) + (n + 1)) /\ (k # Len(u) + 1 => k \in 1..(Len(s) + n))
      BY <1>0, <1>3
    <3>2. /\ w[k] = IF k <= Len(s) THEN s[k] ELSE t[k - Len(s)]
          /\ k # Len(u) + 1 => u[k] = IF k <= Len(s) THEN s[k] ELSE t[k - Len(s)]
      BY <3>1 DEF Extended, u, w
    <3>3. k = Len(u) + 1 => ~(k <= Len(s)) /\ k - Len(s) = n + 1
      BY <1>0, <1>3
    <3> QED
      BY <3>2, <3>3
  <2> QED
    BY <2>1
<1> HIDE DEF u, w
<1>7. Append(u, t[n + 1]) = [k \in 1..(Len(u) + 1) |-> IF k = Len(u) + 1 THEN t[n + 1] ELSE u[k]]
  BY <1>3, <1>4
<1>8. w = [k \in 1..(Len(u) + 1) |-> IF k = Len(u) + 1 THEN t[n + 1] ELSE u[k]]
  BY <1>5, <1>6
<1> QED
  BY <1>3, <1>7, <1>8 DEF u, w

\* None of its items leave the first list alone, all of them make the concatenation.
LEMMA ExtendedIs ==
    ASSUME NEW V, NEW s \in Seq(V), NEW t \in Seq(V)
    PROVE  /\ Extended(s, t, 0) = s
           /\ Extended(s, t, Len(t)) = s \o t
<1>1. Len(s) \in Nat /\ Len(t) \in Nat
  OBVIOUS
<1>2. s = [k \in 1..Len(s) |-> s[k]]
  OBVIOUS
<1>3. Extended(s, t, 0) = s
  <2>1. Len(s) + 0 = Len(s)
    BY <1>1
  <2>2. Extended(s, t, 0) = [k \in 1..Len(s) |-> s[k]]
    BY <1>1, <2>1 DEF Extended
  <2> QED
    BY <1>2, <2>2
<1>4. Extended(s, t, Len(t)) = s \o t
  <2> DEFINE u == s \o t
             w == Extended(s, t, Len(t))
  <2>1. /\ u \in Seq(V) /\ Len(u) = Len(s) + Len(t)
        /\ \A k \in 1..(Len(s) + Len(t)) : u[k] = IF k <= Len(s) THEN s[k] ELSE t[k - Len(s)]
    BY ConcatProperties
  <2>2. w = [k \in 1..(Len(s) + Len(t)) |-> IF k <= Len(s) THEN s[k] ELSE t[k - Len(s)]]
    BY DEF Extended
  <2> HIDE DEF u, w
  <2>3. u = [k \in 1..(Len(s) + Len(t)) |-> u[k]]
    BY <2>1
  <2>4. u = w
    BY <2>1, <2>2, <2>3
  <2> QED
    BY <2>4 DEF u, w
<1> QED
  BY <1>3, <1>4

\* The views of an envelope's items.
LEMMA ViewsIngested ==
    ASSUME NEW s \in Seq(Item), NEW items \in Seq(Item), NEW f \in [PersistNames -> 0..Len(s)],
           NEW cutoff, NEW v, ViewsShow(v, s, f, cutoff)
    PROVE  ViewsShow(Ingested(v, items), s \o items, f, cutoff)
<1> DEFINE n == Len(items)
<1>1. n \in Nat /\ Len(s) \in Nat /\ \A k \in 1..n : items[k] \in Item
  OBVIOUS
<1>2. PICK g : /\ Ingested(v, items) = g[n]
               /\ g[0] = v
               /\ \A k \in 1..n : g[k] = AddItem(g[k - 1], items[k])
  BY <1>1, IngestedIs
<1>3. /\ Extended(s, items, 0) = s /\ Extended(s, items, n) = s \o items
      /\ \A k \in Nat : k < n =>
            /\ Extended(s, items, k) \in Seq(Item) /\ Len(Extended(s, items, k)) = Len(s) + k
            /\ Extended(s, items, k + 1) = Append(Extended(s, items, k), items[k + 1])
  <2>1. Extended(s, items, 0) = s
    BY ExtendedIs
  <2>2. Extended(s, items, Len(items)) = s \o items
    BY ExtendedIs, Zenon
  <2>3. ASSUME NEW k \in Nat, k < Len(items)
        PROVE  /\ Extended(s, items, k) \in Seq(Item) /\ Len(Extended(s, items, k)) = Len(s) + k
               /\ Extended(s, items, k + 1) = Append(Extended(s, items, k), items[k + 1])
    BY <2>3, ExtendedNext
  <2> QED
    BY <2>1, <2>2, <2>3
<1> DEFINE S == {k \in Nat : k <= n => ViewsShow(g[k], Extended(s, items, k), f, cutoff)}
<1> HIDE DEF n
<1>4. 0 \in S
  BY <1>2, <1>3
<1>5. ASSUME NEW k \in Nat, k \in S PROVE k + 1 \in S
  <2>1. SUFFICES ASSUME k + 1 <= n PROVE ViewsShow(g[k + 1], Extended(s, items, k + 1), f, cutoff)
    OBVIOUS
  <2>2. /\ ViewsShow(g[k], Extended(s, items, k), f, cutoff)
        /\ k < n /\ k + 1 \in 1..n /\ (k + 1) - 1 = k /\ items[k + 1] \in Item
    BY <1>1, <1>5, <2>1
  <2>3. g[k + 1] = AddItem(g[k], items[k + 1])
    BY <1>2, <2>2
  <2> DEFINE t == Extended(s, items, k)
  <2>4. /\ t \in Seq(Item) /\ Len(t) = Len(s) + k
        /\ Extended(s, items, k + 1) = Append(t, items[k + 1])
    BY <1>3, <2>2
  <2> HIDE DEF t
  <2>5. f \in [PersistNames -> 0..Len(t)]
    BY <1>1, <2>4
  <2>6. ViewsShow(g[k], t, f, cutoff)
    BY <2>2 DEF t
  <2>7. ViewsShow(AddItem(g[k], items[k + 1]), Append(t, items[k + 1]), f, cutoff)
    BY <2>2, <2>4, <2>5, <2>6, ViewsAddItem
  <2> QED
    BY <2>3, <2>4, <2>7
<1>6. ViewsShow(g[n], Extended(s, items, n), f, cutoff)
  <2> HIDE DEF S
  <2>1. Nat \subseteq S
    BY <1>4, <1>5, InductiveSet
  <2>2. n \in S
    BY <1>1, <2>1
  <2> QED
    BY <1>1, <2>2 DEF S
<1> QED
  BY <1>2, <1>3, <1>6

\* The frames of an envelope.
Frame == [from : Int, to : Int, body : Seq(Rows)]

\* The items of an envelope are items, all of the instance that sent it.
LEMMA ItemsTyped ==
    ASSUME NEW i \in Instances, NEW frames \in Seq(Frame), catalog.persistLogs \subseteq PersistNames
    PROVE  /\ Items(i, frames) \in Seq(Item)
           /\ \A k \in 1..Len(Items(i, frames)) : Items(i, frames)[k].instance = i
<1> DEFINE n == Len(frames)
           Mine == {x \in Item : x.instance = i}
<1>1. n \in Nat /\ \A k \in 1..n : frames[k] \in Frame
  OBVIOUS
<1>2. PICK g : /\ Items(i, frames) = g[n]
               /\ g[0] = <<>>
               /\ \A k \in 1..n : g[k] = g[k - 1] \o ItemsOf(i, frames[k])
  BY <1>1, ItemsIs
<1>3. ASSUME NEW frame \in Frame PROVE ItemsOf(i, frame) \in Seq(Mine)
  <2> DEFINE listed == <<[kind |-> "frames"]>> \o frame.body
  <2>1. frame.body \in Seq(Rows) /\ frame.from \in Int /\ frame.to \in Int
    BY DEF Frame
  <2>2. /\ <<[kind |-> "frames"]>> \in Seq(Listed) /\ frame.body \in Seq(Listed)
    <3>1. [kind |-> "frames"] \in Listed /\ Rows \subseteq Listed
      BY DEF Listed
    <3> QED
      BY <2>1, <3>1
  <2>3. listed \in Seq(Listed)
    BY <2>2, ConcatProperties
  <2> HIDE DEF listed
  <2>4. ItemsOf(i, frame) = [k \in 1..Len(listed) |->
            [row |-> listed[k], instance |-> i, from |-> frame.from, to |-> frame.to,
             persist |-> catalog.persistLogs]]
    BY DEF ItemsOf, listed
  <2>5. \A k \in 1..Len(listed) :
            [row |-> listed[k], instance |-> i, from |-> frame.from, to |-> frame.to,
             persist |-> catalog.persistLogs] \in Mine
    BY <2>1, <2>3 DEF Item
  <2> HIDE DEF Mine
  <2> QED
    BY <2>3, <2>4, <2>5
<1> DEFINE S == {k \in Nat : k <= n => g[k] \in Seq(Mine)}
<1> HIDE DEF n, Mine
<1>4. 0 \in S
  <2>1. g[0] \in Seq(Mine)
    BY <1>2
  <2> QED
    BY <2>1
<1>5. ASSUME NEW k \in Nat, k \in S PROVE k + 1 \in S
  <2>1. SUFFICES ASSUME k + 1 <= n PROVE g[k + 1] \in Seq(Mine)
    OBVIOUS
  <2>2. g[k] \in Seq(Mine) /\ k + 1 \in 1..n /\ (k + 1) - 1 = k /\ frames[k + 1] \in Frame
    BY <1>1, <1>5, <2>1
  <2>3. g[k + 1] = g[k] \o ItemsOf(i, frames[k + 1])
    BY <1>2, <2>2
  <2>4. ItemsOf(i, frames[k + 1]) \in Seq(Mine)
    BY <1>3, <2>2
  <2> QED
    BY <2>2, <2>3, <2>4, ConcatProperties
<1>6. g[n] \in Seq(Mine)
  <2> HIDE DEF S
  <2>1. Nat \subseteq S
    BY <1>4, <1>5, InductiveSet
  <2>2. n \in S
    BY <1>1, <2>1
  <2> QED
    BY <1>1, <2>2 DEF S
<1> DEFINE u == g[n]
<1>7. u \in Seq(Mine)
  BY <1>6
<1> HIDE DEF u
<1>8. Len(u) \in Nat /\ \A k \in 1..Len(u) : u[k] \in Mine
  BY <1>7
<1>9. u \in Seq(Item) /\ \A k \in 1..Len(u) : u[k].instance = i
  <2>1. \A x \in Mine : x \in Item /\ x.instance = i
    BY DEF Mine
  <2>2. u = [k \in 1..Len(u) |-> u[k]]
    BY <1>7
  <2>3. \A k \in 1..Len(u) : u[k] \in Item
    BY <1>8, <2>1
  <2> QED
    BY <1>8, <2>1, <2>2, <2>3
<1> QED
  BY <1>2, <1>9 DEF u

\* What an instance captured, as it stamps it.
LEMMA ShiftedTyped ==
    ASSUME NEW i \in Instances, NEW batch \in Batches(i), now \in Nat, delivered[i] \in Nat
    PROVE  /\ Shifted(batch) \in Seq(Frame) /\ Len(Shifted(batch)) = Len(batch)
           /\ Len(batch) \in Nat /\ (batch # <<>> => batch[Len(batch)].end \in Nat)
           /\ batch = <<>> <=> Len(batch) = 0
<1> DEFINE Capture == [start : Nat, end : Nat, error : Int, body : Seq(Rows)]
<1>1. Captures(i) \subseteq Capture
  <2>1. ASSUME NEW start \in delivered[i]..(now - 1), NEW end \in 1..now,
               NEW e \in Errors[i], NEW b \in Bodies[i]
        PROVE  [start |-> start, end |-> end, error |-> e, body |-> b] \in Capture
    <3>1. start \in Nat /\ end \in Nat
      OBVIOUS
    <3>2. e \in Int /\ b \in Seq(Rows)
      BY LiveViewsAssumption
    <3> QED
      BY <3>1, <3>2
  <2> HIDE DEF Capture
  <2> QED
    BY <2>1 DEF Captures
<1>2. batch \in Seq(Capture) /\ Len(batch) \in Nat
  <2> HIDE DEF Capture
  <2>1. CASE batch = <<>>
    BY <2>1
  <2>2. ASSUME NEW c \in Captures(i), batch = <<c>> PROVE batch \in Seq(Capture)
    BY <1>1, <2>2
  <2>3. ASSUME NEW c \in Captures(i), NEW d \in Captures(i), batch = <<c, d>> PROVE batch \in Seq(Capture)
    BY <1>1, <2>3
  <2>4. \/ batch = <<>>
        \/ \E c \in Captures(i) : batch = <<c>>
        \/ \E c, d \in Captures(i) : batch = <<c, d>>
    BY DEF Batches
  <2>5. batch \in Seq(Capture)
    BY <2>1, <2>2, <2>3, <2>4
  <2> QED
    BY <2>5
<1>3. \A k \in 1..Len(batch) : batch[k] \in Capture
  <2> HIDE DEF Capture
  <2> QED
    BY <1>2
<1>4. \A k \in 1..Len(batch) :
         [from |-> batch[k].start + batch[k].error, to |-> batch[k].end + batch[k].error,
          body |-> batch[k].body] \in Frame
  BY <1>3 DEF Frame
<1>5. Shifted(batch) \in Seq(Frame) /\ Len(Shifted(batch)) = Len(batch)
  BY <1>2, <1>4 DEF Shifted
<1>6. batch = <<>> <=> Len(batch) = 0
  BY <1>2
<1>7. batch # <<>> => batch[Len(batch)].end \in Nat
  <2>1. batch # <<>> => Len(batch) \in 1..Len(batch)
    BY <1>2, <1>6
  <2> QED
    BY <1>3, <2>1
<1> QED
  BY <1>2, <1>5, <1>6, <1>7

-----------------------------------------------------------------------------
(* The aggregator's map of instances. *)

Entry == [id : Instances, role : ClientRoles, dataThrough : Int, lastSyncAt : Nat]

\* In the order of the last syncs, one entry for each instance.
InOrder(list) ==
    \A j, k \in 1..Len(list) :
        j < k => list[j].lastSyncAt <= list[k].lastSyncAt /\ list[j].id # list[k].id

\* Every entry comes from an envelope since a cutoff, and every such envelope has one.
Backed(list, e, cutoff) ==
    \A k \in 1..Len(list) :
        \E a \in 1..Len(e) : /\ e[a].instance = list[k].id /\ e[a].frames # 0 /\ e[a].at >= cutoff
                             /\ list[k].lastSyncAt = e[a].at

Covers(list, e, cutoff) ==
    \A a \in 1..Len(e) :
        e[a].frames # 0 /\ e[a].at >= cutoff =>
            \E k \in 1..Len(list) : list[k].id = e[a].instance /\ list[k].lastSyncAt >= e[a].at

\* The entries of other ids, in their order.
IsRest(rest, list, entry) ==
    /\ \A k \in 1..Len(rest) : rest[k].id # entry.id
    /\ \A k \in 1..Len(list) :
          list[k].id # entry.id => \E j \in 1..Len(rest) : rest[j] = list[k]
    /\ \E p : /\ \A j \in 1..Len(rest) : p[j] \in 1..Len(list) /\ rest[j] = list[p[j]]
              /\ \A j, k \in 1..Len(rest) : j < k => p[j] < p[k]

\* The touched entry is the last, the others stand in their order.
LEMMA TouchIs ==
    ASSUME NEW V, NEW list \in Seq(V), NEW entry \in V,
           \A j, k \in 1..Len(list) : j < k => list[j].id # list[k].id
    PROVE  /\ Touch(list, entry) \in Seq(V)
           /\ \E rest \in Seq(V) : Touch(list, entry) = Append(rest, entry) /\ IsRest(rest, list, entry)
<1> DEFINE L == Len(list)
           known == {k \in 1..L : list[k].id = entry.id}
<1>1. L \in Nat /\ \A k \in 1..L : list[k] \in V
  OBVIOUS
<1>2. Touch(list, entry)
        = Append(IF known = {} THEN list ELSE RemoveAt(list, CHOOSE k \in known : TRUE), entry)
  BY DEF Touch
<1>3. CASE known = {}
  <2> DEFINE p == [j \in 1..L |-> j]
  <2>1. Touch(list, entry) = Append(list, entry)
    BY <1>2, <1>3
  <2>2. \A k \in 1..L : list[k].id # entry.id
    BY <1>3
  <2>3. /\ \A j \in 1..L : p[j] \in 1..L /\ list[j] = list[p[j]]
        /\ \A j, k \in 1..L : j < k => p[j] < p[k]
    OBVIOUS
  <2>4. \A k \in 1..L : \E j \in 1..L : list[j] = list[k]
    OBVIOUS
  <2>5. Touch(list, entry) \in Seq(V)
    BY <2>1
  <2> HIDE DEF known, p
  <2>6. IsRest(list, list, entry)
    BY <2>2, <2>3, <2>4 DEF IsRest
  <2> QED
    BY <2>1, <2>5, <2>6
<1>4. CASE known # {}
  <2> DEFINE q == CHOOSE k \in known : TRUE
             rest == RemoveAt(list, q)
             p == [j \in 1..(L - 1) |-> IF j < q THEN j ELSE j + 1]
  <2>1. q \in 1..L /\ list[q].id = entry.id
    <3>1. q \in known
      <4> HIDE DEF known
      <4> QED
        BY <1>4
    <3> HIDE DEF q
    <3> QED
      BY <3>1
  <2> HIDE DEF q
  <2>2. /\ rest \in Seq(V) /\ Len(rest) = L - 1
        /\ \A i \in 1..(L - 1) : rest[i] = IF i < q THEN list[i] ELSE list[i + 1]
    BY <2>1, RemoveAtIs
  <2> HIDE DEF rest
  <2>3. Touch(list, entry) = Append(rest, entry)
    BY <1>2, <1>4 DEF q, rest
  <2>4. /\ \A j \in 1..(L - 1) : p[j] \in 1..L /\ p[j] # q /\ rest[j] = list[p[j]]
        /\ \A j, k \in 1..(L - 1) : j < k => p[j] < p[k]
    BY <1>1, <2>1, <2>2
  <2>5. \A k \in 1..L : k # q => list[k].id # entry.id
    <3>1. ASSUME NEW k \in 1..L, k # q PROVE list[k].id # entry.id
      <4>1. k < q \/ q < k
        BY <1>1, <2>1, <3>1
      <4> QED
        BY <2>1, <4>1
    <3> QED
      BY <3>1
  <2>6. \A k \in 1..(L - 1) : rest[k].id # entry.id
    BY <2>4, <2>5
  <2>7. ASSUME NEW k \in 1..L, k # q PROVE \E j \in 1..(L - 1) : rest[j] = list[k]
    <3>1. CASE k < q
      <4>1. k \in 1..(L - 1) /\ rest[k] = list[k]
        BY <1>1, <2>1, <2>2, <3>1
      <4> QED
        BY <4>1
    <3>2. CASE k > q
      <4>1. k - 1 \in 1..(L - 1) /\ ~(k - 1 < q) /\ (k - 1) + 1 = k
        BY <1>1, <2>1, <3>2
      <4>2. rest[k - 1] = list[k]
        BY <2>2, <4>1
      <4> QED
        BY <4>1, <4>2
    <3> QED
      BY <1>1, <2>1, <2>7, <3>1, <3>2
  <2>8. \A k \in 1..L : list[k].id # entry.id => \E j \in 1..(L - 1) : rest[j] = list[k]
    BY <2>1, <2>7
  <2>9. Touch(list, entry) \in Seq(V)
    BY <2>2, <2>3
  <2> HIDE DEF p, L, known
  <2>10. IsRest(rest, list, entry)
    <3>1. /\ \A j \in 1..(L - 1) : p[j] \in 1..L /\ rest[j] = list[p[j]]
          /\ \A j, k \in 1..(L - 1) : j < k => p[j] < p[k]
      BY <2>4
    <3> QED
      BY <2>2, <2>6, <2>8, <3>1 DEF IsRest, L
  <2> QED
    BY <2>2, <2>3, <2>9, <2>10
<1> QED
  BY <1>3, <1>4

\* An envelope with frames brings its instance to the end of the map.
LEMMA TouchLive ==
    ASSUME NEW list \in Seq(Entry), NEW e \in Seq(Arrival), NEW cutoff, NEW b \in Arrival,
           NEW entry \in Entry, entry.id = b.instance, entry.lastSyncAt = b.at,
           b.frames # 0, b.at >= cutoff,
           \A a \in 1..Len(e) : e[a].at <= b.at,
           InOrder(list), Backed(list, e, cutoff), Covers(list, e, cutoff)
    PROVE  /\ Touch(list, entry) \in Seq(Entry) /\ InOrder(Touch(list, entry))
           /\ Backed(Touch(list, entry), Append(e, b), cutoff)
           /\ Covers(Touch(list, entry), Append(e, b), cutoff)
<1> DEFINE t == Touch(list, entry)
           more == Append(e, b)
           n == Len(e) + 1
<1>1. \A j, k \in 1..Len(list) : j < k => list[j].id # list[k].id
  BY DEF InOrder
<1>2. t \in Seq(Entry)
  BY <1>1, TouchIs
<1>3. PICK rest \in Seq(Entry) : t = Append(rest, entry) /\ IsRest(rest, list, entry)
  BY <1>1, TouchIs
<1>4. PICK p : /\ \A j \in 1..Len(rest) : p[j] \in 1..Len(list) /\ rest[j] = list[p[j]]
               /\ \A j, k \in 1..Len(rest) : j < k => p[j] < p[k]
  BY <1>3 DEF IsRest
<1> DEFINE R == Len(rest)
<1>5. /\ R \in Nat /\ Len(t) = R + 1 /\ t[R + 1] = entry /\ \A k \in 1..R : t[k] = rest[k]
      /\ Len(e) \in Nat /\ Len(more) = n /\ more[n] = b /\ \A a \in 1..Len(e) : more[a] = e[a]
      /\ n \in 1..n
  BY <1>3
<1> HIDE DEF t, more, R
<1>6. \A k \in 1..R : t[k].id # entry.id /\ t[k] = list[p[k]] /\ p[k] \in 1..Len(list)
  BY <1>3, <1>4, <1>5 DEF R, IsRest
<1>7. \A k \in 1..Len(list) : \E a \in 1..Len(e) : list[k].lastSyncAt = e[a].at
  BY DEF Backed
<1>8. InOrder(t)
  <2>1. ASSUME NEW j \in 1..(R + 1), NEW k \in 1..(R + 1), j < k
        PROVE  t[j].lastSyncAt <= t[k].lastSyncAt /\ t[j].id # t[k].id
    <3>1. j \in 1..R
      BY <1>5, <2>1
    <3>2. CASE k = R + 1
      <4>1. PICK a \in 1..Len(e) : list[p[j]].lastSyncAt = e[a].at
        BY <1>6, <1>7, <3>1
      <4> QED
        BY <1>5, <1>6, <3>1, <3>2, <4>1
    <3>3. CASE k # R + 1
      <4>1. k \in 1..R
        BY <1>5, <3>3
      <4>2. p[j] < p[k] /\ p[j] \in 1..Len(list) /\ p[k] \in 1..Len(list)
        BY <1>4, <2>1, <3>1, <4>1 DEF R
      <4> QED
        BY <1>6, <3>1, <4>1, <4>2 DEF InOrder
    <3> QED
      BY <3>2, <3>3
  <2> QED
    BY <1>5, <2>1 DEF InOrder
<1>9. Backed(t, more, cutoff)
  <2>1. ASSUME NEW k \in 1..(R + 1)
        PROVE  \E a \in 1..n : /\ more[a].instance = t[k].id /\ more[a].frames # 0
                               /\ more[a].at >= cutoff /\ t[k].lastSyncAt = more[a].at
    <3>1. CASE k = R + 1
      BY <1>5, <3>1
    <3>2. CASE k # R + 1
      <4>1. k \in 1..R
        BY <1>5, <3>2
      <4>2. PICK a \in 1..Len(e) : /\ e[a].instance = list[p[k]].id /\ e[a].frames # 0
                                   /\ e[a].at >= cutoff /\ list[p[k]].lastSyncAt = e[a].at
        BY <1>6, <4>1 DEF Backed
      <4>3. a \in 1..n /\ more[a] = e[a] /\ t[k] = list[p[k]]
        BY <1>5, <1>6, <4>1, <4>2
      <4> QED
        BY <4>2, <4>3
    <3> QED
      BY <3>1, <3>2
  <2> QED
    BY <1>5, <2>1 DEF Backed
<1>10. Covers(t, more, cutoff)
  <2>1. ASSUME NEW a \in 1..n, more[a].frames # 0, more[a].at >= cutoff
        PROVE  \E k \in 1..(R + 1) : t[k].id = more[a].instance /\ t[k].lastSyncAt >= more[a].at
    <3>1. CASE more[a].instance = b.instance
      <4>1. more[a].at <= b.at
        <5>1. CASE a = n
          <6>1. b.at \in Nat
            BY DEF Arrival
          <6> QED
            BY <1>5, <5>1, <6>1
        <5>2. CASE a # n
          <6>1. a \in 1..Len(e)
            BY <1>5, <5>2
          <6> QED
            BY <1>5, <6>1
        <5> QED
          BY <5>1, <5>2
      <4>2. more[a].at \in Nat /\ b.at \in Nat
        <5>1. \A c \in 1..Len(e) : e[c].at \in Nat
          <6>1. \A c \in 1..Len(e) : e[c] \in Arrival
            OBVIOUS
          <6> QED
            BY <6>1 DEF Arrival
        <5>2. b.at \in Nat
          BY DEF Arrival
        <5>3. a = n \/ a \in 1..Len(e)
          BY <1>5
        <5> QED
          BY <1>5, <5>1, <5>2, <5>3
      <4>3. R + 1 \in 1..(R + 1) /\ t[R + 1].id = more[a].instance /\ t[R + 1].lastSyncAt >= more[a].at
        BY <1>5, <3>1, <4>1, <4>2
      <4> QED
        BY <4>3
    <3>2. CASE more[a].instance # b.instance
      <4>1. a \in 1..Len(e) /\ more[a] = e[a]
        BY <1>5, <3>2
      <4>2. PICK k \in 1..Len(list) : list[k].id = e[a].instance /\ list[k].lastSyncAt >= e[a].at
        BY <2>1, <4>1 DEF Covers
      <4>3. PICK j \in 1..R : rest[j] = list[k]
        BY <1>3, <3>2, <4>1, <4>2 DEF R, IsRest
      <4>4. j \in 1..(R + 1) /\ t[j] = list[k]
        BY <1>5, <4>3
      <4> QED
        BY <4>1, <4>2, <4>4
    <3> QED
      BY <3>1, <3>2
  <2> QED
    BY <1>5, <2>1 DEF Covers
<1> QED
  BY <1>2, <1>8, <1>9, <1>10 DEF t, more

\* The walk of the prune drops the stale entries, which all come first.
LEMMA FreshIs ==
    ASSUME NEW list \in Seq(Entry), InOrder(list), now \in Nat
    PROVE  /\ Fresh(list) \in Seq(Entry)
           /\ \E d \in 0..Len(list) :
                 /\ Len(Fresh(list)) = Len(list) - d
                 /\ \A k \in 1..(Len(list) - d) : Fresh(list)[k] = list[k + d]
                 /\ \A k \in 1..Len(list) : list[k].lastSyncAt < now - InstanceTtl <=> k <= d
<1> DEFINE L == Len(list)
           cutoff == now - InstanceTtl
           D == {k \in 1..L : list[k].lastSyncAt >= cutoff}
           first == SelectInSeq(list, LAMBDA x : x.lastSyncAt >= now - InstanceTtl)
<1>1. L \in Nat /\ cutoff \in Int /\ \A k \in 1..L : list[k] \in Entry
  BY LiveViewsAssumption
<1>2. \A k \in 1..L : list[k].lastSyncAt \in Nat
  BY <1>1 DEF Entry
<1>3. first = IF D # {} THEN Min(D) ELSE 0
  BY DEF SelectInSeq
<1>4. Fresh(list) = IF first = 0 THEN <<>> ELSE SubSeq(list, first, L)
  BY DEF Fresh
<1> HIDE DEF first, cutoff
<1>5. CASE D = {}
  <2>1. Fresh(list) = <<>>
    BY <1>3, <1>4, <1>5
  <2>2. \A k \in 1..L : ~(list[k].lastSyncAt >= cutoff)
    BY <1>5
  <2>3. \A k \in 1..L : list[k].lastSyncAt < cutoff <=> k <= L
    BY <1>1, <1>2, <2>2
  <2>4. L \in 0..L /\ L - L = 0 /\ 1..0 = {}
    BY <1>1
  <2>5. Fresh(list) \in Seq(Entry) /\ Len(Fresh(list)) = 0
    BY <2>1
  <2> HIDE DEF L
  <2>6. \E d \in 0..L :
                 /\ Len(Fresh(list)) = L - d
                 /\ \A k \in 1..(L - d) : Fresh(list)[k] = list[k + d]
                 /\ \A k \in 1..L : list[k].lastSyncAt < cutoff <=> k <= d
    BY <2>3, <2>4, <2>5
  <2> QED
    BY <2>5, <2>6 DEF L, cutoff
<1>6. CASE D # {}
  <2>1. Min(D) \in D /\ \A k \in D : Min(D) <= k
    <3>1. \E x \in D : \A y \in D : x <= y
      <4>1. D \in SUBSET Nat
        OBVIOUS
      <4> HIDE DEF D
      <4> QED
        BY <1>6, <4>1, Least
    <3> HIDE DEF D
    <3> QED
      BY <3>1 DEF Min
  <2>2. first = Min(D)
    BY <1>3, <1>6
  <2>3. /\ first \in 1..L /\ list[first].lastSyncAt >= cutoff
        /\ \A k \in 1..L : list[k].lastSyncAt >= cutoff => first <= k
    BY <2>1, <2>2
  <2> DEFINE d == first - 1
             rest == SubSeq(list, first, L)
  <2>4. Fresh(list) = rest
    BY <1>1, <1>4, <2>3
  <2>5. rest \in Seq(Entry) /\ Len(rest) = L - d /\ \A k \in 1..(L - d) : rest[k] = list[k + d]
    <3>1. /\ rest \in Seq(Entry) /\ Len(rest) = IF first <= L THEN L - first + 1 ELSE 0
          /\ \A k \in 1..(L - first + 1) : rest[k] = list[first + k - 1]
      <4> HIDE DEF L
      <4>1. first \in Int /\ L \in Int /\ \A k \in first..L : list[k] \in Entry
        BY <1>1, <2>3
      <4> QED
        BY <4>1, SubSeqProperties
    <3> HIDE DEF rest, L
    <3> QED
      BY <1>1, <2>3, <3>1
  <2>6. ASSUME NEW k \in 1..L PROVE list[k].lastSyncAt < cutoff <=> k <= d
    <3>1. CASE k < first
      BY <1>1, <1>2, <2>3, <3>1
    <3>2. CASE first <= k
      <4>1. list[first].lastSyncAt <= list[k].lastSyncAt
        BY <1>1, <1>2, <2>3, <3>2 DEF InOrder
      <4> QED
        BY <1>1, <1>2, <2>3, <3>2, <4>1
    <3> QED
      BY <2>3, <3>1, <3>2
  <2>7. d \in 0..L
    BY <1>1, <2>3
  <2> HIDE DEF d, rest, D, L
  <2>8. \E c \in 0..L :
                 /\ Len(Fresh(list)) = L - c
                 /\ \A k \in 1..(L - c) : Fresh(list)[k] = list[k + c]
                 /\ \A k \in 1..L : list[k].lastSyncAt < cutoff <=> k <= c
    BY <2>4, <2>5, <2>6, <2>7
  <2> QED
    BY <2>4, <2>5, <2>8 DEF L, cutoff
<1> QED
  BY <1>5, <1>6

\* What the prune leaves is the map for its later cutoff.
LEMMA FreshLive ==
    ASSUME NEW list \in Seq(Entry), NEW e \in Seq(Arrival), NEW old \in Int, old <= now - InstanceTtl,
           now \in Nat, InOrder(list), Backed(list, e, old), Covers(list, e, old)
    PROVE  /\ Fresh(list) \in Seq(Entry) /\ InOrder(Fresh(list))
           /\ Backed(Fresh(list), e, now - InstanceTtl) /\ Covers(Fresh(list), e, now - InstanceTtl)
<1> DEFINE L == Len(list)
           t == Fresh(list)
           cutoff == now - InstanceTtl
<1>1. t \in Seq(Entry)
  BY FreshIs
<1>2. PICK d \in 0..L : /\ Len(t) = L - d
                        /\ \A k \in 1..(L - d) : t[k] = list[k + d]
                        /\ \A k \in 1..L : list[k].lastSyncAt < cutoff <=> k <= d
  BY FreshIs
<1>3. L \in Nat /\ cutoff \in Int /\ old <= cutoff /\ \A k \in 1..L : list[k].lastSyncAt \in Nat
  <2>1. \A k \in 1..L : list[k] \in Entry
    OBVIOUS
  <2> QED
    BY <2>1, LiveViewsAssumption DEF Entry
<1>4. \A a \in 1..Len(e) : e[a].at \in Nat
  <2>1. \A a \in 1..Len(e) : e[a] \in Arrival
    OBVIOUS
  <2> QED
    BY <2>1 DEF Arrival
<1> HIDE DEF L, t, cutoff
<1>5. ASSUME NEW k \in 1..Len(t)
      PROVE  k + d \in 1..L /\ t[k] = list[k + d] /\ list[k + d].lastSyncAt >= cutoff
  <2>1. k + d \in 1..L /\ k \in 1..(L - d) /\ ~(k + d <= d)
    BY <1>2, <1>3
  <2> QED
    BY <1>2, <1>3, <2>1
<1>6. InOrder(t)
  <2>1. ASSUME NEW j \in 1..Len(t), NEW k \in 1..Len(t), j < k
        PROVE  t[j].lastSyncAt <= t[k].lastSyncAt /\ t[j].id # t[k].id
    <3>1. /\ j + d \in 1..L /\ t[j] = list[j + d]
          /\ k + d \in 1..L /\ t[k] = list[k + d]
      BY <1>5
    <3>2. j + d < k + d
      BY <1>2, <1>3, <2>1
    <3> QED
      BY <3>1, <3>2 DEF InOrder, L
  <2> QED
    BY <2>1 DEF InOrder
<1>7. Backed(t, e, cutoff)
  <2>1. ASSUME NEW k \in 1..Len(t)
        PROVE  \E a \in 1..Len(e) : /\ e[a].instance = t[k].id /\ e[a].frames # 0
                                    /\ e[a].at >= cutoff /\ t[k].lastSyncAt = e[a].at
    <3>1. k + d \in 1..L /\ t[k] = list[k + d] /\ list[k + d].lastSyncAt >= cutoff
      BY <1>5
    <3>2. PICK a \in 1..Len(e) : /\ e[a].instance = list[k + d].id /\ e[a].frames # 0
                                 /\ list[k + d].lastSyncAt = e[a].at
      BY <3>1 DEF Backed, L
    <3> QED
      BY <3>1, <3>2
  <2> QED
    BY <2>1 DEF Backed
<1>8. Covers(t, e, cutoff)
  <2>1. ASSUME NEW a \in 1..Len(e), e[a].frames # 0, e[a].at >= cutoff
        PROVE  \E k \in 1..Len(t) : t[k].id = e[a].instance /\ t[k].lastSyncAt >= e[a].at
    <3>1. e[a].at >= old
      BY <1>3, <1>4, <2>1
    <3>2. PICK k \in 1..L : list[k].id = e[a].instance /\ list[k].lastSyncAt >= e[a].at
      BY <2>1, <3>1 DEF Covers, L
    <3>3. ~(list[k].lastSyncAt < cutoff)
      BY <1>3, <1>4, <2>1, <3>2
    <3>4. k - d \in 1..Len(t) /\ k - d \in 1..(L - d) /\ (k - d) + d = k
      BY <1>2, <1>3, <3>2, <3>3
    <3>5. t[k - d] = list[k]
      BY <1>2, <3>4
    <3> QED
      BY <3>2, <3>4, <3>5
  <2> QED
    BY <2>1 DEF Covers
<1> QED
  BY <1>1, <1>6, <1>7, <1>8 DEF t, cutoff

\* A finite function has finitely many values.
LEMMA ValuesFinite ==
    ASSUME NEW f, IsFiniteSet(DOMAIN f)
    PROVE  IsFiniteSet({f[x] : x \in DOMAIN f})
<1> DEFINE D == DOMAIN f
           T == {f[x] : x \in D}
           g == [x \in D |-> f[x]]
<1>1. g \in Surjection(D, T)
  BY DEF Surjection
<1> HIDE DEF T, g
<1>2. IsFiniteSet(T)
  BY <1>1, FS_Surjection
<1> QED
  BY <1>2 DEF T

\* The furthest frame end of an instance is a time.
LEMMA DataThroughIs ==
    ASSUME NEW i \in Instances, NEW frames \in Seq(Frame), frames # <<>>, instances \in Seq(Entry)
    PROVE  DataThrough(i, frames) \in Int
<1> DEFINE F == 1..Len(frames)
           K == {j \in 1..Len(instances) : instances[j].id = i}
           S == {frames[f].to : f \in F}
           T == {instances[k].dataThrough : k \in K}
<1>1. IsFiniteSet(F) /\ IsFiniteSet(K)
  <2>1. IsFiniteSet(1..Len(frames)) /\ IsFiniteSet(1..Len(instances))
    BY FS_Interval
  <2>2. K \subseteq 1..Len(instances)
    OBVIOUS
  <2> HIDE DEF K
  <2> QED
    BY <2>1, <2>2, FS_Subset
<1>2. \A f \in F : frames[f].to \in Int
  <2>1. \A f \in F : frames[f] \in Frame
    OBVIOUS
  <2> QED
    BY <2>1 DEF Frame
<1>3. \A k \in K : instances[k].dataThrough \in Int
  <2>1. \A k \in K : instances[k] \in Entry
    OBVIOUS
  <2> QED
    BY <2>1 DEF Entry
<1>4. 1 \in F
  OBVIOUS
<1> HIDE DEF F, K
<1>5. IsFiniteSet(S) /\ IsFiniteSet(T)
  <2> DEFINE f == [k \in F |-> frames[k].to]
             g == [k \in K |-> instances[k].dataThrough]
  <2>1. DOMAIN f = F /\ DOMAIN g = K /\ S = {f[k] : k \in DOMAIN f} /\ T = {g[k] : k \in DOMAIN g}
    OBVIOUS
  <2> HIDE DEF f, g, S, T
  <2> QED
    BY <1>1, <2>1, ValuesFinite
<1>6. S \cup T \in SUBSET Int /\ S \cup T # {}
  BY <1>2, <1>3, <1>4
<1>7. IsFiniteSet(S \cup T)
  <2> HIDE DEF S, T
  <2> QED
    BY <1>5, FS_Union
<1>8. LargestOf(S \cup T) \in S \cup T
  <2> HIDE DEF S, T
  <2> QED
    BY <1>6, <1>7, LargestIs
<1>9. DataThrough(i, frames) = LargestOf(S \cup T)
  BY DEF DataThrough, F, K
<1> QED
  BY <1>6, <1>8, <1>9

\* The map after an envelope.
LEMMA InstancesStep ==
    ASSUME NEW i \in Instances, NEW frames \in Seq(Frame), NEW e \in Seq(Arrival),
           instances \in Seq(Entry), now \in Nat, NEW b,
           b = [instance |-> i, at |-> now, frames |-> Len(frames)],
           \A a \in 1..Len(e) : e[a].at <= now,
           NEW old \in Int, old <= now - InstanceTtl,
           InOrder(instances), Backed(instances, e, old), Covers(instances, e, old)
    PROVE  /\ InstancesAfter(i, frames) \in Seq(Entry) /\ InOrder(InstancesAfter(i, frames))
           /\ Backed(InstancesAfter(i, frames), Append(e, b), now - InstanceTtl)
           /\ Covers(InstancesAfter(i, frames), Append(e, b), now - InstanceTtl)
<1>1. b \in Arrival /\ b.instance = i /\ b.at = now /\ b.frames = Len(frames)
  BY DEF Arrival
<1>2. Append(e, b) \in Seq(Arrival)
  BY <1>1
<1> DEFINE more == Append(e, b)
<1>3. /\ Len(e) \in Nat /\ Len(more) = Len(e) + 1 /\ more[Len(e) + 1] = b
      /\ \A a \in 1..Len(e) : more[a] = e[a] /\ a \in 1..Len(more)
  BY <1>1
<1>4. old <= now
  BY LiveViewsAssumption
<1>5. CASE frames = <<>>
  <2>1. InstancesAfter(i, frames) = Fresh(instances)
    BY <1>5 DEF InstancesAfter
  <2>2. b.frames = 0
    BY <1>1, <1>5
  <2> HIDE DEF more
  <2>3. Backed(instances, more, old)
    <3>1. ASSUME NEW k \in 1..Len(instances)
          PROVE  \E a \in 1..Len(more) : /\ more[a].instance = instances[k].id /\ more[a].frames # 0
                                         /\ more[a].at >= old /\ instances[k].lastSyncAt = more[a].at
      <4>1. PICK a \in 1..Len(e) : /\ e[a].instance = instances[k].id /\ e[a].frames # 0
                                   /\ e[a].at >= old /\ instances[k].lastSyncAt = e[a].at
        BY DEF Backed
      <4>2. more[a] = e[a] /\ a \in 1..Len(more)
        BY <1>3, <4>1
      <4> QED
        BY <4>1, <4>2
    <3> QED
      BY <3>1 DEF Backed
  <2>4. Covers(instances, more, old)
    <3>1. ASSUME NEW a \in 1..Len(more), more[a].frames # 0, more[a].at >= old
          PROVE  \E k \in 1..Len(instances) :
                     instances[k].id = more[a].instance /\ instances[k].lastSyncAt >= more[a].at
      <4>1. a \in 1..Len(e) /\ more[a] = e[a]
        BY <1>3, <2>2, <3>1
      <4> QED
        BY <3>1, <4>1 DEF Covers
    <3> QED
      BY <3>1 DEF Covers
  <2> QED
    BY <1>2, <2>1, <2>3, <2>4, FreshLive DEF more
<1>6. CASE frames # <<>>
  <2> DEFINE entry == [id |-> i, role |-> RoleOf[i], dataThrough |-> DataThrough(i, frames),
                       lastSyncAt |-> now]
             t == Touch(instances, entry)
  <2>1. InstancesAfter(i, frames) = Fresh(t)
    BY <1>6 DEF InstancesAfter
  <2>2. entry \in Entry /\ entry.id = b.instance /\ entry.lastSyncAt = b.at
    BY <1>1, <1>6, DataThroughIs, LiveViewsAssumption DEF Entry
  <2>3. b.frames # 0
    BY <1>1, <1>6
  <2> HIDE DEF entry, more
  <2>4. /\ t \in Seq(Entry) /\ InOrder(t)
        /\ Backed(t, Append(e, b), old) /\ Covers(t, Append(e, b), old)
    <3>1. b.at >= old /\ \A a \in 1..Len(e) : e[a].at <= b.at
      BY <1>1, <1>4
    <3> QED
      BY <1>1, <2>2, <2>3, <3>1, TouchLive
  <2> HIDE DEF t
  <2> QED
    BY <1>2, <2>1, <2>4, FreshLive
<1> QED
  BY <1>5, <1>6

\* The last envelopes of the instances are entries by position.
LEMMA LastSyncsListing ==
    ASSUME NEW e \in Seq(Arrival)
    PROVE  IsListing(LastSyncs(e))
<1> DEFINE last == {a \in DOMAIN e : \A b \in DOMAIN e : b > a => e[b].instance # e[a].instance}
<1>1. DOMAIN LastSyncs(e) = last
  BY DEF LastSyncs
<1>2. last \subseteq 1..Len(e) /\ Len(e) \in Nat
  OBVIOUS
<1>3. IsFiniteSet(1..Len(e))
  BY FS_Interval
<1> HIDE DEF last
<1>4. IsFiniteSet(last)
  BY <1>2, <1>3, FS_Subset
<1> QED
  BY <1>1, <1>2, <1>4 DEF IsListing

\* A bounded list holds the newest entries.
LEMMA BoundedHolds ==
    ASSUME NEW V, NEW list \in Seq(V), NEW e, IsListing(e), NEW max \in Nat, Bounded(list, e, max)
    PROVE  HoldsNewest(list, e, max)
<1>1. PICK p : IsTail(list, p, e)
  BY DEF Bounded
<1>2. Len(list) = IF Cardinality(DOMAIN e) <= max THEN Cardinality(DOMAIN e) ELSE max
  BY DEF Bounded
<1> QED
  BY <1>1, <1>2, TailHolds

\* The empty list shows no entries.
LEMMA EmptyBounded ==
    ASSUME NEW e, DOMAIN e = {}, NEW max \in Nat
    PROVE  Bounded(<<>>, e, max)
<1> DEFINE p == [k \in {} |-> k]
<1>1. Cardinality({}) = 0
  BY FS_EmptySet
<1>2. Len(<<>>) = 0 /\ 1..0 = {}
  OBVIOUS
<1>3. IsTail(<<>>, p, e)
  BY <1>2 DEF IsTail
<1> QED
  BY <1>1, <1>2, <1>3 DEF Bounded

-----------------------------------------------------------------------------
(* The invariant. *)

ViewsTypeOK ==
    /\ now \in Nat /\ DOMAIN windows \subseteq Int
    /\ instances \in Seq(Entry) /\ clients \in Seq(ClientLines) /\ logs \in Seq(LogLines)
    /\ catalog.persistLogs \subseteq PersistNames
    /\ delivered \in [Instances -> Nat]
    /\ accepted \in Seq(Item) /\ arrivals \in Seq(Arrival)
    /\ \A a \in 1..Len(arrivals) : arrivals[a].at <= now
    /\ forgotten \in [PersistNames -> 0..Len(accepted)]

\* The views as an ingest finds them.
Views == [windows |-> windows, rollups |-> rollups, ring |-> ring, logs |-> logs,
          inspected |-> inspected]

\* Everything shown comes from the record.  A window also accounts for what it refused, and the
\* lists of logs and clients are the last entries by a witness, which HoldsNewest is not.
ViewsInv ==
    /\ ViewsTypeOK
    /\ arrivals = <<>> => accepted = <<>> /\ windows = NoEntries /\ instances = <<>>
    /\ arrivals # <<>> =>
          DOMAIN windows = {m \in {MinuteOf(accepted[k]) : k \in 1..Len(accepted)} :
                                m >= arrivals[Len(arrivals)].at - Retention}
    /\ \A m \in DOMAIN windows : WindowOK(windows[m], Within(m, accepted))
    /\ LogsMatch(rollups, Since(accepted, forgotten))
    /\ RingShows(Views)
    /\ Bounded(logs, LogRows(accepted), MaxLogs)
    /\ Bounded(clients, LastSyncs(arrivals), MaxClients)
    /\ InstancesAreLive

\* The last envelope came no later than now.
LEMMA LastArrivalAt ==
    ASSUME ViewsTypeOK, arrivals # <<>>
    PROVE  arrivals[Len(arrivals)].at \in Nat /\ arrivals[Len(arrivals)].at <= now
<1>1. Len(arrivals) \in 1..Len(arrivals)
  BY DEF ViewsTypeOK
<1>2. arrivals[Len(arrivals)] \in Arrival
  BY <1>1 DEF ViewsTypeOK
<1> QED
  BY <1>1, <1>2 DEF ViewsTypeOK, Arrival

\* What an ingest may rely on: the windows no prune of it will drop are exact.
LEMMA ViewsBefore ==
    ASSUME ViewsInv
    PROVE  ViewsShow(Views, accepted, forgotten, now - Retention)
<1> DEFINE cutoff == now - Retention
<1>1. /\ Views.windows = windows /\ Views.rollups = rollups /\ Views.ring = ring
      /\ Views.logs = logs /\ Views.inspected = inspected
  BY DEF Views
<1>2. now \in Nat /\ Retention \in Nat /\ cutoff \in Int
  BY LiveViewsAssumption DEF ViewsInv, ViewsTypeOK
<1>3. ASSUME NEW m \in Int, m >= cutoff
      PROVE  m \in DOMAIN windows <=> \E k \in 1..Len(accepted) : MinuteOf(accepted[k]) = m
  <2>1. CASE arrivals = <<>>
    <3>1. DOMAIN windows = {} /\ accepted = <<>>
      BY <2>1 DEF ViewsInv, NoEntries
    <3>2. Len(accepted) = 0 /\ 1..0 = {}
      BY <3>1
    <3> QED
      BY <3>1, <3>2
  <2>2. CASE arrivals # <<>>
    <3> DEFINE last == arrivals[Len(arrivals)].at
    <3>1. last \in Nat /\ last <= now
      BY <2>2, LastArrivalAt DEF ViewsInv
    <3>2. DOMAIN windows = {j \in {MinuteOf(accepted[k]) : k \in 1..Len(accepted)} : j >= last - Retention}
      BY <2>2 DEF ViewsInv
    <3> HIDE DEF last
    <3>3. m >= last - Retention
      BY <1>2, <1>3, <3>1
    <3> QED
      BY <3>2, <3>3
  <2> QED
    BY <2>1, <2>2
<1>4. WindowsShow(windows, accepted, cutoff)
  BY <1>3 DEF WindowsShow, ViewsInv
<1> QED
  BY <1>1, <1>4 DEF ViewsShow, ViewsInv, ViewsTypeOK

\* What a project shows at the start of a process, whatever it had stored.
ViewsEmptied ==
    /\ windows = NoEntries /\ instances = <<>> /\ rollups = NoEntries /\ clients = <<>>
    /\ ring = EmptyRing /\ logs = <<>> /\ accepted = <<>> /\ arrivals = <<>> /\ inspected = <<>>
    /\ forgotten = [n \in PersistNames |-> 0]
    /\ now \in Nat /\ catalog.persistLogs \subseteq PersistNames /\ delivered \in [Instances -> Nat]

\* Nothing shown is right of nothing accepted.
LEMMA ViewsEmpty == ViewsEmptied => ViewsInv
<1> SUFFICES ASSUME ViewsEmptied PROVE ViewsInv
  OBVIOUS
<1> USE DEF ViewsEmptied
<1>1. /\ DOMAIN windows = {} /\ DOMAIN rollups = {} /\ DOMAIN accepted = {} /\ DOMAIN arrivals = {}
      /\ Len(accepted) = 0 /\ Len(arrivals) = 0 /\ Len(instances) = 0 /\ Len(inspected) = 0
      /\ \A k : k \notin 1..0
  BY DEF NoEntries
<1>2. ViewsTypeOK
  BY <1>1 DEF ViewsTypeOK
<1>3. LogsMatch(rollups, Since(accepted, forgotten))
  <2>1. DOMAIN Since(accepted, forgotten) = {}
    BY <1>1 DEF Since, Persisted, Restrict
  <2> QED
    BY <1>1, <2>1, NothingMatches
<1>4. RingShows(Views)
  BY <1>1, RingEmpty DEF RingShows, Views
<1>5. Bounded(logs, LogRows(accepted), MaxLogs)
  <2>1. DOMAIN LogRows(accepted) = {}
    BY <1>1 DEF LogRows, OfKinds, Restrict
  <2> QED
    BY <2>1, EmptyBounded, LiveViewsAssumption
<1>6. Bounded(clients, LastSyncs(arrivals), MaxClients)
  <2>1. DOMAIN LastSyncs(arrivals) = {}
    BY <1>1 DEF LastSyncs
  <2> QED
    BY <2>1, EmptyBounded, LiveViewsAssumption
<1>7. InstancesAreLive
  BY <1>1 DEF InstancesAreLive
<1> QED
  BY <1>1, <1>2, <1>3, <1>4, <1>5, <1>6, <1>7 DEF ViewsInv

\* The first process starts from nothing: FrameAggregator, RecentClients, RecentEvents and
\* RecentLogs are constructed empty, and what they show is right.
THEOREM ViewsInitInv == ViewsInit => ViewsInv
<1>1. ASSUME ViewsInit PROVE ViewsInv
  <2>1. delivered \in [Instances -> Nat] /\ catalog.persistLogs \subseteq PersistNames /\ now \in Nat
    BY <1>1 DEF ViewsInit
  <2> QED
    BY <1>1, <2>1, ViewsEmpty DEF ViewsInit, ViewsEmptied
<1> QED
  BY <1>1

\* What an ingest writes, from its items and the views it leaves.
SyncWrites(i, frames, items, v) ==
    /\ frames \in Seq(Frame)
    /\ items \in Seq(Item) /\ \A k \in 1..Len(items) : items[k].instance = i
    /\ ViewsShow(v, accepted \o items, forgotten, now - Retention)
    /\ windows' = [m \in {k \in DOMAIN v.windows : k >= now - Retention} |-> v.windows[m]]
    /\ instances' = InstancesAfter(i, frames)
    /\ rollups' = v.rollups /\ ring' = v.ring /\ inspected' = v.inspected /\ logs' = v.logs
    /\ clients' = Newest(Touch(clients, [id |-> i, role |-> RoleOf[i], lastSeen |-> now]),
                         MaxClients)
    /\ delivered' \in [Instances -> Nat]
    /\ accepted' = accepted \o items
    /\ arrivals' = Append(arrivals, [instance |-> i, at |-> now, frames |-> Len(frames)])
    /\ UNCHANGED <<now, catalog, forgotten>>

\* commitIngest writes that.
LEMMA SyncWritten ==
    ASSUME ViewsInv, NEW i \in Instances, NEW batch \in Batches(i), Sync(i, batch)
    PROVE  LET frames == Shifted(batch)
               items == Items(i, frames)
           IN  SyncWrites(i, frames, items, Ingested(Views, items))
<1>1. /\ now \in Nat /\ delivered \in [Instances -> Nat] /\ accepted \in Seq(Item)
      /\ catalog.persistLogs \subseteq PersistNames /\ forgotten \in [PersistNames -> 0..Len(accepted)]
  BY DEF ViewsInv, ViewsTypeOK
<1> DEFINE frames == Shifted(batch)
           items == Items(i, frames)
           v == Ingested(Views, items)
<1>2. /\ frames \in Seq(Frame) /\ Len(frames) = Len(batch)
      /\ batch # <<>> => batch[Len(batch)].end \in Nat
  BY <1>1, ShiftedTyped
<1>3. items \in Seq(Item) /\ \A k \in 1..Len(items) : items[k].instance = i
  BY <1>1, <1>2, ItemsTyped
<1>4. ViewsShow(Views, accepted, forgotten, now - Retention)
  BY ViewsBefore
<1>5. ViewsShow(v, accepted \o items, forgotten, now - Retention)
  BY <1>1, <1>3, <1>4, ViewsIngested
<1>6. /\ windows' = [m \in {k \in DOMAIN v.windows : k >= now - Retention} |-> v.windows[m]]
      /\ instances' = InstancesAfter(i, frames)
      /\ rollups' = v.rollups /\ ring' = v.ring /\ inspected' = v.inspected /\ logs' = v.logs
      /\ clients' = Newest(Touch(clients, [id |-> i, role |-> RoleOf[i], lastSeen |-> now]),
                           MaxClients)
      /\ delivered' = IF batch = <<>> THEN delivered
                      ELSE [delivered EXCEPT ![i] = batch[Len(batch)].end]
      /\ accepted' = accepted \o items
      /\ arrivals' = Append(arrivals, [instance |-> i, at |-> now, frames |-> Len(batch)])
      /\ UNCHANGED <<now, catalog, forgotten>>
  BY DEF Sync, Views
<1> HIDE DEF frames, items, v
<1>7. delivered' \in [Instances -> Nat]
  BY <1>1, <1>2, <1>6
<1>8. SyncWrites(i, frames, items, v)
  BY <1>2, <1>3, <1>5, <1>6, <1>7 DEF SyncWrites
<1> QED
  BY <1>8 DEF frames, items, v

\* commitIngest keeps the invariant, whatever the envelope holds and however late it is.
LEMMA SyncStep ==
    ASSUME ViewsInv, NEW i \in Instances, NEW batch \in Batches(i), Sync(i, batch)
    PROVE  ViewsInv'
<1> DEFINE frames == Shifted(batch)
           items == Items(i, frames)
           v == Ingested(Views, items)
           b == [instance |-> i, at |-> now, frames |-> Len(frames)]
           cutoff == now - Retention
<1>1. /\ frames \in Seq(Frame)
      /\ items \in Seq(Item)
      /\ ViewsShow(v, accepted \o items, forgotten, now - Retention)
      /\ windows' = [m \in {k \in DOMAIN v.windows : k >= now - Retention} |-> v.windows[m]]
      /\ instances' = InstancesAfter(i, frames)
      /\ rollups' = v.rollups /\ ring' = v.ring /\ inspected' = v.inspected /\ logs' = v.logs
      /\ clients' = Newest(Touch(clients, [id |-> i, role |-> RoleOf[i], lastSeen |-> now]),
                           MaxClients)
      /\ delivered' \in [Instances -> Nat]
      /\ accepted' = accepted \o items
      /\ arrivals' = Append(arrivals, b)
      /\ UNCHANGED <<now, catalog, forgotten>>
  <2>1. SyncWrites(i, frames, items, v)
    BY SyncWritten
  <2> HIDE DEF frames, items, v
  <2> QED
    BY <2>1 DEF SyncWrites
<1> HIDE DEF frames, items, v
<1>2. ViewsTypeOK
  BY DEF ViewsInv
<1>3. now \in Nat /\ Retention \in Nat /\ cutoff \in Int /\ Minute \in Nat \ {0}
  BY <1>2, LiveViewsAssumption DEF ViewsTypeOK
<1>4. b \in Arrival /\ Len(frames) \in Nat /\ b.at = now
  BY <1>1, <1>3 DEF Arrival
<1> HIDE DEF cutoff
<1>5. /\ arrivals \in Seq(Arrival) /\ arrivals' \in Seq(Arrival) /\ Len(arrivals) \in Nat
      /\ Len(arrivals') = Len(arrivals) + 1 /\ arrivals'[Len(arrivals')] = b /\ arrivals' # <<>>
      /\ \A a \in 1..Len(arrivals) : arrivals'[a] = arrivals[a]
  <2> DEFINE e == Append(arrivals, b)
  <2> HIDE DEF b
  <2>1. arrivals \in Seq(Arrival)
    BY <1>2 DEF ViewsTypeOK
  <2>2. /\ Len(arrivals) \in Nat /\ e \in Seq(Arrival) /\ Len(e) = Len(arrivals) + 1 /\ e[Len(e)] = b
        /\ e # <<>> /\ \A a \in 1..Len(arrivals) : e[a] = arrivals[a]
    BY <1>4, <2>1
  <2>3. arrivals' = e
    BY <1>1 DEF b
  <2> HIDE DEF e
  <2> QED
    BY <2>1, <2>2, <2>3
<1>6. /\ accepted' \in Seq(Item) /\ Len(accepted') \in Nat /\ Len(accepted) \in Nat
      /\ Len(accepted') >= Len(accepted)
  <2>1. accepted \in Seq(Item)
    BY <1>2 DEF ViewsTypeOK
  <2>2. accepted' \in Seq(Item) /\ Len(accepted') = Len(accepted) + Len(items)
    BY <1>1, <2>1, ConcatProperties
  <2>3. Len(accepted) \in Nat /\ Len(items) \in Nat
    BY <1>1, <2>1
  <2> QED
    BY <2>2, <2>3
<1>7. ViewsShow(v, accepted', forgotten, cutoff)
  BY <1>1 DEF cutoff
<1>8. /\ DOMAIN v.windows \subseteq Int /\ WindowsShow(v.windows, accepted', cutoff)
      /\ LogsMatch(v.rollups, Since(accepted', forgotten))
      /\ v.logs \in Seq(LogLines) /\ Bounded(v.logs, LogRows(accepted'), MaxLogs)
      /\ RingShows(v)
  BY <1>7 DEF ViewsShow
<1>9. /\ DOMAIN windows' = {k \in DOMAIN v.windows : k >= cutoff}
      /\ \A m \in DOMAIN windows' : windows'[m] = v.windows[m] /\ m \in Int /\ m >= cutoff
  BY <1>1, <1>8 DEF cutoff
<1>10. /\ instances' \in Seq(Entry) /\ InOrder(instances')
       /\ Backed(instances', arrivals', now - InstanceTtl)
       /\ Covers(instances', arrivals', now - InstanceTtl)
  <2> DEFINE old == IF arrivals = <<>> THEN now - InstanceTtl
                    ELSE arrivals[Len(arrivals)].at - InstanceTtl
  <2>1. InstanceTtl \in Nat
    BY LiveViewsAssumption
  <2>2. old \in Int /\ old <= now - InstanceTtl
    BY <1>2, <1>3, <2>1, LastArrivalAt
  <2>3. InOrder(instances) /\ Backed(instances, arrivals, old) /\ Covers(instances, arrivals, old)
    <3>1. CASE arrivals = <<>>
      <4>1. Len(instances) = 0 /\ Len(arrivals) = 0 /\ \A k : k \notin 1..0
        BY <3>1 DEF ViewsInv
      <4> HIDE DEF old
      <4> QED
        BY <4>1 DEF InOrder, Backed, Covers
    <3>2. CASE arrivals # <<>>
      <4>1. old = arrivals[Len(arrivals)].at - InstanceTtl
        BY <3>2
      <4>2. InstancesAreLive
        BY DEF ViewsInv
      <4> HIDE DEF old
      <4> QED
        BY <4>1, <4>2 DEF InstancesAreLive, InOrder, Backed, Covers
    <3> QED
      BY <3>1, <3>2
  <2>4. instances \in Seq(Entry) /\ \A a \in 1..Len(arrivals) : arrivals[a].at <= now
    BY <1>2 DEF ViewsTypeOK
  <2> HIDE DEF old, b
  <2>5. b = [instance |-> i, at |-> now, frames |-> Len(frames)]
    BY DEF b
  <2>6. /\ InstancesAfter(i, frames) \in Seq(Entry) /\ InOrder(InstancesAfter(i, frames))
        /\ Backed(InstancesAfter(i, frames), Append(arrivals, b), now - InstanceTtl)
        /\ Covers(InstancesAfter(i, frames), Append(arrivals, b), now - InstanceTtl)
    BY <1>1, <1>3, <1>5, <2>2, <2>3, <2>4, <2>5, InstancesStep
  <2> QED
    BY <1>1, <2>6
<1>11. clients' \in Seq(ClientLines) /\ Bounded(clients', LastSyncs(arrivals'), MaxClients)
  <2>1. clients \in Seq(ClientLines) /\ Bounded(clients, LastSyncs(arrivals), MaxClients)
    BY <1>2 DEF ViewsInv, ViewsTypeOK
  <2>2. clients' = Newest(Touch(clients, ClientRow(b)), MaxClients)
    BY <1>1 DEF ClientRow
  <2> HIDE DEF b
  <2> QED
    BY <1>1, <1>4, <1>5, <2>1, <2>2, ClientsAfter
<1>12. ViewsTypeOK'
  <2>1. \A a \in 1..Len(arrivals') : arrivals'[a].at <= now
    <3>1. ASSUME NEW a \in 1..Len(arrivals') PROVE arrivals'[a].at <= now
      <4>1. CASE a = Len(arrivals')
        BY <1>3, <1>4, <1>5, <4>1
      <4>2. CASE a # Len(arrivals')
        <5>1. a \in 1..Len(arrivals)
          BY <1>5, <4>2
        <5> QED
          BY <1>2, <1>5, <5>1 DEF ViewsTypeOK
      <4> QED
        BY <4>1, <4>2
    <3> QED
      BY <3>1
  <2>2. forgotten' \in [PersistNames -> 0..Len(accepted')]
    <3>1. forgotten \in [PersistNames -> 0..Len(accepted)] /\ forgotten' = forgotten
      BY <1>1, <1>2 DEF ViewsTypeOK
    <3>2. 0..Len(accepted) \subseteq 0..Len(accepted')
      BY <1>6
    <3> QED
      BY <3>1, <3>2
  <2>3. catalog' = catalog /\ catalog.persistLogs \subseteq PersistNames /\ now' = now
    BY <1>1, <1>2 DEF ViewsTypeOK
  <2>4. logs' \in Seq(LogLines) /\ delivered' \in [Instances -> Nat]
    BY <1>1, <1>8
  <2>5. DOMAIN windows' \subseteq Int
    BY <1>9
  <2> QED
    BY <1>3, <1>5, <1>6, <1>10, <1>11, <2>1, <2>2, <2>3, <2>4, <2>5 DEF ViewsTypeOK
<1>13. DOMAIN windows' = {m \in {MinuteOf(accepted'[k]) : k \in 1..Len(accepted')} :
                             m >= arrivals'[Len(arrivals')].at - Retention}
  <2>1. arrivals'[Len(arrivals')].at - Retention = cutoff
    BY <1>4, <1>5 DEF cutoff
  <2>2. ASSUME NEW k \in 1..Len(accepted') PROVE MinuteOf(accepted'[k]) \in Int
    <3>1. accepted'[k] \in Item
      BY <1>6
    <3>2. accepted'[k].from \in Int
      BY <3>1 DEF Item
    <3> QED
      BY <1>3, <3>2 DEF MinuteOf, MinuteFloor
  <2>3. \A m \in Int : m >= cutoff =>
           (m \in DOMAIN v.windows <=> \E k \in 1..Len(accepted') : MinuteOf(accepted'[k]) = m)
    BY <1>8 DEF WindowsShow
  <2> QED
    BY <1>8, <1>9, <2>1, <2>2, <2>3
<1>14. \A m \in DOMAIN windows' : WindowOK(windows'[m], Within(m, accepted'))
  BY <1>8, <1>9 DEF WindowsShow
<1>15. InstancesAreLive'
  <2>1. arrivals'[Len(arrivals')].at - InstanceTtl = now - InstanceTtl
    BY <1>4, <1>5
  <2> QED
    BY <1>10, <2>1 DEF InstancesAreLive, InOrder, Backed, Covers
<1>16. RingShows(Views)'
  <2>1. catalog' = catalog /\ ring' = v.ring /\ inspected' = v.inspected
    BY <1>1
  <2> QED
    BY <1>8, <2>1 DEF RingShows, Views
<1>17. LogsMatch(rollups', Since(accepted', forgotten')) /\ Bounded(logs', LogRows(accepted'), MaxLogs)
  BY <1>1, <1>8
<1> QED
  BY <1>5, <1>11, <1>12, <1>13, <1>14, <1>15, <1>16, <1>17 DEF ViewsInv

\* publish keeps the invariant, if the operation keeps the rollups right.
LEMMA PublishStep ==
    ASSUME ViewsInv, NEW new, Publish(new), new.persistLogs \subseteq PersistNames,
           UNCHANGED <<now, delivered, accepted, arrivals>>,
           forgotten' \in [PersistNames -> 0..Len(accepted)],
           LogsMatch(rollups', Since(accepted, forgotten'))
    PROVE  ViewsInv'
<1> DEFINE gone == catalog.inspectEvents \ new.inspectEvents
<1>1. /\ catalog' = new /\ ring' = (IF gone = {} THEN ring ELSE Forget(ring, gone))
      /\ inspected' = Without(inspected, gone)
      /\ UNCHANGED <<windows, instances, clients, logs>>
  BY DEF Publish
<1>2. /\ IsRing(ring) /\ RingRows(ring) = inspected /\ inspected \in Seq(EventLines)
      /\ \A k \in 1..Len(inspected) : inspected[k].name \in catalog.inspectEvents
  BY DEF ViewsInv, RingShows, Views
<1> HIDE DEF gone
<1>3. /\ IsRing(ring') /\ RingRows(ring') = inspected' /\ inspected' \in Seq(EventLines)
      /\ \A k \in 1..Len(inspected') : inspected'[k].name \in new.inspectEvents
  <2>1. CASE gone = {}
    <3>1. Without(inspected, gone) = inspected
      BY <1>2, <2>1, WithoutNone
    <3>2. ring' = ring /\ inspected' = inspected
      BY <1>1, <2>1, <3>1
    <3> QED
      BY <1>2, <2>1, <3>2 DEF gone
  <2>2. CASE gone # {}
    <3>1. /\ IsRing(Forget(ring, gone)) /\ RingRows(Forget(ring, gone)) = Without(inspected, gone)
          /\ Without(inspected, gone) \in Seq(EventLines)
          /\ \A i \in 1..Len(Without(inspected, gone)) :
                /\ Without(inspected, gone)[i].name \notin gone
                /\ \E j \in 1..Len(inspected) : Without(inspected, gone)[i] = inspected[j]
      BY <1>2, RingForget
    <3>2. ring' = Forget(ring, gone) /\ inspected' = Without(inspected, gone)
      BY <1>1, <2>2
    <3>3. \A k \in 1..Len(inspected') : inspected'[k].name \in new.inspectEvents
      BY <1>2, <3>1, <3>2 DEF gone
    <3> QED
      BY <3>1, <3>2, <3>3
  <2> QED
    BY <2>1, <2>2
<1>4. RingShows(Views)'
  BY <1>1, <1>3 DEF RingShows, Views
<1>5. ViewsTypeOK'
  BY <1>1 DEF ViewsInv, ViewsTypeOK
<1>6. InstancesAreLive'
  BY <1>1 DEF ViewsInv, InstancesAreLive
<1> QED
  BY <1>1, <1>4, <1>5, <1>6 DEF ViewsInv

\* The catalog operations on the persist list.
LEMMA PersistStep ==
    ASSUME ViewsInv, NEW name \in PersistNames,
           SetPersistLog(name) \/ DeletePersistLog(name) \/ RollbackPersistLog(name)
    PROVE  ViewsInv'
<1>1. /\ accepted \in Seq(Item) /\ forgotten \in [PersistNames -> 0..Len(accepted)]
      /\ catalog.persistLogs \subseteq PersistNames
      /\ LogsMatch(rollups, Since(accepted, forgotten))
  BY DEF ViewsInv, ViewsTypeOK
<1>2. CASE SetPersistLog(name)
  <2> DEFINE new == [catalog EXCEPT !.persistLogs = @ \cup {name}]
  <2>1. /\ Publish(new) /\ UNCHANGED <<now, delivered, accepted, arrivals>>
        /\ UNCHANGED <<rollups, forgotten>>
    BY <1>2 DEF SetPersistLog, Changes
  <2>2. new.persistLogs \subseteq PersistNames
    BY <1>1
  <2> HIDE DEF new
  <2> QED
    BY <1>1, <2>1, <2>2, PublishStep
<1>3. CASE RollbackPersistLog(name)
  <2> DEFINE new == [catalog EXCEPT !.persistLogs = @ \ {name}]
  <2>1. /\ Publish(new) /\ UNCHANGED <<now, delivered, accepted, arrivals>>
        /\ UNCHANGED <<rollups, forgotten>>
    BY <1>3 DEF RollbackPersistLog, Changes
  <2>2. new.persistLogs \subseteq PersistNames
    BY <1>1
  <2> HIDE DEF new
  <2> QED
    BY <1>1, <2>1, <2>2, PublishStep
<1>4. CASE DeletePersistLog(name)
  <2> DEFINE new == [catalog EXCEPT !.persistLogs = @ \ {name}]
  <2>1. /\ Publish(new) /\ UNCHANGED <<now, delivered, accepted, arrivals>>
        /\ rollups' = [k \in {key \in DOMAIN rollups : key[3] # name} |-> rollups[k]]
        /\ forgotten' = [forgotten EXCEPT ![name] = Len(accepted)]
    BY <1>4 DEF DeletePersistLog, Changes, ForgetRollup
  <2>2. new.persistLogs \subseteq PersistNames
    BY <1>1
  <2>3. LogsMatch(rollups', Since(accepted, forgotten'))
    BY <1>1, <2>1, RollupsForget
  <2>4. forgotten' \in [PersistNames -> 0..Len(accepted)]
    <3>1. Len(accepted) \in 0..Len(accepted)
      BY <1>1
    <3> QED
      BY <1>1, <2>1, <3>1
  <2> HIDE DEF new
  <2> QED
    BY <2>1, <2>2, <2>3, <2>4, PublishStep
<1> QED
  BY <1>2, <1>3, <1>4

\* The catalog operations on the inspection list.
LEMMA InspectStep ==
    ASSUME ViewsInv, NEW name \in InspectNames, SetInspectEvent(name) \/ DeleteInspectEvent(name)
    PROVE  ViewsInv'
<1>1. /\ forgotten \in [PersistNames -> 0..Len(accepted)] /\ catalog.persistLogs \subseteq PersistNames
      /\ LogsMatch(rollups, Since(accepted, forgotten))
  BY DEF ViewsInv, ViewsTypeOK
<1>2. PICK new : /\ Publish(new) /\ new.persistLogs = catalog.persistLogs
                 /\ UNCHANGED <<now, delivered, accepted, arrivals>> /\ UNCHANGED <<rollups, forgotten>>
  <2>1. CASE SetInspectEvent(name)
    <3> DEFINE n == [catalog EXCEPT !.inspectEvents = @ \cup {name}]
    <3>1. n.persistLogs = catalog.persistLogs
      OBVIOUS
    <3>2. /\ Publish(n) /\ UNCHANGED <<now, delivered, accepted, arrivals>>
          /\ UNCHANGED <<rollups, forgotten>>
      BY <2>1 DEF SetInspectEvent, Changes
    <3> HIDE DEF n
    <3> QED
      BY <3>1, <3>2
  <2>2. CASE DeleteInspectEvent(name)
    <3> DEFINE n == [catalog EXCEPT !.inspectEvents = @ \ {name}]
    <3>1. n.persistLogs = catalog.persistLogs
      OBVIOUS
    <3>2. /\ Publish(n) /\ UNCHANGED <<now, delivered, accepted, arrivals>>
          /\ UNCHANGED <<rollups, forgotten>>
      BY <2>2 DEF DeleteInspectEvent, Changes
    <3> HIDE DEF n
    <3> QED
      BY <3>1, <3>2
  <2> QED
    BY <2>1, <2>2
<1> QED
  BY <1>1, <1>2, PublishStep

\* Time alone changes nothing that is shown.
LEMMA TickStep ==
    ASSUME ViewsInv, Tick
    PROVE  ViewsInv'
<1>1. /\ now' = now + 1
      /\ UNCHANGED <<live, catalog, delivered, record>>
  BY DEF Tick
<1>2. ViewsTypeOK'
  <2>1. /\ now' \in Nat /\ \A a \in 1..Len(arrivals) : arrivals[a].at <= now'
    <3>1. now \in Nat /\ \A a \in 1..Len(arrivals) : arrivals[a] \in Arrival /\ arrivals[a].at <= now
      BY DEF ViewsInv, ViewsTypeOK
    <3> QED
      BY <1>1, <3>1 DEF Arrival
  <2> QED
    BY <1>1, <2>1 DEF ViewsInv, ViewsTypeOK, live, record
<1>3. RingShows(Views)' /\ InstancesAreLive'
  BY <1>1 DEF ViewsInv, RingShows, Views, InstancesAreLive, live, record
<1> QED
  BY <1>1, <1>2, <1>3 DEF ViewsInv, live, record

\* A new process starts from nothing again.
LEMMA RestartStep ==
    ASSUME ViewsInv, Restart
    PROVE  ViewsInv'
<1>1. now \in Nat /\ catalog.persistLogs \subseteq PersistNames /\ delivered \in [Instances -> Nat]
  BY DEF ViewsInv, ViewsTypeOK
<1>2. /\ windows' = NoEntries /\ instances' = <<>> /\ rollups' = NoEntries
      /\ clients' = <<>> /\ ring' = EmptyRing /\ logs' = <<>>
      /\ accepted' = <<>> /\ arrivals' = <<>> /\ inspected' = <<>>
      /\ forgotten' = [n \in PersistNames |-> 0]
      /\ now' = now /\ catalog' = catalog /\ delivered' = delivered
  BY DEF Restart
<1>3. (ViewsEmptied => ViewsInv)'
  BY ViewsEmpty, PTL
<1>4. ViewsEmptied'
  BY <1>1, <1>2 DEF ViewsEmptied
<1> QED
  BY <1>3, <1>4

\* Every step keeps the invariant.
LEMMA ViewsStep == ViewsInv /\ [ViewsNext]_viewVars => ViewsInv'
<1> SUFFICES ASSUME ViewsInv, [ViewsNext]_viewVars PROVE ViewsInv'
  OBVIOUS
<1>1. ASSUME NEW i \in Instances, NEW batch \in Batches(i), Sync(i, batch) PROVE ViewsInv'
  BY <1>1, SyncStep
<1>2. ASSUME NEW name \in PersistNames,
             SetPersistLog(name) \/ DeletePersistLog(name) \/ RollbackPersistLog(name)
      PROVE  ViewsInv'
  BY <1>2, PersistStep
<1>3. ASSUME NEW name \in InspectNames, SetInspectEvent(name) \/ DeleteInspectEvent(name)
      PROVE  ViewsInv'
  BY <1>3, InspectStep
<1>4. CASE Tick
  BY <1>4, TickStep
<1>5. CASE Restart
  BY <1>5, RestartStep
<1>6. CASE UNCHANGED viewVars
  <2>1. RingShows(Views)' /\ InstancesAreLive' /\ ViewsTypeOK'
    BY <1>6 DEF ViewsInv, ViewsTypeOK, RingShows, Views, InstancesAreLive, viewVars, live, record
  <2> QED
    BY <1>6, <2>1 DEF ViewsInv, viewVars, live, record
<1> QED
  BY <1>1, <1>2, <1>3, <1>4, <1>5, <1>6 DEF ViewsNext

\* The invariant of FrameAggregator and the rings holds in every state: commitIngest, publish,
\* the catalog operations and a restart keep it.
THEOREM ViewsInvariant == ViewsSpec => []ViewsInv
BY ViewsInitInv, ViewsStep, PTL DEF ViewsSpec

\* The views and their records keep their types: instances, clients, logs, minutes and clocks.
THEOREM ViewsTypeCorrect == ViewsSpec => []ViewsTypeOK
<1>1. ViewsInv => ViewsTypeOK
  BY DEF ViewsInv
<1> QED
  BY <1>1, ViewsInvariant, PTL

\* The minute windows of FrameAggregator are exact: every kept minute counts each item accepted
\* for it once, however late its frame came, up to the series it refused and counted as dropped.
THEOREM WindowsExact == ViewsSpec => []WindowsAreExact
<1>1. ViewsInv => WindowsAreExact
  BY DEF ViewsInv, WindowsAreExact, WindowOK
<1> QED
  BY <1>1, ViewsInvariant, PTL

\* The lifetime rollups (persistLogLifetime) count the persisted lines accepted since
\* forgetPersistLog last dropped their name, and show the latest of them.
THEOREM RollupsExact == ViewsSpec => []RollupsAreExact
<1>1. ViewsInv => RollupsAreExact
  BY DEF ViewsInv, RollupsAreExact, SinceForgotten, Since
<1> QED
  BY <1>1, ViewsInvariant, PTL

\* RecentClients, RecentEvents and RecentLogs hold their newest entries, through every wrap and
\* every forget of the ring, and the map that _prune walks is in the order of the last syncs.
THEOREM RingsAreNewest == ViewsSpec => []RingsHoldTheNewest
<1>1. ASSUME ViewsInv PROVE RingsHoldTheNewest
  <2>1. /\ RingRows(ring) = inspected
        /\ \A k \in 1..Len(inspected) : inspected[k].name \in catalog.inspectEvents
    BY <1>1 DEF ViewsInv, RingShows, Views
  <2>2. HoldsNewest(logs, LogRows(accepted), MaxLogs)
    <3>1. IsRecord(accepted)
      BY <1>1, ListIsRecord DEF ViewsInv, ViewsTypeOK
    <3>2. IsListing(LogRows(accepted))
      <4>1. /\ IsRecord(OfKinds(accepted, {"logs"}))
        BY <3>1, OfKindsFacts
      <4> QED
        BY <4>1 DEF LogRows, IsListing, IsRecord
    <3>3. logs \in Seq(LogLines) /\ Bounded(logs, LogRows(accepted), MaxLogs) /\ MaxLogs \in Nat
      BY <1>1, LiveViewsAssumption DEF ViewsInv, ViewsTypeOK
    <3> QED
      BY <3>2, <3>3, BoundedHolds
  <2>3. HoldsNewest(clients, LastSyncs(arrivals), MaxClients)
    <3>1. /\ clients \in Seq(ClientLines) /\ Bounded(clients, LastSyncs(arrivals), MaxClients)
          /\ arrivals \in Seq(Arrival) /\ MaxClients \in Nat
      BY <1>1, LiveViewsAssumption DEF ViewsInv, ViewsTypeOK
    <3>2. IsListing(LastSyncs(arrivals))
      BY <3>1, LastSyncsListing
    <3> QED
      BY <3>1, <3>2, BoundedHolds
  <2> QED
    BY <1>1, <2>1, <2>2, <2>3 DEF RingsHoldTheNewest, ViewsInv
<1>2. ViewsInv => RingsHoldTheNewest
  BY <1>1
<1> QED
  BY <1>2, ViewsInvariant, PTL

-----------------------------------------------------------------------------
(* What a complete role says of a minute. *)

\* The entries of a role, in a map that is keyed by role first.
OfRole(map, role) == [k \in {j \in DOMAIN map : j[1] = role} |-> map[k]]

\* An entry of another role changes none of them.
LEMMA PutBeside ==
    ASSUME NEW map, NEW key, NEW row, NEW role, key[1] # role
    PROVE  OfRole(Put(map, key, row), role) = OfRole(map, role)
<1>1. {j \in DOMAIN Put(map, key, row) : j[1] = role} = {j \in DOMAIN map : j[1] = role}
  BY DEF Put
<1>2. \A k \in {j \in DOMAIN map : j[1] = role} : Put(map, key, row)[k] = map[k]
  BY DEF Put
<1> QED
  BY <1>1, <1>2 DEF OfRole

\* An item of another role changes nothing a window says of a role,
LEMMA RoleViewKept ==
    ASSUME NEW w, NEW x, NEW role, RoleIn(x) # role
    PROVE  RoleView(AddToWindow(w, x), role) = RoleView(w, role)
<1> DEFINE u == AddToWindow(w, x)
           SeriesSide(map) == [s \in {j \in DOMAIN map : j.role = role} |-> map[s]]
<1>1. OfRole(u.roles, role) = OfRole(w.roles, role)
  <2> DEFINE key == <<RoleIn(x), x.row.kind>>
  <2>1. u.roles = w.roles \/ u.roles = Put(w.roles, key, At(w.roles, key, 0) + 1)
    BY DEF AddToWindow, AddCount, Bump
  <2>2. key[1] # role
    OBVIOUS
  <2> HIDE DEF key, u
  <2> QED
    BY <2>1, <2>2, PutBeside
<1>2. OfRole(u.eventNames, role) = OfRole(w.eventNames, role)
  <2> DEFINE key == <<RoleIn(x), x.row.name>>
  <2>1. u.eventNames = w.eventNames \/ u.eventNames = Put(w.eventNames, key, At(w.eventNames, key, 0) + 1)
    BY DEF AddToWindow, AddEvent, Bump
  <2>2. key[1] # role
    OBVIOUS
  <2> HIDE DEF key, u
  <2> QED
    BY <2>1, <2>2, PutBeside
<1>3. OfRole(u.logNames, role) = OfRole(w.logNames, role)
  <2> DEFINE key == LogKey(x)
  <2>1. u.logNames = w.logNames \/ \E row : u.logNames = Put(w.logNames, key, row)
    BY DEF AddToWindow, AddPersistLog
  <2>2. key[1] # role
    BY DEF LogKey
  <2> HIDE DEF key, u
  <2> QED
    BY <2>1, <2>2, PutBeside
<1>4. SeriesSide(u.series) = SeriesSide(w.series)
  <2> DEFINE key == SeriesOf(x)
  <2>1. u.series = w.series \/ \E row : u.series = Put(w.series, key, row)
    BY DEF AddToWindow
  <2>2. key.role # role
    BY DEF SeriesOf
  <2> HIDE DEF key, u
  <2>3. ASSUME NEW row, u.series = Put(w.series, key, row) PROVE SeriesSide(u.series) = SeriesSide(w.series)
    <3>1. {j \in DOMAIN u.series : j.role = role} = {j \in DOMAIN w.series : j.role = role}
      BY <2>2, <2>3 DEF Put
    <3>2. \A s \in {j \in DOMAIN w.series : j.role = role} : u.series[s] = w.series[s]
      BY <2>2, <2>3 DEF Put
    <3> QED
      BY <3>1, <3>2
  <2> QED
    BY <2>1, <2>3
<1> HIDE DEF u
<1>5. /\ RoleView(u, role) = [counts |-> OfRole(u.roles, role), eventNames |-> OfRole(u.eventNames, role),
                              logNames |-> OfRole(u.logNames, role), series |-> SeriesSide(u.series)]
      /\ RoleView(w, role) = [counts |-> OfRole(w.roles, role), eventNames |-> OfRole(w.eventNames, role),
                              logNames |-> OfRole(w.logNames, role), series |-> SeriesSide(w.series)]
  BY DEF RoleView, OfRole
<1> HIDE DEF SeriesSide
<1> QED
  BY <1>1, <1>2, <1>3, <1>4, <1>5 DEF u

\* The items of other roles and minutes leave it.
NoneOf(items, role, m) ==
    \A k \in 1..Len(items) : ~(RoleIn(items[k]) = role /\ MinuteOf(items[k]) = m)

\* and so an envelope without items of the role and minute leaves it.
LEMMA RoleViewIngested ==
    ASSUME NEW items \in Seq(Item), NEW v, NEW m, m \in DOMAIN v.windows, NEW role,
           NoneOf(items, role, m)
    PROVE  RoleView(Ingested(v, items).windows[m], role) = RoleView(v.windows[m], role)
<1> DEFINE n == Len(items)
<1>1. n \in Nat
  OBVIOUS
<1>2. PICK g : /\ Ingested(v, items) = g[n]
               /\ g[0] = v
               /\ \A k \in 1..n : g[k] = AddItem(g[k - 1], items[k])
  BY <1>1, IngestedIs
<1> DEFINE S == {k \in Nat : k <= n =>
                     m \in DOMAIN g[k].windows /\ RoleView(g[k].windows[m], role) = RoleView(v.windows[m], role)}
<1> HIDE DEF n
<1>3. 0 \in S
  BY <1>2
<1>4. ASSUME NEW k \in Nat, k \in S PROVE k + 1 \in S
  <2>1. SUFFICES ASSUME k + 1 <= n
                 PROVE  /\ m \in DOMAIN g[k + 1].windows
                        /\ RoleView(g[k + 1].windows[m], role) = RoleView(v.windows[m], role)
    OBVIOUS
  <2>2. /\ m \in DOMAIN g[k].windows /\ RoleView(g[k].windows[m], role) = RoleView(v.windows[m], role)
        /\ k + 1 \in 1..n /\ (k + 1) - 1 = k
    BY <1>1, <1>4, <2>1
  <2> DEFINE x == items[k + 1]
             old == g[k].windows
             w == At(old, MinuteOf(x), EmptyWindow)
  <2>3. g[k + 1].windows = Put(old, MinuteOf(x), AddToWindow(w, x))
    <3>1. g[k + 1] = AddItem(g[k], x)
      BY <1>2, <2>2
    <3> HIDE DEF x
    <3> QED
      BY <3>1 DEF AddItem
  <2>4. ~(RoleIn(x) = role /\ MinuteOf(x) = m)
    BY <2>2 DEF n, NoneOf
  <2> HIDE DEF x, old
  <2>5. CASE MinuteOf(x) # m
    <3>1. m \in DOMAIN g[k + 1].windows /\ g[k + 1].windows[m] = old[m]
      BY <2>2, <2>3, <2>5 DEF Put, old
    <3> QED
      BY <2>2, <3>1 DEF old
  <2>6. CASE MinuteOf(x) = m
    <3>1. w = old[m]
      BY <2>2, <2>6 DEF At, old
    <3>2. m \in DOMAIN g[k + 1].windows /\ g[k + 1].windows[m] = AddToWindow(old[m], x)
      BY <2>3, <2>6, <3>1 DEF Put
    <3>3. RoleView(AddToWindow(old[m], x), role) = RoleView(old[m], role)
      BY <2>4, <2>6, RoleViewKept
    <3> QED
      BY <2>2, <3>2, <3>3 DEF old
  <2> QED
    BY <2>5, <2>6
<1>5. n \in S
  <2> HIDE DEF S
  <2>1. Nat \subseteq S
    BY <1>3, <1>4, InductiveSet
  <2> QED
    BY <1>1, <2>1
<1> QED
  BY <1>1, <1>2, <1>5

\* The start of a time's minute is less than a minute before it.
LEMMA FloorIsNear ==
    ASSUME NEW a \in Int, NEW b \in Nat \ {0}
    PROVE  (a \div b) * b \in Int /\ a < (a \div b) * b + b
<1>1. /\ a \div b \in Int /\ a % b \in 0..(b - 1)
      /\ a = b * (a \div b) + (a % b)
  OBVIOUS
<1>2. b * (a \div b) = (a \div b) * b
  BY <1>1
<1>3. (a \div b) * b \in Int
  BY <1>1
<1> QED
  BY <1>1, <1>2, <1>3

\* A step that changes what a complete role says of a minute ingests an item of an instance that
\* was not live, or one that starts before the end its instance had delivered.
LEMMA SettledStep ==
    ASSUME ViewsInv, [ViewsNext]_viewVars, NEW m \in DOMAIN windows, NEW role \in ClientRoles,
           RoleComplete(role, m), m \in DOMAIN windows',
           RoleView(windows'[m], role) # RoleView(windows[m], role)
    PROVE  \E n \in (Len(accepted) + 1)..Len(accepted') :
              /\ RoleIn(accepted'[n]) = role /\ MinuteOf(accepted'[n]) = m
              /\ \A k \in Delivering(role) :
                    instances[k].id = accepted'[n].instance => accepted'[n].from < instances[k].dataThrough
<1>1. windows' # windows /\ DOMAIN windows' # {}
  OBVIOUS
<1>2. ~(UNCHANGED windows) /\ windows' # NoEntries
  BY <1>1 DEF NoEntries
<1>3. PICK i \in Instances : \E batch \in Batches(i) : Sync(i, batch)
  <2>1. ~Tick /\ ~Restart /\ ~(UNCHANGED viewVars)
    BY <1>2 DEF Tick, Restart, live, viewVars
  <2>2. \A name : ~SetPersistLog(name) /\ ~DeletePersistLog(name) /\ ~RollbackPersistLog(name)
                  /\ ~SetInspectEvent(name) /\ ~DeleteInspectEvent(name)
    BY <1>2 DEF SetPersistLog, DeletePersistLog, RollbackPersistLog, SetInspectEvent,
                DeleteInspectEvent, Changes, Publish
  <2> QED
    BY <2>1, <2>2 DEF ViewsNext
<1>4. PICK batch \in Batches(i) : Sync(i, batch)
  BY <1>3
<1> DEFINE frames == Shifted(batch)
           items == Items(i, frames)
           v == Ingested(Views, items)
<1>5. SyncWrites(i, frames, items, v)
  BY <1>3, <1>4, SyncWritten
<1>6. /\ items \in Seq(Item) /\ accepted' = accepted \o items
      /\ windows' = [j \in {k \in DOMAIN v.windows : k >= now - Retention} |-> v.windows[j]]
  BY <1>5 DEF SyncWrites
<1>7. accepted \in Seq(Item) /\ instances \in Seq(Entry) /\ DOMAIN windows \subseteq Int
  BY DEF ViewsInv, ViewsTypeOK
<1>8. PICK k \in 1..Len(items) : RoleIn(items[k]) = role /\ MinuteOf(items[k]) = m
  <2>1. windows'[m] = v.windows[m]
    BY <1>6
  <2>2. Views.windows = windows
    BY DEF Views
  <2> HIDE DEF items
  <2>3. ASSUME \A k \in 1..Len(items) : ~(RoleIn(items[k]) = role /\ MinuteOf(items[k]) = m)
        PROVE  FALSE
    <3>1. RoleView(Ingested(Views, items).windows[m], role) = RoleView(Views.windows[m], role)
      <4>1. m \in DOMAIN Views.windows
        BY <2>2
      <4>2. items \in Seq(Item)
        BY <1>6
      <4> DEFINE u == Views
      <4> HIDE DEF u
      <4>3. RoleView(Ingested(u, items).windows[m], role) = RoleView(u.windows[m], role)
        <5>1. NoneOf(items, role, m)
          BY <2>3 DEF NoneOf
        <5> QED
          BY <4>1, <4>2, <5>1, RoleViewIngested DEF u
      <4> QED
        BY <4>3 DEF u
    <3> QED
      BY <2>1, <2>2, <3>1
  <2> QED
    BY <2>3
<1> HIDE DEF items
<1>9. /\ Len(accepted) + k \in (Len(accepted) + 1)..Len(accepted')
      /\ accepted'[Len(accepted) + k] = items[k]
  <2> DEFINE all == accepted \o items
  <2>1. /\ Len(all) = Len(accepted) + Len(items)
        /\ \A j \in 1..(Len(accepted) + Len(items)) :
              all[j] = IF j <= Len(accepted) THEN accepted[j] ELSE items[j - Len(accepted)]
    BY <1>6, <1>7, ConcatProperties
  <2> HIDE DEF all
  <2>2. Len(accepted) \in Nat /\ Len(items) \in Nat /\ k \in 1..Len(items)
    BY <1>6, <1>7
  <2>3. /\ Len(accepted) + k \in 1..(Len(accepted) + Len(items)) /\ ~(Len(accepted) + k <= Len(accepted))
        /\ (Len(accepted) + k) - Len(accepted) = k
        /\ Len(accepted) + k \in (Len(accepted) + 1)..(Len(accepted) + Len(items))
    BY <2>2
  <2>4. all[Len(accepted) + k] = items[k]
    BY <2>1, <2>3
  <2>5. accepted' = all
    BY <1>6 DEF all
  <2> QED
    BY <2>1, <2>3, <2>4, <2>5
<1>10. items[k].from < m + Minute /\ items[k].from \in Int /\ m \in Int /\ Minute \in Nat
  <2>1. items[k] \in Item
    BY <1>6
  <2>2. items[k].from \in Int /\ Minute \in Nat \ {0}
    BY <2>1, LiveViewsAssumption DEF Item
  <2>3. m = (items[k].from \div Minute) * Minute
    BY <1>8 DEF MinuteOf, MinuteFloor
  <2>4. m \in Int /\ items[k].from < m + Minute
    BY <2>2, <2>3, FloorIsNear
  <2> QED
    BY <2>2, <2>4
<1>11. \A j \in Delivering(role) : items[k].from < instances[j].dataThrough
  <2>1. ASSUME NEW j \in Delivering(role) PROVE items[k].from < instances[j].dataThrough
    <3>1. j \in 1..Len(instances)
      BY DEF Delivering
    <3>2. instances[j] \in Entry
      BY <1>7, <3>1
    <3>3. instances[j].dataThrough \in Int /\ instances[j].dataThrough >= m + Minute
      BY <3>2 DEF Entry, RoleComplete
    <3> QED
      BY <1>10, <3>3
  <2> QED
    BY <2>1
<1> QED
  BY <1>8, <1>9, <1>11

\* What snapshot reports as complete (_settledThrough) changes only by such an item: in every
\* step of every behaviour.
THEOREM SettledStand == ViewsSpec => SettledWindowsStand
<1>1. ASSUME ViewsInv, [ViewsNext]_viewVars
      PROVE  [\A m \in DOMAIN windows, role \in ClientRoles :
                ( /\ RoleComplete(role, m)
                  /\ m \in DOMAIN windows'
                  /\ RoleView(windows'[m], role) # RoleView(windows[m], role) )
                => \E n \in (Len(accepted) + 1)..Len(accepted') :
                      LET x == accepted'[n] IN
                      /\ RoleIn(x) = role /\ MinuteOf(x) = m
                      /\ \A k \in Delivering(role) :
                            instances[k].id = x.instance => x.from < instances[k].dataThrough]_viewVars
  BY <1>1, SettledStep
<1> QED
  BY <1>1, ViewsInvariant, PTL DEF ViewsSpec, SettledWindowsStand

=============================================================================
