------------------------------ MODULE Journal ------------------------------
(***************************************************************************)
(* The control plane of one project: administrators (MCP clients) that     *)
(* read the project and send mutations with the version they read, the     *)
(* compare-and-swap of MutationJournal over SqliteMutationRepository, and  *)
(* the SDK clients that poll the published config.                         *)
(*                                                                         *)
(* A mutation runs to completion: ControlService._mutate reads, validates, *)
(* commits and publishes without yielding, in one process.  What           *)
(* interleaves is everything around it: another administrator between a    *)
(* read and its mutation, a request that arrives late or twice (its answer *)
(* was lost and it was sent again), a poll, a client that changes its      *)
(* attributes.  The published snapshot is the stored one at every such     *)
(* point (_publish after a commit, and hydrateAuthoritativeState after a   *)
(* crash between the two), so one variable stands for both and a restart   *)
(* loses only the views cached for each role; only the order of            *)
(* catalog.persistLogs differs, see ServedLogs.                            *)
(***************************************************************************)
EXTENDS ControlState, ProjectConfig

CONSTANTS
    Clients,       \* SDK instances
    Profiles,      \* what they say of themselves: role, platform, attributes
    Snapshot(_),   \* the config that a control state holds
    Edits,         \* the changes that the setters of ControlService can make
    Upserts,       \* those that set an experiment
    LogNames,      \* the paths that are names in catalog.persistLogs
    LogOrder,      \* LogNames, sorted
    Bootstrap,     \* the project state in the server's configuration
    BootstrapLogs, \* its catalog.persistLogs, in the order given there
    MaxVersion,    \* bound: versions reached
    MaxRequests    \* bound: requests prepared

(* The states that validateProjectState accepts.                           *)
ValidStates == {st \in States : ValidSnapshot(Snapshot(st))}

ASSUME BootstrapIsValid == Bootstrap \in ValidStates
ASSUME EditsAreChanges == Edits \cup Upserts \subseteq Changes
ASSUME ProfilesAreAccepted ==
    /\ Profiles # {}
    /\ \A p \in Profiles : ValidClient(p)
ASSUME LogsAreListed ==
    /\ LogNames \subseteq Paths
    /\ LogOrder \in Seq(LogNames)
    /\ BootstrapLogs \in Seq(LogNames)
ASSUME BoundsAreNaturals == MaxVersion \in Nat /\ MaxRequests \in Nat

VARIABLES
    version,   \* project_state.version; the bootstrap state is version 1
    state,     \* project_state.state_json and catalog_json
    changes,   \* mutation_journal
    sent,      \* the requests sent so far; any of them can still arrive
    roleViews, \* ConfigRepository.roleViews: what the roles seen so far see
    profile,   \* of each SDK client
    cfg,       \* its ConfigStore: the version, the config, whose it was
    history,   \* ghost: the content of every version
    origins    \* ghost: the request that made every version

vars == <<version, state, changes, sent, roleViews, profile, cfg, history, origins>>
clients == <<profile, cfg>>

Operations ==
    [kind : {"edit"}, change : Edits]
        \cup [kind : {"upsert"}, change : Upserts]
        \cup [kind : {"unlist"}, name : LogNames]
        \cup [kind : {"rollback"}, id : Nat]
Requests == [expected : Nat, basis : States, op : Operations]

(* A change is identified by the version it made.                          *)
Entries == [prev : Nat, new : Nat, forward : Changes, inverse : Changes,
            undoes : Nat]
NoChange == 0

-----------------------------------------------------------------------------
(* delete_persist_log looks the name's index up in the published list and  *)
(* removes what has that index in the list materialized from the store,    *)
(* which is sorted.  The published list is the materialized one once a     *)
(* mutation was committed; until then it stands as configured.             *)
StoredLogs == SelectSeq(LogOrder, LAMBDA n : state[n] # None)
ServedLogs == IF version = 1 THEN BootstrapLogs ELSE StoredLogs
Unlisted(name) ==
    {[p \in {StoredLogs[i]} |-> None] :
        i \in {j \in DOMAIN ServedLogs \cap DOMAIN StoredLogs :
                   ServedLogs[j] = name}}

Target(id) == {e \in {changes[i] : i \in DOMAIN changes} : e.new = id}

(* An edit is journaled as the difference it makes, and must make one; a   *)
(* rollback as the halves of its target, swapped.                          *)
(* Faults: an inverse that repeats the change, a rollback that repeats its *)
(* target.                                                                 *)
EditTwice(change) ==
    [prev |-> version, new |-> version + 1, undoes |-> NoChange,
     forward |-> Diff(state, Apply(state, change)),
     inverse |-> Diff(state, Apply(state, change))]
EditEntry(change) ==
    [prev |-> version, new |-> version + 1, undoes |-> NoChange,
     forward |-> Diff(state, Apply(state, change)),
     inverse |-> Diff(Apply(state, change), state)]
RollForward(target) ==
    [prev |-> version, new |-> version + 1, undoes |-> target.new,
     forward |-> target.forward, inverse |-> target.inverse]
RollbackEntry(target) ==
    [prev |-> version, new |-> version + 1, undoes |-> target.new,
     forward |-> target.inverse, inverse |-> target.forward]

Edited(op) ==
    CASE op.kind \in {"edit", "upsert"} -> {op.change}
      [] op.kind = "unlist" -> Unlisted(op.name)
      [] op.kind = "rollback" -> {}
(* upsertExperiment checks the keys that its experiment varies.            *)
Allowed(op) ==
    op.kind = "upsert" =>
        \A x \in Snapshot(Apply(state, op.change)).experiments :
            x \notin Snapshot(state).experiments => KeysExist(x, Snapshot(state))
EntriesFor(op) ==
    {EditEntry(c) : c \in {d \in Edited(op) : /\ Allowed(op)
                                             /\ Resolves(state, d)
                                             /\ Apply(state, d) # state}}
        \cup IF op.kind # "rollback" THEN {}
             ELSE {RollbackEntry(e) : e \in {t \in Target(op.id) :
                                                Resolves(state, t.inverse)}}

-----------------------------------------------------------------------------
Roles == {p["role"].of : p \in Profiles}
Views == {ConfigFor(Snapshot(st), p) : st \in States, p \in Profiles}
Configs == [version : Nat, config : Views \cup {None}, asked : Profiles]

TypeOK ==
    /\ version \in Nat
    /\ state \in States
    /\ changes \in Seq(Entries)
    /\ sent \in SUBSET Requests
    /\ DOMAIN roleViews \subseteq Roles
    /\ profile \in [Clients -> Profiles]
    /\ cfg \in [Clients -> Configs]
    /\ history \in Seq(States)
    /\ origins \in Seq(Requests)

Uncached == [role \in {} |-> None]
(* publish makes a new ConfigRepository.                                   *)
(* Fault: the views of the snapshot before are kept.                       *)
OldRepository == roleViews
NewRepository == Uncached

Init ==
    /\ version = 1
    /\ state = Bootstrap
    /\ changes = <<>>
    /\ sent = {}
    /\ roleViews = Uncached
    /\ profile \in [Clients -> Profiles]
    /\ cfg = [c \in Clients |->
                 [version |-> 0, config |-> None, asked |-> profile[c]]]
    /\ history = <<Bootstrap>>
    /\ origins = <<>>

(* An administrator reads the project and decides on a mutation of it.     *)
Listed == {changes[i].new : i \in DOMAIN changes}
Prepare(op) ==
    /\ Cardinality(sent) < MaxRequests
    /\ op.kind = "rollback" => op.id \in Listed
    /\ sent' = sent \cup {[expected |-> version, basis |-> state, op |-> op]}
    /\ UNCHANGED <<version, state, changes, roleViews, clients, history, origins>>

(* _mutate and rollbackConfigChange, when they succeed.  Otherwise (a      *)
(* version conflict, an unknown name, no difference, an invalid result, a  *)
(* failed transaction) they throw and leave everything as it was.          *)
NotBefore(r) == r.expected <= version   \* fault: only a future version conflicts
Current(r) == r.expected = version
Unchecked(st) == st \in States            \* fault: the result is not validated
Valid(st) == st \in ValidStates
Commit(r) ==
    /\ version < MaxVersion
    /\ Current(r)
    /\ \E e \in EntriesFor(r.op) :
        /\ Valid(Apply(state, e.forward))
        /\ version' = e.new
        /\ state' = Apply(state, e.forward)
        /\ changes' = Retained(changes, e)
        /\ history' = Append(history, Apply(state, e.forward))
        /\ origins' = Append(origins, r)
    /\ roleViews' = NewRepository
    /\ UNCHANGED <<sent, clients>>

(* buildResponse: the view of the client's role is cached on first use;    *)
(* the config is sent unless the client holds this version with this       *)
(* context, which stands for the content.  Whether the answer arrives is   *)
(* up to the network: a poll whose answer is lost only fills the cache.    *)
ViewFor(role) ==
    IF role \in DOMAIN roleViews THEN roleViews[role]
    ELSE RoleView(Snapshot(state), role)
Served(p) == WireSnapshot(ViewFor(p["role"].of), p)
UpToDate(c) == cfg[c].version = version /\ cfg[c].config = Served(profile[c])
CacheView(role) ==
    roleViews' = [r \in DOMAIN roleViews \cup {role} |-> ViewFor(r)]
Poll(c) ==
    /\ CacheView(profile[c]["role"].of)
    /\ \/ /\ ~UpToDate(c)
          /\ cfg' = [cfg EXCEPT ![c] = [version |-> version,
                                        config |-> Served(profile[c]),
                                        asked |-> profile[c]]]
       \/ UNCHANGED cfg
    /\ UNCHANGED <<version, state, changes, sent, profile, history, origins>>

(* setAttributes: the rest of the profile is fixed when the SDK starts.    *)
SetAttributes(c, p) ==
    /\ \A field \in ClientFields :
          /\ field \in DOMAIN p <=> field \in DOMAIN profile[c]
          /\ field \in DOMAIN p => p[field] = profile[c][field]
    /\ profile' = [profile EXCEPT ![c] = p]
    /\ UNCHANGED <<version, state, changes, sent, roleViews, cfg, history, origins>>

(* The process starts again and publishes what is stored.                  *)
Restart ==
    /\ roleViews' = NewRepository
    /\ UNCHANGED <<version, state, changes, sent, clients, history, origins>>

OperationsNow == [kind : {"edit"}, change : Edits]
                     \cup [kind : {"upsert"}, change : Upserts]
                     \cup [kind : {"unlist"}, name : LogNames]
                     \cup [kind : {"rollback"}, id : Listed]
Next ==
    \/ \E op \in OperationsNow : Prepare(op)
    \/ \E r \in sent : Commit(r)
    \/ \E c \in Clients : Poll(c)
    \/ \E c \in Clients, p \in Profiles : SetAttributes(c, p)
    \/ Restart

Spec == Init /\ [][Next]_vars
-----------------------------------------------------------------------------
Smaller(a, b) == IF a <= b THEN a ELSE b

(* The journal (MutationJournal.commit and rollback, commitProjectMutation) *)
(* holds exactly the last Capacity changes, with consecutive versions up   *)
(* to the current one.                                                     *)
JournalIsRecentHistory ==
    /\ Len(changes) = Smaller(Capacity, version - 1)
    /\ \A i \in DOMAIN changes :
          /\ changes[i].new = version - Len(changes) + i
          /\ changes[i].prev = changes[i].new - 1

(* What an entry keeps is what happened: its forward half leads from the   *)
(* version before to its own, and an edit's inverse leads back.            *)
EntriesReplayHistory ==
    \A i \in DOMAIN changes :
        LET e == changes[i] IN
        /\ Apply(history[e.prev], e.forward) = history[e.new]
        /\ e.undoes = NoChange => Apply(history[e.new], e.inverse) = history[e.prev]

(* A rollback gives the paths of its target their values from before the   *)
(* target and keeps every change made to other paths since.                *)
RollbackRestoresItsPaths ==
    \A i, j \in DOMAIN changes :
        LET undo == changes[i] edit == changes[j] IN
        undo.undoes = edit.new /\ edit.undoes = NoChange =>
            \A p \in Paths :
                history[undo.new][p] =
                    IF p \in DOMAIN edit.forward THEN history[edit.prev][p]
                    ELSE history[undo.prev][p]

(* No mutation overwrites one that its author had not seen, whatever is    *)
(* delayed, reordered or sent twice (version check of MutationJournal).    *)
NoLostUpdate ==
    \A v \in DOMAIN origins : origins[v].basis = history[v]

(* Of the requests that were prepared on one version at most one succeeds, *)
(* and a request that is sent again succeeds at most once.                 *)
OneSuccessPerVersion ==
    \A v, w \in DOMAIN origins :
        v # w => origins[v].expected # origins[w].expected

(* Edits and rollbacks alike leave a state that honours its constraints    *)
(* (validateProjectState in the journal's applyChange).                    *)
ServedConfigIsValid == state \in ValidStates

(* A version and a context name one content: the config an SDK client      *)
(* holds is what the version it names held for the profile it asked with,  *)
(* and the server answers nothing only to a client that holds what the     *)
(* current snapshot has for the profile it has now (buildResponse).        *)
ClientVersionIdentifiesConfig ==
    \A c \in Clients :
        /\ cfg[c].version # 0 =>
              /\ cfg[c].version \in DOMAIN history
              /\ cfg[c].config =
                    ConfigFor(Snapshot(history[cfg[c].version]), cfg[c].asked)
        /\ UpToDate(c) => cfg[c].config = ConfigFor(Snapshot(state), profile[c])

(* delete_persist_log takes the "exact name" (tools.md): that name leaves  *)
(* the list and no other path changes.                                     *)
UnlistedNameIsGone ==
    \A v \in DOMAIN origins :
        origins[v].op.kind = "unlist" =>
            history[v + 1] = [history[v] EXCEPT ![origins[v].op.name] = None]
=============================================================================
