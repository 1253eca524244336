---------------------------- MODULE Experiments ----------------------------
(***************************************************************************)
(* The life of one fixed-horizon experiment of one project: its plan in    *)
(* the control state (ControlService), its evidence in the assignment      *)
(* ledger (ExperimentLedger, fed by the ingest pipeline) and the decision  *)
(* taken from that evidence (experimentDecision).                          *)
(*                                                                         *)
(* The three meet in few places and each has its own guards: the plan may  *)
(* be edited, disabled, shipped and rolled back while evidence arrives,    *)
(* and evidence is admitted in two passes over a batch, _preflight and     *)
(* _ingest.  A call runs to completion, so nothing happens while a batch   *)
(* is ingested; a failed transaction leaves everything as it was and is a  *)
(* stuttering step.  Versions and conflicts are Journal's subject: here    *)
(* every mutation is made on the current state.                            *)
(***************************************************************************)
EXTENDS ControlState, FiniteSets, FiniteSetsExt

CONSTANTS
    Plans,          \* everything in an experiment but enabled and shippedVariant
    Variants,       \* the variants, the same in every plan
    Settings,       \* values of the config key the experiment is about
    ValueIn,        \* the setting of a variant in a plan
    Units,          \* assignment hashes
    Sources,        \* credentials: a role with a trust class
    TrustedSources,
    Goals,          \* goal values
    Batches,        \* the experiment events of one envelope, in order
    MaxRows,        \* experiments.ledgerMaxRows
    Target,         \* targetSampleSizePerVariant
    AllowedFaults,  \* healthThresholds, as one number
    NoRow, NoGoal, NoDecision, Idle,
    MaxChanges      \* bound: mutations made

ExperimentPaths == {"experiment", "plan", "enabled", "shipped", "value"}
ASSUME PathsOfAnExperiment ==
    /\ Paths = ExperimentPaths
    /\ Holder = [p \in Paths |-> IF p \in {"plan", "enabled", "shipped"}
                                 THEN "experiment" ELSE Top]
    /\ Values = {"present", "on", "off"} \cup Plans \cup Variants \cup Settings
    /\ ValueIn \in [Plans -> [Variants -> Settings]]

Events == [kind : {"exposure"}, unit : Units, variant : Variants]
              \cup [kind : {"goal"}, unit : Units, variant : Variants, value : Goals]
Rows == [variant : Variants, source : Sources, goal : Goals \cup {NoGoal},
         life : {"active", "closed", "expired"}]
ASSUME EvidenceIsTyped ==
    /\ IsFiniteSet(Units) /\ IsFiniteSet(Variants) /\ IsFiniteSet(Sources)
    /\ TrustedSources \subseteq Sources
    /\ Batches \subseteq Seq(Events) \ {<<>>}
    /\ NoGoal \notin Goals
    /\ NoRow \notin Rows
    /\ MaxRows \in Nat /\ Target \in Nat \ {0} /\ AllowedFaults \in Nat
    /\ MaxChanges \in Nat

Statuses == {"winner", "no_difference", "inconclusive", "invalid"}
Decisions == [status : Statuses, leader : Variants, healthy : BOOLEAN]
Flights == [source : Sources, todo : Seq(Events) \ {<<>>}]
ASSUME SentinelsAreDistinct == NoDecision \notin Decisions /\ Idle \notin Flights

VARIABLES
    st,        \* the control state of the project, as far as it concerns us
    changes,   \* the retained changes: their forward and inverse halves
    made,      \* mutations made
    rows,      \* experiment_assignment_ledger, one row for each unit
    totals,    \* experiment_totals: what was accepted, by variant and source
    faults,    \* experiment_totals: everything that counts against health
    decision,  \* experiment_terminal_decisions
    due,       \* earliestAnalysisAt has passed
    flight     \* the rest of the batch that is being ingested

vars == <<st, changes, made, rows, totals, faults, decision, due, flight>>
controlVars == <<st, changes, made>>
ledgerVars == <<rows, totals, faults, decision>>

Halves == [forward : Changes, inverse : Changes]
TypeOK ==
    /\ st \in States
    /\ changes \in Seq(Halves)
    /\ made \in Nat
    /\ rows \in [Units -> Rows \cup {NoRow}]
    /\ totals \in [Variants -> [Sources -> [exposures : Nat, goals : Nat]]]
    /\ faults \in Nat
    /\ decision \in Decisions \cup {NoDecision}
    /\ due \in BOOLEAN
    /\ flight \in Flights \cup {Idle}

Init ==
    /\ st = [p \in Paths |-> None]
    /\ changes = <<>>
    /\ made = 0
    /\ rows = [u \in Units |-> NoRow]
    /\ totals = [v \in Variants |-> [s \in Sources |-> [exposures |-> 0, goals |-> 0]]]
    /\ faults = 0
    /\ decision = NoDecision
    /\ due = FALSE
    /\ flight = Idle

Defined == st["experiment"] # None
Held == {u \in Units : rows[u] # NoRow}

-----------------------------------------------------------------------------
(* Evidence: one batch, twice over.                                        *)

(* Evidence that comes after the decision, or for a closed assignment, is  *)
(* counted and not used.  Fault: only the assignment is looked at.         *)
Closed(u) == IF rows[u] = NoRow THEN FALSE ELSE rows[u].life # "active"
LateIfClosed(e) == Closed(e.unit)
Late(e) == decision # NoDecision \/ Closed(e.unit)

(* _preflight: the variant a unit has when its i-th event comes, stored or *)
(* from an exposure earlier in the batch.                                  *)
(* Fault: assignments made by the batch itself are not seen.               *)
KnownStored(b, i) == IF rows[b[i].unit] = NoRow THEN {} ELSE {rows[b[i].unit].variant}
Known(b, i) ==
    IF rows[b[i].unit] # NoRow THEN {rows[b[i].unit].variant}
    ELSE {b[j].variant : j \in {k \in 1 .. i - 1 : /\ b[k].unit = b[i].unit
                                                  /\ b[k].kind = "exposure"}}
ForeignRow(u, s) == IF rows[u] = NoRow THEN FALSE ELSE rows[u].source # s
Rejects(b, s, i) ==
    /\ ~Late(b[i])
    /\ \/ \E v \in Known(b, i) : v # b[i].variant
       \/ /\ b[i].kind = "goal"
          /\ Known(b, i) = {} \/ ForeignRow(b[i].unit, s)
Clean(b, s) == \A i \in DOMAIN b : ~Rejects(b, s, i)

(* newAssignments: the units that the first n events would add.            *)
New(b, n) ==
    {b[i].unit : i \in {k \in 1 .. n : /\ b[k].kind = "exposure"
                                      /\ ~Late(b[k])
                                      /\ rows[b[k].unit] = NoRow}}
Fits(b, n) == Cardinality(New(b, n)) + Cardinality(Held) <= MaxRows

(* Counts of faults are not told apart beyond the threshold.               *)
Counted(n) == IF faults + n <= AllowedFaults THEN faults + n ELSE AllowedFaults + 1
Untrusted(s) == IF s \in TrustedSources THEN 0 ELSE 1

Afterwards ==
    IF Len(flight.todo) = 1 THEN Idle
    ELSE [flight EXCEPT !.todo = Tail(flight.todo)]

(* An envelope with events of an experiment that is not enabled is         *)
(* rejected before the ledger sees it (validateExperimentEvents).  A batch *)
(* that does not fit makes ingestBatch throw.                              *)
Receivable == flight = Idle /\ Defined /\ st["enabled"] = "on"

ingestBatch(b, s) ==
    /\ Receivable
    /\ Clean(b, s) /\ Fits(b, Len(b))
    /\ flight' = [source |-> s, todo |-> b]
    /\ UNCHANGED <<controlVars, ledgerVars, due>>

(* A batch with one bad event is counted and dropped as a whole; faults    *)
(* are one for that event and one for each event of an untrusted source.   *)
RejectBatch(b, s) ==
    /\ Receivable
    /\ \E i \in DOMAIN b :
          /\ Rejects(b, s, i)
          /\ \A j \in 1 .. i - 1 : ~Rejects(b, s, j)
          /\ Fits(b, i - 1)
    /\ faults' = Counted(1 + Len(b) * Untrusted(s))
    /\ UNCHANGED <<controlVars, rows, totals, decision, due, flight>>

(* _ingest of the next event, inside the batch's transaction.              *)
Coming == Head(flight.todo)
NewExposure(e) == e.kind = "exposure" /\ ~Late(e) /\ rows[e.unit] = NoRow
(* Fault: a goal that the unit already has is accepted again.              *)
AnyGoal(e, s) ==
    IF e.kind = "exposure" \/ Late(e) \/ rows[e.unit] = NoRow THEN FALSE
    ELSE rows[e.unit].variant = e.variant /\ rows[e.unit].source = s
NewGoal(e, s) ==
    IF e.kind = "exposure" \/ Late(e) \/ rows[e.unit] = NoRow THEN FALSE
    ELSE /\ rows[e.unit].variant = e.variant
         /\ rows[e.unit].source = s
         /\ rows[e.unit].goal = NoGoal
(* What makes _ingest answer variant_conflict or missing_exposure.         *)
Refused(e, s) ==
    /\ ~Late(e)
    /\ IF rows[e.unit] = NoRow THEN e.kind = "goal"
       ELSE \/ rows[e.unit].variant # e.variant
            \/ e.kind = "goal" /\ rows[e.unit].source # s

AcceptExposure ==
    /\ flight # Idle
    /\ LET e == Coming
           s == flight.source IN
       /\ NewExposure(e)
       /\ rows' = [rows EXCEPT ![e.unit] =
                      [variant |-> e.variant, source |-> s, goal |-> NoGoal,
                       life |-> "active"]]
       /\ totals' = [totals EXCEPT ![e.variant][s].exposures = @ + 1]
       /\ faults' = Counted(Untrusted(s))
    /\ flight' = Afterwards
    /\ UNCHANGED <<controlVars, decision, due>>

AcceptGoal ==
    /\ flight # Idle
    /\ LET e == Coming
           s == flight.source IN
       /\ NewGoal(e, s)
       /\ rows' = [rows EXCEPT ![e.unit].goal = e.value]
       /\ totals' = [totals EXCEPT ![e.variant][s].goals = @ + 1]
       /\ faults' = Counted(Untrusted(s))
    /\ flight' = Afterwards
    /\ UNCHANGED <<controlVars, decision, due>>

(* Late, conflicting, repeated or without an exposure: counted only.       *)
CountOnly ==
    /\ flight # Idle
    /\ ~NewExposure(Coming) /\ ~NewGoal(Coming, flight.source)
    /\ faults' = Counted(1 + Untrusted(flight.source))
    /\ flight' = Afterwards
    /\ UNCHANGED <<controlVars, rows, totals, decision, due>>

-----------------------------------------------------------------------------
(* Mutations of the control state.                                         *)

(* validateProjectState, as far as an experiment is concerned.             *)
ValidState(new) ==
    /\ new \in States
    /\ new["experiment"] # None => new["plan"] \in Plans /\ new["enabled"] \in {"on", "off"}
(* An enabled plan reserves its rows (_mutate; a rollback does not ask).   *)
Reserves(new) ==
    new["experiment"] # None /\ new["enabled"] = "on" =>
        Target * Cardinality(Variants) <= MaxRows
Journaled(forward, inverse) ==
    /\ made < MaxChanges
    /\ made' = made + 1
    /\ changes' = Retained(changes, [forward |-> forward, inverse |-> inverse])
Mutate(new) ==
    /\ flight = Idle
    /\ new # st
    /\ ValidState(new) /\ Reserves(new)
    /\ st' = new
    /\ Journaled(Diff(st, new), Diff(new, st))

HasTrustedExposure ==
    \E v \in Variants, s \in TrustedSources : totals[v][s].exposures > 0
HasAnyEvidence ==
    \E v \in Variants, s \in Sources :
        totals[v][s].exposures > 0 \/ totals[v][s].goals > 0

(* scheduleExpiry leaves the rows that already have an expiry.             *)
Expiring == [u \in Units |-> IF rows[u] = NoRow \/ Closed(u) THEN rows[u]
                             ELSE [rows[u] EXCEPT !.life = "closed"]]
Resumed == [u \in Units |-> IF rows[u] = NoRow THEN NoRow
                            ELSE [rows[u] EXCEPT !.life = "active"]]

upsertExperiment(plan, enabled) ==
    /\ Defined /\ HasTrustedExposure => plan = st["plan"]
    /\ Mutate([st EXCEPT !["experiment"] = "present", !["plan"] = plan,
                         !["enabled"] = enabled, !["shipped"] = None])
    /\ UNCHANGED <<ledgerVars, due, flight>>

(* The ledger is updated after the mutation is committed: a crash between  *)
(* the two leaves its rows as they were.                                   *)
setExperimentEnabled(flag, completes) ==
    /\ Defined
    /\ flag = "on" => /\ st["shipped"] = None
                      /\ HasAnyEvidence => Held # {}
    /\ Mutate([st EXCEPT !["enabled"] = flag])
    /\ rows' = IF ~completes THEN rows
               ELSE IF flag = "on" THEN Resumed ELSE Expiring
    /\ UNCHANGED <<totals, faults, decision, due, flight>>

(* The change at position i of the journal, undone.  Neither the plan's    *)
(* immutability nor the ledger is looked at.                               *)
rollbackConfigChange(i) ==
    /\ flight = Idle
    /\ Resolves(st, changes[i].inverse)
    /\ ValidState(Apply(st, changes[i].inverse))
    /\ st' = Apply(st, changes[i].inverse)
    /\ Journaled(changes[i].inverse, changes[i].forward)
    /\ UNCHANGED <<ledgerVars, due, flight>>

-----------------------------------------------------------------------------
(* Analysis and shipping.                                                  *)

TrustedEvidence == [v \in Variants |-> [s \in TrustedSources |-> totals[v][s]]]
Exposures(v) == MapThenSumSet(LAMBDA s : totals[v][s].exposures, TrustedSources)
AcceptedGoals(v) == MapThenSumSet(LAMBDA s : totals[v][s].goals, TrustedSources)

(* decideExperiment for a conversion outcome.  The statistics choose among *)
(* winner, no_difference and inconclusive.                                 *)
HorizonReached == due /\ \A v \in Variants : Exposures(v) >= Target
Impossible == \E v \in Variants : AcceptedGoals(v) > Exposures(v)
Verdicts ==
    IF Impossible \/ (HorizonReached /\ faults > AllowedFaults)
    THEN [status : {"invalid"}, healthy : {FALSE}]
    ELSE IF HorizonReached
    THEN [status : {"winner", "no_difference", "inconclusive"}, healthy : {TRUE}]
    ELSE {}

(* experimentStats: the first terminal result is persisted and the rows    *)
(* are closed in the same transaction.                                     *)
Decide(leader) ==
    /\ flight = Idle /\ decision = NoDecision /\ Defined
    /\ ~(st["shipped"] # None /\ st["enabled"] = "off")
    /\ \E v \in Variants : Exposures(v) > 0 \/ AcceptedGoals(v) > 0
    /\ \E o \in Verdicts :
          decision' = [status |-> o.status, leader |-> leader, healthy |-> o.healthy]
    /\ rows' = Expiring
    /\ UNCHANGED <<controlVars, totals, faults, due, flight>>

AnalyzeAgain ==
    /\ flight = Idle /\ decision # NoDecision /\ Defined
    /\ rows' = Expiring
    /\ UNCHANGED <<controlVars, totals, faults, decision, due, flight>>

(* Fault: any decision will do.                                            *)
Decided == decision # NoDecision
Shippable ==
    IF decision = NoDecision THEN FALSE
    ELSE decision.status = "winner" /\ decision.healthy
shipExperiment ==
    /\ Shippable /\ Defined
    /\ ~(st["enabled"] = "off" /\ st["shipped"] = decision.leader)
    /\ Mutate([st EXCEPT !["value"] = ValueIn[st["plan"]][decision.leader],
                         !["enabled"] = "off", !["shipped"] = decision.leader])
    /\ rows' = Expiring
    /\ UNCHANGED <<totals, faults, decision, due, flight>>

-----------------------------------------------------------------------------
(* Time: the analysis becomes due; the retention of closed rows elapses.   *)
AnalysisDue ==
    /\ flight = Idle /\ ~due
    /\ due' = TRUE
    /\ UNCHANGED <<controlVars, ledgerVars, flight>>
RetentionElapses ==
    /\ flight = Idle
    /\ \E u \in Held : rows[u].life = "closed"
    /\ rows' = [u \in Units |->
                   IF rows[u] = NoRow \/ ~Closed(u) THEN rows[u]
                   ELSE [rows[u] EXCEPT !.life = "expired"]]
    /\ UNCHANGED <<controlVars, totals, faults, decision, due, flight>>

Next ==
    \/ \E b \in Batches, s \in Sources : ingestBatch(b, s) \/ RejectBatch(b, s)
    \/ AcceptExposure \/ AcceptGoal \/ CountOnly
    \/ \E plan \in Plans, flag \in {"on", "off"} : upsertExperiment(plan, flag)
    \/ \E flag \in {"on", "off"}, completes \in BOOLEAN :
          setExperimentEnabled(flag, completes)
    \/ \E i \in DOMAIN changes : rollbackConfigChange(i)
    \/ \E v \in Variants : Decide(v)
    \/ AnalyzeAgain \/ shipExperiment \/ AnalysisDue \/ RetentionElapses

Spec == Init /\ [][Next]_vars

-----------------------------------------------------------------------------
Assigned(v, s) == {u \in Held : rows[u].variant = v /\ rows[u].source = s}
Converted(v, s) == {u \in Assigned(v, s) : rows[u].goal # NoGoal}

(* The totals that decisions are taken from are those of the ledger: each  *)
(* unit counts once, under one variant and one source, with at most one    *)
(* goal (_updateTotals runs beside every insert and update of a row).      *)
TotalsMatchLedger ==
    \A v \in Variants, s \in Sources :
        /\ totals[v][s].exposures = Cardinality(Assigned(v, s))
        /\ totals[v][s].goals = Cardinality(Converted(v, s))

(* What _preflight lets through, _ingest accepts: no event of an admitted  *)
(* batch is a conflict or without its exposure, so an envelope is answered *)
(* for as a whole.                                                         *)
PreflightAgrees == flight # Idle => ~Refused(Coming, flight.source)

(* The ledger never outgrows ledgerMaxRows, within a batch either          *)
(* (ingestBatch checks once, before the first row).                        *)
LedgerWithinCapacity == Cardinality(Held) <= MaxRows

(* "The first terminal input and result are persisted and later telemetry  *)
(* cannot flip them" (ARCHITECTURE.md): the decision stands, and so does   *)
(* the evidence it was taken from.                                         *)
DecisionIsFinal ==
    [][decision # NoDecision =>
          decision' = decision /\ TrustedEvidence' = TrustedEvidence]_vars

(* A variant is marked as shipped only when the persisted decision is a    *)
(* healthy win for it, through every edit, resumption and rollback         *)
(* (shipExperiment is the only source of shippedVariant).                  *)
ShippedIsWinner ==
    st["shipped"] # None =>
        /\ decision # NoDecision
        /\ decision.status = "winner" /\ decision.healthy
        /\ decision.leader = st["shipped"]

(* An accepted exposure is never moved to another variant or source, and   *)
(* the first goal of a unit is the one that counts (_ingest).              *)
AcceptedEvidenceStands ==
    [][\A u \in Held :
          /\ rows'[u] # NoRow
          /\ rows'[u].variant = rows[u].variant /\ rows'[u].source = rows[u].source
          /\ rows[u].goal # NoGoal => rows'[u].goal = rows[u].goal]_vars

(* "Fixed-horizon plans are all-or-none and immutable after trusted        *)
(* exposure" (package.md).                                                 *)
PlanIsFrozen ==
    [][HasTrustedExposure /\ Defined /\ st'["experiment"] # None =>
          st'["plan"] = st["plan"]]_vars

(* ledgerMaxRows bounds the active rows: a row whose retention has elapsed *)
(* keeps no new unit out (scheduleExpiry, pruneExpired).                   *)
ExpiredRowsFreeCapacity ==
    \A b \in Batches :
        /\ Receivable
        /\ Cardinality(New(b, Len(b))) +
               Cardinality({u \in Held : rows[u].life # "expired"}) <= MaxRows
        => Fits(b, Len(b))
=============================================================================
