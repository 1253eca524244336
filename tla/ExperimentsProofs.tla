------------------------- MODULE ExperimentsProofs -------------------------
(***************************************************************************)
(* Theorems about an experiment's evidence, decision and shipping, for     *)
(* every set of units, plans, sources and batches of any length, every     *)
(* ledger and journal capacity and every threshold.                        *)
(*                                                                         *)
(* The invariant EInv says, beside the properties themselves: the rest of  *)
(* the batch in flight would still pass _preflight and still fits          *)
(* (FlightStaysClean), and no change the journal retains can mark a        *)
(* variant as shipped but the one that won (ChangesShipTheWinner).         *)
(***************************************************************************)
EXTENDS Experiments, FiniteSetTheorems, SequenceTheorems, TLAPS

FlightStaysClean ==
    flight # Idle => /\ Clean(flight.todo, flight.source)
                     /\ Fits(flight.todo, Len(flight.todo))

Won(v) == Shippable /\ decision.leader = v
ShipsTheWinner(half) ==
    "shipped" \in DOMAIN half /\ half["shipped"] # None => Won(half["shipped"])
ChangesShipTheWinner ==
    \A i \in DOMAIN changes : /\ ShipsTheWinner(changes[i].forward)
                             /\ ShipsTheWinner(changes[i].inverse)

EInv ==
    /\ TypeOK
    /\ Len(changes) <= Capacity
    /\ TotalsMatchLedger
    /\ LedgerWithinCapacity
    /\ FlightStaysClean
    /\ ShippedIsWinner
    /\ ChangesShipTheWinner

-----------------------------------------------------------------------------
(* Changes of a control state (ControlStateChange.js).                     *)

(* A difference is a change, and its domain is what it touches.            *)
LEMMA DiffIsChange ==
    ASSUME NEW a \in Contents, NEW b \in Contents
    PROVE  /\ Diff(a, b) \in Changes
           /\ DOMAIN Diff(a, b) = Touched(a, b)
           /\ \A p \in Touched(a, b) : Diff(a, b)[p] = b[p]
<1>1. Touched(a, b) \in SUBSET Paths
    BY DEF Touched
<1>2. \A p \in Touched(a, b) : b[p] \in Values \cup {None}
    BY <1>1 DEF Contents
<1>3. Diff(a, b) \in [Touched(a, b) -> Values \cup {None}]
    BY <1>2 DEF Diff
<1>4. DOMAIN Diff(a, b) = Touched(a, b)
    BY DEF Diff
<1>5. \A p \in Touched(a, b) : Diff(a, b)[p] = b[p]
    BY DEF Diff
<1> QED
    BY <1>1, <1>3, <1>4, <1>5 DEF Changes

(* retainedChanges: a sequence that ends with the entry and, before it,    *)
(* with the most recent ones.                                              *)
LEMMA RetainedShape ==
    ASSUME NEW S, NEW old \in Seq(S), NEW e \in S, Len(old) <= Capacity
    PROVE  LET kept == Retained(old, e)
               lost == Len(old) + 1 - Len(kept) IN
           /\ kept \in Seq(S)
           /\ Len(kept) = IF Len(old) = Capacity THEN Capacity ELSE Len(old) + 1
           /\ kept[Len(kept)] = e
           /\ \A i \in 1 .. Len(kept) - 1 : kept[i] = old[i + lost]
           /\ Len(old) = Capacity => lost = 1
           /\ Len(old) # Capacity => lost = 0
<1> DEFINE all == Append(old, e)
<1>1. /\ all \in Seq(S) /\ Len(all) = Len(old) + 1
      /\ \A i \in 1 .. Len(old) : all[i] = old[i]
      /\ all[Len(old) + 1] = e
    BY AppendProperties
<1>2. Len(old) \in Nat /\ Capacity \in Nat /\ Capacity > 0
    BY LenProperties, CapacityIsPositive
<1>3. CASE Len(old) = Capacity
    <2>1. Retained(old, e) = SubSeq(all, 2, Len(all))
        BY <1>1, <1>2, <1>3 DEF Retained
    <2>2. \A i \in 2 .. Len(all) : all[i] \in S
        BY <1>1, <1>2, ElementOfSeq
    <2>3. /\ SubSeq(all, 2, Len(all)) \in Seq(S)
          /\ Len(SubSeq(all, 2, Len(all))) =
                IF 2 <= Len(all) THEN Len(all) - 2 + 1 ELSE 0
          /\ \A i \in 1 .. Len(all) - 2 + 1 :
                SubSeq(all, 2, Len(all))[i] = all[2 + i - 1]
        <3> HIDE DEF all
        <3> QED
            BY <1>1, <1>2, <2>2, SubSeqProperties
    <2> HIDE DEF all
    <2>4. /\ Len(SubSeq(all, 2, Len(all))) = Capacity
          /\ \A i \in 1 .. Capacity : SubSeq(all, 2, Len(all))[i] = all[i + 1]
        BY <1>1, <1>2, <1>3, <2>3
    <2> DEFINE kept == Retained(old, e)
    <2>5. kept \in Seq(S) /\ Len(kept) = Capacity
        BY <2>1, <2>3, <2>4
    <2>6. \A i \in 1 .. Capacity : kept[i] = all[i + 1]
        BY <2>1, <2>4
    <2> HIDE DEF kept
    <2>7. kept[Capacity] = e
        BY <1>1, <1>2, <1>3, <2>6
    <2>8. \A i \in 1 .. Capacity - 1 : kept[i] = old[i + 1]
        BY <1>1, <1>2, <1>3, <2>6
    <2>9. Len(old) + 1 - Len(kept) = 1
        BY <1>2, <1>3, <2>5
    <2> QED
        BY <1>2, <1>3, <2>5, <2>7, <2>8, <2>9 DEF kept
<1>4. CASE Len(old) # Capacity
    <2>1. Retained(old, e) = all
        BY <1>1, <1>2, <1>4 DEF Retained
    <2> HIDE DEF all
    <2> QED
        BY <1>1, <1>2, <1>4, <2>1
<1> QED
    BY <1>3, <1>4

(* What the journal retains is the new entry and old ones, within capacity. *)
LEMMA RetainedMembers ==
    ASSUME NEW S, NEW old \in Seq(S), NEW e \in S, Len(old) <= Capacity
    PROVE  /\ Retained(old, e) \in Seq(S)
           /\ Len(Retained(old, e)) <= Capacity
           /\ \A i \in DOMAIN Retained(old, e) :
                 \/ Retained(old, e)[i] = e
                 \/ \E j \in DOMAIN old : Retained(old, e)[i] = old[j]
<1> DEFINE kept == Retained(old, e)
<1>1. /\ kept \in Seq(S)
      /\ kept[Len(kept)] = e
    BY RetainedShape
<1>2. Len(kept) = IF Len(old) = Capacity THEN Capacity ELSE Len(old) + 1
    BY RetainedShape
<1>3. \A i \in 1 .. Len(kept) - 1 :
          kept[i] = old[i + (Len(old) + 1 - Len(kept))]
    BY RetainedShape
<1> HIDE DEF kept
<1>4. Len(old) \in Nat /\ Capacity \in Nat /\ DOMAIN old = 1 .. Len(old)
    BY LenProperties, CapacityIsPositive
<1>5. Len(kept) \in Nat /\ DOMAIN kept = 1 .. Len(kept)
    BY <1>1, LenProperties
<1>6. Len(kept) <= Capacity /\ Len(kept) <= Len(old) + 1
    <2>1. CASE Len(old) = Capacity
        BY <1>2, <1>4, <2>1
    <2>2. CASE Len(old) # Capacity
        <3>1. Len(kept) = Len(old) + 1
            BY <1>2, <2>2
        <3>2. Len(old) + 1 <= Capacity
            <4>1. Len(old) \in Nat /\ Capacity \in Nat /\ Len(old) <= Capacity
                BY <1>4
            <4> QED
                BY <2>2, <4>1
        <3> QED
            BY <1>4, <3>1, <3>2
    <2> QED
        BY <2>1, <2>2
<1>7. ASSUME NEW i \in DOMAIN kept, i # Len(kept)
      PROVE  \E j \in DOMAIN old : kept[i] = old[j]
    <2>1. i \in 1 .. Len(kept) - 1
        BY <1>5, <1>7
    <2>2. i + (Len(old) + 1 - Len(kept)) \in DOMAIN old
        BY <1>4, <1>5, <1>6, <2>1
    <2> QED
        BY <1>3, <2>1, <2>2
<1> QED
    BY <1>1, <1>6, <1>7 DEF kept

-----------------------------------------------------------------------------
(* Typing of the pieces.                                                   *)

(* The paths and values of an experiment, one by one.                      *)
LEMMA PathFacts ==
    /\ Paths = ExperimentPaths
    /\ "on" \in Values /\ "off" \in Values /\ "present" \in Values
    /\ Plans \subseteq Values /\ Variants \subseteq Values /\ Settings \subseteq Values
    /\ None \notin Values
    /\ \A p \in Paths : Holder[p] = IF p \in {"plan", "enabled", "shipped"}
                                    THEN "experiment" ELSE Top
    /\ Top # "experiment"
BY PathsOfAnExperiment, PathsAreTyped DEF ExperimentPaths

(* The rows after scheduleExpiry and clearExpiry are rows, of the same     *)
(* units with the same evidence.                                           *)
LEMMA RowsKeepEvidence ==
    ASSUME TypeOK, NEW new \in {Expiring, Resumed}
    PROVE  /\ new \in [Units -> Rows \cup {NoRow}]
           /\ \A u \in Units :
                 /\ new[u] = NoRow <=> rows[u] = NoRow
                 /\ rows[u] # NoRow =>
                       /\ new[u].variant = rows[u].variant
                       /\ new[u].source = rows[u].source
                       /\ new[u].goal = rows[u].goal
<1>1. rows \in [Units -> Rows \cup {NoRow}] /\ NoRow \notin Rows
    BY EvidenceIsTyped DEF TypeOK
<1>2. ASSUME NEW u \in Units, rows[u] # NoRow, NEW l \in {"active", "closed", "expired"}
      PROVE  LET r == [rows[u] EXCEPT !.life = l] IN
             /\ r \in Rows /\ r # NoRow
             /\ r.variant = rows[u].variant /\ r.source = rows[u].source
             /\ r.goal = rows[u].goal
    BY <1>1, <1>2 DEF Rows
<1>3. CASE new = Expiring
    <2>1. \A u \in Units :
              new[u] = IF rows[u] = NoRow \/ Closed(u) THEN rows[u]
                       ELSE [rows[u] EXCEPT !.life = "closed"]
        BY <1>3 DEF Expiring
    <2>2. new = [u \in Units |-> new[u]]
        BY <1>3 DEF Expiring
    <2>3. \A u \in Units : new[u] \in Rows \cup {NoRow}
        BY <1>1, <1>2, <2>1
    <2> QED
        BY <1>1, <1>2, <2>1, <2>2, <2>3
<1>4. CASE new = Resumed
    <2>1. \A u \in Units :
              new[u] = IF rows[u] = NoRow THEN NoRow
                       ELSE [rows[u] EXCEPT !.life = "active"]
        BY <1>4 DEF Resumed
    <2>2. new = [u \in Units |-> new[u]]
        BY <1>4 DEF Resumed
    <2>3. \A u \in Units : new[u] \in Rows \cup {NoRow}
        BY <1>1, <1>2, <2>1
    <2> QED
        BY <1>1, <1>2, <2>1, <2>2, <2>3
<1> QED
    BY <1>3, <1>4

(* What is held is a finite set.                                           *)
LEMMA HeldIsFinite == IsFiniteSet(Held) /\ Cardinality(Held) \in Nat
<1>1. Held \subseteq Units
    BY DEF Held
<1> QED
    BY <1>1, EvidenceIsTyped, FS_Subset, FS_CardinalityType

(* The parts of the invariant that are about the ledger depend on the      *)
(* units' evidence only.                                                   *)
LEMMA SameEvidence ==
    ASSUME TypeOK, TotalsMatchLedger, LedgerWithinCapacity, totals' = totals,
           \A u \in Units :
              /\ rows'[u] = NoRow <=> rows[u] = NoRow
              /\ rows[u] # NoRow => /\ rows'[u].variant = rows[u].variant
                                    /\ rows'[u].source = rows[u].source
                                    /\ rows'[u].goal = rows[u].goal
    PROVE  TotalsMatchLedger' /\ LedgerWithinCapacity'
<1>1. Held' = Held
    BY DEF Held
<1>2. ASSUME NEW v \in Variants, NEW s \in Sources
      PROVE  Assigned(v, s)' = Assigned(v, s) /\ Converted(v, s)' = Converted(v, s)
    <2>1. Assigned(v, s)' = Assigned(v, s)
        BY <1>1 DEF Assigned, Held
    <2>2. Assigned(v, s) \subseteq Held
        BY DEF Assigned
    <2> QED
        BY <2>1, <2>2 DEF Converted, Held
<1>3. TotalsMatchLedger'
    BY <1>2 DEF TotalsMatchLedger
<1> QED
    BY <1>1, <1>3 DEF LedgerWithinCapacity

-----------------------------------------------------------------------------
(* The control state.                                                      *)

(* What can be made of a state by a mutation or a rollback: a state, and a *)
(* journal that ends with the change, after the recent end of the old one. *)
LEMMA JournaledFacts ==
    ASSUME TypeOK, Len(changes) <= Capacity,
           NEW f \in Changes, NEW g \in Changes, Journaled(f, g)
    PROVE  /\ made' \in Nat
           /\ changes' \in Seq(Halves) /\ Len(changes') <= Capacity
           /\ \A i \in DOMAIN changes' :
                 \/ changes'[i].forward = f /\ changes'[i].inverse = g
                 \/ \E j \in DOMAIN changes : changes'[i] = changes[j]
<1> DEFINE e == [forward |-> f, inverse |-> g]
<1>1. changes \in Seq(Halves) /\ e \in Halves /\ made \in Nat
    BY DEF TypeOK, Halves
<1>2. changes' = Retained(changes, e) /\ made' = made + 1
    BY DEF Journaled
<1>3. e.forward = f /\ e.inverse = g
    OBVIOUS
<1> HIDE DEF e
<1>4. /\ Retained(changes, e) \in Seq(Halves)
      /\ Len(Retained(changes, e)) <= Capacity
      /\ \A i \in DOMAIN Retained(changes, e) :
            \/ Retained(changes, e)[i] = e
            \/ \E j \in DOMAIN changes : Retained(changes, e)[i] = changes[j]
    BY <1>1, RetainedMembers
<1> QED
    BY <1>1, <1>2, <1>3, <1>4

(* A mutation's halves carry the value of "shipped" after and before it.   *)
LEMMA DiffShips ==
    ASSUME NEW a \in Contents, NEW b \in Contents
    PROVE  "shipped" \in DOMAIN Diff(a, b) => Diff(a, b)["shipped"] = b["shipped"]
BY DiffIsChange

ControlOK ==
    /\ st \in States
    /\ made \in Nat
    /\ changes \in Seq(Halves) /\ Len(changes) <= Capacity
    /\ ShippedIsWinner
    /\ ChangesShipTheWinner

(* The journal after a step that adds a change which ships the winner, if  *)
(* anything.                                                               *)
LEMMA JournalStillShipsTheWinner ==
    ASSUME EInv, NEW f \in Changes, NEW g \in Changes, Journaled(f, g),
           decision' = decision, ShipsTheWinner(f), ShipsTheWinner(g)
    PROVE  /\ made' \in Nat
           /\ changes' \in Seq(Halves) /\ Len(changes') <= Capacity
           /\ ChangesShipTheWinner'
<1>1. /\ made' \in Nat
      /\ changes' \in Seq(Halves) /\ Len(changes') <= Capacity
      /\ \A i \in DOMAIN changes' :
            \/ changes'[i].forward = f /\ changes'[i].inverse = g
            \/ \E j \in DOMAIN changes : changes'[i] = changes[j]
    BY JournaledFacts DEF EInv
<1>2. \A v : Won(v)' <=> Won(v)
    BY DEF Won, Shippable
<1>3. \A i \in DOMAIN changes' : /\ ShipsTheWinner(changes'[i].forward)
                                /\ ShipsTheWinner(changes'[i].inverse)
    BY <1>1 DEF EInv, ChangesShipTheWinner
<1>4. ChangesShipTheWinner'
    BY <1>2, <1>3 DEF ChangesShipTheWinner, ShipsTheWinner
<1> QED
    BY <1>1, <1>4

(* A mutation whose result ships nothing, or the winner (_mutate).         *)
LEMMA MutateControl ==
    ASSUME EInv, NEW new, Mutate(new), decision' = decision,
           new["shipped"] # None => Won(new["shipped"])
    PROVE  ControlOK'
<1>1. st \in Contents /\ new \in States /\ new \in Contents
    BY DEF EInv, TypeOK, States, Mutate, ValidState
<1>2. Diff(st, new) \in Changes /\ Diff(new, st) \in Changes
    BY <1>1, DiffIsChange
<1>3. st["shipped"] # None => Won(st["shipped"])
    BY DEF EInv, ShippedIsWinner, Won, Shippable
<1>4. ShipsTheWinner(Diff(st, new)) /\ ShipsTheWinner(Diff(new, st))
    BY <1>1, <1>3, DiffShips DEF ShipsTheWinner
<1>5. Journaled(Diff(st, new), Diff(new, st)) /\ st' = new
    BY DEF Mutate
<1>6. /\ made' \in Nat
      /\ changes' \in Seq(Halves) /\ Len(changes') <= Capacity
      /\ ChangesShipTheWinner'
    BY <1>2, <1>4, <1>5, JournalStillShipsTheWinner
<1>7. ShippedIsWinner'
    BY <1>5 DEF ShippedIsWinner, Won, Shippable
<1> QED
    BY <1>1, <1>5, <1>6, <1>7 DEF ControlOK

(* A rollback brings back what the journal holds: the winner at most.      *)
LEMMA RollbackControl ==
    ASSUME EInv, NEW i \in DOMAIN changes, rollbackConfigChange(i)
    PROVE  ControlOK'
<1> DEFINE f == changes[i].inverse
           g == changes[i].forward
<1>1. changes[i] \in Halves
    <2>1. changes \in Seq(Halves)
        BY DEF EInv, TypeOK
    <2> QED
        BY <2>1, LenProperties, ElementOfSeq
<1>2. f \in Changes /\ g \in Changes
    BY <1>1 DEF Halves
<1>3. ShipsTheWinner(f) /\ ShipsTheWinner(g)
    BY DEF EInv, ChangesShipTheWinner
<1>4. decision' = decision /\ Journaled(f, g) /\ st' = Apply(st, f) /\ st' \in States
    BY DEF rollbackConfigChange, ledgerVars, ValidState
<1>5. /\ made' \in Nat
      /\ changes' \in Seq(Halves) /\ Len(changes') <= Capacity
      /\ ChangesShipTheWinner'
    <2> HIDE DEF f, g
    <2> QED
        BY <1>2, <1>3, <1>4, JournalStillShipsTheWinner
<1>6. st["shipped"] # None => Won(st["shipped"])
    BY DEF EInv, ShippedIsWinner, Won, Shippable
<1>7. "shipped" \in Paths
    BY PathFacts DEF ExperimentPaths
<1>8. st'["shipped"] = IF "shipped" \in DOMAIN f THEN f["shipped"] ELSE st["shipped"]
    BY <1>4, <1>7 DEF Apply
<1>9. st'["shipped"] # None => Won(st'["shipped"])
    BY <1>3, <1>6, <1>8 DEF ShipsTheWinner
<1>10. ShippedIsWinner'
    BY <1>4, <1>9 DEF ShippedIsWinner, Won, Shippable
<1> QED
    BY <1>4, <1>5, <1>10 DEF ControlOK

-----------------------------------------------------------------------------
(* The batch in flight.                                                    *)

(* What _ingest does to the row of the event at hand, as far as the rest   *)
(* of the batch can tell.                                                  *)
RowsAdvance ==
    LET u == Coming.unit IN
    /\ \A w \in Units : w # u => rows'[w] = rows[w]
    /\ IF rows[u] # NoRow
       THEN /\ rows'[u] # NoRow
            /\ rows'[u].variant = rows[u].variant
            /\ rows'[u].source = rows[u].source
            /\ rows'[u].life = rows[u].life
       ELSE IF NewExposure(Coming)
       THEN /\ rows'[u] # NoRow
            /\ rows'[u].variant = Coming.variant
            /\ rows'[u].source = flight.source
            /\ rows'[u].life = "active"
       ELSE rows'[u] = NoRow

(* The event at hand is an event of the batch.                             *)
LEMMA ComingEvent ==
    ASSUME TypeOK, flight # Idle
    PROVE  /\ flight.source \in Sources
           /\ flight.todo \in Seq(Events) /\ flight.todo # <<>>
           /\ Coming = flight.todo[1] /\ Coming \in Events
           /\ Coming.unit \in Units /\ Coming.variant \in Variants
           /\ Coming.kind \in {"exposure", "goal"}
           /\ Coming.kind = "goal" => Coming.value \in Goals
<1>1. /\ flight.source \in Sources
      /\ flight.todo \in Seq(Events) /\ flight.todo # <<>>
    BY DEF TypeOK, Flights
<1>2. Len(flight.todo) \in Nat \ {0} /\ DOMAIN flight.todo = 1 .. Len(flight.todo)
    BY <1>1, EmptySeq, LenProperties
<1>3. Coming = flight.todo[1]
    BY DEF Coming
<1>4. flight.todo[1] \in Events
    BY <1>1, <1>2, ElementOfSeq
<1> QED
    BY <1>1, <1>3, <1>4 DEF Events

(* Lateness of a unit's events does not change within a batch.             *)
LEMMA LateIsStable ==
    ASSUME TypeOK, flight # Idle, RowsAdvance, decision' = decision,
           NEW f \in Events
    PROVE  Late(f)' <=> Late(f)
<1>1. f.unit \in Units
    BY DEF Events
<1>2. Closed(f.unit)' <=> Closed(f.unit)
    BY <1>1 DEF Closed, RowsAdvance
<1> QED
    BY <1>2 DEF Late

(* What _preflight knows of an event holds as well once the events before  *)
(* it have been ingested: an event that it lets through is let through     *)
(* again.                                                                  *)
LEMMA RestStaysClean ==
    ASSUME TypeOK, flight # Idle, RowsAdvance, decision' = decision,
           NEW CONSTANT b, NEW CONSTANT s, b = flight.todo, s = flight.source,
           Clean(b, s)
    PROVE  Clean(Tail(b), s)'
<1> DEFINE c == Tail(b)
           u == b[1].unit
<1>1. b \in Seq(Events) /\ b # <<>> /\ Coming = b[1] /\ u \in Units
    BY ComingEvent
<1>2. /\ Len(b) \in Nat /\ DOMAIN b = 1 .. Len(b) /\ DOMAIN c = 1 .. Len(b) - 1
      /\ \A i \in 1 .. Len(b) - 1 : c[i] = b[i + 1]
    BY <1>1, LenProperties, HeadTailProperties
<1> SUFFICES ASSUME NEW CONSTANT i \in 1 .. Len(b) - 1, Rejects(c, s, i)'
             PROVE  FALSE
    <2>1. Clean(c, s)' <=> \A i \in DOMAIN c : ~Rejects(c, s, i)'
        BY DEF Clean
    <2> QED
        BY <1>2, <2>1
<1> DEFINE f == b[i + 1]
           w == f.unit
<1>3. c[i] = f /\ i + 1 \in DOMAIN b /\ f \in Events /\ w \in Units
      /\ f.variant \in Variants
    <2>1. c[i] = f /\ i + 1 \in DOMAIN b
        BY <1>2
    <2>2. f \in Events
        BY <1>1, <1>2, <2>1, ElementOfSeq
    <2> QED
        BY <2>1, <2>2 DEF Events
<1>4. ~Rejects(b, s, i + 1)
    BY <1>3 DEF Clean
<1>5. ~Late(f)' /\ ~Late(f)
    <2>1. ~Late(f)'
        BY <1>3 DEF Rejects
    <2> QED
        BY <1>3, <2>1, LateIsStable
<1>6. /\ \A v \in Known(b, i + 1) : v = f.variant
      /\ f.kind = "goal" => Known(b, i + 1) # {} /\ ~ForeignRow(w, s)
    BY <1>4, <1>5 DEF Rejects
<1>7. \/ \E v \in Known(c, i)' : v # f.variant
      \/ f.kind = "goal" /\ (Known(c, i)' = {} \/ ForeignRow(w, s)')
    BY <1>3 DEF Rejects
<1>8. CASE rows[w] # NoRow
    <2>1. /\ rows'[w] # NoRow /\ rows'[w].variant = rows[w].variant
          /\ rows'[w].source = rows[w].source
        BY <1>1, <1>3, <1>8 DEF RowsAdvance
    <2>2. Known(b, i + 1) = {rows[w].variant} /\ Known(c, i)' = {rows'[w].variant}
        BY <1>3, <1>8, <2>1 DEF Known
    <2>3. ForeignRow(w, s)' <=> ForeignRow(w, s)
        BY <1>8, <2>1 DEF ForeignRow
    <2> QED
        BY <1>6, <1>7, <2>1, <2>2, <2>3
<1>9. CASE rows[w] = NoRow /\ rows'[w] # NoRow
    <2>1. w = u /\ NewExposure(b[1])
        BY <1>1, <1>3, <1>9 DEF RowsAdvance
    <2>2. rows'[w].variant = b[1].variant /\ rows'[w].source = s
        BY <1>1, <1>9, <2>1 DEF RowsAdvance
    <2>3. b[1].variant \in Known(b, i + 1)
        <3>1. 1 \in {k \in 1 .. (i + 1) - 1 : /\ b[k].unit = b[i + 1].unit
                                             /\ b[k].kind = "exposure"}
            BY <1>2, <2>1 DEF NewExposure
        <3> QED
            BY <1>9, <3>1 DEF Known
    <2>4. Known(c, i)' = {b[1].variant}
        BY <1>3, <1>9, <2>2 DEF Known
    <2>5. ~ForeignRow(w, s)'
        BY <1>9, <2>2 DEF ForeignRow
    <2> QED
        BY <1>6, <1>7, <2>3, <2>4, <2>5
<1>10. CASE rows[w] = NoRow /\ rows'[w] = NoRow
    <2>1. ~(b[1].unit = w /\ b[1].kind = "exposure")
        <3> SUFFICES ASSUME b[1].unit = w, b[1].kind = "exposure" PROVE FALSE
            OBVIOUS
        <3>1. ~Late(b[1])
            BY <1>5, <1>10 DEF Late, Closed
        <3>2. NewExposure(b[1])
            BY <1>10, <3>1 DEF NewExposure
        <3> QED
            BY <1>1, <1>10, <3>2 DEF RowsAdvance
    <2> DEFINE before == {k \in 1 .. (i + 1) - 1 : b[k].unit = w /\ b[k].kind = "exposure"}
               after == {k \in 1 .. i - 1 : c[k].unit = w /\ c[k].kind = "exposure"}
    <2>2. Known(b, i + 1) = {b[k].variant : k \in before}
        BY <1>10 DEF Known
    <2>3. Known(c, i)' = {c[k].variant : k \in after}
        BY <1>3, <1>10 DEF Known
    <2>4. \A k \in after : k + 1 \in before /\ c[k].variant = b[k + 1].variant
        BY <1>2
    <2>5. \A k \in before : k - 1 \in after /\ b[k].variant = c[k - 1].variant
        <3> SUFFICES ASSUME NEW k \in before
                     PROVE  k - 1 \in after /\ b[k].variant = c[k - 1].variant
            OBVIOUS
        <3>1. k # 1
            BY <2>1
        <3>2. k - 1 \in 1 .. i - 1 /\ c[k - 1] = b[k]
            BY <1>2, <3>1
        <3> QED
            BY <3>2
    <2> HIDE DEF before, after, c
    <2>6. Known(c, i)' = Known(b, i + 1)
        <3>1. \A x \in {c[k].variant : k \in after} : x \in {b[k].variant : k \in before}
            BY <2>4
        <3>2. \A x \in {b[k].variant : k \in before} : x \in {c[k].variant : k \in after}
            BY <2>5
        <3> QED
            BY <2>2, <2>3, <3>1, <3>2
    <2>7. ForeignRow(w, s)' <=> ForeignRow(w, s)
        BY <1>10 DEF ForeignRow
    <2> QED
        BY <1>6, <1>7, <2>6, <2>7
<1> QED
    BY <1>8, <1>9, <1>10


(* The rows that the rest of the batch will add still fit.                 *)
LEMMA RestStillFits ==
    ASSUME TypeOK, flight # Idle, RowsAdvance, decision' = decision,
           NEW CONSTANT b, b = flight.todo, Fits(b, Len(b))
    PROVE  /\ Fits(Tail(b), Len(b) - 1)'
           /\ Cardinality(Held') <= MaxRows
<1> DEFINE c == Tail(b)
           u == b[1].unit
           old == New(b, Len(b))
           new == New(c, Len(b) - 1)'
<1>1. b \in Seq(Events) /\ b # <<>> /\ Coming = b[1] /\ u \in Units /\ b[1] \in Events
    BY ComingEvent
<1>2. /\ Len(b) \in Nat \ {0} /\ DOMAIN b = 1 .. Len(b)
      /\ \A i \in 1 .. Len(b) - 1 : c[i] = b[i + 1]
    BY <1>1, EmptySeq, LenProperties, HeadTailProperties
<1>3. \A i \in 1 .. Len(b) : b[i] \in Events /\ b[i].unit \in Units
    <2>1. \A i \in 1 .. Len(b) : b[i] \in Events
        BY <1>1, <1>2, ElementOfSeq
    <2> QED
        BY <2>1 DEF Events
<1>4. old \subseteq Units
    BY <1>2, <1>3 DEF New
<1>5. IsFiniteSet(old) /\ IsFiniteSet(Held) /\ IsFiniteSet(Held')
    <2>1. Held \subseteq Units /\ Held' \subseteq Units
        BY DEF Held
    <2> HIDE DEF old
    <2> QED
        BY <1>4, <2>1, EvidenceIsTyped, FS_Subset
<1>6. new \subseteq old /\ (NewExposure(b[1]) => u \notin new)
    <2> SUFFICES ASSUME NEW k \in 1 .. Len(b) - 1, c[k].kind = "exposure",
                        ~Late(c[k])', rows'[c[k].unit] = NoRow
                 PROVE  c[k].unit \in old /\ (NewExposure(b[1]) => c[k].unit # u)
        BY DEF New
    <2>1. c[k] = b[k + 1] /\ k + 1 \in 1 .. Len(b)
        BY <1>2
    <2>2. b[k + 1] \in Events /\ b[k + 1].unit \in Units
        BY <1>3, <2>1
    <2>3. ~Late(b[k + 1])
        BY <2>1, <2>2, LateIsStable
    <2>4. rows[b[k + 1].unit] = NoRow
        BY <1>1, <2>1, <2>2 DEF RowsAdvance
    <2>5. NewExposure(b[1]) => b[k + 1].unit # u
        BY <1>1, <2>1, <2>4 DEF RowsAdvance
    <2> QED
        BY <2>1, <2>3, <2>4, <2>5 DEF New
<1>7. IsFiniteSet(new)
    <2> HIDE DEF old, new
    <2> QED
        BY <1>5, <1>6, FS_Subset
<1>8. Cardinality(old) + Cardinality(Held) <= MaxRows
    BY DEF Fits
<1>9. /\ Cardinality(old) \in Nat /\ Cardinality(Held) \in Nat
      /\ Cardinality(new) \in Nat /\ Cardinality(Held') \in Nat
    <2> HIDE DEF old, new
    <2> QED
        BY <1>5, <1>7, FS_CardinalityType
<1>10. CASE NewExposure(b[1])
    <2>1. u \in old
        BY <1>1, <1>2, <1>10 DEF New, NewExposure
    <2>2. u \notin Held
        BY <1>10 DEF NewExposure, Held
    <2>3. Held' = Held \cup {u}
        BY <1>1, <1>10 DEF Held, RowsAdvance, NewExposure
    <2>4. u \notin new /\ new \cup {u} \subseteq old
        BY <1>6, <1>10, <2>1
    <2> HIDE DEF old, new, u
    <2>5. Cardinality(Held') = Cardinality(Held) + 1
        BY <1>5, <2>2, <2>3, FS_AddElement
    <2>6. Cardinality(new \cup {u}) = Cardinality(new) + 1
        BY <1>7, <2>4, FS_AddElement
    <2>7. Cardinality(new \cup {u}) <= Cardinality(old)
        BY <1>5, <2>4, FS_Subset
    <2>8. Cardinality(new) + Cardinality(Held') <= MaxRows
        BY <1>8, <1>9, <2>5, <2>6, <2>7, EvidenceIsTyped
    <2> QED
        BY <1>9, <2>8, EvidenceIsTyped DEF Fits, new
<1>11. CASE ~NewExposure(b[1])
    <2>1. Held' = Held
        BY <1>1, <1>11 DEF Held, RowsAdvance
    <2> HIDE DEF old, new, u
    <2>2. Cardinality(new) <= Cardinality(old)
        BY <1>5, <1>6, FS_Subset
    <2>3. Cardinality(new) + Cardinality(Held') <= MaxRows
        BY <1>8, <1>9, <2>1, <2>2, EvidenceIsTyped
    <2> QED
        BY <1>9, <2>3, EvidenceIsTyped DEF Fits, new
<1> QED
    BY <1>10, <1>11

(* A step within a batch leaves the rest of it clean, and the ledger       *)
(* within its capacity.                                                    *)
LEMMA FlightAdvances ==
    ASSUME EInv, flight # Idle, RowsAdvance, decision' = decision,
           flight' = Afterwards
    PROVE  /\ flight' \in Flights \cup {Idle}
           /\ FlightStaysClean' /\ LedgerWithinCapacity'
<1>1. PICK b : b = flight.todo
    OBVIOUS
<1>2. PICK s : s = flight.source
    OBVIOUS
<1>3. TypeOK /\ Clean(b, s) /\ Fits(b, Len(b))
    BY <1>1, <1>2 DEF EInv, FlightStaysClean
<1>4. b \in Seq(Events) /\ b # <<>> /\ s \in Sources
    BY <1>1, <1>2, <1>3, ComingEvent
<1>5. /\ Tail(b) \in Seq(Events) /\ Len(Tail(b)) = Len(b) - 1
      /\ Len(b) \in Nat \ {0}
    BY <1>4, EmptySeq, LenProperties, HeadTailProperties
<1>6. Clean(Tail(b), s)'
    BY <1>1, <1>2, <1>3, RestStaysClean
<1>7. Fits(Tail(b), Len(b) - 1)' /\ Cardinality(Held') <= MaxRows
    BY <1>1, <1>3, RestStillFits
<1>8. LedgerWithinCapacity'
    BY <1>7 DEF LedgerWithinCapacity
<1>9. CASE Len(b) = 1
    BY <1>1, <1>8, <1>9 DEF Afterwards, FlightStaysClean
<1>10. CASE Len(b) # 1
    <2>1. flight = [source |-> s, todo |-> b]
        BY <1>1, <1>2 DEF EInv, TypeOK, Flights
    <2>2. flight' = [source |-> s, todo |-> Tail(b)]
        <3>1. flight' = [flight EXCEPT !.todo = Tail(b)]
            BY <1>1, <1>10 DEF Afterwards
        <3> QED
            BY <2>1, <3>1
    <2>3. Tail(b) # <<>>
        BY <1>5, <1>10
    <2>4. flight' \in Flights
        BY <1>4, <1>5, <2>2, <2>3 DEF Flights
    <2>5. flight'.todo = Tail(b) /\ flight'.source = s
        BY <2>2
    <2> QED
        BY <1>5, <1>6, <1>7, <1>8, <2>4, <2>5 DEF FlightStaysClean
<1> QED
    BY <1>9, <1>10


-----------------------------------------------------------------------------
(* The invariant holds initially.                                          *)
LEMMA InitEInv == Init => EInv
<1> SUFFICES ASSUME Init PROVE EInv
    OBVIOUS
<1>1. \A p \in Paths : st[p] = None
    BY DEF Init
<1>2. st \in States
    <2>1. \A p \in Paths : Holder[p] # Top => Holder[p] \in Paths
        BY PathsAreTyped
    <2> QED
        BY <1>1 DEF Init, States, Contents, WellFormed
<1>3. changes = <<>> /\ changes \in Seq(Halves) /\ Len(changes) = 0
    BY DEF Init
<1>4. TypeOK
    BY <1>2, <1>3 DEF Init, TypeOK
<1>5. Held = {} /\ Cardinality(Held) = 0
    BY FS_EmptySet DEF Held, Init
<1>6. \A v \in Variants, s \in Sources : Assigned(v, s) = {} /\ Converted(v, s) = {}
    BY <1>5 DEF Assigned, Converted
<1>7. TotalsMatchLedger
    BY <1>6, FS_EmptySet DEF Init, TotalsMatchLedger
<1>8. LedgerWithinCapacity
    BY <1>5, EvidenceIsTyped DEF LedgerWithinCapacity
<1>9. FlightStaysClean
    BY DEF Init, FlightStaysClean
<1>10. ShippedIsWinner
    <2>1. "shipped" \in Paths
        BY PathFacts DEF ExperimentPaths
    <2> QED
        BY <1>1, <2>1 DEF ShippedIsWinner
<1>11. ChangesShipTheWinner
    BY <1>3 DEF ChangesShipTheWinner
<1> QED
    BY <1>3, <1>4, <1>7, <1>8, <1>9, <1>10, <1>11, CapacityIsPositive DEF EInv

(* Counting stays counting.                                                *)
LEMMA CountedIsNat ==
    ASSUME TypeOK, NEW n \in Nat
    PROVE  Counted(n) \in Nat
BY EvidenceIsTyped DEF TypeOK, Counted

(* An untrusted source counts once.                                        *)
LEMMA UntrustedIsNat == \A s : Untrusted(s) \in Nat
BY DEF Untrusted

(* The control state and the decision are out of an ingest step's reach.   *)
LEMMA ControlUntouched ==
    ASSUME EInv, UNCHANGED <<st, changes, made, decision>>
    PROVE  ControlOK'
BY DEF EInv, TypeOK, ControlOK, ShippedIsWinner, ChangesShipTheWinner,
    ShipsTheWinner, Won, Shippable

(* A batch is admitted when it is clean and fits (ingestBatch).            *)
LEMMA IngestEInv ==
    ASSUME EInv, NEW b \in Batches, NEW s \in Sources, ingestBatch(b, s)
    PROVE  EInv'
<1>1. UNCHANGED <<st, changes, made, rows, totals, faults, decision, due>>
    BY DEF ingestBatch, controlVars, ledgerVars
<1>2. b \in Seq(Events) \ {<<>>}
    BY EvidenceIsTyped
<1>3. flight' = [source |-> s, todo |-> b] /\ flight' \in Flights
    BY <1>2 DEF ingestBatch, Flights
<1>4. TypeOK'
    BY <1>1, <1>3 DEF EInv, TypeOK
<1>5. Clean(b, s)' /\ Fits(b, Len(b))'
    BY <1>1 DEF ingestBatch, Clean, Rejects, Late, Closed, Known, ForeignRow,
        Fits, New, Held
<1>6. FlightStaysClean'
    <2>1. flight'.source = s /\ flight'.todo = b
        BY <1>3
    <2> QED
        BY <1>5, <2>1 DEF FlightStaysClean
<1>7. TotalsMatchLedger' /\ LedgerWithinCapacity'
    BY <1>1 DEF EInv, TotalsMatchLedger, Assigned, Converted, Held,
        LedgerWithinCapacity
<1> QED
    BY <1>1, <1>4, <1>6, <1>7, ControlUntouched DEF EInv, ControlOK

(* Steps that leave the batch, the evidence of the rows and the control    *)
(* state as they are.                                                      *)
LEMMA EvidenceUntouched ==
    ASSUME EInv, flight = Idle, flight' = flight, UNCHANGED totals,
           ControlOK', due' \in BOOLEAN, faults' \in Nat,
           decision' \in Decisions \cup {NoDecision},
           rows' \in [Units -> Rows \cup {NoRow}],
           \A u \in Units :
              /\ rows'[u] = NoRow <=> rows[u] = NoRow
              /\ rows[u] # NoRow => /\ rows'[u].variant = rows[u].variant
                                    /\ rows'[u].source = rows[u].source
                                    /\ rows'[u].goal = rows[u].goal
    PROVE  EInv'
<1>1. TypeOK /\ TotalsMatchLedger /\ LedgerWithinCapacity
    BY DEF EInv
<1>2. TypeOK'
    BY <1>1 DEF TypeOK, ControlOK
<1>3. TotalsMatchLedger' /\ LedgerWithinCapacity'
    BY <1>1, SameEvidence
<1>4. FlightStaysClean'
    BY DEF FlightStaysClean
<1> QED
    BY <1>2, <1>3, <1>4 DEF EInv, ControlOK


(* Rows that are left alone keep their evidence.                           *)
LEMMA SameRows ==
    ASSUME EInv, rows' = rows
    PROVE  /\ rows' \in [Units -> Rows \cup {NoRow}]
           /\ \A u \in Units :
                 /\ rows'[u] = NoRow <=> rows[u] = NoRow
                 /\ rows[u] # NoRow => /\ rows'[u].variant = rows[u].variant
                                       /\ rows'[u].source = rows[u].source
                                       /\ rows'[u].goal = rows[u].goal
BY DEF EInv, TypeOK

(* A dropped batch changes a counter only (ingestBatch).                   *)
LEMMA RejectEInv ==
    ASSUME EInv, NEW b \in Batches, NEW s \in Sources, RejectBatch(b, s)
    PROVE  EInv'
<1>1. UNCHANGED <<st, changes, made, rows, totals, decision, due, flight>> /\ flight = Idle
    BY DEF RejectBatch, controlVars, Receivable
<1>2. b \in Seq(Events)
    BY EvidenceIsTyped
<1>3. 1 + Len(b) * Untrusted(s) \in Nat
    <2>1. Len(b) \in Nat
        BY <1>2, LenProperties
    <2> QED
        BY <2>1 DEF Untrusted
<1>4. faults' \in Nat
    BY <1>3, CountedIsNat DEF RejectBatch, EInv
<1>5. ControlOK'
    BY <1>1, ControlUntouched
<1>6. due' \in BOOLEAN /\ decision' \in Decisions \cup {NoDecision}
    BY <1>1 DEF EInv, TypeOK
<1> QED
    BY <1>1, <1>4, <1>5, <1>6, SameRows, EvidenceUntouched

(* Time passes without a trace in the ledger or the control state.         *)
LEMMA DueEInv ==
    ASSUME EInv, AnalysisDue
    PROVE  EInv'
<1>1. /\ UNCHANGED <<st, changes, made, rows, totals, faults, decision, flight>>
      /\ flight = Idle /\ due' = TRUE
    BY DEF AnalysisDue, controlVars, ledgerVars
<1>2. ControlOK'
    BY <1>1, ControlUntouched
<1>3. faults' \in Nat /\ decision' \in Decisions \cup {NoDecision}
    BY <1>1 DEF EInv, TypeOK
<1> QED
    BY <1>1, <1>2, <1>3, SameRows, EvidenceUntouched

(* Retention marks rows, and nothing else.                                 *)
LEMMA RetentionEInv ==
    ASSUME EInv, RetentionElapses
    PROVE  EInv'
<1>1. /\ UNCHANGED <<st, changes, made, totals, faults, decision, due, flight>>
      /\ flight = Idle
    BY DEF RetentionElapses, controlVars
<1>2. ControlOK'
    BY <1>1, ControlUntouched
<1>3. /\ faults' \in Nat /\ decision' \in Decisions \cup {NoDecision}
      /\ due' \in BOOLEAN /\ rows \in [Units -> Rows \cup {NoRow}]
    BY <1>1 DEF EInv, TypeOK
<1>4. ASSUME NEW u \in Units
      PROVE  /\ rows'[u] \in Rows \cup {NoRow}
             /\ rows'[u] = NoRow <=> rows[u] = NoRow
             /\ rows[u] # NoRow => /\ rows'[u].variant = rows[u].variant
                                   /\ rows'[u].source = rows[u].source
                                   /\ rows'[u].goal = rows[u].goal
    <2>1. rows'[u] = IF rows[u] = NoRow \/ ~Closed(u) THEN rows[u]
                     ELSE [rows[u] EXCEPT !.life = "expired"]
        BY DEF RetentionElapses
    <2>2. CASE rows[u] = NoRow \/ ~Closed(u)
        BY <1>3, <2>1, <2>2
    <2>3. CASE ~(rows[u] = NoRow \/ ~Closed(u))
        <3>1. rows[u] \in Rows /\ rows'[u] = [rows[u] EXCEPT !.life = "expired"]
            BY <1>3, <2>1, <2>3
        <3>2. rows'[u] \in Rows /\ rows'[u].variant = rows[u].variant
              /\ rows'[u].source = rows[u].source /\ rows'[u].goal = rows[u].goal
            BY <3>1 DEF Rows
        <3> QED
            BY <2>3, <3>2, EvidenceIsTyped
    <2> QED
        BY <2>2, <2>3
<1>5. rows' \in [Units -> Rows \cup {NoRow}]
    <2>1. rows' = [u \in Units |-> rows'[u]]
        BY DEF RetentionElapses
    <2> QED
        BY <1>4, <2>1
<1> QED
    BY <1>1, <1>2, <1>3, <1>4, <1>5, EvidenceUntouched

(* A repeated analysis closes rows and decides nothing (experimentStats).  *)
LEMMA AnalyzeAgainEInv ==
    ASSUME EInv, AnalyzeAgain
    PROVE  EInv'
<1>1. /\ UNCHANGED <<st, changes, made, totals, faults, decision, due, flight>>
      /\ flight = Idle /\ rows' = Expiring
    BY DEF AnalyzeAgain, controlVars
<1>2. ControlOK'
    BY <1>1, ControlUntouched
<1>3. /\ faults' \in Nat /\ decision' \in Decisions \cup {NoDecision}
      /\ due' \in BOOLEAN /\ TypeOK
    BY <1>1 DEF EInv, TypeOK
<1> QED
    BY <1>1, <1>2, <1>3, RowsKeepEvidence, EvidenceUntouched

(* The first verdict: no variant can have been shipped before it.          *)
LEMMA DecideEInv ==
    ASSUME EInv, NEW leader \in Variants, Decide(leader)
    PROVE  EInv'
<1>1. /\ UNCHANGED <<st, changes, made, totals, faults, due, flight>>
      /\ flight = Idle /\ rows' = Expiring /\ decision = NoDecision
    BY DEF Decide, controlVars
<1>2. /\ faults' \in Nat /\ due' \in BOOLEAN /\ TypeOK
    BY <1>1 DEF EInv, TypeOK
<1>3. decision' \in Decisions
    <2>1. PICK o \in Verdicts :
              decision' = [status |-> o.status, leader |-> leader, healthy |-> o.healthy]
        BY DEF Decide
    <2>2. o.status \in Statuses /\ o.healthy \in BOOLEAN
        BY <2>1 DEF Verdicts, Statuses
    <2> QED
        BY <2>1, <2>2 DEF Decisions
<1>4. ~Shippable
    BY <1>1 DEF Shippable
<1>5. ControlOK'
    <2>1. st["shipped"] = None
        BY <1>1 DEF EInv, ShippedIsWinner
    <2>2. ShippedIsWinner'
        BY <1>1, <2>1 DEF ShippedIsWinner
    <2>3. \A i \in DOMAIN changes :
             /\ ~("shipped" \in DOMAIN changes[i].forward
                  /\ changes[i].forward["shipped"] # None)
             /\ ~("shipped" \in DOMAIN changes[i].inverse
                  /\ changes[i].inverse["shipped"] # None)
        BY <1>4 DEF EInv, ChangesShipTheWinner, ShipsTheWinner, Won
    <2>4. ChangesShipTheWinner'
        BY <1>1, <2>3 DEF ChangesShipTheWinner, ShipsTheWinner
    <2> QED
        BY <1>1, <2>2, <2>4 DEF ControlOK, EInv, TypeOK
<1> QED
    BY <1>1, <1>2, <1>3, <1>5, RowsKeepEvidence, EvidenceUntouched


-----------------------------------------------------------------------------
(* Mutations.                                                              *)

(* An edited plan ships nothing (upsertExperiment).                        *)
LEMMA UpsertEInv ==
    ASSUME EInv, NEW plan \in Plans, NEW flag \in {"on", "off"},
           upsertExperiment(plan, flag)
    PROVE  EInv'
<1> DEFINE new == [st EXCEPT !["experiment"] = "present", !["plan"] = plan,
                             !["enabled"] = flag, !["shipped"] = None]
<1>1. /\ UNCHANGED <<rows, totals, faults, decision, due, flight>>
      /\ Mutate(new)
    BY DEF upsertExperiment, ledgerVars
<1>2. new["shipped"] = None
    <2>1. st \in Contents /\ "shipped" \in Paths
        BY PathFacts DEF EInv, TypeOK, States, ExperimentPaths
    <2> QED
        BY <2>1 DEF Contents
<1>3. ControlOK'
    <2> HIDE DEF new
    <2> QED
        BY <1>1, <1>2, MutateControl
<1>4. flight = Idle
    BY <1>1 DEF Mutate
<1>5. /\ faults' \in Nat /\ decision' \in Decisions \cup {NoDecision}
      /\ due' \in BOOLEAN
    BY <1>1 DEF EInv, TypeOK
<1> QED
    BY <1>1, <1>3, <1>4, <1>5, SameRows, EvidenceUntouched

(* Enabling and disabling keep the shipped variant (setExperimentEnabled). *)
LEMMA SetEnabledEInv ==
    ASSUME EInv, NEW flag \in {"on", "off"}, NEW completes \in BOOLEAN,
           setExperimentEnabled(flag, completes)
    PROVE  EInv'
<1> DEFINE new == [st EXCEPT !["enabled"] = flag]
<1>1. /\ UNCHANGED <<totals, faults, decision, due, flight>>
      /\ Mutate(new)
      /\ rows' \in {rows, Resumed, Expiring}
    BY DEF setExperimentEnabled
<1>2. new["shipped"] = st["shipped"]
    <2>1. st \in Contents /\ "shipped" \in Paths
        BY PathFacts DEF EInv, TypeOK, States, ExperimentPaths
    <2> QED
        BY <2>1 DEF Contents
<1>3. new["shipped"] # None => Won(new["shipped"])
    BY <1>2 DEF EInv, ShippedIsWinner, Won, Shippable
<1>4. ControlOK'
    <2> HIDE DEF new
    <2> QED
        BY <1>1, <1>3, MutateControl
<1>5. flight = Idle
    BY <1>1 DEF Mutate
<1>6. /\ faults' \in Nat /\ decision' \in Decisions \cup {NoDecision}
      /\ due' \in BOOLEAN /\ TypeOK
    BY <1>1 DEF EInv, TypeOK
<1>7. CASE rows' = rows
    BY <1>1, <1>4, <1>5, <1>6, <1>7, SameRows, EvidenceUntouched
<1>8. CASE rows' \in {Resumed, Expiring}
    BY <1>1, <1>4, <1>5, <1>6, <1>8, RowsKeepEvidence, EvidenceUntouched
<1> QED
    BY <1>1, <1>7, <1>8

(* Shipping marks the leader of a healthy win (shipExperiment).            *)
LEMMA ShipEInv ==
    ASSUME EInv, shipExperiment
    PROVE  EInv'
<1> DEFINE new == [st EXCEPT !["value"] = ValueIn[st["plan"]][decision.leader],
                             !["enabled"] = "off", !["shipped"] = decision.leader]
<1>1. /\ UNCHANGED <<totals, faults, decision, due, flight>>
      /\ Mutate(new) /\ Shippable
      /\ rows' = Expiring
    BY DEF shipExperiment
<1>2. new["shipped"] = decision.leader
    <2>1. st \in Contents /\ "shipped" \in Paths
        BY PathFacts DEF EInv, TypeOK, States, ExperimentPaths
    <2> QED
        BY <2>1 DEF Contents
<1>3. Won(new["shipped"])
    BY <1>1, <1>2 DEF Won
<1>4. ControlOK'
    <2> HIDE DEF new
    <2> QED
        BY <1>1, <1>3, MutateControl
<1>5. flight = Idle
    BY <1>1 DEF Mutate
<1>6. /\ faults' \in Nat /\ decision' \in Decisions \cup {NoDecision}
      /\ due' \in BOOLEAN /\ TypeOK
    BY <1>1 DEF EInv, TypeOK
<1> QED
    BY <1>1, <1>4, <1>5, <1>6, RowsKeepEvidence, EvidenceUntouched

(* A rollback leaves the ledger alone (rollbackConfigChange).              *)
LEMMA RollbackEInv ==
    ASSUME EInv, NEW i \in DOMAIN changes, rollbackConfigChange(i)
    PROVE  EInv'
<1>1. UNCHANGED <<rows, totals, faults, decision, due, flight>> /\ flight = Idle
    BY DEF rollbackConfigChange, ledgerVars
<1>2. ControlOK'
    BY RollbackControl
<1>3. /\ faults' \in Nat /\ decision' \in Decisions \cup {NoDecision}
      /\ due' \in BOOLEAN
    BY <1>1 DEF EInv, TypeOK
<1> QED
    BY <1>1, <1>2, <1>3, SameRows, EvidenceUntouched

-----------------------------------------------------------------------------
(* Ingest steps.                                                           *)

(* A step within a batch that leaves the totals and the ledger in          *)
(* agreement preserves the invariant.                                      *)
LEMMA BatchStep ==
    ASSUME EInv, flight # Idle, RowsAdvance, flight' = Afterwards,
           UNCHANGED <<st, changes, made, decision, due>>,
           rows' \in [Units -> Rows \cup {NoRow}],
           totals' \in [Variants -> [Sources -> [exposures : Nat, goals : Nat]]],
           faults' \in Nat, TotalsMatchLedger'
    PROVE  EInv'
<1>1. /\ flight' \in Flights \cup {Idle}
      /\ FlightStaysClean' /\ LedgerWithinCapacity'
    BY FlightAdvances
<1>2. ControlOK'
    BY ControlUntouched
<1>3. TypeOK'
    BY <1>1, <1>2 DEF EInv, TypeOK, ControlOK
<1> QED
    BY <1>1, <1>2, <1>3 DEF EInv, ControlOK

(* What is not accepted changes a counter only (_ingest).                  *)
LEMMA CountOnlyEInv ==
    ASSUME EInv, CountOnly
    PROVE  EInv'
<1>1. /\ UNCHANGED <<st, changes, made, rows, totals, decision, due>>
      /\ flight # Idle /\ flight' = Afterwards /\ ~NewExposure(Coming)
      /\ faults' = Counted(1 + Untrusted(flight.source))
    BY DEF CountOnly, controlVars
<1>2. RowsAdvance
    BY <1>1 DEF RowsAdvance
<1>3. TotalsMatchLedger'
    BY <1>1 DEF EInv, TotalsMatchLedger, Assigned, Converted, Held
<1>4. faults' \in Nat
    <2>1. 1 + Untrusted(flight.source) \in Nat
        BY UntrustedIsNat
    <2> QED
        BY <1>1, <2>1, CountedIsNat DEF EInv
<1>5. /\ rows' \in [Units -> Rows \cup {NoRow}]
      /\ totals' \in [Variants -> [Sources -> [exposures : Nat, goals : Nat]]]
    BY <1>1 DEF EInv, TypeOK
<1> QED
    BY <1>1, <1>2, <1>3, <1>4, <1>5, BatchStep


(* The units of a variant and a source are finite sets.                    *)
LEMMA AssignedAreFinite ==
    ASSUME NEW v, NEW s
    PROVE  IsFiniteSet(Assigned(v, s)) /\ IsFiniteSet(Converted(v, s))
<1>1. Assigned(v, s) \subseteq Held /\ Converted(v, s) \subseteq Held
    BY DEF Assigned, Converted
<1> QED
    BY <1>1, HeldIsFinite, FS_Subset

(* The first exposure of a unit adds its row and counts it once.           *)
LEMMA AcceptExposureEInv ==
    ASSUME EInv, AcceptExposure
    PROVE  EInv'
<1>1. PICK e : e = Coming
    OBVIOUS
<1>2. PICK s : s = flight.source
    OBVIOUS
<1> DEFINE r == [variant |-> e.variant, source |-> s, goal |-> NoGoal, life |-> "active"]
<1>3. /\ UNCHANGED <<st, changes, made, decision, due>>
      /\ flight # Idle /\ flight' = Afterwards /\ NewExposure(e)
      /\ faults' = Counted(Untrusted(s))
      /\ rows' = [rows EXCEPT ![e.unit] = r]
      /\ totals' = [totals EXCEPT ![e.variant][s].exposures = @ + 1]
    BY <1>1, <1>2 DEF AcceptExposure, controlVars
<1>4. TypeOK /\ TotalsMatchLedger
    BY DEF EInv
<1>5. s \in Sources /\ e.unit \in Units /\ e.variant \in Variants
    BY <1>1, <1>2, <1>3, <1>4, ComingEvent
<1>6. r \in Rows /\ r # NoRow
    BY <1>5, EvidenceIsTyped DEF Rows
<1>7. /\ rows \in [Units -> Rows \cup {NoRow}]
      /\ totals \in [Variants -> [Sources -> [exposures : Nat, goals : Nat]]]
    BY <1>4 DEF TypeOK
<1>8. rows[e.unit] = NoRow
    BY <1>3 DEF NewExposure
<1>9. /\ r.variant = e.variant /\ r.source = s /\ r.goal = NoGoal /\ r.life = "active"
    OBVIOUS
<1> HIDE DEF r
<1>10. /\ rows' \in [Units -> Rows \cup {NoRow}]
       /\ rows'[e.unit] = r /\ \A w \in Units : w # e.unit => rows'[w] = rows[w]
    BY <1>3, <1>5, <1>6, <1>7
<1>11. RowsAdvance
    BY <1>1, <1>2, <1>3, <1>6, <1>8, <1>9, <1>10 DEF RowsAdvance
<1>12. faults' \in Nat
    BY <1>3, <1>4, UntrustedIsNat, CountedIsNat
<1>13. /\ totals' \in [Variants -> [Sources -> [exposures : Nat, goals : Nat]]]
       /\ \A v \in Variants, z \in Sources :
             /\ totals'[v][z].goals = totals[v][z].goals
             /\ totals'[v][z].exposures =
                   IF v = e.variant /\ z = s THEN totals[v][z].exposures + 1
                   ELSE totals[v][z].exposures
    BY <1>3, <1>5, <1>7
<1>14. Held' = Held \cup {e.unit} /\ e.unit \notin Held
    BY <1>5, <1>6, <1>8, <1>10 DEF Held
<1>15. ASSUME NEW v \in Variants, NEW z \in Sources
       PROVE  /\ Converted(v, z)' = Converted(v, z)
              /\ Assigned(v, z)' = IF v = e.variant /\ z = s
                                   THEN Assigned(v, z) \cup {e.unit}
                                   ELSE Assigned(v, z)
    <2>1. Held \subseteq Units
        BY DEF Held
    <2>2. Assigned(v, z)' = IF v = e.variant /\ z = s
                            THEN Assigned(v, z) \cup {e.unit} ELSE Assigned(v, z)
        BY <1>9, <1>10, <1>14, <2>1 DEF Assigned
    <2>3. Assigned(v, z) \subseteq Held
        BY DEF Assigned
    <2>4. Converted(v, z)' = Converted(v, z)
        BY <1>9, <1>10, <1>14, <2>1, <2>2, <2>3 DEF Converted
    <2> QED
        BY <2>2, <2>4
<1>16. TotalsMatchLedger'
    <2> SUFFICES ASSUME NEW v \in Variants, NEW z \in Sources
                 PROVE  /\ totals'[v][z].exposures = Cardinality(Assigned(v, z)')
                        /\ totals'[v][z].goals = Cardinality(Converted(v, z)')
        BY DEF TotalsMatchLedger
    <2>1. /\ totals[v][z].exposures = Cardinality(Assigned(v, z))
          /\ totals[v][z].goals = Cardinality(Converted(v, z))
        BY <1>4 DEF TotalsMatchLedger
    <2>2. e.unit \notin Assigned(v, z)
        BY <1>14 DEF Assigned
    <2>3. Cardinality(Assigned(v, z) \cup {e.unit}) = Cardinality(Assigned(v, z)) + 1
        BY <2>2, AssignedAreFinite, FS_AddElement
    <2>4. /\ totals'[v][z].goals = totals[v][z].goals
          /\ Converted(v, z)' = Converted(v, z)
        BY <1>13, <1>15
    <2>5. CASE v = e.variant /\ z = s
        <3>1. /\ totals'[v][z].exposures = totals[v][z].exposures + 1
              /\ Assigned(v, z)' = Assigned(v, z) \cup {e.unit}
            BY <1>13, <1>15, <2>5
        <3> QED
            BY <2>1, <2>3, <2>4, <3>1
    <2>6. CASE ~(v = e.variant /\ z = s)
        <3>1. /\ totals'[v][z].exposures = totals[v][z].exposures
              /\ Assigned(v, z)' = Assigned(v, z)
            BY <1>13, <1>15, <2>6
        <3> QED
            BY <2>1, <2>4, <3>1
    <2> QED
        BY <2>5, <2>6
<1> QED
    BY <1>3, <1>10, <1>11, <1>12, <1>13, <1>16, BatchStep

(* The first goal of an exposed unit converts it and counts once.          *)
LEMMA AcceptGoalEInv ==
    ASSUME EInv, AcceptGoal
    PROVE  EInv'
<1>1. PICK e : e = Coming
    OBVIOUS
<1>2. PICK s : s = flight.source
    OBVIOUS
<1>3. /\ UNCHANGED <<st, changes, made, decision, due>>
      /\ flight # Idle /\ flight' = Afterwards /\ NewGoal(e, s)
      /\ faults' = Counted(Untrusted(s))
      /\ rows' = [rows EXCEPT ![e.unit].goal = e.value]
      /\ totals' = [totals EXCEPT ![e.variant][s].goals = @ + 1]
    BY <1>1, <1>2 DEF AcceptGoal, controlVars
<1>4. TypeOK /\ TotalsMatchLedger
    BY DEF EInv
<1>5. /\ s \in Sources /\ e.unit \in Units /\ e.variant \in Variants
      /\ e.value \in Goals
    <2>1. e.kind # "exposure"
        BY <1>3 DEF NewGoal
    <2> QED
        BY <1>1, <1>2, <1>3, <1>4, <2>1, ComingEvent
<1>6. /\ rows \in [Units -> Rows \cup {NoRow}]
      /\ totals \in [Variants -> [Sources -> [exposures : Nat, goals : Nat]]]
    BY <1>4 DEF TypeOK
<1>7. /\ rows[e.unit] # NoRow /\ rows[e.unit].variant = e.variant
      /\ rows[e.unit].source = s /\ rows[e.unit].goal = NoGoal
    BY <1>3 DEF NewGoal
<1>8. /\ rows[e.unit] \in Rows /\ rows'[e.unit] = [rows[e.unit] EXCEPT !.goal = e.value]
      /\ \A w \in Units : w # e.unit => rows'[w] = rows[w]
    BY <1>3, <1>5, <1>6, <1>7
<1>9. /\ rows'[e.unit] \in Rows /\ rows'[e.unit].variant = e.variant
      /\ rows'[e.unit].source = s /\ rows'[e.unit].goal = e.value
      /\ rows'[e.unit].life = rows[e.unit].life
    BY <1>5, <1>7, <1>8 DEF Rows
<1>10. rows'[e.unit] # NoRow /\ rows'[e.unit].goal # NoGoal
    BY <1>5, <1>9, EvidenceIsTyped
<1>11. rows' \in [Units -> Rows \cup {NoRow}]
    <2>1. rows' = [u \in Units |-> rows'[u]]
        BY <1>3, <1>6
    <2>2. \A u \in Units : rows'[u] \in Rows \cup {NoRow}
        BY <1>6, <1>8, <1>9
    <2> QED
        BY <2>1, <2>2
<1>12. RowsAdvance
    BY <1>1, <1>7, <1>8, <1>9, <1>10 DEF RowsAdvance
<1>13. faults' \in Nat
    BY <1>3, <1>4, UntrustedIsNat, CountedIsNat
<1>14. /\ totals' \in [Variants -> [Sources -> [exposures : Nat, goals : Nat]]]
       /\ \A v \in Variants, z \in Sources :
             /\ totals'[v][z].exposures = totals[v][z].exposures
             /\ totals'[v][z].goals =
                   IF v = e.variant /\ z = s THEN totals[v][z].goals + 1
                   ELSE totals[v][z].goals
    BY <1>3, <1>5, <1>6
<1>15. Held' = Held /\ Held \subseteq Units /\ e.unit \in Held
    BY <1>5, <1>7, <1>8, <1>10 DEF Held
<1>16. ASSUME NEW v \in Variants, NEW z \in Sources
       PROVE  /\ Assigned(v, z)' = Assigned(v, z)
              /\ Converted(v, z)' = IF v = e.variant /\ z = s
                                    THEN Converted(v, z) \cup {e.unit}
                                    ELSE Converted(v, z)
    <2> DEFINE A == Assigned(v, z)
    <2>1. \A u \in Held : rows'[u].variant = rows[u].variant
                          /\ rows'[u].source = rows[u].source
        BY <1>7, <1>8, <1>9, <1>15
    <2>2. A' = A
        <3>1. A' = {u \in Held : rows'[u].variant = v /\ rows'[u].source = z}
            BY <1>15 DEF Assigned
        <3>2. A = {u \in Held : rows[u].variant = v /\ rows[u].source = z}
            BY DEF Assigned
        <3> QED
            BY <2>1, <3>1, <3>2
    <2>3. A \subseteq Units /\ (e.unit \in A <=> v = e.variant /\ z = s)
        BY <1>7, <1>15 DEF Assigned
    <2>4. \A u \in A : u # e.unit => rows'[u].goal = rows[u].goal
        BY <1>8, <2>3
    <2>5. /\ Converted(v, z)' = {u \in A : rows'[u].goal # NoGoal}
          /\ Converted(v, z) = {u \in A : rows[u].goal # NoGoal}
        BY <2>2 DEF Converted
    <2> HIDE DEF A
    <2>6. Converted(v, z)' = IF v = e.variant /\ z = s
                             THEN Converted(v, z) \cup {e.unit} ELSE Converted(v, z)
        BY <1>10, <2>3, <2>4, <2>5
    <2> QED
        BY <2>2, <2>6 DEF A
<1>17. TotalsMatchLedger'
    <2> SUFFICES ASSUME NEW v \in Variants, NEW z \in Sources
                 PROVE  /\ totals'[v][z].exposures = Cardinality(Assigned(v, z)')
                        /\ totals'[v][z].goals = Cardinality(Converted(v, z)')
        BY DEF TotalsMatchLedger
    <2>1. /\ totals[v][z].exposures = Cardinality(Assigned(v, z))
          /\ totals[v][z].goals = Cardinality(Converted(v, z))
        BY <1>4 DEF TotalsMatchLedger
    <2>2. e.unit \notin Converted(v, z)
        BY <1>7 DEF Converted
    <2>3. Cardinality(Converted(v, z) \cup {e.unit}) = Cardinality(Converted(v, z)) + 1
        BY <2>2, AssignedAreFinite, FS_AddElement
    <2>4. /\ totals'[v][z].exposures = totals[v][z].exposures
          /\ Assigned(v, z)' = Assigned(v, z)
        BY <1>14, <1>16
    <2>5. CASE v = e.variant /\ z = s
        <3>1. /\ totals'[v][z].goals = totals[v][z].goals + 1
              /\ Converted(v, z)' = Converted(v, z) \cup {e.unit}
            BY <1>14, <1>16, <2>5
        <3> QED
            BY <2>1, <2>3, <2>4, <3>1
    <2>6. CASE ~(v = e.variant /\ z = s)
        <3>1. /\ totals'[v][z].goals = totals[v][z].goals
              /\ Converted(v, z)' = Converted(v, z)
            BY <1>14, <1>16, <2>6
        <3> QED
            BY <2>1, <2>4, <3>1
    <2> QED
        BY <2>5, <2>6
<1> QED
    BY <1>3, <1>11, <1>12, <1>13, <1>14, <1>17, BatchStep


-----------------------------------------------------------------------------
(* Every step preserves the invariant.                                     *)
LEMMA NextEInv == EInv /\ [Next]_vars => EInv'
<1> SUFFICES ASSUME EInv, [Next]_vars PROVE EInv'
    OBVIOUS
<1>1. CASE \E b \in Batches, s \in Sources : ingestBatch(b, s)
    BY <1>1, IngestEInv
<1>2. CASE \E b \in Batches, s \in Sources : RejectBatch(b, s)
    BY <1>2, RejectEInv
<1>3. CASE AcceptExposure
    BY <1>3, AcceptExposureEInv
<1>4. CASE AcceptGoal
    BY <1>4, AcceptGoalEInv
<1>5. CASE CountOnly
    BY <1>5, CountOnlyEInv
<1>6. CASE \E plan \in Plans, flag \in {"on", "off"} : upsertExperiment(plan, flag)
    BY <1>6, UpsertEInv
<1>7. CASE \E flag \in {"on", "off"}, completes \in BOOLEAN :
              setExperimentEnabled(flag, completes)
    BY <1>7, SetEnabledEInv
<1>8. CASE \E i \in DOMAIN changes : rollbackConfigChange(i)
    BY <1>8, RollbackEInv
<1>9. CASE \E v \in Variants : Decide(v)
    BY <1>9, DecideEInv
<1>10. CASE AnalyzeAgain
    BY <1>10, AnalyzeAgainEInv
<1>11. CASE shipExperiment
    BY <1>11, ShipEInv
<1>12. CASE AnalysisDue
    BY <1>12, DueEInv
<1>13. CASE RetentionElapses
    BY <1>13, RetentionEInv
<1>14. CASE UNCHANGED vars
    <2>1. UNCHANGED <<st, changes, made, rows, totals, faults, decision, due, flight>>
        BY <1>14 DEF vars
    <2>2. ControlOK'
        BY <2>1, ControlUntouched
    <2>3. TypeOK'
        BY <2>1 DEF EInv, TypeOK
    <2>4. TotalsMatchLedger' /\ LedgerWithinCapacity'
        BY <2>1 DEF EInv, TotalsMatchLedger, Assigned, Converted, Held,
            LedgerWithinCapacity
    <2>5. FlightStaysClean'
        <3>1. PICK b : b = flight.todo
            OBVIOUS
        <3>2. PICK s : s = flight.source
            OBVIOUS
        <3> SUFFICES ASSUME flight # Idle PROVE Clean(b, s)' /\ Fits(b, Len(b))'
            BY <2>1, <3>1, <3>2 DEF FlightStaysClean
        <3>3. Clean(b, s) /\ Fits(b, Len(b))
            BY <3>1, <3>2 DEF EInv, FlightStaysClean
        <3> QED
            BY <2>1, <3>3 DEF Clean, Rejects, Late, Closed, Known, ForeignRow, Fits,
                New, Held
    <2> QED
        BY <2>2, <2>3, <2>4, <2>5 DEF EInv, ControlOK
<1> QED
    BY <1>1, <1>2, <1>3, <1>4, <1>5, <1>6, <1>7, <1>8, <1>9, <1>10, <1>11, <1>12,
        <1>13, <1>14 DEF Next

(* EInv is an invariant of the experiment.                                 *)
THEOREM EInvHolds == Spec => []EInv
BY InitEInv, NextEInv, PTL DEF Spec

(* Types hold, whatever the batches and the order of the calls.            *)
THEOREM EvidenceTypesHold == Spec => []TypeOK
<1>1. EInv => TypeOK
    BY DEF EInv
<1> QED
    BY <1>1, EInvHolds, PTL

(* The totals decisions are taken from count each unit of the ledger once  *)
(* (_updateTotals beside every insert and update of a row).                *)
THEOREM TotalsAreExact == Spec => []TotalsMatchLedger
<1>1. EInv => TotalsMatchLedger
    BY DEF EInv
<1> QED
    BY <1>1, EInvHolds, PTL

(* One check before the first row keeps the ledger within ledgerMaxRows,   *)
(* for batches of any length (ingestBatch).                                *)
THEOREM CapacityHolds == Spec => []LedgerWithinCapacity
<1>1. EInv => LedgerWithinCapacity
    BY DEF EInv
<1> QED
    BY <1>1, EInvHolds, PTL

(* shippedVariant names the persisted healthy winner, whatever is edited,  *)
(* resumed and rolled back (shipExperiment, rollbackConfigChange).         *)
THEOREM OnlyWinnersShip == Spec => []ShippedIsWinner
<1>1. EInv => ShippedIsWinner
    BY DEF EInv
<1> QED
    BY <1>1, EInvHolds, PTL

(* A batch that _preflight lets through is accepted by _ingest as a whole, *)
(* for batches of any length.                                              *)
THEOREM PreflightIsSound == Spec => []PreflightAgrees
<1>1. EInv => PreflightAgrees
    <2> SUFFICES ASSUME EInv, flight # Idle, Refused(Coming, flight.source)
                 PROVE  FALSE
        BY DEF PreflightAgrees
    <2>1. PICK b : b = flight.todo
        OBVIOUS
    <2>2. PICK s : s = flight.source
        OBVIOUS
    <2>3. TypeOK /\ Clean(b, s)
        BY <2>1, <2>2 DEF EInv, FlightStaysClean
    <2>4. b \in Seq(Events) /\ b # <<>> /\ Coming = b[1]
        BY <2>1, <2>3, ComingEvent
    <2>5. 1 \in DOMAIN b
        BY <2>4, EmptySeq, LenProperties
    <2>6. ~Rejects(b, s, 1)
        BY <2>3, <2>5 DEF Clean
    <2>7. Refused(b[1], s)
        BY <2>2, <2>4
    <2>8. CASE rows[b[1].unit] = NoRow
        <3>1. {k \in 1 .. 1 - 1 : b[k].unit = b[1].unit /\ b[k].kind = "exposure"} = {}
            OBVIOUS
        <3>2. Known(b, 1) = {}
            BY <2>8, <3>1 DEF Known
        <3> QED
            BY <2>6, <2>7, <2>8, <3>2 DEF Rejects, Refused
    <2>9. CASE rows[b[1].unit] # NoRow
        <3>1. Known(b, 1) = {rows[b[1].unit].variant}
            BY <2>9 DEF Known
        <3>2. ForeignRow(b[1].unit, s) <=> rows[b[1].unit].source # s
            BY <2>9 DEF ForeignRow
        <3> QED
            BY <2>6, <2>7, <2>9, <3>1, <3>2 DEF Rejects, Refused
    <2> QED
        BY <2>8, <2>9
<1> QED
    BY <1>1, EInvHolds, PTL

-----------------------------------------------------------------------------
(* Steps that may never be taken.                                          *)

(* The decision and the evidence it was taken from stand: what comes after *)
(* it is counted and not used (_ingest, experimentStats).                  *)
THEOREM DecisionsAreFinal == Spec => DecisionIsFinal
<1>1. [Next]_vars /\ decision # NoDecision =>
          decision' = decision /\ TrustedEvidence' = TrustedEvidence
    <2> SUFFICES ASSUME [Next]_vars, decision # NoDecision
                 PROVE  decision' = decision /\ totals' = totals
        BY DEF TrustedEvidence
    <2>1. ~AcceptExposure /\ ~AcceptGoal
        BY DEF AcceptExposure, AcceptGoal, NewExposure, NewGoal, Late
    <2> QED
        BY <2>1 DEF Next, vars, ingestBatch, RejectBatch, CountOnly, upsertExperiment,
            setExperimentEnabled, rollbackConfigChange, Decide, AnalyzeAgain,
            shipExperiment, AnalysisDue, RetentionElapses, ledgerVars
<1> QED
    BY <1>1, PTL DEF Spec, DecisionIsFinal

(* What was accepted from a unit stands: its variant, its source and its   *)
(* first goal (_ingest, scheduleExpiry, clearExpiry, pruneExpired).        *)
THEOREM EvidenceStands == Spec => AcceptedEvidenceStands
<1> DEFINE Stands(u) ==
        /\ rows'[u] # NoRow
        /\ rows'[u].variant = rows[u].variant /\ rows'[u].source = rows[u].source
        /\ rows[u].goal # NoGoal => rows'[u].goal = rows[u].goal
<1>1. EInv /\ [Next]_vars => \A u \in Held : Stands(u)
    <2> SUFFICES ASSUME EInv, [Next]_vars, NEW u \in Units, rows[u] # NoRow
                 PROVE  Stands(u)
        BY DEF Held
    <2>1. TypeOK /\ rows \in [Units -> Rows \cup {NoRow}] /\ rows[u] \in Rows
        BY DEF EInv, TypeOK
    <2>2. CASE rows' = rows
        BY <2>2
    <2>3. CASE rows' \in {Expiring, Resumed}
        BY <2>1, <2>3, RowsKeepEvidence
    <2>4. CASE AcceptExposure
        <3>1. PICK e : e = Coming
            OBVIOUS
        <3>2. PICK r : rows' = [rows EXCEPT ![e.unit] = r]
            BY <2>4, <3>1 DEF AcceptExposure
        <3>3. rows[e.unit] = NoRow
            BY <2>4, <3>1 DEF AcceptExposure, NewExposure
        <3> QED
            BY <2>1, <3>2, <3>3
    <2>5. CASE AcceptGoal
        <3>1. PICK e : e = Coming
            OBVIOUS
        <3>2. /\ rows' = [rows EXCEPT ![e.unit].goal = e.value]
              /\ rows[e.unit].goal = NoGoal
            BY <2>4, <2>5, <3>1 DEF AcceptGoal, NewGoal
        <3>3. CASE u # e.unit
            BY <2>1, <3>2, <3>3
        <3>4. CASE u = e.unit
            <4>1. rows'[u] = [rows[u] EXCEPT !.goal = e.value] /\ e.value \in Goals
                <5>1. flight # Idle /\ e.kind # "exposure"
                    BY <2>5, <3>1 DEF AcceptGoal, NewGoal
                <5>2. e.value \in Goals
                    BY <2>1, <3>1, <5>1, ComingEvent
                <5> QED
                    BY <2>1, <3>2, <3>4, <5>2
            <4>2. rows'[u] \in Rows
                BY <2>1, <4>1 DEF Rows
            <4> QED
                BY <2>1, <3>2, <3>4, <4>1, <4>2, EvidenceIsTyped DEF Rows
        <3> QED
            BY <3>3, <3>4
    <2>6. CASE RetentionElapses
        <3>1. rows'[u] = rows[u] \/ rows'[u] = [rows[u] EXCEPT !.life = "expired"]
            BY <2>6 DEF RetentionElapses
        <3>2. [rows[u] EXCEPT !.life = "expired"] \in Rows
            BY <2>1 DEF Rows
        <3> QED
            BY <2>1, <3>1, <3>2, EvidenceIsTyped DEF Rows
    <2> QED
        BY <2>2, <2>3, <2>4, <2>5, <2>6 DEF Next, vars, ingestBatch, RejectBatch,
            CountOnly, upsertExperiment, setExperimentEnabled, rollbackConfigChange,
            Decide, AnalyzeAgain, shipExperiment, AnalysisDue, ledgerVars
<1>2. [][\A u \in Held : Stands(u)]_vars <=> AcceptedEvidenceStands
    BY DEF AcceptedEvidenceStands
<1> QED
    BY <1>1, <1>2, EInvHolds, PTL DEF Spec
=============================================================================
