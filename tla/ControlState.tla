---------------------------- MODULE ControlState ----------------------------
(***************************************************************************)
(* The control state of one project (config values, experiments, catalog)  *)
(* and the changes the mutation journal keeps of it: ControlStateChange.js *)
(* and the reversible half of an entry in MutationJournal.js.              *)
(*                                                                         *)
(* The JSON tree is a function from paths to values, None where a key is   *)
(* missing.  Two levels suffice: a path is a key of an object that always  *)
(* exists (values, catalog.signals, ...), or a field of an object that is  *)
(* itself created and deleted (one experiment), whose own path, its        *)
(* Holder, tells whether it is there.                                      *)
(***************************************************************************)
EXTENDS Integers, Sequences

CONSTANTS
    Paths,
    Values,
    None,       \* the key is missing
    Holder,     \* the object a field belongs to, Top for the other paths
    Top,
    Capacity    \* control.journalCapacity

ASSUME PathsAreTyped ==
    /\ None \notin Values
    /\ Top \notin Paths
    /\ Holder \in [Paths -> Paths \cup {Top}]
    /\ \A p \in Paths : Holder[p] # Top => Holder[Holder[p]] = Top
ASSUME CapacityIsPositive == Capacity \in Nat \ {0}

Contents == [Paths -> Values \cup {None}]

(* A field exists only inside an object that exists.                       *)
WellFormed(st) ==
    \A p \in Paths : Holder[p] # Top /\ st[Holder[p]] = None => st[p] = None
States == {st \in Contents : WellFormed(st)}

(* A change is the list of its operations: the paths it sets or deletes.   *)
Changes == UNION {[D -> Values \cup {None}] : D \in SUBSET Paths}

(* collect: unequal values, or a whole object when it appears or goes.     *)
Touched(before, after) ==
    {p \in Paths : \/ before[p] # after[p]
                   \/ /\ Holder[p] # Top
                      /\ before[Holder[p]] # after[Holder[p]]}
Diff(before, after) == [p \in Touched(before, after) |-> after[p]]

(* applyControlStateChange throws when a path leads through an object that *)
(* is not there.                                                           *)
Resolves(st, change) ==
    \A p \in DOMAIN change :
        Holder[p] # Top /\ Holder[p] \notin DOMAIN change => st[Holder[p]] # None
Apply(st, change) ==
    [p \in Paths |-> IF p \in DOMAIN change THEN change[p] ELSE st[p]]

(* retainedChanges: the last Capacity entries; commitProjectMutation       *)
(* deletes the others from the table.                                      *)
Retained(changes, entry) ==
    LET all == Append(changes, entry)
    IN IF Len(all) > Capacity THEN SubSeq(all, Len(all) - Capacity + 1, Len(all))
       ELSE all
=============================================================================
