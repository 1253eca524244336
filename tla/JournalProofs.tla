--------------------------- MODULE JournalProofs ---------------------------
(***************************************************************************)
(* Theorems about the control plane, for every set of paths, every state   *)
(* the validation accepts, every journal capacity and every bound.         *)
(*                                                                         *)
(* The invariant JInv ties the three histories together: the journal's     *)
(* entries to the contents of the versions they lead between (Halves), the *)
(* requests in flight to the version they were prepared on (Prepared), the *)
(* configs of the clients to the version they name (Configured), and the   *)
(* views cached for the roles to the snapshot (ViewsAreCurrent).           *)
(***************************************************************************)
EXTENDS Journal, SequenceTheorems, TLAPS

-----------------------------------------------------------------------------
(* Changes of a control state (ControlStateChange.js).                     *)

(* A difference is a change, and its domain is what it touches.            *)
LEMMA DiffIsChange ==
    ASSUME NEW a \in Contents, NEW b \in Contents
    PROVE  /\ Diff(a, b) \in Changes
           /\ DOMAIN Diff(a, b) = Touched(a, b)
           /\ \A p \in Touched(a, b) : Diff(a, b)[p] = b[p]
<1>1. Touched(a, b) \in SUBSET Paths
    BY DEF Touched
<1>2. \A p \in Touched(a, b) : b[p] \in Values \cup {None}
    BY <1>1 DEF Contents
<1>3. Diff(a, b) \in [Touched(a, b) -> Values \cup {None}]
    BY <1>2 DEF Diff
<1>4. DOMAIN Diff(a, b) = Touched(a, b)
    BY DEF Diff
<1>5. \A p \in Touched(a, b) : Diff(a, b)[p] = b[p]
    BY DEF Diff
<1> QED
    BY <1>1, <1>3, <1>4, <1>5 DEF Changes

(* A change applied to a state gives a state's contents.                   *)
LEMMA ApplyContents ==
    ASSUME NEW st \in Contents, NEW c,
           \A p \in DOMAIN c : c[p] \in Values \cup {None}
    PROVE  Apply(st, c) \in Contents
BY DEF Apply, Contents

(* Applying the difference of two states to the first gives the second.    *)
LEMMA ApplyDiff ==
    ASSUME NEW a \in Contents, NEW b \in Contents
    PROVE  Apply(a, Diff(a, b)) = b
<1>1. DOMAIN Diff(a, b) = Touched(a, b)
    BY DEF Diff
<1>2. \A p \in Touched(a, b) : Diff(a, b)[p] = b[p]
    BY DEF Diff
<1>3. \A p \in Paths : p \notin Touched(a, b) => a[p] = b[p]
    BY DEF Touched
<1>4. \A p \in Paths :
          (IF p \in Touched(a, b) THEN b[p] ELSE a[p]) = b[p]
    BY <1>3
<1>5. Apply(a, Diff(a, b)) =
          [p \in Paths |-> IF p \in Touched(a, b) THEN b[p] ELSE a[p]]
    BY <1>1, <1>2 DEF Apply
<1>6. b = [p \in Paths |-> b[p]]
    BY DEF Contents
<1> QED
    BY <1>4, <1>5, <1>6

(* The two directions of a change touch the same paths.                    *)
LEMMA TouchedBothWays ==
    ASSUME NEW a, NEW b
    PROVE  Touched(a, b) = Touched(b, a)
BY DEF Touched

(* retainedChanges: a sequence that ends with the entry and, before it,    *)
(* with the most recent ones.                                              *)
LEMMA RetainedShape ==
    ASSUME NEW S, NEW old \in Seq(S), NEW e \in S, Len(old) <= Capacity
    PROVE  LET kept == Retained(old, e)
               lost == Len(old) + 1 - Len(kept) IN
           /\ kept \in Seq(S)
           /\ Len(kept) = IF Len(old) = Capacity THEN Capacity ELSE Len(old) + 1
           /\ kept[Len(kept)] = e
           /\ \A i \in 1 .. Len(kept) - 1 : kept[i] = old[i + lost]
           /\ Len(old) = Capacity => lost = 1
           /\ Len(old) # Capacity => lost = 0
<1> DEFINE all == Append(old, e)
<1>1. /\ all \in Seq(S) /\ Len(all) = Len(old) + 1
      /\ \A i \in 1 .. Len(old) : all[i] = old[i]
      /\ all[Len(old) + 1] = e
    BY AppendProperties
<1>2. Len(old) \in Nat /\ Capacity \in Nat /\ Capacity > 0
    BY LenProperties, CapacityIsPositive
<1>3. CASE Len(old) = Capacity
    <2>1. Retained(old, e) = SubSeq(all, 2, Len(all))
        BY <1>1, <1>2, <1>3 DEF Retained
    <2>2. \A i \in 2 .. Len(all) : all[i] \in S
        BY <1>1, <1>2, ElementOfSeq
    <2>3. /\ SubSeq(all, 2, Len(all)) \in Seq(S)
          /\ Len(SubSeq(all, 2, Len(all))) =
                IF 2 <= Len(all) THEN Len(all) - 2 + 1 ELSE 0
          /\ \A i \in 1 .. Len(all) - 2 + 1 :
                SubSeq(all, 2, Len(all))[i] = all[2 + i - 1]
        <3> HIDE DEF all
        <3> QED
            BY <1>1, <1>2, <2>2, SubSeqProperties
    <2> HIDE DEF all
    <2>4. /\ Len(SubSeq(all, 2, Len(all))) = Capacity
          /\ \A i \in 1 .. Capacity : SubSeq(all, 2, Len(all))[i] = all[i + 1]
        BY <1>1, <1>2, <1>3, <2>3
    <2> DEFINE kept == Retained(old, e)
    <2>5. kept \in Seq(S) /\ Len(kept) = Capacity
        BY <2>1, <2>3, <2>4
    <2>6. \A i \in 1 .. Capacity : kept[i] = all[i + 1]
        BY <2>1, <2>4
    <2> HIDE DEF kept
    <2>7. kept[Capacity] = e
        BY <1>1, <1>2, <1>3, <2>6
    <2>8. \A i \in 1 .. Capacity - 1 : kept[i] = old[i + 1]
        BY <1>1, <1>2, <1>3, <2>6
    <2>9. Len(old) + 1 - Len(kept) = 1
        BY <1>2, <1>3, <2>5
    <2> QED
        BY <1>2, <1>3, <2>5, <2>7, <2>8, <2>9 DEF kept
<1>4. CASE Len(old) # Capacity
    <2>1. Retained(old, e) = all
        BY <1>1, <1>2, <1>4 DEF Retained
    <2> HIDE DEF all
    <2> QED
        BY <1>1, <1>2, <1>4, <2>1
<1> QED
    BY <1>3, <1>4

-----------------------------------------------------------------------------
(* The parts of the inductive invariant that are not properties by         *)
(* themselves.                                                             *)

Lengths ==
    /\ version >= 1
    /\ Len(history) = version
    /\ history[version] = state
    /\ Len(origins) = version - 1

(* The halves of an edit are the differences between the contents of its   *)
(* two versions; those of a rollback are its target's, which is older.     *)
Halves ==
    \A i \in DOMAIN changes :
        LET e == changes[i] IN
        /\ Apply(history[e.prev], e.forward) = history[e.new]
        /\ e.undoes < e.new
        /\ e.undoes = NoChange =>
              /\ e.forward = Diff(history[e.prev], history[e.new])
              /\ e.inverse = Diff(history[e.new], history[e.prev])
        /\ \A j \in DOMAIN changes :
              changes[j].new = e.undoes => e.forward = changes[j].inverse

Prepared ==
    \A r \in sent : r.expected \in 1 .. version /\ r.basis = history[r.expected]
Accepted ==
    \A v \in DOMAIN origins :
        origins[v].expected = v /\ origins[v].basis = history[v]

(* What is cached for a role is what it sees of the published snapshot.    *)
ViewsAreCurrent ==
    \A role \in DOMAIN roleViews :
        roleViews[role] = RoleView(Snapshot(state), role)
(* A config is that of its version for the profile it was asked with.      *)
Configured ==
    \A c \in Clients :
        cfg[c].version # 0 =>
            /\ cfg[c].version \in DOMAIN history
            /\ cfg[c].config =
                  ConfigFor(Snapshot(history[cfg[c].version]), cfg[c].asked)

JInv ==
    /\ TypeOK
    /\ Lengths
    /\ ServedConfigIsValid
    /\ JournalIsRecentHistory
    /\ Halves
    /\ Prepared
    /\ Accepted
    /\ ViewsAreCurrent
    /\ Configured

-----------------------------------------------------------------------------
(* Where the entries point: to versions that exist, each to its own.       *)
LEMMA EntriesPointBack ==
    ASSUME JInv
    PROVE  /\ Len(changes) <= Capacity
           /\ \A i \in DOMAIN changes :
                 /\ changes[i] \in Entries
                 /\ changes[i].prev \in 1 .. version
                 /\ changes[i].new \in 2 .. version
           /\ \A i, j \in DOMAIN changes : changes[i].new = changes[j].new => i = j
<1> USE CapacityIsPositive
<1>1. changes \in Seq(Entries) /\ version \in Nat /\ version >= 1
    BY DEF JInv, TypeOK, Lengths
<1>2. Len(changes) \in Nat /\ DOMAIN changes = 1 .. Len(changes)
    BY <1>1, LenProperties
<1>3. Len(changes) = Smaller(Capacity, version - 1)
    BY DEF JInv, JournalIsRecentHistory
<1>4. Len(changes) <= Capacity /\ Len(changes) <= version - 1
    BY <1>1, <1>3 DEF Smaller
<1>5. \A i \in DOMAIN changes :
          /\ changes[i].new = version - Len(changes) + i
          /\ changes[i].prev = changes[i].new - 1
    BY DEF JInv, JournalIsRecentHistory
<1>6. \A i \in DOMAIN changes : changes[i] \in Entries
    BY <1>1, <1>2, ElementOfSeq
<1>7. \A i \in DOMAIN changes :
          changes[i].prev \in 1 .. version /\ changes[i].new \in 2 .. version
    BY <1>1, <1>2, <1>4, <1>5
<1>8. \A i, j \in DOMAIN changes : changes[i].new = changes[j].new => i = j
    BY <1>1, <1>2, <1>5
<1> QED
    BY <1>4, <1>6, <1>7, <1>8

(* What _mutate and rollbackConfigChange journal: an edit with its two     *)
(* differences, or an entry of the journal with its halves swapped.        *)
LEMMA EntryFacts ==
    ASSUME JInv, NEW op \in Operations, NEW e \in EntriesFor(op)
    PROVE  /\ e \in Entries
           /\ e.prev = version /\ e.new = version + 1
           /\ Apply(state, e.forward) \in Contents
           /\ \/ /\ e.undoes = NoChange
                 /\ e.forward = Diff(state, Apply(state, e.forward))
                 /\ e.inverse = Diff(Apply(state, e.forward), state)
              \/ \E k \in DOMAIN changes :
                    /\ e.undoes = changes[k].new
                    /\ e.forward = changes[k].inverse
<1>1. version \in Nat /\ state \in Contents
    BY DEF JInv, TypeOK, States
<1>2. ASSUME NEW c \in Edited(op), e = EditEntry(c)
      PROVE  /\ e \in Entries
             /\ e.prev = version /\ e.new = version + 1
             /\ Apply(state, e.forward) \in Contents
             /\ e.undoes = NoChange
             /\ e.forward = Diff(state, Apply(state, e.forward))
             /\ e.inverse = Diff(Apply(state, e.forward), state)
    <2>1. \A p \in DOMAIN c : c[p] \in Values \cup {None}
        <3>1. CASE op.kind \in {"edit", "upsert"}
            <4>1. op.change \in Edits \cup Upserts
                BY <3>1 DEF Operations
            <4>2. c \in Changes
                BY <3>1, <4>1, EditsAreChanges DEF Edited
            <4> QED
                BY <4>2 DEF Changes
        <3>2. CASE op.kind = "unlist"
            BY <3>2 DEF Edited, Unlisted
        <3>3. CASE op.kind = "rollback"
            BY <3>3 DEF Edited
        <3> QED
            BY <3>1, <3>2, <3>3 DEF Operations
    <2> DEFINE after == Apply(state, c)
    <2>2. after \in Contents
        BY <1>1, <2>1, ApplyContents
    <2>3. /\ e.prev = version /\ e.new = version + 1 /\ e.undoes = NoChange
          /\ e.forward = Diff(state, after) /\ e.inverse = Diff(after, state)
        BY <1>2 DEF EditEntry
    <2>4. Diff(state, after) \in Changes /\ Diff(after, state) \in Changes
        <3> HIDE DEF after
        <3> QED
            BY <1>1, <2>2, DiffIsChange
    <2>5. Apply(state, Diff(state, after)) = after
        <3> HIDE DEF after
        <3> QED
            BY <1>1, <2>2, ApplyDiff
    <2>6. e \in Entries
        BY <1>1, <1>2, <2>4 DEF EditEntry, Entries, NoChange
    <2> QED
        BY <2>2, <2>3, <2>5, <2>6
<1>3. ASSUME NEW k \in DOMAIN changes, e = RollbackEntry(changes[k])
      PROVE  /\ e \in Entries
             /\ e.prev = version /\ e.new = version + 1
             /\ Apply(state, e.forward) \in Contents
             /\ e.undoes = changes[k].new
             /\ e.forward = changes[k].inverse
    <2>1. changes[k] \in Entries
        BY EntriesPointBack
    <2>2. /\ changes[k].new \in Nat
          /\ changes[k].forward \in Changes /\ changes[k].inverse \in Changes
        BY <2>1 DEF Entries
    <2>3. e \in Entries
        BY <1>1, <1>3, <2>2 DEF RollbackEntry, Entries
    <2>4. \A p \in DOMAIN changes[k].inverse :
              changes[k].inverse[p] \in Values \cup {None}
        BY <2>2 DEF Changes
    <2>5. Apply(state, changes[k].inverse) \in Contents
        BY <1>1, <2>4, ApplyContents
    <2> QED
        BY <1>3, <2>3, <2>5 DEF RollbackEntry
<1>4. CASE \E c \in Edited(op) : e = EditEntry(c)
    BY <1>2, <1>4
<1>5. CASE \E t \in Target(op.id) : e = RollbackEntry(t)
    <2>1. PICK k \in DOMAIN changes : e = RollbackEntry(changes[k])
        BY <1>5 DEF Target
    <2> QED
        BY <1>3, <2>1
<1> QED
    BY <1>4, <1>5 DEF EntriesFor

-----------------------------------------------------------------------------
(* The invariant holds initially.                                          *)
LEMMA InitJInv == Init => JInv
<1> SUFFICES ASSUME Init PROVE JInv
    OBVIOUS
<1>1. Bootstrap \in ValidStates /\ Bootstrap \in States
    BY BootstrapIsValid DEF ValidStates
<1>2. TypeOK
    <2>1. changes \in Seq(Entries) /\ origins \in Seq(Requests)
        BY DEF Init
    <2>2. history \in Seq(States)
        BY <1>1 DEF Init
    <2>3. cfg \in [Clients -> Configs]
        BY DEF Init, Configs
    <2>4. DOMAIN roleViews \subseteq Roles
        BY DEF Init, Uncached
    <2> QED
        BY <1>1, <2>1, <2>2, <2>3, <2>4 DEF Init, TypeOK
<1>3. Lengths
    BY DEF Init, Lengths
<1>4. changes = <<>> /\ origins = <<>> /\ sent = {} /\ version = 1
    BY DEF Init
<1>5. JournalIsRecentHistory /\ Halves
    BY <1>4, CapacityIsPositive DEF JournalIsRecentHistory, Smaller, Halves
<1>6. Prepared /\ Accepted
    BY <1>4 DEF Prepared, Accepted
<1>7. ServedConfigIsValid /\ ViewsAreCurrent /\ Configured
    BY <1>1 DEF Init, Uncached, ServedConfigIsValid, ViewsAreCurrent, Configured
<1> QED
    BY <1>2, <1>3, <1>5, <1>6, <1>7 DEF JInv

(* A request that is prepared names the current version and its content.   *)
LEMMA PrepareJInv ==
    ASSUME JInv, NEW op \in OperationsNow, Prepare(op)
    PROVE  JInv'
<1>1. UNCHANGED <<version, state, changes, roleViews, profile, cfg, history, origins>>
    BY DEF Prepare, clients
<1> DEFINE r == [expected |-> version, basis |-> state, op |-> op]
<1>2. version \in Nat /\ state \in States /\ version >= 1 /\ history[version] = state
    BY DEF JInv, TypeOK, Lengths
<1>3. Listed \subseteq Nat
    BY EntriesPointBack DEF Listed, Entries
<1>4. op \in Operations
    BY <1>3 DEF OperationsNow, Operations
<1>5. r \in Requests
    BY <1>2, <1>4 DEF Requests
<1>6. sent' = sent \cup {r}
    BY DEF Prepare
<1>7. Prepared'
    <2>1. r.expected \in 1 .. version /\ r.basis = history[r.expected]
        BY <1>2
    <2> QED
        BY <1>1, <1>6, <2>1 DEF JInv, Prepared
<1>8. TypeOK'
    BY <1>1, <1>5, <1>6 DEF JInv, TypeOK
<1> QED
    BY <1>1, <1>7, <1>8 DEF JInv, Lengths, ServedConfigIsValid,
        JournalIsRecentHistory, Halves, Accepted, ViewsAreCurrent, Configured

(* The views cached stand for those of the snapshot.                       *)
LEMMA ViewsForRoles ==
    ASSUME ViewsAreCurrent
    PROVE  /\ \A role : ViewFor(role) = RoleView(Snapshot(state), role)
           /\ \A p : Served(p) = ConfigFor(Snapshot(state), p)
<1>1. \A role : ViewFor(role) = RoleView(Snapshot(state), role)
    BY DEF ViewFor, ViewsAreCurrent
<1> QED
    BY <1>1 DEF Served, ConfigFor

(* A poll gives a client the content of the version it names.              *)
LEMMA PollJInv ==
    ASSUME JInv, NEW c \in Clients, Poll(c)
    PROVE  JInv'
<1>1. UNCHANGED <<version, state, changes, sent, profile, history, origins>>
    BY DEF Poll
<1> DEFINE served == [version |-> version, config |-> Served(profile[c]),
                      asked |-> profile[c]]
<1>2. version \in Nat /\ state \in States /\ history \in Seq(States)
      /\ version >= 1 /\ Len(history) = version /\ history[version] = state
    BY DEF JInv, TypeOK, Lengths
<1>3. /\ cfg \in [Clients -> Configs] /\ profile[c] \in Profiles
      /\ cfg' = [cfg EXCEPT ![c] = served] \/ cfg' = cfg
    BY DEF Poll, JInv, TypeOK
<1>4. Served(profile[c]) = ConfigFor(Snapshot(state), profile[c])
    BY ViewsForRoles DEF JInv
<1>5. served \in Configs
    BY <1>2, <1>3, <1>4 DEF Configs, Views
<1>6. /\ DOMAIN roleViews' = DOMAIN roleViews \cup {profile[c]["role"].of}
      /\ \A role \in DOMAIN roleViews' : roleViews'[role] = ViewFor(role)
    BY DEF Poll, CacheView
<1>7. TypeOK'
    <2>1. DOMAIN roleViews' \subseteq Roles
        BY <1>3, <1>6 DEF JInv, TypeOK, Roles
    <2>2. cfg' \in [Clients -> Configs]
        BY <1>3, <1>5
    <2> QED
        BY <1>1, <2>1, <2>2 DEF JInv, TypeOK
<1>8. ViewsAreCurrent'
    BY <1>1, <1>6, ViewsForRoles DEF JInv, ViewsAreCurrent
<1>9. Configured'
    <2> SUFFICES ASSUME NEW d \in Clients, cfg'[d].version # 0
                 PROVE  /\ cfg'[d].version \in DOMAIN history
                        /\ cfg'[d].config =
                              ConfigFor(Snapshot(history[cfg'[d].version]), cfg'[d].asked)
        BY <1>1 DEF Configured
    <2>1. CASE cfg'[d] = served
        <3>1. version \in DOMAIN history
            BY <1>2, LenProperties
        <3> QED
            BY <1>2, <1>4, <2>1, <3>1
    <2>2. CASE cfg'[d] = cfg[d]
        BY <2>2 DEF JInv, Configured
    <2>3. cfg'[d] = served \/ cfg'[d] = cfg[d]
        BY <1>3
    <2> QED
        BY <2>1, <2>2, <2>3
<1> QED
    BY <1>1, <1>7, <1>8, <1>9 DEF JInv, Lengths, ServedConfigIsValid,
        JournalIsRecentHistory, Halves, Prepared, Accepted

(* Other attributes change only what the client asks with.                 *)
LEMMA SetAttributesJInv ==
    ASSUME JInv, NEW c \in Clients, NEW p \in Profiles, SetAttributes(c, p)
    PROVE  JInv'
<1>1. UNCHANGED <<version, state, changes, sent, roleViews, cfg, history, origins>>
    BY DEF SetAttributes
<1>2. TypeOK'
    BY <1>1 DEF SetAttributes, JInv, TypeOK
<1> QED
    BY <1>1, <1>2 DEF JInv, Lengths, ServedConfigIsValid, JournalIsRecentHistory,
        Halves, Prepared, Accepted, ViewsAreCurrent, Configured

(* A restart forgets the cached views.                                     *)
LEMMA RestartJInv ==
    ASSUME JInv, Restart
    PROVE  JInv'
<1>1. UNCHANGED <<version, state, changes, sent, profile, cfg, history, origins>>
      /\ DOMAIN roleViews' = {}
    BY DEF Restart, NewRepository, Uncached, clients
<1> QED
    BY <1>1 DEF JInv, TypeOK, Lengths, ServedConfigIsValid,
        JournalIsRecentHistory, Halves, Prepared, Accepted, ViewsAreCurrent,
        Configured

(* A commit appends a version, its request and its entry; the journal      *)
(* keeps its recent end.                                                   *)
LEMMA CommitJInv ==
    ASSUME JInv, NEW r \in sent, Commit(r)
    PROVE  JInv'
<1>1. PICK e \in EntriesFor(r.op) :
          /\ Valid(Apply(state, e.forward))
          /\ version' = e.new
          /\ state' = Apply(state, e.forward)
          /\ changes' = Retained(changes, e)
          /\ history' = Append(history, Apply(state, e.forward))
          /\ origins' = Append(origins, r)
    BY DEF Commit
<1>2. r \in Requests /\ r.op \in Operations /\ r.expected = version
    BY DEF JInv, TypeOK, Requests, Commit, Current
<1>3. /\ e \in Entries
      /\ e.prev = version /\ e.new = version + 1
      /\ \/ /\ e.undoes = NoChange
            /\ e.forward = Diff(state, Apply(state, e.forward))
            /\ e.inverse = Diff(Apply(state, e.forward), state)
         \/ \E k \in DOMAIN changes :
               e.undoes = changes[k].new /\ e.forward = changes[k].inverse
    BY <1>2, EntryFacts
<1> DEFINE after == Apply(state, e.forward)
<1>4. after \in ValidStates /\ after \in States
    BY <1>1 DEF Valid, ValidStates
<1>5. /\ version \in Nat /\ version >= 1 /\ state \in States
      /\ history \in Seq(States) /\ Len(history) = version
      /\ history[version] = state
      /\ origins \in Seq(Requests) /\ Len(origins) = version - 1
      /\ changes \in Seq(Entries)
    BY DEF JInv, TypeOK, Lengths
<1>6. version' = version + 1 /\ state' = after
    BY <1>1, <1>3
<1>7. /\ history' \in Seq(States) /\ Len(history') = version + 1
      /\ history'[version + 1] = after
      /\ \A v \in 1 .. version : history'[v] = history[v]
      /\ DOMAIN history = 1 .. version /\ DOMAIN history' = 1 .. version + 1
    <2> HIDE DEF after
    <2> QED
        BY <1>1, <1>4, <1>5, AppendProperties, LenProperties DEF after
<1>8. /\ origins' \in Seq(Requests) /\ Len(origins') = version
      /\ origins'[version] = r
      /\ \A v \in 1 .. version - 1 : origins'[v] = origins[v]
      /\ DOMAIN origins = 1 .. version - 1 /\ DOMAIN origins' = 1 .. version
    BY <1>1, <1>2, <1>5, AppendProperties, LenProperties
<1> DEFINE lost == Len(changes) + 1 - Len(changes')
<1>9. /\ changes' \in Seq(Entries)
      /\ Len(changes') =
            IF Len(changes) = Capacity THEN Capacity ELSE Len(changes) + 1
      /\ changes'[Len(changes')] = e
      /\ \A i \in 1 .. Len(changes') - 1 : changes'[i] = changes[i + lost]
      /\ Len(changes) = Capacity => lost = 1
      /\ Len(changes) # Capacity => lost = 0
    BY <1>1, <1>3, <1>5, EntriesPointBack, RetainedShape, CapacityIsPositive
<1>10. /\ Len(changes) \in Nat /\ Len(changes') \in Nat
       /\ DOMAIN changes = 1 .. Len(changes) /\ DOMAIN changes' = 1 .. Len(changes')
    BY <1>5, <1>9, LenProperties
<1>11. \A i \in DOMAIN changes' :
           \/ i = Len(changes') /\ changes'[i] = e
           \/ i + lost \in DOMAIN changes /\ changes'[i] = changes[i + lost]
    <2> SUFFICES ASSUME NEW i \in DOMAIN changes', i # Len(changes')
                 PROVE  i + lost \in DOMAIN changes
        BY <1>9, <1>10
    <2> QED
        BY <1>9, <1>10
<1>12. TypeOK'
    <2>1. UNCHANGED <<sent, profile, cfg>> /\ DOMAIN roleViews' = {}
        BY DEF Commit, NewRepository, Uncached, clients
    <2> QED
        BY <1>4, <1>6, <1>7, <1>8, <1>9, <2>1 DEF JInv, TypeOK
<1>13. Lengths'
    BY <1>5, <1>6, <1>7, <1>8 DEF Lengths
<1>14. ServedConfigIsValid'
    BY <1>4, <1>6 DEF ServedConfigIsValid
<1>15. JournalIsRecentHistory'
    <2>1. Len(changes) = Smaller(Capacity, version - 1)
          /\ \A i \in DOMAIN changes :
                /\ changes[i].new = version - Len(changes) + i
                /\ changes[i].prev = changes[i].new - 1
        BY DEF JInv, JournalIsRecentHistory
    <2>2. Len(changes') = Smaller(Capacity, version' - 1)
        BY <1>5, <1>6, <1>9, <2>1, CapacityIsPositive DEF Smaller
    <2>3. ASSUME NEW i \in DOMAIN changes'
          PROVE  /\ changes'[i].new = version' - Len(changes') + i
                 /\ changes'[i].prev = changes'[i].new - 1
        <3>1. CASE i = Len(changes') /\ changes'[i] = e
            BY <1>3, <1>5, <1>6, <1>10, <3>1
        <3>2. CASE i + lost \in DOMAIN changes /\ changes'[i] = changes[i + lost]
            <4>1. /\ changes'[i].new = version - Len(changes) + (i + lost)
                  /\ changes'[i].prev = changes'[i].new - 1
                BY <2>1, <3>2
            <4> QED
                BY <1>5, <1>6, <1>10, <2>3, <4>1
        <3> QED
            BY <1>11, <3>1, <3>2
    <2> QED
        BY <2>2, <2>3 DEF JournalIsRecentHistory
<1>16. Halves'
    <2> SUFFICES ASSUME NEW i \in DOMAIN changes'
                 PROVE  LET f == changes'[i] IN
                        /\ Apply(history'[f.prev], f.forward) = history'[f.new]
                        /\ f.undoes < f.new
                        /\ f.undoes = NoChange =>
                              /\ f.forward = Diff(history'[f.prev], history'[f.new])
                              /\ f.inverse = Diff(history'[f.new], history'[f.prev])
                        /\ \A j \in DOMAIN changes' :
                              changes'[j].new = f.undoes =>
                                  f.forward = changes'[j].inverse
        BY DEF Halves
    <2>1. CASE i = Len(changes') /\ changes'[i] = e
        <3>1. history'[e.prev] = state /\ history'[e.new] = after
            BY <1>3, <1>5, <1>7
        <3>2. \/ /\ e.undoes = NoChange
                 /\ e.forward = Diff(state, after) /\ e.inverse = Diff(after, state)
              \/ e.undoes \in 2 .. version
            BY <1>3, EntriesPointBack
        <3>3. e.undoes < e.new
            BY <1>3, <1>5, <3>2 DEF NoChange
        <3>4. ASSUME NEW j \in DOMAIN changes', changes'[j].new = e.undoes
              PROVE  e.forward = changes'[j].inverse
            <4>1. j + lost \in DOMAIN changes /\ changes'[j] = changes[j + lost]
                BY <1>3, <1>5, <1>11, <3>3, <3>4
            <4>2. e.undoes # NoChange
                BY <3>4, <4>1, EntriesPointBack DEF NoChange
            <4>3. PICK k \in DOMAIN changes :
                      e.undoes = changes[k].new /\ e.forward = changes[k].inverse
                BY <1>3, <4>2
            <4>4. k = j + lost
                BY <3>4, <4>1, <4>3, EntriesPointBack
            <4> QED
                BY <4>1, <4>3, <4>4
        <3>5. e.undoes = NoChange =>
                  e.forward = Diff(state, after) /\ e.inverse = Diff(after, state)
            BY <3>2 DEF NoChange
        <3> QED
            BY <2>1, <3>1, <3>3, <3>4, <3>5
    <2>2. CASE i + lost \in DOMAIN changes /\ changes'[i] = changes[i + lost]
        <3> DEFINE f == changes[i + lost]
        <3>1. f.prev \in 1 .. version /\ f.new \in 2 .. version /\ f \in Entries
            BY <2>2, EntriesPointBack
        <3>2. history'[f.prev] = history[f.prev] /\ history'[f.new] = history[f.new]
            BY <1>5, <1>7, <3>1
        <3>3. /\ Apply(history[f.prev], f.forward) = history[f.new]
              /\ f.undoes < f.new
              /\ f.undoes = NoChange =>
                    /\ f.forward = Diff(history[f.prev], history[f.new])
                    /\ f.inverse = Diff(history[f.new], history[f.prev])
              /\ \A j \in DOMAIN changes :
                    changes[j].new = f.undoes => f.forward = changes[j].inverse
            BY <2>2 DEF JInv, Halves
        <3>4. ASSUME NEW j \in DOMAIN changes', changes'[j].new = f.undoes
              PROVE  f.forward = changes'[j].inverse
            <4>1. f.undoes \in Nat /\ f.undoes < version
                BY <1>5, <3>1, <3>3 DEF Entries
            <4>2. changes'[j] # e
                BY <1>3, <1>5, <3>4, <4>1
            <4>3. j + lost \in DOMAIN changes /\ changes'[j] = changes[j + lost]
                BY <1>11, <4>2
            <4> QED
                BY <3>3, <3>4, <4>3
        <3> QED
            BY <2>2, <3>2, <3>3, <3>4
    <2> QED
        BY <1>11, <2>1, <2>2
<1>17. Prepared'
    <2>1. sent' = sent
        BY DEF Commit
    <2> QED
        BY <1>5, <1>6, <1>7, <2>1 DEF JInv, Prepared
<1>18. Accepted'
    <2>1. r.basis = history[version]
        BY <1>2 DEF JInv, Prepared
    <2> SUFFICES ASSUME NEW v \in DOMAIN origins'
                 PROVE  origins'[v].expected = v /\ origins'[v].basis = history'[v]
        BY DEF Accepted
    <2>2. CASE v = version
        BY <1>2, <1>5, <1>7, <1>8, <2>1, <2>2
    <2>3. CASE v # version
        BY <1>5, <1>7, <1>8, <2>3 DEF JInv, Accepted
    <2> QED
        BY <2>2, <2>3
<1>19. ViewsAreCurrent'
    <2>1. DOMAIN roleViews' = {}
        BY DEF Commit, NewRepository, Uncached
    <2> QED
        BY <2>1 DEF ViewsAreCurrent
<1>20. Configured'
    <2>1. cfg' = cfg
        BY DEF Commit, clients
    <2> QED
        BY <1>5, <1>7, <2>1 DEF JInv, Configured
<1> QED
    BY <1>12, <1>13, <1>14, <1>15, <1>16, <1>17, <1>18, <1>19, <1>20 DEF JInv

(* Every step preserves the invariant, one lemma per action.               *)
LEMMA NextJInv == JInv /\ [Next]_vars => JInv'
<1> SUFFICES ASSUME JInv, [Next]_vars PROVE JInv'
    OBVIOUS
<1>1. CASE \E op \in OperationsNow : Prepare(op)
    BY <1>1, PrepareJInv
<1>2. CASE \E r \in sent : Commit(r)
    BY <1>2, CommitJInv
<1>3. CASE \E c \in Clients : Poll(c)
    BY <1>3, PollJInv
<1>4. CASE \E c \in Clients, p \in Profiles : SetAttributes(c, p)
    BY <1>4, SetAttributesJInv
<1>5. CASE Restart
    BY <1>5, RestartJInv
<1>6. CASE UNCHANGED vars
    BY <1>6 DEF vars, JInv, TypeOK, Lengths, ServedConfigIsValid,
        JournalIsRecentHistory, Halves, Prepared, Accepted,
        ViewsAreCurrent, Configured
<1> QED
    BY <1>1, <1>2, <1>3, <1>4, <1>5, <1>6 DEF Next

(* The invariant holds of every reachable state of the control plane.      *)
THEOREM JInvHolds == Spec => []JInv
<1>1. Init => JInv
    BY InitJInv
<1>2. JInv /\ [Next]_vars => JInv'
    BY NextJInv
<1> QED
    BY <1>1, <1>2, PTL DEF Spec

-----------------------------------------------------------------------------
(* The properties of Journal, each from the invariant.                     *)

(* A change leads from its version's predecessor to it, an edit's inverse  *)
(* back (MutationJournal.commit).                                          *)
LEMMA ReplayFromJInv == JInv => EntriesReplayHistory
<1> SUFFICES ASSUME JInv, NEW i \in DOMAIN changes
             PROVE  LET e == changes[i] IN
                    /\ Apply(history[e.prev], e.forward) = history[e.new]
                    /\ e.undoes = NoChange =>
                          Apply(history[e.new], e.inverse) = history[e.prev]
    BY DEF EntriesReplayHistory
<1> DEFINE e == changes[i]
<1>1. history \in Seq(States) /\ Len(history) = version
    BY DEF JInv, TypeOK, Lengths
<1>2. e.prev \in 1 .. version /\ e.new \in 1 .. version
    BY EntriesPointBack
<1>3. history[e.prev] \in Contents /\ history[e.new] \in Contents
    BY <1>1, <1>2, ElementOfSeq DEF States
<1>4. /\ Apply(history[e.prev], e.forward) = history[e.new]
      /\ e.undoes = NoChange => e.inverse = Diff(history[e.new], history[e.prev])
    BY DEF JInv, Halves
<1> QED
    BY <1>3, <1>4, ApplyDiff

(* A rollback applies its target's inverse, whose paths are those that the *)
(* target changed (MutationJournal.rollback).                              *)
LEMMA RollbackFromJInv == JInv => RollbackRestoresItsPaths
<1> SUFFICES ASSUME JInv, NEW i \in DOMAIN changes, NEW j \in DOMAIN changes,
                    changes[i].undoes = changes[j].new,
                    changes[j].undoes = NoChange, NEW p \in Paths
             PROVE  history[changes[i].new][p] =
                        IF p \in DOMAIN changes[j].forward
                        THEN history[changes[j].prev][p]
                        ELSE history[changes[i].prev][p]
    BY DEF RollbackRestoresItsPaths
<1> DEFINE undo == changes[i]
           edit == changes[j]
           old == history[edit.prev]
           new == history[edit.new]
<1>1. history \in Seq(States) /\ Len(history) = version
    BY DEF JInv, TypeOK, Lengths
<1>2. edit.prev \in 1 .. version /\ edit.new \in 1 .. version
    BY EntriesPointBack
<1>3. old \in Contents /\ new \in Contents
    BY <1>1, <1>2, ElementOfSeq DEF States
<1>4. /\ Apply(history[undo.prev], undo.forward) = history[undo.new]
      /\ edit.forward = Diff(old, new) /\ edit.inverse = Diff(new, old)
      /\ undo.forward = edit.inverse
    BY DEF JInv, Halves
<1>5. DOMAIN Diff(old, new) = Touched(old, new)
      /\ DOMAIN Diff(new, old) = Touched(new, old)
      /\ \A q \in Touched(new, old) : Diff(new, old)[q] = old[q]
    BY DEF Diff
<1>6. Touched(old, new) = Touched(new, old)
    BY TouchedBothWays
<1>7. Apply(history[undo.prev], Diff(new, old))[p] =
          IF p \in DOMAIN Diff(new, old) THEN Diff(new, old)[p]
          ELSE history[undo.prev][p]
    BY DEF Apply
<1>8. history[undo.new] = Apply(history[undo.prev], Diff(new, old))
    BY <1>4
<1>9. DOMAIN edit.forward = Touched(new, old)
    BY <1>4, <1>5, <1>6
<1> HIDE DEF old, new, undo, edit
<1>10. history[undo.new][p] = IF p \in DOMAIN edit.forward THEN old[p]
                              ELSE history[undo.prev][p]
    BY <1>5, <1>7, <1>8, <1>9
<1> QED
    BY <1>10 DEF old, new, undo, edit

(* The state the server keeps has its shape (SqliteStateStore's rows).     *)
THEOREM TypesHold == Spec => []TypeOK
<1>1. JInv => TypeOK
    BY DEF JInv
<1> QED
    BY <1>1, JInvHolds, PTL

(* The journal is the recent end of history, whatever its capacity.        *)
THEOREM JournalRetention == Spec => []JournalIsRecentHistory
<1>1. JInv => JournalIsRecentHistory
    BY DEF JInv
<1> QED
    BY <1>1, JInvHolds, PTL

(* Every entry can be replayed, and an edit's inverse undoes it exactly.   *)
THEOREM JournalReplays == Spec => []EntriesReplayHistory
BY ReplayFromJInv, JInvHolds, PTL

(* A rollback restores what its target changed, and nothing else.          *)
THEOREM RollbackIsLocal == Spec => []RollbackRestoresItsPaths
BY RollbackFromJInv, JInvHolds, PTL

(* The version check admits no lost update, in any order of deliveries.    *)
THEOREM UpdatesAreNotLost == Spec => []NoLostUpdate
<1>1. JInv => NoLostUpdate
    BY DEF JInv, Accepted, NoLostUpdate
<1> QED
    BY <1>1, JInvHolds, PTL

(* Of the requests prepared on one version at most one succeeds.           *)
THEOREM VersionsAreTakenOnce == Spec => []OneSuccessPerVersion
<1>1. JInv => OneSuccessPerVersion
    BY DEF JInv, Accepted, OneSuccessPerVersion
<1> QED
    BY <1>1, JInvHolds, PTL

(* What is published passed the validation, after rollbacks too.           *)
THEOREM PublishedIsValid == Spec => []ServedConfigIsValid
<1>1. JInv => ServedConfigIsValid
    BY DEF JInv
<1> QED
    BY <1>1, JInvHolds, PTL

(* A client that gets no config holds the current one for its profile, and *)
(* every client the config of the version it names.                        *)
THEOREM VersionsNameConfigs == Spec => []ClientVersionIdentifiesConfig
<1>1. JInv => ClientVersionIdentifiesConfig
    BY ViewsForRoles DEF JInv, Configured, UpToDate, ClientVersionIdentifiesConfig
<1> QED
    BY <1>1, JInvHolds, PTL
=============================================================================
