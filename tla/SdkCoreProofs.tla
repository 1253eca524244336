---------------------------- MODULE SdkCoreProofs ----------------------------
(***************************************************************************)
(* Invariance proofs about the buffers, the series and the assignments of  *)
(* WardxCore.                                                              *)
(***************************************************************************)
EXTENDS SdkCore, FiniteSetTheorems, SequenceTheorems, WellFoundedInduction, TLAPS

-----------------------------------------------------------------------------
(* Induction over lists. *)

\* A nonempty set of naturals has a least member.
LEMMA Least ==
    ASSUME NEW S \in SUBSET Nat, S # {}
    PROVE  \E x \in S : \A y \in S : x <= y
<1> DEFINE below == {p \in Nat \X Nat : p[1] < p[2]}
<1>1. IsWellFoundedOn(below, Nat)
  BY NatLessThanWellFounded, Zenon DEF OpToRel
<1>2. PICK x \in S : \A y \in S : ~(<<y, x>> \in below)
  <2> HIDE DEF below
  <2> QED
    BY <1>1, WFMin
<1>3. ASSUME NEW y \in S PROVE x <= y
  <2>1. x \in Nat /\ y \in Nat /\ <<y, x>> \notin below
    BY <1>2
  <2>2. ~(y < x)
    BY <2>1
  <2> QED
    BY <2>1, <2>2
<1> QED
  BY <1>3

\* A set of naturals that holds 0 and with a number the next one holds them all.
LEMMA InductiveSet ==
    ASSUME NEW S, 0 \in S, \A n \in Nat : n \in S => n + 1 \in S
    PROVE  Nat \subseteq S
<1> DEFINE T == {n \in Nat : n \notin S}
<1>1. SUFFICES ASSUME T # {} PROVE FALSE
  OBVIOUS
<1>2. PICK x \in T : \A y \in T : x <= y
  <2>1. T \in SUBSET Nat
    OBVIOUS
  <2> HIDE DEF T
  <2> QED
    BY <1>1, <2>1, Least
<1>3. x \in Nat /\ x # 0 /\ x - 1 \in Nat
  BY <1>2
<1>4. x - 1 \in S
  BY <1>2, <1>3
<1> QED
  BY <1>3, <1>4

\* Functions computed along a list exist: Remaining's.
RemainingOf(entries, f, n) ==
    f = [k \in 0..n |-> IF k = 0 THEN <<>>
                        ELSE IF entries[k].assignments = {} THEN f[k - 1]
                        ELSE Append(f[k - 1], entries[k])]

LEMMA RemainingExists ==
    ASSUME NEW entries
    PROVE  \A n \in Nat : \E f : RemainingOf(entries, f, n)
<1> DEFINE S == {n \in Nat : \E f : RemainingOf(entries, f, n)}
<1>1. 0 \in S
  <2> DEFINE f == [k \in 0..0 |-> <<>>]
  <2>1. RemainingOf(entries, f, 0)
    BY DEF RemainingOf
  <2> QED
    BY <2>1
<1>2. ASSUME NEW n \in Nat, n \in S PROVE n + 1 \in S
  <2>1. PICK f : RemainingOf(entries, f, n)
    BY <1>2
  <2> DEFINE step == IF entries[n + 1].assignments = {} THEN f[n] ELSE Append(f[n], entries[n + 1])
             g == [k \in 0..(n + 1) |-> IF k = n + 1 THEN step ELSE f[k]]
  <2>2. \A k \in 0..n : f[k] = IF k = 0 THEN <<>>
                        ELSE IF entries[k].assignments = {} THEN f[k - 1]
                        ELSE Append(f[k - 1], entries[k])
    BY <2>1 DEF RemainingOf
  <2>3. ASSUME NEW k \in 0..(n + 1)
        PROVE  g[k] = IF k = 0 THEN <<>>
                        ELSE IF entries[k].assignments = {} THEN g[k - 1]
                        ELSE Append(g[k - 1], entries[k])
    <3>1. CASE k = n + 1
      <4>1. g[k] = step /\ g[k - 1] = f[n] /\ k # 0
        BY <3>1
      <4> QED
        BY <4>1, <3>1
    <3>2. CASE k # n + 1
      <4>1. k \in 0..n /\ g[k] = f[k]
        BY <3>2
      <4>2. k # 0 => g[k - 1] = f[k - 1]
        BY <4>1
      <4> HIDE DEF g
      <4> QED
        BY <4>1, <4>2, <2>2
    <3> QED
      BY <3>1, <3>2
  <2>4. RemainingOf(entries, g, n + 1)
    BY <2>3 DEF RemainingOf
  <2> QED
    BY <2>4
<1> HIDE DEF S
<1>3. Nat \subseteq S
  BY <1>1, <1>2, InductiveSet
<1> QED
  BY <1>3 DEF S

\* A part of a list, in its order: each entry at a place of the list of its own.
Places(at, part, entries, n) ==
    /\ at \in [1..Len(part) -> 1..n]
    /\ \A j, k \in 1..Len(part) : j < k => at[j] < at[k]
    /\ \A k \in 1..Len(part) : /\ part[k] = entries[at[k]]
                               /\ entries[at[k]].assignments # {}

PartOf(part, entries, n) ==
    /\ part \in Seq(ToSet(entries)) /\ Len(part) <= n
    /\ \E at : Places(at, part, entries, n)

\* Remaining is such a part.
LEMMA RemainingIsPart ==
    ASSUME NEW S, NEW entries \in Seq(S)
    PROVE  PartOf(Remaining(entries), entries, Len(entries))
<1> DEFINE n == Len(entries)
           upTo == CHOOSE f : RemainingOf(entries, f, n)
<1>0. n \in Nat /\ DOMAIN entries = 1..n
  OBVIOUS
<1>1. RemainingOf(entries, upTo, n)
  <2>1. \E f : RemainingOf(entries, f, n)
    BY <1>0, RemainingExists
  <2> HIDE DEF n
  <2> QED
    BY <2>1
<1>2. Remaining(entries) = upTo[n]
  BY DEF Remaining, RemainingOf
<1> HIDE DEF n, upTo
<1>3. \A k \in 0..n : upTo[k] = IF k = 0 THEN <<>>
                        ELSE IF entries[k].assignments = {} THEN upTo[k - 1]
                        ELSE Append(upTo[k - 1], entries[k])
  BY <1>1 DEF RemainingOf
<1> DEFINE T == {k \in Nat : k <= n => PartOf(upTo[k], entries, k)}
<1>4. 0 \in T
  <2>1. upTo[0] = <<>>
    BY <1>0, <1>3
  <2>2. Places(<<>>, <<>>, entries, 0)
    BY DEF Places
  <2>3. PartOf(<<>>, entries, 0)
    BY <2>2 DEF PartOf
  <2> QED
    BY <2>1, <2>3
<1>5. ASSUME NEW k \in Nat, k \in T PROVE k + 1 \in T
  <2>1. SUFFICES ASSUME k + 1 <= n PROVE PartOf(upTo[k + 1], entries, k + 1)
    OBVIOUS
  <2> DEFINE part == upTo[k]
             next == upTo[k + 1]
  <2>2. PartOf(part, entries, k)
    BY <1>0, <1>5, <2>1
  <2>3. next = IF entries[k + 1].assignments = {} THEN part ELSE Append(part, entries[k + 1])
    BY <1>0, <1>3, <2>1
  <2>4. k + 1 \in 1..n /\ entries[k + 1] \in ToSet(entries)
    BY <1>0, <2>1 DEF ToSet
  <2> HIDE DEF part, next
  <2>a. PICK at : Places(at, part, entries, k)
    BY <2>2 DEF PartOf
  <2>5. /\ at \in [1..Len(part) -> 1..k]
        /\ \A i, j \in 1..Len(part) : i < j => at[i] < at[j]
        /\ \A j \in 1..Len(part) : /\ part[j] = entries[at[j]]
                                   /\ entries[at[j]].assignments # {}
    BY <2>a DEF Places
  <2>6. part \in Seq(ToSet(entries)) /\ Len(part) <= k /\ Len(part) \in Nat
    BY <2>2 DEF PartOf
  <2>7. CASE entries[k + 1].assignments = {}
    <3>1. next = part
      BY <2>3, <2>7
    <3>2. at \in [1..Len(part) -> 1..(k + 1)]
      BY <2>5
    <3>4. Places(at, part, entries, k + 1)
      BY <2>5, <3>2 DEF Places
    <3>3. PartOf(part, entries, k + 1)
      BY <2>6, <3>4 DEF PartOf
    <3> QED
      BY <3>1, <3>3 DEF next
  <2>8. CASE entries[k + 1].assignments # {}
    <3>1. /\ next = Append(part, entries[k + 1])
          /\ next \in Seq(ToSet(entries)) /\ Len(next) = Len(part) + 1
          /\ \A j \in 1..Len(next) : next[j] = IF j = Len(next) THEN entries[k + 1] ELSE part[j]
      BY <2>3, <2>4, <2>6, <2>8
    <3> DEFINE to == [j \in 1..Len(next) |-> IF j = Len(next) THEN k + 1 ELSE at[j]]
    <3>2. to \in [1..Len(next) -> 1..(k + 1)]
      BY <2>5, <2>6, <3>1
    <3>3. \A i, j \in 1..Len(next) : i < j => to[i] < to[j]
      <4> SUFFICES ASSUME NEW i \in 1..Len(next), NEW j \in 1..Len(next), i < j
                   PROVE  to[i] < to[j]
        OBVIOUS
      <4>1. i \in 1..Len(part) /\ to[i] = at[i] /\ at[i] \in 1..k
        BY <2>5, <2>6, <3>1
      <4>2. CASE j = Len(next)
        BY <4>1, <4>2
      <4>3. CASE j # Len(next)
        <5>1. j \in 1..Len(part)
          BY <2>6, <3>1, <4>3
        <5>2. to[j] = at[j]
          BY <4>3
        <5> QED
          BY <2>5, <4>1, <5>1, <5>2
      <4> QED
        BY <4>2, <4>3
    <3>4. ASSUME NEW j \in 1..Len(next)
          PROVE  next[j] = entries[to[j]] /\ entries[to[j]].assignments # {}
      <4>1. CASE j = Len(next)
        <5>1. to[j] = k + 1 /\ next[j] = entries[k + 1]
          BY <3>1, <4>1
        <5> QED
          BY <2>8, <5>1
      <4>2. CASE j # Len(next)
        <5>1. j \in 1..Len(part) /\ to[j] = at[j] /\ next[j] = part[j]
          BY <2>6, <3>1, <4>2
        <5> QED
          BY <2>5, <5>1
      <4> QED
        BY <4>1, <4>2
    <3> HIDE DEF to
    <3>6. Places(to, next, entries, k + 1)
      BY <3>2, <3>3, <3>4 DEF Places
    <3>5. PartOf(next, entries, k + 1)
      BY <2>6, <3>1, <3>6 DEF PartOf
    <3> QED
      BY <3>5 DEF next
  <2> QED
    BY <2>7, <2>8
<1> HIDE DEF T
<1>6. n \in T
  BY <1>0, <1>4, <1>5, InductiveSet
<1>7. PartOf(upTo[n], entries, n)
  BY <1>0, <1>6 DEF T
<1> QED
  BY <1>2, <1>7 DEF n

\* The sum of a list, computed along it.
SumUpTo(list, f, n) ==
    f = [k \in 0..n |-> IF k = 0 THEN 0 ELSE f[k - 1] + list[k][1]]

LEMMA SumExists ==
    ASSUME NEW list
    PROVE  \A n \in Nat : \E f : SumUpTo(list, f, n)
<1> DEFINE S == {n \in Nat : \E f : SumUpTo(list, f, n)}
<1>1. 0 \in S
  <2> DEFINE f == [k \in 0..0 |-> 0]
  <2>1. SumUpTo(list, f, 0)
    BY DEF SumUpTo
  <2> QED
    BY <2>1
<1>2. ASSUME NEW n \in Nat, n \in S PROVE n + 1 \in S
  <2>1. PICK f : SumUpTo(list, f, n)
    BY <1>2
  <2> DEFINE g == [k \in 0..(n + 1) |-> IF k = n + 1 THEN f[n] + list[n + 1][1] ELSE f[k]]
  <2>2. \A k \in 0..n : f[k] = IF k = 0 THEN 0 ELSE f[k - 1] + list[k][1]
    BY <2>1 DEF SumUpTo
  <2>3. ASSUME NEW k \in 0..(n + 1)
        PROVE  g[k] = IF k = 0 THEN 0 ELSE g[k - 1] + list[k][1]
    <3>1. CASE k = n + 1
      <4>1. g[k] = f[n] + list[n + 1][1] /\ g[k - 1] = f[n] /\ k # 0
        BY <3>1
      <4> QED
        BY <4>1, <3>1
    <3>2. CASE k # n + 1
      <4>1. k \in 0..n /\ g[k] = f[k]
        BY <3>2
      <4>2. k # 0 => g[k - 1] = f[k - 1]
        BY <4>1
      <4> HIDE DEF g
      <4> QED
        BY <4>1, <4>2, <2>2
    <3> QED
      BY <3>1, <3>2
  <2>4. SumUpTo(list, g, n + 1)
    BY <2>3 DEF SumUpTo
  <2> QED
    BY <2>4
<1> HIDE DEF S
<1>3. Nat \subseteq S
  BY <1>1, <1>2, InductiveSet
<1> QED
  BY <1>3 DEF S

LEMMA SumOfIs ==
    ASSUME NEW list, Len(list) \in Nat
    PROVE  \E f : /\ SumOf(list) = f[Len(list)]
                  /\ f[0] = 0
                  /\ \A k \in 1..Len(list) : f[k] = f[k - 1] + list[k][1]
<1> DEFINE n == Len(list)
           upTo == CHOOSE f : SumUpTo(list, f, n)
<1>1. SumUpTo(list, upTo, n)
  <2>1. \E f : SumUpTo(list, f, n)
    BY SumExists
  <2> HIDE DEF n
  <2> QED
    BY <2>1
<1>2. SumOf(list) = upTo[n]
  BY DEF SumOf, SumUpTo
<1> HIDE DEF upTo
<1>3. \A k \in 0..n : upTo[k] = IF k = 0 THEN 0 ELSE upTo[k - 1] + list[k][1]
  BY <1>1 DEF SumUpTo
<1>4. upTo[0] = 0
  BY <1>3
<1>5. \A k \in 1..n : upTo[k] = upTo[k - 1] + list[k][1]
  BY <1>3
<1> QED
  BY <1>2, <1>4, <1>5

\* A list's sum grows by what is appended.
LEMMA SumOfEmpty == SumOf(<<>>) = 0
BY SumOfIs

LEMMA SumOfAppend ==
    ASSUME NEW S, NEW list \in Seq(S), NEW r, r[1] \in Nat,
           \A k \in 1..Len(list) : list[k][1] \in Nat
    PROVE  SumOf(list) \in Nat /\ SumOf(Append(list, r)) = SumOf(list) + r[1]
<1> DEFINE n == Len(list)
           longer == Append(list, r)
<1>0. /\ n \in Nat /\ Len(longer) = n + 1 /\ longer[n + 1] = r
      /\ \A k \in 1..n : longer[k] = list[k]
  OBVIOUS
<1>1. PICK f : /\ SumOf(list) = f[n] /\ f[0] = 0
               /\ \A k \in 1..n : f[k] = f[k - 1] + list[k][1]
  BY <1>0, SumOfIs
<1>2. PICK g : /\ SumOf(longer) = g[n + 1] /\ g[0] = 0
               /\ \A k \in 1..(n + 1) : g[k] = g[k - 1] + longer[k][1]
  <2> HIDE DEF longer
  <2>1. Len(longer) \in Nat
    BY <1>0
  <2> QED
    BY <1>0, <2>1, SumOfIs
<1> HIDE DEF longer, n
<1> DEFINE T == {k \in Nat : k <= n => f[k] = g[k] /\ f[k] \in Nat}
<1>3. 0 \in T
  BY <1>1, <1>2
<1>4. ASSUME NEW k \in Nat, k \in T PROVE k + 1 \in T
  <2>1. SUFFICES ASSUME k + 1 <= n PROVE f[k + 1] = g[k + 1] /\ f[k + 1] \in Nat
    OBVIOUS
  <2>2. f[k] = g[k] /\ f[k] \in Nat /\ k + 1 \in 1..n
    BY <1>0, <1>4, <2>1
  <2>3. f[k + 1] = f[k] + list[k + 1][1] /\ g[k + 1] = g[k] + list[k + 1][1]
    BY <1>0, <1>1, <1>2, <2>2
  <2> QED
    BY <2>2, <2>3 DEF n
<1>5. n \in T
  <2> HIDE DEF T
  <2> QED
    BY <1>0, <1>3, <1>4, InductiveSet
<1>6. f[n] = g[n] /\ f[n] \in Nat
  BY <1>0, <1>5
<1>7. g[n + 1] = g[n] + r[1]
  BY <1>0, <1>2
<1> QED
  BY <1>1, <1>2, <1>6, <1>7 DEF longer

-----------------------------------------------------------------------------
(* Types. *)

\* Every version of an experiment a snapshot may hold.
Versions == UNION {ToSet(config) : config \in Configs}

\* What a subject can be remembered for, and the rows that come of it.
Assignments ==
    {Assignment(p[1], AssignVariant(p[1], p[2])) :
        p \in {q \in Versions \X Subjects : AssignVariant(q[1], q[2]) # Nil}}

Entries == [subject : Subjects, assignments : SUBSET Assignments]

Rows == [name : {"exposure", "goal"}, subject : Subjects, experiment : DOMAIN Bucket,
         variant : {a.variant : a \in Assignments}, under : Versions \cup {Nil}]

Counts == [events : Nat, logs : Nat, series : Nat]

Attrs == {r[3] : r \in Recordings} \cup {Nil}

ValueOf(kind) ==
    CASE kind = "counter" -> Nat
      [] kind = "gauge" -> Nat \cup {Nil}
      [] kind = "histogram" -> [count : Nat, max : Nat \cup {-1}, exemplar : Attrs]
      [] kind = "distinct" -> SUBSET Nat

ResolverType ==
    /\ experiments \in Configs \cup {<<>>}
    /\ assignments \in Seq(Entries)
    /\ renewals \in [Pairs -> Nat]

BufferType ==
    /\ events \in Seq(Rows) /\ logs \in Seq(Nat)
    /\ internal \in Counts
    /\ captured.events \in Seq(Rows) /\ captured.logs \in Nat /\ captured.drops \in Counts
    /\ attempts \in [events : Nat, logs : Nat]
    /\ dropped \in [events : SUBSET Rows, logs : SUBSET Nat]
    /\ rejected \in SUBSET Series /\ IsFiniteSet(rejected)

SeriesType ==
    /\ DOMAIN series \subseteq Series
    /\ \A s \in Series : Live(s) \in ValueOf(s[1]) /\ captured.series[s] \in ValueOf(s[1])
    /\ recorded \in [Series -> Seq(Nat \X Attrs)]

TypeOK == ResolverType /\ BufferType /\ SeriesType

\* An assignment names the version it was made under.
LEMMA AssignmentFacts ==
    ASSUME NEW a \in Assignments
    PROVE  /\ a.fingerprint \in Versions /\ a.experiment = a.fingerprint.id
           /\ a.experiment \in DOMAIN Bucket
<1>1. PICK p \in Versions \X Subjects : a = Assignment(p[1], AssignVariant(p[1], p[2]))
  BY DEF Assignments
<1>2. a.fingerprint = p[1] /\ a.experiment = p[1].id
  BY <1>1 DEF Assignment
<1>3. p[1] \in Versions
  OBVIOUS
<1>4. PICK config \in Configs : p[1] \in ToSet(config)
  BY <1>3 DEF Versions
<1>5. p[1].id \in DOMAIN Bucket
  BY <1>4, SdkCoreAssumption DEF ToSet
<1> QED
  BY <1>2, <1>3, <1>5

\* The experiments served are versions with distinct ids.
LEMMA ServedList ==
    ASSUME experiments \in Configs \cup {<<>>}
    PROVE  /\ experiments \in Seq(ToSet(experiments))
           /\ ToSet(experiments) \subseteq Versions
           /\ \A e, f \in ToSet(experiments) : e.id = f.id => e = f
<1>1. CASE experiments \in Configs
  <2>1. /\ experiments \in Seq(ToSet(experiments))
        /\ \A j, k \in DOMAIN experiments : experiments[j].id = experiments[k].id => j = k
    BY <1>1, SdkCoreAssumption
  <2>2. ToSet(experiments) \subseteq Versions
    BY <1>1 DEF Versions
  <2>3. \A e, f \in ToSet(experiments) : e.id = f.id => e = f
    BY <2>1 DEF ToSet
  <2> QED
    BY <2>1, <2>2, <2>3
<1>2. CASE experiments = <<>>
  <2>1. ToSet(experiments) = {}
    BY <1>2 DEF ToSet
  <2> QED
    BY <1>2, <2>1
<1> QED
  BY <1>1, <1>2

\* An enabled experiment of the snapshot is what its id is served as.
LEMMA ServedFacts ==
    ASSUME experiments \in Configs \cup {<<>>}
    PROVE  /\ \A id : Served(id) \in Versions \cup {Nil}
           /\ \A e \in ToSet(experiments) : e.enabled => Served(e.id) = e
<1>1. ASSUME NEW id PROVE Served(id) \in Versions \cup {Nil}
  BY ServedList DEF Served
<1>2. ASSUME NEW e \in ToSet(experiments), e.enabled PROVE Served(e.id) = e
  <2> DEFINE serving == {f \in ToSet(experiments) : f.id = e.id /\ f.enabled}
  <2>1. serving = {e}
    BY <1>2, ServedList
  <2>2. Served(e.id) = CHOOSE f \in serving : TRUE
    BY <2>1 DEF Served
  <2> HIDE DEF serving
  <2> QED
    BY <2>1, <2>2
<1> QED
  BY <1>1, <1>2

\* The experiment that answers is enabled, and has a variant for the subject.
LEMMA AnsweringFacts ==
    ASSUME experiments \in Configs \cup {<<>>}, NEW key, NEW subject,
           Answering(key, subject) # Nil
    PROVE  LET e == Answering(key, subject) IN
           e \in ToSet(experiments) /\ e.enabled /\ AssignVariant(e, subject) # Nil
<1> DEFINE sets(e) == LET variant == AssignVariant(e, subject) IN
                      variant # Nil /\ key \in DOMAIN variant.values
           setting == {k \in 1..Len(experiments) : sets(experiments[k])}
           first == CHOOSE k \in setting : \A j \in setting : k <= j
<1>1. setting # {} /\ Answering(key, subject) = experiments[first]
  BY DEF Answering
<1>2. first \in setting
  <2>1. setting \in SUBSET Nat
    BY ServedList
  <2> HIDE DEF setting
  <2>2. \E k \in setting : \A j \in setting : k <= j
    BY <1>1, <2>1, Least
  <2> QED
    BY <2>2
<1> HIDE DEF first
<1>3. first \in 1..Len(experiments) /\ AssignVariant(experiments[first], subject) # Nil
  BY <1>2
<1>4. experiments[first] \in ToSet(experiments)
  BY <1>3, ServedList DEF ToSet
<1>5. experiments[first].enabled
  BY <1>3 DEF AssignVariant, VariantAt
<1> QED
  BY <1>1, <1>3, <1>4, <1>5

\* What is remembered of a subject.
LEMMA RememberedFacts ==
    ASSUME NEW entries \in Seq(Entries)
    PROVE  /\ Remembered(entries) \subseteq Pairs
           /\ \A subject, id : <<subject, id>> \in Remembered(entries) <=>
                 \E k \in 1..Len(entries) : /\ entries[k].subject = subject
                                            /\ \E a \in entries[k].assignments : a.experiment = id
<1>1. \A subject, id : <<subject, id>> \in Remembered(entries) <=>
                 \E k \in 1..Len(entries) : /\ entries[k].subject = subject
                                            /\ \E a \in entries[k].assignments : a.experiment = id
  <2>1. \A p : p \in Remembered(entries) <=>
          \E entry \in ToSet(entries) : \E a \in entry.assignments : p = <<entry.subject, a.experiment>>
    BY DEF Remembered
  <2>2. \A entry : entry \in ToSet(entries) <=> \E k \in 1..Len(entries) : entry = entries[k]
    BY DEF ToSet
  <2> SUFFICES ASSUME NEW subject, NEW id
               PROVE  <<subject, id>> \in Remembered(entries) <=>
                        \E k \in 1..Len(entries) : /\ entries[k].subject = subject
                                                   /\ \E a \in entries[k].assignments : a.experiment = id
    OBVIOUS
  <2>3. ASSUME <<subject, id>> \in Remembered(entries)
        PROVE  \E k \in 1..Len(entries) : /\ entries[k].subject = subject
                                          /\ \E a \in entries[k].assignments : a.experiment = id
    <3>1. PICK entry \in ToSet(entries) :
             \E a \in entry.assignments : <<subject, id>> = <<entry.subject, a.experiment>>
      BY <2>1, <2>3
    <3>2. PICK a \in entry.assignments : subject = entry.subject /\ id = a.experiment
      BY <3>1
    <3>3. PICK k \in 1..Len(entries) : entry = entries[k]
      BY <2>2
    <3> QED
      BY <3>2, <3>3
  <2>4. ASSUME NEW k \in 1..Len(entries), entries[k].subject = subject,
               NEW a \in entries[k].assignments, a.experiment = id
        PROVE  <<subject, id>> \in Remembered(entries)
    BY <2>1, <2>2, <2>4
  <2> QED
    BY <2>3, <2>4
<1>2. ASSUME NEW p \in Remembered(entries) PROVE p \in Pairs
  <2>1. PICK entry \in ToSet(entries) : \E a \in entry.assignments : p = <<entry.subject, a.experiment>>
    BY DEF Remembered
  <2>2. entry \in Entries
    BY DEF ToSet
  <2>3. PICK a \in entry.assignments : p = <<entry.subject, a.experiment>>
    BY <2>1
  <2>4. entry.subject \in Subjects /\ a \in Assignments
    BY <2>2 DEF Entries
  <2> QED
    BY <2>3, <2>4, AssignmentFacts DEF Pairs
<1> QED
  BY <1>1, <1>2

\* Room is made among the entries there are.
LEMMA MakeRoomFacts ==
    ASSUME assignments \in Seq(Entries)
    PROVE  /\ MakeRoom \in 0..Len(assignments)
           /\ Len(assignments) - MakeRoom < MaxSubjects
           /\ SubSeq(assignments, MakeRoom + 1, Len(assignments)) \in Seq(Entries)
           /\ Len(SubSeq(assignments, MakeRoom + 1, Len(assignments))) = Len(assignments) - MakeRoom
           /\ \A k \in 1..(Len(assignments) - MakeRoom) :
                 SubSeq(assignments, MakeRoom + 1, Len(assignments))[k] = assignments[k + MakeRoom]
<1>1. Len(assignments) \in Nat /\ MaxSubjects \in Nat \ {0}
  BY SdkCoreAssumption
<1>2. MakeRoom \in 0..Len(assignments) /\ Len(assignments) - MakeRoom < MaxSubjects
  BY <1>1 DEF MakeRoom
<1> QED
  BY <1>1, <1>2

\* The entry an assignment joins.
LEMMA JoinedEntry ==
    ASSUME NEW entry \in Entries, NEW assignment \in Assignments
    PROVE  /\ [entry EXCEPT !.assignments = @ \cup {assignment}] \in Entries
           /\ [entry EXCEPT !.assignments = @ \cup {assignment}].subject = entry.subject
           /\ [entry EXCEPT !.assignments = @ \cup {assignment}].assignments
                 = entry.assignments \cup {assignment}
BY DEF Entries

LEMMA RecordAssignmentType ==
    ASSUME ResolverType, NEW subject \in Subjects, NEW assignment \in Assignments,
           RecordAssignment(subject, assignment), UNCHANGED experiments
    PROVE  ResolverType'
<1> DEFINE n == Len(assignments)
<1>1. assignments \in Seq(Entries) /\ n \in Nat /\ \A k \in 1..n : assignments[k] \in Entries
  BY DEF ResolverType
<1>2. assignments' \in Seq(Entries)
  <2>1. CASE Knows(subject)
    <3>1. assignments' = [k \in 1..n |->
                  IF assignments[k].subject # subject THEN assignments[k]
                  ELSE [assignments[k] EXCEPT !.assignments = @ \cup {assignment}]]
      BY <2>1 DEF RecordAssignment
    <3>2. \A k \in 1..n : assignments'[k] \in Entries
      BY <1>1, <3>1, JoinedEntry
    <3> QED
      BY <1>1, <3>1, <3>2
  <2>2. CASE ~Knows(subject)
    <3>1. assignments' = Append(SubSeq(assignments, MakeRoom + 1, n),
                                [subject |-> subject, assignments |-> {assignment}])
      BY <2>2 DEF RecordAssignment
    <3>2. [subject |-> subject, assignments |-> {assignment}] \in Entries
      BY DEF Entries
    <3> QED
      BY <1>1, <3>1, <3>2, MakeRoomFacts
  <2> QED
    BY <2>1, <2>2
<1>3. renewals' \in [Pairs -> Nat]
  <2>1. renewals' = Forgetting(assignments')
    BY DEF RecordAssignment
  <2>2. renewals \in [Pairs -> Nat]
    BY DEF ResolverType
  <2> QED
    BY <2>1, <2>2 DEF Forgetting
<1> QED
  BY <1>2, <1>3 DEF ResolverType

\* The entries under a new snapshot, before the empty ones go.
LEMMA LeftEntries ==
    ASSUME assignments \in Seq(Entries), NEW config
    PROVE  LET left == [k \in 1..Len(assignments) |->
                          [assignments[k] EXCEPT !.assignments = Kept(@, config)]]
           IN  /\ left \in Seq(Entries) /\ Len(left) = Len(assignments)
               /\ \A k \in 1..Len(assignments) :
                     /\ left[k].subject = assignments[k].subject
                     /\ left[k].assignments = Kept(assignments[k].assignments, config)
<1> DEFINE left == [k \in 1..Len(assignments) |->
                      [assignments[k] EXCEPT !.assignments = Kept(@, config)]]
<1>1. ASSUME NEW entry \in Entries
      PROVE  LET kept == [entry EXCEPT !.assignments = Kept(@, config)] IN
             /\ kept \in Entries /\ kept.subject = entry.subject
             /\ kept.assignments = Kept(entry.assignments, config)
  <2>1. Kept(entry.assignments, config) \in SUBSET Assignments
    BY DEF Kept, Entries
  <2> QED
    BY <2>1 DEF Entries
<1>2. Len(assignments) \in Nat /\ \A k \in 1..Len(assignments) : assignments[k] \in Entries
  OBVIOUS
<1>3. \A k \in 1..Len(assignments) :
         left[k] \in Entries /\ left[k].subject = assignments[k].subject
         /\ left[k].assignments = Kept(assignments[k].assignments, config)
  BY <1>1, <1>2
<1>4. left \in Seq(Entries) /\ Len(left) = Len(assignments)
  BY <1>2, <1>3
<1> QED
  BY <1>3, <1>4

\* A part of a list of entries is one.
LEMMA RemainingType ==
    ASSUME NEW entries \in Seq(Entries)
    PROVE  /\ Remaining(entries) \in Seq(Entries)
           /\ Len(Remaining(entries)) <= Len(entries)
<1>1. Remaining(entries) \in Seq(ToSet(entries)) /\ Len(Remaining(entries)) <= Len(entries)
  BY RemainingIsPart DEF PartOf
<1>2. ToSet(entries) \subseteq Entries
  BY DEF ToSet
<1> QED
  BY <1>1, <1>2

LEMMA ApplyConfigType ==
    ASSUME ResolverType, NEW config \in Configs, ApplyConfig(config)
    PROVE  ResolverType'
<1> DEFINE left == [k \in 1..Len(assignments) |->
                      [assignments[k] EXCEPT !.assignments = Kept(@, config)]]
<1>1. /\ experiments' = config /\ assignments' = Remaining(left)
      /\ renewals' = Forgetting(assignments')
  BY DEF ApplyConfig
<1>2. left \in Seq(Entries)
  BY LeftEntries DEF ResolverType
<1> HIDE DEF left
<1>3. assignments' \in Seq(Entries)
  BY <1>1, <1>2, RemainingType
<1>4. renewals' \in [Pairs -> Nat]
  BY <1>1 DEF Forgetting, ResolverType
<1> QED
  BY <1>1, <1>3, <1>4 DEF ResolverType

\* One more of what is counted.
LEMMA CountOne ==
    ASSUME NEW c \in Counts, NEW m \in Nat
    PROVE  /\ [c EXCEPT !.events = @ + 1] \in Counts
           /\ [c EXCEPT !.events = @ + 1].events = c.events + 1
           /\ [c EXCEPT !.events = @ + 1].logs = c.logs
           /\ [c EXCEPT !.events = @ + 1].series = c.series
           /\ [c EXCEPT !.logs = @ + 1] \in Counts
           /\ [c EXCEPT !.logs = @ + 1].events = c.events
           /\ [c EXCEPT !.logs = @ + 1].logs = c.logs + 1
           /\ [c EXCEPT !.logs = @ + 1].series = c.series
           /\ [c EXCEPT !.series = @ + m] \in Counts
           /\ [c EXCEPT !.series = @ + m].events = c.events
           /\ [c EXCEPT !.series = @ + m].logs = c.logs
           /\ [c EXCEPT !.series = @ + m].series = c.series + m
BY DEF Counts

LEMMA AttemptOne ==
    ASSUME NEW c \in [events : Nat, logs : Nat]
    PROVE  /\ [c EXCEPT !.events = @ + 1] \in [events : Nat, logs : Nat]
           /\ [c EXCEPT !.events = @ + 1].events = c.events + 1
           /\ [c EXCEPT !.events = @ + 1].logs = c.logs
           /\ [c EXCEPT !.logs = @ + 1] \in [events : Nat, logs : Nat]
           /\ [c EXCEPT !.logs = @ + 1].events = c.events
           /\ [c EXCEPT !.logs = @ + 1].logs = c.logs + 1
OBVIOUS

LEMMA EmitType ==
    ASSUME BufferType, NEW event \in Rows, Emit(event), UNCHANGED <<logs, captured, rejected>>
    PROVE  BufferType'
<1>1. attempts' \in [events : Nat, logs : Nat]
  BY DEF BufferType, Emit
<1>2. events' \in Seq(Rows) /\ internal' \in Counts /\ dropped' \in [events : SUBSET Rows, logs : SUBSET Nat]
  <2>1. CASE Len(events) < MaxEvents
    <3>1. events' = Append(events, event) /\ UNCHANGED <<internal, dropped>>
      BY <2>1 DEF Emit
    <3>2. events' \in Seq(Rows)
      BY <3>1 DEF BufferType
    <3> QED
      BY <3>1, <3>2 DEF BufferType
  <2>2. CASE ~(Len(events) < MaxEvents)
    <3>1. /\ internal' = [internal EXCEPT !.events = @ + 1]
          /\ dropped' = [dropped EXCEPT !.events = @ \cup {event}]
          /\ UNCHANGED events
      BY <2>2 DEF Emit
    <3>2. internal' \in Counts
      BY <3>1 DEF BufferType, Counts
    <3>3. dropped' \in [events : SUBSET Rows, logs : SUBSET Nat]
      BY <3>1 DEF BufferType
    <3> QED
      BY <3>1, <3>2, <3>3 DEF BufferType
  <2> QED
    BY <2>1, <2>2
<1>3. logs' \in Seq(Nat) /\ captured'.events \in Seq(Rows) /\ captured'.logs \in Nat /\ captured'.drops \in Counts
  BY DEF BufferType
<1>4. rejected' \in SUBSET Series /\ IsFiniteSet(rejected')
  BY DEF BufferType
<1> QED
  BY <1>1, <1>2, <1>3, <1>4 DEF BufferType

\* The victim is a line of the lowest rank, below that of the new one.
LEMMA VictimFacts ==
    ASSUME logs \in Seq(Nat), NEW rank \in Nat
    PROVE  /\ Victim(rank) = 0 => \A k \in 1..Len(logs) : logs[k] >= rank
           /\ Victim(rank) # 0 =>
                 /\ Victim(rank) \in 1..Len(logs)
                 /\ logs[Victim(rank)] < rank
                 /\ \A k \in 1..Len(logs) : logs[k] >= logs[Victim(rank)]
<1> DEFINE lower == {k \in 1..Len(logs) : logs[k] < rank}
           lowest == {k \in lower : \A j \in lower : logs[k] <= logs[j]}
           first == CHOOSE k \in lowest : \A j \in lowest : k <= j
<1>1. Victim(rank) = IF lower = {} THEN 0 ELSE first
  BY DEF Victim
<1>2. CASE lower = {}
  <2>1. Victim(rank) = 0
    BY <1>1, <1>2
  <2>2. \A k \in 1..Len(logs) : logs[k] >= rank
    BY <1>2
  <2> QED
    BY <2>1, <2>2
<1>3. CASE lower # {}
  <2>1. lowest # {}
    <3> DEFINE ranks == {logs[k] : k \in lower}
    <3>1. ranks \in SUBSET Nat /\ ranks # {}
      BY <1>3
    <3>2. PICK x \in ranks : \A y \in ranks : x <= y
      <4> HIDE DEF ranks
      <4> QED
        BY <3>1, Least
    <3>3. PICK k \in lower : logs[k] = x
      OBVIOUS
    <3>4. k \in lowest
      BY <3>2, <3>3
    <3> QED
      BY <3>4
  <2>2. first \in lowest
    <3>1. lowest \in SUBSET Nat
      OBVIOUS
    <3> HIDE DEF lowest
    <3>2. \E k \in lowest : \A j \in lowest : k <= j
      BY <2>1, <3>1, Least
    <3> QED
      BY <3>2
  <2>3. Victim(rank) = first
    BY <1>1, <1>3
  <2> HIDE DEF first
  <2>4. first \in 1..Len(logs) /\ first # 0 /\ logs[first] < rank
    BY <2>2
  <2>5. ASSUME NEW k \in 1..Len(logs) PROVE logs[k] >= logs[first]
    <3>1. CASE k \in lower
      BY <2>2, <2>4, <3>1
    <3>2. CASE k \notin lower
      BY <2>4, <3>2
    <3> QED
      BY <3>1, <3>2
  <2> HIDE DEF lower, lowest
  <2> QED
    BY <2>3, <2>4, <2>5
<1> QED
  BY <1>2, <1>3

LEMMA LogCallType ==
    ASSUME BufferType, NEW rank \in Levels, LogCall(rank), UNCHANGED rejected
    PROVE  BufferType'
<1>1. /\ rank \in Nat /\ logs \in Seq(Nat) /\ internal \in Counts
      /\ dropped \in [events : SUBSET Rows, logs : SUBSET Nat]
      /\ attempts \in [events : Nat, logs : Nat]
  BY SdkCoreAssumption DEF BufferType
<1>2. attempts' = [attempts EXCEPT !.logs = @ + 1] /\ UNCHANGED <<events, captured>>
  BY DEF LogCall
<1>3. attempts' \in [events : Nat, logs : Nat]
  BY <1>1, <1>2, AttemptOne
<1>4. logs' \in Seq(Nat) /\ internal' \in Counts /\ dropped' \in [events : SUBSET Rows, logs : SUBSET Nat]
  <2>1. CASE Len(logs) < MaxLogs
    <3>1. logs' = Append(logs, rank) /\ UNCHANGED <<internal, dropped>>
      BY <2>1 DEF LogCall
    <3> QED
      BY <1>1, <3>1
  <2>2. CASE ~(Len(logs) < MaxLogs)
    <3>1. internal' = [internal EXCEPT !.logs = @ + 1]
      BY <2>2 DEF LogCall
    <3>2. internal' \in Counts
      BY <1>1, <3>1, CountOne
    <3>3. CASE Victim(rank) = 0
      <4>1. dropped' = [dropped EXCEPT !.logs = @ \cup {rank}] /\ UNCHANGED logs
        BY <2>2, <3>3 DEF LogCall
      <4>2. dropped' \in [events : SUBSET Rows, logs : SUBSET Nat]
        BY <1>1, <4>1
      <4> QED
        BY <1>1, <3>2, <4>1, <4>2
    <3>4. CASE Victim(rank) # 0
      <4>1. /\ dropped' = [dropped EXCEPT !.logs = @ \cup {logs[Victim(rank)]}]
            /\ logs' = [logs EXCEPT ![Victim(rank)] = rank]
        BY <2>2, <3>4 DEF LogCall
      <4>2. Victim(rank) \in 1..Len(logs)
        BY <1>1, <3>4, VictimFacts
      <4>3. logs[Victim(rank)] \in Nat
        BY <1>1, <4>2
      <4>4. dropped' \in [events : SUBSET Rows, logs : SUBSET Nat]
        BY <1>1, <4>1, <4>3
      <4>5. logs' \in Seq(Nat)
        BY <1>1, <4>1, <4>2
      <4> QED
        BY <3>2, <4>4, <4>5
    <3> QED
      BY <3>3, <3>4
  <2> QED
    BY <2>1, <2>2
<1>5. /\ events' \in Seq(Rows) /\ captured'.events \in Seq(Rows) /\ captured'.logs \in Nat
      /\ captured'.drops \in Counts /\ rejected' \in SUBSET Series /\ IsFiniteSet(rejected')
  BY <1>2 DEF BufferType
<1> QED
  BY <1>3, <1>4, <1>5 DEF BufferType

LEMMA RecordBufferType ==
    ASSUME BufferType, NEW s \in Series, NEW v, NEW attrs, Record(s, v, attrs)
    PROVE  BufferType'
<1>1. UNCHANGED <<events, logs, captured, attempts, dropped>>
  BY DEF Record
<1>2. rejected' \in SUBSET Series /\ IsFiniteSet(rejected') /\ internal' \in Counts
  <2>1. CASE s \notin rejected /\ Admits(s)
    <3>1. UNCHANGED <<rejected, internal>>
      BY <2>1 DEF Record
    <3> QED
      BY <3>1 DEF BufferType
  <2>2. CASE ~(s \notin rejected /\ Admits(s))
    <3>1. rejected' = rejected \cup {s}
      BY <2>2 DEF Record
    <3>2. internal' = [internal EXCEPT !.series = @ + IF s \in rejected THEN 0 ELSE 1]
      BY <2>2 DEF Record
    <3>3. IsFiniteSet(rejected') /\ rejected' \in SUBSET Series
      BY <3>1, FS_AddElement DEF BufferType
    <3>4. internal \in Counts /\ (IF s \in rejected THEN 0 ELSE 1) \in Nat
      BY DEF BufferType
    <3>5. internal' \in Counts
      BY <3>2, <3>4, CountOne
    <3> QED
      BY <3>3, <3>5
  <2> QED
    BY <2>1, <2>2
<1>3. /\ events' \in Seq(Rows) /\ logs' \in Seq(Nat) /\ captured'.events \in Seq(Rows)
      /\ captured'.logs \in Nat /\ captured'.drops \in Counts
  BY <1>1 DEF BufferType
<1>4. attempts' \in [events : Nat, logs : Nat] /\ dropped' \in [events : SUBSET Rows, logs : SUBSET Nat]
  BY <1>1 DEF BufferType
<1> QED
  BY <1>2, <1>3, <1>4 DEF BufferType

\* What a capture leaves of the buffers and adds to what was captured.
LEMMA CaptureFacts ==
    ASSUME BufferType, Capture
    PROVE  /\ events' = <<>> /\ logs' = <<>>
           /\ internal' = [events |-> 0, logs |-> 0, series |-> 0]
           /\ dropped' = [events |-> dropped.events, logs |-> {}]
           /\ captured'.events = captured.events \o events
           /\ captured'.logs = captured.logs + Len(logs)
           /\ captured'.drops = [events |-> captured.drops.events + internal.events,
                                 logs |-> captured.drops.logs + internal.logs,
                                 series |-> captured.drops.series + internal.series]
           /\ UNCHANGED <<rejected, attempts>>
<1>1. DOMAIN internal = {"events", "logs", "series"}
  BY DEF BufferType, Counts
<1>2. captured'.drops = [c \in DOMAIN internal |-> captured.drops[c] + internal[c]]
  BY DEF Capture
<1>3. captured'.drops = [events |-> captured.drops.events + internal.events,
                         logs |-> captured.drops.logs + internal.logs,
                         series |-> captured.drops.series + internal.series]
  BY <1>1, <1>2
<1>4. dropped' = [events |-> dropped.events, logs |-> {}]
  BY DEF Capture, BufferType
<1> QED
  BY <1>3, <1>4 DEF Capture, Reset

LEMMA CaptureType ==
    ASSUME BufferType, Capture
    PROVE  BufferType'
<1>1. /\ events \in Seq(Rows) /\ logs \in Seq(Nat) /\ internal \in Counts
      /\ captured.events \in Seq(Rows) /\ captured.logs \in Nat /\ captured.drops \in Counts
      /\ dropped \in [events : SUBSET Rows, logs : SUBSET Nat]
  BY DEF BufferType
<1>2. /\ events' = <<>> /\ logs' = <<>>
      /\ internal' = [events |-> 0, logs |-> 0, series |-> 0]
      /\ dropped' = [events |-> dropped.events, logs |-> {}]
      /\ captured'.events = captured.events \o events
      /\ captured'.logs = captured.logs + Len(logs)
      /\ captured'.drops = [events |-> captured.drops.events + internal.events,
                            logs |-> captured.drops.logs + internal.logs,
                            series |-> captured.drops.series + internal.series]
      /\ UNCHANGED <<rejected, attempts>>
  BY CaptureFacts
<1>3. captured'.drops \in Counts /\ internal' \in Counts
  <2>1. /\ captured.drops.events \in Nat /\ captured.drops.logs \in Nat /\ captured.drops.series \in Nat
        /\ internal.events \in Nat /\ internal.logs \in Nat /\ internal.series \in Nat
    BY <1>1 DEF Counts
  <2>2. captured'.drops \in Counts
    BY <1>2, <2>1 DEF Counts
  <2>3. internal' \in Counts
    BY <1>2 DEF Counts
  <2> QED
    BY <2>2, <2>3
<1>4. captured'.events \in Seq(Rows) /\ captured'.logs \in Nat /\ events' \in Seq(Rows) /\ logs' \in Seq(Nat)
  BY <1>1, <1>2
<1>5. dropped' \in [events : SUBSET Rows, logs : SUBSET Nat]
  BY <1>1, <1>2
<1>6. /\ rejected' \in SUBSET Series /\ IsFiniteSet(rejected')
      /\ attempts' \in [events : Nat, logs : Nat]
  BY <1>2 DEF BufferType
<1> QED
  BY <1>3, <1>4, <1>5, <1>6 DEF BufferType

\* Values stay what their kind makes them.
LEMMA CleanType ==
    ASSUME NEW kind \in Kinds
    PROVE  Clean(kind) \in ValueOf(kind)
BY DEF Kinds, Clean, ValueOf, Attrs

LEMMA RecordedType ==
    ASSUME NEW kind \in Kinds, NEW live \in ValueOf(kind), NEW v \in Nat, NEW attrs \in Attrs
    PROVE  Recorded(kind, live, v, attrs) \in ValueOf(kind)
<1>1. CASE kind = "counter"
  BY <1>1 DEF Recorded, ValueOf
<1>2. CASE kind = "gauge"
  BY <1>2 DEF Recorded, ValueOf
<1>3. CASE kind = "histogram"
  <2>1. live \in [count : Nat, max : Nat \cup {-1}, exemplar : Attrs]
    BY <1>3 DEF ValueOf
  <2>2. Recorded(kind, live, v, attrs) =
            [count |-> live.count + 1,
             max |-> IF v >= live.max THEN v ELSE live.max,
             exemplar |-> IF v >= live.max THEN attrs ELSE live.exemplar]
    BY <1>3 DEF Recorded
  <2>3. Recorded(kind, live, v, attrs) \in [count : Nat, max : Nat \cup {-1}, exemplar : Attrs]
    BY <2>1, <2>2
  <2> QED
    BY <1>3, <2>3 DEF ValueOf
<1>4. CASE kind = "distinct"
  BY <1>4 DEF Recorded, ValueOf
<1> QED
  BY <1>1, <1>2, <1>3, <1>4 DEF Kinds

LEMMA MergedType ==
    ASSUME NEW kind \in Kinds, NEW before \in ValueOf(kind), NEW live \in ValueOf(kind)
    PROVE  Merged(kind, before, live) \in ValueOf(kind)
<1>1. CASE kind = "counter"
  BY <1>1 DEF Merged, ValueOf
<1>2. CASE kind = "gauge"
  BY <1>2 DEF Merged, ValueOf
<1>3. CASE kind = "histogram"
  <2>1. /\ live \in [count : Nat, max : Nat \cup {-1}, exemplar : Attrs]
        /\ before \in [count : Nat, max : Nat \cup {-1}, exemplar : Attrs]
    BY <1>3 DEF ValueOf
  <2>2. Merged(kind, before, live) =
            [count |-> before.count + live.count, exemplar |-> Nil,
             max |-> IF live.max > before.max THEN live.max ELSE before.max]
    BY <1>3 DEF Merged
  <2>3. Nil \in Attrs
    BY DEF Attrs
  <2>4. Merged(kind, before, live) \in [count : Nat, max : Nat \cup {-1}, exemplar : Attrs]
    BY <2>1, <2>2, <2>3
  <2> QED
    BY <1>3, <2>4 DEF ValueOf
<1>4. CASE kind = "distinct"
  BY <1>4 DEF Merged, ValueOf
<1> QED
  BY <1>1, <1>2, <1>3, <1>4 DEF Kinds

\* What a recording changes: the series it is for, if that is not refused.
LEMMA RecordSeries ==
    ASSUME SeriesType, NEW s \in Series, NEW v, NEW attrs, Record(s, v, attrs)
    PROVE  /\ captured' = captured
           /\ DOMAIN series' \subseteq Series
           /\ \/ /\ \A t \in Series : Live(t)' = IF t = s THEN Recorded(s[1], Live(s), v, attrs)
                                                          ELSE Live(t)
                 /\ recorded' = [recorded EXCEPT ![s] = Append(@, <<v, attrs>>)]
              \/ /\ \A t \in Series : Live(t)' = Live(t)
                 /\ recorded' = recorded
<1>1. captured' = captured
  BY DEF Record
<1>2. CASE s \notin rejected /\ Admits(s)
  <2>1. series' = [t \in DOMAIN series \cup {s} |->
                     IF t = s THEN Recorded(s[1], Live(s), v, attrs) ELSE series[t]]
    BY <1>2 DEF Record
  <2>2. recorded' = [recorded EXCEPT ![s] = Append(@, <<v, attrs>>)]
    BY <1>2 DEF Record
  <2>3. DOMAIN series' = DOMAIN series \cup {s}
    BY <2>1
  <2>4. ASSUME NEW t \in Series
        PROVE  Live(t)' = IF t = s THEN Recorded(s[1], Live(s), v, attrs) ELSE Live(t)
    <3>1. Live(t)' = IF t \in DOMAIN series' THEN series'[t] ELSE Clean(t[1])
      BY DEF Live
    <3> HIDE DEF Live
    <3>2. CASE t = s
      BY <2>1, <2>3, <3>1, <3>2
    <3>3. CASE t # s
      BY <2>1, <2>3, <3>1, <3>3 DEF Live
    <3> QED
      BY <3>2, <3>3
  <2>5. DOMAIN series' \subseteq Series
    BY <2>3 DEF SeriesType
  <2> QED
    BY <1>1, <2>2, <2>4, <2>5
<1>3. CASE ~(s \notin rejected /\ Admits(s))
  <2>1. UNCHANGED <<series, recorded>>
    BY <1>3 DEF Record
  <2> QED
    BY <1>1, <2>1 DEF Live, SeriesType
<1> QED
  BY <1>2, <1>3

LEMMA CaptureSeries ==
    ASSUME SeriesType, Capture
    PROVE  /\ recorded' = recorded
           /\ DOMAIN series' \subseteq Series
           /\ \A t \in Series : /\ Live(t)' = Clean(t[1])
                                /\ captured'.series[t] = Merged(t[1], captured.series[t], Live(t))
<1>1. series' = [s \in DOMAIN series |-> Clean(s[1])] /\ recorded' = recorded
  BY DEF Capture, Cleaned
<1>2. captured'.series = [s \in Series |-> Merged(s[1], captured.series[s], Live(s))]
  BY DEF Capture
<1>3. \A t \in Series : Live(t)' = Clean(t[1])
  BY <1>1 DEF Live
<1> QED
  BY <1>1, <1>2, <1>3 DEF SeriesType

LEMMA KindOf ==
    ASSUME NEW s \in Series
    PROVE  s[1] \in Kinds
BY SdkCoreAssumption

LEMMA RecordType ==
    ASSUME SeriesType, NEW r \in Recordings, Record(r[1], r[2], r[3])
    PROVE  SeriesType'
<1>1. r[1] \in Series /\ r[2] \in Nat /\ r[3] \in Attrs
  BY SdkCoreAssumption DEF Attrs
<1>2. /\ recorded \in [Series -> Seq(Nat \X Attrs)]
      /\ \A t \in Series : Live(t) \in ValueOf(t[1]) /\ captured.series[t] \in ValueOf(t[1])
  BY DEF SeriesType
<1> DEFINE s == r[1]
           new == Recorded(s[1], Live(s), r[2], r[3])
<1>3. new \in ValueOf(s[1])
  BY <1>1, <1>2, KindOf, RecordedType
<1>4. \/ /\ \A t \in Series : Live(t)' = IF t = s THEN new ELSE Live(t)
         /\ recorded' = [recorded EXCEPT ![s] = Append(@, <<r[2], r[3]>>)]
      \/ /\ \A t \in Series : Live(t)' = Live(t)
         /\ recorded' = recorded
  BY <1>1, RecordSeries
<1>5. captured' = captured /\ DOMAIN series' \subseteq Series
  BY <1>1, RecordSeries
<1> HIDE DEF new
<1>6. \A t \in Series : Live(t)' \in ValueOf(t[1])
  BY <1>2, <1>3, <1>4
<1>7. recorded' \in [Series -> Seq(Nat \X Attrs)]
  <2>1. <<r[2], r[3]>> \in Nat \X Attrs /\ s \in Series
    BY <1>1
  <2>2. Append(recorded[s], <<r[2], r[3]>>) \in Seq(Nat \X Attrs)
    BY <1>2, <2>1
  <2> HIDE DEF s
  <2> QED
    BY <1>2, <1>4, <2>2
<1>8. \A t \in Series : captured'.series[t] \in ValueOf(t[1])
  BY <1>2, <1>5
<1> QED
  BY <1>5, <1>6, <1>7, <1>8 DEF SeriesType

LEMMA CaptureSeriesType ==
    ASSUME SeriesType, Capture
    PROVE  SeriesType'
<1>1. \A t \in Series : Live(t) \in ValueOf(t[1]) /\ captured.series[t] \in ValueOf(t[1])
  BY DEF SeriesType
<1>2. /\ recorded' = recorded /\ DOMAIN series' \subseteq Series
      /\ \A t \in Series : /\ Live(t)' = Clean(t[1])
                           /\ captured'.series[t] = Merged(t[1], captured.series[t], Live(t))
  BY CaptureSeries
<1>3. \A t \in Series : Live(t)' \in ValueOf(t[1])
  BY <1>2, KindOf, CleanType
<1>4. \A t \in Series : captured'.series[t] \in ValueOf(t[1])
  BY <1>1, <1>2, KindOf, MergedType
<1>5. recorded' \in [Series -> Seq(Nat \X Attrs)]
  BY <1>2 DEF SeriesType
<1> QED
  BY <1>2, <1>3, <1>4, <1>5 DEF SeriesType

\* The rows of an assignment.
LEMMA RowsOf ==
    ASSUME ResolverType, NEW subject \in Subjects, NEW a \in Assignments
    PROVE  Exposure(subject, a) \in Rows /\ Goal(subject, a) \in Rows
<1>1. a.fingerprint \in Versions /\ a.experiment \in DOMAIN Bucket
  BY AssignmentFacts
<1>2. Served(a.experiment) \in Versions \cup {Nil}
  BY ServedFacts DEF ResolverType
<1>3. a.variant \in {b.variant : b \in Assignments}
  OBVIOUS
<1> QED
  BY <1>1, <1>2, <1>3 DEF Exposure, Goal, Rows

\* What a first answer remembers.
LEMMA ConfigGetFacts ==
    ASSUME ResolverType, NEW key, NEW subject \in Subjects, ConfigGet(key, subject)
    PROVE  \E a \in Assignments :
              /\ <<subject, a.experiment>> \notin Remembered(assignments)
              /\ a.fingerprint = Served(a.experiment)
              /\ RecordAssignment(subject, a)
              /\ Emit(Exposure(subject, a))
              /\ UNCHANGED <<experiments, registry, logs, captured>>
<1> DEFINE e == Answering(key, subject)
           a == Assignment(e, AssignVariant(e, subject))
<1>1. /\ e # Nil /\ <<subject, e.id>> \notin Remembered(assignments)
      /\ RecordAssignment(subject, a)
      /\ Emit(Exposure(subject, a))
      /\ UNCHANGED <<experiments, registry, logs, captured>>
  BY DEF ConfigGet
<1>2. e \in ToSet(experiments) /\ e.enabled /\ AssignVariant(e, subject) # Nil
  BY <1>1, AnsweringFacts DEF ResolverType
<1>3. e \in Versions /\ Served(e.id) = e
  BY <1>2, ServedList, ServedFacts DEF ResolverType
<1> HIDE DEF e
<1>4. a \in Assignments
  <2> DEFINE p == <<e, subject>>
  <2>1. /\ p \in {q \in Versions \X Subjects : AssignVariant(q[1], q[2]) # Nil}
        /\ a = Assignment(p[1], AssignVariant(p[1], p[2]))
    BY <1>2, <1>3
  <2> QED
    BY <2>1 DEF Assignments
<1>5. a.experiment = e.id /\ a.fingerprint = e
  BY DEF Assignment
<1> HIDE DEF a
<1> QED
  BY <1>1, <1>3, <1>4, <1>5 DEF e

\* The assignment a goal is for.
LEMMA ExperimentGoalFacts ==
    ASSUME ResolverType, NEW subject \in Subjects, NEW metric, ExperimentGoal(subject, metric)
    PROVE  /\ \E k \in 1..Len(assignments) :
                 /\ assignments[k].subject = subject
                 /\ \E a \in assignments[k].assignments : a \in Assignments /\ Emit(Goal(subject, a))
           /\ UNCHANGED <<resolver, registry, logs, captured>>
<1>1. PICK a \in AssignmentsOf(subject) : Emit(Goal(subject, a))
  BY DEF ExperimentGoal
<1>2. PICK entry \in ToSet(assignments) : entry.subject = subject /\ a \in entry.assignments
  BY DEF AssignmentsOf
<1>3. PICK k \in 1..Len(assignments) : assignments[k] = entry
  BY DEF ToSet, ResolverType
<1>4. entry \in Entries
  BY <1>3 DEF ResolverType
<1>5. a \in Assignments
  BY <1>2, <1>4 DEF Entries
<1>6. UNCHANGED <<resolver, registry, logs, captured>>
  BY DEF ExperimentGoal
<1> QED
  BY <1>1, <1>2, <1>3, <1>5, <1>6

\* Type correctness.
LEMMA TypeInit == Init => TypeOK
<1> SUFFICES ASSUME Init PROVE TypeOK
  OBVIOUS
<1>1. ResolverType
  BY DEF Init, ResolverType
<1>2. BufferType
  BY FS_EmptySet DEF Init, BufferType, Counts
<1>3. SeriesType
  <2>1. \A s \in Series : Live(s) = Clean(s[1]) /\ captured.series[s] = Clean(s[1])
    BY DEF Init, Live
  <2>2. \A s \in Series : Live(s) \in ValueOf(s[1]) /\ captured.series[s] \in ValueOf(s[1])
    BY <2>1, KindOf, CleanType
  <2>3. DOMAIN series \subseteq Series /\ recorded \in [Series -> Seq(Nat \X Attrs)]
    BY DEF Init
  <2> QED
    BY <2>2, <2>3 DEF SeriesType
<1> QED
  BY <1>1, <1>2, <1>3 DEF TypeOK

LEMMA TypeStep == TypeOK /\ [Next]_vars => TypeOK'
<1> SUFFICES ASSUME TypeOK, [Next]_vars PROVE TypeOK'
  OBVIOUS
<1>0. ResolverType /\ BufferType /\ SeriesType
  BY DEF TypeOK
<1>a. ASSUME UNCHANGED <<series, recorded, captured>> PROVE SeriesType'
  BY <1>0, <1>a DEF SeriesType, Live
<1>b. ASSUME UNCHANGED resolver PROVE ResolverType'
  BY <1>0, <1>b DEF ResolverType, resolver
<1>c. ASSUME UNCHANGED <<events, logs, internal, captured, attempts, dropped, rejected>> PROVE BufferType'
  BY <1>0, <1>c DEF BufferType
<1>1. ASSUME NEW rank \in Levels, LogCall(rank) PROVE TypeOK'
  <2>1. UNCHANGED <<resolver, registry, events, captured>>
    BY <1>1 DEF LogCall
  <2>2. BufferType'
    BY <1>0, <1>1, <2>1, LogCallType DEF registry
  <2> QED
    BY <1>a, <1>b, <2>1, <2>2 DEF TypeOK, registry
<1>2. ASSUME NEW r \in Recordings, Record(r[1], r[2], r[3]) PROVE TypeOK'
  <2>1. r[1] \in Series
    BY SdkCoreAssumption
  <2>2. UNCHANGED resolver
    BY <1>2 DEF Record
  <2> QED
    BY <1>0, <1>b, <1>2, <2>1, <2>2, RecordBufferType, RecordType DEF TypeOK
<1>3. ASSUME Capture PROVE TypeOK'
  <2>1. UNCHANGED resolver
    BY <1>3 DEF Capture
  <2> QED
    BY <1>0, <1>b, <1>3, <2>1, CaptureType, CaptureSeriesType DEF TypeOK
<1>4. ASSUME NEW key \in ConfigKeys, NEW subject \in Subjects, ConfigGet(key, subject) PROVE TypeOK'
  <2>1. PICK a \in Assignments : /\ RecordAssignment(subject, a)
                                 /\ Emit(Exposure(subject, a))
                                 /\ UNCHANGED <<experiments, registry, logs, captured>>
    BY <1>0, <1>4, ConfigGetFacts
  <2>2. ResolverType'
    BY <1>0, <2>1, RecordAssignmentType
  <2>3. BufferType'
    BY <1>0, <2>1, RowsOf, EmitType DEF registry
  <2> QED
    BY <1>a, <2>1, <2>2, <2>3 DEF TypeOK, registry
<1>5. ASSUME NEW subject \in Subjects, NEW metric \in Metrics, ExperimentGoal(subject, metric) PROVE TypeOK'
  <2>1. UNCHANGED <<resolver, registry, logs, captured>>
    BY <1>0, <1>5, ExperimentGoalFacts
  <2>2. PICK a \in Assignments : Emit(Goal(subject, a))
    BY <1>0, <1>5, ExperimentGoalFacts
  <2>3. BufferType'
    BY <1>0, <2>1, <2>2, RowsOf, EmitType DEF registry
  <2> QED
    BY <1>a, <1>b, <2>1, <2>3 DEF TypeOK, registry
<1>6. ASSUME NEW config \in Configs, ApplyConfig(config) PROVE TypeOK'
  <2>1. UNCHANGED <<registry, events, logs, internal, captured, attempts, dropped>>
    BY <1>6 DEF ApplyConfig
  <2> QED
    BY <1>0, <1>a, <1>c, <1>6, <2>1, ApplyConfigType DEF TypeOK, registry
<1>7. ASSUME UNCHANGED vars PROVE TypeOK'
  BY <1>a, <1>b, <1>c, <1>7 DEF TypeOK, vars, registry
<1> QED
  BY <1>1, <1>2, <1>3, <1>4, <1>5, <1>6, <1>7 DEF Next

\* Buffers, series and assignments hold what their types say, whatever the calls.
THEOREM TypeCorrect == Spec => []TypeOK
BY TypeInit, TypeStep, PTL DEF Spec

-----------------------------------------------------------------------------
(* Drops. *)

\* A log buffer that gave up a line stays full until the capture.
DropsInv ==
    /\ DropsAreReported
    /\ dropped.logs # {} => Len(logs) >= MaxLogs

LEMMA DropsInit == Init => DropsInv
<1> SUFFICES ASSUME Init PROVE DropsInv
  OBVIOUS
<1>1. Cardinality(rejected) = 0
  BY FS_EmptySet DEF Init
<1> QED
  BY <1>1 DEF Init, DropsInv, DropsAreReported

LEMMA EmitDrops ==
    ASSUME BufferType, DropsInv, NEW event, Emit(event), UNCHANGED <<logs, captured, rejected>>
    PROVE  DropsInv'
<1>1. /\ events \in Seq(Rows) /\ internal \in Counts /\ captured.drops \in Counts
      /\ captured.events \in Seq(Rows)
      /\ attempts \in [events : Nat, logs : Nat]
      /\ dropped \in [events : SUBSET Rows, logs : SUBSET Nat]
  BY DEF BufferType
<1>2. /\ attempts'.events = attempts.events + 1 /\ attempts'.logs = attempts.logs
  BY <1>1, AttemptOne DEF Emit
<1>3. /\ Len(events') + internal'.events = Len(events) + internal.events + 1
      /\ internal'.logs = internal.logs /\ internal'.series = internal.series
      /\ dropped'.logs = dropped.logs
      /\ Len(events') \in Nat /\ internal'.events \in Nat
  <2>1. CASE Len(events) < MaxEvents
    <3>1. events' = Append(events, event) /\ UNCHANGED <<internal, dropped>>
      BY <2>1 DEF Emit
    <3>2. internal.events \in Nat
      BY <1>1 DEF Counts
    <3>3. Len(events') = Len(events) + 1 /\ Len(events) \in Nat
      BY <1>1, <3>1
    <3> QED
      BY <3>1, <3>2, <3>3
  <2>2. CASE ~(Len(events) < MaxEvents)
    <3>1. /\ internal' = [internal EXCEPT !.events = @ + 1]
          /\ dropped' = [dropped EXCEPT !.events = @ \cup {event}]
          /\ UNCHANGED events
      BY <2>2 DEF Emit
    <3>2. internal.events \in Nat /\ Len(events) \in Nat
      BY <1>1 DEF Counts
    <3>3. /\ internal'.events = internal.events + 1
          /\ internal'.logs = internal.logs /\ internal'.series = internal.series
      BY <1>1, <3>1, CountOne
    <3>4. dropped'.logs = dropped.logs
      BY <1>1, <3>1
    <3> QED
      BY <3>1, <3>2, <3>3, <3>4
  <2> QED
    BY <2>1, <2>2
<1>4. attempts'.events = Len(captured.events) + Len(events') + captured.drops.events + internal'.events
  <2>1. /\ captured.drops.events \in Nat /\ internal.events \in Nat
    BY <1>1 DEF Counts
  <2>2. Len(captured.events) \in Nat /\ Len(events) \in Nat
    BY <1>1
  <2>3. attempts.events = Len(captured.events) + Len(events) + captured.drops.events + internal.events
    BY DEF DropsInv, DropsAreReported
  <2>4. Len(captured.events) + Len(events') + captured.drops.events + internal'.events
          = Len(captured.events) + Len(events) + captured.drops.events + internal.events + 1
    <3> DEFINE a == Len(captured.events)   b == Len(events)     b1 == Len(events')
               c == captured.drops.events  d == internal.events d1 == internal'.events
    <3>1. a \in Nat /\ b \in Nat /\ c \in Nat /\ d \in Nat /\ b1 \in Nat /\ d1 \in Nat
          /\ b1 + d1 = b + d + 1
      BY <1>3, <2>1, <2>2
    <3> HIDE DEF a, b, b1, c, d, d1
    <3>2. a + b1 + c + d1 = a + b + c + d + 1
      BY <3>1
    <3> QED
      BY <3>2 DEF a, b, b1, c, d, d1
  <2> QED
    BY <1>2, <2>3, <2>4
<1>5. attempts'.logs = captured.logs + Len(logs) + captured.drops.logs + internal'.logs
  BY <1>2, <1>3 DEF DropsInv, DropsAreReported
<1>6. Cardinality(rejected) = captured.drops.series + internal'.series
  BY <1>3 DEF DropsInv, DropsAreReported
<1>7. /\ \A k \in 1..Len(logs) : \A rank \in dropped'.logs : logs[k] >= rank
      /\ dropped'.logs # {} => Len(logs) >= MaxLogs
  BY <1>3 DEF DropsInv, DropsAreReported
<1> QED
  BY <1>4, <1>5, <1>6, <1>7 DEF DropsInv, DropsAreReported

LEMMA LogCallDrops ==
    ASSUME BufferType, DropsInv, NEW rank \in Levels, LogCall(rank), UNCHANGED rejected
    PROVE  DropsInv'
<1>1. /\ rank \in Nat /\ logs \in Seq(Nat) /\ internal \in Counts
      /\ dropped \in [events : SUBSET Rows, logs : SUBSET Nat]
      /\ attempts \in [events : Nat, logs : Nat] /\ MaxLogs \in Nat
  BY SdkCoreAssumption DEF BufferType
<1>2. /\ attempts' = [attempts EXCEPT !.logs = @ + 1] /\ UNCHANGED <<events, captured>>
  BY DEF LogCall
<1>3. attempts'.logs = attempts.logs + 1 /\ attempts'.events = attempts.events
  BY <1>1, <1>2, AttemptOne
<1>4. /\ internal.logs \in Nat /\ Len(logs) \in Nat /\ captured.logs \in Nat /\ captured.drops.logs \in Nat
  BY <1>1 DEF BufferType, Counts
<1>5. /\ \A k \in 1..Len(logs) : \A r \in dropped.logs : logs[k] >= r
      /\ dropped.logs # {} => Len(logs) >= MaxLogs
  BY DEF DropsInv, DropsAreReported
<1>6. /\ Len(logs') + internal'.logs = Len(logs) + internal.logs + 1
      /\ Len(logs') \in Nat /\ internal'.logs \in Nat
      /\ internal'.events = internal.events /\ internal'.series = internal.series
      /\ \A k \in 1..Len(logs') : \A r \in dropped'.logs : logs'[k] >= r
      /\ dropped'.logs # {} => Len(logs') >= MaxLogs
  <2>1. CASE Len(logs) < MaxLogs
    <3>1. logs' = Append(logs, rank) /\ UNCHANGED <<internal, dropped>>
      BY <2>1 DEF LogCall
    <3>2. dropped.logs = {}
      BY <1>1, <1>4, <1>5, <2>1
    <3>3. Len(logs') = Len(logs) + 1
      BY <1>1, <3>1
    <3> QED
      BY <1>4, <3>1, <3>2, <3>3
  <2>2. CASE ~(Len(logs) < MaxLogs)
    <3>1. internal' = [internal EXCEPT !.logs = @ + 1]
      BY <2>2 DEF LogCall
    <3>2. /\ internal'.logs = internal.logs + 1
          /\ internal'.events = internal.events /\ internal'.series = internal.series
      BY <1>1, <3>1, CountOne
    <3>3. CASE Victim(rank) = 0
      <4>1. dropped' = [dropped EXCEPT !.logs = @ \cup {rank}] /\ UNCHANGED logs
        BY <2>2, <3>3 DEF LogCall
      <4>2. dropped'.logs = dropped.logs \cup {rank}
        BY <1>1, <4>1
      <4>3. \A k \in 1..Len(logs) : logs[k] >= rank
        BY <1>1, <3>3, VictimFacts
      <4>4. \A k \in 1..Len(logs') : \A r \in dropped'.logs : logs'[k] >= r
        BY <1>5, <4>1, <4>2, <4>3
      <4>5. Len(logs') = Len(logs) /\ Len(logs) >= MaxLogs
        BY <1>1, <1>4, <2>2, <4>1
      <4> QED
        BY <1>4, <3>2, <4>4, <4>5
    <3>4. CASE Victim(rank) # 0
      <4> DEFINE v == Victim(rank)
      <4>1. /\ dropped' = [dropped EXCEPT !.logs = @ \cup {logs[v]}]
            /\ logs' = [logs EXCEPT ![v] = rank]
        BY <2>2, <3>4 DEF LogCall
      <4>2. v \in 1..Len(logs) /\ logs[v] < rank /\ \A k \in 1..Len(logs) : logs[k] >= logs[v]
        BY <1>1, <3>4, VictimFacts
      <4> HIDE DEF v
      <4>3. dropped'.logs = dropped.logs \cup {logs[v]}
        BY <1>1, <4>1
      <4>4. /\ Len(logs') = Len(logs)
            /\ \A k \in 1..Len(logs) : logs'[k] = IF k = v THEN rank ELSE logs[k]
        BY <1>1, <4>1, <4>2
      <4>5. ASSUME NEW k \in 1..Len(logs), NEW r \in dropped'.logs PROVE logs'[k] >= r
        <5>1. logs[k] \in Nat /\ logs[v] \in Nat /\ r \in Nat
          BY <1>1, <4>2, <4>3
        <5>2. logs[k] >= r /\ logs[v] >= r
          <6>1. CASE r \in dropped.logs
            BY <1>5, <4>2, <6>1
          <6>2. CASE r = logs[v]
            BY <4>2, <5>1, <6>2
          <6> QED
            BY <4>3, <6>1, <6>2
        <5>3. CASE k = v
          BY <1>1, <4>2, <4>4, <5>1, <5>2, <5>3
        <5>4. CASE k # v
          BY <4>4, <5>2, <5>4
        <5> QED
          BY <5>3, <5>4
      <4>6. Len(logs') >= MaxLogs
        BY <1>1, <1>4, <2>2, <4>4
      <4>7. \A k \in 1..Len(logs') : \A r \in dropped'.logs : logs'[k] >= r
        BY <4>4, <4>5
      <4> QED
        BY <1>4, <3>2, <4>4, <4>6, <4>7
    <3> QED
      BY <3>3, <3>4
  <2> QED
    BY <2>1, <2>2
<1>7. attempts'.logs = captured'.logs + Len(logs') + captured'.drops.logs + internal'.logs
  <2>1. attempts.logs = captured.logs + Len(logs) + captured.drops.logs + internal.logs
    BY DEF DropsInv, DropsAreReported
  <2>2. captured.logs + Len(logs') + captured.drops.logs + internal'.logs
          = captured.logs + Len(logs) + captured.drops.logs + internal.logs + 1
    <3> DEFINE a == captured.logs        b == Len(logs)     b1 == Len(logs')
               c == captured.drops.logs  d == internal.logs d1 == internal'.logs
    <3>1. a \in Nat /\ b \in Nat /\ c \in Nat /\ d \in Nat /\ b1 \in Nat /\ d1 \in Nat
          /\ b1 + d1 = b + d + 1
      BY <1>4, <1>6
    <3> HIDE DEF a, b, b1, c, d, d1
    <3>2. a + b1 + c + d1 = a + b + c + d + 1
      BY <3>1
    <3> QED
      BY <3>2 DEF a, b, b1, c, d, d1
  <2> QED
    BY <1>2, <1>3, <2>1, <2>2
<1>8. attempts'.events = Len(captured'.events) + Len(events') + captured'.drops.events + internal'.events
  BY <1>2, <1>3, <1>6 DEF DropsInv, DropsAreReported
<1>9. Cardinality(rejected') = captured'.drops.series + internal'.series
  BY <1>2, <1>6 DEF DropsInv, DropsAreReported
<1> QED
  BY <1>6, <1>7, <1>8, <1>9 DEF DropsInv, DropsAreReported

LEMMA RecordDrops ==
    ASSUME BufferType, DropsInv, NEW s, NEW v, NEW attrs, Record(s, v, attrs)
    PROVE  DropsInv'
<1>1. UNCHANGED <<events, logs, captured, attempts, dropped>>
  BY DEF Record
<1>2. /\ internal \in Counts /\ captured.drops.series \in Nat /\ IsFiniteSet(rejected)
      /\ Cardinality(rejected) = captured.drops.series + internal.series
  BY DEF BufferType, Counts, DropsInv, DropsAreReported
<1>3. /\ Cardinality(rejected') = captured.drops.series + internal'.series
      /\ internal'.events = internal.events /\ internal'.logs = internal.logs
  <2>1. CASE s \notin rejected /\ Admits(s)
    <3>1. UNCHANGED <<rejected, internal>>
      BY <2>1 DEF Record
    <3> QED
      BY <1>2, <3>1
  <2>2. CASE ~(s \notin rejected /\ Admits(s))
    <3> DEFINE m == IF s \in rejected THEN 0 ELSE 1
    <3>1. rejected' = rejected \cup {s} /\ internal' = [internal EXCEPT !.series = @ + m]
      BY <2>2 DEF Record
    <3>2. /\ internal'.series = internal.series + m
          /\ internal'.events = internal.events /\ internal'.logs = internal.logs
      <4>1. m \in Nat
        OBVIOUS
      <4> HIDE DEF m
      <4> QED
        BY <1>2, <3>1, <4>1, CountOne
    <3>3. Cardinality(rejected') = Cardinality(rejected) + m
      <4>1. CASE s \in rejected
        <5>1. rejected' = rejected /\ m = 0
          BY <3>1, <4>1
        <5>2. Cardinality(rejected) \in Nat
          BY <1>2, FS_CardinalityType
        <5> QED
          BY <5>1, <5>2
      <4>2. CASE s \notin rejected
        BY <1>2, <3>1, <4>2, FS_AddElement
      <4> QED
        BY <4>1, <4>2
    <3>4. m \in Nat /\ internal.series \in Nat
      BY <1>2 DEF Counts
    <3> HIDE DEF m
    <3>5. Cardinality(rejected') = captured.drops.series + internal'.series
      BY <1>2, <3>2, <3>3, <3>4
    <3> QED
      BY <3>2, <3>5
  <2> QED
    BY <2>1, <2>2
<1> QED
  BY <1>1, <1>3 DEF DropsInv, DropsAreReported

LEMMA CaptureDrops ==
    ASSUME BufferType, DropsInv, Capture
    PROVE  DropsInv'
<1>1. /\ events \in Seq(Rows) /\ logs \in Seq(Nat) /\ captured.events \in Seq(Rows)
      /\ captured.logs \in Nat
  BY DEF BufferType
<1>2. /\ captured.drops.events \in Nat /\ captured.drops.logs \in Nat /\ captured.drops.series \in Nat
      /\ internal.events \in Nat /\ internal.logs \in Nat /\ internal.series \in Nat
  BY DEF BufferType, Counts
<1>3. /\ attempts.events = Len(captured.events) + Len(events) + captured.drops.events + internal.events
      /\ attempts.logs = captured.logs + Len(logs) + captured.drops.logs + internal.logs
      /\ Cardinality(rejected) = captured.drops.series + internal.series
  BY DEF DropsInv, DropsAreReported
<1>4. /\ events' = <<>> /\ logs' = <<>>
      /\ internal' = [events |-> 0, logs |-> 0, series |-> 0]
      /\ dropped' = [events |-> dropped.events, logs |-> {}]
      /\ captured'.events = captured.events \o events
      /\ captured'.logs = captured.logs + Len(logs)
      /\ captured'.drops = [events |-> captured.drops.events + internal.events,
                            logs |-> captured.drops.logs + internal.logs,
                            series |-> captured.drops.series + internal.series]
      /\ UNCHANGED <<rejected, attempts>>
  BY CaptureFacts
<1>5. /\ Len(events') = 0 /\ Len(logs') = 0 /\ Len(captured'.events) = Len(captured.events) + Len(events)
      /\ internal'.events = 0 /\ internal'.logs = 0 /\ internal'.series = 0
      /\ captured'.drops.events = captured.drops.events + internal.events
      /\ captured'.drops.logs = captured.drops.logs + internal.logs
      /\ captured'.drops.series = captured.drops.series + internal.series
      /\ dropped'.logs = {}
  BY <1>1, <1>4
<1>6. attempts'.events = Len(captured'.events) + Len(events') + captured'.drops.events + internal'.events
  <2> DEFINE a == Len(captured.events) b == Len(events) c == captured.drops.events d == internal.events
  <2>1. a \in Nat /\ b \in Nat /\ c \in Nat /\ d \in Nat
    BY <1>1, <1>2
  <2>2. attempts' = attempts /\ attempts.events = a + b + c + d
    BY <1>3, <1>4
  <2>3. /\ Len(captured'.events) = a + b /\ Len(events') = 0
        /\ captured'.drops.events = c + d /\ internal'.events = 0
    BY <1>5
  <2> HIDE DEF a, b, c, d
  <2> QED
    BY <2>1, <2>2, <2>3
<1>7. attempts'.logs = captured'.logs + Len(logs') + captured'.drops.logs + internal'.logs
  <2> DEFINE a == captured.logs b == Len(logs) c == captured.drops.logs d == internal.logs
  <2>1. a \in Nat /\ b \in Nat /\ c \in Nat /\ d \in Nat
    BY <1>1, <1>2
  <2>2. attempts' = attempts /\ attempts.logs = a + b + c + d
    BY <1>3, <1>4
  <2>3. captured'.logs = a + b /\ Len(logs') = 0 /\ captured'.drops.logs = c + d /\ internal'.logs = 0
    BY <1>4, <1>5
  <2> HIDE DEF a, b, c, d
  <2> QED
    BY <2>1, <2>2, <2>3
<1>8. Cardinality(rejected') = captured'.drops.series + internal'.series
  <2> DEFINE c == captured.drops.series d == internal.series
  <2>1. c \in Nat /\ d \in Nat
    BY <1>2
  <2>2. Cardinality(rejected') = c + d
    BY <1>3, <1>4
  <2>3. captured'.drops.series = c + d /\ internal'.series = 0
    BY <1>5
  <2> HIDE DEF c, d
  <2> QED
    BY <2>1, <2>2, <2>3
<1> QED
  BY <1>5, <1>6, <1>7, <1>8 DEF DropsInv, DropsAreReported

LEMMA DropsStep == TypeOK /\ DropsInv /\ [Next]_vars => DropsInv'
<1> SUFFICES ASSUME TypeOK, DropsInv, [Next]_vars PROVE DropsInv'
  OBVIOUS
<1>0. ResolverType /\ BufferType /\ SeriesType
  BY DEF TypeOK
<1>a. ASSUME UNCHANGED <<events, logs, internal, captured, attempts, dropped, rejected>> PROVE DropsInv'
  BY <1>a DEF DropsInv, DropsAreReported
<1>1. ASSUME NEW rank \in Levels, LogCall(rank) PROVE DropsInv'
  <2>1. UNCHANGED rejected
    BY <1>1 DEF LogCall, registry
  <2> QED
    BY <1>0, <1>1, <2>1, LogCallDrops
<1>2. ASSUME NEW r \in Recordings, Record(r[1], r[2], r[3]) PROVE DropsInv'
  BY <1>0, <1>2, RecordDrops
<1>3. ASSUME Capture PROVE DropsInv'
  BY <1>0, <1>3, CaptureDrops
<1>4. ASSUME NEW key \in ConfigKeys, NEW subject \in Subjects, ConfigGet(key, subject) PROVE DropsInv'
  <2>1. PICK a \in Assignments : Emit(Exposure(subject, a)) /\ UNCHANGED <<registry, logs, captured>>
    BY <1>0, <1>4, ConfigGetFacts
  <2> QED
    BY <1>0, <2>1, EmitDrops DEF registry
<1>5. ASSUME NEW subject \in Subjects, NEW metric \in Metrics, ExperimentGoal(subject, metric) PROVE DropsInv'
  <2>1. UNCHANGED <<registry, logs, captured>>
    BY <1>0, <1>5, ExperimentGoalFacts
  <2>2. PICK a \in Assignments : Emit(Goal(subject, a))
    BY <1>0, <1>5, ExperimentGoalFacts
  <2> QED
    BY <1>0, <2>1, <2>2, EmitDrops DEF registry
<1>6. ASSUME NEW config \in Configs, ApplyConfig(config) PROVE DropsInv'
  BY <1>a, <1>6 DEF ApplyConfig, registry
<1>7. ASSUME UNCHANGED vars PROVE DropsInv'
  BY <1>a, <1>7 DEF vars, registry
<1> QED
  BY <1>1, <1>2, <1>3, <1>4, <1>5, <1>6, <1>7 DEF Next

\* Every event and log line is in a frame, in a buffer or counted as dropped, a refused series
\* is counted once, and a full log buffer gives up no line for a lesser one, for every size of
\* the buffers and every order of the calls.
THEOREM DropsReported == Spec => []DropsAreReported
<1>1. DropsInv => DropsAreReported
  BY DEF DropsInv
<1> QED
  BY <1>1, TypeCorrect, DropsInit, DropsStep, PTL DEF Spec

-----------------------------------------------------------------------------
(* Exposures and goals. *)

\* What is remembered: a bounded list, one entry a subject, each assignment of an experiment
\* that is served as it was.
RememberedInv ==
    /\ Len(assignments) <= MaxSubjects
    /\ \A j, k \in 1..Len(assignments) :
          assignments[j].subject = assignments[k].subject => j = k
    /\ \A k \in 1..Len(assignments) : \A a \in assignments[k].assignments :
          a.fingerprint = Served(a.experiment)

Once(holds) == IF holds THEN 1 ELSE 0

\* A remembered pair has used up the exposure its last stay allows.
ExposedInv ==
    \A p \in Pairs :
        Cardinality(Exposures(p[1], p[2])) <= renewals[p] + Once(p \in Remembered(assignments))

\* A row that left, will, or was refused.
WasEmitted(row) == row \in ToSet(Stream) \/ row \in dropped.events

\* A remembered assignment was exposed, or its exposure refused.
GoalsInv ==
    /\ GoalsAreProvable
    /\ \A k \in 1..Len(assignments) : \A a \in assignments[k].assignments :
          WasEmitted(Exposure(assignments[k].subject, a))

\* What is emitted goes to the end of the stream, or is refused; a capture moves it on.
LEMMA EmitStream ==
    ASSUME BufferType, NEW event \in Rows, Emit(event), UNCHANGED captured
    PROVE  /\ Stream \in Seq(Rows)
           /\ \/ Stream' = Append(Stream, event) /\ dropped'.events = dropped.events
              \/ Stream' = Stream /\ dropped'.events = dropped.events \cup {event}
<1>1. events \in Seq(Rows) /\ captured.events \in Seq(Rows) /\ dropped \in [events : SUBSET Rows, logs : SUBSET Nat]
  BY DEF BufferType
<1>2. Stream \in Seq(Rows)
  BY <1>1 DEF Stream
<1>3. CASE Len(events) < MaxEvents
  <2>1. events' = Append(events, event) /\ UNCHANGED dropped
    BY <1>3 DEF Emit
  <2>2. Stream' = captured.events \o Append(events, event)
    BY <2>1 DEF Stream
  <2>3. captured.events \o Append(events, event) = Append(captured.events \o events, event)
    <3> DEFINE c == captured.events
               l == c \o Append(events, event)
               r == Append(c \o events, event)
    <3>1. c \in Seq(Rows) /\ events \in Seq(Rows)
      BY <1>1
    <3>2. l \in Seq(Rows) /\ r \in Seq(Rows) /\ Len(l) = Len(r)
      <4> HIDE DEF c
      <4> QED
        BY <3>1
    <3>3. \A k \in 1..Len(l) : l[k] = r[k]
      <4> HIDE DEF c
      <4> QED
        BY <3>1
    <3> HIDE DEF c, l, r
    <3>4. l = r
      BY <3>2, <3>3, SeqEqual
    <3> QED
      BY <3>4 DEF c, l, r
  <2> QED
    BY <1>2, <2>1, <2>2, <2>3 DEF Stream
<1>4. CASE ~(Len(events) < MaxEvents)
  <2>1. dropped' = [dropped EXCEPT !.events = @ \cup {event}] /\ UNCHANGED events
    BY <1>4 DEF Emit
  <2>2. dropped'.events = dropped.events \cup {event}
    BY <1>1, <2>1
  <2>3. Stream' = Stream
    BY <2>1 DEF Stream
  <2> QED
    BY <1>2, <2>2, <2>3
<1> QED
  BY <1>3, <1>4

LEMMA CaptureStream ==
    ASSUME BufferType, Capture
    PROVE  Stream' = Stream /\ dropped'.events = dropped.events
<1>1. events \in Seq(Rows) /\ captured.events \in Seq(Rows)
  BY DEF BufferType
<1>2. /\ events' = <<>> /\ dropped' = [events |-> dropped.events, logs |-> {}]
      /\ captured'.events = captured.events \o events
  BY CaptureFacts
<1>3. (captured.events \o events) \o <<>> = captured.events \o events
  BY <1>1
<1> QED
  BY <1>2, <1>3 DEF Stream

\* A row more is at most one exposure more, and none of another pair.
LEMMA ExposuresGrow ==
    ASSUME Stream \in Seq(Rows), NEW event \in Rows, NEW p \in Pairs,
           Stream' = Stream \/ Stream' = Append(Stream, event)
    PROVE  /\ Cardinality(Exposures(p[1], p[2])) \in Nat
           /\ Cardinality(Exposures(p[1], p[2])') \in Nat
           /\ Cardinality(Exposures(p[1], p[2])') <= Cardinality(Exposures(p[1], p[2])) + 1
           /\ (event.name # "exposure" \/ <<event.subject, event.experiment>> # p)
                 => Exposures(p[1], p[2])' = Exposures(p[1], p[2])
<1> DEFINE n == Len(Stream)
           X == Exposures(p[1], p[2])
           match(row) == row.name = "exposure" /\ row.subject = p[1] /\ row.experiment = p[2]
<1>1. n \in Nat /\ X = {k \in 1..n : match(Stream[k])}
  BY DEF Exposures
<1>2. IsFiniteSet(X) /\ Cardinality(X) \in Nat
  <2>1. IsFiniteSet(1..n)
    BY <1>1, FS_Interval
  <2>2. X \subseteq 1..n
    <3> HIDE DEF X, n, match
    <3> QED
      BY <1>1
  <2> QED
    BY <2>1, <2>2, FS_Subset, FS_CardinalityType
<1>3. X' = {k \in 1..Len(Stream') : match(Stream'[k])}
  BY DEF Exposures
<1>4. CASE Stream' = Stream
  BY <1>1, <1>2, <1>3, <1>4
<1>5. CASE Stream' = Append(Stream, event)
  <2>1. /\ Len(Stream') = n + 1 /\ Stream'[n + 1] = event
        /\ \A k \in 1..n : Stream'[k] = Stream[k]
    BY <1>1, <1>5
  <2>2. X' = IF match(event) THEN X \cup {n + 1} ELSE X
    <3> HIDE DEF X
    <3>1. \A k : k \in X <=> k \in 1..n /\ match(Stream[k])
      BY <1>1
    <3>2. \A k : k \in X' <=> k \in 1..(n + 1) /\ match(Stream'[k])
      BY <1>3, <2>1
    <3>3. \A k \in 1..(n + 1) : k \in 1..n \/ k = n + 1
      BY <1>1
    <3>4. \A k : k \in 1..n => k \in 1..(n + 1)
      BY <1>1
    <3>5. n + 1 \in 1..(n + 1)
      BY <1>1
    <3> HIDE DEF n, match
    <3>6. ASSUME NEW k PROVE k \in X' <=> k \in (IF match(event) THEN X \cup {n + 1} ELSE X)
      <4>1. CASE k = n + 1
        <5>1. k \in X' <=> match(event)
          BY <2>1, <3>2, <3>5, <4>1 DEF n
        <5>2. k \notin X
          <6>1. k \notin 1..n
            BY <1>1, <4>1
          <6> QED
            BY <3>1, <6>1
        <5> QED
          BY <5>1, <5>2, <4>1
      <4>2. CASE k # n + 1
        <5>1. k \in X' <=> k \in X
          BY <2>1, <3>1, <3>2, <3>3, <3>4, <4>2 DEF n
        <5> QED
          BY <5>1, <4>2
      <4> QED
        BY <4>1, <4>2
    <3> QED
      BY <3>6
  <2>3. n + 1 \notin X
    BY <1>1
  <2>4. Cardinality(X') \in Nat /\ Cardinality(X') <= Cardinality(X) + 1
    <3> HIDE DEF X, match
    <3>1. CASE match(event)
      <4>1. Cardinality(X \cup {n + 1}) = Cardinality(X) + 1
        BY <1>2, <2>3, FS_AddElement
      <4> QED
        BY <1>2, <2>2, <3>1, <4>1
    <3>2. CASE ~match(event)
      BY <1>2, <2>2, <3>2
    <3> QED
      BY <3>1, <3>2
  <2>5. (event.name # "exposure" \/ <<event.subject, event.experiment>> # p) => ~match(event)
    <3>1. p = <<p[1], p[2]>>
      BY DEF Pairs
    <3> QED
      BY <3>1
  <2> HIDE DEF X
  <2> QED
    BY <1>2, <2>2, <2>4, <2>5 DEF X
<1> QED
  BY <1>4, <1>5

\* Forgetting a pair allows it another exposure.
LEMMA ForgettingFacts ==
    ASSUME renewals \in [Pairs -> Nat], NEW entries, NEW p \in Pairs
    PROVE  /\ renewals[p] + Once(p \in Remembered(assignments))
                <= Forgetting(entries)[p] + Once(p \in Remembered(entries))
           /\ p \notin Remembered(assignments) /\ p \in Remembered(entries) =>
                 renewals[p] + Once(p \in Remembered(assignments)) + 1
                    <= Forgetting(entries)[p] + Once(p \in Remembered(entries))
<1>1. Forgetting(entries)[p] =
         renewals[p] + IF p \in Remembered(assignments) /\ p \notin Remembered(entries) THEN 1 ELSE 0
  BY DEF Forgetting
<1>2. renewals[p] \in Nat
  OBVIOUS
<1> QED
  BY <1>1, <1>2 DEF Once

\* An assignment and the entry it came from.
Inherits(entry, b, list) ==
    \E j \in 1..Len(list) : list[j].subject = entry.subject /\ b \in list[j].assignments

\* Remembering an assignment keeps the list bounded and one entry a subject, and adds nothing else.
LEMMA RecordAssignmentFacts ==
    ASSUME ResolverType, RememberedInv, NEW subject \in Subjects, NEW a \in Assignments,
           RecordAssignment(subject, a)
    PROVE  /\ Len(assignments') <= MaxSubjects
           /\ \A j, k \in 1..Len(assignments') :
                 assignments'[j].subject = assignments'[k].subject => j = k
           /\ \A k \in 1..Len(assignments') : \A b \in assignments'[k].assignments :
                 \/ assignments'[k].subject = subject /\ b = a
                 \/ Inherits(assignments'[k], b, assignments)
           /\ \E k \in 1..Len(assignments') :
                 assignments'[k].subject = subject /\ a \in assignments'[k].assignments
<1> DEFINE n == Len(assignments)
<1>1. /\ assignments \in Seq(Entries) /\ n \in Nat /\ n <= MaxSubjects
      /\ \A k \in 1..n : assignments[k] \in Entries
      /\ \A j, k \in 1..n : assignments[j].subject = assignments[k].subject => j = k
  BY DEF ResolverType, RememberedInv
<1>2. CASE Knows(subject)
  <2>1. assignments' = [k \in 1..n |->
                  IF assignments[k].subject # subject THEN assignments[k]
                  ELSE [assignments[k] EXCEPT !.assignments = @ \cup {a}]]
    BY <1>2 DEF RecordAssignment
  <2>2. Len(assignments') = n
    BY <1>1, <2>1
  <2>3. ASSUME NEW k \in 1..n
        PROVE  /\ assignments'[k].subject = assignments[k].subject
               /\ assignments'[k].assignments =
                     IF assignments[k].subject = subject THEN assignments[k].assignments \cup {a}
                     ELSE assignments[k].assignments
    <3>1. CASE assignments[k].subject # subject
      BY <2>1, <3>1
    <3>2. CASE assignments[k].subject = subject
      <4>1. assignments'[k] = [assignments[k] EXCEPT !.assignments = @ \cup {a}]
        BY <2>1, <3>2
      <4>2. assignments[k] \in Entries
        BY <1>1
      <4> QED
        BY <3>2, <4>1, <4>2, JoinedEntry
    <3> QED
      BY <3>1, <3>2
  <2>4. \A j, k \in 1..n : assignments'[j].subject = assignments'[k].subject => j = k
    BY <1>1, <2>3
  <2>5. ASSUME NEW k \in 1..n, NEW b \in assignments'[k].assignments
        PROVE  \/ assignments'[k].subject = subject /\ b = a
               \/ Inherits(assignments'[k], b, assignments)
    BY <2>3 DEF Inherits
  <2>6. \E k \in 1..n : assignments'[k].subject = subject /\ a \in assignments'[k].assignments
    <3>1. PICK k \in 1..n : assignments[k].subject = subject
      BY <1>1, <1>2 DEF Knows, ToSet
    <3> QED
      BY <2>3, <3>1
  <2> QED
    BY <1>1, <2>2, <2>4, <2>5, <2>6
<1>3. CASE ~Knows(subject)
  <2> DEFINE left == SubSeq(assignments, MakeRoom + 1, n)
             entry == [subject |-> subject, assignments |-> {a}]
             m == n - MakeRoom
  <2>1. assignments' = Append(left, entry)
    BY <1>3 DEF RecordAssignment
  <2>2. /\ MakeRoom \in 0..n /\ m < MaxSubjects /\ m \in 0..n
        /\ left \in Seq(Entries) /\ Len(left) = m
        /\ \A k \in 1..m : left[k] = assignments[k + MakeRoom]
    BY <1>1, MakeRoomFacts
  <2> HIDE DEF left, entry
  <2>3. /\ Len(assignments') = m + 1 /\ assignments'[m + 1] = entry
        /\ \A k \in 1..m : assignments'[k] = assignments[k + MakeRoom] /\ k + MakeRoom \in 1..n
    BY <2>1, <2>2
  <2>4. entry.subject = subject /\ entry.assignments = {a}
    BY DEF entry
  <2>5. \A k \in 1..n : assignments[k].subject # subject
    BY <1>1, <1>3 DEF Knows, ToSet
  <2>6. m + 1 <= MaxSubjects
    BY <1>1, <2>2, SdkCoreAssumption
  <2>7. \A k \in 1..(m + 1) : k \in 1..m \/ k = m + 1
    BY <2>2
  <2>8. m + 1 \in 1..(m + 1)
    BY <2>2
  <2>9. \A j, k \in 1..m : assignments'[j].subject = assignments'[k].subject => j = k
    <3> SUFFICES ASSUME NEW j \in 1..m, NEW k \in 1..m, assignments'[j].subject = assignments'[k].subject
                 PROVE  j = k
      OBVIOUS
    <3>1. assignments[j + MakeRoom].subject = assignments[k + MakeRoom].subject
      BY <2>3
    <3>2. j + MakeRoom = k + MakeRoom
      <4>1. j + MakeRoom \in 1..n /\ k + MakeRoom \in 1..n
        BY <2>3
      <4> HIDE DEF n, m
      <4> QED
        BY <1>1, <3>1, <4>1
    <3>3. j \in Int /\ k \in Int /\ MakeRoom \in Int
      BY <1>1, <2>2
    <3> QED
      BY <3>2, <3>3
  <2> HIDE DEF m, n
  <2>10. \A j, k \in 1..(m + 1) : assignments'[j].subject = assignments'[k].subject => j = k
    BY <2>3, <2>4, <2>5, <2>7, <2>9
  <2>11. ASSUME NEW k \in 1..(m + 1), NEW b \in assignments'[k].assignments
         PROVE  \/ assignments'[k].subject = subject /\ b = a
                \/ Inherits(assignments'[k], b, assignments)
    <3>1. CASE k = m + 1
      BY <2>3, <2>4, <3>1
    <3>2. CASE k \in 1..m
      <4>1. assignments'[k] = assignments[k + MakeRoom] /\ k + MakeRoom \in 1..Len(assignments)
        BY <2>3, <3>2 DEF n
      <4> QED
        BY <4>1 DEF Inherits
    <3> QED
      BY <2>7, <3>1, <3>2
  <2>12. \E k \in 1..(m + 1) : assignments'[k].subject = subject /\ a \in assignments'[k].assignments
    BY <2>3, <2>4, <2>8
  <2> QED
    BY <2>3, <2>6, <2>10, <2>11, <2>12
<1> QED
  BY <1>2, <1>3

\* An experiment a snapshot serves, once it is applied.
LEMMA ServedNext ==
    ASSUME NEW config \in Configs, experiments' = config, NEW e \in ToSet(config), e.enabled
    PROVE  Served(e.id)' = e
<1> DEFINE serving == {f \in ToSet(config) : f.id = e.id /\ f.enabled}
<1>1. \A j, k \in DOMAIN config : config[j].id = config[k].id => j = k
  BY SdkCoreAssumption
<1>2. serving = {e}
  <2>1. \A f \in ToSet(config) : f.id = e.id => f = e
    BY <1>1 DEF ToSet
  <2> QED
    BY <2>1
<1>3. Served(e.id)' = CHOOSE f \in serving : TRUE
  BY <1>2 DEF Served
<1> HIDE DEF serving
<1> QED
  BY <1>2, <1>3

\* A snapshot leaves a part of what was remembered, of the experiments it serves.
LEMMA ApplyConfigFacts ==
    ASSUME ResolverType, RememberedInv, NEW config \in Configs, ApplyConfig(config)
    PROVE  /\ Len(assignments') <= MaxSubjects
           /\ \A j, k \in 1..Len(assignments') :
                 assignments'[j].subject = assignments'[k].subject => j = k
           /\ \A k \in 1..Len(assignments') : \A b \in assignments'[k].assignments :
                 Inherits(assignments'[k], b, assignments) /\ b.fingerprint = Served(b.experiment)'
<1> DEFINE n == Len(assignments)
           left == [k \in 1..n |-> [assignments[k] EXCEPT !.assignments = Kept(@, config)]]
           after == Remaining(left)
<1>1. experiments' = config /\ assignments' = after
  BY DEF ApplyConfig
<1>2. /\ assignments \in Seq(Entries) /\ n \in Nat /\ n <= MaxSubjects
      /\ \A k \in 1..n : assignments[k] \in Entries
      /\ \A j, k \in 1..n : assignments[j].subject = assignments[k].subject => j = k
  BY DEF ResolverType, RememberedInv
<1>3. /\ left \in Seq(Entries) /\ Len(left) = n
      /\ \A k \in 1..n : /\ left[k].subject = assignments[k].subject
                         /\ left[k].assignments = Kept(assignments[k].assignments, config)
  BY <1>2, LeftEntries
<1> HIDE DEF left
<1>4. PartOf(after, left, n)
  BY <1>3, RemainingIsPart
<1> HIDE DEF after
<1>5. PICK at : Places(at, after, left, n)
  BY <1>4 DEF PartOf
<1>6. Len(after) <= n /\ Len(after) \in Nat
  BY <1>4 DEF PartOf
<1>7. /\ \A k \in 1..Len(after) : at[k] \in 1..n /\ after[k] = left[at[k]]
      /\ \A j, k \in 1..Len(after) : j < k => at[j] < at[k]
  BY <1>5 DEF Places
<1>8. ASSUME NEW j \in 1..Len(after), NEW k \in 1..Len(after), after[j].subject = after[k].subject
      PROVE  j = k
  <2>1. at[j] = at[k]
    BY <1>2, <1>3, <1>7, <1>8
  <2>2. at[j] \in Nat /\ at[k] \in Nat
    BY <1>2, <1>7
  <2>3. ~(j < k) /\ ~(k < j)
    BY <1>7, <2>1, <2>2
  <2> QED
    BY <1>6, <2>3
<1>9. ASSUME NEW k \in 1..Len(after), NEW b \in after[k].assignments
      PROVE  Inherits(after[k], b, assignments) /\ b.fingerprint = Served(b.experiment)'
  <2>1. at[k] \in 1..n /\ after[k] = left[at[k]]
    BY <1>7
  <2>2. /\ after[k].subject = assignments[at[k]].subject
        /\ b \in Kept(assignments[at[k]].assignments, config)
    BY <1>3, <1>9, <2>1
  <2>3. b \in assignments[at[k]].assignments
    BY <2>2 DEF Kept
  <2>4. Inherits(after[k], b, assignments)
    BY <2>1, <2>2, <2>3 DEF Inherits
  <2>5. PICK i \in 1..Len(config) : config[i].enabled /\ config[i] = b.fingerprint
    BY <2>2 DEF Kept
  <2>6. config[i] \in ToSet(config)
    BY SdkCoreAssumption DEF ToSet
  <2>7. b \in Assignments
    BY <1>2, <2>1, <2>3 DEF Entries
  <2>8. b.experiment = config[i].id
    BY <2>5, <2>7, AssignmentFacts
  <2>9. Served(config[i].id)' = config[i]
    BY <1>1, <2>5, <2>6, ServedNext
  <2> QED
    BY <2>4, <2>5, <2>8, <2>9
<1>10. Len(after) <= MaxSubjects
  BY <1>2, <1>6, SdkCoreAssumption
<1> QED
  BY <1>1, <1>8, <1>9, <1>10

LEMMA RememberedStep == TypeOK /\ RememberedInv /\ [Next]_vars => RememberedInv'
<1> SUFFICES ASSUME TypeOK, RememberedInv, [Next]_vars PROVE RememberedInv'
  OBVIOUS
<1>0. ResolverType /\ BufferType /\ SeriesType
  BY DEF TypeOK
<1>a. ASSUME UNCHANGED resolver PROVE RememberedInv'
  BY <1>a DEF RememberedInv, Served, resolver
<1>1. ASSUME NEW rank \in Levels, LogCall(rank) PROVE RememberedInv'
  BY <1>a, <1>1 DEF LogCall
<1>2. ASSUME NEW r \in Recordings, Record(r[1], r[2], r[3]) PROVE RememberedInv'
  BY <1>a, <1>2 DEF Record
<1>3. ASSUME Capture PROVE RememberedInv'
  BY <1>a, <1>3 DEF Capture
<1>4. ASSUME NEW key \in ConfigKeys, NEW subject \in Subjects, ConfigGet(key, subject) PROVE RememberedInv'
  <2>1. PICK a \in Assignments : /\ a.fingerprint = Served(a.experiment)
                                 /\ RecordAssignment(subject, a)
                                 /\ UNCHANGED experiments
    BY <1>0, <1>4, ConfigGetFacts
  <2>2. \A id : Served(id)' = Served(id)
    BY <2>1 DEF Served
  <2>3. \A k \in 1..Len(assignments) : \A b \in assignments[k].assignments :
           b.fingerprint = Served(b.experiment)
    BY DEF RememberedInv
  <2>4. /\ Len(assignments') <= MaxSubjects
        /\ \A j, k \in 1..Len(assignments') :
              assignments'[j].subject = assignments'[k].subject => j = k
        /\ \A k \in 1..Len(assignments') : \A b \in assignments'[k].assignments :
              \/ assignments'[k].subject = subject /\ b = a
              \/ Inherits(assignments'[k], b, assignments)
    BY <1>0, <2>1, RecordAssignmentFacts
  <2>5. ASSUME NEW k \in 1..Len(assignments'), NEW b \in assignments'[k].assignments
        PROVE  b.fingerprint = Served(b.experiment)'
    <3>1. CASE b = a
      BY <2>1, <2>2, <3>1
    <3>2. CASE Inherits(assignments'[k], b, assignments)
      BY <2>2, <2>3, <3>2 DEF Inherits
    <3> QED
      BY <2>4, <3>1, <3>2
  <2> QED
    BY <2>4, <2>5 DEF RememberedInv
<1>5. ASSUME NEW subject \in Subjects, NEW metric \in Metrics, ExperimentGoal(subject, metric) PROVE RememberedInv'
  BY <1>0, <1>a, <1>5, ExperimentGoalFacts
<1>6. ASSUME NEW config \in Configs, ApplyConfig(config) PROVE RememberedInv'
  <2>1. /\ Len(assignments') <= MaxSubjects
        /\ \A j, k \in 1..Len(assignments') :
              assignments'[j].subject = assignments'[k].subject => j = k
        /\ \A k \in 1..Len(assignments') : \A b \in assignments'[k].assignments :
              b.fingerprint = Served(b.experiment)'
    BY <1>0, <1>6, ApplyConfigFacts
  <2> QED
    BY <2>1 DEF RememberedInv
<1>7. ASSUME UNCHANGED vars PROVE RememberedInv'
  BY <1>a, <1>7 DEF vars
<1> QED
  BY <1>1, <1>2, <1>3, <1>4, <1>5, <1>6, <1>7 DEF Next

LEMMA ExposuresCounted ==
    ASSUME BufferType, NEW p
    PROVE  Cardinality(Exposures(p[1], p[2])) \in Nat
<1> DEFINE n == Len(Stream)
           X == Exposures(p[1], p[2])
<1>1. Stream \in Seq(Rows)
  BY DEF BufferType, Stream
<1>2. n \in Nat /\ X \subseteq 1..n
  BY <1>1 DEF Exposures
<1>3. IsFiniteSet(1..n)
  BY <1>2, FS_Interval
<1> HIDE DEF n, X
<1>4. Cardinality(X) \in Nat
  BY <1>2, <1>3, FS_Subset, FS_CardinalityType
<1> QED
  BY <1>4 DEF X

\* A step that emits nothing and forgets what the new list does not hold keeps the bound.
LEMMA ExposedWithoutRow ==
    ASSUME ResolverType, BufferType, ExposedInv, Stream' = Stream,
           renewals' = Forgetting(assignments')
    PROVE  ExposedInv'
<1> SUFFICES ASSUME NEW p \in Pairs
             PROVE  Cardinality(Exposures(p[1], p[2])') <= renewals'[p] + Once(p \in Remembered(assignments'))
  BY DEF ExposedInv
<1>1. Exposures(p[1], p[2])' = Exposures(p[1], p[2])
  BY DEF Exposures
<1>2. Cardinality(Exposures(p[1], p[2])) <= renewals[p] + Once(p \in Remembered(assignments))
  BY DEF ExposedInv
<1>3. renewals \in [Pairs -> Nat]
  BY DEF ResolverType
<1>4. renewals[p] + Once(p \in Remembered(assignments)) <= renewals'[p] + Once(p \in Remembered(assignments'))
  BY <1>3, ForgettingFacts
<1>5. Cardinality(Exposures(p[1], p[2])) \in Nat
  BY ExposuresCounted
<1>6. renewals[p] \in Nat /\ renewals'[p] \in Nat
  BY <1>3 DEF Forgetting
<1>7. Once(p \in Remembered(assignments)) \in Nat /\ Once(p \in Remembered(assignments')) \in Nat
  BY DEF Once
<1> DEFINE x == Cardinality(Exposures(p[1], p[2]))
           y == renewals[p] + Once(p \in Remembered(assignments))
           z == renewals'[p] + Once(p \in Remembered(assignments'))
<1>8. x \in Nat /\ y \in Nat /\ z \in Nat /\ x <= y /\ y <= z
  BY <1>2, <1>4, <1>5, <1>6, <1>7
<1>9. Cardinality(Exposures(p[1], p[2])') = x
  BY <1>1
<1> HIDE DEF x, y, z
<1>10. x <= z
  BY <1>8
<1> QED
  BY <1>9, <1>10 DEF z

LEMMA ExposedStep == TypeOK /\ RememberedInv /\ ExposedInv /\ [Next]_vars => ExposedInv'
<1> SUFFICES ASSUME TypeOK, RememberedInv, ExposedInv, [Next]_vars PROVE ExposedInv'
  OBVIOUS
<1>0. ResolverType /\ BufferType /\ SeriesType
  BY DEF TypeOK
<1>a. ASSUME UNCHANGED resolver, Stream' = Stream PROVE ExposedInv'
  BY <1>a DEF ExposedInv, Exposures, Remembered, resolver
<1>b. ASSUME UNCHANGED <<events, captured>> PROVE Stream' = Stream
  BY <1>b DEF Stream
<1>1. ASSUME NEW rank \in Levels, LogCall(rank) PROVE ExposedInv'
  BY <1>a, <1>b, <1>1 DEF LogCall
<1>2. ASSUME NEW r \in Recordings, Record(r[1], r[2], r[3]) PROVE ExposedInv'
  BY <1>a, <1>b, <1>2 DEF Record
<1>3. ASSUME Capture PROVE ExposedInv'
  <2>1. UNCHANGED resolver
    BY <1>3 DEF Capture
  <2> QED
    BY <1>0, <1>a, <1>3, <2>1, CaptureStream
<1>4. ASSUME NEW key \in ConfigKeys, NEW subject \in Subjects, ConfigGet(key, subject) PROVE ExposedInv'
  <2>1. PICK a \in Assignments : /\ <<subject, a.experiment>> \notin Remembered(assignments)
                                 /\ RecordAssignment(subject, a)
                                 /\ Emit(Exposure(subject, a))
                                 /\ UNCHANGED <<experiments, registry, logs, captured>>
    BY <1>0, <1>4, ConfigGetFacts
  <2> DEFINE event == Exposure(subject, a)
             own == <<subject, a.experiment>>
  <2>2. event \in Rows
    BY <1>0, RowsOf
  <2>3. Stream \in Seq(Rows) /\ (Stream' = Stream \/ Stream' = Append(Stream, event))
    BY <1>0, <2>1, <2>2, EmitStream
  <2>4. renewals' = Forgetting(assignments') /\ renewals \in [Pairs -> Nat]
    BY <1>0, <2>1 DEF RecordAssignment, ResolverType
  <2>5. /\ event.subject = subject /\ event.experiment = a.experiment
    BY DEF Exposure
  <2>6. own \in Remembered(assignments')
    <3>1. \E k \in 1..Len(assignments') :
             assignments'[k].subject = subject /\ a \in assignments'[k].assignments
      BY <1>0, <2>1, RecordAssignmentFacts
    <3>2. assignments' \in Seq(Entries)
      BY <1>0, <2>1, RecordAssignmentType DEF ResolverType
    <3> QED
      BY <3>1, <3>2, RememberedFacts
  <2> HIDE DEF event, own
  <2> SUFFICES ASSUME NEW p \in Pairs
               PROVE  Cardinality(Exposures(p[1], p[2])') <= renewals'[p] + Once(p \in Remembered(assignments'))
    BY DEF ExposedInv
  <2>7. Cardinality(Exposures(p[1], p[2])) <= renewals[p] + Once(p \in Remembered(assignments))
    BY DEF ExposedInv
  <2> DEFINE x == Cardinality(Exposures(p[1], p[2]))
             x1 == Cardinality(Exposures(p[1], p[2])')
             y == renewals[p] + Once(p \in Remembered(assignments))
             z == renewals'[p] + Once(p \in Remembered(assignments'))
  <2>8. x \in Nat /\ x1 <= x + 1 /\ (p # own => x1 = x)
    BY <2>2, <2>3, <2>5, ExposuresGrow DEF own
  <2>9. y <= z /\ (p = own => y + 1 <= z)
    BY <2>1, <2>4, <2>6, ForgettingFacts DEF own
  <2>10. x1 \in Nat /\ y \in Nat /\ z \in Nat
    <3>1. x1 \in Nat
      BY <2>2, <2>3, ExposuresGrow
    <3>2. renewals[p] \in Nat /\ renewals'[p] \in Nat
      BY <2>4 DEF Forgetting
    <3> QED
      BY <3>1, <3>2 DEF Once
  <2>11. x <= y
    BY <2>7
  <2> HIDE DEF x, x1, y, z
  <2>12. x1 <= z
    BY <2>8, <2>9, <2>10, <2>11
  <2> QED
    BY <2>12 DEF x1, z
<1>5. ASSUME NEW subject \in Subjects, NEW metric \in Metrics, ExperimentGoal(subject, metric) PROVE ExposedInv'
  <2>1. UNCHANGED <<resolver, registry, logs, captured>>
    BY <1>0, <1>5, ExperimentGoalFacts
  <2>2. PICK a \in Assignments : Emit(Goal(subject, a))
    BY <1>0, <1>5, ExperimentGoalFacts
  <2> DEFINE event == Goal(subject, a)
  <2>3. event \in Rows /\ event.name # "exposure"
    <3>1. event \in Rows
      BY <1>0, RowsOf
    <3> QED
      BY <3>1 DEF Goal
  <2>4. Stream \in Seq(Rows) /\ (Stream' = Stream \/ Stream' = Append(Stream, event))
    BY <1>0, <2>1, <2>2, <2>3, EmitStream
  <2> HIDE DEF event
  <2>5. \A p \in Pairs : Exposures(p[1], p[2])' = Exposures(p[1], p[2])
    BY <2>3, <2>4, ExposuresGrow
  <2>6. renewals' = renewals /\ Remembered(assignments)' = Remembered(assignments)
    BY <2>1 DEF resolver, Remembered
  <2> QED
    BY <2>5, <2>6 DEF ExposedInv
<1>6. ASSUME NEW config \in Configs, ApplyConfig(config) PROVE ExposedInv'
  <2>1. renewals' = Forgetting(assignments') /\ UNCHANGED <<events, captured>>
    BY <1>6 DEF ApplyConfig
  <2> QED
    BY <1>0, <1>b, <2>1, ExposedWithoutRow
<1>7. ASSUME UNCHANGED vars PROVE ExposedInv'
  BY <1>a, <1>b, <1>7 DEF vars
<1> QED
  BY <1>1, <1>2, <1>3, <1>4, <1>5, <1>6, <1>7 DEF Next

LEMMA ResolverInit == Init => RememberedInv /\ ExposedInv /\ GoalsInv
<1> SUFFICES ASSUME Init PROVE RememberedInv /\ ExposedInv /\ GoalsInv
  OBVIOUS
<1>1. /\ assignments = <<>> /\ Len(assignments) = 0 /\ renewals = [p \in Pairs |-> 0]
      /\ Stream = <<>> /\ Len(Stream) = 0
  BY DEF Init, Stream
<1>2. RememberedInv
  BY <1>1, SdkCoreAssumption DEF RememberedInv
<1>3. ExposedInv
  <2> SUFFICES ASSUME NEW p \in Pairs
               PROVE  Cardinality(Exposures(p[1], p[2])) <= renewals[p] + Once(p \in Remembered(assignments))
    BY DEF ExposedInv
  <2>1. Exposures(p[1], p[2]) = {}
    BY <1>1 DEF Exposures
  <2>2. renewals[p] = 0 /\ Once(p \in Remembered(assignments)) \in Nat
    BY <1>1 DEF Once
  <2> QED
    BY <2>1, <2>2, FS_EmptySet
<1>4. GoalsInv
  BY <1>1 DEF GoalsInv, GoalsAreProvable
<1> QED
  BY <1>2, <1>3, <1>4

\* A subject meets an experiment once a stay, what is remembered is bounded, one entry a
\* subject, and every assignment is of an experiment served as it was when it was made: for
\* every bucketing, every series of snapshots and every order of the calls.
THEOREM ExposedOnce == Spec => []ExposedOncePerStay
<1>1. TypeOK /\ RememberedInv /\ ExposedInv => ExposedOncePerStay
  <2> SUFFICES ASSUME TypeOK, RememberedInv, ExposedInv PROVE ExposedOncePerStay
    OBVIOUS
  <2>1. renewals \in [Pairs -> Nat] /\ BufferType
    BY DEF TypeOK, ResolverType
  <2>2. ASSUME NEW subject \in Subjects, NEW id \in DOMAIN Bucket
        PROVE  Cardinality(Exposures(subject, id)) <= 1 + renewals[<<subject, id>>]
    <3> DEFINE p == <<subject, id>>
    <3>1. p \in Pairs /\ p[1] = subject /\ p[2] = id
      BY DEF Pairs
    <3> HIDE DEF p
    <3>2. Cardinality(Exposures(p[1], p[2])) <= renewals[p] + Once(p \in Remembered(assignments))
      BY <3>1 DEF ExposedInv
    <3>3. Cardinality(Exposures(p[1], p[2])) \in Nat /\ renewals[p] \in Nat
      BY <2>1, <3>1, ExposuresCounted
    <3>4. Once(p \in Remembered(assignments)) \in 0..1
      BY DEF Once
    <3> DEFINE x == Cardinality(Exposures(p[1], p[2])) y == Once(p \in Remembered(assignments)) z == renewals[p]
    <3>5. x \in Nat /\ y \in 0..1 /\ z \in Nat /\ x <= z + y
      BY <3>2, <3>3, <3>4
    <3> HIDE DEF x, y, z
    <3>6. x <= 1 + z
      BY <3>5
    <3>7. Cardinality(Exposures(subject, id)) = x /\ renewals[<<subject, id>>] = z
      BY <3>1 DEF x, z, p
    <3> QED
      BY <3>6, <3>7
  <2> QED
    BY <2>2 DEF ExposedOncePerStay, RememberedInv
<1>2. Init => TypeOK /\ RememberedInv /\ ExposedInv
  BY TypeInit, ResolverInit
<1>3. TypeOK /\ RememberedInv /\ ExposedInv /\ [Next]_vars => (TypeOK /\ RememberedInv /\ ExposedInv)'
  BY TypeStep, RememberedStep, ExposedStep
<1> QED
  BY <1>1, <1>2, <1>3, PTL DEF Spec

\* What goes to the end of the stream, or is refused, leaves every goal provable.
LEMMA GoalsKept ==
    ASSUME Stream \in Seq(Rows), GoalsAreProvable, dropped.events \subseteq dropped'.events,
           NEW event, Stream' = Stream \/ Stream' = Append(Stream, event),
           event.name = "goal" =>
              LET exposure == [event EXCEPT !.name = "exposure"] IN
              exposure \in ToSet(Stream) \/ exposure \in dropped.events
    PROVE  GoalsAreProvable'
<1> DEFINE n == Len(Stream)
           proved(g) == LET exposure == [Stream'[g] EXCEPT !.name = "exposure"] IN
                        \/ \E k \in 1..(g - 1) : Stream'[k] = exposure
                        \/ exposure \in dropped'.events
<1>1. n \in Nat /\ \A k \in 1..n : Stream[k] \in Rows
  OBVIOUS
<1>2. \A k \in 1..n : Stream'[k] = Stream[k]
  BY <1>1
<1>3. \A k \in 1..Len(Stream') : k \in 1..n \/ (k = n + 1 /\ Stream'[k] = event)
  BY <1>1
<1>4. ASSUME NEW g \in 1..n, Stream'[g].name = "goal" PROVE proved(g)
  <2> DEFINE exposure == [Stream[g] EXCEPT !.name = "exposure"]
  <2>1. /\ Stream'[g] = Stream[g]
        /\ \/ \E k \in 1..(g - 1) : Stream[k] = exposure
           \/ exposure \in dropped.events
    BY <1>2, <1>4 DEF GoalsAreProvable
  <2>2. \A k \in 1..(g - 1) : k \in 1..n
    BY <1>1
  <2> HIDE DEF n
  <2> QED
    BY <1>2, <2>1, <2>2
<1>5. ASSUME Stream'[n + 1] = event, event.name = "goal" PROVE proved(n + 1)
  <2> DEFINE exposure == [event EXCEPT !.name = "exposure"]
  <2>1. exposure \in ToSet(Stream) \/ exposure \in dropped.events
    BY <1>5
  <2>2. CASE exposure \in ToSet(Stream)
    <3>1. PICK k \in 1..n : Stream[k] = exposure
      BY <2>2 DEF ToSet
    <3>2. k \in 1..(n + 1 - 1) /\ Stream'[k] = exposure
      BY <1>1, <1>2, <3>1
    <3> QED
      BY <1>5, <3>2
  <2>3. CASE exposure \in dropped.events
    BY <1>5, <2>3
  <2> QED
    BY <2>1, <2>2, <2>3
<1>6. ASSUME NEW g \in 1..Len(Stream'), Stream'[g].name = "goal" PROVE proved(g)
  <2>1. CASE g \in 1..n
    BY <1>4, <1>6, <2>1
  <2>2. CASE g = n + 1 /\ Stream'[g] = event
    <3>1. Stream'[n + 1] = event /\ event.name = "goal"
      BY <1>6, <2>2
    <3>2. proved(n + 1)
      BY <1>5, <3>1
    <3> HIDE DEF proved
    <3> QED
      BY <2>2, <3>2
  <2> QED
    BY <1>3, <2>1, <2>2
<1> QED
  BY <1>6 DEF GoalsAreProvable

\* What was emitted stays emitted.
LEMMA EmittedStays ==
    ASSUME Stream \in Seq(Rows), dropped.events \subseteq dropped'.events,
           NEW event, Stream' = Stream \/ Stream' = Append(Stream, event),
           NEW row, WasEmitted(row)
    PROVE  WasEmitted(row)'
<1>1. CASE row \in ToSet(Stream)
  <2>1. PICK k \in 1..Len(Stream) : Stream[k] = row
    BY <1>1 DEF ToSet
  <2>2. k \in 1..Len(Stream') /\ Stream'[k] = row
    BY <2>1
  <2> QED
    BY <2>2 DEF WasEmitted, ToSet
<1>2. CASE row \in dropped.events
  BY <1>2 DEF WasEmitted
<1> QED
  BY <1>1, <1>2 DEF WasEmitted

\* A goal for a remembered assignment names the exposure that is there.
LEMMA GoalOfExposure ==
    ASSUME ResolverType, NEW subject \in Subjects, NEW a \in Assignments,
           a.fingerprint = Served(a.experiment)
    PROVE  [Goal(subject, a) EXCEPT !.name = "exposure"] = Exposure(subject, a)
BY DEF Goal, Exposure

LEMMA GoalsStep == TypeOK /\ RememberedInv /\ GoalsInv /\ [Next]_vars => GoalsInv'
<1> SUFFICES ASSUME TypeOK, RememberedInv, GoalsInv, [Next]_vars PROVE GoalsInv'
  OBVIOUS
<1>0. /\ ResolverType /\ BufferType /\ SeriesType
      /\ Stream \in Seq(Rows)
  BY DEF TypeOK, BufferType, Stream
<1>i. /\ GoalsAreProvable
      /\ \A k \in 1..Len(assignments) : \A a \in assignments[k].assignments :
            WasEmitted(Exposure(assignments[k].subject, a))
  BY DEF GoalsInv
<1>a. ASSUME UNCHANGED assignments, Stream' = Stream, dropped'.events = dropped.events PROVE GoalsInv'
  BY <1>a DEF GoalsInv, GoalsAreProvable, WasEmitted, Exposure
<1>b. ASSUME UNCHANGED <<events, captured>> PROVE Stream' = Stream
  BY <1>b DEF Stream
<1>1. ASSUME NEW rank \in Levels, LogCall(rank) PROVE GoalsInv'
  <2>1. UNCHANGED <<assignments, events, captured>>
    BY <1>1 DEF LogCall, resolver
  <2>2. dropped'.events = dropped.events
    <3>1. \/ UNCHANGED dropped
          \/ \E ranks : dropped' = [dropped EXCEPT !.logs = ranks]
      BY <1>1 DEF LogCall
    <3>2. dropped \in [events : SUBSET Rows, logs : SUBSET Nat]
      BY <1>0 DEF BufferType
    <3> QED
      BY <3>1, <3>2
  <2> QED
    BY <1>a, <1>b, <2>1, <2>2
<1>2. ASSUME NEW r \in Recordings, Record(r[1], r[2], r[3]) PROVE GoalsInv'
  BY <1>a, <1>b, <1>2 DEF Record, resolver
<1>3. ASSUME Capture PROVE GoalsInv'
  <2>1. UNCHANGED assignments
    BY <1>3 DEF Capture, resolver
  <2> QED
    BY <1>0, <1>a, <1>3, <2>1, CaptureStream
<1>4. ASSUME NEW key \in ConfigKeys, NEW subject \in Subjects, ConfigGet(key, subject) PROVE GoalsInv'
  <2>1. PICK a \in Assignments : /\ RecordAssignment(subject, a)
                                 /\ Emit(Exposure(subject, a))
                                 /\ UNCHANGED captured
    BY <1>0, <1>4, ConfigGetFacts
  <2> DEFINE event == Exposure(subject, a)
  <2>2. event \in Rows /\ event.name # "goal"
    <3>1. event \in Rows
      BY <1>0, RowsOf
    <3> QED
      BY <3>1 DEF Exposure
  <2>3. \/ Stream' = Append(Stream, event) /\ dropped'.events = dropped.events
        \/ Stream' = Stream /\ dropped'.events = dropped.events \cup {event}
    BY <1>0, <2>1, <2>2, EmitStream
  <2>4. /\ dropped.events \subseteq dropped'.events
        /\ Stream' = Stream \/ Stream' = Append(Stream, event)
    BY <2>3
  <2>5. GoalsAreProvable'
    BY <1>0, <1>i, <2>2, <2>4, GoalsKept
  <2>6. WasEmitted(event)'
    <3>1. CASE event \in dropped'.events
      BY <3>1 DEF WasEmitted
    <3>2. CASE Stream' = Append(Stream, event)
      <4>1. Len(Stream) + 1 \in 1..Len(Stream') /\ Stream'[Len(Stream) + 1] = event
        BY <1>0, <3>2
      <4> HIDE DEF event
      <4> QED
        BY <4>1 DEF WasEmitted, ToSet
    <3> QED
      BY <2>3, <3>1, <3>2
  <2>7. \A k \in 1..Len(assignments') : \A b \in assignments'[k].assignments :
           \/ assignments'[k].subject = subject /\ b = a
           \/ Inherits(assignments'[k], b, assignments)
    BY <1>0, <2>1, RecordAssignmentFacts
  <2>8. ASSUME NEW k \in 1..Len(assignments'), NEW b \in assignments'[k].assignments
        PROVE  WasEmitted(Exposure(assignments[k].subject, b))'
    <3>1. CASE assignments'[k].subject = subject /\ b = a
      BY <2>6, <3>1
    <3>2. CASE Inherits(assignments'[k], b, assignments)
      <4>1. PICK row : row = Exposure(assignments'[k].subject, b)
        OBVIOUS
      <4>2. WasEmitted(row)
        BY <1>i, <3>2, <4>1 DEF Inherits
      <4> HIDE DEF event
      <4>3. WasEmitted(row)'
        BY <1>0, <2>4, <4>2, EmittedStays
      <4> QED
        BY <4>1, <4>3 DEF WasEmitted, Exposure
    <3> QED
      BY <2>7, <3>1, <3>2
  <2> QED
    BY <2>5, <2>8 DEF GoalsInv, Exposure
<1>5. ASSUME NEW subject \in Subjects, NEW metric \in Metrics, ExperimentGoal(subject, metric) PROVE GoalsInv'
  <2>1. UNCHANGED <<assignments, captured>>
    BY <1>0, <1>5, ExperimentGoalFacts DEF resolver
  <2>2. PICK k \in 1..Len(assignments) :
           /\ assignments[k].subject = subject
           /\ \E a \in assignments[k].assignments : a \in Assignments /\ Emit(Goal(subject, a))
    BY <1>0, <1>5, ExperimentGoalFacts
  <2>3. PICK a \in assignments[k].assignments : a \in Assignments /\ Emit(Goal(subject, a))
    BY <2>2
  <2> DEFINE event == Goal(subject, a)
  <2>4. event \in Rows
    BY <1>0, <2>3, RowsOf
  <2>5. /\ dropped.events \subseteq dropped'.events
        /\ Stream' = Stream \/ Stream' = Append(Stream, event)
    BY <1>0, <2>1, <2>3, <2>4, EmitStream
  <2>6. a.fingerprint = Served(a.experiment)
    BY <2>3 DEF RememberedInv
  <2>7. [event EXCEPT !.name = "exposure"] = Exposure(subject, a)
    BY <1>0, <2>3, <2>6, GoalOfExposure
  <2>8. WasEmitted(Exposure(subject, a))
    BY <1>i, <2>2, <2>3
  <2> HIDE DEF event
  <2>9. GoalsAreProvable'
    BY <1>0, <1>i, <2>5, <2>7, <2>8, GoalsKept DEF WasEmitted
  <2>10. ASSUME NEW j \in 1..Len(assignments), NEW b \in assignments[j].assignments
         PROVE  WasEmitted(Exposure(assignments[j].subject, b))'
    <3>1. PICK row : row = Exposure(assignments[j].subject, b)
      OBVIOUS
    <3>2. WasEmitted(row)
      BY <1>i, <3>1
    <3>3. WasEmitted(row)'
      BY <1>0, <2>5, <3>2, EmittedStays
    <3> QED
      BY <2>1, <3>1, <3>3 DEF WasEmitted, Exposure
  <2> QED
    BY <2>1, <2>9, <2>10 DEF GoalsInv, Exposure
<1>6. ASSUME NEW config \in Configs, ApplyConfig(config) PROVE GoalsInv'
  <2>1. UNCHANGED <<events, captured, dropped>>
    BY <1>6 DEF ApplyConfig
  <2>2. Stream' = Stream /\ dropped' = dropped
    BY <1>b, <2>1
  <2>3. \A k \in 1..Len(assignments') : \A b \in assignments'[k].assignments :
           Inherits(assignments'[k], b, assignments)
    BY <1>0, <1>6, ApplyConfigFacts
  <2>4. ASSUME NEW k \in 1..Len(assignments'), NEW b \in assignments'[k].assignments
        PROVE  WasEmitted(Exposure(assignments[k].subject, b))'
    <3>1. WasEmitted(Exposure(assignments'[k].subject, b))
      BY <1>i, <2>3 DEF Inherits
    <3> QED
      BY <2>2, <3>1 DEF WasEmitted, Exposure
  <2>5. GoalsAreProvable'
    BY <1>i, <2>2 DEF GoalsAreProvable
  <2> QED
    BY <2>4, <2>5 DEF GoalsInv, Exposure
<1>7. ASSUME UNCHANGED vars PROVE GoalsInv'
  BY <1>a, <1>b, <1>7 DEF vars, resolver
<1> QED
  BY <1>1, <1>2, <1>3, <1>4, <1>5, <1>6, <1>7 DEF Next

\* A goal has its exposure before it, of the same subject, variant and version of the
\* experiment, or a full buffer refused that exposure and it was counted.
THEOREM GoalsProvable == Spec => []GoalsAreProvable
<1>1. TypeOK /\ RememberedInv /\ GoalsInv => GoalsAreProvable
  BY DEF GoalsInv
<1>2. Init => TypeOK /\ RememberedInv /\ GoalsInv
  BY TypeInit, ResolverInit
<1>3. TypeOK /\ RememberedInv /\ GoalsInv /\ [Next]_vars => (TypeOK /\ RememberedInv /\ GoalsInv)'
  BY TypeStep, RememberedStep, GoalsStep
<1> QED
  BY <1>1, <1>2, <1>3, PTL DEF Spec

-----------------------------------------------------------------------------
(* What was captured and what is live. *)

\* x is the largest of the values given, -1 if there are none.
Tops(x, given) ==
    /\ x = -1 \/ \E k \in 1..Len(given) : given[k][1] = x
    /\ \A k \in 1..Len(given) : given[k][1] <= x

\* Of the last `count` values, max is the largest and the last of that size has this exemplar.
LastTop(count, max, exemplar, given) ==
    \E k \in (Len(given) - count + 1)..Len(given) :
        /\ given[k][1] = max /\ given[k][2] = exemplar
        /\ \A j \in (Len(given) - count + 1)..Len(given) :
              given[j][1] <= max /\ (given[j][1] = max => j <= k)

\* What a histogram captured as `before` and live as `live` owes to the values given.
HistogramTally(before, live, given) ==
    /\ before.count + live.count = Len(given)
    /\ Tops(IF live.max > before.max THEN live.max ELSE before.max, given)
    /\ live.count = 0 => live.max = -1
    /\ live.count > 0 => LastTop(live.count, live.max, live.exemplar, given)

\* What a series owes to the values it was given.
Tally(kind, before, live, given) ==
    CASE kind = "counter" -> before + live = SumOf(given)
      [] kind = "gauge" ->
            Merged(kind, before, live) = IF given = <<>> THEN Nil ELSE given[Len(given)][1]
      [] kind = "histogram" -> HistogramTally(before, live, given)
      [] kind = "distinct" -> before \cup live = {given[k][1] : k \in 1..Len(given)}

SeriesInv == \A s \in Series : Tally(s[1], captured.series[s], Live(s), recorded[s])

Histograms == [count : Nat, max : Nat \cup {-1}, exemplar : Attrs]

\* One observation more.
LEMMA AppendedValue ==
    ASSUME NEW given \in Seq(Nat \X Attrs), NEW v \in Nat, NEW attrs \in Attrs
    PROVE  LET more == Append(given, <<v, attrs>>)
               n == Len(given)
           IN  /\ n \in Nat /\ Len(more) = n + 1 /\ more # <<>>
               /\ more[n + 1] = <<v, attrs>>
               /\ \A k \in 1..n : /\ more[k] = given[k]
                                  /\ given[k][1] \in Nat /\ given[k][2] \in Attrs
               /\ \A k \in 1..(n + 1) : k \in 1..n \/ k = n + 1
<1>1. \A k \in 1..Len(given) : given[k] \in Nat \X Attrs
  OBVIOUS
<1> QED
  BY <1>1

LEMMA TopsAppend ==
    ASSUME NEW given \in Seq(Nat \X Attrs), NEW v \in Nat, NEW attrs \in Attrs,
           NEW x \in Nat \cup {-1}, Tops(x, given)
    PROVE  Tops(IF v >= x THEN v ELSE x, Append(given, <<v, attrs>>))
<1> DEFINE more == Append(given, <<v, attrs>>)
           n == Len(given)
           y == IF v >= x THEN v ELSE x
<1>1. /\ n \in Nat /\ Len(more) = n + 1
      /\ more[n + 1] = <<v, attrs>>
      /\ \A k \in 1..n : more[k] = given[k] /\ given[k][1] \in Nat
      /\ \A k \in 1..(n + 1) : k \in 1..n \/ k = n + 1
  BY AppendedValue
<1>2. /\ x = -1 \/ \E k \in 1..n : given[k][1] = x
      /\ \A k \in 1..n : given[k][1] <= x
  BY DEF Tops
<1> HIDE DEF more
<1>3. \A k \in 1..(n + 1) : more[k][1] <= y
  <2> SUFFICES ASSUME NEW k \in 1..(n + 1) PROVE more[k][1] <= y
    OBVIOUS
  <2>1. CASE k = n + 1
    BY <1>1, <2>1
  <2>2. CASE k \in 1..n
    BY <1>1, <1>2, <2>2
  <2> QED
    BY <1>1, <2>1, <2>2
<1>4. \E k \in 1..(n + 1) : more[k][1] = y
  <2>1. CASE v >= x
    <3>1. n + 1 \in 1..(n + 1) /\ more[n + 1][1] = y
      BY <1>1, <2>1
    <3> QED
      BY <3>1
  <2>2. CASE ~(v >= x)
    <3>1. x # -1 /\ y = x
      BY <2>2
    <3>2. PICK k \in 1..n : given[k][1] = x
      BY <1>2, <3>1
    <3>3. k \in 1..(n + 1) /\ more[k][1] = y
      BY <1>1, <3>1, <3>2
    <3> QED
      BY <3>3
  <2> QED
    BY <2>1, <2>2
<1> QED
  BY <1>1, <1>3, <1>4 DEF Tops, more

LEMMA LastTopAppend ==
    ASSUME NEW given \in Seq(Nat \X Attrs), NEW v \in Nat, NEW attrs \in Attrs,
           NEW count \in 0..Len(given), NEW max \in Nat \cup {-1}, NEW exemplar \in Attrs,
           count = 0 => max = -1,
           count > 0 => LastTop(count, max, exemplar, given)
    PROVE  LastTop(count + 1, IF v >= max THEN v ELSE max, IF v >= max THEN attrs ELSE exemplar,
                   Append(given, <<v, attrs>>))
<1> DEFINE more == Append(given, <<v, attrs>>)
           n == Len(given)
           first == n - count + 1
<1>1. /\ n \in Nat /\ Len(more) = n + 1
      /\ more[n + 1] = <<v, attrs>>
      /\ \A k \in 1..n : more[k] = given[k] /\ given[k][1] \in Nat
      /\ \A k \in 1..(n + 1) : k \in 1..n \/ k = n + 1
  BY AppendedValue
<1> HIDE DEF more
<1>2. /\ first \in 1..(n + 1) /\ (n + 1) - (count + 1) + 1 = first
      /\ \A k \in first..(n + 1) : (k \in first..n /\ k \in 1..n) \/ k = n + 1
  BY <1>1
<1>3. n + 1 \in first..(n + 1) /\ \A k \in first..n : k \in first..(n + 1) /\ k <= n /\ k \in 1..n
  BY <1>1, <1>2
<1>4. CASE v >= max
  <2>1. \A j \in first..n : given[j][1] <= v
    <3>1. CASE count = 0
      BY <1>1, <3>1
    <3>2. CASE count > 0
      <4>1. \A j \in first..n : given[j][1] <= max
        BY <3>2 DEF LastTop
      <4> QED
        BY <1>1, <1>3, <1>4, <4>1
    <3> QED
      BY <3>1, <3>2
  <2>2. \A j \in first..(n + 1) : more[j][1] <= v /\ (more[j][1] = v => j <= n + 1)
    <3> SUFFICES ASSUME NEW j \in first..(n + 1) PROVE more[j][1] <= v /\ j <= n + 1
      OBVIOUS
    <3>1. CASE j = n + 1
      BY <1>1, <3>1
    <3>2. CASE j \in first..n /\ j \in 1..n
      <4>1. more[j] = given[j]
        BY <1>1, <3>2
      <4> QED
        BY <1>1, <2>1, <3>2, <4>1
    <3> QED
      BY <1>2, <3>1, <3>2
  <2>3. more[n + 1][1] = v /\ more[n + 1][2] = attrs
    BY <1>1
  <2> HIDE DEF first, n
  <2>4. LastTop(count + 1, v, attrs, more)
    BY <1>1, <1>2, <1>3, <2>2, <2>3 DEF LastTop
  <2> QED
    BY <1>4, <2>4 DEF more
<1>5. CASE ~(v >= max)
  <2>1. count > 0 /\ max \in Nat /\ v < max
    BY <1>5
  <2>2. PICK k \in first..n :
           /\ given[k][1] = max /\ given[k][2] = exemplar
           /\ \A j \in first..n : given[j][1] <= max /\ (given[j][1] = max => j <= k)
    BY <2>1 DEF LastTop
  <2>3. more[k][1] = max /\ more[k][2] = exemplar /\ k \in first..(n + 1)
    BY <1>1, <1>3, <2>2
  <2>4. \A j \in first..(n + 1) : more[j][1] <= max /\ (more[j][1] = max => j <= k)
    <3> SUFFICES ASSUME NEW j \in first..(n + 1) PROVE more[j][1] <= max /\ (more[j][1] = max => j <= k)
      OBVIOUS
    <3>1. CASE j = n + 1
      <4>1. more[j][1] = v
        BY <1>1, <3>1
      <4> QED
        BY <2>1, <4>1
    <3>2. CASE j \in first..n /\ j \in 1..n
      BY <1>1, <2>2, <3>2
    <3> QED
      BY <1>2, <3>1, <3>2
  <2> HIDE DEF first, n
  <2>5. LastTop(count + 1, max, exemplar, more)
    BY <1>1, <1>2, <2>3, <2>4 DEF LastTop
  <2> QED
    BY <1>5, <2>5 DEF more
<1> QED
  BY <1>4, <1>5

LEMMA TallyRecorded ==
    ASSUME NEW kind \in Kinds, NEW before \in ValueOf(kind), NEW live \in ValueOf(kind),
           NEW given \in Seq(Nat \X Attrs), NEW v \in Nat, NEW attrs \in Attrs,
           Tally(kind, before, live, given)
    PROVE  Tally(kind, before, Recorded(kind, live, v, attrs), Append(given, <<v, attrs>>))
<1> DEFINE more == Append(given, <<v, attrs>>)
           n == Len(given)
           new == Recorded(kind, live, v, attrs)
<1>1. /\ n \in Nat /\ Len(more) = n + 1 /\ more # <<>>
      /\ more[n + 1] = <<v, attrs>>
      /\ \A k \in 1..n : more[k] = given[k] /\ given[k][1] \in Nat
      /\ \A k \in 1..(n + 1) : k \in 1..n \/ k = n + 1
  BY AppendedValue
<1>2. CASE kind = "counter"
  <2>1. before \in Nat /\ live \in Nat /\ before + live = SumOf(given) /\ new = live + v
    BY <1>2 DEF ValueOf, Tally, Recorded
  <2>2. SumOf(given) \in Nat /\ SumOf(more) = SumOf(given) + v
    <3> DEFINE r == <<v, attrs>>
    <3>1. r[1] = v
      OBVIOUS
    <3> HIDE DEF r, n
    <3>2. SumOf(given) \in Nat /\ SumOf(Append(given, r)) = SumOf(given) + r[1]
      BY <1>1, <3>1, SumOfAppend DEF n
    <3> QED
      BY <3>1, <3>2 DEF r
  <2> HIDE DEF more, new
  <2>3. before + new = SumOf(more)
    BY <2>1, <2>2
  <2> QED
    BY <1>2, <2>3 DEF Tally, more, new
<1>3. CASE kind = "gauge"
  <2>1. new = v /\ v # Nil
    BY <1>3, SdkCoreAssumption DEF Recorded
  <2>2. Merged(kind, before, new) = v
    BY <1>3, <2>1 DEF Merged
  <2>3. more # <<>> /\ more[Len(more)][1] = v
    BY <1>1
  <2> HIDE DEF more, new
  <2> QED
    BY <1>3, <2>2, <2>3 DEF Tally, more, new
<1>4. CASE kind = "histogram"
  <2>1. before \in Histograms /\ live \in Histograms /\ HistogramTally(before, live, given)
    BY <1>4 DEF ValueOf, Histograms, Tally
  <2>2. new = [count |-> live.count + 1,
               max |-> IF v >= live.max THEN v ELSE live.max,
               exemplar |-> IF v >= live.max THEN attrs ELSE live.exemplar]
    BY <1>4 DEF Recorded
  <2>3. /\ new.count = live.count + 1
        /\ new.max = (IF v >= live.max THEN v ELSE live.max)
        /\ new.exemplar = (IF v >= live.max THEN attrs ELSE live.exemplar)
    BY <2>2
  <2>4. /\ before.count \in Nat /\ live.count \in Nat
        /\ before.max \in Nat \cup {-1} /\ live.max \in Nat \cup {-1} /\ live.exemplar \in Attrs
    BY <2>1 DEF Histograms
  <2>5. /\ before.count + live.count = n
        /\ Tops(IF live.max > before.max THEN live.max ELSE before.max, given)
        /\ live.count = 0 => live.max = -1
        /\ live.count > 0 => LastTop(live.count, live.max, live.exemplar, given)
    BY <2>1 DEF HistogramTally
  <2> HIDE DEF more, new
  <2>6. before.count + new.count = Len(more) /\ new.count > 0
    <3> DEFINE b == before.count l == live.count c == new.count
    <3>1. b \in Nat /\ l \in Nat /\ c = l + 1 /\ b + l = n /\ Len(more) = n + 1
      BY <1>1, <2>3, <2>4, <2>5
    <3> HIDE DEF b, l, c, n
    <3>2. b + c = n + 1 /\ c > 0
      BY <3>1
    <3> QED
      BY <3>1, <3>2 DEF b, c
  <2>7. Tops(IF new.max > before.max THEN new.max ELSE before.max, more)
    <3> DEFINE x == IF live.max > before.max THEN live.max ELSE before.max
    <3>1. x \in Nat \cup {-1}
      BY <2>4
    <3>2. (IF new.max > before.max THEN new.max ELSE before.max) = (IF v >= x THEN v ELSE x)
      BY <2>3, <2>4
    <3>3. Tops(x, given)
      BY <2>5
    <3> HIDE DEF x
    <3>4. Tops(IF v >= x THEN v ELSE x, more)
      BY <3>1, <3>3, TopsAppend DEF more
    <3> QED
      BY <3>2, <3>4
  <2>8. LastTop(new.count, new.max, new.exemplar, more)
    <3> DEFINE c == live.count m == live.max e == live.exemplar
    <3>1. c \in 0..Len(given) /\ m \in Nat \cup {-1} /\ e \in Attrs
      BY <1>1, <2>4, <2>5
    <3>2. (c = 0 => m = -1) /\ (c > 0 => LastTop(c, m, e, given))
      BY <2>5
    <3>3. new.count = c + 1 /\ new.max = (IF v >= m THEN v ELSE m) /\ new.exemplar = (IF v >= m THEN attrs ELSE e)
      BY <2>3
    <3> HIDE DEF c, m, e
    <3>4. LastTop(c + 1, IF v >= m THEN v ELSE m, IF v >= m THEN attrs ELSE e, more)
      BY <3>1, <3>2, LastTopAppend DEF more
    <3> QED
      BY <3>3, <3>4
  <2>9. HistogramTally(before, new, more)
    BY <2>3, <2>4, <2>6, <2>7, <2>8 DEF HistogramTally
  <2> QED
    BY <1>4, <2>9 DEF Tally, more, new
<1>5. CASE kind = "distinct"
  <2>1. before \cup live = {given[k][1] : k \in 1..n} /\ new = live \cup {v}
    BY <1>5 DEF Tally, Recorded
  <2> HIDE DEF more, new
  <2>2. \A k \in 1..(n + 1) : more[k][1] = IF k = n + 1 THEN v ELSE given[k][1]
    BY <1>1
  <2>3. n + 1 \in 1..(n + 1) /\ \A k \in 1..n : k \in 1..(n + 1) /\ k # n + 1
    BY <1>1
  <2>4. {more[k][1] : k \in 1..(n + 1)} = {given[k][1] : k \in 1..n} \cup {v}
    <3> HIDE DEF n
    <3> QED
      BY <1>1, <2>2, <2>3
  <2>5. before \cup new = {more[k][1] : k \in 1..Len(more)}
    BY <1>1, <2>1, <2>4
  <2> QED
    BY <1>5, <2>5 DEF Tally, more, new
<1> QED
  BY <1>2, <1>3, <1>4, <1>5 DEF Kinds

\* A capture moves the live value into what was captured.
LEMMA TallyMerged ==
    ASSUME NEW kind \in Kinds, NEW before \in ValueOf(kind), NEW live \in ValueOf(kind),
           NEW given \in Seq(Nat \X Attrs), Tally(kind, before, live, given)
    PROVE  Tally(kind, Merged(kind, before, live), Clean(kind), given)
<1>1. CASE kind = "counter"
  <2>1. /\ before \in Nat /\ live \in Nat /\ before + live = SumOf(given)
        /\ Merged(kind, before, live) = before + live /\ Clean(kind) = 0
    BY <1>1 DEF ValueOf, Tally, Merged, Clean
  <2>2. Merged(kind, before, live) + Clean(kind) = SumOf(given)
    BY <2>1
  <2> QED
    BY <1>1, <2>2 DEF Tally
<1>2. CASE kind = "gauge"
  <2>1. Merged(kind, before, live) = IF given = <<>> THEN Nil ELSE given[Len(given)][1]
    BY <1>2 DEF Tally
  <2>2. Clean(kind) = Nil /\ \A b : Merged(kind, b, Nil) = b
    BY <1>2 DEF Clean, Merged
  <2>3. Merged(kind, Merged(kind, before, live), Clean(kind)) = Merged(kind, before, live)
    BY <2>2
  <2> QED
    BY <1>2, <2>1, <2>3 DEF Tally
<1>3. CASE kind = "histogram"
  <2> DEFINE new == Merged(kind, before, live)
  <2>1. before \in Histograms /\ live \in Histograms /\ HistogramTally(before, live, given)
    BY <1>3 DEF ValueOf, Histograms, Tally
  <2>2. /\ new.count = before.count + live.count
        /\ new.max = IF live.max > before.max THEN live.max ELSE before.max
    BY <1>3 DEF Merged
  <2>3. Clean(kind).count = 0 /\ Clean(kind).max = -1
    BY <1>3 DEF Clean
  <2>4. /\ before.count \in Nat /\ live.count \in Nat
        /\ before.max \in Nat \cup {-1} /\ live.max \in Nat \cup {-1}
    BY <2>1 DEF Histograms
  <2>5. new.max \in Nat \cup {-1} /\ new.count \in Nat
    BY <2>2, <2>4
  <2>6. before.count + live.count = Len(given) /\ Tops(new.max, given)
    BY <2>1, <2>2 DEF HistogramTally
  <2> HIDE DEF new
  <2>7. (IF Clean(kind).max > new.max THEN Clean(kind).max ELSE new.max) = new.max
    BY <2>3, <2>5
  <2>8. HistogramTally(new, Clean(kind), given)
    BY <2>2, <2>3, <2>5, <2>6, <2>7 DEF HistogramTally
  <2> QED
    BY <1>3, <2>8 DEF Tally, new
<1>4. CASE kind = "distinct"
  BY <1>4 DEF Tally, Merged, Clean
<1> QED
  BY <1>1, <1>2, <1>3, <1>4 DEF Kinds

LEMMA TallyClean ==
    ASSUME NEW kind \in Kinds
    PROVE  Tally(kind, Clean(kind), Clean(kind), <<>>)
<1>1. CASE kind = "counter"
  BY <1>1, SumOfEmpty DEF Tally, Clean
<1>2. CASE kind = "gauge"
  BY <1>2 DEF Tally, Clean, Merged
<1>3. CASE kind = "histogram"
  <2>1. Clean(kind).count = 0 /\ Clean(kind).max = -1
    BY <1>3 DEF Clean
  <2>2. Tops(-1, <<>>)
    BY DEF Tops
  <2>3. HistogramTally(Clean(kind), Clean(kind), <<>>)
    BY <2>1, <2>2 DEF HistogramTally
  <2> QED
    BY <1>3, <2>3 DEF Tally
<1>4. CASE kind = "distinct"
  BY <1>4 DEF Tally, Clean
<1> QED
  BY <1>1, <1>2, <1>3, <1>4 DEF Kinds

\* The last element and the largest of a list's values.
LEMMA LargestIs ==
    ASSUME NEW S, NEW x \in S, S \subseteq Int, \A y \in S : y <= x
    PROVE  LargestOf(S) = x
<1>1. x \in S /\ \A y \in S : x >= y
  OBVIOUS
<1>2. \A z \in S : (\A y \in S : z >= y) => z = x
  OBVIOUS
<1> QED
  BY <1>1, <1>2 DEF LargestOf

\* CapturesAddUp, of one series.
AddsUp(kind, total, live, given) ==
    CASE kind = "counter" -> total = SumOf(given)
      [] kind = "gauge" -> total = IF given = <<>> THEN Nil ELSE Last(given)[1]
      [] kind = "histogram" ->
            /\ total.count = Len(given)
            /\ total.max = LargestOf({-1} \cup {given[k][1] : k \in 1..Len(given)})
            /\ live.count > 0 =>
                  LET since == (Len(given) - live.count + 1)..Len(given)
                      top == {k \in since : given[k][1] = live.max}
                  IN  /\ \A k \in since : given[k][1] <= live.max
                      /\ top # {} /\ live.exemplar = given[LargestOf(top)][2]
      [] kind = "distinct" -> total = {given[k][1] : k \in 1..Len(given)}

LEMMA TallyTotals ==
    ASSUME NEW kind \in Kinds, NEW before \in ValueOf(kind), NEW live \in ValueOf(kind),
           NEW given \in Seq(Nat \X Attrs), Tally(kind, before, live, given)
    PROVE  AddsUp(kind, Merged(kind, before, live), live, given)
<1>0. Len(given) \in Nat /\ \A k \in 1..Len(given) : given[k][1] \in Nat
  <2>1. \A k \in 1..Len(given) : given[k] \in Nat \X Attrs
    OBVIOUS
  <2> QED
    BY <2>1
<1>1. CASE kind = "counter"
  BY <1>1 DEF Tally, Merged, AddsUp
<1>2. CASE kind = "gauge"
  BY <1>2 DEF Tally, Merged, Last, AddsUp
<1>3. CASE kind = "histogram"
  <2> DEFINE total == Merged(kind, before, live)
             n == Len(given)
             values == {-1} \cup {given[k][1] : k \in 1..n}
             since == (n - live.count + 1)..n
             top == {k \in since : given[k][1] = live.max}
  <2>1. before \in Histograms /\ live \in Histograms /\ HistogramTally(before, live, given)
    BY <1>3 DEF ValueOf, Histograms, Tally
  <2>2. /\ total.count = before.count + live.count
        /\ total.max = IF live.max > before.max THEN live.max ELSE before.max
    BY <1>3 DEF Merged
  <2>3. /\ before.count \in Nat /\ live.count \in Nat
        /\ before.max \in Nat \cup {-1} /\ live.max \in Nat \cup {-1}
    BY <2>1 DEF Histograms
  <2>4. /\ before.count + live.count = n
        /\ Tops(total.max, given)
        /\ live.count > 0 => LastTop(live.count, live.max, live.exemplar, given)
    BY <2>1, <2>2 DEF HistogramTally
  <2>5. total.max \in Nat \cup {-1}
    BY <2>2, <2>3
  <2>6. total.count = n
    BY <2>2, <2>4
  <2> HIDE DEF total
  <2>7. total.max = LargestOf(values)
    <3>1. total.max \in values
      BY <2>4 DEF Tops
    <3>2. values \subseteq Int
      BY <1>0
    <3>3. \A y \in values : y <= total.max
      BY <2>4, <2>5 DEF Tops
    <3> HIDE DEF values
    <3> QED
      BY <3>1, <3>2, <3>3, LargestIs
  <2>8. ASSUME live.count > 0
        PROVE  /\ \A k \in since : given[k][1] <= live.max
               /\ top # {} /\ live.exemplar = given[LargestOf(top)][2]
    <3>1. PICK k \in since :
             /\ given[k][1] = live.max /\ given[k][2] = live.exemplar
             /\ \A j \in since : given[j][1] <= live.max /\ (given[j][1] = live.max => j <= k)
      BY <2>4, <2>8 DEF LastTop
    <3>2. since \subseteq Int
      BY <1>0, <2>3
    <3> HIDE DEF since
    <3>3. k \in top /\ top \subseteq Int /\ \A j \in top : j <= k
      BY <3>1, <3>2
    <3> HIDE DEF top
    <3>4. LargestOf(top) = k
      BY <3>3, LargestIs
    <3> QED
      BY <3>1, <3>3, <3>4
  <2> QED
    BY <1>3, <2>6, <2>7, <2>8 DEF total, AddsUp
<1>4. CASE kind = "distinct"
  BY <1>4 DEF Tally, Merged, AddsUp
<1> QED
  BY <1>1, <1>2, <1>3, <1>4 DEF Kinds

LEMMA SeriesInit == Init => SeriesInv
<1> SUFFICES ASSUME Init PROVE SeriesInv
  OBVIOUS
<1>1. \A s \in Series : /\ Live(s) = Clean(s[1]) /\ captured.series[s] = Clean(s[1])
                        /\ recorded[s] = <<>>
  BY DEF Init, Live
<1> QED
  BY <1>1, KindOf, TallyClean DEF SeriesInv

LEMMA SeriesStep == TypeOK /\ SeriesInv /\ [Next]_vars => SeriesInv'
<1> SUFFICES ASSUME TypeOK, SeriesInv, [Next]_vars PROVE SeriesInv'
  OBVIOUS
<1>0. /\ ResolverType /\ SeriesType
      /\ \A s \in Series : /\ s[1] \in Kinds
                           /\ Live(s) \in ValueOf(s[1]) /\ captured.series[s] \in ValueOf(s[1])
                           /\ recorded[s] \in Seq(Nat \X Attrs)
                           /\ Tally(s[1], captured.series[s], Live(s), recorded[s])
  BY KindOf DEF TypeOK, SeriesType, SeriesInv
<1>a. ASSUME UNCHANGED <<series, recorded, captured>> PROVE SeriesInv'
  <2>1. \A s \in Series : Live(s)' = Live(s)
    BY <1>a DEF Live
  <2> QED
    BY <1>0, <1>a, <2>1 DEF SeriesInv
<1>1. ASSUME NEW rank \in Levels, LogCall(rank) PROVE SeriesInv'
  BY <1>a, <1>1 DEF LogCall, registry
<1>2. ASSUME NEW r \in Recordings, Record(r[1], r[2], r[3]) PROVE SeriesInv'
  <2> DEFINE s == r[1]
             new == Recorded(s[1], Live(s), r[2], r[3])
             more == Append(recorded[s], <<r[2], r[3]>>)
  <2>1. s \in Series /\ r[2] \in Nat /\ r[3] \in Attrs
    BY SdkCoreAssumption DEF Attrs
  <2>2. /\ captured' = captured
        /\ \/ /\ \A t \in Series : Live(t)' = IF t = s THEN new ELSE Live(t)
              /\ recorded' = [recorded EXCEPT ![s] = Append(@, <<r[2], r[3]>>)]
           \/ /\ \A t \in Series : Live(t)' = Live(t)
              /\ recorded' = recorded
    BY <1>0, <1>2, <2>1, RecordSeries
  <2>3. Tally(s[1], captured.series[s], new, more)
    <3>1. s[1] \in Kinds /\ Live(s) \in ValueOf(s[1]) /\ captured.series[s] \in ValueOf(s[1])
          /\ recorded[s] \in Seq(Nat \X Attrs) /\ Tally(s[1], captured.series[s], Live(s), recorded[s])
      BY <1>0, <2>1
    <3> QED
      BY <2>1, <3>1, TallyRecorded
  <2>4. recorded \in [Series -> Seq(Nat \X Attrs)]
    BY <1>0 DEF SeriesType
  <2>5. CASE /\ \A t \in Series : Live(t)' = IF t = s THEN new ELSE Live(t)
             /\ recorded' = [recorded EXCEPT ![s] = Append(@, <<r[2], r[3]>>)]
    <3>1. \A t \in Series : recorded'[t] = IF t = s THEN more ELSE recorded[t]
      BY <2>4, <2>5
    <3> HIDE DEF s, new, more
    <3> QED
      BY <1>0, <2>2, <2>3, <2>5, <3>1 DEF SeriesInv
  <2>6. CASE (\A t \in Series : Live(t)' = Live(t)) /\ recorded' = recorded
    BY <1>0, <2>2, <2>6 DEF SeriesInv
  <2> QED
    BY <2>2, <2>5, <2>6
<1>3. ASSUME Capture PROVE SeriesInv'
  <2>1. /\ recorded' = recorded
        /\ \A t \in Series : /\ Live(t)' = Clean(t[1])
                             /\ captured'.series[t] = Merged(t[1], captured.series[t], Live(t))
    BY <1>0, <1>3, CaptureSeries
  <2>2. \A t \in Series : Tally(t[1], Merged(t[1], captured.series[t], Live(t)), Clean(t[1]), recorded[t])
    BY <1>0, TallyMerged
  <2> QED
    BY <2>1, <2>2 DEF SeriesInv
<1>4. ASSUME NEW key \in ConfigKeys, NEW subject \in Subjects, ConfigGet(key, subject) PROVE SeriesInv'
  BY <1>a, <1>4 DEF ConfigGet, registry
<1>5. ASSUME NEW subject \in Subjects, NEW metric \in Metrics, ExperimentGoal(subject, metric) PROVE SeriesInv'
  BY <1>a, <1>5 DEF ExperimentGoal, registry
<1>6. ASSUME NEW config \in Configs, ApplyConfig(config) PROVE SeriesInv'
  BY <1>a, <1>6 DEF ApplyConfig, registry
<1>7. ASSUME UNCHANGED vars PROVE SeriesInv'
  BY <1>a, <1>7 DEF vars, registry
<1> QED
  BY <1>1, <1>2, <1>3, <1>4, <1>5, <1>6, <1>7 DEF Next

\* The frames so far and the live value of a series make up what was recorded to it, wherever
\* the captures fell: for every set of series, every limit and every order of the calls.
THEOREM CapturesSum == Spec => []CapturesAddUp
<1>1. TypeOK /\ SeriesInv => CapturesAddUp
  <2> SUFFICES ASSUME TypeOK, SeriesInv PROVE CapturesAddUp
    OBVIOUS
  <2>1. ASSUME NEW s \in Series
        PROVE  AddsUp(s[1], Merged(s[1], captured.series[s], Live(s)), Live(s), recorded[s])
    <3>1. /\ s[1] \in Kinds
          /\ Live(s) \in ValueOf(s[1]) /\ captured.series[s] \in ValueOf(s[1])
          /\ recorded[s] \in Seq(Nat \X Attrs)
          /\ Tally(s[1], captured.series[s], Live(s), recorded[s])
      BY KindOf DEF TypeOK, SeriesType, SeriesInv
    <3> QED
      BY <3>1, TallyTotals
  <2> QED
    BY <2>1 DEF CapturesAddUp, AddsUp
<1> QED
  BY <1>1, TypeCorrect, SeriesInit, SeriesStep, PTL DEF Spec

=============================================================================
