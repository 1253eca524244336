-------------------------- MODULE RetentionProofs --------------------------
(***************************************************************************)
(* Theorems about the retention ledger, for every set of subjects, labels  *)
(* and batches, every window and every limit: what a report says is what   *)
(* the received events amount to, in whatever order they came.             *)
(*                                                                         *)
(* A report reads a few bits of the mask and one day of a conversion, and  *)
(* is not inductive by itself: the next event may shift the mask.  The     *)
(* invariant RInv says that the rows are exact: every bit of every mask    *)
(* (ActivityRows), every first conversion (ConversionRows).  Nothing is    *)
(* lost on the way because a refusal is for good: places and labels are    *)
(* never given back.                                                       *)
(***************************************************************************)
EXTENDS Retention, FiniteSetTheorems, TLAPS

KnownSubjects == {s \in Subjects : Known(s)}

(* A row that is exact for a set of days.                                  *)
Exact(u, days) ==
    /\ u.cohort \in days
    /\ \A d \in days : u.cohort <= d
    /\ u.active = {n \in 0 .. Window : u.cohort + n \in days}
ActivityRows ==
    \A s \in Subjects :
        IF users[s] = NoUser THEN DaysSeen(s) = {} \/ Refused(s)
        ELSE Exact(users[s], DaysSeen(s))

(* A first conversion that is exact for the conversions received.          *)
FirstOf(c, r) ==
    /\ c.day \in r.days
    /\ \A d \in r.days : c.day <= d
    /\ c.repeats + 1 = r.count
Unlisted(g) == g \notin goals /\ Cardinality(goals) >= MaxGoals
ConversionRows ==
    \A s \in Subjects, g \in Goals :
        IF conversions[s][g] = NoConversion
        THEN \/ reached[s][g].days = {} /\ reached[s][g].count = 0
             \/ Refused(s) \/ Unlisted(g)
        ELSE g \in goals /\ FirstOf(conversions[s][g], reached[s][g])

LabelsAreFinite == IsFiniteSet(channels) /\ IsFiniteSet(goals)
TouchesHaveUsers ==
    \A s \in Subjects : touches[s] # NoTouch => users[s] # NoUser

RInv ==
    /\ TypeOK
    /\ LabelsAreFinite /\ SubjectsAreCounted
    /\ ActivityRows /\ ConversionRows
    /\ TouchesHaveUsers /\ FirstTouchStands

-----------------------------------------------------------------------------
(* Days and rows.                                                          *)

(* The day of a timestamp is a day.                                        *)
LEMMA DaysAreNumbers ==
    ASSUME NEW t \in Nat PROVE DayOf(t) \in Nat
BY LimitsArePositive DEF DayOf

(* _activity merges a day into a row: the result is exact for the days     *)
(* received and that one, whether it is earlier, later or known.           *)
LEMMA MergedIsExact ==
    ASSUME NEW u \in Users, NEW days \in SUBSET Nat, NEW day \in Nat, Exact(u, days)
    PROVE  Merged(u, day) \in Users /\ Exact(Merged(u, day), days \cup {day})
<1> DEFINE first == Earlier(day, u.cohort)
           shifted == {n + (u.cohort - first) : n \in u.active}
           mask == (shifted \cup {day - first}) \cap (0 .. Window)
<1>1. u.cohort \in Nat /\ u.active \in SUBSET (0 .. Window) /\ Window \in Nat
    BY LimitsArePositive DEF Users
<1>2. first \in Nat /\ first <= day /\ first <= u.cohort /\ first \in {day, u.cohort}
    BY <1>1 DEF Earlier
<1>3. Merged(u, day) = [cohort |-> first, active |-> mask]
    BY AbsenceIsDistinct DEF Merged
<1>4. mask = {n \in 0 .. Window : first + n \in days \cup {day}}
  <2> HIDE DEF first
  <2>1. ASSUME NEW k \in mask PROVE k \in 0 .. Window /\ first + k \in days \cup {day}
    <3>1. k \in 0 .. Window
        OBVIOUS
    <3>2. CASE k = day - first
        BY <3>1, <3>2, <1>1, <1>2
    <3>3. CASE k \in shifted
      <4>1. PICK n \in u.active : k = n + (u.cohort - first)
          BY <3>3
      <4>2. u.cohort + n \in days /\ n \in Nat
          BY <1>1 DEF Exact
      <4> QED
          BY <4>1, <4>2, <3>1, <1>1, <1>2
    <3> QED
        BY <3>2, <3>3
  <2>2. ASSUME NEW k \in 0 .. Window, first + k \in days \cup {day} PROVE k \in mask
    <3>1. k \in Nat
        BY <1>1
    <3>2. CASE first + k = day
        BY <3>1, <3>2, <1>2
    <3>3. CASE first + k \in days
      <4>1. u.cohort <= first + k
          BY <3>3 DEF Exact
      <4> DEFINE n == first + k - u.cohort
      <4>2. n \in 0 .. Window
          BY <4>1, <3>1, <1>1, <1>2
      <4>3. u.cohort + n = first + k /\ k = n + (u.cohort - first)
          BY <4>2, <3>1, <1>1, <1>2
      <4>4. n \in u.active
          BY <4>2, <4>3, <3>3 DEF Exact
      <4> HIDE DEF n
      <4> QED
          BY <4>3, <4>4
    <3> QED
        BY <2>2, <3>2, <3>3
  <2> HIDE DEF mask
  <2> QED
      BY <2>1, <2>2
<1>5. first \in days \cup {day} /\ \A d \in days \cup {day} : first <= d
    BY <1>1, <1>2 DEF Exact
<1> HIDE DEF first, mask
<1>6. [cohort |-> first, active |-> mask] \in Users
    BY <1>2, <1>4 DEF Users
<1> QED
    BY <1>3, <1>4, <1>5, <1>6 DEF Exact

(* A first day is exact by itself.                                         *)
LEMMA FirstIsExact ==
    ASSUME NEW day \in Nat
    PROVE  Merged(NoUser, day) \in Users /\ Exact(Merged(NoUser, day), {day})
<1>1. Merged(NoUser, day) = [cohort |-> day, active |-> {0}]
    BY DEF Merged
<1>2. 0 \in 0 .. Window /\ Window \in Nat
    BY LimitsArePositive
<1>3. {n \in 0 .. Window : day + n \in {day}} = {0}
    BY <1>2
<1> QED
    BY <1>1, <1>2, <1>3 DEF Users, Exact

-----------------------------------------------------------------------------
(* What the next event is, and what receiving it adds.                     *)

(* The rest of a batch is a batch of events.                               *)
LEMMA ComingIsEvent ==
    ASSUME TypeOK, batch # <<>>
    PROVE  /\ Coming \in Events /\ Tail(batch) \in Seq(Events)
           /\ Coming.kind = "activity" => Coming \in Activities
           /\ Coming.kind = "conversion" => Coming \in Conversions
<1>1. batch \in Seq(Events)
    BY DEF TypeOK
<1>2. Coming \in Events /\ Tail(batch) \in Seq(Events)
    BY <1>1 DEF Coming
<1> QED
    BY <1>2 DEF Events, Activities, Conversions

(* An activity adds its day, and its touch if it has one, to what was seen *)
(* of its subject.                                                         *)
LEMMA ActivitySeen ==
    ASSUME TypeOK, NEW e \in Activities, seen' = seen \cup {e}, NEW s \in Subjects
    PROVE  /\ DaysSeen(s)' = IF s = e.subject THEN DaysSeen(s) \cup {DayOf(e.at)}
                             ELSE DaysSeen(s)
           /\ TouchesSeen(s)' = IF s = e.subject /\ e.channel # NoChannel
                                THEN TouchesSeen(s) \cup {e} ELSE TouchesSeen(s)
<1>1. {x \in seen : x.subject = s}' =
          IF s = e.subject THEN {x \in seen : x.subject = s} \cup {e}
          ELSE {x \in seen : x.subject = s}
    OBVIOUS
<1>2. DaysSeen(s)' = IF s = e.subject THEN DaysSeen(s) \cup {DayOf(e.at)}
                     ELSE DaysSeen(s)
    BY <1>1 DEF DaysSeen
<1>3. TouchesSeen(s)' = IF s = e.subject /\ e.channel # NoChannel
                        THEN TouchesSeen(s) \cup {e} ELSE TouchesSeen(s)
    BY DEF TouchesSeen
<1> QED
    BY <1>2, <1>3

(* The days seen of a subject are days, its touches have labels.           *)
LEMMA SeenIsTyped ==
    ASSUME TypeOK, NEW s \in Subjects
    PROVE  /\ DaysSeen(s) \in SUBSET Nat
           /\ \A e \in TouchesSeen(s) : e \in Activities /\ e.channel \in Channels
<1>1. \A e \in seen : e \in Activities /\ e.at \in Nat
    BY DEF TypeOK, Activities
<1>2. DaysSeen(s) \in SUBSET Nat
    BY <1>1, DaysAreNumbers DEF DaysSeen
<1>3. \A e \in TouchesSeen(s) : e \in Activities /\ e.channel \in Channels
    BY <1>1 DEF TouchesSeen, Activities
<1> QED
    BY <1>2, <1>3

-----------------------------------------------------------------------------
(* Places.                                                                 *)

(* A subject that is known or finds a place takes one at most, and those   *)
(* who were refused stay refused (_admit).                                 *)
LEMMA AdmissionCounts ==
    ASSUME TypeOK, SubjectsAreCounted, NEW s \in Subjects, Admissible(s),
           userCount' = Admitted(s),
           \A x \in Subjects : Known(x)' <=> Known(x) \/ x = s
    PROVE  /\ userCount' \in Nat
           /\ userCount' = Cardinality({x \in Subjects : Known(x)})'
           /\ userCount' <= MaxUsers
           /\ \A x \in Subjects : Refused(x) => x # s /\ Refused(x)'
<1>1. KnownSubjects \in SUBSET Subjects /\ IsFiniteSet(KnownSubjects)
    BY PeopleAreFinite, FS_Subset DEF KnownSubjects
<1>2. {x \in Subjects : Known(x)}' = KnownSubjects \cup {s}
    BY DEF KnownSubjects
<1>3. Cardinality(KnownSubjects \cup {s}) =
          IF s \in KnownSubjects THEN Cardinality(KnownSubjects)
          ELSE Cardinality(KnownSubjects) + 1
    BY <1>1, FS_AddElement
<1>4. userCount = Cardinality(KnownSubjects) /\ userCount <= MaxUsers
    BY DEF SubjectsAreCounted, KnownSubjects
<1>5. s \in KnownSubjects <=> Known(s)
    BY DEF KnownSubjects
<1>6. userCount \in Nat /\ MaxUsers \in Nat
    BY LimitsArePositive DEF TypeOK
<1>7. /\ userCount' \in Nat /\ userCount <= userCount' /\ userCount' <= MaxUsers
      /\ userCount' = Cardinality(KnownSubjects \cup {s})
    BY <1>3, <1>4, <1>5, <1>6 DEF Admitted, Admissible
<1>8. \A x \in Subjects : Refused(x) => x # s /\ Refused(x)'
    BY <1>6, <1>7 DEF Refused, Admissible
<1> QED
    BY <1>2, <1>7, <1>8

(* A label that finds a place is listed within the limit, and one that did *)
(* not never will be.                                                      *)
LEMMA ListingCounts ==
    ASSUME NEW labels, IsFiniteSet(labels), NEW label, NEW limit \in Nat,
           Cardinality(labels) <= limit, Registrable(labels, label, limit)
    PROVE  /\ IsFiniteSet(labels \cup {label})
           /\ Cardinality(labels \cup {label}) <= limit
           /\ Cardinality(labels) <= Cardinality(labels \cup {label})
           /\ \A x : x \notin labels /\ Cardinality(labels) >= limit =>
                     /\ x \notin labels \cup {label}
                     /\ Cardinality(labels \cup {label}) >= limit
<1>1. Cardinality(labels) \in Nat
    BY FS_CardinalityType
<1>2. /\ IsFiniteSet(labels \cup {label})
      /\ Cardinality(labels \cup {label}) =
             IF label \in labels THEN Cardinality(labels) ELSE Cardinality(labels) + 1
    BY FS_AddElement
<1>3. label \in labels \/ Cardinality(labels) < limit
    BY DEF Registrable
<1>4. label \in labels => labels \cup {label} = labels
    OBVIOUS
<1> QED
    BY <1>1, <1>2, <1>3, <1>4

-----------------------------------------------------------------------------
(* First touches, one subject at a time.                                   *)

Least(e, T) == \A x \in T : e.at < x.at \/ (e.at = x.at /\ e.channel <= x.channel)
OverCap(at, T) ==
    /\ Cardinality(channels) >= MaxChannels
    /\ \E e \in T : e.at = at /\ e.channel \notin channels
Stands(t, T) ==
    \E first \in T :
        /\ t.at = first.at /\ Least(first, T)
        /\ t.channel = first.channel \/ (t.channel = OVER_CAP /\ OverCap(first.at, T))

TouchStands(s) ==
    IF touches[s] = NoTouch THEN TouchesSeen(s) = {} \/ users[s] = NoUser
    ELSE Stands(touches[s], TouchesSeen(s))

(* The property, in these words, before and after a step.                  *)
LEMMA TouchesOneByOne ==
    /\ FirstTouchStands => \A s \in Subjects : TouchStands(s)
    /\ (\A s \in Subjects : TouchStands(s)') => FirstTouchStands'
<1>1. FirstTouchStands => \A s \in Subjects : TouchStands(s)
    BY DEF FirstTouchStands, TouchStands, Stands, Least, OverCap
<1>2. (\A s \in Subjects : TouchStands(s)') => FirstTouchStands'
    BY DEF FirstTouchStands, TouchStands, Stands, Least, OverCap
<1> QED
    BY <1>1, <1>2

(* A touch that does not come first leaves the first one standing, also    *)
(* when it ties with one that found no place.                              *)
LEMMA LaterTouchChangesNothing ==
    ASSUME NEW T \in SUBSET Activities, \A x \in T : x.channel \in Channels,
           NEW t \in Touches, Stands(t, T),
           NEW e \in Activities, e.channel \in Channels,
           ~(e.at < t.at), ~(e.at = t.at /\ e.channel < t.channel)
    PROVE  Stands(t, T \cup {e})
<1>1. PICK first \in T :
          /\ t.at = first.at /\ Least(first, T)
          /\ t.channel = first.channel \/ (t.channel = OVER_CAP /\ OverCap(first.at, T))
    BY DEF Stands
<1>2. /\ \A x \in T : x.at \in Nat /\ x.channel \in Nat
      /\ e.at \in Nat /\ e.channel \in Nat
  <2>1. \A x \in Activities : x.at \in Nat
      BY DEF Activities
  <2> QED
      BY <2>1, LabelsAreOrdered
<1>3. CASE e.at = first.at /\ e.channel < first.channel
  <2>1. Least(e, T \cup {e})
      BY <1>1, <1>2, <1>3 DEF Least
  <2>2. t.channel = OVER_CAP /\ OverCap(e.at, T \cup {e})
      BY <1>1, <1>2, <1>3 DEF OverCap
  <2> QED
      BY <2>1, <2>2, <1>1, <1>3 DEF Stands
<1>4. CASE ~(e.at = first.at /\ e.channel < first.channel)
  <2>1. Least(first, T \cup {e})
      BY <1>1, <1>2, <1>4 DEF Least
  <2>2. OverCap(first.at, T) => OverCap(first.at, T \cup {e})
      BY DEF OverCap
  <2> QED
      BY <2>1, <2>2, <1>1 DEF Stands
<1> QED
    BY <1>3, <1>4

(* A touch that comes before the one kept comes before all.                *)
LEMMA EarlierTouchIsLeast ==
    ASSUME NEW T \in SUBSET Activities, \A x \in T : x.channel \in Channels,
           NEW t \in Touches, Stands(t, T),
           NEW e \in Activities, e.channel \in Channels,
           e.at < t.at \/ (e.at = t.at /\ e.channel < t.channel)
    PROVE  Least(e, T \cup {e})
<1>1. PICK first \in T :
          /\ t.at = first.at /\ Least(first, T)
          /\ t.channel = first.channel \/ t.channel = OVER_CAP
    BY DEF Stands
<1>2. /\ \A x \in T : x.at \in Nat /\ x.channel \in Nat
      /\ e.at \in Nat /\ e.channel \in Nat \ {0}
    BY LabelsAreOrdered DEF Activities
<1> QED
    BY <1>1, <1>2 DEF Least, OVER_CAP

-----------------------------------------------------------------------------
(* One lemma for each action.                                              *)

(* A subject that finds no place leaves no trace but a count.              *)
LEMMA DropActivityRInv == RInv /\ DropActivity => RInv'
<1> SUFFICES ASSUME RInv, DropActivity PROVE RInv'
    OBVIOUS
<1> USE DEF RInv
<1> DEFINE e == Coming
<1>1. /\ batch # <<>> /\ e.kind = "activity" /\ seen' = seen \cup {e}
      /\ batch' = Tail(batch) /\ ~Admissible(e.subject)
      /\ dropped' = [dropped EXCEPT !.activity = @ + 1]
      /\ UNCHANGED <<salt, userCount, users, touches, conversions, channels, goals,
                     reached, events>>
    BY DEF DropActivity, Activity
<1>2. e \in Activities /\ batch' \in Seq(Events)
    BY <1>1, ComingIsEvent
<1>3. e.subject \in Subjects
    BY <1>2 DEF Activities
<1>4. TypeOK'
    BY <1>1, <1>2 DEF TypeOK
<1>5. \A s \in Subjects : (Known(s)' <=> Known(s)) /\ (Refused(s)' <=> Refused(s))
    BY <1>1 DEF Known, Refused
<1>6. LabelsAreFinite' /\ SubjectsAreCounted' /\ TouchesHaveUsers'
    BY <1>1 DEF LabelsAreFinite, SubjectsAreCounted, TouchesHaveUsers, Known
<1> HIDE DEF e
<1>7. \A s \in Subjects : s # e.subject => /\ DaysSeen(s)' = DaysSeen(s)
                                           /\ TouchesSeen(s)' = TouchesSeen(s)
    BY <1>1, <1>2, ActivitySeen
<1>8. userCount \in Nat /\ MaxUsers \in Nat
    BY LimitsArePositive DEF TypeOK
<1>9. Refused(e.subject) /\ users[e.subject] = NoUser
    BY <1>1, <1>8 DEF Refused, Admissible, Known
<1>10. ActivityRows'
    BY <1>1, <1>3, <1>5, <1>7, <1>9 DEF ActivityRows, Exact
<1>11. ConversionRows'
    BY <1>1, <1>5 DEF ConversionRows, Unlisted, FirstOf
<1>12. FirstTouchStands'
  <2>1. touches[e.subject] = NoTouch
      BY <1>3, <1>9 DEF TouchesHaveUsers
  <2>2. ASSUME NEW s \in Subjects PROVE TouchStands(s)'
    <3>1. TouchStands(s)
        BY TouchesOneByOne
    <3>2. CASE s = e.subject
        BY <3>2, <2>1, <1>1, <1>9 DEF TouchStands
    <3>3. CASE s # e.subject
        BY <3>1, <3>3, <1>1, <1>7 DEF TouchStands, Stands, OverCap, Least
    <3> QED
        BY <3>2, <3>3
  <2> QED
      BY <2>2, TouchesOneByOne
<1> QED
    BY <1>4, <1>6, <1>10, <1>11, <1>12

(* A limit that was reached stays reached for the labels that found no     *)
(* place, and so does the touch that stands for one.                       *)
LEMMA TouchesPersist ==
    ASSUME \A x : x \notin channels /\ Cardinality(channels) >= MaxChannels =>
                  x \notin channels' /\ Cardinality(channels') >= MaxChannels,
           NEW t, NEW T, Stands(t, T)
    PROVE  Stands(t, T)'
<1>1. PICK first \in T :
          /\ t.at = first.at /\ Least(first, T)
          /\ t.channel = first.channel \/ (t.channel = OVER_CAP /\ OverCap(first.at, T))
    BY DEF Stands
<1>2. OverCap(first.at, T) => OverCap(first.at, T)'
    BY DEF OverCap
<1> QED
    BY <1>1, <1>2 DEF Stands, Least

(* An activity with a touch that comes first is the touch that stands,     *)
(* under its label or, if that finds no place, under "(over_cap)".         *)
LEMMA FirstTouchIsKept ==
    ASSUME IsFiniteSet(channels), Cardinality(channels) <= MaxChannels,
           NEW T, NEW e \in T, Least(e, T), e.channel \in Channels,
           channels' = channels \cup ({Labelled(e)} \ {OVER_CAP}),
           NEW t, t = [channel |-> Labelled(e), at |-> e.at]
    PROVE  /\ Stands(t, T)'
           /\ Labelled(e) \in Channels \cup {OVER_CAP}
           /\ channels' \in SUBSET (channels \cup Channels)
           /\ IsFiniteSet(channels') /\ Cardinality(channels') <= MaxChannels
           /\ \A x : x \notin channels /\ Cardinality(channels) >= MaxChannels =>
                     x \notin channels' /\ Cardinality(channels') >= MaxChannels
<1>1. t.at = e.at /\ t.channel = Labelled(e)
    OBVIOUS
<1>2. Cardinality(channels) \in Nat /\ MaxChannels \in Nat
    BY LimitsArePositive, FS_CardinalityType
<1>3. e.channel # OVER_CAP
    BY LabelsAreOrdered DEF OVER_CAP
<1>4. CASE Registrable(channels, e.channel, MaxChannels)
  <2>1. Labelled(e) = e.channel /\ channels' = channels \cup {e.channel}
      BY <1>3, <1>4 DEF Labelled
  <2>2. Stands(t, T)'
      BY <2>1, <1>1 DEF Stands, Least
  <2>3. /\ IsFiniteSet(channels') /\ Cardinality(channels') <= MaxChannels
        /\ \A x : x \notin channels /\ Cardinality(channels) >= MaxChannels =>
                  x \notin channels' /\ Cardinality(channels') >= MaxChannels
    <3>1. /\ IsFiniteSet(channels \cup {e.channel})
          /\ Cardinality(channels \cup {e.channel}) <= MaxChannels
          /\ \A x : x \notin channels /\ Cardinality(channels) >= MaxChannels =>
                    /\ x \notin channels \cup {e.channel}
                    /\ Cardinality(channels \cup {e.channel}) >= MaxChannels
        BY <1>2, <1>4, ListingCounts
    <3> QED
        BY <3>1, <2>1
  <2> QED
      BY <2>1, <2>2, <2>3, <1>1
<1>5. CASE ~Registrable(channels, e.channel, MaxChannels)
  <2>1. Labelled(e) = OVER_CAP /\ channels' = channels
      BY <1>5 DEF Labelled
  <2>2. e.channel \notin channels /\ Cardinality(channels) >= MaxChannels
      BY <1>2, <1>5 DEF Registrable
  <2>3. OverCap(e.at, T)'
      BY <2>1, <2>2 DEF OverCap
  <2>4. Stands(t, T)'
      BY <2>1, <2>3, <1>1 DEF Stands, Least
  <2> QED
      BY <2>1, <2>4, <1>1, <1>2, <1>5
<1> QED
    BY <1>4, <1>5

(* An activity moves the cohort, the mask and the touch of its subject to  *)
(* what they are with it, and disturbs no one else's.                      *)
LEMMA RecordActivityRInv == RInv /\ RecordActivity => RInv'
<1> SUFFICES ASSUME RInv, RecordActivity PROVE RInv'
    OBVIOUS
<1> USE DEF RInv
<1>1. /\ batch # <<>> /\ Coming.kind = "activity" /\ seen' = seen \cup {Coming}
      /\ batch' = Tail(batch)
      /\ Admissible(Coming.subject) /\ userCount' = Admitted(Coming.subject)
      /\ users' = [users EXCEPT ![Coming.subject] = Merged(@, DayOf(Coming.at))]
      /\ UNCHANGED <<salt, conversions, goals, reached, events, dropped>>
    BY DEF RecordActivity, Activity
<1>2. Coming \in Activities /\ batch' \in Seq(Events)
    BY <1>1, ComingIsEvent
<1>3. PICK e \in Activities, s \in Subjects, day \in Nat :
          e = Coming /\ s = e.subject /\ day = DayOf(e.at)
  <2>1. Coming.subject \in Subjects /\ Coming.at \in Nat
      BY <1>2 DEF Activities
  <2> QED
      BY <2>1, <1>2, DaysAreNumbers
<1>4. /\ seen' = seen \cup {e} /\ Admissible(s) /\ userCount' = Admitted(s)
      /\ users' = [users EXCEPT ![s] = Merged(@, day)]
      /\ \/ /\ FirstTouch(e)
            /\ touches' = [touches EXCEPT ![s] = [channel |-> Labelled(e), at |-> e.at]]
            /\ channels' = channels \cup ({Labelled(e)} \ {OVER_CAP})
         \/ ~FirstTouch(e) /\ UNCHANGED <<touches, channels>>
    BY <1>1, <1>3 DEF RecordActivity
<1>typed. e.at \in Nat /\ (e.channel # NoChannel => e.channel \in Channels)
    BY <1>3 DEF Activities
<1>5. \A x \in Subjects :
          /\ DaysSeen(x)' = IF x = s THEN DaysSeen(x) \cup {day} ELSE DaysSeen(x)
          /\ TouchesSeen(x)' = IF x = s /\ e.channel # NoChannel
                               THEN TouchesSeen(x) \cup {e} ELSE TouchesSeen(x)
    BY <1>3, <1>4, ActivitySeen
<1>6. Merged(users[s], day) \in Users /\ Exact(Merged(users[s], day), DaysSeen(s)')
  <2>1. DaysSeen(s) \in SUBSET Nat /\ DaysSeen(s)' = DaysSeen(s) \cup {day}
      BY <1>5, SeenIsTyped
  <2>2. CASE users[s] = NoUser
    <3>1. ~Refused(s)
        BY <1>4, LimitsArePositive DEF Refused, Admissible, TypeOK
    <3>2. DaysSeen(s) = {}
        BY <3>1, <2>2 DEF ActivityRows
    <3>3. DaysSeen(s)' = {day}
        BY <3>2, <2>1
    <3> QED
        BY <3>3, <2>2, FirstIsExact
  <2>3. CASE users[s] # NoUser
    <3>1. users[s] \in Users
        BY <2>3 DEF TypeOK
    <3>2. Exact(users[s], DaysSeen(s))
        BY <2>3 DEF ActivityRows
    <3> QED
        BY <3>1, <3>2, <2>1, MergedIsExact
  <2> QED
      BY <2>2, <2>3
<1>7. /\ users' \in [Subjects -> Users \cup {NoUser}]
      /\ users'[s] = Merged(users[s], day) /\ users'[s] # NoUser
      /\ \A x \in Subjects : x # s => users'[x] = users[x]
    BY <1>4, <1>6, AbsenceIsDistinct DEF TypeOK
<1>8. \A x \in Subjects : Known(x)' <=> Known(x) \/ x = s
    BY <1>1, <1>7 DEF Known
<1>9. /\ userCount' \in Nat
      /\ userCount' = Cardinality({x \in Subjects : Known(x)})'
      /\ userCount' <= MaxUsers
      /\ \A x \in Subjects : Refused(x) => x # s /\ Refused(x)'
    BY <1>4, <1>8, AdmissionCounts
<1>10. ActivityRows'
    BY <1>5, <1>6, <1>7, <1>9 DEF ActivityRows, Exact
<1>11. ConversionRows'
    BY <1>1, <1>9 DEF ConversionRows, Unlisted, FirstOf
<1>12. TouchesHaveUsers'
  <2>1. \A x \in Subjects : x # s => touches'[x] = touches[x]
      BY <1>4 DEF TypeOK
  <2> QED
      BY <2>1, <1>7 DEF TouchesHaveUsers
<1>13. PICK T : T = TouchesSeen(s) \cup {e}
    OBVIOUS
<1>14. /\ T \in SUBSET Activities /\ TouchesSeen(s) \in SUBSET Activities
       /\ \A x \in TouchesSeen(s) : x.channel \in Channels
       /\ touches[s] # NoTouch =>
              touches[s] \in Touches /\ Stands(touches[s], TouchesSeen(s))
       /\ touches[s] = NoTouch => TouchesSeen(s) = {}
  <2>1. /\ TouchesSeen(s) \in SUBSET Activities
        /\ \A x \in TouchesSeen(s) : x.channel \in Channels
      BY SeenIsTyped
  <2>2. TouchStands(s)
      BY TouchesOneByOne
  <2>3. users[s] = NoUser => DaysSeen(s) = {}
      BY <1>4, LimitsArePositive DEF ActivityRows, Refused, Admissible, TypeOK
  <2>4. DaysSeen(s) = {} => TouchesSeen(s) = {}
      BY DEF DaysSeen, TouchesSeen
  <2> QED
      BY <2>1, <2>2, <2>3, <2>4, <1>13 DEF TouchStands, TypeOK
<1>15. /\ channels' \in SUBSET Channels /\ IsFiniteSet(channels')
       /\ Cardinality(channels') <= MaxChannels
       /\ touches' \in [Subjects -> Touches \cup {NoTouch}]
       /\ \A x \in Subjects : x # s => touches'[x] = touches[x]
       /\ \A x : x \notin channels /\ Cardinality(channels) >= MaxChannels =>
                 x \notin channels' /\ Cardinality(channels') >= MaxChannels
       /\ TouchStands(s)'
  <2>1. IsFiniteSet(channels) /\ Cardinality(channels) <= MaxChannels
      BY DEF LabelsAreFinite, SubjectsAreCounted
  <2>2. CASE FirstTouch(e)
    <3>1. e.channel \in Channels /\ TouchesSeen(s)' = T
        BY <2>2, <1>typed, <1>5, <1>13 DEF FirstTouch
    <3>2. Least(e, T)
      <4>1. CASE touches[s] = NoTouch
        <5>1. T = {e} /\ e.channel \in Nat
            BY <4>1, <3>1, <1>13, <1>14, LabelsAreOrdered
        <5> QED
            BY <5>1 DEF Least
      <4>2. CASE touches[s] # NoTouch
        <5>1. \/ e.at < touches[s].at
              \/ e.at = touches[s].at /\ e.channel < touches[s].channel
            BY <4>2, <2>2, <3>1, <1>3 DEF FirstTouch
        <5> QED
            BY <5>1, <4>2, <3>1, <1>13, <1>14, EarlierTouchIsLeast
      <4> QED
          BY <4>1, <4>2
    <3>3. PICK t : t = [channel |-> Labelled(e), at |-> e.at]
        OBVIOUS
    <3>4. /\ touches' = [touches EXCEPT ![s] = t]
          /\ channels' = channels \cup ({Labelled(e)} \ {OVER_CAP})
        BY <2>2, <3>3, <1>4
    <3>5. /\ Stands(t, T)' /\ Labelled(e) \in Channels \cup {OVER_CAP}
          /\ channels' \in SUBSET (channels \cup Channels)
          /\ IsFiniteSet(channels') /\ Cardinality(channels') <= MaxChannels
          /\ \A x : x \notin channels /\ Cardinality(channels) >= MaxChannels =>
                    x \notin channels' /\ Cardinality(channels') >= MaxChannels
        BY <2>1, <3>1, <3>2, <3>3, <3>4, <1>13, FirstTouchIsKept
    <3>6. t \in Touches
        BY <3>3, <3>5, <1>typed DEF Touches
    <3>7. /\ touches' \in [Subjects -> Touches \cup {NoTouch}] /\ touches'[s] = t
          /\ \A x \in Subjects : x # s => touches'[x] = touches[x]
        BY <3>4, <3>6 DEF TypeOK
    <3>8. TouchStands(s)'
        BY <3>1, <3>5, <3>6, <3>7, AbsenceIsDistinct DEF TouchStands
    <3>9. channels' \in SUBSET Channels
        BY <3>5 DEF TypeOK
    <3> QED
        BY <3>5, <3>7, <3>8, <3>9
  <2>3. CASE ~FirstTouch(e)
    <3>1. touches' = touches /\ channels' = channels
        BY <2>3, <1>4
    <3>2. CASE e.channel = NoChannel
      <4>1. TouchesSeen(s)' = TouchesSeen(s)
          BY <3>2, <1>5
      <4> QED
          BY <4>1, <3>1, <2>1, <1>14 DEF TouchStands, TypeOK, Stands, Least, OverCap
    <3>3. CASE e.channel # NoChannel
      <4>1. /\ touches[s] # NoTouch /\ e.channel \in Channels
            /\ TouchesSeen(s)' = T
          BY <2>3, <3>3, <1>3, <1>5, <1>typed, <1>13 DEF FirstTouch
      <4>2. /\ ~(e.at < touches[s].at)
            /\ ~(e.at = touches[s].at /\ e.channel < touches[s].channel)
          BY <2>3, <3>3, <4>1, <1>3 DEF FirstTouch
      <4>3. Stands(touches[s], T)
          BY <4>1, <4>2, <1>13, <1>14, LaterTouchChangesNothing
      <4> QED
          BY <4>1, <4>3, <3>1, <2>1 DEF TouchStands, TypeOK, Stands, Least, OverCap
    <3> QED
        BY <3>2, <3>3
  <2> QED
      BY <2>2, <2>3
<1>16. FirstTouchStands'
  <2>1. ASSUME NEW x \in Subjects PROVE TouchStands(x)'
    <3>1. CASE x = s
        BY <3>1, <1>15
    <3>2. CASE x # s
      <4>1. /\ touches'[x] = touches[x] /\ users'[x] = users[x]
            /\ TouchesSeen(x)' = TouchesSeen(x)
          BY <3>2, <1>5, <1>7, <1>15
      <4>2. TouchStands(x)
          BY TouchesOneByOne
      <4>3. PICK t, X : t = touches[x] /\ X = TouchesSeen(x)
          OBVIOUS
      <4>4. Stands(t, X) => Stands(t, X)'
          BY <1>15, TouchesPersist
      <4>5. CASE touches[x] = NoTouch
          BY <4>1, <4>2, <4>5 DEF TouchStands
      <4>6. CASE touches[x] # NoTouch
        <5>1. Stands(t, X)'
            BY <4>2, <4>3, <4>4, <4>6 DEF TouchStands
        <5> QED
            BY <5>1, <4>1, <4>3, <4>6 DEF TouchStands, Stands, Least, OverCap
      <4> QED
          BY <4>5, <4>6
    <3> QED
        BY <3>1, <3>2
  <2> QED
      BY <2>1, TouchesOneByOne
<1>17. TypeOK'
    BY <1>1, <1>2, <1>3, <1>4, <1>7, <1>9, <1>15 DEF TypeOK
<1>18. LabelsAreFinite' /\ SubjectsAreCounted'
    BY <1>1, <1>9, <1>15 DEF LabelsAreFinite, SubjectsAreCounted
<1> QED
    BY <1>10, <1>11, <1>12, <1>16, <1>17, <1>18

(* _conversion updates one first conversion, exactly.                      *)
LEMMA RepeatedIsExact ==
    ASSUME NEW c \in FirstGoals \cup {NoConversion}, NEW day \in Nat,
           NEW r \in [days : SUBSET Nat, count : Nat],
           IF c = NoConversion THEN r.days = {} /\ r.count = 0 ELSE FirstOf(c, r)
    PROVE  Repeated(c, day) \in FirstGoals /\ FirstOf(Repeated(c, day), Including(r, day))
<1>1. r.days \in SUBSET Nat /\ r.count \in Nat
      /\ Including(r, day).days = r.days \cup {day}
      /\ Including(r, day).count = r.count + 1
    BY DEF Including
<1>2. CASE c = NoConversion
  <2>1. Repeated(c, day) = [day |-> day, repeats |-> 0]
      BY <1>2 DEF Repeated
  <2> QED
      BY <2>1, <1>1, <1>2 DEF FirstOf, FirstGoals
<1>3. CASE c # NoConversion
  <2>1. c.day \in Nat /\ c.repeats \in Nat /\ FirstOf(c, r)
      BY <1>3 DEF FirstGoals
  <2>2. Repeated(c, day) = [day |-> Earlier(day, c.day), repeats |-> c.repeats + 1]
      BY <1>3 DEF Repeated
  <2> QED
      BY <2>1, <2>2, <1>1 DEF FirstOf, FirstGoals, Earlier
<1> QED
    BY <1>2, <1>3

(* What a conversion adds to the ghost.                                    *)
LEMMA ConversionReached ==
    ASSUME TypeOK, NEW s \in Subjects, NEW g \in Goals, NEW day \in Nat,
           reached' = [reached EXCEPT ![s][g] = Including(@, day)]
    PROVE  /\ reached' \in [Subjects -> [Goals -> [days : SUBSET Nat, count : Nat]]]
           /\ reached'[s][g] = Including(reached[s][g], day)
           /\ \A x \in Subjects, y \in Goals :
                 x # s \/ y # g => reached'[x][y] = reached[x][y]
<1>1. reached \in [Subjects -> [Goals -> [days : SUBSET Nat, count : Nat]]]
    BY DEF TypeOK
<1>2. Including(reached[s][g], day) \in [days : SUBSET Nat, count : Nat]
    BY <1>1 DEF Including
<1>3. PICK f : f = [reached[s] EXCEPT ![g] = Including(reached[s][g], day)]
    OBVIOUS
<1>4. /\ f \in [Goals -> [days : SUBSET Nat, count : Nat]]
      /\ f[g] = Including(reached[s][g], day)
      /\ \A y \in Goals : y # g => f[y] = reached[s][y]
    BY <1>1, <1>2, <1>3
<1>5. reached' = [reached EXCEPT ![s] = f]
    BY <1>3
<1> QED
    BY <1>1, <1>4, <1>5

(* The next conversion, by name.                                           *)
LEMMA ComingConversion ==
    ASSUME TypeOK, batch # <<>>, Conversion(Coming)
    PROVE  \E s \in Subjects, g \in Goals, day \in Nat :
              /\ s = Coming.subject /\ g = Coming.goal /\ day = DayOf(Coming.at)
              /\ reached' = [reached EXCEPT ![s][g] = Including(@, day)]
<1>1. Coming \in Conversions
    BY ComingIsEvent DEF Conversion
<1>2. Coming.subject \in Subjects /\ Coming.goal \in Goals /\ Coming.at \in Nat
    BY <1>1 DEF Conversions
<1>3. DayOf(Coming.at) \in Nat
    BY <1>2, DaysAreNumbers
<1> QED
    BY <1>2, <1>3 DEF Conversion

(* A conversion that finds no place for its subject or its goal is counted *)
(* as dropped, and no later one will be recorded either.                   *)
LEMMA DropConversionRInv == RInv /\ DropConversion => RInv'
<1> SUFFICES ASSUME RInv, DropConversion PROVE RInv'
    OBVIOUS
<1> USE DEF RInv
<1>1. /\ batch # <<>> /\ Conversion(Coming) /\ ~Convertible(Coming)
      /\ batch' = Tail(batch)
      /\ dropped' = [dropped EXCEPT !.conversions = @ + 1]
      /\ UNCHANGED <<salt, userCount, users, touches, conversions, channels, goals,
                     seen, events>>
    BY DEF DropConversion, Conversion
<1>2. PICK s \in Subjects, g \in Goals, day \in Nat :
          /\ s = Coming.subject /\ g = Coming.goal
          /\ reached' = [reached EXCEPT ![s][g] = Including(@, day)]
    BY <1>1, ComingConversion
<1>3. /\ reached' \in [Subjects -> [Goals -> [days : SUBSET Nat, count : Nat]]]
      /\ \A x \in Subjects, y \in Goals :
            x # s \/ y # g => reached'[x][y] = reached[x][y]
  <2> HIDE DEF RInv
  <2>1. TypeOK
      BY DEF RInv
  <2>2. reached' = [reached EXCEPT ![s][g] = Including(@, day)]
      BY <1>2
  <2> QED
      BY <2>1, <2>2, ConversionReached, Zenon
<1>4. batch' \in Seq(Events)
    BY <1>1, ComingIsEvent
<1>5. TypeOK'
    BY <1>1, <1>3, <1>4 DEF TypeOK
<1>6. \A x \in Subjects : (Known(x)' <=> Known(x)) /\ (Refused(x)' <=> Refused(x))
    BY <1>1 DEF Known, Refused
<1>7. LabelsAreFinite' /\ SubjectsAreCounted' /\ TouchesHaveUsers'
    BY <1>1 DEF LabelsAreFinite, SubjectsAreCounted, TouchesHaveUsers, Known
<1>8. ActivityRows'
    BY <1>1, <1>6 DEF ActivityRows, Exact, DaysSeen
<1>9. FirstTouchStands'
    BY <1>1 DEF FirstTouchStands, TouchesSeen
<1>10. Refused(s) \/ Unlisted(g)
  <2>1. userCount \in Nat /\ MaxUsers \in Nat /\ MaxGoals \in Nat
        /\ Cardinality(goals) \in Nat
      BY LimitsArePositive, FS_CardinalityType DEF TypeOK, LabelsAreFinite
  <2> QED
      BY <2>1, <1>1, <1>2
      DEF Convertible, Admissible, Registrable, Refused, Unlisted
<1>11. ConversionRows'
  <2> SUFFICES ASSUME NEW x \in Subjects, NEW y \in Goals
               PROVE (IF conversions[x][y] = NoConversion
                      THEN \/ reached[x][y].days = {} /\ reached[x][y].count = 0
                           \/ Refused(x) \/ Unlisted(y)
                      ELSE y \in goals /\ FirstOf(conversions[x][y], reached[x][y]))'
      BY DEF ConversionRows
  <2>1. IF conversions[x][y] = NoConversion
        THEN \/ reached[x][y].days = {} /\ reached[x][y].count = 0
             \/ Refused(x) \/ Unlisted(y)
        ELSE y \in goals /\ FirstOf(conversions[x][y], reached[x][y])
      BY DEF ConversionRows
  <2>2. CASE x = s /\ y = g
    <3>1. conversions[x][y] = NoConversion
        BY <2>1, <2>2, <1>10 DEF Refused, Unlisted, Known
    <3> QED
        BY <3>1, <2>2, <1>1, <1>6, <1>10 DEF Unlisted
  <2>3. CASE x # s \/ y # g
      BY <2>1, <2>3, <1>1, <1>3, <1>6 DEF Unlisted, FirstOf
  <2> QED
      BY <2>2, <2>3
<1> QED
    BY <1>5, <1>7, <1>8, <1>9, <1>11

(* A conversion that finds its places updates one first conversion.        *)
LEMMA RecordConversionRInv == RInv /\ RecordConversion => RInv'
<1> SUFFICES ASSUME RInv, RecordConversion PROVE RInv'
    OBVIOUS
<1>1. /\ batch # <<>> /\ Conversion(Coming) /\ Convertible(Coming)
      /\ batch' = Tail(batch) /\ userCount' = Admitted(Coming.subject)
      /\ goals' = goals \cup {Coming.goal}
      /\ conversions' = [conversions EXCEPT ![Coming.subject][Coming.goal] =
                            Repeated(@, DayOf(Coming.at))]
      /\ UNCHANGED <<salt, users, touches, channels, seen, events, dropped>>
    BY DEF RecordConversion, Conversion
<1>2. PICK s \in Subjects, g \in Goals, day \in Nat :
          /\ s = Coming.subject /\ g = Coming.goal /\ day = DayOf(Coming.at)
          /\ reached' = [reached EXCEPT ![s][g] = Including(@, day)]
    BY <1>1, ComingConversion DEF RInv
<1>3. /\ reached' \in [Subjects -> [Goals -> [days : SUBSET Nat, count : Nat]]]
      /\ reached'[s][g] = Including(reached[s][g], day)
      /\ \A x \in Subjects, y \in Goals :
            x # s \/ y # g => reached'[x][y] = reached[x][y]
  <2>1. TypeOK
      BY DEF RInv
  <2>2. reached' = [reached EXCEPT ![s][g] = Including(@, day)]
      BY <1>2
  <2> QED
      BY <2>1, <2>2, ConversionReached, Zenon
<1> USE DEF RInv
<1>4. batch' \in Seq(Events)
    BY <1>1, ComingIsEvent
<1>5. Admissible(s) /\ Registrable(goals, g, MaxGoals)
    BY <1>1, <1>2 DEF Convertible
<1>6. ~Refused(s) /\ ~Unlisted(g)
  <2>1. userCount \in Nat /\ MaxUsers \in Nat /\ MaxGoals \in Nat
        /\ Cardinality(goals) \in Nat
      BY LimitsArePositive, FS_CardinalityType DEF TypeOK, LabelsAreFinite
  <2> QED
      BY <2>1, <1>5 DEF Admissible, Registrable, Refused, Unlisted
<1>7. /\ conversions[s][g] \in FirstGoals \cup {NoConversion}
      /\ reached[s][g] \in [days : SUBSET Nat, count : Nat]
      /\ IF conversions[s][g] = NoConversion
         THEN reached[s][g].days = {} /\ reached[s][g].count = 0
         ELSE FirstOf(conversions[s][g], reached[s][g])
    BY <1>6 DEF TypeOK, ConversionRows
<1>8. PICK c, r : c = Repeated(conversions[s][g], day) /\ r = Including(reached[s][g], day)
    OBVIOUS
<1>9. c \in FirstGoals /\ FirstOf(c, r) /\ c # NoConversion
    BY <1>7, <1>8, RepeatedIsExact, AbsenceIsDistinct
<1>10. /\ conversions' \in [Subjects -> [Goals -> FirstGoals \cup {NoConversion}]]
       /\ conversions'[s][g] = c
       /\ \A x \in Subjects, y \in Goals :
             x # s \/ y # g => conversions'[x][y] = conversions[x][y]
  <2>1. conversions \in [Subjects -> [Goals -> FirstGoals \cup {NoConversion}]]
      BY DEF TypeOK
  <2>2. PICK f : f = [conversions[s] EXCEPT ![g] = c]
      OBVIOUS
  <2>3. /\ f \in [Goals -> FirstGoals \cup {NoConversion}] /\ f[g] = c
        /\ \A y \in Goals : y # g => f[y] = conversions[s][y]
      BY <2>1, <2>2, <1>9
  <2>4. conversions' = [conversions EXCEPT ![s] = f]
      BY <1>1, <1>2, <1>8, <2>2
  <2> QED
      BY <2>1, <2>3, <2>4
<1>11. \A x \in Subjects : Known(x)' <=> Known(x) \/ x = s
    BY <1>1, <1>9, <1>10 DEF Known
<1>12. /\ userCount' \in Nat
       /\ userCount' = Cardinality({x \in Subjects : Known(x)})'
       /\ userCount' <= MaxUsers
       /\ \A x \in Subjects : Refused(x) => x # s /\ Refused(x)'
    BY <1>1, <1>2, <1>5, <1>11, AdmissionCounts
<1>13. /\ goals' = goals \cup {g} /\ goals' \in SUBSET Goals
       /\ IsFiniteSet(goals') /\ Cardinality(goals') <= MaxGoals
       /\ \A y : Unlisted(y) => y # g /\ Unlisted(y)'
  <2>1. goals' = goals \cup {g}
      BY <1>1, <1>2
  <2>2. IsFiniteSet(goals) /\ Cardinality(goals) <= MaxGoals /\ MaxGoals \in Nat
      BY LimitsArePositive DEF LabelsAreFinite, SubjectsAreCounted
  <2>3. /\ IsFiniteSet(goals \cup {g}) /\ Cardinality(goals \cup {g}) <= MaxGoals
        /\ \A y : y \notin goals /\ Cardinality(goals) >= MaxGoals =>
                  /\ y \notin goals \cup {g}
                  /\ Cardinality(goals \cup {g}) >= MaxGoals
      BY <2>2, <1>5, ListingCounts
  <2> QED
      BY <2>1, <2>3 DEF Unlisted, TypeOK
<1>14. TypeOK'
    BY <1>1, <1>3, <1>4, <1>10, <1>12, <1>13 DEF TypeOK
<1>15. LabelsAreFinite' /\ SubjectsAreCounted' /\ TouchesHaveUsers'
    BY <1>1, <1>12, <1>13 DEF LabelsAreFinite, SubjectsAreCounted, TouchesHaveUsers
<1>16. ActivityRows'
    BY <1>1, <1>12 DEF ActivityRows, Exact, DaysSeen
<1>17. FirstTouchStands'
    BY <1>1 DEF FirstTouchStands, TouchesSeen
<1>18. ConversionRows'
  <2> SUFFICES ASSUME NEW x \in Subjects, NEW y \in Goals
               PROVE (IF conversions[x][y] = NoConversion
                      THEN \/ reached[x][y].days = {} /\ reached[x][y].count = 0
                           \/ Refused(x) \/ Unlisted(y)
                      ELSE y \in goals /\ FirstOf(conversions[x][y], reached[x][y]))'
      BY DEF ConversionRows
  <2>1. CASE x = s /\ y = g
      BY <2>1, <1>3, <1>8, <1>9, <1>10, <1>13 DEF FirstOf
  <2>2. CASE x # s \/ y # g
    <3>1. IF conversions[x][y] = NoConversion
          THEN \/ reached[x][y].days = {} /\ reached[x][y].count = 0
               \/ Refused(x) \/ Unlisted(y)
          ELSE y \in goals /\ FirstOf(conversions[x][y], reached[x][y])
        BY DEF ConversionRows
    <3>2. conversions'[x][y] = conversions[x][y] /\ reached'[x][y] = reached[x][y]
        BY <2>2, <1>3, <1>10
    <3> QED
        BY <3>1, <3>2, <1>12, <1>13 DEF FirstOf
  <2> QED
      BY <2>1, <2>2
<1> QED
    BY <1>14, <1>15, <1>16, <1>17, <1>18

(* A batch changes nothing but the salt before its first event.            *)
LEMMA IngestRInv == RInv /\ (\E b \in Batches : ingestBatch(b)) => RInv'
<1> SUFFICES ASSUME RInv, NEW b \in Batches, ingestBatch(b) PROVE RInv'
    OBVIOUS
<1> USE DEF RInv
<1>1. b \in Seq(Events) /\ b # <<>> /\ Len(b) \in Nat
    BY BatchesAreEvents
<1>2. /\ salt' = SaltOf(b) /\ batch' = b /\ events' = events + Len(b)
      /\ UNCHANGED <<userCount, users, touches, conversions, channels, goals, dropped,
                     seen, reached>>
    BY DEF ingestBatch
<1>3. SaltOf(b) \in Salts \cup {NoSalt}
  <2>1. b[1] \in Events
      BY <1>1
  <2>2. b[1].salt \in Salts
      BY <2>1 DEF Events, Activities, Conversions
  <2> QED
      BY <2>2 DEF SaltOf, TypeOK
<1>4. TypeOK'
    BY <1>1, <1>2, <1>3 DEF TypeOK
<1> QED
    BY <1>2, <1>4
    DEF LabelsAreFinite, SubjectsAreCounted, Known, ActivityRows, Exact, DaysSeen,
        ConversionRows, FirstOf, Refused, Unlisted, TouchesHaveUsers,
        FirstTouchStands, TouchesSeen

(* An empty ledger is exact.                                               *)
LEMMA InitRInv == Init => RInv
<1> SUFFICES ASSUME Init PROVE RInv
    OBVIOUS
<1> USE DEF Init
<1>1. TypeOK
  <2>1. <<>> \in Seq(Events)
      OBVIOUS
  <2> QED
      BY <2>1 DEF TypeOK
<1>2. IsFiniteSet({}) /\ Cardinality({}) = 0
    BY FS_EmptySet
<1>3. \A s \in Subjects : ~Known(s)
    BY DEF Known
<1>4. SubjectsAreCounted
  <2>1. {s \in Subjects : Known(s)} = {}
      BY <1>3
  <2> QED
    <3>1. 0 <= MaxUsers /\ 0 <= MaxChannels /\ 0 <= MaxGoals
        BY LimitsArePositive
    <3>2. userCount = 0 /\ channels = {} /\ goals = {}
        OBVIOUS
    <3> QED
        BY <2>1, <3>1, <3>2, <1>2 DEF SubjectsAreCounted
<1>5. ActivityRows
    BY DEF ActivityRows, DaysSeen
<1>6. ConversionRows
    BY DEF ConversionRows
<1>7. TouchesHaveUsers /\ FirstTouchStands
    BY DEF TouchesHaveUsers, FirstTouchStands
<1> QED
    BY <1>1, <1>2, <1>4, <1>5, <1>6, <1>7 DEF RInv, LabelsAreFinite

(* RInv is kept by every step of the ledger.                               *)
THEOREM LedgerIsExact == Spec => []RInv
<1>1. ASSUME RInv, UNCHANGED vars PROVE RInv'
  <2>1. TypeOK'
      BY <1>1 DEF RInv, TypeOK, vars, ledger
  <2>2. LabelsAreFinite' /\ SubjectsAreCounted' /\ TouchesHaveUsers'
      BY <1>1 DEF RInv, vars, ledger, LabelsAreFinite, SubjectsAreCounted, Known,
                  TouchesHaveUsers
  <2>3. ActivityRows'
      BY <1>1 DEF RInv, vars, ledger, ActivityRows, Exact, DaysSeen, Refused, Known
  <2>4. ConversionRows'
      BY <1>1 DEF RInv, vars, ledger, ConversionRows, FirstOf, Refused, Known, Unlisted
  <2>5. FirstTouchStands'
      BY <1>1 DEF RInv, vars, ledger, FirstTouchStands, TouchesSeen
  <2> QED
      BY <2>1, <2>2, <2>3, <2>4, <2>5 DEF RInv
<1>2. RInv /\ [Next]_vars => RInv'
    BY <1>1, IngestRInv, DropActivityRInv, RecordActivityRInv, DropConversionRInv,
       RecordConversionRInv DEF Next
<1> QED
    BY <1>2, InitRInv, PTL DEF Spec

-----------------------------------------------------------------------------
(* What a report says.                                                     *)

(* Every reachable ledger is well formed; no mask grows beyond its bits    *)
(* (_activity).                                                            *)
THEOREM TypeOKHolds == Spec => []TypeOK
<1>1. RInv => TypeOK
    BY DEF RInv
<1> QED
    BY <1>1, LedgerIsExact, PTL

(* user_count counts the subjects with a row of any kind, once each, and   *)
(* all three limits hold (_admit, _registerLabel).                         *)
THEOREM SubjectsAreCountedHolds == Spec => []SubjectsAreCounted
<1>1. RInv => SubjectsAreCounted
    BY DEF RInv
<1> QED
    BY <1>1, LedgerIsExact, PTL

(* The channel of a subject is that of its earliest touch, whatever the    *)
(* order of arrival, save what the limit took (_activity).                 *)
THEOREM FirstTouchStandsHolds == Spec => []FirstTouchStands
<1>1. RInv => FirstTouchStands
    BY DEF RInv
<1> QED
    BY <1>1, LedgerIsExact, PTL

(* A retention report is what the received activity amounts to (query).    *)
THEOREM ReturnsAreExactHolds == Spec => []ReturnsAreExact
<1>1. RInv => ReturnsAreExact
  <2> SUFFICES ASSUME RInv, NEW s \in Subjects
      PROVE IF users[s] = NoUser THEN DaysSeen(s) = {} \/ Refused(s)
            ELSE \E first \in DaysSeen(s) :
                    /\ \A d \in DaysSeen(s) : first <= d
                    /\ s \in CohortUsers(first)
                    /\ \A n \in ReturnDays :
                          s \in BackOn(first, n) <=> first + n \in DaysSeen(s)
      BY DEF ReturnsAreExact
  <2>1. CASE users[s] = NoUser
      BY <2>1 DEF RInv, ActivityRows
  <2>2. CASE users[s] # NoUser
    <3>1. Exact(users[s], DaysSeen(s))
        BY <2>2 DEF RInv, ActivityRows
    <3>2. s \in CohortUsers(users[s].cohort)
        BY <2>2 DEF CohortUsers
    <3>3. \A n \in ReturnDays : n \in 0 .. Window
        BY LimitsArePositive
    <3> QED
        BY <2>2, <3>1, <3>2, <3>3 DEF Exact, BackOn
  <2> QED
      BY <2>1, <2>2
<1> QED
    BY <1>1, LedgerIsExact, PTL

(* A report counts a conversion from its first day on, as an orphan while  *)
(* its subject has no activity, and its repeats (cohortQuery).             *)
THEOREM ConversionsAreExactHolds == Spec => []ConversionsAreExact
<1>1. RInv => ConversionsAreExact
  <2> SUFFICES ASSUME RInv, NEW s \in Subjects, NEW g \in Goals
      PROVE LET days == reached[s][g].days IN
            IF Known(s) /\ g \in goals
            THEN /\ users[s] # NoUser => \A n \in ReturnDays :
                       s \in ConvertedBy(users[s].cohort, g, n)
                           <=> \E d \in days : d <= users[s].cohort + n
                 /\ users[s] = NoUser => \A d \in days :
                       s \in Orphans(d, g) <=> \A x \in days : d <= x
                 /\ days # {} => conversions[s][g].repeats + 1 = reached[s][g].count
            ELSE conversions[s][g] = NoConversion
      BY DEF ConversionsAreExact
  <2>1. IF conversions[s][g] = NoConversion
        THEN \/ reached[s][g].days = {} /\ reached[s][g].count = 0
             \/ Refused(s) \/ Unlisted(g)
        ELSE g \in goals /\ FirstOf(conversions[s][g], reached[s][g])
      BY DEF RInv, ConversionRows
  <2>2. reached[s][g].days \in SUBSET Nat
      BY DEF RInv, TypeOK
  <2>3. CASE conversions[s][g] = NoConversion
    <3>1. Known(s) /\ g \in goals => reached[s][g].days = {}
        BY <2>1, <2>3 DEF Refused, Unlisted
    <3> QED
        BY <3>1, <2>3 DEF ConvertedBy
  <2>4. CASE conversions[s][g] # NoConversion
    <3>1. Known(s) /\ g \in goals
        BY <2>1, <2>4 DEF Known
    <3>2. FirstOf(conversions[s][g], reached[s][g])
        BY <2>1, <2>4
    <3>3. ASSUME users[s] # NoUser, NEW n \in ReturnDays
          PROVE  s \in ConvertedBy(users[s].cohort, g, n)
                     <=> \E d \in reached[s][g].days : d <= users[s].cohort + n
      <4>1. users[s].cohort \in Nat /\ n \in Nat /\ s \in CohortUsers(users[s].cohort)
          BY <3>3, LimitsArePositive DEF RInv, TypeOK, Users, CohortUsers
      <4>2. s \in ConvertedBy(users[s].cohort, g, n)
                <=> conversions[s][g].day <= users[s].cohort + n
          BY <4>1, <2>4 DEF ConvertedBy
      <4> QED
          BY <4>1, <4>2, <3>2, <2>2 DEF FirstOf
    <3>4. ASSUME users[s] = NoUser, NEW d \in reached[s][g].days
          PROVE  s \in Orphans(d, g) <=> \A x \in reached[s][g].days : d <= x
      <4>1. s \in Orphans(d, g) <=> conversions[s][g].day = d
          BY <3>4, <2>4 DEF Orphans
      <4> QED
          BY <4>1, <3>2, <2>2 DEF FirstOf
    <3> QED
        BY <3>1, <3>2, <3>3, <3>4 DEF FirstOf
  <2> QED
      BY <2>3, <2>4
<1> QED
    BY <1>1, LedgerIsExact, PTL
=============================================================================
