----------------------------- MODULE Retention -----------------------------
(***************************************************************************)
(* The retention ledger of one project (RetentionLedger): which subjects   *)
(* were active, on which days after their first one, through which channel *)
(* they came and which goals they reached.                                 *)
(*                                                                         *)
(* Clients deliver late, again and in any order, and three limits          *)
(* (subjects, channels, goals) cut in at a moment that depends on it.  The *)
(* ledger keeps no events, only a first day, a mask of active days, a      *)
(* first touch and a first conversion, all corrected as events come.       *)
(*                                                                         *)
(* A batch is one transaction in one synchronous call, taken here one      *)
(* event at a time; nothing else happens before it is done.  A label is a  *)
(* number, in the order of labels; "(over_cap)" sorts before every label.  *)
(***************************************************************************)
EXTENDS Integers, Sequences, FiniteSets

CONSTANTS
    Subjects,     \* subject hashes
    Salts,        \* fingerprints of a privacy salt
    Channels,
    Goals,
    DayMs,        \* 86_400_000
    Window,       \* the last day the mask has a bit for: 30
    ReturnDays,   \* RETURN_DAYS: 1, 7, 30
    MaxUsers,     \* retention.maxUsersPerProject
    MaxChannels,  \* retention.maxChannelsPerProject
    MaxGoals,     \* retention.maxGoalsPerProject
    Batches,      \* the retention events of an envelope, in order
    NoSalt, NoUser, NoTouch, NoConversion,
    MaxEvents     \* bound: events ingested

OVER_CAP == 0
NoChannel == -1
Activities == [kind : {"activity"}, subject : Subjects, salt : Salts, at : Nat,
               channel : Channels \cup {NoChannel}]
Conversions == [kind : {"conversion"}, subject : Subjects, salt : Salts, at : Nat,
                goal : Goals]
Events == Activities \cup Conversions

Users == [cohort : Nat, active : SUBSET (0 .. Window)]
Touches == [channel : Channels \cup {OVER_CAP}, at : Nat]
FirstGoals == [day : Nat, repeats : Nat]

ASSUME LabelsAreOrdered == Channels \subseteq Nat \ {0}
ASSUME PeopleAreFinite == IsFiniteSet(Subjects)
ASSUME LimitsArePositive ==
    /\ {DayMs, MaxUsers, MaxChannels, MaxGoals} \subseteq Nat \ {0}
    /\ Window \in Nat /\ ReturnDays \subseteq 1 .. Window
    /\ MaxEvents \in Nat
ASSUME BatchesAreEvents == Batches \subseteq Seq(Events) \ {<<>>}
ASSUME AbsenceIsDistinct ==
    /\ NoSalt \notin Salts /\ NoUser \notin Users
    /\ NoTouch \notin Touches /\ NoConversion \notin FirstGoals

VARIABLES
    salt,          \* retention_projects.salt_hash
    userCount,     \* retention_projects.user_count
    users,         \* retention_users
    touches,       \* retention_user_channels
    conversions,   \* retention_conversions
    channels,      \* retention_labels of kind channel
    goals,         \* retention_labels of kind goal
    dropped,       \* dropped_activity and dropped_conversions
    batch,         \* the rest of the batch that is being ingested
    seen,          \* ghost: the activities ingested, dropped ones too
    reached,       \* ghost: the days of the conversions ingested, and how many
    events         \* events ingested

ledger == <<salt, userCount, users, touches, conversions, channels, goals, dropped>>
vars == <<ledger, batch, seen, reached, events>>

TypeOK ==
    /\ salt \in Salts \cup {NoSalt}
    /\ userCount \in Nat
    /\ users \in [Subjects -> Users \cup {NoUser}]
    /\ touches \in [Subjects -> Touches \cup {NoTouch}]
    /\ conversions \in [Subjects -> [Goals -> FirstGoals \cup {NoConversion}]]
    /\ channels \in SUBSET Channels /\ goals \in SUBSET Goals
    /\ dropped \in [activity : Nat, conversions : Nat]
    /\ batch \in Seq(Events)
    /\ seen \in SUBSET Activities
    /\ reached \in [Subjects -> [Goals -> [days : SUBSET Nat, count : Nat]]]
    /\ events \in Nat

Init ==
    /\ salt = NoSalt
    /\ userCount = 0
    /\ users = [s \in Subjects |-> NoUser]
    /\ touches = [s \in Subjects |-> NoTouch]
    /\ conversions = [s \in Subjects |-> [g \in Goals |-> NoConversion]]
    /\ channels = {} /\ goals = {}
    /\ dropped = [activity |-> 0, conversions |-> 0]
    /\ batch = <<>>
    /\ seen = {}
    /\ reached = [s \in Subjects |-> [g \in Goals |-> [days |-> {}, count |-> 0]]]
    /\ events = 0

-----------------------------------------------------------------------------
DayOf(t) == t \div DayMs
Earlier(a, b) == IF a <= b THEN a ELSE b

(* A subject takes a place when its first row of either kind is written.   *)
Known(s) == users[s] # NoUser \/ \E g \in Goals : conversions[s][g] # NoConversion
Admissible(s) == Known(s) \/ userCount < MaxUsers
Admitted(s) == IF Known(s) THEN userCount ELSE userCount + 1
Registrable(labels, label, limit) == label \in labels \/ Cardinality(labels) < limit

(* The whole batch is one transaction: a salt that is not the project's    *)
(* throws and takes back what came before it.                              *)
SaltOf(b) == IF salt = NoSalt THEN b[1].salt ELSE salt
ingestBatch(b) ==
    /\ batch = <<>>
    /\ events + Len(b) <= MaxEvents
    /\ \A i \in DOMAIN b : b[i].salt = SaltOf(b)
    /\ salt' = SaltOf(b)
    /\ batch' = b
    /\ events' = events + Len(b)
    /\ UNCHANGED <<userCount, users, touches, conversions, channels, goals, dropped,
                   seen, reached>>

-----------------------------------------------------------------------------
(* _activity                                                               *)

(* Bit n of the mask is day cohort + n; an earlier day shifts the mask.    *)
(* Fault: the mask is kept as it is when the cohort moves.                 *)
Unshifted(u, day) ==
    IF u = NoUser THEN [cohort |-> day, active |-> {0}]
    ELSE LET first == Earlier(day, u.cohort) IN
         [cohort |-> first, active |-> (u.active \cup {day - first}) \cap (0 .. Window)]
Merged(u, day) ==
    IF u = NoUser THEN [cohort |-> day, active |-> {0}]
    ELSE LET first == Earlier(day, u.cohort) IN
         [cohort |-> first,
          active |-> ({n + (u.cohort - first) : n \in u.active} \cup {day - first})
                         \cap (0 .. Window)]

(* Fault: a later touch at the same moment wins.                           *)
LastOfTied(e) ==
    IF e.channel = NoChannel THEN FALSE
    ELSE IF touches[e.subject] = NoTouch THEN TRUE
    ELSE e.at <= touches[e.subject].at
FirstTouch(e) ==
    IF e.channel = NoChannel THEN FALSE
    ELSE IF touches[e.subject] = NoTouch THEN TRUE
    ELSE \/ e.at < touches[e.subject].at
         \/ e.at = touches[e.subject].at /\ e.channel < touches[e.subject].channel
Labelled(e) ==
    IF Registrable(channels, e.channel, MaxChannels) THEN e.channel ELSE OVER_CAP

Coming == Head(batch)
Activity(e) ==
    /\ e.kind = "activity"
    /\ seen' = seen \cup {e}
    /\ batch' = Tail(batch)
    /\ UNCHANGED <<salt, conversions, goals, reached, events>>

DropActivity ==
    /\ batch # <<>> /\ Activity(Coming)
    /\ ~Admissible(Coming.subject)
    /\ dropped' = [dropped EXCEPT !.activity = @ + 1]
    /\ UNCHANGED <<userCount, users, touches, channels>>

RecordActivity ==
    /\ batch # <<>> /\ Activity(Coming)
    /\ LET e == Coming
           s == e.subject IN
       /\ Admissible(s)
       /\ userCount' = Admitted(s)
       /\ users' = [users EXCEPT ![s] = Merged(@, DayOf(e.at))]
       /\ IF FirstTouch(e)
          THEN /\ touches' = [touches EXCEPT ![s] = [channel |-> Labelled(e), at |-> e.at]]
               /\ channels' = channels \cup ({Labelled(e)} \ {OVER_CAP})
          ELSE UNCHANGED <<touches, channels>>
    /\ UNCHANGED dropped

-----------------------------------------------------------------------------
(* _conversion                                                             *)

(* Fault: the last day is kept.                                            *)
LatestDay(c, day) ==
    IF c = NoConversion THEN [day |-> day, repeats |-> 0]
    ELSE [day |-> day, repeats |-> c.repeats + 1]
Repeated(c, day) ==
    IF c = NoConversion THEN [day |-> day, repeats |-> 0]
    ELSE [day |-> Earlier(day, c.day), repeats |-> c.repeats + 1]

Including(r, day) == [days |-> r.days \cup {day}, count |-> r.count + 1]
Conversion(e) ==
    /\ e.kind = "conversion"
    /\ reached' = [reached EXCEPT ![e.subject][e.goal] = Including(@, DayOf(e.at))]
    /\ batch' = Tail(batch)
    /\ UNCHANGED <<salt, users, touches, channels, seen, events>>
Convertible(e) == Admissible(e.subject) /\ Registrable(goals, e.goal, MaxGoals)

DropConversion ==
    /\ batch # <<>> /\ Conversion(Coming)
    /\ ~Convertible(Coming)
    /\ dropped' = [dropped EXCEPT !.conversions = @ + 1]
    /\ UNCHANGED <<userCount, conversions, goals>>

RecordConversion ==
    /\ batch # <<>> /\ Conversion(Coming)
    /\ LET e == Coming IN
       /\ Convertible(e)
       /\ userCount' = Admitted(e.subject)
       /\ goals' = goals \cup {e.goal}
       /\ conversions' = [conversions EXCEPT ![e.subject][e.goal] =
                             Repeated(@, DayOf(e.at))]
    /\ UNCHANGED dropped

Next ==
    \/ \E b \in Batches : ingestBatch(b)
    \/ DropActivity \/ RecordActivity \/ DropConversion \/ RecordConversion
Spec == Init /\ [][Next]_vars

-----------------------------------------------------------------------------
(* query: what a report says of the cohort of a day.                       *)
CohortUsers(day) ==
    {s \in Subjects : IF users[s] = NoUser THEN FALSE ELSE users[s].cohort = day}
BackOn(day, n) == {s \in CohortUsers(day) : n \in users[s].active}
ConvertedBy(day, goal, n) ==
    {s \in CohortUsers(day) :
        IF conversions[s][goal] = NoConversion THEN FALSE
        ELSE conversions[s][goal].day <= day + n}
Orphans(day, goal) ==
    {s \in Subjects : /\ users[s] = NoUser
                      /\ IF conversions[s][goal] = NoConversion THEN FALSE
                         ELSE conversions[s][goal].day = day}


-----------------------------------------------------------------------------
(* The limits hold, and every subject with a row of any kind takes one     *)
(* place (_admit), whichever kind came first.                              *)
SubjectsAreCounted ==
    /\ userCount = Cardinality({s \in Subjects : Known(s)})
    /\ userCount <= MaxUsers
    /\ Cardinality(channels) <= MaxChannels
    /\ Cardinality(goals) <= MaxGoals

(* What was received of a subject, whatever became of it.                  *)
DaysSeen(s) == {DayOf(e.at) : e \in {x \in seen : x.subject = s}}
TouchesSeen(s) == {e \in seen : e.subject = s /\ e.channel # NoChannel}
Refused(s) == ~Known(s) /\ userCount >= MaxUsers

(* A report gives the cohort and the returns that the received activity    *)
(* amounts to, in any order and with any repetition; a subject for which   *)
(* there was no place at its first event never gets one, so no cohort is   *)
(* built from a part of its activity.                                      *)
ReturnsAreExact ==
    \A s \in Subjects :
        IF users[s] = NoUser THEN DaysSeen(s) = {} \/ Refused(s)
        ELSE \E first \in DaysSeen(s) :
                /\ \A d \in DaysSeen(s) : first <= d
                /\ s \in CohortUsers(first)
                /\ \A n \in ReturnDays :
                      s \in BackOn(first, n) <=> first + n \in DaysSeen(s)

(* The channel of a subject is that of its earliest activity with one,     *)
(* ties to the lowest label.  Only the limit interferes: "(over_cap)"      *)
(* stands for a label that found no place, and keeps its tie.              *)
FirstTouchStands ==
    \A s \in Subjects :
        IF touches[s] = NoTouch THEN TouchesSeen(s) = {} \/ users[s] = NoUser
        ELSE \E first \in TouchesSeen(s) :
                /\ touches[s].at = first.at
                /\ \A e \in TouchesSeen(s) :
                      \/ first.at < e.at
                      \/ first.at = e.at /\ first.channel <= e.channel
                /\ \/ touches[s].channel = first.channel
                   \/ /\ touches[s].channel = OVER_CAP
                      /\ Cardinality(channels) >= MaxChannels
                      /\ \E e \in TouchesSeen(s) :
                            e.at = first.at /\ e.channel \notin channels

(* A report counts a subject as converted from its first conversion to a   *)
(* goal on, as an orphan of that day while it has no activity, and every   *)
(* further conversion as a repeat.                                         *)
ConversionsAreExact ==
    \A s \in Subjects, g \in Goals :
        LET days == reached[s][g].days IN
        IF Known(s) /\ g \in goals
        THEN /\ users[s] # NoUser => \A n \in ReturnDays :
                   s \in ConvertedBy(users[s].cohort, g, n)
                       <=> \E d \in days : d <= users[s].cohort + n
             /\ users[s] = NoUser => \A d \in days :
                   s \in Orphans(d, g) <=> \A x \in days : d <= x
             /\ days # {} => conversions[s][g].repeats + 1 = reached[s][g].count
        ELSE conversions[s][g] = NoConversion
=============================================================================
