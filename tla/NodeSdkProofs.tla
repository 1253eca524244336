--------------------------- MODULE NodeSdkProofs ---------------------------
(***************************************************************************)
(* Theorems about delivery in the Node SDK, for any number of callers and  *)
(* any sizes of the buffer and the pending frames, without the bounds on   *)
(* what is recorded or how a snapshot is split.                            *)
(*                                                                         *)
(* The invariant SInv adds to the properties: events age from stage to     *)
(* stage (InOrder), a loss counted after a flush() began stays in its      *)
(* window (LossesGrow), and whatever a call waits for is either ahead of   *)
(* the sync it awaits or in the stage that sync is in (Answers).           *)
(***************************************************************************)
EXTENDS NodeSdk, FiniteSetTheorems, SequenceTheorems, TLAPS

(* Snapshots, pending frames and the running sync hold consecutive ranges  *)
(* of events: later stages hold younger ones.                              *)
Below(A, B) == \A x \in A, y \in B : x < y
Sorted(frames) == \A i, j \in DOMAIN frames : i < j => Below(frames[i], frames[j])
InOrder ==
    /\ Below(received, Unsent)
    /\ Below(Rows(sync.rest), Rows(pending) \cup snapshot.rows \cup buffer)
    /\ Below(Rows(pending), snapshot.rows \cup buffer)
    /\ Below(snapshot.rows, buffer)
    /\ Sorted(sync.rest) /\ Sorted(pending)
    /\ received \cup Unsent \subseteq 1 .. recorded

(* A stage that is not running holds nothing.                              *)
Shape ==
    /\ IsFiniteSet(buffer) /\ IsFiniteSet(snapshot.rows)
    /\ ~snapshot.running => snapshot.rows = {}
    /\ sync.stage # "sending" => sync.rest = <<>>
    /\ sync.stage # "snapshot" => sync.awaits = "none"
    /\ sync.again => sync.empty
    /\ sync.awaits = "running" => snapshot.running

(* Losses are only ever added, and flush() starts a window of them.        *)
LossesGrow ==
    /\ \A k \in 1 .. recorded : lossesBefore[k] <= losses
    /\ fresh \subseteq 1 .. recorded /\ confirmed \subseteq 1 .. recorded
    /\ flushLosses <= losses
    /\ \A k \in fresh : flushLosses <= lossesBefore[k]
    /\ \A c \in Callers : calls[c] # NoCall =>
          /\ calls[c].covers \subseteq 1 .. recorded
          /\ \A k \in calls[c].covers : calls[c].losses <= lossesBefore[k]

(* The running sync will have sent all of S that is not lost: it has yet   *)
(* to take its last snapshot, or S has reached the stage it is in.         *)
Settled(S) ==
    \/ sync.again
    \/ /\ aligned
       /\ \/ sync.awaits = "queued"
          \/ /\ S \cap buffer = {}
             /\ \/ sync.awaits = "running"
                \/ /\ S \cap snapshot.rows = {}
                   /\ sync.stage = "snapshot" \/ S \cap Rows(pending) = {}

(* What awaits a sync awaits one that takes everything recorded before.    *)
Promised(ticket, S) ==
    IF ticket = 0 THEN sync.stage \in {"snapshot", "sending"} /\ Settled(S)
    ELSE ticket \in DOMAIN chain /\ chain[ticket] = "flush"
Answers ==
    /\ \A c \in Callers :
          calls[c] # NoCall =>
             IF calls[c].ticket = NoTicket THEN closing.stopped
             ELSE /\ Promised(calls[c].ticket, calls[c].covers)
                  /\ closing.stopped => calls[c].covers \subseteq 1 .. closing.after
    /\ closing.stopped /\ ~closing.done =>
          closing.ticket # NoTicket /\ Promised(closing.ticket, 1 .. closing.after)
    /\ closing.done /\ closing.delivered => (1 .. closing.after) \cap Unsent = {}

(* The final sync is the last one.                                         *)
Ending ==
    /\ ~closing.stopped => closing.ticket = NoTicket /\ ~closing.done
    /\ closing.stopped /\ ~closing.done => closing.ticket = Len(chain)
    /\ closing.done => closing.ticket = NoTicket /\ chain = <<>> /\ sync = NoSync
    /\ closing.after <= recorded

SInv ==
    /\ TypeOK /\ Shape
    /\ NoSilentLoss /\ InOrder
    /\ LossesGrow /\ Ending /\ Answers /\ FlushIsHonest

-----------------------------------------------------------------------------
(* Sequences of frames.                                                    *)

(* An event of a sequence of frames is in one of them.                     *)
LEMMA RowsAreInFrames ==
    ASSUME NEW f \in Frames, NEW x
    PROVE  x \in Rows(f) <=> \E i \in 1 .. Len(f) : x \in f[i]
BY DEF Rows, Frames

(* A typed sequence of frames holds natural numbers.                       *)
LEMMA RowsAreNumbers ==
    ASSUME NEW f \in Frames
    PROVE  Rows(f) \subseteq Nat
BY RowsAreInFrames DEF Frames

(* No frames, no events.                                                   *)
LEMMA NoFramesNoRows == <<>> \in Frames /\ Rows(<<>>) = {} /\ Sorted(<<>>)
BY DEF Rows, Frames, Sorted

(* What it means for frames to be sorted, event by event.                  *)
LEMMA SortedFrames ==
    ASSUME NEW f \in Frames
    PROVE  Sorted(f) <=> \A i, j \in 1 .. Len(f) :
                            i < j => \A x \in f[i], y \in f[j] : x < y
BY DEF Sorted, Below, Frames

(* Concatenation joins the events; it stays sorted if the halves are and   *)
(* every event of the first is older.                                      *)
LEMMA RowsOfBoth ==
    ASSUME NEW f \in Frames, NEW g \in Frames
    PROVE  /\ f \o g \in Frames
           /\ Rows(f \o g) = Rows(f) \cup Rows(g)
           /\ Sorted(f) /\ Sorted(g) /\ Below(Rows(f), Rows(g)) => Sorted(f \o g)
<1> DEFINE h == f \o g
<1>1. /\ h \in Frames /\ Len(h) = Len(f) + Len(g)
      /\ \A i \in 1 .. Len(h) : h[i] = IF i <= Len(f) THEN f[i] ELSE g[i - Len(f)]
      /\ Len(f) \in Nat /\ Len(g) \in Nat
    BY DEF Frames
<1>2. \A i \in 1 .. Len(g) : h[Len(f) + i] = g[i] /\ Len(f) + i \in 1 .. Len(h)
    BY <1>1
<1>3. ASSUME NEW x PROVE x \in Rows(h) <=> x \in Rows(f) \cup Rows(g)
    <2> HIDE DEF h
    <2>1. x \in Rows(h) => x \in Rows(f) \cup Rows(g)
        BY <1>1, RowsAreInFrames
    <2>2. x \in Rows(f) => x \in Rows(h)
        BY <1>1, RowsAreInFrames
    <2>3. x \in Rows(g) => x \in Rows(h)
        BY <1>1, <1>2, RowsAreInFrames
    <2> QED
        BY <2>1, <2>2, <2>3
<1>4. ASSUME Sorted(f), Sorted(g), Below(Rows(f), Rows(g)) PROVE Sorted(h)
    <2> HIDE DEF h
    <2> SUFFICES ASSUME NEW i \in 1 .. Len(h), NEW j \in 1 .. Len(h), i < j,
                        NEW x \in h[i], NEW y \in h[j]
                 PROVE  x < y
        BY <1>1, SortedFrames
    <2>1. CASE j <= Len(f)
        <3>1. i \in 1 .. Len(f) /\ j \in 1 .. Len(f) /\ x \in f[i] /\ y \in f[j]
            BY <1>1, <2>1
        <3> QED
            BY <1>4, <3>1, SortedFrames
    <2>2. CASE i > Len(f)
        <3> DEFINE p == i - Len(f)
                   q == j - Len(f)
        <3>1. /\ p \in 1 .. Len(g) /\ q \in 1 .. Len(g) /\ p < q
              /\ x \in g[p] /\ y \in g[q]
            BY <1>1, <2>2
        <3> HIDE DEF p, q
        <3> QED
            BY <1>4, <3>1, SortedFrames
    <2>3. CASE i <= Len(f) /\ j > Len(f)
        <3>1. i \in 1 .. Len(f) /\ x \in f[i]
            BY <1>1, <2>3
        <3>2. j - Len(f) \in 1 .. Len(g) /\ y \in g[j - Len(f)]
            BY <1>1, <2>3
        <3>3. x \in Rows(f) /\ y \in Rows(g)
            BY <3>1, <3>2, RowsAreInFrames
        <3> QED
            BY <1>4, <3>3 DEF Below
    <2> QED
        BY <1>1, <2>1, <2>2, <2>3
<1> QED
    BY <1>1, <1>3, <1>4

(* A cut leaves a front and a rest that together hold all events; the rest *)
(* of sorted frames is sorted and younger than the front.                  *)
LEMMA Cut ==
    ASSUME NEW f \in Frames, NEW k \in 0 .. Len(f)
    PROVE  LET front == SubSeq(f, 1, k)
               back == SubSeq(f, k + 1, Len(f)) IN
           /\ front \in Frames /\ back \in Frames
           /\ Len(back) = Len(f) - k
           /\ Rows(f) = Rows(front) \cup Rows(back)
           /\ Sorted(f) => Sorted(back) /\ Below(Rows(front), Rows(back))
<1> DEFINE front == SubSeq(f, 1, k)
           back == SubSeq(f, k + 1, Len(f))
<1>1. /\ front \in Frames /\ Len(front) = k
      /\ \A i \in 1 .. k : front[i] = f[i]
    BY DEF Frames
<1>2. /\ back \in Frames /\ Len(back) = Len(f) - k
      /\ \A i \in 1 .. Len(f) - k : back[i] = f[i + k]
    BY DEF Frames
<1>3. k \in Nat /\ Len(f) \in Nat /\ k <= Len(f)
    BY DEF Frames
<1>4. \A i \in 1 .. Len(f) : i \in 1 .. k \/ (i - k \in 1 .. Len(f) - k /\ f[i] = back[i - k])
    BY <1>2, <1>3
<1> HIDE DEF front, back
<1>5. ASSUME NEW x PROVE x \in Rows(f) <=> x \in Rows(front) \cup Rows(back)
    <2>1. x \in Rows(f) => x \in Rows(front) \cup Rows(back)
        BY <1>1, <1>2, <1>3, <1>4, RowsAreInFrames
    <2>2. x \in Rows(front) => x \in Rows(f)
        BY <1>1, <1>3, RowsAreInFrames
    <2>3. x \in Rows(back) => x \in Rows(f)
        BY <1>2, <1>3, RowsAreInFrames
    <2> QED
        BY <2>1, <2>2, <2>3
<1>6. ASSUME Sorted(f) PROVE Sorted(back)
    <2> SUFFICES ASSUME NEW i \in 1 .. Len(back), NEW j \in 1 .. Len(back), i < j,
                        NEW x \in back[i], NEW y \in back[j]
                 PROVE  x < y
        BY <1>2, SortedFrames
    <2>1. /\ i + k \in 1 .. Len(f) /\ j + k \in 1 .. Len(f) /\ i + k < j + k
          /\ x \in f[i + k] /\ y \in f[j + k]
        BY <1>2, <1>3
    <2> QED
        BY <1>6, <2>1, SortedFrames
<1>7. ASSUME Sorted(f) PROVE Below(Rows(front), Rows(back))
    <2> SUFFICES ASSUME NEW x \in Rows(front), NEW y \in Rows(back) PROVE x < y
        BY DEF Below
    <2>1. PICK i \in 1 .. k : x \in f[i]
        BY <1>1, RowsAreInFrames
    <2>2. PICK j \in 1 .. Len(f) - k : y \in f[j + k]
        BY <1>2, RowsAreInFrames
    <2> QED
        BY <1>3, <1>7, <2>1, <2>2 DEF Sorted, Below, Frames
<1> QED
    BY <1>1, <1>2, <1>5, <1>6, <1>7 DEF front, back

(* What fits in maxPendingFrames is the newest end, all of it unless the   *)
(* excess is counted.                                                      *)
LEMMA NewestFacts ==
    ASSUME NEW f \in Frames
    PROVE  /\ Excess(f) \in Nat
           /\ Newest(f) \in Frames /\ Len(Newest(f)) <= MaxPending
           /\ Rows(Newest(f)) \subseteq Rows(f)
           /\ Excess(f) = 0 => Rows(Newest(f)) = Rows(f)
           /\ Sorted(f) => Sorted(Newest(f))
<1>1. Len(f) \in Nat /\ MaxPending \in Nat
    BY SettingsArePositive DEF Frames
<1>2. Excess(f) \in 0 .. Len(f)
    BY <1>1 DEF Excess
<1>3. Len(f) - Excess(f) <= MaxPending
    BY <1>1 DEF Excess
<1>4. Excess(f) = 0 => Newest(f) = f
    BY <1>1 DEF Newest, Frames
<1>5. Newest(f) = SubSeq(f, Excess(f) + 1, Len(f))
    BY DEF Newest
<1>6. /\ Newest(f) \in Frames /\ Len(Newest(f)) = Len(f) - Excess(f)
      /\ Rows(Newest(f)) \subseteq Rows(f)
      /\ Sorted(f) => Sorted(Newest(f))
    BY <1>2, <1>5, Cut
<1> QED
    BY <1>2, <1>3, <1>4, <1>6

-----------------------------------------------------------------------------
(* Types.                                                                  *)

(* A request extends the chain or joins its end: what is awaited is there, *)
(* nothing else moves, and a flush joined makes its sync a flush.          *)
LEMMA EnqueuedFacts ==
    ASSUME TypeOK, NEW kind \in {"tick", "flush"}
    PROVE  LET new == Enqueued(kind) IN
           /\ new \in Seq({"bootstrap", "tick", "flush"})
           /\ Len(new) \in Nat \ {0} /\ Len(new) >= Len(chain)
           /\ kind = "flush" => new[Len(new)] = "flush"
           /\ \A i \in DOMAIN chain :
                 i \in DOMAIN new /\ (chain[i] = "flush" => new[i] = "flush")
<1>1. chain \in Seq({"bootstrap", "tick", "flush"})
    BY DEF TypeOK
<1>2. CASE ~Joins
    <2>1. Enqueued(kind) = Append(chain, kind)
        BY <1>2 DEF Enqueued
    <2> QED
        BY <1>1, <2>1
<1>3. CASE Joins
    <2>1. chain # <<>> /\ Len(chain) \in Nat \ {0}
        BY <1>1, <1>3 DEF Joins
    <2>2. Enqueued(kind) = IF kind = "flush" THEN [chain EXCEPT ![Len(chain)] = "flush"]
                           ELSE chain
        BY <1>3 DEF Enqueued
    <2> QED
        BY <1>1, <2>1, <2>2
<1> QED
    BY <1>2, <1>3

(* The end of a sync leaves the types.                                     *)
LEMMA FinishTypes ==
    ASSUME TypeOK, NEW delivered \in BOOLEAN, Finish(delivered)
    PROVE  /\ sync' = NoSync /\ sync' \in Syncs
           /\ calls' \in [Callers -> Calls \cup {NoCall}]
           /\ tick' \in Tickets /\ confirmed' \in SUBSET Nat
           /\ closing' \in [stopped : BOOLEAN, ticket : Tickets, done : BOOLEAN,
                            delivered : BOOLEAN, after : Nat]
<1>1. NoSync \in Syncs
    BY NoFramesNoRows DEF NoSync, Syncs
<1>2. \A c \in Callers : Awaits(c) => calls[c] \in Calls
    BY DEF TypeOK, Awaits
<1>3. \A c \in Callers : Awaits(c) => calls[c].covers \subseteq Nat
    BY <1>2 DEF Calls
<1>4. confirmed' \subseteq Nat
    BY <1>3 DEF Finish, TypeOK
<1>5. tick' \in Tickets
    BY DEF Finish, TypeOK, Rearmed, Tickets
<1>6. closing' \in [stopped : BOOLEAN, ticket : Tickets, done : BOOLEAN,
                    delivered : BOOLEAN, after : Nat]
    BY DEF Finish, TypeOK, Tickets
<1>7. calls' \in [Callers -> Calls \cup {NoCall}]
    BY DEF Finish, TypeOK
<1> QED
    BY <1>1, <1>4, <1>5, <1>6, <1>7 DEF Finish

(* So does the start of a pass.                                            *)
LEMMA PassTypes ==
    ASSUME TypeOK, NEW forced \in BOOLEAN, NEW again \in BOOLEAN, NEW empty \in BOOLEAN,
           Pass(forced, again, empty)
    PROVE  sync' \in Syncs /\ snapQueued' \in BOOLEAN
BY NoFramesNoRows DEF Pass, Awaited, Syncs, TypeOK

(* And one sync less to wait for.                                          *)
LEMMA LaterIsATicket ==
    ASSUME NEW t \in Tickets
    PROVE  /\ Later(t) \in Tickets
           /\ t = NoTicket => Later(t) = NoTicket
           /\ t \in Nat \ {0} => Later(t) \in Nat /\ Later(t) = t - 1
BY NamesAreDistinct DEF Later, Tickets

(* The frames of a snapshot.                                               *)
LEMMA SplitFacts ==
    ASSUME NEW rows \in SUBSET Nat, NEW f \in Splits(rows)
    PROVE  f \in Frames /\ Sorted(f) /\ Rows(f) \subseteq rows
<1>1. PICK k \in 1 .. MaxSplit : f \in [1 .. k -> SUBSET rows]
    BY DEF Splits
<1>2. f \in Frames
    <2>1. k \in Nat
        BY SettingsArePositive
    <2>2. SUBSET rows \subseteq SUBSET Nat
        OBVIOUS
    <2>3. f \in [1 .. k -> SUBSET Nat]
        BY <1>1, <2>2
    <2> QED
        BY <2>1, <2>3, SeqDef DEF Frames
<1>3. Rows(f) \subseteq rows
    BY <1>1 DEF Rows
<1>4. Sorted(f)
    BY DEF Splits, Sorted, Below
<1> QED
    BY <1>2, <1>3, <1>4

-----------------------------------------------------------------------------
(* The initial state.                                                      *)

(* Nothing is recorded, and the only sync nobody awaits.                   *)
LEMMA InitSInv == Init => SInv
<1> SUFFICES ASSUME Init PROVE SInv
    OBVIOUS
<1>1. TypeOK
    <2>1. pending \in Frames /\ Len(pending) <= MaxPending /\ sync \in Syncs
        BY NoFramesNoRows, SettingsArePositive DEF Init, NoSync, Syncs
    <2>2. calls \in [Callers -> Calls \cup {NoCall}]
        BY DEF Init
    <2>3. /\ tick \in Tickets
          /\ closing \in [stopped : BOOLEAN, ticket : Tickets, done : BOOLEAN,
                          delivered : BOOLEAN, after : Nat]
        BY DEF Init, Tickets
    <2>4. chain \in Seq({"bootstrap", "tick", "flush"}) /\ lossesBefore \in Seq(Nat)
          /\ Len(lossesBefore) = recorded
        BY DEF Init
    <2>5. snapshot \in [running : BOOLEAN, rows : SUBSET Nat]
        BY DEF Init, NoSnapshot
    <2> QED
        BY <2>1, <2>2, <2>3, <2>4, <2>5 DEF Init, TypeOK
<1>2. Unsent = {} /\ Rows(pending) = {} /\ Rows(sync.rest) = {}
    BY NoFramesNoRows DEF Init, NoSync, NoSnapshot, Unsent
<1>3. Shape
    BY FS_EmptySet DEF Init, Shape, NoSync, NoSnapshot
<1>4. NoSilentLoss /\ FlushIsHonest
    BY DEF Init, NoSilentLoss, FlushIsHonest
<1>5. InOrder
    BY <1>2, NoFramesNoRows DEF Init, InOrder, Below, NoSync, NoSnapshot
<1>6. LossesGrow /\ Ending /\ Answers
    BY DEF Init, LossesGrow, Ending, Answers
<1> QED
    BY <1>1, <1>3, <1>4, <1>5, <1>6 DEF SInv

-----------------------------------------------------------------------------
(* Steps that only move events along.                                      *)

Active == {"snapshot", "sending"}

(* A step that loses nothing uncounted, takes no event back to an earlier  *)
(* stage and leaves the calls alone keeps every promise made to them.      *)
LEMMA MovingKeepsPromises ==
    ASSUME SInv,
           UNCHANGED <<recorded, lossesBefore, fresh, confirmed, flushLosses, calls,
                       chain, closing>>,
           losses' \in Nat, losses' >= losses,
           received \subseteq received', Unsent' \subseteq Unsent,
           losses' > losses \/ Unsent \cup received \subseteq Unsent' \cup received',
           sync = NoSync => sync' = NoSync,
           sync.stage \in Active => sync'.stage \in Active,
           \A S \in SUBSET Nat : sync.stage \in Active /\ Settled(S) => Settled(S)'
    PROVE  NoSilentLoss' /\ LossesGrow' /\ Ending' /\ Answers' /\ FlushIsHonest'
<1>1. /\ lossesBefore \in Seq(Nat) /\ Len(lossesBefore) = recorded /\ losses \in Nat
      /\ recorded \in Nat
    BY DEF SInv, TypeOK
<1>2. \A k \in 1 .. recorded : lossesBefore[k] \in Nat /\ lossesBefore[k] <= losses
    BY <1>1 DEF SInv, LossesGrow
<1>3. NoSilentLoss'
    BY <1>1, <1>2 DEF SInv, NoSilentLoss
<1>4. LossesGrow'
    <2>1. \A k \in 1 .. recorded : lossesBefore[k] <= losses'
        BY <1>1, <1>2
    <2>2. flushLosses <= losses'
        BY <1>1 DEF SInv, TypeOK, LossesGrow
    <2> QED
        BY <2>1, <2>2 DEF SInv, LossesGrow
<1>5. Ending'
    BY DEF SInv, Ending
<1>6. FlushIsHonest'
    BY DEF SInv, FlushIsHonest
<1>7. Answers'
    <2>1. ASSUME NEW t, NEW S \in SUBSET Nat, Promised(t, S) PROVE Promised(t, S)'
        BY <2>1 DEF Promised, Active
    <2>2. \A c \in Callers : calls[c] # NoCall => calls[c].covers \in SUBSET Nat
        BY DEF SInv, TypeOK, Calls
    <2>3. 1 .. closing.after \in SUBSET Nat
        OBVIOUS
    <2>4. ASSUME NEW c \in Callers, calls[c] # NoCall
          PROVE  IF calls[c].ticket = NoTicket THEN closing.stopped
                 ELSE /\ Promised(calls[c].ticket, calls[c].covers)'
                      /\ closing.stopped => calls[c].covers \subseteq 1 .. closing.after
        <3>1. PICK t, S : t = calls[c].ticket /\ S = calls[c].covers
            OBVIOUS
        <3>2. /\ t = NoTicket => closing.stopped
              /\ t # NoTicket => Promised(t, S)
              /\ t # NoTicket /\ closing.stopped => S \subseteq 1 .. closing.after
            BY <2>4, <3>1 DEF SInv, Answers
        <3>3. t # NoTicket => Promised(t, S)'
            BY <2>1, <2>2, <2>4, <3>1, <3>2
        <3>4. t = calls'[c].ticket /\ S = calls'[c].covers
            BY <3>1
        <3> QED
            BY <3>1, <3>2, <3>3, <3>4 DEF Promised, Settled
    <2>5. ASSUME closing.stopped, ~closing.done
          PROVE  closing.ticket # NoTicket /\ Promised(closing.ticket, 1 .. closing.after)'
        <3>1. PICK t, S : t = closing.ticket /\ S = 1 .. closing.after
            OBVIOUS
        <3>2. t # NoTicket /\ Promised(t, S)
            BY <2>5, <3>1 DEF SInv, Answers
        <3>3. Promised(t, S)'
            BY <2>1, <2>3, <3>1, <3>2
        <3>4. t = closing'.ticket /\ S = 1 .. closing'.after
            BY <3>1
        <3> QED
            BY <3>1, <3>2, <3>3, <3>4 DEF Promised, Settled
    <2>6. closing.done /\ closing.delivered => (1 .. closing.after) \cap Unsent' = {}
        BY DEF SInv, Answers
    <2> QED
        BY <2>4, <2>5, <2>6 DEF Answers
<1> QED
    BY <1>3, <1>4, <1>5, <1>6, <1>7

(* What the invariant says of the types of the parts that hold events.     *)
LEMMA Parts ==
    ASSUME SInv
    PROVE  /\ pending \in Frames /\ sync \in Syncs /\ sync.rest \in Frames
           /\ Rows(pending) \subseteq Nat /\ Rows(sync.rest) \subseteq Nat
           /\ buffer \subseteq Nat /\ snapshot.rows \subseteq Nat /\ received \subseteq Nat
           /\ snapshot \in [running : BOOLEAN, rows : SUBSET Nat]
           /\ recorded \in Nat /\ losses \in Nat
BY RowsAreNumbers DEF SInv, TypeOK, Syncs

(* A sync that is not waiting for the queued snapshot is not disturbed.    *)
LEMMA AwaitsFacts ==
    ASSUME NEW s \in Syncs, NEW from \in {"queued", "running"}, NEW to \in {"running", "none"}
    PROVE  LET t == [s EXCEPT !.awaits = IF @ = from THEN to ELSE @] IN
           /\ t \in Syncs /\ t.rest = s.rest /\ t.stage = s.stage
           /\ t.again = s.again /\ t.empty = s.empty
           /\ t.awaits = IF s.awaits = from THEN to ELSE s.awaits
           /\ s.awaits = "none" => t = s
BY DEF Syncs

(* AggregateTimer only queues a snapshot.                                  *)
LEMMA AggregateTimerSInv == SInv /\ AggregateTimer => SInv'
<1> SUFFICES ASSUME SInv, AggregateTimer PROVE SInv'
    OBVIOUS
<1>1. /\ UNCHANGED <<recorded, lossesBefore, fresh, confirmed, flushLosses, calls, chain,
                     closing, losses, received, buffer, snapshot, pending, sync, aligned,
                     quiet, tick>>
      /\ snapQueued' = TRUE
    BY DEF AggregateTimer, callVars
<1>2. UNCHANGED Unsent
    BY <1>1 DEF Unsent, Rows
<1>3. TypeOK'
    BY <1>1 DEF SInv, TypeOK
<1>4. Shape' /\ InOrder'
    BY <1>1, <1>2 DEF SInv, Shape, InOrder, Sorted, Rows
<1>5. \A S \in SUBSET Nat : Settled(S) => Settled(S)'
    BY <1>1 DEF Settled, Rows
<1>6. NoSilentLoss' /\ LossesGrow' /\ Ending' /\ Answers' /\ FlushIsHonest'
    BY <1>1, <1>2, <1>5, Parts, MovingKeepsPromises
<1> QED
    BY <1>3, <1>4, <1>6 DEF SInv

(* SnapshotIdle releases a sync when there was nothing to capture.         *)
LEMMA SnapshotIdleSInv == SInv /\ SnapshotIdle => SInv'
<1> SUFFICES ASSUME SInv, SnapshotIdle PROVE SInv'
    OBVIOUS
<1>1. /\ UNCHANGED <<recorded, lossesBefore, fresh, confirmed, flushLosses, calls, chain,
                     closing, losses, received, buffer, snapshot, pending, aligned,
                     quiet, tick>>
      /\ snapQueued' = FALSE /\ ~snapshot.running
      /\ ~aligned \/ buffer = {}
      /\ sync' = [sync EXCEPT !.awaits = IF @ = "queued" THEN "none" ELSE @]
    BY DEF SnapshotIdle, callVars
<1>2. /\ sync' \in Syncs /\ sync'.rest = sync.rest /\ sync'.stage = sync.stage
      /\ sync'.again = sync.again /\ sync'.empty = sync.empty
      /\ sync'.awaits = IF sync.awaits = "queued" THEN "none" ELSE sync.awaits
      /\ sync.awaits = "none" => sync' = sync
    BY <1>1, Parts, AwaitsFacts
<1>3. UNCHANGED Unsent
    BY <1>1, <1>2 DEF Unsent, Rows
<1>4. TypeOK'
    BY <1>1, <1>2 DEF SInv, TypeOK
<1>5. Shape' /\ InOrder'
    BY <1>1, <1>2, <1>3 DEF SInv, Shape, InOrder, Sorted, Rows
<1>6. snapshot.rows = {}
    BY <1>1 DEF SInv, Shape
<1>7. sync.awaits = "queued" => sync.stage = "snapshot"
    BY DEF SInv, Shape
<1>8. \A S \in SUBSET Nat : Settled(S) => Settled(S)'
    BY <1>1, <1>2, <1>6, <1>7 DEF Settled, Rows
<1>9. sync = NoSync => sync' = NoSync
    BY <1>2 DEF NoSync
<1>10. NoSilentLoss' /\ LossesGrow' /\ Ending' /\ Answers' /\ FlushIsHonest'
    BY <1>1, <1>2, <1>3, <1>8, <1>9, Parts, MovingKeepsPromises
<1> QED
    BY <1>4, <1>5, <1>10 DEF SInv

(* SnapshotStart moves the buffer into the running snapshot.               *)
LEMMA SnapshotStartSInv == SInv /\ SnapshotStart => SInv'
<1> SUFFICES ASSUME SInv, SnapshotStart PROVE SInv'
    OBVIOUS
<1>1. /\ UNCHANGED <<recorded, lossesBefore, fresh, confirmed, flushLosses, calls, chain,
                     closing, losses, received, pending, aligned, tick>>
      /\ snapQueued' = FALSE /\ ~snapshot.running
      /\ snapshot' = [running |-> TRUE, rows |-> buffer] /\ buffer' = {}
      /\ sync' = [sync EXCEPT !.awaits = IF @ = "queued" THEN "running" ELSE @]
      /\ quiet' \in {quiet, quiet + 1}
    BY DEF SnapshotStart, callVars
<1>2. /\ sync' \in Syncs /\ sync'.rest = sync.rest /\ sync'.stage = sync.stage
      /\ sync'.again = sync.again /\ sync'.empty = sync.empty
      /\ sync'.awaits = IF sync.awaits = "queued" THEN "running" ELSE sync.awaits
      /\ sync.awaits = "none" => sync' = sync
    BY <1>1, Parts, AwaitsFacts
<1>3. snapshot.rows = {} /\ snapshot'.rows = buffer
    BY <1>1 DEF SInv, Shape
<1>4. UNCHANGED Unsent
    BY <1>1, <1>2, <1>3 DEF Unsent, Rows
<1>5. TypeOK'
    <2>1. quiet' \in Nat
        BY <1>1 DEF SInv, TypeOK
    <2>2. buffer \in SUBSET Nat
        BY DEF SInv, TypeOK
    <2>3. snapshot' \in [running : BOOLEAN, rows : SUBSET Nat]
        BY <1>1, <2>2
    <2> QED
        BY <1>1, <1>2, <2>1, <2>3 DEF SInv, TypeOK
<1>6. Shape'
    <2>1. sync.awaits = "queued" => sync.stage = "snapshot"
        BY DEF SInv, Shape
    <2> QED
        BY <1>1, <1>2, <2>1, FS_EmptySet DEF SInv, Shape
<1>7. InOrder'
    <2>1. UNCHANGED <<Rows(pending), Rows(sync.rest), Sorted(pending), Sorted(sync.rest)>>
        BY <1>1, <1>2 DEF Rows, Sorted
    <2> QED
        BY <1>1, <1>3, <1>4, <2>1 DEF SInv, InOrder, Below
<1>8. sync.awaits = "running" => snapshot.running
    BY DEF SInv, Shape
<1>9. \A S \in SUBSET Nat : Settled(S) => Settled(S)'
    BY <1>1, <1>2, <1>3, <1>8 DEF Settled, Rows
<1>10. sync = NoSync => sync' = NoSync
    BY <1>2 DEF NoSync
<1>11. NoSilentLoss' /\ LossesGrow' /\ Ending' /\ Answers' /\ FlushIsHonest'
    BY <1>1, <1>2, <1>4, <1>9, <1>10, Parts, MovingKeepsPromises
<1> QED
    BY <1>5, <1>6, <1>7, <1>11 DEF SInv

(* SnapshotDone moves what fits into the pending frames and counts the     *)
(* rest.                                                                   *)
LEMMA SnapshotDoneSInv == SInv /\ SnapshotDone => SInv'
<1> SUFFICES ASSUME SInv, SnapshotDone PROVE SInv'
    OBVIOUS
<1>1. /\ UNCHANGED <<recorded, lossesBefore, fresh, confirmed, flushLosses, calls, chain,
                     closing, received, buffer, aligned, quiet, snapQueued, tick>>
      /\ snapshot.running
      /\ snapshot' = [running |-> FALSE, rows |-> {}]
      /\ sync' = [sync EXCEPT !.awaits = IF @ = "running" THEN "none" ELSE @]
    BY DEF SnapshotDone, callVars, NoSnapshot, Released
<1>2. PICK f \in Splits(snapshot.rows) :
          /\ pending' = Newest(pending \o f)
          /\ losses' = losses + Dropped(pending \o f, snapshot.rows \ Rows(f))
    BY DEF SnapshotDone
<1> DEFINE both == pending \o f
           dropped == snapshot.rows \ Rows(f)
<1>3. f \in Frames /\ Sorted(f) /\ Rows(f) \subseteq snapshot.rows
    BY Parts, SplitFacts
<1>4. both \in Frames /\ Rows(both) = Rows(pending) \cup Rows(f) /\ Sorted(both)
    <2>1. Below(Rows(pending), Rows(f)) /\ Sorted(pending)
        BY <1>3 DEF SInv, InOrder, Below
    <2> QED
        BY <1>3, <2>1, Parts, RowsOfBoth
<1>5. /\ Excess(both) \in Nat
      /\ pending' \in Frames /\ Len(pending') <= MaxPending
      /\ Rows(pending)' \subseteq Rows(both)
      /\ Excess(both) = 0 => Rows(pending)' = Rows(both)
      /\ Sorted(pending)'
    <2>1. Rows(pending)' = Rows(Newest(both))
        BY <1>2 DEF Rows
    <2>2. Sorted(pending)' <=> Sorted(Newest(both))
        BY <1>2 DEF Sorted
    <2> QED
        BY <1>2, <1>4, <2>1, <2>2, NewestFacts
<1>6. Cardinality(dropped) \in Nat /\ (Cardinality(dropped) = 0 => dropped = {})
    <2>1. IsFiniteSet(dropped)
        BY FS_Subset DEF SInv, Shape
    <2> QED
        BY <2>1, FS_CardinalityType, FS_EmptySet
<1>7. losses' = losses + Excess(both) + Cardinality(dropped)
    BY <1>2, <1>5, <1>6, Parts DEF Dropped
<1> HIDE DEF both, dropped
<1>8. /\ losses' \in Nat /\ losses' >= losses
      /\ losses' > losses \/ (Excess(both) = 0 /\ dropped = {})
    <2>1. PICK e, n \in Nat : e = Excess(both) /\ n = Cardinality(dropped)
        BY <1>5, <1>6
    <2>2. losses \in Nat /\ losses' = losses + e + n
        BY <1>7, <2>1, Parts
    <2> QED
        BY <1>6, <2>1, <2>2
<1>9. /\ sync' \in Syncs /\ sync'.rest = sync.rest /\ sync'.stage = sync.stage
      /\ sync'.again = sync.again /\ sync'.empty = sync.empty
      /\ sync'.awaits = IF sync.awaits = "running" THEN "none" ELSE sync.awaits
      /\ sync.awaits = "none" => sync' = sync
    BY <1>1, Parts, AwaitsFacts
<1>10. UNCHANGED Rows(sync.rest) /\ UNCHANGED Sorted(sync.rest)
    BY <1>9 DEF Rows, Sorted
<1>11. Rows(pending)' \subseteq Rows(pending) \cup snapshot.rows
    BY <1>3, <1>4, <1>5
<1>12. Unsent' \subseteq Unsent /\ Unsent' \subseteq 1 .. recorded
    BY <1>1, <1>10, <1>11 DEF Unsent, SInv, InOrder
<1>13. Excess(both) = 0 /\ dropped = {} => Unsent \subseteq Unsent'
    BY <1>1, <1>4, <1>5, <1>10 DEF Unsent, dropped
<1>14. TypeOK'
    <2>1. snapshot' \in [running : BOOLEAN, rows : SUBSET Nat]
        BY <1>1
    <2> QED
        BY <1>1, <1>5, <1>8, <1>9, <2>1 DEF SInv, TypeOK
<1>15. Shape'
    BY <1>1, <1>9, FS_EmptySet DEF SInv, Shape
<1>16. InOrder'
    BY <1>1, <1>5, <1>10, <1>11, <1>12 DEF SInv, InOrder, Below
<1>17. sync.awaits = "running" => sync.stage = "snapshot"
    BY DEF SInv, Shape
<1>18. \A S \in SUBSET Nat : Settled(S) => Settled(S)'
    BY <1>1, <1>9, <1>11, <1>17 DEF Settled
<1>19. sync = NoSync => sync' = NoSync
    BY <1>9 DEF NoSync
<1>20. NoSilentLoss' /\ LossesGrow' /\ Ending' /\ Answers' /\ FlushIsHonest'
    BY <1>1, <1>8, <1>9, <1>12, <1>13, <1>18, <1>19, MovingKeepsPromises
<1> QED
    BY <1>14, <1>15, <1>16, <1>20 DEF SInv

(* SnapshotFails gives up a snapshot and counts a loss.                    *)
LEMMA SnapshotFailsSInv == SInv /\ SnapshotFails => SInv'
<1> SUFFICES ASSUME SInv, SnapshotFails PROVE SInv'
    OBVIOUS
<1>1. /\ UNCHANGED <<recorded, lossesBefore, fresh, confirmed, flushLosses, calls, chain,
                     closing, received, buffer, pending, aligned, quiet, snapQueued, tick>>
      /\ losses' = losses + 1
      /\ snapshot' = [running |-> FALSE, rows |-> {}]
      /\ sync' = [sync EXCEPT !.awaits = IF @ = "running" THEN "none" ELSE @]
    BY DEF SnapshotFails, callVars, NoSnapshot, Released
<1>2. /\ sync' \in Syncs /\ sync'.rest = sync.rest /\ sync'.stage = sync.stage
      /\ sync'.again = sync.again /\ sync'.empty = sync.empty
      /\ sync'.awaits = IF sync.awaits = "running" THEN "none" ELSE sync.awaits
      /\ sync.awaits = "none" => sync' = sync
    BY <1>1, Parts, AwaitsFacts
<1>3. UNCHANGED <<Rows(pending), Rows(sync.rest), Sorted(pending), Sorted(sync.rest)>>
    BY <1>1, <1>2 DEF Rows, Sorted
<1>4. Unsent' \subseteq Unsent
    BY <1>1, <1>3 DEF Unsent
<1>5. TypeOK'
    <2>1. snapshot' \in [running : BOOLEAN, rows : SUBSET Nat] /\ losses' \in Nat
        BY <1>1, Parts
    <2> QED
        BY <1>1, <1>2, <2>1 DEF SInv, TypeOK
<1>6. Shape'
    BY <1>1, <1>2, FS_EmptySet DEF SInv, Shape
<1>7. InOrder'
    BY <1>1, <1>3, <1>4 DEF SInv, InOrder, Below
<1>8. sync.awaits = "running" => sync.stage = "snapshot"
    BY DEF SInv, Shape
<1>9. \A S \in SUBSET Nat : Settled(S) => Settled(S)'
    BY <1>1, <1>2, <1>3, <1>8 DEF Settled
<1>10. sync = NoSync => sync' = NoSync
    BY <1>2 DEF NoSync
<1>11. NoSilentLoss' /\ LossesGrow' /\ Ending' /\ Answers' /\ FlushIsHonest'
    BY <1>1, <1>2, <1>4, <1>9, <1>10, Parts, MovingKeepsPromises
<1> QED
    BY <1>5, <1>6, <1>7, <1>11 DEF SInv

(* TakePending moves the pending frames into the running sync.             *)
LEMMA TakePendingSInv == SInv /\ TakePending => SInv'
<1> SUFFICES ASSUME SInv, TakePending PROVE SInv'
    OBVIOUS
<1>1. /\ UNCHANGED <<recorded, lossesBefore, fresh, confirmed, flushLosses, calls, chain,
                     closing, received, buffer, snapshot, aligned, quiet, snapQueued, tick,
                     losses>>
      /\ pending' = <<>>
      /\ sync.stage = "snapshot" /\ sync.awaits = "none"
      /\ sync' = [sync EXCEPT !.stage = "sending", !.rest = pending]
    BY DEF TakePending, callVars, snapVars
<1>2. /\ sync' \in Syncs /\ sync'.rest = pending /\ sync'.stage = "sending"
      /\ sync'.again = sync.again /\ sync'.empty = sync.empty /\ sync'.awaits = "none"
    BY <1>1, Parts DEF Syncs
<1>3. sync.rest = <<>> /\ Rows(sync.rest) = {}
    BY <1>1, NoFramesNoRows DEF SInv, Shape
<1>4. /\ Rows(pending)' = {} /\ Rows(sync.rest)' = Rows(pending)
      /\ Sorted(pending)' /\ (Sorted(sync.rest)' <=> Sorted(pending))
    <2>1. Rows(pending)' = Rows(<<>>) /\ (Sorted(pending)' <=> Sorted(<<>>))
        BY <1>1 DEF Rows, Sorted
    <2>2. Rows(sync.rest)' = Rows(pending) /\ (Sorted(sync.rest)' <=> Sorted(pending))
        BY <1>2 DEF Rows, Sorted
    <2> QED
        BY <2>1, <2>2, NoFramesNoRows
<1>5. UNCHANGED Unsent
    BY <1>1, <1>3, <1>4 DEF Unsent
<1>6. TypeOK'
    BY <1>1, <1>2, NoFramesNoRows, SettingsArePositive DEF SInv, TypeOK
<1>7. Shape'
    BY <1>1, <1>2 DEF SInv, Shape
<1>8. InOrder'
    BY <1>1, <1>3, <1>4, <1>5 DEF SInv, InOrder, Below
<1>9. \A S \in SUBSET Nat : Settled(S) => Settled(S)'
    BY <1>1, <1>2, <1>4 DEF Settled
<1>10. sync # NoSync
    BY <1>1 DEF NoSync
<1>11. sync'.stage \in Active
    BY <1>2 DEF Active
<1>12. NoSilentLoss' /\ LossesGrow' /\ Ending' /\ Answers' /\ FlushIsHonest'
    BY <1>1, <1>2, <1>5, <1>9, <1>10, <1>11, Parts, MovingKeepsPromises
<1> QED
    BY <1>6, <1>7, <1>8, <1>12 DEF SInv

(* PostNext takes the first frames of the rest to the server.              *)
LEMMA PostNextSInv == SInv /\ (\E k \in Envelopes : PostNext(k)) => SInv'
<1> SUFFICES ASSUME SInv, NEW k \in Envelopes, PostNext(k) PROVE SInv'
    OBVIOUS
<1>1. /\ UNCHANGED <<recorded, lossesBefore, fresh, confirmed, flushLosses, calls, chain,
                     closing, buffer, snapshot, pending, quiet, snapQueued, tick, losses>>
      /\ sync.stage = "sending"
      /\ received' = received \cup Sent(k) /\ aligned' = TRUE
      /\ sync' = [sync EXCEPT !.rest = SubSeq(sync.rest, k + 1, Len(sync.rest))]
    BY DEF PostNext, callVars, snapVars
<1>2. k \in 0 .. Len(sync.rest)
    BY DEF Envelopes
<1> DEFINE back == SubSeq(sync.rest, k + 1, Len(sync.rest))
<1>3. /\ back \in Frames
      /\ Rows(sync.rest) = Sent(k) \cup Rows(back)
      /\ Sorted(sync.rest) => Sorted(back) /\ Below(Sent(k), Rows(back))
    BY <1>2, Parts, Cut DEF Sent
<1>4. sync' = [sync EXCEPT !.rest = back]
    BY <1>1
<1> HIDE DEF back
<1>5. /\ sync' \in Syncs /\ sync'.rest = back /\ sync'.stage = "sending"
      /\ sync'.again = sync.again /\ sync'.empty = sync.empty
      /\ sync'.awaits = sync.awaits
    BY <1>1, <1>3, <1>4, Parts DEF Syncs
<1>6. /\ UNCHANGED <<Rows(pending), Sorted(pending)>>
      /\ Rows(sync.rest)' = Rows(back) /\ (Sorted(sync.rest)' <=> Sorted(back))
    BY <1>1, <1>5 DEF Rows, Sorted
<1>7. /\ Unsent = Unsent' \cup Sent(k)
      /\ Sent(k) \subseteq Nat
    BY <1>1, <1>3, <1>6, Parts DEF Unsent
<1>8. TypeOK'
    BY <1>1, <1>5, <1>7 DEF SInv, TypeOK
<1>9. Shape'
    BY <1>1, <1>5 DEF SInv, Shape
<1>10. InOrder'
    <2>1. Below(Sent(k), Unsent')
        BY <1>1, <1>3, <1>6 DEF Unsent, SInv, InOrder, Below
    <2>2. Below(received', Unsent')
        BY <1>1, <1>7, <2>1 DEF SInv, InOrder, Below
    <2> QED
        BY <1>1, <1>3, <1>6, <1>7, <2>2 DEF SInv, InOrder, Below
<1>11. \A S \in SUBSET Nat : Settled(S) => Settled(S)'
    BY <1>1, <1>5, <1>6 DEF Settled
<1>12. sync # NoSync
    BY <1>1 DEF NoSync
<1>13. sync'.stage \in Active
    BY <1>5 DEF Active
<1>14. NoSilentLoss' /\ LossesGrow' /\ Ending' /\ Answers' /\ FlushIsHonest'
    BY <1>1, <1>5, <1>7, <1>11, <1>12, <1>13, Parts, MovingKeepsPromises
<1> QED
    BY <1>8, <1>9, <1>10, <1>14 DEF SInv

-----------------------------------------------------------------------------
(* Steps that end a sync.                                                  *)

(* A call that awaits the running sync has every event it covers settled.  *)
LEMMA AwaitedIsSettled ==
    ASSUME SInv, NEW c \in Callers, Awaits(c)
    PROVE  /\ calls[c] \in Calls /\ calls[c].covers \subseteq 1 .. recorded
           /\ sync.stage \in Active /\ Settled(calls[c].covers)
<1>1. calls[c] # NoCall /\ calls[c].ticket = 0
    BY DEF Awaits
<1>2. calls[c] \in Calls /\ calls[c].covers \subseteq 1 .. recorded
    BY <1>1 DEF SInv, TypeOK, LossesGrow
<1>3. Promised(calls[c].ticket, calls[c].covers)
    BY <1>1, NamesAreDistinct DEF SInv, Answers
<1> QED
    BY <1>1, <1>2, <1>3 DEF Promised, Active

(* A sync that ends as delivered with nothing settled left to send, or     *)
(* ends as failed, keeps every promise.                                    *)
LEMMA FinishKeepsPromises ==
    ASSUME SInv, NEW delivered \in BOOLEAN, Finish(delivered),
           UNCHANGED <<recorded, lossesBefore, fresh, flushLosses, chain>>,
           losses' \in Nat, losses' >= losses,
           received \subseteq received', Unsent' \subseteq Unsent,
           losses' > losses \/ Unsent \cup received \subseteq Unsent' \cup received',
           sync # NoSync,
           \A S \in SUBSET Nat :
               delivered /\ sync.stage \in Active /\ Settled(S) => S \cap Unsent' = {}
    PROVE  NoSilentLoss' /\ LossesGrow' /\ Ending' /\ Answers' /\ FlushIsHonest'
<1>1. /\ lossesBefore \in Seq(Nat) /\ Len(lossesBefore) = recorded /\ losses \in Nat
      /\ recorded \in Nat /\ closing.after \in Nat
      /\ closing \in [stopped : BOOLEAN, ticket : Tickets, done : BOOLEAN,
                      delivered : BOOLEAN, after : Nat]
      /\ calls \in [Callers -> Calls \cup {NoCall}] /\ NoTicket # 0
      /\ chain \in Seq({"bootstrap", "tick", "flush"})
    BY NamesAreDistinct DEF SInv, TypeOK
<1>2. \A k \in 1 .. recorded : lossesBefore[k] \in Nat /\ lossesBefore[k] <= losses
    BY <1>1 DEF SInv, LossesGrow
<1>3. NoSilentLoss'
    BY <1>1, <1>2 DEF SInv, NoSilentLoss
<1>4. \A c \in Callers : calls'[c] = IF Awaits(c) THEN NoCall ELSE calls[c]
    BY DEF Finish
<1>5. ASSUME NEW c \in Callers, Awaits(c), Ok(c, delivered), NEW k \in calls[c].covers
      PROVE  k \in 1 .. recorded /\ k \in received'
    <2>1. /\ calls[c] \in Calls /\ calls[c].covers \subseteq 1 .. recorded
          /\ sync.stage \in Active /\ Settled(calls[c].covers)
        BY <1>5, AwaitedIsSettled
    <2>2. delivered /\ losses' = calls[c].losses
        BY <1>5 DEF Ok
    <2>3. calls[c].covers \in SUBSET Nat
        BY <2>1 DEF Calls
    <2>4. k \notin Unsent'
        BY <1>5, <2>1, <2>2, <2>3
    <2>5. calls[c].losses <= lossesBefore[k]
        BY <1>5 DEF SInv, LossesGrow, Awaits
    <2>6. ~(losses' > lossesBefore[k])
        BY <1>1, <1>2, <1>5, <2>1, <2>2, <2>5
    <2> QED
        BY <1>3, <1>5, <2>1, <2>4, <2>6 DEF NoSilentLoss
<1>6. \A k \in confirmed' : k \in confirmed \/ (k \in 1 .. recorded /\ k \in received')
    BY <1>5 DEF Finish
<1>7. LossesGrow'
    <2>1. \A k \in 1 .. recorded : lossesBefore[k] <= losses'
        BY <1>1, <1>2
    <2>2. confirmed' \subseteq 1 .. recorded
        BY <1>6 DEF SInv, LossesGrow
    <2>3. flushLosses <= losses'
        BY <1>1 DEF SInv, TypeOK, LossesGrow
    <2> QED
        BY <1>4, <2>1, <2>2, <2>3 DEF SInv, LossesGrow
<1>8. /\ closing.ticket # 0 => closing' = closing
      /\ closing.ticket = 0 => closing' = [closing EXCEPT !.ticket = NoTicket, !.done = TRUE,
                                                         !.delivered = delivered]
    BY DEF Finish
<1>9. closing'.stopped = closing.stopped /\ closing'.after = closing.after
    BY <1>1, <1>8
<1>10. FlushIsHonest'
    BY <1>6, <1>9 DEF SInv, FlushIsHonest
<1>11. ~closing.done /\ sync' = NoSync
    BY DEF SInv, Ending, Finish
<1>12. closing.ticket = 0 => /\ closing.stopped /\ chain = <<>>
                             /\ closing' = [stopped |-> TRUE, ticket |-> NoTicket, done |-> TRUE,
                                            delivered |-> delivered, after |-> closing.after]
    <2> SUFFICES ASSUME closing.ticket = 0
                 PROVE  /\ closing.stopped /\ chain = <<>>
                        /\ closing' = [stopped |-> TRUE, ticket |-> NoTicket, done |-> TRUE,
                                       delivered |-> delivered, after |-> closing.after]
        OBVIOUS
    <2>1. closing.stopped /\ Len(chain) = 0
        BY <1>1, <1>11 DEF SInv, Ending
    <2>2. chain = <<>>
        BY <1>1, <2>1
    <2> QED
        BY <1>1, <1>8, <2>1, <2>2
<1>13. Ending'
    <2>1. CASE closing.ticket # 0
        BY <1>8, <1>11, <2>1 DEF SInv, Ending
    <2>2. CASE closing.ticket = 0
        BY <1>1, <1>11, <1>12, <2>2 DEF SInv, Ending
    <2> QED
        BY <2>1, <2>2
<1>14. Answers'
    <2>1. ASSUME NEW t, NEW S \in SUBSET Nat, Promised(t, S), t # 0 PROVE Promised(t, S)'
        BY <2>1 DEF Promised
    <2>2. ASSUME NEW c \in Callers, calls'[c] # NoCall
          PROVE  IF calls'[c].ticket = NoTicket THEN closing.stopped
                 ELSE /\ Promised(calls[c].ticket, calls[c].covers)'
                      /\ closing.stopped => calls'[c].covers \subseteq 1 .. closing.after
        <3>1. calls'[c] = calls[c] /\ calls[c].ticket # 0 /\ calls[c] \in Calls
            BY <1>1, <1>4, <2>2 DEF Awaits
        <3>2. PICK t, S : t = calls[c].ticket /\ S = calls[c].covers
            OBVIOUS
        <3>3. /\ t = NoTicket => closing.stopped
              /\ t # NoTicket => Promised(t, S)
              /\ t # NoTicket /\ closing.stopped => S \subseteq 1 .. closing.after
            BY <2>2, <3>1, <3>2 DEF SInv, Answers
        <3>4. S \in SUBSET Nat
            BY <3>1, <3>2 DEF Calls
        <3>5. t # NoTicket => Promised(t, S)'
            BY <2>1, <3>1, <3>2, <3>3, <3>4
        <3>6. t = calls'[c].ticket /\ S = calls'[c].covers
            BY <3>1, <3>2
        <3> QED
            BY <3>3, <3>5, <3>6 DEF Promised, Settled
    <2>3. ASSUME closing'.stopped, ~closing'.done
          PROVE  closing'.ticket # NoTicket /\ Promised(closing.ticket, 1 .. closing.after)'
        <3>1. closing.ticket # 0 /\ closing' = closing
            BY <1>8, <1>12, <2>3
        <3>2. PICK t, S : t = closing.ticket /\ S = 1 .. closing.after
            OBVIOUS
        <3>3. t # NoTicket /\ Promised(t, S)
            BY <2>3, <3>1, <3>2 DEF SInv, Answers
        <3>4. Promised(t, S)'
            <4>1. S \in SUBSET Nat
                BY <3>2
            <4> QED
                BY <2>1, <3>1, <3>2, <3>3, <4>1
        <3>5. t = closing'.ticket /\ S = 1 .. closing'.after
            BY <3>1, <3>2
        <3> QED
            BY <3>3, <3>4, <3>5 DEF Promised, Settled
    <2>4. ASSUME closing'.done, closing'.delivered
          PROVE  (1 .. closing.after) \cap Unsent' = {}
        <3>1. closing.ticket = 0 /\ delivered
            BY <1>8, <1>11, <1>12, <2>4
        <3>2. Promised(closing.ticket, 1 .. closing.after)
            BY <1>1, <1>11, <1>12, <3>1 DEF SInv, Answers
        <3>3. sync.stage \in Active /\ Settled(1 .. closing.after)
            BY <3>1, <3>2 DEF Promised, Active
        <3>4. 1 .. closing.after \in SUBSET Nat
            OBVIOUS
        <3> QED
            BY <3>1, <3>3, <3>4
    <2> QED
        BY <1>9, <2>2, <2>3, <2>4 DEF Answers
<1> QED
    BY <1>3, <1>7, <1>10, <1>13, <1>14

(* SkipSync ends a sync that no call awaits: only flushes are awaited, and *)
(* they are not skipped.                                                   *)
LEMMA SkipSyncSInv == SInv /\ SkipSync => SInv'
<1> SUFFICES ASSUME SInv, SkipSync PROVE SInv'
    OBVIOUS
<1>1. /\ UNCHANGED <<recorded, buffer, quiet, snapQueued, snapshot, pending, chain, aligned,
                     flushLosses, fresh, received, lossesBefore, losses>>
      /\ sync.stage = "skip" /\ Finish(TRUE)
    BY DEF SkipSync, snapVars
<1>2. /\ sync' = NoSync /\ sync' \in Syncs
      /\ calls' \in [Callers -> Calls \cup {NoCall}]
      /\ tick' \in Tickets /\ confirmed' \in SUBSET Nat
      /\ closing' \in [stopped : BOOLEAN, ticket : Tickets, done : BOOLEAN,
                       delivered : BOOLEAN, after : Nat]
    BY <1>1, FinishTypes DEF SInv
<1>3. /\ sync.rest = <<>> /\ sync # NoSync
      /\ sync'.stage = "idle" /\ sync'.awaits = "none" /\ ~sync'.again /\ sync'.rest = <<>>
    BY <1>1, <1>2 DEF SInv, Shape, NoSync
<1>4. UNCHANGED <<Rows(pending), Rows(sync.rest), Sorted(pending), Sorted(sync.rest)>>
    BY <1>1, <1>3 DEF Rows, Sorted
<1>5. UNCHANGED Unsent
    BY <1>1, <1>4 DEF Unsent
<1>6. TypeOK'
    BY <1>1, <1>2 DEF SInv, TypeOK
<1>7. Shape'
    BY <1>1, <1>3 DEF SInv, Shape
<1>8. InOrder'
    BY <1>1, <1>4, <1>5 DEF SInv, InOrder, Below
<1>9. sync.stage \notin Active
    BY <1>1 DEF Active
<1>10. NoSilentLoss' /\ LossesGrow' /\ Ending' /\ Answers' /\ FlushIsHonest'
    <2>1. /\ losses' \in Nat /\ losses' >= losses
          /\ received \subseteq received' /\ Unsent' \subseteq Unsent
          /\ Unsent \cup received \subseteq Unsent' \cup received'
        BY <1>1, <1>5, Parts
    <2> QED
        BY <1>1, <1>3, <1>9, <2>1, FinishKeepsPromises
<1> QED
    BY <1>6, <1>7, <1>8, <1>10 DEF SInv

(* NothingToSend ends a sync whose snapshot is over and that finds no      *)
(* pending frames: what it was to send is gone.                            *)
LEMMA NothingToSendSInv == SInv /\ NothingToSend => SInv'
<1> SUFFICES ASSUME SInv, NothingToSend PROVE SInv'
    OBVIOUS
<1>1. /\ UNCHANGED <<recorded, buffer, quiet, snapQueued, snapshot, pending, chain, aligned,
                     flushLosses, fresh, received, lossesBefore, losses>>
      /\ sync.stage = "snapshot" /\ sync.awaits = "none" /\ ~sync.empty /\ pending = <<>>
      /\ Finish(TRUE)
    BY DEF NothingToSend, snapVars
<1>2. /\ sync' = NoSync /\ sync' \in Syncs
      /\ calls' \in [Callers -> Calls \cup {NoCall}]
      /\ tick' \in Tickets /\ confirmed' \in SUBSET Nat
      /\ closing' \in [stopped : BOOLEAN, ticket : Tickets, done : BOOLEAN,
                       delivered : BOOLEAN, after : Nat]
    BY <1>1, FinishTypes DEF SInv
<1>3. /\ sync.rest = <<>> /\ sync # NoSync /\ ~sync.again
      /\ sync'.stage = "idle" /\ sync'.awaits = "none" /\ ~sync'.again /\ sync'.rest = <<>>
    BY <1>1, <1>2 DEF SInv, Shape, NoSync
<1>4. /\ UNCHANGED <<Rows(pending), Rows(sync.rest), Sorted(pending), Sorted(sync.rest)>>
      /\ Rows(pending) = {} /\ Rows(sync.rest) = {}
    BY <1>1, <1>3, NoFramesNoRows DEF Rows, Sorted
<1>5. UNCHANGED Unsent /\ Unsent = buffer \cup snapshot.rows
    BY <1>1, <1>4 DEF Unsent
<1>6. TypeOK'
    BY <1>1, <1>2 DEF SInv, TypeOK
<1>7. Shape'
    BY <1>1, <1>3 DEF SInv, Shape
<1>8. InOrder'
    BY <1>1, <1>4, <1>5 DEF SInv, InOrder, Below
<1>9. \A S \in SUBSET Nat : Settled(S) => S \cap Unsent' = {}
    BY <1>1, <1>3, <1>5 DEF Settled
<1>10. NoSilentLoss' /\ LossesGrow' /\ Ending' /\ Answers' /\ FlushIsHonest'
    <2>1. /\ losses' \in Nat /\ losses' >= losses
          /\ received \subseteq received' /\ Unsent' \subseteq Unsent
          /\ Unsent \cup received \subseteq Unsent' \cup received'
        BY <1>1, <1>5, Parts
    <2> QED
        BY <1>1, <1>3, <1>9, <2>1, FinishKeepsPromises
<1> QED
    BY <1>6, <1>7, <1>8, <1>10 DEF SInv

(* An envelope carries events of the rest, the last one all of them.       *)
LEMMA SentFacts ==
    ASSUME SInv, NEW k \in Envelopes
    PROVE  /\ k \in 0 .. Len(sync.rest) /\ Sent(k) \subseteq Rows(sync.rest)
           /\ k = Len(sync.rest) => Sent(k) = Rows(sync.rest)
<1>1. k \in 0 .. Len(sync.rest)
    BY DEF Envelopes
<1>2. Sent(k) \subseteq Rows(sync.rest)
    BY <1>1, Parts, Cut DEF Sent
<1>3. k = Len(sync.rest) => SubSeq(sync.rest, 1, k) = sync.rest
    BY Parts DEF Frames
<1> QED
    BY <1>1, <1>2, <1>3 DEF Sent

(* What a sync that is sending still has goes to the server, or is given   *)
(* up, without disturbing the order of the rest.                           *)
LEMMA RestGoes ==
    ASSUME SInv, NEW k \in Envelopes, sync.stage = "sending",
           received' = received \cup Sent(k) \/ received' = received,
           UNCHANGED <<recorded, buffer, snapshot, pending>>,
           sync'.rest = <<>>
    PROVE  /\ InOrder' /\ received' \subseteq Nat
           /\ received \subseteq received' /\ Unsent' \subseteq Unsent
           /\ Unsent' = Rows(pending) \cup snapshot.rows \cup buffer
           /\ Unsent = Rows(sync.rest) \cup Unsent'
<1>1. /\ UNCHANGED <<Rows(pending), Sorted(pending)>>
      /\ Rows(sync.rest)' = {} /\ Sorted(sync.rest)'
    <2>1. Rows(sync.rest)' = Rows(<<>>) /\ (Sorted(sync.rest)' <=> Sorted(<<>>))
        BY DEF Rows, Sorted
    <2> QED
        BY <2>1, NoFramesNoRows DEF Rows, Sorted
<1>2. Unsent' = Rows(pending) \cup snapshot.rows \cup buffer
    BY <1>1 DEF Unsent
<1>3. Unsent = Rows(sync.rest) \cup Unsent'
    BY <1>2 DEF Unsent
<1>4. received' \subseteq received \cup Rows(sync.rest)
    BY SentFacts
<1>5. InOrder'
    BY <1>1, <1>2, <1>3, <1>4 DEF SInv, InOrder, Below
<1> QED
    BY <1>2, <1>3, <1>4, <1>5, Parts

(* PostLast ends a sync in which everything arrived, or starts the second  *)
(* pass of one that had to learn the clock.                                *)
LEMMA PostLastSInv == SInv /\ (\E k \in Envelopes : PostLast(k)) => SInv'
<1> SUFFICES ASSUME SInv, NEW k \in Envelopes, PostLast(k) PROVE SInv'
    OBVIOUS
<1>1. /\ UNCHANGED <<recorded, buffer, quiet, snapshot, pending, chain, flushLosses, fresh,
                     lossesBefore, losses>>
      /\ sync.stage = "sending" /\ k = Len(sync.rest)
      /\ received' = received \cup Sent(k) /\ aligned' = TRUE
    BY DEF PostLast
<1>2. Sent(k) = Rows(sync.rest)
    BY <1>1, SentFacts
<1>3. sync # NoSync
    BY <1>1 DEF NoSync
<1>4. losses' \in Nat /\ losses' >= losses
    BY <1>1, Parts
<1>5. CASE sync.again
    <2>1. Pass(TRUE, FALSE, FALSE) /\ UNCHANGED <<calls, confirmed, tick, closing>>
        BY <1>5 DEF PostLast
    <2>2. /\ sync' = [stage |-> "snapshot", awaits |-> "queued", again |-> FALSE,
                      empty |-> FALSE, rest |-> <<>>]
          /\ snapQueued' = TRUE
        BY <2>1 DEF Pass, Awaited
    <2>3. sync' \in Syncs
        BY <2>2, NoFramesNoRows DEF Syncs
    <2>4. /\ InOrder' /\ received' \subseteq Nat
          /\ received \subseteq received' /\ Unsent' \subseteq Unsent
          /\ Unsent = Rows(sync.rest) \cup Unsent'
        BY <1>1, <2>2, RestGoes
    <2>5. Unsent \cup received \subseteq Unsent' \cup received'
        BY <1>1, <1>2, <2>4
    <2>6. TypeOK'
        BY <1>1, <2>1, <2>2, <2>3, <2>4 DEF SInv, TypeOK
    <2>7. Shape'
        BY <1>1, <2>2 DEF SInv, Shape
    <2>8. \A S \in SUBSET Nat : Settled(S) => Settled(S)'
        BY <1>1, <2>2 DEF Settled
    <2>9. sync'.stage \in Active
        BY <2>2 DEF Active
    <2>10. NoSilentLoss' /\ LossesGrow' /\ Ending' /\ Answers' /\ FlushIsHonest'
        BY <1>1, <1>3, <1>4, <2>1, <2>4, <2>5, <2>8, <2>9, MovingKeepsPromises
    <2> QED
        BY <2>4, <2>6, <2>7, <2>10 DEF SInv
<1>6. CASE ~sync.again
    <2>1. Finish(TRUE) /\ UNCHANGED snapQueued
        BY <1>6 DEF PostLast
    <2>2. /\ sync' = NoSync /\ sync' \in Syncs
          /\ calls' \in [Callers -> Calls \cup {NoCall}]
          /\ tick' \in Tickets /\ confirmed' \in SUBSET Nat
          /\ closing' \in [stopped : BOOLEAN, ticket : Tickets, done : BOOLEAN,
                           delivered : BOOLEAN, after : Nat]
        BY <2>1, FinishTypes DEF SInv
    <2>3. /\ sync'.stage = "idle" /\ sync'.awaits = "none" /\ ~sync'.again
          /\ sync'.rest = <<>>
        BY <2>2 DEF NoSync
    <2>4. /\ InOrder' /\ received' \subseteq Nat
          /\ received \subseteq received' /\ Unsent' \subseteq Unsent
          /\ Unsent' = Rows(pending) \cup snapshot.rows \cup buffer
          /\ Unsent = Rows(sync.rest) \cup Unsent'
        BY <1>1, <2>3, RestGoes
    <2>5. Unsent \cup received \subseteq Unsent' \cup received'
        BY <1>1, <1>2, <2>4
    <2>6. TypeOK'
        BY <1>1, <2>1, <2>2, <2>4 DEF SInv, TypeOK
    <2>7. Shape'
        BY <1>1, <2>3 DEF SInv, Shape
    <2>8. sync.awaits = "none"
        BY <1>1 DEF SInv, Shape
    <2>9. \A S \in SUBSET Nat : Settled(S) => S \cap Unsent' = {}
        BY <1>1, <1>6, <2>4, <2>8 DEF Settled
    <2>10. NoSilentLoss' /\ LossesGrow' /\ Ending' /\ Answers' /\ FlushIsHonest'
        BY <1>1, <1>3, <1>4, <2>1, <2>4, <2>5, <2>9, FinishKeepsPromises
    <2> QED
        BY <2>4, <2>6, <2>7, <2>10 DEF SInv
<1> QED
    BY <1>5, <1>6

(* PostFails counts every frame it gives up.                               *)
LEMMA PostFailsSInv ==
    SInv /\ (\E k \in Envelopes, arrived \in BOOLEAN : PostFails(k, arrived)) => SInv'
<1> SUFFICES ASSUME SInv, NEW k \in Envelopes, NEW arrived \in BOOLEAN,
                    PostFails(k, arrived)
             PROVE  SInv'
    OBVIOUS
<1>1. /\ UNCHANGED <<recorded, buffer, quiet, snapshot, snapQueued, pending, chain, aligned,
                     flushLosses, fresh, lossesBefore>>
      /\ sync.stage = "sending" /\ losses' = losses + Len(sync.rest)
      /\ received' = received \cup Sent(k) \/ received' = received
      /\ Finish(FALSE)
    BY DEF PostFails, Kept, snapVars
<1>2. sync # NoSync
    BY <1>1 DEF NoSync
<1>3. /\ losses' \in Nat /\ losses' >= losses
      /\ losses' > losses \/ sync.rest = <<>>
    <2>1. Len(sync.rest) \in Nat /\ (Len(sync.rest) = 0 => sync.rest = <<>>)
        BY Parts DEF Frames
    <2> QED
        BY <1>1, <2>1, Parts
<1>4. /\ sync' = NoSync /\ sync' \in Syncs
      /\ calls' \in [Callers -> Calls \cup {NoCall}]
      /\ tick' \in Tickets /\ confirmed' \in SUBSET Nat
      /\ closing' \in [stopped : BOOLEAN, ticket : Tickets, done : BOOLEAN,
                       delivered : BOOLEAN, after : Nat]
    BY <1>1, FinishTypes DEF SInv
<1>5. sync'.stage = "idle" /\ sync'.awaits = "none" /\ ~sync'.again /\ sync'.rest = <<>>
    BY <1>4 DEF NoSync
<1>6. /\ InOrder' /\ received' \subseteq Nat
      /\ received \subseteq received' /\ Unsent' \subseteq Unsent
      /\ Unsent = Rows(sync.rest) \cup Unsent'
    BY <1>1, <1>5, RestGoes
<1>7. losses' > losses \/ Unsent \cup received \subseteq Unsent' \cup received'
    BY <1>3, <1>6, NoFramesNoRows
<1>8. TypeOK'
    BY <1>1, <1>3, <1>4, <1>6 DEF SInv, TypeOK
<1>9. Shape'
    BY <1>1, <1>5 DEF SInv, Shape
<1>10. NoSilentLoss' /\ LossesGrow' /\ Ending' /\ Answers' /\ FlushIsHonest'
    BY <1>1, <1>2, <1>3, <1>6, <1>7, FinishKeepsPromises
<1> QED
    BY <1>6, <1>8, <1>9, <1>10 DEF SInv

-----------------------------------------------------------------------------
(* Steps of the application.                                               *)

(* event records in the buffer or counts a loss.                           *)
LEMMA EventSInv == SInv /\ event => SInv'
<1> SUFFICES ASSUME SInv, event PROVE SInv'
    OBVIOUS
<1> DEFINE new == recorded + 1
<1>1. /\ UNCHANGED <<quiet, snapQueued, snapshot, pending, chain, sync, tick, aligned,
                     flushLosses, calls, confirmed, closing, received>>
      /\ recorded' = new /\ lossesBefore' = Append(lossesBefore, losses)
      /\ fresh' = fresh \cup {new}
      /\ \/ buffer' = buffer \cup {new} /\ losses' = losses
         \/ buffer' = buffer /\ losses' = losses + 1
    BY DEF event, snapVars
<1>2. /\ recorded \in Nat /\ losses \in Nat /\ flushLosses \in Nat
      /\ lossesBefore \in Seq(Nat) /\ Len(lossesBefore) = recorded
      /\ buffer \in SUBSET Nat /\ fresh \in SUBSET Nat /\ closing.after \in Nat
    BY DEF SInv, TypeOK
<1>3. /\ new \in Nat /\ lossesBefore' \in Seq(Nat) /\ Len(lossesBefore') = new
      /\ lossesBefore'[new] = losses
      /\ \A k \in 1 .. recorded : lossesBefore'[k] = lossesBefore[k] /\ lossesBefore[k] \in Nat
      /\ losses' \in Nat /\ losses' >= losses
      /\ 1 .. new = (1 .. recorded) \cup {new}
      /\ \A k \in 1 .. recorded : k < new
    BY <1>1, <1>2
<1>4. UNCHANGED <<Rows(pending), Rows(sync.rest), Sorted(pending), Sorted(sync.rest)>>
    BY <1>1 DEF Rows, Sorted
<1>5. /\ Unsent \subseteq Unsent' /\ Unsent' \subseteq Unsent \cup {new}
      /\ new \in Unsent' \/ losses' > losses
    BY <1>1, <1>2, <1>4 DEF Unsent
<1> HIDE DEF new
<1>6. TypeOK'
    BY <1>1, <1>2, <1>3 DEF SInv, TypeOK
<1>7. Shape'
    BY <1>1, FS_AddElement DEF SInv, Shape
<1>8. NoSilentLoss'
    <2> SUFFICES ASSUME NEW k \in 1 .. new
                 PROVE  k \in Unsent' \/ k \in received' \/ losses' > lossesBefore'[k]
        BY <1>1 DEF NoSilentLoss
    <2>1. CASE k = new
        BY <1>1, <1>2, <1>3, <1>5, <2>1
    <2>2. CASE k \in 1 .. recorded
        BY <1>1, <1>2, <1>3, <1>5, <2>2 DEF SInv, NoSilentLoss
    <2> QED
        BY <1>3, <2>1, <2>2
<1>9. InOrder'
    <2>1. received \cup Unsent' \subseteq 1 .. new
        BY <1>3, <1>5 DEF SInv, InOrder
    <2>2. received \cup Unsent \subseteq 1 .. recorded
        BY DEF SInv, InOrder
    <2>3. Below(received, Unsent')
        BY <1>3, <1>5, <2>2 DEF SInv, InOrder, Below
    <2>4. /\ Rows(sync.rest) \subseteq 1 .. recorded /\ Rows(pending) \subseteq 1 .. recorded
          /\ snapshot.rows \subseteq 1 .. recorded
          /\ buffer' \subseteq buffer \cup {new}
        BY <1>1, <2>2 DEF Unsent
    <2>5. /\ Below(Rows(sync.rest), Rows(pending) \cup snapshot.rows \cup buffer')
          /\ Below(Rows(pending), snapshot.rows \cup buffer')
          /\ Below(snapshot.rows, buffer')
        BY <1>3, <2>4 DEF SInv, InOrder, Below
    <2> QED
        BY <1>1, <1>4, <2>1, <2>3, <2>5 DEF SInv, InOrder
<1>10. LossesGrow'
    <2>1. \A k \in 1 .. new : lossesBefore'[k] <= losses'
        BY <1>1, <1>2, <1>3 DEF SInv, LossesGrow
    <2>2. fresh' \subseteq 1 .. new /\ confirmed \subseteq 1 .. new
        BY <1>1, <1>3 DEF SInv, LossesGrow
    <2>3. flushLosses <= losses'
        BY <1>2, <1>3 DEF SInv, LossesGrow
    <2>4. \A k \in fresh' : flushLosses <= lossesBefore'[k]
        BY <1>1, <1>2, <1>3 DEF SInv, LossesGrow
    <2>5. \A c \in Callers : calls[c] # NoCall =>
              /\ calls[c].covers \subseteq 1 .. new
              /\ \A k \in calls[c].covers : calls[c].losses <= lossesBefore'[k]
        BY <1>3 DEF SInv, LossesGrow
    <2> QED
        BY <1>1, <2>1, <2>2, <2>3, <2>4, <2>5 DEF LossesGrow
<1>11. Ending'
    BY <1>1, <1>2, <1>3 DEF SInv, Ending
<1>12. FlushIsHonest'
    BY <1>1 DEF SInv, FlushIsHonest
<1>13. Answers'
    <2>1. ASSUME NEW t, NEW S \in SUBSET (1 .. recorded), Promised(t, S) PROVE Promised(t, S)'
        <3>1. new \notin S
            BY <1>3
        <3>2. Settled(S) => Settled(S)'
            BY <1>1, <1>4, <3>1 DEF Settled
        <3> QED
            BY <1>1, <2>1, <3>2 DEF Promised
    <2>2. ASSUME NEW c \in Callers, calls[c] # NoCall
          PROVE  IF calls[c].ticket = NoTicket THEN closing.stopped
                 ELSE /\ Promised(calls[c].ticket, calls[c].covers)'
                      /\ closing.stopped => calls[c].covers \subseteq 1 .. closing.after
        <3>1. PICK t, S : t = calls[c].ticket /\ S = calls[c].covers
            OBVIOUS
        <3>2. /\ t = NoTicket => closing.stopped
              /\ t # NoTicket => Promised(t, S)
              /\ t # NoTicket /\ closing.stopped => S \subseteq 1 .. closing.after
              /\ S \in SUBSET (1 .. recorded)
            BY <2>2, <3>1 DEF SInv, Answers, LossesGrow
        <3>3. t # NoTicket => Promised(t, S)'
            BY <2>1, <3>2
        <3>4. t = calls'[c].ticket /\ S = calls'[c].covers
            BY <1>1, <3>1
        <3> QED
            BY <3>1, <3>2, <3>3, <3>4 DEF Promised, Settled
    <2>3. ASSUME closing.stopped, ~closing.done
          PROVE  closing.ticket # NoTicket /\ Promised(closing.ticket, 1 .. closing.after)'
        <3>1. PICK t, S : t = closing.ticket /\ S = 1 .. closing.after
            OBVIOUS
        <3>2. t # NoTicket /\ Promised(t, S)
            BY <2>3, <3>1 DEF SInv, Answers
        <3>3. S \in SUBSET (1 .. recorded)
            BY <1>2, <3>1 DEF SInv, Ending
        <3>4. Promised(t, S)'
            BY <2>1, <3>2, <3>3
        <3>5. t = closing'.ticket /\ S = 1 .. closing'.after
            BY <1>1, <3>1
        <3> QED
            BY <3>1, <3>2, <3>4, <3>5 DEF Promised, Settled
    <2>4. new \notin 1 .. closing.after
        BY <1>1, <1>2, <1>3 DEF SInv, Ending
    <2>5. closing.done /\ closing.delivered => (1 .. closing.after) \cap Unsent' = {}
        BY <1>5, <2>4 DEF SInv, Answers
    <2> QED
        BY <1>1, <2>2, <2>3, <2>5 DEF Answers
<1> QED
    BY <1>6, <1>7, <1>8, <1>9, <1>10, <1>11, <1>12, <1>13 DEF SInv

(* A chain that is only extended, or whose end becomes a flush, breaks no  *)
(* promise.                                                                *)
LEMMA RequestsKeepPromises ==
    ASSUME UNCHANGED <<sync, buffer, snapshot, pending, aligned>>,
           \A i \in DOMAIN chain :
               i \in DOMAIN chain' /\ (chain[i] = "flush" => chain'[i] = "flush"),
           NEW t, NEW S, Promised(t, S)
    PROVE  Promised(t, S)'
<1>1. UNCHANGED <<Rows(pending)>>
    BY DEF Rows
<1> QED
    BY <1>1 DEF Promised, Settled

(* What a step that touches neither events nor losses leaves as it was.    *)
LEMMA RequestsMoveNothing ==
    ASSUME SInv, UNCHANGED <<recorded, buffer, snapshot, pending, aligned, losses,
                             received, lossesBefore>>,
           (sync'.rest = <<>> /\ sync.rest = <<>>) \/ sync' = sync
    PROVE  NoSilentLoss' /\ InOrder' /\ UNCHANGED Unsent
<1>1. UNCHANGED <<Rows(pending), Rows(sync.rest), Sorted(pending), Sorted(sync.rest)>>
    BY DEF Rows, Sorted
<1>2. UNCHANGED Unsent
    BY <1>1 DEF Unsent
<1> QED
    BY <1>1, <1>2 DEF SInv, NoSilentLoss, InOrder, Below

(* SyncTimer asks for a sync.                                              *)
LEMMA SyncTimerSInv == SInv /\ SyncTimer => SInv'
<1> SUFFICES ASSUME SInv, SyncTimer PROVE SInv'
    OBVIOUS
<1>1. /\ UNCHANGED <<recorded, buffer, quiet, snapQueued, snapshot, pending, sync, aligned,
                     losses, flushLosses, calls, fresh, confirmed, closing, received,
                     lossesBefore>>
      /\ chain' = Enqueued("tick") /\ tick' = Len(chain') /\ ~closing.stopped
    BY DEF SyncTimer, MayTick, snapVars, callVars
<1>2. /\ chain' \in Seq({"bootstrap", "tick", "flush"}) /\ Len(chain') \in Nat
      /\ \A i \in DOMAIN chain :
             i \in DOMAIN chain' /\ (chain[i] = "flush" => chain'[i] = "flush")
    BY <1>1, EnqueuedFacts DEF SInv
<1>3. NoSilentLoss' /\ InOrder' /\ UNCHANGED Unsent
    BY <1>1, RequestsMoveNothing
<1>4. TypeOK'
    BY <1>1, <1>2 DEF SInv, TypeOK, Tickets
<1>5. Shape' /\ LossesGrow' /\ FlushIsHonest'
    BY <1>1 DEF SInv, Shape, LossesGrow, FlushIsHonest
<1>6. Ending'
    BY <1>1 DEF SInv, Ending
<1>7. Answers'
    <2>1. ASSUME NEW c \in Callers, calls[c] # NoCall
          PROVE  IF calls[c].ticket = NoTicket THEN closing.stopped
                 ELSE /\ Promised(calls[c].ticket, calls[c].covers)'
                      /\ closing.stopped => calls[c].covers \subseteq 1 .. closing.after
        <3>1. PICK t, S : t = calls[c].ticket /\ S = calls[c].covers
            OBVIOUS
        <3>2. /\ t = NoTicket => closing.stopped
              /\ t # NoTicket => Promised(t, S)
              /\ t # NoTicket /\ closing.stopped => S \subseteq 1 .. closing.after
            BY <2>1, <3>1 DEF SInv, Answers
        <3>3. t # NoTicket => Promised(t, S)'
            BY <1>1, <1>2, <3>2, RequestsKeepPromises
        <3>4. t = calls'[c].ticket /\ S = calls'[c].covers
            BY <1>1, <3>1
        <3> QED
            BY <3>1, <3>2, <3>3, <3>4 DEF Promised, Settled
    <2>2. closing.done /\ closing.delivered => (1 .. closing.after) \cap Unsent' = {}
        BY <1>3 DEF SInv, Answers
    <2> QED
        BY <1>1, <2>1, <2>2 DEF Answers
<1> QED
    BY <1>3, <1>4, <1>5, <1>6, <1>7 DEF SInv

(* flush() closes a window of losses and asks for a sync, or, once         *)
(* shutdown() was called, for its answer.                                  *)
LEMMA FlushSInv == SInv /\ (\E c \in Callers : flush(c)) => SInv'
<1> SUFFICES ASSUME SInv, NEW c \in Callers, flush(c) PROVE SInv'
    OBVIOUS
<1> DEFINE call == [losses |-> flushLosses, covers |-> fresh,
                    ticket |-> IF closing.stopped THEN NoTicket ELSE Len(chain')]
<1>1. /\ UNCHANGED <<recorded, buffer, quiet, snapQueued, snapshot, pending, sync, tick,
                     aligned, losses, confirmed, closing, received, lossesBefore>>
      /\ flushLosses' = losses /\ fresh' = {}
      /\ IF closing.stopped THEN chain' = chain ELSE chain' = Enqueued("flush")
      /\ calls' = [calls EXCEPT ![c] = call]
    BY DEF flush, snapVars
<1>2. /\ chain' \in Seq({"bootstrap", "tick", "flush"}) /\ Len(chain') \in Nat
      /\ \A i \in DOMAIN chain :
             i \in DOMAIN chain' /\ (chain[i] = "flush" => chain'[i] = "flush")
      /\ ~closing.stopped => Len(chain') # 0 /\ chain'[Len(chain')] = "flush"
    <2>1. CASE closing.stopped
        BY <1>1, <2>1 DEF SInv, TypeOK
    <2>2. CASE ~closing.stopped
        BY <1>1, <2>2, EnqueuedFacts DEF SInv
    <2> QED
        BY <2>1, <2>2
<1>3. /\ call \in Calls /\ call # NoCall /\ call.losses = flushLosses /\ call.covers = fresh
      /\ call.ticket = IF closing.stopped THEN NoTicket ELSE Len(chain')
    <2>1. flushLosses \in Nat /\ fresh \in SUBSET Nat /\ Len(chain') \in Tickets
        BY <1>2 DEF SInv, TypeOK, Tickets
    <2>2. call.ticket \in Tickets
        BY <2>1 DEF Tickets
    <2>3. call \in Calls
        BY <2>1, <2>2 DEF Calls
    <2> QED
        BY <2>3, NamesAreDistinct
<1> HIDE DEF call
<1>4. \A d \in Callers : calls'[d] = IF d = c THEN call ELSE calls[d]
    BY <1>1 DEF SInv, TypeOK
<1>5. NoSilentLoss' /\ InOrder' /\ UNCHANGED Unsent
    BY <1>1, RequestsMoveNothing
<1>6. TypeOK'
    <2>1. calls' \in [Callers -> Calls \cup {NoCall}]
        BY <1>1, <1>3 DEF SInv, TypeOK
    <2> QED
        BY <1>1, <1>2, <2>1 DEF SInv, TypeOK
<1>7. Shape' /\ FlushIsHonest'
    BY <1>1 DEF SInv, Shape, FlushIsHonest
<1>8. LossesGrow'
    <2>1. flushLosses' <= losses'
        BY <1>1 DEF SInv, TypeOK
    <2>2. \A d \in Callers : calls'[d] # NoCall =>
              /\ calls'[d].covers \subseteq 1 .. recorded
              /\ \A k \in calls'[d].covers : calls'[d].losses <= lossesBefore[k]
        BY <1>3, <1>4 DEF SInv, LossesGrow
    <2> QED
        BY <1>1, <2>1, <2>2 DEF SInv, LossesGrow
<1>9. Ending'
    BY <1>1 DEF SInv, Ending
<1>10. Answers'
    <2>1. ASSUME NEW d \in Callers, calls'[d] # NoCall
          PROVE  IF calls'[d].ticket = NoTicket THEN closing.stopped
                 ELSE /\ Promised(calls[d].ticket, calls[d].covers)'
                      /\ closing.stopped => calls'[d].covers \subseteq 1 .. closing.after
        <3>1. PICK t, S : t = calls'[d].ticket /\ S = calls'[d].covers
            OBVIOUS
        <3>2. CASE d = c
            <4>1. t = IF closing.stopped THEN NoTicket ELSE Len(chain')
                BY <1>3, <1>4, <3>1, <3>2
            <4>2. CASE closing.stopped
                BY <3>1, <4>1, <4>2
            <4>3. CASE ~closing.stopped
                <5>1. t # 0 /\ t # NoTicket /\ t \in DOMAIN chain' /\ chain'[t] = "flush"
                    BY <1>2, <4>1, <4>3, NamesAreDistinct
                <5> QED
                    BY <3>1, <4>3, <5>1 DEF Promised
            <4> QED
                BY <4>2, <4>3
        <3>3. CASE d # c
            <4>1. t = calls[d].ticket /\ S = calls[d].covers /\ calls[d] # NoCall
                BY <1>4, <2>1, <3>1, <3>3
            <4>2. /\ t = NoTicket => closing.stopped
                  /\ t # NoTicket => Promised(t, S)
                  /\ t # NoTicket /\ closing.stopped => S \subseteq 1 .. closing.after
                BY <4>1 DEF SInv, Answers
            <4>3. t # NoTicket => Promised(t, S)'
                BY <1>1, <1>2, <4>2, RequestsKeepPromises
            <4> QED
                BY <3>1, <4>2, <4>3 DEF Promised, Settled
        <3> QED
            BY <3>2, <3>3
    <2>2. ASSUME closing.stopped, ~closing.done
          PROVE  closing.ticket # NoTicket /\ Promised(closing.ticket, 1 .. closing.after)'
        <3>1. PICK t, S : t = closing.ticket /\ S = 1 .. closing.after
            OBVIOUS
        <3>2. t # NoTicket /\ Promised(t, S)
            BY <2>2, <3>1 DEF SInv, Answers
        <3>3. Promised(t, S)'
            BY <1>1, <1>2, <3>2, RequestsKeepPromises
        <3>4. t = closing'.ticket /\ S = 1 .. closing'.after
            BY <1>1, <3>1
        <3> QED
            BY <3>1, <3>2, <3>3, <3>4 DEF Promised, Settled
    <2>3. closing.done /\ closing.delivered => (1 .. closing.after) \cap Unsent' = {}
        BY <1>5 DEF SInv, Answers
    <2> QED
        BY <1>1, <2>1, <2>2, <2>3 DEF Answers
<1> QED
    BY <1>5, <1>6, <1>7, <1>8, <1>9, <1>10 DEF SInv

(* shutdown asks for the final sync.                                       *)
LEMMA ShutdownSInv == SInv /\ shutdown => SInv'
<1> SUFFICES ASSUME SInv, shutdown PROVE SInv'
    OBVIOUS
<1>1. /\ UNCHANGED <<recorded, buffer, quiet, snapQueued, snapshot, pending, sync, tick,
                     aligned, losses, flushLosses, calls, fresh, confirmed, received,
                     lossesBefore>>
      /\ ~closing.stopped /\ chain' = Enqueued("flush")
      /\ closing' = [closing EXCEPT !.stopped = TRUE, !.after = recorded,
                                    !.ticket = Len(chain')]
    BY DEF shutdown, snapVars, callVars
<1>2. /\ chain' \in Seq({"bootstrap", "tick", "flush"}) /\ Len(chain') \in Nat \ {0}
      /\ \A i \in DOMAIN chain :
             i \in DOMAIN chain' /\ (chain[i] = "flush" => chain'[i] = "flush")
      /\ chain'[Len(chain')] = "flush"
    BY <1>1, EnqueuedFacts DEF SInv
<1>3. closing \in [stopped : BOOLEAN, ticket : Tickets, done : BOOLEAN,
                   delivered : BOOLEAN, after : Nat] /\ recorded \in Nat
    BY DEF SInv, TypeOK
<1>4. /\ closing'.stopped /\ closing'.after = recorded /\ closing'.ticket = Len(chain')
      /\ closing'.done = closing.done
    BY <1>1, <1>3
<1>5. closing' \in [stopped : BOOLEAN, ticket : Tickets, done : BOOLEAN,
                    delivered : BOOLEAN, after : Nat]
    BY <1>1, <1>2, <1>3 DEF Tickets
<1>6. ~closing.done
    BY <1>1 DEF SInv, Ending
<1>7. NoSilentLoss' /\ InOrder' /\ UNCHANGED Unsent
    BY <1>1, RequestsMoveNothing
<1>8. TypeOK'
    BY <1>1, <1>2, <1>5 DEF SInv, TypeOK
<1>9. Shape' /\ LossesGrow' /\ FlushIsHonest'
    BY <1>1 DEF SInv, Shape, LossesGrow, FlushIsHonest
<1>10. Ending'
    BY <1>1, <1>3, <1>4, <1>6 DEF Ending
<1>11. Answers'
    <2>1. ASSUME NEW c \in Callers, calls[c] # NoCall
          PROVE  /\ calls[c].ticket # NoTicket /\ Promised(calls[c].ticket, calls[c].covers)'
                 /\ calls[c].covers \subseteq 1 .. recorded
        <3>1. PICK t, S : t = calls[c].ticket /\ S = calls[c].covers
            OBVIOUS
        <3>2. t # NoTicket /\ Promised(t, S) /\ S \subseteq 1 .. recorded
            BY <1>1, <2>1, <3>1 DEF SInv, Answers, LossesGrow
        <3>3. Promised(t, S)'
            BY <1>1, <1>2, <3>2, RequestsKeepPromises
        <3>4. t = calls'[c].ticket /\ S = calls'[c].covers
            BY <1>1, <3>1
        <3> QED
            BY <3>1, <3>2, <3>3, <3>4 DEF Promised, Settled
    <2>2. closing'.ticket # NoTicket /\ Promised(closing.ticket, 1 .. closing.after)'
        BY <1>2, <1>4, NamesAreDistinct DEF Promised
    <2> QED
        BY <1>1, <1>4, <1>6, <2>1, <2>2 DEF Answers
<1> QED
    BY <1>7, <1>8, <1>9, <1>10, <1>11 DEF SInv

(* A call that waits for the final sync's answer gets the truth: nothing   *)
(* recorded before shutdown() is left, and its window saw no loss.         *)
LEMMA LateAnswerSInv == SInv /\ (\E c \in Callers : LateAnswer(c)) => SInv'
<1> SUFFICES ASSUME SInv, NEW c \in Callers, LateAnswer(c) PROVE SInv'
    OBVIOUS
<1>1. /\ UNCHANGED <<recorded, buffer, quiet, snapQueued, snapshot, pending, chain, sync,
                     tick, aligned, losses, flushLosses, fresh, closing, received,
                     lossesBefore>>
      /\ closing.done /\ calls[c] # NoCall
      /\ calls' = [calls EXCEPT ![c] = NoCall]
      /\ \/ confirmed' = confirmed
         \/ /\ closing.delivered /\ losses = calls[c].losses
            /\ confirmed' = confirmed \cup calls[c].covers
    BY DEF LateAnswer, snapVars
<1>2. /\ calls \in [Callers -> Calls \cup {NoCall}] /\ calls[c] \in Calls
      /\ calls[c].covers \in SUBSET Nat
      /\ \A d \in Callers : calls'[d] = IF d = c THEN NoCall ELSE calls[d]
    BY <1>1 DEF SInv, TypeOK, Calls
<1>3. NoSilentLoss' /\ InOrder' /\ UNCHANGED Unsent
    BY <1>1, RequestsMoveNothing
<1>4. TypeOK'
    BY <1>1, <1>2 DEF SInv, TypeOK
<1>5. Shape' /\ Ending'
    BY <1>1 DEF SInv, Shape, Ending
<1>6. LossesGrow'
    <2>1. confirmed' \subseteq 1 .. recorded
        BY <1>1 DEF SInv, LossesGrow
    <2> QED
        BY <1>1, <1>2, <2>1 DEF SInv, LossesGrow
<1>7. FlushIsHonest'
    <2> SUFFICES ASSUME NEW k \in confirmed', ~closing.stopped \/ k <= closing.after
                 PROVE  k \in received
        BY <1>1 DEF FlushIsHonest
    <2>1. CASE k \in confirmed
        BY <2>1 DEF SInv, FlushIsHonest
    <2>2. CASE k \notin confirmed
        <3>1. closing.delivered /\ losses = calls[c].losses /\ k \in calls[c].covers
            BY <1>1, <2>2
        <3>2. k \in 1 .. recorded /\ calls[c].losses <= lossesBefore[k]
            BY <1>1, <3>1 DEF SInv, LossesGrow
        <3>3. k \in 1 .. closing.after
            BY <1>1, <3>2 DEF SInv, Ending, TypeOK
        <3>4. k \notin Unsent
            BY <1>1, <3>1, <3>3 DEF SInv, Answers
        <3>5. lossesBefore[k] \in Nat /\ losses \in Nat
            BY <3>2 DEF SInv, TypeOK
        <3> QED
            BY <3>1, <3>2, <3>4, <3>5 DEF SInv, NoSilentLoss
    <2> QED
        BY <2>1, <2>2
<1>8. Answers'
    <2>1. \A t, S : Promised(t, S) => Promised(t, S)'
        BY <1>1, RequestsKeepPromises
    <2>2. ASSUME NEW d \in Callers, calls'[d] # NoCall
          PROVE  IF calls'[d].ticket = NoTicket THEN closing.stopped
                 ELSE /\ Promised(calls[d].ticket, calls[d].covers)'
                      /\ closing.stopped => calls'[d].covers \subseteq 1 .. closing.after
        <3>1. PICK t, S : t = calls[d].ticket /\ S = calls[d].covers
            OBVIOUS
        <3>2. calls'[d] = calls[d]
            BY <1>2, <2>2
        <3>3. /\ t = NoTicket => closing.stopped
              /\ t # NoTicket => Promised(t, S)
              /\ t # NoTicket /\ closing.stopped => S \subseteq 1 .. closing.after
            BY <2>2, <3>1, <3>2 DEF SInv, Answers
        <3>4. t # NoTicket => Promised(t, S)'
            BY <2>1, <3>3
        <3>5. t = calls'[d].ticket /\ S = calls'[d].covers
            BY <3>1, <3>2
        <3> QED
            BY <3>3, <3>4, <3>5 DEF Promised, Settled
    <2>3. closing.done /\ closing.delivered => (1 .. closing.after) \cap Unsent' = {}
        BY <1>3 DEF SInv, Answers
    <2> QED
        BY <1>1, <2>2, <2>3 DEF Answers
<1> QED
    BY <1>3, <1>4, <1>5, <1>6, <1>7, <1>8 DEF SInv

-----------------------------------------------------------------------------
(* SyncStart: the head of the chain runs, and every ticket gets closer.    *)

(* An idle SDK has no running sync to wait for, and a promise made on the  *)
(* chain moves to the sync that starts or closer to it.                    *)
LEMMA StartKeepsPromises ==
    ASSUME SInv, SyncStart, NEW t \in Nat, NEW S, Promised(t, S)
    PROVE  /\ t - 1 \in Nat
           /\ t - 1 # 0 => t - 1 \in DOMAIN chain' /\ chain'[t - 1] = "flush"
           /\ t - 1 = 0 => Head(chain) = "flush"
<1>1. sync.stage = "idle" /\ chain # <<>> /\ chain' = Tail(chain)
    BY DEF SyncStart
<1>2. chain \in Seq({"bootstrap", "tick", "flush"})
    BY DEF SInv, TypeOK
<1>3. t # 0 /\ t \in DOMAIN chain /\ chain[t] = "flush"
    BY <1>1 DEF Promised
<1>4. t = 1 => Head(chain) = "flush"
    BY <1>1, <1>2, <1>3
<1>5. t # 1 => t - 1 \in DOMAIN chain' /\ chain'[t - 1] = "flush"
    BY <1>1, <1>2, <1>3
<1> QED
    BY <1>3, <1>4, <1>5

(* The sync that starts: one without promises if the SDK has stopped and   *)
(* no flush asks for it, else one that waits for a snapshot to come.       *)
LEMMA Starting ==
    ASSUME SInv, SyncStart
    PROVE  /\ sync' \in Syncs /\ snapQueued' \in BOOLEAN /\ sync'.rest = <<>>
           /\ sync'.again => sync'.empty
           /\ sync'.awaits = "running" => snapshot.running
           /\ sync'.stage # "snapshot" => sync'.awaits = "none" /\ ~sync'.again
           /\ sync'.stage # "sending"
           /\ Head(chain) = "flush" =>
                 /\ sync'.stage = "snapshot" /\ sync'.awaits = "queued"
                 /\ sync'.again \/ aligned
<1>1. chain # <<>> /\ chain \in Seq({"bootstrap", "tick", "flush"}) /\ aligned \in BOOLEAN
      /\ snapQueued \in BOOLEAN
    BY DEF SInv, TypeOK, SyncStart
<1>2. CASE closing.stopped /\ Head(chain) # "flush"
    <2>1. sync' = [NoSync EXCEPT !.stage = "skip"] /\ UNCHANGED snapQueued
        BY <1>2 DEF SyncStart
    <2>2. sync' = [stage |-> "skip", awaits |-> "none", again |-> FALSE, empty |-> FALSE,
                   rest |-> <<>>]
        BY <2>1 DEF NoSync
    <2>3. sync' \in Syncs
        BY <2>2, NoFramesNoRows DEF Syncs
    <2> QED
        BY <1>1, <1>2, <2>1, <2>2, <2>3
<1>3. CASE ~(closing.stopped /\ Head(chain) # "flush")
    <2>1. PICK forced \in BOOLEAN, again \in BOOLEAN, empty \in BOOLEAN :
              /\ forced = (Head(chain) # "tick") /\ again = (~aligned /\ forced)
              /\ empty = (~aligned \/ forced)
        OBVIOUS
    <2>2. Pass(forced, again, empty)
        BY <1>3, <2>1 DEF SyncStart
    <2>3. /\ sync' = [stage |-> "snapshot", awaits |-> Awaited(forced), again |-> again,
                      empty |-> empty, rest |-> <<>>]
          /\ snapQueued' \in BOOLEAN
        BY <1>1, <2>2 DEF Pass
    <2>4. /\ Awaited(forced) \in {"queued", "running", "none"}
          /\ Awaited(forced) = "running" => snapshot.running
          /\ forced => Awaited(forced) = "queued"
        BY DEF Awaited
    <2>5. sync' \in Syncs
        BY <2>3, <2>4, NoFramesNoRows DEF Syncs
    <2>6. (again => empty) /\ (Head(chain) = "flush" => forced /\ (again \/ aligned))
        BY <1>1, <2>1
    <2> QED
        BY <2>3, <2>4, <2>5, <2>6
<1> QED
    BY <1>2, <1>3

(* SyncStart keeps the invariant.                                          *)
LEMMA SyncStartSInv == SInv /\ SyncStart => SInv'
<1> SUFFICES ASSUME SInv, SyncStart PROVE SInv'
    OBVIOUS
<1>1. /\ UNCHANGED <<recorded, buffer, quiet, snapshot, pending, aligned, losses,
                     flushLosses, fresh, confirmed, received, lossesBefore>>
      /\ sync.stage = "idle" /\ chain # <<>>
      /\ chain' = Tail(chain) /\ tick' = Later(tick)
      /\ closing' = [closing EXCEPT !.ticket = Later(@)]
    BY DEF SyncStart
<1>2. \A c \in Callers : calls'[c] = IF calls[c] = NoCall THEN NoCall
                                    ELSE [calls[c] EXCEPT !.ticket = Later(@)]
    BY DEF SyncStart
<1>3. /\ calls \in [Callers -> Calls \cup {NoCall}] /\ tick \in Tickets
      /\ closing \in [stopped : BOOLEAN, ticket : Tickets, done : BOOLEAN,
                      delivered : BOOLEAN, after : Nat]
      /\ chain \in Seq({"bootstrap", "tick", "flush"})
    BY DEF SInv, TypeOK
<1>4. \A c \in Callers : calls[c] # NoCall =>
          /\ calls'[c] \in Calls /\ calls'[c] # NoCall
          /\ calls'[c].losses = calls[c].losses /\ calls'[c].covers = calls[c].covers
          /\ calls'[c].ticket = Later(calls[c].ticket) /\ calls[c].ticket \in Tickets
    <2> SUFFICES ASSUME NEW c \in Callers, calls[c] # NoCall
                 PROVE  /\ calls'[c] \in Calls /\ calls'[c] # NoCall
                        /\ calls'[c].losses = calls[c].losses
                        /\ calls'[c].covers = calls[c].covers
                        /\ calls'[c].ticket = Later(calls[c].ticket)
                        /\ calls[c].ticket \in Tickets
        OBVIOUS
    <2>1. calls[c] \in Calls /\ calls[c].ticket \in Tickets
        BY <1>3 DEF Calls
    <2>2. Later(calls[c].ticket) \in Tickets
        BY <2>1, LaterIsATicket
    <2> QED
        BY <1>2, <2>1, <2>2, NamesAreDistinct DEF Calls
<1>5. /\ closing' \in [stopped : BOOLEAN, ticket : Tickets, done : BOOLEAN,
                       delivered : BOOLEAN, after : Nat]
      /\ closing'.stopped = closing.stopped /\ closing'.done = closing.done
      /\ closing'.delivered = closing.delivered /\ closing'.after = closing.after
      /\ closing'.ticket = Later(closing.ticket) /\ closing.ticket \in Tickets
    <2>1. closing.ticket \in Tickets /\ Later(closing.ticket) \in Tickets
        BY <1>3, LaterIsATicket
    <2> QED
        BY <1>1, <1>3, <2>1
<1>6. /\ sync' \in Syncs /\ snapQueued' \in BOOLEAN /\ sync'.rest = <<>>
      /\ sync'.again => sync'.empty
      /\ sync'.awaits = "running" => snapshot.running
      /\ sync'.stage # "snapshot" => sync'.awaits = "none"
      /\ sync'.stage # "sending"
      /\ Head(chain) = "flush" =>
            /\ sync'.stage = "snapshot" /\ sync'.awaits = "queued"
            /\ sync'.again \/ aligned
    BY Starting
<1>7. sync.rest = <<>>
    BY <1>1 DEF SInv, Shape
<1>8. NoSilentLoss' /\ InOrder' /\ UNCHANGED Unsent
    BY <1>1, <1>6, <1>7, RequestsMoveNothing
<1>9. chain' \in Seq({"bootstrap", "tick", "flush"}) /\ Len(chain') = Len(chain) - 1
      /\ Len(chain) \in Nat \ {0}
    BY <1>1, <1>3
<1>10. TypeOK'
    <2>1. calls' \in [Callers -> Calls \cup {NoCall}]
        <3>1. calls' = [c \in Callers |-> calls'[c]]
            BY DEF SyncStart
        <3> QED
            BY <1>2, <1>4, <3>1
    <2>2. tick' \in Tickets
        BY <1>1, <1>3, LaterIsATicket
    <2> QED
        BY <1>1, <1>5, <1>6, <1>9, <2>1, <2>2 DEF SInv, TypeOK
<1>11. Shape'
    BY <1>1, <1>6 DEF SInv, Shape
<1>12. FlushIsHonest'
    BY <1>1, <1>5 DEF SInv, FlushIsHonest
<1>13. LossesGrow'
    BY <1>1, <1>2, <1>4 DEF SInv, LossesGrow
<1>14. ~closing.done
    BY <1>1 DEF SInv, Ending
<1>15. Ending'
    <2>1. CASE ~closing.stopped
        BY <1>1, <1>5, <1>14, <2>1, LaterIsATicket DEF SInv, Ending
    <2>2. CASE closing.stopped
        <3>1. closing.ticket = Len(chain)
            BY <1>14, <2>2 DEF SInv, Ending
        <3>2. closing'.ticket = Len(chain')
            BY <1>5, <1>9, <3>1, LaterIsATicket
        <3> QED
            BY <1>1, <1>5, <1>14, <2>2, <3>2 DEF SInv, Ending
    <2> QED
        BY <2>1, <2>2
<1>16. ASSUME NEW t \in Tickets, t # NoTicket, NEW S, Promised(t, S)
       PROVE  /\ Later(t) # NoTicket
              /\ Later(t) # 0 => Later(t) \in DOMAIN chain' /\ chain'[Later(t)] = "flush"
              /\ Later(t) = 0 => /\ sync'.stage = "snapshot" /\ sync'.awaits = "queued"
                                 /\ sync'.again \/ aligned
    <2>1. t \in Nat
        BY <1>16 DEF Tickets
    <2>2. /\ t - 1 \in Nat
          /\ t - 1 # 0 => t - 1 \in DOMAIN chain' /\ chain'[t - 1] = "flush"
          /\ t - 1 = 0 => Head(chain) = "flush"
        BY <1>16, <2>1, StartKeepsPromises
    <2>3. Later(t) = t - 1 /\ Later(t) \in Nat
        BY <1>16, <2>1, <2>2, LaterIsATicket
    <2> QED
        BY <1>6, <2>2, <2>3, NamesAreDistinct
<1>17. Answers'
    <2>1. ASSUME NEW c \in Callers, calls'[c] # NoCall
          PROVE  IF calls'[c].ticket = NoTicket THEN closing.stopped
                 ELSE /\ Promised(calls[c].ticket, calls[c].covers)'
                      /\ closing.stopped => calls'[c].covers \subseteq 1 .. closing.after
        <3>1. PICK t, S : t = calls[c].ticket /\ S = calls[c].covers
            OBVIOUS
        <3>2. /\ calls[c] # NoCall /\ t \in Tickets
              /\ calls'[c].ticket = Later(t) /\ calls'[c].covers = S
            BY <1>2, <1>4, <2>1, <3>1
        <3>3. CASE t = NoTicket
            <4>1. closing.stopped /\ Later(t) = NoTicket
                BY <3>1, <3>2, <3>3, LaterIsATicket DEF SInv, Answers
            <4> QED
                BY <3>2, <4>1
        <3>4. CASE t # NoTicket
            <4>1. Promised(t, S) /\ (closing.stopped => S \subseteq 1 .. closing.after)
                BY <3>1, <3>2, <3>4 DEF SInv, Answers
            <4>2. /\ Later(t) # NoTicket
                  /\ Later(t) # 0 => Later(t) \in DOMAIN chain' /\ chain'[Later(t)] = "flush"
                  /\ Later(t) = 0 => /\ sync'.stage = "snapshot" /\ sync'.awaits = "queued"
                                     /\ sync'.again \/ aligned
                BY <1>16, <3>2, <3>4, <4>1
            <4> QED
                BY <1>1, <3>2, <4>1, <4>2 DEF Promised, Settled
        <3> QED
            BY <3>3, <3>4
    <2>2. ASSUME closing.stopped
          PROVE  closing'.ticket # NoTicket /\ Promised(closing.ticket, 1 .. closing.after)'
        <3>1. PICK t, S : t = closing.ticket /\ S = 1 .. closing.after
            OBVIOUS
        <3>2. t \in Tickets /\ t # NoTicket /\ Promised(t, S)
            BY <1>5, <1>14, <2>2, <3>1 DEF SInv, Answers
        <3>3. /\ Later(t) # NoTicket
              /\ Later(t) # 0 => Later(t) \in DOMAIN chain' /\ chain'[Later(t)] = "flush"
              /\ Later(t) = 0 => /\ sync'.stage = "snapshot" /\ sync'.awaits = "queued"
                                 /\ sync'.again \/ aligned
            BY <1>16, <3>2
        <3>4. closing'.ticket = Later(t) /\ S = 1 .. closing'.after
            BY <1>5, <3>1
        <3> QED
            BY <1>1, <3>3, <3>4 DEF Promised, Settled
    <2> QED
        BY <1>5, <1>14, <2>1, <2>2 DEF Answers
<1> QED
    BY <1>8, <1>10, <1>11, <1>12, <1>13, <1>15, <1>17 DEF SInv

-----------------------------------------------------------------------------
(* The invariant and the theorems.                                         *)

(* No step of the SDK breaks the invariant.                                *)
LEMMA NextSInv == SInv /\ [Next]_vars => SInv'
<1> SUFFICES ASSUME SInv, [Next]_vars PROVE SInv'
    OBVIOUS
<1>1. CASE UNCHANGED vars
    <2>1. UNCHANGED <<recorded, buffer, quiet, snapQueued, snapshot, pending, chain, sync,
                      tick, aligned, losses, flushLosses, calls, fresh, confirmed, closing,
                      received, lossesBefore>>
        BY <1>1 DEF vars, snapVars, callVars
    <2>2. UNCHANGED <<Rows(pending), Rows(sync.rest), Sorted(pending), Sorted(sync.rest), Unsent>>
        BY <2>1 DEF Rows, Sorted, Unsent
    <2>3. TypeOK' /\ Shape' /\ FlushIsHonest'
        BY <2>1 DEF SInv, TypeOK, Shape, FlushIsHonest
    <2>4. NoSilentLoss' /\ InOrder'
        BY <2>1, <2>2 DEF SInv, NoSilentLoss, InOrder, Below
    <2>5. LossesGrow' /\ Ending'
        BY <2>1 DEF SInv, LossesGrow, Ending
    <2>6. Answers'
        BY <2>1, <2>2 DEF SInv, Answers, Promised, Settled
    <2> QED
        BY <2>3, <2>4, <2>5, <2>6 DEF SInv
<1>2. CASE event \/ AggregateTimer
    BY <1>2, EventSInv, AggregateTimerSInv
<1>3. CASE SnapshotIdle \/ SnapshotStart \/ SnapshotDone \/ SnapshotFails
    BY <1>3, SnapshotIdleSInv, SnapshotStartSInv, SnapshotDoneSInv, SnapshotFailsSInv
<1>4. CASE SyncTimer \/ shutdown
    BY <1>4, SyncTimerSInv, ShutdownSInv
<1>5. CASE \E c \in Callers : flush(c) \/ LateAnswer(c)
    BY <1>5, FlushSInv, LateAnswerSInv
<1>6. CASE SyncStart \/ SkipSync \/ TakePending \/ NothingToSend
    BY <1>6, SyncStartSInv, SkipSyncSInv, TakePendingSInv, NothingToSendSInv
<1>7. CASE Post
    BY <1>7, PostNextSInv, PostLastSInv, PostFailsSInv DEF Post
<1> QED
    BY <1>1, <1>2, <1>3, <1>4, <1>5, <1>6, <1>7 DEF Next

(* In every behaviour of the SDK the invariant holds.                      *)
THEOREM SInvHolds == Spec => []SInv
<1>1. Init => SInv
    BY InitSInv
<1>2. SInv /\ [Next]_vars => SInv'
    BY NextSInv
<1> QED
    BY <1>1, <1>2, PTL DEF Spec

(* The types hold, and never more than maxPendingFrames frames are kept.   *)
THEOREM DeliveryTypesHold == Spec => []TypeOK
<1>1. SInv => TypeOK
    BY DEF SInv
<1> QED
    BY <1>1, SInvHolds, PTL

(* An event that the SDK gives up, wherever that happens, is counted in    *)
(* _deliveryLosses after it was recorded.                                  *)
THEOREM LossesAreCounted == Spec => []NoSilentLoss
<1>1. SInv => NoSilentLoss
    BY DEF SInv
<1> QED
    BY <1>1, SInvHolds, PTL

(* flush() answers ok only for what the server has, as long as it was      *)
(* recorded before shutdown().                                             *)
THEOREM FlushAnswersAreTrue == Spec => []FlushIsHonest
<1>1. SInv => FlushIsHonest
    BY DEF SInv
<1> QED
    BY <1>1, SInvHolds, PTL

(* What is still to be sent is younger than whatever arrived: nothing is   *)
(* sent twice, nothing overtakes.                                          *)
THEOREM DeliveryIsOrdered == Spec => []DeliveredInOrder
<1>1. SInv => DeliveredInOrder
    BY DEF SInv, InOrder, DeliveredInOrder, Below
<1> QED
    BY <1>1, SInvHolds, PTL

(* After shutdown() resolved no step posts or starts a sync.               *)
LEMMA NothingAfterTheEnd ==
    SInv /\ [Next]_vars => [closing.done => received' = received /\ sync' = sync]_vars
<1> SUFFICES ASSUME SInv, Next, closing.done
             PROVE  received' = received /\ sync' = sync
    BY DEF vars
<1>1. sync = NoSync /\ chain = <<>> /\ closing.stopped
    BY DEF SInv, Ending
<1>2. sync.stage = "idle" /\ sync.awaits = "none" /\ sync \in Syncs
    BY <1>1, Parts DEF NoSync
<1>3. CASE SnapshotIdle \/ SnapshotStart
    <2>1. PICK to \in {"running", "none"} :
              sync' = [sync EXCEPT !.awaits = IF @ = "queued" THEN to ELSE @]
        BY <1>3 DEF SnapshotIdle, SnapshotStart
    <2>2. received' = received
        BY <1>3 DEF SnapshotIdle, SnapshotStart
    <2> QED
        BY <1>2, <2>1, <2>2, AwaitsFacts
<1>4. CASE SnapshotDone \/ SnapshotFails
    <2>1. /\ sync' = [sync EXCEPT !.awaits = IF @ = "running" THEN "none" ELSE @]
          /\ received' = received
        BY <1>4 DEF SnapshotDone, SnapshotFails, Released
    <2> QED
        BY <1>2, <2>1, AwaitsFacts
<1>5. CASE event \/ AggregateTimer \/ SyncTimer \/ shutdown
    BY <1>5 DEF event, AggregateTimer, SyncTimer, shutdown
<1>6. CASE \E c \in Callers : flush(c) \/ LateAnswer(c)
    BY <1>6 DEF flush, LateAnswer
<1>7. CASE SyncStart \/ SkipSync \/ TakePending \/ NothingToSend \/ Post
    BY <1>1, <1>2, <1>7
       DEF SyncStart, SkipSync, TakePending, NothingToSend, Post, PostNext, PostLast, PostFails
<1> QED
    BY <1>3, <1>4, <1>5, <1>6, <1>7 DEF Next

(* shutdown() is final.                                                    *)
THEOREM NothingIsSentAfterShutdown == Spec => ShutdownIsFinal
<1>1. SInv /\ [Next]_vars => [closing.done => received' = received /\ sync' = sync]_vars
    BY NothingAfterTheEnd
<1> QED
    BY <1>1, SInvHolds, PTL DEF Spec, ShutdownIsFinal
=============================================================================
