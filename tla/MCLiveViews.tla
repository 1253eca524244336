----------------------------- MODULE MCLiveViews -----------------------------
(* Two SDKs of one role, whose bodies meet in every kind of series, and one of another. *)
EXTENDS LiveViews

CONSTANTS a1, a2, b1, ra, rb, d1, d2, d3, none, ex, lost, open, tap

MCRoleOf == [i \in Instances |-> IF i = b1 THEN rb ELSE ra]

Row(kind, name, dims, value) == [kind |-> kind, name |-> name, dims |-> dims, value |-> value]
Counter(dims, value) == Row("counters", "c", dims, value)
Gauge(dims, value) == Row("gauges", "g", dims, value)
Hist(count, max, exemplar) ==
    Row("histograms", "h", d1, [count |-> count, max |-> max, exemplar |-> exemplar])
Distinct(ranks) == Row("distincts", "d", d1, ranks)
Event(name, slot) == [kind |-> "events", name |-> name, slot |-> slot]
Line(level, name) == [kind |-> "logs", level |-> level, name |-> name]

First == <<Event(open, none), Event("experiment.exposure", d1), Line("error", lost),
           Counter(d1, 1), Counter(d2, 2), Gauge(d1, 1), Hist(1, 5, ex), Distinct(<<1, 3>>)>>

Second == <<Event(tap, none), Event("experiment.goal", d1), Line("warn", lost),
            Line("error", lost), Counter(d3, 4), Counter(d1, 8), Gauge(d1, 2),
            Hist(4, 5, none), Distinct(<<2, 1>>)>>

Third == <<Event(open, none), Line("error", lost), Counter(d3, 1)>>

MCRows == {First[k] : k \in DOMAIN First} \cup {Second[k] : k \in DOMAIN Second}
          \cup {Third[k] : k \in DOMAIN Third}

MCErrors == [i \in Instances |-> IF i = a1 THEN {0, -1} ELSE {0}]

MCBodies == [i \in Instances |-> CASE i = a1 -> {First} [] i = a2 -> {Second} [] i = b1 -> {Third}]
=============================================================================
