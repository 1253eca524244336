------------------------------ MODULE MCSdkCore ------------------------------
(* Two experiments on one key and one goal each, a snapshot that changes the first and   *)
(* ends the second, and two series of a metric that has room for one.                    *)
EXTENDS SdkCore

CONSTANTS s1, s2, s3, e1, e2, k1, k2, m1, m2, control, treated, x, y

Variant(key, weight, keys) ==
    [key |-> key, weight |-> weight, values |-> [k \in keys |-> key]]

First(allocation, keys) ==
    [id |-> e1, enabled |-> TRUE, allocation |-> allocation, goalMetric |-> m1,
     variants |-> <<Variant(control, 1, keys), Variant(treated, 2, keys)>>]

Second == [id |-> e2, enabled |-> TRUE, allocation |-> 6, goalMetric |-> m2,
           variants |-> <<Variant(control, 0, {k2}), Variant(treated, 1, {k1, k2})>>]

MCConfigs == {<<First(6, {k1}), Second>>, <<First(5, {k1}), [Second EXCEPT !.enabled = FALSE]>>}

MCBucket == (e1 :> (s1 :> 1 @@ s2 :> 5 @@ s3 :> 2)) @@ (e2 :> (s1 :> 2 @@ s2 :> 0 @@ s3 :> 4))

MCRecordings ==
    {<<<<"counter", dims>>, 1, Nil>> : dims \in {x, y, Invalid}}
    \cup {<<<<"gauge", x>>, v, Nil>> : v \in {1, 2}}
    \cup {<<<<"histogram", x>>, 1, "attrs">>, <<<<"histogram", x>>, 2, "attrs">>,
          <<<<"histogram", x>>, 2, Nil>>}
    \cup {<<<<"distinct", x>>, v, Nil>> : v \in {1, 2}}

MCSeries == {r[1] : r \in MCRecordings}

\* The share of the allocation a variant gets, over all buckets, is its weight, to one bucket;
\* no allocated bucket is left out and none beyond the allocation is taken.
SharesAreFair(e) ==
    LET all == WeightUpTo(e, Len(e.variants))
        share(v) == Cardinality({b \in 0..(Buckets - 1) : VariantAt(e, b) = v})
    IN  /\ \A b \in 0..(Buckets - 1) : VariantAt(e, b) = Nil <=> b >= e.allocation
        /\ \A v \in Range(e.variants) :
              /\ share(v) * all < v.weight * e.allocation + all
              /\ v.weight * e.allocation < share(v) * all + all

ASSUME SharesOfSmallExperimentsAreFair ==
    \A allocation \in 0..Buckets, w1, w2, w3 \in 0..3 :
        w1 + w2 + w3 > 0 =>
            SharesAreFair([First(allocation, {k1}) EXCEPT
                             !.variants = <<Variant(control, w1, {}), Variant(treated, w2, {}),
                                            Variant(x, w3, {})>>])
=============================================================================
