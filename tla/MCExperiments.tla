--------------------------- MODULE MCExperiments ---------------------------
(* Two plans of two variants, a trusted and an untrusted credential, and   *)
(* one unit more than the ledger holds.                                    *)
EXTENDS Experiments, TLC

CONSTANTS u1, u2, u3

MCPaths == ExperimentPaths
MCHolder == [p \in MCPaths |-> IF p \in {"plan", "enabled", "shipped"}
                               THEN "experiment" ELSE "top"]
MCPlans == {"planA", "planB"}
MCVariants == {"control", "easy"}
MCSettings == {"a0", "a1", "b0", "b1"}
MCValues == {"present", "on", "off"} \cup MCPlans \cup MCVariants \cup MCSettings
MCValueIn == [p \in MCPlans |-> [v \in MCVariants |->
                 CASE p = "planA" -> IF v = "easy" THEN "a1" ELSE "a0"
                   [] p = "planB" -> IF v = "easy" THEN "b1" ELSE "b0"]]
Exposure(u, v) == [kind |-> "exposure", unit |-> u, variant |-> v]
Goal(u, v, n) == [kind |-> "goal", unit |-> u, variant |-> v, value |-> n]
MCUnits == {u1, u2, u3}
(* Exposures alone and in pairs (the same unit twice, two units), a goal   *)
(* after, before and without its exposure.                                 *)
MCBatches ==
    {<<Exposure(u, v)>> : u \in MCUnits, v \in MCVariants}
    \cup {<<Exposure(u, v), Exposure(w, x)>> :
             u \in MCUnits, w \in MCUnits, v \in {"control"}, x \in MCVariants}
    \cup {<<Goal(u, "control", n)>> : u \in MCUnits, n \in {1, 2}}
    \cup {<<Exposure(u, "control"), Goal(u, v, 1)>> : u \in MCUnits, v \in MCVariants}
UnitSymmetry == Permutations(MCUnits)
=============================================================================
