----------------------------- MODULE MCNodeSdk -----------------------------
(* Callers of flush() that share one buffer and one chain of syncs.        *)
EXTENDS NodeSdk, TLC

(* Callers are interchangeable: no definition names one of them.           *)
AnyCaller == Permutations(Callers)
=============================================================================
