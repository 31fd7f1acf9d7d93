---------------------------- MODULE MCHeavyWorker ----------------------------
(***************************************************************************)
(* Small instances of HeavyWorker.                                         *)
(***************************************************************************)
EXTENDS HeavyWorker, TLC

CONSTANTS c1, c2, shopping, budget, match

NoCaller == {}
OneCaller == {c1}
TwoCallers == {c1, c2}
OneSource == {shopping}
BothSources == {shopping, budget}

CallerSymmetry == Permutations(Callers)
JobSymmetry == {f @@ g : f \in Permutations(Callers), g \in Permutations(Sources)}

=============================================================================
