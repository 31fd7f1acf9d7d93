-------------------------- MODULE MCPageCollection --------------------------
(***************************************************************************)
(* Small instances of PageCollection.                                      *)
(***************************************************************************)
EXTENDS PageCollection, TLC

CONSTANTS p1, p2, k1, k2, k3

MCProcs == {p1, p2}
MCRow(k) == [key |-> k, payload |-> "v"]
MCKeys == {k1, k2, k3}
MCKeys2 == {k1, k2}
MCPayloads == {"v"}
MCTarget1 == {MCRow(k1)}
MCSource2 == <<MCRow(k1), MCRow(k2)>>
MCSource3 == <<MCRow(k1), MCRow(k2), MCRow(k3)>>
MCTarget == {MCRow(k1), MCRow(k2)}

(* k1 changes its payload, and with "w" it is no longer a target.          *)
MCPayloads2 == {"v", "w"}
MCTargetV == {MCRow(k1), MCRow(k2)}

ProcSymmetry == Permutations(MCProcs)

=============================================================================
