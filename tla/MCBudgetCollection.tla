------------------------- MODULE MCBudgetCollection -------------------------
(***************************************************************************)
(* Small instances of BudgetCollection.                                    *)
(***************************************************************************)
EXTENDS BudgetCollection

CONSTANTS p1, k1, k2, k3

MCKeys == {k1, k2, k3}
MCRow(k) == [key |-> k, payload |-> "v"]
MCSource == <<MCRow(k1), MCRow(k2), MCRow(k3)>>

=============================================================================
