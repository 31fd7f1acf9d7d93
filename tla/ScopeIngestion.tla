--------------------------- MODULE ScopeIngestion ---------------------------
(***************************************************************************)
(* What the collection of one scope promises, without pages, checkpoints,  *)
(* processes or failures: a generation only gathers rows, is abandoned as  *)
(* a whole or not at all, and is declared done only with every row the     *)
(* source announced.                                                       *)
(***************************************************************************)
EXTENDS Integers, FiniteSets

CONSTANT Rows

VARIABLES
  phase,      \* "none", "open" or "done"
  have,       \* the rows the current generation has gathered
  announced   \* the total the source announced, -1 while unknown

ivars == <<phase, have, announced>>

Init == phase = "none" /\ have = {} /\ announced = -1

(* Begin, or begin again, from nothing.                                    *)
Open == phase' = "open" /\ have' = {} /\ announced' = -1

(* One more page.  An announcement never shrinks and never falls short of  *)
(* what has been gathered.                                                 *)
Gather ==
  /\ phase = "open"
  /\ have' \in SUBSET Rows /\ have \subseteq have'
  /\ announced' >= announced
  /\ announced' > 0 => Cardinality(have') <= announced'
  /\ \/ phase' = "open" /\ have' # have
     \/ phase' = "done" /\ (announced' > 0 => Cardinality(have') = announced')

Next == Open \/ Gather

Spec == Init /\ [][Next]_ivars

=============================================================================
