--------------------------- MODULE MCCommandStore ---------------------------
(* Model values and small sets for checking CommandStore alone.            *)
EXTENDS CommandStore, TLC

CONSTANTS c1, c2, a1, a2

MCResults == {[tookMs |-> 1], [fetchedUnder |-> 1]}

MCSymmetry == Permutations(Commands) \cup Permutations(Agents)
=============================================================================
