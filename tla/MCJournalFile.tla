--------------------------- MODULE MCJournalFile ---------------------------
(* Three processes in one directory: an id from --agent-id that overrides  *)
(* AGENT_ID, one from AGENT_ID, and one drawn at random.                   *)
EXTENDS JournalFile, TLC

CONSTANTS p1, p2, p3, i1, i2, i3, i4

MCCliAgentId == [p \in Procs |-> IF p = p1 THEN i1 ELSE Null]

MCEnvAgentId == [p \in Procs |-> IF p = p1 THEN i2 ELSE IF p = p2 THEN i2 ELSE Null]

MCSymmetry == Permutations({i3, i4}) \cup Permutations(Contents)
=============================================================================
