-------------------------- MODULE MCReliableSystem --------------------------
(* Model values and small sets for checking ReliableSystem.                *)
EXTENDS DocumentedClaims, TLC

CONSTANTS c1, c2, a1, a2

MCResults ==
    [tookMs : DelayMs] \cup [fetchedUnder : 1..MaxLeases]

MCExtendMs == {HeartbeatExtendMs}

AgentSymmetry == Permutations(Agents)
=============================================================================
