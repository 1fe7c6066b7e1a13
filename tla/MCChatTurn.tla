----------------------------- MODULE MCChatTurn -----------------------------
(* One turn, delivered twice, to two instances.                               *)
EXTENDS ChatTurn
CONSTANTS t1, i1, i2, r1, r2
MCTurns == {t1}
MCRuns == {r1, r2}
MCInstances == {i1, i2}
MCHome == [r \in MCRuns |-> IF r = r2 THEN i2 ELSE i1]
=============================================================================
