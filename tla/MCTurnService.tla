--------------------------- MODULE MCTurnService ---------------------------
(* Three sends to two processes: a message, its resend to the other process, *)
(* and another message to the first process.                                 *)
EXTENDS TurnService

CONSTANTS s1, s2, s3, p1, p2, m1, m2

MCSend == {s1, s2, s3}

MCHomeOf == [s \in MCSend |-> IF s = s2 THEN p2 ELSE p1]

MCMessageOf == [s \in MCSend |-> IF s = s3 THEN m2 ELSE m1]
=============================================================================
