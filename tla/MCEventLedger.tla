--------------------------- MODULE MCEventLedger ---------------------------
(* Two writers of one run, and a payload of a foreign run.                 *)
EXTENDS EventLedger

CONSTANTS W1, W2, E1, E2, Foreign, R1, R2

MCWriter == {W1, W2}
MCEvent == {E1, E2, Foreign}
MCRun == {R1, R2}
MCRunOf == [e \in MCEvent |-> IF e = Foreign THEN R2 ELSE R1]
=============================================================================
