------------------------------ MODULE MCHealing ------------------------------
(* Healing on small sets of rows and executions.                           *)
EXTENDS Healing

CONSTANTS c1, c2, j1

OneJob == [c \in Chunks |-> j1]

AnyFeedback == [professor: BOOLEAN, art: BOOLEAN]
=============================================================================
