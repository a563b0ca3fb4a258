----------------------------- MODULE MCPipeline -----------------------------
(* Pipeline on small sets of rows and actors.                              *)
EXTENDS Pipeline

CONSTANTS c1, c2, j1, j2

OneJob == [c \in Chunks |-> j1]

OneChunkPerJob == [c \in Chunks |-> IF c = c1 THEN j1 ELSE j2]

AnyFeedback == [professor: BOOLEAN, art: BOOLEAN]
=============================================================================
