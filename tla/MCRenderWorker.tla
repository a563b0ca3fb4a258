--------------------------- MODULE MCRenderWorker ---------------------------
(* RenderWorker on small sets of rows and deliveries.                      *)
EXTENDS RenderWorker, TLC

CONSTANTS c1, c2, j1, j2

(* One chunk per part job, as POST /generate creates them; or two chunks   *)
(* of one job, as the splitter is meant to cut a part.                     *)
OneChunkPerJob == [c \in Chunks |-> IF c = c1 THEN j1 ELSE j2]

OneJob == [c \in Chunks |-> j1]

DeliverySymmetry == Permutations(Deliveries)
=============================================================================
