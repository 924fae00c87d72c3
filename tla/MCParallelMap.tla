--------------------------- MODULE MCParallelMap ----------------------------
(* Four inputs and three workers: more inputs than workers, so a worker    *)
(* comes back for a second one, and several may throw.                     *)
EXTENDS ParallelMap
=============================================================================
