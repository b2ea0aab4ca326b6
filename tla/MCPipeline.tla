------------------------------ MODULE MCPipeline ------------------------------
(* A small instance of Pipeline for TLC. *)
EXTENDS Pipeline, TLC

CONSTANTS h1, h2, k1, k2

\* The same combination or two; items that fill a batch and that overflow it.
MCItems == [c \in Callers |-> IF c = h1 THEN {[key |-> k1, n |-> 1]}
                                        ELSE [key : Keys, n : {1, 2}]]

Config(multi, limit, timed, size, max) ==
  [multi |-> multi, limit |-> limit, timed |-> timed, size |-> size, max |-> max]

\* One configuration per way of working: a shard per combination with and
\* without a timer, one shard, and one that Validate refuses.
MCConfigs ==
  { Config(TRUE, 1, TRUE, 2, 2), Config(TRUE, 0, FALSE, 2, 2),
    Config(FALSE, 0, TRUE, 2, 0), Config(FALSE, 0, TRUE, 3, 1) }
=============================================================================
