------------------------------ MODULE MCCollector ------------------------------
(* Small instances of Collector for TLC. *)
EXTENDS Collector, TLC

CONSTANTS ext, expA, expB, rcvA, rcvB, rcv

\* Two pipelines with a shared receiver, and an extension.
MCNeeds ==
  [n \in Nodes |-> CASE n = rcvA -> {expA, ext}
                     [] n = rcvB -> {expB, ext}
                     [] n \in {expA, expB} -> {ext}
                     [] n = ext -> {}]

MCCompOf == [n \in Nodes |-> IF n \in {rcvA, rcvB} THEN rcv ELSE n]
=============================================================================
