------------------------------- MODULE Delivery -------------------------------
(***************************************************************************)
(* What a pipeline promises for the spans it has accepted: each one is     *)
(* settled once, exported or dropped, and the pipeline closes only when    *)
(* nothing it accepted is left.                                            *)
(***************************************************************************)
CONSTANT Spans

VARIABLES fate,  \* "absent", "pending", "exported" or "dropped", per span
          open   \* the processor's Shutdown has not returned

Init ==
  /\ fate = [s \in Spans |-> "absent"]
  /\ open = TRUE

Accept(S) ==
  /\ open /\ \A s \in S : fate[s] = "absent"
  /\ fate' = [s \in Spans |-> IF s \in S THEN "pending" ELSE fate[s]]
  /\ UNCHANGED open

Settle(S, how) ==
  /\ \A s \in S : fate[s] = "pending"
  /\ fate' = [s \in Spans |-> IF s \in S THEN how ELSE fate[s]]
  /\ UNCHANGED open

Close ==
  /\ open /\ \A s \in Spans : fate[s] # "pending"
  /\ open' = FALSE
  /\ UNCHANGED fate

Next ==
  \/ \E S \in SUBSET Spans : Accept(S)
  \/ \E S \in SUBSET Spans, how \in {"exported", "dropped"} : Settle(S, how)
  \/ Close

Spec == Init /\ [][Next]_<<fate, open>>
=============================================================================
