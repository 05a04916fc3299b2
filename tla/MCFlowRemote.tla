---------------------------- MODULE MCFlowRemote ----------------------------
(* Instances of FlowRemote for TLC: every worker runs one job at a time. *)
EXTENDS FlowRemote

\* Two jobs that are not retried, and one that is beside one that cannot be sent.
TwoCalls == {[big |-> {}, retries |-> 0], [big |-> {2}, retries |-> 1]}
One == [w \in Workers |-> 1]
=============================================================================
