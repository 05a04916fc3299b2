----------------------------- MODULE MCFlowRun -----------------------------
(* Instances of FlowRun for TLC: a prepare step, an optional one, a clean-up. *)
EXTENDS FlowRun

\* Only the first node is retried.
FirstRetried == [i \in Nodes |-> IF i = 1 THEN 1 ELSE 0]

\* No node is retried; every node has one provider.
Never == [i \in Nodes |-> 0]
One == [i \in Nodes |-> 1]

\* The second node runs in mode=all with two providers.
SecondTwice == [i \in Nodes |-> IF i = 2 THEN 2 ELSE 1]
=============================================================================
