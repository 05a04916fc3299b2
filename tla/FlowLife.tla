------------------------------ MODULE FlowLife ------------------------------
(***************************************************************************)
(* The life of a run as its initiator sees it, without drivers, store      *)
(* transactions or restarts (the state machine of section 5.8.1 of the     *)
(* design, with the ends the code adds): created, running, perhaps         *)
(* interrupted, and over exactly once.  Nodes are attempted until their    *)
(* end is known, and a run that is over without a failure has them all.    *)
(***************************************************************************)
EXTENDS Integers

CONSTANT Nodes

VARIABLES state, tries, done

vars == <<state, tries, done>>

Final == {"succeeded", "failed", "cancelled"}
Live == {"pending", "running", "interrupted"}
Open == {i \in Nodes : done[i] \in {"none", "unknown"}}

Init ==
  /\ state = "none"
  /\ tries = [i \in Nodes |-> 0]
  /\ done = [i \in Nodes |-> "none"]

Create == state = "none" /\ state' = "pending" /\ UNCHANGED <<tries, done>>

Run == state \in Live /\ state' = "running" /\ UNCHANGED <<tries, done>>

Interrupt == state \in Live /\ state' = "interrupted" /\ UNCHANGED <<tries, done>>

\* Only a node whose end is not known is attempted.
Attempt(i) ==
  /\ state \in Live
  /\ i \in Open
  /\ tries' = [tries EXCEPT ![i] = @ + 1]
  /\ UNCHANGED <<state, done>>

\* The ends e of nodes S become known.
Settle(S, e) ==
  /\ state \in Live
  /\ S \subseteq Open
  /\ done' = [i \in Nodes |-> IF i \in S THEN e ELSE done[i]]
  /\ UNCHANGED <<state, tries>>

End ==
  /\ state \in Live
  /\ state' \in Final
  /\ state' # "failed" => Open = {}
  /\ UNCHANGED <<tries, done>>

Next ==
  \/ Create \/ Run \/ Interrupt \/ End
  \/ \E i \in Nodes : Attempt(i)
  \/ \E S \in SUBSET Nodes, e \in {"succeeded", "failed", "skipped", "cancelled", "unknown"} : Settle(S, e)

Spec == Init /\ [][Next]_vars

=============================================================================
