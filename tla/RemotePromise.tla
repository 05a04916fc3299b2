---------------------------- MODULE RemotePromise ----------------------------
(***************************************************************************)
(* What run_remote promises to the step that calls it: every job gets at   *)
(* most one verdict, which stands; the call returns only when all have     *)
(* one; and when the fate of a job is unknown the run has been interrupted *)
(* before the step can see it.  Nodes, leases and messages do not appear.  *)
(***************************************************************************)
CONSTANT Jobs

VARIABLES
  verdict,      \* per job: "open" or the state of its RemoteResult
  interrupted,  \* the jobs on whose account the run was interrupted
  call          \* "on", "returned" to the step, or "cut" off by a cancellation

vars == <<verdict, interrupted, call>>

Verdicts == {"succeeded", "failed", "skipped", "cancelled", "unknown"}

Init ==
  /\ verdict \in [Jobs -> {"open", "failed"}]
  /\ interrupted = {}
  /\ call = "on"

Unknown == {j \in Jobs : verdict[j] = "unknown"}

Settled(v) == \A j \in Jobs : verdict[j] = "open" \/ v[j] = verdict[j]

Judge ==
  /\ call = "on"
  /\ verdict' \in [Jobs -> Verdicts \union {"open"}]
  /\ Settled(verdict')
  /\ UNCHANGED <<interrupted, call>>

Interrupt(j) ==
  /\ call = "on"
  /\ verdict[j] = "unknown"
  /\ interrupted' = interrupted \union {j}
  /\ UNCHANGED <<verdict, call>>

\* The deadline's verdicts come with the return itself.
Return ==
  /\ call = "on"
  /\ Unknown \subseteq interrupted
  /\ call' = "returned"
  /\ verdict' \in [Jobs -> Verdicts]
  /\ Settled(verdict')
  /\ UNCHANGED interrupted

Cut == call = "on" /\ call' = "cut" /\ UNCHANGED <<verdict, interrupted>>

Next == Judge \/ Return \/ Cut \/ \E j \in Jobs : Interrupt(j)

Spec == Init /\ [][Next]_vars

=============================================================================
