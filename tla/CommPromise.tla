---------------------------- MODULE CommPromise ----------------------------
(***************************************************************************)
(* What the comm service promises of a message while the process lives,    *)
(* without queue, pump, rows or timers (common/plugins/comm/interface.py   *)
(* and the module docstring of service.py): a message is accepted, sent    *)
(* any number of times, confirmed any number of times, and ends in one way. *)
(*                                                                         *)
(* A message belongs to a group; a group is over at once for all of its    *)
(* messages, as done only when its confirmed deliveries reach min_success. *)
(* An evicted message may still be in the batch being sent.                *)
(***************************************************************************)
EXTENDS Integers, FiniteSets, FiniteSetsExt

CONSTANTS Msg, Grp, GroupOf, MinSuccess,
          CountBound  \* bound: counters saturate here

VARIABLES fate, tries, wins

vars == <<fate, tries, wins>>

Count(f, S) == [m \in Msg |-> IF m \in S /\ f[m] < CountBound THEN f[m] + 1 ELSE f[m]]
Wins(w, g)  == MapThenSumSet(LAMBDA m : w[m], {m \in Msg : GroupOf[m] = g})

Init ==
  /\ fate = [m \in Msg |-> "unsent"]
  /\ tries = [m \in Msg |-> 0]
  /\ wins = [m \in Msg |-> 0]

\* One call's messages S are accepted; backpressure drops D.
Accept(S, D) ==
  /\ \A m \in S : fate[m] = "unsent"
  /\ \A m \in D \ S : fate[m] = "open"
  /\ fate' = [m \in Msg |-> IF m \in D THEN "dropped" ELSE IF m \in S THEN "open" ELSE fate[m]]
  /\ UNCHANGED <<tries, wins>>

\* Only what is not settled is sent.
Send(S) ==
  /\ \A m \in S : fate[m] \in {"open", "dropped"}
  /\ tries' = Count(tries, S)
  /\ UNCHANGED <<fate, wins>>

\* Open messages of the groups G end as `how`.
Close(G, how) ==
  fate' = [m \in Msg |-> IF fate[m] = "open" /\ GroupOf[m] \in G THEN how ELSE fate[m]]

\* Deliveries of S are confirmed, which makes the groups G done.
Confirm(S, G) ==
  /\ \A m \in S : fate[m] \in {"open", "dropped"} /\ tries[m] > 0
  /\ wins' = Count(wins, S)
  /\ \A m \in Msg : GroupOf[m] \in G /\ fate[m] = "open" => Wins(wins', GroupOf[m]) >= MinSuccess[m]
  /\ Close(G, "done")
  /\ UNCHANGED tries

GiveUp(G) ==
  /\ Close(G, "failed")
  /\ UNCHANGED <<tries, wins>>

Next ==
  \/ \E S, D \in SUBSET Msg : Accept(S, D)
  \/ \E S \in SUBSET Msg : Send(S)
  \/ \E S \in SUBSET Msg, G \in SUBSET Grp : Confirm(S, G)
  \/ \E G \in SUBSET Grp : GiveUp(G)

Spec == Init /\ [][Next]_vars

=============================================================================
