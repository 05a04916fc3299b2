---------------------------- MODULE MCCommOutbox ----------------------------
(* Instances of CommOutbox for TLC: a node that reports up, a hub that fans out. *)
EXTENDS CommOutbox

CONSTANTS u1, l1, d1, d2, \* records
          n1, n2          \* remote nodes

Pick(S, yes, no) == [m \in Msg |-> IF m \in S THEN yes ELSE no]

\* Every record its own group: report and send_to.
OwnGroup == [m \in Msg |-> m]
AnyDest == [m \in Msg |-> n1]
OneEach == {<<m>> : m \in Msg}
Unlimited == [m \in Msg |-> 0]

\* A hub: a broadcast to n1 and n2 with its local copy.
HubScope == Pick({l1}, "local", "down")
HubGroup == [m \in Msg |-> IF m \in {d1, d2} THEN d1 ELSE m]
HubDest == Pick({d2}, n2, n1)
HubMin == Pick({l1}, 0, 1)
HubMax == [m \in Msg |-> IF m = l1 THEN 1 ELSE 2]
HubCalls == {<<d1, d2, l1>>}

\* A node that reports u1 up until two requests have succeeded, and l1 to itself.
SlaveScope == Pick({l1}, "local", "up")
SlaveMin == Pick({u1}, 2, 0)
=============================================================================
