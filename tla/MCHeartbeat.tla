---------------------------- MODULE MCHeartbeat ----------------------------
(* Instances of Heartbeat for TLC. *)
EXTENDS Heartbeat

Entry(kind, id, rank, bad) == [kind |-> kind, id |-> id, rank |-> rank, bad |-> bad]

\* Two versions of one capability, alone, together and beside an entry that is dropped.
Old == Entry("executor", 1, 1, FALSE)
New == Entry("executor", 1, 2, FALSE)
SomeBuckets == {<<>>, <<New, Entry("executor", 2, 3, TRUE), Old>>}
=============================================================================
