------------------------------ MODULE Heartbeat ------------------------------
(***************************************************************************)
(* A slave that reports to the master: HeartbeatPlugin and                 *)
(* HeartbeatMonitor of slave_plugins/heartbeat, the registry of            *)
(* master_plugins/heartbeat, and between them the link of comm: batches    *)
(* posted one at a time, answers that get lost, requests that arrive after *)
(* the client gave them up, and a long poll for the way back.              *)
(*                                                                         *)
(* Beats, configuration pushes and capability requests are all             *)
(* fire-and-forget: one attempt, nothing stored.                           *)
(***************************************************************************)
EXTENDS NodeRegistry

CONSTANTS
  Buckets,        \* what a collection may find: sequences of raw entries
  SeqMax,         \* SEQ_MAX
  SweepInterval,  \* in ticks
  QueueMax,       \* bound: beats queued on either side
  OutboxMax,      \* records the hub keeps for the slave
  FaultBound,     \* bound: disturbances of any kind but restarts of the slave
  ProcessBound    \* bound: processes of the slave, one after the other

ASSUME HeartbeatAssumption ==
  /\ {SeqMax, SweepInterval, QueueMax, OutboxMax, ProcessBound} \subseteq Nat \ {0}
  /\ FaultBound \in Nat

\* A digest is that of one collection: both are sorted by the canonical form.
ASSUME DigestAssumption ==
  \A c, d \in Buckets : Digest(Collected(c)) = Digest(Collected(d)) => Collected(c) = Collected(d)

VARIABLES
  seq, sent,      \* _seq; _caps_sent_digest, "none" when the master lacks them
  bucket,         \* what the plugins of the slave put into a collection
  waiting,        \* where the beat is that _wait_settled waits for, "none" if it sleeps
  link,           \* MasterState
  config,         \* the run parameters the slave applies
  queue,          \* beats in the slave's comm queue
  posting,        \* the batch the pump has posted and whether the hub has it
  ghosts,         \* batches given up by the client that the hub may still get
  inbox,          \* beats that are answered and not yet handled
  node,           \* the registry's record
  pushed,         \* the run parameters of the master
  outbox,         \* the hub's records for the slave
  last,           \* history: sequence number of the last beat accepted, 0 for none
  base,           \* history: the process the number in the record comes from
  newest,         \* history: process and number of the newest beat accepted
  strays,         \* history: older ones accepted since a beat in order moved the record
  process,        \* history: which process of the slave is running
  faults

slave == <<seq, sent, waiting, link, config, queue>>
history == <<last, base, newest, strays>>
hub == <<inbox, node, outbox, history>>
vars == <<slave, bucket, posting, ghosts, hub, pushed, process, faults>>

Idle == [beats |-> <<>>, taken |-> FALSE]
AgeMax == LostTimeout + 1  \* bound: the age a node is followed to

Init ==
  /\ seq = 0 /\ sent = NoDigest /\ waiting = "none"
  /\ bucket \in Buckets
  /\ link = "unknown" /\ config = 0 /\ pushed = 0
  /\ queue = <<>> /\ posting = Idle /\ ghosts = {}
  /\ inbox = <<>> /\ node = Absent /\ outbox = <<>>
  /\ last = 0 /\ base = 0 /\ newest = <<0, 0>> /\ strays = 0
  /\ process = 1 /\ faults = 0

Fault == faults < FaultBound /\ faults' = faults + 1

-----------------------------------------------------------------------------
(* The slave: beat_once and its comm queue *)

NextSeq == IF seq < SeqMax THEN seq + 1 ELSE SeqMax

Payload ==
  LET entries == Collected(bucket)
      full == Digest(entries) # sent
  IN [seq |-> NextSeq, process |-> process, digest |-> Digest(entries), full |-> full,
      entries |-> IF full THEN entries ELSE <<>>]

Beat ==
  /\ waiting = "none"
  /\ Len(queue) < QueueMax
  /\ seq' = NextSeq
  /\ waiting' = "queued"
  /\ queue' = Append(queue, Payload)
  /\ UNCHANGED <<sent, link, config, bucket, posting, ghosts, hub, pushed, process, faults>>

\* The pump posts what is ready, a batch at a time.
Post ==
  /\ posting.beats = <<>>
  /\ queue # <<>>
  /\ posting' = [beats |-> queue, taken |-> FALSE]
  /\ queue' = <<>>
  /\ waiting' = IF waiting = "queued" THEN "posted" ELSE waiting
  /\ UNCHANGED <<seq, sent, link, config, bucket, ghosts, hub, pushed, process, faults>>

\* Mutant of SentWith: what travels is taken for what the master asked for.
SentAlways(b) == b.digest

\* _send, once the beat is done: the master has the entries it carried.
SentWith(b) == IF b.full THEN b.digest ELSE sent

\* The answer settles the last beat of the batch, if the loop still waits for it.
PostSucceeds ==
  /\ posting.taken
  /\ posting' = Idle
  /\ IF waiting = "posted"
     THEN /\ waiting' = "none"
          /\ sent' = SentWith(Last(posting.beats))
          /\ link' = "online"
     ELSE UNCHANGED <<waiting, sent, link>>
  /\ UNCHANGED <<seq, config, queue, bucket, ghosts, hub, pushed,
                 process, faults>>

\* The request or its answer is lost, or the client gives up and the request arrives later.
PostFails ==
  /\ posting.beats # <<>>
  /\ Fault
  /\ posting' = Idle
  /\ ghosts' \in {ghosts, IF posting.taken THEN ghosts ELSE ghosts \union {posting.beats}}
  /\ waiting' = IF waiting = "posted" THEN "gone" ELSE waiting
  /\ UNCHANGED <<seq, sent, link, config, queue, bucket, hub, pushed, process>>

\* A failed beat is never settled in comm (min_success 0): the loop waits it out.  It
\* may also give up a beat that is only late.
WaitTimesOut ==
  /\ waiting # "none"
  /\ waiting # "gone" => faults < FaultBound
  /\ faults' = IF waiting = "gone" THEN faults ELSE faults + 1
  /\ waiting' = "none"
  /\ sent' = NoDigest
  /\ link' = "offline"
  /\ UNCHANGED <<seq, config, queue, bucket, posting, ghosts, hub, pushed,
                 process>>

-----------------------------------------------------------------------------
(* The hub: ingest, _on_beat and the outbox *)

\* _broadcast aside, _on_beat pushes the configuration and asks for what it lacks.
Pushes(b) ==
  <<[topic |-> "config", value |-> pushed]>>
    \o IF NeedCaps(WithCaps(node, b), b) THEN <<[topic |-> "caps", value |-> 0]>> ELSE <<>>

\* comm evicts the oldest record for a new one.
Bounded(records) ==
  IF Len(records) > OutboxMax THEN SubSeq(records, Len(records) - OutboxMax + 1, Len(records))
  ELSE records

Older(b) == b.process < newest[1] \/ (b.process = newest[1] /\ b.seq < newest[2])

Moves(b) == ~node.known \/ b.seq > node.seq \/ RestartSeen(node, b.seq)

\* Bookkeeping for the properties.
Notes(b) ==
  /\ last' = b.seq
  /\ base' = IF Moves(b) THEN b.process ELSE base
  /\ newest' = IF Older(b) THEN newest ELSE <<b.process, b.seq>>
  /\ strays' = IF Older(b) THEN IF strays < 2 THEN strays + 1 ELSE 2
               ELSE IF Moves(b) THEN 0 ELSE strays

\* _ingest answers as soon as it has a task for each beat.
Ingest ==
  /\ posting.beats # <<>>
  /\ ~posting.taken
  /\ Len(inbox) < QueueMax
  /\ inbox' = inbox \o posting.beats
  /\ posting' = [posting EXCEPT !.taken = TRUE]
  /\ UNCHANGED <<slave, bucket, ghosts, node, outbox, history, pushed, process, faults>>

IngestLate ==
  /\ ghosts # {}
  /\ Len(inbox) < QueueMax
  /\ \E g \in ghosts : inbox' = inbox \o g /\ ghosts' = ghosts \ {g}
  /\ UNCHANGED <<slave, bucket, posting, node, outbox, history, pushed, process, faults>>

OnBeat ==
  /\ inbox # <<>>
  /\ LET b == Head(inbox) IN
     /\ node' = Accepted(node, b)
     /\ outbox' = Bounded(outbox \o Pushes(b))
     /\ Notes(b)
  /\ inbox' = Tail(inbox)
  /\ UNCHANGED <<slave, bucket, posting, ghosts, pushed, process, faults>>

-----------------------------------------------------------------------------
(* The way down: _poll hands over all there is and counts it as delivered or gives it up; *)
(* _pull_loop dispatches it, in order. *)

Told(topic) == {i \in DOMAIN outbox : outbox[i].topic = topic}

Deliver ==
  /\ outbox # <<>>
  /\ config' = IF Told("config") = {} THEN config ELSE outbox[Max(Told("config"))].value
  /\ sent' = IF Told("caps") = {} THEN sent ELSE NoDigest
  /\ outbox' = <<>>
  /\ UNCHANGED <<seq, waiting, link, queue, bucket, posting, ghosts, inbox, node, history, pushed, process, faults>>

LosePoll ==
  /\ outbox # <<>>
  /\ Fault
  /\ outbox' = <<>>
  /\ UNCHANGED <<slave, bucket, posting, ghosts, inbox, node, history, pushed, process>>

-----------------------------------------------------------------------------
(* Time, and what happens to the two processes *)

\* _sweep_loop.  Time passes from sweep to sweep; a beat counts for the sweep before it, so
\* age is rounded up.
Sweep ==
  /\ node' = Swept([node EXCEPT !.age = IF node.known /\ @ < AgeMax THEN @ + SweepInterval ELSE @])
  /\ UNCHANGED <<slave, bucket, posting, ghosts, inbox, outbox, history, pushed,
                 process, faults>>

\* A plugin comes, goes or changes what it can do.
ChangeBucket ==
  /\ Fault
  /\ bucket' \in Buckets \ {bucket}
  /\ UNCHANGED <<slave, posting, ghosts, hub, pushed, process>>

\* The slave starts anew; what it has posted is cut off, or arrives after all.
RestartSlave ==
  /\ process < ProcessBound
  /\ process' = process + 1
  /\ seq' = 0 /\ sent' = NoDigest /\ waiting' = "none" /\ link' = "unknown"
  /\ config' = 0 /\ queue' = <<>> /\ posting' = Idle
  /\ ghosts' \in {ghosts, IF posting.taken \/ posting.beats = <<>> THEN ghosts
                          ELSE ghosts \union {posting.beats}}
  /\ UNCHANGED <<bucket, hub, pushed, faults>>

\* The master starts anew, with other run parameters: its registry is empty.
RestartMaster ==
  /\ Fault
  /\ pushed' = pushed + 1
  /\ node' = Absent /\ inbox' = <<>> /\ outbox' = <<>>
  /\ last' = 0 /\ base' = 0 /\ newest' = <<0, 0>> /\ strays' = 0
  /\ UNCHANGED <<slave, bucket, posting, ghosts, process>>

\* _node_delete
RemoveNode ==
  /\ node.known
  /\ Fault
  /\ node' = Absent
  /\ last' = 0 /\ base' = 0 /\ newest' = <<0, 0>> /\ strays' = 0
  /\ UNCHANGED <<slave, bucket, posting, ghosts, inbox, outbox, pushed,
                 process>>

Next ==
  \/ Beat \/ Post \/ PostSucceeds \/ PostFails \/ WaitTimesOut
  \/ Ingest \/ IngestLate \/ OnBeat
  \/ Deliver \/ LosePoll
  \/ Sweep
  \/ ChangeBucket \/ RestartSlave \/ RestartMaster \/ RemoveNode

\* The loops of both sides go on; a beat that is gone is waited out.
Fairness ==
  /\ WF_vars(Beat) /\ WF_vars(Post) /\ WF_vars(PostSucceeds)
  /\ WF_vars(waiting = "gone" /\ WaitTimesOut)
  /\ WF_vars(Ingest) /\ WF_vars(IngestLate) /\ WF_vars(OnBeat)
  /\ WF_vars(Deliver)

Spec == Init /\ [][Next]_vars

FairSpec == Spec /\ Fairness

-----------------------------------------------------------------------------

\* Whatever came before, two beats that arrive in order put the node on their numbers: a
\* restart whose first beats were lost is noticed (_track_seq_regression).
TwoBeatsSettle ==
  [][\A b \in ToSet(inbox) : OnBeat /\ b = Head(inbox) /\ 0 < last /\ last < b.seq => node'.seq = b.seq]_vars

\* A restart is recorded on a straggler of the very process the record follows only if the
\* straggler bears the number 1 or is the second of two (_track_seq_regression).
RestartIsReal ==
  [][\A b \in ToSet(inbox) :
       OnBeat /\ b = Head(inbox) /\ Older(b) /\ newest[1] = base /\ RestartSeen(node, b.seq)
         => b.seq = 1 \/ strays' = 2]_vars

\* A node does not count as online, and so as fit for work, longer than the timeout and
\* a sweep after its last beat, whatever happened to the beats between (sweep).
OnlineIsFresh == node.known /\ node.status = "online" => node.age <= OfflineTimeout

\* The digest in the registry is that of the entries in it, so that a master that finds
\* the digest of a beat in its record knows the capabilities (accept, _archive_caps).
ArchiveIsTrue ==
  \A c \in Buckets : node.digest = Digest(Collected(c)) => node.caps = Archived(Collected(c))

\* After the last disturbance the master knows the capabilities of the slave, the slave
\* knows that it does and applies the parameters of the master (_on_beat, _send).
InLine ==
  /\ node.known /\ node.digest = Digest(Collected(bucket)) /\ sent = node.digest
  /\ config = pushed
  /\ link = "online"

Settles == <>[]InLine

=============================================================================
