----------------------------- MODULE CommOutbox -----------------------------
(***************************************************************************)
(* The delivery core of the comm service: the record queue `_records`, the *)
(* QoS state machine of a record, the batch pump, the downlink outbox that *)
(* remote nodes poll, and the outbox table that survives a restart         *)
(* (common/plugins/comm/service.py, outbox.py).                            *)
(*                                                                         *)
(* The service is single-threaded asyncio code: what runs between two      *)
(* awaits is one step.  The pump, the save tasks, the background row       *)
(* writes, the poll and ack handlers and the callers of report / send_to / *)
(* broadcast interleave at the awaits.  Row writes are independent         *)
(* transactions on connections of their own, so they finish in any order.  *)
(*                                                                         *)
(* Time is abstracted to two flags: `due` (the backoff or the ack deadline *)
(* of a record has passed) and `aged` (the ttl of a group has passed).     *)
(***************************************************************************)
EXTENDS Integers, Sequences, FiniteSets, FiniteSetsExt, TLC

CONSTANTS
  Msg,          \* delivery records (entry ids)
  Grp,          \* group ids: what report / send_to / broadcast return
  Nodes,        \* remote nodes that poll this one
  Calls,        \* the record lists that single send calls enqueue
  GroupOf,      \* [Msg -> Grp]
  Scope,        \* [Msg -> {"local", "up", "down"}]
  Dest,         \* [Msg -> Nodes], looked at for "down" records only
  MinSuccess,   \* [Msg -> Nat], the policy's min_success
  MaxAttempts,  \* [Msg -> Nat], the policy's max_attempts, 0 = no limit
  Immediate,    \* the records sent with immediate=True
  Mortal,       \* the groups sent with ttl > 0
  QueueMax,     \* config queue_max
  BatchSize,    \* config batch_size
  PollMax,      \* the poll request's max
  CountBound,   \* bound: counters of attempts and successes saturate here
  CrashBound,   \* bound: number of crashes
  StopBound,    \* bound: number of orderly stops (the cleanup returned by init)
  DiskFaults    \* whether a row write may fail (DbError)

Scopes == {"local", "up", "down"}

ASSUME OutboxAssumption ==
  /\ IsFiniteSet(Msg)
  /\ Calls \subseteq Seq(Msg)
  /\ GroupOf \in [Msg -> Grp]
  /\ Scope \in [Msg -> Scopes]
  /\ Dest \in [Msg -> Nodes]
  /\ MinSuccess \in [Msg -> Nat]
  /\ MaxAttempts \in [Msg -> Nat]
  /\ Immediate \subseteq Msg
  /\ Mortal \subseteq Grp
  /\ QueueMax \in Nat \ {0}
  /\ BatchSize \in Nat \ {0}
  /\ PollMax \in Nat \ {0}
  /\ CountBound \in Nat \ {0}
  /\ \A m \in Msg : MaxAttempts[m] < CountBound /\ MinSuccess[m] <= CountBound
  /\ CrashBound \in Nat
  /\ StopBound \in Nat
  /\ DiskFaults \in BOOLEAN

\* A call enqueues records nobody else enqueues (ids are fresh uuids).
ASSUME FreshIdsAssumption ==
  /\ \A c \in Calls : c # << >> /\ \A i, j \in DOMAIN c : c[i] = c[j] => i = j
  /\ \A c, d \in Calls : (\E i \in DOMAIN c, j \in DOMAIN d : c[i] = d[j]) => c = d

\* The targets of a broadcast form a group, under the policy of the call; what
\* goes up or stays here is a group of its own.
ASSUME GroupsAssumption ==
  \A m, x \in Msg : m # x /\ GroupOf[m] = GroupOf[x] =>
    Scope[m] = "down" /\ MinSuccess[m] = MinSuccess[x]

VARIABLES
  phase,    \* "opening" until init() has recovered the outbox, then "running"
  records,  \* the keys of _records
  stamp,    \* insertion order of _records, a larger stamp is younger
  clock,    \* the last stamp given out
  rec,      \* the _Record objects, those evicted from _records included
  saving,   \* records whose save_task has not finished
  disk,     \* the outbox table, a function on the ids that have a row
  jobs,     \* background row writes not finished yet
  pump,     \* where the pump task is, its batch, the record being dispatched
  held,     \* down deliveries that reached their node and are not acked yet
  aged,     \* groups whose ttl has passed
  sent,     \* send calls made so far
  fate,     \* history: what became of a message
  tries,    \* history: how often a record was really sent or dispatched
  wins,     \* history: how often a delivery of it was really confirmed
  crashes, stops

mem  == <<records, stamp, clock, rec, saving, jobs, pump>>
past == <<fate, tries, wins>>
vars == <<phase, mem, disk, held, aged, sent, past, crashes, stops>>

-----------------------------------------------------------------------------
(* Records and rows *)

States == {"pending", "retry_wait", "in_flight", "failed"}
Fates  == {"unsent", "queued", "stored", "done", "failed", "dropped"}

\* MessageState.DONE is never stored in a record: a group that reaches its
\* quota leaves _records in the same step.
Record == [state : States, attempts : 0 .. CountBound, acks : 0 .. CountBound,
           due : BOOLEAN, immediate : BOOLEAN,
           saved : BOOLEAN, saveFailed : BOOLEAN]

\* Mutant of Fresh: counts retries, not attempts.
FreshRetries(m) == [state |-> "pending", attempts |-> 0 - 1, acks |-> 0, due |-> TRUE,
                    immediate |-> m \in Immediate, saved |-> FALSE, saveFailed |-> FALSE]

Fresh(m) == [state |-> "pending", attempts |-> 0, acks |-> 0, due |-> TRUE,
             immediate |-> m \in Immediate, saved |-> FALSE, saveFailed |-> FALSE]

\* The columns recovery makes use of.  The state column is left out: recovery
\* only compares it with DONE, which no statement ever writes.
Row == [attempts : 0 .. CountBound, acks : 0 .. CountBound]
RowValues(r) == [attempts |-> r.attempts, acks |-> r.acks]

\* A background row write: set one column of a row, or remove the row.
Job == [id : Msg, col : {"attempts", "acks", "row"}, val : 0 .. CountBound]
PatchRow(m, column, value) == [id |-> m, col |-> column, val |-> value]
RemoveRow(m) == [id |-> m, col |-> "row", val |-> 0]

\* Mutant of Saved: forgets which records are meant.
SavedAnywhere(r, S) == {m \in Msg : r[m].saved}

\* _patch_row and _drop_row do nothing for a record whose row is not saved yet.
Saved(r, S) == {m \in S : r[m].saved}

Bump(n) == IF n < CountBound THEN n + 1 ELSE n
BumpAll(f, S) == [m \in Msg |-> IF m \in S THEN Bump(f[m]) ELSE f[m]]

\* The n youngest and the n oldest of a set of records.
Newest(S, order, n) == {m \in S : Cardinality({x \in S : order[x] > order[m]}) < n}
Oldest(S, n) == {m \in S : Cardinality({x \in S : stamp[x] < stamp[m]}) < n}

GroupRecords(g) == {m \in records : GroupOf[m] = g}
Total(f, S) == MapThenSumSet(LAMBDA m : f[m], S)
Acks(r, g) == Total([m \in Msg |-> r[m].acks], GroupRecords(g))

\* Mutant of Enough: one success short.
AlmostEnough(r, m) == Acks(r, GroupOf[m]) + 1 >= MinSuccess[m]

\* With record objects r the group of m has its successes.
Enough(r, m) == Acks(r, GroupOf[m]) >= MinSuccess[m]

\* Mutant of Short: looks at the states before this failure.
ShortBefore(r, m) ==
  (\A x \in GroupRecords(GroupOf[m]) : rec[x].state = "failed") /\ ~Enough(r, m)

\* With record objects r all records of m's group have failed without them.
Short(r, m) ==
  (\A x \in GroupRecords(GroupOf[m]) : r[x].state = "failed") /\ ~Enough(r, m)

\* What _ready_records sees in the queue R with record objects r.
Ready(R, r) ==
  {m \in R : /\ Scope[m] \in {"local", "up"}
             /\ r[m].state \in {"pending", "retry_wait"}
             /\ r[m].due}

IdlePump == [pc |-> "idle", batch |-> {}, current |-> {}]
Delivering(batch) == IF batch = {} THEN IdlePump ELSE [IdlePump EXCEPT !.pc = "deliver", !.batch = batch]

Init ==
  /\ phase = "opening"
  /\ records = {}
  /\ stamp = [m \in Msg |-> 0]
  /\ clock = 0
  /\ rec = [m \in Msg |-> Fresh(m)]
  /\ saving = {}
  /\ disk = << >>
  /\ jobs = {}
  /\ pump = IdlePump
  /\ held = [m \in Msg |-> 0]
  /\ aged = {}
  /\ sent = {}
  /\ fate = [m \in Msg |-> "unsent"]
  /\ tries = [m \in Msg |-> 0]
  /\ wins = [m \in Msg |-> 0]
  /\ crashes = 0
  /\ stops = 0

-----------------------------------------------------------------------------
(* Settling records and groups *)

\* Mutant of Remaining: a missing pop.
RemainingAll(gone) == records

Remaining(gone) == records \ gone

\* _finish_group for the groups in done and in failed, with the record objects
\* changed to r and the patches spawned before: their records leave the queue
\* and the rows that are saved get a remove job.  Nothing looks at the object
\* of a finished record again, so its fields are forgotten.
Finish(r, done, failed, patches) ==
  LET gone == {m \in records : GroupOf[m] \in done \cup failed}
  IN  /\ records' = Remaining(gone)
      /\ rec' = [m \in Msg |-> IF m \in gone THEN Fresh(m) ELSE r[m]]
      /\ jobs' = jobs \cup patches \cup {RemoveRow(m) : m \in Saved(r, gone)}
      /\ fate' = [m \in Msg |-> IF m \notin gone THEN fate[m]
                                ELSE IF GroupOf[m] \in done THEN "done" ELSE "failed"]

\* _register_ack for every record of S: one more success each; a group whose
\* successes reach min_success is done, otherwise the record queues up again.
RegisterAck(S) ==
  LET A == {m \in S : rec[m].state # "failed"}
      r == [m \in Msg |->
              IF m \in A THEN [rec[m] EXCEPT !.acks = Bump(@), !.state = "pending", !.due = TRUE]
              ELSE rec[m]]
      done == {GroupOf[m] : m \in {x \in A : Enough(r, x)}}
      again == {m \in A : GroupOf[m] \notin done}
  IN  /\ Finish(r, done, {}, {PatchRow(m, "acks", r[m].acks) : m \in Saved(r, again)})
      /\ wins' = BumpAll(wins, S)

\* _fail_entry for every record of S, none of which has failed before: the
\* group fails once all its records have and the successes do not suffice.
FailEntries(r0, S, patches) ==
  LET r == [m \in Msg |-> IF m \in S THEN [r0[m] EXCEPT !.state = "failed"] ELSE r0[m]]
  IN  Finish(r, {}, {GroupOf[m] : m \in {x \in S : Short(r, x)}}, patches)

\* Mutant of GivesUp: off by one.
GivesUpLate(m) == MaxAttempts[m] > 0 /\ rec[m].attempts > MaxAttempts[m]

\* _failure with error kind "network": the records of S that reached
\* max_attempts give up, the others back off.
GivesUp(m) == MaxAttempts[m] > 0 /\ rec[m].attempts >= MaxAttempts[m]
BackOff(S) ==
  [m \in Msg |-> IF m \in S /\ ~GivesUp(m)
                 THEN [rec[m] EXCEPT !.state = "retry_wait", !.due = FALSE]
                 ELSE rec[m]]
BackOffPatches(S) ==
  {PatchRow(m, "attempts", rec[m].attempts) : m \in {x \in Saved(rec, S) : ~GivesUp(x)}}

-----------------------------------------------------------------------------
(* Send side *)

\* _enqueue for the records of one call: each record evicts the oldest ones
\* until there is room, so what stays is the youngest QueueMax of all.
\* Nothing is saved before recovery is over.  In the code this ends a little earlier,
\* when init() has opened the store and recovery awaits the rows; here the pump saves
\* what was sent until then (PumpOnce).
Enqueue(c) ==
  LET new == {c[i] : i \in DOMAIN c}
      order == [m \in Msg |-> IF m \in new THEN clock + (CHOOSE i \in DOMAIN c : c[i] = m)
                                            ELSE stamp[m]]
      all == records \cup new
      kept == Newest(all, order, QueueMax)
      evicted == all \ kept
  IN  /\ c \in Calls \ sent
      /\ records' = kept
      /\ stamp' = order
      /\ clock' = clock + Len(c)
      /\ rec' = [m \in Msg |-> IF m \in new THEN Fresh(m)
                               ELSE IF m \in evicted THEN [rec[m] EXCEPT !.saved = FALSE]
                               ELSE rec[m]]
      /\ saving' = IF phase = "running" THEN saving \cup {m \in new : MinSuccess[m] > 0}
                                        ELSE saving
      /\ jobs' = jobs \cup {RemoveRow(m) : m \in Saved(rec, evicted)}
      /\ fate' = [m \in Msg |-> IF m \in evicted THEN "dropped"
                                ELSE IF m \in new THEN "queued" ELSE fate[m]]
      /\ sent' = sent \cup {c}
      /\ UNCHANGED <<phase, disk, pump, held, aged, tries, wins, crashes, stops>>

-----------------------------------------------------------------------------
(* Persistence: the save tasks and the background jobs of _patch_row and     *)
(* _drop_row.                                                                *)

\* _save_row returns: the row is there, whatever became of the record.  It
\* holds what the record was when the task started: as enqueued, or as it is
\* now when the pump or a poll ran before the task did.
SaveRow(m) ==
  /\ m \in saving
  /\ saving' = saving \ {m}
  /\ \E r \in {Fresh(m), rec[m]} :
       disk' = [x \in DOMAIN disk \cup {m} |-> IF x = m THEN RowValues(r) ELSE disk[x]]
  /\ rec' = [rec EXCEPT ![m].saved = TRUE]
  /\ fate' = [fate EXCEPT ![m] = IF @ = "queued" THEN "stored" ELSE @]
  /\ UNCHANGED <<phase, records, stamp, clock, jobs, pump, held, aged, sent,
                 tries, wins, crashes, stops>>

\* The insert fails: the record stays in memory only.
SaveRowFails(m) ==
  /\ DiskFaults
  /\ m \in saving
  /\ saving' = saving \ {m}
  /\ rec' = [rec EXCEPT ![m].saveFailed = TRUE]
  /\ UNCHANGED <<phase, records, stamp, clock, disk, jobs, pump, held, aged, sent,
                 past, crashes, stops>>

\* OutboxStore.patch and remove ignore an id without a row.
Patched(row, j) ==
  [attempts |-> IF j.col = "attempts" THEN j.val ELSE row.attempts,
   acks     |-> IF j.col = "acks" THEN j.val ELSE row.acks]

JobDone(j) ==
  /\ j \in jobs
  /\ jobs' = jobs \ {j}
  /\ disk' = IF j.col = "row" THEN [x \in DOMAIN disk \ {j.id} |-> disk[x]]
             ELSE [x \in DOMAIN disk |-> IF x = j.id THEN Patched(disk[x], j) ELSE disk[x]]
  /\ UNCHANGED <<phase, records, stamp, clock, rec, saving, pump, held, aged, sent,
                 past, crashes, stops>>

\* _bg_done: a failed job is logged and forgotten.
JobFails(j) ==
  /\ DiskFaults
  /\ j \in jobs
  /\ jobs' = jobs \ {j}
  /\ UNCHANGED <<phase, records, stamp, clock, rec, saving, disk, pump, held, aged, sent,
                 past, crashes, stops>>

-----------------------------------------------------------------------------
(* The batch pump: _pump_once and _deliver *)

\* Mutant of Expired: overlooks what has been tried.
ExpiredPending ==
  {m \in records : GroupOf[m] \in aged /\ rec[m].state = "pending" /\ ~Enough(rec, m)}

\* What _maintenance fails because the ttl passed.
Expired ==
  {m \in records : GroupOf[m] \in aged /\ rec[m].state # "failed" /\ ~Enough(rec, m)}

\* The head of _pump_once up to its first await.  _maintenance: overdue
\* in-flight records fail over the network, groups whose ttl passed before they
\* had their successes fail altogether.  _persist_pending: save what has no
\* row yet.  Then immediate records go out on their own; others start the
\* batching wait; with nothing ready the pump sleeps and comes back here.
PumpOnce ==
  LET late == {m \in records : Scope[m] = "down" /\ rec[m].state = "in_flight" /\ rec[m].due}
      ready == Ready(records', rec')
      now == {m \in ready : rec'[m].immediate}
  IN  /\ phase = "running"
      /\ pump.pc = "idle"
      /\ FailEntries(BackOff(late), {m \in late : GivesUp(m)} \cup Expired, BackOffPatches(late))
      /\ saving' = saving \cup {m \in records' : /\ ~rec'[m].saved /\ ~rec'[m].saveFailed
                                                /\ MinSuccess[m] > 0}
      /\ pump' = IF now # {} THEN Delivering(now)
                 ELSE IF ready # {} THEN [IdlePump EXCEPT !.pc = "gather"]
                 ELSE IdlePump
      /\ UNCHANGED <<phase, stamp, clock, disk, held, aged, sent, tries, wins, crashes, stops>>

\* The batching wait ends: the oldest ready records, at most batch_size, or
\* fewer when MAX_BATCH_BYTES cuts the batch short.
CloseBatch ==
  LET ready == Ready(records, rec)
  IN  /\ pump.pc = "gather"
      /\ \E n \in 1 .. BatchSize : pump' = Delivering(Oldest(ready, n))
      /\ UNCHANGED <<phase, records, stamp, clock, rec, saving, jobs, disk, held, aged, sent,
                     past, crashes, stops>>

\* _deliver dispatches the local records of the batch first, in order.  The
\* code runs into BeginDispatch and Post without an await when it can; as
\* steps of their own they only let more happen before them.
Locals(batch) == {m \in batch : Scope[m] = "local"}

BeginDispatch ==
  /\ pump.pc = "deliver"
  /\ \E m \in Locals(pump.batch) :
       /\ \A x \in Locals(pump.batch) : stamp[m] <= stamp[x]
       /\ rec' = [rec EXCEPT ![m].attempts = Bump(@)]
       /\ tries' = BumpAll(tries, {m})
       /\ pump' = [pump EXCEPT !.pc = "dispatch", !.current = {m}]
  /\ UNCHANGED <<phase, records, stamp, clock, saving, jobs, disk, held, aged, sent,
                 fate, wins, crashes, stops>>

\* _dispatch_payload swallows the handlers' exceptions: a dispatch succeeds.
EndDispatch ==
  /\ pump.pc = "dispatch"
  /\ RegisterAck(pump.current)
  /\ pump' = Delivering(pump.batch \ pump.current)
  /\ UNCHANGED <<phase, stamp, clock, saving, disk, held, aged, sent, tries, crashes, stops>>

\* Mutant of SavesOver: does not await the save tasks.
SavesIgnored(ups) == TRUE

SavesOver(ups) == ups \cap saving = {}

\* Once their save tasks are over, the uplink records go out in one request.
Post ==
  LET ups == pump.batch
      attempts == BumpAll([m \in Msg |-> rec[m].attempts], ups)
  IN  /\ pump.pc = "deliver"
      /\ Locals(ups) = {}
      /\ SavesOver(ups)
      /\ rec' = [m \in Msg |-> [rec[m] EXCEPT !.attempts = attempts[m]]]
      /\ jobs' = jobs \cup {PatchRow(m, "attempts", attempts[m]) : m \in Saved(rec, ups)}
      /\ tries' = BumpAll(tries, ups)
      /\ pump' = [pump EXCEPT !.pc = "post"]
      /\ UNCHANGED <<phase, records, stamp, clock, saving, disk, held, aged, sent,
                     fate, wins, crashes, stops>>

\* transport.deliver returns: 2xx, a network failure (also 5xx and 429), or
\* a protocol error (4xx).
PostOk ==
  /\ pump.pc = "post"
  /\ RegisterAck(pump.batch)
  /\ pump' = IdlePump
  /\ UNCHANGED <<phase, stamp, clock, saving, disk, held, aged, sent, tries, crashes, stops>>

PostNetworkError ==
  /\ pump.pc = "post"
  /\ FailEntries(BackOff(pump.batch), {m \in pump.batch : GivesUp(m)},
                 BackOffPatches(pump.batch))
  /\ pump' = IdlePump
  /\ UNCHANGED <<phase, stamp, clock, saving, disk, held, aged, sent, tries, wins,
                 crashes, stops>>

PostRejected ==
  /\ pump.pc = "post"
  /\ FailEntries(rec, pump.batch, {})
  /\ pump' = IdlePump
  /\ UNCHANGED <<phase, stamp, clock, saving, disk, held, aged, sent, tries, wins,
                 crashes, stops>>

-----------------------------------------------------------------------------
(* Downlink: the poll and ack handlers *)

\* _take_down for a polling node: its oldest ready records go into flight.
\* Whether the response reaches the node shows in whether it ever acks.
Poll(n) ==
  LET ready == {m \in records : /\ Scope[m] = "down" /\ Dest[m] = n
                                /\ rec[m].state \in {"pending", "retry_wait"} /\ rec[m].due}
      taken == Oldest(ready, PollMax)
      r == [m \in Msg |->
              IF m \in taken
              THEN [rec[m] EXCEPT !.attempts = Bump(@), !.state = "in_flight", !.due = FALSE]
              ELSE rec[m]]
  IN  /\ phase = "running"
      /\ taken # {}
      /\ rec' = r
      /\ jobs' = jobs \cup {PatchRow(m, "attempts", r[m].attempts) : m \in Saved(rec, taken)}
      /\ tries' = BumpAll(tries, taken)
      /\ held' = BumpAll(held, taken)
      /\ UNCHANGED <<phase, records, stamp, clock, saving, disk, pump, aged, sent,
                     fate, wins, crashes, stops>>

\* _ack: a node confirms deliveries it holds, one request for one delivery of
\* each; ids that are no longer in _records are skipped.
Ack(n) ==
  /\ phase = "running"
  /\ \E S \in SUBSET {m \in Msg : Scope[m] = "down" /\ Dest[m] = n /\ held[m] > 0} :
       /\ S # {}
       /\ held' = [m \in Msg |-> IF m \in S THEN held[m] - 1 ELSE held[m]]
       /\ RegisterAck(S \cap records)
  /\ UNCHANGED <<phase, stamp, clock, saving, disk, pump, aged, sent, tries, crashes, stops>>

-----------------------------------------------------------------------------
(* The clock *)

\* The backoff of a record, or the wait for its ack, runs out.
Tick(m) ==
  /\ m \in records
  /\ ~rec[m].due
  /\ rec' = [rec EXCEPT ![m].due = TRUE]
  /\ UNCHANGED <<phase, records, stamp, clock, saving, jobs, disk, pump, held, aged, sent,
                 past, crashes, stops>>

\* The ttl of a group that was sent runs out.
Age(g) ==
  /\ g \in Mortal \ aged
  /\ \E m \in Msg : GroupOf[m] = g /\ fate[m] # "unsent"
  /\ aged' = aged \cup {g}
  /\ UNCHANGED <<phase, mem, disk, held, sent, past, crashes, stops>>

-----------------------------------------------------------------------------
(* Restarts *)

\* What the process knew is gone; the table, the network and the clock stay.
LoseMemory ==
  /\ phase' = "opening"
  /\ records' = {}
  /\ stamp' = [m \in Msg |-> 0]
  /\ clock' = 0
  /\ rec' = [m \in Msg |-> Fresh(m)]
  /\ saving' = {}
  /\ jobs' = {}
  /\ pump' = IdlePump
  /\ UNCHANGED <<disk, held, aged, sent, past>>

Crash ==
  /\ crashes < CrashBound
  /\ crashes' = crashes + 1
  /\ LoseMemory
  /\ UNCHANGED stops

\* An orderly stop: cleanup() cancels the pump, and finish() cancels the save
\* tasks and the background jobs instead of waiting for them.
Cleanup ==
  /\ phase = "running"
  /\ stops < StopBound
  /\ stops' = stops + 1
  /\ LoseMemory
  /\ UNCHANGED crashes

\* Mutant of Revived: resumes only what was never sent.
RevivedUnsent == {m \in DOMAIN disk : GroupOf[m] \notin aged /\ disk[m].attempts = 0}

\* The rows _recover revives: those whose ttl has not passed.
Revived == {m \in DOMAIN disk : GroupOf[m] \notin aged}

\* Mutant of Revive: takes an interrupted delivery for one still in flight.
ReviveInFlight(m) ==
  [Fresh(m) EXCEPT !.state = "in_flight", !.saved = TRUE, !.immediate = FALSE,
                   !.attempts = disk[m].attempts, !.acks = disk[m].acks]

\* The record it makes of a row: the immediate flag is not a column.
Revive(m) ==
  [Fresh(m) EXCEPT !.state = "retry_wait", !.saved = TRUE, !.immediate = FALSE,
                   !.attempts = disk[m].attempts, !.acks = disk[m].acks]

\* _recover, the end of init(): rows whose ttl has passed are removed, all
\* others queue up again, behind what was sent meanwhile and in the order the
\* query returns them.
Recover ==
  LET keep == Revived
      old == {m \in DOMAIN disk : GroupOf[m] \in aged}
  IN  /\ phase = "opening"
      /\ phase' = "running"
      /\ records' = records \cup keep
      /\ \E place \in [keep -> 1 .. Cardinality(keep)] :
           /\ \A x, y \in keep : place[x] = place[y] => x = y
           /\ stamp' = [m \in Msg |-> IF m \in keep THEN clock + place[m] ELSE stamp[m]]
      /\ clock' = clock + Cardinality(keep)
      /\ rec' = [m \in Msg |-> IF m \in keep THEN Revive(m) ELSE rec[m]]
      /\ jobs' = jobs \cup {RemoveRow(m) : m \in old}
      /\ fate' = [m \in Msg |-> IF m \in old /\ fate[m] = "stored" THEN "failed" ELSE fate[m]]
      /\ UNCHANGED <<saving, disk, pump, held, aged, sent, tries, wins, crashes, stops>>

-----------------------------------------------------------------------------
PumpStep == \/ PumpOnce \/ CloseBatch \/ BeginDispatch \/ EndDispatch
            \/ Post \/ PostOk \/ PostNetworkError \/ PostRejected

Next ==
  \/ \E c \in Calls : Enqueue(c)
  \/ \E m \in Msg : SaveRow(m) \/ SaveRowFails(m) \/ Tick(m)
  \/ \E j \in jobs : JobDone(j) \/ JobFails(j)
  \/ PumpStep
  \/ \E n \in Nodes : Poll(n) \/ Ack(n)
  \/ \E g \in Grp : Age(g)
  \/ Crash
  \/ Cleanup
  \/ Recover

Spec == Init /\ [][Next]_vars

\* The event loop keeps running its tasks, clocks advance, a started row write
\* ends, and a restarted service recovers.  Nothing is assumed of the nodes.
Fairness ==
  /\ WF_vars(PumpStep)
  /\ WF_vars(Recover)
  /\ WF_vars(\E j \in jobs : JobDone(j) \/ JobFails(j))
  /\ \A m \in Msg : WF_vars(SaveRow(m) \/ SaveRowFails(m)) /\ WF_vars(Tick(m))
  /\ \A g \in Grp : WF_vars(Age(g))

FairSpec == Spec /\ Fairness

-----------------------------------------------------------------------------
(* Properties *)

\* Every variable has its type.
TypeOK ==
  /\ phase \in {"opening", "running"}
  /\ records \subseteq Msg
  /\ stamp \in [Msg -> Nat]
  /\ clock \in Nat
  /\ rec \in [Msg -> Record]
  /\ saving \subseteq Msg
  /\ DOMAIN disk \subseteq Msg
  /\ disk \in [DOMAIN disk -> Row]
  /\ jobs \subseteq Job
  /\ pump \in [pc : {"idle", "gather", "deliver", "dispatch", "post"},
               batch : SUBSET Msg, current : SUBSET Msg]
  /\ held \in [Msg -> 0 .. CountBound]
  /\ aged \subseteq Grp
  /\ sent \subseteq Calls
  /\ fate \in [Msg -> Fates]
  /\ tries \in [Msg -> 0 .. CountBound]
  /\ wins \in [Msg -> 0 .. CountBound]
  /\ crashes \in 0 .. CrashBound
  /\ stops \in 0 .. StopBound

\* max_attempts is a hard cap on how often a record is sent, whatever
\* timeouts, late acks and retries come in between (_failure, _take_down).
HardCap == \A m \in Msg : MaxAttempts[m] > 0 => tries[m] <= MaxAttempts[m]

\* A group is only reported done after min_success confirmed deliveries, over
\* all its targets together (_register_ack).
GroupWins(g) == Total(wins, {m \in Msg : GroupOf[m] = g})
DoneMeansEnough == \A m \in Msg : fate[m] = "done" => GroupWins(GroupOf[m]) >= MinSuccess[m]

\* A failed record stays in the queue only while a sibling target of its
\* group can still succeed: otherwise the group is over and status() reports a
\* final state (_fail_entry, _finish_group).
FailedGroupsLeave ==
  \A m \in records : rec[m].state = "failed" =>
    \E x \in GroupRecords(GroupOf[m]) : rec[x].state # "failed"

\* "One target's success revokes the rest": once a group is over, none of its
\* records is sent again while the process lives (_finish_group).
Settled == {"done", "failed"}
SettledIsFinal ==
  [][\A m \in Msg : fate[m] \in Settled => fate'[m] = fate[m] /\ tries'[m] = tries[m]]_vars

\* The row is on disk before an uplink record leaves: a crash then repeats a
\* message rather than losing it (_deliver).
SavedBeforeSent ==
  [][\A m \in records :
       Scope[m] = "up" /\ MinSuccess[m] > 0 /\ tries'[m] # tries[m]
         => m \in DOMAIN disk \/ rec[m].saveFailed]_vars

\* A message whose row was written keeps its row until it is settled or evicted,
\* through crashes and background writes in any order (_save_row, _drop_row).
StoredHasRow == \A m \in Msg : fate[m] = "stored" => m \in DOMAIN disk

\* ... and whenever the service runs it is in the queue (_recover).
StoredIsQueued == phase = "running" => \A m \in Msg : fate[m] = "stored" => m \in records

\* Why both hold: what the queue, the save tasks, the table and the pending
\* remove jobs may say of a message at each stage of its life.
DurableInv ==
  /\ StoredHasRow
  /\ StoredIsQueued
  /\ \A m \in Msg : fate[m] # "unsent" => \E c \in sent : \E i \in DOMAIN c : c[i] = m
  /\ \A m \in records \cup saving : fate[m] # "unsent"
  /\ \A m \in DOMAIN disk : fate[m] \notin {"unsent", "queued"}
  /\ \A j \in jobs : j.col = "row" => fate[j.id] \notin {"unsent", "queued", "stored"}
  /\ \A m \in saving : phase = "running" /\ (fate[m] = "queued" => m \in records)

\* Nothing accepted for at-least-once delivery is forgotten: it is in the
\* queue or on disk (outbox.py:5).  The code does not keep this: a stop
\* (Cleanup) cancels the save tasks of what has just been accepted.
EnqueuedSurvives ==
  \A m \in Msg : fate[m] = "queued" /\ MinSuccess[m] > 0 => m \in records \cup DOMAIN disk

\* A message with a ttl does not stay in the queue for ever, whatever its
\* targets do: it is delivered, fails or is evicted (_maintenance).
TtlSettles ==
  \A m \in Msg : GroupOf[m] \in Mortal => (m \in records ~> m \notin records)

\* At-least-once: if an uplink that is tried again and again answers 2xx at last,
\* an unlimited uplink message whose row was written reaches the other side,
\* through failures and crashes, unless it is evicted or refused (_deliver).
AtLeastOnce ==
  SF_vars(PostOk) =>
    \A m \in Msg : Scope[m] = "up" /\ MaxAttempts[m] = 0
                   => (fate[m] = "stored" ~> wins[m] > 0 \/ fate[m] \in {"failed", "dropped"})

\* While the process lives the service keeps what CommPromise promises: no
\* message is sent after its group is over, and no group is done too early.
Promise == INSTANCE CommPromise WITH
  fate <- [m \in Msg |-> IF fate[m] \in {"queued", "stored"} THEN "open" ELSE fate[m]]
KeepsPromise == Promise!Spec

=============================================================================
