------------------------------- MODULE LogSink -------------------------------
(***************************************************************************)
(* The log plugin of a node (common/plugins/log) on top of the queue of    *)
(* its comm service: lines are buffered where they are written, flushed to *)
(* the table in batches, read by the page after a flush, and reported.     *)
(*                                                                         *)
(* A call to the logger runs to its end before anything else does, through *)
(* the exporter, the buffer, comm's queue, and back into the logger where  *)
(* these warn.  The stack work holds what such a call has still to do.     *)
(***************************************************************************)
EXTENDS Integers, Sequences, FiniteSets, SequencesExt

CONSTANTS
  Requests,    \* requests of the page that may be under way at a time
  Reported,    \* the levels from report_level on
  BufferMax,   \* 5000 in _enqueue
  QueueMax,    \* queue_max of comm
  RowsMax,     \* retain_max_rows
  LineBound,   \* bound: lines that are told apart
  FaultBound   \* bound: failing statements

ASSUME LogAssumption ==
  /\ {BufferMax, QueueMax, RowsMax, LineBound} \subseteq Nat \ {0}
  /\ FaultBound \in Nat
  /\ Reported \subseteq {"error", "warn", "info"}
  /\ Requests \cap {"loop", "stop"} = {}

VARIABLES
  work,      \* stack of levels to be logged and of "insert", a record for comm's queue
  queued,    \* records in comm's queue
  lines,     \* history: lines that were buffered, all behind LineBound as one
  pending,   \* _pending
  failed,    \* _store_failures > 0
  lock,      \* _flush_lock: who holds it, then who waits
  job,       \* where the flush loop, the requests and the cleanup stand
  batch,     \* what each of them has taken out and not written, one set for each node
  rows,      \* aetp_log_entries
  trimming,  \* the trim task is alive
  up,        \* the plugin is loaded
  asked,     \* history: lines that were there when a request came
  removed,   \* history: lines deleted or trimmed
  cut,       \* history: lines whose writing was cut off by the cleanup
  faults

flush == <<lock, job, batch, asked>>
table == <<rows, removed>>
vars == <<work, queued, lines, pending, failed, flush, table, trimming, up, cut, faults>>

Jobs == Requests \union {"loop", "stop"}
Quiet == work = <<>>  \* no call is running

Numbers(entries) == {e.n : e \in entries}
Taken(j) == UNION {Numbers(batch[j][g]) : g \in DOMAIN batch[j]}
Held == Numbers(ToSet(pending)) \union UNION {Taken(j) : j \in Jobs}

Init ==
  /\ work = <<>> /\ queued = 0 /\ lines = 0 /\ pending = <<>> /\ failed = FALSE
  /\ lock = <<>> /\ job = [j \in Jobs |-> "idle"] /\ batch = [j \in Jobs |-> <<>>]
  /\ asked = [j \in Jobs |-> {}]
  /\ rows = {} /\ removed = {}
  /\ trimming = TRUE /\ up = TRUE /\ cut = {} /\ faults = 0

Fault == faults < FaultBound /\ faults' = faults + 1

-----------------------------------------------------------------------------
(* A running call *)

\* _note_store_failure: only the first one is logged.
Warning == IF failed THEN <<>> ELSE <<"warn">>

\* Mutant of NoteFailure: nobody counts.
NoteSilently(rest) == failed' = failed /\ work' = rest

NoteFailure(rest) == failed' = TRUE /\ work' = Warning \o rest

\* _enqueue: over the limit the oldest line goes.
Buffer(node, rest) ==
  LET n == IF lines <= LineBound THEN lines + 1 ELSE lines
      grown == Append(pending, [node |-> node, n |-> n])
  IN /\ lines' = n
     /\ IF Len(grown) > BufferMax
        THEN pending' = Tail(grown) /\ NoteFailure(rest)
        ELSE pending' = grown /\ failed' = failed /\ work' = rest

\* _sink_exporter: a line of a level that counts is buffered and reported.
Export ==
  /\ ~Quiet /\ Head(work) # "insert"
  /\ IF Head(work) \in Reported
     THEN Buffer("own", <<"insert">> \o Tail(work))
     ELSE work' = Tail(work) /\ UNCHANGED <<lines, pending, failed>>
  /\ UNCHANGED <<queued, flush, table, trimming, up, cut, faults>>

Full == queued >= QueueMax

\* CommService._enqueue: as long as there is no room the oldest record goes, with a warning.
Evict ==
  /\ ~Quiet /\ Head(work) = "insert"
  /\ Full
  /\ queued' = queued - 1
  /\ work' = <<"warn">> \o work
  /\ UNCHANGED <<lines, pending, failed, flush, table, trimming, up, cut, faults>>

Insert ==
  /\ ~Quiet /\ Head(work) = "insert"
  /\ ~Full
  /\ queued' = queued + 1
  /\ work' = Tail(work)
  /\ UNCHANGED <<lines, pending, failed, flush, table, trimming, up, cut, faults>>

Work == Export \/ Evict \/ Insert

-----------------------------------------------------------------------------
(* Where lines and records come from, and where records go *)

Log(level) ==
  /\ Quiet
  /\ lines < LineBound
  /\ work' = <<level>>
  /\ UNCHANGED <<queued, lines, pending, failed, flush, table, trimming, up, cut, faults>>

\* Any other message.
Send ==
  /\ Quiet
  /\ work' = <<"insert">>
  /\ UNCHANGED <<queued, lines, pending, failed, flush, table, trimming, up, cut, faults>>

\* A record is settled.  One that reports an own line to this very node is dropped by
\* _on_log_batch, which knows its sender.
Settle ==
  /\ Quiet
  /\ queued > 0
  /\ queued' = queued - 1
  /\ UNCHANGED <<work, lines, pending, failed, flush, table, trimming, up, cut, faults>>

\* _on_log_batch: a line of another node.
Receive ==
  /\ Quiet
  /\ lines < LineBound
  /\ Buffer("peer", <<>>)
  /\ UNCHANGED <<queued, flush, table, trimming, up, cut, faults>>

-----------------------------------------------------------------------------
(* _flush_pending: by the loop, by a request before it reads, by the cleanup *)

\* Mutant of Holds: nobody waits for the lock.
NeedNotHold(j) == j \in ToSet(lock)

Holds(j) == lock # <<>> /\ Head(lock) = j

Asks(j) ==
  /\ Quiet
  /\ j # "stop" /\ up
  /\ job[j] = "idle"
  /\ job' = [job EXCEPT ![j] = "waits"]
  /\ lock' = Append(lock, j)
  /\ asked' = [asked EXCEPT ![j] = IF j \in Requests THEN Held \cap (1 .. LineBound) ELSE {}]
  /\ UNCHANGED <<work, queued, lines, pending, failed, batch, table, trimming, up, cut, faults>>

\* The lines by node, of which there are two: first that of the oldest line.
Grouped(s) ==
  LET entries == ToSet(s)
      first == {e \in entries : e.node = Head(s).node}
  IN IF first = entries THEN <<first>> ELSE <<first, entries \ first>>

\* What comes after the flush.
Released(j) ==
  /\ lock' = Tail(lock)
  /\ job' = [job EXCEPT ![j] = CASE j = "loop" -> "idle" [] j = "stop" -> "over" [] OTHER -> "serves"]

Takes(j) ==
  /\ Quiet
  /\ Holds(j) /\ job[j] = "waits"
  /\ IF pending = <<>>
     THEN Released(j) /\ batch' = batch
     ELSE batch' = [batch EXCEPT ![j] = Grouped(pending)] /\ job' = [job EXCEPT ![j] = "writes"] /\ lock' = lock
  /\ pending' = <<>>
  /\ UNCHANGED <<work, queued, lines, failed, asked, table, trimming, up, cut, faults>>

\* One transaction for each node; the lock is held until the last is over.
Written(j) ==
  /\ batch' = [batch EXCEPT ![j] = Tail(@)]
  /\ IF Len(batch[j]) = 1 THEN Released(j) ELSE UNCHANGED <<lock, job>>

Writes(j) ==
  /\ Quiet
  /\ job[j] = "writes"
  /\ rows' = rows \union Head(batch[j])
  /\ Written(j)
  /\ UNCHANGED <<work, queued, lines, pending, failed, asked, removed, trimming, up, cut, faults>>

\* The entries of that node are gone, and the next node has its turn.
WriteFails(j) ==
  /\ Quiet
  /\ job[j] = "writes"
  /\ Fault
  /\ NoteFailure(<<>>)
  /\ Written(j)
  /\ UNCHANGED <<queued, lines, pending, asked, table, trimming, up, cut>>

-----------------------------------------------------------------------------
(* The page, retention and the end *)

Served(j) ==
  /\ Quiet
  /\ j \in Requests
  /\ job[j] = "serves"
  /\ job' = [job EXCEPT ![j] = "idle"]
  /\ asked' = [asked EXCEPT ![j] = {}]

Reads(j) ==
  /\ Served(j)
  /\ UNCHANGED <<work, queued, lines, pending, failed, lock, batch, table, trimming, up, cut, faults>>

Removes(gone) ==
  /\ rows' = {e \in rows : e.n \notin gone}
  /\ removed' = removed \union gone

\* _delete_logs by some filter, and its entry in the audit.
Deletes(j) ==
  /\ Served(j)
  /\ \E gone \in SUBSET Numbers(rows) : Removes(gone)
  /\ work' = <<"info">>
  /\ UNCHANGED <<queued, lines, pending, failed, lock, batch, trimming, up, cut, faults>>

\* What is too old goes, by clocks of several nodes, and then all but the newest rows.
Trim ==
  /\ Quiet
  /\ trimming
  /\ \E gone \in SUBSET Numbers(rows) :
       Cardinality(Numbers(rows) \ gone) <= RowsMax /\ Removes(gone)
  /\ UNCHANGED <<work, queued, lines, pending, failed, flush, trimming, up, cut, faults>>

\* _trim_loop catches nothing: the task ends, and _log_task_exit says so.
TrimFails ==
  /\ Quiet
  /\ trimming
  /\ lines < LineBound
  /\ Fault
  /\ trimming' = FALSE
  /\ work' = <<"error">>
  /\ UNCHANGED <<queued, lines, pending, failed, flush, table, up, cut>>

\* cleanup: the loop is cancelled, in the middle of a transaction that may or may not have
\* been committed, and what is buffered then is flushed.
Stop ==
  /\ Quiet
  /\ up
  /\ up' = FALSE /\ trimming' = FALSE
  /\ \E s \in {{}} \union (IF batch["loop"] = <<>> THEN {} ELSE {Head(batch["loop"])}) :
       /\ rows' = rows \union s
       /\ cut' = cut \union (Taken("loop") \ Numbers(s))
  /\ batch' = [batch EXCEPT !["loop"] = <<>>]
  /\ job' = [job EXCEPT !["loop"] = "over", !["stop"] = "waits"]
  /\ lock' = Append(RemoveFirst(lock, "loop"), "stop")
  /\ UNCHANGED <<work, queued, lines, pending, failed, asked, removed, faults>>

Next ==
  \/ Work
  \/ Send \/ Settle \/ Receive
  \/ \E level \in Reported : Log(level)
  \/ \E j \in Jobs : Asks(j) \/ Takes(j) \/ Writes(j) \/ WriteFails(j) \/ Reads(j) \/ Deletes(j)
  \/ Trim \/ TrimFails \/ Stop

\* A call that runs goes on to its end.
Fairness == WF_vars(Work)

Spec == Init /\ [][Next]_vars

FairSpec == Spec /\ Fairness

-----------------------------------------------------------------------------

\* A request that reads or deletes does so after every line that was there when it came has
\* left the buffer and whoever was writing it (_flush_pending, "read-your-writes").
ReadsOwnWrites ==
  [][\A j \in Requests : Reads(j) \/ Deletes(j) => asked[j] \cap Held = {}]_vars

\* As long as no failure is shown (_metrics), no line is missing, but for those whose writing
\* the cleanup cut off (_enqueue, _flush_pending).
LostIsCounted ==
  ~failed => 1 .. lines \subseteq Held \union Numbers(rows) \union removed \union cut

\* A call that puts a record into a full queue drops the oldest ones and returns (_enqueue).
SendReturns == ~Quiet ~> Quiet

=============================================================================
