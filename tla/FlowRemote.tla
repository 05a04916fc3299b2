----------------------------- MODULE FlowRemote -----------------------------
(***************************************************************************)
(* One run_remote call (common/plugins/flow/remote.py): RemoteHub on the   *)
(* master places jobs on slave nodes, keeps a lease on each and judges its *)
(* result; a WorkerRuntime on every slave runs them.  Messages travel      *)
(* through comm, which loses none that it promises to keep but reorders    *)
(* and repeats them; leases are fire-and-forget and may be lost.  A slave  *)
(* may restart and then knows nothing of the jobs it had.                  *)
(*                                                                         *)
(* The nonce of a dispatch is fresh and so is its attempt number, so the   *)
(* attempt stands for both; 0 is the empty nonce.  Everything between two  *)
(* awaits of the code is one step.  Time is counted in ticks.              *)
(***************************************************************************)
EXTENDS Integers, FiniteSets, FiniteSetsExt

CONSTANTS
  JobCount,      \* the jobs of the call are 1 .. JobCount, in their order
  Workers,       \* slave nodes, numbered as their node ids are ordered
  Capacity,      \* [Workers -> Nat \ {0}], max_concurrency of the step there
  Idempotent,    \* workers whose step is registered with idempotent=True
  Calls,         \* calls looked at: the jobs too big to send, and the retries
  RetryMax,      \* bound: the retries of a call
  MaxParallel,   \* max_parallel of the call
  LeaseTimeout, PlaceWait, Timeout,  \* in ticks; the clock stops at Timeout
  Outcomes,      \* what handlers may end with, among Results
  Memory,        \* _WORKER_MEMORY
  Frail,         \* bound: the workers that may fail in one of the ways below
  FaultBound,    \* bound: restarts, steps unregistered, nodes that come and go
  LeaseBound     \* bound: leases on their way at a time

\* What a worker reports: "retryable" is a failure with retryable=True.
Results == {"succeeded", "failed", "skipped", "cancelled", "retryable"}

Jobs == 1 .. JobCount
Attempts == 1 .. RetryMax + 1 + Cardinality(Idempotent)
Keys == Workers \X Jobs \X Attempts   \* an entry of a worker: who, job, attempt

ASSUME RemoteAssumption ==
  /\ JobCount \in Nat
  /\ RetryMax \in Nat
  /\ Calls \subseteq [big : SUBSET Jobs, retries : 0 .. RetryMax]
  /\ Workers \subseteq Nat \ {0} /\ IsFiniteSet(Workers)
  /\ Capacity \in [Workers -> Nat \ {0}]
  /\ Idempotent \subseteq Workers
  /\ Outcomes \subseteq Results /\ Frail \subseteq Workers
  /\ {PlaceWait, LeaseTimeout, FaultBound, LeaseBound} \subseteq Nat
  /\ {MaxParallel, Timeout, Memory} \subseteq Nat \ {0}

VARIABLES
  job,          \* RemoteHub._jobs: per job its _Job record
  call,         \* "wait" in the loop, "tell" in on_unknown, "place" in _place,
                \* "returned" or "cut"
  cursor,       \* the job _place looks at
  telling,      \* the unknown jobs the round has still to report
  interrupted,  \* the jobs reported to FlowService._interrupt_for_remote
  now, seen,    \* the clock, and its reading at the start of the round
  net,          \* messages sent; only leases are taken out
  work,         \* WorkerRuntime._jobs: per key how far _execute has got
  loose,        \* keys whose handler goes on after its entry was cancelled
  online,       \* workers the nodes service offers for the step
  offering,     \* workers on which the step is registered
  began, done,  \* history: handlers begun per key; keys whose handler succeeded
  forgot,       \* history: keys a worker no longer knows, by restart or pruning
  faults

hubVars == <<job, call, cursor, telling, interrupted, seen>>
workerVars == <<work, loose, offering, began, done, forgot>>
vars == <<hubVars, now, net, workerVars, online, faults>>

Verdicts == {"succeeded", "failed", "skipped", "cancelled", "unknown"}

InFlight == {"waiting", "running", "grace"}  \* waiting for a slot, or in _invoke
Phases == {"none", "new", "dropped"} \union InFlight \union Results

Run(w, j, a, limited) == [type |-> "run", key |-> <<w, j, a>>, limited |-> limited]
Cancel(k) == [type |-> "cancel", key |-> k]
Lease(k) == [type |-> "lease", key |-> k]
Result(k, r) == [type |-> "result", key |-> k, result |-> r]

NewJob(j, c) == [state |-> IF j \in c.big THEN "failed" ELSE "open",
  attempts |-> 0, retries |-> c.retries, node |-> 0, nonce |-> 0, idempotent |-> FALSE,
  excluded |-> {}, avoid |-> {}, lease |-> 0, unplaced |-> -1]

Init ==
  /\ \E c \in Calls : job = [j \in Jobs |-> NewJob(j, c)]
  /\ call = "wait" /\ cursor = 1 /\ telling = {} /\ interrupted = {}
  /\ now = 0 /\ seen = 0
  /\ net = {}
  /\ work = [k \in Keys |-> "none"] /\ loose = {}
  /\ online = Workers /\ offering = Workers
  /\ began = [k \in Keys |-> 0] /\ done = {} /\ forgot = {}
  /\ faults = 0

-----------------------------------------------------------------------------
(* The hub: finding, losing and placing jobs *)

Open == {j \in Jobs : job[j].state = "open"}
Placed == {j \in Open : job[j].node # 0}

Finalized(r, v) == IF r.state = "open" THEN [r EXCEPT !.state = v] ELSE r

Requeued(r) == [r EXCEPT !.node = 0, !.nonce = 0, !.lease = 0]

\* Mutant of Lost: the lost node may be picked again.
LostKept(r) ==
  IF r.idempotent \/ r.attempts <= r.retries THEN Requeued(r) ELSE Finalized(r, "unknown")

\* A lost node is excluded for good, a failed one only avoided.
Excluding(r) == [r EXCEPT !.excluded = r.excluded \union {r.node}]
Avoiding(r) == [r EXCEPT !.avoid = r.avoid \union {r.node}]

Lost(r) ==
  IF r.idempotent \/ r.attempts <= r.retries
  THEN Requeued(Excluding(r)) ELSE Finalized(r, "unknown")

Failed(r, retryable) ==
  IF retryable /\ r.attempts <= r.retries
  THEN Requeued(Avoiding(r)) ELSE Finalized(r, "failed")

Overdue == {j \in Placed : now > job[j].lease}

Reaped(j) ==
  IF j \in Overdue THEN Lost(job[j])
  ELSE IF j \notin Placed /\ now >= Timeout THEN Finalized(job[j], "failed")
  ELSE job[j]

\* A round begins: _reap judges leases and the deadline; on_unknown is awaited for
\* every job that is lost for good, then the queued jobs are placed.
Round ==
  /\ call = "wait"
  /\ seen' = now
  /\ job' = [j \in Jobs |-> Reaped(j)]
  /\ telling' = {j \in Open : Reaped(j).state = "unknown"}
  /\ net' = net \union {Cancel(<<job[j].node, j, job[j].attempts>>) : j \in Overdue}
  /\ call' = IF telling' = {} THEN "place" ELSE "tell"
  /\ cursor' = 1
  /\ UNCHANGED <<interrupted, now, workerVars, online, faults>>

\* Mutant of Tell: the round goes on after the first of them.
TellOne ==
  /\ call = "tell"
  /\ interrupted' = interrupted \union {Min(telling)}
  /\ telling' = {}
  /\ call' = "place"
  /\ UNCHANGED <<job, cursor, seen, now, net, workerVars, online, faults>>

\* After the last the round goes on with the time it read when it began.
Tell ==
  /\ call = "tell"
  /\ LET j == Min(telling) IN
       /\ interrupted' = interrupted \union {j}
       /\ telling' = telling \ {j}
  /\ call' = IF telling' = {} THEN "place" ELSE "tell"
  /\ UNCHANGED <<job, cursor, seen, now, net, workerVars, online, faults>>

Load(w) == Cardinality({j \in Open : job[j].node = w})

\* w has the smaller load for its capacity, or the smaller node id.
Lighter(w, v) ==
  \/ Load(w) * Capacity[v] < Load(v) * Capacity[w]
  \/ Load(w) * Capacity[v] = Load(v) * Capacity[w] /\ w <= v

Candidates(r) == online \ r.excluded

\* Nodes that failed the job are taken only when there is no other.
Preferred(r) == IF Candidates(r) \ r.avoid # {} THEN Candidates(r) \ r.avoid ELSE Candidates(r)

Dispatched(r, w) ==
  [r EXCEPT !.attempts = r.attempts + 1, !.node = w, !.nonce = r.attempts + 1,
            !.idempotent = w \in Idempotent, !.lease = seen + LeaseTimeout, !.unplaced = -1]

Unplaced(r) ==
  IF r.unplaced = -1 THEN [r EXCEPT !.unplaced = seen]
  ELSE IF seen - r.unplaced >= PlaceWait THEN Finalized(r, "failed") ELSE r

Queued(j) == j \in Jobs /\ job[j].state = "open" /\ job[j].node = 0 /\ Cardinality(Placed) < MaxParallel

\* _place for one job; nothing comes between the jobs of a round.  The time left is
\* sent along, and none left means no limit to the worker.
Place ==
  /\ call = "place"
  /\ Queued(cursor)
  /\ Candidates(job[cursor]) # {}
  /\ \E w \in Preferred(job[cursor]) :
       /\ \A v \in Preferred(job[cursor]) : Lighter(w, v)
       /\ job' = [job EXCEPT ![cursor] = Dispatched(@, w)]
       /\ net' = net \union {Run(w, cursor, job'[cursor].attempts, seen < Timeout)}
  /\ cursor' = cursor + 1
  /\ UNCHANGED <<call, telling, interrupted, seen, now, workerVars, online, faults>>

PlaceNowhere ==
  /\ call = "place"
  /\ Queued(cursor)
  /\ Candidates(job[cursor]) = {}
  /\ job' = [job EXCEPT ![cursor] = Unplaced(@)]
  /\ cursor' = cursor + 1
  /\ UNCHANGED <<call, telling, interrupted, seen, now, net, workerVars, online, faults>>

PlaceNot ==
  /\ call = "place"
  /\ cursor \in Jobs /\ ~Queued(cursor)
  /\ cursor' = cursor + 1
  /\ UNCHANGED <<job, call, telling, interrupted, seen, now, net, workerVars, online, faults>>

\* Mutant of Expired: jobs that a worker holds are waited for.
ExpiredQueued(r) == IF seen >= Timeout /\ r.node = 0 THEN Finalized(r, "failed") ELSE r

\* At the deadline what is still open has failed; no worker is told.
Expired(r) == IF seen >= Timeout THEN Finalized(r, "failed") ELSE r

RoundEnds ==
  /\ call = "place"
  /\ cursor = JobCount + 1
  /\ job' = [j \in Jobs |-> Expired(job[j])]
  /\ call' = IF \E j \in Jobs : job'[j].state = "open" THEN "wait" ELSE "returned"
  /\ UNCHANGED <<cursor, telling, interrupted, seen, now, net, workerVars, online, faults>>

\* The executor cancels the step, or on_unknown fails.  The jobs leave the table and
\* nothing tells the workers.
Cut ==
  /\ call \in {"wait", "tell"}
  /\ call' = "cut"
  /\ UNCHANGED <<job, cursor, telling, interrupted, seen, now, net, workerVars, online, faults>>

-----------------------------------------------------------------------------
(* The hub: messages *)

\* Mutant of Verified: only the job must be in flight.
VerifiedJob(k) == call \in {"wait", "tell"} /\ job[k[2]].state = "open"

\* _verify: in flight, the attempt and the nonce of the last dispatch, from its node.
Verified(k) ==
  LET r == job[k[2]] IN
  /\ call \in {"wait", "tell"}
  /\ r.state = "open"
  /\ k[3] = r.attempts
  /\ k[3] = r.nonce
  /\ k[1] = r.node

OnResult(m) ==
  /\ m \in net /\ m.type = "result"
  /\ Verified(m.key)
  /\ job' = [job EXCEPT ![m.key[2]] =
       IF m.result \in {"failed", "retryable"} THEN Failed(@, m.result = "retryable")
       ELSE Finalized(@, m.result)]
  /\ UNCHANGED <<call, cursor, telling, interrupted, seen, now, net, workerVars, online, faults>>

OnLease(m) ==
  /\ m \in net /\ m.type = "lease"
  /\ net' = net \ {m}
  /\ job' = IF Verified(m.key) THEN [job EXCEPT ![m.key[2]].lease = now + LeaseTimeout] ELSE job
  /\ UNCHANGED <<call, cursor, telling, interrupted, seen, now, workerVars, online, faults>>

-----------------------------------------------------------------------------
(* A worker *)

Entries(w) == {k \in Keys : k[1] = w /\ work[k] # "none"}

\* The sets of finished entries that may go to make room for one more.
Prunable(w) ==
  LET finished == {k \in Entries(w) : work[k] \in Results}
      over == Cardinality(Entries(w)) - Memory + 1
      count == IF over > 0 THEN Min({over, Cardinality(finished)}) ELSE 0
  IN kSubset(count, finished)

\* Mutant of Known: an entry counts only until it has its result.
KnownUnfinished(k) == work[k] \in {"new", "dropped"} \union InFlight

\* A repeated run is answered with the old result or left to the running one.
Known(k) == work[k] # "none"

OnRun(m) ==
  /\ m \in net /\ m.type = "run"
  /\ ~Known(m.key)
  /\ \E S \in Prunable(m.key[1]) :
       /\ work' = [k \in Keys |-> IF k = m.key THEN "new" ELSE IF k \in S THEN "none" ELSE work[k]]
       /\ forgot' = forgot \union S
  /\ UNCHANGED <<hubVars, now, net, loose, offering, began, done, online, faults>>

OnRunAgain(m) ==
  /\ m \in net /\ m.type = "run"
  /\ work[m.key] \in Results
  /\ net' = net \union {Result(m.key, work[m.key])}
  /\ UNCHANGED <<hubVars, now, workerVars, online, faults>>

\* The slot is given back when the task is cancelled; the handler is only signalled.
OnCancel(m) ==
  /\ m \in net /\ m.type = "cancel"
  /\ Known(m.key)
  /\ IF work[m.key] \in Results
     THEN net' = net \union {Result(m.key, work[m.key])} /\ UNCHANGED <<work, loose>>
     ELSE /\ work' = [work EXCEPT ![m.key] = "dropped"]
          /\ loose' = IF work[m.key] \in {"running", "grace"} THEN loose \union {m.key} ELSE loose
          /\ UNCHANGED net
  /\ UNCHANGED <<hubVars, now, offering, began, done, forgot, online, faults>>

Reports(k, r) ==
  /\ work' = [work EXCEPT ![k] = r]
  /\ net' = net \union {Result(k, r)}

Occupied(w) == {k \in Keys : k[1] = w /\ work[k] \in {"running", "grace"}}
Free(w) == Cardinality(Occupied(w)) < Capacity[w]

Enters(k) ==
  /\ work' = [work EXCEPT ![k] = "running"]
  /\ began' = [began EXCEPT ![k] = @ + 1]

\* The task of _execute starts: no_step is final; a free slot is taken at once.
Begin(k) ==
  /\ work[k] = "new"
  /\ IF k[1] \notin offering THEN Reports(k, "failed") /\ UNCHANGED began
     ELSE /\ UNCHANGED net
          /\ IF Free(k[1]) THEN Enters(k)
             ELSE work' = [work EXCEPT ![k] = "waiting"] /\ UNCHANGED began
  /\ UNCHANGED <<hubVars, now, loose, offering, done, forgot, online, faults>>

Slot(k) ==
  /\ work[k] = "waiting"
  /\ Free(k[1])
  /\ Enters(k)
  /\ UNCHANGED <<hubVars, now, net, loose, offering, done, forgot, online, faults>>

\* The handler ends by itself, in time or within the grace period after it.
HandlerEnds(k, r) ==
  /\ work[k] = "running"
  /\ Reports(k, r)
  /\ done' = IF r = "succeeded" THEN done \union {k} ELSE done
  /\ UNCHANGED <<hubVars, now, loose, offering, began, forgot, online, faults>>

\* The time left was counted from the dispatch; the worker counts it from the slot.
TimesOut(k) ==
  /\ work[k] = "running"
  /\ now >= Timeout
  /\ Run(k[1], k[2], k[3], TRUE) \in net
  /\ work' = [work EXCEPT ![k] = "grace"]
  /\ UNCHANGED <<hubVars, now, net, loose, offering, began, done, forgot, online, faults>>

GraceEnds(k) ==
  /\ work[k] = "grace"
  /\ Reports(k, "retryable")
  /\ UNCHANGED <<hubVars, now, loose, offering, began, done, forgot, online, faults>>

SendLease(k) ==
  /\ work[k] \in InFlight
  /\ Cardinality({m \in net : m.type = "lease"}) < LeaseBound
  /\ net' = net \union {Lease(k)}
  /\ UNCHANGED <<hubVars, now, workerVars, online, faults>>

LooseEnds(k) ==
  /\ k \in loose
  /\ loose' = loose \ {k}
  /\ UNCHANGED <<hubVars, now, net, work, offering, began, done, forgot, online, faults>>

-----------------------------------------------------------------------------
(* The surroundings *)

Tick ==
  /\ now < Timeout
  /\ now' = now + 1
  /\ UNCHANGED <<hubVars, net, workerVars, online, faults>>

Restart(w) ==
  /\ faults < FaultBound
  /\ faults' = faults + 1
  /\ work' = [k \in Keys |-> IF k[1] = w THEN "none" ELSE work[k]]
  /\ loose' = {k \in loose : k[1] # w}
  /\ forgot' = forgot \union Entries(w)
  /\ UNCHANGED <<hubVars, now, net, offering, began, done, online>>

\* The nodes service changes its mind about a worker.
Churn(w) ==
  /\ faults < FaultBound
  /\ faults' = faults + 1
  /\ online' = IF w \in online THEN online \ {w} ELSE online \union {w}
  /\ UNCHANGED <<hubVars, now, net, workerVars>>

Unregister(w) ==
  /\ w \in offering
  /\ faults < FaultBound
  /\ faults' = faults + 1
  /\ offering' = offering \ {w}
  /\ UNCHANGED <<hubVars, now, net, work, loose, began, done, forgot, online>>

Placing == Place \/ PlaceNowhere \/ PlaceNot \/ RoundEnds

WorkerStep(k) ==
  \/ Begin(k) \/ Slot(k) \/ TimesOut(k) \/ GraceEnds(k) \/ SendLease(k) \/ LooseEnds(k)
  \/ \E r \in Outcomes : HandlerEnds(k, r)

Message(m) == OnResult(m) \/ OnLease(m) \/ OnRun(m) \/ OnRunAgain(m) \/ OnCancel(m)

Surroundings == Tick \/ \E w \in Frail : Restart(w) \/ Churn(w) \/ Unregister(w)

Next ==
  \/ Round \/ Tell \/ Placing \/ Cut
  \/ /\ call # "place"
     /\ \/ \E m \in net : Message(m)
        \/ \E k \in Keys : WorkerStep(k)
        \/ Surroundings

Spec == Init /\ [][Next]_vars

-----------------------------------------------------------------------------
(* Properties *)

\* The table keeps its shape: a placed job has a node, its nonce and a lease.
TypeOK ==
  /\ call \in {"wait", "tell", "place", "returned", "cut"}
  /\ cursor \in 1 .. JobCount + 1
  /\ \A j \in Jobs : /\ job[j].state \in Verdicts \union {"open"}
                     /\ job[j].node \in Workers \union {0}
                     /\ job[j].attempts \in Nat
                     /\ job[j].nonce \in {0, job[j].attempts}
  /\ telling \subseteq Jobs /\ interrupted \subseteq Jobs
  /\ now \in 0 .. Timeout /\ seen \in 0 .. now
  /\ work \in [Keys -> Phases] /\ loose \subseteq Keys
  /\ online \subseteq Workers /\ offering \subseteq Workers

\* A success is the result of the dispatch it is credited to: the handler the last
\* attempt started on the node the result names did succeed, whatever late, repeated
\* or reordered answers of lost nodes and earlier attempts came in (_verify, 5.11.6).
SuccessIsReal ==
  \A j \in Jobs : job[j].state = "succeeded" => <<job[j].node, j, job[j].attempts>> \in done

\* Losing nodes and failing attempts cannot make the hub place a job for ever: beyond
\* the budget every further attempt costs an idempotent node that is never used again
\* for the job (_lost, _failed, _requeue).  In particular a job whose step is not
\* idempotent is placed at most retries + 1 times.
AttemptsBounded ==
  \A j \in Jobs : job[j].attempts <= job[j].retries + 1 + Cardinality(job[j].excluded \intersect Idempotent)

\* A dispatch is executed once, however often comm delivers it: a second handler for it
\* begins only on a worker that forgot the first by a restart or by pruning (_on_run).
ExecutedOnce == \A k \in Keys : began[k] > 1 => k \in forgot

\* The call keeps its promise: verdicts stand, it returns with all of them, and a job
\* of unknown fate has interrupted the run before the step goes on.
Promise == INSTANCE RemotePromise WITH
  verdict <- [j \in Jobs |-> job[j].state],
  call <- IF call \in {"returned", "cut"} THEN call ELSE "on"
KeepsCall == Promise!Spec

\* The call ends whatever the workers do: a round that has seen the deadline does not
\* leave the step waiting, for a lost message, a silent slave or one that renews its
\* lease for ever (_coordinate).
DeadlineEnds == call = "wait" => seen < Timeout

\* Section 5.11.8 of the design: a node never has more jobs in flight than the
\* max_concurrency of its step; what exceeds it waits in the hub (_place).
\* The code does not keep this: the capacity only weighs the choice of a node.
NodeCapacity == \A w \in Workers : Load(w) <= Capacity[w]

=============================================================================
