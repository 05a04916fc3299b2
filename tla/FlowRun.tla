------------------------------- MODULE FlowRun -------------------------------
(***************************************************************************)
(* One run of a flow on the master: the executor that drives its nodes one *)
(* by one (common/plugins/flow/executor.py), the service calls that start, *)
(* cancel, resume and recover it (service.py), and the tables that survive *)
(* a crash (store.py).                                                     *)
(*                                                                         *)
(* A `Run` object in memory together with the task that drives it is a     *)
(* driver.  The service creates one per start, resume and recovery, and    *)
(* nothing but the callers' care keeps two of them from being alive at     *)
(* once.  Everything between two awaits of the code is one step; each      *)
(* transaction of the store is a step of its own.                          *)
(***************************************************************************)
EXTENDS Integers, Sequences, FiniteSets, FiniteSetsExt

CONSTANTS
  N,            \* the nodes of the flow are 1 .. N, in their order
  Required, Always, Disabled,  \* node options; Disabled by the overrides
  Remote,       \* nodes whose step runs jobs on other machines (run_remote)
  Idempotent,   \* nodes whose step is registered with idempotent=True
  Retries,      \* [1 .. N -> Nat], the node option
  Providers,    \* [1 .. N -> Nat \ {0}], providers picked: 1 unless mode=all
  Drivers,      \* bound: ids of Run objects, 1 .. Drivers
  CrashBound,   \* bound: crashes and orderly stops together
  CancelBound,  \* bound: accepted cancel calls
  ResumeBound,  \* bound: resume calls
  StoreFaults,  \* whether a transaction may fail
  Churn,        \* whether providers may be drained or missing
  Careful       \* what callers take care of: "sweep", to start and resume only after
                \* the recovery sweep; "single", one resume call at a time; "idle", to
                \* resume only once the task that drove the run has ended

Nodes == 1 .. N

ASSUME FlowAssumption ==
  /\ N \in Nat
  /\ Required \subseteq Nodes /\ Always \subseteq Nodes /\ Disabled \subseteq Nodes
  /\ Remote \subseteq Nodes /\ Idempotent \subseteq Nodes
  /\ Retries \in [Nodes -> Nat]
  /\ Providers \in [Nodes -> Nat \ {0}]
  /\ Drivers \in Nat \ {0}
  /\ CrashBound \in Nat /\ CancelBound \in Nat /\ ResumeBound \in Nat
  /\ StoreFaults \in BOOLEAN /\ Churn \in BOOLEAN
  /\ Careful \subseteq {"sweep", "single", "idle"}

VARIABLES
  row,       \* runs.state of the run, "none" before run-created
  steps,     \* the steps rows: per node the states of its attempts 1, 2, ...
  finished,  \* per node the state of its last node-finished event, or "none"
  run,       \* the Run objects with the place their tasks have reached
  current,   \* which object _runs holds, 0 if none
  starting,  \* start() has recorded run-created and not created the task yet
  calls,     \* the resume calls
  cancelling,\* the object whose cancel() awaits its record, 0 if none
  sweep,     \* the recovery of this process: "waiting", "marking", "done"
  blind,     \* history: nodes whose attempt a crash cut off, until a resume call
  crashes, cancels

tables == <<row, steps, finished>>
vars == <<tables, run, current, starting, calls, cancelling, sweep, blind, crashes, cancels>>

-----------------------------------------------------------------------------
(* Runs *)

Final == {"succeeded", "failed", "cancelled"}
RunStates == {"pending", "running", "interrupted"} \cup Final
NodeStates == {"pending", "succeeded", "failed", "skipped", "cancelled", "unknown"}
Kinds == {"ok", "skipped", "retryable", "failed", "cancelled", "timeout"}

\* What the steps row says of an attempt that ended as `kind`.
AttemptState(kind) ==
  CASE kind = "ok" -> "succeeded"
    [] kind \in {"skipped", "cancelled", "unknown"} -> kind
    [] OTHER -> "failed"
StepStates == {"running", "succeeded", "skipped", "cancelled", "unknown", "failed"}

\* Where a driver is: waiting for a slot and for run-started ("slot"), for a
\* provider, for attempt-started ("begin"), for the handler ("call"), for
\* attempt-finished ("end"), for the backoff ("sleep"), for node-finished of a
\* node it ran ("finish") or passed over ("pass"), for run-finished ("close").
Places == {"none", "slot", "resolve", "begin", "call", "end", "sleep", "finish",
           "pass", "close", "over"}

RunObject == [pc : Places, state : RunStates, node : 1 .. N + 1, nodes : [Nodes -> NodeStates],
              base : [Nodes -> Nat], attempt : Nat, try : Nat, left : Nat,
              seen : SUBSET {"ok", "skipped", "failed", "cancelled"}, kind : Kinds \cup {"unknown"},
              cancelled : BOOLEAN, lost : BOOLEAN, unknown : SUBSET Nodes,
              telling : BOOLEAN, failed : BOOLEAN]

\* A Run object whose nodes are in the states ns, with attempts counted from b.
NewRun(ns, b) ==
  [pc |-> "slot", state |-> "pending", node |-> 1, nodes |-> ns, base |-> b,
   attempt |-> 0, try |-> 0, left |-> 0, seen |-> {}, kind |-> "ok", cancelled |-> FALSE,
   lost |-> FALSE, unknown |-> {}, telling |-> FALSE, failed |-> FALSE]
NoRun == [NewRun([i \in Nodes |-> "pending"], [i \in Nodes |-> 0]) EXCEPT !.pc = "none"]

Active == {d \in 1 .. Drivers : run[d].pc \notin {"none", "over"}}

Init ==
  /\ row = "none"
  /\ steps = [i \in Nodes |-> << >>]
  /\ finished = [i \in Nodes |-> "none"]
  /\ run = [d \in 1 .. Drivers |-> NoRun]
  /\ current = 0
  /\ starting = FALSE
  /\ calls = [c \in 1 .. ResumeBound |-> "unused"]
  /\ cancelling = 0
  /\ sweep = "waiting"
  /\ blind = {}
  /\ crashes = 0
  /\ cancels = 0

\* _runs[run_id] = r and a task for it.
Free == (1 .. Drivers) \ (Active \cup {cancelling})
Launch(r) ==
  /\ Free # {}
  /\ current' = Min(Free)
  /\ run' = [run EXCEPT ![Min(Free)] = r]

-----------------------------------------------------------------------------
(* The node loop of _advance *)

\* The loop is over: the final state of the run.
Conclude(r) ==
  [r EXCEPT !.pc = "close",
            !.state = CASE r.lost -> "interrupted"
                        [] ~r.lost /\ r.failed -> "failed"
                        [] ~r.lost /\ ~r.failed /\ r.cancelled -> "cancelled"
                        [] OTHER -> "succeeded"]

\* The task has ended: of its object only the state is read again.
Over(r) == [NoRun EXCEPT !.pc = "over", !.state = r.state]

\* An exception of the store: execute() gives up with store_error.
Abort(r) == [r EXCEPT !.pc = "close", !.state = "failed", !.cancelled = TRUE, !.telling = FALSE]

\* The state of the node is set in memory, and the locals of _run_node are gone.
FinishNode(r, place, s) ==
  [r EXCEPT !.pc = place, !.nodes[r.node] = s,
            !.attempt = 0, !.try = 0, !.left = 0, !.seen = {}, !.kind = "ok"]

\* Mutant of Visit: the failures a rebuilt run brings along are not counted.
VisitForgetful(r, i) ==
  LET open == {j \in i .. N : r.nodes[j] = "pending"}
      j == IF open = {} THEN N + 1 ELSE Min(open)
      at == [r EXCEPT !.node = j]
  IN  CASE j = N + 1 -> Conclude(at)
        [] j \in Disabled \/ (j \in Nodes \ Always /\ at.failed) -> FinishNode(at, "pass", "skipped")
        [] j \in Nodes \ (Disabled \cup Always) /\ ~at.failed /\ r.cancelled ->
             FinishNode(at, "pass", "cancelled")
        [] OTHER -> [at EXCEPT !.pc = "resolve"]

\* The loop goes on with node i: nodes that are final already (a rebuilt run)
\* are stepped over, a failed required one among them counts as a failure.
Visit(r, i) ==
  LET open == {j \in i .. N : r.nodes[j] = "pending"}
      j == IF open = {} THEN N + 1 ELSE Min(open)
      at == [r EXCEPT !.node = j,
                      !.failed = @ \/ \E k \in (i .. j - 1) \cap Required : r.nodes[k] = "failed"]
  IN  CASE j = N + 1 -> Conclude(at)
        [] j \in Disabled \/ (j \in Nodes \ Always /\ at.failed) -> FinishNode(at, "pass", "skipped")
        [] j \in Nodes \ (Disabled \cup Always) /\ ~at.failed /\ r.cancelled ->
             FinishNode(at, "pass", "cancelled")
        [] OTHER -> [at EXCEPT !.pc = "resolve"]

\* How a node ends once its providers have ended as r.seen.
NodeResult(r) ==
  CASE r.node \in r.unknown -> "unknown"
    [] r.node \notin r.unknown /\ "failed" \in r.seen -> "failed"
    [] r.node \notin r.unknown /\ "failed" \notin r.seen /\ "cancelled" \in r.seen -> "cancelled"
    [] r.node \notin r.unknown /\ r.seen = {"skipped"} -> "skipped"
    [] OTHER -> "succeeded"
NodeDone(r) == FinishNode(r, "finish", NodeResult(r))

NextAttempt(r) == [r EXCEPT !.pc = "begin", !.attempt = @ + 1, !.kind = "ok"]

\* One provider has ended as k: the next one, or the node is done.
ProviderDone(r, k) ==
  LET s == [r EXCEPT !.seen = @ \cup {k}, !.left = @ - 1]
      stop == k = "cancelled" \/ (k = "failed" /\ r.node \in Required)
  IN  IF stop \/ s.left = 0 THEN NodeDone(s) ELSE NextAttempt([s EXCEPT !.try = 1])

\* _run_provider after an attempt: retry, or the provider is done.  gone: the
\* provider was drained and no other takes its place.
AfterAttempt(r, gone) ==
  LET retryable == r.kind \in {"retryable", "timeout"}
                     \/ (r.kind = "cancelled" /\ r.node \in Idempotent)
  IN  CASE r.kind \in {"ok", "skipped"} -> ProviderDone(r, r.kind)
        [] r.kind = "cancelled" /\ r.cancelled -> ProviderDone(r, "cancelled")
        [] r.kind \notin {"ok", "skipped"} /\ ~(r.kind = "cancelled" /\ r.cancelled) ->
             IF gone THEN ProviderDone(r, "failed")
             ELSE IF retryable /\ r.try <= Retries[r.node] /\ ~r.cancelled
                  THEN [r EXCEPT !.pc = "sleep"]
             ELSE ProviderDone(r, IF r.kind = "cancelled" THEN "cancelled" ELSE "failed")

-----------------------------------------------------------------------------
(* Steps of a driver *)

\* The driver has got its slot and run-started is recorded.
RunStarted(d) ==
  /\ run[d].pc = "slot"
  /\ row' = "running"
  /\ run' = [run EXCEPT ![d] = Visit([@ EXCEPT !.state = "running"], 1)]
  /\ UNCHANGED <<steps, finished, current, starting, calls, cancelling, sweep, blind, crashes, cancels>>

\* _resolve_with_wait found the providers of the node.
Resolved(d) ==
  /\ run[d].pc = "resolve"
  /\ LET r == run[d]
     IN  run' = [run EXCEPT ![d] = NextAttempt([r EXCEPT !.attempt = r.base[r.node], !.try = 1,
                                                       !.left = Providers[r.node], !.seen = {}])]
  /\ UNCHANGED <<tables, current, starting, calls, cancelling, sweep, blind, crashes, cancels>>

\* No provider, or an ambiguous choice.
Unresolved(d) ==
  /\ Churn
  /\ run[d].pc = "resolve"
  /\ run' = [run EXCEPT ![d] =
               FinishNode(@, "finish", IF run[d].node \in Required THEN "failed" ELSE "skipped")]
  /\ UNCHANGED <<tables, current, starting, calls, cancelling, sweep, blind, crashes, cancels>>

\* Mutant of AttemptStarted: the handler runs before its attempt is on record.
AttemptUnwritten(d) ==
  /\ run[d].pc = "begin"
  /\ run' = [run EXCEPT ![d].pc = "call"]
  /\ UNCHANGED <<tables, current, starting, calls, cancelling, sweep, blind, crashes, cancels>>

\* attempt-started is recorded, the handler runs; or the row is there already.
AttemptStarted(d) ==
  LET r == run[d]
      fresh == r.attempt > Len(steps[r.node])
  IN  /\ r.pc = "begin"
      /\ steps' = IF fresh THEN [steps EXCEPT ![r.node] = Append(@, "running")] ELSE steps
      /\ run' = [run EXCEPT ![d] = IF fresh THEN [r EXCEPT !.pc = "call"]
                                   ELSE [r EXCEPT !.pc = "end", !.kind = "unknown"]]
      /\ UNCHANGED <<row, finished, current, starting, calls, cancelling, sweep, blind,
                     crashes, cancels>>

\* The handler returns or raises, runs into its timeout, or is stopped by a
\* cancel or a drain.  One that is still reporting a lost job cannot return.
CallEnds(d) ==
  /\ run[d].pc = "call"
  /\ \E kind \in Kinds :
       /\ kind = "cancelled" => run[d].cancelled \/ Churn
       /\ run[d].telling => kind \in {"timeout", "cancelled"}
       /\ run' = [run EXCEPT ![d].pc = "end", ![d].kind = kind, ![d].telling = FALSE]
  /\ UNCHANGED <<tables, current, starting, calls, cancelling, sweep, blind, crashes, cancels>>

\* attempt-finished is recorded.  After a failed attempt-started this is the
\* clean-up of the attempt, and the exception goes on.
AttemptFinished(d) ==
  LET r == run[d]
  IN  /\ r.pc = "end"
      /\ steps' = IF r.attempt \in DOMAIN steps[r.node]
                  THEN [steps EXCEPT ![r.node][r.attempt] = AttemptState(r.kind)] ELSE steps
      /\ \E gone \in BOOLEAN :
           /\ gone => Churn
           /\ run' = [run EXCEPT ![d] = IF r.kind = "unknown" THEN Abort(r) ELSE AfterAttempt(r, gone)]
      /\ UNCHANGED <<row, finished, current, starting, calls, cancelling, sweep, blind,
                     crashes, cancels>>

\* The backoff is over.
Retry(d) ==
  /\ run[d].pc = "sleep"
  /\ LET r == run[d]
     IN  run' = [run EXCEPT ![d] = NextAttempt([r EXCEPT !.try = r.try + 1])]
  /\ UNCHANGED <<tables, current, starting, calls, cancelling, sweep, blind, crashes, cancels>>

\* Mutant of NodeFinished: a required node stopped by a drain is no failure.
NodeFinishedDrained(d) ==
  LET r == run[d]
      fails == r.node \in Required /\ r.nodes[r.node] = "failed"
  IN  /\ r.pc = "finish"
      /\ finished' = [finished EXCEPT ![r.node] = r.nodes[r.node]]
      /\ run' = [run EXCEPT ![d] = IF r.lost THEN Conclude(r)
                                   ELSE Visit([r EXCEPT !.failed = @ \/ fails], r.node + 1)]
      /\ UNCHANGED <<row, steps, current, starting, calls, cancelling, sweep, blind,
                     crashes, cancels>>

\* node-finished is recorded for a node the driver has tried to run.
NodeFinished(d) ==
  LET r == run[d]
      fails == r.node \in Required
                 /\ (r.nodes[r.node] = "failed" \/ (r.nodes[r.node] = "cancelled" /\ ~r.cancelled))
  IN  /\ r.pc = "finish"
      /\ finished' = [finished EXCEPT ![r.node] = r.nodes[r.node]]
      /\ run' = [run EXCEPT ![d] = IF r.lost THEN Conclude(r)
                                   ELSE Visit([r EXCEPT !.failed = @ \/ fails], r.node + 1)]
      /\ UNCHANGED <<row, steps, current, starting, calls, cancelling, sweep, blind,
                     crashes, cancels>>

\* ... or has passed over.
NodePassed(d) ==
  LET r == run[d]
  IN  /\ r.pc = "pass"
      /\ finished' = [finished EXCEPT ![r.node] = r.nodes[r.node]]
      /\ run' = [run EXCEPT ![d] = Visit(r, r.node + 1)]
      /\ UNCHANGED <<row, steps, current, starting, calls, cancelling, sweep, blind,
                     crashes, cancels>>

RunFinished(d) ==
  /\ run[d].pc = "close"
  /\ row' = run[d].state
  /\ run' = [run EXCEPT ![d] = Over(@)]
  /\ UNCHANGED <<steps, finished, current, starting, calls, cancelling, sweep, blind,
                 crashes, cancels>>

\* A transaction of the driver fails.  run-finished is best effort, and a
\* failing run-interrupted is the handler's to deal with; the others end the
\* run, attempt-started after an attempt-finished.
StoreFails(d) ==
  LET r == run[d]
  IN  /\ StoreFaults
      /\ \/ r.pc \in {"slot", "begin", "end", "finish", "pass", "close"}
         \/ r.pc = "call" /\ r.telling
      /\ run' = [run EXCEPT ![d] =
                   CASE r.telling -> [r EXCEPT !.telling = FALSE]
                     [] r.pc = "close" -> Over(r)
                     [] r.pc = "begin" -> [r EXCEPT !.pc = "end", !.kind = "unknown"]
                     [] OTHER -> Abort(r)]
      /\ UNCHANGED <<tables, current, starting, calls, cancelling, sweep, blind, crashes, cancels>>

-----------------------------------------------------------------------------
(* Remote jobs: _interrupt_for_remote, called inside a handler *)

MarkInterrupted ==
  /\ row' = "interrupted"
  /\ steps' = [i \in Nodes |-> [a \in DOMAIN steps[i] |->
                 IF steps[i][a] = "running" THEN "unknown" ELSE steps[i][a]]]

\* The outcome of a job is unknown: the object that _runs holds is marked.
RemoteLost(d) ==
  /\ run[d].pc = "call" /\ ~run[d].telling
  /\ run[d].node \in Remote
  /\ current \in Active
  /\ run' = [run EXCEPT ![current].lost = TRUE, ![current].unknown = @ \cup {run[d].node},
                         ![d].telling = TRUE]
  /\ UNCHANGED <<tables, current, starting, calls, cancelling, sweep, blind, crashes, cancels>>

\* ... and run-interrupted recorded while the driver goes on.
LossRecorded(d) ==
  /\ run[d].pc = "call" /\ run[d].telling
  /\ MarkInterrupted
  /\ run' = [run EXCEPT ![d].telling = FALSE]
  /\ UNCHANGED <<finished, current, starting, calls, cancelling, sweep, blind, crashes, cancels>>

-----------------------------------------------------------------------------
(* Service calls *)

Swept == "sweep" \in Careful => sweep = "done"

\* start(): run-created is recorded, then the task is created.
Start ==
  /\ row = "none"
  /\ Swept
  /\ row' = "pending"
  /\ starting' = TRUE
  /\ UNCHANGED <<steps, finished, run, current, calls, cancelling, sweep, blind, crashes, cancels>>

Started ==
  /\ starting
  /\ starting' = FALSE
  /\ Launch(NewRun([i \in Nodes |-> "pending"], [i \in Nodes |-> 0]))
  /\ UNCHANGED <<tables, calls, cancelling, sweep, blind, crashes, cancels>>

\* cancel(): accepted by the state in memory, then recorded, then signalled to
\* the object it was accepted for.
Cancel ==
  /\ cancels < CancelBound
  /\ cancelling = 0
  /\ current # 0 /\ run[current].state \in {"pending", "running"}
  /\ cancelling' = current
  /\ cancels' = cancels + 1
  /\ UNCHANGED <<tables, run, current, starting, calls, sweep, blind, crashes>>

\* An object whose task has ended meanwhile is not looked at again.
Cancelled ==
  /\ cancelling # 0
  /\ run' = IF cancelling \in Active THEN [run EXCEPT ![cancelling].cancelled = TRUE] ELSE run
  /\ cancelling' = 0
  /\ UNCHANGED <<tables, current, starting, calls, sweep, blind, crashes, cancels>>

\* _rebuild_run: the node states and the nodes that were cut off in flight.
CutOff == {i \in Nodes : finished[i] = "none" /\ steps[i] # << >>}
\* Mutant of Rebuilt: a node without an end keeps what the events say, nothing.
RebuiltRaw(i) == IF i \in CutOff THEN "unknown" ELSE finished[i]

Rebuilt(i) ==
  CASE i \in CutOff -> "unknown"
    [] finished[i] = "none" /\ i \notin CutOff -> "pending"
    [] OTHER -> finished[i]
Unknown == {i \in Nodes : Rebuilt(i) = "unknown"}

\* Mutant of Resumed: the ends of the nodes are not taken over.
ResumedAfresh(again) == NewRun([i \in Nodes |-> "pending"], [i \in Nodes |-> Len(steps[i])])

Resumed(again) == NewRun([i \in Nodes |-> IF i \in again THEN "pending" ELSE Rebuilt(i)],
                         [i \in Nodes |-> Len(steps[i])])

\* Mutant of Resume: the state of the run is not checked.
ResumeUnchecked(c, mode) ==
  /\ calls[c] = "unused"
  /\ row # "none"
  /\ Swept
  /\ "single" \in Careful => \A e \in DOMAIN calls : calls[e] \in {"unused", "done"}
  /\ "idle" \in Careful => Active = {}
  /\ calls' = [calls EXCEPT ![c] = mode]
  /\ blind' = {}
  /\ UNCHANGED <<tables, run, current, starting, cancelling, sweep, crashes, cancels>>

\* resume(): the check of the state, before the first of its awaits.
Resume(c, mode) ==
  /\ calls[c] = "unused"
  /\ row = "interrupted"
  /\ Swept
  /\ "single" \in Careful => \A e \in DOMAIN calls : calls[e] \in {"unused", "done"}
  /\ "idle" \in Careful => Active = {}
  /\ calls' = [calls EXCEPT ![c] = mode]
  /\ blind' = {}
  /\ UNCHANGED <<tables, run, current, starting, cancelling, sweep, crashes, cancels>>

\* retry, or skip after its records: a new task.
ResumeRun(c) ==
  /\ calls[c] \in {"retry", "skipped"}
  /\ calls' = [calls EXCEPT ![c] = "done"]
  /\ Launch(Resumed(Unknown))
  /\ UNCHANGED <<tables, starting, cancelling, sweep, blind, crashes, cancels>>

ResumeSkip(c) ==
  /\ calls[c] = "skip"
  /\ calls' = [calls EXCEPT ![c] = "skipped"]
  /\ finished' = [i \in Nodes |-> IF i \in Unknown THEN "skipped" ELSE finished[i]]
  /\ UNCHANGED <<row, steps, run, current, starting, cancelling, sweep, blind, crashes, cancels>>

ResumeAbort(c) ==
  /\ calls[c] = "abort"
  /\ calls' = [calls EXCEPT ![c] = "done"]
  /\ row' = "failed"
  /\ UNCHANGED <<steps, finished, run, current, starting, cancelling, sweep, blind, crashes, cancels>>

\* A transaction of the call fails: an error for the caller.
ResumeFails(c) ==
  /\ StoreFaults
  /\ calls[c] \in {"retry", "skip", "abort"}
  /\ calls' = [calls EXCEPT ![c] = "done"]
  /\ UNCHANGED <<tables, run, current, starting, cancelling, sweep, blind, crashes, cancels>>

-----------------------------------------------------------------------------
(* Restarts *)

\* What the process knew is gone; nodes whose attempt was cut off stay in doubt.
LoseMemory ==
  /\ crashes < CrashBound
  /\ crashes' = crashes + 1
  /\ run' = [d \in 1 .. Drivers |-> NoRun]
  /\ current' = 0
  /\ starting' = FALSE
  /\ calls' = [c \in DOMAIN calls |-> IF calls[c] = "unused" THEN "unused" ELSE "done"]
  /\ cancelling' = 0
  /\ sweep' = "waiting"
  /\ blind' = blind \cup {run[d].node : d \in {e \in Active : run[e].pc = "call" \/ (run[e].pc = "end" /\ run[e].kind # "unknown")}}
  /\ UNCHANGED <<row, finished, cancels>>

Crash == LoseMemory /\ UNCHANGED steps

\* The cleanup returned by init(): the tasks are cancelled, and an attempt that
\* is in its handler is recorded as unknown.
Cleanup ==
  /\ LoseMemory
  /\ LET called == {d \in Active : run[d].pc = "call"}
     IN  /\ called # {}
         /\ steps' = [i \in Nodes |-> [a \in DOMAIN steps[i] |->
                        IF \E d \in called : run[d].node = i /\ run[d].attempt = a
                        THEN "unknown" ELSE steps[i][a]]]

\* _recover, once after resume_delay: nothing to do,
SweepNothing ==
  /\ sweep = "waiting"
  /\ row \notin {"pending", "running"}
  /\ sweep' = "done"
  /\ UNCHANGED <<tables, run, current, starting, calls, cancelling, blind, crashes, cancels>>

\* Mutants of SweepResume: the sweep is repeated,
SweepResumeAgain ==
  /\ sweep = "waiting"
  /\ row \in {"pending", "running"}
  /\ CutOff \subseteq Idempotent
  /\ Launch(Resumed(CutOff))
  /\ UNCHANGED <<tables, starting, calls, cancelling, sweep, blind, crashes, cancels>>

\* ... repeats every step that was cut off,
SweepResumeAll ==
  /\ sweep = "waiting"
  /\ row \in {"pending", "running"}
  /\ sweep' = "done"
  /\ Launch(Resumed(CutOff))
  /\ UNCHANGED <<tables, starting, calls, cancelling, blind, crashes, cancels>>

\* ... does not look at runs that had not begun.
SweepResumeBegun ==
  /\ sweep = "waiting"
  /\ row = "running"
  /\ CutOff \subseteq Idempotent
  /\ sweep' = "done"
  /\ Launch(Resumed(CutOff))
  /\ UNCHANGED <<tables, starting, calls, cancelling, blind, crashes, cancels>>

\* ... a run whose cut-off steps may all be repeated goes on,
SweepResume ==
  /\ sweep = "waiting"
  /\ row \in {"pending", "running"}
  /\ CutOff \subseteq Idempotent
  /\ sweep' = "done"
  /\ Launch(Resumed(CutOff))
  /\ UNCHANGED <<tables, starting, calls, cancelling, blind, crashes, cancels>>

\* ... any other is interrupted and waits for a resume call.
SweepDoubt ==
  /\ sweep = "waiting"
  /\ row \in {"pending", "running"}
  /\ ~(CutOff \subseteq Idempotent)
  /\ sweep' = "marking"
  /\ UNCHANGED <<tables, run, current, starting, calls, cancelling, blind, crashes, cancels>>

SweepMark ==
  /\ sweep = "marking"
  /\ sweep' = "done"
  /\ MarkInterrupted
  /\ UNCHANGED <<finished, run, current, starting, calls, cancelling, blind, crashes, cancels>>

SweepFails ==
  /\ StoreFaults
  /\ sweep \in {"waiting", "marking"}
  /\ sweep' = "done"
  /\ UNCHANGED <<tables, run, current, starting, calls, cancelling, blind, crashes, cancels>>

-----------------------------------------------------------------------------
Drive(d) ==
  \/ RunStarted(d) \/ Resolved(d) \/ Unresolved(d) \/ AttemptStarted(d) \/ CallEnds(d)
  \/ AttemptFinished(d) \/ Retry(d) \/ NodeFinished(d) \/ NodePassed(d) \/ RunFinished(d)
  \/ StoreFails(d)

Recover == SweepNothing \/ SweepResume \/ SweepDoubt \/ SweepMark \/ SweepFails

ResumeStep(c) == ResumeRun(c) \/ ResumeSkip(c) \/ ResumeAbort(c) \/ ResumeFails(c)

Next ==
  \/ \E d \in 1 .. Drivers : Drive(d) \/ RemoteLost(d) \/ LossRecorded(d)
  \/ Start \/ Started \/ Cancel \/ Cancelled
  \/ \E c \in DOMAIN calls : ResumeStep(c) \/ \E mode \in {"retry", "skip", "abort"} : Resume(c, mode)
  \/ Crash \/ Cleanup
  \/ Recover

Spec == Init /\ [][Next]_vars

\* The event loop keeps running its tasks; a handler returns or reaches its
\* timeout, and the recovery task runs after its delay.
FairSpec ==
  /\ Spec
  /\ \A d \in 1 .. Drivers : WF_vars(Drive(d))
  /\ WF_vars(Started) /\ WF_vars(Cancelled) /\ WF_vars(Recover)
  /\ \A c \in 1 .. ResumeBound : WF_vars(ResumeStep(c))

-----------------------------------------------------------------------------
(* Properties *)

\* Every variable has its type.
TypeOK ==
  /\ row \in RunStates \cup {"none"}
  /\ steps \in [Nodes -> Seq(StepStates)]
  /\ finished \in [Nodes -> (NodeStates \ {"pending"}) \cup {"none"}]
  /\ run \in [1 .. Drivers -> RunObject]
  /\ current \in 0 .. Drivers
  /\ starting \in BOOLEAN
  /\ calls \in [1 .. ResumeBound -> {"unused", "retry", "skip", "skipped", "abort", "done"}]
  /\ cancelling \in 0 .. Drivers
  /\ sweep \in {"waiting", "marking", "done"}
  /\ blind \subseteq Nodes
  /\ crashes \in 0 .. CrashBound
  /\ cancels \in 0 .. CancelBound

\* A run is serial: at most one task drives it, whoever started it (start,
\* resume, _recover).
OneDriver == \A d, e \in Active : d = e

\* A run ends once: no retry, recovery, resume or late driver changes a final
\* state in the table (record_run_started, record_run_finished).
EndsOnce == [][(row \in Final) => row' = row]_vars

\* A run that ends as succeeded has every required node succeeded or skipped by
\* its step or by the overrides (_advance).
SucceededMeansDone ==
  row = "succeeded" => \A i \in Required : finished[i] \in {"succeeded", "skipped"}

\* The step of a node that is not idempotent, cut off by a crash, is not
\* repeated until somebody has asked for it with a resume call (_recover).
HumanDecides == [][(\A i \in blind \ Idempotent : Len(steps'[i]) = Len(steps[i]))]_vars

\* "Write, then act": while a handler runs its attempt is on record, as the
\* latest of its node and not as ended (_attempt).
WroteFirst ==
  \A d \in Active : run[d].pc = "call" =>
    LET s == steps[run[d].node]
    IN  run[d].attempt = Len(s) /\ Len(s) > 0 /\ s[Len(s)] \in {"running", "unknown"}

\* Without failing transactions a run that was started comes to an end, or to
\* where it needs a resume call, whatever crashes (execute, _recover).
RunEnds == row \in {"pending", "running"} ~> row \notin {"pending", "running"}

\* While a run is recorded as interrupted, a node of which a remote job is lost
\* is not attempted again: that waits for a resume call (_interrupt_for_remote).
\* The code does not keep this: the retries of the node go on (_run_provider).
UnknownWaits ==
  [][row = "interrupted" =>
       \A d \in Active : \A i \in run[d].unknown : Len(steps'[i]) = Len(steps[i])]_vars

\* What FlowLife says of a run: it ends once and completely, and a node with a
\* known end is never attempted again.
Life == INSTANCE FlowLife WITH state <- row, tries <- [i \in Nodes |-> Len(steps[i])],
                               done <- finished
KeepsLife == Life!Spec

=============================================================================
