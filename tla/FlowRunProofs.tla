---------------------------- MODULE FlowRunProofs ----------------------------
(***************************************************************************)
(* Proofs about FlowRun, each for every flow, every option of its nodes    *)
(* and every number of crashes, cancels and resume calls.  They stand on   *)
(* each other:                                                             *)
(*                                                                         *)
(*  - TypeInv: the types of the variables, and what the place of a driver  *)
(*    says of its locals.  It needs no assumption.                         *)
(*  - Serial, where callers take care (the recovery sweep is over before   *)
(*    they start or resume, one resume call at a time, none while the task *)
(*    of the run goes on): the ways into a driver exclude each other, so   *)
(*    there is at most one, and once the row is final there is none.       *)
(*  - Written, of a serial run: what its driver knows of attempts and ends *)
(*    agrees with the tables, and a step that a crash cut off is known to  *)
(*    every driver that follows as one it must not repeat.                 *)
(*  - Complete, where besides the run does not lose a cancel (Calm): every *)
(*    node behind the driver has its end on record, and what a final state *)
(*    says of the nodes is true.                                           *)
(*                                                                         *)
(* The proofs of the last two look at one record at a time: a step of      *)
(* driver d makes of its object r an object v (Becomes), and a lemma per   *)
(* action says how v differs from r.                                       *)
(***************************************************************************)
EXTENDS FlowRun, TLAPS, WellFoundedInduction, SequenceTheorems

\* The assumption on the callers; two_drivers shows what happens without it.
Care == {"sweep", "single", "idle"} \subseteq Careful

\* Resume calls that have passed the check of the state and are not over.
Resuming == {c \in 1 .. ResumeBound : calls[c] \notin {"unused", "done"}}

Domains == /\ DOMAIN run = 1 .. Drivers
           /\ DOMAIN calls = 1 .. ResumeBound

\* A start on its way has recorded its row and nothing else is going on.
StartAlone ==
  starting => /\ Active = {} /\ Resuming = {}
              /\ row = "pending"
              /\ sweep = "done"

\* A resume call on its way is the only one, for a run that nothing drives.
ResumeAlone ==
  /\ \A c, e \in Resuming : c = e
  /\ Resuming # {} => Active = {} /\ row = "interrupted" /\ sweep = "done"

\* The sweep runs before anything else in the life of the process.
SweepAlone ==
  /\ sweep # "done" => Active = {}
  /\ sweep = "marking" => row \in {"pending", "running"}

\* A row that is not there or final has no driver.
RowIdle == row \in Final \cup {"none"} => Active = {}

Serial ==
  /\ Domains
  /\ OneDriver
  /\ StartAlone
  /\ ResumeAlone
  /\ SweepAlone
  /\ RowIdle

-----------------------------------------------------------------------------
(* The steps of a driver *)

\* A step of driver d: d is alive before it, and no other driver comes to life
\* (every await of execute() and of a handler).
LEMMA DriverStep ==
  ASSUME Domains, NEW d \in 1 .. Drivers, Drive(d) \/ RemoteLost(d) \/ LossRecorded(d)
  PROVE  /\ d \in Active
         /\ Active' \subseteq Active
         /\ DOMAIN run' = 1 .. Drivers
         /\ UNCHANGED <<calls, starting, sweep>>
<1>1. CASE RunStarted(d)
  BY <1>1 DEF RunStarted, Active, Domains
<1>2. CASE Resolved(d)
  BY <1>2 DEF Resolved, Active, Domains
<1>3. CASE Unresolved(d)
  BY <1>3 DEF Unresolved, Active, Domains
<1>4. CASE AttemptStarted(d)
  BY <1>4 DEF AttemptStarted, Active, Domains
<1>5. CASE CallEnds(d)
  BY <1>5 DEF CallEnds, Active, Domains
<1>6. CASE AttemptFinished(d)
  BY <1>6 DEF AttemptFinished, Active, Domains
<1>7. CASE Retry(d)
  BY <1>7 DEF Retry, Active, Domains
<1>8. CASE NodeFinished(d)
  BY <1>8 DEF NodeFinished, Active, Domains
<1>9. CASE NodePassed(d)
  BY <1>9 DEF NodePassed, Active, Domains
<1>10. CASE RunFinished(d)
  BY <1>10 DEF RunFinished, Active, Domains
<1>11. CASE StoreFails(d)
  BY <1>11 DEF StoreFails, Active, Domains
<1>12. CASE RemoteLost(d)
  BY <1>12 DEF RemoteLost, Active, Domains
<1>13. CASE LossRecorded(d)
  BY <1>13 DEF LossRecorded, Active, Domains
<1> QED
  BY <1>1, <1>2, <1>3, <1>4, <1>5, <1>6, <1>7, <1>8, <1>9, <1>10, <1>11, <1>12, <1>13 DEF Drive

\* A driver that has recorded the end of its run is none any more.
LEMMA ClosedDriver ==
  ASSUME Domains, NEW d \in 1 .. Drivers, RunFinished(d)
  PROVE  d \notin Active'
<1>1. run'[d] = Over(run[d])
  BY DEF RunFinished, Domains
<1> QED
  BY <1>1 DEF Over, NoRun, NewRun, Active

\* The row after a step of a driver: it is not the row of an idle run, unless
\* the driver has recorded the end.
LEMMA DriverRow ==
  ASSUME NEW d \in 1 .. Drivers, Drive(d) \/ RemoteLost(d) \/ LossRecorded(d)
  PROVE  row' \in {row, "running", "interrupted"} \/ RunFinished(d)
BY DEF Drive, RunStarted, Resolved, Unresolved, AttemptStarted, CallEnds, AttemptFinished,
       Retry, NodeFinished, NodePassed, StoreFails, RemoteLost, LossRecorded, MarkInterrupted, tables

\* Where nothing drives the run, a new task is the only one.
LEMMA LaunchAlone ==
  ASSUME Domains, Active = {}, NEW r, Launch(r)
  PROVE  OneDriver' /\ DOMAIN run' = 1 .. Drivers
BY DEF Domains, Active, Launch, OneDriver

-----------------------------------------------------------------------------
(* Serial is inductive *)

LEMMA InitSerial == Init => Serial
BY DEF Init, Serial, Domains, Active, Resuming, OneDriver, StartAlone, ResumeAlone, SweepAlone,
       RowIdle, NoRun, NewRun

LEMMA DriverSerial ==
  ASSUME Serial, NEW d \in 1 .. Drivers, Drive(d) \/ RemoteLost(d) \/ LossRecorded(d)
  PROVE  Serial'
<1>1. /\ d \in Active
      /\ Active' \subseteq Active
      /\ DOMAIN run' = 1 .. Drivers
      /\ UNCHANGED <<calls, starting, sweep>>
  BY DriverStep DEF Serial
<1>2. ~starting /\ Resuming = {} /\ Resuming' = {} /\ sweep = "done" /\ row \notin Final \cup {"none"}
  BY <1>1 DEF Serial, StartAlone, ResumeAlone, SweepAlone, RowIdle, Resuming
<1>3. OneDriver'
  BY <1>1 DEF Serial, OneDriver
<1>4. RowIdle'
  <2>1. CASE RunFinished(d)
    BY <1>1, <2>1, ClosedDriver DEF Serial, OneDriver, RowIdle
  <2>2. CASE ~RunFinished(d)
    BY <1>2, <2>2, DriverRow DEF RowIdle, Final
  <2> QED
    BY <2>1, <2>2
<1> QED
  BY <1>1, <1>2, <1>3, <1>4 DEF Serial, Domains, StartAlone, ResumeAlone, SweepAlone

LEMMA CallSerial ==
  ASSUME Care, Serial, Start \/ Started \/ Cancel \/ Cancelled
  PROVE  Serial'
<1> USE DEF Serial
<1>1. CASE Start
  <2>1. UNCHANGED <<run, calls, sweep>> /\ row' = "pending" /\ row = "none" /\ sweep = "done"
    BY <1>1 DEF Start, Swept, Care
  <2>2. Active' = Active /\ Active = {} /\ Resuming' = Resuming /\ Resuming = {}
    BY <2>1 DEF Active, Resuming, RowIdle, ResumeAlone
  <2> QED
    BY <2>1, <2>2 DEF Domains, OneDriver, StartAlone, ResumeAlone, SweepAlone, RowIdle, Final
<1>2. CASE Started
  <2>1. /\ Active = {} /\ Resuming = {} /\ row = "pending" /\ sweep = "done" /\ ~starting'
        /\ UNCHANGED <<row, calls, sweep>>
    BY <1>2 DEF Started, StartAlone, tables
  <2>2. OneDriver' /\ DOMAIN run' = 1 .. Drivers
    BY <1>2, <2>1, LaunchAlone DEF Started
  <2>3. Resuming' = {}
    BY <2>1 DEF Resuming
  <2> QED
    BY <2>1, <2>2, <2>3 DEF Domains, StartAlone, ResumeAlone, SweepAlone, RowIdle, Final
<1>3. CASE Cancel \/ Cancelled
  <2>1. Active' \subseteq Active /\ DOMAIN run' = 1 .. Drivers /\ UNCHANGED <<row, calls, sweep, starting>>
    BY <1>3 DEF Cancel, Cancelled, Active, Domains, tables
  <2>2. Resuming' = Resuming
    BY <2>1 DEF Resuming
  <2> QED
    BY <2>1, <2>2 DEF Domains, OneDriver, StartAlone, ResumeAlone, SweepAlone, RowIdle
<1> QED
  BY <1>1, <1>2, <1>3

LEMMA ResumeSerial ==
  ASSUME Care, Serial, NEW c \in 1 .. ResumeBound, NEW mode \in {"retry", "skip", "abort"},
         ResumeStep(c) \/ Resume(c, mode)
  PROVE  Serial'
<1> USE DEF Serial
<1>1. CASE Resume(c, mode)
  <2>1. /\ Active = {} /\ row = "interrupted" /\ sweep = "done" /\ Resuming = {} /\ ~starting
        /\ calls' = [calls EXCEPT ![c] = mode]
        /\ UNCHANGED <<row, run, sweep, starting>>
    BY <1>1 DEF Resume, Swept, Care, Resuming, Domains, StartAlone, tables
  <2>2. Resuming' = {c} /\ Active' = {}
    BY <2>1 DEF Resuming, Active, Domains
  <2> QED
    BY <2>1, <2>2 DEF Domains, OneDriver, StartAlone, ResumeAlone, SweepAlone, RowIdle, Final
<1>2. CASE ResumeStep(c)
  <2>1. c \in Resuming
    BY <1>2 DEF ResumeStep, ResumeRun, ResumeSkip, ResumeAbort, ResumeFails, Resuming
  <2>2. Active = {} /\ row = "interrupted" /\ sweep = "done" /\ ~starting /\ Resuming = {c}
    BY <2>1 DEF ResumeAlone, StartAlone
  <2>3. CASE ResumeRun(c)
    <3>1. OneDriver' /\ DOMAIN run' = 1 .. Drivers
      BY <2>2, <2>3, LaunchAlone DEF ResumeRun
    <3>2. calls' = [calls EXCEPT ![c] = "done"] /\ UNCHANGED <<row, starting, sweep>>
      BY <2>3 DEF ResumeRun, tables
    <3>3. Resuming' = {}
      BY <2>2, <3>2 DEF Resuming, Domains
    <3> QED
      BY <2>2, <3>1, <3>2, <3>3 DEF Domains, StartAlone, ResumeAlone, SweepAlone, RowIdle, Final
  <2>4. CASE ResumeSkip(c)
    <3>1. calls' = [calls EXCEPT ![c] = "skipped"] /\ UNCHANGED <<row, run, starting, sweep>>
      BY <2>4 DEF ResumeSkip
    <3>2. Resuming' = {c} /\ Active' = {}
      BY <2>2, <3>1 DEF Resuming, Active, Domains
    <3> QED
      BY <2>2, <3>1, <3>2 DEF Domains, OneDriver, StartAlone, ResumeAlone, SweepAlone, RowIdle, Final
  <2>5. CASE ResumeAbort(c) \/ ResumeFails(c)
    <3>1. calls' = [calls EXCEPT ![c] = "done"] /\ UNCHANGED <<run, starting, sweep>>
      BY <2>5 DEF ResumeAbort, ResumeFails, tables
    <3>2. Resuming' = {} /\ Active' = {}
      BY <2>2, <3>1 DEF Resuming, Active, Domains
    <3> QED
      BY <2>2, <3>1, <3>2 DEF Domains, OneDriver, StartAlone, ResumeAlone, SweepAlone, RowIdle
  <2> QED
    BY <1>2, <2>3, <2>4, <2>5 DEF ResumeStep
<1> QED
  BY <1>1, <1>2

LEMMA RestartSerial ==
  ASSUME Serial, Crash \/ Cleanup
  PROVE  Serial'
<1>1. LoseMemory
  BY DEF Crash, Cleanup
<1>2. Active' = {}
  BY <1>1 DEF LoseMemory, Active, NoRun, NewRun
<1>3. Resuming' = {}
  BY <1>1 DEF LoseMemory, Resuming, Serial, Domains
<1>4. Domains' /\ ~starting' /\ sweep' = "waiting"
  BY <1>1 DEF LoseMemory, Serial, Domains
<1> QED
  BY <1>2, <1>3, <1>4 DEF Serial, OneDriver, StartAlone, ResumeAlone, SweepAlone, RowIdle

LEMMA SweepSerial ==
  ASSUME Serial, Recover
  PROVE  Serial'
<1> USE DEF Serial
<1>1. /\ sweep # "done" /\ Active = {} /\ Resuming = {} /\ ~starting
      /\ UNCHANGED <<calls, starting>>
  BY DEF Recover, SweepNothing, SweepResume, SweepDoubt, SweepMark, SweepFails, StartAlone,
         ResumeAlone, SweepAlone, tables
<1>2. Resuming' = {}
  BY <1>1 DEF Resuming
<1>3. CASE SweepResume
  <2>1. OneDriver' /\ DOMAIN run' = 1 .. Drivers
    BY <1>1, <1>3, LaunchAlone DEF SweepResume
  <2>2. row \in {"pending", "running"} /\ row' = row /\ sweep' = "done"
    BY <1>3 DEF SweepResume, tables
  <2> QED
    BY <1>1, <1>2, <2>1, <2>2 DEF Domains, StartAlone, ResumeAlone, SweepAlone, RowIdle, Final
<1>4. CASE SweepNothing \/ SweepDoubt \/ SweepMark \/ SweepFails
  <2>1. UNCHANGED run /\ sweep' \in {"done", "marking"} /\ (sweep' = "marking" => row' \in {"pending", "running"})
    BY <1>4 DEF SweepNothing, SweepDoubt, SweepMark, SweepFails, tables
  <2>2. Active' = {}
    BY <1>1, <2>1 DEF Active
  <2> QED
    BY <1>1, <1>2, <2>1, <2>2 DEF Domains, OneDriver, StartAlone, ResumeAlone, SweepAlone, RowIdle
<1> QED
  BY <1>3, <1>4 DEF Recover

LEMMA StepSerial == Care /\ Serial /\ [Next]_vars => Serial'
<1> SUFFICES ASSUME Care, Serial, [Next]_vars
             PROVE  Serial'
  OBVIOUS
<1>1. ASSUME NEW d \in 1 .. Drivers, Drive(d) \/ RemoteLost(d) \/ LossRecorded(d)
      PROVE  Serial'
  BY <1>1, DriverSerial
<1>2. CASE Start \/ Started \/ Cancel \/ Cancelled
  BY <1>2, CallSerial
<1>3. ASSUME NEW c \in DOMAIN calls, NEW mode \in {"retry", "skip", "abort"},
             ResumeStep(c) \/ Resume(c, mode)
      PROVE  Serial'
  BY <1>3, ResumeSerial DEF Serial, Domains
<1>4. CASE Crash \/ Cleanup
  BY <1>4, RestartSerial
<1>5. CASE Recover
  BY <1>5, SweepSerial
<1>6. CASE UNCHANGED vars
  BY <1>6 DEF vars, tables, Serial, Domains, Active, Resuming, OneDriver, StartAlone, ResumeAlone,
              SweepAlone, RowIdle
<1> QED
  BY <1>1, <1>2, <1>3, <1>4, <1>5, <1>6 DEF Next

-----------------------------------------------------------------------------
(* The theorems *)

\* Care is taken throughout, so the ways into a driver exclude each other for
\* ever (start, resume, _recover).
THEOREM SerialAlways == ASSUME Care PROVE Spec => []Serial
<1>1. Init => Serial
  BY InitSerial
<1>2. Serial /\ [Next]_vars => Serial'
  BY StepSerial
<1> QED
  BY <1>1, <1>2, PTL DEF Spec

\* EndsOnce: careful callers never see a final state of the row overwritten, although no
\* UPDATE of the store looks at the state it replaces (record_run_started,
\* record_run_interrupted, record_run_finished).
THEOREM FinalStateStays == ASSUME Care PROVE Spec => EndsOnce
<1>1. ASSUME Serial, Next, row \in Final
      PROVE  row' = row
  <2>1. Active = {} /\ Resuming = {} /\ sweep # "marking" /\ row # "none"
    BY <1>1 DEF Serial, RowIdle, ResumeAlone, SweepAlone, Final
  <2>2. ASSUME NEW d \in 1 .. Drivers, Drive(d) \/ RemoteLost(d) \/ LossRecorded(d)
        PROVE  FALSE
    BY <1>1, <2>1, <2>2, DriverStep DEF Serial
  <2>3. CASE Start \/ Started \/ Cancel \/ Cancelled
    BY <2>1, <2>3 DEF Start, Started, Cancel, Cancelled, tables
  <2>4. ASSUME NEW c \in DOMAIN calls, NEW mode \in {"retry", "skip", "abort"},
               ResumeStep(c) \/ Resume(c, mode)
        PROVE  row' = row
    <3>1. calls[c] \in {"unused", "done"}
      BY <1>1, <2>1 DEF Serial, Domains, Resuming
    <3> QED
      BY <2>4, <3>1 DEF ResumeStep, ResumeRun, ResumeSkip, ResumeAbort, ResumeFails, Resume, tables
  <2>5. CASE Crash \/ Cleanup
    BY <2>5 DEF Crash, Cleanup, LoseMemory
  <2>6. CASE Recover
    BY <2>1, <2>6 DEF Recover, SweepNothing, SweepResume, SweepDoubt, SweepMark, SweepFails, tables
  <2> QED
    BY <1>1, <2>2, <2>3, <2>4, <2>5, <2>6 DEF Next
<1>2. Serial /\ [Next]_vars => [(row \in Final) => row' = row]_vars
  BY <1>1
<1> QED
  BY <1>2, SerialAlways, PTL DEF Spec, EndsOnce

-----------------------------------------------------------------------------
(* The loop of a driver, one record at a time *)

\* The places of a node that is being tried, and those where a provider is picked.
Working == {"resolve", "begin", "call", "end", "sleep"}
Trying == Working \ {"resolve"}

\* What the place of a driver says of its locals.
PlaceOK(r) ==
  /\ r.pc \in Working \cup {"finish", "pass"} => r.node \in Nodes
  /\ r.pc \in Working => r.nodes[r.node] = "pending"
  /\ r.pc \in {"finish", "pass"} => r.nodes[r.node] # "pending"
  /\ r.pc \in Trying => r.left > 0 /\ r.attempt > 0
  /\ r.pc \in {"begin", "call"} => r.kind # "unknown"
  /\ r.pc # "call" => ~r.telling

\* What only start, cancel and the loss of a job change.
SameRun(r, v) ==
  /\ v.base = r.base
  /\ v.lost = r.lost /\ v.unknown = r.unknown
  /\ v.cancelled = r.cancelled /\ v.telling = r.telling

\* The loop has gone from node i to the next open one, or to its end.
Went(r, i, v) ==
  /\ SameRun(r, v)
  /\ v.node \in i .. N + 1
  /\ \A k \in i .. v.node - 1 : r.nodes[k] # "pending"
  /\ v.failed <=> (r.failed \/ \E k \in (i .. v.node - 1) \cap Required : r.nodes[k] = "failed")
  /\ \/ /\ v.pc = "close" /\ v.node = N + 1 /\ v.nodes = r.nodes
        /\ v.state = IF r.lost THEN "interrupted"
                     ELSE IF v.failed THEN "failed"
                     ELSE IF r.cancelled THEN "cancelled" ELSE "succeeded"
     \/ /\ v.pc = "resolve" /\ v.node \in Nodes /\ v.nodes = r.nodes
        /\ r.nodes[v.node] = "pending"
        /\ v.node \notin Always => ~v.failed /\ ~r.cancelled
     \/ /\ v.pc = "pass" /\ v.node \in Nodes
        /\ r.nodes[v.node] = "pending"
        /\ \E s \in {"skipped", "cancelled"} :
             /\ v.nodes = [r.nodes EXCEPT ![v.node] = s]
             /\ s = "cancelled" => r.cancelled

\* An attempt is over: the node is done, waits for a retry or tries the next provider.
Tried(r, v) ==
  /\ SameRun(r, v)
  /\ v.node = r.node /\ v.failed = r.failed
  /\ \/ /\ v.pc = "finish"
        /\ \E s \in NodeStates \ {"pending"} :
             /\ v.nodes = [r.nodes EXCEPT ![r.node] = s]
             /\ s = "unknown" <=> r.node \in r.unknown
             /\ s = "cancelled" => "cancelled" \in r.seen \cup {r.kind}
        /\ v.seen = {} /\ v.kind = "ok"
     \/ /\ v.pc \in {"sleep", "begin"} /\ v.nodes = r.nodes
        /\ v.attempt = IF v.pc = "sleep" THEN r.attempt ELSE r.attempt + 1
        /\ "cancelled" \in v.seen \cup {v.kind} => "cancelled" \in r.seen \cup {r.kind}

\* A set of numbers that is not empty has a least element.
LEMMA LeastIn == ASSUME NEW T \in SUBSET Nat, T # {} PROVE Min(T) \in T /\ \A y \in T : Min(T) <= y
<1> DEFINE R == {ss \in Nat \X Nat : ss[1] < ss[2]}
<1>1. IsWellFoundedOn(R, Nat)
  BY NatLessThanWellFounded, Zenon DEF OpToRel
<1>2. \A a, b \in Nat : a < b => <<a, b>> \in R
  OBVIOUS
<1> HIDE DEF R
<1>3. PICK x \in T : \A y \in T : <<y, x>> \notin R
  BY <1>1, WFMin, Zenon
<1>4. \A y \in T : x <= y
  <2> SUFFICES ASSUME NEW y \in T PROVE x <= y
    OBVIOUS
  <2>1. ~(y < x)
    BY <1>2, <1>3
  <2> QED BY <2>1
<1> QED BY <1>4 DEF Min

\* Changes of a record that leave it one.
LEMMA Typed ==
  ASSUME NEW r \in RunObject
  PROVE  /\ \A p \in Places : [r EXCEPT !.pc = p] \in RunObject
         /\ \A p \in Places, s \in RunStates : [r EXCEPT !.pc = p, !.state = s] \in RunObject
         /\ \A p \in Places, s \in NodeStates : FinishNode(r, p, s) \in RunObject
         /\ NextAttempt(r) \in RunObject
         /\ \A t \in Nat : [r EXCEPT !.try = t] \in RunObject
         /\ \A k \in {"ok", "skipped", "failed", "cancelled"}, n \in Nat :
              [r EXCEPT !.seen = @ \cup {k}, !.left = n] \in RunObject
<1>1. "ok" \in Kinds /\ "begin" \in Places
  BY DEF Kinds, Places
<1>2. /\ r.seen \subseteq {"ok", "skipped", "failed", "cancelled"} /\ r.attempt + 1 \in Nat
      /\ r.nodes \in [Nodes -> NodeStates]
  BY DEF RunObject
<1>3. \A p \in Places : [r EXCEPT !.pc = p] \in RunObject
  BY DEF RunObject
<1>4. \A p \in Places, s \in RunStates : [r EXCEPT !.pc = p, !.state = s] \in RunObject
  BY DEF RunObject
<1>5. ASSUME NEW p \in Places, NEW s \in NodeStates PROVE FinishNode(r, p, s) \in RunObject
  <2>1. [r.nodes EXCEPT ![r.node] = s] \in [Nodes -> NodeStates]
    BY <1>2
  <2> QED BY <1>1, <2>1 DEF FinishNode, RunObject
<1>6. NextAttempt(r) \in RunObject
  BY <1>1, <1>2 DEF RunObject, NextAttempt
<1>7. \A t \in Nat : [r EXCEPT !.try = t] \in RunObject
  BY DEF RunObject
<1>8. ASSUME NEW k \in {"ok", "skipped", "failed", "cancelled"}, NEW n \in Nat
      PROVE  [r EXCEPT !.seen = @ \cup {k}, !.left = n] \in RunObject
  <2>1. r.seen \cup {k} \in SUBSET {"ok", "skipped", "failed", "cancelled"}
    BY <1>2
  <2> QED BY <2>1 DEF RunObject
<1> QED BY <1>3, <1>4, <1>5, <1>6, <1>7, <1>8

\* The loop stops at the first open node, or closes the run (_advance).
LEMMA VisitGoes ==
  ASSUME NEW r \in RunObject, NEW i \in 1 .. N + 1, ~r.telling
  PROVE  Went(r, i, Visit(r, i)) /\ Visit(r, i) \in RunObject /\ PlaceOK(Visit(r, i))
<1> USE FlowAssumption
<1> DEFINE open == {j \in i .. N : r.nodes[j] = "pending"}
           j == IF open = {} THEN N + 1 ELSE Min(open)
           at == [r EXCEPT !.node = j,
                           !.failed = @ \/ \E k \in (i .. j - 1) \cap Required : r.nodes[k] = "failed"]
           v == Visit(r, i)
<1>1. j \in i .. N + 1 /\ (\A k \in i .. j - 1 : r.nodes[k] # "pending")
      /\ (j # N + 1 => j \in Nodes /\ r.nodes[j] = "pending")
  <2>1. CASE open = {}
    BY <2>1 DEF Nodes
  <2>2. CASE open # {}
    <3>1. open \in SUBSET Nat
      OBVIOUS
    <3>2. Min(open) \in open /\ \A y \in open : Min(open) <= y
      BY <2>2, <3>1, LeastIn
    <3>3. j = Min(open) /\ j \in i .. N /\ r.nodes[j] = "pending"
      BY <2>2, <3>2
    <3>4. ASSUME NEW k \in i .. j - 1, r.nodes[k] = "pending"
          PROVE  FALSE
      BY <3>2, <3>3, <3>4
    <3> HIDE DEF open, j
    <3> QED BY <3>3, <3>4 DEF Nodes
  <2> QED BY <2>1, <2>2
<1> HIDE DEF j
<1>2. /\ at \in RunObject /\ SameRun(r, at) /\ at.node = j /\ at.nodes = r.nodes
      /\ at.failed <=> (r.failed \/ \E k \in (i .. j - 1) \cap Required : r.nodes[k] = "failed")
  <2> DEFINE more == \E k \in (i .. j - 1) \cap Required : r.nodes[k] = "failed"
  <2>1. at = [r EXCEPT !.node = j, !.failed = @ \/ more] /\ more \in BOOLEAN
    OBVIOUS
  <2>2. j \in 1 .. N + 1
    BY <1>1
  <2> HIDE DEF at, more
  <2>3. /\ at \in RunObject /\ SameRun(r, at) /\ at.node = j /\ at.nodes = r.nodes
        /\ at.failed = (r.failed \/ more)
    BY <2>1, <2>2 DEF RunObject, SameRun
  <2> QED BY <2>3 DEF more
<1> HIDE DEF at
<1>3. v = CASE j = N + 1 -> Conclude(at)
        [] j \in Disabled \/ (j \in Nodes \ Always /\ at.failed) -> FinishNode(at, "pass", "skipped")
        [] j \in Nodes \ (Disabled \cup Always) /\ ~at.failed /\ r.cancelled ->
             FinishNode(at, "pass", "cancelled")
        [] OTHER -> [at EXCEPT !.pc = "resolve"]
  BY DEF Visit, at, j
<1> HIDE DEF v
<1>4. ASSUME j = N + 1 PROVE Went(r, i, v) /\ v \in RunObject /\ PlaceOK(v)
  <2>1. v = Conclude(at)
    BY <1>3, <1>4, FlowAssumption DEF Nodes
  <2>2. /\ v.pc = "close" /\ v.node = N + 1 /\ v.nodes = r.nodes /\ v.failed = at.failed
        /\ v.state = IF r.lost THEN "interrupted"
                     ELSE IF v.failed THEN "failed"
                     ELSE IF r.cancelled THEN "cancelled" ELSE "succeeded"
        /\ SameRun(r, v)
    BY <1>2, <1>4, <2>1 DEF Conclude, RunObject, SameRun
  <2>3. v \in RunObject
    <3>1. PICK s \in RunStates : v = [at EXCEPT !.pc = "close", !.state = s]
      BY <2>1 DEF Conclude, RunStates, Final
    <3> QED BY <1>2, <3>1, Typed DEF Places
  <2> QED BY <1>1, <1>2, <1>4, <2>2, <2>3 DEF Went, PlaceOK, Working, Trying, SameRun
<1>5. ASSUME j # N + 1 PROVE Went(r, i, v) /\ v \in RunObject /\ PlaceOK(v)
  <2>1. \/ \E s \in {"skipped", "cancelled"} : v = FinishNode(at, "pass", s) /\ (s = "cancelled" => r.cancelled)
        \/ v = [at EXCEPT !.pc = "resolve"] /\ (j \notin Always => ~at.failed /\ ~r.cancelled)
    BY <1>1, <1>3, <1>5, FlowAssumption
  <2>2. CASE v = [at EXCEPT !.pc = "resolve"] /\ (j \notin Always => ~at.failed /\ ~r.cancelled)
    <3>1. v \in RunObject
      BY <1>2, <2>2, Typed DEF Places
    <3>2. /\ v.pc = "resolve" /\ v.node = j /\ v.nodes = r.nodes /\ v.failed = at.failed
          /\ SameRun(r, v)
      BY <1>2, <2>2 DEF RunObject, SameRun
    <3> QED BY <1>1, <1>2, <1>5, <2>2, <3>1, <3>2 DEF SameRun, Went, PlaceOK, Working, Trying
  <2>3. ASSUME NEW s \in {"skipped", "cancelled"}, v = FinishNode(at, "pass", s), s = "cancelled" => r.cancelled
        PROVE  Went(r, i, v) /\ v \in RunObject /\ PlaceOK(v)
    <3>1. /\ v.pc = "pass" /\ v.node = j /\ v.nodes = [r.nodes EXCEPT ![j] = s] /\ v.failed = at.failed
          /\ SameRun(r, v)
      BY <1>2, <2>3 DEF FinishNode, RunObject, SameRun
    <3>2. v \in RunObject
      BY <1>2, <2>3, Typed DEF Places, NodeStates
    <3>3. r.nodes \in [Nodes -> NodeStates]
      BY DEF RunObject
    <3>4. Went(r, i, v)
      BY <1>1, <1>2, <1>5, <2>3, <3>1 DEF Went
    <3> QED BY <1>1, <1>5, <3>1, <3>2, <3>3, <3>4 DEF PlaceOK, Working, Trying, SameRun
  <2> QED BY <2>1, <2>2, <2>3
<1> QED BY <1>4, <1>5 DEF v

\* The providers of a node go on, or the node is done (_run_provider).
LEMMA AttemptGoes ==
  ASSUME NEW r \in RunObject, PlaceOK(r), r.pc = "end", r.kind \in Kinds, NEW gone \in BOOLEAN
  PROVE  LET v == AfterAttempt(r, gone) IN Tried(r, v) /\ v \in RunObject /\ PlaceOK(v)
<1> DEFINE v == AfterAttempt(r, gone)
           out == {"ok", "skipped", "failed", "cancelled"}
<1>1. r.node \in Nodes /\ r.left > 0 /\ r.attempt > 0 /\ ~r.telling /\ r.nodes[r.node] = "pending"
  BY DEF PlaceOK, Working, Trying
<1>2. ASSUME NEW k \in out, k = "cancelled" => r.kind = "cancelled", v = ProviderDone(r, k)
      PROVE  Tried(r, v) /\ v \in RunObject /\ PlaceOK(v)
  <2> DEFINE s == [r EXCEPT !.seen = @ \cup {k}, !.left = @ - 1]
  <2>1. /\ s \in RunObject /\ SameRun(r, s) /\ s.node = r.node /\ s.nodes = r.nodes /\ s.failed = r.failed
        /\ s.seen = r.seen \cup {k} /\ s.left = r.left - 1 /\ s.attempt = r.attempt /\ s.kind = r.kind
    <3>1. s = [r EXCEPT !.seen = @ \cup {k}, !.left = r.left - 1] /\ r.left - 1 \in Nat
      BY <1>1 DEF RunObject
    <3>2. s \in RunObject
      BY <3>1, Typed
    <3> QED BY <3>2 DEF RunObject, SameRun
  <2>2. \/ v = NodeDone(s)
        \/ s.left # 0 /\ v = NextAttempt([s EXCEPT !.try = 1])
    BY <1>2 DEF ProviderDone
  <2> HIDE DEF v, s
  <2>3. CASE v = NodeDone(s)
    <3> DEFINE e == NodeResult(s)
    <3>1. /\ e \in NodeStates \ {"pending"} 
          /\ e = "unknown" <=> r.node \in r.unknown
          /\ e = "cancelled" => "cancelled" \in s.seen
      BY <2>1 DEF NodeResult, NodeStates, SameRun
    <3>2. v = FinishNode(s, "finish", e)
      BY <2>3 DEF NodeDone
    <3> HIDE DEF e
    <3>3. /\ v.pc = "finish" /\ v.node = r.node /\ v.nodes = [r.nodes EXCEPT ![r.node] = e]
          /\ v.failed = r.failed /\ v.seen = {} /\ v.kind = "ok"
          /\ SameRun(r, v)
      BY <2>1, <3>2 DEF FinishNode, RunObject, SameRun
    <3>4. v \in RunObject
      BY <2>1, <3>1, <3>2, Typed DEF Places
    <3>5. Tried(r, v)
      BY <1>2, <2>1, <3>1, <3>3 DEF Tried
    <3> QED BY <1>1, <3>1, <3>3, <3>4, <3>5 DEF PlaceOK, Working, Trying, SameRun, RunObject
  <2>4. CASE s.left # 0 /\ v = NextAttempt([s EXCEPT !.try = 1])
    <3>1. /\ v.pc = "begin" /\ v.node = r.node /\ v.nodes = r.nodes /\ v.left = r.left - 1
          /\ v.attempt = r.attempt + 1 /\ v.failed = r.failed /\ v.seen = r.seen \cup {k} /\ v.kind = "ok"
          /\ SameRun(r, v)
      BY <2>1, <2>4 DEF NextAttempt, RunObject, SameRun
    <3>2. v \in RunObject
      BY <2>1, <2>4, Typed
    <3>3. r.attempt \in Nat /\ v.left \in Nat
      BY <3>2 DEF RunObject
    <3>4. Tried(r, v)
      BY <1>2, <3>1 DEF Tried
    <3>5. v.left > 0 /\ v.attempt > 0 /\ v.nodes[v.node] = "pending" /\ v.node \in Nodes /\ ~v.telling
      <4>1. v.left = s.left /\ v.left # 0
        BY <2>1, <2>4, <3>1
      <4>2. v.attempt > 0
        BY <3>1, <3>3
      <4>3. v.left > 0
        BY <3>3, <4>1
      <4> QED BY <1>1, <3>1, <4>2, <4>3 DEF SameRun
    <3>6. PlaceOK(v)
      BY <3>1, <3>5 DEF PlaceOK, Working, Trying
    <3> QED BY <3>2, <3>4, <3>6
  <2> QED BY <2>2, <2>3, <2>4
<1>3. CASE v = [r EXCEPT !.pc = "sleep"]
  BY <1>1, <1>3 DEF RunObject, SameRun, Tried, PlaceOK, Places, Working, Trying
<1>4. \/ \E k \in out : (k = "cancelled" => r.kind = "cancelled") /\ v = ProviderDone(r, k)
      \/ v = [r EXCEPT !.pc = "sleep"]
  BY DEF AfterAttempt, Kinds
<1> QED BY <1>2, <1>3, <1>4

-----------------------------------------------------------------------------
(* Types *)

TypeInv == TypeOK /\ \A d \in 1 .. Drivers : PlaceOK(run[d])

\* The same node in the same state.
SameNode(r, v) == v.node = r.node /\ v.nodes = r.nodes /\ v.failed = r.failed

\* The run is given up: store_error.
GivesUp(r, v) ==
  /\ v.pc = "close" /\ v.state = "failed" /\ SameNode(r, v)
  /\ v.base = r.base /\ v.lost = r.lost /\ v.unknown = r.unknown

\* What driver d makes of its object.
Becomes(d, v) ==
  /\ run' = [run EXCEPT ![d] = v]
  /\ v \in RunObject /\ PlaceOK(v)

\* A sequence whose elements are renamed keeps its length.
LEMMA Relabel ==
  ASSUME NEW s \in Seq(StepStates), NEW t, t = [a \in DOMAIN s |-> t[a]],
         \A a \in DOMAIN s : t[a] \in StepStates
  PROVE  t \in Seq(StepStates) /\ Len(t) = Len(s) /\ DOMAIN t = DOMAIN s
<1>1. DOMAIN s = 1 .. Len(s) /\ Len(s) \in Nat
  OBVIOUS
<1>2. t \in [1 .. Len(s) -> StepStates]
  BY <1>1
<1>3. t \in Seq(StepStates)
  BY <1>1, <1>2
<1> QED BY <1>1, <1>2, <1>3

LEMMA StartedMove ==
  ASSUME TypeInv, NEW d \in 1 .. Drivers, RunStarted(d)
  PROVE  \E v : Becomes(d, v) /\ Went(run[d], 1, v)
<1> DEFINE r == run[d]
           s == [r EXCEPT !.state = "running"]
           v == Visit(s, 1)
<1>1. r \in RunObject /\ PlaceOK(r) /\ r.pc = "slot"
  BY DEF TypeInv, TypeOK, RunStarted
<1>2. s = [r EXCEPT !.pc = "slot", !.state = "running"]
  BY <1>1 DEF RunObject
<1>3. s \in RunObject
  BY <1>1, <1>2, Typed DEF Places, RunStates
<1>4. SameRun(r, s) /\ s.nodes = r.nodes /\ s.failed = r.failed /\ ~s.telling
  BY <1>1 DEF RunObject, SameRun, PlaceOK
<1> HIDE DEF s
<1>5. Went(s, 1, v) /\ v \in RunObject /\ PlaceOK(v)
  BY <1>3, <1>4, VisitGoes, FlowAssumption
<1>6. Went(r, 1, v)
  BY <1>4, <1>5 DEF Went, SameRun
<1>7. run' = [run EXCEPT ![d] = v]
  BY DEF RunStarted, s
<1> QED BY <1>5, <1>6, <1>7 DEF Becomes

LEMMA ResolvedMove ==
  ASSUME TypeInv, NEW d \in 1 .. Drivers, Resolved(d)
  PROVE  \E v : /\ Becomes(d, v) /\ SameRun(run[d], v) /\ SameNode(run[d], v)
                /\ v.pc = "begin" /\ v.attempt = v.base[v.node] + 1 /\ v.seen = {} /\ v.kind = "ok"
<1> DEFINE r == run[d]
           s == [r EXCEPT !.attempt = r.base[r.node], !.try = 1, !.left = Providers[r.node], !.seen = {}]
           v == NextAttempt(s)
<1>1. r \in RunObject /\ PlaceOK(r) /\ r.pc = "resolve" /\ r.node \in Nodes /\ r.nodes[r.node] = "pending"
  BY DEF TypeInv, TypeOK, Resolved, PlaceOK, Working
<1>2. r.base[r.node] \in Nat /\ Providers[r.node] \in Nat \ {0}
  BY <1>1, FlowAssumption DEF RunObject
<1>3. s \in RunObject
  BY <1>1, <1>2 DEF RunObject
<1>4. v \in RunObject
  BY <1>3, Typed
<1>5. /\ SameRun(r, v) /\ SameNode(r, v)
      /\ v.pc = "begin" /\ v.attempt = r.base[r.node] + 1 /\ v.seen = {} /\ v.kind = "ok"
      /\ v.left = Providers[r.node]
  BY <1>1 DEF RunObject, SameRun, SameNode, NextAttempt
<1>6. PlaceOK(v)
  BY <1>1, <1>2, <1>5 DEF PlaceOK, Working, Trying, SameRun, SameNode
<1>7. run' = [run EXCEPT ![d] = v]
  BY DEF Resolved
<1> HIDE DEF v
<1> QED BY <1>4, <1>5, <1>6, <1>7 DEF Becomes, SameRun, SameNode

\* No provider: the node is done without an attempt.
LEMMA UnresolvedMove ==
  ASSUME TypeInv, NEW d \in 1 .. Drivers, Unresolved(d)
  PROVE  \E v : /\ Becomes(d, v) /\ SameRun(run[d], v) /\ v.node = run[d].node /\ v.failed = run[d].failed
                /\ v.pc = "finish" /\ v.seen = {} /\ v.kind = "ok"
                /\ \E s \in {"failed", "skipped"} : v.nodes = [run[d].nodes EXCEPT ![run[d].node] = s]
<1> DEFINE r == run[d]
           s == IF r.node \in Required THEN "failed" ELSE "skipped"
           v == FinishNode(r, "finish", s)
<1>1. r \in RunObject /\ PlaceOK(r) /\ r.pc = "resolve" /\ r.node \in Nodes /\ ~r.telling
  BY DEF TypeInv, TypeOK, Unresolved, PlaceOK, Working
<1>2. s \in {"failed", "skipped"}
  OBVIOUS
<1>3. run' = [run EXCEPT ![d] = v]
  BY DEF Unresolved
<1> HIDE DEF s
<1>4. v \in RunObject
  BY <1>1, <1>2, Typed DEF Places, NodeStates
<1>5. /\ SameRun(r, v) /\ v.node = r.node /\ v.failed = r.failed
      /\ v.pc = "finish" /\ v.seen = {} /\ v.kind = "ok" /\ v.nodes = [r.nodes EXCEPT ![r.node] = s]
  BY <1>1 DEF FinishNode, RunObject, SameRun
<1>6. r.nodes \in [Nodes -> NodeStates]
  BY <1>1 DEF RunObject
<1> HIDE DEF v
<1>7. PlaceOK(v)
  BY <1>1, <1>2, <1>5, <1>6 DEF PlaceOK, Working, Trying, SameRun
<1> QED BY <1>2, <1>3, <1>4, <1>5, <1>7 DEF Becomes

LEMMA BegunMove ==
  ASSUME TypeInv, NEW d \in 1 .. Drivers, AttemptStarted(d)
  PROVE  \E v : /\ Becomes(d, v) /\ SameRun(run[d], v) /\ SameNode(run[d], v)
                /\ v.attempt = run[d].attempt /\ v.seen = run[d].seen
                /\ IF run[d].attempt > Len(steps[run[d].node])
                   THEN v.pc = "call" /\ v.kind = run[d].kind
                   ELSE v.pc = "end" /\ v.kind = "unknown"
<1> DEFINE r == run[d]
           fresh == r.attempt > Len(steps[r.node])
           v == IF fresh THEN [r EXCEPT !.pc = "call"] ELSE [r EXCEPT !.pc = "end", !.kind = "unknown"]
<1>1. r \in RunObject /\ PlaceOK(r) /\ r.pc = "begin" /\ r.node \in Nodes /\ ~r.telling
  BY DEF TypeInv, TypeOK, AttemptStarted, PlaceOK, Working
<1>2. run' = [run EXCEPT ![d] = v]
  BY DEF AttemptStarted
<1> HIDE DEF fresh
<1>3. v \in RunObject
  BY <1>1 DEF RunObject, Places
<1>4. /\ SameRun(r, v) /\ SameNode(r, v) /\ v.attempt = r.attempt /\ v.seen = r.seen /\ v.left = r.left
      /\ IF fresh THEN v.pc = "call" /\ v.kind = r.kind ELSE v.pc = "end" /\ v.kind = "unknown"
  BY <1>1 DEF RunObject, SameRun, SameNode
<1> HIDE DEF v
<1>5. PlaceOK(v)
  BY <1>1, <1>4 DEF PlaceOK, Working, Trying, SameRun, SameNode
<1> QED BY <1>2, <1>3, <1>4, <1>5 DEF Becomes, fresh

LEMMA AbortGivesUp ==
  ASSUME NEW r \in RunObject
  PROVE  Abort(r) \in RunObject /\ PlaceOK(Abort(r)) /\ GivesUp(r, Abort(r))
<1>1. Abort(r) \in RunObject
  BY DEF Abort, RunObject, Places, RunStates, Final
<1>2. GivesUp(r, Abort(r)) /\ ~Abort(r).telling
  BY DEF Abort, RunObject, GivesUp, SameNode
<1> QED BY <1>1, <1>2 DEF PlaceOK, GivesUp, Working, Trying

LEMMA EndedMove ==
  ASSUME TypeInv, NEW d \in 1 .. Drivers, CallEnds(d)
  PROVE  \E v : /\ Becomes(d, v) /\ SameNode(run[d], v) /\ v.attempt = run[d].attempt /\ v.seen = run[d].seen
                /\ v.base = run[d].base /\ v.lost = run[d].lost /\ v.unknown = run[d].unknown
                /\ v.cancelled = run[d].cancelled
                /\ v.pc = "end" /\ v.kind \in Kinds
                /\ v.kind = "cancelled" => run[d].cancelled \/ Churn
<1> DEFINE r == run[d]
<1>1. r \in RunObject /\ PlaceOK(r) /\ r.pc = "call" /\ r.node \in Nodes
  BY DEF TypeInv, TypeOK, CallEnds, PlaceOK, Working
<1>2. PICK kind \in Kinds : /\ kind = "cancelled" => r.cancelled \/ Churn
                            /\ run' = [run EXCEPT ![d].pc = "end", ![d].kind = kind, ![d].telling = FALSE]
  BY DEF CallEnds
<1> DEFINE v == [r EXCEPT !.pc = "end", !.kind = kind, !.telling = FALSE]
<1>3. run' = [run EXCEPT ![d] = v]
  BY <1>2 DEF TypeInv, TypeOK
<1>4. v \in RunObject
  BY <1>1 DEF RunObject, Places
<1>5. /\ SameNode(r, v) /\ v.attempt = r.attempt /\ v.seen = r.seen /\ v.left = r.left
      /\ v.base = r.base /\ v.lost = r.lost /\ v.unknown = r.unknown /\ v.cancelled = r.cancelled
      /\ v.pc = "end" /\ v.kind = kind /\ ~v.telling
  BY <1>1 DEF RunObject, SameNode
<1> HIDE DEF v
<1>6. PlaceOK(v)
  BY <1>1, <1>5 DEF PlaceOK, Working, Trying, SameNode
<1> QED BY <1>2, <1>3, <1>4, <1>5, <1>6 DEF Becomes

LEMMA FinishedMove ==
  ASSUME TypeInv, NEW d \in 1 .. Drivers, AttemptFinished(d)
  PROVE  \E v : Becomes(d, v) /\ IF run[d].kind = "unknown" THEN GivesUp(run[d], v) ELSE Tried(run[d], v)
<1> DEFINE r == run[d]
<1>1. r \in RunObject /\ PlaceOK(r) /\ r.pc = "end"
  BY DEF TypeInv, TypeOK, AttemptFinished
<1>2. PICK gone \in BOOLEAN : run' = [run EXCEPT ![d] = IF r.kind = "unknown" THEN Abort(r) ELSE AfterAttempt(r, gone)]
  BY DEF AttemptFinished
<1>3. CASE r.kind = "unknown"
  BY <1>1, <1>2, <1>3, AbortGivesUp DEF Becomes
<1>4. CASE r.kind # "unknown"
  <2>1. r.kind \in Kinds
    BY <1>1, <1>4 DEF RunObject
  <2>2. LET v == AfterAttempt(r, gone) IN Tried(r, v) /\ v \in RunObject /\ PlaceOK(v)
    BY <1>1, <2>1, AttemptGoes
  <2> QED BY <1>2, <1>4, <2>2 DEF Becomes
<1> QED BY <1>3, <1>4

LEMMA RetryMove ==
  ASSUME TypeInv, NEW d \in 1 .. Drivers, Retry(d)
  PROVE  \E v : /\ Becomes(d, v) /\ SameRun(run[d], v) /\ SameNode(run[d], v)
                /\ v.pc = "begin" /\ v.attempt = run[d].attempt + 1 /\ v.seen = run[d].seen /\ v.kind = "ok"
<1> DEFINE r == run[d]
           s == [r EXCEPT !.try = r.try + 1]
           v == NextAttempt(s)
<1>1. r \in RunObject /\ PlaceOK(r) /\ r.pc = "sleep" /\ r.node \in Nodes /\ r.nodes[r.node] = "pending"
      /\ r.left > 0 /\ r.attempt \in Nat /\ r.try + 1 \in Nat
  BY DEF TypeInv, TypeOK, Retry, PlaceOK, Working, Trying, RunObject
<1>2. s \in RunObject
  BY <1>1, Typed
<1>3. v \in RunObject
  BY <1>2, Typed
<1>4. /\ SameRun(r, v) /\ SameNode(r, v)
      /\ v.pc = "begin" /\ v.attempt = r.attempt + 1 /\ v.seen = r.seen /\ v.kind = "ok" /\ v.left = r.left
  BY <1>1 DEF RunObject, SameRun, SameNode, NextAttempt
<1>5. run' = [run EXCEPT ![d] = v]
  BY DEF Retry
<1> HIDE DEF v
<1>6. PlaceOK(v)
  BY <1>1, <1>4 DEF PlaceOK, Working, Trying, SameRun, SameNode
<1> QED BY <1>3, <1>4, <1>5, <1>6 DEF Becomes

\* The loop after a node that was run: a required one that failed, or was stopped
\* by a drain, counts as a failure.
LEMMA NodeMove ==
  ASSUME TypeInv, NEW d \in 1 .. Drivers, NodeFinished(d)
  PROVE  LET r == run[d]
             fails == r.node \in Required
                        /\ (r.nodes[r.node] = "failed" \/ (r.nodes[r.node] = "cancelled" /\ ~r.cancelled))
         IN  \E v : /\ Becomes(d, v)
                    /\ IF r.lost
                       THEN SameRun(r, v) /\ SameNode(r, v) /\ v.pc = "close" /\ v.state = "interrupted"
                       ELSE Went([r EXCEPT !.failed = @ \/ fails], r.node + 1, v)
<1> DEFINE r == run[d]
           fails == r.node \in Required
                        /\ (r.nodes[r.node] = "failed" \/ (r.nodes[r.node] = "cancelled" /\ ~r.cancelled))
           s == [r EXCEPT !.failed = @ \/ fails]
<1>0. r \in RunObject /\ PlaceOK(r) /\ r.pc = "finish"
  BY DEF TypeInv, TypeOK, NodeFinished
<1>7. ~r.telling /\ r.node \in Nodes
  <2> HIDE DEF r, s
  <2> QED BY <1>0 DEF PlaceOK
<1>8. r.node + 1 \in 1 .. N + 1
  BY <1>7, FlowAssumption DEF Nodes
<1>1. r \in RunObject /\ PlaceOK(r) /\ r.pc = "finish" /\ ~r.telling /\ r.node + 1 \in 1 .. N + 1
  BY <1>0, <1>7, <1>8
<1>2. run' = [run EXCEPT ![d] = IF r.lost THEN Conclude(r) ELSE Visit(s, r.node + 1)]
  BY DEF NodeFinished
<1>3. \A b \in BOOLEAN : [r EXCEPT !.failed = @ \/ b] \in RunObject /\ ~[r EXCEPT !.failed = @ \/ b].telling
  BY <1>1 DEF RunObject
<1>6. fails \in BOOLEAN
  <2>1. CASE fails
    BY <2>1
  <2>2. CASE ~fails
    BY <2>2
  <2> QED BY <2>1, <2>2
<1> HIDE DEF fails
<1>4. CASE r.lost
  <2> DEFINE v == [r EXCEPT !.pc = "close", !.state = "interrupted"]
  <2>1. Conclude(r) = v
    BY <1>4 DEF Conclude
  <2>2. v \in RunObject
    BY <1>1, Typed DEF Places, RunStates
  <2>3. SameRun(r, v) /\ SameNode(r, v) /\ v.pc = "close" /\ v.state = "interrupted" /\ ~v.telling
    BY <1>1 DEF RunObject, SameRun, SameNode
  <2> HIDE DEF v
  <2>4. PlaceOK(v)
    BY <2>3 DEF PlaceOK, Working, Trying
  <2> QED BY <1>2, <1>4, <2>1, <2>2, <2>3, <2>4 DEF Becomes
<1>5. CASE ~r.lost
  <2>1. s \in RunObject /\ ~s.telling
    BY <1>3, <1>6
  <2> HIDE DEF s
  <2>2. Went(s, r.node + 1, Visit(s, r.node + 1)) /\ Visit(s, r.node + 1) \in RunObject
        /\ PlaceOK(Visit(s, r.node + 1))
    BY <1>1, <2>1, VisitGoes
  <2> QED BY <1>2, <1>5, <2>2 DEF Becomes, s, fails
<1> QED BY <1>4, <1>5 DEF fails

LEMMA PassedMove ==
  ASSUME TypeInv, NEW d \in 1 .. Drivers, NodePassed(d)
  PROVE  \E v : Becomes(d, v) /\ Went(run[d], run[d].node + 1, v)
<1> DEFINE r == run[d]
<1>1. r \in RunObject /\ PlaceOK(r) /\ r.pc = "pass"
  BY DEF TypeInv, TypeOK, NodePassed
<1>3. ~r.telling /\ r.node \in Nodes
  BY <1>1 DEF PlaceOK
<1>4. r.node + 1 \in 1 .. N + 1
  BY <1>3, FlowAssumption DEF Nodes
<1>2. Went(r, r.node + 1, Visit(r, r.node + 1)) /\ Visit(r, r.node + 1) \in RunObject
        /\ PlaceOK(Visit(r, r.node + 1))
  BY <1>1, <1>3, <1>4, VisitGoes
<1> QED BY <1>2 DEF NodePassed, Becomes

\* A new object, for any states of the nodes and any attempts before it.
LEMMA NewRunTyped ==
  ASSUME NEW ns \in [Nodes -> NodeStates], NEW b \in [Nodes -> Nat]
  PROVE  NewRun(ns, b) \in RunObject /\ PlaceOK(NewRun(ns, b))
<1>1. 1 \in 1 .. N + 1
  BY FlowAssumption
<1>2. NewRun(ns, b) \in RunObject
  BY <1>1 DEF NewRun, RunObject, Places, RunStates, Kinds
<1> QED BY <1>2 DEF NewRun, PlaceOK, Working, Trying

LEMMA NoRunTyped == NoRun \in RunObject /\ PlaceOK(NoRun) /\ NoRun.pc = "none" /\ ~NoRun.telling
<1> DEFINE r == NewRun([i \in Nodes |-> "pending"], [i \in Nodes |-> 0])
<1>1. r \in RunObject /\ ~r.telling
  BY NewRunTyped DEF NodeStates, NewRun
<1> HIDE DEF r
<1>2. NoRun = [r EXCEPT !.pc = "none"]
  BY DEF NoRun, r
<1>3. NoRun \in RunObject
  BY <1>1, <1>2, Typed DEF Places
<1>4. NoRun.pc = "none" /\ ~NoRun.telling
  BY <1>1, <1>2 DEF RunObject
<1> QED BY <1>3, <1>4 DEF PlaceOK, Working, Trying

LEMMA OverMove ==
  ASSUME NEW r \in RunObject
  PROVE  Over(r) \in RunObject /\ PlaceOK(Over(r)) /\ Over(r).pc = "over"
<1>1. Over(r) = [NoRun EXCEPT !.pc = "over", !.state = r.state]
  BY DEF Over
<1>2. r.state \in RunStates
  BY DEF RunObject
<1>3. Over(r) \in RunObject
  <2> DEFINE n == NoRun
  <2>1. n \in RunObject /\ "over" \in Places
    BY NoRunTyped DEF Places
  <2> HIDE DEF n
  <2>2. [n EXCEPT !.pc = "over", !.state = r.state] \in RunObject
    BY <1>2, <2>1, Typed
  <2> QED BY <1>1, <2>2 DEF n
<1>4. Over(r).pc = "over" /\ ~Over(r).telling
  <2> HIDE DEF NoRun
  <2> DEFINE n == NoRun
  <2>1. n \in RunObject /\ ~n.telling
    BY NoRunTyped
  <2>2. Over(r) = [n EXCEPT !.pc = "over", !.state = r.state]
    BY <1>1
  <2> HIDE DEF n
  <2> QED BY <2>1, <2>2 DEF RunObject
<1> QED BY <1>3, <1>4 DEF PlaceOK, Working, Trying

\* A transaction that fails: the handler deals with it, the run is given up, the
\* attempt is cleaned up, or the end of the run stays unrecorded.
LEMMA FaultMove ==
  ASSUME TypeInv, NEW d \in 1 .. Drivers, StoreFails(d)
  PROVE  LET r == run[d]
         IN  \E v : /\ Becomes(d, v)
                    /\ \/ /\ r.pc = "call" /\ v.pc = "call" /\ SameNode(r, v) /\ v.attempt = r.attempt
                          /\ v.seen = r.seen /\ v.kind = r.kind /\ v.base = r.base /\ v.lost = r.lost
                          /\ v.unknown = r.unknown /\ v.cancelled = r.cancelled
                       \/ r.pc = "close" /\ v.pc = "over"
                       \/ /\ r.pc = "begin" /\ v.pc = "end" /\ v.kind = "unknown" /\ SameRun(r, v)
                          /\ SameNode(r, v) /\ v.seen = r.seen
                       \/ r.pc \in {"slot", "end", "finish", "pass"} /\ GivesUp(r, v)
<1> DEFINE r == run[d]
           w == CASE r.telling -> [r EXCEPT !.telling = FALSE]
                  [] r.pc = "close" -> Over(r)
                  [] r.pc = "begin" -> [r EXCEPT !.pc = "end", !.kind = "unknown"]
                  [] OTHER -> Abort(r)
<1>1. /\ r \in RunObject /\ PlaceOK(r)
      /\ r.pc \in {"slot", "begin", "end", "finish", "pass", "close"} \/ (r.pc = "call" /\ r.telling)
      /\ run' = [run EXCEPT ![d] = w]
  BY DEF TypeInv, TypeOK, StoreFails
<1>2. r.telling <=> r.pc = "call"
  BY <1>1 DEF PlaceOK
<1>3. CASE r.pc = "call"
  <2> DEFINE v == [r EXCEPT !.telling = FALSE]
  <2>1. w = v
    BY <1>2, <1>3
  <2>2. v \in RunObject
    BY <1>1 DEF RunObject
  <2>3. /\ v.pc = "call" /\ SameNode(r, v) /\ v.attempt = r.attempt /\ v.left = r.left
        /\ v.seen = r.seen /\ v.kind = r.kind /\ v.base = r.base /\ v.lost = r.lost
        /\ v.unknown = r.unknown /\ v.cancelled = r.cancelled
    BY <1>1, <1>3 DEF RunObject, SameNode
  <2> HIDE DEF v, w
  <2>4. PlaceOK(v)
    BY <1>1, <1>3, <2>3 DEF PlaceOK, Working, Trying, SameNode
  <2> QED BY <1>1, <1>3, <2>1, <2>2, <2>3, <2>4 DEF Becomes
<1>4. CASE r.pc = "close"
  <2>1. w = Over(r)
    BY <1>2, <1>4
  <2> HIDE DEF w
  <2> QED BY <1>1, <1>4, <2>1, OverMove DEF Becomes
<1>5. CASE r.pc = "begin"
  <2> DEFINE v == [r EXCEPT !.pc = "end", !.kind = "unknown"]
  <2>1. w = v
    BY <1>2, <1>5
  <2>2. v \in RunObject
    BY <1>1 DEF RunObject, Places
  <2>3. /\ v.pc = "end" /\ v.kind = "unknown" /\ SameNode(r, v) /\ SameRun(r, v) /\ v.attempt = r.attempt
        /\ v.left = r.left /\ v.seen = r.seen
    BY <1>1 DEF RunObject, SameNode, SameRun
  <2> HIDE DEF v, w
  <2>4. PlaceOK(v)
    BY <1>1, <1>5, <2>3 DEF PlaceOK, Working, Trying, SameNode, SameRun
  <2> QED BY <1>1, <1>5, <2>1, <2>2, <2>3, <2>4 DEF Becomes
<1>6. CASE r.pc \in {"slot", "end", "finish", "pass"}
  <2>1. w = Abort(r)
    BY <1>2, <1>6
  <2> HIDE DEF w
  <2> QED BY <1>1, <1>6, <2>1, AbortGivesUp DEF Becomes
<1> HIDE DEF w
<1> QED BY <1>1, <1>3, <1>4, <1>5, <1>6

LEMMA ClosedMove ==
  ASSUME TypeInv, NEW d \in 1 .. Drivers, RunFinished(d)
  PROVE  \E v : Becomes(d, v) /\ v.pc = "over" /\ run[d].state \in RunStates
<1>1. run[d] \in RunObject
  BY DEF TypeInv, TypeOK
<1>2. run[d].state \in RunStates
  BY <1>1 DEF RunObject
<1> QED BY <1>1, <1>2, OverMove DEF RunFinished, Becomes

\* The loss of a job is on its way to the record, or has arrived there.
LEMMA LossMove ==
  ASSUME TypeInv, NEW d \in 1 .. Drivers, LossRecorded(d)
  PROVE  \E v : /\ Becomes(d, v) /\ SameNode(run[d], v) /\ v.pc = "call" /\ v.attempt = run[d].attempt
                /\ v.seen = run[d].seen /\ v.kind = run[d].kind /\ v.base = run[d].base
                /\ v.lost = run[d].lost /\ v.unknown = run[d].unknown /\ v.cancelled = run[d].cancelled
<1> DEFINE r == run[d]
           v == [r EXCEPT !.telling = FALSE]
<1>1. r \in RunObject /\ PlaceOK(r) /\ r.pc = "call"
  BY DEF TypeInv, TypeOK, LossRecorded
<1>2. run' = [run EXCEPT ![d] = v]
  BY DEF LossRecorded, TypeInv, TypeOK
<1>3. v \in RunObject
  BY <1>1 DEF RunObject
<1>4. /\ v.pc = "call" /\ SameNode(r, v) /\ v.attempt = r.attempt /\ v.left = r.left
      /\ v.seen = r.seen /\ v.kind = r.kind /\ v.base = r.base /\ v.lost = r.lost
      /\ v.unknown = r.unknown /\ v.cancelled = r.cancelled
  BY <1>1 DEF RunObject, SameNode
<1> HIDE DEF v
<1>5. PlaceOK(v)
  BY <1>1, <1>4 DEF PlaceOK, Working, Trying, SameNode
<1> QED BY <1>2, <1>3, <1>4, <1>5 DEF Becomes

\* The loss itself marks the object that _runs holds.
LEMMA LostMove ==
  ASSUME TypeInv, NEW d \in 1 .. Drivers, RemoteLost(d)
  PROVE  /\ run' \in [1 .. Drivers -> RunObject]
         /\ \A e \in 1 .. Drivers : PlaceOK(run'[e])
         /\ run[d].pc = "call" /\ run[d].node \in Remote /\ current \in Active
         /\ \A e \in 1 .. Drivers :
              LET r == run[e]
                  v == run'[e]
              IN  /\ SameNode(r, v) /\ v.pc = r.pc /\ v.attempt = r.attempt /\ v.seen = r.seen
                  /\ v.kind = r.kind /\ v.base = r.base /\ v.cancelled = r.cancelled /\ v.state = r.state
                  /\ v.lost = (r.lost \/ e = current)
                  /\ v.unknown = IF e = current THEN r.unknown \cup {run[d].node} ELSE r.unknown
<1>1. /\ run \in [1 .. Drivers -> RunObject] /\ run[d].pc = "call" /\ run[d].node \in Remote
      /\ current \in Active /\ current \in 1 .. Drivers
  BY DEF TypeInv, TypeOK, RemoteLost, Active
<1>2. \A e \in 1 .. Drivers : run[e] \in RunObject /\ PlaceOK(run[e])
  BY DEF TypeInv, TypeOK
<1>3. run[d].node \in Nodes
  BY <1>1, FlowAssumption
<1> DEFINE n == run[d].node
           c == [run[current] EXCEPT !.lost = TRUE, !.unknown = @ \cup {n}]
           mid == [run EXCEPT ![current] = c]
           t == [mid[d] EXCEPT !.telling = TRUE]
<1>4. run' = [mid EXCEPT ![d] = t]
  BY <1>1 DEF RemoteLost
<1>5. c \in RunObject
  <2>1. run[current].unknown \cup {n} \in SUBSET Nodes
    BY <1>1, <1>2, <1>3 DEF RunObject
  <2>2. run[current] \in RunObject
    BY <1>1, <1>2
  <2> QED BY <2>1, <2>2 DEF RunObject
<1>6. LET r == run[current] IN
      /\ SameNode(r, c) /\ c.pc = r.pc /\ c.attempt = r.attempt /\ c.seen = r.seen /\ c.left = r.left
      /\ c.kind = r.kind /\ c.base = r.base /\ c.cancelled = r.cancelled /\ c.state = r.state
      /\ c.lost = TRUE /\ c.unknown = r.unknown \cup {n} /\ c.telling = r.telling
  <2>1. run[current] \in RunObject
    BY <1>1, <1>2
  <2> QED BY <2>1 DEF RunObject, SameNode
<1> HIDE DEF c
<1>7. mid \in [1 .. Drivers -> RunObject] /\ mid[current] = c /\ \A e \in 1 .. Drivers : e # current => mid[e] = run[e]
  BY <1>1, <1>5
<1> HIDE DEF mid
<1>8. t \in RunObject /\ SameNode(mid[d], t) /\ SameRun([mid[d] EXCEPT !.telling = TRUE], t) /\ t.pc = mid[d].pc
      /\ t.attempt = mid[d].attempt /\ t.seen = mid[d].seen /\ t.left = mid[d].left /\ t.kind = mid[d].kind
      /\ t.base = mid[d].base /\ t.cancelled = mid[d].cancelled /\ t.state = mid[d].state
      /\ t.lost = mid[d].lost /\ t.unknown = mid[d].unknown
  <2>1. mid[d] \in RunObject
    BY <1>7
  <2> QED BY <2>1 DEF RunObject, SameNode, SameRun
<1> HIDE DEF t
<1>9. run'[d] = t /\ \A e \in 1 .. Drivers : e # d => run'[e] = mid[e]
  BY <1>4, <1>7
<1>10. run' \in [1 .. Drivers -> RunObject]
  BY <1>4, <1>7, <1>8
<1>11. ASSUME NEW e \in 1 .. Drivers
       PROVE  LET r == run[e]
                  v == run'[e]
              IN  /\ SameNode(r, v) /\ v.pc = r.pc /\ v.attempt = r.attempt /\ v.seen = r.seen
                  /\ v.kind = r.kind /\ v.base = r.base /\ v.cancelled = r.cancelled /\ v.state = r.state
                  /\ v.lost = (r.lost \/ e = current)
                  /\ v.unknown = IF e = current THEN r.unknown \cup {run[d].node} ELSE r.unknown
                  /\ v.left = r.left /\ (e # d => v.telling = r.telling)
  <2> DEFINE r == run[e]
             v == run'[e]
             m == mid[e]
  <2>1. /\ SameNode(m, v) /\ v.pc = m.pc /\ v.attempt = m.attempt /\ v.seen = m.seen
        /\ v.kind = m.kind /\ v.base = m.base /\ v.cancelled = m.cancelled /\ v.state = m.state
        /\ v.lost = m.lost /\ v.unknown = m.unknown /\ v.left = m.left /\ (e # d => v.telling = m.telling)
    <3>1. CASE e = d
      BY <1>8, <1>9, <3>1
    <3>2. CASE e # d
      BY <1>9, <3>2 DEF SameNode
    <3> QED BY <3>1, <3>2
  <2>2. CASE e = current
    BY <1>6, <1>7, <2>1, <2>2 DEF SameNode
  <2>3. CASE e # current
    <3>1. r.lost \in BOOLEAN
      BY <1>2 DEF RunObject
    <3> QED BY <1>7, <2>1, <2>3, <3>1
  <2> QED BY <2>2, <2>3
<1>12. ASSUME NEW e \in 1 .. Drivers PROVE PlaceOK(run'[e])
  <2> DEFINE r == run[e]
             v == run'[e]
  <2>1. /\ PlaceOK(r) /\ SameNode(r, v) /\ v.pc = r.pc /\ v.attempt = r.attempt /\ v.left = r.left
        /\ v.kind = r.kind /\ (r.pc # "call" => v.telling = r.telling)
    BY <1>1, <1>2, <1>11
  <2> HIDE DEF r, v
  <2>2. PlaceOK(v)
    BY <2>1 DEF PlaceOK, SameNode
  <2> QED BY <2>2 DEF v
<1> QED BY <1>1, <1>10, <1>11, <1>12

\* The variables that a driver does not touch by itself.
serviceVars == <<current, starting, calls, cancelling, sweep, blind, crashes, cancels>>

\* Records of a driver that keep their types.
TablesTyped ==
  /\ row' \in RunStates \cup {"none"}
  /\ steps' \in [Nodes -> Seq(StepStates)]
  /\ finished' \in [Nodes -> (NodeStates \ {"pending"}) \cup {"none"}]

LEMMA BecomesTyped ==
  ASSUME TypeInv, NEW d \in 1 .. Drivers, NEW v, Becomes(d, v), TablesTyped, UNCHANGED serviceVars
  PROVE  TypeInv'
<1>1. /\ run' \in [1 .. Drivers -> RunObject]
      /\ \A e \in 1 .. Drivers : PlaceOK(run'[e])
  <2>1. run \in [1 .. Drivers -> RunObject] /\ \A e \in 1 .. Drivers : PlaceOK(run[e])
    BY DEF TypeInv, TypeOK
  <2>2. v \in RunObject /\ PlaceOK(v) /\ run' = [run EXCEPT ![d] = v]
    BY DEF Becomes
  <2>3. ASSUME NEW e \in 1 .. Drivers PROVE PlaceOK(run'[e])
    <3>1. CASE e = d
      BY <2>1, <2>2, <3>1
    <3>2. CASE e # d
      BY <2>1, <2>2, <3>2
    <3> QED BY <3>1, <3>2
  <2> QED BY <2>1, <2>2, <2>3
<1>2. TypeOK'
  BY <1>1 DEF TypeInv, TypeOK, TablesTyped, serviceVars
<1>3. (\A e \in 1 .. Drivers : PlaceOK(run[e]))'
  BY <1>1
<1> QED BY <1>2, <1>3 DEF TypeInv

\* The statements of the store on the steps rows.
LEMMA StepsTyped ==
  ASSUME TypeInv
  PROVE  /\ \A i \in Nodes, s \in StepStates : [steps EXCEPT ![i] = Append(@, s)] \in [Nodes -> Seq(StepStates)]
         /\ \A i \in Nodes, s \in StepStates : \A a \in DOMAIN steps[i] :
              [steps EXCEPT ![i][a] = s] \in [Nodes -> Seq(StepStates)]
<1>1. steps \in [Nodes -> Seq(StepStates)]
  BY DEF TypeInv, TypeOK
<1>2. ASSUME NEW i \in Nodes, NEW s \in StepStates
      PROVE  [steps EXCEPT ![i] = Append(@, s)] \in [Nodes -> Seq(StepStates)]
  <2>1. Append(steps[i], s) \in Seq(StepStates)
    BY <1>1, AppendProperties
  <2> QED BY <1>1, <2>1
<1>3. ASSUME NEW i \in Nodes, NEW s \in StepStates, NEW a \in DOMAIN steps[i]
      PROVE  [steps EXCEPT ![i][a] = s] \in [Nodes -> Seq(StepStates)]
  <2>1. steps[i] \in Seq(StepStates) /\ a \in 1 .. Len(steps[i])
    BY <1>1
  <2>2. [steps[i] EXCEPT ![a] = s] \in Seq(StepStates)
    BY <2>1, ExceptSeq
  <2> QED BY <1>1, <2>2
<1> QED BY <1>2, <1>3

\* record_run_interrupted renames attempts and adds none.
LEMMA MarkKeeps ==
  ASSUME TypeInv, MarkInterrupted
  PROVE  /\ steps' \in [Nodes -> Seq(StepStates)]
         /\ \A i \in Nodes : /\ Len(steps'[i]) = Len(steps[i])
                             /\ \A a \in 1 .. Len(steps[i]) :
                                  steps'[i][a] = IF steps[i][a] = "running" THEN "unknown" ELSE steps[i][a]
<1>1. steps \in [Nodes -> Seq(StepStates)]
  BY DEF TypeInv, TypeOK
<1> DEFINE t(i) == [a \in DOMAIN steps[i] |-> IF steps[i][a] = "running" THEN "unknown" ELSE steps[i][a]]
<1>2. steps' = [i \in Nodes |-> t(i)]
  BY DEF MarkInterrupted
<1>3. ASSUME NEW i \in Nodes
      PROVE  /\ t(i) \in Seq(StepStates) /\ Len(t(i)) = Len(steps[i])
             /\ \A a \in 1 .. Len(steps[i]) :
                  t(i)[a] = IF steps[i][a] = "running" THEN "unknown" ELSE steps[i][a]
  <2> DEFINE s == steps[i]
  <2>1. s \in Seq(StepStates) /\ DOMAIN s = 1 .. Len(s)
    BY <1>1
  <2>2. \A a \in DOMAIN s : t(i)[a] \in StepStates
    BY <2>1 DEF StepStates
  <2>3. t(i) = [a \in DOMAIN s |-> t(i)[a]]
    OBVIOUS
  <2>4. t(i) \in Seq(StepStates) /\ Len(t(i)) = Len(s)
    BY <2>1, <2>2, <2>3, Relabel
  <2> QED BY <2>1, <2>4
<1> HIDE DEF t
<1> QED BY <1>2, <1>3

LEMMA DriverTyped ==
  ASSUME TypeInv, NEW d \in 1 .. Drivers, Drive(d) \/ RemoteLost(d) \/ LossRecorded(d)
  PROVE  TypeInv'
<1>1. /\ row \in RunStates \cup {"none"} /\ steps \in [Nodes -> Seq(StepStates)]
      /\ finished \in [Nodes -> (NodeStates \ {"pending"}) \cup {"none"}]
      /\ run[d] \in RunObject /\ PlaceOK(run[d])
  BY DEF TypeInv, TypeOK
<1>2. ASSUME NEW v, Becomes(d, v), UNCHANGED serviceVars, UNCHANGED tables
      PROVE  TypeInv'
  <2>1. TablesTyped
    BY <1>1, <1>2 DEF TablesTyped, tables
  <2> QED BY <1>2, <2>1, BecomesTyped
<1>3. CASE RunStarted(d)
  <2>1. TablesTyped
    BY <1>1, <1>3 DEF RunStarted, TablesTyped, RunStates
  <2> QED BY <1>3, <2>1, StartedMove, BecomesTyped DEF RunStarted, serviceVars
<1>4. CASE Resolved(d)
  BY <1>2, <1>4, ResolvedMove DEF Resolved, serviceVars
<1>5. CASE Unresolved(d)
  BY <1>2, <1>5, UnresolvedMove DEF Unresolved, serviceVars
<1>6. CASE AttemptStarted(d)
  <2> DEFINE r == run[d]
  <2>5. PlaceOK(r) /\ r.pc = "begin"
    BY <1>1, <1>6 DEF AttemptStarted
  <2>1. r.node \in Nodes
    BY <2>5 DEF PlaceOK, Working
  <2>2. [steps EXCEPT ![run[d].node] = Append(@, "running")] \in [Nodes -> Seq(StepStates)]
    BY <2>1, StepsTyped DEF StepStates
  <2>3. TablesTyped
    BY <1>1, <1>6, <2>2 DEF AttemptStarted, TablesTyped
  <2> QED BY <1>6, <2>3, BegunMove, BecomesTyped DEF AttemptStarted, serviceVars
<1>7. CASE CallEnds(d)
  <2>1. UNCHANGED tables /\ UNCHANGED serviceVars
    BY <1>7 DEF CallEnds, serviceVars
  <2>2. PICK v : Becomes(d, v)
    BY <1>7, EndedMove
  <2> QED BY <1>2, <2>1, <2>2
<1>8. CASE AttemptFinished(d)
  <2>5. PlaceOK(run[d]) /\ run[d].pc = "end"
    BY <1>1, <1>8 DEF AttemptFinished
  <2>1. run[d].node \in Nodes /\ run[d].kind \in Kinds \cup {"unknown"}
    BY <1>1, <2>5 DEF PlaceOK, Working, RunObject
  <2>2. AttemptState(run[d].kind) \in StepStates
    BY <2>1 DEF AttemptState, StepStates, Kinds
  <2>3. steps' \in [Nodes -> Seq(StepStates)]
    BY <1>1, <1>8, <2>1, <2>2, StepsTyped DEF AttemptFinished
  <2>4. TablesTyped
    BY <1>1, <1>8, <2>3 DEF AttemptFinished, TablesTyped
  <2> QED BY <1>8, <2>4, FinishedMove, BecomesTyped DEF AttemptFinished, serviceVars
<1>9. CASE Retry(d)
  BY <1>2, <1>9, RetryMove DEF Retry, serviceVars
<1>10. CASE NodeFinished(d) \/ NodePassed(d)
  <2> DEFINE r == run[d]
  <2>1. /\ r.node \in Nodes /\ r.nodes[r.node] \in NodeStates \ {"pending"}
        /\ finished' = [finished EXCEPT ![r.node] = r.nodes[r.node]] /\ UNCHANGED <<row, steps>>
        /\ UNCHANGED serviceVars
    <3>1. r.pc \in {"finish", "pass"} /\ finished' = [finished EXCEPT ![r.node] = r.nodes[r.node]]
          /\ UNCHANGED <<row, steps>> /\ UNCHANGED serviceVars
      BY <1>10 DEF NodeFinished, NodePassed, serviceVars
    <3>2. r.node \in Nodes /\ r.nodes[r.node] # "pending"
      <4>1. PlaceOK(r)
        BY <1>1
      <4> HIDE DEF r
      <4> QED BY <3>1, <4>1 DEF PlaceOK
    <3>3. r.nodes[r.node] \in NodeStates
      BY <1>1, <3>2 DEF RunObject
    <3> QED BY <3>1, <3>2, <3>3
  <2>2. TablesTyped
    BY <1>1, <2>1 DEF TablesTyped
  <2>3. \E v : Becomes(d, v)
    BY <1>10, NodeMove, PassedMove
  <2> QED BY <2>1, <2>2, <2>3, BecomesTyped
<1>11. CASE RunFinished(d)
  <2>1. PICK v : Becomes(d, v) /\ run[d].state \in RunStates
    BY <1>11, ClosedMove
  <2>2. TablesTyped
    BY <1>1, <1>11, <2>1 DEF RunFinished, TablesTyped
  <2> QED BY <1>11, <2>1, <2>2, BecomesTyped DEF RunFinished, serviceVars
<1>12. CASE StoreFails(d)
  BY <1>2, <1>12, FaultMove DEF StoreFails, serviceVars
<1>13. CASE LossRecorded(d)
  <2>1. MarkInterrupted
    BY <1>13 DEF LossRecorded
  <2>2. steps' \in [Nodes -> Seq(StepStates)]
    BY <2>1, MarkKeeps
  <2>3. TablesTyped
    BY <1>1, <1>13, <2>1, <2>2 DEF LossRecorded, MarkInterrupted, TablesTyped, RunStates
  <2> QED BY <1>13, <2>3, LossMove, BecomesTyped DEF LossRecorded, serviceVars
<1>14. CASE RemoteLost(d)
  <2>1. run' \in [1 .. Drivers -> RunObject] /\ \A e \in 1 .. Drivers : PlaceOK(run'[e])
    BY <1>14, LostMove
  <2>2. UNCHANGED <<tables, current, starting, calls, cancelling, sweep, blind, crashes, cancels>>
    BY <1>14 DEF RemoteLost
  <2>3. TypeOK'
    BY <2>1, <2>2 DEF TypeInv, TypeOK, tables
  <2>4. (\A e \in 1 .. Drivers : PlaceOK(run[e]))'
    BY <2>1
  <2> QED BY <2>3, <2>4 DEF TypeInv
<1> QED
  BY <1>3, <1>4, <1>5, <1>6, <1>7, <1>8, <1>9, <1>10, <1>11, <1>12, <1>13, <1>14 DEF Drive

\* A new object takes a free place.
LEMMA LaunchTyped ==
  ASSUME TypeInv, NEW r \in RunObject, PlaceOK(r), Launch(r)
  PROVE  /\ current' \in 1 .. Drivers /\ current' \notin Active
         /\ run' = [run EXCEPT ![current'] = r]
         /\ run' \in [1 .. Drivers -> RunObject]
         /\ \A e \in 1 .. Drivers : PlaceOK(run'[e])
<1>1. run \in [1 .. Drivers -> RunObject] /\ \A e \in 1 .. Drivers : PlaceOK(run[e])
  BY DEF TypeInv, TypeOK
<1>2. Free \in SUBSET Nat /\ Free # {} /\ Free \subseteq 1 .. Drivers /\ Free \cap Active = {}
  BY FlowAssumption DEF Free, Launch
<1>3. Min(Free) \in Free
  BY <1>2, LeastIn
<1>4. current' = Min(Free) /\ run' = [run EXCEPT ![Min(Free)] = r]
  BY DEF Launch
<1> QED BY <1>1, <1>2, <1>3, <1>4

\* The node states and the attempts that a rebuilt run starts with (_rebuild_run).
LEMMA ResumedTyped ==
  ASSUME TypeInv, NEW again \in SUBSET Nodes
  PROVE  Resumed(again) \in RunObject /\ PlaceOK(Resumed(again))
<1>1. \A i \in Nodes : Rebuilt(i) \in NodeStates
  BY DEF Rebuilt, TypeInv, TypeOK, NodeStates
<1>2. \A i \in Nodes : Len(steps[i]) \in Nat
  BY DEF TypeInv, TypeOK
<1>3. [i \in Nodes |-> IF i \in again THEN "pending" ELSE Rebuilt(i)] \in [Nodes -> NodeStates]
  BY <1>1 DEF NodeStates
<1>4. [i \in Nodes |-> Len(steps[i])] \in [Nodes -> Nat]
  BY <1>2
<1> QED BY <1>3, <1>4, NewRunTyped DEF Resumed

LEMMA CallTyped ==
  ASSUME TypeInv, Start \/ Started \/ Cancel \/ Cancelled
  PROVE  TypeInv'
<1> USE DEF TypeInv
<1>1. CASE Start
  BY <1>1 DEF Start, TypeOK, RunStates
<1>2. CASE Started
  <2> DEFINE r == NewRun([i \in Nodes |-> "pending"], [i \in Nodes |-> 0])
  <2>1. r \in RunObject /\ PlaceOK(r)
    BY NewRunTyped DEF NodeStates
  <2>2. Launch(r)
    BY <1>2 DEF Started
  <2> HIDE DEF r
  <2>3. /\ current' \in 1 .. Drivers /\ run' \in [1 .. Drivers -> RunObject]
        /\ \A e \in 1 .. Drivers : PlaceOK(run'[e])
    BY <2>1, <2>2, LaunchTyped
  <2>4. TypeOK'
    <3>1. starting' = FALSE /\ UNCHANGED <<row, steps, finished, calls, cancelling, sweep, blind, crashes, cancels>>
      BY <1>2 DEF Started, tables
    <3>2. starting' \in BOOLEAN
      BY <3>1
    <3>3. UNCHANGED <<row, steps, finished, calls, cancelling, sweep, blind, crashes, cancels>>
      BY <3>1
    <3> QED BY <2>3, <3>2, <3>3, FlowAssumption DEF TypeOK
  <2> QED BY <2>3, <2>4
<1>3. CASE Cancel
  BY <1>3, FlowAssumption DEF Cancel, TypeOK, tables
<1>4. CASE Cancelled
  <2>1. run' \in [1 .. Drivers -> RunObject] /\ \A e \in 1 .. Drivers : PlaceOK(run'[e])
    <3>1. CASE run' = run
      BY <3>1 DEF TypeOK
    <3>2. CASE cancelling \in Active /\ run' = [run EXCEPT ![cancelling].cancelled = TRUE]
      <4> DEFINE c == run[cancelling]
                 v == [c EXCEPT !.cancelled = TRUE]
      <4>1. c \in RunObject /\ PlaceOK(c) /\ cancelling \in 1 .. Drivers
        BY <3>2 DEF Active, TypeOK
      <4>2. v \in RunObject
        BY <4>1 DEF RunObject
      <4>3. /\ v.pc = c.pc /\ v.node = c.node /\ v.nodes = c.nodes /\ v.left = c.left
            /\ v.attempt = c.attempt /\ v.kind = c.kind /\ v.telling = c.telling
        BY <4>1 DEF RunObject
      <4>4. run' = [run EXCEPT ![cancelling] = v]
        BY <3>2
      <4> HIDE DEF c, v
      <4>5. PlaceOK(v)
        BY <4>1, <4>3 DEF PlaceOK
      <4> QED BY <4>1, <4>2, <4>4, <4>5 DEF TypeOK
    <3> QED BY <1>4, <3>1, <3>2 DEF Cancelled
  <2>2. TypeOK'
    BY <1>4, <2>1, FlowAssumption DEF Cancelled, TypeOK, tables
  <2> QED BY <2>1, <2>2
<1> QED BY <1>1, <1>2, <1>3, <1>4

LEMMA ResumeTyped ==
  ASSUME TypeInv, NEW c \in 1 .. ResumeBound, NEW mode \in {"retry", "skip", "abort"},
         ResumeStep(c) \/ Resume(c, mode)
  PROVE  TypeInv'
<1> USE DEF TypeInv
<1>1. CASE Resume(c, mode)
  BY <1>1 DEF Resume, TypeOK, tables
<1>2. CASE ResumeRun(c)
  <2>1. Resumed(Unknown) \in RunObject /\ PlaceOK(Resumed(Unknown)) /\ Launch(Resumed(Unknown))
    BY <1>2, ResumedTyped DEF ResumeRun, Unknown
  <2>2. /\ current' \in 1 .. Drivers /\ run' \in [1 .. Drivers -> RunObject]
        /\ \A e \in 1 .. Drivers : PlaceOK(run'[e])
    BY <2>1, LaunchTyped
  <2>3. TypeOK'
    BY <1>2, <2>2, FlowAssumption DEF ResumeRun, TypeOK, tables
  <2> QED BY <2>2, <2>3
<1>3. CASE ResumeSkip(c)
  <2>1. finished' \in [Nodes -> (NodeStates \ {"pending"}) \cup {"none"}]
    BY <1>3 DEF ResumeSkip, TypeOK, NodeStates
  <2> QED BY <1>3, <2>1 DEF ResumeSkip, TypeOK
<1>4. CASE ResumeAbort(c)
  BY <1>4 DEF ResumeAbort, TypeOK, RunStates, Final
<1>5. CASE ResumeFails(c)
  BY <1>5 DEF ResumeFails, TypeOK, tables
<1> QED BY <1>1, <1>2, <1>3, <1>4, <1>5 DEF ResumeStep

\* The end of the process leaves no object and the lengths of the steps rows.
LEMMA LostMemory ==
  ASSUME TypeInv, LoseMemory
  PROVE  /\ run' \in [1 .. Drivers -> RunObject]
         /\ \A e \in 1 .. Drivers : PlaceOK(run'[e]) /\ run'[e].pc = "none"
         /\ blind' \subseteq Nodes
<1>1. run' \in [1 .. Drivers -> RunObject] /\ \A e \in 1 .. Drivers : PlaceOK(run'[e]) /\ run'[e].pc = "none"
  <2>1. run' = [e \in 1 .. Drivers |-> NoRun]
    BY DEF LoseMemory
  <2> QED BY <2>1, NoRunTyped
<1>2. ASSUME NEW d \in 1 .. Drivers, run[d].pc \in {"call", "end"} PROVE run[d].node \in Nodes
  <2> DEFINE r == run[d]
  <2>1. PlaceOK(r)
    BY DEF TypeInv
  <2> HIDE DEF r
  <2>2. r.pc \in {"call", "end"} => r.node \in Nodes
    BY <2>1 DEF PlaceOK, Working
  <2> QED BY <1>2, <2>2 DEF r
<1>3. blind' \subseteq Nodes
  BY <1>2 DEF LoseMemory, Active, TypeInv, TypeOK
<1> QED BY <1>1, <1>3

LEMMA CleanupKeeps ==
  ASSUME TypeInv, Cleanup
  PROVE  /\ steps' \in [Nodes -> Seq(StepStates)]
         /\ \A i \in Nodes : Len(steps'[i]) = Len(steps[i])
<1>1. steps \in [Nodes -> Seq(StepStates)]
  BY DEF TypeInv, TypeOK
<1> DEFINE called == {d \in Active : run[d].pc = "call"}
           t(i) == [a \in DOMAIN steps[i] |-> IF \E d \in called : run[d].node = i /\ run[d].attempt = a
                                             THEN "unknown" ELSE steps[i][a]]
<1>2. steps' = [i \in Nodes |-> t(i)]
  BY DEF Cleanup
<1>3. ASSUME NEW i \in Nodes
      PROVE  t(i) \in Seq(StepStates) /\ Len(t(i)) = Len(steps[i])
  <2> DEFINE s == steps[i]
  <2>1. s \in Seq(StepStates) /\ DOMAIN s = 1 .. Len(s)
    BY <1>1
  <2> HIDE DEF called
  <2>2. \A a \in DOMAIN s : t(i)[a] \in StepStates
    BY <2>1 DEF StepStates
  <2>3. t(i) = [a \in DOMAIN s |-> t(i)[a]]
    OBVIOUS
  <2> QED BY <2>1, <2>2, <2>3, Relabel
<1> HIDE DEF t
<1> QED BY <1>2, <1>3

LEMMA RestartTyped ==
  ASSUME TypeInv, Crash \/ Cleanup
  PROVE  TypeInv'
<1>1. LoseMemory
  BY DEF Crash, Cleanup
<1>2. /\ run' \in [1 .. Drivers -> RunObject] /\ \A e \in 1 .. Drivers : PlaceOK(run'[e])
      /\ blind' \subseteq Nodes
  BY <1>1, LostMemory
<1>3. steps' \in [Nodes -> Seq(StepStates)]
  BY CleanupKeeps DEF Crash, TypeInv, TypeOK
<1>4. /\ calls' \in [1 .. ResumeBound -> {"unused", "retry", "skip", "skipped", "abort", "done"}]
      /\ crashes' \in 0 .. CrashBound
  BY <1>1, FlowAssumption DEF LoseMemory, TypeInv, TypeOK
<1>5. current' = 0 /\ cancelling' = 0 /\ sweep' = "waiting" /\ UNCHANGED <<row, finished, cancels>>
  BY <1>1 DEF LoseMemory
<1>7. starting' \in BOOLEAN
  BY <1>1, Zenon DEF LoseMemory
<1>6. TypeOK'
  BY <1>2, <1>3, <1>4, <1>5, <1>7, FlowAssumption DEF TypeInv, TypeOK
<1> QED BY <1>2, <1>6 DEF TypeInv

LEMMA SweepTyped ==
  ASSUME TypeInv, Recover
  PROVE  TypeInv'
<1> USE DEF TypeInv
<1>1. CASE SweepNothing \/ SweepDoubt \/ SweepFails
  BY <1>1 DEF SweepNothing, SweepDoubt, SweepFails, TypeOK, tables
<1>2. CASE SweepResume
  <2>1. Resumed(CutOff) \in RunObject /\ PlaceOK(Resumed(CutOff)) /\ Launch(Resumed(CutOff))
    BY <1>2, ResumedTyped DEF SweepResume, CutOff
  <2>2. /\ current' \in 1 .. Drivers /\ run' \in [1 .. Drivers -> RunObject]
        /\ \A e \in 1 .. Drivers : PlaceOK(run'[e])
    BY <2>1, LaunchTyped
  <2>3. TypeOK'
    BY <1>2, <2>2, FlowAssumption DEF SweepResume, TypeOK, tables
  <2> QED BY <2>2, <2>3
<1>3. CASE SweepMark
  <2>1. steps' \in [Nodes -> Seq(StepStates)]
    BY <1>3, MarkKeeps DEF SweepMark
  <2> QED BY <1>3, <2>1 DEF SweepMark, MarkInterrupted, TypeOK, RunStates
<1> QED BY <1>1, <1>2, <1>3 DEF Recover

LEMMA InitTyped == Init => TypeInv
<1> SUFFICES ASSUME Init PROVE TypeInv
  OBVIOUS
<1>1. run \in [1 .. Drivers -> RunObject] /\ \A d \in 1 .. Drivers : PlaceOK(run[d])
  BY NoRunTyped DEF Init
<1>2. << >> \in Seq(StepStates)
  OBVIOUS
<1>3. TypeOK
  <2>1. starting \in BOOLEAN
    BY Zenon DEF Init
  <2>2. /\ row = "none" /\ current = 0 /\ cancelling = 0 /\ sweep = "waiting" /\ blind = {} /\ crashes = 0 /\ cancels = 0
        /\ steps = [i \in Nodes |-> << >>] /\ finished = [i \in Nodes |-> "none"]
        /\ calls = [c \in 1 .. ResumeBound |-> "unused"]
    BY DEF Init
  <2> QED BY <1>1, <1>2, <2>1, <2>2, FlowAssumption DEF TypeOK, RunStates
<1> QED BY <1>1, <1>3 DEF TypeInv

LEMMA StepTyped == TypeInv /\ [Next]_vars => TypeInv'
<1> SUFFICES ASSUME TypeInv, [Next]_vars
             PROVE  TypeInv'
  OBVIOUS
<1>1. ASSUME NEW d \in 1 .. Drivers, Drive(d) \/ RemoteLost(d) \/ LossRecorded(d)
      PROVE  TypeInv'
  BY <1>1, DriverTyped
<1>2. CASE Start \/ Started \/ Cancel \/ Cancelled
  BY <1>2, CallTyped
<1>3. ASSUME NEW c \in DOMAIN calls, NEW mode \in {"retry", "skip", "abort"},
             ResumeStep(c) \/ Resume(c, mode)
      PROVE  TypeInv'
  <2>1. c \in 1 .. ResumeBound
    BY DEF TypeInv, TypeOK
  <2> QED BY <1>3, <2>1, ResumeTyped
<1>4. CASE Crash \/ Cleanup
  BY <1>4, RestartTyped
<1>5. CASE Recover
  BY <1>5, SweepTyped
<1>6. CASE UNCHANGED vars
  BY <1>6 DEF vars, tables, TypeInv, TypeOK
<1> QED
  BY <1>1, <1>2, <1>3, <1>4, <1>5, <1>6 DEF Next

\* Every variable keeps its type, with any callers (executor.py, service.py, store.py).
THEOREM TypeCorrect == Spec => []TypeOK
<1>1. TypeInv => TypeOK
  BY DEF TypeInv
<1> QED BY <1>1, InitTyped, StepTyped, PTL DEF Spec

-----------------------------------------------------------------------------
(* What the tables say of the run, and what its driver knows of them *)

\* Nodes whose end is not known.
Open == {i \in Nodes : finished[i] \in {"none", "unknown"}}

\* The attempts of a driver follow those of the steps rows st.
AttemptOK(r, st) ==
  /\ \A i \in Nodes : r.base[i] <= Len(st[i])
  /\ r.pc = "begin" => r.attempt <= Len(st[r.node]) + 1
  /\ r.pc = "call" => /\ r.attempt = Len(st[r.node])
                      /\ st[r.node][r.attempt] \in {"running", "unknown"}
  /\ r.pc = "end" /\ r.kind # "unknown" => r.attempt <= Len(st[r.node])
  /\ r.pc = "sleep" => r.attempt <= Len(st[r.node])

\* The driver knows the ends ns of nodes, and records only ends that are not known.
Matches(r, ns) ==
  /\ \A i \in Nodes : ns[i] \in {"none", "unknown", r.nodes[i]}
  /\ r.pc \in {"finish", "pass"} => ns[r.node] \in {"none", "unknown"}

\* Before the run exists or its first task, nothing is known of its nodes.
Fresh ==
  row = "none" \/ starting => /\ blind = {}
                              /\ \A i \in Nodes : finished[i] = "none" /\ Len(steps[i]) = 0

\* A step in doubt has an attempt and no end, and whoever drives the run passes over it.
BlindOK ==
  /\ Resuming # {} => blind = {}
  /\ \A i \in blind \ Idempotent :
       /\ i \in Open /\ Len(steps[i]) > 0
       /\ \A d \in Active : /\ run[d].nodes[i] = "unknown"
                            /\ run[d].pc \in {"finish", "pass"} => run[d].node # i

Written ==
  /\ TypeInv /\ Serial
  /\ Fresh /\ BlindOK
  /\ \A d \in Active : AttemptOK(run[d], steps) /\ Matches(run[d], finished)

\* What a step of driver d does to its object and to the tables.
Effect(d) ==
  LET r == run[d]
      v == run'[d]
  IN  /\ v.pc # "over" =>
           /\ AttemptOK(v, steps') /\ Matches(v, finished')
           /\ \A i \in Nodes : r.nodes[i] # "pending" => v.nodes[i] = r.nodes[i]
           /\ v.pc \in {"finish", "pass"} => r.nodes[v.node] = "pending"
      /\ \A i \in Nodes : /\ Len(steps'[i]) >= Len(steps[i])
                          /\ r.nodes[i] # "pending" => Len(steps'[i]) = Len(steps[i])
      /\ \A i \in Nodes : finished'[i] = finished[i] \/ (i = r.node /\ r.pc \in {"finish", "pass"})

Known(r) == r \in RunObject /\ PlaceOK(r) /\ AttemptOK(r, steps) /\ Matches(r, finished)

\* The loop goes on, with the ends it has recorded.
LEMMA WentKeeps ==
  ASSUME NEW r \in RunObject, NEW i \in 1 .. N + 1, NEW v, Went(r, i, v),
         NEW ns \in [Nodes -> (NodeStates \ {"pending"}) \cup {"none"}],
         \A k \in Nodes : ns[k] \in {"none", "unknown", r.nodes[k]},
         NEW st, \A k \in Nodes : r.base[k] <= Len(st[k])
  PROVE  /\ AttemptOK(v, st) /\ Matches(v, ns)
         /\ \A k \in Nodes : r.nodes[k] # "pending" => v.nodes[k] = r.nodes[k]
         /\ v.pc \in {"finish", "pass"} => r.nodes[v.node] = "pending"
<1>1. AttemptOK(v, st)
  BY DEF AttemptOK, Went, SameRun
<1>2. r.nodes \in [Nodes -> NodeStates]
  BY DEF RunObject
<1>3. CASE v.pc \in {"close", "resolve"} /\ v.nodes = r.nodes
  BY <1>1, <1>3 DEF Matches
<1>4. CASE /\ v.pc = "pass" /\ v.node \in Nodes /\ r.nodes[v.node] = "pending"
           /\ \E s \in {"skipped", "cancelled"} : v.nodes = [r.nodes EXCEPT ![v.node] = s]
  <2>1. \A k \in Nodes : k # v.node => v.nodes[k] = r.nodes[k]
    BY <1>2, <1>4
  <2>2. ns[v.node] \in {"none", "unknown"}
    BY <1>4
  <2>3. Matches(v, ns)
    BY <2>1, <2>2 DEF Matches
  <2> QED BY <1>1, <1>4, <2>1, <2>3
<1> QED BY <1>3, <1>4 DEF Went

LEMMA DriverEffect ==
  ASSUME Written, NEW d \in 1 .. Drivers, Drive(d) \/ RemoteLost(d) \/ LossRecorded(d)
  PROVE  Effect(d)
<1> DEFINE r == run[d]
           v == run'[d]
<1>1. d \in Active /\ Active = {d}
  BY DriverStep DEF Written, Serial, OneDriver
<1>2. Known(r)
  BY <1>1 DEF Known, Written, TypeInv, TypeOK
<1>3. /\ finished \in [Nodes -> (NodeStates \ {"pending"}) \cup {"none"}]
      /\ steps \in [Nodes -> Seq(StepStates)]
      /\ run \in [1 .. Drivers -> RunObject]
  BY DEF Written, TypeInv, TypeOK
<1>4. r.nodes \in [Nodes -> NodeStates] /\ r.base \in [Nodes -> Nat] /\ r.attempt \in Nat
  BY <1>2 DEF Known, RunObject
<1>5. \A i \in Nodes : Len(steps[i]) \in Nat
  BY <1>3
<1>6. \A w : Becomes(d, w) => v = w
  BY <1>3 DEF Becomes
\* Steps that leave the tables alone.
<1>7. ASSUME UNCHANGED <<steps, finished>>, AttemptOK(v, steps), Matches(v, finished),
             \A i \in Nodes : r.nodes[i] # "pending" => v.nodes[i] = r.nodes[i],
             v.pc \in {"finish", "pass"} => r.nodes[v.node] = "pending"
      PROVE  Effect(d)
  BY <1>5, <1>7 DEF Effect
<1>8. CASE RunStarted(d)
  <2>1. Went(r, 1, v)
    BY <1>6, <1>8, StartedMove DEF Written
  <2>2. UNCHANGED <<steps, finished>>
    BY <1>8 DEF RunStarted
  <2>3. 1 \in 1 .. N + 1
    BY FlowAssumption
  <2>4. \A k \in Nodes : finished[k] \in {"none", "unknown", r.nodes[k]} /\ r.base[k] <= Len(steps[k])
    BY <1>2 DEF Known, Matches, AttemptOK
  <2> HIDE DEF r, v
  <2>5. /\ AttemptOK(v, steps) /\ Matches(v, finished)
        /\ \A k \in Nodes : r.nodes[k] # "pending" => v.nodes[k] = r.nodes[k]
        /\ v.pc \in {"finish", "pass"} => r.nodes[v.node] = "pending"
    BY <1>2, <1>3, <2>1, <2>3, <2>4, WentKeeps DEF Known
  <2> QED BY <1>7, <2>2, <2>5 DEF r, v
<1>9. CASE Resolved(d)
  <2>1. /\ SameRun(r, v) /\ SameNode(r, v)
        /\ v.pc = "begin" /\ v.attempt = v.base[v.node] + 1
    BY <1>6, <1>9, ResolvedMove DEF Written
  <2>2. UNCHANGED <<steps, finished>> /\ r.pc = "resolve"
    BY <1>9 DEF Resolved, tables
  <2> HIDE DEF r, v
  <2>3. r.node \in Nodes
    BY <1>2, <2>2 DEF Known, PlaceOK, Working
  <2>4. AttemptOK(v, steps) /\ Matches(v, finished)
    BY <1>2, <1>4, <1>5, <2>1, <2>3 DEF Known, AttemptOK, Matches, SameRun, SameNode
  <2> QED BY <1>7, <2>1, <2>2, <2>4 DEF r, v, SameNode
<1>10. CASE Unresolved(d)
  <2>1. PICK e \in {"failed", "skipped"} :
          SameRun(r, v) /\ v.node = r.node /\ v.pc = "finish" /\ v.nodes = [r.nodes EXCEPT ![r.node] = e]
    BY <1>6, <1>10, UnresolvedMove DEF Written
  <2>2. UNCHANGED <<steps, finished>> /\ r.pc = "resolve"
    BY <1>10 DEF Unresolved, tables
  <2> HIDE DEF r, v
  <2>3. r.node \in Nodes /\ r.nodes[r.node] = "pending"
    BY <1>2, <2>2 DEF Known, PlaceOK, Working
  <2>4. finished[r.node] \in {"none", "unknown"}
    BY <1>2, <1>3, <2>3 DEF Known, Matches
  <2>5. \A k \in Nodes : k # r.node => v.nodes[k] = r.nodes[k]
    BY <1>4, <2>1
  <2>6. AttemptOK(v, steps) /\ Matches(v, finished)
    BY <1>2, <2>1, <2>4, <2>5 DEF Known, AttemptOK, Matches, SameRun
  <2> QED BY <1>7, <2>1, <2>2, <2>3, <2>5, <2>6 DEF r, v
<1>11. CASE AttemptStarted(d)
  <2>1. /\ SameRun(r, v) /\ SameNode(r, v) /\ v.attempt = r.attempt
        /\ IF r.attempt > Len(steps[r.node]) THEN v.pc = "call" ELSE v.pc = "end" /\ v.kind = "unknown"
    BY <1>6, <1>11, BegunMove DEF Written
  <2>2. /\ r.pc = "begin" /\ finished' = finished
        /\ steps' = IF r.attempt > Len(steps[r.node]) THEN [steps EXCEPT ![r.node] = Append(@, "running")] ELSE steps
    BY <1>11 DEF AttemptStarted
  <2> HIDE DEF r, v
  <2>3. r.node \in Nodes /\ r.nodes[r.node] = "pending"
    BY <1>2, <2>2 DEF Known, PlaceOK, Working
  <2>4. r.attempt <= Len(steps[r.node]) + 1
    BY <1>2, <2>2 DEF Known, AttemptOK
  <2>5. CASE r.attempt > Len(steps[r.node])
    <3> DEFINE n == Len(steps[r.node])
    <3>1. r.attempt = n + 1 /\ n \in Nat
      BY <1>4, <1>5, <2>3, <2>4, <2>5
    <3>2. steps[r.node] \in Seq(StepStates) /\ "running" \in StepStates
      BY <1>3, <2>3 DEF StepStates
    <3>3. Len(Append(steps[r.node], "running")) = n + 1 /\ Append(steps[r.node], "running")[n + 1] = "running"
      BY <3>2, AppendProperties
    <3>4. /\ \A k \in Nodes : k # r.node => steps'[k] = steps[k]
          /\ steps'[r.node] = Append(steps[r.node], "running")
      BY <1>3, <2>2, <2>3, <2>5
    <3>5. \A k \in Nodes : Len(steps'[k]) >= Len(steps[k]) /\ (k # r.node => Len(steps'[k]) = Len(steps[k]))
      BY <1>5, <3>1, <3>3, <3>4
    <3>6. \A k \in Nodes : r.base[k] <= Len(steps[k])
      BY <1>2 DEF Known, AttemptOK
    <3>7. \A k \in Nodes : r.base[k] <= Len(steps'[k])
      <4>1. ASSUME NEW k \in Nodes PROVE r.base[k] <= Len(steps'[k])
        <5>1. r.base[k] <= Len(steps[k]) /\ Len(steps'[k]) >= Len(steps[k]) /\ r.base[k] \in Nat /\ Len(steps[k]) \in Nat
          BY <1>4, <1>5, <3>5, <3>6
        <5>2. Len(steps'[k]) \in Nat
          BY <1>5, <3>1, <3>3, <3>4
        <5> QED BY <5>1, <5>2
      <4> QED BY <4>1
    <3>8. AttemptOK(v, steps')
      BY <2>1, <2>5, <3>1, <3>3, <3>4, <3>7 DEF AttemptOK, SameRun, SameNode
    <3>9. Matches(v, finished')
      BY <1>2, <2>1, <2>2, <2>5 DEF Known, Matches, SameNode
    <3> QED BY <2>1, <2>2, <2>3, <2>5, <3>5, <3>8, <3>9 DEF Effect, r, v, SameNode
  <2>6. CASE ~(r.attempt > Len(steps[r.node]))
    <3>1. AttemptOK(v, steps) /\ Matches(v, finished)
      BY <1>2, <2>1, <2>6 DEF Known, AttemptOK, Matches, SameRun, SameNode
    <3> QED BY <1>7, <2>1, <2>2, <2>6, <3>1 DEF r, v, SameNode
  <2> QED BY <2>5, <2>6
<1>12. CASE CallEnds(d)
  <2>1. SameNode(r, v) /\ v.attempt = r.attempt /\ v.base = r.base /\ v.pc = "end"
    BY <1>6, <1>12, EndedMove DEF Written
  <2>2. r.pc = "call" /\ UNCHANGED <<steps, finished>>
    BY <1>12 DEF CallEnds, tables
  <2> HIDE DEF r, v
  <2>3. r.node \in Nodes
    BY <1>2, <2>2 DEF Known, PlaceOK, Working
  <2>4. AttemptOK(v, steps) /\ Matches(v, finished)
    BY <1>2, <1>4, <1>5, <2>1, <2>2, <2>3 DEF Known, AttemptOK, Matches, SameNode
  <2> QED BY <1>7, <2>1, <2>2, <2>4 DEF r, v, SameNode
<1>13. CASE AttemptFinished(d)
  <2>1. IF r.kind = "unknown" THEN GivesUp(r, v) ELSE Tried(r, v)
    BY <1>6, <1>13, FinishedMove DEF Written
  <2>2. /\ r.pc = "end" /\ finished' = finished
        /\ steps' = IF r.attempt \in DOMAIN steps[r.node]
                   THEN [steps EXCEPT ![r.node][r.attempt] = AttemptState(r.kind)] ELSE steps
    BY <1>13 DEF AttemptFinished
  <2> HIDE DEF r, v
  <2>3. r.node \in Nodes /\ r.nodes[r.node] = "pending"
    BY <1>2, <2>2 DEF Known, PlaceOK, Working
  <2>4. \A k \in Nodes : Len(steps'[k]) = Len(steps[k])
    BY <1>3, <2>2
  <2>5. finished[r.node] \in {"none", "unknown"}
    BY <1>2, <1>3, <2>3 DEF Known, Matches
  <2>6. CASE r.kind = "unknown"
    <3>1. v.pc = "close" /\ v.nodes = r.nodes /\ v.base = r.base
      BY <2>1, <2>6 DEF GivesUp, SameNode
    <3>2. AttemptOK(v, steps') /\ Matches(v, finished')
      BY <1>2, <2>2, <2>4, <3>1 DEF Known, AttemptOK, Matches
    <3> QED BY <1>5, <2>2, <2>4, <3>1, <3>2 DEF Effect, r, v
  <2>7. CASE r.kind # "unknown"
    <3>1. r.attempt <= Len(steps[r.node])
      BY <1>2, <2>2, <2>7 DEF Known, AttemptOK
    <3>2. CASE v.pc = "finish" /\ \E e \in NodeStates \ {"pending"} : v.nodes = [r.nodes EXCEPT ![r.node] = e]
      <4>1. \A k \in Nodes : k # r.node => v.nodes[k] = r.nodes[k]
        BY <1>4, <3>2
      <4>2. v.node = r.node /\ v.base = r.base
        BY <2>1, <2>7 DEF Tried, SameRun
      <4>3. AttemptOK(v, steps') /\ Matches(v, finished')
        BY <1>2, <2>2, <2>4, <2>5, <3>2, <4>1, <4>2 DEF Known, AttemptOK, Matches
      <4> QED BY <1>5, <2>2, <2>3, <2>4, <3>2, <4>1, <4>2, <4>3 DEF Effect, r, v
    <3>3. CASE /\ v.pc \in {"sleep", "begin"} /\ v.nodes = r.nodes
               /\ v.attempt = IF v.pc = "sleep" THEN r.attempt ELSE r.attempt + 1
      <4>1. v.node = r.node /\ v.base = r.base
        BY <2>1, <2>7 DEF Tried, SameRun
      <4>2. AttemptOK(v, steps') /\ Matches(v, finished')
        BY <1>2, <1>4, <1>5, <2>2, <2>3, <2>4, <3>1, <3>3, <4>1 DEF Known, AttemptOK, Matches
      <4> QED BY <1>5, <2>2, <2>4, <3>3, <4>2 DEF Effect, r, v
    <3> QED BY <2>1, <2>7, <3>2, <3>3 DEF Tried
  <2> QED BY <2>6, <2>7
<1>14. CASE Retry(d)
  <2>1. SameRun(r, v) /\ SameNode(r, v) /\ v.pc = "begin" /\ v.attempt = r.attempt + 1
    BY <1>6, <1>14, RetryMove DEF Written
  <2>2. r.pc = "sleep" /\ UNCHANGED <<steps, finished>>
    BY <1>14 DEF Retry, tables
  <2> HIDE DEF r, v
  <2>3. r.node \in Nodes
    BY <1>2, <2>2 DEF Known, PlaceOK, Working
  <2>4. AttemptOK(v, steps) /\ Matches(v, finished)
    BY <1>2, <1>4, <1>5, <2>1, <2>2, <2>3 DEF Known, AttemptOK, Matches, SameNode, SameRun
  <2> QED BY <1>7, <2>1, <2>2, <2>4 DEF r, v, SameNode
<1>15. CASE NodeFinished(d) \/ NodePassed(d)
  <2> DEFINE fails == r.node \in Required
                        /\ (r.nodes[r.node] = "failed" \/ (r.nodes[r.node] = "cancelled" /\ ~r.cancelled))
             s == [r EXCEPT !.failed = @ \/ fails]
  <2>1. /\ r.pc \in {"finish", "pass"} /\ steps' = steps
        /\ finished' = [finished EXCEPT ![r.node] = r.nodes[r.node]]
    BY <1>15 DEF NodeFinished, NodePassed
  <2>2. \/ SameRun(r, v) /\ SameNode(r, v) /\ v.pc = "close"
        \/ Went(s, r.node + 1, v)
        \/ Went(r, r.node + 1, v)
    <3>1. CASE NodeFinished(d)
      BY <1>6, <3>1, NodeMove DEF Written
    <3>2. CASE NodePassed(d)
      BY <1>6, <3>2, PassedMove DEF Written
    <3> QED BY <1>15, <3>1, <3>2
  <2>3. fails \in BOOLEAN
    <3>1. CASE fails
      BY <3>1
    <3>2. CASE ~fails
      BY <3>2
    <3> QED BY <3>1, <3>2
  <2> HIDE DEF r, v, fails
  <2>4. r.node \in Nodes /\ r.node + 1 \in 1 .. N + 1
    <3>1. r.node \in Nodes
      BY <1>2, <2>1 DEF Known, PlaceOK
    <3> QED BY <3>1, FlowAssumption DEF Nodes
  <2>5. r.nodes[r.node] \in NodeStates \ {"pending"}
    BY <1>2, <1>4, <2>1, <2>4 DEF Known, PlaceOK
  <2>6. finished' \in [Nodes -> (NodeStates \ {"pending"}) \cup {"none"}]
    BY <1>3, <2>1, <2>4, <2>5
  <2>7. \A k \in Nodes : finished'[k] \in {"none", "unknown", r.nodes[k]} /\ r.base[k] <= Len(steps[k])
    BY <1>2, <1>3, <2>1, <2>4 DEF Known, Matches, AttemptOK
  <2>8. \A k \in Nodes : finished'[k] = finished[k] \/ k = r.node
    BY <1>3, <2>1
  <2>9. s \in RunObject /\ s.nodes = r.nodes /\ s.base = r.base
    BY <1>2, <2>3 DEF Known, RunObject
  <2> HIDE DEF s
  <2>10. /\ AttemptOK(v, steps) /\ Matches(v, finished')
         /\ \A k \in Nodes : r.nodes[k] # "pending" => v.nodes[k] = r.nodes[k]
         /\ v.pc \in {"finish", "pass"} => r.nodes[v.node] = "pending"
    <3>1. CASE SameRun(r, v) /\ SameNode(r, v) /\ v.pc = "close"
      BY <2>7, <3>1 DEF AttemptOK, Matches, SameRun, SameNode
    <3>2. CASE Went(s, r.node + 1, v)
      BY <2>4, <2>6, <2>7, <2>9, <3>2, WentKeeps
    <3>3. CASE Went(r, r.node + 1, v)
      BY <1>2, <2>4, <2>6, <2>7, <3>3, WentKeeps DEF Known
    <3> QED BY <2>2, <3>1, <3>2, <3>3
  <2> QED BY <1>5, <2>1, <2>8, <2>10 DEF Effect, r, v
<1>16. CASE RunFinished(d)
  <2>1. v.pc = "over" /\ UNCHANGED <<steps, finished>>
    BY <1>6, <1>16, ClosedMove DEF Written, RunFinished
  <2> QED BY <1>5, <2>1 DEF Effect
<1>17. CASE StoreFails(d)
  <2>1. \/ /\ r.pc = "call" /\ v.pc = "call" /\ SameNode(r, v) /\ v.attempt = r.attempt /\ v.base = r.base
        \/ v.pc = "over"
        \/ v.pc = "end" /\ v.kind = "unknown" /\ SameRun(r, v) /\ SameNode(r, v)
        \/ GivesUp(r, v)
    BY <1>6, <1>17, FaultMove DEF Written
  <2>2. UNCHANGED <<steps, finished>>
    BY <1>17 DEF StoreFails, tables
  <2> HIDE DEF r, v
  <2>3. CASE v.pc = "over"
    BY <1>5, <2>2, <2>3 DEF Effect, r, v
  <2>4. CASE v.pc # "over"
    <3>1. v.nodes = r.nodes /\ v.base = r.base /\ v.pc \notin {"finish", "pass"}
      BY <2>1, <2>4 DEF SameNode, SameRun, GivesUp
    <3>2. AttemptOK(v, steps) /\ Matches(v, finished)
      BY <1>2, <2>1, <2>4, <3>1 DEF Known, AttemptOK, Matches, SameNode, GivesUp
    <3> QED BY <1>7, <2>2, <3>1, <3>2 DEF r, v
  <2> QED BY <2>3, <2>4
<1>18. CASE LossRecorded(d)
  <2>1. SameNode(r, v) /\ v.pc = "call" /\ v.attempt = r.attempt /\ v.base = r.base
    BY <1>6, <1>18, LossMove DEF Written
  <2>2. r.pc = "call" /\ finished' = finished /\ MarkInterrupted
    BY <1>18 DEF LossRecorded
  <2> HIDE DEF r, v
  <2>3. r.node \in Nodes /\ r.attempt > 0
    BY <1>2, <2>2 DEF Known, PlaceOK, Working, Trying
  <2>4. \A i \in Nodes : /\ Len(steps'[i]) = Len(steps[i])
                         /\ \A a \in 1 .. Len(steps[i]) :
                              steps'[i][a] = IF steps[i][a] = "running" THEN "unknown" ELSE steps[i][a]
    BY <2>2, MarkKeeps DEF Written
  <2>5. r.attempt = Len(steps[r.node]) /\ steps[r.node][r.attempt] \in {"running", "unknown"}
    BY <1>2, <2>2 DEF Known, AttemptOK
  <2>6. steps'[r.node][r.attempt] \in {"running", "unknown"}
    BY <1>4, <2>3, <2>4, <2>5
  <2>7. AttemptOK(v, steps') /\ Matches(v, finished')
    BY <1>2, <2>1, <2>2, <2>3, <2>4, <2>5, <2>6 DEF Known, AttemptOK, Matches, SameNode
  <2> QED BY <1>5, <2>1, <2>2, <2>4, <2>7 DEF Effect, r, v, SameNode
<1>19. CASE RemoteLost(d)
  <2>1. SameNode(r, v) /\ v.pc = "call" /\ r.pc = "call" /\ v.attempt = r.attempt /\ v.base = r.base
    BY <1>19, LostMove DEF Written
  <2>2. UNCHANGED <<steps, finished>>
    BY <1>19 DEF RemoteLost, tables
  <2> HIDE DEF r, v
  <2>3. AttemptOK(v, steps) /\ Matches(v, finished)
    BY <1>2, <2>1, <2>2 DEF Known, AttemptOK, Matches, SameNode
  <2> QED BY <1>7, <2>1, <2>2, <2>3 DEF r, v, SameNode
<1> QED
  BY <1>8, <1>9, <1>10, <1>11, <1>12, <1>13, <1>14, <1>15, <1>16, <1>17, <1>18, <1>19 DEF Drive

-----------------------------------------------------------------------------
(* Written is inductive *)

\* Where no driver is alive, its clauses say nothing.
LEMMA WrittenIdle ==
  ASSUME TypeInv', Serial', Active' = {}, Fresh',
         Resuming' # {} => blind' = {},
         \A i \in blind' \ Idempotent : i \in Open' /\ Len(steps'[i]) > 0
  PROVE  Written'
BY DEF Written, BlindOK

\* A new task that takes the tables as they are.
LEMMA WrittenLaunch ==
  ASSUME Written, TypeInv', Serial', Active = {}, UNCHANGED <<tables, blind>>, Fresh',
         Resuming' # {} => blind = {},
         NEW r \in RunObject, PlaceOK(r), Launch(r), r.pc = "slot",
         AttemptOK(r, steps), Matches(r, finished),
         \A i \in blind \ Idempotent : r.nodes[i] = "unknown"
  PROVE  Written'
<1>1. /\ current' \in 1 .. Drivers
      /\ run' = [run EXCEPT ![current'] = r]
      /\ run \in [1 .. Drivers -> RunObject]
  BY LaunchTyped DEF Written, TypeInv, TypeOK
<1>2. \A d \in Active' : run'[d] = r
  BY <1>1 DEF Active
<1>3. UNCHANGED <<steps, finished, blind>>
  BY DEF tables
<1> HIDE DEF Launch
<1>4. BlindOK'
  <2>1. \A i \in blind' \ Idempotent : i \in Open' /\ Len(steps'[i]) > 0
    BY <1>3 DEF Written, BlindOK, Open
  <2>2. \A i \in blind' \ Idempotent : \A d \in Active' :
          run'[d].nodes[i] = "unknown" /\ (run'[d].pc \in {"finish", "pass"} => run'[d].node # i)
    BY <1>2, <1>3
  <2> QED BY <1>3, <2>1, <2>2 DEF BlindOK
<1>5. \A d \in Active' : AttemptOK(run'[d], steps') /\ Matches(run'[d], finished')
  BY <1>2, <1>3
<1> QED BY <1>4, <1>5 DEF Written

\* A run that is rebuilt from the tables agrees with them (_rebuild_run).
LEMMA ResumedKnown ==
  ASSUME TypeInv, NEW again \in SUBSET Unknown
  PROVE  /\ Resumed(again) \in RunObject /\ PlaceOK(Resumed(again)) /\ Resumed(again).pc = "slot"
         /\ AttemptOK(Resumed(again), steps) /\ Matches(Resumed(again), finished)
         /\ \A i \in Nodes : Resumed(again).nodes[i] = IF i \in again THEN "pending" ELSE Rebuilt(i)
<1>1. Resumed(again) \in RunObject /\ PlaceOK(Resumed(again))
  BY ResumedTyped DEF Unknown
<1> DEFINE r == Resumed(again)
<1>2. /\ r.pc = "slot"
      /\ \A i \in Nodes : r.base[i] = Len(steps[i])
      /\ \A i \in Nodes : r.nodes[i] = IF i \in again THEN "pending" ELSE Rebuilt(i)
  BY DEF Resumed, NewRun
<1>3. \A i \in Nodes : Len(steps[i]) \in Nat
  BY DEF TypeInv, TypeOK
<1> HIDE DEF r
<1>4. AttemptOK(r, steps)
  BY <1>2, <1>3 DEF AttemptOK
<1>5. \A i \in Nodes : finished[i] \in {"none", "unknown", r.nodes[i]}
  BY <1>2 DEF Rebuilt, Unknown, CutOff
<1>6. Matches(r, finished)
  BY <1>2, <1>5 DEF Matches
<1> QED BY <1>1, <1>2, <1>4, <1>6 DEF r

LEMMA InitWritten == Init => Written
<1> SUFFICES ASSUME Init PROVE Written
  OBVIOUS
<1>1. TypeInv /\ Serial
  BY InitTyped, InitSerial
<1>2. Active = {} /\ blind = {}
  BY DEF Init, Active, NoRun, NewRun
<1>3. Fresh
  BY DEF Init, Fresh
<1> QED BY <1>1, <1>2, <1>3 DEF Written, BlindOK

LEMMA DriverWritten ==
  ASSUME Written, NEW d \in 1 .. Drivers, Drive(d) \/ RemoteLost(d) \/ LossRecorded(d)
  PROVE  Written'
<1>1. /\ d \in Active /\ Active = {d} /\ Active' \subseteq {d}
      /\ UNCHANGED <<calls, starting>>
      /\ ~starting /\ row # "none"
  BY DriverStep DEF Written, Serial, OneDriver, StartAlone, RowIdle
<1>2. Serial' /\ TypeInv'
  BY DriverSerial, DriverTyped DEF Written
<1>3. Effect(d)
  BY DriverEffect
<1>4. blind' = blind /\ Resuming' = Resuming
  <2>1. blind' = blind
    BY DEF Drive, RunStarted, Resolved, Unresolved, AttemptStarted, CallEnds, AttemptFinished,
           Retry, NodeFinished, NodePassed, RunFinished, StoreFails, RemoteLost, LossRecorded
  <2> QED BY <1>1, <2>1 DEF Resuming
<1>5. row' # "none"
  <2>1. CASE RunFinished(d)
    <3>1. run[d].state \in RunStates
      BY DEF Written, TypeInv, TypeOK, RunObject
    <3> QED BY <2>1, <3>1 DEF RunFinished, RunStates, Final
  <2> QED BY <1>1, <2>1, DriverRow
<1>6. Fresh'
  BY <1>1, <1>5 DEF Fresh
<1>7. \A e \in Active' : e = d /\ run'[d].pc # "over"
  BY <1>1 DEF Active
<1>8. BlindOK'
  <2>1. Resuming' # {} => blind' = {}
    BY <1>4 DEF Written, BlindOK
  <2>2. ASSUME NEW i \in blind' \ Idempotent
        PROVE  /\ i \in Open' /\ Len(steps'[i]) > 0
               /\ \A e \in Active' : /\ run'[e].nodes[i] = "unknown"
                                     /\ run'[e].pc \in {"finish", "pass"} => run'[e].node # i
    <3>1. /\ i \in Nodes /\ i \in Open /\ Len(steps[i]) > 0 /\ run[d].nodes[i] = "unknown"
          /\ run[d].pc \in {"finish", "pass"} => run[d].node # i
      BY <1>1, <1>4, <2>2 DEF Written, BlindOK, TypeInv, TypeOK
    <3>2. finished'[i] = finished[i] /\ Len(steps'[i]) = Len(steps[i])
      BY <1>3, <3>1 DEF Effect
    <3>3. ASSUME NEW e \in Active' PROVE run'[e].nodes[i] = "unknown" /\ (run'[e].pc \in {"finish", "pass"} => run'[e].node # i)
      BY <1>3, <1>7, <3>1, <3>3 DEF Effect
    <3> QED BY <3>1, <3>2, <3>3 DEF Open
  <2> QED BY <2>1, <2>2 DEF BlindOK
<1>9. \A e \in Active' : AttemptOK(run'[e], steps') /\ Matches(run'[e], finished')
  BY <1>3, <1>7 DEF Effect
<1> QED BY <1>2, <1>6, <1>8, <1>9 DEF Written

LEMMA CallWritten ==
  ASSUME Care, Written, Start \/ Started \/ Cancel \/ Cancelled
  PROVE  Written'
<1>1. Serial' /\ TypeInv'
  BY CallSerial, CallTyped DEF Written
<1>2. CASE Start
  <2>1. Active = {} /\ blind = {} /\ \A i \in Nodes : finished[i] = "none" /\ Len(steps[i]) = 0
    BY <1>2 DEF Start, Written, Fresh, Serial, RowIdle
  <2>2. UNCHANGED <<steps, finished, blind, run>>
    BY <1>2 DEF Start
  <2>3. Active' = {} /\ blind' = {}
    BY <2>1, <2>2 DEF Active
  <2> QED BY <1>1, <2>1, <2>2, <2>3, WrittenIdle DEF Fresh
<1>3. CASE Started
  <2> DEFINE r == NewRun([i \in Nodes |-> "pending"], [i \in Nodes |-> 0])
  <2>1. /\ Active = {} /\ blind = {} /\ row = "pending"
        /\ \A i \in Nodes : finished[i] = "none" /\ Len(steps[i]) = 0
    BY <1>3 DEF Started, Written, Fresh, Serial, StartAlone
  <2>2. UNCHANGED <<tables, blind>> /\ ~starting' /\ Launch(r)
    BY <1>3 DEF Started
  <2>3. r \in RunObject /\ PlaceOK(r)
    BY NewRunTyped DEF NodeStates
  <2>4. r.pc = "slot" /\ \A i \in Nodes : r.base[i] = 0
    BY DEF NewRun
  <2> HIDE DEF r
  <2>5. AttemptOK(r, steps) /\ Matches(r, finished)
    BY <2>1, <2>4 DEF AttemptOK, Matches
  <2>6. Fresh'
    BY <2>1, <2>2 DEF Fresh, tables
  <2> QED BY <1>1, <2>1, <2>2, <2>3, <2>4, <2>5, <2>6, WrittenLaunch
<1>4. CASE Cancel
  <2>1. UNCHANGED <<tables, run, starting, calls, blind>>
    BY <1>4 DEF Cancel
  <2>2. Active' = Active /\ Resuming' = Resuming /\ Open' = Open
    BY <2>1 DEF Active, Resuming, Open, tables
  <2> QED BY <1>1, <2>1, <2>2 DEF Written, Fresh, BlindOK, tables
<1>5. CASE Cancelled
  <2>1. UNCHANGED <<tables, starting, calls, blind>>
    BY <1>5 DEF Cancelled
  <2>2. Resuming' = Resuming /\ Open' = Open
    BY <2>1 DEF Resuming, Open, tables
  <2>3. \A e \in 1 .. Drivers :
          /\ run'[e].pc = run[e].pc /\ run'[e].nodes = run[e].nodes /\ run'[e].node = run[e].node
          /\ run'[e].base = run[e].base /\ run'[e].attempt = run[e].attempt /\ run'[e].kind = run[e].kind
    <3>1. \A e \in 1 .. Drivers : run'[e] \in {run[e], [run[e] EXCEPT !.cancelled = TRUE]}
      BY <1>5 DEF Cancelled, Written, TypeInv, TypeOK
    <3>2. ASSUME NEW r \in RunObject
          PROVE  LET v == [r EXCEPT !.cancelled = TRUE]
                 IN  /\ v.pc = r.pc /\ v.nodes = r.nodes /\ v.node = r.node
                     /\ v.base = r.base /\ v.attempt = r.attempt /\ v.kind = r.kind
      BY DEF RunObject
    <3>3. \A e \in 1 .. Drivers : run[e] \in RunObject
      BY DEF Written, TypeInv, TypeOK
    <3> QED BY <3>1, <3>2, <3>3
  <2>4. Active' = Active /\ Active \subseteq 1 .. Drivers
    BY <2>3 DEF Active
  <2>5. UNCHANGED <<steps, finished, row>>
    BY <2>1 DEF tables
  <2>6. Fresh'
    BY <2>1, <2>5 DEF Written, Fresh
  <2>7. BlindOK'
    BY <2>1, <2>2, <2>3, <2>4, <2>5 DEF Written, BlindOK
  <2>8. \A e \in Active' : AttemptOK(run'[e], steps') /\ Matches(run'[e], finished')
    BY <2>3, <2>4, <2>5 DEF Written, AttemptOK, Matches
  <2> QED BY <1>1, <2>6, <2>7, <2>8 DEF Written
<1> QED BY <1>2, <1>3, <1>4, <1>5

LEMMA ResumeWritten ==
  ASSUME Care, Written, NEW c \in 1 .. ResumeBound, NEW mode \in {"retry", "skip", "abort"},
         ResumeStep(c) \/ Resume(c, mode)
  PROVE  Written'
<1>1. Serial' /\ TypeInv'
  BY ResumeSerial, ResumeTyped DEF Written
<1>2. Active = {} /\ row = "interrupted" /\ ~starting
  <2>1. CASE Resume(c, mode)
    BY <2>1 DEF Resume, Care, Written, Serial, StartAlone
  <2>2. CASE ResumeStep(c)
    <3>1. c \in Resuming
      BY <2>2 DEF ResumeStep, ResumeRun, ResumeSkip, ResumeAbort, ResumeFails, Resuming
    <3> QED BY <3>1 DEF Written, Serial, StartAlone, ResumeAlone
  <2> QED BY <2>1, <2>2
<1>3. CASE Resume(c, mode)
  <2>1. blind' = {} /\ UNCHANGED <<row, run, starting>>
    BY <1>3 DEF Resume, tables
  <2>2. Active' = {} /\ Fresh'
    BY <1>2, <2>1 DEF Active, Fresh
  <2> QED BY <1>1, <2>1, <2>2, WrittenIdle
<1>4. CASE ResumeStep(c)
  <2>1. blind = {}
    <3>1. c \in Resuming
      BY <1>4 DEF ResumeStep, ResumeRun, ResumeSkip, ResumeAbort, ResumeFails, Resuming
    <3> QED BY <3>1 DEF Written, BlindOK
  <2>2. blind' = {} /\ starting' = starting /\ row' # "none"
    BY <1>2, <1>4, <2>1 DEF ResumeStep, ResumeRun, ResumeSkip, ResumeAbort, ResumeFails, tables
  <2>3. Fresh'
    BY <1>2, <2>2 DEF Fresh
  <2>4. CASE ResumeRun(c)
    <3>1. UNCHANGED <<tables, blind>> /\ Launch(Resumed(Unknown))
      BY <2>4 DEF ResumeRun
    <3> HIDE DEF Launch
    <3> QED BY <1>1, <1>2, <2>1, <2>3, <3>1, ResumedKnown, WrittenLaunch DEF Written
  <2>5. CASE ~ResumeRun(c)
    <3>1. run' = run
      BY <1>4, <2>5 DEF ResumeStep, ResumeSkip, ResumeAbort, ResumeFails, tables
    <3>2. Active' = {}
      BY <1>2, <3>1 DEF Active
    <3> QED BY <1>1, <2>2, <2>3, <3>2, WrittenIdle
  <2> QED BY <2>4, <2>5
<1> QED BY <1>3, <1>4

LEMMA RestartWritten ==
  ASSUME Written, Crash \/ Cleanup
  PROVE  Written'
<1>1. LoseMemory
  BY DEF Crash, Cleanup
<1>2. Serial' /\ TypeInv'
  BY RestartSerial, RestartTyped DEF Written
<1>3. /\ Active' = {} /\ Resuming' = {} /\ ~starting' /\ UNCHANGED <<row, finished>>
      /\ blind' = blind \cup {run[d].node : d \in {e \in Active : run[e].pc = "call" \/ (run[e].pc = "end" /\ run[e].kind # "unknown")}}
  BY <1>1 DEF LoseMemory, Active, Resuming, NoRun, NewRun, Written, Serial, Domains
<1>4. \A i \in Nodes : Len(steps'[i]) = Len(steps[i])
  BY CleanupKeeps DEF Crash, Written
<1>5. \A i \in Nodes : finished[i] \in (NodeStates \ {"pending"}) \cup {"none"} /\ Len(steps[i]) \in Nat
  BY DEF Written, TypeInv, TypeOK
<1>6. ASSUME NEW d \in Active, run[d].pc = "call" \/ (run[d].pc = "end" /\ run[d].kind # "unknown")
      PROVE  LET i == run[d].node IN i \in Nodes /\ i \in Open /\ Len(steps[i]) > 0
  <2> DEFINE r == run[d]
  <2>1. /\ r.node \in Nodes /\ r.nodes[r.node] = "pending" /\ r.attempt > 0 /\ r.attempt \in Nat
    <3>1. r \in RunObject /\ PlaceOK(r)
      BY DEF Written, TypeInv, TypeOK, Active
    <3>2. r.pc \in Working /\ r.pc \in Trying
      BY <1>6 DEF Working, Trying
    <3>3. r.attempt \in Nat
      BY <3>1 DEF RunObject
    <3> QED BY <3>1, <3>2, <3>3 DEF PlaceOK
  <2>2. AttemptOK(r, steps) /\ Matches(r, finished)
    BY DEF Written
  <2> HIDE DEF r
  <2>3. r.attempt <= Len(steps[r.node])
    BY <1>5, <1>6, <2>1, <2>2 DEF AttemptOK, r
  <2>4. r.node \in Open
    BY <1>5, <2>1, <2>2 DEF Matches, Open
  <2> QED BY <1>5, <2>1, <2>3, <2>4 DEF r
<1>7. \A i \in blind' \ Idempotent : i \in Open' /\ Len(steps'[i]) > 0
  <2>1. ASSUME NEW i \in blind' \ Idempotent PROVE i \in Nodes /\ i \in Open /\ Len(steps[i]) > 0
    <3>1. CASE i \in blind
      BY <2>1, <3>1 DEF Written, BlindOK, Open
    <3>2. CASE i \notin blind
      <4>1. PICK d \in Active : i = run[d].node /\ (run[d].pc = "call" \/ (run[d].pc = "end" /\ run[d].kind # "unknown"))
        BY <1>3, <2>1, <3>2
      <4> QED BY <1>6, <4>1
    <3> QED BY <3>1, <3>2
  <2> QED BY <1>3, <1>4, <2>1 DEF Open
<1>8. Fresh'
  <2>1. ASSUME row = "none" PROVE blind' = {} /\ \A i \in Nodes : finished'[i] = "none" /\ Len(steps'[i]) = 0
    <3>1. Active = {} /\ Fresh
      BY <2>1 DEF Written, Serial, RowIdle
    <3> QED BY <1>3, <1>4, <2>1, <3>1 DEF Fresh
  <2> QED BY <1>3, <2>1 DEF Fresh
<1> QED BY <1>2, <1>3, <1>7, <1>8, WrittenIdle

LEMMA SweepWritten ==
  ASSUME Written, Recover
  PROVE  Written'
<1>1. Serial' /\ TypeInv'
  BY SweepSerial, SweepTyped DEF Written
<1>2. /\ sweep # "done" /\ Active = {} /\ Resuming = {} /\ ~starting
      /\ UNCHANGED <<calls, starting, blind, finished>>
  BY DEF Recover, SweepNothing, SweepResume, SweepDoubt, SweepMark, SweepFails, Written, Serial,
         StartAlone, ResumeAlone, SweepAlone, tables
<1>3. Resuming' = {} /\ ~starting'
  BY <1>2 DEF Resuming
<1>4. \A i \in blind \ Idempotent : i \in Nodes /\ i \in Open /\ Len(steps[i]) > 0
  BY DEF Written, BlindOK, Open
<1>5. CASE SweepResume
  <2>1. UNCHANGED <<tables, blind>> /\ Launch(Resumed(CutOff)) /\ CutOff \subseteq Idempotent
        /\ row \in {"pending", "running"}
    BY <1>5 DEF SweepResume
  <2>2. CutOff \in SUBSET Unknown
    BY DEF Unknown, Rebuilt, CutOff
  <2>3. ASSUME NEW i \in blind \ Idempotent PROVE Resumed(CutOff).nodes[i] = "unknown"
    <3>1. i \in Nodes /\ i \notin CutOff /\ finished[i] \in {"none", "unknown"} /\ Len(steps[i]) > 0
      BY <1>4, <2>1, <2>3 DEF Open
    <3>2. steps[i] # << >>
      BY <3>1
    <3>3. Rebuilt(i) = "unknown"
      BY <3>1, <3>2 DEF CutOff, Rebuilt
    <3> QED BY <2>2, <3>1, <3>3, ResumedKnown DEF Written
  <2>4. Fresh'
    BY <1>3, <2>1 DEF Fresh, tables
  <2> HIDE DEF Launch
  <2> QED BY <1>1, <1>2, <1>3, <2>1, <2>2, <2>3, <2>4, ResumedKnown, WrittenLaunch DEF Written
<1>6. CASE ~SweepResume
  <2>1. run' = run
    BY <1>6 DEF Recover, SweepNothing, SweepDoubt, SweepMark, SweepFails
  <2>2. Active' = {}
    BY <1>2, <2>1 DEF Active
  <2>3. CASE SweepMark
    <3>1. MarkInterrupted /\ row' = "interrupted"
      BY <2>3 DEF SweepMark, MarkInterrupted
    <3>2. \A i \in Nodes : Len(steps'[i]) = Len(steps[i])
      BY <3>1, MarkKeeps DEF Written
    <3>3. Fresh'
      BY <1>3, <3>1 DEF Fresh
    <3> QED BY <1>1, <1>2, <1>3, <1>4, <2>2, <3>2, <3>3, WrittenIdle DEF Open
  <2>4. CASE ~SweepMark
    <3>1. UNCHANGED <<row, steps>>
      BY <1>6, <2>4 DEF Recover, SweepNothing, SweepDoubt, SweepFails, tables
    <3>2. Fresh'
      BY <1>2, <3>1 DEF Written, Fresh
    <3> QED BY <1>1, <1>2, <1>3, <1>4, <2>2, <3>1, <3>2, WrittenIdle DEF Open
  <2> QED BY <2>3, <2>4
<1> QED BY <1>5, <1>6

LEMMA StepWritten == Care /\ Written /\ [Next]_vars => Written'
<1> SUFFICES ASSUME Care, Written, [Next]_vars
             PROVE  Written'
  OBVIOUS
<1>1. ASSUME NEW d \in 1 .. Drivers, Drive(d) \/ RemoteLost(d) \/ LossRecorded(d)
      PROVE  Written'
  BY <1>1, DriverWritten
<1>2. CASE Start \/ Started \/ Cancel \/ Cancelled
  BY <1>2, CallWritten
<1>3. ASSUME NEW c \in DOMAIN calls, NEW mode \in {"retry", "skip", "abort"},
             ResumeStep(c) \/ Resume(c, mode)
      PROVE  Written'
  BY <1>3, ResumeWritten DEF Written, Serial, Domains
<1>4. CASE Crash \/ Cleanup
  BY <1>4, RestartWritten
<1>5. CASE Recover
  BY <1>5, SweepWritten
<1>6. CASE UNCHANGED vars
  <2>1. UNCHANGED <<row, steps, finished, run, current, starting, calls, cancelling, sweep, blind, crashes, cancels>>
    BY <1>6 DEF vars, tables
  <2>2. Active' = Active /\ Resuming' = Resuming /\ Open' = Open
    BY <2>1 DEF Active, Resuming, Open
  <2>3. Serial' /\ TypeInv'
    BY <1>6, StepSerial, StepTyped DEF Written
  <2> QED BY <2>1, <2>2, <2>3 DEF Written, Fresh, BlindOK
<1> QED
  BY <1>1, <1>2, <1>3, <1>4, <1>5, <1>6 DEF Next

-----------------------------------------------------------------------------
(* Writing before acting, and who repeats a step *)

\* Written holds throughout where care is taken.
THEOREM WrittenAlways == ASSUME Care PROVE Spec => []Written
BY InitWritten, StepWritten, PTL DEF Spec

\* WroteFirst: while a handler runs its attempt is the latest of its node and on
\* record as not ended, through retries, restarts, resumed runs and lost jobs
\* (_attempt, record_attempt_started, _rebuild_run).
THEOREM RecordedFirst == ASSUME Care PROVE Spec => []WroteFirst
<1>1. Written => WroteFirst
  <2> SUFFICES ASSUME Written, NEW d \in Active, run[d].pc = "call"
               PROVE  LET s == steps[run[d].node]
                      IN  run[d].attempt = Len(s) /\ Len(s) > 0 /\ s[Len(s)] \in {"running", "unknown"}
    BY DEF WroteFirst
  <2>1. AttemptOK(run[d], steps) /\ PlaceOK(run[d])
    BY DEF Written, TypeInv, Active
  <2>2. run[d].attempt > 0
    BY <2>1 DEF PlaceOK, Trying, Working
  <2> QED BY <2>1, <2>2 DEF AttemptOK
<1> QED BY <1>1, WrittenAlways, PTL

\* HumanDecides: a step that is not idempotent and was cut off by a crash gets
\* no further attempt before a resume call, whoever drives the run meanwhile
\* (_recover, _rebuild_run, _advance).
THEOREM NobodyRepeats == ASSUME Care PROVE Spec => HumanDecides
<1>1. ASSUME Written, Next, NEW i \in blind \ Idempotent
      PROVE  Len(steps'[i]) = Len(steps[i])
  <2>1. i \in Nodes
    BY <1>1 DEF Written, BlindOK, Open
  <2>2. ASSUME NEW d \in 1 .. Drivers, Drive(d) \/ RemoteLost(d) \/ LossRecorded(d)
        PROVE  Len(steps'[i]) = Len(steps[i])
    <3>1. d \in Active
      BY <1>1, <2>2, DriverStep DEF Written, Serial
    <3>2. run[d].nodes[i] = "unknown"
      BY <1>1, <3>1 DEF Written, BlindOK
    <3> QED BY <1>1, <2>1, <2>2, <3>2, DriverEffect DEF Effect
  <2>3. CASE Start \/ Started \/ Cancel \/ Cancelled
    BY <2>3 DEF Start, Started, Cancel, Cancelled, tables
  <2>4. ASSUME NEW c \in DOMAIN calls, NEW mode \in {"retry", "skip", "abort"},
               ResumeStep(c) \/ Resume(c, mode)
        PROVE  steps' = steps
    BY <2>4 DEF ResumeStep, ResumeRun, ResumeSkip, ResumeAbort, ResumeFails, Resume, tables
  <2>5. CASE Crash \/ Cleanup
    BY <1>1, <2>1, <2>5, CleanupKeeps DEF Crash, Written
  <2>6. CASE SweepMark
    BY <1>1, <2>1, <2>6, MarkKeeps DEF SweepMark, Written
  <2>7. CASE Recover /\ ~SweepMark
    BY <2>7 DEF Recover, SweepNothing, SweepResume, SweepDoubt, SweepFails, tables
  <2> QED BY <1>1, <2>2, <2>3, <2>4, <2>5, <2>6, <2>7 DEF Next
<1>2. Written /\ [Next]_vars => [\A i \in blind \ Idempotent : Len(steps'[i]) = Len(steps[i])]_vars
  BY <1>1
<1> QED BY <1>2, WrittenAlways, PTL DEF Spec, HumanDecides

-----------------------------------------------------------------------------
(* Which nodes have ended when the run has *)

\* What keeps a cancelled node from being forgotten: no node is cancelled in a
\* process that ends before its run does, or whose run waits for a resume call.
Calm ==
  \/ CrashBound = 0 /\ Remote \cap Always = {}
  \/ Remote = {} /\ CancelBound = 0 /\ ~Churn

\* A driver on its way through the nodes, where ns are their recorded ends.
Loop(r, ns) ==
  /\ \A i \in Nodes : /\ r.nodes[i] # "pending" /\ ~(i = r.node /\ r.pc \in {"finish", "pass"}) => ns[i] = r.nodes[i]
                      /\ i < r.node => r.nodes[i] # "pending"
                      /\ r.nodes[i] = "unknown" => r.lost
  /\ \A i \in Required : /\ i < r.node /\ r.nodes[i] = "failed" => r.failed
                         /\ r.nodes[i] = "cancelled" =>
                              r.cancelled \/ r.failed \/ (i = r.node /\ r.pc = "finish")
                         /\ r.nodes[i] = "cancelled" =>
                              ~r.lost /\ ~(r.pc \in Working /\ r.node \notin Always)
  /\ r.pc = "pass" => r.nodes[r.node] \in {"skipped", "cancelled"}
  /\ r.unknown # {} \/ r.telling => r.lost
  /\ r.lost => /\ r.pc \in Trying \cup {"finish"}
               /\ r.node \in r.unknown
               /\ r.pc = "finish" => r.nodes[r.node] = "unknown"

\* A driver that is about to record the end of the run.
Closed(r, ns) ==
  /\ r.state \in Final \cup {"interrupted"}
  /\ r.state \in {"succeeded", "cancelled"} => \A i \in Nodes : ns[i] \notin {"none", "unknown"}
  /\ r.state = "succeeded" => \A i \in Required : ns[i] \in {"succeeded", "skipped"}
  /\ r.state = "interrupted" => \A i \in Required : ns[i] # "cancelled"

OnItsWay(r, ns, state) ==
  IF r.pc = "close" THEN Closed(r, ns)
  ELSE /\ Loop(r, ns)
       /\ state = "interrupted" => r.pc = "slot" \/ r.lost

\* A run that waits for a resume call has no cancelled node to be forgotten.
NoneCancelled == row = "interrupted" => \A i \in Required : finished[i] # "cancelled"

\* The first sweep of all finds no run.
FirstSweep == crashes = 0 /\ sweep # "done" => row = "none"

\* Without cancels and drains nothing is cancelled,
Uncancelled(r) ==
  /\ \A i \in Nodes : r.nodes[i] # "cancelled"
  /\ r.pc \in Trying => "cancelled" \notin r.seen \cup {r.kind}
  /\ ~r.cancelled
NoCancel ==
  CancelBound = 0 /\ ~Churn =>
    /\ cancelling = 0
    /\ \A i \in Nodes : finished[i] # "cancelled"
    /\ \A d \in Active : run[d].pc # "close" => Uncancelled(run[d])

\* ... and without remote jobs nothing is lost.
NoLoss ==
  Remote = {} => /\ \A i \in Nodes : finished[i] # "unknown"
                 /\ \A d \in Active : run[d].pc # "close" => ~run[d].lost

Complete ==
  /\ Written
  /\ SucceededMeansDone /\ NoneCancelled /\ FirstSweep /\ NoCancel /\ NoLoss
  /\ \A d \in Active : OnItsWay(run[d], finished, row)

-----------------------------------------------------------------------------
(* The loop *)

Ends == (NodeStates \ {"pending"}) \cup {"none"}

\* The loop goes on from node i of a run without losses, or is over.
LEMMA LoopGoes ==
  ASSUME NEW s \in RunObject, NEW i \in 1 .. N + 1, NEW v, Went(s, i, v), ~s.telling,
         NEW ns \in [Nodes -> Ends], ~s.lost, s.unknown = {},
         \A k \in Nodes : /\ s.nodes[k] # "pending" => ns[k] = s.nodes[k]
                          /\ k < i => s.nodes[k] # "pending"
                          /\ s.nodes[k] # "unknown",
         \A k \in Required : /\ k < i /\ s.nodes[k] = "failed" => s.failed
                             /\ s.nodes[k] = "cancelled" => s.cancelled \/ s.failed
  PROVE  /\ v.pc = "close" => Closed(v, ns)
         /\ v.pc # "close" => Loop(v, ns) /\ ~v.lost
         /\ \A k \in Nodes : v.nodes[k] = "cancelled" => s.nodes[k] = "cancelled" \/ s.cancelled
<1> USE FlowAssumption DEF Nodes
<1>1. /\ s.nodes \in [Nodes -> NodeStates]
      /\ \A k \in Required : k \in Nodes
  BY DEF RunObject
<1>2. /\ ~v.lost /\ v.unknown = {} /\ v.cancelled = s.cancelled /\ ~v.telling
      /\ v.node \in i .. N + 1
      /\ \A k \in i .. v.node - 1 : s.nodes[k] # "pending"
      /\ v.failed <=> (s.failed \/ \E k \in (i .. v.node - 1) \cap Required : s.nodes[k] = "failed")
  BY DEF Went, SameRun
<1>3. \A k \in Nodes : k < v.node => s.nodes[k] # "pending"
  BY <1>2
<1>4. \A k \in Required : k < v.node /\ s.nodes[k] = "failed" => v.failed
  <2>1. ASSUME NEW k \in Required, k < v.node, s.nodes[k] = "failed" PROVE v.failed
    <3>1. CASE k < i
      BY <1>2, <2>1, <3>1
    <3>2. CASE ~(k < i)
      <4>1. k \in (i .. v.node - 1) \cap Required
        BY <1>1, <1>2, <2>1, <3>2
      <4> QED BY <1>2, <2>1, <4>1
    <3> QED BY <3>1, <3>2
  <2> QED BY <2>1
<1>5. \A k \in Required : s.nodes[k] = "cancelled" => s.cancelled \/ v.failed
  BY <1>2
<1>6. CASE /\ v.pc = "close" /\ v.node = N + 1 /\ v.nodes = s.nodes
           /\ v.state = IF s.lost THEN "interrupted"
                        ELSE IF v.failed THEN "failed"
                        ELSE IF s.cancelled THEN "cancelled" ELSE "succeeded"
  <2>1. ASSUME NEW k \in Nodes PROVE s.nodes[k] \notin {"pending", "unknown"} /\ ns[k] = s.nodes[k]
    <3>1. k \in 1 .. N /\ N \in Nat /\ v.node = N + 1
      BY <1>6, FlowAssumption
    <3>2. k < v.node
      BY <3>1
    <3> QED BY <1>3, <3>2
  <2>2. \A k \in Nodes : ns[k] \notin {"none", "unknown"}
    BY <1>1, <2>1 DEF NodeStates
  <2>3. v.state = "succeeded" => \A k \in Required : ns[k] \in {"succeeded", "skipped"}
    <3>1. ASSUME v.state = "succeeded", NEW k \in Required PROVE ns[k] \in {"succeeded", "skipped"}
      <4>1. ~v.failed /\ ~s.cancelled
        BY <1>6, <3>1
      <4>2. k \in 1 .. N /\ N \in Nat /\ v.node = N + 1
        BY <1>1, <1>6, FlowAssumption
      <4>3. s.nodes[k] \notin {"failed", "cancelled"} /\ s.nodes[k] \in NodeStates
        BY <1>1, <1>4, <1>5, <4>1, <4>2
      <4> QED BY <1>1, <2>1, <4>3 DEF NodeStates
    <3> QED BY <3>1
  <2> QED BY <1>6, <2>2, <2>3 DEF Closed, Final
<1>7. CASE /\ v.pc = "resolve" /\ v.node \in Nodes /\ v.nodes = s.nodes
           /\ s.nodes[v.node] = "pending"
           /\ v.node \notin Always => ~v.failed /\ ~s.cancelled
  BY <1>1, <1>2, <1>3, <1>4, <1>5, <1>7 DEF Loop, Trying, Working
<1>8. CASE /\ v.pc = "pass" /\ v.node \in Nodes
           /\ s.nodes[v.node] = "pending"
           /\ \E e \in {"skipped", "cancelled"} :
                /\ v.nodes = [s.nodes EXCEPT ![v.node] = e]
                /\ e = "cancelled" => s.cancelled
  <2>1. PICK e \in {"skipped", "cancelled"} :
          v.nodes = [s.nodes EXCEPT ![v.node] = e] /\ (e = "cancelled" => s.cancelled)
    BY <1>8
  <2>2. v.nodes[v.node] = e /\ \A k \in Nodes : k # v.node => v.nodes[k] = s.nodes[k]
    BY <1>1, <1>8, <2>1
  <2>3. \A k \in Nodes : /\ v.nodes[k] # "pending" /\ k # v.node => ns[k] = v.nodes[k]
                         /\ k < v.node => v.nodes[k] # "pending"
                         /\ v.nodes[k] # "unknown"
    BY <1>3, <2>2
  <2>4. \A k \in Required : /\ k < v.node /\ v.nodes[k] = "failed" => v.failed
                            /\ v.nodes[k] = "cancelled" => v.cancelled \/ v.failed
    <3>1. ASSUME NEW k \in Required PROVE /\ k < v.node /\ v.nodes[k] = "failed" => v.failed
                                          /\ v.nodes[k] = "cancelled" => v.cancelled \/ v.failed
      <4>1. CASE k = v.node
        BY <1>2, <1>8, <2>1, <2>2, <4>1
      <4>2. CASE k # v.node
        BY <1>1, <1>2, <1>4, <1>5, <2>2, <4>2
      <4> QED BY <4>1, <4>2
    <3> QED BY <3>1
  <2>5. Loop(v, ns)
    BY <1>2, <1>8, <2>2, <2>3, <2>4 DEF Loop, Trying, Working
  <2>6. \A k \in Nodes : v.nodes[k] = "cancelled" => s.nodes[k] = "cancelled" \/ s.cancelled
    BY <2>1, <2>2
  <2> QED BY <1>2, <1>8, <2>5, <2>6
<1> QED BY <1>6, <1>7, <1>8 DEF Went

-----------------------------------------------------------------------------
(* The steps of a driver on its way *)

\* What a step of driver d does to its way through the nodes.
Way(d) ==
  LET v == run'[d]
  IN  /\ v.pc # "over" => OnItsWay(v, finished', row')
      /\ NoneCancelled' /\ SucceededMeansDone'
      /\ CancelBound = 0 /\ ~Churn => /\ \A i \in Nodes : finished'[i] # "cancelled"
                                      /\ v.pc \notin {"close", "over"} => Uncancelled(v)
      /\ Remote = {} => /\ \A i \in Nodes : finished'[i] # "unknown"
                        /\ v.pc \notin {"close", "over"} => ~v.lost

\* What is known of a driver before its step.
LEMMA OnTheWay ==
  ASSUME Complete, NEW d \in 1 .. Drivers, d \in Active
  PROVE  LET r == run[d]
         IN  /\ r \in RunObject /\ PlaceOK(r) /\ Matches(r, finished) /\ OnItsWay(r, finished, row)
             /\ r.nodes \in [Nodes -> NodeStates] /\ finished \in [Nodes -> Ends]
             /\ row \notin Final \cup {"none"}
             /\ CancelBound = 0 /\ ~Churn => /\ \A i \in Nodes : finished[i] # "cancelled"
                                             /\ r.pc # "close" => Uncancelled(r)
             /\ Remote = {} => /\ \A i \in Nodes : finished[i] # "unknown"
                               /\ r.pc # "close" => ~r.lost
<1> DEFINE r == run[d]
<1>1. r \in RunObject /\ PlaceOK(r) /\ finished \in [Nodes -> Ends]
  BY DEF Complete, Written, TypeInv, TypeOK, Ends
<1>2. r.nodes \in [Nodes -> NodeStates]
  BY <1>1 DEF RunObject
<1>3. Matches(r, finished) /\ OnItsWay(r, finished, row) /\ row \notin Final \cup {"none"}
  BY DEF Complete, Written, Serial, RowIdle
<1>4. CancelBound = 0 /\ ~Churn => /\ \A i \in Nodes : finished[i] # "cancelled"
                                   /\ r.pc # "close" => Uncancelled(r)
  BY DEF Complete, NoCancel
<1>5. Remote = {} => /\ \A i \in Nodes : finished[i] # "unknown"
                     /\ r.pc # "close" => ~r.lost
  BY DEF Complete, NoLoss
<1> QED BY <1>1, <1>2, <1>3, <1>4, <1>5

\* A run that has lost a job has no cancelled node on record.
LEMMA LostNotCancelled ==
  ASSUME NEW r, NEW ns \in [Nodes -> Ends], Loop(r, ns), Matches(r, ns), r.lost
  PROVE  \A i \in Required : i \in Nodes /\ (i # r.node \/ r.pc \in Working) => ns[i] # "cancelled"
<1>1. ASSUME NEW i \in Required, i \in Nodes, i # r.node \/ r.pc \in Working, ns[i] = "cancelled"
      PROVE  FALSE
  <2>1. r.nodes[i] # "cancelled"
    BY <1>1 DEF Loop
  <2>2. ~(i = r.node /\ r.pc \in {"finish", "pass"})
    BY <1>1 DEF Working
  <2>3. r.nodes[i] = "pending"
    BY <1>1, <2>1, <2>2 DEF Loop
  <2> QED BY <1>1, <2>3 DEF Matches
<1> QED BY <1>1

\* A step from one place of a node to another.
LEMMA WithinWay ==
  ASSUME Complete, NEW d \in 1 .. Drivers, d \in Active, NEW r, r = run[d], NEW v, v = run'[d],
         r.pc \in Working, v.pc \in Trying, SameNode(r, v), finished' = finished,
         v.lost = r.lost, v.unknown = r.unknown, v.cancelled = r.cancelled, v.telling => v.lost,
         row' = row \/ (row' = "interrupted" /\ r.lost),
         CancelBound = 0 /\ ~Churn => "cancelled" \notin v.seen \cup {v.kind}
  PROVE  Way(d)
<1>1. /\ r \in RunObject /\ PlaceOK(r) /\ Matches(r, finished) /\ OnItsWay(r, finished, row)
      /\ finished \in [Nodes -> Ends]
      /\ row \notin Final \cup {"none"}
      /\ CancelBound = 0 /\ ~Churn => /\ \A i \in Nodes : finished[i] # "cancelled"
                                      /\ Uncancelled(r)
      /\ Remote = {} => (\A i \in Nodes : finished[i] # "unknown") /\ ~r.lost
  BY OnTheWay DEF Working
<1>2. Loop(r, finished) /\ (row = "interrupted" => r.lost)
  BY <1>1 DEF OnItsWay, Working
<1>3. v.pc \in Working /\ v.pc \notin {"finish", "pass", "close", "over", "slot"} /\ r.pc \notin {"finish", "pass"}
  BY DEF Trying, Working
<1>4. Loop(v, finished)
  BY <1>2, <1>3 DEF Loop, SameNode
<1>5. OnItsWay(v, finished', row')
  BY <1>2, <1>3, <1>4 DEF OnItsWay
<1>6. NoneCancelled'
  <2>1. CASE row' = row
    BY <2>1 DEF Complete, NoneCancelled
  <2>2. CASE r.lost
    <3>1. \A i \in Required : finished[i] # "cancelled"
      BY <1>1, <1>2, <2>2, LostNotCancelled, FlowAssumption
    <3> QED BY <3>1 DEF NoneCancelled
  <2> QED BY <2>1, <2>2
<1>7. SucceededMeansDone'
  BY <1>1 DEF SucceededMeansDone, Final
<1>8. CancelBound = 0 /\ ~Churn => Uncancelled(v)
  BY <1>1 DEF Uncancelled, SameNode
<1> QED BY <1>1, <1>3, <1>5, <1>6, <1>7, <1>8 DEF Way

\* The node has an end, known to the driver.
LEMMA DoneWay ==
  ASSUME Complete, NEW d \in 1 .. Drivers, d \in Active, NEW r, r = run[d], NEW v, v = run'[d],
         r.pc \in Working, v.pc = "finish", SameRun(r, v), v.node = r.node, v.failed = r.failed,
         NEW e \in NodeStates \ {"pending"}, v.nodes = [r.nodes EXCEPT ![r.node] = e],
         e = "unknown" <=> r.node \in r.unknown, ~v.telling,
         UNCHANGED <<row, finished>>,
         CancelBound = 0 /\ ~Churn => e # "cancelled"
  PROVE  Way(d)
<1>1. /\ r \in RunObject /\ PlaceOK(r) /\ Matches(r, finished) /\ OnItsWay(r, finished, row)
      /\ r.nodes \in [Nodes -> NodeStates] /\ finished \in [Nodes -> Ends]
      /\ row \notin Final \cup {"none"}
      /\ CancelBound = 0 /\ ~Churn => /\ \A i \in Nodes : finished[i] # "cancelled"
                                      /\ Uncancelled(r)
      /\ Remote = {} => (\A i \in Nodes : finished[i] # "unknown") /\ ~r.lost
  BY OnTheWay DEF Working
<1>2. Loop(r, finished) /\ (row = "interrupted" => r.lost)
  BY <1>1 DEF OnItsWay, Working
<1>3. r.node \in Nodes /\ r.pc \notin {"finish", "pass"} /\ r.node \in 1 .. N /\ N \in Nat
  BY <1>1, FlowAssumption DEF PlaceOK, Working, Nodes
<1>4. v.nodes[v.node] = e /\ \A k \in Nodes : k # v.node => v.nodes[k] = r.nodes[k]
  BY <1>1, <1>3
<1>5. v.lost = r.lost /\ v.unknown = r.unknown /\ v.cancelled = r.cancelled
  BY DEF SameRun
<1>6. \A i \in Nodes : /\ v.nodes[i] # "pending" /\ i # v.node => finished[i] = v.nodes[i]
                       /\ i < v.node => v.nodes[i] # "pending"
                       /\ v.nodes[i] = "unknown" => v.lost
  <2>1. ASSUME NEW i \in Nodes PROVE /\ v.nodes[i] # "pending" /\ i # v.node => finished[i] = v.nodes[i]
                                     /\ i < v.node => v.nodes[i] # "pending"
                                     /\ v.nodes[i] = "unknown" => v.lost
    <3>1. CASE i = v.node
      BY <1>2, <1>3, <1>4, <1>5, <3>1 DEF Loop
    <3>2. CASE i # v.node
      BY <1>2, <1>3, <1>4, <1>5, <2>1, <3>2 DEF Loop
    <3> QED BY <3>1, <3>2
  <2> QED BY <2>1
<1>7. \A i \in Required : /\ i < v.node /\ v.nodes[i] = "failed" => v.failed
                          /\ v.nodes[i] = "cancelled" => v.cancelled \/ v.failed \/ i = v.node
                          /\ v.nodes[i] = "cancelled" => ~v.lost
  <2>1. ASSUME NEW i \in Required PROVE /\ i < v.node /\ v.nodes[i] = "failed" => v.failed
                                        /\ v.nodes[i] = "cancelled" => v.cancelled \/ v.failed \/ i = v.node
                                        /\ v.nodes[i] = "cancelled" => ~v.lost
    <3>1. i \in Nodes
      BY FlowAssumption
    <3>2. CASE i = v.node
      BY <1>2, <1>3, <1>4, <1>5, <3>2 DEF Loop
    <3>3. CASE i # v.node
      BY <1>2, <1>3, <1>4, <1>5, <2>1, <3>1, <3>3 DEF Loop
    <3> QED BY <3>2, <3>3
  <2> QED BY <2>1
<1>8. v.lost => v.node \in v.unknown /\ v.nodes[v.node] = "unknown"
  BY <1>2, <1>4, <1>5 DEF Loop
<1>9. v.unknown # {} => v.lost
  BY <1>2, <1>5 DEF Loop
<1>10. Loop(v, finished)
  <2>1. v.pc \notin Working /\ v.pc # "pass"
    BY DEF Working
  <2> HIDE DEF Working
  <2> QED BY <1>6, <1>7, <1>8, <1>9, <2>1 DEF Loop
<1>11. OnItsWay(v, finished', row')
  BY <1>2, <1>5, <1>10 DEF OnItsWay
<1>12. NoneCancelled' /\ SucceededMeansDone'
  BY <1>1 DEF Complete, NoneCancelled, SucceededMeansDone, Final
<1>13. CancelBound = 0 /\ ~Churn => Uncancelled(v)
  <2>1. ASSUME CancelBound = 0 /\ ~Churn PROVE \A i \in Nodes : v.nodes[i] # "cancelled"
    BY <1>1, <1>4, <2>1 DEF Uncancelled
  <2> QED BY <1>1, <1>5, <2>1 DEF Uncancelled, Trying, Working
<1> QED BY <1>1, <1>5, <1>11, <1>12, <1>13 DEF Way

\* The run is given up.
LEMMA GivenUpWay ==
  ASSUME Complete, NEW d \in 1 .. Drivers, d \in Active, NEW v, v = run'[d],
         v.pc = "close", v.state = "failed", UNCHANGED <<row, finished>>
  PROVE  Way(d)
<1>1. Closed(v, finished)
  BY DEF Closed, Final
<1>2. NoneCancelled' /\ SucceededMeansDone'
  BY DEF Complete, NoneCancelled, SucceededMeansDone
<1> QED BY <1>1, <1>2, OnTheWay DEF Way, OnItsWay

\* The node that a driver records takes its place among those it has behind it.
LEMMA RecordedWay ==
  ASSUME Complete, NEW d \in 1 .. Drivers, d \in Active, NEW r, r = run[d], NEW v, v = run'[d],
         r.pc \in {"finish", "pass"}, ~r.lost,
         finished' = [finished EXCEPT ![r.node] = r.nodes[r.node]], row' = row,
         NEW s \in RunObject, SameRun(r, s), s.node = r.node, s.nodes = r.nodes,
         r.failed => s.failed,
         r.pc = "finish" /\ r.node \in Required =>
           /\ r.nodes[r.node] = "failed" => s.failed
           /\ r.nodes[r.node] = "cancelled" => s.cancelled \/ s.failed,
         Went(s, r.node + 1, v)
  PROVE  Way(d)
<1>1. /\ r \in RunObject /\ PlaceOK(r) /\ Matches(r, finished) /\ OnItsWay(r, finished, row)
      /\ r.nodes \in [Nodes -> NodeStates] /\ finished \in [Nodes -> Ends]
      /\ row \notin Final \cup {"none"}
      /\ CancelBound = 0 /\ ~Churn => /\ \A i \in Nodes : finished[i] # "cancelled"
                                      /\ Uncancelled(r)
      /\ Remote = {} => \A i \in Nodes : finished[i] # "unknown"
  BY OnTheWay
<1>2. Loop(r, finished) /\ row # "interrupted"
  BY <1>1 DEF OnItsWay
<1>3. /\ r.node \in Nodes /\ r.node \in 1 .. N /\ r.node + 1 \in 1 .. N + 1
      /\ r.nodes[r.node] \in NodeStates \ {"pending"} /\ ~r.telling
  <2>1. r.node \in 1 .. N /\ N \in Nat
    BY <1>1, FlowAssumption DEF PlaceOK, Nodes
  <2> QED BY <1>1, <2>1 DEF PlaceOK, Nodes
<1>4. finished' \in [Nodes -> Ends]
  BY <1>1, <1>3 DEF Ends
<1>5. finished'[r.node] = r.nodes[r.node] /\ \A k \in Nodes : k # r.node => finished'[k] = finished[k]
  BY <1>1, <1>3
<1>6. ~s.lost /\ s.unknown = {} /\ ~s.telling /\ s.cancelled = r.cancelled
  BY <1>2, <1>3 DEF Loop, SameRun
<1>7. \A k \in Nodes : /\ s.nodes[k] # "pending" => finished'[k] = s.nodes[k]
                       /\ k < r.node + 1 => s.nodes[k] # "pending"
                       /\ s.nodes[k] # "unknown"
  <2>1. ASSUME NEW k \in Nodes PROVE /\ s.nodes[k] # "pending" => finished'[k] = s.nodes[k]
                                     /\ k < r.node + 1 => s.nodes[k] # "pending"
                                     /\ s.nodes[k] # "unknown"
    <3>1. CASE k = r.node
      BY <1>2, <1>3, <1>5, <3>1 DEF Loop
    <3>2. CASE k # r.node
      <4>1. k < r.node + 1 => k < r.node
        BY <1>3, <3>2 DEF Nodes
      <4> QED BY <1>2, <1>5, <3>2, <4>1 DEF Loop
    <3> QED BY <3>1, <3>2
  <2> QED BY <2>1
<1>8. \A k \in Required : /\ k < r.node + 1 /\ s.nodes[k] = "failed" => s.failed
                          /\ s.nodes[k] = "cancelled" => s.cancelled \/ s.failed
  <2>1. ASSUME NEW k \in Required PROVE /\ k < r.node + 1 /\ s.nodes[k] = "failed" => s.failed
                                        /\ s.nodes[k] = "cancelled" => s.cancelled \/ s.failed
    <3>1. k \in Nodes
      BY FlowAssumption
    <3>2. CASE k = r.node /\ r.pc = "finish"
      BY <3>2
    <3>3. CASE k = r.node /\ r.pc = "pass"
      BY <1>2, <1>6, <3>3 DEF Loop
    <3>4. CASE k # r.node
      <4>1. k < r.node + 1 => k < r.node
        BY <1>3, <3>1, <3>4 DEF Nodes
      <4> QED BY <1>2, <1>6, <3>4, <4>1 DEF Loop
    <3> QED BY <3>2, <3>3, <3>4
  <2> QED BY <2>1
<1>9. /\ v.pc = "close" => Closed(v, finished')
      /\ v.pc # "close" => Loop(v, finished') /\ ~v.lost
      /\ \A k \in Nodes : v.nodes[k] = "cancelled" => s.nodes[k] = "cancelled" \/ s.cancelled
  <2> DEFINE i == r.node + 1
             ns == finished'
  <2>1. i \in 1 .. N + 1 /\ ns \in [Nodes -> Ends] /\ Went(s, i, v)
    BY <1>3, <1>4
  <2>2. \A k \in Nodes : /\ s.nodes[k] # "pending" => ns[k] = s.nodes[k]
                         /\ k < i => s.nodes[k] # "pending"
                         /\ s.nodes[k] # "unknown"
    BY <1>7
  <2>3. \A k \in Required : /\ k < i /\ s.nodes[k] = "failed" => s.failed
                            /\ s.nodes[k] = "cancelled" => s.cancelled \/ s.failed
    BY <1>8
  <2> HIDE DEF i, ns
  <2>4. /\ v.pc = "close" => Closed(v, ns)
        /\ v.pc # "close" => Loop(v, ns) /\ ~v.lost
        /\ \A k \in Nodes : v.nodes[k] = "cancelled" => s.nodes[k] = "cancelled" \/ s.cancelled
    BY <1>6, <2>1, <2>2, <2>3, LoopGoes
  <2> QED BY <2>4 DEF ns
<1>10. OnItsWay(v, finished', row')
  BY <1>2, <1>9 DEF OnItsWay
<1>11. NoneCancelled' /\ SucceededMeansDone'
  BY <1>1, <1>2 DEF NoneCancelled, SucceededMeansDone, Final
<1>12. CancelBound = 0 /\ ~Churn => /\ \A i \in Nodes : finished'[i] # "cancelled"
                                    /\ v.pc \notin {"close", "over"} => Uncancelled(v)
  <2>1. ASSUME CancelBound = 0 /\ ~Churn PROVE \A i \in Nodes : finished'[i] # "cancelled" /\ v.nodes[i] # "cancelled"
    BY <1>1, <1>3, <1>5, <1>6, <1>9, <2>1 DEF Uncancelled
  <2>2. v.cancelled = r.cancelled /\ v.pc \notin Trying
    BY DEF Went, SameRun, Trying, Working
  <2> QED BY <1>1, <2>1, <2>2 DEF Uncancelled
<1>13. Remote = {} => /\ \A i \in Nodes : finished'[i] # "unknown"
                      /\ v.pc \notin {"close", "over"} => ~v.lost
  <2>1. r.nodes[r.node] # "unknown"
    BY <1>2, <1>3 DEF Loop
  <2> QED BY <1>1, <1>5, <1>9, <2>1
<1> QED BY <1>10, <1>11, <1>12, <1>13 DEF Way

LEMMA DriverWay ==
  ASSUME Calm, Complete, NEW d \in 1 .. Drivers, Drive(d) \/ RemoteLost(d) \/ LossRecorded(d)
  PROVE  Way(d)
<1> DEFINE r == run[d]
           v == run'[d]
<1>1. d \in Active /\ Active = {d} /\ TypeInv
  BY DriverStep DEF Complete, Written, Serial, OneDriver
<1>2. /\ r \in RunObject /\ PlaceOK(r) /\ Matches(r, finished) /\ OnItsWay(r, finished, row)
      /\ r.nodes \in [Nodes -> NodeStates] /\ finished \in [Nodes -> Ends]
      /\ row \notin Final \cup {"none"}
      /\ CancelBound = 0 /\ ~Churn => /\ \A i \in Nodes : finished[i] # "cancelled"
                                      /\ r.pc # "close" => Uncancelled(r)
      /\ Remote = {} => /\ \A i \in Nodes : finished[i] # "unknown"
                        /\ r.pc # "close" => ~r.lost
  BY <1>1, OnTheWay
<1>3. run \in [1 .. Drivers -> RunObject]
  BY <1>1 DEF TypeInv, TypeOK
<1>4. \A w : Becomes(d, w) => v = w /\ PlaceOK(v)
  BY <1>3 DEF Becomes
<1>5. r.pc # "close" => Loop(r, finished) /\ (row = "interrupted" => r.pc = "slot" \/ r.lost)
  BY <1>2 DEF OnItsWay
<1>6. CASE RunStarted(d)
  <2>1. Went(r, 1, v) /\ PlaceOK(v)
    BY <1>1, <1>4, <1>6, StartedMove
  <2>2. r.pc = "slot" /\ row' = "running" /\ finished' = finished
    BY <1>6 DEF RunStarted
  <2> HIDE DEF r, v
  <2>3. ~r.lost /\ r.unknown = {} /\ ~r.telling
    BY <1>5, <2>2 DEF Loop, Trying, Working
  <2>4. 1 \in 1 .. N + 1
    BY FlowAssumption
  <2>5. \A k \in Nodes : /\ r.nodes[k] # "pending" => finished[k] = r.nodes[k]
                         /\ k < 1 => r.nodes[k] # "pending"
                         /\ r.nodes[k] # "unknown"
    BY <1>5, <2>2, <2>3, FlowAssumption DEF Loop, Nodes
  <2>6. \A k \in Required : /\ k < 1 /\ r.nodes[k] = "failed" => r.failed
                            /\ r.nodes[k] = "cancelled" => r.cancelled \/ r.failed
    BY <1>5, <2>2, FlowAssumption DEF Loop, Nodes
  <2>7. /\ v.pc = "close" => Closed(v, finished)
        /\ v.pc # "close" => Loop(v, finished) /\ ~v.lost
        /\ \A k \in Nodes : v.nodes[k] = "cancelled" => r.nodes[k] = "cancelled" \/ r.cancelled
    BY <1>2, <2>1, <2>3, <2>4, <2>5, <2>6, LoopGoes
  <2>8. OnItsWay(v, finished', row')
    BY <2>2, <2>7 DEF OnItsWay
  <2>9. NoneCancelled' /\ SucceededMeansDone'
    BY <2>2 DEF NoneCancelled, SucceededMeansDone
  <2>10. CancelBound = 0 /\ ~Churn => (v.pc \notin {"close", "over"} => Uncancelled(v))
    <3>1. v.cancelled = r.cancelled /\ v.pc \notin Trying
      BY <2>1 DEF Went, SameRun, Trying, Working
    <3> QED BY <1>2, <2>2, <2>7, <3>1 DEF Uncancelled
  <2> QED BY <1>2, <2>2, <2>7, <2>8, <2>9, <2>10 DEF Way, v
<1>7. CASE Resolved(d)
  <2>1. /\ SameRun(r, v) /\ SameNode(r, v) /\ PlaceOK(v)
        /\ v.pc = "begin" /\ v.seen = {} /\ v.kind = "ok"
    BY <1>1, <1>4, <1>7, ResolvedMove
  <2>2. r.pc = "resolve" /\ UNCHANGED <<row, finished>>
    BY <1>7 DEF Resolved, tables
  <2>3. v.pc \in Trying /\ r.pc \in Working /\ ~v.telling
    BY <2>1, <2>2 DEF Trying, Working, PlaceOK
  <2> HIDE DEF r, v
  <2>4. v.lost = r.lost /\ v.unknown = r.unknown /\ v.cancelled = r.cancelled
    BY <2>1 DEF SameRun
  <2>5. r = run[d] /\ v = run'[d]
    BY DEF r, v
  <2> QED BY <1>1, <2>1, <2>2, <2>3, <2>4, <2>5, WithinWay
<1>8. CASE Unresolved(d)
  <2>1. /\ SameRun(r, v) /\ v.node = r.node /\ v.failed = r.failed /\ v.pc = "finish" /\ PlaceOK(v)
        /\ \E e \in {"failed", "skipped"} : v.nodes = [r.nodes EXCEPT ![r.node] = e]
    BY <1>1, <1>4, <1>8, UnresolvedMove
  <2>2. r.pc = "resolve" /\ UNCHANGED <<row, finished>>
    BY <1>8 DEF Unresolved, tables
  <2>3. PICK e \in {"failed", "skipped"} : v.nodes = [r.nodes EXCEPT ![r.node] = e]
    BY <2>1
  <2> HIDE DEF r, v
  <2>4. r = run[d] /\ v = run'[d]
    BY DEF r, v
  <2>5. r.unknown = {}
    BY <1>5, <2>2 DEF Loop, Trying, Working
  <2>6. e \in NodeStates \ {"pending"} /\ (e = "unknown" <=> r.node \in r.unknown) /\ e # "cancelled"
    BY <2>5 DEF NodeStates
  <2>7. r.pc \in Working /\ ~v.telling
    BY <2>1, <2>2 DEF Working, PlaceOK
  <2> QED BY <1>1, <2>1, <2>2, <2>3, <2>4, <2>6, <2>7, DoneWay
<1>9. CASE AttemptStarted(d)
  <2>1. /\ SameRun(r, v) /\ SameNode(r, v) /\ v.seen = r.seen
        /\ \/ v.pc = "call" /\ v.kind = r.kind
           \/ v.pc = "end" /\ v.kind = "unknown"
    BY <1>1, <1>4, <1>9, BegunMove
  <2>2. r.pc = "begin" /\ UNCHANGED <<row, finished>>
    BY <1>9 DEF AttemptStarted
  <2>3. v.pc \in Trying /\ r.pc \in Working /\ r.pc \in Trying
    BY <2>1, <2>2 DEF Trying, Working
  <2> HIDE DEF r, v
  <2>4. v.lost = r.lost /\ v.unknown = r.unknown /\ v.cancelled = r.cancelled /\ ~v.telling
    BY <1>2, <2>1, <2>2 DEF SameRun, PlaceOK
  <2>5. CancelBound = 0 /\ ~Churn => "cancelled" \notin v.seen \cup {v.kind}
    BY <1>2, <2>1, <2>2, <2>3 DEF Uncancelled
  <2>6. r = run[d] /\ v = run'[d]
    BY DEF r, v
  <2> QED BY <1>1, <2>1, <2>2, <2>3, <2>4, <2>5, <2>6, WithinWay
<1>10. CASE CallEnds(d)
  <2>1. /\ SameNode(r, v) /\ v.seen = r.seen /\ v.pc = "end" /\ PlaceOK(v)
        /\ v.lost = r.lost /\ v.unknown = r.unknown /\ v.cancelled = r.cancelled
        /\ v.kind = "cancelled" => r.cancelled \/ Churn
    BY <1>1, <1>4, <1>10, EndedMove
  <2>2. r.pc = "call" /\ UNCHANGED <<row, finished>>
    BY <1>10 DEF CallEnds, tables
  <2>3. v.pc \in Trying /\ r.pc \in Working /\ r.pc \in Trying /\ ~v.telling
    BY <2>1, <2>2 DEF Trying, Working, PlaceOK
  <2> HIDE DEF r, v
  <2>4. CancelBound = 0 /\ ~Churn => "cancelled" \notin v.seen \cup {v.kind}
    BY <1>2, <2>1, <2>2, <2>3 DEF Uncancelled
  <2>5. r = run[d] /\ v = run'[d]
    BY DEF r, v
  <2> QED BY <1>1, <2>1, <2>2, <2>3, <2>4, <2>5, WithinWay
<1>11. CASE AttemptFinished(d)
  <2>1. (IF r.kind = "unknown" THEN GivesUp(r, v) ELSE Tried(r, v)) /\ PlaceOK(v)
    BY <1>1, <1>4, <1>11, FinishedMove
  <2>2. r.pc = "end" /\ UNCHANGED <<row, finished>>
    BY <1>11 DEF AttemptFinished
  <2>3. r.pc \in Working /\ r.pc \in Trying
    BY <2>2 DEF Working, Trying
  <2> HIDE DEF r, v
  <2>4. r = run[d] /\ v = run'[d]
    BY DEF r, v
  <2>5. CASE GivesUp(r, v)
    BY <1>1, <2>2, <2>4, <2>5, GivenUpWay DEF GivesUp
  <2>6. CASE Tried(r, v)
    <3>1. CancelBound = 0 /\ ~Churn => "cancelled" \notin r.seen \cup {r.kind}
      BY <1>2, <2>2, <2>3 DEF Uncancelled
    <3>2. SameRun(r, v) /\ v.node = r.node /\ v.failed = r.failed
      BY <2>6 DEF Tried
    <3>3. CASE v.pc = "finish" /\ \E e \in NodeStates \ {"pending"} :
                                    /\ v.nodes = [r.nodes EXCEPT ![r.node] = e]
                                    /\ e = "unknown" <=> r.node \in r.unknown
                                    /\ e = "cancelled" => "cancelled" \in r.seen \cup {r.kind}
      <4>1. PICK e \in NodeStates \ {"pending"} :
              /\ v.nodes = [r.nodes EXCEPT ![r.node] = e]
              /\ e = "unknown" <=> r.node \in r.unknown
              /\ e = "cancelled" => "cancelled" \in r.seen \cup {r.kind}
        BY <3>3
      <4>2. ~v.telling
        BY <2>1, <3>3 DEF PlaceOK
      <4> QED BY <1>1, <2>2, <2>3, <2>4, <3>1, <3>2, <3>3, <4>1, <4>2, DoneWay
    <3>4. CASE /\ v.pc \in {"sleep", "begin"} /\ v.nodes = r.nodes
               /\ "cancelled" \in v.seen \cup {v.kind} => "cancelled" \in r.seen \cup {r.kind}
      <4>1. v.pc \in Trying /\ SameNode(r, v) /\ ~v.telling
        BY <2>1, <3>2, <3>4 DEF Trying, Working, SameNode, PlaceOK
      <4>2. v.lost = r.lost /\ v.unknown = r.unknown /\ v.cancelled = r.cancelled
        BY <3>2 DEF SameRun
      <4> QED BY <1>1, <2>2, <2>3, <2>4, <3>1, <3>4, <4>1, <4>2, WithinWay
    <3> QED BY <2>6, <3>3, <3>4 DEF Tried
  <2> QED BY <2>1, <2>5, <2>6
<1>12. CASE Retry(d)
  <2>1. /\ SameRun(r, v) /\ SameNode(r, v) /\ v.pc = "begin" /\ v.seen = r.seen /\ v.kind = "ok" /\ PlaceOK(v)
    BY <1>1, <1>4, <1>12, RetryMove
  <2>2. r.pc = "sleep" /\ UNCHANGED <<row, finished>>
    BY <1>12 DEF Retry, tables
  <2>3. v.pc \in Trying /\ r.pc \in Working /\ r.pc \in Trying /\ ~v.telling
    BY <2>1, <2>2 DEF Trying, Working, PlaceOK
  <2> HIDE DEF r, v
  <2>4. v.lost = r.lost /\ v.unknown = r.unknown /\ v.cancelled = r.cancelled
    BY <2>1 DEF SameRun
  <2>5. CancelBound = 0 /\ ~Churn => "cancelled" \notin v.seen \cup {v.kind}
    BY <1>2, <2>1, <2>2, <2>3 DEF Uncancelled
  <2>6. r = run[d] /\ v = run'[d]
    BY DEF r, v
  <2> QED BY <1>1, <2>1, <2>2, <2>3, <2>4, <2>5, <2>6, WithinWay
<1>13. CASE NodeFinished(d)
  <2> DEFINE fails == r.node \in Required
                        /\ (r.nodes[r.node] = "failed" \/ (r.nodes[r.node] = "cancelled" /\ ~r.cancelled))
             s == [r EXCEPT !.failed = @ \/ fails]
  <2>1. /\ IF r.lost THEN SameRun(r, v) /\ SameNode(r, v) /\ v.pc = "close" /\ v.state = "interrupted"
           ELSE Went(s, r.node + 1, v)
    BY <1>1, <1>4, <1>13, NodeMove
  <2>2. /\ r.pc = "finish" /\ row' = row
        /\ finished' = [finished EXCEPT ![r.node] = r.nodes[r.node]]
    BY <1>13 DEF NodeFinished
  <2>3. fails \in BOOLEAN
    <3>1. CASE fails
      BY <3>1
    <3>2. CASE ~fails
      BY <3>2
    <3> QED BY <3>1, <3>2
  <2>4. /\ fails <=> r.node \in Required /\ (r.nodes[r.node] = "failed" \/ (r.nodes[r.node] = "cancelled" /\ ~r.cancelled))
    OBVIOUS
  <2> HIDE DEF r, v, fails
  <2>5. /\ s \in RunObject /\ SameRun(r, s) /\ s.node = r.node /\ s.nodes = r.nodes /\ s.cancelled = r.cancelled
        /\ s.failed = (r.failed \/ fails)
    BY <1>2, <2>3 DEF RunObject, SameRun
  <2>6. r = run[d] /\ v = run'[d]
    BY DEF r, v
  <2> HIDE DEF s
  <2>7. CASE ~r.lost
    <3>1. r.node \in Required =>
            /\ r.nodes[r.node] = "failed" => s.failed
            /\ r.nodes[r.node] = "cancelled" => s.cancelled \/ s.failed
      BY <2>4, <2>5
    <3>2. (r.failed => s.failed) /\ Went(s, r.node + 1, v)
      BY <2>1, <2>5, <2>7
    <3> QED BY <1>1, <2>2, <2>5, <2>6, <2>7, <3>1, <3>2, RecordedWay
  <2>8. CASE r.lost
    <3>1. r.nodes[r.node] = "unknown" /\ Loop(r, finished) /\ r.node \in Nodes
      BY <1>2, <1>5, <2>2, <2>8 DEF Loop, PlaceOK
    <3>2. finished'[r.node] = "unknown" /\ \A k \in Nodes : k # r.node => finished'[k] = finished[k]
      BY <1>2, <2>2, <3>1
    <3>3. \A i \in Required : finished'[i] # "cancelled"
      <4>1. ASSUME NEW i \in Required PROVE finished'[i] # "cancelled"
        <5>1. i \in Nodes
          BY FlowAssumption
        <5>2. CASE i = r.node
          BY <3>2, <5>2
        <5>3. CASE i # r.node
          BY <1>2, <2>8, <3>1, <3>2, <5>1, <5>3, LostNotCancelled
        <5> QED BY <5>2, <5>3
      <4> QED BY <4>1
    <3>4. v.pc = "close" /\ v.state = "interrupted" /\ Closed(v, finished')
      BY <2>1, <2>8, <3>3 DEF Closed
    <3>5. OnItsWay(v, finished', row') /\ NoneCancelled' /\ SucceededMeansDone'
      BY <1>2, <2>2, <3>3, <3>4 DEF OnItsWay, NoneCancelled, SucceededMeansDone, Final
    <3>6. CancelBound = 0 /\ ~Churn => \A i \in Nodes : finished'[i] # "cancelled"
      BY <1>2, <3>2
    <3> QED BY <1>2, <2>2, <2>8, <3>4, <3>5, <3>6 DEF Way, v
  <2> QED BY <2>7, <2>8
<1>14. CASE NodePassed(d)
  <2>1. Went(r, r.node + 1, v)
    BY <1>1, <1>4, <1>14, PassedMove
  <2>2. /\ r.pc = "pass" /\ row' = row
        /\ finished' = [finished EXCEPT ![r.node] = r.nodes[r.node]]
    BY <1>14 DEF NodePassed
  <2> HIDE DEF r, v
  <2>3. r = run[d] /\ v = run'[d]
    BY DEF r, v
  <2>4. ~r.lost /\ SameRun(r, r)
    BY <1>5, <2>2 DEF Loop, Trying, Working, SameRun
  <2> QED BY <1>1, <1>2, <2>1, <2>2, <2>3, <2>4, RecordedWay
<1>15. CASE RunFinished(d)
  <2>1. v.pc = "over" /\ r.pc = "close" /\ row' = r.state /\ finished' = finished
    BY <1>1, <1>4, <1>15, ClosedMove DEF RunFinished
  <2>2. Closed(r, finished)
    BY <1>2, <2>1 DEF OnItsWay
  <2>3. NoneCancelled' /\ SucceededMeansDone'
    BY <2>1, <2>2 DEF Closed, NoneCancelled, SucceededMeansDone
  <2> QED BY <1>2, <2>1, <2>3 DEF Way
<1>16. CASE StoreFails(d)
  <2>1. \/ /\ r.pc = "call" /\ v.pc = "call" /\ SameNode(r, v)
           /\ v.seen = r.seen /\ v.kind = r.kind /\ v.lost = r.lost
           /\ v.unknown = r.unknown /\ v.cancelled = r.cancelled
        \/ r.pc = "close" /\ v.pc = "over"
        \/ /\ r.pc = "begin" /\ v.pc = "end" /\ v.kind = "unknown" /\ SameRun(r, v)
           /\ SameNode(r, v) /\ v.seen = r.seen
        \/ GivesUp(r, v)
    BY <1>1, <1>4, <1>16, FaultMove
  <2>2. UNCHANGED <<row, finished>> /\ (r.pc = "call" => r.telling)
    BY <1>16 DEF StoreFails, tables
  <2> HIDE DEF r, v
  <2>3. r = run[d] /\ v = run'[d]
    BY DEF r, v
  <2>4. CASE /\ r.pc = "call" /\ v.pc = "call" /\ SameNode(r, v)
             /\ v.seen = r.seen /\ v.kind = r.kind /\ v.lost = r.lost
             /\ v.unknown = r.unknown /\ v.cancelled = r.cancelled
    <3>1. v.pc \in Trying /\ r.pc \in Working /\ r.pc \in Trying
      BY <2>4 DEF Trying, Working
    <3>2. v.lost /\ (CancelBound = 0 /\ ~Churn => "cancelled" \notin v.seen \cup {v.kind})
      BY <1>2, <1>5, <2>2, <2>4, <3>1 DEF Loop, Uncancelled
    <3> QED BY <1>1, <2>2, <2>3, <2>4, <3>1, <3>2, WithinWay
  <2>5. CASE r.pc = "close" /\ v.pc = "over"
    <3>1. NoneCancelled' /\ SucceededMeansDone'
      BY <2>2 DEF Complete, NoneCancelled, SucceededMeansDone
    <3> QED BY <1>2, <2>2, <2>5, <3>1 DEF Way, v
  <2>6. CASE /\ r.pc = "begin" /\ v.pc = "end" /\ v.kind = "unknown" /\ SameRun(r, v)
             /\ SameNode(r, v) /\ v.seen = r.seen
    <3>1. v.pc \in Trying /\ r.pc \in Working /\ r.pc \in Trying
      BY <2>6 DEF Trying, Working
    <3>2. v.lost = r.lost /\ v.unknown = r.unknown /\ v.cancelled = r.cancelled /\ ~v.telling
      BY <1>2, <2>6 DEF SameRun, PlaceOK
    <3>3. CancelBound = 0 /\ ~Churn => "cancelled" \notin v.seen \cup {v.kind}
      BY <1>2, <2>6, <3>1 DEF Uncancelled
    <3> QED BY <1>1, <2>2, <2>3, <2>6, <3>1, <3>2, <3>3, WithinWay
  <2>7. CASE GivesUp(r, v)
    BY <1>1, <2>2, <2>3, <2>7, GivenUpWay DEF GivesUp
  <2> QED BY <2>1, <2>4, <2>5, <2>6, <2>7
<1>17. CASE LossRecorded(d)
  <2>1. /\ SameNode(r, v) /\ v.pc = "call" /\ v.seen = r.seen /\ v.kind = r.kind
        /\ v.lost = r.lost /\ v.unknown = r.unknown /\ v.cancelled = r.cancelled
    BY <1>1, <1>4, <1>17, LossMove
  <2>2. r.pc = "call" /\ r.telling /\ finished' = finished /\ row' = "interrupted"
    BY <1>17 DEF LossRecorded, MarkInterrupted
  <2> HIDE DEF r, v
  <2>3. r = run[d] /\ v = run'[d]
    BY DEF r, v
  <2>4. v.pc \in Trying /\ r.pc \in Working /\ r.pc \in Trying
    BY <2>1, <2>2 DEF Trying, Working
  <2>5. r.lost /\ v.lost /\ (CancelBound = 0 /\ ~Churn => "cancelled" \notin v.seen \cup {v.kind})
    BY <1>2, <1>5, <2>1, <2>2, <2>4 DEF Loop, Uncancelled
  <2> QED BY <1>1, <2>1, <2>2, <2>3, <2>4, <2>5, WithinWay
<1>18. CASE RemoteLost(d)
  <2>1. current = d
    BY <1>1, <1>18 DEF RemoteLost
  <2>2. /\ SameNode(r, v) /\ v.pc = "call" /\ r.pc = "call" /\ v.seen = r.seen /\ v.kind = r.kind
        /\ v.cancelled = r.cancelled /\ v.lost /\ v.unknown = r.unknown \cup {r.node} /\ r.node \in Remote
    BY <1>1, <1>18, <2>1, LostMove
  <2>3. UNCHANGED <<row, finished>>
    BY <1>18 DEF RemoteLost, tables
  <2> HIDE DEF r, v
  <2>4. r.pc \in Working /\ v.pc \in Working /\ v.pc \in Trying /\ r.pc \in Trying /\ r.node \notin Always
    BY <2>2 DEF Working, Trying, Calm
  <2>5. Loop(r, finished)
    BY <1>5, <2>2
  <2>6. \A i \in Required : r.nodes[i] # "cancelled"
    BY <2>4, <2>5 DEF Loop
  <2>7. Loop(v, finished)
    BY <2>2, <2>4, <2>5, <2>6 DEF Loop, SameNode
  <2>8. OnItsWay(v, finished', row')
    BY <2>2, <2>3, <2>7 DEF OnItsWay
  <2>9. NoneCancelled' /\ SucceededMeansDone'
    BY <2>3 DEF Complete, NoneCancelled, SucceededMeansDone
  <2>10. CancelBound = 0 /\ ~Churn => (\A i \in Nodes : finished'[i] # "cancelled") /\ Uncancelled(v)
    BY <1>2, <2>2, <2>3, <2>4 DEF Uncancelled, SameNode
  <2>11. Remote # {}
    BY <2>2
  <2> QED BY <2>8, <2>9, <2>10, <2>11 DEF Way, v
<1> QED
  BY <1>6, <1>7, <1>8, <1>9, <1>10, <1>11, <1>12, <1>13, <1>14, <1>15, <1>16, <1>17, <1>18 DEF Drive

-----------------------------------------------------------------------------
(* Complete is inductive *)

\* Where no driver is alive, the tables are all there is.
LEMMA CompleteIdle ==
  ASSUME Written', Active' = {}, SucceededMeansDone', NoneCancelled', FirstSweep',
         CancelBound = 0 /\ ~Churn => cancelling' = 0 /\ \A i \in Nodes : finished'[i] # "cancelled",
         Remote = {} => \A i \in Nodes : finished'[i] # "unknown"
  PROVE  Complete'
BY DEF Complete, NoCancel, NoLoss

\* A new task has all nodes before it.
LEMMA CompleteLaunch ==
  ASSUME Complete, Written', SucceededMeansDone', NoneCancelled', FirstSweep',
         UNCHANGED <<tables, cancelling>>, Active = {},
         NEW r \in RunObject, PlaceOK(r), Launch(r), r.pc = "slot", Loop(r, finished), ~r.lost,
         CancelBound = 0 /\ ~Churn => Uncancelled(r)
  PROVE  Complete'
<1>1. /\ current' \in 1 .. Drivers
      /\ run' = [run EXCEPT ![current'] = r]
      /\ run \in [1 .. Drivers -> RunObject]
  BY LaunchTyped DEF Complete, Written, TypeInv, TypeOK
<1>2. \A d \in Active' : run'[d] = r
  BY <1>1 DEF Active
<1>3. UNCHANGED <<row, finished, cancelling>>
  BY DEF tables
<1> HIDE DEF Launch
<1>4. NoCancel'
  BY <1>2, <1>3 DEF Complete, NoCancel
<1>5. NoLoss'
  BY <1>2, <1>3 DEF Complete, NoLoss
<1>6. \A d \in Active' : OnItsWay(run'[d], finished', row')
  BY <1>2, <1>3 DEF OnItsWay
<1> QED BY <1>4, <1>5, <1>6 DEF Complete

\* A run rebuilt without doubtful and cancelled nodes can go on.
LEMMA ResumedLoop ==
  ASSUME TypeInv, NEW again \in SUBSET Unknown,
         \A i \in Nodes : Rebuilt(i) = "unknown" => i \in again,
         \A i \in Required : finished[i] # "cancelled"
  PROVE  LET r == Resumed(again)
         IN  /\ Loop(r, finished) /\ ~r.lost
             /\ (\A i \in Nodes : finished[i] # "cancelled") => Uncancelled(r)
<1> DEFINE r == Resumed(again)
<1>1. /\ r.pc = "slot" /\ r.node = 1 /\ ~r.lost /\ r.unknown = {} /\ ~r.telling /\ ~r.cancelled
  BY DEF Resumed, NewRun
<1>2. \A i \in Nodes : r.nodes[i] = IF i \in again THEN "pending" ELSE Rebuilt(i)
  BY DEF Resumed, NewRun
<1> HIDE DEF r
<1>3. \A i \in Nodes : /\ r.nodes[i] # "pending" => finished[i] = r.nodes[i]
                       /\ r.nodes[i] # "unknown"
                       /\ ~(i < r.node)
  <2>1. ASSUME NEW i \in Nodes PROVE /\ r.nodes[i] # "pending" => finished[i] = r.nodes[i]
                                     /\ r.nodes[i] # "unknown"
    <3>1. Rebuilt(i) \in {"unknown", "pending", finished[i]}
      BY DEF Rebuilt
    <3> QED BY <1>2, <3>1
  <2>2. ASSUME NEW i \in Nodes PROVE ~(i < r.node)
    BY <1>1, FlowAssumption DEF Nodes
  <2> QED BY <2>1, <2>2
<1>4. \A i \in Required : i \in Nodes /\ r.nodes[i] # "cancelled" /\ ~(i < r.node)
  <2>1. ASSUME NEW i \in Required PROVE i \in Nodes /\ r.nodes[i] # "cancelled" /\ ~(i < r.node)
    <3>1. i \in Nodes
      BY FlowAssumption
    <3> QED BY <1>3, <3>1
  <2> QED BY <2>1
<1>5. Loop(r, finished)
  BY <1>1, <1>3, <1>4 DEF Loop, Trying, Working
<1>6. (\A i \in Nodes : finished[i] # "cancelled") => Uncancelled(r)
  BY <1>1, <1>3 DEF Uncancelled, Trying, Working
<1> QED BY <1>1, <1>5, <1>6 DEF r

LEMMA InitComplete == Init => Complete
<1> SUFFICES ASSUME Init PROVE Complete
  OBVIOUS
<1>1. Written /\ Active = {}
  BY InitWritten DEF Init, Active, NoRun, NewRun
<1>2. row = "none" /\ cancelling = 0 /\ \A i \in Nodes : finished[i] = "none"
  BY DEF Init
<1> QED BY <1>1, <1>2 DEF Complete, SucceededMeansDone, NoneCancelled, FirstSweep, NoCancel, NoLoss

LEMMA DriverComplete ==
  ASSUME Calm, Complete, NEW d \in 1 .. Drivers, Drive(d) \/ RemoteLost(d) \/ LossRecorded(d)
  PROVE  Complete'
<1>1. Active' \subseteq {d} /\ sweep = "done" /\ sweep' = sweep
  BY DriverStep DEF Complete, Written, Serial, OneDriver, SweepAlone
<1>2. Written' /\ Way(d)
  BY DriverWritten, DriverWay DEF Complete
<1>3. cancelling' = cancelling
  BY DEF Drive, RunStarted, Resolved, Unresolved, AttemptStarted, CallEnds, AttemptFinished,
         Retry, NodeFinished, NodePassed, RunFinished, StoreFails, RemoteLost, LossRecorded
<1>4. \A e \in Active' : e = d /\ run'[e].pc # "over"
  BY <1>1 DEF Active
<1>5. NoCancel' /\ NoLoss'
  BY <1>2, <1>3, <1>4 DEF Complete, NoCancel, NoLoss, Way
<1>6. \A e \in Active' : OnItsWay(run'[e], finished', row')
  BY <1>2, <1>4 DEF Way
<1> QED BY <1>1, <1>2, <1>5, <1>6 DEF Complete, Way, FirstSweep

LEMMA CallComplete ==
  ASSUME Care, Complete, Start \/ Started \/ Cancel \/ Cancelled
  PROVE  Complete'
<1>1. Written'
  BY CallWritten DEF Complete
<1>2. CASE Start
  <2>1. /\ Active = {} /\ sweep = "done" /\ UNCHANGED <<finished, run, cancelling, sweep>>
        /\ row' = "pending"
    BY <1>2 DEF Start, Swept, Care, Complete, Written, Serial, RowIdle
  <2>2. Active' = {}
    BY <2>1 DEF Active
  <2>3. SucceededMeansDone' /\ NoneCancelled' /\ FirstSweep'
    BY <2>1 DEF SucceededMeansDone, NoneCancelled, FirstSweep
  <2> QED BY <1>1, <2>1, <2>2, <2>3, CompleteIdle DEF Complete, NoCancel, NoLoss
<1>3. CASE Started
  <2> DEFINE r == NewRun([i \in Nodes |-> "pending"], [i \in Nodes |-> 0])
  <2>1. /\ Active = {} /\ row = "pending" /\ sweep = "done"
        /\ \A i \in Nodes : finished[i] = "none"
    BY <1>3 DEF Started, Complete, Written, Fresh, Serial, StartAlone
  <2>2. UNCHANGED <<tables, cancelling, sweep, row>> /\ Launch(r)
    BY <1>3 DEF Started, tables
  <2>3. r \in RunObject /\ PlaceOK(r)
    BY NewRunTyped DEF NodeStates
  <2>4. /\ r.pc = "slot" /\ r.node = 1 /\ ~r.lost /\ r.unknown = {} /\ ~r.telling /\ ~r.cancelled
        /\ \A i \in Nodes : r.nodes[i] = "pending"
    BY DEF NewRun
  <2> HIDE DEF r, Launch
  <2>5. \A i \in Nodes : ~(i < r.node)
    BY <2>4, FlowAssumption DEF Nodes
  <2>6. \A i \in Required : i \in Nodes
    BY FlowAssumption
  <2>7. Loop(r, finished) /\ Uncancelled(r)
    BY <2>4, <2>5, <2>6 DEF Loop, Uncancelled, Trying, Working
  <2>8. SucceededMeansDone' /\ NoneCancelled' /\ FirstSweep'
    BY <2>1, <2>2 DEF SucceededMeansDone, NoneCancelled, FirstSweep
  <2> QED BY <1>1, <2>1, <2>2, <2>3, <2>4, <2>7, <2>8, CompleteLaunch
<1>4. CASE Cancel
  <2>1. UNCHANGED <<row, finished, run, crashes, sweep>> /\ CancelBound # 0
    BY <1>4, FlowAssumption DEF Cancel, tables, Complete, Written, TypeInv, TypeOK
  <2>2. Active' = Active
    BY <2>1 DEF Active
  <2> QED BY <1>1, <2>1, <2>2 DEF Complete, SucceededMeansDone, NoneCancelled, FirstSweep, NoCancel, NoLoss
<1>5. CASE Cancelled
  <2>1. UNCHANGED <<row, finished, crashes, sweep>> /\ cancelling # 0 /\ cancelling' = 0
    BY <1>5 DEF Cancelled, tables
  <2>2. \A e \in 1 .. Drivers : run'[e] \in {run[e], [run[e] EXCEPT !.cancelled = TRUE]}
    BY <1>5 DEF Cancelled, Complete, Written, TypeInv, TypeOK
  <2>3. ASSUME NEW r \in RunObject, NEW v \in {r, [r EXCEPT !.cancelled = TRUE]},
               NEW ns, NEW state, OnItsWay(r, ns, state)
        PROVE  OnItsWay(v, ns, state) /\ v.pc = r.pc /\ v.lost = r.lost
    <3>1. /\ v.pc = r.pc /\ v.state = r.state /\ v.node = r.node /\ v.nodes = r.nodes /\ v.lost = r.lost
          /\ v.unknown = r.unknown /\ v.telling = r.telling /\ v.failed = r.failed
          /\ r.cancelled => v.cancelled
      BY <2>3 DEF RunObject
    <3> HIDE DEF RunObject
    <3>2. Loop(r, ns) => Loop(v, ns)
      BY <3>1 DEF Loop
    <3>3. Closed(r, ns) => Closed(v, ns)
      BY <3>1 DEF Closed
    <3> QED BY <2>3, <3>1, <3>2, <3>3 DEF OnItsWay
  <2>4. \A e \in 1 .. Drivers : run[e] \in RunObject
    BY DEF Complete, Written, TypeInv, TypeOK
  <2>5. \A e \in 1 .. Drivers : run'[e].pc = run[e].pc /\ run'[e].lost = run[e].lost
    <3>1. ASSUME NEW r \in RunObject, NEW v \in {r, [r EXCEPT !.cancelled = TRUE]} PROVE v.pc = r.pc /\ v.lost = r.lost
      BY <3>1 DEF RunObject
    <3> QED BY <2>2, <2>4, <3>1
  <2>6. Active' = Active /\ Active \subseteq 1 .. Drivers
    BY <2>5 DEF Active
  <2>7. \A e \in Active' : OnItsWay(run'[e], finished', row')
    BY <2>1, <2>2, <2>3, <2>4, <2>6 DEF Complete
  <2>8. NoCancel' /\ NoLoss'
    BY <2>1, <2>5, <2>6 DEF Complete, NoCancel, NoLoss
  <2> QED BY <1>1, <2>1, <2>7, <2>8 DEF Complete, SucceededMeansDone, NoneCancelled, FirstSweep
<1> QED BY <1>2, <1>3, <1>4, <1>5

LEMMA ResumeComplete ==
  ASSUME Care, Complete, NEW c \in 1 .. ResumeBound, NEW mode \in {"retry", "skip", "abort"},
         ResumeStep(c) \/ Resume(c, mode)
  PROVE  Complete'
<1>1. Written' /\ TypeInv
  BY ResumeWritten DEF Complete, Written
<1>2. Active = {} /\ row = "interrupted" /\ sweep = "done"
  <2>1. CASE Resume(c, mode)
    BY <2>1 DEF Resume, Swept, Care
  <2>2. CASE ResumeStep(c)
    <3>1. c \in Resuming
      BY <2>2 DEF ResumeStep, ResumeRun, ResumeSkip, ResumeAbort, ResumeFails, Resuming
    <3> QED BY <3>1 DEF Complete, Written, Serial, ResumeAlone
  <2> QED BY <2>1, <2>2
<1>3. \A i \in Required : i \in Nodes /\ finished[i] # "cancelled"
  BY <1>2, FlowAssumption DEF Complete, NoneCancelled
<1>4. /\ CancelBound = 0 /\ ~Churn => cancelling = 0 /\ \A i \in Nodes : finished[i] # "cancelled"
      /\ Remote = {} => \A i \in Nodes : finished[i] # "unknown"
  BY DEF Complete, NoCancel, NoLoss
<1>5. UNCHANGED <<cancelling, sweep>>
  BY DEF ResumeStep, ResumeRun, ResumeSkip, ResumeAbort, ResumeFails, Resume
<1>6. FirstSweep'
  BY <1>2, <1>5 DEF FirstSweep
<1>7. CASE ResumeRun(c)
  <2>1. UNCHANGED <<tables, row, finished>> /\ Launch(Resumed(Unknown))
    BY <1>7 DEF ResumeRun, tables
  <2> HIDE DEF Launch
  <2>2. \A i \in Nodes : Rebuilt(i) = "unknown" => i \in Unknown
    BY DEF Unknown
  <2>3. SucceededMeansDone' /\ NoneCancelled'
    BY <1>2, <1>3, <2>1 DEF SucceededMeansDone, NoneCancelled
  <2> DEFINE r == Resumed(Unknown)
  <2>4. r \in RunObject /\ PlaceOK(r) /\ r.pc = "slot"
    BY <1>1, ResumedKnown
  <2>5. Loop(r, finished) /\ ~r.lost /\ ((\A i \in Nodes : finished[i] # "cancelled") => Uncancelled(r))
    BY <1>1, <1>3, <2>2, ResumedLoop
  <2>6. Launch(r)
    BY <2>1
  <2> HIDE DEF r
  <2> QED BY <1>1, <1>2, <1>4, <1>5, <1>6, <2>1, <2>3, <2>4, <2>5, <2>6, CompleteLaunch
<1>8. CASE ~ResumeRun(c)
  <2>1. run' = run
    BY <1>8 DEF ResumeStep, ResumeSkip, ResumeAbort, ResumeFails, Resume, tables
  <2>2. Active' = {}
    BY <1>2, <2>1 DEF Active
  <2>3. row' \in {"interrupted", "failed"} /\ \A i \in Nodes : finished'[i] \in {finished[i], "skipped"}
    BY <1>2, <1>8 DEF ResumeStep, ResumeSkip, ResumeAbort, ResumeFails, Resume, tables
  <2>4. SucceededMeansDone' /\ NoneCancelled'
    BY <1>3, <2>3 DEF SucceededMeansDone, NoneCancelled
  <2>5. /\ CancelBound = 0 /\ ~Churn => cancelling' = 0 /\ \A i \in Nodes : finished'[i] # "cancelled"
        /\ Remote = {} => \A i \in Nodes : finished'[i] # "unknown"
    BY <1>4, <1>5, <2>3
  <2> QED BY <1>1, <1>6, <2>2, <2>4, <2>5, CompleteIdle
<1> QED BY <1>7, <1>8

LEMMA RestartComplete ==
  ASSUME Complete, Crash \/ Cleanup
  PROVE  Complete'
<1>1. LoseMemory
  BY DEF Crash, Cleanup
<1>2. Written'
  BY RestartWritten DEF Complete
<1>3. /\ Active' = {} /\ UNCHANGED <<row, finished>> /\ cancelling' = 0 /\ crashes' = crashes + 1
      /\ crashes \in Nat
  BY <1>1, FlowAssumption DEF LoseMemory, Active, NoRun, NewRun, Complete, Written, TypeInv, TypeOK
<1>4. SucceededMeansDone' /\ NoneCancelled' /\ FirstSweep'
  BY <1>3 DEF Complete, SucceededMeansDone, NoneCancelled, FirstSweep
<1> QED BY <1>2, <1>3, <1>4, CompleteIdle DEF Complete, NoCancel, NoLoss

LEMMA SweepComplete ==
  ASSUME Calm, Complete, Recover
  PROVE  Complete'
<1>1. Written' /\ TypeInv
  BY SweepWritten DEF Complete, Written
<1>2. /\ sweep # "done" /\ Active = {}
      /\ UNCHANGED <<finished, cancelling, crashes>>
  BY DEF Recover, SweepNothing, SweepResume, SweepDoubt, SweepMark, SweepFails, Complete, Written,
         Serial, SweepAlone, tables
<1>3. /\ CancelBound = 0 /\ ~Churn => cancelling = 0 /\ \A i \in Nodes : finished[i] # "cancelled"
      /\ Remote = {} => \A i \in Nodes : finished[i] # "unknown"
  BY DEF Complete, NoCancel, NoLoss
<1>4. ASSUME row # "none" PROVE /\ \A i \in Nodes : finished[i] \notin {"cancelled", "unknown"}
                                /\ CancelBound = 0 /\ ~Churn
  <2>1. crashes # 0
    BY <1>2, <1>4 DEF Complete, FirstSweep
  <2>2. CrashBound # 0
    BY <1>1, <2>1, FlowAssumption DEF TypeInv, TypeOK
  <2> QED BY <1>3, <2>2 DEF Calm
<1>5. CASE SweepResume
  <2>1. UNCHANGED <<tables, row>> /\ row \in {"pending", "running"} /\ Launch(Resumed(CutOff)) /\ sweep' = "done"
    BY <1>5 DEF SweepResume, tables
  <2> HIDE DEF Launch
  <2>2. CutOff \in SUBSET Unknown
    BY DEF Unknown, Rebuilt, CutOff
  <2>3. \A i \in Nodes : Rebuilt(i) = "unknown" => i \in CutOff
    <3>1. ASSUME NEW i \in Nodes, i \notin CutOff PROVE Rebuilt(i) # "unknown"
      BY <1>4, <2>1, <3>1 DEF Rebuilt
    <3> QED BY <3>1
  <2>4. \A i \in Required : finished[i] # "cancelled"
    BY <1>4, <2>1, FlowAssumption
  <2> DEFINE r == Resumed(CutOff)
  <2>5. r \in RunObject /\ PlaceOK(r) /\ r.pc = "slot"
    BY <1>1, <2>2, ResumedKnown
  <2>6. Loop(r, finished) /\ ~r.lost /\ Uncancelled(r)
    BY <1>1, <1>4, <2>1, <2>2, <2>3, <2>4, ResumedLoop
  <2>7. Launch(r)
    BY <2>1
  <2> HIDE DEF r
  <2>8. SucceededMeansDone' /\ NoneCancelled' /\ FirstSweep'
    BY <2>1 DEF SucceededMeansDone, NoneCancelled, FirstSweep
  <2> QED BY <1>1, <1>2, <2>1, <2>5, <2>6, <2>7, <2>8, CompleteLaunch
<1>6. CASE ~SweepResume
  <2>1. run' = run
    BY <1>6 DEF Recover, SweepNothing, SweepDoubt, SweepMark, SweepFails
  <2>2. Active' = {}
    BY <1>2, <2>1 DEF Active
  <2>3. row' = row \/ (row' = "interrupted" /\ row # "none")
    BY <1>6 DEF Recover, SweepNothing, SweepDoubt, SweepMark, SweepFails, MarkInterrupted, tables,
               Complete, Written, Serial, SweepAlone
  <2>4. SucceededMeansDone'
    BY <1>2, <2>3 DEF Complete, SucceededMeansDone
  <2>5. NoneCancelled'
    <3>1. CASE row' = row
      BY <1>2, <3>1 DEF Complete, NoneCancelled
    <3>2. CASE row # "none"
      BY <1>2, <1>4, <3>2, FlowAssumption DEF NoneCancelled
    <3> QED BY <2>3, <3>1, <3>2
  <2>6. FirstSweep'
    BY <1>2, <2>3 DEF Complete, FirstSweep
  <2> QED BY <1>1, <1>2, <1>3, <2>2, <2>4, <2>5, <2>6, CompleteIdle
<1> QED BY <1>5, <1>6

LEMMA StepComplete == Care /\ Calm /\ Complete /\ [Next]_vars => Complete'
<1> SUFFICES ASSUME Care, Calm, Complete, [Next]_vars
             PROVE  Complete'
  OBVIOUS
<1>1. ASSUME NEW d \in 1 .. Drivers, Drive(d) \/ RemoteLost(d) \/ LossRecorded(d)
      PROVE  Complete'
  BY <1>1, DriverComplete
<1>2. CASE Start \/ Started \/ Cancel \/ Cancelled
  BY <1>2, CallComplete
<1>3. ASSUME NEW c \in DOMAIN calls, NEW mode \in {"retry", "skip", "abort"},
             ResumeStep(c) \/ Resume(c, mode)
      PROVE  Complete'
  BY <1>3, ResumeComplete DEF Complete, Written, Serial, Domains
<1>4. CASE Crash \/ Cleanup
  BY <1>4, RestartComplete
<1>5. CASE Recover
  BY <1>5, SweepComplete
<1>6. CASE UNCHANGED vars
  <2>1. UNCHANGED <<row, steps, finished, run, current, starting, calls, cancelling, sweep, blind, crashes, cancels>>
    BY <1>6 DEF vars, tables
  <2>2. Active' = Active
    BY <2>1 DEF Active
  <2>3. Written'
    BY <1>6, StepWritten DEF Complete
  <2> QED BY <2>1, <2>2, <2>3 DEF Complete, SucceededMeansDone, NoneCancelled, FirstSweep, NoCancel, NoLoss
<1> QED
  BY <1>1, <1>2, <1>3, <1>4, <1>5, <1>6 DEF Next

\* Complete holds throughout where care is taken and the cases named by Calm do not meet.
THEOREM CompleteAlways == ASSUME Care, Calm PROVE Spec => []Complete
BY InitComplete, StepComplete, PTL DEF Spec

\* SucceededMeansDone: a run recorded as succeeded has every required node done,
\* through failing transactions, cancels, drains and lost jobs in one process,
\* or through crashes, recovery and resume calls (_advance, _rebuild_run).
THEOREM SuccessIsComplete == ASSUME Care, Calm PROVE Spec => []SucceededMeansDone
<1>1. Complete => SucceededMeansDone
  BY DEF Complete
<1> QED BY <1>1, CompleteAlways, PTL

-----------------------------------------------------------------------------
(* FlowRun implements FlowLife *)

\* The attempts of a node as FlowLife counts them.
tries == [i \in Nodes |-> Len(steps[i])]

LEMMA SameTries ==
  ASSUME \A i \in Nodes : Len(steps'[i]) = Len(steps[i])
  PROVE  tries' = tries
BY DEF tries

LEMMA DriverLife ==
  ASSUME Complete, NEW d \in 1 .. Drivers, Drive(d) \/ RemoteLost(d) \/ LossRecorded(d)
  PROVE  [Life!Next]_<<row, tries, finished>>
<1> DEFINE r == run[d]
<1>1. d \in Active /\ TypeInv
  BY DriverStep DEF Complete, Written, Serial
<1>2. /\ r \in RunObject /\ PlaceOK(r) /\ Matches(r, finished) /\ OnItsWay(r, finished, row)
      /\ r.nodes \in [Nodes -> NodeStates] /\ finished \in [Nodes -> Ends]
      /\ row \notin Final \cup {"none"}
  BY <1>1, OnTheWay
<1>3. row \in Life!Live
  BY <1>1, <1>2 DEF TypeInv, TypeOK, RunStates, Final, Life!Live
<1>4. Life!Open = Open
  BY DEF Life!Open, Open
<1>5. \A i \in Nodes : r.nodes[i] = "pending" \/ (i = r.node /\ r.pc \in {"finish", "pass"}) => i \in Open
  BY <1>2 DEF Matches, Open, Ends
<1>6. CASE RunStarted(d)
  <2>1. row' = "running" /\ UNCHANGED <<steps, finished>>
    BY <1>6 DEF RunStarted
  <2> QED BY <1>3, <2>1 DEF Life!Next, Life!Run, tries
<1>7. CASE Resolved(d) \/ Unresolved(d) \/ CallEnds(d) \/ Retry(d) \/ StoreFails(d) \/ RemoteLost(d)
  <2>1. UNCHANGED <<row, steps, finished>>
    BY <1>7 DEF Resolved, Unresolved, CallEnds, Retry, StoreFails, RemoteLost, tables
  <2> QED BY <2>1 DEF tries
<1>8. CASE AttemptStarted(d)
  <2>1. /\ r.pc = "begin" /\ UNCHANGED <<row, finished>>
        /\ steps' = IF r.attempt > Len(steps[r.node]) THEN [steps EXCEPT ![r.node] = Append(@, "running")] ELSE steps
    BY <1>8 DEF AttemptStarted
  <2>2. r.node \in Nodes /\ r.nodes[r.node] = "pending"
    BY <1>2, <2>1 DEF PlaceOK, Working
  <2>3. steps \in [Nodes -> Seq(StepStates)]
    BY <1>1 DEF TypeInv, TypeOK
  <2> HIDE DEF r
  <2>4. CASE steps' = [steps EXCEPT ![r.node] = Append(@, "running")]
    <3>1. Len(Append(steps[r.node], "running")) = Len(steps[r.node]) + 1
      BY <2>2, <2>3, AppendProperties DEF StepStates
    <3>2. /\ steps'[r.node] = Append(steps[r.node], "running")
          /\ \A k \in Nodes : k # r.node => steps'[k] = steps[k]
      BY <2>2, <2>3, <2>4
    <3>3. [k \in Nodes |-> Len(steps'[k])] = [[k \in Nodes |-> Len(steps[k])] EXCEPT ![r.node] = @ + 1]
      <4> DEFINE t == [k \in Nodes |-> Len(steps[k])]
                 u == [k \in Nodes |-> Len(steps'[k])]
      <4>1. \A k \in Nodes : Len(steps'[k]) = IF k = r.node THEN Len(steps[k]) + 1 ELSE Len(steps[k])
        BY <3>1, <3>2
      <4>2. \A k \in Nodes : u[k] = IF k = r.node THEN t[k] + 1 ELSE t[k]
        BY <4>1
      <4>3. u = [k \in Nodes |-> u[k]] /\ t = [k \in Nodes |-> t[k]]
        OBVIOUS
      <4> HIDE DEF t, u
      <4>4. u = [t EXCEPT ![r.node] = @ + 1]
        BY <2>2, <4>2, <4>3
      <4> QED BY <4>4 DEF t, u
    <3>4. r.node \in Life!Open /\ row \in Life!Live /\ UNCHANGED <<row, finished>>
      BY <1>3, <1>4, <1>5, <2>1, <2>2
    <3>5. \E k \in Nodes : Life!Attempt(k)
      BY <2>2, <3>3, <3>4, Zenon DEF Life!Attempt
    <3> QED BY <3>5 DEF Life!Next
  <2>5. CASE steps' = steps
    BY <2>1, <2>5 DEF tries
  <2> QED BY <2>1, <2>4, <2>5
<1>9. CASE AttemptFinished(d)
  <2>1. /\ UNCHANGED <<row, finished>>
        /\ steps' = IF r.attempt \in DOMAIN steps[r.node]
                   THEN [steps EXCEPT ![r.node][r.attempt] = AttemptState(r.kind)] ELSE steps
    BY <1>9 DEF AttemptFinished
  <2>2. steps \in [Nodes -> Seq(StepStates)]
    BY <1>1 DEF TypeInv, TypeOK
  <2> HIDE DEF r
  <2>3. \A k \in Nodes : Len(steps'[k]) = Len(steps[k])
    BY <2>1, <2>2
  <2> QED BY <2>1, <2>3, SameTries
<1>10. CASE NodeFinished(d) \/ NodePassed(d)
  <2>1. /\ r.pc \in {"finish", "pass"} /\ UNCHANGED <<row, steps>>
        /\ finished' = [finished EXCEPT ![r.node] = r.nodes[r.node]]
    BY <1>10 DEF NodeFinished, NodePassed
  <2> DEFINE e == r.nodes[r.node]
  <2>2. r.node \in Nodes /\ e \in NodeStates \ {"pending"}
    BY <1>2, <2>1 DEF PlaceOK
  <2>3. e \in {"succeeded", "failed", "skipped", "cancelled", "unknown"} /\ {r.node} \in SUBSET Nodes
    BY <2>2 DEF NodeStates
  <2> HIDE DEF r
  <2>4. finished' = [i \in Nodes |-> IF i \in {r.node} THEN e ELSE finished[i]]
    BY <1>2, <2>1, <2>2
  <2>5. {r.node} \subseteq Open
    BY <1>5, <2>1, <2>2
  <2> HIDE DEF e
  <2>6. Life!Settle({r.node}, e)
    BY <1>3, <1>4, <2>1, <2>4, <2>5 DEF Life!Settle, tries
  <2> QED BY <2>3, <2>6 DEF Life!Next
<1>11. CASE RunFinished(d)
  <2>1. r.pc = "close" /\ row' = r.state /\ UNCHANGED <<steps, finished>>
    BY <1>11 DEF RunFinished
  <2>2. Closed(r, finished)
    BY <1>2, <2>1 DEF OnItsWay
  <2> HIDE DEF r
  <2>3. CASE r.state = "interrupted"
    BY <1>3, <2>1, <2>3 DEF Life!Next, Life!Interrupt, tries
  <2>4. CASE r.state # "interrupted"
    <3>1. row' \in Life!Final /\ (row' # "failed" => row' \in {"succeeded", "cancelled"})
      BY <2>1, <2>2, <2>4 DEF Closed, Final, Life!Final
    <3>2. row' # "failed" => Life!Open = {}
      BY <1>4, <2>1, <2>2, <3>1 DEF Closed, Open
    <3>3. UNCHANGED <<tries, finished>>
      BY <2>1 DEF tries
    <3> QED BY <1>3, <3>1, <3>2, <3>3 DEF Life!Next, Life!End, tries
  <2> QED BY <2>3, <2>4
<1>12. CASE LossRecorded(d)
  <2>1. row' = "interrupted" /\ finished' = finished /\ MarkInterrupted
    BY <1>12 DEF LossRecorded, MarkInterrupted
  <2>2. tries' = tries
    BY <1>1, <2>1, MarkKeeps, SameTries
  <2> QED BY <1>3, <2>1, <2>2 DEF Life!Next, Life!Interrupt, tries
<1> QED
  BY <1>6, <1>7, <1>8, <1>9, <1>10, <1>11, <1>12 DEF Drive

LEMMA OtherLife ==
  ASSUME Care, Complete,
         \/ Start \/ Started \/ Cancel \/ Cancelled \/ Crash \/ Cleanup \/ Recover
         \/ \E c \in DOMAIN calls : ResumeStep(c) \/ \E mode \in {"retry", "skip", "abort"} : Resume(c, mode)
  PROVE  [Life!Next]_<<row, tries, finished>>
<1>1. TypeInv
  BY DEF Complete, Written
<1>2. CASE Start
  BY <1>2 DEF Start, Life!Next, Life!Create, tries
<1>3. CASE Crash \/ Cleanup
  <2>1. UNCHANGED <<row, finished>> /\ \A i \in Nodes : Len(steps'[i]) = Len(steps[i])
    BY <1>1, <1>3, CleanupKeeps DEF Crash, Cleanup, LoseMemory
  <2> QED BY <2>1, SameTries
<1>4. CASE SweepMark
  <2>1. row' = "interrupted" /\ finished' = finished /\ MarkInterrupted /\ row \in {"pending", "running"}
    BY <1>4 DEF SweepMark, MarkInterrupted, Complete, Written, Serial, SweepAlone
  <2>2. tries' = tries
    BY <1>1, <2>1, MarkKeeps, SameTries
  <2> QED BY <2>1, <2>2 DEF Life!Next, Life!Interrupt, Life!Live, tries
<1>5. ASSUME NEW c \in DOMAIN calls, ResumeSkip(c) \/ ResumeAbort(c)
      PROVE  [Life!Next]_<<row, tries, finished>>
  <2>1. row = "interrupted"
    <3>1. c \in Resuming
      BY <1>5 DEF ResumeSkip, ResumeAbort, Resuming, Complete, Written, Serial, Domains
    <3> QED BY <3>1 DEF Complete, Written, Serial, ResumeAlone
  <2>2. CASE ResumeSkip(c)
    <3>1. finished' = [i \in Nodes |-> IF i \in Unknown THEN "skipped" ELSE finished[i]] /\ UNCHANGED <<row, steps>>
      BY <2>2 DEF ResumeSkip
    <3>2. Unknown \in SUBSET Nodes /\ Unknown \subseteq Life!Open
      BY DEF Unknown, Rebuilt, CutOff, Life!Open
    <3>3. Life!Settle(Unknown, "skipped")
      BY <2>1, <3>1, <3>2 DEF Life!Settle, Life!Live, tries
    <3> QED BY <3>2, <3>3 DEF Life!Next
  <2>3. CASE ResumeAbort(c)
    BY <2>1, <2>3 DEF ResumeAbort, Life!Next, Life!End, Life!Live, Life!Final, tries
  <2> QED BY <1>5, <2>2, <2>3
<1>6. CASE \/ Started \/ Cancel \/ Cancelled \/ (Recover /\ ~SweepMark)
           \/ \E c \in DOMAIN calls : \/ ResumeRun(c) \/ ResumeFails(c)
                                      \/ \E mode \in {"retry", "skip", "abort"} : Resume(c, mode)
  <2>1. UNCHANGED <<row, steps, finished>>
    BY <1>6 DEF Started, Cancel, Cancelled, Recover, SweepNothing, SweepResume, SweepDoubt, SweepFails,
                ResumeRun, ResumeFails, Resume, tables
  <2> QED BY <2>1 DEF tries
<1> QED BY <1>2, <1>3, <1>4, <1>5, <1>6 DEF ResumeStep

\* KeepsLife: FlowRun implements FlowLife, whose state is the row, whose tries
\* are the steps rows and whose ends are the node-finished events: no transaction
\* changes a final state, starts an attempt of a node with a known end or ends
\* the run as succeeded or cancelled before all nodes have ended.
THEOREM LivesByTheBook == ASSUME Care, Calm PROVE Spec => KeepsLife
<1>1. Init => Life!Init
  BY DEF Init, Life!Init
<1>2. Complete /\ [Next]_vars => [Life!Next]_Life!vars
  <2> SUFFICES ASSUME Complete, [Next]_vars PROVE [Life!Next]_<<row, tries, finished>>
    BY DEF Life!vars, tries
  <2>1. ASSUME NEW d \in 1 .. Drivers, Drive(d) \/ RemoteLost(d) \/ LossRecorded(d)
        PROVE  [Life!Next]_<<row, tries, finished>>
    BY <2>1, DriverLife
  <2>2. CASE UNCHANGED vars
    BY <2>2 DEF vars, tables, tries
  <2> QED BY <2>1, <2>2, OtherLife DEF Next
<1> QED BY <1>1, <1>2, CompleteAlways, PTL DEF Spec, KeepsLife, Life!Spec

=============================================================================
