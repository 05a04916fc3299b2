-------------------------- MODULE FlowCatalogProofs --------------------------
(***************************************************************************)
(* Proofs about FlowCatalog, for any flows, plugins, requests and faults.  *)
(*                                                                         *)
(* An idempotency key stands for one run.  The lookup and the insertion    *)
(* are two transactions with the planning between them, so what holds the  *)
(* key together is the unique column; but memory answers first, and is     *)
(* right only because it is written with the insertion and retention takes *)
(* the row, never the entry.                                               *)
(*                                                                         *)
(* The cache follows the table.  A refresh that nobody overtook has built  *)
(* of the latest rows what lies before its place and has read the latest   *)
(* of what lies after it (FreshOK); and a flow whose entry is not right is *)
(* covered by a call that will refresh it or tell that it could not.       *)
(*                                                                         *)
(* The plan of a run is sound.  That is a fact about preflight first: a    *)
(* flow and overrides of which it reports no error make a sound plan       *)
(* (PlanSound), which needs to know where FlattenSeq lays the nodes of the *)
(* template and their inserts (Laid).  The invariant then says that what a *)
(* plan is made from was parsed, however it got there: by a request, from  *)
(* a row, from the cache, by an attachment or by merging.                  *)
(***************************************************************************)
EXTENDS FlowCatalog, FiniteSetTheorems, SequenceTheorems, WellFoundedInduction, TLAPS

KeyInv ==
  /\ \E S : runs \in Seq(S)
  /\ \A i \in DOMAIN runs : {"key", "kept"} \subseteq DOMAIN runs[i]
  /\ \A key \in Keys : \A i, k \in WithKey(key) : i = k
  /\ \A key \in Keys : key \in DOMAIN memory => WithKey(key) \subseteq {memory[key]}

\* Neither the table of runs nor the keys in memory change.
LEMMA RunsIdle == KeyInv /\ UNCHANGED <<runs, memory>> => KeyInv'
BY DEF KeyInv, WithKey, KeptRuns

\* The process forgets its keys.
LEMMA MemoryLost == KeyInv /\ runs' = runs /\ memory' = << >> => KeyInv'
BY DEF KeyInv, WithKey, KeptRuns

\* A run is inserted (record_run_created).
LEMMA CreateKeeps == ASSUME KeyInv, NEW j \in Jobs, Create(j) PROVE KeyInv'
<1> DEFINE key == jobs[j].key
           r == [from |-> jobs[j].flow, key |-> key, kept |-> TRUE, plan |-> jobs[j].plan]
           n == Len(runs) + 1
<1>1. CASE ~Unique(key)
  BY <1>1, RunsIdle DEF Create
<1>2. CASE Unique(key)
  <2>1. runs' = Append(runs, r)
    BY <1>2 DEF Create
  <2>2. memory' = IF key = "none" THEN memory
                                 ELSE [k \in DOMAIN memory \union {key} |-> IF k = key THEN n ELSE memory[k]]
    BY <1>2 DEF Create
  <2>3. {"key", "kept"} \subseteq DOMAIN r /\ r.key = key
    OBVIOUS
  <2> HIDE DEF r
  <2>4. PICK S : runs \in Seq(S)
    BY DEF KeyInv
  <2>5. runs \in Seq(S \union {r})
    BY <2>4
  <2>6. /\ runs' \in Seq(S \union {r})
        /\ DOMAIN runs' = DOMAIN runs \union {n} /\ n \notin DOMAIN runs
        /\ runs'[n] = r /\ \A i \in DOMAIN runs : runs'[i] = runs[i]
    BY <2>1, <2>5
  <2> HIDE DEF n, key
  <2>7. \A i \in DOMAIN runs' : {"key", "kept"} \subseteq DOMAIN runs'[i]
    BY <2>3, <2>6 DEF KeyInv
  <2>8. \A q \in Keys : WithKey(q)' \subseteq WithKey(q) \union (IF q = key /\ key # "none" THEN {n} ELSE {})
    BY <2>3, <2>6 DEF WithKey, KeptRuns
  <2>9. WithKey(key) = {}
    BY <1>2 DEF Unique, key
  <2>10. \A q \in Keys : \A i, k \in WithKey(q)' : i = k
    BY <2>8, <2>9 DEF KeyInv
  <2>11. \A q \in Keys : q \in DOMAIN memory' => WithKey(q)' \subseteq {memory'[q]}
    <3>1. CASE key = "none"
      BY <2>2, <2>8, <3>1 DEF KeyInv
    <3>2. CASE key # "none"
      <4>1. /\ DOMAIN memory' = DOMAIN memory \union {key} /\ memory'[key] = n
            /\ \A q \in DOMAIN memory \ {key} : memory'[q] = memory[q]
        BY <2>2, <3>2
      <4> QED BY <2>8, <2>9, <4>1 DEF KeyInv
    <3> QED BY <3>1, <3>2
  <2> QED BY <2>6, <2>7, <2>10, <2>11 DEF KeyInv
<1> QED BY <1>1, <1>2

\* Rows go, and no entry of memory points elsewhere.
LEMMA RetainKeeps == ASSUME KeyInv, NEW n, Retain(n) PROVE KeyInv'
<1> DEFINE e(i) == [runs[i] EXCEPT !.kept = runs[i].kept /\ i > n]
<1>1. runs' = [i \in DOMAIN runs |-> e(i)] /\ memory' = memory
  BY DEF Retain
<1>2. ASSUME NEW i \in DOMAIN runs
      PROVE  {"key", "kept"} \subseteq DOMAIN e(i) /\ e(i).key = runs[i].key /\ (e(i).kept => runs[i].kept)
  <2> DEFINE b == runs[i].kept /\ i > n
  <2>1. b => runs[i].kept
    OBVIOUS
  <2>2. e(i) = [runs[i] EXCEPT !.kept = b]
    OBVIOUS
  <2> HIDE DEF b, e
  <2>3. {"key", "kept"} \subseteq DOMAIN runs[i]
    BY DEF KeyInv
  <2>4. {"key", "kept"} \subseteq DOMAIN e(i) /\ e(i).key = runs[i].key /\ e(i).kept = b
    BY <2>2, <2>3
  <2> QED BY <2>1, <2>4
<1>3. \E S : runs' \in Seq(S)
  <2>1. PICK S : runs \in Seq(S)
    BY DEF KeyInv
  <2> DEFINE T == {e(i) : i \in DOMAIN runs}
  <2>2. DOMAIN runs = 1 .. Len(runs) /\ Len(runs) \in Nat
    BY <2>1
  <2>3. \A i \in 1 .. Len(runs) : e(i) \in T
    BY <2>2
  <2> HIDE DEF e, T
  <2>4. runs' \in Seq(T)
    BY <1>1, <2>2, <2>3
  <2> QED BY <2>4
<1> HIDE DEF e
<1>4. DOMAIN runs' = DOMAIN runs /\ \A i \in DOMAIN runs : runs'[i] = e(i)
  BY <1>1
<1>5. \A q \in Keys : WithKey(q)' \subseteq WithKey(q)
  BY <1>2, <1>4 DEF WithKey, KeptRuns
<1> QED BY <1>1, <1>2, <1>3, <1>4, <1>5 DEF KeyInv

\* No run and no key, to begin with.
LEMMA InitHolds == Init => KeyInv
<1>1. << >> \in Seq({})
  OBVIOUS
<1> QED BY <1>1 DEF Init, KeyInv, WithKey, KeptRuns

\* Only an insertion, the retention and a restart matter.
LEMMA StepHolds == KeyInv /\ [Next]_vars => KeyInv'
<1> SUFFICES ASSUME KeyInv, [Next]_vars PROVE KeyInv'
  OBVIOUS
<1>1. CASE Plugin
  BY <1>1, RunsIdle DEF Plugin, Define, Undefine, RegisterStep, CloseStep, DrainStep, Declare, Withdraw
<1>2. ASSUME NEW role \in Roles, Request(role) PROVE KeyInv'
  BY <1>2, RunsIdle DEF Request, PutFlow, PutAttachment, SaveFlow, DeleteFlow, PostRun
<1>3. ASSUME NEW j \in Jobs, Job(j) PROVE KeyInv'
  <2>1. CASE Create(j)
    BY <2>1, CreateKeeps
  <2>2. CASE \/ Insert(j) \/ ReadBack(j) \/ DeleteRows(j) \/ Pop(j) \/ Read(j) \/ BuildToFlag(j)
             \/ BuildRest(j) \/ Flag(j) \/ Lookup(j) \/ Plan(j) \/ StoreFails(j)
    BY <2>2, RunsIdle DEF Insert, ReadBack, DeleteRows, Pop, Read, BuildToFlag, BuildRest, Flag, Lookup,
                          Plan, StoreFails
  <2> QED BY <1>3, <2>1, <2>2 DEF Job
<1>4. ASSUME NEW n \in 1 .. RunBound, Retain(n) PROVE KeyInv'
  BY <1>4, RetainKeeps
<1>5. CASE Restart
  BY <1>5, MemoryLost DEF Restart
<1>6. CASE UNCHANGED vars
  BY <1>6, RunsIdle DEF vars
<1> QED BY <1>1, <1>2, <1>3, <1>4, <1>5, <1>6 DEF Next

-----------------------------------------------------------------------------
(* Keys *)

\* Two calls with one key that pass the lookup side by side, calls that repeat after a
\* restart, or after retention took the run: there is never a second row with the key,
\* and memory answers with the row there is (start, record_run_created, retain).
THEOREM KeyAlwaysOnce == Spec => []KeyOnce
<1>1. KeyInv => KeyOnce
  <2> SUFFICES ASSUME KeyInv, NEW key \in Keys
               PROVE  /\ Cardinality(WithKey(key)) <= 1
                      /\ key \in DOMAIN memory => WithKey(key) \subseteq {memory[key]}
    BY DEF KeyOnce
  <2>1. Cardinality(WithKey(key)) <= 1
    <3>1. CASE WithKey(key) = {}
      BY <3>1, FS_EmptySet
    <3>2. ASSUME NEW i \in WithKey(key) PROVE Cardinality(WithKey(key)) <= 1
      <4>1. WithKey(key) = {i}
        BY <3>2 DEF KeyInv
      <4> QED BY <4>1, FS_Singleton
    <3> QED BY <3>1, <3>2
  <2> QED BY <2>1 DEF KeyInv
<1>2. Spec => []KeyInv
  BY InitHolds, StepHolds, PTL DEF Spec
<1> QED BY <1>1, <1>2, PTL

-----------------------------------------------------------------------------
(* The cache follows the table *)

Existing == {f \in Saved : defs[f] # << >>}

\* The versions of a flow are numbered by their places.
Numbered(s) ==
  /\ \E S : s \in Seq(S)
  /\ \A i \in DOMAIN s : {"attention", "version"} \subseteq DOMAIN s[i] /\ s[i].version = i

JobOK(job) ==
  /\ {"pc", "flow", "row", "rows", "built", "at", "fresh", "wrote"} \subseteq DOMAIN job
  /\ "version" \in DOMAIN job.row /\ "attention" \in DOMAIN job.row
  /\ job.pc \in {"insert", "saved", "delete", "pop"} => job.flow \in Saved
  /\ job.pc = "saved" => job.wrote
  /\ job.pc \in {"insert", "saved", "read"} => job.at = 1 /\ job.built = << >>
  /\ job.pc \in {"build", "flag"} => job.at \in Nat \ {0}
  /\ job.pc = "flag" => job.at \in DOMAIN FlowIds

\* An entry of the latest row of the flow.
OfLatest(entry, f) == "row" \in DOMAIN entry /\ entry.row = Last(defs[f])

\* What a refresh has built, and what it has read and not yet built, is the latest.
Built(job, i) == i < job.at \/ (i = job.at /\ job.pc = "flag")
FreshOK(job) ==
  job.pc \in {"build", "flag"} /\ job.fresh =>
    /\ DOMAIN job.rows = Existing /\ DOMAIN job.built \subseteq Existing
    /\ job.pc = "flag" => FlowIds[job.at] \in Existing
    /\ \A i \in DOMAIN FlowIds : FlowIds[i] \in Existing =>
         /\ Built(job, i) => FlowIds[i] \in DOMAIN job.built /\ OfLatest(job.built[FlowIds[i]], FlowIds[i])
         /\ ~Built(job, i) => job.rows[FlowIds[i]] = Last(defs[FlowIds[i]])

Right(f) ==
  /\ f \in DOMAIN cache <=> f \in Existing
  /\ f \in Existing => cache[f].row = Last(defs[f])

\* The call will refresh the entry of the flow, or tell that it could not.
Covers(job, f) ==
  \/ job.pc = "saved" /\ job.flow = f /\ job.row.version \in DOMAIN defs[f]
  \/ job.pc \in {"read", "build", "flag"} /\ job.wrote
  \/ job.pc = "pop" /\ job.flow = f

Followed == DOMAIN cache \subseteq Saved /\ \A f \in Saved : Right(f) \/ \E j \in Jobs : Covers(jobs[j], f)

CacheInv ==
  /\ defs = [f \in Saved |-> defs[f]] /\ (\A f \in Saved : Numbered(defs[f]))
  /\ jobs = [j \in Jobs |-> jobs[j]] /\ (\A j \in Jobs : JobOK(jobs[j]) /\ FreshOK(jobs[j]))
  /\ behind \/ Followed

-----------------------------------------------------------------------------

LEMMA LeastNumber ==
  ASSUME NEW T \in SUBSET Nat, T # {}
  PROVE  \E x \in T : \A y \in T : x <= y
<1> DEFINE R == {ss \in Nat \X Nat : ss[1] < ss[2]}
<1>1. IsWellFoundedOn(R, Nat)
  BY NatLessThanWellFounded, Zenon DEF OpToRel
<1>2. \A a, b \in Nat : a < b => <<a, b>> \in R
  OBVIOUS
<1> HIDE DEF R
<1>3. PICK x \in T : \A y \in T : <<y, x>> \notin R
  BY <1>1, WFMin, Zenon
<1>4. \A y \in T : x <= y
  <2> SUFFICES ASSUME NEW y \in T PROVE x <= y
    OBVIOUS
  <2>1. ~(y < x)
    BY <1>2, <1>3
  <2> QED BY <2>1
<1> QED BY <1>4

LEMMA MinIn == ASSUME NEW T \in SUBSET Nat, T # {} PROVE Min(T) \in T
BY LeastNumber DEF Min

\* A call that begins takes a free place (asyncio.create_task).
LEMMA Spawns ==
  ASSUME FreeJob, NEW job
  PROVE  \E k \in Jobs : jobs[k].pc = "free" /\ Spawned(job) = [jobs EXCEPT ![k] = job]
<1> DEFINE T == {j \in Jobs : jobs[j].pc = "free"}
           P(j) == jobs[j].pc = "free" /\ \A k \in 1 .. j - 1 : jobs[k].pc # "free"
<1>1. T \in SUBSET Nat /\ T # {}
  BY FlowIdsAssumption DEF FreeJob, Jobs
<1>2. PICK x \in T : \A y \in T : x <= y
  BY <1>1, LeastNumber
<1>3. x \in Jobs /\ P(x)
  <2> SUFFICES ASSUME NEW k \in 1 .. x - 1, jobs[k].pc = "free" PROVE FALSE
    BY <1>2
  <2>1. x \in 1 .. JobBound
    BY DEF Jobs
  <2>2. k \in T /\ k < x
    BY <2>1, FlowIdsAssumption DEF Jobs
  <2> QED BY <1>1, <1>2, <2>2
<1>4. PICK k : k = CHOOSE j \in Jobs : jobs[j].pc = "free" /\ \A m \in 1 .. j - 1 : jobs[m].pc # "free"
  OBVIOUS
<1>5. k \in Jobs /\ P(k)
  BY <1>3, <1>4
<1>6. Spawned(job) = [jobs EXCEPT ![k] = job]
  BY <1>4 DEF Spawned
<1> QED BY <1>5, <1>6

-----------------------------------------------------------------------------

\* A call goes on, begins or ends, and neither table nor cache changes.
LEMMA JobMoves ==
  ASSUME CacheInv, NEW k \in Jobs, NEW job, jobs' = [jobs EXCEPT ![k] = job],
         UNCHANGED <<defs, cache>>, behind => behind',
         JobOK(job), FreshOK(job),
         ~behind' => \A f \in Saved : Covers(jobs[k], f) => Covers(job, f)
  PROVE  CacheInv'
<1>1. jobs' = [j \in Jobs |-> IF j = k THEN job ELSE jobs[j]]
  BY DEF CacheInv
<1>2. jobs'[k] = job /\ \A j \in Jobs \ {k} : jobs'[j] = jobs[j]
  BY <1>1
<1>3. \A j \in Jobs : JobOK(jobs'[j])
  BY <1>2 DEF CacheInv
<1>4. ASSUME NEW any PROVE FreshOK(any) = FreshOK(any)'
  BY DEF FreshOK, Existing, Built, OfLatest
<1>5. ASSUME NEW j \in Jobs PROVE FreshOK(jobs[j])'
  <2>1. PICK any : any = jobs'[j]
    OBVIOUS
  <2>2. FreshOK(any)
    BY <1>2, <2>1 DEF CacheInv
  <2> QED BY <1>4, <2>1, <2>2
<1>6. ~behind' => Followed'
  <2> SUFFICES ASSUME ~behind' PROVE Followed'
    OBVIOUS
  <2>1. Followed
    BY DEF CacheInv
  <2>2. ASSUME NEW f \in Saved PROVE Right(f)' \/ \E j \in Jobs : Covers(jobs[j], f)'
    <3>1. Right(f) => Right(f)'
      BY DEF Right, Existing
    <3>2. ASSUME NEW j \in Jobs, Covers(jobs[j], f) PROVE Covers(jobs[j], f)'
      <4>1. j = k => Covers(job, f)
        BY <3>2
      <4> QED BY <1>2, <3>2, <4>1 DEF Covers
    <3> QED BY <2>1, <3>1, <3>2 DEF Followed
  <2> QED BY <2>1, <2>2 DEF Followed
<1> QED BY <1>1, <1>3, <1>5, <1>6 DEF CacheInv, JobOK

\* A call writes to the table of flows: the others' reads are outdated.
LEMMA Writes ==
  ASSUME CacheInv, NEW k \in Jobs, NEW job, jobs' = Outdated(k, job),
         NEW f \in Saved, NEW s, Numbered(s), defs' = [defs EXCEPT ![f] = s],
         UNCHANGED <<cache, behind>>, JobOK(job), FreshOK(job)', Covers(job, f)',
         \A g \in Saved : Covers(jobs[k], g) => Covers(job, g)
  PROVE  CacheInv'
<1>1. /\ defs' = [g \in Saved |-> defs'[g]] /\ defs'[f] = s
      /\ \A g \in Saved \ {f} : defs'[g] = defs[g]
  BY DEF CacheInv
<1>2. /\ jobs' = [j \in Jobs |-> jobs'[j]] /\ jobs'[k] = job
      /\ \A j \in Jobs \ {k} : jobs'[j] = [jobs[j] EXCEPT !.fresh = FALSE]
  BY DEF Outdated
<1>3. ASSUME NEW j \in Jobs \ {k}
      PROVE  /\ JobOK(jobs'[j]) /\ ~jobs'[j].fresh /\ jobs'[j].pc = jobs[j].pc /\ jobs'[j].flow = jobs[j].flow
             /\ jobs'[j].row = jobs[j].row /\ jobs'[j].wrote = jobs[j].wrote
  <2>1. JobOK(jobs[j])
    BY DEF CacheInv
  <2>2. /\ DOMAIN jobs'[j] = DOMAIN jobs[j] /\ ~jobs'[j].fresh
        /\ jobs'[j].pc = jobs[j].pc /\ jobs'[j].flow = jobs[j].flow /\ jobs'[j].row = jobs[j].row
        /\ jobs'[j].wrote = jobs[j].wrote /\ jobs'[j].at = jobs[j].at /\ jobs'[j].built = jobs[j].built
    BY <1>2, <2>1 DEF JobOK
  <2> QED BY <2>1, <2>2 DEF JobOK
<1>4. ASSUME NEW j \in Jobs PROVE JobOK(jobs'[j]) /\ FreshOK(jobs[j])'
  <2>1. CASE j = k
    BY <1>2, <2>1 DEF FreshOK, Existing, Built, OfLatest
  <2>2. CASE j # k
    BY <1>3, <2>2 DEF FreshOK
  <2> QED BY <2>1, <2>2
<1>5. ~behind => Followed'
  <2> SUFFICES ASSUME ~behind PROVE Followed'
    OBVIOUS
  <2>1. Followed
    BY DEF CacheInv
  <2>2. Covers(jobs[k], f)'
    BY <1>2 DEF Covers
  <2>3. ASSUME NEW g \in Saved \ {f} PROVE Right(g)' \/ \E j \in Jobs : Covers(jobs[j], g)'
    <3>1. Right(g) => Right(g)'
      BY <1>1 DEF Right, Existing
    <3>2. ASSUME NEW j \in Jobs, Covers(jobs[j], g) PROVE Covers(jobs[j], g)'
      <4>1. CASE j = k
        BY <1>1, <1>2, <3>2, <4>1 DEF Covers
      <4>2. CASE j # k
        BY <1>1, <1>3, <3>2, <4>2 DEF Covers
      <4> QED BY <4>1, <4>2
    <3> QED BY <2>1, <3>1, <3>2 DEF Followed
  <2> QED BY <2>1, <2>2, <2>3 DEF Followed
<1>6. \A g \in Saved : Numbered(defs'[g])
  BY <1>1 DEF CacheInv
<1> QED BY <1>1, <1>2, <1>4, <1>5, <1>6 DEF CacheInv, JobOK, Numbered

-----------------------------------------------------------------------------
\* What a call is given to begin with, or left with at the end.
LEMMA Begins ==
  /\ JobOK(Free) /\ FreshOK(Free) /\ \A f : ~Covers(Free, f)
  /\ \A only : JobOK(Refresh(only)) /\ FreshOK(Refresh(only))
BY DEF Free, Refresh, NoRow, JobOK, FreshOK, Covers

LEMMA SpawnKeeps ==
  ASSUME CacheInv, FreeJob, NEW job, jobs' = Spawned(job), UNCHANGED <<defs, cache, behind>>,
         JobOK(job), FreshOK(job)
  PROVE  CacheInv'
<1>1. PICK k \in Jobs : jobs[k].pc = "free" /\ Spawned(job) = [jobs EXCEPT ![k] = job]
  BY Spawns
<1>2. \A f \in Saved : ~Covers(jobs[k], f)
  BY <1>1 DEF Covers
<1> QED BY <1>1, <1>2, JobMoves

\* A call ends and covers nothing that was not covered before.
LEMMA EndKeeps ==
  ASSUME CacheInv, NEW k \in Jobs, Finish(k), UNCHANGED <<defs, cache>>, behind => behind',
         ~behind' => \A f \in Saved : ~Covers(jobs[k], f)
  PROVE  CacheInv'
<1>1. PICK job : job = Free
  OBVIOUS
<1>2. JobOK(job) /\ FreshOK(job) /\ jobs' = [jobs EXCEPT ![k] = job]
  BY <1>1, Begins DEF Finish
<1> QED BY <1>2, JobMoves

\* A call is planned, or is refused and ends.
LEMMA PlannedOK == ASSUME NEW job, JobOK(job) PROVE JobOK(Planned(job)) /\ FreshOK(Planned(job))
<1> DEFINE to == ResolveFlow(job.flow)
           over == MergeOverrides(to.over, job.extra)
           result == ApplyOverrides(to.flow, over)
           plan == [base |-> to.flow, nodes |-> result.nodes, off |-> result.off, version |-> to.version]
           p == [job EXCEPT !.pc = "create", !.plan = plan]
<1>1. Planned(job) = p \/ Planned(job) = Free
  BY DEF Planned
<1>2. JobOK(p) /\ FreshOK(p)
  <2> HIDE DEF plan
  <2> QED BY DEF JobOK, FreshOK
<1> HIDE DEF p
<1> QED BY <1>1, <1>2, Begins

-----------------------------------------------------------------------------
(* One lemma per action that the cache or the table depends on *)

LEMMA SaveKeeps ==
  ASSUME CacheInv, NEW f \in Saved, NEW body, NEW enabled, FreeJob, SaveFlow(f, body, enabled)
  PROVE  CacheInv'
<1> DEFINE row == [NoRow EXCEPT !.body = body, !.enabled = enabled]
           job == [Free EXCEPT !.pc = "insert", !.flow = f, !.row = row]
<1>1. "version" \in DOMAIN row /\ "attention" \in DOMAIN row
  BY DEF NoRow
<1>2. jobs' = Spawned(job) /\ UNCHANGED <<defs, cache, behind>>
  BY DEF SaveFlow
<1> HIDE DEF row
<1>3. JobOK(job) /\ FreshOK(job)
  BY <1>1 DEF JobOK, FreshOK, Free
<1> HIDE DEF job
<1> QED BY <1>2, <1>3, SpawnKeeps

LEMMA DeleteKeeps == ASSUME CacheInv, NEW role, NEW f \in Saved, DeleteFlow(role, f) PROVE CacheInv'
<1> DEFINE job == [Free EXCEPT !.pc = "delete", !.flow = f]
<1>1. FreeJob /\ jobs' = Spawned(job) /\ UNCHANGED <<defs, cache, behind>>
  BY DEF DeleteFlow, Requested
<1>2. JobOK(job) /\ FreshOK(job)
  BY DEF JobOK, FreshOK, Free, NoRow
<1> HIDE DEF job
<1> QED BY <1>1, <1>2, SpawnKeeps

LEMMA PostKeeps ==
  ASSUME CacheInv, NEW role, NEW f, NEW extra, NEW key, PostRun(role, f, extra, key) PROVE CacheInv'
<1> DEFINE job == [Free EXCEPT !.flow = f, !.extra = extra, !.key = key]
           seek == [job EXCEPT !.pc = "lookup"]
<1>1. JobOK(job)
  BY DEF JobOK, Free, NoRow
<1>2. JobOK(seek) /\ FreshOK(seek)
  BY DEF JobOK, FreshOK, Free, NoRow
<1>3. /\ FreeJob /\ UNCHANGED <<defs, cache, behind>>
      /\ jobs' = Spawned(IF key = "none" THEN Planned(job) ELSE seek)
  BY DEF PostRun, Requested
<1> HIDE DEF job, seek
<1>4. PICK new : new = IF key = "none" THEN Planned(job) ELSE seek
  OBVIOUS
<1>5. JobOK(new) /\ FreshOK(new)
  BY <1>1, <1>2, <1>4, PlannedOK
<1> QED BY <1>3, <1>4, <1>5, SpawnKeeps

LEMMA DefineKeeps == ASSUME CacheInv, NEW t, NEW flow, Define(t, flow) PROVE CacheInv'
<1>1. PICK job : job = Refresh(t)
  OBVIOUS
<1>2. JobOK(job) /\ FreshOK(job)
  BY <1>1, Begins
<1>3. FreeJob /\ jobs' = Spawned(job) /\ UNCHANGED <<defs, cache, behind>>
  BY <1>1 DEF Define
<1> QED BY <1>2, <1>3, SpawnKeeps

\* The next version of a flow is written (save_def).
LEMMA InsertKeeps == ASSUME CacheInv, NEW j \in Jobs, Insert(j) PROVE CacheInv'
<1>1. PICK f : f = jobs[j].flow
  OBVIOUS
<1>2. PICK row : row = [jobs[j].row EXCEPT !.version = Len(defs[f]) + 1]
  OBVIOUS
<1>3. PICK job : job = [jobs[j] EXCEPT !.pc = "saved", !.row = row, !.wrote = TRUE]
  OBVIOUS
<1>4. PICK s : s = Append(defs[f], row)
  OBVIOUS
<1>5. JobOK(jobs[j]) /\ f \in Saved /\ jobs[j].pc = "insert"
  BY <1>1 DEF CacheInv, JobOK, Insert
<1>6. /\ defs' = [defs EXCEPT ![f] = s] /\ jobs' = Outdated(j, job) /\ UNCHANGED <<cache, behind>>
  BY <1>1, <1>2, <1>3, <1>4 DEF Insert
<1>7. {"attention", "version"} \subseteq DOMAIN row /\ row.version = Len(defs[f]) + 1
  BY <1>2, <1>5 DEF JobOK
<1>8. Numbered(s) /\ row.version \in DOMAIN s
  <2>1. PICK S : defs[f] \in Seq(S)
    BY <1>5 DEF CacheInv, Numbered
  <2>2. defs[f] \in Seq(S \union {row})
    BY <2>1
  <2>3. s \in Seq(S \union {row}) /\ DOMAIN s = DOMAIN defs[f] \union {Len(defs[f]) + 1}
        /\ s[Len(defs[f]) + 1] = row /\ \A i \in DOMAIN defs[f] : s[i] = defs[f][i]
    BY <1>4, <2>2
  <2>4. Numbered(defs[f])
    BY <1>5 DEF CacheInv
  <2> QED BY <1>7, <2>3, <2>4 DEF Numbered
<1>9. JobOK(job) /\ job.pc = "saved" /\ job.flow = f /\ job.row = row
  BY <1>1, <1>3, <1>5, <1>7 DEF JobOK
<1>10. FreshOK(job)'
  BY <1>9 DEF FreshOK
<1>11. Covers(job, f)'
  <2>1. defs'[f] = s
    BY <1>5, <1>6 DEF CacheInv
  <2> QED BY <1>8, <1>9, <2>1 DEF Covers
<1>12. \A g \in Saved : ~Covers(jobs[j], g)
  BY <1>5 DEF Covers
<1> QED BY <1>5, <1>6, <1>8, <1>9, <1>10, <1>11, <1>12, Writes

\* The rows of a flow are deleted (delete_def).
LEMMA RowsKeep == ASSUME CacheInv, NEW j \in Jobs, DeleteRows(j) PROVE CacheInv'
<1>1. PICK f : f = jobs[j].flow
  OBVIOUS
<1>2. PICK job : job = [jobs[j] EXCEPT !.pc = "pop"]
  OBVIOUS
<1>3. PICK s : s = << >>
  OBVIOUS
<1>4. JobOK(jobs[j]) /\ f \in Saved /\ jobs[j].pc = "delete"
  BY <1>1 DEF CacheInv, JobOK, DeleteRows
<1>5. /\ defs' = [defs EXCEPT ![f] = s] /\ jobs' = Outdated(j, job) /\ UNCHANGED <<cache, behind>>
  BY <1>1, <1>2, <1>3 DEF DeleteRows
<1>6. Numbered(s)
  <2>1. s \in Seq({}) /\ DOMAIN s = {}
    BY <1>3
  <2> QED BY <2>1 DEF Numbered
<1>7. JobOK(job) /\ job.pc = "pop" /\ job.flow = f
  BY <1>1, <1>2, <1>4 DEF JobOK
<1>8. FreshOK(job)' /\ Covers(job, f)'
  BY <1>7 DEF FreshOK, Covers
<1>9. \A g \in Saved : ~Covers(jobs[j], g)
  BY <1>4 DEF Covers
<1> QED BY <1>4, <1>5, <1>6, <1>7, <1>8, <1>9, Writes

\* The version can be read back and a refresh begins, or it is gone and the call ends.
LEMMA ReadBackKeeps == ASSUME CacheInv, NEW j \in Jobs, ReadBack(j) PROVE CacheInv'
<1>1. JobOK(jobs[j]) /\ jobs[j].pc = "saved" /\ UNCHANGED <<defs, cache, behind>>
  BY DEF CacheInv, ReadBack
<1>2. CASE jobs[j].row.version \in DOMAIN defs[jobs[j].flow]
  <2>1. PICK job : job = [jobs[j] EXCEPT !.pc = "read"]
    OBVIOUS
  <2>2. jobs' = [jobs EXCEPT ![j] = job]
    BY <1>2, <2>1 DEF ReadBack, Move, CacheInv
  <2>3. JobOK(job) /\ job.pc = "read" /\ job.wrote
    BY <1>1, <2>1 DEF JobOK
  <2>4. FreshOK(job) /\ \A f \in Saved : Covers(job, f)
    BY <2>3 DEF FreshOK, Covers
  <2> QED BY <1>1, <2>2, <2>3, <2>4, JobMoves
<1>3. CASE jobs[j].row.version \notin DOMAIN defs[jobs[j].flow]
  <2>1. \A f \in Saved : ~Covers(jobs[j], f)
    BY <1>1, <1>3 DEF Covers
  <2>2. Finish(j)
    BY <1>3 DEF ReadBack
  <2> QED BY <1>1, <2>1, <2>2, EndKeeps
<1> QED BY <1>2, <1>3

\* The entry of a deleted flow goes (delete_flow).
LEMMA PopKeeps == ASSUME CacheInv, NEW j \in Jobs, Pop(j) PROVE CacheInv'
<1>1. PICK f : f = jobs[j].flow
  OBVIOUS
<1>2. JobOK(jobs[j]) /\ jobs[j].pc = "pop" /\ f \in Saved
  BY <1>1 DEF CacheInv, Pop, JobOK
<1>3. /\ cache' = Without(cache, f) /\ behind' = (behind \/ defs[f] # << >>)
      /\ defs' = defs /\ jobs' = [jobs EXCEPT ![j] = Free]
  BY <1>1 DEF Pop, Finish
<1>4. DOMAIN cache' = DOMAIN cache \ {f} /\ \A g \in DOMAIN cache \ {f} : cache'[g] = cache[g]
  BY <1>3 DEF Without
<1>5. PICK job : job = Free
  OBVIOUS
<1>6. jobs' = [k \in Jobs |-> jobs'[k]] /\ jobs'[j] = job /\ \A k \in Jobs \ {j} : jobs'[k] = jobs[k]
  BY <1>3, <1>5 DEF CacheInv
<1>7. JobOK(job) /\ FreshOK(job)
  BY <1>5, Begins
<1>8. ASSUME NEW k \in Jobs PROVE JobOK(jobs'[k]) /\ FreshOK(jobs[k])'
  <2>1. PICK any : any = jobs'[k]
    OBVIOUS
  <2>2. JobOK(any) /\ FreshOK(any)
    BY <1>6, <1>7, <2>1 DEF CacheInv
  <2>3. FreshOK(any)'
    BY <1>3, <2>2 DEF FreshOK, Existing, Built, OfLatest
  <2> QED BY <2>1, <2>2, <2>3
<1>9. ~behind' => Followed'
  <2> SUFFICES ASSUME ~behind' PROVE Followed'
    OBVIOUS
  <2>1. Followed /\ defs[f] = << >>
    BY <1>3 DEF CacheInv
  <2>2. Right(f)'
    BY <1>3, <1>4, <2>1 DEF Right, Existing
  <2>3. ASSUME NEW g \in Saved \ {f} PROVE Right(g)' \/ \E k \in Jobs : Covers(jobs[k], g)'
    <3>1. Right(g) => Right(g)'
      BY <1>3, <1>4 DEF Right, Existing
    <3>2. ASSUME NEW k \in Jobs, Covers(jobs[k], g) PROVE Covers(jobs[k], g)'
      <4>1. k # j
        BY <1>1, <1>2, <3>2 DEF Covers
      <4> QED BY <1>3, <1>6, <3>2, <4>1 DEF Covers
    <3> QED BY <2>1, <3>1, <3>2 DEF Followed
  <2> QED BY <1>4, <2>1, <2>2, <2>3 DEF Followed
<1>10. defs' = [g \in Saved |-> defs'[g]] /\ \A g \in Saved : Numbered(defs'[g])
  BY <1>3 DEF CacheInv
<1> QED BY <1>6, <1>8, <1>9, <1>10 DEF CacheInv, JobOK, Numbered

\* A refresh reads the latest rows.
LEMMA ReadKeeps == ASSUME CacheInv, NEW j \in Jobs, Read(j) PROVE CacheInv'
<1>1. PICK rows : rows = Latest
  OBVIOUS
<1>2. PICK job : job = [jobs[j] EXCEPT !.pc = "build", !.rows = rows, !.fresh = TRUE]
  OBVIOUS
<1>3. JobOK(jobs[j]) /\ jobs[j].pc = "read" /\ UNCHANGED <<defs, cache, behind>>
  BY DEF CacheInv, Read
<1>4. jobs' = [jobs EXCEPT ![j] = job]
  BY <1>1, <1>2 DEF Read, CacheInv
<1>5. JobOK(job) /\ job.pc = "build" /\ job.rows = rows /\ job.at = 1 /\ job.built = << >>
      /\ job.wrote = jobs[j].wrote
  BY <1>2, <1>3 DEF JobOK
<1>6. DOMAIN rows = Existing /\ \A f \in Existing : rows[f] = Last(defs[f])
  BY <1>1 DEF Latest, Existing
<1>7. FreshOK(job)
  <2>1. DOMAIN FlowIds = 1 .. Len(FlowIds) /\ Len(FlowIds) \in Nat
    BY FlowIdsAssumption
  <2>2. \A i \in DOMAIN FlowIds : ~Built(job, i)
    BY <1>5, <2>1 DEF Built
  <2>3. DOMAIN job.built = {}
    BY <1>5
  <2> QED BY <1>5, <1>6, <2>2, <2>3 DEF FreshOK
<1>8. \A f \in Saved : Covers(jobs[j], f) => Covers(job, f)
  BY <1>3, <1>5 DEF Covers
<1> QED BY <1>3, <1>4, <1>5, <1>7, <1>8, JobMoves

-----------------------------------------------------------------------------
(* A refresh builds and flags *)

\* What has been built up to place n is of the latest rows, if the reads still are.
LEMMA BuiltRight ==
  ASSUME NEW job, job.pc = "build", job.fresh, JobOK(job), FreshOK(job), NEW n \in Nat, n <= Len(FlowIds)
  PROVE  /\ DOMAIN BuiltTo(job, n) \subseteq Existing
         /\ \A i \in DOMAIN FlowIds : i <= n /\ FlowIds[i] \in Existing =>
              FlowIds[i] \in DOMAIN BuiltTo(job, n) /\ OfLatest(BuiltTo(job, n)[FlowIds[i]], FlowIds[i])
<1> DEFINE D == {FlowIds[k] : k \in job.at .. n} \cap DOMAIN job.rows
<1>1. /\ DOMAIN BuiltTo(job, n) = D \union DOMAIN job.built
      /\ \A f \in D : BuiltTo(job, n)[f] = BuildEntry(job.rows[f])
      /\ \A f \in DOMAIN job.built \ D : BuiltTo(job, n)[f] = job.built[f]
  BY DEF BuiltTo
<1>2. /\ DOMAIN job.rows = Existing /\ DOMAIN job.built \subseteq Existing
      /\ \A i \in DOMAIN FlowIds : FlowIds[i] \in Existing =>
           /\ i < job.at => FlowIds[i] \in DOMAIN job.built /\ OfLatest(job.built[FlowIds[i]], FlowIds[i])
           /\ ~(i < job.at) => job.rows[FlowIds[i]] = Last(defs[FlowIds[i]])
  BY DEF FreshOK, Built
<1>3. job.at \in Nat \ {0} /\ DOMAIN FlowIds = 1 .. Len(FlowIds) /\ Len(FlowIds) \in Nat
  BY FlowIdsAssumption DEF JobOK
<1>4. ASSUME NEW row PROVE "row" \in DOMAIN BuildEntry(row) /\ BuildEntry(row).row = row
  BY DEF BuildEntry
<1>5. ASSUME NEW i \in DOMAIN FlowIds, i <= n, FlowIds[i] \in Existing
      PROVE  FlowIds[i] \in DOMAIN BuiltTo(job, n) /\ OfLatest(BuiltTo(job, n)[FlowIds[i]], FlowIds[i])
  <2>1. CASE i < job.at
    <3>1. FlowIds[i] \notin {FlowIds[k] : k \in job.at .. n}
      <4> SUFFICES ASSUME NEW k \in job.at .. n, FlowIds[k] = FlowIds[i] PROVE FALSE
        OBVIOUS
      <4>1. k \in DOMAIN FlowIds /\ k # i
        BY <1>3, <2>1
      <4> QED BY <4>1, FlowIdsAssumption DEF IsInjective
    <3>2. FlowIds[i] \notin D
      BY <3>1
    <3> HIDE DEF D
    <3> QED BY <1>1, <1>2, <1>5, <2>1, <3>2
  <2>2. CASE ~(i < job.at)
    <3>1. FlowIds[i] \in D
      BY <1>2, <1>3, <1>5, <2>2
    <3> HIDE DEF D
    <3> QED BY <1>1, <1>2, <1>4, <1>5, <2>2, <3>1 DEF OfLatest
  <2> QED BY <2>1, <2>2
<1>6. D \subseteq Existing
  BY <1>2
<1> QED BY <1>1, <1>2, <1>5, <1>6

\* Entries are built up to one whose flag is wrong.
LEMMA BuildToFlagKeeps == ASSUME CacheInv, NEW j \in Jobs, BuildToFlag(j) PROVE CacheInv'
<1>1. PICK old : old = jobs[j]
  OBVIOUS
<1>2. PICK i : i = Min(Changed(old))
  OBVIOUS
<1>3. PICK built : built = BuiltTo(old, i)
  OBVIOUS
<1>4. PICK job : job = [old EXCEPT !.pc = "flag", !.at = i, !.built = built]
  OBVIOUS
<1>5. JobOK(old) /\ FreshOK(old) /\ old.pc = "build" /\ UNCHANGED <<defs, cache, behind>>
  BY <1>1 DEF CacheInv, BuildToFlag
<1>6. jobs' = [jobs EXCEPT ![j] = job]
  BY <1>1, <1>2, <1>3, <1>4 DEF BuildToFlag, CacheInv
<1>7. old.at \in Nat \ {0} /\ DOMAIN FlowIds = 1 .. Len(FlowIds) /\ Len(FlowIds) \in Nat
  BY <1>5, FlowIdsAssumption DEF JobOK
<1>8. i \in Changed(old)
  <2>1. Changed(old) \in SUBSET Nat
    BY <1>7 DEF Changed
  <2>2. Changed(old) # {}
    BY <1>1 DEF BuildToFlag
  <2> QED BY <1>2, <2>1, <2>2, MinIn
<1>9. i \in old.at .. Len(FlowIds) /\ i \in DOMAIN FlowIds /\ FlowIds[i] \in DOMAIN old.rows
  BY <1>7, <1>8 DEF Changed
<1>10. /\ JobOK(job) /\ job.pc = "flag" /\ job.at = i /\ job.built = built /\ job.rows = old.rows
       /\ job.fresh = old.fresh /\ job.wrote = old.wrote
  BY <1>4, <1>5, <1>7, <1>9 DEF JobOK
<1>11. FreshOK(job)
  <2> SUFFICES ASSUME old.fresh PROVE FreshOK(job)
    BY <1>10 DEF FreshOK
  <2>1. DOMAIN built \subseteq Existing
        /\ \A m \in DOMAIN FlowIds : m <= i /\ FlowIds[m] \in Existing =>
             FlowIds[m] \in DOMAIN built /\ OfLatest(built[FlowIds[m]], FlowIds[m])
    BY <1>3, <1>5, <1>7, <1>9, BuiltRight
  <2>2. DOMAIN old.rows = Existing /\ \A m \in DOMAIN FlowIds : FlowIds[m] \in Existing =>
          (~(m < old.at) => old.rows[FlowIds[m]] = Last(defs[FlowIds[m]]))
    BY <1>5 DEF FreshOK, Built
  <2>3. \A m \in DOMAIN FlowIds : Built(job, m) => m <= i
    BY <1>7, <1>9, <1>10 DEF Built
  <2>4. \A m \in DOMAIN FlowIds : ~Built(job, m) => ~(m < old.at)
    BY <1>7, <1>9, <1>10 DEF Built
  <2> QED BY <1>9, <1>10, <2>1, <2>2, <2>3, <2>4 DEF FreshOK
<1>12. \A f \in Saved : Covers(jobs[j], f) => Covers(job, f)
  BY <1>1, <1>5, <1>10 DEF Covers
<1> QED BY <1>5, <1>6, <1>10, <1>11, <1>12, JobMoves

\* The rest is built and becomes the cache.
LEMMA BuildRestKeeps == ASSUME CacheInv, NEW j \in Jobs, BuildRest(j) PROVE CacheInv'
<1>1. PICK old : old = jobs[j]
  OBVIOUS
<1>2. PICK built : built = BuiltTo(old, Len(FlowIds))
  OBVIOUS
<1>3. JobOK(old) /\ FreshOK(old) /\ old.pc = "build"
  BY <1>1 DEF CacheInv, BuildRest
<1>4. cache' = built /\ behind' = ~old.fresh /\ defs' = defs /\ jobs' = [jobs EXCEPT ![j] = Free]
  BY <1>1, <1>2 DEF BuildRest, Finish
<1>5. PICK job : job = Free
  OBVIOUS
<1>6. jobs' = [k \in Jobs |-> jobs'[k]] /\ jobs'[j] = job /\ \A k \in Jobs \ {j} : jobs'[k] = jobs[k]
  BY <1>4, <1>5 DEF CacheInv
<1>7. JobOK(job) /\ FreshOK(job)
  BY <1>5, Begins
<1>8. ASSUME NEW k \in Jobs PROVE JobOK(jobs'[k]) /\ FreshOK(jobs[k])'
  <2>1. PICK any : any = jobs'[k]
    OBVIOUS
  <2>2. JobOK(any) /\ FreshOK(any)
    BY <1>6, <1>7, <2>1 DEF CacheInv
  <2>3. FreshOK(any)'
    BY <1>4, <2>2 DEF FreshOK, Existing, Built, OfLatest
  <2> QED BY <2>1, <2>2, <2>3
<1>9. ~behind' => Followed'
  <2> SUFFICES ASSUME old.fresh PROVE Followed'
    BY <1>4
  <2>1. Len(FlowIds) \in Nat /\ DOMAIN FlowIds = 1 .. Len(FlowIds)
    BY FlowIdsAssumption
  <2>2. DOMAIN built \subseteq Existing
        /\ \A m \in DOMAIN FlowIds : FlowIds[m] \in Existing =>
             FlowIds[m] \in DOMAIN built /\ OfLatest(built[FlowIds[m]], FlowIds[m])
    BY <1>2, <1>3, <2>1, BuiltRight
  <2>3. ASSUME NEW f \in Saved PROVE Right(f)'
    <3>1. PICK i \in DOMAIN FlowIds : FlowIds[i] = f
      BY DEF Saved, Range
    <3> QED BY <1>4, <2>2, <3>1 DEF Right, OfLatest, Existing
  <2> QED BY <1>4, <2>2, <2>3 DEF Followed, Existing
<1>10. defs' = [g \in Saved |-> defs'[g]] /\ \A g \in Saved : Numbered(defs'[g])
  BY <1>4 DEF CacheInv
<1> QED BY <1>6, <1>8, <1>9, <1>10 DEF CacheInv, JobOK, Numbered

\* A flag is put right on the version that was read, or the version is gone (set_def_flags).
LEMMA FlagKeeps == ASSUME CacheInv, NEW j \in Jobs, Flag(j) PROVE CacheInv'
<1>1. PICK old : old = jobs[j]
  OBVIOUS
<1>2. PICK f : f = FlowIds[old.at]
  OBVIOUS
<1>3. PICK entry : entry = old.built[f]
  OBVIOUS
<1>4. PICK flagged : flagged = Flagged(entry)
  OBVIOUS
<1>5. PICK v : v = entry.row.version
  OBVIOUS
<1>6. PICK job : job = [old EXCEPT !.pc = "build", !.at = old.at + 1, !.wrote = TRUE, !.built[f] = flagged]
  OBVIOUS
<1>7. JobOK(old) /\ FreshOK(old) /\ old.pc = "flag" /\ UNCHANGED <<cache, behind>>
  BY <1>1 DEF CacheInv, Flag
<1>8. /\ v \in DOMAIN defs[f] => defs' = [defs EXCEPT ![f][v].attention = entry.broken] /\ jobs' = Outdated(j, job)
      /\ v \notin DOMAIN defs[f] => defs' = defs /\ jobs' = [jobs EXCEPT ![j] = job]
  BY <1>1, <1>2, <1>3, <1>4, <1>5, <1>6 DEF Flag
<1>9. /\ old.at \in DOMAIN FlowIds /\ f \in Saved
      /\ DOMAIN FlowIds = 1 .. Len(FlowIds) /\ Len(FlowIds) \in Nat
  BY <1>2, <1>7, FlowIdsAssumption DEF JobOK, Saved, Range
<1>10. /\ JobOK(job) /\ job.pc = "build" /\ job.at = old.at + 1 /\ job.wrote /\ job.rows = old.rows
       /\ job.fresh = old.fresh
       /\ DOMAIN job.built = DOMAIN old.built
       /\ f \in DOMAIN old.built => job.built[f] = flagged
       /\ \A g \in DOMAIN old.built \ {f} : job.built[g] = old.built[g]
  BY <1>6, <1>7, <1>9 DEF JobOK
<1>11. \A g : Covers(job, g)
  BY <1>10 DEF Covers
<1>12. CASE v \notin DOMAIN defs[f]
  <2>1. ~old.fresh
    <3> SUFFICES ASSUME old.fresh PROVE FALSE
      OBVIOUS
    <3>1. f \in Existing /\ OfLatest(entry, f)
      BY <1>2, <1>3, <1>7, <1>9 DEF FreshOK, Built
    <3>2. Numbered(defs[f]) /\ defs[f] # << >>
      BY <1>9, <3>1 DEF CacheInv, Existing
    <3>3. Len(defs[f]) \in DOMAIN defs[f]
      BY <3>2 DEF Numbered
    <3> QED BY <1>5, <1>12, <3>1, <3>2, <3>3 DEF Numbered, OfLatest, Last
  <2>2. FreshOK(job)
    BY <1>10, <2>1 DEF FreshOK
  <2> QED BY <1>7, <1>8, <1>10, <1>11, <1>12, <2>2, JobMoves
<1>13. CASE v \in DOMAIN defs[f]
  <2>1. PICK row : row = [defs[f][v] EXCEPT !.attention = entry.broken]
    OBVIOUS
  <2>2. PICK s : s = [defs[f] EXCEPT ![v] = row]
    OBVIOUS
  <2>3. Numbered(defs[f])
    BY <1>9 DEF CacheInv
  <2>4. defs' = [defs EXCEPT ![f] = s] /\ jobs' = Outdated(j, job)
    <3>1. jobs' = Outdated(j, job)
      BY <1>8, <1>13
    <3>2. defs' = [defs EXCEPT ![f][v].attention = entry.broken]
      BY <1>8, <1>13
    <3> QED BY <1>13, <2>1, <2>2, <3>1, <3>2
  <2>5. DOMAIN row = DOMAIN defs[f][v] /\ row.version = v
    BY <1>13, <2>1, <2>3 DEF Numbered
  <2>6. /\ DOMAIN s = DOMAIN defs[f] /\ s[v] = row /\ Len(s) = Len(defs[f])
        /\ \A i \in DOMAIN s \ {v} : s[i] = defs[f][i]
        /\ \E S : s \in Seq(S)
    <3>1. PICK S : defs[f] \in Seq(S)
      BY <2>3 DEF Numbered
    <3>2. defs[f] \in Seq(S \union {row})
      BY <3>1
    <3>3. s \in Seq(S \union {row}) /\ DOMAIN s = DOMAIN defs[f] /\ Len(s) = Len(defs[f])
      BY <1>13, <2>2, <3>2
    <3> QED BY <1>13, <2>2, <3>3
  <2>7. Numbered(s)
    BY <1>13, <2>3, <2>5, <2>6 DEF Numbered
  <2>8. defs'[f] = s /\ \A g \in Saved \ {f} : defs'[g] = defs[g]
    BY <1>9, <2>4 DEF CacheInv
  <2>9. FreshOK(job)'
    <3> SUFFICES ASSUME old.fresh PROVE FreshOK(job)'
      BY <1>10 DEF FreshOK
    <3>1. f \in Existing /\ f \in DOMAIN old.built /\ OfLatest(entry, f)
      BY <1>2, <1>3, <1>7, <1>9 DEF FreshOK, Built
    <3>2. s # << >> /\ Existing' = Existing
      <4>1. s # << >>
        BY <1>13, <2>6
      <4> QED BY <2>8, <3>1, <4>1 DEF Existing
    <3>3. OfLatest(flagged, f)'
      <4>1. Len(defs[f]) \in DOMAIN defs[f]
        BY <2>3, <3>1 DEF Numbered, Existing
      <4>2. v = Len(defs[f]) /\ entry.row = defs[f][v]
        BY <1>5, <2>3, <3>1, <4>1 DEF Numbered, OfLatest, Last
      <4>3. "row" \in DOMAIN flagged /\ flagged.row = row
        BY <1>4, <2>1, <3>1, <4>2 DEF Flagged, OfLatest
      <4> QED BY <2>6, <2>8, <4>2, <4>3 DEF OfLatest, Last
    <3>4. ASSUME NEW i \in DOMAIN FlowIds, FlowIds[i] \in Existing, FlowIds[i] # f
          PROVE  /\ Built(job, i) => FlowIds[i] \in DOMAIN job.built /\ OfLatest(job.built[FlowIds[i]], FlowIds[i])'
                 /\ ~Built(job, i) => job.rows[FlowIds[i]] = Last(defs'[FlowIds[i]])
      <4>1. FlowIds[i] \in Saved /\ defs'[FlowIds[i]] = defs[FlowIds[i]]
        BY <2>8, <3>4 DEF Existing
      <4>2. Built(job, i) => Built(old, i)
        BY <1>7, <1>9, <1>10 DEF Built
      <4>3. Built(old, i) => Built(job, i)
        BY <1>7, <1>9, <1>10 DEF Built
      <4> QED BY <1>7, <1>10, <3>4, <4>1, <4>2, <4>3 DEF FreshOK, OfLatest
    <3>5. \A i \in DOMAIN FlowIds : FlowIds[i] = f => Built(job, i)
      <4>1. \A i \in DOMAIN FlowIds : FlowIds[i] = f => i = old.at
        BY <1>2, <1>9, FlowIdsAssumption DEF IsInjective
      <4> QED BY <1>9, <1>10, <4>1 DEF Built
    <3>6. DOMAIN job.rows = Existing /\ DOMAIN job.built \subseteq Existing
      BY <1>7, <1>10 DEF FreshOK
    <3> QED BY <1>10, <3>1, <3>2, <3>3, <3>4, <3>5, <3>6 DEF FreshOK, Built
  <2>10. Covers(job, f)' /\ \A g \in Saved : Covers(jobs[j], g) => Covers(job, g)
    BY <1>10, <1>11 DEF Covers
  <2> QED BY <1>7, <1>9, <1>10, <2>4, <2>7, <2>9, <2>10, Writes
<1> QED BY <1>12, <1>13

-----------------------------------------------------------------------------

\* Calls that start runs have no part in it.
LEMMA StartKeeps ==
  ASSUME CacheInv, NEW j \in Jobs, Lookup(j) \/ Plan(j) \/ Create(j) PROVE CacheInv'
<1>1. JobOK(jobs[j]) /\ UNCHANGED <<defs, cache, behind>> /\ jobs[j].pc \in {"lookup", "plan", "create"}
  BY DEF CacheInv, Lookup, Plan, Create
<1>2. \A f \in Saved : ~Covers(jobs[j], f)
  BY <1>1 DEF Covers
<1>3. PICK old : old = jobs[j]
  OBVIOUS
<1>4. CASE Finish(j)
  BY <1>1, <1>2, <1>4, EndKeeps
<1>5. CASE jobs' = [jobs EXCEPT ![j] = Planned(old)]
  <2>1. PICK job : job = Planned(old)
    OBVIOUS
  <2>2. JobOK(job) /\ FreshOK(job)
    BY <1>1, <1>3, <2>1, PlannedOK
  <2> QED BY <1>1, <1>2, <1>5, <2>1, <2>2, JobMoves
<1>6. CASE Move(j, "plan")
  <2>1. PICK job : job = [old EXCEPT !.pc = "plan"]
    OBVIOUS
  <2>2. JobOK(job) /\ job.pc = "plan"
    BY <1>1, <1>3, <2>1 DEF JobOK
  <2>3. FreshOK(job)
    BY <2>2 DEF FreshOK
  <2>4. jobs' = [jobs EXCEPT ![j] = job]
    BY <1>3, <1>6, <2>1 DEF Move, CacheInv
  <2> QED BY <1>1, <1>2, <2>2, <2>3, <2>4, JobMoves
<1> QED BY <1>3, <1>4, <1>5, <1>6 DEF Lookup, Plan, Create

\* A statement fails; a call that has written tells that the cache is behind.
LEMMA FailKeeps == ASSUME CacheInv, NEW j \in Jobs, StoreFails(j) PROVE CacheInv'
<1>1. /\ JobOK(jobs[j]) /\ Finish(j) /\ UNCHANGED <<defs, cache>> /\ jobs[j].pc \in AtStore
      /\ behind' = (behind \/ jobs[j].wrote)
  BY DEF CacheInv, StoreFails
<1>2. ~behind' => \A f \in Saved : ~Covers(jobs[j], f)
  BY <1>1 DEF Covers, JobOK, AtStore
<1> QED BY <1>1, <1>2, EndKeeps

\* The process comes up again: only the table is left.
LEMMA RestartKeeps == CacheInv /\ Restart => CacheInv'
<1> SUFFICES ASSUME CacheInv, Restart PROVE CacheInv'
  OBVIOUS
<1>1. PICK first : first = Refresh("all")
  OBVIOUS
<1>2. PICK free : free = Free
  OBVIOUS
<1>3. JobOK(first) /\ FreshOK(first) /\ JobOK(free) /\ FreshOK(free)
  BY <1>1, <1>2, Begins
<1>4. behind' /\ defs' = defs /\ jobs' = [k \in Jobs |-> IF k = 1 THEN first ELSE free]
  BY <1>1, <1>2 DEF Restart
<1>5. ASSUME NEW k \in Jobs PROVE JobOK(jobs'[k]) /\ FreshOK(jobs[k])'
  <2>1. PICK any : any = jobs'[k]
    OBVIOUS
  <2>2. JobOK(any) /\ FreshOK(any)
    BY <1>3, <1>4, <2>1
  <2>3. FreshOK(any)'
    BY <1>4, <2>2 DEF FreshOK, Existing, Built, OfLatest
  <2> QED BY <2>1, <2>2, <2>3
<1>6. defs' = [g \in Saved |-> defs'[g]] /\ \A g \in Saved : Numbered(defs'[g])
  BY <1>4 DEF CacheInv
<1> QED BY <1>4, <1>5, <1>6 DEF CacheInv, JobOK, Numbered

LEMMA CacheIdle == CacheInv /\ UNCHANGED <<defs, cache, jobs, behind>> => CacheInv'
<1> SUFFICES ASSUME CacheInv, UNCHANGED <<defs, cache, jobs, behind>> PROVE CacheInv'
  OBVIOUS
<1>1. (\A j \in Jobs : FreshOK(jobs[j])) => (\A j \in Jobs : FreshOK(jobs[j]))'
  BY DEF FreshOK, Existing, Built, OfLatest
<1>2. Followed => Followed'
  BY DEF Followed, Right, Covers, Existing
<1> QED BY <1>1, <1>2 DEF CacheInv, JobOK, Numbered

\* Nothing is saved and nothing is cached, to begin with.
LEMMA CacheInit == Init => CacheInv
<1> SUFFICES ASSUME Init PROVE CacheInv
  OBVIOUS
<1>1. /\ defs = [f \in Saved |-> << >>] /\ cache = << >> /\ jobs = [j \in Jobs |-> Free]
  BY DEF Init
<1>2. << >> \in Seq({}) /\ DOMAIN << >> = {}
  OBVIOUS
<1>3. \A f \in Saved : Numbered(defs[f])
  BY <1>1, <1>2 DEF Numbered
<1>4. \A j \in Jobs : JobOK(jobs[j]) /\ FreshOK(jobs[j])
  BY <1>1, Begins
<1>5. Followed
  BY <1>1, <1>2 DEF Followed, Right, Existing
<1> QED BY <1>1, <1>3, <1>4, <1>5 DEF CacheInv

LEMMA CacheStep == CacheInv /\ [Next]_vars => CacheInv'
<1> SUFFICES ASSUME CacheInv, [Next]_vars PROVE CacheInv'
  OBVIOUS
<1>1. ASSUME Plugin PROVE CacheInv'
  <2>1. CASE \E t \in DOMAIN Templates : \E flow \in Templates[t] : Define(t, flow)
    BY <2>1, DefineKeeps
  <2>2. CASE UNCHANGED <<defs, cache, jobs, behind>>
    BY <2>2, CacheIdle
  <2> QED BY <1>1, <2>1, <2>2 DEF Plugin, Undefine, RegisterStep, CloseStep, DrainStep, Declare, Withdraw
<1>2. ASSUME NEW role \in Roles, Request(role) PROVE CacheInv'
  <2>1. ASSUME NEW f \in Saved, NEW enabled \in BOOLEAN, NEW body \in Bodies[f], PutFlow(role, f, body, enabled)
        PROVE  CacheInv'
    BY <2>1, SaveKeeps DEF PutFlow, Requested
  <2>2. ASSUME NEW a \in Attachments, NEW f \in Saved, NEW on \in BOOLEAN, PutAttachment(role, a, f, on)
        PROVE  CacheInv'
    BY <2>2, SaveKeeps DEF PutAttachment, Requested
  <2>3. ASSUME NEW f \in Saved, DeleteFlow(role, f) PROVE CacheInv'
    BY <2>3, DeleteKeeps
  <2>4. ASSUME NEW f \in Saved \cup DOMAIN Templates, NEW extra \in RunOverrides, NEW key \in Keys \cup {"none"},
               PostRun(role, f, extra, key)
        PROVE  CacheInv'
    BY <2>4, PostKeeps
  <2> QED BY <1>2, <2>1, <2>2, <2>3, <2>4 DEF Request
<1>3. ASSUME NEW j \in Jobs, Job(j) PROVE CacheInv'
  BY <1>3, InsertKeeps, ReadBackKeeps, RowsKeep, PopKeeps, ReadKeeps, BuildToFlagKeeps, BuildRestKeeps, FlagKeeps,
     StartKeeps, FailKeeps DEF Job
<1>4. ASSUME NEW n \in 1 .. RunBound, Retain(n) PROVE CacheInv'
  BY <1>4, CacheIdle DEF Retain
<1>5. CASE Restart
  BY <1>5, RestartKeeps
<1>6. CASE UNCHANGED vars
  BY <1>6, CacheIdle DEF vars
<1> QED BY <1>1, <1>2, <1>3, <1>4, <1>5, <1>6 DEF Next

\* Saves, deletions and refreshes interleave at every await, flags are written while others read,
\* statements fail and the process restarts: with none of them under way, and unless the last refresh
\* overlapped a write or could not follow one, runs are started from the latest rows and nothing else
\* (save_flow, delete_flow, _revalidate_user_flows).
THEOREM CacheAlwaysFollows == Spec => []CacheFollows
<1>1. CacheInv => CacheFollows
  <2> SUFFICES ASSUME CacheInv, ~behind, \A j \in Jobs : jobs[j].pc \notin Writing
               PROVE  [f \in DOMAIN cache |-> cache[f].row] = Latest
    BY DEF CacheFollows
  <2>1. \A j \in Jobs, f \in Saved : ~Covers(jobs[j], f)
    BY DEF Covers, Writing
  <2>2. DOMAIN cache = Existing /\ \A f \in Existing : cache[f].row = Last(defs[f])
    BY <2>1 DEF CacheInv, Followed, Right, Existing
  <2>3. Latest = [f \in Existing |-> Last(defs[f])]
    BY DEF Latest, Existing
  <2> QED BY <2>2, <2>3
<1>2. Spec => []CacheInv
  BY CacheInit, CacheStep, PTL DEF Spec
<1> QED BY <1>1, <1>2, PTL

-----------------------------------------------------------------------------
(* Flattening *)

\* Of numbers from 1 on: what holds of 1, and of the next one with each, holds of all.
LEMMA AllReached ==
  ASSUME NEW n \in Nat, NEW T \in SUBSET (1 .. n), n # 0 => 1 \in T,
         \A m \in T : m + 1 \in 1 .. n => m + 1 \in T
  PROVE  1 .. n \subseteq T
<1> DEFINE U == (1 .. n) \ T
<1> SUFFICES ASSUME U # {} PROVE FALSE
  OBVIOUS
<1>0. U \in SUBSET Nat
  OBVIOUS
<1> HIDE DEF U
<1>1. PICK x \in U : \A y \in U : x <= y
  BY <1>0, LeastNumber
<1> USE DEF U
<1>2. x # 1
  BY <1>1
<1>3. x - 1 \in 1 .. n /\ x - 1 \in T
  BY <1>1, <1>2
<1>4. (x - 1) + 1 = x
  BY <1>1
<1> QED BY <1>1, <1>3, <1>4

Joins(h, parts, m) == h = [i \in 1 .. m |-> IF i = 1 THEN parts[i] ELSE h[i - 1] \o parts[i]]

\* There is the function that FlattenSeq builds, place by place.
LEMMA JoinsExists ==
  ASSUME NEW S, NEW n \in Nat, NEW parts \in [1 .. n -> Seq(S)]
  PROVE  \E h : Joins(h, parts, n)
<1> DEFINE Is(h, m) == Joins(h, parts, m)
           T == {m \in 1 .. n : \E h : Is(h, m)}
<1>1. n # 0 => 1 \in T
  <2> SUFFICES ASSUME n # 0 PROVE 1 \in T
    OBVIOUS
  <2> DEFINE first == [i \in 1 .. 1 |-> parts[i]]
  <2>1. Is(first, 1)
    BY DEF Joins
  <2> HIDE DEF first
  <2> QED BY <2>1
<1>2. ASSUME NEW m \in T, m + 1 \in 1 .. n PROVE m + 1 \in T
  <2>1. PICK h : Is(h, m)
    OBVIOUS
  <2> DEFINE g == [i \in 1 .. m + 1 |-> IF i = m + 1 THEN h[m] \o parts[m + 1] ELSE h[i]]
  <2>2. Is(g, m + 1)
    <3>1. m \in 1 .. n
      OBVIOUS
    <3>2. ASSUME NEW i \in 1 .. m + 1
          PROVE  g[i] = IF i = 1 THEN parts[i] ELSE g[i - 1] \o parts[i]
      <4>1. CASE i = m + 1
        <5>1. i # 1 /\ i - 1 = m /\ m \in 1 .. m + 1 /\ m # m + 1
          BY <3>1, <4>1
        <5>2. g[i] = h[m] \o parts[m + 1] /\ g[m] = h[m]
          BY <4>1, <5>1
        <5> QED BY <4>1, <5>1, <5>2
      <4>2. CASE i # m + 1
        <5>1. i \in 1 .. m /\ g[i] = h[i]
          BY <3>1, <4>2
        <5>2. h[i] = IF i = 1 THEN parts[i] ELSE h[i - 1] \o parts[i]
          BY <2>1, <5>1 DEF Joins
        <5>3. i # 1 => g[i - 1] = h[i - 1]
          BY <3>1, <5>1
        <5> QED BY <5>1, <5>2, <5>3
      <4> QED BY <4>1, <4>2
    <3>3. g = [i \in 1 .. m + 1 |-> g[i]]
      OBVIOUS
    <3> HIDE DEF g
    <3> QED BY <3>2, <3>3 DEF Joins
  <2> HIDE DEF g
  <2> QED BY <1>2, <2>2
<1>3. 1 .. n \subseteq T
  <2>1. T \in SUBSET (1 .. n)
    OBVIOUS
  <2> HIDE DEF T
  <2> QED BY <1>1, <1>2, <2>1, AllReached
<1>4. \E h : Joins(h, parts, n)
  <2>1. CASE n = 0
    <3> DEFINE none == [i \in 1 .. n |-> parts[i]]
    <3>1. Is(none, n)
      BY <2>1 DEF Joins
    <3> HIDE DEF none
    <3> QED BY <3>1
  <2>2. CASE n # 0
    BY <1>3, <2>2
  <2> QED BY <2>1, <2>2
<1> QED BY <1>4

\* Where the parts of a sequence lie: the g-th after the place at[g].
Laid(all, parts, n, at) ==
  /\ at \in [1 .. n + 1 -> Nat] /\ at[1] = 0 /\ at[n + 1] = Len(all)
  /\ \A g, k \in 1 .. n + 1 : g <= k => at[g] <= at[k]
  /\ \A g \in 1 .. n :
       at[g + 1] = at[g] + Len(parts[g]) /\ \A m \in 1 .. Len(parts[g]) : all[at[g] + m] = parts[g][m]
  /\ \A k \in 1 .. Len(all) : \E g \in 1 .. n : at[g] < k /\ k <= at[g + 1]

\* One more part is laid behind the others.
LEMMA LaidOn ==
  ASSUME NEW S, NEW n \in Nat, NEW parts, NEW all \in Seq(S), NEW at, Laid(all, parts, n, at),
         parts[n + 1] \in Seq(S)
  PROVE  all \o parts[n + 1] \in Seq(S) /\ \E on : Laid(all \o parts[n + 1], parts, n + 1, on)
<1> DEFINE part == parts[n + 1]
           more == all \o part
           end == Len(all) + Len(part)
           on == [g \in 1 .. n + 2 |-> IF g = n + 2 THEN end ELSE at[g]]
<1>1. /\ part \in Seq(S) /\ more \in Seq(S) /\ Len(all) \in Nat /\ Len(part) \in Nat
      /\ Len(more) = end /\ end \in Nat
      /\ \A k \in 1 .. Len(all) : more[k] = all[k]
      /\ \A k \in 1 .. Len(part) : more[Len(all) + k] = part[k]
  OBVIOUS
<1>2. part = parts[n + 1]
  OBVIOUS
<1>3. (n + 1) + 1 = n + 2 /\ n + 1 \in Nat
  OBVIOUS
<1> HIDE DEF more, part
<1>4. at \in [1 .. n + 1 -> Nat] /\ at[1] = 0 /\ at[n + 1] = Len(all)
  BY DEF Laid
<1>5. on \in [1 .. n + 2 -> Nat] /\ on[n + 2] = end /\ \A g \in 1 .. n + 1 : on[g] = at[g]
  BY <1>1, <1>4
<1> HIDE DEF on
<1>6. on[1] = 0 /\ on[n + 1] = Len(all)
  BY <1>4, <1>5
<1>7. ASSUME NEW g \in 1 .. n + 2, NEW k \in 1 .. n + 2, g <= k PROVE on[g] <= on[k]
  <2>1. CASE k \in 1 .. n + 1
    <3>1. g \in 1 .. n + 1
      BY <1>7, <2>1
    <3> QED BY <1>5, <1>7, <2>1, <3>1 DEF Laid
  <2>2. CASE k = n + 2 /\ g = n + 2
    BY <1>1, <1>5, <2>2
  <2>3. CASE k = n + 2 /\ g \in 1 .. n + 1
    <3>1. n + 1 \in 1 .. n + 1 /\ g <= n + 1
      BY <2>3
    <3>2. at[g] <= Len(all) /\ at[g] \in Nat
      BY <1>4, <2>3, <3>1 DEF Laid
    <3> QED BY <1>1, <1>5, <2>3, <3>2
  <2> QED BY <1>7, <2>1, <2>2, <2>3
<1>8. ASSUME NEW g \in 1 .. n + 1
      PROVE  /\ on[g + 1] = on[g] + Len(parts[g])
             /\ \A m \in 1 .. Len(parts[g]) : more[on[g] + m] = parts[g][m]
  <2>1. CASE g = n + 1
    BY <1>1, <1>2, <1>3, <1>5, <1>6, <2>1
  <2>2. CASE g \in 1 .. n
    <3>1. g \in 1 .. n + 1 /\ g + 1 \in 1 .. n + 1 /\ n + 1 \in 1 .. n + 1 /\ g + 1 <= n + 1
      BY <2>2
    <3>2. on[g] = at[g] /\ on[g + 1] = at[g + 1] /\ at[g] \in Nat /\ at[g + 1] \in Nat
      BY <1>4, <1>5, <3>1
    <3>3. at[g + 1] = at[g] + Len(parts[g]) /\ \A m \in 1 .. Len(parts[g]) : all[at[g] + m] = parts[g][m]
      BY <2>2 DEF Laid
    <3>4. at[g + 1] <= Len(all)
      BY <1>4, <3>1 DEF Laid
    <3>5. ASSUME NEW m \in 1 .. Len(parts[g]) PROVE more[on[g] + m] = parts[g][m]
      <4>1. on[g] + m \in 1 .. Len(all)
        <5>1. m \in Nat \ {0} /\ m <= Len(parts[g])
          OBVIOUS
        <5>2. Len(parts[g]) = at[g + 1] - at[g]
          <6>1. PICK len : len = Len(parts[g])
            OBVIOUS
          <6>2. CASE len \in Int
            BY <3>2, <3>3, <6>1, <6>2
          <6>3. CASE len \notin Int
            BY <5>1, <6>1, <6>3
          <6> QED BY <6>2, <6>3
        <5> QED BY <1>1, <3>2, <3>4, <5>1, <5>2
      <4> QED BY <1>1, <3>2, <3>3, <4>1
    <3> QED BY <3>2, <3>3, <3>5
  <2> QED BY <2>1, <2>2
<1>9. ASSUME NEW k \in 1 .. Len(more) PROVE \E g \in 1 .. n + 1 : on[g] < k /\ k <= on[g + 1]
  <2>1. CASE k \in 1 .. Len(all)
    <3>1. PICK g \in 1 .. n : at[g] < k /\ k <= at[g + 1]
      BY <2>1 DEF Laid
    <3>2. g \in 1 .. n + 1 /\ g + 1 \in 1 .. n + 1
      OBVIOUS
    <3> QED BY <1>5, <3>1, <3>2
  <2>2. CASE k \notin 1 .. Len(all)
    <3>1. Len(all) < k /\ k <= end
      BY <1>1, <2>2
    <3>2. n + 1 \in 1 .. n + 1
      OBVIOUS
    <3> QED BY <1>3, <1>5, <1>6, <3>1, <3>2
  <2> QED BY <2>1, <2>2
<1>10. Laid(more, parts, n + 1, on)
  BY <1>1, <1>3, <1>5, <1>6, <1>7, <1>8, <1>9 DEF Laid
<1> QED BY <1>1, <1>2, <1>10 DEF more

\* FlattenSeq lays the parts one behind the other.
LEMMA Flattens ==
  ASSUME NEW S, NEW n \in Nat, NEW parts \in [1 .. n -> Seq(S)]
  PROVE  FlattenSeq(parts) \in Seq(S) /\ \E at : Laid(FlattenSeq(parts), parts, n, at)
<1>1. parts \in Seq(Seq(S)) /\ Len(parts) = n
  OBVIOUS
<1>2. CASE n = 0
  <2>1. parts = << >> /\ FlattenSeq(parts) = parts
    BY <1>1, <1>2 DEF FlattenSeq
  <2>2. << >> \in Seq(S) /\ Len(<< >>) = 0
    OBVIOUS
  <2> DEFINE at == [g \in 1 .. 1 |-> 0]
  <2>3. Laid(<< >>, parts, 0, at)
    BY <2>2 DEF Laid
  <2> QED BY <1>2, <2>1, <2>2, <2>3
<1>3. CASE n # 0
  <2>1. PICK h : h = CHOOSE g : Joins(g, parts, n)
    OBVIOUS
  <2>2. Joins(h, parts, n)
    BY <2>1, JoinsExists
  <2>3. FlattenSeq(parts) = h[n]
    BY <1>1, <1>3, <2>1 DEF FlattenSeq, Joins
  <2> DEFINE T == {m \in 1 .. n : h[m] \in Seq(S) /\ \E at : Laid(h[m], parts, m, at)}
  <2>4. 1 \in T
    <3>1. h[1] = parts[1] /\ parts[1] \in Seq(S) /\ 1 \in 1 .. n
      BY <1>3, <2>2 DEF Joins
    <3>2. << >> \in Seq(S) /\ Len(<< >>) = 0 /\ << >> \o parts[1] = parts[1] /\ 0 \in Nat /\ 0 + 1 = 1
      BY <3>1
    <3> DEFINE at == [g \in 1 .. 1 |-> 0]
    <3>3. Laid(<< >>, parts, 0, at)
      BY <3>2 DEF Laid
    <3> HIDE DEF at
    <3>4. PICK none : none = << >>
      OBVIOUS
    <3>5. none \o parts[0 + 1] \in Seq(S) /\ \E on : Laid(none \o parts[0 + 1], parts, 0 + 1, on)
      BY <3>1, <3>2, <3>3, <3>4, LaidOn
    <3> QED BY <3>1, <3>2, <3>4, <3>5
  <2>5. ASSUME NEW m \in T, m + 1 \in 1 .. n PROVE m + 1 \in T
    <3>1. h[m + 1] = h[m] \o parts[m + 1]
      <4>1. m \in Nat /\ m + 1 # 1 /\ (m + 1) - 1 = m
        OBVIOUS
      <4> QED BY <2>2, <2>5, <4>1 DEF Joins
    <3>2. PICK at : Laid(h[m], parts, m, at)
      OBVIOUS
    <3>3. m \in Nat /\ h[m] \in Seq(S) /\ parts[m + 1] \in Seq(S)
      BY <2>5
    <3> QED BY <2>5, <3>1, <3>2, <3>3, LaidOn
  <2>6. n \in T
    <3>1. T \in SUBSET (1 .. n) /\ n \in 1 .. n
      BY <1>3
    <3> HIDE DEF T
    <3> QED BY <2>4, <2>5, <3>1, AllReached
  <2> QED BY <2>3, <2>6
<1> QED BY <1>2, <1>3

\* What Where takes is there, at the places it was told.
LEMMA WhereIn ==
  ASSUME NEW S, NEW s \in Seq(S), NEW keep
  PROVE  /\ Where(s, keep) \in Seq(S)
         /\ \A k \in DOMAIN Where(s, keep) : \E i \in keep \cap DOMAIN s : Where(s, keep)[k] = s[i]
<1> DEFINE parts == [i \in DOMAIN s |-> IF i \in keep THEN <<s[i]>> ELSE << >>]
<1>1. DOMAIN s = 1 .. Len(s) /\ Len(s) \in Nat
  OBVIOUS
<1>2. ASSUME NEW i \in DOMAIN s
      PROVE  /\ parts[i] \in Seq(S)
             /\ i \notin keep => Len(parts[i]) = 0
             /\ i \in keep => Len(parts[i]) = 1 /\ parts[i][1] = s[i]
  <2>1. s[i] \in S
    OBVIOUS
  <2> QED BY <2>1
<1>3. parts \in [1 .. Len(s) -> Seq(S)]
  BY <1>1, <1>2
<1>4. Where(s, keep) = FlattenSeq(parts)
  BY DEF Where
<1> HIDE DEF parts
<1>5. PICK all : all = FlattenSeq(parts)
  OBVIOUS
<1>6. all \in Seq(S)
  BY <1>1, <1>3, <1>5, Flattens
<1>7. PICK at : Laid(all, parts, Len(s), at)
  BY <1>1, <1>3, <1>5, Flattens
<1>8. ASSUME NEW k \in DOMAIN all PROVE \E i \in keep \cap DOMAIN s : all[k] = s[i]
  <2>1. k \in 1 .. Len(all)
    BY <1>6
  <2>2. PICK g \in 1 .. Len(s) : at[g] < k /\ k <= at[g + 1]
    BY <2>1, <1>7 DEF Laid
  <2>3. g \in DOMAIN s /\ g \in 1 .. Len(s) + 1 /\ g + 1 \in 1 .. Len(s) + 1
    BY <1>1
  <2>4. at[g] \in Nat /\ at[g + 1] = at[g] + Len(parts[g])
    BY <1>7, <2>3 DEF Laid
  <2>5. g \in keep
    BY <1>2, <2>1, <2>2, <2>3, <2>4
  <2>6. Len(parts[g]) = 1 /\ parts[g][1] = s[g]
    BY <1>2, <2>3, <2>5
  <2>7. k = at[g] + 1
    <3>1. k \in Nat /\ at[g + 1] = at[g] + 1
      BY <1>6, <2>1, <2>4, <2>6
    <3> QED BY <2>2, <2>4, <3>1
  <2>8. all[at[g] + 1] = parts[g][1]
    BY <1>7, <2>6 DEF Laid
  <2> QED BY <2>3, <2>5, <2>6, <2>7, <2>8
<1> QED BY <1>4, <1>5, <1>6, <1>8

-----------------------------------------------------------------------------
(* Plans *)

\* The overrides of a node: all but what they change stays.
LEMMA MergeKeeps ==
  ASSUME NEW n, IsNode(n), NEW o
  PROVE  /\ MergeNode(n, o).id = n.id /\ MergeNode(n, o).stage = n.stage
         /\ n.id \notin DOMAIN o.params \cup DOMAIN o.pin \cup DOMAIN o.labels => MergeNode(n, o) = n
<1> DEFINE param == IF n.id \in DOMAIN o.params THEN o.params[n.id] ELSE n.param
           pin == IF n.id \in DOMAIN o.pin THEN o.pin[n.id] ELSE n.pin
           label == IF n.id \in DOMAIN o.labels THEN o.labels[n.id] ELSE n.label
           m == [n EXCEPT !.param = param, !.pin = pin, !.label = label]
<1>1. MergeNode(n, o) = m
  BY DEF MergeNode
<1>2. n.id \notin DOMAIN o.params \cup DOMAIN o.pin \cup DOMAIN o.labels =>
        param = n.param /\ pin = n.pin /\ label = n.label
  OBVIOUS
<1> HIDE DEF param, pin, label
<1>3. m.id = n.id /\ m.stage = n.stage
  BY DEF IsNode
<1>4. param = n.param /\ pin = n.pin /\ label = n.label => m = n
  BY DEF IsNode
<1> HIDE DEF m
<1> QED BY <1>1, <1>2, <1>3, <1>4

\* Behind a node stand inserts that are taken and are to stand there.
Grouped(S, flow, specs, n, group) ==
  /\ group \in Seq(S) /\ Len(group) # 0 /\ group[1] = n
  /\ \A m \in 2 .. Len(group) : \E i \in Taken(flow, specs) : specs[i].after = n.id /\ group[m] = specs[i].node

LEMMA GroupIn ==
  ASSUME NEW S, NEW flow, NEW specs, specs \in Seq(Range(specs)), NEW n \in S,
         \A i \in DOMAIN specs : specs[i].node \in S
  PROVE  Grouped(S, flow, specs, n, Group(flow, specs, n))
<1> DEFINE s == [i \in DOMAIN specs |-> specs[i].node]
           keep == {i \in Taken(flow, specs) : specs[i].after = n.id}
<1>1. DOMAIN specs = 1 .. Len(specs) /\ Len(specs) \in Nat
  OBVIOUS
<1>2. s \in Seq(S) /\ \A i \in DOMAIN s : s[i] = specs[i].node
  BY <1>1
<1>3. \A i \in keep : i \in Taken(flow, specs) /\ specs[i].after = n.id
  OBVIOUS
<1>4. Group(flow, specs, n) = <<n>> \o Where(s, keep)
  BY DEF Group
<1> HIDE DEF s, keep
<1>5. PICK w : w = Where(s, keep)
  OBVIOUS
<1>6. w \in Seq(S) /\ \A k \in DOMAIN w : \E i \in keep \cap DOMAIN s : w[k] = s[i]
  BY <1>2, <1>5, WhereIn
<1>7. PICK group : group = <<n>> \o w
  OBVIOUS
<1>8. /\ group \in Seq(S) /\ Len(group) = Len(w) + 1 /\ group[1] = n /\ Len(w) \in Nat
      /\ \A m \in 2 .. Len(group) : m - 1 \in DOMAIN w /\ group[m] = w[m - 1]
  BY <1>6, <1>7
<1>9. ASSUME NEW m \in 2 .. Len(group)
      PROVE  \E i \in Taken(flow, specs) : specs[i].after = n.id /\ group[m] = specs[i].node
  <2>1. PICK k : k = m - 1
    OBVIOUS
  <2>2. k \in DOMAIN w /\ group[m] = w[k]
    BY <1>8, <2>1
  <2>3. PICK i \in keep \cap DOMAIN s : w[k] = s[i]
    BY <1>6, <2>2
  <2> QED BY <1>2, <1>3, <2>2, <2>3
<1>10. group = Group(flow, specs, n) /\ Len(group) # 0
  BY <1>4, <1>5, <1>7, <1>8
<1> QED BY <1>8, <1>9, <1>10 DEF Grouped

\* What preflight found none of.
LEMMA NoErrors ==
  ASSUME NEW flow, NEW o, NEW alive, Errors(Preflight(flow, o, alive)) = {}
  PROVE  /\ NoRepeats(ApplyOverrides(flow, o).nodes)
         /\ \A id \in DOMAIN o.params \cup DOMAIN o.pin \cup DOMAIN o.labels :
              ~(id \in Ids(flow.nodes) /\ NodeOf(flow.nodes, id).locked)
         /\ \A i \in Taken(flow, o.insert) : o.insert[i].after \notin ApplyOverrides(flow, o).off
         /\ \A id \in ApplyOverrides(flow, o).off : id \in Ids(flow.nodes) => ~Fixed(NodeOf(flow.nodes, id))
<1> DEFINE plan == ApplyOverrides(flow, o)
           edited == DOMAIN o.params \cup DOMAIN o.pin \cup DOMAIN o.labels
           Locked(id) == id \in Ids(flow.nodes) /\ NodeOf(flow.nodes, id).locked
           Closed(id) == \/ id \in Ids(flow.nodes) /\ ~Fixed(NodeOf(flow.nodes, id))
                         \/ id \in {o.insert[i].node.id : i \in Taken(flow, o.insert)} \ Ids(flow.nodes)
<1>1. \A any, code : Error(any, code).level = "error"
  BY DEF Error
<1>2. \A any, code : Error(any, code) \notin Preflight(flow, o, alive)
  BY <1>1 DEF Errors
<1>3. plan.problems \subseteq Preflight(flow, o, alive)
  BY DEF Preflight
<1>4. NoRepeats(plan.nodes)
  BY <1>2 DEF Preflight
<1>5. plan.off = {id \in o.disable : Closed(id)}
  BY DEF ApplyOverrides
<1>6. {Error(id, "locked") : id \in {e \in edited : Locked(e)}} \subseteq plan.problems
  BY DEF ApplyOverrides
<1>7. {Error("none", "unknown_slot") : i \in {k \in Taken(flow, o.insert) : o.insert[k].after \in plan.off}}
        \subseteq plan.problems
  BY DEF ApplyOverrides
<1> HIDE DEF plan
<1>8. \A any, code : Error(any, code) \notin plan.problems
  BY <1>2, <1>3
<1>9. \A id \in edited : ~Locked(id)
  BY <1>6, <1>8
<1>10. \A i \in Taken(flow, o.insert) : o.insert[i].after \notin plan.off
  BY <1>7, <1>8
<1>11. \A id \in plan.off : id \in Ids(flow.nodes) => ~Fixed(NodeOf(flow.nodes, id))
  BY <1>5
<1> QED BY <1>4, <1>9, <1>10, <1>11 DEF plan

\* Whatever the flow, the overrides and the steps that are alive: when preflight reports no error, the
\* template's nodes are all in the plan and in order, the locked ones as they were, the locked and the
\* required ones open, no id twice, and every insert stands behind an open node with a slot for its
\* stage (preflight, resolve_flow_def, the check start makes).
THEOREM PlanSound ==
  ASSUME NEW flow, IsFlow(flow), NEW o, IsOverrides(o), NEW alive, Errors(Preflight(flow, o, alive)) = {}
  PROVE  Sound(flow, ApplyOverrides(flow, o).nodes, ApplyOverrides(flow, o).off)
<1> DEFINE edited == DOMAIN o.params \cup DOMAIN o.pin \cup DOMAIN o.labels
           S == Range(flow.nodes) \cup {spec.node : spec \in Range(o.insert)}
<1>1. PICK old : old = flow.nodes
  OBVIOUS
<1>2. PICK specs : specs = o.insert
  OBVIOUS
<1>3. /\ old \in Seq(Range(old)) /\ \A n \in Range(old) : IsNode(n)
      /\ specs \in Seq(Range(specs)) /\ \A spec \in Range(specs) : IsNode(spec.node)
  BY <1>1, <1>2 DEF IsFlow, IsOverrides
<1>4. DOMAIN old = 1 .. Len(old) /\ Len(old) \in Nat /\ DOMAIN specs = 1 .. Len(specs)
  BY <1>3
<1>5. /\ \A i \in DOMAIN old : old[i] \in S /\ IsNode(old[i])
      /\ \A i \in DOMAIN specs : specs[i].node \in S /\ IsNode(specs[i].node)
  BY <1>1, <1>2, <1>3 DEF Range
<1>6. \A n \in S : IsNode(n)
  BY <1>1, <1>2, <1>3
<1> HIDE DEF S
<1> DEFINE groups == [i \in DOMAIN old |-> Group(flow, specs, old[i])]
<1>7. PICK all : all = FlattenSeq(groups)
  OBVIOUS
<1>8. PICK nodes : nodes = ApplyOverrides(flow, o).nodes
  OBVIOUS
<1>9. PICK off : off = ApplyOverrides(flow, o).off
  OBVIOUS
<1>10. nodes = [i \in DOMAIN all |-> MergeNode(all[i], o)]
  BY <1>1, <1>2, <1>7, <1>8 DEF ApplyOverrides
<1>11. ASSUME NEW g \in DOMAIN old
       PROVE  /\ groups[g] \in Seq(S) /\ Len(groups[g]) \in Nat \ {0} /\ groups[g][1] = old[g]
              /\ \A m \in 2 .. Len(groups[g]) :
                   \E i \in Taken(flow, specs) : specs[i].after = old[g].id /\ groups[g][m] = specs[i].node
  <2>1. PICK n : n = old[g]
    OBVIOUS
  <2>2. PICK T : T = S
    OBVIOUS
  <2>3. n \in T /\ specs \in Seq(Range(specs)) /\ \A i \in DOMAIN specs : specs[i].node \in T
    BY <1>3, <1>5, <2>1, <2>2
  <2>4. Grouped(T, flow, specs, n, Group(flow, specs, n))
    BY <2>3, GroupIn
  <2>5. Grouped(S, flow, specs, old[g], groups[g])
    BY <2>1, <2>2, <2>4
  <2> HIDE DEF groups
  <2> QED BY <2>5 DEF Grouped
<1>12. groups \in [1 .. Len(old) -> Seq(S)]
  BY <1>4, <1>11
<1> HIDE DEF groups
<1>13. all \in Seq(S)
  BY <1>4, <1>7, <1>12, Flattens
<1>14. PICK at : Laid(all, groups, Len(old), at)
  BY <1>4, <1>7, <1>12, Flattens
<1>15. DOMAIN all = 1 .. Len(all) /\ Len(all) \in Nat /\ DOMAIN nodes = 1 .. Len(all)
  BY <1>10, <1>13
<1>16. ASSUME NEW k \in 1 .. Len(all)
       PROVE  /\ nodes[k].id = all[k].id /\ nodes[k].stage = all[k].stage
              /\ all[k].id \notin edited => nodes[k] = all[k]
  <2>1. nodes[k] = MergeNode(all[k], o) /\ IsNode(all[k])
    BY <1>6, <1>10, <1>13, <1>15
  <2> QED BY <2>1, MergeKeeps
<1> HIDE DEF edited
<1>17. /\ NoRepeats(nodes)
       /\ \A id \in edited : ~(id \in Ids(old) /\ NodeOf(old, id).locked)
       /\ \A i \in Taken(flow, specs) : specs[i].after \notin off
       /\ \A id \in off : id \in Ids(old) => ~Fixed(NodeOf(old, id))
  BY <1>1, <1>2, <1>8, <1>9, NoErrors DEF edited
<1>18. ASSUME NEW g \in DOMAIN old
       PROVE  /\ g \in 1 .. Len(old) + 1 /\ g + 1 \in 1 .. Len(old) + 1 /\ at[g] \in Nat /\ at[g + 1] \in Nat
              /\ at[g] + 1 <= at[g + 1] /\ at[g + 1] <= Len(all)
              /\ at[g + 1] = at[g] + Len(groups[g])
              /\ \A m \in 1 .. Len(groups[g]) : all[at[g] + m] = groups[g][m]
  <2>1. g \in 1 .. Len(old) + 1 /\ g + 1 \in 1 .. Len(old) + 1 /\ Len(old) + 1 \in 1 .. Len(old) + 1
        /\ g + 1 <= Len(old) + 1
    BY <1>4
  <2>2. at[g] \in Nat /\ at[g + 1] \in Nat /\ at[g + 1] <= Len(all)
    BY <1>14, <2>1 DEF Laid
  <2>3. at[g + 1] = at[g] + Len(groups[g]) /\ \A m \in 1 .. Len(groups[g]) : all[at[g] + m] = groups[g][m]
    BY <1>4, <1>14 DEF Laid
  <2> QED BY <1>11, <2>1, <2>2, <2>3
<1>19. ASSUME NEW g \in DOMAIN old
       PROVE  at[g] + 1 \in 1 .. Len(all) /\ all[at[g] + 1] = old[g]
  <2>1. 1 \in 1 .. Len(groups[g])
    BY <1>11
  <2> QED BY <1>11, <1>15, <1>18, <2>1
<1>20. NoRepeats(old)
  <2> SUFFICES ASSUME NEW i \in DOMAIN old, NEW k \in DOMAIN old, old[i].id = old[k].id PROVE i = k
    BY DEF NoRepeats
  <2>1. nodes[at[i] + 1].id = nodes[at[k] + 1].id
    BY <1>16, <1>19
  <2>2. at[i] + 1 = at[k] + 1
    BY <1>15, <1>17, <1>19, <2>1 DEF NoRepeats
  <2>3. at[i] = at[k]
    BY <1>18, <2>2
  <2>4. ASSUME NEW a \in DOMAIN old, NEW b \in DOMAIN old, a < b PROVE at[a] # at[b]
    <3>1. a + 1 <= b
      BY <1>4, <2>4
    <3>2. at[a + 1] <= at[b]
      BY <1>14, <1>18, <3>1 DEF Laid
    <3> QED BY <1>18, <3>2
  <2> QED BY <1>4, <2>3, <2>4
<1>21. ASSUME NEW i \in DOMAIN old PROVE NodeOf(old, old[i].id) = old[i] /\ old[i].id \in Ids(old)
  <2>1. PICK k : k = CHOOSE m \in DOMAIN old : old[m].id = old[i].id
    OBVIOUS
  <2>2. k \in DOMAIN old /\ old[k].id = old[i].id
    BY <2>1
  <2>3. k = i
    BY <1>20, <2>2 DEF NoRepeats
  <2> QED BY <2>1, <2>3 DEF NodeOf, Ids
<1>22. ASSUME NEW i \in DOMAIN old
       PROVE  /\ \E k \in DOMAIN nodes :
                   /\ nodes[k].id = old[i].id /\ nodes[k].stage = old[i].stage
                   /\ old[i].locked => nodes[k] = old[i]
                   /\ \A j \in 1 .. i - 1 : \E l \in 1 .. k - 1 : nodes[l].id = old[j].id
              /\ old[i].locked \/ old[i].required => old[i].id \notin off
  <2>1. PICK k : k = at[i] + 1
    OBVIOUS
  <2>2. k \in 1 .. Len(all) /\ all[k] = old[i]
    BY <1>19, <2>1
  <2>3. nodes[k].id = old[i].id /\ nodes[k].stage = old[i].stage
    BY <1>16, <2>2
  <2>4. old[i].locked => nodes[k] = old[i]
    BY <1>16, <1>17, <1>21, <2>2
  <2>5. ASSUME NEW j \in 1 .. i - 1 PROVE \E l \in 1 .. k - 1 : nodes[l].id = old[j].id
    <3>1. j \in DOMAIN old /\ j + 1 <= i
      BY <1>4
    <3>2. at[j + 1] <= at[i]
      BY <1>14, <1>18, <3>1 DEF Laid
    <3>3. at[j] + 1 \in 1 .. k - 1
      <4>1. at[j] \in Nat /\ at[j + 1] \in Nat /\ at[i] \in Nat /\ at[j] + 1 <= at[j + 1]
        BY <1>18, <3>1
      <4> QED BY <2>1, <3>2, <4>1
    <3>4. nodes[at[j] + 1].id = old[j].id
      BY <1>16, <1>19, <3>1
    <3> QED BY <3>3, <3>4
  <2>6. old[i].locked \/ old[i].required => old[i].id \notin off
    BY <1>17, <1>21 DEF Fixed
  <2> QED BY <1>15, <2>2, <2>3, <2>4, <2>5, <2>6
<1>23. ASSUME NEW i \in DOMAIN nodes, nodes[i].id \notin Ids(old)
       PROVE  \E a \in 1 .. i - 1 :
                /\ nodes[a].id \in Ids(old) /\ nodes[a].id \notin off
                /\ \A k \in a + 1 .. i : nodes[k].id \notin Ids(old)
                /\ \E s \in flow.slots : s.after = nodes[a].id /\ nodes[i].stage \in s.stages
  <2>1. PICK g \in 1 .. Len(old) : at[g] < i /\ i <= at[g + 1]
    BY <1>14, <1>15 DEF Laid
  <2>2. PICK a : a = at[g] + 1
    OBVIOUS
  <2>3. /\ g \in DOMAIN old /\ a \in 1 .. Len(all) /\ a \in Nat /\ a <= i /\ i \in Nat
        /\ nodes[a].id = old[g].id /\ old[g].id \in Ids(old)
    BY <1>4, <1>15, <1>16, <1>18, <1>19, <1>21, <2>1, <2>2
  <2>4. a \in 1 .. i - 1
    BY <1>23, <2>3
  <2>5. ASSUME NEW k \in a + 1 .. i
        PROVE  \E m \in Taken(flow, specs) : specs[m].after = old[g].id /\ all[k] = specs[m].node
    <3>1. PICK m : m = k - at[g]
      OBVIOUS
    <3>2. m \in 2 .. Len(groups[g]) /\ k = at[g] + m
      <4>1. at[g] \in Nat /\ Len(groups[g]) \in Nat /\ at[g + 1] = at[g] + Len(groups[g])
        BY <1>11, <1>18, <2>3
      <4>2. i <= at[g] + Len(groups[g]) /\ k \in Nat /\ at[g] + 2 <= k /\ k <= i
        BY <2>1, <2>2, <2>3, <4>1
      <4>3. PICK len : len = Len(groups[g])
        OBVIOUS
      <4>4. PICK x : x = at[g]
        OBVIOUS
      <4>5. len \in Nat /\ x \in Nat /\ k \in Nat /\ m = k - x /\ x + 2 <= k /\ k <= x + len
        BY <2>3, <3>1, <4>1, <4>2, <4>3, <4>4
      <4>6. m \in 2 .. len /\ k = x + m
        BY <4>5
      <4> QED BY <4>3, <4>4, <4>6
    <3>3. all[k] = groups[g][m]
      BY <1>11, <1>18, <2>3, <3>2
    <3> QED BY <1>11, <2>3, <3>2, <3>3
  <2>6. ASSUME NEW k \in a + 1 .. i PROVE nodes[k].id \notin Ids(old)
    <3>1. PICK m \in Taken(flow, specs) : specs[m].after = old[g].id /\ all[k] = specs[m].node
      BY <2>5
    <3>2. k \in 1 .. Len(all)
      BY <1>15, <2>3
    <3>3. specs[m].node.id \notin Ids(old)
      BY <1>1 DEF Taken
    <3> QED BY <1>16, <3>1, <3>2, <3>3
  <2>7. i \in a + 1 .. i
    BY <2>3, <2>4
  <2>8. PICK m \in Taken(flow, specs) : specs[m].after = old[g].id /\ all[i] = specs[m].node
    BY <2>5, <2>7
  <2>9. nodes[a].id \notin off
    BY <1>17, <2>3, <2>8
  <2>10. \E s \in flow.slots : s.after = nodes[a].id /\ nodes[i].stage \in s.stages
    <3>1. HasSlot(flow, specs[m])
      BY DEF Taken
    <3>2. nodes[i].stage = specs[m].node.stage
      BY <1>15, <1>16, <2>8
    <3> QED BY <2>3, <2>8, <3>1, <3>2 DEF HasSlot
  <2> QED BY <2>3, <2>4, <2>6, <2>9, <2>10
<1> QED BY <1>1, <1>8, <1>9, <1>17, <1>22, <1>23 DEF Sound

-----------------------------------------------------------------------------
(* What a plan is made from *)

\* Of places of a sequence there is a last one.
LEMMA MaxIn == ASSUME NEW n \in Nat, NEW T \in SUBSET (1 .. n), T # {} PROVE Max(T) \in T
<1> DEFINE U == {n - x : x \in T}
<1>1. U \in SUBSET Nat /\ U # {}
  <2>1. \A x \in T : n - x \in Nat
    OBVIOUS
  <2>2. PICK x : x \in T
    OBVIOUS
  <2> QED BY <2>1, <2>2
<1>2. PICK u \in U : \A y \in U : u <= y
  BY <1>1, LeastNumber
<1>3. PICK x \in T : u = n - x
  BY <1>2
<1>4. \A y \in T : y <= x
  <2> SUFFICES ASSUME NEW y \in T PROVE y <= x
    OBVIOUS
  <2>1. n - x <= n - y
    BY <1>2, <1>3
  <2> QED BY <2>1
<1>5. \A y \in T : x >= y
  BY <1>4
<1> QED BY <1>5 DEF Max

\* What is taken of inserts are inserts.
LEMMA SpecsKept ==
  ASSUME NEW specs, specs \in Seq(Range(specs)), \A spec \in Range(specs) : IsNode(spec.node), NEW keep
  PROVE  /\ Where(specs, keep) \in Seq(Range(Where(specs, keep)))
         /\ \A spec \in Range(Where(specs, keep)) : IsNode(spec.node)
<1>1. PICK w : w = Where(specs, keep)
  OBVIOUS
<1>2. PICK S : S = Range(specs)
  OBVIOUS
<1>3. specs \in Seq(S)
  BY <1>2
<1>4. w \in Seq(S) /\ \A k \in DOMAIN w : \E i \in keep \cap DOMAIN specs : w[k] = specs[i]
  BY <1>1, <1>3, WhereIn
<1>5. w \in Seq(Range(w))
  BY <1>4 DEF Range
<1>6. \A spec \in Range(w) : spec \in S
  BY <1>4 DEF Range
<1> QED BY <1>1, <1>2, <1>5, <1>6

\* The inserts of two overrides in one.
LEMMA InsertsMerged ==
  ASSUME NEW specs, specs \in Seq(Range(specs)), \A spec \in Range(specs) : IsNode(spec.node)
  PROVE  /\ MergedInserts(specs) \in Seq(Range(MergedInserts(specs)))
         /\ \A spec \in Range(MergedInserts(specs)) : IsNode(spec.node)
<1> DEFINE last == [i \in DOMAIN specs |-> LastSpec(specs, specs[i].node.id)]
<1>1. DOMAIN specs = 1 .. Len(specs) /\ Len(specs) \in Nat
  OBVIOUS
<1>2. ASSUME NEW i \in DOMAIN specs PROVE LastSpec(specs, specs[i].node.id) \in Range(specs)
  <2>1. PICK T : T = {k \in DOMAIN specs : specs[k].node.id = specs[i].node.id}
    OBVIOUS
  <2>2. T \in SUBSET (1 .. Len(specs)) /\ T # {}
    BY <1>1, <2>1
  <2>3. Max(T) \in T
    BY <1>1, <2>2, MaxIn
  <2>4. Max(T) \in DOMAIN specs
    BY <1>1, <2>2, <2>3
  <2>5. LastSpec(specs, specs[i].node.id) = specs[Max(T)]
    BY <2>1 DEF LastSpec
  <2> QED BY <2>4, <2>5 DEF Range
<1>3. last \in Seq(Range(specs))
  BY <1>1, <1>2
<1>4. /\ last \in Seq(Range(last)) /\ \A spec \in Range(last) : IsNode(spec.node)
  <2>1. \A i \in DOMAIN last : last[i] \in Range(specs)
    BY <1>2
  <2> HIDE DEF last
  <2>2. \A spec \in Range(last) : spec \in Range(specs)
    BY <2>1 DEF Range
  <2>3. last \in Seq(Range(last))
    BY <1>3 DEF Range
  <2> QED BY <2>2, <2>3
<1>5. \E keep : MergedInserts(specs) = Where(last, keep)
  BY DEF MergedInserts
<1> HIDE DEF last
<1> QED BY <1>4, <1>5, SpecsKept

\* One insert sequence behind another.
LEMMA SpecsJoined ==
  ASSUME NEW a, a \in Seq(Range(a)), \A spec \in Range(a) : IsNode(spec.node),
         NEW b, b \in Seq(Range(b)), \A spec \in Range(b) : IsNode(spec.node)
  PROVE  a \o b \in Seq(Range(a \o b)) /\ \A spec \in Range(a \o b) : IsNode(spec.node)
<1>1. PICK S : S = Range(a) \cup Range(b)
  OBVIOUS
<1>2. a \in Seq(S) /\ b \in Seq(S)
  BY <1>1
<1>3. PICK c : c = a \o b
  OBVIOUS
<1>4. c \in Seq(S)
  BY <1>2, <1>3
<1>5. c \in Seq(Range(c)) /\ Range(c) \subseteq S
  BY <1>4 DEF Range
<1> QED BY <1>1, <1>3, <1>5

LEMMA OverridesMerged ==
  ASSUME NEW base, IsOverrides(base), NEW extra, IsOverrides(extra) PROVE IsOverrides(MergeOverrides(base, extra))
<1> DEFINE insert == MergedInserts(base.insert \o extra.insert)
           params == extra.params @@ base.params
           pin == extra.pin @@ base.pin
           labels == extra.labels @@ base.labels
           disable == base.disable \cup extra.disable
           both == [disable |-> disable, insert |-> insert, params |-> params, pin |-> pin, labels |-> labels]
<1>1. MergeOverrides(base, extra) \in {base, extra, both}
  BY Zenon DEF MergeOverrides
<1>2. PICK specs : specs = base.insert \o extra.insert
  OBVIOUS
<1>3. specs \in Seq(Range(specs)) /\ \A spec \in Range(specs) : IsNode(spec.node)
  BY <1>2, SpecsJoined DEF IsOverrides
<1>4. insert \in Seq(Range(insert)) /\ \A spec \in Range(insert) : IsNode(spec.node)
  BY <1>2, <1>3, InsertsMerged
<1> HIDE DEF insert, params, pin, labels, disable
<1>5. "insert" \in DOMAIN both /\ both.insert = insert
  OBVIOUS
<1>6. IsOverrides(both)
  BY <1>4, <1>5 DEF IsOverrides
<1> HIDE DEF both
<1> QED BY <1>1, <1>6

\* An insert put in or taken out leaves a body.
LEMMA AttachKeeps ==
  ASSUME NEW body, IsBody(body), NEW a, IsNode(a.node), NEW slot, NEW on \in BOOLEAN
  PROVE  IsBody(Attach(body, a, slot, on))
<1>1. PICK specs : specs = body.over.insert
  OBVIOUS
<1>2. PICK rest : rest = Where(specs, {i \in DOMAIN specs : specs[i].node.id # a.node.id})
  OBVIOUS
<1>3. specs \in Seq(Range(specs)) /\ \A spec \in Range(specs) : IsNode(spec.node)
  BY <1>1 DEF IsBody, IsOverrides
<1>4. rest \in Seq(Range(rest)) /\ \A spec \in Range(rest) : IsNode(spec.node)
  BY <1>2, <1>3, SpecsKept
<1>5. PICK spec : spec = [after |-> slot.after, node |-> a.node]
  OBVIOUS
<1>6. PICK new : new = IF on THEN Append(rest, spec) ELSE rest
  OBVIOUS
<1>7. new \in Seq(Range(new)) /\ \A any \in Range(new) : IsNode(any.node)
  <2>1. CASE ~on
    BY <1>4, <1>6, <2>1
  <2>2. CASE on
    <3>1. rest \in Seq(Range(rest) \cup {spec})
      BY <1>4
    <3>2. new \in Seq(Range(rest) \cup {spec})
      BY <1>6, <2>2, <3>1
    <3>3. new \in Seq(Range(new)) /\ Range(new) \subseteq Range(rest) \cup {spec}
      BY <3>2 DEF Range
    <3>4. IsNode(spec.node)
      BY <1>5
    <3> QED BY <1>4, <3>3, <3>4
  <2> QED BY <2>1, <2>2
<1>8. PICK over : over = [body.over EXCEPT !.insert = new]
  OBVIOUS
<1>9. Attach(body, a, slot, on) = [body EXCEPT !.over = over]
  BY <1>1, <1>2, <1>5, <1>6, <1>8 DEF Attach
<1>10. IsOverrides(over)
  <2>1. "insert" \in DOMAIN over /\ over.insert = new
    BY <1>8 DEF IsBody, IsOverrides
  <2> QED BY <1>7, <2>1 DEF IsOverrides
<1>11. IsBody([body EXCEPT !.over = over])
  BY <1>10 DEF IsBody
<1> QED BY <1>9, <1>11

-----------------------------------------------------------------------------
(* The invariant of plans *)

\* Rows, entries of the cache and what a call holds of them were parsed.
RowOK(row) == {"version", "body", "attention", "enabled"} \subseteq DOMAIN row /\ IsBody(row.body)
EntryOK(e) ==
  /\ {"row", "flow", "over", "body", "broken"} \subseteq DOMAIN e
  /\ IsFlow(e.flow) /\ IsOverrides(e.over) /\ IsBody(e.body)
PlanOK(job) ==
  /\ {"pc", "flow", "row", "rows", "built", "at", "extra", "plan"} \subseteq DOMAIN job
  /\ RowOK(job.row)
  /\ \A f \in DOMAIN job.rows : RowOK(job.rows[f])
  /\ \A f \in DOMAIN job.built : EntryOK(job.built[f])
  /\ IsOverrides(job.extra)
  /\ job.pc = "create" => Sound(job.plan.base, job.plan.nodes, job.plan.off)

\* So is all that plans are made from, and what they made is sound.
Known == \A t \in DOMAIN templates : IsFlow(templates[t])
Stored == \A f \in Saved : \A v \in DOMAIN defs[f] : RowOK(defs[f][v])
Cached == \A f \in DOMAIN cache : EntryOK(cache[f])
Going == \A j \in Jobs : PlanOK(jobs[j])
RunsOK ==
  /\ \E S : runs \in Seq(S)
  /\ \A i \in DOMAIN runs : {"kept", "plan"} \subseteq DOMAIN runs[i]
  /\ PlanIsSound
PlanInv == Known /\ Stored /\ Cached /\ Going /\ RunsOK

\* What there is without flows, rows or calls.
LEMMA Blank ==
  /\ IsFlow(EmptyFlow) /\ IsOverrides(NoOverrides) /\ RowOK(NoRow) /\ PlanOK(Free)
  /\ \A only : PlanOK(Refresh(only))
<1>1. DOMAIN << >> = {} /\ << >> \in Seq({}) /\ Range(<< >>) = {}
  BY DEF Range
<1>2. IsFlow(EmptyFlow)
  <2>1. EmptyFlow.nodes = << >>
    BY DEF EmptyFlow
  <2> QED BY <1>1, <2>1 DEF IsFlow
<1>3. IsOverrides(NoOverrides)
  <2>1. NoOverrides.insert = << >> /\ "insert" \in DOMAIN NoOverrides
    BY DEF NoOverrides
  <2> QED BY <1>1, <2>1 DEF IsOverrides
<1>4. RowOK(NoRow)
  <2>1. {"version", "body", "attention", "enabled"} \subseteq DOMAIN NoRow
        /\ {"extends", "over", "def"} \subseteq DOMAIN NoRow.body
        /\ NoRow.body.over = NoOverrides /\ NoRow.body.def = EmptyFlow
    BY DEF NoRow
  <2> QED BY <1>2, <1>3, <2>1 DEF RowOK, IsBody
<1>5. /\ {"pc", "flow", "row", "rows", "built", "at", "extra", "plan"} \subseteq DOMAIN Free
      /\ Free.pc = "free" /\ Free.row = NoRow /\ Free.rows = << >> /\ Free.built = << >> /\ Free.extra = NoOverrides
  BY DEF Free
<1>6. PlanOK(Free)
  BY <1>1, <1>3, <1>4, <1>5 DEF PlanOK
<1>7. ASSUME NEW only PROVE PlanOK(Refresh(only))
  <2>1. /\ {"pc", "flow", "row", "rows", "built", "at", "extra", "plan"} \subseteq DOMAIN Refresh(only)
        /\ Refresh(only).pc = "read" /\ Refresh(only).row = NoRow /\ Refresh(only).rows = << >>
        /\ Refresh(only).built = << >> /\ Refresh(only).extra = NoOverrides
    BY DEF Free, Refresh
  <2> QED BY <1>1, <1>3, <1>4, <2>1 DEF PlanOK
<1> QED BY <1>2, <1>3, <1>4, <1>6, <1>7

-----------------------------------------------------------------------------

\* Nothing of it changes.
LEMMA PlansIdle == PlanInv /\ UNCHANGED <<templates, defs, cache, jobs, runs>> => PlanInv'
BY DEF PlanInv, Known, Stored, Cached, Going, RunsOK, PlanIsSound

\* A call goes on, begins or ends.
LEMMA GoingOn ==
  ASSUME CacheInv, PlanInv, NEW k \in Jobs, NEW job, PlanOK(job), jobs' = [jobs EXCEPT ![k] = job]
  PROVE  Going'
<1>1. jobs'[k] = job /\ \A j \in Jobs \ {k} : jobs'[j] = jobs[j]
  BY DEF CacheInv
<1> QED BY <1>1 DEF PlanInv, Going, PlanOK

LEMMA GoingSpawned ==
  ASSUME CacheInv, PlanInv, FreeJob, NEW job, PlanOK(job), jobs' = Spawned(job)
  PROVE  Going'
<1>1. PICK k \in Jobs : jobs[k].pc = "free" /\ Spawned(job) = [jobs EXCEPT ![k] = job]
  BY Spawns
<1> QED BY <1>1, GoingOn

LEMMA GoingEnded == ASSUME CacheInv, PlanInv, NEW k \in Jobs, Finish(k) PROVE Going'
<1>1. PICK job : job = Free
  OBVIOUS
<1> QED BY <1>1, Blank, GoingOn DEF Finish

\* A call moves to another await, which is not that of the creation.
LEMMA GoingMoved ==
  ASSUME CacheInv, PlanInv, NEW k \in Jobs, NEW pc, pc # "create", Move(k, pc)
  PROVE  Going'
<1>1. PICK old : old = jobs[k]
  OBVIOUS
<1>2. PICK job : job = [old EXCEPT !.pc = pc]
  OBVIOUS
<1>3. PlanOK(old)
  BY <1>1 DEF PlanInv, Going
<1>4. DOMAIN job = DOMAIN old /\ job.pc = pc /\ job.row = old.row /\ job.rows = old.rows /\ job.built = old.built
      /\ job.extra = old.extra
  BY <1>2, <1>3 DEF PlanOK
<1>5. PlanOK(job)
  BY <1>3, <1>4 DEF PlanOK
<1>6. jobs' = [jobs EXCEPT ![k] = job]
  BY <1>1, <1>2 DEF Move, CacheInv
<1> QED BY <1>5, <1>6, GoingOn

\* A call writes, and the reads of the others are outdated.
LEMMA GoingOutdated ==
  ASSUME CacheInv, PlanInv, NEW k \in Jobs, NEW job, PlanOK(job), jobs' = Outdated(k, job)
  PROVE  Going'
<1>1. jobs'[k] = job /\ \A j \in Jobs \ {k} : jobs'[j] = [jobs[j] EXCEPT !.fresh = FALSE]
  BY DEF Outdated
<1>2. ASSUME NEW j \in Jobs \ {k} PROVE PlanOK(jobs'[j])
  <2>1. PICK old : old = jobs[j]
    OBVIOUS
  <2>2. PICK new : new = [old EXCEPT !.fresh = FALSE]
    OBVIOUS
  <2>3. PlanOK(old)
    BY <2>1 DEF PlanInv, Going
  <2>4. DOMAIN new = DOMAIN old /\ new.pc = old.pc /\ new.row = old.row /\ new.rows = old.rows
        /\ new.built = old.built /\ new.extra = old.extra /\ new.plan = old.plan
    BY <2>2, <2>3 DEF PlanOK
  <2>5. PlanOK(new)
    BY <2>3, <2>4 DEF PlanOK
  <2> QED BY <1>1, <2>1, <2>2, <2>5
<1> QED BY <1>1, <1>2 DEF Going, PlanOK

\* What is planned without errors is sound; else the call ends.
LEMMA PlannedSound ==
  ASSUME PlanInv, NEW job, PlanOK(job) PROVE PlanOK(Planned(job))
<1>1. PICK to : to = ResolveFlow(job.flow)
  OBVIOUS
<1>2. PICK over : over = MergeOverrides(to.over, job.extra)
  OBVIOUS
<1>3. PICK result : result = ApplyOverrides(to.flow, over)
  OBVIOUS
<1>4. PICK plan : plan = [base |-> to.flow, nodes |-> result.nodes, off |-> result.off, version |-> to.version]
  OBVIOUS
<1>5. PICK alive : alive = Alive
  OBVIOUS
<1>6. PICK planned : planned = [job EXCEPT !.pc = "create", !.plan = plan]
  OBVIOUS
<1>7. \/ Planned(job) = Free
      \/ /\ Planned(job) = planned
         /\ Startable(job.flow) /\ Errors(Preflight(to.flow, over, alive)) = {}
  BY <1>1, <1>2, <1>3, <1>4, <1>5, <1>6, Zenon DEF Planned
<1>8. CASE Startable(job.flow) /\ Errors(Preflight(to.flow, over, alive)) = {} /\ Planned(job) = planned
  <2>1. IsFlow(to.flow) /\ IsOverrides(to.over)
    <3>1. CASE job.flow \in DOMAIN cache
      <4>1. to.flow = cache[job.flow].flow /\ to.over = cache[job.flow].over
        BY <1>1, <3>1 DEF ResolveFlow
      <4> QED BY <3>1, <4>1 DEF PlanInv, Cached, EntryOK
    <3>2. CASE job.flow \notin DOMAIN cache
      <4>1. to.flow = templates[job.flow] /\ to.over = NoOverrides /\ job.flow \in DOMAIN templates
        BY <1>1, <1>8, <3>2 DEF ResolveFlow, Startable
      <4> QED BY <4>1, Blank DEF PlanInv, Known
    <3> QED BY <3>1, <3>2
  <2>2. PICK over1 : over1 = to.over
    OBVIOUS
  <2>3. PICK extra : extra = job.extra
    OBVIOUS
  <2>4. IsOverrides(over)
    BY <1>2, <2>1, <2>2, <2>3, OverridesMerged DEF PlanOK
  <2>5. PICK flow : flow = to.flow
    OBVIOUS
  <2>6. Sound(flow, result.nodes, result.off)
    BY <1>3, <1>8, <2>1, <2>4, <2>5, PlanSound
  <2>7. plan.base = flow /\ plan.nodes = result.nodes /\ plan.off = result.off
    BY <1>4, <2>5
  <2>8. DOMAIN planned = DOMAIN job /\ planned.plan = plan /\ planned.row = job.row /\ planned.rows = job.rows
        /\ planned.built = job.built /\ planned.extra = job.extra
    BY <1>6 DEF PlanOK
  <2>9. PlanOK(planned)
    BY <2>6, <2>7, <2>8 DEF PlanOK
  <2> QED BY <1>8, <2>9
<1> QED BY <1>7, <1>8, Blank

\* An element more: the new one or an old one.
LEMMA Appended ==
  ASSUME NEW S, NEW s \in Seq(S), NEW e
  PROVE  /\ Append(s, e) \in Seq(S \cup {e})
         /\ \A i \in DOMAIN Append(s, e) : Append(s, e)[i] = e \/ (i \in DOMAIN s /\ Append(s, e)[i] = s[i])
<1>1. s \in Seq(S \cup {e})
  OBVIOUS
<1>2. PICK t : t = Append(s, e)
  OBVIOUS
<1>3. t \in Seq(S \cup {e}) /\ DOMAIN t = 1 .. Len(s) + 1 /\ t[Len(s) + 1] = e /\ DOMAIN s = 1 .. Len(s)
      /\ Len(s) \in Nat /\ \A i \in 1 .. Len(s) : t[i] = s[i]
  BY <1>1, <1>2
<1>4. ASSUME NEW i \in DOMAIN t PROVE t[i] = e \/ (i \in DOMAIN s /\ t[i] = s[i])
  <2>1. i = Len(s) + 1 \/ i \in 1 .. Len(s)
    BY <1>3
  <2> QED BY <1>3, <2>1
<1> QED BY <1>2, <1>3, <1>4

\* Nothing but the calls changes.
Still == UNCHANGED <<templates, defs, cache, runs>>
LEMMA StillKeeps == PlanInv /\ Still /\ Going' => PlanInv'
BY DEF PlanInv, Still, Known, Stored, Cached, RunsOK, PlanIsSound

\* A template is registered or goes (define, undefine).
LEMMA DefinePlans ==
  ASSUME CacheInv, PlanInv, NEW t \in DOMAIN Templates, NEW flow \in Templates[t], Define(t, flow)
  PROVE  PlanInv'
<1>1. PICK job : job = Refresh(t)
  OBVIOUS
<1>2. Going'
  BY <1>1, Blank, GoingSpawned DEF Define
<1>3. IsFlow(flow)
  BY ShapesAssumption
<1>4. Known'
  <2>1. DOMAIN templates' = DOMAIN templates \cup {t}
        /\ \A x \in DOMAIN templates' : templates'[x] = IF x = t THEN flow ELSE templates[x]
    BY DEF Define
  <2> QED BY <1>3, <2>1 DEF PlanInv, Known
<1> QED BY <1>2, <1>4 DEF PlanInv, Define, Stored, Cached, RunsOK, PlanIsSound

LEMMA UndefinePlans == ASSUME PlanInv, NEW t, Undefine(t) PROVE PlanInv'
<1>1. DOMAIN templates' \subseteq DOMAIN templates /\ \A x \in DOMAIN templates' : templates'[x] = templates[x]
  BY DEF Undefine, Without
<1>2. Known'
  BY <1>1 DEF PlanInv, Known
<1> QED BY <1>2 DEF PlanInv, Undefine, Stored, Cached, Going, RunsOK, PlanIsSound

\* A flow is to be saved (save_flow).
LEMMA SavePlans ==
  ASSUME CacheInv, PlanInv, FreeJob, NEW f, NEW body, IsBody(body), NEW enabled, SaveFlow(f, body, enabled)
  PROVE  PlanInv'
<1>1. PICK row : row = [NoRow EXCEPT !.body = body, !.enabled = enabled]
  OBVIOUS
<1>2. PICK job : job = [Free EXCEPT !.pc = "insert", !.flow = f, !.row = row]
  OBVIOUS
<1>3. RowOK(row)
  BY <1>1 DEF RowOK, NoRow
<1>4. DOMAIN job = DOMAIN Free /\ job.pc = "insert" /\ job.row = row /\ job.rows = Free.rows
      /\ job.built = Free.built /\ job.extra = Free.extra
  BY <1>2 DEF Free
<1>5. PlanOK(job)
  BY <1>3, <1>4, Blank DEF PlanOK
<1>6. jobs' = Spawned(job) /\ Still
  BY <1>1, <1>2 DEF SaveFlow, Still, plugins
<1> QED BY <1>5, <1>6, GoingSpawned, StillKeeps

LEMMA PutPlans ==
  ASSUME CacheInv, PlanInv, NEW role, NEW f \in Saved, NEW body \in Bodies[f], NEW enabled,
         PutFlow(role, f, body, enabled)
  PROVE  PlanInv'
BY ShapesAssumption, SavePlans DEF PutFlow, Requested

\* An insert is proposed to the body the cache holds (put_attachment).
LEMMA AttachPlans ==
  ASSUME CacheInv, PlanInv, NEW role, NEW a \in Attachments, NEW f \in Saved, NEW on \in BOOLEAN,
         PutAttachment(role, a, f, on)
  PROVE  PlanInv'
<1>1. f \in DOMAIN cache /\ FreeJob
  BY DEF PutAttachment, Requested
<1>2. PICK slot : SaveFlow(f, Attach(cache[f].body, a, slot, on), TRUE)
  BY DEF PutAttachment
<1>3. PICK old : old = cache[f].body
  OBVIOUS
<1>4. PICK body : body = Attach(old, a, slot, on)
  OBVIOUS
<1>5. IsBody(old) /\ IsNode(a.node)
  BY <1>1, <1>3, ShapesAssumption DEF PlanInv, Cached, EntryOK
<1>6. IsBody(body)
  BY <1>4, <1>5, AttachKeeps
<1> QED BY <1>1, <1>2, <1>3, <1>4, <1>6, SavePlans

LEMMA DeletePlans == ASSUME CacheInv, PlanInv, NEW role, NEW f \in Saved, DeleteFlow(role, f) PROVE PlanInv'
<1>1. PICK job : job = [Free EXCEPT !.pc = "delete", !.flow = f]
  OBVIOUS
<1>2. DOMAIN job = DOMAIN Free /\ job.pc = "delete" /\ job.row = Free.row /\ job.rows = Free.rows
      /\ job.built = Free.built /\ job.extra = Free.extra
  BY <1>1 DEF Free
<1>3. PlanOK(job)
  BY <1>2, Blank DEF PlanOK
<1>4. FreeJob /\ jobs' = Spawned(job) /\ Still
  BY <1>1 DEF DeleteFlow, Requested, Still, plugins
<1> QED BY <1>3, <1>4, GoingSpawned, StillKeeps

\* A run is asked for (start).
LEMMA PostPlans ==
  ASSUME CacheInv, PlanInv, NEW role, NEW f, NEW extra \in RunOverrides, NEW key, PostRun(role, f, extra, key)
  PROVE  PlanInv'
<1>1. PICK job : job = [Free EXCEPT !.flow = f, !.extra = extra, !.key = key]
  OBVIOUS
<1>2. PICK seek : seek = [job EXCEPT !.pc = "lookup"]
  OBVIOUS
<1>3. IsOverrides(extra)
  BY ShapesAssumption
<1>4. DOMAIN job = DOMAIN Free /\ job.pc = "free" /\ job.row = Free.row /\ job.rows = Free.rows
      /\ job.built = Free.built /\ job.extra = extra
  BY <1>1 DEF Free
<1>5. PlanOK(job)
  BY <1>3, <1>4, Blank DEF PlanOK
<1>6. DOMAIN seek = DOMAIN job /\ seek.pc = "lookup" /\ seek.row = job.row /\ seek.rows = job.rows
      /\ seek.built = job.built /\ seek.extra = job.extra
  BY <1>2, <1>5 DEF PlanOK
<1>7. PlanOK(seek)
  BY <1>5, <1>6 DEF PlanOK
<1>8. FreeJob /\ Still /\ jobs' = Spawned(IF key = "none" THEN Planned(job) ELSE seek)
  BY <1>1, <1>2 DEF PostRun, Requested, Still, plugins
<1>9. PICK new : new = IF key = "none" THEN Planned(job) ELSE seek
  OBVIOUS
<1>10. PlanOK(new)
  BY <1>5, <1>7, <1>9, PlannedSound
<1> QED BY <1>8, <1>9, <1>10, GoingSpawned, StillKeeps

\* The next version is written (save_def).
LEMMA InsertPlans == ASSUME CacheInv, PlanInv, NEW j \in Jobs, Insert(j) PROVE PlanInv'
<1>1. PICK old : old = jobs[j]
  OBVIOUS
<1>2. PICK f : f = old.flow
  OBVIOUS
<1>3. PICK row : row = [old.row EXCEPT !.version = Len(defs[f]) + 1]
  OBVIOUS
<1>4. PICK job : job = [old EXCEPT !.pc = "saved", !.row = row, !.wrote = TRUE]
  OBVIOUS
<1>5. PlanOK(old) /\ f \in Saved
  BY <1>1, <1>2 DEF PlanInv, Going, CacheInv, JobOK, Insert
<1>6. RowOK(row)
  BY <1>3, <1>5 DEF PlanOK, RowOK
<1>7. DOMAIN job = DOMAIN old /\ job.pc = "saved" /\ job.row = row /\ job.rows = old.rows
      /\ job.built = old.built /\ job.extra = old.extra
  BY <1>4, <1>5 DEF PlanOK
<1>8. PlanOK(job)
  BY <1>5, <1>6, <1>7 DEF PlanOK
<1>9. /\ defs' = [defs EXCEPT ![f] = Append(defs[f], row)] /\ jobs' = Outdated(j, job)
      /\ UNCHANGED <<templates, cache, runs>>
  BY <1>1, <1>2, <1>3, <1>4 DEF Insert, plugins
<1>10. Going'
  BY <1>8, <1>9, GoingOutdated
<1>11. Stored'
  <2>1. PICK S : defs[f] \in Seq(S)
    BY <1>5 DEF CacheInv, Numbered
  <2>2. PICK s : s = Append(defs[f], row)
    OBVIOUS
  <2>3. \A v \in DOMAIN s : s[v] = row \/ (v \in DOMAIN defs[f] /\ s[v] = defs[f][v])
    <3>1. PICK d : d = defs[f]
      OBVIOUS
    <3> QED BY <2>1, <2>2, <3>1, Appended
  <2>4. defs'[f] = s /\ \A g \in Saved \ {f} : defs'[g] = defs[g]
    BY <1>5, <1>9, <2>2 DEF CacheInv
  <2>5. \A v \in DOMAIN s : RowOK(s[v])
    BY <1>5, <1>6, <2>3 DEF PlanInv, Stored
  <2> QED BY <2>4, <2>5 DEF PlanInv, Stored
<1> QED BY <1>9, <1>10, <1>11 DEF PlanInv, Known, Cached, RunsOK, PlanIsSound

LEMMA ReadBackPlans == ASSUME CacheInv, PlanInv, NEW j \in Jobs, ReadBack(j) PROVE PlanInv'
<1>1. Still /\ (Move(j, "read") \/ Finish(j))
  BY DEF ReadBack, Still, plugins
<1> QED BY <1>1, GoingMoved, GoingEnded, StillKeeps

\* The rows of a flow go (delete_def).
LEMMA RowsPlans == ASSUME CacheInv, PlanInv, NEW j \in Jobs, DeleteRows(j) PROVE PlanInv'
<1>1. PICK old : old = jobs[j]
  OBVIOUS
<1>2. PICK job : job = [old EXCEPT !.pc = "pop"]
  OBVIOUS
<1>3. PICK f : f = old.flow
  OBVIOUS
<1>4. PlanOK(old) /\ f \in Saved
  BY <1>1, <1>3 DEF PlanInv, Going, CacheInv, JobOK, DeleteRows
<1>5. DOMAIN job = DOMAIN old /\ job.pc = "pop" /\ job.row = old.row /\ job.rows = old.rows
      /\ job.built = old.built /\ job.extra = old.extra
  BY <1>2, <1>4 DEF PlanOK
<1>6. PlanOK(job)
  BY <1>4, <1>5 DEF PlanOK
<1>7. /\ defs' = [defs EXCEPT ![f] = << >>] /\ jobs' = Outdated(j, job) /\ UNCHANGED <<templates, cache, runs>>
  BY <1>1, <1>2, <1>3 DEF DeleteRows, plugins
<1>8. Going'
  BY <1>6, <1>7, GoingOutdated
<1>9. Stored'
  <2>1. defs'[f] = << >> /\ DOMAIN << >> = {} /\ \A g \in Saved \ {f} : defs'[g] = defs[g]
    BY <1>4, <1>7 DEF CacheInv
  <2> QED BY <2>1 DEF PlanInv, Stored
<1> QED BY <1>7, <1>8, <1>9 DEF PlanInv, Known, Cached, RunsOK, PlanIsSound

LEMMA PopPlans == ASSUME CacheInv, PlanInv, NEW j \in Jobs, Pop(j) PROVE PlanInv'
<1>1. Finish(j) /\ UNCHANGED <<templates, defs, runs>> /\ cache' = Without(cache, jobs[j].flow)
  BY DEF Pop, plugins
<1>2. Going'
  BY <1>1, GoingEnded
<1>3. Cached'
  <2>1. \A g \in DOMAIN cache' : g \in DOMAIN cache /\ cache'[g] = cache[g]
    BY <1>1 DEF Without
  <2> QED BY <2>1 DEF PlanInv, Cached
<1> QED BY <1>1, <1>2, <1>3 DEF PlanInv, Known, Stored, RunsOK, PlanIsSound

\* A refresh reads.
LEMMA ReadPlans == ASSUME CacheInv, PlanInv, NEW j \in Jobs, Read(j) PROVE PlanInv'
<1>1. PICK old : old = jobs[j]
  OBVIOUS
<1>2. PICK rows : rows = Latest
  OBVIOUS
<1>3. PICK job : job = [old EXCEPT !.pc = "build", !.rows = rows, !.fresh = TRUE]
  OBVIOUS
<1>4. PlanOK(old)
  BY <1>1 DEF PlanInv, Going
<1>5. jobs' = [jobs EXCEPT ![j] = job] /\ Still
  BY <1>1, <1>2, <1>3 DEF Read, CacheInv, Still, plugins
<1>6. \A f \in DOMAIN rows : RowOK(rows[f])
  <2>1. SUFFICES ASSUME NEW f \in Saved, defs[f] # << >> PROVE RowOK(Last(defs[f]))
    BY <1>2 DEF Latest
  <2>2. PICK s : s = defs[f]
    OBVIOUS
  <2>3. Numbered(s) /\ s # << >>
    BY <2>1, <2>2 DEF CacheInv
  <2>4. Len(s) \in DOMAIN s
    BY <2>3 DEF Numbered
  <2> QED BY <2>2, <2>4 DEF PlanInv, Stored, Last
<1>7. DOMAIN job = DOMAIN old /\ job.pc = "build" /\ job.row = old.row /\ job.rows = rows
      /\ job.built = old.built /\ job.extra = old.extra
  BY <1>3, <1>4 DEF PlanOK
<1>8. PlanOK(job)
  BY <1>4, <1>6, <1>7 DEF PlanOK
<1> QED BY <1>5, <1>8, GoingOn, StillKeeps

\* An entry built of a row (_build_entry).
LEMMA EntryBuilt == ASSUME PlanInv, NEW row, RowOK(row) PROVE EntryOK(BuildEntry(row))
<1>1. PICK body : body = row.body
  OBVIOUS
<1>2. PICK e : e = BuildEntry(row)
  OBVIOUS
<1>3. IsFlow(body.def) /\ IsOverrides(body.over) /\ IsBody(body)
  BY <1>1 DEF RowOK, IsBody
<1>4. /\ {"row", "flow", "over", "body", "broken"} \subseteq DOMAIN e
      /\ e.body = body /\ e.over \in {body.over, NoOverrides}
  BY <1>1, <1>2 DEF BuildEntry
<1>5. e.flow = CASE body.extends = "none" -> body.def
                 [] body.extends # "none" /\ body.extends \in DOMAIN templates -> templates[body.extends]
                 [] OTHER -> EmptyFlow
  BY <1>1, <1>2, Zenon DEF BuildEntry
<1>6. IsFlow(e.flow)
  <2>1. \/ e.flow = body.def \/ e.flow = EmptyFlow
        \/ body.extends \in DOMAIN templates /\ e.flow = templates[body.extends]
    <3>1. body.extends = "none" => e.flow = body.def
      BY <1>5, Zenon
    <3>2. body.extends # "none" /\ body.extends \in DOMAIN templates => e.flow = templates[body.extends]
      BY <1>5, Zenon
    <3>3. body.extends # "none" /\ body.extends \notin DOMAIN templates => e.flow = EmptyFlow
      BY <1>5, Zenon
    <3> QED BY <3>1, <3>2, <3>3
  <2> QED BY <1>3, <2>1, Blank DEF PlanInv, Known
<1>7. IsOverrides(e.over)
  BY <1>3, <1>4, Blank
<1> QED BY <1>2, <1>3, <1>4, <1>6, <1>7 DEF EntryOK

LEMMA EntriesBuilt ==
  ASSUME PlanInv, NEW job, PlanOK(job), NEW i PROVE \A f \in DOMAIN BuiltTo(job, i) : EntryOK(BuiltTo(job, i)[f])
<1> DEFINE now == {FlowIds[k] : k \in job.at .. i} \cap DOMAIN job.rows
<1>1. now \subseteq DOMAIN job.rows
  OBVIOUS
<1>2. BuiltTo(job, i) =
        [f \in now \cup DOMAIN job.built |-> IF f \in now THEN BuildEntry(job.rows[f]) ELSE job.built[f]]
  BY DEF BuiltTo
<1> HIDE DEF now
<1>3. ASSUME NEW f \in now \cup DOMAIN job.built
      PROVE  EntryOK(IF f \in now THEN BuildEntry(job.rows[f]) ELSE job.built[f])
  <2>1. CASE f \in now
    <3>1. PICK row : row = job.rows[f]
      OBVIOUS
    <3>2. RowOK(row)
      BY <1>1, <2>1, <3>1 DEF PlanOK
    <3> QED BY <2>1, <3>1, <3>2, EntryBuilt
  <2>2. CASE f \notin now
    BY <2>2 DEF PlanOK
  <2> QED BY <2>1, <2>2
<1> QED BY <1>2, <1>3

\* Entries are built up to a flag that is to be written, or all.
LEMMA BuildToPlans == ASSUME CacheInv, PlanInv, NEW j \in Jobs, BuildToFlag(j) PROVE PlanInv'
<1>1. PICK old : old = jobs[j]
  OBVIOUS
<1>2. PICK i : i = Min(Changed(old))
  OBVIOUS
<1>3. PICK built : built = BuiltTo(old, i)
  OBVIOUS
<1>4. PICK job : job = [old EXCEPT !.pc = "flag", !.at = i, !.built = built]
  OBVIOUS
<1>5. PlanOK(old)
  BY <1>1 DEF PlanInv, Going
<1>6. jobs' = [jobs EXCEPT ![j] = job] /\ Still
  BY <1>1, <1>2, <1>3, <1>4 DEF BuildToFlag, CacheInv, Still, plugins
<1>7. \A f \in DOMAIN built : EntryOK(built[f])
  BY <1>3, <1>5, EntriesBuilt
<1>8. DOMAIN job = DOMAIN old /\ job.pc = "flag" /\ job.row = old.row /\ job.rows = old.rows
      /\ job.built = built /\ job.extra = old.extra
  BY <1>4, <1>5 DEF PlanOK
<1>9. PlanOK(job)
  BY <1>5, <1>7, <1>8 DEF PlanOK
<1> QED BY <1>6, <1>9, GoingOn, StillKeeps

LEMMA BuildRestPlans == ASSUME CacheInv, PlanInv, NEW j \in Jobs, BuildRest(j) PROVE PlanInv'
<1>1. PICK old : old = jobs[j]
  OBVIOUS
<1>2. PICK n : n = Len(FlowIds)
  OBVIOUS
<1>3. PlanOK(old)
  BY <1>1 DEF PlanInv, Going
<1>4. cache' = BuiltTo(old, n) /\ Finish(j) /\ UNCHANGED <<templates, defs, runs>>
  BY <1>1, <1>2 DEF BuildRest, plugins
<1>5. \A f \in DOMAIN BuiltTo(old, n) : EntryOK(BuiltTo(old, n)[f])
  BY <1>3, EntriesBuilt
<1>6. Cached'
  BY <1>4, <1>5 DEF Cached
<1>7. Going'
  BY <1>4, GoingEnded
<1> QED BY <1>4, <1>6, <1>7 DEF PlanInv, Known, Stored, RunsOK, PlanIsSound

\* A flag is put right (set_def_flags).
LEMMA FlagPlans == ASSUME CacheInv, PlanInv, NEW j \in Jobs, Flag(j) PROVE PlanInv'
<1>1. PICK old : old = jobs[j]
  OBVIOUS
<1>2. PICK f : f = FlowIds[old.at]
  OBVIOUS
<1>3. PICK entry : entry = old.built[f]
  OBVIOUS
<1>4. PICK flagged : flagged = Flagged(entry)
  OBVIOUS
<1>5. PICK v : v = entry.row.version
  OBVIOUS
<1>6. PICK built : built = [old.built EXCEPT ![f] = flagged]
  OBVIOUS
<1>7. PICK at : at = old.at + 1
  OBVIOUS
<1>8. PICK job : job = [old EXCEPT !.pc = "build", !.at = at, !.wrote = TRUE, !.built = built]
  OBVIOUS
<1>9. PlanOK(old)
  BY <1>1 DEF PlanInv, Going
<1>10. job = [old EXCEPT !.pc = "build", !.at = old.at + 1, !.wrote = TRUE, !.built[f] = flagged]
  BY <1>6, <1>7, <1>8
<1>11. /\ v \in DOMAIN defs[f] => defs' = [defs EXCEPT ![f][v].attention = entry.broken] /\ jobs' = Outdated(j, job)
       /\ v \notin DOMAIN defs[f] => defs' = defs /\ jobs' = [jobs EXCEPT ![j] = job]
       /\ UNCHANGED <<templates, cache, runs>>
  BY <1>1, <1>2, <1>3, <1>4, <1>5, <1>10 DEF Flag, plugins
<1>12. \A g \in DOMAIN built : EntryOK(built[g])
  <2>1. ASSUME f \in DOMAIN old.built PROVE EntryOK(flagged)
    <3>1. EntryOK(entry)
      BY <1>3, <1>9, <2>1 DEF PlanOK
    <3>2. PICK row : row = [entry.row EXCEPT !.attention = entry.broken]
      OBVIOUS
    <3>3. flagged = [entry EXCEPT !.row = row]
      BY <1>4, <3>2 DEF Flagged
    <3>4. DOMAIN flagged = DOMAIN entry /\ flagged.flow = entry.flow /\ flagged.over = entry.over
          /\ flagged.body = entry.body
      BY <3>1, <3>3 DEF EntryOK
    <3> QED BY <3>1, <3>4 DEF EntryOK
  <2>2. DOMAIN built = DOMAIN old.built /\ \A g \in DOMAIN built : built[g] = IF g = f THEN flagged ELSE old.built[g]
    BY <1>6
  <2> QED BY <1>9, <2>1, <2>2 DEF PlanOK
<1>13. DOMAIN job = DOMAIN old /\ job.pc = "build" /\ job.row = old.row /\ job.rows = old.rows
       /\ job.built = built /\ job.extra = old.extra
  BY <1>8, <1>9 DEF PlanOK
<1>14. PlanOK(job)
  BY <1>9, <1>12, <1>13 DEF PlanOK
<1>15. Going'
  BY <1>11, <1>14, GoingOn, GoingOutdated
<1>16. Stored'
  <2>1. CASE v \notin DOMAIN defs[f]
    BY <1>11, <2>1 DEF PlanInv, Stored
  <2>2. CASE v \in DOMAIN defs[f]
    <3>1. f \in Saved
      BY <1>1, <1>2 DEF CacheInv, JobOK, Flag, Saved, Range
    <3>2. PICK row : row = [defs[f][v] EXCEPT !.attention = entry.broken]
      OBVIOUS
    <3>3. PICK s : s = [defs[f] EXCEPT ![v] = row]
      OBVIOUS
    <3>4. defs' = [defs EXCEPT ![f] = s]
      <4>1. defs' = [defs EXCEPT ![f][v].attention = entry.broken]
        BY <1>11, <2>2
      <4> QED BY <2>2, <3>2, <3>3, <4>1
    <3>5. defs'[f] = s /\ \A g \in Saved \ {f} : defs'[g] = defs[g]
      BY <3>1, <3>4 DEF CacheInv
    <3>6. RowOK(row)
      <4>1. RowOK(defs[f][v])
        BY <2>2, <3>1 DEF PlanInv, Stored
      <4>2. DOMAIN row = DOMAIN defs[f][v] /\ row.body = defs[f][v].body
        BY <3>2, <4>1 DEF RowOK
      <4> QED BY <4>1, <4>2 DEF RowOK
    <3>7. DOMAIN s = DOMAIN defs[f] /\ \A w \in DOMAIN s : s[w] = row \/ s[w] = defs[f][w]
      BY <3>3
    <3>8. \A w \in DOMAIN s : RowOK(s[w])
      BY <3>1, <3>6, <3>7 DEF PlanInv, Stored
    <3> QED BY <3>5, <3>8 DEF PlanInv, Stored
  <2> QED BY <2>1, <2>2
<1> QED BY <1>11, <1>15, <1>16 DEF PlanInv, Known, Cached, RunsOK, PlanIsSound

LEMMA LookupPlans == ASSUME CacheInv, PlanInv, NEW j \in Jobs, Lookup(j) PROVE PlanInv'
<1>1. Still /\ (Move(j, "plan") \/ Finish(j))
  BY DEF Lookup, Still, plugins
<1> QED BY <1>1, GoingMoved, GoingEnded, StillKeeps

LEMMA PlanPlans == ASSUME CacheInv, PlanInv, NEW j \in Jobs, Plan(j) PROVE PlanInv'
<1>1. PICK old : old = jobs[j]
  OBVIOUS
<1>2. PICK job : job = Planned(old)
  OBVIOUS
<1>3. PlanOK(job)
  BY <1>1, <1>2, PlannedSound DEF PlanInv, Going
<1>4. jobs' = [jobs EXCEPT ![j] = job] /\ Still
  BY <1>1, <1>2 DEF Plan, Still, plugins
<1> QED BY <1>3, <1>4, GoingOn, StillKeeps

\* The run is inserted with the plan that was made (record_run_created).
LEMMA CreatePlans == ASSUME CacheInv, PlanInv, NEW j \in Jobs, Create(j) PROVE PlanInv'
<1>1. PICK plan : plan = jobs[j].plan
  OBVIOUS
<1>2. PICK r : r = [from |-> jobs[j].flow, key |-> jobs[j].key, kept |-> TRUE, plan |-> plan]
  OBVIOUS
<1>3. {"kept", "plan"} \subseteq DOMAIN r /\ r.plan = plan
  BY <1>2
<1>4. Finish(j) /\ UNCHANGED <<templates, defs, cache>> /\ runs' \in {runs, Append(runs, r)} /\ jobs[j].pc = "create"
  BY <1>1, <1>2 DEF Create, plugins
<1>5. Going'
  BY <1>4, GoingEnded
<1>6. Sound(plan.base, plan.nodes, plan.off)
  BY <1>1, <1>4 DEF PlanInv, Going, PlanOK
<1>7. RunsOK'
  <2>1. CASE runs' = runs
    BY <2>1 DEF PlanInv, RunsOK, PlanIsSound
  <2>2. CASE runs' = Append(runs, r)
    <3>1. PICK S : runs \in Seq(S)
      BY DEF PlanInv, RunsOK
    <3>2. PICK old : old = runs
      OBVIOUS
    <3>3. runs' \in Seq(S \cup {r}) /\ \A i \in DOMAIN runs' : runs'[i] = r \/ (i \in DOMAIN runs /\ runs'[i] = runs[i])
      BY <2>2, <3>1, <3>2, Appended
    <3>4. \A i \in DOMAIN runs' : {"kept", "plan"} \subseteq DOMAIN runs'[i]
      BY <1>3, <3>3 DEF PlanInv, RunsOK
    <3>5. ASSUME NEW i \in DOMAIN runs' PROVE Sound(runs'[i].plan.base, runs'[i].plan.nodes, runs'[i].plan.off)
      <4>1. CASE runs'[i] = r
        BY <1>3, <1>6, <4>1
      <4>2. CASE i \in DOMAIN runs /\ runs'[i] = runs[i]
        BY <4>2 DEF PlanInv, RunsOK, PlanIsSound
      <4> QED BY <3>3, <4>1, <4>2
    <3>6. PlanIsSound'
      BY <3>5 DEF PlanIsSound, Sound
    <3> QED BY <3>3, <3>4, <3>6 DEF RunsOK
  <2> QED BY <1>4, <2>1, <2>2
<1> QED BY <1>4, <1>5, <1>7 DEF PlanInv, Known, Stored, Cached

\* Rows go, and the plans of those that stay with them (retain).
LEMMA RetainPlans == ASSUME PlanInv, NEW n, Retain(n) PROVE PlanInv'
<1> DEFINE e(i) == [runs[i] EXCEPT !.kept = runs[i].kept /\ i > n]
<1>1. runs' = [i \in DOMAIN runs |-> e(i)] /\ UNCHANGED <<templates, defs, cache, jobs>>
  BY DEF Retain, plugins
<1>2. ASSUME NEW i \in DOMAIN runs PROVE {"kept", "plan"} \subseteq DOMAIN e(i) /\ e(i).plan = runs[i].plan
  <2> DEFINE b == runs[i].kept /\ i > n
  <2>1. e(i) = [runs[i] EXCEPT !.kept = b]
    OBVIOUS
  <2> HIDE DEF b, e
  <2>2. {"kept", "plan"} \subseteq DOMAIN runs[i]
    BY DEF PlanInv, RunsOK
  <2> QED BY <2>1, <2>2
<1>3. \E S : runs' \in Seq(S)
  <2>1. PICK S : runs \in Seq(S)
    BY DEF PlanInv, RunsOK
  <2> DEFINE T == {e(i) : i \in DOMAIN runs}
  <2>2. DOMAIN runs = 1 .. Len(runs) /\ Len(runs) \in Nat
    BY <2>1
  <2>3. \A i \in 1 .. Len(runs) : e(i) \in T
    BY <2>2
  <2> HIDE DEF e, T
  <2>4. runs' \in Seq(T)
    BY <1>1, <2>2, <2>3
  <2> QED BY <2>4
<1> HIDE DEF e
<1>4. DOMAIN runs' = DOMAIN runs /\ \A i \in DOMAIN runs : runs'[i] = e(i)
  BY <1>1
<1>5. \A i \in DOMAIN runs' : Sound(runs'[i].plan.base, runs'[i].plan.nodes, runs'[i].plan.off)
  BY <1>2, <1>4 DEF PlanInv, RunsOK, PlanIsSound
<1>6. PlanIsSound'
  BY <1>5 DEF PlanIsSound
<1>7. RunsOK'
  BY <1>2, <1>3, <1>4, <1>6 DEF RunsOK
<1> QED BY <1>1, <1>7 DEF PlanInv, Known, Stored, Cached, Going

\* Only the rows and the runs are left.
LEMMA RestartPlans == PlanInv /\ Restart => PlanInv'
<1> SUFFICES ASSUME PlanInv, Restart PROVE PlanInv'
  OBVIOUS
<1>1. PICK first : first = Refresh("all")
  OBVIOUS
<1>2. PICK free : free = Free
  OBVIOUS
<1>3. PlanOK(first) /\ PlanOK(free)
  BY <1>1, <1>2, Blank
<1>4. /\ jobs' = [k \in Jobs |-> IF k = 1 THEN first ELSE free] /\ templates' = << >> /\ cache' = << >>
      /\ UNCHANGED <<defs, runs>>
  BY <1>1, <1>2 DEF Restart
<1>5. DOMAIN << >> = {}
  OBVIOUS
<1>6. Going'
  BY <1>3, <1>4 DEF Going, PlanOK
<1>7. Known' /\ Cached'
  BY <1>4, <1>5 DEF Known, Cached
<1> QED BY <1>4, <1>6, <1>7 DEF PlanInv, Stored, RunsOK, PlanIsSound

\* The installed templates were parsed, and there is nothing else.
LEMMA PlanInit == Init => PlanInv
<1> SUFFICES ASSUME Init PROVE PlanInv
  OBVIOUS
<1>1. /\ templates = Installed.templates /\ defs = [f \in Saved |-> << >>] /\ cache = << >>
      /\ jobs = [j \in Jobs |-> Free] /\ runs = << >>
  BY DEF Init
<1>2. << >> \in Seq({}) /\ DOMAIN << >> = {}
  OBVIOUS
<1>3. Known
  BY <1>1, ShapesAssumption DEF Known
<1>4. Going
  BY <1>1, Blank DEF Going
<1> QED BY <1>1, <1>2, <1>3, <1>4 DEF PlanInv, Stored, Cached, RunsOK, PlanIsSound

LEMMA PlanStep == CacheInv /\ PlanInv /\ [Next]_vars => PlanInv'
<1> SUFFICES ASSUME CacheInv, PlanInv, [Next]_vars PROVE PlanInv'
  OBVIOUS
<1>1. ASSUME Plugin PROVE PlanInv'
  <2>1. CASE \E t \in DOMAIN Templates : \E flow \in Templates[t] : Define(t, flow)
    BY <2>1, DefinePlans
  <2>2. CASE \E t \in DOMAIN Templates : Undefine(t)
    BY <2>2, UndefinePlans
  <2>3. CASE UNCHANGED <<templates, defs, cache, jobs, runs>>
    BY <2>3, PlansIdle
  <2> QED BY <1>1, <2>1, <2>2, <2>3 DEF Plugin, RegisterStep, CloseStep, DrainStep, Declare, Withdraw
<1>2. ASSUME NEW role \in Roles, Request(role) PROVE PlanInv'
  BY <1>2, PutPlans, AttachPlans, DeletePlans, PostPlans DEF Request
<1>3. ASSUME NEW j \in Jobs, Job(j) PROVE PlanInv'
  <2>1. CASE StoreFails(j)
    <3>1. Still /\ Finish(j)
      BY <2>1 DEF StoreFails, Still, plugins
    <3> QED BY <3>1, GoingEnded, StillKeeps
  <2> QED BY <1>3, <2>1, InsertPlans, ReadBackPlans, RowsPlans, PopPlans, ReadPlans, BuildToPlans, BuildRestPlans,
             FlagPlans, LookupPlans, PlanPlans, CreatePlans DEF Job
<1>4. ASSUME NEW n \in 1 .. RunBound, Retain(n) PROVE PlanInv'
  BY <1>4, RetainPlans
<1>5. CASE Restart
  BY <1>5, RestartPlans
<1>6. CASE UNCHANGED vars
  BY <1>6, PlansIdle DEF vars
<1> QED BY <1>1, <1>2, <1>3, <1>4, <1>5, <1>6 DEF Next

\* Templates come and go under flows that were saved for others, overrides are stored, attached and
\* merged over several awaits, steps are replaced and drained: the plan a run is created with keeps every
\* locked and required node of the template it was made from and inserts only behind an open node
\* that has a slot for it (save_flow, put_attachment, _revalidate_user_flows, start).
THEOREM PlanAlwaysSound == Spec => []PlanIsSound
<1>1. PlanInv => PlanIsSound
  BY DEF PlanInv, RunsOK
<1>2. Spec => [](CacheInv /\ PlanInv)
  BY CacheInit, CacheStep, PlanInit, PlanStep, PTL DEF Spec
<1> QED BY <1>1, <1>2, PTL

===============================================================================
