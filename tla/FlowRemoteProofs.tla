-------------------------- MODULE FlowRemoteProofs --------------------------
(***************************************************************************)
(* Proofs about FlowRemote: for any number of jobs, workers, retries and   *)
(* faults, attempts stay within their budget, a dispatch is executed once, *)
(* a success is real, and the call keeps RemotePromise.                    *)
(*                                                                         *)
(* None of them is inductive.  The budget needs to know that a queued job  *)
(* still has an attempt left and that a placed one is not on an excluded   *)
(* node (JobOK); the workers, that an entry which has not begun, or is not *)
(* there, has no handler behind it that is not forgotten (WorkOK); the     *)
(* verdicts, what the messages under way may say (NetOK).                  *)
(***************************************************************************)
EXTENDS FlowRemote, FiniteSetTheorems, WellFoundedInduction, TLAPS

JobRecord == [state : Verdicts \union {"open"}, attempts : Nat, retries : 0 .. RetryMax,
  node : Workers \union {0}, nonce : Nat, idempotent : BOOLEAN,
  excluded : SUBSET Workers, avoid : SUBSET Workers, lease : Int, unplaced : Int]

\* The idempotent nodes that are excluded: each has bought an attempt.
Bought(S) == Cardinality(S \intersect Idempotent)

\* A queued job still has an attempt in its budget, a placed one is using it on a
\* node that is not excluded yet.
JobOK(r) ==
  /\ r \in JobRecord
  /\ r.nonce \in {0, r.attempts}
  /\ r.attempts <= r.retries + 1 + Bought(r.excluded)
  /\ r.state = "open" /\ r.node = 0 => r.attempts <= r.retries + Bought(r.excluded)
  /\ r.state = "open" /\ r.node # 0 =>
       /\ r.node \notin r.excluded
       /\ r.idempotent => r.node \in Idempotent
       /\ r.attempts >= 1

-----------------------------------------------------------------------------
(* What the hub does to the record of one job *)

\* An excluded node buys an attempt if it is idempotent and was not excluded before.
LEMMA BoughtFacts ==
  ASSUME NEW S \in SUBSET Workers, NEW w \in Workers
  PROVE  /\ Bought(S) \in Nat
         /\ Bought(S) <= Cardinality(Idempotent)
         /\ Cardinality(Idempotent) \in Nat
         /\ Bought(S \union {w}) >= Bought(S)
         /\ Bought(S \union {w}) \in Nat
         /\ w \notin S /\ w \in Idempotent => Bought(S \union {w}) = Bought(S) + 1
<1> DEFINE T == S \intersect Idempotent
           U == (S \union {w}) \intersect Idempotent
<1>1. IsFiniteSet(Idempotent)
  BY RemoteAssumption, FS_Subset
<1>2. IsFiniteSet(T) /\ Cardinality(T) <= Cardinality(Idempotent)
  <2>1. T \in SUBSET Idempotent
    OBVIOUS
  <2> QED BY <1>1, <2>1, FS_Subset
<1>3. Cardinality(T) \in Nat /\ Cardinality(Idempotent) \in Nat
  BY <1>1, <1>2, FS_CardinalityType
<1>4. CASE w \in Idempotent
  <2>1. U = T \union {w}
    BY <1>4
  <2>2. Cardinality(U) = IF w \in T THEN Cardinality(T) ELSE Cardinality(T) + 1
    BY <1>2, <2>1, FS_AddElement
  <2> HIDE DEF T, U
  <2>3. w \notin S => w \notin T
    BY DEF T
  <2>4. Bought(S) = Cardinality(T) /\ Bought(S \union {w}) = Cardinality(U)
    BY DEF T, U, Bought
  <2> QED BY <1>2, <1>3, <2>2, <2>3, <2>4
<1>5. CASE w \notin Idempotent
  <2>1. U = T
    BY <1>5
  <2>2. Bought(S) = Cardinality(T) /\ Bought(S \union {w}) = Cardinality(U)
    BY DEF Bought
  <2> HIDE DEF T, U
  <2> QED BY <1>2, <1>3, <1>5, <2>1, <2>2
<1> QED BY <1>4, <1>5

\* The records that the operators return.
LEMMA ExcludingFields ==
  ASSUME NEW r \in JobRecord, r.node \in Workers
  PROVE  /\ Excluding(r) \in JobRecord
         /\ Excluding(r).excluded = r.excluded \union {r.node}
         /\ Excluding(r).state = r.state
         /\ Excluding(r).attempts = r.attempts
         /\ Excluding(r).retries = r.retries
<1> DEFINE e == r.excluded \union {r.node}
<1>1. e \in SUBSET Workers
  BY DEF JobRecord
<1> HIDE DEF e
<1>2. /\ [r EXCEPT !.excluded = e] \in JobRecord
      /\ [r EXCEPT !.excluded = e].excluded = e
      /\ [r EXCEPT !.excluded = e].state = r.state
      /\ [r EXCEPT !.excluded = e].attempts = r.attempts
      /\ [r EXCEPT !.excluded = e].retries = r.retries
  BY <1>1 DEF JobRecord
<1> QED BY <1>2 DEF Excluding, e

\* ... and of Avoiding, Requeued and Dispatched (_requeue, _dispatch).
LEMMA AvoidingFields ==
  ASSUME NEW r \in JobRecord, r.node \in Workers
  PROVE  /\ Avoiding(r) \in JobRecord
         /\ Avoiding(r).excluded = r.excluded
         /\ Avoiding(r).state = r.state
         /\ Avoiding(r).attempts = r.attempts
         /\ Avoiding(r).retries = r.retries
<1> DEFINE e == r.avoid \union {r.node}
<1>1. e \in SUBSET Workers
  BY DEF JobRecord
<1> HIDE DEF e
<1>2. /\ [r EXCEPT !.avoid = e] \in JobRecord
      /\ [r EXCEPT !.avoid = e].excluded = r.excluded
      /\ [r EXCEPT !.avoid = e].state = r.state
      /\ [r EXCEPT !.avoid = e].attempts = r.attempts
      /\ [r EXCEPT !.avoid = e].retries = r.retries
  BY <1>1 DEF JobRecord
<1> QED BY <1>2 DEF Avoiding, e

\* A queued job has no node and no nonce; its budget is left as it was.
LEMMA RequeuedFields ==
  ASSUME NEW r \in JobRecord
  PROVE  /\ Requeued(r) \in JobRecord
         /\ Requeued(r).state = r.state /\ Requeued(r).node = 0 /\ Requeued(r).nonce = 0
         /\ Requeued(r).attempts = r.attempts
         /\ Requeued(r).retries = r.retries
         /\ Requeued(r).excluded = r.excluded
<1>1. Requeued(r) \in JobRecord
  <2> DEFINE W == Workers \union {0}
             V == Verdicts \union {"open"}
             S == SUBSET Workers
             R == [state : V, attempts : Nat, retries : 0 .. RetryMax, node : W, nonce : Nat,
                   idempotent : BOOLEAN, excluded : S, avoid : S, lease : Int, unplaced : Int]
  <2>1. 0 \in W /\ 0 \in Int /\ 0 \in Nat
    OBVIOUS
  <2>2. JobRecord = R
    BY DEF JobRecord
  <2> HIDE DEF W, V, S
  <2>3. Requeued(r) \in R
    BY <2>1, <2>2 DEF Requeued
  <2> QED BY <2>2, <2>3
<1>2. Requeued(r).state = r.state /\ Requeued(r).node = 0 /\ Requeued(r).nonce = 0
  BY DEF JobRecord, Requeued
<1>3. Requeued(r).attempts = r.attempts /\ Requeued(r).retries = r.retries
  BY DEF JobRecord, Requeued
<1>4. Requeued(r).excluded = r.excluded
  BY DEF JobRecord, Requeued
<1> QED BY <1>1, <1>2, <1>3, <1>4

\* A dispatched job has one attempt more, whose number is its nonce.
LEMMA DispatchedFields ==
  ASSUME NEW r \in JobRecord, NEW w \in Workers, seen \in Nat
  PROVE  /\ Dispatched(r, w) \in JobRecord
         /\ Dispatched(r, w).state = r.state
         /\ Dispatched(r, w).node = w
         /\ Dispatched(r, w).idempotent => w \in Idempotent
         /\ Dispatched(r, w).attempts = r.attempts + 1
         /\ Dispatched(r, w).nonce = r.attempts + 1
         /\ Dispatched(r, w).retries = r.retries
         /\ Dispatched(r, w).excluded = r.excluded
<1> DEFINE i == w \in Idempotent
           l == seen + LeaseTimeout
           a == r.attempts + 1
           s == [r EXCEPT !.attempts = a, !.node = w, !.nonce = a, !.idempotent = i, !.lease = l,
                          !.unplaced = -1]
<1>1. i \in BOOLEAN /\ l \in Int /\ a \in Nat
  BY RemoteAssumption DEF JobRecord
<1> HIDE DEF i, l, a
<1>2. s \in JobRecord
  <2> DEFINE W == Workers \union {0}
             V == Verdicts \union {"open"}
             S == SUBSET Workers
             R == [state : V, attempts : Nat, retries : 0 .. RetryMax, node : W, nonce : Nat,
                   idempotent : BOOLEAN, excluded : S, avoid : S, lease : Int, unplaced : Int]
  <2>1. w \in W /\ -1 \in Int
    OBVIOUS
  <2>2. JobRecord = R
    BY DEF JobRecord
  <2> HIDE DEF W, V, S
  <2>3. s \in R
    BY <1>1, <2>1, <2>2
  <2> QED BY <2>2, <2>3
<1>3. s.state = r.state /\ s.node = w /\ s.attempts = a /\ s.nonce = a
  BY DEF JobRecord
<1>4. s.retries = r.retries /\ s.excluded = r.excluded
  BY DEF JobRecord
<1>5. s.idempotent = i
  BY DEF JobRecord
<1>6. Dispatched(r, w) = s
  BY DEF Dispatched, i, l, a
<1> HIDE DEF s
<1> QED BY <1>2, <1>3, <1>4, <1>5, <1>6 DEF i, a

\* A verdict leaves the budget alone (_finalize).
LEMMA FinalizedOK ==
  ASSUME NEW r, JobOK(r), NEW v \in Verdicts
  PROVE  JobOK(Finalized(r, v))
BY DEF JobOK, JobRecord, Finalized, Verdicts

\* Losing a node costs an idempotent node or a retry (_lost).
LEMMA LostOK ==
  ASSUME NEW r, JobOK(r), r.state = "open", r.node # 0
  PROVE  JobOK(Lost(r))
<1>0. r \in JobRecord
  BY DEF JobOK
<1>1. r.node \in Workers /\ r.excluded \in SUBSET Workers
  BY <1>0 DEF JobRecord
<1>2. CASE r.idempotent \/ r.attempts <= r.retries
  <2> DEFINE s == Requeued(Excluding(r))
  <2>1. /\ s \in JobRecord
        /\ s.state = "open" /\ s.node = 0 /\ s.nonce = 0
        /\ s.attempts = r.attempts /\ s.retries = r.retries
        /\ s.excluded = r.excluded \union {r.node}
    BY <1>0, <1>1, ExcludingFields, RequeuedFields
  <2>2. /\ Bought(r.excluded) \in Nat /\ Bought(s.excluded) \in Nat
        /\ Bought(s.excluded) >= Bought(r.excluded)
        /\ r.idempotent => Bought(s.excluded) = Bought(r.excluded) + 1
    BY <1>1, <2>1, BoughtFacts DEF JobOK
  <2>3. r.attempts \in Nat /\ r.retries \in Nat
    BY RemoteAssumption DEF JobOK, JobRecord
  <2>4. r.attempts <= r.retries + Bought(s.excluded)
    BY <1>2, <2>2, <2>3 DEF JobOK
  <2> HIDE DEF s
  <2>5. JobOK(s)
    BY <2>1, <2>2, <2>3, <2>4 DEF JobOK
  <2> QED BY <1>2, <2>5 DEF Lost, s
<1>3. CASE ~(r.idempotent \/ r.attempts <= r.retries)
  BY <1>3, FinalizedOK DEF Lost, Verdicts
<1> QED BY <1>2, <1>3

\* A failure costs a retry (_failed).
LEMMA FailedOK ==
  ASSUME NEW r, JobOK(r), r.state = "open", r.node # 0, NEW b \in BOOLEAN
  PROVE  JobOK(Failed(r, b))
<1>0. r \in JobRecord /\ r.node \in Workers
  BY DEF JobOK, JobRecord
<1>1. CASE b /\ r.attempts <= r.retries
  <2> DEFINE s == Requeued(Avoiding(r))
  <2>1. /\ s \in JobRecord
        /\ s.state = "open" /\ s.node = 0 /\ s.nonce = 0
        /\ s.attempts = r.attempts /\ s.retries = r.retries
        /\ s.excluded = r.excluded
    BY <1>0, AvoidingFields, RequeuedFields
  <2>2. r.node \in Workers /\ r.excluded \in SUBSET Workers /\ r.attempts \in Nat /\ r.retries \in Nat
    BY RemoteAssumption DEF JobOK, JobRecord
  <2>3. Bought(r.excluded) \in Nat
    BY <2>2, BoughtFacts
  <2> HIDE DEF s
  <2>4. JobOK(s)
    BY <1>1, <2>1, <2>2, <2>3 DEF JobOK
  <2> QED BY <1>1, <2>4 DEF Failed, s
<1>2. CASE ~(b /\ r.attempts <= r.retries)
  BY <1>2, FinalizedOK DEF Failed, Verdicts
<1> QED BY <1>1, <1>2

\* Placing a job uses up the attempt that its budget still had (_dispatch).
LEMMA DispatchedOK ==
  ASSUME NEW r, JobOK(r), r.state = "open", r.node = 0, NEW w \in Workers \ r.excluded, seen \in Nat
  PROVE  JobOK(Dispatched(r, w))
<1> DEFINE s == Dispatched(r, w)
<1>0. r \in JobRecord /\ w \in Workers
  BY DEF JobOK
<1>1. /\ s \in JobRecord
      /\ s.node = w /\ s.nonce = s.attempts /\ (s.idempotent => w \in Idempotent)
      /\ s.attempts = r.attempts + 1 /\ s.retries = r.retries
      /\ s.excluded = r.excluded
  BY <1>0, DispatchedFields
<1>2. r.excluded \in SUBSET Workers /\ r.attempts \in Nat /\ r.retries \in Nat
  BY RemoteAssumption DEF JobOK, JobRecord
<1>3. Bought(r.excluded) \in Nat
  BY <1>2, BoughtFacts
<1>4. w # 0
  BY RemoteAssumption
<1> HIDE DEF s
<1>5. JobOK(s)
  BY <1>1, <1>2, <1>3, <1>4 DEF JobOK
<1> QED BY <1>5 DEF s

\* A job that no node can take waits or fails (_place).
LEMMA UnplacedOK ==
  ASSUME NEW r, JobOK(r), r.state = "open", r.node = 0, seen \in Nat
  PROVE  JobOK(Unplaced(r))
<1>1. JobOK([r EXCEPT !.unplaced = seen])
  BY RemoteAssumption DEF JobOK, JobRecord
<1> QED BY <1>1, FinalizedOK DEF Unplaced, Verdicts, JobOK

\* What the operators make of the verdict of an open job.
LEMMA VerdictsGiven ==
  ASSUME NEW r \in JobRecord, r.state = "open", NEW v \in Verdicts, NEW b \in BOOLEAN
  PROVE  /\ Finalized(r, v).state = v
         /\ Finalized(r, v).node = r.node
         /\ Finalized(r, v).attempts = r.attempts
         /\ Failed(r, b).state \in {"open", "failed"}
         /\ r.node # 0 => Lost(r).state \in {"open", "unknown"}
         /\ Unplaced(r).state \in {"open", "failed"}
<1>1. /\ Finalized(r, v).state = v
      /\ Finalized(r, v).node = r.node
      /\ Finalized(r, v).attempts = r.attempts
  BY DEF Finalized, JobRecord
<1>2. Finalized(r, "failed").state = "failed" /\ Finalized(r, "unknown").state = "unknown"
  BY DEF Finalized, JobRecord
<1>3. r.node # 0 => r.node \in Workers
  BY DEF JobRecord
<1>4. r.node # 0 => Lost(r).state \in {"open", "unknown"}
  BY <1>2, <1>3, ExcludingFields, RequeuedFields DEF Lost
<1>5. Failed(r, b).state \in {"open", "failed"}
  <2>1. CASE r.node \in Workers
    BY <1>2, <2>1, AvoidingFields, RequeuedFields DEF Failed
  <2>2. CASE r.node \notin Workers
    <3>1. r.node = 0
      BY <2>2 DEF JobRecord
    <3>2. Avoiding(r).state = r.state /\ Requeued(Avoiding(r)).state = Avoiding(r).state
      BY DEF Avoiding, Requeued, JobRecord
    <3> QED BY <1>2, <3>2 DEF Failed
  <2> QED BY <2>1, <2>2
<1>6. Unplaced(r).state \in {"open", "failed"}
  BY <1>2 DEF Unplaced, JobRecord
<1> QED BY <1>1, <1>4, <1>5, <1>6

-----------------------------------------------------------------------------
(* The invariant *)

HubOK ==
  /\ job \in [Jobs -> JobRecord]
  /\ \A j \in Jobs : JobOK(job[j])
  /\ call \in {"wait", "tell", "place", "returned", "cut"}
  /\ cursor \in 1 .. JobCount + 1
  /\ telling \subseteq Jobs /\ interrupted \subseteq Jobs
  /\ now \in 0 .. Timeout /\ seen \in 0 .. now
  /\ online \subseteq Workers

Unknown == {j \in Jobs : job[j].state = "unknown"}

\* A round reports every job it has lost before it places the others.
CallOK ==
  /\ DeadlineEnds
  /\ call \in {"wait", "place"} => Unknown \subseteq interrupted
  /\ call = "tell" => /\ telling # {} /\ telling \subseteq Unknown
                      /\ Unknown \subseteq interrupted \union telling

\* Messages name entries, and a reported success has happened.
NetOK ==
  \A m \in net :
    /\ m.key \in Keys
    /\ m.type = "result" => m.result \in Results
    /\ m.type = "result" /\ m.result = "succeeded" => m.key \in done

\* Where a handler may still begin, none has, unless the worker forgot it.
WorkOK ==
  /\ work \in [Keys -> Phases] /\ began \in [Keys -> Nat]
  /\ loose \subseteq Keys /\ offering \subseteq Workers
  /\ \A k \in Keys : work[k] = "succeeded" => k \in done
  /\ \A k \in Keys : began[k] > 0 /\ work[k] \in {"none", "new", "waiting"} => k \in forgot
  /\ ExecutedOnce

IInv == HubOK /\ CallOK /\ NetOK /\ WorkOK /\ SuccessIsReal

\* What a step of the hub may make of job j.
JobStep(j, s) ==
  /\ JobOK(s)
  /\ job[j].state = "open" /\ s.state = "succeeded" => <<s.node, j, s.attempts>> \in done
  /\ job[j].state # "open" =>
       s.state = job[j].state /\ s.node = job[j].node /\ s.attempts = job[j].attempts

\* A job that is left alone.
LEMMA SameJob == ASSUME HubOK, NEW j \in Jobs PROVE JobStep(j, job[j])
BY DEF HubOK, JobStep

\* _reap loses or fails open jobs only.
LEMMA ReapedStep ==
  ASSUME HubOK, NEW j \in Jobs
  PROVE  /\ JobStep(j, Reaped(j))
         /\ job[j].state = "open" \/ Reaped(j).state = job[j].state
<1> DEFINE r == job[j]
<1>1. JobOK(r) /\ r \in JobRecord
  BY DEF HubOK, JobOK
<1>2. CASE j \in Overdue
  <2>1. r.state = "open" /\ r.node # 0
    BY <1>2 DEF Overdue, Placed, Open
  <2>2. JobOK(Lost(r)) /\ Lost(r).state \in {"open", "unknown"}
    BY <1>1, <2>1, LostOK, VerdictsGiven DEF Verdicts
  <2> QED BY <1>2, <2>1, <2>2 DEF Reaped, JobStep
<1>3. CASE j \notin Overdue /\ j \notin Placed /\ now >= Timeout
  <2>1. JobOK(Finalized(r, "failed"))
    BY <1>1, FinalizedOK DEF Verdicts
  <2>2. r.state = "open" => Finalized(r, "failed").state = "failed"
    BY <1>1, VerdictsGiven DEF Verdicts
  <2>3. r.state # "open" => Finalized(r, "failed") = r
    BY DEF Finalized
  <2>4. Reaped(j) = Finalized(r, "failed")
    BY <1>3 DEF Reaped
  <2> HIDE DEF r
  <2> QED BY <2>1, <2>2, <2>3, <2>4 DEF JobStep, r
<1>4. CASE j \notin Overdue /\ ~(j \notin Placed /\ now >= Timeout)
  BY <1>4, SameJob DEF Reaped
<1> QED BY <1>2, <1>3, <1>4

\* The deadline fails what is open, and leaves nothing open.
LEMMA ExpiredStep ==
  ASSUME HubOK, NEW j \in Jobs
  PROVE  /\ JobStep(j, Expired(job[j]))
         /\ job[j].state = "open" => Expired(job[j]).state \in {"open", "failed"}
         /\ seen >= Timeout => Expired(job[j]).state # "open"
<1> DEFINE r == job[j]
<1>1. JobOK(r) /\ r \in JobRecord
  BY DEF HubOK, JobOK
<1>2. JobOK(Finalized(r, "failed"))
  BY <1>1, FinalizedOK DEF Verdicts
<1>3. r.state = "open" => Finalized(r, "failed").state = "failed"
  BY <1>1, VerdictsGiven DEF Verdicts
<1>4. r.state # "open" => Finalized(r, "failed") = r
  BY DEF Finalized
<1>5. Expired(r) = IF seen >= Timeout THEN Finalized(r, "failed") ELSE r
  BY DEF Expired
<1> HIDE DEF r
<1> QED BY <1>1, <1>2, <1>3, <1>4, <1>5 DEF JobStep, r

\* A step that changes one job, and changes it so.
LEMMA PatchedJob ==
  ASSUME HubOK, NEW j \in Jobs, NEW s, JobStep(j, s), job' = [job EXCEPT ![j] = s]
  PROVE  /\ job' \in [Jobs -> JobRecord]
         /\ \A i \in Jobs : JobStep(i, job'[i])
         /\ job'[j] = s
         /\ \A i \in Jobs \ {j} : job'[i] = job[i]
<1>1. s \in JobRecord /\ job \in [Jobs -> JobRecord]
  BY DEF HubOK, JobStep, JobOK
<1>2. job' \in [Jobs -> JobRecord] /\ job'[j] = s /\ \A i \in Jobs \ {j} : job'[i] = job[i]
  BY <1>1
<1>3. \A i \in Jobs : JobStep(i, job[i])
  BY SameJob
<1>4. ASSUME NEW i \in Jobs PROVE JobStep(i, job'[i])
  <2>1. CASE i = j
    BY <1>2, <2>1
  <2>2. CASE i # j
    <3>1. job'[i] = job[i]
      BY <1>2, <2>2
    <3> QED BY <1>3, <3>1
  <2> QED BY <2>1, <2>2
<1> QED BY <1>2, <1>4

\* The entry of a placed job is one that a worker may hold.
LEMMA KeyOfPlaced ==
  ASSUME NEW j \in Jobs, NEW r, JobOK(r), r.state = "open", r.node # 0
  PROVE  <<r.node, j, r.attempts>> \in Keys
<1>1. /\ r.node \in Workers /\ r.excluded \in SUBSET Workers
      /\ r.attempts \in Nat /\ r.attempts >= 1 /\ r.retries \in 0 .. RetryMax
      /\ r.attempts <= r.retries + 1 + Bought(r.excluded)
  BY DEF JobOK, JobRecord
<1>2. /\ Bought(r.excluded) \in Nat /\ Bought(r.excluded) <= Cardinality(Idempotent)
      /\ Cardinality(Idempotent) \in Nat
  BY <1>1, BoughtFacts
<1>3. r.attempts \in Attempts
  BY <1>1, <1>2, RemoteAssumption DEF Attempts
<1> QED BY <1>1, <1>3 DEF Keys

\* Successes that are real stay so: a closed job keeps the dispatch it was closed by.
LEMMA SuccessesStayReal ==
  ASSUME SuccessIsReal, done \subseteq done', \A j \in Jobs : JobStep(j, job'[j])
  PROVE  SuccessIsReal'
<1> SUFFICES ASSUME NEW j \in Jobs, job'[j].state = "succeeded"
             PROVE  <<job'[j].node, j, job'[j].attempts>> \in done'
  BY DEF SuccessIsReal
<1>1. CASE job[j].state = "open"
  BY <1>1 DEF JobStep
<1>2. CASE job[j].state # "open"
  <2>1. job[j].state = "succeeded" /\ job'[j].node = job[j].node /\ job'[j].attempts = job[j].attempts
    BY <1>2 DEF JobStep
  <2> QED BY <2>1 DEF SuccessIsReal
<1> QED BY <1>1, <1>2

\* The workers do nothing.
LEMMA WorkersIdle == WorkOK /\ UNCHANGED workerVars => WorkOK'
BY DEF WorkOK, workerVars, ExecutedOnce

\* The call as the promise sees it.
Seen(c) == IF c \in {"returned", "cut"} THEN c ELSE "on"

PromiseStep == [Promise!Next]_(Promise!vars)

\* A step that only judges jobs, in a call that goes on.
LEMMA JudgesKeepPromise ==
  ASSUME HubOK, \A j \in Jobs : JobStep(j, job'[j]), job' \in [Jobs -> JobRecord],
         call \in {"wait", "tell", "place"}, call' \in {"wait", "tell", "place"},
         interrupted' = interrupted
  PROVE  PromiseStep
<1> DEFINE V == [j \in Jobs |-> job[j].state]
           W == [j \in Jobs |-> job'[j].state]
<1>1. W \in [Jobs -> Verdicts \union {"open"}]
  BY DEF JobRecord
<1>2. \A j \in Jobs : V[j] = "open" \/ W[j] = V[j]
  BY DEF JobStep
<1>3. Seen(call) = "on" /\ Seen(call') = "on"
  BY DEF Seen
<1>4. Promise!Judge
  BY <1>1, <1>2, <1>3 DEF Promise!Judge, Promise!Settled, Promise!Verdicts, Verdicts, Seen
<1> QED BY <1>4 DEF PromiseStep, Promise!Next

\* One lemma for each step of the hub: it keeps the invariant and the promise.
LEMMA RoundKeeps == ASSUME IInv, Round PROVE IInv' /\ PromiseStep
<1> USE DEF IInv
<1>1. /\ call = "wait" /\ seen' = now /\ cursor' = 1
      /\ job' = [j \in Jobs |-> Reaped(j)]
      /\ telling' = {j \in Open : Reaped(j).state = "unknown"}
      /\ net' = net \union {Cancel(<<job[j].node, j, job[j].attempts>>) : j \in Overdue}
      /\ call' = IF telling' = {} THEN "place" ELSE "tell"
      /\ UNCHANGED <<interrupted, now, online>> /\ UNCHANGED workerVars
  BY DEF Round
<1>2. \A j \in Jobs : JobStep(j, job'[j])
  BY <1>1, ReapedStep
<1>3. job' \in [Jobs -> JobRecord] /\ \A j \in Jobs : JobOK(job'[j])
  BY <1>1, <1>2 DEF JobStep, JobOK
<1>4. HubOK'
  BY <1>1, <1>3, RemoteAssumption DEF HubOK, Open
<1>5. CallOK'
  <2>1. call' # "wait"
    BY <1>1
  <2>2. Unknown' = (Unknown \union telling')
    BY <1>1, ReapedStep DEF Unknown, Open
  <2> QED BY <1>1, <2>1, <2>2 DEF CallOK, DeadlineEnds
<1>6. NetOK'
  <2>1. \A j \in Overdue : <<job[j].node, j, job[j].attempts>> \in Keys
    BY KeyOfPlaced DEF HubOK, Overdue, Placed, Open
  <2>2. done' = done
    BY <1>1 DEF workerVars
  <2> QED BY <1>1, <2>1, <2>2 DEF NetOK, Cancel
<1>7. SuccessIsReal' /\ WorkOK'
  BY <1>1, <1>2, SuccessesStayReal, WorkersIdle DEF workerVars
<1>8. PromiseStep
  BY <1>1, <1>2, <1>3, JudgesKeepPromise
<1> QED BY <1>4, <1>5, <1>6, <1>7, <1>8

\* A set of numbers that is not empty has a least element.
LEMMA LeastIn == ASSUME NEW T \in SUBSET Nat, T # {} PROVE Min(T) \in T
<1> DEFINE R == {ss \in Nat \X Nat : ss[1] < ss[2]}
<1>1. IsWellFoundedOn(R, Nat)
  BY NatLessThanWellFounded, Zenon DEF OpToRel
<1>2. \A a, b \in Nat : a < b => <<a, b>> \in R
  OBVIOUS
<1> HIDE DEF R
<1>3. PICK x \in T : \A y \in T : <<y, x>> \notin R
  BY <1>1, WFMin, Zenon
<1>4. \A y \in T : x <= y
  <2> SUFFICES ASSUME NEW y \in T PROVE x <= y
    OBVIOUS
  <2>1. ~(y < x)
    BY <1>2, <1>3
  <2> QED BY <2>1
<1> QED BY <1>4 DEF Min

\* The run is interrupted for the least of the jobs that the round has lost.
LEMMA TellKeeps == ASSUME IInv, Tell PROVE IInv' /\ PromiseStep
<1> USE DEF IInv
<1> DEFINE j == Min(telling)
<1>1. /\ call = "tell" /\ interrupted' = interrupted \union {j} /\ telling' = telling \ {j}
      /\ call' = IF telling' = {} THEN "place" ELSE "tell"
      /\ UNCHANGED <<job, cursor, seen, now, net, online>> /\ UNCHANGED workerVars
  BY DEF Tell
<1>2. j \in telling /\ j \in Jobs /\ job[j].state = "unknown"
  <2>1. telling \in SUBSET Nat /\ telling # {}
    BY <1>1 DEF CallOK, HubOK, Jobs
  <2>2. j \in telling
    BY <2>1, LeastIn
  <2> QED BY <1>1, <2>2 DEF CallOK, Unknown
<1> HIDE DEF j
<1>3. HubOK'
  BY <1>1, <1>2 DEF HubOK
<1>4. CallOK'
  BY <1>1, <1>2 DEF CallOK, DeadlineEnds, Unknown
<1>5. NetOK' /\ SuccessIsReal' /\ WorkOK'
  BY <1>1, WorkersIdle DEF NetOK, SuccessIsReal, workerVars
<1>6. Promise!Interrupt(j)
  BY <1>1, <1>2 DEF Promise!Interrupt
<1> QED BY <1>2, <1>3, <1>4, <1>5, <1>6 DEF PromiseStep, Promise!Next

\* What placing one job, or failing to, has in common.
LEMMA PlacingOne ==
  ASSUME IInv, call = "place", cursor \in Jobs, cursor' = cursor + 1,
         NEW s, JobStep(cursor, s), s.state # "unknown" \/ s = job[cursor],
         job' = [job EXCEPT ![cursor] = s],
         UNCHANGED <<call, telling, interrupted, seen, now, online>>, UNCHANGED workerVars
  PROVE  HubOK' /\ CallOK' /\ SuccessIsReal' /\ WorkOK' /\ PromiseStep
<1> USE DEF IInv
<1>1. /\ job' \in [Jobs -> JobRecord]
      /\ \A i \in Jobs : JobStep(i, job'[i])
      /\ job'[cursor] = s /\ \A i \in Jobs \ {cursor} : job'[i] = job[i]
  BY PatchedJob
<1>2. cursor' \in 1 .. JobCount + 1
  BY RemoteAssumption DEF Jobs
<1>3. HubOK'
  BY <1>1, <1>2 DEF HubOK, JobStep
<1>4. Unknown' \subseteq Unknown
  BY <1>1 DEF Unknown
<1>5. CallOK'
  BY <1>4 DEF CallOK, DeadlineEnds
<1>6. SuccessIsReal' /\ WorkOK'
  BY <1>1, SuccessesStayReal, WorkersIdle DEF workerVars
<1>7. PromiseStep
  BY <1>1, JudgesKeepPromise
<1> QED BY <1>3, <1>5, <1>6, <1>7

\* A queued job goes to a node that it does not exclude.
LEMMA PlaceKeeps == ASSUME IInv, Place PROVE IInv' /\ PromiseStep
<1> USE DEF IInv
<1>1. PICK w \in Preferred(job[cursor]) :
        /\ job' = [job EXCEPT ![cursor] = Dispatched(@, w)]
        /\ net' = net \union {Run(w, cursor, job'[cursor].attempts, seen < Timeout)}
  BY DEF Place
<1>2. /\ call = "place" /\ cursor \in Jobs /\ cursor' = cursor + 1
      /\ job[cursor].state = "open" /\ job[cursor].node = 0
      /\ UNCHANGED <<call, telling, interrupted, seen, now, online>> /\ UNCHANGED workerVars
  BY DEF Place, Queued
<1> DEFINE r == job[cursor]
           s == Dispatched(r, w)
<1>3. JobOK(r) /\ r \in JobRecord /\ seen \in Nat
  BY <1>2 DEF HubOK, JobOK
<1>4. w \in Workers \ r.excluded
  BY DEF HubOK, Preferred, Candidates
<1>5. JobOK(s) /\ s.state = "open" /\ s.node = w
  BY <1>2, <1>3, <1>4, DispatchedOK, DispatchedFields
<1>6. job' = [job EXCEPT ![cursor] = s] /\ job'[cursor] = s
  BY <1>1, <1>2 DEF HubOK
<1>7. JobStep(cursor, s)
  BY <1>2, <1>5 DEF JobStep, r
<1>8. <<w, cursor, s.attempts>> \in Keys
  <2>1. w # 0
    BY <1>4, RemoteAssumption
  <2> HIDE DEF s
  <2> QED BY <1>2, <1>5, <2>1, KeyOfPlaced
<1> HIDE DEF r, s
<1>9. NetOK'
  BY <1>1, <1>2, <1>6, <1>8 DEF NetOK, Run, workerVars
<1>10. HubOK' /\ CallOK' /\ SuccessIsReal' /\ WorkOK' /\ PromiseStep
  BY <1>2, <1>5, <1>6, <1>7, PlacingOne DEF r
<1> QED BY <1>9, <1>10

\* A queued job finds no node.
LEMMA PlaceNowhereKeeps == ASSUME IInv, PlaceNowhere PROVE IInv' /\ PromiseStep
<1> USE DEF IInv
<1> DEFINE r == job[cursor]
           s == Unplaced(r)
<1>1. /\ call = "place" /\ cursor \in Jobs /\ cursor' = cursor + 1
      /\ job' = [job EXCEPT ![cursor] = s]
      /\ r.state = "open" /\ r.node = 0
      /\ UNCHANGED <<call, telling, interrupted, seen, now, net, online>> /\ UNCHANGED workerVars
  BY DEF PlaceNowhere, Queued
<1>2. JobOK(r) /\ r \in JobRecord /\ seen \in Nat
  BY <1>1 DEF HubOK, JobOK
<1>3. JobOK(s) /\ s.state \in {"open", "failed"}
  BY <1>1, <1>2, UnplacedOK, VerdictsGiven DEF Verdicts
<1> HIDE DEF s
<1>4. JobStep(cursor, s)
  BY <1>1, <1>3 DEF JobStep
<1>5. HubOK' /\ CallOK' /\ SuccessIsReal' /\ WorkOK' /\ PromiseStep
  BY <1>1, <1>3, <1>4, PlacingOne
<1>6. NetOK'
  BY <1>1 DEF NetOK, workerVars
<1> QED BY <1>5, <1>6

\* A job that is not queued, or has to wait for its turn.
LEMMA PlaceNotKeeps == ASSUME IInv, PlaceNot PROVE IInv' /\ PromiseStep
<1> USE DEF IInv
<1>1. /\ call = "place" /\ cursor \in Jobs /\ cursor' = cursor + 1
      /\ UNCHANGED <<job, call, telling, interrupted, seen, now, net, online>> /\ UNCHANGED workerVars
  BY DEF PlaceNot
<1>2. job' = [job EXCEPT ![cursor] = job[cursor]]
  BY <1>1 DEF HubOK
<1>3. JobStep(cursor, job[cursor])
  BY <1>1, SameJob
<1>4. HubOK' /\ CallOK' /\ SuccessIsReal' /\ WorkOK' /\ PromiseStep
  BY <1>1, <1>2, <1>3, PlacingOne
<1>5. NetOK'
  BY <1>1 DEF NetOK, workerVars
<1> QED BY <1>4, <1>5

\* At the end of a round every lost job has been reported, so the call may return.
LEMMA RoundEndsKeeps == ASSUME IInv, RoundEnds PROVE IInv' /\ PromiseStep
<1> USE DEF IInv
<1>1. /\ call = "place" /\ job' = [j \in Jobs |-> Expired(job[j])]
      /\ call' = IF \E j \in Jobs : job'[j].state = "open" THEN "wait" ELSE "returned"
      /\ UNCHANGED <<cursor, telling, interrupted, seen, now, net, online>> /\ UNCHANGED workerVars
  BY DEF RoundEnds
<1>2. \A j \in Jobs : JobStep(j, job'[j])
  BY <1>1, ExpiredStep
<1>3. job' \in [Jobs -> JobRecord] /\ \A j \in Jobs : JobOK(job'[j])
  BY <1>1, <1>2 DEF JobStep, JobOK
<1>4. HubOK'
  BY <1>1, <1>3 DEF HubOK
<1>5. CallOK'
  <2>1. \A j \in Jobs : job'[j].state = "unknown" => job[j].state = "unknown"
    BY <1>1, ExpiredStep DEF JobStep
  <2>2. Unknown' \subseteq Unknown
    BY <2>1 DEF Unknown
  <2>3. call' = "wait" => seen < Timeout
    <3>1. SUFFICES ASSUME NEW j \in Jobs, job'[j].state = "open" PROVE seen < Timeout
      BY <1>1
    <3>2. ~(seen >= Timeout)
      BY <1>1, <3>1, ExpiredStep
    <3>3. seen \in Int /\ Timeout \in Int
      BY RemoteAssumption DEF HubOK
    <3> QED BY <3>2, <3>3
  <2>4. call' \in {"wait", "returned"}
    BY <1>1
  <2> QED BY <1>1, <2>2, <2>3, <2>4 DEF CallOK, DeadlineEnds
<1>6. NetOK'
  BY <1>1 DEF NetOK, workerVars
<1>7. SuccessIsReal' /\ WorkOK'
  BY <1>1, <1>2, SuccessesStayReal, WorkersIdle DEF workerVars
<1>8. PromiseStep
  <2>1. CASE call' = "wait"
    BY <1>1, <1>2, <1>3, <2>1, JudgesKeepPromise
  <2>2. CASE call' = "returned"
    <3> DEFINE W == [j \in Jobs |-> job'[j].state]
    <3>1. W \in [Jobs -> Verdicts]
      BY <1>1, <1>3, <2>2 DEF JobRecord
    <3>2. \A j \in Jobs : job[j].state = "open" \/ W[j] = job[j].state
      BY <1>2 DEF JobStep
    <3>3. \A j \in Jobs : job[j].state = "unknown" => j \in interrupted
      BY <1>1 DEF CallOK, Unknown
    <3>4. Promise!Return
      BY <1>1, <2>2, <3>1, <3>2, <3>3
      DEF Promise!Return, Promise!Settled, Promise!Unknown, Promise!Verdicts, Verdicts
    <3> QED BY <3>4 DEF PromiseStep, Promise!Next
  <2> QED BY <1>1, <2>1, <2>2
<1> QED BY <1>4, <1>5, <1>6, <1>7, <1>8

\* A cancelled call may stop at any of its awaits.
LEMMA CutKeeps == ASSUME IInv, Cut PROVE IInv' /\ PromiseStep
<1> USE DEF IInv
<1>1. /\ call \in {"wait", "tell"} /\ call' = "cut"
      /\ UNCHANGED <<job, cursor, telling, interrupted, seen, now, net, online>> /\ UNCHANGED workerVars
  BY DEF Cut
<1>2. HubOK'
  BY <1>1 DEF HubOK
<1>3. CallOK' /\ NetOK' /\ SuccessIsReal' /\ WorkOK'
  BY <1>1, WorkersIdle DEF CallOK, DeadlineEnds, NetOK, SuccessIsReal, workerVars
<1>4. Promise!Cut
  BY <1>1 DEF Promise!Cut
<1> QED BY <1>2, <1>3, <1>4 DEF PromiseStep, Promise!Next

\* Only the node of the last dispatch can give the job a verdict, and a success has happened.
LEMMA OnResultKeeps == ASSUME IInv, NEW m \in net, OnResult(m) PROVE IInv' /\ PromiseStep
<1> USE DEF IInv
<1> DEFINE j == m.key[2]
           r == job[j]
           s == IF m.result \in {"failed", "retryable"} THEN Failed(r, m.result = "retryable")
                ELSE Finalized(r, m.result)
<1>1. /\ m.type = "result" /\ Verified(m.key) /\ job' = [job EXCEPT ![j] = s]
      /\ UNCHANGED <<call, cursor, telling, interrupted, seen, now, net, online>>
      /\ UNCHANGED workerVars
  BY DEF OnResult
<1>2. /\ call \in {"wait", "tell"} /\ r.state = "open"
      /\ m.key[3] = r.attempts /\ m.key[1] = r.node
  BY <1>1 DEF Verified
<1>3. /\ m.key \in Keys /\ m.result \in Results
      /\ m.result = "succeeded" => m.key \in done
  BY <1>1 DEF NetOK
<1>4. j \in Jobs /\ r.node \in Workers /\ m.key = <<r.node, j, r.attempts>>
  BY <1>2, <1>3 DEF Keys
<1>5. JobOK(r) /\ r \in JobRecord /\ r.node # 0
  BY <1>4, RemoteAssumption DEF HubOK, JobOK
<1>6. JobOK(s) /\ s.state # "unknown" /\ (s.state = "succeeded" => <<s.node, j, s.attempts>> \in done)
  <2>1. CASE m.result \in {"failed", "retryable"}
    <3> DEFINE b == m.result = "retryable"
    <3>1. b \in BOOLEAN
      OBVIOUS
    <3> HIDE DEF b, r
    <3>2. JobOK(Failed(r, b)) /\ Failed(r, b).state \in {"open", "failed"}
      BY <1>2, <1>5, <3>1, FailedOK, VerdictsGiven DEF Verdicts
    <3> QED BY <2>1, <3>2 DEF b
  <2>2. CASE m.result \notin {"failed", "retryable"}
    <3> DEFINE v == m.result
    <3>1. v \in Verdicts /\ v # "unknown"
      BY <1>3, <2>2 DEF Results, Verdicts
    <3> HIDE DEF v, r
    <3>2. JobOK(Finalized(r, v))
      BY <1>5, <3>1, FinalizedOK
    <3>3. Finalized(r, v).state = v /\ Finalized(r, v).node = r.node
          /\ Finalized(r, v).attempts = r.attempts
      BY <1>2, <1>5, <3>1, VerdictsGiven
    <3> QED BY <1>3, <1>4, <2>2, <3>1, <3>2, <3>3 DEF v
  <2> QED BY <2>1, <2>2
<1>7. JobStep(j, s)
  BY <1>2, <1>6 DEF JobStep
<1> HIDE DEF s, r, j
<1>8. /\ job' \in [Jobs -> JobRecord] /\ job'[j] = s
      /\ \A i \in Jobs : JobStep(i, job'[i])
      /\ \A i \in Jobs \ {j} : job'[i] = job[i]
  BY <1>1, <1>4, <1>7, PatchedJob
<1>9. HubOK'
  BY <1>1, <1>8 DEF HubOK, JobStep
<1>10. Unknown' = Unknown
  BY <1>2, <1>4, <1>6, <1>8 DEF Unknown, r
<1>11. CallOK' /\ NetOK'
  BY <1>1, <1>10 DEF CallOK, DeadlineEnds, NetOK, workerVars
<1>12. SuccessIsReal' /\ WorkOK'
  BY <1>1, <1>8, SuccessesStayReal, WorkersIdle DEF workerVars
<1>13. PromiseStep
  BY <1>1, <1>2, <1>8, JudgesKeepPromise
<1> QED BY <1>9, <1>11, <1>12, <1>13

\* A lease changes no verdict.
LEMMA OnLeaseKeeps == ASSUME IInv, NEW m \in net, OnLease(m) PROVE IInv' /\ PromiseStep
<1> USE DEF IInv
<1> DEFINE j == m.key[2]
           r == job[j]
           l == now + LeaseTimeout
           s == [r EXCEPT !.lease = l]
<1>1. /\ net' = net \ {m}
      /\ job' = IF Verified(m.key) THEN [job EXCEPT ![j] = s] ELSE job
      /\ UNCHANGED <<call, cursor, telling, interrupted, seen, now, online>>
      /\ UNCHANGED workerVars
  BY DEF OnLease
<1>2. j \in Jobs
  BY DEF NetOK, Keys
<1>3. NetOK'
  BY <1>1 DEF NetOK, workerVars
<1>4. JobStep(j, s) /\ s.state = r.state
  <2>1. l \in Int
    BY RemoteAssumption DEF HubOK
  <2>2. JobOK(r) /\ r \in JobRecord
    BY <1>2 DEF HubOK, JobOK
  <2> HIDE DEF l, r
  <2>3. /\ s \in JobRecord
        /\ s.state = r.state /\ s.node = r.node /\ s.nonce = r.nonce /\ s.attempts = r.attempts
        /\ s.retries = r.retries /\ s.excluded = r.excluded /\ s.idempotent = r.idempotent
    BY <2>1, <2>2 DEF JobRecord
  <2> HIDE DEF s
  <2>4. JobOK(s)
    BY <2>2, <2>3 DEF JobOK
  <2> QED BY <2>3, <2>4 DEF JobStep, r
<1> HIDE DEF s
<1>5. /\ job' \in [Jobs -> JobRecord]
      /\ \A i \in Jobs : JobStep(i, job'[i]) /\ job'[i].state = job[i].state
  <2>1. CASE Verified(m.key)
    BY <1>1, <1>2, <1>4, <2>1, PatchedJob
  <2>2. CASE ~Verified(m.key)
    BY <1>1, <2>2, SameJob DEF HubOK
  <2> QED BY <2>1, <2>2
<1>6. HubOK'
  BY <1>1, <1>5 DEF HubOK, JobStep
<1>7. CallOK'
  BY <1>1, <1>5 DEF CallOK, DeadlineEnds, Unknown
<1>8. SuccessIsReal' /\ WorkOK'
  BY <1>1, <1>5, SuccessesStayReal, WorkersIdle DEF workerVars
<1>9. PromiseStep
  BY <1>1, <1>5 DEF PromiseStep, Promise!vars
<1> QED BY <1>3, <1>6, <1>7, <1>8, <1>9

-----------------------------------------------------------------------------
(* What the workers and their surroundings do *)

\* The part of the invariant that is about the hub alone.
LEMMA HubIdle ==
  ASSUME HubOK, CallOK, SuccessIsReal, UNCHANGED hubVars, done \subseteq done',
         now' \in now .. Timeout, online' \subseteq Workers
  PROVE  HubOK' /\ CallOK' /\ SuccessIsReal' /\ PromiseStep
<1>1. HubOK'
  BY DEF HubOK, hubVars
<1>2. CallOK'
  BY DEF CallOK, DeadlineEnds, Unknown, hubVars
<1>3. SuccessIsReal'
  BY DEF SuccessIsReal, hubVars
<1>4. PromiseStep
  BY DEF PromiseStep, Promise!vars, hubVars
<1> QED BY <1>1, <1>2, <1>3, <1>4

\* A worker that reports a result of an entry keeps the messages in order.
LEMMA ReportsKeepNet ==
  ASSUME NetOK, NEW k \in Keys, NEW r \in Results, net' = net \union {Result(k, r)},
         done \subseteq done', r = "succeeded" => k \in done'
  PROVE  NetOK'
BY DEF NetOK, Result

\* One entry of a worker changes, and no handler begins.
LEMMA EntryMoves ==
  ASSUME WorkOK, NEW k \in Keys, NEW p \in Phases, p \notin {"none", "new", "waiting"},
         work' = [work EXCEPT ![k] = p], began' = began, done \subseteq done', forgot' = forgot,
         p = "succeeded" => k \in done', loose' \subseteq Keys, offering' = offering
  PROVE  WorkOK'
<1>1. \A i \in Keys : work'[i] = IF i = k THEN p ELSE work[i]
  BY DEF WorkOK
<1>2. work' \in [Keys -> Phases]
  BY DEF WorkOK
<1> QED BY <1>1, <1>2 DEF WorkOK, ExecutedOnce

\* A handler begins where none was, or where it was forgotten.
LEMMA EntryBegins ==
  ASSUME WorkOK, NEW k \in Keys, work[k] \in {"new", "waiting"}, Enters(k),
         UNCHANGED <<loose, offering, done, forgot>>
  PROVE  WorkOK'
<1>1. /\ work' = [work EXCEPT ![k] = "running"]
      /\ began' = [began EXCEPT ![k] = began[k] + 1]
  BY DEF Enters
<1>2. \A i \in Keys : /\ work'[i] = IF i = k THEN "running" ELSE work[i]
                      /\ began'[i] = IF i = k THEN began[k] + 1 ELSE began[i]
  BY <1>1 DEF WorkOK
<1>3. work' \in [Keys -> Phases] /\ began' \in [Keys -> Nat]
  BY <1>1 DEF WorkOK, Phases, InFlight
<1>4. \A i \in Keys : work'[i] = "succeeded" => i \in done'
  BY <1>2 DEF WorkOK
<1>5. \A i \in Keys : began'[i] > 0 /\ work'[i] \in {"none", "new", "waiting"} => i \in forgot'
  BY <1>2 DEF WorkOK
<1>6. \A i \in Keys : began'[i] > 1 => i \in forgot'
  BY <1>2 DEF WorkOK, ExecutedOnce
<1> QED BY <1>3, <1>4, <1>5, <1>6 DEF WorkOK, ExecutedOnce

\* Everything else that a step may leave alone.
Rest == UNCHANGED hubVars /\ now' \in now .. Timeout /\ online' \subseteq Workers

\* The workers: a run begins an entry, and what is pruned for it is forgotten.
LEMMA OnRunKeeps ==
  ASSUME IInv, NEW m \in net, OnRun(m) PROVE NetOK' /\ WorkOK' /\ Rest /\ done \subseteq done'
<1> USE DEF IInv
<1>1. PICK S \in Prunable(m.key[1]) :
        /\ work' = [k \in Keys |-> IF k = m.key THEN "new" ELSE IF k \in S THEN "none" ELSE work[k]]
        /\ forgot' = forgot \union S
  BY DEF OnRun
<1>2. /\ work[m.key] = "none" /\ m.key \in Keys
      /\ UNCHANGED hubVars /\ UNCHANGED <<now, net, loose, offering, began, done, online>>
  BY DEF OnRun, NetOK, Known
<1>3. work' \in [Keys -> Phases]
  BY <1>1 DEF WorkOK, Phases
<1>4. NetOK'
  BY <1>2 DEF NetOK
<1>5. WorkOK'
  BY <1>1, <1>2, <1>3 DEF WorkOK, ExecutedOnce
<1>6. Rest
  BY <1>2 DEF Rest, HubOK
<1> QED BY <1>2, <1>4, <1>5, <1>6

\* A repeated run is answered with the result of the first.
LEMMA OnRunAgainKeeps ==
  ASSUME IInv, NEW m \in net, OnRunAgain(m) PROVE NetOK' /\ WorkOK' /\ Rest /\ done \subseteq done'
<1> USE DEF IInv
<1>1. /\ work[m.key] \in Results /\ net' = net \union {Result(m.key, work[m.key])}
      /\ m.key \in Keys
      /\ UNCHANGED hubVars /\ UNCHANGED workerVars /\ UNCHANGED <<now, online>>
  BY DEF OnRunAgain, NetOK
<1>2. NetOK'
  BY <1>1, ReportsKeepNet DEF WorkOK, workerVars
<1>3. Rest
  BY <1>1 DEF Rest, HubOK
<1> QED BY <1>1, <1>2, <1>3, WorkersIdle DEF workerVars

\* A cancelled entry never begins again.
LEMMA OnCancelKeeps ==
  ASSUME IInv, NEW m \in net, OnCancel(m) PROVE NetOK' /\ WorkOK' /\ Rest /\ done \subseteq done'
<1> USE DEF IInv
<1>1. m.key \in Keys /\ UNCHANGED hubVars /\ UNCHANGED <<now, offering, began, done, forgot, online>>
  BY DEF OnCancel, NetOK
<1>2. CASE work[m.key] \in Results
  <2>1. net' = net \union {Result(m.key, work[m.key])} /\ UNCHANGED <<work, loose>>
    BY <1>2 DEF OnCancel
  <2>2. NetOK'
    BY <1>1, <1>2, <2>1, ReportsKeepNet DEF WorkOK
  <2>3. WorkOK'
    BY <1>1, <2>1, WorkersIdle DEF workerVars
  <2> QED BY <1>1, <2>2, <2>3 DEF Rest, HubOK
<1>3. CASE work[m.key] \notin Results
  <2>1. work' = [work EXCEPT ![m.key] = "dropped"] /\ loose' \subseteq Keys /\ net' = net
    BY <1>1, <1>3 DEF OnCancel, WorkOK
  <2>2. WorkOK'
    BY <1>1, <2>1, EntryMoves DEF Phases
  <2>3. NetOK'
    BY <1>1, <2>1 DEF NetOK
  <2> QED BY <1>1, <2>2, <2>3 DEF Rest, HubOK
<1> QED BY <1>2, <1>3

\* What an entry does by itself.
LEMMA WorkerKeeps ==
  ASSUME IInv, NEW k \in Keys, WorkerStep(k) PROVE NetOK' /\ WorkOK' /\ Rest /\ done \subseteq done'
<1> USE DEF IInv
<1>1. UNCHANGED hubVars /\ UNCHANGED <<now, online, forgot, offering>>
  BY DEF WorkerStep, Begin, Slot, TimesOut, GraceEnds, SendLease, LooseEnds, HandlerEnds, workerVars
<1>2. Rest
  BY <1>1 DEF Rest, HubOK
<1>3. CASE Begin(k)
  <2>1. work[k] = "new" /\ UNCHANGED <<loose, offering, done, forgot>>
    BY <1>3 DEF Begin
  <2>2. CASE k[1] \notin offering
    <3>1. Reports(k, "failed") /\ began' = began
      BY <1>3, <2>2 DEF Begin
    <3>2. NetOK'
      BY <2>1, <3>1, ReportsKeepNet DEF Reports, Results
    <3>3. WorkOK'
      BY <2>1, <3>1, EntryMoves DEF Reports, Phases, Results, WorkOK
    <3> QED BY <1>2, <2>1, <3>2, <3>3
  <2>3. CASE k[1] \in offering /\ Free(k[1])
    <3>1. Enters(k) /\ net' = net
      BY <1>3, <2>3 DEF Begin
    <3> QED BY <1>2, <2>1, <3>1, EntryBegins DEF NetOK
  <2>4. CASE k[1] \in offering /\ ~Free(k[1])
    <3>1. work' = [work EXCEPT ![k] = "waiting"] /\ began' = began /\ net' = net
      BY <1>3, <2>4 DEF Begin
    <3>2. \A i \in Keys : work'[i] = IF i = k THEN "waiting" ELSE work[i]
      BY <3>1 DEF WorkOK
    <3>3. work' \in [Keys -> Phases]
      BY <3>1 DEF WorkOK, Phases, InFlight
    <3>4. WorkOK'
      BY <2>1, <3>1, <3>2, <3>3 DEF WorkOK, ExecutedOnce
    <3> QED BY <1>2, <2>1, <3>1, <3>4 DEF NetOK
  <2> QED BY <2>2, <2>3, <2>4
<1>4. CASE Slot(k)
  BY <1>2, <1>4, EntryBegins DEF Slot, NetOK
<1>5. CASE TimesOut(k)
  <2>1. work' = [work EXCEPT ![k] = "grace"] /\ UNCHANGED <<net, loose, offering, began, done, forgot>>
    BY <1>5 DEF TimesOut
  <2>2. WorkOK'
    BY <2>1, EntryMoves DEF Phases, InFlight, WorkOK
  <2> QED BY <1>2, <2>1, <2>2 DEF NetOK
<1>6. CASE GraceEnds(k)
  <2>1. Reports(k, "retryable") /\ UNCHANGED <<loose, offering, began, done, forgot>>
    BY <1>6 DEF GraceEnds
  <2>2. NetOK'
    BY <2>1, ReportsKeepNet DEF Reports, Results
  <2>3. WorkOK'
    BY <2>1, EntryMoves DEF Reports, Phases, Results, WorkOK
  <2> QED BY <1>2, <2>1, <2>2, <2>3
<1>7. CASE SendLease(k)
  <2>1. net' = net \union {Lease(k)} /\ UNCHANGED workerVars
    BY <1>7 DEF SendLease
  <2> QED BY <1>2, <2>1, WorkersIdle DEF NetOK, Lease, workerVars
<1>8. CASE LooseEnds(k)
  <2>1. loose' \subseteq loose /\ UNCHANGED <<net, work, offering, began, done, forgot>>
    BY <1>8 DEF LooseEnds
  <2> QED BY <1>2, <2>1 DEF NetOK, WorkOK, ExecutedOnce
<1>9. ASSUME NEW r \in Outcomes, HandlerEnds(k, r) PROVE NetOK' /\ WorkOK' /\ done \subseteq done'
  <2>1. /\ Reports(k, r) /\ done' = IF r = "succeeded" THEN done \union {k} ELSE done
        /\ UNCHANGED <<loose, offering, began, forgot>>
    BY <1>9 DEF HandlerEnds
  <2>2. r \in Results
    BY RemoteAssumption
  <2>3. done \subseteq done' /\ (r = "succeeded" => k \in done')
    BY <2>1
  <2>4. NetOK'
    BY <2>1, <2>2, <2>3, ReportsKeepNet DEF Reports
  <2>5. r \in Phases /\ r \notin {"none", "new", "waiting"}
    BY <2>2 DEF Phases, Results
  <2>6. WorkOK'
    BY <2>1, <2>3, <2>5, EntryMoves DEF Reports, WorkOK
  <2> QED BY <2>3, <2>4, <2>6
<1> QED BY <1>2, <1>3, <1>4, <1>5, <1>6, <1>7, <1>8, <1>9 DEF WorkerStep

\* A restart forgets the entries it takes.
LEMMA SurroundingsKeep ==
  ASSUME IInv, Surroundings PROVE NetOK' /\ WorkOK' /\ Rest /\ done \subseteq done'
<1> USE DEF IInv
<1>1. CASE Tick
  <2>1. now' \in now .. Timeout /\ UNCHANGED hubVars /\ UNCHANGED workerVars /\ UNCHANGED <<net, online>>
    BY <1>1, RemoteAssumption DEF Tick, HubOK
  <2> QED BY <2>1, WorkersIdle DEF Rest, NetOK, HubOK, workerVars
<1>2. ASSUME NEW w \in Frail, Restart(w) PROVE NetOK' /\ WorkOK' /\ Rest /\ done \subseteq done'
  <2>1. /\ work' = [k \in Keys |-> IF k[1] = w THEN "none" ELSE work[k]]
        /\ loose' \subseteq loose
        /\ forgot' = forgot \union Entries(w)
        /\ UNCHANGED hubVars /\ UNCHANGED <<now, net, offering, began, done, online>>
    BY <1>2 DEF Restart
  <2>2. work' \in [Keys -> Phases]
    BY <2>1 DEF WorkOK, Phases
  <2>3. ASSUME NEW k \in Keys, began[k] > 0, work'[k] \in {"none", "new", "waiting"} PROVE k \in forgot'
    <3>1. CASE k[1] = w /\ work[k] # "none"
      BY <2>1, <3>1 DEF Entries
    <3>2. CASE k[1] = w /\ work[k] = "none"
      BY <2>1, <2>3, <3>2 DEF WorkOK
    <3>3. CASE k[1] # w
      BY <2>1, <2>3, <3>3 DEF WorkOK
    <3> QED BY <3>1, <3>2, <3>3
  <2>4. \A k \in Keys : work'[k] = "succeeded" => k \in done'
    BY <2>1 DEF WorkOK
  <2>5. WorkOK'
    BY <2>1, <2>2, <2>3, <2>4 DEF WorkOK, ExecutedOnce
  <2> QED BY <2>1, <2>5 DEF Rest, NetOK, HubOK
<1>3. ASSUME NEW w \in Frail, Churn(w) PROVE NetOK' /\ WorkOK' /\ Rest /\ done \subseteq done'
  <2>1. /\ online' \subseteq Workers
        /\ UNCHANGED hubVars /\ UNCHANGED workerVars /\ UNCHANGED <<now, net>>
    BY <1>3, RemoteAssumption DEF Churn, HubOK
  <2> QED BY <2>1, WorkersIdle DEF Rest, NetOK, HubOK, workerVars
<1>4. ASSUME NEW w \in Frail, Unregister(w) PROVE NetOK' /\ WorkOK' /\ Rest /\ done \subseteq done'
  <2>1. /\ offering' \subseteq offering
        /\ UNCHANGED hubVars /\ UNCHANGED <<now, net, work, loose, began, done, forgot, online>>
    BY <1>4 DEF Unregister
  <2> QED BY <2>1 DEF Rest, NetOK, WorkOK, ExecutedOnce, HubOK
<1> QED BY <1>1, <1>2, <1>3, <1>4 DEF Surroundings

-----------------------------------------------------------------------------
(* The invariant is inductive, and every step keeps the promise *)

\* A call begins with queued jobs, and those that are too big to send have failed.
LEMMA InitHolds == Init => IInv /\ Promise!Init
<1> SUFFICES ASSUME Init PROVE IInv /\ Promise!Init
  OBVIOUS
<1>1. PICK c \in Calls : job = [j \in Jobs |-> NewJob(j, c)]
  BY DEF Init
<1>2. c.retries \in 0 .. RetryMax
  BY RemoteAssumption
<1>3. ASSUME NEW j \in Jobs PROVE JobOK(job[j]) /\ job[j].state \in {"open", "failed"}
  <2> DEFINE v == IF j \in c.big THEN "failed" ELSE "open"
  <2>1. v \in {"open", "failed"}
    OBVIOUS
  <2> HIDE DEF v
  <2>2. job[j] = [state |-> v, attempts |-> 0, retries |-> c.retries, node |-> 0, nonce |-> 0,
          idempotent |-> FALSE, excluded |-> {}, avoid |-> {}, lease |-> 0, unplaced |-> -1]
    BY <1>1 DEF NewJob, v
  <2>3. job[j] \in JobRecord
    BY <1>2, <2>1, <2>2 DEF JobRecord, Verdicts
  <2>4. Bought({}) = 0
    <3>1. {} \intersect Idempotent = {}
      OBVIOUS
    <3> QED BY <3>1, FS_EmptySet DEF Bought
  <2> QED BY <1>2, <2>1, <2>2, <2>3, <2>4, RemoteAssumption DEF JobOK
<1>4. job \in [Jobs -> JobRecord]
  BY <1>1, <1>3 DEF JobOK
<1>5. /\ call = "wait" /\ cursor = 1 /\ telling = {} /\ interrupted = {}
      /\ now = 0 /\ seen = 0 /\ net = {}
      /\ work = [k \in Keys |-> "none"] /\ loose = {}
      /\ online = Workers /\ offering = Workers
      /\ began = [k \in Keys |-> 0]
  BY DEF Init
<1>6. HubOK
  BY <1>3, <1>4, <1>5, RemoteAssumption DEF HubOK
<1>7. CallOK
  BY <1>3, <1>5, RemoteAssumption DEF CallOK, DeadlineEnds, Unknown
<1>8. NetOK /\ SuccessIsReal
  BY <1>3, <1>5 DEF NetOK, SuccessIsReal
<1>9. WorkOK
  BY <1>5 DEF WorkOK, ExecutedOnce, Phases
<1>10. Promise!Init
  BY <1>3, <1>5 DEF Promise!Init
<1> QED BY <1>6, <1>7, <1>8, <1>9, <1>10 DEF IInv

\* Every step of the hub, of a worker or around them.
LEMMA StepHolds == IInv /\ [Next]_vars => IInv' /\ PromiseStep
<1> SUFFICES ASSUME IInv, [Next]_vars PROVE IInv' /\ PromiseStep
  OBVIOUS
<1>1. ASSUME NetOK', WorkOK', Rest, done \subseteq done' PROVE IInv' /\ PromiseStep
  BY <1>1, HubIdle DEF Rest, IInv
<1>2. CASE Round
  BY <1>2, RoundKeeps
<1>3. CASE Tell
  BY <1>3, TellKeeps
<1>4. CASE Placing
  BY <1>4, PlaceKeeps, PlaceNowhereKeeps, PlaceNotKeeps, RoundEndsKeeps DEF Placing
<1>5. CASE Cut
  BY <1>5, CutKeeps
<1>6. ASSUME NEW m \in net, Message(m) PROVE IInv' /\ PromiseStep
  <2>1. CASE OnResult(m)
    BY <2>1, OnResultKeeps
  <2>2. CASE OnLease(m)
    BY <2>2, OnLeaseKeeps
  <2>3. CASE OnRun(m)
    BY <1>1, <2>3, OnRunKeeps
  <2>4. CASE OnRunAgain(m)
    BY <1>1, <2>4, OnRunAgainKeeps
  <2>5. CASE OnCancel(m)
    BY <1>1, <2>5, OnCancelKeeps
  <2> QED BY <1>6, <2>1, <2>2, <2>3, <2>4, <2>5 DEF Message
<1>7. ASSUME NEW k \in Keys, WorkerStep(k) PROVE IInv' /\ PromiseStep
  BY <1>1, <1>7, WorkerKeeps
<1>8. CASE Surroundings
  BY <1>1, <1>8, SurroundingsKeep
<1>9. CASE UNCHANGED vars
  <2>1. UNCHANGED hubVars /\ UNCHANGED workerVars /\ UNCHANGED <<now, net, online>>
    BY <1>9 DEF vars
  <2> QED BY <1>1, <2>1, WorkersIdle DEF IInv, NetOK, Rest, HubOK, workerVars
<1> QED BY <1>2, <1>3, <1>4, <1>5, <1>6, <1>7, <1>8, <1>9 DEF Next

-----------------------------------------------------------------------------
(* Theorems *)

\* The invariant from which everything below follows, in every reachable state.
THEOREM InvariantAlways == Spec => []IInv
BY InitHolds, StepHolds, PTL DEF Spec

\* The tables of the hub and of the workers keep their shape.
THEOREM TypeCorrect == Spec => []TypeOK
<1>1. IInv => TypeOK
  BY DEF IInv, HubOK, JobOK, JobRecord, WorkOK, TypeOK
<1> QED BY <1>1, InvariantAlways, PTL

\* A job is placed at most once for every retry, once more, and once for every
\* idempotent node it has lost, for any number of nodes, restarts and lost or late
\* messages (_lost, _failed, _requeue, _place).
THEOREM AttemptsAlwaysBounded == Spec => []AttemptsBounded
<1>1. IInv => AttemptsBounded
  BY DEF IInv, HubOK, JobOK, AttemptsBounded, Bought
<1> QED BY <1>1, InvariantAlways, PTL

\* However often a dispatch is delivered, a worker executes it once, unless it was
\* restarted or had to prune it (_on_run, _prune_memory).
THEOREM ExecutedOnceAlways == Spec => []ExecutedOnce
<1>1. IInv => ExecutedOnce
  BY DEF IInv, WorkOK
<1> QED BY <1>1, InvariantAlways, PTL

\* A job is counted as succeeded only when the handler of its last attempt, on the
\* node it was last placed on, has succeeded (_verify, _on_result).
THEOREM SuccessAlwaysReal == Spec => []SuccessIsReal
<1>1. IInv => SuccessIsReal
  BY DEF IInv
<1> QED BY <1>1, InvariantAlways, PTL

\* The call never goes on waiting after a round that saw its deadline (_coordinate).
THEOREM DeadlineAlwaysEnds == Spec => []DeadlineEnds
<1>1. IInv => DeadlineEnds
  BY DEF IInv, CallOK
<1> QED BY <1>1, InvariantAlways, PTL

\* run_remote implements its promise: verdicts stand, the call returns when all jobs
\* have one, and not before the run was interrupted for each whose fate is unknown.
THEOREM CallKeepsPromise == Spec => KeepsCall
BY InitHolds, StepHolds, InvariantAlways, PTL
DEF Spec, KeepsCall, Promise!Spec, PromiseStep

=============================================================================
