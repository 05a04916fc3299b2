-------------------------- MODULE CommOutboxProofs --------------------------
(* Machine-checked facts about CommOutbox, for every value of its constants. *)
EXTENDS CommOutbox, FiniteSetTheorems, WellFoundedInduction, TLAPS

-----------------------------------------------------------------------------
(* Types *)

LEMMA FreshType == \A m \in Msg : Fresh(m) \in Record
BY OutboxAssumption DEF Fresh, Record, States

LEMMA BumpType == \A n \in 0 .. CountBound : Bump(n) \in 0 .. CountBound
BY OutboxAssumption DEF Bump

LEMMA BumpAllType ==
  ASSUME NEW f \in [Msg -> 0 .. CountBound], NEW S
  PROVE  BumpAll(f, S) \in [Msg -> 0 .. CountBound]
BY BumpType DEF BumpAll

LEMMA FinishType ==
  ASSUME TypeOK, NEW r \in [Msg -> Record], NEW done, NEW failed, NEW patches,
         patches \subseteq Job, Finish(r, done, failed, patches)
  PROVE  /\ records' \subseteq Msg
         /\ rec' \in [Msg -> Record]
         /\ jobs' \subseteq Job
         /\ fate' \in [Msg -> Fates]
<1> DEFINE gone == {m \in records : GroupOf[m] \in done \cup failed}
<1>1. gone \subseteq Msg /\ records \subseteq Msg
  BY DEF TypeOK
<1>2. \A m \in Msg : RemoveRow(m) \in Job
  BY OutboxAssumption DEF RemoveRow, Job
<1>3. records' \subseteq Msg
  BY <1>1 DEF Finish, Remaining
<1>4. rec' \in [Msg -> Record]
  BY FreshType DEF Finish
<1>5. jobs' \subseteq Job
  <2>1. Saved(r, gone) \subseteq Msg
    BY <1>1 DEF Saved
  <2> QED BY <1>2, <2>1 DEF Finish, TypeOK
<1>6. fate' \in [Msg -> Fates]
  <2>1. fate' = [m \in Msg |-> IF m \notin gone THEN fate[m]
                               ELSE IF GroupOf[m] \in done THEN "done" ELSE "failed"]
    BY DEF Finish
  <2> QED BY <2>1 DEF TypeOK, Fates
<1> QED BY <1>3, <1>4, <1>5, <1>6

LEMMA PatchType ==
  \A m \in Msg : \A column \in {"attempts", "acks"} : \A value \in 0 .. CountBound :
    PatchRow(m, column, value) \in Job
BY DEF PatchRow, Job

LEMMA RegisterAckType ==
  ASSUME TypeOK, NEW S \in SUBSET Msg, RegisterAck(S)
  PROVE  /\ records' \subseteq Msg
         /\ rec' \in [Msg -> Record]
         /\ jobs' \subseteq Job
         /\ fate' \in [Msg -> Fates]
         /\ wins' \in [Msg -> 0 .. CountBound]
<1> DEFINE A == {m \in S : rec[m].state # "failed"}
           r == [m \in Msg |->
                  IF m \in A
                  THEN [rec[m] EXCEPT !.acks = Bump(@), !.state = "pending", !.due = TRUE]
                  ELSE rec[m]]
           done == {GroupOf[m] : m \in {x \in A : Enough(r, x)}}
           again == {m \in A : GroupOf[m] \notin done}
           patches == {PatchRow(m, "acks", r[m].acks) : m \in Saved(r, again)}
<1>1. r \in [Msg -> Record]
  <2> SUFFICES ASSUME NEW m \in Msg PROVE r[m] \in Record
    OBVIOUS
  <2>1. rec[m] \in Record
    BY DEF TypeOK
  <2>2. Bump(rec[m].acks) \in 0 .. CountBound
    BY <2>1, BumpType DEF Record
  <2>3. "pending" \in States
    BY DEF States
  <2> HIDE DEF A
  <2> QED BY <2>1, <2>2, <2>3 DEF Record
<1>2. patches \subseteq Job
  <2>1. \A m \in Msg : r[m].acks \in 0 .. CountBound
    BY <1>1 DEF Record
  <2>2. Saved(r, again) \subseteq Msg
    BY DEF Saved
  <2> HIDE DEF r, again
  <2> QED BY <2>1, <2>2, PatchType
<1>3. Finish(r, done, {}, patches) /\ wins' = BumpAll(wins, S)
  BY DEF RegisterAck
<1>4. wins' \in [Msg -> 0 .. CountBound]
  BY <1>3, BumpAllType DEF TypeOK
<1> HIDE DEF r, done, patches
<1> QED BY <1>1, <1>2, <1>3, <1>4, FinishType

LEMMA FailEntriesType ==
  ASSUME TypeOK, NEW r0 \in [Msg -> Record], NEW S \in SUBSET Msg, NEW patches,
         patches \subseteq Job, FailEntries(r0, S, patches)
  PROVE  /\ records' \subseteq Msg
         /\ rec' \in [Msg -> Record]
         /\ jobs' \subseteq Job
         /\ fate' \in [Msg -> Fates]
<1> DEFINE r == [m \in Msg |-> IF m \in S THEN [r0[m] EXCEPT !.state = "failed"] ELSE r0[m]]
           failed == {GroupOf[m] : m \in {x \in S : Short(r, x)}}
<1>1. r \in [Msg -> Record]
  BY DEF Record, States
<1>2. Finish(r, {}, failed, patches)
  BY DEF FailEntries
<1> HIDE DEF r, failed
<1> QED BY <1>1, <1>2, FinishType

LEMMA BackOffType ==
  ASSUME TypeOK, NEW S \in SUBSET Msg
  PROVE  BackOff(S) \in [Msg -> Record] /\ BackOffPatches(S) \subseteq Job
<1>1. BackOff(S) \in [Msg -> Record]
  <2> SUFFICES ASSUME NEW m \in Msg
               PROVE  [rec[m] EXCEPT !.state = "retry_wait", !.due = FALSE] \in Record
    BY DEF BackOff, TypeOK
  <2>1. rec[m] \in Record
    BY DEF TypeOK
  <2> QED BY <2>1 DEF Record, States
<1>2. BackOffPatches(S) \subseteq Job
  <2>1. \A m \in Msg : rec[m].attempts \in 0 .. CountBound
    BY DEF TypeOK, Record
  <2>2. Saved(rec, S) \subseteq Msg
    BY DEF Saved
  <2> QED BY <2>1, <2>2, PatchType DEF BackOffPatches
<1> QED BY <1>1, <1>2

Pumps == [pc : {"idle", "gather", "deliver", "dispatch", "post"},
          batch : SUBSET Msg, current : SUBSET Msg]

LEMMA PumpType ==
  /\ IdlePump \in Pumps
  /\ [IdlePump EXCEPT !.pc = "gather"] \in Pumps
  /\ \A batch \in SUBSET Msg : Delivering(batch) \in Pumps
BY DEF IdlePump, Pumps, Delivering

LEMMA InitType == Init => TypeOK
<1> SUFFICES ASSUME Init PROVE TypeOK
  OBVIOUS
<1>1. rec \in [Msg -> Record]
  BY FreshType DEF Init
<1>2. disk \in [DOMAIN disk -> Row] /\ DOMAIN disk \subseteq Msg
  BY DEF Init
<1> QED BY <1>1, <1>2, OutboxAssumption DEF Init, TypeOK, IdlePump, Fates

LEMMA StepType == TypeOK /\ [Next]_vars => TypeOK'
<1> SUFFICES ASSUME TypeOK, [Next]_vars PROVE TypeOK'
  OBVIOUS
<1> USE OutboxAssumption
<1>1. ASSUME NEW c \in Calls, Enqueue(c) PROVE TypeOK'
  <2> DEFINE new == {c[i] : i \in DOMAIN c}
             order == [m \in Msg |-> IF m \in new THEN clock + (CHOOSE i \in DOMAIN c : c[i] = m)
                                                   ELSE stamp[m]]
             kept == Newest(records \cup new, order, QueueMax)
             evicted == (records \cup new) \ kept
  <2>1. c \in Seq(Msg) /\ Len(c) \in Nat /\ DOMAIN c \subseteq Nat
    <3>1. c \in Seq(Msg)
      OBVIOUS
    <3>2. \A q \in Seq(Msg) : Len(q) \in Nat /\ DOMAIN q = 1 .. Len(q)
      OBVIOUS
    <3> QED BY <3>1, <3>2
  <2>2. new \subseteq Msg
    <3>1. \A q \in Seq(Msg) : \A i \in DOMAIN q : q[i] \in Msg
      OBVIOUS
    <3> QED BY <2>1, <3>1
  <2>3. order \in [Msg -> Nat]
    <3> DEFINE Place(m) == CHOOSE i \in DOMAIN c : c[i] = m
    <3>1. ASSUME NEW m \in new PROVE Place(m) \in Nat
      <4>1. \E i \in DOMAIN c : c[i] = m
        OBVIOUS
      <4>2. Place(m) \in DOMAIN c
        BY <4>1, Zenon
      <4> QED BY <2>1, <4>2
    <3>2. order = [m \in Msg |-> IF m \in new THEN clock + Place(m) ELSE stamp[m]]
      OBVIOUS
    <3> HIDE DEF Place, new, order
    <3>3. \A m \in new : clock + Place(m) \in Nat
      BY <3>1 DEF TypeOK
    <3> QED BY <3>2, <3>3 DEF TypeOK
  <2>4. kept \subseteq Msg /\ evicted \subseteq Msg
    BY <2>2 DEF Newest, TypeOK
  <2>5. /\ records' = kept /\ stamp' = order /\ clock' = clock + Len(c)
        /\ rec' = [m \in Msg |-> IF m \in new THEN Fresh(m)
                                 ELSE IF m \in evicted THEN [rec[m] EXCEPT !.saved = FALSE]
                                 ELSE rec[m]]
        /\ saving' = IF phase = "running" THEN saving \cup {m \in new : MinSuccess[m] > 0}
                                          ELSE saving
        /\ jobs' = jobs \cup {RemoveRow(m) : m \in Saved(rec, evicted)}
        /\ fate' = [m \in Msg |-> IF m \in evicted THEN "dropped"
                                  ELSE IF m \in new THEN "queued" ELSE fate[m]]
        /\ sent' = sent \cup {c}
        /\ UNCHANGED <<phase, disk, pump, held, aged, tries, wins, crashes, stops>>
    BY <1>1 DEF Enqueue
  <2> HIDE DEF new, order, kept, evicted
  <2>6. rec' \in [Msg -> Record]
    <3> SUFFICES ASSUME NEW m \in Msg PROVE [rec[m] EXCEPT !.saved = FALSE] \in Record
      BY <2>5, FreshType DEF TypeOK
    <3>1. rec[m] \in Record
      BY DEF TypeOK
    <3> QED BY <3>1 DEF Record
  <2>7. jobs' \subseteq Job
    <3>1. Saved(rec, evicted) \subseteq Msg
      BY <2>4 DEF Saved
    <3>2. \A m \in Msg : RemoveRow(m) \in Job
      BY DEF RemoveRow, Job
    <3> QED BY <2>5, <3>1, <3>2 DEF TypeOK
  <2>8. fate' \in [Msg -> Fates]
    BY <2>5 DEF TypeOK, Fates
  <2>9. saving' \subseteq Msg
    BY <2>2, <2>5 DEF TypeOK
  <2>10. records' \subseteq Msg /\ stamp' \in [Msg -> Nat] /\ sent' \subseteq Calls
    BY <2>3, <2>4, <2>5 DEF TypeOK
  <2>11. clock' \in Nat
    BY <2>1, <2>5 DEF TypeOK
  <2>12. UNCHANGED <<phase, disk, pump, held, aged, tries, wins, crashes, stops>>
    BY <2>5
  <2> QED BY <2>6, <2>7, <2>8, <2>9, <2>10, <2>11, <2>12 DEF TypeOK
<1>2. ASSUME NEW m \in Msg, SaveRow(m) PROVE TypeOK'
  <2>1. rec' \in [Msg -> Record]
    <3>1. rec[m] \in Record /\ rec' = [rec EXCEPT ![m].saved = TRUE]
      BY <1>2 DEF TypeOK, SaveRow
    <3>2. [rec[m] EXCEPT !.saved = TRUE] \in Record
      BY <3>1 DEF Record
    <3> QED BY <3>1, <3>2 DEF TypeOK
  <2>2. DOMAIN disk' \subseteq Msg /\ disk' \in [DOMAIN disk' -> Row]
    <3>1. PICK r \in {Fresh(m), rec[m]} :
            disk' = [x \in DOMAIN disk \cup {m} |-> IF x = m THEN RowValues(r) ELSE disk[x]]
      BY <1>2 DEF SaveRow
    <3>2. r \in Record
      BY <3>1, FreshType DEF TypeOK
    <3>3. RowValues(r) \in Row
      BY <3>2 DEF Record, RowValues, Row
    <3> QED BY <3>1, <3>3 DEF TypeOK
  <2>3. fate' \in [Msg -> Fates]
    BY <1>2 DEF TypeOK, SaveRow, Fates
  <2> QED BY <1>2, <2>1, <2>2, <2>3 DEF TypeOK, SaveRow
<1>3. ASSUME NEW m \in Msg, SaveRowFails(m) PROVE TypeOK'
  <2>1. rec[m] \in Record /\ rec' = [rec EXCEPT ![m].saveFailed = TRUE]
    BY <1>3 DEF TypeOK, SaveRowFails
  <2>2. [rec[m] EXCEPT !.saveFailed = TRUE] \in Record
    BY <2>1 DEF Record
  <2>3. rec' \in [Msg -> Record]
    BY <2>1, <2>2 DEF TypeOK
  <2> QED BY <1>3, <2>3 DEF TypeOK, SaveRowFails, past
<1>4. ASSUME NEW m \in Msg, Tick(m) PROVE TypeOK'
  <2>1. rec[m] \in Record /\ rec' = [rec EXCEPT ![m].due = TRUE]
    BY <1>4 DEF TypeOK, Tick
  <2>2. [rec[m] EXCEPT !.due = TRUE] \in Record
    BY <2>1 DEF Record
  <2>3. rec' \in [Msg -> Record]
    BY <2>1, <2>2 DEF TypeOK
  <2> QED BY <1>4, <2>3 DEF TypeOK, Tick, past
<1>5. ASSUME NEW j \in jobs, JobDone(j) PROVE TypeOK'
  <2>1. j \in Job
    BY DEF TypeOK
  <2>2. \A row \in Row : j.col # "row" => Patched(row, j) \in Row
    BY <2>1 DEF Patched, Row, Job
  <2>3. DOMAIN disk' \subseteq Msg /\ disk' \in [DOMAIN disk' -> Row]
    BY <1>5, <2>2 DEF JobDone, TypeOK
  <2> QED BY <1>5, <2>3 DEF TypeOK, JobDone, past
<1>6. ASSUME NEW j \in jobs, JobFails(j) PROVE TypeOK'
  BY <1>6 DEF TypeOK, JobFails, past
<1>7. CASE PumpOnce
  <2> DEFINE late == {m \in records : /\ Scope[m] = "down" /\ rec[m].state = "in_flight"
                                      /\ rec[m].due}
             over == {m \in late : GivesUp(m)} \cup Expired
  <2>1. late \in SUBSET Msg /\ over \in SUBSET Msg
    BY DEF TypeOK, Expired
  <2>2. FailEntries(BackOff(late), over, BackOffPatches(late))
    BY <1>7 DEF PumpOnce
  <2> HIDE DEF late, over
  <2>3. /\ records' \subseteq Msg /\ rec' \in [Msg -> Record]
        /\ jobs' \subseteq Job /\ fate' \in [Msg -> Fates]
    BY <2>1, <2>2, BackOffType, FailEntriesType
  <2>4. saving' \subseteq Msg
    BY <1>7, <2>3 DEF PumpOnce, TypeOK
  <2>5. pump' \in Pumps
    BY <1>7, <2>3, PumpType DEF PumpOnce, Ready
  <2> QED BY <1>7, <2>3, <2>4, <2>5 DEF PumpOnce, TypeOK, Pumps
<1>8. CASE CloseBatch
  <2>1. \A n \in 1 .. BatchSize : Oldest(Ready(records, rec), n) \subseteq Msg
    BY DEF Oldest, Ready, TypeOK
  <2>2. pump' \in Pumps
    BY <1>8, <2>1, PumpType DEF CloseBatch
  <2> QED BY <1>8, <2>2 DEF CloseBatch, TypeOK, Pumps, past
<1>9. CASE BeginDispatch
  <2>1. PICK m \in Locals(pump.batch) :
          /\ rec' = [rec EXCEPT ![m].attempts = Bump(@)]
          /\ tries' = BumpAll(tries, {m})
          /\ pump' = [pump EXCEPT !.pc = "dispatch", !.current = {m}]
    BY <1>9 DEF BeginDispatch
  <2>2. m \in Msg
    BY DEF Locals, TypeOK
  <2>3. rec[m] \in Record
    BY <2>2 DEF TypeOK
  <2>4. [rec[m] EXCEPT !.attempts = Bump(@)] \in Record
    BY <2>3, BumpType DEF Record
  <2>5. rec' \in [Msg -> Record]
    BY <2>1, <2>2, <2>4 DEF TypeOK
  <2>6. tries' \in [Msg -> 0 .. CountBound]
    BY <2>1, BumpAllType DEF TypeOK
  <2> QED BY <1>9, <2>1, <2>2, <2>5, <2>6 DEF TypeOK, BeginDispatch
<1>10. CASE EndDispatch
  <2>1. RegisterAck(pump.current) /\ pump.current \in SUBSET Msg
    BY <1>10 DEF EndDispatch, TypeOK
  <2>2. pump' \in Pumps
    BY <1>10, PumpType DEF EndDispatch, TypeOK
  <2> QED BY <1>10, <2>1, <2>2, RegisterAckType DEF EndDispatch, TypeOK, Pumps
<1>11. CASE Post
  <2> DEFINE attempts == BumpAll([m \in Msg |-> rec[m].attempts], pump.batch)
  <2>1. attempts \in [Msg -> 0 .. CountBound]
    <3>1. [m \in Msg |-> rec[m].attempts] \in [Msg -> 0 .. CountBound]
      BY DEF TypeOK, Record
    <3> QED BY <3>1, BumpAllType
  <2>2. rec' = [m \in Msg |-> [rec[m] EXCEPT !.attempts = attempts[m]]]
    BY <1>11 DEF Post
  <2>3. jobs' = jobs \cup {PatchRow(m, "attempts", attempts[m]) : m \in Saved(rec, pump.batch)}
    BY <1>11 DEF Post
  <2> HIDE DEF attempts
  <2>4. rec' \in [Msg -> Record]
    <3> SUFFICES ASSUME NEW m \in Msg PROVE [rec[m] EXCEPT !.attempts = attempts[m]] \in Record
      BY <2>2
    <3>1. rec[m] \in Record
      BY DEF TypeOK
    <3> QED BY <2>1, <3>1 DEF Record
  <2>5. jobs' \subseteq Job
    <3>1. Saved(rec, pump.batch) \subseteq Msg
      BY DEF Saved, TypeOK
    <3> QED BY <2>1, <2>3, <3>1, PatchType DEF TypeOK
  <2>6. tries' \in [Msg -> 0 .. CountBound]
    BY <1>11, BumpAllType DEF TypeOK, Post
  <2> QED BY <1>11, <2>4, <2>5, <2>6 DEF Post, TypeOK
<1>12. CASE PostOk
  <2>1. RegisterAck(pump.batch) /\ pump.batch \in SUBSET Msg
    BY <1>12 DEF PostOk, TypeOK
  <2> QED BY <1>12, <2>1, RegisterAckType, PumpType DEF PostOk, TypeOK, Pumps
<1>13. CASE PostNetworkError
  <2> DEFINE over == {m \in pump.batch : GivesUp(m)}
  <2>1. /\ FailEntries(BackOff(pump.batch), over, BackOffPatches(pump.batch))
        /\ pump.batch \in SUBSET Msg /\ over \in SUBSET Msg
    BY <1>13 DEF PostNetworkError, TypeOK
  <2> HIDE DEF over
  <2>2. /\ records' \subseteq Msg /\ rec' \in [Msg -> Record]
        /\ jobs' \subseteq Job /\ fate' \in [Msg -> Fates]
    BY <2>1, BackOffType, FailEntriesType
  <2> QED BY <1>13, <2>2, PumpType DEF PostNetworkError, TypeOK, Pumps
<1>14. CASE PostRejected
  <2>1. FailEntries(rec, pump.batch, {}) /\ pump.batch \in SUBSET Msg /\ rec \in [Msg -> Record]
    BY <1>14 DEF PostRejected, TypeOK
  <2>2. \A patches : patches = {} /\ FailEntries(rec, pump.batch, patches) =>
          /\ records' \subseteq Msg /\ rec' \in [Msg -> Record]
          /\ jobs' \subseteq Job /\ fate' \in [Msg -> Fates]
    BY <2>1, FailEntriesType
  <2> QED BY <1>14, <2>2, PumpType DEF PostRejected, TypeOK, Pumps
<1>15. ASSUME NEW n \in Nodes, Poll(n) PROVE TypeOK'
  <2> DEFINE ready == {m \in records : /\ Scope[m] = "down" /\ Dest[m] = n
                                       /\ rec[m].state \in {"pending", "retry_wait"}
                                       /\ rec[m].due}
             taken == Oldest(ready, PollMax)
             r == [m \in Msg |->
                    IF m \in taken
                    THEN [rec[m] EXCEPT !.attempts = Bump(@), !.state = "in_flight", !.due = FALSE]
                    ELSE rec[m]]
  <2>1. taken \subseteq Msg
    BY DEF Oldest, TypeOK
  <2>2. /\ rec' = r
        /\ jobs' = jobs \cup {PatchRow(m, "attempts", r[m].attempts) : m \in Saved(rec, taken)}
        /\ tries' = BumpAll(tries, taken)
        /\ held' = BumpAll(held, taken)
        /\ UNCHANGED <<phase, records, stamp, clock, saving, disk, pump, aged, sent,
                       fate, wins, crashes, stops>>
    BY <1>15 DEF Poll
  <2> HIDE DEF taken
  <2>3. r \in [Msg -> Record]
    <3> SUFFICES ASSUME NEW m \in Msg
                 PROVE  [rec[m] EXCEPT !.attempts = Bump(@), !.state = "in_flight",
                                       !.due = FALSE] \in Record
      BY DEF TypeOK
    <3>1. rec[m] \in Record
      BY DEF TypeOK
    <3> QED BY <3>1, BumpType DEF Record, States
  <2> HIDE DEF r
  <2>4. jobs' \subseteq Job
    <3>1. Saved(rec, taken) \subseteq Msg /\ \A m \in Msg : r[m].attempts \in 0 .. CountBound
      BY <2>1, <2>3 DEF Saved, Record
    <3> QED BY <2>2, <3>1, PatchType DEF TypeOK
  <2>5. tries' \in [Msg -> 0 .. CountBound] /\ held' \in [Msg -> 0 .. CountBound]
    BY <2>2, BumpAllType DEF TypeOK
  <2> QED BY <2>2, <2>3, <2>4, <2>5 DEF TypeOK
<1>16. ASSUME NEW n \in Nodes, Ack(n) PROVE TypeOK'
  <2>1. PICK S \in SUBSET {m \in Msg : Scope[m] = "down" /\ Dest[m] = n /\ held[m] > 0} :
          /\ held' = [m \in Msg |-> IF m \in S THEN held[m] - 1 ELSE held[m]]
          /\ RegisterAck(S \cap records)
          /\ UNCHANGED <<phase, stamp, clock, saving, disk, pump, aged, sent, tries, crashes,
                         stops>>
    BY <1>16 DEF Ack
  <2>2. S \cap records \in SUBSET Msg
    OBVIOUS
  <2>3. held' \in [Msg -> 0 .. CountBound]
    <3> SUFFICES ASSUME NEW m \in S PROVE held[m] - 1 \in 0 .. CountBound
      BY <2>1 DEF TypeOK
    <3>1. held[m] \in 0 .. CountBound /\ held[m] > 0
      BY DEF TypeOK
    <3> QED BY <3>1
  <2> QED BY <2>1, <2>2, <2>3, RegisterAckType DEF TypeOK
<1>17. ASSUME NEW g \in Grp, Age(g) PROVE TypeOK'
  BY <1>17 DEF Age, TypeOK, mem, past
<1>18. ASSUME LoseMemory, crashes' \in 0 .. CrashBound, stops' \in 0 .. StopBound PROVE TypeOK'
  <2>1. rec' \in [Msg -> Record]
    BY <1>18, FreshType DEF LoseMemory
  <2> QED BY <1>18, <2>1, PumpType DEF LoseMemory, TypeOK, past, Pumps
<1>19. CASE Crash
  BY <1>18, <1>19 DEF Crash, TypeOK
<1>20. CASE Cleanup
  BY <1>18, <1>20 DEF Cleanup, TypeOK
<1>21. CASE Recover
  <2> DEFINE keep == Revived
             old == {m \in DOMAIN disk : GroupOf[m] \in aged}
  <2>1. keep \subseteq Msg /\ old \subseteq Msg /\ keep \subseteq DOMAIN disk
    BY DEF TypeOK, Revived
  <2>2. /\ phase' = "running" /\ records' = records \cup keep
        /\ clock' = clock + Cardinality(keep)
        /\ rec' = [m \in Msg |-> IF m \in keep THEN Revive(m) ELSE rec[m]]
        /\ jobs' = jobs \cup {RemoveRow(m) : m \in old}
        /\ fate' = [m \in Msg |-> IF m \in old /\ fate[m] = "stored" THEN "failed" ELSE fate[m]]
        /\ UNCHANGED <<saving, disk, pump, held, aged, sent, tries, wins, crashes, stops>>
    BY <1>21 DEF Recover
  <2>3. \E place \in [keep -> 1 .. Cardinality(keep)] :
          /\ \A x, y \in keep : place[x] = place[y] => x = y
          /\ stamp' = [m \in Msg |-> IF m \in keep THEN clock + place[m] ELSE stamp[m]]
    BY <1>21 DEF Recover
  <2>4. Cardinality(keep) \in Nat
    BY <2>1, FS_Subset, FS_CardinalityType
  <2> HIDE DEF keep, old
  <2>5. stamp' \in [Msg -> Nat]
    <3>1. PICK place \in [keep -> 1 .. Cardinality(keep)] :
            stamp' = [m \in Msg |-> IF m \in keep THEN clock + place[m] ELSE stamp[m]]
      BY <2>3
    <3> QED BY <3>1, <2>4 DEF TypeOK
  <2>6. rec' \in [Msg -> Record]
    <3> SUFFICES ASSUME NEW m \in keep PROVE Revive(m) \in Record
      BY <2>2 DEF TypeOK
    <3>1. m \in Msg /\ m \in DOMAIN disk
      BY <2>1
    <3>2. disk[m].attempts \in 0 .. CountBound /\ disk[m].acks \in 0 .. CountBound
      BY <3>1 DEF TypeOK, Row
    <3>3. Fresh(m) \in Record
      BY <3>1, FreshType
    <3> QED BY <3>2, <3>3 DEF Record, States, Revive
  <2>7. jobs' \subseteq Job
    <3>1. \A m \in Msg : RemoveRow(m) \in Job
      BY DEF RemoveRow, Job
    <3>2. jobs' = jobs \cup {RemoveRow(m) : m \in old}
      BY <2>2
    <3> QED BY <2>1, <3>1, <3>2 DEF TypeOK
  <2>8. fate' \in [Msg -> Fates]
    BY <2>2 DEF TypeOK, Fates
  <2>9. records' \subseteq Msg /\ clock' \in Nat /\ phase' = "running"
    <3>1. \A n \in Nat : clock + n \in Nat
      BY DEF TypeOK
    <3>2. clock' \in Nat
      BY <2>2, <2>4, <3>1
    <3>3. records' \subseteq Msg /\ phase' = "running"
      BY <2>1, <2>2 DEF TypeOK
    <3> QED BY <3>2, <3>3
  <2>10. UNCHANGED <<saving, disk, pump, held, aged, sent, tries, wins, crashes, stops>>
    BY <2>2
  <2> QED BY <2>5, <2>6, <2>7, <2>8, <2>9, <2>10 DEF TypeOK
<1>22. CASE UNCHANGED vars
  BY <1>22 DEF vars, mem, past, TypeOK
<1> QED
  BY <1>1, <1>2, <1>3, <1>4, <1>5, <1>6, <1>7, <1>8, <1>9, <1>10, <1>11, <1>12, <1>13, <1>14,
     <1>15, <1>16, <1>17, <1>19, <1>20, <1>21, <1>22 DEF Next, PumpStep

-----------------------------------------------------------------------------
(* Durability *)

\* Finishing groups takes records out of the queue and settles them in the same
\* step, so no message is both stored and gone, and every remove job it spawns
\* is for a settled message.
LEMMA FinishKeepsDurable ==
  ASSUME TypeOK, DurableInv,
         NEW r, NEW done, NEW failed, NEW patches,
         \A j \in patches : j.col # "row",
         Finish(r, done, failed, patches),
         saving' \subseteq saving \/ (phase = "running" /\ saving' \subseteq saving \cup records'),
         UNCHANGED <<phase, disk, sent>>
  PROVE  DurableInv'
<1> DEFINE gone == {m \in records : GroupOf[m] \in done \cup failed}
<1>1. /\ records' = records \ gone
      /\ jobs' = jobs \cup patches \cup {RemoveRow(m) : m \in Saved(r, gone)}
      /\ fate' = [m \in Msg |-> IF m \notin gone THEN fate[m]
                                ELSE IF GroupOf[m] \in done THEN "done" ELSE "failed"]
  BY DEF Finish, Remaining
<1>2. records \subseteq Msg /\ saving \subseteq Msg /\ DOMAIN disk \subseteq Msg
  BY DEF TypeOK
<1>3. \A m \in Msg : m \in gone => fate'[m] \in {"done", "failed"}
  BY <1>1
<1>4. \A m \in Msg : m \notin gone => fate'[m] = fate[m]
  BY <1>1
<1>5. \A m \in Msg : fate[m] # "unsent" => fate'[m] # "unsent"
  BY <1>3, <1>4
<1>6. StoredHasRow'
  BY <1>3, <1>4 DEF DurableInv, StoredHasRow
<1>7. StoredIsQueued'
  BY <1>1, <1>3, <1>4 DEF DurableInv, StoredIsQueued
<1>8. \A m \in Msg : fate'[m] # "unsent" => \E c \in sent' : \E i \in DOMAIN c : c[i] = m
  <2> SUFFICES ASSUME NEW m \in Msg, fate'[m] # "unsent"
               PROVE  \E c \in sent : \E i \in DOMAIN c : c[i] = m
    OBVIOUS
  <2>1. fate[m] # "unsent"
    BY <1>2, <1>4 DEF DurableInv
  <2> QED BY <2>1 DEF DurableInv
<1>9. \A m \in records' \cup saving' : fate'[m] # "unsent"
  BY <1>1, <1>2, <1>5 DEF DurableInv
<1>10. \A m \in DOMAIN disk' : fate'[m] \notin {"unsent", "queued"}
  BY <1>2, <1>3, <1>4 DEF DurableInv
<1>11. \A j \in jobs' : j.col = "row" => fate'[j.id] \notin {"unsent", "queued", "stored"}
  <2> SUFFICES ASSUME NEW j \in jobs', j.col = "row"
               PROVE  fate'[j.id] \notin {"unsent", "queued", "stored"}
    OBVIOUS
  <2>1. CASE j \in jobs
    <3>1. j.id \in Msg
      BY <2>1 DEF TypeOK, Job
    <3> QED BY <2>1, <3>1, <1>3, <1>4 DEF DurableInv
  <2>2. CASE j \in {RemoveRow(m) : m \in Saved(r, gone)}
    <3>1. j.id \in gone
      BY <2>2 DEF RemoveRow, Saved
    <3> QED BY <3>1, <1>2, <1>3
  <2> QED BY <1>1, <2>1, <2>2
<1>12. \A m \in saving' : phase' = "running" /\ (fate'[m] = "queued" => m \in records')
  BY <1>1, <1>2, <1>3, <1>4 DEF DurableInv
<1> QED BY <1>6, <1>7, <1>8, <1>9, <1>10, <1>11, <1>12 DEF DurableInv

\* Steps that only spawn patches, or end a save or a job without a row.
LEMMA PatchesKeepDurable ==
  ASSUME TypeOK, DurableInv,
         \A j \in jobs' : j \in jobs \/ j.col # "row",
         saving' \subseteq saving,
         UNCHANGED <<phase, records, disk, fate, sent>>
  PROVE  DurableInv'
BY DEF DurableInv, StoredHasRow, StoredIsQueued

LEMMA RegisterAckKeepsDurable ==
  ASSUME TypeOK, DurableInv, NEW S, RegisterAck(S), UNCHANGED <<phase, saving, disk, sent>>
  PROVE  DurableInv'
<1>1. PICK r, done, again :
        Finish(r, done, {}, {PatchRow(m, "acks", r[m].acks) : m \in Saved(r, again)})
  BY Zenon DEF RegisterAck
<1> DEFINE patches == {PatchRow(m, "acks", r[m].acks) : m \in Saved(r, again)}
<1>2. \A j \in patches : j.col # "row"
  BY DEF PatchRow
<1>3. Finish(r, done, {}, patches)
  BY <1>1
<1> HIDE DEF patches
<1> QED BY <1>2, <1>3, FinishKeepsDurable

LEMMA FailEntriesKeepsDurable ==
  ASSUME TypeOK, DurableInv, NEW r0, NEW S, NEW patches,
         \A j \in patches : j.col # "row",
         FailEntries(r0, S, patches),
         saving' \subseteq saving \/ (phase = "running" /\ saving' \subseteq saving \cup records'),
         UNCHANGED <<phase, disk, sent>>
  PROVE  DurableInv'
<1>1. PICK r, failed : Finish(r, {}, failed, patches)
  BY Zenon DEF FailEntries
<1> QED BY <1>1, FinishKeepsDurable

LEMMA BackOffPatchesKeepRows ==
  ASSUME NEW S PROVE \A j \in BackOffPatches(S) : j.col # "row"
BY DEF BackOffPatches, PatchRow

LEMMA InitDurable == Init => DurableInv
BY DEF Init, DurableInv, StoredHasRow, StoredIsQueued

LEMMA EnqueueKeepsDurable ==
  ASSUME TypeOK, DurableInv, NEW c \in Calls, Enqueue(c)
  PROVE  DurableInv'
<1> DEFINE new == {c[i] : i \in DOMAIN c}
           order == [m \in Msg |-> IF m \in new THEN clock + (CHOOSE i \in DOMAIN c : c[i] = m)
                                                 ELSE stamp[m]]
           all == records \cup new
           kept == Newest(all, order, QueueMax)
           evicted == all \ kept
<1>1. /\ c \notin sent
      /\ records' = kept
      /\ saving' = IF phase = "running" THEN saving \cup {m \in new : MinSuccess[m] > 0}
                                        ELSE saving
      /\ jobs' = jobs \cup {RemoveRow(m) : m \in Saved(rec, evicted)}
      /\ fate' = [m \in Msg |-> IF m \in evicted THEN "dropped"
                                ELSE IF m \in new THEN "queued" ELSE fate[m]]
      /\ sent' = sent \cup {c}
      /\ UNCHANGED <<phase, disk>>
  BY DEF Enqueue
<1>2. kept \subseteq all
  BY DEF Newest
<1>3. \A m \in new : m \in Msg
  <2>1. c \in Seq(Msg)
    BY OutboxAssumption
  <2>2. \A q \in Seq(Msg) : \A i \in DOMAIN q : q[i] \in Msg
    OBVIOUS
  <2> QED BY <2>1, <2>2
<1>4. \A m \in new : fate[m] = "unsent"
  <2> SUFFICES ASSUME NEW m \in new, fate[m] # "unsent" PROVE FALSE
    OBVIOUS
  <2>1. PICK d \in sent : \E i \in DOMAIN d : d[i] = m
    BY <1>3 DEF DurableInv
  <2>2. d \in Calls /\ \E i \in DOMAIN c : c[i] = m
    BY DEF TypeOK
  <2>3. c = d
    BY <2>1, <2>2, FreshIdsAssumption
  <2> QED BY <1>1, <2>3
<1>5. \A m \in new : \E i \in DOMAIN c : c[i] = m
  OBVIOUS
<1>6. records \subseteq Msg /\ saving \subseteq Msg /\ DOMAIN disk \subseteq Msg
  BY DEF TypeOK
<1> HIDE DEF new, kept
<1>7. \A m \in Msg : fate'[m] = "stored" => fate[m] = "stored" /\ m \notin evicted /\ m \notin new
  BY <1>1
<1>8. \A m \in Msg : m \notin all => fate'[m] = fate[m]
  BY <1>1
<1>9. \A m \in all : fate'[m] # "unsent"
  BY <1>1, <1>3, <1>6 DEF DurableInv
<1>10. StoredHasRow'
  BY <1>1, <1>7 DEF DurableInv, StoredHasRow
<1>11. StoredIsQueued'
  BY <1>1, <1>7 DEF DurableInv, StoredIsQueued
<1>12. \A m \in Msg : fate'[m] # "unsent" => \E d \in sent' : \E i \in DOMAIN d : d[i] = m
  <2> SUFFICES ASSUME NEW m \in Msg, fate'[m] # "unsent"
               PROVE  \E d \in sent \cup {c} : \E i \in DOMAIN d : d[i] = m
    BY <1>1
  <2>1. CASE m \in new
    BY <2>1, <1>5
  <2>2. CASE m \notin new
    <3>1. fate[m] # "unsent"
      BY <2>2, <1>8 DEF DurableInv
    <3> QED BY <3>1 DEF DurableInv
  <2> QED BY <2>1, <2>2
<1>13. \A m \in records' \cup saving' : fate'[m] # "unsent"
  <2>1. \A m \in saving : fate'[m] # "unsent"
    BY <1>6, <1>8, <1>9 DEF DurableInv
  <2> QED BY <2>1, <1>1, <1>2, <1>9
<1>14. \A m \in DOMAIN disk' : fate'[m] \notin {"unsent", "queued"}
  BY <1>1, <1>4, <1>6 DEF DurableInv
<1>15. \A j \in jobs' : j.col = "row" => fate'[j.id] \notin {"unsent", "queued", "stored"}
  <2> SUFFICES ASSUME NEW j \in jobs', j.col = "row"
               PROVE  fate'[j.id] \notin {"unsent", "queued", "stored"}
    OBVIOUS
  <2>1. CASE j \in jobs
    <3>1. j.id \in Msg
      BY <2>1 DEF TypeOK, Job
    <3>2. fate[j.id] \notin {"unsent", "queued", "stored"}
      BY <2>1 DEF DurableInv
    <3> QED BY <3>1, <3>2, <1>1, <1>4
  <2>2. CASE j \in {RemoveRow(m) : m \in Saved(rec, evicted)}
    <3>1. j.id \in evicted /\ j.id \in Msg
      BY <2>2, <1>3, <1>6 DEF RemoveRow, Saved
    <3> QED BY <3>1, <1>1
  <2> QED BY <1>1, <2>1, <2>2
<1>16. \A m \in saving' : phase' = "running" /\ (fate'[m] = "queued" => m \in records')
  <2> SUFFICES ASSUME NEW m \in saving'
               PROVE  phase = "running" /\ (fate'[m] = "queued" => m \in kept)
    BY <1>1
  <2>1. phase = "running"
    BY <1>1 DEF DurableInv
  <2>2. m \in Msg /\ (m \in new \/ m \in saving)
    BY <1>1, <1>3, <1>6
  <2>3. ASSUME fate'[m] = "queued" PROVE m \in kept
    <3>1. m \notin evicted
      BY <1>1, <2>2, <2>3
    <3>2. CASE m \in new
      BY <3>1, <3>2
    <3>3. CASE m \notin new
      <4>1. fate[m] = "queued" /\ m \in saving
        BY <1>1, <2>2, <2>3, <3>1, <3>3
      <4>2. m \in records
        BY <4>1 DEF DurableInv
      <4> QED BY <3>1, <4>2
    <3> QED BY <3>2, <3>3
  <2> QED BY <2>1, <2>3
<1> QED BY <1>10, <1>11, <1>12, <1>13, <1>14, <1>15, <1>16 DEF DurableInv

LEMMA RecoverKeepsDurable ==
  ASSUME TypeOK, DurableInv, Recover
  PROVE  DurableInv'
<1> DEFINE keep == {m \in DOMAIN disk : GroupOf[m] \notin aged}
           old == {m \in DOMAIN disk : GroupOf[m] \in aged}
<1>1. /\ phase = "opening"
      /\ phase' = "running"
      /\ records' = records \cup keep
      /\ jobs' = jobs \cup {RemoveRow(m) : m \in old}
      /\ fate' = [m \in Msg |-> IF m \in old /\ fate[m] = "stored" THEN "failed" ELSE fate[m]]
      /\ UNCHANGED <<saving, disk, sent>>
  BY DEF Recover, Revived
<1>2. DOMAIN disk \subseteq Msg /\ records \subseteq Msg
  BY DEF TypeOK
<1>3. saving = {}
  BY <1>1 DEF DurableInv
<1>4. \A m \in Msg : fate'[m] = fate[m] \/ (fate[m] = "stored" /\ fate'[m] = "failed")
  BY <1>1
<1>5. \A m \in old : fate'[m] \notin {"unsent", "queued", "stored"}
  BY <1>1, <1>2 DEF DurableInv
<1>6. StoredHasRow'
  BY <1>1, <1>4 DEF DurableInv, StoredHasRow
<1>7. StoredIsQueued'
  <2> SUFFICES ASSUME NEW m \in Msg, fate'[m] = "stored" PROVE m \in keep
    BY <1>1 DEF StoredIsQueued
  <2>1. m \in DOMAIN disk
    BY <1>4 DEF DurableInv, StoredHasRow
  <2> QED BY <2>1, <1>5
<1>8. \A m \in Msg : fate'[m] # "unsent" => \E c \in sent' : \E i \in DOMAIN c : c[i] = m
  BY <1>1, <1>4 DEF DurableInv
<1>9. \A m \in records' \cup saving' : fate'[m] # "unsent"
  BY <1>1, <1>2, <1>3, <1>4 DEF DurableInv
<1>10. \A m \in DOMAIN disk' : fate'[m] \notin {"unsent", "queued"}
  BY <1>1, <1>2, <1>4 DEF DurableInv
<1>11. \A j \in jobs' : j.col = "row" => fate'[j.id] \notin {"unsent", "queued", "stored"}
  <2> SUFFICES ASSUME NEW j \in jobs', j.col = "row"
               PROVE  fate'[j.id] \notin {"unsent", "queued", "stored"}
    OBVIOUS
  <2>1. CASE j \in jobs
    <3>1. j.id \in Msg
      BY <2>1 DEF TypeOK, Job
    <3> QED BY <2>1, <3>1, <1>4 DEF DurableInv
  <2>2. CASE j \in {RemoveRow(m) : m \in old}
    <3>1. j.id \in old
      BY <2>2 DEF RemoveRow
    <3> QED BY <3>1, <1>5
  <2> QED BY <1>1, <2>1, <2>2
<1>12. \A m \in saving' : phase' = "running" /\ (fate'[m] = "queued" => m \in records')
  BY <1>1, <1>3
<1> QED BY <1>6, <1>7, <1>8, <1>9, <1>10, <1>11, <1>12 DEF DurableInv

LEMMA StepDurable == TypeOK /\ DurableInv /\ [Next]_vars => DurableInv'
<1> SUFFICES ASSUME TypeOK, DurableInv, [Next]_vars PROVE DurableInv'
  OBVIOUS
<1>1. ASSUME NEW c \in Calls, Enqueue(c) PROVE DurableInv'
  BY <1>1, EnqueueKeepsDurable
<1>2. ASSUME NEW m \in Msg, SaveRow(m) PROVE DurableInv'
  <2>1. /\ m \in saving /\ saving' = saving \ {m}
        /\ DOMAIN disk' = DOMAIN disk \cup {m}
        /\ fate' = [fate EXCEPT ![m] = IF @ = "queued" THEN "stored" ELSE @]
        /\ UNCHANGED <<phase, records, jobs, sent>>
    BY <1>2 DEF SaveRow
  <2>2. \A x \in Msg : fate'[x] = IF x = m /\ fate[x] = "queued" THEN "stored" ELSE fate[x]
    BY <2>1 DEF TypeOK
  <2>3. StoredHasRow'
    BY <2>1, <2>2 DEF DurableInv, StoredHasRow
  <2>4. StoredIsQueued'
    BY <2>1, <2>2 DEF DurableInv, StoredIsQueued
  <2>5. \A j \in jobs : j.id \in Msg
    BY DEF TypeOK, Job
  <2>6. \A x \in records \cup saving \cup DOMAIN disk : x \in Msg
    BY DEF TypeOK
  <2>7. fate[m] # "unsent"
    BY <2>1 DEF DurableInv
  <2> QED BY <2>1, <2>2, <2>3, <2>4, <2>5, <2>6, <2>7 DEF DurableInv
<1>3. ASSUME NEW m \in Msg, SaveRowFails(m) PROVE DurableInv'
  BY <1>3, PatchesKeepDurable DEF SaveRowFails, past
<1>4. ASSUME NEW m \in Msg, Tick(m) PROVE DurableInv'
  BY <1>4, PatchesKeepDurable DEF Tick, past
<1>5. ASSUME NEW j \in jobs, JobDone(j) PROVE DurableInv'
  <2>1. /\ jobs' \subseteq jobs
        /\ DOMAIN disk' = IF j.col = "row" THEN DOMAIN disk \ {j.id} ELSE DOMAIN disk
        /\ UNCHANGED <<phase, records, saving, fate, sent>>
    BY <1>5 DEF JobDone, past
  <2>2. StoredHasRow'
    BY <2>1 DEF DurableInv, StoredHasRow
  <2> QED BY <2>1, <2>2 DEF DurableInv, StoredIsQueued
<1>6. ASSUME NEW j \in jobs, JobFails(j) PROVE DurableInv'
  BY <1>6, PatchesKeepDurable DEF JobFails, past
<1>7. CASE PumpOnce
  <2>1. PICK r0, S, late : FailEntries(r0, S, BackOffPatches(late))
    BY <1>7, Zenon DEF PumpOnce
  <2>2. /\ phase = "running"
        /\ saving' \subseteq saving \cup records'
        /\ UNCHANGED <<phase, disk, sent>>
    BY <1>7 DEF PumpOnce
  <2> QED BY <2>1, <2>2, BackOffPatchesKeepRows, FailEntriesKeepsDurable
<1>8. CASE CloseBatch
  BY <1>8, PatchesKeepDurable DEF CloseBatch, past
<1>9. CASE BeginDispatch
  BY <1>9, PatchesKeepDurable DEF BeginDispatch
<1>10. CASE EndDispatch
  BY <1>10, RegisterAckKeepsDurable DEF EndDispatch
<1>11. CASE Post
  <2>1. PICK f, S : jobs' = jobs \cup {PatchRow(m, "attempts", f[m]) : m \in S}
    BY <1>11, Zenon DEF Post
  <2>2. \A j \in jobs' : j \in jobs \/ j.col # "row"
    BY <2>1 DEF PatchRow
  <2>3. UNCHANGED <<phase, records, saving, disk, fate, sent>>
    BY <1>11 DEF Post
  <2> QED BY <2>2, <2>3, PatchesKeepDurable
<1>12. CASE PostOk
  BY <1>12, RegisterAckKeepsDurable DEF PostOk
<1>13. CASE PostNetworkError
  <2>1. PICK r0, S, late : FailEntries(r0, S, BackOffPatches(late))
    BY <1>13, Zenon DEF PostNetworkError
  <2>2. UNCHANGED <<phase, saving, disk, sent>>
    BY <1>13 DEF PostNetworkError
  <2> QED BY <2>1, <2>2, BackOffPatchesKeepRows, FailEntriesKeepsDurable
<1>14. CASE PostRejected
  <2>1. PICK patches : patches = {} /\ FailEntries(rec, pump.batch, patches)
    BY <1>14 DEF PostRejected
  <2>2. UNCHANGED <<phase, saving, disk, sent>>
    BY <1>14 DEF PostRejected
  <2> QED BY <2>1, <2>2, FailEntriesKeepsDurable
<1>15. ASSUME NEW n \in Nodes, Poll(n) PROVE DurableInv'
  <2>1. \A j \in jobs' : j \in jobs \/ j.col # "row"
    <3>1. PICK r, S : jobs' = jobs \cup {PatchRow(m, "attempts", r[m].attempts) : m \in S}
      BY <1>15, Zenon DEF Poll
    <3> QED BY <3>1 DEF PatchRow
  <2>2. UNCHANGED <<phase, records, saving, disk, fate, sent>>
    BY <1>15 DEF Poll
  <2> QED BY <2>1, <2>2, PatchesKeepDurable
<1>16. ASSUME NEW n \in Nodes, Ack(n) PROVE DurableInv'
  BY <1>16, RegisterAckKeepsDurable DEF Ack
<1>17. ASSUME NEW g \in Grp, Age(g) PROVE DurableInv'
  BY <1>17, PatchesKeepDurable DEF Age, mem, past
<1>18. ASSUME LoseMemory PROVE DurableInv'
  BY <1>18 DEF LoseMemory, DurableInv, StoredHasRow, StoredIsQueued, past
<1>19. CASE Crash
  BY <1>18, <1>19 DEF Crash
<1>20. CASE Cleanup
  BY <1>18, <1>20 DEF Cleanup
<1>21. CASE Recover
  BY <1>21, RecoverKeepsDurable
<1>22. CASE UNCHANGED vars
  BY <1>22, PatchesKeepDurable DEF vars, mem, past
<1> QED
  BY <1>1, <1>2, <1>3, <1>4, <1>5, <1>6, <1>7, <1>8, <1>9, <1>10, <1>11, <1>12, <1>13, <1>14,
     <1>15, <1>16, <1>17, <1>19, <1>20, <1>21, <1>22 DEF Next, PumpStep

-----------------------------------------------------------------------------
(* Types and durability *)

\* The type invariant of the delivery core holds in every reachable state.
THEOREM TypeCorrect == Spec => []TypeOK
BY InitType, StepType, PTL DEF Spec

\* Why nothing written to the outbox is lost, for any number of messages,
\* crashes, failed row writes and reorderings of the background writes.
THEOREM DurableAlways == Spec => []DurableInv
BY TypeCorrect, InitDurable, StepDurable, PTL DEF Spec

\* A message whose row was written keeps its row until it is settled or
\* evicted (_save_row, _drop_row, _recover).
THEOREM StoredKeepsRow == Spec => []StoredHasRow
<1>1. DurableInv => StoredHasRow
  BY DEF DurableInv
<1> QED BY <1>1, DurableAlways, PTL

\* ... and is in the queue of every running incarnation of the service, so the
\* pump and the pollers go on trying (_recover, _enqueue, _finish_group).
THEOREM StoredStaysQueued == Spec => []StoredIsQueued
<1>1. DurableInv => StoredIsQueued
  BY DEF DurableInv
<1> QED BY <1>1, DurableAlways, PTL

-----------------------------------------------------------------------------
(* Sums *)

\* A set of numbers that is not empty has a least element.
LEMMA LeastNumber ==
  ASSUME NEW T \in SUBSET Nat, T # {}
  PROVE  \E x \in T : \A y \in T : x <= y
<1> DEFINE R == {ss \in Nat \X Nat : ss[1] < ss[2]}
<1>1. IsWellFoundedOn(R, Nat)
  BY NatLessThanWellFounded, Zenon DEF OpToRel
<1>2. \A a, b \in Nat : a < b => <<a, b>> \in R
  OBVIOUS
<1> HIDE DEF R
<1>3. PICK x \in T : \A y \in T : <<y, x>> \notin R
  BY <1>1, WFMin, Zenon
<1>4. \A y \in T : x <= y
  <2> SUFFICES ASSUME NEW y \in T PROVE x <= y
    OBVIOUS
  <2>1. ~(y < x)
    BY <1>2, <1>3
  <2> QED BY <2>1
<1> QED BY <1>4

Some(s) == CHOOSE x \in s : TRUE
Rest(s) == s \ {Some(s)}

LEMMA SomeIn == ASSUME NEW s, s # {} PROVE Some(s) \in s
<1>1. \E x \in s : TRUE
  OBVIOUS
<1> QED BY <1>1, Zenon DEF Some

\* h is the sum of f over the set s, if it is over the rest of it.
Sums(h, f, s) == h[s] = IF s = {} THEN 0 ELSE f[Some(s)] + h[Rest(s)]
IsSum(h, f, S) == h = [s \in SUBSET S |-> IF s = {} THEN 0 ELSE f[Some(s)] + h[Rest(s)]]

LEMMA TotalIs == ASSUME NEW f, NEW S PROVE Total(f, S) = (CHOOSE h : IsSum(h, f, S))[S]
BY Zenon DEF Total, MapThenSumSet, MapThenFoldSet, IsSum, Some, Rest

LEMMA SmallerRest ==
  ASSUME NEW s, IsFiniteSet(s), s # {}, NEW x \in s
  PROVE  /\ IsFiniteSet(s \ {x})
         /\ Cardinality(s) \in Nat
         /\ Cardinality(s \ {x}) \in Nat
         /\ Cardinality(s \ {x}) < Cardinality(s)
<1>1. IsFiniteSet(s \ {x}) /\ Cardinality(s \ {x}) = Cardinality(s) - 1
  BY FS_RemoveElement
<1>2. Cardinality(s) \in Nat /\ Cardinality(s \ {x}) \in Nat
  BY <1>1, FS_CardinalityType
<1> QED BY <1>1, <1>2

LEMMA SumExists ==
  ASSUME NEW f, NEW S, IsFiniteSet(S)
  PROVE  \E h : IsSum(h, f, S)
<1> DEFINE Upto(h, n) == \A s \in SUBSET S : Cardinality(s) <= n => Sums(h, f, s)
           bad == {n \in Nat : ~ \E h : Upto(h, n)}
<1>1. \A s \in SUBSET S : IsFiniteSet(s) /\ Cardinality(s) \in Nat
  BY FS_Subset, FS_CardinalityType
<1>2. \E h : Upto(h, 0)
  <2> DEFINE h == [s \in SUBSET S |-> 0]
  <2>1. \A s \in SUBSET S : Cardinality(s) <= 0 => s = {}
    BY <1>1, FS_EmptySet
  <2>2. Upto(h, 0)
    BY <2>1 DEF Sums
  <2> HIDE DEF h
  <2> QED BY <2>2
<1>3. ASSUME NEW n \in Nat, NEW k, Upto(k, n) PROVE \E h : Upto(h, n + 1)
  <2> DEFINE h == [s \in SUBSET S |-> IF s = {} THEN 0 ELSE f[Some(s)] + k[Rest(s)]]
  <2>1. \A s \in SUBSET S : Cardinality(s) <= n => h[s] = k[s]
    BY <1>3 DEF Sums
  <2>2. ASSUME NEW s \in SUBSET S, Cardinality(s) <= n + 1 PROVE Sums(h, f, s)
    <3>1. CASE s = {}
      BY <3>1 DEF Sums
    <3>2. CASE s # {}
      <4>1. Rest(s) \in SUBSET S /\ Cardinality(Rest(s)) <= n
        BY <1>1, <2>2, <3>2, SomeIn, SmallerRest DEF Rest
      <4>2. h[Rest(s)] = k[Rest(s)]
        BY <2>1, <4>1
      <4>3. h[s] = f[Some(s)] + k[Rest(s)]
        BY <3>2
      <4> HIDE DEF h
      <4> QED BY <3>2, <4>2, <4>3 DEF Sums
    <3> QED BY <3>1, <3>2
  <2> HIDE DEF h
  <2> QED BY <2>2
<1>4. bad = {}
  <2> SUFFICES ASSUME bad # {} PROVE FALSE
    OBVIOUS
  <2> HIDE DEF Upto
  <2>1. PICK n \in bad : \A y \in bad : n <= y
    BY LeastNumber
  <2>2. n # 0 /\ n \in Nat
    BY <1>2
  <2>3. n - 1 \in Nat /\ n - 1 \notin bad
    BY <2>1, <2>2
  <2>4. PICK k : Upto(k, n - 1)
    BY <2>3
  <2>5. \E h : Upto(h, (n - 1) + 1)
    BY <1>3, <2>3, <2>4
  <2> QED BY <2>2, <2>5
<1>5. PICK k : Upto(k, Cardinality(S))
  <2> HIDE DEF Upto
  <2> QED BY <1>1, <1>4
<1>6. \A s \in SUBSET S : Sums(k, f, s)
  <2>1. \A s \in SUBSET S : Cardinality(s) <= Cardinality(S)
    BY FS_Subset
  <2> QED BY <1>5, <2>1
<1> DEFINE h == [s \in SUBSET S |-> k[s]]
<1>7. \A s \in SUBSET S : h[s] = k[s] /\ Rest(s) \in SUBSET S
  BY DEF Rest
<1>8. h = [s \in SUBSET S |-> IF s = {} THEN 0 ELSE f[Some(s)] + h[Rest(s)]]
  BY <1>6, <1>7 DEF Sums
<1> HIDE DEF h
<1> QED BY <1>8 DEF IsSum

LEMMA SumUnique ==
  ASSUME NEW f, NEW S, IsFiniteSet(S), NEW T \in SUBSET S, NEW h, NEW k, IsSum(h, f, S), IsSum(k, f, T)
  PROVE  h[T] = k[T]
<1> DEFINE bad == {s \in SUBSET T : h[s] # k[s]}
           sizes == {Cardinality(s) : s \in bad}
<1>1. \A s \in SUBSET T : IsFiniteSet(s) /\ Cardinality(s) \in Nat
  BY FS_Subset, FS_CardinalityType
<1>2. \A s \in SUBSET T : Sums(h, f, s) /\ Sums(k, f, s)
  BY DEF Sums, IsSum
<1>3. bad = {}
  <2> SUFFICES ASSUME bad # {} PROVE FALSE
    OBVIOUS
  <2>1. sizes \in SUBSET Nat /\ sizes # {}
    BY <1>1
  <2>2. PICK n \in sizes : \A y \in sizes : n <= y
    BY <2>1, LeastNumber
  <2>3. PICK s \in bad : n = Cardinality(s)
    OBVIOUS
  <2>4. s # {}
    BY <1>2 DEF Sums
  <2>5. Rest(s) \in SUBSET T /\ Cardinality(Rest(s)) < Cardinality(s) /\ Cardinality(Rest(s)) \in Nat
    BY <1>1, <2>4, SomeIn, SmallerRest DEF Rest
  <2>6. Rest(s) \notin bad
    <3> SUFFICES ASSUME Rest(s) \in bad PROVE FALSE
      OBVIOUS
    <3>1. Cardinality(Rest(s)) \in sizes
      OBVIOUS
    <3> HIDE DEF sizes
    <3> QED BY <1>1, <2>2, <2>3, <2>5, <3>1
  <2>7. h[Rest(s)] = k[Rest(s)]
    BY <2>5, <2>6
  <2> QED BY <1>2, <2>3, <2>4, <2>7 DEF Sums
<1> QED BY <1>3

LEMMA TotalUnfolds ==
  ASSUME NEW f, NEW S, IsFiniteSet(S)
  PROVE  Total(f, S) = IF S = {} THEN 0 ELSE f[Some(S)] + Total(f, Rest(S))
<1> DEFINE h == CHOOSE h : IsSum(h, f, S)
           k == CHOOSE k : IsSum(k, f, Rest(S))
<1>1. Rest(S) \in SUBSET S /\ IsFiniteSet(Rest(S))
  BY FS_Subset DEF Rest
<1>2. IsSum(h, f, S)
  BY SumExists, Zenon
<1>3. IsSum(k, f, Rest(S))
  BY <1>1, SumExists, Zenon
<1>4. Total(f, S) = h[S]
  BY TotalIs
<1>5. Total(f, Rest(S)) = k[Rest(S)]
  BY TotalIs
<1> HIDE DEF h, k
<1>6. h[Rest(S)] = k[Rest(S)]
  BY <1>1, <1>2, <1>3, SumUnique
<1>7. h[S] = IF S = {} THEN 0 ELSE f[Some(S)] + h[Rest(S)]
  BY <1>2 DEF IsSum
<1> QED BY <1>4, <1>5, <1>6, <1>7

\* The least counterexample among the subsets of a finite set.
LEMMA LeastSet ==
  ASSUME NEW S, IsFiniteSet(S), NEW bad \in SUBSET SUBSET S, bad # {}
  PROVE  \E s \in bad : IsFiniteSet(s) /\ \A x \in s : s \ {x} \notin bad
<1> DEFINE sizes == {Cardinality(s) : s \in bad}
<1>1. \A s \in bad : IsFiniteSet(s) /\ Cardinality(s) \in Nat
  BY FS_Subset, FS_CardinalityType
<1>2. sizes \in SUBSET Nat /\ sizes # {}
  BY <1>1
<1>3. PICK n \in sizes : \A y \in sizes : n <= y
  BY <1>2, LeastNumber
<1>4. PICK s \in bad : n = Cardinality(s)
  OBVIOUS
<1>5. ASSUME NEW x \in s, s \ {x} \in bad PROVE FALSE
  <2>1. Cardinality(s \ {x}) \in sizes
    BY <1>5
  <2> HIDE DEF sizes
  <2>2. n <= Cardinality(s \ {x})
    BY <1>3, <2>1
  <2>3. Cardinality(s \ {x}) < Cardinality(s) /\ Cardinality(s) \in Nat /\ Cardinality(s \ {x}) \in Nat
    BY <1>1, SmallerRest
  <2> QED BY <1>4, <2>2, <2>3
<1> QED BY <1>1, <1>5

LEMMA TotalType ==
  ASSUME NEW f, NEW S, IsFiniteSet(S), \A x \in S : f[x] \in Nat
  PROVE  Total(f, S) \in Nat
<1> DEFINE bad == {s \in SUBSET S : Total(f, s) \notin Nat}
<1>1. bad = {}
  <2> SUFFICES ASSUME bad # {} PROVE FALSE
    OBVIOUS
  <2>1. PICK s \in bad : IsFiniteSet(s) /\ \A x \in s : s \ {x} \notin bad
    BY LeastSet
  <2>2. s # {}
    BY <2>1, TotalUnfolds
  <2>3. Some(s) \in s /\ Total(f, Rest(s)) \in Nat
    BY <2>1, <2>2, SomeIn DEF Rest
  <2>4. Total(f, s) = f[Some(s)] + Total(f, Rest(s))
    BY <2>1, <2>2, TotalUnfolds
  <2> HIDE DEF bad
  <2>5. f[Some(s)] \in Nat
    BY <2>3 DEF bad
  <2>6. Total(f, s) \in Nat
    BY <2>3, <2>4, <2>5
  <2> QED BY <2>6 DEF bad
<1> QED BY <1>1

\* The order in which elements are taken out does not matter.
LEMMA TotalSplits ==
  ASSUME NEW f, NEW S, IsFiniteSet(S), \A x \in S : f[x] \in Nat, NEW x \in S
  PROVE  Total(f, S) = f[x] + Total(f, S \ {x})
<1> DEFINE bad == {s \in SUBSET S : \E y \in s : Total(f, s) # f[y] + Total(f, s \ {y})}
<1>1. bad = {}
  <2> SUFFICES ASSUME bad # {} PROVE FALSE
    OBVIOUS
  <2>1. PICK s \in bad : IsFiniteSet(s) /\ \A y \in s : s \ {y} \notin bad
    BY LeastSet
  <2>2. PICK y \in s : Total(f, s) # f[y] + Total(f, s \ {y})
    OBVIOUS
  <2> DEFINE z == Some(s)
  <2>3. s # {} /\ z \in s /\ s \subseteq S
    BY SomeIn
  <2>4. Total(f, s) = f[z] + Total(f, s \ {z})
    BY <2>1, <2>3, TotalUnfolds DEF Rest
  <2> HIDE DEF z
  <2>5. y # z
    BY <2>2, <2>4
  <2>6. s \ {z} \notin bad /\ s \ {y} \notin bad
    BY <2>1, <2>3
  <2>7. Total(f, s \ {z}) = f[y] + Total(f, (s \ {z}) \ {y})
    BY <2>3, <2>5, <2>6
  <2>8. Total(f, s \ {y}) = f[z] + Total(f, (s \ {y}) \ {z})
    BY <2>3, <2>5, <2>6
  <2>9. (s \ {z}) \ {y} = (s \ {y}) \ {z}
    OBVIOUS
  <2> DEFINE t == Total(f, (s \ {y}) \ {z})
  <2>10. t \in Nat
    <3>1. IsFiniteSet((s \ {y}) \ {z})
      BY <2>1, FS_Subset
    <3> QED BY <2>3, <3>1, TotalType
  <2>11. f[y] \in Nat /\ f[z] \in Nat
    BY <2>3
  <2>12. Total(f, s) = f[z] + (f[y] + t) /\ Total(f, s \ {y}) = f[z] + t
    BY <2>4, <2>7, <2>8, <2>9
  <2> HIDE DEF t, bad
  <2> QED BY <2>2, <2>10, <2>11, <2>12
<1> QED BY <1>1

\* A sum grows with its summands and with its set.
LEMMA TotalMonotone ==
  ASSUME NEW f, NEW S, IsFiniteSet(S), \A x \in S : f[x] \in Nat,
         NEW g, NEW T, IsFiniteSet(T), \A x \in T : g[x] \in Nat,
         \A x \in S : (x \in T /\ f[x] <= g[x]) \/ f[x] = 0
  PROVE  Total(f, S) <= Total(g, T)
<1> DEFINE bad == {s \in SUBSET S : \E t \in SUBSET T :
                     /\ \A x \in s : (x \in t /\ f[x] <= g[x]) \/ f[x] = 0
                     /\ ~(Total(f, s) <= Total(g, t))}
<1>1. bad = {}
  <2> SUFFICES ASSUME bad # {} PROVE FALSE
    OBVIOUS
  <2>1. PICK s \in bad : IsFiniteSet(s) /\ \A y \in s : s \ {y} \notin bad
    BY LeastSet
  <2>2. PICK t \in SUBSET T : /\ \A x \in s : (x \in t /\ f[x] <= g[x]) \/ f[x] = 0
                              /\ ~(Total(f, s) <= Total(g, t))
    OBVIOUS
  <2>3. s \subseteq S /\ IsFiniteSet(t)
    BY FS_Subset
  <2>4. Total(g, t) \in Nat /\ Total(f, s) \in Nat
    BY <2>1, <2>3, TotalType
  <2>5. s # {}
    <3> SUFFICES ASSUME s = {} PROVE FALSE
      OBVIOUS
    <3>1. Total(f, s) = 0
      BY <2>1, TotalUnfolds
    <3> QED BY <2>2, <2>4, <3>1
  <2>6. PICK x \in s : TRUE
    BY <2>5
  <2>7. Total(f, s) = f[x] + Total(f, s \ {x}) /\ Total(f, s \ {x}) \in Nat
    <3>1. IsFiniteSet(s \ {x})
      BY <2>1, FS_Subset
    <3>2. \A y \in s : f[y] \in Nat
      BY <2>3
    <3> QED BY <2>1, <3>1, <3>2, TotalSplits, TotalType
  <2>8. s \ {x} \notin bad /\ s \ {x} \in SUBSET S
    BY <2>1, <2>3
  <2>9. f[x] \in Nat
    BY <2>3
  <2>10. CASE f[x] = 0
    <3>1. Total(f, s \ {x}) <= Total(g, t)
      BY <2>2, <2>8
    <3> HIDE DEF bad
    <3> QED BY <2>2, <2>4, <2>7, <2>10, <3>1
  <2>11. CASE f[x] # 0
    <3>1. x \in t /\ f[x] <= g[x] /\ g[x] \in Nat
      BY <2>2, <2>11
    <3>2. Total(g, t) = g[x] + Total(g, t \ {x}) /\ Total(g, t \ {x}) \in Nat
      <4>1. IsFiniteSet(t \ {x})
        BY <2>3, FS_Subset
      <4>2. \A y \in t : g[y] \in Nat
        OBVIOUS
      <4> QED BY <2>3, <3>1, <4>1, <4>2, TotalSplits, TotalType
    <3>3. t \ {x} \in SUBSET T /\ \A y \in s \ {x} : (y \in t \ {x} /\ f[y] <= g[y]) \/ f[y] = 0
      BY <2>2
    <3>4. Total(f, s \ {x}) <= Total(g, t \ {x})
      BY <2>8, <3>3
    <3> HIDE DEF bad
    <3> QED BY <2>2, <2>4, <2>7, <2>9, <3>1, <3>2, <3>4
  <2> QED BY <2>10, <2>11
<1> QED BY <1>1

LEMMA TotalCovers ==
  ASSUME NEW f, NEW S, IsFiniteSet(S), \A x \in S : f[x] \in Nat, NEW x \in S
  PROVE  f[x] <= Total(f, S)
<1>1. IsFiniteSet(S \ {x})
  BY FS_Subset
<1>2. Total(f, S \ {x}) \in Nat /\ f[x] \in Nat
  BY <1>1, TotalType
<1>3. Total(f, S) = f[x] + Total(f, S \ {x})
  BY TotalSplits
<1> QED BY <1>2, <1>3

-----------------------------------------------------------------------------
(* What the operators that settle records make of the record objects *)

LEMMA RegisterAckEffect ==
  ASSUME TypeOK, NEW S \in SUBSET Msg, RegisterAck(S)
  PROVE  /\ wins' = BumpAll(wins, S)
         /\ \E r \in [Msg -> Record], done \in SUBSET Grp, patches \in SUBSET Job :
              /\ Finish(r, done, {}, patches)
              /\ \A m \in Msg :
                   /\ r[m].attempts = rec[m].attempts
                   /\ r[m].saved = rec[m].saved /\ r[m].saveFailed = rec[m].saveFailed
                   /\ m \in S /\ rec[m].state # "failed"
                        => r[m].acks = Bump(rec[m].acks) /\ r[m].state = "pending"
                   /\ ~(m \in S /\ rec[m].state # "failed") => r[m] = rec[m]
                   /\ m \in S /\ rec[m].state # "failed" /\ Enough(r, m) => GroupOf[m] \in done
              /\ \A g \in done : \E x \in S : rec[x].state # "failed" /\ GroupOf[x] = g /\ Enough(r, x)
              /\ \A j \in patches : j.col = "acks" /\ j.val = r[j.id].acks
<1> DEFINE A == {m \in S : rec[m].state # "failed"}
           r == [m \in Msg |->
                  IF m \in A
                  THEN [rec[m] EXCEPT !.acks = Bump(@), !.state = "pending", !.due = TRUE]
                  ELSE rec[m]]
           done == {GroupOf[m] : m \in {x \in A : Enough(r, x)}}
           again == {m \in A : GroupOf[m] \notin done}
           patches == {PatchRow(m, "acks", r[m].acks) : m \in Saved(r, again)}
<1>0. \A m \in Msg : rec[m] \in Record /\ rec[m].acks \in 0 .. CountBound
  BY DEF TypeOK, Record
<1>1. r \in [Msg -> Record]
  <2> SUFFICES ASSUME NEW m \in Msg PROVE r[m] \in Record
    OBVIOUS
  <2>1. rec[m] \in Record
    BY <1>0
  <2>2. Bump(rec[m].acks) \in 0 .. CountBound
    BY <1>0, BumpType
  <2>3. "pending" \in States
    BY DEF States
  <2> HIDE DEF A
  <2> QED BY <2>1, <2>2, <2>3 DEF Record
<1>2. \A m \in A : m \in Msg /\ r[m] = [rec[m] EXCEPT !.acks = Bump(@), !.state = "pending", !.due = TRUE]
  OBVIOUS
<1>3. \A m \in Msg \ A : r[m] = rec[m]
  OBVIOUS
<1>4. Finish(r, done, {}, patches) /\ wins' = BumpAll(wins, S)
  BY DEF RegisterAck
<1>5. done \in SUBSET Grp
  BY OutboxAssumption
<1>6. \A m \in A : Enough(r, m) => GroupOf[m] \in done
  OBVIOUS
<1>7. \A g \in done : \E x \in A : GroupOf[x] = g /\ Enough(r, x)
  OBVIOUS
<1> HIDE DEF r
<1>8. patches \in SUBSET Job /\ \A j \in patches : j.col = "acks" /\ j.val = r[j.id].acks
  <2>1. \A m \in Msg : r[m].acks \in 0 .. CountBound
    BY <1>1 DEF Record
  <2>2. Saved(r, again) \subseteq Msg
    BY DEF Saved
  <2> HIDE DEF again
  <2> QED BY <2>1, <2>2, PatchType DEF PatchRow
<1> HIDE DEF done, patches
<1>9. \A m \in A : /\ r[m].attempts = rec[m].attempts
                   /\ r[m].saved = rec[m].saved /\ r[m].saveFailed = rec[m].saveFailed
                   /\ r[m].acks = Bump(rec[m].acks) /\ r[m].state = "pending"
  <2> SUFFICES ASSUME NEW m \in A
               PROVE  /\ r[m].attempts = rec[m].attempts
                      /\ r[m].saved = rec[m].saved /\ r[m].saveFailed = rec[m].saveFailed
                      /\ r[m].acks = Bump(rec[m].acks) /\ r[m].state = "pending"
    OBVIOUS
  <2>1. rec[m] \in Record /\ r[m] = [rec[m] EXCEPT !.acks = Bump(@), !.state = "pending", !.due = TRUE]
    BY <1>0, <1>2
  <2> QED BY <2>1 DEF Record
<1>10. \A m \in Msg : m \in S /\ rec[m].state # "failed" <=> m \in A
  OBVIOUS
<1>11. \A m \in Msg :
         /\ r[m].attempts = rec[m].attempts
         /\ r[m].saved = rec[m].saved /\ r[m].saveFailed = rec[m].saveFailed
         /\ m \in A => r[m].acks = Bump(rec[m].acks) /\ r[m].state = "pending"
         /\ m \notin A => r[m] = rec[m]
         /\ m \in A /\ Enough(r, m) => GroupOf[m] \in done
  BY <1>3, <1>6, <1>9
<1>12. \A m \in Msg :
         /\ r[m].attempts = rec[m].attempts
         /\ r[m].saved = rec[m].saved /\ r[m].saveFailed = rec[m].saveFailed
         /\ m \in S /\ rec[m].state # "failed"
              => r[m].acks = Bump(rec[m].acks) /\ r[m].state = "pending"
         /\ ~(m \in S /\ rec[m].state # "failed") => r[m] = rec[m]
         /\ m \in S /\ rec[m].state # "failed" /\ Enough(r, m) => GroupOf[m] \in done
  <2> SUFFICES ASSUME NEW m \in Msg
               PROVE  /\ r[m].attempts = rec[m].attempts
                      /\ r[m].saved = rec[m].saved /\ r[m].saveFailed = rec[m].saveFailed
                      /\ m \in S /\ rec[m].state # "failed"
                           => r[m].acks = Bump(rec[m].acks) /\ r[m].state = "pending"
                      /\ ~(m \in S /\ rec[m].state # "failed") => r[m] = rec[m]
                      /\ m \in S /\ rec[m].state # "failed" /\ Enough(r, m) => GroupOf[m] \in done
    BY Zenon
  <2>1. (m \in S /\ rec[m].state # "failed") <=> m \in A
    BY <1>10
  <2> HIDE DEF A
  <2> QED BY <2>1, <1>11, Zenon
<1>13. \A g \in done : \E x \in S : rec[x].state # "failed" /\ GroupOf[x] = g /\ Enough(r, x)
  BY <1>7, Zenon
<1> QED BY <1>1, <1>4, <1>5, <1>8, <1>12, <1>13, Zenon

Failing(r0, S) == [m \in Msg |-> IF m \in S THEN [r0[m] EXCEPT !.state = "failed"] ELSE r0[m]]
Doomed(r0, S) == {GroupOf[m] : m \in {x \in S : Short(Failing(r0, S), x)}}

LEMMA FailEntriesEffect ==
  ASSUME NEW r0 \in [Msg -> Record], NEW S \in SUBSET Msg, NEW patches, FailEntries(r0, S, patches)
  PROVE  /\ Failing(r0, S) \in [Msg -> Record] /\ Doomed(r0, S) \in SUBSET Grp
         /\ Finish(Failing(r0, S), {}, Doomed(r0, S), patches)
         /\ \A m \in Msg :
              /\ Failing(r0, S)[m].attempts = r0[m].attempts
              /\ Failing(r0, S)[m].acks = r0[m].acks
              /\ Failing(r0, S)[m].saved = r0[m].saved
              /\ Failing(r0, S)[m].saveFailed = r0[m].saveFailed
              /\ Failing(r0, S)[m].state = IF m \in S THEN "failed" ELSE r0[m].state
         /\ \A m \in S : Short(Failing(r0, S), m) => GroupOf[m] \in Doomed(r0, S)
         /\ \A g \in Doomed(r0, S) : \E x \in S : GroupOf[x] = g /\ Short(Failing(r0, S), x)
<1> DEFINE r == Failing(r0, S)
<1>1. r \in [Msg -> Record]
  BY DEF Failing, Record, States
<1>2. Finish(r, {}, Doomed(r0, S), patches)
  BY DEF FailEntries, Doomed, Failing
<1>3. \A m \in Msg :
        /\ r[m].attempts = r0[m].attempts /\ r[m].acks = r0[m].acks
        /\ r[m].saved = r0[m].saved /\ r[m].saveFailed = r0[m].saveFailed
        /\ r[m].state = IF m \in S THEN "failed" ELSE r0[m].state
  <2> SUFFICES ASSUME NEW m \in Msg
               PROVE  /\ r[m].attempts = r0[m].attempts /\ r[m].acks = r0[m].acks
                      /\ r[m].saved = r0[m].saved /\ r[m].saveFailed = r0[m].saveFailed
                      /\ r[m].state = IF m \in S THEN "failed" ELSE r0[m].state
    OBVIOUS
  <2>1. r0[m] \in Record /\ r[m] = IF m \in S THEN [r0[m] EXCEPT !.state = "failed"] ELSE r0[m]
    BY DEF Failing
  <2> HIDE DEF r
  <2> QED BY <2>1 DEF Record
<1>4. Doomed(r0, S) \in SUBSET Grp
  BY OutboxAssumption DEF Doomed
<1>5. \A m \in S : Short(r, m) => GroupOf[m] \in Doomed(r0, S)
  BY DEF Doomed
<1>6. \A g \in Doomed(r0, S) : \E x \in S : GroupOf[x] = g /\ Short(r, x)
  BY DEF Doomed
<1> QED BY <1>1, <1>2, <1>3, <1>4, <1>5, <1>6

LEMMA BackOffEffect ==
  ASSUME TypeOK, NEW S \in SUBSET Msg
  PROVE  /\ \A m \in Msg :
              /\ BackOff(S)[m].attempts = rec[m].attempts /\ BackOff(S)[m].acks = rec[m].acks
              /\ BackOff(S)[m].saved = rec[m].saved /\ BackOff(S)[m].saveFailed = rec[m].saveFailed
              /\ BackOff(S)[m].state = IF m \in S /\ ~GivesUp(m) THEN "retry_wait" ELSE rec[m].state
         /\ \A j \in BackOffPatches(S) : j.col = "attempts"
<1> SUFFICES ASSUME NEW m \in Msg
             PROVE  /\ BackOff(S)[m].attempts = rec[m].attempts /\ BackOff(S)[m].acks = rec[m].acks
                    /\ BackOff(S)[m].saved = rec[m].saved /\ BackOff(S)[m].saveFailed = rec[m].saveFailed
                    /\ BackOff(S)[m].state = IF m \in S /\ ~GivesUp(m) THEN "retry_wait" ELSE rec[m].state
  BY DEF BackOffPatches, PatchRow
<1>1. rec[m] \in Record
  BY DEF TypeOK
<1>2. BackOff(S)[m] = IF m \in S /\ ~GivesUp(m)
                      THEN [rec[m] EXCEPT !.state = "retry_wait", !.due = FALSE] ELSE rec[m]
  BY DEF BackOff
<1> QED BY <1>1, <1>2 DEF Record

-----------------------------------------------------------------------------
(* A row before a request *)

\* Someone sees to the row of m, or it is there, or has been given up.
Kept(m) == m \in saving \/ rec[m].saved \/ rec[m].saveFailed

\* Why SavedBeforeSent holds: who is marked as saved has a row for as long as it is
\* queued, since only records that left the queue lose theirs; and whatever is queued
\* while the pump has a batch is kept.
SavedInv ==
  /\ phase = "opening" => /\ pump = IdlePump
                          /\ \A m \in Msg : ~rec[m].saved
                          /\ \A m \in records : fate[m] = "queued"
  /\ \A m \in records : rec[m].saved => m \in DOMAIN disk
  /\ \A j \in jobs : j.col = "row" => phase = "running" /\ j.id \notin records
  /\ pump.pc # "idle" => \A m \in records : MinSuccess[m] > 0 => Kept(m)

LEMMA InitSaved == Init => SavedInv
BY DEF Init, SavedInv, Fresh

\* Steps that leave queue and table alone.
LEMMA QueueKeepsSaved ==
  ASSUME TypeOK, SavedInv,
         \A m \in Msg : rec'[m].saved = rec[m].saved /\ rec'[m].saveFailed = rec[m].saveFailed,
         \A j \in jobs' : j \in jobs \/ j.col # "row",
         pump' = pump \/ (phase = "running" /\ (pump'.pc = "idle" \/ pump.pc # "idle")),
         UNCHANGED <<phase, records, saving, disk, fate>>
  PROVE  SavedInv'
<1>1. records \subseteq Msg
  BY DEF TypeOK
<1> QED BY <1>1 DEF SavedInv, Kept

LEMMA FinishKeepsSaved ==
  ASSUME TypeOK, SavedInv, phase = "running",
         NEW r, \A m \in Msg : r[m].saved = rec[m].saved /\ r[m].saveFailed = rec[m].saveFailed,
         NEW done, NEW failed, NEW patches, \A j \in patches : j.col # "row",
         Finish(r, done, failed, patches),
         UNCHANGED <<phase, disk>>,
         \/ pump'.pc = "idle"
         \/ pump.pc # "idle" /\ saving \subseteq saving'
         \/ \A m \in records' : MinSuccess[m] > 0 => Kept(m)'
  PROVE  SavedInv'
<1> DEFINE gone == {m \in records : GroupOf[m] \in done \cup failed}
<1>1. /\ records' = records \ gone
      /\ rec' = [m \in Msg |-> IF m \in gone THEN Fresh(m) ELSE r[m]]
      /\ jobs' = jobs \cup patches \cup {RemoveRow(m) : m \in Saved(r, gone)}
  BY DEF Finish, Remaining
<1>2. records \subseteq Msg
  BY DEF TypeOK
<1> HIDE DEF gone
<1>3. \A m \in records' : /\ m \in records
                          /\ rec'[m].saved = rec[m].saved /\ rec'[m].saveFailed = rec[m].saveFailed
  BY <1>1, <1>2
<1>4. \A j \in jobs' : j.col = "row" => phase' = "running" /\ j.id \notin records'
  <2> SUFFICES ASSUME NEW j \in jobs', j.col = "row" PROVE j.id \notin records'
    OBVIOUS
  <2>1. CASE j \in jobs
    BY <1>1, <2>1 DEF SavedInv
  <2>2. CASE j \in {RemoveRow(m) : m \in Saved(r, gone)}
    BY <1>1, <2>2 DEF RemoveRow, Saved
  <2> QED BY <1>1, <2>1, <2>2
<1>5. \A m \in records' : rec'[m].saved => m \in DOMAIN disk'
  BY <1>3 DEF SavedInv
<1>6. pump'.pc # "idle" => \A m \in records' : MinSuccess[m] > 0 => Kept(m)'
  BY <1>3 DEF SavedInv, Kept
<1> QED BY <1>4, <1>5, <1>6 DEF SavedInv

LEMMA RegisterAckKeepsSaved ==
  ASSUME TypeOK, SavedInv, phase = "running", NEW S \in SUBSET Msg, RegisterAck(S),
         UNCHANGED <<phase, saving, disk>>, pump' = pump \/ pump'.pc = "idle" \/ pump.pc # "idle"
  PROVE  SavedInv'
<1>1. PICK r \in [Msg -> Record], done \in SUBSET Grp, patches \in SUBSET Job :
        /\ Finish(r, done, {}, patches)
        /\ \A m \in Msg : r[m].saved = rec[m].saved /\ r[m].saveFailed = rec[m].saveFailed
        /\ \A j \in patches : j.col # "row"
  BY RegisterAckEffect
<1>2. \/ pump'.pc = "idle"
      \/ pump.pc # "idle" /\ saving \subseteq saving'
  OBVIOUS
<1> QED BY <1>1, <1>2, FinishKeepsSaved

LEMMA FailEntriesKeepsSaved ==
  ASSUME TypeOK, SavedInv, phase = "running", NEW r0 \in [Msg -> Record],
         \A m \in Msg : r0[m].saved = rec[m].saved /\ r0[m].saveFailed = rec[m].saveFailed,
         NEW S \in SUBSET Msg, NEW patches, \A j \in patches : j.col # "row",
         FailEntries(r0, S, patches),
         UNCHANGED <<phase, disk>>,
         \/ pump'.pc = "idle"
         \/ \A m \in records' : MinSuccess[m] > 0 => Kept(m)'
  PROVE  SavedInv'
<1>1. \A m \in Msg : /\ Failing(r0, S)[m].saved = rec[m].saved
                     /\ Failing(r0, S)[m].saveFailed = rec[m].saveFailed
  BY FailEntriesEffect
<1>2. Finish(Failing(r0, S), {}, Doomed(r0, S), patches)
  BY FailEntriesEffect
<1> QED BY <1>1, <1>2, FinishKeepsSaved

LEMMA EnqueueKeepsSaved ==
  ASSUME TypeOK, DurableInv, SavedInv, NEW c \in Calls, Enqueue(c)
  PROVE  SavedInv'
<1> DEFINE new == {c[i] : i \in DOMAIN c}
           order == [m \in Msg |-> IF m \in new THEN clock + (CHOOSE i \in DOMAIN c : c[i] = m)
                                                 ELSE stamp[m]]
           all == records \cup new
           kept == Newest(all, order, QueueMax)
           evicted == all \ kept
<1>1. /\ c \notin sent
      /\ records' = kept
      /\ rec' = [m \in Msg |-> IF m \in new THEN Fresh(m)
                               ELSE IF m \in evicted THEN [rec[m] EXCEPT !.saved = FALSE]
                               ELSE rec[m]]
      /\ saving' = IF phase = "running" THEN saving \cup {m \in new : MinSuccess[m] > 0}
                                        ELSE saving
      /\ jobs' = jobs \cup {RemoveRow(m) : m \in Saved(rec, evicted)}
      /\ fate' = [m \in Msg |-> IF m \in evicted THEN "dropped"
                                ELSE IF m \in new THEN "queued" ELSE fate[m]]
      /\ UNCHANGED <<phase, disk, pump>>
  BY DEF Enqueue
<1>2. kept \subseteq all
  BY DEF Newest
<1>3. \A m \in new : m \in Msg
  <2>1. c \in Seq(Msg)
    BY OutboxAssumption
  <2>2. \A q \in Seq(Msg) : \A i \in DOMAIN q : q[i] \in Msg
    OBVIOUS
  <2> QED BY <2>1, <2>2
<1>4. \A m \in new : fate[m] = "unsent"
  <2> SUFFICES ASSUME NEW m \in new, fate[m] # "unsent" PROVE FALSE
    OBVIOUS
  <2>1. PICK d \in sent : \E i \in DOMAIN d : d[i] = m
    BY <1>3 DEF DurableInv
  <2>2. d \in Calls /\ \E i \in DOMAIN c : c[i] = m
    BY DEF TypeOK
  <2>3. c = d
    BY <2>1, <2>2, FreshIdsAssumption
  <2> QED BY <1>1, <2>3
<1>5. records \subseteq Msg
  BY DEF TypeOK
<1> HIDE DEF new, kept
<1>6. ASSUME NEW m \in Msg, m \in evicted, m \notin new PROVE ~rec'[m].saved
  <2>1. rec[m] \in Record /\ rec'[m] = [rec[m] EXCEPT !.saved = FALSE]
    BY <1>1, <1>6 DEF TypeOK
  <2> HIDE DEF evicted
  <2> QED BY <2>1 DEF Record
<1>7. \A m \in new : ~rec'[m].saved
  BY <1>1, <1>3 DEF Fresh
<1>8. \A m \in Msg : m \notin new /\ m \notin evicted => rec'[m] = rec[m]
  BY <1>1
<1>9. phase' = "opening" => /\ pump' = IdlePump
                            /\ \A m \in Msg : ~rec'[m].saved
                            /\ \A m \in records' : fate'[m] = "queued"
  <2>1. \A m \in records' : m \in Msg /\ (m \in new \/ m \in records) /\ m \notin evicted
    BY <1>1, <1>2, <1>3, <1>5
  <2>2. \A m \in records' : fate'[m] = IF m \in new THEN "queued" ELSE fate[m]
    BY <1>1, <2>1
  <2>3. phase = "opening" => \A m \in Msg : ~rec'[m].saved
    BY <1>6, <1>7, <1>8 DEF SavedInv
  <2> QED BY <1>1, <2>1, <2>2, <2>3 DEF SavedInv
<1>10. \A m \in records' : rec'[m].saved => m \in DOMAIN disk'
  BY <1>1, <1>2, <1>5, <1>7, <1>8 DEF SavedInv
<1>11. \A j \in jobs' : j.col = "row" => phase' = "running" /\ j.id \notin records'
  <2> SUFFICES ASSUME NEW j \in jobs', j.col = "row" PROVE phase = "running" /\ j.id \notin kept
    BY <1>1
  <2>1. CASE j \in jobs
    <3>1. phase = "running" /\ j.id \notin records
      BY <2>1 DEF SavedInv
    <3>2. fate[j.id] # "unsent"
      BY <2>1 DEF DurableInv
    <3> QED BY <1>2, <1>4, <3>1, <3>2
  <2>2. CASE j \in {RemoveRow(m) : m \in Saved(rec, evicted)}
    <3>1. j.id \in evicted /\ j.id \in Msg /\ rec[j.id].saved
      BY <2>2, <1>3, <1>5 DEF RemoveRow, Saved
    <3>2. phase # "opening"
      BY <3>1 DEF SavedInv
    <3> QED BY <3>1, <3>2 DEF TypeOK
  <2> QED BY <1>1, <2>1, <2>2
<1>12. pump'.pc # "idle" => \A m \in records' : MinSuccess[m] > 0 => Kept(m)'
  <2> SUFFICES ASSUME pump.pc # "idle", NEW m \in kept, MinSuccess[m] > 0 PROVE Kept(m)'
    BY <1>1
  <2>1. phase = "running"
    BY DEF SavedInv, IdlePump, TypeOK
  <2>2. CASE m \in new
    BY <1>1, <2>1, <2>2 DEF Kept
  <2>3. CASE m \notin new
    <3>1. m \in records /\ m \in Msg /\ m \notin evicted
      BY <1>2, <1>5, <2>3
    <3>2. rec'[m] = rec[m]
      BY <1>8, <2>3, <3>1
    <3> QED BY <1>1, <3>1, <3>2 DEF SavedInv, Kept
  <2> QED BY <2>2, <2>3
<1> QED BY <1>9, <1>10, <1>11, <1>12 DEF SavedInv

LEMMA RecoverKeepsSaved ==
  ASSUME TypeOK, DurableInv, SavedInv, Recover
  PROVE  SavedInv'
<1> DEFINE keep == {m \in DOMAIN disk : GroupOf[m] \notin aged}
           old == {m \in DOMAIN disk : GroupOf[m] \in aged}
<1>1. /\ phase = "opening"
      /\ phase' = "running"
      /\ records' = records \cup keep
      /\ rec' = [m \in Msg |-> IF m \in keep THEN Revive(m) ELSE rec[m]]
      /\ jobs' = jobs \cup {RemoveRow(m) : m \in old}
      /\ UNCHANGED <<disk, pump>>
  BY DEF Recover, Revived
<1>2. DOMAIN disk \subseteq Msg /\ records \subseteq Msg
  BY DEF TypeOK
<1>3. \A m \in records : m \notin DOMAIN disk
  <2>0. phase = "opening"
    BY DEF Recover
  <2>1. \A m \in records : fate[m] = "queued"
    BY <2>0 DEF SavedInv
  <2>2. \A m \in DOMAIN disk : fate[m] \notin {"unsent", "queued"}
    BY DEF DurableInv
  <2> QED BY <2>1, <2>2
<1> HIDE DEF keep, old
<1>4. keep \subseteq DOMAIN disk /\ old \subseteq DOMAIN disk /\ keep \cap old = {}
  BY DEF keep, old
<1>5. \A m \in records' : rec'[m].saved => m \in DOMAIN disk'
  BY <1>1, <1>2, <1>4 DEF SavedInv
<1>6. \A j \in jobs' : j.col = "row" => phase' = "running" /\ j.id \notin records'
  <2> SUFFICES ASSUME NEW j \in jobs', j.col = "row" PROVE j.id \notin records \cup keep
    BY <1>1
  <2>1. CASE j \in jobs
    BY <1>1, <2>1 DEF SavedInv
  <2>2. CASE j \in {RemoveRow(m) : m \in old}
    <3>1. j.id \in old
      BY <2>2 DEF RemoveRow
    <3> QED BY <3>1, <1>3, <1>4
  <2> QED BY <1>1, <2>1, <2>2
<1>7. pump'.pc = "idle"
  BY <1>1 DEF SavedInv, IdlePump
<1> QED BY <1>1, <1>5, <1>6, <1>7 DEF SavedInv

LEMMA SaveRowKeepsSaved ==
  ASSUME TypeOK, DurableInv, SavedInv, NEW m \in Msg, SaveRow(m)
  PROVE  SavedInv'
<1>1. /\ m \in saving /\ saving' = saving \ {m}
      /\ rec' = [rec EXCEPT ![m].saved = TRUE]
      /\ UNCHANGED <<phase, records, jobs, pump>>
  BY DEF SaveRow
<1>2. DOMAIN disk' = DOMAIN disk \cup {m}
  BY DEF SaveRow
<1>3. rec'[m].saved
  <2>1. rec[m] \in Record /\ rec'[m] = [rec[m] EXCEPT !.saved = TRUE]
    BY <1>1 DEF TypeOK
  <2> QED BY <2>1 DEF Record
<1>4. \A x \in Msg : x # m => rec'[x] = rec[x]
  BY <1>1 DEF TypeOK
<1>5. phase = "running" /\ records \subseteq Msg
  BY <1>1 DEF DurableInv, TypeOK
<1> QED BY <1>1, <1>2, <1>3, <1>4, <1>5 DEF SavedInv, Kept

LEMMA StepSaved == TypeOK /\ DurableInv /\ SavedInv /\ [Next]_vars => SavedInv'
<1> SUFFICES ASSUME TypeOK, DurableInv, SavedInv, [Next]_vars PROVE SavedInv'
  OBVIOUS
<1>0. \A m \in Msg : rec[m] \in Record
  BY DEF TypeOK
<1>1. ASSUME NEW c \in Calls, Enqueue(c) PROVE SavedInv'
  BY <1>1, EnqueueKeepsSaved
<1>2. ASSUME NEW m \in Msg, SaveRow(m) PROVE SavedInv'
  BY <1>2, SaveRowKeepsSaved
<1>3. ASSUME NEW m \in Msg, SaveRowFails(m) PROVE SavedInv'
  <2>1. /\ saving' = saving \ {m} /\ rec' = [rec EXCEPT ![m].saveFailed = TRUE]
        /\ UNCHANGED <<phase, records, disk, jobs, pump, fate>>
    BY <1>3 DEF SaveRowFails, past
  <2>2. rec'[m].saveFailed /\ rec'[m].saved = rec[m].saved
    <3>1. rec[m] \in Record /\ rec'[m] = [rec[m] EXCEPT !.saveFailed = TRUE]
      BY <2>1 DEF TypeOK
    <3> QED BY <3>1 DEF Record
  <2>3. \A x \in Msg : x # m => rec'[x] = rec[x]
    BY <2>1 DEF TypeOK
  <2>4. records \subseteq Msg
    BY DEF TypeOK
  <2> QED BY <2>1, <2>2, <2>3, <2>4 DEF SavedInv, Kept
<1>4. ASSUME NEW m \in Msg, Tick(m) PROVE SavedInv'
  <2>1. rec' = [rec EXCEPT ![m].due = TRUE]
    BY <1>4 DEF Tick
  <2>2. \A x \in Msg : rec'[x].saved = rec[x].saved /\ rec'[x].saveFailed = rec[x].saveFailed
    BY <1>0, <2>1 DEF TypeOK, Record
  <2> QED BY <1>4, <2>2, QueueKeepsSaved DEF Tick, past
<1>5. ASSUME NEW j \in jobs, JobDone(j) PROVE SavedInv'
  <2>1. /\ jobs' \subseteq jobs
        /\ DOMAIN disk' = IF j.col = "row" THEN DOMAIN disk \ {j.id} ELSE DOMAIN disk
        /\ UNCHANGED <<phase, records, rec, saving, pump, fate>>
    BY <1>5 DEF JobDone, past
  <2> QED BY <2>1 DEF SavedInv, Kept
<1>6. ASSUME NEW j \in jobs, JobFails(j) PROVE SavedInv'
  BY <1>6, QueueKeepsSaved DEF JobFails, past
<1>7. CASE PumpOnce
  <2> DEFINE late == {m \in records : /\ Scope[m] = "down" /\ rec[m].state = "in_flight"
                                      /\ rec[m].due}
             over == {m \in late : GivesUp(m)} \cup Expired
  <2>1. late \in SUBSET Msg /\ over \in SUBSET Msg
    BY DEF TypeOK, Expired
  <2>2. FailEntries(BackOff(late), over, BackOffPatches(late))
    BY <1>7 DEF PumpOnce
  <2>3. /\ phase = "running" /\ UNCHANGED <<phase, disk>>
        /\ saving' = saving \cup {m \in records' : /\ ~rec'[m].saved /\ ~rec'[m].saveFailed
                                                  /\ MinSuccess[m] > 0}
    BY <1>7 DEF PumpOnce
  <2>4. \A m \in records' : MinSuccess[m] > 0 => Kept(m)'
    BY <2>3 DEF Kept
  <2> HIDE DEF late, over
  <2>5. \A j \in BackOffPatches(late) : j.col # "row"
    BY BackOffPatchesKeepRows
  <2>6. \A m \in Msg : /\ BackOff(late)[m].saved = rec[m].saved
                       /\ BackOff(late)[m].saveFailed = rec[m].saveFailed
    BY <2>1, BackOffEffect
  <2>7. BackOff(late) \in [Msg -> Record]
    BY <2>1, BackOffType
  <2> QED BY <2>1, <2>2, <2>3, <2>4, <2>5, <2>6, <2>7, FailEntriesKeepsSaved
<1>8. CASE CloseBatch
  <2>1. pump.pc # "idle" /\ phase = "running"
    BY <1>8 DEF CloseBatch, SavedInv, IdlePump, TypeOK
  <2> QED BY <1>8, <2>1, QueueKeepsSaved DEF CloseBatch, past
<1>9. CASE BeginDispatch
  <2>1. pump.pc # "idle" /\ phase = "running"
    BY <1>9 DEF BeginDispatch, SavedInv, IdlePump, TypeOK
  <2>2. \A x \in Msg : rec'[x].saved = rec[x].saved /\ rec'[x].saveFailed = rec[x].saveFailed
    <3>1. PICK m : rec' = [rec EXCEPT ![m].attempts = Bump(@)]
      BY <1>9 DEF BeginDispatch
    <3> QED BY <1>0, <3>1 DEF TypeOK, Record
  <2> QED BY <1>9, <2>1, <2>2, QueueKeepsSaved DEF BeginDispatch
<1>10. ASSUME pump.pc # "idle" PROVE phase = "running"
  BY <1>10 DEF SavedInv, IdlePump, TypeOK
<1>11. CASE EndDispatch
  <2>1. RegisterAck(pump.current) /\ pump.current \in SUBSET Msg /\ pump.pc # "idle"
    BY <1>11 DEF EndDispatch, TypeOK
  <2>2. UNCHANGED <<phase, saving, disk>>
    BY <1>11 DEF EndDispatch
  <2> QED BY <1>10, <2>1, <2>2, RegisterAckKeepsSaved
<1>12. CASE Post
  <2> DEFINE attempts == BumpAll([m \in Msg |-> rec[m].attempts], pump.batch)
  <2>1. pump.pc # "idle" /\ phase = "running"
    BY <1>10, <1>12 DEF Post
  <2>2. rec' = [m \in Msg |-> [rec[m] EXCEPT !.attempts = attempts[m]]]
    BY <1>12 DEF Post
  <2> HIDE DEF attempts
  <2>3. \A x \in Msg : rec'[x].saved = rec[x].saved /\ rec'[x].saveFailed = rec[x].saveFailed
    BY <1>0, <2>2 DEF Record
  <2>4. \A j \in jobs' : j \in jobs \/ j.col # "row"
    <3>1. PICK f, S : jobs' = jobs \cup {PatchRow(m, "attempts", f[m]) : m \in S}
      BY <1>12, Zenon DEF Post
    <3> QED BY <3>1 DEF PatchRow
  <2>5. UNCHANGED <<phase, records, saving, disk, fate>>
    BY <1>12 DEF Post
  <2> QED BY <2>1, <2>3, <2>4, <2>5, QueueKeepsSaved
<1>13. CASE PostOk
  <2>1. RegisterAck(pump.batch) /\ pump.batch \in SUBSET Msg /\ pump.pc # "idle"
    BY <1>13 DEF PostOk, TypeOK
  <2>2. UNCHANGED <<phase, saving, disk>>
    BY <1>13 DEF PostOk
  <2> QED BY <1>10, <2>1, <2>2, RegisterAckKeepsSaved
<1>14. CASE PostNetworkError
  <2> DEFINE over == {m \in pump.batch : GivesUp(m)}
  <2>1. /\ FailEntries(BackOff(pump.batch), over, BackOffPatches(pump.batch))
        /\ pump.batch \in SUBSET Msg /\ over \in SUBSET Msg
        /\ pump.pc # "idle" /\ pump' = IdlePump /\ UNCHANGED <<phase, disk>>
    BY <1>14 DEF PostNetworkError, TypeOK
  <2> HIDE DEF over
  <2>2. \A m \in Msg : /\ BackOff(pump.batch)[m].saved = rec[m].saved
                       /\ BackOff(pump.batch)[m].saveFailed = rec[m].saveFailed
    BY <2>1, BackOffEffect
  <2>3. \A j \in BackOffPatches(pump.batch) : j.col # "row"
    BY BackOffPatchesKeepRows
  <2>4. pump'.pc = "idle"
    BY <2>1 DEF IdlePump
  <2> QED BY <1>10, <2>1, <2>2, <2>3, <2>4, BackOffType, FailEntriesKeepsSaved
<1>15. CASE PostRejected
  <2>1. PICK patches : patches = {} /\ FailEntries(rec, pump.batch, patches)
    BY <1>15 DEF PostRejected
  <2>2. /\ pump.batch \in SUBSET Msg /\ rec \in [Msg -> Record]
        /\ pump.pc # "idle" /\ pump'.pc = "idle" /\ UNCHANGED <<phase, disk>>
    BY <1>15 DEF PostRejected, TypeOK, IdlePump
  <2> QED BY <1>10, <2>1, <2>2, FailEntriesKeepsSaved
<1>16. ASSUME NEW n \in Nodes, Poll(n) PROVE SavedInv'
  <2>1. \A j \in jobs' : j \in jobs \/ j.col # "row"
    <3>1. PICK r, S : jobs' = jobs \cup {PatchRow(m, "attempts", r[m].attempts) : m \in S}
      BY <1>16, Zenon DEF Poll
    <3> QED BY <3>1 DEF PatchRow
  <2>2. PICK taken : rec' = [m \in Msg |->
              IF m \in taken
              THEN [rec[m] EXCEPT !.attempts = Bump(@), !.state = "in_flight", !.due = FALSE]
              ELSE rec[m]]
    BY <1>16, Zenon DEF Poll
  <2>3. \A x \in Msg : rec'[x].saved = rec[x].saved /\ rec'[x].saveFailed = rec[x].saveFailed
    BY <1>0, <2>2 DEF Record
  <2>4. UNCHANGED <<phase, records, saving, disk, fate, pump>>
    BY <1>16 DEF Poll
  <2> QED BY <2>1, <2>3, <2>4, QueueKeepsSaved
<1>17. ASSUME NEW n \in Nodes, Ack(n) PROVE SavedInv'
  <2>1. PICK S : RegisterAck(S \cap records)
    BY <1>17 DEF Ack
  <2>2. S \cap records \in SUBSET Msg /\ phase = "running" /\ UNCHANGED <<phase, saving, disk, pump>>
    BY <1>17 DEF Ack, TypeOK
  <2> QED BY <2>1, <2>2, RegisterAckKeepsSaved
<1>18. ASSUME NEW g \in Grp, Age(g) PROVE SavedInv'
  BY <1>18, QueueKeepsSaved DEF Age, mem, past
<1>19. ASSUME LoseMemory PROVE SavedInv'
  <2>1. \A m \in Msg : ~Fresh(m).saved
    BY DEF Fresh
  <2> QED BY <1>19, <2>1 DEF LoseMemory, SavedInv, IdlePump
<1>20. CASE Crash
  BY <1>19, <1>20 DEF Crash
<1>21. CASE Cleanup
  BY <1>19, <1>21 DEF Cleanup
<1>22. CASE Recover
  BY <1>22, RecoverKeepsSaved
<1>23. CASE UNCHANGED vars
  BY <1>23, QueueKeepsSaved DEF vars, mem, past
<1> QED
  BY <1>1, <1>2, <1>3, <1>4, <1>5, <1>6, <1>7, <1>8, <1>9, <1>11, <1>12, <1>13, <1>14,
     <1>15, <1>16, <1>17, <1>18, <1>20, <1>21, <1>22, <1>23 DEF Next, PumpStep

LEMMA BumpAllElsewhere ==
  ASSUME NEW f \in [Msg -> 0 .. CountBound], NEW S, NEW m \in Msg, BumpAll(f, S)[m] # f[m]
  PROVE  m \in S
BY DEF BumpAll

\* What SavedBeforeSent says of one step.
RowFirst ==
  \A m \in records :
    Scope[m] = "up" /\ MinSuccess[m] > 0 /\ tries'[m] # tries[m]
      => m \in DOMAIN disk \/ rec[m].saveFailed

LEMMA StepSendsSaved == TypeOK /\ SavedInv /\ [Next]_vars => RowFirst
<1> SUFFICES ASSUME TypeOK, SavedInv, [Next]_vars,
                    NEW m \in records, Scope[m] = "up", MinSuccess[m] > 0, tries'[m] # tries[m]
             PROVE  m \in DOMAIN disk \/ rec[m].saveFailed
  BY DEF RowFirst
<1>1. m \in Msg /\ tries \in [Msg -> 0 .. CountBound]
  BY DEF TypeOK
<1>2. CASE Post
  <2>1. m \in pump.batch
    BY <1>1, <1>2, BumpAllElsewhere DEF Post
  <2>2. m \notin saving /\ pump.pc # "idle"
    BY <1>2, <2>1 DEF Post, SavesOver
  <2> QED BY <2>2 DEF SavedInv, Kept
<1>3. CASE BeginDispatch
  <2>1. PICK x \in Locals(pump.batch) : tries' = BumpAll(tries, {x})
    BY <1>3 DEF BeginDispatch
  <2>2. m \in {x}
    BY <1>1, <2>1, BumpAllElsewhere
  <2> QED BY <2>1, <2>2 DEF Locals
<1>4. ASSUME NEW n \in Nodes, Poll(n) PROVE FALSE
  <2> DEFINE ready == {x \in records : /\ Scope[x] = "down" /\ Dest[x] = n
                                       /\ rec[x].state \in {"pending", "retry_wait"} /\ rec[x].due}
  <2>1. tries' = BumpAll(tries, Oldest(ready, PollMax))
    BY <1>4 DEF Poll
  <2>2. m \in Oldest(ready, PollMax)
    BY <1>1, <2>1, BumpAllElsewhere
  <2> QED BY <2>2 DEF Oldest
<1>5. ASSUME UNCHANGED tries PROVE FALSE
  BY <1>5
<1>6. CASE \E c \in Calls : Enqueue(c)
  BY <1>5, <1>6 DEF Enqueue
<1>7. CASE \E x \in Msg : SaveRow(x) \/ SaveRowFails(x) \/ Tick(x)
  BY <1>5, <1>7 DEF SaveRow, SaveRowFails, Tick, past
<1>8. CASE \E j \in jobs : JobDone(j) \/ JobFails(j)
  BY <1>5, <1>8 DEF JobDone, JobFails, past
<1>9. CASE PumpOnce \/ CloseBatch \/ EndDispatch \/ PostOk \/ PostNetworkError \/ PostRejected
  <2>1. UNCHANGED tries
    BY <1>9 DEF PumpOnce, CloseBatch, EndDispatch, PostOk, PostNetworkError, PostRejected, past
  <2> QED BY <1>5, <2>1
<1>10. CASE \E n \in Nodes : Ack(n)
  BY <1>5, <1>10 DEF Ack
<1>11. CASE \E g \in Grp : Age(g)
  BY <1>5, <1>11 DEF Age, past
<1>12. CASE Crash \/ Cleanup \/ Recover \/ UNCHANGED vars
  BY <1>5, <1>12 DEF Crash, Cleanup, LoseMemory, Recover, vars, past
<1> QED
  BY <1>2, <1>3, <1>4, <1>6, <1>7, <1>8, <1>9, <1>10, <1>11, <1>12 DEF Next, PumpStep

\* Why no uplink request overtakes its row: whatever is in the batch has no save task
\* left when it goes out, so its row is there or could not be written (_deliver).
THEOREM SavedAlways == Spec => []SavedInv
BY TypeCorrect, DurableAlways, InitSaved, StepSaved, PTL DEF Spec

\* An uplink message leaves only when its row is written, or could not be (_deliver).
THEOREM SendsSaved == Spec => SavedBeforeSent
<1>1. TypeOK /\ SavedInv /\ [Next]_vars => [RowFirst]_vars
  BY StepSendsSaved
<1>2. SavedBeforeSent <=> [][RowFirst]_vars
  BY DEF SavedBeforeSent, RowFirst
<1> QED BY <1>1, <1>2, TypeCorrect, SavedAlways, PTL DEF Spec

-----------------------------------------------------------------------------
(* Done means enough *)

\* Why DoneMeansEnough holds: no record, no row and no patch on its way to a row counts
\* a success that was not confirmed, in this life of the process or an earlier one.
AcksInv ==
  /\ \A m \in Msg : rec[m].acks <= wins[m]
  /\ \A m \in DOMAIN disk : disk[m].acks <= wins[m]
  /\ \A j \in jobs : j.col = "acks" => j.val <= wins[j.id]

LEMMA BumpGrows ==
  ASSUME NEW n \in 0 .. CountBound, NEW k \in 0 .. CountBound, n <= k
  PROVE  Bump(n) <= Bump(k) /\ n <= Bump(k)
BY OutboxAssumption DEF Bump

LEMMA WinsGrow ==
  ASSUME TypeOK, NEW S, wins' = BumpAll(wins, S)
  PROVE  \A m \in Msg : wins[m] <= wins'[m] /\ (m \in S => wins'[m] = Bump(wins[m]))
<1>1. \A m \in Msg : wins[m] \in 0 .. CountBound
  BY DEF TypeOK
<1> QED BY <1>1, BumpGrows DEF BumpAll

LEMMA InitAcks == Init => AcksInv /\ DoneMeansEnough
BY DEF Init, AcksInv, Fresh, DoneMeansEnough

\* Where successes only grow, the groups that are done stay done rightly.
LEMMA GroupWinsGrow ==
  ASSUME TypeOK, TypeOK', \A m \in Msg : wins[m] <= wins'[m], NEW g
  PROVE  GroupWins(g) \in Nat /\ GroupWins(g)' \in Nat /\ GroupWins(g) <= GroupWins(g)'
<1> DEFINE S == {m \in Msg : GroupOf[m] = g}
<1>1. IsFiniteSet(S)
  BY OutboxAssumption, FS_Subset
<1>2. \A m \in Msg : wins[m] \in Nat /\ wins'[m] \in Nat
  BY DEF TypeOK
<1>3. Total(wins, S) \in Nat /\ Total(wins', S) \in Nat
  BY <1>1, <1>2, TotalType
<1>4. Total(wins, S) <= Total(wins', S)
  BY <1>1, <1>2, TotalMonotone
<1> QED BY <1>3, <1>4 DEF GroupWins

LEMMA DoneStays ==
  ASSUME TypeOK, TypeOK', DoneMeansEnough, \A m \in Msg : wins[m] <= wins'[m],
         \A m \in Msg : fate'[m] = "done" => fate[m] = "done" \/ GroupWins(GroupOf[m])' >= MinSuccess[m]
  PROVE  DoneMeansEnough'
<1> SUFFICES ASSUME NEW m \in Msg, fate'[m] = "done"
             PROVE  GroupWins(GroupOf[m])' >= MinSuccess[m]
  BY DEF DoneMeansEnough
<1>1. CASE fate[m] = "done"
  <2>1. GroupWins(GroupOf[m]) >= MinSuccess[m]
    BY <1>1 DEF DoneMeansEnough
  <2>2. /\ GroupWins(GroupOf[m]) \in Nat /\ GroupWins(GroupOf[m])' \in Nat
        /\ GroupWins(GroupOf[m]) <= GroupWins(GroupOf[m])'
    BY GroupWinsGrow
  <2>3. MinSuccess[m] \in Nat
    BY OutboxAssumption
  <2> QED BY <2>1, <2>2, <2>3
<1> QED BY <1>1

\* Steps that settle nothing.
LEMMA QueueKeepsAcks ==
  ASSUME TypeOK, TypeOK', AcksInv, DoneMeansEnough,
         \A m \in Msg : rec'[m].acks = rec[m].acks \/ rec'[m].acks = 0,
         \A j \in jobs' : j \in jobs \/ j.col # "acks",
         \A m \in Msg : fate'[m] = "done" => fate[m] = "done",
         UNCHANGED <<disk, wins>>
  PROVE  AcksInv' /\ DoneMeansEnough'
<1>1. \A m \in Msg : wins[m] \in Nat
  BY DEF TypeOK
<1>2. AcksInv'
  BY <1>1 DEF AcksInv
<1>3. \A m \in Msg : wins[m] <= wins'[m]
  BY <1>1
<1> QED BY <1>2, <1>3, DoneStays

LEMMA EnoughWins ==
  ASSUME TypeOK, TypeOK', NEW r \in [Msg -> Record], \A m \in Msg : r[m].acks <= wins'[m],
         NEW m \in Msg, NEW x \in Msg, GroupOf[m] = GroupOf[x], Enough(r, x)
  PROVE  GroupWins(GroupOf[m])' >= MinSuccess[m]
<1> DEFINE f == [y \in Msg |-> r[y].acks]
           S == GroupRecords(GroupOf[m])
           T == {y \in Msg : GroupOf[y] = GroupOf[m]}
<1>1. \A y \in Msg : f[y] \in Nat /\ wins'[y] \in Nat /\ f[y] <= wins'[y]
  BY DEF TypeOK, Record
<1>2. S \subseteq T /\ S \subseteq Msg /\ IsFiniteSet(S) /\ IsFiniteSet(T)
  BY OutboxAssumption, FS_Subset DEF GroupRecords, TypeOK
<1>3. Total(f, S) >= MinSuccess[x]
  BY DEF Enough, Acks
<1>4. GroupWins(GroupOf[m])' = Total(wins', T)
  BY DEF GroupWins
<1> HIDE DEF f, S, T
<1>5. Total(f, S) <= Total(wins', T) /\ Total(f, S) \in Nat /\ Total(wins', T) \in Nat
  <2>1. \A y \in S : y \in T /\ f[y] <= wins'[y] /\ f[y] \in Nat
    BY <1>1, <1>2
  <2>2. \A y \in T : wins'[y] \in Nat
    BY <1>1 DEF T
  <2> QED BY <1>2, <2>1, <2>2, TotalMonotone, TotalType
<1>6. MinSuccess[x] = MinSuccess[m] /\ MinSuccess[m] \in Nat
  BY OutboxAssumption, GroupsAssumption
<1> QED BY <1>3, <1>4, <1>5, <1>6

LEMMA FinishKeepsAcks ==
  ASSUME TypeOK, TypeOK', AcksInv, DoneMeansEnough,
         NEW r \in [Msg -> Record], \A m \in Msg : r[m].acks <= wins'[m],
         NEW done, NEW failed, NEW patches,
         \A g \in done : \E x \in Msg : GroupOf[x] = g /\ Enough(r, x),
         \A j \in patches : j.col = "acks" => j.val <= wins'[j.id],
         Finish(r, done, failed, patches),
         \A m \in Msg : wins[m] <= wins'[m], UNCHANGED disk
  PROVE  AcksInv' /\ DoneMeansEnough'
<1> DEFINE gone == {m \in records : GroupOf[m] \in done \cup failed}
<1>1. /\ rec' = [m \in Msg |-> IF m \in gone THEN Fresh(m) ELSE r[m]]
      /\ jobs' = jobs \cup patches \cup {RemoveRow(m) : m \in Saved(r, gone)}
      /\ fate' = [m \in Msg |-> IF m \notin gone THEN fate[m]
                                ELSE IF GroupOf[m] \in done THEN "done" ELSE "failed"]
  BY DEF Finish
<1>2. \A m \in Msg : wins[m] \in Nat /\ wins'[m] \in Nat
  BY DEF TypeOK
<1>3. \A m \in Msg : Fresh(m).acks = 0
  BY DEF Fresh
<1>4. \A m \in DOMAIN disk : m \in Msg /\ disk[m].acks \in Nat
  BY DEF TypeOK, Row
<1>5. \A j \in jobs : j.id \in Msg /\ j.val \in Nat
  BY DEF TypeOK, Job
<1> HIDE DEF gone
<1>6. \A m \in Msg : rec'[m].acks <= wins'[m]
  BY <1>1, <1>2, <1>3
<1>7. \A m \in DOMAIN disk' : disk'[m].acks <= wins'[m]
  BY <1>2, <1>4 DEF AcksInv
<1>8. \A j \in jobs' : j.col = "acks" => j.val <= wins'[j.id]
  <2> SUFFICES ASSUME NEW j \in jobs', j.col = "acks" PROVE j.val <= wins'[j.id]
    OBVIOUS
  <2>1. CASE j \in jobs
    <3>1. j.val <= wins[j.id] /\ wins[j.id] <= wins'[j.id]
      BY <1>5, <2>1 DEF AcksInv
    <3> QED BY <1>2, <1>5, <2>1, <3>1
  <2>2. CASE j \in {RemoveRow(m) : m \in Saved(r, gone)}
    BY <2>2 DEF RemoveRow
  <2> QED BY <1>1, <2>1, <2>2
<1>9. \A m \in Msg : fate'[m] = "done" => fate[m] = "done" \/ GroupWins(GroupOf[m])' >= MinSuccess[m]
  <2> SUFFICES ASSUME NEW m \in Msg, fate'[m] = "done", fate[m] # "done"
               PROVE  GroupWins(GroupOf[m])' >= MinSuccess[m]
    OBVIOUS
  <2>1. GroupOf[m] \in done
    BY <1>1
  <2>2. PICK x \in Msg : GroupOf[x] = GroupOf[m] /\ Enough(r, x)
    BY <2>1
  <2> QED BY <2>2, EnoughWins
<1> QED BY <1>6, <1>7, <1>8, <1>9, DoneStays DEF AcksInv

LEMMA RegisterAckKeepsAcks ==
  ASSUME TypeOK, TypeOK', AcksInv, DoneMeansEnough, NEW S \in SUBSET Msg, RegisterAck(S), UNCHANGED disk
  PROVE  AcksInv' /\ DoneMeansEnough'
<1>1. wins' = BumpAll(wins, S)
  BY RegisterAckEffect
<1>2. PICK r \in [Msg -> Record], done \in SUBSET Grp, patches \in SUBSET Job :
              /\ Finish(r, done, {}, patches)
              /\ \A m \in Msg :
                   /\ r[m].attempts = rec[m].attempts
                   /\ r[m].saved = rec[m].saved /\ r[m].saveFailed = rec[m].saveFailed
                   /\ m \in S /\ rec[m].state # "failed"
                        => r[m].acks = Bump(rec[m].acks) /\ r[m].state = "pending"
                   /\ ~(m \in S /\ rec[m].state # "failed") => r[m] = rec[m]
                   /\ m \in S /\ rec[m].state # "failed" /\ Enough(r, m) => GroupOf[m] \in done
              /\ \A g \in done : \E x \in S : rec[x].state # "failed" /\ GroupOf[x] = g /\ Enough(r, x)
              /\ \A j \in patches : j.col = "acks" /\ j.val = r[j.id].acks
  BY RegisterAckEffect
<1>3. \A m \in Msg : wins[m] <= wins'[m] /\ (m \in S => wins'[m] = Bump(wins[m]))
  BY <1>1, WinsGrow
<1>4. \A m \in Msg : rec[m].acks \in 0 .. CountBound /\ wins[m] \in 0 .. CountBound /\ wins'[m] \in 0 .. CountBound
  BY DEF TypeOK, Record
<1>5. \A m \in Msg : r[m].acks <= wins'[m]
  <2> SUFFICES ASSUME NEW m \in Msg PROVE r[m].acks <= wins'[m]
    OBVIOUS
  <2>1. rec[m].acks <= wins[m]
    BY DEF AcksInv
  <2>2. CASE m \in S /\ rec[m].state # "failed"
    <3>1. r[m].acks = Bump(rec[m].acks) /\ wins'[m] = Bump(wins[m])
      BY <1>2, <1>3, <2>2
    <3> QED BY <1>4, <2>1, <3>1, BumpGrows
  <2>3. CASE ~(m \in S /\ rec[m].state # "failed")
    <3>1. r[m] = rec[m]
      BY <1>2, <2>3
    <3> QED BY <1>3, <1>4, <2>1, <3>1
  <2> QED BY <2>2, <2>3
<1>6. \A j \in patches : j.col = "acks" => j.val <= wins'[j.id]
  BY <1>2, <1>5 DEF Job
<1>7. \A g \in done : \E x \in Msg : GroupOf[x] = g /\ Enough(r, x)
  BY <1>2
<1>8. Finish(r, done, {}, patches)
  BY <1>2
<1>9. \A m \in Msg : wins[m] <= wins'[m]
  BY <1>3
<1> QED BY <1>5, <1>6, <1>7, <1>8, <1>9, FinishKeepsAcks

LEMMA FailEntriesKeepsAcks ==
  ASSUME TypeOK, TypeOK', AcksInv, DoneMeansEnough, NEW r0 \in [Msg -> Record],
         \A m \in Msg : r0[m].acks = rec[m].acks,
         NEW S \in SUBSET Msg, NEW patches, \A j \in patches : j.col # "acks",
         FailEntries(r0, S, patches), UNCHANGED <<disk, wins>>
  PROVE  AcksInv' /\ DoneMeansEnough'
<1>1. Failing(r0, S) \in [Msg -> Record] /\ Finish(Failing(r0, S), {}, Doomed(r0, S), patches)
  BY FailEntriesEffect
<1>2. \A m \in Msg : Failing(r0, S)[m].acks = rec[m].acks
  BY FailEntriesEffect
<1>3. \A m \in Msg : Failing(r0, S)[m].acks <= wins'[m]
  BY <1>2 DEF AcksInv
<1>4. \A m \in Msg : wins[m] <= wins'[m]
  BY DEF TypeOK
<1>5. \A j \in patches : j.col = "acks" => j.val <= wins'[j.id]
  OBVIOUS
<1>6. \A d : d = {} => \A g \in d : \E x \in Msg : GroupOf[x] = g /\ Enough(Failing(r0, S), x)
  OBVIOUS
<1>7. PICK d : d = {} /\ Finish(Failing(r0, S), d, Doomed(r0, S), patches)
  BY <1>1
<1> QED BY <1>1, <1>3, <1>4, <1>5, <1>6, <1>7, FinishKeepsAcks

LEMMA StepAcks == TypeOK /\ TypeOK' /\ AcksInv /\ DoneMeansEnough /\ [Next]_vars => AcksInv' /\ DoneMeansEnough'
<1> SUFFICES ASSUME TypeOK, TypeOK', AcksInv, DoneMeansEnough, [Next]_vars
             PROVE  AcksInv' /\ DoneMeansEnough'
  OBVIOUS
<1> DEFINE Goal == AcksInv' /\ DoneMeansEnough'
<1>0. \A m \in Msg : rec[m] \in Record /\ rec[m].acks \in 0 .. CountBound /\ wins[m] \in 0 .. CountBound
  BY DEF TypeOK, Record
<1>01. \A m \in Msg : Fresh(m).acks = 0
  BY DEF Fresh
<1>1. ASSUME NEW c \in Calls, Enqueue(c) PROVE Goal
  <2>1. PICK new, evicted, gone :
          /\ rec' = [m \in Msg |-> IF m \in new THEN Fresh(m)
                                   ELSE IF m \in evicted THEN [rec[m] EXCEPT !.saved = FALSE]
                                   ELSE rec[m]]
          /\ jobs' = jobs \cup {RemoveRow(m) : m \in gone}
          /\ fate' = [m \in Msg |-> IF m \in evicted THEN "dropped"
                                    ELSE IF m \in new THEN "queued" ELSE fate[m]]
    BY <1>1, Zenon DEF Enqueue
  <2>2. \A m \in Msg : rec'[m].acks = rec[m].acks \/ rec'[m].acks = 0
    BY <1>0, <1>01, <2>1 DEF Record
  <2>3. \A j \in jobs' : j \in jobs \/ j.col # "acks"
    BY <2>1 DEF RemoveRow
  <2>4. \A m \in Msg : fate'[m] = "done" => fate[m] = "done"
    BY <2>1
  <2>5. UNCHANGED <<disk, wins>>
    BY <1>1 DEF Enqueue
  <2> QED BY <2>2, <2>3, <2>4, <2>5, QueueKeepsAcks
<1>2. ASSUME NEW m \in Msg, SaveRow(m) PROVE Goal
  <2>1. PICK r \in {Fresh(m), rec[m]} :
          disk' = [x \in DOMAIN disk \cup {m} |-> IF x = m THEN RowValues(r) ELSE disk[x]]
    BY <1>2 DEF SaveRow
  <2>2. /\ rec' = [rec EXCEPT ![m].saved = TRUE]
        /\ fate' = [fate EXCEPT ![m] = IF @ = "queued" THEN "stored" ELSE @]
        /\ UNCHANGED <<jobs, wins>>
    BY <1>2 DEF SaveRow
  <2>3. disk'[m].acks <= wins[m]
    <3>1. disk'[m].acks = r.acks
      BY <2>1 DEF RowValues
    <3>2. r.acks <= wins[m]
      BY <1>0, <1>01, <2>1 DEF AcksInv
    <3> QED BY <3>1, <3>2
  <2>4. \A x \in DOMAIN disk' : x # m => x \in DOMAIN disk /\ disk'[x] = disk[x]
    BY <2>1
  <2>5. \A x \in Msg : rec'[x].acks = rec[x].acks
    BY <1>0, <2>2 DEF TypeOK, Record
  <2>6. \A x \in Msg : wins[x] <= wins'[x]
    BY <1>0, <2>2
  <2>7. \A x \in Msg : fate'[x] = "done" => fate[x] = "done"
    BY <2>2 DEF TypeOK
  <2>8. \A x \in DOMAIN disk' : disk'[x].acks <= wins'[x]
    BY <2>2, <2>3, <2>4 DEF AcksInv
  <2>9. \A x \in Msg : rec'[x].acks <= wins'[x]
    BY <2>2, <2>5 DEF AcksInv
  <2>10. \A j \in jobs' : j.col = "acks" => j.val <= wins'[j.id]
    BY <2>2 DEF AcksInv
  <2>11. AcksInv'
    BY <2>8, <2>9, <2>10 DEF AcksInv
  <2> QED BY <2>6, <2>7, <2>11, DoneStays
<1>3. ASSUME NEW m \in Msg, SaveRowFails(m) PROVE Goal
  <2>1. /\ rec' = [rec EXCEPT ![m].saveFailed = TRUE]
        /\ UNCHANGED <<jobs, disk, wins, fate>>
    BY <1>3 DEF SaveRowFails, past
  <2>2. \A x \in Msg : rec'[x].acks = rec[x].acks
    BY <1>0, <2>1 DEF TypeOK, Record
  <2> QED BY <2>1, <2>2, QueueKeepsAcks
<1>4. ASSUME NEW m \in Msg, Tick(m) PROVE Goal
  <2>1. /\ rec' = [rec EXCEPT ![m].due = TRUE]
        /\ UNCHANGED <<jobs, disk, wins, fate>>
    BY <1>4 DEF Tick, past
  <2>2. \A x \in Msg : rec'[x].acks = rec[x].acks
    BY <1>0, <2>1 DEF TypeOK, Record
  <2> QED BY <2>1, <2>2, QueueKeepsAcks
<1>5. ASSUME NEW j \in jobs, JobDone(j) PROVE Goal
  <2>1. jobs' \subseteq jobs /\ UNCHANGED <<rec, wins, fate>>
    BY <1>5 DEF JobDone, past
  <2>2. disk' = IF j.col = "row" THEN [x \in DOMAIN disk \ {j.id} |-> disk[x]]
                ELSE [x \in DOMAIN disk |-> IF x = j.id THEN Patched(disk[x], j) ELSE disk[x]]
    BY <1>5 DEF JobDone
  <2>3. \A x \in DOMAIN disk' : disk'[x].acks <= wins'[x]
    <3> SUFFICES ASSUME NEW x \in DOMAIN disk' PROVE disk'[x].acks <= wins[x]
      BY <2>1
    <3>1. x \in DOMAIN disk /\ (disk'[x] = disk[x] \/ (x = j.id /\ disk'[x] = Patched(disk[x], j)))
      BY <2>2
    <3>2. disk[x].acks <= wins[x]
      BY <3>1 DEF AcksInv
    <3>3. Patched(disk[x], j).acks = IF j.col = "acks" THEN j.val ELSE disk[x].acks
      BY DEF Patched
    <3>4. j.col = "acks" => j.val <= wins[j.id]
      BY DEF AcksInv
    <3> QED BY <3>1, <3>2, <3>3, <3>4
  <2>4. AcksInv'
    BY <2>1, <2>3 DEF AcksInv
  <2>5. \A m \in Msg : wins[m] <= wins'[m]
    BY <1>0, <2>1
  <2> QED BY <2>1, <2>4, <2>5, DoneStays
<1>6. ASSUME NEW j \in jobs, JobFails(j) PROVE Goal
  BY <1>6, QueueKeepsAcks DEF JobFails, past
<1>7. CASE PumpOnce
  <2> DEFINE late == {m \in records : /\ Scope[m] = "down" /\ rec[m].state = "in_flight"
                                      /\ rec[m].due}
             over == {m \in late : GivesUp(m)} \cup Expired
  <2>1. late \in SUBSET Msg /\ over \in SUBSET Msg
    BY DEF TypeOK, Expired
  <2>2. FailEntries(BackOff(late), over, BackOffPatches(late)) /\ UNCHANGED <<disk, wins>>
    BY <1>7 DEF PumpOnce
  <2> HIDE DEF late, over
  <2>3. \A j \in BackOffPatches(late) : j.col # "acks"
    BY <2>1, BackOffEffect
  <2>4. \A m \in Msg : BackOff(late)[m].acks = rec[m].acks
    BY <2>1, BackOffEffect
  <2>5. BackOff(late) \in [Msg -> Record]
    BY <2>1, BackOffType
  <2> QED BY <2>1, <2>2, <2>3, <2>4, <2>5, FailEntriesKeepsAcks
<1>8. CASE CloseBatch
  BY <1>8, QueueKeepsAcks DEF CloseBatch, past
<1>9. CASE BeginDispatch
  <2>1. \A x \in Msg : rec'[x].acks = rec[x].acks
    <3>1. PICK m : rec' = [rec EXCEPT ![m].attempts = Bump(@)]
      BY <1>9 DEF BeginDispatch
    <3> QED BY <1>0, <3>1 DEF TypeOK, Record
  <2> QED BY <1>9, <2>1, QueueKeepsAcks DEF BeginDispatch
<1>10. CASE EndDispatch
  <2>1. RegisterAck(pump.current) /\ pump.current \in SUBSET Msg /\ UNCHANGED disk
    BY <1>10 DEF EndDispatch, TypeOK
  <2> QED BY <2>1, RegisterAckKeepsAcks
<1>11. CASE Post
  <2> DEFINE attempts == BumpAll([m \in Msg |-> rec[m].attempts], pump.batch)
  <2>1. rec' = [m \in Msg |-> [rec[m] EXCEPT !.attempts = attempts[m]]]
    BY <1>11 DEF Post
  <2> HIDE DEF attempts
  <2>2. \A x \in Msg : rec'[x].acks = rec[x].acks
    BY <1>0, <2>1 DEF Record
  <2>3. \A j \in jobs' : j \in jobs \/ j.col # "acks"
    <3>1. PICK f, S : jobs' = jobs \cup {PatchRow(m, "attempts", f[m]) : m \in S}
      BY <1>11, Zenon DEF Post
    <3> QED BY <3>1 DEF PatchRow
  <2>4. UNCHANGED <<disk, wins, fate>>
    BY <1>11 DEF Post
  <2> QED BY <2>2, <2>3, <2>4, QueueKeepsAcks
<1>12. CASE PostOk
  <2>1. RegisterAck(pump.batch) /\ pump.batch \in SUBSET Msg /\ UNCHANGED disk
    BY <1>12 DEF PostOk, TypeOK
  <2> QED BY <2>1, RegisterAckKeepsAcks
<1>13. CASE PostNetworkError
  <2> DEFINE over == {m \in pump.batch : GivesUp(m)}
  <2>1. /\ FailEntries(BackOff(pump.batch), over, BackOffPatches(pump.batch))
        /\ pump.batch \in SUBSET Msg /\ over \in SUBSET Msg /\ UNCHANGED <<disk, wins>>
    BY <1>13 DEF PostNetworkError, TypeOK
  <2> HIDE DEF over
  <2>2. \A m \in Msg : BackOff(pump.batch)[m].acks = rec[m].acks
    BY <2>1, BackOffEffect
  <2>3. \A j \in BackOffPatches(pump.batch) : j.col # "acks"
    BY <2>1, BackOffEffect
  <2> QED BY <2>1, <2>2, <2>3, BackOffType, FailEntriesKeepsAcks
<1>14. CASE PostRejected
  <2>1. PICK patches : patches = {} /\ FailEntries(rec, pump.batch, patches)
    BY <1>14 DEF PostRejected
  <2>2. pump.batch \in SUBSET Msg /\ rec \in [Msg -> Record] /\ UNCHANGED <<disk, wins>>
    BY <1>14 DEF PostRejected, TypeOK
  <2> QED BY <2>1, <2>2, FailEntriesKeepsAcks
<1>15. ASSUME NEW n \in Nodes, Poll(n) PROVE Goal
  <2>1. \A j \in jobs' : j \in jobs \/ j.col # "acks"
    <3>1. PICK r, S : jobs' = jobs \cup {PatchRow(m, "attempts", r[m].attempts) : m \in S}
      BY <1>15, Zenon DEF Poll
    <3> QED BY <3>1 DEF PatchRow
  <2>2. PICK taken : rec' = [m \in Msg |->
              IF m \in taken
              THEN [rec[m] EXCEPT !.attempts = Bump(@), !.state = "in_flight", !.due = FALSE]
              ELSE rec[m]]
    BY <1>15, Zenon DEF Poll
  <2>3. \A x \in Msg : rec'[x].acks = rec[x].acks
    BY <1>0, <2>2 DEF Record
  <2>4. UNCHANGED <<disk, wins, fate>>
    BY <1>15 DEF Poll
  <2> QED BY <2>1, <2>3, <2>4, QueueKeepsAcks
<1>16. ASSUME NEW n \in Nodes, Ack(n) PROVE Goal
  <2>1. PICK S : RegisterAck(S \cap records)
    BY <1>16 DEF Ack
  <2>2. S \cap records \in SUBSET Msg /\ UNCHANGED disk
    BY <1>16 DEF Ack, TypeOK
  <2> QED BY <2>1, <2>2, RegisterAckKeepsAcks
<1>17. ASSUME NEW g \in Grp, Age(g) PROVE Goal
  BY <1>17, QueueKeepsAcks DEF Age, mem, past
<1>18. ASSUME LoseMemory PROVE Goal
  <2>1. /\ \A m \in Msg : rec'[m].acks = 0
        /\ jobs' = {} /\ UNCHANGED <<disk, wins, fate>>
    BY <1>01, <1>18 DEF LoseMemory, past
  <2> QED BY <2>1, QueueKeepsAcks
<1>19. CASE Crash
  BY <1>18, <1>19 DEF Crash
<1>20. CASE Cleanup
  BY <1>18, <1>20 DEF Cleanup
<1>21. CASE Recover
  <2> DEFINE old == {m \in DOMAIN disk : GroupOf[m] \in aged}
  <2>1. /\ rec' = [m \in Msg |-> IF m \in Revived THEN Revive(m) ELSE rec[m]]
        /\ jobs' = jobs \cup {RemoveRow(m) : m \in old}
        /\ fate' = [m \in Msg |-> IF m \in old /\ fate[m] = "stored" THEN "failed" ELSE fate[m]]
        /\ UNCHANGED <<disk, wins>>
    BY <1>21 DEF Recover
  <2>2. \A m \in Msg : Revive(m).acks = disk[m].acks
    BY DEF Revive, Fresh
  <2>3. \A m \in Revived : m \in DOMAIN disk
    BY DEF Revived
  <2> HIDE DEF old
  <2>4. \A m \in Msg : rec'[m].acks <= wins'[m]
    BY <2>1, <2>2, <2>3 DEF AcksInv
  <2>5. \A j \in jobs' : j \in jobs \/ j.col # "acks"
    BY <2>1 DEF RemoveRow
  <2>6. AcksInv'
    BY <2>1, <2>4, <2>5 DEF AcksInv
  <2>7. \A m \in Msg : wins[m] <= wins'[m]
    BY <1>0, <2>1
  <2>8. \A m \in Msg : fate'[m] = "done" => fate[m] = "done"
    BY <2>1
  <2> QED BY <2>6, <2>7, <2>8, DoneStays
<1>22. CASE UNCHANGED vars
  BY <1>22, QueueKeepsAcks DEF vars, mem, past
<1> QED
  BY <1>1, <1>2, <1>3, <1>4, <1>5, <1>6, <1>7, <1>8, <1>9, <1>10, <1>11, <1>12, <1>13, <1>14,
     <1>15, <1>16, <1>17, <1>19, <1>20, <1>21, <1>22 DEF Next, PumpStep

\* No record, row or pending patch counts a success that was not confirmed
\* (_register_ack, _patch_row, _recover), through crashes and stops.
THEOREM AcksAlways == Spec => []AcksInv
BY TypeCorrect, InitAcks, StepAcks, PTL DEF Spec

\* A group is done only after min_success confirmed deliveries (_register_ack).
THEOREM DoneIsEnough == Spec => []DoneMeansEnough
BY TypeCorrect, InitAcks, StepAcks, PTL DEF Spec

-----------------------------------------------------------------------------
(* One life of the process *)

Uninterrupted == CrashBound = 0 /\ StopBound = 0

Open == {"queued", "stored"}

\* Where the process is not restarted: the queue holds exactly what is open, the batch
\* of the pump nothing that is settled, and only what was tried can be confirmed.
LifeInv ==
  /\ phase = "opening" => DOMAIN disk = {}
  /\ \A m \in Msg : m \in records <=> fate[m] \in Open
  /\ \A m \in Msg : tries[m] > 0 => fate[m] # "unsent"
  /\ \A m \in Msg : held[m] > 0 => tries[m] > 0
  /\ \A m \in pump.batch : fate[m] \in Open \cup {"dropped"} /\ Scope[m] # "down"
  /\ pump.current \subseteq pump.batch
  /\ pump.pc \in {"idle", "gather"} => pump.batch = {}
  /\ pump.pc = "dispatch" => \A m \in pump.current : tries[m] > 0
  /\ pump.pc = "post" => \A m \in pump.batch : tries[m] > 0 /\ Scope[m] = "up"

LEMMA Alone ==
  ASSUME NEW m \in Msg, NEW x \in Msg, Scope[m] # "down", GroupOf[m] = GroupOf[x]
  PROVE  m = x
BY GroupsAssumption

LEMMA InitLife == Init => LifeInv
BY DEF Init, LifeInv, IdlePump, Open

\* Steps of others than the pump, that send nothing.
LEMMA QueueKeepsLife ==
  ASSUME TypeOK, LifeInv,
         phase' = "opening" => DOMAIN disk' = {},
         \A m \in Msg : m \in records' <=> fate'[m] \in Open,
         \A m \in Msg : fate'[m] = "unsent" => fate[m] = "unsent",
         \A m \in pump.batch : fate'[m] \in Open \cup {"dropped"},
         \A m \in Msg : held'[m] > 0 => held[m] > 0,
         UNCHANGED <<pump, tries>>
  PROVE  LifeInv'
BY DEF LifeInv

LEMMA FateKeepsLife ==
  ASSUME TypeOK, LifeInv, phase' = "opening" => DOMAIN disk' = {},
         UNCHANGED <<records, fate, pump, tries, held>>
  PROVE  LifeInv'
BY QueueKeepsLife DEF LifeInv

\* What becomes of the queue when groups are settled.
LEMMA FinishLife ==
  ASSUME TypeOK, LifeInv, NEW r, NEW done, NEW failed, NEW patches, Finish(r, done, failed, patches)
  PROVE  /\ \A m \in Msg : m \in records' <=> fate'[m] \in Open
         /\ \A m \in Msg : fate'[m] = fate[m] \/ (m \in records /\ GroupOf[m] \in done \cup failed)
         /\ \A m \in Msg : fate'[m] = "unsent" => fate[m] = "unsent"
<1> DEFINE gone == {m \in records : GroupOf[m] \in done \cup failed}
<1>1. /\ records' = records \ gone
      /\ fate' = [m \in Msg |-> IF m \notin gone THEN fate[m]
                                ELSE IF GroupOf[m] \in done THEN "done" ELSE "failed"]
  BY DEF Finish, Remaining
<1>2. \A m \in Msg : m \in gone <=> m \in records /\ GroupOf[m] \in done \cup failed
  OBVIOUS
<1> HIDE DEF gone
<1>3. \A m \in Msg : fate'[m] = IF m \notin gone THEN fate[m]
                                ELSE IF GroupOf[m] \in done THEN "done" ELSE "failed"
  BY <1>1
<1>4. \A m \in Msg : m \in records <=> fate[m] \in Open
  BY DEF LifeInv
<1> QED BY <1>1, <1>2, <1>3, <1>4 DEF Open

\* Confirmed deliveries of S settle nothing else of what goes up or stays here.
LEMMA RegisterAckLife ==
  ASSUME TypeOK, LifeInv, NEW S \in SUBSET Msg, RegisterAck(S)
  PROVE  /\ \A m \in Msg : m \in records' <=> fate'[m] \in Open
         /\ \A m \in Msg : fate'[m] = "unsent" => fate[m] = "unsent"
         /\ \A m \in Msg \ S : Scope[m] # "down" => fate'[m] = fate[m]
<1>1. PICK r \in [Msg -> Record], done \in SUBSET Grp, patches \in SUBSET Job :
        /\ Finish(r, done, {}, patches)
        /\ \A g \in done : \E x \in S : rec[x].state # "failed" /\ GroupOf[x] = g /\ Enough(r, x)
  BY RegisterAckEffect
<1>2. ASSUME NEW m \in Msg \ S, Scope[m] # "down" PROVE GroupOf[m] \notin done
  <2> SUFFICES ASSUME GroupOf[m] \in done PROVE FALSE
    OBVIOUS
  <2>1. PICK x \in S : GroupOf[x] = GroupOf[m]
    BY <1>1
  <2>2. m = x
    BY <1>2, <2>1, Alone
  <2> QED BY <2>2
<1>3. /\ \A m \in Msg : m \in records' <=> fate'[m] \in Open
      /\ \A m \in Msg : fate'[m] = fate[m] \/ (m \in records /\ GroupOf[m] \in done \cup {})
      /\ \A m \in Msg : fate'[m] = "unsent" => fate[m] = "unsent"
  BY <1>1, FinishLife
<1> QED BY <1>2, <1>3

LEMMA FailEntriesLife ==
  ASSUME TypeOK, LifeInv, NEW r0 \in [Msg -> Record], NEW S \in SUBSET Msg, NEW patches,
         FailEntries(r0, S, patches)
  PROVE  /\ \A m \in Msg : m \in records' <=> fate'[m] \in Open
         /\ \A m \in Msg : fate'[m] = "unsent" => fate[m] = "unsent"
<1>1. Finish(Failing(r0, S), {}, Doomed(r0, S), patches)
  BY FailEntriesEffect
<1> QED BY <1>1, FinishLife

\* The fresh ids of a call.
LEMMA NewIsUnsent ==
  ASSUME TypeOK, DurableInv, NEW c \in Calls, c \notin sent
  PROVE  \A m \in {c[i] : i \in DOMAIN c} : m \in Msg /\ fate[m] = "unsent"
<1> SUFFICES ASSUME NEW m \in {c[i] : i \in DOMAIN c} PROVE m \in Msg /\ fate[m] = "unsent"
  OBVIOUS
<1>1. m \in Msg
  <2>1. c \in Seq(Msg)
    BY OutboxAssumption
  <2>2. \A q \in Seq(Msg) : \A i \in DOMAIN q : q[i] \in Msg
    OBVIOUS
  <2> QED BY <2>1, <2>2
<1>2. ASSUME fate[m] # "unsent" PROVE FALSE
  <2>1. PICK d \in sent : \E i \in DOMAIN d : d[i] = m
    BY <1>1, <1>2 DEF DurableInv
  <2>2. d \in Calls /\ \E i \in DOMAIN c : c[i] = m
    BY DEF TypeOK
  <2>3. c = d
    BY <2>1, <2>2, FreshIdsAssumption
  <2> QED BY <2>3
<1> QED BY <1>1, <1>2

LEMMA EnqueueLife ==
  ASSUME TypeOK, DurableInv, LifeInv, NEW c \in Calls, Enqueue(c)
  PROVE  \E new, evicted \in SUBSET Msg :
           /\ \A m \in new : fate[m] = "unsent"
           /\ evicted \subseteq records \cup new
           /\ records' = (records \cup new) \ evicted
           /\ fate' = [m \in Msg |-> IF m \in evicted THEN "dropped"
                                     ELSE IF m \in new THEN "queued" ELSE fate[m]]
<1> DEFINE new == {c[i] : i \in DOMAIN c}
           order == [m \in Msg |-> IF m \in new THEN clock + (CHOOSE i \in DOMAIN c : c[i] = m)
                                                 ELSE stamp[m]]
           all == records \cup new
           kept == Newest(all, order, QueueMax)
           evicted == all \ kept
<1>1. /\ c \notin sent
      /\ records' = kept
      /\ fate' = [m \in Msg |-> IF m \in evicted THEN "dropped"
                                ELSE IF m \in new THEN "queued" ELSE fate[m]]
  BY DEF Enqueue
<1>2. kept \subseteq all
  BY DEF Newest
<1>3. \A m \in new : m \in Msg /\ fate[m] = "unsent"
  BY <1>1, NewIsUnsent
<1>4. records \subseteq Msg
  BY DEF TypeOK
<1> HIDE DEF new, kept
<1>5. kept = (records \cup new) \ evicted /\ evicted \subseteq records \cup new
  BY <1>2
<1> QED BY <1>1, <1>3, <1>4, <1>5

LEMMA StepLife ==
  ASSUME Uninterrupted, TypeOK, DurableInv, SavedInv, LifeInv, [Next]_vars
  PROVE  LifeInv'
<1>0. pump.pc # "idle" => phase = "running"
  BY DEF SavedInv, IdlePump, TypeOK
<1>01. \A m \in Msg : tries[m] \in 0 .. CountBound /\ held[m] \in 0 .. CountBound
  BY DEF TypeOK
<1>02. \A n \in 0 .. CountBound : Bump(n) > 0 /\ Bump(n) >= n
  BY OutboxAssumption DEF Bump
<1>03. pump.batch \subseteq Msg /\ pump.current \subseteq Msg
  BY DEF TypeOK
<1>04. pump \in Pumps
  BY DEF TypeOK, Pumps
<1>1. ASSUME NEW c \in Calls, Enqueue(c) PROVE LifeInv'
  <2>1. PICK new, evicted \in SUBSET Msg :
           /\ \A m \in new : fate[m] = "unsent"
           /\ evicted \subseteq records \cup new
           /\ records' = (records \cup new) \ evicted
           /\ fate' = [m \in Msg |-> IF m \in evicted THEN "dropped"
                                     ELSE IF m \in new THEN "queued" ELSE fate[m]]
    BY <1>1, EnqueueLife
  <2>2. UNCHANGED <<phase, disk, pump, tries, held>>
    BY <1>1 DEF Enqueue
  <2>3. \A m \in Msg : m \in records' <=> fate'[m] \in Open
    BY <2>1 DEF LifeInv, Open
  <2>4. \A m \in pump.batch : fate'[m] \in Open \cup {"dropped"}
    BY <1>03, <2>1 DEF LifeInv, Open
  <2>5. \A m \in Msg : fate'[m] = "unsent" => fate[m] = "unsent"
    BY <2>1
  <2>6. phase' = "opening" => DOMAIN disk' = {}
    BY <2>2 DEF LifeInv
  <2> QED BY <2>2, <2>3, <2>4, <2>5, <2>6, QueueKeepsLife
<1>2. ASSUME NEW m \in Msg, SaveRow(m) PROVE LifeInv'
  <2>1. /\ m \in saving
        /\ fate' = [fate EXCEPT ![m] = IF @ = "queued" THEN "stored" ELSE @]
        /\ UNCHANGED <<phase, records, pump, tries, held>>
    BY <1>2 DEF SaveRow
  <2>2. \A x \in Msg : fate'[x] = IF x = m /\ fate[x] = "queued" THEN "stored" ELSE fate[x]
    BY <2>1 DEF TypeOK
  <2>3. phase = "running"
    BY <2>1 DEF DurableInv
  <2>4. \A x \in Msg : x \in records' <=> fate'[x] \in Open
    BY <2>1, <2>2 DEF LifeInv, Open
  <2>5. \A x \in pump.batch : fate'[x] \in Open \cup {"dropped"}
    BY <1>03, <2>2 DEF LifeInv, Open
  <2> QED BY <2>1, <2>2, <2>3, <2>4, <2>5, QueueKeepsLife
<1>3. ASSUME NEW m \in Msg, SaveRowFails(m) PROVE LifeInv'
  BY <1>3, FateKeepsLife DEF SaveRowFails, past, LifeInv
<1>4. ASSUME NEW m \in Msg, Tick(m) PROVE LifeInv'
  BY <1>4, FateKeepsLife DEF Tick, past, LifeInv
<1>5. ASSUME NEW j \in jobs, JobDone(j) PROVE LifeInv'
  <2>1. DOMAIN disk' \subseteq DOMAIN disk /\ UNCHANGED <<phase, records, pump, tries, held, fate>>
    BY <1>5 DEF JobDone, past
  <2>2. phase' = "opening" => DOMAIN disk' = {}
    BY <2>1 DEF LifeInv
  <2> QED BY <2>1, <2>2, FateKeepsLife
<1>6. ASSUME NEW j \in jobs, JobFails(j) PROVE LifeInv'
  BY <1>6, FateKeepsLife DEF JobFails, past, LifeInv
<1>7. CASE PumpOnce
  <2> DEFINE late == {m \in records : /\ Scope[m] = "down" /\ rec[m].state = "in_flight"
                                      /\ rec[m].due}
             over == {m \in late : GivesUp(m)} \cup Expired
             ready == Ready(records', rec')
             now == {m \in ready : rec'[m].immediate}
  <2>1. late \in SUBSET Msg /\ over \in SUBSET Msg
    BY DEF TypeOK, Expired
  <2>2. /\ FailEntries(BackOff(late), over, BackOffPatches(late))
        /\ phase = "running" /\ pump.pc = "idle"
        /\ UNCHANGED <<phase, tries, held>>
        /\ pump' = IF now # {} THEN Delivering(now)
                   ELSE IF ready # {} THEN [IdlePump EXCEPT !.pc = "gather"]
                   ELSE IdlePump
    BY <1>7 DEF PumpOnce
  <2> HIDE DEF late, over
  <2>3. BackOff(late) \in [Msg -> Record]
    BY <2>1, BackOffType
  <2>4. /\ \A m \in Msg : m \in records' <=> fate'[m] \in Open
        /\ \A m \in Msg : fate'[m] = "unsent" => fate[m] = "unsent"
    BY <2>1, <2>2, <2>3, FailEntriesLife
  <2>5. \A m \in now : m \in records' /\ Scope[m] # "down"
    BY DEF Ready
  <2>6. /\ pump'.batch \subseteq now /\ pump'.current = {}
        /\ pump'.pc \in {"idle", "gather", "deliver"}
        /\ pump'.pc \in {"idle", "gather"} => pump'.batch = {}
    BY <2>2 DEF Delivering, IdlePump
  <2>7. records' \subseteq Msg
    <3>1. BackOffPatches(late) \subseteq Job
      BY <2>1, BackOffType
    <3> QED BY <2>1, <2>2, <2>3, <3>1, FailEntriesType
  <2> HIDE DEF now, ready
  <2>8. \A m \in pump'.batch : fate'[m] \in Open \cup {"dropped"} /\ Scope[m] # "down"
    BY <2>4, <2>5, <2>6, <2>7
  <2> QED BY <2>2, <2>4, <2>6, <2>8 DEF LifeInv
<1>8. CASE CloseBatch
  <2>1. PICK n \in 1 .. BatchSize : pump' = Delivering(Oldest(Ready(records, rec), n))
    BY <1>8 DEF CloseBatch
  <2>2. \A m \in Oldest(Ready(records, rec), n) : m \in records /\ Scope[m] # "down"
    BY DEF Oldest, Ready
  <2>3. UNCHANGED <<phase, records, disk, held, fate, tries>>
    BY <1>8 DEF CloseBatch, past
  <2>4. /\ pump'.batch \subseteq Oldest(Ready(records, rec), n) /\ pump'.current = {}
        /\ pump'.pc \in {"idle", "gather", "deliver"}
        /\ pump'.pc \in {"idle", "gather"} => pump'.batch = {}
    BY <2>1 DEF Delivering, IdlePump
  <2>5. records \subseteq Msg
    BY DEF TypeOK
  <2>6. \A m \in pump'.batch : fate'[m] \in Open \cup {"dropped"} /\ Scope[m] # "down"
    BY <2>2, <2>3, <2>4, <2>5 DEF LifeInv
  <2> QED BY <2>3, <2>4, <2>6 DEF LifeInv
<1>9. CASE BeginDispatch
  <2>1. PICK m \in Locals(pump.batch) :
          /\ tries' = BumpAll(tries, {m})
          /\ pump' = [pump EXCEPT !.pc = "dispatch", !.current = {m}]
    BY <1>9 DEF BeginDispatch
  <2>2. m \in pump.batch /\ m \in Msg
    BY <1>03 DEF Locals
  <2>3. UNCHANGED <<phase, records, disk, held, fate>>
    BY <1>9 DEF BeginDispatch
  <2>4. pump'.pc = "dispatch" /\ pump'.current = {m} /\ pump'.batch = pump.batch
    BY <1>04, <2>1 DEF Pumps
  <2>5. tries'[m] > 0 /\ \A x \in Msg : x # m => tries'[x] = tries[x]
    BY <1>01, <1>02, <2>1, <2>2 DEF BumpAll
  <2>6. fate[m] # "unsent"
    BY <2>2 DEF LifeInv, Open
  <2> QED BY <2>2, <2>3, <2>4, <2>5, <2>6 DEF LifeInv
<1>10. CASE EndDispatch
  <2>1. /\ RegisterAck(pump.current) /\ pump' = Delivering(pump.batch \ pump.current)
        /\ pump.pc = "dispatch" /\ UNCHANGED <<phase, held, tries>>
    BY <1>10 DEF EndDispatch
  <2>2. /\ \A m \in Msg : m \in records' <=> fate'[m] \in Open
        /\ \A m \in Msg : fate'[m] = "unsent" => fate[m] = "unsent"
        /\ \A m \in Msg \ pump.current : Scope[m] # "down" => fate'[m] = fate[m]
    BY <1>03, <2>1, RegisterAckLife
  <2>3. /\ pump'.batch = pump.batch \ pump.current /\ pump'.current = {}
        /\ pump'.pc \in {"idle", "gather", "deliver"}
        /\ pump'.pc \in {"idle", "gather"} => pump'.batch = {}
    BY <2>1 DEF Delivering, IdlePump
  <2>4. \A m \in pump'.batch : fate'[m] \in Open \cup {"dropped"} /\ Scope[m] # "down"
    BY <1>03, <2>2, <2>3 DEF LifeInv
  <2>5. phase' = "running"
    BY <1>0, <2>1
  <2> QED BY <2>1, <2>2, <2>3, <2>4, <2>5 DEF LifeInv
<1>11. CASE Post
  <2>1. /\ pump' = [pump EXCEPT !.pc = "post"] /\ Locals(pump.batch) = {} /\ pump.pc = "deliver"
        /\ tries' = BumpAll(tries, pump.batch)
        /\ UNCHANGED <<phase, records, disk, held, fate>>
    BY <1>11 DEF Post
  <2>2. pump'.pc = "post" /\ pump'.batch = pump.batch /\ pump'.current = pump.current
    BY <1>04, <2>1 DEF Pumps
  <2>3. \A m \in pump.batch : Scope[m] = "up"
    BY <1>03, <2>1, OutboxAssumption DEF Locals, LifeInv, Scopes
  <2>4. \A m \in Msg : IF m \in pump.batch THEN tries'[m] > 0 ELSE tries'[m] = tries[m]
    BY <1>01, <1>02, <2>1 DEF BumpAll
  <2>5. \A m \in pump.batch : fate[m] # "unsent" /\ m \in Msg
    BY <1>03 DEF LifeInv, Open
  <2> QED BY <2>1, <2>2, <2>3, <2>4, <2>5 DEF LifeInv
<1>12. ASSUME PostOk \/ PostNetworkError \/ PostRejected PROVE LifeInv'
  <2>1. pump.pc = "post" /\ pump' = IdlePump /\ UNCHANGED <<phase, held, tries>>
    BY <1>12 DEF PostOk, PostNetworkError, PostRejected
  <2>2. /\ \A m \in Msg : m \in records' <=> fate'[m] \in Open
        /\ \A m \in Msg : fate'[m] = "unsent" => fate[m] = "unsent"
    <3>1. CASE PostOk
      BY <1>03, <3>1, RegisterAckLife DEF PostOk
    <3>2. CASE PostNetworkError
      <4> DEFINE over == {m \in pump.batch : GivesUp(m)}
      <4>1. /\ FailEntries(BackOff(pump.batch), over, BackOffPatches(pump.batch))
            /\ over \in SUBSET Msg
        BY <1>03, <3>2 DEF PostNetworkError
      <4> HIDE DEF over
      <4>2. BackOff(pump.batch) \in [Msg -> Record]
        BY <1>03, BackOffType
      <4> QED BY <4>1, <4>2, FailEntriesLife
    <3>3. CASE PostRejected
      <4>1. rec \in [Msg -> Record]
        BY DEF TypeOK
      <4>2. PICK patches : FailEntries(rec, pump.batch, patches)
        BY <3>3 DEF PostRejected
      <4> QED BY <1>03, <4>1, <4>2, FailEntriesLife
    <3> QED BY <1>12, <3>1, <3>2, <3>3
  <2>3. phase' = "running"
    BY <1>0, <2>1
  <2> QED BY <2>1, <2>2, <2>3 DEF LifeInv, IdlePump
<1>15. ASSUME NEW n \in Nodes, Poll(n) PROVE LifeInv'
  <2> DEFINE ready == {m \in records : /\ Scope[m] = "down" /\ Dest[m] = n
                                       /\ rec[m].state \in {"pending", "retry_wait"} /\ rec[m].due}
             taken == Oldest(ready, PollMax)
  <2>1. /\ tries' = BumpAll(tries, taken) /\ held' = BumpAll(held, taken)
        /\ phase = "running" /\ UNCHANGED <<phase, records, pump, fate>>
    BY <1>15 DEF Poll
  <2>2. \A m \in taken : m \in records
    BY DEF Oldest
  <2> HIDE DEF taken
  <2>3. \A m \in Msg : /\ IF m \in taken THEN tries'[m] > 0 ELSE tries'[m] = tries[m] /\ held'[m] = held[m]
                       /\ tries[m] > 0 => tries'[m] > 0
    BY <1>01, <1>02, <2>1 DEF BumpAll
  <2>4. \A m \in Msg : tries'[m] > 0 => fate'[m] # "unsent"
    BY <2>1, <2>2, <2>3 DEF LifeInv, Open
  <2> QED BY <1>03, <2>1, <2>3, <2>4 DEF LifeInv
<1>16. ASSUME NEW n \in Nodes, Ack(n) PROVE LifeInv'
  <2>1. PICK S \in SUBSET {m \in Msg : Scope[m] = "down" /\ Dest[m] = n /\ held[m] > 0} :
          /\ held' = [m \in Msg |-> IF m \in S THEN held[m] - 1 ELSE held[m]]
          /\ RegisterAck(S \cap records)
    BY <1>16 DEF Ack
  <2>2. phase = "running" /\ UNCHANGED <<phase, pump, tries>>
    BY <1>16 DEF Ack
  <2>3. S \cap records \in SUBSET Msg /\ \A m \in S : Scope[m] = "down" /\ held[m] > 0
    OBVIOUS
  <2>4. /\ \A m \in Msg : m \in records' <=> fate'[m] \in Open
        /\ \A m \in Msg : fate'[m] = "unsent" => fate[m] = "unsent"
        /\ \A m \in Msg \ (S \cap records) : Scope[m] # "down" => fate'[m] = fate[m]
    BY <2>1, <2>3, RegisterAckLife
  <2>5. \A m \in pump.batch : fate'[m] \in Open \cup {"dropped"}
    BY <1>03, <2>3, <2>4 DEF LifeInv
  <2>6. \A m \in Msg : held'[m] > 0 => held[m] > 0
    BY <2>1, <2>3
  <2> QED BY <2>2, <2>4, <2>5, <2>6, QueueKeepsLife
<1>17. ASSUME NEW g \in Grp, Age(g) PROVE LifeInv'
  BY <1>17, FateKeepsLife DEF Age, mem, past, LifeInv
<1>18. CASE Crash \/ Cleanup
  BY <1>18 DEF Crash, Cleanup, Uninterrupted, TypeOK
<1>19. CASE Recover
  <2>1. DOMAIN disk = {} /\ phase' = "running"
    BY <1>19 DEF Recover, LifeInv
  <2>2. /\ records' = records \cup Revived
        /\ fate' = [m \in Msg |-> IF m \in {x \in DOMAIN disk : GroupOf[x] \in aged} /\ fate[m] = "stored"
                                  THEN "failed" ELSE fate[m]]
        /\ UNCHANGED <<pump, tries, held>>
    BY <1>19 DEF Recover
  <2>3. records' = records
    BY <2>1, <2>2 DEF Revived
  <2>4. \A m \in Msg : fate'[m] = fate[m]
    BY <2>1, <2>2
  <2>5. \A m \in pump.batch : fate'[m] \in Open \cup {"dropped"}
    BY <1>03, <2>4 DEF LifeInv
  <2>6. \A m \in Msg : m \in records' <=> fate'[m] \in Open
    BY <2>3, <2>4 DEF LifeInv
  <2> QED BY <2>1, <2>2, <2>4, <2>5, <2>6, QueueKeepsLife
<1>20. CASE UNCHANGED vars
  BY <1>20, FateKeepsLife DEF vars, mem, past, LifeInv
<1> QED
  BY <1>1, <1>2, <1>3, <1>4, <1>5, <1>6, <1>7, <1>8, <1>9, <1>10, <1>11, <1>12,
     <1>15, <1>16, <1>17, <1>18, <1>19, <1>20 DEF Next, PumpStep

\* While the process lives, the queue is exactly what is open, the pump's batch holds nothing
\* that is settled, and only what was sent can be confirmed (_finish_group, _deliver, _ack).
THEOREM LifeAlways == ASSUME Uninterrupted PROVE Spec => []LifeInv
<1>1. TypeOK /\ DurableInv /\ SavedInv /\ LifeInv /\ [Next]_vars => LifeInv'
  BY StepLife
<1> QED BY <1>1, InitLife, TypeCorrect, DurableAlways, SavedAlways, PTL DEF Spec

-----------------------------------------------------------------------------
(* The refinement of CommPromise *)

LEMMA Stutters ==
  ASSUME \A m \in Msg : fate'[m] = fate[m] \/ {fate[m], fate'[m]} \subseteq Open,
         UNCHANGED <<tries, wins>>
  PROVE  UNCHANGED Promise!vars
<1>1. \A m \in Msg : (IF fate'[m] \in {"queued", "stored"} THEN "open" ELSE fate'[m])
                     = (IF fate[m] \in {"queued", "stored"} THEN "open" ELSE fate[m])
  BY DEF Open
<1> QED BY <1>1 DEF Promise!vars

LEMMA Accepts ==
  ASSUME NEW S \in SUBSET Msg, NEW D \in SUBSET Msg,
         \A m \in S : fate[m] = "unsent",
         \A m \in D \ S : fate[m] \in Open,
         \A m \in Msg : fate'[m] = IF m \in D THEN "dropped" ELSE IF m \in S THEN "queued" ELSE fate[m],
         UNCHANGED <<tries, wins>>
  PROVE  Promise!Next
<1>1. \E T, E \in SUBSET Msg : Promise!Accept(T, E)
  <2>1. Promise!Accept(S, D)
    BY DEF Promise!Accept, Open
  <2> QED BY <2>1
<1> QED BY <1>1 DEF Promise!Next

LEMMA Sends ==
  ASSUME NEW S \in SUBSET Msg,
         \A m \in S : fate[m] \in Open \cup {"dropped"},
         tries' = BumpAll(tries, S), UNCHANGED <<fate, wins>>
  PROVE  Promise!Next
<1>1. Promise!Send(S)
  <2>1. \A m \in S : [x \in Msg |-> IF fate[x] \in {"queued", "stored"} THEN "open" ELSE fate[x]][m]
                     \in {"open", "dropped"}
    BY DEF Open
  <2>2. BumpAll(tries, S) = Promise!Count(tries, S)
    BY DEF BumpAll, Bump, Promise!Count
  <2> QED BY <2>1, <2>2 DEF Promise!Send
<1>2. \E T \in SUBSET Msg : Promise!Send(T)
  BY <1>1
<1> QED BY <1>2 DEF Promise!Next

LEMMA GivesUpGroups ==
  ASSUME TypeOK, LifeInv, NEW G \in SUBSET Grp, NEW r, NEW patches,
         Finish(r, {}, G, patches), UNCHANGED <<tries, wins>>
  PROVE  Promise!Next
<1>1. Promise!GiveUp(G)
  <2> DEFINE gone == {m \in records : GroupOf[m] \in {} \cup G}
  <2>1. fate' = [m \in Msg |-> IF m \notin gone THEN fate[m]
                               ELSE IF GroupOf[m] \in {} THEN "done" ELSE "failed"]
    BY DEF Finish
  <2>2. \A m \in Msg : m \in gone <=> fate[m] \in Open /\ GroupOf[m] \in G
    BY DEF LifeInv
  <2> HIDE DEF gone
  <2>3. \A m \in Msg : fate'[m] = IF fate[m] \in Open /\ GroupOf[m] \in G THEN "failed" ELSE fate[m]
    BY <2>1, <2>2
  <2>4. \A m \in Msg :
          (IF fate'[m] \in {"queued", "stored"} THEN "open" ELSE fate'[m])
          = (IF (IF fate[m] \in {"queued", "stored"} THEN "open" ELSE fate[m]) = "open"
                /\ GroupOf[m] \in G THEN "failed"
             ELSE IF fate[m] \in {"queued", "stored"} THEN "open" ELSE fate[m])
    <3>1. \A m \in Msg : fate[m] # "open"
      BY DEF TypeOK, Fates
    <3> QED BY <2>3, <3>1 DEF Open
  <2> QED BY <2>4 DEF Promise!GiveUp, Promise!Close
<1>2. \E G1 \in SUBSET Grp : Promise!GiveUp(G1)
  BY <1>1
<1> QED BY <1>2 DEF Promise!Next

LEMMA PromiseWins ==
  ASSUME NEW w, NEW g
  PROVE  Total(w, {m \in Msg : GroupOf[m] = g}) = Promise!Wins(w, g)
<1> DEFINE S == {m \in Msg : GroupOf[m] = g}
<1>1. Total(w, S) = (CHOOSE h : IsSum(h, w, S))[S]
  BY TotalIs
<1>2. Promise!Wins(w, g) = (CHOOSE h : IsSum(h, w, S))[S]
  BY Zenon DEF Promise!Wins, Promise!MapThenSumSet, Promise!MapThenFoldSet, IsSum, Some, Rest
<1> QED BY <1>1, <1>2

\* Confirmed deliveries: a group that gets done has the successes it needs.
LEMMA Confirms ==
  ASSUME TypeOK, TypeOK', AcksInv, AcksInv', LifeInv, NEW S \in SUBSET Msg, RegisterAck(S),
         \A m \in S : fate[m] \in Open \cup {"dropped"} /\ tries[m] > 0, UNCHANGED tries
  PROVE  Promise!Next
<1>1. wins' = BumpAll(wins, S)
  BY RegisterAckEffect
<1>2. PICK r \in [Msg -> Record], done \in SUBSET Grp, patches \in SUBSET Job :
              /\ Finish(r, done, {}, patches)
              /\ \A m \in Msg :
                   /\ r[m].attempts = rec[m].attempts
                   /\ r[m].saved = rec[m].saved /\ r[m].saveFailed = rec[m].saveFailed
                   /\ m \in S /\ rec[m].state # "failed"
                        => r[m].acks = Bump(rec[m].acks) /\ r[m].state = "pending"
                   /\ ~(m \in S /\ rec[m].state # "failed") => r[m] = rec[m]
                   /\ m \in S /\ rec[m].state # "failed" /\ Enough(r, m) => GroupOf[m] \in done
              /\ \A g \in done : \E x \in S : rec[x].state # "failed" /\ GroupOf[x] = g /\ Enough(r, x)
              /\ \A j \in patches : j.col = "acks" /\ j.val = r[j.id].acks
  BY RegisterAckEffect
<1>3. \A m \in Msg : r[m].acks <= wins'[m]
  <2> SUFFICES ASSUME NEW m \in Msg PROVE r[m].acks <= wins'[m]
    OBVIOUS
  <2>1. rec[m].acks <= wins[m] /\ rec[m].acks \in 0 .. CountBound /\ wins[m] \in 0 .. CountBound
    BY DEF AcksInv, TypeOK, Record
  <2>2. wins'[m] = IF m \in S THEN Bump(wins[m]) ELSE wins[m]
    BY <1>1 DEF BumpAll
  <2>3. /\ m \in S /\ rec[m].state # "failed" => r[m].acks = Bump(rec[m].acks)
        /\ ~(m \in S /\ rec[m].state # "failed") => r[m] = rec[m]
    BY <1>2
  <2>4. (r[m].acks = Bump(rec[m].acks) /\ m \in S) \/ r[m].acks = rec[m].acks
    BY <2>3
  <2>5. Bump(rec[m].acks) <= Bump(wins[m]) /\ rec[m].acks <= Bump(wins[m])
    BY <2>1, BumpGrows
  <2> QED BY <2>1, <2>2, <2>4, <2>5
<1>4. ASSUME NEW m \in Msg, GroupOf[m] \in done
      PROVE  GroupWins(GroupOf[m])' >= MinSuccess[m]
  <2>1. PICK x \in S : GroupOf[x] = GroupOf[m] /\ Enough(r, x)
    BY <1>2, <1>4
  <2>2. x \in Msg
    OBVIOUS
  <2> QED BY <1>3, <2>1, <2>2, EnoughWins
<1>5. \A m \in Msg : fate'[m] = IF fate[m] \in Open /\ GroupOf[m] \in done THEN "done" ELSE fate[m]
  <2> DEFINE gone == {m \in records : GroupOf[m] \in done \cup {}}
  <2>1. fate' = [m \in Msg |-> IF m \notin gone THEN fate[m]
                               ELSE IF GroupOf[m] \in done THEN "done" ELSE "failed"]
    BY <1>2 DEF Finish
  <2>2. \A m \in Msg : m \in gone <=> fate[m] \in Open /\ GroupOf[m] \in done
    BY DEF LifeInv
  <2>3. \A m \in gone : GroupOf[m] \in done
    OBVIOUS
  <2> HIDE DEF gone
  <2> QED BY <2>1, <2>2, <2>3
<1>6. Promise!Confirm(S, done)
  <2> DEFINE shown == [x \in Msg |-> IF fate[x] \in {"queued", "stored"} THEN "open" ELSE fate[x]]
  <2>1. \A m \in S : shown[m] \in {"open", "dropped"} /\ tries[m] > 0
    BY DEF Open
  <2>2. wins' = Promise!Count(wins, S)
    BY <1>1 DEF BumpAll, Bump, Promise!Count
  <2>3. \A m \in Msg : GroupOf[m] \in done => Promise!Wins(wins', GroupOf[m]) >= MinSuccess[m]
    <3>1. \A m \in Msg : GroupWins(GroupOf[m])' = Promise!Wins(wins', GroupOf[m])
      BY PromiseWins, Zenon DEF GroupWins
    <3> QED BY <1>4, <3>1
  <2>4. \A m \in Msg :
          (IF fate'[m] \in {"queued", "stored"} THEN "open" ELSE fate'[m])
          = (IF (IF fate[m] \in {"queued", "stored"} THEN "open" ELSE fate[m]) = "open"
                /\ GroupOf[m] \in done THEN "done"
             ELSE IF fate[m] \in {"queued", "stored"} THEN "open" ELSE fate[m])
    <3>1. \A m \in Msg : fate[m] # "open"
      BY DEF TypeOK, Fates
    <3> QED BY <1>5, <3>1 DEF Open
  <2>5. Promise!Close(done, "done")
    BY <2>4 DEF Promise!Close
  <2> QED BY <2>1, <2>2, <2>3, <2>5 DEF Promise!Confirm
<1>7. \E T \in SUBSET Msg, G \in SUBSET Grp : Promise!Confirm(T, G)
  BY <1>6
<1> QED BY <1>7 DEF Promise!Next

LEMMA InitPromise == Init => Promise!Init
BY DEF Init, Promise!Init

LEMMA FailsGroups ==
  ASSUME TypeOK, LifeInv, NEW r0 \in [Msg -> Record], NEW S \in SUBSET Msg, NEW patches,
         FailEntries(r0, S, patches), UNCHANGED <<tries, wins>>
  PROVE  Promise!Next
<1>1. /\ Finish(Failing(r0, S), {}, Doomed(r0, S), patches)
      /\ Doomed(r0, S) \in SUBSET Grp
  BY FailEntriesEffect
<1> QED BY <1>1, GivesUpGroups

LEMMA StepPromise ==
  ASSUME Uninterrupted, TypeOK, TypeOK', DurableInv, AcksInv, AcksInv', LifeInv, [Next]_vars
  PROVE  [Promise!Next]_Promise!vars
<1> DEFINE Goal == [Promise!Next]_Promise!vars
<1>0. \A m \in Msg : fate[m] = "queued" => fate[m] \in Open
  BY DEF Open
<1>01. pump.batch \subseteq Msg /\ pump.current \subseteq Msg
  BY DEF TypeOK
<1>1. ASSUME NEW c \in Calls, Enqueue(c) PROVE Goal
  <2>1. PICK new, evicted \in SUBSET Msg :
           /\ \A m \in new : fate[m] = "unsent"
           /\ evicted \subseteq records \cup new
           /\ records' = (records \cup new) \ evicted
           /\ fate' = [m \in Msg |-> IF m \in evicted THEN "dropped"
                                     ELSE IF m \in new THEN "queued" ELSE fate[m]]
    BY <1>1, EnqueueLife
  <2>2. UNCHANGED <<tries, wins>>
    BY <1>1 DEF Enqueue
  <2>3. \A m \in evicted \ new : fate[m] \in Open
    BY <2>1 DEF LifeInv
  <2>4. \A m \in Msg : fate'[m] = IF m \in evicted THEN "dropped"
                                  ELSE IF m \in new THEN "queued" ELSE fate[m]
    BY <2>1
  <2> QED BY <2>1, <2>2, <2>3, <2>4, Accepts
<1>2. ASSUME NEW m \in Msg, SaveRow(m) PROVE Goal
  <2>1. fate' = [fate EXCEPT ![m] = IF @ = "queued" THEN "stored" ELSE @] /\ UNCHANGED <<tries, wins>>
    BY <1>2 DEF SaveRow
  <2>2. \A x \in Msg : fate'[x] = fate[x] \/ {fate[x], fate'[x]} \subseteq Open
    BY <2>1 DEF TypeOK, Open
  <2> QED BY <2>1, <2>2, Stutters
<1>3. ASSUME UNCHANGED past PROVE Goal
  <2>1. UNCHANGED <<tries, wins>> /\ \A x \in Msg : fate'[x] = fate[x]
    BY <1>3 DEF past
  <2> QED BY <2>1, Stutters
<1>4. CASE PumpOnce
  <2> DEFINE late == {m \in records : /\ Scope[m] = "down" /\ rec[m].state = "in_flight"
                                      /\ rec[m].due}
             over == {m \in late : GivesUp(m)} \cup Expired
  <2>1. late \in SUBSET Msg /\ over \in SUBSET Msg
    BY DEF TypeOK, Expired
  <2>2. FailEntries(BackOff(late), over, BackOffPatches(late)) /\ UNCHANGED <<tries, wins>>
    BY <1>4 DEF PumpOnce
  <2> HIDE DEF late, over
  <2>3. BackOff(late) \in [Msg -> Record]
    BY <2>1, BackOffType
  <2> QED BY <2>1, <2>2, <2>3, FailsGroups
<1>5. CASE BeginDispatch
  <2>1. PICK m \in Locals(pump.batch) : tries' = BumpAll(tries, {m})
    BY <1>5 DEF BeginDispatch
  <2>2. UNCHANGED <<fate, wins>>
    BY <1>5 DEF BeginDispatch
  <2>3. m \in Msg /\ fate[m] \in Open \cup {"dropped"}
    BY <1>01 DEF Locals, LifeInv
  <2>4. {m} \in SUBSET Msg /\ \A x \in {m} : fate[x] \in Open \cup {"dropped"}
    BY <2>3
  <2> QED BY <2>1, <2>2, <2>4, Sends
<1>6. CASE EndDispatch
  <2>1. RegisterAck(pump.current) /\ UNCHANGED tries /\ pump.pc = "dispatch"
    BY <1>6 DEF EndDispatch
  <2>2. \A m \in pump.current : fate[m] \in Open \cup {"dropped"} /\ tries[m] > 0
    BY <2>1 DEF LifeInv
  <2> QED BY <1>01, <2>1, <2>2, Confirms
<1>7. CASE Post
  <2>1. tries' = BumpAll(tries, pump.batch) /\ UNCHANGED <<fate, wins>>
    BY <1>7 DEF Post
  <2>2. \A m \in pump.batch : fate[m] \in Open \cup {"dropped"}
    BY DEF LifeInv
  <2> QED BY <1>01, <2>1, <2>2, Sends
<1>8. CASE PostOk
  <2>1. RegisterAck(pump.batch) /\ UNCHANGED tries /\ pump.pc = "post"
    BY <1>8 DEF PostOk
  <2>2. \A m \in pump.batch : fate[m] \in Open \cup {"dropped"} /\ tries[m] > 0
    BY <2>1 DEF LifeInv
  <2> QED BY <1>01, <2>1, <2>2, Confirms
<1>9. CASE PostNetworkError
  <2> DEFINE over == {m \in pump.batch : GivesUp(m)}
  <2>1. /\ FailEntries(BackOff(pump.batch), over, BackOffPatches(pump.batch))
        /\ over \in SUBSET Msg /\ UNCHANGED <<tries, wins>>
    BY <1>01, <1>9 DEF PostNetworkError
  <2> HIDE DEF over
  <2>2. BackOff(pump.batch) \in [Msg -> Record]
    BY <1>01, BackOffType
  <2> QED BY <2>1, <2>2, FailsGroups
<1>10. CASE PostRejected
  <2>1. PICK patches : FailEntries(rec, pump.batch, patches)
    BY <1>10 DEF PostRejected
  <2>2. rec \in [Msg -> Record] /\ UNCHANGED <<tries, wins>>
    BY <1>10 DEF PostRejected, TypeOK
  <2> QED BY <1>01, <2>1, <2>2, FailsGroups
<1>11. ASSUME NEW n \in Nodes, Poll(n) PROVE Goal
  <2> DEFINE ready == {m \in records : /\ Scope[m] = "down" /\ Dest[m] = n
                                       /\ rec[m].state \in {"pending", "retry_wait"} /\ rec[m].due}
             taken == Oldest(ready, PollMax)
  <2>1. tries' = BumpAll(tries, taken) /\ UNCHANGED <<fate, wins>>
    BY <1>11 DEF Poll
  <2>2. \A m \in taken : m \in records
    BY DEF Oldest
  <2> HIDE DEF taken
  <2>3. taken \in SUBSET Msg /\ \A m \in taken : fate[m] \in Open \cup {"dropped"}
    BY <2>2 DEF LifeInv, TypeOK
  <2> QED BY <2>1, <2>3, Sends
<1>12. ASSUME NEW n \in Nodes, Ack(n) PROVE Goal
  <2>1. PICK S \in SUBSET {m \in Msg : Scope[m] = "down" /\ Dest[m] = n /\ held[m] > 0} :
          RegisterAck(S \cap records)
    BY <1>12 DEF Ack
  <2>2. UNCHANGED tries
    BY <1>12 DEF Ack
  <2>3. S \cap records \in SUBSET Msg /\ \A m \in S : m \in Msg /\ held[m] > 0
    OBVIOUS
  <2>4. \A m \in S \cap records : fate[m] \in Open \cup {"dropped"} /\ tries[m] > 0
    BY <2>3 DEF LifeInv
  <2> QED BY <2>1, <2>2, <2>3, <2>4, Confirms
<1>13. CASE Crash \/ Cleanup
  BY <1>13 DEF Crash, Cleanup, Uninterrupted, TypeOK
<1>14. CASE Recover
  <2>1. DOMAIN disk = {}
    BY <1>14 DEF Recover, LifeInv
  <2>2. /\ fate' = [m \in Msg |-> IF m \in {x \in DOMAIN disk : GroupOf[x] \in aged} /\ fate[m] = "stored"
                                  THEN "failed" ELSE fate[m]]
        /\ UNCHANGED <<tries, wins>>
    BY <1>14 DEF Recover
  <2>3. \A m \in Msg : fate'[m] = fate[m]
    BY <2>1, <2>2
  <2> QED BY <2>2, <2>3, Stutters
<1>15. CASE UNCHANGED vars
  BY <1>3, <1>15 DEF vars
<1>16. ASSUME NEW m \in Msg, SaveRowFails(m) \/ Tick(m) PROVE Goal
  BY <1>3, <1>16 DEF SaveRowFails, Tick
<1>17. ASSUME NEW j \in jobs, JobDone(j) \/ JobFails(j) PROVE Goal
  BY <1>3, <1>17 DEF JobDone, JobFails
<1>18. ASSUME NEW g \in Grp, Age(g) PROVE Goal
  BY <1>3, <1>18 DEF Age
<1>19. CASE CloseBatch
  BY <1>3, <1>19 DEF CloseBatch
<1> QED
  BY <1>1, <1>2, <1>4, <1>5, <1>6, <1>7, <1>8, <1>9, <1>10, <1>11, <1>12, <1>13, <1>14,
     <1>15, <1>16, <1>17, <1>18, <1>19 DEF Next, PumpStep

\* Any history of the abstract service leaves settled messages alone.
LEMMA PromiseKeepsSettled ==
  ASSUME TypeOK, [Promise!Next]_Promise!vars
  PROVE  \A m \in Msg : fate[m] \in Settled => fate'[m] = fate[m] /\ tries'[m] = tries[m]
<1> DEFINE shown == [m \in Msg |-> IF fate[m] \in {"queued", "stored"} THEN "open" ELSE fate[m]]
<1> SUFFICES ASSUME NEW m \in Msg, fate[m] \in Settled
             PROVE  fate'[m] = fate[m] /\ tries'[m] = tries[m]
  OBVIOUS
<1>1. shown[m] = fate[m] /\ fate[m] \in {"done", "failed"}
  BY DEF Settled
<1>2. tries[m] = [x \in Msg |-> tries[x]][m]
  OBVIOUS
<1>3. shown' = [x \in Msg |-> IF fate'[x] \in {"queued", "stored"} THEN "open" ELSE fate'[x]]
  OBVIOUS
<1>4. shown'[m] = fate[m] => fate'[m] = fate[m]
  BY <1>1, <1>3
<1>5. ASSUME NEW S \in SUBSET Msg, NEW D \in SUBSET Msg, Promise!Accept(S, D)
      PROVE  shown'[m] = fate[m] /\ tries'[m] = tries[m]
  BY <1>1, <1>5 DEF Promise!Accept
<1>6. ASSUME NEW S \in SUBSET Msg, Promise!Send(S)
      PROVE  shown'[m] = fate[m] /\ tries'[m] = tries[m]
  BY <1>1, <1>6 DEF Promise!Send, Promise!Count
<1>7. ASSUME NEW S \in SUBSET Msg, NEW G \in SUBSET Grp, Promise!Confirm(S, G)
      PROVE  shown'[m] = fate[m] /\ tries'[m] = tries[m]
  BY <1>1, <1>7 DEF Promise!Confirm, Promise!Close
<1>8. ASSUME NEW G \in SUBSET Grp, Promise!GiveUp(G)
      PROVE  shown'[m] = fate[m] /\ tries'[m] = tries[m]
  BY <1>1, <1>8 DEF Promise!GiveUp, Promise!Close
<1>9. ASSUME UNCHANGED Promise!vars PROVE shown'[m] = fate[m] /\ tries'[m] = tries[m]
  BY <1>1, <1>9 DEF Promise!vars
<1> HIDE DEF shown
<1> QED BY <1>4, <1>5, <1>6, <1>7, <1>8, <1>9 DEF Promise!Next

\* While the process lives, the service implements CommPromise: a group is over at once for
\* all its messages, done only with its successes, and nothing settled is sent again.
THEOREM Refines == ASSUME Uninterrupted PROVE Spec => KeepsPromise
<1>1. TypeOK /\ TypeOK' /\ DurableInv /\ AcksInv /\ AcksInv' /\ LifeInv /\ [Next]_vars
        => [Promise!Next]_Promise!vars
  BY StepPromise
<1>2. Spec => [](TypeOK /\ DurableInv /\ AcksInv /\ LifeInv)
  BY TypeCorrect, DurableAlways, AcksAlways, LifeAlways, PTL
<1> QED BY <1>1, <1>2, InitPromise, PTL DEF Spec, KeepsPromise, Promise!Spec

\* While the process lives, a message whose group is over keeps its fate and is never
\* sent again, whatever batch or node still holds it (_finish_group, _deliver, _take_down).
THEOREM SettledStays == ASSUME Uninterrupted PROVE Spec => SettledIsFinal
<1>1. TypeOK /\ [Promise!Next]_Promise!vars
        => [\A m \in Msg : fate[m] \in Settled => fate'[m] = fate[m] /\ tries'[m] = tries[m]]_vars
  BY PromiseKeepsSettled
<1>2. Spec => [][Promise!Next]_Promise!vars
  BY Refines, PTL DEF KeepsPromise, Promise!Spec
<1>3. []TypeOK /\ [][Promise!Next]_Promise!vars => SettledIsFinal
  BY <1>1, PTL DEF SettledIsFinal
<1> QED BY <1>2, <1>3, TypeCorrect, PTL

-----------------------------------------------------------------------------
(* The hard cap *)

\* A message with a limit to its attempts asks for one success at most.
OneSuccess == \A m \in Msg : MaxAttempts[m] > 0 => MinSuccess[m] <= 1

Waiting == {"pending", "retry_wait"}

\* The records on their way right now: their attempts are counted.
Leaving == IF pump.pc = "post" THEN pump.batch
           ELSE IF pump.pc = "dispatch" THEN pump.current ELSE {}

\* Why the cap is kept: a record in the queue counts every attempt, and what may be sent
\* next, from the queue or from the batch, has an attempt left.
CapInv ==
  \A m \in Msg : MaxAttempts[m] > 0 =>
    /\ tries[m] <= MaxAttempts[m]
    /\ m \in records => tries[m] = rec[m].attempts
    /\ m \in records /\ rec[m].state \in Waiting /\ m \notin Leaving
         => rec[m].attempts < MaxAttempts[m]
    /\ m \in pump.batch /\ m \notin Leaving => tries[m] < MaxAttempts[m]

LEMMA InitCap == Init => CapInv
BY OutboxAssumption DEF Init, CapInv, IdlePump

\* Steps that send nothing.
LEMMA QueueKeepsCap ==
  ASSUME TypeOK, CapInv, UNCHANGED tries,
         \A m \in Msg : MaxAttempts[m] > 0 /\ m \in records' =>
           \/ /\ m \in records /\ rec'[m].attempts = rec[m].attempts
              /\ rec'[m].state \in Waiting /\ m \notin Leaving'
                   => (rec[m].state \in Waiting /\ m \notin Leaving)
                      \/ rec[m].attempts < MaxAttempts[m]
           \/ tries[m] = 0 /\ rec'[m].attempts = 0,
         \A m \in Msg : MaxAttempts[m] > 0 /\ m \in pump'.batch /\ m \notin Leaving' =>
           (m \in pump.batch /\ m \notin Leaving) \/ tries[m] < MaxAttempts[m]
  PROVE  CapInv'
<1> SUFFICES ASSUME NEW m \in Msg, MaxAttempts[m] > 0
             PROVE  /\ tries'[m] <= MaxAttempts[m]
                    /\ m \in records' => tries'[m] = rec'[m].attempts
                    /\ m \in records' /\ rec'[m].state \in Waiting /\ m \notin Leaving'
                         => rec'[m].attempts < MaxAttempts[m]
                    /\ m \in pump'.batch /\ m \notin Leaving' => tries'[m] < MaxAttempts[m]
  BY Zenon DEF CapInv
<1>1. /\ tries[m] <= MaxAttempts[m]
      /\ m \in records => tries[m] = rec[m].attempts
      /\ m \in records /\ rec[m].state \in Waiting /\ m \notin Leaving
           => rec[m].attempts < MaxAttempts[m]
      /\ m \in pump.batch /\ m \notin Leaving => tries[m] < MaxAttempts[m]
  BY Zenon DEF CapInv
<1>2. tries'[m] = tries[m]
  OBVIOUS
<1>3. m \in records' =>
           \/ /\ m \in records /\ rec'[m].attempts = rec[m].attempts
              /\ rec'[m].state \in Waiting /\ m \notin Leaving'
                   => (rec[m].state \in Waiting /\ m \notin Leaving)
                      \/ rec[m].attempts < MaxAttempts[m]
           \/ tries[m] = 0 /\ rec'[m].attempts = 0
  BY Zenon
<1>4. m \in pump'.batch /\ m \notin Leaving' =>
           (m \in pump.batch /\ m \notin Leaving) \/ tries[m] < MaxAttempts[m]
  BY Zenon
<1> DEFINE w == rec[m].state \in Waiting
           w1 == rec'[m].state \in Waiting
           away == m \in Leaving
           away1 == m \in Leaving'
           a == rec[m].attempts
           a1 == rec'[m].attempts
<1> HIDE DEF w, w1, away, away1, a, a1
<1>5. MaxAttempts[m] \in Nat
  BY OutboxAssumption
<1> QED BY <1>1, <1>2, <1>3, <1>4, <1>5 DEF w, w1, away, away1, a, a1

LEMMA FinishRest ==
  ASSUME TypeOK, NEW r, NEW done, NEW failed, NEW patches, Finish(r, done, failed, patches)
  PROVE  \A m \in records' : m \in Msg /\ m \in records /\ rec'[m] = r[m]
                             /\ GroupOf[m] \notin done \cup failed
<1> DEFINE gone == {m \in records : GroupOf[m] \in done \cup failed}
<1>1. records' = records \ gone /\ rec' = [m \in Msg |-> IF m \in gone THEN Fresh(m) ELSE r[m]]
  BY DEF Finish, Remaining
<1>2. records \subseteq Msg /\ \A m \in records \ gone : GroupOf[m] \notin done \cup failed
  BY DEF TypeOK
<1> HIDE DEF gone
<1> QED BY <1>1, <1>2

\* A confirmed delivery of a message that needs one success at most ends it.
LEMMA RegisterAckCap ==
  ASSUME OneSuccess, TypeOK, NEW S \in SUBSET Msg, RegisterAck(S)
  PROVE  \A m \in Msg : MaxAttempts[m] > 0 /\ m \in records' =>
           /\ m \in records /\ rec'[m].attempts = rec[m].attempts
           /\ rec'[m].state \in Waiting => rec[m].state \in Waiting /\ m \notin S
<1>1. PICK r \in [Msg -> Record], done \in SUBSET Grp, patches \in SUBSET Job :
              /\ Finish(r, done, {}, patches)
              /\ \A m \in Msg :
                   /\ r[m].attempts = rec[m].attempts
                   /\ r[m].saved = rec[m].saved /\ r[m].saveFailed = rec[m].saveFailed
                   /\ m \in S /\ rec[m].state # "failed"
                        => r[m].acks = Bump(rec[m].acks) /\ r[m].state = "pending"
                   /\ ~(m \in S /\ rec[m].state # "failed") => r[m] = rec[m]
                   /\ m \in S /\ rec[m].state # "failed" /\ Enough(r, m) => GroupOf[m] \in done
              /\ \A g \in done : \E x \in S : rec[x].state # "failed" /\ GroupOf[x] = g /\ Enough(r, x)
              /\ \A j \in patches : j.col = "acks" /\ j.val = r[j.id].acks
  BY RegisterAckEffect
<1>2. \A m \in records' : m \in Msg /\ m \in records /\ rec'[m] = r[m] /\ GroupOf[m] \notin done \cup {}
  BY <1>1, FinishRest
<1> SUFFICES ASSUME NEW m \in Msg, MaxAttempts[m] > 0, m \in records'
             PROVE  /\ m \in records /\ rec'[m].attempts = rec[m].attempts
                    /\ rec'[m].state \in Waiting => rec[m].state \in Waiting /\ m \notin S
  OBVIOUS
<1>3. m \in records /\ rec'[m] = r[m] /\ GroupOf[m] \notin done
  BY <1>2
<1>4. rec'[m].attempts = rec[m].attempts
  BY <1>1, <1>3
<1>5. ASSUME m \in S, rec[m].state # "failed" PROVE FALSE
  <2> DEFINE f == [x \in Msg |-> r[x].acks]
             G == GroupRecords(GroupOf[m])
  <2>1. r[m].acks = Bump(rec[m].acks) /\ ~Enough(r, m)
    BY <1>1, <1>3, <1>5
  <2>2. rec[m].acks \in 0 .. CountBound /\ \A x \in Msg : r[x].acks \in Nat
    BY DEF TypeOK, Record
  <2>3. r[m].acks >= 1
    BY <2>1, <2>2, OutboxAssumption DEF Bump
  <2>4. m \in G /\ IsFiniteSet(G) /\ G \subseteq Msg
    BY <1>3, OutboxAssumption, FS_Subset DEF GroupRecords, TypeOK
  <2>5. \A x \in G : f[x] \in Nat
    BY <2>2, <2>4
  <2>6. f[m] = r[m].acks
    OBVIOUS
  <2>7. Enough(r, m) <=> Total(f, G) >= MinSuccess[m]
    BY DEF Enough, Acks
  <2> HIDE DEF f, G
  <2>8. f[m] <= Total(f, G) /\ Total(f, G) \in Nat
    BY <2>4, <2>5, TotalCovers, TotalType
  <2>9. MinSuccess[m] <= 1 /\ MinSuccess[m] \in Nat /\ r[m].acks \in Nat
    BY <2>2, OutboxAssumption DEF OneSuccess
  <2> QED BY <2>1, <2>3, <2>6, <2>7, <2>8, <2>9
<1>6. rec'[m].state \in Waiting => rec[m].state \in Waiting /\ m \notin S
  <2>1. CASE m \in S
    <3>1. rec[m].state = "failed"
      BY <1>5, <2>1
    <3>2. r[m] = rec[m]
      BY <1>1, <3>1
    <3> QED BY <1>3, <3>1, <3>2 DEF Waiting
  <2>2. CASE m \notin S
    <3>1. r[m] = rec[m]
      BY <1>1, <2>2
    <3> QED BY <1>3, <2>2, <3>1
  <2> QED BY <2>1, <2>2
<1> QED BY <1>3, <1>4, <1>6

\* What a network failure of the records S leaves in the queue.
LEMMA FailEntriesCap ==
  ASSUME TypeOK, NEW r0 \in [Msg -> Record], NEW S \in SUBSET Msg, NEW patches,
         FailEntries(r0, S, patches)
  PROVE  \A m \in Msg : m \in records' =>
           /\ m \in records /\ rec'[m].attempts = r0[m].attempts
           /\ rec'[m].state \in Waiting => m \notin S /\ r0[m].state \in Waiting
<1>1. Finish(Failing(r0, S), {}, Doomed(r0, S), patches)
  BY FailEntriesEffect
<1>2. \A m \in records' : m \in Msg /\ m \in records /\ rec'[m] = Failing(r0, S)[m]
                             /\ GroupOf[m] \notin {} \cup Doomed(r0, S)
  BY <1>1, FinishRest
<1>3. \A m \in Msg : Failing(r0, S)[m].attempts = r0[m].attempts
                     /\ Failing(r0, S)[m].state = IF m \in S THEN "failed" ELSE r0[m].state
  BY FailEntriesEffect
<1> QED BY <1>2, <1>3 DEF Waiting

LEMMA StepCap ==
  ASSUME Uninterrupted, OneSuccess, TypeOK, DurableInv, LifeInv, CapInv, [Next]_vars
  PROVE  CapInv'
<1>01. \A m \in Msg : /\ tries[m] \in 0 .. CountBound /\ rec[m] \in Record
                      /\ rec[m].attempts \in 0 .. CountBound
  BY DEF TypeOK, Record
<1>02. pump \in Pumps
  BY DEF TypeOK, Pumps
<1>03. pump.batch \subseteq Msg /\ pump.current \subseteq Msg
  BY DEF TypeOK
<1>04. \A m \in Msg : MaxAttempts[m] \in Nat /\ MaxAttempts[m] < CountBound
  BY OutboxAssumption
<1>05. CountBound \in Nat
  BY OutboxAssumption
<1>1. ASSUME NEW c \in Calls, Enqueue(c) PROVE CapInv'
  <2> DEFINE new == {c[i] : i \in DOMAIN c}
             order == [m \in Msg |-> IF m \in new THEN clock + (CHOOSE i \in DOMAIN c : c[i] = m)
                                                   ELSE stamp[m]]
             all == records \cup new
             kept == Newest(all, order, QueueMax)
             evicted == all \ kept
  <2>1. /\ records' = kept
        /\ rec' = [m \in Msg |-> IF m \in new THEN Fresh(m)
                                 ELSE IF m \in evicted THEN [rec[m] EXCEPT !.saved = FALSE]
                                 ELSE rec[m]]
        /\ UNCHANGED <<pump, tries>> /\ c \notin sent
    BY <1>1 DEF Enqueue
  <2>2. \A m \in new : m \in Msg /\ fate[m] = "unsent"
    BY <2>1, NewIsUnsent
  <2>3. \A m \in new : tries[m] = 0
    BY <1>01, <1>05, <2>2 DEF LifeInv
  <2>4. kept \subseteq all /\ evicted = all \ kept
    BY DEF Newest
  <2>5. \A m \in Msg : Fresh(m).attempts = 0
    BY DEF Fresh
  <2> HIDE DEF new, kept, evicted
  <2>6. \A m \in records' : m \in records \/ m \in new
    BY <2>1, <2>4
  <2>7. \A m \in Msg : m \in records' /\ m \notin new => rec'[m] = rec[m]
    BY <2>1, <2>4
  <2>8. \A m \in Msg : m \in new => rec'[m].attempts = 0
    BY <2>1, <2>5
  <2>9. Leaving' = Leaving /\ pump'.batch = pump.batch
    BY <2>1 DEF Leaving
  <2> QED BY <2>1, <2>3, <2>6, <2>7, <2>8, <2>9, QueueKeepsCap
<1>2. ASSUME UNCHANGED <<records, pump, tries>>,
             \A m \in Msg : rec'[m].attempts = rec[m].attempts /\ rec'[m].state = rec[m].state
      PROVE  CapInv'
  <2>1. Leaving' = Leaving /\ pump'.batch = pump.batch
    BY <1>2 DEF Leaving
  <2> QED BY <1>2, <2>1, QueueKeepsCap
<1>3. ASSUME NEW m \in Msg, SaveRow(m) \/ SaveRowFails(m) \/ Tick(m) PROVE CapInv'
  <2>1. /\ \/ rec' = [rec EXCEPT ![m].saved = TRUE]
           \/ rec' = [rec EXCEPT ![m].saveFailed = TRUE]
           \/ rec' = [rec EXCEPT ![m].due = TRUE]
        /\ UNCHANGED <<records, pump, tries>>
    BY <1>3 DEF SaveRow, SaveRowFails, Tick, past
  <2>2. \A x \in Msg : rec'[x].attempts = rec[x].attempts /\ rec'[x].state = rec[x].state
    <3>1. rec \in [Msg -> Record]
      BY DEF TypeOK
    <3>2. CASE rec' = [rec EXCEPT ![m].saved = TRUE]
      BY <1>01, <3>1, <3>2 DEF Record
    <3>3. CASE rec' = [rec EXCEPT ![m].saveFailed = TRUE]
      BY <1>01, <3>1, <3>3 DEF Record
    <3>4. CASE rec' = [rec EXCEPT ![m].due = TRUE]
      BY <1>01, <3>1, <3>4 DEF Record
    <3> QED BY <2>1, <3>2, <3>3, <3>4
  <2> QED BY <1>2, <2>1, <2>2
<1>4. ASSUME UNCHANGED <<records, pump, tries, rec>> PROVE CapInv'
  BY <1>2, <1>4
<1>5. CASE PumpOnce
  <2> DEFINE late == {m \in records : /\ Scope[m] = "down" /\ rec[m].state = "in_flight"
                                      /\ rec[m].due}
             over == {m \in late : GivesUp(m)} \cup Expired
             ready == Ready(records', rec')
             now == {m \in ready : rec'[m].immediate}
  <2>1. late \in SUBSET Msg /\ over \in SUBSET Msg /\ \A m \in late : GivesUp(m) => m \in over
    BY DEF TypeOK, Expired
  <2>2. /\ FailEntries(BackOff(late), over, BackOffPatches(late)) /\ pump.pc = "idle"
        /\ UNCHANGED tries
        /\ pump' = IF now # {} THEN Delivering(now)
                   ELSE IF ready # {} THEN [IdlePump EXCEPT !.pc = "gather"]
                   ELSE IdlePump
    BY <1>5 DEF PumpOnce
  <2>3. \A m \in now : m \in records' /\ rec'[m].state \in Waiting
    BY DEF Ready, Waiting
  <2> HIDE DEF late, over, now, ready
  <2>4. pump'.batch \subseteq now /\ pump'.pc \in {"idle", "gather", "deliver"}
    BY <2>2 DEF Delivering, IdlePump
  <2>5. Leaving' = {} /\ Leaving = {}
    BY <2>2, <2>4 DEF Leaving
  <2>6. BackOff(late) \in [Msg -> Record]
    BY <2>1, BackOffType
  <2>7. \A m \in Msg : m \in records' =>
           /\ m \in records /\ rec'[m].attempts = BackOff(late)[m].attempts
           /\ rec'[m].state \in Waiting => m \notin over /\ BackOff(late)[m].state \in Waiting
    BY <2>1, <2>2, <2>6, FailEntriesCap
  <2>8. \A m \in Msg :
              /\ BackOff(late)[m].attempts = rec[m].attempts
              /\ BackOff(late)[m].state = IF m \in late /\ ~GivesUp(m) THEN "retry_wait" ELSE rec[m].state
    BY <2>1, BackOffEffect
  <2>9. \A m \in Msg : MaxAttempts[m] > 0 /\ m \in records' =>
           /\ m \in records /\ rec'[m].attempts = rec[m].attempts
           /\ rec'[m].state \in Waiting => rec[m].state \in Waiting \/ rec[m].attempts < MaxAttempts[m]
    <3> SUFFICES ASSUME NEW m \in Msg, MaxAttempts[m] > 0, m \in records'
                 PROVE  /\ m \in records /\ rec'[m].attempts = rec[m].attempts
                        /\ rec'[m].state \in Waiting => rec[m].state \in Waiting \/ rec[m].attempts < MaxAttempts[m]
      OBVIOUS
    <3>1. m \in records /\ rec'[m].attempts = rec[m].attempts
      BY <2>7, <2>8
    <3>2. ASSUME rec'[m].state \in Waiting
          PROVE  rec[m].state \in Waiting \/ rec[m].attempts < MaxAttempts[m]
      <4>1. BackOff(late)[m].state \in Waiting
        BY <2>7, <3>2
      <4>2. CASE m \in late /\ ~GivesUp(m)
        BY <1>01, <1>04, <1>05, <4>2 DEF GivesUp
      <4>3. CASE ~(m \in late /\ ~GivesUp(m))
        BY <2>8, <4>1, <4>3
      <4> QED BY <4>2, <4>3
    <3> QED BY <3>1, <3>2
  <2>10. \A m \in Msg : MaxAttempts[m] > 0 /\ m \in pump'.batch => tries[m] < MaxAttempts[m]
    <3> SUFFICES ASSUME NEW m \in Msg, MaxAttempts[m] > 0, m \in pump'.batch
                 PROVE  tries[m] < MaxAttempts[m]
      OBVIOUS
    <3>1. m \in records' /\ rec'[m].state \in Waiting
      BY <2>3, <2>4
    <3>2. m \in records /\ (rec[m].state \in Waiting \/ rec[m].attempts < MaxAttempts[m])
      BY <2>9, <3>1
    <3> QED BY <2>5, <3>2 DEF CapInv
  <2> QED BY <2>2, <2>5, <2>9, <2>10, QueueKeepsCap
<1>6. CASE CloseBatch
  <2>1. PICK n \in 1 .. BatchSize : pump' = Delivering(Oldest(Ready(records, rec), n))
    BY <1>6 DEF CloseBatch
  <2>2. \A m \in Oldest(Ready(records, rec), n) : m \in records /\ rec[m].state \in Waiting
    BY DEF Oldest, Ready, Waiting
  <2>3. UNCHANGED <<records, rec, tries>> /\ pump.pc = "gather"
    BY <1>6 DEF CloseBatch, past
  <2>4. pump'.batch \subseteq Oldest(Ready(records, rec), n) /\ pump'.pc \in {"idle", "deliver"}
    BY <2>1 DEF Delivering, IdlePump
  <2>5. Leaving' = {} /\ Leaving = {}
    BY <2>3, <2>4 DEF Leaving
  <2>6. \A m \in Msg : MaxAttempts[m] > 0 /\ m \in pump'.batch => tries[m] < MaxAttempts[m]
    BY <2>2, <2>4, <2>5 DEF CapInv
  <2> QED BY <2>3, <2>5, <2>6, QueueKeepsCap
<1>7. ASSUME NEW S \in SUBSET Msg, tries' = BumpAll(tries, S), UNCHANGED records,
             \A m \in Msg : rec'[m].attempts = IF m \in S THEN Bump(rec[m].attempts) ELSE rec[m].attempts,
             \A m \in Msg : m \notin S => rec'[m].state = rec[m].state,
             \A m \in S : m \in Leaving' \/ rec'[m].state \notin Waiting,
             \A m \in S : MaxAttempts[m] > 0 => tries[m] < MaxAttempts[m],
             \A m \in Msg \ S : m \in Leaving' <=> m \in Leaving,
             pump'.batch = pump.batch,
             \A m \in S : m \in pump.batch => m \in Leaving'
      PROVE  CapInv'
  <2> SUFFICES ASSUME NEW m \in Msg, MaxAttempts[m] > 0
               PROVE  /\ tries'[m] <= MaxAttempts[m]
                      /\ m \in records' => tries'[m] = rec'[m].attempts
                      /\ m \in records' /\ rec'[m].state \in Waiting /\ m \notin Leaving'
                           => rec'[m].attempts < MaxAttempts[m]
                      /\ m \in pump'.batch /\ m \notin Leaving' => tries'[m] < MaxAttempts[m]
    BY Zenon DEF CapInv
  <2>1. /\ tries[m] <= MaxAttempts[m]
        /\ m \in records => tries[m] = rec[m].attempts
        /\ m \in records /\ rec[m].state \in Waiting /\ m \notin Leaving
             => rec[m].attempts < MaxAttempts[m]
        /\ m \in pump.batch /\ m \notin Leaving => tries[m] < MaxAttempts[m]
    BY Zenon DEF CapInv
  <2>2. CASE m \in S
    <3>1. tries'[m] = Bump(tries[m]) /\ rec'[m].attempts = Bump(rec[m].attempts)
      BY <1>7, <2>2 DEF BumpAll
    <3>2. tries[m] < MaxAttempts[m] /\ tries[m] \in Nat /\ MaxAttempts[m] \in Nat
      BY <1>01, <1>04, <1>05, <1>7, <2>2
    <3>3. Bump(tries[m]) <= MaxAttempts[m]
      BY <1>05, <3>2 DEF Bump
    <3>4. m \in records' => tries'[m] = rec'[m].attempts
      BY <1>7, <2>1, <3>1
    <3>5. m \in Leaving' \/ rec'[m].state \notin Waiting
      BY <1>7, <2>2
    <3>6. m \in pump'.batch => m \in Leaving'
      BY <1>7, <2>2
    <3> QED BY <3>1, <3>3, <3>4, <3>5, <3>6
  <2>3. CASE m \notin S
    <3>1. tries'[m] = tries[m] /\ rec'[m].attempts = rec[m].attempts /\ rec'[m].state = rec[m].state
      BY <1>7, <2>3 DEF BumpAll
    <3>2. (m \in Leaving' <=> m \in Leaving) /\ (m \in pump'.batch <=> m \in pump.batch)
          /\ (m \in records' <=> m \in records)
      BY <1>7, <2>3
    <3> QED BY <2>1, <3>1, <3>2
  <2> QED BY <2>2, <2>3
<1>8. CASE BeginDispatch
  <2>1. PICK m \in Locals(pump.batch) :
          /\ rec' = [rec EXCEPT ![m].attempts = Bump(@)]
          /\ tries' = BumpAll(tries, {m})
          /\ pump' = [pump EXCEPT !.pc = "dispatch", !.current = {m}]
    BY <1>8 DEF BeginDispatch
  <2>2. m \in pump.batch /\ m \in Msg
    BY <1>03 DEF Locals
  <2>3. UNCHANGED records /\ pump.pc = "deliver"
    BY <1>8 DEF BeginDispatch
  <2>4. Leaving = {}
    BY <2>3 DEF Leaving
  <2>5. pump'.pc = "dispatch" /\ pump'.current = {m} /\ pump'.batch = pump.batch
    BY <1>02, <2>1 DEF Pumps
  <2>6. Leaving' = {m}
    BY <2>5 DEF Leaving
  <2>7. \A x \in Msg : /\ rec'[x].attempts = IF x \in {m} THEN Bump(rec[x].attempts) ELSE rec[x].attempts
                       /\ rec'[x].state = rec[x].state
    BY <1>01, <2>1, <2>2 DEF TypeOK, Record
  <2>8. MaxAttempts[m] > 0 => tries[m] < MaxAttempts[m]
    BY <2>2, <2>4 DEF CapInv
  <2> QED BY <1>7, <2>1, <2>2, <2>3, <2>4, <2>5, <2>6, <2>7, <2>8
<1>9. CASE Post
  <2> DEFINE attempts == BumpAll([m \in Msg |-> rec[m].attempts], pump.batch)
  <2>1. /\ rec' = [m \in Msg |-> [rec[m] EXCEPT !.attempts = attempts[m]]]
        /\ tries' = BumpAll(tries, pump.batch)
        /\ pump' = [pump EXCEPT !.pc = "post"]
        /\ UNCHANGED records /\ pump.pc = "deliver"
    BY <1>9 DEF Post
  <2>2. \A m \in Msg : attempts[m] = IF m \in pump.batch THEN Bump(rec[m].attempts) ELSE rec[m].attempts
    BY DEF BumpAll
  <2> HIDE DEF attempts
  <2>3. \A m \in Msg : rec'[m].attempts = attempts[m] /\ rec'[m].state = rec[m].state
    BY <1>01, <2>1 DEF Record
  <2>4. Leaving = {}
    BY <2>1 DEF Leaving
  <2>5. pump'.pc = "post" /\ pump'.batch = pump.batch
    BY <1>02, <2>1 DEF Pumps
  <2>6. Leaving' = pump.batch
    BY <2>5 DEF Leaving
  <2>7. \A m \in pump.batch : MaxAttempts[m] > 0 => tries[m] < MaxAttempts[m]
    BY <1>03, <2>4 DEF CapInv
  <2>8. \A m \in Msg : rec'[m].attempts = IF m \in pump.batch THEN Bump(rec[m].attempts) ELSE rec[m].attempts
    BY <2>2, <2>3
  <2>9. \A m \in Msg : m \notin pump.batch => rec'[m].state = rec[m].state
    BY <2>3
  <2>10. \A m \in Msg \ pump.batch : m \in Leaving' <=> m \in Leaving
    BY <2>4, <2>6
  <2>11. /\ \A m \in pump.batch : m \in Leaving' \/ rec'[m].state \notin Waiting
         /\ \A m \in pump.batch : m \in pump.batch => m \in Leaving'
    BY <2>6
  <2>12. pump.batch \in SUBSET Msg /\ tries' = BumpAll(tries, pump.batch) /\ UNCHANGED records
    BY <1>03, <2>1
  <2> QED BY <1>7, <2>5, <2>7, <2>8, <2>9, <2>10, <2>11, <2>12
<1>10. CASE EndDispatch
  <2>1. /\ RegisterAck(pump.current) /\ pump' = Delivering(pump.batch \ pump.current)
        /\ pump.pc = "dispatch" /\ UNCHANGED tries
    BY <1>10 DEF EndDispatch
  <2>2. \A m \in Msg : MaxAttempts[m] > 0 /\ m \in records' =>
           /\ m \in records /\ rec'[m].attempts = rec[m].attempts
           /\ rec'[m].state \in Waiting => rec[m].state \in Waiting /\ m \notin pump.current
    BY <1>03, <2>1, RegisterAckCap
  <2>3. pump'.batch = pump.batch \ pump.current /\ Leaving = pump.current
    BY <2>1 DEF Delivering, IdlePump, Leaving
  <2> QED BY <2>1, <2>2, <2>3, QueueKeepsCap
<1>11. CASE PostOk
  <2>1. RegisterAck(pump.batch) /\ pump' = IdlePump /\ pump.pc = "post" /\ UNCHANGED tries
    BY <1>11 DEF PostOk
  <2>2. \A m \in Msg : MaxAttempts[m] > 0 /\ m \in records' =>
           /\ m \in records /\ rec'[m].attempts = rec[m].attempts
           /\ rec'[m].state \in Waiting => rec[m].state \in Waiting /\ m \notin pump.batch
    BY <1>03, <2>1, RegisterAckCap
  <2>3. pump'.batch = {} /\ Leaving = pump.batch
    BY <2>1 DEF IdlePump, Leaving
  <2> QED BY <2>1, <2>2, <2>3, QueueKeepsCap
<1>12. CASE PostNetworkError
  <2> DEFINE over == {m \in pump.batch : GivesUp(m)}
  <2>1. /\ FailEntries(BackOff(pump.batch), over, BackOffPatches(pump.batch))
        /\ over \in SUBSET Msg /\ UNCHANGED tries /\ pump' = IdlePump /\ pump.pc = "post"
    BY <1>03, <1>12 DEF PostNetworkError
  <2>2. \A m \in pump.batch : m \notin over => ~GivesUp(m)
    OBVIOUS
  <2> HIDE DEF over
  <2>3. BackOff(pump.batch) \in [Msg -> Record]
    BY <1>03, BackOffType
  <2>4. \A m \in Msg : m \in records' =>
           /\ m \in records /\ rec'[m].attempts = BackOff(pump.batch)[m].attempts
           /\ rec'[m].state \in Waiting => m \notin over /\ BackOff(pump.batch)[m].state \in Waiting
    BY <2>1, <2>3, FailEntriesCap
  <2>5. \A m \in Msg :
              /\ BackOff(pump.batch)[m].attempts = rec[m].attempts
              /\ BackOff(pump.batch)[m].state = IF m \in pump.batch /\ ~GivesUp(m) THEN "retry_wait" ELSE rec[m].state
    BY <1>03, BackOffEffect
  <2>6. \A m \in Msg : MaxAttempts[m] > 0 /\ ~GivesUp(m) => rec[m].attempts < MaxAttempts[m]
    BY <1>01, <1>04, <1>05 DEF GivesUp
  <2>7. pump'.batch = {} /\ Leaving = pump.batch
    BY <2>1 DEF IdlePump, Leaving
  <2>8. \A m \in Msg : MaxAttempts[m] > 0 /\ m \in records' =>
           /\ m \in records /\ rec'[m].attempts = rec[m].attempts
           /\ rec'[m].state \in Waiting => (rec[m].state \in Waiting /\ m \notin Leaving)
                                           \/ rec[m].attempts < MaxAttempts[m]
    <3> SUFFICES ASSUME NEW m \in Msg, MaxAttempts[m] > 0, m \in records'
                 PROVE  /\ m \in records /\ rec'[m].attempts = rec[m].attempts
                        /\ rec'[m].state \in Waiting => (rec[m].state \in Waiting /\ m \notin Leaving)
                                           \/ rec[m].attempts < MaxAttempts[m]
      OBVIOUS
    <3>1. CASE m \in pump.batch
      <4>1. m \notin over => rec[m].attempts < MaxAttempts[m]
        BY <2>2, <2>6, <3>1
      <4> QED BY <2>4, <2>5, <4>1
    <3>2. CASE m \notin pump.batch
      BY <2>4, <2>5, <2>7, <3>2
    <3> QED BY <3>1, <3>2
  <2> QED BY <2>1, <2>7, <2>8, QueueKeepsCap
<1>13. CASE PostRejected
  <2>1. PICK patches : FailEntries(rec, pump.batch, patches)
    BY <1>13 DEF PostRejected
  <2>2. rec \in [Msg -> Record] /\ UNCHANGED tries /\ pump' = IdlePump /\ pump.pc = "post"
    BY <1>13 DEF PostRejected, TypeOK
  <2>3. \A m \in Msg : m \in records' =>
           /\ m \in records /\ rec'[m].attempts = rec[m].attempts
           /\ rec'[m].state \in Waiting => m \notin pump.batch /\ rec[m].state \in Waiting
    BY <1>03, <2>1, <2>2, FailEntriesCap
  <2>4. pump'.batch = {} /\ Leaving = pump.batch
    BY <2>2 DEF IdlePump, Leaving
  <2> QED BY <2>2, <2>3, <2>4, QueueKeepsCap
<1>14. ASSUME NEW n \in Nodes, Poll(n) PROVE CapInv'
  <2> DEFINE ready == {m \in records : /\ Scope[m] = "down" /\ Dest[m] = n
                                       /\ rec[m].state \in {"pending", "retry_wait"} /\ rec[m].due}
             taken == Oldest(ready, PollMax)
  <2>1. /\ tries' = BumpAll(tries, taken) /\ UNCHANGED <<records, pump>>
        /\ rec' = [m \in Msg |->
              IF m \in taken
              THEN [rec[m] EXCEPT !.attempts = Bump(@), !.state = "in_flight", !.due = FALSE]
              ELSE rec[m]]
    BY <1>14 DEF Poll
  <2>2. \A m \in taken : m \in records /\ Scope[m] = "down" /\ rec[m].state \in Waiting
    BY DEF Oldest, Waiting
  <2> HIDE DEF taken
  <2>3. taken \in SUBSET Msg
    BY <2>2 DEF TypeOK
  <2>4. \A m \in taken : m \notin pump.batch /\ m \notin Leaving
    BY <1>03, <2>2 DEF LifeInv, Leaving
  <2>5. \A m \in taken : MaxAttempts[m] > 0 => tries[m] < MaxAttempts[m]
    BY <2>2, <2>3, <2>4 DEF CapInv
  <2>6. \A m \in Msg : IF m \in taken THEN rec'[m].attempts = Bump(rec[m].attempts) /\ rec'[m].state = "in_flight"
                       ELSE rec'[m] = rec[m]
    BY <1>01, <2>1 DEF Record
  <2>7. Leaving' = Leaving /\ pump'.batch = pump.batch
    BY <2>1 DEF Leaving
  <2>8. \A m \in taken : rec'[m].state \notin Waiting
    BY <2>3, <2>6 DEF Waiting
  <2>9. \A m \in Msg : m \notin taken => rec'[m].state = rec[m].state
    BY <2>6
  <2>10. \A m \in Msg : rec'[m].attempts = IF m \in taken THEN Bump(rec[m].attempts) ELSE rec[m].attempts
    BY <2>6
  <2> QED BY <1>7, <2>1, <2>3, <2>4, <2>5, <2>7, <2>8, <2>9, <2>10
<1>15. ASSUME NEW n \in Nodes, Ack(n) PROVE CapInv'
  <2>1. PICK S : RegisterAck(S \cap records)
    BY <1>15 DEF Ack
  <2>2. S \cap records \in SUBSET Msg /\ UNCHANGED <<pump, tries>>
    BY <1>15 DEF Ack, TypeOK
  <2>3. \A m \in Msg : MaxAttempts[m] > 0 /\ m \in records' =>
           /\ m \in records /\ rec'[m].attempts = rec[m].attempts
           /\ rec'[m].state \in Waiting => rec[m].state \in Waiting /\ m \notin S \cap records
    BY <2>1, <2>2, RegisterAckCap
  <2>4. Leaving' = Leaving /\ pump'.batch = pump.batch
    BY <2>2 DEF Leaving
  <2> QED BY <2>2, <2>3, <2>4, QueueKeepsCap
<1>16. CASE Crash \/ Cleanup
  BY <1>16 DEF Crash, Cleanup, Uninterrupted, TypeOK
<1>17. CASE Recover
  <2>1. DOMAIN disk = {}
    BY <1>17 DEF Recover, LifeInv
  <2>2. /\ records' = records \cup Revived /\ UNCHANGED <<pump, tries>>
        /\ rec' = [m \in Msg |-> IF m \in Revived THEN Revive(m) ELSE rec[m]]
    BY <1>17 DEF Recover
  <2>3. Revived = {}
    BY <2>1 DEF Revived
  <2>4. records' = records /\ \A m \in Msg : rec'[m] = rec[m]
    BY <2>2, <2>3
  <2> QED BY <1>2, <2>2, <2>4
<1>18. ASSUME NEW j \in jobs, JobDone(j) \/ JobFails(j) PROVE CapInv'
  BY <1>4, <1>18 DEF JobDone, JobFails, past
<1>19. ASSUME NEW g \in Grp, Age(g) PROVE CapInv'
  BY <1>4, <1>19 DEF Age, mem, past
<1>20. CASE UNCHANGED vars
  BY <1>4, <1>20 DEF vars, mem, past
<1> QED
  BY <1>1, <1>3, <1>5, <1>6, <1>8, <1>9, <1>10, <1>11, <1>12, <1>13, <1>14,
     <1>15, <1>16, <1>17, <1>18, <1>19, <1>20 DEF Next, PumpStep

\* While the process lives, no message is sent more often than its max_attempts, whatever
\* deadlines, late acks and retries come in between (_failure, _take_down, _deliver).
THEOREM CapIsHard == ASSUME Uninterrupted, OneSuccess PROVE Spec => []HardCap
<1>1. TypeOK /\ DurableInv /\ LifeInv /\ CapInv /\ [Next]_vars => CapInv'
  BY StepCap
<1>2. CapInv => HardCap
  BY DEF CapInv, HardCap
<1> QED BY <1>1, <1>2, InitCap, TypeCorrect, DurableAlways, LifeAlways, PTL DEF Spec

-----------------------------------------------------------------------------
(* Failed groups leave *)

\* Nothing is evicted, and what leaves the node needs a confirmed delivery.
Roomy == Cardinality(Msg) <= QueueMax
Answered == \A m \in Msg : MinSuccess[m] > 0 \/ Scope[m] = "local"

\* Why a group that failed altogether leaves: a group in the queue is short of its successes.
GroupInv ==
  /\ FailedGroupsLeave
  /\ \A m \in records : MinSuccess[m] > 0 => ~Enough(rec, m)
  /\ \A m \in records : MinSuccess[m] = 0 => rec[m].state # "failed"
  /\ \A m \in Msg : fate[m] # "dropped"

LEMMA InitGroups == Init => GroupInv
BY DEF Init, GroupInv, FailedGroupsLeave

LEMMA GroupFacts ==
  ASSUME TypeOK, NEW r \in [Msg -> Record], NEW g
  PROVE  /\ GroupRecords(g) \subseteq Msg /\ IsFiniteSet(GroupRecords(g))
         /\ Acks(r, g) \in Nat
         /\ \A m \in Msg : m \in GroupRecords(g) <=> m \in records /\ GroupOf[m] = g
<1> DEFINE f == [m \in Msg |-> r[m].acks]
           S == GroupRecords(g)
<1>1. /\ S \subseteq Msg /\ IsFiniteSet(S)
      /\ \A m \in Msg : m \in S <=> m \in records /\ GroupOf[m] = g
  BY OutboxAssumption, FS_Subset DEF GroupRecords, TypeOK
<1>2. \A m \in Msg : r[m].acks \in Nat
  BY DEF Record
<1>3. \A m \in S : f[m] \in Nat
  BY <1>1, <1>2
<1>4. Acks(r, g) = Total(f, S)
  BY DEF Acks
<1> HIDE DEF f, S
<1>5. Total(f, S) \in Nat
  BY <1>1, <1>3, TotalType
<1> QED BY <1>1, <1>4, <1>5 DEF S

\* A group has no more successes than the records it is made of.
LEMMA AcksShrink ==
  ASSUME TypeOK, TypeOK', NEW r \in [Msg -> Record], NEW g,
         \A m \in Msg : m \in records' /\ GroupOf[m] = g =>
           (m \in records /\ rec'[m].acks <= r[m].acks) \/ rec'[m].acks = 0
  PROVE  Acks(rec, g)' <= Acks(r, g) /\ Acks(rec, g)' \in Nat /\ Acks(r, g) \in Nat
<1> DEFINE f == [m \in Msg |-> rec'[m].acks]
           h == [m \in Msg |-> r[m].acks]
           S == GroupRecords(g)'
           T == GroupRecords(g)
<1>1. \A m \in Msg : rec'[m].acks \in Nat /\ r[m].acks \in Nat
  BY DEF TypeOK, Record
<1>2. /\ S \subseteq Msg /\ IsFiniteSet(S)
      /\ \A m \in Msg : m \in S <=> m \in records' /\ GroupOf[m] = g
  BY OutboxAssumption, FS_Subset DEF GroupRecords, TypeOK
<1>3. /\ T \subseteq Msg /\ IsFiniteSet(T)
      /\ \A m \in Msg : m \in T <=> m \in records /\ GroupOf[m] = g
  BY GroupFacts
<1>4. \A m \in Msg : f[m] \in Nat /\ h[m] \in Nat
  BY <1>1
<1>5. Acks(rec, g)' = Total(f, S) /\ Acks(r, g) = Total(h, T)
  BY DEF Acks
<1>6. \A m \in Msg : f[m] = rec'[m].acks /\ h[m] = r[m].acks
  OBVIOUS
<1> HIDE DEF f, h, S, T
<1>7. \A m \in S : (m \in T /\ f[m] <= h[m]) \/ f[m] = 0
  BY <1>2, <1>3, <1>6
<1>8. Total(f, S) <= Total(h, T) /\ Total(f, S) \in Nat /\ Total(h, T) \in Nat
  <2>1. (\A m \in S : f[m] \in Nat) /\ (\A m \in T : h[m] \in Nat)
    BY <1>2, <1>3, <1>4
  <2>2. Total(f, S) <= Total(h, T)
    BY <1>2, <1>3, <1>7, <2>1, TotalMonotone
  <2>3. Total(f, S) \in Nat
    BY <1>2, <2>1, TotalType
  <2>4. Total(h, T) \in Nat
    BY <1>3, <2>1, TotalType
  <2> QED BY <2>2, <2>3, <2>4
<1> QED BY <1>5, <1>8

\* ... the same for two sets of record objects of one queue.
LEMMA AcksSame ==
  ASSUME TypeOK, NEW r \in [Msg -> Record], NEW g,
         \A m \in Msg : m \in records /\ GroupOf[m] = g => r[m].acks <= rec[m].acks
  PROVE  Acks(r, g) <= Acks(rec, g) /\ Acks(r, g) \in Nat /\ Acks(rec, g) \in Nat
<1> DEFINE f == [m \in Msg |-> r[m].acks]
           h == [m \in Msg |-> rec[m].acks]
           T == GroupRecords(g)
<1>0. rec \in [Msg -> Record]
  BY DEF TypeOK
<1>1. \A m \in Msg : rec[m].acks \in Nat /\ r[m].acks \in Nat
  BY <1>0 DEF Record
<1>2. /\ T \subseteq Msg /\ IsFiniteSet(T)
      /\ \A m \in Msg : m \in T <=> m \in records /\ GroupOf[m] = g
  BY GroupFacts
<1>3. Acks(r, g) = Total(f, T) /\ Acks(rec, g) = Total(h, T)
  BY DEF Acks
<1>4. \A m \in T : m \in Msg /\ f[m] \in Nat /\ h[m] \in Nat /\ f[m] <= h[m]
  BY <1>1, <1>2
<1> HIDE DEF f, h, T
<1>5. Total(f, T) <= Total(h, T)
  BY <1>2, <1>4, TotalMonotone
<1>6. Total(f, T) \in Nat /\ Total(h, T) \in Nat
  BY <1>2, <1>4, TotalType
<1> QED BY <1>3, <1>5, <1>6

\* Steps that settle nothing: the queue gets new records, the old ones keep their successes.
LEMMA QueueKeepsGroups ==
  ASSUME TypeOK, TypeOK', GroupInv, records \subseteq records',
         \A m \in Msg : m \in records' /\ m \notin records
                        => rec'[m].acks = 0 /\ rec'[m].state = "pending",
         \A m \in Msg : m \in records => /\ rec'[m].acks = rec[m].acks
                                         /\ rec'[m].state = "failed" <=> rec[m].state = "failed",
         \A m \in Msg : fate'[m] # "dropped"
  PROVE  GroupInv'
<1>0. /\ records \subseteq Msg /\ records' \subseteq Msg
      /\ rec \in [Msg -> Record] /\ \A m \in Msg : rec[m].acks \in Nat
  BY DEF TypeOK, Record
<1>1. FailedGroupsLeave'
  <2> SUFFICES ASSUME NEW m \in records', rec'[m].state = "failed"
               PROVE  \E x \in GroupRecords(GroupOf[m])' : rec'[x].state # "failed"
    BY DEF FailedGroupsLeave
  <2>1. m \in records /\ rec[m].state = "failed"
    BY <1>0
  <2>2. PICK x \in GroupRecords(GroupOf[m]) : rec[x].state # "failed"
    BY <2>1 DEF GroupInv, FailedGroupsLeave
  <2>3. x \in records /\ GroupOf[x] = GroupOf[m]
    BY DEF GroupRecords
  <2>4. x \in GroupRecords(GroupOf[m])'
    BY <2>3 DEF GroupRecords
  <2> QED BY <1>0, <2>2, <2>3, <2>4
<1>2. ASSUME NEW m \in records', MinSuccess[m] > 0 PROVE ~Enough(rec, m)'
  <2> DEFINE g == GroupOf[m]
  <2>1. \A x \in Msg : x \in records' => (x \in records /\ rec'[x].acks <= rec[x].acks) \/ rec'[x].acks = 0
    BY <1>0
  <2>2. Acks(rec, g)' <= Acks(rec, g) /\ Acks(rec, g)' \in Nat /\ Acks(rec, g) \in Nat
    BY <1>0, <2>1, AcksShrink
  <2>3. MinSuccess[m] \in Nat /\ m \in Msg
    BY <1>0, OutboxAssumption
  <2>4. CASE \E x \in records : GroupOf[x] = g
    <3>1. PICK x \in records : GroupOf[x] = g
      BY <2>4
    <3>2. MinSuccess[x] = MinSuccess[m]
      BY <1>0, <3>1, GroupsAssumption
    <3>3. ~Enough(rec, x)
      BY <1>2, <3>1, <3>2 DEF GroupInv
    <3>4. ~(Acks(rec, g) >= MinSuccess[m])
      BY <3>1, <3>2, <3>3 DEF Enough
    <3> QED BY <2>2, <2>3, <3>4 DEF Enough
  <2>5. CASE ~ \E x \in records : GroupOf[x] = g
    <3> DEFINE f == [x \in Msg |-> rec'[x].acks]
               S == GroupRecords(g)'
    <3>1. IsFiniteSet(S) /\ S \subseteq Msg /\ \A x \in S : x \in records' /\ x \notin records
      BY <1>0, <2>5, OutboxAssumption, FS_Subset DEF GroupRecords
    <3>2. \A x \in S : f[x] = 0
      BY <3>1
    <3>3. Acks(rec, g)' = Total(f, S)
      BY DEF Acks
    <3> HIDE DEF f, S, g
    <3>4. IsFiniteSet({}) /\ Total(f, {}) = 0
      BY TotalUnfolds, FS_EmptySet
    <3>5. (\A x \in S : f[x] \in Nat) /\ (\A x \in {} : f[x] \in Nat)
      BY <3>2
    <3>6. Total(f, S) <= Total(f, {})
      BY <3>1, <3>2, <3>4, <3>5, TotalMonotone
    <3>7. ~(Acks(rec, g)' >= MinSuccess[m])
      BY <1>2, <2>2, <2>3, <3>3, <3>4, <3>6
    <3> QED BY <3>7 DEF Enough, g
  <2> QED BY <2>4, <2>5
<1>3. ASSUME NEW m \in records', MinSuccess[m] = 0 PROVE rec'[m].state # "failed"
  BY <1>0, <1>3 DEF GroupInv
<1> QED BY <1>1, <1>2, <1>3 DEF GroupInv

\* Confirmed deliveries settle a group as soon as it has its successes.
LEMMA RegisterAckKeepsGroups ==
  ASSUME TypeOK, TypeOK', GroupInv, NEW S \in SUBSET records, RegisterAck(S)
  PROVE  GroupInv'
<1>0. /\ records \subseteq Msg /\ S \in SUBSET Msg
      /\ rec \in [Msg -> Record] /\ \A m \in Msg : rec[m].acks \in Nat
  BY DEF TypeOK, Record
<1>1. PICK r \in [Msg -> Record], done \in SUBSET Grp, patches \in SUBSET Job :
              /\ Finish(r, done, {}, patches)
              /\ \A m \in Msg :
                   /\ r[m].attempts = rec[m].attempts
                   /\ r[m].saved = rec[m].saved /\ r[m].saveFailed = rec[m].saveFailed
                   /\ m \in S /\ rec[m].state # "failed"
                        => r[m].acks = Bump(rec[m].acks) /\ r[m].state = "pending"
                   /\ ~(m \in S /\ rec[m].state # "failed") => r[m] = rec[m]
                   /\ m \in S /\ rec[m].state # "failed" /\ Enough(r, m) => GroupOf[m] \in done
              /\ \A g \in done : \E x \in S : rec[x].state # "failed" /\ GroupOf[x] = g /\ Enough(r, x)
              /\ \A j \in patches : j.col = "acks" /\ j.val = r[j.id].acks
  BY <1>0, RegisterAckEffect
<1> DEFINE hit(m) == m \in S /\ rec[m].state # "failed"
<1>2. /\ \A m \in Msg : hit(m) => r[m].state = "pending"
      /\ \A m \in Msg : ~hit(m) => r[m] = rec[m]
      /\ \A m \in Msg : hit(m) /\ Enough(r, m) => GroupOf[m] \in done
  BY <1>1
<1> HIDE DEF hit
<1>3. \A m \in records' : m \in Msg /\ m \in records /\ rec'[m] = r[m] /\ GroupOf[m] \notin done \cup {}
  BY <1>1, FinishRest
<1>4. \A m \in records : GroupOf[m] \notin done => m \in records'
  BY <1>1 DEF Finish, Remaining
<1>5. FailedGroupsLeave'
  <2> SUFFICES ASSUME NEW m \in records', rec'[m].state = "failed"
               PROVE  \E x \in GroupRecords(GroupOf[m])' : rec'[x].state # "failed"
    BY DEF FailedGroupsLeave
  <2>1. m \in records /\ rec[m].state = "failed" /\ GroupOf[m] \notin done
    <3>1. m \in Msg /\ m \in records /\ r[m].state = "failed" /\ GroupOf[m] \notin done
      BY <1>3
    <3>2. ~hit(m)
      BY <1>2, <3>1
    <3> QED BY <1>2, <3>1, <3>2
  <2>2. PICK x \in GroupRecords(GroupOf[m]) : rec[x].state # "failed"
    BY <2>1 DEF GroupInv, FailedGroupsLeave
  <2>3. x \in records /\ GroupOf[x] = GroupOf[m]
    BY DEF GroupRecords
  <2>4. x \in records' /\ rec'[x] = r[x] /\ x \in Msg
    BY <1>3, <1>4, <2>1, <2>3
  <2>5. r[x].state # "failed"
    BY <1>2, <2>2, <2>4
  <2>6. x \in GroupRecords(GroupOf[m])'
    BY <2>3, <2>4 DEF GroupRecords
  <2> QED BY <2>4, <2>5, <2>6
<1>6. ASSUME NEW m \in records', MinSuccess[m] > 0 PROVE ~Enough(rec, m)'
  <2> DEFINE g == GroupOf[m]
  <2>1. m \in Msg /\ m \in records /\ g \notin done
    BY <1>3
  <2>2. \A x \in Msg : r[x].acks \in Nat
    BY DEF Record
  <2>3. \A x \in Msg : x \in records' => x \in records /\ rec'[x].acks <= r[x].acks
    BY <1>3, <2>2
  <2>4. Acks(rec, g)' <= Acks(r, g) /\ Acks(rec, g)' \in Nat /\ Acks(r, g) \in Nat
    BY <2>3, AcksShrink
  <2>5. MinSuccess[m] \in Nat
    BY <2>1, OutboxAssumption
  <2>6. CASE \E x \in S : hit(x) /\ GroupOf[x] = g
    <3>1. PICK x \in S : hit(x) /\ GroupOf[x] = g
      BY <2>6
    <3>2. x \in Msg /\ ~Enough(r, x)
      BY <1>0, <1>2, <2>1, <3>1
    <3>3. MinSuccess[x] = MinSuccess[m]
      BY <2>1, <3>1, <3>2, GroupsAssumption
    <3>4. ~(Acks(r, g) >= MinSuccess[m])
      BY <3>1, <3>2, <3>3 DEF Enough
    <3> QED BY <2>4, <2>5, <3>4 DEF Enough
  <2>7. CASE ~ \E x \in S : hit(x) /\ GroupOf[x] = g
    <3>1. \A x \in Msg : GroupOf[x] = g => r[x] = rec[x]
      BY <1>2, <2>7 DEF hit
    <3>2. \A x \in Msg : x \in records /\ GroupOf[x] = g => r[x].acks <= rec[x].acks
      BY <1>0, <3>1
    <3>3. Acks(r, g) <= Acks(rec, g) /\ Acks(r, g) \in Nat /\ Acks(rec, g) \in Nat
      BY <3>2, AcksSame
    <3>4. ~(Acks(rec, g) >= MinSuccess[m])
      BY <1>6, <2>1 DEF GroupInv, Enough
    <3> QED BY <2>4, <2>5, <3>3, <3>4 DEF Enough
  <2> QED BY <2>6, <2>7
<1>7. ASSUME NEW m \in records', MinSuccess[m] = 0 PROVE rec'[m].state # "failed"
  <2>1. m \in Msg /\ m \in records /\ rec'[m] = r[m]
    BY <1>3
  <2>2. rec[m].state # "failed"
    BY <1>7, <2>1 DEF GroupInv
  <2> QED BY <1>2, <2>1, <2>2
<1>8. \A m \in Msg : fate'[m] # "dropped"
  BY <1>1 DEF Finish, GroupInv
<1> QED BY <1>5, <1>6, <1>7, <1>8 DEF GroupInv

\* Failures settle a group with the last of its records.
LEMMA FailEntriesKeepsGroups ==
  ASSUME TypeOK, TypeOK', GroupInv, NEW r0 \in [Msg -> Record], NEW S \in SUBSET records, NEW patches,
         FailEntries(r0, S, patches),
         \A m \in Msg : /\ r0[m].acks = rec[m].acks
                        /\ r0[m].state = "failed" => rec[m].state = "failed",
         \A m \in S : MinSuccess[m] > 0
  PROVE  GroupInv'
<1>0. /\ records \subseteq Msg /\ S \in SUBSET Msg
      /\ rec \in [Msg -> Record] /\ \A m \in Msg : rec[m].acks \in Nat
  BY DEF TypeOK, Record
<1>01. /\ Failing(r0, S) \in [Msg -> Record]
       /\ Finish(Failing(r0, S), {}, Doomed(r0, S), patches)
       /\ \A m \in Msg :
            /\ Failing(r0, S)[m].acks = r0[m].acks
            /\ Failing(r0, S)[m].state = IF m \in S THEN "failed" ELSE r0[m].state
       /\ \A m \in S : Short(Failing(r0, S), m) => GroupOf[m] \in Doomed(r0, S)
  BY <1>0, FailEntriesEffect
<1>1. PICK r \in [Msg -> Record] :
        /\ Finish(r, {}, Doomed(r0, S), patches)
        /\ \A m \in Msg :
             /\ r[m].acks = r0[m].acks
             /\ r[m].state = IF m \in S THEN "failed" ELSE r0[m].state
        /\ \A m \in S : Short(r, m) => GroupOf[m] \in Doomed(r0, S)
  BY <1>01, Zenon
<1>11. \A m \in Msg : /\ r[m].acks = rec[m].acks
                      /\ r[m].state = "failed" => m \in S \/ rec[m].state = "failed"
  BY <1>1
<1> DEFINE failed == Doomed(r0, S)
<1> HIDE DEF failed
<1>2. \A m \in records' : m \in Msg /\ m \in records /\ rec'[m] = r[m] /\ GroupOf[m] \notin failed
  <2>1. \A m \in records' : m \in Msg /\ m \in records /\ rec'[m] = r[m]
                            /\ GroupOf[m] \notin {} \cup Doomed(r0, S)
    BY <1>1, FinishRest
  <2> QED BY <2>1 DEF failed
<1>3. \A m \in records : GroupOf[m] \notin failed => m \in records'
  BY <1>1 DEF Finish, Remaining, failed
<1>4. FailedGroupsLeave'
  <2> SUFFICES ASSUME NEW m \in records', rec'[m].state = "failed",
                      \A x \in GroupRecords(GroupOf[m])' : rec'[x].state = "failed"
               PROVE  FALSE
    BY DEF FailedGroupsLeave
  <2> DEFINE g == GroupOf[m]
  <2>1. m \in Msg /\ m \in records /\ r[m].state = "failed" /\ g \notin failed
    BY <1>2
  <2>2. \A x \in records : GroupOf[x] = g => r[x].state = "failed"
    <3> SUFFICES ASSUME NEW x \in records, GroupOf[x] = g PROVE r[x].state = "failed"
      OBVIOUS
    <3>1. x \in records'
      BY <1>3, <2>1
    <3>2. x \in GroupRecords(GroupOf[m])'
      BY <3>1 DEF GroupRecords
    <3> QED BY <1>2, <3>1, <3>2
  <2>3. CASE \E x \in S : GroupOf[x] = g
    <3>1. PICK x \in S : GroupOf[x] = g
      BY <2>3
    <3>2. x \in records /\ x \in Msg /\ MinSuccess[x] > 0
      BY <1>0
    <3>3. ~Short(r, x)
      BY <1>1, <2>1, <3>1 DEF failed
    <3>4. Enough(r, x)
      BY <2>2, <3>1, <3>3 DEF Short, GroupRecords
    <3>5. \A y \in Msg : y \in records /\ GroupOf[y] = g => r[y].acks <= rec[y].acks
      BY <1>0, <1>11
    <3>6. Acks(r, g) <= Acks(rec, g) /\ Acks(r, g) \in Nat /\ Acks(rec, g) \in Nat
      BY <1>1, <3>5, AcksSame
    <3>7. ~(Acks(rec, g) >= MinSuccess[x])
      BY <3>1, <3>2 DEF GroupInv, Enough
    <3>8. Acks(r, g) >= MinSuccess[x] /\ MinSuccess[x] \in Nat
      BY <3>1, <3>2, <3>4, OutboxAssumption DEF Enough
    <3> QED BY <3>6, <3>7, <3>8
  <2>4. CASE ~ \E x \in S : GroupOf[x] = g
    <3>1. \A x \in records : GroupOf[x] = g => rec[x].state = "failed"
      BY <1>0, <1>11, <2>2, <2>4
    <3>2. PICK x \in GroupRecords(g) : rec[x].state # "failed"
      BY <2>1, <3>1 DEF GroupInv, FailedGroupsLeave
    <3> QED BY <3>1, <3>2 DEF GroupRecords
  <2> QED BY <2>3, <2>4
<1>5. ASSUME NEW m \in records', MinSuccess[m] > 0 PROVE ~Enough(rec, m)'
  <2> DEFINE g == GroupOf[m]
  <2>1. m \in Msg /\ m \in records
    BY <1>2
  <2>2. \A x \in Msg : x \in records' => x \in records /\ rec'[x].acks <= rec[x].acks
    BY <1>0, <1>11, <1>2
  <2>3. Acks(rec, g)' <= Acks(rec, g) /\ Acks(rec, g)' \in Nat /\ Acks(rec, g) \in Nat
    BY <1>0, <2>2, AcksShrink
  <2>4. MinSuccess[m] \in Nat
    BY <2>1, OutboxAssumption
  <2>5. ~(Acks(rec, g) >= MinSuccess[m])
    BY <1>5, <2>1 DEF GroupInv, Enough
  <2> QED BY <2>3, <2>4, <2>5 DEF Enough
<1>6. ASSUME NEW m \in records', MinSuccess[m] = 0 PROVE rec'[m].state # "failed"
  <2>1. m \in Msg /\ m \in records /\ rec'[m] = r[m]
    BY <1>2
  <2>2. rec[m].state # "failed" /\ m \notin S
    BY <1>6, <2>1 DEF GroupInv
  <2> QED BY <1>11, <2>1, <2>2
<1>7. \A m \in Msg : fate'[m] # "dropped"
  BY <1>1 DEF Finish, GroupInv
<1> QED BY <1>4, <1>5, <1>6, <1>7 DEF GroupInv

LEMMA RoomyKeepsAll ==
  ASSUME Roomy, NEW S \in SUBSET Msg, NEW order, \A m \in Msg : order[m] \in Nat
  PROVE  Newest(S, order, QueueMax) = S
<1> SUFFICES ASSUME NEW m \in S
             PROVE  Cardinality({x \in S : order[x] > order[m]}) < QueueMax
  BY DEF Newest
<1> DEFINE T == {x \in S : order[x] > order[m]}
<1>1. m \in Msg /\ order[m] \in Nat /\ IsFiniteSet(Msg) /\ QueueMax \in Nat
  BY OutboxAssumption
<1>2. T \subseteq Msg \ {m}
  BY <1>1
<1>3. /\ IsFiniteSet(Msg \ {m}) /\ Cardinality(Msg \ {m}) = Cardinality(Msg) - 1
      /\ Cardinality(Msg) \in Nat
  BY <1>1, FS_RemoveElement, FS_CardinalityType
<1> HIDE DEF T
<1>4. IsFiniteSet(T) /\ Cardinality(T) <= Cardinality(Msg \ {m})
  BY <1>2, <1>3, FS_Subset
<1>5. Cardinality(T) \in Nat
  BY <1>4, FS_CardinalityType
<1>6. Cardinality(T) < QueueMax
  BY <1>1, <1>3, <1>4, <1>5 DEF Roomy
<1> QED BY <1>6 DEF T

LEMMA StepGroups ==
  ASSUME Uninterrupted, Roomy, Answered, TypeOK, TypeOK', DurableInv, LifeInv, GroupInv, [Next]_vars
  PROVE  GroupInv'
<1>0. /\ records \subseteq Msg /\ rec \in [Msg -> Record]
      /\ \A m \in Msg : rec[m] \in Record
  BY DEF TypeOK
<1>01. pump.batch \subseteq Msg /\ pump.current \subseteq Msg
  BY DEF TypeOK
<1>02. pump.batch \subseteq records /\ pump.current \subseteq records
  BY <1>01 DEF LifeInv, GroupInv, Open
<1>03. \A m \in Msg : fate[m] # "dropped"
  BY DEF GroupInv
<1>1. ASSUME NEW c \in Calls, Enqueue(c) PROVE GroupInv'
  <2> DEFINE new == {c[i] : i \in DOMAIN c}
             order == [m \in Msg |-> IF m \in new THEN clock + (CHOOSE i \in DOMAIN c : c[i] = m)
                                                   ELSE stamp[m]]
             all == records \cup new
             kept == Newest(all, order, QueueMax)
             evicted == all \ kept
  <2>1. /\ records' = kept /\ stamp' = order
        /\ rec' = [m \in Msg |-> IF m \in new THEN Fresh(m)
                                 ELSE IF m \in evicted THEN [rec[m] EXCEPT !.saved = FALSE]
                                 ELSE rec[m]]
        /\ fate' = [m \in Msg |-> IF m \in evicted THEN "dropped"
                                  ELSE IF m \in new THEN "queued" ELSE fate[m]]
        /\ c \notin sent
    BY <1>1 DEF Enqueue
  <2>2. \A m \in new : m \in Msg /\ fate[m] = "unsent"
    BY <2>1, NewIsUnsent
  <2> HIDE DEF new
  <2>3. all \in SUBSET Msg
    BY <1>0, <2>2
  <2>4. \A m \in Msg : order[m] \in Nat
    BY <2>1 DEF TypeOK
  <2> HIDE DEF order
  <2>5. kept = all
    BY <2>3, <2>4, RoomyKeepsAll
  <2>6. \A m \in Msg : m \in new => m \notin records
    BY <2>2 DEF LifeInv, Open
  <2>7. \A m \in Msg : Fresh(m).acks = 0 /\ Fresh(m).state = "pending"
    BY DEF Fresh
  <2>8. evicted = {}
    BY <2>5
  <2> HIDE DEF kept, evicted
  <2>9. \A m \in Msg : rec'[m] = IF m \in new THEN Fresh(m) ELSE rec[m]
    BY <2>1, <2>8
  <2>10. \A m \in Msg : fate'[m] # "dropped"
    BY <1>03, <2>1, <2>8
  <2>11. records' = records \cup new
    BY <2>1, <2>5
  <2> QED BY <2>6, <2>7, <2>9, <2>10, <2>11, QueueKeepsGroups
<1>2. ASSUME UNCHANGED records, \A m \in Msg : fate'[m] = fate[m] \/ fate'[m] # "dropped",
             \A m \in Msg : m \in records => /\ rec'[m].acks = rec[m].acks
                                             /\ rec'[m].state = "failed" <=> rec[m].state = "failed"
      PROVE  GroupInv'
  <2>1. \A m \in Msg : fate'[m] # "dropped"
    BY <1>03, <1>2
  <2> QED BY <1>2, <2>1, QueueKeepsGroups
<1>3. ASSUME NEW m \in Msg, SaveRow(m) \/ SaveRowFails(m) \/ Tick(m) PROVE GroupInv'
  <2>1. /\ \/ rec' = [rec EXCEPT ![m].saved = TRUE]
           \/ rec' = [rec EXCEPT ![m].saveFailed = TRUE]
           \/ rec' = [rec EXCEPT ![m].due = TRUE]
        /\ UNCHANGED records
    BY <1>3 DEF SaveRow, SaveRowFails, Tick, past
  <2>2. \A x \in Msg : rec'[x].acks = rec[x].acks /\ rec'[x].state = rec[x].state
    <3>1. CASE rec' = [rec EXCEPT ![m].saved = TRUE]
      BY <1>0, <3>1 DEF Record
    <3>2. CASE rec' = [rec EXCEPT ![m].saveFailed = TRUE]
      BY <1>0, <3>2 DEF Record
    <3>3. CASE rec' = [rec EXCEPT ![m].due = TRUE]
      BY <1>0, <3>3 DEF Record
    <3> QED BY <2>1, <3>1, <3>2, <3>3
  <2>3. \A x \in Msg : fate'[x] = fate[x] \/ fate'[x] # "dropped"
    <3>1. CASE SaveRow(m)
      <4>1. fate' = [fate EXCEPT ![m] = IF @ = "queued" THEN "stored" ELSE @]
        BY <3>1 DEF SaveRow
      <4> QED BY <4>1 DEF TypeOK
    <3>2. CASE SaveRowFails(m) \/ Tick(m)
      BY <3>2 DEF SaveRowFails, Tick, past
    <3> QED BY <1>3, <3>1, <3>2
  <2> QED BY <1>2, <2>1, <2>2, <2>3
<1>4. ASSUME UNCHANGED <<records, rec, fate>> PROVE GroupInv'
  BY <1>2, <1>4
<1>5. CASE PumpOnce
  <2> DEFINE late == {m \in records : /\ Scope[m] = "down" /\ rec[m].state = "in_flight"
                                      /\ rec[m].due}
             over == {m \in late : GivesUp(m)} \cup Expired
  <2>1. /\ late \in SUBSET Msg /\ over \in SUBSET records
        /\ \A m \in late : m \in Msg /\ rec[m].state = "in_flight" /\ Scope[m] = "down"
        /\ \A m \in over : m \in late \/ m \in Expired
    BY <1>0 DEF Expired
  <2>2. FailEntries(BackOff(late), over, BackOffPatches(late))
    BY <1>5 DEF PumpOnce
  <2> HIDE DEF late, over
  <2>3. BackOff(late) \in [Msg -> Record]
    BY <2>1, BackOffType
  <2>4. \A m \in Msg :
              /\ BackOff(late)[m].acks = rec[m].acks
              /\ BackOff(late)[m].state = IF m \in late /\ ~GivesUp(m) THEN "retry_wait" ELSE rec[m].state
    BY <2>1, BackOffEffect
  <2>5. \A m \in Msg : /\ BackOff(late)[m].acks = rec[m].acks
                       /\ BackOff(late)[m].state = "failed" => rec[m].state = "failed"
    BY <2>4
  <2>6. \A m \in over : MinSuccess[m] > 0
    <3> SUFFICES ASSUME NEW m \in over PROVE MinSuccess[m] > 0
      OBVIOUS
    <3>1. CASE m \in late
      BY <2>1, <3>1 DEF Answered
    <3>2. CASE m \in Expired
      <4>1. m \in Msg /\ ~(Acks(rec, GroupOf[m]) >= MinSuccess[m])
        BY <1>0, <3>2 DEF Expired, Enough
      <4>2. Acks(rec, GroupOf[m]) \in Nat
        BY <1>0, GroupFacts
      <4>3. MinSuccess[m] \in Nat
        BY <4>1, OutboxAssumption
      <4> QED BY <4>1, <4>2, <4>3
    <3> QED BY <2>1, <3>1, <3>2
  <2> QED BY <2>1, <2>2, <2>3, <2>5, <2>6, FailEntriesKeepsGroups
<1>6. CASE CloseBatch
  BY <1>4, <1>6 DEF CloseBatch, past
<1>7. CASE BeginDispatch
  <2>1. PICK m \in Locals(pump.batch) : rec' = [rec EXCEPT ![m].attempts = Bump(@)]
    BY <1>7 DEF BeginDispatch
  <2>2. \A x \in Msg : rec'[x].acks = rec[x].acks /\ rec'[x].state = rec[x].state
    BY <1>0, <2>1 DEF Record
  <2> QED BY <1>2, <1>7, <2>2 DEF BeginDispatch
<1>8. CASE EndDispatch
  BY <1>02, <1>8, RegisterAckKeepsGroups DEF EndDispatch
<1>9. CASE Post
  <2> DEFINE attempts == BumpAll([m \in Msg |-> rec[m].attempts], pump.batch)
  <2>1. rec' = [m \in Msg |-> [rec[m] EXCEPT !.attempts = attempts[m]]]
    BY <1>9 DEF Post
  <2> HIDE DEF attempts
  <2>2. \A m \in Msg : rec'[m].acks = rec[m].acks /\ rec'[m].state = rec[m].state
    BY <1>0, <2>1 DEF Record
  <2>3. UNCHANGED <<records, fate>>
    BY <1>9 DEF Post
  <2> QED BY <1>2, <2>2, <2>3
<1>10. CASE PostOk
  BY <1>02, <1>10, RegisterAckKeepsGroups DEF PostOk
<1>11. ASSUME pump.pc = "post" PROVE \A m \in pump.batch : MinSuccess[m] > 0
  BY <1>01, <1>11 DEF LifeInv, Answered
<1>12. CASE PostNetworkError
  <2> DEFINE over == {m \in pump.batch : GivesUp(m)}
  <2>1. /\ FailEntries(BackOff(pump.batch), over, BackOffPatches(pump.batch))
        /\ over \in SUBSET records /\ over \subseteq pump.batch /\ pump.pc = "post"
    BY <1>02, <1>12 DEF PostNetworkError
  <2> HIDE DEF over
  <2>2. BackOff(pump.batch) \in [Msg -> Record]
    BY <1>01, BackOffType
  <2>3. \A m \in Msg :
              /\ BackOff(pump.batch)[m].acks = rec[m].acks
              /\ BackOff(pump.batch)[m].state = IF m \in pump.batch /\ ~GivesUp(m) THEN "retry_wait" ELSE rec[m].state
    BY <1>01, BackOffEffect
  <2>5. \A m \in Msg : /\ BackOff(pump.batch)[m].acks = rec[m].acks
                       /\ BackOff(pump.batch)[m].state = "failed" => rec[m].state = "failed"
    BY <2>3
  <2> QED BY <1>11, <2>1, <2>2, <2>5, FailEntriesKeepsGroups
<1>13. CASE PostRejected
  <2>1. PICK patches : FailEntries(rec, pump.batch, patches)
    BY <1>13 DEF PostRejected
  <2>2. pump.pc = "post"
    BY <1>13 DEF PostRejected
  <2> QED BY <1>0, <1>02, <1>11, <2>1, <2>2, FailEntriesKeepsGroups
<1>14. ASSUME NEW n \in Nodes, Poll(n) PROVE GroupInv'
  <2> DEFINE ready == {m \in records : /\ Scope[m] = "down" /\ Dest[m] = n
                                       /\ rec[m].state \in {"pending", "retry_wait"} /\ rec[m].due}
             taken == Oldest(ready, PollMax)
  <2>1. /\ UNCHANGED <<records, fate>>
        /\ rec' = [m \in Msg |->
              IF m \in taken
              THEN [rec[m] EXCEPT !.attempts = Bump(@), !.state = "in_flight", !.due = FALSE]
              ELSE rec[m]]
    BY <1>14 DEF Poll
  <2>2. \A m \in taken : rec[m].state \in {"pending", "retry_wait"}
    BY DEF Oldest
  <2> HIDE DEF taken
  <2>3. \A m \in Msg : /\ rec'[m].acks = rec[m].acks
                       /\ rec'[m].state = IF m \in taken THEN "in_flight" ELSE rec[m].state
    BY <1>0, <2>1 DEF Record
  <2>4. \A m \in Msg : rec'[m].state = "failed" <=> rec[m].state = "failed"
    BY <2>2, <2>3
  <2> QED BY <1>2, <2>1, <2>3, <2>4
<1>15. ASSUME NEW n \in Nodes, Ack(n) PROVE GroupInv'
  <2>1. PICK S : RegisterAck(S \cap records)
    BY <1>15 DEF Ack
  <2>2. S \cap records \in SUBSET records
    OBVIOUS
  <2> QED BY <2>1, <2>2, RegisterAckKeepsGroups
<1>16. CASE Crash \/ Cleanup
  BY <1>16 DEF Crash, Cleanup, Uninterrupted, TypeOK
<1>17. CASE Recover
  <2>1. DOMAIN disk = {}
    BY <1>17 DEF Recover, LifeInv
  <2>2. /\ records' = records \cup Revived
        /\ rec' = [m \in Msg |-> IF m \in Revived THEN Revive(m) ELSE rec[m]]
        /\ fate' = [m \in Msg |-> IF m \in {x \in DOMAIN disk : GroupOf[x] \in aged} /\ fate[m] = "stored"
                                  THEN "failed" ELSE fate[m]]
    BY <1>17 DEF Recover
  <2>3. Revived = {}
    BY <2>1 DEF Revived
  <2>4. records' = records /\ \A m \in Msg : rec'[m] = rec[m]
    BY <2>2, <2>3
  <2>5. \A m \in Msg : fate'[m] = fate[m]
    BY <2>1, <2>2
  <2> QED BY <1>2, <2>4, <2>5
<1>18. ASSUME NEW j \in jobs, JobDone(j) \/ JobFails(j) PROVE GroupInv'
  BY <1>4, <1>18 DEF JobDone, JobFails, past
<1>19. ASSUME NEW g \in Grp, Age(g) PROVE GroupInv'
  BY <1>4, <1>19 DEF Age, mem, past
<1>20. CASE UNCHANGED vars
  BY <1>4, <1>20 DEF vars, mem, past
<1> QED
  BY <1>1, <1>3, <1>5, <1>6, <1>7, <1>8, <1>9, <1>10, <1>12, <1>13, <1>14,
     <1>15, <1>16, <1>17, <1>18, <1>19, <1>20 DEF Next, PumpStep

\* While the process lives and nothing is evicted, a failed record stays in the queue only
\* while another target of its broadcast can still succeed (_fail_entry, _finish_group).
THEOREM FailedLeave ==
  ASSUME Uninterrupted, Roomy, Answered PROVE Spec => []FailedGroupsLeave
<1>1. TypeOK /\ TypeOK' /\ DurableInv /\ LifeInv /\ GroupInv /\ [Next]_vars => GroupInv'
  BY StepGroups
<1>2. GroupInv => FailedGroupsLeave
  BY DEF GroupInv
<1> QED BY <1>1, <1>2, InitGroups, TypeCorrect, DurableAlways, LifeAlways, PTL DEF Spec

=============================================================================
