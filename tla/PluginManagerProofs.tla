------------------------- MODULE PluginManagerProofs -------------------------
(***************************************************************************)
(* Proofs about PluginManager: whatever the plugins, their versions and    *)
(* what they need, and however often an operation fails, crashes or runs   *)
(* beside a sweep, a table is claimed while it exists, the migration steps *)
(* it has seen follow one another, and at rest what runs is what the       *)
(* records say.                                                            *)
(*                                                                         *)
(* None is inductive.  A table is created and changed in steps of their    *)
(* own, long after it was claimed, so one must know that the claim is      *)
(* still there when they come (a sweep does not get between them), and the *)
(* claim is taken back in a step of its own, when the table must be gone.  *)
(* The first step a table sees is found from the version in the claims     *)
(* row, so one must know that a version has been written by then only if   *)
(* it is the last step, or if no step was run.                             *)
(*                                                                         *)
(* Records and fibers differ all the time: a replacement stops the old     *)
(* version before it writes, the boot marks a record before it asks for    *)
(* the lock, a plugin the boot has yet to come to is enabled and does not  *)
(* run.  RunInv says for every stage of an operation, and of the boot,     *)
(* which difference is left and who will take it away; what a rollback     *)
(* may rely on is that the old directory held what the old record says.    *)
(***************************************************************************)
EXTENDS PluginManager, TLAPS

Data == [row : BOOLEAN, listed : BOOLEAN, ver : Nat, keep : BOOLEAN, fp : Nat, shape : Nat,
         steps : Seq(Nat)]

ClaimedOK(d) == d.shape # 0 => d.row /\ d.listed

InOrder(s) == \A i \in 1 .. Len(s) : s[i] = s[1] + i - 1

StepsOK(d) == InOrder(d.steps) /\ (d.steps # <<>> => d.ver = d.steps[Len(d.steps)] /\ d.ver >= 2)

DataOK(d) == d \in Data /\ ClaimedOK(d) /\ StepsOK(d)

\* Where the data of op.p is changed in steps.
Changing == {"create", "migrate", "notice"}

OpOK ==
  /\ {"at", "p", "v", "old"} \subseteq DOMAIN op
  /\ op.v \in 0 .. MaxVer /\ op.old \in 0 .. MaxVer
  /\ op.at # "free" => op.p \in Plugins

DataInv ==
  /\ dirs \in [Plugins -> 0 .. MaxVer]
  /\ db \in [Plugins -> Data]
  /\ \A p \in Plugins : DataOK(db[p])
  /\ OpOK
  /\ op.at \in Changing => db[op.p].row /\ db[op.p].listed
  /\ op.at = "unclaim" => db[op.p].shape = 0

-----------------------------------------------------------------------------
(* What the steps do to the data of an owner *)

\* An owner without data.
LEMMA NoDataOK == DataOK(NoData)
BY DEF DataOK, NoData, Data, ClaimedOK, StepsOK, InOrder

\* A sequence of steps stays in order when the next one is appended.
LEMMA AppendInOrder ==
  ASSUME NEW t \in Seq(Nat), InOrder(t), NEW k \in Nat, t # <<>> => k = t[Len(t)] + 1
  PROVE  InOrder(Append(t, k))
<1> DEFINE s == Append(t, k)
<1>1. Len(s) = Len(t) + 1 /\ s[Len(t) + 1] = k /\ (\A i \in 1 .. Len(t) : s[i] = t[i]) /\ Len(t) \in Nat
  OBVIOUS
<1>2. \A i \in 1 .. Len(t) : t[i] \in Nat
  OBVIOUS
<1>3. t = <<>> <=> Len(t) = 0
  OBVIOUS
<1> HIDE DEF s
<1>4. CASE Len(t) = 0
  BY <1>1, <1>4 DEF InOrder
<1>5. CASE Len(t) # 0
  <2>1. Len(t) \in 1 .. Len(t) /\ 1 \in 1 .. Len(t)
    BY <1>1, <1>5
  <2>2. t[Len(t)] = t[1] + Len(t) - 1 /\ t[1] \in Nat
    BY <1>2, <2>1 DEF InOrder
  <2>3. k = t[1] + Len(t)
    BY <1>1, <1>3, <1>5, <2>2
  <2>4. \A i \in 1 .. Len(t) : s[i] = t[1] + i - 1
    BY <1>1 DEF InOrder
  <2>5. s[1] = t[1]
    BY <1>1, <2>1
  <2>6. ASSUME NEW i \in 1 .. Len(s) PROVE s[i] = s[1] + i - 1
    <3>1. i \in 1 .. Len(t) \/ i = Len(t) + 1
      BY <1>1
    <3> QED BY <1>1, <2>2, <2>3, <2>4, <2>5, <3>1
  <2> QED BY <2>6 DEF InOrder, s
<1> QED BY <1>4, <1>5 DEF s

\* A table that is made anew, or gone, has seen no step.
LEMMA NoStepsOK ==
  ASSUME NEW d, DataOK(d), NEW v \in Nat, v # 0 => d.row /\ d.listed
  PROVE  LET e == [d EXCEPT !.shape = v, !.steps = <<>>]
         IN  DataOK(e) /\ e.shape = v /\ (d.row => e.row) /\ (d.listed => e.listed)
<1> DEFINE z == <<>>
           e == [d EXCEPT !.shape = v, !.steps = z]
<1>1. z \in Seq(Nat) /\ InOrder(z)
  BY DEF InOrder
<1>2. z = <<>>
  OBVIOUS
<1> HIDE DEF z
<1>3. e \in Data /\ e.shape = v /\ e.steps = z /\ e.row = d.row /\ e.listed = d.listed
  BY <1>1 DEF DataOK, Data
<1>4. DataOK(e)
  BY <1>1, <1>2, <1>3 DEF DataOK, ClaimedOK, StepsOK
<1> QED BY <1>2, <1>3, <1>4

\* A claim before the table.
LEMMA ClaimOK ==
  ASSUME NEW d, DataOK(d)
  PROVE  DataOK(Claim(d))
BY DEF DataOK, Data, ClaimedOK, StepsOK, InOrder, Claim

\* A table that is claimed is created, or there already (_create_all).
LEMMA CreateOK ==
  ASSUME NEW d, DataOK(d), d.row, d.listed, NEW v \in Nat
  PROVE  DataOK(Create(d, v)) /\ Create(d, v).row /\ Create(d, v).listed
BY NoStepsOK DEF Create

\* A table at the latest model gets its version and has seen no step.
LEMMA BaselineOK ==
  ASSUME NEW d, DataOK(d), d.row, d.listed, NEW v \in Nat, d.ver = 0
  PROVE  DataOK(Baseline(d, v)) /\ Baseline(d, v).row /\ Baseline(d, v).listed
BY DEF DataOK, Data, ClaimedOK, StepsOK, InOrder, Baseline

\* A step, its version and the change of the table, in one transaction (_run_migrations).
LEMMA MigratedOK ==
  ASSUME NEW d, DataOK(d), d.row, d.listed
  PROVE  DataOK(Migrated(d)) /\ Migrated(d).row /\ Migrated(d).listed
<1> DEFINE k == NextStep(d)
           s == Append(d.steps, k)
           h == IF d.shape < k THEN k ELSE d.shape
           e == [d EXCEPT !.ver = k, !.steps = s, !.shape = h]
<1>1. d \in Data /\ d.ver \in Nat /\ d.shape \in Nat /\ d.steps \in Seq(Nat)
  BY DEF DataOK, Data
<1>2. k \in Nat /\ k >= 2 /\ (d.steps # <<>> => k = d.ver + 1)
  BY <1>1 DEF NextStep, DataOK, StepsOK
<1> HIDE DEF k
<1>3. h \in Nat
  BY <1>1, <1>2
<1>4. s \in Seq(Nat) /\ s # <<>> /\ Len(s) = Len(d.steps) + 1 /\ s[Len(s)] = k
  BY <1>1, <1>2
<1>5. InOrder(s)
  <2>1. d.steps # <<>> => k = d.steps[Len(d.steps)] + 1
    BY <1>2 DEF DataOK, StepsOK
  <2> QED BY <1>1, <1>2, <2>1, AppendInOrder DEF DataOK, StepsOK
<1> HIDE DEF s, h
<1>6. /\ e \in Data /\ e.row = d.row /\ e.listed = d.listed
      /\ e.ver = k /\ e.steps = s
  BY <1>1, <1>2, <1>3, <1>4 DEF Data
<1>7. Migrated(d) = e
  BY DEF Migrated, k, s, h
<1> HIDE DEF e
<1> QED BY <1>2, <1>4, <1>5, <1>6, <1>7 DEF DataOK, ClaimedOK, StepsOK

\* The fingerprint of the model that is running.
LEMMA FingerprintedOK ==
  ASSUME NEW d, DataOK(d), d.row, d.listed, NEW v \in Nat
  PROVE  DataOK(Fingerprinted(d, v)) /\ Fingerprinted(d, v).row /\ Fingerprinted(d, v).listed
BY DEF DataOK, Data, ClaimedOK, StepsOK, InOrder, Fingerprinted

\* Data that is left behind on purpose.
LEMMA KeptOK == ASSUME NEW d, DataOK(d) PROVE DataOK(Kept(d))
BY DEF DataOK, Data, ClaimedOK, StepsOK, InOrder, Kept

\* The table is gone while its claim still stands.
LEMMA DroppedOK == ASSUME NEW d, DataOK(d) PROVE DataOK(Dropped(d)) /\ Dropped(d).shape = 0
BY NoStepsOK DEF Dropped

\* The claim goes when the table has gone.
LEMMA UnclaimedOK == ASSUME NEW d, DataOK(d), d.shape = 0 PROVE DataOK(Unclaimed(d))
BY DEF DataOK, Data, ClaimedOK, StepsOK, InOrder, Unclaimed

-----------------------------------------------------------------------------
(* Where the operation stands *)

\* What the operation becomes: the lock is free,
LEMMA Released == Release => OpOK' /\ op'.at = "free"
BY PluginAssumption DEF Release, NoOp, OpOK

\* it goes on with the same plugin,
LEMMA WentTo ==
  ASSUME OpOK, op.at # "free", NEW s, Goto(s)
  PROVE  OpOK' /\ op'.at = s /\ op'.p = op.p
BY DEF OpOK, Goto

\* it enables a plugin,
LEMMA EnablesAs ==
  ASSUME NEW kind, NEW p \in Plugins, EnableAs(kind, p)
  PROVE  OpOK' /\ op'.at = "enable"
BY PluginAssumption DEF EnableAs, NoOp, OpOK

\* installs one,
LEMMA InstallsAs ==
  ASSUME NEW kind, NEW p \in Plugins, NEW v \in 0 .. MaxVer, InstallAs(kind, p, v)
  PROVE  OpOK' /\ op'.at = "land"
BY PluginAssumption DEF InstallAs, NoOp, OpOK

\* or replaces one, with the directory there was.
LEMMA ReplacesAs ==
  ASSUME DataInv, NEW kind, NEW p \in Plugins, NEW v \in 0 .. MaxVer, ReplaceAs(kind, p, v)
  PROVE  OpOK' /\ op'.at = "swap"
<1> DEFINE prev == records[p]
           old == dirs[p]
           was == fibers[p].ver # 0
<1>1. old \in 0 .. MaxVer
  BY DEF DataInv
<1>2. op' = [NoOp EXCEPT !.kind = kind, !.p = p, !.v = v, !.at = "swap",
                         !.prev = prev, !.old = old, !.was = was]
  BY DEF ReplaceAs
<1> HIDE DEF prev, old, was
<1> QED BY <1>1, <1>2 DEF NoOp, OpOK

\* Nothing of what the invariant is about happens.
LEMMA Idle == DataInv /\ UNCHANGED <<dirs, db, op>> => DataInv'
BY DEF DataInv, OpOK

\* The operation moves on, away from the data.
LEMMA Elsewhere ==
  ASSUME DataInv, db' = db, dirs' \in [Plugins -> 0 .. MaxVer], OpOK',
         op'.at \notin Changing, op'.at # "unclaim"
  PROVE  DataInv'
BY DEF DataInv

\* The operation changes the data of its plugin.
LEMMA DataSet ==
  ASSUME DataInv, op.at # "free", NEW d, DataOK(d), SetData(d)
  PROVE  /\ db' \in [Plugins -> Data]
         /\ \A p \in Plugins : DataOK(db'[p])
         /\ db'[op.p] = d /\ op.p \in Plugins
<1>1. op.p \in Plugins /\ d \in Data /\ db \in [Plugins -> Data]
  BY DEF DataInv, OpOK, DataOK
<1>2. db' = [db EXCEPT ![op.p] = d]
  BY DEF SetData
<1>3. \A p \in Plugins : db'[p] = IF p = op.p THEN d ELSE db[p]
  BY <1>1, <1>2
<1> QED BY <1>1, <1>2, <1>3 DEF DataInv

-----------------------------------------------------------------------------
(* The steps that change the data *)

\* sync_schema, step by step: the claim is there before the table and stays.
LEMMA SchemaKeeps ==
  ASSUME DataInv, ClaimTable \/ EnsureTable \/ RunMigration \/ Notice
  PROVE  DataInv'
<1> DEFINE d == db[op.p]
           v == dirs[op.p]
<1>1. op.at \in {"claim"} \union Changing /\ dirs' = dirs
  BY DEF ClaimTable, EnsureTable, RunMigration, Notice, Changing
<1>2. OpOK /\ op.at # "free" /\ op.p \in Plugins
  BY <1>1 DEF Changing, DataInv, OpOK
<1>3. DataOK(d) /\ v \in Nat
  BY <1>2 DEF DataInv
<1>4. op.at \in Changing => d.row /\ d.listed
  BY DEF DataInv
<1>5. ASSUME NEW e, DataOK(e), e.row, e.listed, SetData(e), OpOK', op'.p = op.p,
             op'.at \in Changing \union {"load"}
      PROVE  DataInv'
  <2>1. /\ db' \in [Plugins -> Data]
        /\ \A p \in Plugins : DataOK(db'[p])
        /\ db'[op.p] = e
    BY <1>2, <1>5, DataSet
  <2> QED BY <1>1, <1>5, <2>1 DEF DataInv, Changing
<1>6. CASE ClaimTable
  <2>1. SetData(Claim(d)) /\ Goto("create")
    BY <1>6 DEF ClaimTable
  <2>2. DataOK(Claim(d)) /\ Claim(d).row /\ Claim(d).listed
    BY <1>3, ClaimOK DEF Claim, DataOK, Data
  <2>3. OpOK' /\ op'.p = op.p /\ op'.at = "create"
    BY <1>2, <2>1, WentTo
  <2> QED BY <1>5, <2>1, <2>2, <2>3 DEF Changing
<1>7. CASE EnsureTable
  <2>1. SetData(Create(d, v)) /\ op.at = "create"
    BY <1>7 DEF EnsureTable
  <2>2. DataOK(Create(d, v)) /\ Create(d, v).row /\ Create(d, v).listed
    BY <1>3, <1>4, <2>1, CreateOK DEF Changing
  <2> DEFINE made == db[op.p].shape = 0
  <2>3. op' = [op EXCEPT !.at = "migrate", !.made = made]
    BY <1>7 DEF EnsureTable
  <2> HIDE DEF made
  <2>4. OpOK' /\ op'.p = op.p /\ op'.at = "migrate"
    BY <1>2, <2>3 DEF OpOK
  <2> QED BY <1>5, <2>1, <2>2, <2>4 DEF Changing
<1>8. CASE RunMigration
  <2>0. op.at = "migrate" /\ d.row /\ d.listed
    BY <1>4, <1>8 DEF RunMigration, Changing
  <2>1. CASE IsBaseline(d, op.made) /\ SetData(Baseline(d, v)) /\ Goto("notice")
    <3>1. DataOK(Baseline(d, v)) /\ Baseline(d, v).row /\ Baseline(d, v).listed
      BY <1>3, <2>0, <2>1, BaselineOK DEF IsBaseline
    <3>2. OpOK' /\ op'.p = op.p /\ op'.at = "notice"
      BY <1>2, <2>1, WentTo
    <3> QED BY <1>5, <2>1, <3>1, <3>2 DEF Changing
  <2>2. CASE SetData(Migrated(d)) /\ op' = [op EXCEPT !.ran = TRUE]
    <3>1. DataOK(Migrated(d)) /\ Migrated(d).row /\ Migrated(d).listed
      BY <1>3, <2>0, MigratedOK
    <3>2. OpOK' /\ op'.p = op.p /\ op'.at = "migrate"
      BY <1>2, <2>0, <2>2 DEF OpOK
    <3> QED BY <1>5, <2>2, <3>1, <3>2 DEF Changing
  <2>3. CASE db' = db /\ Goto("notice")
    <3>1. OpOK' /\ op'.p = op.p /\ op'.at = "notice"
      BY <1>2, <2>3, WentTo
    <3> QED BY <1>1, <2>0, <2>3, <3>1 DEF DataInv
  <2> QED BY <1>8, <2>1, <2>2, <2>3 DEF RunMigration
<1>9. CASE Notice
  <2>1. SetData(Fingerprinted(d, v)) /\ Goto("load") /\ op.at = "notice"
    BY <1>9 DEF Notice
  <2>2. DataOK(Fingerprinted(d, v)) /\ Fingerprinted(d, v).row /\ Fingerprinted(d, v).listed
    BY <1>3, <1>4, <2>1, FingerprintedOK DEF Changing
  <2>3. OpOK' /\ op'.p = op.p /\ op'.at = "load"
    BY <1>2, <2>1, WentTo
  <2> QED BY <1>5, <2>1, <2>2, <2>3
<1> QED BY <1>6, <1>7, <1>8, <1>9

\* drop_owner, step by step: the claim goes last.
LEMMA DropsKeep ==
  ASSUME DataInv, DropData \/ DropTable \/ UnclaimTable \/ ReleaseOwner
  PROVE  DataInv'
<1> DEFINE d == db[op.p]
<1>1. op.at \in {"data", "drop", "unclaim", "release"} /\ dirs' = dirs
  BY DEF DropData, DropTable, UnclaimTable, ReleaseOwner
<1>2. OpOK /\ op.at # "free" /\ op.p \in Plugins
  BY <1>1 DEF DataInv, OpOK
<1>3. DataOK(d) /\ dirs' \in [Plugins -> 0 .. MaxVer]
  BY <1>1, <1>2 DEF DataInv
<1>4. ASSUME NEW e, DataOK(e), SetData(e), NEW at, Goto(at), at \notin Changing,
             at = "unclaim" => e.shape = 0
      PROVE  DataInv'
  <2>1. /\ db' \in [Plugins -> Data]
        /\ \A p \in Plugins : DataOK(db'[p])
        /\ db'[op.p] = e
    BY <1>2, <1>4, DataSet
  <2>2. OpOK' /\ op'.at = at /\ op'.p = op.p
    BY <1>2, <1>4, WentTo
  <2> QED BY <1>3, <1>4, <2>1, <2>2 DEF DataInv
<1>5. ASSUME db' = db, NEW at, Goto(at), at \notin Changing, at # "unclaim"
      PROVE  DataInv'
  BY <1>2, <1>3, <1>5, WentTo, Elsewhere
<1>6. CASE DropData
  <2>1. CASE Release /\ db' = db
    BY <1>3, <2>1, Released, Elsewhere DEF Changing
  <2>2. CASE SetData(Kept(d)) /\ Goto("files")
    BY <1>3, <1>4, <2>2, KeptOK DEF Changing
  <2>3. CASE db' = db /\ Goto(IF d.listed THEN "drop" ELSE "release")
    BY <1>5, <2>3 DEF Changing
  <2> QED BY <1>6, <2>1, <2>2, <2>3 DEF DropData
<1>7. CASE DropTable
  <2>1. CASE SetData(Dropped(d)) /\ Goto("unclaim")
    BY <1>3, <1>4, <2>1, DroppedOK DEF Changing
  <2>2. CASE db' = db /\ Goto("files")
    BY <1>5, <2>2 DEF Changing
  <2> QED BY <1>7, <2>1, <2>2 DEF DropTable
<1>8. CASE UnclaimTable
  <2>1. d.shape = 0
    BY <1>8 DEF UnclaimTable, DataInv
  <2> QED BY <1>3, <1>4, <1>8, <2>1, UnclaimedOK DEF UnclaimTable, Changing
<1>9. CASE ReleaseOwner
  BY <1>4, <1>9, NoDataOK DEF ReleaseOwner, Changing
<1> QED BY <1>6, <1>7, <1>8, <1>9

\* A sweep takes the data of an owner while no operation changes a structure.
LEMMA SweepKeeps == ASSUME DataInv, NEW p \in Plugins, SweepDrops(p) PROVE DataInv'
<1>1. db' = [db EXCEPT ![p] = NoData] /\ op' = op /\ dirs' = dirs /\ ~SchemaLocked
  BY DEF SweepDrops
<1>2. NoData \in Data
  BY NoDataOK DEF DataOK
<1>3. db' \in [Plugins -> Data] /\ \A q \in Plugins : db'[q] = IF q = p THEN NoData ELSE db[q]
  BY <1>1, <1>2 DEF DataInv
<1>4. \A q \in Plugins : DataOK(db'[q])
  BY <1>3, NoDataOK DEF DataInv
<1> QED BY <1>1, <1>3, <1>4 DEF DataInv, OpOK, SchemaLocked, Changing

-----------------------------------------------------------------------------
(* The steps that change the directories, or only where the operation stands *)

\* The steps that move directories.
LEMMA FilesKeep ==
  ASSUME DataInv, Land \/ Record \/ Swap \/ Undo \/ RemoveFiles
  PROVE  DataInv'
<1>1. OpOK /\ op.at # "free" /\ op.p \in Plugins /\ db' = db
  BY DEF Land, Record, Swap, Undo, RemoveFiles, DataInv, OpOK
<1>2. op.v \in 0 .. MaxVer /\ op.old \in 0 .. MaxVer /\ 0 \in 0 .. MaxVer /\ dirs \in [Plugins -> 0 .. MaxVer]
  BY PluginAssumption DEF DataInv, OpOK
<1>3. dirs' \in [Plugins -> 0 .. MaxVer]
  BY <1>1, <1>2 DEF Land, Record, Swap, Undo, Undone, HalfUndone, RemoveFiles
<1>4. OpOK' /\ op'.at \in {"free", "record", "enable", "rerecord", "undo", "undone", "forget"}
  <2>1. CASE Release
    BY <2>1, Released
  <2>2. CASE \E s \in {"record", "enable", "undo", "undone", "forget"} : Goto(s)
    BY <1>1, <2>2, WentTo
  <2>3. CASE Swap /\ op' = [op EXCEPT !.at = "rerecord", !.moved = dirs[op.p] # 0]
    <3> DEFINE moved == dirs[op.p] # 0
    <3>1. op' = [op EXCEPT !.at = "rerecord", !.moved = moved]
      BY <2>3
    <3> HIDE DEF moved
    <3> QED BY <1>1, <3>1 DEF OpOK
  <2> QED BY <2>1, <2>2, <2>3 DEF Land, Record, Swap, Undo, RemoveFiles
<1> QED BY <1>1, <1>3, <1>4, Elsewhere DEF Changing

\* The steps that write records, start and stop.
LEMMA ProgressKeeps ==
  ASSUME DataInv, \/ ReRecord \/ UndoRecord \/ EnableRunning \/ EnableMissing \/ EnableStarts
                  \/ Loaded \/ EnableFails \/ Forget
  PROVE  DataInv'
<1>1. op.at # "free" /\ UNCHANGED <<dirs, db>>
  BY DEF ReRecord, UndoRecord, EnableRunning, EnableMissing, EnableStarts, Loaded, EnableFails, Forget,
         Refused, Broken
<1>2. OpOK /\ dirs' \in [Plugins -> 0 .. MaxVer]
  BY <1>1 DEF DataInv
<1>3. OpOK' /\ op'.at \in {"free", "enable", "undo", "claim", "load"}
  <2>1. CASE Release
    BY <2>1, Released
  <2>2. CASE \E s \in {"enable", "undo", "load"} : Goto(s)
    BY <1>1, <1>2, <2>2, WentTo
  <2>3. CASE op' = [op EXCEPT !.at = "enable", !.kind = "rollback"]
    BY <1>1, <1>2, <2>3 DEF OpOK
  <2>4. CASE op' = [op EXCEPT !.at = "claim", !.made = FALSE, !.ran = FALSE]
    BY <1>1, <1>2, <2>4 DEF OpOK
  <2> QED BY <2>1, <2>2, <2>3, <2>4
          DEF ReRecord, UndoRecord, EnableRunning, EnableMissing, EnableStarts, Loaded, EnableFails, Forget,
              AfterFailure
<1> QED BY <1>1, <1>2, <1>3, Elsewhere DEF Changing

\* What an operation begins with.
LEMMA RequestsKeep ==
  ASSUME DataInv, NEW p \in Plugins, NEW v \in 0 .. MaxVer,
         \/ Install(p, v) \/ Replace(p, v) \/ Enable(p) \/ EnsureSource(p) \/ RestoreEnables(p)
         \/ \E keep, force \in BOOLEAN : Uninstall(p, keep, force)
  PROVE  DataInv'
<1>1. UNCHANGED <<dirs, db>>
  BY DEF Install, Replace, Enable, EnsureSource, RestoreEnables, Uninstall
<1>2. dirs' \in [Plugins -> 0 .. MaxVer] /\ MaxVer \in 0 .. MaxVer
  BY <1>1, PluginAssumption DEF DataInv
<1>3. CASE op' = op
  BY <1>1, <1>3, Idle
<1>4. CASE \E kind \in {"install", "ensure"}, w \in 0 .. MaxVer : InstallAs(kind, p, w)
  BY <1>1, <1>2, <1>4, InstallsAs, Elsewhere DEF Changing
<1>5. CASE \E kind \in {"replace", "ensure"}, w \in 0 .. MaxVer : ReplaceAs(kind, p, w)
  BY <1>1, <1>2, <1>5, ReplacesAs, Elsewhere DEF Changing
<1>6. CASE \E kind \in {"enable", "ensure", "restore"} : EnableAs(kind, p)
  BY <1>1, <1>2, <1>6, EnablesAs, Elsewhere DEF Changing
<1>7. CASE \E keep, force \in BOOLEAN : op' = [NoOp EXCEPT !.kind = "uninstall", !.p = p, !.at = "data",
                                                           !.keep = keep, !.force = force]
  <2>1. OpOK' /\ op'.at = "data"
    BY <1>7, PluginAssumption DEF NoOp, OpOK
  <2> QED BY <1>1, <1>2, <2>1, Elsewhere DEF Changing
<1>8. CASE Install(p, v)
  BY <1>4, <1>8 DEF Install
<1>9. CASE Replace(p, v)
  BY <1>5, <1>9 DEF Replace, StartReplace
<1>10. CASE Enable(p)
  BY <1>6, <1>10 DEF Enable
<1>11. CASE EnsureSource(p)
  BY <1>2, <1>3, <1>4, <1>5, <1>6, <1>11 DEF EnsureSource, StartReplace
<1>12. CASE RestoreEnables(p)
  BY <1>3, <1>6, <1>12 DEF RestoreEnables
<1>13. ASSUME NEW keep \in BOOLEAN, NEW force \in BOOLEAN, Uninstall(p, keep, force) PROVE DataInv'
  BY <1>3, <1>7, <1>13 DEF Uninstall
<1> QED BY <1>8, <1>9, <1>10, <1>11, <1>12, <1>13

-----------------------------------------------------------------------------
(* The invariant is inductive *)

\* Installed producers have a table at the first model.
LEMMA InitHolds == Init => DataInv
<1> SUFFICES ASSUME Init PROVE DataInv
  OBVIOUS
<1>1. PICK r \in [Plugins -> {NoRecord, [ver |-> 1, enabled |-> TRUE]}] :
        /\ dirs = [p \in Plugins |-> r[p].ver]
        /\ db = [p \in Plugins |-> IF p \in Producers /\ r[p].ver # 0
                                   THEN [NoData EXCEPT !.row = TRUE, !.listed = TRUE, !.fp = 1, !.shape = 1]
                                   ELSE NoData]
        /\ op = NoOp
  BY DEF Init
<1> DEFINE d == [NoData EXCEPT !.row = TRUE, !.listed = TRUE, !.fp = 1, !.shape = 1]
<1>2. DataOK(d)
  <2>1. NoData \in Data /\ StepsOK(NoData) /\ NoData.steps = <<>>
    BY NoDataOK DEF DataOK, NoData
  <2>2. d \in Data /\ d.row /\ d.listed /\ d.steps = NoData.steps
    BY <2>1 DEF Data
  <2> HIDE DEF d
  <2> QED BY <2>1, <2>2 DEF DataOK, ClaimedOK, StepsOK
<1> HIDE DEF d
<1>3. \A p \in Plugins : db[p] \in {d, NoData}
  BY <1>1 DEF d
<1>4. \A p \in Plugins : DataOK(db[p])
  BY <1>2, <1>3, NoDataOK
<1>5. DOMAIN db = Plugins /\ db = [p \in Plugins |-> db[p]]
  BY <1>1
<1>6. db \in [Plugins -> Data]
  BY <1>4, <1>5 DEF DataOK
<1>7. dirs \in [Plugins -> 0 .. MaxVer]
  <2>1. \A p \in Plugins : r[p].ver \in {0, 1}
    BY DEF NoRecord
  <2> QED BY <1>1, <2>1, PluginAssumption
<1>8. OpOK /\ op.at = "free"
  BY <1>1, PluginAssumption DEF NoOp, OpOK
<1> QED BY <1>4, <1>6, <1>7, <1>8 DEF DataInv, Changing

\* Every step of an operation, of the boot, the recheck, the sweep, and a crash.
LEMMA StepHolds == DataInv /\ [Next]_vars => DataInv'
<1> SUFFICES ASSUME DataInv, [Next]_vars PROVE DataInv'
  OBVIOUS
<1>1. CASE Steps
  BY <1>1, SchemaKeeps, DropsKeep, FilesKeep, ProgressKeeps DEF Steps
<1>2. CASE RestoreBegins \/ RecheckReads \/ SweepReads
  BY <1>2, Idle DEF RestoreBegins, RecheckReads, SweepReads
<1>3. CASE Crash
  <2>1. Release /\ UNCHANGED <<dirs, db>>
    BY <1>3 DEF Crash
  <2>2. dirs' \in [Plugins -> 0 .. MaxVer]
    BY <2>1 DEF DataInv
  <2> QED BY <2>1, <2>2, Released, Elsewhere DEF Changing
<1>4. ASSUME NEW p \in Plugins,
             RestoreMarks(p) \/ RestoreSkips(p) \/ RecheckDisables(p) \/ Disable(p) \/ UpdateConfig(p)
      PROVE  DataInv'
  BY <1>4, Idle DEF RestoreMarks, RestoreSkips, RecheckDisables, Disable, UpdateConfig
<1>5. ASSUME NEW p \in Plugins, SweepDrops(p) PROVE DataInv'
  BY <1>5, SweepKeeps
<1>6. 0 \in 0 .. MaxVer /\ Versions \subseteq 0 .. MaxVer
  BY PluginAssumption DEF Versions
<1>7. ASSUME NEW p \in Plugins, EnsureSource(p) \/ RestoreEnables(p) \/ Enable(p) PROVE DataInv'
  BY <1>6, <1>7, RequestsKeep
<1>8. ASSUME NEW p \in Plugins, NEW v \in Versions, Install(p, v) \/ Replace(p, v) PROVE DataInv'
  BY <1>6, <1>8, RequestsKeep
<1>9. ASSUME NEW p \in Plugins, NEW keep \in BOOLEAN, NEW force \in BOOLEAN, Uninstall(p, keep, force)
      PROVE  DataInv'
  BY <1>6, <1>9, RequestsKeep
<1>10. CASE UNCHANGED vars
  BY <1>10, Idle DEF vars
<1> QED BY <1>1, <1>2, <1>3, <1>4, <1>5, <1>7, <1>8, <1>9, <1>10 DEF Next

-----------------------------------------------------------------------------
(* Theorems *)

\* What the schema service and its callers agree on, in every reachable state.
THEOREM DataAlways == Spec => []DataInv
BY InitHolds, StepHolds, PTL DEF Spec

\* Whatever is installed, replaced, removed, swept, or cut off by a crash, a table that
\* exists is named by a claims row (claim_table, _create_all, drop_owner, self_check).
THEOREM TablesAlwaysClaimed == Spec => []TablesAreClaimed
<1>1. DataInv => TablesAreClaimed
  BY DEF DataInv, DataOK, ClaimedOK, TablesAreClaimed
<1> QED BY <1>1, DataAlways, PTL

\* For any number of versions, the migration steps a table has seen follow one another,
\* and the version that is stored is the last of them (_run_migrations).
THEOREM StepsAlwaysInOrder == Spec => []StepsInOrder
<1>1. DataInv => StepsInOrder
  BY DEF DataInv, DataOK, StepsOK, InOrder, StepsInOrder
<1> QED BY <1>1, DataAlways, PTL

-----------------------------------------------------------------------------
(* What runs is what is recorded *)

Rec == [ver : 0 .. MaxVer, enabled : BOOLEAN]
Fib == [ver : 0 .. MaxVer, live : BOOLEAN]

OpType ==
  /\ {"at", "kind", "p", "v", "prev", "old", "was", "moved"} \subseteq DOMAIN op
  /\ op.at # "free" => op.p \in Plugins
  /\ op.v \in 0 .. MaxVer /\ op.old \in 0 .. MaxVer /\ op.prev \in Rec
  /\ op.was \in BOOLEAN /\ op.moved \in BOOLEAN

RunType ==
  /\ records \in [Plugins -> Rec] /\ stored \in [Plugins -> Rec]
  /\ fibers \in [Plugins -> Fib]
  /\ dirs \in [Plugins -> 0 .. MaxVer]
  /\ todo \in [Plugins -> {"no", "live", "old"}]
  /\ boot \in [left : SUBSET Plugins, restored : BOOLEAN]
  /\ \A p \in marked : marked = {p}
  /\ OpType

Busy(p, where) == op.p = p /\ op.at \in where

Swapping == {"swap", "rerecord", "undo", "undone"}
Starting == {"claim", "create", "migrate", "notice", "load"}
Dropping == {"data", "drop", "unclaim", "release", "files", "forget"}

\* The directory holds what the record names, unless a crash or a failed rollback cut a
\* replacement.
Fits(p) == dirs[p] = 0 \/ records[p].ver \in {0, dirs[p]} \/ p \in torn

\* The boot has still to come to the plugin, or a rollback of it failed.
Lags(p) == ~boot.restored \/ todo[p] = "live" \/ p \in stranded

RecordsOK ==
  \A p \in Plugins : /\ records[p].ver = 0 => ~records[p].enabled
                     /\ stored[p].ver = 0 => ~stored[p].enabled

PluginOK(p) ==
  /\ fibers[p].live => fibers[p].ver # 0
  /\ fibers[p].ver # 0 => dirs[p] = fibers[p].ver /\ records[p].ver # 0
  /\ Fits(p) \/ Busy(p, {"rerecord", "undo", "undone"})
  /\ records[p].enabled /\ fibers[p].ver = 0
       => Lags(p) \/ Busy(p, Swapping \union Starting) \/ (Busy(p, {"enable"}) /\ dirs[p] # 0)
  /\ fibers[p].ver # 0 /\ ~records[p].enabled
       => p \in marked \/ (Busy(p, {"enable"}) /\ op.kind = "restore")

\* What the step of an operation on a plugin may rely on.
StageOK ==
  /\ op.at \in {"land", "record"} => records[op.p].ver = 0 /\ op.v # 0
  /\ op.at = "record" => dirs[op.p] = op.v
  /\ op.at \notin {"free", "land", "record"} => records[op.p].ver # 0
  /\ op.at \in Swapping \union Starting \union Dropping => fibers[op.p].ver = 0
  /\ op.at \in Starting => dirs[op.p] # 0
  /\ op.at = "swap" => op.v # 0
  /\ op.at = "rerecord" => dirs[op.p] = op.v /\ op.v # 0
  /\ op.at = "forget" => dirs[op.p] = 0
  /\ op.at = "undone" => dirs[op.p] \in {0, op.old}
  /\ op.at \in Swapping \/ op.was => op.prev.ver # 0 /\ (op.old \in {0, op.prev.ver} \/ op.p \in torn)
  /\ op.was => op.at \in Swapping \union Starting \union {"enable"}

RunInv ==
  /\ RunType
  /\ RecordsOK
  /\ \A p \in Plugins : PluginOK(p)
  /\ StageOK

-----------------------------------------------------------------------------
(* What the operation becomes *)

\* The fields of the operation that a step leaves alone.
OpKeeps ==
  /\ op'.p = op.p /\ op'.v = op.v /\ op'.prev = op.prev /\ op'.old = op.old /\ op'.was = op.was

\* What the operation becomes: the lock is free,
LEMMA FreedOp == Release => OpType' /\ op'.at = "free" /\ op'.was = FALSE
BY PluginAssumption DEF Release, NoOp, OpType, Rec, NoRecord

\* it goes on with the same plugin,
LEMMA MovedOp ==
  ASSUME OpType, op.at # "free", NEW s, Goto(s)
  PROVE  OpType' /\ op'.at = s /\ OpKeeps /\ op'.moved = op.moved /\ op'.kind = op.kind
BY DEF OpType, Goto, OpKeeps

\* it enables a plugin,
LEMMA EnableOp ==
  ASSUME NEW kind, NEW p \in Plugins, EnableAs(kind, p)
  PROVE  OpType' /\ op'.at = "enable" /\ op'.p = p /\ op'.was = FALSE /\ op'.kind = kind
BY PluginAssumption DEF EnableAs, NoOp, OpType, Rec, NoRecord

\* installs one,
LEMMA InstallOp ==
  ASSUME NEW kind, NEW p \in Plugins, NEW v \in 0 .. MaxVer, InstallAs(kind, p, v)
  PROVE  OpType' /\ op'.at = "land" /\ op'.p = p /\ op'.was = FALSE /\ op'.v = v
BY PluginAssumption DEF InstallAs, NoOp, OpType, Rec, NoRecord

\* replaces one, with its record and the directory there was,
LEMMA ReplaceOp ==
  ASSUME RunType, NEW kind, NEW p \in Plugins, NEW v \in 0 .. MaxVer, ReplaceAs(kind, p, v)
  PROVE  OpType' /\ op'.at = "swap" /\ op'.p = p /\ op'.v = v /\ op'.prev = records[p] /\ op'.old = dirs[p]
<1> DEFINE prev == records[p]
           old == dirs[p]
           was == fibers[p].ver # 0
<1>1. old \in 0 .. MaxVer /\ prev \in Rec /\ was \in BOOLEAN
  BY DEF RunType
<1>2. op' = [NoOp EXCEPT !.kind = kind, !.p = p, !.v = v, !.at = "swap",
                         !.prev = prev, !.old = old, !.was = was]
  BY DEF ReplaceAs
<1> HIDE DEF prev, old, was
<1>3. OpType' /\ op'.at = "swap" /\ op'.p = p /\ op'.v = v /\ op'.prev = prev /\ op'.old = old
  BY <1>1, <1>2 DEF NoOp, OpType
<1> QED BY <1>3 DEF prev, old

\* or removes one.
LEMMA UninstallOp ==
  ASSUME NEW p \in Plugins, NEW keep \in BOOLEAN, NEW force \in BOOLEAN,
         op' = [NoOp EXCEPT !.kind = "uninstall", !.p = p, !.at = "data", !.keep = keep, !.force = force]
  PROVE  OpType' /\ op'.at = "data" /\ op'.p = p /\ op'.was = FALSE
BY PluginAssumption DEF NoOp, OpType, Rec, NoRecord

-----------------------------------------------------------------------------
(* What happens to the records and to the other plugins *)

\* One record is written.
LEMMA OneRecord ==
  ASSUME RunType, RecordsOK, NEW p \in Plugins, NEW x \in Rec, x.ver = 0 => ~x.enabled,
         NEW r, r = [records EXCEPT ![p] = x], Save(r) \/ SaveFails(r)
  PROVE  /\ records' \in [Plugins -> Rec] /\ stored' \in [Plugins -> Rec]
         /\ RecordsOK'
         /\ records'[p] = x
         /\ \A q \in Plugins \ {p} : records'[q] = records[q]
<1>1. r \in [Plugins -> Rec] /\ r[p] = x /\ \A q \in Plugins \ {p} : r[q] = records[q]
  BY DEF RunType
<1>2. records' = r /\ stored' \in {r, stored}
  BY DEF Save, SaveFails
<1>3. \A q \in Plugins : r[q].ver = 0 => ~r[q].enabled
  BY <1>1 DEF RecordsOK
<1> QED BY <1>1, <1>2, <1>3 DEF RunType, RecordsOK

\* One flag is written.
LEMMA OneFlag ==
  ASSUME RunType, RecordsOK, NEW p \in Plugins, NEW b \in BOOLEAN, records[p].ver # 0 \/ b = FALSE
  PROVE  \E x \in Rec : /\ x.ver = records[p].ver /\ x.enabled = b
                        /\ x.ver = 0 => ~x.enabled
                        /\ [records EXCEPT ![p].enabled = b] = [records EXCEPT ![p] = x]
<1> DEFINE x == [ver |-> records[p].ver, enabled |-> b]
<1>1. x \in Rec /\ x.ver = records[p].ver /\ x.enabled = b
  BY DEF RunType, Rec
<1>2. [records[p] EXCEPT !.enabled = b] = x
  BY DEF RunType, Rec
<1>3. [records EXCEPT ![p].enabled = b] = [records EXCEPT ![p] = x]
  BY <1>2
<1>4. x.ver = 0 => ~x.enabled
  BY <1>1
<1> QED BY <1>1, <1>3, <1>4

\* The other plugins are not touched.
LEMMA Others ==
  ASSUME RunInv, NEW p \in Plugins, op.at = "free" \/ op.p # p,
         records'[p] = records[p], fibers'[p] = fibers[p], dirs'[p] = dirs[p],
         p \in torn => p \in torn', p \in marked => p \in marked', Lags(p) => Lags(p)'
  PROVE  PluginOK(p)'
<1>1. ~Busy(p, {"rerecord", "undo", "undone"}) /\ ~Busy(p, Swapping \union Starting) /\ ~Busy(p, {"enable"})
  BY DEF Busy, Swapping, Starting
<1>2. PluginOK(p)
  BY DEF RunInv
<1>3. Fits(p)'
  BY <1>1, <1>2 DEF PluginOK, Fits
<1> QED BY <1>1, <1>2, <1>3 DEF PluginOK

\* A step that is about one plugin.
LEMMA OnePlugin ==
  ASSUME RunInv, RunType', RecordsOK', NEW q \in Plugins, op.at = "free" \/ op.p = q,
         \A p \in Plugins \ {q} : /\ records'[p] = records[p] /\ fibers'[p] = fibers[p]
                                  /\ dirs'[p] = dirs[p] /\ todo'[p] = todo[p],
         torn \subseteq torn' \union {q}, stranded \subseteq stranded' \union {q},
         marked \subseteq marked' \union {q},
         boot'.restored = boot.restored,
         PluginOK(q)', StageOK'
  PROVE  RunInv'
<1>1. ASSUME NEW p \in Plugins, p # q PROVE PluginOK(p)'
  <2>1. Lags(p) => Lags(p)'
    BY <1>1 DEF Lags
  <2>2. (op.at = "free" \/ op.p # p) /\ (p \in torn => p \in torn') /\ (p \in marked => p \in marked')
    BY <1>1
  <2>3. records'[p] = records[p] /\ fibers'[p] = fibers[p] /\ dirs'[p] = dirs[p]
    BY <1>1
  <2> QED BY <2>1, <2>2, <2>3, Others
<1> QED BY <1>1 DEF RunInv

-----------------------------------------------------------------------------
(* Installation and replacement *)

\* The files of a plugin without a record land, or are taken away again.
LEMMA LandRuns == ASSUME RunInv, Land PROVE RunInv'
<1>0. PICK q \in Plugins : q = op.p
  BY DEF Land, RunInv, RunType, OpType
<1>1. op.at = "land" /\ q = op.p /\ OpType /\ op.v \in 0 .. MaxVer /\ 0 \in 0 .. MaxVer
  BY <1>0, PluginAssumption DEF Land, RunInv, RunType, OpType
<1>2. PICK d \in {0, op.v} : /\ dirs' = [dirs EXCEPT ![q] = d]
                             /\ (d = op.v /\ Goto("record")) \/ Release
  BY <1>1 DEF Land
<1>3. OpType' /\ op'.at \in {"record", "free"} /\ (op'.at = "record" => OpKeeps /\ d = op.v)
              /\ (op'.was => op.was)
  BY <1>1, <1>2, MovedOp, FreedOp DEF OpKeeps
<1>4. /\ dirs' \in [Plugins -> 0 .. MaxVer] /\ dirs'[q] = d
      /\ \A p \in Plugins \ {q} : dirs'[p] = dirs[p]
  BY <1>1, <1>2 DEF RunInv, RunType
<1>5. UNCHANGED <<records, stored, fibers, todo, boot, marked, torn, stranded>>
  BY DEF Land, tables, startup, marks
<1>6. RunType' /\ RecordsOK'
  BY <1>3, <1>4, <1>5 DEF RunInv, RunType, RecordsOK
<1>7. PluginOK(q) /\ records[q].ver = 0 /\ op.v # 0 /\ ~op.was /\ ~records[q].enabled
  BY <1>1 DEF RunInv, StageOK, RecordsOK, Swapping, Starting
<1>8. fibers[q].ver = 0 /\ ~fibers[q].live
  BY <1>7 DEF PluginOK
<1>9. PluginOK(q)'
  BY <1>5, <1>7, <1>8 DEF PluginOK, Fits
<1>10. StageOK'
  BY <1>1, <1>3, <1>4, <1>5, <1>7 DEF StageOK, Swapping, Starting, Dropping, OpKeeps
<1> QED BY <1>1, <1>4, <1>5, <1>6, <1>9, <1>10, OnePlugin

\* Its record follows, or its directory goes.
LEMMA RecordRuns == ASSUME RunInv, Record PROVE RunInv'
<1>0. PICK q \in Plugins : q = op.p
  BY DEF Record, RunInv, RunType, OpType
<1>1. op.at = "record" /\ q = op.p /\ OpType /\ op.v \in 0 .. MaxVer /\ 0 \in 0 .. MaxVer
  BY <1>0, PluginAssumption DEF Record, RunInv, RunType, OpType
<1>2. PluginOK(q) /\ records[q].ver = 0 /\ op.v # 0 /\ ~op.was /\ ~records[q].enabled /\ dirs[q] = op.v
  BY <1>1 DEF RunInv, StageOK, RecordsOK, Swapping, Starting
<1>3. fibers[q].ver = 0 /\ ~fibers[q].live
  BY <1>2 DEF PluginOK
<1>4. UNCHANGED <<fibers, todo, boot, marked, stranded>> /\ torn' = torn \ {q}
  BY <1>1 DEF Record, startup
<1>5. CASE /\ Save([records EXCEPT ![q] = [ver |-> op.v, enabled |-> FALSE]])
           /\ Goto("enable") \/ Release
           /\ dirs' = dirs
  <2> DEFINE x == [ver |-> op.v, enabled |-> FALSE]
  <2>1. x \in Rec /\ x.ver = op.v /\ ~x.enabled
    BY <1>1 DEF Rec
  <2>2. Save([records EXCEPT ![q] = x])
    BY <1>5
  <2> HIDE DEF x
  <2>3. /\ records' \in [Plugins -> Rec] /\ stored' \in [Plugins -> Rec]
        /\ RecordsOK' /\ records'[q] = x
        /\ \A p \in Plugins \ {q} : records'[p] = records[p]
    BY <1>1, <2>1, <2>2, OneRecord DEF RunInv
  <2>4. OpType' /\ op'.at \in {"enable", "free"} /\ (op'.at = "enable" => OpKeeps) /\ ~op'.was
    BY <1>1, <1>2, <1>5, MovedOp, FreedOp DEF OpKeeps
  <2>5. RunType'
    BY <1>4, <1>5, <2>3, <2>4 DEF RunInv, RunType
  <2>6. PluginOK(q)'
    BY <1>2, <1>3, <1>4, <1>5, <2>1, <2>3 DEF PluginOK, Fits
  <2>7. StageOK'
    BY <1>1, <1>2, <2>1, <2>3, <2>4 DEF StageOK, OpKeeps, Swapping, Starting, Dropping
  <2> QED BY <1>1, <1>4, <1>5, <2>3, <2>5, <2>6, <2>7, OnePlugin
<1>6. CASE SaveFails(records) /\ Release /\ dirs' = [dirs EXCEPT ![q] = 0]
  <2>1. UNCHANGED <<records, stored>>
    BY <1>6 DEF SaveFails
  <2>2. dirs' \in [Plugins -> 0 .. MaxVer] /\ dirs'[q] = 0 /\ \A p \in Plugins \ {q} : dirs'[p] = dirs[p]
    BY <1>1, <1>6 DEF RunInv, RunType
  <2>3. OpType' /\ op'.at = "free" /\ ~op'.was
    BY <1>6, FreedOp
  <2>4. RunType' /\ RecordsOK'
    BY <1>4, <2>1, <2>2, <2>3 DEF RunInv, RunType, RecordsOK
  <2>5. PluginOK(q)'
    BY <1>2, <1>3, <1>4, <2>1, <2>2 DEF PluginOK, Fits
  <2>6. StageOK'
    BY <2>3 DEF StageOK, Swapping, Starting, Dropping
  <2> QED BY <1>1, <1>4, <2>1, <2>2, <2>4, <2>5, <2>6, OnePlugin
<1> QED BY <1>1, <1>5, <1>6 DEF Record

\* The directories are exchanged, or are left as the failure found them.
LEMMA SwapRuns == ASSUME RunInv, Swap PROVE RunInv'
<1>0. PICK q \in Plugins : q = op.p
  BY DEF Swap, RunInv, RunType, OpType
<1>1. op.at = "swap" /\ q = op.p /\ OpType /\ op.v \in 0 .. MaxVer /\ 0 \in 0 .. MaxVer
  BY <1>0, PluginAssumption DEF Swap, RunInv, RunType, OpType
<1>2. PluginOK(q) /\ op.v # 0 /\ fibers[q].ver = 0 /\ records[q].ver # 0
      /\ op.prev.ver # 0 /\ (op.old \in {0, op.prev.ver} \/ q \in torn)
  BY <1>1 DEF RunInv, StageOK, Swapping
<1>3. UNCHANGED <<records, stored, fibers, todo, boot, marked, torn, stranded>>
  BY DEF Swap, tables, startup, marks
<1>4. /\ OpType' /\ OpKeeps /\ op'.at \in {"rerecord", "undo"}
      /\ op'.at = "rerecord" => dirs' = [dirs EXCEPT ![q] = op.v]
  <2>1. CASE op' = [op EXCEPT !.at = "rerecord", !.moved = dirs[q] # 0] /\ dirs' = [dirs EXCEPT ![q] = op.v]
    <3> DEFINE moved == dirs[q] # 0
    <3>1. op' = [op EXCEPT !.at = "rerecord", !.moved = moved] /\ moved \in BOOLEAN
      BY <2>1
    <3> HIDE DEF moved
    <3> QED BY <1>1, <2>1, <3>1 DEF OpType, OpKeeps
  <2>2. CASE Goto("undo")
    BY <1>1, <2>2, MovedOp
  <2> QED BY <1>1, <2>1, <2>2 DEF Swap
<1>5. /\ dirs' \in [Plugins -> 0 .. MaxVer]
      /\ \A p \in Plugins \ {q} : dirs'[p] = dirs[p]
      /\ op'.at = "rerecord" => dirs'[q] = op.v
  BY <1>1, <1>4 DEF Swap, RunInv, RunType
<1>6. RunType' /\ RecordsOK'
  BY <1>3, <1>4, <1>5 DEF RunInv, RunType, RecordsOK
<1>7. PluginOK(q)'
  BY <1>1, <1>2, <1>3, <1>4 DEF PluginOK, Busy, OpKeeps, Swapping
<1>8. StageOK'
  BY <1>1, <1>2, <1>3, <1>4, <1>5 DEF StageOK, OpKeeps, Swapping, Starting, Dropping
<1> QED BY <1>1, <1>3, <1>5, <1>6, <1>7, <1>8, OnePlugin

\* The exchange of the directories is recorded, and the old version was running or not.
LEMMA ReRecordRuns == ASSUME RunInv, ReRecord PROVE RunInv'
<1>0. PICK q \in Plugins : q = op.p
  BY DEF ReRecord, RunInv, RunType, OpType
<1>1. op.at = "rerecord" /\ q = op.p /\ OpType /\ op.v \in 0 .. MaxVer /\ op.was \in BOOLEAN
  BY <1>0 DEF ReRecord, RunInv, RunType, OpType
<1>2. PluginOK(q) /\ op.v # 0 /\ dirs[q] = op.v /\ fibers[q].ver = 0
      /\ op.prev.ver # 0 /\ (op.old \in {0, op.prev.ver} \/ q \in torn)
  BY <1>1 DEF RunInv, StageOK, Swapping
<1>3. ~fibers[q].live
  BY <1>2 DEF PluginOK
<1> DEFINE x == [ver |-> op.v, enabled |-> op.was]
<1>4. x \in Rec /\ x.ver = op.v /\ x.enabled = op.was
  BY <1>1 DEF Rec
<1>5. /\ Save([records EXCEPT ![q] = x]) \/ SaveFails([records EXCEPT ![q] = x])
      /\ \/ (op.was \/ op.kind = "ensure") /\ Goto("enable")
         \/ ~op.was /\ Release
         \/ Goto("undo")
      /\ NewObject /\ stranded' = stranded \ {q} /\ UNCHANGED <<fibers, dirs, torn>>
  BY <1>1 DEF ReRecord, Mended
<1> HIDE DEF x
<1>6. /\ records' \in [Plugins -> Rec] /\ stored' \in [Plugins -> Rec]
      /\ RecordsOK' /\ records'[q] = x
      /\ \A p \in Plugins \ {q} : records'[p] = records[p]
  BY <1>1, <1>2, <1>4, <1>5, OneRecord DEF RunInv
<1>7. /\ UNCHANGED <<boot, marked>> /\ todo' \in [Plugins -> {"no", "live", "old"}]
      /\ \A p \in Plugins \ {q} : todo'[p] = todo[p]
  BY <1>1, <1>5 DEF NewObject, Detached, RunInv, RunType
<1>8. /\ OpType' /\ op'.at \in {"enable", "undo", "free"}
      /\ op'.at # "free" => OpKeeps
      /\ op'.at = "free" => ~op.was /\ ~op'.was
  BY <1>1, <1>5, MovedOp, FreedOp
<1>9. RunType'
  BY <1>5, <1>6, <1>7, <1>8 DEF RunInv, RunType
<1>10. Fits(q)'
  BY <1>2, <1>4, <1>5, <1>6 DEF Fits
<1>11. PluginOK(q)'
  BY <1>1, <1>2, <1>3, <1>4, <1>5, <1>6, <1>8, <1>10 DEF PluginOK, Busy, OpKeeps, Swapping
<1>12. StageOK'
  BY <1>1, <1>2, <1>4, <1>5, <1>6, <1>8 DEF StageOK, OpKeeps, Swapping, Starting, Dropping
<1> QED BY <1>1, <1>5, <1>6, <1>7, <1>9, <1>11, <1>12, OnePlugin

\* The files come back, if the exchange told that they were put aside; where they do not, the
\* record stays and nothing runs.
LEMMA UndoRuns == ASSUME RunInv, Undo PROVE RunInv'
<1>0. PICK q \in Plugins : q = op.p
  BY DEF Undo, RunInv, RunType, OpType
<1>1. op.at = "undo" /\ q = op.p /\ OpType /\ op.old \in 0 .. MaxVer /\ 0 \in 0 .. MaxVer
  BY <1>0, PluginAssumption DEF Undo, RunInv, RunType, OpType
<1>2. PluginOK(q) /\ records[q].ver # 0
      /\ op.prev.ver # 0 /\ (op.old \in {0, op.prev.ver} \/ q \in torn)
  BY <1>1 DEF RunInv, StageOK, Swapping
<1>3. UNCHANGED <<records, stored, todo, boot, marked>>
  BY DEF Undo, tables, startup
<1>4. fibers' = [fibers EXCEPT ![q] = NoFiber] /\ NoFiber \in Fib
  BY <1>1, PluginAssumption DEF Undo, NoFiber, Fib
<1>5. /\ fibers' \in [Plugins -> Fib] /\ fibers'[q].ver = 0 /\ ~fibers'[q].live
      /\ \A p \in Plugins \ {q} : fibers'[p] = fibers[p]
  BY <1>4 DEF RunInv, RunType, NoFiber
<1> DEFINE d == IF op.moved THEN op.old ELSE 0
<1>6. d \in 0 .. MaxVer /\ d \in {0, op.old} /\ Undone(dirs, q, op.moved, op.old) = [dirs EXCEPT ![q] = d]
  BY <1>1 DEF Undone
<1> HIDE DEF d
<1>7. CASE dirs' = [dirs EXCEPT ![q] = d] /\ Goto("undone") /\ UNCHANGED <<torn, stranded>>
  <2>1. /\ dirs' \in [Plugins -> 0 .. MaxVer] /\ dirs'[q] = d
        /\ \A p \in Plugins \ {q} : dirs'[p] = dirs[p]
    BY <1>6, <1>7 DEF RunInv, RunType
  <2>2. OpType' /\ OpKeeps /\ op'.at = "undone"
    BY <1>1, <1>7, MovedOp
  <2>3. RunType' /\ RecordsOK'
    BY <1>3, <1>5, <2>1, <2>2 DEF RunInv, RunType, RecordsOK
  <2>4. PluginOK(q)'
    BY <1>1, <1>5, <2>2 DEF PluginOK, Busy, OpKeeps, Swapping
  <2>5. StageOK'
    BY <1>1, <1>2, <1>3, <1>5, <1>6, <1>7, <2>1, <2>2 DEF StageOK, OpKeeps, Swapping, Starting, Dropping
  <2> QED BY <1>1, <1>3, <1>5, <1>7, <2>1, <2>3, <2>4, <2>5, OnePlugin
<1>8. CASE /\ dirs' \in {[dirs EXCEPT ![q] = d], [dirs EXCEPT ![q] = 0], dirs}
           /\ Release /\ stranded' = stranded \union {q}
           /\ torn' = torn \union {p \in {q} : records[p].ver # dirs'[p]}
  <2>1. dirs' \in [Plugins -> 0 .. MaxVer] /\ \A p \in Plugins \ {q} : dirs'[p] = dirs[p]
    BY <1>1, <1>6, <1>8 DEF RunInv, RunType
  <2>2. OpType' /\ op'.at = "free" /\ ~op'.was
    BY <1>8, FreedOp
  <2>3. RunType' /\ RecordsOK'
    BY <1>3, <1>5, <2>1, <2>2 DEF RunInv, RunType, RecordsOK
  <2>4. Fits(q)' /\ Lags(q)'
    BY <1>3, <1>8 DEF Fits, Lags
  <2>5. PluginOK(q)'
    BY <1>5, <2>4 DEF PluginOK
  <2>6. StageOK'
    BY <2>2 DEF StageOK, Swapping, Starting, Dropping
  <2> QED BY <1>1, <1>3, <1>5, <1>8, <2>1, <2>3, <2>5, <2>6, OnePlugin
<1>9. \/ dirs' = [dirs EXCEPT ![q] = d] /\ Goto("undone") /\ UNCHANGED <<torn, stranded>>
      \/ /\ dirs' \in {[dirs EXCEPT ![q] = d], [dirs EXCEPT ![q] = 0], dirs}
         /\ Release /\ stranded' = stranded \union {q}
         /\ torn' = torn \union {p \in {q} : records[p].ver # dirs'[p]}
  BY <1>1, <1>6 DEF Undo, HalfUndone, marks
<1> QED BY <1>7, <1>8, <1>9

\* The record comes back, not enabled.
LEMMA UndoRecordRuns == ASSUME RunInv, UndoRecord PROVE RunInv'
<1>0. PICK q \in Plugins : q = op.p
  BY DEF UndoRecord, RunInv, RunType, OpType
<1>1. op.at = "undone" /\ q = op.p /\ OpType /\ op.prev \in Rec /\ op.was \in BOOLEAN
  BY <1>0 DEF UndoRecord, RunInv, RunType, OpType
<1>2. PluginOK(q) /\ dirs[q] \in {0, op.old} /\ fibers[q].ver = 0
      /\ op.prev.ver # 0 /\ (op.old \in {0, op.prev.ver} \/ q \in torn)
  BY <1>1 DEF RunInv, StageOK, Swapping
<1>3. ~fibers[q].live
  BY <1>2 DEF PluginOK
<1> DEFINE x == [op.prev EXCEPT !.enabled = FALSE]
<1>4. x \in Rec /\ x.ver = op.prev.ver /\ ~x.enabled
  BY <1>1 DEF Rec
<1>5. /\ Save([records EXCEPT ![q] = x]) \/ SaveFails([records EXCEPT ![q] = x])
      /\ op' = [op EXCEPT !.at = "enable", !.kind = "rollback"] \/ Release
      /\ NewObject /\ stranded' = stranded \ {q} /\ UNCHANGED <<fibers, dirs, torn>>
  BY <1>1 DEF UndoRecord, Mended
<1> HIDE DEF x
<1>6. /\ records' \in [Plugins -> Rec] /\ stored' \in [Plugins -> Rec]
      /\ RecordsOK' /\ records'[q] = x
      /\ \A p \in Plugins \ {q} : records'[p] = records[p]
  BY <1>1, <1>4, <1>5, OneRecord DEF RunInv
<1>7. /\ UNCHANGED <<boot, marked>> /\ todo' \in [Plugins -> {"no", "live", "old"}]
      /\ \A p \in Plugins \ {q} : todo'[p] = todo[p]
  BY <1>1, <1>5 DEF NewObject, Detached, RunInv, RunType
<1>8. /\ OpType' /\ op'.at \in {"enable", "free"}
      /\ op'.at # "free" => OpKeeps
      /\ op'.at = "free" => ~op'.was
  <2>1. CASE op' = [op EXCEPT !.at = "enable", !.kind = "rollback"]
    BY <1>1, <2>1 DEF OpType, OpKeeps
  <2>2. CASE Release
    BY <2>2, FreedOp
  <2> QED BY <1>5, <2>1, <2>2
<1>9. RunType'
  BY <1>5, <1>6, <1>7, <1>8 DEF RunInv, RunType
<1>10. Fits(q)'
  BY <1>2, <1>4, <1>5, <1>6 DEF Fits
<1>11. PluginOK(q)'
  BY <1>1, <1>2, <1>3, <1>4, <1>5, <1>6, <1>8, <1>10 DEF PluginOK
<1>12. StageOK'
  BY <1>1, <1>2, <1>4, <1>5, <1>6, <1>8 DEF StageOK, OpKeeps, Swapping, Starting, Dropping
<1> QED BY <1>1, <1>5, <1>6, <1>7, <1>9, <1>11, <1>12, OnePlugin

-----------------------------------------------------------------------------
(* Enabling *)

\* What is known of the plugin that is being enabled.
LEMMA AtEnable ==
  ASSUME RunInv, op.at = "enable", NEW q \in Plugins, q = op.p
  PROVE  /\ records[q].ver # 0 /\ Fits(q)
         /\ fibers[q].live => fibers[q].ver # 0
         /\ fibers[q].ver # 0 => dirs[q] = fibers[q].ver
         /\ records[q].enabled /\ fibers[q].ver = 0 => Lags(q) \/ dirs[q] # 0
         /\ op.was => op.prev.ver # 0 /\ (op.old \in {0, op.prev.ver} \/ q \in torn)
<1>1. PluginOK(q) /\ StageOK
  BY DEF RunInv
<1> QED BY <1>1 DEF PluginOK, StageOK, Busy, Swapping, Starting

\* A plugin that runs is recorded as enabled, whatever mark it had.
LEMMA EnableRunningRuns == ASSUME RunInv, EnableRunning PROVE RunInv'
<1>0. PICK q \in Plugins : q = op.p
  BY DEF EnableRunning, RunInv, RunType, OpType
<1>1. op.at = "enable" /\ q = op.p /\ fibers[q].live
  BY <1>0 DEF EnableRunning
<1>2. /\ records[q].ver # 0 /\ Fits(q) /\ fibers[q].ver # 0 /\ dirs[q] = fibers[q].ver
  BY <1>1, AtEnable
<1>3. PICK x \in Rec : /\ x.ver = records[q].ver /\ x.enabled = TRUE /\ (x.ver = 0 => ~x.enabled)
                       /\ [records EXCEPT ![q].enabled = TRUE] = [records EXCEPT ![q] = x]
  BY <1>2, OneFlag DEF RunInv
<1>4. SaveFails([records EXCEPT ![q] = x]) /\ Release /\ UNCHANGED <<fibers, dirs, boot, todo, marked, torn, stranded>>
  BY <1>1, <1>3 DEF EnableRunning, Aligned, SaveFails, startup, marks
<1>5. /\ records' \in [Plugins -> Rec] /\ stored' \in [Plugins -> Rec]
      /\ RecordsOK' /\ records'[q] = x
      /\ \A p \in Plugins \ {q} : records'[p] = records[p]
  BY <1>3, <1>4, OneRecord DEF RunInv
<1>6. OpType' /\ op'.at = "free" /\ ~op'.was
  BY <1>4, FreedOp
<1>7. RunType'
  BY <1>4, <1>5, <1>6 DEF RunInv, RunType
<1>8. PluginOK(q)'
  BY <1>2, <1>3, <1>4, <1>5 DEF PluginOK, Fits
<1>9. StageOK'
  BY <1>6 DEF StageOK, Swapping, Starting, Dropping
<1> QED BY <1>1, <1>4, <1>5, <1>7, <1>8, <1>9, OnePlugin

\* A plugin whose directory has gone does not start, and nothing is written of it: its
\* record says that it is enabled only if the boot has still to come to it.
LEMMA EnableMissingRuns == ASSUME RunInv, EnableMissing PROVE RunInv'
<1>0. PICK q \in Plugins : q = op.p
  BY DEF EnableMissing, RunInv, RunType, OpType
<1>1. op.at = "enable" /\ q = op.p /\ dirs[q] = 0 /\ OpType
  BY <1>0 DEF EnableMissing, RunInv, RunType
<1>2. /\ records[q].ver # 0 /\ Fits(q) /\ fibers[q].ver = 0
      /\ records[q].enabled => Lags(q)
      /\ op.was => op.prev.ver # 0 /\ (op.old \in {0, op.prev.ver} \/ q \in torn)
  BY <1>1, AtEnable
<1>3. /\ fibers' = [fibers EXCEPT ![q] = NoFiber] /\ NoFiber \in Fib
      /\ records' = records /\ stored' \in {stored, records}
      /\ (Goto("undo") /\ op.was) \/ Release
      /\ UNCHANGED <<dirs, boot, todo, marked, torn, stranded>>
  BY <1>1, PluginAssumption
     DEF EnableMissing, Save, tables, AfterFailure, InReplacement, startup, marks, NoFiber, Fib
<1>4. /\ fibers' \in [Plugins -> Fib] /\ fibers'[q].ver = 0 /\ ~fibers'[q].live
      /\ \A p \in Plugins \ {q} : fibers'[p] = fibers[p]
  BY <1>3 DEF RunInv, RunType, NoFiber
<1>5. /\ OpType' /\ op'.at \in {"undo", "free"}
      /\ op'.at # "free" => OpKeeps /\ op.was
      /\ op'.at = "free" => ~op'.was
  BY <1>1, <1>3, MovedOp, FreedOp
<1>6. RunType' /\ RecordsOK'
  BY <1>3, <1>4, <1>5 DEF RunInv, RunType, RecordsOK
<1>7. PluginOK(q)'
  BY <1>1, <1>2, <1>3, <1>4 DEF PluginOK, Fits, Lags
<1>8. StageOK'
  BY <1>1, <1>2, <1>3, <1>4, <1>5 DEF StageOK, OpKeeps, Swapping, Starting, Dropping
<1> QED BY <1>1, <1>3, <1>4, <1>6, <1>7, <1>8, OnePlugin

\* The module is imported: from here on nothing of the plugin runs until it is loaded.
LEMMA EnableStartsRuns == ASSUME RunInv, EnableStarts PROVE RunInv'
<1>0. PICK q \in Plugins : q = op.p
  BY DEF EnableStarts, RunInv, RunType, OpType
<1>1. op.at = "enable" /\ q = op.p /\ dirs[q] # 0 /\ OpType
  BY <1>0 DEF EnableStarts, RunInv, RunType
<1>2. /\ records[q].ver # 0 /\ Fits(q)
      /\ op.was => op.prev.ver # 0 /\ (op.old \in {0, op.prev.ver} \/ q \in torn)
  BY <1>1, AtEnable
<1>3. /\ fibers' = [fibers EXCEPT ![q] = NoFiber] /\ NoFiber \in Fib
      /\ op' = [op EXCEPT !.at = "claim", !.made = FALSE, !.ran = FALSE] \/ Goto("load")
      /\ UNCHANGED <<records, stored, dirs, boot, todo, marked, torn, stranded>>
  BY <1>1, PluginAssumption DEF EnableStarts, tables, startup, marks, NoFiber, Fib
<1>4. /\ fibers' \in [Plugins -> Fib] /\ fibers'[q].ver = 0 /\ ~fibers'[q].live
      /\ \A p \in Plugins \ {q} : fibers'[p] = fibers[p]
  BY <1>3 DEF RunInv, RunType, NoFiber
<1>5. OpType' /\ OpKeeps /\ op'.at \in {"claim", "load"}
  <2>1. CASE op' = [op EXCEPT !.at = "claim", !.made = FALSE, !.ran = FALSE]
    BY <1>1, <2>1 DEF OpType, OpKeeps
  <2>2. CASE Goto("load")
    BY <1>1, <2>2, MovedOp
  <2> QED BY <1>3, <2>1, <2>2
<1>6. RunType' /\ RecordsOK'
  BY <1>3, <1>4, <1>5 DEF RunInv, RunType, RecordsOK
<1>7. PluginOK(q)'
  BY <1>1, <1>2, <1>3, <1>4, <1>5 DEF PluginOK, Fits, Busy, OpKeeps, Starting
<1>8. StageOK'
  BY <1>1, <1>2, <1>3, <1>4, <1>5 DEF StageOK, OpKeeps, Swapping, Starting, Dropping
<1> QED BY <1>1, <1>3, <1>4, <1>6, <1>7, <1>8, OnePlugin

\* What is known of the plugin that is being started.
LEMMA AtStart ==
  ASSUME RunInv, op.at \in Starting, NEW q \in Plugins, q = op.p
  PROVE  /\ records[q].ver # 0 /\ Fits(q) /\ fibers[q].ver = 0 /\ ~fibers[q].live /\ dirs[q] # 0
         /\ op.was => op.prev.ver # 0 /\ (op.old \in {0, op.prev.ver} \/ q \in torn)
<1>1. PluginOK(q) /\ StageOK
  BY DEF RunInv
<1> QED BY <1>1 DEF PluginOK, StageOK, Busy, Swapping, Starting

\* The steps of sync_schema leave plugins and records alone.
LEMMA SchemaRuns == ASSUME RunInv, ClaimTable \/ EnsureTable \/ RunMigration \/ Notice PROVE RunInv'
<1>0. op.at \in Starting /\ op.at # "free"
  BY DEF ClaimTable, EnsureTable, RunMigration, Notice, Starting
<1>1. PICK q \in Plugins : q = op.p
  BY <1>0 DEF RunInv, RunType, OpType
<1>2. OpType
  BY DEF RunInv, RunType
<1>3. UNCHANGED <<records, stored, fibers, dirs, boot, todo, marked, torn, stranded>>
  BY DEF ClaimTable, EnsureTable, RunMigration, Notice, tables, startup, marks
<1>4. OpType' /\ OpKeeps /\ op'.at \in Starting
  <2>1. CASE \E s \in Starting : Goto(s)
    BY <1>0, <1>2, <2>1, MovedOp DEF Starting
  <2>2. CASE op' = [op EXCEPT !.ran = TRUE]
    BY <1>0, <1>2, <2>2 DEF OpType, OpKeeps
  <2>3. CASE EnsureTable
    <3> DEFINE made == db[op.p].shape = 0
    <3>1. op' = [op EXCEPT !.at = "migrate", !.made = made]
      BY <2>3 DEF EnsureTable
    <3> HIDE DEF made
    <3> QED BY <1>0, <1>2, <3>1 DEF OpType, OpKeeps, Starting
  <2> QED BY <2>1, <2>2, <2>3 DEF ClaimTable, RunMigration, Notice, Starting
<1>5. RunType' /\ RecordsOK'
  BY <1>3, <1>4 DEF RunInv, RunType, RecordsOK
<1>6. PluginOK(q)'
  BY <1>0, <1>1, <1>3, <1>4, AtStart DEF PluginOK, Fits, Busy, OpKeeps
<1>7. StageOK'
  BY <1>0, <1>1, <1>3, <1>4, AtStart DEF StageOK, OpKeeps, Swapping, Starting, Dropping
<1> QED BY <1>1, <1>3, <1>5, <1>6, <1>7, OnePlugin

\* The plugin runs the code of its directory and is recorded as enabled.
LEMMA LoadedRuns == ASSUME RunInv, Loaded PROVE RunInv'
<1>0. PICK q \in Plugins : q = op.p
  BY DEF Loaded, RunInv, RunType, OpType
<1>1. op.at = "load" /\ op.at \in Starting /\ q = op.p
  BY <1>0 DEF Loaded, Starting
<1>2. records[q].ver # 0 /\ Fits(q) /\ dirs[q] # 0 /\ dirs[q] \in 0 .. MaxVer
  BY <1>1, AtStart DEF RunInv, RunType
<1>3. PICK x \in Rec : /\ x.ver = records[q].ver /\ x.enabled = TRUE /\ (x.ver = 0 => ~x.enabled)
                       /\ [records EXCEPT ![q].enabled = TRUE] = [records EXCEPT ![q] = x]
  BY <1>2, OneFlag DEF RunInv
<1> DEFINE f == Running(dirs[q])
<1>4. f \in Fib /\ f.ver = dirs[q]
  BY <1>2 DEF Running, Fib
<1>5. /\ Save([records EXCEPT ![q] = x]) /\ Release /\ fibers' = [fibers EXCEPT ![q] = f]
      /\ stranded' = stranded \ {q} /\ UNCHANGED <<dirs, boot, todo, marked, torn>>
  BY <1>1, <1>3 DEF Loaded, Mended, startup
<1> HIDE DEF f
<1>6. /\ fibers' \in [Plugins -> Fib] /\ fibers'[q] = f
      /\ \A p \in Plugins \ {q} : fibers'[p] = fibers[p]
  BY <1>4, <1>5 DEF RunInv, RunType
<1>7. /\ records' \in [Plugins -> Rec] /\ stored' \in [Plugins -> Rec]
      /\ RecordsOK' /\ records'[q] = x
      /\ \A p \in Plugins \ {q} : records'[p] = records[p]
  BY <1>3, <1>5, OneRecord DEF RunInv
<1>8. OpType' /\ op'.at = "free" /\ ~op'.was
  BY <1>5, FreedOp
<1>9. RunType'
  BY <1>5, <1>6, <1>7, <1>8 DEF RunInv, RunType
<1>10. PluginOK(q)'
  BY <1>2, <1>3, <1>4, <1>5, <1>6, <1>7 DEF PluginOK, Fits
<1>11. StageOK'
  BY <1>8 DEF StageOK, Swapping, Starting, Dropping
<1> QED BY <1>1, <1>5, <1>6, <1>7, <1>9, <1>10, <1>11, OnePlugin

\* Nothing runs and nothing is recorded as enabled.
LEMMA EnableFailsRuns == ASSUME RunInv, EnableFails PROVE RunInv'
<1>0. op.at \in Starting \union {"enable"}
  BY DEF EnableFails, Refused, Broken, Starting
<1>1. OpType /\ op.at # "free"
  BY <1>0 DEF RunInv, RunType, Starting
<1>2. PICK q \in Plugins : q = op.p
  BY <1>1 DEF OpType
<1>3. /\ records[q].ver # 0 /\ Fits(q)
      /\ op.was => op.prev.ver # 0 /\ (op.old \in {0, op.prev.ver} \/ q \in torn)
  BY <1>0, <1>2, AtStart, AtEnable
<1>4. PICK x \in Rec : /\ x.ver = records[q].ver /\ x.enabled = FALSE /\ (x.ver = 0 => ~x.enabled)
                       /\ [records EXCEPT ![q].enabled = FALSE] = [records EXCEPT ![q] = x]
  BY OneFlag DEF RunInv
<1>5. /\ Save([records EXCEPT ![q] = x]) \/ SaveFails([records EXCEPT ![q] = x])
      /\ fibers' = [fibers EXCEPT ![q] = NoFiber] /\ NoFiber \in Fib
      /\ (Goto("undo") /\ op.was) \/ Release
      /\ stranded' = stranded \ {q} /\ UNCHANGED <<dirs, boot, todo, marked, torn>>
  BY <1>2, <1>4, PluginAssumption DEF EnableFails, Mended, AfterFailure, InReplacement, startup, NoFiber, Fib
<1>6. /\ fibers' \in [Plugins -> Fib] /\ fibers'[q].ver = 0 /\ ~fibers'[q].live
      /\ \A p \in Plugins \ {q} : fibers'[p] = fibers[p]
  BY <1>5 DEF RunInv, RunType, NoFiber
<1>7. /\ records' \in [Plugins -> Rec] /\ stored' \in [Plugins -> Rec]
      /\ RecordsOK' /\ records'[q] = x
      /\ \A p \in Plugins \ {q} : records'[p] = records[p]
  BY <1>4, <1>5, OneRecord DEF RunInv
<1>8. /\ OpType' /\ op'.at \in {"undo", "free"}
      /\ op'.at # "free" => OpKeeps /\ op.was
      /\ op'.at = "free" => ~op'.was
  BY <1>1, <1>5, MovedOp, FreedOp
<1>9. RunType'
  BY <1>5, <1>6, <1>7, <1>8 DEF RunInv, RunType
<1>10. PluginOK(q)'
  BY <1>3, <1>4, <1>5, <1>6, <1>7 DEF PluginOK, Fits
<1>11. StageOK'
  BY <1>2, <1>3, <1>4, <1>5, <1>6, <1>7, <1>8 DEF StageOK, OpKeeps, Swapping, Starting, Dropping
<1> QED BY <1>2, <1>5, <1>6, <1>7, <1>9, <1>10, <1>11, OnePlugin

-----------------------------------------------------------------------------
(* Disabling and removal *)

\* What is known of the plugin that is being removed.
LEMMA AtDrop ==
  ASSUME RunInv, op.at \in Dropping, NEW q \in Plugins, q = op.p
  PROVE  /\ records[q].ver # 0 /\ Fits(q) /\ fibers[q].ver = 0 /\ ~fibers[q].live /\ ~op.was
         /\ records[q].enabled => Lags(q)
         /\ op.at = "forget" => dirs[q] = 0
<1>1. PluginOK(q) /\ StageOK /\ RunType
  BY DEF RunInv
<1>2. ~op.was
  BY <1>1 DEF StageOK, Swapping, Starting, Dropping
<1> QED BY <1>1, <1>2 DEF PluginOK, StageOK, Busy, Swapping, Starting, Dropping

\* Data and files go while nothing of the plugin runs.
LEMMA DropRuns ==
  ASSUME RunInv, DropData \/ DropTable \/ UnclaimTable \/ ReleaseOwner \/ RemoveFiles
  PROVE  RunInv'
<1>0. op.at \in Dropping /\ op.at # "free"
  BY DEF DropData, DropTable, UnclaimTable, ReleaseOwner, RemoveFiles, Dropping
<1>1. OpType
  BY DEF RunInv, RunType
<1>2. PICK q \in Plugins : q = op.p
  BY <1>0, <1>1 DEF OpType
<1>3. UNCHANGED <<records, stored, fibers, boot, todo, marked, torn, stranded>>
  BY DEF DropData, DropTable, UnclaimTable, ReleaseOwner, RemoveFiles, tables, startup, marks
<1>4. /\ OpType' /\ op'.at \in Dropping \union {"free"} /\ ~op'.was
      /\ op'.at # "free" => OpKeeps
      /\ op'.at = "forget" => dirs' = [dirs EXCEPT ![q] = 0]
  <2>1. ASSUME NEW at \in {"drop", "release", "files", "unclaim"}, Goto(at)
        PROVE  OpType' /\ op'.at = at /\ OpKeeps
    BY <1>0, <1>1, <2>1, MovedOp
  <2>2. CASE \E at \in {"drop", "release", "files", "unclaim"} : Goto(at)
    BY <1>0, <1>2, <2>1, <2>2, AtDrop DEF Dropping, OpKeeps
  <2>3. CASE Release
    BY <2>3, FreedOp
  <2>4. CASE Goto("forget") /\ dirs' = [dirs EXCEPT ![op.p] = 0]
    BY <1>0, <1>1, <1>2, <2>4, MovedOp, AtDrop DEF Dropping, OpKeeps
  <2> QED BY <2>2, <2>3, <2>4 DEF DropData, DropTable, UnclaimTable, ReleaseOwner, RemoveFiles
<1>5. dirs' \in {dirs, [dirs EXCEPT ![q] = 0]}
  BY <1>2 DEF DropData, DropTable, UnclaimTable, ReleaseOwner, RemoveFiles
<1>6. /\ dirs' \in [Plugins -> 0 .. MaxVer] /\ dirs'[q] \in {0, dirs[q]}
      /\ \A p \in Plugins \ {q} : dirs'[p] = dirs[p]
      /\ op'.at = "forget" => dirs'[q] = 0
  BY <1>4, <1>5, PluginAssumption DEF RunInv, RunType
<1>7. RunType' /\ RecordsOK'
  BY <1>3, <1>4, <1>6 DEF RunInv, RunType, RecordsOK
<1>8. PluginOK(q)'
  BY <1>0, <1>2, <1>3, <1>6, AtDrop DEF PluginOK, Fits, Lags
<1>9. StageOK'
  BY <1>0, <1>2, <1>3, <1>4, <1>6, AtDrop DEF StageOK, OpKeeps, Swapping, Starting, Dropping
<1> QED BY <1>2, <1>3, <1>6, <1>7, <1>8, <1>9, OnePlugin

\* The record goes last.
LEMMA ForgetRuns == ASSUME RunInv, Forget PROVE RunInv'
<1>0. op.at = "forget" /\ op.at \in Dropping
  BY DEF Forget, Dropping
<1>1. PICK q \in Plugins : q = op.p
  BY <1>0 DEF RunInv, RunType, OpType
<1>2. fibers[q].ver = 0 /\ ~fibers[q].live /\ dirs[q] = 0
  BY <1>0, <1>1, AtDrop
<1>3. NoRecord \in Rec /\ NoRecord.ver = 0 /\ ~NoRecord.enabled
  BY PluginAssumption DEF NoRecord, Rec
<1>4. /\ Save([records EXCEPT ![q] = NoRecord]) \/ SaveFails([records EXCEPT ![q] = NoRecord])
      /\ Release /\ NewObject /\ torn' = torn \ {q} /\ stranded' = stranded \ {q}
      /\ UNCHANGED <<fibers, dirs>>
  BY <1>1 DEF Forget, SaveOrNot
<1>5. /\ records' \in [Plugins -> Rec] /\ stored' \in [Plugins -> Rec]
      /\ RecordsOK' /\ records'[q] = NoRecord
      /\ \A p \in Plugins \ {q} : records'[p] = records[p]
  BY <1>3, <1>4, OneRecord DEF RunInv
<1>6. /\ UNCHANGED <<boot, marked>> /\ todo' \in [Plugins -> {"no", "live", "old"}]
      /\ \A p \in Plugins \ {q} : todo'[p] = todo[p]
  BY <1>1, <1>4 DEF NewObject, Detached, RunInv, RunType
<1>7. OpType' /\ op'.at = "free" /\ ~op'.was
  BY <1>4, FreedOp
<1>8. RunType'
  BY <1>4, <1>5, <1>6, <1>7 DEF RunInv, RunType
<1>9. PluginOK(q)'
  BY <1>2, <1>3, <1>4, <1>5 DEF PluginOK, Fits
<1>10. StageOK'
  BY <1>7 DEF StageOK, Swapping, Starting, Dropping
<1> QED BY <1>1, <1>4, <1>5, <1>6, <1>8, <1>9, <1>10, OnePlugin

\* What is known of a plugin no operation is about.
LEMMA AtRest ==
  ASSUME RunInv, NEW p \in Plugins, op.at = "free" \/ op.p # p
  PROVE  /\ fibers[p].live => fibers[p].ver # 0
         /\ fibers[p].ver # 0 => dirs[p] = fibers[p].ver /\ records[p].ver # 0
         /\ Fits(p)
         /\ records[p].enabled /\ fibers[p].ver = 0 => Lags(p)
         /\ fibers[p].ver # 0 /\ ~records[p].enabled => p \in marked
<1>1. ~Busy(p, {"rerecord", "undo", "undone"}) /\ ~Busy(p, Swapping \union Starting) /\ ~Busy(p, {"enable"})
  BY DEF Busy, Swapping, Starting
<1>2. PluginOK(p)
  BY DEF RunInv
<1> QED BY <1>1, <1>2 DEF PluginOK

\* A plugin that no operation is about is stopped and recorded as disabled.
LEMMA DisabledRuns ==
  ASSUME RunInv, op.at = "free", NEW p \in Plugins, Stopped(p),
         LET r == [records EXCEPT ![p].enabled = FALSE] IN Save(r) \/ SaveFails(r),
         OpType', ~op'.was, op'.at = "free" \/ (op'.at = "data" /\ op'.p = p /\ records[p].ver # 0),
         stranded \subseteq stranded' \union {p}, UNCHANGED <<dirs, boot, todo, marked, torn>>
  PROVE  RunInv'
<1>1. PICK x \in Rec : /\ x.ver = records[p].ver /\ x.enabled = FALSE /\ (x.ver = 0 => ~x.enabled)
                       /\ [records EXCEPT ![p].enabled = FALSE] = [records EXCEPT ![p] = x]
  BY OneFlag DEF RunInv
<1>2. fibers' = [fibers EXCEPT ![p] = NoFiber] /\ NoFiber \in Fib
  BY PluginAssumption DEF Stopped, NoFiber, Fib
<1>3. /\ fibers' \in [Plugins -> Fib] /\ fibers'[p].ver = 0 /\ ~fibers'[p].live
      /\ \A q \in Plugins \ {p} : fibers'[q] = fibers[q]
  BY <1>2 DEF RunInv, RunType, NoFiber
<1>4. /\ records' \in [Plugins -> Rec] /\ stored' \in [Plugins -> Rec]
      /\ RecordsOK' /\ records'[p] = x
      /\ \A q \in Plugins \ {p} : records'[q] = records[q]
  BY <1>1, OneRecord DEF RunInv
<1>5. RunType'
  BY <1>3, <1>4 DEF RunInv, RunType
<1>6. PluginOK(p)'
  BY <1>1, <1>3, <1>4, AtRest DEF PluginOK, Fits
<1>7. StageOK'
  BY <1>1, <1>3, <1>4 DEF StageOK, Swapping, Starting, Dropping
<1> QED BY <1>3, <1>4, <1>5, <1>6, <1>7, OnePlugin

\* Nothing of what the invariant is about happens.
LEMMA StillRuns ==
  RunInv /\ UNCHANGED <<records, stored, fibers, dirs, op, boot, todo, marked, torn, stranded>> => RunInv'
<1> SUFFICES ASSUME RunInv, UNCHANGED <<records, stored, fibers, dirs, op, boot, todo, marked, torn, stranded>>
             PROVE  RunInv'
  OBVIOUS
<1>1. RunType' /\ RecordsOK' /\ StageOK'
  BY DEF RunInv, RunType, OpType, RecordsOK, StageOK
<1>2. ASSUME NEW p \in Plugins PROVE PluginOK(p)'
  BY DEF RunInv, PluginOK, Fits, Lags, Busy
<1> QED BY <1>1, <1>2 DEF RunInv

\* A plugin is disabled by an administrator or by the recheck.
LEMMA DisableRuns ==
  ASSUME RunInv, NEW p \in Plugins, Disable(p) \/ RecheckDisables(p)
  PROVE  RunInv'
<1>1. CASE Free /\ DisableAs(p) /\ UNCHANGED <<dirs, op, boot, todo, marked>>
  <2>1. op.at = "free" /\ op' = op /\ OpType /\ ~op.was
    BY <1>1 DEF Free, RunInv, RunType, StageOK, Swapping, Starting
  <2>2. OpType' /\ ~op'.was /\ op'.at = "free"
    BY <2>1 DEF OpType
  <2> QED BY <1>1, <2>1, <2>2, DisabledRuns DEF DisableAs, SaveOrNot, Mended
<1>2. CASE UNCHANGED <<records, stored, fibers, dirs, op, boot, todo, marked, torn, stranded>>
  BY <1>2, StillRuns
<1> QED BY <1>1, <1>2 DEF Disable, RecheckDisables, startup, tables, marks

\* The configuration of a running plugin, which may be left with its fiber only.
LEMMA UpdateConfigRuns == ASSUME RunInv, NEW p \in Plugins, UpdateConfig(p) PROVE RunInv'
<1>1. /\ op.at = "free" /\ op' = op /\ OpType /\ ~op.was /\ fibers[p].live
      /\ UNCHANGED <<dirs, boot, todo, marked, torn, stranded>>
  BY DEF UpdateConfig, Free, RunInv, RunType, StageOK, Swapping, Starting, startup, marks
<1>2. OpType' /\ ~op'.was /\ op'.at = "free"
  BY <1>1 DEF OpType
<1>3. StageOK'
  BY <1>2 DEF StageOK, Swapping, Starting, Dropping
<1>4. CASE Save(records) /\ fibers' = fibers
  <2>1. records' = records /\ stored' = records
    BY <1>4 DEF Save
  <2>2. RunType' /\ RecordsOK'
    BY <1>1, <1>2, <1>4, <2>1 DEF RunInv, RunType, RecordsOK
  <2>3. PluginOK(p)'
    BY <1>1, <1>4, <2>1, AtRest DEF PluginOK, Fits, Lags
  <2> QED BY <1>1, <1>3, <1>4, <2>1, <2>2, <2>3, OnePlugin
<1>5. CASE SaveFails(records) /\ fibers' = [fibers EXCEPT ![p].live = FALSE]
  <2>1. records' = records /\ stored' = stored
    BY <1>5 DEF SaveFails
  <2>2. /\ fibers' \in [Plugins -> Fib] /\ fibers'[p].ver = fibers[p].ver /\ ~fibers'[p].live
        /\ \A q \in Plugins \ {p} : fibers'[q] = fibers[q]
    <3>0. PICK g \in Fib : g = fibers[p]
      BY DEF RunInv, RunType
    <3>1. PICK f \in Fib : f = [fibers[p] EXCEPT !.live = FALSE] /\ f.ver = fibers[p].ver /\ ~f.live
      <4>1. LET f == [g EXCEPT !.live = FALSE] IN f \in Fib /\ f.ver = g.ver /\ ~f.live
        BY DEF Fib
      <4> QED BY <3>0, <4>1
    <3>2. fibers' = [fibers EXCEPT ![p] = f]
      BY <1>5, <3>1
    <3> QED BY <3>1, <3>2 DEF RunInv, RunType
  <2>3. RunType' /\ RecordsOK'
    BY <1>1, <1>2, <2>1, <2>2 DEF RunInv, RunType, RecordsOK
  <2>4. PluginOK(p)'
    BY <1>1, <2>1, <2>2, AtRest DEF PluginOK, Fits, Lags
  <2> QED BY <1>1, <1>3, <2>1, <2>2, <2>3, <2>4, OnePlugin
<1>6. CASE Stopped(p) /\ Save([records EXCEPT ![p].enabled = FALSE])
  BY <1>1, <1>2, <1>6, DisabledRuns
<1> QED BY <1>4, <1>5, <1>6 DEF UpdateConfig

\* A removal begins with the plugin stopped.
LEMMA UninstallRuns ==
  ASSUME RunInv, NEW p \in Plugins, NEW keep \in BOOLEAN, NEW force \in BOOLEAN, Uninstall(p, keep, force)
  PROVE  RunInv'
<1> DEFINE to == [NoOp EXCEPT !.kind = "uninstall", !.p = p, !.at = "data", !.keep = keep, !.force = force]
<1>1. /\ op.at = "free" /\ OpType /\ ~op.was /\ records[p].ver # 0
      /\ UNCHANGED <<dirs, boot, todo, marked, torn, stranded>>
  BY DEF Uninstall, Free, RunInv, RunType, StageOK, Swapping, Starting, startup, marks
<1>2. \/ op' = to /\ fibers[p].ver = 0 /\ UNCHANGED <<records, stored, fibers>>
      \/ op' \in {to, op} /\ Stopped(p) /\ LET r == [records EXCEPT ![p].enabled = FALSE] IN Save(r) \/ SaveFails(r)
  BY DEF Uninstall, tables
<1>3. op' = to => OpType' /\ op'.at = "data" /\ op'.p = p /\ ~op'.was
  BY UninstallOp
<1> HIDE DEF to
<1>4. op' = op => OpType' /\ op'.at = "free" /\ ~op'.was
  BY <1>1 DEF OpType
<1>5. CASE op' = to /\ fibers[p].ver = 0 /\ UNCHANGED <<records, stored, fibers>>
  <2>1. RunType' /\ RecordsOK'
    BY <1>1, <1>3, <1>5 DEF RunInv, RunType, RecordsOK
  <2>2. PluginOK(p)'
    BY <1>1, <1>5, AtRest DEF PluginOK, Fits, Lags
  <2>3. StageOK'
    BY <1>1, <1>3, <1>5 DEF StageOK, Swapping, Starting, Dropping
  <2> QED BY <1>1, <1>5, <2>1, <2>2, <2>3, OnePlugin
<1>6. CASE /\ op' \in {to, op} /\ Stopped(p)
           /\ LET r == [records EXCEPT ![p].enabled = FALSE] IN Save(r) \/ SaveFails(r)
  BY <1>1, <1>3, <1>4, <1>6, DisabledRuns
<1> QED BY <1>2, <1>5, <1>6

-----------------------------------------------------------------------------
(* Operations begin *)

\* The lock is taken, and nothing is done yet but perhaps to stop the plugin.
LEMMA BeginsRuns ==
  ASSUME RunInv, op.at = "free", NEW p \in Plugins, UNCHANGED <<records, stored, dirs, torn, stranded, todo>>,
         boot' \in [left : SUBSET Plugins, restored : BOOLEAN], boot'.restored = boot.restored,
         \/ UNCHANGED <<op, fibers>> /\ marked' = marked
         \/ /\ \E kind : \E v \in Versions : InstallAs(kind, p, v)
            /\ records[p].ver = 0 /\ fibers' = fibers /\ marked' = marked
         \/ /\ \E kind : \E v \in Versions : StartReplace(kind, p, v)
            /\ records[p].ver # 0 /\ marked' = marked
         \/ /\ \E kind : EnableAs(kind, p) /\ (marked' = marked \/ (kind = "restore" /\ p \in marked /\ marked' = {}))
            /\ records[p].ver # 0 /\ fibers' = fibers
  PROVE  RunInv'
<1>1. OpType /\ ~op.was /\ Versions \subseteq (0 .. MaxVer) \ {0}
  BY PluginAssumption DEF RunInv, RunType, StageOK, Swapping, Starting, Versions
<1>2. CASE UNCHANGED <<op, fibers>> /\ marked' = marked
  <2>1. OpType' /\ StageOK'
    BY <1>2 DEF RunInv, RunType, OpType, StageOK
  <2>2. RunType' /\ RecordsOK'
    BY <1>2, <2>1 DEF RunInv, RunType, RecordsOK
  <2>3. PluginOK(p)'
    BY <1>2, AtRest DEF PluginOK, Fits, Lags
  <2> QED BY <1>2, <2>1, <2>2, <2>3, OnePlugin
<1>3. ASSUME NEW kind, NEW v \in Versions, InstallAs(kind, p, v), records[p].ver = 0,
             fibers' = fibers, marked' = marked
      PROVE  RunInv'
  <2>1. OpType' /\ op'.at = "land" /\ op'.p = p /\ ~op'.was /\ op'.v = v /\ v # 0
    BY <1>1, <1>3, InstallOp
  <2>2. RunType' /\ RecordsOK'
    BY <1>3, <2>1 DEF RunInv, RunType, RecordsOK
  <2>3. PluginOK(p)'
    BY <1>3, AtRest DEF PluginOK, Fits, Lags
  <2>4. StageOK'
    BY <1>3, <2>1 DEF StageOK, Swapping, Starting, Dropping
  <2> QED BY <1>3, <2>2, <2>3, <2>4, OnePlugin
<1>4. ASSUME NEW kind, NEW v \in Versions, StartReplace(kind, p, v), records[p].ver # 0, marked' = marked
      PROVE  RunInv'
  <2>1. /\ OpType' /\ op'.at = "swap" /\ op'.p = p /\ op'.v = v /\ v # 0
        /\ op'.prev = records[p] /\ op'.old = dirs[p]
    BY <1>1, <1>4, ReplaceOp DEF StartReplace, RunInv
  <2>2. fibers' = [fibers EXCEPT ![p] = NoFiber] /\ NoFiber \in Fib
    BY <1>4, PluginAssumption DEF StartReplace, NoFiber, Fib
  <2>3. /\ fibers' \in [Plugins -> Fib] /\ fibers'[p].ver = 0 /\ ~fibers'[p].live
        /\ \A q \in Plugins \ {p} : fibers'[q] = fibers[q]
    BY <2>2 DEF RunInv, RunType, NoFiber
  <2>4. RunType' /\ RecordsOK'
    BY <1>4, <2>1, <2>3 DEF RunInv, RunType, RecordsOK
  <2>5. Fits(p)
    BY AtRest
  <2>6. PluginOK(p)'
    BY <2>1, <2>3, <2>5 DEF PluginOK, Fits, Busy, Swapping
  <2>7. StageOK'
    BY <1>4, <2>1, <2>3, <2>5 DEF StageOK, Fits, Swapping, Starting, Dropping
  <2> QED BY <1>4, <2>3, <2>4, <2>6, <2>7, OnePlugin
<1>5. ASSUME NEW kind, EnableAs(kind, p), records[p].ver # 0, fibers' = fibers,
             marked' = marked \/ (kind = "restore" /\ p \in marked /\ marked' = {})
      PROVE  RunInv'
  <2>1. OpType' /\ op'.at = "enable" /\ op'.p = p /\ ~op'.was /\ op'.kind = kind
    BY <1>5, EnableOp
  <2>2. marked \subseteq marked' \union {p} /\ (\A q \in marked' : marked' = {q})
    BY <1>5 DEF RunInv, RunType
  <2>3. RunType' /\ RecordsOK'
    BY <1>5, <2>1, <2>2 DEF RunInv, RunType, RecordsOK
  <2>4. PluginOK(p)'
    BY <1>5, <2>1, AtRest DEF PluginOK, Fits, Lags, Busy
  <2>5. StageOK'
    BY <1>5, <2>1 DEF StageOK, Swapping, Starting, Dropping
  <2> QED BY <1>5, <2>2, <2>3, <2>4, <2>5, OnePlugin
<1> QED BY <1>2, <1>3, <1>4, <1>5

\* An installation or a replacement is asked for.
LEMMA InstallRuns ==
  ASSUME RunInv, NEW p \in Plugins, NEW v \in Versions, Install(p, v) \/ Replace(p, v)
  PROVE  RunInv'
<1>1. /\ op.at = "free" /\ UNCHANGED <<records, stored, dirs, torn, stranded, todo, boot, marked>>
      /\ boot \in [left : SUBSET Plugins, restored : BOOLEAN]
  BY DEF Install, Replace, Free, tables, startup, marks, RunInv, RunType
<1>2. \/ InstallAs("install", p, v) /\ records[p].ver = 0 /\ fibers' = fibers
      \/ StartReplace("replace", p, v) /\ records[p].ver # 0
  BY DEF Install, Replace
<1>3. CASE InstallAs("install", p, v) /\ records[p].ver = 0 /\ fibers' = fibers
  BY <1>1, <1>3, BeginsRuns
<1>4. CASE StartReplace("replace", p, v) /\ records[p].ver # 0
  BY <1>1, <1>4, BeginsRuns
<1> QED BY <1>2, <1>3, <1>4

\* A plugin is to be enabled.
LEMMA EnableRuns == ASSUME RunInv, NEW p \in Plugins, Enable(p) PROVE RunInv'
<1>1. /\ op.at = "free" /\ UNCHANGED <<records, stored, dirs, torn, stranded, todo, boot, marked>>
      /\ boot \in [left : SUBSET Plugins, restored : BOOLEAN]
      /\ EnableAs("enable", p) /\ records[p].ver # 0 /\ fibers' = fibers
  BY DEF Enable, Free, tables, startup, marks, RunInv, RunType
<1> QED BY <1>1, BeginsRuns

-----------------------------------------------------------------------------
(* The boot, the recheck, the sweep and a crash *)

\* A preinstalled source is installed, exchanged, enabled or skipped.
LEMMA EnsureRuns == ASSUME RunInv, NEW p \in Plugins, EnsureSource(p) PROVE RunInv'
<1>1. /\ op.at = "free" /\ UNCHANGED <<records, stored, dirs, torn, stranded, todo, marked>>
      /\ boot \in [left : SUBSET Plugins, restored : BOOLEAN]
      /\ boot' = [boot EXCEPT !.left = @ \ {p}]
      /\ MaxVer \in Versions
  BY PluginAssumption DEF EnsureSource, Free, tables, marks, RunInv, RunType, Versions
<1>2. boot' \in [left : SUBSET Plugins, restored : BOOLEAN] /\ boot'.restored = boot.restored
  BY <1>1
<1>3. \/ UNCHANGED <<op, fibers>>
      \/ InstallAs("ensure", p, MaxVer) /\ records[p].ver = 0 /\ fibers' = fibers
      \/ StartReplace("ensure", p, MaxVer) /\ records[p].ver # 0
      \/ EnableAs("ensure", p) /\ records[p].ver # 0 /\ fibers' = fibers
  BY PluginAssumption DEF EnsureSource
<1>4. CASE UNCHANGED <<op, fibers>>
  BY <1>1, <1>2, <1>4, BeginsRuns
<1>5. CASE InstallAs("ensure", p, MaxVer) /\ records[p].ver = 0 /\ fibers' = fibers
  BY <1>1, <1>2, <1>5, BeginsRuns
<1>6. CASE StartReplace("ensure", p, MaxVer) /\ records[p].ver # 0
  BY <1>1, <1>2, <1>6, BeginsRuns
<1>7. CASE EnableAs("ensure", p) /\ records[p].ver # 0 /\ fibers' = fibers
  BY <1>1, <1>2, <1>7, BeginsRuns
<1> QED BY <1>3, <1>4, <1>5, <1>6, <1>7

\* restore_enabled takes the lock for the plugin it has marked, if that is still there.
LEMMA RestoreEnablesRuns == ASSUME RunInv, NEW p \in Plugins, RestoreEnables(p) PROVE RunInv'
<1>1. /\ op.at = "free" /\ p \in marked /\ marked' = {} /\ marked = {p}
      /\ UNCHANGED <<records, stored, fibers, dirs, torn, stranded, todo, boot>>
      /\ boot \in [left : SUBSET Plugins, restored : BOOLEAN]
      /\ IF records[p].ver = 0 THEN op' = op ELSE EnableAs("restore", p)
  BY DEF RestoreEnables, Free, tables, marks, RunInv, RunType
<1>2. CASE records[p].ver # 0
  BY <1>1, <1>2, BeginsRuns
<1>3. CASE records[p].ver = 0
  <2>1. OpType' /\ StageOK'
    BY <1>1, <1>3 DEF RunInv, RunType, OpType, StageOK
  <2>2. RunType' /\ RecordsOK'
    BY <1>1, <2>1 DEF RunInv, RunType, RecordsOK
  <2>3. PluginOK(p)'
    BY <1>1, <1>3, AtRest DEF PluginOK, Fits, Lags
  <2> QED BY <1>1, <2>1, <2>2, <2>3, OnePlugin
<1> QED BY <1>2, <1>3

\* The loop of restore_enabled begins: it comes to every plugin with a record.
LEMMA RestoreBeginsRuns == ASSUME RunInv, RestoreBegins PROVE RunInv'
<1>1. /\ boot' = [boot EXCEPT !.restored = TRUE]
      /\ todo' = [p \in Plugins |-> IF records[p].ver # 0 THEN "live" ELSE "no"]
      /\ UNCHANGED <<records, stored, fibers, dirs, op, marked, torn, stranded>>
  BY DEF RestoreBegins, tables, marks
<1>2. /\ boot' \in [left : SUBSET Plugins, restored : BOOLEAN]
      /\ todo' \in [Plugins -> {"no", "live", "old"}]
  BY <1>1 DEF RunInv, RunType
<1>3. RunType' /\ RecordsOK' /\ StageOK'
  BY <1>1, <1>2 DEF RunInv, RunType, OpType, RecordsOK, StageOK
<1>4. ASSUME NEW p \in Plugins PROVE PluginOK(p)'
  <2>1. PluginOK(p) /\ (records[p].enabled => Lags(p)')
    BY <1>1 DEF RunInv, RecordsOK, Lags
  <2> QED BY <1>1, <2>1 DEF PluginOK, Fits, Busy
<1> QED BY <1>3, <1>4 DEF RunInv

\* It comes to a plugin, whose operation may be under way: the record it holds is marked
\* as not enabled, or was replaced by another one, or was not enabled.
LEMMA RestoreMarksRuns ==
  ASSUME RunInv, NEW p \in Plugins, RestoreMarks(p) \/ RestoreSkips(p)
  PROVE  RunInv'
<1>1. /\ todo' = [todo EXCEPT ![p] = "no"] /\ marked = {} /\ marked' \in {{}, {p}}
      /\ UNCHANGED <<stored, fibers, dirs, op, boot, torn, stranded>>
  BY DEF RestoreMarks, RestoreSkips, startup, tables, marks
<1>2. \/ todo[p] = "old" /\ records' = records
      \/ ~records[p].enabled /\ records' = records
      \/ records' = [records EXCEPT ![p].enabled = FALSE] /\ marked' = {p}
  BY DEF RestoreMarks, RestoreSkips, tables
<1>3. /\ todo' \in [Plugins -> {"no", "live", "old"}] /\ todo'[p] = "no"
      /\ \A q \in Plugins \ {p} : todo'[q] = todo[q]
  BY <1>1 DEF RunInv, RunType
<1>4. PICK x \in Rec : /\ x.ver = records[p].ver /\ x.enabled = FALSE /\ (x.ver = 0 => ~x.enabled)
                       /\ [records EXCEPT ![p].enabled = FALSE] = [records EXCEPT ![p] = x]
  BY OneFlag DEF RunInv
<1>5. /\ records' \in [Plugins -> Rec] /\ RecordsOK'
      /\ records'[p].ver = records[p].ver
      /\ records'[p] = records[p] \/ (~records'[p].enabled /\ marked' = {p})
      /\ \A q \in Plugins \ {p} : records'[q] = records[q]
      /\ records'[p].enabled => todo[p] = "old"
  <2>1. CASE records' = records
    BY <1>1, <1>2, <1>4, <2>1 DEF RunInv, RunType, RecordsOK
  <2>2. CASE records' = [records EXCEPT ![p].enabled = FALSE] /\ marked' = {p}
    <3>1. SaveFails([records EXCEPT ![p] = x])
      BY <1>1, <1>4, <2>2 DEF SaveFails
    <3>2. /\ records' \in [Plugins -> Rec] /\ RecordsOK' /\ records'[p] = x
          /\ \A q \in Plugins \ {p} : records'[q] = records[q]
      BY <1>4, <3>1, OneRecord DEF RunInv
    <3> QED BY <1>4, <2>2, <3>2
  <2> QED BY <1>2, <2>1, <2>2
<1>6. RunType' /\ StageOK'
  BY <1>1, <1>3, <1>5 DEF RunInv, RunType, OpType, StageOK
<1>7. ASSUME NEW q \in Plugins, q # p PROVE PluginOK(q)'
  <2>1. PluginOK(q) /\ q \notin marked /\ records'[q] = records[q] /\ (Lags(q) => Lags(q)')
    BY <1>1, <1>3, <1>5, <1>7 DEF RunInv, Lags
  <2> QED BY <1>1, <2>1 DEF PluginOK, Fits, Busy
<1>8. PluginOK(p)'
  <2>1. PluginOK(p) /\ p \notin marked /\ (records'[p].enabled /\ Lags(p) => Lags(p)')
    BY <1>1, <1>3, <1>5 DEF RunInv, Lags
  <2>2. records'[p].enabled => records[p].enabled
    BY <1>5
  <2>3. ~records'[p].enabled => ~records[p].enabled \/ p \in marked'
    BY <1>5
  <2> QED BY <1>1, <1>5, <2>1, <2>2, <2>3 DEF PluginOK, Fits, Busy
<1> QED BY <1>5, <1>6, <1>7, <1>8 DEF RunInv

\* What a crash leaves is the table; nothing runs and the boot begins anew.
LEMMA CrashRuns == ASSUME RunInv, Crash PROVE RunInv'
<1>1. /\ records' = stored /\ stored' = stored /\ dirs' = dirs
      /\ fibers' = [p \in Plugins |-> NoFiber] /\ NoFiber \in Fib
      /\ boot' = Booting /\ todo' = Nothing /\ marked' = {} /\ Release
      /\ torn' = torn \union {p \in Plugins : stored[p].ver # dirs[p]}
  BY PluginAssumption DEF Crash, NoFiber, Fib
<1>2. /\ boot' \in [left : SUBSET Plugins, restored : BOOLEAN] /\ ~boot'.restored
      /\ todo' \in [Plugins -> {"no", "live", "old"}]
  BY <1>1, PluginAssumption DEF Booting, Nothing
<1>3. OpType' /\ op'.at = "free" /\ ~op'.was
  BY <1>1, FreedOp
<1>4. RunType' /\ RecordsOK'
  BY <1>1, <1>2, <1>3 DEF RunInv, RunType, RecordsOK
<1>5. StageOK'
  BY <1>3 DEF StageOK, Swapping, Starting, Dropping
<1>6. ASSUME NEW p \in Plugins PROVE PluginOK(p)'
  <2>1. fibers'[p].ver = 0 /\ ~fibers'[p].live /\ Lags(p)'
    BY <1>1, <1>2 DEF NoFiber, Lags
  <2>2. Fits(p)'
    BY <1>1 DEF Fits
  <2> QED BY <2>1, <2>2 DEF PluginOK
<1> QED BY <1>4, <1>5, <1>6 DEF RunInv

-----------------------------------------------------------------------------

\* The node was stopped in order: directories and records agree.
LEMMA RunInit == Init => RunInv
<1> SUFFICES ASSUME Init PROVE RunInv
  OBVIOUS
<1> DEFINE one == [ver |-> 1, enabled |-> TRUE]
<1>1. PICK r \in [Plugins -> {NoRecord, one}] :
        /\ records = r /\ stored = r
        /\ dirs = [p \in Plugins |-> r[p].ver]
        /\ fibers = [p \in Plugins |-> NoFiber]
        /\ op = NoOp /\ boot = Booting /\ todo = Nothing /\ marked = {} /\ torn = {} /\ stranded = {}
  BY DEF Init
<1>2. /\ NoRecord \in Rec /\ NoRecord.ver = 0 /\ ~NoRecord.enabled
      /\ one \in Rec /\ one.ver = 1 /\ NoFiber \in Fib
  BY PluginAssumption DEF NoRecord, NoFiber, Rec, Fib
<1> HIDE DEF one
<1>3. /\ OpType /\ op.at = "free" /\ ~op.was
  BY <1>1, PluginAssumption DEF NoOp, OpType, Rec, NoRecord
<1>4. boot \in [left : SUBSET Plugins, restored : BOOLEAN] /\ ~boot.restored
  BY <1>1, PluginAssumption DEF Booting
<1>5. todo \in [Plugins -> {"no", "live", "old"}]
  BY <1>1 DEF Nothing
<1>6. \A p \in Plugins : r[p] \in Rec /\ (r[p].ver = 0 => ~r[p].enabled) /\ dirs[p] = r[p].ver
  BY <1>1, <1>2
<1>7. dirs \in [Plugins -> 0 .. MaxVer] /\ records \in [Plugins -> Rec] /\ fibers \in [Plugins -> Fib]
  <2>1. \A p \in Plugins : r[p].ver \in 0 .. MaxVer
    BY <1>6 DEF Rec
  <2> QED BY <1>1, <1>2, <2>1
<1>8. RunType /\ RecordsOK
  BY <1>1, <1>3, <1>4, <1>5, <1>6, <1>7 DEF RunType, RecordsOK
<1>9. StageOK
  BY <1>3 DEF StageOK, Swapping, Starting, Dropping
<1>10. ASSUME NEW p \in Plugins PROVE PluginOK(p)
  <2>1. fibers[p].ver = 0 /\ ~fibers[p].live /\ Lags(p) /\ Fits(p)
    BY <1>1, <1>4, <1>6 DEF NoFiber, Lags, Fits
  <2> QED BY <2>1 DEF PluginOK
<1> QED BY <1>8, <1>9, <1>10 DEF RunInv

\* Every step keeps what runs in line with what is recorded.
LEMMA RunStep == RunInv /\ [Next]_vars => RunInv'
<1> SUFFICES ASSUME RunInv, [Next]_vars PROVE RunInv'
  OBVIOUS
<1>1. CASE Steps
  BY <1>1, LandRuns, RecordRuns, SwapRuns, ReRecordRuns, UndoRuns, UndoRecordRuns, EnableRunningRuns,
     EnableMissingRuns, EnableStartsRuns, SchemaRuns, LoadedRuns, EnableFailsRuns, DropRuns, ForgetRuns
     DEF Steps
<1>2. CASE RecheckReads \/ SweepReads
  BY <1>2, StillRuns DEF RecheckReads, SweepReads, tables, startup, marks
<1>3. CASE RestoreBegins
  BY <1>3, RestoreBeginsRuns
<1>4. CASE Crash
  BY <1>4, CrashRuns
<1>5. ASSUME NEW p \in Plugins, SweepDrops(p) PROVE RunInv'
  BY <1>5, StillRuns DEF SweepDrops, tables, startup, marks
<1>6. ASSUME NEW p \in Plugins,
             \/ EnsureSource(p) \/ RestoreMarks(p) \/ RestoreSkips(p) \/ RestoreEnables(p)
             \/ RecheckDisables(p) \/ Enable(p) \/ Disable(p) \/ UpdateConfig(p)
      PROVE  RunInv'
  BY <1>6, EnsureRuns, RestoreMarksRuns, RestoreEnablesRuns, DisableRuns, EnableRuns, UpdateConfigRuns
<1>7. ASSUME NEW p \in Plugins, NEW v \in Versions, Install(p, v) \/ Replace(p, v) PROVE RunInv'
  BY <1>7, InstallRuns
<1>8. ASSUME NEW p \in Plugins, NEW keep \in BOOLEAN, NEW force \in BOOLEAN, Uninstall(p, keep, force)
      PROVE  RunInv'
  BY <1>8, UninstallRuns
<1>9. CASE UNCHANGED vars
  BY <1>9, StillRuns DEF vars, tables, startup, marks
<1> QED BY <1>1, <1>2, <1>3, <1>4, <1>5, <1>6, <1>7, <1>8, <1>9 DEF Next

\* What records, fibers and directories agree on, in every reachable state.
THEOREM RunAlways == Spec => []RunInv
BY RunInit, RunStep, PTL DEF Spec

\* For any plugins and versions, whatever succeeded, failed, was rolled back or was cut by a
\* crash: once the boot is over and the lock free, a plugin runs exactly when its record says
\* so, with the code of its directory; only a plugin whose rollback failed may be recorded as
\* enabled while nothing of it runs (PluginManager, restore_enabled).
THEOREM RunningAlwaysRecorded == Spec => []RunningIsRecorded
<1>1. RunInv => RunningIsRecorded
  <2> SUFFICES ASSUME RunInv, Settled, NEW p \in Plugins
               PROVE  /\ records[p].enabled => fibers[p].ver # 0 \/ p \in stranded
                      /\ fibers[p].ver # 0 => /\ records[p].enabled /\ dirs[p] = fibers[p].ver
                                              /\ records[p].ver = fibers[p].ver \/ p \in torn
    BY DEF RunningIsRecorded
  <2>1. op.at = "free" /\ (Lags(p) => p \in stranded) /\ p \notin marked
    BY DEF Settled, Free, Nothing, Lags
  <2> QED BY <2>1, AtRest DEF Fits
<1> QED BY <1>1, RunAlways, PTL

=============================================================================
