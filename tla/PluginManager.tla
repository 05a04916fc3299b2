---------------------------- MODULE PluginManager ----------------------------
(* PluginManager of the web API plugin, composed with the data it manages for  *)
(* the installed plugins (DbSchema): installation, replacement with rollback,  *)
(* enabling, disabling and removal, each cut by its awaits into steps that a   *)
(* crash, a failed write or a failed file operation may interrupt; the boot of *)
(* a node (preinstalled sources, then the plugins that were enabled); the      *)
(* recheck of consumers after a migration; and the manual sweep of orphans.    *)
(* One operation runs at a time (_operation_lock).                             *)
EXTENDS DbSchema, FiniteSets

CONSTANTS Plugins,              \* identifiers of installable plugins
          Producers,            \* plugins with a table of their own
          Needs,                \* Needs[c]: the owners whose data c requires
          Preinstalled,         \* plugins with a source in [node] plugins
          OpBound, FaultBound   \* operations asked for, faults

ASSUME PluginAssumption ==
    /\ MaxVer \in Nat \ {0}
    /\ Producers \subseteq Plugins /\ Preinstalled \subseteq Plugins
    /\ Needs \in [Plugins -> SUBSET Producers]
    /\ OpBound \in Nat /\ FaultBound \in Nat

VARIABLES
    records, stored,            \* installation records: in memory, in the table
    fibers,                     \* the running plugins, by the code they run
    dirs,                       \* installation directories, by the code in them
    db,                         \* what the database holds of each owner
    op,                         \* the operation that holds the lock
    boot, todo, marked,         \* the boot: its stage, and restore_enabled's loop
    recheck, doomed,            \* the recheck task, and the consumers it found
    imported, sweep,            \* owners with registered models; self_check's list
    torn,                       \* records a crash, or a rollback that failed, left out of
                                \* line with their directory
    stranded,                   \* plugins a rollback that failed left stopped as they were
    ops, faults                 \* bounds
vars == <<records, stored, fibers, dirs, db, op, boot, todo, marked, recheck, doomed, imported, sweep, torn, stranded, ops, faults>>
tables == <<records, stored>>
startup == <<boot, todo, marked>>
checks == <<recheck, doomed>>
marks == <<torn, stranded>>

Versions == 1 .. MaxVer
NoRecord == [ver |-> 0, enabled |-> FALSE]
NoFiber == [ver |-> 0, live |-> FALSE]
Running(v) == [ver |-> v, live |-> TRUE]
NoOp == [at |-> "free", kind |-> "none", p |-> CHOOSE p \in Plugins : TRUE, v |-> 0,
         prev |-> NoRecord, old |-> 0, was |-> FALSE, moved |-> FALSE, made |-> FALSE, ran |-> FALSE, keep |-> FALSE, force |-> FALSE]
Free == op.at = "free"
Goto(s) == op' = [op EXCEPT !.at = s]
Release == op' = NoOp

Booting == [left |-> Preinstalled, restored |-> FALSE]
Nothing == [p \in Plugins |-> "no"]

Ok == UNCHANGED faults
Fault == faults < FaultBound /\ faults' = faults + 1
Asked == ops < OpBound /\ ops' = ops + 1

(* _write_registry replaces the whole table in one transaction, or raises.     *)
Save(r) == records' = r /\ stored' = r
SaveFails(r) == records' = r /\ UNCHANGED stored
SaveOrNot(r) == (Save(r) /\ Ok) \/ (SaveFails(r) /\ Fault)

(* A record that is written with a flag of its own no longer says what a       *)
(* rollback that failed had left in it.                                        *)
Mended(p) == stranded' = stranded \ {p} /\ UNCHANGED torn

(* A new record object takes the place of the one restore_enabled may hold,    *)
(* which keeps the flag it had.                                                *)
Detached(p) == [todo EXCEPT ![p] = IF @ = "live" THEN IF records[p].enabled THEN "old" ELSE "no" ELSE @]
NewObject == todo' = Detached(op.p) /\ UNCHANGED <<boot, marked>>

Init ==
    \E r \in [Plugins -> {NoRecord, [ver |-> 1, enabled |-> TRUE]}] :
        /\ \A c \in Plugins : r[c].ver # 0 => \A p \in Needs[c] : r[p].ver # 0
        /\ records = r /\ stored = r
        /\ dirs = [p \in Plugins |-> r[p].ver]
        /\ db = [p \in Plugins |-> IF p \in Producers /\ r[p].ver # 0
                                   THEN [NoData EXCEPT !.row = TRUE, !.listed = TRUE, !.fp = 1, !.shape = 1]
                                   ELSE NoData]
        /\ fibers = [p \in Plugins |-> NoFiber]
        /\ op = NoOp /\ boot = Booting /\ todo = Nothing /\ marked = {}
        /\ recheck = FALSE /\ doomed = {} /\ imported = {} /\ sweep = {} /\ torn = {} /\ stranded = {}
        /\ ops = 0 /\ faults = 0
-----------------------------------------------------------------------------
(* Installation of a plugin that has no record: land the files, then the       *)
(* record; whatever fails takes both away.  A directory without a record is    *)
(* overwritten.                                                                *)
Installable(p) == \A q \in Needs[p] : records[q].ver # 0

InstallAs(kind, p, v) ==
    op' = [NoOp EXCEPT !.kind = kind, !.p = p, !.v = v, !.at = "land"]

Install(p, v) ==
    /\ Free /\ Asked /\ records[p].ver = 0 /\ Installable(p)
    /\ InstallAs("install", p, v)
    /\ UNCHANGED <<tables, fibers, dirs, db, startup, checks, imported, sweep, marks, faults>>

Land ==
    /\ op.at = "land"
    /\ \/ Ok /\ Goto("record") /\ dirs' = [dirs EXCEPT ![op.p] = op.v]
       \/ Fault /\ Release /\ dirs' = [dirs EXCEPT ![op.p] = 0]
    /\ UNCHANGED <<tables, fibers, db, startup, checks, imported, sweep, marks, ops>>

Record ==
    /\ op.at = "record"
    /\ \/ /\ Ok /\ Save([records EXCEPT ![op.p] = [ver |-> op.v, enabled |-> FALSE]])
          /\ IF op.kind = "ensure" THEN Goto("enable") ELSE Release
          /\ UNCHANGED dirs
       \/ /\ Fault /\ SaveFails(records) /\ Release
          /\ dirs' = [dirs EXCEPT ![op.p] = 0]
    /\ torn' = torn \ {op.p}
    /\ UNCHANGED <<fibers, db, startup, checks, imported, sweep, stranded, ops>>

(* Replacement: stop the old version, exchange the directories, write the      *)
(* record, enable the new version when the old one was running.                *)
ReplaceAs(kind, p, v) ==
    op' = [NoOp EXCEPT !.kind = kind, !.p = p, !.v = v, !.at = "swap",
                       !.prev = records[p], !.old = dirs[p], !.was = fibers[p].ver # 0]

StartReplace(kind, p, v) ==
    /\ ReplaceAs(kind, p, v)
    /\ fibers' = [fibers EXCEPT ![p] = NoFiber]

Replace(p, v) ==
    /\ Free /\ Asked /\ records[p].ver # 0 /\ Installable(p)
    /\ ~(records[p].ver = v /\ dirs[p] # 0)
    /\ StartReplace("replace", p, v)
    /\ UNCHANGED <<tables, dirs, db, startup, checks, imported, sweep, marks, faults>>

(* _swap_install returns whether the old directory was put aside; when it      *)
(* raises, the caller never learns that.                                       *)
Swap ==
    /\ op.at = "swap"
    /\ \/ /\ Ok /\ dirs' = [dirs EXCEPT ![op.p] = op.v]
          /\ op' = [op EXCEPT !.at = "rerecord", !.moved = dirs[op.p] # 0]
       \/ Fault /\ Goto("undo") /\ dirs' \in {dirs, [dirs EXCEPT ![op.p] = 0], [dirs EXCEPT ![op.p] = op.v]}
    /\ UNCHANGED <<tables, fibers, db, startup, checks, imported, sweep, marks, ops>>

ReRecord ==
    /\ op.at = "rerecord"
    /\ LET r == [records EXCEPT ![op.p] = [ver |-> op.v, enabled |-> op.was]]
       IN  \/ /\ Ok /\ Save(r)
              /\ IF op.was \/ op.kind = "ensure" THEN Goto("enable") ELSE Release
           \/ Fault /\ SaveFails(r) /\ Goto("undo")
    /\ NewObject /\ Mended(op.p)
    /\ UNCHANGED <<fibers, dirs, db, checks, imported, sweep, ops>>

(* The rollback: files, then record, then the old version again.  Where        *)
(* _restore_files raises, nothing after it is done: the directory is the old   *)
(* one (an archive could not be written), gone or as it was (the old one could *)
(* not be put back), and the record stays as the failure found it.             *)
Undone(d, p, moved, old) == [d EXCEPT ![p] = IF moved THEN old ELSE 0]

HalfUndone(d, p, moved, old) ==
    {Undone(d, p, moved, old), [d EXCEPT ![p] = 0]} \union (IF moved THEN {d} ELSE {})

Undo ==
    /\ op.at = "undo"
    /\ fibers' = [fibers EXCEPT ![op.p] = NoFiber]
    /\ \/ /\ Ok /\ dirs' = Undone(dirs, op.p, op.moved, op.old)
          /\ Goto("undone") /\ UNCHANGED marks
       \/ /\ Fault /\ dirs' \in HalfUndone(dirs, op.p, op.moved, op.old)
          /\ Release /\ stranded' = stranded \union {op.p}
          /\ torn' = torn \union {p \in {op.p} : records[p].ver # dirs'[p]}
    /\ UNCHANGED <<tables, db, startup, checks, imported, sweep, ops>>

UndoRecord ==
    /\ op.at = "undone"
    /\ LET r == [records EXCEPT ![op.p] = [op.prev EXCEPT !.enabled = FALSE]]
       IN  \/ /\ Ok /\ Save(r)
              /\ IF op.was THEN op' = [op EXCEPT !.at = "enable", !.kind = "rollback"] ELSE Release
           \/ Fault /\ SaveFails(r) /\ Release
    /\ NewObject /\ Mended(op.p)
    /\ UNCHANGED <<fibers, dirs, db, checks, imported, sweep, ops>>
-----------------------------------------------------------------------------
(* _enable, a part of three operations: replacement, boot, and enable itself.  *)
EnableAs(kind, p) == op' = [NoOp EXCEPT !.kind = kind, !.p = p, !.at = "enable"]

Enable(p) ==
    /\ Free /\ Asked /\ records[p].ver # 0
    /\ EnableAs("enable", p)
    /\ UNCHANGED <<tables, fibers, dirs, db, startup, checks, imported, sweep, marks, faults>>

(* A failure while the new version of a running plugin is enabled rolls the    *)
(* replacement back; any other caller reports it.                              *)
InReplacement == op.was /\ op.kind # "rollback"
AfterFailure == IF InReplacement THEN Goto("undo") ELSE Release

(* A design error the properties must notice: a running plugin is left as its  *)
(* record says.                                                                *)
AlignedNot(r, p) == r

(* A running plugin is only recorded, which takes back restore_enabled's mark. *)
Aligned(r, p) == [r EXCEPT ![p].enabled = TRUE]

EnableRunning ==
    /\ op.at = "enable" /\ fibers[op.p].live
    /\ records' = Aligned(records, op.p)
    /\ Release
    /\ UNCHANGED <<stored, fibers, dirs, db, startup, checks, imported, sweep, marks, ops, faults>>

EnableMissing ==
    /\ op.at = "enable" /\ ~fibers[op.p].live /\ dirs[op.p] = 0
    /\ fibers' = [fibers EXCEPT ![op.p] = NoFiber]
    /\ IF op.kind = "restore" THEN Save(records) ELSE UNCHANGED tables
    /\ AfterFailure
    /\ UNCHANGED <<dirs, db, startup, checks, imported, sweep, marks, ops, faults>>

(* _check_data_requirements, then the module is imported and the plugin's init *)
(* brings its own table up to its model.                                       *)
Required(p) == \A q \in Needs[p] : Satisfies(db[q], records[p].ver)

EnableStarts ==
    /\ op.at = "enable" /\ ~fibers[op.p].live /\ dirs[op.p] # 0 /\ Required(op.p)
    /\ fibers' = [fibers EXCEPT ![op.p] = NoFiber]
    /\ imported' = imported \union {op.p}
    /\ IF op.p \in Producers THEN op' = [op EXCEPT !.at = "claim", !.made = FALSE, !.ran = FALSE]
                             ELSE Goto("load")
    /\ UNCHANGED <<tables, dirs, db, startup, checks, sweep, marks, ops, faults>>

SetData(d) == db' = [db EXCEPT ![op.p] = d]

(* sync_schema, under the schema lock: one transaction per step.               *)
ClaimTable ==
    /\ op.at = "claim"
    /\ SetData(Claim(db[op.p])) /\ Goto("create")
    /\ UNCHANGED <<tables, fibers, dirs, startup, checks, imported, sweep, marks, ops, faults>>

EnsureTable ==
    /\ op.at = "create"
    /\ SetData(Create(db[op.p], dirs[op.p]))
    /\ op' = [op EXCEPT !.at = "migrate", !.made = db[op.p].shape = 0]
    /\ UNCHANGED <<tables, fibers, dirs, startup, checks, imported, sweep, marks, ops, faults>>

RunMigration ==
    /\ op.at = "migrate"
    /\ LET d == db[op.p]  v == dirs[op.p]
       IN  \/ /\ v > 1 /\ IsBaseline(d, op.made)
              /\ SetData(Baseline(d, v)) /\ Goto("notice")
           \/ /\ v > 1 /\ ~IsBaseline(d, op.made) /\ NextStep(d) <= v
              /\ SetData(Migrated(d)) /\ op' = [op EXCEPT !.ran = TRUE]
           \/ /\ v = 1 \/ (~IsBaseline(d, op.made) /\ NextStep(d) > v)
              /\ UNCHANGED db /\ Goto("notice")
    /\ UNCHANGED <<tables, fibers, dirs, startup, checks, imported, sweep, marks, ops, faults>>

(* _sync_fingerprint and _notice_consumers: only a structure that changed is   *)
(* announced.                                                                  *)
Notice ==
    /\ op.at = "notice"
    /\ SetData(Fingerprinted(db[op.p], dirs[op.p]))
    /\ recheck' = (recheck \/ op.ran) /\ UNCHANGED doomed
    /\ Goto("load")
    /\ UNCHANGED <<tables, fibers, dirs, startup, imported, sweep, marks, ops, faults>>

Loaded ==
    /\ op.at = "load"
    /\ Save([records EXCEPT ![op.p].enabled = TRUE])
    /\ fibers' = [fibers EXCEPT ![op.p] = Running(dirs[op.p])]
    /\ Release /\ Mended(op.p)
    /\ UNCHANGED <<dirs, db, startup, checks, imported, sweep, ops, faults>>

(* _rollback_failed_enable: the requirements are not met, a step or a          *)
(* migration fails (the transaction is rolled back), the module does not load, *)
(* the record cannot be written.  Its own write is an attempt, which restore_  *)
(* enabled repeats; the node does not start when that fails too.               *)
Refused == op.at = "enable" /\ ~fibers[op.p].live /\ dirs[op.p] # 0 /\ ~Required(op.p)
Broken == op.at \in {"claim", "create", "migrate", "notice", "load"}

EnableFails ==
    /\ Refused \/ Broken
    /\ fibers' = [fibers EXCEPT ![op.p] = NoFiber]
    /\ LET r == [records EXCEPT ![op.p].enabled = FALSE]
       IN  \/ Save(r) /\ (IF Refused THEN Ok ELSE Fault)
           \/ op.kind # "restore" /\ SaveFails(r) /\ Fault
    /\ AfterFailure /\ Mended(op.p)
    /\ UNCHANGED <<dirs, db, startup, checks, imported, sweep, ops>>
-----------------------------------------------------------------------------
Stopped(p) == fibers' = [fibers EXCEPT ![p] = NoFiber]

DisableAs(p) ==
    /\ records[p].ver # 0
    /\ Stopped(p) /\ SaveOrNot([records EXCEPT ![p].enabled = FALSE]) /\ Mended(p)

Disable(p) ==
    /\ Free /\ Asked /\ DisableAs(p)
    /\ UNCHANGED <<dirs, db, op, startup, checks, imported, sweep>>

(* _update_config of a running plugin: the record is written, then the restart *)
(* is awaited.  A write that fails leaves the restart to itself.               *)
UpdateConfig(p) ==
    /\ Free /\ Asked /\ records[p].ver # 0 /\ fibers[p].live
    /\ \/ Ok /\ Save(records) /\ UNCHANGED fibers
       \/ Fault /\ SaveFails(records) /\ fibers' = [fibers EXCEPT ![p].live = FALSE]
       \/ Fault /\ Stopped(p) /\ Save([records EXCEPT ![p].enabled = FALSE])
    /\ UNCHANGED <<dirs, db, op, startup, checks, imported, sweep, marks>>

(* _uninstall: stop, drop the data unless an installed plugin needs it, delete *)
(* the package, forget the record.                                             *)
Uninstall(p, keep, force) ==
    /\ Free /\ Asked /\ records[p].ver # 0
    /\ LET to == [NoOp EXCEPT !.kind = "uninstall", !.p = p, !.at = "data", !.keep = keep, !.force = force]
       IN  \/ fibers[p].ver = 0 /\ Ok /\ op' = to /\ UNCHANGED <<tables, fibers>>
           \/ fibers[p].ver # 0 /\ Ok /\ op' = to /\ Stopped(p) /\ Save([records EXCEPT ![p].enabled = FALSE])
           \/ /\ fibers[p].ver # 0 /\ Fault /\ Stopped(p) /\ UNCHANGED op
              /\ SaveFails([records EXCEPT ![p].enabled = FALSE])
    /\ UNCHANGED <<dirs, db, startup, checks, imported, sweep, marks>>

DropData ==
    /\ op.at = "data"
    /\ \/ Consumers(stored, Needs, op.p) # {} /\ ~op.force /\ Release /\ UNCHANGED db
       \/ /\ Consumers(stored, Needs, op.p) = {} \/ op.force
          /\ IF op.keep THEN SetData(Kept(db[op.p])) /\ Goto("files")
             ELSE UNCHANGED db /\ Goto(IF db[op.p].listed THEN "drop" ELSE "release")
    /\ UNCHANGED <<tables, fibers, dirs, startup, checks, imported, sweep, marks, ops, faults>>

DropTable ==
    /\ op.at = "drop"
    /\ \/ Ok /\ SetData(Dropped(db[op.p])) /\ Goto("unclaim")
       \/ Fault /\ UNCHANGED db /\ Goto("files")
    /\ UNCHANGED <<tables, fibers, dirs, startup, checks, imported, sweep, marks, ops>>

UnclaimTable ==
    /\ op.at = "unclaim"
    /\ SetData(Unclaimed(db[op.p])) /\ Goto("release")
    /\ UNCHANGED <<tables, fibers, dirs, startup, checks, imported, sweep, marks, ops, faults>>

ReleaseOwner ==
    /\ op.at = "release"
    /\ SetData(NoData) /\ Goto("files")
    /\ UNCHANGED <<tables, fibers, dirs, startup, checks, imported, sweep, marks, ops, faults>>

RemoveFiles ==
    /\ op.at = "files"
    /\ \/ Ok /\ Goto("forget") /\ dirs' = [dirs EXCEPT ![op.p] = 0]
       \/ Fault /\ Release /\ UNCHANGED dirs
    /\ UNCHANGED <<tables, fibers, db, startup, checks, imported, sweep, marks, ops>>

Forget ==
    /\ op.at = "forget"
    /\ SaveOrNot([records EXCEPT ![op.p] = NoRecord]) /\ Release
    /\ torn' = torn \ {op.p} /\ stranded' = stranded \ {op.p} /\ NewObject
    /\ UNCHANGED <<fibers, dirs, db, checks, imported, sweep, ops>>
-----------------------------------------------------------------------------
(* The boot: each preinstalled source is compared with the record by digest    *)
(* and installed when they differ, then enabled, under one lock.               *)
EnsureSource(p) ==
    /\ Free /\ p \in boot.left
    /\ boot' = [boot EXCEPT !.left = @ \ {p}] /\ UNCHANGED <<todo, marked>>
    /\ \/ records[p].ver # MaxVer /\ ~Installable(p) /\ UNCHANGED <<op, fibers>>
       \/ records[p].ver = 0 /\ Installable(p) /\ InstallAs("ensure", p, MaxVer) /\ UNCHANGED fibers
       \/ records[p].ver \notin {0, MaxVer} /\ Installable(p) /\ StartReplace("ensure", p, MaxVer)
       \/ records[p].ver = MaxVer /\ EnableAs("ensure", p) /\ UNCHANGED fibers
    /\ UNCHANGED <<tables, dirs, db, checks, imported, sweep, marks, ops, faults>>

RestoreBegins ==
    /\ boot.left = {} /\ ~boot.restored /\ op.kind # "ensure"
    /\ boot' = [boot EXCEPT !.restored = TRUE] /\ UNCHANGED marked
    /\ todo' = [p \in Plugins |-> IF records[p].ver # 0 THEN "live" ELSE "no"]
    /\ UNCHANGED <<tables, fibers, dirs, db, op, checks, imported, sweep, marks, ops, faults>>

(* restore_enabled marks a record as not enabled before it asks for the lock.  *)
RestoreMarks(p) ==
    /\ todo[p] = "old" \/ (todo[p] = "live" /\ records[p].enabled)
    /\ marked = {} /\ op.kind # "restore"
    /\ marked' = {p} /\ todo' = [todo EXCEPT ![p] = "no"] /\ UNCHANGED boot
    /\ records' = IF todo[p] = "live" THEN [records EXCEPT ![p].enabled = FALSE] ELSE records
    /\ UNCHANGED <<stored, fibers, dirs, db, op, checks, imported, sweep, marks, ops, faults>>

RestoreSkips(p) ==
    /\ todo[p] = "live" /\ ~records[p].enabled
    /\ marked = {} /\ op.kind # "restore"
    /\ todo' = [todo EXCEPT ![p] = "no"] /\ UNCHANGED <<boot, marked>>
    /\ UNCHANGED <<tables, fibers, dirs, db, op, checks, imported, sweep, marks, ops, faults>>

RestoreEnables(p) ==
    /\ Free /\ p \in marked
    /\ marked' = {} /\ UNCHANGED <<boot, todo>>
    /\ IF records[p].ver = 0 THEN UNCHANGED op ELSE EnableAs("restore", p)
    /\ UNCHANGED <<tables, fibers, dirs, db, checks, imported, sweep, marks, ops, faults>>

(* The recheck task: read the stored records and the structure, then disable   *)
(* what does not fit, one lock after another.                                  *)
RecheckReads ==
    /\ recheck /\ recheck' = FALSE
    /\ doomed' = doomed \union {c \in Plugins : stored[c].ver # 0 /\ Needs[c] # {} /\
                                \E q \in Needs[c] : ~Satisfies(db[q], stored[c].ver)}
    /\ UNCHANGED <<tables, fibers, dirs, db, op, startup, imported, sweep, marks, ops, faults>>

RecheckDisables(c) ==
    /\ c \in doomed
    /\ doomed' = doomed \ {c} /\ UNCHANGED recheck
    /\ \/ fibers[c].ver = 0 /\ Ok /\ UNCHANGED <<tables, fibers, marks>>
       \/ fibers[c].ver # 0 /\ Free /\ DisableAs(c)
    /\ UNCHANGED <<dirs, db, op, startup, imported, sweep, ops>>

(* self_check(policy = drop): the list is read, then each owner on it is       *)
(* dropped by force under the schema lock.                                     *)
SweepReads ==
    /\ sweep = {} /\ Asked
    /\ sweep' = Orphans(db, stored, imported) /\ sweep' # {}
    /\ UNCHANGED <<tables, fibers, dirs, db, op, startup, checks, imported, marks, faults>>

SchemaLocked == op.at \in {"create", "migrate", "notice", "drop", "unclaim", "release"}

SweepDrops(p) ==
    /\ p \in sweep /\ ~SchemaLocked
    /\ sweep' = sweep \ {p} /\ db' = [db EXCEPT ![p] = NoData]
    /\ UNCHANGED <<tables, fibers, dirs, op, startup, checks, imported, marks, ops, faults>>

(* A crash, or a stop: what is left is the table, the directories, the data.   *)
Crash ==
    /\ Fault
    /\ records' = stored /\ UNCHANGED <<stored, dirs, db, ops>>
    /\ fibers' = [p \in Plugins |-> NoFiber] /\ Release
    /\ boot' = Booting /\ todo' = Nothing /\ marked' = {}
    /\ recheck' = FALSE /\ doomed' = {} /\ imported' = {} /\ sweep' = {}
    /\ torn' = torn \union {p \in Plugins : stored[p].ver # dirs[p]} /\ stranded' = {}

Steps == Land \/ Record \/ Swap \/ ReRecord \/ Undo \/ UndoRecord \/ EnableRunning \/ EnableMissing
         \/ EnableStarts \/ ClaimTable \/ EnsureTable \/ RunMigration \/ Notice \/ Loaded \/ EnableFails
         \/ DropData \/ DropTable \/ UnclaimTable \/ ReleaseOwner \/ RemoveFiles \/ Forget

Next == \/ Steps \/ RestoreBegins \/ RecheckReads \/ SweepReads \/ Crash
        \/ \E p \in Plugins : EnsureSource(p) \/ RestoreMarks(p) \/ RestoreSkips(p) \/ RestoreEnables(p)
                              \/ RecheckDisables(p) \/ SweepDrops(p) \/ Enable(p) \/ Disable(p) \/ UpdateConfig(p)
        \/ \E p \in Plugins, v \in Versions : Install(p, v) \/ Replace(p, v)
        \/ \E p \in Plugins, keep, force \in BOOLEAN : Uninstall(p, keep, force)

Spec == Init /\ [][Next]_vars
-----------------------------------------------------------------------------
(* No operation and no boot is under way.                                      *)
Settled == Free /\ boot.restored /\ todo = Nothing /\ marked = {}

(* After whatever succeeded, failed or was rolled back, a plugin runs exactly  *)
(* when its record says that it is enabled, and it runs the code of its        *)
(* directory, which is the version the record names unless a crash cut a       *)
(* replacement.  The one exception is a plugin whose rollback failed as well:  *)
(* it may be recorded as enabled while nothing of it runs, until something is  *)
(* written of it or the node starts again.                                     *)
RunningIsRecorded ==
    Settled => \A p \in Plugins :
        /\ records[p].enabled => fibers[p].ver # 0 \/ p \in stranded
        /\ fibers[p].ver # 0 => /\ records[p].enabled /\ dirs[p] = fibers[p].ver
                                /\ records[p].ver = fibers[p].ver \/ p \in torn

(* Whatever crashes or fails, the migration steps a table has seen follow one  *)
(* another without a gap or a repetition, and the stored version is the last.  *)
StepsInOrder ==
    \A p \in Plugins : LET s == db[p].steps
                       IN  /\ \A i \in 1 .. Len(s) : s[i] = s[1] + i - 1
                           /\ s # <<>> => db[p].ver = s[Len(s)]

(* A table is claimed for as long as it exists, crashes, failed drops and      *)
(* sweeps included: what is left behind can be found and reclaimed.            *)
TablesAreClaimed == \A p \in Plugins : db[p].shape # 0 => db[p].row /\ db[p].listed

(* A replacement that fails is rolled back to the old version whatever step    *)
(* failed (_replace_install).  The code does not keep this: a swap that raises  *)
(* has the old directory deleted.                                              *)
RolledBack == op.at = "undone" => dirs[op.p] = op.old

(* The rollback restores directory, record and fiber: with no operation under  *)
(* way, what is recorded as enabled runs (_replace_install).  The code does not *)
(* keep this: a directory that cannot be restored leaves record and fiber.     *)
EnabledRuns == Settled => \A p \in Plugins : records[p].enabled => fibers[p].ver # 0
=============================================================================
