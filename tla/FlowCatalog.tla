----------------------------- MODULE FlowCatalog -----------------------------
(***************************************************************************)
(* The flows of a node: templates and steps that plugins register, user    *)
(* flows that administrators save, the cache of them that runs are started *)
(* from (common/plugins/flow/service.py, registry.py, store.py) and the    *)
(* HTTP handlers in front (api.py).  What a run will do is FlowPlan.       *)
(*                                                                         *)
(* Everything runs on one event loop: what lies between two awaits is one  *)
(* action.  A call that awaits is a job, and its pc names the await it     *)
(* stands at.                                                              *)
(*                                                                         *)
(*   templates   flow definitions by id, steps the registered steps,       *)
(*               drained those that take no more work                      *)
(*   defs        the rows of flow_defs by flow: version v at place v       *)
(*   cache       _user_flows: what was built from the latest rows          *)
(*   runs        flow_runs in the order of creation; kept is FALSE once    *)
(*               retention has deleted the row                             *)
(*   memory      _idempotency together with _runs                          *)
(*   behind      history: the last refresh overlapped another write, or a  *)
(*               write was not followed by one                             *)
(***************************************************************************)
EXTENDS FlowPlan

CONSTANTS
  FlowIds,        \* ids that administrators save flows under, in order
  Templates,      \* template id -> the definitions plugins may give it
  Steps,          \* the steps plugins may register
  Attachments,    \* [flow, slot, node]: inserts that plugins propose
  Installed,      \* [templates, steps]: what the plugins of the node bring along
  Bodies,         \* flow id -> the bodies that may be saved: [extends, over, def]
  RunOverrides,   \* what a start may ask for on top
  Keys,           \* idempotency keys
  Kept,           \* retain_max_runs
  JobBound,       \* calls in flight
  RunBound,       \* runs
  OpBound         \* registrations, requests, failing statements and restarts, in all

ASSUME KeptAssumption == Kept \in Nat \ {0}

\* latest_defs gives one row of each flow, in some order.
ASSUME FlowIdsAssumption ==
  /\ FlowIds \in Seq(Range(FlowIds)) /\ IsInjective(FlowIds)
  /\ JobBound \in Nat

VARIABLES templates, steps, drained, attached, defs, cache, jobs, runs, memory, behind, spent
vars == <<templates, steps, drained, attached, defs, cache, jobs, runs, memory, behind, spent>>
plugins == <<templates, steps, drained, attached>>

Jobs == 1 .. JobBound
Saved == Range(FlowIds)

\* What plugins and requests bring along, as parse_flow_def and _parse_insert_node read it.
IsBody(body) == {"extends", "over", "def"} \subseteq DOMAIN body /\ IsOverrides(body.over) /\ IsFlow(body.def)
ASSUME ShapesAssumption ==
  /\ \A t \in DOMAIN Templates : \A flow \in Templates[t] : IsFlow(flow)
  /\ \A t \in DOMAIN Installed.templates : IsFlow(Installed.templates[t])
  /\ \A f \in Saved : \A body \in Bodies[f] : IsBody(body)
  /\ \A over \in RunOverrides : IsOverrides(over)
  /\ \A a \in Attachments : IsNode(a.node)

NoRow == [version |-> 0, body |-> [extends |-> "none", over |-> NoOverrides, def |-> EmptyFlow],
          attention |-> FALSE, enabled |-> TRUE]
NoPlan == [base |-> EmptyFlow, nodes |-> << >>, off |-> {}, version |-> 0]
Free == [pc |-> "free", flow |-> "none", row |-> NoRow, only |-> "all", rows |-> << >>,
         built |-> << >>, at |-> 1, fresh |-> TRUE, wrote |-> FALSE,
         key |-> "none", extra |-> NoOverrides, plan |-> NoPlan]
Refresh(only) == [Free EXCEPT !.pc = "read", !.only = only]

Alive == steps \ drained
Without(f, x) == [y \in DOMAIN f \ {x} |-> f[y]]
Spend == spent < OpBound /\ spent' = spent + 1

\* asyncio.create_task, or a call that is about to await.
FreeJob == \E j \in Jobs : jobs[j].pc = "free"
Spawned(job) ==
  [jobs EXCEPT ![CHOOSE j \in Jobs : jobs[j].pc = "free" /\ \A k \in 1 .. j - 1 : jobs[k].pc # "free"] = job]
Finish(j) == jobs' = [jobs EXCEPT ![j] = Free]
Move(j, pc) == jobs' = [jobs EXCEPT ![j].pc = pc]
\* A write to flow_defs by j: what the others have read is not the latest.
Outdated(j, job) == [k \in Jobs |-> IF k = j THEN job ELSE [jobs[k] EXCEPT !.fresh = FALSE]]

\* The node is up for the first time: nothing is saved yet, the installed plugins
\* have registered and the refreshes that caused are over.
Init ==
  /\ templates = Installed.templates /\ steps = Installed.steps
  /\ drained = {} /\ attached = {}
  /\ defs = [f \in Saved |-> << >>]
  /\ cache = << >>
  /\ jobs = [j \in Jobs |-> Free]
  /\ runs = << >>
  /\ memory = << >>
  /\ behind = FALSE
  /\ spent = 0

-----------------------------------------------------------------------------
(* Plugins *)

\* define(): the flows that extend the template are checked again.
Define(t, flow) ==
  /\ Spend /\ FreeJob
  /\ t \notin DOMAIN templates
  /\ ValidTemplate(flow)
  /\ templates' = [x \in DOMAIN templates \cup {t} |-> IF x = t THEN flow ELSE templates[x]]
  /\ jobs' = Spawned(Refresh(t))
  /\ UNCHANGED <<steps, drained, attached, defs, cache, runs, memory, behind>>

\* The plugin is unloaded: nothing is checked again.
Undefine(t) ==
  /\ Spend
  /\ t \in DOMAIN templates
  /\ templates' = Without(templates, t)
  /\ UNCHANGED <<steps, drained, attached, defs, cache, jobs, runs, memory, behind>>

\* A step of the same provider takes the place of the one it had.
RegisterStep(s) ==
  /\ Spend
  /\ LET old == {r \in steps : r.stage = s.stage /\ r.step = s.step}
     IN  /\ \A r \in old : r.provider = s.provider
         /\ steps' = (steps \ old) \cup {s}
         /\ drained' = drained \ (old \cup {s})
  /\ UNCHANGED <<templates, attached, defs, cache, jobs, runs, memory, behind>>

CloseStep(s) ==
  /\ Spend
  /\ s \in steps
  /\ steps' = steps \ {s}
  /\ drained' = drained \ {s}
  /\ UNCHANGED <<templates, attached, defs, cache, jobs, runs, memory, behind>>

DrainStep(s) ==
  /\ Spend
  /\ s \in Alive
  /\ drained' = drained \cup {s}
  /\ UNCHANGED <<templates, steps, attached, defs, cache, jobs, runs, memory, behind>>

Declare(a) ==
  /\ Spend
  /\ a \notin attached
  /\ attached' = attached \cup {a}
  /\ UNCHANGED <<templates, steps, drained, defs, cache, jobs, runs, memory, behind>>

Withdraw(a) ==
  /\ Spend
  /\ a \in attached
  /\ attached' = attached \ {a}
  /\ UNCHANGED <<templates, steps, drained, defs, cache, jobs, runs, memory, behind>>

-----------------------------------------------------------------------------
(* Requests *)

Roles == {"admin", "operator"}
Permits(role, point) == role = "admin" \/ point \in {"flow:read", "flow:run"}
Requested(role, point) ==
  FreeJob /\ Spend /\ Permits(role, point)

\* save_flow: what is refused.  A missing provider is not.
Savable(f, body) ==
  /\ f \notin DOMAIN templates
  /\ IF body.extends = "none" THEN ValidDef(body.def)
     ELSE /\ body.extends \in DOMAIN templates
          /\ Semantic(templates[body.extends], body.over, Alive) = {}

SaveFlow(f, body, enabled) ==
  /\ Savable(f, body)
  /\ jobs' = Spawned([Free EXCEPT !.pc = "insert", !.flow = f,
                                  !.row = [NoRow EXCEPT !.body = body, !.enabled = enabled]])
  /\ UNCHANGED <<plugins, defs, cache, runs, memory, behind>>

PutFlow(role, f, body, enabled) == Requested(role, "flow:edit") /\ SaveFlow(f, body, enabled)

\* The body of the cached version with the insert of the attachment put in or
\* taken out.  enabled is no part of a stored body: the new version is enabled.
Attach(body, a, slot, on) ==
  LET specs == body.over.insert
      rest == Where(specs, {i \in DOMAIN specs : specs[i].node.id # a.node.id})
  IN  [body EXCEPT !.over.insert =
         IF on THEN Append(rest, [after |-> slot.after, node |-> a.node]) ELSE rest]

PutAttachment(role, a, f, on) ==
  /\ Requested(role, "flow:admin")
  /\ a \in attached
  /\ f \in DOMAIN cache /\ cache[f].body.extends = a.flow
  /\ a.flow \in DOMAIN templates
  /\ \E slot \in templates[a.flow].slots :
       slot.id = a.slot /\ SaveFlow(f, Attach(cache[f].body, a, slot, on), TRUE)

DeleteFlow(role, f) ==
  /\ Requested(role, "flow:edit")
  /\ f \notin DOMAIN templates
  /\ f \in DOMAIN cache
  /\ jobs' = Spawned([Free EXCEPT !.pc = "delete", !.flow = f])
  /\ UNCHANGED <<plugins, defs, cache, runs, memory, behind>>

\* save_def: the next version, in one transaction.
Insert(j) ==
  /\ jobs[j].pc = "insert"
  /\ LET f == jobs[j].flow
         row == [jobs[j].row EXCEPT !.version = Len(defs[f]) + 1]
     IN  /\ defs' = [defs EXCEPT ![f] = Append(@, row)]
         /\ jobs' = Outdated(j, [jobs[j] EXCEPT !.pc = "saved", !.row = row, !.wrote = TRUE])
  /\ UNCHANGED <<plugins, cache, runs, memory, behind, spent>>

\* save_def asserts that the row can be read back; then everything is refreshed.
ReadBack(j) ==
  /\ jobs[j].pc = "saved"
  /\ IF jobs[j].row.version \in DOMAIN defs[jobs[j].flow]
     THEN Move(j, "read")
     ELSE Finish(j)
  /\ UNCHANGED <<plugins, defs, cache, runs, memory, behind, spent>>

DeleteRows(j) ==
  /\ jobs[j].pc = "delete"
  /\ defs' = [defs EXCEPT ![jobs[j].flow] = << >>]
  /\ jobs' = Outdated(j, [jobs[j] EXCEPT !.pc = "pop"])
  /\ UNCHANGED <<plugins, cache, runs, memory, behind, spent>>

\* The entry goes, even if the flow has been saved again by now.
Pop(j) ==
  /\ jobs[j].pc = "pop"
  /\ cache' = Without(cache, jobs[j].flow)
  /\ behind' = (behind \/ defs[jobs[j].flow] # << >>)
  /\ Finish(j)
  /\ UNCHANGED <<plugins, defs, runs, memory, spent>>

-----------------------------------------------------------------------------
(* _revalidate_user_flows: read the latest rows, build an entry of each, put *)
(* the flag of those that changed right, assign the lot.                     *)

Latest == [f \in {g \in Saved : defs[g] # << >>} |-> Last(defs[f])]

Read(j) ==
  /\ jobs[j].pc = "read"
  /\ jobs' = [jobs EXCEPT ![j].pc = "build", ![j].rows = Latest, ![j].fresh = TRUE]
  /\ UNCHANGED <<plugins, defs, cache, runs, memory, behind, spent>>

\* _build_entry: the definitions that are stored were parsed when they were saved.
BuildEntry(row) ==
  LET known == row.body.extends \in DOMAIN templates
  IN  [row |-> row,
       flow |-> CASE row.body.extends = "none" -> row.body.def
                  [] row.body.extends # "none" /\ known -> templates[row.body.extends]
                  [] OTHER -> EmptyFlow,
       over |-> IF known THEN row.body.over ELSE NoOverrides,
       body |-> row.body,
       broken |-> row.body.extends # "none"
                    /\ (known => Semantic(templates[row.body.extends], row.body.over, Alive) # {})]

\* The flows from place `at` on whose flag is to be changed.
Changed(job) ==
  {i \in job.at .. Len(FlowIds) :
     /\ FlowIds[i] \in DOMAIN job.rows
     /\ LET row == job.rows[FlowIds[i]]
        IN  job.only \in {"all", row.body.extends} /\ BuildEntry(row).broken # row.attention}
BuiltTo(job, i) ==
  LET now == {FlowIds[k] : k \in job.at .. i} \cap DOMAIN job.rows
  IN  [f \in now \cup DOMAIN job.built |-> IF f \in now THEN BuildEntry(job.rows[f]) ELSE job.built[f]]

\* Build entries up to the first one whose flag is to be written.
BuildToFlag(j) ==
  /\ jobs[j].pc = "build"
  /\ Changed(jobs[j]) # {}
  /\ LET i == Min(Changed(jobs[j]))
     IN  jobs' = [jobs EXCEPT ![j].pc = "flag", ![j].at = i, ![j].built = BuiltTo(jobs[j], i)]
  /\ UNCHANGED <<plugins, defs, cache, runs, memory, behind, spent>>

\* Build the rest; _user_flows is what this call has built.
BuildRest(j) ==
  /\ jobs[j].pc = "build"
  /\ Changed(jobs[j]) = {}
  /\ cache' = BuiltTo(jobs[j], Len(FlowIds))
  /\ behind' = ~jobs[j].fresh
  /\ Finish(j)
  /\ UNCHANGED <<plugins, defs, runs, memory, spent>>

\* Mutant of Flagged: the copy of the row that the entry holds keeps its flag.
FlaggedRow(entry) == entry
Flagged(entry) == [entry EXCEPT !.row.attention = entry.broken]

\* set_def_flags on the version that was read, whatever it holds by now.
Flag(j) ==
  /\ jobs[j].pc = "flag"
  /\ LET f == FlowIds[jobs[j].at]
         entry == jobs[j].built[f]
         v == entry.row.version
         job == [jobs[j] EXCEPT !.pc = "build", !.at = @ + 1, !.wrote = TRUE,
                                !.built[f] = Flagged(entry)]
     IN  IF v \in DOMAIN defs[f]
         THEN /\ defs' = [defs EXCEPT ![f][v].attention = entry.broken]
              /\ jobs' = Outdated(j, job)
         ELSE UNCHANGED defs /\ jobs' = [jobs EXCEPT ![j] = job]
  /\ UNCHANGED <<plugins, cache, runs, memory, behind, spent>>

-----------------------------------------------------------------------------
(* start *)

\* _resolve_flow: a user flow comes before a template of the same id.
Startable(f) == IF f \in DOMAIN cache THEN cache[f].row.enabled /\ ~cache[f].row.attention
                ELSE f \in DOMAIN templates
ResolveFlow(f) == IF f \in DOMAIN cache
                  THEN [flow |-> cache[f].flow, over |-> cache[f].over, version |-> cache[f].row.version]
                  ELSE [flow |-> templates[f], over |-> NoOverrides, version |-> 0]

\* The flow is resolved, merged and found without errors, and all that is left
\* is to write the run.
Planned(job) ==
  LET to == ResolveFlow(job.flow)
      over == MergeOverrides(to.over, job.extra)
      result == ApplyOverrides(to.flow, over)
  IN  IF Startable(job.flow) /\ Errors(Preflight(to.flow, over, Alive)) = {}
      THEN [job EXCEPT !.pc = "create",
                       !.plan = [base |-> to.flow, nodes |-> result.nodes, off |-> result.off,
                                 version |-> to.version]]
      ELSE Free

\* A key that memory knows gives the run it stands for.
PostRun(role, f, extra, key) ==
  /\ Requested(role, "flow:run")
  /\ f \in DOMAIN cache \cup DOMAIN templates
  /\ key \notin DOMAIN memory
  /\ LET job == [Free EXCEPT !.flow = f, !.extra = extra, !.key = key]
     IN  jobs' = Spawned(IF key = "none" THEN Planned(job) ELSE [job EXCEPT !.pc = "lookup"])
  /\ UNCHANGED <<plugins, defs, cache, runs, memory, behind>>

KeptRuns == {i \in DOMAIN runs : runs[i].kept}
WithKey(key) == {i \in KeptRuns : key # "none" /\ runs[i].key = key}

\* A key that the table knows gives a shell of that run, and start returns.
Lookup(j) ==
  /\ jobs[j].pc = "lookup"
  /\ IF WithKey(jobs[j].key) = {} THEN Move(j, "plan") ELSE Finish(j)
  /\ UNCHANGED <<plugins, defs, cache, runs, memory, behind, spent>>

Plan(j) ==
  /\ jobs[j].pc = "plan"
  /\ jobs' = [jobs EXCEPT ![j] = Planned(jobs[j])]
  /\ UNCHANGED <<plugins, defs, cache, runs, memory, behind, spent>>

\* Mutant of Unique: idempotency_key is no unique column.
AnyKey(key) == TRUE
Unique(key) == WithKey(key) = {}

\* record_run_created; the column refuses a second row with the key.
Create(j) ==
  /\ jobs[j].pc = "create"
  /\ Len(runs) < RunBound
  /\ IF Unique(jobs[j].key)
     THEN /\ runs' = Append(runs, [from |-> jobs[j].flow, key |-> jobs[j].key, kept |-> TRUE,
                                   plan |-> jobs[j].plan])
          /\ memory' = IF jobs[j].key = "none" THEN memory
                       ELSE [k \in DOMAIN memory \cup {jobs[j].key} |->
                               IF k = jobs[j].key THEN Len(runs) + 1 ELSE memory[k]]
     ELSE UNCHANGED <<runs, memory>>
  /\ Finish(j)
  /\ UNCHANGED <<plugins, defs, cache, behind, spent>>

\* retain: the oldest rows go, by age or because there are too many.
Retain(n) ==
  /\ n \in KeptRuns
  /\ Cardinality({i \in KeptRuns : i > n}) <= Kept
  /\ runs' = [i \in DOMAIN runs |-> [runs[i] EXCEPT !.kept = @ /\ i > n]]
  /\ UNCHANGED <<plugins, defs, cache, jobs, memory, behind, spent>>

-----------------------------------------------------------------------------
(* Faults *)

AtStore == {"insert", "saved", "delete", "read", "flag", "lookup", "create"}

\* The statement fails and the call ends there.
StoreFails(j) ==
  /\ Spend
  /\ jobs[j].pc \in AtStore
  /\ behind' = (behind \/ jobs[j].wrote)
  /\ Finish(j)
  /\ UNCHANGED <<plugins, defs, cache, runs, memory>>

\* The process ends and comes up again; only the tables are left, and the first
\* refresh, of init(), is under way.
Restart ==
  /\ Spend
  /\ templates' = << >> /\ steps' = {} /\ drained' = {} /\ attached' = {}
  /\ cache' = << >>
  /\ jobs' = [j \in Jobs |-> IF j = 1 THEN Refresh("all") ELSE Free]
  /\ memory' = << >>
  /\ behind' = TRUE
  /\ UNCHANGED <<defs, runs>>

Plugin ==
  \/ \E t \in DOMAIN Templates : \E flow \in Templates[t] : Define(t, flow)
  \/ \E t \in DOMAIN Templates : Undefine(t)
  \/ \E s \in Steps : RegisterStep(s) \/ CloseStep(s) \/ DrainStep(s)
  \/ \E a \in Attachments : Declare(a) \/ Withdraw(a)

Request(role) ==
  \/ \E f \in Saved, enabled \in BOOLEAN : \E body \in Bodies[f] : PutFlow(role, f, body, enabled)
  \/ \E a \in Attachments, f \in Saved, on \in BOOLEAN : PutAttachment(role, a, f, on)
  \/ \E f \in Saved : DeleteFlow(role, f)
  \/ \E f \in Saved \cup DOMAIN Templates, extra \in RunOverrides, key \in Keys \cup {"none"} :
       PostRun(role, f, extra, key)

Job(j) ==
  \/ Insert(j) \/ ReadBack(j) \/ DeleteRows(j) \/ Pop(j)
  \/ Read(j) \/ BuildToFlag(j) \/ BuildRest(j) \/ Flag(j)
  \/ Lookup(j) \/ Plan(j) \/ Create(j)
  \/ StoreFails(j)

Next ==
  \/ Plugin
  \/ \E role \in Roles : Request(role)
  \/ \E j \in Jobs : Job(j)
  \/ \E n \in 1 .. RunBound : Retain(n)
  \/ Restart

Spec == Init /\ [][Next]_vars

-----------------------------------------------------------------------------
(* Properties *)

\* Whatever was stored, asked for on top, upgraded or unloaded in between, the
\* plan of a run is sound for the template it was made from: the required and
\* the locked nodes run, the locked ones as they were written, and nothing is
\* inserted where the template has no open slot for it (save_flow, start).
PlanIsSound == \A i \in DOMAIN runs : Sound(runs[i].plan.base, runs[i].plan.nodes, runs[i].plan.off)

\* With no save, delete or refresh under way, what runs are started from is the
\* latest version of every flow, with the flag the table holds, and no deleted
\* flow: only a refresh that overlapped another write, a write whose refresh
\* failed or a restart can leave the cache behind (save_flow, delete_flow,
\* _revalidate_user_flows).
Writing == {"insert", "saved", "delete", "pop", "read", "build", "flag"}
CacheFollows ==
  (~behind /\ \A j \in Jobs : jobs[j].pc \notin Writing)
    => [f \in DOMAIN cache |-> cache[f].row] = Latest

\* One key stands for one run: no two kept rows have it, and what memory answers
\* for it is the run the table has (start, record_run_created).
KeyOnce ==
  \A key \in Keys :
    /\ Cardinality(WithKey(key)) <= 1
    /\ key \in DOMAIN memory => WithKey(key) \subseteq {memory[key]}

=============================================================================
