------------------------------- MODULE FlowPlan -------------------------------
(***************************************************************************)
(* What a run of a flow is going to do, computed from the flow, from the   *)
(* overrides laid over it and from the steps that plugins have registered: *)
(* common/plugins/flow/preflight.py, resolver.py and _merge_overrides of   *)
(* service.py.                                                             *)
(*                                                                         *)
(*   node       [id, stage, required, locked, all, pin, label, param]      *)
(*   flow       [nodes, slots]; a slot is [id, after, stages]              *)
(*   overrides  [disable, insert, params, pin, labels]: a set of node ids, *)
(*              a sequence of [after, node], three functions on node ids   *)
(*   step       [stage, step, provider, priority, label, accepts]          *)
(*                                                                         *)
(* A label map is one label ("any" asks for none), a params map is one     *)
(* value ("none" is no params), the schema of a step the set of values it  *)
(* accepts.                                                                *)
(***************************************************************************)
EXTENDS Integers, Sequences, FiniteSets, FiniteSetsExt, SequencesExt, TLC

Ids(nodes) == {nodes[i].id : i \in DOMAIN nodes}
NodeOf(nodes, id) == nodes[CHOOSE i \in DOMAIN nodes : nodes[i].id = id]
NoRepeats(nodes) == \A i, k \in DOMAIN nodes : nodes[i].id = nodes[k].id => i = k

\* What s has at the places in keep, in order.
Where(s, keep) == FlattenSeq([i \in DOMAIN s |-> IF i \in keep THEN <<s[i]>> ELSE << >>])

EmptyFlow == [nodes |-> << >>, slots |-> {}]
NoOverrides == [disable |-> {}, insert |-> << >>, params |-> << >>, pin |-> << >>,
                labels |-> << >>]

\* validate_flow_def, which define() calls, and parse_flow_def, which save_flow
\* calls: only the second looks at the anchors of the slots.
ValidTemplate(flow) == NoRepeats(flow.nodes)
ValidDef(flow) ==
  /\ ValidTemplate(flow)
  /\ \A s \in flow.slots : s.after \in Ids(flow.nodes) /\ s.stages # {}

\* What parsing makes of a node and of a flow, and the overrides it makes of what it is
\* given.  An insert that cannot be parsed is left out: apply_overrides reports it.
IsNode(n) ==
  n \in [id : {n.id}, stage : {n.stage}, required : BOOLEAN, locked : BOOLEAN, all : BOOLEAN,
         pin : {n.pin}, label : {n.label}, param : {n.param}]
IsFlow(flow) == flow.nodes \in Seq(Range(flow.nodes)) /\ \A n \in Range(flow.nodes) : IsNode(n)
IsOverrides(o) ==
  /\ "insert" \in DOMAIN o
  /\ o.insert \in Seq(Range(o.insert)) /\ \A spec \in Range(o.insert) : IsNode(spec.node)

-----------------------------------------------------------------------------
(* Overrides *)

Error(node, code) == [node |-> node, code |-> code, level |-> "error"]
Errors(problems) == {p \in problems : p.level = "error"}

HasSlot(flow, spec) ==
  /\ spec.after \in Ids(flow.nodes)
  /\ \E s \in flow.slots : s.after = spec.after /\ spec.node.stage \in s.stages

\* The places of the inserts that are taken: those with a slot and an id that neither
\* the template nor one taken before has, which is any before it with a slot.
Taken(flow, specs) ==
  {i \in DOMAIN specs :
     /\ HasSlot(flow, specs[i])
     /\ specs[i].node.id \notin Ids(flow.nodes)
     /\ \A k \in 1 .. i - 1 : HasSlot(flow, specs[k]) => specs[k].node.id # specs[i].node.id}

\* Whether a node may not be closed; the mutant looks at one of the two marks.
FixedIfLocked(node) == node.locked
Fixed(node) == node.locked \/ node.required

\* Params, pin and labels laid over a node.
MergeNode(node, o) ==
  [node EXCEPT !.param = IF node.id \in DOMAIN o.params THEN o.params[node.id] ELSE @,
               !.pin = IF node.id \in DOMAIN o.pin THEN o.pin[node.id] ELSE @,
               !.label = IF node.id \in DOMAIN o.labels THEN o.labels[node.id] ELSE @]

\* A node of the template and the inserts behind it.
Group(flow, specs, n) ==
  <<n>> \o Where([i \in DOMAIN specs |-> specs[i].node],
                 {i \in Taken(flow, specs) : specs[i].after = n.id})

\* Template and overrides: the nodes, those that are closed, the problems.
ApplyOverrides(flow, o) ==
  LET known == Ids(flow.nodes)
      taken == Taken(flow, o.insert)
      new == {o.insert[i].node.id : i \in taken}
      off == {id \in o.disable : \/ id \in known /\ ~Fixed(NodeOf(flow.nodes, id))
                                 \/ id \in new \ known}
      edited == DOMAIN o.params \cup DOMAIN o.pin \cup DOMAIN o.labels
      Locked(id) == id \in known /\ NodeOf(flow.nodes, id).locked
      all == FlattenSeq([i \in DOMAIN flow.nodes |-> Group(flow, o.insert, flow.nodes[i])])
  IN  [nodes |-> [i \in DOMAIN all |-> MergeNode(all[i], o)],
       off |-> off,
       problems |->
         {Error(o.insert[i].node.id, IF HasSlot(flow, o.insert[i]) THEN "duplicate_node" ELSE "unknown_slot") :
            i \in DOMAIN o.insert \ taken}
           \cup {Error(id, "unknown_node") : id \in (o.disable \cup edited) \ (known \cup new)}
           \cup {Error(id, "locked") : id \in (o.disable \cap known) \ off}
           \cup {Error(id, "locked") : id \in {e \in edited : Locked(e)}}
           \cup {Error("none", "unknown_slot") : i \in {k \in taken : o.insert[k].after \in off}}]

\* Of the inserts of one node id the last counts, in the place of the first.
LastSpec(specs, id) == specs[Max({i \in DOMAIN specs : specs[i].node.id = id})]
MergedInserts(specs) ==
  Where([i \in DOMAIN specs |-> LastSpec(specs, specs[i].node.id)],
        {i \in DOMAIN specs : \A k \in 1 .. i - 1 : specs[k].node.id # specs[i].node.id})

\* The overrides of one run on top of the stored ones.
MergeOverrides(base, extra) ==
  CASE base = NoOverrides -> extra
    [] base # NoOverrides /\ extra = NoOverrides -> base
    [] OTHER -> [disable |-> base.disable \cup extra.disable,
                 insert |-> MergedInserts(base.insert \o extra.insert),
                 params |-> extra.params @@ base.params,
                 pin |-> extra.pin @@ base.pin,
                 labels |-> extra.labels @@ base.labels]

-----------------------------------------------------------------------------
(* Providers *)

Matches(s, node) ==
  s.stage = node.stage /\ node.label \in {"any", s.label} /\ node.pin \in {"none", s.step}

\* The steps that will run a node, of those that are alive.  A pin leaves one
\* at most: a step is known by its stage and its id.
Resolve(steps, node) ==
  LET found == {s \in steps : Matches(s, node)}
      top == {s \in found : \A t \in found : t.priority <= s.priority}
  IN  CASE found = {} -> [picked |-> {}, code |-> "no_provider"]
        [] found # {} /\ node.all -> [picked |-> found, code |-> "none"]
        [] found # {} /\ ~node.all /\ Cardinality(top) > 1 -> [picked |-> {}, code |-> "ambiguous"]
        [] OTHER -> [picked |-> top, code |-> "none"]

NodeProblems(steps, node) ==
  LET r == Resolve(steps, node)
  IN  CASE r.code = "no_provider" ->
             {[node |-> node.id, code |-> r.code, level |-> IF node.required THEN "error" ELSE "warn"]}
        [] r.code = "ambiguous" -> {Error(node.id, r.code)}
        [] OTHER -> {Error(node.id, "bad_params") :
                       s \in {t \in r.picked : node.param # "none" /\ node.param \notin t.accepts}}

Preflight(flow, o, steps) ==
  LET plan == ApplyOverrides(flow, o)
  IN  plan.problems
        \cup (IF NoRepeats(plan.nodes) THEN {} ELSE {Error("none", "duplicate_node")})
        \cup UNION {NodeProblems(steps, plan.nodes[i]) :
                      i \in {k \in DOMAIN plan.nodes : plan.nodes[k].id \notin plan.off}}

\* What saving a flow and checking it again look for: missing providers do not
\* count there, params that a present provider refuses do.
Semantic(flow, o, steps) ==
  Errors(ApplyOverrides(flow, o).problems)
    \cup {p \in Preflight(flow, o, steps) : p.code = "bad_params"}

-----------------------------------------------------------------------------
(* What the template promises of every plan made from it, whatever overrides *)
(* were laid over it: its nodes are all there and in order, the locked ones  *)
(* as they were, the locked and the required ones open; whatever else is     *)
(* there stands behind an open node with a slot for its stage.               *)

Sound(flow, nodes, off) ==
  LET Stands(i, k) == nodes[k].id = flow.nodes[i].id
      Old(k) == nodes[k].id \in Ids(flow.nodes)
  IN  /\ NoRepeats(nodes)
      /\ \A i \in DOMAIN flow.nodes :
           /\ \E k \in DOMAIN nodes :
                /\ Stands(i, k) /\ nodes[k].stage = flow.nodes[i].stage
                /\ flow.nodes[i].locked => nodes[k] = flow.nodes[i]
                /\ \A j \in 1 .. i - 1 : \E l \in 1 .. k - 1 : Stands(j, l)
           /\ flow.nodes[i].locked \/ flow.nodes[i].required => flow.nodes[i].id \notin off
      /\ \A i \in DOMAIN nodes :
           ~Old(i) => \E a \in 1 .. i - 1 :
             /\ Old(a) /\ nodes[a].id \notin off
             /\ \A k \in a + 1 .. i : ~Old(k)
             /\ \E s \in flow.slots : s.after = nodes[a].id /\ nodes[i].stage \in s.stages

=============================================================================
