---------------------------- MODULE MCFlowCatalog ----------------------------
(* A small instance of FlowCatalog: a template "t" of which there are two       *)
(* versions, a user flow "f" that extends it and a user flow that is also       *)
(* called "t".                                                                  *)
EXTENDS FlowCatalog

Node(id, stage, required, locked) ==
  [id |-> id, stage |-> stage, required |-> required, locked |-> locked, all |-> FALSE,
   pin |-> "none", label |-> "any", param |-> "none"]
first == Node("a", "run", TRUE, TRUE)
second == Node("b", "run", TRUE, FALSE)
third == Node("c", "run", FALSE, FALSE)
note == Node("x", "note", FALSE, FALSE)
Behind(id, n) == [after |-> id, node |-> n]
Slot(id) == [id |-> "s", after |-> id, stages |-> {"note"}]

\* The second version of the template has lost node c and moved the slot.
Old == [nodes |-> <<first, second, third>>, slots |-> {Slot("c")}]
New == [nodes |-> <<first, second>>, slots |-> {Slot("b")}]
MCTemplates == "t" :> {Old, New}

\* A step, the one its provider may put in its place, and a rival.
Step(id, provider, accepts) ==
  [stage |-> "run", step |-> id, provider |-> provider, priority |-> 0, label |-> "l",
   accepts |-> accepts]
MCSteps == {Step("go", "p", {"v"}), Step("go", "p", {}), Step("ride", "q", {"v"})}
MCInstalled == [templates |-> "t" :> Old, steps |-> {Step("go", "p", {"v"})}]
MCAttachments == {[flow |-> "t", slot |-> "s", node |-> note]}

Extends(over) == [extends |-> "t", over |-> over, def |-> EmptyFlow]
CloseC == [NoOverrides EXCEPT !.disable = {"c"}]
CloseB == [NoOverrides EXCEPT !.disable = {"b"}]
InsertX == [NoOverrides EXCEPT !.insert = <<Behind("c", note)>>]
ParamB == [NoOverrides EXCEPT !.params = "b" :> "v"]
MCBodies == "f" :> {Extends(CloseC), Extends(ParamB)}
            @@ "t" :> {[extends |-> "none", over |-> NoOverrides, def |-> [nodes |-> <<second>>, slots |-> {}]]}
MCFlowIds == <<"f", "t">>
MCRunOverrides == {NoOverrides, CloseB, InsertX}
=============================================================================
