------------------------------- MODULE WebApi -------------------------------
(***************************************************************************)
(* The web server of a node, common/plugins/webapi: the table of routes    *)
(* that plugins fill, the routes the running application serves, the chain *)
(* of verifiers in front and the chain of interceptors (HookChain) around  *)
(* every handler.                                                          *)
(*                                                                         *)
(*   server      down, starting, up, stopping                              *)
(*   routes      RouteRegistry.routes, statics: the registered records     *)
(*   mounts      the routes of the attached application, in its order      *)
(*   effects     plugin -> what its fiber undoes when it is unloaded       *)
(*   displaced   history: what a later registration, a removal by path, a  *)
(*               new verifier or the end of the service has taken out      *)
(*   unserved    history: static records whose directory was missing when    *)
(*               they should have been mounted                             *)
(*   calls       the requests inside an endpoint                           *)
(*                                                                         *)
(* A record is [id, path, methods, kind, owner]; ids grow.                 *)
(***************************************************************************)
EXTENDS HookChain, TLC

CONSTANTS
  Plugins,      \* names of plugins, as numbers: owners are compared
  Offers,       \* [path, methods, kind]: routes plugins may register
  HookKinds,    \* [phase, order, onerror, kinds]: hooks plugins may register
  Verifiers,    \* name -> caller -> "identity", "deny" or "none"
  Callers,
  Protected,    \* the paths under /api
  Requests,     \* requests in flight
  OpBound       \* loads, registrations, removals, starts, stops and arrivals, in all

ASSUME OwnersAssumption == Plugins \subseteq Nat

VARIABLES server, routes, mounts, hooks, verifiers, loaded, effects, displaced, unserved, calls, seq
vars == <<server, routes, mounts, hooks, verifiers, loaded, effects, displaced, unserved, calls, seq>>

\* WEBAPI_PHASES
Rank == "observe" :> 1 @@ "guard" :> 2 @@ "authorize" :> 3 @@ "inner" :> 4

NoCall == [route |-> 0, reply |-> "none", call |-> [Begin(<< >>) EXCEPT !.at = 0]]
Default == [id |-> 0, order |-> 0, name |-> "shared"]

Init ==
  /\ server = "down"
  /\ routes = {} /\ mounts = << >>
  /\ hooks = {} /\ verifiers = {Default}
  /\ loaded = {}
  /\ effects = [p \in Plugins |-> {}]
  /\ displaced = {} /\ unserved = {}
  /\ calls = [q \in Requests |-> NoCall]
  /\ seq = 0

Attached == server # "down"
Ids(records) == {r.id : r \in records}
Static(r) == r.kind = "static"
Op == seq < OpBound /\ seq' = seq + 1

-----------------------------------------------------------------------------
(* Registration *)

Load(p) ==
  /\ p \notin loaded /\ effects[p] = {}
  /\ Op
  /\ loaded' = loaded \cup {p}
  /\ UNCHANGED <<server, routes, mounts, hooks, verifiers, effects, displaced, unserved, calls>>

\* Of records of one path those with a method in common make way for the new
\* one; a static directory, for any other at its path.
Overlaps(r, offer) ==
  /\ r.path = offer.path
  /\ Static(r) = Static(offer)
  /\ Static(offer) \/ r.methods \cap offer.methods # {}

Unmounted(records) ==
  LET kept == {i \in DOMAIN mounts : mounts[i] \notin records}
      order == InOrder(kept, {p \in kept \X kept : p[1] < p[2]})
  IN  [n \in DOMAIN order |-> mounts[order[n]]]

\* route() and static(): add the record, mount it if there is an application.
Register(p, offer) ==
  /\ p \in loaded
  /\ Op
  /\ LET record == [id |-> seq', path |-> offer.path, methods |-> offer.methods,
                    kind |-> offer.kind, owner |-> p]
         old == {r \in routes : Overlaps(r, offer)}
     IN  /\ routes' = (routes \ old) \cup {record}
         /\ mounts' = IF Attached THEN Append(Unmounted(old), record) ELSE mounts
         /\ effects' = [effects EXCEPT ![p] = @ \cup {record.id}]
         /\ displaced' = displaced \cup Ids(old)
  /\ UNCHANGED <<server, hooks, verifiers, loaded, unserved, calls>>

\* The directory of a static record is missing: the record is in the table and
\* the one before it unmounted when _mount_static raises, and no effect follows.
RegisterFails(p, offer) ==
  /\ p \in loaded /\ Static(offer) /\ Attached
  /\ Op
  /\ LET record == [id |-> seq', path |-> offer.path, methods |-> offer.methods,
                    kind |-> offer.kind, owner |-> p]
         old == {r \in routes : Overlaps(r, offer)}
     IN  /\ routes' = (routes \ old) \cup {record}
         /\ mounts' = Unmounted(old)
         /\ displaced' = displaced \cup Ids(old)
         /\ unserved' = unserved \cup {record.id}
  /\ UNCHANGED <<server, hooks, verifiers, loaded, effects, calls>>

\* remove(path): every record at the path, static or not, whoever owns it.
RemovePath(path) ==
  /\ \E r \in routes : r.path = path
  /\ Op
  /\ LET gone == {r \in routes : r.path = path}
     IN  /\ routes' = routes \ gone
         /\ mounts' = Unmounted(gone)
         /\ displaced' = displaced \cup Ids(gone)
  /\ UNCHANGED <<server, hooks, verifiers, loaded, effects, unserved, calls>>

Use(p, kind) ==
  /\ p \in loaded
  /\ Op
  /\ hooks' = hooks \cup {[id |-> seq', owner |-> p, phase |-> kind.phase, order |-> kind.order,
                           onerror |-> kind.onerror, kinds |-> kind.kinds]}
  /\ effects' = [effects EXCEPT ![p] = @ \cup {seq'}]
  /\ UNCHANGED <<server, routes, mounts, verifiers, loaded, displaced, unserved, calls>>

AddVerifier(p, name, order) ==
  /\ p \in loaded
  /\ Op
  /\ verifiers' = verifiers \cup {[id |-> seq', order |-> order, name |-> name]}
  /\ effects' = [effects EXCEPT ![p] = @ \cup {seq'}]
  /\ UNCHANGED <<server, routes, mounts, hooks, loaded, displaced, unserved, calls>>

\* auth.verifier = X: the whole chain makes way for one verifier.
SetVerifier(p, name) ==
  /\ p \in loaded
  /\ Op
  /\ verifiers' = {[id |-> seq', order |-> 0, name |-> name]}
  /\ displaced' = displaced \cup Ids(verifiers)
  /\ UNCHANGED <<server, routes, mounts, hooks, loaded, effects, unserved, calls>>

\* The plugin is being unloaded: its fiber undoes its effects, one after another.
Unload(p) ==
  /\ p \in loaded
  /\ loaded' = loaded \ {p}
  /\ UNCHANGED <<server, routes, mounts, hooks, verifiers, effects, displaced, unserved, calls, seq>>

\* Mutant of Mine: the cleanup of a record takes all records at its path along.
SamePath(id) == {r \in routes : \E s \in routes : s.id = id /\ s.path = r.path}
Mine(id) == {r \in routes : r.id = id}

\* _remove_record, or the dispose of a hook or a verifier.
Undo(p, id) ==
  /\ p \notin loaded
  /\ id \in effects[p]
  /\ routes' = routes \ Mine(id)
  /\ mounts' = Unmounted(Mine(id))
  /\ hooks' = {h \in hooks : h.id # id}
  /\ verifiers' = {v \in verifiers : v.id # id}
  /\ effects' = [effects EXCEPT ![p] = @ \ {id}]
  /\ UNCHANGED <<server, loaded, displaced, unserved, calls, seq>>

-----------------------------------------------------------------------------
(* The server *)

Earlier(r, s) == IF Static(r) = Static(s) THEN r.id < s.id ELSE Static(s)

\* start(): what has been registered is mounted, static directories last, then
\* the server is started.
Start ==
  /\ server = "down"
  /\ Op
  /\ server' = "starting"
  /\ mounts' = InOrder(routes, {p \in routes \X routes : Earlier(p[1], p[2])})
  /\ UNCHANGED <<routes, hooks, verifiers, loaded, effects, displaced, unserved, calls>>

Started ==
  /\ server = "starting"
  /\ server' = "up"
  /\ UNCHANGED <<routes, mounts, hooks, verifiers, loaded, effects, displaced, unserved, calls, seq>>

\* stop(): no more requests; what is in flight may end or is cancelled.
Stop ==
  /\ server \in {"starting", "up"}
  /\ Op
  /\ server' = "stopping"
  /\ UNCHANGED <<routes, mounts, hooks, verifiers, loaded, effects, displaced, unserved, calls>>

\* The service ends with its tables.  The next start is that of a new service,
\* with chains of its own.
Disposed ==
  /\ server' = "down"
  /\ routes' = {} /\ mounts' = << >>
  /\ hooks' = {} /\ verifiers' = {Default}
  /\ displaced' = displaced \cup Ids(routes) \cup Ids(hooks) \cup Ids(verifiers)
  /\ unserved' = {}
  /\ UNCHANGED <<loaded, effects, calls>>

\* attach_app meets a static record whose directory is missing: the plugin of
\* the service fails, and the service with it.
StartFails ==
  /\ server = "down"
  /\ \E r \in routes : Static(r)
  /\ Op
  /\ Disposed

\* The serve task is over: the application is detached and the table cleared.
Stopped ==
  /\ server = "stopping"
  /\ \A q \in Requests : calls[q].call.at = 0
  /\ Disposed
  /\ UNCHANGED seq

-----------------------------------------------------------------------------
(* Requests *)

\* verify(): the first verifier with a conclusion decides.
Verified(caller) ==
  LET Says(v) == Verifiers[v.name][caller]
      decided == {v \in verifiers : Says(v) # "none"}
      first == CHOOSE v \in decided : \A w \in decided :
                 v.order < w.order \/ (v.order = w.order /\ v.id <= w.id)
  IN  decided # {} /\ Says(first) = "identity"

\* The router: the first route that serves path and method.
Serving(path, method) ==
  {i \in DOMAIN mounts : mounts[i].path = path /\ (Static(mounts[i]) \/ method \in mounts[i].methods)}

\* gated: a hook for other kinds of routes hands the call through untouched.
HooksFor(record) == Chain(Rank, {h \in hooks : record.kind \in h.kinds})

\* 401, or the answer of the router itself, or a call through the chain as it
\* is at this moment.
Arrive(q, caller, path, method) ==
  /\ server = "up"
  /\ calls[q].call.at = 0
  /\ Op
  /\ LET serving == Serving(path, method)
         record == mounts[Min(serving)]
     IN  calls' = [calls EXCEPT ![q] =
           CASE path \in Protected /\ ~Verified(caller) -> [NoCall EXCEPT !.reply = "401"]
             [] OTHER ->
                  CASE serving = {} /\ \E i \in DOMAIN mounts : mounts[i].path = path ->
                         [NoCall EXCEPT !.reply = "405"]
                    [] serving = {} /\ ~ \E i \in DOMAIN mounts : mounts[i].path = path ->
                         [NoCall EXCEPT !.reply = "404"]
                    [] serving # {} /\ Static(record) -> [NoCall EXCEPT !.reply = "file"]
                    [] OTHER -> [route |-> record.id, reply |-> "pending", call |-> Begin(HooksFor(record))]]
  /\ UNCHANGED <<server, routes, mounts, hooks, verifiers, loaded, effects, displaced, unserved>>

Goes(q, call) ==
  /\ calls' = [calls EXCEPT ![q].call = call,
                            ![q].reply = IF call.at = 0 THEN call.out.kind ELSE "pending"]
  /\ UNCHANGED <<server, routes, mounts, hooks, verifiers, loaded, effects, displaced, unserved, seq>>

HookStep(q) ==
  /\ InHook(calls[q].call)
  /\ \E call \in HookMoves(calls[q].call) : Goes(q, call)

HandlerStep(q) ==
  /\ calls[q].call.at > 0 /\ InHandler(calls[q].call)
  /\ \E call \in HandlerMoves(calls[q].call) : Goes(q, call)

\* The server could not wait any longer.
Cancel(q) ==
  /\ server = "stopping"
  /\ calls[q].call.at > 0
  /\ Goes(q, Cancelled(calls[q].call))

Next ==
  \/ \E p \in Plugins : Load(p) \/ Unload(p)
  \/ \E p \in Plugins, offer \in Offers : Register(p, offer) \/ RegisterFails(p, offer)
  \/ \E p \in Plugins, kind \in HookKinds : Use(p, kind)
  \/ \E p \in Plugins, name \in DOMAIN Verifiers : AddVerifier(p, name, 100) \/ SetVerifier(p, name)
  \/ \E p \in Plugins : \E id \in effects[p] : Undo(p, id)
  \/ \E offer \in Offers : RemovePath(offer.path)
  \/ Start \/ StartFails \/ Started \/ Stop \/ Stopped
  \/ \E q \in Requests, caller \in Callers, offer \in Offers, method \in {"GET", "PUT"} :
       Arrive(q, caller, offer.path, method)
  \/ \E q \in Requests : HookStep(q) \/ HandlerStep(q) \/ Cancel(q)

Spec == Init /\ [][Next]_vars

-----------------------------------------------------------------------------
(* Properties *)

\* The records the application is to have.
Served == {r \in routes : r.id \notin unserved}

\* While an application is attached it serves what is registered, each record
\* once and one record for a path and method, but for a directory that was
\* missing when it was registered; and what a loaded plugin has
\* registered stays until something is registered over it, its path is removed
\* or the service ends: what a plugin leaves behind when it is unloaded never
\* takes the route of another one with it (RouteRegistry).
ServesRegistered ==
  /\ Attached => Range(mounts) = Served /\ Len(mounts) = Cardinality(Served)
  /\ \A r, s \in routes : r # s => ~Overlaps(r, s)
  /\ \A p \in loaded : effects[p] \ displaced \subseteq Ids(routes) \cup Ids(hooks) \cup Ids(verifiers)

\* Interceptors that only look on, fail or are skipped cost a caller nothing:
\* its call reaches the handler once, no more, and the reply of the handler is
\* the reply of the call, an error of the handler an error (HookChain.run).
FailOpen ==
  \A q \in Requests :
    LET call == calls[q].call
    IN  /\ call.entered <= 1
        /\ (calls[q].reply \notin {"none", "pending", "401", "404", "405", "file"}
              /\ call.at = 0 /\ ~call.meddled /\ call.out.kind # "cancelled")
             => CASE call.term.kind = "reply" -> call.out = call.term
                  [] call.term.kind = "error" -> call.out.kind = "error"
                  [] OTHER -> FALSE

=============================================================================
