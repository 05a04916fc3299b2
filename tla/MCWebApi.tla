------------------------------ MODULE MCWebApi ------------------------------
(* A small instance of WebApi: two plugins that want the same paths, hooks of   *)
(* both failure modes, a plugin that brings a verifier of its own.              *)
EXTENDS WebApi

Offer(path, methods, kind) == [path |-> path, methods |-> methods, kind |-> kind]
MCOffers ==
  {Offer("/api/x", {"GET", "PUT"}, "api"), Offer("/api/x", {"GET"}, "api"),
   Offer("/api/x", {"PUT"}, "api"), Offer("/page", {"GET"}, "static")}
Hook(phase, onerror) == [phase |-> phase, order |-> 100, onerror |-> onerror, kinds |-> {"api"}]
MCHookKinds == {Hook("observe", "skip"), Hook("inner", "skip"), Hook("guard", "fail")}
MCVerifiers ==
  "shared" :> ("member" :> "identity" @@ "stranger" :> "none")
    @@ "strict" :> ("member" :> "deny" @@ "stranger" :> "deny")
=============================================================================
