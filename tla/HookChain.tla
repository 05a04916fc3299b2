------------------------------ MODULE HookChain ------------------------------
(***************************************************************************)
(* One call that goes through a chain of interceptors to its handler, as   *)
(* common/hook_chain.py does it: what is to happen when a hook calls       *)
(* next(), returns, or raises, which interceptor is skipped and which      *)
(* error reaches the caller.                                               *)
(*                                                                         *)
(*   hook     [id, phase, order, owner, onerror, kinds]                    *)
(*   outcome  [kind, of]: a reply or an error, of the hook at place of,    *)
(*            of the handler (0) or of the conversion of its arguments (-1)*)
(*   call     [hooks, frames, at, out, entered, term, meddled]: at is the  *)
(*            place in control, behind the last hook for the handler, 0    *)
(*            when the call is over; the last three are history            *)
(***************************************************************************)
EXTENDS Integers, Sequences, FiniteSets, FiniteSetsExt, SequencesExt

\* The elements of a finite set, each behind those that the pairs put before it.
InOrder(S, before) ==
  [n \in 1 .. Cardinality(S) |-> CHOOSE x \in S : Cardinality({y \in S : <<y, x>> \in before}) = n - 1]

NoOutcome == [kind |-> "none", of |-> 0]
Reply(of) == [kind |-> "reply", of |-> of]
Raised(of) == [kind |-> "error", of |-> of]
Twice(of) == [kind |-> "twice", of |-> of]    \* NextCalledTwice

\* The order of the chain: phase, order, owner, registration (names left out).
Before(rank, h, k) ==
  LET Key(x) == <<rank[x.phase], x.order, x.owner, x.id>>
  IN  \E n \in 1 .. 4 : Key(h)[n] < Key(k)[n] /\ \A m \in 1 .. n - 1 : Key(h)[m] = Key(k)[m]
Chain(rank, hooks) == InOrder(hooks, {p \in hooks \X hooks : Before(rank, p[1], p[2])})

Frame == [called |-> FALSE, skipped |-> FALSE, result |-> NoOutcome, error |-> NoOutcome]

\* call(i): the hook at place i, or the handler, gets control.
Enter(call, i) ==
  [call EXCEPT !.at = i, !.entered = IF i > Len(call.hooks) THEN @ + 1 ELSE @]
Begin(hooks) ==
  Enter([hooks |-> hooks, frames |-> [i \in DOMAIN hooks |-> Frame], at |-> 1, out |-> NoOutcome,
         entered |-> 0, term |-> NoOutcome, meddled |-> FALSE], 1)

\* call(i) is over: next() of the nearest hook above that called it returns or
\* raises; a hook that was skipped passes on what it gets.
Back(call, i, out) ==
  LET above == {k \in 1 .. i - 1 : ~call.frames[k].skipped}
      k == Max(above)
  IN  IF above = {} THEN [call EXCEPT !.at = 0, !.out = out]
      ELSE [call EXCEPT !.at = k,
                        !.frames[k] = IF out.kind = "reply" THEN [@ EXCEPT !.result = out]
                                      ELSE [@ EXCEPT !.error = out]]

\* Mutant of Fail: a hook that fails behind its next() is skipped like any other.
FailSkips(call, i, e) ==
  IF e.kind = "twice" \/ e = call.frames[i].error \/ call.hooks[i].onerror = "fail"
  THEN Back(call, i, e)
  ELSE Enter([call EXCEPT !.frames[i].skipped = TRUE], i + 1)

\* The hook at place i lets e out.  What came up through it, a second next() and
\* the errors of a hook that may fail the call go on; of any other hook the
\* result it has, or, if it had not called next(), the rest of the chain counts.
Fail(call, i, e) ==
  LET frame == call.frames[i]
  IN  IF e.kind = "twice" \/ e = frame.error \/ call.hooks[i].onerror = "fail" THEN Back(call, i, e)
      ELSE IF frame.result # NoOutcome THEN Back(call, i, frame.result)
      ELSE IF frame.called THEN Back(call, i, e)
      ELSE Enter([call EXCEPT !.frames[i].skipped = TRUE], i + 1)

-----------------------------------------------------------------------------
(* What a hook may do when it has control *)

InHook(call) == call.at \in DOMAIN call.hooks
Top(call) == call.frames[call.at]
Meddled(call) == [call EXCEPT !.meddled = TRUE]

CallsNext(call) == Enter([call EXCEPT !.frames[call.at].called = TRUE], call.at + 1)
NextAgain(call) == Fail(Meddled(call), call.at, Twice(call.at))
PassesOn(call) == Back(call, call.at, Top(call).result)
Answers(call) == Back(Meddled(call), call.at, Reply(call.at))
LetsThrough(call) == Fail(call, call.at, Top(call).error)
Breaks(call) ==
  Fail(IF call.hooks[call.at].onerror = "fail" THEN Meddled(call) ELSE call, call.at, Raised(call.at))

\* The moves that are open to the hook in control.
HookMoves(call) ==
  {Answers(call), Breaks(call), IF Top(call).called THEN NextAgain(call) ELSE CallsNext(call)}
    \cup (IF Top(call).result # NoOutcome THEN {PassesOn(call)} ELSE {})
    \cup (IF Top(call).error # NoOutcome THEN {LetsThrough(call)} ELSE {})

\* The handler behind the chain: a path argument that cannot be converted is an
\* error before the handler runs.
InHandler(call) == call.at = Len(call.hooks) + 1
HandlerMoves(call) ==
  {Back([call EXCEPT !.term = out], call.at, out) : out \in {Reply(0), Raised(0), Raised(-1)}}

\* A cancelled call ends there: nobody may swallow it.
Cancelled(call) == [call EXCEPT !.at = 0, !.out = [kind |-> "cancelled", of |-> 0]]

=============================================================================
