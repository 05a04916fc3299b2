---------------------------- MODULE WebApiProofs ----------------------------
(***************************************************************************)
(* Proofs about the web server (WebApi) and the chain of interceptors      *)
(* (HookChain): a call is on its way to its handler, on its way back with  *)
(* what the handler said, or over, whatever the hooks do; and the attached *)
(* application lists the records of the table.                             *)
(***************************************************************************)
EXTENDS WebApi, FiniteSetTheorems, FunctionTheorems, SequenceTheorems, WellFoundedInduction, TLAPS

-----------------------------------------------------------------------------
(* A call on its way *)

Fields == {"hooks", "frames", "at", "out", "entered", "term", "meddled"}

\* A call is a record with a frame for each of its hooks.
CallOK(call) ==
  /\ Fields \subseteq DOMAIN call
  /\ Len(call.hooks) \in Nat /\ DOMAIN call.hooks = 1 .. Len(call.hooks)
  /\ DOMAIN call.frames = 1 .. Len(call.hooks)
  /\ \A k \in 1 .. Len(call.hooks) : {"called", "skipped", "result", "error"} \subseteq DOMAIN call.frames[k]

\* A frame of a hook that has not had control, and of one whose next() is open.
Fresh(frame) == ~frame.called /\ ~frame.skipped /\ frame.result = NoOutcome /\ frame.error = NoOutcome
Waits(frame) == ~frame.skipped => frame.called /\ frame.result = NoOutcome /\ frame.error = NoOutcome

\* What comes back is the reply of the handler, or some error if the handler
\* raised one, as long as no interceptor meddled.
Told(call, out) ==
  /\ out # NoOutcome
  /\ ~call.meddled => \/ call.term.kind = "reply" /\ out = call.term
                      \/ call.term.kind = "error" /\ out.kind = "error"

\* On its way to the handler.
Descends(call) ==
  /\ call.at \in 1 .. Len(call.hooks) + 1
  /\ ~call.meddled
  /\ call.entered = IF call.at = Len(call.hooks) + 1 THEN 1 ELSE 0
  /\ \A k \in 1 .. Len(call.hooks) : IF k < call.at THEN Waits(call.frames[k]) ELSE Fresh(call.frames[k])

\* On its way back: the hook in control has a result or an error.
Rises(call) ==
  /\ call.at \in 1 .. Len(call.hooks)
  /\ call.entered \in {0, 1}
  /\ \A k \in 1 .. call.at - 1 : Waits(call.frames[k])
  /\ call.frames[call.at].called /\ ~call.frames[call.at].skipped
  /\ \/ /\ call.frames[call.at].error = NoOutcome
        /\ Told(call, call.frames[call.at].result)
     \/ /\ call.frames[call.at].result = NoOutcome
        /\ Told(call, call.frames[call.at].error) /\ call.frames[call.at].error.kind # "reply"

\* Over.
Ended(call) ==
  /\ call.at = 0 /\ call.entered \in {0, 1}
  /\ call.out.kind # "cancelled" => Told(call, call.out)

\* The invariant of one call.
OnItsWay(call) == CallOK(call) /\ (Descends(call) \/ Rises(call) \/ Ended(call))

-----------------------------------------------------------------------------

\* A set of numbers that is not empty and is bounded has a maximum.
LEMMA MaxIn ==
  ASSUME NEW n \in Nat, NEW T \in SUBSET (0 .. n), T # {}
  PROVE  Max(T) \in T /\ \A y \in T : y <= Max(T)
<1> DEFINE U == {n - t : t \in T}
           R == {ss \in Nat \X Nat : ss[1] < ss[2]}
<1>1. IsWellFoundedOn(R, Nat)
  BY NatLessThanWellFounded, Zenon DEF OpToRel
<1>2. \A a, b \in Nat : a < b => <<a, b>> \in R
  OBVIOUS
<1>3. \A y \in T : n - y \in U
  OBVIOUS
<1>4. U \in SUBSET Nat /\ U # {}
  <2>1. \A t \in T : n - t \in Nat
    OBVIOUS
  <2>2. PICK t \in T : TRUE
    OBVIOUS
  <2> QED BY <1>3, <2>1, <2>2
<1>5. \A x \in U : \E y \in T : x = n - y
  OBVIOUS
<1> HIDE DEF R, U
<1>6. PICK x \in U : \A y \in U : <<y, x>> \notin R
  BY <1>1, <1>4, WFMin, Zenon
<1>7. PICK t \in T : x = n - t
  BY <1>5
<1>8. \A y \in T : y <= t
  <2> SUFFICES ASSUME NEW y \in T, ~(y <= t) PROVE FALSE
    OBVIOUS
  <2>1. n - y \in Nat /\ x \in Nat /\ n - y < x
    BY <1>7
  <2> QED BY <1>2, <1>3, <1>6, <2>1
<1>9. t \in T /\ \A y \in T : t >= y
  BY <1>8
<1> QED BY <1>9 DEF Max

\* The hook or the handler at place i gets control.
LEMMA EnterFields ==
  ASSUME NEW call, CallOK(call), NEW i \in Nat
  PROVE  /\ CallOK(Enter(call, i)) /\ Enter(call, i).at = i
         /\ Enter(call, i).entered = IF i > Len(call.hooks) THEN call.entered + 1 ELSE call.entered
         /\ Enter(call, i).hooks = call.hooks /\ Enter(call, i).frames = call.frames
         /\ Enter(call, i).meddled = call.meddled /\ Enter(call, i).term = call.term
<1>1. PICK n : n = IF i > Len(call.hooks) THEN call.entered + 1 ELSE call.entered
  OBVIOUS
<1>2. PICK new : new = [call EXCEPT !.at = i, !.entered = n]
  OBVIOUS
<1>3. new = Enter(call, i)
  BY <1>1, <1>2 DEF Enter
<1>4. /\ DOMAIN new = DOMAIN call /\ new.at = i /\ new.entered = n /\ new.hooks = call.hooks
      /\ new.frames = call.frames /\ new.meddled = call.meddled /\ new.term = call.term
  BY <1>2 DEF CallOK, Fields
<1> QED BY <1>1, <1>3, <1>4 DEF CallOK

\* What is over below place i goes to the nearest hook above that is still there.
LEMMA BackRight ==
  ASSUME NEW call, CallOK(call), call.entered \in {0, 1}, NEW i \in 1 .. Len(call.hooks) + 1,
         \A k \in 1 .. i - 1 : Waits(call.frames[k]), NEW out, Told(call, out)
  PROVE  OnItsWay(Back(call, i, out))
<1> DEFINE above == {k \in 1 .. i - 1 : ~call.frames[k].skipped}
<1>1. PICK m : m = Max(above)
  OBVIOUS
<1>2. CASE above = {}
  <2>1. PICK new : new = [call EXCEPT !.at = 0, !.out = out]
    OBVIOUS
  <2>2. new = Back(call, i, out)
    BY <1>2, <2>1 DEF Back
  <2>3. /\ DOMAIN new = DOMAIN call /\ new.at = 0 /\ new.out = out /\ new.entered = call.entered
        /\ new.hooks = call.hooks /\ new.frames = call.frames /\ new.meddled = call.meddled
        /\ new.term = call.term
    BY <2>1 DEF CallOK, Fields
  <2> QED BY <2>2, <2>3 DEF OnItsWay, CallOK, Ended, Told
<1>3. CASE above # {}
  <2>1. m \in above
    <3>1. Len(call.hooks) \in Nat /\ above \in SUBSET (0 .. Len(call.hooks))
      BY DEF CallOK
    <3> HIDE DEF above
    <3> QED BY <1>1, <1>3, <3>1, MaxIn
  <2>2. PICK frame : frame = IF out.kind = "reply" THEN [call.frames[m] EXCEPT !.result = out]
                                                   ELSE [call.frames[m] EXCEPT !.error = out]
    OBVIOUS
  <2>3. PICK new : new = [call EXCEPT !.at = m, !.frames[m] = frame]
    OBVIOUS
  <2>4. new = Back(call, i, out)
    BY <1>1, <1>3, <2>2, <2>3 DEF Back
  <2>5. PICK frames : frames = [call.frames EXCEPT ![m] = frame]
    OBVIOUS
  <2>6. /\ DOMAIN new = DOMAIN call /\ new.at = m /\ new.frames = frames /\ new.entered = call.entered
        /\ new.hooks = call.hooks /\ new.meddled = call.meddled /\ new.term = call.term
    BY <2>3, <2>5 DEF CallOK, Fields
  <2>7. m \in 1 .. Len(call.hooks) /\ m \in 1 .. i - 1 /\ ~call.frames[m].skipped /\ Waits(call.frames[m])
    BY <2>1 DEF CallOK
  <2>8. /\ DOMAIN frame = DOMAIN call.frames[m] /\ frame.called /\ ~frame.skipped
        /\ \/ out.kind = "reply" /\ frame.error = NoOutcome /\ frame.result = out
           \/ out.kind # "reply" /\ frame.result = NoOutcome /\ frame.error = out
    BY <2>2, <2>7 DEF CallOK, Waits
  <2>9. /\ DOMAIN frames = 1 .. Len(call.hooks) /\ frames[m] = frame
        /\ \A k \in 1 .. Len(call.hooks) : k # m => frames[k] = call.frames[k]
    BY <2>5, <2>7 DEF CallOK
  <2>10. CallOK(new)
    BY <2>6, <2>7, <2>8, <2>9 DEF CallOK
  <2>11. \A k \in 1 .. m - 1 : Waits(frames[k])
    BY <2>7, <2>9 DEF CallOK
  <2>12. Told(new, out)
    BY <2>6 DEF Told
  <2>13. Rises(new)
    BY <2>6, <2>7, <2>8, <2>9, <2>11, <2>12 DEF Rises
  <2> QED BY <2>4, <2>10, <2>13 DEF OnItsWay
<1> QED BY <1>2, <1>3

-----------------------------------------------------------------------------
(* The moves *)

\* An interceptor that meddles is on the record.
LEMMA MeddledFields ==
  ASSUME NEW call, CallOK(call)
  PROVE  /\ CallOK(Meddled(call)) /\ Meddled(call).meddled
         /\ Meddled(call).hooks = call.hooks /\ Meddled(call).frames = call.frames
         /\ Meddled(call).at = call.at /\ Meddled(call).entered = call.entered
         /\ Meddled(call).term = call.term
<1>1. PICK new : new = Meddled(call)
  OBVIOUS
<1>2. /\ DOMAIN new = DOMAIN call /\ new.meddled /\ new.at = call.at /\ new.entered = call.entered
      /\ new.hooks = call.hooks /\ new.frames = call.frames /\ new.term = call.term
  BY <1>1 DEF Meddled, CallOK, Fields
<1> QED BY <1>1, <1>2 DEF CallOK

\* What holds of the hook in control, whichever way the call goes.
LEMMA InControl ==
  ASSUME NEW call, OnItsWay(call), InHook(call)
  PROVE  /\ CallOK(call) /\ call.entered \in {0, 1} /\ call.at \in 1 .. Len(call.hooks)
         /\ call.at \in 1 .. Len(call.hooks) + 1
         /\ \A k \in 1 .. call.at - 1 : Waits(call.frames[k])
         /\ Rises(call) \/ Descends(call)
<1>1. CallOK(call) /\ call.at \in 1 .. Len(call.hooks) /\ Len(call.hooks) \in Nat
  BY DEF OnItsWay, CallOK, InHook
<1>2. Rises(call) \/ Descends(call)
  BY <1>1 DEF OnItsWay, Ended
<1>3. CASE Rises(call)
  BY <1>1, <1>3 DEF Rises
<1>4. CASE Descends(call)
  BY <1>1, <1>4 DEF Descends
<1> QED BY <1>1, <1>2, <1>3, <1>4

\* A hook raises, or lets an error out, after its next() came back.
LEMMA FailRises ==
  ASSUME NEW call, CallOK(call), Rises(call), NEW e, e # NoOutcome,
         call.meddled \/ (e.kind = "error" /\ (call.hooks[call.at].onerror # "fail"
                                               \/ e = call.frames[call.at].error))
  PROVE  OnItsWay(Fail(call, call.at, e))
<1> DEFINE frame == call.frames[call.at]
<1>1. /\ call.at \in 1 .. Len(call.hooks) + 1 /\ call.entered \in {0, 1} /\ frame.called
      /\ \A k \in 1 .. call.at - 1 : Waits(call.frames[k])
  BY DEF Rises, CallOK
<1>2. \/ frame.error = NoOutcome /\ Told(call, frame.result)
      \/ frame.result = NoOutcome /\ Told(call, frame.error) /\ frame.error.kind # "reply"
  BY DEF Rises
<1>3. Fail(call, call.at, e) =
        IF e.kind = "twice" \/ e = frame.error \/ call.hooks[call.at].onerror = "fail" THEN Back(call, call.at, e)
        ELSE IF frame.result # NoOutcome THEN Back(call, call.at, frame.result) ELSE Back(call, call.at, e)
  BY <1>1 DEF Fail
<1> HIDE DEF frame
<1>4. CASE e.kind = "twice" \/ e = frame.error \/ call.hooks[call.at].onerror = "fail"
  <2>1. Told(call, e)
    BY <1>2, <1>4 DEF Told, frame
  <2> QED BY <1>1, <1>3, <1>4, <2>1, BackRight
<1>5. CASE ~(e.kind = "twice" \/ e = frame.error \/ call.hooks[call.at].onerror = "fail")
  <2>1. CASE frame.result # NoOutcome
    <3>1. Told(call, frame.result)
      BY <1>2, <2>1
    <3> QED BY <1>1, <1>3, <1>5, <2>1, <3>1, BackRight
  <2>2. CASE frame.result = NoOutcome
    <3>1. Told(call, e)
      BY <1>2, <2>2 DEF Told
    <3> QED BY <1>1, <1>3, <1>5, <2>2, <3>1, BackRight
  <2> QED BY <2>1, <2>2
<1> QED BY <1>4, <1>5

\* A hook raises before it called next(): it is skipped, or fails the call.
LEMMA BreaksDescending ==
  ASSUME NEW call, CallOK(call), Descends(call), call.at \in 1 .. Len(call.hooks)
  PROVE  OnItsWay(Breaks(call))
<1>1. PICK i : i = call.at
  OBVIOUS
<1>2. PICK e : e = Raised(i)
  OBVIOUS
<1>3. e # NoOutcome /\ e.kind = "error"
  BY <1>2 DEF Raised, NoOutcome
<1>4. /\ i \in 1 .. Len(call.hooks) /\ call.entered = 0 /\ ~call.meddled /\ Len(call.hooks) \in Nat
      /\ \A k \in 1 .. i - 1 : Waits(call.frames[k])
      /\ \A k \in i .. Len(call.hooks) : Fresh(call.frames[k])
  BY <1>1 DEF Descends, CallOK
<1>5. CASE call.hooks[i].onerror = "fail"
  <2>1. PICK new : new = Meddled(call)
    OBVIOUS
  <2>2. Breaks(call) = Back(new, i, e)
    <3>1. new.hooks = call.hooks
      BY <2>1, MeddledFields
    <3> QED BY <1>1, <1>2, <1>5, <2>1, <3>1 DEF Breaks, Fail
  <2>3. /\ CallOK(new) /\ new.entered \in {0, 1} /\ i \in 1 .. Len(new.hooks) + 1
        /\ \A k \in 1 .. i - 1 : Waits(new.frames[k])
        /\ Told(new, e)
    BY <1>3, <1>4, <2>1, MeddledFields DEF Told
  <2> QED BY <2>2, <2>3, BackRight
<1>6. CASE call.hooks[i].onerror # "fail"
  <2>1. PICK frame : frame = [call.frames[i] EXCEPT !.skipped = TRUE]
    OBVIOUS
  <2>2. PICK frames : frames = [call.frames EXCEPT ![i] = frame]
    OBVIOUS
  <2>3. PICK new : new = [call EXCEPT !.frames = frames]
    OBVIOUS
  <2>4. Fresh(call.frames[i])
    BY <1>4
  <2>5. Breaks(call) = Enter(new, i + 1)
    <3>1. new = [call EXCEPT !.frames[i].skipped = TRUE]
      BY <2>1, <2>2, <2>3
    <3>2. ~(e.kind = "twice" \/ e = call.frames[i].error \/ call.hooks[i].onerror = "fail")
      BY <1>3, <1>6, <2>4 DEF Fresh
    <3>3. call.frames[i].result = NoOutcome /\ ~call.frames[i].called
      BY <2>4 DEF Fresh
    <3>4. Breaks(call) = Fail(call, i, e)
      BY <1>1, <1>2, <1>6 DEF Breaks
    <3> QED BY <3>1, <3>2, <3>3, <3>4 DEF Fail
  <2>6. DOMAIN frame = DOMAIN call.frames[i] /\ frame.skipped
    BY <1>4, <2>1 DEF CallOK
  <2>7. /\ DOMAIN frames = 1 .. Len(call.hooks) /\ frames[i] = frame
        /\ \A k \in 1 .. Len(call.hooks) : k # i => frames[k] = call.frames[k]
    BY <1>4, <2>2 DEF CallOK
  <2>8. /\ DOMAIN new = DOMAIN call /\ new.frames = frames /\ new.entered = call.entered
        /\ new.hooks = call.hooks /\ new.meddled = call.meddled /\ new.term = call.term
    BY <2>3 DEF CallOK, Fields
  <2>9. CallOK(new)
    BY <1>4, <2>6, <2>7, <2>8 DEF CallOK
  <2>10. \A k \in 1 .. Len(call.hooks) : IF k < i + 1 THEN Waits(frames[k]) ELSE Fresh(frames[k])
    BY <1>4, <2>6, <2>7 DEF Waits
  <2>11. PICK entered : entered = Enter(new, i + 1)
    OBVIOUS
  <2>12. /\ CallOK(entered) /\ entered.at = i + 1
         /\ entered.entered = IF i + 1 > Len(new.hooks) THEN new.entered + 1 ELSE new.entered
         /\ entered.hooks = new.hooks /\ entered.frames = new.frames
         /\ entered.meddled = new.meddled /\ entered.term = new.term
    <3>1. i + 1 \in Nat
      BY <1>4
    <3> QED BY <2>9, <2>11, <3>1, EnterFields
  <2>13. Descends(entered)
    BY <1>4, <2>8, <2>10, <2>12 DEF Descends
  <2> QED BY <2>5, <2>11, <2>12, <2>13 DEF OnItsWay
<1> QED BY <1>5, <1>6

\* A hook calls next().
LEMMA CallsNextRight ==
  ASSUME NEW call, CallOK(call), Descends(call), call.at \in 1 .. Len(call.hooks)
  PROVE  OnItsWay(CallsNext(call))
<1>1. PICK i : i = call.at
  OBVIOUS
<1>2. /\ i \in 1 .. Len(call.hooks) /\ call.entered = 0 /\ ~call.meddled /\ Len(call.hooks) \in Nat
      /\ \A k \in 1 .. i - 1 : Waits(call.frames[k])
      /\ \A k \in i .. Len(call.hooks) : Fresh(call.frames[k])
  BY <1>1 DEF Descends, CallOK
<1>3. PICK frame : frame = [call.frames[i] EXCEPT !.called = TRUE]
  OBVIOUS
<1>4. PICK frames : frames = [call.frames EXCEPT ![i] = frame]
  OBVIOUS
<1>5. PICK new : new = [call EXCEPT !.frames = frames]
  OBVIOUS
<1>6. CallsNext(call) = Enter(new, i + 1)
  <2>1. new = [call EXCEPT !.frames[i].called = TRUE]
    BY <1>3, <1>4, <1>5
  <2> QED BY <1>1, <2>1 DEF CallsNext
<1>7. DOMAIN frame = DOMAIN call.frames[i] /\ Waits(frame)
  BY <1>2, <1>3 DEF CallOK, Waits, Fresh
<1>8. /\ DOMAIN frames = 1 .. Len(call.hooks) /\ frames[i] = frame
      /\ \A k \in 1 .. Len(call.hooks) : k # i => frames[k] = call.frames[k]
  BY <1>2, <1>4 DEF CallOK
<1>9. /\ DOMAIN new = DOMAIN call /\ new.frames = frames /\ new.entered = call.entered
      /\ new.hooks = call.hooks /\ new.meddled = call.meddled /\ new.term = call.term
  BY <1>5 DEF CallOK, Fields
<1>10. CallOK(new)
  BY <1>2, <1>7, <1>8, <1>9 DEF CallOK
<1>11. \A k \in 1 .. Len(call.hooks) : IF k < i + 1 THEN Waits(frames[k]) ELSE Fresh(frames[k])
  BY <1>2, <1>7, <1>8
<1>12. PICK entered : entered = Enter(new, i + 1)
  OBVIOUS
<1>13. /\ CallOK(entered) /\ entered.at = i + 1
       /\ entered.entered = IF i + 1 > Len(new.hooks) THEN new.entered + 1 ELSE new.entered
       /\ entered.hooks = new.hooks /\ entered.frames = new.frames
       /\ entered.meddled = new.meddled /\ entered.term = new.term
  <2>1. i + 1 \in Nat
    BY <1>2
  <2> QED BY <1>10, <1>12, <2>1, EnterFields
<1>14. Descends(entered)
  BY <1>2, <1>9, <1>11, <1>13 DEF Descends
<1> QED BY <1>6, <1>12, <1>13, <1>14 DEF OnItsWay

\* Whatever the hook in control does.
LEMMA HookMovesRight ==
  ASSUME NEW call, OnItsWay(call), InHook(call), NEW new \in HookMoves(call)
  PROVE  OnItsWay(new)
<1>1. /\ CallOK(call) /\ call.entered \in {0, 1} /\ call.at \in 1 .. Len(call.hooks)
      /\ call.at \in 1 .. Len(call.hooks) + 1
      /\ \A k \in 1 .. call.at - 1 : Waits(call.frames[k])
      /\ Rises(call) \/ Descends(call)
  BY InControl
<1>2. PICK bad : bad = Meddled(call)
  OBVIOUS
<1>3. /\ CallOK(bad) /\ bad.meddled /\ bad.hooks = call.hooks /\ bad.frames = call.frames
      /\ bad.at = call.at /\ bad.entered = call.entered /\ bad.term = call.term
  BY <1>1, <1>2, MeddledFields
<1>4. \A out : out # NoOutcome => Told(bad, out)
  BY <1>3 DEF Told
<1>5. Rises(call) => Rises(bad)
  <2> SUFFICES ASSUME Rises(call) PROVE Rises(bad)
    OBVIOUS
  <2>1. \/ /\ call.frames[call.at].error = NoOutcome
           /\ call.frames[call.at].result # NoOutcome
        \/ /\ call.frames[call.at].result = NoOutcome
           /\ call.frames[call.at].error # NoOutcome /\ call.frames[call.at].error.kind # "reply"
    BY DEF Rises, Told
  <2> QED BY <1>3, <1>4, <2>1 DEF Rises
<1>6. Raised(call.at) # NoOutcome /\ Raised(call.at).kind = "error"
  BY DEF Raised, NoOutcome
<1>7. CASE new = Answers(call)
  <2>1. PICK out : out = Reply(call.at)
    OBVIOUS
  <2>2. out # NoOutcome
    BY <2>1 DEF Reply, NoOutcome
  <2>3. new = Back(bad, call.at, out)
    BY <1>2, <1>7, <2>1 DEF Answers
  <2>4. Told(bad, out)
    BY <1>4, <2>2
  <2> QED BY <1>1, <1>3, <2>3, <2>4, BackRight
<1>8. CASE new = Breaks(call)
  <2>1. CASE Descends(call)
    BY <1>1, <1>8, <2>1, BreaksDescending
  <2>2. CASE Rises(call) /\ call.hooks[call.at].onerror = "fail"
    <3>1. new = Fail(bad, bad.at, Raised(call.at))
      BY <1>2, <1>3, <1>8, <2>2 DEF Breaks
    <3> QED BY <1>3, <1>5, <1>6, <2>2, <3>1, FailRises
  <2>3. CASE Rises(call) /\ call.hooks[call.at].onerror # "fail"
    <3>1. new = Fail(call, call.at, Raised(call.at))
      BY <1>8, <2>3 DEF Breaks
    <3> QED BY <1>1, <1>6, <2>3, <3>1, FailRises
  <2> QED BY <1>1, <2>1, <2>2, <2>3
<1>9. CASE Top(call).called /\ new = NextAgain(call)
  <2>1. Rises(call)
    BY <1>1, <1>9 DEF Descends, Fresh, Top
  <2>2. PICK e : e = Twice(call.at)
    OBVIOUS
  <2>3. e # NoOutcome
    BY <2>2 DEF Twice, NoOutcome
  <2>4. new = Fail(bad, bad.at, e)
    BY <1>2, <1>3, <1>9, <2>2 DEF NextAgain
  <2> QED BY <1>3, <1>5, <2>1, <2>3, <2>4, FailRises
<1>10. CASE ~Top(call).called /\ new = CallsNext(call)
  <2>1. Descends(call)
    BY <1>1, <1>10 DEF Rises, Top
  <2> QED BY <1>1, <1>10, <2>1, CallsNextRight
<1>11. CASE Top(call).result # NoOutcome /\ new = PassesOn(call)
  <2>1. PICK out : out = call.frames[call.at].result
    OBVIOUS
  <2>2. Rises(call) /\ out # NoOutcome
    BY <1>1, <1>11, <2>1 DEF Descends, Fresh, Top
  <2>3. Told(call, out)
    BY <2>1, <2>2 DEF Rises
  <2>4. new = Back(call, call.at, out)
    BY <1>11, <2>1 DEF PassesOn, Top
  <2> QED BY <1>1, <2>3, <2>4, BackRight
<1>12. CASE Top(call).error # NoOutcome /\ new = LetsThrough(call)
  <2>1. PICK e : e = call.frames[call.at].error
    OBVIOUS
  <2>2. Rises(call) /\ e # NoOutcome
    BY <1>1, <1>12, <2>1 DEF Descends, Fresh, Top
  <2>3. new = Fail(call, call.at, e)
    BY <1>12, <2>1 DEF LetsThrough, Top
  <2>4. call.meddled \/ e.kind = "error"
    BY <2>1, <2>2 DEF Rises, Told
  <2> QED BY <1>1, <2>1, <2>2, <2>3, <2>4, FailRises
<1> QED BY <1>7, <1>8, <1>9, <1>10, <1>11, <1>12 DEF HookMoves

\* The handler replies or raises, or was never entered (its arguments cannot be converted).
LEMMA HandlerMovesRight ==
  ASSUME NEW call, OnItsWay(call), call.at > 0, InHandler(call), NEW new \in HandlerMoves(call)
  PROVE  OnItsWay(new)
<1>1. CallOK(call) /\ Len(call.hooks) \in Nat /\ call.at = Len(call.hooks) + 1
  BY DEF OnItsWay, CallOK, InHandler
<1>2. Descends(call)
  BY <1>1 DEF OnItsWay, Rises, Ended
<1>3. PICK out \in {Reply(0), Raised(0), Raised(-1)} : new = Back([call EXCEPT !.term = out], call.at, out)
  BY DEF HandlerMoves
<1>4. out # NoOutcome /\ out.kind \in {"reply", "error"}
  BY <1>3 DEF Reply, Raised, NoOutcome
<1>5. PICK over : over = [call EXCEPT !.term = out]
  OBVIOUS
<1>6. /\ DOMAIN over = DOMAIN call /\ over.term = out /\ over.entered = call.entered
      /\ over.hooks = call.hooks /\ over.frames = call.frames /\ over.meddled = call.meddled
  BY <1>1, <1>5 DEF CallOK, Fields
<1>7. CallOK(over) /\ Told(over, out)
  BY <1>1, <1>4, <1>6 DEF CallOK, Told
<1>8. /\ over.entered \in {0, 1} /\ call.at \in 1 .. Len(over.hooks) + 1
      /\ \A k \in 1 .. call.at - 1 : Waits(over.frames[k])
  BY <1>1, <1>2, <1>6 DEF Descends
<1> QED BY <1>3, <1>5, <1>7, <1>8, BackRight

\* A call is cancelled wherever it is.
LEMMA CancelRight ==
  ASSUME NEW call, OnItsWay(call)
  PROVE  OnItsWay(Cancelled(call)) /\ Cancelled(call).at = 0
<1>1. PICK new : new = Cancelled(call)
  OBVIOUS
<1>2. PICK out : out = [kind |-> "cancelled", of |-> 0]
  OBVIOUS
<1>3. out.kind = "cancelled"
  BY <1>2
<1>4. new = [call EXCEPT !.at = 0, !.out = out]
  BY <1>1, <1>2 DEF Cancelled
<1>5. CallOK(call) /\ call.entered \in {0, 1}
  BY DEF OnItsWay, CallOK, Descends, Rises, Ended
<1>6. /\ DOMAIN new = DOMAIN call /\ new.at = 0 /\ new.out = out /\ new.entered = call.entered
      /\ new.hooks = call.hooks /\ new.frames = call.frames
  BY <1>4, <1>5 DEF CallOK, Fields
<1> QED BY <1>1, <1>3, <1>5, <1>6 DEF OnItsWay, CallOK, Ended

-----------------------------------------------------------------------------
(* Lists *)

\* The functions on 1 .. n are the sequences of length n.
LEMMA FunctionIsSequence ==
  ASSUME NEW n \in Nat, NEW f, f = [i \in 1 .. n |-> f[i]], NEW T, \A i \in 1 .. n : f[i] \in T
  PROVE  f \in Seq(T) /\ Len(f) = n
<1>1. f \in [1 .. n -> T]
  OBVIOUS
<1>2. f \in Seq(T)
  BY <1>1
<1>3. Len(f) \in Nat /\ DOMAIN f = 1 .. Len(f) /\ DOMAIN f = 1 .. n
  BY <1>1, <1>2, LenProperties
<1>4. Len(f) = n
  BY <1>3
<1> QED BY <1>2, <1>4

\* A finite set in order is as long as the set is large.
LEMMA InOrderLength ==
  ASSUME NEW S, IsFiniteSet(S), NEW before
  PROVE  DOMAIN InOrder(S, before) = 1 .. Cardinality(S) /\ Len(InOrder(S, before)) = Cardinality(S)
<1>1. PICK list : list = InOrder(S, before)
  OBVIOUS
<1>2. PICK n : n = Cardinality(S)
  OBVIOUS
<1>3. n \in Nat
  BY <1>2, FS_CardinalityType
<1>4. DOMAIN list = 1 .. n /\ list = [i \in 1 .. n |-> list[i]]
  <2> DEFINE At(i) == CHOOSE x \in S : Cardinality({y \in S : <<y, x>> \in before}) = i - 1
  <2>1. list = [i \in 1 .. n |-> At(i)]
    BY <1>1, <1>2, Zenon DEF InOrder
  <2> HIDE DEF At
  <2> QED BY <2>1
<1>5. PICK T : T = {list[i] : i \in 1 .. n}
  OBVIOUS
<1>6. Len(list) = n
  BY <1>3, <1>4, <1>5, FunctionIsSequence
<1> QED BY <1>1, <1>2, <1>4, <1>6

-----------------------------------------------------------------------------
(* Requests: FailOpen *)

\* A new call is on its way to the first hook, or to the handler if there is none.
LEMMA BeginRight ==
  ASSUME NEW list, Len(list) \in Nat, DOMAIN list = 1 .. Len(list)
  PROVE  /\ OnItsWay(Begin(list)) /\ Begin(list).at = 1
         /\ Begin(list).entered \in {0, 1}
<1>1. PICK frames : frames = [i \in DOMAIN list |-> Frame]
  OBVIOUS
<1>2. PICK new : new = [hooks |-> list, frames |-> frames, at |-> 1, out |-> NoOutcome,
                        entered |-> 0, term |-> NoOutcome, meddled |-> FALSE]
  OBVIOUS
<1>3. Begin(list) = Enter(new, 1)
  BY <1>1, <1>2 DEF Begin
<1>4. \A k \in 1 .. Len(list) : {"called", "skipped", "result", "error"} \subseteq DOMAIN frames[k] /\ Fresh(frames[k])
  BY <1>1 DEF Frame, Fresh
<1>5. DOMAIN frames = 1 .. Len(list)
  BY <1>1
<1>6. /\ Fields \subseteq DOMAIN new /\ new.hooks = list /\ new.frames = frames /\ new.at = 1
      /\ new.entered = 0 /\ new.meddled = FALSE
  BY <1>2 DEF Fields
<1>7. CallOK(new)
  BY <1>4, <1>5, <1>6 DEF CallOK
<1>8. PICK begun : begun = Enter(new, 1)
  OBVIOUS
<1>9. /\ CallOK(begun) /\ begun.at = 1
      /\ begun.entered = IF 1 > Len(new.hooks) THEN new.entered + 1 ELSE new.entered
      /\ begun.hooks = new.hooks /\ begun.frames = new.frames /\ begun.meddled = new.meddled
  BY <1>7, <1>8, EnterFields
<1>10. Descends(begun)
  BY <1>4, <1>6, <1>9 DEF Descends
<1>11. begun.entered \in {0, 1}
  BY <1>6, <1>9
<1> QED BY <1>3, <1>8, <1>9, <1>10, <1>11 DEF OnItsWay

\* The replies of requests that never get to a chain.
Unanswered == {"none", "401", "404", "405", "file"}

\* A request has got no further than the router, or its call is on its way.
RequestOK(request) ==
  /\ {"route", "reply", "call"} \subseteq DOMAIN request
  /\ \/ OnItsWay(request.call)
     \/ /\ CallOK(request.call) /\ request.call.at = 0 /\ request.call.entered \in {0, 1}
        /\ request.reply \in Unanswered

\* The invariant of the requests; a chain is as long as there are hooks.
CallsInv ==
  /\ IsFiniteSet(hooks)
  /\ calls = [q \in Requests |-> calls[q]]
  /\ \A q \in Requests : RequestOK(calls[q])

\* A request that gets no further than the router, or nowhere yet.
LEMMA NoCallRight ==
  ASSUME NEW reply \in Unanswered
  PROVE  RequestOK([NoCall EXCEPT !.reply = reply])
<1>1. PICK begun : begun = Begin(<< >>)
  OBVIOUS
<1>2. OnItsWay(begun) /\ begun.entered \in {0, 1}
  <2>1. PICK list : list = << >>
    OBVIOUS
  <2>2. Len(list) = 0 /\ DOMAIN list = 1 .. Len(list)
    BY <2>1
  <2> QED BY <1>1, <2>1, <2>2, BeginRight
<1>3. CallOK(begun)
  BY <1>2 DEF OnItsWay
<1>4. PICK over : over = [begun EXCEPT !.at = 0]
  OBVIOUS
<1>5. /\ DOMAIN over = DOMAIN begun /\ over.at = 0 /\ over.entered = begun.entered
      /\ over.hooks = begun.hooks /\ over.frames = begun.frames
  BY <1>3, <1>4 DEF CallOK, Fields
<1>6. CallOK(over) /\ over.entered \in {0, 1} /\ over.at = 0
  BY <1>2, <1>3, <1>5 DEF CallOK
<1>7. PICK request : request = [NoCall EXCEPT !.reply = reply]
  OBVIOUS
<1>8. {"route", "reply", "call"} \subseteq DOMAIN request /\ request.reply = reply /\ request.call = over
  BY <1>1, <1>4, <1>7 DEF NoCall
<1> QED BY <1>6, <1>7, <1>8 DEF RequestOK

\* No request at first.
LEMMA CallsStart == Init => CallsInv
<1> SUFFICES ASSUME Init PROVE CallsInv
  OBVIOUS
<1>1. IsFiniteSet(hooks)
  BY FS_EmptySet DEF Init
<1>2. [NoCall EXCEPT !.reply = "none"] = NoCall
  BY DEF NoCall
<1>3. RequestOK(NoCall)
  <2>1. "none" \in Unanswered
    BY DEF Unanswered
  <2> QED BY <1>2, <2>1, NoCallRight
<1> QED BY <1>1, <1>3 DEF Init, CallsInv

\* A call moves on from one way to another, or is over.
LEMMA GoesRight ==
  ASSUME CallsInv, NEW q \in Requests, NEW call, OnItsWay(call), Goes(q, call)
  PROVE  CallsInv'
<1>1. PICK reply : reply = IF call.at = 0 THEN call.out.kind ELSE "pending"
  OBVIOUS
<1>2. calls' = [calls EXCEPT ![q].call = call, ![q].reply = reply]
  BY <1>1 DEF Goes
<1>3. calls' = [r \in Requests |-> calls'[r]]
  BY <1>2 DEF CallsInv
<1>4. \A r \in Requests : r # q => calls'[r] = calls[r]
  BY <1>2 DEF CallsInv
<1>5. PICK request : request = [calls[q] EXCEPT !.call = call, !.reply = reply]
  OBVIOUS
<1>6. calls'[q] = request
  BY <1>2, <1>5 DEF CallsInv
<1>7. {"route", "reply", "call"} \subseteq DOMAIN calls[q]
  BY DEF CallsInv, RequestOK
<1>8. {"route", "reply", "call"} \subseteq DOMAIN request /\ request.call = call
  BY <1>5, <1>7
<1>9. RequestOK(request)
  BY <1>8 DEF RequestOK
<1>10. \A r \in Requests : RequestOK(calls'[r])
  BY <1>4, <1>6, <1>9 DEF CallsInv
<1>11. IsFiniteSet(hooks')
  BY DEF CallsInv, Goes
<1> QED BY <1>3, <1>10, <1>11, Zenon DEF CallsInv

\* A request arrives: it is answered at once, or a call through the chain begins.
LEMMA ArriveRight ==
  ASSUME CallsInv, NEW q \in Requests, NEW caller, NEW path, NEW method, Arrive(q, caller, path, method)
  PROVE  CallsInv'
<1> DEFINE serving == Serving(path, method)
           record == mounts[Min(serving)]
           here == \E i \in DOMAIN mounts : mounts[i].path = path
           begun == Begin(HooksFor(record))
<1>1. PICK request : request =
        CASE path \in Protected /\ ~Verified(caller) -> [NoCall EXCEPT !.reply = "401"]
          [] OTHER ->
               CASE serving = {} /\ here -> [NoCall EXCEPT !.reply = "405"]
                 [] serving = {} /\ ~here -> [NoCall EXCEPT !.reply = "404"]
                 [] serving # {} /\ Static(record) -> [NoCall EXCEPT !.reply = "file"]
                 [] OTHER -> [route |-> record.id, reply |-> "pending", call |-> begun]
  OBVIOUS
<1>2. calls' = [calls EXCEPT ![q] = request]
  BY <1>1 DEF Arrive
<1>3. OnItsWay(begun)
  <2> DEFINE S == {h \in hooks : record.kind \in h.kinds}
             before == {p \in S \X S : Before(Rank, p[1], p[2])}
  <2>1. IsFiniteSet(S)
    BY FS_Subset DEF CallsInv
  <2>2. HooksFor(record) = InOrder(S, before)
    BY DEF HooksFor, Chain
  <2> HIDE DEF S, before, record
  <2>3. PICK list : list = InOrder(S, before)
    OBVIOUS
  <2>4. Len(list) \in Nat /\ DOMAIN list = 1 .. Len(list)
    BY <2>1, <2>3, InOrderLength, FS_CardinalityType
  <2> QED BY <2>2, <2>3, <2>4, BeginRight
<1> HIDE DEF serving, record, here, begun
<1>4. RequestOK(request)
  <2>1. \/ request = [NoCall EXCEPT !.reply = "401"] \/ request = [NoCall EXCEPT !.reply = "405"]
        \/ request = [NoCall EXCEPT !.reply = "404"] \/ request = [NoCall EXCEPT !.reply = "file"]
        \/ request = [route |-> record.id, reply |-> "pending", call |-> begun]
    BY <1>1, Zenon
  <2>2. {"401", "404", "405", "file"} \subseteq Unanswered
    BY DEF Unanswered
  <2>3. CASE request = [route |-> record.id, reply |-> "pending", call |-> begun]
    BY <1>3, <2>3 DEF RequestOK
  <2> QED BY <2>1, <2>2, <2>3, NoCallRight
<1>5. calls' = [r \in Requests |-> calls'[r]]
  BY <1>2 DEF CallsInv
<1>6. \A r \in Requests : RequestOK(calls'[r])
  <2>1. \A r \in Requests : calls'[r] = IF r = q THEN request ELSE calls[r]
    BY <1>2 DEF CallsInv
  <2> QED BY <1>4, <2>1 DEF CallsInv
<1>7. IsFiniteSet(hooks')
  BY DEF CallsInv, Arrive
<1> QED BY <1>5, <1>6, <1>7, Zenon DEF CallsInv

\* Steps that touch no request.
LEMMA HooksStayFinite == ASSUME CallsInv, calls' = calls, IsFiniteSet(hooks') PROVE CallsInv'
BY Zenon DEF CallsInv

\* Every step keeps the invariant of the requests.
LEMMA CallsMoves == CallsInv /\ [Next]_vars => CallsInv'
<1> SUFFICES ASSUME CallsInv, [Next]_vars PROVE CallsInv'
  OBVIOUS
<1>0. IsFiniteSet(hooks)
  BY DEF CallsInv
<1>1. CASE UNCHANGED vars
  BY <1>0, <1>1, HooksStayFinite DEF vars
<1>2. ASSUME NEW p \in Plugins, Load(p) \/ Unload(p) PROVE CallsInv'
  BY <1>0, <1>2, HooksStayFinite DEF Load, Unload
<1>3. ASSUME NEW p \in Plugins, NEW offer \in Offers, Register(p, offer) PROVE CallsInv'
  BY <1>0, <1>3, HooksStayFinite DEF Register
<1>14. ASSUME NEW p \in Plugins, NEW offer \in Offers, RegisterFails(p, offer) PROVE CallsInv'
  BY <1>0, <1>14, HooksStayFinite DEF RegisterFails
<1>4. ASSUME NEW p \in Plugins, NEW kind \in HookKinds, Use(p, kind) PROVE CallsInv'
  <2>1. PICK hook : hooks' = hooks \cup {hook}
    BY <1>4 DEF Use
  <2>2. IsFiniteSet(hooks')
    BY <1>0, <2>1, FS_AddElement
  <2> QED BY <1>4, <2>2, HooksStayFinite DEF Use
<1>5. ASSUME NEW p \in Plugins, NEW name \in DOMAIN Verifiers, AddVerifier(p, name, 100) \/ SetVerifier(p, name)
      PROVE  CallsInv'
  BY <1>0, <1>5, HooksStayFinite DEF AddVerifier, SetVerifier
<1>6. ASSUME NEW p \in Plugins, NEW id \in effects[p], Undo(p, id) PROVE CallsInv'
  <2>1. IsFiniteSet(hooks')
    BY <1>0, <1>6, FS_Subset DEF Undo
  <2> QED BY <1>6, <2>1, HooksStayFinite DEF Undo
<1>7. ASSUME NEW offer \in Offers, RemovePath(offer.path) PROVE CallsInv'
  BY <1>0, <1>7, HooksStayFinite DEF RemovePath
<1>8. CASE Start \/ Started \/ Stop
  BY <1>0, <1>8, HooksStayFinite DEF Start, Started, Stop
<1>9. CASE StartFails \/ Stopped
  <2>1. IsFiniteSet(hooks')
    BY <1>9, FS_EmptySet DEF StartFails, Stopped, Disposed
  <2> QED BY <1>9, <2>1, HooksStayFinite DEF StartFails, Stopped, Disposed
<1>10. ASSUME NEW q \in Requests, NEW caller \in Callers, NEW offer \in Offers, NEW method \in {"GET", "PUT"},
              Arrive(q, caller, offer.path, method)
       PROVE  CallsInv'
  BY <1>10, ArriveRight
<1>11. ASSUME NEW q \in Requests, HookStep(q) PROVE CallsInv'
  <2>1. PICK call \in HookMoves(calls[q].call) : Goes(q, call)
    BY <1>11 DEF HookStep
  <2>2. PICK old : old = calls[q].call
    OBVIOUS
  <2>3. InHook(old)
    BY <1>11, <2>2 DEF HookStep
  <2>4. OnItsWay(old)
    BY <2>2, <2>3 DEF CallsInv, RequestOK, InHook, CallOK
  <2>5. OnItsWay(call)
    BY <2>1, <2>2, <2>3, <2>4, HookMovesRight
  <2> QED BY <2>1, <2>5, GoesRight
<1>12. ASSUME NEW q \in Requests, HandlerStep(q) PROVE CallsInv'
  <2>1. PICK call \in HandlerMoves(calls[q].call) : Goes(q, call)
    BY <1>12 DEF HandlerStep
  <2>2. PICK old : old = calls[q].call
    OBVIOUS
  <2>3. old.at > 0 /\ InHandler(old)
    BY <1>12, <2>2 DEF HandlerStep
  <2>4. OnItsWay(old)
    BY <2>2, <2>3 DEF CallsInv, RequestOK
  <2>5. OnItsWay(call)
    BY <2>1, <2>2, <2>3, <2>4, HandlerMovesRight
  <2> QED BY <2>1, <2>5, GoesRight
<1>13. ASSUME NEW q \in Requests, Cancel(q) PROVE CallsInv'
  <2>1. PICK old : old = calls[q].call
    OBVIOUS
  <2>2. PICK call : call = Cancelled(old)
    OBVIOUS
  <2>3. old.at > 0 /\ Goes(q, call)
    BY <1>13, <2>1, <2>2 DEF Cancel
  <2>4. OnItsWay(old)
    BY <2>1, <2>3 DEF CallsInv, RequestOK
  <2>5. OnItsWay(call)
    BY <2>2, <2>4, CancelRight
  <2> QED BY <2>3, <2>5, GoesRight
<1> QED BY <1>1, <1>2, <1>3, <1>4, <1>5, <1>6, <1>7, <1>8, <1>9, <1>10, <1>11, <1>12, <1>13, <1>14, Zenon DEF Next

\* What the invariant says of a call that is over.
LEMMA CallsOpen == CallsInv => FailOpen
<1> SUFFICES ASSUME CallsInv, NEW q \in Requests
             PROVE  /\ calls[q].call.entered <= 1
                    /\ (calls[q].reply \notin {"none", "pending", "401", "404", "405", "file"}
                          /\ calls[q].call.at = 0 /\ ~calls[q].call.meddled
                          /\ calls[q].call.out.kind # "cancelled")
                        => CASE calls[q].call.term.kind = "reply" -> calls[q].call.out = calls[q].call.term
                             [] calls[q].call.term.kind = "error" -> calls[q].call.out.kind = "error"
                             [] OTHER -> FALSE
  BY DEF FailOpen
<1>1. PICK call : call = calls[q].call
  OBVIOUS
<1>2. OnItsWay(call) \/ (call.entered \in {0, 1} /\ calls[q].reply \in Unanswered)
  BY <1>1 DEF CallsInv, RequestOK
<1>3. call.entered \in {0, 1}
  BY <1>2 DEF OnItsWay, CallOK, Descends, Rises, Ended
<1>4. ASSUME calls[q].reply \notin {"none", "pending", "401", "404", "405", "file"}, call.at = 0, ~call.meddled,
             call.out.kind # "cancelled"
      PROVE  \/ call.term.kind = "reply" /\ call.out = call.term
             \/ call.term.kind = "error" /\ call.out.kind = "error"
  <2>1. OnItsWay(call)
    BY <1>2, <1>4 DEF Unanswered
  <2>2. Ended(call)
    BY <1>4, <2>1 DEF OnItsWay, Descends, Rises, CallOK
  <2> QED BY <1>4, <2>2 DEF Ended, Told
<1>5. call.entered <= 1
  BY <1>3
<1> QED BY <1>1, <1>4, <1>5

\* Whatever the plugins hang into the chains and whatever those interceptors do,
\* every call reaches its handler at most once, and as long as no interceptor
\* answers, calls next() twice or is told to fail the call, its caller gets what
\* the handler said (HookChain.run and the endpoints of router.py).
THEOREM FailAlwaysOpen == Spec => []FailOpen
<1> QED BY CallsStart, CallsMoves, CallsOpen, PTL DEF Spec

-----------------------------------------------------------------------------
(* The table of routes: ServesRegistered *)

\* A sequence of the elements of a set, each of them once.
Lists(list, S) == \E n \in Nat : list \in Bijection(1 .. n, S)

\* Such a list is as long as the set is large, and its range is the set.
LEMMA ListsAll ==
  ASSUME NEW list, NEW S, Lists(list, S)
  PROVE  IsFiniteSet(S) /\ Range(list) = S /\ Len(list) = Cardinality(S)
<1>1. PICK n \in Nat : list \in Bijection(1 .. n, S)
  BY DEF Lists
<1>2. list \in [1 .. n -> S] /\ \A x \in S : \E i \in 1 .. n : list[i] = x
  BY <1>1 DEF Bijection, Surjection
<1>3. Range(list) = S
  BY <1>2 DEF Range
<1>4. ExistsBijection(1 .. n, S)
  BY <1>1 DEF ExistsBijection
<1>5. IsFiniteSet(S) /\ Cardinality(S) = n
  BY <1>4, FS_NatBijection, FS_CountingElements
<1>6. Len(list) = n
  BY <1>2, FunctionIsSequence
<1> QED BY <1>3, <1>5, <1>6

\* The elements behind which n others come are at place n + 1, one at each.
LEMMA InOrderLists ==
  ASSUME NEW S, IsFiniteSet(S), NEW before,
         \A x \in S : <<x, x>> \notin before,
         \A x, y, z \in S : <<x, y>> \in before /\ <<y, z>> \in before => <<x, z>> \in before,
         \A x, y \in S : x # y => <<x, y>> \in before \/ <<y, x>> \in before
  PROVE  Lists(InOrder(S, before), S)
<1> DEFINE Below(x) == {y \in S : <<y, x>> \in before}
<1>1. PICK c : c = Cardinality(S)
  OBVIOUS
<1>2. c \in Nat
  BY <1>1, FS_CardinalityType
<1>3. \A x \in S : Below(x) \in SUBSET S /\ IsFiniteSet(Below(x)) /\ Cardinality(Below(x)) \in Nat
  BY FS_Subset, FS_CardinalityType
<1>4. \A x \in S : Cardinality(Below(x)) < c
  <2> SUFFICES ASSUME NEW x \in S PROVE Cardinality(Below(x)) < c
    OBVIOUS
  <2>1. Below(x) \in SUBSET S /\ Below(x) # S
    OBVIOUS
  <2>2. Cardinality(Below(x)) <= c /\ Cardinality(Below(x)) # c
    BY <1>1, <2>1, FS_Subset
  <2> QED BY <1>2, <1>3, <2>2
<1>5. \A x, y \in S : <<x, y>> \in before => Cardinality(Below(x)) < Cardinality(Below(y))
  <2> SUFFICES ASSUME NEW x \in S, NEW y \in S, <<x, y>> \in before
               PROVE  Cardinality(Below(x)) < Cardinality(Below(y))
    OBVIOUS
  <2>1. Below(x) \in SUBSET Below(y) /\ Below(x) # Below(y)
    OBVIOUS
  <2>2. Cardinality(Below(x)) <= Cardinality(Below(y)) /\ Cardinality(Below(x)) # Cardinality(Below(y))
    BY <1>3, <2>1, FS_Subset
  <2> QED BY <1>3, <2>2
<1> HIDE DEF Below
<1>6. PICK place : place = [x \in S |-> Cardinality(Below(x)) + 1]
  OBVIOUS
<1>7. place \in [S -> 1 .. c]
  <2>1. \A x \in S : Cardinality(Below(x)) + 1 \in 1 .. c
    BY <1>2, <1>3, <1>4
  <2> QED BY <1>6, <2>1
<1>8. \A x, y \in S : place[x] = place[y] => x = y
  <2> SUFFICES ASSUME NEW x \in S, NEW y \in S, x # y PROVE place[x] # place[y]
    OBVIOUS
  <2>1. Cardinality(Below(x)) # Cardinality(Below(y))
    <3>1. Cardinality(Below(x)) \in Nat /\ Cardinality(Below(y)) \in Nat
      BY <1>3
    <3>2. Cardinality(Below(x)) < Cardinality(Below(y)) \/ Cardinality(Below(y)) < Cardinality(Below(x))
      BY <1>5
    <3> QED BY <3>1, <3>2
  <2> QED BY <1>3, <1>6, <2>1
<1>9. place \in Injection(S, 1 .. c)
  BY <1>7, <1>8 DEF Injection, IsInjective
<1>10. place \in Surjection(S, 1 .. c)
  <2>1. IsFiniteSet(1 .. c) /\ Cardinality(1 .. c) = c
    BY <1>2, FS_Interval
  <2> QED BY <1>1, <1>9, <2>1, FS_Injection
<1>11. PICK list : list = InOrder(S, before)
  OBVIOUS
<1>12. \A i \in 1 .. c : list[i] \in S /\ place[list[i]] = i
  <2> SUFFICES ASSUME NEW i \in 1 .. c PROVE list[i] \in S /\ place[list[i]] = i
    OBVIOUS
  <2>1. PICK x \in S : place[x] = i
    BY <1>10 DEF Surjection
  <2>2. Cardinality(Below(x)) = i - 1
    BY <1>3, <1>6, <2>1
  <2>3. list[i] = CHOOSE y \in S : Cardinality(Below(y)) = i - 1
    BY <1>1, <1>11, Zenon DEF InOrder, Below
  <2>4. list[i] \in S /\ Cardinality(Below(list[i])) = i - 1
    BY <2>2, <2>3, Zenon
  <2> QED BY <1>6, <2>4
<1>13. list = [i \in 1 .. c |-> list[i]]
  <2> DEFINE At(i) == CHOOSE x \in S : Cardinality({y \in S : <<y, x>> \in before}) = i - 1
  <2>1. list = [i \in 1 .. c |-> At(i)]
    BY <1>1, <1>11, Zenon DEF InOrder
  <2> HIDE DEF At
  <2> QED BY <2>1
<1>14. list \in [1 .. c -> S]
  BY <1>12, <1>13
<1>15. \A i, k \in 1 .. c : list[i] = list[k] => i = k
  BY <1>12
<1>16. \A x \in S : \E i \in 1 .. c : list[i] = x
  <2> SUFFICES ASSUME NEW x \in S PROVE \E i \in 1 .. c : list[i] = x
    OBVIOUS
  <2>1. place[x] \in 1 .. c
    BY <1>7
  <2>2. list[place[x]] = x
    BY <1>8, <1>12, <2>1
  <2> QED BY <2>1, <2>2
<1>17. list \in Bijection(1 .. c, S)
  BY <1>14, <1>15, <1>16 DEF Bijection, Injection, Surjection, IsInjective
<1> QED BY <1>2, <1>11, <1>17 DEF Lists

\* What is kept of a list of records lists the records that are kept.
LEMMA UnmountedLists ==
  ASSUME NEW S, Lists(mounts, S), NEW records
  PROVE  Lists(Unmounted(records), S \ records)
<1>1. PICK n \in Nat : mounts \in Bijection(1 .. n, S)
  BY DEF Lists
<1>2. PICK list : list = mounts
  OBVIOUS
<1>3. /\ list \in [1 .. n -> S]
      /\ \A x \in S : \E i \in 1 .. n : list[i] = x
      /\ \A i, k \in 1 .. n : list[i] = list[k] => i = k
  BY <1>1, <1>2 DEF Bijection, Injection, Surjection, IsInjective
<1> DEFINE kept == {i \in 1 .. n : list[i] \notin records}
           pairs == {p \in kept \X kept : p[1] < p[2]}
<1>4. PICK order : order = InOrder(kept, pairs)
  OBVIOUS
<1>5. Lists(order, kept)
  <2>1. IsFiniteSet(kept)
    <3>1. 1 \in Int /\ n \in Int /\ kept \in SUBSET (1 .. n)
      OBVIOUS
    <3>2. IsFiniteSet(1 .. n)
      BY <3>1, FS_Interval
    <3> HIDE DEF kept
    <3> QED BY <3>1, <3>2, FS_Subset
  <2>2. \A x, y \in kept : <<x, y>> \in pairs <=> x < y
    OBVIOUS
  <2>3. \A x \in kept : x \in Nat
    OBVIOUS
  <2> HIDE DEF pairs, kept
  <2> QED BY <1>4, <2>1, <2>2, <2>3, InOrderLists
<1>6. PICK m \in Nat : order \in Bijection(1 .. m, kept)
  BY <1>5 DEF Lists
<1>7. /\ order \in [1 .. m -> kept]
      /\ \A x \in kept : \E i \in 1 .. m : order[i] = x
      /\ \A i, k \in 1 .. m : order[i] = order[k] => i = k
  BY <1>6 DEF Bijection, Injection, Surjection, IsInjective
<1>8. PICK rest : rest = [i \in DOMAIN order |-> list[order[i]]]
  OBVIOUS
<1>9. rest = Unmounted(records)
  <2>1. DOMAIN mounts = 1 .. n
    BY <1>2, <1>3
  <2> QED BY <1>2, <1>4, <1>8, <2>1 DEF Unmounted
<1>10. \A i \in kept : i \in 1 .. n /\ list[i] \in S \ records
  BY <1>3
<1>11. \A x \in S \ records : \E i \in kept : list[i] = x
  BY <1>3
<1> HIDE DEF kept
<1>12. /\ rest \in [1 .. m -> S \ records]
       /\ \A x \in S \ records : \E i \in 1 .. m : rest[i] = x
       /\ \A i, k \in 1 .. m : rest[i] = rest[k] => i = k
  <2>1. rest = [i \in 1 .. m |-> list[order[i]]]
    BY <1>7, <1>8
  <2>2. \A i \in 1 .. m : order[i] \in kept
    BY <1>7
  <2>3. rest \in [1 .. m -> S \ records]
    BY <1>10, <2>1, <2>2
  <2>4. \A x \in S \ records : \E i \in 1 .. m : rest[i] = x
    BY <1>7, <1>11, <2>1
  <2>5. \A i, k \in 1 .. m : rest[i] = rest[k] => i = k
    BY <1>3, <1>7, <1>10, <2>1, <2>2
  <2> QED BY <2>3, <2>4, <2>5
<1>13. rest \in Bijection(1 .. m, S \ records)
  BY <1>12 DEF Bijection, Injection, Surjection, IsInjective
<1> QED BY <1>9, <1>13 DEF Lists

\* A list with one more at its end.
LEMMA AppendLists ==
  ASSUME NEW S, NEW list, Lists(list, S), NEW x, x \notin S
  PROVE  Lists(Append(list, x), S \cup {x})
<1>1. PICK n \in Nat : list \in Bijection(1 .. n, S)
  BY DEF Lists
<1>2. /\ list \in [1 .. n -> S]
      /\ \A y \in S : \E i \in 1 .. n : list[i] = y
      /\ \A i, k \in 1 .. n : list[i] = list[k] => i = k
  BY <1>1 DEF Bijection, Injection, Surjection, IsInjective
<1>3. list \in Seq(S) /\ Len(list) = n
  BY <1>2, FunctionIsSequence
<1>4. PICK longer : longer = Append(list, x)
  OBVIOUS
<1>5. /\ DOMAIN longer = 1 .. n + 1 /\ longer[n + 1] = x
      /\ \A i \in 1 .. n : longer[i] = list[i]
      /\ longer \in Seq(S \cup {x})
  <2>1. list \in Seq(S \cup {x})
    BY <1>2
  <2>2. longer \in Seq(S \cup {x}) /\ Len(longer) = n + 1 /\ longer[n + 1] = x
        /\ \A i \in 1 .. n : longer[i] = list[i]
    BY <1>3, <1>4, <2>1, AppendProperties
  <2>3. DOMAIN longer = 1 .. n + 1
    BY <2>2, LenProperties
  <2> QED BY <2>2, <2>3
<1>6. longer \in [1 .. n + 1 -> S \cup {x}]
  <2>1. \A i \in 1 .. n + 1 : i = n + 1 \/ i \in 1 .. n
    OBVIOUS
  <2>2. \A i \in 1 .. n + 1 : longer[i] \in S \cup {x}
    BY <1>2, <1>5, <2>1
  <2>3. longer = [i \in 1 .. n + 1 |-> longer[i]]
    BY <1>5, LenProperties
  <2> QED BY <2>2, <2>3
<1>7. \A y \in S \cup {x} : \E i \in 1 .. n + 1 : longer[i] = y
  <2>1. n + 1 \in 1 .. n + 1 /\ \A i \in 1 .. n : i \in 1 .. n + 1
    OBVIOUS
  <2> QED BY <1>2, <1>5, <2>1
<1>8. \A i, k \in 1 .. n + 1 : longer[i] = longer[k] => i = k
  <2>1. \A i \in 1 .. n + 1 : i = n + 1 \/ i \in 1 .. n
    OBVIOUS
  <2>2. \A i \in 1 .. n : longer[i] # x
    BY <1>2, <1>5
  <2> QED BY <1>2, <1>5, <2>1, <2>2
<1>9. longer \in Bijection(1 .. n + 1, S \cup {x})
  BY <1>6, <1>7, <1>8 DEF Bijection, Injection, Surjection, IsInjective
<1> QED BY <1>4, <1>9 DEF Lists

\* The table: every record has an id of its own, and none overlaps another.
TableInv ==
  /\ seq \in Nat
  /\ IsFiniteSet(routes)
  /\ \A r \in routes : {"id", "path", "methods", "kind"} \subseteq DOMAIN r /\ r.id \in 1 .. seq
  /\ \A r, s \in routes : r # s => r.id # s.id /\ ~Overlaps(r, s)
  /\ unserved \subseteq 1 .. seq
  /\ ~Attached => unserved = {}

\* The application has the records of the table that it is to have, each of them
\* once.
MountsInv == Attached => Lists(mounts, Served)
TableOK == TableInv /\ MountsInv

\* The ids that are in some table.
Shown == Ids(routes) \cup Ids(hooks) \cup Ids(verifiers)

\* An effect is that of one plugin, and is there unless something displaced it.
EffectsInv ==
  /\ loaded \subseteq Plugins
  /\ effects = [p \in Plugins |-> effects[p]]
  /\ \A p \in Plugins : effects[p] \subseteq 1 .. seq
  /\ \A p, q \in Plugins : p # q => effects[p] \cap effects[q] = {}
  /\ \A p \in loaded : effects[p] \ displaced \subseteq Shown

\* What a start mounts, static directories behind the rest.
LEMMA StartLists ==
  ASSUME TableInv
  PROVE  Lists(InOrder(routes, {p \in routes \X routes : Earlier(p[1], p[2])}), routes)
<1>1. PICK R : R = routes
  OBVIOUS
<1> DEFINE pairs == {p \in R \X R : Earlier(p[1], p[2])}
<1>2. \A x, y \in R : <<x, y>> \in pairs <=> Earlier(x, y)
  OBVIOUS
<1>3. \A x \in R : x.id \in Nat
  BY <1>1 DEF TableInv
<1>4. \A x, y \in R : x # y => x.id # y.id
  BY <1>1 DEF TableInv
<1>5. \A x \in R : ~Earlier(x, x)
  BY <1>3 DEF Earlier
<1>6. \A x, y, z \in R : Earlier(x, y) /\ Earlier(y, z) => Earlier(x, z)
  <2> SUFFICES ASSUME NEW x \in R, NEW y \in R, NEW z \in R, Earlier(x, y), Earlier(y, z) PROVE Earlier(x, z)
    OBVIOUS
  <2>1. x.id \in Nat /\ y.id \in Nat /\ z.id \in Nat
    BY <1>3
  <2>2. Static(x) \in BOOLEAN /\ Static(y) \in BOOLEAN /\ Static(z) \in BOOLEAN
    BY DEF Static
  <2> QED BY <2>1, <2>2 DEF Earlier
<1>7. \A x, y \in R : x # y => Earlier(x, y) \/ Earlier(y, x)
  <2> SUFFICES ASSUME NEW x \in R, NEW y \in R, x # y PROVE Earlier(x, y) \/ Earlier(y, x)
    OBVIOUS
  <2>1. x.id \in Nat /\ y.id \in Nat /\ x.id # y.id
    BY <1>3, <1>4
  <2>2. Static(x) \in BOOLEAN /\ Static(y) \in BOOLEAN
    BY DEF Static
  <2> QED BY <2>1, <2>2 DEF Earlier
<1>8. IsFiniteSet(R)
  BY <1>1 DEF TableInv
<1> HIDE DEF pairs
<1>9. Lists(InOrder(R, pairs), R)
  BY <1>2, <1>5, <1>6, <1>7, <1>8, InOrderLists
<1> QED BY <1>1, <1>9 DEF pairs

\* Records leave the table and the application.
LEMMA RecordsLeave ==
  ASSUME TableOK, NEW gone, routes' = routes \ gone, mounts' = Unmounted(gone), server' = server,
         unserved' = unserved, seq' \in Nat, seq <= seq'
  PROVE  TableOK'
<1>1. PICK R : R = routes
  OBVIOUS
<1>2. IsFiniteSet(routes')
  BY <1>1, FS_Subset DEF TableOK, TableInv
<1>3. \A r \in R : r.id \in 1 .. seq'
  BY <1>1 DEF TableOK, TableInv
<1>4. TableInv'
  <2>1. unserved' \subseteq 1 .. seq' /\ (~Attached' => unserved' = {})
    BY DEF TableOK, TableInv, Attached
  <2> QED BY <1>1, <1>2, <1>3, <2>1 DEF TableOK, TableInv, Overlaps, Static
<1>5. MountsInv'
  <2> SUFFICES ASSUME Attached PROVE Lists(mounts', Served')
    BY DEF MountsInv, Attached
  <2>1. PICK S : S = Served
    OBVIOUS
  <2>2. Lists(mounts, S)
    BY <2>1 DEF TableOK, MountsInv
  <2>3. Lists(Unmounted(gone), S \ gone)
    BY <2>2, UnmountedLists
  <2>4. Served' = S \ gone
    BY <1>1, <2>1 DEF Served
  <2> QED BY <2>3, <2>4
<1> QED BY <1>4, <1>5 DEF TableOK

\* Steps that touch neither the table nor the application.
LEMMA TableStays ==
  ASSUME TableOK, routes' = routes, mounts' = mounts, (server' # "down") = (server # "down"),
         unserved' = unserved, seq' \in Nat, seq <= seq'
  PROVE  TableOK'
<1>1. \A r \in routes : r.id \in 1 .. seq'
  BY DEF TableOK, TableInv
<1>2. unserved' \subseteq 1 .. seq' /\ (~Attached' => unserved' = {})
  BY DEF TableOK, TableInv, Attached
<1>3. TableInv'
  BY <1>1, <1>2 DEF TableOK, TableInv, Overlaps, Static
<1>4. Served' = Served
  BY DEF Served
<1> QED BY <1>3, <1>4 DEF TableOK, MountsInv, Attached

\* A new record makes those it overlaps with make way, whether or not it is
\* mounted itself.
LEMMA RecordAdded ==
  ASSUME TableOK, NEW offer, NEW record, NEW kept, seq' = seq + 1,
         record.id = seq', record.path = offer.path, record.methods = offer.methods, record.kind = offer.kind,
         {"id", "path", "methods", "kind"} \subseteq DOMAIN record,
         kept = routes \ {r \in routes : Overlaps(r, offer)}, routes' = kept \cup {record}
  PROVE  /\ \A r \in kept : r.id # record.id /\ r # record
         /\ record.id \notin unserved /\ unserved \cup {record.id} \subseteq 1 .. seq'
         /\ (unserved' \subseteq 1 .. seq' /\ (~Attached' => unserved' = {})) => TableInv'
<1>1. seq \in Nat
  BY DEF TableOK, TableInv
<1>2. \A r \in kept : ~Overlaps(r, record) /\ ~Overlaps(record, r)
  BY DEF Overlaps, Static
<1>3. /\ \A r \in kept : {"id", "path", "methods", "kind"} \subseteq DOMAIN r /\ r.id \in 1 .. seq
      /\ \A r, s \in kept : r # s => r.id # s.id /\ ~Overlaps(r, s)
      /\ IsFiniteSet(kept)
  BY FS_Subset DEF TableOK, TableInv
<1>4. IsFiniteSet(routes')
  BY <1>3, FS_AddElement
<1>5. \A r \in kept : r.id # record.id /\ r # record
  BY <1>1, <1>3
<1>6. \A r \in routes' : {"id", "path", "methods", "kind"} \subseteq DOMAIN r /\ r.id \in 1 .. seq'
  BY <1>1, <1>3
<1>7. \A r, s \in routes' : r # s => r.id # s.id /\ ~Overlaps(r, s)
  BY <1>2, <1>3, <1>5
<1>8. record.id \notin unserved /\ unserved \cup {record.id} \subseteq 1 .. seq'
  <2>1. unserved \subseteq 1 .. seq
    BY DEF TableOK, TableInv
  <2> QED BY <1>1, <2>1
<1>9. (unserved' \subseteq 1 .. seq' /\ (~Attached' => unserved' = {})) => TableInv'
  BY <1>1, <1>4, <1>6, <1>7 DEF TableInv, Overlaps, Static
<1> QED BY <1>5, <1>8, <1>9

\* What stays mounted when records make way.
LEMMA KeptMounted ==
  ASSUME TableOK, Attached, NEW old, NEW kept, kept = routes \ old
  PROVE  Lists(Unmounted(old), {r \in kept : r.id \notin unserved})
<1>1. PICK S : S = Served
  OBVIOUS
<1>2. Lists(mounts, S)
  BY <1>1 DEF TableOK, MountsInv
<1>3. Lists(Unmounted(old), S \ old)
  BY <1>2, UnmountedLists
<1>4. S \ old = {r \in kept : r.id \notin unserved}
  BY <1>1 DEF Served
<1> QED BY <1>3, <1>4

\* A record is registered, and mounted if there is an application.
LEMMA RegisterRight ==
  ASSUME TableOK, NEW p \in Plugins, NEW offer \in Offers, Register(p, offer)
  PROVE  TableOK'
<1>1. PICK record : record = [id |-> seq', path |-> offer.path, methods |-> offer.methods,
                              kind |-> offer.kind, owner |-> p]
  OBVIOUS
<1>2. PICK old : old = {r \in routes : Overlaps(r, offer)}
  OBVIOUS
<1>3. PICK kept : kept = routes \ old
  OBVIOUS
<1>4. /\ routes' = kept \cup {record} /\ server' = server /\ seq' = seq + 1 /\ unserved' = unserved
      /\ mounts' = IF Attached THEN Append(Unmounted(old), record) ELSE mounts
  BY <1>1, <1>2, <1>3 DEF Register, Op
<1>5. /\ record.id = seq' /\ record.path = offer.path /\ record.methods = offer.methods
      /\ record.kind = offer.kind /\ {"id", "path", "methods", "kind"} \subseteq DOMAIN record
  BY <1>1
<1>6. TableInv' /\ record \notin kept /\ Served' = {r \in kept : r.id \notin unserved} \cup {record}
  <2>1. kept = routes \ {r \in routes : Overlaps(r, offer)}
    BY <1>2, <1>3
  <2>2. /\ \A r \in kept : r.id # record.id /\ r # record
        /\ record.id \notin unserved /\ unserved \cup {record.id} \subseteq 1 .. seq'
        /\ (unserved' \subseteq 1 .. seq' /\ (~Attached' => unserved' = {})) => TableInv'
    BY <1>4, <1>5, <2>1, RecordAdded
  <2>3. unserved' \subseteq 1 .. seq' /\ (~Attached' => unserved' = {})
    BY <1>4, <2>2 DEF TableOK, TableInv, Attached
  <2>4. Served' = {r \in kept : r.id \notin unserved} \cup {record}
    BY <1>4, <2>2 DEF Served
  <2> QED BY <2>2, <2>3, <2>4
<1>7. MountsInv'
  <2> SUFFICES ASSUME Attached PROVE Lists(mounts', Served')
    BY <1>4 DEF MountsInv, Attached
  <2>1. PICK list : list = Unmounted(old)
    OBVIOUS
  <2>2. PICK S : S = {r \in kept : r.id \notin unserved}
    OBVIOUS
  <2>3. Lists(list, S)
    BY <1>3, <2>1, <2>2, KeptMounted
  <2>4. Lists(Append(list, record), S \cup {record})
    BY <1>6, <2>2, <2>3, AppendLists
  <2> QED BY <1>4, <1>6, <2>1, <2>2, <2>4
<1> QED BY <1>6, <1>7 DEF TableOK

\* Its directory is missing: it is registered and nothing is mounted for it.
LEMMA RegisterFailsRight ==
  ASSUME TableOK, NEW p \in Plugins, NEW offer \in Offers, RegisterFails(p, offer)
  PROVE  TableOK'
<1>1. PICK record : record = [id |-> seq', path |-> offer.path, methods |-> offer.methods,
                              kind |-> offer.kind, owner |-> p]
  OBVIOUS
<1>2. PICK old : old = {r \in routes : Overlaps(r, offer)}
  OBVIOUS
<1>3. PICK kept : kept = routes \ old
  OBVIOUS
<1>4. /\ record.id = seq' /\ record.path = offer.path /\ record.methods = offer.methods
      /\ record.kind = offer.kind /\ {"id", "path", "methods", "kind"} \subseteq DOMAIN record
  BY <1>1
<1>5. /\ routes' = kept \cup {record} /\ server' = server /\ seq' = seq + 1 /\ Attached
      /\ unserved' = unserved \cup {record.id} /\ mounts' = Unmounted(old)
  BY <1>1, <1>2, <1>3 DEF RegisterFails, Op
<1>6. TableInv' /\ Served' = {r \in kept : r.id \notin unserved}
  <2>1. kept = routes \ {r \in routes : Overlaps(r, offer)}
    BY <1>2, <1>3
  <2>2. /\ \A r \in kept : r.id # record.id /\ r # record
        /\ record.id \notin unserved /\ unserved \cup {record.id} \subseteq 1 .. seq'
        /\ (unserved' \subseteq 1 .. seq' /\ (~Attached' => unserved' = {})) => TableInv'
    BY <1>4, <1>5, <2>1, RecordAdded
  <2>3. unserved' \subseteq 1 .. seq' /\ (~Attached' => unserved' = {})
    BY <1>5, <2>2 DEF Attached
  <2>4. Served' = {r \in kept : r.id \notin unserved}
    BY <1>5, <2>2 DEF Served
  <2> QED BY <2>2, <2>3, <2>4
<1>7. MountsInv'
  BY <1>3, <1>5, <1>6, KeptMounted DEF MountsInv
<1> QED BY <1>6, <1>7 DEF TableOK

\* Empty at first.
LEMMA TableStarts == Init => TableOK
BY FS_EmptySet DEF Init, TableOK, TableInv, MountsInv, Attached

\* Ids grow.
LEMMA OpCounts == ASSUME seq \in Nat, Op PROVE seq' \in Nat /\ seq <= seq'
BY DEF Op

\* Every step keeps the table and the application right.
LEMMA TableMoves == TableOK /\ [Next]_vars => TableOK'
<1> SUFFICES ASSUME TableOK, [Next]_vars PROVE TableOK'
  OBVIOUS
<1>0. seq \in Nat /\ seq <= seq
  BY DEF TableOK, TableInv
<1>1. CASE UNCHANGED vars
  BY <1>0, <1>1, TableStays DEF vars
<1>2. ASSUME NEW p \in Plugins, Load(p) \/ Unload(p) PROVE TableOK'
  BY <1>0, <1>2, TableStays, OpCounts DEF Load, Unload
<1>3. ASSUME NEW p \in Plugins, NEW offer \in Offers, Register(p, offer) PROVE TableOK'
  BY <1>3, RegisterRight
<1>13. ASSUME NEW p \in Plugins, NEW offer \in Offers, RegisterFails(p, offer) PROVE TableOK'
  BY <1>13, RegisterFailsRight
<1>4. ASSUME NEW p \in Plugins, NEW kind \in HookKinds, Use(p, kind) PROVE TableOK'
  BY <1>0, <1>4, TableStays, OpCounts DEF Use
<1>5. ASSUME NEW p \in Plugins, NEW name \in DOMAIN Verifiers, AddVerifier(p, name, 100) \/ SetVerifier(p, name)
      PROVE  TableOK'
  BY <1>0, <1>5, TableStays, OpCounts DEF AddVerifier, SetVerifier
<1>6. ASSUME NEW p \in Plugins, NEW id \in effects[p], Undo(p, id) PROVE TableOK'
  <2>1. PICK gone : gone = Mine(id)
    OBVIOUS
  <2> QED BY <1>0, <1>6, <2>1, RecordsLeave DEF Undo
<1>7. ASSUME NEW offer \in Offers, RemovePath(offer.path) PROVE TableOK'
  <2>1. PICK gone : gone = {r \in routes : r.path = offer.path}
    OBVIOUS
  <2> QED BY <1>0, <1>7, <2>1, RecordsLeave, OpCounts DEF RemovePath
<1>8. CASE Start
  <2>1. seq' \in Nat /\ seq <= seq'
    BY <1>0, <1>8, OpCounts DEF Start
  <2>2. PICK R : R = routes
    OBVIOUS
  <2>3. routes' = routes /\ \A r \in R : r.id \in 1 .. seq'
    BY <1>8, <2>1, <2>2 DEF TableOK, TableInv, Start
  <2>4. unserved' = {} /\ Served' = routes
    BY <1>8 DEF TableOK, TableInv, Start, Attached, Served
  <2>5. TableInv'
    BY <2>1, <2>2, <2>3, <2>4 DEF TableOK, TableInv, Overlaps, Static
  <2>6. Lists(mounts', routes)
    BY <1>8, StartLists DEF TableOK, Start
  <2> QED BY <2>4, <2>5, <2>6 DEF TableOK, MountsInv
<1>9. CASE Started \/ Stop
  BY <1>0, <1>9, TableStays, OpCounts DEF Started, Stop
<1>10. CASE StartFails \/ Stopped
  <2>1. seq' \in Nat
    BY <1>0, <1>10, OpCounts DEF StartFails, Stopped
  <2> QED BY <1>10, <2>1, FS_EmptySet DEF StartFails, Stopped, Disposed, TableOK, TableInv, MountsInv, Attached
<1>11. ASSUME NEW q \in Requests, NEW caller \in Callers, NEW offer \in Offers, NEW method \in {"GET", "PUT"},
              Arrive(q, caller, offer.path, method)
       PROVE  TableOK'
  BY <1>0, <1>11, TableStays, OpCounts DEF Arrive
<1>12. ASSUME NEW q \in Requests, HookStep(q) \/ HandlerStep(q) \/ Cancel(q) PROVE TableOK'
  BY <1>0, <1>12, TableStays DEF HookStep, HandlerStep, Cancel, Goes
<1> QED BY <1>1, <1>2, <1>3, <1>4, <1>5, <1>6, <1>7, <1>8, <1>9, <1>10, <1>11, <1>12, <1>13, Zenon DEF Next

-----------------------------------------------------------------------------
(* What plugins have registered: their effects *)

EffectsOK == seq \in Nat /\ EffectsInv

\* No effects at first.
LEMMA EffectsStart == Init => EffectsOK
BY DEF Init, EffectsOK, EffectsInv

\* Nothing that is shown goes but what is displaced.
LEMMA EffectsStay ==
  ASSUME EffectsOK, seq' \in Nat, seq <= seq', effects' = effects, loaded' \subseteq loaded,
         displaced \subseteq displaced', Shown \subseteq Shown' \cup displaced'
  PROVE  EffectsOK'
<1>1. \A p \in Plugins : effects[p] \subseteq 1 .. seq'
  <2>1. 1 .. seq \subseteq 1 .. seq'
    BY DEF EffectsOK
  <2> QED BY <2>1 DEF EffectsOK, EffectsInv
<1>2. \A p \in loaded' : effects[p] \ displaced' \subseteq Shown'
  BY DEF EffectsOK, EffectsInv
<1> QED BY <1>1, <1>2 DEF EffectsOK, EffectsInv

\* A plugin has one more effect, which is shown.
LEMMA EffectAdded ==
  ASSUME EffectsOK, NEW p \in Plugins, seq' = seq + 1, effects' = [effects EXCEPT ![p] = @ \cup {seq'}],
         loaded' = loaded, displaced \subseteq displaced', Shown \subseteq Shown' \cup displaced', seq' \in Shown'
  PROVE  EffectsOK'
<1>1. PICK next : next = seq'
  OBVIOUS
<1>2. seq \in Nat /\ next = seq + 1 /\ next \notin 1 .. seq /\ next \in 1 .. next /\ 1 .. seq \subseteq 1 .. next
  BY <1>1 DEF EffectsOK
<1>3. \A q \in Plugins : effects'[q] = IF q = p THEN effects[q] \cup {next} ELSE effects[q]
  BY <1>1 DEF EffectsOK, EffectsInv
<1>4. effects' = [q \in Plugins |-> effects'[q]]
  BY DEF EffectsOK, EffectsInv
<1>5. \A q \in Plugins : effects'[q] \subseteq 1 .. next
  BY <1>2, <1>3 DEF EffectsOK, EffectsInv
<1>6. \A q, r \in Plugins : q # r => effects'[q] \cap effects'[r] = {}
  <2>1. \A q \in Plugins : next \notin effects[q]
    BY <1>2 DEF EffectsOK, EffectsInv
  <2> QED BY <1>3, <2>1 DEF EffectsOK, EffectsInv
<1>7. \A q \in loaded : effects'[q] \ displaced' \subseteq Shown'
  <2>1. next \in Shown' /\ \A q \in loaded : q \in Plugins /\ effects[q] \ displaced \subseteq Shown
    BY <1>1 DEF EffectsOK, EffectsInv
  <2> SUFFICES ASSUME NEW q \in loaded, NEW x \in effects'[q], x \notin displaced' PROVE x \in Shown'
    OBVIOUS
  <2>2. x = next \/ x \in effects[q]
    <3>1. PICK of : of = effects'[q]
      OBVIOUS
    <3>2. of = IF q = p THEN effects[q] \cup {next} ELSE effects[q]
      BY <1>3, <2>1, <3>1, Zenon
    <3> QED BY <3>1, <3>2
  <2> QED BY <2>1, <2>2
<1>8. seq' \in Nat /\ loaded' \subseteq Plugins
  BY <1>1, <1>2 DEF EffectsOK, EffectsInv
<1> QED BY <1>1, <1>4, <1>5, <1>6, <1>7, <1>8 DEF EffectsOK, EffectsInv

\* Every step keeps the effects right.
LEMMA EffectsMove == EffectsOK /\ [Next]_vars => EffectsOK'
<1> SUFFICES ASSUME EffectsOK, [Next]_vars PROVE EffectsOK'
  OBVIOUS
<1>0. seq \in Nat /\ seq <= seq
  BY DEF EffectsOK
<1>1. CASE UNCHANGED vars
  BY <1>0, <1>1, EffectsStay DEF vars, Shown, Ids
<1>2. ASSUME NEW p \in Plugins, Load(p) PROVE EffectsOK'
  <2>1. loaded' = loaded \cup {p} /\ effects[p] = {}
    BY <1>2 DEF Load
  <2>2. \A q \in loaded' : effects[q] \ displaced \subseteq Shown
    BY <2>1 DEF EffectsOK, EffectsInv
  <2>3. seq' \in Nat /\ seq <= seq'
    BY <1>0, <1>2, OpCounts DEF Load
  <2>4. 1 .. seq \subseteq 1 .. seq'
    BY <1>0, <2>3
  <2>5. effects' = effects /\ displaced' = displaced /\ Shown' = Shown
    BY <1>2 DEF Load, Shown, Ids
  <2>6. \A q \in Plugins : effects[q] \subseteq 1 .. seq'
    BY <2>4 DEF EffectsOK, EffectsInv
  <2> QED BY <2>1, <2>2, <2>3, <2>5, <2>6 DEF EffectsOK, EffectsInv
<1>3. ASSUME NEW p \in Plugins, Unload(p) PROVE EffectsOK'
  BY <1>0, <1>3, EffectsStay DEF Unload, Shown, Ids
<1>4. ASSUME NEW p \in Plugins, NEW offer \in Offers, Register(p, offer) PROVE EffectsOK'
  <2>1. PICK record : record = [id |-> seq', path |-> offer.path, methods |-> offer.methods,
                                kind |-> offer.kind, owner |-> p]
    OBVIOUS
  <2>2. record.id = seq'
    BY <2>1
  <2>3. PICK old : old = {r \in routes : Overlaps(r, offer)}
    OBVIOUS
  <2>4. /\ routes' = (routes \ old) \cup {record} /\ displaced' = displaced \cup Ids(old)
        /\ effects' = [effects EXCEPT ![p] = @ \cup {seq'}] /\ seq' = seq + 1 /\ loaded' = loaded
        /\ hooks' = hooks /\ verifiers' = verifiers
    BY <1>4, <2>1, <2>2, <2>3 DEF Register, Op
  <2>5. Shown \subseteq Shown' \cup displaced' /\ seq' \in Shown'
    BY <2>2, <2>4 DEF Shown, Ids
  <2>6. displaced \subseteq displaced'
    BY <2>4
  <2> QED BY <2>4, <2>5, <2>6, EffectAdded
<1>14. ASSUME NEW p \in Plugins, NEW offer \in Offers, RegisterFails(p, offer) PROVE EffectsOK'
  <2>1. PICK old : old = {r \in routes : Overlaps(r, offer)}
    OBVIOUS
  <2>2. /\ routes \ old \subseteq routes' /\ displaced' = displaced \cup Ids(old)
        /\ hooks' = hooks /\ verifiers' = verifiers /\ effects' = effects /\ loaded' = loaded /\ Op
    BY <1>14, <2>1 DEF RegisterFails
  <2>3. Shown \subseteq Shown' \cup displaced' /\ displaced \subseteq displaced'
    BY <2>2 DEF Shown, Ids
  <2> QED BY <1>0, <2>2, <2>3, OpCounts, EffectsStay
<1>5. ASSUME NEW p \in Plugins, NEW kind \in HookKinds, Use(p, kind) PROVE EffectsOK'
  <2>1. PICK hook : hook = [id |-> seq', owner |-> p, phase |-> kind.phase, order |-> kind.order,
                            onerror |-> kind.onerror, kinds |-> kind.kinds]
    OBVIOUS
  <2>2. hook.id = seq'
    BY <2>1
  <2>3. /\ hooks' = hooks \cup {hook} /\ displaced' = displaced /\ routes' = routes /\ verifiers' = verifiers
        /\ effects' = [effects EXCEPT ![p] = @ \cup {seq'}] /\ seq' = seq + 1 /\ loaded' = loaded
    BY <1>5, <2>1 DEF Use, Op
  <2>4. Shown \subseteq Shown' \cup displaced' /\ seq' \in Shown' /\ displaced \subseteq displaced'
    BY <2>2, <2>3 DEF Shown, Ids
  <2> QED BY <2>3, <2>4, EffectAdded
<1>6. ASSUME NEW p \in Plugins, NEW name \in DOMAIN Verifiers, AddVerifier(p, name, 100) PROVE EffectsOK'
  <2>1. PICK verifier : verifier = [id |-> seq', order |-> 100, name |-> name]
    OBVIOUS
  <2>2. verifier.id = seq'
    BY <2>1
  <2>3. /\ verifiers' = verifiers \cup {verifier} /\ displaced' = displaced /\ routes' = routes /\ hooks' = hooks
        /\ effects' = [effects EXCEPT ![p] = @ \cup {seq'}] /\ seq' = seq + 1 /\ loaded' = loaded
    BY <1>6, <2>1 DEF AddVerifier, Op
  <2>4. Shown \subseteq Shown' \cup displaced' /\ seq' \in Shown' /\ displaced \subseteq displaced'
    BY <2>2, <2>3 DEF Shown, Ids
  <2> QED BY <2>3, <2>4, EffectAdded
<1>7. ASSUME NEW p \in Plugins, NEW name \in DOMAIN Verifiers, SetVerifier(p, name) PROVE EffectsOK'
  <2>1. Shown \subseteq Shown' \cup displaced' /\ displaced \subseteq displaced'
    BY <1>7 DEF SetVerifier, Shown, Ids
  <2> QED BY <1>0, <1>7, <2>1, OpCounts, EffectsStay DEF SetVerifier
<1>8. ASSUME NEW p \in Plugins, NEW id \in effects[p], Undo(p, id) PROVE EffectsOK'
  <2>1. \A q \in Plugins : effects'[q] = IF q = p THEN effects[q] \ {id} ELSE effects[q]
    BY <1>8 DEF EffectsOK, EffectsInv, Undo
  <2>2. effects' = [q \in Plugins |-> effects'[q]]
    BY <1>8 DEF EffectsOK, EffectsInv, Undo
  <2>3. Shown \subseteq Shown' \cup {id}
    BY <1>8 DEF Undo, Mine, Shown, Ids
  <2>4. \A q \in loaded : q # p /\ q \in Plugins /\ id \notin effects[q]
    BY <1>8 DEF EffectsOK, EffectsInv, Undo
  <2>5. \A q \in loaded : effects'[q] \ displaced \subseteq Shown'
    BY <2>1, <2>3, <2>4 DEF EffectsOK, EffectsInv
  <2>6. seq' = seq /\ loaded' = loaded /\ displaced' = displaced
    BY <1>8 DEF Undo
  <2>7. \A q \in Plugins : effects'[q] \subseteq 1 .. seq
    BY <2>1 DEF EffectsOK, EffectsInv
  <2>8. \A q, r \in Plugins : q # r => effects'[q] \cap effects'[r] = {}
    BY <2>1 DEF EffectsOK, EffectsInv
  <2> QED BY <2>2, <2>5, <2>6, <2>7, <2>8 DEF EffectsOK, EffectsInv
<1>9. ASSUME NEW offer \in Offers, RemovePath(offer.path) PROVE EffectsOK'
  <2>1. Shown \subseteq Shown' \cup displaced' /\ displaced \subseteq displaced'
    BY <1>9 DEF RemovePath, Shown, Ids
  <2> QED BY <1>0, <1>9, <2>1, OpCounts, EffectsStay DEF RemovePath
<1>10. CASE Start \/ Started \/ Stop
  BY <1>0, <1>10, OpCounts, EffectsStay DEF Start, Started, Stop, Shown, Ids
<1>11. CASE StartFails \/ Stopped
  <2>1. Shown \subseteq Shown' \cup displaced' /\ displaced \subseteq displaced'
    BY <1>11 DEF StartFails, Stopped, Disposed, Shown, Ids
  <2>2. seq' \in Nat /\ seq <= seq'
    BY <1>0, <1>11, OpCounts DEF StartFails, Stopped
  <2> QED BY <1>11, <2>1, <2>2, EffectsStay DEF StartFails, Stopped, Disposed
<1>12. ASSUME NEW q \in Requests, NEW caller \in Callers, NEW offer \in Offers, NEW method \in {"GET", "PUT"},
              Arrive(q, caller, offer.path, method)
       PROVE  EffectsOK'
  <2>1. effects' = effects /\ displaced' = displaced /\ loaded' = loaded /\ Shown' = Shown /\ Op
    BY <1>12 DEF Arrive, Shown, Ids
  <2> QED BY <1>0, <2>1, OpCounts, EffectsStay
<1>13. ASSUME NEW q \in Requests, HookStep(q) \/ HandlerStep(q) \/ Cancel(q) PROVE EffectsOK'
  <2>1. effects' = effects /\ displaced' = displaced /\ loaded' = loaded /\ Shown' = Shown /\ seq' = seq
    BY <1>13 DEF HookStep, HandlerStep, Cancel, Goes, Shown, Ids
  <2> QED BY <1>0, <2>1, EffectsStay
<1> QED BY <1>1, <1>2, <1>3, <1>4, <1>5, <1>6, <1>7, <1>8, <1>9, <1>10, <1>11, <1>12, <1>13, <1>14, Zenon DEF Next

\* For any plugins, routes and number of operations: while an application is
\* attached it serves exactly the registered records but those whose directory was
\* missing, no two of them overlap, and what a loaded plugin registered is there unless something displaced it;
\* the cleanup of one plugin takes nothing of another (RouteRegistry of router.py).
THEOREM ServesAlwaysRegistered == Spec => []ServesRegistered
<1>1. TableOK => /\ Attached => Range(mounts) = Served /\ Len(mounts) = Cardinality(Served)
                 /\ \A r, s \in routes : r # s => ~Overlaps(r, s)
  <2> SUFFICES ASSUME TableOK
               PROVE  /\ Attached => Range(mounts) = Served /\ Len(mounts) = Cardinality(Served)
                      /\ \A r, s \in routes : r # s => ~Overlaps(r, s)
    OBVIOUS
  <2>1. ASSUME Attached PROVE Range(mounts) = Served /\ Len(mounts) = Cardinality(Served)
    <3>1. PICK list : list = mounts
      OBVIOUS
    <3>2. PICK S : S = Served
      OBVIOUS
    <3>3. Lists(list, S)
      BY <2>1, <3>1, <3>2 DEF TableOK, MountsInv
    <3> QED BY <3>1, <3>2, <3>3, ListsAll
  <2> QED BY <2>1 DEF TableOK, TableInv
<1>2. EffectsOK => \A p \in loaded : effects[p] \ displaced \subseteq Ids(routes) \cup Ids(hooks) \cup Ids(verifiers)
  BY DEF EffectsOK, EffectsInv, Shown
<1>3. TableOK /\ EffectsOK => ServesRegistered
  BY <1>1, <1>2, Zenon DEF ServesRegistered
<1> QED BY <1>3, TableStarts, TableMoves, EffectsStart, EffectsMove, PTL DEF Spec

=============================================================================
