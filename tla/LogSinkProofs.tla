---------------------------- MODULE LogSinkProofs ----------------------------
(***************************************************************************)
(* Of LogSink: whatever the limits and whoever asks, no line is missing    *)
(* while no failure is shown, and a request reads what was written.        *)
(***************************************************************************)
EXTENDS LogSink, SequenceTheorems, WellFoundedInduction, TLAPS

\* A line, and where it came from.
Entry == [node : {"own", "peer"}, n : Nat]

\* Nobody writes but who holds the lock, and nothing is taken out but to be written.
LockOK ==
  /\ lock \in Seq(Jobs)
  /\ job \in [Jobs -> {"idle", "waits", "writes", "serves", "over"}]
  /\ batch \in [Jobs -> Seq(SUBSET Entry)]
  /\ \A j \in Jobs : /\ job[j] = "writes" => lock # <<>> /\ Head(lock) = j
                     /\ job[j] = "writes" <=> batch[j] # <<>>
  /\ up => job["stop"] = "idle"

LinesOK ==
  /\ lines \in Nat
  /\ pending \in Seq(Entry)
  /\ Held \subseteq 1 .. lines
  /\ LostIsCounted

\* What a request must see has left the buffer with its own batch, if not before.
AskedOK ==
  /\ asked \in [Jobs -> SUBSET ((1 .. lines) \cap (1 .. LineBound))]
  /\ \A j \in Requests : /\ job[j] = "writes" => asked[j] \cap Numbers(ToSet(pending)) = {}
                         /\ job[j] = "serves" => asked[j] \cap Held = {}

SinkInv == LockOK /\ LinesOK /\ AskedOK

-----------------------------------------------------------------------------
(* Sequences *)

\* The least of some positions is one of them.
LEMMA MinIn ==
  ASSUME NEW I \in SUBSET Nat, I # {}
  PROVE  Min(I) \in I
<1> DEFINE R == {ss \in Nat \X Nat : ss[1] < ss[2]}
<1>1. IsWellFoundedOn(R, Nat)
  BY NatLessThanWellFounded, Zenon DEF OpToRel
<1>2. \A a, b \in Nat : a < b => <<a, b>> \in R
  OBVIOUS
<1> HIDE DEF R
<1>3. PICK x \in I : \A y \in I : <<y, x>> \notin R
  BY <1>1, WFMin, Zenon
<1>4. \A y \in I : x <= y
  <2> SUFFICES ASSUME NEW y \in I, ~(x <= y) PROVE FALSE
    OBVIOUS
  <2>1. <<y, x>> \in R
    BY <1>2
  <2> QED BY <1>3, <2>1
<1> QED BY <1>4 DEF Min

\* One more at the end.
LEMMA OneMore ==
  ASSUME NEW S, NEW s \in Seq(S), NEW e \in S
  PROVE  /\ Append(s, e) \in Seq(S) /\ Append(s, e) # <<>>
         /\ ToSet(Append(s, e)) = ToSet(s) \union {e}
         /\ s # <<>> => Head(Append(s, e)) = Head(s)
<1> DEFINE t == Append(s, e)
<1>1. /\ t \in Seq(S) /\ t # <<>> /\ Len(t) = Len(s) + 1 /\ t[Len(s) + 1] = e
      /\ \A i \in 1 .. Len(s) : t[i] = s[i]
  BY AppendProperties
<1>2. DOMAIN t = 1 .. (Len(s) + 1) /\ DOMAIN s = 1 .. Len(s) /\ Len(s) \in Nat
  BY <1>1, LenProperties
<1>3. s # <<>> => Head(t) = Head(s)
  BY <1>1, <1>2
<1>4. ToSet(t) = ToSet(s) \union {e}
  <2>1. \A x \in ToSet(t) : x \in ToSet(s) \union {e}
    BY <1>1, <1>2 DEF ToSet
  <2>2. \A x \in ToSet(s) : x \in ToSet(t)
    BY <1>1, <1>2 DEF ToSet
  <2>3. e \in ToSet(t)
    BY <1>1, <1>2 DEF ToSet
  <2> QED BY <2>1, <2>2, <2>3
<1> QED BY <1>1, <1>3, <1>4

\* One less at the front.
LEMMA OneLess ==
  ASSUME NEW S, NEW s \in Seq(S), s # <<>>
  PROVE  /\ Head(s) \in S /\ Tail(s) \in Seq(S)
         /\ ToSet(s) = {Head(s)} \union ToSet(Tail(s))
         /\ Tail(s) = <<>> <=> Len(s) = 1
<1> DEFINE t == Tail(s)
<1>1. /\ Head(s) \in S /\ t \in Seq(S) /\ Len(t) = Len(s) - 1
      /\ \A i \in 1 .. Len(t) : t[i] = s[i + 1]
  BY HeadTailProperties
<1>2. DOMAIN s = 1 .. Len(s) /\ Len(s) \in Nat \ {0} /\ Head(s) = s[1]
  BY LenProperties, EmptySeq
<1> HIDE DEF t
<1>a. DOMAIN t = 1 .. Len(t) /\ (t = <<>> <=> Len(t) = 0)
  BY <1>1, LenProperties, EmptySeq
<1>3. ToSet(s) = {Head(s)} \union ToSet(t)
  <2>1. \A x \in ToSet(t) : x \in ToSet(s)
    BY <1>1, <1>2, <1>a DEF ToSet
  <2>2. Head(s) \in ToSet(s)
    BY <1>2 DEF ToSet
  <2>3. ASSUME NEW i \in 1 .. Len(s), i # 1 PROVE s[i] \in ToSet(t)
    <3>1. i - 1 \in 1 .. Len(t) /\ t[i - 1] = s[i]
      BY <1>1, <1>2, <2>3
    <3> QED BY <1>2, <1>a, <3>1 DEF ToSet
  <2>4. \A x \in ToSet(s) : x \in {Head(s)} \union ToSet(t)
    BY <1>2, <2>3 DEF ToSet
  <2> QED BY <2>1, <2>2, <2>4
<1>4. Tail(s) = <<>> <=> Len(s) = 1
  BY <1>1, <1>2, <1>a DEF t
<1> QED BY <1>1, <1>3, <1>4 DEF t

\* Who is at the front stays there when somebody else is taken out.
LEMMA TakenOut ==
  ASSUME NEW S, NEW s \in Seq(S), NEW e
  PROVE  /\ RemoveFirst(s, e) \in Seq(S)
         /\ s # <<>> /\ Head(s) # e => RemoveFirst(s, e) # <<>> /\ Head(RemoveFirst(s, e)) = Head(s)
<1> DEFINE I == {i \in 1 .. Len(s) : s[i] = e}
<1>0. Len(s) \in Nat /\ \A i \in 1 .. Len(s) : s[i] \in S
  BY LenProperties, ElementOfSeq
<1>1. CASE I = {}
  BY <1>1 DEF RemoveFirst
<1>2. CASE I # {}
  <2> DEFINE k == Min(I)
             a == SubSeq(s, 1, k - 1)
             b == SubSeq(s, k + 1, Len(s))
  <2>1. k \in I
    <3>1. I \in SUBSET Nat
      BY <1>0
    <3> HIDE DEF I
    <3> QED BY <1>2, <3>1, MinIn
  <2>2. RemoveFirst(s, e) = a \o b
    BY <1>2 DEF RemoveFirst, RemoveAt, SelectInSeq
  <2>3. k \in 1 .. Len(s) /\ s[k] = e
    BY <2>1
  <2> HIDE DEF k
  <2>4. a \in Seq(S) /\ Len(a) = (IF 1 <= k - 1 THEN k - 1 ELSE 0)
        /\ \A i \in 1 .. k - 1 : a[i] = s[i]
    BY <1>0, <2>3, SubSeqProperties
  <2>5. b \in Seq(S)
    BY <1>0, <2>3, SubSeqProperties
  <2> HIDE DEF a, b
  <2>6. /\ a \o b \in Seq(S) /\ Len(a \o b) = Len(a) + Len(b)
        /\ \A i \in 1 .. Len(a) + Len(b) : (a \o b)[i] = IF i <= Len(a) THEN a[i] ELSE b[i - Len(a)]
    BY <2>4, <2>5, ConcatProperties
  <2>7. ASSUME s # <<>>, Head(s) # e PROVE a \o b # <<>> /\ Head(a \o b) = Head(s)
    <3>1. k # 1 /\ Head(s) = s[1]
      BY <2>3, <2>7, EmptySeq
    <3>2. Len(a) \in Nat /\ 1 <= Len(a) /\ a[1] = s[1]
      BY <2>3, <2>4, <3>1
    <3>3. Len(b) \in Nat
      BY <2>5, LenProperties
    <3>4. (a \o b)[1] = s[1] /\ Len(a \o b) # 0
      BY <2>6, <3>2, <3>3
    <3> QED BY <2>6, <3>1, <3>4, EmptySeq
  <2> QED BY <2>2, <2>6, <2>7
<1> QED BY <1>1, <1>2

-----------------------------------------------------------------------------
(* What is held *)

\* The lines of one batch.
Carried(b) == UNION {Numbers(b[g]) : g \in DOMAIN b}

\* One transaction less.
LEMMA CarriedLess ==
  ASSUME NEW b \in Seq(SUBSET Entry), b # <<>>
  PROVE  Carried(b) = Numbers(Head(b)) \union Carried(Tail(b))
<1>1. \A s : Carried(s) = UNION {Numbers(x) : x \in ToSet(s)}
  BY DEF Carried, ToSet
<1>2. ToSet(b) = {Head(b)} \union ToSet(Tail(b))
  BY OneLess
<1>3. \A x : x \in Carried(b) <=> \E t \in ToSet(b) : x \in Numbers(t)
  BY <1>1, Zenon
<1>4. \A x : x \in Carried(Tail(b)) <=> \E t \in ToSet(Tail(b)) : x \in Numbers(t)
  BY <1>1, Zenon
<1> QED BY <1>2, <1>3, <1>4

\* An empty batch carries nothing, and a batch of what was pending carries all of that.
LEMMA GroupedAll ==
  /\ Carried(<<>>) = {} /\ Numbers(ToSet(<<>>)) = {}
  /\ \A s \in Seq(Entry) : s # <<>> => /\ Grouped(s) \in Seq(SUBSET Entry) /\ Grouped(s) # <<>>
                                       /\ Carried(Grouped(s)) = Numbers(ToSet(s))
<1>1. Carried(<<>>) = {} /\ Numbers(ToSet(<<>>)) = {}
  BY DEF Carried, Numbers, ToSet
<1>2. SUFFICES ASSUME NEW s \in Seq(Entry), s # <<>>
               PROVE  /\ Grouped(s) \in Seq(SUBSET Entry) /\ Grouped(s) # <<>>
                      /\ Carried(Grouped(s)) = Numbers(ToSet(s))
  BY <1>1
<1> DEFINE entries == ToSet(s)
           first == {e \in entries : e.node = Head(s).node}
<1>3. entries \in SUBSET Entry
  BY LenProperties, ElementOfSeq DEF ToSet
<1>4. CASE first = entries
  <2>1. Grouped(s) = <<entries>>
    BY <1>4 DEF Grouped
  <2> QED BY <1>3, <2>1 DEF Carried
<1>5. CASE first # entries
  <2>1. PICK f \in SUBSET Entry, r \in SUBSET Entry : f = first /\ r = entries \ first
    BY <1>3
  <2>2. Grouped(s) = <<f, r>>
    BY <1>5, <2>1 DEF Grouped
  <2>3. Carried(<<f, r>>) = Numbers(f) \union Numbers(r)
    <3>1. ToSet(<<f, r>>) = {f, r}
      BY DEF ToSet
    <3>2. Carried(<<f, r>>) = UNION {Numbers(x) : x \in ToSet(<<f, r>>)}
      BY DEF Carried, ToSet
    <3>3. UNION {Numbers(x) : x \in {f, r}} = Numbers(f) \union Numbers(r)
      OBVIOUS
    <3> QED BY <3>1, <3>2, <3>3
  <2>4. Numbers(f) \union Numbers(r) = Numbers(entries)
    BY <2>1 DEF Numbers
  <2>5. <<f, r>> \in Seq(SUBSET Entry) /\ <<f, r>> # <<>>
    OBVIOUS
  <2>6. ToSet(s) = entries
    OBVIOUS
  <2> HIDE DEF entries, first
  <2>7. Carried(Grouped(s)) = Numbers(ToSet(s))
    BY <2>2, <2>3, <2>4, <2>6
  <2> QED BY <2>2, <2>5, <2>7
<1> QED BY <1>4, <1>5

\* Only who is at the head of the lock has taken anything out.
LEMMA OneWriter ==
  ASSUME LockOK, NEW j \in Jobs, lock # <<>>, Head(lock) = j
  PROVE  \A i \in Jobs \ {j} : job[i] # "writes" /\ batch[i] = <<>> /\ Taken(i) = {}
<1>1. \A i \in Jobs : Taken(i) = Carried(batch[i])
  BY DEF Taken, Carried
<1>2. ASSUME NEW i \in Jobs \ {j} PROVE job[i] # "writes" /\ batch[i] = <<>>
  BY DEF LockOK
<1> QED BY <1>1, <1>2, GroupedAll

-----------------------------------------------------------------------------
(* The invariant *)

\* It holds when the plugin is loaded.
LEMMA InitSinkInv == Init => SinkInv
<1> SUFFICES ASSUME Init PROVE SinkInv
  OBVIOUS
<1>1. <<>> \in Seq(Jobs) /\ <<>> \in Seq(Entry) /\ <<>> \in Seq(SUBSET Entry)
  BY EmptySeq
<1>2. LockOK
  BY <1>1 DEF Init, LockOK, Jobs
<1>3. Held = {}
  <2>1. \A j \in Jobs : Taken(j) = {}
    BY DEF Init, Taken
  <2> QED BY <2>1, GroupedAll DEF Held, Init
<1>4. LinesOK
  BY <1>1, <1>3 DEF LinesOK, LostIsCounted, Init
<1>5. AskedOK
  BY DEF AskedOK, Init, Jobs
<1> QED BY <1>2, <1>4, <1>5 DEF SinkInv

\* What it speaks about.
seen == <<lines, pending, failed, lock, job, batch, asked, rows, removed, up, cut>>

\* A step that leaves that alone preserves it.
LEMMA SameSink ==
  ASSUME SinkInv, UNCHANGED seen
  PROVE  SinkInv'
BY DEF SinkInv, seen, LockOK, LinesOK, AskedOK, LostIsCounted, Held, Taken

\* A line is buffered: nobody has asked for it, and one that makes room for it is counted.
LEMMA BufferStep ==
  ASSUME SinkInv, NEW node \in {"own", "peer"}, NEW rest, Buffer(node, rest),
         UNCHANGED <<lock, job, batch, asked, rows, removed, up, cut>>
  PROVE  SinkInv'
<1> DEFINE n == IF lines <= LineBound THEN lines + 1 ELSE lines
           entry == [node |-> node, n |-> n]
           grown == Append(pending, entry)
<1>1. lines \in Nat /\ LineBound \in Nat \ {0} /\ pending \in Seq(Entry)
  BY LogAssumption DEF SinkInv, LinesOK
<1>2. PICK m \in Nat : m = n
  BY <1>1
<1>3. /\ lines' = m /\ m \in 1 .. m /\ 1 .. lines \subseteq 1 .. m
      /\ 1 .. m \subseteq (1 .. lines) \union {m}
      /\ m \notin (1 .. lines) \cap (1 .. LineBound)
  BY <1>1, <1>2 DEF Buffer
<1>4. PICK e \in Entry : e = entry /\ e.n = m
  <2>1. [node |-> node, n |-> m] \in Entry /\ [node |-> node, n |-> m].n = m
    BY DEF Entry
  <2> QED BY <1>2, <2>1
<1>5. PICK g \in Seq(Entry) : g = grown /\ g # <<>> /\ ToSet(g) = ToSet(pending) \union {e}
  <2>1. PICK p \in Seq(Entry) : p = pending
    BY <1>1
  <2>2. /\ Append(p, e) \in Seq(Entry) /\ Append(p, e) # <<>>
        /\ ToSet(Append(p, e)) = ToSet(p) \union {e}
    BY OneMore
  <2>3. Append(p, e) = grown
    BY <1>4, <2>1
  <2> QED BY <2>1, <2>2, <2>3
<1>6. /\ pending' \in Seq(Entry) /\ ToSet(pending') \subseteq ToSet(g)
      /\ ~failed' => ~failed /\ ToSet(pending') = ToSet(g)
  <2>1. CASE Len(g) > BufferMax
    <3>1. pending' = Tail(g) /\ failed' = TRUE
      BY <1>5, <2>1 DEF Buffer, NoteFailure
    <3> QED BY <1>5, <3>1, OneLess
  <2>2. CASE ~(Len(g) > BufferMax)
    BY <1>5, <2>2 DEF Buffer
  <2> QED BY <2>1, <2>2
<1>7. Held' \subseteq Held \union {m} /\ (~failed' => ~failed /\ Held' = Held \union {m})
  <2>1. \A t \in SUBSET Entry : Numbers(t \union {e}) = Numbers(t) \union {m}
    BY <1>4 DEF Numbers
  <2>2. ToSet(pending) \in SUBSET Entry
    BY <1>1, LenProperties, ElementOfSeq DEF ToSet
  <2>3. Numbers(ToSet(g)) = Numbers(ToSet(pending)) \union {m}
    BY <1>5, <2>1, <2>2
  <2>4. Numbers(ToSet(pending')) \subseteq Numbers(ToSet(g))
    BY <1>6 DEF Numbers
  <2>5. UNION {Taken(j) : j \in Jobs}' = UNION {Taken(j) : j \in Jobs}
    BY DEF Taken
  <2>6. PICK U : U = UNION {Taken(j) : j \in Jobs}
    OBVIOUS
  <2>7. Held = Numbers(ToSet(pending)) \union U /\ Held' = Numbers(ToSet(pending')) \union U
    BY <2>5, <2>6 DEF Held
  <2> QED BY <1>6, <2>3, <2>4, <2>7
<1> HIDE DEF n, entry, grown
<1>8. LockOK'
  BY DEF SinkInv, LockOK
<1>9. LinesOK'
  <2>1. Held' \subseteq 1 .. m
    BY <1>3, <1>7 DEF SinkInv, LinesOK
  <2>2. LostIsCounted'
    BY <1>3, <1>7 DEF SinkInv, LinesOK, LostIsCounted
  <2> QED BY <1>3, <1>6, <2>1, <2>2 DEF LinesOK
<1>10. AskedOK'
  <2>1. asked' \in [Jobs -> SUBSET ((1 .. lines') \cap (1 .. LineBound))]
    BY <1>3 DEF SinkInv, AskedOK
  <2>2. ASSUME NEW j \in Requests
        PROVE  /\ job'[j] = "writes" => asked'[j] \cap Numbers(ToSet(pending')) = {}
               /\ job'[j] = "serves" => asked'[j] \cap Held' = {}
    <3>1. asked'[j] = asked[j] /\ job'[j] = job[j] /\ m \notin asked[j]
      BY <1>3 DEF SinkInv, AskedOK, Jobs
    <3>2. Numbers(ToSet(pending')) \subseteq Numbers(ToSet(pending)) \union {m}
      BY <1>4, <1>5, <1>6 DEF Numbers
    <3> QED BY <1>7, <3>1, <3>2 DEF SinkInv, AskedOK
  <2> QED BY <2>1, <2>2 DEF AskedOK
<1> QED BY <1>8, <1>9, <1>10 DEF SinkInv

\* Who has the lock takes what is pending, or finds nothing.
LEMMA TakesStep ==
  ASSUME SinkInv, NEW j \in Jobs, Takes(j)
  PROVE  SinkInv'
<1>1. /\ lock # <<>> /\ Head(lock) = j /\ job[j] = "waits" /\ lock \in Seq(Jobs) /\ pending \in Seq(Entry)
      /\ batch[j] = <<>> /\ pending' = <<>> /\ UNCHANGED <<lines, failed, asked, rows, removed, up, cut>>
  BY DEF Takes, Holds, SinkInv, LockOK, LinesOK, table
<1>2. \A i \in Jobs \ {j} : job[i] # "writes" /\ batch[i] = <<>> /\ Taken(i) = {}
  BY <1>1, OneWriter DEF SinkInv
<1>3. Taken(j) = {} /\ Numbers(ToSet(pending')) = {}
  <2>1. Taken(j) = Carried(batch[j])
    BY DEF Taken, Carried
  <2> QED BY <1>1, <2>1, GroupedAll
<1>4. Held = Numbers(ToSet(pending))
  BY <1>2, <1>3 DEF Held
<1>5. CASE pending = <<>>
  <2>1. /\ lock' = Tail(lock) /\ batch' = batch /\ pending' = pending
        /\ job' = [job EXCEPT ![j] = CASE j = "loop" -> "idle" [] j = "stop" -> "over" [] OTHER -> "serves"]
    BY <1>1, <1>5 DEF Takes, Released
  <2>2. Held = {} /\ Held' = {}
    <3>1. Held' = Held
      BY <2>1 DEF Held, Taken
    <3> QED BY <1>3, <1>4, <2>1, <3>1
  <2>3. PICK to \in {"idle", "over", "serves"} : job' = [job EXCEPT ![j] = to]
    BY <2>1
  <2>4. LockOK'
    <3>1. Tail(lock) \in Seq(Jobs)
      BY <1>1, HeadTailProperties
    <3>2. up' => job'["stop"] = "idle"
      BY <1>1, <2>1 DEF SinkInv, LockOK, Jobs
    <3> QED BY <1>1, <1>2, <2>1, <2>3, <3>1, <3>2 DEF SinkInv, LockOK
  <2>5. LinesOK'
    BY <1>1, <2>1, <2>2 DEF SinkInv, LinesOK, LostIsCounted
  <2>6. AskedOK'
    BY <1>1, <1>2, <1>3, <2>2, <2>3 DEF SinkInv, LockOK, AskedOK, Jobs
  <2> QED BY <2>4, <2>5, <2>6 DEF SinkInv
<1>6. CASE pending # <<>>
  <2>1. /\ lock' = lock /\ batch' = [batch EXCEPT ![j] = Grouped(pending)]
        /\ job' = [job EXCEPT ![j] = "writes"]
    BY <1>6 DEF Takes
  <2>2. PICK b \in Seq(SUBSET Entry) : b = Grouped(pending) /\ b # <<>> /\ Carried(b) = Numbers(ToSet(pending))
    BY <1>1, <1>6, GroupedAll
  <2>3. batch' \in [Jobs -> Seq(SUBSET Entry)] /\ \A i \in Jobs : batch'[i] = IF i = j THEN b ELSE batch[i]
    BY <2>1, <2>2 DEF SinkInv, LockOK
  <2>4. Held' = Held
    <3>1. \A i \in Jobs : Taken(i)' = Carried(batch'[i])
      BY DEF Taken, Carried
    <3>2. \A i \in Jobs : Taken(i)' = IF i = j THEN Numbers(ToSet(pending)) ELSE {}
      BY <1>2, <2>2, <2>3, <3>1, GroupedAll
    <3>3. UNION {Taken(i) : i \in Jobs}' = Numbers(ToSet(pending))
      <4> DEFINE T(i) == Taken(i)'
      <4>1. \A i \in Jobs : T(i) = IF i = j THEN Numbers(ToSet(pending)) ELSE {}
        BY <3>2
      <4> HIDE DEF T
      <4>2. UNION {T(i) : i \in Jobs} = Numbers(ToSet(pending))
        BY <4>1
      <4> QED BY <4>2 DEF T
    <3> QED BY <1>3, <1>4, <3>3 DEF Held
  <2>5. LockOK'
    BY <1>1, <1>2, <2>1, <2>2, <2>3 DEF SinkInv, LockOK
  <2>6. LinesOK'
    <3>1. pending' \in Seq(Entry)
      BY <1>1, EmptySeq
    <3> QED BY <1>1, <2>4, <3>1 DEF SinkInv, LinesOK, LostIsCounted
  <2>7. AskedOK'
    <3>1. \A i \in Jobs : job'[i] = IF i = j THEN "writes" ELSE job[i]
      BY <2>1 DEF SinkInv, LockOK
    <3> QED BY <1>1, <1>3, <2>4, <3>1 DEF SinkInv, AskedOK, Jobs
  <2> QED BY <2>5, <2>6, <2>7 DEF SinkInv
<1> QED BY <1>5, <1>6

\* A transaction is over: its lines are no longer held, and nobody else is disturbed.
LEMMA WrittenStep ==
  ASSUME SinkInv, NEW j \in Jobs, job[j] = "writes", Written(j), UNCHANGED <<lines, pending, asked, up>>
  PROVE  /\ LockOK' /\ AskedOK'
         /\ batch[j] # <<>> /\ Held = Held' \union Numbers(Head(batch[j]))
<1>1. /\ lock # <<>> /\ Head(lock) = j /\ lock \in Seq(Jobs)
      /\ batch[j] # <<>> /\ batch[j] \in Seq(SUBSET Entry)
  BY DEF SinkInv, LockOK
<1>2. \A i \in Jobs \ {j} : job[i] # "writes" /\ batch[i] = <<>> /\ Taken(i) = {}
  BY <1>1, OneWriter DEF SinkInv
<1>3. PICK b \in Seq(SUBSET Entry) : b = batch[j] /\ b # <<>>
  BY <1>1
<1>4. Tail(b) \in Seq(SUBSET Entry) /\ (Tail(b) = <<>> <=> Len(b) = 1)
      /\ Carried(b) = Numbers(Head(b)) \union Carried(Tail(b))
  BY <1>3, OneLess, CarriedLess
<1>5. batch' \in [Jobs -> Seq(SUBSET Entry)] /\ \A i \in Jobs : batch'[i] = IF i = j THEN Tail(b) ELSE batch[i]
  <2>1. batch' = [batch EXCEPT ![j] = Tail(b)]
    BY <1>3 DEF Written
  <2> QED BY <1>4, <2>1 DEF SinkInv, LockOK
<1>6. /\ Held = Numbers(ToSet(pending)) \union Carried(b)
      /\ Held' = Numbers(ToSet(pending)) \union Carried(Tail(b))
  <2>1. \A i \in Jobs : Taken(i) = IF i = j THEN Carried(b) ELSE {}
    <3>1. Taken(j) = Carried(batch[j])
      BY DEF Taken, Carried
    <3> QED BY <1>2, <1>3, <3>1
  <2>2. \A i \in Jobs : Taken(i)' = IF i = j THEN Carried(Tail(b)) ELSE {}
    <3>1. \A i \in Jobs : Taken(i)' = Carried(batch'[i])
      BY DEF Taken, Carried
    <3> QED BY <1>2, <1>5, <3>1, GroupedAll
  <2>3. UNION {Taken(i) : i \in Jobs} = Carried(b)
    BY <2>1
  <2>4. UNION {Taken(i) : i \in Jobs}' = Carried(Tail(b))
    <3> DEFINE T(i) == Taken(i)'
    <3>1. \A i \in Jobs : T(i) = IF i = j THEN Carried(Tail(b)) ELSE {}
      BY <2>2
    <3> HIDE DEF T
    <3>2. UNION {T(i) : i \in Jobs} = Carried(Tail(b))
      BY <3>1
    <3> QED BY <3>2 DEF T
  <2> QED BY <2>3, <2>4 DEF Held
<1>7. Held = Held' \union Numbers(Head(batch[j]))
  BY <1>3, <1>4, <1>6
<1>8. CASE Len(b) = 1
  <2>1. /\ lock' = Tail(lock)
        /\ job' = [job EXCEPT ![j] = CASE j = "loop" -> "idle" [] j = "stop" -> "over" [] OTHER -> "serves"]
    BY <1>3, <1>8 DEF Written, Released
  <2>2. PICK to \in {"idle", "over", "serves"} : job' = [job EXCEPT ![j] = to]
    BY <2>1
  <2>3. LockOK'
    <3>1. Tail(lock) \in Seq(Jobs)
      BY <1>1, HeadTailProperties
    <3>2. up' => job'["stop"] = "idle"
      BY <2>1 DEF SinkInv, LockOK, Jobs
    <3>3. \A i \in Jobs : batch'[i] = <<>> /\ job'[i] # "writes"
      BY <1>2, <1>4, <1>5, <1>8, <2>2 DEF SinkInv, LockOK
    <3> QED BY <1>5, <2>1, <2>2, <3>1, <3>2, <3>3 DEF SinkInv, LockOK
  <2>4. AskedOK'
    <3>1. Held' = Numbers(ToSet(pending))
      BY <1>4, <1>6, <1>8, GroupedAll
    <3>2. \A i \in Jobs : job'[i] = IF i = j THEN to ELSE job[i]
      BY <2>2 DEF SinkInv, LockOK
    <3> QED BY <1>7, <3>1, <3>2 DEF SinkInv, AskedOK, Jobs
  <2> QED BY <1>1, <1>7, <2>3, <2>4
<1>9. CASE Len(b) # 1
  <2>1. UNCHANGED <<lock, job>>
    BY <1>3, <1>9 DEF Written
  <2>2. LockOK'
    BY <1>1, <1>3, <1>4, <1>5, <1>9, <2>1 DEF SinkInv, LockOK
  <2>3. AskedOK'
    BY <1>7, <2>1 DEF SinkInv, AskedOK
  <2> QED BY <1>1, <1>7, <2>2, <2>3
<1> QED BY <1>8, <1>9

LEMMA WritesStep ==
  ASSUME SinkInv, NEW j \in Jobs, Writes(j) \/ WriteFails(j)
  PROVE  SinkInv'
<1>1. /\ job[j] = "writes" /\ Written(j)
      /\ UNCHANGED <<lines, pending, asked, up, removed, cut>>
  BY DEF Writes, WriteFails, table
<1>2. LockOK' /\ AskedOK' /\ Held = Held' \union Numbers(Head(batch[j]))
  BY <1>1, WrittenStep
<1>3. \/ failed' = failed /\ rows' = rows \union Head(batch[j])
      \/ failed' = TRUE
  BY DEF Writes, WriteFails, NoteFailure
<1>4. ~failed' => ~failed /\ Numbers(rows') = Numbers(rows) \union Numbers(Head(batch[j]))
  <2>1. \A r, b : Numbers(r \union b) = Numbers(r) \union Numbers(b)
    BY DEF Numbers
  <2> QED BY <1>3, <2>1
<1>5. LostIsCounted'
  BY <1>1, <1>2, <1>4 DEF SinkInv, LinesOK, LostIsCounted
<1>6. LinesOK'
  BY <1>1, <1>2, <1>5 DEF SinkInv, LinesOK
<1> QED BY <1>2, <1>6 DEF SinkInv

\* What is deleted or trimmed is remembered.
LEMMA RemovesStep ==
  ASSUME NEW gone, Removes(gone)
  PROVE  Numbers(rows) \union removed \subseteq Numbers(rows') \union removed'
<1>1. ASSUME NEW e \in rows PROVE e.n \in Numbers(rows') \union removed'
  BY DEF Removes, Numbers
<1> QED BY <1>1 DEF Removes, Numbers

LEMMA TrimStep ==
  ASSUME SinkInv, Trim
  PROVE  SinkInv'
<1>1. PICK gone : Removes(gone)
  BY DEF Trim
<1>2. UNCHANGED <<lines, pending, failed, lock, job, batch, asked, up, cut>>
  BY DEF Trim, flush
<1>3. Held' = Held
  BY <1>2 DEF Held, Taken
<1>4. Numbers(rows) \union removed \subseteq Numbers(rows') \union removed'
  BY <1>1, RemovesStep
<1>5. LinesOK'
  BY <1>2, <1>3, <1>4 DEF SinkInv, LinesOK, LostIsCounted
<1>6. LockOK' /\ AskedOK'
  BY <1>2, <1>3 DEF SinkInv, LockOK, AskedOK
<1> QED BY <1>5, <1>6 DEF SinkInv

\* A request is served, and may have deleted something.
LEMMA ServedStep ==
  ASSUME SinkInv, NEW j \in Jobs, Reads(j) \/ Deletes(j)
  PROVE  SinkInv'
<1>1. /\ j \in Requests /\ job[j] = "serves" /\ job' = [job EXCEPT ![j] = "idle"]
      /\ asked' = [asked EXCEPT ![j] = {}]
      /\ UNCHANGED <<lines, pending, failed, lock, batch, up, cut>>
  BY DEF Reads, Deletes, Served
<1>2. Numbers(rows) \union removed \subseteq Numbers(rows') \union removed'
  <2>1. CASE Reads(j)
    BY <2>1 DEF Reads, table
  <2>2. CASE Deletes(j)
    BY <2>2, RemovesStep DEF Deletes
  <2> QED BY <2>1, <2>2
<1>3. Held' = Held
  BY <1>1 DEF Held, Taken
<1>4. LinesOK'
  BY <1>1, <1>2, <1>3 DEF SinkInv, LinesOK, LostIsCounted
<1>5. LockOK'
  BY <1>1 DEF SinkInv, LockOK, Jobs
<1>6. AskedOK'
  BY <1>1, <1>3 DEF SinkInv, AskedOK, Jobs
<1> QED BY <1>4, <1>5, <1>6 DEF SinkInv

\* A flush is asked for, with what is held then.
LEMMA AsksStep ==
  ASSUME SinkInv, NEW j \in Jobs, Asks(j)
  PROVE  SinkInv'
<1>1. /\ j # "stop" /\ job[j] = "idle" /\ job' = [job EXCEPT ![j] = "waits"] /\ lock' = Append(lock, j)
      /\ asked' = [asked EXCEPT ![j] = IF j \in Requests THEN Held \cap (1 .. LineBound) ELSE {}]
      /\ UNCHANGED <<lines, pending, failed, batch, rows, removed, up, cut>>
  BY DEF Asks, table
<1>2. Held' = Held
  BY <1>1 DEF Held, Taken
<1>3. LinesOK'
  BY <1>1, <1>2 DEF SinkInv, LinesOK, LostIsCounted
<1>4. LockOK'
  <2>1. PICK s \in Seq(Jobs) : s = lock
    BY DEF SinkInv, LockOK
  <2>2. lock' \in Seq(Jobs) /\ lock' # <<>> /\ (lock # <<>> => Head(lock') = Head(lock))
    BY <1>1, <2>1, OneMore
  <2> QED BY <1>1, <2>2 DEF SinkInv, LockOK, Jobs
<1>5. AskedOK'
  <2>1. PICK a \in SUBSET ((1 .. lines) \cap (1 .. LineBound)) : asked' = [asked EXCEPT ![j] = a]
    BY <1>1 DEF SinkInv, LinesOK
  <2>2. asked' \in [Jobs -> SUBSET ((1 .. lines') \cap (1 .. LineBound))]
    BY <1>1, <2>1 DEF SinkInv, AskedOK
  <2>3. ASSUME NEW i \in Requests, i # j
        PROVE  asked'[i] = asked[i] /\ job'[i] = job[i]
    BY <1>1, <2>1, <2>3 DEF SinkInv, AskedOK, LockOK, Jobs
  <2>4. job'[j] = "waits"
    BY <1>1 DEF SinkInv, LockOK
  <2> QED BY <1>1, <1>2, <2>2, <2>3, <2>4 DEF SinkInv, AskedOK
<1> QED BY <1>3, <1>4, <1>5 DEF SinkInv

\* The cleanup: what the loop was writing is in the table or cut off, and the loop is out.
LEMMA StopStep ==
  ASSUME SinkInv, Stop
  PROVE  SinkInv'
<1>1. /\ up /\ up' = FALSE /\ lock' = Append(RemoveFirst(lock, "loop"), "stop")
      /\ batch' = [batch EXCEPT !["loop"] = <<>>]
      /\ job' = [job EXCEPT !["loop"] = "over", !["stop"] = "waits"]
      /\ UNCHANGED <<lines, pending, failed, asked, removed>>
  BY DEF Stop
<1>2. PICK s : /\ rows' = rows \union s
               /\ cut' = cut \union (Taken("loop") \ Numbers(s))
  BY DEF Stop
<1>3. \A i \in Jobs : Taken(i)' = IF i = "loop" THEN {} ELSE Taken(i)
  <2>1. \A i \in Jobs : Taken(i) = Carried(batch[i]) /\ Taken(i)' = Carried(batch'[i])
    BY DEF Taken, Carried
  <2>2. \A i \in Jobs : batch'[i] = IF i = "loop" THEN <<>> ELSE batch[i]
    BY <1>1 DEF SinkInv, LockOK
  <2> QED BY <2>1, <2>2, GroupedAll
<1>4. Held' \subseteq Held /\ Held \subseteq Held' \union Taken("loop")
  <2>1. ASSUME NEW x PROVE x \in Held' <=> \/ x \in Numbers(ToSet(pending))
                                           \/ \E i \in Jobs : x \in Taken(i)'
    BY <1>1 DEF Held
  <2>2. ASSUME NEW x PROVE x \in Held <=> \/ x \in Numbers(ToSet(pending))
                                          \/ \E i \in Jobs : x \in Taken(i)
    BY DEF Held
  <2> QED BY <1>3, <2>1, <2>2
<1>5. LostIsCounted'
  <2>1. Numbers(rows') = Numbers(rows) \union Numbers(s)
    BY <1>2 DEF Numbers
  <2> QED BY <1>1, <1>2, <1>4, <2>1 DEF SinkInv, LinesOK, LostIsCounted
<1>6. LinesOK'
  BY <1>1, <1>4, <1>5 DEF SinkInv, LinesOK
<1>7. LockOK'
  <2>1. \A q \in Seq(Jobs) : /\ RemoveFirst(q, "loop") \in Seq(Jobs)
                             /\ q # <<>> /\ Head(q) # "loop" => /\ RemoveFirst(q, "loop") # <<>>
                                                                /\ Head(RemoveFirst(q, "loop")) = Head(q)
    BY TakenOut
  <2>2. PICK r \in Seq(Jobs), last \in Jobs :
           /\ lock' = Append(r, last)
           /\ lock # <<>> /\ Head(lock) # "loop" => r # <<>> /\ Head(r) = Head(lock)
    <3>1. lock \in Seq(Jobs)
      BY DEF SinkInv, LockOK
    <3>2. "stop" \in Jobs
      BY DEF Jobs
    <3> QED BY <1>1, <2>1, <3>1, <3>2
  <2>3. /\ Append(r, last) \in Seq(Jobs) /\ Append(r, last) # <<>>
        /\ r # <<>> => Head(Append(r, last)) = Head(r)
    BY OneMore
  <2>4. /\ lock' \in Seq(Jobs) /\ lock' # <<>>
        /\ lock # <<>> /\ Head(lock) # "loop" => Head(lock') = Head(lock)
    BY <2>2, <2>3
  <2>5. <<>> \in Seq(SUBSET Entry) /\ {"loop", "stop"} \subseteq Jobs
    BY EmptySeq DEF Jobs
  <2>6. /\ job' \in [Jobs -> {"idle", "waits", "writes", "serves", "over"}]
        /\ batch' \in [Jobs -> Seq(SUBSET Entry)]
        /\ \A i \in Jobs : /\ job'[i] = IF i = "loop" THEN "over" ELSE IF i = "stop" THEN "waits" ELSE job[i]
                           /\ batch'[i] = IF i = "loop" THEN <<>> ELSE batch[i]
    BY <1>1, <2>5 DEF SinkInv, LockOK
  <2>7. ASSUME NEW i \in Jobs
        PROVE  /\ job'[i] = "writes" => lock' # <<>> /\ Head(lock') = i
               /\ job'[i] = "writes" <=> batch'[i] # <<>>
    <3>1. CASE i \in {"loop", "stop"}
      BY <1>1, <2>5, <2>6, <3>1 DEF SinkInv, LockOK
    <3>2. CASE i \notin {"loop", "stop"}
      <4>1. job'[i] = job[i] /\ batch'[i] = batch[i]
        BY <2>6, <3>2
      <4>2. job[i] = "writes" => lock # <<>> /\ Head(lock) = i
        BY DEF SinkInv, LockOK
      <4>3. job[i] = "writes" <=> batch[i] # <<>>
        BY DEF SinkInv, LockOK
      <4>4. job[i] = "writes" => lock' # <<>> /\ Head(lock') = i
        BY <2>4, <3>2, <4>2
      <4> QED BY <4>1, <4>3, <4>4
    <3> QED BY <3>1, <3>2
  <2> QED BY <1>1, <2>4, <2>6, <2>7 DEF LockOK
<1>8. AskedOK'
  <2>1. \A i \in Requests : job'[i] = job[i]
    BY <1>1, LogAssumption DEF SinkInv, LockOK, Jobs
  <2> QED BY <1>1, <1>4, <2>1 DEF SinkInv, AskedOK
<1> QED BY <1>6, <1>7, <1>8 DEF SinkInv

\* Every step preserves the invariant.
LEMMA NextSinkInv == SinkInv /\ [Next]_vars => SinkInv'
<1> SUFFICES ASSUME SinkInv, [Next]_vars PROVE SinkInv'
  OBVIOUS
<1>1. CASE Export
  <2>1. CASE Head(work) \in Reported
    <3>1. /\ Buffer("own", <<"insert">> \o Tail(work))
          /\ UNCHANGED <<lock, job, batch, asked, rows, removed, up, cut>>
      BY <1>1, <2>1 DEF Export, flush, table
    <3>2. PICK rest : rest = <<"insert">> \o Tail(work)
      OBVIOUS
    <3> QED BY <3>1, <3>2, BufferStep
  <2>2. CASE Head(work) \notin Reported
    BY <1>1, <2>2, SameSink DEF Export, seen, flush, table
  <2> QED BY <2>1, <2>2
<1>2. CASE Receive
  BY <1>2, BufferStep DEF Receive, flush, table
<1>3. CASE Evict \/ Insert \/ Send \/ Settle \/ \E level \in Reported : Log(level)
  BY <1>3, SameSink DEF Evict, Insert, Send, Settle, Log, seen, flush, table
<1>4. CASE TrimFails
  BY <1>4, SameSink DEF TrimFails, seen, flush, table
<1>5. ASSUME NEW j \in Jobs, Asks(j) \/ Takes(j) \/ Writes(j) \/ WriteFails(j) \/ Reads(j) \/ Deletes(j)
      PROVE  SinkInv'
  BY <1>5, AsksStep, TakesStep, WritesStep, ServedStep
<1>6. CASE Trim
  BY <1>6, TrimStep
<1>7. CASE Stop
  BY <1>7, StopStep
<1>8. CASE UNCHANGED vars
  BY <1>8, SameSink DEF vars, seen, flush, table
<1> QED BY <1>1, <1>2, <1>3, <1>4, <1>5, <1>6, <1>7, <1>8 DEF Next, Work

LEMMA SinkInvariant == Spec => []SinkInv
<1> QED BY InitSinkInv, NextSinkInv, PTL DEF Spec

\* Whatever the limits, and whoever flushes, writes, deletes or stops: as long as no failure
\* is shown, every line is held, in the table, removed on purpose or cut off by the cleanup.
THEOREM LostAlwaysCounted == Spec => []LostIsCounted
<1>1. SinkInv => LostIsCounted
  BY DEF SinkInv, LinesOK
<1> QED BY <1>1, SinkInvariant, PTL

\* However many requests wait for the lock: each reads or deletes after every line that was
\* there when it came has left the buffer and the batches.
THEOREM RequestsRead == Spec => ReadsOwnWrites
<1>1. SinkInv /\ [Next]_vars => [\A j \in Requests : Reads(j) \/ Deletes(j) => asked[j] \cap Held = {}]_vars
  BY DEF Reads, Deletes, Served, SinkInv, AskedOK
<1> QED BY <1>1, SinkInvariant, PTL DEF Spec, ReadsOwnWrites
=============================================================================
