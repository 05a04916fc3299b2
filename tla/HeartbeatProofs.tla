--------------------------- MODULE HeartbeatProofs ---------------------------
(***************************************************************************)
(* Proofs about Heartbeat: for any timeouts and any beats lost, late or    *)
(* repeated across restarts of both processes, two beats in order put the  *)
(* record on their numbers, a straggler is taken for a restart only as a   *)
(* first beat or as the second of two, a node that fell silent is not      *)
(* online for longer than its timeout,  and the digest in the record is    *)
(* that of the capabilities in it.                                         *)
(*                                                                         *)
(* The first needs to know that a number below the record's was remembered *)
(* when it came (Follows), the second that what is remembered was a        *)
(* straggler, unless the record follows another process than the newest    *)
(* beat (Suspects), the last that a beat carries a whole collection with   *)
(* its digest, or none (BeatOK).                                           *)
(***************************************************************************)
EXTENDS Heartbeat, TLAPS

\* A sequence of beats, of which the numbers matter, and that what travels was collected.
Collections == {Collected(c) : c \in Buckets}
BeatOK(b) == b.seq \in Nat /\ b.process \in Nat /\ (b.full => b.entries \in Collections)
Beats(q) == \E S : q \in Seq(S) /\ \A b \in S : BeatOK(b)

NodeOK(r) ==
  /\ {"known", "seq", "caps", "digest", "age", "status", "regress"} \subseteq DOMAIN r
  /\ r.seq \in Nat
  /\ r.regress \in [last : Nat, streak : Nat]
  /\ ~r.known => r.regress = NoRun

\* The digest of the record is that of what was archived.
ArchOK(r) ==
  r.digest = NoDigest \/ \E c \in Collections : r.digest = Digest(c) /\ r.caps = Archived(c)

\* The last number is the record's, or lower and remembered.
Follows ==
  last > 0 => /\ node.known
              /\ \/ last = node.seq
                 \/ last < node.seq /\ node.regress.last = last /\ node.regress.streak > 0

\* What is remembered was older than the newest beat, if that is of the process the
\* record follows.
Suspects ==
  node.known =>
    /\ base < newest[1] \/ (base = newest[1] /\ node.seq <= newest[2])
    /\ node.regress.streak > 0 /\ newest[1] = base => strays > 0

BeatInv ==
  /\ NodeOK(node) /\ ArchOK(node) /\ bucket \in Buckets
  /\ Beats(queue) /\ Beats(posting.beats) /\ Beats(inbox) /\ \A g \in ghosts : Beats(g)
  /\ {"beats", "taken"} \subseteq DOMAIN posting
  /\ seq \in Nat /\ process \in Nat /\ last \in Nat /\ base \in Nat
  /\ newest \in Nat \X Nat /\ strays \in 0 .. 2
  /\ Follows /\ Suspects /\ OnlineIsFresh

-----------------------------------------------------------------------------
(* Sequences of beats *)

\* The first beat and the rest.
LEMMA HeadAndTail ==
  ASSUME NEW q, Beats(q), q # << >>
  PROVE  BeatOK(Head(q)) /\ Beats(Tail(q))
<1>1. PICK S : q \in Seq(S) /\ \A b \in S : BeatOK(b)
  BY DEF Beats
<1>2. Head(q) \in S /\ Tail(q) \in Seq(S)
  BY <1>1
<1> QED BY <1>1, <1>2 DEF Beats

\* None.
LEMMA NoBeats == Beats(<< >>)
<1> DEFINE S == {}
<1>1. << >> \in Seq(S)
  OBVIOUS
<1>2. \A b \in S : BeatOK(b)
  OBVIOUS
<1> HIDE DEF S
<1> QED BY <1>1, <1>2 DEF Beats

\* One more.
LEMMA OneMore ==
  ASSUME NEW q, Beats(q), NEW b, BeatOK(b)
  PROVE  Beats(Append(q, b))
<1>1. PICK S : q \in Seq(S) /\ \A c \in S : BeatOK(c)
  BY DEF Beats
<1> DEFINE T == S \union {b}
<1>2. \A c \in T : BeatOK(c)
  BY <1>1
<1>3. S \subseteq T /\ b \in T
  OBVIOUS
<1>4. q \in Seq(T)
  <2> HIDE DEF T
  <2> QED BY <1>1, <1>3
<1> HIDE DEF T
<1>5. Append(q, b) \in Seq(T)
  BY <1>3, <1>4
<1> QED BY <1>2, <1>5 DEF Beats

\* A batch more.
LEMMA BatchMore ==
  ASSUME NEW p, Beats(p), NEW q, Beats(q)
  PROVE  Beats(p \o q)
<1>1. PICK S : p \in Seq(S) /\ \A c \in S : BeatOK(c)
  BY DEF Beats
<1>2. PICK T : q \in Seq(T) /\ \A c \in T : BeatOK(c)
  BY DEF Beats
<1> DEFINE U == S \union T
<1>3. \A c \in U : BeatOK(c)
  BY <1>1, <1>2
<1>4. p \in Seq(U) /\ q \in Seq(U)
  BY <1>1, <1>2
<1> HIDE DEF U
<1>5. p \o q \in Seq(U)
  BY <1>4
<1> QED BY <1>3, <1>5 DEF Beats

-----------------------------------------------------------------------------
(* The record *)

\* The three ways a number goes: past the record's, equal to it, or below.
Cases(r, s, n) ==
  /\ ~r.known \/ s > r.seq => n.seq = s /\ n.regress = NoRun
  /\ r.known /\ s = r.seq => n.seq = s /\ n.regress = r.regress
  /\ r.known /\ s < r.seq =>
       \/ /\ n.seq = s /\ n.regress = NoRun
          /\ s = 1 \/ (r.regress.streak > 0 /\ s > r.regress.last)
       \/ /\ n.seq = r.seq /\ n.regress.last = s /\ n.regress.streak = 1
          /\ ~(r.regress.streak > 0 /\ s > r.regress.last)

\* What a number makes of the record (accept, _track_seq_regression).
LEMMA NumberedFields ==
  ASSUME NEW r, NodeOK(r), NEW s \in Nat, NEW n, n = Numbered(r, s)
  PROVE  /\ NodeOK(n) /\ n.known
         /\ Cases(r, s, n)
<1>1. NoRun \in [last : Nat, streak : Nat] /\ NoRun.streak = 0
  BY DEF NoRun
<1>2. ASSUME ~r.known
      PROVE  NodeOK(n) /\ n.known /\ n.seq = s /\ n.regress = NoRun
  <2>1. n = [r EXCEPT !.known = TRUE, !.seq = s]
    BY <1>2 DEF Numbered
  <2> QED BY <1>1, <1>2, <2>1 DEF NodeOK
<1>3. ASSUME r.known, s > r.seq
      PROVE  NodeOK(n) /\ n.known /\ n.seq = s /\ n.regress = NoRun
  <2>1. n = [r EXCEPT !.seq = s, !.regress = NoRun]
    BY <1>3 DEF Numbered, NodeOK
  <2> QED BY <1>1, <1>3, <2>1 DEF NodeOK
<1>4. ASSUME r.known, s = r.seq
      PROVE  n = r
  BY <1>4 DEF Numbered, NodeOK
<1>5. ASSUME r.known, s < r.seq
      PROVE  /\ NodeOK(n) /\ n.known
             /\ \/ /\ n.seq = s /\ n.regress = NoRun
                   /\ s = 1 \/ (r.regress.streak > 0 /\ s > r.regress.last)
                \/ /\ n.seq = r.seq /\ n.regress.last = s /\ n.regress.streak = 1
                   /\ ~(r.regress.streak > 0 /\ s > r.regress.last)
  <2> DEFINE streak == IF r.regress.streak > 0 /\ s > r.regress.last THEN r.regress.streak + 1 ELSE 1
  <2>1. n = IF s = 1 \/ streak >= 2 THEN [r EXCEPT !.seq = s, !.regress = NoRun]
            ELSE [r EXCEPT !.regress = [last |-> s, streak |-> streak]]
    BY <1>5 DEF Numbered, Regressed, Restarted
  <2>2. /\ streak \in Nat
        /\ streak >= 2 <=> r.regress.streak > 0 /\ s > r.regress.last
        /\ streak < 2 => streak = 1
    BY DEF NodeOK
  <2> HIDE DEF streak
  <2>3. CASE s = 1 \/ streak >= 2
    <3>1. n = [r EXCEPT !.seq = s, !.regress = NoRun]
      BY <2>1, <2>3
    <3>2. NodeOK(n) /\ n.known /\ n.seq = s /\ n.regress = NoRun
      BY <1>1, <1>5, <3>1 DEF NodeOK
    <3> QED BY <2>2, <2>3, <3>2
  <2>4. CASE ~(s = 1 \/ streak >= 2)
    <3>1. streak = 1 /\ ~(r.regress.streak > 0 /\ s > r.regress.last)
      BY <2>2, <2>4
    <3> DEFINE g == [last |-> s, streak |-> streak]
    <3>2. n = [r EXCEPT !.regress = g]
      BY <2>1, <2>4
    <3>3. g \in [last : Nat, streak : Nat] /\ g.last = s /\ g.streak = 1
      BY <3>1
    <3> HIDE DEF g
    <3>4. NodeOK(n) /\ n.known /\ n.seq = r.seq /\ n.regress = g
      BY <1>5, <3>2, <3>3 DEF NodeOK
    <3> QED BY <3>1, <3>3, <3>4
  <2> QED BY <2>3, <2>4
<1>6. r.seq \in Nat
  BY DEF NodeOK
<1>7. s > r.seq \/ s = r.seq \/ s < r.seq
  BY <1>6
<1>8. NodeOK(n) /\ n.known
  BY <1>2, <1>3, <1>4, <1>5, <1>7
<1>9. ~r.known \/ s > r.seq => n.seq = s /\ n.regress = NoRun
  BY <1>2, <1>3
<1>10. r.known /\ s = r.seq => n.seq = s /\ n.regress = r.regress
  BY <1>4
<1> QED BY <1>5, <1>8, <1>9, <1>10 DEF Cases

\* Capabilities, age and status are no part of it.
LEMMA AcceptedFields ==
  ASSUME NEW r, NodeOK(r), NEW b, b.seq \in Nat, NEW n, n = Accepted(r, b)
  PROVE  /\ NodeOK(n) /\ n.known /\ n.age = 0 /\ n.status = "online"
         /\ n.seq = Numbered(r, b.seq).seq /\ n.regress = Numbered(r, b.seq).regress
<1> DEFINE m == Numbered(r, b.seq)
           w == WithCaps(m, b)
<1>1. NodeOK(m) /\ m.known
  BY NumberedFields
<1> HIDE DEF m
<1>2. NodeOK(w) /\ w.known /\ w.seq = m.seq /\ w.regress = m.regress
  <2> DEFINE c == Archived(b.entries)
             d == Digest(b.entries)
  <2>1. w = IF b.full THEN [m EXCEPT !.caps = c, !.digest = d] ELSE m
    BY DEF WithCaps
  <2> HIDE DEF c, d, w
  <2> QED BY <1>1, <2>1 DEF NodeOK
<1>3. n = [w EXCEPT !.age = 0, !.status = "online"]
  BY DEF Accepted, m
<1> HIDE DEF w
<1>4. /\ NodeOK(n) /\ n.known /\ n.age = 0 /\ n.status = "online"
      /\ n.seq = w.seq /\ n.regress = w.regress
  BY <1>2, <1>3 DEF NodeOK
<1> QED BY <1>2, <1>4 DEF m

\* A record without a node.
LEMMA AbsentFields ==
  /\ NodeOK(Absent) /\ ArchOK(Absent) /\ ~Absent.known
BY DEF Absent, NoRun, NodeOK, ArchOK

\* A sweep changes the age and the status, and calls no record online beyond the timeout.
LEMMA SweptFields ==
  ASSUME NEW r, NodeOK(r), NEW a, NEW n, n = Swept([r EXCEPT !.age = a])
  PROVE  /\ NodeOK(n) /\ n.known = r.known /\ n.seq = r.seq /\ n.regress = r.regress
         /\ n.known /\ n.status = "online" => n.age <= OfflineTimeout
<1> DEFINE m == [r EXCEPT !.age = a]
           st == StatusAt(a)
<1>1. NodeOK(m) /\ m.known = r.known /\ m.seq = r.seq /\ m.regress = r.regress /\ m.age = a
  BY DEF NodeOK
<1>2. st = "online" => a <= OfflineTimeout
  BY DEF StatusAt
<1>3. n = IF m.known /\ m.status # "lost" THEN [m EXCEPT !.status = st] ELSE m
  BY <1>1 DEF Swept
<1> HIDE DEF m, st
<1>4. CASE m.known /\ m.status # "lost"
  BY <1>1, <1>2, <1>3, <1>4 DEF NodeOK
<1>5. CASE ~(m.known /\ m.status # "lost")
  BY <1>1, <1>3, <1>5 DEF NodeOK
<1> QED BY <1>4, <1>5

\* A number leaves what is archived alone.
LEMMA ArchNumbered ==
  ASSUME NEW r, NodeOK(r), NEW s, NEW n, n = Numbered(r, s)
  PROVE  n.caps = r.caps /\ n.digest = r.digest /\ {"caps", "digest"} \subseteq DOMAIN n
<1>1. {"caps", "digest"} \subseteq DOMAIN r
  BY DEF NodeOK
<1>2. ASSUME NEW g PROVE LET m == [r EXCEPT !.regress = g]
                         IN  m.caps = r.caps /\ m.digest = r.digest /\ DOMAIN m = DOMAIN r
  BY <1>1
<1>3. LET m == [r EXCEPT !.seq = s, !.regress = NoRun]
      IN  m.caps = r.caps /\ m.digest = r.digest /\ DOMAIN m = DOMAIN r
  BY <1>1
<1>4. LET m == [r EXCEPT !.known = TRUE, !.seq = s]
      IN  m.caps = r.caps /\ m.digest = r.digest /\ DOMAIN m = DOMAIN r
  BY <1>1
<1>5. \/ n = r \/ n = [r EXCEPT !.known = TRUE, !.seq = s] \/ n = [r EXCEPT !.seq = s, !.regress = NoRun]
      \/ \E g : n = [r EXCEPT !.regress = g]
  BY DEF Numbered, Regressed, Restarted
<1> QED BY <1>1, <1>2, <1>3, <1>4, <1>5

\* So do time and a sweep.
LEMMA ArchSwept ==
  ASSUME NEW r, NodeOK(r), ArchOK(r), NEW a, NEW n, n = Swept([r EXCEPT !.age = a])
  PROVE  ArchOK(n)
<1> DEFINE m == [r EXCEPT !.age = a]
           st == StatusAt(m.age)
<1>1. m.caps = r.caps /\ m.digest = r.digest /\ {"caps", "digest"} \subseteq DOMAIN m
  BY DEF NodeOK
<1>2. n = [m EXCEPT !.status = st] \/ n = m
  BY DEF Swept
<1> HIDE DEF m, st
<1>3. n.caps = m.caps /\ n.digest = m.digest
  BY <1>1, <1>2
<1> QED BY <1>1, <1>3 DEF ArchOK

\* A beat that carries entries brings them and their digest together (_archive_caps).
LEMMA ArchAccepted ==
  ASSUME NEW r, NodeOK(r), ArchOK(r), NEW b, BeatOK(b), NEW n, n = Accepted(r, b)
  PROVE  ArchOK(n)
<1> DEFINE m == Numbered(r, b.seq)
           w == WithCaps(m, b)
           c == Archived(b.entries)
           d == Digest(b.entries)
<1>1. m.caps = r.caps /\ m.digest = r.digest /\ {"caps", "digest"} \subseteq DOMAIN m
  BY ArchNumbered
<1>2. w = IF b.full THEN [m EXCEPT !.caps = c, !.digest = d] ELSE m
  BY DEF WithCaps
<1>3. n = [w EXCEPT !.age = 0, !.status = "online"]
  BY DEF Accepted
<1> HIDE DEF m, w, c, d
<1>4. n.caps = w.caps /\ n.digest = w.digest
  BY <1>1, <1>2, <1>3
<1>5. CASE b.full
  <2>1. w.caps = c /\ w.digest = d
    BY <1>1, <1>2, <1>5
  <2>2. b.entries \in Collections
    BY <1>5 DEF BeatOK
  <2> QED BY <1>4, <2>1, <2>2 DEF ArchOK, c, d
<1>6. CASE ~b.full
  BY <1>1, <1>2, <1>4, <1>6 DEF ArchOK
<1> QED BY <1>5, <1>6

-----------------------------------------------------------------------------
(* The handler of a beat *)

\* What is known when a beat is handled.
LEMMA HandledBeat ==
  ASSUME HeartbeatAssumption, BeatInv, OnBeat, NEW b, b = Head(inbox)
  PROVE  /\ b.seq \in Nat /\ b.process \in Nat /\ Beats(inbox')
         /\ ArchOK(node')
         /\ NodeOK(node') /\ node'.known /\ node'.age = 0
         /\ node'.seq = Numbered(node, b.seq).seq
         /\ node'.regress = Numbered(node, b.seq).regress
         /\ last' = b.seq
         /\ base' = IF Moves(b) THEN b.process ELSE base
         /\ newest' = IF Older(b) THEN newest ELSE <<b.process, b.seq>>
         /\ strays' = IF Older(b) THEN IF strays < 2 THEN strays + 1 ELSE 2
                      ELSE IF Moves(b) THEN 0 ELSE strays
<1>1. Beats(inbox) /\ inbox # << >>
  BY DEF BeatInv, OnBeat
<1>2. BeatOK(b) /\ b.seq \in Nat /\ b.process \in Nat /\ Beats(Tail(inbox))
  BY <1>1, HeadAndTail DEF BeatOK
<1>3. node' = Accepted(node, b) /\ inbox' = Tail(inbox) /\ Notes(b)
  BY DEF OnBeat
<1>4. NodeOK(node) /\ ArchOK(node)
  BY DEF BeatInv
<1>5. /\ NodeOK(node') /\ node'.known /\ node'.age = 0
      /\ node'.seq = Numbered(node, b.seq).seq
      /\ node'.regress = Numbered(node, b.seq).regress
  BY <1>2, <1>3, <1>4, AcceptedFields
<1>6. ArchOK(node')
  BY <1>2, <1>3, <1>4, ArchAccepted
<1> QED BY <1>2, <1>3, <1>5, <1>6 DEF Notes

\* The record after a beat: on its number, or unmoved, in the cases of accept.
LEMMA HandledNumber ==
  ASSUME HeartbeatAssumption, BeatInv, OnBeat, NEW b, b = Head(inbox)
  PROVE  /\ Moves(b) => node'.seq = b.seq /\ node'.regress = NoRun
         /\ ~Moves(b) =>
              /\ node.known /\ node'.seq = node.seq
              /\ \/ b.seq = node.seq /\ node'.regress = node.regress
                 \/ /\ b.seq < node.seq
                    /\ node'.regress.last = b.seq /\ node'.regress.streak = 1
                    /\ ~(node.regress.streak > 0 /\ b.seq > node.regress.last)
         /\ RestartSeen(node, b.seq) =>
              b.seq = 1 \/ (node.regress.streak > 0 /\ b.seq > node.regress.last)
<1> DEFINE n == Numbered(node, b.seq)
<1>1. /\ b.seq \in Nat /\ NodeOK(node) /\ node.seq \in Nat
      /\ node'.seq = n.seq /\ node'.regress = n.regress /\ n = Numbered(node, b.seq)
  BY HandledBeat DEF BeatInv, NodeOK
<1>2. RestartSeen(node, b.seq) <=> node.known /\ b.seq < node.seq /\ n.seq = b.seq
  BY DEF RestartSeen
<1> HIDE DEF n
<1>3. /\ ~node.known \/ b.seq > node.seq => n.seq = b.seq /\ n.regress = NoRun
      /\ node.known /\ b.seq = node.seq => n.seq = b.seq /\ n.regress = node.regress
      /\ node.known /\ b.seq < node.seq =>
           \/ /\ n.seq = b.seq /\ n.regress = NoRun
              /\ b.seq = 1 \/ (node.regress.streak > 0 /\ b.seq > node.regress.last)
           \/ /\ n.seq = node.seq /\ n.regress.last = b.seq /\ n.regress.streak = 1
              /\ ~(node.regress.streak > 0 /\ b.seq > node.regress.last)
  <2>1. Cases(node, b.seq, n)
    BY <1>1, NumberedFields
  <2> QED BY <2>1 DEF Cases
<1>4. Moves(b) <=> ~node.known \/ b.seq > node.seq \/ RestartSeen(node, b.seq)
  BY DEF Moves
<1>5. node.known => b.seq > node.seq \/ b.seq = node.seq \/ b.seq < node.seq
  BY <1>1
<1>6. Moves(b) => node'.seq = b.seq /\ node'.regress = NoRun
  BY <1>1, <1>3, <1>2, <1>4
<1>7. ~Moves(b) =>
        /\ node.known /\ node'.seq = node.seq
        /\ \/ b.seq = node.seq /\ node'.regress = node.regress
           \/ /\ b.seq < node.seq
              /\ node'.regress.last = b.seq /\ node'.regress.streak = 1
              /\ ~(node.regress.streak > 0 /\ b.seq > node.regress.last)
  BY <1>1, <1>3, <1>2, <1>4, <1>5
<1>8. RestartSeen(node, b.seq) =>
        b.seq = 1 \/ (node.regress.streak > 0 /\ b.seq > node.regress.last)
  BY <1>1, <1>3, <1>2
<1> QED BY <1>6, <1>7, <1>8

\* A beat above the last one moves the record.
LEMMA AboveTheLast ==
  ASSUME HeartbeatAssumption, BeatInv, OnBeat, NEW b, b = Head(inbox), 0 < last, last < b.seq
  PROVE  node'.seq = b.seq
<1>1. b.seq \in Nat /\ last \in Nat
  BY HandledBeat DEF BeatInv
<1>2. \/ last = node.seq
      \/ last < node.seq /\ node.regress.last = last /\ node.regress.streak > 0
  BY DEF BeatInv, Follows
<1>3. node.seq \in Nat
  BY DEF BeatInv, NodeOK
<1> QED BY <1>1, <1>2, <1>3, HandledNumber

\* The three conjuncts a beat can disturb.
LEMMA BeatKeeps ==
  ASSUME HeartbeatAssumption, BeatInv, OnBeat
  PROVE  Follows' /\ Suspects' /\ OnlineIsFresh' /\ strays' \in 0 .. 2 /\ base' \in Nat
         /\ newest' \in Nat \X Nat /\ last' \in Nat
<1> DEFINE b == Head(inbox)
<1>1. /\ b.seq \in Nat /\ b.process \in Nat
      /\ node'.known /\ node'.age = 0
      /\ last' = b.seq
      /\ base' = IF Moves(b) THEN b.process ELSE base
      /\ newest' = IF Older(b) THEN newest ELSE <<b.process, b.seq>>
      /\ strays' = IF Older(b) THEN IF strays < 2 THEN strays + 1 ELSE 2
                   ELSE IF Moves(b) THEN 0 ELSE strays
  BY HandledBeat
<1>2. /\ Moves(b) => node'.seq = b.seq /\ node'.regress = NoRun
      /\ ~Moves(b) =>
           /\ node.known /\ node'.seq = node.seq
           /\ \/ b.seq = node.seq /\ node'.regress = node.regress
              \/ /\ b.seq < node.seq
                 /\ node'.regress.last = b.seq /\ node'.regress.streak = 1
  BY HandledNumber
<1>3. Older(b) <=> b.process < newest[1] \/ (b.process = newest[1] /\ b.seq < newest[2])
  BY DEF Older
<1>4. /\ base \in Nat /\ newest \in Nat \X Nat /\ strays \in 0 .. 2 /\ node.seq \in Nat
      /\ newest[1] \in Nat /\ newest[2] \in Nat
  BY DEF BeatInv, NodeOK
<1>5. node.known =>
        /\ base < newest[1] \/ (base = newest[1] /\ node.seq <= newest[2])
        /\ node.regress.streak > 0 /\ newest[1] = base => strays > 0
  BY DEF BeatInv, Suspects
<1> HIDE DEF b
<1>6. Follows'
  BY <1>1, <1>2, <1>4 DEF Follows
<1>7. /\ newest'[1] = IF Older(b) THEN newest[1] ELSE b.process
      /\ newest'[2] = IF Older(b) THEN newest[2] ELSE b.seq
      /\ newest' \in Nat \X Nat
  BY <1>1, <1>4
<1>8. strays' \in 0 .. 2 /\ base' \in Nat /\ last' \in Nat
  BY <1>1, <1>4
<1>9. Suspects'
  <2>1. CASE Moves(b)
    <3>1. base' < newest'[1] \/ (base' = newest'[1] /\ node'.seq <= newest'[2])
      BY <1>1, <1>2, <1>3, <1>4, <1>7, <2>1
    <3>2. ~(node'.regress.streak > 0)
      BY <1>2, <2>1 DEF NoRun
    <3> QED BY <3>1, <3>2 DEF Suspects
  <2>2. CASE ~Moves(b)
    <3>1. /\ node.known /\ base' = base /\ node'.seq = node.seq
          /\ \/ b.seq = node.seq /\ node'.regress = node.regress
             \/ b.seq < node.seq /\ node'.regress.streak = 1
      BY <1>1, <1>2, <2>2
    <3>2. CASE Older(b)
      BY <1>1, <1>4, <1>5, <1>7, <3>1, <3>2 DEF Suspects
    <3>3. CASE ~Older(b)
      <4>1. strays' = strays /\ newest'[1] = b.process /\ newest'[2] = b.seq
        BY <1>1, <1>7, <2>2, <3>3
      <4>2. newest[1] < b.process \/ (newest[1] = b.process /\ newest[2] <= b.seq)
        BY <1>1, <1>3, <1>4, <3>3
      <4>3. base < b.process \/ (base = b.process /\ newest[1] = base /\ node.seq <= b.seq)
        BY <1>1, <1>4, <1>5, <3>1, <4>2
      <4>4. node'.regress.streak > 0 /\ base = b.process => strays > 0
        BY <1>1, <1>4, <1>5, <3>1, <4>3
      <4> QED BY <1>1, <1>4, <3>1, <4>1, <4>3, <4>4 DEF Suspects
    <3> QED BY <3>2, <3>3
  <2> QED BY <2>1, <2>2
<1>10. OnlineIsFresh'
  BY <1>1, RegistryAssumption DEF OnlineIsFresh, RegistryAssumption
<1> QED BY <1>6, <1>7, <1>8, <1>9, <1>10

-----------------------------------------------------------------------------
(* The invariant *)

LEMMA BeatsInit == HeartbeatAssumption /\ Init => BeatInv
<1> SUFFICES ASSUME HeartbeatAssumption, Init PROVE BeatInv
  OBVIOUS
<1> USE DEF Init
<1>1. NodeOK(node) /\ ArchOK(node) /\ ~node.known
  BY AbsentFields
<1>2. Beats(queue) /\ Beats(inbox) /\ Beats(posting.beats)
  BY NoBeats DEF Idle
<1>3. {"beats", "taken"} \subseteq DOMAIN posting
  BY DEF Idle
<1>4. Follows /\ Suspects /\ OnlineIsFresh
  BY <1>1 DEF Follows, Suspects, OnlineIsFresh
<1> QED BY <1>1, <1>2, <1>3, <1>4 DEF BeatInv

LEMMA BeatsStep == HeartbeatAssumption /\ BeatInv /\ [Next]_vars => BeatInv'
<1> SUFFICES ASSUME HeartbeatAssumption, BeatInv, [Next]_vars PROVE BeatInv'
  OBVIOUS
<1> USE DEF slave, history, hub, vars
\* What most steps leave alone.
<1> DEFINE Record == UNCHANGED <<node, history>>
<1>0. ASSUME Record
      PROVE  /\ NodeOK(node)' /\ ArchOK(node)' /\ (Follows /\ Suspects /\ OnlineIsFresh)'
             /\ last' \in Nat /\ base' \in Nat
             /\ newest' \in Nat \X Nat /\ strays' \in 0 .. 2
  BY <1>0 DEF BeatInv, Follows, Suspects, OnlineIsFresh, ArchOK
<1> HIDE DEF Record
<1>1. CASE Beat
  <2>1. seq' \in Nat /\ BeatOK(Payload)
    <3> DEFINE full == Digest(Collected(bucket)) # sent
               entries == IF full THEN Collected(bucket) ELSE << >>
               d == Digest(Collected(bucket))
    <3>1. Payload = [seq |-> NextSeq, process |-> process, digest |-> d, full |-> full, entries |-> entries]
      BY DEF Payload
    <3>2. full => entries \in Collections
      BY DEF BeatInv, Collections
    <3> HIDE DEF full, entries, d
    <3>3. seq' \in Nat /\ NextSeq \in Nat /\ process \in Nat
      BY <1>1, HeartbeatAssumption DEF BeatInv, Beat, NextSeq, HeartbeatAssumption
    <3>4. /\ Payload.seq = NextSeq /\ Payload.process = process
          /\ Payload.full = full /\ Payload.entries = entries
      BY <3>1
    <3> QED BY <3>2, <3>3, <3>4 DEF BeatOK
  <2>2. Beats(queue')
    BY <1>1, <2>1, OneMore DEF BeatInv, Beat
  <2>3. Record /\ UNCHANGED <<bucket, posting, inbox, ghosts, process>>
    BY <1>1 DEF Beat, Record
  <2> QED BY <1>0, <2>1, <2>2, <2>3 DEF BeatInv
<1>2. CASE Post
  <2>1. Record /\ UNCHANGED <<bucket, inbox, ghosts, process, seq>> /\ queue' = << >>
    BY <1>2 DEF Post, Record
  <2>2. posting'.beats = queue /\ {"beats", "taken"} \subseteq DOMAIN posting'
    BY <1>2 DEF Post
  <2> QED BY <1>0, <2>1, <2>2, NoBeats DEF BeatInv
<1>3. CASE PostSucceeds \/ PostFails \/ WaitTimesOut
  <2>1. Record /\ UNCHANGED <<bucket, inbox, process, seq, queue>>
    BY <1>3 DEF PostSucceeds, PostFails, WaitTimesOut, Record
  <2>2. /\ Beats(posting'.beats) /\ {"beats", "taken"} \subseteq DOMAIN posting'
    BY <1>3, NoBeats DEF PostSucceeds, PostFails, WaitTimesOut, Idle, BeatInv
  <2>3. \A g \in ghosts' : Beats(g)
    BY <1>3 DEF PostSucceeds, PostFails, WaitTimesOut, BeatInv
  <2> QED BY <1>0, <2>1, <2>2, <2>3 DEF BeatInv
<1>4. CASE Ingest
  <2>1. Record /\ UNCHANGED <<bucket, ghosts, process, seq, queue>>
    BY <1>4 DEF Ingest, Record
  <2>2. Beats(inbox')
    BY <1>4, BatchMore DEF Ingest, BeatInv
  <2>3. posting'.beats = posting.beats /\ {"beats", "taken"} \subseteq DOMAIN posting'
    BY <1>4 DEF Ingest, BeatInv
  <2> QED BY <1>0, <2>1, <2>2, <2>3 DEF BeatInv
<1>5. CASE IngestLate
  <2>1. Record /\ UNCHANGED <<bucket, posting, process, seq, queue>>
    BY <1>5 DEF IngestLate, Record
  <2>2. Beats(inbox') /\ \A g \in ghosts' : Beats(g)
    BY <1>5, BatchMore DEF IngestLate, BeatInv
  <2> QED BY <1>0, <2>1, <2>2 DEF BeatInv
<1>6. CASE OnBeat
  <2>1. UNCHANGED <<bucket, posting, process, seq, queue, ghosts>>
    BY <1>6 DEF OnBeat
  <2>2. NodeOK(node') /\ ArchOK(node') /\ Beats(inbox')
    BY <1>6, HandledBeat
  <2> QED BY <1>6, <2>1, <2>2, BeatKeeps DEF BeatInv
<1>7. CASE Deliver \/ LosePoll \/ ChangeBucket
  <2>1. Record /\ UNCHANGED <<posting, process, seq, queue, ghosts, inbox>> /\ bucket' \in Buckets
    BY <1>7 DEF Deliver, LosePoll, ChangeBucket, Record, BeatInv
  <2> QED BY <1>0, <2>1 DEF BeatInv
<1>8. CASE Sweep
  <2>1. UNCHANGED <<bucket, posting, process, seq, queue, ghosts, inbox, history>>
    BY <1>8 DEF Sweep
  <2> DEFINE a == IF node.known /\ node.age < AgeMax THEN node.age + SweepInterval ELSE node.age
  <2>2. node' = Swept([node EXCEPT !.age = a])
    BY <1>8 DEF Sweep
  <2>3. NodeOK(node) /\ ArchOK(node)
    BY DEF BeatInv
  <2> HIDE DEF a
  <2>4. /\ NodeOK(node') /\ node'.known = node.known
        /\ node'.seq = node.seq /\ node'.regress = node.regress
        /\ node'.known /\ node'.status = "online" => node'.age <= OfflineTimeout
    BY <2>2, <2>3, SweptFields
  <2>5. Follows' /\ Suspects' /\ OnlineIsFresh'
    BY <2>1, <2>4 DEF BeatInv, Follows, Suspects, OnlineIsFresh
  <2>6. ArchOK(node')
    BY <2>2, <2>3, ArchSwept
  <2> QED BY <2>1, <2>4, <2>5, <2>6 DEF BeatInv
<1>9. CASE RestartSlave
  <2>1. Record /\ UNCHANGED <<bucket, inbox>> /\ seq' = 0 /\ queue' = << >> /\ process' = process + 1
    BY <1>9 DEF RestartSlave, Record
  <2>2. /\ Beats(posting'.beats) /\ {"beats", "taken"} \subseteq DOMAIN posting'
    BY <1>9, NoBeats DEF RestartSlave, Idle
  <2>3. \A g \in ghosts' : Beats(g)
    BY <1>9 DEF RestartSlave, BeatInv
  <2> QED BY <1>0, <2>1, <2>2, <2>3, NoBeats DEF BeatInv
<1>10. CASE RestartMaster \/ RemoveNode
  <2>1. /\ UNCHANGED <<bucket, posting, process, seq, queue, ghosts>>
        /\ inbox' \in {inbox, << >>} /\ node' = Absent
        /\ last' = 0 /\ base' = 0 /\ newest' = <<0, 0>> /\ strays' = 0
    BY <1>10 DEF RestartMaster, RemoveNode
  <2>2. NodeOK(node') /\ ArchOK(node') /\ ~node'.known
    BY <2>1, AbsentFields
  <2>3. Follows' /\ Suspects' /\ OnlineIsFresh'
    BY <2>1, <2>2 DEF Follows, Suspects, OnlineIsFresh
  <2>4. Beats(inbox')
    BY <2>1, NoBeats DEF BeatInv
  <2> QED BY <2>1, <2>2, <2>3, <2>4 DEF BeatInv
<1>11. CASE UNCHANGED vars
  BY <1>11 DEF BeatInv, Follows, Suspects, OnlineIsFresh, ArchOK
<1> QED BY <1>1, <1>2, <1>3, <1>4, <1>5, <1>6, <1>7, <1>8, <1>9, <1>10, <1>11 DEF Next

\* What is remembered of the beats is what came, in every state.
THEOREM BeatsAlways == Spec => []BeatInv
<1>1. HeartbeatAssumption
  BY HeartbeatAssumption
<1> QED BY <1>1, BeatsInit, BeatsStep, PTL DEF Spec

\* Whatever was lost, late or repeated, and whichever side restarted: a node is never
\* online longer than the timeout after the last sweep saw it fresh (sweep).
THEOREM OnlineAlwaysFresh == Spec => []OnlineIsFresh
<1>1. BeatInv => OnlineIsFresh
  BY DEF BeatInv
<1> QED BY <1>1, BeatsAlways, PTL

\* However beats are lost, late or repeated, and whichever side restarts: the digest in the
\* record is the digest of the capabilities in it (accept, _archive_caps).
THEOREM ArchiveAlwaysTrue == Spec => []ArchiveIsTrue
<1>1. BeatInv => ArchiveIsTrue
  <2> SUFFICES ASSUME BeatInv, NEW c \in Buckets, node.digest = Digest(Collected(c))
               PROVE  node.caps = Archived(Collected(c))
    BY DEF ArchiveIsTrue
  <2>1. node.digest # NoDigest
    BY DEF Digest, NoDigest
  <2>2. PICK d \in Buckets : node.digest = Digest(Collected(d)) /\ node.caps = Archived(Collected(d))
    BY <2>1 DEF BeatInv, ArchOK, Collections
  <2>3. Collected(c) = Collected(d)
    BY <2>2, DigestAssumption DEF DigestAssumption
  <2> QED BY <2>2, <2>3
<1> QED BY <1>1, BeatsAlways, PTL

\* Two beats that arrive in order put the record on their numbers, whatever came before
\* (accept, _track_seq_regression).
THEOREM TwoBeatsAlwaysSettle == Spec => TwoBeatsSettle
<1>1. HeartbeatAssumption
  BY HeartbeatAssumption
<1>2. HeartbeatAssumption /\ BeatInv /\ [Next]_vars =>
        [\A b \in ToSet(inbox) : OnBeat /\ b = Head(inbox) /\ 0 < last /\ last < b.seq
           => node'.seq = b.seq]_vars
  BY AboveTheLast
<1> QED BY <1>1, <1>2, BeatsAlways, PTL DEF Spec, TwoBeatsSettle

\* A straggler of the process the record follows is recorded as a restart only if it bears
\* the number 1 or is the second of two (_track_seq_regression).
THEOREM RestartAlwaysReal == Spec => RestartIsReal
<1>1. HeartbeatAssumption
  BY HeartbeatAssumption
<1>2. ASSUME HeartbeatAssumption, BeatInv, OnBeat, NEW b, b = Head(inbox),
             Older(b), newest[1] = base, RestartSeen(node, b.seq)
      PROVE  b.seq = 1 \/ strays' = 2
  <2>1. b.seq = 1 \/ node.regress.streak > 0
    BY <1>2, HandledNumber
  <2>2. node.known
    BY <1>2 DEF RestartSeen
  <2>3. node.regress.streak > 0 => strays > 0
    BY <1>2, <2>2 DEF BeatInv, Suspects
  <2>4. strays' = IF strays < 2 THEN strays + 1 ELSE 2
    BY <1>2, HandledBeat
  <2> QED BY <1>2, <2>1, <2>3, <2>4 DEF BeatInv
<1>3. HeartbeatAssumption /\ BeatInv /\ [Next]_vars =>
        [\A b \in ToSet(inbox) :
           OnBeat /\ b = Head(inbox) /\ Older(b) /\ newest[1] = base /\ RestartSeen(node, b.seq)
             => b.seq = 1 \/ strays' = 2]_vars
  BY <1>2
<1> QED BY <1>1, <1>3, BeatsAlways, PTL DEF Spec, RestartIsReal

=============================================================================
