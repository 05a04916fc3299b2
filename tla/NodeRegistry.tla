---------------------------- MODULE NodeRegistry ----------------------------
(***************************************************************************)
(* The master's record of one slave node (master_plugins/heartbeat/        *)
(* registry.py): what a beat and a sweep make of it.                       *)
(***************************************************************************)
EXTENDS Integers, Capabilities

CONSTANTS
  Interval, OfflineTimeout, LostTimeout  \* of HeartbeatServerConfig, in ticks

ASSUME RegistryAssumption ==
  /\ {Interval, OfflineTimeout, LostTimeout} \subseteq Nat \ {0}
  /\ OfflineTimeout < LostTimeout

NoRun == [last |-> 0, streak |-> 0]  \* no entry in _regress

Absent == [known |-> FALSE, seq |-> 0, caps |-> {}, digest |-> NoDigest, age |-> 0,
  status |-> "online", regress |-> NoRun]

Restarted(r, seq) == [r EXCEPT !.seq = seq, !.regress = NoRun]

\* Mutant of Regressed: the run of low numbers is not remembered.
RegressedForgotten(r, seq) == IF seq = 1 THEN Restarted(r, seq) ELSE r

\* Mutant of Regressed: any lower number is taken for a restart.
RegressedEager(r, seq) == Restarted(r, seq)

\* _track_seq_regression: 1 is a restart at once, otherwise two rising numbers below
\* the baseline are.
Regressed(r, seq) ==
  LET streak == IF r.regress.streak > 0 /\ seq > r.regress.last THEN r.regress.streak + 1 ELSE 1
  IN IF seq = 1 \/ streak >= 2 THEN Restarted(r, seq)
     ELSE [r EXCEPT !.regress = [last |-> seq, streak |-> streak]]

Numbered(r, seq) ==
  IF ~r.known THEN [r EXCEPT !.known = TRUE, !.seq = seq]
  ELSE IF seq < r.seq THEN Regressed(r, seq)
  ELSE IF seq > r.seq THEN [r EXCEPT !.seq = seq, !.regress = NoRun]
  ELSE r

\* _commit_restart, the event in the history: what Regressed makes of a lower number.
RestartSeen(r, seq) == r.known /\ seq < r.seq /\ Numbered(r, seq).seq = seq

\* Mutant of WithCaps: the digest of the beat is taken without its entries.
WithCapsNamed(r, b) ==
  IF b.full THEN [r EXCEPT !.caps = Archived(b.entries), !.digest = Digest(b.entries)]
  ELSE [r EXCEPT !.digest = b.digest]

WithCaps(r, b) ==
  IF b.full THEN [r EXCEPT !.caps = Archived(b.entries), !.digest = Digest(b.entries)] ELSE r

Accepted(r, b) ==
  [WithCaps(Numbered(r, b.seq), b) EXCEPT !.age = 0, !.status = "online"]

NeedCaps(r, b) == r.digest # b.digest

StatusAt(age) ==
  IF age <= OfflineTimeout THEN "online" ELSE IF age <= LostTimeout THEN "offline" ELSE "lost"

\* Mutant of Swept: a node is judged by the whole beats it missed.
SweptByBeats(r) ==
  IF r.known THEN [r EXCEPT !.status = StatusAt((r.age \div Interval) * Interval)] ELSE r

\* sweep: a lost node stays lost until a beat comes.
Swept(r) ==
  IF r.known /\ r.status # "lost" THEN [r EXCEPT !.status = StatusAt(r.age)] ELSE r

=============================================================================
