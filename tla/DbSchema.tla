------------------------------- MODULE DbSchema -------------------------------
(* The rows the database keeps of the data of one owner, and the steps by      *)
(* which DbService changes them: claiming a table before it exists, creating   *)
(* it, bringing an older one to the model of the code that is running by       *)
(* numbered migration steps, and dropping it.  An owner has one table.  Its    *)
(* structure is told by the version of the model it was made for or migrated   *)
(* to; columns, types and indices are left out.                                *)
EXTENDS Integers, Sequences

CONSTANT MaxVer                 \* versions of a plugin's code and model

(* row: there is a claims row; listed: it names the table; ver: the migration  *)
(* version it stores (0: NULL); keep: left behind on purpose; shape: structure *)
(* of the table (0: there is none); steps: the migration steps run on this     *)
(* table since it was created.                                                 *)
NoData == [row |-> FALSE, listed |-> FALSE, ver |-> 0, keep |-> FALSE, fp |-> 0, shape |-> 0, steps |-> <<>>]

(* A design error the properties must notice: the claim only records what is   *)
(* there already.                                                              *)
ClaimLate(d) == IF d.shape = 0 THEN d ELSE [d EXCEPT !.row = TRUE, !.listed = TRUE]

(* claim_table: nothing is written when the table is listed already, and the   *)
(* keep mark of an earlier uninstallation stays.                               *)
Claim(d) == [d EXCEPT !.row = TRUE, !.listed = TRUE]

Create(d, v) == IF d.shape = 0 THEN [d EXCEPT !.shape = v, !.steps = <<>>] ELSE d

(* _run_migrations.  A table created by this very call is at the latest model: *)
(* its version is written down and no step runs, provided none was recorded.   *)
IsBaseline(d, made) == made /\ d.ver = 0
Baseline(d, v) == [d EXCEPT !.ver = v]
NextStep(d) == IF d.ver = 0 THEN 2 ELSE d.ver + 1

(* A design error: the version is written by a later transaction.             *)
MigratedOnly(d) == LET k == NextStep(d)
                   IN  [d EXCEPT !.steps = Append(@, k), !.shape = IF @ < k THEN k ELSE @]

(* One step and its version are one transaction.                               *)
Migrated(d) == LET k == NextStep(d)
               IN  [d EXCEPT !.ver = k, !.steps = Append(@, k), !.shape = IF @ < k THEN k ELSE @]

Fingerprinted(d, v) == [d EXCEPT !.fp = v]

(* drop_owner, one transaction after another.                                  *)
Kept(d) == [d EXCEPT !.keep = d.row]
Dropped(d) == [d EXCEPT !.shape = 0, !.steps = <<>>]
Unclaimed(d) == [d EXCEPT !.listed = FALSE, !.fp = 0]

(* check_dependencies: the columns a consumer of version v requires are those  *)
(* of the producer's model of that version.                                    *)
Satisfies(d, v) == d.shape = v

(* consumers_of, over the stored records.                                      *)
Consumers(stored, needs, p) == {c \in DOMAIN stored : stored[c].ver # 0 /\ p \in needs[c]}

(* self_check: claimed, neither installed nor imported, and not kept.          *)
Orphans(db, stored, imported) ==
    {p \in DOMAIN db : db[p].row /\ stored[p].ver = 0 /\ p \notin imported /\ ~db[p].keep}
=============================================================================
