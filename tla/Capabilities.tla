---------------------------- MODULE Capabilities ----------------------------
(***************************************************************************)
(* Capability envelopes (common/capabilities.py): what plugins put into    *)
(* the bucket of a collection, what of it travels, and what is kept of it. *)
(* A raw entry is a record with a mark: "bad" is no envelope or not        *)
(* serialisable and never leaves the node.  Only the order of equal keys   *)
(* matters to the receiver, and the sender sorts, so a collection is the   *)
(* sequence sorted by the canonical form, here the field rank.             *)
(***************************************************************************)
EXTENDS Integers, Sequences, FiniteSets, SequencesExt

\* collect_capabilities: bad entries are dropped, the rest is sorted.
Collected(bucket) ==
  SortSeq(SelectSeq(bucket, LAMBDA e : ~e.bad), LAMBDA e, f : e.rank < f.rank)

\* capabilities_digest: equal for the same entries in any order, repetitions counted.
Digest(entries) ==
  <<TRUE, {<<e, Cardinality({i \in DOMAIN entries : entries[i] = e})>> : e \in ToSet(entries)}>>

\* The empty string in place of a digest: no collection has it.
NoDigest == <<FALSE, {}>>

Key(e) == <<e.kind, e.id>>

\* NodeRegistry._archive_caps: of equal keys the later replaces the earlier.
Archived(entries) ==
  {entries[i] : i \in {n \in DOMAIN entries :
     \A m \in DOMAIN entries : m > n => Key(entries[m]) # Key(entries[n])}}

=============================================================================
