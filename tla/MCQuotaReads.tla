---------------------------- MODULE MCQuotaReads ----------------------------
(***************************************************************************)
(* QuotaReads for TLC: concurrent reads are interchangeable.               *)
(***************************************************************************)
EXTENDS QuotaReads, TLC

Symmetry == Permutations(Readers)
NamedKinds == {"glob", "file", "position", "host", "dashboard"}
=============================================================================
