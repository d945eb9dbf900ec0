---------------------------- MODULE MCEntryAdmission ----------------------------
(* EntryAdmission for TLC: threads, and keys, are interchangeable.            *)
EXTENDS EntryAdmission, TLC

Symmetry == Permutations(Tasks) \cup Permutations(Keys)
=============================================================================
