---------------------------- MODULE MCAccountPairing ----------------------------
(* AccountPairing for TLC: the members of each set are interchangeable.      *)
EXTENDS AccountPairing, TLC

Symmetry == Permutations(Pairings) \cup Permutations(Connectors)
            \cup Permutations(Identities)

\* Wrong codes touch sessions and their rows only, bind_connector touches
\* accounts only: a behaviour has the one or the other.
GuessesOrRebinds == wrong = 0 \/ \A r \in Rebinds : rebind[r].stage = "new"
=============================================================================
