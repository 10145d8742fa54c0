------------------------------- MODULE MCLIDMap -------------------------------
(* Constants for model checking LIDMap.                                    *)
EXTENDS LIDMap, TLC

\* Users of one kind are interchangeable, and so are the lookups.
UserSymmetry == Permutations(PNs) \cup Permutations(LIDs) \cup Permutations(Getters)
=============================================================================
