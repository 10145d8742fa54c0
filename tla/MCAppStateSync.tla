---------------------------- MODULE MCAppStateSync ----------------------------
(* Instance of AppStateSync for TLC. *)
EXTENDS AppStateSync

CONSTANTS a, b

MCKeys == 1..2

Set(i) == [op |-> "SET", index |-> i]
Remove(i) == [op |-> "REMOVE", index |-> i]

\* A value under a key that may be missing, a patch for two indexes, and an index mentioned twice
MCUpdates ==
    {[muts |-> <<Set(a)>>, key |-> 2]} \cup
    {[muts |-> m, key |-> 1] : m \in {<<Remove(a), Set(b)>>, <<Set(a), Remove(a)>>, <<Remove(a), Set(a)>>}}

MCSends == {<<Set(a), Set(b)>>}
=============================================================================
