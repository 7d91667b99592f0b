------------------------- MODULE MCPendingRegistry --------------------------
(* Small instances of PendingRegistry for TLC.                             *)
EXTENDS PendingRegistry, TLC

(* Calls and ids are interchangeable, and so are requests of one method.   *)
CallSymmetry == Permutations(IDs) \cup Permutations(Calls)
Symmetry == CallSymmetry \cup Permutations(Reqs)

=============================================================================
