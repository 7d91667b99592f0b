--------------------------- MODULE MCEdgeRequest ----------------------------
(* Small instances of EdgeRequest for TLC.                                 *)
EXTENDS EdgeRequest, TLC

(* Calls and ids are interchangeable.                                      *)
Symmetry == Permutations(IDs) \cup Permutations(Calls)

=============================================================================
