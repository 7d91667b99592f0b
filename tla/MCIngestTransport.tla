------------------------- MODULE MCIngestTransport --------------------------
(* Small instances of IngestTransport for TLC: one call with a body of     *)
(* known length, which does not fit the window, beside one of either kind. *)
EXTENDS IngestTransport, TLC

CONSTANTS c1, c2

MCJobs == (c1 :> {[size |-> 2, known |-> TRUE]}) @@
          (c2 :> {[size |-> 1, known |-> TRUE], [size |-> 1, known |-> FALSE]})
=============================================================================
