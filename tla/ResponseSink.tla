---------------------------- MODULE ResponseSink ----------------------------
(***************************************************************************)
(* The public response sink of the edge gateway (response_sink.go): the    *)
(* only pending.Target of the program.  One sink belongs to one held       *)
(* public request; an ingest stream writes through it and the public       *)
(* handler waits on it.  The operators below are the sink's methods as     *)
(* updates of its fields; the modules that extend this one call them.      *)
(*                                                                         *)
(* A sink's mutex protects started, completed and err, but the response    *)
(* writer itself is used outside it: a write is a check (SinkAccepts),     *)
(* then an unlocked write (SinkWrote), two steps of the callers.           *)
(*                                                                         *)
(* Definitions named Slip... are what a slip in the code would turn the    *)
(* definition after them into; nothing uses them but the mutation tests    *)
(* of the properties (see the README).                                     *)
(***************************************************************************)
EXTENDS Naturals

CONSTANTS
  Reqs,        \* held public requests: each has its registry entry and sink
  HeadReqs,    \* those with method HEAD: their bodies are discarded
  MaxChunks    \* bound on the chunks one connector body is made of

ASSUME SinkAssumption == HeadReqs \subseteq Reqs /\ MaxChunks \in Nat

VARIABLES
  gone,        \* requests whose r.Context() is done (client left, or
               \* the handler has returned)
  started,     \* requests whose sink has committed its response head
  completed,   \* requests whose sink has its final result (done is closed)
  sinkErr,     \* that result; "nil" is success
  body,        \* chunks written to the response writer
  lateWrites   \* history: writes that reached the writer after completion

sinkVars == <<started, completed, sinkErr, body, lateWrites>>

(* The errors a sink can be completed with, as far as a caller tells them  *)
(* apart: the registry's own two, the failure of the copy from the         *)
(* connector, the public context's two, and those of the handler before it *)
(* waits: no ticket could be made, or it could not be published.           *)
Errors ==
  {"canceled", "expired", "stream", "clientGone", "deadline", "setup", "publish"}
Results == Errors \cup {"nil"}

SinkInit ==
  /\ gone = {}
  /\ started = {}
  /\ completed = {}
  /\ sinkErr = [r \in Reqs |-> "nil"]
  /\ body = [r \in Reqs |-> 0]
  /\ lateWrites = [r \in Reqs |-> 0]

(* Start refuses a finished sink and a context that is done.               *)
SinkStartable(r) == r \notin gone /\ r \notin completed

(* The error of a Start that is refused, completionErrorLocked included.   *)
SinkRefusal(r) ==
  IF r \in gone THEN "clientGone"
  ELSE IF sinkErr[r] # "nil" THEN sinkErr[r] ELSE "stream"

SinkStart(r) ==
  /\ started' = started \cup {r}
  /\ UNCHANGED <<completed, sinkErr, body, lateWrites>>

(* complete: the first result wins, every later one is dropped.            *)
SinkComplete(r, e) ==
  /\ IF r \in completed
       THEN UNCHANGED <<completed, sinkErr>>
       ELSE /\ completed' = completed \cup {r}
            /\ sinkErr' = [sinkErr EXCEPT ![r] = e]
  /\ UNCHANGED <<started, body, lateWrites>>

(* The error Finish(e) returns: that of the completion that won.           *)
SlipFinishResult(r, e) == e
FinishResult(r, e) == IF r \in completed THEN sinkErr[r] ELSE e

(* The check at the head of write and of discard.                          *)
SlipSinkAccepts(r) == r \notin gone
SinkAccepts(r) == r \notin gone /\ r \notin completed

(* The unlocked part of a write in which n chunks reach the writer.        *)
SinkWrote(r, n) ==
  /\ body' = [body EXCEPT ![r] = @ + n]
  /\ lateWrites' = [lateWrites EXCEPT ![r] = @ + IF r \in completed THEN n ELSE 0]
  /\ UNCHANGED <<started, completed, sinkErr>>

SinkTypeOK ==
  /\ gone \subseteq Reqs
  /\ started \subseteq Reqs
  /\ completed \subseteq Reqs
  /\ sinkErr \in [Reqs -> Results]
  /\ body \in [Reqs -> Nat]
  /\ lateWrites \in [Reqs -> Nat]
=============================================================================
