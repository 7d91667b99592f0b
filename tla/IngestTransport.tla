--------------------------- MODULE IngestTransport ---------------------------
(***************************************************************************)
(* An object on its way from the connector to the edge: the sender of the  *)
(* connector, the ingest server of the edge and the connection between     *)
(* them.  Over tcp, smux and quic ("framed") a header is followed by the   *)
(* body and, when the edge has it all, by one byte of acknowledgement;     *)
(* over http the body is that of a POST and the status acknowledges it.    *)
(*                                                                         *)
(* How the edge's request is held, started and ended is in PendingRegistry *)
(* and EdgeRequest, how a stream is opened in SessionPool; here each is    *)
(* one step, and the subject is what each side concludes from what it sees *)
(* of the other.  Bodies are counted in blocks.                            *)
(***************************************************************************)
EXTENDS Integers, FiniteSets

CONSTANTS
  Calls,      \* calls of Send, each for a request of its own
  Jobs,       \* what each may send: its size, and whether its length is known
  Window,     \* blocks on their way that a connection or stream holds
  MaxFaults   \* bound on failures of connections and resets of sessions

ASSUME TransportAssumption ==
  /\ Jobs \in [Calls -> SUBSET [size : Nat, known : BOOLEAN]]
  /\ Window \in Nat \ {0}
  /\ MaxFaults \in Nat

Transports == {"http", "tcp", "smux", "quic"}

VARIABLES
  transport,  \* what both sides are configured for
  job,        \* what each call sends
  ctxDone,    \* calls whose context has ended
  client,     \* where each call is
  written,    \* blocks of the body written
  up,         \* the direction to the edge: open, ended or aborted
  server,     \* where the edge's handler of the call is
  copied,     \* blocks of the body it has passed on
  edge,       \* the public request of the call
  down,       \* the direction to the connector: empty, the ack, or closed
  cut,        \* calls whose connection is gone at the connector
  faults      \* failures and resets so far

bodyVars == <<job, transport>>
clientVars == <<client, written>>
serverVars == <<server, copied, edge>>
vars == <<bodyVars, ctxDone, clientVars, up, serverVars, down, cut, faults>>

Init ==
  /\ transport \in Transports
  /\ job \in [Calls -> UNION {Jobs[c] : c \in Calls}] /\ \A c \in Calls : job[c] \in Jobs[c]
  /\ ctxDone = {} /\ cut = {} /\ faults = 0
  /\ client = [c \in Calls |-> "idle"] /\ written = [c \in Calls |-> 0]
  /\ up = [c \in Calls |-> "open"]     /\ down = [c \in Calls |-> "empty"]
  /\ server = [c \in Calls |-> "none"] /\ copied = [c \in Calls |-> 0]
  /\ edge = [c \in Calls |-> "held"]

Framed == transport # "http"
Shared == transport \in {"smux", "quic"}
Sending(c) == client[c] \in {"sending", "awaiting"}
Moves(f, c, from, to) == f[c] = from /\ f' = [f EXCEPT ![c] = to]
-----------------------------------------------------------------------------
(* The context of a job: its deadline, or the connector's stop.  (While it *)
(* copies, a call over tcp knows of the deadline only.  A context that ends*)
(* before the call begins is among the reasons of CannotSend.)             *)
CtxEnds(c) ==
  /\ Sending(c) /\ c \notin ctxDone
  /\ ctxDone' = ctxDone \cup {c}
  /\ UNCHANGED <<bodyVars, clientVars, up, serverVars, down, cut, faults>>

(* The connector.  Nothing reaches the edge's registry of a call whose     *)
(* metadata is refused or whose stream cannot be opened.                   *)
CannotSend(c) ==
  /\ Moves(client, c, "idle", "failed")
  /\ UNCHANGED <<bodyVars, ctxDone, written, up, serverVars, down, cut, faults>>

Begin(c) ==
  /\ Moves(client, c, "idle", "sending")
  /\ server' = [server EXCEPT ![c] = "accepted"]
  /\ UNCHANGED <<bodyVars, ctxDone, written, up, copied, edge, down, cut, faults>>

(* What the connection can still take.  The streams of a smux session share*)
(* one buffer at the edge, so one that is not read holds up the others.    *)
(* What an edge that has closed its end does not read is thrown away, but  *)
(* for quic, whose server never says that it will not read.                *)
OnTheWay(c) == written[c] - copied[c]
Unread(c) == server[c] \in {"accepted", "copying"}
HasRoom(c) ==
  CASE transport = "quic" -> OnTheWay(c) < Window
    [] transport = "smux" -> \A d \in Calls : Unread(d) => OnTheWay(d) < Window
    [] OTHER -> Unread(c) => OnTheWay(c) < Window

Write(c) ==
  /\ client[c] = "sending" /\ c \notin cut
  /\ written[c] < job[c].size /\ HasRoom(c)
  /\ written' = [written EXCEPT ![c] = @ + 1]
  /\ UNCHANGED <<bodyVars, ctxDone, client, up, serverVars, down, cut, faults>>

(* copyClientBody is done; the end of a body of unknown length is sent.    *)
BodyWritten(c) ==
  /\ Moves(client, c, "sending", "awaiting")
  /\ c \notin cut /\ written[c] = job[c].size
  /\ up' = IF job[c].known THEN up ELSE [up EXCEPT ![c] = "ended"]
  /\ UNCHANGED <<bodyVars, ctxDone, written, serverVars, down, cut, faults>>

SlipReadAck(c) ==
  /\ Moves(client, c, "awaiting", "ok")
  /\ down[c] # "empty"
  /\ c \notin ctxDone
  /\ up' = [up EXCEPT ![c] = IF @ = "open" THEN "ended" ELSE @]
  /\ UNCHANGED <<bodyVars, ctxDone, written, serverVars, down, cut, faults>>

(* An acknowledgement that comes with the end of the context is not one;   *)
(* only net/http may still return a response it has.                       *)
ReadAck(c) ==
  /\ Moves(client, c, "awaiting", "ok")
  /\ down[c] = "ack"
  /\ Framed => c \notin ctxDone
  /\ up' = [up EXCEPT ![c] = IF @ = "open" THEN "ended" ELSE @]
  /\ UNCHANGED <<bodyVars, ctxDone, written, serverVars, down, cut, faults>>

(* How the edge sees a call end that gave up: net/http aborts its request, *)
(* the framed senders close their stream, which ends it like a whole body; *)
(* on tcp a record may be cut in two.                                      *)
SlipAfterGivingUp == {"open"}
AfterGivingUp ==
  CASE transport = "http" -> {"aborted"}
    [] transport = "tcp" -> {"ended", "aborted"}
    [] OTHER -> {"ended"}

GivesUp(c) ==
  /\ \E end \in AfterGivingUp : up' = [up EXCEPT ![c] = IF @ = "open" THEN end ELSE @]
  /\ client' = [client EXCEPT ![c] = "failed"]
  /\ UNCHANGED <<bodyVars, ctxDone, written, serverVars, down, cut, faults>>

(* The body from S3 breaks off.                                            *)
BodyBreaks(c) == client[c] = "sending" /\ written[c] < job[c].size /\ GivesUp(c)

SlipSendFails(c) == down[c] = "closed" /\ client[c] = "awaiting" /\ GivesUp(c)
SendFails(c) ==
  /\ \/ c \in ctxDone /\ Sending(c)
     \/ c \in cut /\ Sending(c)
     \/ down[c] = "closed" /\ client[c] = "awaiting"
     \/ down[c] = "closed" /\ client[c] = "sending" /\ transport \in {"http", "tcp"}
  /\ GivesUp(c)
-----------------------------------------------------------------------------
(* The edge.                                                               *)
Closes(c) == down' = [down EXCEPT ![c] = IF @ = "empty" THEN "closed" ELSE @]

(* A header that does not arrive, a request that is not there any more.    *)
Refuse(c) ==
  /\ Moves(server, c, "accepted", "done")
  /\ edge[c] # "held" \/ up[c] # "open"
  /\ Closes(c)
  /\ UNCHANGED <<bodyVars, ctxDone, clientVars, up, copied, edge, cut, faults>>

StartIngest(c) ==
  /\ Moves(server, c, "accepted", "copying")
  /\ Moves(edge, c, "held", "streaming")
  /\ UNCHANGED <<bodyVars, ctxDone, clientVars, up, copied, down, cut, faults>>

Copy(c) ==
  /\ server[c] = "copying" /\ edge[c] = "streaming"
  /\ copied[c] < written[c]
  /\ copied' = [copied EXCEPT ![c] = @ + 1]
  /\ UNCHANGED <<bodyVars, ctxDone, clientVars, up, server, edge, down, cut, faults>>

(* copyBody: a body of known length is whole when that much has come, one  *)
(* of unknown length when the stream has ended.                            *)
AtEnd(c) == up[c] = "ended" /\ copied[c] = written[c]
SlipIsWhole(c) == AtEnd(c) \/ (job[c].known /\ copied[c] = job[c].size)
IsWhole(c) == IF job[c].known THEN copied[c] = job[c].size ELSE AtEnd(c)
IsShort(c) == up[c] = "aborted" \/ (AtEnd(c) /\ ~IsWhole(c))

CopyWhole(c) ==
  /\ Moves(server, c, "copying", "acking")
  /\ IsWhole(c)
  /\ Moves(edge, c, "streaming", "finished")
  /\ UNCHANGED <<bodyVars, ctxDone, clientVars, up, copied, down, cut, faults>>

CopyFails(c) ==
  /\ Moves(server, c, "copying", "done")
  /\ IsShort(c) \/ edge[c] = "gone"
  /\ edge' = [edge EXCEPT ![c] = IF @ = "gone" THEN @ ELSE "failed"]
  /\ Closes(c)
  /\ UNCHANGED <<bodyVars, ctxDone, clientVars, up, copied, cut, faults>>

Ack(c) ==
  /\ Moves(server, c, "acking", "done")
  /\ down' = [down EXCEPT ![c] = IF @ = "empty" THEN "ack" ELSE @]
  /\ UNCHANGED <<bodyVars, ctxDone, clientVars, up, copied, edge, cut, faults>>

(* The public request ends for a reason of its own.                        *)
EdgeEnds(c) ==
  /\ edge[c] \in {"held", "streaming"}
  /\ edge' = [edge EXCEPT ![c] = "gone"]
  /\ UNCHANGED <<bodyVars, ctxDone, clientVars, up, server, copied, down, cut, faults>>
-----------------------------------------------------------------------------
(* The connection.  Streams of a session share its fate.                   *)
Together(c) == IF Shared THEN {d \in Calls : Sending(d)} ELSE {c}

Breaks(S, end) ==
  /\ faults < MaxFaults /\ faults' = faults + 1
  /\ cut' = cut \cup S
  /\ up' = [d \in Calls |-> IF d \in S /\ up[d] = "open" THEN end ELSE up[d]]
  /\ down' = [d \in Calls |-> IF d \in S THEN "closed" ELSE down[d]]
  /\ UNCHANGED <<bodyVars, ctxDone, clientVars, serverVars>>

ConnectionFails(c) == Sending(c) /\ Breaks(Together(c), "aborted")

(* A smux sender whose next call finds no stream closes the session that   *)
(* the others use (SessionPool's Reset); so does Close.  A session that is *)
(* closed in order ends its streams at the edge like whole bodies.         *)
SessionReset(c) ==
  /\ transport = "smux" /\ client[c] = "idle"
  /\ Breaks({d \in Calls : Sending(d)}, "ended")

ConnectorStep(c) ==
  \/ CannotSend(c) \/ Begin(c) \/ Write(c) \/ BodyWritten(c) \/ ReadAck(c)
  \/ BodyBreaks(c) \/ SendFails(c)

EdgeStep(c) ==
  Refuse(c) \/ StartIngest(c) \/ Copy(c) \/ CopyWhole(c) \/ CopyFails(c) \/ Ack(c)

Next == \E c \in Calls :
  ConnectorStep(c) \/ EdgeStep(c) \/ CtxEnds(c) \/ EdgeEnds(c) \/ ConnectionFails(c) \/ SessionReset(c)

Spec == Init /\ [][Next]_vars

(* Every job has a deadline, and what a call or a handler can do it does;  *)
(* nothing is assumed of the deadline of the edge, nor that S3 delivers.   *)
FairSpec ==
  /\ Spec
  /\ \A c \in Calls : WF_vars(CtxEnds(c)) /\ WF_vars(SendFails(c)) /\ WF_vars(EdgeStep(c))
-----------------------------------------------------------------------------
TypeOK ==
  /\ transport \in Transports
  /\ job \in [Calls -> [size : Nat, known : BOOLEAN]] /\ \A c \in Calls : job[c] \in Jobs[c]
  /\ ctxDone \subseteq Calls /\ cut \subseteq Calls /\ faults \in 0..MaxFaults
  /\ client \in [Calls -> {"idle", "sending", "awaiting", "ok", "failed"}]
  /\ written \in [Calls -> Nat] /\ copied \in [Calls -> Nat]
  /\ up \in [Calls -> {"open", "ended", "aborted"}]
  /\ down \in [Calls -> {"empty", "ack", "closed"}]
  /\ server \in [Calls -> {"none", "accepted", "copying", "acking", "done"}]
  /\ edge \in [Calls -> {"held", "streaming", "finished", "failed", "gone"}]
  /\ \A c \in Calls : copied[c] <= written[c] /\ written[c] <= job[c].size

(* A send that returns without an error has delivered: the client of the   *)
(* edge has every block, and its response was ended as a complete one.     *)
AckedIsWhole ==
  \A c \in Calls : client[c] = "ok" => edge[c] = "finished" /\ copied[c] = job[c].size

(* The edge ends a response as a complete one only when it is, whatever    *)
(* becomes of the connector, its context, S3 and the connection: for every *)
(* body of known length and, over http, for every body.  A framed body of  *)
(* unknown length may end short, and only when its sender knows.           *)
FinishedIsWhole ==
  \A c \in Calls : edge[c] = "finished" /\ copied[c] # job[c].size =>
    Framed /\ ~job[c].known /\ client[c] # "ok" /\ (client[c] = "failed" \/ c \in cut)

(* A sender that gave up does not leave the edge waiting for the rest: the *)
(* response ends without the deadline of the edge.                         *)
FailureIsNoticed ==
  \A c \in Calls : client[c] = "failed" /\ edge[c] = "streaming" ~> edge[c] # "streaming"

(* Every send returns: when the edge refuses and does not read, when the   *)
(* stream of another call fills the session, when the ack is lost.         *)
SendsReturn == \A c \in Calls : Sending(c) ~> ~Sending(c)
-----------------------------------------------------------------------------
(* The parts of the inductive invariant that are not properties above.     *)

(* Who waits for the acknowledgement has written the whole body; a stream  *)
(* that ended before that is a framed one whose sender gave up or whose    *)
(* connection is gone.                                                     *)
UpInv ==
  \A c \in Calls :
    /\ client[c] \in {"awaiting", "ok"} => written[c] = job[c].size
    /\ up[c] = "ended" /\ written[c] # job[c].size =>
         Framed /\ (client[c] = "failed" \/ c \in cut)

(* Only the handler of a call that began finishes its response.  The       *)
(* acknowledgement is sent for a finished one, and is not there for a      *)
(* connector that is cut off.                                              *)
AckInv ==
  \A c \in Calls :
    /\ client[c] = "idle" => server[c] = "none"
    /\ edge[c] = "finished" => server[c] \in {"acking", "done"}
    /\ server[c] = "acking" => edge[c] = "finished"
    /\ down[c] = "ack" => edge[c] = "finished"
    /\ c \in cut => down[c] = "closed"

TransportInv == TypeOK /\ UpInv /\ AckInv /\ AckedIsWhole /\ FinishedIsWhole
=============================================================================
