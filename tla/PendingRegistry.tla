-------------------------- MODULE PendingRegistry ---------------------------
(***************************************************************************)
(* The registry of held public requests (internal/pending) with the ingest *)
(* streams it hands out, at the granularity of its locks: every section    *)
(* under Registry.mu, IngestStream.mu or the sink's mutex is one step, and *)
(* so is every unlocked write between two of them.                         *)
(*                                                                         *)
(* A request is the entry made by one Register call together with its      *)
(* target; ids name entries in the map and may be used again.  A call is   *)
(* one StartIngest call and the stream it may return, used by the one      *)
(* goroutine that made the call.  Who calls what, and when, is free here;  *)
(* EdgeRequest restricts it to what the gateway does.                      *)
(***************************************************************************)
EXTENDS ResponseSink

CONSTANTS
  IDs,         \* request ids
  Calls,       \* StartIngest calls
  CancelErrors,\* the errors callers give to Cancel
  None         \* no request, no id, no call

ASSUME RegistryAssumption ==
  /\ None \notin Reqs \cup IDs \cup Calls
  /\ CancelErrors \subseteq Results

VARIABLES
  entries,     \* Registry.entries: the map from id to request
  reqID,       \* the id a request was registered under, or None
  late,        \* requests whose deadline is not after the clock
  claimed,     \* entry.claimed
  streamOf,    \* entry.stream: the call that owns the stream, or None
  notify,      \* what the caller that removed a request from the map still
               \* has to tell: "stream", then "target", then it is "done"
  cause,       \* the error it tells them
  pc,          \* where each call is
  callID,      \* its request id argument
  token,       \* its token argument: the request whose token it is, or None
  sawLate,     \* its clock: the requests that were late when it read the time
  target,      \* IngestStream.target, None before the claim
  streamErr,   \* IngestStream.err
  result       \* what the latest Write or Close of the stream returned

regVars == <<entries, reqID, claimed, streamOf, notify, cause>>
callVars == <<pc, callID, token, sawLate, target, streamErr, result>>
pendingVars == <<gone, late, sinkVars, regVars, callVars>>

PCs == {"idle", "clocked", "refused", "open", "writing", "wrote",
        "finishing", "removing", "closed"}

(* Calls that hold a stream they have not closed.                          *)
Streaming == {"open", "writing", "wrote", "finishing", "removing"}

InMap(r) == reqID[r] # None /\ entries[reqID[r]] = r

RegistryInit ==
  /\ entries = [i \in IDs |-> None]
  /\ reqID = [r \in Reqs |-> None]
  /\ claimed = {}
  /\ streamOf = [r \in Reqs |-> None]
  /\ notify = [r \in Reqs |-> "none"]
  /\ cause = [r \in Reqs |-> "nil"]

CallInit ==
  /\ pc = [s \in Calls |-> "idle"]
  /\ callID = [s \in Calls |-> None]
  /\ token = [s \in Calls |-> None]
  /\ sawLate = [s \in Calls |-> {}]
  /\ target = [s \in Calls |-> None]
  /\ streamErr = [s \in Calls |-> "nil"]
  /\ result = [s \in Calls |-> "nil"]

PendingInit ==
  /\ SinkInit
  /\ late = {}
  /\ RegistryInit
  /\ CallInit
-----------------------------------------------------------------------------
(* The world around the registry: deadlines pass, contexts end.            *)

DeadlinePasses(r) ==
  /\ reqID[r] # None
  /\ r \notin late
  /\ late' = late \cup {r}
  /\ UNCHANGED <<gone, sinkVars, regVars, callVars>>

ContextEnds(r) ==
  /\ reqID[r] # None
  /\ r \notin gone
  /\ gone' = gone \cup {r}
  /\ UNCHANGED <<late, sinkVars, regVars, callVars>>
-----------------------------------------------------------------------------
(* Register: an id that is in the map is refused (ErrAlreadyExists).       *)
Register(r, i) ==
  /\ reqID[r] = None
  /\ entries[i] = None
  /\ entries' = [entries EXCEPT ![i] = r]
  /\ reqID' = [reqID EXCEPT ![r] = i]
  /\ UNCHANGED <<gone, late, sinkVars, claimed, streamOf, notify, cause, callVars>>

(* What Cancel, Expire and a StartIngest that gives up do under the lock:  *)
(* the requests rs leave the map, and their remover owes the notifications *)
(* from owed[r] on.                                                        *)
SlipDetach(rs, e, owed) ==
  /\ notify' = [r \in Reqs |-> IF r \in rs THEN owed[r] ELSE notify[r]]
  /\ cause' = [r \in Reqs |-> IF r \in rs THEN e ELSE cause[r]]
  /\ UNCHANGED <<entries, reqID, streamOf>>

Detach(rs, e, owed) ==
  /\ entries' = [i \in IDs |-> IF entries[i] \in rs THEN None ELSE entries[i]]
  /\ notify' = [r \in Reqs |-> IF r \in rs THEN owed[r] ELSE notify[r]]
  /\ cause' = [r \in Reqs |-> IF r \in rs THEN e ELSE cause[r]]
  /\ UNCHANGED <<reqID, streamOf>>

(* Cancel and Expire tell a stream, if there is one, before the target;    *)
(* StartIngest tells the target alone.                                     *)
StreamFirst == [r \in Reqs |-> IF streamOf[r] # None THEN "stream" ELSE "target"]
TargetOnly == [r \in Reqs |-> "target"]

(* A nil error is replaced, here as in the stream's and the sink's cancel. *)
CancelError(e) == IF e = "nil" THEN "canceled" ELSE e

(* Cancel, the locked part; an id that is not in the map changes nothing.  *)
Cancel(i, e) ==
  /\ entries[i] # None
  /\ Detach({entries[i]}, CancelError(e), StreamFirst)
  /\ UNCHANGED <<gone, late, sinkVars, claimed, callVars>>

(* Expire, the locked part: one sweep takes every late request.            *)
Expire ==
  LET expired == {r \in late : InMap(r)}
  IN  /\ expired # {}
      /\ Detach(expired, "expired", StreamFirst)
      /\ UNCHANGED <<gone, late, sinkVars, claimed, callVars>>

(* The unlocked parts: first the stream (IngestStream.cancel keeps the     *)
(* first error), then the target.                                          *)
NotifyStream(r) ==
  /\ notify[r] = "stream"
  /\ streamErr' = [streamErr EXCEPT ![streamOf[r]] = IF @ = "nil" THEN cause[r] ELSE @]
  /\ notify' = [notify EXCEPT ![r] = "target"]
  /\ UNCHANGED <<gone, late, sinkVars, entries, reqID, claimed, streamOf, cause,
                 pc, callID, token, sawLate, target, result>>

NotifyTarget(r) ==
  /\ notify[r] = "target"
  /\ SinkComplete(r, cause[r])
  /\ notify' = [notify EXCEPT ![r] = "done"]
  /\ UNCHANGED <<gone, late, entries, reqID, claimed, streamOf, cause, callVars>>
-----------------------------------------------------------------------------
(* StartIngest: the clock is read before the lock is taken.                *)
ReadClock(s, i, t) ==
  /\ pc[s] = "idle"
  /\ pc' = [pc EXCEPT ![s] = "clocked"]
  /\ callID' = [callID EXCEPT ![s] = i]
  /\ token' = [token EXCEPT ![s] = t]
  /\ sawLate' = [sawLate EXCEPT ![s] = late]
  /\ UNCHANGED <<gone, late, sinkVars, regVars, target, streamErr, result>>

Refuse(s) ==
  /\ pc' = [pc EXCEPT ![s] = "refused"]
  /\ UNCHANGED <<callID, token, sawLate, target, streamErr, result>>

(* The outcomes of the locked part, in the order the code decides them.    *)
ClaimMissing(s) ==
  /\ pc[s] = "clocked"
  /\ entries[callID[s]] = None
  /\ Refuse(s)
  /\ UNCHANGED <<gone, late, sinkVars, regVars>>

(* currentError: the deadline is not after the time the call has read.  It *)
(* is looked at before the claim and the token, so a call with any token   *)
(* takes a late request out of the map, in the middle of its stream too.   *)
Expired(r, s) == r \in sawLate[s]

ClaimExpired(s) ==
  LET r == entries[callID[s]]
  IN  /\ pc[s] = "clocked"
      /\ r # None
      /\ Expired(r, s)
      /\ Detach({r}, "expired", TargetOnly)
      /\ Refuse(s)
      /\ UNCHANGED <<gone, late, sinkVars, claimed>>

SlipUnclaimed(r) == TRUE
Unclaimed(r) == r \notin claimed

RightToken(r, s) == token[s] = r

(* ErrReplayed and ErrInvalidToken leave the entry as it is.               *)
ClaimRejected(s) ==
  LET r == entries[callID[s]]
  IN  /\ pc[s] = "clocked"
      /\ r # None
      /\ ~Expired(r, s)
      /\ ~(Unclaimed(r) /\ RightToken(r, s))
      /\ Refuse(s)
      /\ UNCHANGED <<gone, late, sinkVars, regVars>>

Claimable(s) ==
  LET r == entries[callID[s]]
  IN  /\ pc[s] = "clocked"
      /\ r # None
      /\ ~Expired(r, s)
      /\ Unclaimed(r)
      /\ RightToken(r, s)

(* The target refuses to start: the entry is dropped, the target told.     *)
ClaimFails(s) ==
  LET r == entries[callID[s]]
  IN  /\ Claimable(s)
      /\ ~SinkStartable(r)
      /\ claimed' = claimed \cup {r}
      /\ Detach({r}, SinkRefusal(r), TargetOnly)
      /\ Refuse(s)
      /\ UNCHANGED <<gone, late, sinkVars>>

(* The claim proper; the response head is committed under Registry.mu.     *)
ClaimAccepted(s) ==
  LET r == entries[callID[s]]
  IN  /\ Claimable(s)
      /\ SinkStartable(r)
      /\ SinkStart(r)
      /\ claimed' = claimed \cup {r}
      /\ streamOf' = [streamOf EXCEPT ![r] = s]
      /\ target' = [target EXCEPT ![s] = r]
      /\ pc' = [pc EXCEPT ![s] = "open"]
      /\ UNCHANGED <<gone, late, entries, reqID, notify, cause, callID, token,
                     sawLate, streamErr, result>>
-----------------------------------------------------------------------------
(* IngestStream.Write, then the sink's own check.                          *)
WriteAllowed(s) == streamErr[s] = "nil" /\ SinkAccepts(target[s])

WriteRefused(s) ==
  /\ pc[s] = "open"
  /\ ~WriteAllowed(s)
  /\ result' = [result EXCEPT ![s] = "stream"]
  /\ UNCHANGED <<gone, late, sinkVars, regVars, pc, callID, token, sawLate,
                 target, streamErr>>

WriteBegin(s) ==
  /\ pc[s] = "open"
  /\ body[target[s]] < MaxChunks
  /\ WriteAllowed(s)
  /\ pc' = [pc EXCEPT ![s] = "writing"]
  /\ UNCHANGED <<gone, late, sinkVars, regVars, callID, token, sawLate,
                 target, streamErr, result>>

(* The response writer takes the chunk.  A context that is done is seen    *)
(* right after the write and makes it fail; so does a panic of the writer, *)
(* which is recovered.  A failed write may have sent the chunk.  The body  *)
(* of a HEAD request is discarded, which cannot fail.                      *)
WriteOutcomes(r) ==
  IF r \in HeadReqs THEN {<<0, "nil">>}
  ELSE {<<0, "stream">>, <<1, "stream">>}
       \cup (IF r \in gone THEN {} ELSE {<<1, "nil">>})

WriteBody(s) ==
  LET r == target[s]
  IN  /\ pc[s] = "writing"
      /\ \E w \in WriteOutcomes(r) :
           /\ SinkWrote(r, w[1])
           /\ result' = [result EXCEPT ![s] = w[2]]
      /\ pc' = [pc EXCEPT ![s] = "wrote"]
      /\ UNCHANGED <<gone, late, regVars, callID, token, sawLate, target, streamErr>>

(* A stream canceled during the write makes a good write fail.             *)
WriteEnd(s) ==
  /\ pc[s] = "wrote"
  /\ pc' = [pc EXCEPT ![s] = "open"]
  /\ result' = [result EXCEPT ![s] = IF streamErr[s] # "nil" THEN "stream" ELSE @]
  /\ UNCHANGED <<gone, late, sinkVars, regVars, callID, token, sawLate, target,
                 streamErr>>
-----------------------------------------------------------------------------
(* CloseWithError: finish the target, then drop the entry by its id.       *)
CloseBegin(s) ==
  /\ pc[s] = "open"
  /\ pc' = [pc EXCEPT ![s] = "finishing"]
  /\ UNCHANGED <<gone, late, sinkVars, regVars, callID, token, sawLate, target,
                 streamErr, result>>

CloseFinish(s, e) ==
  /\ pc[s] = "finishing"
  /\ SinkComplete(target[s], e)
  /\ result' = [result EXCEPT ![s] = FinishResult(target[s], e)]
  /\ pc' = [pc EXCEPT ![s] = "removing"]
  /\ UNCHANGED <<gone, late, regVars, callID, token, sawLate, target, streamErr>>

(* remove(requestID): whatever the map holds under the id goes.            *)
SlipCloseRemove(s) ==
  /\ pc[s] = "removing"
  /\ entries' = [entries EXCEPT ![callID[s]] = IF result[s] = "nil" THEN None ELSE @]
  /\ pc' = [pc EXCEPT ![s] = "closed"]
  /\ UNCHANGED <<gone, late, sinkVars, reqID, claimed, streamOf, notify, cause,
                 callID, token, sawLate, target, streamErr, result>>

CloseRemove(s) ==
  /\ pc[s] = "removing"
  /\ entries' = [entries EXCEPT ![callID[s]] = None]
  /\ pc' = [pc EXCEPT ![s] = "closed"]
  /\ UNCHANGED <<gone, late, sinkVars, reqID, claimed, streamOf, notify, cause,
                 callID, token, sawLate, target, streamErr, result>>
-----------------------------------------------------------------------------
StartIngest(s) ==
  \/ ClaimMissing(s)
  \/ ClaimExpired(s)
  \/ ClaimRejected(s)
  \/ ClaimFails(s)
  \/ ClaimAccepted(s)

Write(s) ==
  \/ WriteRefused(s)
  \/ WriteBegin(s)
  \/ WriteBody(s)
  \/ WriteEnd(s)

CloseWithError(s) ==
  \/ CloseBegin(s)
  \/ \E e \in {"nil", "stream"} : CloseFinish(s, e)
  \/ CloseRemove(s)

Next ==
  \/ \E r \in Reqs : DeadlinePasses(r) \/ ContextEnds(r)
  \/ \E r \in Reqs, i \in IDs : Register(r, i)
  \/ \E i \in IDs, e \in CancelErrors : Cancel(i, e)
  \/ Expire
  \/ \E r \in Reqs : NotifyStream(r) \/ NotifyTarget(r)
  \/ \E s \in Calls, i \in IDs, t \in Reqs \cup {None} : ReadClock(s, i, t)
  \/ \E s \in Calls : StartIngest(s) \/ Write(s) \/ CloseWithError(s)

Spec == PendingInit /\ [][Next]_pendingVars
-----------------------------------------------------------------------------
(* The values the variables take; a request is only ever notified with an  *)
(* error, a nil one having been replaced.                                  *)
TypeOK ==
  /\ SinkTypeOK
  /\ late \subseteq Reqs
  /\ entries \in [IDs -> Reqs \cup {None}]
  /\ reqID \in [Reqs -> IDs \cup {None}]
  /\ claimed \subseteq Reqs
  /\ streamOf \in [Reqs -> Calls \cup {None}]
  /\ notify \in [Reqs -> {"none", "stream", "target", "done"}]
  /\ cause \in [Reqs -> Results]
  /\ \A r \in Reqs : notify[r] # "none" => cause[r] \in Errors
  /\ pc \in [Calls -> PCs]
  /\ callID \in [Calls -> IDs \cup {None}]
  /\ token \in [Calls -> Reqs \cup {None}]
  /\ sawLate \in [Calls -> SUBSET Reqs]
  /\ target \in [Calls -> Reqs \cup {None}]
  /\ streamErr \in [Calls -> Results]
  /\ result \in [Calls -> Results]

(* The ingest token is one-time: however many connectors call StartIngest, *)
(* with clocks read in whatever order, one of them at most gets the stream *)
(* of a request, so no two bodies are mixed in one response.               *)
OneStreamPerRequest ==
  \A s, t \in Calls : target[s] # None /\ target[s] = target[t] => s = t

(* A closed stream has released its entry, whoever else was canceling or   *)
(* expiring the request at the time: nothing stays in the map for good.    *)
ClosedIsForgotten ==
  \A s \in Calls : pc[s] = "closed" => ~InMap(target[s])

(* Finish of the stream, Cancel of the public handler and expiry race for  *)
(* the sink; what the waiting handler has been told never changes.         *)
ResultIsFinal ==
  [][\A r \in completed : r \in completed' /\ sinkErr'[r] = sinkErr[r]]_pendingVars

(* The connector hears success from Close exactly when the public side     *)
(* has success as its result, though a cancellation may come in between    *)
(* the last write and Close, or between Finish and the removal.            *)
SuccessIsAgreed ==
  /\ \A s \in Calls :
       pc[s] \in {"removing", "closed"} =>
         /\ target[s] \in completed
         /\ result[s] = sinkErr[target[s]]
  /\ \A r \in completed :
       sinkErr[r] = "nil" =>
         \E s \in Calls : target[s] = r /\ pc[s] \in {"removing", "closed"}

(* A write checks the sink and then writes without a lock, so one write    *)
(* may reach the response after the request has its result: that one only. *)
CancelStopsWrites == \A r \in Reqs : lateWrites[r] <= 1

(* "Cancel makes a pending request unavailable to future ingest attempts": *)
(* no stream starts on a request that was canceled or expired, in the time *)
(* between its removal and the notification of its target too.             *)
CanceledIsUnavailable ==
  [][\A s \in Calls : target'[s] # target[s] => notify[target'[s]] = "none"]_pendingVars
-----------------------------------------------------------------------------
(* The parts of the inductive invariant that are not properties above.     *)

(* The map and the ids: an entry is under its own id, was never notified,  *)
(* and a notified request has an id.                                       *)
MapInv ==
  /\ \A i \in IDs : entries[i] # None => reqID[entries[i]] = i /\ notify[entries[i]] = "none"
  /\ \A r \in Reqs : reqID[r] = None => notify[r] = "none"

(* A call has its id once it has read the clock; it has a target when its  *)
(* claim was accepted, which marked the request and named it by its id.    *)
CallInv ==
  /\ \A s \in Calls : pc[s] # "idle" => callID[s] \in IDs
  /\ \A s \in Calls : target[s] # None <=> pc[s] \in Streaming \cup {"closed"}
  /\ \A s \in Calls : target[s] # None => target[s] \in claimed /\ reqID[target[s]] = callID[s]

(* A late write happens only in the write that was begun before.           *)
WriteInv ==
  /\ \A r \in Reqs : r \notin completed => lateWrites[r] = 0
  /\ \A s \in Calls : pc[s] = "writing" => lateWrites[target[s]] = 0

IndInv ==
  /\ TypeOK
  /\ MapInv
  /\ CallInv
  /\ OneStreamPerRequest
  /\ ClosedIsForgotten
  /\ SuccessIsAgreed
  /\ WriteInv
  /\ CancelStopsWrites
=============================================================================
