---------------------------- MODULE EdgeRequest -----------------------------
(***************************************************************************)
(* The life of a public request in the edge gateway: the handler of the    *)
(* public listener (edgeServer.ServeHTTP, and serveS3API for the S3 API)   *)
(* registers the request, publishes a ticket and waits on the sink, while  *)
(* connectors that got the ticket stream bodies in through StartIngest.    *)
(* Handlers, ingest calls, deadlines and leaving clients interleave at the *)
(* granularity of PendingRegistry's locks.                                 *)
(*                                                                         *)
(* Every request is one handler; a connector's call is one ingest call.    *)
(* The ticket of a request stands for its id and its ingest token.  The    *)
(* NATS server keeps nothing: a published ticket may be used by any number *)
(* of connectors, or by none.                                              *)
(***************************************************************************)
EXTENDS PendingRegistry

VARIABLES
  s3,          \* requests that came in through the S3 API
  hpc,         \* where each handler is
  herr,        \* the error it is handling
  answer,      \* the status of the error answer it wrote, or "none"
  hungUp,      \* requests whose client left
  tickets,     \* requests whose ticket was given to NATS
  size,        \* chunks of the body a call is to send
  left,        \* chunks it has not sent yet
  framed,      \* calls whose body carries its length or an end mark
  copyErr,     \* the error of io.CopyBuffer in the ingest handler
  ack          \* what the connector is told: "ok" or "failed"

handlerVars == <<s3, hpc, herr, answer, hungUp, tickets>>
copyVars == <<size, left, framed, copyErr, ack>>
edgeVars == <<pendingVars, handlerVars, copyVars>>

HandlerPCs ==
  {"new", "publishing", "flushing", "waiting", "canceling", "notifying",
   "deciding", "failing", "returning", "unwinding", "returned"}

EdgeInit ==
  /\ PendingInit
  /\ s3 \in SUBSET Reqs
  /\ hpc = [r \in Reqs |-> "new"]
  /\ herr = [r \in Reqs |-> "nil"]
  /\ answer = [r \in Reqs |-> "none"]
  /\ hungUp = {}
  /\ tickets = {}
  /\ size = [s \in Calls |-> 0]
  /\ left = [s \in Calls |-> 0]
  /\ framed = [s \in Calls |-> TRUE]
  /\ copyErr = [s \in Calls |-> "nil"]
  /\ ack = [s \in Calls |-> "none"]
-----------------------------------------------------------------------------
(* The public handler.                                                     *)

Go(r, from, to) == hpc[r] = from /\ hpc' = [hpc EXCEPT ![r] = to]

Fail(r, e) == herr' = [herr EXCEPT ![r] = e]

(* Request ids are fresh random tokens.                                    *)
Fresh(i) == \A q \in Reqs : reqID[q] # i

Arrive(r, i) ==
  /\ Go(r, "new", "publishing")
  /\ Fresh(i)
  /\ Register(r, i)
  /\ UNCHANGED <<s3, herr, answer, hungUp, tickets, copyVars>>

(* s3ErrorForSetup and s3ErrorForUploadSetup blame the client of the S3    *)
(* API for some errors; the signed-URL handler blames itself.              *)
SetupStatuses(r) == IF r \in s3 THEN {"400", "500"} ELSE {"500"}

(* No token, no ingest URL, no registration: answered with nothing held.   *)
SetupFails(r) ==
  /\ Go(r, "new", "returned")
  /\ \E status \in SetupStatuses(r) : answer' = [answer EXCEPT ![r] = status]
  /\ UNCHANGED <<pendingVars, s3, herr, hungUp, tickets, copyVars>>

(* No subject for the server, or a ticket that does not marshal: the entry *)
(* is canceled before the answer.                                          *)
RouteFails(r) ==
  /\ Go(r, "publishing", "canceling")
  /\ Fail(r, "setup")
  /\ UNCHANGED <<pendingVars, s3, answer, hungUp, tickets, copyVars>>

(* After a failed publish the S3 handler cancels the entry and answers;    *)
(* the signed-URL handler answers, and its deferred Cancel comes after.    *)
AfterPublishError(r) == IF r \in s3 THEN "canceling" ELSE "failing"

PublishFails(r) ==
  /\ Go(r, "publishing", AfterPublishError(r))
  /\ Fail(r, "publish")
  /\ UNCHANGED <<pendingVars, s3, answer, hungUp, tickets, copyVars>>

Publish(r) ==
  /\ Go(r, "publishing", "flushing")
  /\ tickets' = tickets \cup {r}
  /\ UNCHANGED <<pendingVars, s3, herr, answer, hungUp, copyVars>>

(* The flush may time out though the server has had the ticket.            *)
FlushFails(r) ==
  /\ Go(r, "flushing", AfterPublishError(r))
  /\ Fail(r, "publish")
  /\ UNCHANGED <<pendingVars, s3, answer, hungUp, tickets, copyVars>>

Flushed(r) ==
  /\ Go(r, "flushing", "waiting")
  /\ UNCHANGED <<pendingVars, s3, herr, answer, hungUp, tickets, copyVars>>

(* sink.Wait: the result of the sink, or the end of the waiting context;   *)
(* when both are there, either may be taken.                               *)
WaitEnds(r) ==
  /\ r \in completed
  /\ Go(r, "waiting", IF sinkErr[r] = "nil" THEN "returning" ELSE "canceling")
  /\ Fail(r, sinkErr[r])
  /\ UNCHANGED <<pendingVars, s3, answer, hungUp, tickets, copyVars>>

SlipAfterTimeout == "deciding"
AfterTimeout == "canceling"

(* waitCtx is r.Context() with the request's deadline.                     *)
WaitOver(r, e) == (e = "clientGone" /\ r \in gone) \/ (e = "deadline" /\ r \in late)

WaitTimesOut(r) ==
  /\ Go(r, "waiting", AfterTimeout)
  /\ \E e \in {"clientGone", "deadline"} : WaitOver(r, e) /\ Fail(r, e)
  /\ UNCHANGED <<pendingVars, s3, answer, hungUp, tickets, copyVars>>

(* registry.Cancel: when the id is not in the map it returns at once,      *)
(* otherwise after the stream and the sink have been told.                 *)
HandlerCancels(r) ==
  /\ Go(r, "canceling", IF InMap(r) THEN "notifying" ELSE "deciding")
  /\ IF InMap(r) THEN Cancel(reqID[r], herr[r]) ELSE UNCHANGED pendingVars
  /\ UNCHANGED <<s3, herr, answer, hungUp, tickets, copyVars>>

HandlerCanceled(r) ==
  /\ notify[r] = "done"
  /\ Go(r, "notifying", "deciding")
  /\ UNCHANGED <<pendingVars, s3, herr, answer, hungUp, tickets, copyVars>>

(* No answer to a client that left, none after a committed response head;  *)
(* a request that was never waited for is answered without looking.        *)
SlipSilent(r) ==
  herr[r] \in {"clientGone", "expired"} \/ (herr[r] \notin {"setup", "publish"} /\ r \in started)
Silent(r) ==
  herr[r] \notin {"setup", "publish"} /\ (herr[r] = "clientGone" \/ r \in started)

Decide(r) ==
  /\ Go(r, "deciding", IF Silent(r) THEN "returning" ELSE "failing")
  /\ UNCHANGED <<pendingVars, s3, herr, answer, hungUp, tickets, copyVars>>

(* statusForWaitError, s3ErrorForWait and the constants of the early exits *)
SlipStatuses(r) ==
  CASE herr[r] = "setup" -> SetupStatuses(r)
    [] herr[r] = "publish" -> {"503"}
    [] herr[r] = "deadline" -> {"504"}
    [] OTHER -> {"502"}
Statuses(r) ==
  CASE herr[r] = "setup" -> SetupStatuses(r)
    [] herr[r] = "publish" -> {"503"}
    [] herr[r] \in {"deadline", "expired"} -> {"504"}
    [] OTHER -> {"502"}

Answer(r) ==
  /\ Go(r, "failing", "returning")
  /\ \E status \in Statuses(r) : answer' = [answer EXCEPT ![r] = status]
  /\ UNCHANGED <<pendingVars, s3, herr, hungUp, tickets, copyVars>>

(* The deferred Cancel, and the end of r.Context() with the handler.       *)
SlipDeferredCancel(r) == FALSE
DeferredCancel(r) == InMap(r)

Return(r) ==
  /\ ~DeferredCancel(r)
  /\ Go(r, "returning", "returned")
  /\ gone' = gone \cup {r}
  /\ UNCHANGED <<late, sinkVars, regVars, callVars, s3, herr, answer, hungUp,
                 tickets, copyVars>>

ReturnCancels(r) ==
  /\ DeferredCancel(r)
  /\ Go(r, "returning", "unwinding")
  /\ Cancel(reqID[r], "canceled")
  /\ UNCHANGED <<s3, herr, answer, hungUp, tickets, copyVars>>

Unwind(r) ==
  /\ notify[r] = "done"
  /\ Go(r, "unwinding", "returned")
  /\ gone' = gone \cup {r}
  /\ UNCHANGED <<late, sinkVars, regVars, callVars, s3, herr, answer, hungUp,
                 tickets, copyVars>>

ClientLeaves(r) ==
  /\ hpc[r] \notin {"new", "returned"}
  /\ ContextEnds(r)
  /\ hungUp' = hungUp \cup {r}
  /\ UNCHANGED <<s3, hpc, herr, answer, tickets, copyVars>>

DeadlineHits(r) == DeadlinePasses(r) /\ UNCHANGED <<handlerVars, copyVars>>

NotifyStep(r) ==
  /\ NotifyStream(r) \/ NotifyTarget(r)
  /\ UNCHANGED <<handlerVars, copyVars>>
-----------------------------------------------------------------------------
(* A connector's ingest request and the ingest handler that serves it.     *)

(* With the ticket of a request and a body, which is framed or ends where  *)
(* the connection ends (the same thing when it is empty); or with a wrong  *)
(* token, and then no body matters.                                        *)
Dial(s) ==
  /\ \/ /\ \E r \in tickets : ReadClock(s, reqID[r], r)
        /\ \E n \in 0..MaxChunks, f \in BOOLEAN :
             /\ n = 0 => f
             /\ size' = [size EXCEPT ![s] = n]
             /\ left' = [left EXCEPT ![s] = n]
             /\ framed' = [framed EXCEPT ![s] = f]
     \/ /\ \E r \in Reqs : reqID[r] # None /\ ReadClock(s, reqID[r], None)
        /\ UNCHANGED <<size, left, framed>>
  /\ UNCHANGED <<handlerVars, copyErr, ack>>

Claim(s) == StartIngest(s) /\ UNCHANGED <<handlerVars, copyVars>>

(* The copy loop reads a chunk and writes it.                              *)
Copying(s) == pc[s] = "open" /\ copyErr[s] = "nil" /\ left[s] > 0

CopyWrites(s) ==
  /\ Copying(s)
  /\ WriteBegin(s)
  /\ UNCHANGED <<handlerVars, copyVars>>

CopyRefused(s) ==
  /\ Copying(s)
  /\ WriteRefused(s)
  /\ copyErr' = [copyErr EXCEPT ![s] = "stream"]
  /\ UNCHANGED <<handlerVars, size, left, framed, ack>>

CopyInWriter(s) == WriteBody(s) /\ UNCHANGED <<handlerVars, copyVars>>

CopyResult(s) == IF streamErr[s] # "nil" THEN "stream" ELSE result[s]

CopyWrote(s) ==
  /\ WriteEnd(s)
  /\ left' = [left EXCEPT ![s] = @ - 1]
  /\ copyErr' = [copyErr EXCEPT ![s] = CopyResult(s)]
  /\ UNCHANGED <<handlerVars, size, framed, ack>>

(* The body breaks off: an error, unless nothing marks its end.            *)
BodyBreaks(s) ==
  /\ Copying(s)
  /\ IF framed[s]
       THEN copyErr' = [copyErr EXCEPT ![s] = "stream"] /\ UNCHANGED left
       ELSE left' = [left EXCEPT ![s] = 0] /\ UNCHANGED copyErr
  /\ UNCHANGED <<pendingVars, handlerVars, size, framed, ack>>

SlipCopyDone(s) == left[s] = 0
CopyDone(s) == copyErr[s] # "nil" \/ left[s] = 0

CopyEnds(s) ==
  /\ CopyDone(s)
  /\ CloseBegin(s)
  /\ UNCHANGED <<handlerVars, copyVars>>

SlipCloseError(s) == "nil"
CloseError(s) == copyErr[s]

Close(s) ==
  /\ CloseFinish(s, CloseError(s)) \/ CloseRemove(s)
  /\ UNCHANGED <<handlerVars, copyVars>>

(* 204 (or the success byte) only for a whole copy and a clean Close.      *)
SlipAcceptable(s) == copyErr[s] = "nil"
Acceptable(s) == copyErr[s] = "nil" /\ result[s] = "nil"

Acknowledge(s) ==
  /\ ack[s] = "none"
  /\ \/ pc[s] = "closed" /\ ack' = [ack EXCEPT ![s] = IF Acceptable(s) THEN "ok" ELSE "failed"]
     \/ pc[s] = "refused" /\ ack' = [ack EXCEPT ![s] = "failed"]
  /\ UNCHANGED <<pendingVars, handlerVars, size, left, framed, copyErr>>
-----------------------------------------------------------------------------
Handler(r) ==
  \/ \E i \in IDs : Arrive(r, i)
  \/ SetupFails(r)
  \/ RouteFails(r)
  \/ PublishFails(r)
  \/ Publish(r)
  \/ FlushFails(r)
  \/ Flushed(r)
  \/ WaitEnds(r)
  \/ WaitTimesOut(r)
  \/ HandlerCancels(r)
  \/ HandlerCanceled(r)
  \/ Decide(r)
  \/ Answer(r)
  \/ Return(r)
  \/ ReturnCancels(r)
  \/ Unwind(r)

Ingest(s) ==
  \/ Dial(s)
  \/ Claim(s)
  \/ CopyWrites(s)
  \/ CopyRefused(s)
  \/ CopyInWriter(s)
  \/ CopyWrote(s)
  \/ BodyBreaks(s)
  \/ CopyEnds(s)
  \/ Close(s)
  \/ Acknowledge(s)

EdgeNext ==
  \/ \E r \in Reqs : Handler(r) \/ ClientLeaves(r) \/ DeadlineHits(r) \/ NotifyStep(r)
  \/ \E s \in Calls : Ingest(s)

EdgeSpec == EdgeInit /\ [][EdgeNext]_edgeVars

(* A handler that has started goes on: every call it makes returns, the    *)
(* publish being bounded by the flush timeout.  Removers go on to notify,  *)
(* and time passes.  Nothing is asked of connectors.                       *)
HandlerFairness ==
  \A r \in Reqs :
    /\ WF_edgeVars(hpc[r] # "new" /\ Handler(r))
    /\ WF_edgeVars(DeadlineHits(r))
    /\ WF_edgeVars(NotifyStep(r))

(* An ingest request that was accepted goes on: the connector sends or its *)
(* connection breaks (its own context has the ticket's deadline).          *)
IngestFairness == \A s \in Calls : WF_edgeVars(pc[s] # "idle" /\ Ingest(s))

FairHandlers == EdgeSpec /\ HandlerFairness
-----------------------------------------------------------------------------
(* The values of the variables, and what a handler's place says of them.   *)
EdgeTypeOK ==
  /\ TypeOK
  /\ s3 \subseteq Reqs
  /\ hpc \in [Reqs -> HandlerPCs]
  /\ herr \in [Reqs -> Results]
  /\ answer \in [Reqs -> {"none", "400", "500", "502", "503", "504"}]
  /\ hungUp \subseteq gone
  /\ tickets \subseteq Reqs
  /\ size \in [Calls -> 0..MaxChunks]
  /\ left \in [Calls -> 0..MaxChunks]
  /\ framed \in [Calls -> BOOLEAN]
  /\ copyErr \in [Calls -> Results]
  /\ ack \in [Calls -> {"none", "ok", "failed"}]

(* One request, one answer: a request the connector has answered gets no   *)
(* error page from the handler, and none that got one is answered by a     *)
(* connector.                                                              *)
SingleAnswer == \A r \in Reqs : ~(r \in started /\ answer[r] # "none")

(* It holds of every request whose publish did not fail: a timeout cancels *)
(* the entry, which shuts out late connectors, before it looks whether the *)
(* head was committed.                                                     *)
SingleAnswerOncePublished ==
  \A r \in Reqs : herr[r] # "publish" => ~(r \in started /\ answer[r] # "none")

(* A handler that returns without writing would give its client an empty   *)
(* 200; it does so to no client that is still there.                       *)
NeverSilent ==
  \A r \in Reqs :
    hpc[r] = "returned" /\ r \notin hungUp => r \in started \/ answer[r] # "none"

(* Once its ticket is out, a request is failed by its handler only for its *)
(* deadline, and then with 504: no connector, however it behaves (with a   *)
(* wrong token, with a late call), can have it answered otherwise.         *)
OnlyTheDeadlineFails ==
  \A r \in Reqs :
    answer[r] # "none" /\ herr[r] \notin {"nil", "setup", "publish"} =>
      answer[r] = "504" /\ r \in late

(* docs/configuration.md:202 has AIR3_PENDING_TTL as the "maximum time the  *)
(* Edge will wait for the Connector to start pushing file data": a request *)
(* whose response has started in time is not cut off for that deadline.    *)
StartedIsNotCutOff ==
  \A r \in Reqs : [](r \in started /\ r \notin late => [](sinkErr[r] # "deadline"))

(* The pending map holds nothing of a request whose handler has returned,  *)
(* on whatever path: the memory of the gateway is bounded by what it       *)
(* serves.                                                                 *)
NothingLeftBehind == \A r \in Reqs : hpc[r] = "returned" => ~InMap(r)

(* The bytes the writer has taken are all there were.                      *)
Whole(s) == target[s] \in HeadReqs \/ body[target[s]] = size[s]

(* A connector that is told its object was delivered had all of it written *)
(* and the public side told of success: no cancellation, timeout or broken *)
(* body is taken for success.  A body that marks its end by closing the    *)
(* connection cannot be told from one cut short and is left out.           *)
AckIsTrue ==
  \A s \in Calls :
    ack[s] = "ok" /\ framed[s] => sinkErr[target[s]] = "nil" /\ Whole(s)

(* A handler that waited until success returns with the whole of a body    *)
(* that marks its end in the response.                                     *)
SuccessIsWhole ==
  \A r \in Reqs :
    hpc[r] \in {"returning", "unwinding", "returned"} /\ r \in started /\ herr[r] = "nil" =>
      \E s \in Calls : target[s] = r /\ (framed[s] => Whole(s))

(* A connector's call that goes on is answered at last, whether the        *)
(* request was still held, canceled, timed out or finished.  (Calls come   *)
(* once, and there are finitely many: this is leads-to for each of them.)  *)
EveryCallIsAnswered ==
  IngestFairness => <>[](\A s \in Calls : pc[s] # "idle" => ack[s] # "none")
-----------------------------------------------------------------------------
(* What has become of a request, as its client and the connectors see it.  *)
View(r) ==
  CASE herr[r] = "publish" -> "void"
    [] herr[r] # "publish" /\ r \in started ->
         IF r \notin completed THEN "streaming"
         ELSE IF sinkErr[r] = "nil" THEN "served" ELSE "broken"
    [] herr[r] # "publish" /\ r \notin started ->
         IF answer[r] # "none" THEN "refused"
         ELSE IF hpc[r] = "new" THEN "idle"
         ELSE IF hpc[r] \in {"returning", "unwinding", "returned"} THEN "dropped"
         ELSE "held"

Held == INSTANCE HeldResponse WITH state <- [r \in Reqs |-> View(r)]

(* The handler, the registry, the sink and the ingest calls together keep  *)
(* the promise of HeldResponse, its liveness too, though nothing makes a   *)
(* connector come, go on or finish.                                        *)
KeepsItsPromise == Held!Spec
-----------------------------------------------------------------------------
(* The parts of the inductive invariant that are not properties above.     *)

Ended == {"returning", "unwinding", "returned"}

(* What the place of a handler says: a request has an id once it arrived;  *)
(* an error is there exactly from where it is handled on; a handler that   *)
(* ends has succeeded, has answered, or has lost its client.               *)
Place(r) ==
  /\ hpc[r] = "new" => reqID[r] = None
  /\ reqID[r] = None => hpc[r] \in {"new", "returned"} /\ herr[r] = "nil" /\ r \notin tickets
  /\ hpc[r] \in {"publishing", "flushing", "waiting"} => herr[r] = "nil"
  /\ hpc[r] \in {"canceling", "notifying", "deciding", "failing"} => herr[r] # "nil"
  /\ hpc[r] = "failing" => herr[r] \in {"setup", "publish", "deadline", "expired"}
  /\ answer[r] # "none" =>
       /\ hpc[r] \in Ended
       /\ \/ herr[r] \in {"nil", "setup", "publish"}
          \/ herr[r] \in {"deadline", "expired"} /\ answer[r] = "504"
  /\ hpc[r] \in Ended =>
       /\ r \in started \/ answer[r] # "none" \/ r \in hungUp
       /\ herr[r] = "nil" => reqID[r] = None \/ (r \in completed /\ sinkErr[r] = "nil")

(* A request leaves the map before its handler looks whether its response  *)
(* has started.                                                            *)
Out(r) ==
  /\ hpc[r] \in {"notifying", "deciding", "unwinding", "returned"} => ~InMap(r)
  /\ hpc[r] \in {"failing"} \cup Ended /\ herr[r] # "publish" /\ r \notin started => ~InMap(r)
  /\ (hpc[r] = "failing" \/ answer[r] # "none") /\ herr[r] # "publish" => r \notin started

(* What each error that anybody was told of a request is evidence of.      *)
Told(r) == {herr[r], cause[r], sinkErr[r]}

Evidence(r) ==
  /\ "clientGone" \in Told(r) => r \in hungUp
  /\ "deadline" \in Told(r) \/ "expired" \in Told(r) => r \in late
  /\ "stream" \in Told(r) => r \in started
  /\ "canceled" \in Told(r) => hpc[r] \in {"unwinding", "returned"}
  /\ "setup" \in Told(r) => herr[r] = "setup" /\ r \notin tickets
  /\ "publish" \in Told(r) => herr[r] = "publish"
  /\ r \in gone => r \in hungUp \/ hpc[r] = "returned"

HandlerInv == \A r \in Reqs : Place(r) /\ Out(r) /\ Evidence(r)

(* Ids are not used again.  The token of a request is in its ticket only,  *)
(* and a response is started by the call that has the stream.              *)
TicketInv ==
  /\ \A r, q \in Reqs : reqID[r] # None /\ reqID[r] = reqID[q] => r = q
  /\ \A r \in tickets : hpc[r] # "publishing"
  /\ \A s \in Calls : sawLate[s] \subseteq late
  /\ \A s \in Calls : token[s] # None => token[s] \in tickets
  /\ \A s \in Calls : target[s] # None => target[s] \in started
  /\ \A r \in started : r \in tickets /\ \E s \in Calls : target[s] = r

(* The bytes: what the writer of a request has taken and what its one call *)
(* still has add up to the body, until the copy sees an error.             *)
Bytes(s) ==
  /\ pc[s] \in {"idle", "clocked", "refused"} =>
       left[s] = size[s] /\ copyErr[s] = "nil" /\ result[s] = "nil"
  /\ pc[s] \in {"open", "writing", "wrote", "finishing"} =>
       copyErr[s] \in {"nil", "stream"} /\ result[s] \in {"nil", "stream"}
  /\ pc[s] \in {"writing", "wrote"} => left[s] > 0 /\ copyErr[s] = "nil"
  /\ pc[s] \in {"finishing", "removing", "closed"} => copyErr[s] # "nil" \/ left[s] = 0
  /\ pc[s] \in {"removing", "closed"} /\ result[s] = "nil" => copyErr[s] = "nil"
  /\ ack[s] = "ok" => pc[s] = "closed" /\ copyErr[s] = "nil" /\ result[s] = "nil"
  /\ target[s] # None /\ target[s] \notin HeadReqs /\ framed[s] /\ copyErr[s] = "nil" =>
       IF pc[s] = "wrote" THEN result[s] = "nil" => body[target[s]] + left[s] = size[s] + 1
       ELSE body[target[s]] + left[s] = size[s]

BytesInv ==
  /\ \A r \in Reqs \ claimed : body[r] = 0
  /\ \A s \in Calls : Bytes(s)

EdgeInv == IndInv /\ EdgeTypeOK /\ HandlerInv /\ TicketInv /\ BytesInv
=============================================================================
