------------------------- MODULE EdgeRequest_proofs --------------------------
(***************************************************************************)
(* Proofs about EdgeRequest, for any requests, ids and calls, bodies of    *)
(* any length and any mix of methods and listeners: EdgeInv is inductive;  *)
(* with it the safety of the public handlers and of the acknowledgements   *)
(* to connectors are theorems of EdgeSpec, and every step of the gateway   *)
(* is a step of HeldResponse or leaves it as it is.                        *)
(*                                                                         *)
(* Every step of the gateway is one of PendingRegistry's or leaves its     *)
(* variables alone, so IndInv holds here too (PendingRegistry_proofs).     *)
(* The rest of the argument: a handler's place tells what it has learned   *)
(* (Place); a request is out of the map before its handler looks whether   *)
(* the response has started, so nothing starts it afterwards (Out); and    *)
(* each error is evidence of what caused it (Evidence).                    *)
(***************************************************************************)
EXTENDS EdgeRequest, PendingRegistry_proofs

LEMMA EdgeInitInv == EdgeInit => EdgeInv
<1> SUFFICES ASSUME EdgeInit PROVE EdgeInv
  OBVIOUS
<1>1. IndInv
  BY InitInd DEF EdgeInit
<1> USE DEF EdgeInit, PendingInit, SinkInit, RegistryInit, CallInit
<1>2. EdgeTypeOK
  BY <1>1, SinkAssumption DEF IndInv, EdgeTypeOK, HandlerPCs, Results
<1>3. HandlerInv
  BY DEF HandlerInv, Place, Out, Evidence, Told, Ended, InMap
<1>4. TicketInv
  BY RegistryAssumption DEF TicketInv
<1>5. BytesInv
  BY DEF BytesInv, Bytes
<1> QED
  BY <1>1, <1>2, <1>3, <1>4, <1>5 DEF EdgeInv

(* A step that is none of the registry's.                                  *)
LEMMA RegistryKept == ASSUME IndInv, UNCHANGED pendingVars PROVE IndInv'
  BY NextInd
-----------------------------------------------------------------------------
(* What a step about one request has to show that leaves the calls and the *)
(* responses alone: the invariant of that request, which others do not see *)
(* but for an id of its own.                                               *)
LEMMA RequestStep ==
  ASSUME EdgeInv, NEW r \in Reqs, IndInv', EdgeTypeOK',
         \A q \in Reqs \ {r} :
           /\ hpc'[q] = hpc[q] /\ herr'[q] = herr[q] /\ answer'[q] = answer[q]
           /\ reqID'[q] = reqID[q] /\ cause'[q] = cause[q] /\ sinkErr'[q] = sinkErr[q]
           /\ InMap(q)' => InMap(q),
         tickets' \in {tickets, tickets \cup {r}}, hungUp' \in {hungUp, hungUp \cup {r}},
         late' \in {late, late \cup {r}}, gone' \in {gone, gone \cup {r}},
         completed' \in {completed, completed \cup {r}},
         UNCHANGED <<started, body, claimed, pc, token, sawLate, target, result, copyVars>>,
         reqID'[r] # None => \A q \in Reqs \ {r} : reqID[q] # reqID'[r],
         Place(r)', Out(r)', Evidence(r)', r \in tickets' => hpc'[r] # "publishing"
  PROVE  EdgeInv'
<1> USE DEF EdgeInv
<1>1. HandlerInv'
  <2> SUFFICES ASSUME NEW q \in Reqs, q # r PROVE (Place(q) /\ Out(q) /\ Evidence(q))'
    BY DEF HandlerInv
  <2>1. /\ q \in tickets' <=> q \in tickets
        /\ q \in hungUp' <=> q \in hungUp
        /\ q \in gone' <=> q \in gone
        /\ q \in completed' <=> q \in completed
        /\ q \in late' <=> q \in late
    OBVIOUS
  <2>2. Place(q) /\ Out(q) /\ Evidence(q)
    BY DEF HandlerInv
  <2>3. Place(q)'
    BY <2>1, <2>2 DEF Place
  <2>4. Out(q)'
    BY <2>2 DEF Out
  <2>5. Evidence(q)'
    BY <2>1, <2>2 DEF Evidence, Told
  <2> QED
    BY <2>3, <2>4, <2>5
<1>2. TicketInv'
  <2>1. \A q, u \in Reqs : reqID'[q] # None /\ reqID'[q] = reqID'[u] => q = u
    BY DEF TicketInv
  <2> QED
    BY <2>1 DEF TicketInv, EdgeTypeOK
<1>3. BytesInv'
  BY DEF BytesInv, Bytes, copyVars
<1> QED
  BY <1>1, <1>2, <1>3

(* The same of a step that leaves the registry and the sink alone.         *)
LEMMA HandlerStep ==
  ASSUME EdgeInv, NEW r \in Reqs, EdgeTypeOK',
         \A q \in Reqs \ {r} :
           hpc'[q] = hpc[q] /\ herr'[q] = herr[q] /\ answer'[q] = answer[q],
         tickets' \in {tickets, tickets \cup {r}},
         UNCHANGED <<pendingVars, hungUp, copyVars>>,
         Place(r)', Out(r)', Evidence(r)', r \in tickets' => hpc'[r] # "publishing"
  PROVE  EdgeInv'
<1>1. IndInv'
  BY RegistryKept DEF EdgeInv
<1>2. /\ UNCHANGED <<started, body, claimed, pc, token, sawLate, target, result>>
      /\ UNCHANGED <<entries, reqID, cause, completed, sinkErr, late, gone>>
  BY DEF pendingVars, sinkVars, regVars, callVars
<1>3. reqID'[r] # None => \A q \in Reqs \ {r} : reqID[q] # reqID'[r]
  BY <1>2 DEF EdgeInv, TicketInv
<1>4. \A q \in Reqs : InMap(q)' <=> InMap(q)
  BY <1>2 DEF InMap
<1> QED
  BY <1>1, <1>2, <1>3, <1>4, RequestStep

(* A handler that has not waited yet: no error was told of its request.    *)
LEMMA NothingTold ==
  ASSUME EdgeInv, NEW r \in Reqs, hpc[r] \in {"publishing", "flushing", "waiting"}
  PROVE  /\ herr[r] = "nil" /\ answer[r] = "none" /\ reqID[r] # None
         /\ {"canceled", "setup", "publish"} \cap Told(r) = {}
  BY DEF EdgeInv, HandlerInv, Place, Evidence, Ended

(* Before the wait: the request could not be set up, routed or published,  *)
(* or it was.                                                              *)
LEMMA SetupFailsStep ==
  ASSUME EdgeInv, NEW r \in Reqs, SetupFails(r)
  PROVE  EdgeInv'
<1> USE DEF SetupFails, SetupStatuses, Go
<1>1. reqID[r] = None /\ herr[r] = "nil" /\ r \notin tickets /\ r \notin started
  BY DEF EdgeInv, HandlerInv, Place, TicketInv
<1>2. EdgeTypeOK' /\ hpc'[r] = "returned" /\ answer'[r] \in {"400", "500"}
  <2>1. TypeOK' /\ UNCHANGED gone
    BY RegistryKept DEF EdgeInv, IndInv, pendingVars
  <2> QED
    BY <2>1 DEF EdgeInv, EdgeTypeOK, HandlerPCs, copyVars
<1>3. UNCHANGED <<reqID, entries, started, completed, sinkErr, cause, late, gone>>
  BY DEF pendingVars, sinkVars, regVars
<1>4. Place(r)' /\ Out(r)'
  BY <1>1, <1>2, <1>3 DEF Place, Out, Ended, InMap
<1>5. Evidence(r)'
  BY <1>1, <1>2, <1>3 DEF EdgeInv, HandlerInv, Evidence, Told
<1> QED
  BY <1>1, <1>2, <1>4, <1>5, HandlerStep DEF EdgeInv, EdgeTypeOK

LEMMA BeforeWaitStep ==
  ASSUME EdgeInv, NEW r \in Reqs,
         RouteFails(r) \/ PublishFails(r) \/ Publish(r) \/ FlushFails(r) \/ Flushed(r)
  PROVE  EdgeInv'
<1> USE DEF RouteFails, PublishFails, Publish, FlushFails, Flushed, Go, Fail, AfterPublishError
<1>1. hpc[r] \in {"publishing", "flushing"}
  OBVIOUS
<1>2. /\ herr[r] = "nil" /\ answer[r] = "none" /\ reqID[r] # None
      /\ {"canceled", "setup", "publish"} \cap Told(r) = {}
  BY <1>1, NothingTold
<1>3. EdgeTypeOK'
  <2>1. TypeOK' /\ UNCHANGED gone
    BY RegistryKept DEF EdgeInv, IndInv, pendingVars
  <2> QED
    BY <2>1 DEF EdgeInv, EdgeTypeOK, HandlerPCs, copyVars, Results, Errors
<1>4. UNCHANGED <<reqID, entries, started, completed, sinkErr, cause, late, gone, hungUp>>
  BY DEF pendingVars, sinkVars, regVars
<1>5. /\ \/ hpc'[r] \in {"flushing", "waiting"} /\ herr'[r] = "nil"
         \/ /\ hpc'[r] \in {"canceling", "failing"} /\ herr'[r] = "publish"
         \/ /\ hpc'[r] = "canceling" /\ herr'[r] = "setup"
            /\ r \notin tickets'
      /\ answer'[r] = "none"
      /\ \A q \in Reqs \ {r} :
           hpc'[q] = hpc[q] /\ herr'[q] = herr[q] /\ answer'[q] = answer[q]
  <2>1. CASE RouteFails(r)
    BY <1>2, <2>1 DEF EdgeInv, EdgeTypeOK, TicketInv
  <2>2. CASE PublishFails(r) \/ FlushFails(r)
    BY <1>2, <2>2 DEF EdgeInv, EdgeTypeOK
  <2>3. CASE Publish(r) \/ Flushed(r)
    BY <1>2, <2>3 DEF EdgeInv, EdgeTypeOK
  <2> QED
    BY <2>1, <2>2, <2>3
<1>6. Place(r)' /\ Out(r)'
  BY <1>2, <1>4, <1>5 DEF EdgeInv, HandlerInv, Place, Out, Ended, InMap
<1>7. Evidence(r)'
  BY <1>2, <1>4, <1>5 DEF EdgeInv, HandlerInv, Evidence, Told
<1> QED
  BY <1>3, <1>5, <1>6, <1>7, HandlerStep
-----------------------------------------------------------------------------
(* The wait ends with the result of the sink.  Success is that of a stream *)
(* that closed, so the response has started; an error is not "setup" or    *)
(* "publish", which no sink is told while its handler waits.               *)
LEMMA WaitEndsStep ==
  ASSUME EdgeInv, NEW r \in Reqs, WaitEnds(r)
  PROVE  EdgeInv'
<1> USE DEF WaitEnds, Go, Fail
<1>1. /\ herr[r] = "nil" /\ answer[r] = "none" /\ reqID[r] # None
      /\ {"canceled", "setup", "publish"} \cap Told(r) = {}
  BY NothingTold
<1>2. UNCHANGED <<reqID, entries, started, completed, sinkErr, cause, late, gone, hungUp>>
  BY DEF pendingVars, sinkVars, regVars
<1>3. sinkErr[r] \in Results
  BY DEF EdgeInv, EdgeTypeOK, TypeOK, SinkTypeOK
<1>4. EdgeTypeOK'
  <2>1. TypeOK'
    BY RegistryKept DEF EdgeInv, IndInv
  <2> QED
    BY <1>2, <1>3, <2>1 DEF EdgeInv, EdgeTypeOK, HandlerPCs, copyVars
<1>5. /\ hpc'[r] = IF sinkErr[r] = "nil" THEN "returning" ELSE "canceling"
      /\ herr'[r] = sinkErr[r] /\ answer'[r] = "none" /\ tickets' = tickets
      /\ \A q \in Reqs \ {r} :
           hpc'[q] = hpc[q] /\ herr'[q] = herr[q] /\ answer'[q] = answer[q]
  BY <1>1 DEF EdgeInv, EdgeTypeOK
<1>6. sinkErr[r] = "nil" => r \in started
  <2> SUFFICES ASSUME sinkErr[r] = "nil" PROVE r \in started
    OBVIOUS
  <2>1. PICK s \in Calls : target[s] = r
    BY DEF EdgeInv, IndInv, SuccessIsAgreed
  <2> QED
    BY <2>1, RegistryAssumption DEF EdgeInv, TicketInv
<1>7. Place(r)' /\ Out(r)'
  BY <1>1, <1>2, <1>5, <1>6 DEF Place, Out, Ended, InMap
<1>8. Evidence(r)'
  BY <1>1, <1>2, <1>5 DEF EdgeInv, HandlerInv, Evidence, Told
<1> QED
  BY <1>4, <1>5, <1>7, <1>8, HandlerStep

(* The wait ends with its context: the deadline has passed, or the client  *)
(* has left, as the handler has not returned yet.                          *)
LEMMA WaitTimesOutStep ==
  ASSUME EdgeInv, NEW r \in Reqs, WaitTimesOut(r)
  PROVE  EdgeInv'
<1> USE DEF WaitTimesOut, Go, Fail
<1>1. /\ herr[r] = "nil" /\ answer[r] = "none" /\ reqID[r] # None
      /\ {"canceled", "setup", "publish"} \cap Told(r) = {}
  BY NothingTold
<1>2. UNCHANGED <<reqID, entries, started, completed, sinkErr, cause, late, gone, hungUp>>
  BY DEF pendingVars, sinkVars, regVars
<1>3. PICK e \in {"clientGone", "deadline"} : WaitOver(r, e) /\ herr' = [herr EXCEPT ![r] = e]
  OBVIOUS
<1>4. EdgeTypeOK'
  <2>1. TypeOK'
    BY RegistryKept DEF EdgeInv, IndInv
  <2> QED
    BY <1>2, <1>3, <2>1 DEF EdgeInv, EdgeTypeOK, HandlerPCs, AfterTimeout, copyVars, Results, Errors
<1>5. /\ hpc'[r] = "canceling" /\ herr'[r] = e /\ answer'[r] = "none" /\ tickets' = tickets
      /\ \A q \in Reqs \ {r} :
           hpc'[q] = hpc[q] /\ herr'[q] = herr[q] /\ answer'[q] = answer[q]
  BY <1>1, <1>3 DEF EdgeInv, EdgeTypeOK, AfterTimeout
<1>6. Place(r)' /\ Out(r)'
  BY <1>1, <1>2, <1>5 DEF Place, Out, Ended, InMap
<1>7. Evidence(r)'
  BY <1>1, <1>2, <1>3, <1>5 DEF EdgeInv, HandlerInv, Evidence, Told, WaitOver
<1> QED
  BY <1>4, <1>5, <1>6, <1>7, HandlerStep

(* After the wait: the cancellation has been told; the handler looks at    *)
(* what has started, and answers.                                          *)
LEMMA AfterWaitStep ==
  ASSUME EdgeInv, NEW r \in Reqs, HandlerCanceled(r) \/ Decide(r) \/ Answer(r)
  PROVE  EdgeInv'
<1> USE DEF HandlerCanceled, Decide, Answer, Go
<1>1. UNCHANGED <<reqID, entries, started, completed, sinkErr, cause, late, gone, hungUp>>
  BY DEF pendingVars, sinkVars, regVars
<1>2. Statuses(r) \subseteq {"400", "500", "502", "503", "504"}
  BY DEF Statuses, SetupStatuses
<1>3. EdgeTypeOK'
  <2>1. TypeOK'
    BY RegistryKept DEF EdgeInv, IndInv
  <2> QED
    BY <1>1, <1>2, <2>1 DEF EdgeInv, EdgeTypeOK, HandlerPCs, copyVars
<1>4. /\ herr' = herr /\ tickets' = tickets
      /\ \A q \in Reqs \ {r} : hpc'[q] = hpc[q] /\ answer'[q] = answer[q]
  BY DEF EdgeInv, EdgeTypeOK
<1>5. Place(r) /\ Out(r) /\ Evidence(r) /\ herr[r] \in Results
  BY DEF EdgeInv, HandlerInv, EdgeTypeOK
<1>6. CASE HandlerCanceled(r)
  <2>1. hpc[r] = "notifying" /\ hpc'[r] = "deciding" /\ answer' = answer
    BY <1>6 DEF EdgeInv, EdgeTypeOK
  <2>2. Place(r)' /\ Out(r)' /\ Evidence(r)'
    BY <1>1, <1>4, <1>5, <2>1 DEF Place, Out, Evidence, Told, Ended, InMap
  <2> QED
    BY <1>3, <1>4, <1>6, <2>1, <2>2, HandlerStep
<1>7. CASE Decide(r)
  <2>1. /\ hpc[r] = "deciding" /\ hpc'[r] = IF Silent(r) THEN "returning" ELSE "failing"
        /\ answer' = answer
    BY <1>7 DEF EdgeInv, EdgeTypeOK
  <2>2. Place(r)'
    BY <1>1, <1>4, <1>5, <2>1 DEF Place, Evidence, Told, Ended, Silent, Results, Errors
  <2>3. herr[r] = "setup" => r \notin started
    BY <1>5 DEF EdgeInv, TicketInv, Evidence, Told
  <2>4. Out(r)' /\ Evidence(r)'
    BY <1>1, <1>4, <1>5, <2>1, <2>3 DEF Place, Out, Evidence, Told, Ended, InMap, Silent
  <2> QED
    BY <1>3, <1>4, <1>7, <2>1, <2>2, <2>4, HandlerStep
<1>8. CASE Answer(r)
  <2>1. /\ hpc[r] = "failing" /\ hpc'[r] = "returning" /\ answer'[r] \in Statuses(r)
    BY <1>8 DEF EdgeInv, EdgeTypeOK
  <2>2. herr[r] \in {"setup", "publish", "deadline", "expired"}
    BY <1>5, <2>1 DEF Place
  <2>3. Place(r)'
    BY <1>1, <1>2, <1>4, <1>5, <2>1, <2>2 DEF Place, Ended, Statuses, SetupStatuses
  <2>4. Out(r)' /\ Evidence(r)'
    BY <1>1, <1>4, <1>5, <2>1 DEF Out, Evidence, Told, Ended, InMap
  <2> QED
    BY <1>3, <1>4, <1>8, <2>1, <2>3, <2>4, HandlerStep
<1> QED
  BY <1>6, <1>7, <1>8
-----------------------------------------------------------------------------
(* A request arrives under a fresh id, so no other entry is in its way.    *)
LEMMA ArriveStep ==
  ASSUME EdgeInv, NEW r \in Reqs, NEW i \in IDs, Arrive(r, i)
  PROVE  EdgeInv'
<1> USE DEF Arrive, Go
<1>1. /\ hpc[r] = "new" /\ reqID[r] = None /\ herr[r] = "nil" /\ answer[r] = "none"
      /\ r \notin tickets
      /\ \A q \in Reqs : reqID[q] # i
  BY DEF EdgeInv, HandlerInv, Place, Ended, Fresh
<1>2. /\ reqID' = [reqID EXCEPT ![r] = i]
      /\ entries' = [entries EXCEPT ![i] = r]
      /\ UNCHANGED <<gone, late, sinkVars, claimed, streamOf, notify, cause, callVars>>
  BY DEF Register
<1>3. IndInv'
  BY RegisterStep DEF EdgeInv
<1>4. /\ reqID'[r] = i /\ i # None
      /\ \A q \in Reqs \ {r} : reqID'[q] = reqID[q]
  BY <1>2, RegistryAssumption DEF EdgeInv, EdgeTypeOK, TypeOK
<1>5. \A q \in Reqs \ {r} : InMap(q)' => InMap(q)
  BY <1>1, <1>2, <1>4 DEF InMap, EdgeInv, EdgeTypeOK, TypeOK
<1>6. UNCHANGED <<started, completed, sinkErr, body>>
  BY <1>2 DEF sinkVars
<1>7. EdgeTypeOK'
  BY <1>2, <1>3, <1>6 DEF EdgeInv, EdgeTypeOK, IndInv, HandlerPCs, copyVars
<1>8. /\ hpc'[r] = "publishing"
      /\ \A q \in Reqs \ {r} : hpc'[q] = hpc[q]
  BY DEF EdgeInv, EdgeTypeOK
<1>9. Place(r)' /\ Out(r)'
  BY <1>1, <1>4, <1>8 DEF Place, Out, Ended
<1>10. Evidence(r)'
  BY <1>1, <1>2, <1>6, <1>8 DEF EdgeInv, HandlerInv, Evidence, Told
<1>11. UNCHANGED <<pc, token, sawLate, target, result>>
  BY <1>2 DEF callVars
<1> QED
  BY <1>1, <1>2, <1>3, <1>4, <1>5, <1>6, <1>7, <1>8, <1>9, <1>10, <1>11, RequestStep

(* Cancel by the handler's own id removes its own request and no other.    *)
LEMMA OwnCancel ==
  ASSUME EdgeInv, NEW r \in Reqs, InMap(r), NEW e \in Results, Cancel(reqID[r], e)
  PROVE  /\ IndInv'
         /\ UNCHANGED <<gone, late, sinkVars, claimed, callVars, reqID>>
         /\ ~InMap(r)'
         /\ cause'[r] = CancelError(e)
         /\ \A q \in Reqs \ {r} : cause'[q] = cause[q] /\ (InMap(q)' => InMap(q))
<1>1. reqID[r] \in IDs /\ entries[reqID[r]] = r
  BY DEF InMap, EdgeInv, EdgeTypeOK, TypeOK
<1>2. IndInv'
  BY <1>1, CancelStep DEF EdgeInv
<1>3. /\ entries' = [i \in IDs |-> IF entries[i] \in {r} THEN None ELSE entries[i]]
      /\ cause' = [q \in Reqs |-> IF q \in {r} THEN CancelError(e) ELSE cause[q]]
      /\ UNCHANGED <<gone, late, sinkVars, claimed, callVars, reqID>>
  BY <1>1 DEF Cancel, Detach
<1>4. \A q \in Reqs : InMap(q)' => q # r /\ InMap(q)
  BY <1>3, RegistryAssumption DEF InMap, EdgeInv, EdgeTypeOK, TypeOK
<1> QED
  BY <1>2, <1>3, <1>4

LEMMA HandlerCancelsStep ==
  ASSUME EdgeInv, NEW r \in Reqs, HandlerCancels(r)
  PROVE  EdgeInv'
<1> USE DEF HandlerCancels, Go
<1>1. /\ Place(r) /\ Out(r) /\ Evidence(r) /\ herr[r] \in Results
      /\ hpc[r] = "canceling" /\ herr[r] # "nil" /\ answer[r] = "none" /\ reqID[r] # None
  BY DEF EdgeInv, EdgeTypeOK, HandlerInv, Place, Ended
<1>2. \A q \in Reqs \ {r} : hpc'[q] = hpc[q]
  BY DEF EdgeInv, EdgeTypeOK
<1>3. CASE InMap(r)
  <2>1. /\ IndInv'
        /\ UNCHANGED <<gone, late, sinkVars, claimed, callVars, reqID>>
        /\ ~InMap(r)'
        /\ cause'[r] = herr[r]
        /\ \A q \in Reqs \ {r} : cause'[q] = cause[q] /\ (InMap(q)' => InMap(q))
    BY <1>1, <1>3, OwnCancel DEF CancelError
  <2>2. UNCHANGED <<started, completed, sinkErr, body, pc, token, sawLate, target, result>>
    BY <2>1 DEF sinkVars, callVars
  <2>3. EdgeTypeOK' /\ hpc'[r] = "notifying"
    BY <1>3, <2>1, <2>2 DEF EdgeInv, EdgeTypeOK, IndInv, HandlerPCs, copyVars
  <2>4. Place(r)' /\ Out(r)'
    BY <1>1, <2>1, <2>2, <2>3 DEF Place, Out, Ended
  <2>5. Evidence(r)'
    BY <1>1, <2>1, <2>2, <2>3 DEF Evidence, Told
  <2>6. reqID'[r] # None => \A q \in Reqs \ {r} : reqID[q] # reqID'[r]
    BY <2>1 DEF EdgeInv, TicketInv
  <2> QED
    BY <1>2, <2>1, <2>2, <2>3, <2>4, <2>5, <2>6, RequestStep
<1>4. CASE ~InMap(r)
  <2>1. UNCHANGED pendingVars /\ hpc'[r] = "deciding"
    BY <1>4 DEF EdgeInv, EdgeTypeOK
  <2>2. UNCHANGED <<reqID, entries, started, completed, sinkErr, cause, late, gone>>
    BY <2>1 DEF pendingVars, sinkVars, regVars
  <2>3. EdgeTypeOK'
    <3>1. TypeOK'
      BY <2>1, RegistryKept DEF EdgeInv, IndInv
    <3> QED
      BY <2>2, <3>1 DEF EdgeInv, EdgeTypeOK, HandlerPCs, copyVars
  <2>4. Place(r)' /\ Out(r)'
    BY <1>1, <1>4, <2>1, <2>2 DEF Place, Out, Ended, InMap
  <2>5. Evidence(r)'
    BY <1>1, <2>1, <2>2 DEF Evidence, Told
  <2> QED
    BY <1>2, <2>1, <2>2, <2>3, <2>4, <2>5, HandlerStep
<1> QED
  BY <1>3, <1>4

(* The deferred Cancel tells its "canceled" to nobody who still answers.   *)
LEMMA ReturnCancelsStep ==
  ASSUME EdgeInv, NEW r \in Reqs, ReturnCancels(r)
  PROVE  EdgeInv'
<1> USE DEF ReturnCancels, DeferredCancel, Go
<1>1. Place(r) /\ Out(r) /\ Evidence(r) /\ hpc[r] = "returning" /\ reqID[r] # None
  BY DEF EdgeInv, HandlerInv, InMap
<1>2. "canceled" \in Results /\ CancelError("canceled") = "canceled"
  BY DEF Results, Errors, CancelError
<1>3. /\ IndInv'
      /\ UNCHANGED <<gone, late, sinkVars, claimed, callVars, reqID>>
      /\ ~InMap(r)'
      /\ cause'[r] = "canceled"
      /\ \A q \in Reqs \ {r} : cause'[q] = cause[q] /\ (InMap(q)' => InMap(q))
  BY <1>2, OwnCancel
<1>4. UNCHANGED <<started, completed, sinkErr, body, pc, token, sawLate, target, result>>
  BY <1>3 DEF sinkVars, callVars
<1>5. EdgeTypeOK' /\ hpc'[r] = "unwinding" /\ \A q \in Reqs \ {r} : hpc'[q] = hpc[q]
  BY <1>3, <1>4 DEF EdgeInv, EdgeTypeOK, IndInv, HandlerPCs, copyVars
<1>6. Place(r)'
  BY <1>1, <1>3, <1>4, <1>5 DEF Place, Ended
<1>7. Out(r)'
  BY <1>1, <1>3, <1>4, <1>5 DEF Out, Ended
<1>8. Evidence(r)'
  BY <1>1, <1>3, <1>4, <1>5 DEF Evidence, Told
<1>9. reqID'[r] # None => \A q \in Reqs \ {r} : reqID[q] # reqID'[r]
  BY <1>3 DEF EdgeInv, TicketInv
<1> QED
  BY <1>3, <1>4, <1>5, <1>6, <1>7, <1>8, <1>9, RequestStep

(* The end of the handler is the end of its context.                       *)
LEMMA ReturnStep ==
  ASSUME EdgeInv, NEW r \in Reqs, Return(r) \/ Unwind(r)
  PROVE  EdgeInv'
<1> USE DEF Return, Unwind, DeferredCancel, Go
<1>1. Place(r) /\ Out(r) /\ Evidence(r) /\ ~InMap(r)
  BY DEF EdgeInv, HandlerInv, Out
<1>2. /\ UNCHANGED <<late, sinkVars, regVars, callVars>>
      /\ gone' = gone \cup {r} /\ hpc' = [hpc EXCEPT ![r] = "returned"]
      /\ hpc[r] \in {"returning", "unwinding"}
  OBVIOUS
<1>3. /\ UNCHANGED <<started, completed, sinkErr, body, lateWrites>>
      /\ UNCHANGED <<entries, reqID, claimed, streamOf, notify, cause>>
      /\ UNCHANGED <<pc, callID, token, sawLate, target, streamErr, result>>
  BY <1>2 DEF sinkVars, regVars, callVars
<1>4. IndInv'
  <2>1. TypeOK'
    BY <1>2, <1>3 DEF EdgeInv, IndInv, TypeOK, SinkTypeOK
  <2>2. MapInv' /\ \A q \in Reqs : InMap(q)' => InMap(q)
    BY <1>3 DEF EdgeInv, IndInv, MapInv, InMap
  <2> QED
    BY <1>2, <1>3, <2>1, <2>2, RegistryStep DEF EdgeInv
<1>5. /\ EdgeTypeOK' /\ hpc'[r] = "returned"
      /\ \A q \in Reqs \ {r} : hpc'[q] = hpc[q]
  BY <1>2, <1>4 DEF EdgeInv, EdgeTypeOK, IndInv, HandlerPCs, copyVars
<1>6. ~InMap(r)' /\ \A q \in Reqs : InMap(q)' => InMap(q)
  BY <1>1, <1>3 DEF InMap
<1>7. Place(r)' /\ Out(r)'
  BY <1>1, <1>2, <1>3, <1>5, <1>6 DEF Place, Out, Ended
<1>8. Evidence(r)'
  BY <1>1, <1>2, <1>3, <1>5 DEF Evidence, Told
<1>9. reqID'[r] # None => \A q \in Reqs \ {r} : reqID[q] # reqID'[r]
  BY <1>3 DEF EdgeInv, TicketInv
<1>10. late' = late /\ tickets' = tickets /\ hungUp' = hungUp
  BY <1>2
<1> QED
  BY <1>2, <1>3, <1>4, <1>5, <1>6, <1>7, <1>8, <1>9, <1>10, RequestStep
-----------------------------------------------------------------------------
(* The client leaves, or the deadline passes: evidence of what may be told *)
(* from now on.                                                            *)
LEMMA AroundStep ==
  ASSUME EdgeInv, NEW r \in Reqs, ClientLeaves(r) \/ DeadlineHits(r)
  PROVE  EdgeInv'
<1> USE DEF ClientLeaves, DeadlineHits, ContextEnds, DeadlinePasses
<1>1. /\ Place(r) /\ Out(r) /\ Evidence(r)
      /\ \A q \in Reqs : q # r => Place(q) /\ Out(q) /\ Evidence(q)
  BY DEF EdgeInv, HandlerInv
<1>2. /\ UNCHANGED <<sinkVars, regVars, callVars, hpc, herr, answer, tickets, copyVars, s3>>
      /\ \/ gone' = gone \cup {r} /\ hungUp' = hungUp \cup {r} /\ late' = late
         \/ gone' = gone /\ hungUp' = hungUp /\ late' = late \cup {r}
  BY DEF handlerVars
<1>3. /\ UNCHANGED <<started, completed, sinkErr, body>>
      /\ UNCHANGED <<entries, reqID, claimed, cause>>
      /\ UNCHANGED <<pc, token, sawLate, target, result>>
  BY <1>2 DEF sinkVars, regVars, callVars
<1>4. IndInv'
  BY WorldStep DEF EdgeInv
<1>5. EdgeTypeOK'
  BY <1>2, <1>4 DEF EdgeInv, EdgeTypeOK, IndInv, copyVars
<1>6. \A q \in Reqs : InMap(q)' <=> InMap(q)
  BY <1>3 DEF InMap
<1>7. Place(r)' /\ Out(r)'
  BY <1>1, <1>2, <1>3, <1>6 DEF Place, Out, Ended
<1>8. Evidence(r)'
  BY <1>1, <1>2, <1>3 DEF Evidence, Told
<1>9. reqID'[r] # None => \A q \in Reqs \ {r} : reqID[q] # reqID'[r]
  BY <1>3 DEF EdgeInv, TicketInv
<1>10. r \in tickets' => hpc'[r] # "publishing"
  BY <1>2 DEF EdgeInv, TicketInv
<1> QED
  BY <1>2, <1>3, <1>4, <1>5, <1>6, <1>7, <1>8, <1>9, <1>10, RequestStep

(* A remover tells the stream and the sink what it removed the request     *)
(* with; a sink that has its result keeps it.                              *)
LEMMA NotifyStepStep ==
  ASSUME EdgeInv, NEW r \in Reqs, NotifyStep(r)
  PROVE  EdgeInv'
<1> USE DEF NotifyStep, NotifyStream, NotifyTarget
<1>1. Place(r) /\ Out(r) /\ Evidence(r)
  BY DEF EdgeInv, HandlerInv
<1>2. IndInv'
  BY NotifyStreamStep, NotifyTargetStep DEF EdgeInv
<1>3. /\ UNCHANGED <<gone, late, entries, reqID, claimed, cause, pc, token, sawLate, target, result>>
      /\ UNCHANGED <<s3, hpc, herr, answer, hungUp, tickets, copyVars>>
  BY DEF callVars, handlerVars
<1>4. /\ UNCHANGED <<started, body>>
      /\ completed' \in {completed, completed \cup {r}}
      /\ sinkErr'[r] \in {sinkErr[r], cause[r]}
      /\ r \in completed => sinkErr'[r] = sinkErr[r]
      /\ \A q \in Reqs \ {r} : sinkErr'[q] = sinkErr[q]
  <2>1. CASE NotifyStream(r)
    BY <2>1 DEF sinkVars
  <2>2. CASE NotifyTarget(r)
    BY <2>2 DEF SinkComplete, EdgeInv, EdgeTypeOK, TypeOK, SinkTypeOK
  <2> QED
    BY <2>1, <2>2
<1>5. EdgeTypeOK'
  BY <1>2, <1>3 DEF EdgeInv, EdgeTypeOK, IndInv, copyVars
<1>6. \A q \in Reqs : InMap(q)' <=> InMap(q)
  BY <1>3 DEF InMap
<1>7. Place(r)' /\ Out(r)'
  BY <1>1, <1>3, <1>4, <1>6 DEF Place, Out, Ended
<1>8. Evidence(r)'
  BY <1>1, <1>3, <1>4 DEF Evidence, Told
<1>9. /\ reqID'[r] # None => \A q \in Reqs \ {r} : reqID[q] # reqID'[r]
      /\ r \in tickets' => hpc'[r] # "publishing"
  BY <1>3 DEF EdgeInv, TicketInv
<1> QED
  BY <1>2, <1>3, <1>4, <1>5, <1>6, <1>7, <1>8, <1>9, RequestStep
-----------------------------------------------------------------------------
(* What a step of one ingest call has to show that starts no response: the *)
(* errors it tells have their evidence, and its own bytes add up.  Another *)
(* call writes to another request.                                         *)
LEMMA CallStep ==
  ASSUME EdgeInv, NEW s \in Calls, IndInv', EdgeTypeOK',
         UNCHANGED <<handlerVars, gone, late, started, reqID, target>>,
         claimed \subseteq claimed',
         \A q \in Reqs : InMap(q)' => InMap(q),
         \A q \in completed : q \in completed' /\ sinkErr'[q] = sinkErr[q],
         \A q \in Reqs : \A e \in {cause'[q], sinkErr'[q]} :
           \/ e \in Told(q) \cup {"nil"}
           \/ e = "stream" /\ q \in started
           \/ e = "expired" /\ q \in late
           \/ e = "clientGone" /\ q \in hungUp,
         \A t \in Calls : token'[t] \in {token[t], None} \cup tickets,
         \A t \in Calls : sawLate'[t] \in {sawLate[t], late},
         \A q \in Reqs : q # target[s] => body'[q] = body[q],
         \A t \in Calls \ {s} :
           /\ pc'[t] = pc[t] /\ result'[t] = result[t]
           /\ size'[t] = size[t] /\ left'[t] = left[t] /\ framed'[t] = framed[t]
           /\ copyErr'[t] = copyErr[t] /\ ack'[t] = ack[t],
         Bytes(s)'
  PROVE  EdgeInv'
<1> USE DEF EdgeInv, handlerVars
<1>1. HandlerInv'
  <2> SUFFICES ASSUME NEW q \in Reqs PROVE (Place(q) /\ Out(q) /\ Evidence(q))'
    BY DEF HandlerInv
  <2>1. Place(q) /\ Out(q) /\ Evidence(q)
    BY DEF HandlerInv
  <2>2. Place(q)'
    BY <2>1 DEF Place
  <2>3. Out(q)'
    BY <2>1 DEF Out
  <2>4. \A e \in Told(q)' :
          \/ e \in Told(q) \cup {"nil"}
          \/ e = "stream" /\ q \in started
          \/ e = "expired" /\ q \in late
          \/ e = "clientGone" /\ q \in hungUp
    BY DEF Told
  <2>5. Evidence(q)'
    BY <2>1, <2>4 DEF Evidence
  <2> QED
    BY <2>2, <2>3, <2>5
<1>2. TicketInv'
  BY DEF TicketInv
<1>3. BytesInv'
  <2>1. ASSUME NEW r \in Reqs \ claimed' PROVE body'[r] = 0
    <3>1. r \notin claimed /\ body[r] = 0
      BY DEF BytesInv
    <3>2. target[s] # r
      BY <3>1, RegistryAssumption DEF IndInv, CallInv
    <3> QED
      BY <3>1, <3>2
  <2>2. ASSUME NEW t \in Calls, t # s PROVE Bytes(t)'
    <3>1. target[t] # None => target[t] \in Reqs /\ target[t] # target[s]
      BY <2>2 DEF IndInv, OneStreamPerRequest, TypeOK
    <3>2. Bytes(t)
      BY DEF BytesInv
    <3> QED
      BY <2>2, <3>1, <3>2 DEF Bytes
  <2> QED
    BY <2>1, <2>2 DEF BytesInv
<1> QED
  BY <1>1, <1>2, <1>3

(* The same of a step that leaves the registry and the sinks alone.        *)
LEMMA CopyStep ==
  ASSUME EdgeInv, NEW s \in Calls, IndInv', EdgeTypeOK',
         UNCHANGED <<handlerVars, gone, late, sinkVars, regVars, token, sawLate, target>>,
         \A t \in Calls \ {s} :
           /\ pc'[t] = pc[t] /\ result'[t] = result[t]
           /\ size'[t] = size[t] /\ left'[t] = left[t] /\ framed'[t] = framed[t]
           /\ copyErr'[t] = copyErr[t] /\ ack'[t] = ack[t],
         Bytes(s)'
  PROVE  EdgeInv'
<1>1. /\ UNCHANGED <<started, completed, sinkErr, body>>
      /\ UNCHANGED <<entries, reqID, claimed, cause>>
  BY DEF sinkVars, regVars
<1>2. \A q \in Reqs : InMap(q)' <=> InMap(q)
  BY <1>1 DEF InMap
<1>3. \A q \in Reqs : {cause'[q], sinkErr'[q]} \subseteq Told(q)
  BY <1>1 DEF Told
<1> QED
  BY <1>1, <1>2, <1>3, CallStep

(* A call has no target before its claim, and its copy has not begun.      *)
LEMMA NoStreamYet ==
  ASSUME EdgeInv, NEW s \in Calls, pc[s] \in {"idle", "clocked"}
  PROVE  /\ target[s] = None /\ left[s] = size[s] /\ copyErr[s] = "nil"
         /\ result[s] = "nil" /\ ack[s] # "ok"
  BY DEF EdgeInv, IndInv, CallInv, Streaming, BytesInv, Bytes

(* A connector comes with the token of a ticket, or with a wrong one.      *)
LEMMA DialStep ==
  ASSUME EdgeInv, NEW s \in Calls, Dial(s)
  PROVE  EdgeInv'
<1> USE DEF Dial
<1>1. PICK r \in Reqs, t \in {None} \cup tickets : reqID[r] # None /\ ReadClock(s, reqID[r], t)
  <2>1. CASE \E r \in tickets : ReadClock(s, reqID[r], r)
    BY <2>1 DEF EdgeInv, EdgeTypeOK, HandlerInv, Place
  <2>2. CASE \E r \in Reqs : reqID[r] # None /\ ReadClock(s, reqID[r], None)
    BY <2>2
  <2> QED
    BY <2>1, <2>2
<1>2. reqID[r] \in IDs /\ t \in Reqs \cup {None}
  BY <1>1 DEF EdgeInv, EdgeTypeOK, TypeOK
<1>3. IndInv'
  BY <1>1, <1>2, ReadClockStep DEF EdgeInv
<1>4. /\ pc[s] = "idle" /\ pc' = [pc EXCEPT ![s] = "clocked"]
      /\ token' = [token EXCEPT ![s] = t]
      /\ sawLate' = [sawLate EXCEPT ![s] = late]
      /\ UNCHANGED <<gone, late, sinkVars, regVars, target, streamErr, result>>
  BY <1>1 DEF ReadClock
<1>5. /\ size' \in [Calls -> 0..MaxChunks] /\ left' \in [Calls -> 0..MaxChunks]
      /\ framed' \in [Calls -> BOOLEAN]
      /\ UNCHANGED <<handlerVars, copyErr, ack>>
      /\ \A u \in Calls \ {s} : size'[u] = size[u] /\ left'[u] = left[u] /\ framed'[u] = framed[u]
      /\ left'[s] = size'[s]
  <2>1. left[s] = size[s] /\ size \in [Calls -> 0..MaxChunks] /\ left \in [Calls -> 0..MaxChunks]
        /\ framed \in [Calls -> BOOLEAN]
    BY <1>4, NoStreamYet DEF EdgeInv, EdgeTypeOK
  <2> QED
    BY <2>1
<1>6. EdgeTypeOK'
  BY <1>3, <1>4, <1>5 DEF EdgeInv, EdgeTypeOK, IndInv, handlerVars
<1>7. \A u \in Calls : /\ token'[u] \in {token[u], None} \cup tickets
                       /\ sawLate'[u] \in {sawLate[u], late}
                       /\ pc'[u] = IF u = s THEN "clocked" ELSE pc[u]
  BY <1>4 DEF EdgeInv, EdgeTypeOK, TypeOK
<1>8. Bytes(s)'
  <2>1. target[s] = None /\ copyErr[s] = "nil" /\ result[s] = "nil" /\ ack[s] # "ok"
    BY <1>4, NoStreamYet
  <2> QED
    BY <1>4, <1>5, <1>7, <2>1 DEF Bytes
<1>9. /\ UNCHANGED <<started, completed, sinkErr, body>>
      /\ UNCHANGED <<entries, reqID, claimed, cause>>
  BY <1>4 DEF sinkVars, regVars
<1>10. \A q \in Reqs : InMap(q)' <=> InMap(q)
  BY <1>9 DEF InMap
<1>11. \A q \in Reqs : {cause'[q], sinkErr'[q]} \subseteq Told(q)
  BY <1>9 DEF Told
<1> QED
  BY <1>3, <1>4, <1>5, <1>6, <1>7, <1>8, <1>9, <1>10, <1>11, CallStep

(* The errors a refused call tells are no news: a late request was late    *)
(* when the call read its clock; a target that does not start belongs to a *)
(* client that left or has its error (it has not succeeded, as nobody has  *)
(* claimed it).                                                            *)
LEMMA RefusalIsTrue ==
  ASSUME EdgeInv, NEW s \in Calls, NEW r \in Reqs, r = entries[callID[s]],
         ClaimExpired(s) \/ ClaimFails(s)
  PROVE  /\ InMap(r)
         /\ \E e : /\ Detach({r}, e, TargetOnly)
                   /\ \/ e \in Told(r)
                      \/ e = "expired" /\ r \in late
                      \/ e = "clientGone" /\ r \in hungUp
<1>1. InMap(r)
  BY RegistryAssumption DEF ClaimExpired, ClaimFails, Claimable, EdgeInv, IndInv, TypeOK, MapInv,
                            CallInv, InMap
<1>2. CASE ClaimExpired(s)
  <2>1. Detach({r}, "expired", TargetOnly) /\ r \in late
    BY <1>2 DEF ClaimExpired, Expired, EdgeInv, TicketInv
  <2> QED
    BY <1>1, <2>1
<1>3. CASE ClaimFails(s)
  <2>1. Detach({r}, SinkRefusal(r), TargetOnly) /\ r \notin claimed /\ ~SinkStartable(r)
    BY <1>3 DEF ClaimFails, Claimable, Unclaimed
  <2>2. r \in gone => r \in hungUp
    BY <1>1 DEF EdgeInv, HandlerInv, Out, Evidence
  <2>3. r \in completed => sinkErr[r] # "nil"
    <3> SUFFICES ASSUME r \in completed, sinkErr[r] = "nil" PROVE FALSE
      OBVIOUS
    <3>1. PICK t \in Calls : target[t] = r
      BY DEF EdgeInv, IndInv, SuccessIsAgreed
    <3> QED
      BY <2>1, <3>1, RegistryAssumption DEF EdgeInv, IndInv, CallInv
  <2>4. SinkRefusal(r) \in Told(r) \/ (SinkRefusal(r) = "clientGone" /\ r \in hungUp)
    BY <2>1, <2>2, <2>3 DEF SinkRefusal, SinkStartable, Told
  <2> QED
    BY <1>1, <2>1, <2>4
<1> QED
  BY <1>2, <1>3

LEMMA NotClaimedStep ==
  ASSUME EdgeInv, NEW s \in Calls,
         ClaimMissing(s) \/ ClaimRejected(s) \/ ClaimExpired(s) \/ ClaimFails(s),
         UNCHANGED <<handlerVars, copyVars>>
  PROVE  EdgeInv'
<1>1. /\ pc[s] = "clocked" /\ Refuse(s)
      /\ UNCHANGED <<gone, late, sinkVars>>
  BY DEF ClaimMissing, ClaimRejected, ClaimExpired, ClaimFails, Claimable
<1>2. IndInv'
  BY RefusedStep, DroppedStep DEF EdgeInv
<1>3. EdgeTypeOK'
  BY <1>1, <1>2 DEF EdgeInv, EdgeTypeOK, IndInv, handlerVars, copyVars
<1>4. /\ \A t \in Calls : pc'[t] = IF t = s THEN "refused" ELSE pc[t]
      /\ UNCHANGED <<token, sawLate, target, streamErr, result>>
  BY <1>1 DEF Refuse, EdgeInv, EdgeTypeOK, TypeOK
<1>5. Bytes(s)'
  <2>1. /\ target[s] = None /\ left[s] = size[s] /\ copyErr[s] = "nil"
        /\ result[s] = "nil" /\ ack[s] # "ok"
    BY <1>1, NoStreamYet
  <2> QED
    BY <1>4, <2>1 DEF Bytes, copyVars
<1>6. UNCHANGED <<started, completed, sinkErr, body>>
  BY <1>1 DEF sinkVars
<1>7. CASE ClaimMissing(s) \/ ClaimRejected(s)
  <2>1. UNCHANGED regVars
    BY <1>7 DEF ClaimMissing, ClaimRejected
  <2> QED
    BY <1>1, <1>2, <1>3, <1>4, <1>5, <2>1, CopyStep DEF copyVars
<1>8. CASE ClaimExpired(s) \/ ClaimFails(s)
  <2> DEFINE r == entries[callID[s]]
  <2>1. r \in Reqs
    BY <1>8, RegistryAssumption DEF ClaimExpired, ClaimFails, Claimable, EdgeInv, IndInv, TypeOK, CallInv
  <2> HIDE DEF r
  <2>2. PICK e : /\ Detach({r}, e, TargetOnly)
                 /\ \/ e \in Told(r)
                    \/ e = "expired" /\ r \in late
                    \/ e = "clientGone" /\ r \in hungUp
    BY <1>8, <2>1, RefusalIsTrue DEF r
  <2>3. /\ reqID' = reqID
        /\ entries' = [i \in IDs |-> IF entries[i] \in {r} THEN None ELSE entries[i]]
        /\ cause' = [q \in Reqs |-> IF q \in {r} THEN e ELSE cause[q]]
    BY <2>2 DEF Detach
  <2>4. \A q \in Reqs : InMap(q)' => InMap(q)
    BY <2>3, RegistryAssumption DEF InMap, EdgeInv, EdgeTypeOK, TypeOK
  <2>5. claimed \subseteq claimed'
    BY <1>8 DEF ClaimExpired, ClaimFails
  <2>6. \A q \in Reqs : \A x \in {cause'[q], sinkErr'[q]} :
          \/ x \in Told(q)
          \/ x = "expired" /\ q \in late
          \/ x = "clientGone" /\ q \in hungUp
    BY <1>6, <2>2, <2>3 DEF Told
  <2> QED
    BY <1>1, <1>2, <1>3, <1>4, <1>5, <1>6, <2>3, <2>4, <2>5, <2>6, CallStep DEF copyVars
<1> QED
  BY <1>7, <1>8

(* The claim starts the response.  The request was in the map, so its      *)
(* handler has not looked yet whether there is one to be left alone.       *)
LEMMA ClaimStep ==
  ASSUME EdgeInv, NEW s \in Calls, ClaimAccepted(s), UNCHANGED <<handlerVars, copyVars>>
  PROVE  EdgeInv'
<1> DEFINE r == entries[callID[s]]
<1>1. /\ pc[s] = "clocked" /\ r # None /\ r \notin claimed /\ token[s] = r
      /\ started' = started \cup {r}
      /\ claimed' = claimed \cup {r}
      /\ target' = [target EXCEPT ![s] = r]
      /\ pc' = [pc EXCEPT ![s] = "open"]
      /\ UNCHANGED <<gone, late, completed, sinkErr, body, entries, reqID, cause, token,
                     sawLate, result>>
  BY DEF ClaimAccepted, Claimable, Unclaimed, RightToken, SinkStart
<1>2. r \in Reqs /\ InMap(r)
  BY <1>1, RegistryAssumption DEF EdgeInv, IndInv, TypeOK, MapInv, CallInv, InMap
<1> HIDE DEF r
<1>3. r \in tickets /\ r \notin started /\ body[r] = 0
  BY <1>1, <1>2 DEF EdgeInv, TicketInv, BytesInv, IndInv, CallInv
<1>4. IndInv'
  BY ClaimAcceptedStep DEF EdgeInv
<1>5. EdgeTypeOK'
  BY <1>1, <1>4 DEF EdgeInv, EdgeTypeOK, IndInv, handlerVars, copyVars
<1>6. HandlerInv'
  <2> SUFFICES ASSUME NEW q \in Reqs PROVE (Place(q) /\ Out(q) /\ Evidence(q))'
    BY DEF HandlerInv
  <2>1. Place(q) /\ Out(q) /\ Evidence(q)
    BY DEF EdgeInv, HandlerInv
  <2>2. InMap(q)' <=> InMap(q)
    BY <1>1 DEF InMap
  <2>3. Place(q)'
    BY <1>1, <2>1 DEF Place, handlerVars
  <2>4. Out(q)'
    BY <1>1, <1>2, <1>3, <2>1, <2>2 DEF Out, Place, handlerVars
  <2>5. Evidence(q)'
    BY <1>1, <2>1 DEF Evidence, Told, handlerVars
  <2> QED
    BY <2>3, <2>4, <2>5
<1>7. /\ target[s] = None /\ left[s] = size[s] /\ copyErr[s] = "nil"
      /\ result[s] = "nil" /\ ack[s] # "ok"
  BY <1>1, NoStreamYet
<1>8. \A t \in Calls : /\ target'[t] = IF t = s THEN r ELSE target[t]
                       /\ pc'[t] = IF t = s THEN "open" ELSE pc[t]
  BY <1>1 DEF EdgeInv, EdgeTypeOK, TypeOK
<1>9. TicketInv'
  <2>1. \A q \in started' : q \in tickets /\ \E t \in Calls : target'[t] = q
    <3>1. \A q \in started : q \in Reqs /\ q # None
      BY RegistryAssumption DEF EdgeInv, EdgeTypeOK, TypeOK, SinkTypeOK
    <3> QED
      BY <1>1, <1>3, <1>7, <1>8, <3>1 DEF EdgeInv, TicketInv
  <2>2. \A t \in Calls : target'[t] # None => target'[t] \in started'
    BY <1>1, <1>8 DEF EdgeInv, TicketInv
  <2> QED
    BY <1>1, <2>1, <2>2 DEF EdgeInv, TicketInv, handlerVars
<1>10. BytesInv'
  <2>1. \A q \in Reqs \ claimed' : body'[q] = 0
    BY <1>1 DEF EdgeInv, BytesInv
  <2>2. ASSUME NEW t \in Calls, t # s PROVE Bytes(t)'
    BY <1>1, <1>8, <2>2 DEF EdgeInv, BytesInv, Bytes, copyVars
  <2>3. Bytes(s)'
    <3>1. left[s] \in 0..MaxChunks /\ 0 + left[s] = left[s]
      BY SinkAssumption DEF EdgeInv, EdgeTypeOK
    <3> QED
      BY <1>1, <1>3, <1>7, <1>8, <3>1 DEF Bytes, copyVars
  <2> QED
    BY <2>1, <2>2, <2>3 DEF BytesInv
<1> QED
  BY <1>4, <1>5, <1>6, <1>9, <1>10 DEF EdgeInv
-----------------------------------------------------------------------------
(* The steps of the copy that write nothing: a write is let through or     *)
(* refused, or the connector's body breaks off.                            *)
LEMMA CopyingStep ==
  ASSUME EdgeInv, NEW s \in Calls, CopyWrites(s) \/ CopyRefused(s) \/ BodyBreaks(s)
  PROVE  EdgeInv'
<1> USE DEF CopyWrites, CopyRefused, BodyBreaks, Copying
<1>1. pc[s] = "open" /\ copyErr[s] = "nil" /\ left[s] > 0 /\ Bytes(s)
  BY DEF EdgeInv, BytesInv
<1>2. IndInv'
  <2>1. CASE CopyWrites(s) \/ CopyRefused(s)
    BY <2>1, WriteCheckStep DEF EdgeInv
  <2>2. CASE BodyBreaks(s)
    BY <2>2, RegistryKept DEF EdgeInv
  <2> QED
    BY <2>1, <2>2
<1>3. UNCHANGED <<handlerVars, gone, late, sinkVars, regVars, token, sawLate, target, size,
                  framed, ack>>
  <2>1. CASE CopyWrites(s)
    BY <2>1 DEF WriteBegin, copyVars
  <2>2. CASE CopyRefused(s)
    BY <2>2 DEF WriteRefused
  <2>3. CASE BodyBreaks(s)
    BY <2>3 DEF pendingVars, callVars
  <2> QED
    BY <2>1, <2>2, <2>3
<1>4. /\ \/ /\ pc'[s] = "writing" /\ left'[s] = left[s] /\ copyErr'[s] = "nil"
            /\ result'[s] = result[s]
         \/ /\ pc'[s] = "open" /\ left'[s] = left[s] /\ copyErr'[s] = "stream"
            /\ result'[s] \in {result[s], "stream"}
         \/ /\ pc'[s] = "open" /\ left'[s] = 0 /\ copyErr'[s] = "nil" /\ ~framed[s]
            /\ result'[s] = result[s]
      /\ copyErr' \in [Calls -> Results] /\ left' \in [Calls -> 0..MaxChunks]
      /\ \A t \in Calls \ {s} : /\ pc'[t] = pc[t] /\ result'[t] = result[t]
                                /\ left'[t] = left[t] /\ copyErr'[t] = copyErr[t]
  <2>1. /\ pc \in [Calls -> PCs] /\ result \in [Calls -> Results]
        /\ left \in [Calls -> 0..MaxChunks] /\ copyErr \in [Calls -> Results]
        /\ 0 \in 0..MaxChunks /\ "stream" \in Results
    BY SinkAssumption DEF EdgeInv, EdgeTypeOK, TypeOK, Results, Errors
  <2>2. CASE CopyWrites(s)
    BY <1>1, <2>1, <2>2 DEF WriteBegin, copyVars
  <2>3. CASE CopyRefused(s)
    BY <1>1, <2>1, <2>3 DEF WriteRefused
  <2>4. CASE BodyBreaks(s)
    BY <1>1, <2>1, <2>4 DEF pendingVars, callVars
  <2> QED
    BY <2>2, <2>3, <2>4
<1>5. EdgeTypeOK'
  BY <1>2, <1>3, <1>4 DEF EdgeInv, EdgeTypeOK, IndInv, handlerVars
<1>6. Bytes(s)'
  <2>1. body' = body
    BY <1>3 DEF sinkVars
  <2>2. ack[s] # "ok" /\ result[s] \in {"nil", "stream"}
    BY <1>1 DEF Bytes
  <2>3. CASE copyErr'[s] = "nil" /\ left'[s] = left[s]
    BY <1>1, <1>3, <1>4, <2>1, <2>2, <2>3 DEF Bytes
  <2>4. CASE copyErr'[s] = "stream"
    BY <1>3, <1>4, <2>2, <2>4 DEF Bytes
  <2>5. CASE ~framed[s] /\ pc'[s] = "open" /\ copyErr'[s] = "nil" /\ result'[s] = result[s]
    BY <1>3, <2>2, <2>5 DEF Bytes
  <2> QED
    BY <1>4, <2>3, <2>4, <2>5
<1> QED
  BY <1>2, <1>3, <1>4, <1>5, <1>6, CopyStep

(* The write itself: a chunk the writer took without an error counts.      *)
LEMMA CopyInWriterStep ==
  ASSUME EdgeInv, NEW s \in Calls, CopyInWriter(s)
  PROVE  EdgeInv'
<1> USE DEF CopyInWriter
<1> DEFINE r == target[s]
<1>1. /\ pc[s] = "writing" /\ Bytes(s)
      /\ pc' = [pc EXCEPT ![s] = "wrote"]
      /\ UNCHANGED <<gone, late, regVars, callID, token, sawLate, target, streamErr>>
      /\ UNCHANGED <<handlerVars, copyVars>>
  BY DEF WriteBody, EdgeInv, BytesInv
<1>2. PICK n \in {0, 1}, e \in {"nil", "stream"} :
        /\ SinkWrote(r, n)
        /\ result' = [result EXCEPT ![s] = e]
        /\ e = "nil" /\ r \notin HeadReqs => n = 1
  <2>1. PICK w \in WriteOutcomes(r) : SinkWrote(r, w[1]) /\ result' = [result EXCEPT ![s] = w[2]]
    BY DEF WriteBody
  <2>2. w[1] \in {0, 1} /\ w[2] \in {"nil", "stream"} /\ (w[2] = "nil" /\ r \notin HeadReqs => w[1] = 1)
    BY DEF WriteOutcomes
  <2> QED
    BY <2>1, <2>2
<1>3. r \in Reqs /\ r # None /\ body[r] \in Nat
  BY <1>1, RegistryAssumption DEF EdgeInv, IndInv, CallInv, Streaming, TypeOK, SinkTypeOK
<1> HIDE DEF r
<1>4. IndInv'
  BY WriteBodyStep DEF EdgeInv
<1>5. EdgeTypeOK'
  BY <1>1, <1>4 DEF EdgeInv, EdgeTypeOK, IndInv, handlerVars, copyVars
<1>6. /\ UNCHANGED <<started, completed, sinkErr>>
      /\ \A q \in Reqs : body'[q] = IF q = r THEN body[q] + n ELSE body[q]
  BY <1>2, <1>3 DEF SinkWrote, EdgeInv, EdgeTypeOK, TypeOK, SinkTypeOK
<1>7. \A t \in Calls : /\ pc'[t] = IF t = s THEN "wrote" ELSE pc[t]
                       /\ result'[t] = IF t = s THEN e ELSE result[t]
  BY <1>1, <1>2 DEF EdgeInv, EdgeTypeOK, TypeOK
<1>8. Bytes(s)'
  <2>1. left[s] \in Nat /\ size[s] \in Nat
    BY SinkAssumption DEF EdgeInv, EdgeTypeOK
  <2>2. left[s] > 0 /\ copyErr[s] = "nil" /\ ack[s] # "ok"
    BY <1>1 DEF Bytes
  <2>3. r \notin HeadReqs /\ framed[s] => body[r] + left[s] = size[s]
    BY <1>1, <1>3, <2>2 DEF Bytes, r
  <2>4. r \notin HeadReqs /\ framed[s] /\ e = "nil" => body'[r] + left[s] = size[s] + 1
    BY <1>2, <1>3, <1>6, <2>1, <2>3
  <2> QED
    BY <1>1, <1>7, <2>2, <2>4 DEF Bytes, copyVars, r
<1>9. UNCHANGED <<entries, reqID, claimed, cause>>
  BY <1>1 DEF regVars
<1>10. \A q \in Reqs : InMap(q)' <=> InMap(q)
  BY <1>9 DEF InMap
<1>11. \A q \in Reqs : {cause'[q], sinkErr'[q]} \subseteq Told(q)
  BY <1>6, <1>9 DEF Told
<1> QED
  BY <1>1, <1>4, <1>5, <1>6, <1>7, <1>8, <1>9, <1>10, <1>11, CallStep DEF copyVars, r

(* The copy takes the result of the write: without an error there is one   *)
(* chunk less to send.                                                     *)
LEMMA CopyWroteStep ==
  ASSUME EdgeInv, NEW s \in Calls, CopyWrote(s)
  PROVE  EdgeInv'
<1> USE DEF CopyWrote, WriteEnd
<1>1. /\ pc[s] = "wrote" /\ Bytes(s)
      /\ left[s] \in 0..MaxChunks /\ left[s] > 0 /\ copyErr[s] = "nil" /\ ack[s] # "ok"
      /\ result[s] \in {"nil", "stream"}
  BY DEF EdgeInv, EdgeTypeOK, BytesInv, Bytes
<1>2. IndInv'
  BY WriteCheckStep DEF EdgeInv
<1>3. /\ CopyResult(s) \in {"nil", "stream"} /\ CopyResult(s) \in Results
      /\ CopyResult(s) = "nil" => result[s] = "nil"
  BY <1>1 DEF CopyResult, Results, Errors
<1>4. left[s] - 1 \in 0..MaxChunks
  BY <1>1, SinkAssumption
<1>5. /\ \A t \in Calls : /\ pc'[t] = IF t = s THEN "open" ELSE pc[t]
                          /\ left'[t] = IF t = s THEN left[s] - 1 ELSE left[t]
                          /\ copyErr'[t] = IF t = s THEN CopyResult(s) ELSE copyErr[t]
                          /\ t # s => result'[t] = result[t]
      /\ result'[s] \in {"nil", "stream"}
      /\ left' \in [Calls -> 0..MaxChunks] /\ copyErr' \in [Calls -> Results]
  BY <1>1, <1>3, <1>4 DEF EdgeInv, EdgeTypeOK, TypeOK
<1>6. EdgeTypeOK'
  BY <1>2, <1>5 DEF EdgeInv, EdgeTypeOK, IndInv, handlerVars
<1>7. Bytes(s)'
  <2>1. body' = body /\ target' = target
    BY DEF sinkVars
  <2>2. left[s] \in Nat /\ size[s] \in Nat /\ left[s] > 0
    BY <1>1, SinkAssumption DEF EdgeInv, EdgeTypeOK
  <2>3. ASSUME target[s] # None, target[s] \notin HeadReqs, framed[s], CopyResult(s) = "nil"
        PROVE  body[target[s]] + (left[s] - 1) = size[s]
    <3>1. body[target[s]] + left[s] = size[s] + 1
      BY <1>1, <1>3, <2>3 DEF Bytes
    <3>2. body[target[s]] \in Nat
      BY <2>3 DEF EdgeInv, EdgeTypeOK, TypeOK, SinkTypeOK
    <3> QED
      BY <2>2, <3>1, <3>2
  <2> QED
    BY <1>1, <1>3, <1>5, <2>1, <2>3 DEF Bytes
<1> QED
  BY <1>2, <1>5, <1>6, <1>7, CopyStep
-----------------------------------------------------------------------------
(* The copy ends, with an error or with nothing left to send.              *)
LEMMA CopyEndsStep ==
  ASSUME EdgeInv, NEW s \in Calls, CopyEnds(s)
  PROVE  EdgeInv'
<1> USE DEF CopyEnds, CloseBegin
<1>1. pc[s] = "open" /\ Bytes(s) /\ (copyErr[s] # "nil" \/ left[s] = 0)
  BY DEF EdgeInv, BytesInv, CopyDone
<1>2. IndInv'
  BY CloseBeginStep DEF EdgeInv
<1>3. EdgeTypeOK'
  BY <1>2 DEF EdgeInv, EdgeTypeOK, IndInv, handlerVars, copyVars
<1>4. \A t \in Calls : pc'[t] = IF t = s THEN "finishing" ELSE pc[t]
  BY DEF EdgeInv, EdgeTypeOK, TypeOK
<1>5. Bytes(s)'
  BY <1>1, <1>4 DEF Bytes, sinkVars, copyVars
<1> QED
  BY <1>2, <1>3, <1>4, <1>5, CopyStep DEF copyVars

(* Close finishes the sink with the error of the copy.  When it returns    *)
(* success the copy had none: no other call could have told the sink so.   *)
LEMMA CloseFinishes ==
  ASSUME EdgeInv, NEW s \in Calls, CloseFinish(s, CloseError(s)),
         UNCHANGED <<handlerVars, copyVars>>
  PROVE  EdgeInv'
<1> USE DEF CloseFinish, CloseError
<1> DEFINE r == target[s]
<1>1. /\ pc[s] = "finishing" /\ Bytes(s) /\ copyErr[s] \in {"nil", "stream"}
      /\ ack[s] # "ok" /\ (copyErr[s] # "nil" \/ left[s] = 0)
  BY DEF EdgeInv, BytesInv, Bytes
<1>2. r \in Reqs /\ r \in started /\ copyErr[s] \in Results
  BY <1>1, RegistryAssumption DEF EdgeInv, EdgeTypeOK, TicketInv, IndInv, CallInv, Streaming, TypeOK
<1> HIDE DEF r
<1>3. IndInv'
  BY <1>1, CloseFinishStep DEF EdgeInv
<1>4. EdgeTypeOK'
  BY <1>3 DEF EdgeInv, EdgeTypeOK, IndInv, handlerVars, copyVars
<1>5. /\ completed' = completed \cup {r}
      /\ \A q \in completed : sinkErr'[q] = sinkErr[q]
      /\ \A q \in Reqs : q # r => sinkErr'[q] = sinkErr[q]
      /\ sinkErr'[r] = FinishResult(r, copyErr[s])
      /\ UNCHANGED <<started, body>>
  BY <1>2, SinkCompleteStep DEF EdgeInv, IndInv, TypeOK, r
<1>6. \A t \in Calls : /\ pc'[t] = IF t = s THEN "removing" ELSE pc[t]
                       /\ result'[t] = IF t = s THEN FinishResult(r, copyErr[s]) ELSE result[t]
  BY DEF EdgeInv, EdgeTypeOK, TypeOK, r
<1>7. FinishResult(r, copyErr[s]) = "nil" => copyErr[s] = "nil"
  <2> SUFFICES ASSUME r \in completed, sinkErr[r] = "nil" PROVE FALSE
    BY DEF FinishResult
  <2>1. PICK t \in Calls : target[t] = r /\ pc[t] \in {"removing", "closed"}
    BY DEF EdgeInv, IndInv, SuccessIsAgreed
  <2>2. t = s
    BY <1>2, <2>1, RegistryAssumption DEF EdgeInv, IndInv, OneStreamPerRequest, r
  <2> QED
    BY <1>1, <2>1, <2>2
<1>8. Bytes(s)'
  BY <1>1, <1>5, <1>6, <1>7 DEF Bytes, copyVars
<1>9. UNCHANGED <<gone, late, entries, reqID, claimed, cause, token, sawLate, target>>
  BY DEF regVars
<1>10. \A q \in Reqs : InMap(q)' <=> InMap(q)
  BY <1>9 DEF InMap
<1>11. \A q \in Reqs : \A e \in {cause'[q], sinkErr'[q]} :
         e \in Told(q) \cup {"nil"} \/ (e = "stream" /\ q \in started)
  BY <1>1, <1>2, <1>5, <1>9 DEF Told, FinishResult
<1> QED
  BY <1>3, <1>4, <1>5, <1>6, <1>8, <1>9, <1>10, <1>11, CallStep DEF copyVars

LEMMA CloseRemoves ==
  ASSUME EdgeInv, NEW s \in Calls, CloseRemove(s), UNCHANGED <<handlerVars, copyVars>>
  PROVE  EdgeInv'
<1> USE DEF CloseRemove
<1>1. pc[s] = "removing" /\ Bytes(s)
  BY DEF EdgeInv, BytesInv
<1>2. IndInv'
  BY CloseRemoveStep DEF EdgeInv
<1>3. EdgeTypeOK'
  BY <1>2 DEF EdgeInv, EdgeTypeOK, IndInv, handlerVars, copyVars
<1>4. \A t \in Calls : pc'[t] = IF t = s THEN "closed" ELSE pc[t]
  BY DEF EdgeInv, EdgeTypeOK, TypeOK
<1>5. UNCHANGED <<started, completed, sinkErr, body>>
  BY DEF sinkVars
<1>6. Bytes(s)'
  BY <1>1, <1>4, <1>5 DEF Bytes, copyVars
<1>7. \A q \in Reqs : InMap(q)' => InMap(q)
  BY RegistryAssumption DEF InMap, EdgeInv, EdgeTypeOK, TypeOK
<1>8. \A q \in Reqs : {cause'[q], sinkErr'[q]} \subseteq Told(q)
  BY <1>5 DEF Told
<1> QED
  BY <1>2, <1>3, <1>4, <1>5, <1>6, <1>7, <1>8, CallStep DEF copyVars

LEMMA AcknowledgeStep ==
  ASSUME EdgeInv, NEW s \in Calls, Acknowledge(s)
  PROVE  EdgeInv'
<1> USE DEF Acknowledge
<1>1. IndInv'
  BY RegistryKept DEF EdgeInv
<1>2. UNCHANGED <<gone, late, sinkVars, regVars, pc, token, sawLate, target, result>>
  BY DEF pendingVars, callVars
<1>3. EdgeTypeOK'
  BY <1>1, <1>2 DEF EdgeInv, EdgeTypeOK, IndInv, handlerVars
<1>4. /\ ack'[s] = "ok" => pc[s] = "closed" /\ copyErr[s] = "nil" /\ result[s] = "nil"
      /\ \A t \in Calls \ {s} : ack'[t] = ack[t]
  BY DEF Acceptable, EdgeInv, EdgeTypeOK
<1>5. Bytes(s)'
  BY <1>2, <1>4 DEF EdgeInv, BytesInv, Bytes, sinkVars
<1> QED
  BY <1>1, <1>2, <1>3, <1>4, <1>5, CopyStep
-----------------------------------------------------------------------------
(* One step of the gateway, or a stutter.                                  *)
LEMMA HandlerInd == ASSUME EdgeInv, NEW r \in Reqs, Handler(r) PROVE EdgeInv'
<1>1. ASSUME NEW i \in IDs, Arrive(r, i) PROVE EdgeInv'
  BY <1>1, ArriveStep
<1>2. CASE SetupFails(r)
  BY <1>2, SetupFailsStep
<1>3. CASE RouteFails(r) \/ PublishFails(r) \/ Publish(r) \/ FlushFails(r) \/ Flushed(r)
  BY <1>3, BeforeWaitStep
<1>4. CASE WaitEnds(r) \/ WaitTimesOut(r)
  BY <1>4, WaitEndsStep, WaitTimesOutStep
<1>5. CASE HandlerCancels(r)
  BY <1>5, HandlerCancelsStep
<1>6. CASE HandlerCanceled(r) \/ Decide(r) \/ Answer(r)
  BY <1>6, AfterWaitStep
<1>7. CASE Return(r) \/ Unwind(r)
  BY <1>7, ReturnStep
<1>8. CASE ReturnCancels(r)
  BY <1>8, ReturnCancelsStep
<1> QED
  BY <1>1, <1>2, <1>3, <1>4, <1>5, <1>6, <1>7, <1>8 DEF Handler

LEMMA IngestInd == ASSUME EdgeInv, NEW s \in Calls, Ingest(s) PROVE EdgeInv'
<1>1. CASE Dial(s)
  BY <1>1, DialStep
<1>2. CASE Claim(s)
  BY <1>2, NotClaimedStep, ClaimStep DEF Claim, StartIngest
<1>3. CASE CopyWrites(s) \/ CopyRefused(s) \/ BodyBreaks(s)
  BY <1>3, CopyingStep
<1>4. CASE CopyInWriter(s) \/ CopyWrote(s)
  BY <1>4, CopyInWriterStep, CopyWroteStep
<1>5. CASE CopyEnds(s) \/ Close(s)
  BY <1>5, CopyEndsStep, CloseFinishes, CloseRemoves DEF Close
<1>6. CASE Acknowledge(s)
  BY <1>6, AcknowledgeStep
<1> QED
  BY <1>1, <1>2, <1>3, <1>4, <1>5, <1>6 DEF Ingest

LEMMA EdgeStutter == ASSUME EdgeInv, UNCHANGED edgeVars PROVE EdgeInv'
<1> USE DEF edgeVars
<1>1. IndInv'
  BY RegistryKept DEF EdgeInv
<1>2. /\ UNCHANGED <<started, completed, sinkErr, body, gone, late>>
      /\ UNCHANGED <<entries, reqID, claimed, cause>>
      /\ UNCHANGED <<pc, token, sawLate, target, result>>
      /\ UNCHANGED <<s3, hpc, herr, answer, hungUp, tickets>>
      /\ UNCHANGED <<size, left, framed, copyErr, ack>>
  BY DEF pendingVars, sinkVars, regVars, callVars, handlerVars, copyVars
<1>3. EdgeTypeOK'
  BY <1>1, <1>2 DEF EdgeInv, EdgeTypeOK, IndInv
<1>4. HandlerInv'
  BY <1>2 DEF EdgeInv, HandlerInv, Place, Out, Evidence, Told, InMap
<1>5. TicketInv' /\ BytesInv'
  BY <1>2 DEF EdgeInv, TicketInv, BytesInv, Bytes
<1> QED
  BY <1>1, <1>3, <1>4, <1>5 DEF EdgeInv

LEMMA EdgeNextInv == EdgeInv /\ [EdgeNext]_edgeVars => EdgeInv'
<1> SUFFICES ASSUME EdgeInv, [EdgeNext]_edgeVars PROVE EdgeInv'
  OBVIOUS
<1>1. ASSUME NEW r \in Reqs, Handler(r) PROVE EdgeInv'
  BY <1>1, HandlerInd
<1>2. ASSUME NEW r \in Reqs, ClientLeaves(r) \/ DeadlineHits(r) \/ NotifyStep(r) PROVE EdgeInv'
  BY <1>2, AroundStep, NotifyStepStep
<1>3. ASSUME NEW s \in Calls, Ingest(s) PROVE EdgeInv'
  BY <1>3, IngestInd
<1>4. CASE UNCHANGED edgeVars
  BY <1>4, EdgeStutter
<1> QED
  BY <1>1, <1>2, <1>3, <1>4 DEF EdgeNext

(* The inductive invariant of the gateway.                                 *)
THEOREM EdgeInductive == EdgeSpec => []EdgeInv
  BY EdgeInitInv, EdgeNextInv, PTL DEF EdgeSpec
-----------------------------------------------------------------------------
(* The values of the variables, those of the registry included.            *)
THEOREM EdgeTypeCorrect == EdgeSpec => []EdgeTypeOK
<1>1. EdgeInv => EdgeTypeOK
  BY DEF EdgeInv
<1> QED
  BY <1>1, EdgeInductive, PTL

(* writeResult answers no request whose response a connector has started,  *)
(* but after a failed publish: the entry is canceled before Started is     *)
(* asked, in ServeHTTP and in serveS3API.                                  *)
THEOREM SingleAnswerHolds == EdgeSpec => []SingleAnswerOncePublished
<1>1. EdgeInv => SingleAnswerOncePublished
  BY DEF EdgeInv, HandlerInv, Out, SingleAnswerOncePublished
<1> QED
  BY <1>1, EdgeInductive, PTL

(* No handler returns with nothing written while its client is there.      *)
THEOREM NeverSilentHolds == EdgeSpec => []NeverSilent
<1>1. EdgeInv => NeverSilent
  BY DEF EdgeInv, HandlerInv, Place, Ended, NeverSilent
<1> QED
  BY <1>1, EdgeInductive, PTL

(* Whatever connectors do to the entry of a published request, its handler *)
(* writes an error only for the deadline, and then statusForWaitError is   *)
(* 504.                                                                    *)
THEOREM DeadlineFailsHolds == EdgeSpec => []OnlyTheDeadlineFails
<1>1. EdgeInv => OnlyTheDeadlineFails
  BY DEF EdgeInv, HandlerInv, Place, Evidence, Told, OnlyTheDeadlineFails
<1> QED
  BY <1>1, EdgeInductive, PTL

(* The deferred Cancel leaves no entry of a handler that has returned.     *)
THEOREM NothingLeftHolds == EdgeSpec => []NothingLeftBehind
<1>1. EdgeInv => NothingLeftBehind
  BY DEF EdgeInv, HandlerInv, Out, NothingLeftBehind
<1> QED
  BY <1>1, EdgeInductive, PTL

(* A stream that closed with success is one whose copy came to its end.    *)
LEMMA CleanClose ==
  ASSUME EdgeInv, NEW s \in Calls, pc[s] \in {"removing", "closed"}, result[s] = "nil", framed[s]
  PROVE  Whole(s)
<1>1. target[s] \in Reqs /\ target[s] # None
  BY RegistryAssumption DEF EdgeInv, IndInv, CallInv, Streaming, TypeOK
<1>2. SUFFICES ASSUME target[s] \notin HeadReqs PROVE body[target[s]] = size[s]
  BY DEF Whole
<1>3. copyErr[s] = "nil" /\ left[s] = 0 /\ body[target[s]] + left[s] = size[s]
  BY <1>1, <1>2 DEF EdgeInv, BytesInv, Bytes
<1>4. body[target[s]] \in Nat
  BY <1>1 DEF EdgeInv, EdgeTypeOK, TypeOK, SinkTypeOK
<1> QED
  BY <1>3, <1>4

(* 204 is sent for a whole body, and the public side was told of success.  *)
THEOREM AckHolds == EdgeSpec => []AckIsTrue
<1>1. ASSUME EdgeInv PROVE AckIsTrue
  <2> SUFFICES ASSUME NEW s \in Calls, ack[s] = "ok", framed[s]
               PROVE  sinkErr[target[s]] = "nil" /\ Whole(s)
    BY DEF AckIsTrue
  <2>1. pc[s] = "closed" /\ result[s] = "nil"
    BY <1>1 DEF EdgeInv, BytesInv, Bytes
  <2> QED
    BY <1>1, <2>1, CleanClose DEF EdgeInv, IndInv, SuccessIsAgreed
<1> QED
  BY <1>1, EdgeInductive, PTL

(* A handler that waited until success has a response that is whole.       *)
THEOREM SuccessWhole == EdgeSpec => []SuccessIsWhole
<1>1. ASSUME EdgeInv PROVE SuccessIsWhole
  <2> SUFFICES ASSUME NEW r \in Reqs, hpc[r] \in Ended, r \in started, herr[r] = "nil"
               PROVE  \E s \in Calls : target[s] = r /\ (framed[s] => Whole(s))
    BY DEF SuccessIsWhole, Ended
  <2>1. r \in completed /\ sinkErr[r] = "nil"
    BY <1>1 DEF EdgeInv, HandlerInv, Place, TicketInv
  <2>2. PICK s \in Calls : target[s] = r /\ pc[s] \in {"removing", "closed"}
    BY <1>1, <2>1 DEF EdgeInv, IndInv, SuccessIsAgreed
  <2>3. result[s] = "nil"
    BY <1>1, <2>1, <2>2 DEF EdgeInv, IndInv, SuccessIsAgreed
  <2> QED
    BY <1>1, <2>2, <2>3, CleanClose
<1> QED
  BY <1>1, EdgeInductive, PTL
-----------------------------------------------------------------------------
(* The refinement of HeldResponse: a request's view changes by one of its  *)
(* moves, one request at a time.                                           *)
Seen == [r \in Reqs |-> View(r)]

LEMMA OneMove ==
  ASSUME NEW r \in Reqs, \A q \in Reqs \ {r} : View(q)' = View(q),
         \/ View(r)' = View(r)
         \/ View(r) = "idle" /\ View(r)' \in {"held", "refused"}
         \/ View(r) = "held" /\ View(r)' \in {"streaming", "refused", "dropped", "void"}
         \/ View(r) = "streaming" /\ View(r)' \in {"served", "broken", "void"}
         \/ View(r) \in {"served", "broken"} /\ View(r)' = "void"
  PROVE  [Held!Next]_Seen
<1> USE DEF Seen
<1>1. CASE View(r)' = View(r)
  BY <1>1
<1>2. CASE View(r)' # View(r)
  <2>1. Seen' = [Seen EXCEPT ![r] = View(r)'] /\ Seen[r] = View(r)
    OBVIOUS
  <2>2. Held!Hold(r) \/ Held!Commit(r) \/ Held!Finish(r) \/ Held!RefuseAtOnce(r)
    BY <1>2, <2>1 DEF Held!Hold, Held!Commit, Held!Finish, Held!RefuseAtOnce, Held!Move
  <2> QED
    BY <2>2 DEF Held!Next
<1> QED
  BY <1>1, <1>2

(* A step that an observer of the requests does not see.                   *)
LEMMA NoMove ==
  ASSUME \A q \in Reqs : View(q)' = View(q)
  PROVE  [Held!Next]_Seen
  BY DEF Seen

(* The view of a request is told by its handler and its sink.              *)
LEMMA ViewKept ==
  ASSUME NEW q \in Reqs,
         hpc'[q] = hpc[q], herr'[q] = herr[q], answer'[q] = answer[q],
         q \in started' <=> q \in started, q \in completed' <=> q \in completed,
         sinkErr'[q] = sinkErr[q]
  PROVE  View(q)' = View(q)
  BY DEF View

(* The handler's steps before its wait: it takes the request on, and may   *)
(* fail to set it up, or to publish it.                                    *)
LEMMA BeforeWaitMoves ==
  ASSUME EdgeInv, NEW r \in Reqs,
         \/ \E i \in IDs : Arrive(r, i)
         \/ SetupFails(r) \/ RouteFails(r) \/ PublishFails(r) \/ Publish(r)
         \/ FlushFails(r) \/ Flushed(r)
  PROVE  [Held!Next]_Seen
<1> USE DEF Arrive, SetupFails, RouteFails, PublishFails, Publish, FlushFails, Flushed, Go,
            Fail, AfterPublishError
<1>1. /\ hpc[r] \in {"new", "publishing", "flushing"}
      /\ herr[r] = "nil" /\ answer[r] = "none"
      /\ hpc[r] \in {"new", "publishing"} => r \notin started
  BY DEF EdgeInv, HandlerInv, Place, Ended, TicketInv
<1>2. UNCHANGED <<started, completed, sinkErr>>
  BY DEF Register, pendingVars, sinkVars
<1>3. \A q \in Reqs \ {r} : hpc'[q] = hpc[q] /\ herr'[q] = herr[q] /\ answer'[q] = answer[q]
  BY DEF EdgeInv, EdgeTypeOK
<1>4. \A q \in Reqs \ {r} : View(q)' = View(q)
  BY <1>2, <1>3, ViewKept
<1>5. CASE \E i \in IDs : Arrive(r, i)
  <2>1. hpc[r] = "new" /\ hpc'[r] = "publishing" /\ herr'[r] = "nil" /\ answer'[r] = "none"
    BY <1>1, <1>5 DEF EdgeInv, EdgeTypeOK
  <2>2. View(r) = "idle" /\ View(r)' = "held"
    BY <1>1, <1>2, <2>1 DEF View
  <2> QED
    BY <1>4, <2>2, OneMove
<1>6. CASE SetupFails(r)
  <2>1. hpc[r] = "new" /\ herr'[r] = "nil" /\ answer'[r] # "none"
    BY <1>1, <1>6 DEF SetupStatuses, EdgeInv, EdgeTypeOK
  <2>2. View(r) = "idle" /\ View(r)' = "refused"
    BY <1>1, <1>2, <2>1 DEF View
  <2> QED
    BY <1>4, <2>2, OneMove
<1>7. CASE RouteFails(r) \/ Publish(r) \/ Flushed(r)
  <2>1. /\ hpc[r] \in {"publishing", "flushing"} /\ hpc'[r] \in {"canceling", "flushing", "waiting"}
        /\ herr'[r] \in {"nil", "setup"} /\ answer'[r] = "none"
    BY <1>1, <1>7 DEF EdgeInv, EdgeTypeOK
  <2>2. View(r)' = View(r)
    BY <1>1, <1>2, <2>1 DEF View
  <2> QED
    BY <1>4, <2>2, OneMove
<1>8. CASE PublishFails(r) \/ FlushFails(r)
  <2>1. hpc[r] \in {"publishing", "flushing"} /\ herr'[r] = "publish"
    BY <1>8 DEF EdgeInv, EdgeTypeOK
  <2>2. View(r)' = "void" /\ View(r) \in {"held", "streaming", "served", "broken"}
    BY <1>1, <2>1 DEF View
  <2> QED
    BY <1>4, <2>2, OneMove
<1> QED
  BY <1>5, <1>6, <1>7, <1>8

(* The handler's steps from its wait on: it may drop the request without a *)
(* word or refuse it, and does neither once the response has started.      *)
LEMMA AfterWaitMoves ==
  ASSUME EdgeInv, NEW r \in Reqs,
         \/ WaitEnds(r) \/ WaitTimesOut(r) \/ HandlerCancels(r) \/ HandlerCanceled(r)
         \/ Decide(r) \/ Answer(r) \/ Return(r) \/ ReturnCancels(r) \/ Unwind(r)
  PROVE  [Held!Next]_Seen
<1> USE DEF WaitEnds, WaitTimesOut, HandlerCancels, HandlerCanceled, Decide, Answer, Return,
            ReturnCancels, Unwind, Go, Fail
<1>1. Place(r) /\ Out(r) /\ Evidence(r)
  BY DEF EdgeInv, HandlerInv
<1>2. UNCHANGED <<started, completed, sinkErr>>
  BY DEF Cancel, pendingVars, sinkVars
<1>3. \A q \in Reqs \ {r} : hpc'[q] = hpc[q] /\ herr'[q] = herr[q] /\ answer'[q] = answer[q]
  BY DEF EdgeInv, EdgeTypeOK
<1>4. \A q \in Reqs \ {r} : View(q)' = View(q)
  BY <1>2, <1>3, ViewKept
<1>5. CASE WaitEnds(r)
  <2>1. /\ hpc[r] = "waiting" /\ herr[r] = "nil" /\ answer[r] = "none"
        /\ herr'[r] = sinkErr[r] /\ answer'[r] = "none" /\ sinkErr[r] # "publish"
        /\ hpc'[r] = IF sinkErr[r] = "nil" THEN "returning" ELSE "canceling"
    BY <1>1, <1>5 DEF Place, Ended, Evidence, Told, EdgeInv, EdgeTypeOK
  <2>2. sinkErr[r] = "nil" => r \in started
    <3> SUFFICES ASSUME sinkErr[r] = "nil" PROVE r \in started
      OBVIOUS
    <3>1. PICK s \in Calls : target[s] = r
      BY <1>5 DEF EdgeInv, IndInv, SuccessIsAgreed
    <3> QED
      BY <3>1, RegistryAssumption DEF EdgeInv, TicketInv
  <2>3. View(r)' = View(r)
    BY <1>2, <2>1, <2>2 DEF View
  <2> QED
    BY <1>4, <2>3, OneMove
<1>6. CASE WaitTimesOut(r)
  <2>1. /\ hpc[r] = "waiting" /\ herr[r] = "nil" /\ answer[r] = "none"
        /\ herr'[r] \in {"clientGone", "deadline"} /\ answer'[r] = "none"
        /\ hpc'[r] = "canceling"
    BY <1>1, <1>6 DEF Place, Ended, AfterTimeout, EdgeInv, EdgeTypeOK
  <2>2. View(r)' = View(r)
    BY <1>2, <2>1 DEF View
  <2> QED
    BY <1>4, <2>2, OneMove
<1>7. CASE HandlerCancels(r) \/ HandlerCanceled(r)
  <2>1. /\ hpc[r] \in {"canceling", "notifying"} /\ hpc'[r] \in {"notifying", "deciding"}
        /\ herr'[r] = herr[r] /\ answer'[r] = answer[r]
    BY <1>7 DEF EdgeInv, EdgeTypeOK
  <2>2. View(r)' = View(r)
    BY <1>2, <2>1 DEF View
  <2> QED
    BY <1>4, <2>2, OneMove
<1>8. CASE Decide(r)
  <2>1. /\ hpc[r] = "deciding" /\ hpc'[r] = IF Silent(r) THEN "returning" ELSE "failing"
        /\ herr'[r] = herr[r] /\ answer'[r] = answer[r] /\ answer[r] = "none"
    BY <1>1, <1>8 DEF Place, Ended, EdgeInv, EdgeTypeOK
  <2>2. CASE Silent(r) /\ r \notin started
    <3>1. View(r) = "held" /\ View(r)' = "dropped"
      BY <1>2, <2>1, <2>2 DEF View, Silent
    <3> QED
      BY <1>4, <3>1, OneMove
  <2>3. CASE ~(Silent(r) /\ r \notin started)
    <3>1. View(r)' = View(r)
      BY <1>2, <2>1, <2>3 DEF View
    <3> QED
      BY <1>4, <3>1, OneMove
  <2> QED
    BY <2>2, <2>3
<1>9. CASE Answer(r)
  <2>1. /\ hpc[r] = "failing" /\ herr'[r] = herr[r] /\ answer[r] = "none" /\ answer'[r] # "none"
    BY <1>1, <1>9 DEF Place, Ended, Statuses, SetupStatuses, EdgeInv, EdgeTypeOK
  <2>2. CASE herr[r] = "publish"
    <3>1. View(r)' = View(r)
      BY <2>1, <2>2 DEF View
    <3> QED
      BY <1>4, <3>1, OneMove
  <2>3. CASE herr[r] # "publish"
    <3>1. View(r) = "held" /\ View(r)' = "refused"
      BY <1>1, <1>2, <2>1, <2>3 DEF View, Out
    <3> QED
      BY <1>4, <3>1, OneMove
  <2> QED
    BY <2>2, <2>3
<1>10. CASE Return(r) \/ ReturnCancels(r) \/ Unwind(r)
  <2>1. /\ hpc[r] \in {"returning", "unwinding"} /\ hpc'[r] \in {"unwinding", "returned"}
        /\ herr'[r] = herr[r] /\ answer'[r] = answer[r]
    BY <1>10 DEF EdgeInv, EdgeTypeOK
  <2>2. View(r)' = View(r)
    BY <1>2, <2>1 DEF View
  <2> QED
    BY <1>4, <2>2, OneMove
<1> QED
  BY <1>5, <1>6, <1>7, <1>8, <1>9, <1>10

(* A sink gets its result: the response that has started is served, or cut *)
(* off; nothing is to be seen of a result that came too late, or without a *)
(* response.                                                               *)
LEMMA CompletionMoves ==
  ASSUME EdgeInv, NEW r \in Reqs, NEW e \in Results, SinkComplete(r, e), UNCHANGED handlerVars
  PROVE  [Held!Next]_Seen
<1>1. /\ completed' = completed \cup {r}
      /\ \A q \in completed : sinkErr'[q] = sinkErr[q]
      /\ \A q \in Reqs : q # r => sinkErr'[q] = sinkErr[q]
      /\ UNCHANGED <<started, hpc, herr, answer>>
  BY SinkCompleteStep DEF EdgeInv, IndInv, TypeOK, handlerVars
<1>2. \A q \in Reqs \ {r} : View(q)' = View(q)
  BY <1>1, ViewKept
<1>3. CASE r \in started /\ r \notin completed /\ herr[r] # "publish"
  <2>1. View(r) = "streaming" /\ View(r)' \in {"served", "broken"}
    BY <1>1, <1>3 DEF View
  <2> QED
    BY <1>2, <2>1, OneMove
<1>4. CASE ~(r \in started /\ r \notin completed /\ herr[r] # "publish")
  <2>1. View(r)' = View(r)
    BY <1>1, <1>4 DEF View
  <2> QED
    BY <1>2, <2>1, OneMove
<1> QED
  BY <1>3, <1>4

(* A claim commits the response of a request that is still held: it was in *)
(* the map, so it was neither refused nor dropped.                         *)
LEMMA ClaimMoves ==
  ASSUME EdgeInv, NEW s \in Calls, ClaimAccepted(s), UNCHANGED handlerVars
  PROVE  [Held!Next]_Seen
<1>1. PICK r \in Reqs : r = entries[callID[s]]
  BY RegistryAssumption DEF ClaimAccepted, Claimable, EdgeInv, IndInv, TypeOK, CallInv
<1>2. /\ InMap(r) /\ r \notin claimed /\ r \notin completed
      /\ started' = started \cup {r}
      /\ UNCHANGED <<completed, sinkErr, hpc, herr, answer>>
  BY <1>1, RegistryAssumption DEF ClaimAccepted, Claimable, Unclaimed, SinkStartable, SinkStart,
                                  handlerVars, EdgeInv, IndInv, TypeOK, MapInv, CallInv, InMap
<1>3. Place(r) /\ Out(r) /\ r \notin started /\ hpc[r] # "new"
  <2>1. Place(r) /\ Out(r)
    BY DEF EdgeInv, HandlerInv
  <2>2. r \notin started
    <3> SUFFICES ASSUME r \in started PROVE FALSE
      OBVIOUS
    <3>1. PICK t \in Calls : target[t] = r
      BY DEF EdgeInv, TicketInv
    <3> QED
      BY <1>2, <3>1, RegistryAssumption DEF EdgeInv, IndInv, CallInv
  <2> QED
    BY <1>2, <2>1, <2>2 DEF Place, InMap
<1>4. \A q \in Reqs \ {r} : View(q)' = View(q)
  BY <1>2, ViewKept
<1>5. CASE herr[r] = "publish"
  <2>1. View(r)' = View(r)
    BY <1>2, <1>5 DEF View
  <2> QED
    BY <1>4, <2>1, OneMove
<1>6. CASE herr[r] # "publish"
  <2>1. hpc[r] \notin Ended /\ answer[r] = "none"
    BY <1>2, <1>3, <1>6 DEF Out, Place
  <2>2. View(r) = "held" /\ View(r)' = "streaming"
    BY <1>2, <1>3, <1>6, <2>1 DEF View, Ended
  <2> QED
    BY <1>4, <2>2, OneMove
<1> QED
  BY <1>5, <1>6

(* What is left: steps that touch neither a handler nor a sink's results.  *)
LEMMA UnseenMoves ==
  ASSUME UNCHANGED <<hpc, herr, answer, started, completed, sinkErr>>
  PROVE  [Held!Next]_Seen
<1>1. \A q \in Reqs : View(q)' = View(q)
  BY ViewKept
<1> QED
  BY <1>1, NoMove

LEMMA IngestMoves ==
  ASSUME EdgeInv, NEW s \in Calls, Ingest(s)
  PROVE  [Held!Next]_Seen
<1>1. UNCHANGED handlerVars
  BY DEF Ingest, Dial, Claim, CopyWrites, CopyRefused, CopyInWriter, CopyWrote, BodyBreaks,
         CopyEnds, Close, Acknowledge
<1>2. CASE ClaimAccepted(s)
  BY <1>1, <1>2, ClaimMoves
<1>3. CASE CloseFinish(s, CloseError(s))
  <2>1. target[s] \in Reqs /\ copyErr[s] \in Results
    BY <1>3, RegistryAssumption DEF CloseFinish, EdgeInv, EdgeTypeOK, IndInv, CallInv, Streaming,
                                    TypeOK
  <2> QED
    BY <1>1, <1>3, <2>1, CompletionMoves DEF CloseFinish, CloseError
<1>4. CASE ~ClaimAccepted(s) /\ ~CloseFinish(s, CloseError(s))
  <2>1. UNCHANGED <<started, completed, sinkErr>>
    <3>1. CASE Dial(s)
      BY <3>1 DEF Dial, ReadClock, sinkVars
    <3>2. CASE Claim(s)
      BY <1>4, <3>2 DEF Claim, StartIngest, ClaimMissing, ClaimExpired, ClaimRejected, ClaimFails,
                        sinkVars
    <3>3. CASE CopyWrites(s) \/ CopyRefused(s) \/ CopyWrote(s)
      BY <3>3 DEF CopyWrites, CopyRefused, CopyWrote, WriteBegin, WriteRefused, WriteEnd, sinkVars
    <3>4. CASE CopyInWriter(s)
      BY <3>4 DEF CopyInWriter, WriteBody, SinkWrote
    <3>5. CASE BodyBreaks(s) \/ Acknowledge(s)
      BY <3>5 DEF BodyBreaks, Acknowledge, pendingVars, sinkVars
    <3>6. CASE CopyEnds(s) \/ Close(s)
      BY <1>4, <3>6 DEF CopyEnds, CloseBegin, Close, CloseRemove, sinkVars
    <3> QED
      BY <3>1, <3>2, <3>3, <3>4, <3>5, <3>6 DEF Ingest
  <2> QED
    BY <1>1, <2>1, UnseenMoves DEF handlerVars
<1> QED
  BY <1>2, <1>3, <1>4

LEMMA EdgeMoves ==
  EdgeInv /\ [EdgeNext]_edgeVars => [Held!Next]_Seen
<1> SUFFICES ASSUME EdgeInv, [EdgeNext]_edgeVars
             PROVE  [Held!Next]_Seen
  BY DEF Seen
<1>1. ASSUME NEW r \in Reqs, Handler(r) PROVE [Held!Next]_Seen
  BY <1>1, BeforeWaitMoves, AfterWaitMoves DEF Handler
<1>2. ASSUME NEW r \in Reqs, ClientLeaves(r) \/ DeadlineHits(r)
      PROVE  [Held!Next]_Seen
  <2>1. UNCHANGED <<hpc, herr, answer, started, completed, sinkErr>>
    BY <1>2 DEF ClientLeaves, ContextEnds, DeadlineHits, DeadlinePasses, sinkVars, handlerVars
  <2> QED
    BY <2>1, UnseenMoves
<1>3. ASSUME NEW r \in Reqs, NotifyStep(r) PROVE [Held!Next]_Seen
  <2>1. CASE NotifyStream(r)
    <3>1. UNCHANGED <<hpc, herr, answer, started, completed, sinkErr>>
      BY <1>3, <2>1 DEF NotifyStep, NotifyStream, sinkVars, handlerVars
    <3> QED
      BY <3>1, UnseenMoves
  <2>2. CASE NotifyTarget(r)
    <3>1. cause[r] \in Results
      BY DEF EdgeInv, IndInv, TypeOK
    <3> QED
      BY <1>3, <2>2, <3>1, CompletionMoves DEF NotifyStep, NotifyTarget
  <2> QED
    BY <1>3, <2>1, <2>2 DEF NotifyStep
<1>4. ASSUME NEW s \in Calls, Ingest(s) PROVE [Held!Next]_Seen
  BY <1>4, IngestMoves
<1>5. CASE UNCHANGED edgeVars
  <2>1. UNCHANGED <<hpc, herr, answer, started, completed, sinkErr>>
    BY <1>5 DEF edgeVars, handlerVars, pendingVars, sinkVars
  <2> QED
    BY <2>1, UnseenMoves
<1> QED
  BY <1>1, <1>2, <1>3, <1>4, <1>5 DEF EdgeNext

LEMMA EdgeInitHeld == EdgeInit => Held!Init
  BY DEF EdgeInit, PendingInit, SinkInit, View, Held!Init

(* The gateway implements the safety of HeldResponse: ServeHTTP, the       *)
(* registry, the sink and the ingest handler answer each request in one of *)
(* the ways it allows, and only once.                                      *)
THEOREM EdgeImplementsHeld == EdgeSpec => Held!Safety
  BY EdgeInitHeld, EdgeMoves, EdgeInductive, PTL DEF EdgeSpec, Held!Safety, Seen
==============================================================================
