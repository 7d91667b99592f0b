----------------------- MODULE PendingRegistry_proofs -----------------------
(***************************************************************************)
(* Proofs about PendingRegistry, for any number of requests, ids and       *)
(* StartIngest calls and bodies of any length: IndInv is inductive, and    *)
(* with it the type invariant, the safety invariants and two action        *)
(* properties of the registry are theorems of its specification.           *)
(*                                                                         *)
(* The heart of the argument is how the parts of IndInv lean on each       *)
(* other.  MapInv says that an entry is under its own id, so a claim finds *)
(* a request with the id the call has (CallInv), so the removal by id at   *)
(* the end of a stream removes this request (ClosedIsForgotten).  A claim  *)
(* marks its request, so there is one stream per request, so one write at  *)
(* most is under way when the request gets its result (WriteInv).          *)
(***************************************************************************)
EXTENDS PendingRegistry, TLAPS

(* The initial state: nothing registered, nothing called.                  *)
LEMMA InitInd == PendingInit => IndInv
<1> SUFFICES ASSUME PendingInit PROVE IndInv
  OBVIOUS
<1> USE DEF PendingInit, SinkInit, RegistryInit, CallInit
<1>1. TypeOK
  BY SinkAssumption, RegistryAssumption DEF TypeOK, SinkTypeOK, Results, PCs
<1>2. MapInv /\ CallInv /\ WriteInv
  BY RegistryAssumption DEF MapInv, CallInv, WriteInv, Streaming
<1>3. OneStreamPerRequest /\ ClosedIsForgotten /\ SuccessIsAgreed /\ CancelStopsWrites
  BY DEF OneStreamPerRequest, ClosedIsForgotten, SuccessIsAgreed, CancelStopsWrites
<1> QED
  BY <1>1, <1>2, <1>3 DEF IndInv

(* What the removals under the lock have in common (Detach): the map stays *)
(* consistent, nothing enters it, and those removed have ids and an error. *)
LEMMA DetachStep ==
  ASSUME IndInv, NEW rs \in SUBSET Reqs, \A r \in rs : InMap(r),
         NEW e \in Errors, NEW owed \in [Reqs -> {"stream", "target"}],
         Detach(rs, e, owed)
  PROVE  /\ entries' \in [IDs -> Reqs \cup {None}]
         /\ notify' \in [Reqs -> {"none", "stream", "target", "done"}]
         /\ cause' \in [Reqs -> Results]
         /\ \A r \in Reqs : notify'[r] # "none" => cause'[r] \in Errors
         /\ UNCHANGED <<reqID, streamOf>>
         /\ MapInv'
         /\ \A r \in Reqs : InMap(r)' => InMap(r)
<1> USE DEF IndInv, TypeOK
<1>1. UNCHANGED <<reqID, streamOf>>
  BY DEF Detach
<1>2. /\ entries' \in [IDs -> Reqs \cup {None}]
      /\ \A i \in IDs : entries'[i] = IF entries[i] \in rs THEN None ELSE entries[i]
  BY DEF Detach
<1>3. /\ notify' \in [Reqs -> {"none", "stream", "target", "done"}]
      /\ \A r \in Reqs : notify'[r] = IF r \in rs THEN owed[r] ELSE notify[r]
  BY DEF Detach
<1>4. /\ cause' \in [Reqs -> Results]
      /\ \A r \in Reqs : cause'[r] = IF r \in rs THEN e ELSE cause[r]
  BY DEF Detach, Results
<1>5. MapInv'
  BY <1>1, <1>2, <1>3, RegistryAssumption DEF MapInv, InMap
<1>6. \A r \in Reqs : InMap(r)' => InMap(r)
  BY <1>1, <1>2, RegistryAssumption DEF InMap
<1>7. \A r \in Reqs : notify'[r] # "none" => cause'[r] \in Errors
  BY <1>3, <1>4
<1> QED
  BY <1>1, <1>2, <1>3, <1>4, <1>5, <1>6, <1>7

(* What a step that leaves the calls and the sinks alone must show.        *)
LEMMA RegistryStep ==
  ASSUME IndInv, TypeOK', MapInv', UNCHANGED <<sinkVars, callVars, reqID>>,
         claimed \subseteq claimed', \A r \in Reqs : InMap(r)' => InMap(r)
  PROVE  IndInv'
<1> USE DEF sinkVars, callVars
<1>1. CallInv'
  BY DEF IndInv, CallInv
<1>2. OneStreamPerRequest'
  BY DEF IndInv, OneStreamPerRequest
<1>3. ClosedIsForgotten'
  <2> SUFFICES ASSUME NEW s \in Calls, pc[s] = "closed" PROVE ~InMap(target[s])'
    BY DEF ClosedIsForgotten
  <2>1. target[s] \in Reqs
    BY DEF IndInv, CallInv, TypeOK, PCs
  <2> QED
    BY <2>1 DEF IndInv, ClosedIsForgotten, InMap
<1>4. SuccessIsAgreed' /\ WriteInv' /\ CancelStopsWrites'
  BY DEF IndInv, SuccessIsAgreed, WriteInv, CancelStopsWrites
<1> QED
  BY <1>1, <1>2, <1>3, <1>4 DEF IndInv
-----------------------------------------------------------------------------
(* DeadlinePasses, ContextEnds: only late and gone grow.                   *)
LEMMA WorldStep ==
  ASSUME IndInv, NEW r \in Reqs, DeadlinePasses(r) \/ ContextEnds(r)
  PROVE  IndInv'
<1> USE DEF DeadlinePasses, ContextEnds
<1>1. TypeOK'
  BY DEF IndInv, TypeOK, SinkTypeOK, sinkVars, regVars, callVars
<1>2. MapInv' /\ UNCHANGED <<entries, reqID, claimed, sinkVars, callVars>>
  BY DEF IndInv, MapInv, regVars
<1> QED
  BY <1>1, <1>2, RegistryStep DEF InMap

(* Register: the new entry is under its own id, and no entry was under the *)
(* request's name before, as the request had no id.                        *)
LEMMA RegisterStep ==
  ASSUME IndInv, NEW r \in Reqs, NEW i \in IDs, Register(r, i)
  PROVE  IndInv'
<1> USE RegistryAssumption DEF Register
<1>1. TypeOK'
  BY DEF IndInv, TypeOK, SinkTypeOK, sinkVars, callVars
<1>2. /\ reqID' = [reqID EXCEPT ![r] = i]
      /\ entries' = [entries EXCEPT ![i] = r]
      /\ reqID[r] = None
      /\ notify[r] = "none"
      /\ UNCHANGED <<notify, claimed>>
      /\ UNCHANGED <<gone, late, sinkVars, callVars>>
  BY DEF IndInv, MapInv
<1>3. MapInv'
  BY <1>2 DEF IndInv, MapInv, TypeOK
<1>4. \A s \in Calls : target[s] # None => target[s] # r
  <2> SUFFICES ASSUME NEW s \in Calls, target[s] # None PROVE target[s] # r
    OBVIOUS
  <2>1. callID[s] \in IDs /\ reqID[target[s]] = callID[s]
    BY DEF IndInv, CallInv, Streaming
  <2> QED
    BY <1>2, <2>1
<1>5. CallInv'
  BY <1>2, <1>4 DEF IndInv, CallInv, TypeOK, callVars
<1>6. ClosedIsForgotten'
  <2> SUFFICES ASSUME NEW s \in Calls, pc[s] = "closed" PROVE ~InMap(target[s])'
    BY <1>2 DEF ClosedIsForgotten, callVars
  <2>1. target[s] \in Reqs /\ target[s] # r /\ target'[s] = target[s]
    BY <1>2, <1>4 DEF IndInv, CallInv, TypeOK, callVars
  <2>2. ~InMap(target[s])
    BY DEF IndInv, ClosedIsForgotten
  <2> QED
    BY <1>2, <2>1, <2>2 DEF IndInv, TypeOK, InMap
<1>7. OneStreamPerRequest' /\ SuccessIsAgreed' /\ WriteInv' /\ CancelStopsWrites'
  BY <1>2 DEF IndInv, OneStreamPerRequest, SuccessIsAgreed, WriteInv,
              CancelStopsWrites, sinkVars, callVars
<1> QED
  BY <1>1, <1>3, <1>5, <1>6, <1>7 DEF IndInv

(* Cancel and Expire, the locked part: a removal of one or of many.        *)
LEMMA RemovalStep ==
  ASSUME IndInv, NEW rs \in SUBSET Reqs, \A r \in rs : InMap(r),
         NEW e \in Errors, Detach(rs, e, StreamFirst),
         UNCHANGED <<gone, late, sinkVars, claimed, callVars>>
  PROVE  IndInv'
<1>1. StreamFirst \in [Reqs -> {"stream", "target"}]
  BY DEF StreamFirst
<1>2. TypeOK' /\ MapInv'
  BY <1>1, DetachStep DEF IndInv, TypeOK, SinkTypeOK, sinkVars, callVars
<1> QED
  BY <1>1, <1>2, DetachStep, RegistryStep

LEMMA CancelStep ==
  ASSUME IndInv, NEW i \in IDs, NEW e \in Results, Cancel(i, e)
  PROVE  IndInv'
<1>1. entries[i] \in Reqs /\ InMap(entries[i])
  BY RegistryAssumption DEF Cancel, IndInv, TypeOK, MapInv, InMap
<1>2. CancelError(e) \in Errors
  BY RegistryAssumption DEF CancelError, Results, Errors
<1> QED
  BY <1>1, <1>2, RemovalStep DEF Cancel

LEMMA ExpireStep == ASSUME IndInv, Expire PROVE IndInv'
<1> DEFINE expired == {r \in late : InMap(r)}
<1>1. expired \in SUBSET Reqs
  BY DEF IndInv, TypeOK
<1>2. "expired" \in Errors
  BY DEF Errors
<1> QED
  BY <1>1, <1>2, RemovalStep DEF Expire

(* NotifyStream: the stream of a removed request learns the error.         *)
LEMMA NotifyStreamStep ==
  ASSUME IndInv, NEW r \in Reqs, NotifyStream(r)
  PROVE  IndInv'
<1> USE DEF NotifyStream
<1>1. TypeOK'
  BY DEF IndInv, TypeOK, SinkTypeOK, sinkVars
<1>2. MapInv'
  BY DEF IndInv, MapInv, TypeOK
<1>3. CallInv' /\ OneStreamPerRequest' /\ ClosedIsForgotten'
  BY DEF IndInv, CallInv, OneStreamPerRequest, ClosedIsForgotten, InMap
<1>4. SuccessIsAgreed' /\ WriteInv' /\ CancelStopsWrites'
  BY DEF IndInv, SuccessIsAgreed, WriteInv, CancelStopsWrites, sinkVars
<1> QED
  BY <1>1, <1>2, <1>3, <1>4 DEF IndInv
-----------------------------------------------------------------------------
(* The sink's complete, whoever calls it: the first result stays.          *)
LEMMA SinkCompleteStep ==
  ASSUME SinkTypeOK, NEW r \in Reqs, NEW e \in Results, SinkComplete(r, e)
  PROVE  /\ completed' = completed \cup {r}
         /\ sinkErr' \in [Reqs -> Results]
         /\ \A q \in completed : sinkErr'[q] = sinkErr[q]
         /\ \A q \in Reqs : q # r => sinkErr'[q] = sinkErr[q]
         /\ sinkErr'[r] = FinishResult(r, e)
         /\ UNCHANGED <<started, body, lateWrites>>
  BY DEF SinkComplete, SinkTypeOK, FinishResult

(* NotifyTarget: the result is an error, so no stream has to agree on it.  *)
LEMMA NotifyTargetStep ==
  ASSUME IndInv, NEW r \in Reqs, NotifyTarget(r)
  PROVE  IndInv'
<1> USE DEF NotifyTarget
<1>1. cause[r] \in Errors /\ cause[r] \in Results /\ cause[r] # "nil"
  BY DEF IndInv, TypeOK, Results, Errors
<1>2. /\ completed' = completed \cup {r}
      /\ sinkErr' \in [Reqs -> Results]
      /\ \A q \in completed : sinkErr'[q] = sinkErr[q]
      /\ \A q \in Reqs : q # r => sinkErr'[q] = sinkErr[q]
      /\ sinkErr'[r] = FinishResult(r, cause[r])
      /\ UNCHANGED <<started, body, lateWrites>>
  BY <1>1, SinkCompleteStep DEF IndInv, TypeOK
<1>3. TypeOK'
  BY <1>2 DEF IndInv, TypeOK, SinkTypeOK, callVars
<1>4. MapInv'
  BY DEF IndInv, MapInv, TypeOK
<1>5. CallInv' /\ OneStreamPerRequest' /\ ClosedIsForgotten'
  BY DEF IndInv, CallInv, OneStreamPerRequest, ClosedIsForgotten, InMap, callVars
<1>6. SuccessIsAgreed'
  BY <1>1, <1>2 DEF IndInv, SuccessIsAgreed, FinishResult, callVars, TypeOK, SinkTypeOK
<1>7. WriteInv' /\ CancelStopsWrites'
  BY <1>2 DEF IndInv, WriteInv, CancelStopsWrites, callVars
<1> QED
  BY <1>3, <1>4, <1>5, <1>6, <1>7 DEF IndInv
-----------------------------------------------------------------------------
(* The steps of StartIngest that do not claim: the call reads the clock or *)
(* is refused, and the map may lose an entry.  Such a call has no stream.  *)
LEMMA NoClaimStep ==
  ASSUME IndInv, TypeOK', MapInv', NEW s \in Calls, pc[s] \in {"idle", "clocked"},
         NEW p \in {"clocked", "refused"}, pc' = [pc EXCEPT ![s] = p],
         NEW i \in IDs, callID' = [callID EXCEPT ![s] = i],
         UNCHANGED <<sinkVars, reqID, target, result>>,
         claimed \subseteq claimed', \A r \in Reqs : InMap(r)' => InMap(r)
  PROVE  IndInv'
<1> USE DEF IndInv
<1>1. target[s] = None
  BY DEF CallInv, Streaming
<1>2. \A t \in Calls : pc'[t] = IF t = s THEN p ELSE pc[t]
  BY DEF TypeOK
<1>3. \A t \in Calls : callID'[t] = IF t = s THEN i ELSE callID[t]
  BY DEF TypeOK
<1>4. CallInv'
  BY <1>1, <1>2, <1>3 DEF CallInv, Streaming
<1>5. OneStreamPerRequest'
  BY DEF OneStreamPerRequest
<1>6. ClosedIsForgotten'
  <2> SUFFICES ASSUME NEW t \in Calls, pc'[t] = "closed" PROVE ~InMap(target[t])'
    BY DEF ClosedIsForgotten
  <2>1. pc[t] = "closed" /\ target[t] \in Reqs
    BY <1>2 DEF CallInv, TypeOK
  <2> QED
    BY <2>1 DEF ClosedIsForgotten, InMap
<1>7. SuccessIsAgreed' /\ WriteInv' /\ CancelStopsWrites'
  BY <1>2 DEF SuccessIsAgreed, WriteInv, CancelStopsWrites, sinkVars
<1> QED
  BY <1>4, <1>5, <1>6, <1>7

LEMMA ReadClockStep ==
  ASSUME IndInv, NEW s \in Calls, NEW i \in IDs, NEW t \in Reqs \cup {None},
         ReadClock(s, i, t)
  PROVE  IndInv'
<1> USE DEF ReadClock
<1>1. TypeOK'
  BY DEF IndInv, TypeOK, SinkTypeOK, sinkVars, regVars, PCs
<1>2. MapInv' /\ UNCHANGED <<sinkVars, reqID, entries, claimed, target, result>>
  BY DEF IndInv, MapInv, regVars
<1> QED
  BY <1>1, <1>2, NoClaimStep DEF InMap

(* A refusal without a removal (ErrNotFound, ErrReplayed, ErrInvalidToken).*)
LEMMA RefusedStep ==
  ASSUME IndInv, NEW s \in Calls, ClaimMissing(s) \/ ClaimRejected(s)
  PROVE  IndInv'
<1>1. /\ pc[s] = "clocked"
      /\ Refuse(s)
      /\ UNCHANGED <<gone, late, sinkVars, regVars>>
  BY DEF ClaimMissing, ClaimRejected
<1>2. callID[s] \in IDs /\ callID' = [callID EXCEPT ![s] = callID[s]]
  BY <1>1 DEF Refuse, IndInv, CallInv, TypeOK
<1>3. TypeOK'
  BY <1>1 DEF Refuse, IndInv, TypeOK, SinkTypeOK, sinkVars, regVars, PCs
<1>4. MapInv' /\ UNCHANGED <<sinkVars, reqID, entries, claimed, target, result>>
  BY <1>1 DEF Refuse, IndInv, MapInv, regVars
<1>5. pc' = [pc EXCEPT ![s] = "refused"]
  BY <1>1 DEF Refuse
<1> QED
  BY <1>1, <1>2, <1>3, <1>4, <1>5, NoClaimStep DEF InMap

(* A refusal that takes the request out of the map with it: it is late, or *)
(* its target does not start.                                              *)
LEMMA DroppedStep ==
  ASSUME IndInv, NEW s \in Calls, ClaimExpired(s) \/ ClaimFails(s)
  PROVE  IndInv'
<1> DEFINE r == entries[callID[s]]
<1>1. /\ pc[s] = "clocked"
      /\ r # None
      /\ Refuse(s)
      /\ claimed \subseteq claimed' /\ claimed' \subseteq claimed \cup {r}
      /\ UNCHANGED <<gone, late, sinkVars>>
  BY DEF ClaimExpired, ClaimFails, Claimable
<1>2. callID[s] \in IDs /\ callID' = [callID EXCEPT ![s] = callID[s]]
  BY <1>1 DEF Refuse, IndInv, CallInv, TypeOK
<1>3. r \in Reqs /\ InMap(r)
  BY <1>1, <1>2, RegistryAssumption DEF IndInv, TypeOK, MapInv, InMap
<1>4. TargetOnly \in [Reqs -> {"stream", "target"}]
  BY DEF TargetOnly
<1>5. PICK e \in Errors : Detach({r}, e, TargetOnly)
  <2>1. CASE ClaimExpired(s)
    BY <2>1 DEF ClaimExpired, Errors
  <2>2. CASE ClaimFails(s)
    <3>1. SinkRefusal(r) \in Errors
      BY <1>3 DEF SinkRefusal, IndInv, TypeOK, SinkTypeOK, Results, Errors
    <3> QED
      BY <2>2, <3>1 DEF ClaimFails
  <2> QED
    BY <2>1, <2>2
<1>6. /\ entries' \in [IDs -> Reqs \cup {None}]
      /\ notify' \in [Reqs -> {"none", "stream", "target", "done"}]
      /\ cause' \in [Reqs -> Results]
      /\ \A q \in Reqs : notify'[q] # "none" => cause'[q] \in Errors
      /\ UNCHANGED <<reqID, streamOf>>
      /\ MapInv'
      /\ \A q \in Reqs : InMap(q)' => InMap(q)
  <2>1. {r} \in SUBSET Reqs /\ \A q \in {r} : InMap(q)
    BY <1>3
  <2> HIDE DEF r
  <2> QED
    BY <1>4, <1>5, <2>1, DetachStep
<1>7. TypeOK'
  BY <1>1, <1>3, <1>6 DEF Refuse, IndInv, TypeOK, SinkTypeOK, sinkVars, PCs
<1>8. pc' = [pc EXCEPT ![s] = "refused"] /\ UNCHANGED <<target, result>>
  BY <1>1 DEF Refuse
<1> QED
  BY <1>1, <1>2, <1>6, <1>7, <1>8, NoClaimStep

(* The claim: the request was not claimed, so no call has it as target.    *)
LEMMA ClaimAcceptedStep ==
  ASSUME IndInv, NEW s \in Calls, ClaimAccepted(s)
  PROVE  IndInv'
<1> USE DEF IndInv
<1> DEFINE r == entries[callID[s]]
<1>1. /\ pc[s] = "clocked"
      /\ r # None
      /\ r \notin claimed /\ r \notin completed
      /\ SinkStart(r)
      /\ claimed' = claimed \cup {r}
      /\ streamOf' = [streamOf EXCEPT ![r] = s]
      /\ target' = [target EXCEPT ![s] = r]
      /\ pc' = [pc EXCEPT ![s] = "open"]
      /\ UNCHANGED <<gone, late, entries, reqID, notify, cause, callID, token,
                     sawLate, streamErr, result>>
  BY DEF ClaimAccepted, Claimable, Unclaimed, SinkStartable
<1>2. r \in Reqs /\ reqID[r] = callID[s]
  BY <1>1, RegistryAssumption DEF TypeOK, MapInv, CallInv
<1> HIDE DEF r
<1>3. TypeOK'
  BY <1>1, <1>2 DEF SinkStart, TypeOK, SinkTypeOK, PCs
<1>4. MapInv' /\ UNCHANGED <<completed, sinkErr, body, lateWrites>>
  BY <1>1 DEF MapInv, SinkStart
<1>5. \A t \in Calls : /\ target'[t] = IF t = s THEN r ELSE target[t]
                       /\ pc'[t] = IF t = s THEN "open" ELSE pc[t]
  BY <1>1 DEF TypeOK
<1>6. CallInv'
  BY <1>1, <1>2, <1>5, RegistryAssumption DEF CallInv, Streaming
<1>7. OneStreamPerRequest'
  BY <1>1, <1>5 DEF OneStreamPerRequest, CallInv
<1>8. ClosedIsForgotten'
  BY <1>1, <1>5 DEF ClosedIsForgotten, InMap
<1>9. SuccessIsAgreed'
  BY <1>1, <1>4, <1>5 DEF SuccessIsAgreed, CallInv, Streaming
<1>10. WriteInv' /\ CancelStopsWrites'
  BY <1>4, <1>5 DEF WriteInv, CancelStopsWrites
<1> QED
  BY <1>3, <1>4, <1>6, <1>7, <1>8, <1>9, <1>10
-----------------------------------------------------------------------------
(* The steps of a stream that leave the registry alone (regVars): where    *)
(* the call is changes, its target does not.                               *)
LEMMA StreamStep ==
  ASSUME IndInv, NEW s \in Calls, pc[s] \in Streaming,
         NEW p \in Streaming, pc' = [pc EXCEPT ![s] = p],
         UNCHANGED <<regVars, callID, target>>
  PROVE  MapInv' /\ CallInv' /\ OneStreamPerRequest' /\ ClosedIsForgotten'
<1> USE DEF IndInv, regVars
<1>1. \A t \in Calls : pc'[t] = IF t = s THEN p ELSE pc[t]
  BY DEF TypeOK
<1>2. MapInv' /\ OneStreamPerRequest'
  BY DEF MapInv, OneStreamPerRequest
<1>3. CallInv'
  BY <1>1 DEF CallInv, Streaming
<1>4. ClosedIsForgotten'
  BY <1>1 DEF ClosedIsForgotten, InMap, Streaming
<1> QED
  BY <1>2, <1>3, <1>4

LEMMA WriteCheckStep ==
  ASSUME IndInv, NEW s \in Calls, WriteRefused(s) \/ WriteBegin(s) \/ WriteEnd(s)
  PROVE  IndInv'
<1> USE DEF IndInv
<1>1. PICK p \in {"open", "writing"} :
        /\ pc[s] \in {"open", "wrote"}
        /\ pc' = [pc EXCEPT ![s] = p]
        /\ p = "writing" => target[s] \notin completed
        /\ result' \in [Calls -> Results]
        /\ \A t \in Calls : t # s => result'[t] = result[t]
        /\ UNCHANGED <<gone, late, sinkVars, regVars, callID, token, sawLate,
                       target, streamErr>>
  <2>1. CASE WriteRefused(s)
    <3>1. pc' = [pc EXCEPT ![s] = "open"]
      BY <2>1 DEF WriteRefused, TypeOK
    <3> QED
      BY <2>1, <3>1 DEF WriteRefused, TypeOK, Results, Errors
  <2>2. CASE WriteBegin(s)
    BY <2>2 DEF WriteBegin, WriteAllowed, SinkAccepts, TypeOK
  <2>3. CASE WriteEnd(s)
    BY <2>3 DEF WriteEnd, TypeOK, Results, Errors
  <2> QED
    BY <2>1, <2>2, <2>3
<1>2. TypeOK'
  BY <1>1 DEF TypeOK, SinkTypeOK, sinkVars, regVars, PCs
<1>3. MapInv' /\ CallInv' /\ OneStreamPerRequest' /\ ClosedIsForgotten'
  BY <1>1, StreamStep DEF Streaming
<1>4. SuccessIsAgreed'
  BY <1>1 DEF SuccessIsAgreed, TypeOK, sinkVars
<1>5. WriteInv' /\ CancelStopsWrites'
  <2>1. target[s] \in Reqs
    BY <1>1, RegistryAssumption DEF CallInv, Streaming, TypeOK
  <2> QED
    BY <1>1, <2>1 DEF WriteInv, CancelStopsWrites, TypeOK, sinkVars
<1> QED
  BY <1>2, <1>3, <1>4, <1>5

(* The unlocked write: no other write of the request is under way, and if  *)
(* the request has its result by now, this is its first late chunk.        *)
LEMMA WriteBodyStep ==
  ASSUME IndInv, NEW s \in Calls, WriteBody(s)
  PROVE  IndInv'
<1> USE DEF IndInv
<1> DEFINE r == target[s]
<1>1. PICK n \in {0, 1}, e \in {"nil", "stream"} :
        /\ pc[s] = "writing"
        /\ SinkWrote(r, n)
        /\ result' = [result EXCEPT ![s] = e]
        /\ pc' = [pc EXCEPT ![s] = "wrote"]
        /\ UNCHANGED <<gone, late, regVars, callID, token, sawLate, target, streamErr>>
  <2>1. PICK w \in WriteOutcomes(r) : SinkWrote(r, w[1]) /\ result' = [result EXCEPT ![s] = w[2]]
    BY DEF WriteBody
  <2>2. w[1] \in {0, 1} /\ w[2] \in {"nil", "stream"}
    BY DEF WriteOutcomes
  <2> QED
    BY <2>1, <2>2 DEF WriteBody
<1>2. r \in Reqs
  BY <1>1, RegistryAssumption DEF CallInv, Streaming, TypeOK
<1>3. \A t \in Calls : t # s /\ target[t] # None => target[t] # r
  BY <1>2, RegistryAssumption DEF OneStreamPerRequest
<1> HIDE DEF r
<1>4. TypeOK'
  BY <1>1, <1>2 DEF SinkWrote, TypeOK, SinkTypeOK, regVars, PCs, Results, Errors
<1>5. MapInv' /\ CallInv' /\ OneStreamPerRequest' /\ ClosedIsForgotten'
  BY <1>1, StreamStep DEF Streaming
<1>6. SuccessIsAgreed'
  BY <1>1 DEF SinkWrote, SuccessIsAgreed, TypeOK
<1>7. lateWrites[r] = 0
  BY <1>1 DEF WriteInv, r
<1>8. /\ \A q \in Reqs : lateWrites'[q] = IF q = r THEN IF r \in completed THEN n ELSE 0
                                                   ELSE lateWrites[q]
      /\ completed' = completed
  BY <1>1, <1>2, <1>7 DEF SinkWrote, TypeOK, SinkTypeOK
<1>9. WriteInv'
  <2>1. \A q \in Reqs : q \notin completed' => lateWrites'[q] = 0
    BY <1>8 DEF WriteInv
  <2>2. ASSUME NEW t \in Calls, pc'[t] = "writing" PROVE lateWrites'[target'[t]] = 0
    <3>1. t # s /\ pc[t] = "writing" /\ target'[t] = target[t]
      BY <1>1, <2>2 DEF TypeOK
    <3>2. target[t] \in Reqs /\ target[t] # None
      BY <3>1, RegistryAssumption DEF CallInv, Streaming, TypeOK
    <3> QED
      BY <1>3, <1>8, <3>1, <3>2 DEF WriteInv
  <2> QED
    BY <2>1, <2>2 DEF WriteInv
<1>10. CancelStopsWrites'
  BY <1>8 DEF CancelStopsWrites
<1> QED
  BY <1>4, <1>5, <1>6, <1>9, <1>10
-----------------------------------------------------------------------------
LEMMA CloseBeginStep ==
  ASSUME IndInv, NEW s \in Calls, CloseBegin(s)
  PROVE  IndInv'
<1> USE DEF IndInv, CloseBegin
<1>1. TypeOK'
  BY DEF TypeOK, SinkTypeOK, sinkVars, regVars, PCs
<1>2. MapInv' /\ CallInv' /\ OneStreamPerRequest' /\ ClosedIsForgotten'
  BY StreamStep DEF Streaming
<1>3. SuccessIsAgreed' /\ WriteInv' /\ CancelStopsWrites'
  BY DEF SuccessIsAgreed, WriteInv, CancelStopsWrites, TypeOK, sinkVars
<1> QED
  BY <1>1, <1>2, <1>3

(* Finish: the stream takes over the result the sink has, its own or the   *)
(* one that came first, and it is the only stream that could have set nil. *)
LEMMA CloseFinishStep ==
  ASSUME IndInv, NEW s \in Calls, NEW e \in {"nil", "stream"}, CloseFinish(s, e)
  PROVE  IndInv'
<1> USE DEF IndInv, CloseFinish
<1> DEFINE r == target[s]
<1>1. r \in Reqs /\ e \in Results
  BY RegistryAssumption DEF CallInv, Streaming, TypeOK, Results, Errors
<1>2. /\ completed' = completed \cup {r}
      /\ sinkErr' \in [Reqs -> Results]
      /\ \A q \in completed : sinkErr'[q] = sinkErr[q]
      /\ \A q \in Reqs : q # r => sinkErr'[q] = sinkErr[q]
      /\ sinkErr'[r] = FinishResult(r, e)
      /\ UNCHANGED <<started, body, lateWrites>>
  BY <1>1, SinkCompleteStep DEF TypeOK
<1>3. FinishResult(r, e) \in Results
  BY <1>1, <1>2
<1>4. TypeOK'
  BY <1>1, <1>2, <1>3 DEF TypeOK, SinkTypeOK, regVars, PCs
<1>5. MapInv' /\ CallInv' /\ OneStreamPerRequest' /\ ClosedIsForgotten'
  BY StreamStep DEF Streaming
<1>6. \A t \in Calls : /\ pc'[t] = IF t = s THEN "removing" ELSE pc[t]
                       /\ result'[t] = IF t = s THEN FinishResult(r, e) ELSE result[t]
                       /\ target'[t] = target[t]
  BY DEF TypeOK
<1>7. SuccessIsAgreed'
  <2>1. ASSUME NEW t \in Calls, pc'[t] \in {"removing", "closed"}
        PROVE  target'[t] \in completed' /\ result'[t] = sinkErr'[target'[t]]
    BY <1>1, <1>2, <1>6, <2>1 DEF SuccessIsAgreed
  <2>2. ASSUME NEW q \in completed', sinkErr'[q] = "nil"
        PROVE  \E t \in Calls : target'[t] = q /\ pc'[t] \in {"removing", "closed"}
    BY <1>1, <1>2, <1>6, <2>2 DEF SuccessIsAgreed, TypeOK, SinkTypeOK
  <2> QED
    BY <2>1, <2>2 DEF SuccessIsAgreed
<1>8. WriteInv' /\ CancelStopsWrites'
  BY <1>2, <1>6 DEF WriteInv, CancelStopsWrites
<1> QED
  BY <1>4, <1>5, <1>7, <1>8

(* The removal by id: the target is under the id of the call or nowhere.   *)
LEMMA CloseRemoveStep ==
  ASSUME IndInv, NEW s \in Calls, CloseRemove(s)
  PROVE  IndInv'
<1> USE DEF IndInv, CloseRemove
<1>1. callID[s] \in IDs /\ target[s] \in Reqs /\ reqID[target[s]] = callID[s]
  BY RegistryAssumption DEF CallInv, Streaming, TypeOK
<1>2. TypeOK'
  BY DEF TypeOK, SinkTypeOK, sinkVars, PCs
<1>3. \A t \in Calls : pc'[t] = IF t = s THEN "closed" ELSE pc[t]
  BY DEF TypeOK
<1>4. \A i \in IDs : entries'[i] = IF i = callID[s] THEN None ELSE entries[i]
  BY DEF TypeOK
<1>5. MapInv'
  BY <1>4 DEF MapInv
<1>6. CallInv' /\ OneStreamPerRequest'
  BY <1>3 DEF CallInv, OneStreamPerRequest, Streaming
<1>7. ClosedIsForgotten'
  <2> SUFFICES ASSUME NEW t \in Calls, pc'[t] = "closed" PROVE ~InMap(target[t])'
    BY DEF ClosedIsForgotten
  <2>1. CASE t = s
    BY <1>1, <1>4, <2>1, RegistryAssumption DEF InMap
  <2>2. CASE t # s
    <3>1. pc[t] = "closed" /\ target[t] \in Reqs
      BY <1>3, <2>2 DEF CallInv, TypeOK
    <3>2. ~InMap(target[t])
      BY <3>1 DEF ClosedIsForgotten
    <3> QED
      BY <1>4, <3>1, <3>2, RegistryAssumption DEF InMap, TypeOK
  <2> QED
    BY <2>1, <2>2
<1>8. SuccessIsAgreed' /\ WriteInv' /\ CancelStopsWrites'
  BY <1>3 DEF SuccessIsAgreed, WriteInv, CancelStopsWrites, sinkVars
<1> QED
  BY <1>2, <1>5, <1>6, <1>7, <1>8
-----------------------------------------------------------------------------
(* One step of the registry or of anyone who uses it, or a stutter.        *)
LEMMA NextInd == IndInv /\ [Next]_pendingVars => IndInv'
<1> SUFFICES ASSUME IndInv, [Next]_pendingVars PROVE IndInv'
  OBVIOUS
<1>1. ASSUME NEW r \in Reqs, DeadlinePasses(r) \/ ContextEnds(r) PROVE IndInv'
  BY <1>1, WorldStep
<1>2. ASSUME NEW r \in Reqs, NEW i \in IDs, Register(r, i) PROVE IndInv'
  BY <1>2, RegisterStep
<1>3. ASSUME NEW i \in IDs, NEW e \in CancelErrors, Cancel(i, e) PROVE IndInv'
  BY <1>3, CancelStep, RegistryAssumption
<1>4. ASSUME Expire PROVE IndInv'
  BY <1>4, ExpireStep
<1>5. ASSUME NEW r \in Reqs, NotifyStream(r) \/ NotifyTarget(r) PROVE IndInv'
  BY <1>5, NotifyStreamStep, NotifyTargetStep
<1>6. ASSUME NEW s \in Calls, NEW i \in IDs, NEW t \in Reqs \cup {None}, ReadClock(s, i, t)
      PROVE  IndInv'
  BY <1>6, ReadClockStep
<1>7. ASSUME NEW s \in Calls, StartIngest(s) PROVE IndInv'
  BY <1>7, RefusedStep, DroppedStep, ClaimAcceptedStep DEF StartIngest
<1>8. ASSUME NEW s \in Calls, Write(s) PROVE IndInv'
  BY <1>8, WriteCheckStep, WriteBodyStep DEF Write
<1>9. ASSUME NEW s \in Calls, CloseWithError(s) PROVE IndInv'
  BY <1>9, CloseBeginStep, CloseFinishStep, CloseRemoveStep DEF CloseWithError
<1>10. CASE UNCHANGED pendingVars
  <2> USE <1>10 DEF pendingVars
  <2>1. TypeOK'
    BY DEF IndInv, TypeOK, SinkTypeOK, sinkVars, regVars, callVars
  <2>2. MapInv' /\ UNCHANGED <<entries, reqID, claimed, sinkVars, callVars>>
    BY DEF IndInv, MapInv, regVars
  <2> QED
    BY <2>1, <2>2, RegistryStep DEF InMap
<1> QED
  BY <1>1, <1>2, <1>3, <1>4, <1>5, <1>6, <1>7, <1>8, <1>9, <1>10 DEF Next

(* The inductive invariant, from which everything below follows.           *)
THEOREM Inductive == Spec => []IndInv
  BY InitInd, NextInd, PTL DEF Spec
-----------------------------------------------------------------------------
(* The values of the variables; the errors that reach a target are never   *)
(* nil, whatever error the callers of Cancel give.                         *)
THEOREM TypeCorrect == Spec => []TypeOK
<1>1. IndInv => TypeOK
  BY DEF IndInv
<1> QED
  BY <1>1, Inductive, PTL

(* The ingest token is one-time: StartIngest gives a request to one call.  *)
THEOREM OneStream == Spec => []OneStreamPerRequest
<1>1. IndInv => OneStreamPerRequest
  BY DEF IndInv
<1> QED
  BY <1>1, Inductive, PTL

(* CloseWithError leaves nothing in the map of the request it closed.      *)
THEOREM ClosedForgotten == Spec => []ClosedIsForgotten
<1>1. IndInv => ClosedIsForgotten
  BY DEF IndInv
<1> QED
  BY <1>1, Inductive, PTL

(* What CloseWithError returns is what the waiting handler was told, and   *)
(* only a stream that closes can tell it success.                          *)
THEOREM SuccessAgreed == Spec => []SuccessIsAgreed
<1>1. IndInv => SuccessIsAgreed
  BY DEF IndInv
<1> QED
  BY <1>1, Inductive, PTL

(* At most one write overtakes the completion of the sink.                 *)
THEOREM CancelStops == Spec => []CancelStopsWrites
<1>1. IndInv => CancelStopsWrites
  BY DEF IndInv
<1> QED
  BY <1>1, Inductive, PTL

(* The sink's result is set once: Finish, Cancel and expiry are all calls  *)
(* of complete.                                                            *)
THEOREM FinalResult == Spec => ResultIsFinal
<1>1. ASSUME IndInv, [Next]_pendingVars
      PROVE  \A r \in completed : r \in completed' /\ sinkErr'[r] = sinkErr[r]
  <2>1. ASSUME NEW r \in Reqs, NotifyTarget(r)
        PROVE  \A q \in completed : q \in completed' /\ sinkErr'[q] = sinkErr[q]
    BY <1>1, <2>1 DEF NotifyTarget, SinkComplete, IndInv, TypeOK, SinkTypeOK
  <2>2. ASSUME NEW s \in Calls, NEW e \in {"nil", "stream"}, CloseFinish(s, e)
        PROVE  \A q \in completed : q \in completed' /\ sinkErr'[q] = sinkErr[q]
    BY <1>1, <2>2 DEF CloseFinish, SinkComplete, IndInv, TypeOK, SinkTypeOK
  <2>3. CASE UNCHANGED <<completed, sinkErr>>
    BY <2>3
  <2>4. \/ UNCHANGED <<completed, sinkErr>>
        \/ \E r \in Reqs : NotifyTarget(r)
        \/ \E s \in Calls, e \in {"nil", "stream"} : CloseFinish(s, e)
    BY <1>1 DEF Next, pendingVars, sinkVars, DeadlinePasses, ContextEnds, Register,
                Cancel, Expire, NotifyStream, ReadClock, StartIngest, ClaimMissing,
                ClaimExpired, ClaimRejected, ClaimFails, ClaimAccepted, SinkStart,
                Write, WriteRefused, WriteBegin, WriteBody, SinkWrote, WriteEnd,
                CloseWithError, CloseBegin, CloseRemove
  <2> QED
    BY <2>1, <2>2, <2>3, <2>4
<1> QED
  BY <1>1, Inductive, PTL DEF Spec, ResultIsFinal

(* A stream starts on an entry of the map, and those were never notified.  *)
THEOREM CanceledUnavailable == Spec => CanceledIsUnavailable
<1>1. ASSUME IndInv, [Next]_pendingVars
      PROVE  \A s \in Calls : target'[s] # target[s] => notify[target'[s]] = "none"
  <2> SUFFICES ASSUME NEW s \in Calls, target'[s] # target[s]
               PROVE  notify[target'[s]] = "none"
    OBVIOUS
  <2>1. PICK t \in Calls : ClaimAccepted(t)
    BY <1>1 DEF Next, pendingVars, callVars, DeadlinePasses, ContextEnds, Register,
                Cancel, Expire, NotifyStream, NotifyTarget, ReadClock, StartIngest,
                ClaimMissing, ClaimExpired, ClaimRejected, ClaimFails, Refuse,
                Write, WriteRefused, WriteBegin, WriteBody, WriteEnd,
                CloseWithError, CloseBegin, CloseFinish, CloseRemove
  <2>2. t = s /\ target'[s] = entries[callID[s]]
    BY <1>1, <2>1 DEF ClaimAccepted, IndInv, TypeOK
  <2>3. callID[s] \in IDs /\ entries[callID[s]] # None
    BY <1>1, <2>1, <2>2 DEF ClaimAccepted, Claimable, IndInv, CallInv
  <2> QED
    BY <1>1, <2>2, <2>3 DEF IndInv, MapInv
<1> QED
  BY <1>1, Inductive, PTL DEF Spec, CanceledIsUnavailable
=============================================================================
