------------------------- MODULE UploadSource_proofs -------------------------
(***************************************************************************)
(* Proofs about UploadSource, for any sources and calls and bodies of any  *)
(* length: UploadInv is inductive, and with it the safety of the upload    *)
(* sources: a body is closed once, a copy without an error is whole, the   *)
(* registry keeps nothing of a request that has returned, and no source    *)
(* that is being terminated is given to a connector.                       *)
(*                                                                         *)
(* The heart of the argument: who has asked for the end of a source has    *)
(* taken it out of the map or is, with its guard, the one claimant of it   *)
(* (TermInv, ClaimInv); so what is in the map and unclaimed is not being   *)
(* terminated.  The one claimant is the only reader of the body, so that   *)
(* what it has sent and what is unread add up to the body (CopyInv).       *)
(***************************************************************************)
EXTENDS UploadSource, TLAPS

(* The four kinds of threads, and the source each of them would terminate. *)
LEMMA ThreadFacts ==
  /\ \A u \in Sources : /\ <<"handler", u>> \in Threads /\ Subject(<<"handler", u>>) = u
                        /\ <<"watcher", u>> \in Threads /\ Subject(<<"watcher", u>>) = u
  /\ \A c \in Calls : /\ <<"call", c>> \in Threads /\ Subject(<<"call", c>>) = source[c]
                      /\ <<"guard", c>> \in Threads /\ Subject(<<"guard", c>>) = source[c]
  BY DEF Threads, PublicThreads, CallThreads, Subject

(* Only a Dial changes what a thread would terminate.                      *)
LEMMA SubjectKept ==
  ASSUME UNCHANGED source
  PROVE  \A th \in Threads : Subject(th)' = Subject(th)
  BY DEF Subject

LEMMA InitInv == Init => UploadInv
<1> SUFFICES ASSUME Init PROVE UploadInv
  OBVIOUS
<1> USE DEF Init
<1>1. TypeOK
  BY UploadAssumption DEF TypeOK, TermStates
<1>2. SourceInv /\ ClaimInv /\ TermInv /\ OnceInv /\ BodyClosedOnce
  BY DEF SourceInv, ClaimInv, Claimants, TermInv, OnceInv, Working, BodyClosedOnce
<1>3. CopyInv
  BY DEF CopyInv, Claimants
<1> QED
  BY <1>1, <1>2, <1>3 DEF UploadInv
-----------------------------------------------------------------------------
(* The parts that a step cannot disturb by what it leaves alone.           *)

(* No thread goes on in terminate.  (A handler is new only at the start.)  *)
LEMMA TermKept ==
  ASSUME UploadInv, UNCHANGED <<term, source, once, closes>>,
         \A u \in inMap' : u \in inMap \/ hpc[u] = "new", claimed \subseteq claimed',
         \A u \in Sources : hpc'[u] = "new" => hpc[u] = "new"
  PROVE  TermInv' /\ OnceInv' /\ BodyClosedOnce'
<1> USE DEF UploadInv
<1>1. TermInv'
  BY SubjectKept DEF TermInv
<1>2. OnceInv' /\ BodyClosedOnce'
  BY SubjectKept DEF OnceInv, BodyClosedOnce, Working
<1> QED
  BY <1>1, <1>2

(* A thread asks for the end of a source it has taken out of the map, or   *)
(* that is claimed.                                                        *)
LEMMA AskKept ==
  ASSUME UploadInv, NEW th \in Threads, Ask(th), UNCHANGED <<source, once, closes, claimed>>,
         inMap' \subseteq inMap, \A u \in Sources : hpc'[u] = "new" => hpc[u] = "new",
         Subject(th) \in Sources, hpc[Subject(th)] # "new",
         Subject(th) \in inMap' => Subject(th) \in claimed
  PROVE  TermInv' /\ OnceInv' /\ BodyClosedOnce'
<1> USE DEF UploadInv
<1>1. \A tk \in Threads : term'[tk] = IF tk = th THEN "asked" ELSE term[tk]
  BY DEF Ask, TypeOK
<1>2. TermInv'
  BY <1>1, SubjectKept DEF TermInv
<1>3. \A tk \in Threads : Working(tk)' => Working(tk)
  BY <1>1 DEF Working
<1>4. OnceInv' /\ BodyClosedOnce'
  BY <1>3, SubjectKept DEF OnceInv, BodyClosedOnce
<1> QED
  BY <1>2, <1>4

(* No call takes a step of its copy and nothing is claimed.                *)
LEMMA CallsKept ==
  ASSUME UploadInv, UNCHANGED <<size, unread, claimed, cpc, source, reading, copyErr, sent, guard>>
  PROVE  ClaimInv' /\ CopyInv'
<1>1. Claimants' = Claimants
  BY DEF Claimants
<1>2. ClaimInv'
  BY <1>1 DEF UploadInv, ClaimInv
<1>3. CopyInv'
  BY <1>1 DEF UploadInv, CopyInv
<1> QED
  BY <1>2, <1>3

(* No handler, watcher or map changes and no call asks for a source.       *)
LEMMA SourcesKept ==
  ASSUME UploadInv, UNCHANGED <<hpc, watch, source>>, inMap' \subseteq inMap,
         \A c \in Calls : cpc'[c] = "idle" <=> cpc[c] = "idle"
  PROVE  SourceInv'
  BY DEF UploadInv, SourceInv
-----------------------------------------------------------------------------
(* The deadline, and the public client.                                    *)
LEMMA WorldStep ==
  ASSUME UploadInv, NEW u \in Sources, DeadlinePasses(u) \/ ClientLeaves(u)
  PROVE  UploadInv'
<1> USE DEF DeadlinePasses, ClientLeaves, entryVars, bodyVars, callVars
<1>1. TypeOK'
  BY DEF UploadInv, TypeOK
<1>2. TermInv' /\ OnceInv' /\ BodyClosedOnce'
  BY TermKept
<1>3. ClaimInv' /\ CopyInv' /\ SourceInv'
  BY CallsKept, SourcesKept
<1> QED
  BY <1>1, <1>2, <1>3 DEF UploadInv
-----------------------------------------------------------------------------
(* Terminate: a thread that asked enters the sync.Once, which is free.     *)
LEMMA EnterOnceStep ==
  ASSUME UploadInv, NEW th \in Threads, EnterOnce(th)
  PROVE  UploadInv'
<1> USE DEF UploadInv, EnterOnce, publicVars, bodyVars, callVars
<1>1. TypeOK'
  BY DEF TypeOK, TermStates, TermInv
<1>2. ClaimInv' /\ CopyInv' /\ SourceInv'
  BY CallsKept, SourcesKept
<1>3. Subject(th) \in Sources /\ once[Subject(th)] = "free"
  BY DEF TermInv, OnceFree
<1>4. \A tk \in Threads : term'[tk] = IF tk = th THEN "unlinking" ELSE term[tk]
  BY DEF TypeOK
<1>5. TermInv'
  BY <1>4, SubjectKept DEF TermInv
<1>6. \A u \in Sources : once'[u] = IF u = Subject(th) THEN "running" ELSE once[u]
  BY DEF TypeOK
<1>7. \A tk \in Threads : Working(tk) => Subject(tk) \in Sources /\ Subject(tk) # Subject(th)
  BY <1>3 DEF OnceInv, TermInv, Working
<1>8. \A tk \in Threads : Working(tk)' <=> tk = th \/ Working(tk)
  BY <1>4 DEF Working
<1>9. OnceInv' /\ BodyClosedOnce'
  BY <1>3, <1>6, <1>7, <1>8, SubjectKept DEF OnceInv, BodyClosedOnce
<1> QED
  BY <1>1, <1>2, <1>5, <1>9

(* It finds the Once done, or goes on in it before the body is closed.     *)
LEMMA TerminateGoesOnStep ==
  ASSUME UploadInv, NEW th \in Threads, PassOnce(th) \/ Unlink(th) \/ Signal(th)
  PROVE  UploadInv'
<1> USE DEF UploadInv, PassOnce, Unlink, Signal, publicVars, entryVars, bodyVars, callVars
<1>1. term[th] # "no" /\ Subject(th) \in Sources
  BY DEF TermInv
<1>2. TypeOK'
  BY <1>1 DEF TypeOK, TermStates
<1>3. ClaimInv' /\ CopyInv' /\ SourceInv'
  BY CallsKept, SourcesKept
<1>4. /\ \A tk \in Threads : tk # th => term'[tk] = term[tk]
      /\ term'[th] # "no" /\ (Working(th)' => Working(th))
  BY DEF TypeOK, Working
<1>5. TermInv'
  BY <1>1, <1>4, SubjectKept DEF TermInv
<1>6. \A tk \in Threads : Working(tk)' => Working(tk)
  BY <1>4 DEF Working
<1>7. OnceInv' /\ BodyClosedOnce'
  BY <1>6, SubjectKept DEF OnceInv, BodyClosedOnce
<1> QED
  BY <1>2, <1>3, <1>5, <1>7

(* The body is closed by the one thread at work, and was not before.       *)
LEMMA CloseBodyStep ==
  ASSUME UploadInv, NEW th \in Threads, CloseBody(th)
  PROVE  UploadInv'
<1> USE DEF UploadInv, CloseBody, publicVars, entryVars, bodyVars, callVars
<1> DEFINE u == Subject(th)
<1>1. u \in Sources /\ Working(th) /\ once[u] = "running" /\ closes[u] = 0
  BY DEF TermInv, OnceInv, Working
<1>2. closes' = [closes EXCEPT ![u] = 1]
  BY <1>1 DEF Closes, TypeOK
<1>3. TypeOK'
  BY <1>1, <1>2 DEF TypeOK, TermStates
<1>4. ClaimInv' /\ CopyInv' /\ SourceInv'
  BY CallsKept, SourcesKept
<1>5. \A tk \in Threads : term'[tk] = IF tk = th THEN "ended" ELSE term[tk]
  BY DEF TypeOK
<1>6. TermInv'
  BY <1>1, <1>5, SubjectKept DEF TermInv
<1>7. \A tk \in Threads : Working(tk)' <=> tk # th /\ Working(tk)
  BY <1>5 DEF Working
<1>8. \A v \in Sources : once'[v] = IF v = u THEN "done" ELSE once[v]
  BY DEF TypeOK
<1>9. OnceInv'
  BY <1>1, <1>2, <1>7, <1>8, SubjectKept DEF OnceInv, TypeOK
<1>10. BodyClosedOnce'
  BY <1>2 DEF BodyClosedOnce, TypeOK
<1> QED
  BY <1>3, <1>4, <1>6, <1>9, <1>10
-----------------------------------------------------------------------------
(* The public handler: Register puts a new source into the map.            *)
LEMMA RegisterStep ==
  ASSUME UploadInv, NEW u \in Sources, Register(u)
  PROVE  UploadInv'
<1> USE DEF UploadInv, Register, bodyVars, callVars
<1>1. TypeOK'
  BY DEF TypeOK
<1>2. \A v \in Sources : hpc'[v] = "new" => hpc[v] = "new"
  BY DEF TypeOK
<1>3. TermInv' /\ OnceInv' /\ BodyClosedOnce'
  BY <1>2, TermKept
<1>4. ClaimInv' /\ CopyInv'
  BY CallsKept
<1>5. SourceInv'
  BY DEF SourceInv, TypeOK
<1> QED
  BY <1>1, <1>3, <1>4, <1>5

(* HandlerCancels and WatcherCancels, where they find the entry: it leaves *)
(* the map before the thread asks for its end.                             *)
LEMMA HandlerStep ==
  ASSUME UploadInv, NEW u \in Sources,
         HandlerCancels(u) \/ HandlerCanceled(u) \/ HandlerReturns(u)
  PROVE  UploadInv'
<1> USE DEF UploadInv, HandlerCancels, HandlerCanceled, HandlerReturns, entryVars, bodyVars, callVars
<1>1. TypeOK'
  BY ThreadFacts DEF TypeOK, TermStates, Ask
<1>2. /\ hpc[u] # "new" /\ hpc'[u] # "new"
      /\ \A v \in Sources : v # u => hpc'[v] = hpc[v]
      /\ u \notin inMap' /\ inMap' \subseteq inMap
  BY DEF TypeOK, Takes, SourceInv
<1>3. TermInv' /\ OnceInv' /\ BodyClosedOnce'
  <2>1. CASE UNCHANGED term
    BY <1>2, <2>1, TermKept
  <2>2. CASE Ask(<<"handler", u>>)
    BY <1>2, <2>2, ThreadFacts, AskKept
  <2> QED
    BY <2>1, <2>2
<1>4. ClaimInv' /\ CopyInv'
  BY CallsKept
<1>5. SourceInv'
  BY <1>2 DEF SourceInv, TypeOK
<1> QED
  BY <1>1, <1>3, <1>4, <1>5

LEMMA WatcherStep ==
  ASSUME UploadInv, NEW u \in Sources, WatcherCancels(u) \/ WatcherEnds(u)
  PROVE  UploadInv'
<1> USE DEF UploadInv, WatcherCancels, WatcherEnds, entryVars, bodyVars, callVars
<1>1. TypeOK'
  BY ThreadFacts DEF TypeOK, TermStates, Ask
<1>2. hpc[u] # "new" /\ inMap' \subseteq inMap /\ watch'[u] # "none"
  BY DEF SourceInv, TypeOK
<1>3. TermInv' /\ OnceInv' /\ BodyClosedOnce'
  <2>1. CASE UNCHANGED term
    BY <1>2, <2>1, TermKept
  <2>2. CASE u \notin inMap' /\ Ask(<<"watcher", u>>)
    BY <1>2, <2>2, ThreadFacts, AskKept
  <2> QED
    BY <2>1, <2>2
<1>4. ClaimInv' /\ CopyInv'
  BY CallsKept
<1>5. SourceInv'
  BY <1>2 DEF SourceInv, TypeOK
<1> QED
  BY <1>1, <1>3, <1>4, <1>5
-----------------------------------------------------------------------------
(* A connector asks for a source: none of its threads had asked for any.   *)
LEMMA DialStep ==
  ASSUME UploadInv, NEW c \in Calls, NEW u \in Sources, Dial(c, u)
  PROVE  UploadInv'
<1> USE DEF UploadInv, Dial, Goes, publicVars, entryVars, bodyVars
<1>1. TypeOK'
  BY DEF TypeOK
<1>2. source[c] = None /\ hpc[u] # "new"
  BY DEF SourceInv
<1>3. /\ \A d \in Calls : d # c => source'[d] = source[d] /\ cpc'[d] = cpc[d]
      /\ source'[c] = u /\ cpc'[c] = "clocked"
  BY DEF TypeOK
<1>4. \A th \in Threads : term[th] # "no" => Subject(th)' = Subject(th)
  <2> SUFFICES ASSUME NEW th \in Threads, term[th] # "no" PROVE Subject(th)' = Subject(th)
    OBVIOUS
  <2>1. Subject(th) # None
    BY UploadAssumption DEF TermInv
  <2>2. CASE th \in PublicThreads
    BY <2>2 DEF Subject
  <2>3. CASE th \in CallThreads \ PublicThreads
    BY <1>2, <1>3, <2>1, <2>3 DEF Subject, CallThreads
  <2> QED
    BY <2>2, <2>3 DEF Threads
<1>5. TermInv'
  BY <1>4 DEF TermInv
<1>6. OnceInv' /\ BodyClosedOnce'
  BY <1>4 DEF OnceInv, BodyClosedOnce, Working
<1>7. Claimants' = Claimants /\ c \notin Claimants
  BY <1>3 DEF Claimants
<1>8. ClaimInv'
  BY <1>3, <1>7 DEF ClaimInv, Claimants
<1>9. CopyInv'
  BY <1>3, <1>7 DEF CopyInv, Claimants
<1>10. SourceInv'
  BY <1>2, <1>3 DEF SourceInv
<1> QED
  BY <1>1, <1>5, <1>6, <1>8, <1>9, <1>10

(* What changes nothing but where a call is, outside of its copy.          *)
LEMMA CallGoesStep ==
  ASSUME UploadInv, NEW c \in Calls,
         NEW p \in {"expiring", "rejected", "closing", "served"}, cpc' = [cpc EXCEPT ![c] = p],
         cpc[c] # "idle", p \in {"closing", "served"} <=> c \in Claimants,
         cpc[c] # "copying",
         UNCHANGED <<size, unread, claimed, source, reading, copyErr, sent, guard>>
  PROVE  ClaimInv' /\ CopyInv' /\ \A d \in Calls : cpc'[d] = "idle" <=> cpc[d] = "idle"
<1> USE DEF UploadInv
<1>1. \A d \in Calls : cpc'[d] = IF d = c THEN p ELSE cpc[d]
  BY DEF TypeOK
<1>2. Claimants' = Claimants
  BY <1>1 DEF Claimants
<1>3. ClaimInv'
  BY <1>2 DEF ClaimInv
<1>4. CopyInv'
  BY <1>1, <1>2 DEF CopyInv
<1> QED
  BY <1>1, <1>3, <1>4

(* Claim, refused: a late source leaves the map before it is terminated.   *)
LEMMA ClaimRefusedStep ==
  ASSUME UploadInv, NEW c \in Calls, ClaimExpired(c) \/ ClaimRejected(c)
  PROVE  UploadInv'
<1> USE DEF UploadInv, ClaimExpired, ClaimRejected, Goes, publicVars, entryVars, bodyVars
<1>1. c \notin Claimants /\ source[c] \in Sources /\ hpc[source[c]] # "new"
  BY DEF Claimants, SourceInv
<1>2. ClaimInv' /\ CopyInv' /\ \A d \in Calls : cpc'[d] = "idle" <=> cpc[d] = "idle"
  BY <1>1, CallGoesStep
<1>3. SourceInv'
  BY <1>2, SourcesKept
<1>4. TypeOK'
  BY ThreadFacts DEF TypeOK, TermStates, Ask
<1>5. TermInv' /\ OnceInv' /\ BodyClosedOnce'
  <2>1. CASE ClaimExpired(c)
    BY <1>1, <2>1, ThreadFacts, AskKept
  <2>2. CASE ClaimRejected(c)
    BY <2>2, TermKept
  <2> QED
    BY <2>1, <2>2
<1> QED
  BY <1>2, <1>3, <1>4, <1>5

(* Claim, accepted: of a source nobody had claimed, so the body is whole.  *)
LEMMA ClaimAcceptedStep ==
  ASSUME UploadInv, NEW c \in Calls, ClaimAccepted(c)
  PROVE  UploadInv'
<1> USE DEF UploadInv, ClaimAccepted, Claimable, Unclaimed, Goes, publicVars, bodyVars
<1>1. source[c] \in Sources /\ c \notin Claimants /\ source[c] \notin claimed
  BY DEF SourceInv, Claimants
<1>2. TypeOK'
  BY <1>1 DEF TypeOK
<1>3. \A d \in Calls : cpc'[d] = IF d = c THEN "copying" ELSE cpc[d]
  BY DEF TypeOK
<1>4. Claimants' = Claimants \cup {c}
  BY <1>3 DEF Claimants
<1>5. \A d \in Calls : guard'[d] = IF d = c THEN "guarding" ELSE guard[d]
  BY DEF TypeOK
<1>6. ClaimInv'
  BY <1>1, <1>4, <1>5 DEF ClaimInv
<1>7. CopyInv'
  <2>1. sent[c] = 0 /\ unread[source[c]] = size[source[c]] /\ c \notin copyErr
    BY <1>1 DEF CopyInv
  <2> QED
    BY <1>1, <1>3, <1>4, <2>1 DEF CopyInv, TypeOK
<1>8. SourceInv'
  BY <1>3, SourcesKept
<1>9. TermInv' /\ OnceInv' /\ BodyClosedOnce'
  BY TermKept
<1> QED
  BY <1>2, <1>6, <1>7, <1>8, <1>9
-----------------------------------------------------------------------------
(* The copy: a step of a claimant that is copying, who is the only one to  *)
(* take chunks of its source.                                              *)
LEMMA CopyStep ==
  ASSUME UploadInv, TypeOK', NEW c \in Calls, cpc[c] = "copying",
         NEW p \in {"copying", "ending"}, cpc' = [cpc EXCEPT ![c] = p],
         UNCHANGED <<publicVars, entryVars, http1, closes, size, term, source, guard>>,
         \A u \in Sources : u # source[c] => unread'[u] = unread[u],
         \A d \in Calls : d # c => sent'[d] = sent[d],
         copyErr' \in {copyErr, copyErr \cup {c}}, c \in copyErr' => p = "ending",
         reading' \ {c} = reading \ {c}, c \in reading' => p = "copying",
         sent'[c] + unread'[source[c]] <= size[source[c]],
         c \notin copyErr' => sent'[c] + unread'[source[c]] = size[source[c]],
         p = "ending" /\ c \notin copyErr' => unread'[source[c]] = 0
  PROVE  UploadInv'
<1> USE DEF UploadInv, publicVars, entryVars
<1>1. \A d \in Calls : cpc'[d] = IF d = c THEN p ELSE cpc[d]
  BY DEF TypeOK
<1>2. Claimants' = Claimants /\ c \in Claimants
  BY <1>1 DEF Claimants
<1>3. \A d \in Claimants : d # c => source[d] # source[c] /\ source[d] \in Sources
  BY <1>2 DEF ClaimInv, SourceInv, Claimants
<1>4. source[c] \in claimed
  BY <1>2 DEF ClaimInv
<1>5. ClaimInv' /\ SourceInv'
  BY <1>1, <1>2, SourcesKept DEF ClaimInv
<1>6. CopyInv'
  <2>1. \A u \in Sources \ claimed' : unread'[u] = size'[u]
    BY <1>4 DEF CopyInv
  <2>2. reading' \subseteq {d \in Calls : cpc'[d] = "copying"}
    BY <1>1 DEF CopyInv, TypeOK
  <2>3. copyErr' \subseteq {d \in Claimants' : cpc'[d] # "copying"}
    BY <1>1, <1>2 DEF CopyInv, TypeOK
  <2>4. \A d \in Calls \ Claimants' : sent'[d] = 0
    BY <1>2 DEF CopyInv
  <2>5. \A d \in Claimants' : d # c =>
          /\ cpc'[d] = cpc[d] /\ sent'[d] = sent[d] /\ unread'[source'[d]] = unread[source[d]]
          /\ d \in copyErr' <=> d \in copyErr
    BY <1>1, <1>2, <1>3 DEF Claimants
  <2>6. \A d \in Claimants' :
          /\ sent'[d] + unread'[source'[d]] <= size'[source'[d]]
          /\ d \notin copyErr' => sent'[d] + unread'[source'[d]] = size'[source'[d]]
          /\ cpc'[d] # "copying" /\ d \notin copyErr' => unread'[source'[d]] = 0
    BY <1>1, <1>2, <2>5 DEF CopyInv
  <2> QED
    BY <2>1, <2>2, <2>3, <2>4, <2>6 DEF CopyInv
<1>7. TermInv' /\ OnceInv' /\ BodyClosedOnce'
  BY TermKept
<1> QED
  BY <1>5, <1>6, <1>7

LEMMA ReadBeginsStep ==
  ASSUME UploadInv, NEW c \in Calls, ReadBegins(c)
  PROVE  UploadInv'
<1> USE DEF UploadInv, ReadBegins, publicVars, entryVars, bodyVars
<1>1. TypeOK'
  BY DEF TypeOK
<1>2. /\ c \in Claimants /\ c \notin copyErr
      /\ sent[c] + unread[source[c]] = size[source[c]]
      /\ sent[c] + unread[source[c]] <= size[source[c]]
  BY DEF CopyInv, Claimants
<1>3. CASE closes[source[c]] > 0
  BY <1>1, <1>2, <1>3, CopyStep
<1>4. CASE ~(closes[source[c]] > 0)
  <2>1. cpc' = [cpc EXCEPT ![c] = "copying"]
    BY <1>4 DEF TypeOK
  <2> QED
    BY <1>1, <1>2, <1>4, <2>1, CopyStep
<1> QED
  BY <1>3, <1>4

(* A chunk goes from the unread to the sent, or is lost with an error; the *)
(* end is seen when nothing is unread.                                     *)
LEMMA ReadReturnsStep ==
  ASSUME UploadInv, NEW c \in Calls, ReadReturns(c)
  PROVE  UploadInv'
<1> USE DEF UploadInv, ReadReturns, publicVars, entryVars
<1>1. /\ c \in Claimants /\ c \notin copyErr /\ cpc[c] = "copying"
      /\ source[c] \in Sources
      /\ sent[c] + unread[source[c]] = size[source[c]]
      /\ sent[c] + unread[source[c]] <= size[source[c]]
      /\ sent[c] \in Nat /\ unread[source[c]] \in Nat /\ size[source[c]] \in 0..MaxChunks
  BY DEF CopyInv, Claimants, SourceInv, TypeOK
<1>2. reading' \ {c} = reading \ {c} /\ c \notin reading'
  OBVIOUS
<1>3. CASE ReadsChunk(c)
  <2>1. /\ unread' = [unread EXCEPT ![source[c]] = @ - 1]
        /\ unread[source[c]] > 0
    BY <1>3 DEF ReadsChunk, More
  <2>2. /\ \A u \in Sources : u # source[c] => unread'[u] = unread[u]
        /\ unread'[source[c]] = unread[source[c]] - 1
      /\ unread' \in [Sources -> 0..MaxChunks]
    <3>1. unread[source[c]] - 1 \in 0..MaxChunks
      BY <1>1, <2>1, UploadAssumption DEF TypeOK
    <3> QED
      BY <1>1, <2>1, <3>1 DEF TypeOK
  <2>3. CASE sent' = [sent EXCEPT ![c] = @ + 1] /\ UNCHANGED <<cpc, copyErr>>
    <3>1. cpc' = [cpc EXCEPT ![c] = "copying"]
      BY <1>1, <2>3 DEF TypeOK
    <3>2. sent'[c] = sent[c] + 1 /\ \A d \in Calls : d # c => sent'[d] = sent[d]
      BY <2>3 DEF TypeOK
    <3>3. /\ sent'[c] + unread'[source[c]] = size[source[c]]
          /\ sent'[c] + unread'[source[c]] <= size[source[c]]
          /\ sent'[c] \in 0..MaxChunks
      BY <1>1, <2>1, <2>2, <3>2, UploadAssumption
    <3>4. TypeOK'
      BY <2>2, <2>3, <3>3 DEF TypeOK
    <3> QED
      BY <1>1, <1>2, <2>2, <2>3, <3>1, <3>2, <3>3, <3>4, CopyStep
  <2>4. CASE copyErr' = copyErr \cup {c} /\ cpc' = [cpc EXCEPT ![c] = "ending"] /\ UNCHANGED sent
    <3>1. TypeOK'
      BY <2>2, <2>4 DEF TypeOK
    <3>2. sent'[c] + unread'[source[c]] <= size[source[c]]
      BY <1>1, <2>2, <2>4
    <3> QED
      BY <1>1, <1>2, <2>2, <2>4, <3>1, <3>2, CopyStep
  <2> QED
    BY <1>3, <2>3, <2>4 DEF ReadsChunk
<1>4. CASE ReadsEnd(c)
  <2>1. TypeOK'
    BY <1>4 DEF ReadsEnd, TypeOK
  <2>2. unread[source[c]] = 0 /\ cpc' = [cpc EXCEPT ![c] = "ending"] /\ UNCHANGED <<unread, sent, copyErr>>
    BY <1>1, <1>4 DEF ReadsEnd, More
  <2> QED
    BY <1>1, <1>2, <2>1, <2>2, CopyStep
<1>5. CASE ReadFails(c)
  <2>1. TypeOK'
    BY <1>5 DEF ReadFails, TypeOK
  <2>2. /\ cpc' = [cpc EXCEPT ![c] = "ending"] /\ copyErr' = copyErr \cup {c}
        /\ UNCHANGED <<unread, sent>>
    BY <1>5 DEF ReadFails
  <2> QED
    BY <1>1, <1>2, <2>1, <2>2, CopyStep
<1> QED
  BY <1>3, <1>4, <1>5
-----------------------------------------------------------------------------
(* The call closes its claim, which it holds, and ends.                    *)
LEMMA CallEndsStep ==
  ASSUME UploadInv, NEW c \in Calls, CallCloses(c) \/ CallEnds(c)
  PROVE  UploadInv'
<1> USE DEF UploadInv, CallCloses, CallEnds, Goes, publicVars, entryVars, bodyVars
<1>1. c \in Claimants /\ source[c] \in Sources /\ hpc[source[c]] # "new" /\ source[c] \in claimed
  BY DEF Claimants, SourceInv, ClaimInv
<1>2. ClaimInv' /\ CopyInv' /\ \A d \in Calls : cpc'[d] = "idle" <=> cpc[d] = "idle"
  BY <1>1, CallGoesStep
<1>3. SourceInv'
  BY <1>2, SourcesKept
<1>4. TypeOK'
  BY ThreadFacts DEF TypeOK, TermStates, Ask
<1>5. TermInv' /\ OnceInv' /\ BodyClosedOnce'
  <2>1. CASE CallCloses(c)
    BY <1>1, <2>1, ThreadFacts, AskKept
  <2>2. CASE CallEnds(c)
    BY <2>2, TermKept
  <2> QED
    BY <2>1, <2>2
<1> QED
  BY <1>2, <1>3, <1>4, <1>5

(* The connector leaves.                                                   *)
LEMMA ConnectorLeavesStep ==
  ASSUME UploadInv, NEW c \in Calls, ConnectorLeaves(c)
  PROVE  UploadInv'
<1> USE DEF ConnectorLeaves, publicVars, entryVars, bodyVars
<1>1. TypeOK'
  BY DEF UploadInv, TypeOK
<1>2. TermInv' /\ OnceInv' /\ BodyClosedOnce'
  BY TermKept
<1>3. ClaimInv' /\ CopyInv' /\ SourceInv'
  BY CallsKept, SourcesKept
<1> QED
  BY <1>1, <1>2, <1>3 DEF UploadInv

(* The guard closes the claim of its call, or ends with the call.          *)
LEMMA GuardStep ==
  ASSUME UploadInv, NEW c \in Calls, Guard(c)
  PROVE  UploadInv'
<1> USE DEF UploadInv, Guard, GuardCloses, GuardEnds, publicVars, entryVars, bodyVars
<1>1. c \in Claimants /\ source[c] \in Sources /\ hpc[source[c]] # "new" /\ source[c] \in claimed
  BY DEF Claimants, SourceInv, ClaimInv
<1>2. TypeOK'
  BY ThreadFacts DEF TypeOK, TermStates, Ask
<1>3. \A d \in Calls : d # c => guard'[d] = guard[d]
  BY DEF TypeOK
<1>4. Claimants' = Claimants
  BY DEF Claimants
<1>5. ClaimInv' /\ CopyInv' /\ SourceInv'
  BY <1>1, <1>3, <1>4, SourcesKept DEF ClaimInv, CopyInv
<1>6. TermInv' /\ OnceInv' /\ BodyClosedOnce'
  <2>1. CASE GuardCloses(c)
    BY <1>1, <2>1, ThreadFacts, AskKept
  <2>2. CASE GuardEnds(c)
    BY <2>2, TermKept
  <2> QED
    BY <2>1, <2>2
<1> QED
  BY <1>2, <1>5, <1>6
-----------------------------------------------------------------------------
(* One step of anyone, or a stutter.                                       *)
LEMMA NextInv == UploadInv /\ [Next]_vars => UploadInv'
<1> SUFFICES ASSUME UploadInv, [Next]_vars PROVE UploadInv'
  OBVIOUS
<1>1. ASSUME NEW u \in Sources, DeadlinePasses(u) \/ ClientLeaves(u) PROVE UploadInv'
  BY <1>1, WorldStep
<1>2. ASSUME NEW u \in Sources, Handler(u) PROVE UploadInv'
  BY <1>2, RegisterStep, HandlerStep DEF Handler
<1>3. ASSUME NEW u \in Sources, Watcher(u) PROVE UploadInv'
  BY <1>3, WatcherStep DEF Watcher
<1>4. ASSUME NEW c \in Calls, NEW u \in Sources, Dial(c, u) PROVE UploadInv'
  BY <1>4, DialStep
<1>5. ASSUME NEW c \in Calls, Call(c) PROVE UploadInv'
  BY <1>5, ClaimRefusedStep, ClaimAcceptedStep, ReadBeginsStep, ReadReturnsStep, CallEndsStep
     DEF Call
<1>6. ASSUME NEW c \in Calls, ConnectorLeaves(c) \/ Guard(c) PROVE UploadInv'
  BY <1>6, ConnectorLeavesStep, GuardStep
<1>7. ASSUME NEW th \in Threads, Terminate(th) PROVE UploadInv'
  BY <1>7, EnterOnceStep, TerminateGoesOnStep, CloseBodyStep DEF Terminate
<1>8. CASE UNCHANGED vars
  <2> USE <1>8 DEF vars, publicVars, entryVars, bodyVars, callVars
  <2>1. TypeOK'
    BY DEF UploadInv, TypeOK
  <2>2. TermInv' /\ OnceInv' /\ BodyClosedOnce'
    BY TermKept
  <2>3. ClaimInv' /\ CopyInv' /\ SourceInv'
    BY CallsKept, SourcesKept
  <2> QED
    BY <2>1, <2>2, <2>3 DEF UploadInv
<1> QED
  BY <1>1, <1>2, <1>3, <1>4, <1>5, <1>6, <1>7, <1>8 DEF Next

(* The inductive invariant of the upload sources and their threads.        *)
THEOREM UploadInductive == Spec => []UploadInv
  BY InitInv, NextInv, PTL DEF Spec
-----------------------------------------------------------------------------
(* The variables of the registry and of its threads keep their types.      *)
THEOREM UploadTypeCorrect == Spec => []TypeOK
<1>1. UploadInv => TypeOK
  BY DEF UploadInv
<1> QED
  BY <1>1, UploadInductive, PTL

(* Whatever ends a source, and however many threads do, its body is closed *)
(* once: terminate is a sync.Once.                                         *)
THEOREM ClosedOnce == Spec => []BodyClosedOnce
<1>1. UploadInv => BodyClosedOnce
  BY DEF UploadInv
<1> QED
  BY <1>1, UploadInductive, PTL

(* A copy to a connector that ends without an error has sent the body.     *)
THEOREM CopiedWhole == Spec => []CopiedIsWhole
<1>1. UploadInv => CopiedIsWhole
  <2> SUFFICES ASSUME UploadInv, NEW c \in Calls,
                      cpc[c] \in {"ending", "closing", "served"}, c \notin copyErr
               PROVE  sent[c] = size[source[c]]
    BY DEF CopiedIsWhole
  <2>1. c \in Claimants
    BY DEF Claimants
  <2>2. sent[c] + unread[source[c]] = size[source[c]] /\ unread[source[c]] = 0
    BY <2>1 DEF UploadInv, CopyInv
  <2> QED
    BY <2>2 DEF UploadInv, TypeOK
<1> QED
  BY <1>1, UploadInductive, PTL

(* The registry holds nothing of a request whose handler has returned.     *)
THEOREM ReturnedUnlinked == Spec => []ReturnedIsUnlinked
<1>1. UploadInv => ReturnedIsUnlinked
  BY DEF UploadInv, SourceInv, ReturnedIsUnlinked
<1> QED
  BY <1>1, UploadInductive, PTL

(* Claim gives no connector a source that any thread - the public handler, *)
(* the watcher, a call or a guard - has begun to terminate.                *)
THEOREM DoomedUnavailable == Spec => DoomedIsUnavailable
<1>1. ASSUME UploadInv
      PROVE  \A c \in Calls :
               ClaimAccepted(c) =>
                 \A th \in Threads : Subject(th) = source[c] => term[th] = "no"
  BY <1>1 DEF UploadInv, TermInv, ClaimAccepted, Claimable, Unclaimed
<1> QED
  BY <1>1, UploadInductive, PTL DEF DoomedIsUnavailable
==============================================================================
