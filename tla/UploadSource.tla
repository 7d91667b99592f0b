---------------------------- MODULE UploadSource ----------------------------
(***************************************************************************)
(* Request bodies on their way to the connectors (internal/uploadsource):  *)
(* the registry that holds the body of each public upload, the handler of  *)
(* the private listener that streams a body to the connector that claims   *)
(* it, and what the public handler (serveS3API) does with the registry.    *)
(*                                                                         *)
(* A source stands for its request id: the edge gives it the fresh id of a *)
(* pending request.  The body of a source is ended by whoever is first of  *)
(* four kinds of threads: the public handler, the watcher of the public    *)
(* context, the handler of a call, and that call's guard, which watches    *)
(* the connector's context.  They meet in terminate, a sync.Once.          *)
(***************************************************************************)
EXTENDS Naturals

CONSTANTS
  Sources,     \* public requests that upload a body
  Calls,       \* requests of connectors to the upload-source endpoint
  MaxChunks,   \* bound on the chunks of a body
  None         \* no source

ASSUME UploadAssumption ==
  /\ None \notin Sources
  /\ MaxChunks \in Nat

VARIABLES
  hpc,         \* where each public handler is
  gone,        \* sources whose public context is done
  late,        \* sources whose deadline has passed
  inMap,       \* the registry's entries
  claimed,     \* entry.claimed
  once,        \* entry.once: "free", "running" or "done"
  done,        \* sources whose done channel is closed
  http1,       \* sources that come over HTTP/1: closing the body waits for
               \* a read of it that is under way
  closes,      \* how often each body was closed
  size,        \* chunks of each body
  unread,      \* those that were not read yet
  watch,       \* where each watcher is
  term,        \* where each thread is in terminate
  cpc,         \* where the handler of each call is
  source,      \* the source a call asks for
  goodToken,   \* calls with the right token
  sawLate,     \* calls that read the clock after the source's deadline
  reading,     \* calls with a read of the body under way
  copyErr,     \* calls whose copy failed
  sent,        \* chunks written to the connector
  guard,       \* where the guard of each call is
  left         \* calls whose context is done

publicVars == <<hpc, gone, late, watch>>
entryVars == <<inMap, claimed, once, done>>
bodyVars == <<http1, closes, size, unread>>
callVars == <<cpc, source, goodToken, sawLate, reading, copyErr, sent, guard, left>>
vars == <<publicVars, entryVars, bodyVars, term, callVars>>

(* The threads that may terminate a source, and which one it is.           *)
PublicThreads == {"handler", "watcher"} \X Sources
CallThreads == {"call", "guard"} \X Calls
Threads == PublicThreads \cup CallThreads
Subject(th) == IF th \in PublicThreads THEN th[2] ELSE source[th[2]]

Init ==
  /\ hpc = [u \in Sources |-> "new"]
  /\ gone = {} /\ late = {}
  /\ inMap = {} /\ claimed = {} /\ done = {}
  /\ once = [u \in Sources |-> "free"]
  /\ http1 \in SUBSET Sources
  /\ closes = [u \in Sources |-> 0]
  /\ size \in [Sources -> 0..MaxChunks]
  /\ unread = size
  /\ watch = [u \in Sources |-> "none"]
  /\ term = [th \in Threads |-> "no"]
  /\ cpc = [c \in Calls |-> "idle"]
  /\ source = [c \in Calls |-> None]
  /\ goodToken = {} /\ sawLate = {} /\ reading = {} /\ copyErr = {}
  /\ sent = [c \in Calls |-> 0]
  /\ guard = [c \in Calls |-> "none"]
  /\ left = {}

(* The deadline of a source is of no account once nothing holds it.        *)
DeadlinePasses(u) ==
  /\ u \notin late
  /\ hpc[u] # "returned" \/ u \in inMap
  /\ late' = late \cup {u}
  /\ UNCHANGED <<hpc, gone, watch, entryVars, bodyVars, term, callVars>>

ClientLeaves(u) ==
  /\ hpc[u] # "returned" /\ u \notin gone
  /\ gone' = gone \cup {u}
  /\ UNCHANGED <<hpc, late, watch, entryVars, bodyVars, term, callVars>>
-----------------------------------------------------------------------------
(* terminate: the first thread does the work, the others wait for it.      *)

SlipOnceFree(u) == TRUE
OnceFree(u) == once[u] = "free"

Ask(th) == term' = [term EXCEPT ![th] = "asked"]

EnterOnce(th) ==
  /\ term[th] = "asked"
  /\ OnceFree(Subject(th))
  /\ once' = [once EXCEPT ![Subject(th)] = "running"]
  /\ term' = [term EXCEPT ![th] = "unlinking"]
  /\ UNCHANGED <<publicVars, inMap, claimed, done, bodyVars, callVars>>

PassOnce(th) ==
  /\ term[th] = "asked"
  /\ once[Subject(th)] = "done"
  /\ term' = [term EXCEPT ![th] = "ended"]
  /\ UNCHANGED <<publicVars, entryVars, bodyVars, callVars>>

(* Under the lock: the entry goes, unless it is gone.                      *)
Unlink(th) ==
  /\ term[th] = "unlinking"
  /\ inMap' = inMap \ {Subject(th)}
  /\ term' = [term EXCEPT ![th] = "signaling"]
  /\ UNCHANGED <<publicVars, claimed, once, done, bodyVars, callVars>>

Signal(th) ==
  /\ term[th] = "signaling"
  /\ done' = done \cup {Subject(th)}
  /\ term' = [term EXCEPT ![th] = "closing"]
  /\ UNCHANGED <<publicVars, inMap, claimed, once, bodyVars, callVars>>

(* The body is the source's own or the claim's, which is the same.         *)
Closes(th) == 1

SlipCloseReady(th) ==
  \A c \in Calls : source[c] = Subject(th) => cpc[c] \notin {"copying", "ending", "closing"}
CloseReady(th) == Subject(th) \in http1 => \A c \in reading : source[c] # Subject(th)

CloseBody(th) ==
  /\ term[th] = "closing"
  /\ CloseReady(th)
  /\ closes' = [closes EXCEPT ![Subject(th)] = @ + Closes(th)]
  /\ once' = [once EXCEPT ![Subject(th)] = "done"]
  /\ term' = [term EXCEPT ![th] = "ended"]
  /\ UNCHANGED <<publicVars, inMap, claimed, done, http1, size, unread, callVars>>

Terminate(th) ==
  EnterOnce(th) \/ PassOnce(th) \/ Unlink(th) \/ Signal(th) \/ CloseBody(th)
-----------------------------------------------------------------------------
(* The public handler, and the watcher that Register starts.               *)

(* Register refuses a source that is late or whose context is done; the    *)
(* handler then answers and has nothing to cancel.                         *)
Register(u) ==
  /\ hpc[u] = "new"
  /\ IF u \in late \cup gone
       THEN /\ hpc' = [hpc EXCEPT ![u] = "leaving"]
            /\ UNCHANGED <<inMap, watch>>
       ELSE /\ hpc' = [hpc EXCEPT ![u] = "holding"]
            /\ inMap' = inMap \cup {u}
            /\ watch' = [watch EXCEPT ![u] = "watching"]
  /\ UNCHANGED <<gone, late, claimed, once, done, bodyVars, term, callVars>>

(* The locked part of Cancel: it takes the entry, if it is still there.    *)
SlipTakes(u) == u \in inMap \ claimed
Takes(u) == u \in inMap

(* The handler cancels once: after a failed publish, or when it is done    *)
(* with the request (deferred).                                            *)
HandlerCancels(u) ==
  /\ hpc[u] = "holding"
  /\ IF Takes(u)
       THEN /\ inMap' = inMap \ {u}
            /\ Ask(<<"handler", u>>)
            /\ hpc' = [hpc EXCEPT ![u] = "canceling"]
       ELSE /\ hpc' = [hpc EXCEPT ![u] = "leaving"]
            /\ UNCHANGED <<inMap, term>>
  /\ UNCHANGED <<gone, late, watch, claimed, once, done, bodyVars, callVars>>

HandlerCanceled(u) ==
  /\ hpc[u] = "canceling"
  /\ term[<<"handler", u>>] = "ended"
  /\ hpc' = [hpc EXCEPT ![u] = "leaving"]
  /\ UNCHANGED <<gone, late, watch, entryVars, bodyVars, term, callVars>>

(* The server ends the context of a request with its handler.              *)
HandlerReturns(u) ==
  /\ hpc[u] = "leaving"
  /\ hpc' = [hpc EXCEPT ![u] = "returned"]
  /\ gone' = gone \cup {u}
  /\ UNCHANGED <<late, watch, entryVars, bodyVars, term, callVars>>

Handler(u) == Register(u) \/ HandlerCancels(u) \/ HandlerCanceled(u) \/ HandlerReturns(u)

WatcherCancels(u) ==
  /\ watch[u] = "watching"
  /\ u \in gone
  /\ IF u \in inMap
       THEN /\ inMap' = inMap \ {u}
            /\ Ask(<<"watcher", u>>)
            /\ watch' = [watch EXCEPT ![u] = "canceling"]
       ELSE /\ watch' = [watch EXCEPT ![u] = "ended"]
            /\ UNCHANGED <<inMap, term>>
  /\ UNCHANGED <<hpc, gone, late, claimed, once, done, bodyVars, callVars>>

WatcherEnds(u) ==
  /\ \/ watch[u] = "watching" /\ u \in done
     \/ watch[u] = "canceling" /\ term[<<"watcher", u>>] = "ended"
  /\ watch' = [watch EXCEPT ![u] = "ended"]
  /\ UNCHANGED <<hpc, gone, late, entryVars, bodyVars, term, callVars>>

Watcher(u) == WatcherCancels(u) \/ WatcherEnds(u)
-----------------------------------------------------------------------------
(* The handler of a connector's call.                                      *)

Goes(c, from, to) == cpc[c] = from /\ cpc' = [cpc EXCEPT ![c] = to]

ConnectorLeaves(c) ==
  /\ cpc[c] \in {"copying", "ending", "closing"}
  /\ c \notin left
  /\ left' = left \cup {c}
  /\ UNCHANGED <<publicVars, entryVars, bodyVars, term, cpc, source, goodToken,
                 sawLate, reading, copyErr, sent, guard>>

(* A call comes with an id from a ticket; Claim reads the clock first.     *)
Dial(c, u) ==
  /\ Goes(c, "idle", "clocked")
  /\ watch[u] # "none"
  /\ source' = [source EXCEPT ![c] = u]
  /\ goodToken' \in {goodToken, goodToken \cup {c}}
  /\ sawLate' = IF u \in late THEN sawLate \cup {c} ELSE sawLate
  /\ UNCHANGED <<publicVars, entryVars, bodyVars, term, reading, copyErr, sent,
                 guard, left>>

(* Claim, the locked part.  A late source is terminated on the spot,       *)
(* whoever may be reading it.                                              *)
SlipClaimExpired(c) ==
  /\ Goes(c, "clocked", "expiring")
  /\ source[c] \in inMap
  /\ c \in sawLate
  /\ Ask(<<"call", c>>)
  /\ UNCHANGED <<publicVars, entryVars, bodyVars, source, goodToken, sawLate,
                 reading, copyErr, sent, guard, left>>

ClaimExpired(c) ==
  /\ Goes(c, "clocked", "expiring")
  /\ source[c] \in inMap
  /\ c \in sawLate
  /\ inMap' = inMap \ {source[c]}
  /\ Ask(<<"call", c>>)
  /\ UNCHANGED <<publicVars, claimed, once, done, bodyVars, source, goodToken,
                 sawLate, reading, copyErr, sent, guard, left>>

SlipUnclaimed(u) == TRUE
Unclaimed(u) == u \notin claimed

Claimable(c) ==
  /\ source[c] \in inMap
  /\ c \notin sawLate
  /\ Unclaimed(source[c])
  /\ c \in goodToken

(* Not found, replayed, a wrong token; or expired, once it is terminated.  *)
ClaimRejected(c) ==
  /\ \/ /\ Goes(c, "clocked", "rejected")
        /\ ~(source[c] \in inMap /\ c \in sawLate)
        /\ ~Claimable(c)
     \/ /\ Goes(c, "expiring", "rejected")
        /\ term[<<"call", c>>] = "ended"
  /\ UNCHANGED <<publicVars, entryVars, bodyVars, term, source, goodToken, sawLate,
                 reading, copyErr, sent, guard, left>>

ClaimAccepted(c) ==
  /\ Claimable(c)
  /\ Goes(c, "clocked", "copying")
  /\ claimed' = claimed \cup {source[c]}
  /\ guard' = [guard EXCEPT ![c] = "guarding"]
  /\ UNCHANGED <<publicVars, inMap, once, done, bodyVars, term, source, goodToken,
                 sawLate, reading, copyErr, sent, left>>

(* The copy: a read of a closed body fails at once, another one waits for  *)
(* the public client.                                                      *)
ReadBegins(c) ==
  /\ cpc[c] = "copying" /\ c \notin reading
  /\ IF closes[source[c]] > 0
       THEN /\ copyErr' = copyErr \cup {c}
            /\ cpc' = [cpc EXCEPT ![c] = "ending"]
            /\ UNCHANGED reading
       ELSE /\ reading' = reading \cup {c}
            /\ UNCHANGED <<cpc, copyErr>>
  /\ UNCHANGED <<publicVars, entryVars, bodyVars, term, source, goodToken, sawLate,
                 sent, guard, left>>

More(u) == unread[u] > 0

ReadsChunk(c) ==
  LET u == source[c]
  IN  /\ More(u)
      /\ unread' = [unread EXCEPT ![u] = @ - 1]
      /\ \/ /\ sent' = [sent EXCEPT ![c] = @ + 1]
            /\ UNCHANGED <<cpc, copyErr>>
         \/ /\ c \in left
            /\ copyErr' = copyErr \cup {c}
            /\ cpc' = [cpc EXCEPT ![c] = "ending"]
            /\ UNCHANGED sent

ReadsEnd(c) ==
  /\ ~More(source[c])
  /\ cpc' = [cpc EXCEPT ![c] = "ending"]
  /\ UNCHANGED <<unread, sent, copyErr>>

(* The public client left, or the body was closed under the read.          *)
ReadFails(c) ==
  /\ source[c] \in gone \/ closes[source[c]] > 0
  /\ copyErr' = copyErr \cup {c}
  /\ cpc' = [cpc EXCEPT ![c] = "ending"]
  /\ UNCHANGED <<unread, sent>>

ReadReturns(c) ==
  /\ c \in reading
  /\ reading' = reading \ {c}
  /\ ReadsChunk(c) \/ ReadsEnd(c) \/ ReadFails(c)
  /\ UNCHANGED <<publicVars, entryVars, http1, closes, size, term, source, goodToken,
                 sawLate, guard, left>>

(* The deferred CloseWithError, and the end of the call after it.          *)
CallCloses(c) ==
  /\ Goes(c, "ending", "closing")
  /\ Ask(<<"call", c>>)
  /\ UNCHANGED <<publicVars, entryVars, bodyVars, source, goodToken, sawLate, reading,
                 copyErr, sent, guard, left>>

CallEnds(c) ==
  /\ Goes(c, "closing", "served")
  /\ term[<<"call", c>>] = "ended"
  /\ left' = left \cup {c}
  /\ UNCHANGED <<publicVars, entryVars, bodyVars, term, source, goodToken, sawLate,
                 reading, copyErr, sent, guard>>

Call(c) ==
  \/ ClaimExpired(c)
  \/ ClaimRejected(c)
  \/ ClaimAccepted(c)
  \/ ReadBegins(c)
  \/ ReadReturns(c)
  \/ CallCloses(c)
  \/ CallEnds(c)

(* The goroutine beside the copy: it closes the claim when the connector's *)
(* context is done, and ends with the call.                                *)
GuardCloses(c) ==
  /\ guard[c] = "guarding"
  /\ c \in left
  /\ guard' = [guard EXCEPT ![c] = "closing"]
  /\ Ask(<<"guard", c>>)
  /\ UNCHANGED <<publicVars, entryVars, bodyVars, cpc, source, goodToken, sawLate,
                 reading, copyErr, sent, left>>

GuardOver(c) == IF guard[c] = "guarding" THEN cpc[c] = "served"
                                         ELSE term[<<"guard", c>>] = "ended"

GuardEnds(c) ==
  /\ guard[c] \in {"guarding", "closing"}
  /\ GuardOver(c)
  /\ guard' = [guard EXCEPT ![c] = "ended"]
  /\ UNCHANGED <<publicVars, entryVars, bodyVars, term, cpc, source, goodToken, sawLate,
                 reading, copyErr, sent, left>>

Guard(c) == GuardCloses(c) \/ GuardEnds(c)
-----------------------------------------------------------------------------
Next ==
  \/ \E u \in Sources : DeadlinePasses(u) \/ ClientLeaves(u) \/ Handler(u) \/ Watcher(u)
  \/ \E c \in Calls, u \in Sources : Dial(c, u)
  \/ \E c \in Calls : ConnectorLeaves(c) \/ Call(c) \/ Guard(c)
  \/ \E th \in Threads : Terminate(th)

Spec == Init /\ [][Next]_vars

(* Threads go on.  The public handler gives its request up by the deadline *)
(* (EdgeRequest), and a read of the body returns: the client sends or it   *)
(* leaves.  Nothing in the gateway makes a client do either; see the       *)
(* README for what a client that does neither can hold up.                 *)
Fairness ==
  /\ \A u \in Sources :
       /\ WF_vars((hpc[u] # "new" /\ Handler(u)) \/ Terminate(<<"handler", u>>))
       /\ WF_vars(Watcher(u) \/ Terminate(<<"watcher", u>>))
  /\ \A c \in Calls :
       /\ WF_vars(Call(c) \/ Terminate(<<"call", c>>))
       /\ WF_vars(Guard(c) \/ Terminate(<<"guard", c>>))

FairSpec == Spec /\ Fairness
-----------------------------------------------------------------------------
TermStates == {"no", "asked", "unlinking", "signaling", "closing", "ended"}

TypeOK ==
  /\ hpc \in [Sources -> {"new", "holding", "canceling", "leaving", "returned"}]
  /\ gone \subseteq Sources /\ late \subseteq Sources
  /\ inMap \subseteq Sources /\ claimed \subseteq Sources /\ done \subseteq Sources
  /\ once \in [Sources -> {"free", "running", "done"}]
  /\ http1 \subseteq Sources
  /\ closes \in [Sources -> Nat]
  /\ size \in [Sources -> 0..MaxChunks]
  /\ unread \in [Sources -> 0..MaxChunks]
  /\ watch \in [Sources -> {"none", "watching", "canceling", "ended"}]
  /\ term \in [Threads -> TermStates]
  /\ cpc \in [Calls -> {"idle", "clocked", "expiring", "rejected", "copying",
                        "ending", "closing", "served"}]
  /\ source \in [Calls -> Sources \cup {None}]
  /\ goodToken \subseteq Calls /\ sawLate \subseteq Calls
  /\ reading \subseteq Calls /\ copyErr \subseteq Calls /\ left \subseteq Calls
  /\ sent \in [Calls -> 0..MaxChunks]
  /\ guard \in [Calls -> {"none", "guarding", "closing", "ended"}]

(* Handler, watcher, calls and guards all end the same body: it is closed  *)
(* once.                                                                   *)
BodyClosedOnce == \A u \in Sources : closes[u] <= 1

(* A copy that ends without an error has sent the connector the whole      *)
(* body: no two calls share one body, and no body that was closed under a  *)
(* copy looks like its end.                                                *)
CopiedIsWhole ==
  \A c \in Calls :
    cpc[c] \in {"ending", "closing", "served"} /\ c \notin copyErr =>
      sent[c] = size[source[c]]

(* The registry holds nothing of a request whose public handler has        *)
(* returned, claimed or not.                                               *)
ReturnedIsUnlinked == \A u \in Sources : hpc[u] = "returned" => u \notin inMap

(* No connector claims a source that any thread has begun to terminate.    *)
DoomedIsUnavailable ==
  [][\A c \in Calls :
       ClaimAccepted(c) =>
         \A th \in Threads : Subject(th) = source[c] => term[th] = "no"]_vars

(* Every public upload that came in is done with: its handler does not     *)
(* wait for ever in terminate for another thread; its body is closed; and  *)
(* no goroutine outlives the request it was started for, neither the       *)
(* watcher of a source nor the guard of a call.  (This is said of the end  *)
(* of a behaviour: each source and call comes once.)                       *)
UploadsEnd ==
  <>[](/\ \A u \in Sources : hpc[u] \in {"new", "returned"}
       /\ \A u \in Sources : watch[u] # "none" => watch[u] = "ended" /\ closes[u] > 0
       /\ \A c \in Calls : guard[c] \in {"none", "ended"})
-----------------------------------------------------------------------------
(* The parts of the inductive invariant that are not properties above.     *)

(* Calls that were given the body of their source.                         *)
Claimants == {c \in Calls : cpc[c] \in {"copying", "ending", "closing", "served"}}
Working(th) == term[th] \in {"unlinking", "signaling", "closing"}

(* What is in the map is held by its handler; a watcher, or a call that    *)
(* asks for a source, there is only once it was registered.                *)
SourceInv ==
  /\ \A u \in inMap : hpc[u] = "holding"
  /\ \A u \in Sources : hpc[u] = "new" => watch[u] = "none"
  /\ \A c \in Calls :
       IF cpc[c] = "idle" THEN source[c] = None
       ELSE source[c] \in Sources /\ hpc[source[c]] # "new"

(* A source is claimed for one call, and a guard is a claimant's.          *)
ClaimInv ==
  /\ \A c \in Claimants : source[c] \in claimed
  /\ \A c, d \in Claimants : source[c] = source[d] => c = d
  /\ \A c \in Calls : guard[c] # "none" => c \in Claimants

(* Nobody but the claimant takes chunks, and none is lost without an error.*)
CopyInv ==
  /\ \A u \in Sources \ claimed : unread[u] = size[u]
  /\ reading \subseteq {c \in Calls : cpc[c] = "copying"}
  /\ copyErr \subseteq {c \in Claimants : cpc[c] # "copying"}
  /\ \A c \in Calls \ Claimants : sent[c] = 0
  /\ \A c \in Claimants :
       /\ sent[c] + unread[source[c]] <= size[source[c]]
       /\ c \notin copyErr => sent[c] + unread[source[c]] = size[source[c]]
       /\ cpc[c] # "copying" /\ c \notin copyErr => unread[source[c]] = 0

(* A thread that has asked for the end of a source asks for that of a      *)
(* registered one, which is claimed or out of the map.                     *)
TermInv ==
  \A th \in Threads :
    term[th] # "no" =>
      /\ Subject(th) \in Sources
      /\ hpc[Subject(th)] # "new"
      /\ Subject(th) \in inMap => Subject(th) \in claimed

(* One thread at most is at work in a source's sync.Once, and the body is  *)
(* not closed before it is done.                                           *)
OnceInv ==
  /\ \A th \in Threads : Working(th) => once[Subject(th)] = "running"
  /\ \A th, tk \in Threads :
       Working(th) /\ Working(tk) /\ Subject(th) = Subject(tk) => th = tk
  /\ \A u \in Sources : once[u] # "done" => closes[u] = 0

UploadInv ==
  /\ TypeOK /\ SourceInv /\ ClaimInv /\ CopyInv /\ TermInv /\ OnceInv
  /\ BodyClosedOnce
=============================================================================
