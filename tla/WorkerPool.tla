----------------------------- MODULE WorkerPool -----------------------------
(***************************************************************************)
(* The ticket worker pool of the private connector (ticketWorkerPool in    *)
(* cmd/private-connector/main.go) and the part of run that starts, feeds   *)
(* and closes it.  The NATS subscription calls Handle, which queues the    *)
(* ticket for the workers or gives up; at the end run closes the pool and  *)
(* waits for it, with a timeout, before it tears down what workers use.    *)
(*                                                                         *)
(* NATS calls Handle from one goroutine; the pool does not rely on that    *)
(* and neither does the model, where every ticket has its own call.        *)
(***************************************************************************)
EXTENDS Naturals, Sequences, FiniteSets

CONSTANTS
  Tickets,     \* tickets NATS delivers, one Handle call each
  Workers,     \* the worker goroutines; the queue has room for as many jobs
  None         \* no ticket

ASSUME PoolAssumption ==
  /\ None \notin Tickets
  /\ IsFiniteSet(Workers)
  /\ Workers # {}

VARIABLES
  stopping,    \* run's context is done (SIGTERM); tickets carry it
  main,        \* where run is
  drained,     \* what CloseAndWait told run: "none", "ok" or "timeout"
  closed,      \* pool.closed, and pool.closing with it
  closer,      \* where the goroutine of CloseAndWait is
  jobs,        \* the channel of queued tickets
  jobsClosed,  \* it is closed
  hpc,         \* where each Handle call is
  busy,        \* the ticket each worker is handling, or None
  exited,      \* workers that have left their loop
  started,     \* how often each ticket was given to a worker
  finished,    \* tickets whose handling is over
  crashed      \* a send on the closed channel, which panics

poolVars == <<closed, closer, jobs, jobsClosed>>
runVars == <<stopping, main, drained>>
workVars == <<busy, exited, started, finished>>
vars == <<runVars, poolVars, hpc, workVars, crashed>>

Init ==
  /\ stopping = FALSE
  /\ main = "subscribing"
  /\ drained = "none"
  /\ closed = FALSE
  /\ closer = "none"
  /\ jobs = <<>>
  /\ jobsClosed = FALSE
  /\ hpc = [t \in Tickets |-> "idle"]
  /\ busy = [w \in Workers |-> None]
  /\ exited = {}
  /\ started = [t \in Tickets |-> 0]
  /\ finished = {}
  /\ crashed = FALSE
-----------------------------------------------------------------------------
(* Handle, the locked part: a closed pool refuses, an open one counts the  *)
(* call (enqueueWG.Add) before it can be closed.                           *)
Enter(t) ==
  /\ hpc[t] = "idle"
  /\ hpc' = [hpc EXCEPT ![t] = IF closed THEN "refused" ELSE "enqueuing"]
  /\ UNCHANGED <<runVars, poolVars, workVars, crashed>>

(* The calls that enqueueWG counts.                                        *)
SlipEnqueuing == {}
SlipCounted == {t \in Tickets : hpc[t] \in {"enqueuing", "refused"}}
Enqueuing == {t \in Tickets : hpc[t] = "enqueuing"}

HasRoom == Len(jobs) < Cardinality(Workers)

(* The three cases of the select; of those that are ready any is taken.    *)
(* Sending is ready when there is room, and panics on a closed channel.    *)
SlipEnqueue(t) ==
  /\ hpc[t] = "enqueuing"
  /\ HasRoom
  /\ jobs' = Append(jobs, t)
  /\ hpc' = [hpc EXCEPT ![t] = IF stopping THEN "canceled" ELSE "accepted"]
  /\ UNCHANGED <<runVars, closed, closer, jobsClosed, workVars, crashed>>

Enqueue(t) ==
  /\ hpc[t] = "enqueuing"
  /\ jobsClosed \/ HasRoom
  /\ jobs' = Append(jobs, t)
  /\ hpc' = [hpc EXCEPT ![t] = "accepted"]
  /\ crashed' = jobsClosed
  /\ UNCHANGED <<runVars, closed, closer, jobsClosed, workVars>>

GiveUp(t) ==
  /\ hpc[t] = "enqueuing"
  /\ \/ stopping /\ hpc' = [hpc EXCEPT ![t] = "canceled"]
     \/ closed /\ hpc' = [hpc EXCEPT ![t] = "refused"]
  /\ UNCHANGED <<runVars, poolVars, workVars, crashed>>
-----------------------------------------------------------------------------
(* A worker: range over the channel, which goes on until the channel is    *)
(* both closed and empty.                                                  *)
Take(w) ==
  /\ w \notin exited /\ busy[w] = None
  /\ jobs # <<>>
  /\ busy' = [busy EXCEPT ![w] = Head(jobs)]
  /\ jobs' = Tail(jobs)
  /\ started' = [started EXCEPT ![Head(jobs)] = @ + 1]
  /\ UNCHANGED <<runVars, closed, closer, jobsClosed, hpc, exited, finished, crashed>>

(* handle returns; an error of it is reported and dropped.                 *)
Finish(w) ==
  /\ busy[w] # None
  /\ busy' = [busy EXCEPT ![w] = None]
  /\ finished' = finished \cup {busy[w]}
  /\ UNCHANGED <<runVars, poolVars, hpc, exited, started, crashed>>

SlipRangeOver == closed
RangeOver == jobsClosed /\ jobs = <<>>

Exit(w) ==
  /\ w \notin exited /\ busy[w] = None
  /\ RangeOver
  /\ exited' = exited \cup {w}
  /\ UNCHANGED <<runVars, poolVars, hpc, busy, started, finished, crashed>>
-----------------------------------------------------------------------------
(* run: it closes the pool when its context is done and the subscription   *)
(* was drained, or at once when it could not subscribe.                    *)
Subscribe ==
  /\ main = "subscribing"
  /\ main' \in {"serving", "closing"}
  /\ UNCHANGED <<stopping, drained, poolVars, hpc, workVars, crashed>>

Stop ==
  /\ ~stopping
  /\ stopping' = TRUE
  /\ UNCHANGED <<main, drained, poolVars, hpc, workVars, crashed>>

(* sub.Drain returns before the messages it had are delivered: calls of    *)
(* Handle may come at any time after it.                                   *)
DrainSubscription ==
  /\ main = "serving"
  /\ stopping
  /\ main' = "closing"
  /\ UNCHANGED <<stopping, drained, poolVars, hpc, workVars, crashed>>

(* CloseAndWait: under the lock, then the goroutine that it starts.        *)
ClosePool ==
  /\ main = "closing"
  /\ main' = "waiting"
  /\ closed' = TRUE
  /\ closer' = "enqueueing"
  /\ UNCHANGED <<stopping, drained, jobs, jobsClosed, hpc, workVars, crashed>>

CloseJobs ==
  /\ closer = "enqueueing"
  /\ Enqueuing = {}
  /\ jobsClosed' = TRUE
  /\ closer' = "working"
  /\ UNCHANGED <<runVars, closed, jobs, hpc, workVars, crashed>>

SlipAllExited == \A w \in Workers : busy[w] = None
AllExited == exited = Workers

WorkersDone ==
  /\ closer = "working"
  /\ AllExited
  /\ closer' = "done"
  /\ UNCHANGED <<runVars, closed, jobs, jobsClosed, hpc, workVars, crashed>>

(* The caller waits for the goroutine or for its own timeout.              *)
WaitReturns ==
  /\ main = "waiting"
  /\ \/ closer = "done" /\ drained' = "ok"
     \/ drained' = "timeout"
  /\ main' = "teardown"
  /\ UNCHANGED <<stopping, poolVars, hpc, workVars, crashed>>
-----------------------------------------------------------------------------
Handle(t) == Enter(t) \/ Enqueue(t) \/ GiveUp(t)
Work(w) == Take(w) \/ Finish(w) \/ Exit(w)
CloserStep == CloseJobs \/ WorkersDone
Run == Subscribe \/ DrainSubscription \/ ClosePool \/ WaitReturns

Next ==
  \/ \E t \in Tickets : Handle(t)
  \/ \E w \in Workers : Work(w)
  \/ CloserStep
  \/ Run
  \/ Stop

Spec == Init /\ [][Next]_vars

(* Goroutines go on; the handling of a ticket ends by its deadline, and a  *)
(* Handle call that was made goes on.  Nobody has to stop the connector.   *)
Fairness ==
  /\ \A t \in Tickets : WF_vars(hpc[t] # "idle" /\ Handle(t))
  /\ \A w \in Workers : WF_vars(Work(w))
  /\ WF_vars(CloserStep)
  /\ WF_vars(Run)

FairSpec == Spec /\ Fairness
-----------------------------------------------------------------------------
TypeOK ==
  /\ stopping \in BOOLEAN
  /\ main \in {"subscribing", "serving", "closing", "waiting", "teardown"}
  /\ drained \in {"none", "ok", "timeout"}
  /\ closed \in BOOLEAN
  /\ closer \in {"none", "enqueueing", "working", "done"}
  /\ jobs \in Seq(Tickets)
  /\ Len(jobs) <= Cardinality(Workers)
  /\ jobsClosed \in BOOLEAN
  /\ hpc \in [Tickets -> {"idle", "enqueuing", "accepted", "canceled", "refused"}]
  /\ busy \in [Workers -> Tickets \cup {None}]
  /\ exited \subseteq Workers
  /\ started \in [Tickets -> Nat]
  /\ finished \subseteq Tickets
  /\ crashed \in BOOLEAN

(* jobs is closed while calls of Handle may still be under way: none of    *)
(* them ever sends on it then, which would take the connector down.        *)
NoSendOnClosed == ~crashed

(* A ticket that Handle accepted is given to one worker, once; one that it *)
(* refused is given to none, so its error can be trusted.                  *)
HandledOnce ==
  \A t \in Tickets : started[t] <= IF hpc[t] = "accepted" THEN 1 ELSE 0

(* When CloseAndWait has returned without a timeout, run may tear down     *)
(* what the workers use: none of them is at work, all that was accepted    *)
(* has been handled, and nothing more is ever accepted.                    *)
DrainedIsQuiet ==
  drained = "ok" =>
    /\ \A w \in Workers : busy[w] = None
    /\ \A t \in Tickets : hpc[t] # "enqueuing" /\ (hpc[t] = "accepted" => t \in finished)

(* A ticket that was accepted is handled, though the pool be closed with   *)
(* the ticket still in the queue.  (Each ticket comes once, so that these  *)
(* three are said of the end of a behaviour.)                              *)
AcceptedIsHandled ==
  <>[](\A t \in Tickets : hpc[t] = "accepted" => t \in finished)

(* A call of Handle returns, because the queue has room or it gives up,    *)
(* and a pool that is closed comes to its end: the callers, the workers    *)
(* and the goroutine that waits for both do not wait for each other.       *)
HandleAndCloseReturn ==
  <>[]((\A t \in Tickets : hpc[t] # "enqueuing") /\ (closed => closer = "done"))
-----------------------------------------------------------------------------
(* The parts of the inductive invariant that are not properties above.     *)

(* The queue holds accepted tickets that no worker has had, each once.     *)
QueueInv ==
  /\ \A i \in 1..Len(jobs) : hpc[jobs[i]] = "accepted" /\ started[jobs[i]] = 0
  /\ \A i, j \in 1..Len(jobs) : jobs[i] = jobs[j] => i = j

(* A ticket that was accepted is in the queue, with a worker, or finished. *)
PlaceInv ==
  \A t \in Tickets : hpc[t] = "accepted" =>
    \/ \E i \in 1..Len(jobs) : jobs[i] = t
    \/ \E w \in Workers : busy[w] = t
    \/ t \in finished

(* How far the pool has come in closing: no stage begins before the one it *)
(* waits for is over.                                                      *)
CloseInv ==
  /\ main \in {"waiting", "teardown"} <=> closed
  /\ closed <=> closer # "none"
  /\ jobsClosed <=> closer \in {"working", "done"}
  /\ jobsClosed => \A t \in Tickets : hpc[t] # "enqueuing"
  /\ \A w \in exited : jobsClosed /\ jobs = <<>> /\ busy[w] = None
  /\ closer = "done" => exited = Workers
  /\ drained = "ok" => closer = "done"

PoolInv ==
  /\ TypeOK
  /\ QueueInv
  /\ PlaceInv
  /\ CloseInv
  /\ HandledOnce
  /\ NoSendOnClosed
=============================================================================
