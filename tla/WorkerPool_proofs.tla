-------------------------- MODULE WorkerPool_proofs --------------------------
(***************************************************************************)
(* Proofs about WorkerPool, for any tickets and any finite set of workers: *)
(* PoolInv is inductive, and the safety invariants of the pool follow.     *)
(*                                                                         *)
(* A ticket moves from its call to the queue, to one worker, and to the    *)
(* finished ones; QueueInv and PlaceInv say where it can be.  CloseInv     *)
(* says how far the closing has come: each of its stages begins when what  *)
(* it waits for can do nothing any more, so that nothing is ever sent on   *)
(* the closed queue and nothing in it is left behind.                      *)
(***************************************************************************)
EXTENDS WorkerPool, FiniteSetTheorems, SequenceTheorems, TLAPS

(* Room for Cardinality(Workers) jobs is a number.                         *)
LEMMA Room == Cardinality(Workers) \in Nat
BY FS_CardinalityType, PoolAssumption DEF PoolAssumption

(* The initial state: an open pool with nothing in it.                     *)
LEMMA InitInv == Init => PoolInv
<1> SUFFICES ASSUME Init PROVE PoolInv
  OBVIOUS
<1>1. jobs \in Seq(Tickets) /\ Len(jobs) = 0
  BY EmptySeq DEF Init
<1>2. TypeOK
  <2>1. Len(jobs) <= Cardinality(Workers)
    BY <1>1, Room
  <2> QED
    BY <1>1, <2>1 DEF Init, TypeOK
<1>3. QueueInv /\ PlaceInv
  BY <1>1 DEF Init, QueueInv, PlaceInv
<1>4. CloseInv /\ HandledOnce /\ NoSendOnClosed
  BY DEF Init, CloseInv, HandledOnce, NoSendOnClosed
<1> QED
  BY <1>2, <1>3, <1>4 DEF PoolInv

(* What a ticket in the queue is: a ticket.                                *)
LEMMA Queued ==
  ASSUME TypeOK, NEW i \in 1..Len(jobs)
  PROVE  jobs[i] \in Tickets
BY ElementOfSeq DEF TypeOK

(* Handle's locked part and its giving up: the call has no ticket in the   *)
(* queue and leaves the rest alone.                                        *)
LEMMA CallStep ==
  ASSUME PoolInv, NEW t \in Tickets, Enter(t) \/ GiveUp(t)
  PROVE  PoolInv'
<1> USE DEF PoolInv
<1> DEFINE q == hpc'[t]
<1>1. /\ hpc[t] \in {"idle", "enqueuing"}
      /\ q \in {"enqueuing", "refused", "canceled"}
      /\ hpc' = [hpc EXCEPT ![t] = q]
      /\ UNCHANGED <<runVars, poolVars, workVars, crashed>>
  BY DEF Enter, GiveUp, TypeOK
<1>2. q = "enqueuing" => ~jobsClosed
  BY DEF Enter, GiveUp, CloseInv, TypeOK
<1>3. TypeOK'
  BY <1>1 DEF TypeOK, runVars, poolVars, workVars
<1>4. \A u \in Tickets : hpc'[u] = IF u = t THEN q ELSE hpc[u]
  BY <1>1 DEF TypeOK
<1>5. QueueInv'
  BY <1>1, <1>4, Queued DEF QueueInv, poolVars, workVars
<1>6. PlaceInv'
  BY <1>1, <1>4 DEF PlaceInv, poolVars, workVars
<1>7. CloseInv'
  BY <1>1, <1>2, <1>4 DEF CloseInv, runVars, poolVars, workVars
<1>8. HandledOnce' /\ NoSendOnClosed'
  BY <1>1, <1>4 DEF HandledOnce, NoSendOnClosed, workVars, TypeOK
<1> QED
  BY <1>3, <1>5, <1>6, <1>7, <1>8

(* The send: a call that is enqueuing was counted before the pool closed,  *)
(* so the channel is open; the ticket was never in it.                     *)
LEMMA EnqueueStep ==
  ASSUME PoolInv, NEW t \in Tickets, Enqueue(t)
  PROVE  PoolInv'
<1> USE DEF PoolInv
<1>1. /\ hpc[t] = "enqueuing" /\ ~jobsClosed /\ HasRoom
      /\ jobs' = Append(jobs, t)
      /\ hpc' = [hpc EXCEPT ![t] = "accepted"]
      /\ crashed' = FALSE
      /\ UNCHANGED <<runVars, closed, closer, jobsClosed, workVars>>
  BY DEF Enqueue, CloseInv, TypeOK
<1>2. /\ jobs' \in Seq(Tickets)
      /\ Len(jobs) \in Nat
      /\ Len(jobs') = Len(jobs) + 1
      /\ \A i \in 1..Len(jobs) : jobs'[i] = jobs[i]
      /\ jobs'[Len(jobs) + 1] = t
  BY <1>1, AppendProperties, LenProperties DEF TypeOK
<1>3. TypeOK'
  <2>1. Len(jobs') <= Cardinality(Workers)
    BY <1>1, <1>2, Room DEF HasRoom
  <2> QED
    BY <1>1, <1>2, <2>1 DEF TypeOK, runVars, workVars
<1>4. \A u \in Tickets : hpc'[u] = IF u = t THEN "accepted" ELSE hpc[u]
  BY <1>1 DEF TypeOK
<1>5. \A i \in 1..Len(jobs) : jobs[i] \in Tickets /\ jobs[i] # t
  BY <1>1, Queued DEF QueueInv
<1>6. started[t] = 0
  BY <1>1 DEF HandledOnce, TypeOK
<1>7. QueueInv'
  <2>1. \A i \in 1..Len(jobs') : i \in 1..Len(jobs) \/ i = Len(jobs) + 1
    BY <1>2
  <2>2. \A i \in 1..Len(jobs') : hpc'[jobs'[i]] = "accepted" /\ started'[jobs'[i]] = 0
    BY <2>1, <1>1, <1>2, <1>4, <1>5, <1>6 DEF QueueInv, workVars
  <2>3. \A i, j \in 1..Len(jobs') : jobs'[i] = jobs'[j] => i = j
    BY <2>1, <1>2, <1>5 DEF QueueInv
  <2> QED
    BY <2>2, <2>3 DEF QueueInv
<1>8. PlaceInv'
  <2> SUFFICES ASSUME NEW u \in Tickets, hpc'[u] = "accepted"
               PROVE  \/ \E i \in 1..Len(jobs') : jobs'[i] = u
                      \/ \E w \in Workers : busy'[w] = u
                      \/ u \in finished'
    BY DEF PlaceInv
  <2>1. CASE u = t
    <3>1. Len(jobs) + 1 \in 1..Len(jobs')
      BY <1>2
    <3> QED
      BY <2>1, <3>1, <1>2
  <2>2. CASE u # t
    <3>1. CASE \E i \in 1..Len(jobs) : jobs[i] = u
      <4>1. \A i \in 1..Len(jobs) : i \in 1..Len(jobs')
        BY <1>2
      <4> QED
        BY <3>1, <4>1, <1>2
    <3>2. CASE ~ \E i \in 1..Len(jobs) : jobs[i] = u
      BY <2>2, <3>2, <1>1, <1>4 DEF PlaceInv, workVars
    <3> QED
      BY <3>1, <3>2
  <2> QED
    BY <2>1, <2>2
<1>9. CloseInv'
  BY <1>1, <1>4 DEF CloseInv, runVars, workVars
<1>10. HandledOnce' /\ NoSendOnClosed'
  BY <1>1, <1>4, <1>6 DEF HandledOnce, NoSendOnClosed, workVars, TypeOK
<1> QED
  BY <1>3, <1>7, <1>8, <1>9, <1>10

(* A worker takes the first job, which no worker has had before.           *)
LEMMA TakeStep ==
  ASSUME PoolInv, NEW w \in Workers, Take(w)
  PROVE  PoolInv'
<1> USE DEF PoolInv
<1> DEFINE t == Head(jobs)
<1>1. /\ w \notin exited /\ busy[w] = None /\ jobs # <<>>
      /\ busy' = [busy EXCEPT ![w] = t]
      /\ jobs' = Tail(jobs)
      /\ started' = [started EXCEPT ![t] = @ + 1]
      /\ UNCHANGED <<runVars, closed, closer, jobsClosed, hpc, exited, finished, crashed>>
  BY DEF Take
<1>2. /\ t \in Tickets /\ t = jobs[1]
      /\ Len(jobs) \in Nat \ {0}
      /\ jobs' \in Seq(Tickets)
      /\ Len(jobs') = Len(jobs) - 1
      /\ \A i \in 1..Len(jobs') : jobs'[i] = jobs[i + 1]
  BY <1>1, HeadTailProperties, EmptySeq DEF TypeOK
<1>3. 1 \in 1..Len(jobs) /\ \A i \in 1..Len(jobs') : i + 1 \in 1..Len(jobs) /\ i + 1 # 1
  BY <1>2
<1>4. hpc[t] = "accepted" /\ started[t] = 0 /\ \A i \in 1..Len(jobs') : jobs'[i] # t
  BY <1>2, <1>3 DEF QueueInv
<1>5. TypeOK'
  BY <1>1, <1>2, Room DEF TypeOK, runVars
<1>6. \A u \in Tickets : started'[u] = IF u = t THEN 1 ELSE started[u]
  BY <1>1, <1>4 DEF TypeOK
<1>7. QueueInv'
  <2>1. \A i \in 1..Len(jobs') : jobs'[i] \in Tickets
    BY <1>2, <1>3, Queued
  <2> QED
    BY <2>1, <1>1, <1>2, <1>3, <1>4, <1>6 DEF QueueInv
<1>8. PlaceInv'
  <2> SUFFICES ASSUME NEW u \in Tickets, hpc[u] = "accepted"
               PROVE  \/ \E i \in 1..Len(jobs') : jobs'[i] = u
                      \/ \E v \in Workers : busy'[v] = u
                      \/ u \in finished'
    BY <1>1 DEF PlaceInv
  <2>1. busy'[w] = t /\ \A v \in Workers : v # w => busy'[v] = busy[v]
    BY <1>1 DEF TypeOK
  <2>2. CASE \E i \in 1..Len(jobs) : jobs[i] = u
    <3>1. PICK i \in 1..Len(jobs) : jobs[i] = u
      BY <2>2
    <3>2. CASE i = 1
      BY <3>1, <3>2, <2>1, <1>2
    <3>3. CASE i # 1
      <4>1. i - 1 \in 1..Len(jobs') /\ (i - 1) + 1 = i
        BY <3>3, <1>2
      <4> QED
        BY <3>1, <4>1, <1>2
    <3> QED
      BY <3>2, <3>3
  <2>3. CASE \E v \in Workers : busy[v] = u
    BY <2>1, <2>3, <1>1, PoolAssumption DEF PoolAssumption
  <2>4. CASE u \in finished
    BY <2>4, <1>1
  <2> QED
    BY <2>2, <2>3, <2>4 DEF PlaceInv
<1>9. CloseInv'
  BY <1>1 DEF CloseInv, TypeOK, runVars
<1>10. HandledOnce' /\ NoSendOnClosed'
  BY <1>1, <1>4, <1>6 DEF HandledOnce, NoSendOnClosed
<1> QED
  BY <1>5, <1>7, <1>8, <1>9, <1>10

(* A worker is done with its ticket.                                       *)
LEMMA FinishStep ==
  ASSUME PoolInv, NEW w \in Workers, Finish(w)
  PROVE  PoolInv'
<1> USE DEF PoolInv, poolVars, runVars
<1>1. /\ busy[w] # None
      /\ busy' = [busy EXCEPT ![w] = None]
      /\ finished' = finished \cup {busy[w]}
      /\ UNCHANGED <<runVars, poolVars, hpc, exited, started, crashed>>
  BY DEF Finish
<1>2. busy'[w] = None /\ \A v \in Workers : v # w => busy'[v] = busy[v]
  BY <1>1 DEF TypeOK
<1>3. TypeOK'
  BY <1>1 DEF TypeOK
<1>4. QueueInv' /\ HandledOnce' /\ NoSendOnClosed'
  BY <1>1 DEF QueueInv, HandledOnce, NoSendOnClosed
<1>5. PlaceInv'
  BY <1>1, <1>2 DEF PlaceInv
<1>6. CloseInv'
  BY <1>1, <1>2 DEF CloseInv, TypeOK
<1> QED
  BY <1>3, <1>4, <1>5, <1>6

(* A worker leaves its loop: the channel is closed and empty.              *)
LEMMA ExitStep ==
  ASSUME PoolInv, NEW w \in Workers, Exit(w)
  PROVE  PoolInv'
<1> USE DEF PoolInv, Exit, RangeOver, poolVars, runVars
<1>1. TypeOK'
  BY DEF TypeOK
<1>2. QueueInv' /\ PlaceInv' /\ HandledOnce' /\ NoSendOnClosed'
  BY DEF QueueInv, PlaceInv, HandledOnce, NoSendOnClosed
<1>3. CloseInv'
  BY DEF CloseInv, TypeOK
<1> QED
  BY <1>1, <1>2, <1>3

(* The steps that only move run and the closing goroutine forward.         *)
LEMMA CloseStep ==
  ASSUME PoolInv, CloserStep \/ Run \/ Stop
  PROVE  PoolInv'
<1> USE DEF PoolInv, poolVars, runVars, workVars
<1>1. UNCHANGED <<jobs, hpc, workVars, crashed>>
  BY DEF CloserStep, CloseJobs, WorkersDone, Run, Subscribe, DrainSubscription,
         ClosePool, WaitReturns, Stop
<1>2. QueueInv' /\ PlaceInv' /\ HandledOnce' /\ NoSendOnClosed'
  BY <1>1 DEF QueueInv, PlaceInv, HandledOnce, NoSendOnClosed
<1>3. TypeOK' /\ CloseInv'
  <2>1. CASE CloseJobs
    BY <2>1 DEF CloseJobs, Enqueuing, TypeOK, CloseInv
  <2>2. CASE WorkersDone
    BY <2>2 DEF WorkersDone, AllExited, TypeOK, CloseInv
  <2>3. CASE ClosePool
    BY <2>3 DEF ClosePool, TypeOK, CloseInv
  <2>4. CASE WaitReturns
    BY <2>4 DEF WaitReturns, TypeOK, CloseInv
  <2>5. CASE Subscribe \/ DrainSubscription
    BY <2>5 DEF Subscribe, DrainSubscription, TypeOK, CloseInv
  <2>6. CASE Stop
    BY <2>6 DEF Stop, TypeOK, CloseInv
  <2> QED
    BY <2>1, <2>2, <2>3, <2>4, <2>5, <2>6 DEF CloserStep, Run
<1> QED
  BY <1>2, <1>3

(* One step of the pool, of its callers or of run, or a stutter.           *)
LEMMA NextStep == PoolInv /\ [Next]_vars => PoolInv'
<1> SUFFICES ASSUME PoolInv, [Next]_vars PROVE PoolInv'
  OBVIOUS
<1>1. ASSUME NEW t \in Tickets, Handle(t) PROVE PoolInv'
  BY <1>1, CallStep, EnqueueStep DEF Handle
<1>2. ASSUME NEW w \in Workers, Work(w) PROVE PoolInv'
  BY <1>2, TakeStep, FinishStep, ExitStep DEF Work
<1>3. CASE CloserStep \/ Run \/ Stop
  BY <1>3, CloseStep
<1>4. CASE UNCHANGED vars
  BY <1>4 DEF PoolInv, vars, poolVars, runVars, workVars, TypeOK, QueueInv,
              PlaceInv, CloseInv, HandledOnce, NoSendOnClosed
<1> QED
  BY <1>1, <1>2, <1>3, <1>4 DEF Next

(* The inductive invariant of the pool.                                    *)
THEOREM PoolInductive == Spec => []PoolInv
BY InitInv, NextStep, PTL DEF Spec

(* jobs never holds more tickets than there are workers, and the variables *)
(* of the pool keep their types.                                           *)
THEOREM PoolTypeCorrect == Spec => []TypeOK
<1>1. PoolInv => TypeOK
  BY DEF PoolInv
<1> QED
  BY <1>1, PoolInductive, PTL

(* Handle never sends on the channel that CloseAndWait closes: it would    *)
(* panic and take the connector down.                                      *)
THEOREM NeverSendsOnClosed == Spec => []NoSendOnClosed
<1>1. PoolInv => NoSendOnClosed
  BY DEF PoolInv
<1> QED
  BY <1>1, PoolInductive, PTL

(* What Handle tells its caller is true: accepted tickets are given to one *)
(* worker at most, refused ones to none.                                   *)
THEOREM HandlesOnce == Spec => []HandledOnce
<1>1. PoolInv => HandledOnce
  BY DEF PoolInv
<1> QED
  BY <1>1, PoolInductive, PTL

(* When CloseAndWait returns nil the workers are gone, so the queue is     *)
(* empty, and what was accepted is finished, having no other place to be.  *)
THEOREM DrainsQuietly == Spec => []DrainedIsQuiet
<1>1. PoolInv => DrainedIsQuiet
  <2> SUFFICES ASSUME PoolInv, drained = "ok"
               PROVE  /\ \A w \in Workers : busy[w] = None
                      /\ \A t \in Tickets :
                           hpc[t] # "enqueuing" /\ (hpc[t] = "accepted" => t \in finished)
    BY DEF DrainedIsQuiet
  <2>1. exited = Workers /\ jobsClosed
    BY DEF PoolInv, CloseInv
  <2>2. jobs = <<>> /\ \A w \in Workers : busy[w] = None
    BY <2>1, PoolAssumption DEF PoolAssumption, PoolInv, CloseInv
  <2>3. \A t \in Tickets : hpc[t] # "enqueuing"
    BY <2>1 DEF PoolInv, CloseInv
  <2>4. \A i \in 1..Len(jobs) : FALSE
    BY <2>2, EmptySeq
  <2>5. \A t \in Tickets : hpc[t] = "accepted" => t \in finished
    BY <2>2, <2>4, PoolAssumption DEF PoolAssumption, PoolInv, PlaceInv
  <2> QED
    BY <2>2, <2>3, <2>5
<1> QED
  BY <1>1, PoolInductive, PTL
=============================================================================
