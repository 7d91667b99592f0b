------------------------- MODULE SessionPool_proofs --------------------------
(***************************************************************************)
(* Proofs about SessionPool, for both senders, any number of slots, sends, *)
(* sessions and faults: PoolInv is inductive, and the safety of Close and  *)
(* of the slots follows.                                                   *)
(*                                                                         *)
(* The argument is about locks: who is at work on a slot holds its lock    *)
(* (LockInv), so the session that a dial replaces is still the one that    *)
(* was found dead (DialInv), and so no open session is ever dropped from   *)
(* its slot.  Close leaves each slot empty, and with closed set before, no *)
(* send takes a lock again (CloseInv).                                     *)
(***************************************************************************)
EXTENDS SessionPool, TLAPS

(* The initial state: empty slots, nothing locked.                         *)
LEMMA InitInv == Init => PoolInv
<1> SUFFICES ASSUME Init PROVE PoolInv
  OBVIOUS
<1>1. TypeOK
  <2>1. 0 \in Slots /\ 0 \in 0..NumSlots /\ 0 \in 0..MaxDials /\ 0 \in 0..MaxFaults /\ 0 \in 0..0
    BY SessionAssumption DEF SessionAssumption, Slots
  <2> QED
    BY <2>1 DEF Init, TypeOK, NoSession
<1>2. LockInv
  <2>1. \A c \in Sends : pc[c] \notin Critical /\ slot[c] \in Slots
    BY SessionAssumption DEF SessionAssumption, Init, Critical, Slots
  <2>2. \A i \in Slots : holder[i] = None
    BY DEF Init
  <2> QED
    BY <2>1, <2>2, SessionAssumption DEF SessionAssumption, LockInv
<1>3. DialInv /\ CloseInv /\ NoOrphans
  BY SessionAssumption DEF SessionAssumption, Init, DialInv, CloseInv, NoOrphans, Slots
<1> QED
  BY <1>1, <1>2, <1>3 DEF PoolInv

(* No session is the session of an empty slot.                             *)
LEMMA NoneOpen == PoolInv => NoSession \notin open
BY SessionAssumption DEF SessionAssumption, PoolInv, TypeOK, NoSession

(* A send that is not at work on its slot holds no lock.                   *)
LEMMA HoldsNothing ==
  ASSUME PoolInv, NEW c \in Sends, pc[c] \notin Critical, NEW i \in Slots
  PROVE  holder[i] # c
BY SessionAssumption DEF SessionAssumption, PoolInv, LockInv

(* A send that is at work on its slot is the one that holds the lock, and  *)
(* Close has not come to this slot.                                        *)
LEMMA AtWork ==
  ASSUME PoolInv, NEW c \in Sends, pc[c] \in Critical
  PROVE  /\ slot[c] \in Slots
         /\ holder[slot[c]] = c
         /\ ~(slot[c] < closing)
         /\ \A b \in Sends : pc[b] \in Critical /\ slot[b] = slot[c] => b = c
BY SessionAssumption DEF SessionAssumption, PoolInv, TypeOK, LockInv, CloseInv

(* Steps of a send outside the lock: nothing changes but where it is.      *)
LEMMA OutsideStep ==
  ASSUME PoolInv, NEW c \in Sends,
         Begin(c) \/ QuicBeginFails(c) \/ SmuxEnterFails(c) \/ LockFails(c) \/ StreamEnds(c)
  PROVE  PoolInv'
<1> USE DEF PoolInv
<1>1. /\ UNCHANGED <<closeVars, session, holder, netVars, attempt, stream, ctxDone, quic>>
      /\ pc[c] \in {"idle", "entering", "sending"}
      /\ \E p \in {"entering", "resetting"} \cup Over : pc' = [pc EXCEPT ![c] = p]
      /\ next' \in Slots
      /\ slot' \in [Sends -> Slots]
      /\ \A b \in Sends \ {c} : slot'[b] = slot[b]
  <2>1. NextSlot \in Slots
    BY SessionAssumption DEF SessionAssumption, NextSlot, Slots, TypeOK
  <2>2. CASE Begin(c)
    BY <2>1, <2>2 DEF Begin, Goes, Over, TypeOK
  <2>3. CASE QuicBeginFails(c) \/ StreamEnds(c)
    BY <2>3 DEF QuicBeginFails, StreamEnds, Goes, Over, TypeOK
  <2>4. CASE SmuxEnterFails(c) \/ LockFails(c)
    BY <2>4 DEF SmuxEnterFails, LockFails, Goes, AfterError, Over, TypeOK
  <2> QED
    BY <2>2, <2>3, <2>4
<1>2. pc[c] \notin Critical /\ pc'[c] \notin Critical /\ \A b \in Sends \ {c} : pc'[b] = pc[b]
  BY <1>1 DEF Critical, Over, TypeOK
<1>3. TypeOK'
  BY <1>1 DEF TypeOK, Over, closeVars, netVars
<1>4. LockInv'
  BY <1>1, <1>2, <1>3, HoldsNothing DEF LockInv, TypeOK
<1>5. DialInv'
  BY <1>1, <1>2 DEF DialInv, Critical, netVars
<1>6. CloseInv' /\ NoOrphans'
  BY <1>1 DEF CloseInv, NoOrphans, closeVars, netVars
<1> QED
  BY <1>3, <1>4, <1>5, <1>6

(* The lock is taken when it is free, and not after closed was set.        *)
LEMMA LockStep ==
  ASSUME PoolInv, NEW c \in Sends, Lock(c)
  PROVE  PoolInv'
<1> USE DEF PoolInv
<1> DEFINE i == slot[c]
<1>1. /\ ~closed /\ i \in Slots /\ holder[i] = None /\ pc[c] = "entering"
      /\ holder' = [holder EXCEPT ![i] = c]
      /\ pc' = [pc EXCEPT ![c] = IF session[i] \in open THEN "opening" ELSE "dialling"]
      /\ UNCHANGED <<closeVars, next, session, netVars, slot, attempt, stream, ctxDone, quic>>
  BY DEF Lock, Locks, Goes, Doomed, TypeOK
<1>2. TypeOK'
  BY <1>1 DEF TypeOK, closeVars, netVars
<1>3. LockInv'
  BY <1>1, HoldsNothing, SessionAssumption DEF SessionAssumption, LockInv, Critical, TypeOK
<1>4. DialInv'
  BY <1>1 DEF DialInv, TypeOK, netVars
<1>5. CloseInv' /\ NoOrphans'
  BY <1>1 DEF CloseInv, NoOrphans, TypeOK, Slots, closeVars, netVars
<1> QED
  BY <1>2, <1>3, <1>4, <1>5

(* What leaves the critical section shares: the lock is released, and if a *)
(* session is gone from the slot it was not open.                          *)
LEMMA UnlockStep ==
  ASSUME PoolInv, NEW c \in Sends, pc[c] \in Critical, Unlocks(c),
         NEW p \in {"resetting", "unopened", "sending"}, pc' = [pc EXCEPT ![c] = p],
         UNCHANGED <<closeVars, next, slot, attempt, ctxDone, faults, dials, quic>>,
         dialFailed' \in BOOLEAN,
         stream' \in [Sends -> 0..dials],
         \/ UNCHANGED <<session, open>>
         \/ UNCHANGED open /\ session[slot[c]] \notin open
              /\ session' = [session EXCEPT ![slot[c]] = NoSession]
         \/ ClosesSlot(slot[c])
  PROVE  PoolInv'
<1> USE DEF PoolInv
<1> DEFINE i == slot[c]
<1>1. i \in Slots /\ holder' = [holder EXCEPT ![i] = None] /\ open' \subseteq open
  BY DEF Unlocks, TypeOK, ClosesSlot
<1>2. TypeOK'
  <2>1. session' \in [Slots -> 0..dials]
    <3>1. NoSession \in 0..dials
      BY SessionAssumption DEF SessionAssumption, TypeOK, NoSession
    <3> QED
      BY <1>1, <3>1 DEF TypeOK, ClosesSlot
  <2>2. holder' \in [Slots -> Sends \cup {None}]
    BY <1>1 DEF TypeOK
  <2>3. pc' \in [Sends -> {"idle", "entering", "dialling", "dialled", "opening",
                           "resetting", "sending"} \cup Over]
    BY DEF TypeOK, Over
  <2> QED
    BY <1>1, <2>1, <2>2, <2>3 DEF TypeOK, closeVars
<1>3. LockInv'
  <2>1. /\ slot' = slot /\ slot \in [Sends -> Slots]
        /\ holder \in [Slots -> Sends \cup {None}] /\ None \notin Sends
        /\ holder[i] = c
    BY AtWork, SessionAssumption DEF SessionAssumption, LockInv, TypeOK
  <2>2. pc'[c] \notin Critical /\ \A b \in Sends \ {c} : pc'[b] = pc[b]
    BY DEF Critical, TypeOK
  <2>3. holder'[i] = None /\ \A j \in Slots \ {i} : holder'[j] = holder[j]
    BY <1>1, <2>1
  <2>4. ASSUME NEW b \in Sends PROVE pc'[b] \in Critical <=> holder'[slot[b]] = b
    <3>1. CASE b = c
      BY <2>1, <2>2, <2>3, <3>1
    <3>2. CASE b # c
      <4>1. pc[b] \in Critical <=> holder[slot[b]] = b
        BY DEF LockInv
      <4>2. CASE slot[b] = i
        BY <2>1, <2>2, <2>3, <3>2, <4>1, <4>2
      <4>3. CASE slot[b] # i
        BY <2>1, <2>2, <2>3, <3>2, <4>1, <4>3
      <4> QED
        BY <4>2, <4>3
    <3> QED
      BY <3>1, <3>2
  <2>5. ASSUME NEW j \in Slots, holder'[j] # None PROVE slot[holder'[j]] = j
    <3>1. holder'[j] = holder[j]
      BY <2>3, <2>5
    <3> QED
      BY <2>5, <3>1 DEF LockInv
  <2> QED
    BY <2>1, <2>4, <2>5 DEF LockInv, Critical
<1>4. \A j \in Slots : session'[j] = session[j] \/ (j = i /\ session'[j] = NoSession)
  BY <1>1 DEF ClosesSlot, TypeOK
<1>5. NoSession \notin open
  BY NoneOpen
<1>6. DialInv'
  <2>1. ASSUME NEW b \in Sends, pc'[b] = "dialling" PROVE session'[slot'[b]] \notin open'
    <3>1. pc[b] = "dialling" /\ slot' = slot /\ slot[b] \in Slots
      BY <2>1 DEF TypeOK
    <3>2. session[slot[b]] \notin open
      BY <3>1 DEF DialInv
    <3> QED
      BY <1>1, <1>4, <1>5, <3>1, <3>2
  <2> QED
    BY <2>1 DEF DialInv
<1>7. CloseInv'
  BY <1>1, <1>4, <1>5 DEF CloseInv, TypeOK, closeVars
<1>8. NoOrphans'
  BY <1>1, <1>4 DEF NoOrphans, ClosesSlot, TypeOK
<1> QED
  BY <1>2, <1>3, <1>6, <1>7, <1>8

(* The ways out of the critical section, each of them an UnlockStep.       *)
LEMMA LeaveStep ==
  ASSUME PoolInv, NEW c \in Sends,
         DialFails(c) \/ OpenStream(c) \/ OpenFails(c) \/ (SmuxDialled(c) /\ closed)
  PROVE  PoolInv'
<1> USE DEF PoolInv, Goes, AfterError, Critical
<1>1. CASE DialFails(c)
  <2>1. session[slot[c]] \notin open
    BY <1>1 DEF DialFails, DialInv
  <2>2. stream' \in [Sends -> 0..dials]
    BY <1>1 DEF DialFails, TypeOK
  <2>3. PICK p \in {"resetting", "unopened", "sending"} : pc' = [pc EXCEPT ![c] = p]
    BY <1>1 DEF DialFails
  <2> QED
    BY <1>1, <2>1, <2>2, <2>3, UnlockStep DEF DialFails
<1>2. CASE OpenStream(c)
  <2>1. session[slot[c]] \in 0..dials
    BY <1>2 DEF OpenStream, TypeOK
  <2>2. stream' \in [Sends -> 0..dials] /\ dialFailed' \in BOOLEAN
    BY <1>2, <2>1 DEF OpenStream, TypeOK, netVars
  <2> QED
    BY <1>2, <2>2, UnlockStep DEF OpenStream, netVars
<1>3. CASE OpenFails(c)
  <2>1. stream' \in [Sends -> 0..dials] /\ dialFailed' \in BOOLEAN
    BY <1>3 DEF OpenFails, TypeOK, netVars
  <2>2. PICK p \in {"resetting", "unopened", "sending"} : pc' = [pc EXCEPT ![c] = p]
    BY <1>3 DEF OpenFails
  <2> QED
    BY <1>3, <2>1, <2>2, UnlockStep DEF OpenFails, netVars
<1>4. CASE SmuxDialled(c) /\ closed
  <2>1. stream' \in [Sends -> 0..dials] /\ dialFailed' \in BOOLEAN
    BY <1>4 DEF SmuxDialled, TypeOK
  <2>2. PICK p \in {"resetting", "unopened", "sending"} : pc' = [pc EXCEPT ![c] = p]
    BY <1>4 DEF SmuxDialled
  <2> QED
    BY <1>4, <2>1, <2>2, UnlockStep DEF SmuxDialled
<1> QED
  BY <1>1, <1>2, <1>3, <1>4

(* The dial: the new session is the only one of its slot, whose last one   *)
(* is not open, and no other send is at work there.                        *)
LEMMA DialStep ==
  ASSUME PoolInv, NEW c \in Sends, Dial(c)
  PROVE  PoolInv'
<1> USE DEF PoolInv
<1> DEFINE i == slot[c]
<1> DEFINE s == dials + 1
<1>1. /\ dials' = s /\ s \in 1..MaxDials /\ s \notin 0..dials
      /\ session' = [session EXCEPT ![i] = s]
      /\ open' = open \cup {s}
  BY SessionAssumption DEF SessionAssumption, Dial, TypeOK
<1>2. /\ pc[c] = "dialling" /\ i \in Slots
      /\ pc' = [pc EXCEPT ![c] = IF quic THEN "opening" ELSE "dialled"]
      /\ UNCHANGED <<closeVars, next, holder, faults, dialFailed, slot, attempt, stream, ctxDone, quic>>
  BY DEF Dial, Goes, TypeOK
<1>3. \A j \in Slots \ {i} : session'[j] = session[j] /\ session[j] # s
  BY <1>1 DEF TypeOK
<1>4. \A b \in Sends \ {c} : pc'[b] = pc[b] /\ (pc[b] \in Critical => slot[b] # i)
  BY <1>2, AtWork DEF Critical, TypeOK
<1>5. TypeOK'
  <2>1. 0..dials \subseteq 0..s /\ 1..dials \subseteq 1..s /\ s \in 0..s /\ s \in 1..s
    BY SessionAssumption DEF SessionAssumption, TypeOK
  <2>2. session' \in [Slots -> 0..s] /\ stream \in [Sends -> 0..s] /\ open' \subseteq 1..s
    BY <1>1, <1>2, <2>1 DEF TypeOK
  <2>3. pc' \in [Sends -> {"idle", "entering", "dialling", "dialled", "opening",
                           "resetting", "sending"} \cup Over]
    BY <1>2 DEF TypeOK
  <2>4. s \in 0..MaxDials
    BY <1>1
  <2> QED
    BY <1>1, <1>2, <2>2, <2>3, <2>4 DEF TypeOK, closeVars
<1>6. LockInv'
  BY <1>2 DEF LockInv, Critical, TypeOK
<1>7. DialInv'
  BY <1>1, <1>2, <1>3, <1>4 DEF DialInv, Critical, TypeOK
<1>8. CloseInv'
  <2>1. ~(i < closing)
    BY <1>2, AtWork DEF Critical
  <2> QED
    BY <1>1, <1>2, <1>3, <2>1 DEF CloseInv, closeVars
<1>9. NoOrphans'
  <2>1. session[i] \notin open
    BY <1>2 DEF DialInv
  <2>2. session'[i] = s
    BY <1>1, <1>2 DEF TypeOK
  <2> QED
    BY <1>1, <1>2, <1>3, <2>1, <2>2 DEF NoOrphans
<1> QED
  BY <1>5, <1>6, <1>7, <1>8, <1>9

(* Smux, after its dial, with the sender still open: the lock stays.       *)
LEMMA DialledStep ==
  ASSUME PoolInv, NEW c \in Sends, SmuxDialled(c), ~closed
  PROVE  PoolInv'
<1> USE DEF PoolInv, closeVars
<1>1. /\ pc[c] = "dialled" /\ pc' = [pc EXCEPT ![c] = "opening"]
      /\ UNCHANGED <<closeVars, next, session, holder, netVars, slot, attempt, stream, ctxDone, quic>>
  BY DEF SmuxDialled, Goes, netVars
<1>2. TypeOK'
  BY <1>1 DEF TypeOK, netVars
<1>3. LockInv' /\ DialInv'
  BY <1>1 DEF LockInv, DialInv, Critical, TypeOK, netVars
<1>4. CloseInv' /\ NoOrphans'
  BY <1>1 DEF CloseInv, NoOrphans, netVars
<1> QED
  BY <1>2, <1>3, <1>4

(* Closing a slot whose lock is free, by a reset or by Close.              *)
LEMMA ClosesStep ==
  ASSUME PoolInv, NEW i \in Slots, ClosesSlot(i),
         UNCHANGED <<holder, dials, faults, dialFailed>>
  PROVE  /\ NoOrphans'
         /\ session' \in [Slots -> 0..dials]
         /\ open' \subseteq open
         /\ \A j \in Slots : session'[j] \in {session[j], NoSession} /\ session'[i] = NoSession
         /\ NoSession \notin open
BY NoneOpen, SessionAssumption
   DEF SessionAssumption, PoolInv, TypeOK, ClosesSlot, NoOrphans, NoSession

(* resetSession.                                                           *)
LEMMA ResetStep ==
  ASSUME PoolInv, NEW c \in Sends, Reset(c)
  PROVE  PoolInv'
<1> USE DEF PoolInv, closeVars
<1>1. /\ pc[c] = "resetting" /\ slot[c] \in Slots
      /\ pc' = [pc EXCEPT ![c] = "entering"]
      /\ attempt' = [attempt EXCEPT ![c] = 2]
      /\ ClosesSlot(slot[c])
      /\ UNCHANGED <<closeVars, next, holder, dials, faults, dialFailed, slot, stream, ctxDone, quic>>
  BY DEF Reset, Goes, TypeOK
<1>2. /\ NoOrphans'
      /\ session' \in [Slots -> 0..dials]
      /\ open' \subseteq open
      /\ \A j \in Slots : session'[j] \in {session[j], NoSession}
      /\ NoSession \notin open
  BY <1>1, ClosesStep
<1>3. TypeOK'
  BY <1>1, <1>2 DEF TypeOK
<1>4. LockInv'
  BY <1>1 DEF LockInv, Critical, TypeOK
<1>5. DialInv'
  BY <1>1, <1>2 DEF DialInv, TypeOK
<1>6. CloseInv'
  BY <1>1, <1>2 DEF CloseInv
<1> QED
  BY <1>2, <1>3, <1>4, <1>5, <1>6

(* Close, slot by slot.                                                    *)
LEMMA CloseSlotStep == ASSUME PoolInv, CloseSlot PROVE PoolInv'
<1> USE DEF PoolInv
<1>1. /\ closing \in Slots /\ closed /\ holder[closing] = None
      /\ closing' = closing + 1
      /\ ClosesSlot(closing)
      /\ UNCHANGED <<closed, next, holder, dials, faults, dialFailed, sendVars, ctxDone, quic>>
  BY SessionAssumption DEF SessionAssumption, CloseSlot, Slots, TypeOK
<1>2. /\ NoOrphans'
      /\ session' \in [Slots -> 0..dials]
      /\ open' \subseteq open
      /\ \A j \in Slots : session'[j] \in {session[j], NoSession} /\ session'[closing] = NoSession
      /\ NoSession \notin open
  BY <1>1, ClosesStep
<1>3. TypeOK'
  BY <1>1, <1>2, SessionAssumption DEF SessionAssumption, TypeOK, Slots, sendVars
<1>4. LockInv'
  BY <1>1 DEF LockInv, sendVars
<1>5. DialInv'
  <2>1. \A c \in Sends : slot[c] \in Slots
    BY DEF TypeOK
  <2> QED
    BY <1>1, <1>2, <2>1 DEF DialInv, sendVars
<1>6. CloseInv'
  <2>1. \A j \in Slots : j < closing' => j < closing \/ j = closing
    BY <1>1 DEF Slots
  <2> QED
    BY <1>1, <1>2, <2>1 DEF CloseInv
<1> QED
  BY <1>2, <1>3, <1>4, <1>5, <1>6

(* The network, contexts, the edge, and the call of Close.                 *)
LEMMA WorldStep ==
  ASSUME PoolInv, (\E s \in Sessions : SessionDies(s)) \/ (\E c \in Sends : CtxEnds(c))
                  \/ (\E c \in Sends : StreamCompletes(c)) \/ CloseBegins
  PROVE  PoolInv'
<1> USE DEF PoolInv, closeVars, netVars, sendVars
<1>1. CASE \E s \in Sessions : SessionDies(s)
  <2>1. TypeOK'
    BY <1>1, SessionAssumption DEF SessionAssumption, SessionDies, TypeOK
  <2>2. LockInv' /\ DialInv' /\ CloseInv' /\ NoOrphans'
    BY <1>1 DEF SessionDies, LockInv, DialInv, CloseInv, NoOrphans
  <2> QED
    BY <2>1, <2>2
<1>2. CASE \E c \in Sends : CtxEnds(c)
  BY <1>2 DEF CtxEnds, TypeOK, LockInv, DialInv, CloseInv, NoOrphans
<1>3. CASE CloseBegins
  BY <1>3 DEF CloseBegins, TypeOK, LockInv, DialInv, CloseInv, NoOrphans
<1>4. ASSUME NEW c \in Sends, StreamCompletes(c) PROVE PoolInv'
  <2>1. TypeOK'
    BY <1>4, SessionAssumption DEF SessionAssumption, StreamCompletes, NoSession, TypeOK
  <2>2. LockInv' /\ DialInv' /\ CloseInv' /\ NoOrphans'
    BY <1>4 DEF StreamCompletes, LockInv, DialInv, CloseInv, NoOrphans
  <2> QED
    BY <2>1, <2>2
<1> QED
  BY <1>1, <1>2, <1>3, <1>4

(* One step of a sender or of the world around it, or a stutter.           *)
LEMMA NextStep == PoolInv /\ [Next]_vars => PoolInv'
<1> SUFFICES ASSUME PoolInv, [Next]_vars PROVE PoolInv'
  OBVIOUS
<1>1. ASSUME NEW c \in Sends, Send(c) PROVE PoolInv'
  BY <1>1, OutsideStep, LockStep, LeaveStep, DialStep, DialledStep, ResetStep DEF Send
<1>2. CASE CloseSlot
  BY <1>2, CloseSlotStep
<1>3. CASE (\E s \in Sessions : SessionDies(s)) \/ (\E c \in Sends : CtxEnds(c)) \/ CloseBegins
           \/ (\E c \in Sends : StreamCompletes(c))
  BY <1>3, WorldStep
<1>4. CASE UNCHANGED vars
  BY <1>4 DEF PoolInv, vars, closeVars, netVars, sendVars, TypeOK, LockInv, DialInv,
              CloseInv, NoOrphans
<1> QED
  BY <1>1, <1>2, <1>3, <1>4 DEF Next

(* The inductive invariant of the senders.                                 *)
THEOREM PoolInductive == Spec => []PoolInv
BY InitInv, NextStep, PTL DEF Spec

(* The variables of the senders keep their types.                          *)
THEOREM PoolTypeCorrect == Spec => []TypeOK
<1>1. PoolInv => TypeOK
  BY DEF PoolInv
<1> QED
  BY <1>1, PoolInductive, PTL

(* No open session is ever dropped from its slot: not by concurrent dials, *)
(* not by resetSession, not by Close.                                      *)
THEOREM NoSessionOrphaned == Spec => []NoOrphans
<1>1. PoolInv => NoOrphans
  BY DEF PoolInv
<1> QED
  BY <1>1, PoolInductive, PTL

(* Once Close has returned there is no open session, and there is none     *)
(* ever after: each slot was emptied, and an open session is in a slot.    *)
THEOREM CloseClosesAll == Spec => []ClosedForGood
<1>1. PoolInv => ClosedForGood
  BY SessionAssumption
     DEF SessionAssumption, PoolInv, ClosedForGood, NoOrphans, CloseInv, Slots
<1> QED
  BY <1>1, PoolInductive, PTL
-----------------------------------------------------------------------------
(* The retries.  SendInv says which faults a send has met; it leans on     *)
(* PoolInv, which keeps other sends away from the slot a send is at work   *)
(* on.                                                                     *)
LEMMA InitSends == Init => SendInv
<1> SUFFICES ASSUME Init PROVE SendInv
  OBVIOUS
<1>1. SlotsInv /\ QuicInv
  BY DEF Init, SlotsInv, QuicInv
<1>2. RetryInv
  BY DEF Init, RetryInv
<1> QED
  BY <1>1, <1>2 DEF SendInv

(* A dialled session is new, so no other slot has it.                      *)
LEMMA SlotsStep == PoolInv /\ SlotsInv /\ [Next]_vars => SlotsInv'
<1> SUFFICES ASSUME PoolInv, SlotsInv, [Next]_vars PROVE SlotsInv'
  OBVIOUS
<1> USE DEF PoolInv
<1>1. ASSUME \A i \in Slots : session'[i] \in {session[i], NoSession} PROVE SlotsInv'
  BY <1>1 DEF SlotsInv
<1>2. ASSUME NEW c \in Sends, Dial(c) PROVE SlotsInv'
  <2>1. \A i \in Slots : session'[i] = IF i = slot[c] THEN dials + 1 ELSE session[i]
    BY <1>2 DEF Dial, TypeOK
  <2>2. \A i \in Slots : session[i] # dials + 1
    BY SessionAssumption DEF SessionAssumption, TypeOK
  <2> QED
    BY <2>1, <2>2 DEF SlotsInv
<1>3. ASSUME NEW i \in Slots, ClosesSlot(i) PROVE \A j \in Slots : session'[j] \in {session[j], NoSession}
  BY <1>3 DEF ClosesSlot, TypeOK
<1>4. ASSUME NEW c \in Sends, Send(c), ~Dial(c) PROVE SlotsInv'
  <2>1. CASE Reset(c) \/ SmuxDialled(c)
    BY <1>1, <1>3, <2>1 DEF Reset, SmuxDialled, TypeOK
  <2>2. CASE DialFails(c)
    BY <1>1, <2>2 DEF DialFails, TypeOK
  <2>3. CASE ~(Reset(c) \/ SmuxDialled(c) \/ DialFails(c))
    BY <1>1, <1>4, <2>3 DEF Send, Begin, QuicBeginFails, SmuxEnterFails, LockFails, Lock,
                            OpenStream, OpenFails, StreamEnds
  <2> QED
    BY <2>1, <2>2, <2>3
<1>5. CASE CloseSlot
  BY <1>1, <1>3, <1>5, SessionAssumption DEF SessionAssumption, CloseSlot, Slots, TypeOK
<1>6. CASE ~CloseSlot /\ ~(\E c \in Sends : Send(c))
  BY <1>1, <1>6 DEF Next, CtxEnds, SessionDies, StreamCompletes, CloseBegins, vars
<1> QED
  BY <1>2, <1>4, <1>5, <1>6

(* What a send does leaves every other one as it is, and its session too   *)
(* when that one is at work on its slot.                                   *)
LEMMA OthersKept ==
  ASSUME PoolInv, SlotsInv, ~closed,
         NEW b \in Sends, Send(b), NEW c \in Sends \ {b}
  PROVE  /\ pc'[c] = pc[c] /\ slot'[c] = slot[c] /\ attempt'[c] = attempt[c]
         /\ stream'[c] = stream[c]
         /\ pc[c] \in Critical =>
              /\ session'[slot[c]] = session[slot[c]]
              /\ session[slot[c]] \in open => session[slot[c]] \in open'
<1> USE DEF PoolInv
<1>1. pc'[c] = pc[c] /\ slot'[c] = slot[c] /\ attempt'[c] = attempt[c] /\ stream'[c] = stream[c]
  BY DEF Send, Begin, QuicBeginFails, SmuxEnterFails, LockFails, Lock, DialFails, Dial,
         SmuxDialled, OpenStream, OpenFails, Reset, StreamEnds, Goes, TypeOK
<1>2. SUFFICES ASSUME pc[c] \in Critical
               PROVE  /\ session'[slot[c]] = session[slot[c]]
                      /\ session[slot[c]] \in open => session[slot[c]] \in open'
  BY <1>1
<1>3. slot[c] \in Slots /\ slot[b] \in Slots /\ holder[slot[c]] = c
  BY <1>2, AtWork DEF TypeOK
<1>4. CASE DialFails(b) \/ Dial(b)
  <2>1. slot[b] # slot[c]
    BY <1>2, <1>4, AtWork DEF DialFails, Dial, Goes, Critical
  <2> QED
    BY <1>3, <1>4, <2>1 DEF DialFails, Dial, TypeOK
<1>5. CASE Reset(b)
  <2>1. slot[b] # slot[c]
    BY <1>3, <1>5, SessionAssumption DEF SessionAssumption, Reset
  <2>2. session'[slot[c]] = session[slot[c]] /\ open' = open \ {session[slot[b]]}
    BY <1>3, <1>5, <2>1 DEF Reset, ClosesSlot, TypeOK
  <2>3. session[slot[c]] \in open => session[slot[c]] # session[slot[b]]
    BY <1>3, <2>1, NoneOpen DEF SlotsInv
  <2> QED
    BY <2>2, <2>3
<1>6. CASE ~(DialFails(b) \/ Dial(b) \/ Reset(b))
  BY <1>6 DEF Send, Begin, QuicBeginFails, SmuxEnterFails, LockFails, Lock, SmuxDialled,
              OpenStream, OpenFails, StreamEnds, netVars
<1> QED
  BY <1>4, <1>5, <1>6

(* No send makes a fault, and what was to blame before is to blame still.  *)
LEMMA NoFault == ASSUME NEW c \in Sends, Send(c) PROVE UNCHANGED <<closed, faults, ctxDone, quic>>
  BY DEF Send, Begin, QuicBeginFails, SmuxEnterFails, LockFails, Lock, DialFails, Dial, SmuxDialled,
         OpenStream, OpenFails, Reset, StreamEnds, closeVars, netVars

LEMMA BlameStays ==
  ASSUME PoolInv, [Next]_vars
  PROVE  /\ closed => closed'
         /\ dialFailed => dialFailed'
         /\ ctxDone \subseteq ctxDone'
         /\ faults' \in {faults, faults + 1}
         /\ quic' = quic
<1>1. ASSUME NEW c \in Sends, Send(c) PROVE dialFailed => dialFailed'
  BY <1>1 DEF Send, Begin, QuicBeginFails, SmuxEnterFails, LockFails, Lock, DialFails, Dial,
              SmuxDialled, OpenStream, OpenFails, Reset, StreamEnds, netVars
<1>2. CASE \E c \in Sends : Send(c)
  BY <1>1, <1>2, NoFault
<1>3. CASE (\E s \in Sessions : SessionDies(s)) \/ (\E c \in Sends : CtxEnds(c) \/ StreamCompletes(c))
  BY <1>3 DEF SessionDies, CtxEnds, StreamCompletes, closeVars, netVars
<1>4. CASE CloseBegins \/ CloseSlot \/ UNCHANGED vars
  BY <1>4 DEF CloseBegins, CloseSlot, vars, closeVars, netVars
<1> QED
  BY <1>2, <1>3, <1>4 DEF Next

(* A send's own step: it meets one fault more with each stream it cannot   *)
(* open, as the session was open when it came, and no one else closed it.  *)
LEMMA OwnRetry ==
  ASSUME PoolInv, RetryInv, NEW c \in Sends, Send(c),
         ~closed, ~closed', c \notin ctxDone, ~dialFailed, ~dialFailed'
  PROVE  /\ pc'[c] \in {"dialled", "opening"} /\ session'[slot'[c]] \notin open' => faults' >= attempt'[c]
         /\ attempt'[c] = 2 \/ pc'[c] = "resetting" => faults' >= 1
         /\ pc'[c] = "unopened" => faults' >= 2
<1> USE DEF PoolInv, Goes
<1>1. /\ faults' = faults /\ faults \in Nat /\ attempt[c] \in {1, 2}
      /\ ~Doomed(c)
  BY NoFault, SessionAssumption DEF SessionAssumption, TypeOK, Doomed
<1>2. /\ pc[c] \in {"dialled", "opening"} /\ session[slot[c]] \notin open => faults >= attempt[c]
      /\ attempt[c] = 2 \/ pc[c] = "resetting" => faults >= 1
      /\ pc[c] = "unopened" => faults >= 2
  BY <1>1 DEF RetryInv
<1>3. CASE Begin(c) \/ StreamEnds(c)
  BY <1>1, <1>2, <1>3 DEF Begin, StreamEnds, TypeOK, Over
<1>4. CASE QuicBeginFails(c) \/ SmuxEnterFails(c) \/ LockFails(c) \/ DialFails(c)
  BY <1>1, <1>4 DEF QuicBeginFails, SmuxEnterFails, LockFails, DialFails
<1>5. CASE Lock(c)
  BY <1>1, <1>2, <1>5 DEF Lock, TypeOK, netVars
<1>6. CASE Dial(c)
  <2>1. /\ pc'[c] \in {"opening", "dialled"} /\ slot'[c] = slot[c] /\ attempt'[c] = attempt[c]
        /\ session'[slot[c]] = dials' /\ dials' \in open'
    BY <1>6 DEF Dial, TypeOK
  <2> QED
    BY <1>1, <1>2, <2>1
<1>7. CASE SmuxDialled(c)
  BY <1>1, <1>2, <1>7 DEF SmuxDialled, TypeOK
<1>8. CASE OpenStream(c)
  BY <1>1, <1>2, <1>8 DEF OpenStream, TypeOK, netVars
<1>9. CASE OpenFails(c)
  <2>1. /\ pc[c] = "opening" /\ session[slot[c]] \notin open /\ faults >= attempt[c]
        /\ pc'[c] = AfterError(c, TRUE) /\ attempt'[c] = attempt[c]
    BY <1>1, <1>2, <1>9 DEF OpenFails, TypeOK
  <2>2. CASE attempt[c] = 1
    <3>1. AfterError(c, TRUE) = "resetting"
      BY <2>2 DEF AfterError, QuicRetries, SmuxRetries
    <3> QED
      BY <1>1, <2>1, <2>2, <3>1
  <2>3. CASE attempt[c] = 2
    <3>1. AfterError(c, TRUE) = "unopened"
      BY <2>3 DEF AfterError, QuicRetries, SmuxRetries
    <3>2. /\ pc'[c] = "unopened" /\ faults' >= 2
      BY <1>1, <2>1, <2>3, <3>1
    <3> QED
      BY <1>1, <3>2
  <2> QED
    BY <1>1, <2>2, <2>3
<1>10. CASE Reset(c)
  <2>1. pc[c] = "resetting" /\ pc'[c] = "entering" /\ faults >= 1
    BY <1>2, <1>10 DEF Reset, TypeOK
  <2> QED
    BY <1>1, <2>1
<1> QED
  BY <1>3, <1>4, <1>5, <1>6, <1>7, <1>8, <1>9, <1>10 DEF Send

LEMMA RetryStep == PoolInv /\ SlotsInv /\ RetryInv /\ [Next]_vars => RetryInv'
<1> SUFFICES ASSUME PoolInv, SlotsInv, RetryInv, [Next]_vars,
                    NEW c \in Sends, ~(Doomed(c) \/ dialFailed)'
             PROVE  /\ pc'[c] \in {"dialled", "opening"} /\ session'[slot'[c]] \notin open'
                         => faults' >= attempt'[c]
                    /\ attempt'[c] = 2 \/ pc'[c] = "resetting" => faults' >= 1
                    /\ pc'[c] = "unopened" => faults' >= 2
  BY DEF RetryInv
<1> USE DEF PoolInv
<1>1. ~closed' /\ ~dialFailed' /\ c \notin ctxDone'
  BY DEF Doomed
<1>2. ~closed /\ ~dialFailed /\ c \notin ctxDone
  BY <1>1, BlameStays
<1>3. faults \in Nat /\ attempt[c] \in {1, 2}
  BY SessionAssumption DEF SessionAssumption, TypeOK
<1>4. /\ pc[c] \in {"dialled", "opening"} /\ session[slot[c]] \notin open => faults >= attempt[c]
      /\ attempt[c] = 2 \/ pc[c] = "resetting" => faults >= 1
      /\ pc[c] = "unopened" => faults >= 2
  BY <1>2 DEF RetryInv, Doomed
<1>5. CASE Send(c)
  BY <1>1, <1>2, <1>5, OwnRetry
<1>6. ASSUME NEW b \in Sends \ {c}, Send(b)
      PROVE  /\ pc'[c] \in {"dialled", "opening"} /\ session'[slot'[c]] \notin open'
                  => faults' >= attempt'[c]
             /\ attempt'[c] = 2 \/ pc'[c] = "resetting" => faults' >= 1
             /\ pc'[c] = "unopened" => faults' >= 2
  <2>1. faults' = faults
    BY <1>6, NoFault
  <2>2. /\ pc'[c] = pc[c] /\ slot'[c] = slot[c] /\ attempt'[c] = attempt[c]
        /\ pc[c] \in Critical =>
             /\ session'[slot[c]] = session[slot[c]]
             /\ session[slot[c]] \in open => session[slot[c]] \in open'
    BY <1>2, <1>6, OthersKept
  <2> QED
    BY <1>4, <2>1, <2>2 DEF Critical
<1>7. CASE \E s \in Sessions : SessionDies(s)
  <2>1. /\ faults' = faults + 1 /\ pc'[c] = pc[c] /\ slot'[c] = slot[c] /\ attempt'[c] = attempt[c]
    BY <1>7 DEF SessionDies, sendVars
  <2> QED
    BY <1>3, <1>4, <2>1
<1>8. CASE UNCHANGED <<session, open, faults, pc, slot, attempt>>
  BY <1>4, <1>8
<1>9. ~CloseSlot
  BY <1>2 DEF CloseSlot
<1>10. CASE CloseBegins \/ (\E b \in Sends : CtxEnds(b) \/ StreamCompletes(b)) \/ UNCHANGED vars
  BY <1>8, <1>10 DEF CloseBegins, CtxEnds, StreamCompletes, vars, netVars, sendVars
<1> QED
  BY <1>5, <1>6, <1>7, <1>9, <1>10 DEF Next

(* With QUIC a connection is reset for its own fault only.                 *)
LEMMA QuicStep == PoolInv /\ SlotsInv /\ QuicInv /\ [Next]_vars => QuicInv'
<1> SUFFICES ASSUME PoolInv, SlotsInv, QuicInv, [Next]_vars, quic', NEW c \in Sends
             PROVE  /\ pc'[c] # "dialled"
                    /\ faults' = 0 /\ ~closed' =>
                         /\ pc'[c] # "resetting"
                         /\ pc'[c] = "opening" => session'[slot'[c]] \in open'
                         /\ pc'[c] = "sending" => stream'[c] \in open'
  BY DEF QuicInv
<1> USE DEF PoolInv, Goes
<1>1. /\ quic
      /\ faults' = 0 => faults = 0
      /\ ~closed' => ~closed
  <2>1. quic' = quic /\ (closed => closed') /\ faults' \in {faults, faults + 1}
    BY BlameStays
  <2>2. faults \in Nat
    BY SessionAssumption DEF SessionAssumption, TypeOK
  <2>3. faults' = 0 => faults = 0
    BY <2>1, <2>2
  <2> QED
    BY <2>1, <2>3
<1>2. pc'[c] # "dialled"
  <2>1. pc[c] # "dialled"
    BY <1>1 DEF QuicInv
  <2>2. ASSUME NEW b \in Sends, Send(b) PROVE pc'[c] # "dialled"
    <3>1. CASE Begin(b) \/ QuicBeginFails(b) \/ Lock(b) \/ Dial(b) \/ OpenStream(b)
               \/ Reset(b) \/ StreamEnds(b)
      BY <1>1, <2>1, <3>1 DEF Begin, QuicBeginFails, Lock, Dial, OpenStream, Reset, StreamEnds, TypeOK
    <3>2. CASE SmuxEnterFails(b) \/ LockFails(b) \/ DialFails(b) \/ OpenFails(b)
      BY <1>1, <2>1, <3>2 DEF SmuxEnterFails, LockFails, DialFails, OpenFails, AfterError, TypeOK
    <3>3. CASE SmuxDialled(b)
      BY <1>1, <2>1, <3>3 DEF SmuxDialled, AfterError, QuicInv
    <3> QED
      BY <2>2, <3>1, <3>2, <3>3 DEF Send
  <2>3. CASE (\E b \in Sends : CtxEnds(b) \/ StreamCompletes(b)) \/ (\E x \in Sessions : SessionDies(x))
             \/ CloseBegins \/ CloseSlot \/ UNCHANGED vars
    BY <2>1, <2>3 DEF CtxEnds, StreamCompletes, SessionDies, CloseBegins, CloseSlot, vars, sendVars
  <2> QED
    BY <2>2, <2>3 DEF Next
<1>3. SUFFICES ASSUME faults' = 0, ~closed'
               PROVE  /\ pc'[c] # "resetting"
                      /\ pc'[c] = "opening" => session'[slot'[c]] \in open'
                      /\ pc'[c] = "sending" => stream'[c] \in open'
  BY <1>2
<1>4. /\ faults = 0 /\ ~closed
      /\ \A b \in Sends :
           /\ pc[b] # "dialled" /\ pc[b] # "resetting"
           /\ pc[b] = "opening" => session[slot[b]] \in open
           /\ pc[b] = "sending" => stream[b] \in open
  BY <1>1, <1>3 DEF QuicInv
<1>5. ~CloseSlot /\ ~(\E s \in Sessions : SessionDies(s))
  <2>1. ~CloseSlot
    BY <1>4 DEF CloseSlot
  <2>2. ASSUME NEW s \in Sessions, SessionDies(s) PROVE FALSE
    <3>1. faults' = 0 + 1
      BY <1>4, <2>2 DEF SessionDies
    <3> QED
      BY <1>3, <3>1
  <2> QED
    BY <2>1, <2>2
<1>6. ASSUME NEW b \in Sends, Send(b) PROVE ~Reset(b) /\ ~SmuxDialled(b) /\ open \subseteq open'
  BY <1>4, <1>6 DEF Send, Begin, QuicBeginFails, SmuxEnterFails, LockFails, Lock, DialFails, Dial,
              SmuxDialled, OpenStream, OpenFails, Reset, StreamEnds, netVars
<1>7. CASE Send(c)
  <2>1. CASE Begin(c) \/ QuicBeginFails(c) \/ SmuxEnterFails(c) \/ LockFails(c) \/ StreamEnds(c)
    BY <1>1, <2>1 DEF Begin, QuicBeginFails, SmuxEnterFails, LockFails, StreamEnds, AfterError,
                      QuicRetries, TypeOK, Over
  <2>2. CASE Lock(c)
    BY <2>2 DEF Lock, netVars, TypeOK
  <2>3. CASE DialFails(c)
    BY <1>1, <2>3 DEF DialFails, AfterError, QuicRetries, TypeOK
  <2>4. CASE Dial(c)
    BY <2>4 DEF Dial, TypeOK
  <2>5. CASE OpenStream(c)
    BY <1>4, <2>5 DEF OpenStream, netVars, TypeOK
  <2>6. CASE OpenFails(c)
    BY <1>1, <1>4, <2>6 DEF OpenFails, AfterError, QuicRetries, TypeOK
  <2> QED
    BY <1>6, <1>7, <2>1, <2>2, <2>3, <2>4, <2>5, <2>6 DEF Send
<1>8. ASSUME NEW b \in Sends \ {c}, Send(b)
      PROVE  /\ pc'[c] # "resetting"
             /\ pc'[c] = "opening" => session'[slot'[c]] \in open'
             /\ pc'[c] = "sending" => stream'[c] \in open'
  <2>1. /\ pc'[c] = pc[c] /\ slot'[c] = slot[c] /\ stream'[c] = stream[c]
        /\ pc[c] \in Critical =>
             /\ session'[slot[c]] = session[slot[c]]
             /\ session[slot[c]] \in open => session[slot[c]] \in open'
    BY <1>4, <1>8, OthersKept
  <2> QED
    BY <1>4, <1>6, <1>8, <2>1 DEF Critical
<1>9. CASE CloseBegins \/ (\E b \in Sends : CtxEnds(b)) \/ UNCHANGED vars
  BY <1>4, <1>9 DEF CloseBegins, CtxEnds, vars, netVars, sendVars
<1>10. ASSUME NEW b \in Sends, StreamCompletes(b)
       PROVE  /\ pc'[c] # "resetting"
              /\ pc'[c] = "opening" => session'[slot'[c]] \in open'
              /\ pc'[c] = "sending" => stream'[c] \in open'
  <2>1. UNCHANGED <<session, open, pc, slot>> /\ (pc[c] = "sending" => stream'[c] = stream[c])
    BY <1>10 DEF StreamCompletes, TypeOK, netVars
  <2> QED
    BY <1>4, <2>1
<1> QED
  BY <1>5, <1>7, <1>8, <1>9, <1>10 DEF Next

(* Both inductive invariants together.                                     *)
THEOREM SendsInductive == Spec => [](PoolInv /\ SendInv)
<1>1. PoolInv /\ SendInv /\ [Next]_vars => SendInv'
  BY SlotsStep, RetryStep, QuicStep DEF SendInv
<1> QED
  BY <1>1, InitSends, PoolInductive, PTL DEF Spec

(* A send that was given no stream, though its context goes on, no dial    *)
(* has failed and the sender is open, has met two faults: it dials anew    *)
(* after the first.                                                        *)
THEOREM StaleRetried == Spec => []StaleIsRetried
<1>1. PoolInv /\ SendInv => StaleIsRetried
  BY SessionAssumption DEF SessionAssumption, PoolInv, TypeOK, SendInv, RetryInv, StaleIsRetried
<1> QED
  BY <1>1, SendsInductive, PTL

(* ingestquic.Sender leaves the streams of other sends alone.              *)
THEOREM QuicLeavesAlone == Spec => []QuicUndisturbed
<1>1. PoolInv /\ SendInv => QuicUndisturbed
  BY DEF SendInv, QuicInv, QuicUndisturbed, StreamsUndisturbed
<1> QED
  BY <1>1, SendsInductive, PTL
=============================================================================
