----------------------------- MODULE SessionPool -----------------------------
(***************************************************************************)
(* The persistent ingest senders of the connector: ingestsmux.Sender and   *)
(* ingestquic.Sender.  Each keeps a fixed number of slots with a session   *)
(* (a smux session or a QUIC connection) that is dialled when first needed *)
(* and shared by the streams of many objects; a send takes the next slot,  *)
(* opens a stream, and starts over once when it could not.                 *)
(*                                                                         *)
(* The two senders differ in what they do after an error, in when they     *)
(* look whether they were closed, and in that a QUIC stream may have to    *)
(* wait for credit; quic says which of the two it is.                      *)
(***************************************************************************)
EXTENDS Integers, FiniteSets

CONSTANTS
  Sends,       \* calls of Send
  MaxDials,    \* bound on the dials that succeed
  NumSlots,    \* sessionPoolSize, connectionPoolSize
  MaxStreams,  \* streams the edge allows on one QUIC connection
  MaxFaults,   \* bound on the failures of established sessions
  None         \* no send

ASSUME SessionAssumption ==
  /\ None \notin Sends
  /\ MaxDials \in Nat
  /\ NumSlots \in Nat \ {0}
  /\ MaxStreams \in Nat \ {0}
  /\ MaxFaults \in Nat

Slots == 0..(NumSlots - 1)

(* Sessions are numbered as they are dialled; NoSession is nil.            *)
Sessions == 1..MaxDials
NoSession == 0

VARIABLES
  quic,        \* the sender is ingestquic's
  closed,      \* Sender.closed
  closing,     \* how many slots Close has been through
  next,        \* the slot for the next send
  session,     \* the session in each slot, or NoSession
  holder,      \* the send that holds the lock of each slot, or None
  dials,       \* sessions that were dialled so far
  open,        \* those that are neither closed nor dead
  faults,      \* failures of sessions so far
  dialFailed,  \* a dial has failed
  pc,          \* where each send is
  slot,        \* its slot
  attempt,     \* its attempt to open a stream, 1 or 2
  stream,      \* the session of its stream, until that is complete at the edge
  ctxDone      \* sends whose context is done

closeVars == <<closed, closing>>
netVars == <<dials, open, faults, dialFailed>>
sendVars == <<pc, slot, attempt, stream>>
vars == <<quic, closeVars, next, session, holder, netVars, sendVars, ctxDone>>

Init ==
  /\ quic \in BOOLEAN
  /\ closed = FALSE /\ closing = 0
  /\ next = 0
  /\ session = [i \in Slots |-> NoSession]
  /\ holder = [i \in Slots |-> None]
  /\ dials = 0 /\ open = {} /\ faults = 0 /\ dialFailed = FALSE
  /\ pc = [c \in Sends |-> "idle"]
  /\ slot = [c \in Sends |-> 0]
  /\ attempt = [c \in Sends |-> 1]
  /\ stream = [c \in Sends |-> NoSession]
  /\ ctxDone = {}

CtxEnds(c) ==
  /\ c \notin ctxDone
  /\ ctxDone' = ctxDone \cup {c}
  /\ UNCHANGED <<closeVars, next, session, holder, netVars, sendVars, quic>>

SessionDies(s) ==
  /\ s \in open /\ faults < MaxFaults
  /\ open' = open \ {s}
  /\ faults' = faults + 1
  /\ UNCHANGED <<closeVars, next, session, holder, dials, dialFailed, sendVars, ctxDone, quic>>
-----------------------------------------------------------------------------
Goes(c, from, to) == pc[c] = from /\ pc' = [pc EXCEPT ![c] = to]

SlipUnlocks(c) ==
  holder' = [holder EXCEPT ![slot[c]] = IF pc[c] = "opening" THEN None ELSE @]
Unlocks(c) == holder' = [holder EXCEPT ![slot[c]] = None]

(* closeSessionSlotLocked, closeSlotConnLocked.                            *)
ClosesSlot(i) ==
  /\ session' = [session EXCEPT ![i] = NoSession]
  /\ open' = open \ {session[i]}

(* What is refused before anything is opened.                              *)
SlipDoomed(c) == c \in ctxDone
Doomed(c) == closed \/ c \in ctxDone

(* The first attempt is followed by a reset and another one: after every   *)
(* error of smux, and of QUIC's only after a failure to open the stream    *)
(* that is not the context's.                                              *)
SmuxRetries(c) == attempt[c] = 1
SlipQuicRetries(c, opening) == attempt[c] = 1
QuicRetries(c, opening) == attempt[c] = 1 /\ opening /\ c \notin ctxDone

SlipAfterError(c, opening) == "unopened"
AfterError(c, opening) ==
  IF (IF quic THEN QuicRetries(c, opening) ELSE SmuxRetries(c))
    THEN "resetting" ELSE "unopened"

NextSlot == (next + 1) % NumSlots

(* The send takes its slot, in turn; QUIC's looks first whether it should. *)
Begin(c) ==
  /\ ~(quic /\ Doomed(c))
  /\ Goes(c, "idle", "entering")
  /\ slot' = [slot EXCEPT ![c] = next]
  /\ next' = NextSlot
  /\ UNCHANGED <<closeVars, session, holder, netVars, attempt, stream, ctxDone, quic>>

QuicBeginFails(c) ==
  /\ quic /\ Doomed(c)
  /\ Goes(c, "idle", "unopened")
  /\ UNCHANGED <<closeVars, next, session, holder, netVars, slot, attempt, stream, ctxDone, quic>>

(* openStreamOnce.  Smux's first look is without the lock.                 *)
SmuxEnterFails(c) ==
  /\ ~quic /\ Doomed(c)
  /\ Goes(c, "entering", AfterError(c, FALSE))
  /\ UNCHANGED <<closeVars, next, session, holder, netVars, slot, attempt, stream, ctxDone, quic>>

LockFails(c) ==
  /\ holder[slot[c]] = None
  /\ Doomed(c)
  /\ Goes(c, "entering", AfterError(c, FALSE))
  /\ UNCHANGED <<closeVars, next, session, holder, netVars, slot, attempt, stream, ctxDone, quic>>

SlipLocks(c) == holder' = [holder EXCEPT ![slot[c]] = c]
Locks(c) ==
  /\ holder[slot[c]] = None
  /\ holder' = [holder EXCEPT ![slot[c]] = c]

Lock(c) ==
  /\ ~Doomed(c)
  /\ Locks(c)
  /\ Goes(c, "entering", IF session[slot[c]] \in open THEN "opening" ELSE "dialling")
  /\ UNCHANGED <<closeVars, next, session, netVars, slot, attempt, stream, ctxDone, quic>>

(* The dial, with the lock held; the session that it replaces is over.     *)
DialFails(c) ==
  /\ Goes(c, "dialling", AfterError(c, FALSE))
  /\ Unlocks(c)
  /\ dialFailed' = TRUE
  /\ session' = IF quic THEN [session EXCEPT ![slot[c]] = NoSession] ELSE session
  /\ UNCHANGED <<closeVars, next, dials, open, faults, slot, attempt, stream, ctxDone, quic>>

Dial(c) ==
  /\ Goes(c, "dialling", IF quic THEN "opening" ELSE "dialled")
  /\ dials < MaxDials
  /\ dials' = dials + 1
  /\ session' = [session EXCEPT ![slot[c]] = dials']
  /\ open' = open \cup {dials'}
  /\ UNCHANGED <<closeVars, next, holder, faults, dialFailed, slot, attempt, stream, ctxDone, quic>>

(* Smux's look at closed after its dial.                                   *)
SmuxDialled(c) ==
  /\ Goes(c, "dialled", IF closed THEN AfterError(c, FALSE) ELSE "opening")
  /\ IF closed THEN ClosesSlot(slot[c]) /\ Unlocks(c)
               ELSE UNCHANGED <<session, open, holder>>
  /\ UNCHANGED <<closeVars, next, dials, faults, dialFailed, slot, attempt, stream, ctxDone, quic>>

(* OpenStream of smux does not wait; OpenStreamSync of QUIC does, with the *)
(* lock held, until the connection has credit or the context ends.  Every  *)
(* stream that is not complete at the edge takes credit, whether its send  *)
(* is over or not.                                                         *)
Streams(s) == {c \in Sends : stream[c] = s}
HasCredit(s) == quic => Cardinality(Streams(s)) < MaxStreams

OpenStream(c) ==
  /\ Goes(c, "opening", "sending")
  /\ session[slot[c]] \in open
  /\ HasCredit(session[slot[c]])
  /\ stream' = [stream EXCEPT ![c] = session[slot[c]]]
  /\ Unlocks(c)
  /\ UNCHANGED <<closeVars, next, session, netVars, slot, attempt, ctxDone, quic>>

OpenFails(c) ==
  /\ session[slot[c]] \notin open \/ (quic /\ c \in ctxDone)
  /\ Goes(c, "opening", AfterError(c, TRUE))
  /\ Unlocks(c)
  /\ UNCHANGED <<closeVars, next, session, netVars, slot, attempt, stream, ctxDone, quic>>

(* resetSession, resetSlot: whatever session the slot has by now.          *)
Reset(c) ==
  /\ Goes(c, "resetting", "entering")
  /\ holder[slot[c]] = None
  /\ ClosesSlot(slot[c])
  /\ attempt' = [attempt EXCEPT ![c] = 2]
  /\ UNCHANGED <<closeVars, next, holder, dials, faults, dialFailed, slot, stream, ctxDone, quic>>

(* The rest of Send on its own stream: header, body and acknowledgement.   *)
StreamEnds(c) ==
  /\ \/ stream[c] \in open /\ Goes(c, "sending", "sent")
     \/ Goes(c, "sending", "broken")
  /\ UNCHANGED <<closeVars, next, session, holder, netVars, slot, attempt, stream, ctxDone, quic>>

(* A QUIC stream is complete when the edge has read it to its end, and     *)
(* only then its credit comes back.  The edge does that for a body of      *)
(* unknown length or one that ends early.  Of a whole body of known length *)
(* it reads that length and no more, of a call it refuses only the header; *)
(* such a stream keeps its credit as long as the connection lasts.         *)
StreamCompletes(c) ==
  /\ quic
  /\ pc[c] \in {"sent", "broken"} /\ stream[c] # NoSession
  /\ stream' = [stream EXCEPT ![c] = NoSession]
  /\ UNCHANGED <<closeVars, next, session, holder, netVars, pc, slot, attempt, ctxDone, quic>>

Send(c) ==
  \/ Begin(c) \/ QuicBeginFails(c)
  \/ SmuxEnterFails(c) \/ LockFails(c) \/ Lock(c)
  \/ DialFails(c) \/ Dial(c) \/ SmuxDialled(c)
  \/ OpenStream(c) \/ OpenFails(c)
  \/ Reset(c)
  \/ StreamEnds(c)
-----------------------------------------------------------------------------
(* Close: the flag first, then slot by slot, each under its lock.          *)
CloseBegins ==
  /\ ~closed
  /\ closed' = TRUE
  /\ UNCHANGED <<closing, next, session, holder, netVars, sendVars, ctxDone, quic>>

CloseSlot ==
  /\ closed /\ closing < NumSlots
  /\ holder[closing] = None
  /\ ClosesSlot(closing)
  /\ closing' = closing + 1
  /\ UNCHANGED <<closed, next, holder, dials, faults, dialFailed, sendVars, ctxDone, quic>>

Next ==
  \/ \E c \in Sends : Send(c) \/ CtxEnds(c) \/ StreamCompletes(c)
  \/ \E s \in Sessions : SessionDies(s)
  \/ CloseBegins
  \/ CloseSlot

Spec == Init /\ [][Next]_vars

(* Sends that have begun go on: dials and streams end by the deadline of   *)
(* their context, which is the ticket's.  That deadline strikes for a send *)
(* that waits for credit, because no stream need ever be complete at the   *)
(* edge.  A Close that has begun goes on.                                  *)
FairSpec ==
  /\ Spec
  /\ \A c \in Sends : WF_vars(pc[c] # "idle" /\ Send(c)) /\ WF_vars(pc[c] = "opening" /\ CtxEnds(c))
  /\ WF_vars(CloseSlot)
-----------------------------------------------------------------------------
Over == {"sent", "broken", "unopened"}

TypeOK ==
  /\ quic \in BOOLEAN
  /\ closed \in BOOLEAN /\ closing \in 0..NumSlots
  /\ next \in Slots
  /\ session \in [Slots -> 0..dials]
  /\ holder \in [Slots -> Sends \cup {None}]
  /\ dials \in 0..MaxDials /\ open \subseteq 1..dials
  /\ faults \in 0..MaxFaults /\ dialFailed \in BOOLEAN
  /\ pc \in [Sends -> {"idle", "entering", "dialling", "dialled", "opening",
                       "resetting", "sending"} \cup Over]
  /\ slot \in [Sends -> Slots]
  /\ attempt \in [Sends -> {1, 2}]
  /\ stream \in [Sends -> 0..dials]
  /\ ctxDone \subseteq Sends

(* Concurrent dials, resets and Close never lose hold of an open session:  *)
(* there are no more of them than slots, and no connection leaks.          *)
NoOrphans == \A s \in open : \E i \in Slots : session[i] = s

(* When Close has returned no session is open, none dialled by a send that *)
(* was under way included, and no send opens another.                      *)
ClosedForGood == closed /\ closing = NumSlots => open = {}

(* "Stale session retry reconnects before writing request"                 *)
(* (server_client_test.go of both senders): one session that dies under a  *)
(* send, or many that died before, do not keep it from getting its stream. *)
StaleIsRetried ==
  \A c \in Sends :
    pc[c] = "unopened" => Doomed(c) \/ dialFailed \/ faults > 1

(* "smux multiplexes those streams over persistent mTLS TCP"               *)
(* (docs/architecture.md:153): while the network works and the sender is   *)
(* open, no object's stream is cut because of another send.                *)
StreamsUndisturbed ==
  faults = 0 /\ ~dialFailed /\ ~closed =>
    \A c \in Sends : pc[c] = "sending" => stream[c] \in open

(* The QUIC sender, which does not reset a connection for an error of the  *)
(* context, of a dial or of its own being closed, keeps to it.             *)
QuicUndisturbed == quic => StreamsUndisturbed

(* "AIR3_INGEST_POOL_SIZE caps reusable connector-side connection, session *)
(* ... pools for ... QUIC" (docs/configuration.md:220): a connection that  *)
(* carries no object at the moment can be used for another one.            *)
IdleIsReusable ==
  \A s \in open : (\A c \in Streams(s) : pc[c] # "sending") => HasCredit(s)

(* No send waits for ever, for a lock that another has or for credit that  *)
(* never comes back: one that waits for credit gives up, and its lock with *)
(* it, when its context ends, and Close gets every lock at last.  (A send  *)
(* is made once, and there are finitely many.)                             *)
SendsAndCloseReturn ==
  <>[]((\A c \in Sends : pc[c] \in {"idle"} \cup Over) /\ (closed => closing = NumSlots))
-----------------------------------------------------------------------------
(* The parts of the inductive invariant that are not properties above.     *)

Critical == {"dialling", "dialled", "opening"}

(* The lock of a slot is held by the send that is at work on the slot.     *)
LockInv ==
  /\ \A c \in Sends : pc[c] \in Critical <=> holder[slot[c]] = c
  /\ \A i \in Slots : holder[i] # None => slot[holder[i]] = i

(* A dial replaces a session that is not open any more.                    *)
DialInv ==
  \A c \in Sends : pc[c] = "dialling" => session[slot[c]] \notin open

(* Close leaves a slot with neither an open session nor a send at work on  *)
(* it, and none comes after, as closed was set before.                     *)
CloseInv ==
  /\ closing > 0 => closed
  /\ \A i \in Slots : i < closing => holder[i] = None /\ session[i] \notin open

PoolInv ==
  /\ TypeOK
  /\ LockInv
  /\ DialInv
  /\ CloseInv
  /\ NoOrphans

(* A session is in one slot.                                               *)
SlotsInv ==
  \A i, j \in Slots : session[i] = session[j] /\ session[i] # NoSession => i = j

(* The faults a send has met, while neither its context, nor a dial, nor   *)
(* Close is to blame: one for each session that died when it was about to  *)
(* open its stream, so one before its second attempt.                      *)
RetryInv ==
  \A c \in Sends :
    ~(Doomed(c) \/ dialFailed) =>
      /\ pc[c] \in {"dialled", "opening"} /\ session[slot[c]] \notin open => faults >= attempt[c]
      /\ attempt[c] = 2 \/ pc[c] = "resetting" => faults >= 1
      /\ pc[c] = "unopened" => faults >= 2

(* Without a fault no send of QUIC's has a reason to reset a connection.   *)
QuicInv ==
  quic => \A c \in Sends :
    /\ pc[c] # "dialled"
    /\ faults = 0 /\ ~closed =>
         /\ pc[c] # "resetting"
         /\ pc[c] = "opening" => session[slot[c]] \in open
         /\ pc[c] = "sending" => stream[c] \in open

SendInv == SlotsInv /\ RetryInv /\ QuicInv
=============================================================================
