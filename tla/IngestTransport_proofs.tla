----------------------- MODULE IngestTransport_proofs -----------------------
(***************************************************************************)
(* Proofs about IngestTransport, for each of the four transports, any      *)
(* calls and jobs, any window and any number of faults: TransportInv is    *)
(* inductive, and with it the two sides' conclusions about each other are  *)
(* true (AckedIsWhole, FinishedIsWhole).                                   *)
(*                                                                         *)
(* The heart of the argument is what the end of a stream tells the edge    *)
(* (UpInv): a stream that ended short is a framed one whose sender gave up *)
(* or was cut off, and such a sender never hears an acknowledgement, as    *)
(* its connection has no other end than "closed" (AckInv).                 *)
(***************************************************************************)
EXTENDS IngestTransport, TLAPS

(* Nothing is sent yet.                                                    *)
LEMMA InitInv == Init => TransportInv
<1> SUFFICES ASSUME Init PROVE TransportInv
  OBVIOUS
<1> USE DEF Init
<1>1. job \in [Calls -> [size : Nat, known : BOOLEAN]] /\ \A c \in Calls : job[c] \in Jobs[c]
  <2>1. UNION {Jobs[c] : c \in Calls} \subseteq [size : Nat, known : BOOLEAN]
    BY TransportAssumption
  <2> QED
    BY <2>1
<1>2. TypeOK
  BY <1>1, TransportAssumption DEF TypeOK
<1>3. UpInv /\ AckInv /\ AckedIsWhole /\ FinishedIsWhole
  BY DEF UpInv, AckInv, AckedIsWhole, FinishedIsWhole
<1> QED
  BY <1>2, <1>3 DEF TransportInv

(* The steps in which no block moves, no stream ends and nobody concludes  *)
(* anything: a context ends, a send begins or cannot, the edge refuses it  *)
(* or starts, the public request ends.                                     *)
LEMMA QuietStep ==
  ASSUME TransportInv, NEW c \in Calls,
         \/ CtxEnds(c) \/ CannotSend(c) \/ Begin(c)
         \/ Refuse(c) \/ StartIngest(c) \/ EdgeEnds(c)
  PROVE  TransportInv'
<1> USE DEF TransportInv, bodyVars, clientVars, serverVars, Moves
<1>1. TypeOK'
  BY DEF CtxEnds, CannotSend, Begin, Refuse, Closes, StartIngest, EdgeEnds, TypeOK
<1>2. UpInv'
  <2>1. CASE CtxEnds(c) \/ CannotSend(c) \/ Refuse(c)
    BY <2>1 DEF CtxEnds, CannotSend, Refuse, TypeOK, UpInv, Framed
  <2>2. CASE Begin(c)
    BY <2>2 DEF Begin, TypeOK, UpInv, Framed
  <2>3. CASE StartIngest(c) \/ EdgeEnds(c)
    BY <2>3 DEF StartIngest, EdgeEnds, TypeOK, UpInv, Framed
  <2> QED
    BY <2>1, <2>2, <2>3
<1>3. AckInv'
  <2>1. CASE CtxEnds(c) \/ CannotSend(c)
    BY <2>1 DEF CtxEnds, CannotSend, TypeOK, AckInv
  <2>2. CASE Begin(c)
    BY <2>2 DEF Begin, TypeOK, AckInv
  <2>3. CASE Refuse(c)
    BY <2>3 DEF Refuse, Closes, TypeOK, AckInv
  <2>4. CASE StartIngest(c) \/ EdgeEnds(c)
    BY <2>4 DEF StartIngest, EdgeEnds, TypeOK, AckInv
  <2> QED
    BY <2>1, <2>2, <2>3, <2>4
<1>4. AckedIsWhole'
  BY DEF CtxEnds, CannotSend, Begin, Refuse, StartIngest, EdgeEnds, TypeOK, AckedIsWhole
<1>5. FinishedIsWhole'
  BY DEF CtxEnds, CannotSend, Begin, Refuse, StartIngest, EdgeEnds, TypeOK, FinishedIsWhole, Framed
<1> QED
  BY <1>1, <1>2, <1>3, <1>4, <1>5
-----------------------------------------------------------------------------
(* A block is written: into a stream that has not ended, as its sender is  *)
(* neither cut off nor gone.                                               *)
LEMMA WriteStep ==
  ASSUME TransportInv, NEW c \in Calls, Write(c)
  PROVE  TransportInv'
<1> USE DEF TransportInv, Write, bodyVars, serverVars
<1>1. TypeOK'
  BY DEF TypeOK
<1>2. UpInv'
  BY DEF TypeOK, UpInv, Framed
<1>3. AckInv' /\ AckedIsWhole' /\ FinishedIsWhole'
  BY DEF AckInv, AckedIsWhole, FinishedIsWhole, Framed
<1> QED
  BY <1>1, <1>2, <1>3

(* The whole body is written, and a stream that this ends is not short.    *)
LEMMA BodyWrittenStep ==
  ASSUME TransportInv, NEW c \in Calls, BodyWritten(c)
  PROVE  TransportInv'
<1> USE DEF TransportInv, BodyWritten, Moves, bodyVars, serverVars
<1>1. TypeOK'
  BY DEF TypeOK
<1>2. UpInv'
  BY DEF TypeOK, UpInv, Framed
<1>3. AckInv' /\ AckedIsWhole' /\ FinishedIsWhole'
  BY DEF TypeOK, AckInv, AckedIsWhole, FinishedIsWhole, Framed
<1> QED
  BY <1>1, <1>2, <1>3

(* The acknowledgement: its connection is there, so the response, which    *)
(* was finished, was whole.                                                *)
LEMMA ReadAckStep ==
  ASSUME TransportInv, NEW c \in Calls, ReadAck(c)
  PROVE  TransportInv'
<1> USE DEF TransportInv, ReadAck, Moves, bodyVars, serverVars
<1>1. edge[c] = "finished" /\ copied[c] = job[c].size
  BY DEF AckInv, FinishedIsWhole
<1>2. TypeOK'
  BY DEF TypeOK
<1>3. UpInv'
  BY DEF TypeOK, UpInv, Framed
<1>4. AckInv' /\ AckedIsWhole' /\ FinishedIsWhole'
  BY <1>1 DEF TypeOK, AckInv, AckedIsWhole, FinishedIsWhole, Framed
<1> QED
  BY <1>2, <1>3, <1>4

(* A sender gives up: over http its stream is aborted, otherwise it may    *)
(* end short, and the sender has failed.                                   *)
LEMMA GivesUpStep ==
  ASSUME TransportInv, NEW c \in Calls, BodyBreaks(c) \/ SendFails(c)
  PROVE  TransportInv'
<1>1. Sending(c) /\ GivesUp(c)
  BY DEF BodyBreaks, SendFails, Sending
<1>2. PICK end \in AfterGivingUp : up' = [up EXCEPT ![c] = IF @ = "open" THEN end ELSE @]
  BY <1>1 DEF GivesUp
<1>3. end \in {"ended", "aborted"} /\ (end = "ended" => Framed)
  BY DEF TransportInv, TypeOK, Transports, AfterGivingUp, Framed
<1> USE DEF TransportInv, GivesUp, Sending, bodyVars, serverVars
<1>4. TypeOK'
  BY <1>1, <1>2, <1>3 DEF TypeOK
<1>5. UpInv'
  BY <1>1, <1>2, <1>3 DEF TypeOK, UpInv, Framed
<1>6. AckInv' /\ AckedIsWhole' /\ FinishedIsWhole'
  BY <1>1 DEF TypeOK, AckInv, AckedIsWhole, FinishedIsWhole, Framed
<1> QED
  BY <1>4, <1>5, <1>6
-----------------------------------------------------------------------------
(* The edge passes a block on.                                             *)
LEMMA CopyStep ==
  ASSUME TransportInv, NEW c \in Calls, Copy(c)
  PROVE  TransportInv'
<1> USE DEF TransportInv, Copy, bodyVars, clientVars
<1>1. TypeOK'
  BY DEF TypeOK
<1>2. UpInv' /\ AckInv'
  BY DEF UpInv, AckInv, Framed
<1>3. AckedIsWhole' /\ FinishedIsWhole'
  BY DEF TypeOK, AckedIsWhole, FinishedIsWhole, Framed
<1> QED
  BY <1>1, <1>2, <1>3

(* The edge takes the body for whole: by its length, or as its stream has  *)
(* ended with nothing left of it.                                          *)
LEMMA CopyWholeStep ==
  ASSUME TransportInv, NEW c \in Calls, CopyWhole(c)
  PROVE  TransportInv'
<1> USE DEF TransportInv, CopyWhole, Moves, bodyVars, clientVars
<1>1. \/ copied[c] = job[c].size
      \/ ~job[c].known /\ up[c] = "ended" /\ copied[c] = written[c]
  BY DEF IsWhole, AtEnd
<1>2. client[c] # "ok"
  BY DEF AckedIsWhole
<1>3. TypeOK' /\ UpInv' /\ AckInv'
  BY DEF TypeOK, UpInv, AckInv, Framed
<1>4. FinishedIsWhole'
  BY <1>1, <1>2 DEF TypeOK, UpInv, FinishedIsWhole, Framed
<1>5. AckedIsWhole'
  BY <1>2 DEF AckedIsWhole
<1> QED
  BY <1>3, <1>4, <1>5

(* The copy fails: a response that was being written does not finish.      *)
LEMMA CopyFailsStep ==
  ASSUME TransportInv, NEW c \in Calls, CopyFails(c)
  PROVE  TransportInv'
<1> USE DEF TransportInv, CopyFails, Closes, Moves, bodyVars, clientVars
<1>1. edge[c] # "finished" /\ client[c] # "ok"
  BY DEF AckInv, AckedIsWhole
<1>2. TypeOK' /\ UpInv' /\ AckInv'
  BY <1>1 DEF TypeOK, UpInv, AckInv, Framed
<1>3. AckedIsWhole' /\ FinishedIsWhole'
  BY <1>1 DEF TypeOK, AckedIsWhole, FinishedIsWhole, Framed
<1> QED
  BY <1>2, <1>3

(* The edge acknowledges what it has finished, unless nobody hears it.     *)
LEMMA AckStep ==
  ASSUME TransportInv, NEW c \in Calls, Ack(c)
  PROVE  TransportInv'
<1> USE DEF TransportInv, Ack, Moves, bodyVars, clientVars
<1>1. TypeOK' /\ UpInv' /\ AckInv'
  BY DEF TypeOK, UpInv, AckInv, Framed
<1>2. AckedIsWhole' /\ FinishedIsWhole'
  BY DEF AckedIsWhole, FinishedIsWhole, Framed
<1> QED
  BY <1>1, <1>2
-----------------------------------------------------------------------------
(* A connection or a session fails: those on it are cut off, and hear no   *)
(* acknowledgement; only a framed session can end a stream short.          *)
LEMMA BreaksStep ==
  ASSUME TransportInv, NEW S \in SUBSET Calls, NEW end \in {"ended", "aborted"},
         end = "ended" => Framed, Breaks(S, end)
  PROVE  TransportInv'
<1> USE DEF TransportInv, Breaks, bodyVars, clientVars, serverVars
<1>1. TypeOK'
  BY TransportAssumption DEF TypeOK
<1>2. UpInv'
  BY DEF TypeOK, UpInv, Framed
<1>3. AckInv' /\ AckedIsWhole' /\ FinishedIsWhole'
  BY DEF TypeOK, AckInv, AckedIsWhole, FinishedIsWhole, Framed
<1> QED
  BY <1>1, <1>2, <1>3

LEMMA ConnectionStep ==
  ASSUME TransportInv, NEW c \in Calls, ConnectionFails(c) \/ SessionReset(c)
  PROVE  TransportInv'
<1>1. CASE ConnectionFails(c)
  <2>1. Together(c) \in SUBSET Calls
    BY DEF Together
  <2> QED
    BY <1>1, <2>1, BreaksStep DEF ConnectionFails
<1>2. CASE SessionReset(c)
  BY <1>2, BreaksStep DEF SessionReset, Framed
<1> QED
  BY <1>1, <1>2

(* One step of anyone, or a stutter.                                       *)
LEMMA NextInv == TransportInv /\ [Next]_vars => TransportInv'
<1> SUFFICES ASSUME TransportInv, [Next]_vars PROVE TransportInv'
  OBVIOUS
<1>1. ASSUME NEW c \in Calls, ConnectorStep(c) PROVE TransportInv'
  BY <1>1, QuietStep, WriteStep, BodyWrittenStep, ReadAckStep, GivesUpStep DEF ConnectorStep
<1>2. ASSUME NEW c \in Calls, EdgeStep(c) PROVE TransportInv'
  BY <1>2, QuietStep, CopyStep, CopyWholeStep, CopyFailsStep, AckStep DEF EdgeStep
<1>3. ASSUME NEW c \in Calls, CtxEnds(c) \/ EdgeEnds(c) PROVE TransportInv'
  BY <1>3, QuietStep
<1>4. ASSUME NEW c \in Calls, ConnectionFails(c) \/ SessionReset(c) PROVE TransportInv'
  BY <1>4, ConnectionStep
<1>5. CASE UNCHANGED vars
  BY <1>5 DEF vars, bodyVars, clientVars, serverVars, TransportInv, TypeOK, UpInv, AckInv,
              AckedIsWhole, FinishedIsWhole, Framed
<1> QED
  BY <1>1, <1>2, <1>3, <1>4, <1>5 DEF Next
-----------------------------------------------------------------------------
(* The inductive invariant of a transfer, over all four transports.        *)
THEOREM TransportInductive == Spec => []TransportInv
  BY InitInv, NextInv, PTL DEF Spec

(* A send that returns without an error has delivered every block: no end  *)
(* of stream, cut connection, reset session or late context is taken for   *)
(* an acknowledgement.                                                     *)
THEOREM AckedWhole == Spec => []AckedIsWhole
<1>1. TransportInv => AckedIsWhole
  BY DEF TransportInv
<1> QED
  BY <1>1, TransportInductive, PTL

(* copyBody at the edge finishes a response short only for a framed body   *)
(* of unknown length, and then its sender has failed or is cut off.        *)
THEOREM FinishedWhole == Spec => []FinishedIsWhole
<1>1. TransportInv => FinishedIsWhole
  BY DEF TransportInv
<1> QED
  BY <1>1, TransportInductive, PTL
=============================================================================
