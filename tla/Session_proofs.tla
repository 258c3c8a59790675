--------------------------- MODULE Session_proofs ---------------------------
(***************************************************************************)
(* Proofs about Session: what a session that resolved has done, for every  *)
(* length of the inputs, every kind of listener and either end.            *)
(***************************************************************************)
EXTENDS Session, TLAPS

LEMMA OtherEnd == \A e \in Ends : Other(e) \in Ends /\ Other(e) # e
BY DEF Ends, Other

LEMMA BoundIsNat == \A e \in Ends : Bound(e) \in Nat
BY ChunksAssumption DEF Bound
-----------------------------------------------------------------------------
(* What the actions that change the stream do to it, once and for all. *)

LEMMA InitTypes == Init => TypeOK
<1> SUFFICES ASSUME Init PROVE TypeOK
  OBVIOUS
<1> USE DEF Init, Stream!Init, Stream!Ends, Ends
<1>1. kind \in [Ends -> {"pipe", "kept", "socket", "exec"}]
  BY KindsAssumption
<1>2. sent \in [Ends -> Nat] /\ \A e \in Ends : sent[e] = 0
  OBVIOUS
<1>3. timer \in [Ends -> BOOLEAN]
  BY DEF HasTimer
<1>4. << >> \in Seq(Nat)
  OBVIOUS
<1>5. output \in [Ends -> Seq(Nat)] /\ got \in [Ends -> Seq(Nat)]
  BY <1>4
<1>6. \A e \in Ends : sent[e] <= Bound(e)
  BY <1>2, BoundIsNat
<1> QED BY <1>1, <1>2, <1>3, <1>5, <1>6 DEF TypeOK, Pump

(* The stream only changes the ways DuplexStream allows, and the parts of  *)
(* a step that touch it keep its types.                                    *)
StreamTypeOK == /\ sent \in [Ends -> Nat]
                /\ \A e \in Ends : sent[e] <= Bound(e)
                /\ got \in [Ends -> Seq(Nat)]
                /\ sealed \in [Ends -> BOOLEAN]
                /\ reader \in [Ends -> {"open", "ended", "failed"}]
                /\ cut \in BOOLEAN

StreamStep == Stream!Next \/ UNCHANGED streamVars

LEMMA CutTypes ==
  ASSUME StreamTypeOK, NEW e \in Ends, CutAt(e)
  PROVE  /\ StreamTypeOK' /\ StreamStep
         /\ cut' /\ UNCHANGED <<sent, got>>
         /\ \A a \in Ends : reader[a] # "open" => reader'[a] = reader[a]
BY DEF CutAt, Stream!Cut, Stream!Next, Stream!Ends, Ends,
    StreamStep, StreamTypeOK

LEMMA SealTypes ==
  ASSUME StreamTypeOK, NEW e \in Ends, Stream!Seal(e)
  PROVE  StreamTypeOK' /\ StreamStep
<1>1. sealed' \in [Ends -> BOOLEAN]
  BY DEF Stream!Seal, StreamTypeOK
<1> QED BY <1>1 DEF Stream!Seal, Stream!Next, Stream!Ends, Ends,
    StreamStep, StreamTypeOK

LEMMA SendTypes ==
  ASSUME StreamTypeOK, NEW e \in Ends, Stream!Send(e), sent[e] < Bound(e)
  PROVE  StreamTypeOK' /\ StreamStep
<1>1. sent' = [sent EXCEPT ![e] = sent[e] + 1]
  BY DEF Stream!Send
<1>2. sent' \in [Ends -> Nat]
  BY <1>1 DEF StreamTypeOK
<1>3. \A a \in Ends : sent'[a] <= Bound(a)
  BY <1>1, BoundIsNat DEF StreamTypeOK
<1> QED
  BY <1>2, <1>3 DEF Stream!Send, Stream!Next, Stream!Ends, Ends,
    StreamStep, StreamTypeOK

LEMMA DeliverTypes ==
  ASSUME StreamTypeOK, NEW e \in Ends, Stream!Deliver(e)
  PROVE  StreamTypeOK' /\ StreamStep
<1>1. got' = [got EXCEPT ![e] = Append(got[e], Len(got[e]) + 1)]
  BY DEF Stream!Deliver
<1>2. got' \in [Ends -> Seq(Nat)]
  BY <1>1 DEF StreamTypeOK
<1> QED BY <1>2 DEF Stream!Deliver, Stream!Next, Stream!Ends, Ends,
    StreamStep, StreamTypeOK

LEMMA EndTypes ==
  ASSUME StreamTypeOK, NEW e \in Ends, Stream!EndOfStream(e)
  PROVE  /\ StreamTypeOK' /\ StreamStep
         /\ \A a \in Ends : sealed[a] => sealed'[a]
<1>1. PICK s \in BOOLEAN : sealed' = [sealed EXCEPT ![e] = sealed[e] \/ s]
  BY DEF Stream!EndOfStream
<1>2. sealed' \in [Ends -> BOOLEAN] /\ \A a \in Ends : sealed[a] => sealed'[a]
  BY <1>1 DEF StreamTypeOK
<1>3. reader' \in [Ends -> {"open", "ended", "failed"}]
  BY DEF Stream!EndOfStream, StreamTypeOK
<1>4. UNCHANGED <<sent, got, cut>>
  BY DEF Stream!EndOfStream
<1>5. StreamTypeOK'
  BY <1>2, <1>3, <1>4 DEF StreamTypeOK
<1> QED BY <1>2, <1>5 DEF Stream!Next, StreamStep, Stream!Ends, Ends
-----------------------------------------------------------------------------
(* Types. *)

OwnTypeOK == /\ kind \in [Ends -> {"pipe", "kept", "socket", "exec"}]
             /\ broken \in [Ends -> BOOLEAN]
             /\ exited \in [Ends -> BOOLEAN]
             /\ sending \in [Ends -> Pump \cup {"delaying", "closing"}]
             /\ receiving \in [Ends -> Pump]
             /\ output \in [Ends -> Seq(Nat)]
             /\ outEnded \in [Ends -> BOOLEAN]
             /\ timer \in [Ends -> BOOLEAN]
             /\ session \in
                  [Ends -> {"running", "resolved", "rejected", "left",
                            "crashed"}]

LEMMA TypeParts == TypeOK <=> OwnTypeOK /\ StreamTypeOK
BY DEF TypeOK, OwnTypeOK, StreamTypeOK

(* Abort and the catch of inputToP2P break the stream or leave it alone. *)
LEMMA AbortTypes ==
  ASSUME StreamTypeOK, NEW e \in Ends, Abort(e)
  PROVE  /\ StreamTypeOK' /\ StreamStep /\ UNCHANGED <<sent, got>>
         /\ \A a \in Ends : reader[a] # "open" => reader'[a] = reader[a]
<1>1. CASE CutAt(e)
  BY <1>1, CutTypes
<1>2. CASE UNCHANGED streamVars
  BY <1>2 DEF streamVars, StreamTypeOK, StreamStep
<1> QED BY <1>1, <1>2 DEF Abort

(* What every step does to the stream. *)
LEMMA StreamTypes ==
  ASSUME StreamTypeOK, [Next]_vars
  PROVE  StreamTypeOK' /\ StreamStep
<1>1. CASE UNCHANGED streamVars
  BY <1>1 DEF streamVars, StreamTypeOK, StreamStep
<1>2. ASSUME NEW e \in Ends, PumpChunk(e)
      PROVE  StreamTypeOK' /\ StreamStep
  BY <1>2, AbortTypes, SendTypes DEF PumpChunk, SendingFails
<1>3. ASSUME NEW e \in Ends, PumpEnds(e)
      PROVE  StreamTypeOK' /\ StreamStep
  BY <1>1, <1>3, SealTypes DEF PumpEnds, CloseStream
<1>4. ASSUME NEW e \in Ends, Pumping(e)
      PROVE  StreamTypeOK' /\ StreamStep
  BY <1>1, <1>4, AbortTypes, SealTypes
  DEF Pumping, PumpDrained, PumpDelayOver, PumpClosed, PumpBreaks,
      CloseStream, SendingFails
<1>5. ASSUME NEW e \in Ends, Receiving(e)
      PROVE  StreamTypeOK' /\ StreamStep
  BY <1>1, <1>5, DeliverTypes, EndTypes
  DEF Receiving, ReceiveChunk, OutputDrained, ReceiveEnds
<1>6. ASSUME NEW e \in Ends, Waiting(e)
      PROVE  StreamTypeOK' /\ StreamStep
  BY <1>1, <1>6, AbortTypes
  DEF Waiting, BridgeResolves, BridgeRejects, ExecReturns, ProcessLeaves
<1>7. ASSUME NEW e \in Ends, Unhandled(e)
      PROVE  StreamTypeOK' /\ StreamStep
  BY <1>7, AbortTypes DEF Unhandled, Crash
<1>8. ASSUME NEW e \in Ends, TimerFires(e)
      PROVE  StreamTypeOK' /\ StreamStep
  BY <1>8, AbortTypes DEF TimerFires
<1>9. ASSUME NEW e \in Ends, Surroundings(e)
      PROVE  StreamTypeOK' /\ StreamStep
  BY <1>1, <1>9, CutTypes, AbortTypes
  DEF Surroundings, SocketBreaks, StdoutBreaks, StdinBreaks, ChildExits,
      StreamBreaks, Crash
<1>10. CASE UNCHANGED vars
  BY <1>1, <1>10 DEF vars
<1> QED
  BY <1>2, <1>3, <1>4, <1>5, <1>6, <1>7, <1>8, <1>9, <1>10 DEF Next

LEMMA TimerTypes ==
  ASSUME OwnTypeOK, NEW e \in Ends, Active(e)
  PROVE  timer' \in [Ends -> BOOLEAN]
<1>1. HasTimer(e) \in BOOLEAN
  BY DEF HasTimer
<1> QED BY <1>1 DEF Active, OwnTypeOK

LEMMA WriteTypes ==
  ASSUME OwnTypeOK, StreamTypeOK, NEW e \in Ends, Write(e)
  PROVE  /\ output' = [output EXCEPT ![e] = Append(@, Len(got[e]) + 1)]
         /\ output' \in [Ends -> Seq(Nat)]
         /\ receiving' \in [Ends -> Pump]
         /\ receiving' \in {[receiving EXCEPT ![e] = r] :
                              r \in {"reading", "draining"}}
<1>1. Len(got[e]) + 1 \in Nat
  BY DEF StreamTypeOK
<1>2. output' = [output EXCEPT ![e] = Append(output[e], Len(got[e]) + 1)]
  BY DEF Write
<1>3. output' \in [Ends -> Seq(Nat)]
  BY <1>1, <1>2 DEF OwnTypeOK
<1>4. PICK r \in {"reading", "draining"} :
        receiving' = [receiving EXCEPT ![e] = r]
  BY DEF Write
<1> QED BY <1>2, <1>3, <1>4 DEF OwnTypeOK, Pump

LEMMA OwnTypes ==
  ASSUME OwnTypeOK, StreamTypeOK, [Next]_vars
  PROVE  OwnTypeOK'
<1> USE DEF OwnTypeOK, Pump, envVars, endVars
<1>1. ASSUME NEW e \in Ends, PumpChunk(e) PROVE OwnTypeOK'
  <2>1. timer' \in [Ends -> BOOLEAN]
    BY <1>1, TimerTypes DEF PumpChunk
  <2>2. sending' \in [Ends -> Pump \cup {"delaying", "closing"}]
    <3>1. PICK s \in Pump : sending' = [sending EXCEPT ![e] = s]
      BY <1>1 DEF PumpChunk, SendingFails
    <3> QED BY <3>1
  <2>3. UNCHANGED <<kind, broken, exited, receiving, output, outEnded, session>>
    BY <1>1 DEF PumpChunk
  <2> QED BY <2>1, <2>2, <2>3
<1>2. ASSUME NEW e \in Ends, PumpEnds(e) PROVE OwnTypeOK'
  BY <1>2 DEF PumpEnds, CloseStream
<1>3. ASSUME NEW e \in Ends, Pumping(e) PROVE OwnTypeOK'
  BY <1>3 DEF Pumping, PumpDrained, PumpDelayOver, PumpClosed, PumpBreaks,
              CloseStream, SendingFails
<1>4. ASSUME NEW e \in Ends, ReceiveChunk(e) PROVE OwnTypeOK'
  BY <1>4, TimerTypes, WriteTypes DEF ReceiveChunk
<1>5. ASSUME NEW e \in Ends, OutputDrained(e) PROVE OwnTypeOK'
  BY <1>5 DEF OutputDrained
<1>6. ASSUME NEW e \in Ends, ReceiveEnds(e) PROVE OwnTypeOK'
  BY <1>6 DEF ReceiveEnds, PumpOver
<1>7. ASSUME NEW e \in Ends, BridgeResolves(e) PROVE OwnTypeOK'
  BY <1>7 DEF BridgeResolves, Settle
<1>8. ASSUME NEW e \in Ends, BridgeRejects(e) PROVE OwnTypeOK'
  BY <1>8 DEF BridgeRejects, Settle
<1>9. ASSUME NEW e \in Ends, ExecReturns(e) PROVE OwnTypeOK'
  BY <1>9 DEF ExecReturns
<1>10. ASSUME NEW e \in Ends, Unhandled(e) PROVE OwnTypeOK'
  BY <1>10 DEF Unhandled, Crash
<1>11. ASSUME NEW e \in Ends, TimerFires(e) PROVE OwnTypeOK'
  BY <1>11 DEF TimerFires
<1>12. ASSUME NEW e \in Ends, SocketBreaks(e) PROVE OwnTypeOK'
  BY <1>12 DEF SocketBreaks
<1>13. ASSUME NEW e \in Ends, StdinBreaks(e) PROVE OwnTypeOK'
  BY <1>13 DEF StdinBreaks, PumpOver
<1>14. ASSUME NEW e \in Ends, ChildExits(e) PROVE OwnTypeOK'
  BY <1>14 DEF ChildExits
<1>15. ASSUME NEW e \in Ends, StreamBreaks(e) PROVE OwnTypeOK'
  BY <1>15 DEF StreamBreaks
<1>16. CASE UNCHANGED vars
  BY <1>16 DEF vars
<1>17. ASSUME NEW e \in Ends, StdoutBreaks(e) PROVE OwnTypeOK'
  BY <1>17 DEF StdoutBreaks, Crash
<1>18. ASSUME NEW e \in Ends, ProcessLeaves(e) PROVE OwnTypeOK'
  BY <1>18 DEF ProcessLeaves
<1> QED
  BY <1>1, <1>2, <1>3, <1>4, <1>5, <1>6, <1>7, <1>8, <1>9, <1>10, <1>11,
     <1>12, <1>13, <1>14, <1>15, <1>16, <1>17, <1>18
  DEF Next, Receiving, Waiting, Surroundings

(* The two ends of a session over an abstract stream are well typed in     *)
(* every reachable state, however long their inputs are.                   *)
THEOREM TypeCorrect == Spec => []TypeOK
<1>1. TypeOK /\ [Next]_vars => TypeOK'
  BY TypeParts, StreamTypes, OwnTypes DEF TypeOK, OwnTypeOK, StreamTypeOK
<1> QED BY InitTypes, <1>1, PTL DEF Spec

(* The sessions use the stream as DuplexStream allows and in no other way: *)
(* whatever carries DuplexStream can carry the sessions of src/session.js. *)
THEOREM UsesDuplexStream == Spec => Stream!Spec
<1>1. Init => Stream!Init
  BY DEF Init
<1>2. TypeOK /\ [Next]_vars => [Stream!Next]_(Stream!vars)
  BY TypeParts, StreamTypes DEF StreamStep, streamVars, Stream!vars
<1> QED BY <1>1, <1>2, TypeCorrect, PTL DEF Spec, Stream!Spec
-----------------------------------------------------------------------------
(* What DuplexStream promises, as invariants: the reader was handed the    *)
(* chunks in order, and its clean end, if nobody cut the stream, came      *)
(* after all of them and after the other end had sealed its side.          *)
InSequence == \A e \in Ends : \A i \in 1..Len(got[e]) : got[e][i] = i

EndsLast == \A e \in Ends :
  reader[e] = "ended" /\ ~cut =>
    sealed[Other(e)] /\ Len(got[e]) = sent[Other(e)]

LEMMA OtherIsOther == \A e \in Ends : Stream!Other(e) = Other(e)
BY DEF Stream!Other, Other

LEMMA AppendNext ==
  ASSUME NEW s \in Seq(Nat), \A i \in 1..Len(s) : s[i] = i,
         NEW t, t = Append(s, Len(s) + 1)
  PROVE  \A i \in 1..Len(t) : t[i] = i
<1>1. TAKE i \in 1..Len(t)
<1>2. Len(t) = Len(s) + 1
  OBVIOUS
<1>3. CASE i = Len(s) + 1
  BY <1>3
<1>4. CASE i \in 1..Len(s)
  BY <1>4
<1> QED BY <1>1, <1>2, <1>3, <1>4

LEMMA StreamSequence ==
  ASSUME StreamTypeOK, InSequence, StreamStep
  PROVE  InSequence'
<1>1. CASE UNCHANGED got
  BY <1>1 DEF InSequence
<1>2. ASSUME NEW e \in Ends, Stream!Deliver(e) PROVE InSequence'
  <2>1. got' = [got EXCEPT ![e] = Append(got[e], Len(got[e]) + 1)]
    BY <1>2 DEF Stream!Deliver
  <2>2. \A a \in Ends : a # e => got'[a] = got[a]
    BY <2>1 DEF StreamTypeOK
  <2>3. got[e] \in Seq(Nat) /\ got'[e] = Append(got[e], Len(got[e]) + 1)
    BY <2>1 DEF StreamTypeOK
  <2>4. \A i \in 1..Len(got'[e]) : got'[e][i] = i
    BY <2>3, AppendNext DEF InSequence
  <2> QED BY <2>2, <2>4 DEF InSequence
<1> QED
  BY <1>1, <1>2 DEF StreamStep, streamVars, Stream!Next, Stream!Ends, Ends,
    Stream!Cut, Stream!Send, Stream!Seal, Stream!EndOfStream

LEMMA StreamEndsLast ==
  ASSUME StreamTypeOK, EndsLast, StreamStep
  PROVE  EndsLast'
<1> USE OtherEnd, OtherIsOther DEF EndsLast, StreamTypeOK
<1>1. CASE Stream!Cut
  BY <1>1 DEF Stream!Cut
<1>2. ASSUME NEW e \in Ends, Stream!Send(e) PROVE EndsLast'
  BY <1>2 DEF Stream!Send
<1>3. ASSUME NEW e \in Ends, Stream!Deliver(e) PROVE EndsLast'
  <2>1. UNCHANGED <<sent, sealed, reader, cut>> /\ reader[e] = "open"
    BY <1>3 DEF Stream!Deliver
  <2>2. \A a \in Ends : a # e => got'[a] = got[a]
    BY <1>3 DEF Stream!Deliver
  <2> QED BY <2>1, <2>2
<1>4. ASSUME NEW e \in Ends, Stream!Seal(e) PROVE EndsLast'
  BY <1>4 DEF Stream!Seal
<1>5. ASSUME NEW e \in Ends, Stream!EndOfStream(e) PROVE EndsLast'
  <2>1. UNCHANGED <<sent, got, cut>> /\ \A a \in Ends : sealed[a] => sealed'[a]
    BY <1>5, EndTypes DEF Stream!EndOfStream
  <2>2. \A a \in Ends : a # e => reader'[a] = reader[a]
    BY <1>5 DEF Stream!EndOfStream
  <2>3. cut \/ (sealed[Other(e)] /\ Len(got[e]) = sent[Other(e)])
    BY <1>5 DEF Stream!EndOfStream
  <2> QED BY <2>1, <2>2, <2>3
<1>6. CASE UNCHANGED streamVars
  BY <1>6 DEF streamVars
<1> QED BY <1>1, <1>2, <1>3, <1>4, <1>5, <1>6
        DEF StreamStep, Stream!Next, Stream!Ends, Ends
-----------------------------------------------------------------------------
(* What the sessions add. *)

(* The output of an end is what its reader was handed. *)
WritesAll == \A e \in Ends : output[e] = got[e]

(* A pump is done only after the clean end of what it reads. *)
DoneAtEnd == \A e \in Ends : receiving[e] = "done" => reader[e] = "ended"

(* Only a bridge with a timeout has a timer, and a session that resolved   *)
(* has no pump left that could arm it.                                     *)
Quiet(e) == /\ BothOver(e) /\ ~timer[e]
            /\ kind[e] # "exec" => BothDone(e)

QuietInv == \A e \in Ends : /\ timer[e] => HasTimer(e)
                            /\ session[e] = "resolved" => Quiet(e)

Inv == TypeOK /\ InSequence /\ EndsLast /\ WritesAll /\ DoneAtEnd /\ QuietInv

LEMMA InitInv == Init => Inv
<1> SUFFICES ASSUME Init PROVE Inv
  OBVIOUS
<1>1. TypeOK
  BY InitTypes
<1>2. \A e \in Ends : got[e] = << >> /\ output[e] = << >> /\ reader[e] = "open"
  BY DEF Init, Stream!Init, Stream!Ends, Ends
<1>3. InSequence /\ EndsLast /\ WritesAll
  BY <1>2 DEF InSequence, EndsLast, WritesAll
<1>4. DoneAtEnd
  BY DEF Init, DoneAtEnd
<1>5. QuietInv
  BY DEF Init, QuietInv
<1> QED BY <1>1, <1>3, <1>4, <1>5 DEF Inv

LEMMA KeepsWritesAll ==
  ASSUME TypeOK, WritesAll, [Next]_vars
  PROVE  WritesAll'
<1>0. OwnTypeOK /\ StreamTypeOK
  BY TypeParts
<1>1. CASE UNCHANGED <<got, output>>
  BY <1>1 DEF WritesAll
<1>2. ASSUME NEW e \in Ends, ReceiveChunk(e) PROVE WritesAll'
  <2>1. /\ output' = [output EXCEPT ![e] = Append(output[e], Len(got[e]) + 1)]
        /\ got' = [got EXCEPT ![e] = Append(got[e], Len(got[e]) + 1)]
    BY <1>0, <1>2, WriteTypes DEF ReceiveChunk, Stream!Deliver
  <2> QED BY <1>0, <2>1 DEF WritesAll, OwnTypeOK, StreamTypeOK
<1>3. ASSUME NEW e \in Ends, PumpChunk(e) PROVE UNCHANGED <<got, output>>
  BY <1>0, <1>3, AbortTypes DEF PumpChunk, SendingFails, Stream!Send
<1>4. ASSUME NEW e \in Ends, PumpEnds(e) PROVE UNCHANGED <<got, output>>
  BY <1>4 DEF PumpEnds, CloseStream, Stream!Seal, streamVars
<1>5. ASSUME NEW e \in Ends, Pumping(e) PROVE UNCHANGED <<got, output>>
  BY <1>0, <1>5, AbortTypes
  DEF Pumping, PumpDrained, PumpDelayOver, PumpClosed, PumpBreaks,
      CloseStream, SendingFails, Stream!Seal, streamVars
<1>6. ASSUME NEW e \in Ends, OutputDrained(e) \/ ReceiveEnds(e)
      PROVE  UNCHANGED <<got, output>>
  BY <1>6 DEF OutputDrained, ReceiveEnds, Stream!EndOfStream, streamVars
<1>7. ASSUME NEW e \in Ends, Waiting(e) PROVE UNCHANGED <<got, output>>
  BY <1>0, <1>7, AbortTypes
  DEF Waiting, BridgeResolves, BridgeRejects, ExecReturns, ProcessLeaves,
      streamVars
<1>8. ASSUME NEW e \in Ends, Unhandled(e) \/ TimerFires(e)
      PROVE  UNCHANGED <<got, output>>
  BY <1>0, <1>8, AbortTypes DEF Unhandled, Crash, TimerFires
<1>9. ASSUME NEW e \in Ends, Surroundings(e) PROVE UNCHANGED <<got, output>>
  BY <1>0, <1>9, CutTypes, AbortTypes
  DEF Surroundings, SocketBreaks, StdoutBreaks, StdinBreaks, ChildExits,
      StreamBreaks, Crash, streamVars
<1>10. CASE UNCHANGED vars
  BY <1>1, <1>10 DEF vars, streamVars
<1> QED BY <1>1, <1>2, <1>3, <1>4, <1>5, <1>6, <1>7, <1>8, <1>9, <1>10
        DEF Next, Receiving

(* A reading that has ended stays ended. *)
LEMMA EndIsFinal ==
  ASSUME StreamTypeOK, StreamStep
  PROVE  \A e \in Ends : reader[e] = "ended" => reader'[e] = "ended"
BY DEF StreamStep, streamVars, StreamTypeOK, Stream!Next, Stream!Ends, Ends,
   Stream!Cut, Stream!Send, Stream!Deliver, Stream!Seal, Stream!EndOfStream

LEMMA KeepsDoneAtEnd ==
  ASSUME TypeOK, DoneAtEnd, [Next]_vars
  PROVE  DoneAtEnd'
<1>0. OwnTypeOK /\ StreamTypeOK
  BY TypeParts
<1>1. \A e \in Ends : reader[e] = "ended" => reader'[e] = "ended"
  BY <1>0, StreamTypes, EndIsFinal
<1>2. ASSUME \A a \in Ends : receiving'[a] = "done" => receiving[a] = "done"
      PROVE  DoneAtEnd'
  BY <1>1, <1>2 DEF DoneAtEnd
<1>3. CASE UNCHANGED receiving
  BY <1>2, <1>3
<1>4. ASSUME NEW e \in Ends, ReceiveChunk(e) PROVE DoneAtEnd'
  <2>1. PICK r \in {"reading", "draining"} :
          receiving' = [receiving EXCEPT ![e] = r]
    BY <1>0, <1>4, WriteTypes DEF ReceiveChunk
  <2>2. \A a \in Ends : receiving'[a] = "done" => receiving[a] = "done"
    BY <1>0, <2>1 DEF OwnTypeOK
  <2> QED BY <1>2, <2>2
<1>5. ASSUME NEW e \in Ends, OutputDrained(e) PROVE DoneAtEnd'
  BY <1>0, <1>2, <1>5 DEF OutputDrained, OwnTypeOK
<1>6. ASSUME NEW e \in Ends, ReceiveEnds(e) PROVE DoneAtEnd'
  <2>1. /\ \A a \in Ends : a # e => receiving'[a] = receiving[a]
        /\ receiving'[e] = "done" => Stream!EndOfStream(e)
    BY <1>0, <1>6 DEF ReceiveEnds, OwnTypeOK
  <2>2. Stream!EndOfStream(e) => reader'[e] = "ended"
    BY <1>0 DEF Stream!EndOfStream, StreamTypeOK
  <2> QED BY <1>1, <2>1, <2>2 DEF DoneAtEnd
<1>7. ASSUME NEW e \in Ends, SocketBreaks(e) PROVE DoneAtEnd'
  BY <1>0, <1>2, <1>7 DEF SocketBreaks, OwnTypeOK
<1>8. ASSUME NEW e \in Ends, StdinBreaks(e) PROVE DoneAtEnd'
  BY <1>0, <1>2, <1>8 DEF StdinBreaks, OwnTypeOK
<1>9. ASSUME NEW e \in Ends, PumpChunk(e) \/ PumpEnds(e) \/ Pumping(e)
      PROVE  UNCHANGED receiving
  BY <1>9 DEF PumpChunk, PumpEnds, Pumping, PumpDrained, PumpDelayOver,
              PumpClosed, PumpBreaks
<1>10. ASSUME NEW e \in Ends, Waiting(e) \/ Unhandled(e) \/ TimerFires(e)
       PROVE  UNCHANGED receiving
  BY <1>10 DEF Waiting, BridgeResolves, BridgeRejects, ExecReturns,
               ProcessLeaves, Unhandled, TimerFires
<1>11. ASSUME NEW e \in Ends, ChildExits(e) \/ StreamBreaks(e)
       PROVE  UNCHANGED receiving
  BY <1>11 DEF ChildExits, StreamBreaks
<1>12. CASE UNCHANGED vars
  BY <1>3, <1>12 DEF vars
<1>13. ASSUME NEW e \in Ends, StdoutBreaks(e) PROVE DoneAtEnd'
  BY <1>0, <1>2, <1>13 DEF StdoutBreaks, OwnTypeOK
<1> QED BY <1>3, <1>4, <1>5, <1>6, <1>7, <1>8, <1>9, <1>10, <1>11, <1>12, <1>13
        DEF Next, Receiving, Surroundings

(* What every step does to a pump that is over, ... *)
PumpsStay == /\ kind' = kind
             /\ \A a \in Ends : /\ sending[a] \in {"done", "failed"} =>
                                     sending'[a] = sending[a]
                                /\ receiving[a] \in {"done", "failed"} =>
                                     receiving'[a] = receiving[a]

(* ... to the timers, ... *)
TimersStay == \A a \in Ends :
  timer'[a] => \/ timer[a]
               \/ /\ HasTimer(a)
                  /\ sending[a] = "reading" \/ receiving[a] = "reading"

(* ... and to the sessions. *)
SessionsStay == \A a \in Ends :
  session'[a] = "resolved" =>
    \/ session[a] = "resolved"
    \/ kind[a] # "exec" /\ BothDone(a) /\ ~timer'[a]
    \/ kind[a] = "exec" /\ BothOver(a) /\ timer' = timer

LEMMA KeepsPumps ==
  ASSUME OwnTypeOK, StreamTypeOK, [Next]_vars
  PROVE  PumpsStay
<1> USE DEF OwnTypeOK, PumpsStay, envVars, endVars
<1>1. ASSUME NEW e \in Ends, PumpChunk(e) PROVE PumpsStay
  BY <1>1 DEF PumpChunk, SendingFails
<1>2. ASSUME NEW e \in Ends, PumpEnds(e) PROVE PumpsStay
  BY <1>2 DEF PumpEnds, CloseStream
<1>3. ASSUME NEW e \in Ends, Pumping(e) PROVE PumpsStay
  BY <1>3 DEF Pumping, PumpDrained, PumpDelayOver, PumpClosed, PumpBreaks,
              CloseStream, SendingFails
<1>4. ASSUME NEW e \in Ends, ReceiveChunk(e) PROVE PumpsStay
  <2>1. PICK r \in {"reading", "draining"} :
          receiving' = [receiving EXCEPT ![e] = r]
    BY <1>4, WriteTypes DEF ReceiveChunk
  <2>2. receiving[e] = "reading" /\ UNCHANGED <<kind, sending>>
    BY <1>4 DEF ReceiveChunk
  <2> QED BY <2>1, <2>2
<1>5. ASSUME NEW e \in Ends, OutputDrained(e) \/ ReceiveEnds(e)
      PROVE  PumpsStay
  BY <1>5 DEF OutputDrained, ReceiveEnds
<1>6. ASSUME NEW e \in Ends, Waiting(e) \/ Unhandled(e) \/ TimerFires(e)
      PROVE  PumpsStay
  BY <1>6 DEF Waiting, BridgeResolves, BridgeRejects, ExecReturns,
              ProcessLeaves, Unhandled, TimerFires
<1>7. ASSUME NEW e \in Ends, Surroundings(e) PROVE PumpsStay
  BY <1>7 DEF Surroundings, SocketBreaks, StdoutBreaks, StdinBreaks,
              ChildExits, StreamBreaks
<1>8. CASE UNCHANGED vars
  BY <1>8 DEF vars
<1> QED BY <1>1, <1>2, <1>3, <1>4, <1>5, <1>6, <1>7, <1>8 DEF Next, Receiving

LEMMA KeepsTimers ==
  ASSUME OwnTypeOK, [Next]_vars
  PROVE  TimersStay
<1> USE DEF OwnTypeOK, TimersStay, endVars
<1>1. CASE UNCHANGED timer
  BY <1>1
<1>2. ASSUME NEW e \in Ends, Active(e),
             sending[e] = "reading" \/ receiving[e] = "reading"
      PROVE  TimersStay
  <2>1. \A a \in Ends : timer'[a] => timer[a] \/ (a = e /\ HasTimer(e))
    BY <1>2 DEF Active
  <2> QED BY <1>2, <2>1
<1>3. ASSUME NEW e \in Ends, PumpChunk(e) PROVE TimersStay
  BY <1>2, <1>3 DEF PumpChunk
<1>4. ASSUME NEW e \in Ends, ReceiveChunk(e) PROVE TimersStay
  BY <1>2, <1>4 DEF ReceiveChunk
<1>5. ASSUME NEW e \in Ends, BridgeResolves(e) \/ BridgeRejects(e)
      PROVE  TimersStay
  BY <1>5 DEF BridgeResolves, BridgeRejects, Settle
<1>6. ASSUME NEW e \in Ends, TimerFires(e) PROVE TimersStay
  BY <1>6 DEF TimerFires
<1>7. ASSUME NEW e \in Ends, PumpEnds(e) \/ Pumping(e) PROVE UNCHANGED timer
  BY <1>7 DEF PumpEnds, Pumping, PumpDrained, PumpDelayOver, PumpClosed,
              PumpBreaks
<1>8. ASSUME NEW e \in Ends, OutputDrained(e) \/ ReceiveEnds(e)
      PROVE  UNCHANGED timer
  BY <1>8 DEF OutputDrained, ReceiveEnds
<1>9. ASSUME NEW e \in Ends, ExecReturns(e) \/ ProcessLeaves(e)
      PROVE  UNCHANGED timer
  BY <1>9 DEF ExecReturns, ProcessLeaves
<1>10. ASSUME NEW e \in Ends, SocketBreaks(e) \/ StdinBreaks(e)
       PROVE  UNCHANGED timer
  BY <1>10 DEF SocketBreaks, StdinBreaks
<1>11. CASE UNCHANGED vars
  BY <1>1, <1>11 DEF vars
<1>12. ASSUME NEW e \in Ends, Crash(e) PROVE TimersStay
  BY <1>12 DEF Crash
<1>13. ASSUME NEW e \in Ends, ChildExits(e) \/ StreamBreaks(e)
       PROVE  UNCHANGED timer
  BY <1>13 DEF ChildExits, StreamBreaks
<1>14. ASSUME NEW e \in Ends, Unhandled(e) \/ StdoutBreaks(e)
       PROVE  TimersStay
  BY <1>1, <1>12, <1>14 DEF Unhandled, StdoutBreaks
<1> QED BY <1>1, <1>3, <1>4, <1>5, <1>6, <1>7, <1>8, <1>9, <1>10, <1>11,
           <1>13, <1>14
        DEF Next, Receiving, Waiting, Surroundings

LEMMA KeepsSessions ==
  ASSUME OwnTypeOK, [Next]_vars
  PROVE  SessionsStay
<1> USE DEF OwnTypeOK, SessionsStay, endVars
<1>1. CASE UNCHANGED session
  BY <1>1
<1>2. ASSUME NEW e \in Ends, BridgeResolves(e) PROVE SessionsStay
  <2>1. /\ session' = [session EXCEPT ![e] = "resolved"]
        /\ timer' = [timer EXCEPT ![e] = FALSE]
        /\ kind[e] # "exec" /\ BothDone(e)
    BY <1>2 DEF BridgeResolves, Settle
  <2> QED BY <2>1
<1>3. ASSUME NEW e \in Ends, BridgeRejects(e) PROVE SessionsStay
  BY <1>3 DEF BridgeRejects, Settle
<1>4. ASSUME NEW e \in Ends, ExecReturns(e) PROVE SessionsStay
  BY <1>4 DEF ExecReturns
<1>5. ASSUME NEW e \in Ends,
             Unhandled(e) \/ ProcessLeaves(e) \/ StdoutBreaks(e)
      PROVE  SessionsStay
  <2>1. CASE session' = [session EXCEPT ![e] = "crashed"]
    BY <2>1
  <2>2. CASE session' = [session EXCEPT ![e] = "left"]
    BY <2>2
  <2> QED BY <1>1, <1>5, <2>1, <2>2
          DEF Unhandled, ProcessLeaves, StdoutBreaks, Crash
<1>6. ASSUME NEW e \in Ends, PumpChunk(e) \/ PumpEnds(e) \/ Pumping(e)
      PROVE  UNCHANGED session
  BY <1>6 DEF PumpChunk, PumpEnds, Pumping, PumpDrained, PumpDelayOver,
              PumpClosed, PumpBreaks
<1>7. ASSUME NEW e \in Ends, Receiving(e) \/ TimerFires(e)
      PROVE  UNCHANGED session
  BY <1>7 DEF Receiving, ReceiveChunk, OutputDrained, ReceiveEnds, TimerFires
<1>8. ASSUME NEW e \in Ends,
             \/ SocketBreaks(e) \/ StdinBreaks(e)
             \/ ChildExits(e) \/ StreamBreaks(e)
      PROVE  UNCHANGED session
  BY <1>8 DEF SocketBreaks, StdinBreaks, ChildExits, StreamBreaks
<1>9. CASE UNCHANGED vars
  BY <1>1, <1>9 DEF vars
<1> QED BY <1>1, <1>2, <1>3, <1>4, <1>5, <1>6, <1>7, <1>8, <1>9
        DEF Next, Waiting, Surroundings

LEMMA KeepsQuiet ==
  ASSUME OwnTypeOK, QuietInv, PumpsStay, TimersStay, SessionsStay
  PROVE  QuietInv'
<1> SUFFICES ASSUME NEW a \in Ends
             PROVE  /\ timer'[a] => HasTimer(a)'
                    /\ session'[a] = "resolved" => Quiet(a)'
  BY DEF QuietInv
<1>1. HasTimer(a)' <=> HasTimer(a)
  BY DEF PumpsStay, HasTimer, Pipe
<1>2. timer'[a] => HasTimer(a)
  BY DEF TimersStay, QuietInv
<1>3. /\ BothOver(a) => BothOver(a)'
      /\ BothDone(a) => BothDone(a)'
      /\ BothDone(a) => BothOver(a)
  BY DEF PumpsStay, BothOver, BothDone
<1>4. BothOver(a) /\ timer'[a] => timer[a]
  BY DEF BothOver, TimersStay
<1>5. ASSUME session[a] = "resolved" PROVE Quiet(a)'
  BY <1>3, <1>4, <1>5 DEF Quiet, QuietInv, PumpsStay
<1>6. ASSUME kind[a] # "exec", BothDone(a), ~timer'[a] PROVE Quiet(a)'
  BY <1>3, <1>6 DEF Quiet, PumpsStay
<1>7. ASSUME kind[a] = "exec", BothOver(a) PROVE Quiet(a)'
  <2>1. ~timer'[a]
    BY <1>2, <1>7 DEF HasTimer, Pipe
  <2> QED BY <1>3, <1>7, <2>1 DEF Quiet, PumpsStay
<1> QED BY <1>1, <1>2, <1>5, <1>6, <1>7 DEF SessionsStay

LEMMA StepInv == Inv /\ [Next]_vars => Inv'
<1> SUFFICES ASSUME Inv, [Next]_vars PROVE Inv'
  OBVIOUS
<1>1. OwnTypeOK /\ StreamTypeOK /\ TypeOK
  BY TypeParts DEF Inv
<1>2. TypeOK' /\ StreamStep
  <2>1. StreamTypeOK' /\ OwnTypeOK' /\ StreamStep
    BY <1>1, StreamTypes, OwnTypes
  <2> QED BY <2>1 DEF TypeOK, OwnTypeOK, StreamTypeOK
<1>3. InSequence' /\ EndsLast'
  BY <1>1, <1>2, StreamSequence, StreamEndsLast DEF Inv
<1>4. WritesAll' /\ DoneAtEnd'
  BY <1>1, KeepsWritesAll, KeepsDoneAtEnd DEF Inv
<1>5. QuietInv'
  BY <1>1, KeepsPumps, KeepsTimers, KeepsSessions, KeepsQuiet DEF Inv
<1> QED BY <1>2, <1>3, <1>4, <1>5 DEF Inv

(* A bridge that resolved over a stream nobody cut has written everything  *)
(* the other end sent, in order, and the other end is over.                *)
THEOREM LosesNothing == Spec => []ResolvedIsComplete
<1>1. Inv => ResolvedIsComplete
  <2> SUFFICES ASSUME Inv, NEW e \in Ends
               PROVE  /\ \A i \in 1..Len(output[e]) : output[e][i] = i
                      /\ session[e] = "resolved" /\ kind[e] # "exec" /\ ~cut =>
                           /\ Len(output[e]) = sent[Other(e)]
                           /\ sealed[Other(e)]
    BY DEF ResolvedIsComplete
  <2>1. output[e] = got[e] /\ \A i \in 1..Len(output[e]) : output[e][i] = i
    BY DEF Inv, WritesAll, InSequence
  <2>2. ASSUME session[e] = "resolved", kind[e] # "exec"
        PROVE  reader[e] = "ended"
    BY <2>2 DEF Inv, QuietInv, Quiet, BothDone, DoneAtEnd
  <2> QED BY <2>1, <2>2 DEF Inv, EndsLast
<1> QED BY InitInv, StepInv, <1>1, PTL DEF Spec

(* A session that resolved has its timer off and no pump that could arm it *)
(* again: nothing of it can abort the stream any more.                     *)
THEOREM LeavesQuietly == Spec => []ResolvedIsQuiet
<1>1. Inv => ResolvedIsQuiet
  BY DEF Inv, QuietInv, Quiet, BothOver, ResolvedIsQuiet
<1> QED BY InitInv, StepInv, <1>1, PTL DEF Spec
-----------------------------------------------------------------------------
(* Nobody waits in vain.  The guards of what happens by itself, as ENABLED *)
(* is beyond the prover.                                                   *)
PumpGoes(e) == \/ Alive(e) /\ sending[e] \in {"draining", "closing"}
               \/ Alive(e) /\ sending[e] = "delaying"
               \/ Alive(e) /\ sending[e] = "reading" /\ broken[e]

EndCame(e) == cut \/ (sealed[Other(e)] /\ Len(got[e]) = sent[Other(e)])

ReadGoes(e) ==
  /\ Alive(e)
  /\ \/ /\ receiving[e] = "reading"
        /\ \/ reader[e] = "failed"
           \/ reader[e] = "open" /\ Len(got[e]) < sent[Other(e)]
           \/ reader[e] = "open" /\ EndCame(e)
     \/ receiving[e] = "draining" /\ ~Destroyed(e)

WaitGoes(e) ==
  /\ session[e] = "running"
  /\ \/ kind[e] # "exec" /\ (BothDone(e) \/ OneFailed(e))
     \/ kind[e] = "exec" /\ exited[e] /\ BothOver(e)

LeaveGoes(e) == kind[e] = "pipe" /\ session[e] = "rejected"

CanGo == \E e \in Ends : PumpGoes(e) \/ ReadGoes(e) \/ WaitGoes(e)

(* While both inputs are over and nothing disturbs the stream, some guard  *)
(* holds until both sessions have resolved; and as long as a rejected      *)
(* session has not sealed its side, its pump or its process has a step to  *)
(* take, but for the one that is left half-open because only the wait for  *)
(* stdout failed and the stdin is idle: the safety halves of               *)
(* BothEndsResolve and RejectedIsSealed.                                   *)
NobodyWaits ==
  /\ (\A e \in Ends : InputOver(e)) /\ ~Disturbed =>
       CanGo \/ \A e \in Ends : session[e] = "resolved" \/ kind[e] = "exec"
  /\ \A e \in Ends : session[e] = "rejected" =>
       sealed[e] \/ PumpGoes(e) \/ LeaveGoes(e) \/ HalfOpen(e)

(* A reader is never handed more than was sent. *)
Delivered == \A e \in Ends : Len(got[e]) <= sent[Other(e)]

(* Who is over has said so: a pump that closed or failed has sealed its    *)
(* side, an end or an error of the stream has reached the loop that reads  *)
(* it, unless its output failed, and a session fails only with a pump.     *)
SealsIt(e) == /\ sending[e] \in {"closing", "done", "failed"} => sealed[e]
              /\ reader[e] = "failed" => cut /\ sealed[e]

HearsIt(e) == /\ reader[e] = "ended" => receiving[e] = "done"
              /\ receiving[e] = "failed" =>
                   \/ reader[e] = "failed" \/ broken[e]
                   \/ kind[e] = "exec" \/ Pipe(e)
              /\ broken[e] => kind[e] = "socket"

TellsIt(e) == /\ session[e] = "rejected" =>
                   /\ kind[e] # "exec" /\ OneFailed(e)
                   /\ kind[e] = "socket" => broken[e]

Goes(e) == SealsIt(e) /\ HearsIt(e) /\ TellsIt(e)

GoesInv == Delivered /\ \A e \in Ends : Goes(e)

LEMMA DeliveredStays ==
  ASSUME StreamTypeOK, Delivered, StreamStep
  PROVE  Delivered'
<1> USE OtherEnd, OtherIsOther DEF Delivered, StreamTypeOK
<1>1. CASE UNCHANGED <<sent, got>>
  BY <1>1
<1>2. ASSUME NEW e \in Ends, Stream!Send(e) PROVE Delivered'
  <2>1. sent' = [sent EXCEPT ![e] = sent[e] + 1] /\ UNCHANGED got
    BY <1>2 DEF Stream!Send
  <2>2. \A a \in Ends : sent[a] \in Nat /\ sent[a] <= sent'[a]
    BY <2>1
  <2>3. \A a \in Ends : Len(got[a]) \in Nat
    OBVIOUS
  <2> QED BY <2>1, <2>2, <2>3
<1>3. ASSUME NEW e \in Ends, Stream!Deliver(e) PROVE Delivered'
  <2>1. /\ got' = [got EXCEPT ![e] = Append(got[e], Len(got[e]) + 1)]
        /\ UNCHANGED sent /\ Len(got[e]) < sent[Other(e)]
    BY <1>3 DEF Stream!Deliver
  <2>2. Len(got'[e]) = Len(got[e]) + 1 /\ Len(got[e]) \in Nat
    BY <2>1
  <2>3. \A a \in Ends : a # e => got'[a] = got[a]
    BY <2>1
  <2>4. sent[Other(e)] \in Nat /\ sent' = sent
    BY <2>1
  <2>5. Len(got'[e]) <= sent'[Other(e)]
    BY <2>1, <2>2, <2>4
  <2> QED BY <2>3, <2>4, <2>5
<1>4. ASSUME NEW e \in Ends,
             Stream!Seal(e) \/ Stream!EndOfStream(e) \/ Stream!Cut
      PROVE  UNCHANGED <<sent, got>>
  BY <1>4 DEF Stream!Seal, Stream!EndOfStream, Stream!Cut
<1> QED BY <1>1, <1>2, <1>3, <1>4
        DEF StreamStep, streamVars, Stream!Next, Stream!Ends, Ends

(* A step of one end leaves the other as it is. *)
SameAt(a) == /\ kind'[a] = kind[a] /\ broken'[a] = broken[a]
             /\ sending'[a] = sending[a] /\ receiving'[a] = receiving[a]
             /\ sealed'[a] = sealed[a] /\ reader'[a] = reader[a]
             /\ session'[a] = session[a]

LEMMA GoesAtOther ==
  ASSUME NEW a \in Ends, SameAt(a), Goes(a), cut => cut'
  PROVE  Goes(a)'
BY DEF SameAt, Goes, SealsIt, HearsIt, TellsIt, OneFailed, Pipe

(* What Abort does, seen from one end. *)
LEMMA AbortAt ==
  ASSUME StreamTypeOK, NEW e \in Ends, Abort(e)
  PROVE  /\ cut => cut'
         /\ \A a \in Ends : a # e =>
              sealed'[a] = sealed[a] /\ reader'[a] = reader[a]
         /\ sealed'[e]
         /\ \/ reader'[e] = reader[e]
            \/ reader[e] = "open" /\ reader'[e] = "failed" /\ cut'
<1>1. CASE CutAt(e)
  BY <1>1 DEF CutAt, Stream!Cut, StreamTypeOK
<1>2. CASE StreamClosed(e) /\ UNCHANGED streamVars
  BY <1>2 DEF StreamClosed, streamVars
<1> QED BY <1>1, <1>2 DEF Abort

(* A step of end e keeps its own part of the invariant. *)
LEMMA PumpKeepsGoes ==
  ASSUME OwnTypeOK, StreamTypeOK, NEW e \in Ends, Goes(e),
         PumpChunk(e) \/ PumpEnds(e) \/ Pumping(e)
  PROVE  /\ Goes(e)' /\ (cut => cut')
         /\ \A a \in Ends : a # e => SameAt(a)
<1>1. UNCHANGED <<kind, broken, receiving, session>>
  BY DEF PumpChunk, PumpEnds, Pumping, PumpDrained, PumpDelayOver, PumpClosed,
         PumpBreaks, envVars, endVars
<1>2. \A a \in Ends : a # e => sending'[a] = sending[a]
  <2>1. \E s \in Pump \cup {"delaying", "closing"} :
          sending' = [sending EXCEPT ![e] = s]
    <3>1. CASE PumpChunk(e)
      BY <3>1 DEF PumpChunk, SendingFails, Pump
    <3>2. CASE PumpEnds(e)
      BY <3>2 DEF PumpEnds, CloseStream
    <3>3. CASE Pumping(e)
      BY <3>3 DEF Pumping, PumpDrained, PumpDelayOver, PumpClosed, PumpBreaks,
                  CloseStream, SendingFails, Pump
    <3> QED BY <3>1, <3>2, <3>3
  <2> QED BY <2>1 DEF OwnTypeOK
<1>3. ASSUME SendingFails(e)
      PROVE  /\ Goes(e)' /\ (cut => cut')
             /\ \A a \in Ends : a # e => SameAt(a)
  <2>1. sending'[e] = "failed" /\ Abort(e)
    BY <1>3 DEF SendingFails, OwnTypeOK
  <2>2. SealsIt(e)'
    BY <2>1, AbortAt DEF Goes, SealsIt
  <2>3. HearsIt(e)'
    BY <1>1, <2>1, AbortAt DEF Goes, HearsIt, Pipe
  <2>4. TellsIt(e)'
    BY <1>1, <2>1 DEF Goes, TellsIt, OneFailed
  <2> QED BY <1>1, <1>2, <2>1, <2>2, <2>3, <2>4, AbortAt DEF Goes, SameAt
<1>4. ASSUME CloseStream(e)
      PROVE  /\ Goes(e)' /\ (cut => cut')
             /\ \A a \in Ends : a # e => SameAt(a)
  <2>1. sending'[e] = "closing" /\ sealed'[e]
    BY <1>4 DEF CloseStream, Stream!Seal, OwnTypeOK, StreamTypeOK
  <2>2. UNCHANGED <<reader, cut>> /\ \A a \in Ends : a # e => sealed'[a] = sealed[a]
    BY <1>4 DEF CloseStream, Stream!Seal, StreamTypeOK
  <2>3. sending[e] # "failed"
    BY <1>4 DEF PumpChunk, PumpEnds, Pumping, PumpDrained, PumpDelayOver, PumpClosed,
         PumpBreaks
  <2> QED BY <1>1, <1>2, <2>1, <2>2, <2>3
          DEF Goes, SealsIt, HearsIt, Pipe, TellsIt, OneFailed, SameAt
<1>5. ASSUME UNCHANGED <<sealed, reader, cut>>,
             sending[e] # "failed",
             \/ sending'[e] \in {"reading", "draining"}
             \/ sending'[e] = "delaying"
             \/ sending'[e] = "done" /\ sending[e] = "closing"
      PROVE  /\ Goes(e)' /\ (cut => cut')
             /\ \A a \in Ends : a # e => SameAt(a)
  BY <1>1, <1>2, <1>5 DEF Goes, SealsIt, HearsIt, Pipe, TellsIt, OneFailed, SameAt
<1>6. CASE PumpChunk(e)
  BY <1>3, <1>5, <1>6 DEF PumpChunk, Stream!Send, OwnTypeOK
<1>7. CASE PumpEnds(e)
  BY <1>4, <1>5, <1>7 DEF PumpEnds, streamVars, OwnTypeOK
<1>8. CASE Pumping(e)
  <2>1. CASE PumpDrained(e)
    BY <1>3, <1>5, <2>1 DEF PumpDrained, streamVars, OwnTypeOK
  <2>2. CASE PumpDelayOver(e)
    BY <1>4, <2>2 DEF PumpDelayOver
  <2>3. CASE PumpClosed(e)
    BY <1>3, <1>5, <2>3 DEF PumpClosed, streamVars, OwnTypeOK
  <2>4. CASE PumpBreaks(e)
    BY <1>3, <2>4 DEF PumpBreaks
  <2> QED BY <1>8, <2>1, <2>2, <2>3, <2>4 DEF Pumping
<1> QED BY <1>6, <1>7, <1>8

LEMMA ReceiveKeepsGoes ==
  ASSUME OwnTypeOK, StreamTypeOK, NEW e \in Ends, Goes(e), Receiving(e)
  PROVE  /\ Goes(e)' /\ (cut => cut')
         /\ \A a \in Ends : a # e => SameAt(a)
<1>1. UNCHANGED <<kind, broken, sending, session, cut>>
  BY DEF Receiving, ReceiveChunk, OutputDrained, ReceiveEnds, envVars, endVars,
         streamVars, Stream!Deliver, Stream!EndOfStream
<1>2. CASE ReceiveChunk(e)
  <2>1. PICK r \in {"reading", "draining"} :
          receiving' = [receiving EXCEPT ![e] = r]
    BY <1>2, WriteTypes DEF ReceiveChunk
  <2>2. UNCHANGED <<sealed, reader>> /\ reader[e] = "open" /\ receiving[e] = "reading"
    BY <1>2 DEF ReceiveChunk, Stream!Deliver
  <2>3. receiving'[e] = r /\ \A a \in Ends : a # e => receiving'[a] = receiving[a]
    BY <2>1 DEF OwnTypeOK
  <2> QED BY <1>1, <2>2, <2>3
          DEF Goes, SealsIt, HearsIt, Pipe, TellsIt, OneFailed, SameAt
<1>3. CASE OutputDrained(e)
  <2>1. UNCHANGED <<sealed, reader>> /\ receiving[e] = "draining"
    BY <1>3 DEF OutputDrained, streamVars
  <2>2. /\ receiving'[e] = "reading"
        /\ \A a \in Ends : a # e => receiving'[a] = receiving[a]
    BY <1>3 DEF OutputDrained, OwnTypeOK
  <2> QED BY <1>1, <2>1, <2>2
          DEF Goes, SealsIt, HearsIt, Pipe, TellsIt, OneFailed, SameAt
<1>4. CASE ReceiveEnds(e)
  <2>1. /\ receiving[e] = "reading"
        /\ \A a \in Ends : a # e => receiving'[a] = receiving[a]
    BY <1>4 DEF ReceiveEnds, OwnTypeOK
  <2>2. CASE Stream!EndOfStream(e) /\ receiving' = [receiving EXCEPT ![e] = "done"]
    <3>1. reader'[e] = "ended" /\ receiving'[e] = "done"
      BY <2>2 DEF Stream!EndOfStream, OwnTypeOK, StreamTypeOK
    <3>2. \A a \in Ends : a # e =>
            reader'[a] = reader[a] /\ sealed'[a] = sealed[a]
      BY <2>2 DEF Stream!EndOfStream, StreamTypeOK
    <3>3. sealed[e] => sealed'[e]
      BY <2>2, EndTypes
    <3>4. SealsIt(e)' /\ HearsIt(e)' /\ TellsIt(e)'
      BY <1>1, <2>1, <3>1, <3>3
      DEF Goes, SealsIt, HearsIt, Pipe, TellsIt, OneFailed
    <3> QED BY <1>1, <2>1, <3>2, <3>4 DEF Goes, SameAt
  <2>3. CASE /\ reader[e] = "failed" /\ UNCHANGED streamVars
             /\ receiving' = [receiving EXCEPT ![e] = "failed"]
    <3>1. receiving'[e] = "failed" /\ UNCHANGED <<sealed, reader>>
      BY <2>3 DEF OwnTypeOK, streamVars
    <3> QED BY <1>1, <2>1, <2>3, <3>1
            DEF Goes, SealsIt, HearsIt, Pipe, TellsIt, OneFailed, SameAt
  <2> QED BY <1>4, <2>2, <2>3 DEF ReceiveEnds
<1> QED BY <1>2, <1>3, <1>4 DEF Receiving

LEMMA WaitKeepsGoes ==
  ASSUME OwnTypeOK, StreamTypeOK, NEW e \in Ends, Goes(e),
         Waiting(e) \/ Unhandled(e) \/ TimerFires(e)
  PROVE  /\ Goes(e)' /\ (cut => cut')
         /\ \A a \in Ends : a # e => SameAt(a)
<1>1. UNCHANGED <<kind, sending, receiving>>
  BY DEF Waiting, BridgeResolves, BridgeRejects, ExecReturns, ProcessLeaves,
         Unhandled, TimerFires, envVars
<1>2. CASE BridgeResolves(e) \/ ExecReturns(e)
  <2>1. UNCHANGED <<sealed, reader, cut, broken>> /\ session[e] = "running"
    BY <1>2 DEF BridgeResolves, ExecReturns, streamVars, envVars
  <2>2. /\ session'[e] = "resolved"
        /\ \A a \in Ends : a # e => session'[a] = session[a]
    BY <1>2 DEF BridgeResolves, ExecReturns, Settle, OwnTypeOK
  <2> QED BY <1>1, <2>1, <2>2
          DEF Goes, SealsIt, HearsIt, Pipe, TellsIt, OneFailed, SameAt
<1>3. CASE BridgeRejects(e)
  <2>1. /\ UNCHANGED <<sealed, reader, cut>>
        /\ kind[e] # "exec" /\ OneFailed(e)
    BY <1>3 DEF BridgeRejects, streamVars
  <2>2. /\ session'[e] = "rejected"
        /\ \A a \in Ends : a # e => session'[a] = session[a]
    BY <1>3 DEF BridgeRejects, Settle, OwnTypeOK
  <2>3. /\ broken'[e] <=> kind[e] = "socket"
        /\ \A a \in Ends : a # e => broken'[a] = broken[a]
    BY <1>3 DEF BridgeRejects, OwnTypeOK
  <2>4. SealsIt(e)' /\ TellsIt(e)'
    BY <1>1, <2>1, <2>2, <2>3 DEF Goes, SealsIt, TellsIt, OneFailed
  <2>5. HearsIt(e)'
    BY <1>1, <2>1, <2>3 DEF Goes, HearsIt, Pipe
  <2> QED BY <1>1, <2>1, <2>2, <2>3, <2>4, <2>5 DEF Goes, SameAt
<1>4. CASE Unhandled(e) \/ ProcessLeaves(e)
  <2>1. UNCHANGED broken /\ Abort(e)
    BY <1>4 DEF Unhandled, Crash, ProcessLeaves, envVars
  <2>2. /\ session'[e] \in {"crashed", "left"}
        /\ \A a \in Ends : a # e => session'[a] = session[a]
    BY <1>4 DEF Unhandled, Crash, ProcessLeaves, OwnTypeOK
  <2>3. SealsIt(e)' /\ HearsIt(e)' /\ TellsIt(e)'
    BY <1>1, <2>1, <2>2, AbortAt DEF Goes, SealsIt, HearsIt, Pipe, TellsIt, OneFailed
  <2> QED BY <1>1, <2>1, <2>2, <2>3, AbortAt DEF Goes, SameAt
<1>5. CASE TimerFires(e)
  <2>1. UNCHANGED <<broken, session>> /\ Abort(e)
    BY <1>5 DEF TimerFires, envVars
  <2>2. SealsIt(e)' /\ HearsIt(e)' /\ TellsIt(e)'
    BY <1>1, <2>1, AbortAt DEF Goes, SealsIt, HearsIt, Pipe, TellsIt, OneFailed
  <2> QED BY <1>1, <2>1, <2>2, AbortAt DEF Goes, SameAt
<1> QED BY <1>2, <1>3, <1>4, <1>5 DEF Waiting

LEMMA BreakKeepsGoes ==
  ASSUME OwnTypeOK, StreamTypeOK, NEW e \in Ends, Goes(e), Surroundings(e)
  PROVE  /\ Goes(e)' /\ (cut => cut')
         /\ \A a \in Ends : a # e => SameAt(a)
<1>0. UNCHANGED <<kind, sending>>
  BY DEF Surroundings, SocketBreaks, StdoutBreaks, StdinBreaks, ChildExits,
         StreamBreaks, envVars
<1>2. CASE SocketBreaks(e)
  <2>0. UNCHANGED session
    BY <1>2 DEF SocketBreaks, endVars
  <2>1. UNCHANGED <<sealed, reader, cut>> /\ kind[e] = "socket"
    BY <1>2 DEF SocketBreaks, streamVars
  <2>2. broken'[e] /\ \A a \in Ends : a # e => broken'[a] = broken[a]
    BY <1>2 DEF SocketBreaks, OwnTypeOK
  <2>3. /\ receiving'[e] = receiving[e]
           \/ (receiving[e] = "draining" /\ receiving'[e] = "failed")
        /\ \A a \in Ends : a # e => receiving'[a] = receiving[a]
    BY <1>2 DEF SocketBreaks, OwnTypeOK
  <2>4. SealsIt(e)' /\ TellsIt(e)'
    BY <1>0, <2>0, <2>1, <2>2, <2>3 DEF Goes, SealsIt, TellsIt, OneFailed
  <2>5. HearsIt(e)'
    BY <1>0, <2>0, <2>1, <2>2, <2>3 DEF Goes, HearsIt, Pipe
  <2> QED BY <1>0, <2>0, <2>1, <2>2, <2>3, <2>4, <2>5 DEF Goes, SameAt
<1>3. CASE StdinBreaks(e)
  <2>0. UNCHANGED session
    BY <1>3 DEF StdinBreaks
  <2>1. UNCHANGED <<sealed, reader, cut, broken>> /\ kind[e] = "exec"
    BY <1>3 DEF StdinBreaks, streamVars, envVars
  <2>2. /\ receiving[e] = "draining" /\ receiving'[e] = "failed"
        /\ \A a \in Ends : a # e => receiving'[a] = receiving[a]
    BY <1>3 DEF StdinBreaks, OwnTypeOK
  <2> QED BY <1>0, <2>0, <2>1, <2>2
          DEF Goes, SealsIt, HearsIt, Pipe, TellsIt, OneFailed, SameAt
<1>4. CASE ChildExits(e)
  BY <1>0, <1>4 DEF ChildExits, streamVars, endVars,
     Goes, SealsIt, HearsIt, Pipe, TellsIt, OneFailed, SameAt
<1>5. CASE StreamBreaks(e)
  <2>0. UNCHANGED session
    BY <1>5 DEF StreamBreaks, endVars
  <2>1. UNCHANGED <<broken, receiving>> /\ Abort(e)
    BY <1>5 DEF StreamBreaks, envVars, Abort
  <2>2. SealsIt(e)' /\ HearsIt(e)' /\ TellsIt(e)'
    BY <1>0, <2>0, <2>1, AbortAt DEF Goes, SealsIt, HearsIt, Pipe, TellsIt, OneFailed
  <2> QED BY <1>0, <2>0, <2>1, <2>2, AbortAt DEF Goes, SameAt
<1>6. CASE StdoutBreaks(e)
  <2>1. UNCHANGED broken /\ Pipe(e)
    BY <1>6 DEF StdoutBreaks, envVars
  <2>2. CASE Crash(e) /\ UNCHANGED receiving
    <3>1. Abort(e) /\ session'[e] = "crashed"
      BY <2>2 DEF Crash, OwnTypeOK
    <3>2. \A a \in Ends : a # e => session'[a] = session[a]
      BY <2>2 DEF Crash, OwnTypeOK
    <3>3. SealsIt(e)' /\ HearsIt(e)' /\ TellsIt(e)'
      BY <1>0, <2>1, <2>2, <3>1, AbortAt
      DEF Goes, SealsIt, HearsIt, Pipe, TellsIt, OneFailed
    <3> QED BY <1>0, <2>1, <2>2, <3>1, <3>2, <3>3, AbortAt DEF Goes, SameAt
  <2>3. CASE /\ receiving[e] = "draining"
             /\ receiving' = [receiving EXCEPT ![e] = "failed"]
             /\ UNCHANGED <<streamVars, session>>
    <3>1. UNCHANGED <<sealed, reader, cut, session>>
      BY <2>3 DEF streamVars
    <3>2. /\ receiving'[e] = "failed"
          /\ \A a \in Ends : a # e => receiving'[a] = receiving[a]
      BY <2>3 DEF OwnTypeOK
    <3>3. SealsIt(e)'
      BY <1>0, <3>1 DEF Goes, SealsIt
    <3>4. HearsIt(e)'
      BY <1>0, <2>1, <2>3, <3>1, <3>2 DEF Goes, HearsIt, Pipe
    <3>5. TellsIt(e)'
      BY <1>0, <2>1, <3>1, <3>2 DEF Goes, TellsIt, OneFailed
    <3> QED BY <1>0, <2>1, <3>1, <3>2, <3>3, <3>4, <3>5 DEF Goes, SameAt
  <2> QED BY <1>6, <2>2, <2>3 DEF StdoutBreaks
<1> QED BY <1>2, <1>3, <1>4, <1>5, <1>6 DEF Surroundings

LEMMA StepGoes == TypeOK /\ GoesInv /\ [Next]_vars => GoesInv'
<1> SUFFICES ASSUME TypeOK, GoesInv, [Next]_vars PROVE GoesInv'
  OBVIOUS
<1>1. OwnTypeOK /\ StreamTypeOK
  BY TypeParts
<1>2. Delivered'
  BY <1>1, StreamTypes, DeliveredStays DEF GoesInv
<1>3. ASSUME NEW e \in Ends, Goes(e)', cut => cut',
             \A a \in Ends : a # e => SameAt(a)
      PROVE  \A a \in Ends : Goes(a)'
  BY <1>3, GoesAtOther DEF GoesInv
<1>4. ASSUME NEW e \in Ends, PumpChunk(e) \/ PumpEnds(e) \/ Pumping(e)
      PROVE  \A a \in Ends : Goes(a)'
  BY <1>1, <1>3, <1>4, PumpKeepsGoes DEF GoesInv
<1>5. ASSUME NEW e \in Ends, Receiving(e)
      PROVE  \A a \in Ends : Goes(a)'
  BY <1>1, <1>3, <1>5, ReceiveKeepsGoes DEF GoesInv
<1>6. ASSUME NEW e \in Ends, Waiting(e) \/ Unhandled(e) \/ TimerFires(e)
      PROVE  \A a \in Ends : Goes(a)'
  BY <1>1, <1>3, <1>6, WaitKeepsGoes DEF GoesInv
<1>7. ASSUME NEW e \in Ends, Surroundings(e)
      PROVE  \A a \in Ends : Goes(a)'
  BY <1>1, <1>3, <1>7, BreakKeepsGoes DEF GoesInv
<1>8. CASE UNCHANGED vars
  <2>1. \A a \in Ends : SameAt(a) /\ Goes(a)
    BY <1>8 DEF vars, envVars, endVars, streamVars, SameAt, GoesInv
  <2>2. cut' = cut
    BY <1>8 DEF vars, streamVars
  <2>3. \A a \in Ends : Goes(a)'
    BY <2>1, <2>2, GoesAtOther
  <2> QED BY <1>2, <2>3 DEF GoesInv
<1> QED BY <1>2, <1>4, <1>5, <1>6, <1>7, <1>8 DEF Next, GoesInv

LEMMA InitGoes == Init => GoesInv
<1> SUFFICES ASSUME Init PROVE GoesInv
  OBVIOUS
<1>1. \A e \in Ends : /\ got[e] = << >> /\ sent[e] = 0
                      /\ reader[e] = "open" /\ ~sealed[e]
                      /\ sending[e] = "reading" /\ receiving[e] = "reading"
                      /\ session[e] = "running" /\ ~broken[e]
  BY DEF Init, Stream!Init, Stream!Ends, Ends
<1>2. ASSUME NEW e \in Ends PROVE Len(got[e]) <= sent[Other(e)]
  <2>1. Len(got[e]) = 0
    BY <1>1
  <2>2. sent[Other(e)] = 0
    BY <1>1, OtherEnd
  <2> QED BY <2>1, <2>2
<1>3. Delivered
  BY <1>2 DEF Delivered
<1> QED BY <1>1, <1>3 DEF GoesInv, Goes, SealsIt, HearsIt, Pipe, TellsIt

(* The one who has to move next is always able to. *)
LEMMA SomebodyGoes == TypeOK /\ GoesInv => NobodyWaits
<1> SUFFICES ASSUME TypeOK, GoesInv PROVE NobodyWaits
  OBVIOUS
<1>0. OwnTypeOK /\ StreamTypeOK
  BY TypeParts
<1>1. ASSUME \A e \in Ends : InputOver(e), ~Disturbed,
             NEW e \in Ends, session[e] # "resolved", kind[e] # "exec"
      PROVE  CanGo
  <2>1. /\ ~cut /\ \A a \in Ends : ~Destroyed(a) /\ receiving[a] # "failed"
        /\ \A a \in Ends : Alive(a)
        /\ \A a \in Ends : sending[a] \in {"delaying", "closing", "done"}
    BY <1>1 DEF Disturbed, InputOver
  <2>2. \A a \in Ends : ~OneFailed(a)
    BY <2>1 DEF OneFailed
  <2>3. /\ session[e] = "running"
        /\ \A a \in Ends : Alive(a)
    BY <1>0, <1>1, <2>1, <2>2 DEF GoesInv, Goes, TellsIt, OwnTypeOK, Alive
  <2>4. CASE \E a \in Ends : sending[a] # "done"
    BY <2>1, <2>3, <2>4 DEF CanGo, PumpGoes
  <2>5. CASE /\ \A a \in Ends : sending[a] = "done"
             /\ receiving[e] # "done"
    <3>1. sealed[Other(e)] /\ Other(e) \in Ends
      BY <2>5, OtherEnd DEF GoesInv, Goes, SealsIt
    <3>2. Len(got[e]) < sent[Other(e)] \/ Len(got[e]) = sent[Other(e)]
      <4>1. Len(got[e]) \in Nat /\ sent[Other(e)] \in Nat
        BY <1>0, <3>1 DEF StreamTypeOK
      <4>2. Len(got[e]) <= sent[Other(e)]
        BY DEF GoesInv, Delivered
      <4> QED BY <4>1, <4>2
    <3>3. receiving[e] \in {"reading", "draining"}
      BY <1>0, <2>1, <2>5 DEF OwnTypeOK, Pump
    <3>4. reader[e] = "open"
      BY <1>0, <2>1, <2>5 DEF GoesInv, Goes, SealsIt, HearsIt, Pipe, StreamTypeOK
    <3>5. ReadGoes(e)
      BY <2>1, <2>3, <3>1, <3>2, <3>3, <3>4 DEF ReadGoes, EndCame
    <3> QED BY <3>5 DEF CanGo
  <2>6. CASE sending[e] = "done" /\ receiving[e] = "done"
    BY <1>1, <2>3, <2>6 DEF CanGo, WaitGoes, BothDone
  <2> QED BY <2>4, <2>5, <2>6
<1>2. ASSUME NEW e \in Ends, session[e] = "rejected"
      PROVE  sealed[e] \/ PumpGoes(e) \/ LeaveGoes(e) \/ HalfOpen(e)
  <2>1. /\ kind[e] # "exec" /\ OneFailed(e)
        /\ kind[e] = "socket" => broken[e]
        /\ Alive(e)
    BY <1>2 DEF GoesInv, Goes, TellsIt, Alive
  <2>2. CASE sending[e] \in {"closing", "done", "failed"}
    BY <2>2 DEF GoesInv, Goes, SealsIt
  <2>3. CASE sending[e] \in {"draining", "delaying"}
    BY <2>1, <2>3 DEF PumpGoes
  <2>4. CASE sending[e] = "reading"
    <3>1. receiving[e] = "failed"
      BY <2>1, <2>4 DEF OneFailed
    <3>2. reader[e] = "failed" \/ broken[e] \/ Pipe(e)
      BY <2>1, <3>1 DEF GoesInv, Goes, HearsIt
    <3>3. reader[e] = "failed" => sealed[e]
      BY DEF GoesInv, Goes, SealsIt
    <3>4. Pipe(e) => sealed[e] \/ LeaveGoes(e) \/ HalfOpen(e)
      BY <1>2, <2>4, <3>1 DEF Pipe, LeaveGoes, HalfOpen
    <3> QED BY <2>1, <2>4, <3>2, <3>3, <3>4 DEF PumpGoes
  <2> QED BY <1>0, <2>2, <2>3, <2>4 DEF OwnTypeOK, Pump
<1> QED BY <1>1, <1>2 DEF NobodyWaits

(* Once both inputs are over somebody can move until both sessions have    *)
(* resolved, and so can the pump or the process of a rejected session      *)
(* until its side of the stream is sealed, whatever the two ends are and   *)
(* whatever failed.  The exception is named: HalfOpen, a -k listener whose *)
(* stdout failed while a write to it waited, and whose stdin is idle.      *)
THEOREM NobodyWaitsInVain == Spec => []NobodyWaits
<1>1. Spec => [](TypeOK /\ GoesInv)
  BY InitTypes, InitGoes, StepGoes, TypeCorrect, PTL DEF Spec
<1> QED BY <1>1, SomebodyGoes, PTL

-----------------------------------------------------------------------------
(* What is left to do.  A chunk counts four until it was sent and two      *)
(* until it was delivered; a pump counts by how far it is from its end.    *)
SendingLeft(e) == CASE sending[e] = "draining" -> 5
                    [] sending[e] = "reading"  -> 4
                    [] sending[e] = "delaying" -> 3
                    [] sending[e] = "closing"  -> 2
                    [] OTHER -> 0

ReceivingLeft(e) == CASE receiving[e] = "draining" -> 2
                      [] receiving[e] = "reading"  -> 1
                      [] OTHER -> 0

SessionLeft(e) == CASE session[e] = "running"  -> 2
                    [] session[e] = "rejected" -> 1
                    [] OTHER -> 0

Chores(e) == SendingLeft(e) + ReceivingLeft(e) + SessionLeft(e)

Chunks(e) == 4 * (Bound(e) - sent[e]) + 2 * (sent[e] - Len(got[Other(e)]))

Left == Chores("client") + Chores("listener")
          + Chunks("client") + Chunks("listener")

(* Every step that happens by itself makes this natural number smaller,    *)
(* and no step makes it larger: two sessions run out of steps, however     *)
(* long their inputs are.  With NobodyWaits and fairness, BothEndsResolve  *)
(* and RejectedIsSealed.                                                   *)
ComesToItsEnd == [][/\ Left \in Nat
                    /\ Left' <= Left
                    /\ Runtime => Left' < Left]_vars

LEMMA ChoresAreNat ==
  /\ \A e \in Ends : Chores(e) \in Nat
  /\ \A e \in Ends : Chores(e)' \in Nat
<1>1. \A e \in Ends : /\ SendingLeft(e) \in Nat /\ ReceivingLeft(e) \in Nat
                      /\ SessionLeft(e) \in Nat
  BY DEF SendingLeft, ReceivingLeft, SessionLeft
<1>2. \A e \in Ends : /\ SendingLeft(e)' \in Nat /\ ReceivingLeft(e)' \in Nat
                      /\ SessionLeft(e)' \in Nat
  BY DEF SendingLeft, ReceivingLeft, SessionLeft
<1> QED BY <1>1, <1>2 DEF Chores

LEMMA LeftIsNat ==
  ASSUME StreamTypeOK, Delivered
  PROVE  /\ \A e \in Ends : Chunks(e) \in Nat
         /\ Left \in Nat
<1>1. ASSUME NEW e \in Ends PROVE Chunks(e) \in Nat
  <2>1. PICK s \in Nat : s = sent[e]
    BY DEF StreamTypeOK
  <2>2. PICK n \in Nat : n = Len(got[Other(e)])
    BY OtherEnd DEF StreamTypeOK
  <2>3. PICK b \in Nat : b = Bound(e)
    BY BoundIsNat
  <2>4. s <= b /\ n <= s
    <3>1. Other(Other(e)) = e /\ Other(e) \in Ends
      BY DEF Other, Ends
    <3> QED BY <2>1, <2>2, <2>3, <3>1 DEF Delivered, StreamTypeOK
  <2>5. 4 * (b - s) + 2 * (s - n) \in Nat
    BY <2>4
  <2> QED BY <2>1, <2>2, <2>3, <2>5 DEF Chunks
<1>2. "client" \in Ends /\ "listener" \in Ends
  BY DEF Ends
<1> QED BY <1>1, <1>2, ChoresAreNat DEF Left

LEMMA LeftNext ==
  ASSUME StreamTypeOK', Delivered'
  PROVE  Left' \in Nat
<1>1. ASSUME NEW e \in Ends PROVE Chunks(e)' \in Nat
  <2>1. PICK s \in Nat : s = sent'[e]
    BY DEF StreamTypeOK
  <2>2. PICK n \in Nat : n = Len(got'[Other(e)])
    BY OtherEnd DEF StreamTypeOK
  <2>3. PICK b \in Nat : b = Bound(e)
    BY BoundIsNat
  <2>4. s <= b /\ n <= s
    <3>1. Other(Other(e)) = e /\ Other(e) \in Ends
      BY DEF Other, Ends
    <3> QED BY <2>1, <2>2, <2>3, <3>1 DEF Delivered, StreamTypeOK, Bound
  <2>5. 4 * (b - s) + 2 * (s - n) \in Nat
    BY <2>4
  <2> QED BY <2>1, <2>2, <2>3, <2>5 DEF Chunks, Bound
<1>2. "client" \in Ends /\ "listener" \in Ends
  BY DEF Ends
<1> QED BY <1>1, <1>2, ChoresAreNat DEF Left

(* Chunks that are neither sent nor delivered count as before. *)
LEMMA SameChunks ==
  ASSUME UNCHANGED <<sent, got>>
  PROVE  \A e \in Ends : Chunks(e)' = Chunks(e)
BY DEF Chunks, Bound

(* A step in which one end does something and the chunks stay put. *)
LEMMA OneEndLess ==
  ASSUME StreamTypeOK, Delivered, NEW e \in Ends,
         Chores(Other(e))' = Chores(Other(e)),
         \A a \in Ends : Chunks(a)' = Chunks(a)
  PROVE  /\ Chores(e)' <= Chores(e) => Left' <= Left
         /\ Chores(e)' < Chores(e) => Left' < Left
<1>1. "client" \in Ends /\ "listener" \in Ends
  BY DEF Ends
<1>2. \/ e = "client" /\ Other(e) = "listener"
      \/ e = "listener" /\ Other(e) = "client"
  BY DEF Ends, Other
<1>3. PICK c \in Nat, l \in Nat, d \in Nat, m \in Nat :
        /\ c = Chores("client") /\ l = Chores("listener")
        /\ d = Chores("client")' /\ m = Chores("listener")'
  BY <1>1, ChoresAreNat
<1>4. PICK x \in Nat, y \in Nat : x = Chunks("client") /\ y = Chunks("listener")
  BY <1>1, LeftIsNat
<1>5. Left = c + l + x + y /\ Left' = d + m + x + y
  BY <1>1, <1>3, <1>4 DEF Left
<1>6. CASE e = "client" /\ Other(e) = "listener"
  <2>1. m = l /\ Chores(e) = c /\ Chores(e)' = d
    BY <1>3, <1>6
  <2> QED BY <1>5, <2>1
<1>7. CASE e = "listener" /\ Other(e) = "client"
  <2>1. d = c /\ Chores(e) = l /\ Chores(e)' = m
    BY <1>3, <1>7
  <2> QED BY <1>5, <2>1
<1> QED BY <1>2, <1>6, <1>7

(* A step in which the chunks one end sends get on their way. *)
LEMMA ChunksLess ==
  ASSUME StreamTypeOK, Delivered, NEW e \in Ends, NEW a \in Ends,
         Chores(Other(a))' = Chores(Other(a)),
         Chores(a)' <= Chores(a) + 1,
         Chunks(Other(e))' = Chunks(Other(e)),
         Chunks(e)' = Chunks(e) - 2
  PROVE  Left' < Left
<1>1. "client" \in Ends /\ "listener" \in Ends
  BY DEF Ends
<1>2. /\ (e = "client" /\ Other(e) = "listener")
           \/ (e = "listener" /\ Other(e) = "client")
      /\ (a = "client" /\ Other(a) = "listener")
           \/ (a = "listener" /\ Other(a) = "client")
  BY DEF Ends, Other
<1>3. PICK c \in Nat, l \in Nat, d \in Nat, m \in Nat :
        /\ c = Chores("client") /\ l = Chores("listener")
        /\ d = Chores("client")' /\ m = Chores("listener")'
  BY <1>1, ChoresAreNat
<1>4. PICK x \in Nat, y \in Nat : x = Chunks("client") /\ y = Chunks("listener")
  BY <1>1, LeftIsNat
<1>5. d + m <= c + l + 1
  BY <1>2, <1>3
<1>6. Left = c + l + x + y
  BY <1>3, <1>4 DEF Left
<1>7. Left' = d + m + x + y - 2
  <2>1. CASE e = "client" /\ Other(e) = "listener"
    <3>1. Chunks("client")' = x - 2 /\ Chunks("listener")' = y
      BY <1>4, <2>1
    <3>2. Left' = d + m + (x - 2) + y
      BY <1>3, <3>1 DEF Left
    <3> QED BY <3>2
  <2>2. CASE e = "listener" /\ Other(e) = "client"
    <3>1. Chunks("client")' = x /\ Chunks("listener")' = y - 2
      BY <1>4, <2>2
    <3>2. Left' = d + m + x + (y - 2)
      BY <1>3, <3>1 DEF Left
    <3> QED BY <3>2
  <2> QED BY <1>2, <2>1, <2>2
<1> QED BY <1>5, <1>6, <1>7

(* A step of the other end's pumps or session does not count here. *)
LEMMA SameChores ==
  ASSUME NEW a \in Ends, sending'[a] = sending[a],
         receiving'[a] = receiving[a], session'[a] = session[a]
  PROVE  Chores(a)' = Chores(a)
BY DEF Chores, SendingLeft, ReceivingLeft, SessionLeft

(* The parts of a count, one at a time. *)
LEMMA PartsOfChores ==
  ASSUME NEW e \in Ends
  PROVE  /\ Chores(e) = SendingLeft(e) + ReceivingLeft(e) + SessionLeft(e)
         /\ Chores(e)' = SendingLeft(e)' + ReceivingLeft(e)' + SessionLeft(e)'
         /\ SendingLeft(e) \in Nat /\ SendingLeft(e)' \in Nat
         /\ ReceivingLeft(e) \in Nat /\ ReceivingLeft(e)' \in Nat
         /\ SessionLeft(e) \in Nat /\ SessionLeft(e)' \in Nat
BY DEF Chores, SendingLeft, ReceivingLeft, SessionLeft

(* A step of a pump that neither sends nor delivers. *)
LEMMA PumpLess ==
  ASSUME StreamTypeOK, Delivered, NEW e \in Ends,
         \A a \in Ends : a # e => sending'[a] = sending[a],
         UNCHANGED <<receiving, session, sent, got>>,
         SendingLeft(e)' < SendingLeft(e)
  PROVE  Left' < Left
<1>1. Chores(e)' < Chores(e)
  <2>1. ReceivingLeft(e)' = ReceivingLeft(e) /\ SessionLeft(e)' = SessionLeft(e)
    BY DEF ReceivingLeft, SessionLeft
  <2> QED BY <2>1, PartsOfChores
<1>2. Chores(Other(e))' = Chores(Other(e))
  BY OtherEnd, SameChores
<1> QED BY <1>1, <1>2, SameChunks, OneEndLess

(* A step of the loop that reads the stream, or of its output. *)
LEMMA ReceiveLess ==
  ASSUME StreamTypeOK, Delivered, NEW e \in Ends,
         \A a \in Ends : a # e => receiving'[a] = receiving[a],
         UNCHANGED <<sending, session, sent, got>>,
         ReceivingLeft(e)' < ReceivingLeft(e)
  PROVE  Left' < Left
<1>1. Chores(e)' < Chores(e)
  <2>1. SendingLeft(e)' = SendingLeft(e) /\ SessionLeft(e)' = SessionLeft(e)
    BY DEF SendingLeft, SessionLeft
  <2> QED BY <2>1, PartsOfChores
<1>2. Chores(Other(e))' = Chores(Other(e))
  BY OtherEnd, SameChores
<1> QED BY <1>1, <1>2, SameChunks, OneEndLess

(* A session that comes out. *)
LEMMA SessionLess ==
  ASSUME OwnTypeOK, StreamTypeOK, Delivered, NEW e \in Ends,
         NEW outcome \in {"resolved", "rejected", "left", "crashed"},
         \/ session[e] = "running"
         \/ session[e] = "rejected" /\ outcome = "left",
         session' = [session EXCEPT ![e] = outcome],
         UNCHANGED <<sending, receiving, sent, got>>
  PROVE  Left' < Left
<1>1. session'[e] = outcome /\ \A a \in Ends : a # e => session'[a] = session[a]
  BY DEF OwnTypeOK
<1>2. Chores(e)' < Chores(e)
  <2>1. SendingLeft(e)' = SendingLeft(e) /\ ReceivingLeft(e)' = ReceivingLeft(e)
    BY DEF SendingLeft, ReceivingLeft
  <2>2. SessionLeft(e)' < SessionLeft(e)
    BY <1>1 DEF SessionLeft
  <2> QED BY <2>1, <2>2, PartsOfChores
<1>3. Chores(Other(e))' = Chores(Other(e))
  BY <1>1, OtherEnd, SameChores
<1> QED BY <1>2, <1>3, SameChunks, OneEndLess

LEMMA FailingLess ==
  ASSUME OwnTypeOK, StreamTypeOK, Delivered, NEW e \in Ends,
         SendingFails(e), UNCHANGED <<receiving, session>>,
         sending[e] \in {"reading", "draining", "closing"}
  PROVE  Left' < Left
<1>1. /\ sending'[e] = "failed" /\ UNCHANGED <<sent, got>>
      /\ \A a \in Ends : a # e => sending'[a] = sending[a]
  BY AbortTypes DEF SendingFails, OwnTypeOK
<1>2. SendingLeft(e)' = 0
  BY <1>1 DEF SendingLeft
<1>3. SendingLeft(e) \in {2, 4, 5}
  BY DEF SendingLeft
<1>4. SendingLeft(e)' < SendingLeft(e)
  BY <1>2, <1>3
<1> QED BY <1>1, <1>4, PumpLess

LEMMA ClosingLess ==
  ASSUME OwnTypeOK, StreamTypeOK, Delivered, NEW e \in Ends,
         CloseStream(e), UNCHANGED <<receiving, session>>,
         sending[e] \in {"reading", "delaying"}
  PROVE  Left' < Left
<1>1. /\ sending'[e] = "closing" /\ UNCHANGED <<sent, got>>
      /\ \A a \in Ends : a # e => sending'[a] = sending[a]
  BY DEF CloseStream, Stream!Seal, OwnTypeOK
<1>2. SendingLeft(e)' = 2
  BY <1>1 DEF SendingLeft
<1>3. SendingLeft(e) \in {3, 4}
  BY DEF SendingLeft
<1>4. SendingLeft(e)' < SendingLeft(e)
  BY <1>2, <1>3
<1> QED BY <1>1, <1>4, PumpLess

LEMMA PumpingLess ==
  ASSUME OwnTypeOK, StreamTypeOK, Delivered, NEW e \in Ends,
         PumpEnds(e) \/ Pumping(e)
  PROVE  Left' < Left
<1>1. UNCHANGED <<receiving, session>>
  BY DEF PumpEnds, Pumping, PumpDrained, PumpDelayOver, PumpClosed, PumpBreaks,
         endVars
<1>2. ASSUME NEW s \in {"reading", "delaying", "done"},
             sending' = [sending EXCEPT ![e] = s], UNCHANGED streamVars,
             \/ sending[e] = "draining" /\ s = "reading"
             \/ sending[e] = "reading" /\ s = "delaying"
             \/ sending[e] = "closing" /\ s = "done"
      PROVE  Left' < Left
  <2>1. /\ sending'[e] = s /\ UNCHANGED <<sent, got>>
        /\ \A a \in Ends : a # e => sending'[a] = sending[a]
    BY <1>2 DEF streamVars, OwnTypeOK
  <2>2. SendingLeft(e)' < SendingLeft(e)
    BY <1>2, <2>1 DEF SendingLeft
  <2> QED BY <1>1, <2>1, <2>2, PumpLess
<1>3. CASE PumpEnds(e)
  <2>1. CASE CloseStream(e)
    BY <1>1, <1>3, <2>1, ClosingLess DEF PumpEnds
  <2>2. CASE sending' = [sending EXCEPT ![e] = "delaying"] /\ UNCHANGED streamVars
    BY <1>2, <1>3, <2>2 DEF PumpEnds
  <2> QED BY <1>3, <2>1, <2>2 DEF PumpEnds
<1>4. CASE PumpDrained(e)
  <2>1. CASE SendingFails(e)
    BY <1>1, <1>4, <2>1, FailingLess DEF PumpDrained
  <2>2. CASE sending' = [sending EXCEPT ![e] = "reading"] /\ UNCHANGED streamVars
    BY <1>2, <1>4, <2>2 DEF PumpDrained
  <2> QED BY <1>4, <2>1, <2>2 DEF PumpDrained
<1>5. CASE PumpDelayOver(e)
  BY <1>1, <1>5, ClosingLess DEF PumpDelayOver
<1>6. CASE PumpClosed(e)
  <2>1. CASE SendingFails(e)
    BY <1>1, <1>6, <2>1, FailingLess DEF PumpClosed
  <2>2. CASE sending' = [sending EXCEPT ![e] = "done"] /\ UNCHANGED streamVars
    BY <1>2, <1>6, <2>2 DEF PumpClosed
  <2> QED BY <1>6, <2>1, <2>2 DEF PumpClosed
<1>7. CASE PumpBreaks(e)
  BY <1>1, <1>7, FailingLess DEF PumpBreaks
<1> QED BY <1>3, <1>4, <1>5, <1>6, <1>7 DEF Pumping

LEMMA ChunkLess ==
  ASSUME OwnTypeOK, StreamTypeOK, Delivered, NEW e \in Ends, PumpChunk(e)
  PROVE  Left' < Left
<1>1. UNCHANGED <<receiving, session>> /\ sending[e] = "reading"
  BY DEF PumpChunk
<1>2. CASE sealed[e]
  BY <1>1, <1>2, FailingLess DEF PumpChunk
<1>3. CASE ~sealed[e]
  <2>1. /\ sent' = [sent EXCEPT ![e] = sent[e] + 1] /\ UNCHANGED got
        /\ sent[e] < Bound(e)
    BY <1>3 DEF PumpChunk, Stream!Send
  <2>2. PICK s \in {"reading", "draining"} :
          sending' = [sending EXCEPT ![e] = s]
    BY <1>3 DEF PumpChunk
  <2>3. sending'[e] = s /\ \A a \in Ends : a # e => sending'[a] = sending[a]
    BY <2>2 DEF OwnTypeOK
  <2>4. Chores(Other(e))' = Chores(Other(e))
    BY <1>1, <2>3, OtherEnd, SameChores
  <2>5. Chores(e)' <= Chores(e) + 1
    <3>1. SendingLeft(e) = 4 /\ SendingLeft(e)' <= 5
      BY <1>1, <2>3 DEF SendingLeft
    <3>2. /\ ReceivingLeft(e)' = ReceivingLeft(e)
          /\ SessionLeft(e)' = SessionLeft(e)
      BY <1>1 DEF ReceivingLeft, SessionLeft
    <3> QED BY <3>1, <3>2, PartsOfChores
  <2>6. sent'[e] = sent[e] + 1 /\ sent'[Other(e)] = sent[Other(e)]
    BY <2>1, OtherEnd DEF StreamTypeOK
  <2>7. Chunks(Other(e))' = Chunks(Other(e))
    BY <2>1, <2>6 DEF Chunks, Bound
  <2>8. Chunks(e)' = Chunks(e) - 2
    <3>1. PICK x \in Nat, n \in Nat, b \in Nat :
            x = sent[e] /\ n = Len(got[Other(e)]) /\ b = Bound(e)
      BY OtherEnd, BoundIsNat DEF StreamTypeOK
    <3>2. Chunks(e) = 4 * (b - x) + 2 * (x - n)
      BY <3>1 DEF Chunks
    <3>3. Chunks(e)' = 4 * (b - (x + 1)) + 2 * ((x + 1) - n)
      <4>1. sent'[e] = x + 1 /\ got' = got /\ Bound(e)' = b
        BY <2>1, <2>6, <3>1 DEF Bound
      <4>2. Len(got'[Other(e)]) = n
        BY <3>1, <4>1
      <4> QED BY <4>1, <4>2 DEF Chunks
    <3> QED BY <3>2, <3>3
  <2> QED BY <2>4, <2>5, <2>7, <2>8, ChunksLess
<1> QED BY <1>2, <1>3

LEMMA ReceivingLess ==
  ASSUME OwnTypeOK, StreamTypeOK, Delivered, NEW e \in Ends, Receiving(e)
  PROVE  Left' < Left
<1>1. UNCHANGED <<sending, session>>
  BY DEF Receiving, ReceiveChunk, OutputDrained, ReceiveEnds, endVars
<1>2. CASE ReceiveChunk(e)
  <2>1. /\ got' = [got EXCEPT ![e] = Append(got[e], Len(got[e]) + 1)]
        /\ UNCHANGED sent /\ receiving[e] = "reading"
    BY <1>2 DEF ReceiveChunk, Stream!Deliver
  <2>2. PICK r \in {"reading", "draining"} :
          receiving' = [receiving EXCEPT ![e] = r]
    BY <1>2, WriteTypes DEF ReceiveChunk
  <2>3. receiving'[e] = r /\ \A a \in Ends : a # e => receiving'[a] = receiving[a]
    BY <2>2 DEF OwnTypeOK
  <2>4. Chores(Other(e))' = Chores(Other(e))
    BY <1>1, <2>3, OtherEnd, SameChores
  <2>5. Chores(e)' <= Chores(e) + 1
    <3>1. ReceivingLeft(e) = 1 /\ ReceivingLeft(e)' <= 2
      BY <2>1, <2>3 DEF ReceivingLeft
    <3>2. /\ SendingLeft(e)' = SendingLeft(e)
          /\ SessionLeft(e)' = SessionLeft(e)
      BY <1>1 DEF SendingLeft, SessionLeft
    <3> QED BY <3>1, <3>2, PartsOfChores
  <2>6. PICK o \in Ends : o = Other(e) /\ Other(o) = e /\ o # e
    BY DEF Other, Ends
  <2>7. /\ got[e] \in Seq(Nat) /\ got'[e] = Append(got[e], Len(got[e]) + 1)
        /\ got'[o] = got[o]
    BY <2>1, <2>6 DEF StreamTypeOK
  <2>8. Len(got[e]) \in Nat /\ Len(got'[e]) = Len(got[e]) + 1
    BY <2>7
  <2>9. Chunks(e)' = Chunks(e)
    BY <2>1, <2>6, <2>7 DEF Chunks, Bound
  <2>10. Chunks(o)' = Chunks(o) - 2
    <3>1. PICK x \in Nat, n \in Nat, b \in Nat :
            x = sent[o] /\ n = Len(got[e]) /\ b = Bound(o)
      BY <2>8, BoundIsNat DEF StreamTypeOK
    <3>2. Chunks(o) = 4 * (b - x) + 2 * (x - n)
      BY <2>6, <3>1 DEF Chunks
    <3>3. Chunks(o)' = 4 * (b - x) + 2 * (x - (n + 1))
      BY <2>1, <2>6, <2>8, <3>1 DEF Chunks, Bound
    <3> QED BY <3>2, <3>3
  <2> QED BY <2>4, <2>5, <2>6, <2>9, <2>10, ChunksLess
<1>3. CASE OutputDrained(e)
  <2>1. /\ receiving[e] = "draining" /\ receiving'[e] = "reading"
        /\ UNCHANGED <<sent, got>>
        /\ \A a \in Ends : a # e => receiving'[a] = receiving[a]
    BY <1>3 DEF OutputDrained, OwnTypeOK, streamVars
  <2>2. ReceivingLeft(e)' < ReceivingLeft(e)
    BY <2>1 DEF ReceivingLeft
  <2> QED BY <1>1, <2>1, <2>2, ReceiveLess
<1>4. CASE ReceiveEnds(e)
  <2>1. /\ receiving[e] = "reading" /\ receiving'[e] \in {"done", "failed"}
        /\ \A a \in Ends : a # e => receiving'[a] = receiving[a]
    BY <1>4 DEF ReceiveEnds, OwnTypeOK
  <2>2. UNCHANGED <<sent, got>>
    BY <1>4 DEF ReceiveEnds, Stream!EndOfStream, streamVars
  <2>3. ReceivingLeft(e)' < ReceivingLeft(e)
    BY <2>1 DEF ReceivingLeft
  <2> QED BY <1>1, <2>1, <2>2, <2>3, ReceiveLess
<1> QED BY <1>2, <1>3, <1>4 DEF Receiving

LEMMA WaitingLess ==
  ASSUME OwnTypeOK, StreamTypeOK, Delivered, NEW e \in Ends,
         Waiting(e) \/ Unhandled(e)
  PROVE  Left' < Left
<1>1. UNCHANGED <<sending, receiving, sent, got>>
  BY AbortTypes DEF Waiting, BridgeResolves, BridgeRejects, ExecReturns,
                    ProcessLeaves, Unhandled, Crash, streamVars
<1>2. CASE ProcessLeaves(e)
  BY <1>1, <1>2, SessionLess DEF ProcessLeaves
<1>3. CASE ~ProcessLeaves(e)
  <2>1. session[e] = "running"
    BY <1>3 DEF Waiting, BridgeResolves, BridgeRejects, ExecReturns, Unhandled
  <2>2. PICK outcome \in {"resolved", "rejected", "crashed"} :
          session' = [session EXCEPT ![e] = outcome]
    BY <1>3 DEF Waiting, BridgeResolves, BridgeRejects, ExecReturns,
                Unhandled, Crash, Settle
  <2> QED BY <1>1, <2>1, <2>2, SessionLess
<1> QED BY <1>2, <1>3

LEMMA OthersNoMore ==
  ASSUME OwnTypeOK, StreamTypeOK, Delivered, NEW e \in Ends,
         TimerFires(e) \/ Surroundings(e)
  PROVE  Left' <= Left
<1>1. UNCHANGED <<sending, sent, got>>
  BY AbortTypes, CutTypes
  DEF TimerFires, Surroundings, SocketBreaks, StdoutBreaks, StdinBreaks,
      ChildExits, StreamBreaks, Crash, streamVars
<1>2. /\ \/ receiving'[e] = receiving[e]
         \/ receiving[e] = "draining" /\ receiving'[e] = "failed"
      /\ \A a \in Ends : a # e => receiving'[a] = receiving[a]
  BY DEF TimerFires, Surroundings, SocketBreaks, StdoutBreaks, StdinBreaks,
         ChildExits, StreamBreaks, OwnTypeOK
<1>3. /\ session'[e] = session[e] \/ session'[e] = "crashed"
      /\ \A a \in Ends : a # e => session'[a] = session[a]
  BY DEF TimerFires, Surroundings, SocketBreaks, StdoutBreaks, StdinBreaks,
         ChildExits, StreamBreaks, Crash, endVars, OwnTypeOK
<1>4. Chores(e)' <= Chores(e)
  <2>1. ReceivingLeft(e)' <= ReceivingLeft(e)
    BY <1>2 DEF ReceivingLeft
  <2>2. SendingLeft(e)' = SendingLeft(e)
    BY <1>1 DEF SendingLeft
  <2>3. SessionLeft(e)' <= SessionLeft(e)
    BY <1>3 DEF SessionLeft
  <2> QED BY <2>1, <2>2, <2>3, PartsOfChores
<1>5. Chores(Other(e))' = Chores(Other(e))
  BY <1>1, <1>2, <1>3, OtherEnd, SameChores
<1> QED BY <1>1, <1>4, <1>5, SameChunks, OneEndLess

(* Two sessions run out of steps, for inputs of any length. *)
THEOREM SessionsRunOut == Spec => ComesToItsEnd
<1>1. ASSUME TypeOK, GoesInv, [Next]_vars
      PROVE  /\ Left \in Nat /\ Left' <= Left
             /\ Runtime => Left' < Left
  <2>1. OwnTypeOK /\ StreamTypeOK /\ Delivered
    BY <1>1, TypeParts DEF GoesInv
  <2>2. Left \in Nat
    BY <2>1, LeftIsNat
  <2>3. Left' \in Nat
    <3>1. StreamTypeOK' /\ Delivered'
      BY <1>1, <2>1, StreamTypes, DeliveredStays
    <3>2. \A e \in Ends : Bound(e)' = Bound(e)
      BY DEF Bound
    <3> QED BY <3>1, LeftNext
  <2>4. Runtime => Left' < Left
    BY <2>1, PumpingLess, ReceivingLess, WaitingLess DEF Runtime
  <2>5. ASSUME NEW e \in Ends, PumpChunk(e) \/ PumpEnds(e) \/ Unhandled(e)
        PROVE  Left' < Left
    BY <2>1, <2>5, ChunkLess, PumpingLess, WaitingLess
  <2>6. ASSUME NEW e \in Ends, TimerFires(e) \/ Surroundings(e)
        PROVE  Left' <= Left
    BY <2>1, <2>6, OthersNoMore
  <2>7. ASSUME UNCHANGED vars PROVE Left' = Left
    BY <2>7 DEF vars, streamVars, endVars, Left, Chunks, Bound, Chores,
       SendingLeft, ReceivingLeft, SessionLeft
  <2>8. Left' < Left \/ Left' <= Left
    BY <1>1, <2>2, <2>4, <2>5, <2>6, <2>7 DEF Next, Runtime
  <2> QED BY <2>2, <2>3, <2>4, <2>8
<1>2. Spec => [](TypeOK /\ GoesInv)
  BY InitTypes, InitGoes, StepGoes, TypeCorrect, PTL DEF Spec
<1>3. TypeOK /\ GoesInv /\ [Next]_vars =>
        [/\ Left \in Nat /\ Left' <= Left
         /\ Runtime => Left' < Left]_vars
  BY <1>1
<1> QED BY <1>2, <1>3, PTL DEF Spec, ComesToItsEnd
=============================================================================
