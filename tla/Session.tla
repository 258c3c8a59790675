------------------------------- MODULE Session -------------------------------
(***************************************************************************)
(* The sessions of src/session.js at the two ends of one stream, and       *)
(* tcpForwardSession of src/forwarding.js: two pumps, inputToP2P from an   *)
(* input to the stream and p2pToOutput from the stream to an output, and   *)
(* the code that waits for both.                                           *)
(*                                                                         *)
(* The stream is the one of DuplexStream, which TrysteroStream implements. *)
(* The client bridges it to its stdin and stdout; what the listener        *)
(* bridges it to is the kind of its session: "pipe", its own stdin and     *)
(* stdout, in a process that ends with this session, as the client's does, *)
(* "kept", the same under -k, "socket", a TCP connection, or "exec", a     *)
(* child process.                                                          *)
(***************************************************************************)
EXTENDS Naturals, Sequences, StreamEnds

CONSTANTS ClientChunks,     \* bound: chunks the client's input yields
          ListenerChunks,   \* bound: chunks the listener's input yields
          ListenerKinds,    \* the kinds of session the listener may run
          Idle,             \* ends with an inactivity timeout (-w given)
          MayBreak          \* the stream may break by itself

ASSUME ChunksAssumption == ClientChunks \in Nat /\ ListenerChunks \in Nat
ASSUME KindsAssumption ==
  ListenerKinds \subseteq {"pipe", "kept", "socket", "exec"}
ASSUME IdleAssumption == Idle \subseteq Ends /\ MayBreak \in BOOLEAN

VARIABLES kind,         \* kind[e]: what end e bridges the stream to
          broken,       \* broken[e]: the socket of end e is destroyed
          exited,       \* exited[e]: the child process has exited
          sending,      \* inputToP2P of end e
          receiving,    \* p2pToOutput of end e
          output,       \* output[e]: the chunks written to the output
          outEnded,     \* output.end() was called
          timer,        \* the inactivity timer is armed
          session,      \* how the session of end e came out
          sent, got, sealed, reader, cut    \* the stream: see DuplexStream

Stream == INSTANCE DuplexStream

streamVars == <<sent, got, sealed, reader, cut>>
envVars == <<kind, broken, exited>>
endVars == <<outEnded, timer, session>>
vars == <<streamVars, envVars, endVars, sending, receiving, output>>

Bound(e) == IF e = "client" THEN ClientChunks ELSE ListenerChunks

Pump == {"reading", "draining", "done", "failed"}

TypeOK == /\ kind \in [Ends -> {"pipe", "kept", "socket", "exec"}]
          /\ broken \in [Ends -> BOOLEAN]
          /\ exited \in [Ends -> BOOLEAN]
          /\ sending \in [Ends -> Pump \cup {"delaying", "closing"}]
          /\ receiving \in [Ends -> Pump]
          /\ output \in [Ends -> Seq(Nat)]
          /\ outEnded \in [Ends -> BOOLEAN]
          /\ timer \in [Ends -> BOOLEAN]
          /\ session \in
               [Ends -> {"running", "resolved", "rejected", "left",
                         "crashed"}]
          /\ sent \in [Ends -> Nat] /\ \A e \in Ends : sent[e] <= Bound(e)
          /\ got \in [Ends -> Seq(Nat)]
          /\ sealed \in [Ends -> BOOLEAN]
          /\ reader \in [Ends -> {"open", "ended", "failed"}]
          /\ cut \in BOOLEAN

(* The bridges to stdin and stdout. *)
Pipe(e) == kind[e] \in {"pipe", "kept"}

(* execSession and tcpForwardSession pass no inactivity timeout. *)
HasTimer(e) == e \in Idle /\ Pipe(e)

Init == /\ Stream!Init
        /\ kind \in {k \in [Ends -> {"pipe"} \cup ListenerKinds] :
                       /\ k["client"] = "pipe"
                       /\ k["listener"] \in ListenerKinds}
        /\ broken = [e \in Ends |-> FALSE]
        /\ exited = [e \in Ends |-> FALSE]
        /\ sending = [e \in Ends |-> "reading"]
        /\ receiving = [e \in Ends |-> "reading"]
        /\ output = [e \in Ends |-> << >>]
        /\ outEnded = [e \in Ends |-> FALSE]
        /\ timer = [e \in Ends |-> HasTimer(e)]
        /\ session = [e \in Ends |-> "running"]
-----------------------------------------------------------------------------
(* The process of end e is there, and no step is its last. *)
Alive(e) == session[e] \notin {"left", "crashed"}

(* A destroyed output takes no more data and never reports "drain". *)
Destroyed(e) == exited[e] \/ broken[e]

(* onActivity() *)
Active(e) == timer' = [timer EXCEPT ![e] = HasTimer(e)]

(* The stream breaks at end e.  A loop that waits for a chunk may see the  *)
(* error; one that is busy with its output or still has chunks does not.   *)
CutAt(e) ==
  /\ sealed' = [sealed EXCEPT ![e] = TRUE]
  /\ \/ UNCHANGED reader
     \/ /\ reader[e] = "open"
        /\ receiving[e] = "reading"
        /\ reader' = [reader EXCEPT ![e] = "failed"]
  /\ Stream!Cut

(* abort() of a stream that is closed on both sides does nothing. *)
StreamClosed(e) ==
  sealed[e] /\ reader[e] # "open" /\ sending[e] # "closing"

Abort(e) == IF StreamClosed(e) THEN UNCHANGED streamVars ELSE CutAt(e)

(* The process of end e ends, and with it this end of the stream. *)
Crash(e) == /\ session' = [session EXCEPT ![e] = "crashed"]
            /\ timer' = [timer EXCEPT ![e] = FALSE]
            /\ Abort(e)

(* Mutant: the catch of inputToP2P only rethrows. *)
SendingFailsQuietly(e) == /\ sending' = [sending EXCEPT ![e] = "failed"]
                          /\ UNCHANGED streamVars

(* The catch of inputToP2P. *)
SendingFails(e) == /\ sending' = [sending EXCEPT ![e] = "failed"]
                   /\ Abort(e)

(* writeToNodeStream: the chunk is written, then "drain" is awaited if the *)
(* output is full.                                                         *)
Write(e) ==
  /\ output' = [output EXCEPT ![e] = Append(@, Len(got[e]) + 1)]
  /\ \E r \in IF Destroyed(e) THEN {"draining"} ELSE {"reading", "draining"} :
       receiving' = [receiving EXCEPT ![e] = r]

(* The finally of remoteToStdin: the stdin of the child is ended. *)
PumpOver(e) == outEnded' = [outEnded EXCEPT ![e] = @ \/ kind[e] = "exec"]

(* Mutants of the finally of bridgeSession: it settles with no outcome; it *)
(* leaves the timer running.                                               *)
SettleUndefined(e, outcome) ==
  /\ session' = [session EXCEPT ![e] = "settled"]
  /\ outEnded' = [outEnded EXCEPT ![e] = @ \/ kind[e] = "socket"]
  /\ timer' = [timer EXCEPT ![e] = FALSE]

SettleArmed(e, outcome) ==
  /\ session' = [session EXCEPT ![e] = outcome]
  /\ outEnded' = [outEnded EXCEPT ![e] = @ \/ kind[e] = "socket"]
  /\ UNCHANGED timer

(* The finally of bridgeSession. *)
Settle(e, outcome) ==
  /\ session' = [session EXCEPT ![e] = outcome]
  /\ outEnded' = [outEnded EXCEPT ![e] = @ \/ kind[e] = "socket"]
  /\ timer' = [timer EXCEPT ![e] = FALSE]
-----------------------------------------------------------------------------
(* inputToP2P *)

(* The input yields a chunk: it is sent, or send() throws. *)
PumpChunk(e) ==
  /\ Alive(e)
  /\ sending[e] = "reading"
  /\ ~broken[e]
  /\ Active(e)
  /\ IF sealed[e]
       THEN SendingFails(e)
       ELSE /\ sent[e] < Bound(e)
            /\ Stream!Send(e)
            /\ \E s \in {"reading", "draining"} :
                 sending' = [sending EXCEPT ![e] = s]
  /\ UNCHANGED <<envVars, receiving, output, outEnded, session>>

(* onDrain() settles; it only rejects when the stream is cut. *)
PumpDrained(e) ==
  /\ Alive(e)
  /\ sending[e] = "draining"
  /\ \/ /\ sending' = [sending EXCEPT ![e] = "reading"]
        /\ UNCHANGED streamVars
     \/ cut /\ SendingFails(e)
  /\ UNCHANGED <<envVars, receiving, output, endVars>>

(* Mutant: the end of the input is not passed on. *)
ForgetToClose(e) == /\ sending' = [sending EXCEPT ![e] = "closing"]
                    /\ UNCHANGED streamVars

(* close() of the stream is called. *)
CloseStream(e) == /\ sending' = [sending EXCEPT ![e] = "closing"]
                  /\ Stream!Seal(e)

(* The input is over: the quit delay of a bridge with stdin begins, or     *)
(* the stream is closed at once.                                           *)
PumpEnds(e) ==
  /\ Alive(e)
  /\ sending[e] = "reading"
  /\ ~broken[e]
  /\ \/ CloseStream(e)
     \/ /\ Pipe(e)
        /\ sending' = [sending EXCEPT ![e] = "delaying"]
        /\ UNCHANGED streamVars
  /\ UNCHANGED <<envVars, receiving, output, endVars>>

PumpDelayOver(e) ==
  /\ Alive(e)
  /\ sending[e] = "delaying"
  /\ CloseStream(e)
  /\ UNCHANGED <<envVars, receiving, output, endVars>>

(* close() settles; it only throws when the stream is cut. *)
PumpClosed(e) ==
  /\ Alive(e)
  /\ sending[e] = "closing"
  /\ \/ /\ sending' = [sending EXCEPT ![e] = "done"]
        /\ UNCHANGED streamVars
     \/ cut /\ SendingFails(e)
  /\ UNCHANGED <<envVars, receiving, output, endVars>>

(* The iterator of the input throws. *)
PumpBreaks(e) ==
  /\ Alive(e)
  /\ sending[e] = "reading"
  /\ broken[e]
  /\ SendingFails(e)
  /\ UNCHANGED <<envVars, receiving, output, endVars>>
-----------------------------------------------------------------------------
(* p2pToOutput *)

ReceiveChunk(e) ==
  /\ Alive(e)
  /\ receiving[e] = "reading"
  /\ Stream!Deliver(e)
  /\ Active(e)
  /\ Write(e)
  /\ UNCHANGED <<envVars, sending, outEnded, session>>

OutputDrained(e) ==
  /\ Alive(e)
  /\ receiving[e] = "draining"
  /\ ~Destroyed(e)
  /\ receiving' = [receiving EXCEPT ![e] = "reading"]
  /\ UNCHANGED <<streamVars, envVars, sending, output, endVars>>

(* The loop over the stream finishes or throws.  peerLeft() seals too. *)
ReceiveEnds(e) ==
  /\ Alive(e)
  /\ receiving[e] = "reading"
  /\ \/ /\ Stream!EndOfStream(e)
        /\ cut \/ sealed' = sealed
        /\ receiving' = [receiving EXCEPT ![e] = "done"]
     \/ /\ reader[e] = "failed"
        /\ receiving' = [receiving EXCEPT ![e] = "failed"]
        /\ UNCHANGED streamVars
  /\ PumpOver(e)
  /\ UNCHANGED <<envVars, sending, output, timer, session>>
-----------------------------------------------------------------------------
(* Who waits for the pumps. *)

(* Mutant: one pump is enough, Promise.race for Promise.all. *)
OneDone(e) == sending[e] = "done" \/ receiving[e] = "done"

BothDone(e) == sending[e] = "done" /\ receiving[e] = "done"
OneFailed(e) == sending[e] = "failed" \/ receiving[e] = "failed"
BothOver(e) == /\ sending[e] \in {"done", "failed"}
               /\ receiving[e] \in {"done", "failed"}

(* Promise.all in bridgeSession *)
BridgeResolves(e) ==
  /\ kind[e] # "exec" /\ session[e] = "running"
  /\ BothDone(e)
  /\ Settle(e, "resolved")
  /\ UNCHANGED <<streamVars, envVars, sending, receiving, output>>

(* The other pump goes on; tcpForwardSession destroys its socket. *)
BridgeRejects(e) ==
  /\ kind[e] # "exec" /\ session[e] = "running"
  /\ OneFailed(e)
  /\ Settle(e, "rejected")
  /\ broken' = [broken EXCEPT ![e] = kind[e] = "socket"]
  /\ UNCHANGED <<streamVars, kind, exited, sending, receiving, output>>

(* execSession waits for the exit, then for both pumps. *)
ExecReturns(e) ==
  /\ kind[e] = "exec" /\ session[e] = "running"
  /\ exited[e] /\ BothOver(e)
  /\ session' = [session EXCEPT ![e] = "resolved"]
  /\ UNCHANGED <<streamVars, envVars, sending, receiving, output, outEnded,
                 timer>>

(* A process that ends with its session leaves the room and stops its node *)
(* when the session is rejected: the finally of runClient, and that of a   *)
(* runListener without -k.                                                 *)
ProcessLeaves(e) ==
  /\ kind[e] = "pipe" /\ session[e] = "rejected"
  /\ session' = [session EXCEPT ![e] = "left"]
  /\ Abort(e)
  /\ UNCHANGED <<envVars, sending, receiving, output, outEnded, timer>>

(* Before the exit nobody handles the promises of the pumps: one that      *)
(* rejects ends the process.                                               *)
Unhandled(e) ==
  /\ kind[e] = "exec" /\ session[e] = "running"
  /\ ~exited[e] /\ OneFailed(e)
  /\ Crash(e)
  /\ UNCHANGED <<envVars, sending, receiving, output, outEnded>>

(* The inactivity timeout aborts the stream. *)
TimerFires(e) ==
  /\ timer[e]
  /\ timer' = [timer EXCEPT ![e] = FALSE]
  /\ Abort(e)
  /\ UNCHANGED <<envVars, sending, receiving, output, outEnded, session>>
-----------------------------------------------------------------------------
(* The surroundings. *)

(* An error of the socket: a wait for "drain" rejects, the iterator of the *)
(* input throws.                                                           *)
SocketBreaks(e) ==
  /\ kind[e] = "socket"
  /\ ~broken[e]
  /\ broken' = [broken EXCEPT ![e] = TRUE]
  /\ receiving' = [receiving EXCEPT ![e] = IF @ = "draining" THEN "failed"
                                           ELSE @]
  /\ UNCHANGED <<streamVars, kind, exited, sending, output, endVars>>

(* Nobody reads what end e writes to its stdout any more.  A wait for      *)
(* "drain" rejects, and nothing aborts the stream; without one, nobody     *)
(* listens for the error and it ends the process.                          *)
StdoutBreaks(e) ==
  /\ Pipe(e) /\ Alive(e)
  /\ output[e] # << >>
  /\ \/ /\ receiving[e] = "draining"
        /\ receiving' = [receiving EXCEPT ![e] = "failed"]
        /\ UNCHANGED <<streamVars, session, timer>>
     \/ /\ receiving[e] # "draining"
        /\ Crash(e)
        /\ UNCHANGED receiving
  /\ UNCHANGED <<envVars, sending, output, outEnded>>

(* The child closes its stdin while a write to it waits. *)
StdinBreaks(e) ==
  /\ kind[e] = "exec" /\ ~exited[e]
  /\ Alive(e)
  /\ receiving[e] = "draining"
  /\ receiving' = [receiving EXCEPT ![e] = "failed"]
  /\ PumpOver(e)
  /\ UNCHANGED <<streamVars, envVars, sending, output, timer, session>>

ChildExits(e) ==
  /\ kind[e] = "exec" /\ ~exited[e]
  /\ Alive(e)
  /\ exited' = [exited EXCEPT ![e] = TRUE]
  /\ UNCHANGED <<streamVars, kind, broken, sending, receiving, output,
                 endVars>>

(* The connection is lost, or end e learns that the other end gave up. *)
StreamBreaks(e) ==
  /\ cut \/ MayBreak
  /\ Alive(e)
  /\ ~StreamClosed(e)
  /\ CutAt(e)
  /\ UNCHANGED <<envVars, endVars, sending, receiving, output>>
-----------------------------------------------------------------------------
Pumping(e) == \/ PumpDrained(e) \/ PumpDelayOver(e) \/ PumpClosed(e)
              \/ PumpBreaks(e)
Receiving(e) == ReceiveChunk(e) \/ OutputDrained(e) \/ ReceiveEnds(e)
Waiting(e) == \/ BridgeResolves(e) \/ BridgeRejects(e) \/ ExecReturns(e)
              \/ ProcessLeaves(e)
Surroundings(e) == \/ SocketBreaks(e) \/ StdoutBreaks(e) \/ StdinBreaks(e)
                   \/ ChildExits(e) \/ StreamBreaks(e)

Next == \E e \in Ends : \/ PumpChunk(e) \/ PumpEnds(e) \/ Pumping(e)
                        \/ Receiving(e) \/ Waiting(e) \/ Unhandled(e)
                        \/ TimerFires(e) \/ Surroundings(e)

Spec == Init /\ [][Next]_vars

(* Promise reactions run, the stream delivers, an output that is not       *)
(* destroyed drains.  Nobody has to type, close or exit.                   *)
Runtime == \E e \in Ends : Pumping(e) \/ Receiving(e) \/ Waiting(e)

Fairness == WF_vars(Runtime)

FairSpec == Spec /\ Fairness
-----------------------------------------------------------------------------
(* What one end wrote to its output is a prefix of what the input of the   *)
(* other end gave it; when a bridge resolves over a stream nobody cut it   *)
(* is all of it, and the other input is over: a resolved session lost      *)
(* nothing, whichever side ended first and however slow the outputs were.  *)
ResolvedIsComplete ==
  \A e \in Ends :
    /\ \A i \in 1..Len(output[e]) : output[e][i] = i
    /\ session[e] = "resolved" /\ kind[e] # "exec" /\ ~cut =>
         Len(output[e]) = sent[Other(e)] /\ sealed[Other(e)]

(* A session that resolved leaves nothing behind that could still abort    *)
(* the stream: its timer is off, and no pump is left to arm it again.      *)
ResolvedIsQuiet ==
  \A e \in Ends : session[e] = "resolved" =>
    ~timer[e] /\ sending[e] \in {"done", "failed"}

(* When both inputs are over and nothing breaks, both sessions resolve:    *)
(* the two half-closes meet, whatever the order.                           *)
Disturbed == \/ cut
             \/ \E e \in Ends : \/ Destroyed(e) \/ ~Alive(e)
                               \/ receiving[e] = "failed"

InputOver(e) == sending[e] \in {"delaying", "closing", "done"}

BothEndsResolve ==
  (\A e \in Ends : InputOver(e)) ~>
    (Disturbed \/ \A e \in Ends : \/ session[e] = "resolved"
                                  \/ kind[e] = "exec")

(* A rejected session does not leave its stream half-open: whichever pump  *)
(* failed, the other end gets an end of what it reads.  But for one case:  *)
(* under -k, where only the wait for stdout failed, nobody aborts the      *)
(* stream, and it stays half-open for as long as the listener's stdin is   *)
(* neither over nor broken.                                                *)
HalfOpen(e) == /\ kind[e] = "kept" /\ session[e] = "rejected"
               /\ receiving[e] = "failed" /\ sending[e] = "reading"
               /\ ~sealed[e]

RejectedIsSealed ==
  \A e \in Ends : session[e] = "rejected" ~> sealed[e] \/ HalfOpen(e)

(* docs/ARCHITECTURE.md: the listener can keep accepting sessions.  So no  *)
(* session with a command, however it goes, ends the listener's process.   *)
ListenerSurvives == session["listener"] # "crashed"
=============================================================================
