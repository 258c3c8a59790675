--------------------------- MODULE TrysteroStream ---------------------------
(***************************************************************************)
(* class TrysteroStream of packages/core/src/index.js at both ends of one  *)
(* WebRTC room, with the parts of createHub (src/trystero.js) that wire it *)
(* to the room: a byte stream with half-close, made from two actions of    *)
(* the room, "data" and "control".                                         *)
(*                                                                         *)
(* The code is one object per end; here every field is a function of the   *)
(* end.  The chunk an end sends n-th is the number n: the properties are   *)
(* about order and loss, not about the bytes.                              *)
(*                                                                         *)
(* The room is a library: it is modelled from how the code uses it.  What  *)
(* one end sends arrives in the order it was sent, room.leave() is         *)
(* announced behind it (onPeerLeave), a lost connection drops what is in   *)
(* flight and is announced at both ends, and a message for a peer that is  *)
(* not in the room is dropped or makes the send reject.                    *)
(***************************************************************************)
EXTENDS Naturals, Sequences, StreamEnds

CONSTANTS MaxChunks,          \* bound: chunks one end sends
          LeavesOnFinalize    \* ends whose onFinalize leaves the room

ASSUME MaxChunksAssumption == MaxChunks \in Nat

(* connectTrystero asks for leaveAfterStream, startTrysteroListener does   *)
(* not: {"client"} is what the code uses.                                  *)
ASSUME LeavesAssumption == LeavesOnFinalize \subseteq Ends

VARIABLES status,       \* status[e]: "open" or "closed"
          writeStatus,  \* writeStatus[e]: "writable", "closing" or "closed"
          pending,      \* #pending: chunks whose sendData has not run yet
          sendFailed,   \* #pending is a rejected promise
          closeCall,    \* how far the one effective call of close() is
          items,        \* #items: received chunks nobody has read
          readClosed,   \* #readClosed
          reader,       \* the for-await loop over the stream
          finalized,    \* #finalized
          sent,         \* history: how many chunks send() accepted
          got,          \* history: the chunks the reader was handed
          chan,         \* chan[e]: messages on their way to end e
          inRoom,       \* inRoom[e]: end e has not left the room
          linkUp,       \* the peer connection of the room
          cut           \* history: the ends that gave up, and "link" when lost

stateVars == <<status, writeStatus, readClosed, finalized>>
writeVars == <<pending, sendFailed, closeCall, sent>>
readVars == <<items, reader, got>>
roomVars == <<inRoom, linkUp, cut>>
vars == <<stateVars, writeVars, readVars, roomVars, chan>>

Data(n) == [kind |-> "data", n |-> n]
Control(k) == [kind |-> k, n |-> 0]
Message == [kind : {"data"}, n : 1..MaxChunks]
             \cup [kind : {"eof", "abort", "leave"}, n : {0}]

TypeOK == /\ status \in [Ends -> {"open", "closed"}]
          /\ writeStatus \in [Ends -> {"writable", "closing", "closed"}]
          /\ pending \in [Ends -> Seq(1..MaxChunks)]
          /\ sendFailed \in [Ends -> BOOLEAN]
          /\ closeCall \in
               [Ends -> {"none", "draining", "eofSent", "returned", "threw"}]
          /\ items \in [Ends -> Seq(1..MaxChunks)]
          /\ readClosed \in [Ends -> BOOLEAN]
          /\ reader \in [Ends -> {"idle", "waiting", "ended", "failed"}]
          /\ finalized \in [Ends -> BOOLEAN]
          /\ sent \in [Ends -> 0..MaxChunks]
          /\ got \in [Ends -> Seq(1..MaxChunks)]
          /\ chan \in [Ends -> Seq(Message)]
          /\ inRoom \in [Ends -> BOOLEAN]
          /\ linkUp \in BOOLEAN
          /\ cut \subseteq Ends \cup {"link"}

Init == /\ status = [e \in Ends |-> "open"]
        /\ writeStatus = [e \in Ends |-> "writable"]
        /\ pending = [e \in Ends |-> << >>]
        /\ sendFailed = [e \in Ends |-> FALSE]
        /\ closeCall = [e \in Ends |-> "none"]
        /\ items = [e \in Ends |-> << >>]
        /\ readClosed = [e \in Ends |-> FALSE]
        /\ reader = [e \in Ends |-> "idle"]
        /\ finalized = [e \in Ends |-> FALSE]
        /\ sent = [e \in Ends |-> 0]
        /\ got = [e \in Ends |-> << >>]
        /\ chan = [e \in Ends |-> << >>]
        /\ inRoom = [e \in Ends |-> TRUE]
        /\ linkUp = TRUE
        /\ cut = {}
-----------------------------------------------------------------------------
(* What end e puts on the wire reaches the room of the other end. *)
Reachable(e) == linkUp /\ inRoom[e] /\ inRoom[Other(e)]

(* The channels after end e sends m, given the channels c before. *)
Post(c, e, m) == IF Reachable(e) THEN [c EXCEPT ![Other(e)] = Append(@, m)]
                 ELSE c

(* The head of the channel to e is taken off: the handlers' first step. *)
Taken(e) == [chan EXCEPT ![e] = Tail(@)]

Arriving(e, k) == inRoom[e] /\ chan[e] # << >> /\ Head(chan[e]).kind = k

(* room.leave(): what is on its way to e is not handed to it any more. *)
LeaveRoom(e, c) ==
  /\ chan' = [Post(c, e, Control("leave")) EXCEPT ![e] = << >>]
  /\ inRoom' = [inRoom EXCEPT ![e] = FALSE]

(* #finalize, with the onFinalize of the hub or of the browser client. *)
Finalize(e, c) ==
  /\ finalized' = [finalized EXCEPT ![e] = TRUE]
  /\ IF ~finalized[e] /\ inRoom[e] /\ e \in LeavesOnFinalize
       THEN LeaveRoom(e, c)
       ELSE chan' = c /\ UNCHANGED inRoom

(* #maybeFinalize, where rc and ws are #readClosed and writeStatus. *)
MaybeFinalize(e, rc, ws, c) ==
  IF rc /\ ws = "closed"
    THEN status' = [status EXCEPT ![e] = "closed"] /\ Finalize(e, c)
    ELSE chan' = c /\ UNCHANGED <<status, finalized, inRoom>>

(* The waiter of the reader, if there is one, is settled with outcome. *)
Wake(e, outcome) ==
  reader' = [reader EXCEPT ![e] = IF @ = "waiting" THEN outcome ELSE @]

(* #fail: the error goes to the waiter and nowhere else. *)
Fail(e) == /\ readClosed' = [readClosed EXCEPT ![e] = TRUE]
           /\ Wake(e, "failed")

(* Mutants of #endRead: it rejects the waiter; it overlooks the waiter. *)
EndReadByError(e) == Fail(e)
EndReadSilently(e) == /\ readClosed' = [readClosed EXCEPT ![e] = TRUE]
                      /\ UNCHANGED reader

(* #endRead *)
EndRead(e) == IF readClosed[e] THEN UNCHANGED <<readClosed, reader>>
              ELSE /\ readClosed' = [readClosed EXCEPT ![e] = TRUE]
                   /\ Wake(e, "ended")

(* #pending has been fulfilled. *)
Drained(e) == pending[e] = << >> /\ ~sendFailed[e]

(* receiveData() has nobody to receive for. *)
IgnoresData(e) == readClosed[e] \/ status[e] = "closed"

(* Mutants of the buffering: unshift for push; a waiter is overlooked. *)
BufferAtFront(e, n) ==
  IF reader[e] = "waiting"
    THEN /\ got' = [got EXCEPT ![e] = Append(@, n)]
         /\ reader' = [reader EXCEPT ![e] = "idle"]
         /\ UNCHANGED items
    ELSE /\ items' = [items EXCEPT ![e] = <<n>> \o @]
         /\ UNCHANGED <<got, reader>>
(* A chunk goes to the waiter if the reader waits, else to #items. *)
Buffer(e, n) ==
  IF reader[e] = "waiting"
    THEN /\ got' = [got EXCEPT ![e] = Append(@, n)]
         /\ reader' = [reader EXCEPT ![e] = "idle"]
         /\ UNCHANGED items
    ELSE /\ items' = [items EXCEPT ![e] = Append(@, n)]
         /\ UNCHANGED <<got, reader>>

(* Mutant: the end is looked at before the buffer. *)
HasItemUnlessClosed(e) == items[e] # << >> /\ ~readClosed[e]

(* next() finds a chunk in #items. *)
HasItem(e) == items[e] # << >>
-----------------------------------------------------------------------------
(* send(): throws unless writable (no step), else chains one sendData.  On *)
(* a rejected #pending the new link of the chain never runs.               *)
Send(e) ==
  /\ writeStatus[e] = "writable"
  /\ sent[e] < MaxChunks
  /\ sent' = [sent EXCEPT ![e] = @ + 1]
  /\ pending' = IF sendFailed[e] THEN pending
                ELSE [pending EXCEPT ![e] = Append(@, sent[e] + 1)]
  /\ UNCHANGED <<stateVars, readVars, roomVars, sendFailed, closeCall, chan>>

(* The next link of the #pending chain runs sendData.  The chain goes on   *)
(* after an abort: nothing in it looks at the status.                      *)
Transmit(e) ==
  /\ pending[e] # << >>
  /\ pending' = [pending EXCEPT ![e] = Tail(@)]
  /\ chan' = Post(chan, e, Data(Head(pending[e])))
  /\ UNCHANGED <<stateVars, readVars, roomVars, sendFailed, closeCall, sent>>

(* sendData rejects: so does the rest of the chain. *)
TransmitFails(e) ==
  /\ pending[e] # << >>
  /\ ~Reachable(e)
  /\ pending' = [pending EXCEPT ![e] = << >>]
  /\ sendFailed' = [sendFailed EXCEPT ![e] = TRUE]
  /\ UNCHANGED <<stateVars, readVars, roomVars, closeCall, sent, chan>>

(* close(), up to its first await; a second call returns at once. *)
Close(e) ==
  /\ writeStatus[e] = "writable"
  /\ writeStatus' = [writeStatus EXCEPT ![e] = "closing"]
  /\ closeCall' = [closeCall EXCEPT ![e] = "draining"]
  /\ UNCHANGED <<readVars, roomVars, chan, status, readClosed, finalized,
                 pending, sendFailed, sent>>

(* #pending has settled: the end-of-file goes out. *)
CloseSendsEof(e) ==
  /\ closeCall[e] = "draining"
  /\ Drained(e)
  /\ closeCall' = [closeCall EXCEPT ![e] = "eofSent"]
  /\ chan' = Post(chan, e, Control("eof"))
  /\ UNCHANGED <<stateVars, readVars, roomVars, pending, sendFailed, sent>>

(* One of the two awaits rejects and close() throws, still "closing". *)
CloseThrows(e) ==
  /\ closeCall[e] = "draining"
  /\ pending[e] = << >>
  /\ sendFailed[e] \/ ~Reachable(e)
  /\ closeCall' = [closeCall EXCEPT ![e] = "threw"]
  /\ UNCHANGED <<stateVars, readVars, roomVars, chan,
                 pending, sendFailed, sent>>

(* sendControl has settled: the rest of close(). *)
CloseReturns(e) ==
  /\ closeCall[e] = "eofSent"
  /\ closeCall' = [closeCall EXCEPT ![e] = "returned"]
  /\ writeStatus' = [writeStatus EXCEPT ![e] = "closed"]
  /\ MaybeFinalize(e, readClosed[e], "closed", chan)
  /\ UNCHANGED <<readVars, pending, sendFailed, sent, readClosed, linkUp, cut>>

(* abort(): the control message does not wait for #pending. *)
Abort(e) ==
  /\ status[e] # "closed"
  /\ status' = [status EXCEPT ![e] = "closed"]
  /\ writeStatus' = [writeStatus EXCEPT ![e] = "closed"]
  /\ Fail(e)
  /\ Finalize(e, Post(chan, e, Control("abort")))
  /\ cut' = cut \cup {e}
  /\ UNCHANGED <<writeVars, items, got, linkUp>>

(* receiveData() *)
ReceiveData(e) ==
  /\ Arriving(e, "data")
  /\ chan' = Taken(e)
  /\ IF IgnoresData(e) THEN UNCHANGED readVars ELSE Buffer(e, Head(chan[e]).n)
  /\ UNCHANGED <<stateVars, writeVars, roomVars>>

(* receiveControl('eof') *)
ReceiveEof(e) ==
  /\ Arriving(e, "eof")
  /\ EndRead(e)
  /\ MaybeFinalize(e, TRUE, writeStatus[e], Taken(e))
  /\ UNCHANGED <<writeVars, writeStatus, items, got, linkUp, cut>>

(* receiveControl('abort'): whatever the status is. *)
ReceiveAbort(e) ==
  /\ Arriving(e, "abort")
  /\ status' = [status EXCEPT ![e] = "closed"]
  /\ writeStatus' = [writeStatus EXCEPT ![e] = "closed"]
  /\ Fail(e)
  /\ Finalize(e, Taken(e))
  /\ UNCHANGED <<writeVars, items, got, linkUp, cut>>

(* onPeerLeave: peerLeft(), a clean end for the reader. *)
ReceiveLeave(e) ==
  /\ Arriving(e, "leave")
  /\ IF status[e] = "closed"
       THEN /\ chan' = Taken(e)
            /\ UNCHANGED <<stateVars, reader, inRoom>>
       ELSE /\ status' = [status EXCEPT ![e] = "closed"]
            /\ writeStatus' = [writeStatus EXCEPT ![e] = "closed"]
            /\ EndRead(e)
            /\ Finalize(e, Taken(e))
  /\ UNCHANGED <<writeVars, items, got, linkUp, cut>>

(* next() of the iterator: the buffer first, then the end, else a waiter.  *)
(* One for-await loop reads the stream and calls next() when it is idle.   *)
ReaderNext(e) ==
  /\ reader[e] = "idle"
  /\ IF HasItem(e)
       THEN /\ got' = [got EXCEPT ![e] = Append(@, Head(items[e]))]
            /\ items' = [items EXCEPT ![e] = Tail(@)]
            /\ UNCHANGED reader
       ELSE /\ reader' = [reader EXCEPT ![e] = IF readClosed[e] THEN "ended"
                                               ELSE "waiting"]
            /\ UNCHANGED <<items, got>>
  /\ UNCHANGED <<stateVars, writeVars, roomVars, chan>>

(* close() of the hub: peerLeft() on its stream, then the room is left. *)
HubClose(e) ==
  /\ inRoom[e]
  /\ IF status[e] = "closed"
       THEN UNCHANGED <<stateVars, reader, cut>>
       ELSE /\ status' = [status EXCEPT ![e] = "closed"]
            /\ writeStatus' = [writeStatus EXCEPT ![e] = "closed"]
            /\ EndRead(e)
            /\ finalized' = [finalized EXCEPT ![e] = TRUE]
            /\ cut' = cut \cup {e}
  /\ LeaveRoom(e, chan)
  /\ UNCHANGED <<writeVars, items, got, linkUp>>

(* The peer connection is lost. *)
Disconnect ==
  /\ linkUp
  /\ linkUp' = FALSE
  /\ chan' = [e \in Ends |-> IF inRoom[e] THEN <<Control("leave")>> ELSE << >>]
  /\ cut' = cut \cup {"link"}
  /\ UNCHANGED <<stateVars, writeVars, readVars, inRoom>>
-----------------------------------------------------------------------------
(* What the users of the stream do, when they choose to. *)
User(e) == Send(e) \/ Close(e) \/ Abort(e) \/ HubClose(e)

(* What the runtime does by itself: promise reactions and room events. *)
Drain(e) == Transmit(e) \/ TransmitFails(e)
CloseGoesOn(e) == CloseSendsEof(e) \/ CloseThrows(e) \/ CloseReturns(e)
Receive(e) ==
  ReceiveData(e) \/ ReceiveEof(e) \/ ReceiveAbort(e) \/ ReceiveLeave(e)

Next == \/ \E e \in Ends : \/ User(e) \/ Drain(e) \/ CloseGoesOn(e)
                           \/ Receive(e) \/ ReaderNext(e)
        \/ Disconnect

Spec == Init /\ [][Next]_vars

(* Promise reactions run, and the room hands over what has arrived; nobody *)
(* has to send, close or read.  One condition is enough: every send and    *)
(* every close has finitely many of these steps.                           *)
Runtime == \E e \in Ends : Drain(e) \/ CloseGoesOn(e) \/ Receive(e)

FairSpec == Spec /\ WF_vars(Runtime)
-----------------------------------------------------------------------------
(* The chunks a reader was handed are those the other end sent, in order,  *)
(* from the first on, none twice: across the waiter, #items, #pending and  *)
(* the room, and through every abort, leave and lost connection.           *)
InOrder == \A e \in Ends : /\ Len(got[e]) <= sent[Other(e)]
                           /\ \A i \in 1..Len(got[e]) : got[e][i] = i

(* A reader that sees the clean end of a stream nobody cut has been handed *)
(* everything, and the other end has closed its side: half-close loses no  *)
(* chunk that is still in #pending, in the room or in #items, even though  *)
(* the client leaves the room the moment its side is finalized.            *)
EndIsComplete ==
  \A e \in Ends : reader[e] = "ended" /\ cut = {} =>
    /\ Len(got[e]) = sent[Other(e)]
    /\ writeStatus[Other(e)] # "writable"

(* A reader only waits when there is nothing to hand it: no wakeup is lost *)
(* between next(), receiveData() and the ways a stream ends.               *)
NoLostWakeup ==
  \A e \in Ends : reader[e] = "waiting" => items[e] = << >> /\ ~readClosed[e]

(* A closed stream is closed on both sides and its hub was told so, and    *)
(* only then: the hub forgets no stream that still works and keeps none    *)
(* that does not.                                                          *)
ClosedIsFinal ==
  \A e \in Ends :
    /\ finalized[e] <=> status[e] = "closed"
    /\ status[e] = "closed" => readClosed[e] /\ writeStatus[e] = "closed"

(* Nothing is sent behind an end-of-file: close() waits for #pending. *)
NothingBehindEof ==
  \A e \in Ends : \A i, j \in 1..Len(chan[e]) :
    i < j /\ chan[e][i].kind = "eof" => chan[e][j].kind # "data"

(* A closed stream stays closed and buffers nothing more, whatever arrives *)
(* late.                                                                   *)
ClosedIsForever ==
  [][\A e \in Ends : status[e] = "closed" =>
       /\ status'[e] = "closed"
       /\ Len(items'[e]) <= Len(items[e])]_vars

(* The two streams come to rest, and then no reader waits for an end that  *)
(* has closed or was lost (no control message that ends a stream is        *)
(* missed), and two streams whose writing sides are both closed are        *)
(* finalized: the hubs forget them and the client leaves the room.         *)
ReaderReleased(e) ==
  reader[e] = "waiting" => status[Other(e)] # "closed" /\ linkUp

BothFinalized ==
  (\A e \in Ends : writeStatus[e] # "writable")
    => (\A e \in Ends : finalized[e])

NobodyIsStuck == <>[](BothFinalized /\ \A e \in Ends : ReaderReleased(e))

(* What packages/core/README.md promises of the class, EOF semantics: a    *)
(* reader that sees the clean end has been handed everything the other end *)
(* sent, unless its own end gave up.                                       *)
CleanEndIsEof ==
  \A e \in Ends : reader[e] = "ended" /\ e \notin cut =>
    Len(got[e]) = sent[Other(e)]

(* What the users of the stream see of it: an end that is not writable     *)
(* sends no more, and a loop that has not finished is reading.             *)
Sealed == [e \in Ends |-> writeStatus[e] # "writable"]
Loop == [e \in Ends |-> IF reader[e] \in {"ended", "failed"} THEN reader[e]
                        ELSE "open"]

Duplex == INSTANCE DuplexStream
            WITH cut <- cut # {}, sealed <- Sealed, reader <- Loop

(* The two objects and the room implement the abstract stream. *)
ImplementsDuplexStream == Duplex!Spec
=============================================================================
