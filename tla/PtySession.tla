----------------------------- MODULE PtySession -----------------------------
(***************************************************************************)
(* Interactive mode (-i): interactiveClientSession and ptyServerSession of *)
(* src/pty.js at the two ends of one stream, and the PTY frames of         *)
(* packages/core/src/index.js between them.                                *)
(*                                                                         *)
(* The stream carries bytes: a chunk that arrives may hold parts of        *)
(* frames.  A frame is two units long here, which is enough for every way  *)
(* to split it.  Both ends send through createSender, a chain of promises. *)
(*                                                                         *)
(* Not modelled: frames no encoder sends, a terminal of zero columns, and  *)
(* UTF-8 characters that fall into two frames.                             *)
(***************************************************************************)
EXTENDS Naturals, Sequences, SequencesExt, StreamEnds

CONSTANTS Keys,         \* the keys; a "q" of its own is an ordinary key
          MaxKeys,      \* bound: keys the user types, and resizes
          MaxOutput,    \* bound: chunks the shell prints
          MaxResizes,   \* bound: resizes of the user's terminal
          MayFill       \* bound: ends whose send() may ask to wait

ASSUME KeysAssumption == {"escape", "q"} \subseteq Keys
ASSUME BoundsAssumption ==
  /\ MaxKeys \in Nat /\ MaxOutput \in Nat /\ MaxResizes \in Nat
  /\ MayFill \subseteq Ends

VARIABLES typed,        \* the keys typed in the client's terminal
          escape,       \* state.escape of the client
          quitting,     \* the client has seen its escape key and q
          resizes,      \* resizes so far
          queue,        \* queue[e]: the chain of sender e
          sender,       \* sender[e]: "full" waits for onDrain()
          wire,         \* wire[e]: what end e has sent and is not received
          closed,       \* closed[e]: the write side of end e is closed
          cut,          \* the stream was aborted, or its connection is lost
          buffer,       \* buffer[e]: #buffer of the decoder of end e
          frames,       \* frames[e]: decoded, for the loop of end e to handle
          loop,         \* loop[e]: the for-await over decodeFrames
          shown,        \* what the client wrote to its output
          input,        \* what the server wrote to the terminal
          printed,      \* what the shell has printed
          shell,        \* the login shell
          client,       \* interactiveClientSession
          server        \* ptyServerSession

userVars == <<typed, escape, quitting, resizes>>
sendVars == <<queue, sender>>
streamVars == <<wire, closed, cut>>
readVars == <<buffer, frames, loop, shown, input>>
shellVars == <<printed, shell>>
vars == <<userVars, sendVars, streamVars, readVars, shellVars, client, server>>


Data(d) == [type |-> "data", data |-> d]
Resized == [type |-> "resize", data |-> << >>]
Closing == [type |-> "close", data |-> << >>]     \* not a frame: close()

(* What end e sends. *)
Frame(e) == [type : {"data", "resize"},
             data : IF e = "client" THEN Seq(Keys) ELSE Seq(1..MaxOutput)]
Unit(e) == Frame(e) \X {1, 2}

TypeOK == /\ typed \in Seq(Keys) /\ Len(typed) <= MaxKeys
          /\ escape \in BOOLEAN /\ quitting \in BOOLEAN
          /\ resizes \in 0..MaxResizes
          /\ \A e \in Ends :
               /\ queue[e] \in Seq(Frame(e) \cup {Closing})
               /\ sender[e] \in {"ok", "full", "failed"}
               /\ wire[e] \in Seq(Unit(e))
               /\ buffer[Other(e)] \in Seq(Unit(e))
               /\ frames[Other(e)] \in Seq(Frame(e))
               /\ loop[e] \in {"reading", "draining", "done", "failed"}
          /\ closed \in [Ends -> BOOLEAN] /\ cut \in BOOLEAN
          /\ shown \in Seq(1..MaxOutput) /\ input \in Seq(Keys)
          /\ printed \in 0..MaxOutput
          /\ shell \in {"running", "killed", "exited"}
          /\ client \in {"running", "returned", "threw"}
          /\ server \in {"racing", "killing", "draining", "closing",
                         "waiting", "returned", "threw"}
-----------------------------------------------------------------------------
(* The client announces the size of its terminal first. *)
Init == /\ typed = << >> /\ escape = FALSE /\ quitting = FALSE
        /\ resizes = 0
        /\ queue = [e \in Ends |-> IF e = "client" THEN <<Resized>> ELSE << >>]
        /\ sender = [e \in Ends |-> "ok"]
        /\ wire = [e \in Ends |-> << >>]
        /\ closed = [e \in Ends |-> FALSE]
        /\ cut = FALSE
        /\ buffer = [e \in Ends |-> << >>]
        /\ frames = [e \in Ends |-> << >>]
        /\ loop = [e \in Ends |-> "reading"]
        /\ shown = << >> /\ input = << >>
        /\ printed = 0 /\ shell = "running"
        /\ client = "running" /\ server = "racing"
-----------------------------------------------------------------------------
(* The sender of end e, and the stream.                                    *)

(* A chain with a rejected link drops what is appended. *)
Enqueue(e, items) ==
  queue' = [queue EXCEPT ![e] = IF sender[e] = "failed" THEN @ ELSE @ \o items]

Breaks(e) == /\ sender' = [sender EXCEPT ![e] = "failed"]
             /\ queue' = [queue EXCEPT ![e] = << >>]

(* Mutant: the frame is sent without its end. *)
EncodeShort(f) == <<<<f, 1>>>>

Encode(f) == <<<<f, 1>>, <<f, 2>>>>

(* The next link: a frame, or the close() that drain() leads to. *)
Transmit(e) ==
  /\ queue[e] # << >> /\ sender[e] = "ok"
  /\ LET item == Head(queue[e])
     IN  \/ /\ item = Closing
            /\ closed' = [closed EXCEPT ![e] = TRUE]
            /\ queue' = [queue EXCEPT ![e] = Tail(@)]
            /\ UNCHANGED <<sender, wire>>
         \/ /\ item # Closing /\ (closed[e] \/ cut)
            /\ Breaks(e)
            /\ UNCHANGED <<wire, closed>>
         \/ /\ item # Closing /\ ~closed[e] /\ ~cut
            /\ wire' = [wire EXCEPT ![e] = @ \o Encode(item)]
            /\ queue' = [queue EXCEPT ![e] = Tail(@)]
            /\ \/ UNCHANGED sender
               \/ e \in MayFill /\ sender' = [sender EXCEPT ![e] = "full"]
            /\ UNCHANGED closed
  /\ UNCHANGED <<userVars, cut, readVars, shellVars, client, server>>

(* onDrain(), which a broken stream may reject *)
OnDrain(e) ==
  /\ sender[e] = "full"
  /\ \/ sender' = [sender EXCEPT ![e] = "ok"] /\ UNCHANGED queue
     \/ cut /\ Breaks(e)
  /\ UNCHANGED <<userVars, streamVars, readVars, shellVars, client, server>>

StreamBreaks ==
  /\ ~cut /\ cut' = TRUE
  /\ UNCHANGED <<userVars, sendVars, wire, closed, readVars, shellVars, client,
                 server>>
-----------------------------------------------------------------------------
(* PtyFrameDecoder *)

Push(e, chunk) ==
  LET all == buffer[e] \o chunk
      n == Len(all) \div 2
  IN  /\ frames' = [frames EXCEPT ![e] = [i \in 1..n |-> all[2 * i][1]]]
      /\ buffer' = [buffer EXCEPT ![e] = SubSeq(all, 2 * n + 1, Len(all))]

Idle(e) == loop[e] = "reading" /\ frames[e] = << >>

Receive(e) ==
  /\ Idle(e)
  /\ \E n \in 1..Len(wire[Other(e)]) :
       /\ Push(e, SubSeq(wire[Other(e)], 1, n))
       /\ wire' = [wire EXCEPT ![Other(e)] = SubSeq(@, n + 1, Len(@))]
  /\ UNCHANGED <<userVars, sendVars, closed, cut, loop, shown, input,
                 shellVars, client, server>>

(* The stream ends, and finish() fails in the middle of a frame.  A stream *)
(* that was cut may also report its error, and what was under way is lost. *)
ReceiveEnd(e) ==
  /\ Idle(e)
  /\ \/ cut
     \/ closed[Other(e)] /\ wire[Other(e)] = << >>
  /\ \/ buffer[e] = << >> /\ loop' = [loop EXCEPT ![e] = "done"]
     \/ /\ buffer[e] # << >> \/ cut
        /\ loop' = [loop EXCEPT ![e] = "failed"]
  /\ UNCHANGED <<userVars, sendVars, streamVars, buffer, frames, shown, input,
                 shellVars, client, server>>
-----------------------------------------------------------------------------
(* interactiveClientSession *)

Interpret(s, key) ==
  CASE s.quit -> s
    [] ~s.quit /\ s.escape /\ key = "q" -> [s EXCEPT !.quit = TRUE,
                                                     !.escape = FALSE]
    [] ~s.quit /\ s.escape /\ key # "q" ->
         [s EXCEPT !.escape = FALSE, !.bytes = @ \o <<"escape", key>>]
    [] ~s.quit /\ ~s.escape /\ key = "escape" -> [s EXCEPT !.escape = TRUE]
    [] OTHER -> [s EXCEPT !.bytes = Append(@, key)]

(* The loop over the keys of a chunk: what it has come to after i of them. *)
Scan(start, chunk) ==
  LET state[i \in 0..Len(chunk)] ==
        IF i = 0 THEN start ELSE Interpret(state[i - 1], chunk[i])
  IN  state

(* Mutant: the escape key is forgotten at the end of a chunk. *)
ScanStartPerChunk == [escape |-> FALSE, quit |-> FALSE, bytes |-> << >>]

ScanStart == [escape |-> escape, quit |-> FALSE, bytes |-> << >>]

InteractiveBytes(chunk) == Scan(ScanStart, chunk)[Len(chunk)]

(* Mutant: close() does not wait for drain(). *)
SendsBehindClose(p) == (IF p.quit THEN <<Closing>> ELSE << >>)
                       \o (IF p.bytes = << >> THEN << >>
                           ELSE <<Data(p.bytes)>>)

(* What onData gives to the sender. *)
Sends(p) == (IF p.bytes = << >> THEN << >> ELSE <<Data(p.bytes)>>)
            \o (IF p.quit THEN <<Closing>> ELSE << >>)

(* onData *)
Type == /\ client = "running" /\ ~quitting
        /\ \E chunk \in BoundedSeq(Keys, MaxKeys - Len(typed) - resizes) :
             LET p == InteractiveBytes(chunk)
             IN  /\ chunk # << >>
                 /\ typed' = typed \o chunk
                 /\ escape' = p.escape
                 /\ quitting' = p.quit
                 /\ Enqueue("client", Sends(p))
        /\ UNCHANGED <<resizes, sender, streamVars, readVars, shellVars,
                       client, server>>

(* sendResize *)
Resize == /\ client = "running" /\ resizes < MaxResizes
          /\ Len(typed) + resizes < MaxKeys
          /\ resizes' = resizes + 1
          /\ Enqueue("client", <<Resized>>)
          /\ UNCHANGED <<typed, escape, quitting, sender, streamVars, readVars,
                         shellVars, client, server>>

ClientHandles ==
  /\ loop["client"] = "reading" /\ frames["client"] # << >>
  /\ frames' = [frames EXCEPT !["client"] = Tail(@)]
  /\ shown' = shown \o Head(frames["client"]).data
  /\ \E l \in {"reading", "draining"} : loop' = [loop EXCEPT !["client"] = l]
  /\ UNCHANGED <<userVars, sendVars, streamVars, buffer, input, shellVars,
                 client, server>>

OutputDrains ==
  /\ loop["client"] = "draining"
  /\ loop' = [loop EXCEPT !["client"] = "reading"]
  /\ UNCHANGED <<userVars, sendVars, streamVars, buffer, frames, shown, input,
                 shellVars, client, server>>

(* Its finally. *)
ClientEnds ==
  /\ client = "running" /\ loop["client"] \in {"done", "failed"}
  /\ client' = IF loop["client"] = "done" THEN "returned" ELSE "threw"
  /\ closed' = [closed EXCEPT !["client"] = TRUE]
  /\ UNCHANGED <<userVars, sendVars, wire, cut, readVars, shellVars, server>>

(* The finally of runClient stops the node. *)
ClientLeaves ==
  /\ client # "running"
  /\ StreamBreaks
-----------------------------------------------------------------------------
(* ptyServerSession *)

OnData == /\ shell # "exited" /\ server \notin {"returned", "threw"}
          /\ printed < MaxOutput
          /\ printed' = printed + 1
          /\ Enqueue("listener", <<Data(<<printed + 1>>)>>)
          /\ UNCHANGED <<userVars, sender, streamVars, readVars, shell, client,
                        server>>

ShellExits == /\ shell # "exited" /\ shell' = "exited"
              /\ UNCHANGED <<userVars, sendVars, streamVars, readVars, printed,
                             client, server>>

(* The body of receiveTask; a terminal that is gone cannot be resized. *)
ServerHandles ==
  /\ loop["listener"] = "reading" /\ frames["listener"] # << >>
  /\ LET f == Head(frames["listener"])
     IN  \/ /\ frames' = [frames EXCEPT !["listener"] = Tail(@)]
            /\ input' = IF shell = "exited" THEN input ELSE input \o f.data
            /\ UNCHANGED loop
         \/ /\ f.type = "resize" /\ shell = "exited" /\ server # "racing"
            /\ loop' = [loop EXCEPT !["listener"] = "failed"]
            /\ UNCHANGED <<frames, input>>
  /\ UNCHANGED <<userVars, sendVars, streamVars, buffer, shown, shellVars,
                 client, server>>

(* Mutant: the shell is not killed. *)
KillNot == UNCHANGED shell

Kill == shell' = IF shell = "running" THEN "killed" ELSE shell

(* Promise.race of receiveTask and the exit of the shell. *)
RaceEnds ==
  /\ server = "racing"
  /\ \/ /\ loop["listener"] = "done" /\ shell # "exited"
        /\ server' = "killing" /\ Kill
     \/ loop["listener"] = "failed" /\ server' = "threw" /\ Kill
     \/ shell = "exited" /\ server' = "draining" /\ UNCHANGED shell
  /\ UNCHANGED <<userVars, sendVars, streamVars, readVars, printed, client>>

KilledExits == /\ server = "killing" /\ shell = "exited"
               /\ server' = "draining"
               /\ UNCHANGED <<userVars, sendVars, streamVars, readVars,
                              shellVars, client>>

(* Mutant: drain() is not awaited. *)
DrainedAtOnce == TRUE

Drained == queue["listener"] = << >> /\ sender["listener"] = "ok"

(* After sender.drain(): close(), if the stream is still writable. *)
ServerCloses ==
  /\ server = "draining"
  /\ \/ sender["listener"] = "failed" /\ server' = "threw" /\ UNCHANGED closed
     \/ /\ Drained
        /\ server' = IF cut THEN "waiting" ELSE "closing"
        /\ closed' = [closed EXCEPT !["listener"] = TRUE]
  /\ UNCHANGED <<userVars, sendVars, wire, cut, readVars, shellVars, client>>

ServerClosed ==
  /\ server = "closing"
  /\ \/ server' = "waiting"
     \/ cut /\ server' = "threw"
  /\ UNCHANGED <<userVars, sendVars, streamVars, readVars, shellVars, client>>

ServerReturns ==
  /\ server = "waiting" /\ loop["listener"] \in {"done", "failed"}
  /\ server' = "returned"
  /\ UNCHANGED <<userVars, sendVars, streamVars, readVars, shellVars, client>>
-----------------------------------------------------------------------------
Sending(e) == Transmit(e) \/ OnDrain(e)
Receiving(e) == Receive(e) \/ ReceiveEnd(e)

(* What happens by itself; a killed shell exits. *)
Runtime == \/ \E e \in Ends : Sending(e) \/ Receiving(e)
           \/ ClientHandles \/ OutputDrains \/ ClientEnds \/ ClientLeaves
           \/ ServerHandles \/ RaceEnds \/ KilledExits
           \/ ServerCloses \/ ServerClosed \/ ServerReturns
           \/ shell = "killed" /\ ShellExits

Next == \/ Type \/ Resize \/ OnData \/ ShellExits \/ StreamBreaks
        \/ Runtime

Spec == Init /\ [][Next]_vars

(* Nobody has to type, print or exit.  Every step of Runtime uses up       *)
(* something, so it is enough that they do not stop all together.          *)
Fairness == WF_vars(Runtime)

FairSpec == Spec /\ Fairness
-----------------------------------------------------------------------------
(* The i-th key of s is an escape key if it is not the second of a pair.   *)
Starts(s, i) ==
  /\ s[i] = "escape"
  /\ \E k \in 0..i - 1 : /\ k % 2 = 0
                         /\ \A j \in i - k..i - 1 : s[j] = "escape"
                         /\ k = i - 1 \/ s[i - k - 1] # "escape"

QuitAt(s, i) == i < Len(s) /\ Starts(s, i) /\ s[i + 1] = "q"

(* The shell gets what was typed, in order and unchanged, the escape key   *)
(* included, up to the first escape key with a q, and only that ends the   *)
(* session; however the keys fall into chunks and the frames are split.    *)
KeysInOrder ==
  /\ IsPrefix(input, typed)
  /\ quitting <=> \E i \in 1..Len(typed) : QuitAt(typed, i)
  /\ \A i \in 1..Len(typed) : QuitAt(typed, i) => Len(input) < i

(* What was typed before the q that quits reaches the shell before it is   *)
(* killed, unless the stream breaks.                                       *)
KeysBeforeQuit ==
  server = "killing" /\ ~cut =>
    \E i \in 1..Len(typed) : QuitAt(typed, i) /\ Len(input) = i - 1

(* What the shell printed is shown in order; a client that returns over a  *)
(* stream that did not break has shown all of it, also what was printed    *)
(* after the quit and just before the exit.                                *)
OutputShown ==
  /\ \A i \in 1..Len(shown) : shown[i] = i
  /\ client = "returned" /\ ~cut => Len(shown) = printed

(* A session fails only if the stream breaks: a quit, an exit of the shell *)
(* before or behind it, or a frame cut into chunks is no failure.          *)
FailsOnlyIfCut == client = "threw" \/ server = "threw" => cut

(* The escape key with a q ends the session at both ends, and no shell     *)
(* outlives the session of its client, however that session came to end.   *)
SessionEnds ==
  quitting \/ client # "running" ~> client # "running" /\ shell = "exited"
=============================================================================
