# A TLA+ model of p2p-netcat

p2p-netcat connects the terminals, commands, TCP ports or browsers of two
people over libp2p or WebRTC. This directory holds TLA+ models of the parts of
it that are concurrent, the TLC configurations that check them and TLAPS proofs
of the invariants that matter most. All paths below are relative to the root of
the repository; line numbers are in `PROJECT.json` under `map`.

Contents: 1 inventory - 2 modules - 3 runs - 4 fairness - 5 assumptions about
code outside the repository - 6 proofs - 7 disagreements found - 8 what is not
modelled - 9 plan.

## 1. Inventory

**Trystero stream** - class `TrysteroStream` in `packages/core/src/index.js`. A
byte stream with half-close made from two actions (`data`, `control`) of a
WebRTC room. State: `status`, `writeStatus`, the promise chain `#pending`, the
buffer `#items`, the waiting readers, `#readClosed`, `#finalized`. Operations:
`send`, `onDrain`, `close`, `abort`, `receiveData`, `receiveControl`,
`peerLeft`, the async iterator. Called by the room's handlers and by a session.
Hard: `close()` has two awaits; data, control and departure arrive at any
point; the client leaves the room as soon as its stream is final. Correct when:
chunks arrive in order and once, a clean end means nothing is missing, no
reader waits for something that has already come, both half-closes together
finalize the stream.

**Trystero room adapter** - `src/trystero.js`. `createHub` keeps a map from
peer to stream and makes a stream for every message of a peer without one;
`connectTrystero` has a promise with a timeout, `startTrysteroListener` a hub
that lives as long as the listener. Hard: the timeout against `onPeerJoin`
against `close()`; messages for streams that are over; several peers. Correct
when the promise settles once, no late stream is used, and the hub forgets a
peer that is gone.

**Sessions** - `src/session.js`. `inputToP2P` and `p2pToOutput` pump one
direction each; `bridgeSession` waits for both with a quit delay and an
inactivity timer, `execSession` connects a child process. Hard: two pumps that
fail at different moments, timers, a child that exits before its pumps, outputs
that never drain or that nobody reads any more, inputs that stay idle. Correct
when a session that resolved has lost nothing and left nothing running, and a
failed one does not leave its peer waiting.

**TCP forwarding and SOCKS** - `src/forwarding.js`. `startLocalForward` has a
server and the sets `sockets`, `sessions` and `streams`; `tcpForwardSession`
and `socksProxySession` connect a stream to a socket; `ByteReader` and the
negotiations parse the SOCKS handshake. Hard: `close()` while connections are
accepted, dialled and bridged; local sockets that go while their stream is
being opened; a handshake cut into any chunks with payload sent early; failures
at each of its awaits. Correct when `close()` returns and nothing survives it,
when the target gets the payload whole and the client one verdict that fits.

**Command line program** - `src/cli.js`. `createProgram` checks the options;
`runListener` (`handled`, `firstSession`, the two handlers), `runClient` (the
race of the transports, port forwarding, `finally`), `installShutdown`. Hard:
two transports deliver streams of several clients and each end chooses by
itself; a signal beside a `finally`, both of which wait for the local listener.
Correct when a one-shot listener serves one
session, the loser of the race is gone at both ends, and a process that is asked
to end does and leaves nothing behind.

**PTY sessions** - `src/pty.js`. `createSender` (a promise chain),
`interactiveClientSession` (escape key, raw mode, resize) and
`ptyServerSession` (shell, decoder, the race of the stream's end and the
shell's exit). Correct when keys and output arrive whole and in order, also
those around the quit and the exit, and no shell outlives its client.

**Core library** - the rest of `packages/core/src/index.js`: PTY frames, relay
dial plan, ranking of addresses, the authentication response.

**Discovery** - `src/discovery.js`. `advertiseSelf` repeats a provider record;
`resolveTarget` asks peer store and DHT in rounds until a deadline, with a
timeout for each query and a signal that may abort it at each await. Correct
when it ends in time and does not give up on a peer that became known meanwhile.

**Identity** - `src/identity.js`. `loadOrCreateIdentity` reads or creates a key
file. Hard: two processes do so at once. Correct when both run with the key that
stays in the file.

**Relay**, **libp2p node**, **Tor wrapper** - `src/relay.js`, `src/node.js`
(with `src/constants.js`), `src/tor.js`: they build options, start a node or
re-execute the program under torsocks. Hard: `-T` is decided at three places.
Correct when a node started with `-T` has no way out but the relay it names.

**Browser page** - `web/app/page.tsx`, `browser-terminal.tsx`. State:
`connectionState` and `clientRef`; `connect` and `disconnect` are handlers with
several awaits that can overlap. **Browser network worker** -
`web/app/p2p-client.ts` and `p2p.worker.ts`: request/response messages between
the page and a worker that owns a libp2p node and one stream, and that searches
for a route and races its dials. **Browser Trystero client** -
`web/app/trystero-client.ts`: room, timer, stream and `receiveLoop`. Hard: the
race of both transports, `stop()` during `start()` or `connect()`,
`terminate()` with requests pending, a new `connect()` while the last one cleans
up, dials that settle around the abort of the losers. Correct when one transport
is kept, every click comes to an end, what was stopped is gone, and no stream is
forgotten.

**Packaging** - `web/vite.config.ts`, `web/src/main.tsx`, `scripts/`: the
bundle, the service worker that caches the page, and an install script.

How they interact: `cli.js` reads its options, becomes a node with a key, and
obtains a stream from the node or the room adapter, which it gives to one
session; sessions see only the stream (`send`, `onDrain`, `close`, `abort`,
iteration, two status fields), which is why there is an abstract specification
of it. The browser has its own program around the same `TrysteroStream` and PTY
frames.

`PROJECT.json` lists the hazards of this code at their lines, with the
properties that cover them or the reason why none does.

## 2. Modules

| module | models |
| --- | --- |
| `StreamEnds` | the two ends `client`, `listener` |
| `DuplexStream` | abstract specification: a two-way stream with half-close as its users see it |
| `TrysteroStream` | `TrysteroStream` objects at both ends, the hub's wiring, and the room |
| `TrysteroStreamInv` | its inductive invariant `IInv` |
| `Session` | pumps, `bridgeSession`, `tcpForwardSession`, `execSession` at both ends over `DuplexStream` |
| `TransportRace` | `runClient`'s race for several clients, `connectTrystero`, the listener's hub, `runListener`'s `handleIncoming` |
| `LocalForward` | `startLocalForward`, `openLibp2pStream`, the end of `runClient` |
| `Socks` | one stream of `-l -S`: `ByteReader`, the negotiations, `connectTcp`, `socksProxySession` |
| `TargetSearch` | `resolveTarget`; `connect()`, `dhtAddresses` and `dialFirst` of the browser's worker |
| `CommandLine` | the checks of the options, `torRequested`, the node `createP2PNode` builds |
| `Process` | a process from `main()` to its exit: Tor wrapper, key file, node, `advertiseSelf`, room, signals |
| `PtySession` | `pty.js` at both ends, and the PTY frames |
| `BrowserClient` | page, both clients and the worker of the browser |
| `*_proofs` | proofs, section 6 |

Conventions. An `async` function is cut at its awaits: one action for the code
up to the first await, one for what follows each. A field of an object that
exists at both ends is a function of the end. Payloads are abstract: the n-th
chunk of an end is the number n, because the properties speak of order and
loss. A comment `Mutant` marks a variant of the definition below it with a
plausible mistake; no action uses it. It is there to show that the property
named in `PROJECT.json` notices the mistake.

*Refinement.* `TrysteroStream` implements `DuplexStream` under the mapping
`sealed` = "not writable any more", `reader` = state of the reading loop, `cut`
= "somebody aborted or left, or the connection was lost". The property
`ImplementsDuplexStream` is checked and proved. `Session` then runs over
`DuplexStream` and is proved to do nothing else to it (`UsesDuplexStream`), so
that what it shows holds over WebRTC; that a libp2p stream behaves like
`DuplexStream` is assumed.

*TrysteroStream.* `Send`, `Close`, `Abort`, `ReaderNext` are the calls of the
user; `Transmit`/`TransmitFails` are the links of `#pending`; `CloseSendsEof`,
`CloseThrows`, `CloseReturns` are what follows the awaits of `close()`;
`ReceiveData`, `ReceiveEof`, `ReceiveAbort`, `ReceiveLeave` are the handlers of
the room. `LeavesOnFinalize` is `{"client"}` in the code (`leaveAfterStream`);
the proofs hold for any choice.

*Session.* One pump per direction with states for each await (`draining`,
`delaying`, `closing`), the inactivity timer, and the way each kind of session
waits: `Promise.all` (bridge), or the child's exit, then `Promise.allSettled`
(exec). The kinds differ in what follows a failure. A `pipe` is stdin and stdout
of a process that ends with its session, as every client does, and takes the
stream with it (`ProcessLeaves`, session `left`). `kept` is the same under `-k`,
where the rejection is only logged and the process goes on. A `socket` is
destroyed, an `exec` is looked at after the child's exit. `StdoutBreaks` is a
stdout nobody reads any more: it fails a pump that waits for `drain`, and ends a
process whose pump does not. `crashed` is a process ended in this way or by an
unhandled rejection.

*TransportRace.* A table per client: `attempt` is the promise of a stream on
each transport, `near` and `far` the stream at the client and at the listener,
which see it at moments of their own, `winner` what `Promise.any` gave. A
session is two steps here at most: its end, or, after a clean end of its stream,
first `waiting`, as `bridgeSession` also waits for its own stdin, which nothing
has to end. The hub at the listener has one stream per peer:
`far` while it is the one of a session, `strays` when a message came after that
one was over (`LateMessage`: `streamFor` makes a new one nobody reads) until the
peer aborts or leaves; `present` are the peers the room has announced.

*LocalForward.* One name per local connection stands for its socket, session
and stream. The bridge is seen from outside: `flow` says whether its input is
over and whether it waits for `drain`, which decides what can wake it.

*Socks.* `wire` holds the chunks in the stream, `buffer` the bytes the
`ByteReader` has read too much; `at` counts the reads of the negotiation, whose
sizes `Reads` gives for each kind of request. `stage` follows the session
(negotiating, connecting, refusing, granting, bridging), with `waiting` where it
awaits `onDrain`. `got` is what reached the target. The names of the
specification (`SocksInit`, `SocksNext`, `SocksSpec`, `SocksTypeOK`) let it stand
beside `LocalForward` in `Forwarding_proofs`.

*TargetSearch.* One state machine for both programs: the phases of
`resolveTarget` with a clock (`now`, and `until` for the deadline of the query
in progress), then, in the worker, the dials (`dialling`, `open`) of the
configured relays, the cached route and the routes that were found. Time passes
(`Tick`) only when no step is due. `knownAt` is when mDNS or pubsub told the
peer store of the peer.

*CommandLine and Process.* A command line is a record (command, flags, relays,
how `-T` is spelled). `CommandLine` has no state: `Refused` is the disjunction
of the checks that `createProgram` and `runRelay` make before anything is done,
`NodeRefused` the one of `nodeOptionsFrom`, which comes behind the key file,
`NodeFor` the addresses, discovery, services and transports of the node. `Process` takes any
command line through `main()`: `stage` follows the awaits of start-up, session
and `finally`, `stopper` those of `stop()` in `installShutdown`. `forward` is the
local listener of a client with `-p`, whose `close()` both of them wait for; it
is `stuck` when one of its sessions cannot end (`Stalled` of `LocalForward`).
`file` and `other` are the key file and a second process that starts with it.

*PtySession.* A frame is two units long, so that a chunk can end inside one.
`queue[e]` is the promise chain of `createSender`; the `close()` that follows
`drain()` is an item of it. A key `q` that no escape key precedes is an ordinary
key, so two keys are enough for every branch of `interactiveBytes`. `Scan` is
its loop, a function on the number of keys it has looked at, and `ScanStart` its
state at the start of a chunk. `Starts` and `QuitAt` say without a scan which key
of all that was typed is an escape key, and which quits: what the chunked scan is
measured against.

*BrowserClient.* The page runs one event at a time: `Quiet` holds back clicks,
worker messages and room events until the promise reactions of the last one
have run. Worker steps are free. A connection of the page names the client it
creates. `terminate()` drops the messages of the worker that were not handled.

## 3. Runs

Bounds are the constants of each `.cfg`. Deadlock is not checked anywhere: all
these systems end (sessions resolve, processes leave), and what must not stop
is stated as liveness.

| run | distinct states | shows |
| --- | --- | --- |
| `trystero_stream` | 975 000 | `InOrder`, `EndIsComplete`, `ImplementsDuplexStream`, `NobodyIsStuck` |
| `session_bridges` | 310 000 | `ResolvedIsComplete`, `ResolvedIsQuiet`, `BothEndsResolve`, `RejectedIsSealed` |
| `session_exec` | | violation of `ListenerSurvives` |
| `transport_race` | 212 000 | `OneShotServesOne`, `LoserIsCancelled`, `LoserEndsAtListener`, `EveryoneStops`, `HubForgets` |
| `local_forward` | 1 700 | `NothingIsLost`, `CloseFinishes`, `LocalSeesTheEnd`, `StreamFollowsSocket` |
| `local_forward_retry` | | violation of `EachConnectionIsTried` |
| `socks` | 9 300 | `PayloadIsWhole`, `AnswersFit`, `RequestIsAnswered`, `SocketIsReleased` |
| `target_search` | 6 400 | `InTime`, `NotMissed`, `DialsAreSettled`, `SearchEnds` |
| `process` | 602 000 | `TorIsKept`, `OneKeyPerFile`, `LeavesNothing`, `SignalWaits`, `EndsWhenAsked` |
| `pty_session` | 852 000 | `FailsOnlyIfCut`, `KeysInOrder`, `KeysBeforeQuit`, `OutputShown`, `SessionEnds` |
| `browser_client` | 9 300 | `TypeOK`, `LoserIsStopped`, `ConnectFinishes`, `StoppedIsGone` |
| `browser_online` | | violation of `ConnectedIsOnline` |

Why the bounds are enough:

- *Streams*, two chunks per direction: one can be in `#items`, in the room or in
  `#pending` while the other is elsewhere; order and loss show with two. The
  proofs remove the bound for the invariants and the refinement.
- *Sessions*, two chunks from the client and one from the listener, a listener
  with an inactivity timeout where it has one, a stream and outputs that may
  break anywhere. The client is a `pipe`, the listener each of the other kinds;
  a listener that is a `pipe` does what the client does. The proofs are for
  every kind of listener and inputs of any length.
- *Race*, two clients: one whose streams the listener takes and one it refuses,
  or two it serves at once; clients share nothing but the listener's `handled`,
  its sessions and its hub. Persistent and one-shot listeners are initial
  states. The proofs are for any set of clients.
- *Forwarding*, two connections: enough for one that is new while another is
  half done; they share only the sets, `target` and the shutdown. The proof of
  `NothingIsLost` is for any set of connections.
- *SOCKS*, two cells of payload and two chunks that wait: the payload can begin
  in the chunk that ends the request, in one of its own, or both; every request
  is two to six cells, cut in every way. The proof of `PayloadIsWhole` is for a
  payload of any length and any number of chunks that wait.
- *Search*: a timeout of three queries or two rounds, so that a query is cut to
  what is left, or not; two routes, one that wins and one that loses.
- *Process*, up to two flags besides the relay, the command and the spelling of
  `-T`: the checks and the options of the node relate at most two flags. The
  proofs are for command lines of any length.
- *PTY*, three keys or two and a resize, so that a key can precede an escape
  pair, and an escape pair can be split; one chunk of output; backpressure at
  the shell's end (`MayFill`), where the bulk of the data comes from. The proofs
  are for any keys, any number of keys, chunks of output and resizes, and
  backpressure at both ends.
- *Browser*, two connects: every overlap of one handler with the next. With
  three, a connect can also be overtaken while its worker starts; the proof of
  `LoserIsStopped` is for any number. The liveness properties with three clients
  take longer than a run should and are not claimed.

## 4. Fairness

Weak fairness is assumed of what a JavaScript runtime and the operating system
do by themselves: promise reactions run, messages that were sent and not lost
are handled, timers that were armed run out, destroyed sockets report `close`,
killed shells exit, queries settle by their deadlines and dials within their
timeouts, the waits of `finally` blocks and of `stop()` settle, but for that for
the local listener. It is not assumed of people, peers or inputs: nobody has to
click, type, send, find a peer or end an input. What therefore may last for ever
is a named exception of the property it would break, listed below. Strong fairness is used nowhere.

Most modules have one condition for all of these steps (`Runtime`, in `Socks`
`Proxy`): each step uses up something that nothing else adds without end - a
message, a wait, a stream of the race - so none can starve the rest for ever.
This is a theorem of each of these modules but the stream (section 6, *Ends*): a
number goes down with every such step, whichever it is, and nothing else adds to
it.
`LocalForward` and `BrowserClient` have one condition per connection or client,
as what one of them waits for says nothing about the others.

In `TrysteroStream` the fairness of `Receive` makes the room deliver in the end,
which holds while both are in it and the link is up; the loss of the link is a
step of the model that no property excludes. In `Socks` it makes a stream that
the peer reads drain, and `connectTcp` settle by its timeout.

The exceptions:

- `CloseFinishes`: a bridge that waits for `drain` of a socket that was destroyed
  without an error (`Stalled`).
- `EndsWhenAsked`: the same bridge, which then holds up `close()` of the local
  listener and with it `stop()` or the `finally` (`forward = "stuck"`). A second
  signal still ends the process. The property starts when a signal or the end of
  a session asks for the end: nothing else ends a listener.
- `EveryoneStops`: a session whose stream ended cleanly and that waits for its
  own stdin, at the listener (`Waits`) or at a client that was left behind
  (`"waiting"`). `SessionFollows` and `SessionFails` let every such session end
  or wait, so the property says that nothing else keeps either of them.
- `RejectedIsSealed`: a session under `-k` where only the wait for stdout failed
  (`HalfOpen`).
- `BothEndsResolve` is about streams nothing disturbed, an output that failed
  included. `RequestIsAnswered` and `SocketIsReleased` allow for a client that
  resets its stream.

## 5. Assumptions about code outside the repository

Definitions marked `external` in `PROJECT.json` model libraries as the code uses
them.

- The room of `@trystero-p2p/torrent`: messages between two peers keep their
  order; a departure is announced behind what was sent before; a lost link
  drops what is in flight and is announced to both; a message to a peer that is
  not in the room is dropped or rejects; `room.leave()` settles.
- libp2p streams behave like `DuplexStream`; an aborted one may show its reader
  an error or an end; `send` on a stream that is not writable throws. Queries of
  the DHT settle when their signal aborts. `node.stop()` may be called twice;
  the second call returns at once.
- Node.js: a destroyed `Writable` emits no `drain`; `close` follows `destroy`;
  reading a socket to its end leaves its writable side alone; an `error` rejects
  an `once(output, 'drain')` that waits; an unhandled
  rejection, or an `error` nobody listens to, ends the process; `writeFile` with
  `wx` creates the file and then writes it.
- `node-pty`: the output of a shell is reported before its exit, `kill` ends the
  shell, a terminal that is gone cannot be resized, and it is gone only once its
  exit was reported.
- Browsers: promise reactions run before the next event; `terminate()` discards
  messages that were not delivered; the script of the worker loads.

## 6. Proofs

`tlapm` checks all of these, for every value of the constants.

| module | theorems |
| --- | --- |
| `TrysteroStreamInv_proofs` | `TypeCorrect`, `Invariance` (`IInv`), `ReadsInOrder`, `EndsComplete`, `WakesUp`, `ClosesBothSides`, `EofComesLast`, `StaysClosed`, `Implements` (refinement of `DuplexStream`), `NobodyWaitsInVain`, `EverythingRunsOut` |
| `Session_proofs` | `TypeCorrect`, `UsesDuplexStream`, `LosesNothing` (`ResolvedIsComplete`), `LeavesQuietly` (`ResolvedIsQuiet`), `NobodyWaitsInVain`, `SessionsRunOut` |
| `TransportRace_proofs` | `TypeCorrect`, `ServesOnlyOne` (`OneShotServesOne`), `CancelsLoser` (`LoserIsCancelled`), `NobodyIsLeftBehind`, `EveryoneRunsOut` |
| `Forwarding_proofs` | of `LocalForward`: `TypeCorrect`, `LosesNothing` (`NothingIsLost`), `StreamFollows` (`StreamFollowsSocket`), `NobodyHoldsClose`, `NobodyHoldsALocalClient`, `CloseRunsOut`; of `Socks`: `SocksTypeCorrect`, `AnswersWell` (`AnswersFit`), `PayloadArrives` (`PayloadIsWhole`), `NobodyWaitsForAnAnswer`, `NobodyHoldsTheSocket`, `SessionRunsOut` |
| `TargetSearch_proofs` | `TypeCorrect`, `EndsInTime` (`InTime`), `MissesNothing` (`NotMissed`), `SettlesDials` (`DialsAreSettled`), `SearchRunsOut` |
| `Process_proofs` | `TypeCorrect`, `SharesOneKey` (`OneKeyPerFile`), `KeepsToTor` (`TorIsKept`), `CleansUp` (`LeavesNothing`), `WaitsForTheNode` (`SignalWaits`), `NobodyWaitsInVain`, `ProcessRunsOut` |
| `PtySession_proofs` | `Invariant` (`IInv`), `TypeCorrect`, `KeysArrive` (`KeysInOrder`), `NothingCutOff` (`KeysBeforeQuit`), `OutputArrives` (`OutputShown`), `FailsWithTheStream` (`FailsOnlyIfCut`), `NeverStuck`, `RunsOut` |
| `BrowserClient_proofs` | `TypeCorrect`, `StopsTheLoser` (`LoserIsStopped`), `NobodyWaitsInVain`, `EverythingRunsOut` |

They rest on the named assumptions of the modules only (bounds are natural
numbers, names differ), which every run of those modules evaluates. A theorem
with no name in parentheses states something no run checks by that name: types,
the invariants of the stream (`NoLostWakeup`, `ClosedIsFinal`, `NothingBehindEof`,
`ClosedIsForever`), that the sessions implement `DuplexStream`, and the halves
of the liveness properties (*Ends*, below). Every safety invariant that a run
checks is also proved.

*The stream.* None of the safety properties is inductive: that a reader gets
chunk n next depends on what is in the buffer, the room and `#pending`. `IInv`
follows one direction from the sender to the reader. `OrderInv` numbers what was
read, then what is buffered, then the chunks in the room before its first
control message. `PipeInv` says that, as long as nothing ends the direction,
what is in the room and `#pending` continues that numbering without a gap up to
`sent`. `UncutInv` says that in a stream nobody cut only an end-of-file ends a
direction, that it stands right behind chunk number `sent`, and that a side that
is closed has sent one - this is what makes it safe that the client leaves the
room at once. `EofInv`, `CloseInv`, `ClosedInv`, `LeaveInv` and `ReaderInv` tie
the fields of one object to each other. The lemmas at the head of the module
state how appending and removing one message changes these predicates of a
channel; the proof that a step preserves `IInv` has one lemma per action. The
refinement then needs one step per action, most of which stutter.

*Sessions.* That the sessions implement `DuplexStream` comes first, one step of
theirs at a time. From that module alone follow `InSequence` and `EndsLast`: a
reader is handed chunks in sequence, and a clean end of a stream nobody cut
comes last. `WritesAll` and `DoneAtEnd` carry this to the output. `QuietInv`
says who may still arm the timer: as long as a pump runs, the session has not
resolved.

*Race.* `ServesInv`: a one-shot listener has served nothing as long as `handled`
is not set, and one stream from then on; what it refused it never served.
`RaceInv(c)`: while a client races, no attempt holds a stream it has not been
given; in a session the other attempt holds none, and it was aborted (libp2p) or
rejected (Trystero).

*Forwarding.* `Inv` strengthens `NothingIsLost` with, for each connection, the
sets it must be in while it lives (`Kept`), and with what the phases of `close()`
have emptied: a closed server has no socket left, a returned `close()` no
session.

*SOCKS.* `Phase` says for each stage which requests can have reached it, which
answers were sent by then and what there is of the socket. For the payload,
`Gapless` counts cells: what the reader has taken, what it keeps in `buffer` and
what is on `wire` are one run of numbers without a gap up to what the client has
sent, unless it has gone. A read moves the first border of that run, a chunk the
second. `Progress` ties the stage to the count: nothing reaches the target before
the header was read to its end, so that the payload starts with its first cell
even if it came in the chunk of the header, and a session that resolved has
taken all of it.

*Search.* `TimeInv` bounds the clock by the phase, as each deadline was cut from
what was left; `KnownInv` says how long ago the peer store was asked last;
`Dials` which attempts run in which phase.

*Process.* `KeyInv` follows the key file through both processes. `TorIsKept`
needs `StartInv`: a process that got past the checks satisfies them, and was
wrapped if `torRequested` saw a `-T`. `EndInv` says what each stage of `finally`
has put in order, the local listener among it, which is open until a `stop()`
begins to close it; `SignalInv` what a running `stop()` knows of the node.

*PTY.* What reaches the shell depends on what a fold over each chunk of keys
computed, and on how the frames were cut on their way. The proof has three parts.

The scan. `Scanned` says what the loop over a chunk has come to after n keys, in
terms of all that was typed and of `QuitAt` alone: no quit so far, the bytes are
the keys up to n less an escape key that is held back; or the first quit is at i,
and the bytes end before it. It is proved for every n by induction. The library's
induction theorem for numbers takes an operator, which the provers cannot
instantiate; that the numbers are well-founded is a fact about a set, and
induction for a set of numbers follows from it (`SetInduction`). `Given` is the
same statement about all chunks together, and `Starts`, which counts escape keys
backwards, agrees with it because the run of escape keys before a key is unique.

The chain. `Carries` says that the data of a list of frames is the part of a
sequence from one place to another, and `Links` joins three such parts: the
frames the reader has decoded, the units it keeps and those on the wire, and the
queue of the sender. `KeysInv` puts this chain between `input` and what the scans
gave, `OutputInv` between `shown` and what was printed. A step only moves a
border between two links (`LinksPush` for the decoder, which cuts only between
frames), adds at the end, takes from the start, or drops the end when a sender
fails, which `ClosedInv` allows only behind a close or over a stream that was
cut. `ClosedInv` and `LoopInv` also say what is empty when a loop ends over a
whole stream; then the links are empty, and the ends of the chain meet:
`KeysBeforeQuit` and `OutputShown`.

`GoesInv` follows who stops, and why: a quit is in the queue until it has closed
the stream, and a loop or a session fails only over a stream that was cut.

*Ends.* A liveness property of section 3 has two halves that are safety: as long
as what it promises has not come, some step of `Runtime` is possible; and these
steps run out. Fairness joins them, and that argument, like `ENABLED`, is out of
the prover's reach. The guards of `Runtime` are therefore listed (`CanGo` and the
like); on small instances TLC finds each list equivalent to `ENABLED`.

| module | somebody can go on | steps run out | of |
| --- | --- | --- | --- |
| `TrysteroStream` | `NobodyWaitsInVain`: who rests, rests well | `EverythingRunsOut` | `NobodyIsStuck` |
| `Session` | `NobodyWaitsInVain` | `SessionsRunOut` | `BothEndsResolve`, `RejectedIsSealed` |
| `PtySession` | `NeverStuck` | `RunsOut` | `SessionEnds` |
| `TransportRace` | `NobodyIsLeftBehind` | `EveryoneRunsOut` | `LoserEndsAtListener`, `EveryoneStops`, `HubForgets` |
| `LocalForward` | `NobodyHoldsClose`, `NobodyHoldsALocalClient` | `CloseRunsOut` | `CloseFinishes`, `LocalSeesTheEnd` |
| `Socks` | `NobodyWaitsForAnAnswer`, `NobodyHoldsTheSocket` | `SessionRunsOut` | `RequestIsAnswered`, `SocketIsReleased` |
| `Process` | `NobodyWaitsInVain` | `ProcessRunsOut` | `EndsWhenAsked` |
| `TargetSearch` | `TimeInv`: no pause outlasts its moment | `SearchRunsOut` | `SearchEnds` |
| `BrowserClient` | `NobodyWaitsInVain` | `EverythingRunsOut` | `ConnectFinishes`, `StoppedIsGone` |

The first half needs an invariant of its own in every module, about who has told
whom. In `TrysteroStream` (`RestInv`) an end that lost the other one has closed
or has a leave on its way to it, an end whose other end sends no more has
stopped reading or has something on its way that is no chunk (`ToldInv`), and a
send or a close only fails when the other end is out of reach (`FailedInv`). In
`Session` (`GoesInv`) a pump that closed or failed has sealed its side, an end
or an error of the stream has reached the loop that reads it, and a session
fails only with a pump, and when it has failed either its side is sealed, or a
pump or its process has yet to see to that, or it is `HalfOpen`; so of two undisturbed sessions with both inputs over
either a close is still to be called, or a chunk or an end is there to be read.
In `LocalForward` (`EndInv`) a server that has stopped listening has no open
socket or stream left, and a session that is over no socket it did not end both
ways; the same invariant has no stream open whose socket has closed, so that
`StreamFollowsSocket` is proved as it stands. In `Socks` (`ToldInv`) a session
that did not fail over a broken stream or half a request has sent its verdict.
In `Process` (`StopInv`) a signal has called a `stop()`, which closes the local
listener and then waits for a node that stops; if the former gets stuck, nobody
can go on but a second signal, which is the exception of `EndsWhenAsked`. In
`TransportRace` (`NearInv`, `FarInv`) an attempt without a stream is still
running, and a stream the listener serves stays open, or its session waits for
its stdin, until the listener leaves.
In `BrowserClient` (`GoesInv`) a request that is pending has a worker that is up
and is at work on it or has posted the answer; a worker has posted "stopped" if
and only if its `stop()` is over; and whoever awaits a `stop()` waits for a
worker that was told to stop or a room that is being left. The theorem speaks of
quiet states: in any other one a reaction of the page is due.

The second half is a number. It counts what cannot come back: chunks to be sent
and on their way, stages still ahead, promises, timers, sockets and rooms. In
`TrysteroStream` every step makes it smaller, also those of the users, as the
chunks are bounded there. In `Session`, `Process`, `TransportRace` and
`BrowserClient` no step at all makes it larger (in the last it is a number for
each client, and only the two steps of `disconnect()`, which need a page
connected since the last one, may leave all of them as they are); in
`LocalForward` none does once `close()` was called, as new connections may come
until then; `Socks` and `PtySession` state it of the steps that happen by
themselves only, as the client may send more in between.

*Browser.* `LoserIsStopped` is not inductive for two reasons. A transport may
still be on its way when the other is chosen, so `ClientInv` speaks of a worker
that can yet open a stream (`NoStream`) and of a room that can yet be joined.
And a client can be stopped by a click, or by the handler of a newer client,
while its own handler goes on: it may even join its room after that. What then
keeps it from ending up with two transports is that the worker was told first,
before it was asked to dial, or that the stop reached the room (`held`); `Quiet`
is what makes the stop and the choice exclude each other. `CallInv` says that
the client a handler waits for was stopped, as it will be forgotten afterwards.

Only model-checked: the liveness properties themselves (but `StreamFollowsSocket`),
which are all the properties of section 3 that no theorem names.

## 7. Disagreements found

Three have a violation run; `PROJECT.json` quotes the sentence each contradicts.

1. `session_exec`: `execSession` handles the rejections of its pumps only after
   the child has exited. A client that leaves at the wrong time ends a
   listener that was started with `-k -e`.
2. `local_forward_retry`: a failed search for the target is remembered, and every
   later local connection fails without a new one.
3. `browser_online`: the page shows "online" over a channel that closed while
   `connect()` was still waiting for the loser to stop.

Three more are stated in the modules and refuted by TLC in seconds when they are
added to a run:

4. `CleanEndIsEof` (`TrysteroStream`): an abort that finds no waiting reader, and
   any departure of the peer, ends the reading like an end-of-file. A truncated
   transfer looks complete (`packages/core/src/index.js:323`).
5. `ChosenIsServed` (`TransportRace`): client and one-shot listener may see the
   two streams in different orders; each then gives up the stream the other has
   chosen, also when there is one client only.
6. `KeepsAccepting` (`Socks`): between `connectTcp` and the bridge the socket has
   no listener for `error` (`src/forwarding.js:182`). A target that resets while
   the answer waits in `onDrain` ends the listener.

The rest was met while reading and has no property:

- `-T` at the end of a group with a value that holds a hyphen, as in
  `-TI/tmp/my-key`: commander sees `-T`, the regular expression of `tor.js` does
  not, and the process runs without torsocks, which
  `docs/GS_NETCAT_COMPAT.md:118-125` does not expect. `TorIsKept` names this
  spelling as its exception; the rest of it holds for that spelling too.
- The catch of an old `connect()` and `disconnect()` clear `clientRef` after an
  await, so that it may be the client of a newer connect they forget, which the
  user can then not close (`web/app/page.tsx:118`; it violates
  `ConnectedIsOnline` too).
- The escape key of the browser terminal drops the keys before it in the same
  chunk, which the terminal client sends (`web/app/browser-terminal.tsx:77`).
- When the remote half-closes, the worker forgets its stream
  (`web/app/p2p.worker.ts:395`) without closing its own side, and a later
  `closeWrite` (`:421`) logs an end-of-file it did not send.
- A listener without `-k` does not stop after its session
  (`docs/ARCHITECTURE.md:69`) as long as its stdin is open and idle: when the
  client leaves, its Trystero stream ends cleanly, and `bridgeSession` goes on
  waiting for `inputToP2P` (`src/session.js:61`). `EveryoneStops` names this wait.
- Under `-k`, when nobody reads the listener's stdout any more while a pump waits
  for its `drain` (`src/session.js:10`), the session is rejected and logged
  (`src/cli.js:180`), but nobody aborts the stream. The client is not told, and
  goes on sending. `RejectedIsSealed` names this case.
- A signal does not end a client with `-p` when a session of its local listener
  waits for `drain` of a destroyed socket: `stop()` waits for
  `localForward.close()` (`src/cli.js:69`), and that for the session
  (`src/forwarding.js:253`). A second signal ends it. `EndsWhenAsked` names this.
- `-4` together with `-6` is refused only behind `loadOrCreateIdentity`
  (`src/cli.js:138`), so that a key file is created first.
- When `connectTcp` fails, or a SOCKS negotiation, a persistent listener
  neither closes nor aborts the stream (`src/cli.js:180`).

## 8. Not modelled

- Signatures, handshakes, key derivation and address formats: cryptography and
  string work of libraries.
- A second listener with the same key in one room, whose stream
  `connectTrystero` ignores.
- An error of stdout in an interactive session (`src/pty.js`), of stderr
  anywhere, and of a stdout that has not been written to.
- Several sessions of `-k` on one stdin; what a socket had buffered when
  `tcpForwardSession` destroys it (`src/forwarding.js:167`): flushing is inside
  `node:net`.
- A stream a second dial opened just before the winner's abort: it belongs to
  libp2p until `dialFirst` has it.
- In `Process`: a process that is killed between creating and writing its key
  file (the window is there, `file = "empty"`, and the next process ends with
  an error); `node.handle` or `startTrysteroListener` failing before the `try`
  of `runListener`; the child's command line and environment under torsocks; the
  handle `startRelay` returns to programs that embed a relay.
- `resolveTarget` for a multiaddr or a circuit address, which returns at once;
  ranking of addresses and the relay dial plan.
- Backpressure towards the sender of a `TrysteroStream`: the code has none
  (`#items` grows), so there is nothing to check.
- In the browser: sending, files, closing one side, resizing, unmounting the
  page, and a worker whose script does not load.
- UTF-8 characters split over PTY frames, malformed frames.
- Packaging: no state of its own.

## 9. Plan

Done: the stream with its refinement, sessions over it, the race of the
transports with the hub, forwarding, SOCKS, PTY sessions, the search for a
target, the life of a process with its command line, the browser; proofs for
all of them.

What is left, in this order:

1. The browser's `send`, `closeWrite` and `resize` through worker and Trystero
   client, and a page that is unmounted.
2. Operators over bounded inputs: ranking of addresses, the relay dial plan.
3. A hub with peers that leave and come back under the same name.
