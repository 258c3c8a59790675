------------------------------ MODULE Process ------------------------------
(***************************************************************************)
(* The life of one p2p-nc process, from main() of src/cli.js to its exit:  *)
(* the command line (CommandLine), the wrapper for Tor (src/tor.js), the   *)
(* key file it may share with another process (src/identity.js), the node, *)
(* advertiseSelf (src/discovery.js), the Trystero room, installShutdown    *)
(* and the finally blocks of runListener and runClient.                    *)
(*                                                                         *)
(* What the sessions do is the business of other modules: here they end.   *)
(***************************************************************************)
EXTENDS CommandLine

CONSTANT MaxFlags           \* bound: flags on one command line

VARIABLES args,             \* the command line
          wrapped,          \* P2P_NETCAT_TOR_ACTIVE: it runs under torsocks
          stage,            \* how far main() is, see Stages
          file,             \* the key file: whose key it holds
          other,            \* another process that starts with this file
          key,              \* the key of this process
          node,             \* the libp2p node
          advertise,        \* advertiseSelf
          room,             \* the Trystero room
          forward,          \* the local listener of a client with -p
          handlers,         \* installShutdown listens to signals
          signals,          \* the signals that were caught
          stopper,          \* stop() of installShutdown
          exit              \* how the process ended

keys == <<file, other, key>>
net == <<node, advertise, room, forward>>
signalVars == <<handlers, signals, stopper>>
vars == <<args, wrapped, stage, keys, net, signalVars, exit>>

Stages == {"main", "reading", "generating", "writing", "keyed", "binding",
           "running", "ending", "leaving", "stopping", "awaitingStop",
           "returned", "gone"}

TypeOK == /\ args \in Argv
          /\ wrapped \in BOOLEAN
          /\ stage \in Stages
          /\ file \in {"absent", "empty", "mine", "theirs"}
          /\ other \in {"reading", "writing", "done"}
          /\ key \in {"none", "mine", "theirs"}
          /\ node \in {"none", "up", "stopping", "stopped"}
          /\ advertise \in {"off", "providing", "sleeping", "retrying", "over"}
          /\ room \in {"none", "joined", "left"}
          /\ forward \in {"none", "open", "closing", "stuck", "closed"}
          /\ handlers \in BOOLEAN
          /\ signals \subseteq {"SIGINT", "SIGTERM"}
          /\ stopper \in {"no", "closing", "waiting", "kill"}
          /\ exit \in {"none", "code", "error", "signal"}

Init == /\ args \in CommandLines(MaxFlags)
        /\ wrapped = FALSE
        /\ stage = "main"
        /\ file \in {"absent", "theirs"}
        /\ other = IF file = "absent" THEN "reading" ELSE "done"
        /\ key = "none"
        /\ node = "none" /\ advertise = "off"
        /\ room = "none" /\ forward = "none"
        /\ handlers = FALSE /\ signals = {} /\ stopper = "no"
        /\ exit = "none"
-----------------------------------------------------------------------------
Leave(how) == stage' = "gone" /\ exit' = how

Go(next) == stage' = next /\ UNCHANGED exit

(* runUnderTor: the process waits for a child that runs the same arguments *)
(* under torsocks, and that is followed from here.                         *)
Reexec ==
  /\ stage = "main" /\ TorRequested(args) /\ ~wrapped
  /\ wrapped' = TRUE
  /\ UNCHANGED <<args, stage, keys, net, signalVars, exit>>

UsesKeyFile == args.command # "client" \/ Has(args, "identity")

Parse ==
  /\ stage = "main" /\ (wrapped \/ ~TorRequested(args))
  /\ IF Refused(args) THEN Leave("error") /\ UNCHANGED key
     ELSE IF UsesKeyFile THEN Go("reading") /\ UNCHANGED key
     ELSE Go("keyed") /\ key' = "mine"
  /\ UNCHANGED <<args, wrapped, file, other, net, signalVars>>

(* loadOrCreateIdentity.  A file that was created and not written yet is   *)
(* no key.                                                                 *)
ReadKey ==
  /\ stage = "reading"
  /\ CASE file = "absent" -> Go("generating") /\ UNCHANGED key
       [] file = "empty" -> Leave("error") /\ UNCHANGED key
       [] OTHER -> Go("keyed") /\ key' = file
  /\ UNCHANGED <<args, wrapped, file, other, net, signalVars>>

(* Mutant: writeFile without the flag "wx". *)
MayAlwaysCreate == TRUE

(* The flag "wx": the file must not exist. *)
MayCreate == file = "absent"

CreateKey ==
  /\ stage = "generating"
  /\ IF MayCreate THEN Go("writing") /\ file' = "empty"
                  ELSE Leave("error") /\ UNCHANGED file
  /\ UNCHANGED <<args, wrapped, other, key, net, signalVars>>

WriteKey ==
  /\ stage = "writing"
  /\ file' = "mine" /\ key' = "mine"
  /\ Go("keyed")
  /\ UNCHANGED <<args, wrapped, other, net, signalVars>>

(* The other process does the same; if it finds a key it takes that. *)
OtherCreates ==
  /\ other = "reading" /\ MayCreate
  /\ other' = "writing" /\ file' = "empty"
  /\ UNCHANGED <<args, wrapped, stage, key, net, signalVars, exit>>

OtherWrites ==
  /\ other = "writing"
  /\ other' = "done" /\ file' = "theirs"
  /\ UNCHANGED <<args, wrapped, stage, key, net, signalVars, exit>>
-----------------------------------------------------------------------------
(* createP2PNode, and what runs beside it.  A client with -p listens to    *)
(* signals only when its local port is bound; "id" has printed the PeerId. *)
StartNode ==
  /\ stage = "keyed" /\ ~NodeRefused(args)
  /\ node' = "up"
  /\ advertise' = IF Advertises(args) THEN "providing" ELSE "off"
  /\ room' = IF UsesTrystero(args) THEN "joined" ELSE "none"
  /\ Go(CASE args.command = "id" -> "stopping"
          [] args.command = "client" /\ Has(args, "port") -> "binding"
          [] OTHER -> "running")
  /\ handlers' = (stage' = "running")
  /\ UNCHANGED <<args, wrapped, keys, forward, signals, stopper>>

(* nodeOptionsFrom throws, or createP2PNode rejects: a port that is taken. *)
StartFails ==
  /\ stage = "keyed" /\ Leave("error")
  /\ UNCHANGED <<args, wrapped, keys, net, signalVars>>

Bind ==
  /\ stage = "binding"
  /\ \/ Go("running") /\ handlers' = TRUE /\ forward' = "open"
     \/ /\ stage' = "leaving" /\ exit' = "error"
        /\ UNCHANGED <<handlers, forward>>
  /\ UNCHANGED <<args, wrapped, keys, node, advertise, room, signals, stopper>>

(* What main() waits for: the first session of a listener without -k, the  *)
(* session of a client or its failure to get one; with -p the "close" of   *)
(* the local server, which comes while close() still waits for sessions.   *)
MayEnd == \/ args.command = "listener" /\ ~Persistent(args)
          \/ args.command = "client" /\ forward # "open"

SessionEnds ==
  /\ stage = "running" /\ MayEnd
  /\ stage' = IF args.command = "listener" THEN "ending" ELSE "leaving"
  /\ exit' \in {"code", "error"}
  /\ UNCHANGED <<args, wrapped, keys, net, signalVars>>

(* The loop of advertiseSelf: publish, then sleep or try again. *)
Advertise ==
  /\ advertise \in {"providing", "sleeping", "retrying"} /\ stage # "gone"
  /\ advertise' \in IF advertise = "providing" THEN {"sleeping", "retrying"}
                                               ELSE {"providing"}
  /\ UNCHANGED <<args, wrapped, stage, keys, node, room, forward, signalVars,
                 exit>>

(* Mutant: the long sleep does not get the signal. *)
AbortableProviding == {"providing", "retrying"}

(* advertiseController.abort() is heard by whatever the loop waits for. *)
Abortable == {"providing", "sleeping", "retrying"}

AdvertiseAborted ==
  /\ stage = "ending" /\ advertise \in Abortable
  /\ advertise' = "over"
  /\ UNCHANGED <<args, wrapped, stage, keys, node, room, forward, signalVars,
                 exit>>

(* await advertiseTask *)
Ending ==
  /\ stage = "ending" /\ advertise \in {"off", "over"}
  /\ stage' = "leaving"
  /\ UNCHANGED <<args, wrapped, keys, net, signalVars, exit>>

(* Mutant: the finally forgets the room. *)
RoomKept == room

RoomLeft == IF room = "joined" THEN "left" ELSE room

(* close() of the local listener: stop() has called it.  It waits for its  *)
(* sessions, and one that waits for "drain" of a socket close() destroyed  *)
(* never ends (LocalForward!Stalled).                                      *)
ForwardCloses ==
  /\ forward = "closing" /\ stage # "gone"
  /\ forward' \in {"closed", "stuck"}
  /\ UNCHANGED <<args, wrapped, stage, keys, node, advertise, room, signalVars,
                 exit>>

(* Both stop() and the finally of runClient wait for it. *)
ForwardClosed == forward \in {"none", "closed"}

(* The room is left, the local listener closed; then the handlers go.      *)
Leaving ==
  /\ stage = "leaving" /\ ForwardClosed
  /\ room' = RoomLeft
  /\ handlers' = FALSE
  /\ stage' = "stopping"
  /\ UNCHANGED <<args, wrapped, keys, node, advertise, forward, signals,
                 stopper, exit>>

(* node.stop() of a node that is not started returns at once. *)
Stopping ==
  /\ stage = "stopping"
  /\ IF node = "up" THEN node' = "stopping" /\ stage' = "awaitingStop"
                    ELSE UNCHANGED node /\ stage' = "returned"
  /\ UNCHANGED <<args, wrapped, keys, advertise, room, forward, signalVars,
                 exit>>

NodeStops ==
  /\ node = "stopping" /\ stage # "gone"
  /\ node' = "stopped"
  /\ UNCHANGED <<args, wrapped, stage, keys, advertise, room, forward,
                 signalVars, exit>>

Returning ==
  /\ \/ stage = "awaitingStop" /\ node = "stopped" /\ Go("returned")
     \/ stage = "returned" /\ Leave(IF exit = "none" THEN "code" ELSE exit)
  /\ UNCHANGED <<args, wrapped, keys, net, signalVars>>
-----------------------------------------------------------------------------
(* stop(), up to its first await *)
StopBegins ==
  /\ stopper' = "closing"
  /\ forward' = IF forward = "open" THEN "closing" ELSE forward

(* A signal.  The first of its kind is caught while the handlers are on,   *)
(* and the first of all starts stop(); for one that comes while stop()     *)
(* runs, stop() returns at once.  Otherwise it ends the process.           *)
Signal(s) ==
  /\ stage # "gone"
  /\ IF handlers /\ s \notin signals
       THEN /\ signals' = signals \cup {s}
            /\ IF stopper = "no" THEN StopBegins /\ Go(stage)
               ELSE Leave("signal") /\ UNCHANGED <<stopper, forward>>
       ELSE Leave("signal") /\ UNCHANGED <<signals, stopper, forward>>
  /\ UNCHANGED <<args, wrapped, keys, node, advertise, room, handlers>>

(* Mutant: process.kill does not wait for node.stop(). *)
KillAtOnce == "kill"

(* await node.stop() *)
StopAwaited == IF node = "up" THEN "waiting" ELSE "kill"

(* stop(), once the local listener is closed: the node is stopped, then    *)
(* the signal is sent again, which nothing catches.                        *)
Shutdown ==
  /\ stage # "gone"
  /\ \/ /\ stopper = "closing" /\ ForwardClosed
        /\ stopper' = StopAwaited
        /\ node' = IF node = "up" THEN "stopping" ELSE node
        /\ UNCHANGED <<stage, exit>>
     \/ /\ stopper = "waiting" /\ node = "stopped"
        /\ stopper' = "kill"
        /\ UNCHANGED <<stage, exit, node>>
     \/ /\ stopper = "kill"
        /\ Leave("signal")
        /\ UNCHANGED <<stopper, node>>
  /\ UNCHANGED <<args, wrapped, keys, advertise, room, forward, handlers,
                 signals>>
-----------------------------------------------------------------------------
Runtime == \/ Reexec \/ Parse \/ ReadKey \/ CreateKey \/ WriteKey
           \/ StartNode \/ StartFails \/ Bind
           \/ AdvertiseAborted \/ Ending \/ ForwardCloses \/ Leaving \/ Stopping
           \/ NodeStops \/ Returning \/ Shutdown

Others == \/ OtherCreates \/ OtherWrites \/ SessionEnds \/ Advertise
          \/ \E s \in {"SIGINT", "SIGTERM"} : Signal(s)

Next == Runtime \/ Others

Spec == Init /\ [][Next]_vars

(* The waits of the finally blocks and of stop() settle, all but one: see  *)
(* ForwardCloses.                                                          *)
FairSpec == Spec /\ WF_vars(Runtime)
-----------------------------------------------------------------------------
(* docs/GS_NETCAT_COMPAT.md:118-125: with -T the only way out is TCP to    *)
(* the relay that was named.  A node started with -T belongs to a client,  *)
(* has no other address and no discovery, neither a DHT nor QUIC nor a     *)
(* Trystero room, and runs under torsocks -- unless -T was written where   *)
(* torRequested does not look for it.                                      *)
TorIsKept ==
  node # "none" /\ Tor(args) =>
    /\ args.command = "client" /\ args.relays = "tcp"
    /\ LET n == NodeFor(args)
       IN /\ n.addresses \subseteq {<<"circuit", "named">>}
          /\ n.discovery = {} /\ n.services = {}
          /\ "quic" \notin n.transports
    /\ room = "none"
    /\ wrapped \/ args.tor = "hyphen"

(* Two processes that start with the same key file never run with two      *)
(* keys: the key a process has is the one that stays in the file.          *)
OneKeyPerFile ==
  /\ key # "none" /\ UsesKeyFile => file = key
  /\ other = "done" => file = "theirs"

(* A process that ends by itself leaves nothing behind: the node is        *)
(* stopped, the room left, the local listener closed, advertiseSelf over,  *)
(* no handler installed.  With a signal in between the node may still be   *)
(* stopping.                                                               *)
LeavesNothing ==
  stage = "gone" /\ exit # "signal" /\ node # "none" =>
    /\ room # "joined" /\ advertise \in {"off", "over"} /\ ~handlers
    /\ ForwardClosed
    /\ \/ node = "stopped"
       \/ signals # {} /\ node = "stopping"

(* When stop() sends the signal again the node has stopped, unless the     *)
(* session ended at that moment and took the handlers with it.             *)
SignalWaits ==
  exit = "signal" /\ stopper = "kill" /\ handlers => node = "stopped"

(* A process that is asked to end does: by a signal, at whatever moment,   *)
(* or by the end of its session, whatever it was doing besides.  The one   *)
(* exception is a client with -p whose close() waits for a session that    *)
(* cannot end: stop() and the finally wait with it, until a second signal. *)
EndsWhenAsked ==
  signals # {} \/ stage \in {"ending", "leaving", "stopping"} ~>
    stage = "gone" \/ forward = "stuck"
=============================================================================
