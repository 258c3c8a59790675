---------------------------- MODULE LocalForward ----------------------------
(***************************************************************************)
(* p2p-nc -p on the client: startLocalForward of src/forwarding.js, which  *)
(* bridges every local TCP connection to a P2P stream of its own, with     *)
(* openLibp2pStream and the shutdown of runClient in src/cli.js.           *)
(*                                                                         *)
(* A connection, its socket, its session and its stream share one name.    *)
(* The bridge is bridgeSession seen from outside (Session has the inside): *)
(* what matters here is whether its input is over and whether it waits for *)
(* "drain", because that decides what wakes it when socket or stream go.   *)
(***************************************************************************)
EXTENDS FiniteSets

CONSTANT Conns              \* the local connections a run may see

VARIABLES phase,            \* phase[c]: how far the session of c is
          socket,           \* socket[c]: "none", "open", "destroyed", "closed"
          stream,           \* stream[c]: "none", "open", "closed"
          flow,             \* flow[c]: the bridge, see Flow
          sockets, sessions, streams,   \* the three sets of the listener
          server,           \* "listening", "closing" or "closed"
          closing,          \* close(): "no", "begun" or "returned"
          dialTarget,       \* dialTargetPromise
          aborted,          \* libp2pController
          fate              \* history: why the session of c failed

sets == <<sockets, sessions, streams>>
shared == <<server, closing, dialTarget, aborted>>
vars == <<phase, socket, stream, flow, sets, shared, fate>>

Phase == {"none", "resolving", "dialling", "bridging", "over"}

(* "both": both pumps run; "half": the input is over; "full": the input is *)
(* over and the other pump waits for "drain"; "ended": so is the output.   *)
Flow == {"both", "half", "full", "ended"}

TypeOK == /\ phase \in [Conns -> Phase]
          /\ socket \in [Conns -> {"none", "open", "destroyed", "closed"}]
          /\ stream \in [Conns -> {"none", "open", "closed"}]
          /\ flow \in [Conns -> Flow]
          /\ sockets \subseteq Conns
          /\ sessions \subseteq Conns
          /\ streams \subseteq Conns
          /\ server \in {"listening", "closing", "closed"}
          /\ closing \in {"no", "begun", "returned"}
          /\ dialTarget \in {"unset", "pending", "found", "failed"}
          /\ aborted \in BOOLEAN
          /\ fate \in [Conns -> {"none", "target", "staleTarget", "dial",
                                 "bridge"}]

Init == /\ phase = [c \in Conns |-> "none"]
        /\ socket = [c \in Conns |-> "none"]
        /\ stream = [c \in Conns |-> "none"]
        /\ flow = [c \in Conns |-> "both"]
        /\ sockets = {} /\ sessions = {} /\ streams = {}
        /\ server = "listening"
        /\ closing = "no"
        /\ dialTarget = "unset"
        /\ aborted = FALSE
        /\ fate = [c \in Conns |-> "none"]
-----------------------------------------------------------------------------
Destroy(C) == [c \in Conns |-> IF c \in C /\ socket[c] = "open"
                               THEN "destroyed" ELSE socket[c]]

Abort(C) == [c \in Conns |-> IF c \in C /\ stream[c] = "open"
                             THEN "closed" ELSE stream[c]]

(* Mutant: the local client is not told. *)
SessionFailsQuietly(c, why) ==
  /\ phase' = [phase EXCEPT ![c] = "over"]
  /\ fate' = [fate EXCEPT ![c] = why]
  /\ sessions' = sessions \ {c}
  /\ UNCHANGED socket

(* The catch and the finally of the session. *)
SessionFails(c, why) ==
  /\ phase' = [phase EXCEPT ![c] = "over"]
  /\ fate' = [fate EXCEPT ![c] = why]
  /\ sessions' = sessions \ {c}
  /\ socket' = Destroy({c})

SessionResolves(c) ==
  /\ phase' = [phase EXCEPT ![c] = "over"]
  /\ sessions' = sessions \ {c}
  /\ UNCHANGED <<fate, socket>>

(* A connection is accepted: its session asks for a stream, the first one  *)
(* starts resolveTarget for all.                                           *)
Accept(c) ==
  /\ server = "listening"
  /\ phase[c] = "none"
  /\ phase' = [phase EXCEPT ![c] = "resolving"]
  /\ socket' = [socket EXCEPT ![c] = "open"]
  /\ sockets' = sockets \cup {c}
  /\ sessions' = sessions \cup {c}
  /\ dialTarget' = IF dialTarget = "unset" THEN "pending" ELSE dialTarget
  /\ fate' = [fate EXCEPT ![c] = IF dialTarget = "failed" THEN "staleTarget"
                                 ELSE @]
  /\ UNCHANGED <<stream, flow, streams, server, closing, aborted>>

(* resolveTarget finds the peer, or gives up: timeout or controller. *)
TargetSettles ==
  /\ dialTarget = "pending"
  /\ dialTarget' \in {"found", "failed"}
  /\ aborted => dialTarget' = "failed"
  /\ UNCHANGED <<phase, socket, stream, flow, sets, server, closing, aborted,
                 fate>>

(* The session gets the dial target, or the cached rejection of it. *)
GetsTarget(c) ==
  /\ phase[c] = "resolving"
  /\ \/ /\ dialTarget = "found"
        /\ phase' = [phase EXCEPT ![c] = "dialling"]
        /\ UNCHANGED <<fate, sessions, socket>>
     \/ /\ dialTarget = "failed"
        /\ SessionFails(c, IF fate[c] = "none" THEN "target" ELSE fate[c])
  /\ UNCHANGED <<stream, flow, sockets, streams, shared>>

(* dialProtocol rejects: an error, the timeout or the controller. *)
DialFails(c) ==
  /\ phase[c] = "dialling"
  /\ SessionFails(c, "dial")
  /\ UNCHANGED <<stream, flow, sockets, streams, shared>>

(* dialProtocol resolves.  If the socket has gone meanwhile the stream is  *)
(* aborted at once.                                                        *)
DialDone(c) ==
  /\ phase[c] = "dialling"
  /\ ~aborted
  /\ IF socket[c] = "open"
       THEN /\ stream' = [stream EXCEPT ![c] = "open"]
            /\ streams' = streams \cup {c}
            /\ phase' = [phase EXCEPT ![c] = "bridging"]
            /\ UNCHANGED <<sessions, socket, fate>>
       ELSE /\ stream' = [stream EXCEPT ![c] = "closed"]
            /\ UNCHANGED streams
            /\ SessionResolves(c)
  /\ UNCHANGED <<flow, sockets, shared>>
-----------------------------------------------------------------------------
(* The bridge. *)

Bridging(c) == phase[c] = "bridging" /\ socket[c] = "open"

InputEnds(c) ==
  /\ Bridging(c) /\ flow[c] = "both" /\ stream[c] = "open"
  /\ flow' = [flow EXCEPT ![c] = "half"]
  /\ UNCHANGED <<phase, socket, stream, sets, shared, fate>>

OutputFills(c) ==
  /\ Bridging(c) /\ flow[c] = "half" /\ stream[c] = "open"
  /\ flow' = [flow EXCEPT ![c] = "full"]
  /\ UNCHANGED <<phase, socket, stream, sets, shared, fate>>

OutputDrains(c) ==
  /\ Bridging(c) /\ flow[c] = "full"
  /\ flow' = [flow EXCEPT ![c] = "half"]
  /\ UNCHANGED <<phase, socket, stream, sets, shared, fate>>

(* Both directions are over: the stream is closed, the socket is ended. *)
BridgeResolves(c) ==
  /\ Bridging(c) /\ flow[c] = "half" /\ stream[c] = "open"
  /\ flow' = [flow EXCEPT ![c] = "ended"]
  /\ stream' = [stream EXCEPT ![c] = "closed"]
  /\ streams' = streams \ {c}
  /\ SessionResolves(c)
  /\ UNCHANGED <<sockets, shared>>

(* A pump throws: the one from the socket when the socket is destroyed,    *)
(* which aborts the stream, or one that finds the stream closed.  A wait   *)
(* for "drain" of a destroyed socket never ends.                           *)
BridgeFails(c) ==
  /\ phase[c] = "bridging"
  /\ \/ flow[c] = "both" /\ socket[c] # "open"
     \/ flow[c] # "full" /\ stream[c] = "closed"
  /\ stream' = Abort({c})
  /\ streams' = streams \ {c}
  /\ SessionFails(c, "bridge")
  /\ UNCHANGED <<flow, sockets, shared>>

(* The other end aborts the stream, or the connection to it is lost. *)
StreamAborted(c) ==
  /\ stream[c] = "open"
  /\ stream' = Abort({c})
  /\ UNCHANGED <<phase, socket, flow, sets, shared, fate>>
-----------------------------------------------------------------------------
(* An error of the socket. *)
SocketBreaks(c) ==
  /\ socket[c] = "open"
  /\ socket' = Destroy({c})
  /\ IF flow[c] = "full" /\ phase[c] = "bridging"
       THEN flow' = [flow EXCEPT ![c] = "half"]   \* the wait rejects
       ELSE UNCHANGED flow
  /\ UNCHANGED <<phase, stream, sets, shared, fate>>

(* Mutant: nobody listens to the "close" of the socket. *)
KeepStream(c) == stream

(* onSocketClose, which is listened to while the bridge runs. *)
OnSocketClose(c) == IF phase[c] = "bridging" THEN Abort({c}) ELSE stream

(* The "close" event: of a destroyed socket, or of one ended both ways. *)
SocketClosed(c) ==
  /\ \/ socket[c] = "destroyed"
     \/ socket[c] = "open" /\ flow[c] = "ended"
  /\ socket' = [socket EXCEPT ![c] = "closed"]
  /\ sockets' = sockets \ {c}
  /\ stream' = OnSocketClose(c)
  /\ UNCHANGED <<phase, flow, sessions, streams, shared, fate>>
-----------------------------------------------------------------------------
(* Mutant: close() leaves the sockets to themselves. *)
DestroyNone(C) == socket

DestroyAll(C) == Destroy(C)

(* close(), up to its first await: a signal, or the end of runClient. *)
Close ==
  /\ closing = "no"
  /\ closing' = "begun"
  /\ socket' = DestroyAll(sockets)
  /\ stream' = Abort(streams)
  /\ server' = "closing"
  /\ UNCHANGED <<phase, flow, sets, dialTarget, aborted, fate>>

(* The "close" of the server comes when its last connection has closed.    *)
(* runClient waits for it and aborts its controller.                       *)
ServerClosed ==
  /\ server = "closing"
  /\ \A c \in Conns : socket[c] \in {"none", "closed"}
  /\ server' = "closed"
  /\ aborted' = TRUE
  /\ UNCHANGED <<phase, socket, stream, flow, sets, closing, dialTarget,
                 fate>>

(* Mutant: close() does not wait for the sessions. *)
SessionsIgnored == TRUE

(* Promise.allSettled([...sessions]) *)
SessionsSettled == sessions = {}

CloseReturns ==
  /\ closing = "begun"
  /\ server = "closed"
  /\ SessionsSettled
  /\ closing' = "returned"
  /\ UNCHANGED <<phase, socket, stream, flow, sets, server, dialTarget,
                 aborted,
                 fate>>
-----------------------------------------------------------------------------
(* What goes on by itself.  A dial settles within its timeout. *)
Runtime(c) == \/ GetsTarget(c) \/ DialFails(c) \/ DialDone(c)
              \/ BridgeFails(c) \/ SocketClosed(c)
Closing == ServerClosed \/ CloseReturns

Peers(c) == \/ Accept(c) \/ InputEnds(c) \/ OutputFills(c) \/ OutputDrains(c)
            \/ BridgeResolves(c) \/ StreamAborted(c) \/ SocketBreaks(c)

Next == \/ \E c \in Conns : Runtime(c) \/ Peers(c)
        \/ TargetSettles \/ Close \/ Closing

Spec == Init /\ [][Next]_vars

Fairness == /\ \A c \in Conns : WF_vars(Runtime(c))
            /\ WF_vars(TargetSettles)
            /\ WF_vars(Closing)

FairSpec == Spec /\ Fairness
-----------------------------------------------------------------------------
(* The three sets are what close() works from, so they must not lose       *)
(* anything: an open stream is in streams, a socket that is not closed in  *)
(* sockets, a session that is not over in sessions; and when close() has   *)
(* returned nothing is left, not even the stream of a dial that was under  *)
(* way when it was called.                                                 *)
NothingIsLost ==
  /\ \A c \in Conns : /\ stream[c] = "open" => c \in streams
                      /\ socket[c] \in {"open", "destroyed"} => c \in sockets
                      /\ phase[c] \notin {"none", "over"} => c \in sessions
  /\ closing = "returned" =>
       \A c \in Conns : /\ socket[c] \in {"none", "closed"}
                        /\ phase[c] \in {"none", "over"}
                        /\ stream[c] # "open"

(* The bridge waits for "drain" of a socket that will never report it. *)
Stalled(c) ==
  phase[c] = "bridging" /\ flow[c] = "full" /\ socket[c] # "open"

(* close() returns, whatever the sessions are doing when it is called: the *)
(* tests close the listener in their finally and wait for it.  The one     *)
(* exception is a half-closed connection that waits for "drain".           *)
CloseFinishes ==
  closing = "begun" ~> (closing = "returned" \/ \E c \in Conns : Stalled(c))

(* A local client is not left with a dead connection: its socket closes    *)
(* once its session is over, also when no stream could be opened for it.   *)
LocalSeesTheEnd ==
  \A c \in Conns : phase[c] = "over" ~> socket[c] # "open"

(* Nor is the other end: the stream of a connection that has closed does   *)
(* not stay open, even if its input was over long ago.                     *)
StreamFollowsSocket ==
  \A c \in Conns : socket[c] = "closed" ~> stream[c] # "open"

(* docs/GS_NETCAT_COMPAT.md: each local connection is forwarded to a new   *)
(* stream.  So none fails for want of a target unless a search for the     *)
(* target was still running when it came, or was started for it.           *)
EachConnectionIsTried == \A c \in Conns : fate[c] # "staleTarget"
=============================================================================
