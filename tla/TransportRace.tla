---------------------------- MODULE TransportRace ----------------------------
(***************************************************************************)
(* How clients and a listener agree on streams.  A client tries libp2p and *)
(* Trystero/WebRTC at the same time and takes what comes first (runClient  *)
(* of src/cli.js, connectTrystero of src/trystero.js); the listener takes  *)
(* what comes first as well, from whichever client, and only that unless   *)
(* it is persistent (runListener).  Each end sees a stream at a moment of  *)
(* its own.  The hub of the listener (createHub) has a stream for every    *)
(* peer of its room, also for one that sends when its stream is over.      *)
(*                                                                         *)
(* A client has at most one stream on each transport, so the two name it.  *)
(* What the sessions transfer is the business of Session.                  *)
(***************************************************************************)
EXTENDS FiniteSets, Naturals

CONSTANT Clients            \* the processes that look for this listener

Transports == {"libp2p", "trystero"}
Streams == Clients \X Transports

VARIABLES persistent,   \* the listener was started with -k, -i, -S or -p
          attempt,      \* attempt[c][t]: the client's promise of a stream
          inRoom,       \* the clients in the Trystero room
          aborted,      \* the clients whose libp2pController was aborted
          near,         \* near[c][t]: the stream at the client
          winner,       \* winner[c]: what Promise.any gave the client
          client,       \* where runClient of c is
          far,          \* far[c][t]: the stream at the listener, its session
          handled,      \* handled
          served,       \* the streams the listener ran a session on
          refused,      \* the streams the listener aborted at once
          listener,     \* "up", "leaving" (firstSession settled) or "gone"
          present,      \* the peers the room of the listener has announced
          strays        \* the peers with a stream in the hub nobody reads

clientVars == <<attempt, inRoom, aborted, near, winner, client>>
hubVars == <<present, strays>>
listenerVars == <<far, handled, served, refused, listener>>
vars == <<persistent, clientVars, listenerVars, hubVars>>

StreamState == {"none", "open", "closed"}
AttemptState == {"pending", "resolved", "rejected"}

(* "waiting": the stream is over and its end was clean, the session waits  *)
(* for its own input, an idle stdin or a command that runs on.             *)
FarState == StreamState \cup {"waiting"}
ClientState == {"racing", "session", "waiting", "leaving", "gone"}

TypeOK == /\ persistent \in BOOLEAN
          /\ attempt \in [Clients -> [Transports -> AttemptState]]
          /\ inRoom \subseteq Clients
          /\ aborted \subseteq Clients
          /\ near \in [Clients -> [Transports -> StreamState]]
          /\ winner \in [Clients -> Transports \cup {"none"}]
          /\ client \in [Clients -> ClientState]
          /\ far \in [Clients -> [Transports -> FarState]]
          /\ handled \in BOOLEAN
          /\ served \subseteq Streams
          /\ refused \subseteq Streams
          /\ listener \in {"up", "leaving", "gone"}
          /\ present \subseteq Clients
          /\ strays \subseteq Clients

Each(state) == [c \in Clients |-> [t \in Transports |-> state]]

(* Without -T, --relay, --no-webrtc or a multiaddr both are tried. *)
Init == /\ persistent \in BOOLEAN
        /\ attempt = Each("pending")
        /\ inRoom = Clients
        /\ aborted = {}
        /\ near = Each("none")
        /\ winner = [c \in Clients |-> "none"]
        /\ client = [c \in Clients |-> "racing"]
        /\ far = Each("none")
        /\ handled = FALSE
        /\ served = {}
        /\ refused = {}
        /\ listener = "up"
        /\ present = {}
        /\ strays = {}
-----------------------------------------------------------------------------
(* The listener. *)

(* Mutant: handled is not looked at. *)
RefusesNone == FALSE

Refuses == handled /\ ~persistent

(* handleIncoming, up to its first await. *)
HandleIncoming(c, t) ==
  IF Refuses
    THEN /\ far' = [far EXCEPT ![c][t] = "closed"]
         /\ refused' = refused \cup {<<c, t>>}
         /\ UNCHANGED <<handled, served>>
    ELSE /\ far' = [far EXCEPT ![c][t] = "open"]
         /\ handled' = TRUE
         /\ served' = served \cup {<<c, t>>}
         /\ UNCHANGED refused

(* The handler of the libp2p protocol runs before the client hears of it,  *)
(* onPeerJoin before or after that of the client; in both cases the client *)
(* may just have given the attempt up.                                     *)
Accept(c, t) ==
  /\ listener = "up"
  /\ <<c, t>> \notin served \cup refused
  /\ client[c] # "gone"
  /\ HandleIncoming(c, t)
  /\ present' = IF t = "trystero" THEN present \cup {c} ELSE present
  /\ UNCHANGED <<persistent, clientVars, listener, strays>>

(* Mutant: firstSession stays pending. *)
ListenerStays == listener

(* completed.resolve() or completed.reject() *)
AfterSession == IF persistent THEN listener ELSE "leaving"

(* A session ends: with its stream, with its input, or because one failed. *)
ListenerSessionEnds(c, t) ==
  /\ far[c][t] \in {"open", "waiting"}
  /\ far' = [far EXCEPT ![c][t] = "closed"]
  /\ listener' = AfterSession
  /\ UNCHANGED <<persistent, clientVars, handled, served, refused, hubVars>>

(* The stream ended cleanly: bridgeSession goes on waiting for inputToP2P. *)
ListenerWaits(c, t) ==
  /\ near[c][t] = "closed" /\ far[c][t] = "open"
  /\ far' = [far EXCEPT ![c][t] = "waiting"]
  /\ UNCHANGED <<persistent, clientVars, handled, served, refused, listener,
                 hubVars>>

(* The client closed the stream, cleanly or with an error. *)
SessionFollows(c, t) ==
  /\ near[c][t] = "closed" /\ far[c][t] = "open"
  /\ ListenerSessionEnds(c, t) \/ ListenerWaits(c, t)

(* The finally of runListener; close() of the hub forgets every stream. *)
ListenerLeaves ==
  /\ listener = "leaving"
  /\ listener' = "gone"
  /\ far' = Each("closed")
  /\ present' = {} /\ strays' = {}
  /\ UNCHANGED <<persistent, clientVars, handled, served, refused>>

(* A message of a peer whose stream is over: streamFor makes a stream that *)
(* no session knows, and that only an abort or the end of the peer ends.   *)
LateMessage(c) ==
  /\ c \in present /\ listener # "gone"
  /\ far[c]["trystero"] \in {"waiting", "closed"}
  /\ winner[c] = "trystero"
  /\ strays' \in {strays \cup {c}, strays \ {c}}
  /\ UNCHANGED <<persistent, clientVars, listenerVars, present>>

(* Mutant: onPeerLeave keeps the stream of the peer. *)
StraysKept(c) == strays

(* onPeerLeave: peerLeft() finalizes the stream, if the hub has one, and   *)
(* the map forgets it.                                                     *)
StraysWithout(c) == strays \ {c}

PeerLeaves(c) ==
  /\ c \in present \ inRoom /\ listener # "gone"
  /\ present' = present \ {c}
  /\ strays' = StraysWithout(c)
  /\ UNCHANGED <<persistent, clientVars, listenerVars>>
-----------------------------------------------------------------------------
(* The clients.  The reactions of a promise run before the next event, so  *)
(* a stream that arrives first has won when the next one arrives.          *)

(* Mutant: the dial that lost is not aborted. *)
WinOverNobody(c, t) ==
  /\ winner' = [winner EXCEPT ![c] = t]
  /\ client' = [client EXCEPT ![c] = "session"]
  /\ near' = [near EXCEPT ![c][t] = "open"]
  /\ attempt' = [attempt EXCEPT ![c][t] = "resolved"]
  /\ UNCHANGED <<inRoom, aborted>>

(* The loser is cancelled: close() of the Trystero attempt rejects it and  *)
(* leaves the room, the controller aborts the dial.                        *)
Win(c, t) ==
  /\ winner' = [winner EXCEPT ![c] = t]
  /\ client' = [client EXCEPT ![c] = "session"]
  /\ IF t = "libp2p"
       THEN /\ near' = [near EXCEPT ![c] =
                          [libp2p |-> "open", trystero |-> "closed"]]
            /\ attempt' = [attempt EXCEPT ![c] =
                             [libp2p |-> "resolved", trystero |-> "rejected"]]
            /\ inRoom' = inRoom \ {c}
            /\ UNCHANGED aborted
       ELSE /\ near' = [near EXCEPT ![c][t] = "open"]
            /\ attempt' = [attempt EXCEPT ![c][t] = "resolved"]
            /\ aborted' = aborted \cup {c}
            /\ UNCHANGED inRoom

(* dialProtocol resolves, or onPeerJoin resolves the Trystero attempt. *)
Resolves(c, t) ==
  /\ attempt[c][t] = "pending"
  /\ client[c] \in {"racing", "session", "waiting"}
  /\ \/ t = "libp2p" /\ <<c, t>> \in served \cup refused /\ c \notin aborted
     \/ t = "trystero" /\ c \in inRoom /\ listener # "gone"
  /\ IF winner[c] = "none"
       THEN Win(c, t)
       ELSE /\ near' = [near EXCEPT ![c][t] = "open"]
            /\ attempt' = [attempt EXCEPT ![c][t] = "resolved"]
            /\ UNCHANGED <<winner, client, inRoom, aborted>>
  /\ UNCHANGED <<persistent, listenerVars, hubVars>>

(* leaveAfterStream: a client whose Trystero stream is over is not in the  *)
(* room any more.                                                          *)
Closed(c, t) ==
  /\ near' = [near EXCEPT ![c][t] = "closed"]
  /\ inRoom' = IF t = "trystero" THEN inRoom \ {c} ELSE inRoom

(* The timeout of an attempt, an error of the dial, or its controller: the *)
(* promise rejects, and what was opened for it goes.                       *)
Rejects(c, t) ==
  /\ attempt[c][t] = "pending"
  /\ near[c][t] = "none"
  /\ Closed(c, t)
  /\ attempt' = [attempt EXCEPT ![c][t] = "rejected"]
  /\ UNCHANGED <<persistent, listenerVars, hubVars, winner, client, aborted>>

(* Promise.any rejects. *)
NobodyWins(c) ==
  /\ client[c] = "racing"
  /\ attempt[c] = [t \in Transports |-> "rejected"]
  /\ client' = [client EXCEPT ![c] = "leaving"]
  /\ UNCHANGED <<persistent, listenerVars, hubVars, attempt, inRoom, aborted,
                 near, winner>>

(* The listener closed the stream, or refused it. *)
StreamFollows(c, t) ==
  /\ near[c][t] = "open" /\ far[c][t] = "closed"
  /\ Closed(c, t)
  /\ UNCHANGED <<persistent, listenerVars, hubVars, attempt, aborted, winner,
                 client>>

(* The session of the client ends: with its stream, or before. *)
ClientSessionEnds(c) ==
  /\ client[c] \in {"session", "waiting"}
  /\ client' = [client EXCEPT ![c] = "leaving"]
  /\ Closed(c, winner[c])
  /\ UNCHANGED <<persistent, listenerVars, hubVars, attempt, aborted, winner>>

(* Its stream ended cleanly, and its stdin has not. *)
ClientWaits(c) ==
  /\ client[c] = "session" /\ near[c][winner[c]] = "closed"
  /\ client' = [client EXCEPT ![c] = "waiting"]
  /\ UNCHANGED <<persistent, listenerVars, hubVars, attempt, inRoom, aborted,
                 near, winner>>

(* Its stream is over, cleanly or with an error. *)
SessionFails(c) == /\ client[c] = "session" /\ near[c][winner[c]] = "closed"
                   /\ ClientSessionEnds(c) \/ ClientWaits(c)

(* The finally of runClient. *)
ClientLeaves(c) ==
  /\ client[c] = "leaving"
  /\ client' = [client EXCEPT ![c] = "gone"]
  /\ aborted' = aborted \cup {c}
  /\ inRoom' = inRoom \ {c}
  /\ near' = [near EXCEPT ![c] = [t \in Transports |-> "closed"]]
  /\ attempt' = [attempt EXCEPT ![c] =
                   [t \in Transports |-> IF @[t] = "pending" THEN "rejected"
                                                             ELSE @[t]]]
  /\ UNCHANGED <<persistent, listenerVars, hubVars, winner>>
-----------------------------------------------------------------------------
Listening == \/ ListenerLeaves
             \/ \E c \in Clients : \/ LateMessage(c) \/ PeerLeaves(c)
                                   \/ \E t \in Transports :
                                        \/ Accept(c, t)
                                        \/ ListenerSessionEnds(c, t)
                                        \/ ListenerWaits(c, t)

Dialling == \E c \in Clients :
              \/ NobodyWins(c) \/ ClientLeaves(c)
              \/ ClientSessionEnds(c) \/ ClientWaits(c)
              \/ \E t \in Transports :
                   Resolves(c, t) \/ Rejects(c, t) \/ StreamFollows(c, t)

Next == Listening \/ Dialling

Spec == Init /\ [][Next]_vars

(* Attempts time out, the end of a stream is seen at the other end, what a *)
(* settled promise leads to happens.  No peer has to be found, and no      *)
(* input has to end: a session that waits for its own may do so for ever.  *)
(* Each of these steps comes at most once, so one condition for all is     *)
(* enough.                                                                 *)
Runtime ==
  \/ ListenerLeaves
  \/ \E c \in Clients :
       \/ NobodyWins(c) \/ SessionFails(c) \/ ClientLeaves(c) \/ PeerLeaves(c)
       \/ \E t \in Transports :
            Rejects(c, t) \/ SessionFollows(c, t) \/ StreamFollows(c, t)

FairSpec == Spec /\ WF_vars(Runtime)
-----------------------------------------------------------------------------
(* A listener for one session runs one, however many clients bring it      *)
(* streams on both transports, and it never gives one stream both          *)
(* treatments.                                                             *)
OneShotServesOne ==
  ~persistent => /\ Cardinality(served) <= 1
                 /\ served \cap refused = {}

(* Once a client has chosen, the attempt that lost holds no stream and     *)
(* will never deliver one: two sessions never share one stdin.             *)
LoserIsCancelled ==
  \A c \in Clients : client[c] \in {"session", "waiting"} =>
    \A t \in Transports \ {winner[c]} :
      near[c][t] # "open" /\ attempt[c][t] # "resolved"

(* A listener that has begun a session on the stream that lost learns that *)
(* this stream is over while the other session may go on.                  *)
LoserOpen(c) == /\ winner[c] # "none"
                /\ \E t \in Transports \ {winner[c]} : far[c][t] = "open"

LoserEndsAtListener == \A c \in Clients : LoserOpen(c) ~> ~LoserOpen(c)

(* A listener for one session stops after it, even if that was a session   *)
(* on a stream that lost the race; and the clients it leaves behind, those *)
(* it refused and those still looking for it, come to an end too.  At both *)
(* ends one thing may stand in the way, and nothing else: a session whose  *)
(* stream ended cleanly and that waits for its own input.                  *)
Waits(c) == \E t \in Transports : far[c][t] = "waiting"

LeftBehind(c) == listener = "gone" \/ <<c, winner[c]>> \in refused

EveryoneStops ==
  /\ (~persistent /\ served # {} /\ \A c \in Clients : client[c] = "gone")
       ~> (listener = "gone" \/ \E c \in Clients : Waits(c))
  /\ \A c \in Clients : LeftBehind(c) ~> client[c] \in {"waiting", "gone"}

(* The hub forgets a client that is gone, also the streams its last        *)
(* messages made after the session was over.                               *)
HubForgets ==
  \A c \in Clients : client[c] = "gone" ~> c \notin present \cup strays

(* docs/ARCHITECTURE.md: the first channel cancels the losing attempt.  So *)
(* the channel a client took is not one the listener cancels, not even if  *)
(* it is the only client.                                                  *)
ChosenIsServed ==
  \A c \in Clients :
    <<c, winner[c]>> \in refused => \E s \in served : s[1] # c
=============================================================================
