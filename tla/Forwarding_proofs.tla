-------------------------- MODULE Forwarding_proofs --------------------------
(***************************************************************************)
(* The two halves of src/forwarding.js.                                    *)
(*                                                                         *)
(* LocalForward keeps its types and loses nothing, for every set of local  *)
(* connections: close() works from three sets, so what it leaves behind is *)
(* what the sets have forgotten.  And close() itself can always go on, but *)
(* for a bridge that waits for a drain that cannot come, and runs out of   *)
(* steps.                                                                  *)
(*                                                                         *)
(* Socks: the answers of a session fit together, and the target gets the   *)
(* payload whole, however long the payload is and however many chunks wait.*)
(* A client without its answer and a socket without its client both find a *)
(* session that can go on, and no session goes on for ever.                *)
(***************************************************************************)
EXTENDS LocalForward, Socks, TLAPS

(* Every step is one of these; used to split on Next once. *)
LEMMA Steps ==
  ASSUME [Next]_vars
  PROVE  \/ \E c \in Conns :
              \/ Accept(c) \/ GetsTarget(c) \/ DialFails(c) \/ DialDone(c)
              \/ InputEnds(c) \/ OutputFills(c) \/ OutputDrains(c)
              \/ BridgeResolves(c) \/ BridgeFails(c) \/ StreamAborted(c)
              \/ SocketBreaks(c) \/ SocketClosed(c)
         \/ TargetSettles \/ Close \/ ServerClosed \/ CloseReturns
         \/ UNCHANGED vars
BY DEF Next, Runtime, Peers, Closing

(* What Destroy and Abort leave of a socket and of a stream. *)
LEMMA Destroyed ==
  ASSUME TypeOK, NEW C
  PROVE  /\ Destroy(C) \in [Conns -> {"none", "open", "destroyed", "closed"}]
         /\ \A c \in Conns :
              /\ socket[c] \in {"none", "closed"} => Destroy(C)[c] = socket[c]
              /\ Destroy(C)[c] \in {"open", "destroyed"} =>
                   socket[c] \in {"open", "destroyed"}
BY DEF TypeOK, Destroy

LEMMA Aborted ==
  ASSUME TypeOK, NEW C
  PROVE  /\ Abort(C) \in [Conns -> {"none", "open", "closed"}]
         /\ \A c \in Conns : /\ Abort(C)[c] = "open" => stream[c] = "open"
                             /\ c \in C => Abort(C)[c] # "open"
BY DEF TypeOK, Abort
-----------------------------------------------------------------------------
LEMMA TypeStep ==
  ASSUME TypeOK, [Next]_vars
  PROVE  TypeOK'
<1> USE DEF TypeOK, Phase, Flow
<1>1. ASSUME NEW c \in Conns, Accept(c) PROVE TypeOK'
  BY <1>1 DEF Accept
<1>2. ASSUME NEW c \in Conns, GetsTarget(c) PROVE TypeOK'
  BY <1>2, Destroyed DEF GetsTarget, SessionFails, shared
<1>3. ASSUME NEW c \in Conns, DialFails(c) PROVE TypeOK'
  BY <1>3, Destroyed DEF DialFails, SessionFails, shared
<1>4. ASSUME NEW c \in Conns, DialDone(c) PROVE TypeOK'
  BY <1>4 DEF DialDone, SessionResolves, shared
<1>5. ASSUME NEW c \in Conns,
             InputEnds(c) \/ OutputFills(c) \/ OutputDrains(c)
      PROVE  TypeOK'
  BY <1>5 DEF InputEnds, OutputFills, OutputDrains, sets, shared
<1>6. ASSUME NEW c \in Conns, BridgeResolves(c) PROVE TypeOK'
  BY <1>6 DEF BridgeResolves, SessionResolves, shared
<1>7. ASSUME NEW c \in Conns, BridgeFails(c) PROVE TypeOK'
  BY <1>7, Destroyed, Aborted DEF BridgeFails, SessionFails, shared
<1>8. ASSUME NEW c \in Conns, StreamAborted(c) PROVE TypeOK'
  BY <1>8, Aborted DEF StreamAborted, sets, shared
<1>9. ASSUME NEW c \in Conns, SocketBreaks(c) PROVE TypeOK'
  BY <1>9, Destroyed DEF SocketBreaks, sets, shared
<1>10. ASSUME NEW c \in Conns, SocketClosed(c) PROVE TypeOK'
  BY <1>10, Aborted DEF SocketClosed, OnSocketClose, shared
<1>11. CASE TargetSettles
  BY <1>11 DEF TargetSettles, sets
<1>12. CASE Close
  BY <1>12, Destroyed, Aborted DEF Close, DestroyAll, sets
<1>13. CASE ServerClosed
  BY <1>13 DEF ServerClosed, sets
<1>14. CASE CloseReturns
  BY <1>14 DEF CloseReturns, sets
<1>15. CASE UNCHANGED vars
  BY <1>15 DEF vars, sets, shared
<1> QED
  BY Steps, <1>1, <1>2, <1>3, <1>4, <1>5, <1>6, <1>7, <1>8, <1>9, <1>10,
     <1>11, <1>12, <1>13, <1>14, <1>15

LEMMA TypeInit == Init => TypeOK
<1> SUFFICES ASSUME Init PROVE TypeOK
  OBVIOUS
<1>1. /\ phase \in [Conns -> Phase]
      /\ socket \in [Conns -> {"none", "open", "destroyed", "closed"}]
      /\ stream \in [Conns -> {"none", "open", "closed"}]
  BY DEF Init, Phase
<1>2. /\ flow \in [Conns -> Flow]
      /\ fate \in [Conns -> {"none", "target", "staleTarget", "dial",
                             "bridge"}]
  BY DEF Init, Flow
<1>3. /\ sockets \subseteq Conns /\ sessions \subseteq Conns
      /\ streams \subseteq Conns
  BY DEF Init
<1>4. /\ server \in {"listening", "closing", "closed"}
      /\ closing \in {"no", "begun", "returned"}
      /\ dialTarget \in {"unset", "pending", "found", "failed"}
      /\ aborted \in BOOLEAN
  BY DEF Init
<1> QED
  BY <1>1, <1>2, <1>3, <1>4 DEF TypeOK

(* Every reachable state of the port forwarding listener is well typed,    *)
(* for every set of local connections.                                     *)
THEOREM TypeCorrect == Spec => []TypeOK
BY TypeInit, TypeStep, PTL DEF Spec
-----------------------------------------------------------------------------
(* The inductive invariant: the sets know everything that lives, a stream  *)
(* lives only while its session bridges it, a closed server has no socket, *)
(* and when close() has returned no session is left that could open a      *)
(* stream.                                                                 *)
Kept(c) == /\ stream[c] = "open" => c \in streams /\ phase[c] = "bridging"
           /\ socket[c] \in {"open", "destroyed"} => c \in sockets
           /\ phase[c] \notin {"none", "over"} => c \in sessions
           /\ server = "closed" => socket[c] \in {"none", "closed"}

Inv == /\ TypeOK
       /\ \A c \in Conns : Kept(c)
       /\ closing = "returned" => server = "closed" /\ sessions = {}

LEMMA InvImplies == Inv => NothingIsLost
BY DEF Inv, Kept, NothingIsLost, TypeOK, Phase

LEMMA InvInit == Init => Inv
BY TypeInit DEF Init, Inv, Kept

LEMMA InvStep ==
  ASSUME Inv, [Next]_vars
  PROVE  Inv'
<1> USE DEF Inv, Kept
<1>0. TypeOK /\ TypeOK'
  BY TypeStep
<1>t. /\ phase \in [Conns -> Phase]
      /\ stream \in [Conns -> {"none", "open", "closed"}]
      /\ socket \in [Conns -> {"none", "open", "destroyed", "closed"}]
  BY <1>0 DEF TypeOK
<1>1. ASSUME NEW a \in Conns, Accept(a) PROVE Inv'
  BY <1>0, <1>1, <1>t DEF Accept
<1>2. ASSUME NEW a \in Conns, GetsTarget(a) PROVE Inv'
  BY <1>0, <1>2, <1>t, Destroyed DEF GetsTarget, SessionFails, shared
<1>3. ASSUME NEW a \in Conns, DialFails(a) PROVE Inv'
  BY <1>0, <1>3, <1>t, Destroyed DEF DialFails, SessionFails, shared
<1>4. ASSUME NEW a \in Conns, DialDone(a) PROVE Inv'
  BY <1>0, <1>4, <1>t DEF DialDone, SessionResolves, shared
<1>5. ASSUME NEW a \in Conns,
             InputEnds(a) \/ OutputFills(a) \/ OutputDrains(a)
      PROVE  Inv'
  BY <1>0, <1>5 DEF InputEnds, OutputFills, OutputDrains, sets, shared
<1>6. ASSUME NEW a \in Conns, BridgeResolves(a) PROVE Inv'
  BY <1>0, <1>6, <1>t DEF BridgeResolves, SessionResolves, shared
<1>7. ASSUME NEW a \in Conns, BridgeFails(a) PROVE Inv'
  BY <1>0, <1>7, <1>t, Destroyed, Aborted DEF BridgeFails, SessionFails, shared
<1>8. ASSUME NEW a \in Conns, StreamAborted(a) PROVE Inv'
  BY <1>0, <1>8, Aborted DEF StreamAborted, sets, shared
<1>9. ASSUME NEW a \in Conns, SocketBreaks(a) PROVE Inv'
  BY <1>0, <1>9, Destroyed DEF SocketBreaks, sets, shared
<1>10. ASSUME NEW a \in Conns, SocketClosed(a) PROVE Inv'
  BY <1>0, <1>10, <1>t, Aborted DEF SocketClosed, OnSocketClose, shared
<1>11. CASE TargetSettles
  BY <1>0, <1>11 DEF TargetSettles, sets
<1>12. CASE Close
  BY <1>0, <1>12, Destroyed, Aborted DEF Close, DestroyAll, sets
<1>13. CASE ServerClosed
  BY <1>0, <1>13 DEF ServerClosed, sets
<1>14. CASE CloseReturns
  BY <1>0, <1>14 DEF CloseReturns, SessionsSettled, sets
<1>15. CASE UNCHANGED vars
  BY <1>0, <1>15 DEF vars, sets, shared
<1> QED
  BY Steps, <1>1, <1>2, <1>3, <1>4, <1>5, <1>6, <1>7, <1>8, <1>9, <1>10,
     <1>11, <1>12, <1>13, <1>14, <1>15

(* The three sets of the listener forget nothing that is open, and when    *)
(* close() has returned no socket, session or stream is left.              *)
THEOREM LosesNothing == Spec => []NothingIsLost
<1>1. Spec => []Inv
  BY InvInit, InvStep, PTL DEF Spec
<1> QED
  BY <1>1, InvImplies, PTL
-----------------------------------------------------------------------------
(* What is known of a connection while close() waits for it: the target    *)
(* was asked for, a session that runs can be found in its phase, a bridge  *)
(* has its stream, and behind the first await of close() no socket and no  *)
(* stream is open.  A stream does not outlive its socket, and a socket     *)
(* outlives its session only if it was ended both ways, so that its close  *)
(* follows.                                                                *)
EndInv ==
  /\ closing = "no" <=> server = "listening"
  /\ \A c \in Conns :
       /\ phase[c] = "resolving" => dialTarget # "unset"
       /\ c \in sessions => phase[c] \in {"resolving", "dialling", "bridging"}
       /\ phase[c] = "bridging" => stream[c] # "none"
       /\ phase[c] # "over" => flow[c] # "ended"
       /\ server # "listening" => socket[c] # "open" /\ stream[c] # "open"
       /\ stream[c] = "open" => socket[c] # "closed"
       /\ phase[c] = "over" /\ socket[c] = "open" => flow[c] = "ended"

(* Some step of what goes on by itself can be taken: its guards.           *)
CanGo ==
  \/ dialTarget = "pending"
  \/ server = "closing" /\ \A c \in Conns : socket[c] \in {"none", "closed"}
  \/ closing = "begun" /\ server = "closed" /\ SessionsSettled
  \/ \E c \in Conns :
       \/ phase[c] = "resolving" /\ dialTarget \in {"found", "failed"}
       \/ phase[c] = "dialling"
       \/ /\ phase[c] = "bridging"
          /\ \/ flow[c] = "both" /\ socket[c] # "open"
             \/ flow[c] # "full" /\ stream[c] = "closed"
       \/ socket[c] = "destroyed"
       \/ socket[c] = "open" /\ flow[c] = "ended"

(* close() waits for nobody who waits in turn, but for the drain of a      *)
(* socket that is gone.                                                    *)
CloseGoesOn == closing = "begun" => CanGo \/ \E c \in Conns : Stalled(c)

(* What is left of a connection, and of what the connections share.        *)
ConnLeft(p, s) ==
  (CASE p = "resolving" -> 6 [] p = "dialling" -> 4 [] p = "bridging" -> 2
     [] OTHER -> 0)
    + (CASE s = "open" -> 2 [] s = "destroyed" -> 1 [] OTHER -> 0)

SharedLeft ==
  (CASE dialTarget = "unset" -> 2 [] dialTarget = "pending" -> 1 [] OTHER -> 0)
    + (CASE server = "listening" -> 2 [] server = "closing" -> 1 [] OTHER -> 0)
    + (CASE closing = "no" -> 2 [] closing = "begun" -> 1 [] OTHER -> 0)

Left(c) == ConnLeft(phase[c], socket[c])

(* Once close() has begun every step brings it nearer to its end.          *)
CloseComesNearer ==
  [][closing # "no" =>
       /\ \A c \in Conns : Left(c)' <= Left(c)
       /\ SharedLeft' <= SharedLeft
       /\ SharedLeft' < SharedLeft \/ \E c \in Conns : Left(c)' < Left(c)]_vars

(* Before close(): nothing to wait for. *)
LEMMA EndInit == Init => EndInv
BY DEF Init, EndInv

(* No step leaves close() waiting for something that is not there. *)
LEMMA EndStep ==
  ASSUME Inv, EndInv, [Next]_vars
  PROVE  EndInv'
<1>0. TypeOK /\ \A c \in Conns : Kept(c)
  BY DEF Inv
<1>t. /\ phase \in [Conns -> Phase]
      /\ stream \in [Conns -> {"none", "open", "closed"}]
      /\ socket \in [Conns -> {"none", "open", "destroyed", "closed"}]
      /\ flow \in [Conns -> Flow]
      /\ dialTarget \in {"unset", "pending", "found", "failed"}
  BY <1>0 DEF TypeOK
<1>d. \A C : \A c \in Conns : /\ Destroy(C)[c] = "open" => socket[c] = "open"
                              /\ stream[c] # "none" => Abort(C)[c] # "none"
  BY DEF Destroy, Abort
<1>e. /\ \A c \in Conns : Destroy({c})[c] # "open" /\ Abort({c})[c] # "open"
      /\ \A a, c \in Conns : /\ Destroy({a})[c] = "closed" => socket[c] = "closed"
                             /\ Abort({a})[c] = "open" => stream[c] = "open"
  BY <1>t DEF Destroy, Abort
<1> USE DEF EndInv
<1>1. ASSUME NEW a \in Conns, Accept(a) PROVE EndInv'
  BY <1>1, <1>t DEF Accept
<1>2. ASSUME NEW a \in Conns, GetsTarget(a) PROVE EndInv'
  BY <1>2, <1>0, <1>t, <1>d, <1>e, Destroyed DEF GetsTarget, SessionFails, shared
<1>3. ASSUME NEW a \in Conns, DialFails(a) PROVE EndInv'
  BY <1>3, <1>0, <1>t, <1>d, <1>e, Destroyed DEF DialFails, SessionFails, shared
<1>4. ASSUME NEW a \in Conns, DialDone(a) PROVE EndInv'
  BY <1>4, <1>t DEF DialDone, SessionResolves, shared
<1>5. ASSUME NEW a \in Conns,
             InputEnds(a) \/ OutputFills(a) \/ OutputDrains(a)
      PROVE  EndInv'
  BY <1>5, <1>t DEF InputEnds, OutputFills, OutputDrains, sets, shared
<1>6. ASSUME NEW a \in Conns, BridgeResolves(a) PROVE EndInv'
  BY <1>6, <1>t DEF BridgeResolves, SessionResolves, shared
<1>7. ASSUME NEW a \in Conns, BridgeFails(a) PROVE EndInv'
  BY <1>7, <1>0, <1>t, <1>d, <1>e, Destroyed, Aborted DEF BridgeFails, SessionFails, shared
<1>8. ASSUME NEW a \in Conns, StreamAborted(a) PROVE EndInv'
  BY <1>8, <1>0, <1>t, <1>e, Aborted DEF StreamAborted, Abort, sets, shared
<1>9. ASSUME NEW a \in Conns, SocketBreaks(a) PROVE EndInv'
  <2>1. /\ UNCHANGED <<phase, stream, sessions, server, closing, dialTarget>>
        /\ socket' = Destroy({a}) /\ socket[a] = "open"
    BY <1>9 DEF SocketBreaks, sets, shared
  <2>2. ASSUME NEW c \in Conns
        PROVE  /\ phase[c] # "over" => flow'[c] # "ended"
               /\ c # a => flow'[c] = flow[c]
    BY <1>9, <1>t, <2>2 DEF SocketBreaks
  <2>3. \A c \in Conns : socket'[c] = "closed" => stream'[c] # "open"
    BY <1>e, <2>1
  <2>4. \A c \in Conns : phase'[c] = "over" /\ socket'[c] = "open" =>
          flow'[c] = "ended"
    BY <1>d, <1>e, <2>1, <2>2
  <2>5. \A c \in Conns : server' # "listening" =>
          socket'[c] # "open" /\ stream'[c] # "open"
    BY <1>d, <2>1
  <2> QED BY <2>1, <2>2, <2>3, <2>4, <2>5
<1>10. ASSUME NEW a \in Conns, SocketClosed(a) PROVE EndInv'
  <2>1. /\ UNCHANGED <<phase, flow, sessions, server, closing, dialTarget>>
        /\ socket' = [socket EXCEPT ![a] = "closed"]
        /\ stream' = IF phase[a] = "bridging" THEN Abort({a}) ELSE stream
    BY <1>10 DEF SocketClosed, OnSocketClose, shared
  <2>2. \A c \in Conns : /\ stream'[c] = "open" => stream[c] = "open"
                         /\ stream[c] # "none" => stream'[c] # "none"
    BY <1>d, <1>e, <2>1
  <2>3. \A c \in Conns : socket'[c] = "open" => socket[c] = "open"
    BY <1>t, <2>1
  <2>4. \A c \in Conns : socket'[c] = "closed" => stream'[c] # "open"
    <3>1. stream'[a] # "open"
      BY <1>0, <1>e, <2>1 DEF Kept
    <3>2. \A c \in Conns \ {a} : socket'[c] = socket[c]
      BY <1>t, <2>1
    <3> QED BY <2>2, <3>1, <3>2
  <2> QED BY <2>1, <2>2, <2>3, <2>4
<1>11. CASE TargetSettles
  BY <1>11 DEF TargetSettles, sets
<1>12. CASE Close
  <2>1. \A c \in Conns : socket'[c] # "open" /\ stream'[c] # "open"
    BY <1>0, <1>t, <1>12 DEF Close, DestroyAll, Destroy, Abort, Kept
  <2>2. \A c \in Conns : stream[c] # "none" => stream'[c] # "none"
    BY <1>t, <1>12 DEF Close, Abort
  <2> QED BY <1>12, <2>1, <2>2 DEF Close, sets
<1>13. CASE ServerClosed
  BY <1>13 DEF ServerClosed, sets
<1>14. CASE CloseReturns
  BY <1>14 DEF CloseReturns, sets
<1>15. CASE UNCHANGED vars
  BY <1>15 DEF vars, sets, shared
<1> QED
  BY Steps, <1>1, <1>2, <1>3, <1>4, <1>5, <1>6, <1>7, <1>8, <1>9, <1>10,
     <1>11, <1>12, <1>13, <1>14, <1>15

LEMMA InvAlways == Spec => [](Inv /\ EndInv)
<1>1. Init => Inv /\ EndInv
  BY InvInit, EndInit
<1>2. Inv /\ EndInv /\ [Next]_vars => (Inv /\ EndInv)'
  BY InvStep, EndStep
<1> QED BY <1>1, <1>2, PTL DEF Spec

(* A local client waits for no end that does not come: the socket of a     *)
(* session that is over was destroyed or ended both ways, and closes.      *)
SocketGoesOn ==
  \A c \in Conns : phase[c] = "over" => socket[c] # "open" \/ flow[c] = "ended"

THEOREM NobodyHoldsALocalClient == Spec => []SocketGoesOn
<1>1. EndInv => SocketGoesOn
  BY DEF EndInv, SocketGoesOn
<1> QED BY <1>1, InvAlways, PTL

(* The stream of a connection that has closed is closed with it: what the  *)
(* run shows of a live stream holds at once.                               *)
THEOREM StreamFollows == Spec => StreamFollowsSocket
<1>1. ASSUME NEW c \in Conns
      PROVE  Spec => (socket[c] = "closed" ~> stream[c] # "open")
  <2>1. Inv /\ EndInv => (socket[c] = "closed" => stream[c] # "open")
    BY DEF EndInv
  <2> QED BY <2>1, InvAlways, PTL
<1> QED BY <1>1 DEF StreamFollowsSocket

(* A close() that has begun is never stuck: a session, a socket, the       *)
(* server or close() itself can go on, or a bridge waits for the drain of  *)
(* a socket that is gone.                                                  *)
THEOREM NobodyHoldsClose == Spec => []CloseGoesOn
<1>1. Inv /\ EndInv => CloseGoesOn
  <2> SUFFICES ASSUME Inv, EndInv, closing = "begun", ~CanGo
               PROVE  \E c \in Conns : Stalled(c)
    BY DEF CloseGoesOn
  <2>t. TypeOK
    BY DEF Inv
  <2>1. server # "listening"
    BY DEF EndInv
  <2>2. \A c \in Conns : socket[c] \in {"none", "closed"}
    BY <2>1, <2>t DEF EndInv, CanGo, TypeOK
  <2>3. server = "closed"
    BY <2>1, <2>2, <2>t DEF CanGo, TypeOK
  <2>4. PICK c \in Conns : c \in sessions
    BY <2>3, <2>t DEF CanGo, SessionsSettled, TypeOK
  <2>5. phase[c] = "bridging"
    BY <2>4, <2>t DEF EndInv, CanGo, TypeOK
  <2>6. stream[c] = "closed"
    BY <2>1, <2>5, <2>t DEF EndInv, TypeOK
  <2>7. flow[c] = "full"
    BY <2>5, <2>6 DEF CanGo
  <2> QED BY <2>2, <2>5, <2>7 DEF Stalled
<1> QED BY <1>1, InvAlways, PTL

(* And it does not go on for ever: after close() no step gives a           *)
(* connection more to do, and each takes something from one of them or     *)
(* from what they share.                                                   *)
THEOREM CloseRunsOut == Spec => CloseComesNearer
<1>1. Inv /\ EndInv /\ [Next]_vars =>
        [closing # "no" =>
           /\ \A c \in Conns : Left(c)' <= Left(c)
           /\ SharedLeft' <= SharedLeft
           /\ SharedLeft' < SharedLeft \/ \E c \in Conns : Left(c)' < Left(c)]_vars
  <2> SUFFICES ASSUME Inv, EndInv, Next, closing # "no"
               PROVE  /\ \A c \in Conns : Left(c)' <= Left(c)
                      /\ SharedLeft' <= SharedLeft
                      /\ \/ SharedLeft' < SharedLeft
                         \/ \E c \in Conns : Left(c)' < Left(c)
    OBVIOUS
  <2>t. /\ phase \in [Conns -> Phase]
        /\ socket \in [Conns -> {"none", "open", "destroyed", "closed"}]
        /\ stream \in [Conns -> {"none", "open", "closed"}]
        /\ dialTarget \in {"unset", "pending", "found", "failed"}
        /\ server \in {"closing", "closed"} /\ closing \in {"begun", "returned"}
        /\ \A c \in Conns : socket[c] # "open" /\ stream[c] # "open"
    BY DEF Inv, TypeOK, EndInv
  <2>1. ASSUME NEW a \in Conns, NEW p, NEW s,
               phase' = [phase EXCEPT ![a] = p], socket' = [socket EXCEPT ![a] = s],
               ConnLeft(p, s) < ConnLeft(phase[a], socket[a]),
               UNCHANGED <<dialTarget, server, closing>>
        PROVE  /\ \A c \in Conns : Left(c)' <= Left(c)
               /\ SharedLeft' <= SharedLeft
               /\ \E c \in Conns : Left(c)' < Left(c)
    <3>1. \A c \in Conns : Left(c) \in Nat
      BY DEF Left, ConnLeft
    <3>2. \A c \in Conns : c # a => Left(c)' = Left(c)
      BY <2>t, <2>1 DEF Left
    <3>3. Left(a)' < Left(a)
      BY <2>t, <2>1 DEF Left
    <3>4. SharedLeft' = SharedLeft /\ SharedLeft \in Nat
      BY <2>1 DEF SharedLeft
    <3> HIDE DEF Left, SharedLeft
    <3>5. Left(a)' \in Nat
      BY DEF Left, ConnLeft
    <3> QED BY <3>1, <3>2, <3>3, <3>4, <3>5
  <2>2. ASSUME phase' = phase, socket' = socket, SharedLeft' < SharedLeft
        PROVE  (\A c \in Conns : Left(c)' <= Left(c)) /\ SharedLeft' <= SharedLeft
    <3>1. \A c \in Conns : Left(c)' = Left(c) /\ Left(c) \in Nat
      BY <2>2 DEF Left, ConnLeft
    <3>2. SharedLeft \in Nat /\ SharedLeft' \in Nat
      BY DEF SharedLeft
    <3> QED BY <2>2, <3>1, <3>2
  <2>3. ASSUME NEW a \in Conns, Runtime(a)
        PROVE  \E p, s : /\ phase' = [phase EXCEPT ![a] = p]
                         /\ socket' = [socket EXCEPT ![a] = s]
                         /\ ConnLeft(p, s) < ConnLeft(phase[a], socket[a])
                         /\ UNCHANGED <<dialTarget, server, closing>>
    <3>0. Destroy({a}) = socket /\ [socket EXCEPT ![a] = socket[a]] = socket
          /\ [phase EXCEPT ![a] = phase[a]] = phase
      BY <2>t DEF Destroy
    <3>1. CASE GetsTarget(a)
      <4>1. /\ phase[a] = "resolving" /\ socket' = socket
            /\ \E p \in {"dialling", "over"} : phase' = [phase EXCEPT ![a] = p]
            /\ UNCHANGED <<dialTarget, server, closing>>
        BY <3>0, <3>1 DEF GetsTarget, SessionFails, shared
      <4>2. \A p \in {"dialling", "over"} :
              ConnLeft(p, socket[a]) < ConnLeft("resolving", socket[a])
        BY DEF ConnLeft
      <4> QED BY <3>0, <4>1, <4>2
    <3>2. CASE DialFails(a) \/ DialDone(a)
      <4>1. /\ phase[a] = "dialling" /\ socket' = socket
            /\ phase' = [phase EXCEPT ![a] = "over"]
            /\ UNCHANGED <<dialTarget, server, closing>>
        BY <2>t, <3>0, <3>2 DEF DialFails, DialDone, SessionFails, SessionResolves, shared
      <4>2. ConnLeft("over", socket[a]) < ConnLeft("dialling", socket[a])
        BY DEF ConnLeft
      <4> QED BY <3>0, <4>1, <4>2
    <3>3. CASE BridgeFails(a)
      <4>1. /\ phase[a] = "bridging" /\ socket' = socket
            /\ phase' = [phase EXCEPT ![a] = "over"]
            /\ UNCHANGED <<dialTarget, server, closing>>
        BY <3>0, <3>3 DEF BridgeFails, SessionFails, shared
      <4>2. ConnLeft("over", socket[a]) < ConnLeft("bridging", socket[a])
        BY DEF ConnLeft
      <4> QED BY <3>0, <4>1, <4>2
    <3>4. CASE SocketClosed(a)
      <4>1. /\ socket[a] = "destroyed" /\ phase' = phase
            /\ socket' = [socket EXCEPT ![a] = "closed"]
            /\ UNCHANGED <<dialTarget, server, closing>>
        BY <2>t, <3>4 DEF SocketClosed, shared
      <4>2. ConnLeft(phase[a], "closed") < ConnLeft(phase[a], "destroyed")
        BY DEF ConnLeft
      <4> QED BY <3>0, <4>1, <4>2
    <3> QED BY <2>3, <3>1, <3>2, <3>3, <3>4 DEF Runtime
  <2>4. ASSUME NEW a \in Conns PROVE ~Peers(a)
    BY <2>t DEF Peers, Accept, InputEnds, OutputFills, OutputDrains, BridgeResolves,
       StreamAborted, SocketBreaks, Bridging
  <2>5. CASE TargetSettles \/ Closing
    <3>1. phase' = phase /\ socket' = socket
      BY <2>5 DEF TargetSettles, Closing, ServerClosed, CloseReturns
    <3>2. SharedLeft' < SharedLeft
      <4>1. CASE TargetSettles
        BY <4>1 DEF TargetSettles, SharedLeft
      <4>2. CASE ServerClosed
        BY <4>2 DEF ServerClosed, SharedLeft
      <4>3. CASE CloseReturns
        BY <4>3 DEF CloseReturns, SharedLeft
      <4> QED BY <2>5, <4>1, <4>2, <4>3 DEF Closing
    <3> QED BY <2>2, <3>1, <3>2
  <2>6. ~Close
    BY DEF Close
  <2>7. CASE \E a \in Conns : Runtime(a)
    <3>1. PICK a \in Conns : Runtime(a)
      BY <2>7
    <3> QED BY <2>1, <2>3, <3>1
  <2> QED BY <2>4, <2>5, <2>6, <2>7 DEF Next
<1> QED BY <1>1, InvAlways, PTL DEF Spec, CloseComesNearer
-----------------------------------------------------------------------------
(* Socks. *)

USE BoundsAssumption

LEMMA SocksSteps ==
  ASSUME [SocksNext]_socksVars
  PROVE  \/ \E n \in 1..Len(Script(request)) : ClientSends(n)
         \/ ClientStops \/ Drains \/ Pull \/ HandshakeCut \/ Read
         \/ Connected \/ NotConnected \/ RefusalSent \/ GrantSent
         \/ Forward \/ TargetSends \/ TargetEnds \/ TargetBreaks
         \/ BridgeEnds \/ TargetSpeaksToNobody
         \/ UNCHANGED socksVars
BY DEF SocksNext, Proxy, Others

(* The client's script is a sequence of cells. *)
LEMMA ScriptType ==
  ASSUME NEW r
  PROVE  Script(r) \in Seq(Nat)
<1>1. HeaderLength(r) \in {1, 4, 6}
  BY DEF HeaderLength
<1>2. ASSUME NEW i \in 1..(HeaderLength(r) + Payload)
      PROVE  (IF i <= HeaderLength(r) THEN 0 ELSE i - HeaderLength(r)) \in Nat
  BY <1>1
<1>3. HeaderLength(r) + Payload \in Nat
  BY <1>1
<1> QED
  BY <1>2, <1>3 DEF Script

LEMMA ReadsIs ==
  ASSUME NEW r \in Requests
  PROVE  /\ Reads(r) \in Seq(Nat)
         /\ Len(Reads(r)) \in 1..4
         /\ r \in {"v5", "v5noMethod", "v5refused", "v5malformed"} =>
              Len(Reads(r)) = 4
         /\ r \in {"v4", "v4refused"} => Len(Reads(r)) = 3
         /\ r = "other" => Len(Reads(r)) = 1
         /\ \A i \in 1..Len(Reads(r)) : Reads(r)[i] \in Nat
BY DEF Reads, Requests

LEMMA Parts ==
  ASSUME NEW s \in Seq(Nat), NEW m \in 1..(Len(s) + 1), NEW n \in 0..Len(s)
  PROVE  SubSeq(s, m, n) \in Seq(Nat)
OBVIOUS
-----------------------------------------------------------------------------
(* The history of the answers at each stage. *)
Negotiates == /\ at < Len(Reads(request)) /\ target = "none"
              /\ replies = IF at < 2 THEN << >> ELSE Method
              /\ \A i \in 1..at : ~Refused(i) /\ ~Rejected(i)

Connects == request \in {"v4", "v5"} /\ target = "none" /\ replies = Method

Refuses ==
  /\ target = "none"
  /\ replies \in {Method \o <<"refused">>, Method \o <<"failed">>}

Grants == /\ request \in {"v4", "v5"} /\ target = "open"
          /\ replies = Method \o <<"granted">>

Bridges == /\ request \in {"v4", "v5"} /\ target \in {"open", "ended"}
           /\ replies \in {Method \o <<"granted">>,
                           Method \o <<"granted", "data">>}

Stages ==
         /\ stage = "negotiating" => Negotiates
         /\ stage = "connecting" => Connects
         /\ stage = "refusing" => Refuses
         /\ stage = "granting" => Grants
         /\ stage = "bridging" => Bridges
         /\ stage \in Over \cup {"crashed"} => AnswersFit

StageInv == SocksTypeOK /\ Stages

LEMMA StageInit == SocksInit => StageInv
<1> SUFFICES ASSUME SocksInit PROVE StageInv
  OBVIOUS
<1>1. wire \in Seq(Seq(Nat)) /\ buffer \in Seq(Nat) /\ got \in Seq(Nat)
  BY DEF SocksInit
<1>5. /\ request \in Requests /\ sent \in Nat /\ clientEnd = "open"
      /\ at = 0 /\ stage = "negotiating" /\ target = "none"
  BY DEF SocksInit
<1>6. waiting \in BOOLEAN
  BY DEF SocksInit
<1>2. SocksTypeOK
  BY <1>1, <1>5, <1>6 DEF SocksTypeOK, Running
<1>3. Len(Reads(request)) \in 1..4
  BY ReadsIs DEF SocksInit
<1>4. Stages
  BY <1>3 DEF SocksInit, Stages, Negotiates, Over
<1> QED
  BY <1>2, <1>4 DEF StageInv

(* Each stage fits what a client may see. *)
LEMMA StageFits == StageInv => AnswersFit
BY DEF StageInv, SocksTypeOK, Stages, Running, Over, Negotiates, Connects, Refuses,
   Grants, Bridges, AnswersFit

LEMMA MethodIs ==
  /\ Method \in {<< >>, <<"method">>}
  /\ \A x \in {"refused", "failed", "granted"} :
       /\ Append(Method, x) = Method \o <<x>>
       /\ Append(Method \o <<x>>, "data") = Method \o <<x, "data">>
       /\ Last(Method \o <<x, "data">>) = "data"
BY DEF Method, Last
-----------------------------------------------------------------------------
(* A read() has its next cells, and there are at most four. *)
LEMMA ReadFits ==
  ASSUME StageInv, Read
  PROVE  Need \in Nat /\ Len(buffer) >= Need /\ at + 1 \in 0..4
<1>1. request \in Requests /\ at \in 0..4
  BY DEF StageInv, SocksTypeOK
<1>2. at < Len(Reads(request)) /\ Len(buffer) >= Need
  BY DEF StageInv, Read, Negotiating, Stages, Negotiates
<1>3. PICK n \in 1..4 : n = Len(Reads(request))
  BY <1>1, ReadsIs
<1>4. at + 1 \in 1..n /\ at + 1 \in 0..4
  BY <1>1, <1>2, <1>3
<1>5. Need \in Nat
  BY <1>1, <1>3, <1>4, ReadsIs DEF Need
<1> QED
  BY <1>2, <1>4, <1>5

LEMMA SocksTypeStep ==
  ASSUME StageInv, [SocksNext]_socksVars
  PROVE  SocksTypeOK'
<1>0. SocksTypeOK /\ Stages
  BY DEF StageInv
<1> USE DEF SocksTypeOK, Running, Over
<1>1. ASSUME NEW n \in 1..Len(Script(request)), ClientSends(n) PROVE SocksTypeOK'
  <2>1. sent + n \in Nat
    BY <1>0
  <2>2. SubSeq(Script(request), sent + 1, sent + n) \in Seq(Nat)
    BY <1>0, <1>1, ScriptType DEF ClientSends
  <2>3. wire' \in Seq(Seq(Nat))
    BY <1>0, <1>1, <2>2 DEF ClientSends
  <2> QED
    BY <1>0, <1>1, <2>1, <2>3 DEF ClientSends
<1>2. CASE ClientStops
  <2>1. wire \in Seq(Seq(Nat)) /\ << >> \in Seq(Seq(Nat))
    BY <1>0
  <2>3. wire' \in {wire, << >>}
    BY <1>2 DEF ClientStops
  <2>2. clientEnd' \in {"open", "ended", "left", "gone"}
    BY <1>0, <1>2 DEF ClientStops
  <2> QED
    BY <1>0, <1>2, <2>1, <2>2, <2>3 DEF ClientStops
<1>3. CASE Drains
  BY <1>0, <1>3 DEF Drains, client, input
<1>4. CASE Pull
  <2>1. Head(wire) \in Seq(Nat) /\ Tail(wire) \in Seq(Seq(Nat))
    BY <1>0, <1>4 DEF Pull
  <2>2. buffer' \in Seq(Nat) /\ wire' \in Seq(Seq(Nat))
    BY <1>0, <1>4, <2>1 DEF Pull, Combined
  <2> QED
    BY <1>0, <1>4, <2>2 DEF Pull, client
<1>5. CASE HandshakeCut
  BY <1>0, <1>5 DEF HandshakeCut, client, input
<1>6. CASE Read
  <2>1. Need \in Nat /\ Len(buffer) >= Need /\ at + 1 \in 0..4
    BY <1>6, ReadFits
  <2>2. buffer' \in Seq(Nat)
    BY <1>0, <1>6, <2>1 DEF Read
  <2>3. /\ stage' \in {stage, "failed", "refusing", "connecting"}
        /\ waiting' \in BOOLEAN
    BY <1>0, <1>6 DEF Read, Answer, Silent
  <2>4. at' = at + 1 /\ UNCHANGED <<client, wire, target, got>>
    BY <1>6 DEF Read
  <2> QED
    BY <1>0, <2>1, <2>2, <2>3, <2>4 DEF client
<1>7. CASE Connected
  BY <1>0, <1>7 DEF Connected, Answer, Silent, client, input
<1>8. CASE NotConnected
  BY <1>0, <1>8 DEF NotConnected, Fails, Answer, Silent, client, input
<1>9. CASE RefusalSent \/ GrantSent
  BY <1>0, <1>9 DEF RefusalSent, GrantSent, client, input
<1>10. CASE Forward
  <2>3. ASSUME buffer # << >>
        PROVE  /\ got' \in Seq(Nat) /\ buffer' \in Seq(Nat)
               /\ wire' \in Seq(Seq(Nat))
    <3>1. got \o buffer \in Seq(Nat) /\ << >> \in Seq(Nat)
      BY <1>0
    <3>2. got' = got \o buffer /\ buffer' = << >> /\ wire' = wire
      BY <1>10, <2>3 DEF Forward, Remaining
    <3>3. wire \in Seq(Seq(Nat))
      BY <1>0
    <3> QED
      BY <3>1, <3>2, <3>3
  <2>4. ASSUME wire # << >>, buffer = << >>
        PROVE  /\ got' \in Seq(Nat) /\ buffer' \in Seq(Nat)
               /\ wire' \in Seq(Seq(Nat))
    <3>1. Head(wire) \in Seq(Nat) /\ Tail(wire) \in Seq(Seq(Nat))
      BY <1>0, <2>4
    <3>2. got \o Head(wire) \in Seq(Nat)
      BY <1>0, <3>1
    <3>3. got' = got \o Head(wire) /\ wire' = Tail(wire) /\ buffer' = buffer
      BY <1>10, <2>4 DEF Forward
    <3>4. buffer \in Seq(Nat)
      BY <1>0
    <3> QED
      BY <3>1, <3>2, <3>3, <3>4
  <2>1. /\ got' \in Seq(Nat) /\ buffer' \in Seq(Nat)
        /\ wire' \in Seq(Seq(Nat))
    BY <1>10, <2>3, <2>4 DEF Forward
  <2>2. UNCHANGED <<client, at, stage, waiting, replies, target>>
    BY <1>10 DEF Forward
  <2> QED
    BY <1>0, <2>1, <2>2 DEF client
<1>11. CASE TargetSends \/ TargetEnds
  BY <1>0, <1>11 DEF TargetSends, TargetEnds, client, input
<1>12. CASE TargetBreaks \/ BridgeEnds \/ TargetSpeaksToNobody
  BY <1>0, <1>12 DEF TargetBreaks, BridgeEnds, TargetSpeaksToNobody,
     SocketDestroyed, client, input
<1>13. CASE UNCHANGED socksVars
  BY <1>0, <1>13 DEF socksVars, client, input
<1> QED
  BY SocksSteps, <1>1, <1>2, <1>3, <1>4, <1>5, <1>6, <1>7, <1>8, <1>9, <1>10,
     <1>11, <1>12, <1>13

LEMMA StageStep ==
  ASSUME StageInv, [SocksNext]_socksVars
  PROVE  StageInv'
<1>0. SocksTypeOK /\ SocksTypeOK' /\ Stages /\ AnswersFit
  BY SocksTypeStep, StageFits DEF StageInv
<1> SUFFICES Stages'
  BY <1>0 DEF StageInv
<1> USE <1>0 DEF Over
<1>a. ASSUME UNCHANGED <<request, at, stage, replies, target>> PROVE Stages'
  BY <1>a DEF Stages, Negotiates, Connects, Refuses, Grants, Bridges,
     AnswersFit, Method, Refused, Rejected
<1>b. ASSUME UNCHANGED <<request, replies>>, stage' \in Over \cup {"crashed"},
             target' = target \/ (target # "none" /\ target' # "none")
      PROVE  Stages'
  <2>1. Method' = Method
    BY <1>b DEF Method
  <2>2. AnswersFit'
    BY <1>b, <2>1 DEF AnswersFit
  <2> QED
    BY <1>b, <2>2 DEF Stages
<1>1. ASSUME NEW n \in 1..Len(Script(request)), ClientSends(n) PROVE Stages'
  BY <1>1, <1>a DEF ClientSends
<1>2. CASE ClientStops \/ Pull \/ Forward
  BY <1>2, <1>a DEF ClientStops, Pull, Forward, client
<1>3. CASE Drains
  BY <1>3, <1>a, <1>b DEF Drains, client, input
<1>4. CASE HandshakeCut
  BY <1>4, <1>b DEF HandshakeCut, client, input
<1>5. CASE Read
  <2>0. /\ stage = "negotiating" /\ Negotiates /\ UNCHANGED <<request, target>>
        /\ at' = at + 1 /\ at \in Nat /\ Method' = Method
    BY <1>5 DEF Read, Negotiating, Stages, client, Method, SocksTypeOK
  <2>1. CASE stage' = "failed" /\ Silent
    BY <1>b, <2>0, <2>1 DEF Silent
  <2>2. CASE Refused(at + 1) /\ stage' = "refusing" /\ Answer("refused")
    <3>1. replies = Method
      BY <2>0, <2>2 DEF Negotiates, Refused, Method
    <3>2. replies' = Method \o <<"refused">>
      BY <2>2, <3>1, MethodIs DEF Answer
    <3> QED
      BY <2>0, <2>2, <3>2 DEF Stages, Refuses, Negotiates
  <2>3. CASE Chosen(at + 1) /\ stage' = stage /\ Answer("method")
    <3>1. at = 1 /\ request \in {"v5", "v5refused", "v5malformed"}
      BY <2>0, <2>3 DEF Chosen
    <3>2. Len(Reads(request)) = 4
      BY <3>1, ReadsIs DEF Requests
    <3>3. replies' = <<"method">> /\ Method = <<"method">>
      BY <2>0, <2>3, <3>1 DEF Answer, Negotiates, Method
    <3>4. \A i \in 1..at' : (~Refused(i) /\ ~Rejected(i))'
      BY <2>0, <3>1 DEF Negotiates, Refused, Rejected
    <3> QED
      BY <2>0, <2>3, <3>1, <3>2, <3>3, <3>4 DEF Stages, Negotiates
  <2>4. CASE /\ ~Rejected(at + 1) /\ ~Refused(at + 1) /\ ~Chosen(at + 1)
             /\ stage' = IF at + 1 = Len(Reads(request)) THEN "connecting"
                                                         ELSE stage
             /\ Silent
    <3>1. replies' = replies
      BY <2>4 DEF Silent
    <3>2. CASE at + 1 = Len(Reads(request))
      <4>1. request \in {"v4", "v5"} /\ at >= 2
        <5>1. request \in Requests /\ at \in 0..4
          BY <1>0 DEF SocksTypeOK
        <5>2. request # "other"
          BY <2>4 DEF Rejected
        <5>3. CASE request \in {"v4", "v4refused"}
          <6>0. Len(Reads(request)) = 3
            BY <5>1, <5>3, ReadsIs
          <6>1. at = 2
            BY <3>2, <5>1, <6>0
          <6>2. ~Refused(2)
            BY <2>0, <6>1 DEF Negotiates
          <6> QED
            BY <5>3, <6>1, <6>2 DEF Refused
        <5>4. CASE request \in {"v5", "v5noMethod", "v5refused", "v5malformed"}
          <6>0. Len(Reads(request)) = 4
            BY <5>1, <5>4, ReadsIs
          <6>1. at = 3
            BY <3>2, <5>1, <6>0
          <6>2. ~Refused(2) /\ ~Refused(3) /\ ~Rejected(3)
            BY <2>0, <6>1 DEF Negotiates
          <6> QED
            BY <5>4, <6>1, <6>2 DEF Refused, Rejected
        <5> QED
          BY <5>1, <5>2, <5>3, <5>4 DEF Requests
      <4> QED
        BY <2>0, <2>4, <3>1, <3>2, <4>1 DEF Stages, Connects, Negotiates
    <3>3. CASE at + 1 # Len(Reads(request))
      <4>1. at + 1 < Len(Reads(request))
        BY <2>0, <3>3, ReadsIs DEF Negotiates, SocksTypeOK
      <4>2. at + 1 = 2 => Method = << >>
        BY <2>4 DEF Chosen, Method
      <4>3. \A i \in 1..at' : ~Refused(i) /\ ~Rejected(i)
        BY <2>0, <2>4 DEF Negotiates
      <4>4. \A i \in 1..at' : (~Refused(i) /\ ~Rejected(i))'
        BY <2>0, <4>3 DEF Refused, Rejected
      <4> QED
        BY <2>0, <2>4, <3>1, <3>3, <4>1, <4>2, <4>4 DEF Stages, Negotiates
    <3> QED
      BY <3>2, <3>3
  <2> QED
    BY <1>5, <2>1, <2>2, <2>3, <2>4 DEF Read
<1>6. CASE Connected
  <2>0. Connects /\ Method' = Method /\ UNCHANGED request
    BY <1>6 DEF Connected, Stages, client, Method
  <2>1. CASE Writable
    <3>1. replies' = Method \o <<"granted">>
      BY <1>6, <2>0, <2>1, MethodIs DEF Connected, Answer, Connects
    <3> QED
      BY <1>6, <2>0, <2>1, <3>1 DEF Connected, Stages, Grants, Connects
  <2>2. CASE ~Writable
    <3>1. AnswersFit'
      BY <1>6, <2>0, <2>2 DEF Connected, Silent, Connects, AnswersFit
    <3> QED
      BY <1>6, <2>2, <3>1 DEF Connected, Stages
  <2> QED
    BY <2>1, <2>2
<1>7. CASE NotConnected
  <2>0. Connects /\ Method' = Method /\ UNCHANGED <<request, target>>
    BY <1>7 DEF NotConnected, Stages, client, Method
  <2>1. CASE Writable
    <3>1. replies' = Method \o <<"failed">>
      BY <1>7, <2>0, <2>1, MethodIs DEF NotConnected, Fails, Answer, Connects
    <3> QED
      BY <1>7, <2>0, <2>1, <3>1 DEF NotConnected, Fails, Stages, Refuses, Connects
  <2>2. CASE ~Writable
    BY <1>7, <1>b, <2>0, <2>2 DEF NotConnected, Fails, Silent
  <2> QED
    BY <2>1, <2>2
<1>8. CASE RefusalSent
  BY <1>8, <1>b DEF RefusalSent, client, input
<1>9. CASE GrantSent
  <2>1. Grants /\ UNCHANGED <<request, replies, target>> /\ Method' = Method
    BY <1>9 DEF GrantSent, Stages, client, Method
  <2> QED
    BY <1>9, <2>1 DEF GrantSent, Stages, Grants, Bridges
<1>10. CASE TargetSends
  <2>0. Bridges /\ Method' = Method /\ UNCHANGED <<request, stage, target>>
    BY <1>10 DEF TargetSends, Stages, client, Method
  <2>1. replies = Method \o <<"granted">>
    BY <1>10, <2>0, MethodIs DEF TargetSends, Bridges
  <2>2. replies' = Method \o <<"granted", "data">>
    BY <1>10, <2>1, MethodIs DEF TargetSends
  <2> QED
    BY <1>10, <2>0, <2>2 DEF TargetSends, Stages, Bridges
<1>11. CASE TargetEnds
  <2>0. Bridges /\ Method' = Method
        /\ UNCHANGED <<request, stage, replies>> /\ target' = "ended"
    BY <1>11 DEF TargetEnds, Stages, client, Method
  <2> QED
    BY <1>11, <2>0 DEF TargetEnds, Stages, Bridges
<1>12. CASE TargetBreaks \/ BridgeEnds \/ TargetSpeaksToNobody
  BY <1>12, <1>b DEF TargetBreaks, BridgeEnds, TargetSpeaksToNobody,
     SocketDestroyed, Stages, Bridges, client, input
<1>13. CASE UNCHANGED socksVars
  BY <1>13, <1>a DEF socksVars, client, input
<1> QED
  BY SocksSteps, <1>1, <1>2, <1>3, <1>4, <1>5, <1>6, <1>7, <1>8, <1>9, <1>10,
     <1>11, <1>12, <1>13

LEMMA StageAlways == SocksSpec => []StageInv
BY StageInit, StageStep, PTL DEF SocksSpec
-----------------------------------------------------------------------------
(* The payload.  Cells(s, r, a): s is what the script of r has behind its  *)
(* first a cells.  Chunks(w, r, a, b): the chunks w are what it has behind *)
(* a up to b, cut somehow.                                                 *)
Cells(s, r, a) == \A j \in 1..Len(s) : s[j] = Script(r)[a + j]

Chunks(w, r, a, b) ==
  \E off \in [0..Len(w) -> Nat] :
    /\ off[0] = a /\ off[Len(w)] = b
    /\ \A i \in 0..Len(w) : off[i] <= b
    /\ \A i \in 1..Len(w) : /\ off[i] = off[i - 1] + Len(w[i])
                            /\ Cells(w[i], r, off[i - 1])

LEMMA ChunksBound ==
  ASSUME NEW w \in Seq(Seq(Nat)), NEW r, NEW a, NEW b, Chunks(w, r, a, b)
  PROVE  a <= b /\ (w = << >> => a = b)
BY DEF Chunks

LEMMA ChunksEmpty ==
  ASSUME NEW r, NEW a \in Nat
  PROVE  Chunks(<< >>, r, a, a)
<1> DEFINE off == [i \in 0..0 |-> a]
<1>1. off \in [0..0 -> Nat] /\ off[0] = a /\ Len(<< >>) = 0
  OBVIOUS
<1>2. \A i \in 0..0 : off[i] <= a
  OBVIOUS
<1> HIDE DEF off
<1> QED BY <1>1, <1>2 DEF Chunks

LEMMA ChunksAppend ==
  ASSUME NEW w \in Seq(Seq(Nat)), NEW s \in Seq(Nat), NEW r,
         NEW a \in Nat, NEW b \in Nat, Chunks(w, r, a, b), Cells(s, r, b)
  PROVE  Chunks(Append(w, s), r, a, b + Len(s))
<1> DEFINE n == Len(w)
           v == Append(w, s)
<1>1. PICK off \in [0..n -> Nat] :
        /\ off[0] = a /\ off[n] = b
        /\ \A i \in 0..n : off[i] <= b
        /\ \A i \in 1..n : /\ off[i] = off[i - 1] + Len(w[i])
                           /\ Cells(w[i], r, off[i - 1])
  BY DEF Chunks
<1> DEFINE to == [i \in 0..n + 1 |-> IF i = n + 1 THEN b + Len(s) ELSE off[i]]
<1>2. /\ n \in Nat /\ Len(s) \in Nat /\ Len(v) = n + 1
      /\ v[n + 1] = s /\ \A i \in 1..n : v[i] = w[i]
  OBVIOUS
<1> HIDE DEF n, v
<1>3. to \in [0..n + 1 -> Nat] /\ to[n + 1] = b + Len(s)
      /\ \A i \in 0..n : to[i] = off[i]
  BY <1>2
<1>4. \A i \in 0..n + 1 : to[i] <= b + Len(s)
  BY <1>1, <1>2, <1>3
<1>5. ASSUME NEW i \in 1..n + 1
      PROVE  to[i] = to[i - 1] + Len(v[i]) /\ Cells(v[i], r, to[i - 1])
  <2>1. CASE i \in 1..n
    <3>1. to[i] = off[i] /\ to[i - 1] = off[i - 1] /\ v[i] = w[i]
      BY <1>2, <1>3, <2>1
    <3> QED BY <1>1, <2>1, <3>1
  <2>2. CASE i = n + 1
    <3>1. to[i] = b + Len(s) /\ to[i - 1] = b /\ v[i] = s
      BY <1>1, <1>2, <1>3, <2>2
    <3> QED BY <3>1
  <2> QED BY <1>2, <2>1, <2>2
<1>6. to[0] = a
  BY <1>1, <1>2, <1>3
<1> HIDE DEF to
<1>7. Chunks(v, r, a, b + Len(s))
  BY <1>2, <1>3, <1>4, <1>5, <1>6 DEF Chunks
<1> QED BY <1>7 DEF v

LEMMA ChunksTail ==
  ASSUME NEW w \in Seq(Seq(Nat)), w # << >>, NEW r,
         NEW a \in Nat, NEW b \in Nat, Chunks(w, r, a, b)
  PROVE  /\ Cells(Head(w), r, a)
         /\ Chunks(Tail(w), r, a + Len(Head(w)), b)
<1> DEFINE n == Len(w)
           v == Tail(w)
<1>1. PICK off \in [0..n -> Nat] :
        /\ off[0] = a /\ off[n] = b
        /\ \A i \in 0..n : off[i] <= b
        /\ \A i \in 1..n : /\ off[i] = off[i - 1] + Len(w[i])
                           /\ Cells(w[i], r, off[i - 1])
  BY DEF Chunks
<1> DEFINE to == [i \in 0..n - 1 |-> off[i + 1]]
<1>2. /\ n \in Nat /\ n >= 1 /\ Len(v) = n - 1 /\ Head(w) = w[1]
      /\ \A i \in 1..n - 1 : v[i] = w[i + 1]
  OBVIOUS
<1> HIDE DEF n, v
<1>3. /\ to \in [0..n - 1 -> Nat]
      /\ \A i \in 0..n - 1 : to[i] = off[i + 1]
  BY <1>2
<1> HIDE DEF to
<1>4. Cells(w[1], r, a) /\ to[0] = a + Len(w[1])
  BY <1>1, <1>2, <1>3
<1>5. to[n - 1] = b /\ \A i \in 0..n - 1 : to[i] <= b
  BY <1>1, <1>2, <1>3
<1>6. ASSUME NEW i \in 1..n - 1
      PROVE  to[i] = to[i - 1] + Len(v[i]) /\ Cells(v[i], r, to[i - 1])
  <2>1. /\ to[i] = off[i + 1] /\ to[i - 1] = off[i] /\ v[i] = w[i + 1]
        /\ i + 1 \in 1..n /\ (i + 1) - 1 = i
    BY <1>2, <1>3
  <2> QED BY <1>1, <2>1
<1>7. Chunks(v, r, a + Len(w[1]), b)
  BY <1>2, <1>3, <1>4, <1>5, <1>6 DEF Chunks
<1> QED BY <1>2, <1>4, <1>7 DEF v

LEMMA CellsJoin ==
  ASSUME NEW s \in Seq(Nat), NEW t \in Seq(Nat), NEW r, NEW a \in Nat,
         Cells(s, r, a), Cells(t, r, a + Len(s))
  PROVE  Cells(s \o t, r, a) /\ Len(s \o t) = Len(s) + Len(t)
<1> DEFINE u == s \o t
<1>1. /\ Len(u) = Len(s) + Len(t) /\ Len(s) \in Nat /\ Len(t) \in Nat
      /\ \A j \in 1..Len(s) : u[j] = s[j]
      /\ \A j \in Len(s) + 1..Len(s) + Len(t) : u[j] = t[j - Len(s)]
  OBVIOUS
<1> HIDE DEF u
<1>2. ASSUME NEW j \in 1..Len(u) PROVE u[j] = Script(r)[a + j]
  <2>1. CASE j \in 1..Len(s)
    BY <1>1, <2>1 DEF Cells
  <2>2. CASE j \in Len(s) + 1..Len(s) + Len(t)
    <3>1. j - Len(s) \in 1..Len(t) /\ (a + Len(s)) + (j - Len(s)) = a + j
      BY <1>1, <2>2
    <3> QED BY <1>1, <2>2, <3>1 DEF Cells
  <2> QED BY <1>1, <2>1, <2>2
<1>3. Cells(u, r, a)
  BY <1>2 DEF Cells
<1> QED BY <1>1, <1>3 DEF u

LEMMA SubSeqFrom ==
  ASSUME NEW s \in Seq(Nat), NEW m \in Nat, NEW n \in Nat, m + n <= Len(s)
  PROVE  /\ SubSeq(s, m + 1, m + n) \in Seq(Nat)
         /\ Len(SubSeq(s, m + 1, m + n)) = n
         /\ \A j \in 1..n : SubSeq(s, m + 1, m + n)[j] = s[m + j]
OBVIOUS

LEMMA CellsCut ==
  ASSUME NEW s \in Seq(Nat), NEW r, NEW a \in Nat, NEW n \in 0..Len(s),
         Cells(s, r, a)
  PROVE  /\ Cells(SubSeq(s, n + 1, Len(s)), r, a + n)
         /\ Len(SubSeq(s, n + 1, Len(s))) = Len(s) - n
<1> DEFINE u == SubSeq(s, n + 1, Len(s))
<1>1. Len(u) = Len(s) - n /\ \A j \in 1..Len(s) - n : u[j] = s[n + j]
  OBVIOUS
<1> HIDE DEF u
<1>2. ASSUME NEW j \in 1..Len(u) PROVE u[j] = Script(r)[(a + n) + j]
  <2>1. n + j \in 1..Len(s) /\ a + (n + j) = (a + n) + j
    BY <1>1
  <2> QED BY <1>1, <2>1 DEF Cells
<1> QED BY <1>1, <1>2 DEF Cells, u

LEMMA ScriptIs ==
  ASSUME NEW r
  PROVE  /\ HeaderLength(r) \in {1, 4, 6}
         /\ Len(Script(r)) = HeaderLength(r) + Payload
         /\ \A j \in 1..Payload : Script(r)[HeaderLength(r) + j] = j
<1>1. HeaderLength(r) \in {1, 4, 6}
  BY DEF HeaderLength
<1>2. HeaderLength(r) + Payload \in Nat
  BY <1>1
<1> QED BY <1>1, <1>2 DEF Script
-----------------------------------------------------------------------------
(* The cells the first n reads of a negotiation take. *)
Passed(n) == CASE n = 0 -> 0 [] n = 1 -> 1 [] n = 2 -> 3 [] n = 3 -> 4
               [] OTHER -> 6

LEMMA PassedIs ==
  ASSUME NEW r \in Requests, NEW n \in 0..4
  PROVE  /\ Passed(n) \in Nat
         /\ n < Len(Reads(r)) => Passed(n + 1) = Passed(n) + Reads(r)[n + 1]
         /\ n = Len(Reads(r)) => Passed(n) = HeaderLength(r)
<1>1. PICK m \in {1, 3, 4} :
        /\ m = Len(Reads(r)) /\ Reads(r)[1] = 1
        /\ m >= 3 => Reads(r)[2] = 2 /\ Reads(r)[3] = 1
        /\ m = 4 => Reads(r)[4] = 2
  BY DEF Reads, Requests
<1>2. HeaderLength(r) = CASE m = 4 -> 6 [] m = 3 -> 4 [] OTHER -> 1
  BY <1>1 DEF HeaderLength
<1>3. Passed(0) = 0 /\ Passed(1) = 1 /\ Passed(2) = 3 /\ Passed(3) = 4
      /\ Passed(4) = 6
  BY DEF Passed
<1>4. Passed(n) \in Nat
  BY <1>3
<1>5. ASSUME n < m PROVE Passed(n + 1) = Passed(n) + Reads(r)[n + 1]
  <2>1. n \in 0..3
    BY <1>5
  <2> QED BY <1>1, <1>3, <1>5, <2>1
<1>6. ASSUME n = m PROVE Passed(n) = HeaderLength(r)
  BY <1>2, <1>3, <1>6
<1> QED BY <1>1, <1>4, <1>5, <1>6

(* What was taken by reads of the negotiation or written to the target is  *)
(* the beginning of the script, what is buffered comes next, then the      *)
(* chunks of the stream, up to what was sent.                              *)
Delivered == Passed(at) + Len(got)

Gapless ==
  /\ Cells(buffer, request, Delivered)
  /\ \E b \in 0..sent :
       /\ Chunks(wire, request, Delivered + Len(buffer), b)
       /\ b = sent \/ clientEnd = "gone"

Progress ==
  /\ sent <= HeaderLength(request) + Payload
  /\ \A j \in 1..Len(got) : got[j] = j
  /\ stage \in {"negotiating", "connecting", "refusing", "granting"} =>
       got = << >>
  /\ stage = "resolved" => clientEnd # "open"
  /\ stage \in {"connecting", "granting", "bridging", "resolved"}
     \/ got # << >> => Passed(at) = HeaderLength(request)
  /\ stage = "resolved" => Len(got) + HeaderLength(request) = sent

PayloadInv == StageInv /\ Gapless /\ Progress

LEMMA PayloadTypes ==
  ASSUME PayloadInv
  PROVE  /\ request \in Requests /\ sent \in Nat /\ at \in 0..4
         /\ wire \in Seq(Seq(Nat)) /\ buffer \in Seq(Nat) /\ got \in Seq(Nat)
         /\ Passed(at) \in Nat /\ Delivered \in Nat
         /\ Delivered + Len(buffer) <= sent
<1>1. /\ request \in Requests /\ sent \in Nat /\ at \in 0..4
      /\ wire \in Seq(Seq(Nat)) /\ buffer \in Seq(Nat) /\ got \in Seq(Nat)
  BY DEF PayloadInv, StageInv, SocksTypeOK
<1>2. Passed(at) \in Nat
  BY <1>1, PassedIs
<1>3. Delivered \in Nat
  BY <1>1, <1>2 DEF Delivered
<1>4. PICK b \in 0..sent : Chunks(wire, request, Delivered + Len(buffer), b)
  BY DEF PayloadInv, Gapless
<1>5. Delivered + Len(buffer) <= b
  BY <1>1, <1>4, ChunksBound
<1>6. Delivered + Len(buffer) <= sent
  BY <1>1, <1>3, <1>4, <1>5
<1> QED BY <1>1, <1>2, <1>3, <1>6

LEMMA PayloadFits == PayloadInv => PayloadIsWhole
<1> SUFFICES ASSUME PayloadInv PROVE PayloadIsWhole
  OBVIOUS
<1> DEFINE all == [i \in 1..Payload |-> i]
           h == HeaderLength(request)
<1>1. /\ sent \in Nat /\ got \in Seq(Nat) /\ buffer \in Seq(Nat)
      /\ Delivered \in Nat /\ Delivered + Len(buffer) <= sent
  BY PayloadTypes
<1>2. h \in Nat
  BY ScriptIs
<1>3. Len(got) <= Payload
  <2>1. CASE got = << >>
    BY <2>1
  <2>2. CASE got # << >>
    <3>1. Passed(at) = h /\ sent <= h + Payload
      BY <2>2 DEF PayloadInv, Progress
    <3> QED BY <1>1, <1>2, <3>1 DEF Delivered
  <2> QED BY <2>1, <2>2
<1>4. all \in Seq(Nat) /\ Len(all) = Payload
      /\ \A i \in 1..Payload : all[i] = i
  OBVIOUS
<1>5. SubSeq(got, 1, Len(got)) = SubSeq(all, 1, Len(got))
  <2>1. \A j \in 1..Len(got) : got[j] = j
    BY DEF PayloadInv, Progress
  <2> HIDE DEF all
  <2>2. \A j \in 1..Len(got) : got[j] = all[j]
    BY <1>1, <1>3, <1>4, <2>1
  <2> QED BY <1>1, <1>3, <1>4, <2>2
<1>6. stage = "resolved" => Len(got) = sent - h
  BY <1>1, <1>2 DEF PayloadInv, Progress
<1> QED BY <1>3, <1>4, <1>5, <1>6 DEF PayloadIsWhole, IsPrefix
-----------------------------------------------------------------------------
LEMMA PayloadInit == SocksInit => PayloadInv
<1> SUFFICES ASSUME SocksInit PROVE PayloadInv
  OBVIOUS
<1>1. StageInv
  BY StageInit
<1>2. /\ at = 0 /\ got = << >> /\ buffer = << >> /\ wire = << >> /\ sent = 0
      /\ stage = "negotiating" /\ Passed(0) = 0
  BY DEF SocksInit, Passed
<1>3. Delivered = 0 /\ Delivered + Len(buffer) = 0
  BY <1>2 DEF Delivered
<1>4. Chunks(wire, request, 0, 0) /\ Cells(buffer, request, 0)
  BY <1>2, ChunksEmpty DEF Cells
<1>5. Gapless
  BY <1>2, <1>3, <1>4 DEF Gapless
<1>6. Progress
  BY <1>2, ScriptIs DEF Progress
<1> QED BY <1>1, <1>5, <1>6 DEF PayloadInv

(* Steps that move no cell. *)
LEMMA NoCellMoves ==
  ASSUME PayloadInv, UNCHANGED <<request, sent, wire, buffer, at, got>>,
         clientEnd' = clientEnd \/ clientEnd' # "open",
         clientEnd = "gone" => clientEnd' = "gone"
  PROVE  Gapless'
BY DEF PayloadInv, Gapless, Delivered

LEMMA PayloadStep ==
  ASSUME PayloadInv, [SocksNext]_socksVars
  PROVE  PayloadInv'
<1>0. StageInv /\ StageInv' /\ Gapless /\ Progress /\ Negotiating \in BOOLEAN
  BY StageStep DEF PayloadInv, Negotiating
<1>t. /\ request \in Requests /\ sent \in Nat /\ at \in 0..4
      /\ wire \in Seq(Seq(Nat)) /\ buffer \in Seq(Nat) /\ got \in Seq(Nat)
      /\ Passed(at) \in Nat /\ Delivered \in Nat
      /\ Delivered + Len(buffer) <= sent
  BY PayloadTypes
<1>b. PICK b \in 0..sent :
        /\ Chunks(wire, request, Delivered + Len(buffer), b)
        /\ b = sent \/ clientEnd = "gone"
  BY <1>0 DEF Gapless
<1>c. Cells(buffer, request, Delivered)
  BY <1>0 DEF Gapless
<1> SUFFICES Gapless' /\ Progress'
  BY <1>0 DEF PayloadInv
(* A step that leaves the cells, and the progress, where they are. *)
<1>a. ASSUME UNCHANGED <<request, sent, wire, buffer, at, got>>,
             clientEnd' = clientEnd \/ clientEnd' # "open",
             clientEnd = "gone" => clientEnd' = "gone",
             \/ stage' \in {stage, "failed", "crashed"}
             \/ stage = "connecting" /\ stage' \in {"granting", "refusing"}
             \/ stage = "granting" /\ stage' = "bridging"
      PROVE  Gapless' /\ Progress'
  BY <1>0, <1>a, NoCellMoves DEF Progress
<1>1. ASSUME NEW n \in 1..Len(Script(request)), ClientSends(n)
      PROVE  Gapless' /\ Progress'
  <2>1. /\ clientEnd = "open" /\ sent + n <= Len(Script(request))
        /\ sent' = sent + n
        /\ wire' = Append(wire, SubSeq(Script(request), sent + 1, sent + n))
        /\ UNCHANGED <<request, clientEnd, buffer, at, stage, got>>
    BY <1>1 DEF ClientSends
  <2>2. Len(Script(request)) = HeaderLength(request) + Payload
        /\ HeaderLength(request) \in Nat
    BY ScriptIs
  <2> DEFINE s == SubSeq(Script(request), sent + 1, sent + n)
  <2>3. /\ s \in Seq(Nat) /\ Len(s) = n
        /\ \A j \in 1..n : s[j] = Script(request)[sent + j]
    <3>1. Script(request) \in Seq(Nat) /\ sent + n <= Len(Script(request))
          /\ sent \in Nat /\ n \in Nat
      BY <1>t, <2>1, ScriptType
    <3> QED BY <3>1, SubSeqFrom
  <2>4. Cells(s, request, sent)
    BY <2>3 DEF Cells
  <2>5. b = sent
    BY <1>b, <2>1
  <2> HIDE DEF s
  <2>6. Delivered + Len(buffer) \in Nat
    BY <1>t
  <2>7. Chunks(Append(wire, s), request, Delivered + Len(buffer), sent + n)
    BY <1>t, <1>b, <2>3, <2>4, <2>5, <2>6, ChunksAppend
  <2>8. Delivered' = Delivered
    BY <2>1 DEF Delivered
  <2>9. Gapless'
    BY <1>t, <1>c, <2>1, <2>7, <2>8 DEF Gapless, s
  <2>10. Progress'
    <3>1. stage # "resolved"
      BY <1>0, <2>1 DEF Progress
    <3> QED BY <1>0, <2>1, <2>2, <3>1 DEF Progress
  <2> QED BY <2>9, <2>10
<1>2. CASE ClientStops
  <2>1. /\ UNCHANGED <<request, sent, buffer, at, stage, got>>
        /\ clientEnd' # "open" /\ (clientEnd = "gone" => clientEnd' = "gone")
    BY <1>2 DEF ClientStops
  <2>2. CASE wire' = wire
    BY <1>a, <2>1, <2>2
  <2>3. CASE wire' = << >> /\ clientEnd' = "gone"
    <3>1. Delivered' = Delivered
      BY <2>1 DEF Delivered
    <3>2. Chunks(wire', request, Delivered + Len(buffer),
                 Delivered + Len(buffer))
      BY <1>t, <2>3, ChunksEmpty
    <3>3. Delivered + Len(buffer) \in 0..sent
      BY <1>t
    <3>4. Gapless'
      BY <1>c, <2>1, <2>3, <3>1, <3>2, <3>3 DEF Gapless
    <3>5. Progress'
      BY <1>0, <2>1 DEF Progress
    <3> QED BY <3>4, <3>5
  <2> QED BY <1>2, <2>2, <2>3 DEF ClientStops
<1>3. CASE Pull
  <2>1. /\ wire # << >> /\ stage = "negotiating"
        /\ buffer' = buffer \o Head(wire) /\ wire' = Tail(wire)
        /\ UNCHANGED <<request, sent, clientEnd, at, stage, got>>
    BY <1>3 DEF Pull, Combined, Negotiating, client
  <2>2. /\ Cells(Head(wire), request, Delivered + Len(buffer))
        /\ Chunks(Tail(wire), request,
                  Delivered + Len(buffer) + Len(Head(wire)), b)
    <3> DEFINE a == Delivered + Len(buffer)
    <3>1. a \in Nat /\ b \in Nat /\ Chunks(wire, request, a, b)
      BY <1>t, <1>b
    <3> HIDE DEF a
    <3>2. /\ Cells(Head(wire), request, a)
          /\ Chunks(Tail(wire), request, a + Len(Head(wire)), b)
      BY <1>t, <2>1, <3>1, ChunksTail
    <3> QED BY <3>2 DEF a
  <2>3. Head(wire) \in Seq(Nat)
    BY <1>t, <2>1
  <2>4. /\ Cells(buffer', request, Delivered)
        /\ Len(buffer') = Len(buffer) + Len(Head(wire))
    BY <1>t, <1>c, <2>1, <2>2, <2>3, CellsJoin
  <2>5. Delivered' = Delivered
        /\ Delivered + Len(buffer') = Delivered + Len(buffer) + Len(Head(wire))
    BY <1>t, <2>1, <2>3, <2>4 DEF Delivered
  <2>6. Gapless'
    BY <1>b, <2>1, <2>2, <2>4, <2>5 DEF Gapless
  <2>7. Progress'
    BY <1>0, <2>1 DEF Progress
  <2> QED BY <2>6, <2>7
<1>4. CASE Read
  <2>1. /\ stage = "negotiating" /\ Len(buffer) >= Need
        /\ at' = at + 1 /\ buffer' = SubSeq(buffer, Need + 1, Len(buffer))
        /\ UNCHANGED <<request, sent, clientEnd, wire, got>>
    BY <1>4 DEF Read, Negotiating, client
  <2>2. /\ at < Len(Reads(request)) /\ Need \in 0..Len(buffer)
    BY <1>0, <1>4, <2>1, <1>t, ReadFits DEF StageInv, Stages, Negotiates
  <2>3. Passed(at + 1) = Passed(at) + Need
    BY <1>t, <2>2, PassedIs DEF Need
  <2>4. got = << >> /\ Len(got) = 0
    BY <1>0, <2>1 DEF Progress
  <2>5. Delivered' = Delivered + Need
    BY <1>t, <2>1, <2>2, <2>3, <2>4 DEF Delivered
  <2>6. /\ Cells(buffer', request, Delivered + Need)
        /\ Len(buffer') = Len(buffer) - Need
    BY <1>t, <1>c, <2>1, <2>2, CellsCut
  <2>7. (Delivered + Need) + Len(buffer') = Delivered + Len(buffer)
    BY <1>t, <2>2, <2>6
  <2>8. Gapless'
    BY <1>b, <2>1, <2>5, <2>6, <2>7 DEF Gapless
  <2>9. Progress'
    <3>1. \/ stage' \in {"failed", "refusing", "negotiating"}
          \/ stage' = "connecting" /\ at + 1 = Len(Reads(request))
      BY <1>4, <2>1 DEF Read
    <3>2. at + 1 = Len(Reads(request)) => Passed(at + 1) = HeaderLength(request)
      <4>1. at + 1 \in 0..4
        BY <1>0, <1>4, ReadFits
      <4> QED BY <1>t, <4>1, PassedIs
    <3> QED BY <1>0, <2>1, <2>4, <3>1, <3>2 DEF Progress
  <2> QED BY <2>8, <2>9
<1>5. CASE Forward
  <2>1. /\ stage = "bridging" /\ UNCHANGED <<request, sent, clientEnd, at, stage>>
        /\ Passed(at) = HeaderLength(request)
    BY <1>0, <1>5 DEF Forward, client, Progress
  <2>h. HeaderLength(request) \in Nat
        /\ \A j \in 1..Payload : Script(request)[HeaderLength(request) + j] = j
    BY ScriptIs
  (* What is written next to the target is the next of the payload. *)
  <2>2. ASSUME NEW s \in Seq(Nat), Cells(s, request, Delivered),
               Delivered + Len(s) <= sent, got' = got \o s
        PROVE  Delivered' = Delivered + Len(s) /\ Progress'
    <3>1. /\ Len(got') = Len(got) + Len(s)
          /\ \A j \in 1..Len(got) : got'[j] = got[j]
          /\ \A j \in Len(got) + 1..Len(got) + Len(s) : got'[j] = s[j - Len(got)]
      BY <1>t, <2>2
    <3>2. Delivered' = Delivered + Len(s)
      BY <1>t, <2>1, <2>2, <3>1 DEF Delivered
    <3>3. ASSUME NEW j \in Len(got) + 1..Len(got) + Len(s) PROVE got'[j] = j
      <4>1. /\ j - Len(got) \in 1..Len(s)
            /\ Delivered + (j - Len(got)) = HeaderLength(request) + j
        BY <1>t, <2>1, <2>2, <2>h DEF Delivered
      <4>2. j \in 1..Payload
        BY <1>0, <1>t, <2>1, <2>2, <2>h DEF Delivered, Progress
      <4> QED BY <2>2, <2>h, <3>1, <4>1, <4>2 DEF Cells
    <3>4. \A j \in 1..Len(got') : got'[j] = j
      BY <1>0, <1>t, <2>2, <3>1, <3>3 DEF Progress
    <3> QED BY <1>0, <2>1, <3>2, <3>4 DEF Progress
  <2>3. CASE buffer # << >>
    <3>1. got' = got \o buffer /\ buffer' = << >> /\ wire' = wire
      BY <1>5, <2>3 DEF Forward, Remaining
    <3>2. Delivered' = Delivered + Len(buffer) /\ Progress'
      BY <1>t, <1>c, <2>2, <3>1
    <3>3. Delivered' + Len(buffer') = Delivered + Len(buffer)
      BY <1>t, <3>1, <3>2
    <3>4. Gapless'
      BY <1>b, <2>1, <3>1, <3>3 DEF Gapless, Cells
    <3> QED BY <3>2, <3>4
  <2>4. CASE buffer = << >>
    <3>1. wire # << >> /\ got' = got \o Head(wire) /\ wire' = Tail(wire)
          /\ buffer' = << >>
      BY <1>5, <2>4 DEF Forward
    <3>2. Delivered + Len(buffer) = Delivered
      BY <1>t, <2>4
    <3>3. /\ Cells(Head(wire), request, Delivered)
          /\ Chunks(Tail(wire), request, Delivered + Len(Head(wire)), b)
      BY <1>t, <1>b, <3>1, <3>2, ChunksTail
    <3>4. Head(wire) \in Seq(Nat) /\ Tail(wire) \in Seq(Seq(Nat))
      BY <1>t, <3>1
    <3>5. Delivered + Len(Head(wire)) <= b
      BY <3>3, <3>4, ChunksBound
    <3>6. Delivered + Len(Head(wire)) <= sent
      BY <1>t, <3>4, <3>5
    <3>7. Delivered' = Delivered + Len(Head(wire)) /\ Progress'
      BY <2>2, <3>1, <3>3, <3>4, <3>6
    <3>8. Delivered' + Len(buffer') = Delivered + Len(Head(wire))
      BY <1>t, <3>1, <3>4, <3>7
    <3>9. Gapless'
      BY <1>b, <2>1, <3>1, <3>3, <3>8 DEF Gapless, Cells
    <3> QED BY <3>7, <3>9
  <2> QED BY <2>3, <2>4
<1>6. CASE BridgeEnds
  <2>1. /\ UNCHANGED <<request, sent, clientEnd, wire, buffer, at, got>>
        /\ stage = "bridging" /\ buffer = << >> /\ wire = << >>
        /\ \/ stage' = "resolved" /\ clientEnd \in {"ended", "left"}
           \/ stage' = "failed"
    BY <1>6 DEF BridgeEnds, client, input
  <2>2. Gapless'
    BY <2>1, NoCellMoves
  <2>3. clientEnd # "gone" => Delivered = sent
    <3>1. Delivered + Len(buffer) = Delivered
      BY <1>t, <2>1
    <3> QED BY <1>t, <1>b, <2>1, <3>1, ChunksBound
  <2>4. Progress'
    <3>1. HeaderLength(request) \in Nat
      BY ScriptIs
    <3> QED BY <1>0, <1>t, <2>1, <2>3, <3>1 DEF Progress, Delivered
  <2> QED BY <2>2, <2>4
<1>7. CASE HandshakeCut \/ RefusalSent \/ GrantSent
  BY <1>7, <1>a DEF HandshakeCut, RefusalSent, GrantSent, client, input
<1>8. CASE Drains
  BY <1>8, <1>a DEF Drains, client, input
<1>9. CASE Connected \/ NotConnected
  BY <1>9, <1>a DEF Connected, NotConnected, Fails, client, input
<1>10. CASE TargetSends \/ TargetEnds \/ TargetBreaks \/ TargetSpeaksToNobody
  BY <1>10, <1>a DEF TargetSends, TargetEnds, TargetBreaks,
     TargetSpeaksToNobody, client, input
<1>11. CASE UNCHANGED socksVars
  BY <1>11, <1>a DEF socksVars, client, input
<1> QED
  BY SocksSteps, <1>1, <1>2, <1>3, <1>4, <1>5, <1>6, <1>7, <1>8, <1>9, <1>10,
     <1>11

-----------------------------------------------------------------------------
(* Every reachable state of a SOCKS session is well typed. *)
THEOREM SocksTypeCorrect == SocksSpec => []SocksTypeOK
<1>1. StageInv => SocksTypeOK
  BY DEF StageInv
<1> QED
  BY <1>1, StageAlways, PTL

(* The client can tell from the answers where it stands, whatever it asks  *)
(* for, however it cuts what it sends, and whenever it stops.              *)
THEOREM AnswersWell == SocksSpec => []AnswersFit
BY StageAlways, StageFits, PTL

(* However the request and the payload are cut into chunks, the target     *)
(* gets the payload in order, without a gap and with nothing of the        *)
(* request in it; all of it, when the bridge resolves.                     *)
THEOREM PayloadArrives == SocksSpec => []PayloadIsWhole
BY PayloadInit, PayloadStep, PayloadFits, PTL DEF SocksSpec
-----------------------------------------------------------------------------
(* A request that a listener serves or refuses with an answer. *)
Asks == request \notin {"other", "v5malformed"}

(* Who was told what, when the session has stopped: nothing, if it cannot  *)
(* be told any more, or if it stopped before its request was complete.     *)
ToldInv ==
  /\ waiting => stage \in {"negotiating", "refusing", "granting", "crashed"}
  /\ stage = "failed" /\ Writable /\ Asks =>
       Told \/ (clientEnd = "ended" /\ sent < HeaderLength(request))
  /\ stage \in {"resolved", "crashed"} => Told
  /\ stage \in Over \cup {"crashed"} => target \in {"none", "destroyed"}

(* Some step of Proxy can be taken: its guards.                            *)
ProxyCanGo ==
  \/ waiting /\ stage # "crashed"
  \/ Negotiating /\ (Len(buffer) >= Need \/ wire # << >> \/ clientEnd # "open")
  \/ stage = "connecting"
  \/ stage \in {"refusing", "granting"} /\ ~waiting
  \/ /\ stage = "bridging"
     /\ \/ target \in {"open", "ended"} /\ (buffer # << >> \/ wire # << >>)
        \/ /\ buffer = << >> /\ wire = << >>
           /\ clientEnd = "gone"
              \/ (target = "ended" /\ clientEnd \in {"ended", "left"})

(* A client that has sent its request is not left without an answer, and   *)
(* a reset or the end of a session does not leave it without its cleanup,  *)
(* for want of a step that can be taken.                                   *)
AnswerGoesOn ==
  sent >= HeaderLength(request) /\ Asks => Told \/ ~Writable \/ ProxyCanGo

ReleaseGoesOn ==
  clientEnd = "gone" \/ stage \in Over =>
    ProxyCanGo \/ (target \in {"none", "destroyed"} /\ stage \notin Running)

(* What is left to do for a session. *)
StageLeft(s) == CASE s = "negotiating" -> 8 [] s = "connecting" -> 6
                  [] s \in {"refusing", "granting"} -> 4
                  [] s = "bridging" -> 2 [] OTHER -> 0

SessionLeft ==
  (2 * (4 - at) + 2 * Len(wire))
    + (StageLeft(stage) + (IF buffer = << >> THEN 0 ELSE 1)
                        + (IF waiting THEN 1 ELSE 0))

(* Every step of Proxy uses some of it up.                                 *)
ProxyUsesUp ==
  [][Proxy => SessionLeft \in Nat /\ SessionLeft' < SessionLeft]_socksVars

(* A session past the negotiation has sent its verdict. *)
LEMMA ToldBy ==
  ASSUME Refuses \/ Grants \/ Bridges
  PROVE  Told
<1>1. \E x \in {"refused", "failed", "granted"} :
        replies \in {Method \o <<x>>, Method \o <<x, "data">>}
  BY DEF Refuses, Grants, Bridges
<1>2. PICK x \in {"refused", "failed", "granted"} :
        replies \in {Method \o <<x>>, Method \o <<x, "data">>}
  BY <1>1
<1>3. CASE Method = << >>
  <2>1. replies \in {<<x>>, <<x, "data">>}
    BY <1>2, <1>3
  <2>2. 1 \in DOMAIN replies /\ replies[1] = x
    BY <2>1
  <2> QED BY <2>2 DEF Told
<1>4. CASE Method = <<"method">>
  <2>1. replies \in {<<"method", x>>, <<"method", x, "data">>}
    BY <1>2, <1>4
  <2>2. 2 \in DOMAIN replies /\ replies[2] = x
    BY <2>1
  <2> QED BY <2>2 DEF Told
<1> QED BY <1>3, <1>4, MethodIs

(* A handshake is cut only before its request is complete. *)
LEMMA CutShort ==
  ASSUME PayloadInv, Negotiating, Len(buffer) < Need, wire = << >>
  PROVE  clientEnd = "gone" \/ sent < HeaderLength(request)
<1>0. /\ request \in Requests /\ sent \in Nat /\ at \in 0..4 /\ Passed(at) \in Nat
      /\ buffer \in Seq(Nat) /\ wire \in Seq(Seq(Nat)) /\ Delivered \in Nat
      /\ Negotiates /\ got = << >>
  BY PayloadTypes DEF PayloadInv, StageInv, Stages, Negotiating, Progress
<1>1. PICK b \in 0..sent : /\ Chunks(wire, request, Delivered + Len(buffer), b)
                           /\ b = sent \/ clientEnd = "gone"
  BY DEF PayloadInv, Gapless
<1>2. Delivered + Len(buffer) = b
  BY <1>0, <1>1, ChunksBound
<1>3. Delivered = Passed(at)
  <2>1. Len(got) = 0
    BY <1>0
  <2> QED BY <1>0, <2>1 DEF Delivered
<1>4. PICK n \in 1..4 : n = Len(Reads(request))
  BY <1>0, ReadsIs
<1>5. at < n /\ at + 1 \in 1..n
  BY <1>0, <1>4 DEF Negotiates
<1>6. Need \in Nat
  BY <1>0, <1>4, <1>5, ReadsIs DEF Need
<1>7. Passed(at + 1) = Passed(at) + Need
  BY <1>0, <1>4, <1>5, PassedIs DEF Need
<1>8. Passed(at + 1) <= HeaderLength(request)
  <2>1. \A k \in 0..4 : Passed(k) \in Nat /\ (k <= n => Passed(k) <= Passed(n))
    BY DEF Passed
  <2>2. Passed(n) = HeaderLength(request)
    <3>1. request \in Requests /\ n \in 0..4
      BY <1>0, <1>4
    <3>2. n = Len(Reads(request)) => Passed(n) = HeaderLength(request)
      BY ONLY <3>1, PassedIs
    <3> QED BY <1>4, <3>2
  <2> QED BY <1>5, <2>1, <2>2
<1>9. HeaderLength(request) \in Nat /\ Len(buffer) \in Nat
  BY <1>0 DEF HeaderLength
<1> QED BY <1>0, <1>1, <1>2, <1>3, <1>6, <1>7, <1>8, <1>9

LEMMA ToldInit == SocksInit => ToldInv
BY DEF SocksInit, ToldInv, Over

(* No step stops a session in silence that could have answered. *)
LEMMA ToldStep ==
  ASSUME PayloadInv, ToldInv, [SocksNext]_socksVars
  PROVE  ToldInv'
<1>0. StageInv /\ StageInv' /\ SocksTypeOK /\ Stages /\ Stages'
  BY PayloadStep DEF PayloadInv, StageInv
<1>1. (Refuses \/ Grants \/ Bridges) => Told
  BY ToldBy
<1>2. ASSUME UNCHANGED <<request, replies>> PROVE Told' = Told /\ Asks' = Asks
  BY <1>2 DEF Told, Asks
<1>3. ASSUME UNCHANGED <<client, replies>>, stage' \in Over \cup {"crashed"},
             waiting' = waiting \/ waiting' = FALSE, ~waiting \/ ~waiting' \/ stage' = "crashed",
             stage' # "failed" \/ ~Writable \/ ~Asks \/ Told
               \/ (clientEnd = "ended" /\ sent < HeaderLength(request)),
             stage' \in {"resolved", "crashed"} => Told,
             stage' \in Over \cup {"crashed"} => target' \in {"none", "destroyed"}
      PROVE  ToldInv'
  BY <1>2, <1>3 DEF ToldInv, client, Writable, Over
<1>4. ASSUME UNCHANGED <<client, replies, stage, target>>,
             waiting' = waiting \/ waiting' = FALSE
      PROVE  ToldInv'
  BY <1>2, <1>4 DEF ToldInv, client, Writable
<1>5. ASSUME stage' \in Running, ~waiting' \/ stage' \in {"negotiating", "refusing", "granting"}
      PROVE  ToldInv'
  BY <1>5 DEF ToldInv, Running, Over
<1> USE DEF Over, Running
<1>6. ASSUME NEW n \in 1..Len(Script(request)), ClientSends(n) PROVE ToldInv'
  BY <1>2, <1>6 DEF ClientSends, ToldInv, Writable
<1>7. CASE ClientStops
  BY <1>2, <1>7 DEF ClientStops, ToldInv, Writable
<1>8. CASE Pull \/ Forward
  BY <1>4, <1>8 DEF Pull, Forward
<1>9. CASE Drains
  <2>0. /\ waiting /\ waiting' = FALSE /\ UNCHANGED <<client, replies>>
        /\ stage \in {"negotiating", "refusing", "granting"}
    BY <1>9 DEF Drains, ToldInv
  <2>1. CASE Writable
    BY <1>5, <1>9, <2>0, <2>1 DEF Drains
  <2>2. CASE ~Writable
    <3>1. target \in {"none", "open"}
      BY <1>0, <2>0 DEF Stages, Negotiates, Refuses, Grants
    <3>2. stage' = "failed" /\ target' \in {"none", "destroyed"}
      BY <1>9, <2>2, <3>1 DEF Drains
    <3> QED BY <1>3, <2>0, <2>2, <3>2
  <2> QED BY <2>1, <2>2
<1>10. CASE HandshakeCut
  <2>1. clientEnd = "gone" \/ sent < HeaderLength(request)
    BY <1>10, CutShort DEF HandshakeCut
  <2>2. target' = "none"
    BY <1>0, <1>10 DEF HandshakeCut, Negotiating, Stages, Negotiates
  <2>3. clientEnd = "ended" \/ ~Writable
    BY <1>10 DEF HandshakeCut, Writable
  <2>4. ~waiting /\ stage' = "failed" /\ UNCHANGED <<client, replies, waiting>>
    BY <1>10 DEF HandshakeCut, Negotiating
  <2> QED BY <1>3, <2>1, <2>2, <2>3, <2>4 DEF Writable
<1>11. CASE Read
  <2>1. /\ ~waiting /\ UNCHANGED <<client, target>> /\ target = "none"
        /\ stage = "negotiating"
    BY <1>0, <1>11 DEF Read, Negotiating, Stages, Negotiates
  <2>2. CASE stage' = "failed" /\ Silent /\ (Rejected(at + 1) \/ ~Writable)
    <3>1. ~Asks \/ ~Writable
      BY <2>2 DEF Rejected, Asks
    <3> QED BY <1>3, <2>1, <2>2, <3>1 DEF Silent
  <2>3. CASE stage' = "refusing"
    BY <1>5, <2>3
  <2>4. CASE stage' \in {"connecting", "negotiating"} /\ Silent
    <3>1. ~waiting'
      BY <2>1, <2>4 DEF Silent
    <3> QED BY <1>5, <2>4, <3>1
  <2>5. CASE stage' = stage
    BY <1>5, <2>1, <2>5
  <2> QED BY <1>11, <2>1, <2>2, <2>3, <2>4, <2>5 DEF Read
<1>12. CASE Connected
  <2>1. ~waiting /\ UNCHANGED client
    BY <1>12 DEF Connected, ToldInv
  <2>2. CASE Writable
    BY <1>5, <1>12, <2>2 DEF Connected
  <2>3. CASE ~Writable
    BY <1>3, <1>12, <2>1, <2>3 DEF Connected, Silent
  <2> QED BY <2>2, <2>3
<1>13. CASE NotConnected
  <2>1. ~waiting /\ UNCHANGED <<client, target>> /\ target = "none"
    BY <1>0, <1>13 DEF NotConnected, ToldInv, Stages, Connects
  <2>2. CASE Writable
    BY <1>5, <1>13, <2>2 DEF NotConnected, Fails
  <2>3. CASE ~Writable
    BY <1>3, <1>13, <2>1, <2>3 DEF NotConnected, Fails, Silent
  <2> QED BY <2>2, <2>3
<1>14. CASE RefusalSent
  <2>1. Told /\ target = "none"
    BY <1>0, <1>1, <1>14 DEF RefusalSent, Stages, Refuses
  <2> QED BY <1>3, <1>14, <2>1 DEF RefusalSent
<1>15. CASE GrantSent
  <2>1. stage' = "bridging"
    BY <1>15 DEF GrantSent
  <2>2. ~waiting'
    BY <1>15 DEF GrantSent
  <2> QED BY <1>5, <2>1, <2>2
<1>16. CASE TargetSends \/ TargetEnds
  <2>1. stage' = "bridging" /\ waiting' = FALSE
    BY <1>16 DEF TargetSends, TargetEnds, ToldInv
  <2> QED BY <1>5, <2>1
<1>17. CASE TargetBreaks \/ BridgeEnds \/ TargetSpeaksToNobody
  <2>1. Told
    BY <1>0, <1>1, <1>17 DEF TargetBreaks, BridgeEnds, TargetSpeaksToNobody, Stages
  <2>2. /\ UNCHANGED <<client, replies, waiting>> /\ target' = "destroyed"
        /\ stage' \in {"failed", "resolved", "crashed"}
        /\ stage = "bridging" \/ stage' = "crashed"
    BY <1>17 DEF TargetBreaks, BridgeEnds, TargetSpeaksToNobody, SocketDestroyed
  <2>3. stage = "bridging" => ~waiting
    BY DEF ToldInv
  <2> QED BY <1>3, <2>1, <2>2, <2>3
<1>18. CASE UNCHANGED socksVars
  BY <1>4, <1>18 DEF socksVars
<1> QED
  BY SocksSteps, <1>6, <1>7, <1>8, <1>9, <1>10, <1>11, <1>12, <1>13, <1>14, <1>15,
     <1>16, <1>17, <1>18

LEMMA ToldAlways == SocksSpec => [](PayloadInv /\ ToldInv)
<1>1. SocksInit => PayloadInv /\ ToldInv
  BY PayloadInit, ToldInit
<1>2. PayloadInv /\ ToldInv /\ [SocksNext]_socksVars => (PayloadInv /\ ToldInv)'
  BY PayloadStep, ToldStep
<1> QED BY <1>1, <1>2, PTL DEF SocksSpec

(* No client waits in vain for an answer: as long as it has none and the   *)
(* stream could carry one, the session can go on.                          *)
THEOREM NobodyWaitsForAnAnswer == SocksSpec => []AnswerGoesOn
<1>1. PayloadInv /\ ToldInv => AnswerGoesOn
  <2> SUFFICES ASSUME PayloadInv, ToldInv, sent >= HeaderLength(request), Asks, ~Told,
                      Writable, ~ProxyCanGo
               PROVE  FALSE
    BY DEF AnswerGoesOn
  <2>1. /\ SocksTypeOK /\ Stages /\ request \in Requests /\ sent \in Nat
    BY DEF PayloadInv, StageInv, SocksTypeOK
  <2>2. ~(stage \in {"refusing", "granting", "bridging"})
    BY <2>1, ToldBy DEF Stages
  <2>3. HeaderLength(request) \in Nat
    BY DEF HeaderLength
  <2>4. ~(stage \in Over \cup {"crashed"})
    BY <2>1, <2>3 DEF ToldInv, Over
  <2>5. stage = "negotiating" /\ ~waiting
    BY <2>1, <2>2, <2>4 DEF SocksTypeOK, Running, ProxyCanGo
  <2>6. Negotiating /\ wire = << >> /\ ~(Len(buffer) >= Need) /\ clientEnd = "open"
    BY <2>5 DEF Negotiating, ProxyCanGo
  <2>7. Len(buffer) < Need
    <3>1. /\ at \in 0..4 /\ buffer \in Seq(Nat) /\ at < Len(Reads(request))
      BY <2>1, <2>5 DEF SocksTypeOK, Stages, Negotiates
    <3>2. PICK n \in 1..4 : n = Len(Reads(request))
      BY <2>1, ReadsIs
    <3>3. Need \in Nat
      BY <2>1, <3>1, <3>2, ReadsIs DEF Need
    <3> QED BY <2>6, <3>1, <3>3
  <2> QED BY <2>1, <2>3, <2>6, <2>7, CutShort
<1> QED BY <1>1, ToldAlways, PTL

(* A reset, or the end of a session, does not leave the socket of the      *)
(* target open: until it is gone the session can go on.                    *)
THEOREM NobodyHoldsTheSocket == SocksSpec => []ReleaseGoesOn
<1>1. PayloadInv /\ ToldInv => ReleaseGoesOn
  <2> SUFFICES ASSUME PayloadInv, ToldInv, clientEnd = "gone" \/ stage \in Over, ~ProxyCanGo
               PROVE  target \in {"none", "destroyed"} /\ stage \notin Running
    BY DEF ReleaseGoesOn
  <2>1. SocksTypeOK /\ Stages
    BY DEF PayloadInv, StageInv
  <2>2. CASE stage \in Over
    BY <2>2 DEF ToldInv, Over, Running
  <2>3. CASE clientEnd = "gone" /\ stage \notin Over
    <3>1. stage \notin {"negotiating", "connecting", "refusing", "granting"}
      BY <2>3 DEF ProxyCanGo, Negotiating
    <3>2. stage # "bridging"
      <4>1. stage = "bridging" => target \in {"open", "ended"}
        BY <2>1 DEF Stages, Bridges
      <4> QED BY <2>3, <4>1 DEF ProxyCanGo
    <3>3. stage = "crashed"
      BY <2>1, <2>3, <3>1, <3>2 DEF SocksTypeOK, Running
    <3> QED BY <3>3 DEF ToldInv, Running
  <2> QED BY <2>2, <2>3
<1> QED BY <1>1, ToldAlways, PTL

(* What is left of a session is a number. *)
LEMMA LeftIsNat ==
  ASSUME SocksTypeOK
  PROVE  /\ at \in 0..4 /\ Len(wire) \in Nat /\ StageLeft(stage) \in Nat
         /\ SessionLeft \in Nat
<1>1. at \in 0..4 /\ wire \in Seq(Seq(Nat))
  BY DEF SocksTypeOK
<1>2. Len(wire) \in Nat /\ StageLeft(stage) \in Nat
  BY <1>1 DEF StageLeft
<1> HIDE DEF StageLeft
<1> QED BY <1>1, <1>2 DEF SessionLeft

(* Each step of Proxy in turn. *)
LEMMA UsesUp ==
  ASSUME PayloadInv, Proxy, SocksTypeOK'
  PROVE  SessionLeft' < SessionLeft
<1>0. SocksTypeOK
  BY DEF PayloadInv, StageInv
<1>1. /\ at \in 0..4 /\ Len(wire) \in Nat /\ StageLeft(stage) \in Nat
      /\ at' \in 0..4 /\ Len(wire') \in Nat /\ StageLeft(stage') \in Nat
  <2>1. at' \in 0..4 /\ wire' \in Seq(Seq(Nat))
    BY DEF SocksTypeOK
  <2>2. Len(wire') \in Nat /\ StageLeft(stage') \in Nat
    BY <2>1 DEF StageLeft
  <2> QED BY <1>0, <2>1, <2>2, LeftIsNat
<1>2. PICK w, v, s, t \in Nat :
        /\ w = Len(wire) /\ v = Len(wire') /\ s = StageLeft(stage) /\ t = StageLeft(stage')
  BY <1>1
<1>3. /\ SessionLeft = (2 * (4 - at) + 2 * w)
                         + (s + (IF buffer = << >> THEN 0 ELSE 1) + (IF waiting THEN 1 ELSE 0))
      /\ SessionLeft' = (2 * (4 - at') + 2 * v)
                          + (t + (IF buffer' = << >> THEN 0 ELSE 1)
                               + (IF waiting' THEN 1 ELSE 0))
  BY <1>2 DEF SessionLeft
<1>4. ASSUME wire # << >>, wire' = Tail(wire) PROVE v + 1 = w
  <2>1. wire \in Seq(Seq(Nat))
    BY <1>0 DEF SocksTypeOK
  <2>2. Len(Tail(wire)) = Len(wire) - 1
    BY <1>4, <2>1
  <2> QED BY <1>2, <1>4, <2>2
<1>5. CASE Drains
  <2>1. /\ waiting /\ waiting' = FALSE /\ at' = at /\ buffer' = buffer /\ v = w
        /\ t = s \/ t = 0
    BY <1>2, <1>5 DEF Drains, input, client, StageLeft
  <2> QED BY <1>1, <1>2, <1>3, <2>1
<1>6. CASE Pull
  <2>1. v + 1 = w /\ t = s /\ at' = at /\ waiting' = waiting
    BY <1>2, <1>4, <1>6 DEF Pull
  <2> QED BY <1>1, <1>2, <1>3, <2>1
<1>7. CASE HandshakeCut \/ RefusalSent \/ GrantSent \/ BridgeEnds
  <2>1. /\ at' = at /\ buffer' = buffer /\ v = w /\ waiting' = waiting
        /\ stage \in {"negotiating", "refusing", "granting", "bridging"}
        /\ stage' \in {"failed", "resolved"} \/ (stage = "granting" /\ stage' = "bridging")
    BY <1>2, <1>7 DEF HandshakeCut, RefusalSent, GrantSent, BridgeEnds, Negotiating, input
  <2>2. t < s
    BY <1>2, <2>1 DEF StageLeft
  <2> QED BY <1>1, <1>2, <1>3, <2>1, <2>2
<1>8. CASE Read
  <2>1. /\ at' = at + 1 /\ ~waiting /\ v = w /\ stage = "negotiating"
        /\ buffer' = SubSeq(buffer, Need + 1, Len(buffer))
        /\ stage' \in {"negotiating", "failed", "refusing", "connecting"}
        /\ waiting' \in BOOLEAN
    BY <1>0, <1>2, <1>8 DEF Read, Negotiating, Silent, Answer, SocksTypeOK
  <2>2. t <= s
    BY <1>2, <2>1 DEF StageLeft
  <2>3. buffer = << >> => buffer' = << >>
    <3>1. Need \in Nat /\ buffer \in Seq(Nat)
      BY <1>0, <1>8, ReadFits DEF PayloadInv, SocksTypeOK
    <3>2. ASSUME buffer = << >> PROVE SubSeq(buffer, Need + 1, Len(buffer)) = << >>
      BY <3>1, <3>2
    <3> QED BY <2>1, <3>2
  <2>4. PICK x, y, q \in 0..1 :
          /\ x = (IF buffer = << >> THEN 0 ELSE 1) /\ y <= x
          /\ y = (IF buffer' = << >> THEN 0 ELSE 1)
          /\ q = (IF waiting' THEN 1 ELSE 0)
    BY <2>3
  <2>5. SessionLeft = (2 * (4 - at) + 2 * w) + (s + x)
    BY <1>1, <1>2, <1>3, <2>1, <2>4
  <2>6. SessionLeft' = (2 * (4 - (at + 1)) + 2 * w) + (t + y + q)
    BY <1>3, <2>1, <2>4
  <2> QED BY <1>1, <1>2, <2>2, <2>4, <2>5, <2>6
<1>9. CASE Connected \/ NotConnected
  <2>1. /\ at' = at /\ buffer' = buffer /\ v = w /\ stage = "connecting"
        /\ stage' \in {"granting", "refusing", "failed"}
    BY <1>2, <1>9 DEF Connected, NotConnected, Fails, input
  <2>2. t + 2 <= s
    BY <1>2, <2>1 DEF StageLeft
  <2> QED BY <1>1, <1>2, <1>3, <2>1, <2>2
<1>10. CASE Forward
  <2>1. /\ at' = at /\ t = s /\ waiting' = waiting
        /\ \/ buffer # << >> /\ buffer' = << >> /\ v = w
           \/ buffer' = buffer /\ v + 1 = w
    BY <1>2, <1>4, <1>10 DEF Forward
  <2> QED BY <1>1, <1>2, <1>3, <2>1
<1> QED
  BY <1>5, <1>6, <1>7, <1>8, <1>9, <1>10 DEF Proxy

(* And no session goes on for ever without its client or target: each of   *)
(* its steps uses up some of what was left to do.                          *)
THEOREM SessionRunsOut == SocksSpec => ProxyUsesUp
<1>1. PayloadInv /\ [SocksNext]_socksVars
        => [Proxy => SessionLeft \in Nat /\ SessionLeft' < SessionLeft]_socksVars
  <2> SUFFICES ASSUME PayloadInv, [SocksNext]_socksVars, Proxy
               PROVE  SessionLeft \in Nat /\ SessionLeft' < SessionLeft
    OBVIOUS
  <2>1. SocksTypeOK /\ SocksTypeOK'
    BY PayloadStep DEF PayloadInv, StageInv
  <2> QED BY <2>1, LeftIsNat, UsesUp
<1> QED BY <1>1, ToldAlways, PTL DEF SocksSpec, ProxyUsesUp
=============================================================================
