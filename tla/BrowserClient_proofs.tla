------------------------ MODULE BrowserClient_proofs ------------------------
(***************************************************************************)
(* The browser program is well typed, and connect() of a client leaves one *)
(* transport in use, for every set of clients.  Nobody in it waits for     *)
(* something that will not come, and nothing in it goes on for ever.       *)
(***************************************************************************)
EXTENDS BrowserClient, Integers, TLAPS

USE ClientsAssumption

Message == {"started", "startFailed", "opened", "openFailed", "closed",
            "stopped"}
Call == [of : Clients \cup {"none"}, on : SUBSET {"worker", "room"}]

LEMMA CallTypes ==
  /\ NoCall \in Call
  /\ \A c \in Clients, on \in SUBSET {"worker", "room"} :
       [of |-> c, on |-> on] \in Call
  /\ \A a \in Call : a.of \in Clients \cup {"none"}
  /\ Clients \subseteq Callers /\ "disconnect" \in Callers
BY DEF NoCall, Call, Callers

LEMMA Names == "none" \notin Clients /\ "disconnect" \notin Clients
OBVIOUS

(* The operators the actions are built from keep the types. *)
LEMMA StopTrysteroTypes ==
  ASSUME TypeOK, NEW c \in Clients, StopTrystero(c)
  PROVE  /\ left' \in [Clients -> BOOLEAN]
         /\ join' \in [Clients -> Promise]
         /\ channel' \in [Clients -> {"none", "open", "over"}]
BY DEF TypeOK, StopTrystero, Rejected, Promise

LEMMA StopCallTypes ==
  ASSUME TypeOK, NEW x \in Callers, NEW c \in Clients, StopCall(x, c)
  PROVE  /\ awaiting' \in [Callers -> Call]
         /\ stopped' \in [Clients -> BOOLEAN]
         /\ stopTask' \in [Clients -> {"none", "asked", "running", "done"}]
         /\ left' \in [Clients -> BOOLEAN]
         /\ join' \in [Clients -> Promise]
         /\ channel' \in [Clients -> {"none", "open", "over"}]
<1>1. awaiting' \in [Callers -> Call]
  BY CallTypes DEF TypeOK, StopCall, Call
<1>2. /\ stopped' \in [Clients -> BOOLEAN]
      /\ stopTask' \in [Clients -> {"none", "asked", "running", "done"}]
  BY DEF TypeOK, StopCall
<1>3. CASE held[c]
  BY <1>1, <1>2, <1>3, StopTrysteroTypes DEF StopCall
<1>4. CASE ~held[c]
  BY <1>1, <1>2, <1>4 DEF StopCall, TypeOK
<1> QED BY <1>3, <1>4

LEMMA TerminateTypes ==
  ASSUME TypeOK, NEW c \in Clients, Terminate(c)
  PROVE  /\ worker' \in [Clients -> {"none", "up", "terminated"}]
         /\ toPage' \in [Clients -> Seq(Message)]
         /\ start' \in [Clients -> Promise]
         /\ dial' \in [Clients -> Promise]
         /\ stream' \in [Clients -> {"none", "open", "ended", "aborted",
                                     "over"}]
<1>1. toPage' \in [Clients -> Seq(Message)]
  <2>1. << >> \in Seq(Message)
    OBVIOUS
  <2> QED BY <2>1 DEF TypeOK, Terminate, Message
<1>2. /\ start' \in [Clients -> Promise]
      /\ dial' \in [Clients -> Promise]
  BY DEF TypeOK, Terminate, Rejected, Promise
<1> QED BY <1>1, <1>2 DEF TypeOK, Terminate

LEMMA StopEndsTypes ==
  ASSUME TypeOK, NEW c \in Clients \cup {"none"}, StopEnds(c)
  PROVE  /\ active' \in [Clients -> {"none", "worker", "trystero"}]
         /\ held' \in [Clients -> BOOLEAN]
<1>1. CASE c = "none"
  BY <1>1 DEF TypeOK, StopEnds, clientVars
<1>2. CASE c # "none"
  BY <1>2 DEF TypeOK, StopEnds
<1> QED BY <1>1, <1>2

LEMMA PostsTypes ==
  ASSUME TypeOK, NEW c \in Clients, NEW m \in Message, Posts(c, m)
  PROVE  toPage' \in [Clients -> Seq(Message)]
<1>1. toPage[c] \in Seq(Message)
  BY DEF TypeOK, Message
<1>2. Append(toPage[c], m) \in Seq(Message)
  BY <1>1
<1> QED BY <1>2 DEF TypeOK, Posts, Message

LEMMA AwaitRoomTypes ==
  ASSUME TypeOK, NEW c \in Clients, AwaitRoom(c)
  PROVE  awaiting' \in [Callers -> Call]
BY CallTypes DEF TypeOK, AwaitRoom, Call

LEMMA ForgetsTypes ==
  ASSUME TypeOK, NEW x \in Callers, awaiting' = [awaiting EXCEPT ![x] = NoCall]
  PROVE  awaiting' \in [Callers -> Call]
BY CallTypes DEF TypeOK, Call

-----------------------------------------------------------------------------
(* One lemma for each group of actions: they keep the types. *)
LEMMA ReactionTypes ==
  ASSUME TypeOK, NEW c \in Clients, Reaction(c)
  PROVE  TypeOK'
<1> c \in Callers /\ awaiting \in [Callers -> Call]
  BY CallTypes DEF TypeOK, Call
<1>1. CASE MakeClient(c)
  <2>1. awaiting[c].of \in Clients \cup {"none"}
    BY CallTypes
  <2>2. /\ awaiting' \in [Callers -> Call]
        /\ active' \in [Clients -> {"none", "worker", "trystero"}]
        /\ held' \in [Clients -> BOOLEAN]
    BY <1>1, <2>1, StopEndsTypes, ForgetsTypes DEF MakeClient
  <2> QED BY <1>1, <2>2 DEF TypeOK, MakeClient, Call, Promise, roomVars
<1>2. CASE ConnectClient(c)
  <2>1. /\ held' \in [Clients -> BOOLEAN]
        /\ join' \in [Clients -> Promise]
        /\ inRoom' \in [Clients -> BOOLEAN]
    <3>1. CASE UNCHANGED <<held, join, inRoom>>
      BY <3>1 DEF TypeOK
    <3>2. CASE ~UNCHANGED <<held, join, inRoom>>
      <4>1. /\ held' = [held EXCEPT ![c] = TRUE]
            /\ join' = [join EXCEPT ![c] = "pending"]
            /\ inRoom' = [inRoom EXCEPT ![c] = TRUE]
        BY <1>2, <3>2 DEF ConnectClient
      <4> QED BY <4>1 DEF TypeOK, Promise
    <3> QED BY <3>1, <3>2
  <2>2. dial' \in [Clients -> Promise]
    BY <1>2 DEF TypeOK, ConnectClient, Promise
  <2>3. task' \in [Clients -> {"none", "starting", "ready", "connecting",
                              "caching", "done"}]
    BY <1>2 DEF TypeOK, ConnectClient
  <2> QED BY <1>2, <2>1, <2>2, <2>3 DEF TypeOK, ConnectClient
<1>3. CASE StartFails(c)
  BY <1>3, StopCallTypes DEF TypeOK, StartFails, Caught, Call
<1>4. CASE WorkerWins(c)
  <2>0. /\ active' = [active EXCEPT ![c] = "worker"]
        /\ UNCHANGED <<current, held, inRoom>>
        /\ UNCHANGED <<worker, stopped, start, dial, toPage>>
        /\ UNCHANGED <<task, stopTask, stream>>
    BY <1>4 DEF WorkerWins, rpcVars, workerVars
  <2>1. CASE join[c] = "none"
    <3>1. /\ state' = "connected"
          /\ handler' = [handler EXCEPT ![c] = "connected"]
          /\ UNCHANGED <<awaiting, left, join, channel>>
      BY <1>4, <2>1 DEF WorkerWins, Connected
    <3> QED BY <2>0, <3>1 DEF TypeOK
  <2>2. CASE join[c] # "none"
    <3>1. /\ awaiting' \in [Callers -> Call]
          /\ left' \in [Clients -> BOOLEAN]
          /\ join' \in [Clients -> Promise]
          /\ channel' \in [Clients -> {"none", "open", "over"}]
      BY <1>4, <2>2, StopTrysteroTypes, AwaitRoomTypes DEF WorkerWins
    <3>2. handler' = [handler EXCEPT ![c] = "won"] /\ UNCHANGED state
      BY <1>4, <2>2 DEF WorkerWins
    <3> QED BY <2>0, <3>1, <3>2 DEF TypeOK, Call
  <2> QED BY <2>1, <2>2
<1>5. CASE WorkerHasWon(c)
  BY <1>5, ForgetsTypes
  DEF TypeOK, WorkerHasWon, Connected, Call, rpcVars, workerVars, roomVars
<1>6. CASE TrysteroWins(c)
  <2>1. stopped' \in [Clients -> BOOLEAN]
    BY <1>6 DEF TypeOK, TrysteroWins, Cancel, rpcVars
  <2>2. /\ worker' \in [Clients -> {"none", "up", "terminated"}]
        /\ toPage' \in [Clients -> Seq(Message)]
        /\ start' \in [Clients -> Promise]
        /\ dial' \in [Clients -> Promise]
        /\ stream' \in [Clients -> {"none", "open", "ended", "aborted",
                                    "over"}]
    BY <1>6, TerminateTypes DEF TypeOK, TrysteroWins, Cancel, rpcVars, Message
  <2> QED BY <1>6, <2>1, <2>2
          DEF TypeOK, TrysteroWins, Connected, Message, roomVars
<1>7. CASE NobodyWins(c)
  <2>1. CASE join[c] = "none"
    <3>1. Caught(c) /\ UNCHANGED held
      BY <1>7, <2>1 DEF NobodyWins
    <3> QED BY <3>1, StopCallTypes DEF TypeOK, Caught, Call
  <2>2. CASE join[c] # "none"
    <3>1. /\ awaiting' \in [Callers -> Call]
          /\ left' \in [Clients -> BOOLEAN]
          /\ join' \in [Clients -> Promise]
          /\ channel' \in [Clients -> {"none", "open", "over"}]
      BY <1>7, <2>2, StopTrysteroTypes, AwaitRoomTypes DEF NobodyWins
    <3>2. /\ handler' = [handler EXCEPT ![c] = "lost"]
          /\ UNCHANGED <<state, current, active, held, inRoom>>
          /\ UNCHANGED <<worker, stopped, start, dial, toPage>>
          /\ UNCHANGED <<task, stopTask, stream>>
      BY <1>7, <2>2
      DEF NobodyWins, pageVars, clientVars, rpcVars, workerVars
    <3> QED BY <3>1, <3>2 DEF TypeOK, Call
  <2> QED BY <2>1, <2>2
<1>8. CASE NobodyHasWon(c)
  BY <1>8, StopCallTypes DEF TypeOK, NobodyHasWon, Caught, Call
<1>9. CASE FailedStops(c)
  <2>1. /\ awaiting' \in [Callers -> Call]
        /\ active' \in [Clients -> {"none", "worker", "trystero"}]
        /\ held' \in [Clients -> BOOLEAN]
    BY <1>9, StopEndsTypes, ForgetsTypes DEF FailedStops
  <2> QED BY <1>9, <2>1
          DEF TypeOK, FailedStops, Call, rpcVars, workerVars, roomVars
<1> QED BY <1>1, <1>2, <1>3, <1>4, <1>5, <1>6, <1>7, <1>8, <1>9 DEF Reaction

LEMMA ClickTypes ==
  ASSUME TypeOK,
         Disconnect \/ DisconnectEnds \/ \E c \in Clients : Connect(c)
  PROVE  TypeOK'
<1> awaiting \in [Callers -> Call] /\ "disconnect" \in Callers
  BY CallTypes DEF TypeOK, Call
<1>1. ASSUME NEW c \in Clients, Connect(c) PROVE TypeOK'
  <2> c \in Callers
    BY CallTypes
  <2>1. CASE current = "none"
    BY <1>1, <2>1 DEF TypeOK, Connect, pageVars, clientVars, roomVars
  <2>2. CASE current # "none"
    <3>1. current \in Clients /\ StopCall(c, current)
      BY <1>1, <2>2 DEF TypeOK, Connect
    <3> QED BY <1>1, <3>1, StopCallTypes
            DEF TypeOK, Connect, Call, pageVars, clientVars
  <2> QED BY <2>1, <2>2
<1>2. CASE Disconnect
  <2>1. CASE current = "none"
    BY <1>2, <2>1 DEF TypeOK, Disconnect, clientVars
  <2>2. CASE current # "none"
    <3>1. current \in Clients /\ StopCall("disconnect", current)
      BY <1>2, <2>2 DEF TypeOK, Disconnect
    <3> QED BY <1>2, <2>2, <3>1, StopCallTypes
            DEF TypeOK, Disconnect, Call, clientVars
  <2> QED BY <2>1, <2>2
<1>3. CASE DisconnectEnds
  <2>1. awaiting["disconnect"].of \in Clients \cup {"none"}
    BY CallTypes
  <2>2. /\ awaiting' \in [Callers -> Call]
        /\ active' \in [Clients -> {"none", "worker", "trystero"}]
        /\ held' \in [Clients -> BOOLEAN]
    BY <1>3, <2>1, StopEndsTypes, ForgetsTypes DEF DisconnectEnds
  <2> QED BY <1>3, <2>2
          DEF TypeOK, DisconnectEnds, Call, rpcVars, workerVars, roomVars
<1> QED BY <1>1, <1>2, <1>3

LEMMA DeliverTypes ==
  ASSUME TypeOK, NEW c \in Clients, Deliver(c)
  PROVE  TypeOK'
<1> DEFINE m == Head(toPage[c])
<1>1. CASE m = "stopped"
  BY <1>1, TerminateTypes
  DEF TypeOK, Deliver, Message, callVars, clientVars, roomVars
<1>2. CASE m # "stopped"
  <2>1. toPage' \in [Clients -> Seq(Message)]
    <3>1. Tail(toPage[c]) \in Seq(Message)
      BY DEF TypeOK, Deliver, Message
    <3> QED BY <1>2, <3>1 DEF TypeOK, Deliver, Message
  <2>2. start' \in [Clients -> Promise] /\ dial' \in [Clients -> Promise]
    <3>1. ASSUME NEW p \in Promise,
                 NEW q \in {"started", "opened"}, NEW b \in Message
          PROVE  (CASE m = q -> "resolved" [] m = b -> "rejected"
                    [] OTHER -> p) \in Promise
      BY DEF Promise
    <3>2. /\ Settles(start, c, m, "started", "startFailed")
          /\ Settles(dial, c, m, "opened", "openFailed")
      BY <1>2 DEF Deliver
    <3>3. start[c] \in Promise /\ dial[c] \in Promise
      BY DEF TypeOK
    <3> QED BY <3>1, <3>2, <3>3 DEF TypeOK, Settles, Message
  <2>3. state' \in {"idle", "starting", "connecting", "connected", "closed",
                    "error"}
    BY <1>2 DEF TypeOK, Deliver, OnClosed
  <2> QED BY <1>2, <2>1, <2>2, <2>3
          DEF TypeOK, Deliver, Message, callVars, clientVars, roomVars
<1> QED BY <1>1, <1>2

LEMMA RoomTypes ==
  ASSUME TypeOK, NEW c \in Clients,
         \/ TrysteroOpens(c) \/ TrysteroTimesOut(c)
         \/ TrysteroEnds(c) \/ TrysteroFinal(c) \/ RoomLeft(c)
  PROVE  TypeOK'
<1> USE DEF pageVars, callVars, clientVars, rpcVars, workerVars
<1>1. CASE TrysteroOpens(c)
  BY <1>1 DEF TypeOK, TrysteroOpens, Promise
<1>2. CASE TrysteroTimesOut(c)
  BY <1>2 DEF TypeOK, TrysteroTimesOut, Promise
<1>3. CASE TrysteroEnds(c)
  <2>1. inRoom' \in [Clients -> BOOLEAN]
    BY <1>3 DEF TypeOK, TrysteroEnds
  <2>2. state' \in {"idle", "starting", "connecting", "connected", "closed",
                    "error"}
    BY <1>3 DEF TypeOK, TrysteroEnds, OnClosed
  <2> QED BY <1>3, <2>1, <2>2 DEF TypeOK, TrysteroEnds
<1>4. CASE RoomLeft(c)
  BY <1>4 DEF TypeOK, RoomLeft
<1>5. CASE TrysteroFinal(c)
  BY <1>5 DEF TypeOK, TrysteroFinal
<1> QED BY <1>1, <1>2, <1>3, <1>4, <1>5

LEMMA WorkerTypes ==
  ASSUME TypeOK, NEW c \in Clients,
         \/ WorkerTask(c) \/ WorkerStop(c)
         \/ WorkerStreamEndsEarly(c) \/ WorkerStreamEnds(c)
  PROVE  TypeOK'
<1> USE DEF pageVars, callVars, clientVars, rpcVars, roomVars
<1>1. CASE WorkerStarts(c)
  <2>1. toPage' \in [Clients -> Seq(Message)]
    BY <1>1, PostsTypes DEF WorkerStarts, Message
  <2> QED BY <1>1, <2>1 DEF TypeOK, WorkerStarts, Message
<1>2. CASE WorkerDials(c)
  <2>1. toPage' \in [Clients -> Seq(Message)]
    BY <1>2, PostsTypes DEF WorkerDials, Message, TypeOK
  <2>2. /\ task' \in [Clients -> {"none", "starting", "ready", "connecting",
                                 "caching", "done"}]
        /\ stream' \in [Clients -> {"none", "open", "ended", "aborted",
                                    "over"}]
    <3>1. /\ \/ task' = [task EXCEPT ![c] = "done"]
             \/ task' = [task EXCEPT ![c] = "caching"]
          /\ \/ stream' = [stream EXCEPT ![c] = "open"]
             \/ stream' = stream
      BY <1>2 DEF WorkerDials
    <3> QED BY <3>1 DEF TypeOK
  <2> QED BY <1>2, <2>1, <2>2 DEF TypeOK, WorkerDials, Message
<1>3. CASE WorkerConnects(c)
  <2>1. toPage' \in [Clients -> Seq(Message)]
    <3>1. PICK news \in {<<"opened">>, <<"closed", "opened">>,
                         <<"opened", "closed">>} :
            toPage' = [toPage EXCEPT ![c] = @ \o news]
      BY <1>3 DEF WorkerConnects
    <3>2. news \in Seq(Message)
      <4>1. ASSUME NEW a \in Message, NEW b \in Message
            PROVE  <<a>> \in Seq(Message) /\ <<a, b>> \in Seq(Message)
        OBVIOUS
      <4> QED BY <3>1, <4>1 DEF Message
    <3>3. toPage[c] \o news \in Seq(Message)
      BY <3>2 DEF TypeOK, Message
    <3> QED BY <3>1, <3>3 DEF TypeOK, Message
  <2> QED BY <1>3, <2>1 DEF TypeOK, WorkerConnects, Message
<1>4. CASE WorkerStops(c)
  BY <1>4 DEF TypeOK, WorkerStops
<1>5. CASE WorkerStopped(c)
  <2>1. toPage' \in [Clients -> Seq(Message)]
    BY <1>5, PostsTypes DEF WorkerStopped, Message
  <2> QED BY <1>5, <2>1 DEF TypeOK, WorkerStopped, Message
<1>6. CASE WorkerStreamEndsEarly(c)
  BY <1>6 DEF TypeOK, WorkerStreamEndsEarly
<1>7. CASE WorkerStreamEnds(c)
  <2>1. toPage' \in [Clients -> Seq(Message)]
    BY <1>7, PostsTypes DEF WorkerStreamEnds, Message
  <2> QED BY <1>7, <2>1 DEF TypeOK, WorkerStreamEnds, Message
<1> QED BY <1>1, <1>2, <1>3, <1>4, <1>5, <1>6, <1>7 DEF WorkerTask, WorkerStop

LEMMA InitTypes == Init => TypeOK
<1> SUFFICES ASSUME Init PROVE TypeOK
  OBVIOUS
<1>1. awaiting \in [Callers -> Call]
  BY CallTypes DEF Init
<1>2. toPage \in [Clients -> Seq(Message)]
  <2>1. << >> \in Seq(Message)
    OBVIOUS
  <2> QED BY <2>1 DEF Init
<1> QED BY <1>1, <1>2 DEF Init, TypeOK, Call, Message, Promise

LEMMA NextTypes == TypeOK /\ [Next]_vars => TypeOK'
<1> SUFFICES ASSUME TypeOK, [Next]_vars PROVE TypeOK'
  OBVIOUS
<1>1. CASE UNCHANGED vars
  BY <1>1 DEF TypeOK, vars, pageVars, callVars, clientVars, rpcVars,
              workerVars, roomVars
<1>2. CASE Next
  BY <1>2, ReactionTypes, ClickTypes, DeliverTypes, RoomTypes, WorkerTypes
  DEF Next
<1> QED BY <1>1, <1>2

(* The state of the browser program keeps its types. *)
THEOREM TypeCorrect == Spec => []TypeOK
BY InitTypes, NextTypes, PTL DEF Spec
-----------------------------------------------------------------------------
(* What every client keeps to.  Nothing has begun for a client before its  *)
(* connect().  A Trystero client that was told to stop opens no channel,   *)
(* and as long as it may still win, a stop() reaches it.  If a Trystero    *)
(* client can still win after a stop(), the worker was told in time.       *)
NoStream(c) ==
  \/ worker[c] = "terminated"
  \/ task[c] \notin {"connecting", "caching"} /\ stream[c] # "open"

NotBegun(c) == /\ ~held[c] /\ ~left[c] /\ active[c] = "none"
               /\ join[c] = "none" /\ channel[c] = "none"
               /\ task[c] \notin {"connecting", "caching"}
               /\ stream[c] = "none"

ClientInv(c) ==
  /\ handler[c] \in {"none", "stopping", "starting"} => NotBegun(c)
  /\ left[c] => join[c] # "pending" /\ channel[c] # "open"
  /\ join[c] = "none" => channel[c] = "none"
  /\ worker[c] = "terminated" => stream[c] # "open"
  /\ (handler[c] = "connecting" /\ join[c] = "pending" /\ ~stopped[c])
       => held[c]
  /\ (/\ handler[c] = "connecting" /\ stopped[c]
      /\ join[c] \in {"pending", "resolved"}) => NoStream(c)
  /\ active[c] = "worker" => join[c] # "pending" /\ channel[c] # "open"
  /\ active[c] = "trystero" => stopped[c] /\ NoStream(c)

(* The client a click waits for was told to stop. *)
CallInv ==
  /\ \A c \in Clients :
       /\ handler[c] = "none" => awaiting[c] = NoCall
       /\ handler[c] = "stopping" /\ awaiting[c].of # "none"
            => stopped[awaiting[c].of]
  /\ awaiting["disconnect"].of # "none" => stopped[awaiting["disconnect"].of]

Inv == TypeOK /\ (\A c \in Clients : ClientInv(c)) /\ CallInv

(* A client none of whose state changes, but that may be told to stop when *)
(* it has no say in connect() any more.                                    *)
Same(c) == /\ handler'[c] = handler[c] /\ held'[c] = held[c]
           /\ active'[c] = active[c] /\ stopped'[c] = stopped[c]
           /\ join'[c] = join[c] /\ left'[c] = left[c]
           /\ channel'[c] = channel[c] /\ worker'[c] = worker[c]
           /\ task'[c] = task[c] /\ stream'[c] = stream[c]

LEMMA SameKeeps ==
  ASSUME NEW c \in Clients, ClientInv(c), Same(c)
  PROVE  ClientInv(c)'
BY DEF ClientInv, Same, NotBegun, NoStream

LEMMA InitInv == Init => Inv
<1> SUFFICES ASSUME Init PROVE Inv
  OBVIOUS
<1>1. TypeOK
  BY InitTypes
<1>2. ASSUME NEW c \in Clients PROVE ClientInv(c)
  BY DEF Init, ClientInv, NotBegun, NoStream
<1>3. CallInv
  BY CallTypes DEF Init, CallInv, NoCall
<1> QED BY <1>1, <1>2, <1>3 DEF Inv

LEMMA QuietHasNoWinner ==
  ASSUME Quiet, NEW c \in Clients, handler[c] = "connecting"
  PROVE  join[c] # "resolved"
BY DEF Quiet, Ready

(* What the stop() of a client does to that client and to the others. *)
LEMMA StopTrysteroKeeps ==
  ASSUME Inv, NEW c \in Clients, StopTrystero(c), NEW d \in Clients
  PROVE  /\ d # c => /\ left'[d] = left[d] /\ join'[d] = join[d]
                     /\ channel'[d] = channel[d]
         /\ left'[c] /\ join'[c] # "pending" /\ channel'[c] # "open"
         /\ join'[c] = "none" <=> join[c] = "none"
         /\ channel'[c] = "none" <=> channel[c] = "none"
         /\ join'[c] = "resolved" => join[c] = "resolved"
<1>1. /\ left' = [left EXCEPT ![c] = TRUE]
      /\ join' = [join EXCEPT ![c] = IF left[c] THEN @ ELSE Rejected(@)]
      /\ channel' = [channel EXCEPT ![c] = IF left[c] \/ @ = "none" THEN @
                                           ELSE "over"]
  BY DEF StopTrystero
<1>2. left[c] => join[c] # "pending" /\ channel[c] # "open"
  BY DEF Inv, ClientInv
<1>3. /\ join'[c] = IF left[c] THEN join[c] ELSE Rejected(join[c])
      /\ channel'[c] = IF left[c] \/ channel[c] = "none" THEN channel[c]
                       ELSE "over"
      /\ left'[c]
  BY <1>1 DEF Inv, TypeOK
<1>6. d # c => /\ left'[d] = left[d] /\ join'[d] = join[d]
               /\ channel'[d] = channel[d]
  BY <1>1 DEF Inv, TypeOK
<1>4. /\ join'[c] # "pending" /\ channel'[c] # "open"
      /\ channel'[c] = "none" <=> channel[c] = "none"
  BY <1>2, <1>3 DEF Rejected
<1>5. /\ join'[c] = "none" <=> join[c] = "none"
      /\ join'[c] = "resolved" => join[c] = "resolved"
  BY <1>3 DEF Rejected
<1> QED BY <1>3, <1>4, <1>5, <1>6

LEMMA StopCallKeeps ==
  ASSUME Inv, Quiet, NEW x \in Callers, NEW c \in Clients, StopCall(x, c),
         UNCHANGED <<held, active, worker, task, stream>>,
         NEW d \in Clients,
         \/ handler'[d] = handler[d]
         \/ handler[d] = "none" /\ handler'[d] = "stopping"
  PROVE  ClientInv(d)'
<1> USE DEF Inv
<1>1. /\ stopped'[d] = (stopped[d] \/ d = c)
      /\ /\ held'[d] = held[d] /\ active'[d] = active[d]
         /\ worker'[d] = worker[d] /\ task'[d] = task[d]
         /\ stream'[d] = stream[d]
  BY DEF StopCall, TypeOK
<1>2. d # c \/ ~held[c] => /\ left'[d] = left[d] /\ join'[d] = join[d]
                          /\ channel'[d] = channel[d]
  BY StopTrysteroKeeps DEF StopCall
<1>3. CASE d # c
  <2>1. ClientInv(d) /\ stopped'[d] = stopped[d]
    BY <1>1, <1>3 DEF TypeOK
  <2> QED BY <1>1, <1>2, <1>3, <2>1 DEF ClientInv, NotBegun, NoStream
<1>4. CASE d = c /\ ~held[c]
  <2>1. handler[c] = "connecting" => join[c] # "resolved"
    BY QuietHasNoWinner
  <2> QED BY <1>1, <1>2, <1>4, <2>1 DEF ClientInv, NotBegun, NoStream
<1>5. CASE d = c /\ held[c]
  <2>1. handler[c] = "connecting" => join[c] # "resolved"
    BY QuietHasNoWinner
  <2>2. StopTrystero(c)
    BY <1>5 DEF StopCall
  <2>3. /\ left'[c] /\ join'[c] # "pending" /\ channel'[c] # "open"
        /\ join'[c] = "none" <=> join[c] = "none"
        /\ channel'[c] = "none" <=> channel[c] = "none"
        /\ join'[c] = "resolved" => join[c] = "resolved"
    BY <2>2, StopTrysteroKeeps
  <2>4. handler[c] \notin {"none", "stopping", "starting"}
    BY <1>5 DEF ClientInv, NotBegun
  <2> QED BY <1>1, <1>5, <2>1, <2>3, <2>4 DEF ClientInv, NoStream
<1> QED BY <1>3, <1>4, <1>5
-----------------------------------------------------------------------------
LEMMA StopCallAwaits ==
  ASSUME TypeOK, NEW x \in Callers, NEW c \in Clients, StopCall(x, c)
  PROVE  /\ stopped'[c]
         /\ \A d \in Clients : stopped[d] => stopped'[d]
         /\ \A y \in Callers : y # x => awaiting'[y] = awaiting[y]
         /\ awaiting'[x].of = c
<1>1. stopped' = [stopped EXCEPT ![c] = TRUE]
  BY DEF StopCall
<1>2. PICK on : awaiting' = [awaiting EXCEPT ![x] = [of |-> c, on |-> on]]
  BY DEF StopCall
<1>3. awaiting'[x] = [of |-> c, on |-> on]
  BY <1>2 DEF TypeOK
<1>4. \A y \in Callers : y # x => awaiting'[y] = awaiting[y]
  BY <1>2 DEF TypeOK
<1>5. stopped'[c] /\ \A d \in Clients : stopped[d] => stopped'[d]
  BY <1>1 DEF TypeOK
<1> QED BY <1>3, <1>4, <1>5

(* The calls after one more stop(). *)
LEMMA StopCallIsHeard ==
  ASSUME Inv, NEW x \in Callers, NEW c \in Clients, StopCall(x, c),
         \A d \in Clients :
           handler'[d] = IF d = x THEN "stopping" ELSE handler[d]
  PROVE  CallInv'
<1>1. /\ stopped'[c]
      /\ \A d \in Clients : stopped[d] => stopped'[d]
      /\ \A y \in Callers : y # x => awaiting'[y] = awaiting[y]
      /\ awaiting'[x].of = c
  BY StopCallAwaits DEF Inv
<1>2. \A y \in Callers : awaiting[y].of \in Clients \cup {"none"}
  BY DEF Inv, TypeOK
<1>3. ASSUME NEW d \in Clients, handler'[d] = "none"
      PROVE  awaiting'[d] = NoCall
  BY <1>1, <1>3, CallTypes DEF CallInv, Inv
<1>4. ASSUME NEW d \in Clients, handler'[d] = "stopping",
             awaiting'[d].of # "none"
      PROVE  stopped'[awaiting'[d].of]
  BY <1>1, <1>2, <1>4, CallTypes DEF CallInv, Inv
<1>5. ASSUME awaiting'["disconnect"].of # "none"
      PROVE  stopped'[awaiting'["disconnect"].of]
  BY <1>1, <1>2, <1>5, CallTypes DEF CallInv, Inv
<1> QED BY <1>3, <1>4, <1>5 DEF CallInv

LEMMA ConnectKeeps ==
  ASSUME Inv, NEW c \in Clients, Connect(c)
  PROVE  (\A d \in Clients : ClientInv(d)') /\ CallInv'
<1> USE DEF Inv
<1> c \in Callers
  BY CallTypes
<1>1. /\ handler' = [handler EXCEPT ![c] = "stopping"]
      /\ UNCHANGED <<held, active, worker, task, stream>>
      /\ Quiet /\ handler[c] = "none"
  BY DEF Connect, clientVars
<1>2. ASSUME NEW d \in Clients
      PROVE  /\ handler'[d] = IF d = c THEN "stopping" ELSE handler[d]
             /\ held'[d] = held[d] /\ active'[d] = active[d]
             /\ worker'[d] = worker[d] /\ task'[d] = task[d]
             /\ stream'[d] = stream[d]
  BY <1>1 DEF TypeOK
<1>3. CASE current = "none"
  <2>1. UNCHANGED <<awaiting, stopped, left, join, channel>>
    BY <1>3 DEF Connect
  <2>2. ASSUME NEW d \in Clients PROVE ClientInv(d)'
    <3>1. ClientInv(d)
      OBVIOUS
    <3> QED BY <1>1, <1>2, <2>1, <3>1 DEF ClientInv, NotBegun, NoStream
  <2>3. CallInv'
    BY <1>1, <1>2, <2>1 DEF CallInv, NoCall
  <2> QED BY <2>2, <2>3
<1>4. CASE current # "none"
  <2>1. current \in Clients /\ StopCall(c, current)
    BY <1>4 DEF Connect, TypeOK
  <2>2. ASSUME NEW d \in Clients PROVE ClientInv(d)'
    BY <1>1, <1>2, <2>1, StopCallKeeps
  <2>3. CallInv'
    BY <1>2, <2>1, StopCallIsHeard
  <2> QED BY <2>2, <2>3
<1> QED BY <1>3, <1>4

LEMMA DisconnectKeeps ==
  ASSUME Inv, Disconnect
  PROVE  (\A d \in Clients : ClientInv(d)') /\ CallInv'
<1> USE DEF Inv
<1> "disconnect" \in Callers
  BY CallTypes
<1>1. Quiet /\ UNCHANGED <<handler, held, active, worker, task, stream>>
  BY DEF Disconnect, clientVars
<1>2. CASE current = "none"
  <2>1. UNCHANGED <<awaiting, stopped, left, join, channel>>
    BY <1>2 DEF Disconnect
  <2> QED BY <1>1, <2>1 DEF ClientInv, NotBegun, NoStream, CallInv
<1>3. CASE current # "none"
  <2>1. current \in Clients /\ StopCall("disconnect", current)
    BY <1>3 DEF Disconnect, TypeOK
  <2>2. ASSUME NEW d \in Clients PROVE ClientInv(d)'
    BY <1>1, <2>1, StopCallKeeps
  <2>3. CallInv'
    BY <1>1, <2>1, StopCallIsHeard, Names
  <2> QED BY <2>2, <2>3
<1> QED BY <1>2, <1>3

(* A step that leaves the calls alone, or ends one, keeps CallInv. *)
LEMMA CallsKeep ==
  ASSUME Inv,
         \A d \in Clients : stopped[d] => stopped'[d],
         \A d \in Clients : handler'[d] = "none" => handler[d] = "none",
         \A d \in Clients : handler'[d] = "stopping" => handler[d] = "stopping",
         \A x \in Callers : \/ awaiting'[x] = awaiting[x]
                            \/ awaiting'[x] = NoCall
                            \/ /\ x # "disconnect"
                               /\ handler'[x] \notin {"none", "stopping"}
  PROVE  CallInv'
<1>1. \A x \in Callers : awaiting[x].of \in Clients \cup {"none"}
  BY DEF Inv, TypeOK
<1>2. ASSUME NEW d \in Clients, handler'[d] = "none"
      PROVE  awaiting'[d] = NoCall
  BY <1>2, CallTypes, Names DEF CallInv, Inv
<1>3. ASSUME NEW d \in Clients, handler'[d] = "stopping",
             awaiting'[d].of # "none"
      PROVE  stopped'[awaiting'[d].of]
  BY <1>1, <1>3, CallTypes, Names DEF CallInv, Inv, NoCall
<1>4. ASSUME awaiting'["disconnect"].of # "none"
      PROVE  stopped'[awaiting'["disconnect"].of]
  BY <1>1, <1>4, CallTypes DEF CallInv, Inv, NoCall
<1> QED BY <1>2, <1>3, <1>4 DEF CallInv

LEMMA MakeClientKeeps ==
  ASSUME Inv, NEW c \in Clients, MakeClient(c)
  PROVE  (\A d \in Clients : ClientInv(d)') /\ CallInv'
<1> USE DEF Inv
<1> c \in Callers
  BY CallTypes
<1> DEFINE e == awaiting[c].of
<1>1. /\ handler' = [handler EXCEPT ![c] = "starting"]
      /\ worker' = [worker EXCEPT ![c] = "up"]
      /\ task' = [task EXCEPT ![c] = "starting"]
      /\ awaiting' = [awaiting EXCEPT ![c] = NoCall]
      /\ UNCHANGED <<stopped, stream, join, left, channel>>
      /\ handler[c] = "stopping" /\ StopEnds(e)
  BY DEF MakeClient, roomVars
<1>2. e \in Clients \cup {"none"}
  BY CallTypes DEF TypeOK
<1>3. e # "none" => stopped[e]
  BY <1>1 DEF CallInv
<1>4. ASSUME NEW d \in Clients
      PROVE  /\ handler'[d] = IF d = c THEN "starting" ELSE handler[d]
             /\ worker'[d] = IF d = c THEN "up" ELSE worker[d]
             /\ task'[d] = IF d = c THEN "starting" ELSE task[d]
  BY <1>1 DEF TypeOK
<1>5. ASSUME NEW d \in Clients
      PROVE  \/ active'[d] = active[d] /\ held'[d] = held[d]
             \/ active'[d] = "none" /\ held'[d] = FALSE /\ stopped[d]
  <2>1. CASE e = "none"
    BY <1>1, <2>1 DEF StopEnds, clientVars
  <2>2. CASE e # "none"
    <3>1. /\ active' = [active EXCEPT ![e] = "none"]
          /\ held' = [held EXCEPT ![e] = FALSE]
      BY <1>1, <2>2 DEF StopEnds
    <3>2. CASE d = e
      BY <1>3, <2>2, <3>1, <3>2 DEF TypeOK
    <3>3. CASE d # e
      BY <3>1, <3>3 DEF TypeOK
    <3> QED BY <3>2, <3>3
  <2> QED BY <2>1, <2>2
<1>6. ASSUME NEW d \in Clients PROVE ClientInv(d)'
  <2>1. ClientInv(d)
    OBVIOUS
  <2>2. CASE d = c
    <3>1. NotBegun(d)
      BY <1>1, <2>1, <2>2 DEF ClientInv
    <3>2. /\ handler'[d] = "starting" /\ worker'[d] = "up"
          /\ task'[d] = "starting"
          /\ stream'[d] = stream[d] /\ join'[d] = join[d]
          /\ left'[d] = left[d] /\ channel'[d] = channel[d]
      BY <1>1, <1>4, <2>2
    <3>3. active'[d] = "none" /\ ~held'[d]
      BY <1>5, <3>1 DEF NotBegun
    <3> QED BY <3>1, <3>2, <3>3 DEF ClientInv, NotBegun
  <2>3. CASE d # c
    <3>1. /\ handler'[d] = handler[d] /\ worker'[d] = worker[d]
          /\ task'[d] = task[d]
          /\ stream'[d] = stream[d] /\ join'[d] = join[d]
          /\ left'[d] = left[d] /\ channel'[d] = channel[d]
          /\ stopped'[d] = stopped[d]
      BY <1>1, <1>4, <2>3
    <3>2. CASE active'[d] = active[d] /\ held'[d] = held[d]
      BY <2>1, <3>1, <3>2, SameKeeps DEF Same
    <3>3. CASE active'[d] = "none" /\ held'[d] = FALSE /\ stopped[d]
      BY <2>1, <3>1, <3>3 DEF ClientInv, NotBegun, NoStream
    <3> QED BY <1>5, <3>2, <3>3
  <2> QED BY <2>2, <2>3
<1>7. CallInv'
  <2>1. \A x \in Callers : awaiting'[x] = awaiting[x] \/ awaiting'[x] = NoCall
    BY <1>1 DEF TypeOK
  <2> QED BY <1>1, <1>4, <2>1, CallsKeep
<1> QED BY <1>6, <1>7

LEMMA ConnectClientKeeps ==
  ASSUME Inv, NEW c \in Clients, ConnectClient(c)
  PROVE  (\A d \in Clients : ClientInv(d)') /\ CallInv'
<1> USE DEF Inv
<1>1. /\ handler' = [handler EXCEPT ![c] = "connecting"]
      /\ task' = [task EXCEPT ![c] = IF stopped[c] THEN @ ELSE "connecting"]
      /\ UNCHANGED <<active, awaiting, stopped, worker, stream, left, channel>>
      /\ handler[c] = "starting"
  BY DEF ConnectClient
<1>2. ASSUME NEW d \in Clients
      PROVE  /\ handler'[d] = IF d = c THEN "connecting" ELSE handler[d]
             /\ d # c => task'[d] = task[d]
             /\ stopped[d] => task'[d] = task[d]
  BY <1>1 DEF TypeOK
<1>3. ASSUME NEW d \in Clients
      PROVE  \/ held'[d] = held[d] /\ join'[d] = join[d]
             \/ d = c /\ held'[d] = TRUE /\ join'[d] = "pending"
  <2>1. CASE UNCHANGED <<held, join>>
    BY <2>1
  <2>2. CASE ~UNCHANGED <<held, join>>
    <3>1. /\ held' = [held EXCEPT ![c] = TRUE]
          /\ join' = [join EXCEPT ![c] = "pending"]
      BY <2>2 DEF ConnectClient
    <3> QED BY <3>1 DEF TypeOK
  <2> QED BY <2>1, <2>2
<1>4. ASSUME NEW d \in Clients PROVE ClientInv(d)'
  <2>1. ClientInv(d)
    OBVIOUS
  <2>2. CASE d = c
    <3>1. NotBegun(d)
      BY <1>1, <2>1, <2>2 DEF ClientInv
    <3>2. /\ handler'[d] = "connecting" /\ active'[d] = active[d]
          /\ stopped'[d] = stopped[d] /\ worker'[d] = worker[d]
          /\ stream'[d] = stream[d]
          /\ left'[d] = left[d] /\ channel'[d] = channel[d]
          /\ stopped[d] => task'[d] = task[d]
      BY <1>1, <1>2, <2>2
    <3>3. CASE held'[d] = held[d] /\ join'[d] = join[d]
      BY <3>1, <3>2, <3>3 DEF ClientInv, NotBegun, NoStream
    <3>4. CASE held'[d] = TRUE /\ join'[d] = "pending"
      BY <3>1, <3>2, <3>4 DEF ClientInv, NotBegun, NoStream
    <3> QED BY <1>3, <3>3, <3>4
  <2>3. CASE d # c
    BY <1>1, <1>2, <1>3, <2>1, <2>3, SameKeeps DEF Same
  <2> QED BY <2>2, <2>3
<1>5. CallInv'
  BY <1>1, <1>2, CallsKeep
<1> QED BY <1>4, <1>5

LEMMA WorkerWinsKeeps ==
  ASSUME Inv, NEW c \in Clients, WorkerWins(c)
  PROVE  (\A d \in Clients : ClientInv(d)') /\ CallInv'
<1> USE DEF Inv
<1> c \in Callers
  BY CallTypes
<1>1. /\ active' = [active EXCEPT ![c] = "worker"]
      /\ UNCHANGED <<held, stopped, worker, task, stream>>
      /\ handler[c] = "connecting"
  BY DEF WorkerWins, rpcVars, workerVars
<1>2. CASE join[c] = "none"
  <2>1. /\ handler' = [handler EXCEPT ![c] = "connected"]
        /\ UNCHANGED <<awaiting, left, join, channel>>
    BY <1>2 DEF WorkerWins, Connected
  <2>2. ASSUME NEW d \in Clients PROVE ClientInv(d)'
    <3>1. ClientInv(d)
      OBVIOUS
    <3>2. CASE d = c
      <4>1. handler'[d] = "connected" /\ active'[d] = "worker"
        BY <1>1, <2>1, <3>2 DEF TypeOK
      <4> QED BY <1>1, <1>2, <2>1, <3>1, <3>2, <4>1 DEF ClientInv, NoStream
    <3>3. CASE d # c
      <4>1. handler'[d] = handler[d] /\ active'[d] = active[d]
        BY <1>1, <2>1, <3>3 DEF TypeOK
      <4> QED BY <1>1, <2>1, <3>1, <4>1, SameKeeps DEF Same
    <3> QED BY <3>2, <3>3
  <2>3. \A d \in Clients : handler'[d] = handler[d] \/ handler'[d] = "connected"
    BY <2>1 DEF TypeOK
  <2>4. CallInv'
    BY <1>1, <2>1, <2>3, CallsKeep
  <2> QED BY <2>2, <2>4
<1>3. CASE join[c] # "none"
  <2>1. /\ handler' = [handler EXCEPT ![c] = "won"]
        /\ StopTrystero(c) /\ AwaitRoom(c)
    BY <1>3 DEF WorkerWins
  <2>2. ASSUME NEW d \in Clients PROVE ClientInv(d)'
    <3>1. ClientInv(d)
      OBVIOUS
    <3>2. CASE d = c
      <4>1. handler'[d] = "won" /\ active'[d] = "worker"
        BY <1>1, <2>1, <3>2 DEF TypeOK
      <4>2. /\ left'[d] /\ join'[d] # "pending" /\ channel'[d] # "open"
            /\ join'[d] # "none"
        BY <1>3, <2>1, <3>2, StopTrysteroKeeps
      <4> QED BY <1>1, <3>1, <4>1, <4>2 DEF ClientInv, NoStream
    <3>3. CASE d # c
      <4>1. handler'[d] = handler[d] /\ active'[d] = active[d]
        BY <1>1, <2>1, <3>3 DEF TypeOK
      <4>2. left'[d] = left[d] /\ join'[d] = join[d] /\ channel'[d] = channel[d]
        BY <2>1, <3>3, StopTrysteroKeeps
      <4> QED BY <1>1, <3>1, <4>1, <4>2, SameKeeps DEF Same
    <3> QED BY <3>2, <3>3
  <2>3. /\ handler'[c] = "won"
        /\ \A d \in Clients : d # c => handler'[d] = handler[d]
        /\ \A x \in Callers : x # c => awaiting'[x] = awaiting[x]
    BY <2>1 DEF TypeOK, AwaitRoom
  <2>4. CallInv'
    BY <1>1, <2>3, CallsKeep, Names
  <2> QED BY <2>2, <2>4
<1> QED BY <1>2, <1>3

LEMMA TrysteroWinsKeeps ==
  ASSUME Inv, NEW c \in Clients, TrysteroWins(c)
  PROVE  (\A d \in Clients : ClientInv(d)') /\ CallInv'
<1> USE DEF Inv
<1>1. /\ active' = [active EXCEPT ![c] = "trystero"]
      /\ handler' = [handler EXCEPT ![c] = "connected"]
      /\ UNCHANGED <<held, awaiting, task, left, join, channel>>
      /\ handler[c] = "connecting" /\ join[c] = "resolved" /\ Cancel(c)
  BY DEF TrysteroWins, Connected, roomVars
<1>2. ASSUME NEW d \in Clients
      PROVE  /\ handler'[d] = IF d = c THEN "connected" ELSE handler[d]
             /\ active'[d] = IF d = c THEN "trystero" ELSE active[d]
             /\ stopped[d] => stopped'[d]
             /\ d # c => /\ stopped'[d] = stopped[d] /\ worker'[d] = worker[d]
                         /\ stream'[d] = stream[d]
  <2>1. CASE stopped[c]
    BY <1>1, <2>1 DEF TypeOK, Cancel, rpcVars
  <2>2. CASE ~stopped[c]
    BY <1>1, <2>2 DEF TypeOK, Cancel, Terminate
  <2> QED BY <2>1, <2>2
<1>3. ASSUME NEW d \in Clients PROVE ClientInv(d)'
  <2>1. ClientInv(d)
    OBVIOUS
  <2>2. CASE d # c
    BY <1>1, <1>2, <2>1, <2>2, SameKeeps DEF Same
  <2>3. CASE d = c
    <3>1. /\ handler'[d] = "connected" /\ active'[d] = "trystero"
          /\ left'[d] = left[d] /\ join'[d] = join[d]
          /\ channel'[d] = channel[d] /\ task'[d] = task[d]
      BY <1>1, <1>2, <2>3
    <3>2. CASE stopped[c]
      <4>1. /\ stopped'[d] = stopped[d] /\ worker'[d] = worker[d]
            /\ stream'[d] = stream[d]
        BY <1>1, <3>2 DEF Cancel, rpcVars
      <4>2. NoStream(d)
        BY <1>1, <2>1, <2>3, <3>2 DEF ClientInv
      <4> QED BY <2>1, <2>3, <3>1, <3>2, <4>1, <4>2 DEF ClientInv, NoStream
    <3>3. CASE ~stopped[c]
      <4>1. /\ stopped'[d] /\ worker'[d] = "terminated"
            /\ stream'[d] # "open"
        BY <1>1, <2>3, <3>3 DEF Cancel, Terminate, TypeOK
      <4> QED BY <2>1, <3>1, <4>1 DEF ClientInv, NoStream
    <3> QED BY <3>2, <3>3
  <2> QED BY <2>2, <2>3
<1>4. CallInv'
  BY <1>1, <1>2, CallsKeep
<1> QED BY <1>3, <1>4

LEMMA CaughtKeeps ==
  ASSUME Inv, NEW c \in Clients, Caught(c),
         handler[c] \notin {"none", "stopping"},
         \A d \in Clients : d # c => held'[d] = held[d]
  PROVE  (\A d \in Clients : ClientInv(d)') /\ CallInv'
<1> USE DEF Inv
<1> c \in Callers
  BY CallTypes
<1>1. /\ handler' = [handler EXCEPT ![c] = "failed"]
      /\ stopped' = [stopped EXCEPT ![c] = TRUE]
      /\ UNCHANGED <<active, worker, task, stream>>
      /\ StopCall(c, c)
  BY DEF Caught, StopCall
<1>2. ASSUME NEW d \in Clients
      PROVE  /\ handler'[d] = IF d = c THEN "failed" ELSE handler[d]
             /\ stopped[d] => stopped'[d]
             /\ d # c => stopped'[d] = stopped[d]
  BY <1>1 DEF TypeOK
<1>3. ASSUME NEW d \in Clients PROVE ClientInv(d)'
  <2>1. ClientInv(d)
    OBVIOUS
  <2>2. CASE d # c
    <3>1. left'[d] = left[d] /\ join'[d] = join[d] /\ channel'[d] = channel[d]
      BY <1>1, <2>2, StopTrysteroKeeps DEF StopCall
    <3> QED BY <1>1, <1>2, <2>1, <2>2, <3>1, SameKeeps DEF Same
  <2>3. CASE d = c
    <3>1. handler'[d] = "failed" /\ stopped'[d]
      BY <1>1, <2>3 DEF TypeOK
    <3>2. CASE held[c]
      <4>1. /\ left'[d] /\ join'[d] # "pending" /\ channel'[d] # "open"
            /\ join'[d] = "none" <=> join[d] = "none"
            /\ channel'[d] = "none" <=> channel[d] = "none"
        BY <1>1, <2>3, <3>2, StopTrysteroKeeps DEF StopCall
      <4> QED BY <1>1, <2>1, <3>1, <4>1 DEF ClientInv, NoStream
    <3>3. CASE ~held[c]
      <4>1. UNCHANGED <<left, join, channel>>
        BY <1>1, <3>3 DEF StopCall
      <4> QED BY <1>1, <2>1, <3>1, <4>1 DEF ClientInv, NoStream
    <3> QED BY <3>2, <3>3
  <2> QED BY <2>2, <2>3
<1>4. CallInv'
  <2>1. \A x \in Callers : x # c => awaiting'[x] = awaiting[x]
    BY <1>1, StopCallAwaits
  <2> QED BY <1>2, <2>1, CallsKeep, Names
<1> QED BY <1>3, <1>4

LEMMA NobodyWinsKeeps ==
  ASSUME Inv, NEW c \in Clients, NobodyWins(c)
  PROVE  (\A d \in Clients : ClientInv(d)') /\ CallInv'
<1> USE DEF Inv
<1>1. CASE join[c] = "none"
  BY <1>1, CaughtKeeps DEF NobodyWins
<1>2. CASE join[c] # "none"
  <2>1. /\ handler' = [handler EXCEPT ![c] = "lost"]
        /\ StopTrystero(c) /\ AwaitRoom(c)
        /\ UNCHANGED <<held, active, stopped, worker, task, stream>>
        /\ handler[c] = "connecting"
    BY <1>2 DEF NobodyWins, clientVars, rpcVars, workerVars
  <2>2. ASSUME NEW d \in Clients PROVE ClientInv(d)'
    <3>1. ClientInv(d)
      OBVIOUS
    <3>2. CASE d = c
      <4>1. handler'[d] = "lost"
        BY <2>1, <3>2 DEF TypeOK
      <4>2. /\ left'[d] /\ join'[d] # "pending" /\ channel'[d] # "open"
            /\ join'[d] # "none"
        BY <1>2, <2>1, <3>2, StopTrysteroKeeps
      <4> QED BY <2>1, <3>1, <4>1, <4>2 DEF ClientInv, NoStream
    <3>3. CASE d # c
      <4>1. handler'[d] = handler[d]
        BY <2>1, <3>3 DEF TypeOK
      <4>2. left'[d] = left[d] /\ join'[d] = join[d] /\ channel'[d] = channel[d]
        BY <2>1, <3>3, StopTrysteroKeeps
      <4> QED BY <2>1, <3>1, <4>1, <4>2, SameKeeps DEF Same
    <3> QED BY <3>2, <3>3
  <2>3. /\ handler'[c] = "lost"
        /\ \A d \in Clients : d # c => handler'[d] = handler[d]
        /\ \A x \in Callers : x # c => awaiting'[x] = awaiting[x]
    BY <2>1, CallTypes DEF TypeOK, AwaitRoom
  <2>4. CallInv'
    BY <2>1, <2>3, CallsKeep, Names
  <2> QED BY <2>2, <2>4
<1> QED BY <1>1, <1>2

(* The end of a handler, or of disconnect(). *)
LEMMA EndKeeps ==
  ASSUME Inv,
         UNCHANGED <<stopped, worker, task, stream, left, join, channel>>,
         \A x \in Callers : awaiting'[x] = awaiting[x] \/ awaiting'[x] = NoCall,
         \A d \in Clients :
           /\ \/ handler'[d] = handler[d]
              \/ handler'[d] \in {"connected", "over"}
           /\ active'[d] = active[d] \/ active'[d] = "none"
           /\ held'[d] = held[d] \/ held'[d] = FALSE
           /\ held'[d] = held[d] \/ stopped[d] \/ handler'[d] # "connecting"
  PROVE  (\A d \in Clients : ClientInv(d)') /\ CallInv'
<1> USE DEF Inv
<1>1. ASSUME NEW d \in Clients PROVE ClientInv(d)'
  <2>1. ClientInv(d)
    OBVIOUS
  <2>2. CASE handler'[d] \in {"connected", "over"}
    BY <2>1, <2>2 DEF ClientInv, NoStream
  <2>3. CASE handler'[d] = handler[d]
    BY <2>1, <2>3 DEF ClientInv, NotBegun, NoStream
  <2> QED BY <2>2, <2>3
<1>2. CallInv'
  BY CallsKeep
<1> QED BY <1>1, <1>2

LEMMA WorkerHasWonKeeps ==
  ASSUME Inv, NEW c \in Clients, WorkerHasWon(c)
  PROVE  (\A d \in Clients : ClientInv(d)') /\ CallInv'
<1>1. /\ handler' = [handler EXCEPT ![c] = "connected"]
      /\ held' = [held EXCEPT ![c] = FALSE]
      /\ awaiting' = [awaiting EXCEPT ![c] = NoCall]
      /\ UNCHANGED <<active, stopped, worker, task, stream, left, join,
                     channel>>
  BY DEF WorkerHasWon, Connected, rpcVars, workerVars, roomVars
<1>2. \A x \in Callers : awaiting'[x] = awaiting[x] \/ awaiting'[x] = NoCall
  BY <1>1 DEF Inv, TypeOK
<1>3. ASSUME NEW d \in Clients
      PROVE  /\ handler'[d] = handler[d] \/ handler'[d] = "connected"
             /\ held'[d] = held[d] \/ held'[d] = FALSE
             /\ held'[d] = held[d] \/ handler'[d] = "connected"
  BY <1>1 DEF Inv, TypeOK
<1> QED BY <1>1, <1>2, <1>3, EndKeeps

LEMMA FailedStopsKeeps ==
  ASSUME Inv, NEW c \in Clients, FailedStops(c)
  PROVE  (\A d \in Clients : ClientInv(d)') /\ CallInv'
<1>1. /\ handler' = [handler EXCEPT ![c] = "over"]
      /\ held' = [held EXCEPT ![c] = FALSE]
      /\ active' = [active EXCEPT ![c] = "none"]
      /\ awaiting' = [awaiting EXCEPT ![c] = NoCall]
      /\ UNCHANGED <<stopped, worker, task, stream, left, join, channel>>
  BY Names DEF FailedStops, StopEnds, rpcVars, workerVars, roomVars
<1>2. \A x \in Callers : awaiting'[x] = awaiting[x] \/ awaiting'[x] = NoCall
  BY <1>1 DEF Inv, TypeOK
<1>3. ASSUME NEW d \in Clients
      PROVE  /\ handler'[d] = handler[d] \/ handler'[d] = "over"
             /\ active'[d] = active[d] \/ active'[d] = "none"
             /\ held'[d] = held[d] \/ held'[d] = FALSE
             /\ held'[d] = held[d] \/ handler'[d] = "over"
  BY <1>1 DEF Inv, TypeOK
<1> QED BY <1>1, <1>2, <1>3, EndKeeps

LEMMA DisconnectEndsKeeps ==
  ASSUME Inv, DisconnectEnds
  PROVE  (\A d \in Clients : ClientInv(d)') /\ CallInv'
<1> DEFINE e == awaiting["disconnect"].of
<1>1. /\ awaiting' = [awaiting EXCEPT !["disconnect"] = NoCall]
      /\ UNCHANGED <<handler, stopped, worker, task, stream, left, join,
                     channel>>
      /\ StopEnds(e)
  BY DEF DisconnectEnds, rpcVars, workerVars, roomVars
<1>2. \A x \in Callers : awaiting'[x] = awaiting[x] \/ awaiting'[x] = NoCall
  BY <1>1 DEF Inv, TypeOK
<1>3. ASSUME NEW d \in Clients
      PROVE  /\ active'[d] = active[d] \/ active'[d] = "none"
             /\ held'[d] = held[d] \/ held'[d] = FALSE
             /\ held'[d] = held[d] \/ stopped[d]
  <2>1. CASE e = "none"
    BY <1>1, <2>1 DEF StopEnds, clientVars
  <2>2. CASE e # "none"
    <3>1. /\ active' = [active EXCEPT ![e] = "none"]
          /\ held' = [held EXCEPT ![e] = FALSE]
          /\ stopped[e]
      BY <1>1, <2>2 DEF StopEnds, Inv, CallInv
    <3>2. CASE d = e
      BY <3>1, <3>2 DEF Inv, TypeOK
    <3>3. CASE d # e
      BY <3>1, <3>3 DEF Inv, TypeOK
    <3> QED BY <3>2, <3>3
  <2> QED BY <2>1, <2>2
<1> QED BY <1>1, <1>2, <1>3, EndKeeps
-----------------------------------------------------------------------------
(* Messages, rooms and workers leave the calls alone. *)
LEMMA EventCalls ==
  ASSUME Inv, UNCHANGED <<handler, awaiting, stopped>>
  PROVE  CallInv'
BY DEF Inv, CallInv

LEMMA DeliverKeeps ==
  ASSUME Inv, NEW c \in Clients, Deliver(c)
  PROVE  (\A d \in Clients : ClientInv(d)') /\ CallInv'
<1> USE DEF Inv
<1>1. UNCHANGED <<handler, awaiting, held, active, stopped, task, left, join,
                  channel>>
  BY DEF Deliver, callVars, clientVars, roomVars
<1>2. ASSUME NEW d \in Clients
      PROVE  \/ worker'[d] = worker[d] /\ stream'[d] = stream[d]
             \/ /\ worker'[d] = "terminated" /\ stream'[d] # "open"
                /\ (stream'[d] = "none" <=> stream[d] = "none")
  <2>1. CASE UNCHANGED <<worker, stream>>
    BY <2>1
  <2>2. CASE ~UNCHANGED <<worker, stream>>
    <3>1. Terminate(c)
      BY <2>2 DEF Deliver
    <3>2. CASE d = c
      BY <3>1, <3>2 DEF Terminate, TypeOK
    <3>3. CASE d # c
      BY <3>1, <3>3 DEF Terminate, TypeOK
    <3> QED BY <3>2, <3>3
  <2> QED BY <2>1, <2>2
<1>3. ASSUME NEW d \in Clients PROVE ClientInv(d)'
  <2>1. ClientInv(d)
    OBVIOUS
  <2> QED BY <1>1, <1>2, <2>1 DEF ClientInv, NotBegun, NoStream
<1> QED BY <1>1, <1>3, EventCalls

LEMMA RoomKeeps ==
  ASSUME Inv, NEW c \in Clients,
         \/ TrysteroOpens(c) \/ TrysteroTimesOut(c)
         \/ TrysteroEnds(c) \/ TrysteroFinal(c) \/ RoomLeft(c)
  PROVE  (\A d \in Clients : ClientInv(d)') /\ CallInv'
<1> USE DEF Inv
<1>1. UNCHANGED <<handler, awaiting, held, active, stopped, worker, task,
                  stream, left>>
  BY DEF TrysteroOpens, TrysteroTimesOut, TrysteroEnds, TrysteroFinal, RoomLeft,
         pageVars, callVars, clientVars, rpcVars, workerVars
<1>2. ASSUME NEW d \in Clients
      PROVE  \/ join'[d] = join[d] /\ channel'[d] = channel[d]
             \/ /\ join[d] = "pending" /\ ~left[d]
                /\ join'[d] = "resolved" /\ channel'[d] = "open"
             \/ /\ join[d] = "pending"
                /\ join'[d] = "rejected" /\ channel'[d] = channel[d]
             \/ /\ channel[d] = "open"
                /\ join'[d] = join[d] /\ channel'[d] = "over"
  <2>1. CASE TrysteroOpens(c)
    BY <2>1 DEF TrysteroOpens, TypeOK
  <2>2. CASE TrysteroTimesOut(c)
    BY <2>2 DEF TrysteroTimesOut, TypeOK
  <2>3. CASE TrysteroEnds(c)
    BY <2>3 DEF TrysteroEnds, TypeOK
  <2>4. CASE RoomLeft(c)
    BY <2>4 DEF RoomLeft
  <2>5. CASE TrysteroFinal(c)
    BY <2>5 DEF TrysteroFinal
  <2> QED BY <2>1, <2>2, <2>3, <2>4, <2>5
<1>3. ASSUME NEW d \in Clients PROVE ClientInv(d)'
  <2>1. ClientInv(d)
    OBVIOUS
  <2> QED BY <1>1, <1>2, <2>1 DEF ClientInv, NotBegun, NoStream
<1> QED BY <1>1, <1>3, EventCalls

LEMMA WorkerKeeps ==
  ASSUME Inv, NEW c \in Clients,
         \/ WorkerTask(c) \/ WorkerStop(c)
         \/ WorkerStreamEndsEarly(c) \/ WorkerStreamEnds(c)
  PROVE  (\A d \in Clients : ClientInv(d)') /\ CallInv'
<1> USE DEF Inv
<1>1. UNCHANGED <<handler, awaiting, held, active, stopped, worker, left, join,
                  channel>>
  BY DEF WorkerTask, WorkerStop, WorkerStarts, WorkerDials, WorkerConnects,
         WorkerStops, WorkerStopped, WorkerStreamEndsEarly, WorkerStreamEnds,
         callVars, clientVars, rpcVars, roomVars
<1>2. ASSUME NEW d \in Clients
      PROVE  \/ task'[d] = task[d] /\ stream'[d] = stream[d]
             \/ /\ worker[d] = "up" /\ task[d] \in {"connecting", "caching"}
             \/ /\ task'[d] = task[d] \/ task'[d] \in {"ready", "done"}
                /\ stream[d] # "none" /\ stream'[d] # "open"
             \/ /\ task'[d] \in {"ready", "done"} /\ stream'[d] = stream[d]
  <2>1. CASE WorkerStarts(c)
    BY <2>1 DEF WorkerStarts, TypeOK
  <2>2. CASE WorkerDials(c)
    BY <2>2 DEF WorkerDials, TypeOK
  <2>3. CASE WorkerConnects(c)
    BY <2>3 DEF WorkerConnects, TypeOK
  <2>4. CASE WorkerStops(c)
    BY <2>4 DEF WorkerStops, TypeOK
  <2>5. CASE WorkerStopped(c)
    BY <2>5 DEF WorkerStopped
  <2>6. CASE WorkerStreamEndsEarly(c)
    BY <2>6 DEF WorkerStreamEndsEarly, TypeOK
  <2>7. CASE WorkerStreamEnds(c)
    BY <2>7 DEF WorkerStreamEnds, TypeOK
  <2> QED BY <2>1, <2>2, <2>3, <2>4, <2>5, <2>6, <2>7 DEF WorkerTask, WorkerStop
<1>3. ASSUME NEW d \in Clients PROVE ClientInv(d)'
  <2>1. ClientInv(d)
    OBVIOUS
  <2>2. handler[d] \in {"none", "stopping", "starting"} => stream[d] = "none"
    BY <2>1 DEF ClientInv, NotBegun
  <2> QED BY <1>1, <1>2, <2>1, <2>2 DEF ClientInv, NotBegun, NoStream
<1> QED BY <1>1, <1>3, EventCalls

LEMMA NextInv == Inv /\ [Next]_vars => Inv'
<1> SUFFICES ASSUME Inv, [Next]_vars PROVE Inv'
  OBVIOUS
<1>1. TypeOK'
  BY NextTypes DEF Inv
<1>2. (\A d \in Clients : ClientInv(d)') /\ CallInv'
  <2>1. CASE UNCHANGED vars
    <3>1. UNCHANGED <<handler, awaiting, held, active, stopped, worker, task,
                      stream, left, join, channel>>
      BY <2>1 DEF vars, callVars, clientVars, rpcVars, workerVars, roomVars
    <3> QED BY <3>1 DEF Inv, ClientInv, NotBegun, NoStream, CallInv
  <2>2. CASE Disconnect \/ DisconnectEnds
    BY <2>2, DisconnectKeeps, DisconnectEndsKeeps
  <2>3. ASSUME NEW c \in Clients, Reaction(c)
        PROVE  (\A d \in Clients : ClientInv(d)') /\ CallInv'
    <3>1. CASE StartFails(c)
      BY <3>1, CaughtKeeps DEF StartFails
    <3>2. CASE NobodyHasWon(c)
      <4>1. \A d \in Clients : d # c => held'[d] = held[d]
        BY <3>2 DEF NobodyHasWon, Inv, TypeOK
      <4> QED BY <3>2, <4>1, CaughtKeeps DEF NobodyHasWon
    <3> QED BY <2>3, <3>1, <3>2, MakeClientKeeps, ConnectClientKeeps,
               WorkerWinsKeeps, WorkerHasWonKeeps, TrysteroWinsKeeps,
               NobodyWinsKeeps, FailedStopsKeeps DEF Reaction
  <2>4. ASSUME NEW c \in Clients, Connect(c) \/ Deliver(c)
        PROVE  (\A d \in Clients : ClientInv(d)') /\ CallInv'
    BY <2>4, ConnectKeeps, DeliverKeeps
  <2>5. ASSUME NEW c \in Clients,
               \/ TrysteroOpens(c) \/ TrysteroTimesOut(c)
               \/ TrysteroEnds(c) \/ TrysteroFinal(c) \/ RoomLeft(c)
        PROVE  (\A d \in Clients : ClientInv(d)') /\ CallInv'
    BY <2>5, RoomKeeps
  <2>6. ASSUME NEW c \in Clients,
               \/ WorkerTask(c) \/ WorkerStop(c)
               \/ WorkerStreamEndsEarly(c) \/ WorkerStreamEnds(c)
        PROVE  (\A d \in Clients : ClientInv(d)') /\ CallInv'
    BY <2>6, WorkerKeeps
  <2> QED BY <2>1, <2>2, <2>3, <2>4, <2>5, <2>6 DEF Next
<1> QED BY <1>1, <1>2 DEF Inv

LEMMA InvStopsLoser == Inv => LoserIsStopped
<1> SUFFICES ASSUME Inv, NEW c \in Clients
             PROVE  /\ active[c] = "worker" => /\ join[c] # "pending"
                                               /\ channel[c] # "open"
                    /\ active[c] = "trystero" => stopped[c] /\ stream[c] # "open"
  BY DEF LoserIsStopped
<1>1. ClientInv(c)
  BY DEF Inv
<1> QED BY <1>1 DEF ClientInv, NoStream

(* Once connect() of p2p-client.ts has chosen a transport, the other one   *)
(* has no channel and opens none, however its messages, the clicks of the  *)
(* user and the clients before it interleave.                              *)
THEOREM StopsTheLoser == Spec => []LoserIsStopped
<1>1. Inv /\ [Next]_vars => Inv'
  BY NextInv
<1> QED BY InitInv, <1>1, InvStopsLoser, PTL DEF Spec

-----------------------------------------------------------------------------
(* Nobody waits in vain.  What is said on the way to the page. *)
SaysIn(s, S) == \E i \in 1..Len(s) : s[i] \in S

Says(c, S) == SaysIn(toPage[c], S)

LEMMA SaysAppend ==
  ASSUME NEW s \in Seq(Message), NEW m \in Message, NEW S
  PROVE  SaysIn(Append(s, m), S) <=> SaysIn(s, S) \/ m \in S
<1>1. /\ Len(Append(s, m)) = Len(s) + 1
      /\ Append(s, m)[Len(s) + 1] = m
      /\ \A i \in 1..Len(s) : Append(s, m)[i] = s[i]
  OBVIOUS
<1>2. Len(s) \in Nat
  OBVIOUS
<1>3. 1..(Len(s) + 1) = 1..Len(s) \cup {Len(s) + 1}
  BY <1>2
<1> QED BY <1>1, <1>3 DEF SaysIn

LEMMA SaysTail ==
  ASSUME NEW s \in Seq(Message), s # << >>, NEW S
  PROVE  SaysIn(s, S) <=> SaysIn(Tail(s), S) \/ Head(s) \in S
<1>1. /\ Len(Tail(s)) = Len(s) - 1 /\ Len(s) \in Nat /\ Len(s) > 0
      /\ Head(s) = s[1]
      /\ \A i \in 1..Len(Tail(s)) : Tail(s)[i] = s[i + 1]
  OBVIOUS
<1>2. ASSUME SaysIn(s, S), Head(s) \notin S PROVE SaysIn(Tail(s), S)
  <2>1. PICK i \in 1..Len(s) : s[i] \in S
    BY <1>2 DEF SaysIn
  <2>2. i - 1 \in 1..Len(Tail(s)) /\ (i - 1) + 1 = i
    BY <1>1, <1>2, <2>1
  <2>3. Tail(s)[i - 1] = s[i]
    BY <1>1, <2>2
  <2> QED BY <2>1, <2>2, <2>3 DEF SaysIn
<1>3. ASSUME SaysIn(Tail(s), S) PROVE SaysIn(s, S)
  <2>1. PICK i \in 1..Len(Tail(s)) : Tail(s)[i] \in S
    BY <1>3 DEF SaysIn
  <2>2. i + 1 \in 1..Len(s) /\ s[i + 1] = Tail(s)[i]
    BY <1>1, <2>1
  <2> QED BY <2>1, <2>2 DEF SaysIn
<1>4. Head(s) \in S => SaysIn(s, S)
  <2>1. 1 \in 1..Len(s)
    BY <1>1
  <2> QED BY <1>1, <2>1 DEF SaysIn
<1> QED BY <1>2, <1>3, <1>4

LEMMA SaysNothing ==
  ASSUME NEW S
  PROVE  ~SaysIn(<< >>, S)
BY DEF SaysIn

(* Two messages at once are one after the other. *)
LEMMA SaysTwo ==
  ASSUME NEW s \in Seq(Message), NEW a \in Message, NEW b \in Message
  PROVE  /\ s \o <<a>> = Append(s, a)
         /\ s \o <<a, b>> = Append(Append(s, a), b)
<1>1. <<a>> \in Seq(Message) /\ <<a, b>> \in Seq(Message)
  OBVIOUS
<1>2. s \o <<a>> = Append(s, a)
  BY <1>1
<1>3. s \o <<a, b>> = Append(Append(s, a), b)
  BY <1>1
<1> QED BY <1>2, <1>3

(* What a client keeps to: it has a worker from the moment it is made, and *)
(* one that is gone was stopped; who asked the worker for something is     *)
(* answered, or will be while it is up.                                    *)
WorkerInv(c) ==
  /\ handler[c] \in {"none", "stopping"} <=> worker[c] = "none"
  /\ worker[c] = "none" => /\ stopTask[c] = "none" /\ start[c] = "none"
                           /\ dial[c] = "none" /\ toPage[c] = << >>
  /\ worker[c] = "terminated" \/ stopTask[c] # "none" => stopped[c]
  /\ handler[c] \in {"starting", "connecting"} => start[c] # "none"
  /\ handler[c] = "connecting" => dial[c] # "none"

StreamInv(c) ==
  /\ stream[c] = "open" => task[c] \in {"caching", "done"}
  /\ stream[c] = "aborted" => task[c] = "done"

AskInv(c) ==
  /\ start[c] = "pending" =>
       /\ worker[c] = "up"
       /\ task[c] = "starting" \/ Says(c, {"started", "startFailed"})
  /\ dial[c] = "pending" =>
       /\ worker[c] = "up"
       /\ \/ task[c] \in {"connecting", "caching"}
          \/ Says(c, {"opened", "openFailed"})
  /\ worker[c] = "up" =>
       (stopTask[c] = "done" <=> Says(c, {"stopped"}))

(* It has a room only once it has joined it, and has not left it only if   *)
(* it may still win there.                                                 *)
RoomInv(c) ==
  /\ join[c] = "none" => ~inRoom[c]
  /\ handler[c] \in {"won", "lost"} => left[c]
  /\ handler[c] \in {"failed", "over"} => left[c] \/ ~inRoom[c]

(* Whoever waits for a stop() has told worker and room. *)
WaitInv ==
  /\ current # "none" => worker[current] # "none"
  /\ \A x \in Callers :
       /\ "worker" \in awaiting[x].on =>
            awaiting[x].of \in Clients /\ stopTask[awaiting[x].of] # "none"
       /\ "room" \in awaiting[x].on =>
            awaiting[x].of \in Clients /\ left[awaiting[x].of]

OneInv(c) == WorkerInv(c) /\ StreamInv(c) /\ AskInv(c) /\ RoomInv(c)

GoesInv == WaitInv /\ \A c \in Clients : OneInv(c)

(* The guards of what happens by itself, as ENABLED is beyond the prover. *)
CanDeliver(c) == Quiet /\ worker[c] = "up" /\ toPage[c] # << >>
CanTimeOut(c) == Quiet /\ join[c] = "pending"
CanLeave(c) == Quiet /\ left[c] /\ inRoom[c]
CanTask(c) == /\ worker[c] = "up"
              /\ task[c] \in {"starting", "connecting", "caching"}
CanStop(c) == /\ worker[c] = "up"
              /\ \/ stopTask[c] = "asked"
                 \/ stopTask[c] = "running" /\ stream[c] # "aborted"
                 \/ stream[c] = "aborted" /\ task[c] = "done"

CanGo(c) == \/ CanDeliver(c) \/ CanTimeOut(c) \/ CanLeave(c)
            \/ CanTask(c) \/ CanStop(c)

(* Either a reaction of the page is due, or whoever has not come to the    *)
(* end of connect(), has a worker that was told to stop, or a room it is   *)
(* to leave, can go on, or the client can that it waits for: the safety    *)
(* halves of ConnectFinishes and StoppedIsGone.                            *)
NobodyIsStuck == Quiet =>
  \A c \in Clients :
    /\ handler[c] \notin {"none", "connected", "over"} =>
         \E d \in Clients \cap {c, awaiting[c].of} : CanGo(d)
    /\ stopTask[c] # "none" /\ worker[c] # "terminated" => CanGo(c)
    /\ (left[c] \/ handler[c] = "over") /\ inRoom[c] => CanGo(c)

LEMMA StoppingGoes ==
  ASSUME TypeOK, GoesInv, Quiet, NEW c \in Clients,
         stopTask[c] # "none", worker[c] # "terminated"
  PROVE  CanGo(c)
<1>1. OneInv(c)
  BY DEF GoesInv
<1>2. worker[c] = "up"
  BY <1>1 DEF OneInv, WorkerInv, TypeOK
<1>3. CASE stopTask[c] = "done"
  <2>1. SaysIn(toPage[c], {"stopped"})
    BY <1>1, <1>2, <1>3 DEF OneInv, AskInv, Says
  <2>2. toPage[c] # << >>
    BY <2>1, SaysNothing
  <2> QED BY <1>2, <2>2 DEF CanGo, CanDeliver
<1>4. CASE stopTask[c] \in {"asked", "running"}
  <2>1. stream[c] = "aborted" => task[c] = "done"
    BY <1>1 DEF OneInv, StreamInv
  <2> QED BY <1>2, <1>4, <2>1 DEF CanGo, CanStop
<1> QED BY <1>3, <1>4 DEF TypeOK

LEMMA LeavingGoes ==
  ASSUME TypeOK, GoesInv, Quiet, NEW c \in Clients,
         left[c] \/ handler[c] = "over", inRoom[c]
  PROVE  CanGo(c)
BY DEF GoesInv, OneInv, RoomInv, CanGo, CanLeave

LEMMA WaitingGoes ==
  ASSUME TypeOK, GoesInv, Quiet, NEW c \in Clients,
         handler[c] \in {"stopping", "won", "lost", "failed"}
  PROVE  \E d \in Clients \cap {c, awaiting[c].of} : CanGo(d)
<1>1. ~StopReturns(c) /\ c \in Callers
  BY CallTypes DEF Quiet, Ready
<1>2. \/ "worker" \in awaiting[c].on /\ worker[awaiting[c].of] # "terminated"
      \/ "room" \in awaiting[c].on /\ inRoom[awaiting[c].of]
  BY <1>1 DEF StopReturns
<1>3. /\ awaiting[c].of \in Clients
      /\ \/ stopTask[awaiting[c].of] # "none"
            /\ worker[awaiting[c].of] # "terminated"
         \/ left[awaiting[c].of] /\ inRoom[awaiting[c].of]
  BY <1>1, <1>2 DEF GoesInv, WaitInv
<1> QED BY <1>3, StoppingGoes, LeavingGoes

LEMMA ConnectingGoes ==
  ASSUME TypeOK, GoesInv, Quiet, NEW c \in Clients,
         handler[c] \in {"starting", "connecting"}
  PROVE  CanGo(c)
<1>1. OneInv(c) /\ ~Ready(c)
  BY DEF GoesInv, Quiet
<1>2. CASE handler[c] = "starting"
  <2>1. start[c] = "pending"
    BY <1>1, <1>2 DEF Ready
  <2>2. /\ worker[c] = "up"
        /\ task[c] = "starting" \/ SaysIn(toPage[c], {"started", "startFailed"})
    BY <1>1, <2>1 DEF OneInv, AskInv, Says
  <2>3. task[c] = "starting" \/ toPage[c] # << >>
    BY <2>2, SaysNothing
  <2> QED BY <2>2, <2>3 DEF CanGo, CanTask, CanDeliver
<1>3. CASE handler[c] = "connecting" /\ join[c] = "pending"
  BY <1>3 DEF CanGo, CanTimeOut
<1>4. CASE handler[c] = "connecting" /\ join[c] # "pending"
  <2>1. dial[c] = "pending"
    <3>1. dial[c] # "resolved" /\ join[c] # "resolved" /\ ~AllRejected(c)
      BY <1>1, <1>4 DEF Ready
    <3>2. join[c] \in {"none", "rejected"}
      BY <1>4, <3>1 DEF TypeOK, Promise
    <3>3. dial[c] # "none"
      BY <1>1, <1>4 DEF OneInv, WorkerInv
    <3> QED BY <3>1, <3>2, <3>3 DEF TypeOK, Promise, AllRejected
  <2>2. /\ worker[c] = "up"
        /\ \/ task[c] \in {"connecting", "caching"}
           \/ SaysIn(toPage[c], {"opened", "openFailed"})
    BY <1>1, <2>1 DEF OneInv, AskInv, Says
  <2>3. task[c] \in {"connecting", "caching"} \/ toPage[c] # << >>
    BY <2>2, SaysNothing
  <2> QED BY <2>2, <2>3 DEF CanGo, CanTask, CanDeliver
<1> QED BY <1>2, <1>3, <1>4

LEMMA SomebodyGoes == TypeOK /\ GoesInv => NobodyIsStuck
<1> SUFFICES ASSUME TypeOK, GoesInv, Quiet, NEW c \in Clients
             PROVE  /\ handler[c] \notin {"none", "connected", "over"} =>
                         \E d \in Clients \cap {c, awaiting[c].of} : CanGo(d)
                    /\ stopTask[c] # "none" /\ worker[c] # "terminated" => CanGo(c)
                    /\ (left[c] \/ handler[c] = "over") /\ inRoom[c] => CanGo(c)
  BY DEF NobodyIsStuck
<1>1. handler[c] \in {"starting", "connecting"} => CanGo(c)
  BY ConnectingGoes
<1>2. handler[c] \in {"stopping", "won", "lost", "failed"} =>
        \E d \in Clients \cap {c, awaiting[c].of} : CanGo(d)
  BY WaitingGoes
<1>3. handler[c] \notin {"none", "connected", "over"} =>
        handler[c] \in {"starting", "connecting", "stopping", "won", "lost", "failed"}
  BY DEF TypeOK
<1> QED BY <1>1, <1>2, <1>3, StoppingGoes, LeavingGoes
-----------------------------------------------------------------------------
(* A client none of whose part in this changes. *)
SameOne(c) == /\ handler'[c] = handler[c] /\ worker'[c] = worker[c]
              /\ stopped'[c] = stopped[c] /\ start'[c] = start[c]
              /\ dial'[c] = dial[c] /\ toPage'[c] = toPage[c]
              /\ task'[c] = task[c] /\ stopTask'[c] = stopTask[c]
              /\ stream'[c] = stream[c] /\ join'[c] = join[c]
              /\ left'[c] = left[c] /\ inRoom'[c] = inRoom[c]

LEMMA SameOneKeeps ==
  ASSUME NEW c \in Clients, OneInv(c), SameOne(c)
  PROVE  OneInv(c)'
<1>1. WorkerInv(c)' /\ StreamInv(c)'
  BY DEF OneInv, SameOne, WorkerInv, StreamInv
<1>2. AskInv(c)'
  BY DEF OneInv, SameOne, AskInv, Says
<1>3. RoomInv(c)'
  BY DEF OneInv, SameOne, RoomInv
<1> QED BY <1>1, <1>2, <1>3 DEF OneInv

(* A worker, once up, does not come back; a stop() is not taken back. *)
NothingBack == \A d \in Clients : /\ worker[d] # "none" => worker'[d] # "none"
                                  /\ stopTask[d] # "none" => stopTask'[d] # "none"
                                  /\ left[d] => left'[d]

(* The calls go on waiting for what they were told. *)
LEMMA WaitKeeps ==
  ASSUME TypeOK, WaitInv, NothingBack,
         \/ current' \in {current, "none"}
         \/ current' \in Clients /\ worker'[current'] # "none",
         \A x \in Callers :
           \/ awaiting'[x] = awaiting[x]
           \/ /\ "worker" \in awaiting'[x].on =>
                   /\ awaiting'[x].of \in Clients
                   /\ stopTask'[awaiting'[x].of] # "none"
              /\ "room" \in awaiting'[x].on =>
                   awaiting'[x].of \in Clients /\ left'[awaiting'[x].of]
  PROVE  WaitInv'
<1>1. current' # "none" => worker'[current'] # "none"
  BY DEF WaitInv, NothingBack, TypeOK
<1>2. ASSUME NEW x \in Callers
      PROVE  /\ "worker" \in awaiting'[x].on =>
                  /\ awaiting'[x].of \in Clients
                  /\ stopTask'[awaiting'[x].of] # "none"
             /\ "room" \in awaiting'[x].on =>
                  awaiting'[x].of \in Clients /\ left'[awaiting'[x].of]
  <2>1. CASE awaiting'[x] = awaiting[x]
    BY <2>1 DEF WaitInv, NothingBack
  <2>2. CASE awaiting'[x] # awaiting[x]
    BY <2>2
  <2> QED BY <2>1, <2>2
<1> QED BY <1>1, <1>2 DEF WaitInv

LEMMA NoCallWaits ==
  /\ "worker" \notin NoCall.on /\ "room" \notin NoCall.on
BY DEF NoCall

(* One more stop(). *)
LEMMA StopCallOne ==
  ASSUME TypeOK, NEW x \in Callers, NEW c \in Clients, StopCall(x, c)
  PROVE  /\ stopped'[c]
         /\ stopTask'[c] = IF stopped[c] THEN stopTask[c] ELSE "asked"
         /\ left[c] => left'[c]
         /\ held[c] => left'[c]
         /\ join'[c] = "none" <=> join[c] = "none"
         /\ \A d \in Clients : d # c =>
              /\ stopped'[d] = stopped[d] /\ stopTask'[d] = stopTask[d]
              /\ left'[d] = left[d] /\ join'[d] = join[d]
         /\ \A y \in Callers : y # x => awaiting'[y] = awaiting[y]
         /\ awaiting'[x].of = c
         /\ "worker" \in awaiting'[x].on => ~stopped[c]
         /\ "room" \in awaiting'[x].on => held[c]
<1>1. /\ stopped' = [stopped EXCEPT ![c] = TRUE]
      /\ stopTask' = [stopTask EXCEPT ![c] = IF stopped[c] THEN stopTask[c]
                                             ELSE "asked"]
  BY DEF StopCall
<1>2. /\ stopped'[c]
      /\ stopTask'[c] = IF stopped[c] THEN stopTask[c] ELSE "asked"
      /\ \A d \in Clients : d # c =>
           stopped'[d] = stopped[d] /\ stopTask'[d] = stopTask[d]
  BY <1>1 DEF TypeOK
<1>3. /\ left[c] => left'[c]
      /\ held[c] => left'[c]
      /\ join'[c] = "none" <=> join[c] = "none"
      /\ \A d \in Clients : d # c => left'[d] = left[d] /\ join'[d] = join[d]
  <2>1. CASE held[c]
    <3>1. /\ left' = [left EXCEPT ![c] = TRUE]
          /\ join' = [join EXCEPT ![c] = IF left[c] THEN join[c]
                                         ELSE Rejected(join[c])]
      BY <2>1 DEF StopCall, StopTrystero
    <3>2. Rejected(join[c]) = "none" <=> join[c] = "none"
      BY DEF Rejected
    <3> QED BY <3>1, <3>2 DEF TypeOK
  <2>2. CASE ~held[c]
    BY <2>2 DEF StopCall
  <2> QED BY <2>1, <2>2
<1>4. awaiting' = [awaiting EXCEPT ![x] =
        [of |-> c,
         on |-> (IF stopped[c] THEN {} ELSE {"worker"})
                \cup (IF held[c] /\ ~left[c] THEN {"room"} ELSE {})]]
  BY DEF StopCall
<1>5. /\ awaiting'[x].of = c
      /\ awaiting'[x].on = (IF stopped[c] THEN {} ELSE {"worker"})
                           \cup (IF held[c] /\ ~left[c] THEN {"room"} ELSE {})
      /\ \A y \in Callers : y # x => awaiting'[y] = awaiting[y]
  BY <1>4 DEF TypeOK
<1>6. /\ "worker" \in awaiting'[x].on => ~stopped[c]
      /\ "room" \in awaiting'[x].on => held[c]
  BY <1>5
<1> QED BY <1>2, <1>3, <1>5, <1>6

LEMMA StopCallGoes ==
  ASSUME TypeOK, GoesInv, NEW x \in Callers, NEW c \in Clients, StopCall(x, c),
         worker[c] # "none", current' \in {current, "none"},
         UNCHANGED <<worker, start, dial, toPage, task, stream, inRoom>>,
         \A d \in Clients :
           \/ handler'[d] = handler[d]
           \/ handler[d] = "none" /\ handler'[d] = "stopping"
           \/ /\ d = c /\ handler[d] \notin {"none", "stopping"}
              /\ handler'[d] = "failed" /\ (left[d] \/ ~inRoom[d])
  PROVE  GoesInv'
<1>1. WaitInv'
  <2>1. NothingBack
    BY StopCallOne DEF NothingBack
  <2>2. ASSUME NEW y \in Callers
        PROVE  \/ awaiting'[y] = awaiting[y]
               \/ /\ "worker" \in awaiting'[y].on =>
                       /\ awaiting'[y].of \in Clients
                       /\ stopTask'[awaiting'[y].of] # "none"
                  /\ "room" \in awaiting'[y].on =>
                       awaiting'[y].of \in Clients /\ left'[awaiting'[y].of]
    BY StopCallOne
  <2> QED BY <2>1, <2>2, WaitKeeps DEF GoesInv
<1>2. ASSUME NEW d \in Clients PROVE OneInv(d)'
  <2>1. OneInv(d)
    BY DEF GoesInv
  <2>2. /\ stopped[d] => stopped'[d]
        /\ stopTask'[d] = stopTask[d]
           \/ (stopTask'[d] = "asked" /\ stopTask[d] = "none" /\ d = c)
        /\ stopTask'[d] # stopTask[d] => stopped'[d]
        /\ left[d] => left'[d]
        /\ join'[d] = "none" <=> join[d] = "none"
    <3>1. stopTask[c] # "none" => stopped[c]
      BY DEF GoesInv, OneInv, WorkerInv
    <3> QED BY <3>1, StopCallOne
  <2>3. WorkerInv(d)'
    BY <2>1, <2>2 DEF OneInv, WorkerInv
  <2>4. StreamInv(d)'
    BY <2>1 DEF OneInv, StreamInv
  <2>5. AskInv(d)'
    <3>1. Says(d, {"started", "startFailed"})' <=> Says(d, {"started", "startFailed"})
      BY DEF Says
    <3>2. Says(d, {"opened", "openFailed"})' <=> Says(d, {"opened", "openFailed"})
      BY DEF Says
    <3>3. Says(d, {"stopped"})' <=> Says(d, {"stopped"})
      BY DEF Says
    <3> QED BY <2>1, <2>2, <3>1, <3>2, <3>3 DEF OneInv, AskInv
  <2>6. RoomInv(d)'
    BY <2>1, <2>2 DEF OneInv, RoomInv
  <2> QED BY <2>3, <2>4, <2>5, <2>6 DEF OneInv
<1> QED BY <1>1, <1>2 DEF GoesInv

LEMMA ClickGoes ==
  ASSUME TypeOK, GoesInv,
         Disconnect \/ \E c \in Clients : Connect(c)
  PROVE  GoesInv'
<1>1. ASSUME NEW c \in Clients, Connect(c) PROVE GoesInv'
  <2>1. /\ UNCHANGED <<current, worker, start, dial, toPage, task, stream, inRoom>>
        /\ handler' = [handler EXCEPT ![c] = "stopping"] /\ handler[c] = "none"
    BY <1>1 DEF Connect, pageVars
  <2>2. \A d \in Clients : \/ handler'[d] = handler[d]
                           \/ handler[d] = "none" /\ handler'[d] = "stopping"
    BY <2>1 DEF TypeOK
  <2>3. CASE current = "none"
    <3>1. UNCHANGED <<awaiting, stopped, stopTask, left, join>>
      BY <1>1, <2>3 DEF Connect
    <3>2. WaitInv'
      BY <2>1, <3>1 DEF GoesInv, WaitInv
    <3>3. ASSUME NEW d \in Clients PROVE OneInv(d)'
      <4>1. OneInv(d)
        BY DEF GoesInv
      <4>2. WorkerInv(d)' /\ StreamInv(d)' /\ RoomInv(d)'
        BY <2>1, <2>2, <3>1, <4>1 DEF OneInv, WorkerInv, StreamInv, RoomInv
      <4>3. AskInv(d)'
        BY <2>1, <3>1, <4>1 DEF OneInv, AskInv, Says
      <4> QED BY <4>2, <4>3 DEF OneInv
    <3> QED BY <3>2, <3>3 DEF GoesInv
  <2>4. CASE current # "none"
    <3>1. current \in Clients /\ worker[current] # "none"
      BY <2>4 DEF GoesInv, WaitInv, TypeOK
    <3>2. StopCall(c, current) /\ c \in Callers
      BY <1>1, <2>4, CallTypes DEF Connect
    <3> QED BY <2>1, <2>2, <3>1, <3>2, StopCallGoes
  <2> QED BY <2>3, <2>4
<1>2. CASE Disconnect
  <2>1. UNCHANGED <<current, handler, worker, start, dial, toPage, task, stream,
                    inRoom>>
    BY <1>2 DEF Disconnect
  <2>2. CASE current = "none"
    <3>1. UNCHANGED <<awaiting, stopped, stopTask, left, join>>
      BY <1>2, <2>2 DEF Disconnect
    <3>2. WaitInv'
      BY <2>1, <3>1 DEF GoesInv, WaitInv
    <3>3. ASSUME NEW d \in Clients PROVE OneInv(d)'
      BY <2>1, <3>1, SameOneKeeps DEF GoesInv, SameOne
    <3> QED BY <3>2, <3>3 DEF GoesInv
  <2>3. CASE current # "none"
    <3>1. current \in Clients /\ worker[current] # "none"
      BY <2>3 DEF GoesInv, WaitInv, TypeOK
    <3>2. StopCall("disconnect", current) /\ "disconnect" \in Callers
      BY <1>2, <2>3, CallTypes DEF Disconnect
    <3> QED BY <2>1, <3>1, <3>2, StopCallGoes
  <2> QED BY <2>2, <2>3
<1> QED BY <1>1, <1>2

LEMMA MakeClientGoes ==
  ASSUME Inv, GoesInv, NEW c \in Clients, MakeClient(c)
  PROVE  GoesInv'
<1>0. TypeOK /\ OneInv(c) /\ c \in Callers
  BY CallTypes DEF Inv, GoesInv
<1>1. /\ handler' = [handler EXCEPT ![c] = "starting"]
      /\ worker' = [worker EXCEPT ![c] = "up"]
      /\ start' = [start EXCEPT ![c] = "pending"]
      /\ task' = [task EXCEPT ![c] = "starting"]
      /\ awaiting' = [awaiting EXCEPT ![c] = NoCall]
      /\ current' = c /\ handler[c] = "stopping"
      /\ UNCHANGED <<stopped, dial, toPage, stopTask, stream, join, left, inRoom>>
  BY DEF MakeClient, roomVars
<1>2. /\ handler'[c] = "starting" /\ worker'[c] = "up"
      /\ start'[c] = "pending" /\ task'[c] = "starting"
      /\ \A d \in Clients : d # c =>
           /\ handler'[d] = handler[d] /\ worker'[d] = worker[d]
           /\ start'[d] = start[d] /\ task'[d] = task[d]
      /\ \A y \in Callers : y # c => awaiting'[y] = awaiting[y]
      /\ awaiting'[c] = NoCall
  BY <1>0, <1>1 DEF TypeOK
<1>3. WaitInv'
  <2>1. NothingBack
    BY <1>1, <1>2 DEF NothingBack
  <2>2. current' \in Clients /\ worker'[current'] # "none"
    BY <1>1, <1>2
  <2> QED BY <1>0, <1>2, <2>1, <2>2, WaitKeeps, NoCallWaits DEF GoesInv
<1>4. OneInv(c)'
  <2>1. stream[c] = "none" /\ join[c] = "none"
    BY <1>1 DEF Inv, ClientInv, NotBegun
  <2>2. worker[c] = "none" /\ stopTask[c] = "none" /\ dial[c] = "none"
        /\ toPage[c] = << >>
    BY <1>0, <1>1 DEF OneInv, WorkerInv
  <2>3. WorkerInv(c)' /\ StreamInv(c)' /\ RoomInv(c)'
    BY <1>0, <1>1, <1>2, <2>1, <2>2 DEF OneInv, WorkerInv, StreamInv, RoomInv
  <2>4. ~SaysIn(toPage'[c], {"stopped"})
    BY <1>1, <2>2, SaysNothing
  <2>5. AskInv(c)'
    BY <1>1, <1>2, <2>2, <2>4 DEF AskInv, Says
  <2> QED BY <2>3, <2>5 DEF OneInv
<1>5. ASSUME NEW d \in Clients, d # c PROVE OneInv(d)'
  BY <1>1, <1>2, <1>5, SameOneKeeps DEF GoesInv, SameOne
<1> QED BY <1>3, <1>4, <1>5 DEF GoesInv

LEMMA ConnectClientGoes ==
  ASSUME Inv, GoesInv, NEW c \in Clients, ConnectClient(c)
  PROVE  GoesInv'
<1>0. TypeOK /\ OneInv(c)
  BY DEF Inv, GoesInv
<1>1. /\ handler' = [handler EXCEPT ![c] = "connecting"]
      /\ dial' = [dial EXCEPT ![c] = IF stopped[c] THEN "rejected" ELSE "pending"]
      /\ task' = [task EXCEPT ![c] = IF stopped[c] THEN task[c] ELSE "connecting"]
      /\ handler[c] = "starting" /\ start[c] = "resolved"
      /\ UNCHANGED <<current, awaiting, worker, stopped, start, toPage, stopTask,
                     stream, left>>
  BY DEF ConnectClient
<1>2. \/ UNCHANGED <<join, inRoom>>
      \/ /\ join' = [join EXCEPT ![c] = "pending"]
         /\ inRoom' = [inRoom EXCEPT ![c] = TRUE]
  BY DEF ConnectClient
<1>3. /\ handler'[c] = "connecting"
      /\ dial'[c] = IF stopped[c] THEN "rejected" ELSE "pending"
      /\ task'[c] = IF stopped[c] THEN task[c] ELSE "connecting"
      /\ \A d \in Clients : d # c =>
           /\ handler'[d] = handler[d] /\ dial'[d] = dial[d]
           /\ task'[d] = task[d]
  BY <1>0, <1>1 DEF TypeOK
<1>4. /\ \/ join'[c] = join[c] /\ inRoom'[c] = inRoom[c]
         \/ join'[c] = "pending"
      /\ \A d \in Clients : d # c => join'[d] = join[d] /\ inRoom'[d] = inRoom[d]
  BY <1>0, <1>2 DEF TypeOK
<1>5. WaitInv'
  BY <1>1 DEF GoesInv, WaitInv
<1>6. OneInv(c)'
  <2>1. stream[c] = "none"
    BY <1>1 DEF Inv, ClientInv, NotBegun
  <2>2. ~stopped[c] => worker[c] = "up"
    BY <1>0, <1>1 DEF OneInv, WorkerInv, TypeOK
  <2>3. WorkerInv(c)' /\ StreamInv(c)'
    BY <1>0, <1>1, <1>3, <2>1 DEF OneInv, WorkerInv, StreamInv
  <2>4. RoomInv(c)'
    BY <1>0, <1>3, <1>4 DEF OneInv, RoomInv
  <2>5. Says(c, {"stopped"})' <=> Says(c, {"stopped"})
    BY <1>1 DEF Says
  <2>6. AskInv(c)'
    BY <1>0, <1>1, <1>3, <2>2, <2>5 DEF OneInv, AskInv
  <2> QED BY <2>3, <2>4, <2>6 DEF OneInv
<1>7. ASSUME NEW d \in Clients, d # c PROVE OneInv(d)'
  BY <1>1, <1>3, <1>4, <1>7, SameOneKeeps DEF GoesInv, SameOne
<1> QED BY <1>5, <1>6, <1>7 DEF GoesInv

(* The Trystero client is stopped, because the worker has won or lost. *)
LEMMA AwaitRoomGoes ==
  ASSUME TypeOK, GoesInv, NEW c \in Clients, StopTrystero(c), AwaitRoom(c),
         NEW h \in {"won", "lost"}, handler[c] = "connecting",
         handler' = [handler EXCEPT ![c] = h],
         UNCHANGED <<current, worker, stopped, start, dial, toPage, task,
                     stopTask, stream, inRoom>>
  PROVE  GoesInv'
<1>0. OneInv(c) /\ c \in Callers
  BY CallTypes DEF GoesInv
<1>1. /\ left'[c]
      /\ join'[c] = "none" <=> join[c] = "none"
      /\ \A d \in Clients : d # c => left'[d] = left[d] /\ join'[d] = join[d]
  <2>1. /\ left' = [left EXCEPT ![c] = TRUE]
        /\ join' = [join EXCEPT ![c] = IF left[c] THEN join[c]
                                       ELSE Rejected(join[c])]
    BY DEF StopTrystero
  <2>2. Rejected(join[c]) = "none" <=> join[c] = "none"
    BY DEF Rejected
  <2> QED BY <2>1, <2>2 DEF TypeOK
<1>2. /\ handler'[c] = h /\ \A d \in Clients : d # c => handler'[d] = handler[d]
  BY DEF TypeOK
<1>3. /\ awaiting'[c].of = c /\ awaiting'[c].on \subseteq {"room"}
      /\ \A y \in Callers : y # c => awaiting'[y] = awaiting[y]
  BY <1>0 DEF AwaitRoom, TypeOK
<1>4. WaitInv'
  <2>1. NothingBack
    BY <1>1 DEF NothingBack
  <2>2. "worker" \notin awaiting'[c].on
    BY <1>3
  <2> QED BY <1>1, <1>3, <2>1, <2>2, WaitKeeps DEF GoesInv
<1>5. OneInv(c)'
  <2>1. WorkerInv(c)' /\ StreamInv(c)' /\ RoomInv(c)'
    BY <1>0, <1>1, <1>2 DEF OneInv, WorkerInv, StreamInv, RoomInv
  <2>2. AskInv(c)'
    BY <1>0 DEF OneInv, AskInv, Says
  <2> QED BY <2>1, <2>2 DEF OneInv
<1>6. ASSUME NEW d \in Clients, d # c PROVE OneInv(d)'
  BY <1>1, <1>2, <1>6, SameOneKeeps DEF GoesInv, SameOne
<1> QED BY <1>4, <1>5, <1>6 DEF GoesInv

(* The end of a handler: nothing is asked for any more. *)
LEMMA HandlerEndsGoes ==
  ASSUME TypeOK, GoesInv,
         UNCHANGED <<worker, stopped, start, dial, toPage, task, stopTask,
                     stream, join, left, inRoom>>,
         current' \in {current, "none"},
         \A x \in Callers : awaiting'[x] = awaiting[x] \/ awaiting'[x] = NoCall,
         \A d \in Clients :
           \/ handler'[d] = handler[d]
           \/ handler[d] \notin {"none", "stopping"} /\ handler'[d] = "connected"
           \/ handler[d] = "failed" /\ handler'[d] = "over"
  PROVE  GoesInv'
<1>1. WaitInv'
  <2>1. NothingBack
    BY DEF NothingBack
  <2> QED BY <2>1, WaitKeeps, NoCallWaits DEF GoesInv
<1>2. ASSUME NEW d \in Clients PROVE OneInv(d)'
  <2>1. OneInv(d)
    BY DEF GoesInv
  <2>2. WorkerInv(d)' /\ StreamInv(d)' /\ RoomInv(d)'
    BY <2>1 DEF OneInv, WorkerInv, StreamInv, RoomInv
  <2>3. AskInv(d)'
    BY <2>1 DEF OneInv, AskInv, Says
  <2> QED BY <2>2, <2>3 DEF OneInv
<1> QED BY <1>1, <1>2 DEF GoesInv

LEMMA WorkerWinsGoes ==
  ASSUME TypeOK, GoesInv, NEW c \in Clients, WorkerWins(c)
  PROVE  GoesInv'
<1>1. /\ UNCHANGED <<current, worker, stopped, start, dial, toPage, task,
                     stopTask, stream, inRoom>>
      /\ handler[c] = "connecting"
  BY DEF WorkerWins, rpcVars, workerVars
<1>2. CASE join[c] = "none"
  <2>1. /\ handler' = [handler EXCEPT ![c] = "connected"]
        /\ UNCHANGED <<awaiting, left, join>>
    BY <1>2 DEF WorkerWins, Connected
  <2>2. \A d \in Clients :
          \/ handler'[d] = handler[d]
          \/ handler[d] \notin {"none", "stopping"} /\ handler'[d] = "connected"
    BY <1>1, <2>1 DEF TypeOK
  <2> QED BY <1>1, <2>1, <2>2, HandlerEndsGoes
<1>3. CASE join[c] # "none"
  <2>1. StopTrystero(c) /\ AwaitRoom(c) /\ handler' = [handler EXCEPT ![c] = "won"]
    BY <1>3 DEF WorkerWins
  <2> QED BY <1>1, <2>1, AwaitRoomGoes
<1> QED BY <1>2, <1>3

LEMMA HandlersEndGoes ==
  ASSUME TypeOK, GoesInv,
         DisconnectEnds \/ \E c \in Clients : WorkerHasWon(c) \/ FailedStops(c)
  PROVE  GoesInv'
<1>1. ASSUME NEW c \in Clients, WorkerHasWon(c) PROVE GoesInv'
  <2>1. /\ UNCHANGED <<current, worker, stopped, start, dial, toPage, task,
                       stopTask, stream, join, left, inRoom>>
        /\ awaiting' = [awaiting EXCEPT ![c] = NoCall]
        /\ handler' = [handler EXCEPT ![c] = "connected"]
        /\ handler[c] = "won"
    BY <1>1 DEF WorkerHasWon, Connected, rpcVars, workerVars, roomVars
  <2>2. \A x \in Callers : awaiting'[x] = awaiting[x] \/ awaiting'[x] = NoCall
    BY <2>1 DEF TypeOK
  <2>3. \A d \in Clients :
          \/ handler'[d] = handler[d]
          \/ handler[d] \notin {"none", "stopping"} /\ handler'[d] = "connected"
    BY <2>1 DEF TypeOK
  <2> QED BY <2>1, <2>2, <2>3, HandlerEndsGoes
<1>2. ASSUME NEW c \in Clients, FailedStops(c) PROVE GoesInv'
  <2>1. /\ UNCHANGED <<worker, stopped, start, dial, toPage, task,
                       stopTask, stream, join, left, inRoom>>
        /\ current' = "none"
        /\ awaiting' = [awaiting EXCEPT ![c] = NoCall]
        /\ handler' = [handler EXCEPT ![c] = "over"]
        /\ handler[c] = "failed"
    BY <1>2 DEF FailedStops, rpcVars, workerVars, roomVars
  <2>2. \A x \in Callers : awaiting'[x] = awaiting[x] \/ awaiting'[x] = NoCall
    BY <2>1 DEF TypeOK
  <2>3. \A d \in Clients :
          \/ handler'[d] = handler[d]
          \/ handler[d] = "failed" /\ handler'[d] = "over"
    BY <2>1 DEF TypeOK
  <2> QED BY <2>1, <2>2, <2>3, HandlerEndsGoes
<1>3. CASE DisconnectEnds
  <2>1. /\ UNCHANGED <<handler, worker, stopped, start, dial, toPage, task,
                       stopTask, stream, join, left, inRoom>>
        /\ current' = "none"
        /\ awaiting' = [awaiting EXCEPT !["disconnect"] = NoCall]
    BY <1>3 DEF DisconnectEnds, rpcVars, workerVars, roomVars
  <2>2. \A x \in Callers : awaiting'[x] = awaiting[x] \/ awaiting'[x] = NoCall
    BY <2>1 DEF TypeOK
  <2> QED BY <2>1, <2>2, HandlerEndsGoes
<1> QED BY <1>1, <1>2, <1>3

LEMMA CaughtGoes ==
  ASSUME Inv, GoesInv, NEW c \in Clients,
         StartFails(c) \/ NobodyHasWon(c) \/ NobodyWins(c)
  PROVE  GoesInv'
<1>0. TypeOK /\ OneInv(c) /\ c \in Callers
  BY CallTypes DEF Inv, GoesInv
<1>1. ASSUME Caught(c), handler[c] \in {"starting", "lost", "connecting"},
             left[c] \/ ~inRoom[c]
      PROVE  GoesInv'
  <2>1. /\ UNCHANGED <<current, worker, start, dial, toPage, task, stream, inRoom>>
        /\ handler' = [handler EXCEPT ![c] = "failed"]
        /\ StopCall(c, c)
    BY <1>1 DEF Caught
  <2>2. worker[c] # "none"
    BY <1>0, <1>1 DEF OneInv, WorkerInv
  <2>3. \A d \in Clients :
          \/ handler'[d] = handler[d]
          \/ /\ d = c /\ handler[d] \notin {"none", "stopping"}
             /\ handler'[d] = "failed" /\ (left[d] \/ ~inRoom[d])
    BY <1>0, <1>1, <2>1 DEF TypeOK
  <2> QED BY <1>0, <2>1, <2>2, <2>3, StopCallGoes
<1>2. CASE StartFails(c)
  <2>1. join[c] = "none"
    BY <1>2 DEF StartFails, Inv, ClientInv, NotBegun
  <2> QED BY <1>0, <1>1, <1>2, <2>1 DEF StartFails, OneInv, RoomInv
<1>3. CASE NobodyHasWon(c)
  BY <1>0, <1>1, <1>3 DEF NobodyHasWon, OneInv, RoomInv
<1>4. CASE NobodyWins(c)
  <2>1. CASE join[c] = "none"
    BY <1>0, <1>1, <1>4, <2>1 DEF NobodyWins, OneInv, RoomInv
  <2>2. CASE join[c] # "none"
    <3>1. /\ StopTrystero(c) /\ AwaitRoom(c)
          /\ handler[c] = "connecting"
          /\ handler' = [handler EXCEPT ![c] = "lost"]
          /\ UNCHANGED <<current, worker, stopped, start, dial, toPage, task,
                         stopTask, stream, inRoom>>
      BY <1>4, <2>2 DEF NobodyWins, pageVars, rpcVars, workerVars
    <3> QED BY <1>0, <3>1, AwaitRoomGoes
  <2> QED BY <2>1, <2>2
<1> QED BY <1>2, <1>3, <1>4

(* The end of a worker: what it was asked for is rejected. *)
LEMMA TerminateOne ==
  ASSUME TypeOK, NEW c \in Clients, Terminate(c)
  PROVE  /\ worker'[c] = "terminated" /\ toPage'[c] = << >>
         /\ start'[c] # "pending" /\ (start'[c] = "none" <=> start[c] = "none")
         /\ dial'[c] # "pending" /\ (dial'[c] = "none" <=> dial[c] = "none")
         /\ stream'[c] \in {"none", "over"}
         /\ \A d \in Clients : d # c =>
              /\ worker'[d] = worker[d] /\ toPage'[d] = toPage[d]
              /\ start'[d] = start[d] /\ dial'[d] = dial[d]
              /\ stream'[d] = stream[d]
<1>1. /\ worker' = [worker EXCEPT ![c] = "terminated"]
      /\ toPage' = [toPage EXCEPT ![c] = << >>]
      /\ start' = [start EXCEPT ![c] = Rejected(start[c])]
      /\ dial' = [dial EXCEPT ![c] = Rejected(dial[c])]
      /\ stream' = [stream EXCEPT ![c] = IF stream[c] = "none" THEN stream[c]
                                         ELSE "over"]
  BY DEF Terminate
<1>2. \A p \in Promise : /\ Rejected(p) # "pending"
                         /\ Rejected(p) = "none" <=> p = "none"
  BY DEF Rejected, Promise
<1>3. /\ worker'[c] = "terminated" /\ toPage'[c] = << >>
      /\ stream'[c] \in {"none", "over"}
      /\ start'[c] = Rejected(start[c]) /\ dial'[c] = Rejected(dial[c])
      /\ start[c] \in Promise /\ dial[c] \in Promise
  BY <1>1 DEF TypeOK
<1>4. \A d \in Clients : d # c =>
        /\ worker'[d] = worker[d] /\ toPage'[d] = toPage[d]
        /\ start'[d] = start[d] /\ dial'[d] = dial[d]
        /\ stream'[d] = stream[d]
  BY <1>1 DEF TypeOK
<1> QED BY <1>2, <1>3, <1>4

LEMMA TerminateGoes ==
  ASSUME TypeOK, GoesInv, NEW c \in Clients, Terminate(c),
         worker[c] # "none", stopped'[c],
         \A d \in Clients : d # c => stopped'[d] = stopped[d],
         \A d \in Clients :
           \/ handler'[d] = handler[d]
           \/ d = c /\ handler'[d] = "connected",
         UNCHANGED <<current, awaiting, task, stopTask, join, left, inRoom>>
  PROVE  GoesInv'
<1>1. WaitInv'
  <2>1. NothingBack /\ current' \in {current, "none"}
    BY TerminateOne DEF NothingBack
  <2> QED BY <2>1, WaitKeeps DEF GoesInv
<1>2. OneInv(c)'
  <2>1. OneInv(c)
    BY DEF GoesInv
  <2>2. handler'[c] = handler[c] \/ handler'[c] = "connected"
    OBVIOUS
  <2>3. WorkerInv(c)'
    BY <2>1, <2>2, TerminateOne DEF OneInv, WorkerInv
  <2>4. StreamInv(c)'
    BY TerminateOne DEF StreamInv
  <2>5. AskInv(c)'
    BY TerminateOne DEF AskInv
  <2>6. RoomInv(c)'
    BY <2>1, <2>2 DEF OneInv, RoomInv
  <2> QED BY <2>3, <2>4, <2>5, <2>6 DEF OneInv
<1>3. ASSUME NEW d \in Clients, d # c PROVE OneInv(d)'
  <2>1. SameOne(d)
    BY <1>3, TerminateOne DEF SameOne
  <2> QED BY <2>1, SameOneKeeps DEF GoesInv
<1> QED BY <1>1, <1>2, <1>3 DEF GoesInv

LEMMA TrysteroWinsGoes ==
  ASSUME TypeOK, GoesInv, NEW c \in Clients, TrysteroWins(c)
  PROVE  GoesInv'
<1>1. /\ handler[c] = "connecting"
      /\ handler' = [handler EXCEPT ![c] = "connected"]
      /\ UNCHANGED <<current, awaiting, task, stopTask, join, left, inRoom>>
      /\ Cancel(c)
  BY DEF TrysteroWins, Connected, roomVars
<1>2. \A d \in Clients : \/ handler'[d] = handler[d]
                         \/ d = c /\ handler'[d] = "connected"
  BY <1>1 DEF TypeOK
<1>3. CASE stopped[c]
  <2>1. UNCHANGED <<worker, stopped, start, dial, toPage, stream>>
    BY <1>1, <1>3 DEF Cancel, rpcVars
  <2>2. \A d \in Clients :
          \/ handler'[d] = handler[d]
          \/ handler[d] \notin {"none", "stopping"} /\ handler'[d] = "connected"
    BY <1>1, <1>2
  <2> QED BY <1>1, <2>1, <2>2, HandlerEndsGoes
<1>4. CASE ~stopped[c]
  <2>1. /\ stopped' = [stopped EXCEPT ![c] = TRUE]
        /\ Terminate(c)
    BY <1>1, <1>4 DEF Cancel
  <2>2. /\ stopped'[c] /\ \A d \in Clients : d # c => stopped'[d] = stopped[d]
    BY <2>1 DEF TypeOK
  <2>3. worker[c] # "none"
    BY <1>1 DEF GoesInv, OneInv, WorkerInv
  <2> QED BY <1>1, <1>2, <2>1, <2>2, <2>3, TerminateGoes
<1> QED BY <1>3, <1>4

LEMMA DeliverGoes ==
  ASSUME TypeOK, GoesInv, NEW c \in Clients, Deliver(c)
  PROVE  GoesInv'
<1>0. /\ OneInv(c) /\ worker[c] = "up"
      /\ toPage[c] \in Seq(Message) /\ toPage[c] # << >>
  BY DEF GoesInv, Deliver, TypeOK, Message
<1>1. UNCHANGED <<current, handler, awaiting, stopped, task, stopTask, join,
                  left, inRoom>>
  BY DEF Deliver, callVars, clientVars, roomVars
<1> DEFINE m == Head(toPage[c])
<1>2. CASE m = "stopped"
  <2>1. Terminate(c)
    BY <1>2 DEF Deliver
  <2>2. SaysIn(toPage[c], {"stopped"})
    BY <1>0, <1>2, SaysTail
  <2>3. stopped[c]
    BY <1>0, <2>2 DEF OneInv, AskInv, WorkerInv, Says
  <2> QED BY <1>0, <1>1, <2>1, <2>3, TerminateGoes
<1>3. CASE m # "stopped"
  <2>1. /\ toPage' = [toPage EXCEPT ![c] = Tail(toPage[c])]
        /\ start' = [start EXCEPT ![c] =
             CASE m = "started" -> "resolved" [] m = "startFailed" -> "rejected"
               [] OTHER -> start[c]]
        /\ dial' = [dial EXCEPT ![c] =
             CASE m = "opened" -> "resolved" [] m = "openFailed" -> "rejected"
               [] OTHER -> dial[c]]
        /\ UNCHANGED <<worker, stream>>
    BY <1>3 DEF Deliver, Settles
  <2> HIDE DEF m
  <2>2. /\ toPage'[c] = Tail(toPage[c])
        /\ start'[c] = CASE m = "started" -> "resolved"
                         [] m = "startFailed" -> "rejected"
                         [] OTHER -> start[c]
        /\ dial'[c] = CASE m = "opened" -> "resolved"
                        [] m = "openFailed" -> "rejected"
                        [] OTHER -> dial[c]
        /\ \A d \in Clients : d # c => /\ toPage'[d] = toPage[d]
                                       /\ start'[d] = start[d]
                                       /\ dial'[d] = dial[d]
    BY <2>1 DEF TypeOK
  <2>3. WaitInv'
    BY <1>1, <2>1 DEF GoesInv, WaitInv
  <2>4. OneInv(c)'
    <3>1. /\ start'[c] # start[c] => start'[c] \in {"resolved", "rejected"}
          /\ dial'[c] # dial[c] => dial'[c] \in {"resolved", "rejected"}
          /\ start'[c] = "pending" =>
               start[c] = "pending" /\ m \notin {"started", "startFailed"}
          /\ dial'[c] = "pending" =>
               dial[c] = "pending" /\ m \notin {"opened", "openFailed"}
      BY <2>2
    <3>2. \A S : SaysIn(toPage[c], S) <=> SaysIn(toPage'[c], S) \/ m \in S
      <4>1. \A S : SaysIn(toPage[c], S) <=> SaysIn(Tail(toPage[c]), S) \/ m \in S
        BY <1>0, SaysTail DEF m
      <4> QED BY <2>2, <4>1
    <3>3. WorkerInv(c)' /\ StreamInv(c)' /\ RoomInv(c)'
      BY <1>0, <1>1, <2>1, <3>1 DEF OneInv, WorkerInv, StreamInv, RoomInv
    <3>4. AskInv(c)'
      <4>1. start'[c] = "pending" =>
              /\ worker'[c] = "up"
              /\ \/ task'[c] = "starting"
                 \/ SaysIn(toPage'[c], {"started", "startFailed"})
        BY <1>0, <1>1, <2>1, <3>1, <3>2 DEF OneInv, AskInv, Says
      <4>2. dial'[c] = "pending" =>
              /\ worker'[c] = "up"
              /\ \/ task'[c] \in {"connecting", "caching"}
                 \/ SaysIn(toPage'[c], {"opened", "openFailed"})
        BY <1>0, <1>1, <2>1, <3>1, <3>2 DEF OneInv, AskInv, Says
      <4>3. stopTask'[c] = "done" <=> SaysIn(toPage'[c], {"stopped"})
        <5>1. m \notin {"stopped"}
          BY <1>3 DEF m
        <5> QED BY <1>0, <1>1, <3>2, <5>1 DEF OneInv, AskInv, Says
      <4> QED BY <4>1, <4>2, <4>3 DEF AskInv, Says
    <3> QED BY <3>3, <3>4 DEF OneInv
  <2>5. ASSUME NEW d \in Clients, d # c PROVE OneInv(d)'
    <3>1. SameOne(d)
      BY <1>1, <2>1, <2>2, <2>5 DEF SameOne
    <3> QED BY <3>1, SameOneKeeps DEF GoesInv
  <2> QED BY <2>3, <2>4, <2>5 DEF GoesInv
<1> QED BY <1>2, <1>3

(* A room does not ask for anything, and one that is left stays left. *)
LEMMA RoomGoes ==
  ASSUME TypeOK, GoesInv, NEW c \in Clients,
         \/ TrysteroOpens(c) \/ TrysteroTimesOut(c)
         \/ TrysteroEnds(c) \/ TrysteroFinal(c) \/ RoomLeft(c)
  PROVE  GoesInv'
<1>1. UNCHANGED <<current, handler, awaiting, worker, stopped, start, dial,
                  toPage, task, stopTask, stream, left>>
  BY DEF TrysteroOpens, TrysteroTimesOut, TrysteroEnds, TrysteroFinal, RoomLeft,
         pageVars, callVars, clientVars, rpcVars, workerVars
<1>2. \A d \in Clients : /\ join'[d] = "none" => join[d] = "none"
                         /\ inRoom'[d] => inRoom[d]
  <2>1. CASE TrysteroOpens(c)
    BY <2>1 DEF TrysteroOpens, TypeOK
  <2>2. CASE TrysteroTimesOut(c)
    BY <2>2 DEF TrysteroTimesOut, TypeOK
  <2>3. CASE TrysteroEnds(c)
    <3>1. /\ UNCHANGED join
          /\ inRoom' = inRoom \/ inRoom' = [inRoom EXCEPT ![c] = FALSE]
      BY <2>3 DEF TrysteroEnds
    <3> QED BY <3>1 DEF TypeOK
  <2>4. CASE TrysteroFinal(c) \/ RoomLeft(c)
    <3>1. UNCHANGED join /\ inRoom' = [inRoom EXCEPT ![c] = FALSE]
      BY <2>4 DEF TrysteroFinal, RoomLeft
    <3> QED BY <3>1 DEF TypeOK
  <2> QED BY <2>1, <2>2, <2>3, <2>4
<1>3. WaitInv'
  BY <1>1 DEF GoesInv, WaitInv
<1>4. ASSUME NEW d \in Clients PROVE OneInv(d)'
  <2>1. OneInv(d)
    BY DEF GoesInv
  <2>2. WorkerInv(d)' /\ StreamInv(d)' /\ RoomInv(d)'
    BY <1>1, <1>2, <2>1 DEF OneInv, WorkerInv, StreamInv, RoomInv
  <2>3. AskInv(d)'
    BY <1>1, <2>1 DEF OneInv, AskInv, Says
  <2> QED BY <2>2, <2>3 DEF OneInv
<1> QED BY <1>3, <1>4 DEF GoesInv

(* A step of a worker that is up, as the page sees it. *)
LEMMA WorkerOne ==
  ASSUME NEW c \in Clients, OneInv(c), worker[c] = "up",
         UNCHANGED <<handler, worker, stopped, start, dial, join, left, inRoom>>,
         stopTask'[c] # "none" => stopTask[c] # "none",
         StreamInv(c)',
         \A S : SaysIn(toPage[c], S) => SaysIn(toPage'[c], S),
         task[c] = "starting" =>
           \/ task'[c] = "starting"
           \/ SaysIn(toPage'[c], {"started", "startFailed"}),
         task[c] \in {"connecting", "caching"} =>
           \/ task'[c] \in {"connecting", "caching"}
           \/ SaysIn(toPage'[c], {"opened", "openFailed"}),
         stopTask'[c] = "done" <=> SaysIn(toPage'[c], {"stopped"})
  PROVE  OneInv(c)'
<1>1. WorkerInv(c)' /\ RoomInv(c)'
  BY DEF OneInv, WorkerInv, RoomInv
<1>2. start'[c] = "pending" =>
        task'[c] = "starting" \/ SaysIn(toPage'[c], {"started", "startFailed"})
  BY DEF OneInv, AskInv, Says
<1>3. dial'[c] = "pending" =>
        \/ task'[c] \in {"connecting", "caching"}
        \/ SaysIn(toPage'[c], {"opened", "openFailed"})
  BY DEF OneInv, AskInv, Says
<1>4. AskInv(c)'
  BY <1>2, <1>3 DEF AskInv, Says
<1> QED BY <1>1, <1>4 DEF OneInv

LEMMA PostsOne ==
  ASSUME TypeOK, NEW c \in Clients, NEW m \in Message, Posts(c, m)
  PROVE  /\ \A S : SaysIn(toPage'[c], S) <=> SaysIn(toPage[c], S) \/ m \in S
         /\ \A d \in Clients : d # c => toPage'[d] = toPage[d]
<1>1. /\ toPage'[c] = Append(toPage[c], m) /\ toPage[c] \in Seq(Message)
      /\ \A d \in Clients : d # c => toPage'[d] = toPage[d]
  BY DEF Posts, TypeOK, Message
<1>2. \A S : SaysIn(Append(toPage[c], m), S) <=> SaysIn(toPage[c], S) \/ m \in S
  BY <1>1, SaysAppend
<1> QED BY <1>1, <1>2

LEMMA WorkerTaskGoes ==
  ASSUME TypeOK, GoesInv, NEW c \in Clients, WorkerTask(c)
  PROVE  /\ OneInv(c)'
         /\ \A d \in Clients : d # c => SameOne(d)
<1>0. OneInv(c)
  BY DEF GoesInv
<1>1. CASE WorkerStarts(c)
  <2>1. /\ UNCHANGED <<handler, worker, stopped, start, dial, stopTask, stream,
                       join, left, inRoom>>
        /\ worker[c] = "up" /\ task[c] = "starting"
    BY <1>1 DEF WorkerStarts, callVars, roomVars
  <2>2. PICK m \in {"started", "startFailed"}, t \in {"ready", "done"} :
          task' = [task EXCEPT ![c] = t] /\ Posts(c, m)
    BY <1>1 DEF WorkerStarts
  <2>3. task'[c] = t /\ \A d \in Clients : d # c => task'[d] = task[d]
    BY <2>2 DEF TypeOK
  <2>4. m \in Message
    BY DEF Message
  <2>5. StreamInv(c)'
    BY <1>0, <2>1 DEF OneInv, StreamInv
  <2>6. OneInv(c)'
    <3>1. \A S : SaysIn(toPage'[c], S) <=> SaysIn(toPage[c], S) \/ m \in S
      BY <2>2, <2>4, PostsOne
    <3>2. SaysIn(toPage'[c], {"started", "startFailed"})
      BY <3>1
    <3>3. stopTask'[c] = "done" <=> SaysIn(toPage'[c], {"stopped"})
      BY <1>0, <2>1, <3>1 DEF OneInv, AskInv, Says
    <3> QED BY <1>0, <2>1, <2>3, <2>5, <3>1, <3>2, <3>3, WorkerOne
  <2>7. \A d \in Clients : d # c => SameOne(d)
    BY <2>1, <2>2, <2>3, <2>4, PostsOne DEF SameOne
  <2> QED BY <2>6, <2>7
<1>2. CASE WorkerDials(c)
  <2>1. /\ UNCHANGED <<handler, worker, stopped, start, dial, stopTask,
                       join, left, inRoom>>
        /\ worker[c] = "up" /\ task[c] = "connecting"
    BY <1>2 DEF WorkerDials, callVars, roomVars
  <2>2. CASE task' = [task EXCEPT ![c] = "caching"] /\ UNCHANGED toPage
             /\ stream' = [stream EXCEPT ![c] = "open"]
    <3>1. /\ task'[c] = "caching" /\ stream'[c] = "open"
          /\ \A d \in Clients : d # c =>
               task'[d] = task[d] /\ stream'[d] = stream[d]
      BY <2>2 DEF TypeOK
    <3>2. StreamInv(c)'
      BY <3>1 DEF StreamInv
    <3>3. stopTask'[c] = "done" <=> SaysIn(toPage'[c], {"stopped"})
      BY <1>0, <2>1, <2>2 DEF OneInv, AskInv, Says
    <3>4. OneInv(c)'
      BY <1>0, <2>1, <2>2, <3>1, <3>2, <3>3, WorkerOne
    <3>5. \A d \in Clients : d # c => SameOne(d)
      BY <2>1, <2>2, <3>1 DEF SameOne
    <3> QED BY <3>4, <3>5
  <2>3. ASSUME NEW m \in {"opened", "openFailed"}, Posts(c, m),
               task' = [task EXCEPT ![c] = "done"],
               \/ stream' = [stream EXCEPT ![c] = "open"]
               \/ UNCHANGED stream
        PROVE  OneInv(c)' /\ \A d \in Clients : d # c => SameOne(d)
    <3>1. /\ task'[c] = "done"
          /\ stream'[c] = "open" \/ stream'[c] = stream[c]
          /\ \A d \in Clients : d # c =>
               task'[d] = task[d] /\ stream'[d] = stream[d]
      BY <2>3 DEF TypeOK
    <3>2. StreamInv(c)'
      BY <1>0, <3>1 DEF OneInv, StreamInv
    <3>3. m \in Message
      BY DEF Message
    <3>4. \A S : SaysIn(toPage'[c], S) <=> SaysIn(toPage[c], S) \/ m \in S
      BY <2>3, <3>3, PostsOne
    <3>5. SaysIn(toPage'[c], {"opened", "openFailed"})
      BY <3>4
    <3>6. stopTask'[c] = "done" <=> SaysIn(toPage'[c], {"stopped"})
      BY <1>0, <2>1, <3>4 DEF OneInv, AskInv, Says
    <3>7. OneInv(c)'
      BY <1>0, <2>1, <3>1, <3>2, <3>4, <3>5, <3>6, WorkerOne
    <3>8. \A d \in Clients : d # c => SameOne(d)
      BY <2>1, <2>3, <3>1, <3>3, PostsOne DEF SameOne
    <3> QED BY <3>7, <3>8
  <2> QED BY <1>2, <2>2, <2>3 DEF WorkerDials
<1>3. CASE WorkerConnects(c)
  <2>1. /\ UNCHANGED <<handler, worker, stopped, start, dial, stopTask,
                       join, left, inRoom>>
        /\ worker[c] = "up" /\ task[c] = "caching"
        /\ task' = [task EXCEPT ![c] = "done"]
        /\ stream' = [stream EXCEPT ![c] = IF stream[c] = "open" THEN stream[c]
                                           ELSE "over"]
    BY <1>3 DEF WorkerConnects, callVars, roomVars
  <2>2. PICK news \in {<<"opened">>, <<"closed", "opened">>,
                       <<"opened", "closed">>} :
          toPage' = [toPage EXCEPT ![c] = toPage[c] \o news]
    BY <1>3 DEF WorkerConnects
  <2>3. /\ task'[c] = "done" /\ toPage'[c] = toPage[c] \o news
        /\ stream'[c] \in {"open", "over"}
        /\ \A d \in Clients : d # c => /\ task'[d] = task[d]
                                       /\ stream'[d] = stream[d]
                                       /\ toPage'[d] = toPage[d]
    BY <2>1, <2>2 DEF TypeOK
  <2>4. /\ \A S : SaysIn(toPage[c], S) => SaysIn(toPage'[c], S)
        /\ SaysIn(toPage'[c], {"opened", "openFailed"})
        /\ SaysIn(toPage'[c], {"stopped"}) <=> SaysIn(toPage[c], {"stopped"})
    <3> DEFINE s == toPage[c]
    <3>1. s \in Seq(Message) /\ "opened" \in Message /\ "closed" \in Message
      BY DEF TypeOK, Message
    <3>2. \A a \in Message : Append(s, a) \in Seq(Message)
      BY <3>1
    <3>3. toPage'[c] \in {Append(s, "opened"),
                          Append(Append(s, "closed"), "opened"),
                          Append(Append(s, "opened"), "closed")}
      <4> HIDE DEF s
      <4>1. /\ s \o <<"opened">> = Append(s, "opened")
            /\ s \o <<"closed", "opened">> = Append(Append(s, "closed"), "opened")
            /\ s \o <<"opened", "closed">> = Append(Append(s, "opened"), "closed")
        BY <3>1, SaysTwo
      <4>2. toPage'[c] = s \o news
        BY <2>3 DEF s
      <4> QED BY <4>1, <4>2
    <3> HIDE DEF s
    <3>4. \A S :
            /\ SaysIn(Append(s, "opened"), S) <=> SaysIn(s, S) \/ "opened" \in S
            /\ SaysIn(Append(s, "closed"), S) <=> SaysIn(s, S) \/ "closed" \in S
            /\ SaysIn(Append(Append(s, "closed"), "opened"), S) <=>
                 SaysIn(Append(s, "closed"), S) \/ "opened" \in S
            /\ SaysIn(Append(Append(s, "opened"), "closed"), S) <=>
                 SaysIn(Append(s, "opened"), S) \/ "closed" \in S
      BY <3>1, <3>2, SaysAppend
    <3>5. \A S : SaysIn(s, S) \/ "opened" \in S => SaysIn(toPage'[c], S)
      BY <3>3, <3>4
    <3>6. SaysIn(toPage'[c], {"stopped"}) <=> SaysIn(s, {"stopped"})
      BY <3>3, <3>4
    <3> QED BY <3>5, <3>6 DEF s
  <2>5. StreamInv(c)'
    BY <2>3 DEF StreamInv
  <2>6. OneInv(c)'
    <3>1. stopTask'[c] = "done" <=> SaysIn(toPage'[c], {"stopped"})
      BY <1>0, <2>1, <2>4 DEF OneInv, AskInv, Says
    <3> QED BY <1>0, <2>1, <2>3, <2>4, <2>5, <3>1, WorkerOne
  <2>7. \A d \in Clients : d # c => SameOne(d)
    BY <2>1, <2>3 DEF SameOne
  <2> QED BY <2>6, <2>7
<1> QED BY <1>1, <1>2, <1>3 DEF WorkerTask

LEMMA WorkerStreamGoes ==
  ASSUME TypeOK, GoesInv, NEW c \in Clients,
         \/ WorkerStops(c) \/ WorkerStopped(c)
         \/ WorkerStreamEndsEarly(c) \/ WorkerStreamEnds(c)
  PROVE  /\ OneInv(c)'
         /\ \A d \in Clients : d # c => SameOne(d)
<1>0. OneInv(c)
  BY DEF GoesInv
<1>1. /\ UNCHANGED <<handler, worker, stopped, start, dial, task, join, left,
                     inRoom>>
      /\ worker[c] = "up"
  BY DEF WorkerStops, WorkerStopped, WorkerStreamEndsEarly, WorkerStreamEnds,
         callVars, rpcVars, roomVars
<1>2. CASE WorkerStops(c)
  <2>1. /\ stopTask[c] = "asked" /\ UNCHANGED toPage
        /\ stopTask' = [stopTask EXCEPT ![c] = "running"]
        /\ stream' = [stream EXCEPT ![c] =
             CASE task[c] = "caching" -> "over"
               [] task[c] # "caching" /\ stream[c] = "open" -> "aborted"
               [] OTHER -> stream[c]]
    BY <1>2 DEF WorkerStops, rpcVars
  <2>2. /\ stopTask'[c] = "running"
        /\ stream'[c] = CASE task[c] = "caching" -> "over"
                          [] task[c] # "caching" /\ stream[c] = "open" -> "aborted"
                          [] OTHER -> stream[c]
        /\ \A d \in Clients : d # c =>
             stopTask'[d] = stopTask[d] /\ stream'[d] = stream[d]
    BY <2>1 DEF TypeOK
  <2>3. StreamInv(c)'
    BY <1>0, <1>1, <2>2 DEF OneInv, StreamInv
  <2>4. stopTask'[c] = "done" <=> SaysIn(toPage'[c], {"stopped"})
    BY <1>0, <1>1, <2>1, <2>2 DEF OneInv, AskInv, Says
  <2>5. OneInv(c)'
    BY <1>0, <1>1, <2>1, <2>2, <2>3, <2>4, WorkerOne
  <2>6. \A d \in Clients : d # c => SameOne(d)
    BY <1>1, <2>1, <2>2 DEF SameOne
  <2> QED BY <2>5, <2>6
<1>3. CASE WorkerStopped(c)
  <2>1. /\ stopTask[c] = "running" /\ UNCHANGED stream
        /\ stopTask' = [stopTask EXCEPT ![c] = "done"]
        /\ Posts(c, "stopped")
    BY <1>3 DEF WorkerStopped
  <2>2. /\ stopTask'[c] = "done"
        /\ \A d \in Clients : d # c => stopTask'[d] = stopTask[d]
    BY <2>1 DEF TypeOK
  <2>3. "stopped" \in Message
    BY DEF Message
  <2>4. \A S : SaysIn(toPage'[c], S) <=> SaysIn(toPage[c], S) \/ "stopped" \in S
    BY <2>1, <2>3, PostsOne
  <2>5. StreamInv(c)'
    BY <1>0, <1>1, <2>1 DEF OneInv, StreamInv
  <2>6. SaysIn(toPage'[c], {"stopped"})
    BY <2>4
  <2>7. OneInv(c)'
    BY <1>0, <1>1, <2>1, <2>2, <2>4, <2>5, <2>6, WorkerOne
  <2>8. \A d \in Clients : d # c => SameOne(d)
    BY <1>1, <2>1, <2>2, <2>3, PostsOne DEF SameOne
  <2> QED BY <2>7, <2>8
<1>4. CASE WorkerStreamEndsEarly(c)
  <2>1. /\ UNCHANGED <<stopTask, toPage>>
        /\ stream' = [stream EXCEPT ![c] = "ended"]
    BY <1>4 DEF WorkerStreamEndsEarly, rpcVars
  <2>2. /\ stream'[c] = "ended"
        /\ \A d \in Clients : d # c => stream'[d] = stream[d]
    BY <2>1 DEF TypeOK
  <2>3. StreamInv(c)'
    BY <2>2 DEF StreamInv
  <2>4. stopTask'[c] = "done" <=> SaysIn(toPage'[c], {"stopped"})
    BY <1>0, <1>1, <2>1 DEF OneInv, AskInv, Says
  <2>5. OneInv(c)'
    BY <1>0, <1>1, <2>1, <2>3, <2>4, WorkerOne
  <2>6. \A d \in Clients : d # c => SameOne(d)
    BY <1>1, <2>1, <2>2 DEF SameOne
  <2> QED BY <2>5, <2>6
<1>5. CASE WorkerStreamEnds(c)
  <2>1. /\ UNCHANGED stopTask
        /\ stream' = [stream EXCEPT ![c] = "over"]
        /\ Posts(c, "closed")
    BY <1>5 DEF WorkerStreamEnds
  <2>2. /\ stream'[c] = "over"
        /\ \A d \in Clients : d # c => stream'[d] = stream[d]
    BY <2>1 DEF TypeOK
  <2>3. "closed" \in Message
    BY DEF Message
  <2>4. \A S : SaysIn(toPage'[c], S) <=> SaysIn(toPage[c], S) \/ "closed" \in S
    BY <2>1, <2>3, PostsOne
  <2>5. StreamInv(c)'
    BY <2>2 DEF StreamInv
  <2>6. stopTask'[c] = "done" <=> SaysIn(toPage'[c], {"stopped"})
    BY <1>0, <1>1, <2>1, <2>4 DEF OneInv, AskInv, Says
  <2>7. OneInv(c)'
    BY <1>0, <1>1, <2>1, <2>4, <2>5, <2>6, WorkerOne
  <2>8. \A d \in Clients : d # c => SameOne(d)
    BY <1>1, <2>1, <2>2, <2>3, PostsOne DEF SameOne
  <2> QED BY <2>7, <2>8
<1> QED BY <1>2, <1>3, <1>4, <1>5

LEMMA WorkerGoes ==
  ASSUME TypeOK, GoesInv, NEW c \in Clients,
         \/ WorkerTask(c) \/ WorkerStop(c)
         \/ WorkerStreamEndsEarly(c) \/ WorkerStreamEnds(c)
  PROVE  GoesInv'
<1>1. OneInv(c)' /\ \A d \in Clients : d # c => SameOne(d)
  BY WorkerTaskGoes, WorkerStreamGoes DEF WorkerStop
<1>2. /\ UNCHANGED <<current, awaiting, worker, left>>
      /\ stopTask' = stopTask \/ \E t \in {"running", "done"} :
                                   stopTask' = [stopTask EXCEPT ![c] = t]
  BY DEF WorkerTask, WorkerStarts, WorkerDials, WorkerConnects, WorkerStop,
         WorkerStops, WorkerStopped, WorkerStreamEndsEarly, WorkerStreamEnds,
         pageVars, callVars, rpcVars, roomVars
<1>3. NothingBack
  BY <1>2 DEF NothingBack, TypeOK
<1>4. WaitInv'
  BY <1>2, <1>3, WaitKeeps DEF GoesInv
<1>5. ASSUME NEW d \in Clients, d # c PROVE OneInv(d)'
  BY <1>1, <1>5, SameOneKeeps DEF GoesInv
<1> QED BY <1>1, <1>4, <1>5 DEF GoesInv

LEMMA InitGoes == Init => GoesInv
<1> SUFFICES ASSUME Init PROVE GoesInv
  OBVIOUS
<1>1. \A x \in Callers : awaiting[x] = NoCall
  BY DEF Init
<1>2. WaitInv
  BY <1>1, NoCallWaits DEF Init, WaitInv
<1>3. ASSUME NEW c \in Clients PROVE OneInv(c)
  BY DEF Init, OneInv, WorkerInv, StreamInv, AskInv, RoomInv
<1> QED BY <1>2, <1>3 DEF GoesInv

LEMMA NextGoes == Inv /\ GoesInv /\ [Next]_vars => GoesInv'
<1> SUFFICES ASSUME Inv, GoesInv, [Next]_vars PROVE GoesInv'
  OBVIOUS
<1>0. TypeOK
  BY DEF Inv
<1>1. CASE UNCHANGED vars
  <2>1. UNCHANGED <<current, handler, awaiting, worker, stopped, start, dial,
                    toPage, task, stopTask, stream, join, left, inRoom>>
    BY <1>1 DEF vars, pageVars, callVars, rpcVars, workerVars, roomVars
  <2>2. WaitInv'
    BY <2>1 DEF GoesInv, WaitInv
  <2>3. ASSUME NEW d \in Clients PROVE OneInv(d)'
    BY <2>1, SameOneKeeps DEF GoesInv, SameOne
  <2> QED BY <2>2, <2>3 DEF GoesInv
<1>2. CASE Disconnect \/ DisconnectEnds
  BY <1>0, <1>2, ClickGoes, HandlersEndGoes
<1>3. ASSUME NEW c \in Clients, Reaction(c) PROVE GoesInv'
  <2>1. CASE WorkerHasWon(c) \/ FailedStops(c)
    BY <1>0, <2>1, HandlersEndGoes
  <2> QED BY <1>0, <1>3, <2>1, MakeClientGoes, ConnectClientGoes, WorkerWinsGoes,
             TrysteroWinsGoes, CaughtGoes DEF Reaction
<1>4. ASSUME NEW c \in Clients, Connect(c) \/ Deliver(c) PROVE GoesInv'
  BY <1>0, <1>4, ClickGoes, DeliverGoes
<1>5. ASSUME NEW c \in Clients,
             \/ TrysteroOpens(c) \/ TrysteroTimesOut(c)
             \/ TrysteroEnds(c) \/ TrysteroFinal(c) \/ RoomLeft(c)
      PROVE  GoesInv'
  BY <1>0, <1>5, RoomGoes
<1>6. ASSUME NEW c \in Clients,
             \/ WorkerTask(c) \/ WorkerStop(c)
             \/ WorkerStreamEndsEarly(c) \/ WorkerStreamEnds(c)
      PROVE  GoesInv'
  BY <1>0, <1>6, WorkerGoes
<1> QED BY <1>1, <1>2, <1>3, <1>4, <1>5, <1>6 DEF Next

(* Whatever the user clicks and however workers and rooms interleave: a    *)
(* connect() of page.tsx that has not come to its end, a worker that was   *)
(* told to stop and a room that is to be left always have somebody whose   *)
(* turn it is.                                                             *)
THEOREM NobodyWaitsInVain == Spec => []NobodyIsStuck
<1>1. Init => Inv /\ GoesInv
  BY InitInv, InitGoes
<1>2. (Inv /\ GoesInv) /\ [Next]_vars => (Inv /\ GoesInv)'
  BY NextInv, NextGoes
<1>3. Inv /\ GoesInv => NobodyIsStuck
  BY SomebodyGoes DEF Inv
<1> QED BY <1>1, <1>2, <1>3, PTL DEF Spec

-----------------------------------------------------------------------------
(* Nothing goes on for ever.  What a client has still to do, as a number. *)
HandlerLeft(h) == CASE h = "none" -> 28 [] h = "stopping" -> 27
                    [] h = "starting" -> 15 [] h = "connecting" -> 3
                    [] h \in {"won", "lost"} -> 2 [] h = "failed" -> 1
                    [] OTHER -> 0
PromiseLeft(p) == IF p = "pending" THEN 2 ELSE 0
TaskLeft(t) == CASE t = "starting" -> 11 [] t = "ready" -> 9
                 [] t = "connecting" -> 8 [] t = "caching" -> 3 [] OTHER -> 0
StopLeft(t) == CASE t = "none" -> 4 [] t = "asked" -> 3 [] t = "running" -> 2
                 [] OTHER -> 0
StreamLeft(s) == CASE s = "open" -> 3 [] s \in {"ended", "aborted"} -> 2
                   [] OTHER -> 0
ChannelLeft(s) == IF s = "open" THEN 1 ELSE 0
StayLeft(r) == IF r THEN 1 ELSE 0

Left(c) ==
  HandlerLeft(handler[c]) + PromiseLeft(join[c]) + TaskLeft(task[c])
  + StopLeft(stopTask[c]) + StreamLeft(stream[c]) + ChannelLeft(channel[c])
  + StayLeft(inRoom[c]) + Len(toPage[c])

(* Every step of the browser but the two of disconnect() uses up something *)
(* of what its clients have still to do, and none adds to it: the clients  *)
(* cannot go on for ever, and with NobodyIsStuck and fairness they come to *)
(* their end.                                                              *)
EverythingEnds ==
  [][/\ \A c \in Clients : Left(c) \in Nat /\ Left(c)' <= Left(c)
     /\ \/ \E c \in Clients : Left(c)' < Left(c)
        \/ Disconnect \/ DisconnectEnds]_vars

LEMMA WeightsNat ==
  /\ \A h : HandlerLeft(h) \in Nat
  /\ \A p : PromiseLeft(p) \in Nat
  /\ \A t : TaskLeft(t) \in Nat
  /\ \A t : StopLeft(t) \in Nat
  /\ \A s : StreamLeft(s) \in Nat
  /\ \A s : ChannelLeft(s) \in Nat
<1>1. /\ \A h : HandlerLeft(h) \in Nat
      /\ \A t : TaskLeft(t) \in Nat
  BY DEF HandlerLeft, TaskLeft
<1>2. /\ \A p : PromiseLeft(p) \in Nat
      /\ \A t : StopLeft(t) \in Nat
      /\ \A s : StreamLeft(s) \in Nat
      /\ \A s : ChannelLeft(s) \in Nat
  BY DEF PromiseLeft, StopLeft, StreamLeft, ChannelLeft
<1> QED BY <1>1, <1>2

LEMMA WeightTypes ==
  ASSUME TypeOK, NEW c \in Clients
  PROVE  /\ HandlerLeft(handler[c]) \in Nat /\ PromiseLeft(join[c]) \in Nat
         /\ TaskLeft(task[c]) \in Nat /\ StopLeft(stopTask[c]) \in Nat
         /\ StreamLeft(stream[c]) \in Nat /\ ChannelLeft(channel[c]) \in Nat
         /\ StayLeft(inRoom[c]) \in Nat /\ Len(toPage[c]) \in Nat
         /\ Left(c) \in Nat
<1>1. StayLeft(inRoom[c]) \in Nat
  BY DEF StayLeft
<1>2. Len(toPage[c]) \in Nat
  BY DEF TypeOK
<1> QED BY <1>1, <1>2, WeightsNat DEF Left

LEMMA WeightTypesNext ==
  ASSUME TypeOK', NEW c \in Clients
  PROVE  /\ HandlerLeft(handler'[c]) \in Nat /\ PromiseLeft(join'[c]) \in Nat
         /\ TaskLeft(task'[c]) \in Nat /\ StopLeft(stopTask'[c]) \in Nat
         /\ StreamLeft(stream'[c]) \in Nat /\ ChannelLeft(channel'[c]) \in Nat
         /\ StayLeft(inRoom'[c]) \in Nat /\ Len(toPage'[c]) \in Nat
<1>1. StayLeft(inRoom'[c]) \in Nat
  BY DEF StayLeft
<1>2. Len(toPage'[c]) \in Nat
  BY DEF TypeOK
<1> QED BY <1>1, <1>2, WeightsNat

(* A step, part by part.                                                   *)
PartsFall(c) ==
  /\ HandlerLeft(handler'[c]) <= HandlerLeft(handler[c])
  /\ PromiseLeft(join'[c]) <= PromiseLeft(join[c])
  /\ TaskLeft(task'[c]) <= TaskLeft(task[c])
  /\ StopLeft(stopTask'[c]) <= StopLeft(stopTask[c])
  /\ StreamLeft(stream'[c]) <= StreamLeft(stream[c])
  /\ ChannelLeft(channel'[c]) <= ChannelLeft(channel[c])
  /\ StayLeft(inRoom'[c]) <= StayLeft(inRoom[c])
  /\ Len(toPage'[c]) <= Len(toPage[c])

SomePartFalls(c) ==
  \/ HandlerLeft(handler'[c]) < HandlerLeft(handler[c])
  \/ PromiseLeft(join'[c]) < PromiseLeft(join[c])
  \/ StreamLeft(stream'[c]) < StreamLeft(stream[c])
  \/ StopLeft(stopTask'[c]) < StopLeft(stopTask[c])
  \/ ChannelLeft(channel'[c]) < ChannelLeft(channel[c])
  \/ StayLeft(inRoom'[c]) < StayLeft(inRoom[c])
  \/ Len(toPage'[c]) < Len(toPage[c])

LEMMA Falls ==
  ASSUME TypeOK, TypeOK', NEW c \in Clients, PartsFall(c)
  PROVE  /\ Left(c)' <= Left(c)
         /\ SomePartFalls(c) => Left(c)' < Left(c)
<1> DEFINE h == HandlerLeft(handler[c])  h2 == HandlerLeft(handler'[c])
           j == PromiseLeft(join[c])     j2 == PromiseLeft(join'[c])
           t == TaskLeft(task[c])        t2 == TaskLeft(task'[c])
           o == StopLeft(stopTask[c])    o2 == StopLeft(stopTask'[c])
           s == StreamLeft(stream[c])    s2 == StreamLeft(stream'[c])
           n == ChannelLeft(channel[c])  n2 == ChannelLeft(channel'[c])
           r == StayLeft(inRoom[c])      r2 == StayLeft(inRoom'[c])
           m == Len(toPage[c])           m2 == Len(toPage'[c])
<1>1. /\ h \in Nat /\ j \in Nat /\ t \in Nat /\ o \in Nat /\ s \in Nat
      /\ n \in Nat /\ r \in Nat /\ m \in Nat
  BY WeightTypes
<1>2. /\ h2 \in Nat /\ j2 \in Nat /\ t2 \in Nat /\ o2 \in Nat /\ s2 \in Nat
      /\ n2 \in Nat /\ r2 \in Nat /\ m2 \in Nat
  BY WeightTypesNext
<1>3. Left(c) = h + j + t + o + s + n + r + m
  BY DEF Left
<1>4. Left(c)' = h2 + j2 + t2 + o2 + s2 + n2 + r2 + m2
  BY DEF Left
<1>5. /\ h2 <= h /\ j2 <= j /\ t2 <= t /\ o2 <= o /\ s2 <= s /\ n2 <= n
      /\ r2 <= r /\ m2 <= m
  BY DEF PartsFall
<1>6. SomePartFalls(c) => \/ h2 < h \/ j2 < j \/ s2 < s \/ o2 < o
                          \/ n2 < n \/ r2 < r \/ m2 < m
  BY DEF SomePartFalls
<1> DEFINE L == Left(c)  L2 == Left(c)'
<1>7. /\ L = h + j + t + o + s + n + r + m
      /\ L2 = h2 + j2 + t2 + o2 + s2 + n2 + r2 + m2
  BY <1>3, <1>4
<1> HIDE DEF h, h2, j, j2, t, t2, o, o2, s, s2, n, n2, r, r2, m, m2, L, L2
<1>8. L2 <= L /\ (SomePartFalls(c) => L2 < L)
  BY <1>1, <1>2, <1>5, <1>6, <1>7
<1> QED BY <1>8 DEF L, L2

LEMMA SameFalls ==
  ASSUME TypeOK, NEW c \in Clients,
         handler'[c] = handler[c], join'[c] = join[c], task'[c] = task[c],
         stopTask'[c] = stopTask[c], stream'[c] = stream[c],
         channel'[c] = channel[c], inRoom'[c] = inRoom[c],
         toPage'[c] = toPage[c]
  PROVE  PartsFall(c)
<1>1. /\ HandlerLeft(handler'[c]) = HandlerLeft(handler[c])
      /\ PromiseLeft(join'[c]) = PromiseLeft(join[c])
      /\ TaskLeft(task'[c]) = TaskLeft(task[c])
      /\ StopLeft(stopTask'[c]) = StopLeft(stopTask[c])
      /\ StreamLeft(stream'[c]) = StreamLeft(stream[c])
      /\ ChannelLeft(channel'[c]) = ChannelLeft(channel[c])
      /\ StayLeft(inRoom'[c]) = StayLeft(inRoom[c])
      /\ Len(toPage'[c]) = Len(toPage[c])
  OBVIOUS
<1> QED BY <1>1, WeightTypes DEF PartsFall

(* What one part gains another one loses. *)
Trade(c, h, j, t, o, s, n, r, m) ==
  /\ HandlerLeft(handler'[c]) <= HandlerLeft(handler[c]) + h
  /\ PromiseLeft(join'[c]) <= PromiseLeft(join[c]) + j
  /\ TaskLeft(task'[c]) <= TaskLeft(task[c]) + t
  /\ StopLeft(stopTask'[c]) <= StopLeft(stopTask[c]) + o
  /\ StreamLeft(stream'[c]) <= StreamLeft(stream[c]) + s
  /\ ChannelLeft(channel'[c]) <= ChannelLeft(channel[c]) + n
  /\ StayLeft(inRoom'[c]) <= StayLeft(inRoom[c]) + r
  /\ Len(toPage'[c]) <= Len(toPage[c]) + m

LEMMA Trades ==
  ASSUME TypeOK, TypeOK', NEW c \in Clients,
         NEW h \in Int, NEW j \in Int, NEW t \in Int, NEW o \in Int,
         NEW s \in Int, NEW n \in Int, NEW r \in Int, NEW m \in Int,
         Trade(c, h, j, t, o, s, n, r, m), h + j + t + o + s + n + r + m < 0
  PROVE  Left(c)' < Left(c)
<1> DEFINE h1 == HandlerLeft(handler[c])  h2 == HandlerLeft(handler'[c])
           j1 == PromiseLeft(join[c])     j2 == PromiseLeft(join'[c])
           t1 == TaskLeft(task[c])        t2 == TaskLeft(task'[c])
           o1 == StopLeft(stopTask[c])    o2 == StopLeft(stopTask'[c])
           s1 == StreamLeft(stream[c])    s2 == StreamLeft(stream'[c])
           n1 == ChannelLeft(channel[c])  n2 == ChannelLeft(channel'[c])
           r1 == StayLeft(inRoom[c])      r2 == StayLeft(inRoom'[c])
           m1 == Len(toPage[c])           m2 == Len(toPage'[c])
           L1 == Left(c)                  L2 == Left(c)'
<1>1. /\ h1 \in Nat /\ j1 \in Nat /\ t1 \in Nat /\ o1 \in Nat /\ s1 \in Nat
      /\ n1 \in Nat /\ r1 \in Nat /\ m1 \in Nat
  BY WeightTypes
<1>2. /\ h2 \in Nat /\ j2 \in Nat /\ t2 \in Nat /\ o2 \in Nat /\ s2 \in Nat
      /\ n2 \in Nat /\ r2 \in Nat /\ m2 \in Nat
  BY WeightTypesNext
<1>3. L1 = h1 + j1 + t1 + o1 + s1 + n1 + r1 + m1
  BY DEF Left
<1>4. L2 = h2 + j2 + t2 + o2 + s2 + n2 + r2 + m2
  BY DEF Left
<1>5. /\ h2 <= h1 + h /\ j2 <= j1 + j /\ t2 <= t1 + t /\ o2 <= o1 + o
      /\ s2 <= s1 + s /\ n2 <= n1 + n /\ r2 <= r1 + r /\ m2 <= m1 + m
  BY DEF Trade
<1> HIDE DEF h1, h2, j1, j2, t1, t2, o1, o2, s1, s2, n1, n2, r1, r2, m1, m2,
             L1, L2
<1>6. L2 < L1
  BY <1>1, <1>2, <1>3, <1>4, <1>5
<1> QED BY <1>6 DEF L1, L2

LEMMA HandlerWeights ==
  /\ HandlerLeft("none") = 28 /\ HandlerLeft("stopping") = 27
  /\ HandlerLeft("starting") = 15 /\ HandlerLeft("connecting") = 3
  /\ HandlerLeft("won") = 2 /\ HandlerLeft("lost") = 2
  /\ HandlerLeft("failed") = 1
  /\ HandlerLeft("connected") = 0 /\ HandlerLeft("over") = 0
BY DEF HandlerLeft

LEMMA TaskWeights ==
  /\ TaskLeft("starting") = 11 /\ TaskLeft("ready") = 9
  /\ TaskLeft("connecting") = 8 /\ TaskLeft("caching") = 3
  /\ TaskLeft("done") = 0
  /\ \A t : TaskLeft(t) >= 0
BY DEF TaskLeft

LEMMA OtherWeights ==
  /\ PromiseLeft("pending") = 2 /\ PromiseLeft("resolved") = 0
  /\ PromiseLeft("rejected") = 0
  /\ StopLeft("none") = 4 /\ StopLeft("asked") = 3
  /\ StopLeft("running") = 2 /\ StopLeft("done") = 0
  /\ StreamLeft("none") = 0 /\ StreamLeft("open") = 3
  /\ StreamLeft("ended") = 2 /\ StreamLeft("aborted") = 2
  /\ StreamLeft("over") = 0
  /\ ChannelLeft("open") = 1 /\ ChannelLeft("none") = 0
  /\ ChannelLeft("over") = 0
  /\ \A p : PromiseLeft(p) >= 0 /\ PromiseLeft(p) <= 2
  /\ \A s : StreamLeft(s) >= 0 /\ StreamLeft(s) <= 3
  /\ \A s : ChannelLeft(s) >= 0 /\ ChannelLeft(s) <= 1
<1>1. /\ PromiseLeft("pending") = 2 /\ PromiseLeft("resolved") = 0
      /\ PromiseLeft("rejected") = 0
      /\ \A p : PromiseLeft(p) >= 0 /\ PromiseLeft(p) <= 2
  BY DEF PromiseLeft
<1>2. /\ StopLeft("none") = 4 /\ StopLeft("asked") = 3
      /\ StopLeft("running") = 2 /\ StopLeft("done") = 0
  BY DEF StopLeft
<1>3. /\ StreamLeft("none") = 0 /\ StreamLeft("open") = 3
      /\ StreamLeft("ended") = 2 /\ StreamLeft("aborted") = 2
      /\ StreamLeft("over") = 0
      /\ \A s : StreamLeft(s) >= 0 /\ StreamLeft(s) <= 3
  BY DEF StreamLeft
<1>4. /\ ChannelLeft("open") = 1 /\ ChannelLeft("none") = 0
      /\ ChannelLeft("over") = 0
      /\ \A s : ChannelLeft(s) >= 0 /\ ChannelLeft(s) <= 1
  BY DEF ChannelLeft
<1> QED BY <1>1, <1>2, <1>3, <1>4

LEMMA PartsOf ==
  ASSUME TypeOK, NEW c \in Clients,
         \/ handler'[c] = handler[c]
         \/ HandlerLeft(handler'[c]) <= HandlerLeft(handler[c]),
         \/ join'[c] = join[c]
         \/ PromiseLeft(join'[c]) <= PromiseLeft(join[c]),
         \/ task'[c] = task[c],
         \/ stopTask'[c] = stopTask[c]
         \/ StopLeft(stopTask'[c]) <= StopLeft(stopTask[c]),
         \/ stream'[c] = stream[c]
         \/ StreamLeft(stream'[c]) <= StreamLeft(stream[c]),
         \/ channel'[c] = channel[c]
         \/ ChannelLeft(channel'[c]) <= ChannelLeft(channel[c]),
         \/ inRoom'[c] = inRoom[c]
         \/ ~inRoom'[c],
         \/ toPage'[c] = toPage[c]
         \/ toPage'[c] = << >>
         \/ toPage[c] # << >> /\ toPage'[c] = Tail(toPage[c])
  PROVE  PartsFall(c)
<1>1. HandlerLeft(handler'[c]) <= HandlerLeft(handler[c])
  <2>1. handler'[c] = handler[c] =>
          HandlerLeft(handler'[c]) = HandlerLeft(handler[c])
    OBVIOUS
  <2> QED BY <2>1, WeightTypes
<1>2. PromiseLeft(join'[c]) <= PromiseLeft(join[c])
  <2>1. join'[c] = join[c] => PromiseLeft(join'[c]) = PromiseLeft(join[c])
    OBVIOUS
  <2> QED BY <2>1, WeightTypes
<1>3. TaskLeft(task'[c]) <= TaskLeft(task[c])
  <2>1. TaskLeft(task'[c]) = TaskLeft(task[c])
    OBVIOUS
  <2> QED BY <2>1, WeightTypes
<1>4. StopLeft(stopTask'[c]) <= StopLeft(stopTask[c])
  <2>1. stopTask'[c] = stopTask[c] =>
          StopLeft(stopTask'[c]) = StopLeft(stopTask[c])
    OBVIOUS
  <2> QED BY <2>1, WeightTypes
<1>5. StreamLeft(stream'[c]) <= StreamLeft(stream[c])
  <2>1. stream'[c] = stream[c] => StreamLeft(stream'[c]) = StreamLeft(stream[c])
    OBVIOUS
  <2> QED BY <2>1, WeightTypes
<1>6. ChannelLeft(channel'[c]) <= ChannelLeft(channel[c])
  <2>1. channel'[c] = channel[c] =>
          ChannelLeft(channel'[c]) = ChannelLeft(channel[c])
    OBVIOUS
  <2> QED BY <2>1, WeightTypes
<1>7. StayLeft(inRoom'[c]) <= StayLeft(inRoom[c])
  BY DEF StayLeft
<1>8. Len(toPage'[c]) <= Len(toPage[c])
  <2> DEFINE p == toPage[c]
  <2>1. p \in Seq(Message)
    BY DEF TypeOK, Message
  <2> HIDE DEF p
  <2>2. /\ Len(p) \in Nat
        /\ Len(<< >>) = 0
        /\ p # << >> => Len(Tail(p)) = Len(p) - 1
    BY <2>1
  <2>3. toPage'[c] = p \/ toPage'[c] = << >>
        \/ (p # << >> /\ toPage'[c] = Tail(p))
    BY DEF p
  <2>4. Len(toPage'[c]) <= Len(p)
    BY <2>2, <2>3
  <2> QED BY <2>4 DEF p
<1> QED BY <1>1, <1>2, <1>3, <1>4, <1>5, <1>6, <1>7, <1>8 DEF PartsFall

LEMMA LeftNext ==
  ASSUME TypeOK', NEW c \in Clients
  PROVE  Left(c)' \in Nat
<1> DEFINE h == HandlerLeft(handler'[c])  j == PromiseLeft(join'[c])
           t == TaskLeft(task'[c])        o == StopLeft(stopTask'[c])
           s == StreamLeft(stream'[c])    n == ChannelLeft(channel'[c])
           r == StayLeft(inRoom'[c])      m == Len(toPage'[c])
<1>1. /\ h \in Nat /\ j \in Nat /\ t \in Nat /\ o \in Nat /\ s \in Nat
      /\ n \in Nat /\ r \in Nat /\ m \in Nat
  BY WeightTypesNext
<1>2. Left(c)' = h + j + t + o + s + n + r + m
  BY DEF Left
<1> HIDE DEF h, j, t, o, s, n, r, m
<1>3. h + j + t + o + s + n + r + m \in Nat
  BY <1>1
<1> QED BY <1>2, <1>3

FallsAt(c) == /\ \A d \in Clients : Left(d)' <= Left(d)
              /\ Left(c)' < Left(c)

LEMMA OneFalls ==
  ASSUME TypeOK, TypeOK', NEW c \in Clients, Left(c)' < Left(c),
         \A d \in Clients : d # c => PartsFall(d)
  PROVE  FallsAt(c)
<1>1. ASSUME NEW d \in Clients PROVE Left(d)' <= Left(d)
  <2>1. CASE d # c
    BY <2>1, Falls
  <2>2. CASE d = c
    <3>1. Left(c) \in Nat /\ Left(c)' \in Nat
      BY WeightTypes, LeftNext
    <3> DEFINE a == Left(c)  b == Left(c)'
    <3>2. a \in Nat /\ b \in Nat /\ b < a
      BY <3>1
    <3> HIDE DEF a, b
    <3>3. b <= a
      BY <3>2
    <3> QED BY <2>2, <3>3 DEF a, b
  <2> QED BY <2>1, <2>2
<1> QED BY <1>1 DEF FallsAt

LEMMA AllFall ==
  ASSUME TypeOK, TypeOK', NEW c \in Clients,
         \A d \in Clients : PartsFall(d), SomePartFalls(c)
  PROVE  FallsAt(c)
BY Falls DEF FallsAt

(* One lemma for each operator the actions are built from. *)
LEMMA StopTrysteroFalls ==
  ASSUME TypeOK, NEW c \in Clients, StopTrystero(c)
  PROVE  \A d \in Clients :
           /\ PromiseLeft(join'[d]) <= PromiseLeft(join[d])
           /\ ChannelLeft(channel'[d]) <= ChannelLeft(channel[d])
<1>1. /\ join'[c] = (IF left[c] THEN join[c] ELSE Rejected(join[c]))
      /\ channel'[c] = (IF left[c] \/ channel[c] = "none" THEN channel[c]
                        ELSE "over")
      /\ \A d \in Clients : d # c =>
           join'[d] = join[d] /\ channel'[d] = channel[d]
  BY DEF StopTrystero, TypeOK
<1>2. PromiseLeft(join'[c]) <= PromiseLeft(join[c])
  BY <1>1 DEF PromiseLeft, Rejected
<1>3. ChannelLeft(channel'[c]) <= ChannelLeft(channel[c])
  BY <1>1 DEF ChannelLeft
<1>4. ASSUME NEW d \in Clients, d # c
      PROVE  /\ PromiseLeft(join'[d]) = PromiseLeft(join[d])
             /\ ChannelLeft(channel'[d]) = ChannelLeft(channel[d])
  BY <1>1, <1>4
<1>5. ASSUME NEW d \in Clients, d # c
      PROVE  /\ PromiseLeft(join'[d]) <= PromiseLeft(join[d])
             /\ ChannelLeft(channel'[d]) <= ChannelLeft(channel[d])
  BY <1>4, <1>5, WeightTypes
<1> QED BY <1>2, <1>3, <1>5

LEMMA StopCallFalls ==
  ASSUME TypeOK, NEW x \in Callers, NEW c \in Clients, StopCall(x, c),
         stopTask[c] # "none" => stopped[c]
  PROVE  \A d \in Clients :
           /\ PromiseLeft(join'[d]) <= PromiseLeft(join[d])
           /\ ChannelLeft(channel'[d]) <= ChannelLeft(channel[d])
           /\ StopLeft(stopTask'[d]) <= StopLeft(stopTask[d])
<1>1. \A d \in Clients :
        /\ PromiseLeft(join'[d]) <= PromiseLeft(join[d])
        /\ ChannelLeft(channel'[d]) <= ChannelLeft(channel[d])
  <2>1. CASE held[c]
    BY <2>1, StopTrysteroFalls DEF StopCall
  <2>2. CASE ~held[c]
    <3>1. UNCHANGED <<join, channel>>
      BY <2>2 DEF StopCall
    <3>2. \A d \in Clients :
            /\ PromiseLeft(join'[d]) = PromiseLeft(join[d])
            /\ ChannelLeft(channel'[d]) = ChannelLeft(channel[d])
      BY <3>1
    <3> QED BY <3>2, WeightTypes
  <2> QED BY <2>1, <2>2
<1>2. ASSUME NEW d \in Clients
      PROVE  StopLeft(stopTask'[d]) <= StopLeft(stopTask[d])
  <2>1. \/ stopTask'[d] = stopTask[d]
        \/ stopTask[d] = "none" /\ stopTask'[d] = "asked"
    BY StopCallOne
  <2>2. stopTask'[d] = stopTask[d] =>
          StopLeft(stopTask'[d]) = StopLeft(stopTask[d])
    OBVIOUS
  <2>3. /\ StopLeft(stopTask[d]) \in Nat
        /\ StopLeft("asked") <= StopLeft("none")
    BY WeightsNat, OtherWeights
  <2>4. CASE stopTask'[d] = stopTask[d]
    BY <2>2, <2>3, <2>4
  <2>5. CASE stopTask[d] = "none" /\ stopTask'[d] = "asked"
    BY <2>3, <2>5
  <2> QED BY <2>1, <2>4, <2>5
<1> QED BY <1>1, <1>2

LEMMA TerminateFalls ==
  ASSUME TypeOK, NEW c \in Clients, Terminate(c)
  PROVE  /\ \A d \in Clients : StreamLeft(stream'[d]) <= StreamLeft(stream[d])
         /\ \A d \in Clients : toPage'[d] = toPage[d] \/ toPage'[d] = << >>
<1>1. ASSUME NEW d \in Clients
      PROVE  StreamLeft(stream'[d]) <= StreamLeft(stream[d])
  <2>1. stream'[d] = stream[d] \/ stream'[d] \in {"none", "over"}
    BY TerminateOne
  <2>2. stream'[d] = stream[d] => StreamLeft(stream'[d]) = StreamLeft(stream[d])
    OBVIOUS
  <2> QED BY <2>1, <2>2, WeightTypes, OtherWeights
<1> QED BY <1>1, TerminateOne

(* One lemma for each group of actions. *)
LEMMA MakeClientFalls ==
  ASSUME TypeOK, TypeOK', NEW c \in Clients, MakeClient(c)
  PROVE  FallsAt(c)
<1>1. /\ handler[c] = "stopping" /\ handler'[c] = "starting"
      /\ task'[c] = "starting"
      /\ UNCHANGED <<join, stopTask, stream, channel, inRoom, toPage>>
      /\ \A d \in Clients : d # c => handler'[d] = handler[d] /\ task'[d] = task[d]
  BY DEF MakeClient, roomVars, TypeOK
<1>2. Trade(c, -12, 0, 11, 0, 0, 0, 0, 0)
  <2>1. HandlerLeft(handler'[c]) <= HandlerLeft(handler[c]) + (-12)
    BY <1>1, HandlerWeights
  <2>2. TaskLeft(task'[c]) <= TaskLeft(task[c]) + 11
    BY <1>1, TaskWeights, WeightTypes
  <2>3. /\ PromiseLeft(join'[c]) = PromiseLeft(join[c])
        /\ StopLeft(stopTask'[c]) = StopLeft(stopTask[c])
        /\ StreamLeft(stream'[c]) = StreamLeft(stream[c])
        /\ ChannelLeft(channel'[c]) = ChannelLeft(channel[c])
        /\ StayLeft(inRoom'[c]) = StayLeft(inRoom[c])
        /\ Len(toPage'[c]) = Len(toPage[c])
    BY <1>1
  <2> QED BY <2>1, <2>2, <2>3, WeightTypes DEF Trade
<1>3. Left(c)' < Left(c)
  BY <1>2, Trades
<1>4. \A d \in Clients : d # c => PartsFall(d)
  BY <1>1, SameFalls
<1> QED BY <1>3, <1>4, OneFalls

LEMMA ConnectClientFalls ==
  ASSUME TypeOK, TypeOK', NEW c \in Clients, ConnectClient(c)
  PROVE  FallsAt(c)
<1>1. /\ handler[c] = "starting" /\ handler'[c] = "connecting"
      /\ task'[c] = task[c] \/ task'[c] = "connecting"
      /\ UNCHANGED <<stopTask, stream, channel, toPage>>
      /\ \A d \in Clients : d # c => handler'[d] = handler[d] /\ task'[d] = task[d]
  BY DEF ConnectClient, TypeOK
<1>2. \A d \in Clients : d # c => join'[d] = join[d] /\ inRoom'[d] = inRoom[d]
  <2>1. \/ UNCHANGED <<join, inRoom>>
        \/ /\ join' = [join EXCEPT ![c] = "pending"]
           /\ inRoom' = [inRoom EXCEPT ![c] = TRUE]
    BY DEF ConnectClient
  <2> QED BY <2>1 DEF TypeOK
<1>3. Trade(c, -12, 2, 8, 0, 0, 0, 1, 0)
  <2>1. HandlerLeft(handler'[c]) <= HandlerLeft(handler[c]) + (-12)
    BY <1>1, HandlerWeights
  <2>2. TaskLeft(task'[c]) <= TaskLeft(task[c]) + 8
    <3>1. task'[c] = task[c] => TaskLeft(task'[c]) = TaskLeft(task[c])
      OBVIOUS
    <3> QED BY <1>1, <3>1, TaskWeights, WeightTypes
  <2>3. PromiseLeft(join'[c]) <= PromiseLeft(join[c]) + 2
    BY OtherWeights, WeightTypes, WeightTypesNext
  <2>4. StayLeft(inRoom'[c]) <= StayLeft(inRoom[c]) + 1
    BY DEF StayLeft
  <2>5. /\ StopLeft(stopTask'[c]) = StopLeft(stopTask[c])
        /\ StreamLeft(stream'[c]) = StreamLeft(stream[c])
        /\ ChannelLeft(channel'[c]) = ChannelLeft(channel[c])
        /\ Len(toPage'[c]) = Len(toPage[c])
    BY <1>1
  <2> QED BY <2>1, <2>2, <2>3, <2>4, <2>5, WeightTypes DEF Trade
<1>4. Left(c)' < Left(c)
  BY <1>3, Trades
<1>5. \A d \in Clients : d # c => PartsFall(d)
  BY <1>1, <1>2, SameFalls
<1> QED BY <1>4, <1>5, OneFalls

(* A handler goes on, at most stopping what it has asked for. *)
LEMMA HandlerFalls ==
  ASSUME TypeOK, TypeOK', NEW c \in Clients, NEW h,
         handler' = [handler EXCEPT ![c] = h],
         HandlerLeft(h) < HandlerLeft(handler[c]),
         UNCHANGED <<task, inRoom>>,
         \A d \in Clients :
           /\ \/ join'[d] = join[d]
              \/ PromiseLeft(join'[d]) <= PromiseLeft(join[d])
           /\ \/ channel'[d] = channel[d]
              \/ ChannelLeft(channel'[d]) <= ChannelLeft(channel[d])
           /\ \/ stopTask'[d] = stopTask[d]
              \/ StopLeft(stopTask'[d]) <= StopLeft(stopTask[d])
           /\ \/ stream'[d] = stream[d]
              \/ StreamLeft(stream'[d]) <= StreamLeft(stream[d])
           /\ toPage'[d] = toPage[d] \/ toPage'[d] = << >>
  PROVE  FallsAt(c)
<1>1. /\ handler'[c] = h
      /\ \A d \in Clients : d # c => handler'[d] = handler[d]
  BY DEF TypeOK
<1>2. SomePartFalls(c)
  BY <1>1 DEF SomePartFalls
<1>3. ASSUME NEW d \in Clients PROVE PartsFall(d)
  <2>1. \/ handler'[d] = handler[d]
        \/ HandlerLeft(handler'[d]) <= HandlerLeft(handler[d])
    <3>1. CASE d # c
      BY <1>1, <3>1
    <3>2. CASE d = c
      <4>1. HandlerLeft(handler'[c]) <= HandlerLeft(handler[c])
        BY <1>1, WeightsNat
      <4> QED BY <3>2, <4>1
    <3> QED BY <3>1, <3>2
  <2> QED BY <2>1, PartsOf
<1> QED BY <1>2, <1>3, AllFall

LEMMA CaughtFalls ==
  ASSUME TypeOK, TypeOK', GoesInv, NEW c \in Clients, Caught(c),
         handler[c] \in {"starting", "lost", "connecting"}
  PROVE  FallsAt(c)
<1>1. /\ handler' = [handler EXCEPT ![c] = "failed"]
      /\ StopCall(c, c)
      /\ UNCHANGED <<toPage, task, stream, inRoom>>
  BY DEF Caught
<1>2. c \in Callers /\ (stopTask[c] # "none" => stopped[c])
  BY CallTypes DEF GoesInv, OneInv, WorkerInv
<1>3. HandlerLeft("failed") < HandlerLeft(handler[c])
  BY HandlerWeights
<1> QED BY <1>1, <1>2, <1>3, StopCallFalls, HandlerFalls

LEMMA ReactionFalls ==
  ASSUME TypeOK, TypeOK', GoesInv, NEW c \in Clients, Reaction(c)
  PROVE  FallsAt(c)
<1>1. CASE StartFails(c)
  BY <1>1, CaughtFalls DEF StartFails
<1>2. CASE WorkerWins(c)
  <2>1. /\ UNCHANGED <<task, stopTask, stream, inRoom, toPage>>
        /\ handler[c] = "connecting"
    BY <1>2 DEF WorkerWins, rpcVars, workerVars
  <2>2. CASE join[c] = "none"
    <3>1. /\ handler' = [handler EXCEPT ![c] = "connected"]
          /\ UNCHANGED <<join, channel>>
      BY <1>2, <2>2 DEF WorkerWins, Connected
    <3>2. HandlerLeft("connected") < HandlerLeft(handler[c])
      BY <2>1, HandlerWeights
    <3> QED BY <2>1, <3>1, <3>2, HandlerFalls
  <2>3. CASE join[c] # "none"
    <3>1. handler' = [handler EXCEPT ![c] = "won"] /\ StopTrystero(c)
      BY <1>2, <2>3 DEF WorkerWins
    <3>2. HandlerLeft("won") < HandlerLeft(handler[c])
      BY <2>1, HandlerWeights
    <3> QED BY <2>1, <3>1, <3>2, StopTrysteroFalls, HandlerFalls
  <2> QED BY <2>2, <2>3
<1>3. CASE WorkerHasWon(c)
  <2>1. /\ handler' = [handler EXCEPT ![c] = "connected"]
        /\ handler[c] = "won"
        /\ UNCHANGED <<join, task, stopTask, stream, channel, inRoom, toPage>>
    BY <1>3 DEF WorkerHasWon, Connected, rpcVars, workerVars, roomVars
  <2>2. HandlerLeft("connected") < HandlerLeft(handler[c])
    BY <2>1, HandlerWeights
  <2> QED BY <2>1, <2>2, HandlerFalls
<1>4. CASE TrysteroWins(c)
  <2>1. /\ handler' = [handler EXCEPT ![c] = "connected"]
        /\ handler[c] = "connecting"
        /\ UNCHANGED <<join, task, stopTask, channel, inRoom>>
        /\ UNCHANGED <<toPage, stream>> \/ Terminate(c)
    BY <1>4 DEF TrysteroWins, Connected, Cancel, rpcVars, roomVars
  <2>2. HandlerLeft("connected") < HandlerLeft(handler[c])
    BY <2>1, HandlerWeights
  <2> QED BY <2>1, <2>2, TerminateFalls, HandlerFalls
<1>5. CASE NobodyWins(c)
  <2>1. CASE join[c] = "none"
    BY <1>5, <2>1, CaughtFalls DEF NobodyWins
  <2>2. CASE join[c] # "none"
    <3>1. /\ handler' = [handler EXCEPT ![c] = "lost"] /\ StopTrystero(c)
          /\ handler[c] = "connecting"
          /\ UNCHANGED <<task, stopTask, stream, inRoom, toPage>>
      BY <1>5, <2>2 DEF NobodyWins, rpcVars, workerVars
    <3>2. HandlerLeft("lost") < HandlerLeft(handler[c])
      BY <3>1, HandlerWeights
    <3> QED BY <3>1, <3>2, StopTrysteroFalls, HandlerFalls
  <2> QED BY <2>1, <2>2
<1>6. CASE NobodyHasWon(c)
  BY <1>6, CaughtFalls DEF NobodyHasWon
<1>7. CASE FailedStops(c)
  <2>1. /\ handler' = [handler EXCEPT ![c] = "over"]
        /\ handler[c] = "failed"
        /\ UNCHANGED <<join, task, stopTask, stream, channel, inRoom, toPage>>
    BY <1>7 DEF FailedStops, rpcVars, workerVars, roomVars
  <2>2. HandlerLeft("over") < HandlerLeft(handler[c])
    BY <2>1, HandlerWeights
  <2> QED BY <2>1, <2>2, HandlerFalls
<1> QED BY <1>1, <1>2, <1>3, <1>4, <1>5, <1>6, <1>7, MakeClientFalls,
           ConnectClientFalls DEF Reaction

LEMMA ConnectFalls ==
  ASSUME TypeOK, TypeOK', GoesInv, NEW c \in Clients, Connect(c)
  PROVE  FallsAt(c)
<1>1. /\ handler' = [handler EXCEPT ![c] = "stopping"] /\ handler[c] = "none"
      /\ UNCHANGED <<toPage, task, stream, inRoom>>
  BY DEF Connect
<1>2. HandlerLeft("stopping") < HandlerLeft(handler[c])
  BY <1>1, HandlerWeights
<1>3. CASE current = "none"
  <2>1. UNCHANGED <<stopTask, join, channel>>
    BY <1>3 DEF Connect
  <2> QED BY <1>1, <1>2, <2>1, HandlerFalls
<1>4. CASE current # "none"
  <2>1. /\ StopCall(c, current) /\ current \in Clients /\ c \in Callers
        /\ stopTask[current] # "none" => stopped[current]
    BY <1>4, CallTypes DEF Connect, TypeOK, GoesInv, OneInv, WorkerInv
  <2> QED BY <1>1, <1>2, <2>1, StopCallFalls, HandlerFalls
<1> QED BY <1>3, <1>4

LEMMA DisconnectFalls ==
  ASSUME TypeOK, TypeOK', GoesInv, Disconnect \/ DisconnectEnds,
         NEW d \in Clients
  PROVE  Left(d)' <= Left(d)
<1>1. UNCHANGED <<handler, toPage, task, stream, inRoom>>
  BY DEF Disconnect, DisconnectEnds, rpcVars, workerVars, roomVars
<1>2. CASE UNCHANGED <<stopTask, join, channel>>
  BY <1>1, <1>2, SameFalls, Falls
<1>3. CASE ~UNCHANGED <<stopTask, join, channel>>
  <2>1. /\ StopCall("disconnect", current) /\ current \in Clients
        /\ "disconnect" \in Callers
        /\ stopTask[current] # "none" => stopped[current]
    BY <1>3, CallTypes DEF Disconnect, DisconnectEnds, workerVars, roomVars,
                           TypeOK, GoesInv, OneInv, WorkerInv
  <2>2. PartsFall(d)
    BY <1>1, <2>1, StopCallFalls, PartsOf
  <2> QED BY <2>2, Falls
<1> QED BY <1>2, <1>3

LEMMA DeliverFalls ==
  ASSUME TypeOK, TypeOK', NEW c \in Clients, Deliver(c)
  PROVE  FallsAt(c)
<1>1. /\ UNCHANGED <<handler, join, task, stopTask, channel, inRoom>>
      /\ toPage[c] # << >> /\ toPage[c] \in Seq(Message)
  BY DEF Deliver, callVars, workerVars, roomVars, TypeOK, Message
<1>2. /\ \A d \in Clients : \/ stream'[d] = stream[d]
                            \/ StreamLeft(stream'[d]) <= StreamLeft(stream[d])
      /\ \A d \in Clients : d # c => toPage'[d] = toPage[d]
      /\ toPage'[c] = << >> \/ toPage'[c] = Tail(toPage[c])
  <2>1. CASE Terminate(c)
    BY <2>1, TerminateFalls, TerminateOne
  <2>2. CASE ~Terminate(c)
    <3>1. /\ toPage' = [toPage EXCEPT ![c] = Tail(toPage[c])]
          /\ UNCHANGED stream
      BY <2>2 DEF Deliver
    <3> QED BY <3>1 DEF TypeOK
  <2> QED BY <2>1, <2>2
<1>3. Len(toPage'[c]) < Len(toPage[c])
  <2> DEFINE p == toPage[c]
  <2>1. p \in Seq(Message) /\ p # << >>
    BY <1>1
  <2>2. toPage'[c] = << >> \/ toPage'[c] = Tail(p)
    BY <1>2
  <2> HIDE DEF p
  <2>3. Len(p) \in Nat /\ Len(p) > 0 /\ Len(<< >>) = 0 /\ Len(Tail(p)) = Len(p) - 1
    BY <2>1
  <2>4. Len(toPage'[c]) < Len(p)
    BY <2>2, <2>3
  <2> QED BY <2>4 DEF p
<1>4. SomePartFalls(c)
  BY <1>3 DEF SomePartFalls
<1>5. ASSUME NEW d \in Clients PROVE PartsFall(d)
  <2>1. \/ toPage'[d] = toPage[d]
        \/ toPage'[d] = << >>
        \/ toPage[d] # << >> /\ toPage'[d] = Tail(toPage[d])
    BY <1>1, <1>2
  <2>2. stream'[d] = stream[d] \/ StreamLeft(stream'[d]) <= StreamLeft(stream[d])
    BY <1>2
  <2> QED BY <1>1, <2>1, <2>2, PartsOf
<1> QED BY <1>4, <1>5, AllFall

LEMMA RoomFalls ==
  ASSUME TypeOK, TypeOK', NEW c \in Clients,
         \/ TrysteroOpens(c) \/ TrysteroTimesOut(c)
         \/ TrysteroEnds(c) \/ TrysteroFinal(c) \/ RoomLeft(c)
  PROVE  FallsAt(c)
<1>1. UNCHANGED <<handler, toPage, task, stopTask, stream>>
  BY DEF TrysteroOpens, TrysteroTimesOut, TrysteroEnds, TrysteroFinal, RoomLeft,
         callVars, rpcVars, workerVars
<1>2. CASE TrysteroOpens(c)
  <2>1. /\ UNCHANGED inRoom
        /\ join[c] = "pending" /\ join'[c] = "resolved" /\ channel'[c] = "open"
        /\ \A d \in Clients : d # c =>
             join'[d] = join[d] /\ channel'[d] = channel[d]
    BY <1>2 DEF TrysteroOpens, TypeOK
  <2>2. Trade(c, 0, -2, 0, 0, 0, 1, 0, 0)
    <3>1. PromiseLeft(join'[c]) <= PromiseLeft(join[c]) + (-2)
      BY <2>1, OtherWeights
    <3>2. ChannelLeft(channel'[c]) <= ChannelLeft(channel[c]) + 1
      BY <2>1, OtherWeights, WeightTypes
    <3>3. /\ HandlerLeft(handler'[c]) = HandlerLeft(handler[c])
          /\ TaskLeft(task'[c]) = TaskLeft(task[c])
          /\ StopLeft(stopTask'[c]) = StopLeft(stopTask[c])
          /\ StreamLeft(stream'[c]) = StreamLeft(stream[c])
          /\ StayLeft(inRoom'[c]) = StayLeft(inRoom[c])
          /\ Len(toPage'[c]) = Len(toPage[c])
      BY <1>1, <2>1
    <3> QED BY <3>1, <3>2, <3>3, WeightTypes DEF Trade
  <2>3. Left(c)' < Left(c)
    BY <2>2, Trades
  <2>4. \A d \in Clients : d # c => PartsFall(d)
    BY <1>1, <2>1, SameFalls
  <2> QED BY <2>3, <2>4, OneFalls
<1>3. CASE TrysteroTimesOut(c)
  <2>1. /\ UNCHANGED <<inRoom, channel>>
        /\ join[c] = "pending" /\ join'[c] = "rejected"
        /\ \A d \in Clients : d # c => join'[d] = join[d]
    BY <1>3 DEF TrysteroTimesOut, TypeOK
  <2>2. PromiseLeft(join'[c]) < PromiseLeft(join[c])
    BY <2>1, OtherWeights
  <2>3. SomePartFalls(c)
    BY <2>2 DEF SomePartFalls
  <2>4. ASSUME NEW d \in Clients PROVE PartsFall(d)
    <3>1. join'[d] = join[d] \/ PromiseLeft(join'[d]) <= PromiseLeft(join[d])
      BY <2>1, <2>2, WeightsNat
    <3> QED BY <1>1, <2>1, <3>1, PartsOf
  <2> QED BY <2>3, <2>4, AllFall
<1>4. CASE TrysteroEnds(c)
  <2>1. /\ UNCHANGED join
        /\ channel[c] = "open" /\ channel'[c] = "over"
        /\ \A d \in Clients : d # c => channel'[d] = channel[d]
        /\ inRoom' = inRoom \/ inRoom' = [inRoom EXCEPT ![c] = FALSE]
    BY <1>4 DEF TrysteroEnds, TypeOK
  <2>2. \A d \in Clients : inRoom'[d] = inRoom[d] \/ ~inRoom'[d]
    BY <2>1 DEF TypeOK
  <2>3. ChannelLeft(channel'[c]) < ChannelLeft(channel[c])
    BY <2>1, OtherWeights
  <2>4. SomePartFalls(c)
    BY <2>3 DEF SomePartFalls
  <2>5. ASSUME NEW d \in Clients PROVE PartsFall(d)
    <3>1. \/ channel'[d] = channel[d]
          \/ ChannelLeft(channel'[d]) <= ChannelLeft(channel[d])
      BY <2>1, <2>3, WeightsNat
    <3> QED BY <1>1, <2>1, <2>2, <3>1, PartsOf
  <2> QED BY <2>4, <2>5, AllFall
<1>5. CASE TrysteroFinal(c) \/ RoomLeft(c)
  <2>1. /\ UNCHANGED <<join, channel>>
        /\ inRoom' = [inRoom EXCEPT ![c] = FALSE] /\ inRoom[c]
    BY <1>5 DEF TrysteroFinal, RoomLeft
  <2>2. /\ \A d \in Clients : inRoom'[d] = inRoom[d] \/ ~inRoom'[d]
        /\ ~inRoom'[c]
    BY <2>1 DEF TypeOK
  <2>3. StayLeft(inRoom'[c]) < StayLeft(inRoom[c])
    BY <2>1, <2>2 DEF StayLeft
  <2>4. SomePartFalls(c)
    BY <2>3 DEF SomePartFalls
  <2>5. \A d \in Clients : PartsFall(d)
    BY <1>1, <2>1, <2>2, PartsOf
  <2> QED BY <2>4, <2>5, AllFall
<1> QED BY <1>2, <1>3, <1>4, <1>5

(* A worker posts what it has done. *)
LEMMA PostsMore ==
  ASSUME TypeOK, NEW c \in Clients, NEW m, Posts(c, m)
  PROVE  /\ Len(toPage'[c]) <= Len(toPage[c]) + 1
         /\ \A d \in Clients : d # c => toPage'[d] = toPage[d]
<1> DEFINE p == toPage[c]
<1>1. /\ toPage'[c] = Append(p, m) /\ p \in Seq(Message)
      /\ \A d \in Clients : d # c => toPage'[d] = toPage[d]
  BY DEF Posts, TypeOK, Message
<1> HIDE DEF p
<1>2. Len(Append(p, m)) = Len(p) + 1 /\ Len(p) \in Nat
  BY <1>1
<1>3. Len(toPage'[c]) <= Len(p) + 1
  BY <1>1, <1>2
<1> QED BY <1>1, <1>3 DEF p

(* A step of a worker: what its task, its stop and its stream lose is more *)
(* than what it posts.                                                     *)
WorkerTrade(c, t, o, s, m) ==
  /\ TaskLeft(task'[c]) <= TaskLeft(task[c]) + t
  /\ StopLeft(stopTask'[c]) <= StopLeft(stopTask[c]) + o
  /\ StreamLeft(stream'[c]) <= StreamLeft(stream[c]) + s
  /\ Len(toPage'[c]) <= Len(toPage[c]) + m

OthersRest(c) == \A d \in Clients : d # c => /\ task'[d] = task[d]
                                             /\ stopTask'[d] = stopTask[d]
                                             /\ stream'[d] = stream[d]
                                             /\ toPage'[d] = toPage[d]

LEMMA WorkerTrades ==
  ASSUME TypeOK, TypeOK', NEW c \in Clients,
         UNCHANGED <<handler, join, channel, inRoom>>,
         OthersRest(c),
         NEW t \in Int, NEW o \in Int, NEW s \in Int, NEW m \in Int,
         WorkerTrade(c, t, o, s, m), t + o + s + m < 0
  PROVE  FallsAt(c)
<1>1. Trade(c, 0, 0, t, o, s, 0, 0, m)
  <2>1. /\ HandlerLeft(handler'[c]) = HandlerLeft(handler[c])
        /\ PromiseLeft(join'[c]) = PromiseLeft(join[c])
        /\ ChannelLeft(channel'[c]) = ChannelLeft(channel[c])
        /\ StayLeft(inRoom'[c]) = StayLeft(inRoom[c])
    OBVIOUS
  <2>2. /\ HandlerLeft(handler'[c]) <= HandlerLeft(handler[c]) + 0
        /\ PromiseLeft(join'[c]) <= PromiseLeft(join[c]) + 0
        /\ ChannelLeft(channel'[c]) <= ChannelLeft(channel[c]) + 0
        /\ StayLeft(inRoom'[c]) <= StayLeft(inRoom[c]) + 0
    BY <2>1, WeightTypes
  <2> QED BY <2>2 DEF Trade, WorkerTrade
<1> DEFINE z == 0
<1>2. z \in Int /\ z + z + t + o + s + z + z + m < 0
  OBVIOUS
<1>3. Left(c)' < Left(c)
  <2>1. Trade(c, z, z, t, o, s, z, z, m)
    BY <1>1
  <2> HIDE DEF z
  <2> QED BY <1>2, <2>1, Trades
<1>4. \A d \in Clients : d # c => PartsFall(d)
  BY SameFalls DEF OthersRest
<1> QED BY <1>3, <1>4, OneFalls

LEMMA WorkerFalls ==
  ASSUME TypeOK, TypeOK', NEW c \in Clients,
         \/ WorkerTask(c) \/ WorkerStop(c)
         \/ WorkerStreamEndsEarly(c) \/ WorkerStreamEnds(c)
  PROVE  FallsAt(c)
<1>1. UNCHANGED <<handler, join, channel, inRoom>>
  BY DEF WorkerTask, WorkerStarts, WorkerDials, WorkerConnects, WorkerStop,
         WorkerStops, WorkerStopped, WorkerStreamEndsEarly, WorkerStreamEnds,
         callVars, roomVars
<1>2. /\ task'[c] = task[c] => TaskLeft(task'[c]) <= TaskLeft(task[c]) + 0
      /\ stopTask'[c] = stopTask[c] =>
           StopLeft(stopTask'[c]) <= StopLeft(stopTask[c]) + 0
      /\ stream'[c] = stream[c] =>
           StreamLeft(stream'[c]) <= StreamLeft(stream[c]) + 0
      /\ toPage'[c] = toPage[c] => Len(toPage'[c]) <= Len(toPage[c]) + 0
  <2>1. /\ task'[c] = task[c] => TaskLeft(task'[c]) = TaskLeft(task[c])
        /\ stopTask'[c] = stopTask[c] =>
             StopLeft(stopTask'[c]) = StopLeft(stopTask[c])
        /\ stream'[c] = stream[c] =>
             StreamLeft(stream'[c]) = StreamLeft(stream[c])
        /\ toPage'[c] = toPage[c] => Len(toPage'[c]) = Len(toPage[c])
    OBVIOUS
  <2> QED BY <2>1, WeightTypes
<1>3. CASE WorkerStarts(c)
  <2>1. /\ task[c] = "starting" /\ task'[c] \in {"ready", "done"}
        /\ \A d \in Clients : d # c => task'[d] = task[d]
        /\ UNCHANGED <<stopTask, stream>>
    BY <1>3 DEF WorkerStarts, TypeOK
  <2>2. \E m : Posts(c, m)
    BY <1>3 DEF WorkerStarts
  <2>3. TaskLeft(task'[c]) <= TaskLeft(task[c]) + (-2)
    BY <2>1, TaskWeights
  <2>4. /\ Len(toPage'[c]) <= Len(toPage[c]) + 1
        /\ \A d \in Clients : d # c => toPage'[d] = toPage[d]
    BY <2>2, PostsMore
  <2>5. WorkerTrade(c, -2, 0, 0, 1)
    BY <1>2, <2>1, <2>3, <2>4 DEF WorkerTrade
  <2>6. OthersRest(c)
    BY <2>1, <2>4 DEF OthersRest
  <2> QED BY <1>1, <2>5, <2>6, WorkerTrades
<1>4. CASE WorkerDials(c)
  <2>1. /\ task[c] = "connecting" /\ task'[c] \in {"caching", "done"}
        /\ \A d \in Clients : d # c =>
             task'[d] = task[d] /\ stream'[d] = stream[d]
        /\ UNCHANGED stopTask
    BY <1>4 DEF WorkerDials, TypeOK
  <2>2. UNCHANGED toPage \/ \E m : Posts(c, m)
    BY <1>4 DEF WorkerDials
  <2>3. TaskLeft(task'[c]) <= TaskLeft(task[c]) + (-5)
    BY <2>1, TaskWeights
  <2>4. StreamLeft(stream'[c]) <= StreamLeft(stream[c]) + 3
    BY OtherWeights, WeightTypes, WeightTypesNext
  <2>5. /\ Len(toPage'[c]) <= Len(toPage[c]) + 1
        /\ \A d \in Clients : d # c => toPage'[d] = toPage[d]
    <3>1. CASE UNCHANGED toPage
      BY <3>1, WeightTypes
    <3>2. CASE \E m : Posts(c, m)
      BY <3>2, PostsMore
    <3> QED BY <2>2, <3>1, <3>2
  <2>6. WorkerTrade(c, -5, 0, 3, 1)
    BY <1>2, <2>1, <2>3, <2>4, <2>5 DEF WorkerTrade
  <2>7. OthersRest(c)
    BY <2>1, <2>5 DEF OthersRest
  <2> QED BY <1>1, <2>6, <2>7, WorkerTrades
<1>5. CASE WorkerConnects(c)
  <2>1. /\ task[c] = "caching" /\ task'[c] = "done"
        /\ stream'[c] = stream[c] \/ stream'[c] = "over"
        /\ \A d \in Clients : d # c =>
             task'[d] = task[d] /\ stream'[d] = stream[d]
        /\ UNCHANGED stopTask
    BY <1>5 DEF WorkerConnects, TypeOK
  <2>2. PICK news \in {<<"opened">>, <<"closed", "opened">>,
                       <<"opened", "closed">>} :
          toPage' = [toPage EXCEPT ![c] = toPage[c] \o news]
    BY <1>5 DEF WorkerConnects
  <2>3. /\ toPage'[c] = toPage[c] \o news
        /\ \A d \in Clients : d # c => toPage'[d] = toPage[d]
    BY <2>2 DEF TypeOK
  <2>4. Len(toPage'[c]) <= Len(toPage[c]) + 2
    <3> DEFINE p == toPage[c]
    <3>1. p \in Seq(Message) /\ toPage'[c] = p \o news
      BY <2>3 DEF TypeOK, Message
    <3> HIDE DEF p
    <3>2. /\ news \in Seq(Message)
          /\ Len(news) = 1 \/ Len(news) = 2
      <4>1. "opened" \in Message /\ "closed" \in Message
        BY DEF Message
      <4>2. /\ <<"opened">> \in Seq(Message) /\ Len(<<"opened">>) = 1
            /\ <<"closed", "opened">> \in Seq(Message)
            /\ Len(<<"closed", "opened">>) = 2
            /\ <<"opened", "closed">> \in Seq(Message)
            /\ Len(<<"opened", "closed">>) = 2
        BY <4>1
      <4> QED BY <4>2
    <3>3. Len(p \o news) = Len(p) + Len(news) /\ Len(p) \in Nat /\ Len(news) \in Nat
      BY <3>1, <3>2
    <3>4. Len(toPage'[c]) <= Len(p) + 2
      <4>1. Len(toPage'[c]) = Len(p) + 1 \/ Len(toPage'[c]) = Len(p) + 2
        BY <3>1, <3>2, <3>3
      <4> QED BY <3>3, <4>1
    <3> QED BY <3>4 DEF p
  <2>5. TaskLeft(task'[c]) <= TaskLeft(task[c]) + (-3)
    BY <2>1, TaskWeights
  <2>6. StreamLeft(stream'[c]) <= StreamLeft(stream[c]) + 0
    BY <1>2, <2>1, OtherWeights, WeightTypes
  <2>7. WorkerTrade(c, -3, 0, 0, 2)
    BY <1>2, <2>1, <2>4, <2>5, <2>6 DEF WorkerTrade
  <2>8. OthersRest(c)
    BY <2>1, <2>3 DEF OthersRest
  <2> QED BY <1>1, <2>7, <2>8, WorkerTrades
<1>6. CASE WorkerStops(c)
  <2>1. /\ stopTask[c] = "asked" /\ stopTask'[c] = "running"
        /\ \/ stream'[c] = stream[c] \/ stream'[c] = "over"
           \/ stream[c] = "open" /\ stream'[c] = "aborted"
        /\ \A d \in Clients : d # c =>
             stopTask'[d] = stopTask[d] /\ stream'[d] = stream[d]
        /\ UNCHANGED <<task, toPage>>
    BY <1>6 DEF WorkerStops, rpcVars, TypeOK
  <2>2. StopLeft(stopTask'[c]) <= StopLeft(stopTask[c]) + (-1)
    BY <2>1, OtherWeights
  <2>3. StreamLeft(stream'[c]) <= StreamLeft(stream[c]) + 0
    BY <1>2, <2>1, OtherWeights, WeightTypes
  <2>4. WorkerTrade(c, 0, -1, 0, 0)
    BY <1>2, <2>1, <2>2, <2>3 DEF WorkerTrade
  <2>5. OthersRest(c)
    BY <2>1 DEF OthersRest
  <2> QED BY <1>1, <2>4, <2>5, WorkerTrades
<1>7. CASE WorkerStopped(c)
  <2>1. /\ stopTask[c] = "running" /\ stopTask'[c] = "done"
        /\ \A d \in Clients : d # c => stopTask'[d] = stopTask[d]
        /\ UNCHANGED <<task, stream>>
        /\ Posts(c, "stopped")
    BY <1>7 DEF WorkerStopped, TypeOK
  <2>2. StopLeft(stopTask'[c]) <= StopLeft(stopTask[c]) + (-2)
    BY <2>1, OtherWeights
  <2>3. WorkerTrade(c, 0, -2, 0, 1)
    BY <1>2, <2>1, <2>2, PostsMore DEF WorkerTrade
  <2>4. OthersRest(c)
    BY <2>1, PostsMore DEF OthersRest
  <2> QED BY <1>1, <2>3, <2>4, WorkerTrades
<1>8. CASE WorkerStreamEndsEarly(c)
  <2>1. /\ stream[c] = "open" /\ stream'[c] = "ended"
        /\ \A d \in Clients : d # c => stream'[d] = stream[d]
        /\ UNCHANGED <<task, stopTask, toPage>>
    BY <1>8 DEF WorkerStreamEndsEarly, rpcVars, TypeOK
  <2>2. StreamLeft(stream'[c]) <= StreamLeft(stream[c]) + (-1)
    BY <2>1, OtherWeights
  <2>3. WorkerTrade(c, 0, 0, -1, 0)
    BY <1>2, <2>1, <2>2 DEF WorkerTrade
  <2>4. OthersRest(c)
    BY <2>1 DEF OthersRest
  <2> QED BY <1>1, <2>3, <2>4, WorkerTrades
<1>9. CASE WorkerStreamEnds(c)
  <2>1. /\ stream[c] \in {"open", "aborted"} /\ stream'[c] = "over"
        /\ \A d \in Clients : d # c => stream'[d] = stream[d]
        /\ UNCHANGED <<task, stopTask>>
        /\ Posts(c, "closed")
    BY <1>9 DEF WorkerStreamEnds, TypeOK
  <2>2. StreamLeft(stream'[c]) <= StreamLeft(stream[c]) + (-2)
    BY <2>1, OtherWeights
  <2>3. WorkerTrade(c, 0, 0, -2, 1)
    BY <1>2, <2>1, <2>2, PostsMore DEF WorkerTrade
  <2>4. OthersRest(c)
    BY <2>1, PostsMore DEF OthersRest
  <2> QED BY <1>1, <2>3, <2>4, WorkerTrades
<1> QED BY <1>3, <1>4, <1>5, <1>6, <1>7, <1>8, <1>9 DEF WorkerTask, WorkerStop

LEMMA NextFalls ==
  ASSUME Inv, GoesInv, [Next]_vars
  PROVE  [/\ \A c \in Clients : Left(c) \in Nat /\ Left(c)' <= Left(c)
          /\ \/ \E c \in Clients : Left(c)' < Left(c)
             \/ Disconnect \/ DisconnectEnds]_vars
<1>0. TypeOK /\ TypeOK'
  BY NextTypes DEF Inv
<1>1. \A c \in Clients : Left(c) \in Nat
  BY <1>0, WeightTypes
<1>2. CASE UNCHANGED vars
  BY <1>2
<1>3. CASE Disconnect \/ DisconnectEnds
  <2>1. \A d \in Clients : Left(d)' <= Left(d)
    BY <1>0, <1>3, DisconnectFalls
  <2> QED BY <1>1, <1>3, <2>1
<1>4. ASSUME NEW c \in Clients, FallsAt(c)
      PROVE  /\ \A d \in Clients : Left(d) \in Nat /\ Left(d)' <= Left(d)
             /\ \E d \in Clients : Left(d)' < Left(d)
  BY <1>1, <1>4 DEF FallsAt
<1>5. ASSUME NEW c \in Clients,
             \/ Connect(c) \/ Reaction(c) \/ Deliver(c)
             \/ TrysteroOpens(c) \/ TrysteroTimesOut(c) \/ TrysteroEnds(c)
             \/ TrysteroFinal(c) \/ RoomLeft(c) \/ WorkerTask(c) \/ WorkerStop(c)
             \/ WorkerStreamEndsEarly(c) \/ WorkerStreamEnds(c)
      PROVE  FallsAt(c)
  BY <1>0, <1>5, ConnectFalls, ReactionFalls, DeliverFalls, RoomFalls, WorkerFalls
<1> QED BY <1>2, <1>3, <1>4, <1>5 DEF Next

(* connect(), the worker's tasks, its messages and the room of a client    *)
(* use themselves up, and nothing another client or a click does adds to   *)
(* them.  The two steps of disconnect() alone use nothing up, and need a   *)
(* page that a handler has connected since the last one.                   *)
THEOREM EverythingRunsOut == Spec => EverythingEnds
<1>1. Init => Inv /\ GoesInv
  BY InitInv, InitGoes
<1>2. (Inv /\ GoesInv) /\ [Next]_vars => (Inv /\ GoesInv)'
  BY NextInv, NextGoes
<1>3. (Inv /\ GoesInv) /\ [Next]_vars =>
        [/\ \A c \in Clients : Left(c) \in Nat /\ Left(c)' <= Left(c)
         /\ \/ \E c \in Clients : Left(c)' < Left(c)
            \/ Disconnect \/ DisconnectEnds]_vars
  BY NextFalls
<1> QED BY <1>1, <1>2, <1>3, PTL DEF Spec, EverythingEnds
=============================================================================
