---------------------------- MODULE BrowserClient ----------------------------
(***************************************************************************)
(* The browser program: the page (web/app/page.tsx), the client it makes   *)
(* for every connection (BrowserP2PClient and WorkerP2PClient of           *)
(* p2p-client.ts, BrowserTrysteroClient of trystero-client.ts) and the     *)
(* worker of that client (p2p.worker.ts).                                  *)
(*                                                                         *)
(* The page handles one event at a time: a click, a message of a worker,   *)
(* an event of a room.  The promise reactions an event leads to run before *)
(* the next one (Quiet).  Workers run on their own and are heard through   *)
(* their messages only.                                                    *)
(*                                                                         *)
(* connect() of the page makes one client, so a client also names the      *)
(* handler that makes it.                                                  *)
(***************************************************************************)
EXTENDS Sequences

CONSTANT Clients            \* bound: how often the user connects

ASSUME ClientsAssumption == {"none", "disconnect"} \cap Clients = {}

VARIABLES state,            \* connectionState, what the page shows
          current,          \* clientRef
          handler,          \* handler[c]: how far the connect() of c is
          awaiting,         \* the stop() a handler waits for, see StopCall
          active,           \* active[c]: the transport send() uses
          held,             \* held[c]: c.trystero is set
          worker,           \* worker[c]: "none", "up" or "terminated"
          stopped,          \* stopped of the WorkerP2PClient
          start, dial,      \* its requests "start" and "connect"
          toPage,           \* toPage[c]: messages of the worker
          task,             \* the worker's part of "start" and "connect"
          stopTask,         \* the worker's part of "stop"
          stream,           \* the worker's stream and receiveLoop
          join,             \* join[c]: connect() of the Trystero client
          left,             \* left[c]: stopped of the Trystero client
          channel,          \* its TrysteroStream and receiveLoop
          inRoom            \* the room was joined and not left yet

pageVars == <<state, current>>
callVars == <<handler, awaiting>>
clientVars == <<active, held>>
rpcVars == <<worker, stopped, start, dial, toPage>>
workerVars == <<task, stopTask, stream>>
roomVars == <<join, left, channel, inRoom>>
vars == <<pageVars, callVars, clientVars, rpcVars, workerVars, roomVars>>

Callers == Clients \cup {"disconnect"}
NoCall == [of |-> "none", on |-> {}]
Promise == {"none", "pending", "resolved", "rejected"}

TypeOK ==
  /\ state \in {"idle", "starting", "connecting", "connected", "closed",
                "error"}
  /\ current \in Clients \cup {"none"}
  /\ handler \in [Clients -> {"none", "stopping", "starting", "connecting",
                              "won", "lost", "failed", "connected", "over"}]
  /\ awaiting \in [Callers -> [of : Clients \cup {"none"},
                               on : SUBSET {"worker", "room"}]]
  /\ active \in [Clients -> {"none", "worker", "trystero"}]
  /\ held \in [Clients -> BOOLEAN]
  /\ worker \in [Clients -> {"none", "up", "terminated"}]
  /\ stopped \in [Clients -> BOOLEAN]
  /\ start \in [Clients -> Promise]
  /\ dial \in [Clients -> Promise]
  /\ toPage \in [Clients -> Seq({"started", "startFailed", "opened",
                                 "openFailed", "closed", "stopped"})]
  /\ task \in [Clients -> {"none", "starting", "ready", "connecting",
                           "caching", "done"}]
  /\ stopTask \in [Clients -> {"none", "asked", "running", "done"}]
  /\ stream \in [Clients -> {"none", "open", "ended", "aborted", "over"}]
  /\ join \in [Clients -> Promise]
  /\ left \in [Clients -> BOOLEAN]
  /\ channel \in [Clients -> {"none", "open", "over"}]
  /\ inRoom \in [Clients -> BOOLEAN]

Init == /\ state = "idle"
        /\ current = "none"
        /\ handler = [c \in Clients |-> "none"]
        /\ awaiting = [x \in Callers |-> NoCall]
        /\ active = [c \in Clients |-> "none"]
        /\ held = [c \in Clients |-> FALSE]
        /\ worker = [c \in Clients |-> "none"]
        /\ stopped = [c \in Clients |-> FALSE]
        /\ start = [c \in Clients |-> "none"]
        /\ dial = [c \in Clients |-> "none"]
        /\ toPage = [c \in Clients |-> << >>]
        /\ task = [c \in Clients |-> "none"]
        /\ stopTask = [c \in Clients |-> "none"]
        /\ stream = [c \in Clients |-> "none"]
        /\ join = [c \in Clients |-> "none"]
        /\ left = [c \in Clients |-> FALSE]
        /\ channel = [c \in Clients |-> "none"]
        /\ inRoom = [c \in Clients |-> FALSE]
-----------------------------------------------------------------------------
(* Mutant: terminate() rejects nothing. *)
NotRejected(p) == p

Rejected(p) == IF p = "pending" THEN "rejected" ELSE p

(* stop() of the Trystero client, up to its first await. *)
StopTrystero(c) ==
  /\ left' = [left EXCEPT ![c] = TRUE]
  /\ join' = [join EXCEPT ![c] = IF left[c] THEN @ ELSE Rejected(@)]
  /\ channel' = [channel EXCEPT ![c] = IF left[c] \/ @ = "none" THEN @
                                       ELSE "over"]

(* x calls stop() of client c and awaits it: the worker and the room, each *)
(* only if nobody has stopped it before.                                   *)
StopCall(x, c) ==
  /\ awaiting' = [awaiting EXCEPT ![x] =
       [of |-> c, on |-> (IF stopped[c] THEN {} ELSE {"worker"})
                         \cup (IF held[c] /\ ~left[c] THEN {"room"} ELSE {})]]
  /\ stopped' = [stopped EXCEPT ![c] = TRUE]
  /\ stopTask' = [stopTask EXCEPT ![c] = IF stopped[c] THEN @ ELSE "asked"]
  /\ IF held[c] THEN StopTrystero(c) ELSE UNCHANGED <<left, join, channel>>

StopReturns(x) ==
  LET a == awaiting[x]
  IN  /\ "worker" \in a.on => worker[a.of] = "terminated"
      /\ "room" \in a.on => ~inRoom[a.of]

(* The rest of stop() of client c. *)
StopEnds(c) ==
  IF c = "none" THEN UNCHANGED clientVars
  ELSE /\ active' = [active EXCEPT ![c] = "none"]
       /\ held' = [held EXCEPT ![c] = FALSE]

(* terminate(), then every pending request is rejected. *)
Terminate(c) ==
  /\ worker' = [worker EXCEPT ![c] = "terminated"]
  /\ toPage' = [toPage EXCEPT ![c] = << >>]
  /\ start' = [start EXCEPT ![c] = Rejected(@)]
  /\ dial' = [dial EXCEPT ![c] = Rejected(@)]
  /\ stream' = [stream EXCEPT ![c] = IF @ = "none" THEN @ ELSE "over"]

(* Mutant: cancel() sets its flag and lets the worker run. *)
CancelFlag(c) ==
  /\ stopped' = [stopped EXCEPT ![c] = TRUE]
  /\ UNCHANGED <<worker, start, dial, toPage, stream>>

(* cancel() of the WorkerP2PClient *)
Cancel(c) ==
  IF stopped[c] THEN UNCHANGED <<rpcVars, stream>>
  ELSE stopped' = [stopped EXCEPT ![c] = TRUE] /\ Terminate(c)
-----------------------------------------------------------------------------
(* The promise reactions of the page. *)

AllRejected(c) == dial[c] = "rejected" /\ join[c] \in {"none", "rejected"}

Ready(c) ==
  \/ handler[c] = "starting" /\ start[c] # "pending"
  \/ /\ handler[c] = "connecting"
     /\ dial[c] = "resolved" \/ join[c] = "resolved" \/ AllRejected(c)
  \/ /\ handler[c] \in {"stopping", "won", "lost", "failed"}
     /\ StopReturns(c)

Disconnecting == awaiting["disconnect"] # NoCall

Quiet == /\ \A c \in Clients : ~Ready(c)
         /\ Disconnecting => ~StopReturns("disconnect")

(* connect() of the page goes on after the stop() of the client before. *)
MakeClient(c) ==
  /\ handler[c] = "stopping" /\ StopReturns(c)
  /\ StopEnds(awaiting[c].of)
  /\ awaiting' = [awaiting EXCEPT ![c] = NoCall]
  /\ current' = c
  /\ state' = "starting"
  /\ handler' = [handler EXCEPT ![c] = "starting"]
  /\ worker' = [worker EXCEPT ![c] = "up"]
  /\ start' = [start EXCEPT ![c] = "pending"]
  /\ task' = [task EXCEPT ![c] = "starting"]
  /\ UNCHANGED <<roomVars, stopped, dial, toPage, stopTask, stream>>

(* connect() of the client: with a relay the worker alone dials, else the  *)
(* Trystero client joins its room as well.                                 *)
ConnectClient(c) ==
  /\ handler[c] = "starting" /\ start[c] = "resolved"
  /\ state' = "connecting"
  /\ handler' = [handler EXCEPT ![c] = "connecting"]
  /\ dial' = [dial EXCEPT ![c] = IF stopped[c] THEN "rejected" ELSE "pending"]
  /\ task' = [task EXCEPT ![c] = IF stopped[c] THEN @ ELSE "connecting"]
  /\ \/ UNCHANGED <<held, join, inRoom>>
     \/ /\ held' = [held EXCEPT ![c] = TRUE]
        /\ join' = [join EXCEPT ![c] = "pending"]
        /\ inRoom' = [inRoom EXCEPT ![c] = TRUE]
  /\ UNCHANGED <<current, awaiting, active, worker, stopped, start, toPage,
                 stopTask, stream, left, channel>>

Connected(c) == /\ state' = "connected"
                /\ handler' = [handler EXCEPT ![c] = "connected"]

AwaitRoom(c) == awaiting' = [awaiting EXCEPT ![c] =
                  [of |-> c, on |-> IF left[c] THEN {} ELSE {"room"}]]

(* The worker wins: the Trystero client is stopped before connect() ends.  *)
WorkerWins(c) ==
  /\ handler[c] = "connecting" /\ dial[c] = "resolved"
  /\ active' = [active EXCEPT ![c] = "worker"]
  /\ IF join[c] = "none"
       THEN Connected(c) /\ UNCHANGED <<awaiting, left, join, channel>>
       ELSE /\ StopTrystero(c)
            /\ AwaitRoom(c)
            /\ handler' = [handler EXCEPT ![c] = "won"]
            /\ UNCHANGED state
  /\ UNCHANGED <<current, held, rpcVars, workerVars, inRoom>>

WorkerHasWon(c) ==
  /\ handler[c] = "won" /\ StopReturns(c)
  /\ held' = [held EXCEPT ![c] = FALSE]
  /\ awaiting' = [awaiting EXCEPT ![c] = NoCall]
  /\ Connected(c)
  /\ UNCHANGED <<current, active, rpcVars, workerVars, roomVars>>

TrysteroWins(c) ==
  /\ handler[c] = "connecting" /\ join[c] = "resolved"
  /\ active' = [active EXCEPT ![c] = "trystero"]
  /\ Cancel(c)
  /\ Connected(c)
  /\ UNCHANGED <<current, awaiting, held, task, stopTask, roomVars>>

(* The catch of connect() of the page. *)
Caught(c) == /\ state' = "error"
             /\ handler' = [handler EXCEPT ![c] = "failed"]
             /\ StopCall(c, c)
             /\ UNCHANGED <<current, active, worker, start, dial, toPage, task,
                            stream, inRoom>>

StartFails(c) ==
  /\ handler[c] = "starting" /\ start[c] = "rejected"
  /\ Caught(c)
  /\ UNCHANGED held

NobodyWins(c) ==
  /\ handler[c] = "connecting" /\ AllRejected(c)
  /\ IF join[c] = "none"
       THEN Caught(c) /\ UNCHANGED held
       ELSE /\ StopTrystero(c)
            /\ AwaitRoom(c)
            /\ handler' = [handler EXCEPT ![c] = "lost"]
            /\ UNCHANGED <<pageVars, clientVars, rpcVars, workerVars, inRoom>>

NobodyHasWon(c) ==
  /\ handler[c] = "lost" /\ StopReturns(c)
  /\ held' = [held EXCEPT ![c] = FALSE]
  /\ Caught(c)

FailedStops(c) ==
  /\ handler[c] = "failed" /\ StopReturns(c)
  /\ StopEnds(c)
  /\ current' = "none"
  /\ handler' = [handler EXCEPT ![c] = "over"]
  /\ awaiting' = [awaiting EXCEPT ![c] = NoCall]
  /\ UNCHANGED <<state, rpcVars, workerVars, roomVars>>

DisconnectEnds ==
  /\ Disconnecting /\ StopReturns("disconnect")
  /\ StopEnds(awaiting["disconnect"].of)
  /\ current' = "none"
  /\ state' = "closed"
  /\ awaiting' = [awaiting EXCEPT !["disconnect"] = NoCall]
  /\ UNCHANGED <<handler, rpcVars, workerVars, roomVars>>
-----------------------------------------------------------------------------
(* The clicks. *)

(* connect() of the page, up to its first await. *)
Connect(c) ==
  /\ Quiet
  /\ handler[c] = "none"
  /\ state \notin {"starting", "connecting", "connected"}
  /\ handler' = [handler EXCEPT ![c] = "stopping"]
  /\ IF current = "none" THEN UNCHANGED <<awaiting, stopped, stopTask, left,
                                          join, channel>>
     ELSE StopCall(c, current)
  /\ UNCHANGED <<pageVars, clientVars, worker, start, dial, toPage, task,
                 stream, inRoom>>

(* disconnect() of the page; a second click changes nothing. *)
Disconnect ==
  /\ Quiet
  /\ state = "connected" /\ ~Disconnecting
  /\ IF current = "none"
       THEN state' = "closed" /\ UNCHANGED <<awaiting, stopped, stopTask, left,
                                             join, channel>>
       ELSE StopCall("disconnect", current) /\ UNCHANGED state
  /\ UNCHANGED <<current, handler, clientVars, worker, start, dial, toPage,
                 task, stream, inRoom>>

(* onClosed of the page *)
OnClosed == state' = IF state = "error" THEN state ELSE "closed"
-----------------------------------------------------------------------------
(* onMessage of the WorkerP2PClient. *)

(* Mutant: every message settles the request. *)
SettlesAlways(p, c, m, good, bad) ==
  p' = [p EXCEPT ![c] = IF m = good THEN "resolved" ELSE m]

Settles(p, c, m, good, bad) ==
  p' = [p EXCEPT ![c] = CASE m = good -> "resolved"
                          [] m = bad -> "rejected"
                          [] OTHER -> @]

Deliver(c) ==
  /\ Quiet
  /\ worker[c] = "up" /\ toPage[c] # << >>
  /\ LET m == Head(toPage[c])
     IN  IF m = "stopped"
           THEN Terminate(c) /\ UNCHANGED state
           ELSE /\ toPage' = [toPage EXCEPT ![c] = Tail(@)]
                /\ Settles(start, c, m, "started", "startFailed")
                /\ Settles(dial, c, m, "opened", "openFailed")
                /\ IF m = "closed" THEN OnClosed ELSE UNCHANGED state
                /\ UNCHANGED <<worker, stream>>
  /\ UNCHANGED <<current, callVars, clientVars, stopped, task, stopTask,
                 roomVars>>
-----------------------------------------------------------------------------
(* The Trystero client. *)

(* onPeerJoin *)
TrysteroOpens(c) ==
  /\ Quiet
  /\ join[c] = "pending" /\ ~left[c]
  /\ join' = [join EXCEPT ![c] = "resolved"]
  /\ channel' = [channel EXCEPT ![c] = "open"]
  /\ UNCHANGED <<pageVars, callVars, clientVars, rpcVars, workerVars, left,
                 inRoom>>

(* connectTimer *)
TrysteroTimesOut(c) ==
  /\ Quiet
  /\ join[c] = "pending"
  /\ join' = [join EXCEPT ![c] = "rejected"]
  /\ UNCHANGED <<pageVars, callVars, clientVars, rpcVars, workerVars, left,
                 channel, inRoom>>

(* The listener ends its side, aborts or leaves; a stream that is final    *)
(* leaves its room.                                                        *)
TrysteroEnds(c) ==
  /\ Quiet
  /\ channel[c] = "open"
  /\ channel' = [channel EXCEPT ![c] = "over"]
  /\ OnClosed
  /\ \/ UNCHANGED inRoom
     \/ inRoom' = [inRoom EXCEPT ![c] = FALSE]
  /\ UNCHANGED <<current, callVars, clientVars, rpcVars, workerVars, join,
                 left>>

(* After the end of what it reads the other side of the stream may still   *)
(* be open, until the listener aborts or leaves.                           *)
TrysteroFinal(c) ==
  /\ Quiet
  /\ channel[c] = "over" /\ ~left[c] /\ inRoom[c]
  /\ inRoom' = [inRoom EXCEPT ![c] = FALSE]
  /\ UNCHANGED <<pageVars, callVars, clientVars, rpcVars, workerVars, join,
                 left, channel>>

(* The rest of stop(). *)
RoomLeft(c) ==
  /\ Quiet
  /\ left[c] /\ inRoom[c]
  /\ inRoom' = [inRoom EXCEPT ![c] = FALSE]
  /\ UNCHANGED <<pageVars, callVars, clientVars, rpcVars, workerVars, join,
                 left, channel>>
-----------------------------------------------------------------------------
(* The worker. *)

Posts(c, m) == toPage' = [toPage EXCEPT ![c] = Append(@, m)]

(* startNode() *)
WorkerStarts(c) ==
  /\ worker[c] = "up" /\ task[c] = "starting"
  /\ \/ task' = [task EXCEPT ![c] = "ready"] /\ Posts(c, "started")
     \/ task' = [task EXCEPT ![c] = "done"] /\ Posts(c, "startFailed")
  /\ UNCHANGED <<pageVars, callVars, clientVars, worker, stopped, start, dial,
                 stopTask, stream, roomVars>>

(* connect(): the dials end with a stream, or all have failed.  A route    *)
(* that was searched for is cached before receiveLoop() starts.            *)
WorkerDials(c) ==
  /\ worker[c] = "up" /\ task[c] = "connecting"
  /\ \/ /\ stream' = [stream EXCEPT ![c] = "open"]
        /\ IF join[c] = "none"
             THEN task' = [task EXCEPT ![c] = "done"] /\ Posts(c, "opened")
             ELSE task' = [task EXCEPT ![c] = "caching"] /\ UNCHANGED toPage
     \/ /\ task' = [task EXCEPT ![c] = "done"]
        /\ Posts(c, "openFailed")
        /\ UNCHANGED stream
  /\ UNCHANGED <<pageVars, callVars, clientVars, worker, stopped, start, dial,
                 stopTask, roomVars>>

(* The rest of connect().  receiveLoop() of a stream that stop() has taken *)
(* away throws at once; of one that has ended it may end at once.          *)
WorkerConnects(c) ==
  /\ worker[c] = "up" /\ task[c] = "caching"
  /\ task' = [task EXCEPT ![c] = "done"]
  /\ stream' = [stream EXCEPT ![c] = IF @ = "open" THEN @ ELSE "over"]
  /\ \E news \in CASE stream[c] = "open" -> {<<"opened">>}
                   [] stream[c] = "over" -> {<<"closed", "opened">>}
                   [] OTHER -> {<<"closed", "opened">>, <<"opened", "closed">>} :
       toPage' = [toPage EXCEPT ![c] = @ \o news]
  /\ UNCHANGED <<pageVars, callVars, clientVars, worker, stopped, start, dial,
                 stopTask, roomVars>>

(* The stream ends before receiveLoop() has started. *)
WorkerStreamEndsEarly(c) ==
  /\ worker[c] = "up" /\ task[c] = "caching" /\ stream[c] = "open"
  /\ stream' = [stream EXCEPT ![c] = "ended"]
  /\ UNCHANGED <<pageVars, callVars, clientVars, rpcVars, task, stopTask,
                 roomVars>>

(* The finally of receiveLoop(): the listener ended its side, or an abort. *)
WorkerStreamEnds(c) ==
  /\ worker[c] = "up" /\ task[c] = "done" /\ stream[c] \in {"open", "aborted"}
  /\ stream' = [stream EXCEPT ![c] = "over"]
  /\ Posts(c, "closed")
  /\ UNCHANGED <<pageVars, callVars, clientVars, worker, stopped, start, dial,
                 task, stopTask, roomVars>>

(* stop(), up to its first await. *)
WorkerStops(c) ==
  /\ worker[c] = "up" /\ stopTask[c] = "asked"
  /\ stopTask' = [stopTask EXCEPT ![c] = "running"]
  /\ stream' = [stream EXCEPT ![c] =
       CASE task[c] = "caching" -> "over"
         [] task[c] # "caching" /\ @ = "open" -> "aborted"
         [] OTHER -> @]
  /\ UNCHANGED <<pageVars, callVars, clientVars, rpcVars, task, roomVars>>

(* Mutant: the result of stop() is not posted. *)
WorkerStoppedQuietly(c) ==
  /\ worker[c] = "up" /\ stopTask[c] = "running" /\ stream[c] # "aborted"
  /\ stopTask' = [stopTask EXCEPT ![c] = "done"]
  /\ UNCHANGED <<pageVars, callVars, clientVars, rpcVars, task, stream,
                 roomVars>>

(* receiveTask is over and the node has stopped. *)
WorkerStopped(c) ==
  /\ worker[c] = "up" /\ stopTask[c] = "running" /\ stream[c] # "aborted"
  /\ stopTask' = [stopTask EXCEPT ![c] = "done"]
  /\ Posts(c, "stopped")
  /\ UNCHANGED <<pageVars, callVars, clientVars, worker, stopped, start, dial,
                 task, stream, roomVars>>
-----------------------------------------------------------------------------
Reaction(c) == \/ MakeClient(c) \/ ConnectClient(c) \/ StartFails(c)
               \/ WorkerWins(c) \/ WorkerHasWon(c) \/ TrysteroWins(c)
               \/ NobodyWins(c) \/ NobodyHasWon(c) \/ FailedStops(c)

WorkerTask(c) == WorkerStarts(c) \/ WorkerDials(c) \/ WorkerConnects(c)
WorkerStop(c) == \/ WorkerStops(c) \/ WorkerStopped(c)
                 \/ stream[c] = "aborted" /\ WorkerStreamEnds(c)

Next == \/ Disconnect \/ DisconnectEnds
        \/ \E c \in Clients :
             \/ Connect(c) \/ Reaction(c) \/ Deliver(c)
             \/ TrysteroOpens(c) \/ TrysteroTimesOut(c) \/ TrysteroEnds(c)
             \/ TrysteroFinal(c) \/ RoomLeft(c) \/ WorkerTask(c) \/ WorkerStop(c)
             \/ WorkerStreamEndsEarly(c) \/ WorkerStreamEnds(c)

Spec == Init /\ [][Next]_vars

(* Reactions run, messages arrive, timers run out, dials settle within     *)
(* their timeouts, a node stops, a room is left.  Nobody has to click and  *)
(* no peer has to be found.                                                *)
Fairness ==
  /\ WF_vars(DisconnectEnds)
  /\ \A c \in Clients : /\ WF_vars(Reaction(c))
                        /\ WF_vars(Deliver(c))
                        /\ WF_vars(TrysteroTimesOut(c))
                        /\ WF_vars(RoomLeft(c))
                        /\ WF_vars(WorkerTask(c))
                        /\ WF_vars(WorkerStop(c))

FairSpec == Spec /\ Fairness
-----------------------------------------------------------------------------
(* At most one transport is in use: once connect() has chosen one, the     *)
(* other has no channel and will not open one, even if the worker has a    *)
(* stream the page has not heard of, or the client is stopped meanwhile.   *)
LoserIsStopped ==
  \A c \in Clients :
    /\ active[c] = "worker" => join[c] # "pending" /\ channel[c] # "open"
    /\ active[c] = "trystero" => stopped[c] /\ stream[c] # "open"

(* A click on connect comes to an end, whatever the worker, the room and   *)
(* other clicks do: the page does not stay in "starting" or "connecting".  *)
ConnectFinishes ==
  \A c \in Clients :
    handler[c] # "none" ~> handler[c] \in {"connected", "over"}

(* A client that was stopped, or whose connect() failed, lets go of worker *)
(* and room.                                                               *)
StoppedIsGone ==
  \A c \in Clients :
    /\ stopTask[c] # "none" ~> worker[c] = "terminated"
    /\ left[c] \/ handler[c] = "over" ~> ~inRoom[c]

(* Client c has an open channel, or the news that it closed is on its way. *)
Online(c) == \/ stream[c] \in {"open", "ended"} \/ channel[c] = "open"
             \/ \E i \in DOMAIN toPage[c] : toPage[c][i] = "closed"

(* page.tsx shows "connected" as "online" (stateLabels): unless the user  *)
(* disconnects, the client the page holds is online.                      *)
ConnectedIsOnline ==
  state = "connected" /\ ~Disconnecting => current # "none" /\ Online(current)
=============================================================================
