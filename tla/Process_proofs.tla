--------------------------- MODULE Process_proofs ---------------------------
(***************************************************************************)
(* The life of a process, for every number of flags on its command line:   *)
(* two processes never run with two keys of one file, -T leaves one way    *)
(* out, and what a process started it has stopped when it ends.  And when  *)
(* it is asked to end nothing holds it, and its steps run out.             *)
(***************************************************************************)
EXTENDS Process, TLAPS

(* Every step is one of these; used to split on Next once. *)
LEMMA Steps ==
  ASSUME [Next]_vars
  PROVE  \/ Reexec \/ Parse \/ ReadKey \/ CreateKey \/ WriteKey
         \/ OtherCreates \/ OtherWrites
         \/ StartNode \/ StartFails \/ Bind \/ SessionEnds
         \/ Advertise \/ AdvertiseAborted \/ Ending \/ ForwardCloses \/ Leaving
         \/ Stopping \/ NodeStops \/ Returning \/ Shutdown
         \/ \E s \in {"SIGINT", "SIGTERM"} : Signal(s)
         \/ UNCHANGED vars
BY DEF Next, Runtime, Others

LEMMA ArgsStay ==
  ASSUME [Next]_vars
  PROVE  args' = args
BY Steps DEF Reexec, Parse, ReadKey, CreateKey, WriteKey, OtherCreates,
   OtherWrites, StartNode, StartFails, Bind, SessionEnds, Advertise,
   AdvertiseAborted, Ending, ForwardCloses, Leaving, Stopping, NodeStops,
   Returning, Shutdown, Signal, StopBegins, vars

LEMMA CommandLinesAreArgv == CommandLines(MaxFlags) \subseteq Argv
<1>1. ASSUME NEW S, NEW s \in UpTo(MaxFlags, S) PROVE s \subseteq S
  BY <1>1 DEF UpTo, kSubset
<1>2. /\ \A s \in UpTo(MaxFlags, Flags) : s \in SUBSET Flags
      /\ \A s \in UpTo(MaxFlags, RelayFlags) : s \in SUBSET Flags
      /\ \A s \in UpTo(MaxFlags, {"identity"}) : s \in SUBSET Flags
  BY <1>1 DEF Flags, RelayFlags
<1> QED
  BY <1>2 DEF CommandLines, Argv, Spellings
-----------------------------------------------------------------------------
LEMMA TypeInit == Init => TypeOK
BY CommandLinesAreArgv DEF Init, TypeOK, Stages

LEMMA TypeStep ==
  ASSUME TypeOK, [Next]_vars
  PROVE  TypeOK'
<1> USE DEF TypeOK, Stages, Leave, Go
<1>0. args' \in Argv
  BY ArgsStay
<1>1. CASE Reexec
  BY <1>0, <1>1 DEF Reexec, keys, net, signalVars
<1>2. CASE Parse
  BY <1>0, <1>2 DEF Parse, net, signalVars
<1>3. CASE ReadKey
  BY <1>0, <1>3 DEF ReadKey, net, signalVars
<1>4. CASE CreateKey
  BY <1>0, <1>4 DEF CreateKey, net, signalVars
<1>5. CASE WriteKey
  BY <1>0, <1>5 DEF WriteKey, net, signalVars
<1>6. CASE OtherCreates \/ OtherWrites
  BY <1>0, <1>6 DEF OtherCreates, OtherWrites, net, signalVars
<1>7. CASE StartNode
  BY <1>0, <1>7 DEF StartNode, keys
<1>7a. CASE StartFails
  BY <1>0, <1>7a DEF StartFails, keys, net, signalVars
<1>8. CASE Bind
  <2>1. UNCHANGED <<args, wrapped, keys, node, advertise, room, signals,
                    stopper>>
    BY <1>8 DEF Bind
  <2>2. stage' \in Stages /\ exit' \in {"none", "code", "error", "signal"}
        /\ handlers' \in BOOLEAN
    BY <1>8 DEF Bind
  <2>3. forward' \in {"none", "open", "closing", "stuck", "closed"}
    BY <1>8 DEF Bind
  <2> QED
    BY <1>0, <2>1, <2>2, <2>3 DEF keys
<1>9. CASE SessionEnds
  BY <1>0, <1>9 DEF SessionEnds, keys, net, signalVars
<1>10. CASE Advertise \/ AdvertiseAborted
  <2>1. /\ UNCHANGED <<args, wrapped, stage, keys, node, room, forward,
                        signalVars, exit>>
        /\ advertise' \in {"providing", "sleeping", "retrying", "over"}
    BY <1>10 DEF Advertise, AdvertiseAborted
  <2> QED
    BY <1>0, <2>1 DEF keys, signalVars
<1>11. CASE Ending
  BY <1>0, <1>11 DEF Ending, keys, net, signalVars
<1>11a. CASE ForwardCloses
  BY <1>0, <1>11a DEF ForwardCloses, keys, signalVars
<1>12. CASE Leaving
  <2>1. /\ UNCHANGED <<args, wrapped, keys, node, advertise, forward,
                        signals, stopper, exit>>
        /\ room' \in {"none", "joined", "left"}
        /\ handlers' \in BOOLEAN /\ stage' \in Stages
    BY <1>12 DEF Leaving, RoomLeft
  <2> QED
    BY <1>0, <2>1 DEF keys
<1>13. CASE Stopping
  BY <1>0, <1>13 DEF Stopping, keys, signalVars
<1>14. CASE NodeStops
  BY <1>0, <1>14 DEF NodeStops, keys, signalVars
<1>15. CASE Returning
  BY <1>0, <1>15 DEF Returning, keys, net, signalVars
<1>16. CASE Shutdown
  BY <1>0, <1>16 DEF Shutdown, StopAwaited, keys
<1>17. ASSUME NEW s \in {"SIGINT", "SIGTERM"}, Signal(s) PROVE TypeOK'
  <2>1. UNCHANGED <<args, wrapped, keys, node, advertise, room, handlers>>
    BY <1>17 DEF Signal
  <2>2. /\ signals' \subseteq {"SIGINT", "SIGTERM"}
        /\ stopper' \in {"no", "closing", "waiting", "kill"}
    BY <1>17 DEF Signal, StopBegins
  <2>3. /\ stage' \in Stages
        /\ exit' \in {"none", "code", "error", "signal"}
    BY <1>17 DEF Signal
  <2>4. forward' \in {"none", "open", "closing", "stuck", "closed"}
    BY <1>17 DEF Signal, StopBegins
  <2> QED
    BY <1>0, <2>1, <2>2, <2>3, <2>4 DEF keys
<1>18. CASE UNCHANGED vars
  BY <1>18 DEF vars, keys, net, signalVars
<1> QED
  BY Steps, <1>1, <1>2, <1>3, <1>4, <1>5, <1>6, <1>7, <1>7a, <1>8, <1>9,
     <1>10, <1>11, <1>11a, <1>12, <1>13, <1>14, <1>15, <1>16, <1>17, <1>18

(* Every reachable state of the process is well typed, however many flags  *)
(* its command line has.                                                   *)
THEOREM TypeCorrect == Spec => []TypeOK
BY TypeInit, TypeStep, PTL DEF Spec
-----------------------------------------------------------------------------
(* Until it has written the file itself a process has no key of it, and    *)
(* two processes never write at once: the one that created the file does.  *)
KeyInv ==
  /\ OneKeyPerFile
  /\ stage \in {"main", "reading", "generating", "writing"} => key = "none"
  /\ stage = "writing" => file = "empty" /\ other = "reading"
  /\ other = "writing" => file = "empty"

LEMMA KeyInit == Init => KeyInv
BY DEF Init, KeyInv, OneKeyPerFile

LEMMA KeyStep ==
  ASSUME TypeOK, KeyInv, [Next]_vars
  PROVE  KeyInv'
<1> USE DEF KeyInv, OneKeyPerFile, Leave, Go
<1>0. UsesKeyFile' = UsesKeyFile
  BY ArgsStay DEF UsesKeyFile, Has
<1>1. CASE Reexec
  BY <1>0, <1>1 DEF Reexec, keys
<1>2. CASE Parse
  BY <1>0, <1>2 DEF Parse
<1>3. CASE ReadKey
  BY <1>0, <1>3 DEF ReadKey, TypeOK
<1>4. CASE CreateKey
  BY <1>0, <1>4 DEF CreateKey, MayCreate, TypeOK
<1>5. CASE WriteKey
  BY <1>0, <1>5 DEF WriteKey
<1>6. CASE OtherCreates
  BY <1>0, <1>6 DEF OtherCreates, MayCreate, TypeOK
<1>7. CASE OtherWrites
  BY <1>0, <1>7 DEF OtherWrites, TypeOK
<1>8. CASE StartNode \/ StartFails
  BY <1>0, <1>8 DEF StartNode, StartFails, keys
<1>9. CASE Bind \/ SessionEnds \/ Ending \/ Leaving \/ Stopping \/ Returning
  <2>1. UNCHANGED keys
        /\ stage' \notin {"main", "reading", "generating", "writing"}
    BY <1>9 DEF Bind, SessionEnds, Ending, Leaving, Stopping, Returning
  <2> QED
    BY <1>0, <2>1 DEF keys
<1>10. CASE Advertise \/ AdvertiseAborted \/ NodeStops \/ ForwardCloses
  <2>1. UNCHANGED <<keys, stage>>
    BY <1>10 DEF Advertise, AdvertiseAborted, NodeStops, ForwardCloses
  <2> QED
    BY <1>0, <2>1 DEF keys
<1>11. CASE Shutdown
  <2>1. UNCHANGED keys /\ stage' \in {stage, "gone"}
    BY <1>11 DEF Shutdown
  <2> QED
    BY <1>0, <2>1 DEF keys
<1>12. ASSUME NEW s \in {"SIGINT", "SIGTERM"}, Signal(s) PROVE KeyInv'
  <2>1. UNCHANGED keys /\ stage' \in {stage, "gone"}
    BY <1>12 DEF Signal
  <2> QED
    BY <1>0, <2>1 DEF keys
<1>13. CASE UNCHANGED vars
  BY <1>0, <1>13 DEF vars, keys
<1> QED
  BY Steps, <1>1, <1>2, <1>3, <1>4, <1>5, <1>6, <1>7, <1>8, <1>9, <1>10,
     <1>11, <1>12, <1>13

(* Processes that start together with one key file: the key each of them   *)
(* runs with is the one that stays in the file.                            *)
THEOREM SharesOneKey == Spec => []OneKeyPerFile
<1>1. Init => TypeOK /\ KeyInv
  BY TypeInit, KeyInit
<1>2. TypeOK /\ KeyInv /\ [Next]_vars => (TypeOK /\ KeyInv)'
  BY TypeStep, KeyStep
<1>3. KeyInv => OneKeyPerFile
  BY DEF KeyInv
<1> QED
  BY <1>1, <1>2, <1>3, PTL DEF Spec
-----------------------------------------------------------------------------
Before == {"main", "reading", "generating", "writing", "keyed"}

(* A node and a room are those of a command line that was accepted, and    *)
(* with -T of a process under torsocks; the command line is one that can   *)
(* be written.                                                             *)
StartInv ==
  /\ args \in CommandLines(MaxFlags)
  /\ stage \in Before => node = "none" /\ room = "none"
  /\ stage \in Before \ {"main"} \/ node # "none" =>
       ~Refused(args) /\ (wrapped \/ ~TorRequested(args))
  /\ room # "none" => UsesTrystero(args)

LEMMA StartInit == Init => StartInv
BY DEF Init, StartInv, Before

LEMMA StartStep ==
  ASSUME TypeOK, StartInv, [Next]_vars
  PROVE  StartInv'
<1>0. /\ args' = args /\ Refused(args)' = Refused(args)
      /\ TorRequested(args)' = TorRequested(args)
      /\ UsesTrystero(args)' = UsesTrystero(args)
  BY ArgsStay DEF Refused, TorRequested, UsesTrystero, TorRefused, Tor, Has
<1> USE <1>0 DEF StartInv, Before, Leave, Go
<1>1. CASE Reexec
  BY <1>1 DEF Reexec, net
<1>2. CASE Parse
  BY <1>2 DEF Parse, net
<1>3. CASE ReadKey
  BY <1>3 DEF ReadKey, net
<1>4. CASE CreateKey \/ WriteKey
  BY <1>4 DEF CreateKey, WriteKey, net
<1>5. CASE OtherCreates \/ OtherWrites
  BY <1>5 DEF OtherCreates, OtherWrites, net
<1>6. CASE StartNode \/ StartFails
  BY <1>6 DEF StartNode, StartFails, net
<1>7. CASE Bind \/ SessionEnds \/ Ending \/ Returning
  <2>1. UNCHANGED <<wrapped, node, room>> /\ stage' \notin Before
    BY <1>7 DEF Bind, SessionEnds, Ending, Returning, net
  <2> QED
    BY <2>1, <1>7 DEF Bind, SessionEnds, Ending, Returning
<1>8. CASE Advertise \/ AdvertiseAborted \/ ForwardCloses
  BY <1>8 DEF Advertise, AdvertiseAborted, ForwardCloses
<1>9. CASE Leaving
  BY <1>9 DEF Leaving, RoomLeft
<1>10. CASE Stopping
  BY <1>10 DEF Stopping
<1>11. CASE NodeStops
  BY <1>11 DEF NodeStops
<1>12. CASE Shutdown
  BY <1>12 DEF Shutdown
<1>13. ASSUME NEW s \in {"SIGINT", "SIGTERM"}, Signal(s) PROVE StartInv'
  BY <1>13 DEF Signal, net
<1>14. CASE UNCHANGED vars
  BY <1>14 DEF vars, net
<1> QED
  BY Steps, <1>1, <1>2, <1>3, <1>4, <1>5, <1>6, <1>7, <1>8, <1>9, <1>10,
     <1>11, <1>12, <1>13, <1>14

LEMMA TorNode ==
  ASSUME NEW a, Tor(a), a.command = "client", a.relays = "tcp"
  PROVE  LET n == NodeFor(a)
         IN /\ n.addresses \subseteq {<<"circuit", "named">>}
            /\ n.discovery = {} /\ n.services = {}
            /\ "quic" \notin n.transports
<1>1. Enabled(a) = {}
  BY DEF Enabled, TorOptions
<1> QED
  BY <1>1 DEF NodeFor

LEMMA StartImplies == StartInv => TorIsKept
<1> SUFFICES ASSUME StartInv, node # "none", Tor(args)
             PROVE  TorIsKept
  BY DEF TorIsKept
<1>1. ~TorRefused(args) /\ (wrapped \/ ~TorRequested(args))
  BY DEF StartInv, Refused
<1>2. args.command # "listener" /\ args.relays = "tcp"
  BY <1>1 DEF TorRefused
<1>3. args.command = "client"
  BY <1>2 DEF StartInv, CommandLines
<1>4. room = "none"
  BY <1>3 DEF StartInv, UsesTrystero
<1>5. wrapped \/ args.tor = "hyphen"
  BY <1>1 DEF Tor, TorRequested
<1> QED
  BY <1>2, <1>3, <1>4, <1>5, TorNode DEF TorIsKept

(* With -T, whatever else the command line says: the node of a client      *)
(* under torsocks that knows one way out, the relay that was named.        *)
THEOREM KeepsToTor == Spec => []TorIsKept
<1>1. Init => TypeOK /\ StartInv
  BY TypeInit, StartInit
<1>2. TypeOK /\ StartInv /\ [Next]_vars => (TypeOK /\ StartInv)'
  BY TypeStep, StartStep
<1> QED
  BY <1>1, <1>2, StartImplies, PTL DEF Spec
-----------------------------------------------------------------------------
Ended == {"stopping", "awaitingStop", "returned"}

(* What runs at each stage, and how far a signal has come: stop() goes on  *)
(* beside the finally block, and either of the two stops the node.         *)
EndInv ==
  /\ stage \in Before => node = "none" /\ advertise = "off" /\ room = "none"
  /\ stage \in Before \cup {"binding"} \cup Ended => ~handlers
  /\ stage \in Before \cup {"binding"} => stopper = "no" /\ forward = "none"
  /\ stage \in Ended => ForwardClosed
  /\ advertise \notin {"off", "over"} => args.command = "listener"
  /\ stage \in {"leaving"} \cup Ended => advertise \in {"off", "over"}
  /\ stage = "binding" => args.command = "client" /\ node = "up"
  /\ stage \in Ended => room # "joined"
  /\ stage = "awaitingStop" => node \in {"stopping", "stopped"}
  /\ stage = "returned" => node # "up"
  /\ stage \notin Before \cup {"gone"} => node # "none"
  /\ stopper # "no" => signals # {}
  /\ node = "stopping" => stage \in {"awaitingStop", "gone"} \/ signals # {}

SignalInv ==
  /\ handlers /\ stopper \in {"no", "closing"} => node = "up"
  /\ handlers /\ stopper = "waiting" => node \in {"stopping", "stopped"}
  /\ handlers /\ stopper = "kill" => node = "stopped"

LeaveInv == TypeOK /\ EndInv /\ SignalInv /\ LeavesNothing

LEMMA LeaveInit == Init => LeaveInv
BY TypeInit DEF Init, LeaveInv, EndInv, SignalInv, LeavesNothing, Before, Ended,
   ForwardClosed

LEMMA LeaveStep ==
  ASSUME LeaveInv, [Next]_vars
  PROVE  LeaveInv'
<1>0. /\ TypeOK /\ TypeOK' /\ args' = args
      /\ EndInv /\ SignalInv /\ LeavesNothing
  BY TypeStep, ArgsStay DEF LeaveInv
<1> SUFFICES (EndInv /\ SignalInv /\ LeavesNothing)'
  BY <1>0 DEF LeaveInv
<1> USE <1>0 DEF EndInv, SignalInv, LeavesNothing, Before, Ended, Leave, Go,
                 ForwardClosed
<1>1. CASE Reexec
  BY <1>1 DEF Reexec, net, signalVars
<1>2. CASE Parse
  BY <1>2 DEF Parse, net, signalVars
<1>3. CASE ReadKey
  BY <1>3 DEF ReadKey, net, signalVars
<1>4. CASE CreateKey \/ WriteKey
  BY <1>4 DEF CreateKey, WriteKey, net, signalVars
<1>5. CASE OtherCreates \/ OtherWrites
  BY <1>5 DEF OtherCreates, OtherWrites, net, signalVars
<1>6. CASE StartNode
  BY <1>6 DEF StartNode, Advertises, UsesTrystero
<1>6a. CASE StartFails
  BY <1>6a DEF StartFails, net, signalVars
<1>7. CASE Bind
  BY <1>7 DEF Bind
<1>8. CASE SessionEnds
  BY <1>8 DEF SessionEnds, MayEnd, net, signalVars, TypeOK
<1>9. CASE Advertise
  BY <1>9 DEF Advertise, signalVars, TypeOK, Stages
<1>10. CASE AdvertiseAborted
  BY <1>10 DEF AdvertiseAborted, signalVars
<1>11. CASE Ending
  BY <1>11 DEF Ending, net, signalVars
<1>11a. CASE ForwardCloses
  BY <1>11a DEF ForwardCloses, signalVars
<1>12. CASE Leaving
  BY <1>12 DEF Leaving, RoomLeft
<1>13. CASE Stopping
  BY <1>13 DEF Stopping, signalVars, TypeOK
<1>14. CASE NodeStops
  BY <1>14 DEF NodeStops, signalVars
<1>15. CASE Returning
  BY <1>15 DEF Returning, net, signalVars, TypeOK
<1>16. CASE Shutdown
  BY <1>16 DEF Shutdown, StopAwaited
<1>17. ASSUME NEW s \in {"SIGINT", "SIGTERM"}, Signal(s)
       PROVE  (EndInv /\ SignalInv /\ LeavesNothing)'
  BY <1>17 DEF Signal, StopBegins
<1>18. CASE UNCHANGED vars
  BY <1>18 DEF vars, net, signalVars
<1> QED
  BY Steps, <1>1, <1>2, <1>3, <1>4, <1>5, <1>6, <1>6a, <1>7, <1>8, <1>9,
     <1>10, <1>11, <1>11a, <1>12, <1>13, <1>14, <1>15, <1>16, <1>17, <1>18

LEMMA LeaveAlways == Spec => []LeaveInv
BY LeaveInit, LeaveStep, PTL DEF Spec

(* A process that ends by itself has stopped what it started, whichever    *)
(* signals came on the way.                                                *)
THEOREM CleansUp == Spec => []LeavesNothing
<1>1. LeaveInv => LeavesNothing
  BY DEF LeaveInv
<1> QED
  BY <1>1, LeaveAlways, PTL

(* When stop() sends the signal again the node has stopped.                *)
THEOREM WaitsForTheNode == Spec => []SignalWaits
<1>1. LeaveInv => SignalWaits
  BY DEF LeaveInv, SignalInv, SignalWaits
<1> QED
  BY <1>1, LeaveAlways, PTL
-----------------------------------------------------------------------------
(* What stop() waits for is on its way, and a signal that was caught has   *)
(* started it; the local listener is open until then.                      *)
StopInv == /\ signals # {} => stopper # "no"
           /\ forward = "open" => stage \in {"running", "gone"} /\ stopper = "no"
           /\ forward # "none" => args.command = "client"
           /\ stopper = "waiting" => node \in {"stopping", "stopped"}

(* Some step of Runtime can be taken: its guards.                          *)
CanGo ==
  \/ stage \in {"main", "reading", "generating", "writing", "keyed", "binding",
                "stopping", "returned"}
  \/ stage = "ending" /\ advertise \in Abortable \cup {"off", "over"}
  \/ forward = "closing" /\ stage # "gone"
  \/ stage = "leaving" /\ ForwardClosed
  \/ stage = "awaitingStop" /\ node = "stopped"
  \/ node = "stopping" /\ stage # "gone"
  \/ /\ stage # "gone"
     /\ \/ stopper = "closing" /\ ForwardClosed
        \/ stopper = "waiting" /\ node = "stopped"
        \/ stopper = "kill"

(* Only the run itself may last: before it, after it, and once a signal    *)
(* was caught, some step can be taken until the process is gone.  The      *)
(* finally block and stop() never wait for each other.  What can hold both *)
(* is the close() of the local listener that waits for a stalled session.  *)
NobodyWaits ==
  stage # "running" \/ signals # {} =>
    stage = "gone" \/ CanGo \/ forward = "stuck"

(* What a process has left to do, after how far main() is.                 *)
StageLeft(s) ==
  CASE s = "main" -> 12 [] s = "reading" -> 11 [] s = "generating" -> 10
    [] s = "writing" -> 9 [] s = "keyed" -> 8 [] s = "binding" -> 7
    [] s = "running" -> 6 [] s = "ending" -> 5 [] s = "leaving" -> 4
    [] s = "stopping" -> 3 [] s = "awaitingStop" -> 2 [] s = "returned" -> 1
    [] OTHER -> 0

NodeLeft(n) == CASE n = "up" -> 2 [] n = "stopping" -> 1 [] OTHER -> 0

StopperLeft(s) == CASE s = "no" -> 3 [] s = "closing" -> 2 [] s = "waiting" -> 1
                    [] OTHER -> 0

WrapLeft(w) == IF w THEN 0 ELSE 1

AdvertiseLeft(a) == IF a \in Abortable THEN 1 ELSE 0

(* Only a client with -p opens its listener, when main() comes to "running". *)
ForwardLeft(f) == CASE f = "open" -> 2 [] f = "closing" -> 1 [] OTHER -> 0

BesideLeft == ((WrapLeft(wrapped) + NodeLeft(node))
                 + (StopperLeft(stopper) + AdvertiseLeft(advertise)))
              + ForwardLeft(forward)

Left == 10 * StageLeft(stage) + BesideLeft

(* Each step of Runtime takes something from it, and no step adds to it:   *)
(* not a signal, not advertiseSelf, not the other process.                 *)
ComesToItsEnd ==
  [][/\ Left \in Nat
     /\ Left' <= Left
     /\ Runtime => Left' < Left]_vars

LEMMA StopInit == Init => StopInv
BY DEF Init, StopInv

(* Only stop() begins to wait, and only for a node that it stops. *)
LEMMA StopStep ==
  ASSUME LeaveInv, StopInv, [Next]_vars
  PROVE  StopInv'
<1>0. TypeOK /\ EndInv /\ args' = args
  BY ArgsStay DEF LeaveInv
<1> USE <1>0 DEF StopInv, Leave, Go
<1>1. CASE Reexec \/ Parse \/ ReadKey \/ CreateKey \/ WriteKey
  <2>1. UNCHANGED <<net, signalVars>> /\ forward = "none"
    BY <1>1 DEF Reexec, Parse, ReadKey, CreateKey, WriteKey, EndInv, Before
  <2> QED BY <2>1 DEF net, signalVars
<1>2. CASE OtherCreates \/ OtherWrites \/ StartFails
  BY <1>2 DEF OtherCreates, OtherWrites, StartFails, net, signalVars
<1>3. CASE StartNode
  <2>1. /\ stopper = "no" /\ forward = "none"
        /\ UNCHANGED <<forward, signals, stopper>>
    BY <1>3 DEF StartNode, EndInv, Before
  <2> QED BY <2>1
<1>4. CASE Bind
  <2>1. stopper = "no" /\ forward = "none" /\ args.command = "client"
    BY <1>4 DEF Bind, EndInv
  <2>2. /\ UNCHANGED <<node, signals, stopper>>
        /\ \/ stage' = "running"
           \/ forward' = "none"
    BY <1>4, <2>1 DEF Bind
  <2> QED BY <2>1, <2>2
<1>5. CASE SessionEnds
  <2>1. forward # "open" /\ UNCHANGED <<net, signalVars>>
    BY <1>5 DEF SessionEnds, MayEnd
  <2> QED BY <2>1 DEF net, signalVars
<1>6. CASE Advertise \/ AdvertiseAborted
  BY <1>6 DEF Advertise, AdvertiseAborted, signalVars
<1>7. CASE Ending \/ Returning
  BY <1>7 DEF Ending, Returning, net, signalVars
<1>8. CASE Leaving \/ Stopping
  BY <1>8 DEF Leaving, Stopping, signalVars
<1>9. CASE NodeStops \/ ForwardCloses
  BY <1>9 DEF NodeStops, ForwardCloses, signalVars
<1>10. CASE Shutdown
  BY <1>10 DEF Shutdown, StopAwaited, ForwardClosed
<1>11. ASSUME NEW s \in {"SIGINT", "SIGTERM"}, Signal(s) PROVE StopInv'
  BY <1>11 DEF Signal, StopBegins
<1>12. CASE UNCHANGED vars
  BY <1>12 DEF vars, net, signalVars
<1> QED
  BY Steps, <1>1, <1>2, <1>3, <1>4, <1>5, <1>6, <1>7, <1>8, <1>9, <1>10,
     <1>11, <1>12

LEMMA StopAlways == Spec => [](LeaveInv /\ StopInv)
BY LeaveInit, LeaveStep, StopInit, StopStep, PTL DEF Spec

(* No process waits in vain: what it was asked to end can end, or it is    *)
(* the local listener that holds it.                                       *)
THEOREM NobodyWaitsInVain == Spec => []NobodyWaits
<1>1. LeaveInv /\ StopInv => NobodyWaits
  <2> SUFFICES ASSUME LeaveInv, StopInv, stage # "gone", ~CanGo,
                      forward # "stuck"
               PROVE  stage = "running" /\ signals = {}
    BY DEF NobodyWaits
  <2>1. TypeOK /\ EndInv
    BY DEF LeaveInv
  <2>2. ForwardClosed \/ (forward = "open" /\ stage = "running" /\ stopper = "no")
    BY <2>1 DEF CanGo, TypeOK, StopInv, ForwardClosed
  <2>3. stopper = "no"
    BY <2>1, <2>2 DEF StopInv, CanGo, TypeOK
  <2>4. signals = {}
    BY <2>3 DEF StopInv
  <2>5. stage # "ending"
    BY <2>1 DEF CanGo, TypeOK, Abortable
  <2>6. stage # "leaving"
    BY <2>2 DEF CanGo
  <2>7. stage # "awaitingStop"
    BY <2>1 DEF CanGo, EndInv
  <2>8. stage = "running"
    BY <2>1, <2>5, <2>6, <2>7 DEF CanGo, TypeOK, Stages
  <2> QED BY <2>4, <2>8
<1> QED
  BY <1>1, StopAlways, PTL

LEMMA BesideRange ==
  /\ WrapLeft(wrapped) \in 0..1 /\ WrapLeft(wrapped') \in 0..1
  /\ NodeLeft(node) \in 0..2 /\ NodeLeft(node') \in 0..2
  /\ StopperLeft(stopper) \in 0..3 /\ StopperLeft(stopper') \in 0..3
  /\ AdvertiseLeft(advertise) \in 0..1 /\ AdvertiseLeft(advertise') \in 0..1
  /\ ForwardLeft(forward) \in 0..2 /\ ForwardLeft(forward') \in 0..2
  /\ BesideLeft \in 0..9 /\ BesideLeft' \in 0..9
<1>1. /\ NodeLeft(node) \in 0..2 /\ NodeLeft(node') \in 0..2
      /\ StopperLeft(stopper) \in 0..3 /\ StopperLeft(stopper') \in 0..3
  BY DEF NodeLeft, StopperLeft
<1>2. /\ WrapLeft(wrapped) \in 0..1 /\ WrapLeft(wrapped') \in 0..1
      /\ AdvertiseLeft(advertise) \in 0..1
      /\ AdvertiseLeft(advertise') \in 0..1
  BY DEF WrapLeft, AdvertiseLeft
<1>2a. ForwardLeft(forward) \in 0..2 /\ ForwardLeft(forward') \in 0..2
  BY DEF ForwardLeft
<1>3. BesideLeft \in 0..9 /\ BesideLeft' \in 0..9
  BY <1>1, <1>2, <1>2a DEF BesideLeft
<1> QED BY <1>1, <1>2, <1>2a, <1>3

(* A step of main() outweighs all the rest; else one of the parts beside   *)
(* it has to fall.                                                         *)
LEMMA Falls ==
  /\ Left \in Nat /\ Left' \in Nat
  /\ StageLeft(stage') < StageLeft(stage) => Left' < Left
  /\ stage' = stage /\ BesideLeft' <= BesideLeft => Left' <= Left
  /\ stage' = stage /\ BesideLeft' < BesideLeft => Left' < Left
<1>1. StageLeft(stage) \in 0..12 /\ StageLeft(stage') \in 0..12
  BY DEF StageLeft
<1> QED BY <1>1, BesideRange DEF Left

(* What each step of Runtime takes, and from where. *)
LEMMA RuntimeTakes ==
  ASSUME LeaveInv, Runtime
  PROVE  Left' < Left
<1>0. TypeOK /\ EndInv
  BY DEF LeaveInv
<1>a. ASSUME StageLeft(stage') < StageLeft(stage) PROVE Left' < Left
  BY <1>a, Falls
<1>b. ASSUME stage' = stage, BesideLeft' < BesideLeft PROVE Left' < Left
  BY <1>b, Falls
<1> USE DEF Leave, Go
<1>1. CASE Reexec
  <2>1. /\ UNCHANGED <<stage, node, stopper, advertise, forward>>
        /\ WrapLeft(wrapped) = 1 /\ WrapLeft(wrapped') = 0
    BY <1>1 DEF Reexec, net, signalVars, WrapLeft
  <2>2. BesideLeft' < BesideLeft
    BY <2>1, BesideRange DEF BesideLeft
  <2> QED BY <1>b, <2>1, <2>2
<1>2. CASE Parse \/ ReadKey \/ CreateKey \/ WriteKey
  <2>1. StageLeft(stage') < StageLeft(stage)
    BY <1>2 DEF Parse, ReadKey, CreateKey, WriteKey, StageLeft
  <2> QED BY <1>a, <2>1
<1>3. CASE StartNode \/ StartFails \/ Bind
  <2>1. StageLeft(stage') < StageLeft(stage)
    BY <1>3 DEF StartNode, StartFails, Bind, StageLeft
  <2> QED BY <1>a, <2>1
<1>4. CASE Ending \/ Leaving \/ Stopping \/ Returning
  <2>1. StageLeft(stage') < StageLeft(stage)
    BY <1>4 DEF Ending, Leaving, Stopping, Returning, StageLeft
  <2> QED BY <1>a, <2>1
<1>5. CASE AdvertiseAborted
  <2>1. /\ UNCHANGED <<stage, wrapped, node, stopper, forward>>
        /\ AdvertiseLeft(advertise) = 1 /\ AdvertiseLeft(advertise') = 0
    BY <1>5 DEF AdvertiseAborted, signalVars, AdvertiseLeft, Abortable
  <2>2. BesideLeft' < BesideLeft
    BY <2>1, BesideRange DEF BesideLeft
  <2> QED BY <1>b, <2>1, <2>2
<1>6. CASE NodeStops
  <2>1. /\ UNCHANGED <<stage, wrapped, advertise, stopper, forward>>
        /\ NodeLeft(node) = 1 /\ NodeLeft(node') = 0
    BY <1>6 DEF NodeStops, signalVars, NodeLeft
  <2>2. BesideLeft' < BesideLeft
    BY <2>1, BesideRange DEF BesideLeft
  <2> QED BY <1>b, <2>1, <2>2
<1>6a. CASE ForwardCloses
  <2>1. /\ UNCHANGED <<stage, wrapped, advertise, stopper, node>>
        /\ ForwardLeft(forward) = 1 /\ ForwardLeft(forward') = 0
    BY <1>6a DEF ForwardCloses, signalVars, ForwardLeft
  <2>2. BesideLeft' < BesideLeft
    BY <2>1, BesideRange DEF BesideLeft
  <2> QED BY <1>b, <2>1, <2>2
<1>7. CASE Shutdown
  <2>1. CASE stopper \in {"closing", "waiting"} /\ stage' = stage
    <3>1. /\ UNCHANGED <<wrapped, advertise, forward>>
          /\ StopperLeft(stopper') < StopperLeft(stopper)
      BY <1>7, <2>1 DEF Shutdown, StopAwaited, StopperLeft
    <3>2. NodeLeft(node') <= NodeLeft(node)
      BY <1>7 DEF Shutdown, NodeLeft
    <3>3. BesideLeft' < BesideLeft
      BY <3>1, <3>2, BesideRange DEF BesideLeft
    <3> QED BY <1>b, <2>1, <3>3
  <2>2. CASE stopper = "kill" /\ stage # "gone" /\ stage' = "gone"
    <3>1. StageLeft(stage') < StageLeft(stage)
      BY <1>0, <2>2 DEF StageLeft, TypeOK, Stages
    <3> QED BY <1>a, <3>1
  <2> QED BY <1>7, <2>1, <2>2 DEF Shutdown
<1> QED
  BY <1>1, <1>2, <1>3, <1>4, <1>5, <1>6, <1>6a, <1>7 DEF Runtime

(* The others add nothing. *)
LEMMA OthersAdd ==
  ASSUME LeaveInv, Others \/ UNCHANGED vars
  PROVE  Left' <= Left
<1>0. TypeOK
  BY DEF LeaveInv
<1>a. ASSUME StageLeft(stage') < StageLeft(stage) PROVE Left' <= Left
  BY <1>a, Falls
<1>b. ASSUME stage' = stage, BesideLeft' <= BesideLeft PROVE Left' <= Left
  BY <1>b, Falls
<1> USE DEF Leave, Go
<1>1. CASE OtherCreates \/ OtherWrites \/ UNCHANGED vars
  <2>1. UNCHANGED <<stage, wrapped, node, stopper, advertise, forward>>
    BY <1>1 DEF OtherCreates, OtherWrites, vars, net, signalVars
  <2> QED BY <1>b, <2>1, BesideRange DEF BesideLeft
<1>2. CASE SessionEnds
  <2>1. StageLeft(stage') < StageLeft(stage)
    BY <1>2 DEF SessionEnds, StageLeft
  <2> QED BY <1>a, <2>1
<1>3. CASE Advertise
  <2>1. /\ UNCHANGED <<stage, wrapped, node, stopper, forward>>
        /\ AdvertiseLeft(advertise') = AdvertiseLeft(advertise)
    BY <1>3 DEF Advertise, signalVars, AdvertiseLeft, Abortable
  <2> QED BY <1>b, <2>1, BesideRange DEF BesideLeft
<1>4. ASSUME NEW s \in {"SIGINT", "SIGTERM"}, Signal(s) PROVE Left' <= Left
  <2>1. CASE stage' = "gone" /\ stage # "gone"
    <3>1. StageLeft(stage') < StageLeft(stage)
      BY <1>0, <2>1 DEF StageLeft, TypeOK, Stages
    <3> QED BY <1>a, <3>1
  <2>2. CASE stage' = stage /\ stopper = "no" /\ stopper' = "closing"
    <3>1. /\ UNCHANGED <<wrapped, node, advertise>>
          /\ StopperLeft(stopper) = 3 /\ StopperLeft(stopper') = 2
          /\ ForwardLeft(forward') <= ForwardLeft(forward)
      BY <1>4, <2>2 DEF Signal, StopBegins, StopperLeft, ForwardLeft
    <3>2. BesideLeft' <= BesideLeft
      BY <3>1, BesideRange DEF BesideLeft
    <3> QED BY <1>b, <2>2, <3>2
  <2> QED BY <1>4, <2>1, <2>2 DEF Signal, StopBegins
<1> QED
  BY <1>1, <1>2, <1>3, <1>4 DEF Others

(* A process that is asked to end does not go on for ever: its steps run   *)
(* out, and nothing that happens to it gives it more.                      *)
THEOREM ProcessRunsOut == Spec => ComesToItsEnd
<1>1. LeaveInv /\ [Next]_vars =>
        [/\ Left \in Nat
         /\ Left' <= Left
         /\ Runtime => Left' < Left]_vars
  <2> SUFFICES ASSUME LeaveInv, [Next]_vars
               PROVE  /\ Left \in Nat
                      /\ Left' <= Left
                      /\ Runtime => Left' < Left
    OBVIOUS
  <2>1. Left \in Nat /\ Left' \in Nat
    BY Falls
  <2>2. Runtime => Left' < Left
    BY RuntimeTakes
  <2>3. ~Runtime => Left' <= Left
    BY OthersAdd DEF Next
  <2> QED BY <2>1, <2>2, <2>3
<1> QED
  BY <1>1, LeaveAlways, PTL DEF Spec, ComesToItsEnd
=============================================================================
