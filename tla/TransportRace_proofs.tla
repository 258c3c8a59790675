------------------------ MODULE TransportRace_proofs -------------------------
(***************************************************************************)
(* The promises of the race of two transports, for any number of clients:  *)
(* the listener for one session serves one, a client's choice cancels its  *)
(* other attempt, nobody is left behind by somebody who has gone, and      *)
(* everybody runs out of steps.                                            *)
(***************************************************************************)
EXTENDS TransportRace, FiniteSetTheorems, TLAPS

LEMMA Steps ==
  ASSUME [Next]_vars
  PROVE  \/ \E c \in Clients, t \in Transports :
              \/ Accept(c, t) \/ ListenerSessionEnds(c, t) \/ Resolves(c, t)
              \/ Rejects(c, t) \/ StreamFollows(c, t) \/ ListenerWaits(c, t)
         \/ \E c \in Clients :
              \/ LateMessage(c) \/ PeerLeaves(c) \/ NobodyWins(c)
              \/ ClientSessionEnds(c) \/ ClientWaits(c) \/ ClientLeaves(c)
         \/ ListenerLeaves
         \/ UNCHANGED vars
BY DEF Next, Listening, Dialling

LEMMA EachTypes ==
  /\ \A s \in StreamState :
       /\ Each(s) \in [Clients -> [Transports -> StreamState]]
       /\ Each(s) \in [Clients -> [Transports -> FarState]]
  /\ \A s \in AttemptState :
       Each(s) \in [Clients -> [Transports -> AttemptState]]
BY DEF Each, FarState

LEMMA TypeInit == Init => TypeOK
<1> SUFFICES ASSUME Init PROVE TypeOK
  OBVIOUS
<1>1. /\ attempt \in [Clients -> [Transports -> AttemptState]]
      /\ near \in [Clients -> [Transports -> StreamState]]
      /\ far \in [Clients -> [Transports -> FarState]]
  BY EachTypes DEF Init, StreamState, AttemptState
<1>2. /\ winner \in [Clients -> Transports \cup {"none"}]
      /\ client \in [Clients -> ClientState]
  BY DEF Init, ClientState
<1>3. /\ persistent \in BOOLEAN /\ handled \in BOOLEAN
      /\ inRoom \subseteq Clients /\ aborted \subseteq Clients
      /\ served \subseteq Streams /\ refused \subseteq Streams
      /\ present \subseteq Clients /\ strays \subseteq Clients
      /\ listener \in {"up", "leaving", "gone"}
  BY DEF Init
<1> QED
  BY <1>1, <1>2, <1>3 DEF TypeOK

(* Setting one field of one client keeps the type of such a table. *)
LEMMA Update ==
  ASSUME NEW S, NEW f \in [Clients -> [Transports -> S]],
         NEW c \in Clients, NEW t \in Transports, NEW s \in S
  PROVE  /\ [f EXCEPT ![c][t] = s] \in [Clients -> [Transports -> S]]
         /\ \A a \in Clients, b \in Transports :
              [f EXCEPT ![c][t] = s][a][b] =
                IF a = c /\ b = t THEN s ELSE f[a][b]
OBVIOUS

LEMMA ClosedTypes ==
  ASSUME TypeOK, NEW c \in Clients, NEW t \in Transports, Closed(c, t)
  PROVE  /\ near' \in [Clients -> [Transports -> StreamState]]
         /\ inRoom' \subseteq Clients
         /\ \A a \in Clients, b \in Transports :
              near'[a][b] = IF a = c /\ b = t THEN "closed" ELSE near[a][b]
<1>1. near' = [near EXCEPT ![c][t] = "closed"] /\ "closed" \in StreamState
  BY DEF Closed, StreamState
<1>2. near \in [Clients -> [Transports -> StreamState]]
  BY DEF TypeOK
<1>3. inRoom' \subseteq Clients
  BY DEF Closed, TypeOK
<1> QED BY <1>1, <1>2, <1>3, Update

LEMMA HandleTypes ==
  ASSUME TypeOK, NEW c \in Clients, NEW t \in Transports, HandleIncoming(c, t)
  PROVE  /\ far' \in [Clients -> [Transports -> FarState]]
         /\ handled' \in BOOLEAN
         /\ served' \subseteq Streams /\ refused' \subseteq Streams
<1>1. PICK s \in FarState : far' = [far EXCEPT ![c][t] = s]
  BY DEF HandleIncoming, FarState, StreamState
<1>2. far \in [Clients -> [Transports -> FarState]] /\ <<c, t>> \in Streams
  BY DEF TypeOK, Streams
<1>3. far' \in [Clients -> [Transports -> FarState]]
  BY <1>1, <1>2, Update
<1> QED BY <1>2, <1>3 DEF HandleIncoming, TypeOK

LEMMA WinTypes ==
  ASSUME TypeOK, NEW c \in Clients, NEW t \in Transports, Win(c, t)
  PROVE  /\ near' \in [Clients -> [Transports -> StreamState]]
         /\ attempt' \in [Clients -> [Transports -> AttemptState]]
         /\ inRoom' \subseteq Clients /\ aborted' \subseteq Clients
<1>0. /\ near \in [Clients -> [Transports -> StreamState]]
      /\ attempt \in [Clients -> [Transports -> AttemptState]]
      /\ "open" \in StreamState /\ "resolved" \in AttemptState
  BY DEF TypeOK, StreamState, AttemptState
<1>1. CASE t = "libp2p"
  <2> DEFINE N == [libp2p |-> "open", trystero |-> "closed"]
             A == [libp2p |-> "resolved", trystero |-> "rejected"]
  <2>1. N \in [Transports -> StreamState] /\ A \in [Transports -> AttemptState]
    BY DEF Transports, StreamState, AttemptState
  <2>2. near' = [near EXCEPT ![c] = N] /\ attempt' = [attempt EXCEPT ![c] = A]
    BY <1>1 DEF Win
  <2>3. inRoom' = inRoom \ {c} /\ aborted' = aborted
    BY <1>1 DEF Win
  <2> HIDE DEF N, A
  <2> QED BY <1>0, <2>1, <2>2, <2>3 DEF TypeOK
<1>2. CASE t # "libp2p"
  <2>1. /\ near' = [near EXCEPT ![c][t] = "open"]
        /\ attempt' = [attempt EXCEPT ![c][t] = "resolved"]
        /\ inRoom' = inRoom /\ aborted' = aborted \cup {c}
    BY <1>2 DEF Win
  <2>2. /\ near' \in [Clients -> [Transports -> StreamState]]
        /\ attempt' \in [Clients -> [Transports -> AttemptState]]
    BY <1>0, <2>1, Update
  <2> QED BY <2>1, <2>2 DEF TypeOK
<1> QED BY <1>1, <1>2

LEMMA TypeStep ==
  ASSUME TypeOK, [Next]_vars
  PROVE  TypeOK'
<1>0. /\ near \in [Clients -> [Transports -> StreamState]]
      /\ far \in [Clients -> [Transports -> FarState]]
      /\ attempt \in [Clients -> [Transports -> AttemptState]]
      /\ {"open", "closed"} \subseteq StreamState
      /\ {"waiting", "closed"} \subseteq FarState
      /\ ClientState = {"racing", "session", "waiting", "leaving", "gone"}
      /\ {"resolved", "rejected"} \subseteq AttemptState
  BY DEF TypeOK, StreamState, AttemptState, FarState, ClientState
<1>1. ASSUME NEW c \in Clients, NEW t \in Transports, Accept(c, t)
      PROVE  TypeOK'
  BY <1>1, HandleTypes DEF Accept, clientVars, TypeOK
<1>2. ASSUME NEW c \in Clients, NEW t \in Transports, ListenerSessionEnds(c, t)
      PROVE  TypeOK'
  <2>1. far' \in [Clients -> [Transports -> FarState]]
    BY <1>0, <1>2, Update DEF ListenerSessionEnds
  <2> QED
    BY <1>2, <2>1 DEF ListenerSessionEnds, AfterSession, clientVars, hubVars,
                      TypeOK
<1>3. ASSUME NEW c \in Clients, NEW t \in Transports, Resolves(c, t)
      PROVE  TypeOK'
  <2>1. CASE winner[c] = "none"
    <3>1. Win(c, t) /\ UNCHANGED <<persistent, listenerVars, hubVars>>
      BY <1>3, <2>1 DEF Resolves
    <3>2. /\ winner' \in [Clients -> Transports \cup {"none"}]
          /\ client' \in [Clients -> ClientState]
      BY <1>0, <3>1 DEF Win, TypeOK
    <3> QED BY <3>1, <3>2, WinTypes DEF listenerVars, hubVars, TypeOK
  <2>2. CASE winner[c] # "none"
    <3>1. /\ near' = [near EXCEPT ![c][t] = "open"]
          /\ attempt' = [attempt EXCEPT ![c][t] = "resolved"]
          /\ UNCHANGED <<winner, client, inRoom, aborted>>
          /\ UNCHANGED <<persistent, listenerVars, hubVars>>
      BY <1>3, <2>2 DEF Resolves
    <3>2. /\ near' \in [Clients -> [Transports -> StreamState]]
          /\ attempt' \in [Clients -> [Transports -> AttemptState]]
      BY <1>0, <3>1, Update
    <3> QED BY <3>1, <3>2 DEF listenerVars, hubVars, TypeOK
  <2> QED
    BY <2>1, <2>2
<1>4. ASSUME NEW c \in Clients, NEW t \in Transports, Rejects(c, t)
      PROVE  TypeOK'
  <2>1. attempt' \in [Clients -> [Transports -> AttemptState]]
    BY <1>0, <1>4, Update DEF Rejects
  <2> QED
    BY <1>4, <2>1, ClosedTypes DEF Rejects, listenerVars, hubVars, TypeOK
<1>5. ASSUME NEW c \in Clients, NEW t \in Transports, StreamFollows(c, t)
      PROVE  TypeOK'
  BY <1>5, ClosedTypes DEF StreamFollows, listenerVars, hubVars, TypeOK
<1>6. ASSUME NEW c \in Clients, LateMessage(c) \/ PeerLeaves(c) PROVE TypeOK'
  BY <1>6
  DEF LateMessage, PeerLeaves, StraysWithout, clientVars, listenerVars, TypeOK
<1>7. CASE ListenerLeaves
  BY <1>0, <1>7, EachTypes DEF ListenerLeaves, clientVars, TypeOK
<1>8. ASSUME NEW c \in Clients, NobodyWins(c) PROVE TypeOK'
  BY <1>0, <1>8 DEF NobodyWins, listenerVars, hubVars, TypeOK
<1>9. CASE UNCHANGED vars
  BY <1>9 DEF vars, clientVars, listenerVars, hubVars, TypeOK
<1>10. ASSUME NEW c \in Clients, ClientLeaves(c) PROVE TypeOK'
  <2>1. near' \in [Clients -> [Transports -> StreamState]]
    BY <1>0, <1>10 DEF ClientLeaves
  <2>2. attempt' \in [Clients -> [Transports -> AttemptState]]
    BY <1>0, <1>10 DEF ClientLeaves
  <2>3. client' \in [Clients -> ClientState]
    BY <1>0, <1>10 DEF ClientLeaves, TypeOK
  <2> QED
    BY <1>10, <2>1, <2>2, <2>3 DEF ClientLeaves, listenerVars, hubVars, TypeOK
<1>11. ASSUME NEW c \in Clients, ClientSessionEnds(c) PROVE TypeOK'
  <2>1. near' = [near EXCEPT ![c][winner[c]] = "closed"]
    BY <1>11 DEF ClientSessionEnds, Closed
  <2>2. near' \in [Clients -> [Transports -> StreamState]]
    BY <1>0, <2>1
  <2>3. inRoom' \subseteq Clients
    BY <1>11 DEF ClientSessionEnds, Closed, TypeOK
  <2>4. client' \in [Clients -> ClientState]
    BY <1>0, <1>11 DEF ClientSessionEnds, TypeOK
  <2> QED
    BY <1>11, <2>2, <2>3, <2>4
    DEF ClientSessionEnds, listenerVars, hubVars, TypeOK
<1>12. ASSUME NEW c \in Clients, NEW t \in Transports, ListenerWaits(c, t)
       PROVE  TypeOK'
  <2>1. far' \in [Clients -> [Transports -> FarState]]
    BY <1>0, <1>12, Update DEF ListenerWaits
  <2> QED
    BY <1>12, <2>1 DEF ListenerWaits, clientVars, hubVars, TypeOK
<1>13. ASSUME NEW c \in Clients, ClientWaits(c) PROVE TypeOK'
  <2>1. client' \in [Clients -> ClientState]
    BY <1>0, <1>13 DEF ClientWaits, TypeOK
  <2> QED
    BY <1>13, <2>1 DEF ClientWaits, listenerVars, hubVars, TypeOK
<1> QED
  BY Steps, <1>1, <1>2, <1>3, <1>4, <1>5, <1>6, <1>7, <1>8, <1>9, <1>10,
     <1>11, <1>12, <1>13

(* Every reachable state of the race is well typed, however many clients   *)
(* there are.                                                              *)
THEOREM TypeCorrect == Spec => []TypeOK
BY TypeInit, TypeStep, PTL DEF Spec
-----------------------------------------------------------------------------
(* What the listener for one session relies on: it is marked as handled    *)
(* before it serves, and marked it serves nothing more.                    *)
ServesInv == /\ served \cap refused = {}
             /\ ~persistent => \/ served = {} /\ ~handled
                               \/ handled /\ \E s \in Streams : served = {s}

LEMMA ServesStep ==
  ASSUME ServesInv, [Next]_vars
  PROVE  ServesInv'
<1>1. ASSUME NEW c \in Clients, NEW t \in Transports, Accept(c, t)
      PROVE  ServesInv'
  <2> DEFINE s == <<c, t>>
  <2>0. /\ s \notin served \cup refused /\ persistent' = persistent
        /\ s \in Streams
    BY <1>1 DEF Accept, Streams
  <2>1. CASE Refuses
    <3>1. /\ handled' = handled /\ served' = served
          /\ refused' = refused \cup {s}
      BY <1>1, <2>1 DEF Accept, HandleIncoming
    <3> HIDE DEF s
    <3> QED
      BY <2>0, <3>1 DEF ServesInv
  <2>2. CASE ~Refuses
    <3>1. handled' /\ served' = served \cup {s} /\ refused' = refused
      BY <1>1, <2>2 DEF Accept, HandleIncoming
    <3>2. ~persistent => served = {}
      BY <2>2 DEF Refuses, ServesInv
    <3> HIDE DEF s
    <3> QED
      BY <2>0, <3>1, <3>2 DEF ServesInv
  <2> QED
    BY <2>1, <2>2
<1>2. ASSUME UNCHANGED <<persistent, handled, served, refused>>
      PROVE  ServesInv'
  BY <1>2 DEF ServesInv
<1>3. \/ \E c \in Clients, t \in Transports : Accept(c, t)
      \/ UNCHANGED <<persistent, handled, served, refused>>
  <2>1. ASSUME NEW c \in Clients, NEW t \in Transports,
               \/ ListenerSessionEnds(c, t) \/ ListenerWaits(c, t)
               \/ Resolves(c, t) \/ Rejects(c, t) \/ StreamFollows(c, t)
        PROVE  UNCHANGED <<persistent, handled, served, refused>>
    BY <2>1 DEF ListenerSessionEnds, ListenerWaits, Resolves, Rejects,
       StreamFollows, listenerVars
  <2>2. ASSUME NEW c \in Clients,
               \/ LateMessage(c) \/ PeerLeaves(c) \/ NobodyWins(c)
               \/ ClientSessionEnds(c) \/ ClientWaits(c) \/ ClientLeaves(c)
        PROVE  UNCHANGED <<persistent, handled, served, refused>>
    BY <2>2 DEF LateMessage, PeerLeaves, NobodyWins, ClientSessionEnds,
       ClientWaits, ClientLeaves, listenerVars
  <2>3. ASSUME ListenerLeaves \/ UNCHANGED vars
        PROVE  UNCHANGED <<persistent, handled, served, refused>>
    BY <2>3 DEF ListenerLeaves, vars, listenerVars
  <2> QED BY Steps, <2>1, <2>2, <2>3
<1> QED
  BY <1>1, <1>2, <1>3

LEMMA ServesOne == ServesInv => OneShotServesOne
<1> SUFFICES ASSUME ServesInv, ~persistent
             PROVE  Cardinality(served) <= 1 /\ served \cap refused = {}
  BY DEF OneShotServesOne
<1>1. CASE served = {}
  BY <1>1, FS_EmptySet DEF ServesInv
<1>2. ASSUME NEW s \in Streams, served = {s}
      PROVE  Cardinality(served) <= 1
  <2>1. Cardinality({s}) = 1
    BY FS_Singleton
  <2> QED
    BY <1>2, <2>1
<1> QED
  BY <1>1, <1>2 DEF ServesInv

(* A listener for one session serves one stream, in whatever order any     *)
(* number of clients bring theirs on the two transports.                   *)
THEOREM ServesOnlyOne == Spec => []OneShotServesOne
<1>1. Init => ServesInv
  BY DEF Init, ServesInv
<1> QED
  BY <1>1, ServesStep, ServesOne, PTL DEF Spec
-----------------------------------------------------------------------------
(* While a client races it has no stream; once it is decided the loser is  *)
(* out of the room or its dial can only reject.                            *)
Idle(c, t) == near[c][t] # "open" /\ attempt[c][t] # "resolved"

RaceInv(c) ==
  /\ client[c] = "racing" => /\ winner[c] = "none"
                             /\ \A t \in Transports : Idle(c, t)
  /\ client[c] \in {"session", "waiting"} =>
       /\ winner[c] \in Transports
       /\ \A t \in Transports \ {winner[c]} : Idle(c, t)
       /\ winner[c] = "trystero" => c \in aborted
       /\ winner[c] = "libp2p" => attempt[c]["trystero"] = "rejected"

(* A step of one client leaves the others alone. *)
LEMMA OthersRace ==
  ASSUME NEW c \in Clients, RaceInv(c),
         UNCHANGED <<client[c], winner[c], near[c], attempt[c]>>,
         c \in aborted => c \in aborted'
  PROVE  RaceInv(c)'
BY DEF RaceInv, Idle

LEMMA RaceStep ==
  ASSUME TypeOK, \A c \in Clients : RaceInv(c), [Next]_vars
  PROVE  \A c \in Clients : RaceInv(c)'
<1>0. /\ attempt \in [Clients -> [Transports -> AttemptState]]
      /\ near \in [Clients -> [Transports -> StreamState]]
      /\ client \in [Clients -> ClientState]
      /\ winner \in [Clients -> Transports \cup {"none"}]
      /\ ClientState = {"racing", "session", "waiting", "leaving", "gone"}
  BY DEF TypeOK, ClientState
<1>1. ASSUME NEW c \in Clients, NEW t \in Transports, Resolves(c, t),
             NEW a \in Clients
      PROVE  RaceInv(a)'
  <2>1. CASE a # c
    <3>1. UNCHANGED <<client[a], winner[a], near[a], attempt[a]>>
      BY <1>0, <1>1, <2>1 DEF Resolves, Win
    <3>2. a \in aborted => a \in aborted'
      BY <1>1 DEF Resolves, Win
    <3> QED BY <3>1, <3>2, OthersRace
  <2>2. CASE a = c /\ winner[c] = "none" /\ t = "libp2p"
    <3>1. /\ client'[c] = "session" /\ winner'[c] = "libp2p"
          /\ near'[c] = [libp2p |-> "open", trystero |-> "closed"]
          /\ attempt'[c] = [libp2p |-> "resolved", trystero |-> "rejected"]
      BY <1>0, <1>1, <2>2 DEF Resolves, Win
    <3>2. /\ near'[c]["trystero"] = "closed"
          /\ attempt'[c]["trystero"] = "rejected"
      BY <3>1
    <3> QED BY <2>2, <3>1, <3>2 DEF RaceInv, Idle, Transports
  <2>3. CASE a = c /\ winner[c] = "none" /\ t = "trystero"
    <3>1. client[c] = "racing"
      BY <1>1, <2>3 DEF Resolves, RaceInv, Transports
    <3>2. /\ client'[c] = "session" /\ winner'[c] = "trystero"
          /\ c \in aborted'
      BY <1>0, <1>1, <2>3 DEF Resolves, Win
    <3>3. /\ near'[c]["libp2p"] = near[c]["libp2p"]
          /\ attempt'[c]["libp2p"] = attempt[c]["libp2p"]
      BY <1>0, <1>1, <2>3 DEF Resolves, Win, Transports
    <3>4. Idle(c, "libp2p")'
      BY <3>1, <3>3 DEF RaceInv, Idle, Transports
    <3> QED BY <2>3, <3>2, <3>4 DEF RaceInv, Transports
  <2>4. CASE a = c /\ winner[c] # "none"
    <3>1. client[c] \in {"session", "waiting"} /\ attempt[c][t] = "pending"
      BY <1>1, <2>4 DEF Resolves, RaceInv
    <3>2. t # "libp2p" \/ c \notin aborted
      BY <1>1 DEF Resolves
    <3>3. t = winner[c]
      BY <3>1, <3>2 DEF RaceInv, Transports
    <3>4. /\ client' = client /\ winner' = winner /\ aborted' = aborted
          /\ near' = [near EXCEPT ![c][t] = "open"]
          /\ attempt' = [attempt EXCEPT ![c][t] = "resolved"]
      BY <1>1, <2>4 DEF Resolves
    <3>5. \A b \in Transports \ {t} : /\ near'[c][b] = near[c][b]
                                      /\ attempt'[c][b] = attempt[c][b]
      BY <1>0, <3>4
    <3> QED
      BY <2>4, <3>1, <3>3, <3>4, <3>5 DEF RaceInv, Idle, Transports
  <2> QED
    BY <2>1, <2>2, <2>3, <2>4 DEF Transports
<1>2. ASSUME NEW c \in Clients, NEW t \in Transports,
             Rejects(c, t) \/ StreamFollows(c, t), NEW a \in Clients
      PROVE  RaceInv(a)'
  <2>1. /\ near' = [near EXCEPT ![c][t] = "closed"]
        /\ \/ attempt' = [attempt EXCEPT ![c][t] = "rejected"]
           \/ attempt' = attempt
        /\ UNCHANGED <<client, winner, aborted>>
    BY <1>2 DEF Rejects, StreamFollows, Closed
  <2>2. /\ near'[a][t] \in {"closed", near[a][t]}
        /\ attempt'[a][t] \in {"rejected", attempt[a][t]}
    BY <1>0, <2>1
  <2>3. \A b \in Transports \ {t} : /\ near'[a][b] = near[a][b]
                                    /\ attempt'[a][b] = attempt[a][b]
    BY <1>0, <2>1
  <2>4. \A b \in Transports : Idle(a, b) => Idle(a, b)'
    BY <2>2, <2>3 DEF Idle
  <2>5. attempt[a]["trystero"] = "rejected" => attempt'[a]["trystero"] = "rejected"
    BY <2>2, <2>3 DEF Transports
  <2> QED
    BY <2>1, <2>4, <2>5 DEF RaceInv
<1>3. ASSUME NEW c \in Clients, NobodyWins(c), NEW a \in Clients
      PROVE  RaceInv(a)'
  <2>1. CASE a = c
    BY <1>0, <1>3, <2>1 DEF NobodyWins, RaceInv
  <2>2. CASE a # c
    BY <1>0, <1>3, <2>2, OthersRace DEF NobodyWins
  <2> QED BY <2>1, <2>2
<1>4. ASSUME NEW c \in Clients, ClientSessionEnds(c), NEW a \in Clients
      PROVE  RaceInv(a)'
  <2>1. CASE a = c
    BY <1>0, <1>4, <2>1 DEF ClientSessionEnds, RaceInv
  <2>2. CASE a # c
    BY <1>0, <1>4, <2>2, OthersRace DEF ClientSessionEnds, Closed
  <2> QED BY <2>1, <2>2
<1>5. ASSUME NEW c \in Clients, ClientLeaves(c), NEW a \in Clients
      PROVE  RaceInv(a)'
  <2>1. CASE a = c
    BY <1>0, <1>5, <2>1 DEF ClientLeaves, RaceInv
  <2>2. CASE a # c
    BY <1>0, <1>5, <2>2, OthersRace DEF ClientLeaves
  <2> QED BY <2>1, <2>2
<1>6. ASSUME UNCHANGED clientVars, NEW a \in Clients PROVE RaceInv(a)'
  BY <1>6, OthersRace DEF clientVars
<1>7. \/ \E c \in Clients, t \in Transports :
           Resolves(c, t) \/ Rejects(c, t) \/ StreamFollows(c, t)
      \/ \E c \in Clients :
           \/ NobodyWins(c) \/ ClientSessionEnds(c) \/ ClientWaits(c)
           \/ ClientLeaves(c)
      \/ UNCHANGED clientVars
  BY Steps DEF Accept, ListenerSessionEnds, ListenerWaits, LateMessage,
               PeerLeaves, ListenerLeaves, vars
<1>8. ASSUME NEW c \in Clients, ClientWaits(c), NEW a \in Clients
      PROVE  RaceInv(a)'
  <2>1. CASE a = c
    BY <1>0, <1>8, <2>1 DEF ClientWaits, RaceInv, Idle
  <2>2. CASE a # c
    BY <1>0, <1>8, <2>2, OthersRace DEF ClientWaits
  <2> QED BY <2>1, <2>2
<1> QED
  BY <1>1, <1>2, <1>3, <1>4, <1>5, <1>6, <1>7, <1>8

(* Once a client has chosen, the attempt that lost has no stream and never *)
(* delivers one.                                                           *)
THEOREM CancelsLoser == Spec => []LoserIsCancelled
<1> DEFINE Inv == TypeOK /\ \A c \in Clients : RaceInv(c)
<1>1. Init => Inv
  BY TypeInit DEF Init, Each, RaceInv, Idle
<1>2. Inv /\ [Next]_vars => Inv'
  BY TypeStep, RaceStep
<1>3. Inv => LoserIsCancelled
  BY DEF RaceInv, Idle, LoserIsCancelled
<1> HIDE DEF Inv
<1> QED
  BY <1>1, <1>2, <1>3, PTL DEF Spec
-----------------------------------------------------------------------------
(* What a client knows of its streams: an attempt that settled has or had  *)
(* one, and a client that is gone has closed them and left the room.       *)
NearInv(c) ==
  /\ \A t \in Transports : near[c][t] = "none" <=> attempt[c][t] = "pending"
  /\ winner[c] # "none" => attempt[c][winner[c]] # "pending"
  /\ client[c] = "gone" => /\ c \notin inRoom
                           /\ \A t \in Transports : near[c][t] = "closed"

(* What the listener knows of them: each has been brought to it or not,    *)
(* the one it serves has a session until it leaves, one it refuses is      *)
(* closed at once, and when it is gone nothing is left.                    *)
FarInv(c) ==
  /\ \A t \in Transports :
       /\ listener # "gone" =>
            (far[c][t] = "none" <=> <<c, t>> \notin served \cup refused)
       /\ listener = "gone" => far[c][t] = "closed"
       /\ ~persistent /\ listener = "up" /\ <<c, t>> \in served =>
            far[c][t] \in {"open", "waiting"}
       /\ <<c, t>> \in refused => far[c][t] = "closed"
  /\ c \in strays => c \in present
  /\ listener = "gone" => c \notin present

SettleInv == /\ TypeOK
             /\ \A c \in Clients : RaceInv(c) /\ NearInv(c) /\ FarInv(c)

(* Something that follows by itself can happen to the streams of c: the    *)
(* guards of Runtime.                                                      *)
CanGo(c) ==
  \/ client[c] = "racing" /\ \A t \in Transports : attempt[c][t] = "rejected"
  \/ client[c] = "session" /\ near[c][winner[c]] = "closed"
  \/ client[c] = "leaving"
  \/ c \in present \ inRoom /\ listener # "gone"
  \/ \E t \in Transports :
       \/ attempt[c][t] = "pending" /\ near[c][t] = "none"
       \/ near[c][t] = "closed" /\ far[c][t] = "open"
       \/ near[c][t] = "open" /\ far[c][t] = "closed"

(* No stream is left to wait for somebody else: not the one that lost at   *)
(* the listener, not the only session of a listener whose clients have     *)
(* gone, not a client whose listener has or has refused it, and not what   *)
(* the hub keeps of a client that has.  A session may be left to wait for  *)
(* its own input, and for nothing else.                                    *)
NobodyIsLeft ==
  /\ \A c \in Clients : LoserOpen(c) => CanGo(c)
  /\ ~persistent /\ served # {} /\ (\A c \in Clients : client[c] = "gone") =>
       listener # "up" \/ \E c \in Clients : Waits(c) \/ CanGo(c)
  /\ \A c \in Clients :
       /\ LeftBehind(c) /\ client[c] \notin {"waiting", "gone"} => CanGo(c)
       /\ client[c] = "gone" /\ c \in present \cup strays => CanGo(c)

(* What is left to do for a stream, a client, and the listener.            *)
AttemptLeft(s) == IF s = "pending" THEN 1 ELSE 0
NearLeft(s) == CASE s = "none" -> 2 [] s = "open" -> 1 [] OTHER -> 0
FarLeft(s) == CASE s = "none" -> 4 [] s = "open" -> 2 [] s = "waiting" -> 1
                [] OTHER -> 0
StageLeft(s) == CASE s = "racing" -> 4 [] s = "session" -> 3
                  [] s = "waiting" -> 2 [] s = "leaving" -> 1 [] OTHER -> 0

StreamLeft(c, t) ==
  AttemptLeft(attempt[c][t]) + NearLeft(near[c][t]) + FarLeft(far[c][t])

HubLeft(c) == IF c \in present THEN 1 ELSE 0

Left(c) == (StreamLeft(c, "libp2p") + StreamLeft(c, "trystero"))
             + (StageLeft(client[c]) + HubLeft(c))

ListenerLeft ==
  CASE listener = "up" -> 2 [] listener = "leaving" -> 1 [] OTHER -> 0

(* No step gives anybody more to do, a message that comes late included,   *)
(* and what follows by itself takes something from the listener or from a  *)
(* client.                                                                 *)
EveryoneComesToAnEnd ==
  [][/\ \A c \in Clients : Left(c) \in Nat /\ Left(c)' <= Left(c)
     /\ ListenerLeft \in Nat /\ ListenerLeft' <= ListenerLeft
     /\ Runtime => \/ ListenerLeft' < ListenerLeft
                   \/ \E c \in Clients : Left(c)' < Left(c)]_vars

LEMMA SettleInit == Init => SettleInv
<1> SUFFICES ASSUME Init PROVE SettleInv
  OBVIOUS
<1>1. TypeOK
  BY TypeInit
<1>2. ASSUME NEW c \in Clients PROVE RaceInv(c) /\ NearInv(c) /\ FarInv(c)
  <2>1. /\ client[c] = "racing" /\ winner[c] = "none"
        /\ served = {} /\ refused = {} /\ strays = {} /\ listener = "up"
    BY DEF Init
  <2>2. \A t \in Transports : /\ attempt[c][t] = "pending"
                              /\ near[c][t] = "none" /\ far[c][t] = "none"
    BY DEF Init, Each
  <2> QED BY <2>1, <2>2 DEF RaceInv, Idle, NearInv, FarInv
<1> QED BY <1>1, <1>2 DEF SettleInv

(* A step that leaves a client's own fields alone. *)
LEMMA OthersNear ==
  ASSUME NEW c \in Clients, NearInv(c),
         UNCHANGED <<client[c], winner[c], near[c], attempt[c]>>,
         c \in inRoom' => c \in inRoom
  PROVE  NearInv(c)'
BY DEF NearInv

(* A choice, and an attempt that settles or a stream that closes later. *)
LEMMA NearStep ==
  ASSUME TypeOK, \A c \in Clients : RaceInv(c) /\ NearInv(c), [Next]_vars
  PROVE  \A c \in Clients : NearInv(c)'
<1>0. /\ attempt \in [Clients -> [Transports -> AttemptState]]
      /\ near \in [Clients -> [Transports -> StreamState]]
      /\ client \in [Clients -> ClientState]
      /\ winner \in [Clients -> Transports \cup {"none"}]
      /\ ClientState = {"racing", "session", "waiting", "leaving", "gone"}
  BY DEF TypeOK, ClientState
<1>1. ASSUME NEW c \in Clients, NEW t \in Transports, Resolves(c, t),
             NEW a \in Clients
      PROVE  NearInv(a)'
  <2>1. CASE a # c
    <3>1. UNCHANGED <<client[a], winner[a], near[a], attempt[a]>>
      BY <1>0, <1>1, <2>1 DEF Resolves, Win
    <3>2. a \in inRoom' => a \in inRoom
      BY <1>1 DEF Resolves, Win
    <3> QED BY <3>1, <3>2, OthersNear
  <2>2. CASE a = c /\ winner[c] = "none" /\ t = "libp2p"
    <3>1. /\ client'[c] = "session" /\ winner'[c] = "libp2p"
          /\ near'[c] = [libp2p |-> "open", trystero |-> "closed"]
          /\ attempt'[c] = [libp2p |-> "resolved", trystero |-> "rejected"]
      BY <1>0, <1>1, <2>2 DEF Resolves, Win
    <3>2. /\ near'[c]["trystero"] = "closed" /\ near'[c]["libp2p"] = "open"
          /\ attempt'[c]["trystero"] = "rejected"
          /\ attempt'[c]["libp2p"] = "resolved"
      BY <3>1
    <3> QED BY <2>2, <3>1, <3>2 DEF NearInv, Transports
  <2>3. CASE a = c /\ ~(winner[c] = "none" /\ t = "libp2p")
    <3>1. /\ near' = [near EXCEPT ![c][t] = "open"]
          /\ attempt' = [attempt EXCEPT ![c][t] = "resolved"]
      BY <1>1, <2>3 DEF Resolves, Win
    <3>2. /\ near'[c][t] = "open" /\ attempt'[c][t] = "resolved"
          /\ \A b \in Transports \ {t} : /\ near'[c][b] = near[c][b]
                                         /\ attempt'[c][b] = attempt[c][b]
      BY <1>0, <3>1
    <3>3. client'[c] # "gone" /\ winner'[c] \in {t, winner[c]}
      BY <1>0, <1>1, <2>3 DEF Resolves, Win
    <3>4. winner[c] \in Transports \cup {"none"}
      BY <1>0
    <3>5. \A b \in Transports : near'[c][b] = "none" <=> attempt'[c][b] = "pending"
      BY <3>2 DEF NearInv
    <3>6. winner'[c] # "none" => attempt'[c][winner'[c]] # "pending"
      <4>1. CASE winner'[c] = t
        BY <3>2, <4>1
      <4>2. CASE winner'[c] # t
        BY <3>2, <3>3, <3>4, <4>2 DEF NearInv
      <4> QED BY <4>1, <4>2
    <3> QED BY <2>3, <3>3, <3>5, <3>6 DEF NearInv
  <2> QED BY <2>1, <2>2, <2>3
<1>2. ASSUME NEW c \in Clients, NEW t \in Transports,
             Rejects(c, t) \/ StreamFollows(c, t), NEW a \in Clients
      PROVE  NearInv(a)'
  <2>1. /\ near' = [near EXCEPT ![c][t] = "closed"]
        /\ \/ attempt' = [attempt EXCEPT ![c][t] = "rejected"]
           \/ attempt' = attempt /\ near[c][t] = "open"
        /\ UNCHANGED <<client, winner>>
        /\ inRoom' \subseteq inRoom
    BY <1>2 DEF Rejects, StreamFollows, Closed
  <2>2. CASE a # c
    <3>1. UNCHANGED <<near[a], attempt[a]>>
      BY <1>0, <2>1, <2>2
    <3> QED BY <2>1, <3>1, OthersNear
  <2>3. CASE a = c
    <3>1. near'[c][t] = "closed" /\ attempt'[c][t] # "pending"
      <4>1. near[c][t] = "open" => attempt[c][t] # "pending"
        BY DEF NearInv
      <4> QED BY <1>0, <2>1, <4>1
    <3>2. \A b \in Transports \ {t} : /\ near'[c][b] = near[c][b]
                                      /\ attempt'[c][b] = attempt[c][b]
      BY <1>0, <2>1
    <3>3. winner[c] \in Transports \cup {"none"}
      BY <1>0
    <3>4. \A b \in Transports : near'[c][b] = "none" <=> attempt'[c][b] = "pending"
      BY <3>1, <3>2 DEF NearInv
    <3>5. winner'[c] # "none" => attempt'[c][winner'[c]] # "pending"
      BY <2>1, <3>1, <3>2, <3>3 DEF NearInv
    <3>6. client'[c] = "gone" => /\ c \notin inRoom'
                                 /\ \A b \in Transports : near'[c][b] = "closed"
      BY <2>1, <3>1, <3>2 DEF NearInv
    <3> QED BY <2>3, <3>4, <3>5, <3>6 DEF NearInv
  <2> QED BY <2>2, <2>3
<1>3. ASSUME NEW c \in Clients, NobodyWins(c) \/ ClientWaits(c),
             NEW a \in Clients
      PROVE  NearInv(a)'
  BY <1>0, <1>3 DEF NobodyWins, ClientWaits, NearInv
<1>4. ASSUME NEW c \in Clients, ClientSessionEnds(c), NEW a \in Clients
      PROVE  NearInv(a)'
  <2>1. /\ winner[c] \in Transports
        /\ attempt[c][winner[c]] # "pending"
    BY <1>0, <1>4 DEF ClientSessionEnds, RaceInv, NearInv, Transports
  <2>2. /\ near' = [near EXCEPT ![c][winner[c]] = "closed"]
        /\ client' = [client EXCEPT ![c] = "leaving"]
        /\ UNCHANGED <<attempt, winner>> /\ inRoom' \subseteq inRoom
    BY <1>4 DEF ClientSessionEnds, Closed
  <2>3. CASE a # c
    <3>1. UNCHANGED <<near[a], client[a]>>
      BY <1>0, <2>2, <2>3
    <3> QED BY <2>2, <3>1, OthersNear
  <2>4. CASE a = c
    <3>1. near'[c][winner[c]] = "closed" /\ client'[c] = "leaving"
      BY <1>0, <2>1, <2>2
    <3>2. \A b \in Transports \ {winner[c]} : near'[c][b] = near[c][b]
      BY <1>0, <2>1, <2>2
    <3> QED BY <2>1, <2>2, <2>4, <3>1, <3>2 DEF NearInv
  <2> QED BY <2>3, <2>4
<1>5. ASSUME NEW c \in Clients, ClientLeaves(c), NEW a \in Clients
      PROVE  NearInv(a)'
  <2>1. CASE a # c
    <3>1. UNCHANGED <<client[a], winner[a], near[a], attempt[a]>>
      BY <1>0, <1>5, <2>1 DEF ClientLeaves
    <3>2. a \in inRoom' => a \in inRoom
      BY <1>5 DEF ClientLeaves
    <3> QED BY <3>1, <3>2, OthersNear
  <2>2. CASE a = c
    <3>1. \A t \in Transports : /\ near'[c][t] = "closed"
                                /\ attempt'[c][t] # "pending"
      BY <1>0, <1>5 DEF ClientLeaves
    <3>2. c \notin inRoom' /\ winner' = winner
      BY <1>5 DEF ClientLeaves
    <3>3. winner[c] \in Transports \cup {"none"}
      BY <1>0
    <3> QED BY <2>2, <3>1, <3>2, <3>3 DEF NearInv
  <2> QED BY <2>1, <2>2
<1>6. ASSUME UNCHANGED clientVars, NEW a \in Clients PROVE NearInv(a)'
  BY <1>6, OthersNear DEF clientVars
<1>7. \/ \E c \in Clients, t \in Transports :
           Resolves(c, t) \/ Rejects(c, t) \/ StreamFollows(c, t)
      \/ \E c \in Clients :
           \/ NobodyWins(c) \/ ClientSessionEnds(c) \/ ClientWaits(c)
           \/ ClientLeaves(c)
      \/ UNCHANGED clientVars
  BY Steps DEF Accept, ListenerSessionEnds, ListenerWaits, LateMessage,
               PeerLeaves, ListenerLeaves, vars
<1> QED
  BY <1>1, <1>2, <1>3, <1>4, <1>5, <1>6, <1>7

(* A stream that is brought, one that ends, and the end of the listener. *)
LEMMA FarStep ==
  ASSUME TypeOK, \A c \in Clients : FarInv(c), [Next]_vars
  PROVE  \A c \in Clients : FarInv(c)'
<1>0. far \in [Clients -> [Transports -> FarState]]
  BY DEF TypeOK
<1>1. ASSUME NEW c \in Clients, NEW t \in Transports, Accept(c, t),
             NEW a \in Clients
      PROVE  FarInv(a)'
  <2>1. /\ listener = "up" /\ UNCHANGED <<listener, persistent, strays>>
        /\ present \subseteq present'
        /\ <<c, t>> \notin served \cup refused
    BY <1>1 DEF Accept
  <2>2. PICK s \in {"open", "closed"} :
          /\ far' = [far EXCEPT ![c][t] = s]
          /\ IF s = "open" THEN served' = served \cup {<<c, t>>} /\ refused' = refused
                           ELSE served' = served /\ refused' = refused \cup {<<c, t>>}
    BY <1>1 DEF Accept, HandleIncoming
  <2>3. ASSUME NEW b \in Transports, <<a, b>> # <<c, t>>
        PROVE  /\ far'[a][b] = far[a][b]
               /\ <<a, b>> \in served' <=> <<a, b>> \in served
               /\ <<a, b>> \in refused' <=> <<a, b>> \in refused
    BY <1>0, <2>2, <2>3
  <2>4. far'[c][t] = s
    BY <1>0, <2>2
  <2>5. ASSUME NEW b \in Transports
        PROVE  /\ far'[a][b] = "none" <=> <<a, b>> \notin served' \cup refused'
               /\ ~persistent /\ <<a, b>> \in served' =>
                    far'[a][b] \in {"open", "waiting"}
               /\ <<a, b>> \in refused' => far'[a][b] = "closed"
    <3>1. CASE <<a, b>> = <<c, t>>
      <4>1. a = c /\ b = t
        BY <3>1
      <4> QED BY <2>1, <2>2, <2>4, <4>1
    <3>2. CASE <<a, b>> # <<c, t>>
      <4> DEFINE p == <<a, b>>
      <4>1. /\ far[a][b] = "none" <=> p \notin served \cup refused
            /\ ~persistent /\ p \in served => far[a][b] \in {"open", "waiting"}
            /\ p \in refused => far[a][b] = "closed"
        BY <2>1 DEF FarInv
      <4>2. /\ far'[a][b] = far[a][b]
            /\ p \in served' <=> p \in served
            /\ p \in refused' <=> p \in refused
        BY <2>3, <3>2
      <4> HIDE DEF p
      <4>3. /\ far'[a][b] = "none" <=> p \notin served' \cup refused'
            /\ ~persistent /\ p \in served' =>
                 far'[a][b] \in {"open", "waiting"}
            /\ p \in refused' => far'[a][b] = "closed"
        BY <4>1, <4>2
      <4> QED BY <4>3 DEF p
    <3> QED BY <3>1, <3>2
  <2>6. a \in strays' => a \in present'
    BY <2>1 DEF FarInv
  <2> QED BY <2>1, <2>5, <2>6 DEF FarInv
<1>2. ASSUME NEW c \in Clients, NEW t \in Transports, ListenerSessionEnds(c, t),
             NEW a \in Clients
      PROVE  FarInv(a)'
  <2>1. /\ far[c][t] \in {"open", "waiting"}
        /\ far' = [far EXCEPT ![c][t] = "closed"]
        /\ listener' = IF persistent THEN listener ELSE "leaving"
        /\ UNCHANGED <<persistent, served, refused, present, strays>>
    BY <1>2 DEF ListenerSessionEnds, AfterSession, hubVars
  <2>2. listener # "gone"
    BY <2>1 DEF FarInv
  <2>3. \A b \in Transports :
          far'[a][b] = far[a][b]
            \/ /\ a = c /\ b = t /\ far[a][b] \in {"open", "waiting"}
               /\ far'[a][b] = "closed"
    BY <1>0, <2>1
  <2>4. listener' # "gone" /\ (~persistent => listener' # "up")
    BY <2>1, <2>2
  <2> QED BY <2>1, <2>2, <2>3, <2>4 DEF FarInv
<1>3. CASE ListenerLeaves
  <2>1. /\ listener' = "gone" /\ present' = {} /\ strays' = {}
        /\ \A c \in Clients, t \in Transports : far'[c][t] = "closed"
    BY <1>3 DEF ListenerLeaves, Each
  <2> QED BY <2>1 DEF FarInv
<1>4. ASSUME NEW c \in Clients, LateMessage(c) \/ PeerLeaves(c),
             NEW a \in Clients
      PROVE  FarInv(a)'
  <2>1. UNCHANGED <<persistent, far, served, refused, listener>>
    BY <1>4 DEF LateMessage, PeerLeaves, listenerVars
  <2>2. (a \in strays' => a \in present') /\ (a \in present' => a \in present)
    BY <1>4 DEF LateMessage, PeerLeaves, StraysWithout, FarInv
  <2> QED BY <2>1, <2>2 DEF FarInv
<1>5. ASSUME UNCHANGED <<persistent, listenerVars, hubVars>>, NEW a \in Clients
      PROVE  FarInv(a)'
  BY <1>5 DEF FarInv, listenerVars, hubVars
<1>6. \/ \E c \in Clients, t \in Transports :
           Accept(c, t) \/ ListenerSessionEnds(c, t) \/ ListenerWaits(c, t)
      \/ \E c \in Clients : LateMessage(c) \/ PeerLeaves(c)
      \/ ListenerLeaves
      \/ UNCHANGED <<persistent, listenerVars, hubVars>>
  BY Steps DEF Resolves, Rejects, StreamFollows, NobodyWins,
               ClientSessionEnds, ClientWaits, ClientLeaves, vars
<1>7. ASSUME NEW c \in Clients, NEW t \in Transports, ListenerWaits(c, t),
             NEW a \in Clients
      PROVE  FarInv(a)'
  <2>1. /\ far[c][t] = "open" /\ far' = [far EXCEPT ![c][t] = "waiting"]
        /\ UNCHANGED <<persistent, listener, served, refused, present, strays>>
    BY <1>7 DEF ListenerWaits, hubVars
  <2>2. \A b \in Transports :
          far'[a][b] = far[a][b]
            \/ (far[a][b] = "open" /\ far'[a][b] = "waiting")
    BY <1>0, <2>1
  <2>3. listener # "gone"
    BY <2>1 DEF FarInv
  <2> QED BY <2>1, <2>2, <2>3 DEF FarInv
<1> QED
  BY <1>1, <1>2, <1>3, <1>4, <1>5, <1>6, <1>7

LEMMA SettleStep ==
  ASSUME SettleInv, [Next]_vars
  PROVE  SettleInv'
BY TypeStep, RaceStep, NearStep, FarStep DEF SettleInv

LEMMA SettleAlways == Spec => []SettleInv
BY SettleInit, SettleStep, PTL DEF Spec

(* Nobody is left to wait for somebody else, however many clients there    *)
(* are: the loser at the listener, the listener without clients, a client  *)
(* without its listener and the hub without its peer all have a next step. *)
(* Where none is left, a session waits for its own input: Waits at the     *)
(* listener, "waiting" at the client.                                      *)
THEOREM NobodyIsLeftBehind == Spec => []NobodyIsLeft
<1>1. SettleInv => NobodyIsLeft
  <2> SUFFICES ASSUME SettleInv PROVE NobodyIsLeft
    OBVIOUS
  <2>0. /\ near \in [Clients -> [Transports -> StreamState]]
        /\ far \in [Clients -> [Transports -> FarState]]
        /\ attempt \in [Clients -> [Transports -> AttemptState]]
        /\ client \in [Clients -> ClientState]
        /\ winner \in [Clients -> Transports \cup {"none"}]
        /\ listener \in {"up", "leaving", "gone"}
        /\ served \subseteq Streams
        /\ ClientState = {"racing", "session", "waiting", "leaving", "gone"}
    BY DEF SettleInv, TypeOK, ClientState
  <2>t. \A c \in Clients, t \in Transports :
          /\ near[c][t] \in {"none", "open", "closed"}
          /\ far[c][t] \in {"none", "open", "waiting", "closed"}
          /\ attempt[c][t] \in {"pending", "resolved", "rejected"}
    BY <2>0 DEF StreamState, FarState, AttemptState
  <2>1. ASSUME NEW c \in Clients, NEW t \in Transports,
               winner[c] \notin {t, "none"}, far[c][t] = "open"
        PROVE  CanGo(c)
    <3>1. RaceInv(c) /\ NearInv(c)
      BY DEF SettleInv
    <3>2. client[c] # "racing"
      BY <2>1, <3>1 DEF RaceInv
    <3>3. CASE near[c][t] = "none" \/ near[c][t] = "closed"
      BY <2>1, <3>1, <3>3 DEF NearInv, CanGo
    <3>4. CASE near[c][t] = "open"
      <4>1. client[c] \notin {"session", "waiting"}
        BY <2>1, <3>1, <3>4 DEF RaceInv, Idle
      <4>2. client[c] # "gone"
        BY <3>1, <3>4 DEF NearInv
      <4> QED BY <2>0, <3>2, <4>1, <4>2 DEF CanGo
    <3> QED BY <2>t, <3>3, <3>4
  <2>2. ASSUME ~persistent, served # {}, \A c \in Clients : client[c] = "gone",
               listener = "up"
        PROVE  \E c \in Clients : Waits(c) \/ CanGo(c)
    <3>1. PICK c \in Clients, t \in Transports : <<c, t>> \in served
      <4>1. PICK s \in served : s \in Clients \X Transports
        BY <2>0, <2>2 DEF Streams
      <4>2. s = <<s[1], s[2]>> /\ s[1] \in Clients /\ s[2] \in Transports
        BY <4>1
      <4> QED BY <4>2
    <3>2. NearInv(c) /\ FarInv(c)
      BY DEF SettleInv
    <3>3. far[c][t] \in {"open", "waiting"} /\ near[c][t] = "closed"
      BY <2>2, <3>1, <3>2 DEF NearInv, FarInv
    <3> QED BY <3>3 DEF CanGo, Waits
  <2>3. ASSUME NEW c \in Clients, LeftBehind(c),
               client[c] \notin {"waiting", "gone"}
        PROVE  CanGo(c)
    <3>1. RaceInv(c) /\ NearInv(c) /\ FarInv(c)
      BY DEF SettleInv
    <3>2. CASE client[c] = "racing"
      <4>1. CASE \E t \in Transports : attempt[c][t] = "pending"
        BY <3>1, <4>1 DEF NearInv, CanGo
      <4>2. CASE \A t \in Transports : attempt[c][t] # "pending"
        <5>1. \A t \in Transports : attempt[c][t] = "rejected"
          BY <2>t, <3>1, <3>2, <4>2 DEF RaceInv, Idle
        <5> QED BY <3>2, <5>1 DEF CanGo
      <4> QED BY <4>1, <4>2
    <3>3. CASE client[c] = "session"
      <4>1. winner[c] \in Transports
        BY <3>1, <3>3 DEF RaceInv
      <4>2. near[c][winner[c]] # "none"
        BY <3>1, <4>1 DEF NearInv, Transports
      <4>3. far[c][winner[c]] = "closed"
        BY <2>3, <3>1, <4>1 DEF FarInv, LeftBehind
      <4> QED BY <2>t, <3>3, <4>1, <4>2, <4>3 DEF CanGo
    <3>4. CASE client[c] = "leaving"
      BY <3>4 DEF CanGo
    <3> QED BY <2>0, <2>3, <3>2, <3>3, <3>4
  <2>4. ASSUME NEW c \in Clients, client[c] = "gone", c \in present \cup strays
        PROVE  CanGo(c)
    <3>1. NearInv(c) /\ FarInv(c)
      BY DEF SettleInv
    <3> QED BY <2>4, <3>1 DEF NearInv, FarInv, CanGo
  <2>5. \A c \in Clients : LoserOpen(c) => CanGo(c)
    BY <2>1 DEF LoserOpen
  <2> QED BY <2>2, <2>3, <2>4, <2>5 DEF NobodyIsLeft
<1> QED
  BY <1>1, SettleAlways, PTL
-----------------------------------------------------------------------------
LEMMA PartsLeft ==
  \A s : /\ AttemptLeft(s) \in 0..1 /\ NearLeft(s) \in 0..2
         /\ FarLeft(s) \in 0..4 /\ StageLeft(s) \in 0..4
BY DEF AttemptLeft, NearLeft, FarLeft, StageLeft

LEMMA LeftRange ==
  ASSUME NEW c
  PROVE  /\ \A t : StreamLeft(c, t) \in 0..7 /\ StreamLeft(c, t)' \in 0..7
         /\ HubLeft(c) \in 0..1 /\ HubLeft(c)' \in 0..1
         /\ Left(c) \in Nat /\ Left(c)' \in Nat
<1>1. ASSUME NEW t
      PROVE  StreamLeft(c, t) \in 0..7 /\ StreamLeft(c, t)' \in 0..7
  BY PartsLeft DEF StreamLeft
<1>2. HubLeft(c) \in 0..1 /\ HubLeft(c)' \in 0..1
  BY DEF HubLeft
<1> QED BY <1>1, <1>2, PartsLeft DEF Left

(* A stream has less to do when one of its three parts has. *)
LEMMA StreamFalls ==
  ASSUME NEW c, NEW t,
         AttemptLeft(attempt'[c][t]) <= AttemptLeft(attempt[c][t]),
         NearLeft(near'[c][t]) <= NearLeft(near[c][t]),
         FarLeft(far'[c][t]) <= FarLeft(far[c][t])
  PROVE  /\ StreamLeft(c, t)' <= StreamLeft(c, t)
         /\ (\/ AttemptLeft(attempt'[c][t]) < AttemptLeft(attempt[c][t])
             \/ NearLeft(near'[c][t]) < NearLeft(near[c][t])
             \/ FarLeft(far'[c][t]) < FarLeft(far[c][t]))
            => StreamLeft(c, t)' < StreamLeft(c, t)
BY PartsLeft DEF StreamLeft

(* And so has a client when one of its streams has, or it goes on. *)
LEMMA ClientFalls ==
  ASSUME NEW c,
         \A t \in Transports : StreamLeft(c, t)' <= StreamLeft(c, t),
         StageLeft(client'[c]) <= StageLeft(client[c]),
         HubLeft(c)' <= HubLeft(c)
  PROVE  /\ Left(c)' <= Left(c)
         /\ (\/ \E t \in Transports : StreamLeft(c, t)' < StreamLeft(c, t)
             \/ StageLeft(client'[c]) < StageLeft(client[c])
             \/ HubLeft(c)' < HubLeft(c))
            => Left(c)' < Left(c)
BY LeftRange, PartsLeft DEF Left, Transports

(* A client that is not the one a step is about. *)
LEMMA Untouched ==
  ASSUME NEW c, UNCHANGED <<attempt[c], near[c], far[c], client[c]>>,
         c \in present' <=> c \in present
  PROVE  Left(c)' = Left(c)
BY DEF Left, StreamLeft, HubLeft

(* A client that is not the one a step is about. *)
LEMMA ListenerRange == ListenerLeft \in 0..2 /\ ListenerLeft' \in 0..2
BY DEF ListenerLeft

(* A step of one client takes something from it and leaves the others.     *)
LEMMA DiallingTakes ==
  ASSUME SettleInv, NEW c \in Clients,
         \/ \E t \in Transports :
              Resolves(c, t) \/ Rejects(c, t) \/ StreamFollows(c, t)
         \/ NobodyWins(c) \/ ClientSessionEnds(c) \/ ClientWaits(c)
         \/ ClientLeaves(c)
  PROVE  /\ \A a \in Clients : Left(a)' <= Left(a)
         /\ Left(c)' < Left(c)
         /\ ListenerLeft' = ListenerLeft
<1>0. /\ attempt \in [Clients -> [Transports -> AttemptState]]
      /\ near \in [Clients -> [Transports -> StreamState]]
      /\ far \in [Clients -> [Transports -> FarState]]
      /\ client \in [Clients -> ClientState]
      /\ winner \in [Clients -> Transports \cup {"none"}]
      /\ RaceInv(c) /\ NearInv(c)
  BY DEF SettleInv, TypeOK
<1>1. UNCHANGED <<far, listener, present>>
  BY DEF Resolves, Rejects, StreamFollows, NobodyWins, ClientSessionEnds,
         ClientWaits, ClientLeaves, listenerVars, hubVars
<1>2. ListenerLeft' = ListenerLeft
  BY <1>1 DEF ListenerLeft
<1>3. HubLeft(c)' = HubLeft(c)
  BY <1>1 DEF HubLeft
<1>4. ASSUME NEW a \in Clients, a # c PROVE Left(a)' = Left(a)
  <2>1. UNCHANGED <<attempt[a], near[a], client[a]>>
    BY <1>0, <1>4 DEF Resolves, Win, Rejects, StreamFollows, Closed,
       NobodyWins, ClientSessionEnds, ClientWaits, ClientLeaves
  <2> QED BY <1>1, <2>1, Untouched
<1>5. Left(c)' < Left(c)
  <2>1. ASSUME NEW t \in Transports, Resolves(c, t) PROVE Left(c)' < Left(c)
    <3>1. attempt[c][t] = "pending" /\ near[c][t] = "none"
      BY <1>0, <2>1 DEF Resolves, NearInv
    <3>2. near'[c][t] = "open" /\ attempt'[c][t] = "resolved"
      BY <1>0, <2>1 DEF Resolves, Win
    <3>3. ASSUME NEW b \in Transports, b # t
          PROVE  \/ near'[c][b] = near[c][b] /\ attempt'[c][b] = attempt[c][b]
                 \/ near'[c][b] = "closed" /\ attempt'[c][b] = "rejected"
      <4>1. CASE winner[c] = "none" /\ t = "libp2p"
        <5>1. b = "trystero"
          BY <3>3, <4>1 DEF Transports
        <5> QED BY <1>0, <2>1, <4>1, <5>1 DEF Resolves, Win
      <4>2. CASE ~(winner[c] = "none" /\ t = "libp2p")
        <5>1. /\ near' = [near EXCEPT ![c][t] = "open"]
              /\ attempt' = [attempt EXCEPT ![c][t] = "resolved"]
          BY <2>1, <4>2 DEF Resolves, Win
        <5> QED BY <1>0, <3>3, <5>1
      <4> QED BY <4>1, <4>2
    <3>4. StreamLeft(c, t)' < StreamLeft(c, t)
      BY <1>1, <3>1, <3>2, PartsLeft
         DEF StreamLeft, AttemptLeft, NearLeft, FarLeft
    <3>5. ASSUME NEW b \in Transports PROVE StreamLeft(c, b)' <= StreamLeft(c, b)
      <4>1. CASE b = t
        BY <3>4, <4>1, LeftRange
      <4>2. CASE b # t
        <5>1. /\ AttemptLeft(attempt'[c][b]) <= AttemptLeft(attempt[c][b])
              /\ NearLeft(near'[c][b]) <= NearLeft(near[c][b])
          BY <3>3, <4>2, PartsLeft DEF AttemptLeft, NearLeft
        <5>2. FarLeft(far'[c][b]) <= FarLeft(far[c][b])
          BY <1>1, PartsLeft
        <5> QED BY <5>1, <5>2, StreamFalls
      <4> QED BY <4>1, <4>2
    <3>6. StageLeft(client'[c]) <= StageLeft(client[c])
      <4>1. \/ client'[c] = client[c]
            \/ /\ client'[c] = "session"
               /\ client[c] \in {"racing", "session", "waiting"}
               /\ winner[c] = "none"
        BY <1>0, <2>1 DEF Resolves, Win
      <4>2. winner[c] = "none" => client[c] # "waiting"
        BY <1>0 DEF RaceInv, Transports
      <4> QED BY <4>1, <4>2, PartsLeft DEF StageLeft
    <3>7. HubLeft(c)' <= HubLeft(c)
      BY <1>3, LeftRange
    <3> QED BY <3>4, <3>5, <3>6, <3>7, ClientFalls
  <2>2. ASSUME NEW t \in Transports, Rejects(c, t) \/ StreamFollows(c, t)
        PROVE  Left(c)' < Left(c)
    <3>1. /\ near' = [near EXCEPT ![c][t] = "closed"]
          /\ \/ /\ attempt' = [attempt EXCEPT ![c][t] = "rejected"]
                /\ attempt[c][t] = "pending"
             \/ attempt' = attempt /\ near[c][t] = "open"
          /\ client' = client
      BY <2>2 DEF Rejects, StreamFollows, Closed
    <3>2. /\ near'[c][t] = "closed"
          /\ attempt'[c][t] \in {"rejected", attempt[c][t]}
          /\ \/ attempt[c][t] = "pending" /\ attempt'[c][t] = "rejected"
             \/ near[c][t] = "open"
      BY <1>0, <3>1
    <3>3. \A b \in Transports \ {t} : /\ near'[c][b] = near[c][b]
                                      /\ attempt'[c][b] = attempt[c][b]
      BY <1>0, <3>1
    <3>4. ASSUME NEW b \in Transports
          PROVE  /\ AttemptLeft(attempt'[c][b]) <= AttemptLeft(attempt[c][b])
                 /\ NearLeft(near'[c][b]) <= NearLeft(near[c][b])
                 /\ FarLeft(far'[c][b]) <= FarLeft(far[c][b])
      <4>1. FarLeft(far'[c][b]) <= FarLeft(far[c][b])
        BY <1>1, PartsLeft
      <4>2. CASE b = t
        BY <3>2, <4>1, <4>2, PartsLeft DEF AttemptLeft, NearLeft
      <4>3. CASE b # t
        BY <3>3, <4>1, <4>3, PartsLeft
      <4> QED BY <4>2, <4>3
    <3>5. \/ AttemptLeft(attempt'[c][t]) < AttemptLeft(attempt[c][t])
          \/ NearLeft(near'[c][t]) < NearLeft(near[c][t])
      BY <3>2 DEF AttemptLeft, NearLeft
    <3>6. StreamLeft(c, t)' < StreamLeft(c, t)
      BY <3>4, <3>5, StreamFalls
    <3>7. \A b \in Transports : StreamLeft(c, b)' <= StreamLeft(c, b)
      BY <3>4, StreamFalls
    <3>8. /\ StageLeft(client'[c]) <= StageLeft(client[c])
          /\ HubLeft(c)' <= HubLeft(c)
      BY <1>3, <3>1, PartsLeft, LeftRange
    <3> QED BY <3>6, <3>7, <3>8, ClientFalls
  <2>3. CASE \/ NobodyWins(c) \/ ClientSessionEnds(c) \/ ClientWaits(c)
             \/ ClientLeaves(c)
    <3>1. StageLeft(client'[c]) < StageLeft(client[c])
      <4>1. \/ /\ client[c] \in {"racing", "session", "waiting"}
               /\ client'[c] = "leaving"
            \/ client[c] = "session" /\ client'[c] = "waiting"
            \/ client[c] = "leaving" /\ client'[c] = "gone"
        BY <1>0, <2>3 DEF NobodyWins, ClientSessionEnds, ClientWaits,
                          ClientLeaves
      <4> QED BY <4>1 DEF StageLeft
    <3>2. ASSUME NEW b \in Transports
          PROVE  /\ near'[c][b] \in {"closed", near[c][b]}
                 /\ attempt'[c][b] \in {"rejected", attempt[c][b]}
      BY <1>0, <2>3 DEF NobodyWins, ClientSessionEnds, ClientWaits,
                        ClientLeaves, Closed
    <3>3. ASSUME NEW b \in Transports PROVE StreamLeft(c, b)' <= StreamLeft(c, b)
      <4>1. /\ AttemptLeft(attempt'[c][b]) <= AttemptLeft(attempt[c][b])
            /\ NearLeft(near'[c][b]) <= NearLeft(near[c][b])
        BY <3>2, PartsLeft DEF AttemptLeft, NearLeft
      <4>2. FarLeft(far'[c][b]) <= FarLeft(far[c][b])
        BY <1>1, PartsLeft
      <4> QED BY <4>1, <4>2, StreamFalls
    <3>4. /\ StageLeft(client'[c]) <= StageLeft(client[c])
          /\ HubLeft(c)' <= HubLeft(c)
      BY <1>3, <3>1, PartsLeft, LeftRange
    <3> QED BY <3>1, <3>3, <3>4, ClientFalls
  <2> QED BY <2>1, <2>2, <2>3
<1>6. \A a \in Clients : Left(a)' <= Left(a)
  BY <1>4, <1>5, LeftRange
<1> QED BY <1>2, <1>5, <1>6

(* A stream that is brought to the listener, or one whose session ends     *)
(* there, has less to do.                                                  *)
LEMMA ListeningTakes ==
  ASSUME SettleInv, NEW c \in Clients, NEW t \in Transports,
         Accept(c, t) \/ ListenerSessionEnds(c, t) \/ ListenerWaits(c, t)
  PROVE  /\ \A a \in Clients : Left(a)' <= Left(a)
         /\ Left(c)' < Left(c)
         /\ ListenerLeft' <= ListenerLeft
<1>0. /\ far \in [Clients -> [Transports -> FarState]]
      /\ FarInv(c)
  BY DEF SettleInv, TypeOK
<1>1. /\ UNCHANGED clientVars
      /\ present' \subseteq present \cup {c} /\ present \subseteq present'
  BY DEF Accept, ListenerSessionEnds, ListenerWaits, hubVars
<1>2. PICK s \in {"open", "waiting", "closed"} :
        far' = [far EXCEPT ![c][t] = s]
  BY DEF Accept, HandleIncoming, ListenerSessionEnds, ListenerWaits
<1>3. ListenerLeft' <= ListenerLeft
  <2>1. \/ listener' = listener
        \/ far[c][t] \in {"open", "waiting"} /\ listener' = "leaving"
    BY DEF Accept, ListenerSessionEnds, ListenerWaits, AfterSession
  <2>2. listener = "gone" => far[c][t] \notin {"open", "waiting"}
    BY <1>0 DEF FarInv
  <2>3. listener \in {"up", "leaving", "gone"}
    BY DEF SettleInv, TypeOK
  <2>4. CASE listener' = listener
    BY <2>4, ListenerRange DEF ListenerLeft
  <2>5. CASE listener \in {"up", "leaving"} /\ listener' = "leaving"
    BY <2>5 DEF ListenerLeft
  <2> QED BY <2>1, <2>2, <2>3, <2>4, <2>5
<1>4. ASSUME NEW a \in Clients, a # c PROVE Left(a)' = Left(a)
  <2>1. far'[a] = far[a]
    BY <1>0, <1>2, <1>4
  <2>2. UNCHANGED <<attempt[a], near[a], client[a]>>
    BY <1>1 DEF clientVars
  <2>3. a \in present' <=> a \in present
    BY <1>1, <1>4
  <2> QED BY <2>1, <2>2, <2>3, Untouched
<1>5. \A b \in Transports \ {t} : StreamLeft(c, b)' = StreamLeft(c, b)
  <2>1. \A b \in Transports \ {t} : far'[c][b] = far[c][b]
    BY <1>0, <1>2
  <2> QED BY <1>1, <2>1 DEF StreamLeft, clientVars
<1>6. far'[c][t] = s
  BY <1>0, <1>2
<1>7. StageLeft(client'[c]) = StageLeft(client[c])
  BY <1>1 DEF clientVars
<1>8. CASE Accept(c, t)
  <2>1. far[c][t] = "none"
    BY <1>0, <1>8 DEF Accept, FarInv
  <2>2. FarLeft(far[c][t]) = 4 /\ FarLeft(far'[c][t]) \in 0..2
    BY <1>6, <2>1 DEF FarLeft
  <2>3. StreamLeft(c, t)' <= StreamLeft(c, t) - 2
    BY <1>1, <2>2, PartsLeft DEF StreamLeft, clientVars
  <2>4. HubLeft(c)' <= HubLeft(c) + 1
    BY LeftRange
  <2>5. Left(c)' < Left(c)
    <3>1. PICK b \in Transports \ {t} : {b, t} = {"libp2p", "trystero"}
      BY DEF Transports
    <3>2. StreamLeft(c, b)' = StreamLeft(c, b)
      BY <1>5
    <3>3. CASE t = "libp2p" /\ b = "trystero"
      BY <1>7, <2>3, <2>4, <3>2, <3>3, LeftRange, PartsLeft DEF Left
    <3>4. CASE t = "trystero" /\ b = "libp2p"
      BY <1>7, <2>3, <2>4, <3>2, <3>4, LeftRange, PartsLeft DEF Left
    <3> QED BY <3>1, <3>3, <3>4
  <2> QED BY <1>3, <1>4, <2>5, LeftRange
<1>9. CASE ListenerSessionEnds(c, t) \/ ListenerWaits(c, t)
  <2>1. /\ \/ far[c][t] = "open" /\ far'[c][t] \in {"waiting", "closed"}
           \/ far[c][t] = "waiting" /\ far'[c][t] = "closed"
        /\ present' = present
    BY <1>0, <1>9 DEF ListenerSessionEnds, ListenerWaits, hubVars
  <2>2. StreamLeft(c, t)' < StreamLeft(c, t)
    BY <1>1, <2>1, PartsLeft DEF StreamLeft, FarLeft, clientVars
  <2>3. \A b \in Transports : StreamLeft(c, b)' <= StreamLeft(c, b)
    BY <1>5, <2>2, LeftRange
  <2>4. /\ HubLeft(c)' <= HubLeft(c)
        /\ StageLeft(client'[c]) <= StageLeft(client[c])
    BY <1>7, <2>1, LeftRange, PartsLeft DEF HubLeft
  <2>5. Left(c)' < Left(c)
    BY <2>2, <2>3, <2>4, ClientFalls
  <2> QED BY <1>3, <1>4, <2>5, LeftRange
<1> QED BY <1>8, <1>9

(* The hub, and the end of the listener. *)
LEMMA HubTakes ==
  ASSUME SettleInv,
         ListenerLeaves \/ \E c \in Clients : LateMessage(c) \/ PeerLeaves(c)
  PROVE  /\ \A a \in Clients : Left(a)' <= Left(a)
         /\ ListenerLeft' <= ListenerLeft
         /\ ListenerLeaves => ListenerLeft' < ListenerLeft
         /\ \A c \in Clients : PeerLeaves(c) => Left(c)' < Left(c)
<1>1. /\ UNCHANGED clientVars /\ present' \subseteq present
      /\ \A a \in Clients, t \in Transports : far'[a][t] \in {"closed", far[a][t]}
  BY DEF ListenerLeaves, LateMessage, PeerLeaves, listenerVars, Each
<1>2. ASSUME NEW a \in Clients
      PROVE  /\ \A t \in Transports : StreamLeft(a, t)' <= StreamLeft(a, t)
             /\ StageLeft(client'[a]) <= StageLeft(client[a])
             /\ HubLeft(a)' <= HubLeft(a)
  <2>1. ASSUME NEW t \in Transports PROVE StreamLeft(a, t)' <= StreamLeft(a, t)
    <3>1. FarLeft(far'[a][t]) <= FarLeft(far[a][t])
      BY <1>1, PartsLeft DEF FarLeft
    <3>2. /\ AttemptLeft(attempt'[a][t]) <= AttemptLeft(attempt[a][t])
          /\ NearLeft(near'[a][t]) <= NearLeft(near[a][t])
      BY <1>1, PartsLeft DEF clientVars
    <3> QED BY <3>1, <3>2, StreamFalls
  <2>2. StageLeft(client'[a]) <= StageLeft(client[a])
    BY <1>1, PartsLeft DEF clientVars
  <2>3. HubLeft(a)' <= HubLeft(a)
    BY <1>1 DEF HubLeft
  <2> QED BY <2>1, <2>2, <2>3
<1>3. \A a \in Clients : Left(a)' <= Left(a)
  BY <1>2, ClientFalls
<1>4. ListenerLeaves => ListenerLeft' < ListenerLeft
  BY DEF ListenerLeaves, ListenerLeft
<1>5. ListenerLeft' <= ListenerLeft
  <2>1. ListenerLeaves \/ listener' = listener
    BY DEF LateMessage, PeerLeaves, listenerVars
  <2> QED BY <1>4, <2>1, ListenerRange DEF ListenerLeft
<1>6. ASSUME NEW c \in Clients, PeerLeaves(c) PROVE Left(c)' < Left(c)
  <2>1. HubLeft(c)' < HubLeft(c)
    BY <1>6 DEF PeerLeaves, HubLeft
  <2> QED BY <1>2, <2>1, ClientFalls
<1> QED BY <1>3, <1>4, <1>5, <1>6

(* The race, its sessions and the hub run out of steps, however many       *)
(* clients come and whatever they send late.                               *)
THEOREM EveryoneRunsOut == Spec => EveryoneComesToAnEnd
<1>1. SettleInv /\ [Next]_vars =>
        [/\ \A c \in Clients : Left(c) \in Nat /\ Left(c)' <= Left(c)
         /\ ListenerLeft \in Nat /\ ListenerLeft' <= ListenerLeft
         /\ Runtime => \/ ListenerLeft' < ListenerLeft
                       \/ \E c \in Clients : Left(c)' < Left(c)]_vars
  <2> SUFFICES ASSUME SettleInv, [Next]_vars
               PROVE  /\ \A c \in Clients : Left(c)' <= Left(c)
                      /\ ListenerLeft' <= ListenerLeft
                      /\ Runtime => \/ ListenerLeft' < ListenerLeft
                                    \/ \E c \in Clients : Left(c)' < Left(c)
    BY LeftRange, ListenerRange
  <2>1. ASSUME NEW c \in Clients,
               \/ \E t \in Transports :
                    Resolves(c, t) \/ Rejects(c, t) \/ StreamFollows(c, t)
               \/ NobodyWins(c) \/ ClientSessionEnds(c) \/ ClientWaits(c)
               \/ ClientLeaves(c)
        PROVE  /\ \A a \in Clients : Left(a)' <= Left(a)
               /\ Left(c)' < Left(c)
               /\ ListenerLeft' <= ListenerLeft
    BY <2>1, DiallingTakes, ListenerRange
  <2>2. ASSUME NEW c \in Clients, NEW t \in Transports,
               Accept(c, t) \/ ListenerSessionEnds(c, t) \/ ListenerWaits(c, t)
        PROVE  /\ \A a \in Clients : Left(a)' <= Left(a)
               /\ Left(c)' < Left(c)
               /\ ListenerLeft' <= ListenerLeft
    BY <2>2, ListeningTakes
  <2>3. CASE ListenerLeaves \/ \E c \in Clients : LateMessage(c) \/ PeerLeaves(c)
    <3>1. /\ \A a \in Clients : Left(a)' <= Left(a)
          /\ ListenerLeft' <= ListenerLeft
      BY <2>3, HubTakes
    <3>2. /\ ListenerLeaves => ListenerLeft' < ListenerLeft
          /\ \A c \in Clients : PeerLeaves(c) => Left(c)' < Left(c)
      BY <2>3, HubTakes
    <3>3. Runtime => \/ ListenerLeft' < ListenerLeft
                     \/ \E c \in Clients : Left(c)' < Left(c)
      BY <2>1, <2>2, <3>2 DEF Runtime, SessionFails, SessionFollows
    <3> QED BY <3>1, <3>3
  <2>4. CASE UNCHANGED vars
    <3>1. \A a \in Clients : Left(a)' = Left(a)
      BY <2>4, Untouched DEF vars, clientVars, listenerVars, hubVars
    <3>2. ListenerLeft' = ListenerLeft
      BY <2>4 DEF vars, listenerVars, ListenerLeft
    <3>3. Runtime => \/ ListenerLeft' < ListenerLeft
                     \/ \E c \in Clients : Left(c)' < Left(c)
      BY <2>1, <2>2, HubTakes DEF Runtime, SessionFails, SessionFollows
    <3> QED BY <3>1, <3>2, <3>3, LeftRange, ListenerRange
  <2> QED BY Steps, <2>1, <2>2, <2>3, <2>4
<1> QED
  BY <1>1, SettleAlways, PTL DEF Spec, EveryoneComesToAnEnd
=============================================================================
