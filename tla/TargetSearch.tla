---------------------------- MODULE TargetSearch ----------------------------
(***************************************************************************)
(* How a program comes from a PeerId to a route: resolveTarget of          *)
(* src/discovery.js in the terminal client, and connect() of               *)
(* web/app/p2p.worker.ts in the browser, with dhtAddresses (the same       *)
(* search without an abort) and dialFirst.                                 *)
(*                                                                         *)
(* Only the search has a clock: its queries have deadlines of their own,   *)
(* cut from what is left of the whole, and no time passes while a step is  *)
(* due.  The other waits of the worker settle within fixed timeouts.       *)
(***************************************************************************)
EXTENDS Naturals, FiniteSetsExt

CONSTANTS Timeout,          \* timeoutMs of the search
          QueryCap,         \* the longest a query may take
          Pause,            \* the pause between two rounds
          Routes            \* the addresses the worker may come to dial

ASSUME TimesAssumption ==
  /\ Timeout \in Nat \ {0} /\ QueryCap \in Nat \ {0} /\ Pause \in Nat \ {0}

ASSUME RoutesAssumption ==
  {"none", "found", "notFound", "aborted", "failed"} \cap Routes = {}

VARIABLES program,          \* "client" or "worker"
          at,               \* how far it is, see Phases
          now, until,       \* the clock; the deadline of the current wait
          aborted,          \* the client's libp2pController
          knownAt,          \* since when the peer store knows the peer
          cache,            \* the route in IndexedDB, or "none"
          dialling, open,   \* the attempts of dialFirst: running; with a stream
          result            \* what resolveTarget or connect() came to

clock == <<now, until>>
dials == <<dialling, open>>
vars == <<program, at, clock, aborted, knownAt, cache, dials, result>>

Search == {"check", "providers", "peer", "pause"}
Dial == {"dialRelay", "dialCached", "dial"}
Phases == Search \cup Dial \cup {"start", "config", "cacheIt", "done"}

Never == Timeout + Pause + 2

TypeOK == /\ program \in {"client", "worker"}
          /\ at \in Phases
          /\ now \in Nat /\ until \in Nat
          /\ aborted \in BOOLEAN
          /\ knownAt \in Nat
          /\ cache \in Routes \cup {"none"}
          /\ dialling \subseteq Routes
          /\ open \subseteq Routes
          /\ result \in Routes \cup {"none", "found", "notFound", "aborted",
                                     "failed"}

Init == /\ program \in {"client", "worker"}
        /\ at = IF program = "client" THEN "check" ELSE "start"
        /\ now = 0 /\ until = 0
        /\ aborted = FALSE
        /\ knownAt \in {0, Never}
        /\ cache \in IF program = "client" THEN {"none"}
                                           ELSE Routes \cup {"none"}
        /\ dialling = {} /\ open = {}
        /\ result = "none"
-----------------------------------------------------------------------------
Settle(what) == at' = "done" /\ result' = what

Go(phase) == at' = phase /\ UNCHANGED result

(* Mutant: a query is not cut to what is left. *)
CapAlone(t) == QueryCap

(* Math.min(4_000, Math.max(1, timeoutMs - (Date.now() - startedAt)))      *)
Cap(t) == Min({QueryCap, Max({1, IF t < Timeout THEN Timeout - t ELSE 0})})

(* Mutant: the peer store is asked only once. *)
KnownAtFirst == knownAt <= now /\ now = 0

(* knownAddresses(): the peer store has addresses of the peer. *)
Known == knownAt <= now

(* The worker goes on to dial what it has found. *)
Found ==
  IF program = "client" THEN Settle("found") /\ UNCHANGED dialling
  ELSE /\ Go("dial")
       /\ dialling' \in SUBSET Routes \ {{}}

(* Nothing found in time: the worker still has the relays of its config.   *)
GivesUp ==
  IF program = "client" THEN Settle("notFound") /\ UNCHANGED dialling
  ELSE /\ dialling' \in SUBSET Routes
       /\ IF dialling' = {} THEN Settle("notFound") ELSE Go("dial")

(* The head of the loop. *)
Check ==
  /\ at = "check"
  /\ \/ now >= Timeout /\ GivesUp /\ UNCHANGED until
     \/ /\ now < Timeout /\ aborted
        /\ Settle("aborted") /\ UNCHANGED <<until, dialling>>
     \/ now < Timeout /\ ~aborted /\ Known /\ Found /\ UNCHANGED until
     \/ /\ now < Timeout /\ ~aborted /\ ~Known
        /\ Go("providers") /\ until' = now + Cap(now) /\ UNCHANGED dialling
  /\ UNCHANGED <<program, now, aborted, knownAt, cache, open>>

(* findProviders yields a record of the peer that can be used, or it ends, *)
(* fails, runs into its deadline or is aborted: findPeer is next.          *)
Providers ==
  /\ at = "providers"
  /\ \/ ~aborted /\ Found /\ UNCHANGED until
     \/ Go("peer") /\ until' = now + Cap(now) /\ UNCHANGED dialling
  /\ UNCHANGED <<program, now, aborted, knownAt, cache, open>>

(* The outer catch: throw signal.reason, or another round. *)
PeerFails == IF aborted THEN Settle("aborted") /\ UNCHANGED until
             ELSE Go("pause") /\ until' = now + Pause

Peer ==
  /\ at = "peer"
  /\ \/ ~aborted /\ Found /\ UNCHANGED until
     \/ PeerFails /\ UNCHANGED dialling
  /\ UNCHANGED <<program, now, aborted, knownAt, cache, open>>

(* The sleep is over, or the signal rejects it. *)
Wake ==
  /\ at = "pause"
  /\ \/ now = until /\ Go("check")
     \/ aborted /\ Settle("aborted")
  /\ UNCHANGED <<program, clock, aborted, knownAt, cache, dials>>

(* The waits of both queries and of the pause get the signal: none goes on *)
(* when it is aborted, or behind its deadline.                             *)
Tick ==
  /\ at \in {"providers", "peer", "pause"} /\ now < until
  /\ ~aborted
  /\ now' = now + 1
  /\ UNCHANGED <<program, at, until, aborted, knownAt, cache, dials, result>>

(* mDNS, pubsub or an incoming connection tells the peer's address. *)
Learn ==
  /\ at \in Search /\ ~Known
  /\ knownAt' = now
  /\ UNCHANGED <<program, at, clock, aborted, cache, dials, result>>

(* Trystero wins the race, or runClient ends. *)
Abort ==
  /\ program = "client" /\ ~aborted /\ at # "done"
  /\ aborted' = TRUE
  /\ UNCHANGED <<program, at, clock, knownAt, cache, dials, result>>
-----------------------------------------------------------------------------
(* connect() of the worker: the relay the user gave, else the cached route *)
(* if it is not too old, else the search.                                  *)
Start ==
  /\ at = "start"
  /\ \/ \E r \in Routes : dialling' = {r} /\ Go("dialRelay")
     \/ cache # "none" /\ dialling' = {cache} /\ Go("dialCached")
     \/ Go("config") /\ UNCHANGED dialling
  /\ UNCHANGED <<program, clock, aborted, knownAt, cache, open>>

(* loadNetworkConfig never fails; delegatedAddresses returns what the      *)
(* endpoints that answered know, and only if it is nothing the DHT is      *)
(* asked.                                                                  *)
Config ==
  /\ at = "config"
  /\ \/ Found
     \/ Go("check") /\ UNCHANGED dialling
  /\ UNCHANGED <<program, clock, aborted, knownAt, cache, open>>

(* dialProtocol of one candidate settles. *)
Attempt(r) ==
  /\ r \in dialling /\ at \in Dial
  /\ dialling' = dialling \ {r}
  /\ open' \in {open, open \cup {r}}
  /\ UNCHANGED <<program, at, clock, aborted, knownAt, cache, result>>

(* Mutant: the losers go on dialling. *)
Unharmed == dialling

(* controller.abort() of every attempt but the winner's *)
Losers == {}

(* Promise.any: the others are aborted.  A route the user gave is not      *)
(* cached; the winner of the others is, before connect() returns.          *)
Chosen(r) ==
  /\ r \in open /\ at \in Dial
  /\ dialling' = Losers
  /\ result' = r
  /\ at' = IF at = "dialRelay" THEN "done" ELSE "cacheIt"
  /\ UNCHANGED <<program, clock, aborted, knownAt, cache, open>>

(* Mutant: a cached route that does not answer is tried again. *)
RouteIsTriedAgain ==
  IF at = "dialCached" THEN Go("start") ELSE Settle("failed")

(* catch { postLog("Сохранённый маршрут устарел") } *)
RouteIsStale == IF at = "dialCached" THEN Go("config") ELSE Settle("failed")

AllRejected ==
  /\ at \in Dial /\ dialling = {} /\ open = {}
  /\ RouteIsStale
  /\ UNCHANGED <<program, clock, aborted, knownAt, cache, dials>>

(* IndexedDB may refuse: the error is dropped. *)
CacheIt ==
  /\ at = "cacheIt"
  /\ cache' \in {cache, result}
  /\ at' = "done"
  /\ UNCHANGED <<program, clock, aborted, knownAt, dials, result>>
-----------------------------------------------------------------------------
Runtime == \/ Check \/ Providers \/ Peer \/ Wake \/ Tick
           \/ Start \/ Config \/ AllRejected \/ CacheIt
           \/ \E r \in Routes : Attempt(r) \/ Chosen(r)

Next == Runtime \/ Learn \/ Abort

Spec == Init /\ [][Next]_vars

(* A query settles by its deadline, a dial by its timeout. *)
FairSpec == Spec /\ WF_vars(Runtime)
-----------------------------------------------------------------------------
(* A search that begins with a moment left still makes a whole round: it   *)
(* ends at most one shortest query and one pause behind its timeout.       *)
InTime == now <= Timeout + 1 + Pause

(* resolveTarget and connect() always settle, whatever fails and however   *)
(* often: a query, every endpoint, the cached route, every dial.           *)
SearchEnds == <>(at = "done")

(* The search gives up on a peer only if it became known in the last round *)
(* (two queries and a pause) before the timeout: what mDNS or pubsub tell  *)
(* while the DHT is silent is not missed.                                  *)
NotMissed ==
  result = "notFound" => knownAt + 2 * QueryCap + Pause >= Timeout

(* When connect() of the worker has settled, nothing is dialled any more,  *)
(* the route it reports has a stream, and it does not fail while one it    *)
(* opened is left.                                                         *)
DialsAreSettled ==
  at = "done" => /\ dialling = {}
                 /\ result \in Routes => result \in open
                 /\ result \notin Routes => open = {}

=============================================================================
