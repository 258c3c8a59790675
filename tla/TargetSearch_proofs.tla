------------------------- MODULE TargetSearch_proofs -------------------------
(***************************************************************************)
(* The search of a target keeps its deadline and misses nothing, for all   *)
(* timeouts, and connect() of the worker settles its dials, for every set  *)
(* of routes.  Neither goes round for ever.                                *)
(***************************************************************************)
EXTENDS TargetSearch, TLAPS

USE TimesAssumption, RoutesAssumption

LEMMA Steps ==
  ASSUME [Next]_vars
  PROVE  \/ Check \/ Providers \/ Peer \/ Wake \/ Tick
         \/ Start \/ Config \/ AllRejected \/ CacheIt
         \/ \E r \in Routes : Attempt(r) \/ Chosen(r)
         \/ Learn \/ Abort
         \/ UNCHANGED vars
BY DEF Next, Runtime

(* A query takes no longer than is left, unless only a moment is.          *)
LEMMA CapBounds ==
  ASSUME NEW t \in Nat
  PROVE  /\ Cap(t) \in Nat
         /\ Cap(t) <= QueryCap
         /\ t < Timeout => t + Cap(t) <= Timeout
         /\ t >= Timeout => Cap(t) <= 1
<1>1. ASSUME NEW a \in Nat, NEW b \in Nat
      PROVE  /\ Max({a, b}) = IF a >= b THEN a ELSE b
             /\ Min({a, b}) = IF a >= b THEN b ELSE a
  BY DEF Max, Min
<1>2. CASE t < Timeout
  <2>1. Timeout - t \in Nat /\ Timeout - t >= 1
    BY <1>2
  <2>2. Max({1, Timeout - t}) = Timeout - t
    BY <1>1, <2>1
  <2>3. Cap(t) = Min({QueryCap, Timeout - t})
    BY <1>2, <2>2 DEF Cap
  <2>4. QueryCap \in Nat /\ QueryCap >= 1
    OBVIOUS
  <2>5. Cap(t) = IF QueryCap >= Timeout - t THEN Timeout - t ELSE QueryCap
    BY <1>1, <2>1, <2>3, <2>4
  <2> QED
    BY <1>2, <2>1, <2>4, <2>5
<1>3. CASE t >= Timeout
  <2>1. Max({1, 0}) = 1
    BY <1>1
  <2>2. Cap(t) = Min({QueryCap, 1})
    BY <1>3, <2>1 DEF Cap
  <2> QED
    BY <1>1, <1>3, <2>2
<1> QED
  BY <1>2, <1>3
-----------------------------------------------------------------------------
(* Nothing is dialled before there is a route and after one was chosen.    *)
Dials ==
  /\ at \in Search \cup {"start", "config", "cacheIt", "done"} =>
       dialling = {}
  /\ at \in Search \cup {"start", "config"} => open = {}
  /\ at \notin {"cacheIt", "done"} => result = "none"
  /\ at = "cacheIt" => result \in Routes
  /\ at \in {"cacheIt", "done"} =>
       /\ result \in Routes => result \in open
       /\ result \notin Routes => open = {}

DialInv == TypeOK /\ Dials

LEMMA DialInit == Init => DialInv
<1> SUFFICES ASSUME Init PROVE DialInv
  OBVIOUS
<1>1. at \in {"check", "start"} /\ dialling = {} /\ open = {}
  BY DEF Init
<1>2. knownAt \in Nat
  BY DEF Init, Never
<1>5. now = 0 /\ until = 0 /\ aborted \in BOOLEAN
  BY DEF Init
<1>3. result = "none" /\ program \in {"client", "worker"}
  BY DEF Init
<1>4. cache \in Routes \cup {"none"}
  BY DEF Init
<1> QED
  BY <1>1, <1>2, <1>3, <1>4, <1>5
     DEF DialInv, Dials, TypeOK, Phases, Search, Dial

LEMMA FoundIs ==
  ASSUME DialInv, Found, at \in Search \cup {"config"}
  PROVE  /\ at' \in {"done", "dial"}
         /\ at' = "done" => result' = "found" /\ dialling' = dialling
         /\ at' = "dial" => result' = result
         /\ dialling' \subseteq Routes
BY DEF Found, Settle, Go, DialInv, TypeOK

LEMMA DialStep ==
  ASSUME DialInv, [Next]_vars
  PROVE  DialInv'
<1>0. TypeOK /\ Dials
  BY DEF DialInv
<1> USE <1>0 DEF TypeOK, Dials, DialInv, Phases, Search, Dial, Settle, Go
<1>1. CASE Check
  BY <1>1, CapBounds, FoundIs DEF Check, GivesUp
<1>2. CASE Providers
  BY <1>2, CapBounds, FoundIs DEF Providers
<1>3. CASE Peer
  BY <1>3, FoundIs DEF Peer, PeerFails
<1>4. CASE Wake
  BY <1>4 DEF Wake, clock, dials
<1>5. CASE Tick
  BY <1>5 DEF Tick, dials
<1>6. CASE Start
  BY <1>6 DEF Start, clock
<1>7. CASE Config
  BY <1>7, FoundIs DEF Config, clock
<1>8. CASE AllRejected
  BY <1>8 DEF AllRejected, RouteIsStale, clock, dials
<1>9. CASE CacheIt
  BY <1>9 DEF CacheIt, clock, dials
<1>10. ASSUME NEW r \in Routes, Attempt(r) PROVE DialInv'
  BY <1>10 DEF Attempt, clock
<1>11. ASSUME NEW r \in Routes, Chosen(r) PROVE DialInv'
  BY <1>11 DEF Chosen, Losers, clock
<1>12. CASE Learn
  BY <1>12 DEF Learn, clock, dials
<1>13. CASE Abort
  BY <1>13 DEF Abort, clock, dials
<1>14. CASE UNCHANGED vars
  BY <1>14 DEF vars, clock, dials
<1> QED
  BY Steps, <1>1, <1>2, <1>3, <1>4, <1>5, <1>6, <1>7, <1>8, <1>9, <1>10,
     <1>11, <1>12, <1>13, <1>14

LEMMA DialAlways == Spec => []DialInv
BY DialInit, DialStep, PTL DEF Spec

(* Every reachable state of the search and of connect() is well typed.     *)
THEOREM TypeCorrect == Spec => []TypeOK
<1>1. DialInv => TypeOK
  BY DEF DialInv
<1> QED
  BY <1>1, DialAlways, PTL

(* When connect() has settled, nothing is dialled, its route has a stream, *)
(* and a failure leaves none.                                              *)
THEOREM SettlesDials == Spec => []DialsAreSettled
<1>1. DialInv => DialsAreSettled
  BY DEF DialInv, Dials, DialsAreSettled
<1> QED
  BY <1>1, DialAlways, PTL
-----------------------------------------------------------------------------
(* How far ahead each wait may reach, of now and of the timeout.           *)
TimeInv ==
  /\ now <= Timeout + 1 + Pause
  /\ at \in {"providers", "peer", "pause"} => now <= until
  /\ at = "providers" => until <= Timeout
  /\ at = "peer" => until <= Timeout + 1
  /\ at = "pause" => until <= Timeout + 1 + Pause

LEMMA TimeInit == Init => TimeInv
BY DEF Init, TimeInv

LEMMA TimeStep ==
  ASSUME TypeOK, TimeInv, [Next]_vars
  PROVE  TimeInv'
<1>0. now \in Nat /\ until \in Nat
  BY DEF TypeOK
<1> USE <1>0 DEF TimeInv, Settle, Go
<1>1. CASE Check
  BY <1>1, CapBounds DEF Check, GivesUp, Found
<1>2. CASE Providers
  BY <1>2, CapBounds DEF Providers, Found
<1>3. CASE Peer
  BY <1>3 DEF Peer, PeerFails, Found
<1>4. CASE Wake
  BY <1>4 DEF Wake, clock, dials
<1>5. CASE Tick
  BY <1>5 DEF Tick, dials
<1>6. CASE Start
  BY <1>6 DEF Start, clock
<1>7. CASE Config
  BY <1>7 DEF Config, Found, clock
<1>8. CASE AllRejected
  BY <1>8 DEF AllRejected, RouteIsStale, clock, dials
<1>9. CASE CacheIt
  BY <1>9 DEF CacheIt, clock, dials
<1>10. ASSUME NEW r \in Routes, Attempt(r) \/ Chosen(r) PROVE TimeInv'
  BY <1>10 DEF Attempt, Chosen, clock
<1>11. CASE Learn \/ Abort
  BY <1>11 DEF Learn, Abort, clock, dials
<1>12. CASE UNCHANGED vars
  BY <1>12 DEF vars, clock, dials
<1> QED
  BY Steps, <1>1, <1>2, <1>3, <1>4, <1>5, <1>6, <1>7, <1>8, <1>9, <1>10,
     <1>11, <1>12

(* The search is over one shortest query and one pause behind its timeout, *)
(* whatever the timeout, the cap of a query and the pause are.             *)
THEOREM EndsInTime == Spec => []InTime
<1>1. DialInv /\ TimeInv /\ [Next]_vars => (DialInv /\ TimeInv)'
  BY DialStep, TimeStep DEF DialInv
<1>2. TimeInv => InTime
  BY DEF TimeInv, InTime
<1> QED
  BY <1>1, <1>2, DialInit, TimeInit, PTL DEF Spec
-----------------------------------------------------------------------------
(* How long ago the peer store was last asked: at most the queries and the *)
(* pause that lie between.                                                 *)
KnownInv ==
  /\ at = "check" => knownAt + 2 * QueryCap + Pause >= now
  /\ at = "providers" => until <= knownAt + QueryCap /\ until <= now + QueryCap
  /\ at = "peer" => /\ until <= knownAt + 2 * QueryCap
                    /\ until <= now + QueryCap
  /\ at = "pause" => /\ until <= knownAt + 2 * QueryCap + Pause
                     /\ until <= now + Pause
  /\ at \in {"start", "config"} => now = 0
  /\ at = "dialCached" => now = 0
  /\ NotMissed

LEMMA KnownInit == Init => KnownInv
BY DEF Init, KnownInv, NotMissed, Never

LEMMA KnownStep ==
  ASSUME DialInv, TimeInv, KnownInv, [Next]_vars
  PROVE  KnownInv'
<1>0. now \in Nat /\ until \in Nat /\ knownAt \in Nat
  BY DEF DialInv, TypeOK
<1>t. result = "notFound" => at = "done"
  BY DEF DialInv, Dials
<1> USE <1>0, <1>t DEF KnownInv, NotMissed, Settle, Go
<1>1. CASE Check
  BY <1>1, CapBounds DEF Check, GivesUp, Found, Known
<1>2. CASE Providers
  BY <1>2, CapBounds DEF Providers, Found, TimeInv
<1>3. CASE Peer
  BY <1>3 DEF Peer, PeerFails, Found, TimeInv
<1>4. CASE Wake
  BY <1>4 DEF Wake, clock, dials
<1>5. CASE Tick
  BY <1>5 DEF Tick, dials
<1>6. CASE Start
  BY <1>6 DEF Start, clock
<1>7. CASE Config
  BY <1>7 DEF Config, Found, clock
<1>8. CASE AllRejected
  BY <1>8 DEF AllRejected, RouteIsStale, clock, dials
<1>9. CASE CacheIt
  BY <1>9 DEF CacheIt, clock, dials
<1>10. ASSUME NEW r \in Routes, Attempt(r) \/ Chosen(r) PROVE KnownInv'
  BY <1>10 DEF Attempt, Chosen, clock, Dial
<1>11. CASE Learn
  BY <1>11 DEF Learn, Known, clock, dials, TimeInv, Search
<1>12. CASE Abort
  BY <1>12 DEF Abort, clock, dials
<1>13. CASE UNCHANGED vars
  BY <1>13 DEF vars, clock, dials
<1> QED
  BY Steps, <1>1, <1>2, <1>3, <1>4, <1>5, <1>6, <1>7, <1>8, <1>9, <1>10,
     <1>11, <1>12, <1>13

(* A peer that became known before the last round of the search is found.  *)
THEOREM MissesNothing == Spec => []NotMissed
<1>1. DialInv /\ TimeInv /\ KnownInv /\ [Next]_vars
        => (DialInv /\ TimeInv /\ KnownInv)'
  BY DialStep, TimeStep, KnownStep DEF DialInv
<1>2. KnownInv => NotMissed
  BY DEF KnownInv
<1> QED
  BY <1>1, <1>2, DialInit, TimeInit, KnownInit, PTL DEF Spec
-----------------------------------------------------------------------------
(* What the program has left to do.  A round of the search lasts at least  *)
(* as long as its pause; so the moments that are left weigh more than the  *)
(* steps of a round, and in a pause the next round counts already.         *)
Moments(t) == 5 * ((Timeout + 1 + Pause) - t)

Left ==
  CASE at = "start"      -> Moments(now) + 8
    [] at = "dialCached" -> Moments(now) + 7
    [] at = "config"     -> Moments(now) + 6
    [] at = "check"      -> Moments(now) + 5
    [] at = "providers"  -> Moments(now) + 4
    [] at = "peer"       -> Moments(now) + 3
    [] at = "pause"      -> Moments(until) + 6 + (until - now)
    [] at \in {"dialRelay", "dial"} -> 2
    [] at = "cacheIt"    -> 1
    [] OTHER             -> 0

(* Each step of Runtime takes something from it, or one of the attempts    *)
(* that run at a time; and no step gives it more.                          *)
ComesToItsEnd ==
  [][/\ Left \in Nat
     /\ Left' <= Left
     /\ Runtime => \/ Left' < Left
                   \/ /\ Left' = Left
                      /\ dialling' # dialling /\ dialling' \subseteq dialling]_vars

LEMMA LeftIsNat ==
  ASSUME TypeOK, TimeInv
  PROVE  /\ Left \in Nat
         /\ Moments(now) \in Nat
         /\ at \in {"start", "config", "check", "providers", "peer", "pause",
                    "dialCached"} => Left > 2
<1>1. /\ now \in Nat /\ until \in Nat /\ now <= Timeout + 1 + Pause
      /\ at = "pause" => now <= until /\ until <= Timeout + 1 + Pause
  BY DEF TypeOK, TimeInv
<1>2. Moments(now) \in Nat
  BY <1>1 DEF Moments
<1>3. CASE at = "pause"
  <2>1. Moments(until) \in Nat /\ until - now \in Nat
    BY <1>1, <1>3 DEF Moments
  <2>2. Left = Moments(until) + 6 + (until - now)
    BY <1>3 DEF Left
  <2> QED BY <1>2, <1>3, <2>1, <2>2
<1>4. CASE at # "pause"
  BY <1>2, <1>4 DEF Left
<1> QED BY <1>3, <1>4

(* What each step of Runtime takes. *)
LEMMA EachTakes ==
  ASSUME DialInv, TimeInv, Runtime
  PROVE  \/ Left' < Left
         \/ /\ Left' = Left
            /\ dialling' # dialling /\ dialling' \subseteq dialling
<1>0. /\ TypeOK /\ now \in Nat /\ until \in Nat /\ Moments(now) \in Nat
      /\ Left \in Nat
      /\ at \in {"start", "config", "check", "providers", "peer", "pause",
                 "dialCached"} => Left > 2
  BY LeftIsNat DEF DialInv, TypeOK
<1>a. at' \in {"done", "cacheIt", "dial", "dialRelay"} => Left' <= 2
  BY DEF Left
<1> USE DEF Settle, Go
<1>1. CASE Check
  <2>1. at = "check" /\ now' = now /\ at' \in {"done", "dial", "providers"}
    BY <1>1 DEF Check, GivesUp, Found
  <2>2. CASE at' = "providers"
    <3>1. Left = Moments(now) + 5 /\ Left' = Moments(now) + 4
      BY <2>1, <2>2 DEF Left
    <3> QED BY <1>0, <3>1
  <2>3. CASE at' # "providers"
    <3>1. Left > 2 /\ Left' <= 2 /\ Left' \in Nat
      BY <1>0, <1>a, <2>1, <2>3 DEF Left
    <3> QED BY <1>0, <3>1
  <2> QED BY <2>2, <2>3
<1>2. CASE Providers
  <2>1. at = "providers" /\ now' = now /\ at' \in {"done", "dial", "peer"}
    BY <1>2 DEF Providers, Found
  <2>2. CASE at' = "peer"
    <3>1. Left = Moments(now) + 4 /\ Left' = Moments(now) + 3
      BY <2>1, <2>2 DEF Left
    <3> QED BY <1>0, <3>1
  <2>3. CASE at' # "peer"
    <3>1. Left > 2 /\ Left' <= 2 /\ Left' \in Nat
      BY <1>0, <1>a, <2>1, <2>3 DEF Left
    <3> QED BY <1>0, <3>1
  <2> QED BY <2>2, <2>3
<1>3. CASE Peer
  <2>1. /\ at = "peer" /\ now' = now /\ at' \in {"done", "dial", "pause"}
        /\ at' = "pause" => until' = now + Pause
    BY <1>3 DEF Peer, Found, PeerFails
  <2>2. CASE at' = "pause"
    <3>1. Left = Moments(now) + 3
      BY <2>1 DEF Left
    <3>2. Left' = Moments(until') + 6 + (until' - now)
      BY <2>1, <2>2 DEF Left
    <3>3. Moments(until') = Moments(now) - 5 * Pause /\ until' - now = Pause
      BY <1>0, <2>1, <2>2 DEF Moments
    <3> QED BY <1>0, <3>1, <3>2, <3>3
  <2>3. CASE at' # "pause"
    <3>1. Left > 2 /\ Left' <= 2 /\ Left' \in Nat
      BY <1>0, <1>a, <2>1, <2>3 DEF Left
    <3> QED BY <1>0, <3>1
  <2> QED BY <2>2, <2>3
<1>4. CASE Wake
  <2>1. CASE now = until /\ at' = "check"
    <3>1. Left = Moments(now) + 6 + (until - now) /\ Left' = Moments(now) + 5
      BY <1>4, <2>1 DEF Wake, Left, clock
    <3> QED BY <1>0, <2>1, <3>1
  <2>2. CASE at' = "done"
    <3>1. Left > 2 /\ Left' <= 2 /\ Left' \in Nat
      BY <1>0, <1>4, <1>a, <2>2 DEF Wake, Left
    <3> QED BY <1>0, <3>1
  <2> QED BY <1>4, <2>1, <2>2 DEF Wake
<1>5. CASE Tick
  <2>1. /\ at \in {"providers", "peer", "pause"} /\ at' = at
        /\ now' = now + 1 /\ until' = until
    BY <1>5 DEF Tick
  <2>2. Moments(now') = Moments(now) - 5
    BY <1>0, <2>1 DEF Moments
  <2>3. CASE at = "pause"
    <3>1. /\ Left = Moments(until) + 6 + (until - now)
          /\ Left' = Moments(until) + 6 + (until - (now + 1))
      BY <2>1, <2>3 DEF Left
    <3>2. Moments(until) \in Int
      BY <1>0 DEF Moments
    <3> QED BY <1>0, <3>1, <3>2
  <2>4. CASE at # "pause"
    <3>1. PICK k \in {3, 4} : /\ Left = Moments(now) + k
                              /\ Left' = Moments(now') + k
      BY <2>1, <2>4 DEF Left
    <3> QED BY <1>0, <2>2, <3>1
  <2> QED BY <2>3, <2>4
<1>6. CASE Start
  <2>1. /\ at = "start" /\ now' = now
        /\ at' \in {"dialRelay", "dialCached", "config"}
    BY <1>6 DEF Start, clock
  <2>2. Left = Moments(now) + 8
    BY <2>1 DEF Left
  <2>3. Left' \in {2, Moments(now) + 7, Moments(now) + 6}
    BY <2>1 DEF Left
  <2> QED BY <1>0, <2>2, <2>3
<1>7. CASE Config
  <2>1. at = "config" /\ now' = now /\ at' \in {"done", "dial", "check"}
    BY <1>7 DEF Config, Found, clock
  <2>2. Left = Moments(now) + 6
    BY <2>1 DEF Left
  <2>3. Left' \in {0, 2, Moments(now) + 5}
    BY <2>1 DEF Left
  <2> QED BY <1>0, <2>2, <2>3
<1>8. CASE AllRejected
  <2>1. /\ at \in Dial /\ now' = now
        /\ at' = IF at = "dialCached" THEN "config" ELSE "done"
    BY <1>8 DEF AllRejected, RouteIsStale, clock
  <2>2. CASE at = "dialCached"
    <3>1. Left = Moments(now) + 7 /\ Left' = Moments(now) + 6
      BY <2>1, <2>2 DEF Left
    <3> QED BY <1>0, <3>1
  <2>3. CASE at # "dialCached"
    <3>1. Left = 2 /\ Left' = 0
      BY <2>1, <2>3 DEF Left, Dial
    <3> QED BY <3>1
  <2> QED BY <2>2, <2>3
<1>9. CASE CacheIt
  <2>1. Left = 1 /\ Left' = 0
    BY <1>9 DEF CacheIt, Left
  <2> QED BY <2>1
<1>10. ASSUME NEW r \in Routes, Attempt(r)
       PROVE  /\ Left' = Left
              /\ dialling' # dialling /\ dialling' \subseteq dialling
  <2>1. UNCHANGED <<at, now, until>>
    BY <1>10 DEF Attempt, clock
  <2>2. Left' = Left
    BY <2>1 DEF Left
  <2> QED BY <1>10, <2>2 DEF Attempt
<1>11. ASSUME NEW r \in Routes, Chosen(r) PROVE Left' < Left
  <2>1. /\ at \in Dial
        /\ at' = IF at = "dialRelay" THEN "done" ELSE "cacheIt"
    BY <1>11 DEF Chosen
  <2>2. Left >= 2
    BY <1>0, <2>1 DEF Left, Dial
  <2>3. Left' \in {0, 1}
    BY <2>1 DEF Left
  <2> QED BY <1>0, <2>2, <2>3
<1> QED
  BY <1>1, <1>2, <1>3, <1>4, <1>5, <1>6, <1>7, <1>8, <1>9, <1>10, <1>11
     DEF Runtime

(* The search ends: no round, no pause and no attempt leads back to where  *)
(* it was, whatever fails; and neither does a peer that becomes known or   *)
(* an abort.                                                               *)
THEOREM SearchRunsOut == Spec => ComesToItsEnd
<1>1. DialInv /\ TimeInv /\ DialInv' /\ TimeInv' /\ [Next]_vars =>
        [/\ Left \in Nat
         /\ Left' <= Left
         /\ Runtime => \/ Left' < Left
                       \/ /\ Left' = Left
                          /\ dialling' # dialling
                          /\ dialling' \subseteq dialling]_vars
  <2> SUFFICES ASSUME DialInv, TimeInv, DialInv', TimeInv', [Next]_vars
               PROVE  /\ Left \in Nat
                      /\ Left' <= Left
                      /\ Runtime => \/ Left' < Left
                                    \/ /\ Left' = Left
                                       /\ dialling' # dialling
                                       /\ dialling' \subseteq dialling
    OBVIOUS
  <2>1. TypeOK /\ TypeOK'
    BY DEF DialInv
  <2>2. Left \in Nat
    BY <2>1, LeftIsNat
  <2>3. Left' \in Int
    <3>1. now' \in Nat /\ until' \in Nat
      BY <2>1 DEF TypeOK
    <3>2. Moments(now') \in Int /\ Moments(until') \in Int
      BY <3>1 DEF Moments
    <3> QED BY <3>1, <3>2 DEF Left
  <2>4. CASE Runtime
    BY <2>1, <2>2, <2>3, <2>4, EachTakes
  <2>5. CASE Learn \/ Abort \/ UNCHANGED vars
    <3>1. UNCHANGED <<at, now, until>>
      BY <2>5 DEF Learn, Abort, vars, clock
    <3>2. Left' = Left
      BY <3>1 DEF Left
    <3> QED BY <2>2, <2>4, <3>2
  <2> QED BY <2>4, <2>5 DEF Next
<1>2. DialInv /\ TimeInv /\ [Next]_vars => (DialInv /\ TimeInv)'
  BY DialStep, TimeStep DEF DialInv
<1> QED
  BY <1>1, <1>2, DialInit, TimeInit, PTL DEF Spec, ComesToItsEnd
=============================================================================
