---------------------------- MODULE CommandLine ----------------------------
(***************************************************************************)
(* What p2p-nc makes of its command line: the checks of createProgram and  *)
(* nodeOptionsFrom in src/cli.js, torRequested of src/tor.js and the node  *)
(* that createP2PNode of src/node.js builds, also for the commands "relay" *)
(* (src/relay.js) and "id".                                                *)
(*                                                                         *)
(* A command line is a record: the command or, without one, the side that  *)
(* -l chooses; the other options as a set of flags; what --relay names;    *)
(* and how -T is written.                                                  *)
(***************************************************************************)
EXTENDS FiniteSets, FiniteSetsExt

Flags == {"keepOpen", "destination", "port", "socks", "interactive", "zero",
          "exec", "udp", "ipv4", "ipv6", "identity",
          "bootstrap", "noDht", "noMdns", "noPubsub", "noQuic", "noWebrtc",
          "multiaddr"}      \* the target is no PeerId but an address

(* Flags both p2p-nc and "p2p-nc relay" know. *)
RelayFlags == {"ipv4", "ipv6", "identity", "noMdns", "noPubsub", "noQuic"}

(* "plain": --tor, -T or a group like -Tq.  "hyphen": the last of a group  *)
(* with a value that holds a hyphen, as -TI/tmp/my-key.  "value": no -T,   *)
(* but a T in the value that ends a group, as -qI/tmp/Token.               *)
Spellings == {"no", "plain", "hyphen", "value"}

Argv == [command : {"listener", "client", "relay", "id"},
         flags : SUBSET Flags, relays : {"none", "tcp", "udp"},
         tor : Spellings]

(* Those with at most max flags. *)
UpTo(max, S) == UNION {kSubset(k, S) : k \in 0..max}

CommandLines(max) ==
  UNION {[command : {"listener", "client"}, flags : UpTo(max, Flags),
          relays : {"none", "tcp", "udp"}, tor : Spellings],
         [command : {"relay"}, flags : UpTo(max, RelayFlags),
          relays : {"none"}, tor : {"no"}],
         [command : {"id"}, flags : UpTo(max, {"identity"}),
          relays : {"none"}, tor : {"no"}]}
-----------------------------------------------------------------------------
(* The two readers of the arguments: commander, and torRequested.  The     *)
(* latter takes an argument with a second hyphen for a long option.        *)
Tor(a) == a.tor \in {"plain", "hyphen"}

TorRequested(a) == a.tor \in {"plain", "value"}

Has(a, flag) == flag \in a.flags

(* Mutant: with -T any relay will do. *)
TorRefusedToListeners(a) == Tor(a) /\ a.command = "listener"

(* -T asks for a client and for a relay that TCP reaches. *)
TorRefused(a) == Tor(a) /\ (a.command = "listener" \/ a.relays # "tcp")

TwoFamilies(a) == Has(a, "ipv4") /\ Has(a, "ipv6")

(* The checks before anything is done, of the default command and of       *)
(* runRelay; an address is no logical port.                                *)
Refused(a) ==
  \/ a.command = "listener" /\ Has(a, "multiaddr")
  \/ a.command = "relay" /\ TwoFamilies(a)
  \/ Has(a, "udp")
  \/ a.command = "client" /\ Has(a, "exec")
  \/ a.command = "client" /\ Has(a, "destination")
  \/ Has(a, "destination") /\ ~Has(a, "port")
  \/ a.command = "client" /\ Has(a, "socks")
  \/ Has(a, "socks") /\ (Has(a, "destination") \/ Has(a, "port"))
  \/ Has(a, "interactive") /\ (Has(a, "exec") \/ Has(a, "socks"))
  \/ /\ a.command = "client" /\ Has(a, "port")
     /\ (Has(a, "interactive") \/ Has(a, "zero"))
  \/ TorRefused(a)

(* nodeOptionsFrom: listener and client check this when they have a key. *)
NodeRefused(a) == a.command \in {"listener", "client"} /\ TwoFamilies(a)

(* persistentMode of runListener *)
Persistent(a) == \E f \in {"keepOpen", "interactive", "socks", "port"} :
                   Has(a, f)

(* advertiseTask *)
Advertises(a) == a.command = "listener" /\ ~Has(a, "noDht")

(* useTrystero of runClient; startTrysteroListener *)
UsesTrystero(a) ==
  /\ a.command \in {"client", "listener"} /\ ~Has(a, "noWebrtc")
  /\ a.command = "client" => /\ ~Tor(a) /\ a.relays = "none"
                             /\ ~Has(a, "port") /\ ~Has(a, "multiaddr")
-----------------------------------------------------------------------------
Unless(a, flag, option) == IF Has(a, flag) THEN {} ELSE {option}

(* Mutant: -T turns off listening and QUIC, the rest is up to the user. *)
OnWithTor(a) == Unless(a, "noMdns", "mdns") \cup Unless(a, "noPubsub", "pubsub")

On(a) == UNION {Unless(a, "noMdns", "mdns"), Unless(a, "noPubsub", "pubsub"),
                Unless(a, "noQuic", "quic"), {"listen"}}

TorOptions(a) == {}

(* The options nodeOptionsFrom, startRelay and printIdentity switch on. *)
Enabled(a) ==
  CASE a.command = "id" -> {"quic"}
    [] a.command = "relay" -> On(a) \cup {"websocket", "relayServer"}
    [] OTHER -> IF Tor(a) THEN TorOptions(a)
                ELSE UNION {On(a), Unless(a, "noDht", "dht"),
                            IF Has(a, "bootstrap") THEN {"bootstrap"}
                            ELSE Unless(a, "noDht", "bootstrap")}

Families(a) == {4, 6} \ ((IF Has(a, "ipv4") THEN {6} ELSE {})
                         \cup (IF Has(a, "ipv6") THEN {4} ELSE {}))

(* createP2PNode: where the node listens, how it finds others, and what it *)
(* runs.  A circuit is one of the relay named, or of any relay found.      *)
NodeFor(a) ==
  LET on == Enabled(a)
      Listening == IF "listen" \in on THEN (on \cap {"quic"}) \cup {"tcp"}
                                      ELSE {}
      Circuit == IF "relayServer" \in on THEN {}
                 ELSE IF a.relays # "none" THEN {<<"circuit", "named">>}
                 ELSE IF "listen" \in on THEN {<<"circuit", "any">>} ELSE {}
  IN [addresses |-> Circuit \cup
        (Listening \cup (on \cap {"websocket"})) \X Families(a),
      discovery |-> on \cap {"mdns", "bootstrap", "pubsub"},
      services |-> UNION {on \cap {"pubsub", "dht", "relayServer"},
                          IF "dht" \in on /\ a.command = "listener"
                            THEN {"dhtServer"} ELSE {}},
      transports |-> {"tcp", "websocket", "circuit"} \cup (on \cap {"quic"})]
=============================================================================
