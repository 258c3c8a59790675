------------------------------- MODULE Socks -------------------------------
(***************************************************************************)
(* p2p-nc -l -S: one stream of the persistent listener of src/cli.js and   *)
(* socksProxySession of src/forwarding.js, which reads a SOCKS request     *)
(* from it, connects to the target and bridges the two (Session has the    *)
(* inside of the bridge).                                                  *)
(*                                                                         *)
(* The client cuts what it sends into chunks as it likes and may send the  *)
(* payload before it has an answer.  A cell is the least it sends at once: *)
(* 0 is a cell of the request, 1..Payload are those of the payload.        *)
(***************************************************************************)
EXTENDS Naturals, Sequences, SequencesExt

CONSTANTS Payload,          \* bound: cells of payload the client sends
          Backlog           \* bound: chunks waiting in the stream

ASSUME BoundsAssumption == Payload \in Nat /\ Backlog \in Nat \ {0}

VARIABLES request,          \* what the client asks for, one of Requests
          sent,             \* cells the client has sent
          clientEnd,        \* "open", "ended" (EOF), "left", "gone" (reset)
          wire,             \* the chunks that wait in the stream
          buffer,           \* #buffer of the ByteReader
          at,               \* the read() calls of the negotiation that returned
          stage,            \* how far the session is
          waiting,          \* it waits in onDrain for an answer to go out
          replies,          \* history: what was sent to the client
          target,           \* the socket: "none", "open", "ended", "destroyed"
          got               \* history: the cells written to the socket

client == <<request, sent, clientEnd>>
input == <<wire, buffer, at>>
socksVars == <<client, input, stage, waiting, replies, target, got>>

(* SOCKS5, plain, without an acceptable method, with a command or address  *)
(* type that is not supported, malformed; SOCKS4(a), plain and with        *)
(* another command; another version.                                       *)
Requests == {"v5", "v5noMethod", "v5refused", "v5malformed",
             "v4", "v4refused", "other"}

(* The cells each read() of the negotiation takes.  SOCKS5: the version,   *)
(* the methods, the request, the address with its port.  SOCKS4: the       *)
(* version, the request with the user's name, the host of SOCKS4a.         *)
Reads(r) == CASE r \in {"v5", "v5noMethod", "v5refused", "v5malformed"} ->
                   <<1, 2, 1, 2>>
              [] r \in {"v4", "v4refused"} -> <<1, 2, 1>>
              [] OTHER -> <<1>>

HeaderLength(r) == CASE Len(Reads(r)) = 4 -> 6
                     [] Len(Reads(r)) = 3 -> 4
                     [] OTHER -> 1

ASSUME HeaderLengthAssumption ==
  \A r \in Requests :
    HeaderLength(r) = FoldLeft(LAMBDA a, b : a + b, 0, Reads(r))

Script(r) == [i \in 1..(HeaderLength(r) + Payload) |->
                IF i <= HeaderLength(r) THEN 0 ELSE i - HeaderLength(r)]

Running == {"negotiating", "connecting", "refusing", "granting", "bridging"}
Over == {"resolved", "failed"}

SocksTypeOK ==
          /\ request \in Requests
          /\ sent \in Nat
          /\ clientEnd \in {"open", "ended", "left", "gone"}
          /\ wire \in Seq(Seq(Nat))
          /\ buffer \in Seq(Nat)
          /\ at \in 0..4
          /\ stage \in Running \cup Over \cup {"crashed"}
          /\ waiting \in BOOLEAN
          /\ target \in {"none", "open", "ended", "destroyed"}
          /\ got \in Seq(Nat)

SocksInit ==
        /\ request \in Requests
        /\ sent = 0
        /\ clientEnd = "open"
        /\ wire = << >>
        /\ buffer = << >>
        /\ at = 0
        /\ stage = "negotiating"
        /\ waiting = FALSE
        /\ replies = << >>
        /\ target = "none"
        /\ got = << >>
-----------------------------------------------------------------------------
(* The client. *)

ClientSends(n) ==
  /\ clientEnd = "open"
  /\ Len(wire) < Backlog
  /\ sent + n <= Len(Script(request))
  /\ sent' = sent + n
  /\ wire' = Append(wire, SubSeq(Script(request), sent + 1, sent + n))
  /\ UNCHANGED <<request, clientEnd, buffer, at, stage, waiting, replies,
                 target, got>>

(* It ends its side, its peer leaves the Trystero room (the reader ends as *)
(* with EOF, but nothing can be sent) or the stream is reset (the reader   *)
(* fails, what waits in the stream may be lost).                           *)
ClientStops ==
  /\ \/ clientEnd = "open" /\ clientEnd' = "ended" /\ UNCHANGED wire
     \/ clientEnd \in {"open", "ended"} /\ clientEnd' = "left"
        /\ UNCHANGED wire
     \/ clientEnd \in {"open", "ended"} /\ clientEnd' = "gone"
        /\ wire' \in {wire, << >>}
  /\ UNCHANGED <<request, sent, buffer, at, stage, waiting, replies, target,
                 got>>

Writable == clientEnd \in {"open", "ended"}
-----------------------------------------------------------------------------
(* send(): the answer is queued, and it may have to wait for "drain".  A   *)
(* Trystero stream always has it wait, for the data channel to take it.    *)
Answer(what) == replies' = Append(replies, what) /\ waiting' \in BOOLEAN

Silent == UNCHANGED <<replies, waiting>>

(* onDrain() returns; it fails when nothing can be sent any more. *)
Drains ==
  /\ waiting /\ stage # "crashed"
  /\ waiting' = FALSE
  /\ stage' = IF ~Writable THEN "failed" ELSE stage
  /\ target' = IF ~Writable /\ target = "open" THEN "destroyed" ELSE target
  /\ UNCHANGED <<client, input, replies, got>>

Negotiating == stage = "negotiating" /\ ~waiting

Need == Reads(request)[at + 1]

(* Mutant: the buffer is put behind the chunk. *)
CombinedBackwards(chunk) == chunk \o buffer

(* ByteReader.read(): combined *)
Combined(chunk) == buffer \o chunk

Pull ==
  /\ Negotiating
  /\ Len(buffer) < Need
  /\ wire # << >>
  /\ buffer' = Combined(Head(wire))
  /\ wire' = Tail(wire)
  /\ UNCHANGED <<client, at, stage, waiting, replies, target, got>>

(* The stream ends or fails before the request is complete. *)
HandshakeCut ==
  /\ Negotiating
  /\ Len(buffer) < Need
  /\ wire = << >>
  /\ clientEnd # "open"
  /\ stage' = "failed"
  /\ UNCHANGED <<client, input, waiting, replies, target, got>>

(* Mutant: SOCKS4 takes every command for CONNECT. *)
RefusedByV5Only(n) == \/ request = "v5noMethod" /\ n = 2
                      \/ request = "v5refused" /\ n = 3

(* What follows the n-th read(): an answer and an error, an error only, or *)
(* the choice of the method; else the next read() or the connection.       *)
Refused(n) == \/ request = "v5noMethod" /\ n = 2
              \/ request = "v5refused" /\ n = 3
              \/ request = "v4refused" /\ n = 2

Rejected(n) == \/ request = "other"
               \/ request = "v5malformed" /\ n = 3

Chosen(n) == request \in {"v5", "v5refused", "v5malformed"} /\ n = 2

Read ==
  /\ Negotiating
  /\ Len(buffer) >= Need
  /\ at' = at + 1
  /\ buffer' = SubSeq(buffer, Need + 1, Len(buffer))
  /\ \/ /\ Rejected(at + 1)               \* an error, no answer
        /\ stage' = "failed"
        /\ Silent
     \/ /\ Refused(at + 1)                \* an answer, then an error
        /\ IF Writable THEN stage' = "refusing" /\ Answer("refused")
                       ELSE stage' = "failed" /\ Silent
     \/ /\ Chosen(at + 1)                 \* the method, and on
        /\ IF Writable THEN stage' = stage /\ Answer("method")
                       ELSE stage' = "failed" /\ Silent
     \/ /\ ~Rejected(at + 1) /\ ~Refused(at + 1) /\ ~Chosen(at + 1)
        /\ stage' = IF at + 1 = Len(Reads(request)) THEN "connecting"
                                                    ELSE stage
        /\ Silent
  /\ UNCHANGED <<client, wire, target, got>>
-----------------------------------------------------------------------------
(* connectTcp resolves; the answer is sent at once, if it can be. *)
Connected ==
  /\ stage = "connecting"
  /\ IF Writable THEN /\ stage' = "granting" /\ Answer("granted")
                      /\ target' = "open"
                 ELSE /\ stage' = "failed" /\ Silent
                      /\ target' = "destroyed"
  /\ UNCHANGED <<client, input, got>>

(* Mutant: a failure to connect is only logged. *)
RefusesNobody == stage' = "failed" /\ Silent

(* request.failure().catch(() => {}) *)
Fails ==
  IF Writable THEN stage' = "refusing" /\ Answer("failed")
              ELSE stage' = "failed" /\ Silent

(* It rejects: an error of the connection, or the timeout. *)
NotConnected ==
  /\ stage = "connecting"
  /\ Fails
  /\ UNCHANGED <<client, input, target, got>>

(* The error that follows an answer of refusal reaches handleIncoming,     *)
(* which logs it: the stream is neither closed nor aborted.                *)
RefusalSent ==
  /\ stage = "refusing" /\ ~waiting
  /\ stage' = "failed"
  /\ UNCHANGED <<client, input, waiting, replies, target, got>>

GrantSent ==
  /\ stage = "granting" /\ ~waiting
  /\ stage' = "bridging"
  /\ UNCHANGED <<client, input, waiting, replies, target, got>>
-----------------------------------------------------------------------------
(* remaining(): what the negotiation had read too much comes first. *)
Remaining == buffer

Forward ==
  /\ stage = "bridging" /\ target \in {"open", "ended"}
  /\ \/ /\ buffer # << >>
        /\ got' = got \o Remaining
        /\ buffer' = << >>
        /\ UNCHANGED wire
     \/ /\ buffer = << >> /\ wire # << >>
        /\ got' = got \o Head(wire)
        /\ wire' = Tail(wire)
        /\ UNCHANGED buffer
  /\ UNCHANGED <<client, at, stage, waiting, replies, target>>

(* The target sends something (one chunk is enough) or ends its side.      *)
TargetSends ==
  /\ stage = "bridging" /\ target = "open" /\ Writable
  /\ Last(replies) # "data"
  /\ replies' = Append(replies, "data")
  /\ UNCHANGED <<client, input, stage, waiting, target, got>>

TargetEnds ==
  /\ stage = "bridging" /\ target = "open" /\ Writable
  /\ target' = "ended"
  /\ UNCHANGED <<client, input, stage, waiting, replies, got>>

(* Nothing listens to the "error" of the socket between connectTcp and the *)
(* bridge: an error then is one nobody catches, and the process ends.      *)
TargetBreaks ==
  /\ target = "open"
  /\ stage \in {"granting", "bridging"}
  /\ stage' = IF stage = "granting" THEN "crashed" ELSE "failed"
  /\ target' = "destroyed"
  /\ UNCHANGED <<client, input, waiting, replies, got>>

(* Mutant: there is no finally. *)
SocketKept == target

(* The finally of socksProxySession *)
SocketDestroyed == "destroyed"

(* Both pumps are over, or one has failed: the reader of a stream that was *)
(* reset, the writer of one that takes nothing when the target speaks.     *)
BridgeEnds ==
  /\ stage = "bridging"
  /\ \/ /\ target = "ended"
        /\ buffer = << >> /\ wire = << >> /\ clientEnd \in {"ended", "left"}
        /\ stage' = "resolved"
     \/ /\ clientEnd = "gone" /\ buffer = << >> /\ wire = << >>
        /\ stage' = "failed"
  /\ target' = SocketDestroyed
  /\ UNCHANGED <<client, input, waiting, replies, got>>

TargetSpeaksToNobody ==
  /\ stage = "bridging" /\ target = "open" /\ ~Writable
  /\ stage' = "failed"
  /\ target' = SocketDestroyed
  /\ UNCHANGED <<client, input, waiting, replies, got>>
-----------------------------------------------------------------------------
(* What goes on by itself.  connectTcp settles within its timeout, and a   *)
(* stream the peer reads drains.                                           *)
Proxy == \/ Drains \/ Pull \/ HandshakeCut \/ Read \/ Connected
         \/ NotConnected \/ RefusalSent \/ GrantSent \/ Forward
         \/ BridgeEnds

Others == \/ \E n \in 1..Len(Script(request)) : ClientSends(n)
          \/ ClientStops
          \/ TargetSends \/ TargetEnds \/ TargetBreaks
          \/ TargetSpeaksToNobody

SocksNext == Proxy \/ Others

SocksSpec == SocksInit /\ [][SocksNext]_socksVars

SocksFairSpec == SocksSpec /\ WF_socksVars(Proxy)
-----------------------------------------------------------------------------
(* However the request and the payload are cut into chunks, and however    *)
(* early the payload comes: the target gets the payload from its start, in *)
(* order and without a gap, nothing of the request in it; and all that was *)
(* sent when the bridge is done.                                           *)
PayloadIsWhole ==
  /\ IsPrefix(got, [i \in 1..Payload |-> i])
  /\ stage = "resolved" => Len(got) = sent - HeaderLength(request)

(* The client can tell from the answers where it stands: the method comes  *)
(* first and once, only for SOCKS5, one verdict follows it, only a success *)
(* is followed by data, and success is told of a socket that was connected *)
(* and of a request that asked for it.                                     *)
Method == IF request \in {"v5", "v5refused", "v5malformed"}
          THEN <<"method">> ELSE << >>

AnswersFit ==
  \/ replies \in {<< >>, Method}
  \/ replies \in {Method \o <<"refused">>, Method \o <<"failed">>}
     /\ target = "none"
  \/ replies \in {Method \o <<"granted">>, Method \o <<"granted", "data">>}
     /\ request \in {"v4", "v5"} /\ target # "none"

(* A client that has sent all of a well-formed request is told what became *)
(* of it, unless the stream stops carrying answers.                        *)
Told == \E i \in DOMAIN replies :
          replies[i] \in {"refused", "failed", "granted"}

RequestIsAnswered ==
  sent >= HeaderLength(request) /\ request \notin {"other", "v5malformed"}
    ~> Told \/ ~Writable

(* The socket of a client whose stream was reset does not stay open, at    *)
(* whatever point of the session that happens, nor that of a session that  *)
(* is over.                                                                *)
SocketIsReleased ==
  clientEnd = "gone" \/ stage \in Over
    ~> target \in {"none", "destroyed"} /\ stage \notin Running

(* docs/ARCHITECTURE.md:69, "keep accepting sessions": the listener does   *)
(* not go down with the target of one session.                             *)
KeepsAccepting == stage # "crashed"
=============================================================================
