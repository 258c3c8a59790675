---------------------- MODULE TrysteroStreamInv_proofs ----------------------
(***************************************************************************)
(* TrysteroStream is well typed and keeps its inductive invariant, and     *)
(* what follows from it, for every number of chunks and whichever ends     *)
(* leave the room when their stream is finalized.  First how the channel   *)
(* predicates follow a channel that grows or shrinks by a message, then    *)
(* the types, then one lemma for each action, then the steps it may never  *)
(* take and that it implements DuplexStream, at last that its streams only *)
(* come to rest where nobody is stuck, and that they do.                   *)
(***************************************************************************)
EXTENDS TrysteroStreamInv, TLAPS

(* How the channel predicates of TrysteroStreamInv follow a channel that   *)
(* grows by a message or loses its head.                                   *)
LEMMA EmptyChannel ==
  /\ << >> \in Seq(Message)
  /\ AllData(<< >>)
  /\ EofLast(<< >>)
  /\ \A k : ~Has(<< >>, k)
BY DEF AllData, EofLast, Has

LEMMA ControlMessages ==
  ASSUME NEW k \in {"eof", "abort", "leave"}
  PROVE  Control(k) \in Message /\ Control(k).kind = k
BY DEF Control, Message

LEMMA DataMessages ==
  ASSUME NEW n \in 1..MaxChunks
  PROVE  Data(n) \in Message /\ Data(n).kind = "data" /\ Data(n).n = n
BY DEF Data, Message

LEMMA Appended ==
  ASSUME NEW q \in Seq(Message), NEW m \in Message
  PROVE  /\ Append(q, m) \in Seq(Message)
         /\ Len(Append(q, m)) = Len(q) + 1
         /\ \A i \in 1..Len(q) : Append(q, m)[i] = q[i]
         /\ Append(q, m)[Len(q) + 1] = m
OBVIOUS

LEMMA AppendHas ==
  ASSUME NEW q \in Seq(Message), NEW m \in Message, NEW k
  PROVE  Has(Append(q, m), k) <=> Has(q, k) \/ m.kind = k
<1>1. ASSUME Has(Append(q, m), k) PROVE Has(q, k) \/ m.kind = k
  <2>1. PICK i \in 1..(Len(q) + 1) : Append(q, m)[i].kind = k
    BY <1>1, Appended DEF Has
  <2>2. CASE i = Len(q) + 1
    BY <2>1, <2>2, Appended
  <2>3. CASE i \in 1..Len(q)
    BY <2>1, <2>3, Appended DEF Has
  <2> QED BY <2>1, <2>2, <2>3
<1>2. ASSUME Has(q, k) PROVE Has(Append(q, m), k)
  <2>1. PICK i \in 1..Len(q) : q[i].kind = k
    BY <1>2 DEF Has
  <2>2. i \in 1..Len(Append(q, m)) /\ Append(q, m)[i].kind = k
    BY <2>1, Appended
  <2> QED BY <2>2 DEF Has
<1>3. ASSUME m.kind = k PROVE Has(Append(q, m), k)
  <2>1. Len(q) + 1 \in 1..Len(Append(q, m))
    BY Appended
  <2> QED BY <1>3, <2>1, Appended DEF Has
<1> QED BY <1>1, <1>2, <1>3

LEMMA AppendEofAt ==
  ASSUME NEW q \in Seq(Message), NEW m \in Message, NEW k \in Int, EofAt(q, k)
  PROVE  EofAt(Append(q, m), k)
<1>1. k \in 1..Len(Append(q, m)) /\ Append(q, m)[k].kind = "eof"
  BY Appended DEF EofAt
<1>2. ASSUME NEW j \in 1..(k - 1) PROVE Append(q, m)[j].kind = "data"
  <2>1. j \in 1..Len(q)
    BY DEF EofAt
  <2> QED BY <2>1, Appended DEF EofAt
<1> QED BY <1>1, <1>2 DEF EofAt

LEMMA AppendEofLast ==
  ASSUME NEW q \in Seq(Message), NEW m \in Message, EofLast(q),
         m.kind # "data" \/ ~Has(q, "eof")
  PROVE  EofLast(Append(q, m))
<1> SUFFICES ASSUME NEW i \in 1..Len(Append(q, m)),
                    NEW j \in 1..Len(Append(q, m)),
                    i < j, Append(q, m)[i].kind = "eof"
             PROVE  Append(q, m)[j].kind # "data"
  BY DEF EofLast
<1>1. i \in 1..Len(q) /\ q[i].kind = "eof"
  BY Appended
<1>2. CASE j \in 1..Len(q)
  BY <1>1, <1>2, Appended DEF EofLast
<1>3. CASE j = Len(q) + 1
  BY <1>1, <1>3, Appended DEF Has
<1> QED BY <1>2, <1>3, Appended

LEMMA AppendControl ==
  ASSUME NEW q \in Seq(Message), NEW m \in Message, m.kind # "data"
  PROVE  /\ ~AllData(Append(q, m))
         /\ \A base, max \in Nat :
              Numbered(q, base, max) => Numbered(Append(q, m), base, max)
         /\ AllData(q) /\ m.kind = "eof" => EofAt(Append(q, m), Len(q) + 1)
<1>1. ~AllData(Append(q, m))
  <2>1. Len(q) + 1 \in 1..Len(Append(q, m))
    BY Appended
  <2> QED BY <2>1, Appended DEF AllData
<1>2. ASSUME NEW base \in Nat, NEW max \in Nat, Numbered(q, base, max)
      PROVE  Numbered(Append(q, m), base, max)
  <2> SUFFICES ASSUME NEW i \in 1..Len(Append(q, m)),
                      \A j \in 1..i : Append(q, m)[j].kind = "data"
               PROVE  /\ Append(q, m)[i].n = base + i
                      /\ base + i <= max
    BY DEF Numbered
  <2>1. i # Len(q) + 1
    BY Appended
  <2>2. i \in 1..Len(q)
    BY <2>1, Appended
  <2>3. \A j \in 1..i : q[j].kind = "data"
    BY <2>2, Appended
  <2> QED BY <1>2, <2>2, <2>3, Appended DEF Numbered
<1>3. ASSUME AllData(q), m.kind = "eof" PROVE EofAt(Append(q, m), Len(q) + 1)
  BY <1>3, Appended DEF AllData, EofAt
<1> QED BY <1>1, <1>2, <1>3

LEMMA AppendData ==
  ASSUME NEW q \in Seq(Message), NEW m \in Message, m.kind = "data"
  PROVE  /\ AllData(Append(q, m)) <=> AllData(q)
         /\ \A base, max \in Nat :
              /\ Numbered(q, base, max)
              /\ AllData(q) => m.n = base + Len(q) + 1 /\ m.n <= max
              => Numbered(Append(q, m), base, max)
<1>1. AllData(Append(q, m)) <=> AllData(q)
  BY Appended DEF AllData
<1>2. ASSUME NEW base \in Nat, NEW max \in Nat, Numbered(q, base, max),
             AllData(q) => m.n = base + Len(q) + 1 /\ m.n <= max
      PROVE  Numbered(Append(q, m), base, max)
  <2> SUFFICES ASSUME NEW i \in 1..Len(Append(q, m)),
                      \A j \in 1..i : Append(q, m)[j].kind = "data"
               PROVE  /\ Append(q, m)[i].n = base + i
                      /\ base + i <= max
    BY DEF Numbered
  <2>1. CASE i = Len(q) + 1
    <3>1. AllData(q)
      BY <2>1, Appended DEF AllData
    <3> QED BY <1>2, <2>1, <3>1, Appended
  <2>2. CASE i \in 1..Len(q)
    <3>1. \A j \in 1..i : q[j].kind = "data"
      BY <2>2, Appended
    <3> QED BY <1>2, <2>2, <3>1, Appended DEF Numbered
  <2> QED BY <2>1, <2>2, Appended
<1> QED BY <1>1, <1>2

LEMMA Tailed ==
  ASSUME NEW q \in Seq(Message), q # << >>
  PROVE  /\ Tail(q) \in Seq(Message)
         /\ Len(Tail(q)) = Len(q) - 1
         /\ Len(q) \in Nat /\ Len(q) > 0
         /\ \A i \in 1..(Len(q) - 1) : Tail(q)[i] = q[i + 1]
         /\ Head(q) = q[1] /\ Head(q) \in Message
OBVIOUS

LEMMA TailHas ==
  ASSUME NEW q \in Seq(Message), q # << >>, NEW k, Has(Tail(q), k)
  PROVE  Has(q, k)
<1>1. PICK i \in 1..(Len(q) - 1) : q[i + 1].kind = k
  BY Tailed DEF Has
<1>2. i + 1 \in 1..Len(q)
  BY Tailed
<1> QED BY <1>1, <1>2 DEF Has

LEMMA TailEofLast ==
  ASSUME NEW q \in Seq(Message), q # << >>, EofLast(q)
  PROVE  EofLast(Tail(q))
<1> SUFFICES ASSUME NEW i \in 1..(Len(q) - 1), NEW j \in 1..(Len(q) - 1),
                    i < j, q[i + 1].kind = "eof"
             PROVE  q[j + 1].kind # "data"
  BY Tailed DEF EofLast
<1>1. i + 1 \in 1..Len(q) /\ j + 1 \in 1..Len(q) /\ i + 1 < j + 1
  BY Tailed
<1> QED BY <1>1 DEF EofLast

LEMMA TailData ==
  ASSUME NEW q \in Seq(Message), q # << >>, Head(q).kind = "data"
  PROVE  /\ AllData(Tail(q)) <=> AllData(q)
         /\ \A base, max \in Nat : Numbered(q, base, max) =>
              /\ Head(q).n = base + 1 /\ base + 1 <= max
              /\ Numbered(Tail(q), base + 1, max)
         /\ \A k \in Int : EofAt(q, k) => EofAt(Tail(q), k - 1)
<1>1. AllData(q) => AllData(Tail(q))
  BY Tailed DEF AllData
<1>2. ASSUME AllData(Tail(q)) PROVE AllData(q)
  <2> SUFFICES ASSUME NEW i \in 1..Len(q) PROVE q[i].kind = "data"
    BY DEF AllData
  <2>1. CASE i = 1
    BY <2>1, Tailed
  <2>2. CASE i # 1
    <3>1. i - 1 \in 1..(Len(q) - 1) /\ (i - 1) + 1 = i
      BY <2>2, Tailed
    <3> QED BY <1>2, <3>1, Tailed DEF AllData
  <2> QED BY <2>1, <2>2
<1>3. ASSUME NEW base \in Nat, NEW max \in Nat, Numbered(q, base, max)
      PROVE  /\ Head(q).n = base + 1 /\ base + 1 <= max
             /\ Numbered(Tail(q), base + 1, max)
  <2>1. Head(q).n = base + 1 /\ base + 1 <= max
    <3>1. 1 \in 1..Len(q) /\ \A j \in 1..1 : q[j].kind = "data"
      BY Tailed
    <3> QED BY <1>3, <3>1, Tailed DEF Numbered
  <2>2. ASSUME NEW i \in 1..Len(Tail(q)),
               \A j \in 1..i : Tail(q)[j].kind = "data"
        PROVE  Tail(q)[i].n = (base + 1) + i /\ (base + 1) + i <= max
    <3>1. i + 1 \in 1..Len(q) /\ Tail(q)[i] = q[i + 1]
      BY Tailed
    <3>2. ASSUME NEW j \in 1..(i + 1) PROVE q[j].kind = "data"
      <4>1. CASE j = 1
        BY <4>1, Tailed
      <4>2. CASE j # 1
        <5>1. j - 1 \in 1..i /\ j - 1 \in 1..(Len(q) - 1) /\ (j - 1) + 1 = j
          BY <4>2, <3>1, Tailed
        <5> QED BY <2>2, <5>1, Tailed
      <4> QED BY <4>1, <4>2
    <3>3. q[i + 1].n = base + (i + 1) /\ base + (i + 1) <= max
      BY <1>3, <3>1, <3>2 DEF Numbered
    <3> QED BY <3>1, <3>3
  <2> QED BY <2>1, <2>2 DEF Numbered
<1>4. ASSUME NEW k \in Int, EofAt(q, k) PROVE EofAt(Tail(q), k - 1)
  <2>1. k # 1
    BY <1>4, Tailed DEF EofAt
  <2>2. k - 1 \in 1..Len(Tail(q)) /\ Tail(q)[k - 1] = q[k]
    BY <1>4, <2>1, Tailed DEF EofAt
  <2>3. ASSUME NEW j \in 1..((k - 1) - 1) PROVE Tail(q)[j].kind = "data"
    <3>1. j \in 1..(Len(q) - 1) /\ j + 1 \in 1..(k - 1)
      BY <2>2, Tailed
    <3> QED BY <1>4, <3>1, Tailed DEF EofAt
  <2> QED BY <1>4, <2>2, <2>3 DEF EofAt
<1> QED BY <1>1, <1>2, <1>3, <1>4

LEMMA EofAtHead ==
  ASSUME NEW q \in Seq(Message), q # << >>, Head(q).kind # "data",
         NEW k \in Int, EofAt(q, k)
  PROVE  k = 1 /\ Head(q).kind = "eof"
<1>1. k = 1
  <2> SUFFICES ASSUME k # 1 PROVE FALSE
    OBVIOUS
  <2>1. 1 \in 1..(k - 1)
    BY DEF EofAt
  <2> QED BY <2>1, Tailed DEF EofAt
<1> QED BY <1>1, Tailed DEF EofAt

LEMMA HeadNotData ==
  ASSUME NEW q \in Seq(Message), q # << >>
  PROVE  /\ Head(q).kind # "data" => ~AllData(q)
         /\ Has(q, Head(q).kind)
<1>1. 1 \in 1..Len(q)
  BY Tailed
<1> QED BY <1>1, Tailed DEF AllData, Has
-----------------------------------------------------------------------------
USE MaxChunksAssumption, LeavesAssumption

LEMMA OtherEnd ==
  ASSUME NEW e \in Ends
  PROVE  Other(e) \in Ends /\ Other(e) # e /\ Other(Other(e)) = e
BY DEF Ends, Other

LEMMA EndCases ==
  ASSUME NEW a \in Ends, NEW e \in Ends
  PROVE  e = a \/ e = Other(a)
BY DEF Ends, Other
-----------------------------------------------------------------------------
Chan == [Ends -> Seq(Message)]

LEMMA PostIs ==
  ASSUME NEW c \in Chan, NEW a \in Ends, NEW m \in Message
  PROVE  /\ Post(c, a, m) \in Chan
         /\ Post(c, a, m)[a] = c[a]
         /\ Reachable(a) =>
              Post(c, a, m)[Other(a)] = Append(c[Other(a)], m)
         /\ ~Reachable(a) => Post(c, a, m) = c
BY OtherEnd DEF Post, Chan

LEMMA TakenIs ==
  ASSUME chan \in Chan, NEW a \in Ends, chan[a] # << >>
  PROVE  /\ Taken(a) \in Chan
         /\ Taken(a)[a] = Tail(chan[a])
         /\ Taken(a)[Other(a)] = chan[Other(a)]
BY OtherEnd DEF Taken, Chan

(* What #finalize does to the room, by cases. *)
LEMMA FinalizeIs ==
  ASSUME NEW c \in Chan, NEW a \in Ends, inRoom \in [Ends -> BOOLEAN],
         Finalize(a, c)
  PROVE  \/ chan' = c /\ inRoom' = inRoom
         \/ /\ ~finalized[a] /\ a \in LeavesOnFinalize
            /\ inRoom' = [inRoom EXCEPT ![a] = FALSE]
            /\ chan' = [Post(c, a, Control("leave")) EXCEPT ![a] = << >>]
BY DEF Finalize, LeaveRoom

LEMMA FinalizeType ==
  ASSUME NEW c \in Chan, NEW a \in Ends, TypeOK, Finalize(a, c)
  PROVE  /\ chan' \in Chan
         /\ inRoom' \in [Ends -> BOOLEAN]
         /\ finalized' \in [Ends -> BOOLEAN]
<1>1. Post(c, a, Control("leave")) \in Chan
  BY PostIs, ControlMessages
<1>2. finalized' \in [Ends -> BOOLEAN]
  BY DEF Finalize, TypeOK
<1>3. CASE chan' = c /\ inRoom' = inRoom
  BY <1>2, <1>3 DEF TypeOK
<1>4. CASE LeaveRoom(a, c)
  <2>1. << >> \in Seq(Message)
    OBVIOUS
  <2>2. chan' \in Chan
    BY <1>1, <1>4, <2>1 DEF LeaveRoom, Chan
  <2>3. inRoom' \in [Ends -> BOOLEAN]
    BY <1>4 DEF LeaveRoom, TypeOK
  <2> QED BY <1>2, <2>2, <2>3
<1> QED BY <1>3, <1>4 DEF Finalize

LEMMA MaybeFinalizeType ==
  ASSUME NEW c \in Chan, NEW a \in Ends, NEW rc, NEW ws, TypeOK,
         MaybeFinalize(a, rc, ws, c)
  PROVE  /\ chan' \in Chan
         /\ inRoom' \in [Ends -> BOOLEAN]
         /\ finalized' \in [Ends -> BOOLEAN]
         /\ status' \in [Ends -> {"open", "closed"}]
BY FinalizeType DEF MaybeFinalize, TypeOK

ReadTypeOK == /\ items \in [Ends -> Seq(1..MaxChunks)]
              /\ got \in [Ends -> Seq(1..MaxChunks)]
              /\ reader \in [Ends -> {"idle", "waiting", "ended", "failed"}]

LEMMA ReadEndType ==
  ASSUME NEW a \in Ends, TypeOK, EndRead(a) \/ Fail(a)
  PROVE  /\ readClosed' \in [Ends -> BOOLEAN]
         /\ reader' \in [Ends -> {"idle", "waiting", "ended", "failed"}]
<1>1. CASE UNCHANGED <<readClosed, reader>>
  BY <1>1 DEF TypeOK
<1>2. ASSUME NEW outcome \in {"ended", "failed"},
             readClosed' = [readClosed EXCEPT ![a] = TRUE],
             Wake(a, outcome)
      PROVE  /\ readClosed' \in [Ends -> BOOLEAN]
             /\ reader' \in [Ends -> {"idle", "waiting", "ended", "failed"}]
  BY <1>2 DEF Wake, TypeOK
<1> QED BY <1>1, <1>2 DEF EndRead, Fail

(* Every action keeps the types. *)
LEMMA TypeOKKept ==
  ASSUME TypeOK, [Next]_vars
  PROVE  TypeOK'
<1> chan \in Chan
  BY DEF TypeOK, Chan
<1>1. ASSUME NEW a \in Ends, Send(a) PROVE TypeOK'
  BY <1>1 DEF Send, TypeOK, stateVars, readVars, roomVars
<1>2. ASSUME NEW a \in Ends, Transmit(a) PROVE TypeOK'
  <2>1. Head(pending[a]) \in 1..MaxChunks /\ Tail(pending[a]) \in Seq(1..MaxChunks)
    BY <1>2 DEF Transmit, TypeOK
  <2>2. chan' \in Chan
    BY <1>2, <2>1, PostIs, DataMessages DEF Transmit
  <2> QED BY <1>2, <2>1, <2>2
          DEF Transmit, TypeOK, Chan, stateVars, readVars, roomVars
<1>3. ASSUME NEW a \in Ends, TransmitFails(a) PROVE TypeOK'
  BY <1>3 DEF TransmitFails, TypeOK, stateVars, readVars, roomVars
<1>4. ASSUME NEW a \in Ends, Close(a) PROVE TypeOK'
  BY <1>4 DEF Close, TypeOK, readVars, roomVars
<1>5. ASSUME NEW a \in Ends, CloseSendsEof(a) PROVE TypeOK'
  <2>1. chan' \in Chan
    BY <1>5, PostIs, ControlMessages DEF CloseSendsEof
  <2> QED BY <1>5, <2>1
          DEF CloseSendsEof, TypeOK, Chan, stateVars, readVars, roomVars
<1>6. ASSUME NEW a \in Ends, CloseThrows(a) PROVE TypeOK'
  BY <1>6 DEF CloseThrows, TypeOK, stateVars, readVars, roomVars
<1>7. ASSUME NEW a \in Ends, CloseReturns(a) PROVE TypeOK'
  <2>1. /\ chan' \in Chan
        /\ inRoom' \in [Ends -> BOOLEAN]
        /\ finalized' \in [Ends -> BOOLEAN]
        /\ status' \in [Ends -> {"open", "closed"}]
    BY <1>7, MaybeFinalizeType DEF CloseReturns
  <2> QED BY <1>7, <2>1 DEF CloseReturns, TypeOK, Chan, readVars
<1>8. ASSUME NEW a \in Ends, Abort(a) PROVE TypeOK'
  <2>1. Post(chan, a, Control("abort")) \in Chan
    BY PostIs, ControlMessages
  <2>2. /\ chan' \in Chan
        /\ inRoom' \in [Ends -> BOOLEAN]
        /\ finalized' \in [Ends -> BOOLEAN]
    BY <1>8, <2>1, FinalizeType DEF Abort
  <2>3. /\ readClosed' \in [Ends -> BOOLEAN]
        /\ reader' \in [Ends -> {"idle", "waiting", "ended", "failed"}]
    BY <1>8, ReadEndType DEF Abort
  <2> QED BY <1>8, <2>2, <2>3 DEF Abort, TypeOK, Chan, writeVars
<1>9. ASSUME NEW a \in Ends, ReceiveData(a) PROVE TypeOK'
  <2>1. chan' \in Chan
    BY <1>9, TakenIs DEF ReceiveData, Arriving
  <2>2. chan[a] \in Seq(Message) /\ chan[a] # << >> /\ Head(chan[a]) \in Message
    BY <1>9 DEF ReceiveData, Arriving, Chan
  <2>3. Head(chan[a]).n \in 1..MaxChunks
    BY <1>9, <2>2 DEF ReceiveData, Arriving, Message
  <2>4. ReadTypeOK'
    <3>1. CASE UNCHANGED readVars
      BY <3>1 DEF readVars, TypeOK, ReadTypeOK
    <3>2. ASSUME NEW n \in 1..MaxChunks, Buffer(a, n) PROVE ReadTypeOK'
      <4>1. Append(got[a], n) \in Seq(1..MaxChunks)
        BY DEF TypeOK
      <4>2. Append(items[a], n) \in Seq(1..MaxChunks)
        BY DEF TypeOK
      <4>3. CASE reader[a] = "waiting"
        <5>1. /\ got' = [got EXCEPT ![a] = Append(@, n)]
              /\ reader' = [reader EXCEPT ![a] = "idle"]
              /\ items' = items
          BY <3>2, <4>3 DEF Buffer
        <5> QED BY <4>1, <5>1 DEF TypeOK, ReadTypeOK
      <4>4. CASE reader[a] # "waiting"
        BY <3>2, <4>2, <4>4 DEF Buffer, TypeOK, ReadTypeOK
      <4> QED BY <4>3, <4>4
    <3> QED BY <1>9, <2>3, <3>1, <3>2 DEF ReceiveData
  <2> QED BY <1>9, <2>1, <2>4
          DEF ReceiveData, TypeOK, ReadTypeOK, Chan, stateVars, writeVars, roomVars
<1>10. ASSUME NEW a \in Ends, ReceiveEof(a) PROVE TypeOK'
  <2>1. Taken(a) \in Chan
    BY <1>10, TakenIs DEF ReceiveEof, Arriving
  <2>2. /\ chan' \in Chan
        /\ inRoom' \in [Ends -> BOOLEAN]
        /\ finalized' \in [Ends -> BOOLEAN]
        /\ status' \in [Ends -> {"open", "closed"}]
    BY <1>10, <2>1, MaybeFinalizeType DEF ReceiveEof
  <2>3. /\ readClosed' \in [Ends -> BOOLEAN]
        /\ reader' \in [Ends -> {"idle", "waiting", "ended", "failed"}]
    BY <1>10, ReadEndType DEF ReceiveEof
  <2> QED BY <1>10, <2>2, <2>3 DEF ReceiveEof, TypeOK, Chan, writeVars
<1>11. ASSUME NEW a \in Ends, ReceiveAbort(a) PROVE TypeOK'
  <2>1. Taken(a) \in Chan
    BY <1>11, TakenIs DEF ReceiveAbort, Arriving
  <2>2. /\ chan' \in Chan
        /\ inRoom' \in [Ends -> BOOLEAN]
        /\ finalized' \in [Ends -> BOOLEAN]
    BY <1>11, <2>1, FinalizeType DEF ReceiveAbort
  <2>3. /\ readClosed' \in [Ends -> BOOLEAN]
        /\ reader' \in [Ends -> {"idle", "waiting", "ended", "failed"}]
    BY <1>11, ReadEndType DEF ReceiveAbort
  <2> QED BY <1>11, <2>2, <2>3 DEF ReceiveAbort, TypeOK, Chan, writeVars
<1>12. ASSUME NEW a \in Ends, ReceiveLeave(a) PROVE TypeOK'
  <2>1. Taken(a) \in Chan
    BY <1>12, TakenIs DEF ReceiveLeave, Arriving
  <2>2. CASE status[a] = "closed"
    BY <1>12, <2>1, <2>2
    DEF ReceiveLeave, TypeOK, Chan, writeVars, stateVars
  <2>3. CASE status[a] # "closed"
    <3>1. /\ chan' \in Chan
          /\ inRoom' \in [Ends -> BOOLEAN]
          /\ finalized' \in [Ends -> BOOLEAN]
      BY <1>12, <2>1, <2>3, FinalizeType DEF ReceiveLeave
    <3>2. /\ readClosed' \in [Ends -> BOOLEAN]
          /\ reader' \in [Ends -> {"idle", "waiting", "ended", "failed"}]
      BY <1>12, <2>3, ReadEndType DEF ReceiveLeave
    <3> QED BY <1>12, <2>3, <3>1, <3>2 DEF ReceiveLeave, TypeOK, Chan, writeVars
  <2> QED BY <2>2, <2>3
<1>13. ASSUME NEW a \in Ends, ReaderNext(a) PROVE TypeOK'
  <2>1. ReadTypeOK'
    <3>1. CASE HasItem(a)
      <4>1. Head(items[a]) \in 1..MaxChunks /\ Tail(items[a]) \in Seq(1..MaxChunks)
        BY <3>1 DEF HasItem, TypeOK
      <4>2. Append(got[a], Head(items[a])) \in Seq(1..MaxChunks)
        BY <4>1 DEF TypeOK
      <4>3. items' \in [Ends -> Seq(1..MaxChunks)]
        BY <1>13, <3>1, <4>1 DEF ReaderNext, TypeOK
      <4>4. got' \in [Ends -> Seq(1..MaxChunks)]
        BY <1>13, <3>1, <4>2 DEF ReaderNext, TypeOK
      <4> QED BY <1>13, <3>1, <4>3, <4>4 DEF ReaderNext, TypeOK, ReadTypeOK
    <3>2. CASE ~HasItem(a)
      BY <1>13, <3>2 DEF ReaderNext, TypeOK, ReadTypeOK
    <3> QED BY <3>1, <3>2
  <2> QED BY <1>13, <2>1
          DEF ReaderNext, TypeOK, ReadTypeOK, stateVars, writeVars, roomVars
<1>14. ASSUME NEW a \in Ends, HubClose(a) PROVE TypeOK'
  <2>1. Post(chan, a, Control("leave")) \in Chan
    BY PostIs, ControlMessages
  <2>2. chan' \in Chan /\ inRoom' \in [Ends -> BOOLEAN]
    BY <1>14, <2>1 DEF HubClose, LeaveRoom, TypeOK, Chan
  <2>3. status[a] # "closed" =>
          /\ readClosed' \in [Ends -> BOOLEAN]
          /\ reader' \in [Ends -> {"idle", "waiting", "ended", "failed"}]
    BY <1>14, ReadEndType DEF HubClose
  <2>4. CASE status[a] = "closed"
    BY <1>14, <2>2, <2>4
    DEF HubClose, TypeOK, Chan, writeVars, stateVars
  <2>5. CASE status[a] # "closed"
    <3>1. /\ status' = [status EXCEPT ![a] = "closed"]
          /\ writeStatus' = [writeStatus EXCEPT ![a] = "closed"]
          /\ finalized' = [finalized EXCEPT ![a] = TRUE]
          /\ cut' = cut \cup {a}
      BY <1>14, <2>5 DEF HubClose
    <3>2. /\ status' \in [Ends -> {"open", "closed"}]
          /\ writeStatus' \in [Ends -> {"writable", "closing", "closed"}]
          /\ finalized' \in [Ends -> BOOLEAN]
          /\ cut' \subseteq Ends \cup {"link"}
      BY <3>1 DEF TypeOK
    <3>3. UNCHANGED <<writeVars, items, got, linkUp>>
      BY <1>14 DEF HubClose
    <3> QED BY <2>2, <2>3, <2>5, <3>2, <3>3 DEF TypeOK, Chan, writeVars
  <2> QED BY <2>4, <2>5
<1>15. CASE Disconnect
  <2>1. << >> \in Seq(Message) /\ <<Control("leave")>> \in Seq(Message)
    BY ControlMessages
  <2>2. chan' \in Chan
    BY <1>15, <2>1 DEF Disconnect, Chan
  <2> QED BY <1>15, <2>2
          DEF Disconnect, TypeOK, Chan, stateVars, writeVars, readVars
<1>16. CASE UNCHANGED vars
  BY <1>16 DEF vars, TypeOK, stateVars, writeVars, readVars, roomVars
<1> QED BY <1>1, <1>2, <1>3, <1>4, <1>5, <1>6, <1>7, <1>8, <1>9, <1>10,
           <1>11, <1>12, <1>13, <1>14, <1>15, <1>16
        DEF Next, User, Drain, CloseGoesOn, Receive

(* Every variable keeps its type. *)
THEOREM TypeCorrect == Spec => []TypeOK
<1>1. Init => TypeOK
  BY DEF Init, TypeOK
<1>2. TypeOK /\ [Next]_vars => TypeOK'
  BY TypeOKKept
<1> QED BY <1>1, <1>2, PTL DEF Spec
-----------------------------------------------------------------------------
(* An action of end a touches two directions of the stream: the one read   *)
(* at a, and the one read at the other end, which a feeds.                 *)
USE MaxChunksAssumption, LeavesAssumption

(* The inductive invariant splits into what is local to one end and the    *)
(* direction of the stream that is read at that end.                       *)
Local(e) == ReaderInv(e) /\ ClosedInv(e) /\ CloseInv(e)

Direction(e) ==
  EofInv(e) /\ LeaveInv(e) /\ OrderInv(e) /\ PipeInv(e) /\ UncutInv(e)

LEMMA LocalFrame ==
  ASSUME NEW e \in Ends, Local(e),
         UNCHANGED <<reader[e], items[e], readClosed[e], finalized[e],
                     status[e], writeStatus[e], inRoom[e], closeCall[e],
                     pending[e]>>
  PROVE  Local(e)'
BY DEF Local, ReaderInv, ClosedInv, CloseInv

LEMMA DirectionFrame ==
  ASSUME NEW e \in Ends, Direction(e),
         UNCHANGED <<chan[e], got[e], items[e], readClosed[e],
                     sent[Other(e)], pending[Other(e)], sendFailed[Other(e)],
                     closeCall[Other(e)], status[Other(e)], inRoom[e],
                     inRoom[Other(e)], linkUp, cut>>
  PROVE  Direction(e)'
BY OtherEnd
DEF Direction, EofInv, LeaveInv, OrderInv, PipeInv, UncutInv, Arrived, Posted,
    EofSent, Reachable

LEMMA Types ==
  ASSUME TypeOK, NEW e \in Ends
  PROVE  /\ chan[e] \in Seq(Message) /\ chan \in Chan
         /\ pending[e] \in Seq(1..MaxChunks) /\ Len(pending[e]) \in Nat
         /\ items[e] \in Seq(1..MaxChunks) /\ Len(items[e]) \in Nat
         /\ got[e] \in Seq(1..MaxChunks) /\ Len(got[e]) \in Nat
         /\ sent[e] \in Nat /\ Arrived(e) \in Nat /\ Posted(e) \in Nat
         /\ inRoom[e] \in BOOLEAN /\ readClosed[e] \in BOOLEAN
         /\ finalized[e] \in BOOLEAN
<1>1. Len(got[e]) \in Nat /\ Len(items[e]) \in Nat /\ Len(chan[e]) \in Nat
  BY DEF TypeOK
<1> QED BY <1>1 DEF TypeOK, Chan, Arrived, Posted

LEMMA AllHanded ==
  ASSUME TypeOK, NEW e \in Ends, items[e] = << >>
  PROVE  Arrived(e) = Len(got[e])
<1>1. Len(items[e]) = 0 /\ Len(got[e]) \in Nat
  BY Types
<1> DEFINE x == Len(got[e])
<1>2. Arrived(e) = x + 0 /\ x \in Nat
  BY <1>1 DEF Arrived
<1> HIDE DEF x
<1>3. Arrived(e) = x
  BY <1>2
<1> QED BY <1>3 DEF x

LEMMA InitIInv == Init => IInv
<1> SUFFICES ASSUME Init PROVE IInv
  OBVIOUS
<1>1. TypeOK
  BY DEF Init, TypeOK
<1>2. ASSUME NEW e \in Ends PROVE EndInv(e)
  <2>1. /\ chan[e] = << >> /\ items[e] = << >> /\ got[e] = << >>
        /\ pending[Other(e)] = << >> /\ sent[Other(e)] = 0
        /\ closeCall[Other(e)] = "none" /\ status[Other(e)] = "open"
        /\ ~sendFailed[Other(e)] /\ Reachable(Other(e))
    BY OtherEnd DEF Init, Reachable
  <2>2. Arrived(e) = 0 /\ Posted(e) = 0
    BY <2>1 DEF Arrived, Posted
  <2>3. Numbered(chan[e], 0, 0)
    BY <2>1 DEF Numbered
  <2>4. ReaderInv(e) /\ ClosedInv(e) /\ CloseInv(e)
    BY DEF Init, ReaderInv, ClosedInv, CloseInv
  <2>5. EofInv(e) /\ LeaveInv(e)
    BY <2>1, EmptyChannel DEF EofInv, LeaveInv
  <2>6. OrderInv(e) /\ PipeInv(e)
    BY <2>1, <2>2, <2>3 DEF OrderInv, PipeInv
  <2>7. UncutInv(e)
    BY <2>1, EmptyChannel DEF UncutInv, Init
  <2> QED BY <2>4, <2>5, <2>6, <2>7 DEF EndInv
<1> QED BY <1>1, <1>2 DEF IInv, Init

(* The four parts an action of end a has to keep. *)
LEMMA FourParts ==
  ASSUME NEW a \in Ends, TypeOK', (~linkUp => "link" \in cut)',
         Local(a)', Local(Other(a))', Direction(a)', Direction(Other(a))'
  PROVE  IInv'
<1>1. ASSUME NEW e \in Ends PROVE EndInv(e)'
  BY EndCases DEF EndInv, Local, Direction
<1> QED BY <1>1 DEF IInv

LEMMA Unfolded ==
  ASSUME IInv, NEW a \in Ends
  PROVE  /\ TypeOK /\ (~linkUp => "link" \in cut)
         /\ Local(a) /\ Direction(a)
         /\ Local(Other(a)) /\ Direction(Other(a))
BY OtherEnd DEF IInv, EndInv, Local, Direction
-----------------------------------------------------------------------------
(* Channel r is q with abort and leave messages behind it. *)
Grown(q, r) ==
  /\ r \in Seq(Message)
  /\ EofLast(q) => EofLast(r)
  /\ Has(r, "eof") => Has(q, "eof")
  /\ ~AllData(q) => ~AllData(r)
  /\ AllData(r) => r = q
  /\ \A base, max \in Nat : Numbered(q, base, max) => Numbered(r, base, max)
  /\ \A k \in Int : EofAt(q, k) => EofAt(r, k)

(* Channel r is what is left of q at a receiver that is not reading. *)
Shrunk(q, r) ==
  /\ r \in Seq(Message)
  /\ EofLast(q) => EofLast(r)
  /\ \A k : Has(r, k) => Has(q, k)

LEMMA GrownSame ==
  ASSUME NEW q \in Seq(Message)
  PROVE  Grown(q, q)
BY DEF Grown

LEMMA GrownAppend ==
  ASSUME NEW q \in Seq(Message), NEW r, Grown(q, r),
         NEW k \in {"abort", "leave"}
  PROVE  Grown(q, Append(r, Control(k)))
<1> DEFINE m == Control(k)
<1>1. m \in Message /\ m.kind = k /\ r \in Seq(Message)
  BY ControlMessages DEF Grown
<1> HIDE DEF m
<1>2. EofLast(r) => EofLast(Append(r, m))
  BY <1>1, AppendEofLast
<1>3. Has(Append(r, m), "eof") => Has(r, "eof")
  BY <1>1, AppendHas
<1>4. ~AllData(Append(r, m))
  BY <1>1, AppendControl
<1>5. \A base, max \in Nat :
        Numbered(r, base, max) => Numbered(Append(r, m), base, max)
  BY <1>1, AppendControl
<1>6. \A j \in Int : EofAt(r, j) => EofAt(Append(r, m), j)
  BY <1>1, AppendEofAt
<1>7. Append(r, m) \in Seq(Message)
  BY <1>1
<1>8. Grown(q, Append(r, m))
  BY <1>2, <1>3, <1>4, <1>5, <1>6, <1>7 DEF Grown
<1> QED BY <1>8 DEF m

LEMMA ShrunkCases ==
  ASSUME NEW q \in Seq(Message)
  PROVE  /\ Shrunk(q, q)
         /\ Shrunk(q, << >>)
         /\ q # << >> => Shrunk(q, Tail(q))
BY EmptyChannel, Tailed, TailHas, TailEofLast DEF Shrunk

(* The direction that is fed by an end a which sends no data and no        *)
(* end-of-file, but may abort, leave, close or fail to send.               *)
LEMMA DirectionFed ==
  ASSUME NEW a \in Ends, NEW o \in Ends, a = Other(o), TypeOK,
         Direction(o),
         Grown(chan[o], chan'[o]),
         UNCHANGED <<got[o], items[o], readClosed[o], sent[a], linkUp,
                     inRoom[o]>>,
         Reachable(a) /\ ~sendFailed[a] =>
           UNCHANGED <<pending[a], sendFailed[a]>>,
         EofSent(a)' <=> EofSent(a),
         Reachable(a) /\ ~sendFailed[a]
           /\ closeCall[a] \in {"none", "draining"} =>
             closeCall'[a] \in {"none", "draining"},
         inRoom'[a] => inRoom[a],
         inRoom[a] /\ ~inRoom'[a] /\ Reachable(a) => ~AllData(chan'[o]),
         Has(chan'[o], "leave") =>
           Has(chan[o], "leave") \/ ~inRoom'[a],
         cut' = {} =>
           /\ cut = {}
           /\ Has(chan'[o], "abort") => Has(chan[o], "abort")
           /\ status'[a] = "closed" /\ inRoom[o] => EofSent(a)
           /\ Reachable(a) /\ AllData(chan[o]) /\ ~AllData(chan'[o]) =>
                status'[a] = "closed"
  PROVE  Direction(o)'
<1> Other(a) = o
  BY OtherEnd
<1>t. /\ chan[o] \in Seq(Message) /\ chan'[o] \in Seq(Message)
      /\ Arrived(o) \in Nat /\ sent[a] \in Nat
  BY Types DEF Grown
<1>0. EofInv(o) /\ LeaveInv(o) /\ OrderInv(o) /\ PipeInv(o) /\ UncutInv(o)
  BY DEF Direction
<1>1. EofInv(o)'
  BY <1>0 DEF EofInv, Grown
<1>2. LeaveInv(o)'
  BY <1>0 DEF LeaveInv
<1>3. Arrived(o)' = Arrived(o)
  BY DEF Arrived
<1>4. OrderInv(o)'
  <2>1. ~readClosed[o] => Numbered(chan'[o], Arrived(o), sent[a])
    BY <1>0, <1>t DEF OrderInv, Grown
  <2> QED BY <1>0, <1>3, <2>1 DEF OrderInv
<1>5. PipeInv(o)'
  <2> SUFFICES ASSUME ~readClosed[o], AllData(chan'[o])
               PROVE  /\ Reachable(a)' /\ ~sendFailed'[a]
                      /\ sent[a] = Posted(o)' + Len(pending'[a])
                      /\ \A i \in 1..Len(pending'[a]) :
                           pending'[a][i] = Posted(o)' + i
    BY DEF PipeInv
  <2>1. chan'[o] = chan[o] /\ AllData(chan[o])
    BY DEF Grown
  <2>2. Posted(o)' = Posted(o)
    BY <1>3, <2>1 DEF Posted
  <2>3. Reachable(a) /\ ~sendFailed[a]
    BY <1>0, <2>1 DEF PipeInv
  <2>4. Reachable(a)'
    BY <2>3 DEF Reachable
  <2> QED BY <1>0, <2>1, <2>2, <2>3, <2>4 DEF PipeInv
<1>6. UncutInv(o)'
  <2> SUFFICES ASSUME cut' = {}
               PROVE  /\ ~Has(chan'[o], "abort")
                      /\ readClosed[o] => Arrived(o) = sent[a] /\ EofSent(a)
                      /\ status'[a] = "closed" /\ inRoom[o] => EofSent(a)
                      /\ ~readClosed[o] /\ AllData(chan'[o]) =>
                           closeCall'[a] \in {"none", "draining"}
                      /\ ~readClosed[o] /\ ~AllData(chan'[o]) =>
                           /\ EofSent(a)
                           /\ EofAt(chan'[o], sent[a] - Arrived(o) + 1)
    BY <1>3 DEF UncutInv
  <2>1. /\ ~Has(chan'[o], "abort")
        /\ readClosed[o] => Arrived(o) = sent[a] /\ EofSent(a)
        /\ status'[a] = "closed" /\ inRoom[o] => EofSent(a)
    BY <1>0 DEF UncutInv
  <2>2. ASSUME ~readClosed[o], AllData(chan'[o])
        PROVE  closeCall'[a] \in {"none", "draining"}
    <3>1. AllData(chan[o])
      BY <2>2 DEF Grown
    <3> QED BY <1>0, <2>2, <3>1 DEF UncutInv, PipeInv
  <2>3. ASSUME ~readClosed[o], ~AllData(chan'[o])
        PROVE  /\ EofSent(a)
               /\ EofAt(chan'[o], sent[a] - Arrived(o) + 1)
    <3>1. CASE AllData(chan[o])
      <4>1. Reachable(a) /\ closeCall[a] \in {"none", "draining"}
        BY <1>0, <2>3, <3>1 DEF UncutInv, PipeInv
      <4>2. status'[a] = "closed" /\ inRoom[o]
        BY <2>3, <3>1, <4>1 DEF Reachable
      <4>3. FALSE
        BY <4>1, <4>2 DEF EofSent
      <4> QED BY <4>3
    <3>2. CASE ~AllData(chan[o])
      <4>1. EofSent(a) /\ EofAt(chan[o], sent[a] - Arrived(o) + 1)
        BY <1>0, <2>3, <3>2 DEF UncutInv
      <4>2. sent[a] - Arrived(o) + 1 \in Int
        BY <1>t
      <4> QED BY <4>1, <4>2 DEF Grown
    <3> QED BY <3>1, <3>2
  <2> QED BY <2>1, <2>2, <2>3
<1> QED BY <1>1, <1>2, <1>4, <1>5, <1>6 DEF Direction

(* The direction that is read at an end which reads no more. *)
LEMMA DirectionShut ==
  ASSUME NEW a \in Ends, NEW o \in Ends, o = Other(a), TypeOK,
         Direction(a),
         Shrunk(chan[a], chan'[a]),
         readClosed'[a],
         UNCHANGED <<got[a], items[a], sent[o], closeCall[o], status[o],
                     linkUp, inRoom[o]>>,
         inRoom'[a] => inRoom[a],
         cut' = {} =>
           cut = {} /\ Arrived(a) = sent[o] /\ EofSent(o)
  PROVE  Direction(a)'
<1>0. EofInv(a) /\ LeaveInv(a) /\ OrderInv(a) /\ UncutInv(a)
  BY DEF Direction
<1>1. EofInv(a)' /\ LeaveInv(a)'
  BY <1>0 DEF EofInv, LeaveInv, Shrunk, EofSent
<1>2. Arrived(a)' = Arrived(a)
  BY DEF Arrived
<1>3. OrderInv(a)' /\ PipeInv(a)'
  BY <1>0, <1>2 DEF OrderInv, PipeInv
<1>4. UncutInv(a)'
  BY <1>0, <1>2 DEF UncutInv, Shrunk, EofSent
<1> QED BY <1>1, <1>3, <1>4 DEF Direction

-----------------------------------------------------------------------------
LEMMA ChunkTail ==
  ASSUME NEW q \in Seq(1..MaxChunks), q # << >>
  PROVE  /\ Tail(q) \in Seq(1..MaxChunks)
         /\ Len(q) \in Nat /\ Len(q) > 0
         /\ Len(Tail(q)) = Len(q) - 1
         /\ \A i \in 1..(Len(q) - 1) : Tail(q)[i] = q[i + 1]
         /\ Head(q) = q[1] /\ Head(q) \in 1..MaxChunks
OBVIOUS

LEMMA MoveOne ==
  ASSUME NEW x \in Nat, NEW y \in Nat, NEW u, NEW v, u = x + 1, v = y - 1
  PROVE  u + v = x + y
OBVIOUS

LEMMA ShiftOne ==
  ASSUME NEW x \in Nat, NEW i \in Int, NEW u, u = x + 1
  PROVE  u + i = x + (i + 1)
OBVIOUS

LEMMA ChunkAppend ==
  ASSUME NEW q \in Seq(1..MaxChunks), NEW n \in 1..MaxChunks
  PROVE  /\ Append(q, n) \in Seq(1..MaxChunks)
         /\ Len(q) \in Nat
         /\ Len(Append(q, n)) = Len(q) + 1
         /\ \A i \in 1..Len(q) : Append(q, n)[i] = q[i]
         /\ Append(q, n)[Len(q) + 1] = n
OBVIOUS
-----------------------------------------------------------------------------
(* What end a may do to the room when its stream ends: nothing, or leave. *)
Leaves(a, c) == LeaveRoom(a, c) \/ (chan' = c /\ UNCHANGED inRoom)

LEMMA LeavesEffect ==
  ASSUME TypeOK, NEW c \in Chan, NEW a \in Ends, NEW o \in Ends,
         a = Other(o), Leaves(a, c)
  PROVE  /\ Shrunk(c[a], chan'[a])
         /\ Grown(c[o], chan'[o])
         /\ inRoom'[o] = inRoom[o]
         /\ inRoom'[a] => inRoom[a]
         /\ ~inRoom'[a] => ~inRoom[a] \/ LeaveRoom(a, c)
         /\ inRoom[a] /\ ~inRoom'[a] /\ Reachable(a) => ~AllData(chan'[o])
         /\ Has(chan'[o], "leave") => Has(c[o], "leave") \/ ~inRoom'[a]
         /\ Has(chan'[o], "abort") => Has(c[o], "abort")
<1> o = Other(a) /\ o # a
  BY OtherEnd
<1>1. c[a] \in Seq(Message) /\ c[o] \in Seq(Message)
  BY DEF Chan
<1>2. CASE chan' = c /\ UNCHANGED inRoom
  BY <1>1, <1>2, GrownSame, ShrunkCases
<1>3. CASE LeaveRoom(a, c)
  <2> DEFINE m == Control("leave")
  <2>1. m \in Message /\ m.kind = "leave"
    BY ControlMessages
  <2>2. Grown(c[o], Append(c[o], m))
    BY <1>1, GrownSame, GrownAppend
  <2>3. \A k : Has(Append(c[o], m), k) => Has(c[o], k) \/ k = "leave"
    BY <1>1, <2>1, AppendHas
  <2>4. ~AllData(Append(c[o], m))
    BY <1>1, <2>1, AppendControl
  <2>5. /\ Post(c, a, m) \in Chan
        /\ Reachable(a) => Post(c, a, m)[o] = Append(c[o], m)
        /\ ~Reachable(a) => Post(c, a, m) = c
    BY <2>1, PostIs
  <2>6. /\ chan' = [Post(c, a, m) EXCEPT ![a] = << >>]
        /\ inRoom' = [inRoom EXCEPT ![a] = FALSE]
    BY <1>3 DEF LeaveRoom
  <2>7. ~inRoom'[a] /\ inRoom'[o] = inRoom[o]
    BY <2>6 DEF TypeOK
  <2> HIDE DEF m
  <2>8. chan'[a] = << >> /\ chan'[o] = Post(c, a, m)[o]
    BY <2>5, <2>6 DEF Chan
  <2>9. Shrunk(c[a], << >>)
    BY <1>1, ShrunkCases
  <2>10. CASE Reachable(a)
    BY <1>3, <2>2, <2>3, <2>4, <2>5, <2>7, <2>8, <2>9, <2>10
  <2>11. CASE ~Reachable(a)
    <3>1. chan'[o] = c[o] /\ Grown(c[o], c[o])
      BY <1>1, <2>5, <2>8, <2>11, GrownSame
    <3> QED BY <1>3, <2>7, <2>8, <2>9, <2>11, <3>1
  <2> QED BY <2>10, <2>11
<1> QED BY <1>2, <1>3 DEF Leaves

LEMMA FinalizeEffect ==
  ASSUME TypeOK, NEW a \in Ends, NEW c, Finalize(a, c)
  PROVE  /\ Leaves(a, c)
         /\ finalized'[a] = TRUE
         /\ finalized'[Other(a)] = finalized[Other(a)]
BY OtherEnd DEF Finalize, Leaves, TypeOK

LEMMA ClosesEffect ==
  ASSUME TypeOK, NEW a \in Ends, NEW c,
         status' = [status EXCEPT ![a] = "closed"], Finalize(a, c)
  PROVE  /\ Leaves(a, c)
         /\ status'[a] = "closed" /\ finalized'[a] = TRUE
         /\ status'[Other(a)] = status[Other(a)]
         /\ finalized'[Other(a)] = finalized[Other(a)]
<1>1. status'[a] = "closed" /\ status'[Other(a)] = status[Other(a)]
  BY OtherEnd DEF TypeOK
<1> QED BY <1>1, FinalizeEffect

(* #endRead and #fail settle the waiter and stop the reading. *)
LEMMA ReadEnds ==
  ASSUME TypeOK, NEW a \in Ends, ReaderInv(a), EndRead(a) \/ Fail(a)
  PROVE  /\ readClosed'[a] = TRUE
         /\ readClosed'[Other(a)] = readClosed[Other(a)]
         /\ reader'[Other(a)] = reader[Other(a)]
         /\ items'[a] = items[a] => ReaderInv(a)'
<1>0. Other(a) # a /\ Other(a) \in Ends
  BY OtherEnd
<1>1. CASE readClosed[a] /\ UNCHANGED <<readClosed, reader>>
  BY <1>1 DEF ReaderInv, TypeOK
<1>2. ASSUME NEW outcome \in {"ended", "failed"},
             readClosed' = [readClosed EXCEPT ![a] = TRUE],
             Wake(a, outcome)
      PROVE  /\ readClosed'[a] = TRUE
             /\ readClosed'[Other(a)] = readClosed[Other(a)]
             /\ reader'[Other(a)] = reader[Other(a)]
             /\ items'[a] = items[a] => ReaderInv(a)'
  <2>1. /\ readClosed'[a] = TRUE
        /\ readClosed'[Other(a)] = readClosed[Other(a)]
    BY <1>0, <1>2 DEF TypeOK
  <2>2. /\ reader'[a] = IF reader[a] = "waiting" THEN outcome ELSE reader[a]
        /\ reader'[Other(a)] = reader[Other(a)]
    BY <1>0, <1>2 DEF Wake, TypeOK
  <2>3. items'[a] = items[a] => ReaderInv(a)'
    BY <2>1, <2>2 DEF ReaderInv
  <2> QED BY <2>1, <2>2, <2>3
<1> QED BY <1>1, <1>2 DEF EndRead, Fail
-----------------------------------------------------------------------------
LEMMA SendKeeps ==
  ASSUME IInv, TypeOK', NEW a \in Ends, Send(a)
  PROVE  IInv'
<1> DEFINE o == Other(a)
<1> o \in Ends /\ o # a /\ Other(o) = a
  BY OtherEnd
<1> TypeOK
  BY DEF IInv
<1>1. /\ writeStatus[a] = "writable"
      /\ sent' = [sent EXCEPT ![a] = @ + 1]
      /\ pending' = IF sendFailed[a] THEN pending
                    ELSE [pending EXCEPT ![a] = Append(@, sent[a] + 1)]
      /\ UNCHANGED <<stateVars, readVars, roomVars, sendFailed, closeCall, chan>>
  BY DEF Send
<1>2. /\ sent'[a] = sent[a] + 1 /\ sent'[o] = sent[o]
      /\ pending'[o] = pending[o]
      /\ ~sendFailed[a] => pending'[a] = Append(pending[a], sent[a] + 1)
  BY <1>1 DEF TypeOK
<1>3. Local(a) /\ Direction(a) /\ Local(o) /\ Direction(o)
  BY DEF IInv, EndInv, Local, Direction
<1>4. closeCall[a] = "none"
  BY <1>1, <1>3 DEF Local, CloseInv
<1>5. Local(a)'
  BY <1>1, <1>3, <1>4
  DEF Local, ReaderInv, ClosedInv, CloseInv, stateVars, readVars, roomVars
<1>6. Local(o)'
  BY <1>1, <1>2, <1>3, LocalFrame DEF stateVars, readVars, roomVars
<1>7. Direction(a)'
  BY <1>1, <1>2, <1>3, DirectionFrame DEF stateVars, readVars, roomVars
<1>8. Direction(o)'
  <2>1. EofInv(o)' /\ LeaveInv(o)'
    BY <1>1, <1>3 DEF Direction, EofInv, LeaveInv, EofSent, roomVars
  <2>2. Arrived(o)' = Arrived(o) /\ Posted(o)' = Posted(o)
    BY <1>1 DEF Arrived, Posted, readVars
  <2>7. Arrived(o) \in Nat /\ Posted(o) \in Nat /\ sent[a] \in Nat
    BY Types
  <2>3. Numbered(chan[o], Arrived(o), sent[a]) =>
          Numbered(chan[o], Arrived(o), sent[a] + 1)
    BY <2>7 DEF Numbered
  <2>4. OrderInv(o)'
    BY <1>1, <1>2, <1>3, <2>2, <2>3, <2>7
    DEF Direction, OrderInv, stateVars, readVars
  <2>5. PipeInv(o)'
    <3> SUFFICES ASSUME ~readClosed[o], AllData(chan[o])
                 PROVE  /\ Reachable(a) /\ ~sendFailed[a]
                        /\ sent[a] + 1 = Posted(o) + Len(pending'[a])
                        /\ \A i \in 1..Len(pending'[a]) :
                             pending'[a][i] = Posted(o) + i
      BY <1>1, <1>2, <2>2 DEF PipeInv, Reachable, stateVars, roomVars
    <3>1. /\ Reachable(a) /\ ~sendFailed[a]
          /\ sent[a] = Posted(o) + Len(pending[a])
      BY <1>3 DEF Direction, PipeInv
    <3>7. \A i \in 1..Len(pending[a]) :
            pending[a][i] = Posted(o) + i
      BY <1>3 DEF Direction, PipeInv
    <3>2. pending'[a] = Append(pending[a], sent[a] + 1)
      BY <1>2, <3>1
    <3>3. Len(pending[a]) \in Nat
      BY Types
    <3>8. pending[a] \in Seq(1..MaxChunks)
      BY Types
    <3>4. Len(pending'[a]) = Len(pending[a]) + 1
      BY <3>2, <3>8
    <3>5. ASSUME NEW i \in 1..Len(pending'[a])
          PROVE  pending'[a][i] = Posted(o) + i
      <4>1. CASE i \in 1..Len(pending[a])
        BY <3>7, <3>2, <3>8, <4>1
      <4>2. CASE i = Len(pending[a]) + 1
        <5>1. pending'[a][i] = sent[a] + 1
          BY <3>2, <3>8, <4>2
        <5>2. sent[a] + 1 = Posted(o) + i
          BY <2>7, <3>1, <3>3, <4>2
        <5> QED BY <5>1, <5>2
      <4> QED BY <3>3, <3>4, <4>1, <4>2
    <3>6. sent[a] + 1 = Posted(o) + Len(pending'[a])
      BY <2>7, <3>1, <3>3, <3>4
    <3> QED BY <3>1, <3>5, <3>6
  <2>6. UncutInv(o)'
    BY <1>1, <1>2, <1>3, <1>4, <2>2, <2>7
    DEF Direction, UncutInv, EofSent, stateVars, roomVars
  <2> QED BY <2>1, <2>4, <2>5, <2>6 DEF Direction
<1>9. ~linkUp' => "link" \in cut'
  BY <1>1 DEF IInv, roomVars
<1>10. ASSUME NEW e \in Ends PROVE EndInv(e)'
  BY <1>5, <1>6, <1>7, <1>8, EndCases DEF EndInv, Local, Direction
<1> QED BY <1>9, <1>10 DEF IInv

LEMMA TransmitFailsKeeps ==
  ASSUME IInv, TypeOK', NEW a \in Ends, TransmitFails(a)
  PROVE  IInv'
<1> DEFINE o == Other(a)
<1> o \in Ends /\ o # a /\ Other(o) = a
  BY OtherEnd
<1>0. /\ TypeOK /\ (~linkUp => "link" \in cut)
      /\ Local(a) /\ Direction(a) /\ Local(o) /\ Direction(o)
  BY Unfolded
<1>1. /\ ~Reachable(a)
      /\ pending' = [pending EXCEPT ![a] = << >>]
      /\ sendFailed' = [sendFailed EXCEPT ![a] = TRUE]
      /\ UNCHANGED <<stateVars, readVars, roomVars, closeCall, sent, chan>>
  BY DEF TransmitFails
<1>2. /\ pending'[a] = << >> /\ pending'[o] = pending[o]
      /\ sendFailed'[o] = sendFailed[o]
  BY <1>0, <1>1 DEF TypeOK
<1>3. Local(a)'
  BY <1>0, <1>1, <1>2
  DEF Local, ReaderInv, ClosedInv, CloseInv, stateVars, readVars, roomVars
<1>4. Local(o)'
  BY <1>0, <1>1, <1>2, LocalFrame DEF stateVars, readVars, roomVars
<1>5. Direction(a)'
  BY <1>0, <1>1, <1>2, DirectionFrame DEF stateVars, readVars, roomVars
<1>6. Direction(o)'
  <2>1. Grown(chan[o], chan'[o])
    BY <1>0, <1>1, Types, GrownSame
  <2>2. cut' = {} => (status'[a] = "closed" /\ inRoom[o] => EofSent(a))
    BY <1>0, <1>1 DEF Direction, UncutInv, stateVars, roomVars
  <2> QED BY <1>0, <1>1, <2>1, <2>2, DirectionFed
          DEF EofSent, stateVars, readVars, roomVars
<1>7. (~linkUp => "link" \in cut)'
  BY <1>0, <1>1 DEF roomVars
<1> QED BY <1>3, <1>4, <1>5, <1>6, <1>7, FourParts

LEMMA CloseKeeps ==
  ASSUME IInv, TypeOK', NEW a \in Ends, Close(a)
  PROVE  IInv'
<1> DEFINE o == Other(a)
<1> o \in Ends /\ o # a /\ Other(o) = a
  BY OtherEnd
<1>0. /\ TypeOK /\ (~linkUp => "link" \in cut)
      /\ Local(a) /\ Direction(a) /\ Local(o) /\ Direction(o)
  BY Unfolded
<1>1. /\ writeStatus[a] = "writable"
      /\ writeStatus' = [writeStatus EXCEPT ![a] = "closing"]
      /\ closeCall' = [closeCall EXCEPT ![a] = "draining"]
      /\ UNCHANGED <<readVars, roomVars, chan, status, readClosed, finalized,
                     pending, sendFailed, sent>>
  BY DEF Close
<1>2. /\ writeStatus'[a] = "closing" /\ writeStatus'[o] = writeStatus[o]
      /\ closeCall'[a] = "draining" /\ closeCall'[o] = closeCall[o]
  BY <1>0, <1>1 DEF TypeOK
<1>3. closeCall[a] = "none" /\ status[a] # "closed"
  BY <1>0, <1>1 DEF Local, CloseInv, ClosedInv
<1>4. Local(a)'
  BY <1>0, <1>1, <1>2, <1>3
  DEF Local, ReaderInv, ClosedInv, CloseInv, readVars, roomVars
<1>5. Local(o)'
  BY <1>0, <1>1, <1>2, LocalFrame DEF readVars, roomVars
<1>6. Direction(a)'
  BY <1>0, <1>1, <1>2, DirectionFrame DEF readVars, roomVars
<1>7. Direction(o)'
  <2>1. Grown(chan[o], chan'[o])
    BY <1>0, <1>1, Types, GrownSame
  <2>2. EofSent(a)' <=> EofSent(a)
    BY <1>2, <1>3 DEF EofSent
  <2> QED BY <1>0, <1>1, <1>2, <1>3, <2>1, <2>2, DirectionFed
          DEF readVars, roomVars
<1>8. (~linkUp => "link" \in cut)'
  BY <1>0, <1>1 DEF roomVars
<1> QED BY <1>4, <1>5, <1>6, <1>7, <1>8, FourParts

LEMMA CloseThrowsKeeps ==
  ASSUME IInv, TypeOK', NEW a \in Ends, CloseThrows(a)
  PROVE  IInv'
<1> DEFINE o == Other(a)
<1> o \in Ends /\ o # a /\ Other(o) = a
  BY OtherEnd
<1>0. /\ TypeOK /\ (~linkUp => "link" \in cut)
      /\ Local(a) /\ Direction(a) /\ Local(o) /\ Direction(o)
  BY Unfolded
<1>1. /\ closeCall[a] = "draining"
      /\ pending[a] = << >>
      /\ sendFailed[a] \/ ~Reachable(a)
      /\ closeCall' = [closeCall EXCEPT ![a] = "threw"]
      /\ UNCHANGED <<stateVars, readVars, roomVars, chan,
                     pending, sendFailed, sent>>
  BY DEF CloseThrows
<1>2. closeCall'[a] = "threw" /\ closeCall'[o] = closeCall[o]
  BY <1>0, <1>1 DEF TypeOK
<1>3. Local(a)'
  BY <1>0, <1>1, <1>2
  DEF Local, ReaderInv, ClosedInv, CloseInv, stateVars, readVars, roomVars
<1>4. Local(o)'
  BY <1>0, <1>1, <1>2, LocalFrame DEF stateVars, readVars, roomVars
<1>5. Direction(a)'
  BY <1>0, <1>1, <1>2, DirectionFrame DEF stateVars, readVars, roomVars
<1>6. Direction(o)'
  <2>1. Grown(chan[o], chan'[o])
    BY <1>0, <1>1, Types, GrownSame
  <2>2. EofSent(a)' <=> EofSent(a)
    BY <1>1, <1>2 DEF EofSent
  <2>3. cut' = {} => (status'[a] = "closed" /\ inRoom[o] => EofSent(a))
    BY <1>0, <1>1 DEF Direction, UncutInv, stateVars, roomVars
  <2> QED BY <1>0, <1>1, <2>1, <2>2, <2>3, DirectionFed
          DEF stateVars, readVars, roomVars
<1>7. (~linkUp => "link" \in cut)'
  BY <1>0, <1>1 DEF roomVars
<1> QED BY <1>3, <1>4, <1>5, <1>6, <1>7, FourParts

LEMMA CloseReturnsKeeps ==
  ASSUME IInv, TypeOK', NEW a \in Ends, CloseReturns(a)
  PROVE  IInv'
<1> DEFINE o == Other(a)
<1> o \in Ends /\ o # a /\ Other(o) = a
  BY OtherEnd
<1>0. /\ TypeOK /\ (~linkUp => "link" \in cut)
      /\ Local(a) /\ Direction(a) /\ Local(o) /\ Direction(o)
  BY Unfolded
<1>1. /\ closeCall[a] = "eofSent"
      /\ closeCall' = [closeCall EXCEPT ![a] = "returned"]
      /\ writeStatus' = [writeStatus EXCEPT ![a] = "closed"]
      /\ MaybeFinalize(a, readClosed[a], "closed", chan)
      /\ UNCHANGED <<readVars, pending, sendFailed, sent, readClosed, linkUp,
                     cut>>
  BY DEF CloseReturns
<1>2. /\ closeCall'[a] = "returned" /\ closeCall'[o] = closeCall[o]
      /\ writeStatus'[a] = "closed" /\ writeStatus'[o] = writeStatus[o]
  BY <1>0, <1>1 DEF TypeOK
<1>3. /\ Leaves(a, chan)
      /\ finalized'[o] = finalized[o] /\ status'[o] = status[o]
      /\ readClosed[a] => status'[a] = "closed" /\ finalized'[a] = TRUE
      /\ ~readClosed[a] => UNCHANGED <<chan, inRoom, status, finalized>>
  <2>1. CASE readClosed[a]
    <3>1. status' = [status EXCEPT ![a] = "closed"] /\ Finalize(a, chan)
      BY <1>1, <2>1 DEF MaybeFinalize
    <3> QED BY <1>0, <2>1, <3>1, ClosesEffect
  <2>2. CASE ~readClosed[a]
    BY <1>1, <2>2 DEF MaybeFinalize, Leaves
  <2> QED BY <2>1, <2>2
<1>4. /\ Shrunk(chan[a], chan'[a]) /\ Grown(chan[o], chan'[o])
      /\ inRoom'[o] = inRoom[o]
      /\ inRoom'[a] => inRoom[a]
      /\ inRoom[a] /\ ~inRoom'[a] /\ Reachable(a) => ~AllData(chan'[o])
      /\ Has(chan'[o], "leave") => Has(chan[o], "leave") \/ ~inRoom'[a]
      /\ Has(chan'[o], "abort") => Has(chan[o], "abort")
  BY <1>0, <1>3, Types, LeavesEffect
<1>5. Local(a)'
  <2>1. ReaderInv(a)'
    BY <1>0, <1>1 DEF Local, ReaderInv, readVars
  <2>2. ClosedInv(a)'
    BY <1>0, <1>1, <1>2, <1>3 DEF Local, ClosedInv, TypeOK
  <2>3. CloseInv(a)'
    BY <1>0, <1>1, <1>2 DEF Local, CloseInv
  <2> QED BY <2>1, <2>2, <2>3 DEF Local
<1>6. Local(o)'
  <2>1. UNCHANGED <<reader[o], items[o], readClosed[o], finalized[o],
                    status[o], writeStatus[o], inRoom[o], closeCall[o],
                    pending[o]>>
    BY <1>1, <1>2, <1>3, <1>4 DEF readVars
  <2> QED BY <1>0, <2>1, LocalFrame
<1>7. Direction(a)'
  <2>1. CASE readClosed[a]
    <3>1. cut' = {} => cut = {} /\ Arrived(a) = sent[o] /\ EofSent(o)
      BY <1>0, <1>1, <2>1 DEF Direction, UncutInv
    <3> QED BY <1>0, <1>1, <1>2, <1>3, <1>4, <2>1, <3>1, DirectionShut
            DEF readVars
  <2>2. CASE ~readClosed[a]
    BY <1>0, <1>1, <1>2, <1>3, <2>2, DirectionFrame DEF readVars
  <2> QED BY <2>1, <2>2
<1>8. Direction(o)'
  <2>1. EofSent(a) /\ EofSent(a)'
    BY <1>1, <1>2 DEF EofSent
  <2>2. CASE readClosed[a]
    BY <1>0, <1>1, <1>2, <1>3, <1>4, <2>1, <2>2, DirectionFed DEF readVars
  <2>3. CASE ~readClosed[a]
    BY <1>0, <1>1, <1>2, <1>3, <1>4, <2>1, <2>3, DirectionFed DEF readVars
  <2> QED BY <2>2, <2>3
<1>9. (~linkUp => "link" \in cut)'
  BY <1>0, <1>1
<1> QED BY <1>5, <1>6, <1>7, <1>8, <1>9, FourParts

LEMMA CloseSendsEofKeeps ==
  ASSUME IInv, TypeOK', NEW a \in Ends, CloseSendsEof(a)
  PROVE  IInv'
<1> DEFINE o == Other(a)
<1> DEFINE m == Control("eof")
<1> o \in Ends /\ o # a /\ Other(o) = a
  BY OtherEnd
<1>0. /\ TypeOK /\ (~linkUp => "link" \in cut)
      /\ Local(a) /\ Direction(a) /\ Local(o) /\ Direction(o)
  BY Unfolded
<1>1. /\ closeCall[a] = "draining"
      /\ pending[a] = << >>
      /\ closeCall' = [closeCall EXCEPT ![a] = "eofSent"]
      /\ chan' = Post(chan, a, m)
      /\ UNCHANGED <<stateVars, readVars, roomVars, pending, sendFailed, sent>>
  BY DEF CloseSendsEof, Drained
<1>2. closeCall'[a] = "eofSent" /\ closeCall'[o] = closeCall[o]
  BY <1>0, <1>1 DEF TypeOK
<1>3. EofSent(a)' /\ ~EofSent(a)
  BY <1>1, <1>2 DEF EofSent
<1>4. m \in Message /\ m.kind = "eof"
  BY ControlMessages
<1> HIDE DEF m
<1>5. /\ chan'[a] = chan[a]
      /\ Reachable(a) => chan'[o] = Append(chan[o], m)
      /\ ~Reachable(a) => chan'[o] = chan[o]
  BY <1>0, <1>1, <1>4, Types, PostIs
<1>6. Local(a)'
  BY <1>0, <1>1, <1>2
  DEF Local, ReaderInv, ClosedInv, CloseInv, stateVars, readVars, roomVars
<1>7. Local(o)'
  BY <1>0, <1>1, <1>2, LocalFrame DEF stateVars, readVars, roomVars
<1>8. Direction(a)'
  BY <1>0, <1>1, <1>2, <1>5, DirectionFrame DEF stateVars, readVars, roomVars
<1>9. Direction(o)'
  <2>0. EofInv(o) /\ LeaveInv(o) /\ OrderInv(o) /\ PipeInv(o) /\ UncutInv(o)
    BY <1>0 DEF Direction
  <2>1. /\ chan[o] \in Seq(Message)
        /\ Arrived(o) \in Nat /\ Posted(o) \in Nat /\ sent[a] \in Nat
    BY <1>0, Types
  <2>2. Arrived(o)' = Arrived(o)
    BY <1>1 DEF Arrived, readVars
  <2>3. EofLast(chan'[o])
    BY <2>0, <2>1, <1>4, <1>5, AppendEofLast DEF EofInv
  <2>4. \A k : Has(chan'[o], k) => Has(chan[o], k) \/ k = "eof"
    <3>1. \A k : Has(Append(chan[o], m), k) => Has(chan[o], k) \/ k = "eof"
      BY <2>1, <1>4, AppendHas
    <3> QED BY <1>5, <3>1
  <2>5. Reachable(a) => ~AllData(chan'[o])
    BY <2>1, <1>4, <1>5, AppendControl
  <2>6. Numbered(chan[o], Arrived(o), sent[a]) =>
          Numbered(chan'[o], Arrived(o), sent[a])
    BY <2>1, <1>4, <1>5, AppendControl
  <2>7. ~readClosed[o] => ~AllData(chan'[o])
    BY <1>5, <2>0, <2>5 DEF PipeInv
  <2>8. EofInv(o)' /\ LeaveInv(o)'
    BY <1>1, <1>3, <2>0, <2>3, <2>4 DEF EofInv, LeaveInv, roomVars
  <2>9. OrderInv(o)'
    BY <1>1, <2>0, <2>2, <2>6 DEF OrderInv, stateVars, readVars
  <2>10. PipeInv(o)'
    BY <1>1, <2>7 DEF PipeInv, stateVars
  <2>11. ASSUME cut = {}, ~readClosed[o]
         PROVE  EofAt(chan'[o], sent[a] - Arrived(o) + 1)
    <3>1. AllData(chan[o])
      BY <1>3, <2>0, <2>11 DEF UncutInv
    <3>2. Reachable(a) /\ sent[a] = Posted(o) + Len(pending[a])
      BY <2>0, <2>11, <3>1 DEF PipeInv
    <3>3. Len(pending[a]) = 0
      BY <1>1
    <3>4. sent[a] - Arrived(o) + 1 = Len(chan[o]) + 1
      BY <2>1, <3>2, <3>3 DEF Posted
    <3> QED BY <1>4, <1>5, <2>1, <3>1, <3>2, <3>4, AppendControl
  <2>12. UncutInv(o)'
    BY <1>1, <1>3, <2>0, <2>2, <2>4, <2>7, <2>11
    DEF UncutInv, stateVars, readVars, roomVars
  <2> QED BY <2>8, <2>9, <2>10, <2>12 DEF Direction
<1>10. (~linkUp => "link" \in cut)'
  BY <1>0, <1>1 DEF roomVars
<1> QED BY <1>6, <1>7, <1>8, <1>9, <1>10, FourParts

LEMMA AbortKeeps ==
  ASSUME IInv, TypeOK', NEW a \in Ends, Abort(a)
  PROVE  IInv'
<1> DEFINE o == Other(a)
<1> DEFINE c == Post(chan, a, Control("abort"))
<1> o \in Ends /\ o # a /\ Other(o) = a
  BY OtherEnd
<1>0. /\ TypeOK /\ (~linkUp => "link" \in cut)
      /\ Local(a) /\ Direction(a) /\ Local(o) /\ Direction(o)
  BY Unfolded
<1>1. /\ status' = [status EXCEPT ![a] = "closed"]
      /\ writeStatus' = [writeStatus EXCEPT ![a] = "closed"]
      /\ Fail(a)
      /\ Finalize(a, c)
      /\ cut' = cut \cup {a}
      /\ UNCHANGED <<writeVars, items, got, linkUp>>
  BY DEF Abort
<1>2. writeStatus'[a] = "closed" /\ writeStatus'[o] = writeStatus[o]
  BY <1>0, <1>1 DEF TypeOK
<1>3. /\ c \in Chan /\ c[a] = chan[a]
      /\ Grown(chan[o], c[o])
      /\ Reachable(a) => ~AllData(c[o])
      /\ \A k : Has(c[o], k) => Has(chan[o], k) \/ k = "abort"
  <2>1. chan \in Chan /\ chan[o] \in Seq(Message)
    BY <1>0, Types
  <2>2. Control("abort") \in Message /\ Control("abort").kind = "abort"
    BY ControlMessages
  <2>3. /\ c \in Chan /\ c[a] = chan[a]
        /\ Reachable(a) => c[o] = Append(chan[o], Control("abort"))
        /\ ~Reachable(a) => c[o] = chan[o]
    BY <2>1, <2>2, PostIs
  <2>4. Grown(chan[o], chan[o]) /\ Grown(chan[o], Append(chan[o], Control("abort")))
    BY <2>1, GrownSame, GrownAppend
  <2>5. ~AllData(Append(chan[o], Control("abort")))
    BY <2>1, <2>2, AppendControl
  <2>6. \A k : Has(Append(chan[o], Control("abort")), k) =>
                 Has(chan[o], k) \/ k = "abort"
    BY <2>1, <2>2, AppendHas
  <2> QED BY <2>3, <2>4, <2>5, <2>6
<1>4. /\ Leaves(a, c)
      /\ status'[a] = "closed" /\ finalized'[a] = TRUE
      /\ status'[o] = status[o] /\ finalized'[o] = finalized[o]
  BY <1>0, <1>1, ClosesEffect
<1> HIDE DEF c
<1>5. /\ Shrunk(chan[a], chan'[a]) /\ Grown(c[o], chan'[o])
      /\ inRoom'[o] = inRoom[o]
      /\ inRoom'[a] => inRoom[a]
      /\ Has(chan'[o], "leave") => Has(c[o], "leave") \/ ~inRoom'[a]
  BY <1>0, <1>3, <1>4, LeavesEffect
<1>6. /\ readClosed'[a] = TRUE /\ readClosed'[o] = readClosed[o]
      /\ reader'[o] = reader[o]
      /\ ReaderInv(a)'
  BY <1>0, <1>1, ReadEnds DEF Local
<1>7. Local(a)'
  <2>1. ClosedInv(a)'
    BY <1>2, <1>4, <1>6 DEF ClosedInv
  <2>2. CloseInv(a)'
    BY <1>0, <1>1, <1>2, <1>4 DEF Local, CloseInv, writeVars
  <2> QED BY <1>6, <2>1, <2>2 DEF Local
<1>8. Local(o)'
  <2>1. UNCHANGED <<reader[o], items[o], readClosed[o], finalized[o],
                    status[o], writeStatus[o], inRoom[o], closeCall[o],
                    pending[o]>>
    BY <1>1, <1>2, <1>4, <1>5, <1>6 DEF writeVars
  <2> QED BY <1>0, <2>1, LocalFrame
<1>9. cut' # {}
  BY <1>1
<1>10. Direction(a)'
  BY <1>0, <1>1, <1>4, <1>5, <1>6, <1>9, DirectionShut DEF writeVars
<1>11. Direction(o)'
  <2>1. Grown(chan[o], chan'[o])
    BY <1>3, <1>5 DEF Grown
  <2>2. Reachable(a) => ~AllData(chan'[o])
    BY <1>3, <1>5 DEF Grown
  <2>3. Has(chan'[o], "leave") => Has(chan[o], "leave") \/ ~inRoom'[a]
    BY <1>3, <1>5
  <2>4. EofSent(a)' <=> EofSent(a)
    BY <1>1 DEF EofSent, writeVars
  <2> QED BY <1>0, <1>1, <1>5, <1>6, <1>9, <2>1, <2>2, <2>3, <2>4,
             DirectionFed DEF writeVars
<1>12. (~linkUp => "link" \in cut)'
  BY <1>0, <1>1
<1> QED BY <1>7, <1>8, <1>10, <1>11, <1>12, FourParts

LEMMA ReceiveEofKeeps ==
  ASSUME IInv, TypeOK', NEW a \in Ends, ReceiveEof(a)
  PROVE  IInv'
<1> DEFINE o == Other(a)
<1> DEFINE c == Taken(a)
<1> o \in Ends /\ o # a /\ Other(o) = a
  BY OtherEnd
<1>0. /\ TypeOK /\ (~linkUp => "link" \in cut)
      /\ Local(a) /\ Direction(a) /\ Local(o) /\ Direction(o)
  BY Unfolded
<1>1. /\ chan[a] # << >> /\ Head(chan[a]).kind = "eof"
      /\ EndRead(a)
      /\ MaybeFinalize(a, TRUE, writeStatus[a], c)
      /\ UNCHANGED <<writeVars, writeStatus, items, got, linkUp, cut>>
  BY DEF ReceiveEof, Arriving
<1>2. chan[a] \in Seq(Message) /\ chan[o] \in Seq(Message)
  BY <1>0, Types
<1>3. c \in Chan /\ c[a] = Tail(chan[a]) /\ c[o] = chan[o]
  BY <1>0, <1>1, Types, TakenIs
<1>4. /\ Leaves(a, c)
      /\ status'[o] = status[o] /\ finalized'[o] = finalized[o]
      /\ writeStatus[a] = "closed" =>
           status'[a] = "closed" /\ finalized'[a] = TRUE
      /\ writeStatus[a] # "closed" =>
           chan' = c /\ UNCHANGED <<inRoom, status, finalized>>
  <2>1. CASE writeStatus[a] = "closed"
    <3>1. status' = [status EXCEPT ![a] = "closed"] /\ Finalize(a, c)
      BY <1>1, <2>1 DEF MaybeFinalize
    <3> QED BY <1>0, <2>1, <3>1, ClosesEffect
  <2>2. CASE writeStatus[a] # "closed"
    BY <1>1, <2>2 DEF MaybeFinalize, Leaves
  <2> QED BY <2>1, <2>2
<1> HIDE DEF c
<1>5. /\ Shrunk(c[a], chan'[a]) /\ Grown(chan[o], chan'[o])
      /\ inRoom'[o] = inRoom[o]
      /\ inRoom'[a] => inRoom[a]
      /\ inRoom[a] /\ ~inRoom'[a] /\ Reachable(a) => ~AllData(chan'[o])
      /\ Has(chan'[o], "leave") => Has(chan[o], "leave") \/ ~inRoom'[a]
      /\ Has(chan'[o], "abort") => Has(chan[o], "abort")
  BY <1>0, <1>3, <1>4, LeavesEffect
<1>6. Shrunk(chan[a], chan'[a])
  BY <1>1, <1>2, <1>3, <1>5, ShrunkCases DEF Shrunk
<1>7. /\ readClosed'[a] = TRUE /\ readClosed'[o] = readClosed[o]
      /\ reader'[o] = reader[o]
      /\ ReaderInv(a)'
  BY <1>0, <1>1, ReadEnds DEF Local
<1>8. Local(a)'
  <2>1. ClosedInv(a)'
    BY <1>0, <1>1, <1>4, <1>5, <1>7 DEF Local, ClosedInv
  <2>2. CloseInv(a)'
    BY <1>0, <1>1, <1>4 DEF Local, CloseInv, writeVars
  <2> QED BY <1>7, <2>1, <2>2 DEF Local
<1>9. Local(o)'
  <2>1. UNCHANGED <<reader[o], items[o], readClosed[o], finalized[o],
                    status[o], writeStatus[o], inRoom[o], closeCall[o],
                    pending[o]>>
    BY <1>1, <1>4, <1>5, <1>7 DEF writeVars
  <2> QED BY <1>0, <2>1, LocalFrame
<1>10. cut = {} => Arrived(a) = sent[o] /\ EofSent(o)
  <2> SUFFICES ASSUME cut = {} PROVE Arrived(a) = sent[o] /\ EofSent(o)
    OBVIOUS
  <2>0. UncutInv(a)
    BY <1>0 DEF Direction
  <2>1. CASE readClosed[a]
    BY <2>0, <2>1 DEF UncutInv
  <2>2. CASE ~readClosed[a]
    <3>1. ~AllData(chan[a])
      BY <1>1, <1>2, HeadNotData
    <3>2. EofSent(o) /\ EofAt(chan[a], sent[o] - Arrived(a) + 1)
      BY <2>0, <2>2, <3>1 DEF UncutInv
    <3>3. sent[o] \in Nat /\ Arrived(a) \in Nat
      BY <1>0, Types
    <3>4. sent[o] - Arrived(a) + 1 = 1
      BY <1>1, <1>2, <3>2, <3>3, EofAtHead
    <3> QED BY <3>2, <3>3, <3>4
  <2> QED BY <2>1, <2>2
<1>11. Direction(a)'
  BY <1>0, <1>1, <1>4, <1>5, <1>6, <1>7, <1>10, DirectionShut DEF writeVars
<1>12. Direction(o)'
  <2>1. EofSent(a)' <=> EofSent(a)
    BY <1>1 DEF EofSent, writeVars
  <2>2. cut = {} /\ status'[a] = "closed" /\ inRoom[o] => EofSent(a)
    <3>1. cut = {} /\ status[a] = "closed" /\ inRoom[o] => EofSent(a)
      BY <1>0 DEF Direction, UncutInv
    <3>2. CASE writeStatus[a] = "closed"
      <4>1. status[a] = "open" => closeCall[a] = "returned"
        BY <1>0, <3>2 DEF Local, CloseInv
      <4>2. status[a] \in {"open", "closed"}
        BY <1>0 DEF TypeOK
      <4> QED BY <3>1, <4>1, <4>2 DEF EofSent
    <3>3. CASE writeStatus[a] # "closed"
      BY <1>4, <3>1, <3>3
    <3> QED BY <3>2, <3>3
  <2>3. Reachable(a) /\ AllData(chan[o]) /\ ~AllData(chan'[o]) =>
          status'[a] = "closed"
    BY <1>3, <1>4
  <2> QED BY <1>0, <1>1, <1>5, <1>7, <2>1, <2>2, <2>3, DirectionFed
          DEF writeVars
<1>13. (~linkUp => "link" \in cut)'
  BY <1>0, <1>1
<1> QED BY <1>8, <1>9, <1>11, <1>12, <1>13, FourParts

LEMMA ReceiveAbortKeeps ==
  ASSUME IInv, TypeOK', NEW a \in Ends, ReceiveAbort(a)
  PROVE  IInv'
<1> DEFINE o == Other(a)
<1> DEFINE c == Taken(a)
<1> o \in Ends /\ o # a /\ Other(o) = a
  BY OtherEnd
<1>0. /\ TypeOK /\ (~linkUp => "link" \in cut)
      /\ Local(a) /\ Direction(a) /\ Local(o) /\ Direction(o)
  BY Unfolded
<1>1. /\ chan[a] # << >> /\ Head(chan[a]).kind = "abort"
      /\ status' = [status EXCEPT ![a] = "closed"]
      /\ writeStatus' = [writeStatus EXCEPT ![a] = "closed"]
      /\ Fail(a)
      /\ Finalize(a, c)
      /\ UNCHANGED <<writeVars, items, got, linkUp, cut>>
  BY DEF ReceiveAbort, Arriving
<1>2. chan[a] \in Seq(Message) /\ chan[o] \in Seq(Message)
  BY <1>0, Types
<1>3. c \in Chan /\ c[a] = Tail(chan[a]) /\ c[o] = chan[o]
  BY <1>0, <1>1, Types, TakenIs
<1>4. /\ Leaves(a, c)
      /\ status'[a] = "closed" /\ finalized'[a] = TRUE
      /\ status'[o] = status[o] /\ finalized'[o] = finalized[o]
      /\ writeStatus'[a] = "closed" /\ writeStatus'[o] = writeStatus[o]
  <2>1. writeStatus'[a] = "closed" /\ writeStatus'[o] = writeStatus[o]
    BY <1>0, <1>1 DEF TypeOK
  <2> QED BY <1>0, <1>1, <2>1, ClosesEffect
<1> HIDE DEF c
<1>5. /\ Shrunk(c[a], chan'[a]) /\ Grown(chan[o], chan'[o])
      /\ inRoom'[o] = inRoom[o]
      /\ inRoom'[a] => inRoom[a]
      /\ inRoom[a] /\ ~inRoom'[a] /\ Reachable(a) => ~AllData(chan'[o])
      /\ Has(chan'[o], "leave") => Has(chan[o], "leave") \/ ~inRoom'[a]
  BY <1>0, <1>3, <1>4, LeavesEffect
<1>6. Shrunk(chan[a], chan'[a])
  BY <1>1, <1>2, <1>3, <1>5, ShrunkCases DEF Shrunk
<1>7. /\ readClosed'[a] = TRUE /\ readClosed'[o] = readClosed[o]
      /\ reader'[o] = reader[o]
      /\ ReaderInv(a)'
  BY <1>0, <1>1, ReadEnds DEF Local
<1>8. Local(a)'
  <2>1. ClosedInv(a)'
    BY <1>4, <1>7 DEF ClosedInv
  <2>2. CloseInv(a)'
    BY <1>0, <1>1, <1>4 DEF Local, CloseInv, writeVars
  <2> QED BY <1>7, <2>1, <2>2 DEF Local
<1>9. Local(o)'
  <2>1. UNCHANGED <<reader[o], items[o], readClosed[o], finalized[o],
                    status[o], writeStatus[o], inRoom[o], closeCall[o],
                    pending[o]>>
    BY <1>1, <1>4, <1>5, <1>7 DEF writeVars
  <2> QED BY <1>0, <2>1, LocalFrame
<1>10. cut # {}
  <2>1. Has(chan[a], "abort")
    BY <1>1, <1>2, HeadNotData
  <2> QED BY <1>0, <2>1 DEF Direction, UncutInv
<1>11. Direction(a)'
  BY <1>0, <1>1, <1>4, <1>5, <1>6, <1>7, <1>10, DirectionShut DEF writeVars
<1>12. Direction(o)'
  <2>1. EofSent(a)' <=> EofSent(a)
    BY <1>1 DEF EofSent, writeVars
  <2> QED BY <1>0, <1>1, <1>5, <1>7, <1>10, <2>1, DirectionFed
          DEF writeVars
<1>13. (~linkUp => "link" \in cut)'
  BY <1>0, <1>1
<1> QED BY <1>8, <1>9, <1>11, <1>12, <1>13, FourParts

LEMMA ReceiveLeaveKeeps ==
  ASSUME IInv, TypeOK', NEW a \in Ends, ReceiveLeave(a)
  PROVE  IInv'
<1> DEFINE o == Other(a)
<1> DEFINE c == Taken(a)
<1> o \in Ends /\ o # a /\ Other(o) = a
  BY OtherEnd
<1>0. /\ TypeOK /\ (~linkUp => "link" \in cut)
      /\ Local(a) /\ Direction(a) /\ Local(o) /\ Direction(o)
  BY Unfolded
<1>1. /\ inRoom[a] /\ chan[a] # << >> /\ Head(chan[a]).kind = "leave"
      /\ UNCHANGED <<writeVars, items, got, linkUp, cut>>
      /\ status[a] = "closed" =>
           chan' = c /\ UNCHANGED <<stateVars, reader, inRoom>>
      /\ status[a] # "closed" =>
           /\ status' = [status EXCEPT ![a] = "closed"]
           /\ writeStatus' = [writeStatus EXCEPT ![a] = "closed"]
           /\ EndRead(a)
           /\ Finalize(a, c)
  BY DEF ReceiveLeave, Arriving
<1>2. chan[a] \in Seq(Message) /\ chan[o] \in Seq(Message)
  BY <1>0, Types
<1>3. c \in Chan /\ c[a] = Tail(chan[a]) /\ c[o] = chan[o]
  BY <1>0, <1>1, Types, TakenIs
<1> HIDE DEF c
<1>4. (~linkUp => "link" \in cut)'
  BY <1>0, <1>1
<1>5. CASE status[a] = "closed"
  <2>1. readClosed[a] /\ readClosed'[a]
    BY <1>0, <1>1, <1>5 DEF Local, ClosedInv, stateVars
  <2>2. Shrunk(chan[a], chan'[a])
    BY <1>1, <1>2, <1>3, <1>5, ShrunkCases
  <2>3. Local(a)' /\ Local(o)'
    BY <1>0, <1>1, <1>5, LocalFrame DEF writeVars, stateVars
  <2>4. cut = {} => Arrived(a) = sent[o] /\ EofSent(o)
    BY <1>0, <2>1 DEF Direction, UncutInv
  <2>5. Direction(a)'
    BY <1>0, <1>1, <1>5, <2>1, <2>2, <2>4, DirectionShut
    DEF writeVars, stateVars
  <2>6. Direction(o)'
    BY <1>0, <1>1, <1>3, <1>5, DirectionFrame DEF writeVars, stateVars
  <2> QED BY <1>0, <1>4, <2>3, <2>5, <2>6, FourParts
<1>6. CASE status[a] # "closed"
  <2>1. /\ Leaves(a, c)
        /\ status'[a] = "closed" /\ finalized'[a] = TRUE
        /\ status'[o] = status[o] /\ finalized'[o] = finalized[o]
    BY <1>0, <1>1, <1>6, ClosesEffect
  <2>2. writeStatus'[a] = "closed" /\ writeStatus'[o] = writeStatus[o]
    BY <1>0, <1>1, <1>6 DEF TypeOK
  <2>3. /\ Shrunk(c[a], chan'[a]) /\ Grown(chan[o], chan'[o])
        /\ inRoom'[o] = inRoom[o]
        /\ inRoom'[a] => inRoom[a]
        /\ inRoom[a] /\ ~inRoom'[a] /\ Reachable(a) => ~AllData(chan'[o])
        /\ Has(chan'[o], "leave") => Has(chan[o], "leave") \/ ~inRoom'[a]
        /\ Has(chan'[o], "abort") => Has(chan[o], "abort")
    BY <1>0, <1>3, <2>1, LeavesEffect
  <2>4. Shrunk(chan[a], chan'[a])
    BY <1>1, <1>2, <1>3, <2>3, ShrunkCases DEF Shrunk
  <2>5. /\ readClosed'[a] = TRUE /\ readClosed'[o] = readClosed[o]
        /\ reader'[o] = reader[o]
        /\ ReaderInv(a)'
    BY <1>0, <1>1, <1>6, ReadEnds DEF Local
  <2>6. Local(a)'
    <3>1. ClosedInv(a)'
      BY <2>1, <2>2, <2>5 DEF ClosedInv
    <3>2. CloseInv(a)'
      BY <1>0, <1>1, <2>1, <2>2 DEF Local, CloseInv, writeVars
    <3> QED BY <2>5, <3>1, <3>2 DEF Local
  <2>7. Local(o)'
    <3>1. UNCHANGED <<reader[o], items[o], readClosed[o], finalized[o],
                      status[o], writeStatus[o], inRoom[o], closeCall[o],
                      pending[o]>>
      BY <1>1, <2>1, <2>2, <2>3, <2>5 DEF writeVars
    <3> QED BY <1>0, <3>1, LocalFrame
  <2>8. cut = {} => ~inRoom[o] /\ Arrived(a) = sent[o] /\ EofSent(o)
    <3> SUFFICES ASSUME cut = {}
                 PROVE  ~inRoom[o] /\ Arrived(a) = sent[o] /\ EofSent(o)
      OBVIOUS
    <3>1. Has(chan[a], "leave") /\ ~AllData(chan[a])
      BY <1>1, <1>2, HeadNotData
    <3>2. ~inRoom[o]
      BY <1>0, <3>1 DEF Direction, LeaveInv
    <3>3. CASE readClosed[a]
      BY <1>0, <3>2, <3>3 DEF Direction, UncutInv
    <3>4. CASE ~readClosed[a]
      <4>1. EofAt(chan[a], sent[o] - Arrived(a) + 1)
        BY <1>0, <3>1, <3>4 DEF Direction, UncutInv
      <4>2. sent[o] - Arrived(a) + 1 \in Int
        BY <1>0, Types
      <4>3. FALSE
        BY <1>1, <1>2, <4>1, <4>2, EofAtHead
      <4> QED BY <4>3
    <3> QED BY <3>3, <3>4
  <2>9. Direction(a)'
    BY <1>0, <1>1, <2>1, <2>3, <2>4, <2>5, <2>8, DirectionShut DEF writeVars
  <2>10. Direction(o)'
    <3>1. EofSent(a)' <=> EofSent(a)
      BY <1>1 DEF EofSent, writeVars
    <3> QED BY <1>0, <1>1, <2>1, <2>3, <2>5, <2>8, <3>1, DirectionFed
            DEF writeVars
  <2> QED BY <1>4, <2>6, <2>7, <2>9, <2>10, FourParts
<1> QED BY <1>5, <1>6

LEMMA HubCloseKeeps ==
  ASSUME IInv, TypeOK', NEW a \in Ends, HubClose(a)
  PROVE  IInv'
<1> DEFINE o == Other(a)
<1> o \in Ends /\ o # a /\ Other(o) = a
  BY OtherEnd
<1>0. /\ TypeOK /\ (~linkUp => "link" \in cut)
      /\ Local(a) /\ Direction(a) /\ Local(o) /\ Direction(o)
  BY Unfolded
<1>1. /\ LeaveRoom(a, chan)
      /\ UNCHANGED <<writeVars, items, got, linkUp>>
      /\ status[a] = "closed" => UNCHANGED <<stateVars, reader, cut>>
      /\ status[a] # "closed" =>
           /\ status' = [status EXCEPT ![a] = "closed"]
           /\ writeStatus' = [writeStatus EXCEPT ![a] = "closed"]
           /\ EndRead(a)
           /\ finalized' = [finalized EXCEPT ![a] = TRUE]
           /\ cut' = cut \cup {a}
  BY DEF HubClose
<1>2. /\ Shrunk(chan[a], chan'[a]) /\ Grown(chan[o], chan'[o])
      /\ inRoom'[o] = inRoom[o]
      /\ inRoom'[a] => inRoom[a]
      /\ inRoom[a] /\ ~inRoom'[a] /\ Reachable(a) => ~AllData(chan'[o])
      /\ Has(chan'[o], "leave") => Has(chan[o], "leave") \/ ~inRoom'[a]
      /\ Has(chan'[o], "abort") => Has(chan[o], "abort")
  BY <1>0, <1>1, Types, LeavesEffect DEF Leaves
<1>3. /\ status'[a] = "closed" /\ finalized'[a] = TRUE
      /\ writeStatus'[a] = "closed" /\ readClosed'[a] = TRUE
      /\ ReaderInv(a)'
      /\ UNCHANGED <<status[o], finalized[o], writeStatus[o], readClosed[o],
                     reader[o]>>
  <2>1. CASE status[a] = "closed"
    BY <1>0, <1>1, <2>1
    DEF Local, ClosedInv, ReaderInv, TypeOK, stateVars
  <2>2. CASE status[a] # "closed"
    <3>1. /\ status'[a] = "closed" /\ status'[o] = status[o]
          /\ finalized'[a] = TRUE /\ finalized'[o] = finalized[o]
      BY <1>0, <1>1, <2>2 DEF TypeOK
    <3>2. writeStatus'[a] = "closed" /\ writeStatus'[o] = writeStatus[o]
      BY <1>0, <1>1, <2>2 DEF TypeOK
    <3>3. /\ readClosed'[a] = TRUE /\ readClosed'[o] = readClosed[o]
          /\ reader'[o] = reader[o]
          /\ ReaderInv(a)'
      BY <1>0, <1>1, <2>2, ReadEnds DEF Local
    <3> QED BY <3>1, <3>2, <3>3
  <2> QED BY <2>1, <2>2
<1>4. Local(a)'
  <2>1. ClosedInv(a)' /\ CloseInv(a)'
    BY <1>0, <1>1, <1>3 DEF Local, ClosedInv, CloseInv, writeVars
  <2> QED BY <1>3, <2>1 DEF Local
<1>5. Local(o)'
  BY <1>0, <1>1, <1>2, <1>3, LocalFrame DEF writeVars
<1>6. cut' = {} =>
        /\ cut = {} /\ Arrived(a) = sent[o] /\ EofSent(o)
        /\ inRoom[o] => EofSent(a)
  <2>1. cut' = {} => cut = {} /\ status[a] = "closed"
    BY <1>1
  <2>2. status[a] = "closed" => readClosed[a]
    BY <1>0 DEF Local, ClosedInv
  <2> QED BY <1>0, <2>1, <2>2 DEF Direction, UncutInv
<1>7. Direction(a)'
  BY <1>0, <1>1, <1>2, <1>3, <1>6, DirectionShut DEF writeVars
<1>8. Direction(o)'
  <2>1. EofSent(a)' <=> EofSent(a)
    BY <1>1 DEF EofSent, writeVars
  <2> QED BY <1>0, <1>1, <1>2, <1>3, <1>6, <2>1, DirectionFed DEF writeVars
<1>9. (~linkUp => "link" \in cut)'
  <2>1. cut \subseteq cut'
    BY <1>1
  <2> QED BY <1>0, <1>1, <2>1
<1> QED BY <1>4, <1>5, <1>7, <1>8, <1>9, FourParts

LEMMA DisconnectKeeps ==
  ASSUME IInv, TypeOK', Disconnect
  PROVE  IInv'
<1>1. /\ linkUp' = FALSE /\ "link" \in cut' /\ cut' # {}
      /\ chan' = [e \in Ends |-> IF inRoom[e] THEN <<Control("leave")>>
                                 ELSE << >>]
      /\ UNCHANGED <<stateVars, writeVars, readVars, inRoom>>
  BY DEF Disconnect
<1>2. ASSUME NEW e \in Ends PROVE EndInv(e)'
  <2>0. TypeOK /\ Local(e) /\ Direction(e)
    BY Unfolded
  <2>1. /\ EofLast(chan'[e]) /\ ~Has(chan'[e], "eof")
        /\ \A base, max \in Nat : Numbered(chan'[e], base, max)
        /\ inRoom[e] => ~AllData(chan'[e])
    <3>1. CASE inRoom[e]
      <4>1. /\ chan'[e] = Append(<< >>, Control("leave"))
            /\ Control("leave") \in Message
            /\ Control("leave").kind = "leave"
        BY <1>1, <3>1, ControlMessages
      <4>2. \A base, max \in Nat : Numbered(<< >>, base, max)
        BY DEF Numbered
      <4>3. EofLast(chan'[e]) /\ ~AllData(chan'[e])
        BY <4>1, EmptyChannel, AppendEofLast, AppendControl
      <4>4. ~Has(chan'[e], "eof")
        BY <4>1, EmptyChannel, AppendHas
      <4>5. \A base, max \in Nat : Numbered(chan'[e], base, max)
        BY <4>1, <4>2, EmptyChannel, AppendControl
      <4> QED BY <4>3, <4>4, <4>5
    <3>2. CASE ~inRoom[e]
      <4>1. chan'[e] = << >>
        BY <1>1, <3>2
      <4>2. \A base, max \in Nat : Numbered(<< >>, base, max)
        BY DEF Numbered
      <4> QED BY <3>2, <4>1, <4>2, EmptyChannel
    <3> QED BY <3>1, <3>2
  <2>2. Local(e)'
    BY <1>1, <2>0, LocalFrame DEF stateVars, writeVars, readVars
  <2>3. ~inRoom[e] => readClosed[e]
    BY <2>0 DEF Local, ClosedInv
  <2>4. Arrived(e)' = Arrived(e) /\ Arrived(e) \in Nat
        /\ sent[Other(e)] \in Nat
    BY <1>1, <2>0, OtherEnd, Types DEF Arrived, readVars
  <2>5. EofInv(e)' /\ LeaveInv(e)' /\ UncutInv(e)'
    BY <1>1, <2>1 DEF EofInv, LeaveInv, UncutInv
  <2>6. OrderInv(e)'
    BY <1>1, <2>0, <2>1, <2>4
    DEF Direction, OrderInv, stateVars, writeVars, readVars
  <2>7. PipeInv(e)'
    BY <1>1, <2>1, <2>3 DEF PipeInv, stateVars
  <2> QED BY <2>2, <2>5, <2>6, <2>7 DEF EndInv, Local
<1> QED BY <1>1, <1>2 DEF IInv

LEMMA TransmitKeeps ==
  ASSUME IInv, TypeOK', NEW a \in Ends, Transmit(a)
  PROVE  IInv'
<1> DEFINE o == Other(a)
<1> DEFINE m == Data(Head(pending[a]))
<1> o \in Ends /\ o # a /\ Other(o) = a
  BY OtherEnd
<1>0. /\ TypeOK /\ (~linkUp => "link" \in cut)
      /\ Local(a) /\ Direction(a) /\ Local(o) /\ Direction(o)
  BY Unfolded
<1>1. /\ pending[a] # << >>
      /\ pending' = [pending EXCEPT ![a] = Tail(@)]
      /\ chan' = Post(chan, a, m)
      /\ UNCHANGED <<stateVars, readVars, roomVars, sendFailed, closeCall, sent>>
  BY DEF Transmit
<1>2. pending'[a] = Tail(pending[a]) /\ pending'[o] = pending[o]
  BY <1>0, <1>1 DEF TypeOK
<1>3. pending[a] \in Seq(1..MaxChunks)
  BY <1>0, Types
<1>4. Head(pending[a]) \in 1..MaxChunks /\ Head(pending[a]) = pending[a][1]
  BY <1>1, <1>3
<1>5. m \in Message /\ m.kind = "data" /\ m.n = pending[a][1]
  BY <1>4, DataMessages
<1> HIDE DEF m
<1>6. /\ chan'[a] = chan[a]
      /\ Reachable(a) => chan'[o] = Append(chan[o], m)
      /\ ~Reachable(a) => chan'[o] = chan[o]
  BY <1>0, <1>1, <1>5, Types, PostIs
<1>7. ~EofSent(a)
  BY <1>0, <1>1 DEF Local, CloseInv, EofSent
<1>8. Local(a)'
  <2>1. closeCall[a] \notin {"eofSent", "returned", "threw"}
    BY <1>0, <1>1 DEF Local, CloseInv
  <2> QED BY <1>0, <1>1, <2>1
          DEF Local, ReaderInv, ClosedInv, CloseInv, stateVars, readVars,
              roomVars
<1>9. Local(o)'
  BY <1>0, <1>1, <1>2, LocalFrame DEF stateVars, readVars, roomVars
<1>10. Direction(a)'
  BY <1>0, <1>1, <1>2, <1>6, DirectionFrame DEF stateVars, readVars, roomVars
<1>11. Direction(o)'
  <2>0. EofInv(o) /\ LeaveInv(o) /\ OrderInv(o) /\ PipeInv(o) /\ UncutInv(o)
    BY <1>0 DEF Direction
  <2>1. /\ chan[o] \in Seq(Message) /\ chan'[o] \in Seq(Message)
        /\ Arrived(o) \in Nat /\ Posted(o) \in Nat /\ sent[a] \in Nat
        /\ Len(pending[a]) \in Nat
    <3>1. Append(chan[o], m) \in Seq(Message) /\ chan[o] \in Seq(Message)
      BY <1>0, <1>5, Types, Appended
    <3> QED BY <1>0, <1>6, <3>1, Types
  <2>2. Arrived(o)' = Arrived(o)
    BY <1>1 DEF Arrived, readVars
  <2>3. /\ Len(pending[a]) > 0
        /\ Len(pending'[a]) = Len(pending[a]) - 1
        /\ \A i \in 1..(Len(pending[a]) - 1) :
             pending'[a][i] = pending[a][i + 1]
    BY <1>1, <1>2, <1>3, ChunkTail
  <2>4. ASSUME ~readClosed[o], AllData(chan[o])
        PROVE  /\ Reachable(a) /\ ~sendFailed[a]
               /\ pending[a][1] = Posted(o) + 1
               /\ Posted(o) + 1 <= sent[a]
               /\ sent[a] = Posted(o) + Len(pending[a])
    <3>1. /\ Reachable(a) /\ ~sendFailed[a]
          /\ sent[a] = Posted(o) + Len(pending[a])
      BY <2>0, <2>4 DEF PipeInv
    <3>2. 1 \in 1..Len(pending[a])
      BY <2>1, <2>3
    <3>3. pending[a][1] = Posted(o) + 1
      BY <2>0, <2>4, <3>2 DEF PipeInv
    <3> QED BY <2>1, <2>3, <3>1, <3>3
  <2>5. /\ AllData(chan'[o]) <=> AllData(chan[o])
        /\ \A k : Has(chan'[o], k) => Has(chan[o], k) \/ k = "data"
    <3>1. /\ AllData(Append(chan[o], m)) <=> AllData(chan[o])
          /\ \A k : Has(Append(chan[o], m), k) => Has(chan[o], k) \/ k = "data"
      BY <1>5, <2>1, AppendData, AppendHas
    <3> QED BY <1>6, <3>1
  <2>6. EofInv(o)' /\ LeaveInv(o)'
    <3>1. ~Has(chan[o], "eof")
      BY <1>7, <2>0 DEF EofInv
    <3>2. EofLast(chan'[o])
      BY <1>5, <1>6, <2>0, <2>1, <3>1, AppendEofLast DEF EofInv
    <3> QED BY <1>1, <2>0, <2>5, <3>1, <3>2
            DEF EofInv, LeaveInv, roomVars
  <2>7. OrderInv(o)'
    <3>1. ASSUME ~readClosed[o]
          PROVE  Numbered(chan'[o], Arrived(o), sent[a])
      <4>1. Numbered(chan[o], Arrived(o), sent[a])
        BY <2>0, <3>1 DEF OrderInv
      <4>2. AllData(chan[o]) =>
              m.n = Arrived(o) + Len(chan[o]) + 1 /\ m.n <= sent[a]
        BY <1>5, <2>4, <3>1 DEF Posted
      <4>3. Numbered(Append(chan[o], m), Arrived(o), sent[a])
        BY <1>5, <2>1, <4>1, <4>2, AppendData
      <4> QED BY <1>6, <4>1, <4>3
    <3> QED BY <1>1, <2>0, <2>2, <3>1 DEF OrderInv, stateVars, readVars
  <2>8. PipeInv(o)'
    <3> SUFFICES ASSUME ~readClosed[o], AllData(chan'[o])
                 PROVE  /\ Reachable(a) /\ ~sendFailed[a]
                        /\ sent[a] = Posted(o)' + Len(pending'[a])
                        /\ \A i \in 1..Len(pending'[a]) :
                             pending'[a][i] = Posted(o)' + i
      BY <1>1 DEF PipeInv, Reachable, stateVars, roomVars
    <3>1. /\ Reachable(a) /\ ~sendFailed[a]
          /\ sent[a] = Posted(o) + Len(pending[a])
      BY <2>4, <2>5
    <3>2. Posted(o)' = Posted(o) + 1
      <4>1. Len(chan'[o]) = Len(chan[o]) + 1 /\ Len(chan[o]) \in Nat
        BY <1>5, <1>6, <2>1, <3>1
      <4> QED BY <2>1, <2>2, <4>1 DEF Posted
    <3>3. ASSUME NEW i \in 1..Len(pending'[a])
          PROVE  pending'[a][i] = Posted(o)' + i
      <4>1. i + 1 \in 1..Len(pending[a])
            /\ pending'[a][i] = pending[a][i + 1]
        BY <2>1, <2>3
      <4>2. pending[a][i + 1] = Posted(o) + (i + 1)
        BY <2>0, <2>5, <4>1 DEF PipeInv
      <4> QED BY <2>1, <3>2, <4>1, <4>2
    <3>4. sent[a] = Posted(o)' + Len(pending'[a])
      BY <2>1, <2>3, <3>1, <3>2
    <3> QED BY <3>1, <3>3, <3>4
  <2>9. UncutInv(o)'
    BY <1>1, <1>7, <2>0, <2>2, <2>5
    DEF UncutInv, EofSent, stateVars, readVars, roomVars
  <2> QED BY <2>6, <2>7, <2>8, <2>9 DEF Direction
<1>12. (~linkUp => "link" \in cut)'
  BY <1>0, <1>1 DEF roomVars
<1> QED BY <1>8, <1>9, <1>10, <1>11, <1>12, FourParts

LEMMA ReaderNextKeeps ==
  ASSUME IInv, TypeOK', NEW a \in Ends, ReaderNext(a)
  PROVE  IInv'
<1> DEFINE o == Other(a)
<1> o \in Ends /\ o # a /\ Other(o) = a
  BY OtherEnd
<1>0. /\ TypeOK /\ (~linkUp => "link" \in cut)
      /\ Local(a) /\ Direction(a) /\ Local(o) /\ Direction(o)
  BY Unfolded
<1>1. /\ reader[a] = "idle"
      /\ UNCHANGED <<stateVars, writeVars, roomVars, chan>>
  BY DEF ReaderNext
<1>2. (~linkUp => "link" \in cut)'
  BY <1>0, <1>1 DEF roomVars
<1>3. CASE HasItem(a)
  <2>1. /\ got' = [got EXCEPT ![a] = Append(@, Head(items[a]))]
        /\ items' = [items EXCEPT ![a] = Tail(@)]
        /\ reader' = reader
    BY <1>3 DEF ReaderNext
  <2>2. /\ got'[o] = got[o] /\ items'[o] = items[o]
        /\ items'[a] = Tail(items[a])
    BY <1>0, <2>1 DEF TypeOK
  <2>3. got'[a] = Append(got[a], Head(items[a]))
    BY <1>0, <2>1 DEF TypeOK
  <2>4. Local(a)'
    BY <1>0, <1>1, <2>1
    DEF Local, ReaderInv, ClosedInv, CloseInv, stateVars, writeVars, roomVars
  <2>5. Local(o)' /\ Direction(o)'
    BY <1>0, <1>1, <2>1, <2>2, LocalFrame, DirectionFrame
    DEF stateVars, writeVars, roomVars
  <2>6. Direction(a)'
    <3>0. EofInv(a) /\ LeaveInv(a) /\ OrderInv(a) /\ PipeInv(a) /\ UncutInv(a)
      BY <1>0 DEF Direction
    <3>1. /\ items[a] \in Seq(1..MaxChunks) /\ got[a] \in Seq(1..MaxChunks)
          /\ Len(items[a]) \in Nat /\ Len(got[a]) \in Nat
          /\ items[a] # << >>
      BY <1>0, <1>3, Types DEF HasItem
    <3>2. /\ Len(items[a]) > 0
          /\ Len(items'[a]) = Len(items[a]) - 1
          /\ \A i \in 1..(Len(items[a]) - 1) : items'[a][i] = items[a][i + 1]
          /\ Head(items[a]) = items[a][1] /\ Head(items[a]) \in 1..MaxChunks
      BY <2>2, <3>1, ChunkTail
    <3>3. /\ Len(got'[a]) = Len(got[a]) + 1
          /\ \A i \in 1..Len(got[a]) : got'[a][i] = got[a][i]
          /\ got'[a][Len(got[a]) + 1] = items[a][1]
      BY <2>3, <3>1, <3>2, ChunkAppend
    <3>4. Arrived(a)' = Arrived(a) /\ Posted(a)' = Posted(a)
      <4>1. Len(got'[a]) + Len(items'[a]) = Len(got[a]) + Len(items[a])
        <5>1. /\ Len(got[a]) \in Nat /\ Len(items[a]) \in Nat
              /\ Len(got'[a]) = Len(got[a]) + 1
              /\ Len(items'[a]) = Len(items[a]) - 1
          BY <3>1, <3>2, <3>3
        <5> DEFINE x == Len(got[a])
                   y == Len(items[a])
                   u == Len(got'[a])
                   v == Len(items'[a])
        <5>2. x \in Nat /\ y \in Nat /\ u = x + 1 /\ v = y - 1
          BY <5>1
        <5> HIDE DEF x, y, u, v
        <5>3. u + v = x + y
          BY <5>2, MoveOne
        <5> QED BY <5>3 DEF x, y, u, v
      <4> QED BY <1>1, <4>1 DEF Arrived, Posted
    <3>5. \A i \in 1..Len(got'[a]) : got'[a][i] = i
      <4>1. items[a][1] = Len(got[a]) + 1
        <5>1. 1 \in 1..Len(items[a])
          BY <3>1, <3>2
        <5> QED BY <3>0, <5>1 DEF OrderInv
      <4>2. \A i \in 1..Len(got[a]) : got[a][i] = i
        BY <3>0 DEF OrderInv
      <4>3. ASSUME NEW i \in 1..Len(got'[a]) PROVE got'[a][i] = i
        <5>1. i \in 1..Len(got[a]) \/ i = Len(got[a]) + 1
          BY <3>1, <3>3
        <5> QED BY <3>3, <4>1, <4>2, <5>1
      <4> QED BY <4>3
    <3>6. \A i \in 1..Len(items'[a]) : items'[a][i] = Len(got'[a]) + i
      <4>1. ASSUME NEW i \in 1..Len(items'[a])
            PROVE  items'[a][i] = Len(got'[a]) + i
        <5>1. i + 1 \in 1..Len(items[a])
          BY <3>1, <3>2
        <5>2. items'[a][i] = items[a][i + 1]
          BY <3>2
        <5>3. items[a][i + 1] = Len(got[a]) + (i + 1)
          BY <3>0, <5>1 DEF OrderInv
        <5>4. Len(got'[a]) + i = Len(got[a]) + (i + 1)
          <6> DEFINE x == Len(got[a])
                     u == Len(got'[a])
          <6>1. x \in Nat /\ i \in Int /\ u = x + 1
            BY <3>1, <3>3
          <6> HIDE DEF x, u
          <6>2. u + i = x + (i + 1)
            BY <6>1, ShiftOne
          <6> QED BY <6>2 DEF x, u
        <5> QED BY <5>2, <5>3, <5>4
      <4> QED BY <4>1
    <3>7. OrderInv(a)'
      BY <1>1, <3>0, <3>4, <3>5, <3>6 DEF OrderInv, stateVars, writeVars
    <3>8. PipeInv(a)'
      BY <1>1, <3>0, <3>4
      DEF PipeInv, Reachable, stateVars, writeVars, roomVars
    <3>9. EofInv(a)' /\ LeaveInv(a)'
      BY <1>1, <3>0 DEF EofInv, LeaveInv, EofSent, writeVars, roomVars
    <3>10. UncutInv(a)'
      BY <1>1, <3>0, <3>4
      DEF UncutInv, EofSent, stateVars, writeVars, roomVars
    <3> QED BY <3>7, <3>8, <3>9, <3>10 DEF Direction
  <2> QED BY <1>0, <1>2, <2>4, <2>5, <2>6, FourParts
<1>4. CASE ~HasItem(a)
  <2>1. /\ reader' = [reader EXCEPT ![a] = IF readClosed[a] THEN "ended"
                                           ELSE "waiting"]
        /\ UNCHANGED <<items, got>>
    BY <1>4 DEF ReaderNext
  <2>2. /\ reader'[a] = IF readClosed[a] THEN "ended" ELSE "waiting"
        /\ reader'[o] = reader[o]
    BY <1>0, <2>1 DEF TypeOK
  <2>3. Local(a)'
    BY <1>0, <1>1, <1>4, <2>1, <2>2
    DEF Local, ReaderInv, ClosedInv, CloseInv, HasItem, stateVars, writeVars,
        roomVars
  <2>4. Local(o)' /\ Direction(o)' /\ Direction(a)'
    BY <1>0, <1>1, <2>1, <2>2, LocalFrame, DirectionFrame
    DEF stateVars, writeVars, roomVars
  <2> QED BY <1>0, <1>2, <2>3, <2>4, FourParts
<1> QED BY <1>3, <1>4

LEMMA ReceiveDataKeeps ==
  ASSUME IInv, TypeOK', NEW a \in Ends, ReceiveData(a)
  PROVE  IInv'
<1> DEFINE o == Other(a)
<1> DEFINE n == Head(chan[a]).n
<1> o \in Ends /\ o # a /\ Other(o) = a
  BY OtherEnd
<1>0. /\ TypeOK /\ (~linkUp => "link" \in cut)
      /\ Local(a) /\ Direction(a) /\ Local(o) /\ Direction(o)
  BY Unfolded
<1>1. /\ chan[a] # << >> /\ Head(chan[a]).kind = "data"
      /\ chan' = Taken(a)
      /\ IF IgnoresData(a) THEN UNCHANGED readVars ELSE Buffer(a, n)
      /\ UNCHANGED <<stateVars, writeVars, roomVars>>
  BY DEF ReceiveData, Arriving
<1>2. chan[a] \in Seq(Message)
  BY <1>0, Types
<1>3. chan'[a] = Tail(chan[a]) /\ chan'[o] = chan[o]
  BY <1>0, <1>1, Types, TakenIs
<1>4. (~linkUp => "link" \in cut)'
  BY <1>0, <1>1 DEF roomVars
<1>5. CASE IgnoresData(a)
  <2>1. readClosed[a] /\ UNCHANGED readVars
    BY <1>0, <1>1, <1>5 DEF IgnoresData, Local, ClosedInv
  <2>2. Shrunk(chan[a], chan'[a])
    BY <1>1, <1>2, <1>3, ShrunkCases
  <2>3. Local(a)' /\ Local(o)' /\ Direction(o)'
    BY <1>0, <1>1, <1>3, <2>1, LocalFrame, DirectionFrame
    DEF stateVars, writeVars, readVars, roomVars
  <2>4. cut = {} => Arrived(a) = sent[o] /\ EofSent(o)
    BY <1>0, <2>1 DEF Direction, UncutInv
  <2>5. Direction(a)'
    BY <1>0, <1>1, <2>1, <2>2, <2>4, DirectionShut
    DEF stateVars, writeVars, readVars, roomVars
  <2> QED BY <1>0, <1>4, <2>3, <2>5, FourParts
<1>6. CASE ~IgnoresData(a)
  <2>0. EofInv(a) /\ LeaveInv(a) /\ OrderInv(a) /\ PipeInv(a) /\ UncutInv(a)
    BY <1>0 DEF Direction
  <2>1. ~readClosed[a] /\ Buffer(a, n)
    BY <1>1, <1>6 DEF IgnoresData
  <2>2. n \in 1..MaxChunks
    <3>1. Head(chan[a]) \in Message
      BY <1>1, <1>2, Tailed
    <3> QED BY <1>1, <3>1 DEF Message
  <2> HIDE DEF n
  <2>3. /\ items[a] \in Seq(1..MaxChunks) /\ got[a] \in Seq(1..MaxChunks)
        /\ Len(items[a]) \in Nat /\ Len(got[a]) \in Nat
        /\ Arrived(a) \in Nat /\ Posted(a) \in Nat /\ sent[o] \in Nat
    BY <1>0, Types
  <2>4. /\ n = Arrived(a) + 1 /\ Arrived(a) + 1 <= sent[o]
        /\ Numbered(chan'[a], Arrived(a) + 1, sent[o])
    BY <1>1, <1>2, <1>3, <2>0, <2>1, <2>3, TailData DEF OrderInv, n
  <2>5. /\ AllData(chan'[a]) <=> AllData(chan[a])
        /\ \A k \in Int : EofAt(chan[a], k) => EofAt(chan'[a], k - 1)
        /\ EofLast(chan'[a])
        /\ \A k : Has(chan'[a], k) => Has(chan[a], k)
    BY <1>1, <1>2, <1>3, <2>0, TailData, TailEofLast, TailHas DEF EofInv
  <2>6. /\ Arrived(a)' = Arrived(a) + 1
        /\ \A i \in 1..Len(got'[a]) : got'[a][i] = i
        /\ \A i \in 1..Len(items'[a]) : items'[a][i] = Len(got'[a]) + i
        /\ Local(a)'
        /\ UNCHANGED <<reader[o], items[o], got[o]>>
    <3>0. /\ \A i \in 1..Len(got[a]) : got[a][i] = i
          /\ \A i \in 1..Len(items[a]) : items[a][i] = Len(got[a]) + i
      BY <2>0 DEF OrderInv
    <3>1. CASE reader[a] = "waiting"
      <4>1. /\ got' = [got EXCEPT ![a] = Append(@, n)]
            /\ reader' = [reader EXCEPT ![a] = "idle"]
            /\ items' = items
        BY <2>1, <3>1 DEF Buffer
      <4>2. items[a] = << >>
        BY <1>0, <3>1 DEF Local, ReaderInv
      <4>3. got'[a] = Append(got[a], n) /\ got'[o] = got[o]
        BY <1>0, <4>1 DEF TypeOK
      <4>4. reader'[a] = "idle" /\ reader'[o] = reader[o]
        BY <1>0, <4>1 DEF TypeOK
      <4>5. /\ Len(got'[a]) = Len(got[a]) + 1
            /\ \A i \in 1..Len(got[a]) : got'[a][i] = got[a][i]
            /\ got'[a][Len(got[a]) + 1] = n
        BY <2>2, <2>3, <4>3, ChunkAppend
      <4>6. Arrived(a) = Len(got[a]) /\ Arrived(a)' = Len(got[a]) + 1
        BY <2>3, <4>1, <4>2, <4>5 DEF Arrived
      <4>7. ASSUME NEW i \in 1..Len(got'[a]) PROVE got'[a][i] = i
        <5>1. i \in 1..Len(got[a]) \/ i = Len(got[a]) + 1
          BY <2>3, <4>5
        <5> QED BY <2>4, <3>0, <4>5, <4>6, <5>1
      <4>8. Local(a)'
        BY <1>0, <1>1, <4>1, <4>4
        DEF Local, ReaderInv, ClosedInv, CloseInv, stateVars, writeVars,
            roomVars
      <4> QED BY <4>1, <4>2, <4>3, <4>4, <4>6, <4>7, <4>8
    <3>2. CASE reader[a] # "waiting"
      <4>1. /\ items' = [items EXCEPT ![a] = Append(@, n)]
            /\ UNCHANGED <<got, reader>>
        BY <2>1, <3>2 DEF Buffer
      <4>2. items'[a] = Append(items[a], n) /\ items'[o] = items[o]
        BY <1>0, <4>1 DEF TypeOK
      <4>3. /\ Len(items'[a]) = Len(items[a]) + 1
            /\ \A i \in 1..Len(items[a]) : items'[a][i] = items[a][i]
            /\ items'[a][Len(items[a]) + 1] = n
        BY <2>2, <2>3, <4>2, ChunkAppend
      <4>4. /\ Arrived(a) = Len(got[a]) + Len(items[a])
            /\ Arrived(a)' = Len(got[a]) + (Len(items[a]) + 1)
        BY <4>1, <4>3 DEF Arrived
      <4>5. /\ Arrived(a)' = Arrived(a) + 1
            /\ n = Len(got[a]) + (Len(items[a]) + 1)
        <5> DEFINE x == Len(got[a])
                   y == Len(items[a])
        <5>1. x \in Nat /\ y \in Nat
          BY <2>3
        <5>2. Arrived(a) = x + y /\ Arrived(a)' = x + (y + 1)
          BY <4>4
        <5> HIDE DEF x, y
        <5>3. x + (y + 1) = (x + y) + 1
          BY <5>1
        <5>4. Arrived(a)' = Arrived(a) + 1 /\ n = x + (y + 1)
          BY <2>4, <5>2, <5>3
        <5> QED BY <5>4 DEF x, y
      <4>6. ASSUME NEW i \in 1..Len(items'[a])
            PROVE  items'[a][i] = Len(got'[a]) + i
        <5>1. i \in 1..Len(items[a]) \/ i = Len(items[a]) + 1
          BY <2>3, <4>3
        <5>2. CASE i \in 1..Len(items[a])
          BY <3>0, <4>1, <4>3, <5>2
        <5>3. CASE i = Len(items[a]) + 1
          BY <4>1, <4>3, <4>5, <5>3
        <5> QED BY <5>1, <5>2, <5>3
      <4>7. Local(a)'
        <5>1. reader[a] \notin {"ended", "failed"}
          BY <1>0, <2>1 DEF Local, ReaderInv
        <5> QED BY <1>0, <1>1, <3>2, <4>1, <5>1
                DEF Local, ReaderInv, ClosedInv, CloseInv, stateVars,
                    writeVars, roomVars
      <4> QED BY <3>0, <4>1, <4>2, <4>5, <4>6, <4>7
    <3> QED BY <3>1, <3>2
  <2>7. Local(o)' /\ Direction(o)'
    BY <1>0, <1>1, <1>3, <2>6, LocalFrame, DirectionFrame
    DEF stateVars, writeVars, roomVars
  <2>8. OrderInv(a)'
    BY <1>1, <2>1, <2>4, <2>6 DEF OrderInv, stateVars, writeVars
  <2>9. Posted(a)' = Posted(a)
    <3> DEFINE k == Len(chan[a])
    <3>1. Len(chan'[a]) = k - 1 /\ k \in Nat
      BY <1>1, <1>2, <1>3, Tailed
    <3>2. Posted(a) = Arrived(a) + k /\ Posted(a)' = Arrived(a)' + (k - 1)
      BY <3>1 DEF Posted
    <3> HIDE DEF k
    <3> QED BY <2>3, <2>6, <3>1, <3>2
  <2>10. PipeInv(a)'
    BY <1>1, <2>0, <2>5, <2>9
    DEF PipeInv, Reachable, stateVars, writeVars, roomVars
  <2>11. EofInv(a)' /\ LeaveInv(a)'
    BY <1>1, <2>0, <2>5 DEF EofInv, LeaveInv, EofSent, writeVars, roomVars
  <2>12. UncutInv(a)'
    <3>1. ASSUME cut = {}, ~AllData(chan'[a])
          PROVE  EofSent(o) /\ EofAt(chan'[a], sent[o] - Arrived(a)' + 1)
      <4>1. EofSent(o) /\ EofAt(chan[a], sent[o] - Arrived(a) + 1)
        BY <2>0, <2>1, <2>5, <3>1 DEF UncutInv
      <4>2. /\ sent[o] - Arrived(a) + 1 \in Int
            /\ (sent[o] - Arrived(a) + 1) - 1 = sent[o] - Arrived(a)' + 1
        <5> DEFINE x == sent[o]
                   y == Arrived(a)
                   z == Arrived(a)'
        <5>1. x \in Nat /\ y \in Nat /\ z = y + 1
          BY <2>3, <2>6
        <5> HIDE DEF x, y, z
        <5>2. x - y + 1 \in Int /\ (x - y + 1) - 1 = x - z + 1
          BY <5>1
        <5> QED BY <5>2 DEF x, y, z
      <4>3. EofAt(chan'[a], (sent[o] - Arrived(a) + 1) - 1)
        BY <2>5, <4>1, <4>2
      <4> QED BY <4>1, <4>2, <4>3
    <3> QED BY <1>1, <2>0, <2>1, <2>5, <3>1
            DEF UncutInv, EofSent, stateVars, writeVars, roomVars
  <2>13. Direction(a)'
    BY <2>8, <2>10, <2>11, <2>12 DEF Direction
  <2> QED BY <1>0, <1>4, <2>6, <2>7, <2>13, FourParts
<1> QED BY <1>5, <1>6

-----------------------------------------------------------------------------
(* Every action keeps the inductive invariant. *)
LEMMA NextKeeps ==
  ASSUME IInv, [Next]_vars
  PROVE  IInv'
<1>1. TypeOK'
  BY TypeOKKept DEF IInv
<1>2. CASE UNCHANGED vars
  <2>1. ASSUME NEW e \in Ends PROVE EndInv(e)'
    <3>1. Local(e) /\ Direction(e)
      BY Unfolded
    <3>2. Local(e)' /\ Direction(e)'
      BY <1>2, <3>1, LocalFrame, DirectionFrame
      DEF vars, stateVars, writeVars, readVars, roomVars
    <3> QED BY <3>2 DEF EndInv, Local, Direction
  <2>2. (~linkUp => "link" \in cut)'
    BY <1>2 DEF IInv, vars, roomVars
  <2> QED BY <1>1, <2>1, <2>2 DEF IInv
<1>3. CASE Next
  BY <1>1, <1>3, SendKeeps, CloseKeeps, AbortKeeps, HubCloseKeeps,
     TransmitKeeps, TransmitFailsKeeps, CloseSendsEofKeeps, CloseThrowsKeeps,
     CloseReturnsKeeps, ReceiveDataKeeps, ReceiveEofKeeps, ReceiveAbortKeeps,
     ReceiveLeaveKeeps, ReaderNextKeeps, DisconnectKeeps
  DEF Next, User, Drain, CloseGoesOn, Receive
<1> QED BY <1>2, <1>3

(* The invariant that the safety properties rest on, for every number of   *)
(* chunks and whichever ends leave the room.                               *)
THEOREM Invariance == Spec => []IInv
<1>1. Init => IInv
  BY InitIInv
<1>2. IInv /\ [Next]_vars => IInv'
  BY NextKeeps
<1> QED BY <1>1, <1>2, PTL DEF Spec

(* A reader is handed the chunks of the other end in order, from the first *)
(* on, none twice and none left out in between.                            *)
THEOREM ReadsInOrder == Spec => []InOrder
<1>1. IInv => InOrder
  <2> SUFFICES ASSUME IInv, NEW e \in Ends
               PROVE  /\ Len(got[e]) <= sent[Other(e)]
                      /\ \A i \in 1..Len(got[e]) : got[e][i] = i
    BY DEF InOrder
  <2>1. TypeOK /\ OrderInv(e)
    BY DEF IInv, EndInv
  <2>2. Len(got[e]) \in Nat /\ Len(items[e]) \in Nat /\ sent[Other(e)] \in Nat
    BY <2>1, Types, OtherEnd
  <2>3. Len(got[e]) + Len(items[e]) <= sent[Other(e)]
    BY <2>1 DEF OrderInv, Arrived
  <2>4. Len(got[e]) <= sent[Other(e)]
    <3> DEFINE x == Len(got[e])
               y == Len(items[e])
    <3>1. x \in Nat /\ y \in Nat /\ x + y <= sent[Other(e)]
      BY <2>2, <2>3
    <3> HIDE DEF x, y
    <3>2. x <= sent[Other(e)]
      BY <2>2, <3>1
    <3> QED BY <3>2 DEF x
  <2> QED BY <2>1, <2>4 DEF OrderInv
<1> QED BY <1>1, Invariance, PTL

(* In a stream nobody cut, the clean end is only seen by a reader that was *)
(* handed every chunk, and only after the other end has closed.            *)
THEOREM EndsComplete == Spec => []EndIsComplete
<1>1. IInv => EndIsComplete
  <2> SUFFICES ASSUME IInv, NEW e \in Ends, reader[e] = "ended", cut = {}
               PROVE  /\ Len(got[e]) = sent[Other(e)]
                      /\ writeStatus[Other(e)] # "writable"
    BY DEF EndIsComplete
  <2>1. /\ TypeOK /\ ReaderInv(e) /\ UncutInv(e) /\ CloseInv(Other(e))
        /\ Other(e) \in Ends
    BY OtherEnd DEF IInv, EndInv
  <2>2. items[e] = << >> /\ readClosed[e]
    BY <2>1 DEF ReaderInv
  <2>3. Arrived(e) = sent[Other(e)] /\ EofSent(Other(e))
    BY <2>1, <2>2 DEF UncutInv
  <2>4. Arrived(e) = Len(got[e])
    BY <2>1, <2>2, AllHanded
  <2>5. writeStatus[Other(e)] # "writable"
    BY <2>1, <2>3 DEF CloseInv, EofSent
  <2> QED BY <2>3, <2>4, <2>5
<1> QED BY <1>1, Invariance, PTL

(* No wakeup is lost between next(), receiveData() and the ways to end. *)
THEOREM WakesUp == Spec => []NoLostWakeup
<1>1. IInv => NoLostWakeup
  BY DEF IInv, EndInv, ReaderInv, NoLostWakeup
<1> QED BY <1>1, Invariance, PTL

(* A stream is closed exactly when its hub was told so, and then it is     *)
(* closed on both sides.                                                   *)
THEOREM ClosesBothSides == Spec => []ClosedIsFinal
<1>1. IInv => ClosedIsFinal
  BY DEF IInv, EndInv, ClosedInv, ClosedIsFinal
<1> QED BY <1>1, Invariance, PTL

(* No chunk is on its way behind an end-of-file. *)
THEOREM EofComesLast == Spec => []NothingBehindEof
<1>1. IInv => NothingBehindEof
  BY DEF IInv, EndInv, EofInv, EofLast, NothingBehindEof
<1> QED BY <1>1, Invariance, PTL
-----------------------------------------------------------------------------
(* What a step of TrysteroStream may never do, and that every step is one   *)
(* of the abstract DuplexStream or a stutter.                              *)

(* One step of the action property ClosedIsForever. *)
ClosedStays ==
  \A e \in Ends : status[e] = "closed" =>
    /\ status'[e] = "closed"
    /\ Len(items'[e]) <= Len(items[e])

LEMMA StatusStaysClosed ==
  ASSUME TypeOK, [Next]_vars, NEW e \in Ends, status[e] = "closed"
  PROVE  status'[e] = "closed"
<1>1. \/ status' = status
      \/ \E a \in Ends : status' = [status EXCEPT ![a] = "closed"]
  BY DEF Next, vars, stateVars, User, Drain, CloseGoesOn, Receive, Send, Close,
         Abort, HubClose, Transmit, TransmitFails, CloseSendsEof, CloseThrows,
         CloseReturns, ReceiveData, ReceiveEof, ReceiveAbort, ReceiveLeave,
         ReaderNext, Disconnect, MaybeFinalize
<1>2. CASE status' = status
  BY <1>2
<1>3. ASSUME NEW a \in Ends, status' = [status EXCEPT ![a] = "closed"]
      PROVE  status'[e] = "closed"
  BY <1>3 DEF TypeOK
<1> QED BY <1>1, <1>2, <1>3

LEMMA ClosedBuffersNothing ==
  ASSUME TypeOK, [Next]_vars, NEW e \in Ends, status[e] = "closed"
  PROVE  Len(items'[e]) <= Len(items[e])
<1>0. Len(items[e]) \in Nat
  BY Types
<1>1. CASE items' = items
  BY <1>0, <1>1
<1>2. ASSUME NEW a \in Ends, ReceiveData(a)
      PROVE  Len(items'[e]) <= Len(items[e])
  <2>1. CASE IgnoresData(a)
    BY <1>1, <1>2, <2>1 DEF ReceiveData, readVars
  <2>2. CASE ~IgnoresData(a)
    <3>1. a # e
      BY <2>2 DEF IgnoresData
    <3>2. items'[e] = items[e]
      BY <1>2, <2>2, <3>1 DEF ReceiveData, Buffer, TypeOK
    <3> QED BY <1>0, <3>2
  <2> QED BY <2>1, <2>2
<1>3. ASSUME NEW a \in Ends, ReaderNext(a)
      PROVE  Len(items'[e]) <= Len(items[e])
  <2>1. CASE HasItem(a)
    <3>1. items'[e] = IF e = a THEN Tail(items[e]) ELSE items[e]
      <4>1. items' = [items EXCEPT ![a] = Tail(@)]
        BY <1>3, <2>1 DEF ReaderNext
      <4> QED BY <4>1 DEF TypeOK
    <3>2. e = a => Len(Tail(items[e])) = Len(items[e]) - 1
      BY <2>1, Types, ChunkTail DEF HasItem
    <3> QED BY <1>0, <3>1, <3>2
  <2>2. CASE ~HasItem(a)
    BY <1>1, <1>3, <2>2 DEF ReaderNext
  <2> QED BY <2>1, <2>2
<1>4. \/ items' = items
      \/ \E a \in Ends : ReceiveData(a) \/ ReaderNext(a)
  BY DEF Next, vars, readVars, User, Drain, CloseGoesOn, Receive, Send, Close,
         Abort, HubClose, Transmit, TransmitFails, CloseSendsEof, CloseThrows,
         CloseReturns, ReceiveEof, ReceiveAbort, ReceiveLeave, Disconnect
<1> QED BY <1>1, <1>2, <1>3, <1>4

(* A closed stream stays closed and buffers nothing more. *)
THEOREM StaysClosed == Spec => ClosedIsForever
<1>1. TypeOK /\ [Next]_vars => ClosedStays
  BY StatusStaysClosed, ClosedBuffersNothing DEF ClosedStays
<1>2. Spec => [][ClosedStays]_vars
  BY <1>1, TypeCorrect, PTL DEF Spec
<1> QED BY <1>2 DEF ClosedIsForever, ClosedStays
-----------------------------------------------------------------------------
LEMMA DuplexEnds == Duplex!Ends = Ends /\ \A e : Duplex!Other(e) = Other(e)
BY DEF Ends, Duplex!Ends, Other, Duplex!Other

(* The steps of the abstract stream, in the terms of TrysteroStream. *)
LEMMA DuplexSend ==
  ASSUME NEW a \in Ends, writeStatus[a] = "writable",
         sent' = [sent EXCEPT ![a] = @ + 1],
         UNCHANGED <<got, writeStatus, reader, cut>>
  PROVE  Duplex!Next
BY DuplexEnds DEF Duplex!Next, Duplex!Send, Sealed, Loop

LEMMA DuplexStutters ==
  ASSUME UNCHANGED <<sent, got, cut, Sealed, Loop>>
  PROVE  UNCHANGED Duplex!vars
BY DEF Duplex!vars

LEMMA DuplexDelivers ==
  ASSUME NEW a \in Ends, Loop[a] = "open", Len(got[a]) < sent[Other(a)],
         got' = [got EXCEPT ![a] = Append(@, Len(@) + 1)],
         UNCHANGED <<sent, cut, Sealed, Loop>>
  PROVE  Duplex!Next
BY DuplexEnds DEF Duplex!Next, Duplex!Deliver

LEMMA DuplexSeals ==
  ASSUME NEW a \in Ends, Sealed' = [Sealed EXCEPT ![a] = TRUE],
         UNCHANGED <<sent, got, cut, Loop>>
  PROVE  Duplex!Next
BY DuplexEnds DEF Duplex!Next, Duplex!Seal

LEMMA DuplexEndsStream ==
  ASSUME NEW a \in Ends, Loop[a] = "open",
         cut = {} => Sealed[Other(a)] /\ Len(got[a]) = sent[Other(a)],
         Loop' = [Loop EXCEPT ![a] = "ended"],
         UNCHANGED <<sent, got, cut, Sealed>>
  PROVE  Duplex!Next
<1>1. Sealed' = [Sealed EXCEPT ![a] = @ \/ FALSE]
  BY DEF Sealed
<1>2. Duplex!EndOfStream(a)
  BY <1>1, DuplexEnds DEF Duplex!EndOfStream
<1> QED BY <1>2, DuplexEnds DEF Duplex!Next

LEMMA DuplexCut ==
  ASSUME cut' # {}, UNCHANGED <<sent, got>>,
         TypeOK', 
         \A e \in Ends : writeStatus[e] # "writable" =>
                           writeStatus'[e] # "writable",
         \A e \in Ends : reader[e] \in {"ended", "failed"} =>
                           reader'[e] = reader[e]
  PROVE  Duplex!Next
<1>1. Sealed' \in [Ends -> BOOLEAN] /\ Loop' \in [Ends -> {"open", "ended", "failed"}]
  BY DEF Sealed, Loop
<1>2. \A e \in Ends : Sealed[e] => Sealed'[e]
  BY DEF Sealed
<1>3. \A e \in Ends : Loop[e] # "open" => Loop'[e] = Loop[e]
  BY DEF Loop
<1>4. Duplex!Cut
  BY <1>1, <1>2, <1>3, DuplexEnds DEF Duplex!Cut
<1> QED BY <1>4 DEF Duplex!Next

(* How Sealed and Loop follow writeStatus and reader. *)
LEMMA SealedFollows ==
  ASSUME TypeOK, NEW a \in Ends, NEW x \in {"closing", "closed"},
         writeStatus' = [writeStatus EXCEPT ![a] = x]
  PROVE  /\ Sealed' = [Sealed EXCEPT ![a] = TRUE]
         /\ writeStatus[a] # "writable" => Sealed' = Sealed
         /\ \A e \in Ends : writeStatus[e] # "writable" =>
                              writeStatus'[e] # "writable"
<1>1. \A e \in Ends : writeStatus'[e] = IF e = a THEN x ELSE writeStatus[e]
  BY DEF TypeOK
<1> QED BY <1>1 DEF Sealed

LEMMA LoopFollows ==
  ASSUME TypeOK, NEW a \in Ends, reader[a] \in {"idle", "waiting"}
  PROVE  /\ \A x \in {"idle", "waiting"} :
              reader' = [reader EXCEPT ![a] = x] => Loop' = Loop
         /\ reader' = [reader EXCEPT ![a] = "ended"] =>
              Loop' = [Loop EXCEPT ![a] = "ended"]
         /\ Loop[a] = "open"
<1>1. ASSUME NEW x \in {"idle", "waiting", "ended"},
             reader' = [reader EXCEPT ![a] = x]
      PROVE  \A e \in Ends : reader'[e] = IF e = a THEN x ELSE reader[e]
  BY <1>1 DEF TypeOK
<1>2. ASSUME NEW x \in {"idle", "waiting"},
             reader' = [reader EXCEPT ![a] = x]
      PROVE  Loop' = Loop
  BY <1>1, <1>2 DEF Loop
<1>3. ASSUME reader' = [reader EXCEPT ![a] = "ended"]
      PROVE  Loop' = [Loop EXCEPT ![a] = "ended"]
  BY <1>1, <1>3 DEF Loop
<1> QED BY <1>2, <1>3 DEF Loop

(* #endRead and #fail change no loop that has finished. *)
LEMMA WakeKeepsTheEnded ==
  ASSUME TypeOK, NEW a \in Ends, EndRead(a) \/ Fail(a)
  PROVE  \A e \in Ends : reader[e] \in {"ended", "failed"} =>
                           reader'[e] = reader[e]
<1>1. ASSUME NEW outcome, Wake(a, outcome)
      PROVE  \A e \in Ends : reader[e] \in {"ended", "failed"} =>
                               reader'[e] = reader[e]
  BY <1>1 DEF Wake, TypeOK
<1> QED BY <1>1 DEF EndRead, Fail

(* #endRead ends the loop of a reader that waits, and only that. *)
LEMMA EndReadEndsLoop ==
  ASSUME TypeOK, NEW a \in Ends, EndRead(a)
  PROVE  \/ reader' = reader
         \/ /\ reader[a] = "waiting" /\ ~readClosed[a]
            /\ reader' = [reader EXCEPT ![a] = "ended"]
<1>1. CASE readClosed[a]
  BY <1>1 DEF EndRead
<1>2. CASE ~readClosed[a] /\ reader[a] = "waiting"
  BY <1>2 DEF EndRead, Wake
<1>3. CASE ~readClosed[a] /\ reader[a] # "waiting"
  <2>1. reader' = [reader EXCEPT ![a] = reader[a]]
    BY <1>3 DEF EndRead, Wake
  <2> QED BY <2>1 DEF TypeOK
<1> QED BY <1>1, <1>2, <1>3
-----------------------------------------------------------------------------
LEMMA CloseReturnsImplements ==
  ASSUME IInv, NEW a \in Ends, CloseReturns(a)
  PROVE  UNCHANGED Duplex!vars
<1>1. /\ closeCall[a] = "eofSent"
      /\ writeStatus' = [writeStatus EXCEPT ![a] = "closed"]
      /\ UNCHANGED <<sent, got, reader, cut>>
  BY DEF CloseReturns, readVars
<1>2. TypeOK /\ writeStatus[a] # "writable"
  BY <1>1 DEF IInv, EndInv, CloseInv
<1>3. Sealed' = Sealed
  BY <1>1, <1>2, SealedFollows
<1>4. Loop' = Loop
  BY <1>1 DEF Loop
<1> QED BY <1>1, <1>3, <1>4, DuplexStutters

LEMMA ReceiveDataImplements ==
  ASSUME IInv, NEW a \in Ends, ReceiveData(a)
  PROVE  [Duplex!Next]_(Duplex!vars)
<1>1. /\ chan[a] # << >> /\ Head(chan[a]).kind = "data"
      /\ IF IgnoresData(a) THEN UNCHANGED readVars
         ELSE Buffer(a, Head(chan[a]).n)
      /\ UNCHANGED <<writeStatus, sent, cut>>
  BY DEF ReceiveData, Arriving, stateVars, writeVars, roomVars
<1>2. Sealed' = Sealed
  BY <1>1 DEF Sealed
<1>3. CASE UNCHANGED <<got, reader>>
  BY <1>1, <1>2, <1>3, DuplexStutters DEF Loop
<1>4. CASE ~IgnoresData(a) /\ reader[a] = "waiting"
  <2>1. /\ got' = [got EXCEPT ![a] = Append(@, Head(chan[a]).n)]
        /\ reader' = [reader EXCEPT ![a] = "idle"]
    BY <1>1, <1>4 DEF Buffer
  <2>2. TypeOK /\ OrderInv(a) /\ ReaderInv(a) /\ ~readClosed[a]
    BY <1>4 DEF IInv, EndInv, IgnoresData
  <2>3. /\ chan[a] \in Seq(Message) /\ Arrived(a) \in Nat
        /\ sent[Other(a)] \in Nat /\ Len(got[a]) \in Nat
    BY <2>2, Types, OtherEnd
  <2>4. /\ Head(chan[a]).n = Arrived(a) + 1
        /\ Arrived(a) + 1 <= sent[Other(a)]
    BY <1>1, <2>2, <2>3, TailData DEF OrderInv
  <2>5. Arrived(a) = Len(got[a])
    BY <1>4, <2>2, AllHanded DEF ReaderInv
  <2>6. Loop' = Loop /\ Loop[a] = "open"
    BY <1>4, <2>1, <2>2, LoopFollows
  <2>7. /\ Len(got[a]) < sent[Other(a)]
        /\ Head(chan[a]).n = Len(got[a]) + 1
    BY <2>3, <2>4, <2>5
  <2>8. got' = [got EXCEPT ![a] = Append(@, Len(@) + 1)]
    BY <2>1, <2>7
  <2>9. Duplex!Next
    BY <1>1, <1>2, <2>6, <2>7, <2>8, DuplexDelivers
  <2> QED BY <2>9
<1> QED BY <1>1, <1>3, <1>4 DEF Buffer, readVars

LEMMA ReceiveEofImplements ==
  ASSUME IInv, NEW a \in Ends, ReceiveEof(a)
  PROVE  [Duplex!Next]_(Duplex!vars)
<1>1. /\ chan[a] # << >> /\ Head(chan[a]).kind = "eof"
      /\ EndRead(a)
      /\ UNCHANGED <<writeStatus, sent, got, cut>>
  BY DEF ReceiveEof, Arriving, writeVars
<1>2. Sealed' = Sealed
  BY <1>1 DEF Sealed
<1>3. /\ TypeOK /\ ReaderInv(a) /\ UncutInv(a) /\ CloseInv(Other(a))
      /\ Other(a) \in Ends
  BY OtherEnd DEF IInv, EndInv
<1>4. CASE reader' = reader
  BY <1>1, <1>2, <1>4, DuplexStutters DEF Loop
<1>5. CASE /\ reader[a] = "waiting" /\ ~readClosed[a]
           /\ reader' = [reader EXCEPT ![a] = "ended"]
  <2>1. ASSUME cut = {}
        PROVE  Sealed[Other(a)] /\ Len(got[a]) = sent[Other(a)]
    <3>1. chan[a] \in Seq(Message) /\ ~AllData(chan[a])
      BY <1>1, <1>3, Types, HeadNotData
    <3>2. /\ EofSent(Other(a))
          /\ EofAt(chan[a], sent[Other(a)] - Arrived(a) + 1)
      BY <1>3, <1>5, <2>1, <3>1 DEF UncutInv
    <3>3. sent[Other(a)] \in Nat /\ Arrived(a) \in Nat
      BY <1>3, Types
    <3>4. sent[Other(a)] - Arrived(a) + 1 = 1
      BY <1>1, <3>1, <3>2, <3>3, EofAtHead
    <3>5. Arrived(a) = Len(got[a])
      BY <1>3, <1>5, AllHanded DEF ReaderInv
    <3>6. Sealed[Other(a)]
      BY <1>3, <3>2 DEF CloseInv, EofSent, Sealed
    <3> QED BY <3>3, <3>4, <3>5, <3>6
  <2>2. Loop[a] = "open" /\ Loop' = [Loop EXCEPT ![a] = "ended"]
    BY <1>3, <1>5, LoopFollows
  <2>3. Duplex!Next
    BY <1>1, <1>2, <2>1, <2>2, DuplexEndsStream
  <2> QED BY <2>3
<1> QED BY <1>1, <1>3, <1>4, <1>5, EndReadEndsLoop

LEMMA ReceiveAbortImplements ==
  ASSUME IInv, TypeOK', NEW a \in Ends, ReceiveAbort(a)
  PROVE  [Duplex!Next]_(Duplex!vars)
<1>1. /\ chan[a] # << >> /\ Head(chan[a]).kind = "abort"
      /\ writeStatus' = [writeStatus EXCEPT ![a] = "closed"]
      /\ Fail(a)
      /\ UNCHANGED <<sent, got, cut>>
  BY DEF ReceiveAbort, Arriving, writeVars
<1>2. TypeOK /\ UncutInv(a)
  BY DEF IInv, EndInv
<1>3. Has(chan[a], "abort")
  BY <1>1, <1>2, Types, HeadNotData
<1>4. cut' # {}
  BY <1>1, <1>2, <1>3 DEF UncutInv
<1> QED BY <1>1, <1>2, <1>4, SealedFollows, WakeKeepsTheEnded, DuplexCut

LEMMA ReceiveLeaveImplements ==
  ASSUME IInv, TypeOK', NEW a \in Ends, ReceiveLeave(a)
  PROVE  [Duplex!Next]_(Duplex!vars)
<1>1. /\ inRoom[a] /\ chan[a] # << >> /\ Head(chan[a]).kind = "leave"
      /\ UNCHANGED <<sent, got, cut>>
      /\ status[a] = "closed" => UNCHANGED <<writeStatus, reader>>
      /\ status[a] # "closed" =>
           writeStatus' = [writeStatus EXCEPT ![a] = "closed"] /\ EndRead(a)
  BY DEF ReceiveLeave, Arriving, stateVars, writeVars
<1>2. TypeOK /\ (~linkUp => "link" \in cut)
      /\ Local(Other(a)) /\ Direction(a)
  BY Unfolded
<1>3. CASE status[a] = "closed"
  BY <1>1, <1>3, DuplexStutters DEF Sealed, Loop
<1>4. CASE status[a] # "closed" /\ cut # {}
  BY <1>1, <1>2, <1>4, SealedFollows, WakeKeepsTheEnded, DuplexCut
<1>5. CASE status[a] # "closed" /\ cut = {}
  <2>1. Has(chan[a], "leave") /\ ~AllData(chan[a])
    BY <1>1, <1>2, Types, HeadNotData
  <2>2. readClosed[a]
    <3> SUFFICES ASSUME ~readClosed[a] PROVE FALSE
      OBVIOUS
    <3>1. EofAt(chan[a], sent[Other(a)] - Arrived(a) + 1)
      BY <1>2, <1>5, <2>1 DEF Direction, UncutInv
    <3>2. sent[Other(a)] - Arrived(a) + 1 \in Int
      BY <1>2, Types, OtherEnd
    <3> QED BY <1>1, <1>2, <3>1, <3>2, Types, EofAtHead
  <2>3. reader' = reader
    BY <1>1, <1>5, <2>2 DEF EndRead
  <2>4. Sealed' = [Sealed EXCEPT ![a] = TRUE] /\ Loop' = Loop
    BY <1>1, <1>2, <1>5, <2>3, SealedFollows DEF Loop
  <2> QED BY <1>1, <2>4, DuplexSeals
<1> QED BY <1>3, <1>4, <1>5

LEMMA ReaderNextImplements ==
  ASSUME IInv, NEW a \in Ends, ReaderNext(a)
  PROVE  [Duplex!Next]_(Duplex!vars)
<1>1. reader[a] = "idle" /\ UNCHANGED <<writeStatus, sent, cut>>
  BY DEF ReaderNext, stateVars, writeVars, roomVars
<1>2. /\ TypeOK /\ OrderInv(a) /\ UncutInv(a) /\ CloseInv(Other(a))
      /\ Other(a) \in Ends
  BY OtherEnd DEF IInv, EndInv
<1>3. Sealed' = Sealed
  BY <1>1 DEF Sealed
<1>4. CASE HasItem(a)
  <2>1. /\ got' = [got EXCEPT ![a] = Append(@, Head(items[a]))]
        /\ reader' = reader
    BY <1>4 DEF ReaderNext
  <2>2. /\ items[a] \in Seq(1..MaxChunks) /\ items[a] # << >>
        /\ Len(got[a]) \in Nat /\ Len(items[a]) \in Nat
        /\ sent[Other(a)] \in Nat
    BY <1>2, <1>4, Types DEF HasItem
  <2>3. Len(items[a]) > 0 /\ Head(items[a]) = items[a][1]
    BY <2>2, ChunkTail
  <2>4. 1 \in 1..Len(items[a])
    BY <2>2, <2>3
  <2>5. Head(items[a]) = Len(got[a]) + 1
    BY <1>2, <2>3, <2>4 DEF OrderInv
  <2>6. Len(got[a]) < sent[Other(a)]
    <3> DEFINE x == Len(got[a])
               y == Len(items[a])
    <3>1. x \in Nat /\ y \in Nat /\ y > 0 /\ x + y <= sent[Other(a)]
      BY <1>2, <2>2, <2>3 DEF OrderInv, Arrived
    <3> HIDE DEF x, y
    <3>2. x < sent[Other(a)]
      BY <2>2, <3>1
    <3> QED BY <3>2 DEF x
  <2>7. got' = [got EXCEPT ![a] = Append(@, Len(@) + 1)]
    BY <2>1, <2>5
  <2>8. Loop' = Loop /\ Loop[a] = "open"
    BY <1>1, <2>1 DEF Loop
  <2>9. Duplex!Next
    BY <1>1, <1>3, <2>6, <2>7, <2>8, DuplexDelivers
  <2> QED BY <2>9
<1>5. CASE ~HasItem(a) /\ ~readClosed[a]
  <2>1. reader' = [reader EXCEPT ![a] = "waiting"] /\ got' = got
    BY <1>5 DEF ReaderNext
  <2>2. Loop' = Loop
    BY <1>1, <1>2, <2>1, LoopFollows
  <2> QED BY <1>1, <1>3, <2>1, <2>2, DuplexStutters
<1>6. CASE ~HasItem(a) /\ readClosed[a]
  <2>1. reader' = [reader EXCEPT ![a] = "ended"] /\ got' = got
    BY <1>6 DEF ReaderNext
  <2>2. Loop' = [Loop EXCEPT ![a] = "ended"] /\ Loop[a] = "open"
    BY <1>1, <1>2, <2>1, LoopFollows
  <2>3. ASSUME cut = {}
        PROVE  Sealed[Other(a)] /\ Len(got[a]) = sent[Other(a)]
    <3>1. Arrived(a) = sent[Other(a)] /\ EofSent(Other(a))
      BY <1>2, <1>6, <2>3 DEF UncutInv
    <3>2. Arrived(a) = Len(got[a])
      BY <1>2, <1>6, AllHanded DEF HasItem
    <3>3. Sealed[Other(a)]
      BY <1>2, <3>1 DEF CloseInv, EofSent, Sealed
    <3> QED BY <3>1, <3>2, <3>3
  <2>4. Duplex!Next
    BY <1>1, <1>3, <2>1, <2>2, <2>3, DuplexEndsStream
  <2> QED BY <2>4
<1> QED BY <1>4, <1>5, <1>6

LEMMA CutsImplement ==
  ASSUME IInv, TypeOK', NEW a \in Ends,
         Abort(a) \/ HubClose(a) \/ Disconnect
  PROVE  [Duplex!Next]_(Duplex!vars)
<1>0. TypeOK
  BY DEF IInv
<1>1. CASE Abort(a)
  <2>1. /\ writeStatus' = [writeStatus EXCEPT ![a] = "closed"]
        /\ Fail(a) /\ cut' # {} /\ UNCHANGED <<sent, got>>
    BY <1>1 DEF Abort, writeVars
  <2> QED BY <1>0, <2>1, SealedFollows, WakeKeepsTheEnded, DuplexCut
<1>2. CASE HubClose(a) /\ status[a] # "closed"
  <2>1. /\ writeStatus' = [writeStatus EXCEPT ![a] = "closed"]
        /\ EndRead(a) /\ cut' # {} /\ UNCHANGED <<sent, got>>
    BY <1>2 DEF HubClose, writeVars
  <2> QED BY <1>0, <2>1, SealedFollows, WakeKeepsTheEnded, DuplexCut
<1>3. CASE HubClose(a) /\ status[a] = "closed"
  <2>1. UNCHANGED <<sent, got, cut, writeStatus, reader>>
    BY <1>3 DEF HubClose, writeVars, stateVars
  <2> QED BY <2>1, DuplexStutters DEF Sealed, Loop
<1>4. CASE Disconnect
  <2>1. cut' # {} /\ UNCHANGED <<sent, got, writeStatus, reader>>
    BY <1>4 DEF Disconnect, stateVars, writeVars, readVars
  <2> QED BY <2>1, DuplexCut
<1> QED BY <1>1, <1>2, <1>3, <1>4

LEMMA NextImplements ==
  ASSUME IInv, IInv', [Next]_vars
  PROVE  [Duplex!Next]_(Duplex!vars)
<1>0. TypeOK /\ TypeOK' /\ "client" \in Ends
  BY DEF IInv, Ends
<1>1. ASSUME NEW a \in Ends, Send(a) PROVE Duplex!Next
  BY <1>1, DuplexSend DEF Send, stateVars, readVars, roomVars
<1>2. ASSUME NEW a \in Ends, Close(a) PROVE Duplex!Next
  <2>1. /\ writeStatus' = [writeStatus EXCEPT ![a] = "closing"]
        /\ UNCHANGED <<sent, got, reader, cut>>
    BY <1>2 DEF Close, readVars, roomVars
  <2>2. Sealed' = [Sealed EXCEPT ![a] = TRUE] /\ Loop' = Loop
    BY <1>0, <2>1, SealedFollows DEF Loop
  <2> QED BY <2>1, <2>2, DuplexSeals
<1>3. ASSUME NEW a \in Ends,
             \/ Transmit(a) \/ TransmitFails(a)
             \/ CloseSendsEof(a) \/ CloseThrows(a)
      PROVE  UNCHANGED Duplex!vars
  <2>1. UNCHANGED <<sent, got, cut, writeStatus, reader>>
    BY <1>3 DEF Transmit, TransmitFails, CloseSendsEof, CloseThrows,
                stateVars, readVars, roomVars
  <2> QED BY <2>1, DuplexStutters DEF Sealed, Loop
<1>4. CASE UNCHANGED vars
  <2>1. UNCHANGED <<sent, got, cut, writeStatus, reader>>
    BY <1>4 DEF vars, stateVars, writeVars, readVars, roomVars
  <2> QED BY <2>1, DuplexStutters DEF Sealed, Loop
<1> QED BY <1>0, <1>1, <1>2, <1>3, <1>4, CutsImplement,
           CloseReturnsImplements, ReceiveDataImplements,
           ReceiveEofImplements, ReceiveAbortImplements,
           ReceiveLeaveImplements, ReaderNextImplements
        DEF Next, User, Drain, CloseGoesOn, Receive

(* The two objects and the room implement the abstract two-way stream. *)
THEOREM Implements == Spec => ImplementsDuplexStream
<1>1. ASSUME Init PROVE Duplex!Init
  <2>1. Sealed = [e \in Ends |-> FALSE]
    BY <1>1 DEF Init, Sealed
  <2>2. Loop = [e \in Ends |-> "open"]
    BY <1>1 DEF Init, Loop
  <2>3. /\ sent = [e \in Ends |-> 0] /\ got = [e \in Ends |-> << >>]
        /\ ~(cut # {})
    BY <1>1 DEF Init
  <2> QED
    BY <2>1, <2>2, <2>3, DuplexEnds DEF Duplex!Init
<1>2. IInv /\ IInv' /\ [Next]_vars => [Duplex!Next]_(Duplex!vars)
  BY NextImplements
<1> QED BY <1>1, <1>2, Invariance, PTL DEF Spec, Duplex!Spec, ImplementsDuplexStream
-----------------------------------------------------------------------------
(* The halves of NobodyIsStuck that are safety.  First: two streams that   *)
(* are at rest rest well, which needs six more facts about an end that     *)
(* sends, fails, closes or is left alone.                                  *)

(* Nothing the runtime does by itself is left to do: see Runtime. *)
AtRest == \A e \in Ends : /\ pending[e] = << >>
                          /\ closeCall[e] \notin {"draining", "eofSent"}
                          /\ inRoom[e] => chan[e] = << >>

(* What NobodyIsStuck says of the state the two streams stay in. *)
RestsWell == AtRest => BothFinalized /\ \A e \in Ends : ReaderReleased(e)

Lost(e) == ~linkUp \/ ~inRoom[Other(e)]

(* An end whose room lost the other end is closed or about to hear of it;  *)
(* an end whose other end sends no more has stopped reading or is about    *)
(* to; only an end that is closed has sent an abort.                       *)
ToldInv(e) ==
  /\ Lost(e) /\ inRoom[e] => status[e] = "closed" \/ Has(chan[e], "leave")
  /\ EofSent(Other(e)) \/ status[Other(e)] = "closed" =>
       readClosed[e] \/ ~AllData(chan[e])
  /\ Has(chan[e], "abort") => status[Other(e)] = "closed"

(* Sending only fails when the other end cannot be reached any more. *)
FailedInv(e) == closeCall[e] = "threw" \/ sendFailed[e] => ~Reachable(e)

(* A stream closed for writing that still reads has not seen its end, and  *)
(* one that is closing has its close() under way or given up.              *)
HalfInv(e) ==
  /\ status[e] = "open" /\ writeStatus[e] = "closed" => ~readClosed[e]
  /\ writeStatus[e] = "closing" => closeCall[e] \notin {"none", "returned"}

RestInv == \A e \in Ends : ToldInv(e) /\ FailedInv(e) /\ HalfInv(e)
-----------------------------------------------------------------------------
LEMMA HasTail ==
  ASSUME NEW q \in Seq(Message), q # << >>, NEW k, Has(q, k), Head(q).kind # k
  PROVE  Has(Tail(q), k)
<1>1. PICK i \in 1..Len(q) : q[i].kind = k
  BY DEF Has
<1>2. i # 1
  BY <1>1, Tailed
<1>3. i - 1 \in 1..(Len(q) - 1) /\ (i - 1) + 1 = i
  BY <1>2, Tailed
<1>4. i - 1 \in 1..Len(Tail(q)) /\ Tail(q)[i - 1].kind = k
  BY <1>1, <1>3, Tailed
<1> QED BY <1>4 DEF Has

LEMMA HasControl ==
  ASSUME NEW q, NEW k, k # "data", Has(q, k)
  PROVE  ~AllData(q)
BY DEF Has, AllData

LEMMA StaysOut ==
  ASSUME TypeOK, [Next]_vars, NEW e \in Ends
  PROVE  (inRoom'[e] => inRoom[e]) /\ (linkUp' => linkUp)
<1>1. \/ inRoom' = inRoom
      \/ \E a \in Ends : inRoom' = [inRoom EXCEPT ![a] = FALSE]
  BY DEF Next, vars, roomVars, User, Drain, CloseGoesOn, Receive, Send, Close,
         Abort, HubClose, Transmit, TransmitFails, CloseSendsEof, CloseThrows,
         CloseReturns, ReceiveData, ReceiveEof, ReceiveAbort, ReceiveLeave,
         ReaderNext, Disconnect, MaybeFinalize, Finalize, LeaveRoom
<1>2. linkUp' => linkUp
  BY DEF Next, vars, roomVars, User, Drain, CloseGoesOn, Receive, Send, Close,
         Abort, HubClose, Transmit, TransmitFails, CloseSendsEof, CloseThrows,
         CloseReturns, ReceiveData, ReceiveEof, ReceiveAbort, ReceiveLeave,
         ReaderNext, Disconnect
<1>3. ASSUME NEW a \in Ends, inRoom' = [inRoom EXCEPT ![a] = FALSE]
      PROVE  inRoom'[e] => inRoom[e]
  BY <1>3 DEF TypeOK
<1> QED BY <1>1, <1>2, <1>3

LEMMA FailedKept ==
  ASSUME TypeOK, [Next]_vars, NEW e \in Ends, FailedInv(e)
  PROVE  FailedInv(e)'
<1>1. Reachable(e)' => Reachable(e)
  BY StaysOut, OtherEnd DEF Reachable
<1>2. \/ closeCall' = closeCall
      \/ \E a \in Ends, k \in {"draining", "eofSent", "returned"} :
           closeCall' = [closeCall EXCEPT ![a] = k]
      \/ \E a \in Ends : /\ closeCall' = [closeCall EXCEPT ![a] = "threw"]
                         /\ sendFailed[a] \/ ~Reachable(a)
  BY DEF Next, vars, writeVars, User, Drain, CloseGoesOn, Receive, Send, Close,
         Abort, HubClose, Transmit, TransmitFails, CloseSendsEof, CloseThrows,
         CloseReturns, ReceiveData, ReceiveEof, ReceiveAbort, ReceiveLeave,
         ReaderNext, Disconnect
<1>3. \/ sendFailed' = sendFailed
      \/ \E a \in Ends : /\ sendFailed' = [sendFailed EXCEPT ![a] = TRUE]
                         /\ ~Reachable(a)
  BY DEF Next, vars, writeVars, User, Drain, CloseGoesOn, Receive, Send, Close,
         Abort, HubClose, Transmit, TransmitFails, CloseSendsEof, CloseThrows,
         CloseReturns, ReceiveData, ReceiveEof, ReceiveAbort, ReceiveLeave,
         ReaderNext, Disconnect
<1>4. closeCall'[e] = "threw" =>
        closeCall[e] = "threw" \/ sendFailed[e] \/ ~Reachable(e)
  <2>1. ASSUME NEW a \in Ends, NEW k \in {"draining", "eofSent", "returned"},
               closeCall' = [closeCall EXCEPT ![a] = k],
               closeCall'[e] = "threw"
        PROVE  closeCall[e] = "threw"
    BY <2>1 DEF TypeOK
  <2>2. ASSUME NEW a \in Ends, closeCall' = [closeCall EXCEPT ![a] = "threw"],
               sendFailed[a] \/ ~Reachable(a), closeCall'[e] = "threw"
        PROVE  closeCall[e] = "threw" \/ sendFailed[e] \/ ~Reachable(e)
    <3>1. CASE a = e
      BY <2>2, <3>1
    <3>2. CASE a # e
      BY <2>2, <3>2 DEF TypeOK
    <3> QED BY <3>1, <3>2
  <2> QED BY <1>2, <2>1, <2>2
<1>5. sendFailed'[e] => sendFailed[e] \/ ~Reachable(e)
  <2>1. ASSUME NEW a \in Ends, sendFailed' = [sendFailed EXCEPT ![a] = TRUE],
               ~Reachable(a)
        PROVE  sendFailed'[e] => sendFailed[e] \/ ~Reachable(e)
    <3>1. CASE a = e
      BY <2>1, <3>1
    <3>2. CASE a # e
      BY <2>1, <3>2 DEF TypeOK
    <3> QED BY <3>1, <3>2
  <2> QED BY <1>3, <2>1
<1> QED BY <1>1, <1>4, <1>5 DEF FailedInv
-----------------------------------------------------------------------------
(* What a step of end a leaves alone at an end. *)
LEMMA HalfFrame ==
  ASSUME NEW e \in Ends, HalfInv(e),
         UNCHANGED <<status[e], writeStatus[e], readClosed[e], closeCall[e]>>
  PROVE  HalfInv(e)'
BY DEF HalfInv

(* A step that gives the stream up leaves a closed one. *)
LEMMA HalfClosed ==
  ASSUME NEW e, status'[e] = "closed", writeStatus'[e] = "closed"
  PROVE  HalfInv(e)'
BY DEF HalfInv

LEMMA HalfKept ==
  ASSUME IInv, [Next]_vars, NEW e \in Ends, HalfInv(e)
  PROVE  HalfInv(e)'
<1> TypeOK
  BY DEF IInv
<1>1. CASE UNCHANGED <<status, writeStatus, readClosed, closeCall>>
  BY <1>1, HalfFrame
<1>2. ASSUME NEW a \in Ends, a # e,
             status'[e] = status[e] /\ writeStatus'[e] = writeStatus[e],
             readClosed'[e] = readClosed[e] /\ closeCall'[e] = closeCall[e]
      PROVE  HalfInv(e)'
  BY <1>2, HalfFrame
<1>3. ASSUME NEW a \in Ends, Close(a) PROVE HalfInv(e)'
  <2>1. /\ writeStatus' = [writeStatus EXCEPT ![a] = "closing"]
        /\ closeCall' = [closeCall EXCEPT ![a] = "draining"]
        /\ UNCHANGED <<status, readClosed>>
    BY <1>3 DEF Close
  <2>2. CASE a = e
    BY <2>1, <2>2 DEF HalfInv, TypeOK
  <2>3. CASE a # e
    BY <1>2, <2>1, <2>3 DEF TypeOK
  <2> QED BY <2>2, <2>3
<1>4. ASSUME NEW a \in Ends, CloseSendsEof(a) PROVE HalfInv(e)'
  <2>1. /\ closeCall' = [closeCall EXCEPT ![a] = "eofSent"]
        /\ UNCHANGED <<status, readClosed, writeStatus>>
    BY <1>4 DEF CloseSendsEof, stateVars
  <2>2. CASE a = e
    BY <2>1, <2>2 DEF HalfInv, TypeOK
  <2>3. CASE a # e
    BY <1>2, <2>1, <2>3 DEF TypeOK
  <2> QED BY <2>2, <2>3
<1>5. ASSUME NEW a \in Ends, CloseThrows(a) PROVE HalfInv(e)'
  <2>1. /\ closeCall' = [closeCall EXCEPT ![a] = "threw"]
        /\ UNCHANGED <<status, readClosed, writeStatus>>
    BY <1>5 DEF CloseThrows, stateVars
  <2>2. CASE a = e
    BY <2>1, <2>2 DEF HalfInv, TypeOK
  <2>3. CASE a # e
    BY <1>2, <2>1, <2>3 DEF TypeOK
  <2> QED BY <2>2, <2>3
<1>6. ASSUME NEW a \in Ends, CloseReturns(a) PROVE HalfInv(e)'
  <2>1. /\ closeCall' = [closeCall EXCEPT ![a] = "returned"]
        /\ writeStatus' = [writeStatus EXCEPT ![a] = "closed"]
        /\ readClosed' = readClosed
        /\ IF readClosed[a] THEN status' = [status EXCEPT ![a] = "closed"]
           ELSE status' = status
    BY <1>6 DEF CloseReturns, MaybeFinalize
  <2>2. CASE a = e
    <3>1. CASE readClosed[a]
      BY <2>1, <2>2, <3>1, HalfClosed DEF TypeOK
    <3>2. CASE ~readClosed[a]
      BY <2>1, <2>2, <3>2 DEF HalfInv, TypeOK
    <3> QED BY <3>1, <3>2
  <2>3. CASE a # e
    BY <1>2, <2>1, <2>3 DEF TypeOK
  <2> QED BY <2>2, <2>3
<1>7. ASSUME NEW a \in Ends, closeCall' = closeCall,
             status' = [status EXCEPT ![a] = "closed"],
             writeStatus' = [writeStatus EXCEPT ![a] = "closed"],
             EndRead(a) \/ Fail(a)
      PROVE  HalfInv(e)'
  <2>1. CASE a = e
    BY <1>7, <2>1, HalfClosed DEF TypeOK
  <2>2. CASE a # e
    <3>1. \/ readClosed' = readClosed
          \/ readClosed' = [readClosed EXCEPT ![a] = TRUE]
      BY <1>7 DEF EndRead, Fail
    <3> QED BY <1>2, <1>7, <2>2, <3>1 DEF TypeOK
  <2> QED BY <2>1, <2>2
<1>8. ASSUME NEW a \in Ends, ReceiveEof(a) PROVE HalfInv(e)'
  <2>1. /\ closeCall' = closeCall
        /\ writeStatus' = writeStatus
        /\ \/ readClosed' = readClosed
           \/ readClosed' = [readClosed EXCEPT ![a] = TRUE]
        /\ IF writeStatus[a] = "closed"
             THEN status' = [status EXCEPT ![a] = "closed"]
             ELSE status' = status
    BY <1>8 DEF ReceiveEof, MaybeFinalize, EndRead, writeVars
  <2>2. CASE a = e
    <3>1. CASE writeStatus[a] = "closed"
      BY <2>1, <2>2, <3>1, HalfClosed DEF TypeOK
    <3>2. CASE writeStatus[a] # "closed"
      BY <2>1, <2>2, <3>2 DEF HalfInv, TypeOK
    <3> QED BY <3>1, <3>2
  <2>3. CASE a # e
    BY <1>2, <2>1, <2>3 DEF TypeOK
  <2> QED BY <2>2, <2>3
<1>9. ASSUME NEW a \in Ends, ReceiveLeave(a) PROVE HalfInv(e)'
  <2>1. CASE status[a] = "closed"
    BY <1>1, <1>9, <2>1 DEF ReceiveLeave, stateVars, writeVars
  <2>2. CASE status[a] # "closed"
    BY <1>7, <1>9, <2>2 DEF ReceiveLeave, writeVars
  <2> QED BY <2>1, <2>2
<1>10. ASSUME NEW a \in Ends, HubClose(a) PROVE HalfInv(e)'
  <2>1. CASE status[a] = "closed"
    BY <1>1, <1>10, <2>1 DEF HubClose, stateVars, writeVars
  <2>2. CASE status[a] # "closed"
    BY <1>7, <1>10, <2>2 DEF HubClose, writeVars
  <2> QED BY <2>1, <2>2
<1>11. ASSUME NEW a \in Ends, Abort(a) \/ ReceiveAbort(a) PROVE HalfInv(e)'
  BY <1>7, <1>11 DEF Abort, ReceiveAbort, writeVars
<1>12. ASSUME NEW a \in Ends,
              \/ Send(a) \/ Transmit(a) \/ TransmitFails(a)
              \/ ReceiveData(a) \/ ReaderNext(a)
       PROVE  HalfInv(e)'
  BY <1>1, <1>12
  DEF Send, Transmit, TransmitFails, ReceiveData, ReaderNext, stateVars,
      writeVars
<1>13. CASE Disconnect
  BY <1>1, <1>13 DEF Disconnect, stateVars, writeVars
<1>14. CASE UNCHANGED vars
  BY <1>1, <1>14 DEF vars, stateVars, writeVars
<1> QED
  BY <1>3, <1>4, <1>5, <1>6, <1>8, <1>9, <1>10, <1>11, <1>12, <1>13, <1>14
  DEF Next, User, Drain, CloseGoesOn, Receive
-----------------------------------------------------------------------------
LEMMA ToldFrame ==
  ASSUME NEW e \in Ends, ToldInv(e), EofSent(Other(e))' <=> EofSent(Other(e)),
         UNCHANGED <<linkUp, inRoom[e], inRoom[Other(e)], status[e],
                     status[Other(e)], readClosed[e], chan[e]>>
  PROVE  ToldInv(e)'
BY DEF ToldInv, Lost

(* The end that stops is told of nothing any more. *)
LEMMA ToldShut ==
  ASSUME NEW a \in Ends, ToldInv(a), status'[a] = "closed",
         readClosed'[a] = TRUE, Has(chan'[a], "abort") => Has(chan[a], "abort"),
         status'[Other(a)] = status[Other(a)]
  PROVE  ToldInv(a)'
BY DEF ToldInv

(* What the other end cannot reach any more has heard or will hear of it. *)
LEMMA UnreachableTold ==
  ASSUME IInv, NEW o \in Ends, ToldInv(o), ~Reachable(Other(o))
  PROVE  readClosed[o] \/ ~AllData(chan[o])
<1>1. Local(o)
  BY Unfolded
<1>2. inRoom[o] => Lost(o)
  BY OtherEnd DEF Reachable, Lost
<1>3. inRoom[o] => status[o] = "closed" \/ Has(chan[o], "leave")
  BY <1>2 DEF ToldInv
<1> QED BY <1>1, <1>3, HasControl DEF Local, ClosedInv

LEMMA LeavesBehind ==
  ASSUME TypeOK, NEW c \in Chan, NEW a \in Ends, NEW o \in Ends,
         a = Other(o), Leaves(a, c)
  PROVE  /\ \A k : Has(c[o], k) => Has(chan'[o], k)
         /\ inRoom[a] /\ ~inRoom'[a] /\ Reachable(a) => Has(chan'[o], "leave")
<1> o = Other(a) /\ o # a
  BY OtherEnd
<1>1. c[a] \in Seq(Message) /\ c[o] \in Seq(Message)
  BY DEF Chan
<1>2. CASE chan' = c /\ UNCHANGED inRoom
  BY <1>2
<1>3. CASE LeaveRoom(a, c)
  <2> DEFINE m == Control("leave")
  <2>1. m \in Message /\ m.kind = "leave"
    BY ControlMessages
  <2>2. \A k : Has(Append(c[o], m), k) <=> Has(c[o], k) \/ m.kind = k
    BY <1>1, <2>1, AppendHas
  <2>3. /\ Post(c, a, m) \in Chan
        /\ Reachable(a) => Post(c, a, m)[o] = Append(c[o], m)
        /\ ~Reachable(a) => Post(c, a, m) = c
    BY <2>1, PostIs
  <2>4. chan' = [Post(c, a, m) EXCEPT ![a] = << >>]
    BY <1>3 DEF LeaveRoom
  <2> HIDE DEF m
  <2>5. chan'[o] = Post(c, a, m)[o]
    BY <2>3, <2>4 DEF Chan
  <2> QED BY <2>1, <2>2, <2>3, <2>5
<1> QED BY <1>2, <1>3 DEF Leaves

(* The other end of one that has closed and may leave the room. *)
LEMMA ToldFed ==
  ASSUME IInv, NEW a \in Ends, NEW o \in Ends, a = Other(o), NEW c \in Chan,
         ToldInv(o), Leaves(a, c), status'[a] = "closed",
         status'[o] = status[o], readClosed'[o] = readClosed[o],
         linkUp' = linkUp,
         \A k : Has(chan[o], k) => Has(c[o], k),
         readClosed[o] \/ ~AllData(c[o]) \/ (inRoom[a] /\ ~inRoom'[a])
  PROVE  ToldInv(o)'
<1> TypeOK /\ o = Other(a)
  BY OtherEnd DEF IInv
<1>1. /\ \A k : Has(c[o], k) => Has(chan'[o], k)
      /\ inRoom[a] /\ ~inRoom'[a] /\ Reachable(a) => Has(chan'[o], "leave")
  BY LeavesBehind
<1>2. /\ Grown(c[o], chan'[o])
      /\ inRoom'[o] = inRoom[o]
      /\ inRoom'[a] => inRoom[a]
  BY LeavesEffect
<1>3. (Lost(o) /\ inRoom[o] => status[o] = "closed" \/ Has(chan[o], "leave"))'
  <2> SUFFICES ASSUME Lost(o)', inRoom[o]
               PROVE  status[o] = "closed" \/ Has(chan'[o], "leave")
    BY <1>2
  <2>1. CASE Lost(o)
    BY <1>1, <2>1 DEF ToldInv
  <2>2. CASE ~Lost(o)
    <3>1. linkUp /\ inRoom[a] /\ ~inRoom'[a]
      BY <2>2 DEF Lost
    <3> QED BY <1>1, <3>1 DEF Reachable
  <2> QED BY <2>1, <2>2
<1>4. readClosed'[o] \/ ~AllData(chan'[o])
  <2>1. ~AllData(c[o]) => ~AllData(chan'[o])
    BY <1>2 DEF Grown
  <2>2. CASE inRoom[a] /\ ~inRoom'[a] /\ Reachable(a)
    BY <1>1, <2>2, HasControl
  <2>3. CASE ~Reachable(a)
    <3>1. Lost(o) /\ inRoom[o] => status[o] = "closed" \/ Has(chan'[o], "leave")
      BY <1>1 DEF ToldInv
    <3>2. inRoom[o] => Lost(o)
      BY <2>3 DEF Reachable, Lost
    <3>3. ~inRoom[o] \/ status[o] = "closed" => readClosed[o]
      BY Unfolded DEF Local, ClosedInv
    <3> QED BY <3>1, <3>2, <3>3, HasControl
  <2> QED BY <2>1, <2>2, <2>3
<1> QED BY <1>3, <1>4 DEF ToldInv

(* One lemma for the steps of end a that change what is on its way. *)
LEMMA TransmitTells ==
  ASSUME IInv, RestInv, NEW a \in Ends, Transmit(a)
  PROVE  ToldInv(a)' /\ ToldInv(Other(a))'
<1> DEFINE o == Other(a)
<1> DEFINE m == Data(Head(pending[a]))
<1> o \in Ends /\ o # a /\ Other(o) = a
  BY OtherEnd
<1>0. TypeOK /\ ToldInv(a) /\ ToldInv(o)
  BY DEF IInv, RestInv
<1>1. /\ chan' = Post(chan, a, m)
      /\ closeCall' = closeCall
      /\ UNCHANGED <<linkUp, inRoom, status, readClosed>>
  BY DEF Transmit, stateVars, roomVars
<1>2. Head(pending[a]) \in 1..MaxChunks
  BY <1>0, Types, ChunkTail DEF Transmit
<1>3. m \in Message /\ m.kind = "data"
  BY <1>2, DataMessages
<1> HIDE DEF m
<1>4. chan \in Chan /\ chan[o] \in Seq(Message)
  BY <1>0, Types
<1>5. /\ chan'[a] = chan[a]
      /\ Reachable(a) => chan'[o] = Append(chan[o], m)
      /\ ~Reachable(a) => chan'[o] = chan[o]
  BY <1>1, <1>3, <1>4, PostIs
<1>6. ToldInv(a)'
  BY <1>0, <1>1, <1>5, ToldFrame DEF EofSent
<1>7. \A k : k # "data" => (Has(Append(chan[o], m), k) <=> Has(chan[o], k))
  BY <1>3, <1>4, AppendHas
<1>8. AllData(Append(chan[o], m)) <=> AllData(chan[o])
  BY <1>3, <1>4, AppendData
<1>9. ToldInv(o)'
  BY <1>0, <1>1, <1>5, <1>7, <1>8 DEF ToldInv, Lost, EofSent
<1> QED BY <1>6, <1>9

LEMMA CloseSendsEofTells ==
  ASSUME IInv, RestInv, NEW a \in Ends, CloseSendsEof(a)
  PROVE  ToldInv(a)' /\ ToldInv(Other(a))'
<1> DEFINE o == Other(a)
<1> DEFINE m == Control("eof")
<1> o \in Ends /\ o # a /\ Other(o) = a
  BY OtherEnd
<1>0. TypeOK /\ ToldInv(a) /\ ToldInv(o)
  BY DEF IInv, RestInv
<1>1. /\ chan' = Post(chan, a, m)
      /\ closeCall' = [closeCall EXCEPT ![a] = "eofSent"]
      /\ UNCHANGED <<linkUp, inRoom, status, readClosed>>
  BY DEF CloseSendsEof, stateVars, roomVars
<1>2. closeCall'[o] = closeCall[o]
  BY <1>0, <1>1 DEF TypeOK
<1>3. m \in Message /\ m.kind = "eof"
  BY ControlMessages
<1> HIDE DEF m
<1>4. chan \in Chan /\ chan[o] \in Seq(Message)
  BY <1>0, Types
<1>5. /\ chan'[a] = chan[a]
      /\ Reachable(a) => chan'[o] = Append(chan[o], m)
      /\ ~Reachable(a) => chan'[o] = chan[o]
  BY <1>1, <1>3, <1>4, PostIs
<1>6. ToldInv(a)'
  BY <1>0, <1>1, <1>2, <1>5, ToldFrame DEF EofSent
<1>7. \A k : Has(Append(chan[o], m), k) <=> Has(chan[o], k) \/ k = "eof"
  BY <1>3, <1>4, AppendHas
<1>8. ~AllData(Append(chan[o], m))
  BY <1>3, <1>4, AppendControl
<1>9. readClosed'[o] \/ ~AllData(chan'[o])
  BY <1>0, <1>1, <1>5, <1>8, UnreachableTold
<1>10. \A k : k # "eof" => (Has(chan'[o], k) <=> Has(chan[o], k))
  BY <1>5, <1>7
<1>11. ToldInv(o)'
  BY <1>0, <1>1, <1>9, <1>10 DEF ToldInv, Lost
<1> QED BY <1>6, <1>11

LEMMA CloseReturnsTells ==
  ASSUME IInv, RestInv, NEW a \in Ends, CloseReturns(a)
  PROVE  ToldInv(a)' /\ ToldInv(Other(a))'
<1> DEFINE o == Other(a)
<1> o \in Ends /\ o # a /\ Other(o) = a
  BY OtherEnd
<1>0. TypeOK /\ ToldInv(a) /\ ToldInv(o)
  BY DEF IInv, RestInv
<1>1. /\ closeCall[a] = "eofSent"
      /\ closeCall' = [closeCall EXCEPT ![a] = "returned"]
      /\ MaybeFinalize(a, readClosed[a], "closed", chan)
      /\ UNCHANGED <<readClosed, linkUp>>
  BY DEF CloseReturns
<1>2. closeCall'[a] = "returned" /\ closeCall'[o] = closeCall[o]
  BY <1>0, <1>1 DEF TypeOK
<1>3. CASE readClosed[a]
  <2>1. status' = [status EXCEPT ![a] = "closed"] /\ Finalize(a, chan)
    BY <1>1, <1>3 DEF MaybeFinalize
  <2>2. /\ Leaves(a, chan)
        /\ status'[a] = "closed" /\ status'[o] = status[o]
    BY <1>0, <2>1, ClosesEffect
  <2>3. Shrunk(chan[a], chan'[a])
    BY <1>0, <2>2, Types, LeavesEffect
  <2>4. ToldInv(a)'
    BY <1>0, <1>1, <1>3, <2>2, <2>3, ToldShut DEF Shrunk
  <2>5. readClosed[o] \/ ~AllData(chan[o])
    BY <1>0, <1>1 DEF ToldInv, EofSent
  <2>6. ToldInv(o)'
    BY <1>0, <1>1, <2>2, <2>5, Types, ToldFed
  <2> QED BY <2>4, <2>6
<1>4. CASE ~readClosed[a]
  <2>1. UNCHANGED <<chan, status, inRoom, readClosed, linkUp>>
    BY <1>1, <1>4 DEF MaybeFinalize
  <2>2. (EofSent(a)' <=> EofSent(a)) /\ (EofSent(o)' <=> EofSent(o))
    BY <1>1, <1>2 DEF EofSent
  <2> QED BY <1>0, <2>1, <2>2, ToldFrame
<1> QED BY <1>3, <1>4

LEMMA AbortTells ==
  ASSUME IInv, RestInv, NEW a \in Ends, Abort(a)
  PROVE  ToldInv(a)' /\ ToldInv(Other(a))'
<1> DEFINE o == Other(a)
<1> DEFINE c == Post(chan, a, Control("abort"))
<1> o \in Ends /\ o # a /\ Other(o) = a
  BY OtherEnd
<1>0. TypeOK /\ ToldInv(a) /\ ToldInv(o) /\ Local(a)
  BY Unfolded DEF RestInv
<1>1. /\ status' = [status EXCEPT ![a] = "closed"]
      /\ Fail(a)
      /\ Finalize(a, c)
      /\ UNCHANGED <<writeVars, items, got, linkUp>>
  BY DEF Abort
<1>2. chan \in Chan /\ chan[o] \in Seq(Message)
  BY <1>0, Types
<1>3. Control("abort") \in Message /\ Control("abort").kind = "abort"
  BY ControlMessages
<1>4. /\ c \in Chan /\ c[a] = chan[a]
      /\ Reachable(a) => c[o] = Append(chan[o], Control("abort"))
      /\ ~Reachable(a) => c[o] = chan[o]
  BY <1>2, <1>3, PostIs
<1>5. /\ ~AllData(Append(chan[o], Control("abort")))
      /\ \A k : Has(chan[o], k) => Has(Append(chan[o], Control("abort")), k)
  BY <1>2, <1>3, AppendControl, AppendHas
<1>6. /\ Leaves(a, c)
      /\ status'[a] = "closed" /\ status'[o] = status[o]
  BY <1>0, <1>1, ClosesEffect
<1> HIDE DEF c
<1>7. readClosed'[a] = TRUE /\ readClosed'[o] = readClosed[o]
  BY <1>0, <1>1, ReadEnds DEF Local
<1>8. ToldInv(a)'
  <2>1. Shrunk(chan[a], chan'[a])
    BY <1>0, <1>4, <1>6, LeavesEffect
  <2> QED BY <1>0, <1>6, <1>7, <2>1, ToldShut DEF Shrunk
<1>9. /\ readClosed[o] \/ ~AllData(c[o])
      /\ \A k : Has(chan[o], k) => Has(c[o], k)
  BY <1>0, <1>4, <1>5, UnreachableTold
<1>10. ToldInv(o)'
  BY <1>0, <1>1, <1>4, <1>6, <1>7, <1>9, ToldFed
<1> QED BY <1>8, <1>10

LEMMA HubCloseTells ==
  ASSUME IInv, RestInv, NEW a \in Ends, HubClose(a)
  PROVE  ToldInv(a)' /\ ToldInv(Other(a))'
<1> DEFINE o == Other(a)
<1> o \in Ends /\ o # a /\ Other(o) = a
  BY OtherEnd
<1>0. TypeOK /\ ToldInv(a) /\ ToldInv(o) /\ Local(a)
  BY Unfolded DEF RestInv
<1>1. /\ inRoom[a]
      /\ LeaveRoom(a, chan)
      /\ UNCHANGED <<writeVars, items, got, linkUp>>
      /\ status[a] = "closed" => UNCHANGED <<stateVars, reader, cut>>
      /\ status[a] # "closed" =>
           /\ status' = [status EXCEPT ![a] = "closed"]
           /\ EndRead(a)
  BY DEF HubClose
<1>2. /\ status'[a] = "closed" /\ readClosed'[a] = TRUE
      /\ status'[o] = status[o] /\ readClosed'[o] = readClosed[o]
  <2>1. CASE status[a] = "closed"
    BY <1>0, <1>1, <2>1 DEF Local, ClosedInv, TypeOK, stateVars
  <2>2. CASE status[a] # "closed"
    <3>1. status'[a] = "closed" /\ status'[o] = status[o]
      BY <1>0, <1>1, <2>2 DEF TypeOK
    <3>2. readClosed'[a] = TRUE /\ readClosed'[o] = readClosed[o]
      BY <1>0, <1>1, <2>2, ReadEnds DEF Local
    <3> QED BY <3>1, <3>2
  <2> QED BY <2>1, <2>2
<1>3. Leaves(a, chan) /\ chan \in Chan /\ ~inRoom'[a]
  BY <1>0, <1>1, Types DEF Leaves, LeaveRoom, TypeOK
<1>4. ToldInv(a)'
  <2>1. Shrunk(chan[a], chan'[a])
    BY <1>0, <1>3, LeavesEffect
  <2> QED BY <1>0, <1>2, <2>1, ToldShut DEF Shrunk
<1>5. ToldInv(o)'
  BY <1>0, <1>1, <1>2, <1>3, ToldFed
<1> QED BY <1>4, <1>5

(* What is left on its way to end a when it takes the head of its channel. *)
LEMMA TakenTells ==
  ASSUME TypeOK, NEW a \in Ends, chan[a] # << >>
  PROVE  /\ Taken(a) \in Chan
         /\ Taken(a)[Other(a)] = chan[Other(a)]
         /\ \A k : Has(Taken(a)[a], k) => Has(chan[a], k)
         /\ \A k : Has(chan[a], k) /\ Head(chan[a]).kind # k =>
              Has(Taken(a)[a], k)
<1>1. chan \in Chan /\ chan[a] \in Seq(Message)
  BY Types
<1>2. /\ Taken(a) \in Chan
      /\ Taken(a)[a] = Tail(chan[a])
      /\ Taken(a)[Other(a)] = chan[Other(a)]
  BY <1>1, TakenIs
<1> QED BY <1>1, <1>2, TailHas, HasTail

LEMMA ReceiveDataTells ==
  ASSUME IInv, RestInv, NEW a \in Ends, ReceiveData(a)
  PROVE  ToldInv(a)' /\ ToldInv(Other(a))'
<1> DEFINE o == Other(a)
<1> o \in Ends /\ o # a /\ Other(o) = a
  BY OtherEnd
<1>0. TypeOK /\ ToldInv(a) /\ ToldInv(o)
  BY DEF IInv, RestInv
<1>1. /\ chan[a] # << >> /\ Head(chan[a]).kind = "data"
      /\ chan' = Taken(a)
      /\ UNCHANGED <<linkUp, inRoom, status, readClosed, closeCall>>
  BY DEF ReceiveData, Arriving, stateVars, writeVars, roomVars
<1>2. chan[a] \in Seq(Message)
  BY <1>0, Types
<1>3. chan'[o] = chan[o]
  BY <1>0, <1>1, TakenTells
<1>4. \A k : k # "data" => (Has(chan'[a], k) <=> Has(chan[a], k))
  BY <1>0, <1>1, TakenTells
<1>5. AllData(chan'[a]) <=> AllData(chan[a])
  <2>1. chan'[a] = Tail(chan[a])
    BY <1>0, <1>1, Types, TakenIs
  <2> QED BY <1>1, <1>2, <2>1, TailData
<1>6. ToldInv(a)'
  BY <1>0, <1>1, <1>4, <1>5 DEF ToldInv, Lost, EofSent
<1>7. ToldInv(o)'
  BY <1>0, <1>1, <1>3, ToldFrame DEF EofSent
<1> QED BY <1>6, <1>7

LEMMA ReceiveEofTells ==
  ASSUME IInv, RestInv, NEW a \in Ends, ReceiveEof(a)
  PROVE  ToldInv(a)' /\ ToldInv(Other(a))'
<1> DEFINE o == Other(a)
<1> DEFINE c == Taken(a)
<1> o \in Ends /\ o # a /\ Other(o) = a
  BY OtherEnd
<1>0. TypeOK /\ ToldInv(a) /\ ToldInv(o) /\ Local(a)
  BY Unfolded DEF RestInv
<1>1. /\ chan[a] # << >> /\ Head(chan[a]).kind = "eof"
      /\ EndRead(a)
      /\ MaybeFinalize(a, TRUE, writeStatus[a], c)
      /\ UNCHANGED <<closeCall, linkUp>>
  BY DEF ReceiveEof, Arriving, writeVars
<1>2. readClosed'[a] = TRUE /\ readClosed'[o] = readClosed[o]
  BY <1>0, <1>1, ReadEnds DEF Local
<1>3. /\ c \in Chan /\ c[o] = chan[o]
      /\ \A k : Has(c[a], k) => Has(chan[a], k)
      /\ \A k : Has(chan[a], k) /\ k # "eof" => Has(c[a], k)
  BY <1>0, <1>1, TakenTells
<1> HIDE DEF c
<1>4. CASE writeStatus[a] = "closed"
  <2>1. status' = [status EXCEPT ![a] = "closed"] /\ Finalize(a, c)
    BY <1>1, <1>4 DEF MaybeFinalize
  <2>2. /\ Leaves(a, c)
        /\ status'[a] = "closed" /\ status'[o] = status[o]
    BY <1>0, <2>1, ClosesEffect
  <2>3. Shrunk(c[a], chan'[a])
    BY <1>0, <1>3, <2>2, LeavesEffect
  <2>4. ToldInv(a)'
    BY <1>0, <1>2, <1>3, <2>2, <2>3, ToldShut DEF Shrunk
  <2>5. status[a] = "closed" \/ EofSent(a)
    BY <1>0, <1>4 DEF Local, CloseInv, EofSent, TypeOK
  <2>6. readClosed[o] \/ ~AllData(c[o])
    BY <1>0, <1>3, <2>5 DEF ToldInv
  <2>7. ToldInv(o)'
    BY <1>0, <1>1, <1>2, <1>3, <2>2, <2>6, ToldFed
  <2> QED BY <2>4, <2>7
<1>5. CASE writeStatus[a] # "closed"
  <2>1. chan' = c /\ UNCHANGED <<status, inRoom>>
    BY <1>1, <1>5 DEF MaybeFinalize
  <2>2. ToldInv(a)'
    BY <1>0, <1>1, <1>2, <1>3, <2>1 DEF ToldInv, Lost
  <2>3. ToldInv(o)'
    BY <1>0, <1>1, <1>2, <1>3, <2>1, ToldFrame DEF EofSent
  <2> QED BY <2>2, <2>3
<1> QED BY <1>4, <1>5

LEMMA ReceiveAbortTells ==
  ASSUME IInv, RestInv, NEW a \in Ends, ReceiveAbort(a)
  PROVE  ToldInv(a)' /\ ToldInv(Other(a))'
<1> DEFINE o == Other(a)
<1> DEFINE c == Taken(a)
<1> o \in Ends /\ o # a /\ Other(o) = a
  BY OtherEnd
<1>0. TypeOK /\ ToldInv(a) /\ ToldInv(o) /\ Local(a) /\ Local(o)
  BY Unfolded DEF RestInv
<1>1. /\ chan[a] # << >> /\ Head(chan[a]).kind = "abort"
      /\ status' = [status EXCEPT ![a] = "closed"]
      /\ Fail(a)
      /\ Finalize(a, c)
      /\ UNCHANGED <<closeCall, linkUp>>
  BY DEF ReceiveAbort, Arriving, writeVars
<1>2. readClosed'[a] = TRUE /\ readClosed'[o] = readClosed[o]
  BY <1>0, <1>1, ReadEnds DEF Local
<1>3. /\ c \in Chan /\ c[o] = chan[o]
      /\ \A k : Has(c[a], k) => Has(chan[a], k)
  BY <1>0, <1>1, TakenTells
<1> HIDE DEF c
<1>4. /\ Leaves(a, c)
      /\ status'[a] = "closed" /\ status'[o] = status[o]
  BY <1>0, <1>1, ClosesEffect
<1>5. ToldInv(a)'
  <2>1. Shrunk(c[a], chan'[a])
    BY <1>0, <1>3, <1>4, LeavesEffect
  <2> QED BY <1>0, <1>2, <1>3, <1>4, <2>1, ToldShut DEF Shrunk
<1>6. readClosed[o]
  <2>1. Has(chan[a], "abort")
    BY <1>0, <1>1, Types, HeadNotData
  <2>2. status[o] = "closed"
    BY <1>0, <2>1 DEF ToldInv
  <2> QED BY <1>0, <2>2 DEF Local, ClosedInv
<1>7. ToldInv(o)'
  BY <1>0, <1>1, <1>2, <1>3, <1>4, <1>6, ToldFed
<1> QED BY <1>5, <1>7

LEMMA ReceiveLeaveTells ==
  ASSUME IInv, RestInv, NEW a \in Ends, ReceiveLeave(a)
  PROVE  ToldInv(a)' /\ ToldInv(Other(a))'
<1> DEFINE o == Other(a)
<1> DEFINE c == Taken(a)
<1> o \in Ends /\ o # a /\ Other(o) = a
  BY OtherEnd
<1>0. /\ TypeOK /\ ToldInv(a) /\ ToldInv(o) /\ Local(a) /\ Local(o)
      /\ Direction(a)
  BY Unfolded DEF RestInv
<1>1. /\ inRoom[a]
      /\ chan[a] # << >> /\ Head(chan[a]).kind = "leave"
      /\ UNCHANGED <<closeCall, linkUp>>
  BY DEF ReceiveLeave, Arriving, writeVars
<1>2. /\ c \in Chan /\ c[o] = chan[o]
      /\ \A k : Has(c[a], k) => Has(chan[a], k)
  BY <1>0, <1>1, TakenTells
<1>3. CASE status[a] = "closed"
  <2>1. chan' = c /\ UNCHANGED <<status, readClosed, inRoom>>
    BY <1>3 DEF ReceiveLeave, stateVars
  <2>2. readClosed[a]
    BY <1>0, <1>3 DEF Local, ClosedInv
  <2> HIDE DEF c
  <2>3. ToldInv(a)'
    BY <1>0, <1>2, <1>3, <2>1, <2>2 DEF ToldInv
  <2>4. ToldInv(o)'
    BY <1>0, <1>1, <1>2, <2>1, ToldFrame DEF EofSent
  <2> QED BY <2>3, <2>4
<1>4. CASE status[a] # "closed"
  <2>1. /\ status' = [status EXCEPT ![a] = "closed"]
        /\ EndRead(a)
        /\ Finalize(a, c)
    BY <1>4 DEF ReceiveLeave
  <2>2. readClosed'[a] = TRUE /\ readClosed'[o] = readClosed[o]
    BY <1>0, <2>1, ReadEnds DEF Local
  <2> HIDE DEF c
  <2>3. /\ Leaves(a, c)
        /\ status'[a] = "closed" /\ status'[o] = status[o]
    BY <1>0, <2>1, ClosesEffect
  <2>4. ToldInv(a)'
    <3>1. Shrunk(c[a], chan'[a])
      BY <1>0, <1>2, <2>3, LeavesEffect
    <3> QED BY <1>0, <1>2, <2>2, <2>3, <3>1, ToldShut DEF Shrunk
  <2>5. readClosed[o] \/ ~AllData(c[o])
    <3>1. ~linkUp \/ ~inRoom[o]
      BY <1>0, <1>1, Types, HeadNotData DEF Direction, LeaveInv
    <3>2. ~Reachable(a)
      BY <3>1 DEF Reachable
    <3> QED BY <1>0, <1>2, <3>2, UnreachableTold
  <2>6. ToldInv(o)'
    BY <1>0, <1>1, <1>2, <2>2, <2>3, <2>5, ToldFed
  <2> QED BY <2>4, <2>6
<1> QED BY <1>3, <1>4

LEMMA DisconnectTells ==
  ASSUME IInv, Disconnect, NEW e \in Ends
  PROVE  ToldInv(e)'
<1>1. /\ chan' = [f \in Ends |-> IF inRoom[f] THEN <<Control("leave")>>
                                 ELSE << >>]
      /\ UNCHANGED <<status, readClosed, inRoom>>
  BY DEF Disconnect, stateVars
<1>2. CASE inRoom[e]
  <2> DEFINE m == Control("leave")
  <2>1. m \in Message /\ m.kind = "leave"
    BY ControlMessages
  <2>2. chan'[e] = Append(<< >>, m)
    BY <1>1, <1>2
  <2> HIDE DEF m
  <2>3. \A k : Has(Append(<< >>, m), k) <=> Has(<< >>, k) \/ m.kind = k
    BY <2>1, EmptyChannel, AppendHas
  <2>4. \A k : Has(chan'[e], k) <=> k = "leave"
    BY <2>1, <2>2, <2>3, EmptyChannel
  <2>5. ~AllData(chan'[e])
    BY <2>4, HasControl
  <2> QED BY <2>4, <2>5 DEF ToldInv
<1>3. CASE ~inRoom[e]
  <2>1. chan'[e] = << >> /\ ~Has(chan'[e], "abort")
    BY <1>1, <1>3, EmptyChannel
  <2>2. status[e] = "closed" /\ readClosed[e]
    BY <1>3, Unfolded DEF Local, ClosedInv
  <2> QED BY <1>1, <2>1, <2>2 DEF ToldInv
<1> QED BY <1>2, <1>3

LEMMA ToldKept ==
  ASSUME IInv, RestInv, [Next]_vars, NEW e \in Ends
  PROVE  ToldInv(e)'
<1>0. TypeOK /\ ToldInv(e)
  BY DEF IInv, RestInv
<1>1. CASE UNCHANGED <<linkUp, inRoom, status, readClosed, chan>>
           /\ (EofSent(Other(e))' <=> EofSent(Other(e)))
  BY <1>0, <1>1, ToldFrame
<1>2. ASSUME NEW a \in Ends, ToldInv(a)' /\ ToldInv(Other(a))'
      PROVE  ToldInv(e)'
  BY <1>2, EndCases
<1>3. ASSUME NEW a \in Ends,
             \/ Transmit(a) \/ CloseSendsEof(a) \/ CloseReturns(a)
             \/ Abort(a) \/ HubClose(a) \/ ReceiveData(a) \/ ReceiveEof(a)
             \/ ReceiveAbort(a) \/ ReceiveLeave(a)
      PROVE  ToldInv(e)'
  <2>1. ToldInv(a)' /\ ToldInv(Other(a))'
    BY <1>3, TransmitTells, CloseSendsEofTells, CloseReturnsTells, AbortTells,
       HubCloseTells, ReceiveDataTells, ReceiveEofTells, ReceiveAbortTells,
       ReceiveLeaveTells
  <2> QED BY <1>2, <2>1
<1>4. ASSUME NEW a \in Ends, NEW k,
             k \in {"draining", "threw"},
             closeCall[a] \in {"none", "draining"},
             closeCall' = [closeCall EXCEPT ![a] = k]
      PROVE  EofSent(Other(e))' <=> EofSent(Other(e))
  <2>1. CASE a = Other(e)
    BY <1>0, <1>4, <2>1 DEF EofSent, TypeOK
  <2>2. CASE a # Other(e)
    BY <1>0, <1>4, <2>2 DEF EofSent, TypeOK
  <2> QED BY <2>1, <2>2
<1>5. ASSUME NEW a \in Ends, Close(a) PROVE ToldInv(e)'
  <2>1. closeCall[a] = "none"
    BY <1>5, Unfolded DEF Local, CloseInv, Close
  <2> QED BY <1>1, <1>4, <1>5, <2>1 DEF Close, roomVars
<1>6. ASSUME NEW a \in Ends, CloseThrows(a) PROVE ToldInv(e)'
  BY <1>1, <1>4, <1>6 DEF CloseThrows, stateVars, roomVars
<1>7. ASSUME NEW a \in Ends, Send(a) \/ TransmitFails(a) \/ ReaderNext(a)
      PROVE  ToldInv(e)'
  BY <1>1, <1>7 DEF Send, TransmitFails, ReaderNext, EofSent, stateVars,
                    writeVars, roomVars
<1>8. CASE UNCHANGED vars
  BY <1>1, <1>8 DEF vars, EofSent, stateVars, writeVars, roomVars
<1> QED BY <1>3, <1>5, <1>6, <1>7, <1>8, DisconnectTells
        DEF Next, User, Drain, CloseGoesOn, Receive

LEMMA InitRestInv == Init => RestInv
<1> SUFFICES ASSUME Init, NEW e \in Ends
             PROVE  ToldInv(e) /\ FailedInv(e) /\ HalfInv(e)
  BY DEF RestInv
<1>1. /\ chan[e] = << >> /\ linkUp /\ inRoom[Other(e)]
      /\ status[e] = "open" /\ status[Other(e)] = "open"
      /\ writeStatus[e] = "writable" /\ ~sendFailed[e]
      /\ closeCall[e] = "none" /\ closeCall[Other(e)] = "none"
  BY OtherEnd DEF Init
<1>2. ToldInv(e)
  BY <1>1, EmptyChannel DEF ToldInv, Lost, EofSent
<1>3. FailedInv(e) /\ HalfInv(e)
  BY <1>1 DEF FailedInv, HalfInv
<1> QED BY <1>2, <1>3

LEMMA AtRestReleases ==
  ASSUME IInv, RestInv, AtRest, NEW e \in Ends
  PROVE  ReaderReleased(e)
<1> SUFFICES ASSUME reader[e] = "waiting"
             PROVE  status[Other(e)] # "closed" /\ linkUp
  BY DEF ReaderReleased
<1>1. Local(e) /\ ToldInv(e)
  BY Unfolded DEF RestInv
<1>2. ~readClosed[e] /\ status[e] # "closed" /\ inRoom[e]
  BY <1>1 DEF Local, ReaderInv, ClosedInv
<1>3. chan[e] = << >>
  BY <1>2 DEF AtRest
<1> QED BY <1>1, <1>2, <1>3, EmptyChannel DEF ToldInv, Lost

(* Of an end that is not finalized: both ends reach each other. *)
LEMMA OpenAtRest ==
  ASSUME IInv, RestInv, AtRest, NEW e \in Ends, ~finalized[e]
  PROVE  /\ status[e] = "open"
         /\ Reachable(e) /\ Reachable(Other(e))
         /\ EofSent(Other(e)) \/ status[Other(e)] = "closed" => readClosed[e]
         /\ writeStatus[e] # "writable" => writeStatus[e] = "closed"
<1>1. Local(e) /\ ToldInv(e) /\ FailedInv(e) /\ HalfInv(e) /\ TypeOK
  BY Unfolded DEF RestInv
<1>2. status[e] = "open" /\ inRoom[e]
  BY <1>1 DEF Local, ClosedInv, TypeOK
<1>3. chan[e] = << >> /\ closeCall[e] \notin {"draining", "eofSent"}
  BY <1>2 DEF AtRest
<1>4. ~Lost(e)
  BY <1>1, <1>2, <1>3, EmptyChannel DEF ToldInv
<1>5. Reachable(e) /\ Reachable(Other(e))
  BY <1>2, <1>4, OtherEnd DEF Lost, Reachable
<1>6. EofSent(Other(e)) \/ status[Other(e)] = "closed" => readClosed[e]
  BY <1>1, <1>3, EmptyChannel DEF ToldInv
<1>7. writeStatus[e] # "closing"
  BY <1>1, <1>3, <1>5 DEF FailedInv, HalfInv, TypeOK
<1>8. writeStatus[e] \in {"writable", "closing", "closed"}
  BY <1>1 DEF TypeOK
<1> QED BY <1>2, <1>5, <1>6, <1>7, <1>8

LEMMA AtRestFinalized ==
  ASSUME IInv, RestInv, AtRest
  PROVE  BothFinalized
<1> SUFFICES ASSUME \A e \in Ends : writeStatus[e] # "writable",
                    NEW e \in Ends, ~finalized[e]
             PROVE  FALSE
  BY DEF BothFinalized
<1> DEFINE o == Other(e)
<1>0. o \in Ends /\ HalfInv(e) /\ Local(o)
  BY OtherEnd, Unfolded DEF RestInv
<1>1. /\ status[e] = "open" /\ writeStatus[e] = "closed"
      /\ EofSent(o) \/ status[o] = "closed" => readClosed[e]
  BY OpenAtRest
<1>2. ~EofSent(o) /\ status[o] # "closed"
  BY <1>0, <1>1 DEF HalfInv
<1>3. ~finalized[o]
  BY <1>0, <1>2 DEF Local, ClosedInv
<1>4. status[o] = "open" /\ writeStatus[o] = "closed"
  BY <1>0, <1>3, OpenAtRest
<1>5. closeCall[o] = "returned"
  BY <1>0, <1>4 DEF Local, CloseInv
<1> QED BY <1>2, <1>5 DEF EofSent

(* Two streams with nothing left to do by themselves are as NobodyIsStuck  *)
(* wants them: no reader waits for an end that is gone, and two streams    *)
(* closed for writing are finalized.                                       *)
THEOREM NobodyWaitsInVain == Spec => []RestsWell
<1>1. Init => IInv /\ RestInv
  BY InitIInv, InitRestInv
<1>2. IInv /\ RestInv /\ [Next]_vars => (IInv /\ RestInv)'
  <2> SUFFICES ASSUME IInv, RestInv, [Next]_vars PROVE IInv' /\ RestInv'
    OBVIOUS
  <2>1. IInv'
    BY NextKeeps
  <2>2. ASSUME NEW e \in Ends
        PROVE  ToldInv(e)' /\ FailedInv(e)' /\ HalfInv(e)'
    BY ToldKept, FailedKept, HalfKept DEF RestInv, IInv
  <2> QED BY <2>1, <2>2 DEF RestInv
<1>3. IInv /\ RestInv => RestsWell
  BY AtRestReleases, AtRestFinalized DEF RestsWell
<1> QED BY <1>1, <1>2, <1>3, PTL DEF Spec
-----------------------------------------------------------------------------
(* The other half: the two streams run out of steps.  Every step, also one *)
(* of the users or the reader, lowers the number of the steps left; the    *)
(* weights are what a step can cause at most.                              *)
ToSend(e) == 4 * (MaxChunks - sent[e]) + 3 * Len(pending[e])

ToClose(e) == (CASE closeCall[e] = "none" -> 5
                 [] closeCall[e] = "draining" -> 4
                 [] closeCall[e] = "eofSent" -> 1
                 [] OTHER -> 0)
                + (IF status[e] = "open" THEN 3 ELSE 0)

ToLeave(e) == IF inRoom[e] THEN 3 ELSE 0

ToRead(e) == Len(items[e]) + (IF reader[e] = "idle" THEN 1 ELSE 0)

ToHear(e) == 2 * Len(chan[e])

Own(e) == ToSend(e) + ToClose(e) + ToLeave(e) + ToRead(e)

ToLose == IF linkUp THEN 5 ELSE 0

Left == Own("client") + ToHear("client")
          + Own("listener") + ToHear("listener") + ToLose

LEMMA Weights ==
  ASSUME TypeOK, NEW e \in Ends
  PROVE  /\ ToSend(e) \in Nat /\ ToClose(e) \in Nat /\ ToLeave(e) \in Nat
         /\ ToRead(e) \in Nat /\ ToHear(e) \in Nat /\ Own(e) \in Nat
         /\ ToLose \in Nat
<1>1. /\ sent[e] \in 0..MaxChunks /\ Len(pending[e]) \in Nat
      /\ Len(items[e]) \in Nat /\ Len(chan[e]) \in Nat
  BY DEF TypeOK
<1>2. ToSend(e) \in Nat
  <2> DEFINE n == sent[e]
             l == Len(pending[e])
  <2>1. ToSend(e) = 4 * (MaxChunks - n) + 3 * l
    BY DEF ToSend
  <2>2. n \in 0..MaxChunks /\ l \in Nat
    BY <1>1
  <2> HIDE DEF n, l
  <2>3. 4 * (MaxChunks - n) + 3 * l \in Nat
    BY <2>2
  <2> QED BY <2>1, <2>3
<1>3. ToClose(e) \in Nat
  BY DEF ToClose
<1>4. ToLeave(e) \in Nat /\ ToLose \in Nat
  BY DEF ToLeave, ToLose
<1>5. ToRead(e) \in Nat
  <2> DEFINE l == Len(items[e])
             i == IF reader[e] = "idle" THEN 1 ELSE 0
  <2>1. ToRead(e) = l + i
    BY DEF ToRead
  <2>2. l \in Nat /\ i \in Nat
    BY <1>1
  <2> HIDE DEF l, i
  <2> QED BY <2>1, <2>2
<1>6. ToHear(e) \in Nat
  BY <1>1 DEF ToHear
<1> QED BY <1>2, <1>3, <1>4, <1>5, <1>6 DEF Own

LEMMA WeightsNext ==
  ASSUME TypeOK', NEW e \in Ends
  PROVE  /\ ToSend(e)' \in Nat /\ ToClose(e)' \in Nat /\ ToLeave(e)' \in Nat
         /\ ToRead(e)' \in Nat /\ ToHear(e)' \in Nat /\ Own(e)' \in Nat
         /\ ToLose' \in Nat
<1>1. /\ sent'[e] \in 0..MaxChunks /\ Len(pending'[e]) \in Nat
      /\ Len(items'[e]) \in Nat /\ Len(chan'[e]) \in Nat
  BY DEF TypeOK
<1>2. ToSend(e)' \in Nat
  <2> DEFINE n == sent'[e]
             l == Len(pending'[e])
  <2>1. ToSend(e)' = 4 * (MaxChunks - n) + 3 * l
    BY DEF ToSend
  <2>2. n \in 0..MaxChunks /\ l \in Nat
    BY <1>1
  <2> HIDE DEF n, l
  <2>3. 4 * (MaxChunks - n) + 3 * l \in Nat
    BY <2>2
  <2> QED BY <2>1, <2>3
<1>3. ToClose(e)' \in Nat
  BY DEF ToClose
<1>4. ToLeave(e)' \in Nat /\ ToLose' \in Nat
  BY DEF ToLeave, ToLose
<1>5. ToRead(e)' \in Nat
  <2> DEFINE l == Len(items'[e])
             i == IF reader'[e] = "idle" THEN 1 ELSE 0
  <2>1. ToRead(e)' = l + i
    BY DEF ToRead
  <2>2. l \in Nat /\ i \in Nat
    BY <1>1
  <2> HIDE DEF l, i
  <2> QED BY <2>1, <2>2
<1>6. ToHear(e)' \in Nat
  BY <1>1 DEF ToHear
<1> QED BY <1>2, <1>3, <1>4, <1>5, <1>6 DEF Own

(* A step of end a only reaches the other end through its channel. *)
LEMMA Lowered ==
  ASSUME TypeOK, TypeOK', NEW a \in Ends, NEW o \in Ends, o = Other(a),
         Own(o)' = Own(o), ToLose' = ToLose,
         Own(a)' + ToHear(a)' + ToHear(o)' < Own(a) + ToHear(a) + ToHear(o)
  PROVE  Left' < Left
<1>2. \/ a = "client" /\ o = "listener"
      \/ a = "listener" /\ o = "client"
  BY DEF Ends, Other
<1> DEFINE ownA == Own(a)
           ownO == Own(o)
           hearA == ToHear(a)
           hearO == ToHear(o)
           ownAn == Own(a)'
           hearAn == ToHear(a)'
           hearOn == ToHear(o)'
           lose == ToLose
<1>1. /\ ownA \in Nat /\ ownO \in Nat /\ hearA \in Nat /\ hearO \in Nat
      /\ ownAn \in Nat /\ hearAn \in Nat /\ hearOn \in Nat /\ lose \in Nat
  BY Weights, WeightsNext
<1>3. /\ Left = (ownA + hearA) + (ownO + hearO) + lose
      /\ Left' = (ownAn + hearAn) + (ownO + hearOn) + lose
  <2>1. CASE a = "client" /\ o = "listener"
    <3>1. /\ Left = ownA + hearA + ownO + hearO + lose
          /\ Left' = ownAn + hearAn + ownO + hearOn + lose
      BY <2>1 DEF Left
    <3> HIDE DEF ownA, ownO, hearA, hearO, ownAn, hearAn, hearOn, lose
    <3> QED BY <1>1, <3>1
  <2>2. CASE a = "listener" /\ o = "client"
    <3>1. /\ Left = ownO + hearO + ownA + hearA + lose
          /\ Left' = ownO + hearOn + ownAn + hearAn + lose
      BY <2>2 DEF Left
    <3> HIDE DEF ownA, ownO, hearA, hearO, ownAn, hearAn, hearOn, lose
    <3> QED BY <1>1, <3>1
  <2> QED BY <1>2, <2>1, <2>2
<1>4. ownAn + hearAn + hearOn < ownA + hearA + hearO
  OBVIOUS
<1> HIDE DEF ownA, ownO, hearA, hearO, ownAn, hearAn, hearOn, lose
<1> QED BY <1>1, <1>3, <1>4

LEMMA LeftIsNat == TypeOK => Left \in Nat
<1> SUFFICES ASSUME TypeOK PROVE Left \in Nat
  OBVIOUS
<1>1. "client" \in Ends /\ "listener" \in Ends
  BY DEF Ends
<1> QED BY <1>1, Weights DEF Left

LEMMA OwnFrame ==
  ASSUME NEW e,
         UNCHANGED <<sent[e], pending[e], closeCall[e], status[e], inRoom[e],
                     items[e], reader[e]>>
  PROVE  Own(e)' = Own(e)
BY DEF Own, ToSend, ToClose, ToLeave, ToRead

LEMMA LoseFrame == ASSUME linkUp' = linkUp PROVE ToLose' = ToLose
BY DEF ToLose

(* What one message more, and a step that may leave the room, cost. *)
LEMMA PostCosts ==
  ASSUME NEW c \in Chan, NEW a \in Ends, NEW m \in Message
  PROVE  /\ Post(c, a, m)[a] = c[a]
         /\ Len(c[Other(a)]) \in Nat
         /\ \/ Len(Post(c, a, m)[Other(a)]) = Len(c[Other(a)])
            \/ Len(Post(c, a, m)[Other(a)]) = Len(c[Other(a)]) + 1
<1>1. c[Other(a)] \in Seq(Message)
  BY OtherEnd DEF Chan
<1>2. Len(c[Other(a)]) \in Nat
  BY <1>1
<1>3. Len(Append(c[Other(a)], m)) = Len(c[Other(a)]) + 1
  BY <1>1, Appended
<1> QED BY <1>2, <1>3, PostIs

LEMMA LeaveCosts ==
  ASSUME TypeOK, NEW c \in Chan, NEW a \in Ends, NEW o \in Ends, o = Other(a),
         inRoom[a], LeaveRoom(a, c)
  PROVE  /\ ToLeave(a) = 3 /\ ToLeave(a)' = 0
         /\ ToHear(a)' = 0
         /\ Len(c[o]) \in Nat
         /\ ToHear(o)' <= 2 * Len(c[o]) + 2
<1> DEFINE m == Control("leave")
<1> o # a
  BY OtherEnd
<1>1. m \in Message
  BY ControlMessages
<1>2. /\ chan' = [Post(c, a, m) EXCEPT ![a] = << >>]
      /\ inRoom' = [inRoom EXCEPT ![a] = FALSE]
  BY DEF LeaveRoom
<1> HIDE DEF m
<1>3. Post(c, a, m) \in Chan
  BY <1>1, PostIs
<1>4. chan'[a] = << >> /\ chan'[o] = Post(c, a, m)[o]
  BY <1>2, <1>3 DEF Chan
<1>5. ~inRoom'[a]
  BY <1>2 DEF TypeOK
<1>6. /\ Len(c[o]) \in Nat
      /\ Len(chan'[o]) = Len(c[o]) \/ Len(chan'[o]) = Len(c[o]) + 1
  BY <1>1, <1>4, PostCosts
<1>7. ToHear(o)' <= 2 * Len(c[o]) + 2
  <2> DEFINE x == Len(c[o])
             y == Len(chan'[o])
  <2>1. ToHear(o)' = 2 * y
    BY DEF ToHear
  <2>2. x \in Nat /\ (y = x \/ y = x + 1)
    BY <1>6
  <2>3. 2 * y <= 2 * x + 2
    <3> HIDE DEF x, y
    <3> QED BY <2>2
  <2> QED BY <2>1, <2>3
<1>8. ToHear(a)' = 0
  BY <1>4 DEF ToHear
<1> QED BY <1>5, <1>6, <1>7, <1>8 DEF ToLeave

LEMMA FinalizeCosts ==
  ASSUME TypeOK, TypeOK', NEW c \in Chan, NEW a \in Ends, NEW o \in Ends,
         o = Other(a), Finalize(a, c) \/ (chan' = c /\ inRoom' = inRoom)
  PROVE  /\ Len(c[a]) \in Nat /\ Len(c[o]) \in Nat
         /\ ToLeave(a)' + ToHear(a)' + ToHear(o)'
              <= ToLeave(a) + 2 * Len(c[a]) + 2 * Len(c[o])
<1> o # a
  BY OtherEnd
<1>1. Len(c[a]) \in Nat /\ Len(c[o]) \in Nat
  <2>1. c[a] \in Seq(Message) /\ c[o] \in Seq(Message)
    BY DEF Chan
  <2> QED BY <2>1
<1>2. /\ ToLeave(a) \in Nat /\ ToLeave(a)' \in Nat
      /\ ToHear(a)' \in Nat /\ ToHear(o)' \in Nat
  BY Weights, WeightsNext
<1> DEFINE x == Len(c[a])
           y == Len(c[o])
           l == ToLeave(a)
           ln == ToLeave(a)'
           hn == ToHear(a)'
           gn == ToHear(o)'
<1>3. ln + hn + gn <= l + 2 * x + 2 * y
  <2>1. CASE chan' = c /\ inRoom' = inRoom
    <3>1. ln = l /\ hn = 2 * x /\ gn = 2 * y
      BY <2>1 DEF ToLeave, ToHear
    <3> HIDE DEF x, y, l, ln, hn, gn
    <3> QED BY <1>1, <1>2, <3>1 DEF x, y, l, ln, hn, gn
  <2>2. CASE inRoom[a] /\ LeaveRoom(a, c)
    <3>1. l = 3 /\ ln = 0 /\ hn = 0 /\ gn <= 2 * y + 2
      BY <2>2, LeaveCosts
    <3>2. x \in Nat /\ y \in Nat /\ gn \in Nat
      BY <1>1, <1>2
    <3> HIDE DEF x, y, l, ln, hn, gn
    <3> QED BY <3>1, <3>2
  <2> QED BY <2>1, <2>2 DEF Finalize
<1> QED BY <1>1, <1>3

(* What a step of end a has to cost, in terms of what it changes. *)
LEMMA OwnLess ==
  ASSUME TypeOK, TypeOK', NEW a \in Ends, NEW o \in Ends,
         ToSend(a)' <= ToSend(a),
         ToClose(a)' <= ToClose(a),
         ToRead(a)' <= ToRead(a),
         ToLeave(a)' + ToHear(a)' + ToHear(o)'
           < ToLeave(a) + ToHear(a) + ToHear(o)
             + (ToSend(a) - ToSend(a)') + (ToClose(a) - ToClose(a)')
             + (ToRead(a) - ToRead(a)')
  PROVE  Own(a)' + ToHear(a)' + ToHear(o)' < Own(a) + ToHear(a) + ToHear(o)
<1> DEFINE s == ToSend(a)
           sn == ToSend(a)'
           c == ToClose(a)
           cn == ToClose(a)'
           l == ToLeave(a)
           ln == ToLeave(a)'
           r == ToRead(a)
           rn == ToRead(a)'
           h == ToHear(a)
           hn == ToHear(a)'
           g == ToHear(o)
           gn == ToHear(o)'
<1>1. /\ s \in Nat /\ sn \in Nat /\ c \in Nat /\ cn \in Nat
      /\ l \in Nat /\ ln \in Nat /\ r \in Nat /\ rn \in Nat
      /\ h \in Nat /\ hn \in Nat /\ g \in Nat /\ gn \in Nat
  BY Weights, WeightsNext
<1>2. Own(a) = s + c + l + r /\ Own(a)' = sn + cn + ln + rn
  BY DEF Own
<1>3. ln + hn + gn < l + h + g + (s - sn) + (c - cn) + (r - rn)
  OBVIOUS
<1>4. (sn + cn + ln + rn) + hn + gn < (s + c + l + r) + h + g
  <2> HIDE DEF s, sn, c, cn, l, ln, r, rn, h, hn, g, gn
  <2> QED BY <1>1, <1>3
<1> QED BY <1>2, <1>4

(* The parts of the sum a step leaves alone. *)
LEMMA ReadFrame ==
  ASSUME NEW e, UNCHANGED <<items[e], reader[e]>>
  PROVE  ToRead(e)' = ToRead(e)
BY DEF ToRead

LEMMA SendFrame ==
  ASSUME NEW e, UNCHANGED <<sent[e], pending[e]>>
  PROVE  ToSend(e)' = ToSend(e)
BY DEF ToSend

LEMMA CloseFrame ==
  ASSUME NEW e, UNCHANGED <<closeCall[e], status[e]>>
  PROVE  ToClose(e)' = ToClose(e)
BY DEF ToClose

LEMMA RoomFrame ==
  ASSUME NEW a, NEW o, UNCHANGED <<inRoom, chan>>
  PROVE  /\ ToLeave(a)' = ToLeave(a)
         /\ ToHear(a)' = ToHear(a) /\ ToHear(o)' = ToHear(o)
BY DEF ToLeave, ToHear

(* A channel that grows by a message at most. *)
LEMMA HearsOne ==
  ASSUME NEW e, Len(chan[e]) \in Nat,
         Len(chan'[e]) = Len(chan[e]) \/ Len(chan'[e]) = Len(chan[e]) + 1
  PROVE  /\ ToHear(e)' <= ToHear(e) + 2
         /\ chan'[e] = chan[e] => ToHear(e)' = ToHear(e)
<1>0. chan'[e] = chan[e] => ToHear(e)' = ToHear(e)
  BY DEF ToHear
<1> DEFINE x == Len(chan[e])
           y == Len(chan'[e])
<1>1. ToHear(e) = 2 * x /\ ToHear(e)' = 2 * y
  BY DEF ToHear
<1>2. x \in Nat /\ (y = x \/ y = x + 1)
  OBVIOUS
<1> HIDE DEF x, y
<1> QED BY <1>0, <1>1, <1>2

LEMMA SendLowers ==
  ASSUME TypeOK, TypeOK', NEW a \in Ends, Send(a)
  PROVE  Left' < Left
<1> DEFINE o == Other(a)
<1> o \in Ends /\ o # a
  BY OtherEnd
<1>1. /\ sent[a] < MaxChunks
      /\ sent' = [sent EXCEPT ![a] = @ + 1]
      /\ pending' = IF sendFailed[a] THEN pending
                    ELSE [pending EXCEPT ![a] = Append(@, sent[a] + 1)]
      /\ UNCHANGED <<status, items, reader, inRoom, linkUp, closeCall, chan>>
  BY DEF Send, stateVars, readVars, roomVars
<1>2. /\ sent'[a] = sent[a] + 1 /\ sent'[o] = sent[o]
      /\ pending'[o] = pending[o]
      /\ pending'[a] = pending[a] \/ pending'[a] = Append(pending[a], sent[a] + 1)
  BY <1>1 DEF TypeOK
<1>3. pending[a] \in Seq(1..MaxChunks) /\ Len(pending[a]) \in Nat
  BY Types
<1>4. Len(pending'[a]) = Len(pending[a]) \/ Len(pending'[a]) = Len(pending[a]) + 1
  BY <1>2, <1>3
<1>5. ToSend(a)' < ToSend(a)
  <2> DEFINE n == sent[a]
             l == Len(pending[a])
             ln == Len(pending'[a])
  <2>1. /\ ToSend(a) = 4 * (MaxChunks - n) + 3 * l
        /\ ToSend(a)' = 4 * (MaxChunks - (n + 1)) + 3 * ln
    BY <1>2 DEF ToSend
  <2>2. n \in Nat /\ l \in Nat /\ (ln = l \/ ln = l + 1)
    BY <1>3, <1>4, Types
  <2> HIDE DEF n, l, ln
  <2>3. 4 * (MaxChunks - (n + 1)) + 3 * ln < 4 * (MaxChunks - n) + 3 * l
    BY <2>2
  <2> QED BY <2>1, <2>3
<1>6. /\ ToClose(a)' = ToClose(a) /\ ToRead(a)' = ToRead(a)
      /\ ToLeave(a)' = ToLeave(a)
      /\ ToHear(a)' = ToHear(a) /\ ToHear(o)' = ToHear(o)
  BY <1>1, CloseFrame, ReadFrame, RoomFrame
<1>7. Own(a)' + ToHear(a)' + ToHear(o)' < Own(a) + ToHear(a) + ToHear(o)
  BY <1>5, <1>6, Weights, WeightsNext, OwnLess
<1>8. Own(o)' = Own(o) /\ ToLose' = ToLose
  BY <1>1, <1>2, OwnFrame, LoseFrame
<1> QED BY <1>7, <1>8, Lowered

LEMMA TransmitLowers ==
  ASSUME TypeOK, TypeOK', NEW a \in Ends, Transmit(a)
  PROVE  Left' < Left
<1> DEFINE o == Other(a)
<1> DEFINE m == Data(Head(pending[a]))
<1> o \in Ends /\ o # a
  BY OtherEnd
<1>1. /\ pending[a] # << >>
      /\ pending' = [pending EXCEPT ![a] = Tail(@)]
      /\ chan' = Post(chan, a, m)
      /\ UNCHANGED <<status, items, reader, inRoom, linkUp, closeCall, sent>>
  BY DEF Transmit, stateVars, readVars, roomVars
<1>2. /\ pending'[o] = pending[o]
      /\ pending'[a] = Tail(pending[a])
  BY <1>1 DEF TypeOK
<1>3. /\ Len(pending[a]) \in Nat
      /\ Len(pending'[a]) = Len(pending[a]) - 1
      /\ Head(pending[a]) \in 1..MaxChunks
  BY <1>1, <1>2, Types, ChunkTail
<1>4. ToSend(a)' = ToSend(a) - 3
  <2> DEFINE d == 4 * (MaxChunks - sent[a])
             l == Len(pending[a])
             ln == Len(pending'[a])
  <2>1. ToSend(a) = d + 3 * l /\ ToSend(a)' = d + 3 * ln
    BY <1>1 DEF ToSend
  <2>2. d \in Int /\ l \in Nat /\ ln = l - 1
    BY <1>3, Types
  <2> HIDE DEF d, l, ln
  <2> QED BY <2>1, <2>2
<1>5. ToHear(a)' = ToHear(a) /\ ToHear(o)' <= ToHear(o) + 2
  <2>1. m \in Message
    BY <1>3, DataMessages
  <2> HIDE DEF m
  <2>2. /\ chan'[a] = chan[a] /\ Len(chan[o]) \in Nat
        /\ Len(chan'[o]) = Len(chan[o]) \/ Len(chan'[o]) = Len(chan[o]) + 1
    BY <1>1, <2>1, Types, PostCosts
  <2> QED BY <2>2, HearsOne
<1>6. /\ ToClose(a)' = ToClose(a) /\ ToRead(a)' = ToRead(a)
      /\ ToLeave(a)' = ToLeave(a)
  BY <1>1, CloseFrame, ReadFrame DEF ToLeave
<1>7. Own(a)' + ToHear(a)' + ToHear(o)' < Own(a) + ToHear(a) + ToHear(o)
  BY <1>4, <1>5, <1>6, Weights, WeightsNext, OwnLess
<1>8. Own(o)' = Own(o) /\ ToLose' = ToLose
  BY <1>1, <1>2, OwnFrame, LoseFrame
<1> QED BY <1>7, <1>8, Lowered

LEMMA TransmitFailsLowers ==
  ASSUME TypeOK, TypeOK', NEW a \in Ends, TransmitFails(a)
  PROVE  Left' < Left
<1> DEFINE o == Other(a)
<1> o \in Ends /\ o # a
  BY OtherEnd
<1>1. /\ pending[a] # << >>
      /\ pending' = [pending EXCEPT ![a] = << >>]
      /\ UNCHANGED <<status, items, reader, inRoom, linkUp, closeCall, sent,
                     chan>>
  BY DEF TransmitFails, stateVars, readVars, roomVars
<1>2. pending'[o] = pending[o] /\ pending'[a] = << >>
  BY <1>1 DEF TypeOK
<1>3. Len(pending[a]) \in Nat /\ Len(pending[a]) > 0 /\ Len(pending'[a]) = 0
  BY <1>1, <1>2, Types, ChunkTail
<1>4. ToSend(a)' < ToSend(a)
  <2> DEFINE d == 4 * (MaxChunks - sent[a])
             l == Len(pending[a])
             ln == Len(pending'[a])
  <2>1. ToSend(a) = d + 3 * l /\ ToSend(a)' = d + 3 * ln
    BY <1>1 DEF ToSend
  <2>2. d \in Int /\ l \in Nat /\ l > 0 /\ ln = 0
    BY <1>3, Types
  <2> HIDE DEF d, l, ln
  <2> QED BY <2>1, <2>2
<1>6. /\ ToClose(a)' = ToClose(a) /\ ToRead(a)' = ToRead(a)
      /\ ToLeave(a)' = ToLeave(a)
      /\ ToHear(a)' = ToHear(a) /\ ToHear(o)' = ToHear(o)
  BY <1>1, CloseFrame, ReadFrame, RoomFrame
<1>7. Own(a)' + ToHear(a)' + ToHear(o)' < Own(a) + ToHear(a) + ToHear(o)
  BY <1>4, <1>6, Weights, WeightsNext, OwnLess
<1>8. Own(o)' = Own(o) /\ ToLose' = ToLose
  BY <1>1, <1>2, OwnFrame, LoseFrame
<1> QED BY <1>7, <1>8, Lowered

LEMMA CloseLowers ==
  ASSUME IInv, TypeOK', NEW a \in Ends, Close(a)
  PROVE  Left' < Left
<1> DEFINE o == Other(a)
<1> o \in Ends /\ o # a
  BY OtherEnd
<1>0. TypeOK /\ Local(a)
  BY Unfolded
<1>1. /\ writeStatus[a] = "writable"
      /\ closeCall' = [closeCall EXCEPT ![a] = "draining"]
      /\ UNCHANGED <<status, items, reader, inRoom, linkUp, pending, sent, chan>>
  BY DEF Close, readVars, roomVars
<1>2. /\ closeCall'[o] = closeCall[o] /\ closeCall'[a] = "draining"
      /\ closeCall[a] = "none"
  BY <1>0, <1>1 DEF TypeOK, Local, CloseInv
<1>3. ToClose(a)' = ToClose(a) - 1
  <2> DEFINE i == IF status[a] = "open" THEN 3 ELSE 0
  <2>1. ToClose(a) = 5 + i /\ ToClose(a)' = 4 + i
    BY <1>1, <1>2 DEF ToClose
  <2>2. i \in Nat
    OBVIOUS
  <2> HIDE DEF i
  <2> QED BY <2>1, <2>2
<1>6. /\ ToSend(a)' = ToSend(a) /\ ToRead(a)' = ToRead(a)
      /\ ToLeave(a)' = ToLeave(a)
      /\ ToHear(a)' = ToHear(a) /\ ToHear(o)' = ToHear(o)
  BY <1>1, SendFrame, ReadFrame, RoomFrame
<1>7. Own(a)' + ToHear(a)' + ToHear(o)' < Own(a) + ToHear(a) + ToHear(o)
  BY <1>0, <1>3, <1>6, Weights, WeightsNext, OwnLess
<1>8. Own(o)' = Own(o) /\ ToLose' = ToLose
  BY <1>1, <1>2, OwnFrame, LoseFrame
<1> QED BY <1>0, <1>7, <1>8, Lowered

LEMMA CloseThrowsLowers ==
  ASSUME TypeOK, TypeOK', NEW a \in Ends, CloseThrows(a)
  PROVE  Left' < Left
<1> DEFINE o == Other(a)
<1> o \in Ends /\ o # a
  BY OtherEnd
<1>1. /\ closeCall[a] = "draining"
      /\ closeCall' = [closeCall EXCEPT ![a] = "threw"]
      /\ UNCHANGED <<status, items, reader, inRoom, linkUp, pending, sent, chan>>
  BY DEF CloseThrows, stateVars, readVars, roomVars
<1>2. closeCall'[o] = closeCall[o] /\ closeCall'[a] = "threw"
  BY <1>1 DEF TypeOK
<1>3. ToClose(a)' = ToClose(a) - 4
  <2> DEFINE i == IF status[a] = "open" THEN 3 ELSE 0
  <2>1. ToClose(a) = 4 + i /\ ToClose(a)' = 0 + i
    BY <1>1, <1>2 DEF ToClose
  <2>2. i \in Nat
    OBVIOUS
  <2> HIDE DEF i
  <2> QED BY <2>1, <2>2
<1>6. /\ ToSend(a)' = ToSend(a) /\ ToRead(a)' = ToRead(a)
      /\ ToLeave(a)' = ToLeave(a)
      /\ ToHear(a)' = ToHear(a) /\ ToHear(o)' = ToHear(o)
  BY <1>1, SendFrame, ReadFrame, RoomFrame
<1>7. Own(a)' + ToHear(a)' + ToHear(o)' < Own(a) + ToHear(a) + ToHear(o)
  BY <1>3, <1>6, Weights, WeightsNext, OwnLess
<1>8. Own(o)' = Own(o) /\ ToLose' = ToLose
  BY <1>1, <1>2, OwnFrame, LoseFrame
<1> QED BY <1>7, <1>8, Lowered

LEMMA CloseSendsEofLowers ==
  ASSUME TypeOK, TypeOK', NEW a \in Ends, CloseSendsEof(a)
  PROVE  Left' < Left
<1> DEFINE o == Other(a)
<1> DEFINE m == Control("eof")
<1> o \in Ends /\ o # a
  BY OtherEnd
<1>1. /\ closeCall[a] = "draining"
      /\ closeCall' = [closeCall EXCEPT ![a] = "eofSent"]
      /\ chan' = Post(chan, a, m)
      /\ UNCHANGED <<status, items, reader, inRoom, linkUp, pending, sent>>
  BY DEF CloseSendsEof, stateVars, readVars, roomVars
<1>2. closeCall'[o] = closeCall[o] /\ closeCall'[a] = "eofSent"
  BY <1>1 DEF TypeOK
<1>3. ToClose(a)' = ToClose(a) - 3
  <2> DEFINE i == IF status[a] = "open" THEN 3 ELSE 0
  <2>1. ToClose(a) = 4 + i /\ ToClose(a)' = 1 + i
    BY <1>1, <1>2 DEF ToClose
  <2>2. i \in Nat
    OBVIOUS
  <2> HIDE DEF i
  <2> QED BY <2>1, <2>2
<1>5. ToHear(a)' = ToHear(a) /\ ToHear(o)' <= ToHear(o) + 2
  <2>1. m \in Message
    BY ControlMessages
  <2> HIDE DEF m
  <2>2. /\ chan'[a] = chan[a] /\ Len(chan[o]) \in Nat
        /\ Len(chan'[o]) = Len(chan[o]) \/ Len(chan'[o]) = Len(chan[o]) + 1
    BY <1>1, <2>1, Types, PostCosts
  <2> QED BY <2>2, HearsOne DEF ToHear
<1>6. /\ ToSend(a)' = ToSend(a) /\ ToRead(a)' = ToRead(a)
      /\ ToLeave(a)' = ToLeave(a)
  BY <1>1, SendFrame, ReadFrame DEF ToLeave
<1>7. Own(a)' + ToHear(a)' + ToHear(o)' < Own(a) + ToHear(a) + ToHear(o)
  BY <1>3, <1>5, <1>6, Weights, WeightsNext, OwnLess
<1>8. Own(o)' = Own(o) /\ ToLose' = ToLose
  BY <1>1, <1>2, OwnFrame, LoseFrame
<1> QED BY <1>7, <1>8, Lowered

LEMMA ReaderNextLowers ==
  ASSUME TypeOK, TypeOK', NEW a \in Ends, ReaderNext(a)
  PROVE  Left' < Left
<1> DEFINE o == Other(a)
<1> o \in Ends /\ o # a
  BY OtherEnd
<1>1. /\ reader[a] = "idle"
      /\ UNCHANGED <<status, inRoom, linkUp, closeCall, pending, sent, chan>>
  BY DEF ReaderNext, stateVars, writeVars, roomVars
<1>2. Len(items[a]) \in Nat
  BY Types
<1>3. /\ ToRead(a)' = ToRead(a) - 1
      /\ items'[o] = items[o] /\ reader'[o] = reader[o]
  <2> DEFINE l == Len(items[a])
  <2>1. CASE HasItem(a)
    <3>1. /\ items' = [items EXCEPT ![a] = Tail(@)]
          /\ reader' = reader
      BY <2>1 DEF ReaderNext
    <3>2. items'[a] = Tail(items[a]) /\ items'[o] = items[o]
      BY <3>1 DEF TypeOK
    <3>3. Len(items'[a]) = l - 1
      BY <2>1, <3>2, Types, ChunkTail DEF HasItem
    <3>4. ToRead(a) = l + 1 /\ ToRead(a)' = (l - 1) + 1
      BY <1>1, <3>1, <3>3 DEF ToRead
    <3> HIDE DEF l
    <3> QED BY <1>2, <3>1, <3>2, <3>4 DEF l
  <2>2. CASE ~HasItem(a)
    <3>1. /\ items' = items
          /\ reader' = [reader EXCEPT ![a] = IF readClosed[a] THEN "ended"
                                             ELSE "waiting"]
      BY <2>2 DEF ReaderNext
    <3>2. reader'[a] # "idle" /\ reader'[o] = reader[o]
      BY <3>1 DEF TypeOK
    <3>4. ToRead(a) = l + 1 /\ ToRead(a)' = l + 0
      BY <1>1, <3>1, <3>2 DEF ToRead
    <3> HIDE DEF l
    <3> QED BY <1>2, <3>1, <3>2, <3>4 DEF l
  <2> QED BY <2>1, <2>2
<1>6. /\ ToSend(a)' = ToSend(a) /\ ToClose(a)' = ToClose(a)
      /\ ToLeave(a)' = ToLeave(a)
      /\ ToHear(a)' = ToHear(a) /\ ToHear(o)' = ToHear(o)
  BY <1>1, SendFrame, CloseFrame, RoomFrame
<1>7. Own(a)' + ToHear(a)' + ToHear(o)' < Own(a) + ToHear(a) + ToHear(o)
  BY <1>3, <1>6, Weights, WeightsNext, OwnLess
<1>8. Own(o)' = Own(o) /\ ToLose' = ToLose
  BY <1>1, <1>3, OwnFrame, LoseFrame
<1> QED BY <1>7, <1>8, Lowered

LEMMA TakenCosts ==
  ASSUME TypeOK, NEW a \in Ends, chan[a] # << >>
  PROVE  /\ Taken(a) \in Chan
         /\ 2 * Len(Taken(a)[a]) = ToHear(a) - 2
         /\ 2 * Len(Taken(a)[Other(a)]) = ToHear(Other(a))
<1>1. chan \in Chan /\ chan[a] \in Seq(Message)
  BY Types
<1>2. /\ Taken(a) \in Chan
      /\ Taken(a)[a] = Tail(chan[a])
      /\ Taken(a)[Other(a)] = chan[Other(a)]
  BY <1>1, TakenIs
<1>3. Len(chan[a]) \in Nat /\ Len(Tail(chan[a])) = Len(chan[a]) - 1
  BY <1>1, Tailed
<1>4. 2 * Len(Tail(chan[a])) = 2 * Len(chan[a]) - 2
  <2> DEFINE x == Len(chan[a])
             y == Len(Tail(chan[a]))
  <2>1. x \in Nat /\ y = x - 1
    BY <1>3
  <2> HIDE DEF x, y
  <2>2. 2 * y = 2 * x - 2
    BY <2>1
  <2> QED BY <2>2 DEF x, y
<1> QED BY <1>2, <1>4 DEF ToHear

(* The reader of end a is idle after its stream ends if it was before. *)
LEMMA ReadCosts ==
  ASSUME TypeOK, NEW a \in Ends, EndRead(a) \/ Fail(a), items' = items
  PROVE  /\ ToRead(a)' = ToRead(a)
         /\ reader'[Other(a)] = reader[Other(a)]
<1> Other(a) # a /\ Other(a) \in Ends
  BY OtherEnd
<1>1. CASE reader' = reader
  BY <1>1, ReadFrame
<1>2. ASSUME NEW outcome \in {"ended", "failed"}, Wake(a, outcome)
      PROVE  /\ ToRead(a)' = ToRead(a)
             /\ reader'[Other(a)] = reader[Other(a)]
  <2>1. reader'[a] = IF reader[a] = "waiting" THEN outcome ELSE reader[a]
    BY <1>2 DEF Wake, TypeOK
  <2>2. reader'[a] = "idle" <=> reader[a] = "idle"
    BY <2>1
  <2>3. reader'[Other(a)] = reader[Other(a)]
    BY <1>2 DEF Wake, TypeOK
  <2> QED BY <2>2, <2>3 DEF ToRead
<1> QED BY <1>1, <1>2 DEF EndRead, Fail

LEMMA StatusCosts ==
  ASSUME TypeOK, NEW a \in Ends, closeCall' = closeCall,
         status' = status \/ status' = [status EXCEPT ![a] = "closed"]
  PROVE  /\ ToClose(a)' <= ToClose(a)
         /\ status[a] = "open" /\ status'[a] = "closed" =>
              ToClose(a)' = ToClose(a) - 3
         /\ status'[Other(a)] = status[Other(a)]
<1> Other(a) # a /\ Other(a) \in Ends
  BY OtherEnd
<1>1. status'[Other(a)] = status[Other(a)]
  BY DEF TypeOK
<1>2. status'[a] = status[a] \/ status'[a] = "closed"
  BY DEF TypeOK
<1> DEFINE i == IF status[a] = "open" THEN 3 ELSE 0
           j == IF status'[a] = "open" THEN 3 ELSE 0
           k == CASE closeCall[a] = "none" -> 5
                  [] closeCall[a] = "draining" -> 4
                  [] closeCall[a] = "eofSent" -> 1
                  [] OTHER -> 0
<1>3. k \in Nat /\ i \in Nat /\ j \in Nat /\ j <= i
  BY <1>2
<1>4. status[a] = "open" /\ status'[a] = "closed" => i = 3 /\ j = 0
  OBVIOUS
<1>5. ToClose(a) = k + i /\ ToClose(a)' = k + j
  BY DEF ToClose
<1> HIDE DEF i, j, k
<1> QED BY <1>1, <1>3, <1>4, <1>5

(* A step of end a that may end its stream and leave the room. *)
LEMMA StopLowers ==
  ASSUME TypeOK, TypeOK', NEW a \in Ends, NEW o \in Ends, o = Other(a),
         NEW c \in Chan,
         Finalize(a, c) \/ (chan' = c /\ inRoom' = inRoom),
         UNCHANGED <<sent, pending, items, linkUp>>,
         ToRead(a)' = ToRead(a), reader'[o] = reader[o],
         closeCall'[o] = closeCall[o], status'[o] = status[o],
         ToClose(a)' <= ToClose(a),
         2 * Len(c[a]) + 2 * Len(c[o])
           < ToHear(a) + ToHear(o) + (ToClose(a) - ToClose(a)')
  PROVE  Left' < Left
<1>1. /\ Len(c[a]) \in Nat /\ Len(c[o]) \in Nat
      /\ ToLeave(a)' + ToHear(a)' + ToHear(o)'
           <= ToLeave(a) + 2 * Len(c[a]) + 2 * Len(c[o])
  BY FinalizeCosts
<1>2. inRoom'[o] = inRoom[o]
  <2>1. o # a
    BY OtherEnd
  <2>2. \/ inRoom' = inRoom
        \/ inRoom' = [inRoom EXCEPT ![a] = FALSE]
    BY DEF Finalize, LeaveRoom
  <2> QED BY <2>1, <2>2 DEF TypeOK
<1>3. Own(o)' = Own(o) /\ ToLose' = ToLose
  BY <1>2, OwnFrame, LoseFrame
<1>4. ToSend(a)' = ToSend(a)
  BY SendFrame
<1>5. ToLeave(a)' + ToHear(a)' + ToHear(o)'
        < ToLeave(a) + ToHear(a) + ToHear(o) + (ToClose(a) - ToClose(a)')
  <2> DEFINE x == 2 * Len(c[a])
             y == 2 * Len(c[o])
             l == ToLeave(a)
             ln == ToLeave(a)'
             h == ToHear(a)
             hn == ToHear(a)'
             g == ToHear(o)
             gn == ToHear(o)'
             d == ToClose(a) - ToClose(a)'
  <2>1. /\ l \in Nat /\ ln \in Nat /\ h \in Nat /\ hn \in Nat
        /\ g \in Nat /\ gn \in Nat
    BY Weights, WeightsNext
  <2>4. d \in Int
    <3>1. ToClose(a) \in Nat /\ ToClose(a)' \in Nat
      BY Weights, WeightsNext
    <3> QED BY <3>1
  <2>5. x \in Nat /\ y \in Nat
    BY <1>1
  <2>2. ln + hn + gn <= l + x + y /\ x + y < h + g + d
    BY <1>1
  <2>3. ln + hn + gn < l + h + g + d
    <3> HIDE DEF x, y, l, ln, h, hn, g, gn, d
    <3> QED BY <2>1, <2>2, <2>4, <2>5
  <2> QED BY <2>3
<1>6. Own(a)' + ToHear(a)' + ToHear(o)' < Own(a) + ToHear(a) + ToHear(o)
  <2> DEFINE d == ToClose(a) - ToClose(a)'
             s == ToSend(a) - ToSend(a)'
             r == ToRead(a) - ToRead(a)'
             h == ToLeave(a) + ToHear(a) + ToHear(o)
  <2>1. ToSend(a) \in Nat /\ ToRead(a) \in Nat
    BY Weights
  <2>2. s = 0 /\ r = 0 /\ ToSend(a)' <= ToSend(a) /\ ToRead(a)' <= ToRead(a)
    BY <1>4, <2>1
  <2>3. h \in Nat /\ d \in Int
    <3>1. /\ ToClose(a) \in Nat /\ ToClose(a)' \in Nat
          /\ ToLeave(a) \in Nat /\ ToHear(a) \in Nat /\ ToHear(o) \in Nat
      BY Weights, WeightsNext
    <3> QED BY <3>1
  <2>4. h + d = h + s + d + r
    <3> HIDE DEF h, s, d, r
    <3> QED BY <2>2, <2>3
  <2>5. ToLeave(a)' + ToHear(a)' + ToHear(o)' < h + s + d + r
    BY <1>5, <2>4
  <2> QED BY <2>2, <2>5, OwnLess
<1> QED BY <1>3, <1>6, Lowered

LEMMA CloseReturnsLowers ==
  ASSUME TypeOK, TypeOK', NEW a \in Ends, CloseReturns(a)
  PROVE  Left' < Left
<1> DEFINE o == Other(a)
<1> o \in Ends /\ o # a
  BY OtherEnd
<1>1. /\ closeCall[a] = "eofSent"
      /\ closeCall' = [closeCall EXCEPT ![a] = "returned"]
      /\ MaybeFinalize(a, readClosed[a], "closed", chan)
      /\ UNCHANGED <<items, reader, pending, sent, linkUp>>
  BY DEF CloseReturns, readVars
<1>2. /\ Finalize(a, chan) \/ (chan' = chan /\ inRoom' = inRoom)
      /\ status' = status \/ status' = [status EXCEPT ![a] = "closed"]
  BY <1>1 DEF MaybeFinalize
<1>3. /\ closeCall'[a] = "returned" /\ closeCall'[o] = closeCall[o]
      /\ status'[o] = status[o]
      /\ status'[a] = status[a] \/ status'[a] = "closed"
  BY <1>1, <1>2 DEF TypeOK
<1>4. ToClose(a)' < ToClose(a)
  <2> DEFINE i == IF status[a] = "open" THEN 3 ELSE 0
             j == IF status'[a] = "open" THEN 3 ELSE 0
  <2>1. ToClose(a) = 1 + i /\ ToClose(a)' = 0 + j
    BY <1>1, <1>3 DEF ToClose
  <2>2. i \in Nat /\ j \in Nat /\ j <= i
    BY <1>3
  <2> HIDE DEF i, j
  <2> QED BY <2>1, <2>2
<1>5. ToClose(a)' <= ToClose(a) /\ ToClose(a) - ToClose(a)' > 0
  BY <1>4, Weights, WeightsNext
<1>6. 2 * Len(chan[a]) + 2 * Len(chan[o])
        < ToHear(a) + ToHear(o) + (ToClose(a) - ToClose(a)')
  <2>1. 2 * Len(chan[a]) = ToHear(a) /\ 2 * Len(chan[o]) = ToHear(o)
    BY DEF ToHear
  <2>2. ToHear(a) \in Nat /\ ToHear(o) \in Nat
    BY Weights
  <2>3. ToClose(a) - ToClose(a)' \in Int
    <3>1. ToClose(a) \in Nat /\ ToClose(a)' \in Nat
      BY Weights, WeightsNext
    <3> QED BY <3>1
  <2> DEFINE h == ToHear(a)
             g == ToHear(o)
             d == ToClose(a) - ToClose(a)'
  <2>4. h + g < h + g + d
    <3>1. h \in Nat /\ g \in Nat /\ d \in Int /\ d > 0
      BY <1>5, <2>2, <2>3
    <3> HIDE DEF h, g, d
    <3> QED BY <3>1
  <2> QED BY <2>1, <2>4
<1>7. chan \in Chan /\ ToRead(a)' = ToRead(a) /\ reader'[o] = reader[o]
  BY <1>1, Types, ReadFrame
<1> QED BY <1>1, <1>2, <1>3, <1>5, <1>6, <1>7, StopLowers

LEMMA AbortLowers ==
  ASSUME TypeOK, TypeOK', NEW a \in Ends, Abort(a)
  PROVE  Left' < Left
<1> DEFINE o == Other(a)
<1> DEFINE m == Control("abort")
<1> DEFINE c == Post(chan, a, m)
<1> o \in Ends /\ o # a
  BY OtherEnd
<1>1. /\ status[a] # "closed"
      /\ status' = [status EXCEPT ![a] = "closed"]
      /\ Fail(a)
      /\ Finalize(a, c)
      /\ UNCHANGED <<sent, pending, closeCall, items, linkUp>>
  BY DEF Abort, writeVars
<1>2. m \in Message /\ chan \in Chan
  BY ControlMessages, Types
<1> HIDE DEF m
<1>3. /\ c \in Chan /\ c[a] = chan[a] /\ Len(chan[o]) \in Nat
      /\ Len(c[o]) = Len(chan[o]) \/ Len(c[o]) = Len(chan[o]) + 1
  BY <1>2, PostIs, PostCosts
<1> HIDE DEF c
<1>4. status[a] = "open" /\ status'[a] = "closed"
  BY <1>1 DEF TypeOK
<1>5. /\ ToClose(a)' = ToClose(a) - 3
      /\ ToClose(a)' <= ToClose(a)
      /\ status'[o] = status[o]
  BY <1>1, <1>4, StatusCosts
<1>6. 2 * Len(c[a]) + 2 * Len(c[o])
        < ToHear(a) + ToHear(o) + (ToClose(a) - ToClose(a)')
  <2> DEFINE x == Len(c[o])
             y == Len(chan[o])
  <2>1. 2 * Len(c[a]) = ToHear(a) /\ 2 * y = ToHear(o)
    BY <1>3 DEF ToHear
  <2>2. 2 * x <= 2 * y + 2 /\ x \in Nat /\ y \in Nat
    <3>1. y \in Nat /\ (x = y \/ x = y + 1)
      BY <1>3
    <3> HIDE DEF x, y
    <3> QED BY <3>1
  <2>3. ToHear(a) \in Nat /\ ToHear(o) \in Nat /\ ToClose(a) \in Nat
    BY Weights
  <2>4. ToClose(a) - ToClose(a)' = 3
    BY <1>5, <2>3
  <2> HIDE DEF x, y
  <2>5. ToHear(a) + 2 * x < ToHear(a) + ToHear(o) + 3
    BY <2>1, <2>2, <2>3
  <2> QED BY <2>1, <2>4, <2>5 DEF x
<1>7. ToRead(a)' = ToRead(a) /\ reader'[o] = reader[o]
  BY <1>1, ReadCosts
<1> QED BY <1>1, <1>3, <1>5, <1>6, <1>7, StopLowers

(* The messages that are heard, one lemma for those that end the stream.   *)
LEMMA HearingLowers ==
  ASSUME TypeOK, TypeOK', NEW a \in Ends, chan[a] # << >>,
         Finalize(a, Taken(a)) \/ (chan' = Taken(a) /\ inRoom' = inRoom),
         status' = status \/ status' = [status EXCEPT ![a] = "closed"],
         EndRead(a) \/ Fail(a) \/ reader' = reader,
         UNCHANGED <<sent, pending, closeCall, items, linkUp>>
  PROVE  Left' < Left
<1> DEFINE o == Other(a)
<1> DEFINE c == Taken(a)
<1> o \in Ends /\ o # a
  BY OtherEnd
<1>1. /\ c \in Chan
      /\ 2 * Len(c[a]) = ToHear(a) - 2
      /\ 2 * Len(c[o]) = ToHear(o)
  BY TakenCosts
<1> HIDE DEF c
<1>2. ToClose(a)' <= ToClose(a) /\ status'[o] = status[o]
  BY StatusCosts
<1>3. ToRead(a)' = ToRead(a) /\ reader'[o] = reader[o]
  BY ReadCosts, ReadFrame
<1>4. 2 * Len(c[a]) + 2 * Len(c[o])
        < ToHear(a) + ToHear(o) + (ToClose(a) - ToClose(a)')
  <2> DEFINE k == ToClose(a)
             kn == ToClose(a)'
             h == ToHear(a)
             g == ToHear(o)
  <2>1. k \in Nat /\ kn \in Nat /\ h \in Nat /\ g \in Nat /\ kn <= k
    BY <1>2, Weights, WeightsNext
  <2>2. (h - 2) + g < h + g + (k - kn)
    <3> HIDE DEF k, kn, h, g
    <3> QED BY <2>1
  <2> QED BY <1>1, <2>2
<1>5. Finalize(a, c) \/ (chan' = c /\ inRoom' = inRoom)
  BY DEF c
<1> QED BY <1>1, <1>2, <1>3, <1>4, <1>5, StopLowers

LEMMA HearsTheEndLowers ==
  ASSUME TypeOK, TypeOK', NEW a \in Ends,
         ReceiveEof(a) \/ ReceiveAbort(a) \/ ReceiveLeave(a)
  PROVE  Left' < Left
<1>1. CASE ReceiveEof(a)
  <2>1. chan[a] # << >> /\ EndRead(a)
        /\ UNCHANGED <<sent, pending, closeCall, items, linkUp>>
    BY <1>1 DEF ReceiveEof, Arriving, writeVars
  <2>2. /\ Finalize(a, Taken(a)) \/ (chan' = Taken(a) /\ inRoom' = inRoom)
        /\ status' = status \/ status' = [status EXCEPT ![a] = "closed"]
    BY <1>1 DEF ReceiveEof, MaybeFinalize
  <2> QED BY <2>1, <2>2, HearingLowers
<1>2. CASE ReceiveAbort(a)
  BY <1>2, HearingLowers DEF ReceiveAbort, Arriving, writeVars
<1>3. CASE ReceiveLeave(a)
  <2>1. chan[a] # << >> /\ UNCHANGED <<sent, pending, closeCall, items, linkUp>>
    BY <1>3 DEF ReceiveLeave, Arriving, writeVars
  <2>2. /\ Finalize(a, Taken(a)) \/ (chan' = Taken(a) /\ inRoom' = inRoom)
        /\ status' = status \/ status' = [status EXCEPT ![a] = "closed"]
        /\ EndRead(a) \/ reader' = reader
    BY <1>3 DEF ReceiveLeave, stateVars
  <2> QED BY <2>1, <2>2, HearingLowers
<1> QED BY <1>1, <1>2, <1>3

LEMMA ReceiveDataLowers ==
  ASSUME TypeOK, TypeOK', NEW a \in Ends, ReceiveData(a)
  PROVE  Left' < Left
<1> DEFINE o == Other(a)
<1> o \in Ends /\ o # a
  BY OtherEnd
<1>1. /\ chan[a] # << >>
      /\ chan' = Taken(a)
      /\ UNCHANGED <<status, inRoom, linkUp, closeCall, pending, sent>>
  BY DEF ReceiveData, Arriving, stateVars, writeVars, roomVars
<1>2. /\ ToRead(a)' <= ToRead(a) + 1
      /\ items'[o] = items[o] /\ reader'[o] = reader[o]
  <2>1. CASE UNCHANGED readVars
    <3>1. ToRead(a)' = ToRead(a) /\ ToRead(a) \in Nat
      BY <2>1, ReadFrame, Weights DEF readVars
    <3> QED BY <2>1, <3>1 DEF readVars
  <2>2. ASSUME NEW n, Buffer(a, n), ~UNCHANGED readVars
        PROVE  /\ ToRead(a)' <= ToRead(a) + 1
               /\ items'[o] = items[o] /\ reader'[o] = reader[o]
    <3> DEFINE l == Len(items[a])
    <3>0. l \in Nat
      BY Types
    <3>1. CASE reader[a] = "waiting"
      <4>1. reader'[a] = "idle" /\ reader'[o] = reader[o] /\ items' = items
        BY <2>2, <3>1 DEF Buffer, TypeOK
      <4>2. ToRead(a) = l + 0 /\ ToRead(a)' = l + 1
        BY <3>1, <4>1 DEF ToRead
      <4> HIDE DEF l
      <4> QED BY <3>0, <4>1, <4>2
    <3>2. CASE reader[a] # "waiting"
      <4>1. /\ items' = [items EXCEPT ![a] = Append(@, n)]
            /\ reader' = reader
        BY <2>2, <3>2 DEF Buffer
      <4>2. items'[a] = Append(items[a], n) /\ items'[o] = items[o]
        BY <4>1 DEF TypeOK
      <4>3. Len(items'[a]) = l + 1
        <5>1. items[a] \in Seq(1..MaxChunks)
          BY Types
        <5> QED BY <4>2, <5>1
      <4> DEFINE i == IF reader[a] = "idle" THEN 1 ELSE 0
      <4>4. ToRead(a) = l + i /\ ToRead(a)' = (l + 1) + i /\ i \in Nat
        BY <4>1, <4>3 DEF ToRead
      <4>5. (l + 1) + i <= (l + i) + 1
        <5> HIDE DEF l, i
        <5> QED BY <3>0, <4>4
      <4> QED BY <4>1, <4>2, <4>4, <4>5
    <3> QED BY <3>1, <3>2
  <2> QED BY <2>1, <2>2 DEF ReceiveData
<1>3. ToHear(a)' = ToHear(a) - 2 /\ ToHear(o)' = ToHear(o)
  BY <1>1, TakenCosts DEF ToHear
<1>4. ToSend(a)' = ToSend(a) /\ ToClose(a)' = ToClose(a)
      /\ ToLeave(a)' = ToLeave(a)
  BY <1>1, SendFrame, CloseFrame DEF ToLeave
<1>5. Own(a)' + ToHear(a)' + ToHear(o)' < Own(a) + ToHear(a) + ToHear(o)
  <2> DEFINE s == ToSend(a)
             k == ToClose(a)
             l == ToLeave(a)
             r == ToRead(a)
             rn == ToRead(a)'
             h == ToHear(a)
             g == ToHear(o)
  <2>1. /\ s \in Nat /\ k \in Nat /\ l \in Nat /\ r \in Nat /\ rn \in Nat
        /\ h \in Nat /\ g \in Nat
    BY Weights, WeightsNext
  <2>2. rn <= r + 1
    BY <1>2
  <2>3. (s + k + l + rn) + (h - 2) + g < (s + k + l + r) + h + g
    <3> HIDE DEF s, k, l, r, rn, h, g
    <3> QED BY <2>1, <2>2
  <2> QED BY <1>3, <1>4, <2>3 DEF Own
<1>6. Own(o)' = Own(o) /\ ToLose' = ToLose
  BY <1>1, <1>2, OwnFrame, LoseFrame
<1> QED BY <1>5, <1>6, Lowered

LEMMA HubCloseLowers ==
  ASSUME TypeOK, TypeOK', NEW a \in Ends, HubClose(a)
  PROVE  Left' < Left
<1> DEFINE o == Other(a)
<1> o \in Ends /\ o # a
  BY OtherEnd
<1>1. /\ inRoom[a]
      /\ LeaveRoom(a, chan)
      /\ status' = status \/ status' = [status EXCEPT ![a] = "closed"]
      /\ EndRead(a) \/ reader' = reader
      /\ UNCHANGED <<sent, pending, closeCall, items, linkUp>>
  BY DEF HubClose, writeVars, stateVars
<1>2. ToClose(a)' <= ToClose(a) /\ status'[o] = status[o]
  BY <1>1, StatusCosts
<1>3. ToRead(a)' = ToRead(a) /\ reader'[o] = reader[o]
  BY <1>1, ReadCosts, ReadFrame
<1>4. ToSend(a)' = ToSend(a)
  BY <1>1, SendFrame
<1>5. /\ ToLeave(a) = 3 /\ ToLeave(a)' = 0
      /\ ToHear(a)' = 0
      /\ ToHear(o)' <= ToHear(o) + 2
  BY <1>1, Types, LeaveCosts DEF ToHear
<1>6. Own(a)' + ToHear(a)' + ToHear(o)' < Own(a) + ToHear(a) + ToHear(o)
  <2> DEFINE s == ToSend(a)
             k == ToClose(a)
             kn == ToClose(a)'
             r == ToRead(a)
             h == ToHear(a)
             g == ToHear(o)
             gn == ToHear(o)'
  <2>1. /\ s \in Nat /\ k \in Nat /\ kn \in Nat /\ r \in Nat
        /\ h \in Nat /\ g \in Nat /\ gn \in Nat
    BY Weights, WeightsNext
  <2>2. kn <= k /\ gn <= g + 2
    BY <1>2, <1>5
  <2>3. (s + kn + 0 + r) + 0 + gn < (s + k + 3 + r) + h + g
    <3> HIDE DEF s, k, kn, r, h, g, gn
    <3> QED BY <2>1, <2>2
  <2> QED BY <1>3, <1>4, <1>5, <2>3 DEF Own
<1>7. inRoom'[o] = inRoom[o]
  BY <1>1 DEF LeaveRoom, TypeOK
<1>8. Own(o)' = Own(o) /\ ToLose' = ToLose
  BY <1>1, <1>2, <1>3, <1>7, OwnFrame, LoseFrame
<1> QED BY <1>6, <1>8, Lowered

LEMMA DisconnectLowers ==
  ASSUME TypeOK, TypeOK', Disconnect
  PROVE  Left' < Left
<1>1. /\ linkUp /\ linkUp' = FALSE
      /\ chan' = [e \in Ends |-> IF inRoom[e] THEN <<Control("leave")>>
                                 ELSE << >>]
      /\ UNCHANGED <<sent, pending, closeCall, status, inRoom, items, reader>>
  BY DEF Disconnect, stateVars, writeVars, readVars
<1>2. ASSUME NEW e \in Ends
      PROVE  Own(e)' = Own(e) /\ ToHear(e)' <= 2
  <2>1. Own(e)' = Own(e)
    BY <1>1, OwnFrame
  <2> DEFINE m == Control("leave")
             l == Len(chan'[e])
  <2>2. chan'[e] = <<m>> \/ chan'[e] = << >>
    BY <1>1
  <2>3. l = 1 \/ l = 0
    <3>1. Len(<<m>>) = 1 /\ Len(<< >>) = 0
      OBVIOUS
    <3> HIDE DEF m
    <3> QED BY <2>2, <3>1
  <2>4. ToHear(e)' <= 2
    <3>1. ToHear(e)' = 2 * l
      BY DEF ToHear
    <3> HIDE DEF l
    <3> QED BY <2>3, <3>1
  <2> QED BY <2>1, <2>4
<1>3. "client" \in Ends /\ "listener" \in Ends
  BY DEF Ends
<1>4. ToLose = 5 /\ ToLose' = 0
  BY <1>1 DEF ToLose
<1> DEFINE x == Own("client")
           y == Own("listener")
           h == ToHear("client")
           hn == ToHear("client")'
           g == ToHear("listener")
           gn == ToHear("listener")'
<1>5. /\ x \in Nat /\ y \in Nat /\ h \in Nat /\ g \in Nat
      /\ hn \in Nat /\ gn \in Nat /\ hn <= 2 /\ gn <= 2
  BY <1>2, <1>3, Weights, WeightsNext
<1>6. Left = x + h + y + g + 5 /\ Left' = x + hn + y + gn + 0
  BY <1>2, <1>3, <1>4 DEF Left
<1> HIDE DEF x, y, h, hn, g, gn
<1> QED BY <1>5, <1>6

(* Every step of the two streams lowers Left. *)
LEMMA NextLowers ==
  ASSUME IInv, Next
  PROVE  Left' < Left
<1>0. TypeOK /\ TypeOK'
  BY TypeOKKept DEF IInv
<1> QED
  BY <1>0, SendLowers, CloseLowers, AbortLowers, HubCloseLowers,
     TransmitLowers, TransmitFailsLowers, CloseSendsEofLowers,
     CloseThrowsLowers, CloseReturnsLowers, ReceiveDataLowers,
     HearsTheEndLowers, ReaderNextLowers, DisconnectLowers
  DEF Next, User, Drain, CloseGoesOn, Receive

(* Left is a natural number, and every step lowers it. *)
EverythingEnds ==
  [][/\ Left \in Nat
     /\ Left' < Left]_vars

(* The two streams and their room run out of steps, whatever their users,  *)
(* the readers and the connection do: with NobodyWaitsInVain, what is left *)
(* of NobodyIsStuck is that the runtime runs.                              *)
THEOREM EverythingRunsOut == Spec => EverythingEnds
<1>1. ASSUME IInv, [Next]_vars
      PROVE  [/\ Left \in Nat
              /\ Left' < Left]_vars
  <2>1. CASE Next
    <3>1. Left' < Left
      BY <1>1, <2>1, NextLowers
    <3>2. Left \in Nat
      BY <1>1, LeftIsNat DEF IInv
    <3> QED BY <3>1, <3>2
  <2>2. CASE UNCHANGED vars
    BY <2>2
  <2> QED BY <1>1, <2>1, <2>2
<1>2. IInv /\ [Next]_vars => [/\ Left \in Nat
                              /\ Left' < Left]_vars
  BY <1>1
<1> QED BY <1>2, Invariance, PTL DEF Spec, EverythingEnds
=============================================================================
