---------------------------- MODULE DuplexStream ----------------------------
(***************************************************************************)
(* What a two-way stream between two ends promises its users, whatever     *)
(* carries it.  This is the interface the whole program is written against *)
(* (send, close, abort, async iteration): src/session.js, src/forwarding.js*)
(* and src/pty.js use a libp2p stream and a TrysteroStream alike.          *)
(*                                                                         *)
(* A chunk is identified by its position in what one end has sent, so the  *)
(* first chunk is 1.  got[e] is what the reader of end e has been handed.  *)
(***************************************************************************)
EXTENDS Naturals, Sequences, StreamEnds

VARIABLES sent,         \* sent[e]: how many chunks end e has sent
          got,          \* got[e]: the chunks the reader of end e was handed
          sealed,       \* sealed[e]: end e sends nothing any more
          reader,       \* reader[e]: "open", "ended" (clean) or "failed"
          cut           \* an end gave up or the link went down

vars == <<sent, got, sealed, reader, cut>>

Init == /\ sent = [e \in Ends |-> 0]
        /\ got = [e \in Ends |-> << >>]
        /\ sealed = [e \in Ends |-> FALSE]
        /\ reader = [e \in Ends |-> "open"]
        /\ cut = FALSE

Send(e) == /\ ~sealed[e]
           /\ sent' = [sent EXCEPT ![e] = @ + 1]
           /\ UNCHANGED <<got, sealed, reader, cut>>

(* The reader of e gets the next chunk the other end sent: none is skipped,*)
(* repeated or reordered, and none comes after the end.                    *)
Deliver(e) == /\ reader[e] = "open"
              /\ Len(got[e]) < sent[Other(e)]
              /\ got' = [got EXCEPT ![e] = Append(@, Len(@) + 1)]
              /\ UNCHANGED <<sent, sealed, reader, cut>>

Seal(e) == /\ sealed' = [sealed EXCEPT ![e] = TRUE]
           /\ UNCHANGED <<sent, got, reader, cut>>

(* Unless the stream was cut, the clean end comes when the other end has   *)
(* sealed its side and everything it sent was delivered.                   *)
EndOfStream(e) == /\ reader[e] = "open"
                  /\ \/ cut
                     \/ sealed[Other(e)] /\ Len(got[e]) = sent[Other(e)]
                  /\ reader' = [reader EXCEPT ![e] = "ended"]
                  /\ UNCHANGED <<sent, got, cut>>
                  /\ \E s \in BOOLEAN : sealed' = [sealed EXCEPT ![e] = @ \/ s]

(* Only a cut stream fails its readers. *)
Cut == /\ cut' = TRUE
       /\ sealed' \in [Ends -> BOOLEAN]
       /\ \A e \in Ends : sealed[e] => sealed'[e]
       /\ reader' \in [Ends -> {"open", "ended", "failed"}]
       /\ \A e \in Ends : reader[e] # "open" => reader'[e] = reader[e]
       /\ UNCHANGED <<sent, got>>

Next == \/ Cut
        \/ \E e \in Ends : Send(e) \/ Deliver(e) \/ Seal(e) \/ EndOfStream(e)

Spec == Init /\ [][Next]_vars
=============================================================================
