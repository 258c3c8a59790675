-------------------------- MODULE TrysteroStreamInv --------------------------
(***************************************************************************)
(* The inductive invariant behind the safety properties of TrysteroStream. *)
(* It follows one direction of the stream from send() to the reader:       *)
(* pending[Other(e)], then chan[e], then items[e], then got[e].            *)
(***************************************************************************)
EXTENDS Integers, TrysteroStream

(* Of a channel: it holds chunks only; the chunks before its first control *)
(* message are numbered from base + 1 on and are at most max; an           *)
(* end-of-file is its first control message; no chunk is behind one.       *)
AllData(q) == \A i \in 1..Len(q) : q[i].kind = "data"

Numbered(q, base, max) ==
  \A i \in 1..Len(q) : (\A j \in 1..i : q[j].kind = "data") =>
    q[i].n = base + i /\ base + i <= max

EofAt(q, k) == /\ k \in 1..Len(q)
               /\ q[k].kind = "eof"
               /\ \A j \in 1..(k - 1) : q[j].kind = "data"

EofLast(q) == \A i, j \in 1..Len(q) :
                i < j /\ q[i].kind = "eof" => q[j].kind # "data"

Has(q, k) == \E i \in 1..Len(q) : q[i].kind = k
-----------------------------------------------------------------------------
(* How many of the other end's chunks end e has received. *)
Arrived(e) == Len(got[e]) + Len(items[e])

(* How many chunks were put on the wire to e while nothing ended it. *)
Posted(e) == Arrived(e) + Len(chan[e])

EofSent(e) == closeCall[e] \in {"eofSent", "returned"}

ReaderInv(e) ==
  /\ reader[e] = "waiting" => items[e] = << >> /\ ~readClosed[e]
  /\ reader[e] \in {"ended", "failed"} => items[e] = << >> /\ readClosed[e]

ClosedInv(e) ==
  /\ finalized[e] <=> status[e] = "closed"
  /\ status[e] = "closed" => readClosed[e] /\ writeStatus[e] = "closed"
  /\ ~inRoom[e] => status[e] = "closed"

CloseInv(e) ==
  /\ closeCall[e] # "none" => writeStatus[e] # "writable"
  /\ closeCall[e] \in {"eofSent", "returned", "threw"} => pending[e] = << >>
  /\ writeStatus[e] = "closed" /\ status[e] = "open" =>
       closeCall[e] = "returned"

EofInv(e) == /\ EofLast(chan[e])
             /\ Has(chan[e], "eof") => EofSent(Other(e))

LeaveInv(e) == Has(chan[e], "leave") => ~linkUp \/ ~inRoom[Other(e)]

OrderInv(e) ==
  /\ \A i \in 1..Len(got[e]) : got[e][i] = i
  /\ \A i \in 1..Len(items[e]) : items[e][i] = Len(got[e]) + i
  /\ Arrived(e) <= sent[Other(e)]
  /\ ~readClosed[e] => Numbered(chan[e], Arrived(e), sent[Other(e)])

(* As long as nothing ends the direction, no chunk of it is missing. *)
PipeInv(e) ==
  ~readClosed[e] /\ AllData(chan[e]) =>
    /\ Reachable(Other(e))
    /\ ~sendFailed[Other(e)]
    /\ sent[Other(e)] = Posted(e) + Len(pending[Other(e)])
    /\ \A i \in 1..Len(pending[Other(e)]) :
         pending[Other(e)][i] = Posted(e) + i

(* In a stream nobody cut, only an end-of-file ends a direction. *)
UncutInv(e) ==
  cut = {} =>
    /\ ~Has(chan[e], "abort")
    /\ readClosed[e] => Arrived(e) = sent[Other(e)] /\ EofSent(Other(e))
    /\ status[Other(e)] = "closed" /\ inRoom[e] => EofSent(Other(e))
    /\ ~readClosed[e] /\ AllData(chan[e]) =>
         closeCall[Other(e)] \in {"none", "draining"}
    /\ ~readClosed[e] /\ ~AllData(chan[e]) =>
         /\ EofSent(Other(e))
         /\ EofAt(chan[e], sent[Other(e)] - Arrived(e) + 1)

EndInv(e) == /\ ReaderInv(e) /\ ClosedInv(e) /\ CloseInv(e) /\ EofInv(e)
             /\ LeaveInv(e) /\ OrderInv(e) /\ PipeInv(e) /\ UncutInv(e)

(* The inductive invariant: every end's direction of the stream is intact  *)
(* up to the control message that ends it, and in a stream nobody cut that *)
(* is an end-of-file with nothing left behind in #pending.                 *)
IInv == /\ TypeOK
        /\ ~linkUp => "link" \in cut
        /\ \A e \in Ends : EndInv(e)
=============================================================================
