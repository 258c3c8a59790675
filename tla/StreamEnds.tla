----------------------------- MODULE StreamEnds -----------------------------
(* The two ends of one stream: the peer that dialled and the peer that     *)
(* listens.  Their programs differ (src/cli.js runClient and runListener), *)
(* the stream between them is the same class at both ends.                 *)

Ends == {"client", "listener"}

Other(e) == IF e = "client" THEN "listener" ELSE "client"
=============================================================================
