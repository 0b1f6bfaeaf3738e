--------------------------- MODULE MCSessionQueue ---------------------------
(* SessionQueue with small sets, for TLC. *)
EXTENDS SessionQueue

CONSTANTS q1, q2, q3, p1, c1, b1, b2

(* The constraint of the run QueueLiveness: clients do not both compact and queue *)
(* the second request.  It holds back only clients, whose steps are not fair.       *)
OneIntruder ==
  (\E n \in RunIds : go[n].kind = "compact") => disk.receipts[q2] = "none"
=============================================================================
