-------------------------- MODULE MCMinuteFeatures --------------------------
(* The payloads of the runs of MinuteFeatures: one at once, one late and   *)
(* one late from the engine on, in no order of their numbers; the same     *)
(* without T, and one without U.  Orders of both sides, with and without   *)
(* ap and l, filled too little and more than ordered, and two that are     *)
(* dropped.                                                                *)
EXTENDS MinuteFeatures

Depth(E, T, A, U, u) == [E |-> E, T |-> T, A |-> A, U |-> U, u |-> u]

MCDepthPayloads ==
  { Depth(3, 3, 3, 4, 6), Depth(1, 1, 4, 7, 7), Depth(2, 0, 3, 1, 3),
    Depth(3, Missing, 5, 8, 9), Depth(1, 1, 1, Missing, 2) }

Order(S, ap, p, q, l) == [S |-> S, ap |-> ap, p |-> p, q |-> q, l |-> l]

MCLiqPayloads ==
  { Order("SELL", 2, 3, 2, 1), Order("SELL", Missing, 3, 1, 2),
    Order("BUY", 2, 2, 3, 3), Order("BUY", 1, 1, 1, Missing),
    Order("BUY", 1, 1, 0, 0), Order("NONE", 1, 1, 1, 1) }
=============================================================================
