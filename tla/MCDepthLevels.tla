---------------------------- MODULE MCDepthLevels ---------------------------
(* The market the runs of DepthLevels begin with.                          *)
EXTENDS DepthLevels

MCOpening == [bid |-> <<1, 0, 0, 0>>, ask |-> <<0, 0, 1, 1>>]
=============================================================================
