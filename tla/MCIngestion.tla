---------------------------- MODULE MCIngestion ----------------------------
(***************************************************************************)
(* Instances of Ingestion for TLC.  Hours of two minutes; the history      *)
(* starts at minute 3 with lag 1 and lookback 1, so the lake is opened at  *)
(* minute 0 and the clock crosses an hour boundary behind it.              *)
(***************************************************************************)
EXTENDS Ingestion

\* Ranges that cut hours at either end, reach back to before the lake was
\* opened, and run into the minute that is still open.
MCRanges == { <<0, 3>>, <<2, 4>> }
=============================================================================
