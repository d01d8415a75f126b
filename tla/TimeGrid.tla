------------------------------ MODULE TimeGrid ------------------------------
(***************************************************************************)
(* The minute grid of core/time_utils.py.  A minute is a natural number,   *)
(* an hour is named by its first minute (hour_start in the code), and the  *)
(* code's 60 minutes to the hour are the constant HourLen.                 *)
(***************************************************************************)
EXTENDS Integers

CONSTANT HourLen   \* minutes in one partition; 60 in the code

ASSUME HourLenAssumption == HourLen \in Nat \ {0}

(* floor_to_hour.                                                          *)
HourStart(m) == m - (m % HourLen)

(* iter_hours(start, end): the hours that overlap start..end.  The code's  *)
(* loop yields them in ascending order; its callers take the least one     *)
(* left, which NextHour states.                                            *)
IterHours(start, end) == { HourStart(m) : m \in start..end }

NextHour(h, hours) == h \in hours /\ \A g \in hours : h <= g

(* The minutes max(start, hour) .. min(end, hour + 59) that a run over     *)
(* start..end handles when it comes to the hour h.                         *)
Window(start, end, h) == { m \in start..end : HourStart(m) = h }

(* Mutant: the end of the hour, whether the run reaches it or not.         *)
WindowEndOfHour(end, h) == h + HourLen - 1

(* window_end, the last minute of that window.                             *)
WindowEnd(end, h) == IF end <= h + HourLen - 1 THEN end ELSE h + HourLen - 1

(* Mutants: the lag forgotten; the lag added.                              *)
HorizonWithoutLag(now, safetyLag) == now
HorizonAhead(now, safetyLag) == now + safetyLag

(* run_once: the newest minute a poll at now may commit.                   *)
TargetHorizon(now, safetyLag) == now - safetyLag
=============================================================================
