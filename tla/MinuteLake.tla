----------------------------- MODULE MinuteLake -----------------------------
(***************************************************************************)
(* What the ingestion of one symbol promises its readers, with neither     *)
(* files nor processes: a table of minutes that only ever gets better, and *)
(* a mark below which it is good for ever.                                 *)
(***************************************************************************)
EXTENDS Integers

CONSTANTS Minutes, None

VARIABLES
  grade,   \* minute -> how good its row is
  base,    \* the mark the table was opened with
  mark     \* the watermark

lakeVars == <<grade, base, mark>>

(* 0: no row, 1: the row of a candle that was still open, 2: settled.      *)
Grades == 0..2

LakeInit ==
  /\ grade = [m \in Minutes |-> 0]
  /\ base = None
  /\ mark = None

(* Rows are added or improved, none is lost or made worse.                 *)
Upsert ==
  /\ grade' \in [Minutes -> Grades]
  /\ \A m \in Minutes : grade'[m] >= grade[m]
  /\ UNCHANGED <<base, mark>>

Open ==
  /\ mark = None
  /\ base' \in Minutes
  /\ mark' = base'
  /\ UNCHANGED grade

(* The mark moves forward, and over settled minutes only.                  *)
MoveMark ==
  /\ mark # None
  /\ mark' \in Minutes
  /\ mark' > mark
  /\ \A m \in Minutes : mark < m /\ m <= mark' => grade[m] = 2
  /\ UNCHANGED <<grade, base>>

LakeNext == Upsert \/ Open \/ MoveMark

LakeSpec == LakeInit /\ [][LakeNext]_lakeVars
=============================================================================
