----------------------------- MODULE TradeFetch -----------------------------
(***************************************************************************)
(* The aggregate trades of one window (_collect_and_transform): from the   *)
(* Vision file of a cold window, else from the live collector if it has    *)
(* any of them, else page by page from REST where the band allows it, each *)
(* page being a call of RestClient.  A trade is its place on the tape of   *)
(* the exchange; what matters of it is its millisecond.                    *)
(***************************************************************************)
EXTENDS RestClient, FiniteSets

CONSTANTS
  Trades,    \* trades on the tape
  Horizon,   \* bound: the last millisecond of a tape
  Start,     \* window_start
  End,       \* window_end_inclusive: the first millisecond after the window
  Limit,     \* trades in a page, 1000 in the code
  MaxPages   \* the 10_000 turns of the loop

Ids    == 1..Trades
Stamps == 0..Horizon
Bands  == {"HOT", "WARM", "COLD"}

ASSUME TapeAssumption == Trades \in Nat \ {0} /\ Horizon \in Nat
ASSUME WindowAssumption == Start \in Stamps /\ End \in Stamps /\ Start < End
ASSUME PagesAssumption == Limit \in Nat \ {0} /\ MaxPages \in Nat \ {0}

VARIABLES
  tape,    \* trade -> its millisecond, never decreasing
  stage,   \* where the fetch is
  source,  \* where the rows come from
  cursor,  \* the startTime of the next page
  pages,   \* pages asked for
  rows     \* trade -> how often it is in all_rows

fetchVars == <<tape, stage, source, cursor, pages, rows>>
vars == <<restVars, fetchVars>>

Tapes == { t \in [Ids -> Stamps] : \A i, j \in Ids : i <= j => t[i] <= t[j] }

(* The trades a request for from..to may return, and those of the window,  *)
(* whose last millisecond is End - 1.                                      *)
Between(from, to) == { i \in Ids : from <= tape[i] /\ tape[i] <= to }

WindowTrades == Between(Start, End - 1)

NoRows == [i \in Ids |-> 0]

Once(ids) == [i \in Ids |-> IF i \in ids THEN 1 ELSE 0]

TypeOK ==
  /\ RestTypeOK
  /\ tape \in Tapes
  /\ stage \in {"choose", "ask", "page", "done", "failed"}
  /\ source \in {"none", "vision", "live", "rest"}
  /\ cursor \in 0..(Horizon + 1)
  /\ pages \in 0..MaxPages
  /\ rows \in [Ids -> Nat]

Init ==
  /\ RestInit
  /\ tape \in Tapes
  /\ stage = "choose" /\ source = "none"
  /\ cursor = Start /\ pages = 0 /\ rows = NoRows

-----------------------------------------------------------------------------
Settle(from, ids) ==
  /\ source' = from /\ rows' = Once(ids) /\ stage' = "done"
  /\ UNCHANGED <<restVars, tape, cursor, pages>>

StartPaging ==
  /\ source' = "rest" /\ stage' = "ask"
  /\ UNCHANGED <<restVars, tape, cursor, pages, rows>>

(* A cold window reads its Vision files, which the loader cuts to the      *)
(* window with both ends; if they have nothing and it may fall back, or in *)
(* another band, the live collector is asked; if it has nothing either,    *)
(* REST, but not in the warm band (_fetch_agg_trades_live_or_rest).        *)
ChooseSource ==
  /\ stage = "choose"
  /\ \E band \in Bands, fallback, onVision \in BOOLEAN,
       recorded \in SUBSET WindowTrades :
       LET archive == IF band = "COLD" /\ onVision THEN Between(Start, End)
                      ELSE {}
           asked   == band # "COLD" \/ fallback
           live    == IF asked THEN recorded ELSE {}
       IN \/ archive # {} /\ Settle("vision", archive)
          \/ archive = {} /\ live # {} /\ Settle("live", live)
          \/ /\ archive = {} /\ live = {}
             /\ IF asked /\ band # "WARM" THEN StartPaging
                ELSE Settle("none", {})

(* Mutant: the loop without its bound.                                     *)
AskForEver ==
  /\ stage = "ask"
  /\ Call
  /\ stage' = "page" /\ pages' = pages + 1
  /\ UNCHANGED <<tape, source, cursor, rows>>

(* The body of the loop calls fetch_agg_trades, as long as range(10_000)   *)
(* lasts.                                                                  *)
AskPage ==
  /\ stage = "ask"
  /\ \/ /\ pages < MaxPages
        /\ Call
        /\ stage' = "page" /\ pages' = pages + 1
     \/ /\ pages = MaxPages
        /\ stage' = "done" /\ UNCHANGED <<restVars, pages>>
  /\ UNCHANGED <<tape, source, cursor, rows>>

(* What the exchange returns: the first Limit trades of cursor..End.       *)
Page ==
  { i \in Between(cursor, End) :
      Cardinality({ j \in Between(cursor, End) : j < i }) < Limit }

Newest(ids) == CHOOSE i \in ids : \A j \in ids : j <= i

(* Mutants: the cursor on the last trade, and two milliseconds after it.   *)
CursorOnLast(ids) == tape[Newest(ids)]
CursorTooFar(ids) == tape[Newest(ids)] + 2

NextCursor(ids) == tape[Newest(ids)] + 1

(* The loop ends with this page.                                           *)
LastPage(ids) ==
  \/ NextCursor(ids) >= End
  \/ NextCursor(ids) <= cursor
  \/ Cardinality(ids) < Limit

PageArrives ==
  /\ stage = "page" /\ pc = "returned"
  /\ \/ Page = {} /\ stage' = "done" /\ UNCHANGED <<cursor, rows>>
     \/ /\ Page # {}
        /\ rows' = [i \in Ids |-> IF i \in Page THEN rows[i] + 1 ELSE rows[i]]
        /\ IF LastPage(Page)
           THEN stage' = "done" /\ UNCHANGED cursor
           ELSE stage' = "ask" /\ cursor' = NextCursor(Page)
  /\ UNCHANGED <<restVars, tape, source, pages>>

(* The exception leaves the collection: the rows so far are dropped.       *)
PageFails ==
  /\ stage = "page" /\ pc = "raised"
  /\ stage' = "failed" /\ rows' = NoRows
  /\ UNCHANGED <<restVars, tape, source, cursor, pages>>

(* The next window is collected with the same client.  It has the same     *)
(* tape: the first one was any, and nothing of it is remembered.           *)
NextWindow ==
  /\ stage \in {"done", "failed"}
  /\ stage' = "choose" /\ source' = "none"
  /\ cursor' = Start /\ pages' = 0 /\ rows' = NoRows
  /\ UNCHANGED <<restVars, tape>>

Next ==
  \/ ChooseSource \/ AskPage \/ PageArrives \/ PageFails \/ NextWindow
  \/ RestStep /\ UNCHANGED fetchVars

Spec == Init /\ [][Next]_vars

(* The thread that collects is not descheduled for good, and every request *)
(* is answered or times out.                                               *)
Fairness ==
  /\ RestFairness
  /\ WF_vars(AskPage) /\ WF_vars(PageArrives) /\ WF_vars(PageFails)

FairSpec == Spec /\ Fairness

-----------------------------------------------------------------------------
Missing == { i \in WindowTrades : rows[i] = 0 }

(* No trade is counted twice in the sums of its minute: pages do not       *)
(* overlap and sources are not mixed (_fetch_agg_trades_paginated,         *)
(* _fetch_agg_trades_live_or_rest; _agg_trade_frame does not deduplicate). *)
NoTradeTwice == \A i \in Ids : rows[i] <= 1

(* Pages lose a trade of the window only if it shares its millisecond with *)
(* the last trade of a page (next_cursor, one millisecond after it), or if *)
(* the turns of the loop are used up before it.                            *)
PagesLoseOnlyTies ==
  stage = "done" /\ source = "rest" =>
    \A i \in Missing :
      \/ \E j \in Ids : j < i /\ rows[j] > 0 /\ tape[j] = tape[i]
      \/ pages = MaxPages /\ cursor <= tape[i]

(* A fetch ends, whatever the exchange answers.                            *)
FetchEnds == stage \in {"ask", "page"} ~> stage \in {"done", "failed"}
=============================================================================
