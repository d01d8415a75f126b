---------------------------- MODULE DepthLevels -----------------------------
(***************************************************************************)
(* The price levels of DepthOrderBook.  DepthBook says which updates a     *)
(* book has taken in; here an update sets the quantity of a level, a diff  *)
(* event carries the last quantity of every level it changes, a snapshot   *)
(* lists the best levels only, and the spread is checked after each step.  *)
(* What compute_buy_price_impact and compute_health_metrics report is      *)
(* compared with the market's.                                             *)
(***************************************************************************)
EXTENDS DepthBook, Sequences, FiniteSetsExt

CONSTANTS
  MaxPrice,       \* bound: prices
  MaxQty,         \* bound: quantity of a level
  Opening,        \* the market before its first update
  SnapshotLimit,  \* depth_snapshot_limit
  HealthLevels,   \* DEPTH_HEALTH_LEVEL_COUNT
  Notional        \* PRICE_IMPACT_NOTIONAL_USDT

Prices == 1..MaxPrice
Sides  == {"bid", "ask"}

(* The quantity at each price; 0 where there is no level.                  *)
Levels == [Sides -> [Prices -> 0..MaxQty]]

ASSUME LevelsAssumption ==
  /\ MaxPrice \in Nat /\ MaxQty \in Nat /\ Opening \in Levels
  /\ \A b, a \in Prices :
       Opening["bid"][b] > 0 /\ Opening["ask"][a] > 0 => b < a
  /\ {SnapshotLimit, HealthLevels, Notional} \subseteq Nat \ {0}

VARIABLES
  log,     \* the engine's updates
  levels,  \* _bids and _asks
  known    \* history: side -> prices whose level the book has been told of

levelVars == <<log, levels, known>>
vars == <<bookVars, levelVars>>

-----------------------------------------------------------------------------
Update == [side : Sides, price : Prices, qty : 0..MaxQty]

(* The last quantity given to a level by the updates in a set, if any.     *)
Changes(ids, s, p) ==
  { i \in ids : i <= Len(log) /\ log[i].side = s /\ log[i].price = p }

(* The market after an update.                                             *)
Market(id) ==
  [s \in Sides |-> [p \in Prices |->
     LET told == Changes(1..id, s, p)
     IN IF told = {} THEN Opening[s][p] ELSE log[Max(told)].qty]]

PricesOf(l, s) == { p \in Prices : l[s][p] > 0 }

Better(s, p, q) == IF s = "bid" THEN p > q ELSE p < q

(* best_bid, best_ask, of a side that has a level.                         *)
Best(l, s) == CHOOSE p \in PricesOf(l, s) :
                \A q \in PricesOf(l, s) : ~Better(s, q, p)

TwoSided(l) == \A s \in Sides : PricesOf(l, s) # {}

(* The best bid is at or above the best ask.                               *)
Crossed(l) ==
  \E b \in PricesOf(l, "bid"), a \in PricesOf(l, "ask") : b >= a

(* The n best levels of a side.                                            *)
TopPrices(l, s, n) ==
  { p \in PricesOf(l, s) :
      Cardinality({ q \in PricesOf(l, s) : Better(s, q, p) }) < n }

-----------------------------------------------------------------------------
(* The matching engine never leaves a bid at or above an ask.              *)
EngineUpdate ==
  /\ EngineStep
  /\ \E u \in Update :
       /\ Market(engine)[u.side][u.price] # u.qty
       /\ log' = Append(log, u)
  /\ ~Crossed(Market(engine))'
  /\ UNCHANGED <<levels, known>>

(* Mutant: a level whose quantity is gone stays.                           *)
ApplyNonZero(e) ==
  [s \in Sides |-> [p \in Prices |->
     IF Changes(e.U..e.u, s, p) = {} \/ Market(e.u)[s][p] = 0
     THEN levels[s][p] ELSE Market(e.u)[s][p]]]

(* Mutant: quantities of an event are differences.                         *)
ApplyAdded(e) ==
  [s \in Sides |-> [p \in Prices |->
     IF Changes(e.U..e.u, s, p) = {} THEN levels[s][p]
     ELSE levels[s][p] + Market(e.u)[s][p]]]

(* _apply_deltas: quantities are absolute, zero removes.                   *)
ApplyDeltas(e) ==
  [s \in Sides |-> [p \in Prices |->
     IF Changes(e.U..e.u, s, p) = {} THEN levels[s][p] ELSE Market(e.u)[s][p]]]

(* apply_event of an event the book takes in: a crossed book is a broken   *)
(* one (_validate_book_spread).                                            *)
TakeLevels(e) ==
  /\ synced /\ ~Stale(e) /\ Continuous(e)
  /\ have' = have \union (e.U .. e.u)
  /\ last' = e.u
  /\ levels' = ApplyDeltas(e)
  /\ known' = [s \in Sides |->
       known[s] \union { p \in Prices : Changes(e.U..e.u, s, p) # {} }]
  /\ synced' = ~Crossed(levels')
  /\ degraded' = (degraded \/ Crossed(levels'))
  /\ UNCHANGED <<buffer, log>>

ApplyEvent(e) ==
  \/ (BufferEvent(e) \/ SkipEvent(e) \/ BreakBook(e)) /\ UNCHANGED levelVars
  \/ TakeLevels(e)

Receive ==
  /\ replaying = {}
  /\ \E e \in wire : Deliver(e) /\ ApplyEvent(e)

(* What a snapshot of the exchange lists.                                  *)
Listed(id) ==
  [s \in Sides |-> [p \in Prices |->
     IF p \in TopPrices(Market(id), s, SnapshotLimit)
     THEN Market(id)[s][p] ELSE 0]]

(* Mutant: the levels of the snapshot are put over those in the book.      *)
SnapshotOver(id) ==
  [s \in Sides |-> [p \in Prices |->
     IF Listed(id)[s][p] > 0 THEN Listed(id)[s][p] ELSE levels[s][p]]]

(* Mutant: the bids and the asks of the snapshot are mixed up.             *)
SnapshotSwapped(id) ==
  [s \in Sides |-> Listed(id)[IF s = "bid" THEN "ask" ELSE "bid"]]

SnapshotLevels(id) == Listed(id)

(* A list that is not full tells of all levels, a full one of those that   *)
(* are no worse than its last.                                             *)
ToldBySnapshot(id, s) ==
  LET top == TopPrices(Market(id), s, SnapshotLimit)
  IN { p \in Prices : Cardinality(top) < SnapshotLimit
                      \/ \E q \in top : ~Better(s, q, p) }

(* sync_from_snapshot; that its check of the spread does not raise is      *)
(* SpreadHolds.                                                            *)
Sync(id) ==
  /\ SyncFromSnapshot(id)
  /\ levels' = SnapshotLevels(id)
  /\ known' = [s \in Sides |-> ToldBySnapshot(id, s)]
  /\ UNCHANGED log

Replay ==
  /\ \E e \in replaying :
       /\ Earliest(e, replaying)
       /\ ApplyEvent(e)
       /\ replaying' = IF synced' THEN replaying \ {e} ELSE {}
  /\ UNCHANGED stream

Init ==
  /\ BookInit
  /\ log = <<>>
  /\ levels = [s \in Sides |-> [p \in Prices |-> 0]]
  /\ known = [s \in Sides |-> {}]

Next ==
  \/ EngineUpdate
  \/ (Emit \/ Connect \/ Disconnect) /\ UNCHANGED levelVars
  \/ Receive \/ Replay
  \/ \E id \in 1..engine : Sync(id)

Spec == Init /\ [][Next]_vars

-----------------------------------------------------------------------------
(* The notional of the asks at each price.                                 *)
Cost(l) == [p \in Prices |-> p * l["ask"][p]]

(* compute_buy_price_impact: what is left to buy when the walk over the    *)
(* asks is through with a price.                                           *)
Remaining(l) ==
  LET left[p \in 0..MaxPrice] ==
        IF p = 0 THEN Notional
        ELSE left[p - 1] - Min({left[p - 1], Cost(l)[p]})
  IN left

(* Mutant: a level that is enough is bought whole.                         *)
TakenWhole(l) ==
  [p \in Prices |-> IF Remaining(l)[p - 1] = 0 THEN 0 ELSE Cost(l)[p]]

(* The notional taken at each price, which gives the average price.        *)
Taken(l) == [p \in Prices |-> Remaining(l)[p - 1] - Remaining(l)[p]]

NoImpact == [fillable |-> FALSE, fills |-> <<>>, twiceMid |-> 0]

(* The impact is None, FALSE without two sides or with too few asks.       *)
PriceImpact(l) ==
  IF ~TwoSided(l) \/ Remaining(l)[MaxPrice] > 0 THEN NoImpact
  ELSE [fillable |-> TRUE, fills |-> Taken(l),
        twiceMid |-> Best(l, "bid") + Best(l, "ask")]

(* Mutant: a level more than the first ones is averaged.                   *)
HealthOfMore(l) ==
  IF ~TwoSided(l) THEN <<>>
  ELSE [s \in Sides |->
          LET top == TopPrices(l, s, HealthLevels + 1)
          IN [best |-> Best(l, s),
              sum  |-> SumFunctionOnSet(l[s], top),
              of   |-> Cardinality(top)]]

(* compute_health_metrics: best prices, and the average quantity of the    *)
(* first levels as sum and number.                                         *)
HealthMetrics(l) ==
  IF ~TwoSided(l) THEN <<>>
  ELSE [s \in Sides |->
          LET top == TopPrices(l, s, HealthLevels)
          IN [best |-> Best(l, s),
              sum  |-> SumFunctionOnSet(l[s], top),
              of   |-> Cardinality(top)]]

-----------------------------------------------------------------------------
(* Properties.                                                             *)

LevelsTypeOK ==
  /\ BookTypeOK
  /\ log \in Seq(Update) /\ Len(log) = engine
  /\ levels \in Levels
  /\ known \in [Sides -> SUBSET Prices]

(* In the book of levels nothing happens that DepthBook does not allow; in *)
(* particular the spread check never finds a synchronised book crossed,    *)
(* although events overlap snapshots and snapshots are cut: a              *)
(* DepthSyncError of _validate_book_spread would be a false alarm.         *)
ImplementsBook == BookSpec

(* A synchronised book is not crossed: the check that follows a snapshot,  *)
(* and raises if it is, never does.                                        *)
SpreadHolds == synced => ~Crossed(levels)

(* A synchronised book has, at its last update id, the market's quantity   *)
(* at every level it was told of and no other level: neither a level that  *)
(* an overlapping event gave again nor one from before a resync is wrong.  *)
LevelsTrue ==
  synced => levels = [s \in Sides |-> [p \in Prices |->
                        IF p \in known[s] THEN Market(last)[s][p] ELSE 0]]

(* An order over the market: at each price it takes what the better levels *)
(* have left of it.                                                        *)
BuyAt(l, p) ==
  LET before == SumFunctionOnSet(Cost(l), 1..(p - 1))
  IN Max({0, Min({Notional - before, Cost(l)[p]})})

(* The asks down to the last one that is bought, and the bids down to the  *)
(* best one, are known; all of a side of which there is not enough.        *)
InSight ==
  /\ TwoSided(levels)
  /\ LET dear == { p \in Prices : Taken(levels)[p] > 0 }
     IN IF Remaining(levels)[MaxPrice] > 0 THEN known["ask"] = Prices
        ELSE 1..Max(dear) \subseteq known["ask"]
  /\ Best(levels, "bid")..MaxPrice \subseteq known["bid"]

(* The impact reported of a synchronised book is that of an order on the   *)
(* market, as long as the order does not buy beyond the levels the book    *)
(* knows of (docs/missing_fields_implementation.md, B.5).                  *)
ImpactTrue ==
  synced /\ InSight =>
    LET market == Market(last)
        whole  == SumFunctionOnSet(Cost(market), Prices)
    IN PriceImpact(levels) =
         IF whole < Notional THEN NoImpact
         ELSE [fillable |-> TRUE,
               fills    |-> [p \in Prices |-> BuyAt(market, p)],
               twiceMid |-> Best(market, "bid") + Best(market, "ask")]

(* Of each side, everything down to the last level that is averaged is     *)
(* known; all of it if there are fewer levels.                             *)
TopKnown(s) ==
  LET top == TopPrices(levels, s, HealthLevels)
  IN \/ known[s] = Prices
     \/ /\ Cardinality(top) = HealthLevels
        /\ \A p \in top : { q \in Prices : Better(s, q, p) } \subseteq known[s]

(* So are the spread and the average quantities behind depth_degraded, as  *)
(* long as the averages end within the levels the book knows of            *)
(* (_depth_degraded_for_bucket).                                           *)
HealthTrue ==
  synced /\ (\A s \in Sides : TopKnown(s)) =>
    HealthMetrics(levels) = HealthMetrics(Market(last))
=============================================================================
