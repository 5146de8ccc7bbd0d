----------------------------- MODULE RuleBasedV1 -----------------------------
(***************************************************************************)
(* The strategy rule_based 1.0.0 (strategies/rule_based_v1.py with         *)
(* horizons.py and statistics.py).                                         *)
(*                                                                         *)
(* An item has one snapshot for each observed_at, so a window of its       *)
(* history is a function from times to observations; a bid the snapshot    *)
(* does not have is None.  risk_score and confidence_score decide nothing  *)
(* and are left out.                                                       *)
(***************************************************************************)
EXTENDS MarketFees, FiniteSets

CONSTANTS
  None,
  Horizon,             \* length of the window
  MaximumAge,          \* maximum_snapshot_age
  MinimumCount,        \* minimum_snapshot_count
  SpreadNum, SpreadDen,\* large_spread_ratio_threshold
  LowDepth             \* low_liquidity_count_threshold

ASSUME RuleBasedAssumption ==
  /\ Horizon \in Nat \ {0}
  /\ MaximumAge \in Nat \ {0}
  /\ MinimumCount \in Nat \ {0}
  /\ SpreadNum \in Nat
  /\ SpreadDen \in Nat \ {0}
  /\ LowDepth \in Nat
  /\ None \notin Int \cup BOOLEAN

(* A snapshot as the table's checks admit it: there is always an ask.      *)
(* depth is ask_count + bid_count.                                         *)
Observation == [ask : Nat \ {0}, bid : Nat \cup {None}, depth : Nat \cup {None}]

(* select_horizon_observations *)
Window(history, from, to) ==
  [t \in {u \in DOMAIN history : from <= u /\ u <= to} |-> history[t]]

Least(S) == CHOOSE x \in S : \A y \in S : x <= y
Latest(S) == CHOOSE x \in S : \A y \in S : y <= x

(* The part of window whose prices of a side are legal. *)
Legal(window, side) == {t \in DOMAIN window : IsValidMarketPrice(window[t][side])}

(* _latest_valid_market_ask, _latest_valid_market_bid *)
LatestPrice(window, side) ==
  LET legal == Legal(window, side)
  IN  IF legal = {} THEN None ELSE window[Latest(legal)][side]

(* The value at place k of those window has for part at times, in order. *)
Ranked(window, part, times, k) ==
  CHOOSE x \in {window[t][part] : t \in times} :
    /\ Cardinality({t \in times : window[t][part] < x}) < k
    /\ k <= Cardinality({t \in times : window[t][part] <= x})

(* Twice decimal_median. *)
TwiceMedian(window, part, times) ==
  LET n == Cardinality(times)
  IN  Ranked(window, part, times, (n + 1) \div 2)
        + Ranked(window, part, times, (n \div 2) + 1)

(* coverage_ratio < minimum_coverage_ratio, which is one half. *)
Uncovered(window) ==
  \/ Cardinality(DOMAIN window) < 2
  \/ 2 * (Latest(DOMAIN window) - Least(DOMAIN window)) < Horizon

(* liquidity_score is below _liquidity_warning_score. *)
LowLiquidity(window) ==
  LET counted == {t \in DOMAIN window : window[t].depth # None}
  IN  counted # {} /\ TwiceMedian(window, "depth", counted) < 2 * LowDepth

(* The median of the legal bids, rounded down; there may be nothing left. *)
ReferenceSellPrice(window) ==
  LET bids  == Legal(window, "bid")
      price == FloorToQuantum(TwiceMedian(window, "bid", bids), 2)
  IN  IF bids # {} /\ IsValidMarketPrice(price) THEN price ELSE None

(* The reasons that hold when their condition does, each at its place. *)
Reasons(window, asOf, ask, bid) ==
  LET Prices(P(_)) == \E t \in DOMAIN window :
                         P(window[t].ask) \/ (window[t].bid # None /\ P(window[t].bid))
      When(reason, holds) == IF holds THEN {reason} ELSE {}
      Both == ask # None /\ bid # None
  IN  UNION {
        When("insufficient_snapshots",
             Cardinality(DOMAIN window) < MinimumCount \/ DOMAIN window = {}),
        When("no_current_ask", ask = None),
        When("no_current_bid", bid = None),
        When("invalid_price", Prices(LAMBDA p : p <= 0) \/ (Both /\ ask < bid)),
        When("price_above_market_cap", Prices(LAMBDA p : p > MaximumListing)),
        When("stale_latest_snapshot",
             DOMAIN window # {} /\ asOf - Latest(DOMAIN window) > MaximumAge),
        When("insufficient_time_coverage", Uncovered(window)),
        When("large_spread", Both /\ (ask - bid) * SpreadDen > SpreadNum * bid),
        When("low_liquidity", LowLiquidity(window)),
        When("break_even_unreachable_under_market_cap",
             ask # None /\ BreakEvenSellPrice(ask) > MaximumListing)}

(* _status *)
Status(reasons) ==
  CASE reasons \cap {"insufficient_snapshots", "insufficient_time_coverage"} # {}
         -> "insufficient_data"
    [] reasons \cap {"insufficient_snapshots", "insufficient_time_coverage"} = {}
         /\ reasons \cap {"no_current_ask", "no_current_bid"} # {}
         -> "no_valid_price"
    [] reasons \cap {"insufficient_snapshots", "insufficient_time_coverage",
                     "no_current_ask", "no_current_bid"} = {}
         /\ "stale_latest_snapshot" \in reasons
         -> "no_recent_market"
    [] OTHER -> "ok"

(* analyze, for a request whose observations are those of window. *)
Analyze(window, asOf) ==
  LET ask       == LatestPrice(window, "ask")
      bid       == LatestPrice(window, "bid")
      reference == ReferenceSellPrice(window)
      reasons   == Reasons(window, asOf, ask, bid)
      reachable == ask # None /\ BreakEvenSellPrice(ask) <= MaximumListing
  IN  [status    |-> Status(reasons),
       reasons   |-> reasons \cup (IF Status(reasons) = "ok"
                                   THEN {"analysis_completed"} ELSE {}),
       count     |-> Cardinality(DOMAIN window),
       ask       |-> ask,
       bid       |-> bid,
       reference |-> reference,
       breakEven |-> IF reachable THEN BreakEvenSellPrice(ask) ELSE None,
       reachable |-> IF ask = None THEN None ELSE reachable,
       netProfit |-> IF ask # None /\ reference # None
                     THEN NetProfit(ask, reference) ELSE None]
=============================================================================
