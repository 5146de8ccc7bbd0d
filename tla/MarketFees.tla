------------------------------ MODULE MarketFees ------------------------------
(***************************************************************************)
(* Fees and the rules of the market (fees.py, market_rules.py).            *)
(*                                                                         *)
(* A price is a number of units, Quantum of which make the smallest amount *)
(* the market settles (0.01 GJN): the database keeps six decimals, so      *)
(* prices between two quanta exist.  Decimal is exact on all of this but   *)
(* for the division in calculate_break_even_sell_price, whose 28 digits    *)
(* are more than rounding up to the quantum needs.                         *)
(***************************************************************************)
EXTENDS Integers

CONSTANTS
  Quantum,          \* currency_quantum
  FeeNum, FeeDen,   \* nominal_rate is FeeNum / FeeDen
  MaximumListing    \* maximum_listing_price

ASSUME FeesAssumption ==
  /\ Quantum \in Nat \ {0}
  /\ FeeDen \in Nat \ {0}
  /\ FeeNum \in 0 .. FeeDen - 1
  /\ MaximumListing \in Nat \ {0}
  /\ MaximumListing % Quantum = 0

(* What the seller keeps of FeeDen units. *)
Kept == FeeDen - FeeNum

(* floor_to_quantum and ceil_to_quantum of num / den units. *)
FloorToQuantum(num, den) == Quantum * (num \div (den * Quantum))

CeilToQuantum(num, den) ==
  Quantum * ((num + den * Quantum - 1) \div (den * Quantum))

(* calculate_sale_proceeds *)
SaleProceeds(price) == FloorToQuantum(price * Kept, FeeDen)

MaximumSaleProceeds == SaleProceeds(MaximumListing)

NetProfit(buy, price) == SaleProceeds(price) - buy

(* One turn of the loop that looks for a lower price that still covers     *)
(* buy; a turn after the break changes nothing.                            *)
Lowered(price, buy) ==
  IF price > Quantum /\ SaleProceeds(price - Quantum) >= buy
  THEN price - Quantum
  ELSE price

(* Wrong: the fee is added to what buy needs instead of divided out. *)
BreakEvenByMarkup(buy) == CeilToQuantum(CeilToQuantum(buy, 1) * (FeeDen + FeeNum), FeeDen)

(* calculate_break_even_sell_price *)
BreakEvenSellPrice(buy) ==
  LET required == CeilToQuantum(buy, 1)
      first    == CeilToQuantum(required * FeeDen, Kept)
  IN  Lowered(Lowered(Lowered(Lowered(first, buy), buy), buy), buy)

(* is_valid_market_price *)
IsValidMarketPrice(price) == price \in 1 .. MaximumListing
=============================================================================
