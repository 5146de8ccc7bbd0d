----------------------------- MODULE MCOcrHelper -----------------------------
(* Finite instances of OcrHelper for TLC, and what it is built from. *)
EXTENDS OcrHelper, TLC

Box(x, y, w, h) == Cells!Box(x, y, w, h)

(* Pieces that start at x, as <<offset, width>>, in a row at y. *)
Row(x, y, h, pieces) == {Box(x + p[1], y, p[2], h) : p \in pieces}

(* From the start of the first to the end of the last piece. *)
Hull(boxes) ==
  LET x == Min({b.x : b \in boxes})
      b == CHOOSE c \in boxes : TRUE
  IN  Box(x, b.y, Max({Cells!Right(c) : c \in boxes}) - x, b.h)

(* Everything scales with the buttons, which are 20 * k pixels high, but   *)
(* two gaps do not: that between the pieces of a broken price and that     *)
(* between a label and the price.                                          *)
Scaled(k, boxes) == {Box(k * b.x, k * b.y, k * b.w, k * b.h) : b \in boxes}

(* A price is in one piece, or in two or three; the first or the last of   *)
(* them is as narrow as the code takes for a fragment.                     *)
Prices(k) ==
  IF k = 1 THEN {{<<44, 22>>}, {<<44, 4>>, <<52, 14>>}, {<<44, 10>>, <<59, 7>>},
                 {<<44, 2>>, <<50, 6>>, <<60, 6>>}}
  ELSE {{<<132, 66>>}, {<<132, 7>>, <<143, 55>>}, {<<132, 46>>, <<183, 15>>},
        {<<132, 6>>, <<142, 38>>, <<184, 14>>}}

(* Below a button at x: a label, a count that ends gap before the price,   *)
(* the price and two icons; the header; the first level and the second.    *)
PriceRow(k, x, price) == Row(k * x, k * 146, k * 6, price)
Counts(k, x, gap) == Row(k * x, k * 146, k * 6, {<<32 * k - gap, 12 * k>>})
                       \cup Row(k * x, k * 172, k * 6, {<<6 * k, 36 * k - gap>>})
Words(x) == Row(x, 146, 6, {<<-6, 20>>}) \cup Row(x, 160, 5, {<<0, 14>>, <<50, 20>>})
Icons(x) == Row(x, 146, 6, {<<72, 5>>, <<83, 5>>})
Labels(k, x, gap) == Scaled(k, Words(x) \cup Icons(x)) \cup Counts(k, x, gap)
Level(x) == Box(x + 42, 172, 16, 6)
Side(k, x, gap, price) ==
  Labels(k, x, gap) \cup PriceRow(k, x, price)
    \cup Scaled(k, {Level(x)} \cup Row(x, 184, 6, {<<6, 10>>, <<42, 16>>}))

TitleBar(pieces) == Row(4, 22, 6, {<<0, 8>>, <<14, 30>>} \cup pieces \cup {<<114, 6>>})
TitlePieces == {{<<47, 62>>}, {<<54, 20>>, <<80, 24>>}, {<<60, 6>>}}

Screenshot(k, gap, bid, ask, name, shape) ==
  LET buttons == CASE shape = "bare" -> {} [] shape = "high" -> {Box(20, 100, 80, 20)}
                   [] OTHER -> {Box(20, 120, 80, 20)}
      titled  == IF shape = "untitled" THEN {} ELSE TitleBar(name)
  IN  [width |-> 320 * k, height |-> 230 * k,
       broken |-> Cardinality(bid) > 1 \/ Cardinality(ask) > 1,
       red    |-> Scaled(k, {Box(180, 120, 80, 20)}),
       gray   |-> IF shape = "green" THEN {} ELSE Scaled(k, buttons),
       green  |-> IF shape = "green" THEN Scaled(k, buttons) ELSE {},
       text   |-> Scaled(k, titled) \cup Side(k, 20, gap, bid)
                    \cup (IF shape = "empty" THEN {} ELSE Side(k, 180, gap, ask)),
       labels |-> Labels(k, 20, gap) \cup Labels(k, 180, gap) \cup Scaled(k, TitleBar({})),
       boxes  |-> [best_bid |-> Hull(PriceRow(k, 20, bid)),
                   best_ask |-> Hull(PriceRow(k, 180, ask)),
                   bid_levels |-> Box(62 * k, 172 * k, 16 * k, 6 * k),
                   ask_levels |-> Box(222 * k, 172 * k, 16 * k, 6 * k),
                   item_name |-> Hull(Scaled(k, Row(4, 22, 6, name)))]]

Whole(k) == {<<44 * k, 22 * k>>}
Name == {<<47, 62>>}

(* On buttons of 60 pixels the least padding is 5, and a gap of 4 already  *)
(* separates two groups.                                                   *)
LargeScreens == {Screenshot(3, gap, bid, Whole(3), Name, "plain") :
                   gap \in {4, 5, 9, 20}, bid \in Prices(3)}

MCScreens ==
  {Screenshot(1, gap, bid, ask, Name, "plain") : gap \in {4, 5, 9}, bid \in Prices(1), ask \in Prices(1)}
    \cup {Screenshot(1, 9, Whole(1), Whole(1), n, "green") : n \in TitlePieces}
    \cup {Screenshot(1, 9, Whole(1), Whole(1), Name, shape) :
             shape \in {"bare", "high", "untitled", "empty"}}
    \cup LargeScreens

-----------------------------------------------------------------------------
Token(cents, sep, starts) == [cents |-> cents, sep |-> sep, starts |-> starts]
Price(cents) == Text(<<Token(cents, "point", TRUE)>>)
Integer(cents) == Text(<<Token(cents, "none", TRUE)>>)

(* A digit less, another digit, with another separator, without one, above *)
(* the cap, zero, two numbers, three decimals, a word, nothing.            *)
MCPriceTexts ==
  {Price(1250), Price(250), Price(1450), Text(<<Token(1250, "other", TRUE)>>), Integer(125000),
   Integer(1200), Integer(25000000), Integer(0),
   [Text(<<Token(1250, "point", TRUE), Token(300, "none", FALSE)>>) EXCEPT !.letters = TRUE],
   [Text(<<Token(1200, "none", TRUE)>>) EXCEPT !.malformed = TRUE],
   [NoText EXCEPT !.letters = TRUE], NoText}

MCTitles == {[title |-> t] : t \in {"Tank", "TANK", "Tan", "country", ""}}
MCTitleKey == [t \in {"Tank", "TANK", "Tan"} |-> IF t = "Tan" THEN "tan" ELSE "tank"]
MCTitleScore == [t \in {"Tank", "TANK", "Tan"} |-> IF t = "Tan" THEN 9 ELSE 10]

MCTruth == [f \in Fields |->
              IF f = "item_name" THEN [title |-> "Tank"]
              ELSE IF f \in {"best_bid", "bid_levels"} THEN Price(1250) ELSE Price(1350)]

(* All images different, those of the two bids alike, and black and white. *)
MCLooks ==
  LET own == [f \in Fields |-> f]
  IN  {[twin |-> own, plain |-> FALSE], [twin |-> own, plain |-> TRUE],
       [twin |-> [own EXCEPT !["bid_levels"] = "best_bid"], plain |-> FALSE]}

-----------------------------------------------------------------------------
(* Every variant gets the image it asks for, although the steps of         *)
(* preparing it are shared with the others (_PreprocessingCache).          *)
ASSUME VariantsAreExact ==
  \A i \in DOMAIN Variants :
    LET v == Variants[i]
    IN  PreparedImage(Variants, i) = [scale |-> v.scale, contrast |-> v.contrast,
                                      threshold |-> v.threshold, invert |-> v.invert]

QuantityWords == {Word("integer", 7), Word("integer", 12), Word("price", None),
                  Word("label", None), Word("label", 7), Word("other", None)}
QuantityLines == BoundedSeq(QuantityWords, 2)

(* A quantity is a number that was read, by itself or after its label, and *)
(* where both were read they agree; no number counts that stands after a   *)
(* price in its line, or before the label (select_quantity_candidate).     *)
ASSUME QuantitiesAreRead ==
  \A compact, first, second \in QuantityLines :
    LET value == SelectQuantity(compact, <<first, second>>)
        bare  == CompactQuantity(compact)
        Countable(line) == line # <<>> /\ ~ StartsWithPrice(line)
        Labelled(line) == \E w \in ToSet(line) : w.kind = "label"
    IN  value # None =>
          /\ bare \in {None, value}
          /\ bare = None =>
               \/ Countable(first) /\ Labelled(first) /\ value \in ToSet(Numbers(first))
               \/ Countable(second) /\ (Labelled(first) \/ Labelled(second))
                    /\ value \in ToSet(Numbers(second))
=============================================================================
