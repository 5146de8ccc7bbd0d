------------------------------ MODULE PriceCells ------------------------------
(***************************************************************************)
(* Where the prices and the title of an item are on a screenshot           *)
(* (price_cells.py, item_titles.py).                                       *)
(*                                                                         *)
(* A screenshot is its size, the blocks that have the colour of a button   *)
(* and the text: solid boxes that do not overlap, so the masks over pixels *)
(* are sets of boxes, and blocks of one colour do not share rows.  What    *)
(* lies from pixel a up to, not including, pixel b is the span <<a, b>>.   *)
(* A detection that fails is None; the code of its error is left out.      *)
(***************************************************************************)
EXTENDS Integers, Sequences, FiniteSetsExt, SequencesExt

CONSTANT None

Box(x, y, w, h) == [x |-> x, y |-> y, w |-> w, h |-> h]
Right(b) == b.x + b.w
Bottom(b) == b.y + b.h

Profiles == {"v2", "v3", "v4"}

(* round(n / d): a half goes to the even neighbour. *)
Rounded(n, d) ==
  LET q == n \div d
      twice == 2 * (n % d)
  IN  IF twice > d \/ (twice = d /\ q % 2 = 1) THEN q + 1 ELSE q

Percent(percent, n) == Rounded(percent * n, 100)

Length(span) == span[2] - span[1]

-----------------------------------------------------------------------------
(* _active_bands: what is active, with gaps of up to gap. *)
Bands(active, gap) ==
  LET starts == {i \in active : \A j \in (i - 1 - gap) .. (i - 1) : j \notin active}
      ends   == {i \in active : \A j \in (i + 1) .. (i + 1 + gap) : j \notin active}
  IN  {<<s, Min({e \in ends : e >= s}) + 1>> : s \in starts}

(* Bands are found from the first to the last. *)
InOrder(spans) ==
  [k \in 1 .. Cardinality(spans) |->
     CHOOSE s \in spans : Cardinality({t \in spans : t[1] < s[1]}) = k - 1]

(* The pixels of a row between x0 and x1 that text covers. *)
Ink(text, y, x0, x1) ==
  MapThenSumSet(LAMBDA b : Max({0, Min({x1, Right(b)}) - Max({x0, b.x})}),
                {b \in text : b.y <= y /\ y < Bottom(b)})

(* _projection_bands along the rows, of those whose length is right, and   *)
(* _column_groups.                                                         *)
RowBands(text, columns, rows, least, gap, lengths) ==
  LET inked == {y \in rows[1] .. rows[2] - 1 : Ink(text, y, columns[1], columns[2]) >= least}
  IN  InOrder({b \in Bands(inked, gap) : Length(b) \in lengths})

ColumnGroups(text, columns, band, gap) ==
  LET near  == {b \in text : b.y < band[2] /\ Bottom(b) > band[1]}
      inked == {x \in columns[1] .. columns[2] - 1 : \E b \in near : b.x <= x /\ x < Right(b)}
  IN  InOrder({g \in Bands(inked, gap) : Length(g) >= 2})

-----------------------------------------------------------------------------
(* _largest_button_band among the blocks, within columns and rows. *)
LargestButton(screen, blocks, columns, rows) ==
  LET cut(b) == LET x == Max({b.x, columns[1]})
                    y == Max({b.y, rows[1]})
                IN  Box(x, y, Min({Right(b), columns[2]}) - x, Min({Bottom(b), rows[2]}) - y)
      wide   == {c \in {cut(b) : b \in blocks} :
                   c.w >= Max({80, screen.width \div 10}) /\ c.h >= 20}
  IN  IF wide = {} THEN None
      ELSE CHOOSE c \in wide : \A d \in wide : d.w * d.h <= c.w * c.h

(* _ratio_close with the tolerance 0.30 *)
RatioClose(a, b) ==
  Max({a, b}) > 0 /\ 100 * (Max({a, b}) - Min({a, b})) <= 30 * Max({a, b})

(* The largest block beside the buy button in a colour of the sell button. *)
SellButton(screen, buy, profile) ==
  LET margin == Max({4, buy.h \div 4})
      blocks == screen.gray \cup (IF profile = "v4" THEN screen.green ELSE {})
  IN  LargestButton(screen, blocks, <<0, Max({1, buy.x})>>,
                    <<Max({0, buy.y - margin}), Min({screen.height, Bottom(buy) + margin})>>)

PairOfButtons(sell, buy) ==
  LET Middle(b) == b.y + b.h \div 2
      apart == Max({Middle(buy), Middle(sell)}) - Min({Middle(buy), Middle(sell)})
  IN  /\ Right(sell) < buy.x
      /\ apart <= Max({sell.h, buy.h}) \div 3
      /\ RatioClose(sell.w, buy.w)
      /\ RatioClose(sell.h, buy.h)

(* _detect_action_buttons: bid is below the sell button. *)
ButtonsBeside(screen, buy, profile) ==
  LET sell == SellButton(screen, buy, profile)
  IN  IF sell = None THEN None
      ELSE IF PairOfButtons(sell, buy) THEN [bid |-> sell, ask |-> buy] ELSE None

ActionButtons(screen, profile) ==
  LET buy == LargestButton(screen, screen.red, <<0, screen.width>>, <<0, screen.height>>)
  IN  IF buy = None THEN None ELSE ButtonsBeside(screen, buy, profile)

-----------------------------------------------------------------------------
(* One turn of the loop in _merge_fragmented_summary_price. *)
Joins(previous, group, button) ==
  /\ group[1] - previous[2] \in 0 .. Max({5, Percent(7, button.h)})
  /\ 100 * (previous[1] + previous[2] - 2 * button.x) >= 54 * 2 * button.w

(* _should_merge_summary_leading_fragment *)
LeadingFragment(previous, group, button) ==
  /\ Length(previous) \in 2 .. Max({8, Percent(11, button.h)})
  /\ group[1] - previous[2] \in 0 .. Max({5, Percent(7, button.h)})

(* The price of the summary row: it stands before two trailing groups, and *)
(* what _merge_fragmented_summary_price joins starts where nothing breaks. *)
SummaryPrice(groups, button, profile) ==
  LET base   == Len(groups) - 2
      detached == base > 1 /\ LeadingFragment(groups[base - 1], groups[base], button)
      narrow == Length(groups[base]) < Max({8, Percent(8, button.w)})
      first  == IF profile = "v2"
                THEN IF detached THEN base - 1 ELSE base
                ELSE IF narrow \/ detached
                THEN Min({k \in 1 .. base :
                            \A i \in k .. base - 1 : Joins(groups[i], groups[i + 1], button)})
                ELSE base
  IN  <<groups[first][1], groups[base][2]>>

(* _validate_price_group *)
IsPriceGroup(group, button) ==
  LET centre == 100 * (group[1] + group[2] - 2 * button.x)
  IN  /\ Length(group) >= Max({8, Percent(8, button.w)})
      /\ 30 * 2 * button.w <= centre /\ centre <= 90 * 2 * button.w

(* Wrong: the padding does not look at what comes before. *)
PaddingAlways(groups, group, desired, minimum) == desired

(* _bounded_leading_padding *)
LeadingPadding(groups, group, desired, minimum) ==
  LET before == {g \in ToSet(groups) : g[2] <= group[1]}
      gap    == group[1] - Max({g[2] : g \in before})
  IN  IF before = {} THEN desired ELSE Min({desired, Max({minimum, gap - 2})})

(* _padded_roi *)
PaddedCell(screen, group, band, left, right, up) ==
  LET x == Max({0, group[1] - left})
      y == Max({0, band[1] - up})
      w == Min({screen.width, group[2] + right}) - x
      h == Min({screen.height, band[2] + up}) - y
  IN  IF w < 4 \/ h < 4 THEN None ELSE Box(x, y, w, h)

(* What _detect_side looks at below a button, its rows of text there, and  *)
(* the groups of text in one of them.                                      *)
SideColumns(screen, button) ==
  LET margin == Percent(15, button.w)
  IN  <<Max({0, button.x - margin}), Min({screen.width, Right(button) + margin})>>

SideBands(screen, button, columns) ==
  LET rows == <<Min({screen.height, Bottom(button) + Max({2, Percent(5, button.h)})}),
                Min({screen.height, Bottom(button) + 4 * button.h})>>
      low  == Max({3, Percent(8, button.h)})
  IN  RowBands(screen.text, columns, rows, Max({4, Rounded(6 * button.w, 1000)}),
               Max({1, Percent(2, button.h)}), low .. Max({low, Percent(45, button.h)}))

SideGroups(screen, button, columns, band) ==
  ColumnGroups(screen.text, columns, band, Max({3, Percent(5, button.h)}))

(* pad_x *)
Padding(button) == Max({4, Percent(8, button.h)})

(* The cell of a price, found among the groups of a band. *)
PriceCell(screen, button, profile, group, groups, band) ==
  LET padding == Padding(button)
      left == IF profile = "v2" THEN padding
              ELSE LeadingPadding(groups, group, Max({8, Percent(16, button.h)}), padding)
  IN  IF IsPriceGroup(group, button)
      THEN PaddedCell(screen, group, band, left, padding, Max({3, Percent(8, button.h)}))
      ELSE None

NoCells == [summary |-> None, first |-> None]

CellsOfGroups(screen, button, profile, bands, summary, level) ==
  IF Len(summary) < 3 \/ Len(level) < 2 THEN NoCells
  ELSE [summary |-> PriceCell(screen, button, profile, SummaryPrice(summary, button, profile),
                              summary, bands[1]),
        first   |-> PriceCell(screen, button, profile, Last(level), level, bands[3])]

CellsOfBands(screen, button, profile, columns, bands) ==
  LET Groups(band) == SideGroups(screen, button, columns, band)
  IN  IF Len(bands) < 3 THEN NoCells
      ELSE CellsOfGroups(screen, button, profile, bands, Groups(bands[1]), Groups(bands[3]))

(* _detect_side: the cells of the summary row and of the first level. *)
SideCells(screen, button, profile) ==
  LET columns == SideColumns(screen, button)
  IN  CellsOfBands(screen, button, profile, columns, SideBands(screen, button, columns))

AllCells(bid, ask) ==
  IF None \in {bid.summary, bid.first, ask.summary, ask.first} THEN None
  ELSE [best_bid |-> bid.summary, bid_levels |-> bid.first,
        best_ask |-> ask.summary, ask_levels |-> ask.first]

(* _detect_price_cell_rois: all four cells, or none. *)
PriceCellsOf(screen, profile) ==
  LET buttons == ActionButtons(screen, profile)
  IN  IF buttons = None THEN None
      ELSE AllCells(SideCells(screen, buttons.bid, profile),
                    SideCells(screen, buttons.ask, profile))

-----------------------------------------------------------------------------
(* Where the title is looked for above a sell button b, the rows of text   *)
(* there, and how far one of them is from where the title is expected,     *)
(* times 200.                                                              *)
TitleColumns(screen, b) ==
  <<Max({0, Rounded(100 * b.x - 45 * b.w, 100)}),
    Min({screen.width, Rounded(100 * b.x + 230 * b.w, 100)})>>

TitleRows(screen, b) ==
  <<Max({0, Rounded(100 * b.y - 550 * b.h, 100)}),
    Min({screen.height, Rounded(100 * b.y - 410 * b.h, 100)})>>

TitleBands(screen, b, columns, rows) ==
  LET low == Max({3, Percent(18, b.h)})
  IN  RowBands(screen.text, columns, rows, Max({4, Rounded(8 * b.w, 1000)}),
               Max({1, Percent(3, b.h)}), low .. Max({low, Percent(65, b.h)}))

Off(band, b) == Max({100 * (band[1] + band[2]) - 200 * b.y + 950 * b.h,
                     200 * b.y - 950 * b.h - 100 * (band[1] + band[2])})

TitleGroups(screen, b, columns, band) ==
  ColumnGroups(screen.text, columns, band, Max({2, Percent(8, b.h)}))

(* The padding of a title, as far as there is room before the neighbour. *)
TitlePadding(b, gap, percent, wider) ==
  LET desired == Max({3, Percent(6, b.h)})
  IN  Min({IF wider THEN Max({desired, Percent(percent, b.h)}) ELSE desired,
           Max({2, IF wider THEN Max({0, gap}) - 2 ELSE Max({0, gap}) \div 2})})

PaddedTitle(screen, band, title, left, right, up) ==
  LET x == Max({0, title[1] - left})
      y == Max({0, band[1] - up})
  IN  Box(x, y, Min({screen.width, title[2] + right}) - x,
                Min({screen.height, band[2] + up}) - y)

(* The title stands between the icon and the label of the game and the     *)
(* last group of its row.                                                  *)
TitleAmong(screen, wider, b, band, groups) ==
  LET n     == Len(groups)
      title == <<groups[3][1], groups[n - 1][2]>>
  IN  IF n < 4 THEN None
      ELSE IF Length(title) < Max({12, Percent(75, b.h)}) \/ Length(title) > Percent(165, b.w)
           THEN None
      ELSE PaddedTitle(screen, band, title,
                       TitlePadding(b, title[1] - groups[2][2], 14, wider),
                       TitlePadding(b, groups[n][1] - title[2], 10, wider),
                       Max({3, Percent(8, b.h)}))

TitleInBand(screen, wider, b, columns, band) ==
  IF Off(band, b) > 160 * b.h THEN None
  ELSE TitleAmong(screen, wider, b, band, TitleGroups(screen, b, columns, band))

(* The row nearest to where the title is expected, the first one of two.   *)
Nearest(bands, b) ==
  bands[Min({k \in DOMAIN bands :
               \A j \in DOMAIN bands : Off(bands[k], b) <= Off(bands[j], b)})]

TitleNearest(screen, wider, b, columns, bands) ==
  IF Len(bands) = 0 THEN None
  ELSE TitleInBand(screen, wider, b, columns, Nearest(bands, b))

TitleAbove(screen, wider, b) ==
  LET columns == TitleColumns(screen, b)
      rows    == TitleRows(screen, b)
  IN  IF Length(columns) <= 0 \/ Length(rows) <= 0 THEN None
      ELSE TitleNearest(screen, wider, b, columns, TitleBands(screen, b, columns, rows))

(* _detect_item_title_roi *)
TitleCell(screen, wider) ==
  LET buttons == ActionButtons(screen, "v4")
  IN  IF buttons = None THEN None ELSE TitleAbove(screen, wider, buttons.bid)
=============================================================================
