---------------------------- MODULE OcrCandidates ----------------------------
(***************************************************************************)
(* What is read into OCR text: candidates for a price or a quantity, the   *)
(* choice among them, and the checks of the result (ocr_candidates.py,     *)
(* parser.py).                                                             *)
(*                                                                         *)
(* Of the text of a price, what the regular expressions find in it is      *)
(* kept: its tokens, and whether there is anything but numbers.  A token   *)
(* is a number of hundredths, how its decimals are set off (not, by a      *)
(* point or comma, or by one of the other separators) and whether its line *)
(* starts with it.  Numbers that only space separates are one token, which *)
(* is why the whole may be malformed: a single number of three decimals or *)
(* more; its token is then what stands before the point.  Warnings of      *)
(* repaired glyphs and the suggested values, which nothing selects, are    *)
(* left out.                                                               *)
(***************************************************************************)
EXTENDS Integers, Sequences, FiniteSetsExt, SequencesExt

CONSTANTS
  None,
  Cap   \* MARKET_PRICE_CAP, in hundredths

Separators == {"none", "point", "other"}

Tokens == [cents : Nat, sep : Separators, starts : BOOLEAN]
Texts  == [tokens : Seq(Tokens), letters : BOOLEAN, malformed : BOOLEAN]

Text(tokens) == [tokens |-> tokens, letters |-> FALSE, malformed |-> FALSE]
NoText == Text(<<>>)

(* raw_text is empty or blank. *)
IsBlank(text) == text.tokens = <<>> /\ ~ text.letters /\ ~ text.malformed

HasDecimals(token) == token.sep # "none"
Dotted(text) == text.malformed \/ \E i \in DOMAIN text.tokens : HasDecimals(text.tokens[i])

-----------------------------------------------------------------------------
(* OcrPriceCandidate; value is None when there is a rejection_reason. *)
Accepted(value, explicit) == [value |-> value, explicit |-> explicit, rejected |-> None]
Rejected(reason, explicit) == [value |-> None, explicit |-> explicit, rejected |-> reason]

(* Where the candidates with a value are; what stands in a set of one.     *)
Valid(candidates) == {i \in DOMAIN candidates : candidates[i].value # None}
Only(S) == CHOOSE x \in S : TRUE

(* A token in the loop of _candidates_from_text.  An integer from 1000 on  *)
(* may lack its decimal point; when it is still above the cap with one, it *)
(* is taken as it is.                                                      *)
TokenCandidate(token, text) ==
  LET v        == token.cents
      long     == ~ HasDecimals(token) /\ v >= 100000
      alone    == Len(text.tokens) = 1 /\ ~ text.letters
      explicit == Dotted(text)
  IN  CASE long /\ v \div 100 \in 1 .. Cap    -> Rejected("price_decimal_unconfirmed", explicit)
        [] long /\ v \div 100 \notin 1 .. Cap -> Accepted(v, explicit)
        [] ~ long /\ (v \in 1 .. Cap \/ (v = 0 /\ alone)) -> Accepted(v, explicit)
        [] OTHER -> Rejected("price_ocr_invalid", explicit)

(* _candidates_from_text.  Of a first level with a decimal point anywhere, *)
(* the first token alone counts, even when it was rejected.                *)
CandidatesFromText(text, firstLevel) ==
  LET found == [i \in DOMAIN text.tokens |-> TokenCandidate(text.tokens[i], text)]
      valid == Valid(found)
  IN  CASE text.malformed -> <<Rejected("price_ocr_invalid", TRUE)>>
        [] ~ text.malformed /\ text.tokens = <<>> -> <<Rejected("price_ocr_invalid", FALSE)>>
        [] ~ text.malformed /\ text.tokens # <<>>
             /\ Cardinality({found[i].value : i \in valid}) > 1
             /\ (\A i \in valid : ~ found[i].explicit)
             -> <<Rejected("price_candidate_ambiguous_within_source", FALSE)>>
        [] OTHER -> IF firstLevel /\ Dotted(text) THEN <<found[1]>> ELSE found

-----------------------------------------------------------------------------
(* SelectedPriceCandidate *)
Chosen(value, warnings) == [value |-> value, warnings |-> warnings, errors |-> {}]
Refused(errors) == [value |-> None, warnings |-> {}, errors |-> errors \cup {"missing"}]

(* The digits of a price with its two decimals. *)
Digits(v) == CHOOSE n \in 3 .. 9 : v < 10 ^ n /\ (n > 3 => v >= 10 ^ (n - 1))

EndsWith(v, end) == Digits(v) > Digits(end) /\ v % (10 ^ Digits(end)) = end

(* They differ in the first of two or more digits before the point. *)
OtherLeadingDigit(a, b) ==
  /\ Digits(a) = Digits(b) /\ Digits(a) >= 4
  /\ a # b /\ a % (10 ^ (Digits(a) - 1)) = b % (10 ^ (Digits(b) - 1))

(* _resolve_price_cells_v3_source_disagreement, for one value a source. *)
Resolved(scalar, level) ==
  CASE scalar.explicit /\ ~ level.explicit -> scalar.value
    [] ~ scalar.explicit /\ level.explicit -> level.value
    [] scalar.explicit /\ level.explicit /\ EndsWith(scalar.value, level.value) -> scalar.value
    [] scalar.explicit /\ level.explicit /\ EndsWith(level.value, scalar.value) -> level.value
    [] scalar.explicit /\ level.explicit /\ OtherLeadingDigit(scalar.value, level.value)
         -> level.value
    [] OTHER -> None

(* independent_roi_agreement *)
Agreed(values, more) ==
  IF Cardinality(values \cap more) = 1 THEN Only(values \cap more) ELSE None

(* The end of select_price_candidate, for the one source that has any.     *)
SelectWithin(candidates) ==
  LET valid    == Valid(candidates)
      value(i) == candidates[i].value
      repeated == {value(i) : i \in {j \in valid :
                     Cardinality({k \in valid : value(k) = value(j)}) >= 2}}
      explicit == {i \in valid : candidates[i].explicit}
  IN  CASE Cardinality(repeated) = 1 -> Chosen(Only(repeated), {})
        [] Cardinality(repeated) > 1 -> Refused({"ocr_candidate_ambiguous"})
        [] repeated = {} /\ Cardinality(explicit) = 1 -> Chosen(value(Only(explicit)), {})
        [] repeated = {} /\ Cardinality(explicit) > 1 -> Refused({"ocr_candidate_ambiguous"})
        [] repeated = {} /\ explicit = {} /\ Cardinality(valid) = 1 -> Chosen(value(Only(valid)), {})
        [] OTHER -> Refused({"price_decimal_unconfirmed"})

(* Wrong: the price cells settle a disagreement without a word. *)
SelectPriceSilently(scalarText, levelText, policy) ==
  LET scalar == CandidatesFromText(scalarText, FALSE)
  IN  IF Valid(scalar) = {} THEN Refused({})
      ELSE Chosen(scalar[Min(Valid(scalar))].value, {})

(* What select_price_candidate makes of two sources that have candidates. *)
SelectAcross(scalar, level, policy) ==
  LET scalars == {scalar[i].value : i \in Valid(scalar)}
      firsts  == {level[i].value : i \in Valid(level)}
      agreed  == Agreed(scalars, firsts)
      settled == IF /\ policy = "price-cells-v3"
                    /\ Cardinality(scalars) = 1 /\ Cardinality(firsts) = 1
                 THEN Resolved(scalar[Min(Valid(scalar))], level[Min(Valid(level))])
                 ELSE None
  IN  IF agreed # None THEN Chosen(agreed, {})
      ELSE IF settled # None THEN Chosen(settled, {"price_source_disagreement_review"})
      ELSE Refused({"ocr_candidate_ambiguous"})

SelectAmong(scalar, level, policy) ==
  CASE Valid(scalar) = {} /\ Valid(level) = {} ->
         Refused({"price_ocr_invalid"}
                   \cup ({c.rejected : c \in ToSet(scalar) \cup ToSet(level)}
                           \cap {"price_decimal_unconfirmed"}))
    [] Valid(scalar) # {} /\ Valid(level) # {} -> SelectAcross(scalar, level, policy)
    [] Valid(scalar) # {} /\ Valid(level) = {} -> SelectWithin(scalar)
    [] Valid(scalar) = {} /\ Valid(level) # {} -> SelectWithin(level)

(* select_price_candidate *)
SelectPrice(scalarText, levelText, policy) ==
  SelectAmong(CandidatesFromText(scalarText, FALSE),
              IF IsBlank(levelText) THEN <<>> ELSE CandidatesFromText(levelText, TRUE), policy)

-----------------------------------------------------------------------------
(* The text of a quantity: lines of words.  A word is an integer, a price, *)
(* a label such as "on sale" or something else; a label may have a number  *)
(* hanging on it.                                                          *)
Word(kind, n) == [kind |-> kind, n |-> n]
IsInteger(word) == word.kind = "integer"
IsPrice(word) == word.kind = "price"

Numbers(words) ==
  LET numbered == SelectSeq(words, LAMBDA w : w.n # None)
  IN  [i \in DOMAIN numbered |-> numbered[i].n]

(* _looks_like_price_context *)
ReadsAsPrice(words) == \E w \in ToSet(words) : IsPrice(w)

(* _first_integer_starts_decimal *)
StartsWithPrice(line) ==
  LET figures == SelectSeq(line, LAMBDA w : IsPrice(w) \/ w.n # None)
  IN  figures # <<>> /\ IsPrice(Head(figures))

(* _compact_quantity_candidates: the value, or None.  A stray digit beside *)
(* one longer number is taken for an artifact.                             *)
CompactQuantity(words) ==
  LET numbers == Numbers(words)
      durable == {n \in ToSet(numbers) : n >= 10}
  IN  IF ReadsAsPrice(words) THEN None
      ELSE IF Len(numbers) = 1 THEN numbers[1]
      ELSE IF Cardinality(durable) = 1 /\ ToSet(numbers) # durable THEN Max(durable)
      ELSE None

(* _summary_line_candidates: the value that line k offers, if any.         *)
SummaryLine(lines, anchor, k) ==
  LET integers == SelectSeq(lines[k], IsInteger)
  IN  IF \/ integers = <<>>
         \/ k > anchor /\ ~ IsInteger(Head(lines[k]))
         \/ StartsWithPrice(lines[k])
         \/ k > anchor + 1
      THEN {}
      ELSE {Head(integers).n}

(* _summary_text_fallback_candidates *)
SummaryFallback(words) ==
  LET numbers == Numbers(words)
  IN  IF Len(numbers) = 1 /\ ~ ReadsAsPrice(words) THEN {numbers[1]} ELSE {}

(* _summary_quantity_candidates, from the first line with the label; the   *)
(* text counts when no line has an integer of its own.                     *)
SummaryQuantities(lines) ==
  LET labelled == {k \in DOMAIN lines : \E w \in ToSet(lines[k]) : w.kind = "label"}
      anchor   == Min(labelled)
      below    == FlattenSeq(SubSeq(lines, anchor, Len(lines)))
  IN  IF labelled = {} THEN {}
      ELSE IF \E w \in ToSet(below) : IsInteger(w)
      THEN UNION {SummaryLine(lines, anchor, k) : k \in anchor .. Len(lines)}
      ELSE SummaryFallback(below)

(* select_quantity_candidate *)
SelectQuantity(compact, summary) ==
  LET values == ({CompactQuantity(compact)} \ {None}) \cup SummaryQuantities(summary)
  IN  IF Cardinality(values) = 1 THEN Max(values) ELSE None

-----------------------------------------------------------------------------
(* _parse_levels: the prices at the start of the lines.  Only a point or a *)
(* comma is read as a decimal separator here.                              *)
Levels(text) ==
  [i \in {j \in DOMAIN text.tokens : text.tokens[j].starts} |->
     LET token == text.tokens[i]
     IN  IF token.sep = "other" THEN token.cents - (token.cents % 100) ELSE token.cents]

(* _validate_price *)
PriceErrors(prices) ==
  {e \in {"non_positive_price", "price_above_market_cap"} :
     \E p \in prices \ {None} : IF e = "non_positive_price" THEN p < 1 ELSE p > Cap}

(* Wrong: only the order book is checked. *)
ContractErrorsOfLevels(bid, ask, bidLevels, askLevels) ==
  PriceErrors(ToSet(bidLevels) \cup ToSet(askLevels))

Descending(levels) == \A i, j \in DOMAIN levels : i < j => levels[i] >= levels[j]
Ascending(levels)  == \A i, j \in DOMAIN levels : i < j => levels[i] <= levels[j]

(* validate_screen_contract, and the checks in _parse_levels. *)
ContractErrors(bid, ask, bidLevels, askLevels) ==
  LET When(error, holds) == IF holds THEN {error} ELSE {}
  IN  UNION {
        When("best_bid_missing", bid = None),
        When("best_ask_missing", ask = None),
        When("bid_ask_swapped", bid # None /\ ask # None /\ bid > ask),
        PriceErrors({bid, ask} \cup ToSet(bidLevels) \cup ToSet(askLevels)),
        When("bid_levels_not_descending", ~ Descending(bidLevels)),
        When("ask_levels_not_ascending", ~ Ascending(askLevels))}

(* normalize_item_title_ocr as far as it decides: a country is no title. *)
TitleOf(text) == IF text = "country" THEN "" ELSE text

(* ScreenContract: what is recognized, and what is wrong with it. *)
Contract(name, bid, ask, bidLevels, askLevels) ==
  [bid      |-> bid.value,
   ask      |-> ask.value,
   name     |-> IF name = "" THEN None ELSE name,
   warnings |-> bid.warnings \cup ask.warnings,
   errors   |-> (IF name = "" THEN {"item_name_missing"} ELSE {}) \cup bid.errors \cup ask.errors
                  \cup ContractErrors(bid.value, ask.value, bidLevels, askLevels)]

(* parse_ocr_contract.  Quantities are read from other fields. *)
ParseContract(fields, policy) ==
  Contract(TitleOf(fields.item_name),
           SelectPrice(fields.best_bid, fields.bid_levels, policy),
           SelectPrice(fields.best_ask, fields.ask_levels, policy),
           Levels(fields.bid_levels), Levels(fields.ask_levels))
=============================================================================
