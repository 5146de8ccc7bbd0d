------------------------------- MODULE OcrHelper -------------------------------
(***************************************************************************)
(* One call that reads a screenshot: what is cut out of it and prepared    *)
(* (ocr_batch.py), the PowerShell process that recognizes it, the end of   *)
(* that process, and the prices its answers come to (ocr_backend.py and    *)
(* its callers process_review_image and _process_entry).                   *)
(*                                                                         *)
(* The quantities, which are prepared and answered like the prices, are    *)
(* left out: of them only the choice of the value is modelled.  Titles are *)
(* records [title |-> t]; what punctuation and spacing a title loses is    *)
(* left out, when two of them count as the same and which is more legible  *)
(* is given by TitleKey and TitleScore.                                    *)
(***************************************************************************)
EXTENDS OcrCandidates

CONSTANTS
  Screens,      \* screenshots, see PriceCells
  Looks,        \* which of the images of a batch are the same
  PriceTexts,   \* what the helper may read where a price is,
  Titles,       \* and where the title is
  TitleKey,
  TitleScore,
  Truth,        \* [field -> text]: what is on the screenshots
  Broken        \* an output.json that cannot be parsed

PriceFields == {"ask_levels", "best_ask", "best_bid", "bid_levels"}
Fields == PriceFields \cup {"item_name"}

(* Truth: each price is a number with two decimals, once in the summary    *)
(* and once in its order book.                                             *)
ASSUME OcrHelperAssumption ==
  /\ Cap \in Nat /\ None \notin Int
  /\ PriceTexts \subseteq Texts
  /\ \A f \in PriceFields :
       LET cents == Truth[f].tokens[1].cents
       IN  /\ cents \in 1 .. Cap
           /\ Truth[f] = Text(<<[cents |-> cents, sep |-> "point", starts |-> TRUE]>>)
  /\ Truth["best_bid"] = Truth["bid_levels"] /\ Truth["best_ask"] = Truth["ask_levels"]
  /\ \A t \in Titles \cup {Truth["item_name"]} :
       /\ t \in [title : STRING] /\ t.title # None
       /\ TitleOf(t.title) # "" => TitleScore[t.title] \in Int
  /\ \A look \in Looks :
       /\ look.twin["item_name"] = "item_name"
       /\ \A f \in PriceFields : look.twin[f] \in PriceFields
  /\ Screens # {}
  /\ \A s \in Screens :
       /\ s.width \in Nat /\ s.height \in Nat
       /\ \A boxes \in {s.text, s.red, s.gray, s.green} :
            IsFiniteSet(boxes) /\ boxes \subseteq [x : Nat, y : Nat, w : Nat, h : Nat]

Cells == INSTANCE PriceCells

VARIABLES
  call,       \* the recognizer and the policy of its caller
  phase,      \* where recognize is
  screen,     \* the screenshot, until it is prepared
  cells,      \* price_cells.PriceCellDetection or None
  title,      \* item_titles.ItemTitleDetection or None
  requests,   \* logical_requests
  warnings,   \* preparation_warnings
  child,      \* the process of windows_ocr.ps1
  read,       \* [image -> text]: what OCR sees on each image
  output,     \* output.json: None, Broken or a sequence of answers
  result      \* None, then how the call ended

vars == <<call, phase, screen, cells, title, requests, warnings, child, read, output, result>>

(* DEFAULT_OCR_PREPROCESSING_VARIANTS *)
Variant(name, scale, contrast, threshold, invert) ==
  [name |-> name, scale |-> scale, contrast |-> contrast,
   threshold |-> threshold, invert |-> invert]
Variants == <<Variant("gray_3x", 3, FALSE, None, FALSE),
              Variant("gray_autocontrast_4x", 4, TRUE, None, FALSE),
              Variant("binary_4x", 4, TRUE, 170, FALSE),
              Variant("inverted_binary_4x", 4, TRUE, 170, TRUE)>>

(* get_recognizer; the first is WindowsOcrRecognizer as it is by default.  *)
Recognizer(mode, plan, profile, titles) ==
  [mode |-> mode, plan |-> plan, cells |-> profile, title |-> titles]
Recognizers ==
  {Recognizer("batch", "all", None, None), Recognizer("drawing", "all", None, None),
   Recognizer("drawing", "cascade", None, None)}
    \cup {Recognizer("drawing", "cascade", p, None) : p \in Cells!Profiles}
    \cup {Recognizer("drawing", "cascade", "v4", t) : t \in Cells!Profiles}

(* The review API is strict, an offline run trusts the newer price cells. *)
Policies(recognizer) ==
  {"strict"} \cup (IF recognizer.cells \in {"v3", "v4"} THEN {"price-cells-v3"} ELSE {})

-----------------------------------------------------------------------------
(* _prepared_variant through the _PreprocessingCache of a field: each step *)
(* may be that of an earlier variant with the same key.                    *)
PreparedImage(variants, i) ==
  LET v == variants[i]
      Before(same(_)) == variants[Min({j \in 1 .. i : same(variants[j])})]
      ofThreshold == Before(LAMBDA u : u.scale = v.scale /\ u.threshold = v.threshold)
      ofInvert    == Before(LAMBDA u : /\ u.invert /\ u.scale = v.scale
                                       /\ u.threshold = v.threshold /\ u.contrast = v.contrast)
      contrast(u) == IF u.threshold = None THEN u.contrast ELSE ofThreshold.contrast
  IN  [scale |-> v.scale, threshold |-> v.threshold, invert |-> v.invert,
       contrast |-> IF v.invert THEN contrast(ofInvert) ELSE contrast(v)]

(* The image that is written for a field: crops may look alike, and those  *)
(* that are black and white stay what they are when they are thresholded.  *)
ImageOf(look, field, i) ==
  LET image == PreparedImage(Variants, i)
  IN  <<look.twin[field],
        IF look.plain THEN [image EXCEPT !.threshold = None, !.contrast = FALSE] ELSE image>>

(* field_variant_names with which a field is prepared; without a title bar *)
(* the title is not read at all.                                           *)
PlanOf(recognizer, found, field) ==
  CASE recognizer.plan = "all" -> [i \in DOMAIN Variants |-> Variants[i].name]
    [] recognizer.plan # "all" /\ field \in PriceFields -> <<"gray_3x", "binary_4x">>
    [] recognizer.plan # "all" /\ field \notin PriceFields /\ found ->
         <<"gray_3x", "gray_autocontrast_4x">>
    [] OTHER -> <<>>

(* Wrong: what is prepared in the same way is taken for the same. *)
PhysicalByVariant(logical, i) ==
  Min({j \in 1 .. i : logical[j].variant = logical[i].variant})

(* physical_request_id: the first request whose image has the fingerprint. *)
PhysicalOf(logical, i) == Min({j \in 1 .. i : logical[j].image = logical[i].image})

(* The requests of all fields, field by field. *)
ByField(of) ==
  of["ask_levels"] \o of["best_ask"] \o of["best_bid"] \o of["bid_levels"] \o of["item_name"]

(* prepare_windows_ocr_batch: the fields with ink, in all variants. *)
BatchRequests(inked, look) ==
  ByField([f \in Fields |->
    IF f \notin inked THEN <<>>
    ELSE [i \in DOMAIN Variants |->
            [field |-> f, variant |-> Variants[i].name, found |-> FALSE,
             image |-> ImageOf(look, f, i)]]])

(* prepare_system_drawing_ocr_batch_manifest: the helper cuts the images   *)
(* itself, out of what was found or of the layout's ROI.                   *)
DrawingRequests(recognizer, found) ==
  ByField([f \in Fields |->
    LET plan == PlanOf(recognizer, "item_name" \in found, f)
    IN  [i \in DOMAIN plan |->
           [field |-> f, variant |-> plan[i], found |-> f \in found,
            image |-> <<f, plan[i]>>]]])

-----------------------------------------------------------------------------
Blank(field) == IF field = "item_name" THEN [title |-> ""] ELSE NoText

(* _score_recognized_text *)
Score(text) ==
  IF IsBlank(text) THEN 0
  ELSE 10 + (IF Dotted(text) THEN 40 ELSE IF text.tokens # <<>> THEN 20 ELSE 0)
          - (IF Len(text.tokens) > 1 /\ ~ Dotted(text) THEN 10 ELSE 0)
          - (IF text.letters THEN 5 ELSE 0)

(* The first of the best: max, or a loop that goes on for a higher score. *)
FirstBest(texts, scores) ==
  texts[CHOOSE i \in DOMAIN texts :
          \A j \in DOMAIN texts : scores[j] < scores[i] \/ (scores[j] = scores[i] /\ i <= j)]

(* _select_item_title_result *)
SelectTitle(texts) ==
  LET titles  == [i \in DOMAIN texts |-> TitleOf(texts[i].title)]
      legible == {i \in DOMAIN texts : titles[i] # ""}
      keys    == {TitleKey[titles[i]] : i \in legible}
  IN  IF legible = {} THEN [text |-> Blank("item_name"), warnings |-> {}]
      ELSE [text |-> FirstBest([i \in legible |-> [title |-> titles[i]]],
                               [i \in legible |-> TitleScore[titles[i]]]),
            warnings |-> {"item_title_candidate_review"}
              \cup (IF Cardinality(keys) > 1 THEN {"item_title_ocr_ambiguous"} ELSE {})
              \cup (IF Cardinality(legible) = 1 THEN {"item_title_single_pipeline_review"} ELSE {})]

(* result_by_request_id: the text of the first answer to a request. *)
TextOf(answers, request) ==
  LET own == {k \in DOMAIN answers : answers[k].id = request.physical}
  IN  IF own = {} THEN Blank(request.field) ELSE answers[Min(own)].text

(* The warnings of _batch_results_by_request_id. *)
MappingWarnings(answers, physicals) ==
  LET ids == {answers[k].id : k \in DOMAIN answers}
      When(warning, holds) == IF holds THEN {warning} ELSE {}
  IN  UNION {When("duplicate_response", Len(answers) # Cardinality(ids)),
             When("missing_response", ~ physicals \subseteq ids),
             When("unknown_response", ~ ids \subseteq physicals)}

(* The texts of a field, by request. *)
TextsOf(answers, f) ==
  [i \in {j \in DOMAIN requests : requests[j].field = f} |-> TextOf(answers, requests[i])]

(* The text of a field with prices. *)
BestPriceText(texts) ==
  IF DOMAIN texts = {} THEN NoText
  ELSE FirstBest(texts, [i \in DOMAIN texts |-> Score(texts[i])])

(* _batch_payload_to_ocr_result: the text of each field, and the warnings. *)
Evidence(answers) ==
  LET name == SelectTitle(TextsOf(answers, "item_name"))
  IN  [fields |-> [f \in Fields |->
                     IF f = "item_name" THEN name.text ELSE BestPriceText(TextsOf(answers, f))],
       warnings |-> warnings \cup name.warnings
                      \cup MappingWarnings(answers, {r.physical : r \in ToSet(requests)})]

(* What recognize returns and parse_ocr_contract makes of it. *)
Reading(evidence) ==
  LET texts    == [evidence.fields EXCEPT !.item_name = evidence.fields.item_name.title]
      contract == ParseContract(texts, call.policy)
  IN  [outcome |-> "read", fields |-> evidence.fields,
       contract |-> [contract EXCEPT !.warnings = @ \cup evidence.warnings]]

Ended(outcome) == [outcome |-> outcome]

-----------------------------------------------------------------------------
Init ==
  /\ call \in UNION {[recognizer : {r}, policy : Policies(r)] : r \in Recognizers}
  /\ screen \in IF call.recognizer.cells = None THEN {CHOOSE s \in Screens : TRUE} ELSE Screens
  /\ phase = "new" /\ child = "none"
  /\ cells = None /\ title = None /\ requests = <<>> /\ warnings = {}
  /\ read = <<>> /\ output = None /\ result = None

(* The detectors, in _recognize_system_drawing_batch. *)
Detect ==
  LET recognizer == call.recognizer
  IN  /\ phase = "new" /\ recognizer.mode = "drawing"
      /\ cells' = IF recognizer.cells = None THEN None
                  ELSE Cells!PriceCellsOf(screen, recognizer.cells)
      /\ title' = IF recognizer.title = None THEN None
                  ELSE Cells!TitleCell(screen, recognizer.title # "v2")
      /\ warnings' =
           (IF recognizer.cells # None /\ cells' = None THEN {"price_cell_anchor_fallback"} ELSE {})
             \cup (IF recognizer.title # None /\ title' = None
                   THEN {"item_title_anchor_fallback"} ELSE {})
      /\ phase' = "detected"
      /\ UNCHANGED <<call, screen, requests, child, read, output, result>>

(* The requests are written to input.json and the helper is started. *)
Start(logical) ==
  /\ requests' = [i \in DOMAIN logical |->
                    [field |-> logical[i].field, image |-> logical[i].image,
                     found |-> logical[i].found, physical |-> PhysicalOf(logical, i)]]
  /\ phase' = "waiting" /\ child' = "running"
  /\ screen' = None /\ cells' = None /\ title' = None
  /\ UNCHANGED <<call, warnings, read, output, result>>

StartBatch ==
  /\ phase = "new" /\ call.recognizer.mode = "batch"
  /\ \E inked \in {Fields, PriceFields} : \E look \in Looks : Start(BatchRequests(inked, look))

StartDrawing ==
  /\ phase = "detected"
  /\ Start(DrawingRequests(call.recognizer,
                           (IF cells = None THEN {} ELSE PriceFields)
                             \cup (IF title = None THEN {} ELSE {"item_name"})))

-----------------------------------------------------------------------------
(* What OCR may see on the images: the truth, but for one image, or for    *)
(* all of the same crop, which may be read as something else.              *)
Sights(images) ==
  LET truth == [i \in images |-> Truth[i[1]]]
      Other(image) == IF image[1] = "item_name" THEN Titles ELSE PriceTexts
      same  == {{i} : i \in images} \cup {{i \in images : i[1] = j[1]} : j \in images}
  IN  {truth} \cup
      UNION {{[i \in images |-> IF i \in some THEN text ELSE truth[i]] :
                text \in Other(CHOOSE i \in some : TRUE)} : some \in same}

(* What the helper may write: its answers in order, or, if it is another   *)
(* than the one that belongs to this version, otherwise; one oddity.       *)
Outputs(answers) ==
  {answers, Reverse(answers), Append(answers, [id |-> 0, text |-> NoText])}
    \cup {RemoveAt(answers, i) : i \in DOMAIN answers}
    \cup {<<answers[i]>> \o answers : i \in DOMAIN answers}

(* The numbers of a set, the smallest first. *)
InOrder(S) ==
  [k \in 1 .. Cardinality(S) |-> CHOOSE i \in S : Cardinality({j \in S : j < i}) = k - 1]

(* The answers to the requests that are made, when the images are seen so. *)
Answers(sight) ==
  LET physical == InOrder({i \in DOMAIN requests : requests[i].physical = i})
  IN  [k \in DOMAIN physical |->
         [id |-> physical[k], text |-> sight[requests[physical[k]].image]]]

(* windows_ocr.ps1 answers one request after the other and writes at last. *)
(* Bound: it answers in order when something is misread.                   *)
HelperWrites ==
  /\ child = "running" /\ output = None
  /\ \E sight \in Sights({r.image : r \in ToSet(requests)}) :
       /\ read' = sight
       /\ output' \in IF \A i \in DOMAIN sight : sight[i] = Truth[i[1]]
                      THEN Outputs(Answers(sight)) ELSE {Answers(sight)}
  /\ UNCHANGED <<call, phase, screen, cells, title, requests, warnings, child, result>>

HelperExits ==
  /\ child = "running"
  /\ child' = "exited"
  /\ UNCHANGED <<call, phase, screen, cells, title, requests, warnings, read, output, result>>

(* It fails, perhaps while it is writing. *)
HelperFails ==
  /\ child = "running"
  /\ child' = "failed"
  /\ output' \in {output, Broken}
  /\ UNCHANGED <<call, phase, screen, cells, title, requests, warnings, read, result>>

-----------------------------------------------------------------------------
(* communicate returns. *)
Collect ==
  /\ phase = "waiting" /\ child \in {"exited", "failed"}
  /\ phase' = "collected"
  /\ UNCHANGED <<call, screen, cells, title, requests, warnings, child, read, output, result>>

(* The output counts if the helper says so. *)
Read ==
  /\ phase = "collected"
  /\ result' = IF child = "failed" \/ output \in {None, Broken} THEN Ended("failed")
               ELSE Reading(Evidence(output))
  /\ phase' = "done"
  /\ UNCHANGED <<call, screen, cells, title, requests, warnings, child, read, output>>

(* communicate raises TimeoutExpired. *)
TimedOut ==
  /\ phase = "waiting" /\ child = "running"
  /\ phase' = "ending"
  /\ UNCHANGED <<call, screen, cells, title, requests, warnings, child, read, output, result>>

(* Wrong: whoever waits for it will see that it ends. *)
TerminatedNever(process) == process

(* _terminate_process_tree; taskkill is taken to succeed. *)
Terminated(process) == IF process = "running" THEN "killed" ELSE process

Terminate ==
  /\ phase = "ending"
  /\ child' = Terminated(child)
  /\ phase' = "reaping"
  /\ UNCHANGED <<call, screen, cells, title, requests, warnings, read, output, result>>

(* The second communicate has no timeout; its output is not looked at. *)
Reap ==
  /\ phase = "reaping" /\ child # "running"
  /\ result' = Ended("timeout")
  /\ phase' = "done"
  /\ UNCHANGED <<call, screen, cells, title, requests, warnings, child, read, output>>

(* KeyboardInterrupt while communicate waits. *)
Interrupt ==
  /\ phase = "waiting"
  /\ child' = Terminated(child)
  /\ result' = Ended("interrupted")
  /\ phase' = "done"
  /\ UNCHANGED <<call, screen, cells, title, requests, warnings, read, output>>

Finished == phase = "done" /\ UNCHANGED vars

Next ==
  \/ Detect \/ StartBatch \/ StartDrawing
  \/ HelperWrites \/ HelperExits \/ HelperFails
  \/ Collect \/ Read \/ TimedOut \/ Terminate \/ Reap \/ Interrupt
  \/ Finished

(* communicate returns or times out, and Python goes on.  Nothing is       *)
(* assumed of the helper.                                                  *)
Fairness == WF_vars(Collect \/ TimedOut \/ Terminate \/ Reap)

Spec == Init /\ [][Next]_vars
FairSpec == Spec /\ Fairness

-----------------------------------------------------------------------------
Holds(cell, box) ==
  /\ cell.x <= box.x /\ Cells!Right(box) <= Cells!Right(cell)
  /\ cell.y <= box.y /\ Cells!Bottom(box) <= Cells!Bottom(cell)
Apart(a, b) ==
  \/ Cells!Right(a) <= b.x \/ Cells!Right(b) <= a.x
  \/ Cells!Bottom(a) <= b.y \/ Cells!Bottom(b) <= a.y
OnScreen(cell) == Holds(Cells!Box(0, 0, screen.width, screen.height), cell)

(* What ends in front of box and closer to it than the padding that the    *)
(* code never goes below, whatever room there is.                          *)
Crowds(label, box) ==
  box.x - Cells!Right(label)
    \in 0 .. Cells!Padding(Cells!ActionButtons(screen, call.recognizer.cells).bid) - 1

(* Wherever the detectors find the cells, each cell holds the whole price  *)
(* or title and nothing of the labels beside it, but for a label that      *)
(* stands closer to a price than the least padding; the frozen v2 cells    *)
(* are held to it for prices that are not broken (_detect_side,            *)
(* _merge_fragmented_summary_price, _detect_item_title_roi).               *)
CellsHoldPrices ==
  phase = "detected" =>
    /\ cells # None /\ (screen.broken => call.recognizer.cells # "v2") =>
         \A f \in PriceFields :
           /\ OnScreen(cells[f]) /\ Holds(cells[f], screen.boxes[f])
           /\ \A label \in screen.labels :
                Apart(cells[f], label) \/ Crowds(label, screen.boxes[f])
    /\ title # None =>
         /\ OnScreen(title) /\ Holds(title, screen.boxes.item_name)
         /\ \A label \in screen.labels : Apart(title, label)

(* The wider cell of v3 and v4 does not cross into the label in front of   *)
(* the price ("Add OCR context without crossing into the preceding label   *)
(* or quantity", _bounded_leading_padding).  On large buttons it does.     *)
PaddingStaysClear ==
  phase = "detected" /\ cells # None /\ call.recognizer.cells # "v2" =>
    \A f \in PriceFields : \A label \in screen.labels :
      Cells!Right(label) <= screen.boxes[f].x => Apart(cells[f], label)

(* What the detectors promise of any screenshot, whatever its layout.      *)

(* Text b stands in the rows of a band and is seen in the columns.         *)
InRow(b, band, columns) ==
  /\ b.y < band[2] /\ band[1] < Cells!Bottom(b)
  /\ Min({Cells!Right(b), columns[2]}) - Max({b.x, columns[1]}) >= 2

Within(b, span) == span[1] <= b.x /\ Cells!Right(b) <= span[2]
Beside(b, cell) == Cells!Right(b) <= cell.x \/ Cells!Right(cell) <= b.x

(* A cell is a part of the screenshot and covers what it was cut out for.  *)
CutOut(cell, span, band) ==
  /\ OnScreen(cell)
  /\ cell.x <= span[1] /\ span[1] < span[2] /\ span[2] <= Cells!Right(cell)
  /\ cell.y <= band[1] /\ band[1] < band[2] /\ band[2] <= Cells!Bottom(cell)

(* Of the row of a price, a cell cuts nothing off but at the edge of the   *)
(* columns, and what stands further from the price than the padding is not *)
(* in it.                                                                  *)
PriceIn(cell, button, columns, band, span) ==
  /\ CutOut(cell, span, band)
  /\ 2 * button.x < span[1] + span[2] /\ span[1] + span[2] < 2 * Cells!Right(button)
  /\ \A b \in screen.text :
       InRow(b, band, columns) =>
         \/ Within(b, span) \/ Beside(b, cell)
         \/ b.x < columns[1] \/ columns[2] < Cells!Right(b)
         \/ span[1] - Cells!Right(b) \in 0 .. Cells!Padding(button)
         \/ b.x - span[2] \in 0 .. Cells!Padding(button)

(* The four cells are those of four different texts: of the first and of   *)
(* the third row below each of the two buttons                             *)
(* (_detect_side, _bounded_leading_padding).                               *)
FourPrices ==
  phase = "detected" /\ cells # None =>
    LET profile == call.recognizer.cells
        buttons == Cells!ActionButtons(screen, profile)
        PricesOf(button, summary, level) ==
          LET columns == Cells!SideColumns(screen, button)
              bands   == Cells!SideBands(screen, button, columns)
              Groups(k) == Cells!SideGroups(screen, button, columns, bands[k])
          IN  /\ PriceIn(summary, button, columns, bands[1],
                         Cells!SummaryPrice(Groups(1), button, profile))
              /\ PriceIn(level, button, columns, bands[3], Last(Groups(3)))
              /\ Cells!Bottom(summary) < bands[3][1]
    IN  /\ Cells!Right(buttons.bid) < buttons.ask.x
        /\ PricesOf(buttons.bid, cells.best_bid, cells.bid_levels)
        /\ PricesOf(buttons.ask, cells.best_ask, cells.ask_levels)

(* The title's cell holds nothing else of its row, and nothing of it in    *)
(* part: neither icon nor label (_detect_item_title_roi).                  *)
TitleAlone ==
  phase = "detected" /\ title # None =>
    LET b       == Cells!ActionButtons(screen, "v4").bid
        columns == Cells!TitleColumns(screen, b)
        rows    == Cells!TitleRows(screen, b)
    IN  \E band \in ToSet(Cells!TitleBands(screen, b, columns, rows)) :
          LET groups == Cells!TitleGroups(screen, b, columns, band)
              span   == <<groups[3][1], groups[Len(groups) - 1][2]>>
          IN  /\ CutOut(title, span, band)
              /\ \A t \in screen.text :
                   InRow(t, band, columns) => Within(t, span) \/ Beside(t, title)

IsRead == result # None /\ result.outcome = "read"

(* The text of a field is what was seen on one of its own images, however  *)
(* the helper orders, repeats or loses its answers; if nothing is reported *)
(* of that, none of the field's other images scores higher.  A title is    *)
(* read nowhere but in the title bar where one is asked for                *)
(* (prepare_windows_ocr_batch, _batch_payload_to_ocr_result).              *)
AnswersMatch ==
  IsRead =>
    \A f \in Fields :
      LET own  == {r \in ToSet(requests) : r.field = f}
          text == result.fields[f]
      IN  /\ text = Blank(f) \/ \E r \in own : text = read[r.image]
          /\ f \in PriceFields
               /\ {"missing_response", "unknown_response"} \cap result.contract.warnings = {}
               => \A r \in own : Score(read[r.image]) <= Score(text)
          /\ f = "item_name" /\ call.recognizer.title # None /\ text # Blank(f)
               => \A r \in own : r.found

(* With one of the two texts of a price misread, the price comes out right *)
(* or not at all, or the reviewer is warned; a title never comes out       *)
(* without a warning (select_price_candidate, _select_item_title_result).  *)
MisreadIsNoticed ==
  IsRead =>
    LET contract == result.contract
        Right(price, scalar, level) ==
          \/ price \in {None, Truth[scalar].tokens[1].cents}
          \/ "price_source_disagreement_review" \in contract.warnings
          \/ result.fields[scalar] # Truth[scalar] /\ result.fields[level] # Truth[level]
    IN  /\ Right(contract.bid, "best_bid", "bid_levels")
        /\ Right(contract.ask, "best_ask", "ask_levels")
        /\ contract.name # None => "item_title_candidate_review" \in contract.warnings

(* A contract without errors has both prices, in order and in the range of *)
(* the market, although a price above the cap may be chosen                *)
(* (_candidates_from_text, validate_screen_contract).                      *)
PriceChecked ==
  IsRead /\ result.contract.errors = {} =>
    LET contract == result.contract
    IN  /\ None \notin {contract.bid, contract.ask, contract.name}
        /\ 1 <= contract.bid /\ contract.bid <= contract.ask /\ contract.ask <= Cap

(* When the call is over its process is as well, and only a helper that    *)
(* succeeded is believed (_run_windows_helper, _terminate_process_tree).   *)
HelperEnded ==
  result # None =>
    /\ child # "running"
    /\ result.outcome = "read" => child = "exited" /\ output \notin {None, Broken}

(* The wait for the helper ends, whatever the helper does: it has a        *)
(* timeout, after which the helper is terminated (_run_windows_helper).    *)
WaitEnds == phase = "waiting" ~> phase \in {"collected", "done"}
=============================================================================
