# TLA+ models of gaijin-market-analytics

This directory specifies the parts of the market analytics project whose
correctness depends on order: the local recognition API (reviews, extension
pairing, uploads), the OCR helper it calls, the page that follows it, the CSV
import, and the analysis and backtesting of what was imported. Each module is
translated from the source it names; `PROJECT.json` maps every definition to its lines. TLC checks
small instances, TLAPS proves the main properties for all of them.

Sources are named relative to `src/`. `api/` stands for
`apps/api/src/api/`, `analytics/` for
`packages/analytics/src/gaijin_market_analytics/`, `web/` for `apps/web/`.

## 1. Inventory

The project is a FastAPI process, a PostgreSQL database, a Next.js web
application, an analytics library, and command line tools for screenshot
recognition. A browser extension is outside the repository; only the endpoints
it talks to are here.

| Component | State | Operations | What is hard |
|---|---|---|---|
| Review store (`api/services/local_recognition_store.py`) | records by review id, under one lock; the clock | create, mark recognized or failed, patch, confirm, reject, unreadable, delete, clear, list; every call first expires and evicts | capacity, expiry between two calls of a request, late results |
| Review workflow (`api/services/local_recognition.py`, `api/routers/local_recognition.py`) | the draft and its provenance, inside the record | PATCH and confirm: a read, a computation (with an await in confirm), a write | a write that was computed from an older record |
| OCR background task (`process_review_image`) | the temporary image | recognise, mark, delete the image | exceptions at any point, a record that has gone meanwhile |
| Extension pairing store (`api/services/local_extension_pairing.py`) | pairing codes, pairings, under one lock | create a code, pair, authenticate, revoke, list | the clock is read before the lock is taken; one-time use, limits |
| Extension token buckets (same file) | one bucket for each client, one global, one for each pairing | consume | float time, bursts, a clock read early |
| Extension upload (`create_extension_review`) | capture reservations, the temporary file, the review, the task | admit, validate, reserve or wait, create, bind, roll back | duplicates in flight, waiting on the event loop's own thread, partial failure |
| CSV import (`api/services/csv_import.py`, `api/importers/csv_market_data.py`) | items, snapshots, import jobs in PostgreSQL; advisory locks | import, report a duplicate, record a failure | transactions that overlap, ON CONFLICT, deadlock, rollback |
| Review workspace (`web/app/screen-recognition/screen-recognition-workspace.tsx`) | selected review, form, dirty and conflict marks, polls in flight | poll, select, edit, save, confirm, reject | answers that arrive late, effects that run again |
| OCR helper process (`api/screen_recognition/ocr_backend.py`, `ocr_batch.py`, `windows_ocr.ps1`) | a child process, its batch of requests | detect, prepare, start, write, collect, time out, end | images shared by several requests, answers in any order or missing, timeout against answer |
| OCR candidates and parsing (`api/screen_recognition/ocr_candidates.py`, `parser.py`, `price_cells.py`, `item_titles.py`) | none | find the cells of the prices and the title, choose a value among the readings of a field, check the result | thresholds and rounding of pixels, conflicts between sources, a misread that looks confirmed |
| Analytics strategies (`analytics/`) | none | fees, horizons, statistics, rule_based_v1 | rounding, missing data |
| Backtesting (`analytics/backtesting/`, `api/services/backtesting.py`) | the snapshots one query has loaded | decide at each cutoff, evaluate what followed, summarise | look-ahead, edges of the windows, imports between two backtests |
| Recognition runs and evaluation (`api/screen_recognition/` runner, paired_runner, evaluate, comparison) | files of a run | run, compare, report | order in which files are written |
| Items and analysis API, import and market pages, configuration | none of their own | one read or one form each | little |

How they interact. The extension pairs with a code that the web page shows
(pairing store), uploads a screenshot with its token (upload), which reserves
the capture, creates a review (review store) and hands the image to the OCR
task, which fills in the draft (workflow). The reviewer edits and confirms it
in the workspace, which polls the API. CSV imports are separate: they put items
and snapshots into PostgreSQL, which the items, analysis and backtesting code
reads; confirmation of a review reads one item. All state of the local
recognition API is in memory, so that a restart starts from nothing; the only
thing that outlives the process is a temporary image.

How it runs. `api/main.py:78` starts one process with one event loop.
`async` handlers share that loop and are interrupted only at an `await`;
plain `def` handlers and background tasks run in threads. The tests
(`apps/api/tests/test_local_extension_bridge.py:295`) start requests from a
thread pool, each with a loop of its own. The models of the upload and of the
buckets have a constant `OneLoop` for this difference.

What makes each component correct, and the lines where it can go wrong, are the
`hazards` of `PROJECT.json`, each with the properties that would catch it.

## 2. Modules

| Module | What it models |
|---|---|
| `ReviewStateMachine` | abstract: the statuses of a review and the moves between them |
| `ReviewStore` | the review store under concurrent requests and OCR tasks |
| `ReviewDraft` | how one draft becomes a candidate: provenance, identity, observed_at |
| `PairingStore` | codes, pairings and tokens under calls with old times |
| `TokenBucket` | the rate limits in integer arithmetic, on a clock finer than a second |
| `ExtensionUpload` | the upload handler between its store calls; it joins the reservations of the pairing store, the capacity of the review store and the image file |
| `ReviewWorkspace` | the review page: loads, effects and timers against a reviewer who edits |
| `ImportLedger` | abstract: imports that take effect in one step |
| `CsvImport` | the imports statement by statement against PostgreSQL |
| `MarketFees` | fees, their rounding and the break-even price, as operators |
| `RuleBasedV1` | the strategy `rule_based_v1`: the decision on a window of snapshots |
| `Backtest` | imports and backtests in any order: the query, the cutoffs, the cases and the summary; it uses the two above |
| `PriceCells` | where the price cells and the title bar are on a screenshot, as geometry |
| `OcrCandidates` | the choice of prices and quantities from OCR texts, and the checks of the result |
| `OcrHelper` | one call that reads a screenshot: detection, batch, helper process, timeout, result; it uses the two above |
| `MC...` | constants and symmetry for TLC |
| `...Proofs` | theorems and proofs of the module they are named after; `LocalExtensionPairingProofs` those of `PairingStore` and `TokenBucket`, the two halves of one class |

`ReviewStore` is shown to implement `ReviewStateMachine`, and `CsvImport` to
implement `ImportLedger`, each with `INSTANCE ... WITH` and a refinement mapping.

### ReviewStore

Each store call holds the lock throughout and is one action; every call first
runs `_cleanup_locked`, which is `Aged` (expiry of live reviews) or `Swept`
(also eviction), as the call's arguments have it. PATCH and confirm are two actions each,
`PatchRead`/`PatchWrite` and `ConfirmRead`/`ConfirmWrite`, with the draft they
have computed in between in `patch` and `confirm`; `ConfirmAbort` is a refusal
after the item query. The OCR task is `TaskStep`: a result, a result for a
record that is no longer processing, an exception, and the `finally` that
deletes the image. A draft is a function from fields to values.

- `ConfirmedIsUnedited`: a review that is `confirmed`, not
  `confirmed_with_edits`, carries what OCR read. The edited fields are
  computed from the record that was read before the await
  (`local_recognition.py:350`).
- `FinalIsFrozen`, `NothingDecidedLate`, `EvidenceKept`: what is decided stays,
  nothing is decided after expiry, the OCR candidate is never altered by a
  write that was computed from an older record.
- `NoLiveEviction`: room is made only of expired reviews. That the limit holds
  (`CapacityRespected`) is proved.
- `FollowsStateMachine`: the refinement.
- `ProcessingEnds`, `ImageDeleted`: liveness. What they rest on is proved, and
  in no run (`TasksOutstanding`): a review in processing and an image on disk
  always have a task that has still to deal with them, also when the review was
  deleted, cleared, expired or refused meanwhile.

### ReviewDraft

One reviewer sends PATCH and confirm requests in any order and with any fields
set, null or left out. `Patch` is `patch_review_draft`, `Outcome` the chain of
checks of a confirmation, `Canonical` the replacement of the
draft's identity by the item that `Identity` (`_resolve_identity`) found. The
history of what the reviewer typed is kept only to state the properties: a name
OCR read never counts as a manual identity (`ManualIdentityIsTyped`), no review
is confirmed for a selected item while a key the reviewer sent is in force
(`OneIdentityMode`), a moved `observed_at` is marked, and a candidate without
edited fields is what OCR read.

### PairingStore

`Start` reads the clock, the operations take the lock later with the time in
`calls[q]`. `PairedProperly` and `OneTimeCode` say what a pairing comes from;
`SpentIsSpent` and `RevocationSticks` are action properties about records that
a stale call could bring back; `CodesBounded` counts the active codes on the
clock itself, although each call counted them with an older time. The limit on
pairings (`PairingsBounded`) is proved.

### TokenBucket

A token is `Minute` units, so that refills are integers. The code's clock is a
float; in the model it moves on by uneven steps of small ticks, `Second` of them
in a second, so that calls come at parts of a second that no rounding meets.
`since` and `count` open one window on one bucket at any moment and count what
it admits; `WindowBounded` is the bound of a token bucket, and `RetrySuffices`
says that whoever waits the `retry_after` of a refusal and a thousandth of a
second more is admitted if nobody else was. The thousandth is needed: the code
rounds up by adding 0.999 (`local_extension_pairing.py:80`), which rounds down
when the fraction is below 0.001, and `RetryIsEnough`, which does without it, is
violated in the instance of the run. With
`OneLoop = FALSE` `WindowBounded` fails: uploads that read the clock in one
order and take the lock in the other move `updated_at` back and are credited
the same time twice. The deployed process has one loop.

Note that `docs/local-extension-bridge.md:78` gives the limits per minute; a
bucket is full at first, so a minute may admit a full bucket and what it gains
in addition. `WindowBounded` is what holds.

### ExtensionUpload

`pc` goes through the statements of `create_extension_review` that touch
shared state: `Admit`, `Validate`/`Invalid`, `Reserve` or `FindReserved`,
`Look` and `TimeOut` of the waiter, `CreateReview`/`CreateFails`, `RollBack`,
`Bind`, `AnswerDuplicate`. `LoopFree` lets an upload step only if no other one
holds the loop. Around it, `Revoke`, `DeleteReview`, `ClearReviews`,
`ListPairings` (which cleans up) and `TaskEnds` run in threads.

- `FilesOwned`: every temporary file belongs to a request that will delete it
  or to a task.
- `OneReviewPerWindow` and `LoopNeverWaits`, with one loop: a capture is read
  once per window, and the handler never blocks the thread that would have to
  bind what it waits for.
- `NothingDangling`, `SameCapture`, `UploadAnswered`, with a loop per request:
  every unbound reservation has a request that binds it or rolls it back, a
  duplicate gets the review of its own capture, and every upload is answered.
- `NoLostWakeup`, proved and in no run: no upload sleeps on a capture that is
  bound already.

With a loop per request and a stall longer than the 20 s window,
`OneReviewPerWindow` fails: `rollback_capture` removes the reservation of
whoever holds the key by then. `LoopInv` is what excludes this on one loop.

### CsvImport and ImportLedger

`Lines` gives every file its rows, with cells abstracted to good, blank, bad
and `unstorable` (accepted by the parser, refused by the column).
PostgreSQL is external: `Visible` is what a READ COMMITTED statement sees,
`Blocker` whom an insert waits for, `InCycle` the deadlock detection, `RollBack`
takes back what the transaction inserted, and `DatabaseError` may end any
statement. `RecordFailure` and `RecordFails` are the second transaction, which
stores the failed job. In `ImportLedger` an import is one step, `Complete`,
`Duplicate` or `Fail`.

- `OneImportPerFile`: the advisory lock on the checksum.
- `EveryRowStored`: the rows of a completed import are in the database, also
  those it found there because of another import.
- `ReportIsTrue`: the warnings of a completed import (name mismatch, duplicate in
  the file, duplicate in the database) are exactly those due.
- `ImplementsLedger`: readers see each import whole or not at all.
- `ImportEnds`: every import ends, also when imports of files with the same
  items in opposite orders wait for each other.
- `NoStandstill`, proved and in no run: of imports that are not over, one can
  always go on (`GoesOn`).

### ReviewWorkspace

`load` is the load in progress, with the values of the render whose callback
started it (`of`), the requests that have no answer yet, and whether it was
aborted; it is `None` exactly when `polling.current` is off. `Effect` is the
effect that runs when `[capabilities, dirty, selectedReviewId]` have changed:
cleanup aborts the load in progress, and the new forced load returns at once if
that one still holds the flag. It follows the reviewer's `Select` and `Type` at once;
after an answer it is a step of its own, `Render`, so that timers and other
answers come in between. `ListAnswered`, `ReviewAnswered`, `Aborted`,
`ReviewGone`, `LoadFails` and `ApplyLoad` are the course of a load, `Send`,
`Serve...`, `Answer`, `AnswerError` and `CallFails` that of a request.
`ServerChange` is whatever others do to the reviews: OCR, another page, expiry.

- `SettledEditsKept`: once nothing under way will set the form (`Settled`: the
  effects have run, no request of the reviewer will change the review, and the
  load in progress knows of the edit and is not forced, or its abort is about
  to end it), nothing but the reviewer takes the edit away, whatever others do
  and however often the page polls; and an edit that interrupts a load whose
  first answers are still out is settled at once. It does not say that every
  edit is settled: one made while no load is in progress starts a forced load of
  its own, and one made after the first answers of a load meets that load. These
  are the next two.
- `DirtyLoadsKeepEdits` and `StaleLoadsKeepEdits`: what the workflow document
  says of polls, for loads that started after the edit and before it. Neither
  holds, and neither is in a run; see Findings.
- `Converges`: the page comes to show what the server has, unless there is an
  unsaved edit, although aborted loads still keep new ones from starting.

### Backtest, RuleBasedV1 and MarketFees

`Import` inserts a snapshot at a time no snapshot has (the database keeps one
for each item and time); `Backtest` is one `backtest_item`: the one query
(`Loaded`), then every cutoff on a slice of its rows (`Lookback`, `Future`).
`read` is what the database held when `report` was made. Prices are multiples
of a unit of which `Quantum` make the currency quantum, so that snapshots may be
off the quantum. `Reasons` and `Status` keep the order in which `rule_based_v1`
gives up: too few snapshots or a window they do not cover (`insufficient_data`),
then no legal ask or bid (`no_valid_price`), then a latest snapshot that is too
old (`no_recent_market`). Crossed prices, prices above the cap, a wide spread and
an unreachable break-even price are reasons that leave the status alone. `Analyze`
adds the prices, profit and break-even it returns. The strategy's scores are
modelled where a reason depends on them.

- `CasesMatchAnalysis`: each case is decided as the analysis page would have
  decided at its cutoff (`AnalyzeItem`, a query of its own), although the
  backtest cuts all its windows out of one query.
- `NoLookAhead`, `EvaluatedIsSettled`: two backtests with imports in between.
  A later snapshot changes no earlier decision; a snapshot after the forward
  window changes nothing of a case that was evaluated.
- `BreakEvenAgrees`, `ProfitsAgree`: the break-even price is found by division
  and a search, the evaluation compares proceeds after rounding. They agree, and
  so do the sets the summary counts.

### PriceCells, OcrCandidates and OcrHelper

A screenshot is a set of coloured blocks (the buttons), of rectangles of text
and of the boxes the truth is in. `PriceCells` follows `price_cells.py` step by
step with its rounding, in pixels: buttons, rows of text below a button,
groups of columns, the join of a fragmented price, the padding. Masks,
thresholds of colour and the pixels of letters are abstracted to the
rectangles.

`OcrCandidates` takes the text of a price as the tokens that the regular
expressions find in it: a number of hundredths, how its decimals are set off,
and whether its line starts with it (see the module). `SelectPrice` is the choice
between the summary and the first level, strict or under the policy of the
newer price cells; `ContractErrors` is `validate_screen_contract`.

In `OcrHelper`, `Init` chooses a recognizer as `get_recognizer` configures it,
and the policy of its caller. `Detect` runs the detectors; `StartBatch` and
`StartDrawing` build the requests, with the images that are alike sharing one
physical request, and start the process. `HelperWrites`, `HelperExits` and
`HelperFails` are the process, `Collect`, `TimedOut`, `Terminate`, `Reap` and
`Interrupt` are `_run_windows_helper`, and `Read` is everything between the
output and the parsed contract. `output` may be left half written (`Broken`).

- `CellsHoldPrices`: a detected cell holds the whole price or title and touches
  no label, except that a label may be touched that ends closer to the price than
  the least padding.
- `PaddingStaysClear`: without that exception, as the docstring of
  `_bounded_leading_padding` has it. It does not hold on large buttons; see
  Findings.
- `FourPrices`, `TitleAlone`: what the detectors promise of any screenshot,
  whatever its layout; proved, and in no run.
- `AnswersMatch`: a field's text was seen on one of its own images, and unless
  a warning says that answers are missing, it is the best of them; a title is
  read in the title bar where one is looked for.
- `MisreadIsNoticed`: with one of a price's two texts misread, the wrong price
  does not come out without a warning.
- `PriceChecked`: a contract without errors has both prices, in order and in
  range.
- `HelperEnded`, `WaitEnds`: no call leaves its process running or believes a
  process that failed, and every wait ends.

Two assumptions of `MCOcrHelper`, which TLC evaluates, check pure functions
over bounded inputs: `VariantsAreExact` (the cache of preprocessing steps gives
each variant the image it asks for) and `QuantitiesAreRead` (where a quantity
may come from).

## 3. Runs

| Run | Instance | Shows |
|---|---|---|
| `ReviewEdits` | 1 review, 1 PATCH, 2 confirms in flight, 2 fields, clock to 2 | a confirmed review without edits is what was read; what is decided stays, and nothing is decided late |
| `ReviewTasks` | 2 reviews, room for 1, 1 confirm, clock to 2, fair tasks | eviction, refinement, liveness |
| `ReviewDraft` | 1 key, 2 names, 2 items, 1 moved time | provenance, one identity mode, times and edits after every sequence of requests, without bound on their number |
| `PairingStore` | 3 codes, 2 pairings, 2 calls, limits 2 and 1, 2 guesses, clock to 2 | one-time use, the limit on codes, revocation |
| `TokenBucket` | 1 client, global, 1 pairing with 2 uploads in flight, a minute of 2 seconds of 10000 ticks, steps of 0.9991, 1.0001 and 1.001 s, clock to 3.003 s | the bounds of the buckets, and that `retry_after` is enough but for a millisecond |
| `UploadOneLoop` | 3 uploads of a capture from 2 pairings, window 2, clock to 4 | the deployed configuration |
| `UploadLoops` | 2 uploads, a loop each, window 1, clock to 2, fair handlers | interleavings between any two store calls, liveness |
| `ReviewWorkspace` | 2 reviews, 2 texts, 1 request in flight, 3 actions of the reviewer, others or errors, fair loads | settled edits and the page's convergence |
| `CsvImports` | 3 requests over 4 files, fair statements | concurrent imports |
| `Backtest` | up to 4 snapshots of 4 kinds at 7 times, cutoffs 1 and 3 with windows of 2 each way, fee 1/2, quantum 2, cap 12 | look-ahead, agreement with the analysis, prices and profits |
| `OcrHelper` | 71 screenshots with buttons 20 or 60 pixels high, 9 recognizers, 3 ways for images to be alike, 12 price texts, 5 titles; one image or one crop misread, or one oddity in the output; fair wait | the OCR call |
| `UploadDuplicate` | 2 uploads, one loop | violation, see Findings |

Bounds and why they are enough. Clocks stop at `MaxTime`, which lets a record
or a reservation expire and a successor expire as well. `MaxActs` bounds in
`ReviewWorkspace` what the reviewer, the others and the network do; select,
edit and one change of the server are the shortest way to a conflict, and
loads, renders and timers are not counted. Its timer waits until new
capabilities are rendered (`Tick`), since it would otherwise fetch new ones
without end. Two requests in flight are the fewest that can act on one record
with stale data, a third (two confirms and a PATCH, three uploads) lets one
interfere with two that already interfere; the properties relate at most two of
them. A limit of one or two is reached and exceeded within three creations. In
`CsvImports` two files with the items in opposite orders make the deadlock, a
repeated row and an invalid line the warnings, an empty file the case without
rows; the third request makes duplicates of a file whose first import fails.
In `Backtest` the two windows overlap, the seven times lie before, on and after
every edge of them and outside what the query loads; the snapshots
pay, lose, miss a bid, are off the quantum or above the cap, and a fee of one
half makes every rounding happen at small prices. In `TokenBucket` the steps lie
on both sides of a second by less and by more than a thousandth, so that a
refused caller's missing part comes out just below, just above and well above
whole seconds; three steps fit, which is a refusal, its wait and one call more.
In `OcrHelper` a price or title is in one piece or in up to three; the label
before it ends at gaps of 4, 5 and 9 pixels with buttons 20 pixels high, where
the least padding is 4, and of 4, 5, 9 and 20 with buttons 60 pixels high, the size in
the repository's own tests, where it is 5; from a gap of 4 on two groups are
separate in both. One screenshot each lacks the buttons, the title or a
side, or is too low for the title; the texts are the truth, a digit
less, another digit, with another separator or none, above the cap, zero, several
numbers, a word, nothing. Misreading a single image or all images of a crop is
enough to defeat one of the two sources of a price; with both defeated nothing
can notice it, which `MisreadIsNoticed` grants.
Where a theorem exists the bound matters only for finding mistakes early.
`CHECK_DEADLOCK FALSE` stands only where every request may be done (CSV
imports).

Symmetry is used in the runs without liveness only, over identities that no
definition orders. TLC runs with the same definitions the proofs use: a `.cfg`
gives values to constants and replaces nothing.

Fairness. `ReviewStore`: weak fairness of `TaskStep`: the pool runs
each task, and OCR ends, be it by the helper's timeout. `ExtensionUpload`: weak
fairness of a request's own steps and of the tasks: the event loop runs a
coroutine that is ready, and a waiter wakes at its deadline by itself
(`Condition.wait` with a timeout); nobody is assumed to notify it. `CsvImport`:
weak fairness of each import's own statements: PostgreSQL grants a lock that is
free and breaks a cycle. `ReviewWorkspace`: weak fairness of rendering, of the
timer of a visible page (`tick` sets the next one whatever the load did), and
of the answers to what was sent. `OcrHelper`: weak fairness of the thread that
waits, whose `communicate` has a timeout; none of the helper, which may hang.
`taskkill` is taken to succeed: the second `communicate` has no timeout, so that
a process that cannot be killed would hold the call for ever. No fairness is
assumed of reviewers, of the extension, of the clock, or of errors.

The type invariants (`TypeOK`) are not among the runs' properties, since they
are proved, and neither are `EvidenceKept`, `PairedProperly`
and `SpentIsSpent`, which are theorems as well.

Every property of a passing run has a mutant in `PROJECT.json`: a slip of the
code (a dropped check, an off-by-one, a clean-up left out) that the run would
find. The mutated definitions stand beside the original ones, with a comment
that starts with "Wrong".

## 4. Proofs

Checked by TLAPS, for every value of the constants under the assumptions each
module names. The provers' leaves cite what they use.

- `ReviewStoreProofs`. `TypeOK` is inductive. `RecordStep` and `Effect` say
  what any step does to one record; the action properties `FinalIsFrozen`,
  `NothingDecidedLate`, `EvidenceKept`, `NoLiveEviction` and the refinement
  follow from them. `ConfirmedIsUnedited` is not inductive: what makes it true is
  `ReadsAreTrue`, that a confirm request in flight whose draft equals the OCR
  candidate it read was computed from the record's final OCR candidate, if
  that record is still pending. `TasksOutstanding` is inductive with the types:
  a task moves by its own steps alone, and a record comes into processing only
  together with its task.
- `ReviewDraftProofs`. `IdentityInv`: the provenance of each identity field
  says who set its present value, and a decided review has its candidate from
  a draft with that property. `OneIdentityMode` and `UneditedIsAsRead` follow
  from it: the checks of a confirmation and the edited fields are computed from
  the draft of that moment, so that a key the reviewer sent is still marked as
  hers, and no field differs when none is listed.
- `LocalExtensionPairingProofs`, codes and pairings. `PairingInv`: calls carry
  times of the past
  (`CallsInPast`), and each pairing is the one its code was consumed by
  (`MadeByConsumed`). `CodesInv` carries the bound on active codes: an active
  code at an older time is counted by whoever counts at that time, and a code
  that was not active at a time is not active later.
- `ExtensionUploadProofs`. `UploadInv` for any number of loops: what each
  request holds (`RequestOK`) and what each reservation means (`CaptureOK`).
  `LoopInv` for one loop adds that at most one request is past its await and
  that it still finds its own reservation. `LoopNeverWaits` and
  `OneReviewPerWindow` have the hypothesis `OneLoop`. `NoLostWakeup` has not: a
  request looks and falls asleep in one step (`FallsAsleep`), and the one step
  that binds a capture wakes all sleepers (`BindingWakes`).
- `LocalExtensionPairingProofs`, token buckets. `BucketInv` with `WindowInv`:
  what the window has
  admitted plus what is left is at most a full bucket plus the gain. `RetryInv`
  relates the promise to the level and the time of the last update. It has no
  hypothesis about rates or ticks: whatever part of a second the code's 0.999
  leaves out is less than a thousandth (`RoundedUp`), and what a bucket gains in
  the wait and a thousandth more is the missing part (`NearlyAToken`).
- `CsvImportProofs`. `ImportInv` = `TypeOK`, `LockInv` (who is past the lock
  holds it, and no completed job has that file), `StoreInv` (the rows an
  import has worked off are stored by it or by a committed import),
  `OriginInv` (what is stored comes from a row of the import that stored it),
  `ReportInv` (warnings against the rows worked off). The
  refinement follows from what a committing step does to the stored rows.
  `NoStandstill` needs `RowInv` (an import at a snapshot has a row left) and an
  argument about waiting: who cannot go on waits for an import that is not over
  either; of the sets of imports that wait only for each other the smallest is
  a circle (`CircleExists`), and PostgreSQL breaks circles. Infinitely many
  imports could wait one for the next, so `FinitelyMany` is needed here.
- `ReviewWorkspaceProofs`. `PageInv` = `TypeOK`, `LoadInv` (a load asks for and
  carries the review of the render it started in) and `CallInv`.
  `SettledEditsKept` needs `LoadInv`: a load that knows of the edit brings the
  selected review, so that the merge keeps the draft and the dirty mark, and
  with them the values the effect depends on (`StaysSettled`); one that is
  aborted ends at its first answers (`Harmless`).

- `BacktestProofs`. `ProceedsGrow` and `BreakEvenIsLeast` are about
  `MarketFees` for every fee, quantum and price: what the seller gets grows
  with the price, and one turn of the search suffices after the division is
  rounded up, so that the break-even price is the least that pays. `IInv` says
  that the report is the backtest of what was loaded from `read`;
  `CasesMatchAnalysis` follows because the slice of the query and the window of
  the analysis are the same part of the history, and `NoLookAhead` and
  `EvaluatedIsSettled` because a new snapshot outside a window leaves its part
  of the history as it is. `BreakEvenAgrees` and `ProfitsAgree` join the two
  parts: bids, reference and break-even price of a case are compared through
  `ProceedsGrow` and `BreakEvenIsLeast`, and what holds of each case carries
  over to the sets the summary counts.
- `OcrHelperProofs`. `HelperInv` = `ProcessInv` (phases, the process and the
  result go together), `RequestsInv` (each request stands for one with the same
  image, and no title is asked for outside a title bar where one is looked for),
  `OutputInv` (an answer to a request is what was seen on its image) and
  `ResultInv` (what was read is the reading of the output there still is). None
  of the properties is inductive alone: they speak of the result, which is
  computed in one step from answers that were written in another for requests
  made in a third. Beside it stand lemmas about the operators, for any texts:
  `FirstBest` is one of the texts and none scores higher (`BestIs`), a value
  that is selected stands in every source that offers any, or the disagreement
  is reported (`AmongChooses`), and a contract without errors has its prices in
  order and in range (`ContractHolds`). `AnswersMatch`, `PriceChecked` and
  `MisreadIsNoticed` follow from both halves. So the twelve texts of the run
  stand for all: whatever one of the two texts of a price is misread as, with
  however many tokens, the price comes out right, not at all or with a warning.
- `OcrHelperProofs`, the cells. `DetectedInv` says that the cells of a call are
  those of its screenshot; the rest is geometry, for any finite set of
  rectangles as text. Bands lie apart by more than the gap and miss nothing that
  is active (`Ordered`, `Lists`), so that every text of a row is within one
  group; the groups stand from left to right, those that are joined to a price
  are neighbours, and a padding stays below the room before the next group or is
  the least one. `FourPrices` and `TitleAlone` follow. A label closer than the
  least padding is what `FourPrices` leaves out: there the code promises
  nothing.

Assumptions are those named in the modules (limits are natural numbers, sets of
identities are disjoint, `None` is none of the values).
`OcrHelperAssumption` says besides what may be on
the screenshots: each price is a number with two decimals within the cap, the
same in the summary and in its order book; a title is a string, with a score
when it is legible; images of prices look like images of prices only; there is a
screenshot, its measures are natural numbers and its blocks and texts finitely
many. `FinitelyMany` (`CsvImport`) says that there are finitely many imports.
`RuleBasedAssumption` has `None` apart from the numbers and truth values that
stand beside it. Everything else, including the induction over steps, is proved.

Each of these modules but `OcrHelperProofs`, whose `HelperInv` holds what types
its theorems need, has a theorem that its module's `TypeOK` is an invariant
(`BucketsTypeOK` for one event loop).

Only model-checked: the liveness properties (`ProcessingEnds`, `ImageDeleted`,
`UploadAnswered`, `ImportEnds`, `Converges`, `WaitEnds`), since they rest on
fairness (of `ProcessingEnds`, `ImageDeleted` and `ImportEnds` the part without
fairness is proved: there is always a task left, or an import that can go on),
and `CellsHoldPrices`: which group of a row is the price and how close a label
stands is a matter of what a screenshot of this market looks like; it holds of
the screenshots of the run, not of every set of rectangles. What holds of every
one is `FourPrices` and `TitleAlone`. `VariantsAreExact` and `QuantitiesAreRead` are
evaluated over bounded inputs.

## 5. Findings

- `UploadDuplicate`: a duplicate upload whose first review was deleted or
  cleared within the window fails with HTTP 500, because `review_store.get`
  (`api/routers/local_recognition.py:237` and `:244`) raises and the handler
  re-raises it, until the reservation expires.
  `docs/local-extension-bridge.md:147` promises idempotent success.

Five more, each stated by a definition that is in no run; used as the property
of the run named, TLC finds it violated:

- `DirtyLoadsKeepEdits` (`ReviewWorkspace`): the first edit of a clean form is
  lost. It makes `dirty` true, `load` depends on `dirty`
  (`screen-recognition-workspace.tsx:119`), and the effect runs
  `load({ forceForm: true })` whenever `load` is a new function (`:122-125`). So a
  forced load starts after the edit, unless another load is just in progress,
  and sets the form from the server (`:104-107`).
  `docs/screen-recognition-review-workflow.md:209` says that the page "does not
  overwrite dirty form fields with poll results".
- `StaleLoadsKeepEdits` (`ReviewWorkspace`): a load that has its first answers
  before an edit, and waits for the extension status when the edit aborts it, sets
  the form all the same and clears the dirty mark, because the catch at `:92`
  swallows the abort as well. The same line of the document says otherwise.
- `PaddingStaysClear` (`OcrHelper`): the padding in front of a price crosses into
  the quantity or label before it, because its minimum, `round(0.08 * height)`,
  grows faster with the button than the gap from which two groups are separate,
  `round(0.05 * height)` and one more (`price_cells.py:274`, `:319`, `:594`). It
  does from buttons of 57 pixels on. The docstring at `price_cells.py:588` says
  "without crossing into the preceding label or quantity".
- `AssertionHolds` (`ReviewDraft`): a confirm request that sets `observed_at` to
  null passes the validation and fails on `assert draft.observed_at is not None`
  (`local_recognition_store.py:326`).
- `IncompleteIsUncovered` (`Backtest`): the query of a backtest loads nothing
  after the end of the last forward window (`api/services/backtesting.py:82`),
  and a window counts as covered only when a row lies at its end or later. So
  the last cutoff is skipped as `future_window_incomplete` unless a snapshot lies
  exactly at the end, although the item has later ones; `docs/backtesting.md:68-78`
  asks only that the item's dataset covers the window.

Smaller ones that no run states: a number that the CSV parser accepts and its
column does not hold fails the whole import (`csv_import.py:132`), where
`PROJECT_PLAN.md:15` says that invalid rows are quarantined; the review form cuts
`observed_at` to the minute (`review-validation.ts:226`), so that a
confirmation from the page marks it as edited; a selected review that has gone
lets every load of the page fail (404) until another one is selected; an
`observed_at` moved and put back keeps the
source `user_edited`; `invalid_row_count` counts invalid fields, two of which
may be in one row (`csv_import.py:127`); `retry_after` falls short by up to a
millisecond (`RetryIsEnough`), of which no document says anything; an integer
too large even with a decimal point put
in is taken as a price (`ocr_candidates.py:777`) where
`docs/screen-recognition-scale-robustness.md:127` bounds valid prices, and only
`validate_screen_contract` refuses it.

## 6. Not modelled

Formatting, logging, HTTP status texts, schemas and the checks of one request's
headers and bytes; the database schema beyond the constraints imports rely on;
the pixels of image processing and OCR itself, whose result is any of a set of texts; the legacy
OCR mode and the sidecar recognizer; the axis mapping; the strategy's risk and
confidence scores, and the means and medians of a backtest's summary, which
decide nothing; configuration and start-up. The Items API reads only and has
no model. The recognition runs, their comparison and evaluation are command
line tools that go once through a directory of screenshots. A process
that stops between writing an image and deleting it leaves the file; nothing in
the code looks for it at start.

## 7. Plan

Done, in this order: review store and drafts, pairing, upload, buckets, CSV
import, review workspace, backtest with strategy and fees, the OCR call with
price cells and candidates, each with its proofs.

Next:

1. `ReviewForm`: the fields of the page's form (`review-validation.ts`) and
   their way through PATCH and confirm, on top of `ReviewDraft`: what an
   untouched form sends back, and how the identity marks follow the edits.
2. `RecognitionRun`: paired runs, comparison and the order of a run's files.
3. `Items` pagination, the import form's reducer, the analysis panel's URL state.
