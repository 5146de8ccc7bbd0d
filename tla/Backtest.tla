------------------------------- MODULE Backtest -------------------------------
(***************************************************************************)
(* Walk-forward backtests of one item (backtesting/engine.py,              *)
(* backtesting/evaluation.py, services/backtesting.py) over a history that *)
(* imports go on adding to, in any order of observed_at.                   *)
(*                                                                         *)
(* A backtest reads the snapshots once and stores nothing: report is what  *)
(* the last one returned, and read is the history at that time.            *)
(***************************************************************************)
EXTENDS RuleBasedV1

CONSTANTS
  Observations,     \* what imports may bring
  Times,            \* observed_at of a snapshot
  MaxSnapshots,     \* bound: no more are imported
  Start, End,       \* start_at, end_at
  Cadence,          \* cadence_days
  Forward,          \* forward_horizon_days; Horizon is the lookback
  RequireComplete   \* require_complete_forward_window

ASSUME BacktestAssumption ==
  /\ Observations \subseteq Observation
  /\ Times \subseteq Int
  /\ MaxSnapshots \in Nat
  /\ Start \in Int /\ End \in Int /\ Start <= End
  /\ Cadence \in Nat \ {0}
  /\ Forward \in Nat \ {0}
  /\ RequireComplete \in BOOLEAN

VARIABLES
  snapshots,  \* market_snapshots of the item: an observation for each time
  read,       \* history: snapshots as the last backtest found them
  report      \* its case for each cutoff, or None

vars == <<snapshots, read, report>>

-----------------------------------------------------------------------------
(* generate_cutoffs *)
Cutoffs == {c \in Start .. End : (c - Start) % Cadence = 0}

(* Wrong: the lookback of the first cutoff is not loaded. *)
LoadedFromStart(history) == Window(history, Start, End + Forward)

(* _list_snapshots of the backtest, and that of the analysis of an item. *)
Loaded(history) == Window(history, Start - Horizon, End + Forward)

AnalyzeItem(history, asOf) == Analyze(Window(history, asOf - Horizon, asOf), asOf)

(* Wrong: bisect_right at the end of the forward window. *)
LookbackAhead(rows, cutoff) == Window(rows, cutoff - Horizon, cutoff + Forward)

(* The slices that run_backtest cuts out with bisect. *)
Lookback(rows, cutoff) == Window(rows, cutoff - Horizon, cutoff)

(* Wrong: all later rows are evaluated. *)
FutureUnbounded(rows, cutoff) == Window(rows, cutoff + 1, End + Forward)

Future(rows, cutoff) == Window(rows, cutoff + 1, cutoff + Forward)

(* complete: the rows reach the end of the forward window. *)
Complete(rows, cutoff) == \E t \in DOMAIN rows : t >= cutoff + Forward

(* Reached at once, at the first of the times hits, or not at all. *)
Reach(atOnce, hits, cutoff) ==
  CASE atOnce -> [reached |-> TRUE, after |-> 0]
    [] ~ atOnce /\ hits # {} -> [reached |-> TRUE, after |-> Least(hits) - cutoff]
    [] ~ atOnce /\ hits = {} -> [reached |-> FALSE, after |-> None]

Unknown == [reached |-> None, after |-> None]

(* _reference_reach *)
ReferenceReach(analysis, cutoff, future) ==
  IF analysis.reference = None THEN Unknown
  ELSE Reach(analysis.bid # None /\ analysis.bid >= analysis.reference,
             {t \in Legal(future, "bid") : future[t].bid >= analysis.reference},
             cutoff)

(* Wrong: the bids after the first one are not looked at. *)
BreakEvenReachFirst(analysis, cutoff, future) ==
  LET legal == Legal(future, "bid")
  IN  IF analysis.ask = None THEN Unknown
      ELSE Reach(analysis.bid # None /\ SaleProceeds(analysis.bid) >= analysis.ask,
                 {t \in legal : t = Least(legal) /\ SaleProceeds(future[t].bid) >= analysis.ask},
                 cutoff)

(* _break_even_reach *)
BreakEvenReach(analysis, cutoff, future) ==
  IF analysis.ask = None THEN Unknown
  ELSE Reach(analysis.bid # None /\ SaleProceeds(analysis.bid) >= analysis.ask,
             {t \in Legal(future, "bid") : SaleProceeds(future[t].bid) >= analysis.ask},
             cutoff)

(* What a sale at price earns, when there is one. *)
Earned(analysis, price) ==
  IF price # None /\ analysis.ask # None THEN NetProfit(analysis.ask, price) ELSE None

(* evaluate_future_window *)
Evaluation(analysis, cutoff, future) ==
  LET legal    == Legal(future, "bid")
      bids     == {future[t].bid : t \in legal}
      terminal == LatestPrice(future, "bid")
      maximum  == IF legal = {} THEN None ELSE Latest(bids)
  IN  [bids      |-> Cardinality(legal),
       terminal  |-> terminal,
       maximum   |-> maximum,
       minimum   |-> IF legal = {} THEN None ELSE Least(bids),
       terminalProfit |-> Earned(analysis, terminal),
       maximumProfit  |-> Earned(analysis, maximum),
       reference |-> ReferenceReach(analysis, cutoff, future),
       breakEven |-> BreakEvenReach(analysis, cutoff, future)]

(* _run_case: the status, and the reason that comes with it. *)
CaseStatus(rows, cutoff, analysis) ==
  CASE analysis.status # "ok" -> "analysis_status_not_ok"
    [] analysis.status = "ok" /\ RequireComplete /\ ~ Complete(rows, cutoff)
         -> "future_window_incomplete"
    [] analysis.status = "ok" /\ (RequireComplete => Complete(rows, cutoff))
         /\ DOMAIN Future(rows, cutoff) = {} -> "no_future_observations"
    [] OTHER -> "evaluated"

Case(rows, cutoff) ==
  LET analysis == Analyze(Lookback(rows, cutoff), cutoff)
  IN  [status     |-> CaseStatus(rows, cutoff, analysis),
       analysis   |-> analysis,
       evaluation |-> Evaluation(analysis, cutoff, Future(rows, cutoff))]

RunBacktest(rows) == [c \in Cutoffs |-> Case(rows, c)]

(* _summarize: what its counts count.  Only evaluated cases are formal.    *)
(* The means and medians over them decide nothing and are left out.        *)
Summary(cases) ==
  LET formal     == {c \in Cutoffs : cases[c].status = "evaluated"}
      priced     == {c \in formal : cases[c].analysis.reference # None}
      entered    == {c \in formal : cases[c].analysis.ask # None}
      terminated == {c \in entered : cases[c].evaluation.terminal # None}
  IN  [ok |-> {c \in Cutoffs : cases[c].analysis.status = "ok"},
       evaluated          |-> formal,
       referenceEvaluable |-> priced,
       referenceReached   |-> {c \in priced : cases[c].evaluation.reference.reached},
       breakEvenEvaluable |-> entered,
       breakEvenReached   |-> {c \in entered : cases[c].evaluation.breakEven.reached},
       returnEvaluable    |-> terminated,
       positiveReturn     |-> {c \in terminated : cases[c].evaluation.terminalProfit > 0}]

-----------------------------------------------------------------------------
Init ==
  /\ snapshots = [t \in {} |-> None]
  /\ read = [t \in {} |-> None]
  /\ report = None

(* A snapshot is stored; another one for the same time never is. *)
Import(t, o) ==
  /\ Cardinality(DOMAIN snapshots) < MaxSnapshots
  /\ t \notin DOMAIN snapshots
  /\ snapshots' = [u \in DOMAIN snapshots \cup {t} |->
                     IF u = t THEN o ELSE snapshots[u]]
  /\ UNCHANGED <<read, report>>

(* backtest_item; without rows it raises, and there is no report. *)
Backtest ==
  /\ read' = snapshots
  /\ report' = IF DOMAIN Loaded(snapshots) = {} THEN None
               ELSE RunBacktest(Loaded(snapshots))
  /\ UNCHANGED snapshots

Next ==
  \/ \E t \in Times, o \in Observations : Import(t, o)
  \/ Backtest

Spec == Init /\ [][Next]_vars

-----------------------------------------------------------------------------
TypeOK ==
  /\ DOMAIN snapshots \subseteq Times
  /\ DOMAIN read \subseteq DOMAIN snapshots
  /\ \A t \in DOMAIN snapshots : snapshots[t] \in Observations
  /\ \A t \in DOMAIN read : read[t] = snapshots[t]

(* What has been imported between two backtests. *)
Arrived == DOMAIN read' \ DOMAIN read

(* A backtest does not look ahead: what the strategy says at a cutoff is   *)
(* still the same after any number of later snapshots (engine.py:52-69,    *)
(* the bisect bounds).                                                     *)
NoLookAhead ==
  [][\A c \in Cutoffs :
       report # None /\ report' # None /\ (\A t \in Arrived : t > c)
         => report'[c].analysis = report[c].analysis]_vars

(* A case that counts is settled: only snapshots that imports fill in      *)
(* between its lookback and the end of its forward window can change it    *)
(* (engine.py:111-133).                                                    *)
EvaluatedIsSettled ==
  [][\A c \in Cutoffs :
       /\ report # None /\ report' # None
       /\ report[c].status = "evaluated"
       /\ \A t \in Arrived : t < c - Horizon \/ t > c + Forward
       => report'[c] = report[c]]_vars

(* A backtest sees at a cutoff what the analysis of the item would have    *)
(* said then: the rows it loads are enough for its first lookback          *)
(* (services/backtesting.py:81-82, services/analysis.py:65).               *)
CasesMatchAnalysis ==
  report # None =>
    \A c \in Cutoffs : report[c].analysis = AnalyzeItem(read, c)

(* The bids a case can sell at, the current one included. *)
BestBid(case) ==
  Latest({0} \cup ({case.analysis.bid, case.evaluation.maximum} \ {None}))

(* The break-even price that the strategy reports and the break-even that  *)
(* the evaluation looks for bid by bid are the same, although one is a     *)
(* search among prices and the other compares proceeds: it is reached when *)
(* a bid is at the price, and only when one is less than a quantum below   *)
(* (fees.py:91-114, evaluation.py:155-171).                                *)
BreakEvenAgrees ==
  report # None =>
    \A c \in Cutoffs :
      LET case    == report[c]
          reached == case.evaluation.breakEven.reached
      IN  CASE case.analysis.reachable = None -> reached = None
            [] case.analysis.reachable = FALSE -> reached = FALSE
            [] case.analysis.reachable = TRUE ->
                 /\ BestBid(case) >= case.analysis.breakEven => reached
                 /\ reached => BestBid(case) > case.analysis.breakEven - Quantum

(* The profits agree with the break-even as well: the reference price pays *)
(* exactly when it is not below the break-even price, and a case that ends *)
(* without a loss has reached break-even by then.  So the rates of the     *)
(* summary are over the right cases: every evaluated case can break even   *)
(* or not, and each return that counts as positive, or reference price     *)
(* that pays and is reached, is among the break-evens that are reached     *)
(* (rule_based_v1.py:125-152, evaluation.py:78-104, engine.py:220-268).    *)
ProfitsAgree ==
  report # None =>
    /\ \A c \in Cutoffs :
         LET analysis == report[c].analysis
             outcome  == report[c].evaluation
         IN  /\ analysis.netProfit # None =>
                   (analysis.netProfit >= 0
                      <=> analysis.breakEven # None /\ analysis.reference >= analysis.breakEven)
             /\ outcome.terminalProfit # None =>
                   /\ outcome.terminalProfit <= outcome.maximumProfit
                   /\ outcome.terminalProfit >= 0 => outcome.breakEven.reached
                   /\ outcome.maximumProfit >= 0 => outcome.breakEven.reached
    /\ LET s == Summary(report)
       IN  /\ s.breakEvenEvaluable = s.evaluated
           /\ s.evaluated \subseteq s.ok
           /\ s.positiveReturn \subseteq s.breakEvenReached
           /\ \A c \in s.referenceReached :
                report[c].analysis.netProfit >= 0 => c \in s.breakEvenReached

(* What docs/backtesting.md:68-78 says: a case is left out as incomplete   *)
(* only if the snapshots of the item do not cover its forward window.      *)
(* Snapshots after the last window are not loaded, so the rows never       *)
(* reach past its end.                                                     *)
IncompleteIsUncovered ==
  report # None =>
    \A c \in Cutoffs :
      report[c].status = "future_window_incomplete" => ~ Complete(read, c)

=============================================================================
