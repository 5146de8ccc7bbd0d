------------------------------ MODULE MCBacktest ------------------------------
(* Finite instances of Backtest for TLC. *)
EXTENDS Backtest

Snapshot(ask, bid, depth) == [ask |-> ask, bid |-> bid, depth |-> depth]

(* Two that pay, one of them crossed and off the quantum; one without a    *)
(* bid and above the cap; one whose ask cannot be earned back.             *)
MCObservations ==
  {Snapshot(3, 4, 1), Snapshot(5, 9, None), Snapshot(14, None, 9), Snapshot(7, 12, 3)}

MCTimes == {-1, 0, 1, 2, 3, 5, 6}
===============================================================================
