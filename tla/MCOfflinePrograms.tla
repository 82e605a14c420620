-------------------------- MODULE MCOfflinePrograms --------------------------
(* Values of the constants for TLC.                                        *)
EXTENDS OfflinePrograms

OneFifth == [num |-> 1, den |-> 5]
ThreeHalves == [num |-> 3, den |-> 2]

MCShapes ==
  {[open |-> 4, high |-> 6, low |-> 4, close |-> 6],
   [open |-> 6, high |-> 6, low |-> 3, close |-> 3]}

MCCostModels ==
  {[commission |-> 0, slippage |-> 0, funding |-> 0],
   [commission |-> 4, slippage |-> 5, funding |-> 1]}
=============================================================================
