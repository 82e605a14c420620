---------------------------- MODULE OfflinePrograms ----------------------------
(***************************************************************************)
(* The programs and calculations that share no state with each other, side *)
(* by side: a behaviour is one of them, and the others stay at rest.       *)
(***************************************************************************)
EXTENDS SignalBacktest, PositionSizing, CandleDownload, SnapshotStore

VARIABLE program    \* the one that runs

offline_vars == <<program, signal_vars, sizing_vars, download_vars, store_vars>>

Programs == {"SIGNALS", "SIZING", "DOWNLOAD", "STORE"}

Init ==
  /\ program \in Programs
  /\ SignalInit /\ SizingInit /\ DownloadInit /\ StoreInit

Signals ==
  /\ program = "SIGNALS" /\ SignalNext
  /\ UNCHANGED <<program, sizing_vars, download_vars, store_vars>>

Sizing ==
  /\ program = "SIZING" /\ SizingNext
  /\ UNCHANGED <<program, signal_vars, download_vars, store_vars>>

Download ==
  /\ program = "DOWNLOAD" /\ DownloadNext
  /\ UNCHANGED <<program, signal_vars, sizing_vars, store_vars>>

Store ==
  /\ program = "STORE" /\ StoreNext
  /\ UNCHANGED <<program, signal_vars, sizing_vars, download_vars>>

Next == Signals \/ Sizing \/ Download \/ Store

Spec == Init /\ [][Next]_offline_vars
=============================================================================
