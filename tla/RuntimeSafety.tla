--------------------------- MODULE RuntimeSafety ---------------------------
(***************************************************************************)
(* The kill switch (execution/safety.py) and the persisted run state it    *)
(* shares with the runner (database/state_service.py).                     *)
(***************************************************************************)
EXTENDS TradeService

VARIABLES
  killActive,   \* KillSwitch._active, in the memory of the process
  killStored,   \* runtime_state["kill_switch_active"] = "true"
  processed     \* candles with a ProcessedCycle row

safetyVars == <<killActive, killStored, processed>>

SafetyInit ==
  /\ killActive = FALSE
  /\ killStored = FALSE
  /\ processed = {}

\* Variant for the sensitivity check: a new process starts unlatched.
StartUnlatched ==
  /\ killActive' = FALSE
  /\ UNCHANGED <<killStored, processed>>

\* KillSwitch.__init__ of a new process.
LoadKillSwitch ==
  /\ killActive' = killStored
  /\ UNCHANGED <<killStored, processed>>

\* activate sets the memory first ...
LatchInMemory ==
  /\ killActive' = TRUE
  /\ UNCHANGED <<killStored, processed>>

\* ... and commits the reason and then the flag; only the flag is read back.
StoreLatch ==
  /\ killStored' = TRUE
  /\ UNCHANGED <<killActive, processed>>

\* reset, run by the operator outside the runner: a running process keeps
\* its own memory of the latch.
OperatorReset ==
  /\ killStored
  /\ killStored' = FALSE
  /\ UNCHANGED <<killActive, processed>>

\* record_cycle: the row is unique per candle.
RecordCycle(candle) ==
  /\ candle \notin processed
  /\ processed' = processed \cup {candle}
  /\ UNCHANGED <<killActive, killStored>>
=============================================================================
