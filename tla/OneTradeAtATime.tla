-------------------------- MODULE OneTradeAtATime --------------------------
(***************************************************************************)
(* What the trading core promises about its ledger and the account: a      *)
(* record precedes its order; the account is flat and no record is active  *)
(* when a record is made; exposure arises only from the one order of the   *)
(* newest record, in its direction and at most in the sized quantity, and  *)
(* otherwise only shrinks; a record is FAILED only if its order did not    *)
(* execute.                                                                *)
(***************************************************************************)
EXTENDS Integers

CONSTANTS MaxTrades, MaxQty

VARIABLES
  ledger,     \* status and side of every record
  exposure,   \* side and size of the position
  sending     \* the record whose order may still execute, 0 for none

vars == <<ledger, exposure, sending>>

Ids == 1 .. MaxTrades
Directions == {"LONG", "SHORT"}

NoExposure == [side |-> "LONG", qty |-> 0]

Init ==
  /\ ledger = [t \in Ids |-> [status |-> "NONE", side |-> "LONG"]]
  /\ exposure = NoExposure
  /\ sending = 0

SetStatus(t, from, to) ==
  /\ ledger[t].status = from
  /\ ledger' = [ledger EXCEPT ![t] = [status |-> to, side |-> ledger[t].side]]

Submit(t, side) ==
  /\ exposure.qty = 0
  /\ \A u \in Ids : ledger[u].status \notin {"PENDING", "OPEN"}
  /\ ledger[t].status = "NONE"
  /\ \A u \in Ids : u < t => ledger[u].status # "NONE"
  /\ ledger' = [ledger EXCEPT ![t] = [status |-> "PENDING", side |-> side]]
  /\ sending' = t
  /\ UNCHANGED exposure

Execute(k) ==
  /\ sending # 0
  /\ sending' = 0
  /\ exposure.qty = 0
  /\ exposure' = [side |-> ledger[sending].side, qty |-> k]
  /\ UNCHANGED ledger

Lost ==
  /\ sending # 0
  /\ sending' = 0
  /\ UNCHANGED <<ledger, exposure>>

Confirm(t) ==
  /\ sending = 0
  /\ SetStatus(t, "PENDING", "OPEN")
  /\ UNCHANGED <<exposure, sending>>

Reject(t) ==
  /\ sending = 0
  /\ exposure.qty = 0
  /\ SetStatus(t, "PENDING", "FAILED")
  /\ UNCHANGED <<exposure, sending>>

Close(t) ==
  /\ SetStatus(t, "OPEN", "CLOSED")
  /\ UNCHANGED <<exposure, sending>>

Shrink(k) ==
  /\ k < exposure.qty
  /\ exposure' = IF k = 0 THEN NoExposure ELSE [side |-> exposure.side, qty |-> k]
  /\ UNCHANGED <<ledger, sending>>

Next ==
  \/ \E t \in Ids, side \in Directions : Submit(t, side)
  \/ \E k \in 1 .. MaxQty : Execute(k)
  \/ Lost
  \/ \E t \in Ids : Confirm(t) \/ Reject(t) \/ Close(t)
  \/ \E k \in 0 .. MaxQty : Shrink(k)

Spec == Init /\ [][Next]_vars
=============================================================================
