----------------------------- MODULE FrozenStore -----------------------------
(***************************************************************************)
(* What the frozen market data promise, without files: a snapshot appears  *)
(* whole and once, a bundle appears once and takes one snapshot for every  *)
(* timeframe out of those that exist, and whoever loads the bundle gets    *)
(* the candles of just these.                                              *)
(***************************************************************************)
CONSTANTS Names, Timeframes, Versions

VARIABLES
  snapshots,    \* the snapshots there are, as [name, table]
  bundle,       \* those the bundle is composed of, none before it is
  answer        \* the tables that the last load returned

vars == <<snapshots, bundle, answer>>

Tables == [timeframe : Timeframes, version : Versions]

Init == snapshots = {} /\ bundle = {} /\ answer = {}

Freeze(n, table) ==
  /\ \A s \in snapshots : s.name # n
  /\ snapshots' = snapshots \cup {[name |-> n, table |-> table]}
  /\ UNCHANGED <<bundle, answer>>

OnePerTimeframe(choice) ==
  \A tf \in Timeframes : \E s \in choice :
    /\ s.table.timeframe = tf
    /\ \A r \in choice : r.table.timeframe = tf => r = s

Compose(choice) ==
  /\ bundle = {}
  /\ OnePerTimeframe(choice)
  /\ bundle' = choice
  /\ UNCHANGED <<snapshots, answer>>

Load ==
  /\ OnePerTimeframe(bundle)
  /\ answer' = {s.table : s \in bundle}
  /\ UNCHANGED <<snapshots, bundle>>

Next ==
  \/ \E n \in Names, table \in Tables : Freeze(n, table)
  \/ \E choice \in SUBSET snapshots : Compose(choice)
  \/ Load

Spec == Init /\ [][Next]_vars
=============================================================================
