---------------------------- MODULE AIDecisions ----------------------------
(* The paid AI reviews of Strategy 2: the decision cache, the requests in    *)
(* doubt, the runs and their budget, all rows of one SQLite file, and the    *)
(* two programs that share it, the ENTRY collector and the full backtest.    *)
(* A program reviews the events of a frozen bundle in their order; events    *)
(* and cache keys are the numbers 1..KeyCount.                               *)
EXTENDS Integers, FiniteSets

CONSTANTS
  Runs,          \* run ids; each one fixes its program and its mode
  Collections,   \* the runs of the ENTRY collector; the others are full backtests
  LiveRuns,      \* the runs with --ai-live; the others replay the cache
  KeyCount,      \* reviews the bundle can call for
  EntryKeys,     \* the ENTRY reviews; the others are EXIT reviews
  MaxAttempts, MaxLiveCalls, MaxCost,   \* the configured limits
  Reserve,       \* cost of a call at its token ceilings
  MaxActive      \* programs the operator lets run at the same time

Keys == 1 .. KeyCount

ASSUME ProgramAssumption == Collections \subseteq Runs /\ LiveRuns \subseteq Runs
ASSUME KeyAssumption == KeyCount \in Nat /\ EntryKeys \subseteq Keys
ASSUME LimitAssumption ==
  /\ MaxAttempts \in Nat \ {0} /\ MaxLiveCalls \in Nat /\ MaxCost \in Nat
  /\ Reserve \in Nat \ {0} /\ MaxActive \in Nat

VARIABLES
  cache, pending,                     \* ai_decision_cache and ai_pending_requests, by key
  status, liveCalls, estimated,       \* ai_runs, by run
  pc, at, attempt, position, answer, usage,   \* locals of the program of each run
  records,                            \* what the program reports of each review
  doubt, dropped,                     \* reviews asked for whose answer never came: the call was cut
                                      \* off or timed out; or it failed with an error of the SDK
  sent, billed                        \* the provider's side, which no program sees

storeVars == <<cache, pending>>
ledgerVars == <<liveCalls, estimated>>
memoryVars == <<at, attempt, position, answer, usage>>
localVars == <<memoryVars, records>>
providerVars == <<doubt, dropped, sent, billed>>
vars == <<storeVars, status, ledgerVars, pc, localVars, providerVars>>

Answers == {"YES", "NO"}              \* APPROVE or EXIT, and REJECT or HOLD
RequestStates == {"NONE", "PENDING", "UNKNOWN", "FAILED", "COMPLETED"}
Unresolved == {"PENDING", "UNKNOWN"}
RunStates == {"NEW", "RUNNING", "COMPLETED", "INTERRUPTED", "FAILED"}
Endings == {"COMPLETED", "INTERRUPTED", "FAILED"}
Steps == {"next", "review", "reserve", "select", "upsert", "send", "answer", "persist",
          "reconcile", "lost", "retry", "give_up"}
Reports == Answers \cup {"MISSING", "UNKNOWN", "ERROR"}

Key(r) == at[r]
Goto(r, step) == pc' = [pc EXCEPT ![r] = step]
Active == {r \in Runs : pc[r] # "off"}

Init ==
  /\ cache = [k \in Keys |-> "NONE"] /\ pending = [k \in Keys |-> "NONE"]
  /\ status = [r \in Runs |-> "NEW"]
  /\ liveCalls = [r \in Runs |-> 0] /\ estimated = [r \in Runs |-> 0]
  /\ pc = [r \in Runs |-> "off"] /\ at = [r \in Runs |-> 1] /\ attempt = [r \in Runs |-> 1]
  /\ position = [r \in Runs |-> FALSE]
  /\ answer = [r \in Runs |-> "NO"] /\ usage = [r \in Runs |-> 0]
  /\ records = [r \in Runs |-> [k \in Keys |-> "MISSING"]]
  /\ doubt = {} /\ dropped = {} /\ sent = [r \in Runs |-> 0] /\ billed = [r \in Runs |-> 0]

(***************************************************************************)
(* A program starts, or resumes from the first event with the cache of its *)
(* earlier life; only completed runs are refused. NEW is a run without a   *)
(* row, or with one that is still CREATED.                                 *)
(***************************************************************************)
Start(r) ==
  /\ pc[r] = "off" /\ Cardinality(Active) < MaxActive
  /\ status[r] # "COMPLETED"
  /\ status' = [status EXCEPT ![r] = "RUNNING"]
  /\ Goto(r, "next")
  /\ records' = [records EXCEPT ![r] = [k \in Keys |-> "MISSING"]]
  /\ UNCHANGED <<storeVars, ledgerVars, memoryVars, providerVars>>

\* The locals of a review end with it.
ForgetReview(r) ==
  /\ attempt' = [attempt EXCEPT ![r] = 1]
  /\ answer' = [answer EXCEPT ![r] = "NO"] /\ usage' = [usage EXCEPT ![r] = 0]

\* The process is gone, and its memory with it.
Exit(r) ==
  /\ Goto(r, "off")
  /\ ForgetReview(r)
  /\ at' = [at EXCEPT ![r] = 1] /\ position' = [position EXCEPT ![r] = FALSE]

\* The status write that follows the work.
EndRun(r) ==
  /\ pc[r] \in Endings
  /\ status' = [status EXCEPT ![r] = pc[r]]
  /\ Exit(r)
  /\ UNCHANGED <<storeVars, ledgerVars, records, providerVars>>

(***************************************************************************)
(* How the two programs go from review to review.                          *)
(***************************************************************************)
\* The collector is always flat; the backtest asks for an entry when it is
\* flat and for an exit when it holds a position.
Relevant(r) ==
  IF r \in Collections THEN Key(r) \in EntryKeys ELSE (Key(r) \in EntryKeys) = ~position[r]

Report(r, report, step) ==
  /\ ForgetReview(r)
  /\ records' = [records EXCEPT ![r][Key(r)] = report]
  /\ at' = [at EXCEPT ![r] = @ + 1]
  /\ Goto(r, step)

\* A review returned a decision.
Decide(r, decision) ==
  /\ Report(r, decision, "next")
  /\ position' = [position EXCEPT ![r] =
       r \notin Collections /\ (Key(r) \in EntryKeys) = (decision = "YES")]

\* A review raised: the collector goes on; the backtest keeps its position
\* without an EXIT decision but cannot continue without an ENTRY decision.
CanContinue(r) == r \in Collections \/ Key(r) \notin EntryKeys
Unavailable(r, report) ==
  /\ Report(r, report, IF CanContinue(r) THEN "next" ELSE "FAILED")
  /\ UNCHANGED position

\* Variant for the sensitivity check: a review without budget is asked for again.
BudgetIsAwaited(r) == Goto(r, "next") /\ UNCHANGED localVars

\* A review raised because of the budget, which also ends a collection.
OutOfBudget(r) ==
  IF r \in Collections
  THEN Report(r, "ERROR", "INTERRUPTED") /\ UNCHANGED position
  ELSE Unavailable(r, "ERROR")

Finish(r) ==
  /\ pc[r] = "next" /\ at[r] = KeyCount + 1
  /\ Goto(r, "COMPLETED")
  /\ UNCHANGED <<storeVars, status, ledgerVars, localVars, providerVars>>

SkipEvent(r) ==
  /\ pc[r] = "next" /\ Key(r) \in Keys /\ ~Relevant(r)
  /\ at' = [at EXCEPT ![r] = @ + 1]
  /\ UNCHANGED <<storeVars, status, ledgerVars, pc, attempt, position, answer, usage, records,
                 providerVars>>

\* Variant for the sensitivity check: a request of a dead program is not in doubt.
OnlyTimeoutsInDoubt(k) == pending[k] = "UNKNOWN" /\ cache[k] = "NONE"

\* The collector does not even ask about a request in doubt.
KnownInDoubt(k) == pending[k] \in Unresolved /\ cache[k] = "NONE"

SkipInDoubt(r) ==
  /\ pc[r] = "next" /\ Key(r) \in Keys /\ Relevant(r)
  /\ r \in Collections /\ KnownInDoubt(Key(r))
  /\ Report(r, "UNKNOWN", "next")
  /\ UNCHANGED <<storeVars, status, ledgerVars, position, providerVars>>

AskReview(r) ==
  /\ pc[r] = "next" /\ Key(r) \in Keys /\ Relevant(r)
  /\ ~(r \in Collections /\ KnownInDoubt(Key(r)))
  /\ Goto(r, "review")
  /\ UNCHANGED <<storeVars, status, ledgerVars, localVars, providerVars>>

(***************************************************************************)
(* One review.                                                             *)
(***************************************************************************)
CacheHit(r) ==
  /\ pc[r] = "review" /\ cache[Key(r)] # "NONE"
  /\ Decide(r, cache[Key(r)])
  /\ UNCHANGED <<storeVars, status, ledgerVars, providerVars>>

ReplayMiss(r) ==
  /\ pc[r] = "review" /\ cache[Key(r)] = "NONE" /\ r \notin LiveRuns
  /\ Unavailable(r, "MISSING")
  /\ UNCHANGED <<storeVars, status, ledgerVars, providerVars>>

LiveMiss(r) ==
  /\ pc[r] = "review" /\ cache[Key(r)] = "NONE" /\ r \in LiveRuns
  /\ Goto(r, "reserve")
  /\ UNCHANGED <<storeVars, status, ledgerVars, localVars, providerVars>>

\* Variant for the sensitivity check: limits compared without the new call.
NotYetOverBudget(r) == liveCalls[r] <= MaxLiveCalls /\ estimated[r] <= MaxCost

WithinBudget(r) == liveCalls[r] + 1 <= MaxLiveCalls /\ estimated[r] + Reserve <= MaxCost

Authorize(r) ==
  /\ pc[r] = "reserve" /\ WithinBudget(r)
  /\ liveCalls' = [liveCalls EXCEPT ![r] = @ + 1]
  /\ estimated' = [estimated EXCEPT ![r] = @ + Reserve]
  /\ Goto(r, "select")
  /\ UNCHANGED <<storeVars, status, localVars, providerVars>>

\* An UPDATE of the key's row, which does nothing when there is none.
Mark(k, state) ==
  pending' = [pending EXCEPT ![k] = IF @ = "NONE" THEN "NONE" ELSE state]

\* The handler marks the row FAILED although this attempt made no request.
BudgetStop(r) ==
  /\ pc[r] = "reserve" /\ ~WithinBudget(r)
  /\ Mark(Key(r), "FAILED")
  /\ OutOfBudget(r)
  /\ UNCHANGED <<cache, status, ledgerVars, providerVars>>

\* mark_pending reads the row and writes it in two steps.
Blocks(k) == pending[k] \in Unresolved

CheckPending(r) ==
  /\ pc[r] = "select" /\ ~Blocks(Key(r))
  /\ Goto(r, "upsert")
  /\ UNCHANGED <<storeVars, status, ledgerVars, localVars, providerVars>>

BlockedPending(r) ==
  /\ pc[r] = "select" /\ Blocks(Key(r))
  /\ Unavailable(r, "ERROR")
  /\ UNCHANGED <<storeVars, status, ledgerVars, providerVars>>

RecordPending(r) ==
  /\ pc[r] = "upsert"
  /\ pending' = [pending EXCEPT ![Key(r)] = "PENDING"]
  /\ Goto(r, "send")
  /\ UNCHANGED <<cache, status, ledgerVars, localVars, providerVars>>

Send(r) ==
  /\ pc[r] = "send"
  /\ sent' = [sent EXCEPT ![r] = @ + 1]
  /\ Goto(r, "answer")
  /\ UNCHANGED <<storeVars, status, ledgerVars, localVars, doubt, dropped, billed>>

(***************************************************************************)
(* What becomes of a request. A call never costs more than its reserve: the *)
(* input is bounded by its bytes, the output by max_output_tokens. A usage  *)
(* that is not reported leaves the reserve in place.                        *)
(***************************************************************************)
Bill(r, charge) == billed' = [billed EXCEPT ![r] = @ + charge]

Answered(r) ==
  /\ pc[r] = "answer"
  /\ \E decision \in Answers, charge \in 1 .. Reserve :
       /\ answer' = [answer EXCEPT ![r] = decision]
       /\ \E reported \in {charge, Reserve} : usage' = [usage EXCEPT ![r] = reported]
       /\ Bill(r, charge)
  /\ Goto(r, "persist")
  /\ UNCHANGED <<storeVars, status, ledgerVars, at, attempt, position, records, doubt, dropped,
                 sent>>

MayBeBilled(r) == \E charge \in 0 .. Reserve : Bill(r, charge)

\* An answer that does not follow the schema, that cannot be saved, or an error
\* that is not worth a retry.
Unusable(r) ==
  /\ pc[r] = "answer" /\ MayBeBilled(r)
  /\ Goto(r, "give_up")
  /\ UNCHANGED <<storeVars, status, ledgerVars, localVars, doubt, dropped, sent>>

\* A rate limit or a server error.
\* Variant for the sensitivity check: one attempt too many.
PastLastAttempt(r) == attempt[r] > MaxAttempts

LastAttempt(r) == attempt[r] = MaxAttempts
Refused(r) ==
  /\ pc[r] = "answer" /\ MayBeBilled(r)
  /\ Goto(r, IF LastAttempt(r) THEN "give_up" ELSE "retry")
  /\ UNCHANGED <<storeVars, status, ledgerVars, localVars, doubt, dropped, sent>>

\* A timeout or a lost connection: the provider may have worked and charged.
\* The client adds no translation, so the error is the SDK's own, of no class
\* that is known to leave the answer open, and without a status that allows a
\* retry; only a client that raises Python's errors, as those of the tests do,
\* has its losses recognised.
Lost(r) ==
  /\ pc[r] = "answer" /\ MayBeBilled(r)
  /\ \/ /\ doubt' = doubt \cup {Key(r)} /\ UNCHANGED dropped
        /\ Goto(r, "lost")
     \/ /\ dropped' = dropped \cup {Key(r)} /\ UNCHANGED doubt
        /\ Goto(r, "give_up")
  /\ UNCHANGED <<storeVars, status, ledgerVars, localVars, sent>>

(***************************************************************************)
(* What the review does about it.                                          *)
(***************************************************************************)
\* INSERT OR IGNORE of the decision and the end of the request, one transaction.
Persist(r) ==
  /\ pc[r] = "persist"
  /\ cache' = [cache EXCEPT ![Key(r)] = IF @ = "NONE" THEN answer[r] ELSE @]
  /\ Mark(Key(r), "COMPLETED")
  /\ Goto(r, "reconcile")
  /\ UNCHANGED <<status, ledgerVars, localVars, providerVars>>

ReconcileUsage(r) ==
  /\ pc[r] = "reconcile"
  /\ estimated' = [estimated EXCEPT ![r] = @ + usage[r] - Reserve]
  /\ Decide(r, answer[r])
  /\ UNCHANGED <<storeVars, status, liveCalls, providerVars>>

\* Variant for the sensitivity check: a timeout is an exception like the others.
MarkTimeoutFailed(r) ==
  /\ pc[r] = "lost"
  /\ Mark(Key(r), "FAILED")
  /\ Unavailable(r, "UNKNOWN")
  /\ UNCHANGED <<cache, status, ledgerVars, providerVars>>

MarkUnknown(r) ==
  /\ pc[r] = "lost"
  /\ Mark(Key(r), "UNKNOWN")
  /\ Unavailable(r, "UNKNOWN")
  /\ UNCHANGED <<cache, status, ledgerVars, providerVars>>

Retry(r) ==
  /\ pc[r] = "retry"
  /\ Mark(Key(r), "FAILED")
  /\ attempt' = [attempt EXCEPT ![r] = @ + 1]
  /\ Goto(r, "reserve")
  /\ UNCHANGED <<cache, status, ledgerVars, at, position, answer, usage, records, providerVars>>

GiveUp(r) ==
  /\ pc[r] = "give_up"
  /\ Mark(Key(r), "FAILED")
  /\ Unavailable(r, "ERROR")
  /\ UNCHANGED <<cache, status, ledgerVars, providerVars>>

(***************************************************************************)
(* The program is stopped. Ctrl-C still writes INTERRUPTED; a crash writes  *)
(* nothing. A request under way, or an answer not yet saved, is in doubt.   *)
(***************************************************************************)
LeaveRequest(r) ==
  doubt' = doubt \cup (IF pc[r] \in {"answer", "persist"} THEN {Key(r)} ELSE {})

Interrupt(r) ==
  /\ pc[r] \in Steps \cup {"COMPLETED"}
  /\ LeaveRequest(r)
  /\ Goto(r, "INTERRUPTED")
  /\ UNCHANGED <<storeVars, status, ledgerVars, localVars, dropped, sent, billed>>

Crash(r) ==
  /\ pc[r] # "off"
  /\ LeaveRequest(r)
  /\ Exit(r)
  /\ records' = [records EXCEPT ![r] = [k \in Keys |-> "MISSING"]]
  /\ UNCHANGED <<storeVars, status, ledgerVars, dropped, sent, billed>>

Drive(r) == Finish(r) \/ SkipEvent(r) \/ SkipInDoubt(r) \/ AskReview(r) \/ EndRun(r)

Review(r) ==
  \/ CacheHit(r) \/ ReplayMiss(r) \/ LiveMiss(r)
  \/ Authorize(r) \/ BudgetStop(r)
  \/ CheckPending(r) \/ BlockedPending(r) \/ RecordPending(r) \/ Send(r)
  \/ Persist(r) \/ ReconcileUsage(r) \/ MarkUnknown(r) \/ Retry(r) \/ GiveUp(r)

Provider(r) == Answered(r) \/ Unusable(r) \/ Refused(r) \/ Lost(r)

Work(r) == Drive(r) \/ Review(r) \/ Provider(r)

Next == \E r \in Runs : Start(r) \/ Work(r) \/ Interrupt(r) \/ Crash(r)

Spec == Init /\ [][Next]_vars

\* Every call of a program ends (the client has a timeout, SQLite too), so a
\* program that runs takes its next step. Nobody has to start one.
FairSpec == Spec /\ \A r \in Runs : WF_vars(Work(r))

(***************************************************************************)
(* Properties                                                              *)
(***************************************************************************)
(* Type invariant. *)
TypeOK ==
  /\ cache \in [Keys -> Answers \cup {"NONE"}] /\ pending \in [Keys -> RequestStates]
  /\ status \in [Runs -> RunStates]
  /\ liveCalls \in [Runs -> Nat] /\ estimated \in [Runs -> Nat]
  /\ pc \in [Runs -> Steps \cup Endings \cup {"off"}]
  /\ at \in [Runs -> 1 .. KeyCount + 1] /\ attempt \in [Runs -> 1 .. MaxAttempts]
  /\ position \in [Runs -> BOOLEAN] /\ answer \in [Runs -> Answers]
  /\ usage \in [Runs -> 0 .. Reserve] /\ records \in [Runs -> [Keys -> Reports]]
  /\ doubt \subseteq Keys /\ dropped \subseteq Keys
  /\ sent \in [Runs -> Nat] /\ billed \in [Runs -> Nat]

(* A run never makes more calls than it may, and what the provider charged   *)
(* for them, answered, lost or cut off by a crash, never exceeds what the    *)
(* run has booked, nor that the limit, however often it is resumed           *)
(* (budget.py:38, DECISIONS.md:181).                                         *)
SpendWithinBudget ==
  \A r \in Runs :
    /\ sent[r] <= liveCalls[r] /\ liveCalls[r] <= MaxLiveCalls
    /\ billed[r] <= estimated[r] /\ estimated[r] <= MaxCost

Sends(r) == sent'[r] # sent[r]

(* No request is sent for a review that the cache can answer, or whose       *)
(* earlier request was cut off with its program, or lost with an error that  *)
(* the review knows to leave the answer open (service.py:136, store.py:97).  *)
NoPurchaseAfterCut ==
  [][\A r \in Runs : Sends(r) => Key(r) \notin doubt /\ cache[Key(r)] = "NONE"]_vars

(* No request is sent for a review whose earlier request may have been       *)
(* served although its answer never came, whatever the client raised for it: *)
(* a timeout or a cut leaves UNKNOWN and blocks automatic retries            *)
(* (DECISIONS.md:179).                                                       *)
NoRepeatedPurchase ==
  [][\A r \in Runs : Sends(r) => Key(r) \notin doubt \cup dropped]_vars

(* A decision that a completed run reports is the one in the cache, which    *)
(* every later backtest of the same configuration acts on                    *)
(* (STRATEGY_2_ENTRY_COLLECTION.md:49).                                      *)
ReportedDecisionIsCached ==
  \A r \in Runs, k \in Keys :
    status[r] = "COMPLETED" /\ records[r][k] \in Answers => cache[k] = records[r][k]

(* What a completed run reports is what the store holds: a decision is the   *)
(* cached one, a review reported UNKNOWN is without decision and stays       *)
(* blocked (strategy_2_entry_collector.py:155).                              *)
ReportAgreesWithStore ==
  /\ ReportedDecisionIsCached
  /\ \A r \in Runs, k \in Keys :
       status[r] = "COMPLETED" /\ records[r][k] = "UNKNOWN" => KnownInDoubt(k)

(* A program that runs ends, whatever the provider answers.                  *)
RunsEnd == \A r \in Runs : pc[r] # "off" ~> pc[r] = "off"
============================================================================
