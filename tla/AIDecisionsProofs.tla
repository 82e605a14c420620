------------------------- MODULE AIDecisionsProofs -------------------------
(* Proofs about AIDecisions for any number of runs, reviews and programs.    *)
EXTENDS AIDecisions, FiniteSetTheorems, TLAPS

(***************************************************************************)
(* The bookkeeping of one run. Between the reservation and its              *)
(* reconciliation the ledger is ahead of the provider by what the call in   *)
(* hand may still cost, or by what its answer turned out not to cost.       *)
(***************************************************************************)
Sendable == {"select", "upsert", "send"}
Answerable == {"persist", "reconcile"}
InReserve == Sendable \cup {"answer"} \cup Answerable

Unsent(r) == IF pc[r] \in Sendable THEN 1 ELSE 0
Outstanding(r) ==
  IF pc[r] \notin InReserve THEN 0
  ELSE IF pc[r] \in Answerable THEN Reserve - usage[r] ELSE Reserve

Points == Steps \cup Endings \cup {"off"}

LedgerTypes ==
  /\ liveCalls \in [Runs -> Int] /\ estimated \in [Runs -> Int]
  /\ sent \in [Runs -> Int] /\ billed \in [Runs -> Int]
  /\ usage \in [Runs -> 0 .. Reserve]
  /\ pc \in [Runs -> Points]

Ledger(r) ==
  /\ sent[r] + Unsent(r) <= liveCalls[r] /\ liveCalls[r] <= MaxLiveCalls
  /\ billed[r] + Outstanding(r) <= estimated[r] /\ estimated[r] <= MaxCost

LedgerInv == LedgerTypes /\ \A r \in Runs : Ledger(r)

(* A new database owes nothing. *)
LEMMA LedgerInit == Init => LedgerInv
  BY LimitAssumption
  DEF Init, LedgerInv, LedgerTypes, Ledger, Outstanding, Unsent, InReserve, Sendable, Answerable,
      Points

(* A step of run r concerns the books of run r only. *)
OnlyRun(r) ==
  \A q \in Runs \ {r} :
    /\ pc'[q] = pc[q] /\ usage'[q] = usage[q] /\ liveCalls'[q] = liveCalls[q]
    /\ estimated'[q] = estimated[q] /\ sent'[q] = sent[q] /\ billed'[q] = billed[q]

(* So its own books are all that has to be checked after it.                 *)
LEMMA OneRunStep ==
  ASSUME LedgerInv, NEW r \in Runs, OnlyRun(r), LedgerTypes', Ledger(r)'
  PROVE  LedgerInv'
  BY DEF LedgerInv, OnlyRun, Ledger, Outstanding, Unsent

(* A step that books, sends and pays nothing may drop what it had reserved. *)
LEMMA NothingBooked ==
  ASSUME LedgerInv, NEW r \in Runs, NEW step \in Points \ InReserve,
         pc' = [pc EXCEPT ![r] = step],
         usage' = usage \/ usage' = [usage EXCEPT ![r] = 0],
         UNCHANGED <<ledgerVars, sent, billed>>
  PROVE  LedgerInv'
<1>1. LedgerTypes'
  BY LimitAssumption DEF LedgerInv, LedgerTypes, ledgerVars
<1>2. OnlyRun(r)
  BY DEF LedgerInv, LedgerTypes, OnlyRun, ledgerVars
<1>3. pc'[r] = step /\ 0 <= Unsent(r) /\ 0 <= Outstanding(r)
  BY LimitAssumption DEF LedgerInv, LedgerTypes, Unsent, Outstanding
<1>4. Unsent(r)' = 0 /\ Outstanding(r)' = 0
  BY <1>3 DEF Unsent, Outstanding, InReserve
<1>5. Unsent(r) \in Int /\ Outstanding(r) \in Int
  BY LimitAssumption DEF LedgerInv, LedgerTypes, Unsent, Outstanding
<1>6. Ledger(r)'
  BY <1>3, <1>4, <1>5 DEF LedgerInv, LedgerTypes, Ledger, ledgerVars
<1>7. QED
  BY <1>1, <1>2, <1>6, OneRunStep

(* A step between two points with the same reservation keeps it. *)
LEMMA SameReservation ==
  ASSUME LedgerInv, NEW r \in Runs, NEW step \in Points,
         \/ pc[r] \in Sendable /\ step \in Sendable
         \/ pc[r] \in Answerable /\ step \in Answerable,
         pc' = [pc EXCEPT ![r] = step],
         UNCHANGED <<usage, ledgerVars, sent, billed>>
  PROVE  LedgerInv'
<1>1. LedgerTypes' /\ OnlyRun(r) /\ pc'[r] = step
  BY DEF LedgerInv, LedgerTypes, OnlyRun, ledgerVars
<1>2. Unsent(r)' = Unsent(r) /\ Outstanding(r)' = Outstanding(r)
  BY <1>1 DEF Unsent, Outstanding, InReserve, Sendable, Answerable
<1>3. Ledger(r)'
  BY <1>2 DEF LedgerInv, Ledger, ledgerVars
<1>4. QED
  BY <1>1, <1>3, OneRunStep

(* The reservation is within the limits before a call is made. *)
LEMMA AuthorizeKeeps ==
  ASSUME LedgerInv, NEW r \in Runs, Authorize(r)
  PROVE  LedgerInv'
<1>1. LedgerTypes' /\ OnlyRun(r) /\ pc'[r] = "select" /\ pc[r] = "reserve"
  BY LimitAssumption
  DEF LedgerInv, LedgerTypes, OnlyRun, Authorize, Goto, localVars, memoryVars, providerVars, Points,
      Steps
<1>2. Unsent(r) = 0 /\ Outstanding(r) = 0 /\ Unsent(r)' = 1 /\ Outstanding(r)' = Reserve
  BY <1>1 DEF Unsent, Outstanding, InReserve, Sendable, Answerable
<1>3. /\ liveCalls'[r] = liveCalls[r] + 1 /\ estimated'[r] = estimated[r] + Reserve
      /\ sent'[r] = sent[r] /\ billed'[r] = billed[r]
  BY DEF LedgerInv, LedgerTypes, Authorize, providerVars
<1>4. Ledger(r)'
  BY <1>2, <1>3, LimitAssumption DEF LedgerInv, LedgerTypes, Ledger, Authorize, WithinBudget
<1>5. QED
  BY <1>1, <1>4, OneRunStep

(* A sent request uses up the call that was counted for it. *)
LEMMA SendKeeps ==
  ASSUME LedgerInv, NEW r \in Runs, Send(r)
  PROVE  LedgerInv'
<1>1. LedgerTypes' /\ OnlyRun(r) /\ pc'[r] = "answer" /\ pc[r] = "send"
  BY DEF LedgerInv, LedgerTypes, OnlyRun, Send, Goto, localVars, memoryVars, ledgerVars, Points, Steps
<1>2. Unsent(r) = 1 /\ Unsent(r)' = 0 /\ Outstanding(r) = Reserve /\ Outstanding(r)' = Reserve
  BY <1>1 DEF Unsent, Outstanding, InReserve, Sendable, Answerable
<1>3. /\ sent'[r] = sent[r] + 1
      /\ UNCHANGED <<liveCalls[r], estimated[r], billed[r]>>
  BY DEF LedgerInv, LedgerTypes, Send, ledgerVars
<1>4. Ledger(r)'
  BY <1>2, <1>3, LimitAssumption DEF LedgerInv, LedgerTypes, Ledger
<1>5. QED
  BY <1>1, <1>4, OneRunStep

(* What an answer costs, and what it is said to have cost, fit the reserve. *)
LEMMA AnsweredKeeps ==
  ASSUME LedgerInv, NEW r \in Runs, Answered(r)
  PROVE  LedgerInv'
<1>1. PICK charge \in 1 .. Reserve :
        Bill(r, charge) /\ \E n \in {charge, Reserve} : usage' = [usage EXCEPT ![r] = n]
  BY DEF Answered
<1> PICK reported \in {charge, Reserve} : usage' = [usage EXCEPT ![r] = reported]
  BY <1>1
<1>2. LedgerTypes' /\ OnlyRun(r) /\ pc'[r] = "persist" /\ pc[r] = "answer"
  BY <1>1, LimitAssumption
  DEF LedgerInv, LedgerTypes, OnlyRun, Answered, Bill, Goto, ledgerVars, Points, Steps
<1>3. /\ Unsent(r) = 0 /\ Unsent(r)' = 0
      /\ Outstanding(r) = Reserve /\ Outstanding(r)' = Reserve - usage'[r]
  BY <1>2 DEF Unsent, Outstanding, InReserve, Sendable, Answerable
<1>4. /\ usage'[r] = reported /\ billed'[r] = billed[r] + charge
      /\ UNCHANGED <<liveCalls[r], estimated[r], sent[r]>>
  BY <1>1 DEF LedgerInv, LedgerTypes, Answered, Bill, ledgerVars
<1>5. Ledger(r)'
  BY <1>1, <1>3, <1>4, LimitAssumption DEF LedgerInv, LedgerTypes, Ledger
<1>6. QED
  BY <1>2, <1>5, OneRunStep

(* A request that fails may still be charged; its reserve stays booked. *)
LEMMA FailedCallKeeps ==
  ASSUME LedgerInv, NEW r \in Runs, Unusable(r) \/ Refused(r) \/ Lost(r)
  PROVE  LedgerInv'
<1>1. PICK charge \in 0 .. Reserve : Bill(r, charge)
  BY DEF Unusable, Refused, Lost, MayBeBilled
<1>2. PICK step \in {"give_up", "retry", "lost"} : pc' = [pc EXCEPT ![r] = step]
  BY DEF Unusable, Refused, Lost, Goto
<1>3. pc[r] = "answer" /\ UNCHANGED <<usage, ledgerVars, sent>>
  BY DEF Unusable, Refused, Lost, localVars, memoryVars
<1>4. LedgerTypes' /\ OnlyRun(r) /\ pc'[r] = step
  BY <1>1, <1>2, <1>3 DEF LedgerInv, LedgerTypes, OnlyRun, Bill, ledgerVars, Points, Steps
<1>5. Unsent(r) = 0 /\ Unsent(r)' = 0 /\ Outstanding(r) = Reserve /\ Outstanding(r)' = 0
  BY <1>3, <1>4 DEF Unsent, Outstanding, InReserve, Sendable, Answerable
<1>6. billed'[r] = billed[r] + charge /\ UNCHANGED <<liveCalls[r], estimated[r], sent[r]>>
  BY <1>1, <1>3 DEF LedgerInv, LedgerTypes, Bill, ledgerVars
<1>7. Ledger(r)'
  BY <1>5, <1>6, LimitAssumption DEF LedgerInv, LedgerTypes, Ledger
<1>8. QED
  BY <1>4, <1>7, OneRunStep

(* The reported usage replaces the reserve. *)
LEMMA ReconcileUsageKeeps ==
  ASSUME LedgerInv, NEW r \in Runs, ReconcileUsage(r)
  PROVE  LedgerInv'
<1>1. LedgerTypes' /\ OnlyRun(r) /\ pc'[r] = "next" /\ pc[r] = "reconcile"
  BY LimitAssumption
  DEF LedgerInv, LedgerTypes, OnlyRun, ReconcileUsage, Decide, Report, ForgetReview, Goto,
      providerVars, Points, Steps
<1>2. /\ Unsent(r) = 0 /\ Unsent(r)' = 0
      /\ Outstanding(r) = Reserve - usage[r] /\ Outstanding(r)' = 0
  BY <1>1 DEF Unsent, Outstanding, InReserve, Sendable, Answerable
<1>3. /\ estimated'[r] = estimated[r] + usage[r] - Reserve
      /\ UNCHANGED <<liveCalls[r], sent[r], billed[r]>>
  BY DEF LedgerInv, LedgerTypes, ReconcileUsage, providerVars
<1>4. Ledger(r)'
  BY <1>2, <1>3, LimitAssumption DEF LedgerInv, LedgerTypes, Ledger
<1>5. QED
  BY <1>1, <1>4, OneRunStep

(* Every step of every program, and every death of one, keeps the books. *)
LEMMA LedgerNext == LedgerInv /\ [Next]_vars => LedgerInv'
<1> SUFFICES ASSUME LedgerInv, [Next]_vars PROVE LedgerInv'
  OBVIOUS
<1>1. CASE UNCHANGED vars
  BY <1>1
  DEF vars, ledgerVars, localVars, memoryVars, providerVars, LedgerInv, LedgerTypes, Ledger,
      Outstanding, Unsent
<1>2. ASSUME NEW r \in Runs, Start(r) \/ Work(r) \/ Interrupt(r) \/ Crash(r)
      PROVE  LedgerInv'
  <2> DEFINE Leaves(step) ==
        /\ step \in Points \ InReserve /\ pc' = [pc EXCEPT ![r] = step]
        /\ usage' = usage \/ usage' = [usage EXCEPT ![r] = 0]
        /\ UNCHANGED <<ledgerVars, sent, billed>>
  <2>1. ASSUME NEW step, Leaves(step) PROVE LedgerInv'
    BY <2>1, NothingBooked
  <2> DEFINE Prepares(step) ==
        /\ pc[r] \in Sendable /\ step \in Sendable /\ step \in Points
        /\ pc' = [pc EXCEPT ![r] = step] /\ UNCHANGED <<usage, ledgerVars, sent, billed>>
  <2>2. ASSUME NEW step, Prepares(step) PROVE LedgerInv'
    BY <2>2, SameReservation
  <2> USE DEF providerVars, localVars, memoryVars, Goto, Points, Steps, Endings, InReserve, Sendable,
              Answerable
  <2>3. CASE Start(r)
    <3>1. Leaves("next")
      BY <2>3 DEF Start
    <3>2. QED
      BY <3>1, <2>1
  <2>4. CASE Interrupt(r)
    <3>1. Leaves("INTERRUPTED")
      BY <2>4 DEF Interrupt
    <3>2. QED
      BY <3>1, <2>1
  <2>5. CASE Crash(r)
    <3>1. Leaves("off")
      BY <2>5 DEF Crash, Exit, ForgetReview
    <3>2. QED
      BY <3>1, <2>1
  <2>6. CASE Drive(r)
    <3>1. CASE Finish(r)
      BY <3>1, <2>1 DEF Finish
    <3>2. CASE SkipEvent(r)
      BY <3>2 DEF SkipEvent, LedgerInv, LedgerTypes, Ledger, ledgerVars, Outstanding, Unsent
    <3>3. CASE SkipInDoubt(r)
      BY <3>3, <2>1 DEF SkipInDoubt, Report, ForgetReview
    <3>4. CASE AskReview(r)
      BY <3>4, <2>1 DEF AskReview
    <3>5. CASE EndRun(r)
      BY <3>5, <2>1 DEF EndRun, Exit, ForgetReview
    <3>6. QED
      BY <2>6, <3>1, <3>2, <3>3, <3>4, <3>5 DEF Drive
  <2>7. CASE Review(r)
    <3>1. ASSUME NEW report, Unavailable(r, report), UNCHANGED <<ledgerVars, providerVars>>
          PROVE  LedgerInv'
      <4>1. Leaves(IF CanContinue(r) THEN "next" ELSE "FAILED")
        BY <3>1 DEF Unavailable, Report, ForgetReview
      <4>2. QED
        BY <4>1, <2>1
    <3>2. ASSUME NEW decision, Decide(r, decision), UNCHANGED <<ledgerVars, providerVars>>
          PROVE  LedgerInv'
      <4>1. Leaves("next")
        BY <3>2 DEF Decide, Report, ForgetReview
      <4>2. QED
        BY <4>1, <2>1
    <3>3. CASE CacheHit(r)
      BY <3>3, <3>2 DEF CacheHit
    <3>4. CASE ReplayMiss(r) \/ BlockedPending(r) \/ MarkUnknown(r) \/ GiveUp(r)
      BY <3>4, <3>1 DEF ReplayMiss, BlockedPending, MarkUnknown, GiveUp
    <3>5. CASE LiveMiss(r) \/ Retry(r)
      <4>1. Leaves("reserve")
        BY <3>5 DEF LiveMiss, Retry
      <4>2. QED
        BY <4>1, <2>1
    <3>6. CASE BudgetStop(r)
      <4>1. CASE r \in Collections
        <5>1. Leaves("INTERRUPTED")
          BY <3>6, <4>1 DEF BudgetStop, OutOfBudget, Report, ForgetReview
        <5>2. QED
          BY <5>1, <2>1
      <4>2. CASE r \notin Collections
        BY <3>6, <4>2, <3>1 DEF BudgetStop, OutOfBudget
      <4>3. QED
        BY <4>1, <4>2
    <3>7. CASE CheckPending(r)
      <4>1. Prepares("upsert")
        BY <3>7 DEF CheckPending
      <4>2. QED
        BY <4>1, <2>2
    <3>8. CASE RecordPending(r)
      <4>1. Prepares("send")
        BY <3>8 DEF RecordPending
      <4>2. QED
        BY <4>1, <2>2
    <3>9. CASE Persist(r)
      BY <3>9, SameReservation, "reconcile" \in Answerable DEF Persist
    <3>10. QED
      BY <2>7, <3>3, <3>4, <3>5, <3>6, <3>7, <3>8, <3>9, AuthorizeKeeps, SendKeeps,
         ReconcileUsageKeeps
      DEF Review
  <2>8. CASE Provider(r)
    BY <2>8, AnsweredKeeps, FailedCallKeeps DEF Provider
  <2>9. QED
    BY <1>2, <2>3, <2>4, <2>5, <2>6, <2>7, <2>8 DEF Work
<1>3. QED
  BY <1>1, <1>2 DEF Next

(***************************************************************************)
(* One collector at a time. A request in doubt stays blocked, because only  *)
(* a review of its key could unblock it and the collector starts none: what *)
(* it saw before the review still holds at the send, no other program being *)
(* there to change it.                                                      *)
(***************************************************************************)
OneCollectorAtATime == MaxActive = 1 /\ LiveRuns \subseteq Collections /\ IsFiniteSet(Runs)

InReview == Steps \ {"next"}
Asking == {"reserve", "select", "upsert", "send", "answer", "persist", "retry", "give_up"}
OnRecord == {"send", "answer", "persist"}

Tables ==
  /\ cache \in [Keys -> Answers \cup {"NONE"}] /\ pending \in [Keys -> RequestStates]
  /\ pc \in [Runs -> Points] /\ at \in [Runs -> Int]
  /\ answer \in [Runs -> Answers]

Alone(r) == \A q \in Runs : q # r => pc[q] = "off"
OneProgram == \A r \in Runs : pc[r] # "off" => Alone(r)

DoubtBlocked == \A k \in doubt : k \in Keys /\ KnownInDoubt(k)

Control(r) ==
  /\ pc[r] \in InReview => Key(r) \in Keys
  /\ pc[r] = "review" /\ r \in Collections => ~KnownInDoubt(Key(r))
  /\ pc[r] \in Asking => r \in LiveRuns /\ Key(r) \notin doubt /\ cache[Key(r)] = "NONE"
  /\ pc[r] \in OnRecord => pending[Key(r)] = "PENDING"

DoubtInv == Tables /\ OneProgram /\ DoubtBlocked /\ \A r \in Runs : Control(r)

(* Nothing is in doubt at first.                                             *)
LEMMA DoubtInit == Init => DoubtInv
  BY DEF Init, DoubtInv, Tables, OneProgram, Alone, DoubtBlocked, Control, Answers, RequestStates,
         Points, InReview, Asking, OnRecord, Steps

(* A step of the only program leaves the others where they are.              *)
LEMMA AloneStep ==
  ASSUME DoubtInv, NEW r \in Runs, Alone(r), NEW step \in Points, pc' = [pc EXCEPT ![r] = step],
         Tables', DoubtBlocked', Control(r)'
  PROVE  DoubtInv'
<1>1. \A q \in Runs : q # r => pc'[q] = "off"
  BY DEF DoubtInv, Tables, Alone
<1>2. OneProgram'
  BY <1>1 DEF OneProgram, Alone
<1>3. \A q \in Runs : Control(q)'
  BY <1>1 DEF Control, InReview, Asking, OnRecord, Steps
<1>4. QED
  BY <1>2, <1>3 DEF DoubtInv

(* The operator starts a program only when no other one runs.                *)
LEMMA StartKeepsDoubt ==
  ASSUME OneCollectorAtATime, DoubtInv, NEW r \in Runs, Start(r)
  PROVE  DoubtInv'
<1>1. Alone(r)
  <2>1. IsFiniteSet(Active)
    BY FS_Subset DEF OneCollectorAtATime, Active
  <2>2. Cardinality(Active) = 0
    BY <2>1, FS_CardinalityType DEF OneCollectorAtATime, Start
  <2>3. Active = {}
    BY <2>1, <2>2, FS_EmptySet
  <2>4. QED
    BY <2>3 DEF Active, Alone
<1>2. Tables' /\ DoubtBlocked' /\ Control(r)' /\ pc' = [pc EXCEPT ![r] = "next"]
  BY DEF Start, Goto, storeVars, memoryVars, providerVars, DoubtInv, Tables, DoubtBlocked, KnownInDoubt,
         Control, Points, InReview, Asking, OnRecord, Steps
<1>3. QED
  BY <1>1, <1>2, AloneStep DEF Points, Steps

(* A review that ends leaves the tables as they are, or closes its own row.  *)
LEMMA ReviewEnds ==
  ASSUME DoubtInv, NEW r \in Runs, Alone(r), Tables', DoubtBlocked',
         NEW step \in {"next", "off"} \cup Endings, pc' = [pc EXCEPT ![r] = step]
  PROVE  DoubtInv'
<1>1. pc'[r] = step /\ step \in Points
  BY DEF DoubtInv, Tables, Points, Steps
<1>2. Control(r)'
  BY <1>1 DEF Control, InReview, Asking, OnRecord, Steps, Endings
<1>3. QED
  BY <1>1, <1>2, AloneStep

(* The steps of the only program between two reviews, and its end.           *)
LEMMA DriveKeepsDoubt ==
  ASSUME DoubtInv, NEW r \in Runs, Alone(r), Drive(r)
  PROVE  DoubtInv'
<1> USE DEF Goto, storeVars, localVars, memoryVars, providerVars
<1>1. CASE Finish(r) \/ SkipInDoubt(r) \/ EndRun(r)
  <2>1. Tables' /\ DoubtBlocked'
    BY <1>1
    DEF Finish, SkipInDoubt, EndRun, Exit, Report, ForgetReview, DoubtInv, Tables, DoubtBlocked,
        KnownInDoubt, Points, Answers, Steps, Endings
  <2>2. PICK step \in {"next", "off"} \cup Endings : pc' = [pc EXCEPT ![r] = step]
    BY <1>1 DEF Finish, SkipInDoubt, EndRun, Exit, Report, Endings
  <2>3. QED
    BY <2>1, <2>2, ReviewEnds
<1>2. CASE SkipEvent(r)
  <2>1. Tables' /\ DoubtBlocked' /\ Control(r)' /\ pc' = [pc EXCEPT ![r] = "next"]
    BY <1>2 DEF SkipEvent, DoubtInv, Tables, DoubtBlocked, KnownInDoubt, Control, InReview, Asking,
                OnRecord
  <2>2. QED
    BY <2>1, AloneStep DEF Points, Steps
<1>3. CASE AskReview(r)
  <2>1. Tables' /\ DoubtBlocked' /\ Control(r)' /\ pc' = [pc EXCEPT ![r] = "review"]
    BY <1>3 DEF AskReview, DoubtInv, Tables, DoubtBlocked, KnownInDoubt, Control, InReview, Asking,
                OnRecord, Key, Points, Steps
  <2>2. QED
    BY <2>1, AloneStep DEF Points, Steps
<1>4. QED
  BY <1>1, <1>2, <1>3 DEF Drive

(* A review writes the row of its own key only, and that key is not in doubt *)
(* unless its request has just been lost.                                    *)
LEMMA ReviewKeepsDoubt ==
  ASSUME OneCollectorAtATime, DoubtInv, NEW r \in Runs, Alone(r), Review(r)
  PROVE  DoubtInv'
<1> USE DEF Goto, storeVars, localVars, memoryVars, providerVars, Key
<1>1. CASE CacheHit(r) \/ ReconcileUsage(r)
  <2>1. Tables' /\ DoubtBlocked' /\ pc' = [pc EXCEPT ![r] = "next"]
    BY <1>1 DEF CacheHit, ReconcileUsage, Decide, Report, ForgetReview, DoubtInv, Tables, DoubtBlocked,
                KnownInDoubt, Points, Answers, Steps
  <2>2. QED
    BY <2>1, ReviewEnds
<1>2. CASE ReplayMiss(r) \/ BlockedPending(r)
  <2>1. Tables' /\ DoubtBlocked'
    BY <1>2 DEF ReplayMiss, BlockedPending, Unavailable, Report, ForgetReview, DoubtInv, Tables,
                DoubtBlocked, KnownInDoubt, Points, Answers, Steps, Endings
  <2>2. PICK step \in {"next", "FAILED"} : pc' = [pc EXCEPT ![r] = step]
    BY <1>2 DEF ReplayMiss, BlockedPending, Unavailable, Report
  <2>3. QED
    BY <2>1, <2>2, ReviewEnds DEF Endings
<1>3. CASE BudgetStop(r) \/ GiveUp(r) \/ MarkUnknown(r)
  <2>1. PICK step \in {"next", "FAILED", "INTERRUPTED"} : pc' = [pc EXCEPT ![r] = step]
    BY <1>3 DEF BudgetStop, GiveUp, MarkUnknown, OutOfBudget, Unavailable, Report
  <2>2. UNCHANGED <<cache, doubt>> /\ at' \in [Runs -> Int] /\ answer' \in [Runs -> Answers]
    BY <1>3 DEF BudgetStop, GiveUp, MarkUnknown, OutOfBudget, Unavailable, Report, ForgetReview,
                DoubtInv, Tables, Answers
  <2>3. \/ Mark(Key(r), "FAILED") /\ Key(r) \notin doubt
        \/ Mark(Key(r), "UNKNOWN")
    BY <1>3 DEF BudgetStop, GiveUp, MarkUnknown, DoubtInv, Control, Asking
  <2>4. Tables' /\ DoubtBlocked'
    BY <2>1, <2>2, <2>3 DEF Mark, DoubtInv, Tables, DoubtBlocked, KnownInDoubt, Unresolved,
                            RequestStates, Points, Steps, Endings
  <2>5. QED
    BY <2>1, <2>4, ReviewEnds DEF Endings
<1>4. CASE LiveMiss(r)
  <2>1. Tables' /\ DoubtBlocked' /\ Control(r)' /\ pc' = [pc EXCEPT ![r] = "reserve"]
    BY <1>4 DEF LiveMiss, OneCollectorAtATime, DoubtInv, Tables, DoubtBlocked, KnownInDoubt, Control,
                InReview, Asking, OnRecord, Points, Steps
  <2>2. QED
    BY <2>1, AloneStep DEF Points, Steps
<1>5. CASE Authorize(r) \/ CheckPending(r) \/ Send(r)
  <2>1. PICK step \in {"select", "upsert", "answer"} :
          pc' = [pc EXCEPT ![r] = step] /\ (step = "answer" => pc[r] = "send")
    BY <1>5 DEF Authorize, CheckPending, Send
  <2>2. pc[r] \in Asking /\ UNCHANGED <<cache, pending, at, answer, doubt>>
    BY <1>5 DEF Authorize, CheckPending, Send, Asking
  <2>3. Tables' /\ DoubtBlocked' /\ Control(r)'
    BY <2>1, <2>2 DEF DoubtInv, Tables, DoubtBlocked, KnownInDoubt, Control, InReview, Asking, OnRecord,
                      Points, Steps
  <2>4. QED
    BY <2>1, <2>3, AloneStep DEF Points, Steps
<1>6. CASE RecordPending(r)
  <2>1. Tables' /\ DoubtBlocked' /\ Control(r)' /\ pc' = [pc EXCEPT ![r] = "send"]
    BY <1>6 DEF RecordPending, DoubtInv, Tables, DoubtBlocked, KnownInDoubt, Control, InReview, Asking,
                OnRecord, Points, Steps, RequestStates
  <2>2. QED
    BY <2>1, AloneStep DEF Points, Steps
<1>7. CASE Persist(r)
  <2>1. Key(r) \in Keys /\ Key(r) \notin doubt
    BY <1>7 DEF Persist, DoubtInv, Control, InReview, Asking, Steps
  <2>2. Tables' /\ DoubtBlocked' /\ Control(r)' /\ pc' = [pc EXCEPT ![r] = "reconcile"]
    BY <1>7, <2>1 DEF Persist, Mark, DoubtInv, Tables, DoubtBlocked, KnownInDoubt, Control, InReview,
                      Asking, OnRecord, Points, Steps, RequestStates, Answers
  <2>3. QED
    BY <2>2, AloneStep DEF Points, Steps
<1>8. CASE Retry(r)
  <2>1. Key(r) \in Keys /\ Key(r) \notin doubt
    BY <1>8 DEF Retry, DoubtInv, Control, InReview, Asking, Steps
  <2>2. Tables' /\ DoubtBlocked' /\ Control(r)' /\ pc' = [pc EXCEPT ![r] = "reserve"]
    BY <1>8, <2>1 DEF Retry, Mark, DoubtInv, Tables, DoubtBlocked, KnownInDoubt, Control, InReview,
                      Asking, OnRecord, Points, Steps, RequestStates
  <2>3. QED
    BY <2>2, AloneStep DEF Points, Steps
<1>9. QED
  BY <1>1, <1>2, <1>3, <1>4, <1>5, <1>6, <1>7, <1>8 DEF Review

(* Only a loss that is recognised puts a key in doubt, and its row is PENDING *)
(* then.                                                                     *)
LEMMA ProviderKeepsDoubt ==
  ASSUME DoubtInv, NEW r \in Runs, Alone(r), Provider(r)
  PROVE  DoubtInv'
<1>1. PICK step \in {"persist", "give_up", "retry", "lost"} :
        pc' = [pc EXCEPT ![r] = step] /\ doubt' = IF step = "lost" THEN doubt \cup {Key(r)} ELSE doubt
  BY DEF Provider, Answered, Unusable, Refused, Lost, Goto, providerVars
<1>2. pc[r] = "answer" /\ UNCHANGED <<cache, pending, at>> /\ answer' \in [Runs -> Answers]
  BY DEF Provider, Answered, Unusable, Refused, Lost, storeVars, localVars, memoryVars, DoubtInv, Tables
<1>3. Key(r) \in Keys /\ KnownInDoubt(Key(r)) /\ pending[Key(r)] = "PENDING"
  BY <1>2 DEF DoubtInv, Control, KnownInDoubt, Unresolved, InReview, Asking, OnRecord, Steps
<1>4. Tables' /\ DoubtBlocked' /\ Control(r)'
  BY <1>1, <1>2, <1>3
  DEF DoubtInv, Tables, DoubtBlocked, KnownInDoubt, Control, Key, InReview, Asking, OnRecord, Points,
      Steps
<1>5. QED
  BY <1>1, <1>4, AloneStep DEF Points, Steps

(* A program that is stopped leaves its request, if any, on record.          *)
LEMMA StopKeepsDoubt ==
  ASSUME DoubtInv, NEW r \in Runs, Alone(r), Interrupt(r) \/ Crash(r)
  PROVE  DoubtInv'
<1>1. PICK step \in {"INTERRUPTED", "off"} : pc' = [pc EXCEPT ![r] = step]
  BY DEF Interrupt, Crash, Exit, Goto
<1>2. /\ UNCHANGED <<cache, pending>> /\ at' \in [Runs -> Int] /\ answer' \in [Runs -> Answers]
      /\ LeaveRequest(r)
  BY DEF Interrupt, Crash, Exit, ForgetReview, storeVars, localVars, memoryVars, DoubtInv, Tables,
         Answers
<1>3. pc[r] \in {"answer", "persist"} => Key(r) \in Keys /\ KnownInDoubt(Key(r))
  BY DEF DoubtInv, Control, KnownInDoubt, Unresolved, InReview, Asking, OnRecord, Steps
<1>4. Tables' /\ DoubtBlocked'
  BY <1>1, <1>2, <1>3
  DEF LeaveRequest, DoubtInv, Tables, DoubtBlocked, KnownInDoubt, Points, Endings
<1>5. QED
  BY <1>1, <1>4, ReviewEnds DEF Endings

(* Every step is of the only program, or starts it.                          *)
LEMMA DoubtNext == OneCollectorAtATime /\ DoubtInv /\ [Next]_vars => DoubtInv'
<1> SUFFICES ASSUME OneCollectorAtATime, DoubtInv, [Next]_vars PROVE DoubtInv'
  OBVIOUS
<1>1. CASE UNCHANGED vars
  BY <1>1 DEF vars, storeVars, localVars, memoryVars, providerVars, DoubtInv, Tables, OneProgram, Alone,
              DoubtBlocked, KnownInDoubt, Control, Key
<1>2. ASSUME NEW r \in Runs, Start(r) PROVE DoubtInv'
  BY <1>2, StartKeepsDoubt
<1>3. ASSUME NEW r \in Runs, Work(r) \/ Interrupt(r) \/ Crash(r) PROVE DoubtInv'
  <2>1. pc[r] # "off"
    BY <1>3
    DEF Work, Drive, Finish, SkipEvent, SkipInDoubt, AskReview, EndRun, Review, CacheHit, ReplayMiss,
        LiveMiss, Authorize, BudgetStop, CheckPending, BlockedPending, RecordPending, Send, Persist,
        ReconcileUsage, MarkUnknown, Retry, GiveUp, Provider, Answered, Unusable, Refused, Lost,
        Interrupt, Crash, Endings, Steps
  <2>2. Alone(r)
    BY <2>1 DEF DoubtInv, OneProgram
  <2>3. QED
    BY <1>3, <2>2, DriveKeepsDoubt, ReviewKeepsDoubt, ProviderKeepsDoubt, StopKeepsDoubt DEF Work
<1>4. QED
  BY <1>1, <1>2, <1>3 DEF Next

(***************************************************************************)
(* Types. A review runs for a key of the bundle, and a request that may be  *)
(* retried is not the last that is allowed.                                 *)
(***************************************************************************)
Place(r) ==
  /\ pc[r] \in InReview => at[r] \in Keys
  /\ pc[r] = "retry" => attempt[r] < MaxAttempts

LocalTypes ==
  /\ pc \in [Runs -> Points]
  /\ at \in [Runs -> 1 .. KeyCount + 1] /\ attempt \in [Runs -> 1 .. MaxAttempts]
  /\ position \in [Runs -> BOOLEAN] /\ answer \in [Runs -> Answers]
  /\ usage \in [Runs -> 0 .. Reserve] /\ records \in [Runs -> [Keys -> Reports]]

SharedTypes ==
  /\ cache \in [Keys -> Answers \cup {"NONE"}] /\ pending \in [Keys -> RequestStates]
  /\ status \in [Runs -> RunStates] /\ doubt \subseteq Keys /\ dropped \subseteq Keys
  /\ liveCalls \in [Runs -> Nat] /\ sent \in [Runs -> Nat] /\ billed \in [Runs -> Nat]

TypeInv == LocalTypes /\ SharedTypes /\ \A r \in Runs : Place(r)

(* Every local has its type at first.                                        *)
LEMMA TypeInit == Init => TypeInv
<1> SUFFICES ASSUME Init PROVE TypeInv
  OBVIOUS
<1>1. 1 \in 1 .. KeyCount + 1 /\ 1 \in 1 .. MaxAttempts /\ 0 \in 0 .. Reserve
  BY KeyAssumption, LimitAssumption
<1>2. LocalTypes
  BY <1>1 DEF Init, LocalTypes, Points, Answers, Reports
<1>3. SharedTypes /\ \A r \in Runs : Place(r)
  BY DEF Init, SharedTypes, RequestStates, RunStates, Place, InReview, Steps
<1>4. QED
  BY <1>2, <1>3 DEF TypeInv

(* The end of a review.                                                      *)
LEMMA ReportTypes ==
  ASSUME TypeInv, NEW r \in Runs, Key(r) \in Keys, NEW report \in Reports,
         NEW step \in {"next"} \cup Endings, Report(r, report, step),
         position' \in [Runs -> BOOLEAN]
  PROVE  LocalTypes' /\ \A q \in Runs : Place(q)'
<1>1. 1 \in 1 .. MaxAttempts /\ 0 \in 0 .. Reserve /\ step \in Points /\ step \notin InReview
  BY LimitAssumption DEF Points, InReview, Steps, Endings
<1>2. at[r] + 1 \in 1 .. KeyCount + 1
  BY KeyAssumption DEF Key, Keys
<1>3. LocalTypes'
  BY <1>1, <1>2 DEF TypeInv, LocalTypes, Report, ForgetReview, Goto, Key, Answers
<1>4. \A q \in Runs : Place(q)'
  BY <1>1, <1>3 DEF TypeInv, LocalTypes, Report, ForgetReview, Goto, Place, InReview, Steps
<1>5. QED
  BY <1>3, <1>4

(* The locals of a program that is gone are those of a new one.              *)
LEMMA ExitTypes ==
  ASSUME TypeInv, NEW r \in Runs, Exit(r), records' \in [Runs -> [Keys -> Reports]]
  PROVE  LocalTypes' /\ \A q \in Runs : Place(q)'
<1>1. /\ 1 \in 1 .. MaxAttempts /\ 0 \in 0 .. Reserve /\ 1 \in 1 .. KeyCount + 1
      /\ "off" \in Points /\ "off" \notin InReview
  BY LimitAssumption, KeyAssumption DEF Points, InReview, Steps
<1>2. LocalTypes'
  BY <1>1 DEF TypeInv, LocalTypes, Exit, ForgetReview, Goto, Answers
<1>3. \A q \in Runs : Place(q)'
  BY <1>1, <1>2 DEF TypeInv, LocalTypes, Exit, ForgetReview, Goto, Place, InReview, Steps
<1>4. QED
  BY <1>2, <1>3

(* A step that changes no local but the place.                               *)
LEMMA GotoTypes ==
  ASSUME TypeInv, NEW r \in Runs, NEW step \in Points, Goto(r, step), UNCHANGED localVars,
         step \in InReview => at[r] \in Keys,
         step = "retry" => attempt[r] < MaxAttempts
  PROVE  LocalTypes' /\ \A q \in Runs : Place(q)'
BY DEF TypeInv, LocalTypes, Goto, Place, localVars, memoryVars

(* What a request becomes in the store.                                      *)
LEMMA MarkTypes ==
  ASSUME TypeInv, NEW k \in Keys, NEW state \in RequestStates, Mark(k, state)
  PROVE  pending' \in [Keys -> RequestStates]
BY DEF TypeInv, SharedTypes, Mark, RequestStates

(* The steps of a program between two reviews.                               *)
LEMMA DriveTypes == ASSUME TypeInv, NEW r \in Runs, Drive(r) PROVE TypeInv'
<1>1. CASE EndRun(r)
  <2>1. SharedTypes'
    BY <1>1 DEF EndRun, TypeInv, SharedTypes, RunStates, Endings, storeVars, ledgerVars, providerVars
  <2>2. QED
    BY <1>1, <2>1, ExitTypes DEF EndRun, TypeInv, LocalTypes
<1>2. CASE SkipInDoubt(r)
  <2>1. SharedTypes' /\ position' \in [Runs -> BOOLEAN]
    BY <1>2 DEF SkipInDoubt, TypeInv, SharedTypes, LocalTypes, storeVars, ledgerVars, providerVars
  <2>2. QED
    BY <1>2, <2>1, ReportTypes, "UNKNOWN" \in Reports DEF SkipInDoubt, TypeInv, Reports
<1>3. CASE SkipEvent(r)
  <2>1. SharedTypes'
    BY <1>3 DEF SkipEvent, TypeInv, SharedTypes, storeVars, ledgerVars, providerVars
  <2>2. at[r] + 1 \in 1 .. KeyCount + 1 /\ pc[r] \notin InReview
    BY <1>3, KeyAssumption DEF SkipEvent, Key, Keys, InReview, Steps
  <2>3. LocalTypes' /\ \A q \in Runs : Place(q)'
    BY <1>3, <2>2 DEF SkipEvent, TypeInv, LocalTypes, Place, InReview, Steps
  <2>4. QED
    BY <2>1, <2>3 DEF TypeInv
<1>4. CASE Finish(r) \/ AskReview(r)
  <2>1. SharedTypes'
    BY <1>4 DEF Finish, AskReview, TypeInv, SharedTypes, storeVars, ledgerVars, providerVars
  <2>2. PICK step \in {"COMPLETED", "review"} :
          Goto(r, step) /\ UNCHANGED localVars /\ (step = "review" => Key(r) \in Keys)
    BY <1>4 DEF Finish, AskReview
  <2>3. step \in Points /\ (step \in InReview => at[r] \in Keys) /\ step # "retry"
    BY <2>2 DEF Points, InReview, Steps, Endings, Key
  <2>4. QED
    BY <2>1, <2>2, <2>3, GotoTypes DEF TypeInv
<1>5. QED
  BY <1>1, <1>2, <1>3, <1>4 DEF Drive

(* A review that raised.                                                     *)
LEMMA UnavailableTypes ==
  ASSUME TypeInv, NEW r \in Runs, Key(r) \in Keys, NEW report \in Reports,
         Unavailable(r, report) \/ (Report(r, report, "INTERRUPTED") /\ UNCHANGED position)
  PROVE  LocalTypes' /\ \A q \in Runs : Place(q)'
<1>1. PICK step \in {"next"} \cup Endings : Report(r, report, step)
  BY DEF Unavailable, Endings
<1>2. position' \in [Runs -> BOOLEAN]
  BY DEF Unavailable, TypeInv, LocalTypes
<1>3. QED
  BY <1>1, <1>2, ReportTypes

(* The steps of a review.                                                    *)
LEMMA ReviewTypes == ASSUME TypeInv, NEW r \in Runs, Review(r) PROVE TypeInv'
<1>1. Key(r) \in Keys
  BY DEF Review, CacheHit, ReplayMiss, LiveMiss, Authorize, BudgetStop, CheckPending, BlockedPending,
         RecordPending, Send, Persist, ReconcileUsage, MarkUnknown, Retry, GiveUp, TypeInv, Place, Key,
         InReview, Steps
<1>2. CASE CacheHit(r) \/ ReconcileUsage(r)
  <2>1. SharedTypes'
    BY <1>2 DEF CacheHit, ReconcileUsage, TypeInv, SharedTypes, storeVars, ledgerVars, providerVars
  <2>2. PICK decision \in Answers : Decide(r, decision)
    BY <1>1, <1>2 DEF CacheHit, ReconcileUsage, TypeInv, SharedTypes, LocalTypes
  <2>3. decision \in Reports /\ position' \in [Runs -> BOOLEAN]
    BY <2>2 DEF Decide, Reports, TypeInv, LocalTypes
  <2>4. QED
    BY <1>1, <2>1, <2>2, <2>3, ReportTypes DEF Decide, TypeInv
<1>3. CASE ReplayMiss(r) \/ BlockedPending(r)
  <2>1. SharedTypes'
    BY <1>3 DEF ReplayMiss, BlockedPending, TypeInv, SharedTypes, storeVars, ledgerVars, providerVars
  <2>2. PICK report \in Reports : Unavailable(r, report)
    BY <1>3 DEF ReplayMiss, BlockedPending, Reports
  <2>3. QED
    BY <1>1, <2>1, <2>2, UnavailableTypes DEF TypeInv
<1>4. CASE BudgetStop(r) \/ GiveUp(r) \/ MarkUnknown(r)
  <2>1. PICK state \in RequestStates : Mark(Key(r), state)
    BY <1>4 DEF BudgetStop, GiveUp, MarkUnknown, RequestStates
  <2>2. pending' \in [Keys -> RequestStates]
    BY <1>1, <2>1, MarkTypes
  <2>3. SharedTypes'
    BY <1>4, <2>2 DEF BudgetStop, GiveUp, MarkUnknown, TypeInv, SharedTypes, ledgerVars, providerVars
  <2>4. PICK report \in Reports :
          Unavailable(r, report) \/ (Report(r, report, "INTERRUPTED") /\ UNCHANGED position)
    BY <1>4 DEF BudgetStop, GiveUp, MarkUnknown, OutOfBudget, Reports
  <2>5. QED
    BY <1>1, <2>3, <2>4, UnavailableTypes DEF TypeInv
<1>5. CASE LiveMiss(r) \/ Authorize(r) \/ CheckPending(r) \/ RecordPending(r) \/ Send(r)
  <2>1. liveCalls[r] + 1 \in Nat /\ sent[r] + 1 \in Nat
    BY DEF TypeInv, SharedTypes
  <2>2. SharedTypes'
    BY <1>1, <1>5, <2>1 DEF LiveMiss, Authorize, CheckPending, RecordPending, Send, TypeInv, SharedTypes,
       RequestStates, storeVars, ledgerVars, providerVars
  <2>3. PICK step \in {"reserve", "select", "upsert", "send", "answer"} :
          Goto(r, step) /\ UNCHANGED localVars
    BY <1>5 DEF LiveMiss, Authorize, CheckPending, RecordPending, Send
  <2>4. QED
    BY <1>1, <2>2, <2>3, GotoTypes DEF TypeInv, Points, Steps, Key
<1>6. CASE Persist(r)
  <2>1. pending' \in [Keys -> RequestStates]
    BY <1>1, <1>6, MarkTypes DEF Persist, RequestStates
  <2>2. answer[r] \in Answers
    BY DEF TypeInv, LocalTypes
  <2>3. SharedTypes'
    BY <1>1, <1>6, <2>1, <2>2 DEF Persist, TypeInv, SharedTypes, ledgerVars, providerVars
  <2>4. QED
    BY <1>1, <1>6, <2>3, GotoTypes DEF Persist, TypeInv, Points, Steps, Key
<1>7. CASE Retry(r)
  <2>1. pending' \in [Keys -> RequestStates]
    BY <1>1, <1>7, MarkTypes DEF Retry, RequestStates
  <2>2. SharedTypes'
    BY <1>7, <2>1 DEF Retry, TypeInv, SharedTypes, ledgerVars, providerVars
  <2>3. attempt[r] + 1 \in 1 .. MaxAttempts
    BY <1>7, LimitAssumption DEF Retry, TypeInv, LocalTypes, Place
  <2>4. "reserve" \in Points /\ pc[r] \in InReview
    BY <1>7 DEF Retry, Points, InReview, Steps
  <2>5. LocalTypes' /\ \A q \in Runs : Place(q)'
    BY <1>7, <2>3, <2>4 DEF Retry, Goto, TypeInv, LocalTypes, Place
  <2>6. QED
    BY <2>2, <2>5 DEF TypeInv
<1>8. QED
  BY <1>2, <1>3, <1>4, <1>5, <1>6, <1>7 DEF Review

(* The steps of the provider.                                                *)
LEMMA ProviderTypes == ASSUME TypeInv, NEW r \in Runs, Provider(r) PROVE TypeInv'
<1>1. pc[r] = "answer" /\ at[r] \in Keys
  BY DEF Provider, Answered, Unusable, Refused, Lost, TypeInv, Place, InReview, Steps
<1>2. PICK charge \in 0 .. Reserve : Bill(r, charge)
  <2>1. CASE Answered(r)
    <3>1. PICK charge \in 1 .. Reserve : Bill(r, charge)
      BY <2>1 DEF Answered
    <3>2. charge \in 0 .. Reserve
      BY LimitAssumption
    <3>3. QED
      BY <3>1, <3>2
  <2>2. QED
    BY <2>1 DEF Provider, Unusable, Refused, Lost, MayBeBilled
<1>3. billed[r] + charge \in Nat
  BY <1>2, LimitAssumption DEF TypeInv, SharedTypes
<1>4. doubt' \subseteq Keys /\ dropped' \subseteq Keys
  BY <1>1 DEF Provider, Answered, Unusable, Refused, Lost, TypeInv, SharedTypes, Key
<1>5. SharedTypes'
  BY <1>2, <1>3, <1>4 DEF Bill, Provider, Answered, Unusable, Refused, Lost, TypeInv, SharedTypes,
     storeVars, ledgerVars
<1>6. CASE Answered(r)
  <2>1. PICK n \in 0 .. Reserve : usage' = [usage EXCEPT ![r] = n]
    <3>1. PICK cost \in 1 .. Reserve : \E n \in {cost, Reserve} : usage' = [usage EXCEPT ![r] = n]
      BY <1>6 DEF Answered
    <3>2. cost \in 0 .. Reserve /\ Reserve \in 0 .. Reserve
      BY LimitAssumption
    <3>3. QED
      BY <3>1, <3>2
  <2>2. PICK decision \in Answers : answer' = [answer EXCEPT ![r] = decision]
    BY <1>6 DEF Answered
  <2>3. LocalTypes' /\ \A q \in Runs : Place(q)'
    BY <1>1, <1>6, <2>1, <2>2 DEF Answered, Goto, TypeInv, LocalTypes, Place, Points, Steps
  <2>4. QED
    BY <1>5, <2>3 DEF TypeInv
<1>7. CASE Unusable(r) \/ Refused(r) \/ Lost(r)
  <2>1. PICK step \in {"give_up", "retry", "lost"} :
          Goto(r, step) /\ UNCHANGED localVars /\ (step = "retry" => attempt[r] # MaxAttempts)
    BY <1>7 DEF Unusable, Refused, Lost, LastAttempt
  <2>2. step = "retry" => attempt[r] < MaxAttempts
    <3>1. attempt[r] \in 1 .. MaxAttempts /\ MaxAttempts \in Nat
      BY LimitAssumption DEF TypeInv, LocalTypes
    <3>2. \A n \in 1 .. MaxAttempts : n # MaxAttempts => n < MaxAttempts
      BY <3>1
    <3>3. QED
      BY <2>1, <3>1, <3>2
  <2>3. QED
    BY <1>1, <1>5, <2>1, <2>2, GotoTypes DEF TypeInv, Points, Steps
<1>8. QED
  BY <1>6, <1>7 DEF Provider

(* Every step keeps the types.                                               *)
LEMMA TypeNext == TypeInv /\ [Next]_vars => TypeInv'
<1> SUFFICES ASSUME TypeInv, [Next]_vars PROVE TypeInv'
  OBVIOUS
<1>1. CASE UNCHANGED vars
  BY <1>1 DEF vars, storeVars, ledgerVars, localVars, memoryVars, providerVars, TypeInv, LocalTypes,
     SharedTypes, Place
<1>2. ASSUME NEW r \in Runs, Start(r) PROVE TypeInv'
  <2>1. SharedTypes'
    BY <1>2 DEF Start, TypeInv, SharedTypes, RunStates, storeVars, ledgerVars, providerVars
  <2>2. LocalTypes' /\ \A q \in Runs : Place(q)'
    BY <1>2 DEF Start, Goto, TypeInv, LocalTypes, Place, Points, InReview, Steps, Reports, memoryVars
  <2>3. QED
    BY <2>1, <2>2 DEF TypeInv
<1>3. ASSUME NEW r \in Runs, Interrupt(r) \/ Crash(r) PROVE TypeInv'
  <2>1. doubt' \subseteq Keys
    BY <1>3 DEF Interrupt, Crash, LeaveRequest, TypeInv, SharedTypes, Place, Key, InReview, Steps
  <2>2. SharedTypes'
    BY <1>3, <2>1 DEF Interrupt, Crash, TypeInv, SharedTypes, storeVars, ledgerVars
  <2>3. CASE Interrupt(r)
    BY <2>2, <2>3, GotoTypes DEF Interrupt, TypeInv, Points, Endings, InReview, Steps
  <2>4. CASE Crash(r)
    <3>1. records' \in [Runs -> [Keys -> Reports]]
      BY <2>4 DEF Crash, TypeInv, LocalTypes, Reports
    <3>2. QED
      BY <2>2, <2>4, <3>1, ExitTypes DEF Crash, TypeInv
  <2>5. QED
    BY <1>3, <2>3, <2>4
<1>4. QED
  BY <1>1, <1>2, <1>3, DriveTypes, ReviewTypes, ProviderTypes DEF Next, Work

(***************************************************************************)
(* Reports. What a program that runs, or that has completed, has reported   *)
(* agrees with the store: decisions are final, and a review that somebody   *)
(* reported UNKNOWN is asked for by nobody, so nothing changes its rows.    *)
(***************************************************************************)
Reporting(r) == pc[r] # "off" \/ status[r] = "COMPLETED"

AgreesOn(k, report) ==
  /\ report \in Answers => cache[k] = report
  /\ report = "UNKNOWN" => KnownInDoubt(k)

Agrees(r) == \A k \in Keys : AgreesOn(k, records[r][k])

Promises(r) ==
  /\ pc[r] = "lost" => KnownInDoubt(Key(r))
  /\ pc[r] = "reconcile" => cache[Key(r)] = answer[r]
  /\ pc[r] \in Asking => \A q \in Runs : Reporting(q) => records[q][Key(r)] # "UNKNOWN"

ReportInv ==
  /\ records \in [Runs -> [Keys -> Reports]] /\ status \in [Runs -> RunStates]
  /\ \A r \in Runs : Reporting(r) => Agrees(r)
  /\ \A r \in Runs : Promises(r)

(* A step of the only program r changes the store on its own key only, where *)
(* no report says UNKNOWN, and replaces no decision.                         *)
StoreStep(r) ==
  \A k \in Keys :
    /\ cache[k] # "NONE" => cache'[k] = cache[k]
    /\ KnownInDoubt(k) => KnownInDoubt(k)' \/ (k = Key(r) /\ pc[r] \in Asking)

OthersOff(r) == \A q \in Runs : q # r => pc'[q] = "off" /\ status'[q] = status[q]

(* Such a step keeps every report that was made before.                      *)
LEMMA ReportsStay ==
  ASSUME ReportInv, NEW r \in Runs, StoreStep(r), NEW q \in Runs, Reporting(q), NEW k \in Keys,
         records'[q][k] = records[q][k]
  PROVE  AgreesOn(k, records[q][k])'
<1> DEFINE report == records[q][k]
<1>1. AgreesOn(k, report)
  BY DEF ReportInv, Agrees
<1>2. report = "UNKNOWN" => KnownInDoubt(k) /\ ~(k = Key(r) /\ pc[r] \in Asking)
  BY <1>1 DEF ReportInv, Promises, AgreesOn
<1>3. report \in Answers => cache[k] = report /\ cache[k] # "NONE"
  BY <1>1 DEF AgreesOn, Answers
<1>4. /\ report \in Answers => cache'[k] = report
      /\ report = "UNKNOWN" => KnownInDoubt(k)'
  BY <1>2, <1>3 DEF StoreStep
<1>5. QED
  BY <1>4 DEF AgreesOn

(* The steps that report nothing.                                            *)
LEMMA SilentStep ==
  ASSUME ReportInv, NEW r \in Runs, OthersOff(r), pc[r] # "off", StoreStep(r),
         UNCHANGED records, status' \in [Runs -> RunStates], Promises(r)'
  PROVE  ReportInv'
<1>1. \A q \in Runs : q # r => ~(pc'[q] # "off")
  BY DEF OthersOff
<1>2. \A q \in Runs : Reporting(q)' => Reporting(q)
  BY DEF Reporting, OthersOff
<1>3. ASSUME NEW q \in Runs, Reporting(q)' PROVE Agrees(q)'
  BY <1>2, <1>3, ReportsStay DEF Agrees
<1>4. \A q \in Runs : Promises(q)'
  BY <1>1 DEF Promises, Asking
<1>5. QED
  BY <1>3, <1>4 DEF ReportInv

(* The end of a review that reports what the store holds.                    *)
LEMMA ReportStep ==
  ASSUME ReportInv, NEW r \in Runs, OthersOff(r), pc[r] # "off", StoreStep(r), UNCHANGED status,
         pc \in [Runs -> Points], NEW key \in Keys, key = Key(r),
         NEW report \in Reports, NEW step \in {"next"} \cup Endings, Report(r, report, step),
         AgreesOn(key, report)'
  PROVE  ReportInv'
<1>1. /\ records' = [records EXCEPT ![r][key] = report]
      /\ pc' = [pc EXCEPT ![r] = step]
  BY DEF Report, Goto
<1>2. /\ records' \in [Runs -> [Keys -> Reports]] /\ records'[r][key] = report
      /\ \A q \in Runs, k \in Keys : q # r \/ k # key => records'[q][k] = records[q][k]
  BY <1>1 DEF ReportInv
<1>3. \A q \in Runs : Reporting(q)' => Reporting(q)
  BY DEF Reporting, OthersOff
<1>4. ASSUME NEW q \in Runs, Reporting(q)', NEW k \in Keys PROVE AgreesOn(k, records[q][k])'
  <2>1. CASE q = r /\ k = key
    BY <1>2, <2>1 DEF AgreesOn, KnownInDoubt
  <2>2. CASE q # r \/ k # key
    BY <1>2, <1>3, <1>4, <2>2, ReportsStay
  <2>3. QED
    BY <2>1, <2>2
<1>5. \A q \in Runs : pc'[q] \in {"off", "next"} \cup Endings
  BY <1>1 DEF OthersOff
<1>6. \A q \in Runs : Promises(q)'
  BY <1>5 DEF Promises, Asking, Endings
<1>7. QED
  BY <1>2, <1>4, <1>6 DEF ReportInv, Agrees

(* A program that starts, or dies, has reported nothing.                     *)
LEMMA ResetStep ==
  ASSUME ReportInv, NEW r \in Runs, OthersOff(r), UNCHANGED storeVars,
         status' \in [Runs -> RunStates], pc'[r] \in {"off", "next"},
         records' = [records EXCEPT ![r] = [k \in Keys |-> "MISSING"]]
  PROVE  ReportInv'
<1>1. /\ records' \in [Runs -> [Keys -> Reports]]
      /\ \A k \in Keys : records'[r][k] = "MISSING"
      /\ \A q \in Runs : q # r => records'[q] = records[q]
  BY DEF ReportInv, Reports
<1>2. StoreStep(r)
  BY DEF StoreStep, storeVars, KnownInDoubt
<1>3. \A q \in Runs : q # r /\ Reporting(q)' => Reporting(q)
  BY DEF Reporting, OthersOff
<1>4. ASSUME NEW q \in Runs, Reporting(q)', NEW k \in Keys PROVE AgreesOn(k, records[q][k])'
  <2>1. CASE q = r
    BY <1>1, <2>1 DEF AgreesOn, Answers
  <2>2. CASE q # r
    BY <1>1, <1>2, <1>3, <1>4, <2>2, ReportsStay
  <2>3. QED
    BY <2>1, <2>2
<1>5. \A q \in Runs : pc'[q] \in {"off", "next"}
  BY DEF OthersOff
<1>6. \A q \in Runs : Promises(q)'
  BY <1>5 DEF Promises, Asking
<1>7. QED
  BY <1>1, <1>4, <1>6 DEF ReportInv, Agrees

(* The steps between two reviews, and the end of a run.                      *)
LEMMA DriveReports ==
  ASSUME ReportInv, DoubtInv, NEW r \in Runs, OthersOff(r), Drive(r)
  PROVE  ReportInv'
<1>1. StoreStep(r) /\ pc[r] # "off" /\ pc \in [Runs -> Points]
  BY DEF Drive, Finish, SkipEvent, SkipInDoubt, AskReview, EndRun, Endings, StoreStep, storeVars,
         KnownInDoubt, DoubtInv, Tables
<1>2. CASE SkipInDoubt(r)
  <2>1. /\ Key(r) \in Keys /\ KnownInDoubt(Key(r)) /\ Report(r, "UNKNOWN", "next")
        /\ UNCHANGED <<cache, pending, status>>
    BY <1>2 DEF SkipInDoubt, storeVars
  <2>2. PICK key \in Keys : key = Key(r)
    BY <2>1
  <2>3. AgreesOn(key, "UNKNOWN")'
    BY <2>1, <2>2 DEF AgreesOn, KnownInDoubt, Answers
  <2>4. QED
    BY <1>1, <2>1, <2>2, <2>3, ReportStep, "UNKNOWN" \in Reports DEF Reports
<1>3. CASE Finish(r) \/ SkipEvent(r) \/ AskReview(r)
  <2>1. pc'[r] \in {"COMPLETED", "next", "review"} /\ UNCHANGED <<records, status>>
    BY <1>1, <1>3 DEF Finish, SkipEvent, AskReview, Goto, localVars
  <2>2. Promises(r)'
    BY <2>1 DEF Promises, Asking
  <2>3. QED
    BY <1>1, <2>1, <2>2, SilentStep DEF ReportInv
<1>4. CASE EndRun(r)
  <2>1. pc'[r] = "off" /\ UNCHANGED records /\ status' \in [Runs -> RunStates]
    BY <1>1, <1>4 DEF EndRun, Exit, Goto, ReportInv, RunStates, Endings
  <2>2. Promises(r)'
    BY <2>1 DEF Promises, Asking
  <2>3. QED
    BY <1>1, <2>1, <2>2, SilentStep
<1>5. QED
  BY <1>2, <1>3, <1>4 DEF Drive

(* Nobody has reported UNKNOWN on the key that a live collection asks for.   *)
LEMMA AskedForIsUnreported ==
  ASSUME OneCollectorAtATime, ReportInv, DoubtInv, NEW r \in Runs, LiveMiss(r),
         NEW q \in Runs, Reporting(q)
  PROVE  records[q][Key(r)] # "UNKNOWN"
<1>1. Key(r) \in Keys /\ ~KnownInDoubt(Key(r))
  BY DEF LiveMiss, OneCollectorAtATime, DoubtInv, Control, InReview, Steps
<1>2. QED
  BY <1>1 DEF ReportInv, Agrees, AgreesOn

(* The steps of a review.                                                    *)
LEMMA ReviewReports ==
  ASSUME OneCollectorAtATime, ReportInv, DoubtInv, NEW r \in Runs, OthersOff(r), Review(r)
  PROVE  ReportInv'
<1>1. pc[r] # "off" /\ pc \in [Runs -> Points] /\ Key(r) \in Keys
  BY DEF Review, CacheHit, ReplayMiss, LiveMiss, Authorize, BudgetStop, CheckPending, BlockedPending,
         RecordPending, Send, Persist, ReconcileUsage, MarkUnknown, Retry, GiveUp, DoubtInv, Tables,
         Control, InReview, Steps
<1>2. PICK key \in Keys : key = Key(r)
  BY <1>1
<1>3. /\ cache \in [Keys -> Answers \cup {"NONE"}] /\ pending \in [Keys -> RequestStates]
      /\ answer \in [Runs -> Answers]
  BY DEF DoubtInv, Tables
<1>4. \A report \in {"MISSING", "ERROR"} : report \in Reports /\ AgreesOn(key, report)'
  BY DEF AgreesOn, Answers, Reports
<1>5. UNCHANGED storeVars => StoreStep(r)
  BY DEF StoreStep, storeVars, KnownInDoubt
<1>6. CASE CacheHit(r) \/ ReconcileUsage(r)
  <2>1. UNCHANGED <<cache, pending, status>>
    BY <1>6 DEF CacheHit, ReconcileUsage, storeVars
  <2>2. PICK decision \in Answers : Report(r, decision, "next") /\ cache[key] = decision
    BY <1>2, <1>3, <1>6 DEF CacheHit, ReconcileUsage, Decide, ReportInv, Promises
  <2>3. AgreesOn(key, decision)'
    BY <2>1, <2>2 DEF AgreesOn, Answers
  <2>4. QED
    BY <1>1, <1>2, <1>5, <2>1, <2>2, <2>3, ReportStep DEF Reports, storeVars
<1>7. CASE ReplayMiss(r) \/ BlockedPending(r)
  <2>1. UNCHANGED storeVars /\ UNCHANGED status
    BY <1>7 DEF ReplayMiss, BlockedPending
  <2>2. PICK report \in {"MISSING", "ERROR"}, step \in {"next"} \cup Endings : Report(r, report, step)
    BY <1>7 DEF ReplayMiss, BlockedPending, Unavailable, Endings
  <2>3. QED
    BY <1>1, <1>2, <1>4, <1>5, <2>1, <2>2, ReportStep
<1>8. CASE BudgetStop(r) \/ GiveUp(r)
  <2>1. pc[r] \in Asking /\ Mark(Key(r), "FAILED") /\ UNCHANGED <<cache, status>>
    BY <1>8 DEF BudgetStop, GiveUp, Asking
  <2>2. StoreStep(r)
    BY <1>3, <2>1 DEF StoreStep, Mark, KnownInDoubt
  <2>3. PICK step \in {"next"} \cup Endings : Report(r, "ERROR", step)
    BY <1>8 DEF BudgetStop, GiveUp, OutOfBudget, Unavailable, Endings
  <2>4. QED
    BY <1>1, <1>2, <1>4, <2>1, <2>2, <2>3, ReportStep
<1>9. CASE MarkUnknown(r)
  <2>1. KnownInDoubt(key)
    BY <1>2, <1>9 DEF MarkUnknown, ReportInv, Promises
  <2>2. Mark(key, "UNKNOWN") /\ UNCHANGED <<cache, status>>
    BY <1>2, <1>9 DEF MarkUnknown
  <2>3. \A k \in Keys : KnownInDoubt(k) => KnownInDoubt(k)'
    BY <1>3, <2>2 DEF Mark, KnownInDoubt, Unresolved
  <2>4. StoreStep(r) /\ AgreesOn(key, "UNKNOWN")'
    BY <2>1, <2>2, <2>3 DEF StoreStep, AgreesOn, Answers
  <2>5. PICK step \in {"next"} \cup Endings : Report(r, "UNKNOWN", step)
    BY <1>9 DEF MarkUnknown, Unavailable, Endings
  <2>6. QED
    BY <1>1, <1>2, <2>2, <2>4, <2>5, ReportStep, "UNKNOWN" \in Reports DEF Reports
<1>10. ASSUME pc[r] \in Asking \/ LiveMiss(r), UNCHANGED <<at, records, status>>,
              StoreStep(r), NEW step \in Points, Goto(r, step),
              step = "reconcile" => cache'[Key(r)] = answer'[r], step # "lost"
       PROVE  ReportInv'
  <2>1. pc'[r] = step
    BY <1>1, <1>10 DEF Goto
  <2>2. \A q \in Runs : Reporting(q)' => Reporting(q)
    BY <1>1, <1>10 DEF Reporting, OthersOff
  <2>3. \A q \in Runs : Reporting(q) => records[q][Key(r)] # "UNKNOWN"
    BY <1>10, AskedForIsUnreported DEF ReportInv, Promises
  <2>4. Promises(r)'
    BY <1>10, <2>1, <2>2, <2>3 DEF Promises, Key
  <2>5. QED
    BY <1>1, <1>10, <2>4, SilentStep DEF ReportInv
<1>11. CASE LiveMiss(r) \/ Authorize(r) \/ CheckPending(r) \/ Send(r)
  <2>1. /\ pc[r] \in Asking \/ LiveMiss(r)
        /\ UNCHANGED <<at, records, status>> /\ UNCHANGED storeVars
    BY <1>11 DEF LiveMiss, Authorize, CheckPending, Send, Asking, localVars, memoryVars
  <2>2. PICK step \in {"reserve", "select", "upsert", "answer"} : Goto(r, step)
    BY <1>11 DEF LiveMiss, Authorize, CheckPending, Send
  <2>3. QED
    BY <1>5, <1>10, <2>1, <2>2 DEF Points, Steps
<1>12. CASE RecordPending(r)
  <2>1. /\ pc[r] \in Asking /\ UNCHANGED <<at, records, status, cache>> /\ Goto(r, "send")
        /\ pending' = [pending EXCEPT ![Key(r)] = "PENDING"]
    BY <1>12 DEF RecordPending, Asking, localVars, memoryVars
  <2>2. StoreStep(r)
    BY <1>3, <2>1 DEF StoreStep, KnownInDoubt
  <2>3. QED
    BY <1>10, <2>1, <2>2, "send" \in Points DEF Points, Steps
<1>13. CASE Persist(r)
  <2>1. /\ pc[r] \in Asking /\ UNCHANGED <<at, records, status, answer>> /\ Goto(r, "reconcile")
        /\ Mark(Key(r), "COMPLETED")
        /\ cache' = [cache EXCEPT ![Key(r)] = IF @ = "NONE" THEN answer[r] ELSE @]
    BY <1>13 DEF Persist, Asking, localVars, memoryVars
  <2>2. cache[Key(r)] = "NONE"
    BY <2>1 DEF DoubtInv, Control
  <2>3. cache'[Key(r)] = answer'[r]
    BY <1>1, <1>3, <2>1, <2>2
  <2>4. StoreStep(r)
    BY <1>1, <1>3, <2>1, <2>2 DEF StoreStep, Mark, KnownInDoubt
  <2>5. QED
    BY <1>10, <2>1, <2>3, <2>4, "reconcile" \in Points DEF Points, Steps
<1>14. CASE Retry(r)
  <2>1. /\ pc[r] \in Asking /\ UNCHANGED <<at, records, status, cache>> /\ Goto(r, "reserve")
        /\ Mark(Key(r), "FAILED")
    BY <1>14 DEF Retry, Asking
  <2>2. StoreStep(r)
    BY <1>3, <2>1 DEF StoreStep, Mark, KnownInDoubt
  <2>3. QED
    BY <1>10, <2>1, <2>2, "reserve" \in Points DEF Points, Steps
<1>15. QED
  BY <1>6, <1>7, <1>8, <1>9, <1>11, <1>12, <1>13, <1>14 DEF Review

(* What becomes of a request, and the end of a program from outside.         *)
LEMMA OutsideReports ==
  ASSUME ReportInv, DoubtInv, NEW r \in Runs, OthersOff(r), Provider(r) \/ Interrupt(r)
  PROVE  ReportInv'
<1>1. /\ UNCHANGED <<cache, pending, at, records, status>> /\ pc[r] # "off"
      /\ pc \in [Runs -> Points]
  BY DEF Provider, Answered, Unusable, Refused, Lost, Interrupt, Steps, storeVars, localVars, memoryVars,
         DoubtInv, Tables
<1>2. StoreStep(r)
  BY <1>1 DEF StoreStep, KnownInDoubt
<1>3. \A q \in Runs : Reporting(q)' => Reporting(q)
  BY <1>1 DEF Reporting, OthersOff
<1>4. Promises(r)'
  <2>1. CASE Provider(r)
    <3>1. /\ pc[r] = "answer"
          /\ pc'[r] \in {"persist", "give_up", "retry", "lost"}
      BY <1>1, <2>1 DEF Provider, Answered, Unusable, Refused, Lost, Goto
    <3>2. KnownInDoubt(Key(r)) /\ \A q \in Runs : Reporting(q) => records[q][Key(r)] # "UNKNOWN"
      BY <3>1 DEF DoubtInv, Control, Asking, OnRecord, KnownInDoubt, Unresolved, ReportInv, Promises
    <3>3. QED
      BY <1>1, <1>3, <3>1, <3>2 DEF Promises, Key, KnownInDoubt
  <2>2. CASE Interrupt(r)
    <3>1. pc'[r] = "INTERRUPTED"
      BY <1>1, <2>2 DEF Interrupt, Goto
    <3>2. QED
      BY <3>1 DEF Promises, Asking
  <2>3. QED
    BY <2>1, <2>2
<1>5. QED
  BY <1>1, <1>2, <1>4, SilentStep DEF ReportInv

(* Every step keeps the reports true.                                        *)
LEMMA ReportNext ==
  OneCollectorAtATime /\ DoubtInv /\ DoubtInv' /\ ReportInv /\ [Next]_vars => ReportInv'
<1> SUFFICES ASSUME OneCollectorAtATime, DoubtInv, DoubtInv', ReportInv, [Next]_vars
             PROVE  ReportInv'
  OBVIOUS
<1>1. CASE UNCHANGED vars
  BY <1>1 DEF vars, storeVars, localVars, memoryVars, ReportInv, Reporting, Agrees, AgreesOn, Promises,
              KnownInDoubt, Key
<1>2. ASSUME NEW r \in Runs, Start(r) PROVE ReportInv'
  <2>1. /\ pc' = [pc EXCEPT ![r] = "next"] /\ status' = [status EXCEPT ![r] = "RUNNING"]
        /\ records' = [records EXCEPT ![r] = [k \in Keys |-> "MISSING"]] /\ UNCHANGED storeVars
    BY <1>2 DEF Start, Goto
  <2>2. pc'[r] = "next" /\ OthersOff(r)
    BY <2>1 DEF OthersOff, DoubtInv, Tables, OneProgram, Alone, ReportInv
  <2>3. status' \in [Runs -> RunStates]
    BY <2>1 DEF ReportInv, RunStates
  <2>4. QED
    BY <2>1, <2>2, <2>3, ResetStep
<1>3. ASSUME NEW r \in Runs, Work(r) \/ Interrupt(r) \/ Crash(r) PROVE ReportInv'
  <2>1. pc[r] # "off"
    BY <1>3
    DEF Work, Drive, Finish, SkipEvent, SkipInDoubt, AskReview, EndRun, Review, CacheHit, ReplayMiss,
        LiveMiss, Authorize, BudgetStop, CheckPending, BlockedPending, RecordPending, Send, Persist,
        ReconcileUsage, MarkUnknown, Retry, GiveUp, Provider, Answered, Unusable, Refused, Lost,
        Interrupt, Crash, Endings, Steps
  <2>2. Alone(r)
    BY <2>1 DEF DoubtInv, OneProgram
  <2>3. \A q \in Runs : q # r => pc'[q] = pc[q] /\ status'[q] = status[q]
    <3>1. CASE Drive(r)
      BY <3>1 DEF Drive, Finish, SkipEvent, SkipInDoubt, AskReview, EndRun, Exit, Report, Goto, ReportInv,
                  DoubtInv, Tables
    <3>2. CASE Review(r)
      BY <3>2 DEF Review, CacheHit, ReplayMiss, LiveMiss, Authorize, BudgetStop, CheckPending,
                  BlockedPending, RecordPending, Send, Persist, ReconcileUsage, MarkUnknown, Retry,
                  GiveUp, Decide, Unavailable, OutOfBudget, Report, Goto, ReportInv, DoubtInv, Tables
    <3>3. CASE Provider(r) \/ Interrupt(r) \/ Crash(r)
      BY <3>3 DEF Provider, Answered, Unusable, Refused, Lost, Interrupt, Crash, Exit, Goto, ReportInv,
                  DoubtInv, Tables
    <3>4. QED
      BY <1>3, <3>1, <3>2, <3>3 DEF Work
  <2>4. OthersOff(r)
    BY <2>2, <2>3 DEF OthersOff, Alone
  <2>5. CASE Crash(r)
    <3>1. pc'[r] = "off" /\ UNCHANGED storeVars /\ status' \in [Runs -> RunStates]
          /\ records' = [records EXCEPT ![r] = [k \in Keys |-> "MISSING"]]
      BY <2>5 DEF Crash, Exit, Goto, DoubtInv, Tables, ReportInv
    <3>2. QED
      BY <2>4, <3>1, ResetStep
  <2>6. QED
    BY <1>3, <2>4, <2>5, DriveReports, ReviewReports, OutsideReports DEF Work
<1>4. QED
  BY <1>1, <1>2, <1>3 DEF Next

(***************************************************************************)
(* Theorems                                                                *)
(***************************************************************************)
(* The books of every run are in order in every reachable state.             *)
THEOREM BooksInOrder == Spec => []LedgerInv
<1>1. Init => LedgerInv
  BY LedgerInit
<1>2. LedgerInv /\ [Next]_vars => LedgerInv'
  BY LedgerNext
<1>3. QED
  BY <1>1, <1>2, PTL DEF Spec

(* No run makes more calls, or costs more, than its limits allow, for any    *)
(* number of programs, any interleaving and any number of resumes.           *)
THEOREM NeverOverspent == Spec => []SpendWithinBudget
<1>1. LedgerInv => SpendWithinBudget
  <2> SUFFICES ASSUME LedgerInv, NEW r \in Runs
               PROVE  /\ sent[r] <= liveCalls[r] /\ liveCalls[r] <= MaxLiveCalls
                      /\ billed[r] <= estimated[r] /\ estimated[r] <= MaxCost
    BY DEF SpendWithinBudget
  <2>1. Unsent(r) \in Nat /\ Outstanding(r) \in Nat
    BY LimitAssumption DEF LedgerInv, LedgerTypes, Unsent, Outstanding
  <2>2. QED
    BY <2>1, LimitAssumption DEF LedgerInv, LedgerTypes, Ledger
<1>2. QED
  BY <1>1, BooksInOrder, PTL

(* Every variable keeps its type, and the ledger never becomes negative.     *)
THEOREM TypesHold == Spec => []TypeOK
<1>1. LedgerInv /\ TypeInv => TypeOK
  <2> SUFFICES ASSUME LedgerInv, TypeInv PROVE TypeOK
    OBVIOUS
  <2>1. \A r \in Runs : estimated[r] \in Nat
    <3>1. SUFFICES ASSUME NEW r \in Runs PROVE estimated[r] \in Nat
      OBVIOUS
    <3>2. Outstanding(r) \in Nat
      BY LimitAssumption DEF LedgerInv, LedgerTypes, Outstanding
    <3>3. estimated[r] \in Int /\ billed[r] \in Nat /\ billed[r] + Outstanding(r) <= estimated[r]
      BY DEF LedgerInv, LedgerTypes, Ledger, TypeInv, SharedTypes
    <3>4. QED
      BY <3>2, <3>3
  <2>2. estimated \in [Runs -> Nat]
    BY <2>1 DEF LedgerInv, LedgerTypes
  <2>3. QED
    BY <2>2 DEF TypeInv, LocalTypes, SharedTypes, Points, TypeOK
<1>2. QED
  BY <1>1, TypeInit, TypeNext, BooksInOrder, PTL DEF Spec

(* When live runs are collections and run one after the other, no request is *)
(* sent for a review that is cached, or whose request was cut off or lost    *)
(* with a recognised error, whatever crashes, is interrupted or runs out of  *)
(* budget in between. With a live full backtest this is false, and it says   *)
(* nothing of requests lost with an error of the SDK (NoRepeatedPurchase).   *)
THEOREM CutRequestsAreNotRepeated ==
  ASSUME OneCollectorAtATime
  PROVE  Spec => NoPurchaseAfterCut
<1> DEFINE BuysNew ==
      \A r \in Runs : Sends(r) => Key(r) \notin doubt /\ cache[Key(r)] = "NONE"
<1>1. Init => DoubtInv
  BY DoubtInit
<1>2. DoubtInv /\ [Next]_vars => DoubtInv'
  BY DoubtNext
<1>3. LedgerInv /\ DoubtInv /\ [Next]_vars => [BuysNew]_vars
  <2> SUFFICES ASSUME LedgerInv, DoubtInv,
                      NEW p \in Runs, Start(p) \/ Work(p) \/ Interrupt(p) \/ Crash(p),
                      NEW r \in Runs, Sends(r)
               PROVE  Key(r) \notin doubt /\ cache[Key(r)] = "NONE"
    BY DEF Next
  <2>1. Send(p)
    BY DEF Start, Work, Drive, Finish, SkipEvent, SkipInDoubt, AskReview, EndRun, Review, CacheHit,
           ReplayMiss, LiveMiss, Authorize, BudgetStop, CheckPending, BlockedPending, RecordPending,
           Persist, ReconcileUsage, MarkUnknown, Retry, GiveUp, Provider, Answered, Unusable, Refused,
           Lost, Interrupt, Crash, Sends, providerVars
  <2>2. r = p
    BY <2>1 DEF Send, Sends, LedgerInv, LedgerTypes
  <2>3. QED
    BY <2>1, <2>2 DEF Send, DoubtInv, Control, Asking
<1>4. QED
  BY <1>1, <1>2, <1>3, BooksInOrder, PTL DEF Spec, NoPurchaseAfterCut

(* What a completed run reports is what the store holds, then and ever after,*)
(* when live runs are collections and run one after the other.               *)
THEOREM ReportsStayTrue ==
  ASSUME OneCollectorAtATime
  PROVE  Spec => []ReportAgreesWithStore
<1>1. Init => DoubtInv /\ ReportInv
  <2> SUFFICES ASSUME Init PROVE ReportInv
    BY DoubtInit
  <2>1. QED
    BY DEF Init, ReportInv, Reports, RunStates, Reporting, Promises, Asking
<1>2. DoubtInv /\ ReportInv /\ [Next]_vars => (DoubtInv /\ ReportInv)'
  BY DoubtNext, ReportNext
<1>3. ReportInv => ReportAgreesWithStore
  BY DEF ReportInv, Reporting, Agrees, AgreesOn, ReportedDecisionIsCached, ReportAgreesWithStore
<1>4. QED
  BY <1>1, <1>2, <1>3, PTL DEF Spec
============================================================================
