--------------------------- MODULE SafeApplyProofs ---------------------------
(***************************************************************************)
(* Type correctness and the safety invariants of SafeApply, for every set  *)
(* of changes, objects and domains, every budget and any number of events. *)
(* The safety invariants are proved through one inductive invariant, IInv; *)
(* from it follow what a step may never do, and that the engine implements *)
(* SafeApplyContract.                                                      *)
(***************************************************************************)
EXTENDS SafeApply, TLAPS

(***************************************************************************)
(* Type correctness.                                                       *)
(***************************************************************************)

\* The records the model builds have their types.
LEMMA ConstantTypes ==
  /\ NoDeadline \in DeadlineType
  /\ NoOutcome \in OutcomeType
  /\ NoSafety \in SafetyType
  /\ Idle \in ActivityType
  /\ Base \in [Port -> RowType]
  /\ NoPlan \in PlanType
  /\ NoView \in ViewType
  /\ Rest \in WatchType
<1>1. NoDeadline \in DeadlineType
  BY DEF NoDeadline, DeadlineType
<1>2. NoOutcome \in OutcomeType
  BY DEF NoOutcome, Outcome, OutcomeType, OutcomeReason
<1>3. NoSafety \in SafetyType
  BY <1>1, <1>2 DEF NoSafety, SafetyType, SafeState, SafetyReason, OutcomeReason, TriggerReason
<1>4. Idle \in ActivityType
  BY <1>2, <1>3 DEF Idle, ActivityType, Pc
<1>5. Base \in [Port -> RowType]
  BY DEF Base, RowType
<1>6. NoPlan \in PlanType
  BY <1>5 DEF NoPlan, PlanType
<1>7. NoView \in ViewType
  BY <1>5 DEF NoView, ViewType
<1>8. Rest \in WatchType
  BY DEF Rest, WatchType
<1> QED
  BY <1>1, <1>2, <1>3, <1>4, <1>5, <1>6, <1>7, <1>8

\* Observe returns an outcome for every prior outcome.
LEMMA ObserveType ==
  ASSUME NEW t \in Txn, NEW k \in Kind, NEW prior \in OutcomeType
  PROVE  Observe(t, k, prior) \in OutcomeType
BY DEF Observe, OutcomeType, OutcomeReason

\* The outcomes the executor itself makes.
LEMMA OutcomeTypes ==
  /\ \A reason \in OutcomeReason :
       NotSent(reason) \in OutcomeType /\ Unknown(reason) \in OutcomeType
  /\ LostReply \in OutcomeType
  /\ Outcome("not-sent", "not-applied", "admitted") \in OutcomeType
  /\ \A n \in Nat :
       [Outcome("committed", "pending", "ovsdb-committed") EXCEPT !.target = n] \in OutcomeType
<1>1. \A reason \in OutcomeReason :
        NotSent(reason) \in OutcomeType /\ Unknown(reason) \in OutcomeType
  BY DEF NotSent, Unknown, Outcome, OutcomeType
<1>2. LostReply \in OutcomeType
  BY <1>1 DEF LostReply, OutcomeReason
<1>3. Outcome("not-sent", "not-applied", "admitted") \in OutcomeType
  BY DEF Outcome, OutcomeType, OutcomeReason
<1>4. \A n \in Nat :
        [Outcome("committed", "pending", "ovsdb-committed") EXCEPT !.target = n] \in OutcomeType
  BY DEF Outcome, OutcomeType, OutcomeReason
<1> QED
  BY <1>1, <1>2, <1>3, <1>4

\* A new deadline lies at or after time zero.
LEMMA DeadlineTypes ==
  ASSUME WorldOK, NEW duration \in Nat
  PROVE  NewDeadline(duration) \in DeadlineType
BY DEF WorldOK, NewDeadline, DeadlineType

\* Handing the claim on, or back, keeps the types of the process.
LEMMA WorkType ==
  ASSUME ProcessOK, NEW t \in Txn, NEW pc \in Pc, NEW q \in Nat, NEW s \in SafetyType,
         NEW o \in OutcomeType, Work(t, pc, q, s, o)
  PROVE  proc' \in [Txn -> ActivityType]
BY DEF ProcessOK, Work, ActivityType

\* Ending an activity keeps the process state well typed.
LEMMA ReleaseType ==
  ASSUME ProcessOK, NEW t \in Txn, Release(t) \/ Abort(t)
  PROVE  proc' \in [Txn -> ActivityType] /\ watch' \in WatchType
BY ConstantTypes DEF ProcessOK, Release, Abort, WatchType

\* So does holdSafety.
LEMMA HoldType ==
  ASSUME ProcessOK, NEW t \in Txn, NEW q \in Nat, NEW s \in SafetyType, NEW state \in SafeState,
         NEW reason \in SafetyReason, holdSafety(t, q, s, state, reason)
  PROVE  proc' \in [Txn -> ActivityType] /\ watch' \in WatchType
<1>1. CASE s.state = state /\ s.reason = reason
  BY <1>1, ReleaseType DEF holdSafety
<1>2. CASE ~(s.state = state /\ s.reason = reason)
  <2> DEFINE held == [s EXCEPT !.state = state, !.reason = reason, !.healthy = FALSE]
  <2>1. held \in SafetyType
    BY DEF SafetyType
  <2>2. Work(t, "hold", q, held, NoOutcome) /\ UNCHANGED watch
    BY <1>2 DEF holdSafety
  <2>3. "hold" \in Pc
    BY DEF Pc
  <2> HIDE DEF held
  <2> QED
    BY <2>1, <2>2, <2>3, WorkType, ConstantTypes DEF ProcessOK
<1> QED
  BY <1>1, <1>2

\* The journal's transactions keep the types of the journal.
LEMMA TransitionType ==
  ASSUME TypeOK, NEW t \in Txn, NEW o \in OutcomeType, NEW state \in FieldState,
         transition(t, o, state)
  PROVE  JournalOK'
BY DEF TypeOK, JournalOK, WorldOK, transition, fieldJob, JobState

\* saveOutcome keeps the journal well typed.
LEMMA SaveOutcomeType ==
  ASSUME TypeOK, NEW t \in Txn, NEW o \in OutcomeType, saveOutcome(t, o)
  PROVE  JournalOK'
<1> DEFINE state == stateFor(t, o)
           late  == state = "recovery-required" /\ o.applied = "pending"
                      /\ clock.wall - born[t] >= AppliedFor
           saved == IF late THEN [o EXCEPT !.reason = "applied-budget-exhausted"] ELSE o
<1>1. state \in FieldState
  BY DEF stateFor, FieldState
<1>2. saved \in OutcomeType
  BY DEF OutcomeType, OutcomeReason
<1>3. UNCHANGED dbVars \/ transition(t, saved, state)
  BY DEF saveOutcome
<1>4. CASE UNCHANGED dbVars
  BY <1>4 DEF TypeOK, JournalOK, dbVars
<1>5. CASE transition(t, saved, state)
  <2> HIDE DEF saved, state
  <2> QED
    BY <1>1, <1>2, <1>5, TransitionType
<1> QED
  BY <1>3, <1>4, <1>5

\* updateSafety keeps the journal well typed.
LEMMA UpdateSafetyType ==
  ASSUME TypeOK, NEW t \in Txn, NEW s \in SafetyType, NEW state \in FieldState,
         NEW o \in OutcomeType, updateSafety(t, s, state, o)
  PROVE  JournalOK'
BY DEF TypeOK, JournalOK, WorldOK, updateSafety, jobFor, JobState

\* So does saveSafety.
LEMMA SaveSafetyType ==
  ASSUME TypeOK, NEW t \in Txn, NEW q \in Nat, NEW s \in SafetyType, saveSafety(t, q, s)
  PROVE  JournalOK'
BY UpdateSafetyType DEF saveSafety, TypeOK, JournalOK

\* What the caller of Commit does with an outcome.
LEMMA ReturnType ==
  ASSUME TypeOK, NEW t \in Txn, NEW k \in Kind, NEW o \in OutcomeType, Return(t, k, o)
  PROVE  proc' \in [Txn -> ActivityType]
<1>1. CASE k = "apply"
  BY <1>1, WorkType, ConstantTypes DEF Return, Pc, TypeOK
<1>2. CASE k # "apply"
  <2> DEFINE s == [safe[t] EXCEPT !.outcome = o]
             r == IF o.commit = "rejected"
                  THEN [s EXCEPT !.state = "rollback-conflict",
                                 !.reason = "rollback-transaction-rejected"]
                  ELSE [s EXCEPT !.reason = o.reason]
  <2>1. safe[t] \in SafetyType /\ seq[t] \in Nat
    BY DEF TypeOK, JournalOK
  <2>2. o.reason \in SafetyReason /\ "rollback-transaction-rejected" \in SafetyReason
    BY DEF OutcomeType, SafetyReason
  <2>3. s \in SafetyType
    BY <2>1 DEF SafetyType
  <2>4. r \in SafetyType
    <3> HIDE DEF s
    <3> QED
      BY <2>2, <2>3 DEF SafetyType, SafeState
  <2>5. Work(t, "hold", seq[t], r, NoOutcome) /\ "hold" \in Pc
    BY <1>2 DEF Return, Pc
  <2> HIDE DEF r, s
  <2> QED
    BY <2>1, <2>4, <2>5, WorkType, ConstantTypes DEF TypeOK
<1> QED
  BY <1>1, <1>2

\* The updates of the Safe Apply record keep its type.
LEMMA RecordTypes ==
  ASSUME WorldOK, NEW s \in SafetyType, NEW w \in Nat
  PROVE  /\ Healthy(s, w) \in SafetyType
         /\ [s EXCEPT !.fails = @ + 1, !.healthy = FALSE] \in SafetyType
         /\ [s EXCEPT !.rollback = TRUE, !.state = "rolling-back",
                      !.reason = "rollback-dispatch-durable", !.healthy = FALSE,
                      !.outcome = Unknown("rollback-dispatch-durable")] \in SafetyType
         /\ [s EXCEPT !.state = "rolled-back", !.healthy = TRUE,
                      !.reason = "rollback-applied-management-reachable"] \in SafetyType
         /\ [s EXCEPT !.state = "recovery-required",
                      !.reason = "rollback-management-path-unverified"] \in SafetyType
         /\ [s EXCEPT !.state = "confirmed", !.healthy = TRUE,
                      !.reason = "connectivity-confirmed"] \in SafetyType
         /\ [s EXCEPT !.state = "rollback-requested",
                      !.reason = "authorized-rollback-requested"] \in SafetyType
<1>1. NewDeadline(ConfirmationWindow) \in DeadlineType
  BY DeadlineTypes, SafeApplyAssumption
<1>2. Unknown("rollback-dispatch-durable") \in OutcomeType
  BY OutcomeTypes DEF OutcomeReason
<1>3. {"rollback-dispatch-durable", "rollback-applied-management-reachable",
       "rollback-management-path-unverified", "connectivity-confirmed",
       "authorized-rollback-requested", "applied-management-reachable"} \subseteq SafetyReason
  BY DEF SafetyReason, OutcomeReason
<1>4. Healthy(s, w) \in SafetyType
  BY <1>1, <1>3 DEF Healthy, SafetyType, SafeState
<1>5. [s EXCEPT !.fails = @ + 1, !.healthy = FALSE] \in SafetyType
  <2>1. s.fails + 1 \in Nat
    <3>1. s.fails \in Nat
      BY DEF SafetyType
    <3> QED
      BY <3>1
  <2>2. \A n \in Nat : [s EXCEPT !.fails = n, !.healthy = FALSE] \in SafetyType
    BY DEF SafetyType
  <2> QED
    BY <2>1, <2>2
<1>6. [s EXCEPT !.rollback = TRUE, !.state = "rolling-back",
               !.reason = "rollback-dispatch-durable", !.healthy = FALSE,
               !.outcome = Unknown("rollback-dispatch-durable")] \in SafetyType
  BY <1>2, <1>3 DEF SafetyType, SafeState
<1>7. [s EXCEPT !.state = "rolled-back", !.healthy = TRUE,
               !.reason = "rollback-applied-management-reachable"] \in SafetyType
  BY <1>3 DEF SafetyType, SafeState
<1>8. [s EXCEPT !.state = "recovery-required",
               !.reason = "rollback-management-path-unverified"] \in SafetyType
  BY <1>3 DEF SafetyType, SafeState
<1>9. [s EXCEPT !.state = "confirmed", !.healthy = TRUE,
               !.reason = "connectivity-confirmed"] \in SafetyType
  BY <1>3 DEF SafetyType, SafeState
<1>10. [s EXCEPT !.state = "rollback-requested",
                !.reason = "authorized-rollback-requested"] \in SafetyType
  BY <1>3 DEF SafetyType, SafeState
<1> QED
  BY <1>4, <1>5, <1>6, <1>7, <1>8, <1>9, <1>10

\* What TypeOK says of one transaction.
LEMMA LocalTypes ==
  ASSUME TypeOK, NEW t \in Txn
  PROVE  /\ field[t] \in FieldState /\ out[t] \in OutcomeType /\ seq[t] \in Nat
         /\ safe[t] \in SafetyType /\ safe[t].outcome \in OutcomeType
         /\ proc[t].pc \in Pc /\ proc[t].q \in Nat /\ proc[t].w \in Nat
         /\ proc[t].s \in SafetyType /\ proc[t].o \in OutcomeType
         /\ proc[t].s.outcome \in OutcomeType
         /\ out[t].reason \in SafetyReason /\ proc[t].o.reason \in SafetyReason
BY DEF TypeOK, JournalOK, ProcessOK, SafetyType, ActivityType, OutcomeType, SafetyReason

\* What a step leaves alone keeps its type.
LEMMA FrameTypes ==
  ASSUME TypeOK
  PROVE  /\ UNCHANGED dbVars => JournalOK'
         /\ UNCHANGED worldVars => WorldOK'
         /\ UNCHANGED histVars => HistoryOK'
         /\ UNCHANGED procVars => ProcessOK'
BY DEF TypeOK, JournalOK, WorldOK, HistoryOK, ProcessOK, dbVars, worldVars, histVars, procVars

\* An event takes one off the budget.
LEMMA SpendType ==
  ASSUME WorldOK, NEW e, Spend(e)
  PROVE  budget' \in Nat
BY DEF WorldOK, Spend

\* Every client request keeps the types.
LEMMA ClientTypes ==
  ASSUME TypeOK, NEW t \in Txn, Client(t)
  PROVE  TypeOK'
<1> USE LocalTypes, ConstantTypes
<1>1. CASE Prepare(t)
  <2>1. proc' \in [Txn -> ActivityType]
    BY <1>1, WorkType DEF Prepare, Pc, TypeOK
  <2>2. JournalOK'
    BY <1>1 DEF Prepare, TypeOK, JournalOK, WorldOK, ViewType, PlanType
  <2> QED
    BY <1>1, <2>1, <2>2, FrameTypes DEF Prepare, TypeOK, ProcessOK
<1>2. CASE ReconcileRequested(t)
  <2>1. proc' \in [Txn -> ActivityType]
    BY <1>2, WorkType DEF ReconcileRequested, Pc, TypeOK
  <2>2. WorldOK'
    BY <1>2, SpendType DEF ReconcileRequested, TypeOK, WorldOK
  <2> QED
    BY <1>2, <2>1, <2>2, FrameTypes DEF ReconcileRequested, TypeOK, ProcessOK
<1>3. CASE DecideConfirm(t)
  <2>1. proc' \in [Txn -> ActivityType]
    BY <1>3, WorkType DEF DecideConfirm, Pc, TypeOK
  <2> QED
    BY <1>3, <2>1, FrameTypes DEF DecideConfirm, TypeOK, ProcessOK
<1>4. CASE DecideRollback(t)
  <2>1. proc' \in [Txn -> ActivityType]
    BY <1>4, WorkType DEF DecideRollback, Pc, TypeOK
  <2>2. WorldOK'
    BY <1>4, SpendType DEF DecideRollback, TypeOK, WorldOK
  <2> QED
    BY <1>4, <2>1, <2>2, FrameTypes DEF DecideRollback, TypeOK, ProcessOK
<1> QED
  BY <1>1, <1>2, <1>3, <1>4 DEF Client

\* Every step of admission, dispatch and reply handling keeps the types.
LEMMA TransactTypes ==
  ASSUME TypeOK, NEW t \in Txn, NEW k \in Kind, Transact(t, k)
  PROVE  TypeOK'
<1> USE LocalTypes, ConstantTypes, OutcomeTypes
<1>1. CASE Send(t, k)
  <2>1. proc' \in [Txn -> ActivityType]
    BY <1>1, WorkType DEF Send, AwaitPc, Pc, TypeOK
  <2>2. WorldOK' /\ HistoryOK'
    BY <1>1 DEF Send, TypeOK, WorldOK, HistoryOK, Kind
  <2> QED
    BY <1>1, <2>1, <2>2, FrameTypes DEF Send, TypeOK, ProcessOK
<1>2. CASE SendFails(t, k)
  <2>1. proc' \in [Txn -> ActivityType]
    BY <1>2, ReturnType DEF SendFails, OutcomeReason
  <2>2. WorldOK'
    BY <1>2, SpendType DEF SendFails, TypeOK, WorldOK
  <2> QED
    BY <1>2, <2>1, <2>2, FrameTypes DEF SendFails, TypeOK, ProcessOK
<1>3. CASE ReplyUnknown(t, k)
  <2>1. proc' \in [Txn -> ActivityType]
    BY <1>3, ReturnType DEF ReplyUnknown
  <2>2. WorldOK'
    BY <1>3, SpendType DEF ReplyUnknown, TypeOK, WorldOK
  <2> QED
    BY <1>3, <2>1, <2>2, FrameTypes DEF ReplyUnknown, TypeOK, ProcessOK
<1> QED
  BY <1>1, <1>2, <1>3 DEF Transact

\* Every step of the dispatch worker and of Reconcile is well typed.
LEMMA WorkerTypes ==
  ASSUME TypeOK, NEW t \in Txn,
         \/ Admit(t) \/ AdmitRefused(t) \/ Dispatch(t) \/ DispatchDenied(t)
         \/ SaveReply(t) \/ Reconcile(t) \/ ObserveField(t) \/ SaveField(t)
         \/ StoreFails(t)
  PROVE  TypeOK'
<1> USE LocalTypes, ConstantTypes, OutcomeTypes
<1>1. CASE Admit(t)
  <2>1. proc' \in [Txn -> ActivityType]
    BY <1>1, WorkType DEF Admit, Pc, TypeOK
  <2>2. admitSafety \in SafetyType
    <3>1. NewDeadline(PreparationBudget) \in DeadlineType
      BY DeadlineTypes, SafeApplyAssumption DEF TypeOK
    <3>2. mgr.domain \in Domain
      BY DEF TypeOK, ProcessOK
    <3> QED
      BY <3>1, <3>2 DEF admitSafety, SafetyType, SafeState, SafetyReason
  <2>3. prot' \subseteq Port \X Txn
    BY <1>1, SafeApplyAssumption DEF Admit, TypeOK, JournalOK
  <2>4. JournalOK'
    BY <1>1, <2>2, <2>3 DEF Admit, TypeOK, JournalOK, WorldOK, FieldState, JobState
  <2> QED
    BY <1>1, <2>1, <2>4, FrameTypes DEF Admit, TypeOK, ProcessOK
<1>2. CASE AdmitRefused(t)
  <2>1. proc' \in [Txn -> ActivityType] /\ watch' \in WatchType
    BY <1>2, ReleaseType DEF AdmitRefused, TypeOK
  <2>2. JournalOK'
    BY <1>2 DEF AdmitRefused, TypeOK, JournalOK
  <2> QED
    BY <1>2, <2>1, <2>2, FrameTypes DEF AdmitRefused, TypeOK, ProcessOK
<1>3. CASE Dispatch(t)
  <2>1. proc' \in [Txn -> ActivityType]
    BY <1>3, WorkType DEF Dispatch, Pc, TypeOK
  <2>2. JournalOK'
    BY <1>3, TransitionType DEF Dispatch, FieldState, OutcomeReason
  <2> QED
    BY <1>3, <2>1, <2>2, FrameTypes DEF Dispatch, TypeOK, ProcessOK
<1>4. CASE DispatchDenied(t)
  <2>1. proc' \in [Txn -> ActivityType]
    BY <1>4, WorkType DEF DispatchDenied, Pc, TypeOK, OutcomeReason
  <2>2. WorldOK'
    BY <1>4, SpendType DEF DispatchDenied, TypeOK, WorldOK
  <2> QED
    BY <1>4, <2>1, <2>2, FrameTypes DEF DispatchDenied, TypeOK, ProcessOK
<1>5. CASE SaveReply(t)
  <2>1. proc' \in [Txn -> ActivityType] /\ watch' \in WatchType
    BY <1>5, WorkType, ReleaseType DEF SaveReply, Pc, TypeOK, ProcessOK
  <2>2. JournalOK'
    BY <1>5, SaveOutcomeType DEF SaveReply
  <2> QED
    BY <1>5, <2>1, <2>2, FrameTypes DEF SaveReply, TypeOK, ProcessOK
<1>6. CASE Reconcile(t)
  <2>1. proc' \in [Txn -> ActivityType] /\ watch' \in WatchType
    BY <1>6, WorkType, ReleaseType DEF Reconcile, Pc, TypeOK, ProcessOK, OutcomeReason
  <2> QED
    BY <1>6, <2>1, FrameTypes DEF Reconcile, TypeOK, ProcessOK
<1>7. CASE ObserveField(t)
  <2>1. proc' \in [Txn -> ActivityType]
    BY <1>7, WorkType, ObserveType DEF ObserveField, Pc, TypeOK, Kind
  <2> QED
    BY <1>7, <2>1, FrameTypes DEF ObserveField, TypeOK, ProcessOK
<1>8. CASE SaveField(t)
  <2>1. proc' \in [Txn -> ActivityType] /\ watch' \in WatchType
    BY <1>8, ReleaseType DEF SaveField, TypeOK
  <2>2. JournalOK'
    BY <1>8, SaveOutcomeType DEF SaveField
  <2> QED
    BY <1>8, <2>1, <2>2, FrameTypes DEF SaveField, TypeOK, ProcessOK
<1>9. CASE StoreFails(t)
  <2>1. proc' \in [Txn -> ActivityType] /\ watch' \in WatchType
    BY <1>9, ReleaseType DEF StoreFails, TypeOK
  <2>2. JournalOK'
    BY <1>9 DEF StoreFails, TypeOK, JournalOK
  <2>3. WorldOK'
    BY <1>9, SpendType DEF StoreFails, TypeOK, WorldOK
  <2> QED
    BY <1>9, <2>1, <2>2, <2>3, FrameTypes DEF StoreFails, TypeOK, ProcessOK
<1> QED
  BY <1>1, <1>2, <1>3, <1>4, <1>5, <1>6, <1>7, <1>8, <1>9

\* Every step of the watchdog's work on a transaction keeps the types.
LEMMA SafetyStepTypes ==
  ASSUME TypeOK, NEW t \in Txn,
         \/ DispatchUndo(t) \/ DispatchUndoDenied(t)
         \/ safetyStep(t) \/ SaveSafety(t) \/ ObserveSafety(t) \/ SaveObserved(t)
         \/ Evaluate(t) \/ Probe(t) \/ Refresh(t)
         \/ PrepareRollback(t) \/ ObserveUndo(t) \/ ProbeUndo(t)
  PROVE  TypeOK'
<1> USE LocalTypes, ConstantTypes, OutcomeTypes
<1> DEFINE s == proc[t].s
           ProcOK == proc' \in [Txn -> ActivityType] /\ watch' \in WatchType
<1>0. watch \in WatchType /\ ProcessOK
  BY DEF TypeOK, ProcessOK
<1>1. CASE DispatchUndo(t)
  <2>1. proc' \in [Txn -> ActivityType]
    BY <1>1, WorkType DEF DispatchUndo, Pc, TypeOK
  <2>2. JournalOK'
    BY <1>1, SaveSafetyType DEF DispatchUndo
  <2> QED
    BY <1>1, <2>1, <2>2, FrameTypes DEF DispatchUndo, TypeOK, ProcessOK
<1>2. CASE DispatchUndoDenied(t)
  <2>1. [proc[t].s EXCEPT !.rollback = FALSE] \in SafetyType
    BY DEF SafetyType
  <2>2. ProcOK
    BY <1>0, <1>2, <2>1, HoldType DEF DispatchUndoDenied, SafeState, SafetyReason
  <2>3. WorldOK'
    BY <1>2, SpendType DEF DispatchUndoDenied, TypeOK, WorldOK
  <2> QED
    BY <1>2, <2>2, <2>3, FrameTypes DEF DispatchUndoDenied, TypeOK, ProcessOK
<1>3. CASE safetyStep(t)
  <2>1. ProcOK
    BY <1>0, <1>3, WorkType, ReleaseType, HoldType DEF safetyStep, Pc, SafeState, SafetyReason
  <2> QED
    BY <1>3, <2>1, FrameTypes DEF safetyStep, TypeOK, ProcessOK
<1>4. CASE SaveSafety(t)
  <2>1. ProcOK
    BY <1>0, <1>4, ReleaseType DEF SaveSafety
  <2>2. JournalOK'
    BY <1>4, SaveSafetyType DEF SaveSafety
  <2> QED
    BY <1>4, <2>1, <2>2, FrameTypes DEF SaveSafety, TypeOK, ProcessOK
<1>5. CASE ObserveSafety(t)
  <2>1. proc' \in [Txn -> ActivityType]
    BY <1>5, WorkType, ObserveType DEF ObserveSafety, Pc, TypeOK, Kind
  <2> QED
    BY <1>5, <2>1, FrameTypes DEF ObserveSafety, TypeOK, ProcessOK
<1>6. CASE SaveObserved(t)
  <2>1. JournalOK'
    BY <1>6, SaveOutcomeType DEF SaveObserved
  <2>2. seq'[t] \in Nat
    BY <2>1 DEF JournalOK
  <2>3. proc' \in [Txn -> ActivityType]
    BY <1>6, <2>2, WorkType DEF SaveObserved, Pc, TypeOK
  <2> QED
    BY <1>6, <2>1, <2>3, FrameTypes DEF SaveObserved, TypeOK, ProcessOK
<1>7. CASE Evaluate(t)
  <2>1. Trigger(t, s) \in TriggerReason
    BY DEF Trigger, SafetyType, TriggerReason
  <2>2. [s EXCEPT !.trigger = Trigger(t, s)] \in SafetyType
    BY <2>1 DEF SafetyType
  <2>3. clock.wall \in Nat
    BY DEF TypeOK, WorldOK
  <2> DEFINE probing == [proc[t] EXCEPT !.pc = "s.probe", !.o = NoOutcome, !.w = clock.wall]
  <2>4. probing \in ActivityType
    <3>1. proc[t] \in ActivityType
      BY DEF TypeOK, ProcessOK
    <3> QED
      BY <2>3, <3>1 DEF ActivityType, Pc
  <2>5. ASSUME proc' = [proc EXCEPT ![t] = probing] /\ UNCHANGED watch
        PROVE  ProcOK
    <3> HIDE DEF probing
    <3> QED
      BY <1>0, <2>4, <2>5 DEF ProcessOK
  <2>6. \/ holdSafety(t, proc[t].q, s, "recovery-required", "apply-outcome-unknown")
        \/ /\ Work(t, "b.prepare", proc[t].q, [s EXCEPT !.trigger = Trigger(t, s)], NoOutcome)
           /\ UNCHANGED watch
        \/ holdSafety(t, proc[t].q, s, "recovery-required", proc[t].o.reason)
        \/ proc' = [proc EXCEPT ![t] = probing] /\ UNCHANGED watch
    BY <1>7 DEF Evaluate
  <2>7. {"apply-outcome-unknown", proc[t].o.reason} \subseteq SafetyReason
    BY DEF SafetyReason
  <2>8. ProcOK
    <3> HIDE DEF probing, s
    <3> QED
      BY <1>0, <2>2, <2>5, <2>6, <2>7, WorkType, HoldType DEF Pc, SafeState, s
  <2> QED
    BY <1>7, <2>8, FrameTypes DEF Evaluate, TypeOK, ProcessOK
<1>8. CASE Probe(t)
  <2> DEFINE failed == [s EXCEPT !.fails = @ + 1, !.healthy = FALSE]
  <2>2. Healthy(s, proc[t].w) \in SafetyType
    BY RecordTypes DEF TypeOK
  <2>3. failed \in SafetyType
    BY RecordTypes DEF TypeOK
  <2>4. [failed EXCEPT !.trigger = "management-path-probes-failed"] \in SafetyType
    <3> HIDE DEF failed
    <3> QED
      BY <2>3 DEF SafetyType, TriggerReason
  <2>5. [failed EXCEPT !.reason = "management-path-unverified"] \in SafetyType
    <3> HIDE DEF failed
    <3> QED
      BY <2>3 DEF SafetyType, SafetyReason
  <2>6. proc' \in [Txn -> ActivityType]
    BY <1>0, <1>8, <2>2, <2>4, <2>5, WorkType DEF Probe, Pc
  <2> QED
    BY <1>8, <2>6, FrameTypes DEF Probe, TypeOK, ProcessOK
<1>9. CASE Refresh(t)
  <2>1. ProcOK
    BY <1>0, <1>9, ReleaseType DEF Refresh
  <2>2. JournalOK'
    BY <1>9 DEF Refresh, TypeOK, JournalOK
  <2> QED
    BY <1>9, <2>1, <2>2, FrameTypes DEF Refresh, TypeOK, ProcessOK
<1>10. CASE PrepareRollback(t)
  <2> DEFINE started == [s EXCEPT !.rollback = TRUE, !.state = "rolling-back",
                                  !.reason = "rollback-dispatch-durable", !.healthy = FALSE,
                                  !.outcome = Unknown("rollback-dispatch-durable")]
  <2>2. started \in SafetyType
    BY RecordTypes DEF TypeOK
  <2>3. ProcOK
    BY <1>0, <1>10, <2>2, WorkType, HoldType DEF PrepareRollback, Pc, SafeState, SafetyReason
  <2> QED
    BY <1>10, <2>3, FrameTypes DEF PrepareRollback, TypeOK, ProcessOK
<1>11. CASE ObserveUndo(t)
  <2> DEFINE o == Observe(t, "undo", proc[t].o)
  <2>1. o \in OutcomeType
    BY ObserveType DEF Kind
  <2> HIDE DEF o
  <2>2. o.reason \in SafetyReason
    BY <2>1 DEF OutcomeType, SafetyReason
  <2>3. [s EXCEPT !.outcome = o] \in SafetyType
    BY <2>1 DEF SafetyType
  <2>4. [s EXCEPT !.outcome = o, !.state = "recovery-required", !.reason = o.reason] \in SafetyType
    BY <2>1, <2>2 DEF SafetyType, SafeState
  <2>5. ProcOK
    BY <1>0, <1>11, <2>3, <2>4, WorkType, ReleaseType DEF ObserveUndo, Pc, o
  <2> QED
    BY <1>11, <2>5, FrameTypes DEF ObserveUndo, TypeOK, ProcessOK
<1>12. CASE ProbeUndo(t)
  <2>1. /\ [s EXCEPT !.state = "rolled-back", !.healthy = TRUE,
                     !.reason = "rollback-applied-management-reachable"] \in SafetyType
        /\ [s EXCEPT !.state = "recovery-required",
                     !.reason = "rollback-management-path-unverified"] \in SafetyType
    BY RecordTypes DEF TypeOK
  <2>2. ProcOK
    BY <1>0, <1>12, <2>1, WorkType, ReleaseType DEF ProbeUndo, Pc
  <2> QED
    BY <1>12, <2>2, FrameTypes DEF ProbeUndo, TypeOK, ProcessOK
<1> QED
  BY <1>1, <1>2, <1>3, <1>4, <1>5, <1>6, <1>7, <1>8, <1>9, <1>10, <1>11, <1>12

\* Every step of a decision keeps the types.
LEMMA DecisionTypes ==
  ASSUME TypeOK, NEW t \in Txn,
         ObserveDecision(t) \/ ProbeDecision(t) \/ Confirm(t) \/ RequestRollback(t)
  PROVE  TypeOK'
<1> USE LocalTypes, ConstantTypes
<1>0. watch \in WatchType /\ ProcessOK
  BY DEF TypeOK, ProcessOK
<1>1. CASE ObserveDecision(t)
  <2>1. proc' \in [Txn -> ActivityType] /\ watch' \in WatchType
    BY <1>0, <1>1, WorkType, ReleaseType, ObserveType DEF ObserveDecision, Pc, Kind
  <2> QED
    BY <1>1, <2>1, FrameTypes DEF ObserveDecision, TypeOK, ProcessOK
<1>2. CASE ProbeDecision(t)
  <2>1. proc' \in [Txn -> ActivityType] /\ watch' \in WatchType
    BY <1>0, <1>2, WorkType, ReleaseType DEF ProbeDecision, Pc
  <2> QED
    BY <1>2, <2>1, FrameTypes DEF ProbeDecision, TypeOK, ProcessOK
<1>3. CASE Confirm(t)
  <2> DEFINE s == [proc[t].s EXCEPT !.state = "confirmed", !.healthy = TRUE,
                                    !.reason = "connectivity-confirmed"]
  <2>1. s \in SafetyType
    BY RecordTypes DEF TypeOK
  <2>2. stateFor(t, proc[t].o) \in FieldState
    BY DEF stateFor, FieldState
  <2>3. UNCHANGED dbVars \/ updateSafety(t, s, stateFor(t, proc[t].o), proc[t].o)
    BY <1>3 DEF Confirm
  <2>4. JournalOK'
    <3> HIDE DEF s
    <3> QED
      BY <2>1, <2>2, <2>3, UpdateSafetyType, FrameTypes
  <2>5. proc' \in [Txn -> ActivityType] /\ watch' \in WatchType
    BY <1>0, <1>3, ReleaseType DEF Confirm
  <2> QED
    BY <1>3, <2>4, <2>5, FrameTypes DEF Confirm, TypeOK, ProcessOK
<1>4. CASE RequestRollback(t)
  <2> DEFINE s == [proc[t].s EXCEPT !.state = "rollback-requested",
                                    !.reason = "authorized-rollback-requested"]
  <2>1. s \in SafetyType
    BY RecordTypes DEF TypeOK
  <2>2. saveSafety(t, proc[t].q, s)
    BY <1>4 DEF RequestRollback
  <2>3. JournalOK'
    <3> HIDE DEF s
    <3> QED
      BY <2>1, <2>2, SaveSafetyType
  <2>4. proc' \in [Txn -> ActivityType] /\ watch' \in WatchType
    BY <1>0, <1>4, ReleaseType DEF RequestRollback
  <2> QED
    BY <1>4, <2>3, <2>4, FrameTypes DEF RequestRollback, TypeOK, ProcessOK
<1> QED
  BY <1>1, <1>2, <1>3, <1>4

\* Every step of the watchdog loop, the server and the world keeps the types.
LEMMA WatchdogTypes ==
  ASSUME TypeOK, Watchdog
  PROVE  TypeOK'
<1> USE ConstantTypes
<1>1. CASE Wake
  BY <1>1, FrameTypes DEF Wake, TypeOK, ProcessOK, WatchType, Unsettled, Open
<1>2. CASE RecoverEnds
  <2>1. ProcessOK'
    BY <1>2 DEF RecoverEnds, TypeOK, ProcessOK, WatchType, Open
  <2> QED
    BY <1>2, <2>1, FrameTypes DEF RecoverEnds, TypeOK
<1>3. CASE TickEnds
  BY <1>3, FrameTypes DEF TickEnds, TypeOK, ProcessOK
<1>4. ASSUME NEW t \in Txn, Visit(t)
      PROVE  TypeOK'
  <2>1. proc' \in [Txn -> ActivityType]
    BY <1>4, WorkType DEF Visit, Pc, TypeOK, ProcessOK
  <2>2. watch' \in WatchType
    <3>1. watch \in WatchType /\ watch.todo \ {t} \in SUBSET Txn
      BY DEF TypeOK, ProcessOK, WatchType
    <3>2. \/ watch' = [watch EXCEPT !.todo = watch.todo \ {t}]
          \/ watch' = [watch EXCEPT !.todo = watch.todo \ {t}, !.at = t]
      BY <1>4 DEF Visit
    <3> QED
      BY <3>1, <3>2 DEF WatchType
  <2> QED
    BY <1>4, <2>1, <2>2, FrameTypes DEF Visit, TypeOK, ProcessOK
<1> QED
  BY <1>1, <1>2, <1>3, <1>4 DEF Watchdog

\* What ovsdb-server and ovs-vswitchd do and the monitor reads is well typed.
LEMMA ServerTypes ==
  ASSUME TypeOK, NEW t \in Txn, NEW k \in Kind, ServerTransact(t, k)
  PROVE  TypeOK'
<1> USE LocalTypes, OutcomeTypes
<1>1. db.next + 1 \in Nat
  <2>1. db.next \in Nat
    BY DEF TypeOK, WorldOK
  <2> QED
    BY <2>1
<1>2. proc' \in [Txn -> ActivityType]
  <2>1. CASE proc[t].pc = AwaitPc(k)
    <3>1. NotSent("ovsdb-transaction-rejected") \in OutcomeType
      BY DEF OutcomeReason
    <3>2. [Outcome("committed", "pending", "ovsdb-committed") EXCEPT !.target = db.next + 1]
            \in OutcomeType
      BY <1>1
    <3>3. \E o \in OutcomeType : Return(t, k, o)
      BY <2>1, <3>1, <3>2 DEF ServerTransact
    <3> QED
      BY <3>3, ReturnType
  <2>2. CASE proc[t].pc # AwaitPc(k)
    BY <2>2 DEF ServerTransact, TypeOK, ProcessOK
  <2> QED
    BY <2>1, <2>2
<1>3. db' \in [row : [Port -> RowType], next : Nat, cur : Nat, gen : Nat]
  <2>1. Written(t, k) \in [row : [Port -> RowType], next : Nat, cur : Nat, gen : Nat]
    <3>1. \A p \in Port : [val |-> After(t, k, p), mark |-> <<k, t>>] \in RowType
      BY DEF After, RowType, TypeOK, JournalOK, PlanType
    <3>2. [p \in Port |-> IF p \in Touch[t]
                         THEN [val |-> After(t, k, p), mark |-> <<k, t>>]
                         ELSE db.row[p]] \in [Port -> RowType]
      BY <3>1 DEF TypeOK, WorldOK
    <3> QED
      BY <1>1, <3>2 DEF Written, TypeOK, WorldOK
  <2> QED
    BY <2>1 DEF ServerTransact, TypeOK, WorldOK
<1>4. WorldOK'
  BY <1>3 DEF ServerTransact, TypeOK, WorldOK
<1>5. HistoryOK'
  BY DEF ServerTransact, TypeOK, HistoryOK
<1> QED
  BY <1>2, <1>4, <1>5, FrameTypes DEF ServerTransact, TypeOK, ProcessOK

\* The state after a crash is well typed.
LEMMA DieTypes ==
  ASSUME TypeOK, Die
  PROVE  JournalOK' /\ ProcessOK' /\ cache' \in ViewType
<1> USE ConstantTypes
<1>1. JournalOK'
  BY DEF Die, TypeOK, JournalOK
<1>2. ProcessOK'
  BY DEF Die, TypeOK, ProcessOK
<1> QED
  BY <1>1, <1>2 DEF Die

\* Faults, clocks, authority and third parties keep the types.
LEMMA WorldTypes ==
  ASSUME TypeOK, World
  PROVE  TypeOK'
<1>1. CASE Crash
  <2>1. WorldOK'
    BY <1>1, DieTypes, SpendType DEF Crash, TypeOK, WorldOK
  <2> QED
    BY <1>1, <2>1, DieTypes, FrameTypes DEF Crash, TypeOK
<1>2. CASE Reboot
  <2>1. WorldOK'
    <3>1. clock' \in [boot : Nat, ns : Nat, wall : Nat]
      <4>1. clock.boot + 1 \in Nat /\ clock \in [boot : Nat, ns : Nat, wall : Nat]
        BY DEF TypeOK, WorldOK
      <4>2. clock' = [clock EXCEPT !.boot = clock.boot + 1, !.ns = 0]
        BY <1>2 DEF Reboot
      <4> QED
        BY <4>1, <4>2
    <3>2. wire' \in [Kind \X Txn -> {"none", "flight", "gone"}]
      BY <1>2 DEF Reboot, TypeOK, WorldOK
    <3> QED
      BY <1>2, <3>1, <3>2, DieTypes, SpendType DEF Reboot, TypeOK, WorldOK
  <2> QED
    BY <1>2, <2>1, DieTypes, FrameTypes DEF Reboot, TypeOK
<1>3. CASE WallStep
  <2>1. WorldOK'
    BY <1>3, SpendType DEF WallStep, TypeOK, WorldOK
  <2> QED
    BY <1>3, <2>1, FrameTypes DEF WallStep, TypeOK
<1>4. CASE PathChange
  <2>1. WorldOK'
    BY <1>4, SpendType DEF PathChange, TypeOK, WorldOK
  <2> QED
    BY <1>4, <2>1, FrameTypes DEF PathChange, TypeOK
<1>5. CASE LinkChange
  <2>1. WorldOK'
    BY <1>5, SpendType DEF LinkChange, TypeOK, WorldOK
  <2> QED
    BY <1>5, <2>1, FrameTypes DEF LinkChange, TypeOK
<1>6. CASE Regenerate
  <2>1. WorldOK'
    BY <1>6, SpendType DEF Regenerate, TypeOK, WorldOK
  <2> QED
    BY <1>6, <2>1, FrameTypes DEF Regenerate, TypeOK
<1>7. ASSUME NEW t \in Txn, Reauthorize(t)
      PROVE  TypeOK'
  <2>1. WorldOK'
    BY <1>7, SpendType DEF Reauthorize, TypeOK, WorldOK
  <2> QED
    BY <1>7, <2>1, FrameTypes DEF Reauthorize, TypeOK
<1>8. ASSUME NEW t \in Txn, NEW k \in Kind, WireLost(t, k)
      PROVE  TypeOK'
  <2>1. WorldOK'
    BY <1>8, SpendType DEF WireLost, TypeOK, WorldOK
  <2> QED
    BY <1>8, <2>1, FrameTypes DEF WireLost, TypeOK
<1>9. ASSUME NEW p \in Port, EditExternally(p)
      PROVE  TypeOK'
  <2>1. db' \in [row : [Port -> RowType], next : Nat, cur : Nat, gen : Nat]
    <3>1. PICK v \in {"base", "ext"}, m \in {db.row[p].mark, NoMark} :
            db' = [db EXCEPT !.row[p] = [val |-> v, mark |-> m], !.next = @ + 1]
      BY <1>9 DEF EditExternally
    <3>2. [val |-> v, mark |-> m] \in RowType
      BY <3>1 DEF TypeOK, WorldOK, RowType
    <3>3. db.next + 1 \in Nat
      BY DEF TypeOK, WorldOK
    <3> QED
      BY <3>1, <3>2, <3>3 DEF TypeOK, WorldOK
  <2>2. WorldOK'
    BY <1>9, <2>1, SpendType DEF EditExternally, TypeOK, WorldOK
  <2> QED
    BY <1>9, <2>2, FrameTypes DEF EditExternally, TypeOK
<1> QED
  BY <1>1, <1>2, <1>3, <1>4, <1>5, <1>6, <1>7, <1>8, <1>9 DEF World

\* Type correctness: the journal's records, outcomes, deadlines and Job states
\* stay in their closed sets under every interleaving of client, worker,
\* watchdog, crash, reboot and third party, for any number of transactions.
LEMMA TypeStep == TypeOK /\ [Next]_vars => TypeOK'
<1> SUFFICES ASSUME TypeOK, [Next]_vars
             PROVE  TypeOK'
  OBVIOUS
<1>1. ASSUME NEW t \in Txn, Activity(t)
      PROVE  TypeOK'
  BY <1>1, TransactTypes, WorkerTypes, SafetyStepTypes, DecisionTypes DEF Activity
<1>2. CASE Restart
  <2>1. ProcessOK'
    BY <1>2 DEF Restart, TypeOK, ProcessOK
  <2> QED
    BY <1>2, <2>1, FrameTypes DEF Restart, TypeOK
<1>3. CASE Tick
  <2>1. WorldOK'
    <3>1. clock.ns + 1 \in Nat /\ clock.wall + 1 \in Nat
      BY DEF TypeOK, WorldOK
    <3> QED
      BY <1>3, <3>1 DEF Tick, TypeOK, WorldOK
  <2> QED
    BY <1>3, <2>1, FrameTypes DEF Tick, TypeOK
<1>4. CASE Vswitchd
  <2>1. WorldOK'
    BY <1>4 DEF Vswitchd, TypeOK, WorldOK
  <2> QED
    BY <1>4, <2>1, FrameTypes DEF Vswitchd, TypeOK
<1>5. CASE Sync
  <2>1. Prepared \subseteq Kind \X Txn
    BY DEF Prepared, Kind
  <2>2. cache' \in ViewType
    BY <1>5, <2>1 DEF Sync, TypeOK, WorldOK, ViewType
  <2>3. WorldOK'
    BY <1>5, <2>2 DEF Sync, TypeOK, WorldOK
  <2> QED
    BY <1>5, <2>3, FrameTypes DEF Sync, TypeOK
<1>6. CASE UNCHANGED vars
  BY <1>6, FrameTypes DEF vars, TypeOK
<1> QED
  BY <1>1, <1>2, <1>3, <1>4, <1>5, <1>6, ClientTypes, WatchdogTypes, ServerTypes, WorldTypes
     DEF Next, Server

\* The initial state has the types.
LEMMA TypeInit == Init => TypeOK
<1> SUFFICES ASSUME Init PROVE TypeOK
  OBVIOUS
<1> USE ConstantTypes
<1>1. JournalOK
  BY DEF Init, JournalOK, FieldState, JobState
<1>2. ProcessOK
  BY DEF Init, ProcessOK
<1>3. WorldOK
  BY SafeApplyAssumption DEF Init, WorldOK, NoView, ViewType
<1>4. HistoryOK
  BY DEF Init, HistoryOK
<1> QED
  BY <1>1, <1>2, <1>3, <1>4 DEF TypeOK

\* Every reachable state has the types of TypeOK: states, outcomes, reasons,
\* triggers and Job states of the journal come from their closed sets and no
\* deadline lies before time zero.
THEOREM TypeCorrect == Spec => []TypeOK
BY TypeInit, TypeStep, PTL DEF Spec

(***************************************************************************)
(* The inductive invariant.  The properties the runs check speak of the    *)
(* journal and of Open vSwitch; what makes them inductive is what every    *)
(* activity knows at each of its steps, because it holds the claim.        *)
(***************************************************************************)
Dead(t, k) == <<k, t>> \notin done /\ wire[<<k, t>>] # "flight"

\* An outcome that claims something about a native transaction is right.
Honest(t, k, o) ==
  /\ o.commit = "committed" => <<k, t>> \in done
  /\ o.commit = "rejected" => Dead(t, k)

\* Steps at which the activity acts on a snapshot of the Safe Apply record.
Snap == {"s.observe", "s.save", "s.evaluate", "s.probe", "hold", "refresh",
         "b.prepare", "b.dispatch", "b.observe", "b.probe",
         "d.observe", "d.probe", "d.confirm", "d.rollback"}

WireInv(t) ==
  /\ \A k \in Kind :
       /\ sends[<<k, t>>] = IF wire[<<k, t>>] = "none" THEN 0 ELSE 1
       /\ <<k, t>> \in done => wire[<<k, t>>] = "gone"
  /\ <<"undo", t>> \in done => <<"apply", t>> \in done

IntentInv(t) ==
  /\ field[t] \in {"none", "admitted"} => wire[<<"apply", t>>] = "none"
  /\ ~safe[t].rollback => wire[<<"undo", t>>] = "none"
  /\ field[t] = "none" =>
       /\ safe[t] = NoSafety /\ job[t] = "none" /\ out[t] = NoOutcome
       /\ t \notin watch.todo
       /\ proc[t].pc \in {"idle", "admit"}
  /\ field[t] # "none" => safe[t].state # "none"

WorkerInv(t) ==
  /\ proc[t].pc = "admit" => field[t] = "none"
  /\ field[t] = "admitted" => out[t].commit = "not-sent"
  /\ proc[t].pc = "dispatch" => field[t] = "admitted"
  /\ proc[t].pc \in {"send", "await"} =>
       field[t] = "committing" /\ out[t].commit = "unknown"
  /\ proc[t].pc = "send" => wire[<<"apply", t>>] = "none"
  /\ proc[t].pc \in {"dispatch", "send", "await", "save"} => safe[t].state = "preparing"
  /\ safe[t].state = "preparing" => ~safe[t].rollback
  /\ proc[t].pc \in {"b.send", "b.await"} =>
       safe[t].rollback /\ safe[t].state = "rolling-back" /\ safe[t].outcome.commit = "unknown"
  /\ proc[t].pc = "b.send" => wire[<<"undo", t>>] = "none"

EvidenceInv(t) ==
  /\ Honest(t, "apply", out[t])
  /\ Honest(t, "undo", safe[t].outcome)
  /\ proc[t].pc \in {"save", "observe", "resave", "s.observe", "s.save", "s.evaluate",
                     "d.observe", "d.probe", "d.confirm"} => Honest(t, "apply", proc[t].o)
  /\ proc[t].pc \in {"d.probe", "d.confirm"} => proc[t].o.commit = "committed"
  /\ proc[t].pc = "b.observe" => Honest(t, "undo", proc[t].o)

\* The claim at work: the record has not changed since it was read as r with
\* sequence q, so what the activity writes back is a successor of it.
Snapshot(t, q, r) ==
  /\ q = seq[t]
  /\ ~Terminal(safe[t].state)
  /\ r.state # "none"
  /\ r.domain = safe[t].domain
  /\ r.prep = safe[t].prep
  /\ safe[t].conf # NoDeadline => r.conf = safe[t].conf
  /\ r.state \in {"preparing", "awaiting-confirmation"} => ~r.rollback
  /\ Honest(t, "undo", r.outcome)

SnapInv(t) ==
  /\ proc[t].pc \in Snap =>
       /\ Snapshot(t, proc[t].q, proc[t].s)
       /\ proc[t].pc # "b.dispatch" => proc[t].s.rollback = safe[t].rollback
       /\ proc[t].pc # "hold" => ~Terminal(proc[t].s.state)
  /\ proc[t].pc \in {"s.observe", "s.save", "s.evaluate", "s.probe", "refresh", "b.prepare",
                     "b.dispatch", "d.observe", "d.probe", "d.confirm", "d.rollback"} =>
       ~safe[t].rollback
  /\ proc[t].pc \in {"d.observe", "d.probe", "d.confirm", "d.rollback"} => proc[t].s = safe[t]
  /\ proc[t].pc = "b.dispatch" =>
       proc[t].s.rollback /\ proc[t].s.state = "rolling-back" /\ proc[t].s.outcome.commit = "unknown"
  /\ proc[t].pc \in {"b.observe", "b.probe"} => safe[t].rollback
  /\ proc[t].pc = "b.probe" => <<"undo", t>> \in done
  /\ proc[t].pc = "refresh" => proc[t].s.state = "awaiting-confirmation"
  /\ proc[t].pc = "hold" =>
       /\ proc[t].s.state # "confirmed"
       /\ proc[t].s.state = "rolled-back" => <<"undo", t>> \in done
       /\ proc[t].s.state = "not-committed" => out[t].commit = "rejected" /\ ~safe[t].rollback

VerdictInv(t) ==
  /\ safe[t].state = "awaiting-confirmation" => ~safe[t].rollback
  /\ safe[t].state = "confirmed" => <<"apply", t>> \in done /\ ~safe[t].rollback
  /\ safe[t].state = "rolled-back" => <<"undo", t>> \in done
  /\ safe[t].state = "not-committed" => out[t].commit = "rejected" /\ ~safe[t].rollback

JobInv(t) ==
  /\ job[t] = "succeeded" <=> safe[t].state = "confirmed"
  /\ job[t] = "failed" <=> safe[t].state \in {"rolled-back", "not-committed"}
  /\ safe[t].state = "rollback-conflict" => job[t] = "needs-attention"

\* Markers in the database and in the monitor's view are evidence.
MarkInv ==
  \A p \in Port, k \in Kind, t \in Txn :
    db.row[p].mark = <<k, t>> \/ cache.row[p].mark = <<k, t>> => <<k, t>> \in done

Local(t) ==
  /\ WireInv(t) /\ IntentInv(t) /\ WorkerInv(t) /\ EvidenceInv(t)
  /\ SnapInv(t) /\ VerdictInv(t) /\ JobInv(t)

IInv == MarkInv /\ Exclusion /\ \A t \in Txn : Local(t)
(***************************************************************************)
(* Steps that leave a transaction alone.                                   *)
(***************************************************************************)
\* Journal and history of u are as they were, its wire may have been cut and
\* its activity may have ended.
Quiet(u) ==
  /\ field'[u] = field[u] /\ out'[u] = out[u] /\ seq'[u] = seq[u]
  /\ safe'[u] = safe[u] /\ job'[u] = job[u]
  /\ proc'[u] = proc[u] \/ proc'[u] = Idle
  /\ \A k \in Kind :
       /\ \/ wire'[<<k, u>>] = wire[<<k, u>>]
          \/ wire[<<k, u>>] = "flight" /\ wire'[<<k, u>>] = "gone"
       /\ sends'[<<k, u>>] = sends[<<k, u>>]
       /\ <<k, u>> \in done' <=> <<k, u>> \in done
  /\ field[u] = "none" /\ u \notin watch.todo => u \notin watch'.todo

\* Such a step keeps what the invariant says of u.
LEMMA QuietLocal ==
  ASSUME TypeOK, NEW u \in Txn, Local(u), Quiet(u)
  PROVE  Local(u)'
<1> USE DEF Quiet, Local, Kind
<1>1. WireInv(u)'
  BY DEF WireInv
<1>2. IntentInv(u)'
  BY DEF IntentInv, WireInv, Idle
<1>3. WorkerInv(u)'
  BY DEF WorkerInv, Idle
<1>4. EvidenceInv(u)'
  BY DEF EvidenceInv, Honest, Dead, Snap, Idle
<1>5. SnapInv(u)'
  BY DEF SnapInv, Snap, Snapshot, Honest, Dead, Idle, Terminal
<1>6. VerdictInv(u)'
  BY DEF VerdictInv
<1>7. JobInv(u)'
  BY DEF JobInv
<1> QED
  BY <1>1, <1>2, <1>3, <1>4, <1>5, <1>6, <1>7

(***************************************************************************)
(* What the helpers do to the activity and to the journal of t.            *)
(***************************************************************************)
\* The activity of t goes on at pc; the others stay where they are.
LEMMA WorkFacts ==
  ASSUME TypeOK, NEW t \in Txn, NEW pc, NEW q, NEW r, NEW o, Work(t, pc, q, r, o)
  PROVE  /\ proc'[t] = [pc |-> pc, q |-> q, s |-> r, o |-> o, w |-> 0]
         /\ \A u \in Txn \ {t} : proc'[u] = proc[u]
BY DEF TypeOK, ProcessOK, Work

\* The activity of t is over; the watchdog's list only gets shorter.
LEMMA ReleaseFacts ==
  ASSUME TypeOK, NEW t \in Txn, Release(t) \/ Abort(t)
  PROVE  /\ proc'[t] = Idle
         /\ \A u \in Txn \ {t} : proc'[u] = proc[u]
         /\ watch'.todo \subseteq watch.todo
BY DEF TypeOK, ProcessOK, WatchType, Release, Abort, Rest

\* holdSafety ends the activity or leaves it with the record to write.
LEMMA HoldFacts ==
  ASSUME TypeOK, NEW t \in Txn, NEW q, NEW r \in SafetyType, NEW state, NEW reason,
         holdSafety(t, q, r, state, reason)
  PROVE  /\ \/ proc'[t] = Idle
            \/ proc'[t] = [pc |-> "hold", q |-> q,
                           s |-> [r EXCEPT !.state = state, !.reason = reason, !.healthy = FALSE],
                           o |-> NoOutcome, w |-> 0]
         /\ \A u \in Txn \ {t} : proc'[u] = proc[u]
         /\ watch'.todo \subseteq watch.todo
<1>1. CASE Release(t)
  BY <1>1, ReleaseFacts
<1>2. CASE ~Release(t)
  BY <1>2, WorkFacts DEF holdSafety
<1> QED
  BY <1>1, <1>2

\* A field write leaves the Safe Apply record and the protections alone.
LEMMA TransitionFacts ==
  ASSUME TypeOK, NEW t \in Txn, NEW o, NEW state, transition(t, o, state)
  PROVE  /\ field'[t] = state /\ out'[t] = o /\ job'[t] = fieldJob(t, state)
         /\ safe' = safe /\ prot' = prot
         /\ \A u \in Txn \ {t} :
              field'[u] = field[u] /\ out'[u] = out[u] /\ seq'[u] = seq[u] /\ job'[u] = job[u]
BY DEF TypeOK, JournalOK, transition

\* A Safe Apply write frees the protections exactly when it settles t.
LEMMA UpdateFacts ==
  ASSUME TypeOK, NEW t \in Txn, NEW r, NEW state, NEW o, updateSafety(t, r, state, o)
  PROVE  /\ field'[t] = state /\ out'[t] = o /\ safe'[t] = r /\ job'[t] = jobFor(t, r.state)
         /\ prot' = IF Terminal(r.state) THEN prot \ (Port \X {t}) ELSE prot
         /\ \A u \in Txn \ {t} :
              /\ field'[u] = field[u] /\ out'[u] = out[u] /\ seq'[u] = seq[u]
              /\ safe'[u] = safe[u] /\ job'[u] = job[u]
BY DEF TypeOK, JournalOK, updateSafety

\* saveOutcome writes nothing or an outcome with the same commit evidence, and
\* nothing at all once the change is settled; it never goes back to admitted.
LEMMA SaveFacts ==
  ASSUME TypeOK, NEW t \in Txn, NEW o \in OutcomeType, saveOutcome(t, o)
  PROVE  /\ \/ /\ field'[t] = field[t] /\ out'[t] = out[t] /\ job'[t] = job[t]
               /\ seq'[t] = seq[t]
            \/ /\ ~Terminal(safe[t].state)
               /\ field'[t] \notin {"none", "admitted", "committing"}
               /\ out'[t].commit = o.commit
               /\ job'[t] \in {job[t], "needs-attention"}
         /\ safe' = safe /\ prot' = prot
         /\ \A u \in Txn \ {t} :
              field'[u] = field[u] /\ out'[u] = out[u] /\ seq'[u] = seq[u] /\ job'[u] = job[u]
<1> DEFINE state == stateFor(t, o)
           late  == state = "recovery-required" /\ o.applied = "pending"
                      /\ clock.wall - born[t] >= AppliedFor
           saved == IF late THEN [o EXCEPT !.reason = "applied-budget-exhausted"] ELSE o
<1>1. CASE UNCHANGED dbVars
  BY <1>1 DEF dbVars
<1>2. CASE ~(UNCHANGED dbVars)
  <2>1. transition(t, saved, state) /\ ~Terminal(safe[t].state)
    BY <1>2 DEF saveOutcome, fieldSettled
  <2>2. state \notin {"none", "admitted", "committing"}
    BY DEF stateFor
  <2>3. saved.commit = o.commit
    BY DEF OutcomeType
  <2>4. fieldJob(t, state) \in {job[t], "needs-attention"}
    BY DEF fieldJob
  <2> HIDE DEF saved, state
  <2> QED
    BY <2>1, <2>2, <2>3, <2>4, TransitionFacts
<1> QED
  BY <1>1, <1>2

\* Executor.Observe never claims more than the markers prove.
LEMMA ObserveHonest ==
  ASSUME TypeOK, MarkInv, NEW t \in Txn, NEW k \in Kind, NEW prior \in OutcomeType,
         Honest(t, k, prior)
  PROVE  /\ Honest(t, k, Observe(t, k, prior))
         /\ prior.commit = "rejected" /\ <<k, t>> \notin done =>
              Observe(t, k, prior).commit = "rejected"
<1>1. \/ Observe(t, k, prior).commit = prior.commit
      \/ SeenAny(t, k) /\ Observe(t, k, prior).commit = "committed"
  BY DEF Observe, OutcomeType
<1>2. SeenAny(t, k) => <<k, t>> \in done
  BY SafeApplyAssumption DEF SeenAny, MarkInv
<1> QED
  BY <1>1, <1>2 DEF Honest

(***************************************************************************)
(* Every step of the activity of t keeps what the invariant says of t.     *)
(***************************************************************************)
\* A step that only moves the activity on: what is left to show is that the
\* new step of the activity knows what the invariant says it knows.
LEMMA AdvanceLocal ==
  ASSUME TypeOK, NEW t \in Txn, Local(t), UNCHANGED <<field, out, seq, safe, job>>,
         UNCHANGED <<wire, done, sends>>, watch'.todo \subseteq watch.todo,
         field[t] = "none" => proc'[t].pc \in {"idle", "admit"},
         WorkerInv(t)', EvidenceInv(t)', SnapInv(t)'
  PROVE  Local(t)'
<1> USE DEF Local
<1>1. WireInv(t)'
  BY DEF WireInv
<1>2. IntentInv(t)'
  BY DEF IntentInv
<1>3. VerdictInv(t)' /\ JobInv(t)'
  BY DEF VerdictInv, JobInv
<1> QED
  BY <1>1, <1>2, <1>3

\* Every client request keeps the invariant of its transaction.
LEMMA ClientLocal ==
  ASSUME TypeOK, IInv, NEW t \in Txn, Client(t)
  PROVE  Local(t)'
<1>0. Local(t)
  BY DEF IInv
<1> USE DEF Local
<1>1. CASE Prepare(t)
  <2>1. proc'[t] = [pc |-> "admit", q |-> 0, s |-> NoSafety, o |-> NoOutcome, w |-> 0]
    BY <1>1, WorkFacts DEF Prepare
  <2>2. /\ UNCHANGED <<field, out, seq, safe, job, wire, done, sends>>
        /\ watch'.todo \subseteq watch.todo
        /\ field[t] = "none"
    BY <1>1 DEF Prepare, dbVars, worldVars, histVars
  <2>3. WorkerInv(t)'
    BY <1>0, <2>1, <2>2 DEF WorkerInv
  <2>4. EvidenceInv(t)'
    BY <1>0, <2>1, <2>2 DEF EvidenceInv, Honest, Dead
  <2>5. SnapInv(t)'
    BY <1>0, <2>1, <2>2 DEF SnapInv, Snap
  <2> QED
    BY <1>0, <2>1, <2>2, <2>3, <2>4, <2>5, AdvanceLocal
<1>2. CASE ReconcileRequested(t)
  <2>1. proc'[t] = [pc |-> "r.read", q |-> 0, s |-> NoSafety, o |-> NoOutcome, w |-> 0]
    BY <1>2, WorkFacts DEF ReconcileRequested
  <2>2. /\ UNCHANGED <<field, out, seq, safe, job, wire, done, sends>>
        /\ watch'.todo \subseteq watch.todo
        /\ field[t] # "none"
    BY <1>2 DEF ReconcileRequested, dbVars, worldVars, histVars
  <2>3. WorkerInv(t)'
    BY <1>0, <2>1, <2>2 DEF WorkerInv
  <2>4. EvidenceInv(t)'
    BY <1>0, <2>1, <2>2 DEF EvidenceInv, Honest, Dead
  <2>5. SnapInv(t)'
    BY <1>0, <2>1, <2>2 DEF SnapInv, Snap
  <2> QED
    BY <1>0, <2>1, <2>2, <2>3, <2>4, <2>5, AdvanceLocal
<1>3. CASE DecideConfirm(t)
  <2>1. proc'[t] = [pc |-> "d.observe", q |-> seq[t], s |-> safe[t], o |-> out[t], w |-> 0]
    BY <1>3, WorkFacts DEF DecideConfirm
  <2>2. /\ UNCHANGED <<field, out, seq, safe, job, wire, done, sends>>
        /\ watch'.todo \subseteq watch.todo
        /\ field[t] # "none" /\ safe[t].state = "awaiting-confirmation"
    BY <1>3 DEF DecideConfirm, dbVars, worldVars, histVars, Decidable, Open
  <2>3. WorkerInv(t)'
    BY <1>0, <2>1, <2>2 DEF WorkerInv
  <2>4. EvidenceInv(t)'
    BY <1>0, <2>1, <2>2 DEF EvidenceInv, Honest, Dead
  <2>5. SnapInv(t)'
    BY <1>0, <2>1, <2>2 DEF SnapInv, Snap, Snapshot, Honest, Dead, VerdictInv, EvidenceInv, Terminal
  <2> QED
    BY <1>0, <2>1, <2>2, <2>3, <2>4, <2>5, AdvanceLocal
<1>4. CASE DecideRollback(t)
  <2>1. proc'[t] = [pc |-> "d.rollback", q |-> seq[t], s |-> safe[t], o |-> NoOutcome, w |-> 0]
    BY <1>4, WorkFacts DEF DecideRollback
  <2>2. /\ UNCHANGED <<field, out, seq, safe, job, wire, done, sends>>
        /\ watch'.todo \subseteq watch.todo
        /\ field[t] # "none" /\ ~Terminal(safe[t].state) /\ ~safe[t].rollback
    BY <1>4 DEF DecideRollback, dbVars, worldVars, histVars, Decidable, Open
  <2>3. WorkerInv(t)'
    BY <1>0, <2>1, <2>2 DEF WorkerInv
  <2>4. EvidenceInv(t)'
    BY <1>0, <2>1, <2>2 DEF EvidenceInv, Honest, Dead
  <2>5. SnapInv(t)'
    BY <1>0, <2>1, <2>2 DEF SnapInv, Snap, Snapshot, Honest, Dead, IntentInv, EvidenceInv
  <2> QED
    BY <1>0, <2>1, <2>2, <2>3, <2>4, <2>5, AdvanceLocal
<1> QED
  BY <1>1, <1>2, <1>3, <1>4 DEF Client

\* An activity about to save the record r it made of the one it read.
LEMMA HoldSnap ==
  ASSUME NEW t \in Txn, NEW q, NEW r, NEW o, NEW w,
         proc'[t] = [pc |-> "hold", q |-> q, s |-> r, o |-> o, w |-> w],
         q = seq'[t], ~Terminal(safe'[t].state),
         r.domain = safe'[t].domain, r.prep = safe'[t].prep,
         safe'[t].conf # NoDeadline => r.conf = safe'[t].conf,
         r.state \in {"preparing", "awaiting-confirmation"} => ~r.rollback,
         r.outcome.commit = "committed" => <<"undo", t>> \in done',
         r.outcome.commit = "rejected" => <<"undo", t>> \notin done' /\ wire'[<<"undo", t>>] # "flight",
         r.rollback = safe'[t].rollback,
         r.state \notin {"none", "confirmed"},
         r.state = "rolled-back" => <<"undo", t>> \in done',
         r.state = "not-committed" => out'[t].commit = "rejected" /\ ~safe'[t].rollback
  PROVE  SnapInv(t)'
BY DEF SnapInv, Snap, Snapshot, Honest, Dead, NoDeadline

\* What the caller of Commit does with an honest outcome.
LEMMA ReturnLocal ==
  ASSUME TypeOK, NEW t \in Txn, NEW k \in Kind, NEW o \in OutcomeType, Local(t),
         UNCHANGED <<field, out, seq, safe, job>>,
         proc[t].pc \in {SendPc(k), AwaitPc(k)}, Return(t, k, o),
         Honest(t, k, o)', Honest(t, "apply", out[t])', Honest(t, "undo", safe[t].outcome)'
  PROVE  WorkerInv(t)' /\ EvidenceInv(t)' /\ SnapInv(t)'
<1> USE DEF Local
<1>1. CASE k = "apply"
  <2>1. proc'[t] = [pc |-> "save", q |-> 0, s |-> NoSafety, o |-> o, w |-> 0]
    BY <1>1, WorkFacts DEF Return
  <2>2. safe[t].state = "preparing"
    BY <1>1 DEF WorkerInv, SendPc, AwaitPc
  <2>3. WorkerInv(t)'
    BY <2>1, <2>2 DEF WorkerInv
  <2>4. EvidenceInv(t)'
    BY <1>1, <2>1 DEF EvidenceInv
  <2>5. SnapInv(t)'
    BY <2>1 DEF SnapInv, Snap
  <2> QED
    BY <2>3, <2>4, <2>5
<1>2. CASE k = "undo"
  <2> DEFINE s == [safe[t] EXCEPT !.outcome = o]
             r == IF o.commit = "rejected"
                  THEN [s EXCEPT !.state = "rollback-conflict",
                                 !.reason = "rollback-transaction-rejected"]
                  ELSE [s EXCEPT !.reason = o.reason]
  <2>1. proc'[t] = [pc |-> "hold", q |-> seq[t], s |-> r, o |-> NoOutcome, w |-> 0]
    BY <1>2, WorkFacts DEF Return
  <2>2. safe[t].state = "rolling-back" /\ safe[t].rollback
    BY <1>2 DEF WorkerInv, SendPc, AwaitPc
  <2>3. /\ r.state \in {"rolling-back", "rollback-conflict"}
        /\ r.domain = safe[t].domain /\ r.prep = safe[t].prep /\ r.conf = safe[t].conf
        /\ r.rollback = safe[t].rollback /\ r.outcome = o
    BY <2>2, LocalTypes DEF SafetyType
  <2> HIDE DEF r, s
  <2>4. WorkerInv(t)'
    BY <2>1, <2>2 DEF WorkerInv
  <2>5. EvidenceInv(t)'
    BY <2>1 DEF EvidenceInv
  <2>6. SnapInv(t)'
    BY <1>2, <2>1, <2>2, <2>3, HoldSnap DEF Terminal, Honest, Dead
  <2> QED
    BY <2>4, <2>5, <2>6
<1> QED
  BY <1>1, <1>2 DEF Kind

\* Writing to the socket, and its failures, keep the invariant of t.
LEMMA TransactLocal ==
  ASSUME TypeOK, IInv, NEW t \in Txn, NEW k \in Kind, Transact(t, k)
  PROVE  Local(t)'
<1>0. Local(t)
  BY DEF IInv
<1>f. proc[t].pc \notin {"idle", "admit"} => field[t] # "none"
  BY <1>0 DEF Local, IntentInv
<1> USE DEF Local
<1>1. CASE Send(t, k)
  <2>1. proc'[t] = [pc |-> AwaitPc(k), q |-> 0, s |-> NoSafety, o |-> NoOutcome, w |-> 0]
    BY <1>1, WorkFacts DEF Send
  <2>2. UNCHANGED <<field, out, seq, safe, job, watch, done>> /\ proc[t].pc = SendPc(k)
    BY <1>1 DEF Send, dbVars
  <2>3. /\ wire'[<<k, t>>] = "flight" /\ sends'[<<k, t>>] = sends[<<k, t>>] + 1
        /\ \A j \in Kind \ {k} : wire'[<<j, t>>] = wire[<<j, t>>] /\ sends'[<<j, t>>] = sends[<<j, t>>]
    BY <1>1 DEF Send, TypeOK, WorldOK, HistoryOK
  <2>4. wire[<<k, t>>] = "none" /\ <<k, t>> \notin done
    BY <1>0, <2>2 DEF WorkerInv, WireInv, SendPc, Kind
  <2>5. /\ k = "apply" => field[t] = "committing" /\ out[t].commit = "unknown"
                            /\ safe[t].state = "preparing"
        /\ k = "undo" => safe[t].rollback /\ safe[t].state = "rolling-back"
                            /\ safe[t].outcome.commit = "unknown"
    BY <1>0, <2>2 DEF WorkerInv, SendPc
  <2>6. WireInv(t)'
    BY <1>0, <2>2, <2>3, <2>4 DEF WireInv
  <2>7. IntentInv(t)'
    BY <1>0, <1>f, <2>1, <2>2, <2>3, <2>5 DEF IntentInv, SendPc, Kind
  <2>8. WorkerInv(t)'
    BY <1>0, <2>1, <2>2, <2>5 DEF WorkerInv, AwaitPc, Kind
  <2>9. EvidenceInv(t)'
    BY <1>0, <2>1, <2>2, <2>3, <2>5 DEF EvidenceInv, Honest, Dead, AwaitPc, Kind
  <2>10. SnapInv(t)'
    BY <2>1 DEF SnapInv, Snap, AwaitPc
  <2>11. VerdictInv(t)' /\ JobInv(t)'
    BY <1>0, <2>2 DEF VerdictInv, JobInv
  <2> QED
    BY <2>6, <2>7, <2>8, <2>9, <2>10, <2>11
<1>2. CASE SendFails(t, k)
  <2>1. /\ UNCHANGED <<field, out, seq, safe, job, wire, done, sends, watch>>
        /\ proc[t].pc = SendPc(k) /\ Return(t, k, NotSent("provider-not-sent"))
    BY <1>2 DEF SendFails, dbVars, histVars
  <2>2. NotSent("provider-not-sent") \in OutcomeType
    BY OutcomeTypes DEF OutcomeReason
  <2>3. Dead(t, k)
    BY <1>0, <2>1 DEF WorkerInv, WireInv, SendPc, Kind, Dead
  <2>4. Honest(t, k, NotSent("provider-not-sent"))'
    BY <2>1, <2>3 DEF Honest, Dead, NotSent, Outcome
  <2>5. Honest(t, "apply", out[t])' /\ Honest(t, "undo", safe[t].outcome)'
    BY <1>0, <2>1 DEF EvidenceInv, Honest, Dead
  <2>6. WorkerInv(t)' /\ EvidenceInv(t)' /\ SnapInv(t)'
    BY <1>0, <2>1, <2>2, <2>4, <2>5, ReturnLocal
  <2> QED
    BY <1>0, <1>f, <2>1, <2>6, AdvanceLocal DEF SendPc
<1>3. CASE ReplyUnknown(t, k)
  <2>1. /\ UNCHANGED <<field, out, seq, safe, job, wire, done, sends, watch>>
        /\ proc[t].pc = AwaitPc(k) /\ Return(t, k, LostReply)
    BY <1>3 DEF ReplyUnknown, dbVars, histVars
  <2>2. LostReply \in OutcomeType
    BY OutcomeTypes
  <2>3. Honest(t, k, LostReply)'
    BY DEF Honest, LostReply, Unknown, Outcome
  <2>4. Honest(t, "apply", out[t])' /\ Honest(t, "undo", safe[t].outcome)'
    BY <1>0, <2>1 DEF EvidenceInv, Honest, Dead
  <2>5. WorkerInv(t)' /\ EvidenceInv(t)' /\ SnapInv(t)'
    BY <1>0, <2>1, <2>2, <2>3, <2>4, ReturnLocal
  <2> QED
    BY <1>0, <1>f, <2>1, <2>5, AdvanceLocal DEF AwaitPc
<1> QED
  BY <1>1, <1>2, <1>3 DEF Transact

\* An activity that ends and leaves the journal alone.
LEMMA ReleaseQuiet ==
  ASSUME TypeOK, NEW t \in Txn, Release(t) \/ Abort(t),
         UNCHANGED <<field, out, seq, safe, job>>, UNCHANGED <<wire, done, sends>>
  PROVE  Quiet(t)
<1>1. proc'[t] = Idle /\ watch'.todo \subseteq watch.todo
  BY ReleaseFacts
<1> QED
  BY <1>1 DEF Quiet

\* Admission, dispatch, reply handling and reconciliation keep the invariant
\* of t.
LEMMA WorkerLocal ==
  ASSUME TypeOK, IInv, NEW t \in Txn,
         \/ Admit(t) \/ AdmitRefused(t) \/ Dispatch(t) \/ DispatchDenied(t)
         \/ SaveReply(t) \/ Reconcile(t) \/ ObserveField(t) \/ SaveField(t)
         \/ StoreFails(t)
  PROVE  Local(t)'
<1>0. Local(t)
  BY DEF IInv
<1>f. proc[t].pc \notin {"idle", "admit"} => field[t] # "none"
  BY <1>0 DEF Local, IntentInv
<1> USE DEF Local
<1>1. CASE Admit(t)
  <2>1. proc'[t] = [pc |-> "dispatch", q |-> 0, s |-> NoSafety, o |-> NoOutcome, w |-> 0]
    BY <1>1, WorkFacts DEF Admit
  <2>2. /\ field'[t] = "admitted" /\ out'[t] = Outcome("not-sent", "not-applied", "admitted")
        /\ safe'[t] = admitSafety /\ job'[t] = "running"
    BY <1>1 DEF Admit, TypeOK, JournalOK
  <2>3. UNCHANGED <<wire, done, sends, watch>> /\ field[t] = "none"
    BY <1>0, <1>1 DEF Admit, worldVars, histVars, WorkerInv
  <2>4. /\ out'[t].commit = "not-sent" /\ safe'[t].state = "preparing" /\ ~safe'[t].rollback
        /\ safe'[t].outcome.commit \notin {"committed", "rejected"}
    <3>1. out'[t].commit = "not-sent"
      BY <2>2 DEF Outcome
    <3>2. /\ admitSafety.state = "preparing" /\ admitSafety.rollback = FALSE
          /\ admitSafety.outcome = NoOutcome
      BY DEF admitSafety, NoSafety
    <3>3. NoOutcome.commit = ""
      BY DEF NoOutcome, Outcome
    <3> QED
      BY <2>2, <3>1, <3>2, <3>3
  <2>5. wire[<<"apply", t>>] = "none" /\ wire[<<"undo", t>>] = "none"
    <3>1. NoSafety.rollback = FALSE
      BY DEF NoSafety
    <3> QED
      BY <1>0, <2>3, <3>1 DEF IntentInv
  <2>6. WireInv(t)'
    BY <1>0, <2>3 DEF WireInv
  <2>7. IntentInv(t)'
    BY <2>2, <2>3, <2>4, <2>5 DEF IntentInv
  <2>a. field'[t] = "admitted" /\ proc'[t].pc = "dispatch"
    BY <2>1, <2>2
  <2>8. WorkerInv(t)'
    BY <2>4, <2>a DEF WorkerInv
  <2>9. EvidenceInv(t)'
    BY <2>4, <2>a DEF EvidenceInv, Honest
  <2>10. SnapInv(t)'
    BY <2>1 DEF SnapInv, Snap
  <2>11. VerdictInv(t)' /\ JobInv(t)'
    BY <2>2, <2>4 DEF VerdictInv, JobInv
  <2> QED
    BY <2>6, <2>7, <2>8, <2>9, <2>10, <2>11
<1>2. CASE AdmitRefused(t)
  <2>1. Quiet(t)
    BY <1>2, ReleaseQuiet DEF AdmitRefused, worldVars, histVars
  <2> QED
    BY <1>0, <2>1, QuietLocal
<1>3. CASE Dispatch(t)
  <2>1. proc'[t] = [pc |-> "send", q |-> 0, s |-> NoSafety, o |-> NoOutcome, w |-> 0]
    BY <1>3, WorkFacts DEF Dispatch
  <2>2. /\ field'[t] = "committing" /\ out'[t] = Unknown("dispatch-intent-durable")
        /\ safe' = safe /\ job'[t] = job[t]
    BY <1>3, TransitionFacts DEF Dispatch, fieldJob
  <2>3. UNCHANGED <<wire, done, sends, watch>> /\ field[t] = "admitted" /\ safe[t].state = "preparing"
    BY <1>3 DEF Dispatch, worldVars, histVars, beforeSend
  <2>4. out'[t].commit = "unknown"
    BY <2>2 DEF Unknown, Outcome
  <2>5. wire[<<"apply", t>>] = "none"
    BY <1>0, <2>3 DEF IntentInv
  <2>6. WireInv(t)'
    BY <1>0, <2>3 DEF WireInv
  <2>7. IntentInv(t)'
    BY <1>0, <2>2, <2>3, <2>5 DEF IntentInv
  <2>8. WorkerInv(t)'
    BY <1>0, <2>1, <2>2, <2>3, <2>4, <2>5 DEF WorkerInv
  <2>9. EvidenceInv(t)'
    BY <1>0, <2>1, <2>2, <2>3, <2>4 DEF EvidenceInv, Honest, Dead
  <2>10. SnapInv(t)'
    BY <2>1 DEF SnapInv, Snap
  <2>11. VerdictInv(t)' /\ JobInv(t)'
    BY <1>0, <2>2, <2>3 DEF VerdictInv, JobInv
  <2> QED
    BY <2>6, <2>7, <2>8, <2>9, <2>10, <2>11
<1>4. CASE DispatchDenied(t)
  <2>1. proc'[t] = [pc |-> "save", q |-> 0, s |-> NoSafety,
                    o |-> NotSent("dispatch-admission-denied"), w |-> 0]
    BY <1>4, WorkFacts DEF DispatchDenied
  <2>2. UNCHANGED <<field, out, seq, safe, job, wire, done, sends, watch>> /\ proc[t].pc = "dispatch"
    BY <1>4 DEF DispatchDenied, dbVars, histVars
  <2>3. Dead(t, "apply")
    BY <1>0, <2>2 DEF WorkerInv, IntentInv, WireInv, Dead, Kind
  <2>4. WorkerInv(t)'
    BY <1>0, <2>1, <2>2 DEF WorkerInv
  <2>5. EvidenceInv(t)'
    BY <1>0, <2>1, <2>2, <2>3 DEF EvidenceInv, Honest, Dead, NotSent, Outcome
  <2>6. SnapInv(t)'
    BY <2>1 DEF SnapInv, Snap
  <2> QED
    BY <1>0, <1>f, <2>1, <2>2, <2>4, <2>5, <2>6, AdvanceLocal
<1>5. ASSUME saveOutcome(t, proc[t].o), UNCHANGED <<worldVars, histVars>>,
             watch'.todo \subseteq watch.todo,
             proc[t].pc \in {"save", "resave"},
             \/ proc'[t] = Idle
             \/ /\ proc[t].o.commit = "committed"
                /\ proc'[t] = [pc |-> "observe", q |-> 0, s |-> NoSafety, o |-> proc[t].o, w |-> 0]
      PROVE  Local(t)'
  <2>1. Honest(t, "apply", proc[t].o) /\ proc[t].o \in OutcomeType /\ field[t] # "none"
    BY <1>0, <1>f, <1>5, LocalTypes DEF EvidenceInv
  <2>2. UNCHANGED <<wire, done, sends>> /\ safe' = safe
    BY <1>5, <2>1, SaveFacts DEF worldVars, histVars
  <2>3. \/ field'[t] = field[t] /\ out'[t] = out[t] /\ job'[t] = job[t]
        \/ /\ ~Terminal(safe[t].state)
           /\ field'[t] \notin {"none", "admitted", "committing"}
           /\ out'[t].commit = proc[t].o.commit
           /\ job'[t] \in {job[t], "needs-attention"}
    BY <1>5, <2>1, SaveFacts
  <2>4. WireInv(t)'
    BY <1>0, <2>2 DEF WireInv
  <2>5. IntentInv(t)'
    BY <1>0, <2>1, <2>2, <2>3 DEF IntentInv
  <2>6. WorkerInv(t)'
    BY <1>0, <1>5, <2>2, <2>3 DEF WorkerInv, Idle
  <2>7. EvidenceInv(t)'
    BY <1>0, <1>5, <2>1, <2>2, <2>3 DEF EvidenceInv, Honest, Dead, Idle
  <2>8. SnapInv(t)'
    BY <1>5 DEF SnapInv, Snap, Idle
  <2>9. VerdictInv(t)'
    BY <1>0, <2>2, <2>3 DEF VerdictInv, Terminal
  <2>10. JobInv(t)'
    BY <1>0, <2>2, <2>3 DEF JobInv, Terminal
  <2> QED
    BY <2>4, <2>5, <2>6, <2>7, <2>8, <2>9, <2>10
<1>6. CASE SaveReply(t)
  <2>1. \/ proc'[t] = Idle /\ watch'.todo \subseteq watch.todo
        \/ /\ proc[t].o.commit = "committed" /\ UNCHANGED watch
           /\ proc'[t] = [pc |-> "observe", q |-> 0, s |-> NoSafety, o |-> proc[t].o, w |-> 0]
    BY <1>6, WorkFacts, ReleaseFacts DEF SaveReply
  <2>2. saveOutcome(t, proc[t].o) /\ UNCHANGED <<worldVars, histVars>> /\ proc[t].pc = "save"
    BY <1>6 DEF SaveReply
  <2> QED
    BY <1>5, <2>1, <2>2
<1>7. CASE SaveField(t)
  <2>1. proc'[t] = Idle /\ watch'.todo \subseteq watch.todo
    BY <1>7, ReleaseFacts DEF SaveField
  <2>2. saveOutcome(t, proc[t].o) /\ UNCHANGED <<worldVars, histVars>> /\ proc[t].pc = "resave"
    BY <1>7 DEF SaveField
  <2> QED
    BY <1>5, <2>1, <2>2
<1>8. CASE Reconcile(t)
  <2>1. UNCHANGED <<field, out, seq, safe, job, wire, done, sends>> /\ proc[t].pc = "r.read"
    BY <1>8 DEF Reconcile, dbVars, worldVars, histVars
  <2>2. CASE Release(t)
    <3>1. Quiet(t)
      BY <2>1, <2>2, ReleaseQuiet
    <3> QED
      BY <1>0, <3>1, QuietLocal
  <2>3. CASE ~Release(t)
    <3>1. /\ UNCHANGED watch
          /\ \/ /\ field[t] = "admitted"
                /\ proc'[t] = [pc |-> "resave", q |-> 0, s |-> NoSafety,
                               o |-> NotSent("recovered-before-dispatch"), w |-> 0]
             \/ proc'[t] = [pc |-> "observe", q |-> 0, s |-> NoSafety, o |-> out[t], w |-> 0]
      BY <1>8, <2>3, WorkFacts DEF Reconcile, NeverDispatched
    <3>2. field[t] = "admitted" => Dead(t, "apply")
      BY <1>0 DEF IntentInv, WireInv, Dead, Kind
    <3>3. WorkerInv(t)'
      BY <1>0, <2>1, <3>1 DEF WorkerInv
    <3>4. EvidenceInv(t)'
      BY <1>0, <2>1, <3>1, <3>2 DEF EvidenceInv, Honest, Dead, NotSent, Outcome
    <3>5. SnapInv(t)'
      BY <3>1 DEF SnapInv, Snap
    <3> QED
      BY <1>0, <1>f, <2>1, <3>1, <3>3, <3>4, <3>5, AdvanceLocal
  <2> QED
    BY <2>2, <2>3
<1>9. CASE ObserveField(t)
  <2> DEFINE o == Observe(t, "apply", proc[t].o)
  <2>1. proc'[t] = [pc |-> "resave", q |-> 0, s |-> NoSafety, o |-> o, w |-> 0]
    BY <1>9, WorkFacts DEF ObserveField
  <2>2. UNCHANGED <<field, out, seq, safe, job, wire, done, sends, watch>> /\ proc[t].pc = "observe"
    BY <1>9 DEF ObserveField, dbVars, worldVars, histVars
  <2>3. Honest(t, "apply", o)
    BY <1>0, <2>2, ObserveHonest, LocalTypes DEF EvidenceInv, IInv, Kind
  <2> HIDE DEF o
  <2>4. WorkerInv(t)'
    BY <1>0, <2>1, <2>2 DEF WorkerInv
  <2>5. EvidenceInv(t)'
    BY <1>0, <2>1, <2>2, <2>3 DEF EvidenceInv, Honest, Dead
  <2>6. SnapInv(t)'
    BY <2>1 DEF SnapInv, Snap
  <2> QED
    BY <1>0, <1>f, <2>1, <2>2, <2>4, <2>5, <2>6, AdvanceLocal
<1>10. CASE StoreFails(t)
  <2>1. Quiet(t)
    BY <1>10, ReleaseQuiet DEF StoreFails, worldVars, histVars
  <2> QED
    BY <1>0, <2>1, QuietLocal
<1> QED
  BY <1>1, <1>2, <1>3, <1>4, <1>6, <1>7, <1>8, <1>9, <1>10

\* The record as it is read under the claim is a snapshot.
LEMMA ReadSnapshot ==
  ASSUME NEW t \in Txn, Local(t), field[t] # "none", ~Terminal(safe[t].state)
  PROVE  Snapshot(t, seq[t], safe[t])
BY DEF Local, IntentInv, WorkerInv, EvidenceInv, VerdictInv, Snapshot

\* Holding the record in one of the states that wait for help, or settling a
\* change that was not committed.
LEMMA HoldLocal ==
  ASSUME TypeOK, NEW t \in Txn, Local(t), UNCHANGED <<field, out, seq, safe, job>>,
         UNCHANGED <<wire, done, sends>>, field[t] # "none",
         NEW q, NEW r \in SafetyType, NEW state, NEW reason, holdSafety(t, q, r, state, reason),
         Snapshot(t, q, r), r.rollback = safe[t].rollback,
         state \in {"recovery-required", "rollback-conflict", "not-committed"},
         state = "not-committed" => out[t].commit = "rejected" /\ ~safe[t].rollback
  PROVE  Local(t)'
<1> DEFINE held == [r EXCEPT !.state = state, !.reason = reason, !.healthy = FALSE]
<1>1. watch'.todo \subseteq watch.todo
  BY HoldFacts
<1>h. \/ proc'[t] = Idle
      \/ proc'[t] = [pc |-> "hold", q |-> q, s |-> held, o |-> NoOutcome, w |-> 0]
  <2>1. Release(t) \/ Work(t, "hold", q, held, NoOutcome)
    BY DEF holdSafety
  <2> HIDE DEF held
  <2> QED
    BY <2>1, ReleaseFacts, WorkFacts
<1>2. CASE proc'[t] = Idle
  <2>1. Quiet(t)
    BY <1>1, <1>2 DEF Quiet
  <2> QED
    BY <2>1, QuietLocal
<1>3. CASE proc'[t] = [pc |-> "hold", q |-> q, s |-> held, o |-> NoOutcome, w |-> 0]
  <2>1. /\ held.state = state /\ held.domain = r.domain /\ held.prep = r.prep
        /\ held.conf = r.conf /\ held.rollback = r.rollback /\ held.outcome = r.outcome
    BY DEF SafetyType
  <2> HIDE DEF held
  <2>2. WorkerInv(t)'
    BY <1>3 DEF Local, WorkerInv
  <2>3. EvidenceInv(t)'
    BY <1>3 DEF Local, EvidenceInv, Honest, Dead
  <2>5. SnapInv(t)'
    BY <1>3, <2>1, HoldSnap DEF Snapshot, Honest, Dead
  <2> QED
    BY <1>1, <2>2, <2>3, <2>5, AdvanceLocal
<1> QED
  BY <1>h, <1>2, <1>3

\* The watchdog's reads and decisions keep the invariant of t.
LEMMA SafetyStepLocal ==
  ASSUME TypeOK, IInv, NEW t \in Txn,
         \/ safetyStep(t) \/ ObserveSafety(t) \/ Evaluate(t) \/ Probe(t)
         \/ PrepareRollback(t) \/ DispatchUndoDenied(t) \/ ObserveUndo(t) \/ ProbeUndo(t)
  PROVE  Local(t)'
<1>0. Local(t)
  BY DEF IInv
<1>f. proc[t].pc \notin {"idle", "admit"} => field[t] # "none"
  BY <1>0 DEF Local, IntentInv
<1> USE DEF Local
<1> USE LocalTypes
<1>u. UNCHANGED <<field, out, seq, safe, job, wire, done, sends>>
  BY DEF safetyStep, ObserveSafety, Evaluate, Probe, PrepareRollback, DispatchUndoDenied,
         ObserveUndo, ProbeUndo, dbVars, worldVars, histVars
<1>q. ASSUME Release(t)
      PROVE  Local(t)'
  BY <1>0, <1>u, <1>q, ReleaseQuiet, QuietLocal
<1>1. CASE safetyStep(t)
  <2>1. proc[t].pc = "s.read" /\ field[t] # "none"
    BY <1>1, <1>f DEF safetyStep
  <2>2. CASE Release(t)
    BY <1>q, <2>2
  <2>3. CASE ~Release(t)
    <3>1. ~Terminal(safe[t].state)
      BY <1>1, <2>3 DEF safetyStep
    <3>2. Snapshot(t, seq[t], safe[t])
      BY <1>0, <2>1, <3>1, ReadSnapshot
    <3>3. CASE holdSafety(t, seq[t], safe[t], "recovery-required", "management-probe-policy-changed")
      BY <1>0, <1>u, <2>1, <3>2, <3>3, HoldLocal
    <3>4. CASE /\ holdSafety(t, seq[t], safe[t], "not-committed", "apply-not-committed")
               /\ out[t].commit = "rejected" /\ ~safe[t].rollback
      BY <1>0, <1>u, <2>1, <3>2, <3>4, HoldLocal
    <3>5. CASE /\ Work(t, "b.observe", seq[t], safe[t], safe[t].outcome) /\ UNCHANGED watch
               /\ safe[t].rollback
      <4>1. proc'[t] = [pc |-> "b.observe", q |-> seq[t], s |-> safe[t],
                        o |-> safe[t].outcome, w |-> 0]
        BY <3>5, WorkFacts
      <4>2. WorkerInv(t)'
        BY <1>0, <1>u, <4>1 DEF WorkerInv
      <4>3. EvidenceInv(t)'
        BY <1>0, <1>u, <4>1 DEF EvidenceInv, Honest, Dead
      <4>4. SnapInv(t)'
        <5>a. safe' = safe /\ proc'[t].s = safe[t]
          BY <1>u, <4>1
        <5>b. safe[t].rollback
          BY <3>5
        <5>1. proc'[t].s.rollback = safe'[t].rollback /\ safe'[t].rollback
          BY <5>a, <5>b, Zenon
        <5>2. Snapshot(t, proc[t].q, proc[t].s)'
          BY <1>u, <3>2, <4>1 DEF Snapshot, Honest, Dead, Terminal
        <5>3. proc'[t].pc = "b.observe" /\ ~Terminal(proc'[t].s.state)
          BY <3>1, <4>1
        <5> QED
          BY <5>1, <5>2, <5>3 DEF SnapInv, Snap
      <4> QED
        BY <1>0, <1>u, <2>1, <3>5, <4>1, <4>2, <4>3, <4>4, AdvanceLocal
    <3>6. CASE /\ Work(t, "s.observe", seq[t], safe[t], out[t]) /\ UNCHANGED watch
               /\ ~safe[t].rollback
      <4>1. proc'[t] = [pc |-> "s.observe", q |-> seq[t], s |-> safe[t], o |-> out[t], w |-> 0]
        BY <3>6, WorkFacts
      <4>2. WorkerInv(t)'
        BY <1>0, <1>u, <4>1 DEF WorkerInv
      <4>3. EvidenceInv(t)'
        BY <1>0, <1>u, <4>1 DEF EvidenceInv, Honest, Dead
      <4>4. SnapInv(t)'
        BY <1>u, <3>1, <3>2, <3>6, <4>1 DEF SnapInv, Snap, Snapshot, Honest, Dead
      <4> QED
        BY <1>0, <1>u, <2>1, <3>6, <4>1, <4>2, <4>3, <4>4, AdvanceLocal
    <3> QED
      BY <1>1, <2>3, <3>1, <3>3, <3>4, <3>5, <3>6 DEF safetyStep
  <2> QED
    BY <2>2, <2>3
<1>2. CASE ObserveSafety(t)
  <2> DEFINE o == Observe(t, "apply", proc[t].o)
  <2>1. /\ proc'[t] = [pc |-> "s.save", q |-> proc[t].q, s |-> proc[t].s, o |-> o, w |-> 0]
        /\ UNCHANGED watch /\ proc[t].pc = "s.observe"
    BY <1>2, WorkFacts DEF ObserveSafety
  <2>2. Honest(t, "apply", o)
    BY <1>0, <2>1, ObserveHonest DEF EvidenceInv, IInv, Kind
  <2> HIDE DEF o
  <2>3. WorkerInv(t)'
    BY <1>0, <1>u, <2>1 DEF WorkerInv
  <2>4. EvidenceInv(t)'
    BY <1>0, <1>u, <2>1, <2>2 DEF EvidenceInv, Honest, Dead
  <2>5. SnapInv(t)'
    BY <1>0, <1>u, <2>1 DEF SnapInv, Snap, Snapshot, Honest, Dead
  <2> QED
    BY <1>0, <1>f, <1>u, <2>1, <2>3, <2>4, <2>5, AdvanceLocal
<1>3. CASE Evaluate(t)
  <2>1. /\ proc[t].pc = "s.evaluate" /\ field[t] # "none"
        /\ Snapshot(t, proc[t].q, proc[t].s) /\ proc[t].s.rollback = safe[t].rollback
        /\ ~Terminal(proc[t].s.state) /\ ~safe[t].rollback
    BY <1>0, <1>f, <1>3 DEF Evaluate, SnapInv, Snap
  <2>2. CASE \E reason : holdSafety(t, proc[t].q, proc[t].s, "recovery-required", reason)
    BY <1>0, <1>u, <2>1, <2>2, HoldLocal
  <2>3. ASSUME NEW r, NEW o, NEW w, NEW pc \in {"b.prepare", "s.probe"},
               proc'[t] = [pc |-> pc, q |-> proc[t].q, s |-> r, o |-> o, w |-> w],
               UNCHANGED watch,
               r.state = proc[t].s.state, r.domain = proc[t].s.domain, r.prep = proc[t].s.prep,
               r.conf = proc[t].s.conf, r.rollback = proc[t].s.rollback,
               r.outcome = proc[t].s.outcome
        PROVE  Local(t)'
    <3>1. WorkerInv(t)'
      BY <1>0, <1>u, <2>3 DEF WorkerInv
    <3>2. EvidenceInv(t)'
      BY <1>0, <1>u, <2>3 DEF EvidenceInv, Honest, Dead
    <3>3. SnapInv(t)'
      BY <1>0, <1>u, <2>1, <2>3 DEF SnapInv, Snap, Snapshot, Honest, Dead
    <3> QED
      BY <1>0, <1>u, <2>1, <2>3, <3>1, <3>2, <3>3, AdvanceLocal
  <2>4. CASE /\ Work(t, "b.prepare", proc[t].q,
                     [proc[t].s EXCEPT !.trigger = Trigger(t, proc[t].s)], NoOutcome)
             /\ UNCHANGED watch
    <3> DEFINE r == [proc[t].s EXCEPT !.trigger = Trigger(t, proc[t].s)]
    <3>1. proc'[t] = [pc |-> "b.prepare", q |-> proc[t].q, s |-> r, o |-> NoOutcome, w |-> 0]
      BY <2>4, WorkFacts
    <3>2. /\ r.state = proc[t].s.state /\ r.domain = proc[t].s.domain /\ r.prep = proc[t].s.prep
          /\ r.conf = proc[t].s.conf /\ r.rollback = proc[t].s.rollback
          /\ r.outcome = proc[t].s.outcome
      BY DEF SafetyType
    <3> HIDE DEF r
    <3> QED
      BY <2>3, <2>4, <3>1, <3>2
  <2>5. CASE /\ proc' = [proc EXCEPT ![t] = [@ EXCEPT !.pc = "s.probe", !.o = NoOutcome,
                                                       !.w = clock.wall]]
             /\ UNCHANGED watch
    <3>1. proc'[t] = [pc |-> "s.probe", q |-> proc[t].q, s |-> proc[t].s, o |-> NoOutcome,
                      w |-> clock.wall]
      BY <2>5 DEF TypeOK, ProcessOK, ActivityType
    <3> QED
      BY <2>3, <2>5, <3>1
  <2> QED
    BY <1>3, <2>2, <2>4, <2>5 DEF Evaluate
<1>4. CASE Probe(t)
  <2> DEFINE s == proc[t].s
             failed == [s EXCEPT !.fails = @ + 1, !.healthy = FALSE]
  <2>1. /\ proc[t].pc = "s.probe" /\ field[t] # "none" /\ UNCHANGED watch
        /\ Snapshot(t, proc[t].q, s) /\ s.rollback = safe[t].rollback
        /\ ~Terminal(s.state) /\ ~safe[t].rollback
    BY <1>0, <1>f, <1>4 DEF Probe, SnapInv, Snap
  <2>2. PICK pc, r : /\ Work(t, pc, proc[t].q, r, NoOutcome)
                     /\ \/ pc \in {"refresh", "hold"} /\ r = Healthy(s, proc[t].w)
                        \/ pc = "b.prepare"
                           /\ r = [failed EXCEPT !.trigger = "management-path-probes-failed"]
                        \/ pc = "hold"
                           /\ r = [failed EXCEPT !.reason = "management-path-unverified"]
    BY <1>4 DEF Probe
  <2>3. proc'[t] = [pc |-> pc, q |-> proc[t].q, s |-> r, o |-> NoOutcome, w |-> 0]
    BY <2>2, WorkFacts
  <2>4. /\ r.domain = s.domain /\ r.prep = s.prep /\ r.rollback = s.rollback /\ r.outcome = s.outcome
        /\ s.conf # NoDeadline => r.conf = s.conf
        /\ r.state = s.state \/ r.state = "awaiting-confirmation"
        /\ pc = "refresh" => r.state = "awaiting-confirmation"
    BY <2>2 DEF Healthy, SafetyType
  <2>5. pc \in {"refresh", "hold", "b.prepare"}
    BY <2>2
  <2>6. WorkerInv(t)'
    BY <1>0, <1>u, <2>3, <2>5 DEF WorkerInv
  <2>7. EvidenceInv(t)'
    BY <1>0, <1>u, <2>3, <2>5 DEF EvidenceInv, Honest, Dead
  <2>8. SnapInv(t)'
    BY <1>u, <2>1, <2>3, <2>4, <2>5 DEF SnapInv, Snap, Snapshot, Honest, Dead, Terminal
  <2> QED
    BY <1>0, <1>u, <2>1, <2>3, <2>6, <2>7, <2>8, AdvanceLocal
<1>5. CASE PrepareRollback(t)
  <2> DEFINE s == proc[t].s
             started == [s EXCEPT !.rollback = TRUE, !.state = "rolling-back",
                                  !.reason = "rollback-dispatch-durable", !.healthy = FALSE,
                                  !.outcome = Unknown("rollback-dispatch-durable")]
  <2>1. /\ proc[t].pc = "b.prepare" /\ field[t] # "none"
        /\ Snapshot(t, proc[t].q, s) /\ s.rollback = safe[t].rollback /\ ~safe[t].rollback
    BY <1>0, <1>f, <1>5 DEF PrepareRollback, SnapInv, Snap
  <2>2. CASE \E state \in {"recovery-required", "rollback-conflict"}, reason \in SafetyReason :
               holdSafety(t, proc[t].q, s, state, reason)
    BY <1>0, <1>u, <2>1, <2>2, HoldLocal
  <2>3. CASE Work(t, "b.dispatch", proc[t].q, started, NoOutcome) /\ UNCHANGED watch
    <3>1. proc'[t] = [pc |-> "b.dispatch", q |-> proc[t].q, s |-> started, o |-> NoOutcome, w |-> 0]
      BY <2>3, WorkFacts
    <3>2. /\ started.state = "rolling-back" /\ started.rollback = TRUE
          /\ started.domain = s.domain /\ started.prep = s.prep /\ started.conf = s.conf
          /\ started.outcome = Unknown("rollback-dispatch-durable")
      BY DEF SafetyType
    <3>3. Unknown("rollback-dispatch-durable").commit = "unknown"
      BY DEF Unknown, Outcome
    <3> HIDE DEF started
    <3>4. WorkerInv(t)'
      BY <1>0, <1>u, <3>1 DEF WorkerInv
    <3>5. EvidenceInv(t)'
      BY <1>0, <1>u, <3>1 DEF EvidenceInv, Honest, Dead
    <3>6. SnapInv(t)'
      BY <1>u, <2>1, <3>1, <3>2, <3>3 DEF SnapInv, Snap, Snapshot, Honest, Dead, Terminal
    <3> QED
      BY <1>0, <1>u, <2>1, <2>3, <3>1, <3>4, <3>5, <3>6, AdvanceLocal
  <2>4. {"rollback-provider-unavailable", "rollback-generation-changed", "rollback-conflict"}
          \subseteq SafetyReason
    BY DEF SafetyReason
  <2> QED
    BY <1>5, <2>2, <2>3, <2>4 DEF PrepareRollback
<1>6. CASE DispatchUndoDenied(t)
  <2> DEFINE r == [proc[t].s EXCEPT !.rollback = FALSE]
  <2>1. /\ proc[t].pc = "b.dispatch" /\ field[t] # "none"
        /\ Snapshot(t, proc[t].q, proc[t].s) /\ ~safe[t].rollback
    BY <1>0, <1>f, <1>6 DEF DispatchUndoDenied, SnapInv, Snap
  <2>2. holdSafety(t, proc[t].q, r, "recovery-required", "rollback-not-dispatched")
    BY <1>6 DEF DispatchUndoDenied
  <2>3. r \in SafetyType
    BY DEF SafetyType
  <2>4. /\ r.rollback = FALSE /\ r.state = proc[t].s.state /\ r.domain = proc[t].s.domain
        /\ r.prep = proc[t].s.prep /\ r.conf = proc[t].s.conf /\ r.outcome = proc[t].s.outcome
    BY DEF SafetyType
  <2>5. safe[t].rollback = FALSE
    BY <2>1 DEF SafetyType
  <2> HIDE DEF r
  <2>6. Snapshot(t, proc[t].q, r)
    BY <2>1, <2>4 DEF Snapshot, Honest
  <2> QED
    BY <1>0, <1>u, <2>1, <2>2, <2>3, <2>4, <2>5, <2>6, HoldLocal
<1>7. CASE ObserveUndo(t)
  <2> DEFINE s == proc[t].s
             o == Observe(t, "undo", proc[t].o)
             next == [s EXCEPT !.outcome = o, !.state = "recovery-required", !.reason = o.reason]
             r == [s EXCEPT !.outcome = o]
  <2>1. /\ proc[t].pc = "b.observe" /\ field[t] # "none"
        /\ Snapshot(t, proc[t].q, s) /\ s.rollback = safe[t].rollback
        /\ ~Terminal(s.state) /\ ~Terminal(safe[t].state)
    BY <1>0, <1>f, <1>7 DEF ObserveUndo, SnapInv, Snap, Snapshot
  <2>2. safe[t].rollback
    BY <1>0, <2>1 DEF SnapInv
  <2>3. Honest(t, "undo", o)
    BY <1>0, <2>1, ObserveHonest DEF EvidenceInv, IInv, Kind
  <2>4. \/ Release(t)
        \/ Work(t, "hold", proc[t].q, next, NoOutcome) /\ UNCHANGED watch
        \/ /\ Work(t, "b.probe", proc[t].q, r, NoOutcome) /\ UNCHANGED watch
           /\ o.commit = "committed"
    BY <1>7 DEF ObserveUndo, Proven
  <2> HIDE DEF o
  <2>5. /\ next.state = "recovery-required" /\ next.rollback = s.rollback /\ next.domain = s.domain
        /\ next.prep = s.prep /\ next.conf = s.conf /\ next.outcome = o
        /\ r.state = s.state /\ r.rollback = s.rollback /\ r.domain = s.domain
        /\ r.prep = s.prep /\ r.conf = s.conf /\ r.outcome = o
    BY DEF SafetyType
  <2> HIDE DEF next, r
  <2>6. CASE Release(t)
    BY <1>q, <2>6
  <2>7. CASE Work(t, "hold", proc[t].q, next, NoOutcome) /\ UNCHANGED watch
    <3>1. proc'[t] = [pc |-> "hold", q |-> proc[t].q, s |-> next, o |-> NoOutcome, w |-> 0]
      BY <2>7, WorkFacts
    <3>2. WorkerInv(t)'
      BY <1>0, <1>u, <3>1 DEF WorkerInv
    <3>3. EvidenceInv(t)'
      BY <1>0, <1>u, <3>1 DEF EvidenceInv, Honest, Dead
    <3>4. SnapInv(t)'
      BY <1>u, <2>1, <2>3, <2>5, <3>1, HoldSnap DEF Snapshot, Honest, Dead
    <3> QED
      BY <1>0, <1>u, <2>1, <2>7, <3>1, <3>2, <3>3, <3>4, AdvanceLocal
  <2>8. CASE /\ Work(t, "b.probe", proc[t].q, r, NoOutcome) /\ UNCHANGED watch
             /\ o.commit = "committed"
    <3>1. proc'[t] = [pc |-> "b.probe", q |-> proc[t].q, s |-> r, o |-> NoOutcome, w |-> 0]
      BY <2>8, WorkFacts
    <3>2. WorkerInv(t)'
      BY <1>0, <1>u, <3>1 DEF WorkerInv
    <3>3. EvidenceInv(t)'
      BY <1>0, <1>u, <3>1 DEF EvidenceInv, Honest, Dead
    <3>4. SnapInv(t)'
      <4>1. safe'[t].rollback
        BY <1>u, <2>2, Zenon
      <4>2. <<"undo", t>> \in done'
        BY <1>u, <2>3, <2>8 DEF Honest
      <4>3. Snapshot(t, proc[t].q, proc[t].s)'
        BY <1>u, <2>1, <2>3, <2>5, <3>1 DEF Snapshot, Honest, Dead, Terminal
      <4>4. /\ proc'[t].pc = "b.probe" /\ proc'[t].s.rollback = safe'[t].rollback
            /\ ~Terminal(proc'[t].s.state)
        BY <1>u, <2>1, <2>5, <3>1
      <4> QED
        BY <4>1, <4>2, <4>3, <4>4 DEF SnapInv, Snap
    <3> QED
      BY <1>0, <1>u, <2>1, <2>8, <3>1, <3>2, <3>3, <3>4, AdvanceLocal
  <2> QED
    BY <2>4, <2>6, <2>7, <2>8
<1>8. CASE ProbeUndo(t)
  <2> DEFINE s == proc[t].s
             good == [s EXCEPT !.state = "rolled-back", !.healthy = TRUE,
                               !.reason = "rollback-applied-management-reachable"]
             bad == [s EXCEPT !.state = "recovery-required",
                              !.reason = "rollback-management-path-unverified"]
  <2>1. /\ proc[t].pc = "b.probe" /\ field[t] # "none"
        /\ Snapshot(t, proc[t].q, s) /\ s.rollback = safe[t].rollback
        /\ ~Terminal(safe[t].state) /\ <<"undo", t>> \in done
    BY <1>0, <1>f, <1>8 DEF ProbeUndo, SnapInv, Snap, Snapshot
  <2>2. CASE Release(t)
    BY <1>q, <2>2
  <2>3. ASSUME NEW r \in {good, bad}, Work(t, "hold", proc[t].q, r, NoOutcome), UNCHANGED watch
        PROVE  Local(t)'
    <3>1. proc'[t] = [pc |-> "hold", q |-> proc[t].q, s |-> r, o |-> NoOutcome, w |-> 0]
      BY <2>3, WorkFacts
    <3>2. /\ r.state \in {"rolled-back", "recovery-required"} /\ r.rollback = s.rollback
          /\ r.domain = s.domain /\ r.prep = s.prep /\ r.conf = s.conf /\ r.outcome = s.outcome
      BY DEF SafetyType
    <3> HIDE DEF good, bad
    <3>3. WorkerInv(t)'
      BY <1>0, <1>u, <3>1 DEF WorkerInv
    <3>4. EvidenceInv(t)'
      BY <1>0, <1>u, <3>1 DEF EvidenceInv, Honest, Dead
    <3>5. SnapInv(t)'
      BY <1>u, <2>1, <3>1, <3>2, HoldSnap DEF Snapshot, Honest, Dead
    <3> QED
      BY <1>0, <1>u, <2>1, <2>3, <3>1, <3>3, <3>4, <3>5, AdvanceLocal
  <2> QED
    BY <1>8, <2>2, <2>3 DEF ProbeUndo
<1> QED
  BY <1>1, <1>2, <1>3, <1>4, <1>5, <1>6, <1>7, <1>8

\* A new record r in the journal, made from the one that was read.
LEMMA UpdateLocal ==
  ASSUME TypeOK, NEW t \in Txn, Local(t), field[t] # "none", ~Terminal(safe[t].state),
         NEW r \in SafetyType, NEW state, NEW o, updateSafety(t, r, state, o),
         UNCHANGED <<wire, done, sends>>, watch'.todo \subseteq watch.todo,
         state # "none", state = "admitted" => field[t] = "admitted" /\ o.commit = "not-sent",
         Honest(t, "apply", o), Honest(t, "undo", r.outcome), r.state # "none",
         r.state \in {"preparing", "awaiting-confirmation"} => ~r.rollback,
         ~r.rollback => ~safe[t].rollback,
         r.state = "confirmed" => <<"apply", t>> \in done /\ ~r.rollback,
         r.state = "rolled-back" => <<"undo", t>> \in done,
         r.state = "not-committed" => o.commit = "rejected" /\ ~r.rollback,
         \/ proc'[t].pc = "idle"
         \/ /\ proc'[t].pc = "b.send" /\ r.rollback /\ r.state = "rolling-back"
            /\ r.outcome.commit = "unknown" /\ wire[<<"undo", t>>] = "none"
  PROVE  Local(t)'
<1> USE DEF Local
<1>1. /\ field'[t] = state /\ out'[t] = o /\ safe'[t] = r /\ job'[t] = jobFor(t, r.state)
  BY UpdateFacts
<1>2. WireInv(t)'
  BY DEF WireInv
<1>3. IntentInv(t)'
  BY <1>1 DEF IntentInv
<1>4. WorkerInv(t)'
  BY <1>1 DEF WorkerInv
<1>5. EvidenceInv(t)'
  BY <1>1 DEF EvidenceInv, Honest, Dead
<1>6. SnapInv(t)'
  BY DEF SnapInv, Snap
<1>7. VerdictInv(t)'
  BY <1>1 DEF VerdictInv
<1>8. JobInv(t)'
  BY <1>1 DEF JobInv, jobFor, Terminal
<1> QED
  BY <1>2, <1>3, <1>4, <1>5, <1>6, <1>7, <1>8

\* What the watchdog and a decision write keeps the invariant of t.
LEMMA JournalLocal ==
  ASSUME TypeOK, IInv, NEW t \in Txn,
         \/ SaveSafety(t) \/ DispatchUndo(t) \/ SaveObserved(t) \/ Refresh(t)
         \/ ObserveDecision(t) \/ ProbeDecision(t) \/ Confirm(t) \/ RequestRollback(t)
  PROVE  Local(t)'
<1>0. Local(t)
  BY DEF IInv
<1>f. proc[t].pc \notin {"idle", "admit"} => field[t] # "none"
  BY <1>0 DEF Local, IntentInv
<1> USE DEF Local
<1> USE LocalTypes
<1>u. UNCHANGED <<wire, done, sends>>
  BY DEF SaveSafety, DispatchUndo, SaveObserved, Refresh, ObserveDecision, ProbeDecision, Confirm,
         RequestRollback, worldVars, histVars
<1>i. Idle.pc = "idle"
  BY DEF Idle
<1>e. /\ Honest(t, "apply", out[t])
      /\ field[t] = "admitted" => out[t].commit = "not-sent"
  BY <1>0 DEF EvidenceInv, WorkerInv
<1>1. CASE SaveSafety(t)
  <2>1. /\ proc[t].pc = "hold" /\ field[t] # "none"
        /\ updateSafety(t, proc[t].s, field[t], out[t])
    BY <1>1, <1>f DEF SaveSafety, saveSafety
  <2>2. proc'[t].pc = "idle" /\ watch'.todo \subseteq watch.todo
    BY <1>1, <1>i, ReleaseFacts DEF SaveSafety
  <2>3. /\ Snapshot(t, proc[t].q, proc[t].s) /\ proc[t].s.rollback = safe[t].rollback
        /\ proc[t].s.state # "confirmed"
        /\ proc[t].s.state = "rolled-back" => <<"undo", t>> \in done
        /\ proc[t].s.state = "not-committed" => out[t].commit = "rejected" /\ ~safe[t].rollback
    BY <1>0, <2>1 DEF SnapInv, Snap
  <2> QED
    BY <1>0, <1>e, <1>u, <2>1, <2>2, <2>3, UpdateLocal DEF Snapshot
<1>2. CASE DispatchUndo(t)
  <2>1. /\ proc[t].pc = "b.dispatch" /\ field[t] # "none" /\ UNCHANGED watch
        /\ updateSafety(t, proc[t].s, field[t], out[t])
    BY <1>2, <1>f DEF DispatchUndo, saveSafety
  <2>0. proc'[t] = [pc |-> "b.send", q |-> 0, s |-> NoSafety, o |-> NoOutcome, w |-> 0]
    BY <1>2, WorkFacts DEF DispatchUndo
  <2>2. proc'[t].pc = "b.send"
    BY <2>0
  <2>3. /\ Snapshot(t, proc[t].q, proc[t].s) /\ proc[t].s.rollback /\ ~safe[t].rollback
        /\ proc[t].s.state = "rolling-back" /\ proc[t].s.outcome.commit = "unknown"
    BY <1>0, <2>1 DEF SnapInv, Snap
  <2>4. wire[<<"undo", t>>] = "none"
    BY <1>0, <2>3 DEF IntentInv
  <2> QED
    BY <1>0, <1>e, <1>u, <2>1, <2>2, <2>3, <2>4, UpdateLocal DEF Snapshot
<1>3. CASE SaveObserved(t)
  <2>1. /\ proc[t].pc = "s.save" /\ field[t] # "none" /\ UNCHANGED watch
        /\ saveOutcome(t, proc[t].o)
    BY <1>3, <1>f DEF SaveObserved
  <2>2. proc'[t] = [pc |-> "s.evaluate", q |-> seq'[t], s |-> proc[t].s, o |-> proc[t].o, w |-> 0]
    BY <1>3, WorkFacts DEF SaveObserved
  <2>3. /\ Snapshot(t, proc[t].q, proc[t].s) /\ proc[t].s.rollback = safe[t].rollback
        /\ ~Terminal(proc[t].s.state) /\ ~safe[t].rollback
    BY <1>0, <2>1 DEF SnapInv, Snap
  <2>4. safe' = safe /\ Honest(t, "apply", proc[t].o)
    BY <1>0, <2>1, SaveFacts DEF EvidenceInv
  <2>5. \/ field'[t] = field[t] /\ out'[t] = out[t] /\ job'[t] = job[t]
        \/ /\ ~Terminal(safe[t].state)
           /\ field'[t] \notin {"none", "admitted", "committing"}
           /\ out'[t].commit = proc[t].o.commit
           /\ job'[t] \in {job[t], "needs-attention"}
    BY <2>1, SaveFacts
  <2>6. WireInv(t)'
    BY <1>0, <1>u DEF WireInv
  <2>7. IntentInv(t)'
    BY <1>0, <1>u, <2>1, <2>4, <2>5 DEF IntentInv
  <2>8. WorkerInv(t)'
    BY <1>0, <2>2, <2>4, <2>5 DEF WorkerInv
  <2>9. EvidenceInv(t)'
    BY <1>0, <1>u, <2>2, <2>4, <2>5 DEF EvidenceInv, Honest, Dead
  <2>10. SnapInv(t)'
    BY <1>u, <2>2, <2>3, <2>4 DEF SnapInv, Snap, Snapshot, Honest, Dead
  <2>11. VerdictInv(t)'
    BY <1>0, <1>u, <2>4, <2>5 DEF VerdictInv, Terminal
  <2>12. JobInv(t)'
    BY <1>0, <2>4, <2>5 DEF JobInv, Terminal
  <2> QED
    BY <2>6, <2>7, <2>8, <2>9, <2>10, <2>11, <2>12
<1>4. CASE Refresh(t)
  <2>1. proc[t].pc = "refresh" /\ field[t] # "none" /\ UNCHANGED <<field, out, seq, job>>
    BY <1>4, <1>f DEF Refresh
  <2>2. proc'[t].pc = "idle" /\ watch'.todo \subseteq watch.todo
    BY <1>4, <1>i, ReleaseFacts DEF Refresh
  <2>3. safe'[t] = proc[t].s
    BY <1>4 DEF Refresh, TypeOK, JournalOK
  <2>4. /\ Snapshot(t, proc[t].q, proc[t].s) /\ proc[t].s.rollback = safe[t].rollback
        /\ proc[t].s.state = "awaiting-confirmation" /\ ~safe[t].rollback
    BY <1>0, <2>1 DEF SnapInv, Snap
  <2>5. WireInv(t)'
    BY <1>0, <1>u DEF WireInv
  <2>6. IntentInv(t)'
    BY <1>0, <1>u, <2>1, <2>3, <2>4 DEF IntentInv
  <2>7. WorkerInv(t)'
    BY <1>0, <2>1, <2>2, <2>3, <2>4 DEF WorkerInv
  <2>8. EvidenceInv(t)'
    BY <1>0, <1>u, <2>1, <2>2, <2>3, <2>4 DEF EvidenceInv, Snapshot, Honest, Dead
  <2>9. SnapInv(t)'
    BY <2>2 DEF SnapInv, Snap
  <2>10. VerdictInv(t)'
    BY <2>3, <2>4 DEF VerdictInv
  <2>11. JobInv(t)'
    BY <1>0, <2>1, <2>3, <2>4 DEF JobInv, Snapshot, Terminal
  <2> QED
    BY <2>5, <2>6, <2>7, <2>8, <2>9, <2>10, <2>11
<1>5. CASE ObserveDecision(t)
  <2> DEFINE o == Observe(t, "apply", proc[t].o)
  <2>1. /\ proc[t].pc = "d.observe" /\ UNCHANGED <<field, out, seq, safe, job>>
        /\ \/ Proven(o) /\ Work(t, "d.probe", proc[t].q, proc[t].s, o) /\ UNCHANGED watch
           \/ Release(t)
    BY <1>5 DEF ObserveDecision, dbVars
  <2>2. CASE Release(t)
    BY <1>0, <1>u, <2>1, <2>2, ReleaseQuiet, QuietLocal
  <2>3. CASE Proven(o) /\ Work(t, "d.probe", proc[t].q, proc[t].s, o) /\ UNCHANGED watch
    <3>1. Honest(t, "apply", o) /\ o.commit = "committed"
      <4>1. Honest(t, "apply", proc[t].o)
        BY <1>0, <2>1 DEF EvidenceInv
      <4> QED
        BY <2>3, <4>1, ObserveHonest DEF IInv, Kind, Proven
    <3> HIDE DEF o
    <3>2. proc'[t] = [pc |-> "d.probe", q |-> proc[t].q, s |-> proc[t].s, o |-> o, w |-> 0]
      BY <2>3, WorkFacts
    <3>3. WorkerInv(t)'
      BY <1>0, <1>u, <2>1, <3>2 DEF WorkerInv
    <3>4. EvidenceInv(t)'
      BY <1>0, <1>u, <2>1, <3>1, <3>2 DEF EvidenceInv, Honest, Dead
    <3>5. SnapInv(t)'
      BY <1>0, <1>u, <2>1, <3>2 DEF SnapInv, Snap, Snapshot, Honest, Dead, Terminal
    <3> QED
      BY <1>0, <1>f, <1>u, <2>1, <2>3, <3>3, <3>4, <3>5, AdvanceLocal
  <2> QED
    BY <2>1, <2>2, <2>3
<1>6. CASE ProbeDecision(t)
  <2>1. /\ proc[t].pc = "d.probe" /\ UNCHANGED <<field, out, seq, safe, job>>
        /\ \/ Work(t, "d.confirm", proc[t].q, proc[t].s, proc[t].o) /\ UNCHANGED watch
           \/ Release(t)
    BY <1>6 DEF ProbeDecision, dbVars
  <2>2. CASE Release(t)
    BY <1>0, <1>u, <2>1, <2>2, ReleaseQuiet, QuietLocal
  <2>3. CASE Work(t, "d.confirm", proc[t].q, proc[t].s, proc[t].o) /\ UNCHANGED watch
    <3>2. proc'[t] = [pc |-> "d.confirm", q |-> proc[t].q, s |-> proc[t].s, o |-> proc[t].o, w |-> 0]
      BY <2>3, WorkFacts
    <3>3. WorkerInv(t)'
      BY <1>0, <1>u, <2>1, <3>2 DEF WorkerInv
    <3>4. EvidenceInv(t)'
      BY <1>0, <1>u, <2>1, <3>2 DEF EvidenceInv, Honest, Dead
    <3>5. SnapInv(t)'
      BY <1>0, <1>u, <2>1, <3>2 DEF SnapInv, Snap, Snapshot, Honest, Dead, Terminal
    <3> QED
      BY <1>0, <1>f, <1>u, <2>1, <2>3, <3>3, <3>4, <3>5, AdvanceLocal
  <2> QED
    BY <2>1, <2>2, <2>3
<1>7. CASE Confirm(t)
  <2> DEFINE r == [proc[t].s EXCEPT !.state = "confirmed", !.healthy = TRUE,
                                    !.reason = "connectivity-confirmed"]
             state == stateFor(t, proc[t].o)
  <2>1. /\ proc[t].pc = "d.confirm" /\ Release(t)
        /\ \/ UNCHANGED dbVars
           \/ updateSafety(t, r, state, proc[t].o)
    BY <1>7 DEF Confirm
  <2>2. CASE UNCHANGED dbVars
    <3>1. UNCHANGED <<field, out, seq, safe, job>>
      BY <2>2 DEF dbVars
    <3> QED
      BY <1>0, <1>u, <2>1, <3>1, ReleaseQuiet, QuietLocal
  <2>3. CASE updateSafety(t, r, state, proc[t].o)
    <3>1. /\ Snapshot(t, proc[t].q, proc[t].s) /\ proc[t].s = safe[t] /\ ~safe[t].rollback
      BY <1>0, <2>1 DEF SnapInv, Snap
    <3>2. Honest(t, "apply", proc[t].o) /\ proc[t].o.commit = "committed"
      BY <1>0, <2>1 DEF EvidenceInv
    <3>3. r \in SafetyType
      BY RecordTypes DEF TypeOK
    <3>4. /\ r.state = "confirmed" /\ r.outcome = safe[t].outcome /\ r.rollback = safe[t].rollback
      BY <3>1 DEF SafetyType
    <3>5. state \notin {"none", "admitted"}
      BY DEF stateFor
    <3>6. proc'[t].pc = "idle" /\ watch'.todo \subseteq watch.todo
      BY <2>1, <1>i, ReleaseFacts
    <3>7. field[t] # "none" /\ ~Terminal(safe[t].state) /\ Honest(t, "undo", safe[t].outcome)
      BY <1>0, <1>f, <2>1, <3>1 DEF Snapshot, EvidenceInv
    <3>8. <<"apply", t>> \in done
      BY <3>2 DEF Honest
    <3> HIDE DEF r, state
    <3> QED
      BY <1>0, <1>u, <2>3, <3>1, <3>2, <3>3, <3>4, <3>5, <3>6, <3>7, <3>8, UpdateLocal
  <2> QED
    BY <2>1, <2>2, <2>3
<1>8. CASE RequestRollback(t)
  <2> DEFINE r == [proc[t].s EXCEPT !.state = "rollback-requested",
                                    !.reason = "authorized-rollback-requested"]
  <2>1. /\ proc[t].pc = "d.rollback" /\ Release(t) /\ updateSafety(t, r, field[t], out[t])
    BY <1>8 DEF RequestRollback, saveSafety
  <2>2. /\ Snapshot(t, proc[t].q, proc[t].s) /\ proc[t].s = safe[t] /\ ~safe[t].rollback
    BY <1>0, <2>1 DEF SnapInv, Snap
  <2>3. r \in SafetyType
    BY RecordTypes DEF TypeOK
  <2>4. /\ r.state = "rollback-requested" /\ r.outcome = safe[t].outcome
        /\ r.rollback = safe[t].rollback
    BY <2>2 DEF SafetyType
  <2>5. proc'[t].pc = "idle" /\ watch'.todo \subseteq watch.todo
    BY <2>1, <1>i, ReleaseFacts
  <2>6. field[t] # "none" /\ ~Terminal(safe[t].state) /\ Honest(t, "undo", safe[t].outcome)
    BY <1>0, <1>f, <2>1, <2>2 DEF Snapshot, EvidenceInv
  <2> HIDE DEF r
  <2> QED
    BY <1>0, <1>e, <1>u, <2>1, <2>2, <2>3, <2>4, <2>5, <2>6, UpdateLocal
<1> QED
  BY <1>1, <1>2, <1>3, <1>4, <1>5, <1>6, <1>7, <1>8

(***************************************************************************)
(* Every step of the activity of t leaves the other transactions alone.    *)
(***************************************************************************)
\* The helpers touch the activity and the journal of t only.
LEMMA HelpersLocal ==
  ASSUME TypeOK, NEW t \in Txn, NEW u \in Txn \ {t}, NEW k, NEW pc, NEW q, NEW r, NEW o,
         NEW state, NEW reason
  PROVE  /\ Work(t, pc, q, r, o) \/ Return(t, k, o) => proc'[u] = proc[u]
         /\ Release(t) \/ Abort(t) \/ holdSafety(t, q, r, state, reason) =>
              proc'[u] = proc[u] /\ watch'.todo \subseteq watch.todo
         /\ transition(t, o, state) \/ saveOutcome(t, o) \/ updateSafety(t, r, state, o) =>
              /\ field'[u] = field[u] /\ out'[u] = out[u] /\ seq'[u] = seq[u]
              /\ safe'[u] = safe[u] /\ job'[u] = job[u]
<1>1. Work(t, pc, q, r, o) \/ Return(t, k, o) => proc'[u] = proc[u]
  BY DEF Work, Return, TypeOK, ProcessOK
<1>2. Release(t) \/ Abort(t) => proc'[u] = proc[u] /\ watch'.todo \subseteq watch.todo
  BY DEF Release, Abort, Rest, TypeOK, ProcessOK, WatchType
<1>3. holdSafety(t, q, r, state, reason) => proc'[u] = proc[u] /\ watch'.todo \subseteq watch.todo
  <2>1. CASE Release(t)
    BY <1>2, <2>1
  <2>2. CASE ~Release(t)
    BY <2>2 DEF holdSafety, Work, TypeOK, ProcessOK
  <2> QED
    BY <2>1, <2>2
<1>4. transition(t, o, state) \/ saveOutcome(t, o) \/ updateSafety(t, r, state, o) =>
        /\ field'[u] = field[u] /\ out'[u] = out[u] /\ seq'[u] = seq[u]
        /\ safe'[u] = safe[u] /\ job'[u] = job[u]
  BY DEF transition, saveOutcome, updateSafety, dbVars, TypeOK, JournalOK
<1> QED
  BY <1>1, <1>2, <1>3, <1>4

\* A request or a step of the activity of t is quiet for every other u.
LEMMA OthersQuiet ==
  ASSUME TypeOK, NEW t \in Txn, NEW u \in Txn \ {t}, Client(t) \/ Activity(t)
  PROVE  Quiet(u)
<1> USE DEF Quiet
<1>d. UNCHANGED dbVars =>
        /\ field'[u] = field[u] /\ out'[u] = out[u] /\ seq'[u] = seq[u]
        /\ safe'[u] = safe[u] /\ job'[u] = job[u]
  BY DEF dbVars
<1>w. UNCHANGED watch => watch'.todo \subseteq watch.todo
  OBVIOUS
<1>1. CASE Client(t)
  <2>1. UNCHANGED <<field, out, seq, safe, job, watch, wire, done, sends>>
    BY <1>1 DEF Client, Prepare, ReconcileRequested, DecideConfirm, DecideRollback, dbVars,
                worldVars, histVars
  <2>2. proc'[u] = proc[u]
    BY <1>1, HelpersLocal DEF Client, Prepare, ReconcileRequested, DecideConfirm, DecideRollback
  <2> QED
    BY <2>1, <2>2
<1>2. CASE \E k \in Kind : Transact(t, k)
  <2>1. PICK k \in Kind : Transact(t, k)
    BY <1>2
  <2>2. UNCHANGED <<field, out, seq, safe, job, watch, done>>
    BY <2>1 DEF Transact, Send, SendFails, ReplyUnknown, dbVars, histVars
  <2>3. proc'[u] = proc[u]
    BY <2>1, HelpersLocal DEF Transact, Send, SendFails, ReplyUnknown
  <2>4. \A j \in Kind : wire'[<<j, u>>] = wire[<<j, u>>] /\ sends'[<<j, u>>] = sends[<<j, u>>]
    BY <2>1 DEF Transact, Send, SendFails, ReplyUnknown, histVars, TypeOK, WorldOK, HistoryOK
  <2> QED
    BY <2>2, <2>3, <2>4
<1>3. CASE Activity(t) /\ ~\E k \in Kind : Transact(t, k)
  <2>1. UNCHANGED <<wire, done, sends>>
    BY <1>3 DEF Activity, Admit, AdmitRefused, Dispatch, DispatchDenied, DispatchUndo,
                DispatchUndoDenied, SaveReply, Reconcile, ObserveField, SaveField, safetyStep,
                SaveSafety, ObserveSafety, SaveObserved, Evaluate, Probe, Refresh, PrepareRollback,
                ObserveUndo, ProbeUndo, ObserveDecision, ProbeDecision, Confirm, RequestRollback,
                StoreFails, worldVars, histVars
  <2>2. /\ field'[u] = field[u] /\ out'[u] = out[u] /\ seq'[u] = seq[u]
        /\ safe'[u] = safe[u] /\ job'[u] = job[u]
    <3>1. CASE Admit(t) \/ Refresh(t)
      BY <3>1 DEF Admit, Refresh, TypeOK, JournalOK
    <3>2. CASE AdmitRefused(t) \/ StoreFails(t)
      BY <3>2 DEF AdmitRefused, StoreFails
    <3>3. CASE \/ DispatchDenied(t) \/ DispatchUndoDenied(t) \/ Reconcile(t) \/ ObserveField(t)
               \/ safetyStep(t) \/ ObserveSafety(t) \/ Evaluate(t) \/ Probe(t)
               \/ PrepareRollback(t) \/ ObserveUndo(t) \/ ProbeUndo(t)
               \/ ObserveDecision(t) \/ ProbeDecision(t)
      <4>1. UNCHANGED dbVars
        BY <3>3 DEF DispatchDenied, DispatchUndoDenied, Reconcile, ObserveField, safetyStep,
                    ObserveSafety, Evaluate, Probe, PrepareRollback, ObserveUndo, ProbeUndo,
                    ObserveDecision, ProbeDecision
      <4> QED
        BY <1>d, <4>1
    <3>4. CASE \/ Dispatch(t) \/ DispatchUndo(t) \/ SaveReply(t) \/ SaveField(t)
               \/ SaveSafety(t) \/ SaveObserved(t) \/ Confirm(t) \/ RequestRollback(t)
      BY <1>d, <3>4, HelpersLocal DEF Dispatch, DispatchUndo, SaveReply, SaveField, SaveSafety,
                              SaveObserved, Confirm, RequestRollback, saveSafety
    <3> QED
      BY <1>3, <3>1, <3>2, <3>3, <3>4 DEF Activity
  <2>3. proc'[u] = proc[u] /\ watch'.todo \subseteq watch.todo
    <3>1. CASE \/ Admit(t) \/ Dispatch(t) \/ DispatchDenied(t) \/ DispatchUndo(t) \/ ObserveField(t)
               \/ ObserveSafety(t) \/ SaveObserved(t)
      BY <3>1, <1>w, HelpersLocal DEF Admit, Dispatch, DispatchDenied, DispatchUndo, ObserveField,
                                      ObserveSafety, SaveObserved
    <3>2. CASE \/ AdmitRefused(t) \/ StoreFails(t) \/ SaveReply(t) \/ SaveField(t) \/ SaveSafety(t)
               \/ Refresh(t) \/ Confirm(t) \/ RequestRollback(t)
      BY <3>2, <1>w, HelpersLocal DEF AdmitRefused, StoreFails, SaveReply, SaveField, SaveSafety,
                                      Refresh, Confirm, RequestRollback
    <3>3. CASE Reconcile(t) \/ ObserveDecision(t) \/ ProbeDecision(t)
      BY <3>3, <1>w, HelpersLocal DEF Reconcile, ObserveDecision, ProbeDecision
    <3>4. CASE Evaluate(t)
      BY <3>4, <1>w, HelpersLocal DEF Evaluate, TypeOK, ProcessOK
    <3>5. CASE ObserveUndo(t) \/ ProbeUndo(t)
      BY <3>5, <1>w, HelpersLocal DEF ObserveUndo, ProbeUndo
    <3>6. CASE safetyStep(t)
      BY <3>6, <1>w, HelpersLocal DEF safetyStep
    <3>7. CASE Probe(t)
      BY <3>7, <1>w, HelpersLocal DEF Probe
    <3>8. CASE PrepareRollback(t) \/ DispatchUndoDenied(t)
      BY <3>8, <1>w, HelpersLocal DEF PrepareRollback, DispatchUndoDenied
    <3> QED
      BY <1>3, <3>1, <3>2, <3>3, <3>4, <3>5, <3>6, <3>7, <3>8 DEF Activity
  <2> QED
    BY <2>1, <2>2, <2>3
<1> QED
  BY <1>1, <1>2, <1>3

(***************************************************************************)
(* The watchdog, the server and the world.                                 *)
(***************************************************************************)
\* The watchdog's list holds open changes only; a visit starts an activity
\* that knows nothing yet.
LEMMA WatchdogLocal ==
  ASSUME TypeOK, IInv, NEW u \in Txn, Watchdog
  PROVE  Local(u)'
<1>0. Local(u)
  BY DEF IInv
<1>u. UNCHANGED <<field, out, seq, safe, job, wire, done, sends>>
  BY DEF Watchdog, Wake, RecoverEnds, TickEnds, Visit, dbVars, worldVars, histVars
<1>1. CASE Wake \/ RecoverEnds \/ TickEnds
  <2>1. proc' = proc
    BY <1>1 DEF Wake, RecoverEnds, TickEnds
  <2>2. watch'.todo \in {Unsettled, Open, {}}
    BY <1>1 DEF Wake, RecoverEnds, TickEnds, Rest
  <2>3. field[u] = "none" => u \notin watch'.todo
    BY <2>2 DEF Unsettled, Open
  <2>4. Quiet(u)
    BY <1>u, <2>1, <2>3 DEF Quiet
  <2> QED
    BY <1>0, <2>4, QuietLocal
<1>2. ASSUME NEW t \in Txn, Visit(t) PROVE Local(u)'
  <2>1. watch'.todo \subseteq watch.todo
    BY <1>2 DEF Visit, TypeOK, ProcessOK, WatchType
  <2>2. CASE proc'[u] = proc[u]
    <3>1. Quiet(u)
      BY <1>u, <2>1, <2>2 DEF Quiet
    <3> QED
      BY <1>0, <3>1, QuietLocal
  <2>3. CASE proc'[u] # proc[u]
    <3>1. PICK pc \in {"r.read", "s.read"} : Work(t, pc, 0, NoSafety, NoOutcome)
      BY <1>2, <2>3 DEF Visit
    <3>2. t = u /\ t \in watch.todo
      BY <1>2, <2>3, <3>1, WorkFacts DEF Visit
    <3>3. proc'[u] = [pc |-> pc, q |-> 0, s |-> NoSafety, o |-> NoOutcome, w |-> 0]
      BY <3>1, <3>2, WorkFacts
    <3>4. field[u] # "none"
      BY <1>0, <3>2 DEF Local, IntentInv
    <3>5. WorkerInv(u)'
      BY <1>0, <1>u, <3>3 DEF Local, WorkerInv
    <3>6. EvidenceInv(u)'
      BY <1>0, <1>u, <3>3 DEF Local, EvidenceInv, Honest, Dead
    <3>7. SnapInv(u)'
      BY <1>u, <3>3 DEF SnapInv, Snap
    <3> QED
      BY <1>0, <1>u, <2>1, <3>4, <3>5, <3>6, <3>7, AdvanceLocal
  <2> QED
    BY <2>2, <2>3
<1> QED
  BY <1>1, <1>2 DEF Watchdog

\* A compensation only ever commits on the marker of its own change.
LEMMA UndoNeedsApply ==
  ASSUME TypeOK, MarkInv, NEW t \in Txn, Waits(t, "undo", db)
  PROVE  <<"apply", t>> \in done
<1>1. PICK p \in Touch[t] : p \in Port
  BY SafeApplyAssumption
<1>2. db.row[p] = [val |-> After(t, "apply", p), mark |-> <<"apply", t>>]
  BY <1>1 DEF Waits, Image
<1>3. db.row[p].mark = <<"apply", t>>
  BY <1>2
<1> QED
  BY <1>1, <1>3 DEF MarkInv, Kind

\* What ovsdb-server does with the transaction of t, and the reply to it.
LEMMA ServerLocal ==
  ASSUME TypeOK, IInv, NEW t \in Txn, NEW k \in Kind, NEW u \in Txn, ServerTransact(t, k)
  PROVE  Local(u)'
<1>0. Local(u) /\ MarkInv
  BY DEF IInv
<1>u. UNCHANGED <<field, out, seq, safe, job, watch, sends>>
  BY DEF ServerTransact, dbVars
<1>1. CASE u # t
  <2>1. proc'[u] = proc[u]
    BY <1>1, HelpersLocal DEF ServerTransact
  <2>2. \A j \in Kind : /\ wire'[<<j, u>>] = wire[<<j, u>>]
                        /\ <<j, u>> \in done' <=> <<j, u>> \in done
    BY <1>1 DEF ServerTransact, TypeOK, WorldOK
  <2>3. Quiet(u)
    BY <1>u, <2>1, <2>2 DEF Quiet
  <2> QED
    BY <1>0, <2>3, QuietLocal
<1>2. CASE u = t
  <2> DEFINE ok == Waits(t, k, db)
             reply == IF ok THEN [Outcome("committed", "pending", "ovsdb-committed")
                                    EXCEPT !.target = db.next + 1]
                            ELSE NotSent("ovsdb-transaction-rejected")
  <2>1. /\ wire[<<k, t>>] = "flight" /\ wire'[<<k, t>>] = "gone"
        /\ \A j \in Kind \ {k} : wire'[<<j, t>>] = wire[<<j, t>>]
        /\ \A j \in Kind \ {k} : <<j, t>> \in done' <=> <<j, t>> \in done
        /\ <<k, t>> \in done' <=> ok
    <3>1. /\ wire[<<k, t>>] = "flight" /\ wire'[<<k, t>>] = "gone"
          /\ \A j \in Kind \ {k} : wire'[<<j, t>>] = wire[<<j, t>>]
      BY DEF ServerTransact, TypeOK, WorldOK
    <3>2. <<k, t>> \notin done
      BY <1>0, <1>2, <3>1 DEF Local, WireInv
    <3>3. done' = IF ok THEN done \cup {<<k, t>>} ELSE done
      BY DEF ServerTransact
    <3> HIDE DEF ok
    <3> QED
      BY <3>1, <3>2, <3>3
  <2>2. k = "undo" /\ ok => <<"apply", t>> \in done
    BY <1>0, UndoNeedsApply
  <2>3. reply \in OutcomeType
    <3>1. db.next + 1 \in Nat
      BY DEF TypeOK, WorldOK
    <3> QED
      BY <3>1 DEF Outcome, NotSent, OutcomeType, OutcomeReason
  <2>a. \/ proc[t].pc = AwaitPc(k) /\ Return(t, k, reply)
        \/ proc' = proc
    BY DEF ServerTransact
  <2>b. reply.commit = IF ok THEN "committed" ELSE "rejected"
    BY DEF Outcome, NotSent
  <2> HIDE DEF reply
  <2>c. PICK o \in OutcomeType : o = reply
    BY <2>3
  <2>4. \/ proc[t].pc = AwaitPc(k) /\ Return(t, k, o)
        \/ proc' = proc
    BY <2>a, <2>c
  <2>5. o.commit = IF ok THEN "committed" ELSE "rejected"
    BY <2>b, <2>c
  <2> HIDE DEF ok
  <2>6. Honest(t, k, o)'
    BY <2>1, <2>5 DEF Honest, Dead
  <2>7. /\ k = "apply" => out[t].commit # "rejected"
        /\ k = "undo" => safe[t].outcome.commit # "rejected"
    BY <1>0, <1>2, <2>1 DEF Local, EvidenceInv, Honest, Dead
  <2>8. /\ Honest(t, "apply", out[t])' /\ Honest(t, "undo", safe[t].outcome)'
    BY <1>0, <1>2, <1>u, <2>1, <2>7 DEF Local, EvidenceInv, Honest, Dead, WireInv, Kind
  <2>9. WireInv(t)'
    BY <1>0, <1>2, <1>u, <2>1, <2>2 DEF Local, WireInv, Kind
  <2>10. VerdictInv(t)' /\ JobInv(t)'
    BY <1>0, <1>2, <1>u, <2>1 DEF Local, VerdictInv, JobInv, WireInv, Kind
  <2>11. IntentInv(t)'
    <3>1. field[t] \notin {"none", "admitted"} \/ k = "undo"
      BY <1>0, <1>2, <2>1 DEF Local, IntentInv, Kind
    <3>2. safe[t].rollback \/ k = "apply"
      BY <1>0, <1>2, <2>1 DEF Local, IntentInv, Kind
    <3>a. NoSafety.rollback = FALSE
      BY DEF NoSafety
    <3>3. field[t] # "none"
      BY <1>0, <1>2, <3>1, <3>2, <3>a, Zenon DEF Local, IntentInv
    <3> QED
      BY <1>0, <1>2, <1>u, <2>1, <3>1, <3>2, <3>3 DEF Local, IntentInv, Kind
  <2>12. WorkerInv(t)' /\ EvidenceInv(t)' /\ SnapInv(t)'
    <3>1. CASE proc[t].pc = AwaitPc(k) /\ Return(t, k, o)
      BY <1>0, <1>2, <1>u, <2>3, <2>6, <2>8, <3>1, ReturnLocal
    <3>2. CASE proc' = proc
      <4>1. WorkerInv(t)'
        BY <1>0, <1>2, <1>u, <2>1, <3>2 DEF Local, WorkerInv, Kind
      <4>2. EvidenceInv(t)'
        BY <1>0, <1>2, <1>u, <2>1, <2>8, <3>2 DEF Local, EvidenceInv, Honest, Dead, WireInv, Kind
      <4>3. SnapInv(t)'
        BY <1>0, <1>2, <1>u, <2>1, <3>2
           DEF Local, SnapInv, Snap, Snapshot, Honest, Dead, WireInv, Kind, Terminal
      <4> QED
        BY <4>1, <4>2, <4>3
    <3> QED
      BY <2>4, <3>1, <3>2
  <2> QED
    BY <1>2, <2>9, <2>10, <2>11, <2>12 DEF Local
<1> QED
  BY <1>1, <1>2

\* Crashes, clocks, authority, paths, links and third parties change nothing
\* that the invariant says of a transaction, but may cut its wire and end its
\* activity.
LEMMA WorldQuiet ==
  ASSUME TypeOK, NEW u \in Txn, World \/ Restart \/ Tick \/ Vswitchd \/ Sync
  PROVE  Quiet(u)
<1>1. UNCHANGED <<field, out, seq, safe, job, done, sends>>
  BY DEF World, Crash, Reboot, Die, WallStep, PathChange, LinkChange, Regenerate, Reauthorize,
         WireLost, EditExternally, Restart, Tick, Vswitchd, Sync, dbVars, histVars
<1>2. /\ proc'[u] = proc[u] \/ proc'[u] = Idle
      /\ u \notin watch.todo => u \notin watch'.todo
  <2>1. CASE Crash \/ Reboot
    <3>1. proc'[u] = Idle /\ watch' = Rest
      BY <2>1 DEF Crash, Reboot, Die
    <3> QED
      BY <3>1 DEF Rest
  <2>2. CASE ~(Crash \/ Reboot)
    <3>1. UNCHANGED <<proc, watch>>
      BY <2>2 DEF World, WallStep, PathChange, LinkChange, Regenerate, Reauthorize, WireLost,
                  EditExternally, Restart, Tick, Vswitchd, Sync, procVars
    <3> QED
      BY <3>1
  <2> QED
    BY <2>1, <2>2
<1>3. \A k \in Kind : \/ wire'[<<k, u>>] = wire[<<k, u>>]
                      \/ wire[<<k, u>>] = "flight" /\ wire'[<<k, u>>] = "gone"
  <2>1. CASE Reboot \/ Regenerate
    BY <2>1 DEF Reboot, Regenerate, TypeOK, WorldOK
  <2>2. CASE \E t \in Txn, k \in Kind : WireLost(t, k)
    BY <2>2 DEF WireLost, TypeOK, WorldOK
  <2>3. CASE ~(Reboot \/ Regenerate) /\ ~\E t \in Txn, k \in Kind : WireLost(t, k)
    BY <2>3 DEF World, Crash, WallStep, PathChange, LinkChange, Reauthorize,
           EditExternally, Restart, Tick, Vswitchd, Sync, worldVars
  <2> QED
    BY <2>1, <2>2, <2>3
<1> QED
  BY <1>1, <1>2, <1>3 DEF Quiet

(***************************************************************************)
(* Markers.                                                                *)
(***************************************************************************)
\* A step that writes no row and learns no row.
LEMMA MarkFrame ==
  ASSUME MarkInv, db'.row = db.row, cache'.row = cache.row, done \subseteq done'
  PROVE  MarkInv'
BY DEF MarkInv

\* No step forges a marker.
LEMMA MarkStep ==
  ASSUME TypeOK, MarkInv, Next
  PROVE  MarkInv'
<1>n. \A k \in Kind, t \in Txn : NoMark # <<k, t>>
  BY DEF NoMark, Kind
<1>1. CASE \E t \in Txn : Client(t) \/ Activity(t)
  <2>1. UNCHANGED <<db, cache, done>>
    <3>1. PICK t \in Txn : Client(t) \/ Activity(t)
      BY <1>1
    <3>2. CASE Client(t)
      BY <3>2 DEF Client, Prepare, ReconcileRequested, DecideConfirm, DecideRollback,
                  worldVars, histVars
    <3>3. CASE \E k \in Kind : Transact(t, k)
      BY <3>3 DEF Transact, Send, SendFails, ReplyUnknown, histVars
    <3>4. CASE Activity(t) /\ ~\E k \in Kind : Transact(t, k)
      BY <3>4 DEF Activity, Admit, AdmitRefused, Dispatch, DispatchDenied, DispatchUndo,
                  DispatchUndoDenied, SaveReply, Reconcile, ObserveField, SaveField, safetyStep,
                  SaveSafety, ObserveSafety, SaveObserved, Evaluate, Probe, Refresh,
                  PrepareRollback, ObserveUndo, ProbeUndo, ObserveDecision, ProbeDecision, Confirm,
                  RequestRollback, StoreFails, worldVars, histVars
    <3> QED
      BY <3>1, <3>2, <3>3, <3>4
  <2> QED
    BY <2>1, MarkFrame
<1>2. CASE Watchdog
  <2>1. UNCHANGED <<db, cache, done>>
    BY <1>2 DEF Watchdog, Wake, RecoverEnds, TickEnds, Visit, worldVars, histVars
  <2> QED
    BY <2>1, MarkFrame
<1>3. ASSUME NEW t \in Txn, NEW k \in Kind, ServerTransact(t, k) PROVE MarkInv'
  <2>1. CASE UNCHANGED <<db, done>>
    BY <1>3, <2>1, MarkFrame DEF ServerTransact
  <2>2. CASE ~UNCHANGED <<db, done>>
    <3>1. db' = Written(t, k) /\ done' = done \cup {<<k, t>>} /\ cache' = cache
      BY <1>3, <2>2 DEF ServerTransact
    <3>2. ASSUME NEW p \in Port
          PROVE  db'.row[p].mark = IF p \in Touch[t] THEN <<k, t>> ELSE db.row[p].mark
      <4>1. db'.row = [q \in Port |-> IF q \in Touch[t]
                                      THEN [val |-> After(t, k, q), mark |-> <<k, t>>]
                                      ELSE db.row[q]]
        BY <3>1 DEF Written, TypeOK, WorldOK
      <4> QED
        BY <4>1
    <3> QED
      BY <3>1, <3>2 DEF MarkInv
  <2> QED
    BY <2>1, <2>2
<1>4. ASSUME NEW p \in Port, EditExternally(p) PROVE MarkInv'
  <2>1. PICK v \in {"base", "ext"}, m \in {db.row[p].mark, NoMark} :
          db' = [db EXCEPT !.row[p] = [val |-> v, mark |-> m], !.next = @ + 1]
    BY <1>4 DEF EditExternally
  <2>2. cache' = cache /\ done' = done
    BY <1>4 DEF EditExternally, histVars
  <2>3. db'.row = [db.row EXCEPT ![p] = [val |-> v, mark |-> m]]
    BY <2>1 DEF TypeOK, WorldOK
  <2>4. \A q \in Port : db'.row[q].mark \in {db.row[q].mark, NoMark}
    BY <2>3 DEF TypeOK, WorldOK
  <2> QED
    BY <1>n, <2>2, <2>4 DEF MarkInv
<1>5. CASE Sync
  <2>1. cache'.row = db.row /\ db' = db /\ done' = done
    BY <1>5 DEF Sync, histVars
  <2> QED
    BY <2>1 DEF MarkInv
<1>6. CASE Crash \/ Reboot
  <2>1. cache' = NoView /\ db' = db /\ done' = done
    BY <1>6 DEF Crash, Reboot, Die, histVars
  <2>2. \A p \in Port : cache'.row[p].mark = NoMark
    BY <2>1 DEF NoView, Base
  <2> QED
    BY <1>n, <2>1, <2>2 DEF MarkInv
<1>7. CASE \/ WallStep \/ PathChange \/ LinkChange \/ Regenerate \/ Restart \/ Tick \/ Vswitchd
           \/ \E t \in Txn : Reauthorize(t)
           \/ \E t \in Txn, k \in Kind : WireLost(t, k)
  <2>1. db'.row = db.row /\ cache' = cache /\ done' = done
    BY <1>7 DEF WallStep, PathChange, LinkChange, Regenerate, Restart, Tick, Vswitchd, Reauthorize,
                WireLost, worldVars, histVars, TypeOK, WorldOK
  <2> QED
    BY <2>1, MarkFrame
<1> QED
  BY <1>1, <1>2, <1>3, <1>4, <1>5, <1>6, <1>7 DEF Next, Server, World

(***************************************************************************)
(* Exclusion.                                                              *)
(***************************************************************************)
\* No change is opened, and the open ones keep their domain and protections.
LEMMA ExclusionFrame ==
  ASSUME TypeOK, Exclusion, Open' \subseteq Open,
         \A t \in Open' : safe'[t].domain = safe[t].domain,
         \A t \in Open', p \in Port : <<p, t>> \in prot => <<p, t>> \in prot'
  PROVE  Exclusion'
<1>1. ASSUME NEW t \in Txn, t \in Open' PROVE Touch[t] \X {t} \subseteq prot'
  <2>1. Touch[t] \subseteq Port /\ Touch[t] \X {t} \subseteq prot
    BY <1>1, SafeApplyAssumption DEF Exclusion
  <2>2. ASSUME NEW p \in Touch[t] PROVE <<p, t>> \in prot'
    BY <1>1, <2>1
  <2> QED
    BY <2>2
<1>2. ASSUME NEW t \in Open', NEW u \in Open', t # u
      PROVE  Touch[t] \cap Touch[u] = {} /\ safe'[t].domain # safe'[u].domain
  BY <1>2 DEF Exclusion
<1> QED
  BY <1>1, <1>2 DEF Exclusion

\* Journal writes of t: settled or not, t was open before and keeps its domain.
LEMMA ExclusionWrite ==
  ASSUME TypeOK, Exclusion, NEW t \in Txn, field[t] # "none", ~Terminal(safe[t].state),
         \A u \in Txn \ {t} : field'[u] = field[u] /\ safe'[u] = safe[u],
         safe'[t].domain = safe[t].domain,
         prot' = IF Terminal(safe'[t].state) THEN prot \ (Port \X {t}) ELSE prot
  PROVE  Exclusion'
<1>1. Open' \subseteq Open
  BY DEF Open, Terminal
<1>2. \A u \in Open' : safe'[u].domain = safe[u].domain
  BY DEF Open
<1>3. ASSUME NEW u \in Open', NEW p \in Port, <<p, u>> \in prot PROVE <<p, u>> \in prot'
  <2>1. u = t => ~Terminal(safe'[t].state)
    BY <1>3 DEF Open, Terminal
  <2>2. CASE u = t
    BY <1>3, <2>1, <2>2
  <2>3. CASE u # t
    BY <1>3, <2>3
  <2> QED
    BY <2>2, <2>3
<1> QED
  BY <1>1, <1>2, <1>3, ExclusionFrame

\* The changes that write neither state nor protections.
LEMMA ExclusionUnchanged ==
  ASSUME TypeOK, Exclusion, UNCHANGED <<field, safe, prot>>
  PROVE  Exclusion'
BY DEF Exclusion, Open

\* Admission is the only way to open a change, and it looks at all open ones.
LEMMA ExclusionAdmit ==
  ASSUME TypeOK, IInv, NEW t \in Txn, Admit(t)
  PROVE  Exclusion'
<1>1. /\ ~Protected(t) /\ DomainFree
      /\ field' = [field EXCEPT ![t] = "admitted"] /\ safe' = [safe EXCEPT ![t] = admitSafety]
      /\ prot' = prot \cup (Touch[t] \X {t})
  BY DEF Admit, Admissible
<1>2. /\ \A u \in Txn \ {t} : field'[u] = field[u] /\ safe'[u] = safe[u]
      /\ safe'[t] = admitSafety
  BY <1>1 DEF TypeOK, JournalOK
<1>3. admitSafety.domain = mgr.domain
  BY DEF admitSafety, NoSafety
<1>4. \A u \in Open' : u # t => u \in Open
  BY <1>2 DEF Open, Terminal
<1>5. Exclusion
  BY DEF IInv
<1>6. ASSUME NEW u \in Txn, u \in Open', u # t
      PROVE  /\ Touch[u] \X {u} \subseteq prot
             /\ Touch[u] \cap Touch[t] = {} /\ safe'[u].domain # safe'[t].domain
  <2>1. Touch[u] \X {u} \subseteq prot /\ u \in Open
    BY <1>4, <1>5, <1>6 DEF Exclusion
  <2>2. Touch[u] \cap Touch[t] = {}
    <3>1. SUFFICES ASSUME NEW p \in Touch[u], p \in Touch[t] PROVE FALSE
      OBVIOUS
    <3>2. <<p, u>> \in prot
      BY <2>1
    <3> QED
      BY <1>1, <3>1, <3>2 DEF Protected
  <2>3. safe'[u].domain # safe'[t].domain
    BY <1>1, <1>2, <1>3, <1>6, <2>1 DEF DomainFree
  <2> QED
    BY <2>1, <2>2, <2>3
<1>7. ASSUME NEW u \in Txn, u \in Open' PROVE Touch[u] \X {u} \subseteq prot'
  <2>1. CASE u = t
    BY <1>1, <2>1
  <2>2. CASE u # t
    BY <1>1, <1>6, <1>7, <2>2
  <2> QED
    BY <2>1, <2>2
<1>8. ASSUME NEW u \in Open', NEW v \in Open', u # v
      PROVE  Touch[u] \cap Touch[v] = {} /\ safe'[u].domain # safe'[v].domain
  <2>0. u \in Txn /\ v \in Txn
    BY DEF Open
  <2>1. CASE u = t
    BY <1>6, <1>8, <2>0, <2>1
  <2>2. CASE v = t
    BY <1>6, <1>8, <2>0, <2>2
  <2>3. CASE u # t /\ v # t
    BY <1>2, <1>4, <1>5, <1>8, <2>0, <2>3 DEF Exclusion
  <2> QED
    BY <2>1, <2>2, <2>3
<1> QED
  BY <1>7, <1>8 DEF Exclusion

\* Every step keeps open changes apart.
LEMMA ExclusionStep ==
  ASSUME TypeOK, IInv, Next
  PROVE  Exclusion'
<1>0. Exclusion
  BY DEF IInv
<1>1. ASSUME NEW t \in Txn, Admit(t) PROVE Exclusion'
  BY <1>1, ExclusionAdmit
<1>2. ASSUME NEW t \in Txn, Dispatch(t) \/ SaveReply(t) \/ SaveField(t) \/ SaveObserved(t)
      PROVE  Exclusion'
  <2>1. /\ \A u \in Txn \ {t} : field'[u] = field[u]
        /\ safe' = safe /\ prot' = prot
    BY <1>2 DEF Dispatch, SaveReply, SaveField, SaveObserved, saveOutcome, transition, dbVars,
                TypeOK, JournalOK
  <2>2. field[t] # "none"
    BY <1>2 DEF IInv, Local, IntentInv, Dispatch, SaveReply, SaveField, SaveObserved
  <2>3. Open' \subseteq Open
    BY <2>1, <2>2 DEF Open, Terminal
  <2> QED
    BY <1>0, <2>1, <2>3, ExclusionFrame
<1>3. ASSUME NEW t \in Txn, NEW r, NEW state, NEW o, updateSafety(t, r, state, o),
             proc[t].pc \in Snap, r.domain = proc[t].s.domain
      PROVE  Exclusion'
  <2>1. Local(t) /\ Snapshot(t, proc[t].q, proc[t].s)
    BY <1>3 DEF IInv, Local, SnapInv
  <2>2. field[t] # "none" /\ ~Terminal(safe[t].state) /\ r.domain = safe[t].domain
    BY <1>3, <2>1 DEF Local, IntentInv, Snapshot, Snap
  <2>3. /\ \A u \in Txn \ {t} : field'[u] = field[u] /\ safe'[u] = safe[u]
        /\ safe'[t] = r
        /\ prot' = IF Terminal(r.state) THEN prot \ (Port \X {t}) ELSE prot
    BY <1>3, UpdateFacts
  <2> QED
    BY <1>0, <2>2, <2>3, ExclusionWrite
<1>4. ASSUME NEW t \in Txn, Refresh(t) PROVE Exclusion'
  <2>1. Local(t) /\ Snapshot(t, proc[t].q, proc[t].s) /\ ~Terminal(proc[t].s.state)
    BY <1>4 DEF IInv, Local, SnapInv, Snap, Refresh
  <2>2. /\ field' = field /\ prot' = prot /\ safe'[t] = proc[t].s
        /\ \A u \in Txn \ {t} : safe'[u] = safe[u]
    BY <1>4 DEF Refresh, TypeOK, JournalOK
  <2>3. field[t] # "none" /\ ~Terminal(safe[t].state)
    BY <1>4, <2>1 DEF Local, IntentInv, Snapshot, Refresh
  <2> QED
    BY <1>0, <2>1, <2>2, <2>3, ExclusionWrite DEF Snapshot
<1>5. ASSUME NEW t \in Txn, SaveSafety(t) \/ DispatchUndo(t) PROVE Exclusion'
  <2>1. updateSafety(t, proc[t].s, field[t], out[t]) /\ proc[t].pc \in Snap
    BY <1>5 DEF SaveSafety, DispatchUndo, saveSafety, Snap
  <2> QED
    BY <1>3, <2>1
<1>6. ASSUME NEW t \in Txn, RequestRollback(t) PROVE Exclusion'
  <2> DEFINE r == [proc[t].s EXCEPT !.state = "rollback-requested",
                                    !.reason = "authorized-rollback-requested"]
  <2>1. updateSafety(t, r, field[t], out[t]) /\ proc[t].pc \in Snap
    BY <1>6 DEF RequestRollback, saveSafety, Snap
  <2>2. r.domain = proc[t].s.domain
    BY LocalTypes DEF SafetyType
  <2> HIDE DEF r
  <2> QED
    BY <1>3, <2>1, <2>2
<1>7. ASSUME NEW t \in Txn, Confirm(t) PROVE Exclusion'
  <2> DEFINE r == [proc[t].s EXCEPT !.state = "confirmed", !.healthy = TRUE,
                                    !.reason = "connectivity-confirmed"]
             state == stateFor(t, proc[t].o)
  <2>1. proc[t].pc \in Snap /\ (updateSafety(t, r, state, proc[t].o) \/ UNCHANGED dbVars)
    BY <1>7 DEF Confirm, Snap
  <2>2. r.domain = proc[t].s.domain
    BY LocalTypes DEF SafetyType
  <2> HIDE DEF r, state
  <2>3. CASE updateSafety(t, r, state, proc[t].o)
    BY <1>3, <2>1, <2>2, <2>3
  <2>4. CASE UNCHANGED dbVars
    <3>1. UNCHANGED <<field, safe, prot>>
      BY <2>4 DEF dbVars
    <3> QED
      BY <1>0, <3>1, ExclusionUnchanged
  <2> QED
    BY <2>1, <2>3, <2>4
<1>8. ASSUME NEW t \in Txn, Client(t) \/ \E k \in Kind : Transact(t, k) \/ ServerTransact(t, k)
      PROVE  Exclusion'
  <2>1. UNCHANGED <<field, safe, prot>>
    BY <1>8 DEF Client, Prepare, ReconcileRequested, DecideConfirm, DecideRollback, Transact, Send,
                SendFails, ReplyUnknown, ServerTransact, dbVars
  <2> QED
    BY <1>0, <2>1, ExclusionUnchanged
<1>9. ASSUME NEW t \in Txn,
             \/ AdmitRefused(t) \/ DispatchDenied(t) \/ DispatchUndoDenied(t) \/ Reconcile(t)
             \/ ObserveField(t) \/ safetyStep(t) \/ ObserveSafety(t) \/ Evaluate(t) \/ Probe(t)
             \/ PrepareRollback(t) \/ ObserveUndo(t) \/ ProbeUndo(t) \/ ObserveDecision(t)
             \/ ProbeDecision(t) \/ StoreFails(t)
      PROVE  Exclusion'
  <2>1. UNCHANGED <<field, safe, prot>>
    BY <1>9 DEF AdmitRefused, DispatchDenied, DispatchUndoDenied, Reconcile, ObserveField,
                safetyStep, ObserveSafety, Evaluate, Probe, PrepareRollback, ObserveUndo, ProbeUndo,
                ObserveDecision, ProbeDecision, StoreFails, dbVars
  <2> QED
    BY <1>0, <2>1, ExclusionUnchanged
<1>10. CASE Watchdog \/ World \/ Restart \/ Tick \/ Vswitchd \/ Sync
  <2>1. UNCHANGED <<field, safe, prot>>
    BY <1>10 DEF Watchdog, Wake, RecoverEnds, TickEnds, Visit, World, Crash, Reboot, Die, WallStep,
                 PathChange, LinkChange, Regenerate, Reauthorize, WireLost, EditExternally, Restart,
                 Tick, Vswitchd, Sync, dbVars
  <2> QED
    BY <1>0, <2>1, ExclusionUnchanged
<1> QED
  BY <1>1, <1>2, <1>4, <1>5, <1>6, <1>7, <1>8, <1>9, <1>10 DEF Next, Server, Activity

(***************************************************************************)
(* The invariant holds.                                                    *)
(***************************************************************************)
\* Nothing has happened yet.
LEMMA InvInit == Init => IInv
<1> SUFFICES ASSUME Init PROVE IInv
  OBVIOUS
<1>1. MarkInv
  <2>1. db.row = Base /\ cache.row = Base
    BY DEF Init, NoView
  <2>2. \A p \in Port : Base[p].mark = NoMark
    BY DEF Base
  <2>3. \A k \in Kind, t \in Txn : NoMark # <<k, t>>
    BY DEF NoMark, Kind
  <2> QED
    BY <2>1, <2>2, <2>3 DEF MarkInv
<1>2. Exclusion
  BY DEF Init, Exclusion, Open
<1>3. ASSUME NEW t \in Txn PROVE Local(t)
  <2>1. /\ field[t] = "none" /\ out[t] = NoOutcome /\ seq[t] = 0 /\ safe[t] = NoSafety
        /\ job[t] = "none" /\ proc[t] = Idle /\ t \notin watch.todo
        /\ \A k \in Kind : /\ wire[<<k, t>>] = "none" /\ sends[<<k, t>>] = 0
                           /\ <<k, t>> \notin done
    BY DEF Init, Rest
  <2>2. /\ Idle.pc = "idle" /\ NoSafety.state = "none" /\ NoSafety.rollback = FALSE
        /\ NoSafety.outcome.commit = "" /\ NoOutcome.commit = ""
    BY DEF Idle, NoSafety, NoOutcome, Outcome
  <2>3. WireInv(t)
    BY <2>1 DEF WireInv, Kind
  <2>4. IntentInv(t)
    BY <2>1, <2>2 DEF IntentInv, Kind
  <2>5. WorkerInv(t)
    BY <2>1, <2>2 DEF WorkerInv
  <2>6. EvidenceInv(t)
    BY <2>1, <2>2 DEF EvidenceInv, Honest
  <2>7. SnapInv(t)
    BY <2>1, <2>2 DEF SnapInv, Snap
  <2>8. VerdictInv(t) /\ JobInv(t)
    BY <2>1, <2>2 DEF VerdictInv, JobInv
  <2> QED
    BY <2>3, <2>4, <2>5, <2>6, <2>7, <2>8 DEF Local
<1> QED
  BY <1>1, <1>2, <1>3 DEF IInv

\* A step that changes no variable.
LEMMA InvStutter ==
  ASSUME TypeOK, IInv, UNCHANGED vars
  PROVE  IInv'
<1>1. ASSUME NEW u \in Txn PROVE Local(u)'
  <2>1. Quiet(u)
    BY DEF vars, dbVars, procVars, worldVars, histVars, Quiet
  <2> QED
    BY <2>1, QuietLocal DEF IInv
<1>2. MarkInv'
  BY MarkFrame DEF vars, worldVars, histVars, IInv
<1>3. Exclusion'
  BY ExclusionUnchanged DEF vars, dbVars, IInv
<1> QED
  BY <1>1, <1>2, <1>3 DEF IInv

\* Every step keeps the invariant.
LEMMA InvStep ==
  ASSUME TypeOK, IInv, Next
  PROVE  IInv'
<1>1. ASSUME NEW u \in Txn PROVE Local(u)'
  <2>0. Local(u)
    BY DEF IInv
  <2>1. ASSUME NEW t \in Txn, Client(t) \/ Activity(t) PROVE Local(u)'
    <3>1. CASE u # t
      BY <2>0, <2>1, <3>1, OthersQuiet, QuietLocal
    <3>2. CASE u = t /\ Client(t)
      BY <3>2, ClientLocal
    <3>3. CASE u = t /\ \E k \in Kind : Transact(t, k)
      BY <3>3, TransactLocal
    <3>4. CASE u = t /\ Activity(t) /\ ~\E k \in Kind : Transact(t, k)
      BY <3>4, WorkerLocal, SafetyStepLocal, JournalLocal DEF Activity
    <3> QED
      BY <2>1, <3>1, <3>2, <3>3, <3>4
  <2>2. CASE Watchdog
    BY <2>2, WatchdogLocal
  <2>3. CASE Server
    BY <2>3, ServerLocal DEF Server
  <2>4. CASE World \/ Restart \/ Tick \/ Vswitchd \/ Sync
    BY <2>0, <2>4, WorldQuiet, QuietLocal
  <2> QED
    BY <2>1, <2>2, <2>3, <2>4 DEF Next
<1>2. MarkInv'
  BY MarkStep DEF IInv
<1>3. Exclusion'
  BY ExclusionStep
<1> QED
  BY <1>1, <1>2, <1>3 DEF IInv

\* The inductive invariant of the engine, for every number of changes,
\* objects and domains and any number of crashes, losses and retries.
THEOREM Invariance == Spec => []IInv
<1>1. Init => IInv
  BY InvInit
<1>2. TypeOK /\ IInv /\ [Next]_vars => IInv'
  BY InvStep, InvStutter
<1> QED
  BY <1>1, <1>2, TypeCorrect, PTL DEF Spec

(***************************************************************************)
(* What follows from it.                                                   *)
(***************************************************************************)
\* A native transaction is written to the socket at most once and never
\* before its intent is durable (Commit, beforeSend, SafetyTick).
THEOREM NeverSentTwice == Spec => []SentOnceAfterIntent
<1>1. TypeOK /\ IInv => SentOnceAfterIntent
  <2>1. SUFFICES ASSUME TypeOK, IInv, NEW t \in Txn
                 PROVE  /\ \A k \in Kind : sends[<<k, t>>] <= 1
                        /\ Sent(t, "apply") => field[t] \notin {"none", "admitted"}
                        /\ Sent(t, "undo") => safe[t].rollback
    BY DEF SentOnceAfterIntent
  <2>2. WireInv(t) /\ IntentInv(t)
    BY <2>1 DEF IInv, Local
  <2>3. \A k \in Kind : \/ sends[<<k, t>>] = 0
                        \/ sends[<<k, t>>] = 1 /\ wire[<<k, t>>] # "none"
    BY <2>2 DEF WireInv
  <2>4. Sent(t, "apply") => wire[<<"apply", t>>] # "none"
    BY <2>3 DEF Sent, Kind
  <2>5. Sent(t, "undo") => wire[<<"undo", t>>] # "none"
    BY <2>3 DEF Sent, Kind
  <2>6. \A k \in Kind : sends[<<k, t>>] <= 1
    BY <2>3
  <2>7. Sent(t, "apply") => field[t] \notin {"none", "admitted"}
    BY <2>2, <2>4 DEF IntentInv
  <2>8. Sent(t, "undo") => safe[t].rollback
    BY <2>2, <2>5 DEF IntentInv
  <2> QED
    BY <2>6, <2>7, <2>8
<1> QED
  BY <1>1, Invariance, TypeCorrect, PTL

\* A journalled rejection is final: the transaction is not in effect, not on
\* the wire and will not be sent (Commit's outcomes, Recover, safetyStep).
THEOREM RejectionIsFinal == Spec => []RejectedIsFinal
<1>1. TypeOK /\ IInv => RejectedIsFinal
  BY DEF IInv, Local, EvidenceInv, WorkerInv, Honest, Dead, RejectedIsFinal, InFlight
<1> QED
  BY <1>1, Invariance, TypeCorrect, PTL

\* The verdict of a settled change says what Open vSwitch really did, and
\* nothing of it is still on its way (updateSafety, Decide).
THEOREM VerdictIsTrue == Spec => []VerdictTrue
<1>1. TypeOK /\ IInv => VerdictTrue
  <2>1. SUFFICES ASSUME TypeOK, IInv, NEW t \in Txn
                 PROVE  /\ Terminal(safe[t].state) => \A k \in Kind : ~InFlight(t, k)
                        /\ safe[t].state = "confirmed" => <<"apply", t>> \in done /\ ~Sent(t, "undo")
                        /\ safe[t].state = "rolled-back" => <<"undo", t>> \in done
                        /\ safe[t].state = "not-committed" => <<"apply", t>> \notin done
    BY DEF VerdictTrue
  <2>2. Local(t)
    BY <2>1 DEF IInv
  <2>3. \A k \in Kind : <<k, t>> \in done => wire[<<k, t>>] = "gone"
    BY <2>2 DEF Local, WireInv
  <2>4. CASE safe[t].state = "confirmed"
    BY <2>2, <2>3, <2>4 DEF Local, VerdictInv, IntentInv, WireInv, InFlight, Sent, Kind
  <2>5. CASE safe[t].state = "rolled-back"
    BY <2>2, <2>3, <2>5 DEF Local, VerdictInv, WireInv, InFlight, Kind
  <2>6. CASE safe[t].state = "not-committed"
    BY <2>2, <2>3, <2>6 DEF Local, VerdictInv, IntentInv, EvidenceInv, Honest, Dead, InFlight, Kind
  <2> QED
    BY <2>4, <2>5, <2>6 DEF Terminal
<1> QED
  BY <1>1, Invariance, TypeCorrect, PTL

\* Open changes share neither an object nor a management path, and keep their
\* protections until they are settled (admitSafety, updateSafety).
THEOREM OpenChangesApart == Spec => []Exclusion
<1>1. IInv => Exclusion
  BY DEF IInv
<1> QED
  BY <1>1, Invariance, PTL

\* Under the claim no activity meets a revision other than the one it read
\* (saveSafety's comparison never fails).
THEOREM ClaimExcludesConflict == Spec => []NoVersionConflict
<1>1. IInv => NoVersionConflict
  BY DEF IInv, Local, SnapInv, Snap, Snapshot, NoVersionConflict, CAS
<1> QED
  BY <1>1, Invariance, PTL

\* The Job is finished exactly when Safe Apply is settled (jobFor, fieldJob).
THEOREM JobFollowsVerdict == Spec => []JobMatchesVerdict
<1>1. IInv => JobMatchesVerdict
  BY DEF IInv, Local, JobInv, JobMatchesVerdict
<1> QED
  BY <1>1, Invariance, PTL

(***************************************************************************)
(* The four ways a step can treat the journal of a transaction.            *)
(***************************************************************************)
\* It is left alone.
Kept(u) ==
  field'[u] = field[u] /\ out'[u] = out[u] /\ seq'[u] = seq[u] /\ safe'[u] = safe[u]

\* The field journal of an open change is written.
FieldWrite(u) ==
  /\ field[u] # "none" /\ field'[u] # "none" /\ ~Terminal(safe[u].state)
  /\ safe'[u] = safe[u]

\* The Safe Apply record of an open change is written.
SafetyWrite(u) ==
  /\ field[u] # "none" /\ field'[u] # "none" /\ ~Terminal(safe[u].state)
  /\ safe'[u].prep = safe[u].prep
  /\ safe[u].conf # NoDeadline => safe'[u].conf = safe[u].conf
  /\ safe[u].rollback => safe'[u].rollback
  /\ safe'[u].state = "confirmed" =>
       ~Expired(safe[u].conf) /\ ~Reversed(u, safe[u]) /\ u \in auth

\* The writes of the activity of t are of one of these shapes.
LEMMA ActivityShape ==
  ASSUME TypeOK, IInv, NEW t \in Txn, Client(t) \/ Activity(t)
  PROVE  Kept(t) \/ Admit(t) \/ FieldWrite(t) \/ SafetyWrite(t)
<1>0. Local(t)
  BY DEF IInv
<1>f. proc[t].pc \notin {"idle", "admit"} => field[t] # "none"
  BY <1>0 DEF Local, IntentInv
<1>d. UNCHANGED dbVars => Kept(t)
  BY DEF dbVars, Kept
<1>1. CASE Client(t) \/ \E k \in Kind : Transact(t, k)
  <2>1. UNCHANGED <<field, out, seq, safe>>
    BY <1>1 DEF Client, Prepare, ReconcileRequested, DecideConfirm, DecideRollback, Transact, Send,
                SendFails, ReplyUnknown, dbVars
  <2> QED
    BY <2>1 DEF Kept
<1>2. CASE \/ AdmitRefused(t) \/ DispatchDenied(t) \/ DispatchUndoDenied(t) \/ Reconcile(t)
           \/ ObserveField(t) \/ safetyStep(t) \/ ObserveSafety(t) \/ Evaluate(t) \/ Probe(t)
           \/ PrepareRollback(t) \/ ObserveUndo(t) \/ ProbeUndo(t) \/ ObserveDecision(t)
           \/ ProbeDecision(t) \/ StoreFails(t)
  <2>1. UNCHANGED <<field, out, seq, safe>>
    BY <1>2 DEF AdmitRefused, DispatchDenied, DispatchUndoDenied, Reconcile, ObserveField,
                safetyStep, ObserveSafety, Evaluate, Probe, PrepareRollback, ObserveUndo, ProbeUndo,
                ObserveDecision, ProbeDecision, StoreFails, dbVars
  <2> QED
    BY <2>1 DEF Kept
<1>3. CASE Dispatch(t)
  <2>1. safe[t].state = "preparing" /\ field[t] = "admitted"
    BY <1>3 DEF Dispatch, beforeSend
  <2>2. field'[t] = "committing" /\ safe' = safe
    BY <1>3, TransitionFacts DEF Dispatch
  <2> QED
    BY <2>1, <2>2 DEF FieldWrite, Terminal
<1>4. CASE SaveReply(t) \/ SaveField(t) \/ SaveObserved(t)
  <2>1. saveOutcome(t, proc[t].o) /\ field[t] # "none"
    BY <1>4, <1>f DEF SaveReply, SaveField, SaveObserved
  <2>2. CASE UNCHANGED dbVars
    BY <1>d, <2>2
  <2>3. CASE ~UNCHANGED dbVars
    <3>1. ~Terminal(safe[t].state)
      BY <2>1, <2>3 DEF saveOutcome, fieldSettled
    <3>2. safe' = safe /\ (field'[t] = field[t] \/ field'[t] # "none")
      BY <2>1, LocalTypes, SaveFacts
    <3> QED
      BY <2>1, <3>1, <3>2 DEF FieldWrite
  <2> QED
    BY <2>2, <2>3
<1>5. CASE Refresh(t) \/ SaveSafety(t) \/ DispatchUndo(t)
  <2>1. /\ field[t] # "none" /\ Snapshot(t, proc[t].q, proc[t].s)
        /\ proc[t].pc \in {"refresh", "hold", "b.dispatch"}
    BY <1>0, <1>5, <1>f DEF Local, SnapInv, Snap, Refresh, SaveSafety, DispatchUndo
  <2>2. safe[t].rollback => proc[t].s.rollback
    BY <1>0, <2>1 DEF Local, SnapInv, Snap
  <2>3. proc[t].s.state # "confirmed"
    BY <1>0, <2>1 DEF Local, SnapInv, Snap, Terminal
  <2>4. CASE Refresh(t)
    <3>1. field' = field /\ safe'[t] = proc[t].s
      BY <2>4 DEF Refresh, TypeOK, JournalOK
    <3> QED
      BY <2>1, <2>2, <2>3, <3>1 DEF SafetyWrite, Snapshot
  <2>5. CASE SaveSafety(t) \/ DispatchUndo(t)
    <3>1. updateSafety(t, proc[t].s, field[t], out[t])
      BY <2>5 DEF SaveSafety, DispatchUndo, saveSafety
    <3>2. field'[t] = field[t] /\ safe'[t] = proc[t].s
      BY <3>1, UpdateFacts
    <3> QED
      BY <2>1, <2>2, <2>3, <3>2 DEF SafetyWrite, Snapshot
  <2> QED
    BY <1>5, <2>4, <2>5
<1>6. CASE RequestRollback(t)
  <2> DEFINE r == [proc[t].s EXCEPT !.state = "rollback-requested",
                                    !.reason = "authorized-rollback-requested"]
  <2>1. /\ field[t] # "none" /\ Snapshot(t, proc[t].q, proc[t].s)
        /\ updateSafety(t, r, field[t], out[t])
        /\ ~safe[t].rollback
    BY <1>0, <1>6, <1>f DEF Local, SnapInv, Snap, RequestRollback, saveSafety
  <2>2. /\ r.prep = proc[t].s.prep /\ r.conf = proc[t].s.conf /\ r.state = "rollback-requested"
    BY LocalTypes DEF SafetyType
  <2> HIDE DEF r
  <2>3. field'[t] = field[t] /\ safe'[t] = r
    BY <2>1, UpdateFacts
  <2> QED
    BY <2>1, <2>2, <2>3 DEF SafetyWrite, Snapshot
<1>7. CASE Confirm(t)
  <2> DEFINE r == [proc[t].s EXCEPT !.state = "confirmed", !.healthy = TRUE,
                                    !.reason = "connectivity-confirmed"]
             state == stateFor(t, proc[t].o)
  <2>1. /\ field[t] # "none" /\ Snapshot(t, proc[t].q, proc[t].s)
        /\ ~safe[t].rollback /\ proc[t].s = safe[t]
    BY <1>0, <1>7, <1>f DEF Local, SnapInv, Snap, Confirm
  <2>2. /\ r.prep = proc[t].s.prep /\ r.conf = proc[t].s.conf
    BY LocalTypes DEF SafetyType
  <2>3. state # "none"
    BY DEF stateFor
  <2>4. \/ Confirmable(t) /\ updateSafety(t, r, state, proc[t].o)
        \/ UNCHANGED dbVars
    BY <1>7 DEF Confirm
  <2> HIDE DEF r, state
  <2>5. CASE Confirmable(t) /\ updateSafety(t, r, state, proc[t].o)
    <3>1. field'[t] = state /\ safe'[t] = r
      BY <2>5, UpdateFacts
    <3>2. ~Expired(safe[t].conf) /\ ~Reversed(t, safe[t]) /\ t \in auth
      BY <2>1, <2>5 DEF Confirmable
    <3> QED
      BY <2>1, <2>2, <2>3, <3>1, <3>2 DEF SafetyWrite, Snapshot
  <2> QED
    BY <1>d, <2>4, <2>5
<1> QED
  BY <1>1, <1>2, <1>3, <1>4, <1>5, <1>6, <1>7 DEF Activity

\* So is every step, for every transaction.
LEMMA StepShape ==
  ASSUME TypeOK, IInv, [Next]_vars, NEW u \in Txn
  PROVE  Kept(u) \/ Admit(u) \/ FieldWrite(u) \/ SafetyWrite(u)
<1>1. ASSUME NEW t \in Txn, Client(t) \/ Activity(t)
      PROVE  Kept(u) \/ Admit(u) \/ FieldWrite(u) \/ SafetyWrite(u)
  <2>1. CASE u = t
    BY <1>1, <2>1, ActivityShape
  <2>2. CASE u # t
    <3>1. Quiet(u)
      BY <1>1, <2>2, OthersQuiet
    <3> QED
      BY <3>1 DEF Quiet, Kept
  <2> QED
    BY <2>1, <2>2
<1>2. CASE Watchdog \/ Server
  <2>1. UNCHANGED dbVars
    BY <1>2 DEF Watchdog, Wake, RecoverEnds, TickEnds, Visit, Server, ServerTransact
  <2> QED
    BY <2>1 DEF Kept, dbVars
<1>3. CASE World \/ Restart \/ Tick \/ Vswitchd \/ Sync
  <2>1. Quiet(u)
    BY <1>3, WorldQuiet
  <2> QED
    BY <2>1 DEF Quiet, Kept
<1>4. CASE UNCHANGED vars
  BY <1>4 DEF vars, dbVars, Kept
<1> QED
  BY <1>1, <1>2, <1>3, <1>4 DEF Next

\* A settled change is frozen: no late reply, reconciliation, tick or decision
\* writes its journal again (saveOutcome, updateSafety).
THEOREM SettledStaysFrozen == Spec => SettledIsFrozen
<1>1. TypeOK /\ IInv /\ [Next]_vars =>
        [\A t \in Txn : Terminal(safe[t].state) =>
            /\ safe'[t] = safe[t] /\ field'[t] = field[t]
            /\ out'[t] = out[t] /\ seq'[t] = seq[t]]_vars
  <2>1. SUFFICES ASSUME TypeOK, IInv, [Next]_vars, NEW t \in Txn, Terminal(safe[t].state)
                 PROVE  Kept(t)
    BY DEF Kept
  <2>2. ~Admit(t)
    <3>1. Admit(t) => safe[t] = NoSafety
      BY <2>1 DEF IInv, Local, WorkerInv, IntentInv, Admit
    <3>2. NoSafety.state = "none"
      BY DEF NoSafety
    <3> QED
      BY <2>1, <3>1, <3>2 DEF Terminal
  <2> QED
    BY <2>1, <2>2, StepShape DEF FieldWrite, SafetyWrite
<1> QED
  BY <1>1, Invariance, TypeCorrect, PTL DEF Spec, SettledIsFrozen

\* Deadlines are set once and a dispatched compensation is never forgotten,
\* over restarts, probes and recovery (safetyStep, updateSafety, Refresh).
THEOREM WindowIsFixed == Spec => WindowNeverExtended
<1>1. TypeOK /\ IInv /\ [Next]_vars =>
        [\A t \in Txn :
            /\ field[t] # "none" => safe'[t].prep = safe[t].prep
            /\ safe[t].conf # NoDeadline => safe'[t].conf = safe[t].conf
            /\ safe[t].rollback => safe'[t].rollback]_vars
  <2>1. SUFFICES ASSUME TypeOK, IInv, [Next]_vars, NEW t \in Txn
                 PROVE  /\ field[t] # "none" => safe'[t].prep = safe[t].prep
                        /\ safe[t].conf # NoDeadline => safe'[t].conf = safe[t].conf
                        /\ safe[t].rollback => safe'[t].rollback
    OBVIOUS
  <2>2. CASE Admit(t)
    <3>1. field[t] = "none" /\ safe[t] = NoSafety
      BY <2>1, <2>2 DEF IInv, Local, WorkerInv, IntentInv, Admit
    <3>2. NoSafety.conf = NoDeadline /\ NoSafety.rollback = FALSE
      BY DEF NoSafety
    <3> QED
      BY <3>1, <3>2, Zenon
  <2>3. CASE FieldWrite(t) \/ Kept(t)
    BY <2>3, Zenon DEF FieldWrite, Kept
  <2>4. CASE SafetyWrite(t)
    BY <2>4 DEF SafetyWrite
  <2> QED
    BY <2>1, <2>2, <2>3, <2>4, StepShape
<1> QED
  BY <1>1, Invariance, TypeCorrect, PTL DEF Spec, WindowNeverExtended

\* A change is confirmed before its only deadline, on an unreversed clock and
\* with the authority of that moment (Decide).
THEOREM ConfirmationInTime == Spec => ConfirmedInTime
<1>1. TypeOK /\ IInv /\ [Next]_vars =>
        [\A t \in Txn : safe'[t].state = "confirmed" /\ safe[t].state # "confirmed" =>
            ~Expired(safe[t].conf) /\ ~Reversed(t, safe[t]) /\ t \in auth]_vars
  <2>1. SUFFICES ASSUME TypeOK, IInv, [Next]_vars, NEW t \in Txn,
                        safe'[t].state = "confirmed", safe[t].state # "confirmed"
                 PROVE  ~Expired(safe[t].conf) /\ ~Reversed(t, safe[t]) /\ t \in auth
    OBVIOUS
  <2>2. ~Admit(t)
    <3>1. SUFFICES ASSUME Admit(t) PROVE FALSE
      OBVIOUS
    <3>2. safe'[t] = admitSafety
      BY <2>1, <3>1 DEF Admit, TypeOK, JournalOK
    <3>3. admitSafety.state = "preparing"
      BY DEF admitSafety, NoSafety
    <3> QED
      BY <2>1, <3>2, <3>3
  <2> QED
    BY <2>1, <2>2, StepShape DEF Kept, FieldWrite, SafetyWrite
<1> QED
  BY <1>1, Invariance, TypeCorrect, PTL DEF Spec, ConfirmedInTime

(***************************************************************************)
(* Third parties.                                                          *)
(***************************************************************************)
\* The steps of the manager leave Open vSwitch to ovsdb-server.
LEMMA ActivityWritesNothing ==
  ASSUME NEW t \in Txn, Client(t) \/ Activity(t)
  PROVE  UNCHANGED <<db, done>>
<1>1. CASE Client(t)
  BY <1>1 DEF Client, Prepare, ReconcileRequested, DecideConfirm, DecideRollback, worldVars, histVars
<1>2. CASE \E k \in Kind : Transact(t, k)
  BY <1>2 DEF Transact, Send, SendFails, ReplyUnknown, histVars
<1>3. CASE Activity(t) /\ ~\E k \in Kind : Transact(t, k)
  BY <1>3 DEF Activity, Admit, AdmitRefused, Dispatch, DispatchDenied, DispatchUndo,
              DispatchUndoDenied, SaveReply, Reconcile, ObserveField, SaveField, safetyStep,
              SaveSafety, ObserveSafety, SaveObserved, Evaluate, Probe, Refresh,
              PrepareRollback, ObserveUndo, ProbeUndo, ObserveDecision, ProbeDecision, Confirm,
              RequestRollback, StoreFails, worldVars, histVars
<1> QED
  BY <1>1, <1>2, <1>3

\* Rows and effects only change in a native transaction or in a foreign edit.
LEMMA RowsKept ==
  ASSUME TypeOK, [Next]_vars, ~Server, ~\E p \in Port : EditExternally(p)
  PROVE  db'.row = db.row /\ done' = done
<1>1. CASE \E t \in Txn : Client(t) \/ Activity(t)
  BY <1>1, ActivityWritesNothing
<1>2. CASE Watchdog \/ Restart \/ Tick \/ Sync \/ UNCHANGED vars
  BY <1>2 DEF Watchdog, Wake, RecoverEnds, TickEnds, Visit, Restart, Tick, Sync, vars,
              worldVars, histVars
<1>3. CASE World \/ Vswitchd
  BY <1>3 DEF World, Crash, Reboot, WallStep, PathChange, LinkChange, Regenerate,
              Reauthorize, WireLost, Vswitchd, histVars, TypeOK, WorldOK
<1> QED
  BY <1>1, <1>2, <1>3 DEF Next

\* What is expected of one step.
ExtKept ==
  /\ \A p \in Port : db.row[p].val = "ext" /\ db'.row[p].val \in Txn =>
       plan[db'.row[p].val].before[p].val = "ext"
  /\ \A t \in Txn : <<"undo", t>> \in done' \ done =>
       \A p \in Touch[t] : db.row[p].val # "ext"

\* A native transaction writes what it waited for: a change over its
\* before-image, a compensation over its own after-image.
LEMMA ServerKeepsExt ==
  ASSUME TypeOK, NEW t \in Txn, NEW k \in Kind, ServerTransact(t, k)
  PROVE  ExtKept
<1>1. CASE UNCHANGED <<db, done>>
  BY <1>1, SafeApplyAssumption DEF ExtKept
<1>2. CASE Waits(t, k, db) /\ db' = Written(t, k) /\ done' = done \cup {<<k, t>>}
  <2>1. \A p \in Port : db'.row[p] = IF p \in Touch[t]
                                     THEN [val |-> After(t, k, p), mark |-> <<k, t>>]
                                     ELSE db.row[p]
    BY <1>2 DEF Written, TypeOK, WorldOK
  <2>2. ASSUME NEW p \in Port
        PROVE  db'.row[p].val = IF p \in Touch[t] THEN After(t, k, p) ELSE db.row[p].val
    <3>1. CASE p \in Touch[t]
      <4>1. db'.row[p] = [val |-> After(t, k, p), mark |-> <<k, t>>]
        BY <2>1, <3>1
      <4> QED
        BY <3>1, <4>1
    <3>2. CASE p \notin Touch[t]
      BY <2>1, <3>2
    <3> QED
      BY <3>1, <3>2
  <2>3. Touch[t] \subseteq Port /\ "ext" \notin Txn
    BY SafeApplyAssumption
  <2>4. CASE k = "apply"
    <3>1. \A p \in Touch[t] : After(t, k, p) = t /\ db.row[p] = plan[t].before[p]
      BY <1>2, <2>4 DEF After, Waits
    <3>2. \A u \in Txn : <<"undo", u>> \notin done' \ done
      BY <1>2, <2>4
    <3> QED
      BY <2>2, <2>3, <3>1, <3>2 DEF ExtKept
  <2>5. CASE k = "undo"
    <3>1. \A p \in Touch[t] : db.row[p].val = t
      BY <1>2, <2>5 DEF After, Waits, Image
    <3>2. \A u \in Txn : <<"undo", u>> \in done' \ done => u = t
      BY <1>2, <2>5
    <3> QED
      BY <2>2, <2>3, <3>1, <3>2 DEF ExtKept
  <2> QED
    BY <2>4, <2>5 DEF Kind
<1> QED
  BY <1>1, <1>2 DEF ServerTransact

\* No native transaction overwrites a value that a third party wrote after the
\* plan was made, and no compensation starts from one (the wait operations).
THEOREM ForeignEditsSurvive == Spec => ForeignEditsKept
<1>1. ASSUME TypeOK, [Next]_vars
      PROVE  ExtKept
  <2>1. CASE Server
    BY <1>1, <2>1, ServerKeepsExt DEF Server
  <2>2. ASSUME NEW p \in Port, EditExternally(p)
        PROVE  ExtKept
    <3>1. PICK v \in {"base", "ext"}, m \in {db.row[p].mark, NoMark} :
            db' = [db EXCEPT !.row[p] = [val |-> v, mark |-> m], !.next = @ + 1]
      BY <2>2 DEF EditExternally
    <3>2. \A q \in Port : db'.row[q] = IF q = p THEN [val |-> v, mark |-> m] ELSE db.row[q]
      BY <1>1, <3>1 DEF TypeOK, WorldOK
    <3>3. \A q \in Port : db'.row[q].val = IF q = p THEN v ELSE db.row[q].val
      BY <3>2
    <3>4. done' = done
      BY <2>2 DEF EditExternally, histVars
    <3> QED
      BY <3>3, <3>4, SafeApplyAssumption DEF ExtKept
  <2>3. CASE ~Server /\ ~\E p \in Port : EditExternally(p)
    BY <1>1, <2>3, RowsKept, SafeApplyAssumption DEF ExtKept
  <2> QED
    BY <2>1, <2>2, <2>3
<1>2. TypeOK /\ [Next]_vars =>
        /\ [\A p \in Port : db.row[p].val = "ext" /\ db'.row[p].val \in Txn =>
               plan[db'.row[p].val].before[p].val = "ext"]_vars
        /\ [\A t \in Txn : <<"undo", t>> \in done' \ done =>
               \A p \in Touch[t] : db.row[p].val # "ext"]_vars
  BY <1>1 DEF ExtKept
<1> QED
  BY <1>2, TypeCorrect, PTL DEF Spec, ForeignEditsKept

(***************************************************************************)
(* The engine implements the contract.                                     *)
(***************************************************************************)
\* The phases of the initial state.
LEMMA ContractInit == Init => C!Init
<1> SUFFICES ASSUME Init PROVE C!Init
  OBVIOUS
<1>1. \A t \in Txn : phaseOf(t) = "none"
  BY DEF Init, phaseOf
<1> QED
  BY <1>1 DEF Init, C!Init

\* The journal's phases of the transactions that a step leaves alone.
LEMMA PhaseKept ==
  ASSUME TypeOK, NEW u \in Txn, Kept(u) \/ FieldWrite(u)
  PROVE  phaseOf(u)' = phaseOf(u)
BY DEF Kept, FieldWrite, phaseOf, Terminal

\* A step that keeps all phases, all effects and the checkpoint.
LEMMA ContractStutter ==
  ASSUME TypeOK, \A u \in Txn : phaseOf(u)' = phaseOf(u), UNCHANGED <<done, lkg>>
  PROVE  UNCHANGED C!vars
BY DEF C!vars

\* A step that moves t only.
LEMMA PhaseMove ==
  ASSUME TypeOK, NEW t \in Txn, \A u \in Txn \ {t} : phaseOf(u)' = phaseOf(u)
  PROVE  [u \in Txn |-> phaseOf(u)]' = [[u \in Txn |-> phaseOf(u)] EXCEPT ![t] = phaseOf(t)']
OBVIOUS

\* Admission opens a change whose objects no open change holds.
LEMMA AdmitOpens ==
  ASSUME TypeOK, IInv, NEW t \in Txn, Admit(t), \A u \in Txn \ {t} : Kept(u)
  PROVE  C!Open(t)
<1>1. field[t] = "none"
  BY DEF IInv, Local, WorkerInv, Admit
<1>2. field'[t] = "admitted" /\ safe'[t] = admitSafety /\ UNCHANGED <<done, lkg>>
  BY DEF Admit, TypeOK, JournalOK, histVars
<1>3. admitSafety.state = "preparing"
  BY DEF admitSafety, NoSafety
<1>4. phaseOf(t) = "none" /\ phaseOf(t)' = "open"
  BY <1>1, <1>2, <1>3 DEF phaseOf, Terminal
<1>5. Exclusion' /\ t \in Open'
  BY <1>2, <1>3, ExclusionAdmit DEF Open, Terminal
<1>6. ASSUME NEW u \in Txn, phaseOf(u) = "open" PROVE Touch[u] \cap Touch[t] = {}
  <2>1. u # t /\ u \in Open
    BY <1>4, <1>6 DEF phaseOf, Open, Terminal
  <2>2. u \in Open'
    BY <2>1 DEF Kept, Open, Terminal
  <2> QED
    BY <1>5, <2>1, <2>2 DEF Exclusion
<1>7. [u \in Txn |-> phaseOf(u)]' = [[u \in Txn |-> phaseOf(u)] EXCEPT ![t] = "open"]
  BY <1>4, PhaseKept, PhaseMove
<1> QED
  BY <1>2, <1>4, <1>6, <1>7 DEF C!Open

\* A write of the Safe Apply record keeps the change open or gives it the
\* verdict that is true.
LEMMA VerdictStep ==
  ASSUME TypeOK, IInv, IInv', NEW t \in Txn, SafetyWrite(t), \A u \in Txn \ {t} : Kept(u),
         UNCHANGED done, lkg' = IF safe'[t].state = "confirmed" THEN t ELSE lkg
  PROVE  [C!Next]_(C!vars)
<1>1. phaseOf(t) = "open"
  BY DEF SafetyWrite, phaseOf
<1>2. Local(t)'
  BY DEF IInv
<1>p. [u \in Txn |-> phaseOf(u)]' = [[u \in Txn |-> phaseOf(u)] EXCEPT ![t] = phaseOf(t)']
  BY PhaseKept, PhaseMove
<1>3. CASE ~Terminal(safe'[t].state)
  <2>1. phaseOf(t)' = phaseOf(t) /\ lkg' = lkg
    BY <1>1, <1>3 DEF SafetyWrite, phaseOf, Terminal
  <2> QED
    BY <2>1, PhaseKept, ContractStutter
<1>4. CASE safe'[t].state = "confirmed"
  <2>1. phaseOf(t)' = "confirmed"
    BY <1>4 DEF SafetyWrite, phaseOf, Terminal
  <2>2. <<"apply", t>> \in done /\ <<"undo", t>> \notin done
    BY <1>2, <1>4 DEF Local, VerdictInv, IntentInv, WireInv, Kind
  <2> QED
    BY <1>1, <1>4, <1>p, <2>1, <2>2 DEF C!Next, C!Confirm
<1>5. CASE safe'[t].state = "rolled-back"
  <2>1. phaseOf(t)' = "rolled-back"
    BY <1>5 DEF SafetyWrite, phaseOf, Terminal
  <2>2. <<"undo", t>> \in done /\ lkg' = lkg
    BY <1>2, <1>5 DEF Local, VerdictInv
  <2> QED
    BY <1>1, <1>p, <2>1, <2>2 DEF C!Next, C!RolledBack
<1>6. CASE safe'[t].state = "not-committed"
  <2>1. phaseOf(t)' = "not-committed"
    BY <1>6 DEF SafetyWrite, phaseOf, Terminal
  <2>2. <<"apply", t>> \notin done /\ lkg' = lkg
    BY <1>2, <1>6 DEF Local, VerdictInv, EvidenceInv, Honest, Dead
  <2> QED
    BY <1>1, <1>p, <2>1, <2>2 DEF C!Next, C!NotCommitted
<1> QED
  BY <1>3, <1>4, <1>5, <1>6 DEF Terminal

\* The server applies changes and compensations of open transactions only.
LEMMA ServerStep ==
  ASSUME TypeOK, IInv, NEW t \in Txn, NEW k \in Kind, ServerTransact(t, k)
  PROVE  [C!Next]_(C!vars)
<1>0. Local(t) /\ MarkInv
  BY DEF IInv
<1>1. /\ wire[<<k, t>>] = "flight" /\ UNCHANGED dbVars
      /\ \/ done' = done
         \/ done' = done \cup {<<k, t>>} /\ Waits(t, k, db)
  BY DEF ServerTransact
<1>2. \A u \in Txn : phaseOf(u)' = phaseOf(u)
  BY <1>1, PhaseKept DEF Kept, dbVars
<1>3. lkg' = lkg
  BY <1>1 DEF dbVars
<1>4. <<k, t>> \notin done
  BY <1>0, <1>1 DEF Local, WireInv
<1>5. phaseOf(t) = "open"
  <2>1. field[t] # "none"
    <3>1. CASE k = "apply"
      BY <1>0, <1>1, <3>1 DEF Local, IntentInv
    <3>2. CASE k = "undo"
      <4>1. safe[t].rollback
        BY <1>0, <1>1, <3>2 DEF Local, IntentInv
      <4>2. NoSafety.rollback = FALSE
        BY DEF NoSafety
      <4> QED
        BY <1>0, <4>1, <4>2, Zenon DEF Local, IntentInv
    <3> QED
      BY <3>1, <3>2 DEF Kind
  <2>2. ~Terminal(safe[t].state)
    <3>1. \A j \in Kind : <<j, t>> \in done => wire[<<j, t>>] = "gone"
      BY <1>0 DEF Local, WireInv
    <3>2. safe[t].state # "confirmed"
      BY <1>0, <1>1, <3>1 DEF Local, VerdictInv, IntentInv, Kind
    <3>3. safe[t].state # "rolled-back"
      BY <1>0, <1>1, <3>1 DEF Local, VerdictInv, WireInv, Kind
    <3>4. safe[t].state # "not-committed"
      BY <1>0, <1>1, <3>1 DEF Local, VerdictInv, IntentInv, EvidenceInv, Honest, Dead, Kind
    <3> QED
      BY <3>2, <3>3, <3>4 DEF Terminal
  <2> QED
    BY <2>1, <2>2 DEF phaseOf
<1>6. CASE done' = done
  BY <1>2, <1>3, <1>6, ContractStutter
<1>7. CASE done' = done \cup {<<k, t>>} /\ Waits(t, k, db)
  <2>1. [u \in Txn |-> phaseOf(u)]' = [u \in Txn |-> phaseOf(u)]
    BY <1>2
  <2>2. CASE k = "apply"
    BY <1>3, <1>4, <1>5, <1>7, <2>1, <2>2 DEF C!Next, C!Apply
  <2>3. CASE k = "undo"
    <3>1. <<"apply", t>> \in done
      BY <1>0, <1>7, <2>3, UndoNeedsApply
    <3> QED
      BY <1>3, <1>4, <1>5, <1>7, <2>1, <2>3, <3>1 DEF C!Next, C!Undo
  <2> QED
    BY <2>2, <2>3 DEF Kind
<1> QED
  BY <1>1, <1>6, <1>7

\* The steps of the activities: a change is opened, settled or neither.
LEMMA ActivityStep ==
  ASSUME TypeOK, IInv, IInv', NEW t \in Txn, Client(t) \/ Activity(t)
  PROVE  [C!Next]_(C!vars)
<1>0. Local(t)
  BY DEF IInv
<1>o. \A u \in Txn \ {t} : Kept(u)
  BY OthersQuiet DEF Quiet, Kept
<1>s. Kept(t) \/ Admit(t) \/ FieldWrite(t) \/ SafetyWrite(t)
  BY ActivityShape
<1>e. done' = done
  <2>1. CASE Client(t)
    BY <2>1 DEF Client, Prepare, ReconcileRequested, DecideConfirm, DecideRollback, histVars
  <2>2. CASE \E k \in Kind : Transact(t, k)
    BY <2>2 DEF Transact, Send, SendFails, ReplyUnknown, histVars
  <2>3. CASE Activity(t) /\ ~\E k \in Kind : Transact(t, k)
    BY <2>3 DEF Activity, Admit, AdmitRefused, Dispatch, DispatchDenied, DispatchUndo,
                DispatchUndoDenied, SaveReply, Reconcile, ObserveField, SaveField, safetyStep,
                SaveSafety, ObserveSafety, SaveObserved, Evaluate, Probe, Refresh,
                PrepareRollback, ObserveUndo, ProbeUndo, ObserveDecision, ProbeDecision, Confirm,
                RequestRollback, StoreFails, histVars
  <2> QED
    BY <2>1, <2>2, <2>3
<1>k. ASSUME Kept(t) \/ FieldWrite(t), lkg' = lkg PROVE UNCHANGED C!vars
  BY <1>o, <1>e, <1>k, PhaseKept, ContractStutter
<1>1. CASE Admit(t)
  <2>1. C!Open(t)
    BY <1>1, <1>o, AdmitOpens
  <2> QED
    BY <2>1 DEF C!Next
<1>2. ASSUME NEW r, NEW state, NEW o, updateSafety(t, r, state, o), proc[t].pc \in Snap
      PROVE  [C!Next]_(C!vars)
  <2>1. safe'[t] = r
    BY <1>2, UpdateFacts
  <2>2. lkg' = IF safe'[t].state = "confirmed" THEN t ELSE lkg
    BY <1>2, <2>1 DEF updateSafety
  <2>3. ~Terminal(safe[t].state) /\ ~Admit(t)
    BY <1>0, <1>2 DEF Local, SnapInv, Snapshot, Snap, Admit
  <2>4. CASE Kept(t) \/ FieldWrite(t)
    <3>1. lkg' = lkg
      BY <2>2, <2>3, <2>4 DEF Kept, FieldWrite, Terminal
    <3> QED
      BY <1>k, <2>4, <3>1
  <2>5. CASE SafetyWrite(t)
    BY <1>o, <1>e, <2>2, <2>5, VerdictStep
  <2> QED
    BY <1>s, <2>3, <2>4, <2>5
<1>3. CASE SaveSafety(t) \/ DispatchUndo(t)
  <2>1. updateSafety(t, proc[t].s, field[t], out[t]) /\ proc[t].pc \in Snap
    BY <1>3 DEF SaveSafety, DispatchUndo, saveSafety, Snap
  <2> QED
    BY <1>2, <2>1
<1>4. CASE RequestRollback(t)
  <2> DEFINE r == [proc[t].s EXCEPT !.state = "rollback-requested",
                                    !.reason = "authorized-rollback-requested"]
  <2>1. updateSafety(t, r, field[t], out[t]) /\ proc[t].pc \in Snap
    BY <1>4 DEF RequestRollback, saveSafety, Snap
  <2> HIDE DEF r
  <2> QED
    BY <1>2, <2>1
<1>5. CASE Confirm(t)
  <2> DEFINE r == [proc[t].s EXCEPT !.state = "confirmed", !.healthy = TRUE,
                                    !.reason = "connectivity-confirmed"]
             state == stateFor(t, proc[t].o)
  <2>1. proc[t].pc \in Snap /\ (updateSafety(t, r, state, proc[t].o) \/ UNCHANGED dbVars)
    BY <1>5 DEF Confirm, Snap
  <2> HIDE DEF r, state
  <2>2. UNCHANGED dbVars => Kept(t) /\ lkg' = lkg
    BY DEF dbVars, Kept
  <2> QED
    BY <1>2, <1>k, <2>1, <2>2
<1>6. CASE Refresh(t)
  <2>1. lkg' = lkg /\ safe'[t] = proc[t].s /\ proc[t].pc = "refresh"
    BY <1>6 DEF Refresh, TypeOK, JournalOK
  <2>2. proc[t].s.state = "awaiting-confirmation"
    BY <1>0, <2>1 DEF Local, SnapInv
  <2>3. ~Admit(t)
    BY <2>1 DEF Admit
  <2>4. CASE SafetyWrite(t)
    BY <1>o, <1>e, <2>1, <2>2, <2>4, VerdictStep
  <2> QED
    BY <1>k, <1>s, <2>1, <2>3, <2>4
<1>7. CASE \/ Client(t) \/ \E k \in Kind : Transact(t, k)
           \/ AdmitRefused(t) \/ Dispatch(t) \/ DispatchDenied(t) \/ DispatchUndoDenied(t)
           \/ SaveReply(t) \/ Reconcile(t) \/ ObserveField(t) \/ SaveField(t) \/ safetyStep(t)
           \/ ObserveSafety(t) \/ SaveObserved(t) \/ Evaluate(t) \/ Probe(t)
           \/ PrepareRollback(t) \/ ObserveUndo(t) \/ ProbeUndo(t) \/ ObserveDecision(t)
           \/ ProbeDecision(t) \/ StoreFails(t)
  <2>1. safe' = safe /\ lkg' = lkg
    <3>1. CASE Client(t) \/ \E k \in Kind : Transact(t, k)
      BY <3>1 DEF Client, Prepare, ReconcileRequested, DecideConfirm, DecideRollback, Transact,
                  Send, SendFails, ReplyUnknown, dbVars
    <3>2. CASE Dispatch(t) \/ SaveReply(t) \/ SaveField(t) \/ SaveObserved(t)
      BY <3>2 DEF Dispatch, SaveReply, SaveField, SaveObserved, saveOutcome, transition, dbVars
    <3>3. CASE ~(Client(t) \/ \E k \in Kind : Transact(t, k))
               /\ ~(Dispatch(t) \/ SaveReply(t) \/ SaveField(t) \/ SaveObserved(t))
      BY <1>7, <3>3 DEF AdmitRefused, DispatchDenied, DispatchUndoDenied, Reconcile, ObserveField,
                        safetyStep, ObserveSafety, Evaluate, Probe, PrepareRollback, ObserveUndo,
                        ProbeUndo, ObserveDecision, ProbeDecision, StoreFails, dbVars
    <3> QED
      BY <3>1, <3>2, <3>3
  <2>2. CASE SafetyWrite(t)
    <3>1. safe'[t].state # "confirmed"
      BY <2>1, <2>2 DEF SafetyWrite, Terminal
    <3> QED
      BY <1>o, <1>e, <2>1, <2>2, <3>1, VerdictStep
  <2> QED
    BY <1>1, <1>k, <1>s, <2>1, <2>2
<1> QED
  BY <1>1, <1>3, <1>4, <1>5, <1>6, <1>7 DEF Activity

\* Every step of the engine is a step of the contract or a stutter.
LEMMA ContractStep ==
  ASSUME TypeOK, IInv, IInv', [Next]_vars
  PROVE  [C!Next]_(C!vars)
<1>1. CASE \E t \in Txn : Client(t) \/ Activity(t)
  BY <1>1, ActivityStep
<1>2. CASE Server
  BY <1>2, ServerStep DEF Server
<1>3. CASE Watchdog \/ World \/ Restart \/ Tick \/ Vswitchd \/ Sync \/ UNCHANGED vars
  <2>1. /\ UNCHANGED <<field, out, seq, safe>>
        /\ UNCHANGED <<done, lkg>>
    BY <1>3 DEF Watchdog, Wake, RecoverEnds, TickEnds, Visit, World, Crash, Reboot, Die, WallStep,
                PathChange, LinkChange, Regenerate, Reauthorize, WireLost, EditExternally, Restart,
                Tick, Vswitchd, Sync, dbVars, histVars, vars
  <2>2. \A u \in Txn : phaseOf(u)' = phaseOf(u)
    BY <2>1, PhaseKept DEF Kept
  <2> QED
    BY <2>1, <2>2, ContractStutter
<1> QED
  BY <1>1, <1>2, <1>3 DEF Next

\* The engine keeps its promise to its callers: SafeApply implements
\* SafeApplyContract, with the phases read off the journal, the effects off
\* Open vSwitch and the checkpoint off the Last Known Good row.
THEOREM ImplementsContract == Spec => Contract
<1>1. Init => C!Init
  BY ContractInit
<1>2. TypeOK /\ IInv /\ IInv' /\ [Next]_vars => [C!Next]_(C!vars)
  BY ContractStep
<1> QED
  BY <1>1, <1>2, Invariance, TypeCorrect, PTL DEF Spec, Contract, C!Spec
=============================================================================
