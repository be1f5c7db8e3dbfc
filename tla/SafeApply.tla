------------------------------ MODULE SafeApply ------------------------------
(***************************************************************************)
(* The Safe Apply engine of ovs-mgrd: the durable field-execution journal, *)
(* its Safe Apply record, the dispatch worker, field recovery, the safety  *)
(* watchdog, compensation and the user's decision, over a manager process  *)
(* that crashes, a host that reboots, a clock that may run backwards, an   *)
(* OVSDB server whose replies get lost and third parties that edit the     *)
(* same rows.  internal/repository/executions and provider/ovsdb.          *)
(*                                                                         *)
(* One action is one SQLite transaction or one piece of provider or probe  *)
(* I/O.  All activities on a transaction id hold its in-memory claim       *)
(* (Engine.claim), so proc[t] is the one activity that works on t.         *)
(***************************************************************************)
EXTENDS Integers, FiniteSets

CONSTANTS
  Txn,                \* transaction ids (each is submitted at most once)
  Port,               \* managed objects of the OVS database
  Touch,              \* [Txn -> SUBSET Port]: the objects of the write set
  Cutting,            \* transactions whose after-image cuts the management path
  Domain,             \* management probe domains (address, device, ifindex)
  NoTxn,              \* a value that is no transaction
  PreparationBudget,  \* safety.PreparationBudget
  ConfirmationWindow, \* SafetyOptions.Window
  AppliedFor,         \* execution.AppliedFor
  ProbeLimit,         \* consecutive probe failures that start compensation
  MaxUnsettled,       \* executions.MaxUnsettled
  MaxRunning,         \* evidence.MaxRunning
  MaxNS,              \* bound: a boot's last deadline
  Events,             \* the kinds of fault and of client request that happen
  MaxEvents           \* bound: how many of them

ASSUME SafeApplyAssumption ==
  /\ Touch \in [Txn -> (SUBSET Port) \ {{}}]
  /\ Cutting \subseteq Txn
  /\ Domain # {} /\ "" \notin Domain
  /\ NoTxn \notin Txn /\ {"base", "ext"} \cap Txn = {}
  /\ {PreparationBudget, ConfirmationWindow, AppliedFor} \subseteq Nat \ {0}
  /\ {ProbeLimit, MaxUnsettled, MaxRunning} \subseteq Nat \ {0}
  /\ {MaxNS, MaxEvents} \subseteq Nat

VARIABLES
  (* manager.db *)
  field,   \* field_executions.state, "none" before admission
  out,     \* execution.Record.Outcome
  seq,     \* execution.Record.Sequence
  born,    \* execution.Record.Created (wall clock)
  upd,     \* execution.Record.Updated (wall clock)
  safe,    \* safe_applies: the safety.Record
  plan,    \* execution.Plan: the before-image and generation it was made for
  prot,    \* operation_protections (and pending identities): <<port, txn>>
  lkg,     \* last_known_good.transaction_id
  job,     \* the state of the evidence Job
  (* the manager process *)
  mgr,     \* up: down, starting, serving; domain: of the configured probe
  watch,   \* the watchdog loop: its phase, ids still to visit, id at work
  proc,    \* the activity that holds the claim of each transaction
  (* the world *)
  clock,   \* boot ID, CLOCK_BOOTTIME and wall clock
  auth,    \* transactions whose initiating credential is still authorized
  path,    \* the management path is up, apart from what OVS does to it
  link,    \* the provider answers
  db,      \* the OVSDB server: rows, next_cfg, cur_cfg, instance generation
  cache,   \* the monitor's view of db; seen: the plans it is younger than
  wire,    \* each native transaction on its way to the server
  budget,  \* of MaxEvents, how many are left
  (* history *)
  done,    \* native transactions that took effect
  sends    \* how often each native transaction was written to the socket

dbVars    == <<field, out, seq, born, upd, safe, plan, prot, lkg, job>>
procVars  == <<mgr, watch, proc>>
worldVars == <<clock, auth, path, link, db, cache, wire, budget>>
histVars  == <<done, sends>>
vars      == <<dbVars, procVars, worldVars, histVars>>

(***************************************************************************)
(* Records                                                                 *)
(***************************************************************************)
Kind == {"apply", "undo"}

FieldTerminal(state) == state \in {"succeeded", "failed"}

\* Seeded fault: a conflict counts as settled.
BugTerminal(state) == state \in {"confirmed", "rolled-back", "not-committed", "rollback-conflict"}

Terminal(state) == state \in {"confirmed", "rolled-back", "not-committed"}

\* Seeded fault: the deadline lies behind its start.
BugNewDeadline(duration) ==
  [boot |-> clock.boot, start |-> clock.ns, end |-> clock.ns - duration,
   started |-> clock.wall, wall |-> clock.wall + duration]

NewDeadline(duration) ==
  [boot |-> clock.boot, start |-> clock.ns, end |-> clock.ns + duration,
   started |-> clock.wall, wall |-> clock.wall + duration]

NoDeadline == [boot |-> 0, start |-> 0, end |-> 0, started |-> 0, wall |-> 0]

Expired(d) ==
  \/ d.boot # clock.boot
  \/ clock.ns < d.start \/ clock.ns >= d.end
  \/ clock.wall < d.started \/ clock.wall >= d.wall

Outcome(commit, applied, reason) ==
  [commit |-> commit, applied |-> applied, reason |-> reason, target |-> 0]

NoOutcome == Outcome("", "", "")

NotSent(reason) == Outcome("rejected", "not-applied", reason)

Unknown(reason) == Outcome("unknown", "unknown", reason)

\* Seeded fault: silence is taken for a refusal.
BugLostReply == NotSent("provider-reply-unknown")

LostReply == Unknown("provider-reply-unknown")

NoSafety ==
  [state |-> "none", reason |-> "", trigger |-> "", domain |-> "",
   prep |-> NoDeadline, conf |-> NoDeadline, healthy |-> FALSE, lastWall |-> 0,
   fails |-> 0, rollback |-> FALSE, outcome |-> NoOutcome]

Idle == [pc |-> "idle", q |-> 0, s |-> NoSafety, o |-> NoOutcome, w |-> 0]

NoMark == <<"none", NoTxn>>

Base == [p \in Port |-> [val |-> "base", mark |-> NoMark]]

NoPlan == [before |-> Base, gen |-> 0]

NoView == [row |-> Base, next |-> 0, cur |-> 0, gen |-> 0, seen |-> {}]

(***************************************************************************)
(* The queries of the journal                                              *)
(***************************************************************************)
Open == {t \in Txn : field[t] # "none" /\ ~Terminal(safe[t].state)}

Unsettled == {t \in Open : ~FieldTerminal(field[t])}

Running == {t \in Txn : job[t] = "running"}

\* Seeded fault: protections of other changes are not looked up.
BugProtected(t) == \E p \in Touch[t] : <<p, t>> \in prot

Protected(t) == \E p \in Touch[t], u \in Txn : <<p, u>> \in prot

(***************************************************************************)
(* The native transactions.  The waits of a plan: every touched row is     *)
(* what the plan was made for.  A compensation waits for the after-image   *)
(* and the commit marker of its own transaction.                           *)
(***************************************************************************)
After(t, k, p) == IF k = "apply" THEN t ELSE plan[t].before[p].val

Image(t, k, d) ==
  \A p \in Touch[t] : d.row[p] = [val |-> After(t, k, p), mark |-> <<k, t>>]

\* Seeded fault: the compensation looks at the marker only.
BugWaits(t, k, d) ==
  IF k = "apply" THEN \A p \in Touch[t] : d.row[p] = plan[t].before[p]
                 ELSE \A p \in Touch[t] : d.row[p].mark = <<"apply", t>>

Waits(t, k, d) ==
  IF k = "apply" THEN \A p \in Touch[t] : d.row[p] = plan[t].before[p]
                 ELSE Image(t, "apply", d)

Written(t, k) ==
  [db EXCEPT !.row = [p \in Port |->
                        IF p \in Touch[t]
                        THEN [val |-> After(t, k, p), mark |-> <<k, t>>]
                        ELSE db.row[p]],
             !.next = @ + 1]

Reachable == path /\ \A p \in Port : db.row[p].val \notin Cutting

(***************************************************************************)
(* Executor.Observe: what the monitor's view, and for Applied a fresh read *)
(* of the database itself, prove about native transaction k of t.          *)
(***************************************************************************)
\* The monitor has a current view: connected, and synchronised since it started.
ExecutionView == link /\ cache.gen # 0

Seen(t, k) == \A p \in Touch[t] : cache.row[p].mark = <<k, t>>

SeenAny(t, k) == \E p \in Touch[t] : cache.row[p].mark = <<k, t>>

verifyApplied(t, k, target) ==
  db.gen = plan[t].gen /\ Image(t, k, db) /\ db.cur >= target

Observe(t, k, prior) ==
  LET commit == IF SeenAny(t, k) THEN "committed" ELSE prior.commit
      keep(applied, reason) == [prior EXCEPT !.applied = applied, !.reason = reason]
      is(applied, reason) == [keep(applied, reason) EXCEPT !.commit = commit]
  IN IF ~ExecutionView
       THEN keep("unknown", "provider-resync-required")
     ELSE IF cache.gen # plan[t].gen
       THEN keep("unknown", "identity-changed-recovery-required")
     ELSE IF prior.commit = "committed" /\ prior.target # 0 /\ <<k, t>> \notin cache.seen
       THEN keep("pending", "awaiting-post-commit-observation")
     ELSE IF ~Seen(t, k) \/ commit # "committed"
       THEN is("unknown", "commit-evidence-insufficient")
     ELSE IF ~Image(t, k, cache)
       THEN is("unknown", "committed-target-changed")
     ELSE IF prior.target = 0
       THEN is("unknown", "applied-target-unavailable")
     ELSE IF cache.next < prior.target \/ cache.cur > cache.next
       THEN is("unknown", "applied-counter-discontinuity")
     ELSE IF cache.cur < prior.target
       THEN is("pending", "awaiting-ovs-vswitchd")
     ELSE IF ~verifyApplied(t, k, prior.target)
       THEN is("unknown", "fresh-applied-evidence-unavailable")
     ELSE is("applied", "ovs-vswitchd-applied")

(***************************************************************************)
(* Journal writes: the bodies of the engine's SQLite transactions.         *)
(***************************************************************************)
stateFor(t, o) ==
  CASE o.commit = "rejected" -> "failed"
    [] o.commit = "committed" /\ o.applied = "applied" -> "succeeded"
    [] o.commit = "committed" /\ o.applied = "pending"
         /\ field[t] # "recovery-required" /\ clock.wall - born[t] < AppliedFor -> "applying"
    [] OTHER -> "recovery-required"

\* Seeded fault: a rejected dispatch settles the Job.
BugfieldJob(t, state) ==
  CASE state = "recovery-required" -> "needs-attention"
    [] state = "failed" -> "failed"
    [] OTHER -> job[t]

fieldJob(t, state) == IF state = "recovery-required" THEN "needs-attention" ELSE job[t]

\* transition: a field write never settles the Job nor frees a protection
\* while the transaction has a Safe Apply record.
transition(t, o, state) ==
  /\ seq' = [seq EXCEPT ![t] = @ + 1]
  /\ field' = [field EXCEPT ![t] = state]
  /\ out' = [out EXCEPT ![t] = o]
  /\ upd' = [upd EXCEPT ![t] = clock.wall]
  /\ job' = [job EXCEPT ![t] = fieldJob(t, state)]
  /\ UNCHANGED <<born, safe, plan, prot, lkg>>

\* Seeded fault: a late field read ignores the verdict.
BugfieldSettled(t) == FieldTerminal(field[t])

\* A settled Safe Apply owns the journal, not late field reads.
fieldSettled(t) == FieldTerminal(field[t]) \/ Terminal(safe[t].state)

saveOutcome(t, o) ==
  LET state  == stateFor(t, o)
      late   == state = "recovery-required" /\ o.applied = "pending"
                  /\ clock.wall - born[t] >= AppliedFor
      saved  == IF late THEN [o EXCEPT !.reason = "applied-budget-exhausted"] ELSE o
  IN IF \/ fieldSettled(t)
        \/ saved = out[t] /\ state = field[t]
     THEN UNCHANGED dbVars
     ELSE transition(t, saved, state)

\* Seeded fault: a conflict does not call for attention.
BugjobFor(t, state) ==
  CASE state = "confirmed" -> "succeeded"
    [] state \in {"rolled-back", "not-committed"} -> "failed"
    [] state = "recovery-required" -> "needs-attention"
    [] OTHER -> job[t]

jobFor(t, state) ==
  CASE state = "confirmed" -> "succeeded"
    [] state \in {"rolled-back", "not-committed"} -> "failed"
    [] state \in {"recovery-required", "rollback-conflict"} -> "needs-attention"
    [] OTHER -> job[t]

updateSafety(t, s, state, o) ==
  /\ seq' = [seq EXCEPT ![t] = @ + 1]
  /\ upd' = [upd EXCEPT ![t] = clock.wall]
  /\ safe' = [safe EXCEPT ![t] = s]
  /\ field' = [field EXCEPT ![t] = state]
  /\ out' = [out EXCEPT ![t] = o]
  /\ job' = [job EXCEPT ![t] = jobFor(t, s.state)]
  /\ prot' = IF Terminal(s.state) THEN prot \ (Port \X {t}) ELSE prot
  /\ lkg' = IF s.state = "confirmed" THEN t ELSE lkg
  /\ UNCHANGED <<born, plan>>

\* saveSafety: q is the sequence the activity read; a changed one is an error.
saveSafety(t, q, s) == seq[t] = q /\ updateSafety(t, s, field[t], out[t])

(***************************************************************************)
(* The claim, and how an activity goes on or ends.                         *)
(***************************************************************************)
Claimed(t) == proc[t].pc # "idle"

Work(t, pc, q, s, o) ==
  proc' = [proc EXCEPT ![t] = [pc |-> pc, q |-> q, s |-> s, o |-> o, w |-> 0]]

\* The activity returns without an error; the watchdog goes on to the next id.
Release(t) ==
  /\ proc' = [proc EXCEPT ![t] = Idle]
  /\ watch' = IF watch.at = t THEN [watch EXCEPT !.at = NoTxn] ELSE watch

Rest == [phase |-> "rest", todo |-> {}, at |-> NoTxn]

\* The activity returns an error; Recover and SafetyTick stop at the first one.
Abort(t) ==
  /\ proc' = [proc EXCEPT ![t] = Idle]
  /\ watch' = IF watch.at = t THEN Rest ELSE watch

\* holdSafety: nothing to write when the record already says so.
holdSafety(t, q, s, state, reason) ==
  IF s.state = state /\ s.reason = reason
  THEN Release(t)
  ELSE /\ Work(t, "hold", q, [s EXCEPT !.state = state, !.reason = reason, !.healthy = FALSE],
               NoOutcome)
       /\ UNCHANGED watch

\* One event of kind e.
Spend(e) == e \in Events /\ budget > 0 /\ budget' = budget - 1

(***************************************************************************)
(* Submission: Prepare compiles the plan from the monitor's view, the      *)
(* admission transaction makes plan, protections, Job and safety record    *)
(* durable in one piece and the worker goroutine takes the claim over.     *)
(***************************************************************************)
Prepare(t) ==
  /\ mgr.up = "serving" /\ field[t] = "none" /\ ~Claimed(t)
  /\ clock.ns + PreparationBudget + ConfirmationWindow <= MaxNS
  /\ Reachable /\ t \in auth
  /\ link /\ cache.gen = db.gen
  /\ plan' = [plan EXCEPT ![t] = [before |-> cache.row, gen |-> cache.gen]]
  /\ Work(t, "admit", 0, NoSafety, NoOutcome)
  /\ UNCHANGED <<field, out, seq, born, upd, safe, prot, lkg, job, mgr, watch, worldVars, histVars>>

Capacity == Cardinality(Unsettled) < MaxUnsettled

DomainFree == \A u \in Open : safe[u].domain # mgr.domain

Admissible(t) ==
  /\ t \in auth
  /\ Capacity
  /\ ~Protected(t)
  /\ Cardinality(Running) < MaxRunning
  /\ DomainFree

admitSafety ==
  [NoSafety EXCEPT !.state = "preparing", !.reason = "checkpoint-durable",
                   !.domain = mgr.domain, !.prep = NewDeadline(PreparationBudget)]

Admit(t) ==
  /\ proc[t].pc = "admit"
  /\ clock.ns + PreparationBudget + ConfirmationWindow <= MaxNS
  /\ Admissible(t)
  /\ field' = [field EXCEPT ![t] = "admitted"]
  /\ out' = [out EXCEPT ![t] = Outcome("not-sent", "not-applied", "admitted")]
  /\ seq' = [seq EXCEPT ![t] = 1]
  /\ born' = [born EXCEPT ![t] = clock.wall]
  /\ upd' = [upd EXCEPT ![t] = clock.wall]
  /\ safe' = [safe EXCEPT ![t] = admitSafety]
  /\ prot' = prot \cup (Touch[t] \X {t})
  /\ job' = [job EXCEPT ![t] = "running"]
  /\ Work(t, "dispatch", 0, NoSafety, NoOutcome)
  /\ UNCHANGED <<plan, lkg, mgr, watch, worldVars, histVars>>

AdmitRefused(t) ==
  /\ proc[t].pc = "admit"
  /\ \/ ~Admissible(t)
     \/ clock.ns + PreparationBudget + ConfirmationWindow > MaxNS
  /\ plan' = [plan EXCEPT ![t] = NoPlan]
  /\ Release(t)
  /\ UNCHANGED <<field, out, seq, born, upd, safe, prot, lkg, job, mgr, worldVars, histVars>>

(***************************************************************************)
(* Executor.Commit.  Preflight, then beforeSend (the durable intent), then *)
(* the only write of the native transaction, then its reply.               *)
(***************************************************************************)
Preflight(t, k) ==
  link /\ cache.gen = plan[t].gen /\ db.gen = plan[t].gen /\ Waits(t, k, cache)

\* beforeSend of submit: authority, state and preparation budget again, and
\* the intent, in one transaction.  A refusal leaves the journal as it is.
beforeSend(t) ==
  /\ t \in auth
  /\ field[t] = "admitted"
  /\ safe[t].state = "preparing" /\ ~Expired(safe[t].prep)

\* Seeded fault: the transaction is sent before its intent is durable.
BugDispatch(t) ==
  /\ proc[t].pc = "dispatch"
  /\ Preflight(t, "apply") /\ beforeSend(t)
  /\ Work(t, "send", 0, NoSafety, NoOutcome)
  /\ UNCHANGED <<dbVars, mgr, watch, worldVars, histVars>>

Dispatch(t) ==
  /\ proc[t].pc = "dispatch"
  /\ Preflight(t, "apply") /\ beforeSend(t)
  /\ transition(t, Unknown("dispatch-intent-durable"), "committing")
  /\ Work(t, "send", 0, NoSafety, NoOutcome)
  /\ UNCHANGED <<mgr, watch, worldVars, histVars>>

DispatchDenied(t) ==
  /\ proc[t].pc = "dispatch"
  /\ IF Preflight(t, "apply") /\ beforeSend(t) THEN Spend("timeout") ELSE UNCHANGED budget
  /\ Work(t, "save", 0, NoSafety, NotSent("dispatch-admission-denied"))
  /\ UNCHANGED <<dbVars, mgr, watch, clock, auth, path, link, db, cache, wire, histVars>>

\* The compensation's intent is the Safe Apply record with its rollback plan.
DispatchUndo(t) ==
  /\ proc[t].pc = "b.dispatch"
  /\ Preflight(t, "undo")
  /\ saveSafety(t, proc[t].q, proc[t].s)
  /\ Work(t, "b.send", 0, NoSafety, NoOutcome)
  /\ UNCHANGED <<mgr, watch, worldVars, histVars>>

DispatchUndoDenied(t) ==
  /\ proc[t].pc = "b.dispatch"
  /\ IF Preflight(t, "undo") THEN Spend("timeout") ELSE UNCHANGED budget
  /\ holdSafety(t, proc[t].q, [proc[t].s EXCEPT !.rollback = FALSE],
                "recovery-required", "rollback-not-dispatched")
  /\ UNCHANGED <<dbVars, mgr, clock, auth, path, link, db, cache, wire, histVars>>

SendPc(k) == IF k = "apply" THEN "send" ELSE "b.send"

AwaitPc(k) == IF k = "apply" THEN "await" ELSE "b.await"

\* What the caller of Commit does with its outcome: the worker saves it, the
\* watchdog reads the record again and saves it there.
Return(t, k, o) ==
  IF k = "apply"
  THEN Work(t, "save", 0, NoSafety, o)
  ELSE LET s == [safe[t] EXCEPT !.outcome = o]
       IN Work(t, "hold", seq[t],
               IF o.commit = "rejected"
               THEN [s EXCEPT !.state = "rollback-conflict", !.reason = "rollback-transaction-rejected"]
               ELSE [s EXCEPT !.reason = o.reason],
               NoOutcome)

Send(t, k) ==
  /\ proc[t].pc = SendPc(k)
  /\ link /\ db.gen = plan[t].gen
  /\ wire' = [wire EXCEPT ![<<k, t>>] = "flight"]
  /\ sends' = [sends EXCEPT ![<<k, t>>] = @ + 1]
  /\ Work(t, AwaitPc(k), 0, NoSafety, NoOutcome)
  /\ UNCHANGED <<dbVars, mgr, watch, clock, auth, path, link, db, cache, budget, done>>

\* The preflight's lifetime ran out, a final identity check failed or the
\* socket took not a single byte.
SendFails(t, k) ==
  /\ proc[t].pc = SendPc(k)
  /\ IF link /\ db.gen = plan[t].gen THEN Spend("timeout") ELSE UNCHANGED budget
  /\ Return(t, k, NotSent("provider-not-sent"))
  /\ UNCHANGED <<dbVars, mgr, watch, clock, auth, path, link, db, cache, wire, histVars>>

\* Seeded fault: no read deadline on the connection.
BugReplyUnknown(t, k) ==
  /\ proc[t].pc = AwaitPc(k)
  /\ wire[<<k, t>>] = "flight" /\ Spend("timeout")
  /\ Return(t, k, LostReply)
  /\ UNCHANGED <<dbVars, mgr, watch, clock, auth, path, link, db, cache, wire, histVars>>

\* No reply in time, or none that can be understood (a partial write too).
ReplyUnknown(t, k) ==
  /\ proc[t].pc = AwaitPc(k)
  /\ IF wire[<<k, t>>] = "flight" THEN Spend("timeout") ELSE UNCHANGED budget
  /\ Return(t, k, LostReply)
  /\ UNCHANGED <<dbVars, mgr, watch, clock, auth, path, link, db, cache, wire, histVars>>

\* ovsdb-server runs the transaction, whether or not anyone waits for the
\* reply: all its waits hold and all its writes happen, or nothing does.
ServerTransact(t, k) ==
  /\ wire[<<k, t>>] = "flight"
  /\ wire' = [wire EXCEPT ![<<k, t>>] = "gone"]
  /\ IF Waits(t, k, db)
     THEN /\ db' = Written(t, k)
          /\ done' = done \cup {<<k, t>>}
     ELSE UNCHANGED <<db, done>>
  /\ IF proc[t].pc = AwaitPc(k)
     THEN Return(t, k, IF Waits(t, k, db)
                       THEN [Outcome("committed", "pending", "ovsdb-committed")
                               EXCEPT !.target = db.next + 1]
                       ELSE NotSent("ovsdb-transaction-rejected"))
     ELSE UNCHANGED proc
  /\ UNCHANGED <<dbVars, mgr, watch, clock, auth, path, link, cache, budget, sends>>

\* The connection dies with the transaction on it.
WireLost(t, k) ==
  /\ wire[<<k, t>>] = "flight"
  /\ Spend("wire")
  /\ wire' = [wire EXCEPT ![<<k, t>>] = "gone"]
  /\ UNCHANGED <<dbVars, procVars, clock, auth, path, link, db, cache, histVars>>

(***************************************************************************)
(* The rest of the worker (run), shared with Reconcile.                    *)
(***************************************************************************)
\* The exact next_cfg of the reply is made durable before anything else.
SaveReply(t) ==
  /\ proc[t].pc = "save"
  /\ saveOutcome(t, proc[t].o)
  /\ IF proc[t].o.commit = "committed"
     THEN Work(t, "observe", 0, NoSafety, proc[t].o) /\ UNCHANGED watch
     ELSE Release(t)
  /\ UNCHANGED <<mgr, worldVars, histVars>>

ObserveField(t) ==
  /\ proc[t].pc = "observe"
  /\ Work(t, "resave", 0, NoSafety, Observe(t, "apply", proc[t].o))
  /\ UNCHANGED <<dbVars, mgr, watch, worldVars, histVars>>

SaveField(t) ==
  /\ proc[t].pc = "resave"
  /\ saveOutcome(t, proc[t].o)
  /\ Release(t)
  /\ UNCHANGED <<mgr, worldVars, histVars>>

\* Seeded fault: an interrupted dispatch counts as never dispatched.
BugNeverDispatched(t) == field[t] \in {"admitted", "committing"}

NeverDispatched(t) == field[t] = "admitted"

\* Reconcile, by the recovery loop or by a client: a journal that was never
\* dispatched is rejected, any other one is observed; nothing is sent again.
Reconcile(t) ==
  /\ proc[t].pc = "r.read"
  /\ IF FieldTerminal(field[t])
     THEN Release(t)
     ELSE /\ IF NeverDispatched(t)
             THEN Work(t, "resave", 0, NoSafety, NotSent("recovered-before-dispatch"))
             ELSE Work(t, "observe", 0, NoSafety, out[t])
          /\ UNCHANGED watch
  /\ UNCHANGED <<dbVars, mgr, worldVars, histVars>>

ReconcileRequested(t) ==
  /\ mgr.up = "serving" /\ field[t] # "none" /\ ~Claimed(t)
  /\ Spend("request")
  /\ Work(t, "r.read", 0, NoSafety, NoOutcome)
  /\ UNCHANGED <<dbVars, mgr, watch, clock, auth, path, link, db, cache, wire, histVars>>

(***************************************************************************)
(* The watchdog loop: Recover, then SafetyTick; the first Recover of a     *)
(* process runs before it serves and before its probe is configured.       *)
(***************************************************************************)
Wake ==
  /\ mgr.up # "down" /\ watch.phase = "rest"
  /\ Cardinality(Unsettled) <= MaxUnsettled
  /\ watch' = [phase |-> "recover", todo |-> Unsettled, at |-> NoTxn]
  /\ UNCHANGED <<dbVars, mgr, proc, worldVars, histVars>>

\* The next id of the list; one that another activity holds is left out.
Visit(t) ==
  /\ watch.at = NoTxn /\ t \in watch.todo
  /\ IF Claimed(t)
     THEN UNCHANGED proc /\ watch' = [watch EXCEPT !.todo = @ \ {t}]
     ELSE /\ Work(t, IF watch.phase = "recover" THEN "r.read" ELSE "s.read", 0, NoSafety, NoOutcome)
          /\ watch' = [watch EXCEPT !.todo = @ \ {t}, !.at = t]
  /\ UNCHANGED <<dbVars, mgr, worldVars, histVars>>

RecoverEnds ==
  /\ watch.phase = "recover" /\ watch.at = NoTxn /\ watch.todo = {}
  /\ IF mgr.up = "starting"
     THEN \E d \in Domain : mgr' = [up |-> "serving", domain |-> d] /\ watch' = Rest
     ELSE mgr' = mgr /\ watch' = [phase |-> "tick", todo |-> Open, at |-> NoTxn]
  /\ UNCHANGED <<dbVars, proc, worldVars, histVars>>

TickEnds ==
  /\ watch.phase = "tick" /\ watch.at = NoTxn /\ watch.todo = {}
  /\ watch' = Rest
  /\ UNCHANGED <<dbVars, mgr, proc, worldVars, histVars>>

(***************************************************************************)
(* safetyStep                                                              *)
(***************************************************************************)
\* The record is read and routed, in the order of the code's tests.
safetyStep(t) ==
  LET s == safe[t]
      go(pc, o) == Work(t, pc, seq[t], s, o) /\ UNCHANGED watch
  IN /\ proc[t].pc = "s.read"
     /\ IF Terminal(s.state)
        THEN Release(t)
        ELSE IF s.domain # mgr.domain
        THEN holdSafety(t, seq[t], s, "recovery-required", "management-probe-policy-changed")
        ELSE IF s.state = "rollback-conflict"
        THEN Release(t)
        ELSE IF s.rollback
        THEN go("b.observe", s.outcome)
        ELSE IF out[t].commit = "rejected"
        THEN holdSafety(t, seq[t], s, "not-committed", "apply-not-committed")
        ELSE IF field[t] = "admitted"
        THEN Release(t)
        ELSE go("s.observe", out[t])
     /\ UNCHANGED <<dbVars, mgr, worldVars, histVars>>

\* saveSafety of whatever the activity decided.
SaveSafety(t) ==
  /\ proc[t].pc = "hold"
  /\ saveSafety(t, proc[t].q, proc[t].s)
  /\ Release(t)
  /\ UNCHANGED <<mgr, worldVars, histVars>>

ObserveSafety(t) ==
  /\ proc[t].pc = "s.observe"
  /\ Work(t, "s.save", proc[t].q, proc[t].s, Observe(t, "apply", proc[t].o))
  /\ UNCHANGED <<dbVars, mgr, watch, worldVars, histVars>>

\* Seeded fault: the revision is not read again.
BugSaveObserved(t) ==
  /\ proc[t].pc = "s.save"
  /\ saveOutcome(t, proc[t].o)
  /\ Work(t, "s.evaluate", proc[t].q, proc[t].s, proc[t].o)
  /\ UNCHANGED <<mgr, watch, worldVars, histVars>>

\* The proof of the field is durable before confirmation opens; the sequence
\* is read again.
SaveObserved(t) ==
  /\ proc[t].pc = "s.save"
  /\ saveOutcome(t, proc[t].o)
  /\ Work(t, "s.evaluate", seq'[t], proc[t].s, proc[t].o)
  /\ UNCHANGED <<mgr, watch, worldVars, histVars>>

Reversed(t, s) == clock.wall < upd[t] \/ clock.wall < s.lastWall

Window(s) == IF s.conf = NoDeadline THEN s.prep ELSE s.conf

\* Seeded fault: only the confirmation window expires.
BugMustCompensate(t, s) ==
  \/ s.conf # NoDeadline /\ Expired(s.conf)
  \/ Reversed(t, s)
  \/ t \notin auth
  \/ s.state = "rollback-requested"

MustCompensate(t, s) ==
  \/ Expired(Window(s)) \/ Reversed(t, s)
  \/ t \notin auth
  \/ s.state = "rollback-requested"

Trigger(t, s) ==
  IF s.trigger # "" THEN s.trigger
  ELSE IF s.state = "rollback-requested" THEN "authorized-rollback-requested"
  ELSE IF t \notin auth THEN "apply-authority-revoked"
  ELSE IF Reversed(t, s) THEN "clock-reversed"
  ELSE IF clock.boot # s.prep.boot THEN "boot-changed"
  ELSE IF s.conf # NoDeadline THEN "confirmation-window-expired"
  ELSE "preparation-budget-exhausted"

Evaluate(t) ==
  LET s == proc[t].s
      o == proc[t].o
  IN /\ proc[t].pc = "s.evaluate"
     /\ IF o.commit # "committed"
        THEN holdSafety(t, proc[t].q, s, "recovery-required", "apply-outcome-unknown")
        ELSE IF MustCompensate(t, s)
        THEN /\ Work(t, "b.prepare", proc[t].q, [s EXCEPT !.trigger = Trigger(t, s)], NoOutcome)
             /\ UNCHANGED watch
        ELSE IF o.applied # "applied"
        THEN holdSafety(t, proc[t].q, s, "recovery-required", o.reason)
        ELSE /\ proc' = [proc EXCEPT ![t] = [@ EXCEPT !.pc = "s.probe", !.o = NoOutcome,
                                                      !.w = clock.wall]]
             /\ UNCHANGED watch
     /\ UNCHANGED <<dbVars, mgr, worldVars, histVars>>

\* Seeded fault: every good probe restarts the window.
BugHealthy(s, w) ==
  [s EXCEPT !.state = "awaiting-confirmation", !.reason = "applied-management-reachable",
            !.fails = 0, !.healthy = TRUE, !.lastWall = w,
            !.conf = NewDeadline(ConfirmationWindow)]

\* The confirmation window is opened once, by the first good probe.
Healthy(s, w) ==
  [s EXCEPT !.state = "awaiting-confirmation", !.reason = "applied-management-reachable",
            !.fails = 0, !.healthy = TRUE, !.lastWall = w,
            !.conf = IF @ = NoDeadline THEN NewDeadline(ConfirmationWindow) ELSE @]

Probe(t) ==
  LET s      == proc[t].s
      failed == [s EXCEPT !.fails = @ + 1, !.healthy = FALSE]
      stable == s.state = "awaiting-confirmation" /\ s.fails = 0 /\ s.healthy
  IN /\ proc[t].pc = "s.probe"
     /\ IF Reachable
        THEN Work(t, IF stable THEN "refresh" ELSE "hold", proc[t].q,
                  Healthy(s, proc[t].w), NoOutcome)
        ELSE IF failed.fails >= ProbeLimit
        THEN Work(t, "b.prepare", proc[t].q,
                  [failed EXCEPT !.trigger = "management-path-probes-failed"], NoOutcome)
        ELSE Work(t, "hold", proc[t].q,
                  [failed EXCEPT !.reason = "management-path-unverified"], NoOutcome)
     /\ UNCHANGED <<dbVars, mgr, watch, worldVars, histVars>>

\* A stable window: the proof is refreshed without a new revision.
Refresh(t) ==
  /\ proc[t].pc = "refresh"
  /\ seq[t] = proc[t].q
  /\ safe' = [safe EXCEPT ![t] = proc[t].s]
  /\ Release(t)
  /\ UNCHANGED <<field, out, seq, born, upd, plan, prot, lkg, job, mgr, worldVars, histVars>>

\* rollback: PrepareRollback compiles the compensation against the monitor's
\* view, then Commit.
PrepareRollback(t) ==
  LET s == proc[t].s
      q == proc[t].q
      started == [s EXCEPT !.rollback = TRUE, !.state = "rolling-back",
                           !.reason = "rollback-dispatch-durable", !.healthy = FALSE,
                           !.outcome = Unknown("rollback-dispatch-durable")]
  IN /\ proc[t].pc = "b.prepare"
     /\ IF ~ExecutionView
        THEN holdSafety(t, q, s, "recovery-required", "rollback-provider-unavailable")
        ELSE IF cache.gen # plan[t].gen \/ db.gen # plan[t].gen
        THEN holdSafety(t, q, s, "recovery-required", "rollback-generation-changed")
        ELSE IF ~Image(t, "apply", cache)
        THEN holdSafety(t, q, s, "rollback-conflict", "rollback-conflict")
        ELSE Work(t, "b.dispatch", q, started, NoOutcome) /\ UNCHANGED watch
     /\ UNCHANGED <<dbVars, mgr, worldVars, histVars>>

\* Seeded fault: a compensation that was sent counts as done.
BugProven(o) == o.commit # "rejected"

\* Committed and Applied, both proven.
Proven(o) == o.commit = "committed" /\ o.applied = "applied"

\* A dispatched compensation is only ever observed.
ObserveUndo(t) ==
  LET s == proc[t].s
      o == Observe(t, "undo", proc[t].o)
      next == [s EXCEPT !.outcome = o, !.state = "recovery-required", !.reason = o.reason]
  IN /\ proc[t].pc = "b.observe"
     /\ IF Proven(o)
        THEN Work(t, "b.probe", proc[t].q, [s EXCEPT !.outcome = o], NoOutcome) /\ UNCHANGED watch
        ELSE IF next = s
        THEN Release(t)
        ELSE Work(t, "hold", proc[t].q, next, NoOutcome) /\ UNCHANGED watch
     /\ UNCHANGED <<dbVars, mgr, worldVars, histVars>>

ProbeUndo(t) ==
  LET s == proc[t].s
      next == IF Reachable
              THEN [s EXCEPT !.state = "rolled-back", !.healthy = TRUE,
                             !.reason = "rollback-applied-management-reachable"]
              ELSE [s EXCEPT !.state = "recovery-required",
                             !.reason = "rollback-management-path-unverified"]
  IN /\ proc[t].pc = "b.probe"
     /\ IF next = safe[t]
        THEN Release(t)
        ELSE Work(t, "hold", proc[t].q, next, NoOutcome) /\ UNCHANGED watch
     /\ UNCHANGED <<dbVars, mgr, worldVars, histVars>>

(***************************************************************************)
(* Decide                                                                  *)
(***************************************************************************)
\* Seeded fault: a settled change can be decided again.
BugDecidable(t) == mgr.up = "serving" /\ ~Claimed(t) /\ field[t] # "none"

\* A client decides on the revision it read; the claim is awaited.
Decidable(t) ==
  /\ mgr.up = "serving" /\ ~Claimed(t)
  /\ t \in Open

DecideConfirm(t) ==
  /\ Decidable(t)
  /\ safe[t].state = "awaiting-confirmation"
  /\ safe[t].conf # NoDeadline /\ ~Expired(safe[t].conf)
  /\ safe[t].domain = mgr.domain
  /\ Work(t, "d.observe", seq[t], safe[t], out[t])
  /\ UNCHANGED <<dbVars, mgr, watch, worldVars, histVars>>

DecideRollback(t) ==
  /\ Decidable(t)
  /\ ~safe[t].rollback /\ safe[t].state # "rollback-conflict"
  /\ Spend("request")
  /\ Work(t, "d.rollback", seq[t], safe[t], NoOutcome)
  /\ UNCHANGED <<dbVars, mgr, watch, clock, auth, path, link, db, cache, wire, histVars>>

ObserveDecision(t) ==
  LET o == Observe(t, "apply", proc[t].o)
  IN /\ proc[t].pc = "d.observe"
     /\ IF Proven(o)
        THEN Work(t, "d.probe", proc[t].q, proc[t].s, o) /\ UNCHANGED watch
        ELSE Release(t)
     /\ UNCHANGED <<dbVars, mgr, worldVars, histVars>>

ProbeDecision(t) ==
  /\ proc[t].pc = "d.probe"
  /\ IF Reachable
     THEN Work(t, "d.confirm", proc[t].q, proc[t].s, proc[t].o) /\ UNCHANGED watch
     ELSE Release(t)
  /\ UNCHANGED <<dbVars, mgr, worldVars, histVars>>

\* Seeded fault: the deadline is not looked at again.
BugConfirmable(t) ==
  /\ seq[t] = proc[t].q
  /\ ~Reversed(t, proc[t].s)
  /\ t \in auth

\* The arbitration against deadline, clock and revocation: one transaction.
Confirmable(t) ==
  /\ seq[t] = proc[t].q
  /\ ~Expired(proc[t].s.conf) /\ ~Reversed(t, proc[t].s)
  /\ t \in auth

Confirm(t) ==
  /\ proc[t].pc = "d.confirm"
  /\ IF Confirmable(t)
     THEN updateSafety(t, [proc[t].s EXCEPT !.state = "confirmed", !.healthy = TRUE,
                                            !.reason = "connectivity-confirmed"],
                       stateFor(t, proc[t].o), proc[t].o)
     ELSE UNCHANGED dbVars
  /\ Release(t)
  /\ UNCHANGED <<mgr, worldVars, histVars>>

RequestRollback(t) ==
  /\ proc[t].pc = "d.rollback"
  /\ saveSafety(t, proc[t].q, [proc[t].s EXCEPT !.state = "rollback-requested",
                                                !.reason = "authorized-rollback-requested"])
  /\ Release(t)
  /\ UNCHANGED <<mgr, worldVars, histVars>>

(***************************************************************************)
(* Failures of the store and of the process.                               *)
(***************************************************************************)
\* The activities that write next; those in CAS compare the sequence first.
Writing == {"admit", "save", "resave", "s.save", "hold", "refresh", "d.confirm", "d.rollback"}

CAS == {"hold", "refresh", "d.confirm", "d.rollback"}

\* The transaction rolls back (busy, full, deadline, sequence changed) and
\* the error ends the activity.
StoreFails(t) ==
  /\ proc[t].pc \in Writing
  /\ IF proc[t].pc \in CAS /\ proc[t].q # seq[t] THEN UNCHANGED budget ELSE Spend("store")
  /\ plan' = [plan EXCEPT ![t] = IF field[t] = "none" THEN NoPlan ELSE @]
  /\ Abort(t)
  /\ UNCHANGED <<field, out, seq, born, upd, safe, prot, lkg, job, mgr>>
  /\ UNCHANGED <<clock, auth, path, link, db, cache, wire, histVars>>

\* Everything in memory is lost: claims, workers, plans not yet admitted and
\* the monitor's view.
Die ==
  /\ mgr' = [mgr EXCEPT !.up = "down"]
  /\ watch' = Rest
  /\ proc' = [t \in Txn |-> Idle]
  /\ plan' = [t \in Txn |-> IF field[t] = "none" THEN NoPlan ELSE plan[t]]
  /\ cache' = NoView
  /\ UNCHANGED <<field, out, seq, born, upd, safe, prot, lkg, job>>

Crash ==
  /\ mgr.up # "down" /\ Spend("crash")
  /\ Die
  /\ UNCHANGED <<clock, auth, path, link, db, wire, histVars>>

Restart ==
  /\ mgr.up = "down"
  /\ mgr' = [mgr EXCEPT !.up = "starting"]
  /\ UNCHANGED <<dbVars, watch, proc, worldVars, histVars>>

\* A new boot ID, CLOCK_BOOTTIME from zero, and no connection survives.
Reboot ==
  /\ Spend("reboot")
  /\ Die
  /\ clock' = [clock EXCEPT !.boot = @ + 1, !.ns = 0]
  /\ wire' = [w \in DOMAIN wire |-> IF wire[w] = "flight" THEN "gone" ELSE wire[w]]
  /\ UNCHANGED <<auth, path, link, db, histVars>>

(***************************************************************************)
(* The world                                                               *)
(***************************************************************************)
\* Time passes while it can still make a difference: some open change has a
\* deadline ahead, or there is room for a new change (bound).
Tick ==
  /\ \/ clock.ns + PreparationBudget + ConfirmationWindow < MaxNS
     \/ \E t \in Open : ~Expired(Window(safe[t]))
  /\ clock' = [clock EXCEPT !.ns = @ + 1, !.wall = @ + 1]
  /\ UNCHANGED <<dbVars, procVars, auth, path, link, db, cache, wire, budget, histVars>>

\* Somebody sets the wall clock.
WallStep ==
  /\ Spend("clock")
  /\ \E w \in {clock.wall - 1, clock.wall + 1} \cap Nat : clock' = [clock EXCEPT !.wall = w]
  /\ UNCHANGED <<dbVars, procVars, auth, path, link, db, cache, wire, histVars>>

\* The initiating credential loses, or regains, its authority.
Reauthorize(t) ==
  /\ Spend("authority")
  /\ auth' = IF t \in auth THEN auth \ {t} ELSE auth \cup {t}
  /\ UNCHANGED <<dbVars, procVars, clock, path, link, db, cache, wire, histVars>>

PathChange ==
  /\ IF path THEN Spend("path") ELSE UNCHANGED budget
  /\ path' = ~path
  /\ UNCHANGED <<dbVars, procVars, clock, auth, link, db, cache, wire, histVars>>

LinkChange ==
  /\ IF link THEN Spend("link") ELSE UNCHANGED budget
  /\ link' = ~link
  /\ UNCHANGED <<dbVars, procVars, clock, auth, path, db, cache, wire, histVars>>

\* A third party edits one row; it may drop the commit marker, never forge it.
EditExternally(p) ==
  /\ Spend("edit")
  /\ \E v \in {"base", "ext"}, m \in {db.row[p].mark, NoMark} :
       db' = [db EXCEPT !.row[p] = [val |-> v, mark |-> m], !.next = @ + 1]
  /\ UNCHANGED <<dbVars, procVars, clock, auth, path, link, cache, wire, histVars>>

\* ovsdb-server is replaced: a new instance generation, connections are lost.
Regenerate ==
  /\ Spend("regenerate")
  /\ db' = [db EXCEPT !.gen = @ + 1]
  /\ wire' = [w \in DOMAIN wire |-> IF wire[w] = "flight" THEN "gone" ELSE wire[w]]
  /\ UNCHANGED <<dbVars, procVars, clock, auth, path, link, cache, histVars>>

\* ovs-vswitchd has configured itself to the current database.
Vswitchd ==
  /\ db.cur < db.next
  /\ db' = [db EXCEPT !.cur = db.next]
  /\ UNCHANGED <<dbVars, procVars, clock, auth, path, link, cache, wire, budget, histVars>>

\* The plans that exist by now: a later snapshot is younger than they are.
Prepared ==
  {<<"apply", t>> : t \in {u \in Txn : plan[u] # NoPlan}}
    \cup {<<"undo", t>> : t \in {u \in Txn : safe[u].rollback \/ proc[u].s.rollback}}

\* The monitor catches up.
Sync ==
  LET now == [row |-> db.row, next |-> db.next, cur |-> db.cur, gen |-> db.gen,
              seen |-> cache.seen \cup Prepared]
  IN /\ mgr.up # "down" /\ link
     /\ cache # now
     /\ cache' = now
     /\ UNCHANGED <<dbVars, procVars, clock, auth, path, link, db, wire, budget, histVars>>

(***************************************************************************)
(* The specification                                                       *)
(***************************************************************************)
Init ==
  /\ field = [t \in Txn |-> "none"]
  /\ out = [t \in Txn |-> NoOutcome]
  /\ seq = [t \in Txn |-> 0]
  /\ born = [t \in Txn |-> 0]
  /\ upd = [t \in Txn |-> 0]
  /\ safe = [t \in Txn |-> NoSafety]
  /\ plan = [t \in Txn |-> NoPlan]
  /\ prot = {}
  /\ lkg = NoTxn
  /\ job = [t \in Txn |-> "none"]
  /\ \E d \in Domain : mgr = [up |-> "serving", domain |-> d]
  /\ watch = Rest
  /\ proc = [t \in Txn |-> Idle]
  /\ clock = [boot |-> 1, ns |-> 0, wall |-> 1]
  /\ auth = Txn
  /\ path = TRUE
  /\ link = TRUE
  /\ db = [row |-> Base, next |-> 0, cur |-> 0, gen |-> 1]
  /\ cache = [NoView EXCEPT !.gen = 1]
  /\ wire = [w \in Kind \X Txn |-> "none"]
  /\ budget = MaxEvents
  /\ done = {}
  /\ sends = [w \in Kind \X Txn |-> 0]

Client(t) ==
  \/ Prepare(t) \/ ReconcileRequested(t)
  \/ DecideConfirm(t) \/ DecideRollback(t)

Transact(t, k) ==
  \/ Send(t, k) \/ SendFails(t, k) \/ ReplyUnknown(t, k)

\* The steps of the activity that holds the claim.
Activity(t) ==
  \/ Admit(t) \/ AdmitRefused(t)
  \/ Dispatch(t) \/ DispatchDenied(t)
  \/ DispatchUndo(t) \/ DispatchUndoDenied(t)
  \/ \E k \in Kind : Transact(t, k)
  \/ SaveReply(t) \/ Reconcile(t) \/ ObserveField(t) \/ SaveField(t)
  \/ safetyStep(t)
  \/ SaveSafety(t) \/ ObserveSafety(t) \/ SaveObserved(t)
  \/ Evaluate(t) \/ Probe(t) \/ Refresh(t)
  \/ PrepareRollback(t) \/ ObserveUndo(t) \/ ProbeUndo(t)
  \/ ObserveDecision(t) \/ ProbeDecision(t) \/ Confirm(t) \/ RequestRollback(t)
  \/ StoreFails(t)

Watchdog ==
  \/ Wake \/ RecoverEnds \/ TickEnds
  \/ \E t \in Txn : Visit(t)

Server == \E t \in Txn, k \in Kind : ServerTransact(t, k)

World ==
  \/ Crash \/ Reboot \/ WallStep \/ PathChange \/ LinkChange \/ Regenerate
  \/ \E t \in Txn : Reauthorize(t)
  \/ \E t \in Txn, k \in Kind : WireLost(t, k)
  \/ \E p \in Port : EditExternally(p)

Next ==
  \/ \E t \in Txn : Client(t) \/ Activity(t)
  \/ Watchdog \/ Server \/ World
  \/ Restart \/ Tick \/ Vswitchd \/ Sync

Spec == Init /\ [][Next]_vars

\* What keeps running: goroutines, the one-second watchdog ticker, systemd's
\* restart, the clock, ovsdb-server, ovs-vswitchd and the monitor; and a
\* provider that is down comes back.
LinkReturns == ~link /\ LinkChange

Fairness ==
  /\ \A t \in Txn : WF_vars(Activity(t))
  /\ WF_vars(Watchdog) /\ WF_vars(Restart) /\ WF_vars(Tick)
  /\ WF_vars(Server) /\ WF_vars(Vswitchd) /\ WF_vars(Sync) /\ WF_vars(LinkReturns)

FairSpec == Spec /\ Fairness

(***************************************************************************)
(* Types                                                                   *)
(***************************************************************************)
FieldState == {"none", "admitted", "committing", "applying", "recovery-required",
               "succeeded", "failed"}

SafeState == {"none", "preparing", "awaiting-confirmation", "rollback-requested",
              "rolling-back", "recovery-required", "rollback-conflict",
              "confirmed", "rolled-back", "not-committed"}

JobState == {"none", "running", "needs-attention", "succeeded", "failed"}

Pc == {"idle", "admit", "dispatch", "send", "await", "save", "r.read", "observe", "resave",
       "s.read", "s.observe", "s.save", "s.evaluate", "s.probe", "hold", "refresh",
       "b.prepare", "b.dispatch", "b.send", "b.await", "b.observe", "b.probe",
       "d.observe", "d.probe", "d.confirm", "d.rollback"}

DeadlineType == [boot : Nat, start : Nat, end : Nat, started : Nat, wall : Nat]

OutcomeReason ==
  {"", "admitted", "dispatch-intent-durable", "dispatch-admission-denied", "provider-not-sent",
   "provider-reply-unknown", "ovsdb-committed", "ovsdb-transaction-rejected",
   "recovered-before-dispatch", "applied-budget-exhausted", "rollback-dispatch-durable",
   "provider-resync-required", "identity-changed-recovery-required",
   "awaiting-post-commit-observation", "commit-evidence-insufficient",
   "committed-target-changed", "applied-target-unavailable", "applied-counter-discontinuity",
   "awaiting-ovs-vswitchd", "fresh-applied-evidence-unavailable", "ovs-vswitchd-applied"}

SafetyReason ==
  OutcomeReason \cup
  {"checkpoint-durable", "management-probe-policy-changed", "apply-not-committed",
   "apply-outcome-unknown", "applied-management-reachable", "management-path-unverified",
   "rollback-provider-unavailable", "rollback-generation-changed", "rollback-conflict",
   "rollback-not-dispatched", "rollback-transaction-rejected",
   "rollback-applied-management-reachable", "rollback-management-path-unverified",
   "connectivity-confirmed", "authorized-rollback-requested"}

TriggerReason ==
  {"", "authorized-rollback-requested", "apply-authority-revoked", "clock-reversed",
   "boot-changed", "confirmation-window-expired", "preparation-budget-exhausted",
   "management-path-probes-failed"}

OutcomeType ==
  [commit  : {"", "not-sent", "unknown", "committed", "rejected"},
   applied : {"", "not-applied", "unknown", "pending", "applied"},
   reason  : OutcomeReason,
   target  : Nat]

SafetyType ==
  [state : SafeState, reason : SafetyReason, trigger : TriggerReason, domain : Domain \cup {""},
   prep : DeadlineType, conf : DeadlineType, healthy : BOOLEAN, lastWall : Nat,
   fails : Nat, rollback : BOOLEAN, outcome : OutcomeType]

RowType == [val : Txn \cup {"base", "ext"}, mark : (Kind \X Txn) \cup {NoMark}]

PlanType == [before : [Port -> RowType], gen : Nat]

ActivityType == [pc : Pc, q : Nat, s : SafetyType, o : OutcomeType, w : Nat]

WatchType ==
  [phase : {"rest", "recover", "tick"}, todo : SUBSET Txn, at : Txn \cup {NoTxn}]

ViewType ==
  [row : [Port -> RowType], next : Nat, cur : Nat, gen : Nat, seen : SUBSET (Kind \X Txn)]

JournalOK ==
  /\ field \in [Txn -> FieldState]
  /\ out \in [Txn -> OutcomeType]
  /\ seq \in [Txn -> Nat] /\ born \in [Txn -> Nat] /\ upd \in [Txn -> Nat]
  /\ safe \in [Txn -> SafetyType]
  /\ plan \in [Txn -> PlanType]
  /\ prot \subseteq Port \X Txn
  /\ lkg \in Txn \cup {NoTxn}
  /\ job \in [Txn -> JobState]

ProcessOK ==
  /\ mgr \in [up : {"down", "starting", "serving"}, domain : Domain]
  /\ watch \in WatchType
  /\ proc \in [Txn -> ActivityType]

WorldOK ==
  /\ clock \in [boot : Nat, ns : Nat, wall : Nat]
  /\ auth \subseteq Txn
  /\ path \in BOOLEAN /\ link \in BOOLEAN
  /\ db \in [row : [Port -> RowType], next : Nat, cur : Nat, gen : Nat]
  /\ cache \in ViewType
  /\ wire \in [Kind \X Txn -> {"none", "flight", "gone"}]
  /\ budget \in Nat

HistoryOK ==
  /\ done \subseteq Kind \X Txn
  /\ sends \in [Kind \X Txn -> Nat]

\* The types of all variables: the journal's closed sets of states, outcomes
\* and Job states, and deadlines that never lie before time zero.
TypeOK == JournalOK /\ ProcessOK /\ WorldOK /\ HistoryOK

(***************************************************************************)
(* Safety                                                                  *)
(***************************************************************************)
Sent(t, k) == sends[<<k, t>>] > 0

InFlight(t, k) == wire[<<k, t>>] = "flight"

\* Whatever crashes, lost replies, reconciliations and later ticks happen, a
\* native transaction is written to the socket at most once, and never before
\* its intent is durable (Commit's beforeSend; "NEVER sent again" in
\* safetyStep): the field journal has left admitted, or the record has its
\* rollback plan.
SentOnceAfterIntent ==
  \A t \in Txn :
    /\ \A k \in Kind : sends[<<k, t>>] <= 1
    /\ Sent(t, "apply") => field[t] \notin {"none", "admitted"}
    /\ Sent(t, "undo") => safe[t].rollback

\* A journalled rejection is final: the transaction is not in effect, is not
\* on the wire and will not be sent.  A timeout or a lost reply (Commit's
\* unknown outcome) must never be recorded as one.
RejectedIsFinal ==
  \A t \in Txn :
    /\ out[t].commit = "rejected" =>
         /\ <<"apply", t>> \notin done /\ ~InFlight(t, "apply")
         /\ proc[t].pc \notin {"send", "await"}
    /\ safe[t].outcome.commit = "rejected" =>
         <<"undo", t>> \notin done /\ ~InFlight(t, "undo")

\* The verdict of a settled change tells what Open vSwitch really did, and no
\* native transaction of it is still on its way: confirmed (Decide) is
\* applied and not compensated, rolled-back (safetyStep) is compensated,
\* not-committed never took effect.
VerdictTrue ==
  \A t \in Txn :
    /\ Terminal(safe[t].state) => \A k \in Kind : ~InFlight(t, k)
    /\ safe[t].state = "confirmed" => <<"apply", t>> \in done /\ ~Sent(t, "undo")
    /\ safe[t].state = "rolled-back" => <<"undo", t>> \in done
    /\ safe[t].state = "not-committed" => <<"apply", t>> \notin done

\* Two changes that are open together share neither an object nor a
\* management path (protections and admitSafety's domain check), across
\* restarts with another probe domain too; and each holds the protections of
\* its write set until it is settled.
Exclusion ==
  /\ \A t \in Txn : t \in Open => Touch[t] \X {t} \subseteq prot
  /\ \A t, u \in Open :
       t # u => Touch[t] \cap Touch[u] = {} /\ safe[t].domain # safe[u].domain

\* No activity that read the journal under the claim meets another revision
\* when it writes (TRANSACTION_VERSION_CHANGED): a change that outdates its
\* own read would fail on every tick.
NoVersionConflict == \A t \in Txn : proc[t].pc \in CAS => proc[t].q = seq[t]

\* The Job of a change says finished exactly when Safe Apply is settled, with
\* the right result: field journal writes (transition) settle nothing.
JobMatchesVerdict ==
  \A t \in Txn :
    /\ job[t] = "succeeded" <=> safe[t].state = "confirmed"
    /\ job[t] = "failed" <=> safe[t].state \in {"rolled-back", "not-committed"}
    /\ safe[t].state = "rollback-conflict" => job[t] = "needs-attention"

\* A settled change is frozen: late field reads, reconciliations and decisions
\* that were on their way leave journal, outcome and verdict alone.
SettledIsFrozen ==
  [][\A t \in Txn : Terminal(safe[t].state) =>
       /\ safe'[t] = safe[t] /\ field'[t] = field[t]
       /\ out'[t] = out[t] /\ seq'[t] = seq[t]]_vars

\* Deadlines are set once.  Restarts, refreshed probes, failing and healing
\* paths and recovery never extend or reopen a confirmation window, and a
\* dispatched compensation is never forgotten.
WindowNeverExtended ==
  [][\A t \in Txn :
       /\ field[t] # "none" => safe'[t].prep = safe[t].prep
       /\ safe[t].conf # NoDeadline => safe'[t].conf = safe[t].conf
       /\ safe[t].rollback => safe'[t].rollback]_vars

\* A change is confirmed before its first and only deadline, by the clock and
\* with the authority of the moment of the decision, however long evidence,
\* probe and writer queue took (Decide).
ConfirmedInTime ==
  [][\A t \in Txn : safe'[t].state = "confirmed" /\ safe[t].state # "confirmed" =>
       ~Expired(safe[t].conf) /\ ~Reversed(t, safe[t]) /\ t \in auth]_vars

\* Neither a change nor its compensation overwrites what a third party wrote
\* after the plan was made, however stale the monitor was (the waits of the
\* native transaction).
ForeignEditsKept ==
  [][\A p \in Port : db.row[p].val = "ext" /\ db'.row[p].val \in Txn =>
       plan[db'.row[p].val].before[p].val = "ext"]_vars
  /\ [][\A t \in Txn : <<"undo", t>> \in done' \ done =>
          \A p \in Touch[t] : db.row[p].val # "ext"]_vars

(***************************************************************************)
(* The contract                                                            *)
(***************************************************************************)
phaseOf(t) ==
  IF field[t] = "none" THEN "none"
  ELSE IF Terminal(safe[t].state) THEN safe[t].state ELSE "open"

C == INSTANCE SafeApplyContract
       WITH phase <- [t \in Txn |-> phaseOf(t)], effect <- done, good <- lkg

\* The engine implements the Safe Apply contract.
Contract == C!Spec

(***************************************************************************)
(* Liveness                                                                *)
(***************************************************************************)
\* Every activity ends and gives its claim back; a claim that is kept would
\* shut recovery and compensation of the change out for good.
ClaimReleased == \A t \in Txn : Claimed(t) ~> ~Claimed(t)

\* A change that took effect does not stay in effect by default: it comes to
\* a verdict, to a durable compensation or to a recorded conflict.
NoUnattendedChange ==
  \A t \in Txn : <<"apply", t>> \in done ~>
    \/ Terminal(safe[t].state) \/ safe[t].rollback
    \/ safe[t].state = "rollback-conflict"

(***************************************************************************)
(* What the documents say and the code does not do                         *)
(***************************************************************************)
\* An accepted rollback decision excludes confirmation.
RollbackDecisionHonoured ==
  \A t \in Txn : safe[t].trigger = "authorized-rollback-requested" =>
                   safe[t].state # "confirmed"

\* Nothing lifts a recorded rollback conflict.
ConflictSticky ==
  [][\A t \in Txn : safe[t].state = "rollback-conflict" =>
                      safe'[t].state = "rollback-conflict"]_vars

\* A rollback conflict is recorded when the current rows differ from what the
\* change wrote.
ConflictMeansOverlap ==
  \A t \in Txn : safe[t].state = "rollback-conflict" => ~Image(t, "apply", db)
=============================================================================
