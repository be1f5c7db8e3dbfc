# A verification development for ovs-webui

ovs-webui manages Open vSwitch from two processes: `ovs-webd` (unprivileged,
HTTPS, `web.db`) and `ovs-mgrd` (root, `manager.db`, the only client of
`ovsdb-server` that writes). A user edits a *candidate*, validates it and applies
it with **Safe Apply**: the change is journalled, sent once, proved to be applied,
probed over the management path, and either confirmed in time or compensated.

These modules model the way of a change from the draft to the server and back, and what
stands around it: the workspace in two databases, receipts, Jobs and the store, accounts,
the certificate trial, key rotation, and the rows a change writes. TLC checks them all on
small instances. The safety and action properties are also proved with TLAPS, for any
instance, but for two about compensation of the rows themselves (section 6 says which).

## 1. Inventory

| Part | State | Operations | Interacts with | What is hard |
|---|---|---|---|---|
| Safe Apply engine (`internal/repository/executions`, `internal/safety`) | `field_executions`, `safe_applies`, `operation_protections`, `last_known_good`, the in-memory claims | submit, Recover/Reconcile, SafetyTick, rollback, Decide | executor, probe, clock, evidence, store | crash between intent and send; late commits; deadlines against decisions; four activities on one id |
| Executor (`internal/provider/ovsdb`: execution, applied, rollback) | none of its own; a socket per commit | Prepare, Commit, Observe, verifyApplied, PrepareRollback | ovsdb-server, monitor view | lost replies; stale views; third-party edits |
| Monitor and inventory view (`monitor.go`, `internal/inventory`) | the current observation, its generation | session, Publish, ExecutionView | ovsdb-server, identity registry | 250 ms batching, reconnects, generation changes |
| Evidence (`internal/repository/evidence`) | jobs, events, audit, receipts' completion | CreateJob, ChangeJob, Recover, Prune | every writer of manager.db | terminal jobs, limits, pruning what is still needed |
| Manager process (`cmd/ovs-mgrd`) | probe configuration, watchdog loop | start-up recovery, one-second loop | engine, systemd | a failing loop stops the heartbeat; first error ends a tick |
| Web workspace (`internal/web`, `repository/auth/safety.go`) | workspace envelope, reservation, outbox, resolution tombstones | applySafely, recoverSafeWorkspace, ResolveSafeApply | IPC, engine | two databases, a lost IPC answer, admission racing resolution |
| Receipts (`internal/repository/requests`) | `api_receipts`, request epoch | Replay, Execute, Prune | every public command | repeats with other payloads, clock reversal, capacity |
| Store (`internal/repository/sqlite`) | write slot, queues, recovery lane, degraded flag | Read, Write, Backup, Maintain | all repositories | COMMIT of unknown outcome, starvation of recovery |
| Authentication and sessions (`repository/auth`, `repository/sessions`) | principals, roles, grants, tokens, browser sessions, auth epoch | login, elevation, touch, users, roles, passwords, tokens, revocation, restore | engine (authority), web | password work outside the transaction; revocation racing use; the last administrator |
| TLS trial (`tlscontrol`, `repository/auth/tls.go`, `web/tls.go`) | certificates, active one, trial and its deadlines, in both databases | import, activate, confirm, expire, sync, serve | both processes, two clocks | a certificate nobody can connect with; reboot, clock steps, a silent manager |
| Sealed secrets (`internal/secret`) | key files, active version, sealed rows | prepare, rewrap, activate | web.db | death between file and rows |
| Candidates and validation (`internal/candidate`) | envelope with intents, captured values and a sequence | edit, rebase, validate, reverse, for some twenty kinds of change | inventory, executor | drafts, checks and transactions of different ages; what a check looked at and nobody waits for |
| Identity registry (`repository/inventory`) | management ids, aliases, pending identities | resolve, reconcile, retire | inventory, engine | continuity across generations |
| IPC, public API, event stream | admission budget, stream cursors | request, subscribe | both processes | budget, resume after loss |
| Runtime evidence of STP, multicast, mirror, tunnel; Linux provider | none | parse and witness | executor | I/O and formats |
| Front ends, contracts, generated DTOs, OVS patches | - | - | - | not part of the management plane's logic |

What makes them correct, in one line each: the engine sends at most once and
tells the truth; the workspace never loses or doubles an admission; a receipt
answers one request once; the store never starves recovery; a revoked credential
never decides and an ended one never comes back; a trial ends by itself; what is
committed is what was reviewed and can be taken back; a management id never changes its
object.

The hazards this leads to are listed, with their lines, in `PROJECT.json`.

## 2. Plan

1. **Done.** Safe Apply: `SafeApplyContract` (what it promises), `SafeApply` (the engine
   with executor, monitor, Job and watchdog), runs, inductive invariant, safety and action
   theorems, refinement.
2. **Done.** `Workspace`: the two databases of a draft, outbox, reservation, resolution
   with tombstones, composed with `SafeApplyContract` in the place of the engine.
3. **Done.** `Store` (the one writer, its queues and the recovery lane) and, on top of it,
   `Ledger` (receipts, Jobs, records, pruning, backup and restore).
4. **Done.** `Accounts`, `Trial`, and `Access`, which composes them and adds key rotation.
5. **Done.** `Native` (rows, registry, view), `Candidates` (drafts and checks), `Changes`
   (compiled transactions, proof, compensation).
6. **Done.** Theorems: every safety and action property of `SafeApply`, `Workspace`,
   `Store`, `Ledger` and `Access`; `TypeOK` and `IdentityNeverReused` of `Changes`.
7. **Done.** `CommittedAsReviewed` of `Changes`, kind by kind: the waits of a transaction
   cover what the checks read. `ForeignUntouched`, kind by kind: what a change leaves linked
   stays within reach of the root, and nothing else is collected.
8. **Done.** `UndoAvailable`, kind by kind: what a change leaves passes the checks of its reverse.
   Open: a theorem for `UndoRestores`.
9. Later: the admission budget of IPC and the resumable event stream.

## 3. Modules

| Module | Content |
|---|---|
| `SafeApplyContract` | abstract specification: phases, effects on Open vSwitch, last known good |
| `SafeApply` | the engine; properties; the refinement mapping |
| `Workspace` | one user's draft between ovs-webd and ovs-mgrd; instantiates `SafeApplyContract` |
| `Store` | the write slot, its queues and the recovery lane |
| `Ledger` | extends `Store`: receipts, Jobs, events and audit records |
| `Accounts` | principals, roles, grants, tokens, sessions |
| `Trial` | extends `Accounts`: certificates and the activation trial |
| `Access` | extends `Trial`: key rotation, the composed specification, properties |
| `Native` | rows of Open_vSwitch, identity registry, published view, third parties, faults |
| `Candidates` | extends `Native`: kinds of change, staging, checks, reversal |
| `Changes` | extends `Candidates`: waits, transactions, proof, compensation, properties |
| `MC...` | instances for TLC |
| `SafeApplyProofs` | `TypeCorrect`, the inductive invariant, what follows from it, action properties, the refinement theorem |
| `LedgerProofs` | inductive invariant and theorems of `Store` and `Ledger` |
| `AccessProofs` | what each command leaves the auth tables like, trial, keys, theorems of `Access` |
| `WorkspaceProofs` | inductive invariant and theorems of `Workspace` |
| `ChangesProofs` | inductive invariant, identities, theorems of `Changes` |
| `ReviewProofs` | extends `ChangesProofs`: schema, captured cells, waits, `CommitsWhatWasReviewed` |
| `ForeignProofs` | extends `ReviewProofs`: garbage collection, what each kind leaves linked, `OthersUntouched` |
| `UndoProofs` | extends `ForeignProofs`: what each kind leaves behind, identities kept for the way back, `CommittedIsReversible` |

Definitions whose name starts with `Bug` are seeded faults: a plausible slip in the code
that the named property has to notice. They are not part of any specification.

### State and actions of SafeApply

One action is one SQLite transaction or one piece of provider or probe I/O, because
that is where other activities, crashes and the world can come in between. All four
kinds of activity on a transaction id run under the claim of that id
(`Engine.claim`), so a single program counter per id, `proc[t]`, suffices. Its
fields are what the Go function keeps in local variables over the I/O: the revision
it read (`q`), its copy of the safety record (`s`), an outcome (`o`) and a wall-clock
reading (`w`).

* `field out seq born upd` are `execution.Record`; `safe` is `safety.Record`; `plan`
  holds the before-image and the instance generation; `prot`, `lkg`, `job` are the
  other rows the engine's transactions write.
* `mgr watch proc` are the process: starting (first Recover, no probe yet) or
  serving, the loop, and the activities. A crash loses them with the monitor's view.
* `clock auth path link db cache wire budget` are the world. `db` is the OVSDB
  server: per port a value and the commit marker, `next_cfg`, `cur_cfg` and an
  instance generation. `cache` is the monitor's view; `seen` says for which plans it
  is younger than their preparation.
* `done sends` are history: what took effect, what was written to a socket.

| Code | Actions |
|---|---|
| `submit` up to admission | `Prepare`, `Admit`, `AdmitRefused` |
| `Commit` for a change | `Dispatch` (preflight and `beforeSend`), `DispatchDenied`, `Send`, `SendFails`, `ReplyUnknown`, and `ServerTransact` for a reply |
| the rest of the worker | `SaveReply`, `ObserveField`, `SaveField` |
| `Recover`, `Reconcile` | `Wake`, `Visit`, `Reconcile`, `ObserveField`, `SaveField`, `RecoverEnds`; `ReconcileRequested` for a client |
| `SafetyTick`, `safetyStep` | `safetyStep` (read and route), `ObserveSafety`, `SaveObserved`, `Evaluate`, `Probe`, `Refresh`, `SaveSafety`, `TickEnds` |
| `rollback` | `PrepareRollback`, `DispatchUndo`, `DispatchUndoDenied`, `Send`..., `ObserveUndo`, `ProbeUndo` |
| `Decide` | `DecideConfirm`, `ObserveDecision`, `ProbeDecision`, `Confirm`; `DecideRollback`, `RequestRollback` |
| a failed SQLite transaction | `StoreFails` |

Details of the abstraction:

* A write set is a set of ports; before- and after-images are one value per port. The
  waits of a native transaction (`compileExecution`) are the comparison of these
  values and, for a compensation, of the marker. Bridges, bonds, mirrors and trees
  differ in which rows and labels they use and add checks to the preflight; the model
  lets a preflight fail (event `timeout`).
* `ovsdb-server` runs a transaction on the wire whether or not anybody waits for the
  answer. A partial write is a `Send` whose transaction is lost (`WireLost`,
  `ReplyUnknown`); an answer lost after the commit is a `ReplyUnknown` before the
  `ServerTransact`.
* A third party may change a value and drop a marker; it cannot make a marker, which
  is an HMAC over the transaction.
* A COMMIT of unknown outcome is, for the engine, a crash right after the
  transaction: the store refuses further work and the watchdog lets systemd restart.
* A failing read of the authority counts as revoked in the code (`safety.go:316`); in
  the model authority may come and go.
* Revisions and counters are unbounded; the int64 limit, `MaxRecords` and the limit of
  32 ids per `SafetyTick` are not modelled. The lists of ids are visited in any order.
* A manager without a probe refuses to start while a change is open
  (`RequireSafetyConfiguration`), so `RecoverEnds` always configures one; its domain
  may differ from the one before.
* A change in `Cutting` cuts the management path as soon as it is committed.

### Workspace

A draft is a signed envelope in `web.db`. `manager.db` keeps the latest envelope it has
seen (the *witness*), the validations, and per Safe Apply request its resolution with the
successor envelope. One action is one transaction on one database, or the manager's side
of one IPC call; between two of them an HTTP handler of `ovs-webd` (`handler[p]`) keeps
what the Go function keeps in local variables. `live = FALSE` is a call the manager goes
on with although its caller is gone.

| Code | Actions |
|---|---|
| read: `recoverSafeWorkspace`, `loadWorkspace`, `ReadCandidate` | `ReadStart`, `ResolveSafeApply`, `Adopt`, `Load`, `ReadCandidate` |
| edit: `Workspace.Execute` | `EditStart`, `PrepareCandidate`, `SaveEdit` |
| `Workspace.validate` | `ValidateStart`, `Reload`, `SyncWitness`, `ValidateCandidate`, `AckValidation` |
| `applySafely` | `ApplyStart`, `AdmitSafeApply` (authorization), `AdmitSafety` (the transaction that opens the change), `AckApply` |
| the engine | `EngineApply`, `EngineUndo`, `EngineVerdict`: steps of `SafeApplyContract` with what they write |
| ten seconds of silence | `TenSeconds` |

Faults: either process dies, a handler gives up (timeout, client gone, failed or
unauthorized transaction), Open vSwitch drifts, a validation expires.

### Store and Ledger

`Store` is `Store.Write` up to the transaction: an ordinary writer arrives, queues, wakes
and looks once more whether a recovery writer is counted before it keeps the slot. A
backup (`Store.Backup`) queues with the ordinary writers but looks for recovery writers
neither before nor after (`backup.go:33`), and keeps the slot while it copies; `overtaken`
counts transactions and backups apart. Nothing in the repository but tests calls
`Store.Backup` so far: a migration makes its backup under its own transaction.
`Ledger` gives the transactions: `Request` (`requests.Execute` with its key rules, the
command with its Job and records, and its receipt), `Settle` (`ChangeJob` with
`completeReceipts`; a transition that is not the last one records a change),
`MaintainEvidence` and receipt pruning, `ImportLegacy` and `Recover`
at start-up, `Backup` and `Restore`. `Lane` says which writers a command runs on:
a decision works under `RecoveryContext` (`safety.go:462`), all others are ordinary. Each transaction can fail before or in its COMMIT, in
the latter case with or without effect. Wall-clock time is a small natural, read in each
transaction; somebody may set it back. `runs` counts how often the command of a key really
took effect.

### Accounts, Trial, Access

A mutation runs under the security gate and in one transaction, so it is one step. What
is not atomic is password work: a login, a reauthentication and a command with a new
password read the database, compute, and come back (`flight`). `Trial` has both processes'
view of the active certificate and the trial (`tls` in manager.db, `local` in web.db,
`seen` in memory), what new connections are offered (`Presented`), a boot clock and a wall
clock. `Access` adds `-rotate-secret-key` as an offline process that may die at each step:
the next key file is created under its final name (`PrepareKey`; `torn` until `WriteKey`
has written and synced it), the rows are sealed anew one by one, and the version becomes the active one.
Nobody loads keys while a file is torn, so ovs-webd does not start (`WebDaemon`) and
neither does another rotation.
`ended`, `ever` and `age` are history.

### Native, Candidates, Changes

A row has a key (table and name), a UUID, strong links, weak references, labels
(controller, creation marker, commit marker) and the columns changes are about, one
abstract value per column group. `Settle` is the server's garbage collection. `view` is
what the monitor published together with the registry's decision (`Classify`,
`reconcile`, `install`); every check and every transaction is computed from it while the
server moves on. An intent is what `Prepare` stores: kind, object, the value captured
before and, for kinds judged from their surroundings, a digest of those; graph changes
have the rows they replace (`from`), the rows they put there (`to`) and the UUIDs reserved
for a compensation (`spare`).

`Checks` is `candidate.Checks` per kind, `Reverse` is what `PrepareRollback` makes of an
intent. `Compiled` gives the wait operations of a transaction, `Applied` its writes.
`Admit` reserves identities, consumes the draft and compiles; `Commit` and `Undo` check
the view once more and run the transaction on the server's rows, all or nothing;
`Confirm` and `Restored` are the Applied proof, which reads the server; `Journalled`
retires or keeps the reserved identities. Third parties (`ForeignEdit`) write columns and
labels, add and remove rows, links and mirrors. `world` is history: the rows as they would
be without our change.

## 4. Runs

The Safe Apply runs have one or two transactions, one or two ports and a set of *events*
(crash, reboot, timeout, wire, store, link, path, authority, clock, edit, regenerate,
request), of which at most `MaxEvents` happen in a behaviour; without any event the model
still interleaves worker, watchdog, monitor, clock and a confirming client.

| Run | Instance | Checks | States |
|---|---|---|---|
| `SafeCrash` | 1 change; 2 of crash, reboot, timeout, wire, store, regenerate | `SentOnceAfterIntent`, `RejectedIsFinal`, `VerdictTrue`, `Contract` | 2.0 M |
| `SafeDecide` | 1 change; 2 of request, authority, clock, path | `NoVersionConflict`, `SettledIsFrozen`, `WindowNeverExtended`, `ConfirmedInTime` | 2.7 M |
| `SafeForeign` | 1 change of 2 ports that cuts its own path; 1 edit | `TypeOK`, `JobMatchesVerdict`, `ForeignEditsKept` | 0.3 M |
| `SafePair` | 2 changes of the same port, 2 domains; 1 crash | `Exclusion`, `Contract` | 1.0 M |
| `SafeLive` | 1 change; 1 of crash, timeout, wire, link, path, store; fairness | `ClaimReleased`, `NoUnattendedChange` | 0.2 M |
| `Workspace` | 2 handlers, 1 apply, 1 validation; 1 of either crash, give-up, drift, expiry; fairness | `TypeOK`, `ResolutionIsFinal`, `FrozenWhileOpen`, `NeverSplit`, `DraftKept`, `Released` | 0.3 M |
| `Ledger` | 2 ordinary and 1 recovery writer, 3 keys (a command, a Safe Apply, its decision), 1 backup; 1 of crash, failed commit, full disk, clock set back, restore, upgrade | `TypeOK`, `AtMostOnce`, `ReceiptTracksJob`, `Traceable`, `OvertakenOnce` | 3.6 M |
| `Access` | 3 users, 3 credentials, 2 certificates, 3 keys; six mixes of operations and faults | `TypeOK`, `PasswordCurrent`, `EndedForGood`, `AdministratorRemains`, `TrialEnds`, `KeysOpenRows`, `NoEscalation`, `ConfirmedInWindow` | 1.2 M |
| `Candidates` | 5 networks, every kind of change; 1 foreign edit and 1 fault | `TypeOK`, `UndoAvailable`, `IdentityNeverReused`, `CommittedAsReviewed`, `UndoRestores`, `ForeignUntouched` | 0.3 M |
| `DocRollback` | 1 change; 2 of request, link | `RollbackDecisionHonoured` is violated | |
| `DocConflict` | 1 change, 2 domains; 2 of edit, crash | `ConflictSticky` is violated | |
| `DocOverlap` | 1 change; authority lost once | `ConflictMeansOverlap` is violated | |

What the newer ones show:

* `Workspace`: a request that was resolved (with or without a transaction) can no longer be
  admitted by a call still under way; while a change is open, draft, reservation and witness
  are what was admitted; whatever dies, the databases can be brought together again; a
  draft is lost only to its own confirmation; a reserved workspace does not stay reserved
  unless the manager has its change open.
* `Ledger`: repeating a command after a lost answer, an unknown COMMIT, a crash, a prune
  or a restore never runs it twice; receipts are open exactly as long as their Job; what
  is kept can be traced; a recovery writer waits for at most one ordinary transaction,
  backups (which do not yield and are not bounded) aside.
* `Access`: a login that raced a password change is void; ended credentials stay ended,
  also over a restore; capabilities come only from somebody who has them; an
  administrator is always left; a certificate on trial is served for its window only,
  whatever happens to clocks and processes; wherever a rotation is interrupted, each
  sealed row keeps a whole key that opens it, and the keys load, except after a death between
  creating and writing the next key file (section 5).
* `Candidates`: the waits of every kind of change cover what its checks looked at, so what
  commits was reviewed on the rows it commits over; a compensation restores what would be
  there without the change; no foreign row or reference is touched; a retired UUID never
  names a row again.

Bounds of the Safe Apply runs. Preparation budget, confirmation window and `AppliedFor`
are one or two ticks: before, at and after each deadline are distinct moments, and a
reboot starts the boot clock again. `MaxNS` ends time after the last deadline a change can
have; nothing in the engine depends on time afterwards. `ProbeLimit` is 2 instead of 3
(below and at the limit). `MaxUnsettled` and `MaxRunning` are at their limit with the
first change. Two events are what the engine's recovery is built against: one to get into
a bad state and one to disturb the way out. In `SafeForeign` one edit is enough for each
overlap there is: before or after the plan, the commit or the compensation, of one port of
two, with the marker kept or lost.

Bounds of the others.
* `Workspace`: two handlers are needed for each race there is (a read against an apply, an
  edit against an apply, two reads). One request and one validation: a second request can
  only start when the first has been resolved and the workspace is as at the start, with
  another candidate. `MaxSequence` 2 leaves room for one edit before the apply; the
  successor comes on top.
* `Ledger`: queues of one (at the limit with the second ordinary writer), one running Job,
  three receipts and five records with a reserve of one, so each limit is met; `Expiry`,
  both retentions and `MaxTime` are chosen so that keys expire and everything is pruned
  before time ends. To keep the product small, writers meet at clock 0 only (`Contended`)
  and both they and a backup start before the first receipt (`MaxMet` 0): such a backup
  forgets every receipt when it is restored, which is the worst case for `AtMostOnce`. One
  backup (`MaxBackups` 1) behind a running transaction is what overtakes a recovery writer
  twice.
* `Access`: idle and absolute lifetimes of two ticks, elevation and trial window of one.
  The six mixes (`MCBudgets`) keep operations that do not interact out of one behaviour:
  three commands of people; two and two faults; two and a moved clock; one with
  certificates and a fault; certificates with a fault and a moved clock; three rotations. The mixes run out, so
  the run ends: `CHECK_DEADLOCK FALSE`.
* `Candidates`: the networks are a bridge with a plain and a bonded port (`List`: VLAN,
  QinQ, bond and its members), two bridges (`Flat`: isolation, multicast, spanning tree,
  creation and deletion of bridges, ports and bonds, moves), internal ports (`Internal`:
  MTU, policing, ofport, deletion, patch pairs), `Tunnel` (tunnels, a patch pair to
  take apart, and a mirror on the other bridge) and `Mirror`. Each has the foreign edits that meet its changes. One foreign edit
  anywhere between staging and the end of the compensation, and one fault. `MaxPicks`
  bounds the UUIDs that drafts pick, 3 is what the largest change needs; `MaxId` leaves room
  for third parties and for the fault "replace", a database with the same content under new
  UUIDs, which doubles those handed out. There is one change per behaviour, after
  which the run may end: `CHECK_DEADLOCK FALSE`.

Symmetry is used in `SafeForeign` (ports), `SafePair` (changes, domains) and `Ledger`
(ordinary writers); none of these checks liveness.

Fairness of `SafeLive`. Weak fairness of the steps of each activity (a goroutine runs,
every I/O has a deadline), of the watchdog loop (a one-second ticker), of the restart
(`Restart=on-failure`, `WatchdogSec`), of the clock, of ovsdb-server, ovs-vswitchd and
the monitor, and of the return of a provider that is away. No fairness is assumed for
clients: nobody needs to confirm. `NoUnattendedChange` is checked with one probe domain
and one instance generation: with another one the code holds the change for an operator.

Fairness of `Workspace`. Weak fairness of a started handler (a goroutine with a deadline)
and of time. Nothing is assumed of the engine: a change may wait for an administrator for
ever (`docs/implementation/SAFE_APPLY_v0.1.md:41`; a lost reply, a replaced server, a
conflict), and the workspace stays reserved as long. `Released` is about the rest: a
reservation whose request never reached the manager, was refused there, or has its verdict.
Strong fairness of opening the workspace: recovery happens when the workspace is read and
at no other time, so `Released` says what a user who keeps coming back gets. There is no
fairness for edits, validations and applies.

## 5. What the documents say and the code does not do

* **An accepted rollback can be forgotten** (`DocRollback`). `Decide` stores
  `rollback-requested`. If the provider is away at the next tick, `holdSafety` replaces
  that state by `recovery-required`; the tick after computes `rollback` from the state
  only (`safety.go:317`), finds the change healthy and opens it for confirmation.
* **A recorded conflict can disappear** (`DocConflict`). The domain test at
  `safety.go:262` comes before the test for `rollback-conflict`, so a restart with
  another probe domain (the interface was recreated and has another ifindex) turns
  the conflict into `recovery-required`; with the old domain back, compensation is
  tried again.
* **A conflict without an overlap** (`DocOverlap`). Compensation that is due before the
  monitor has published the commit does not find its marker in the cached view and is
  recorded as a conflict (`rollback.go:62`).

Not covered by a run of their own, but met while modelling:

* **Four changes are let in that cannot be compensated**, although
  `docs/contracts/CORE_API_CONTRACT_v0.1.md:123` (rollback compares the after-image and
  restores the before-image), `docs/implementation/SAFE_APPLY_v0.1.md:27` and
  `docs/contracts/LOCAL_SAFE_APPLY_v0.1.md:18` promise it for every change nobody
  interfered with. `UndoAvailable` holds with these cases left out (`Irreversible`);
  `CommittedCanBeUndone`, without exceptions, fails:
  * `DefaultMode`: a VLAN change of a port that has no `vlan_mode` is allowed
    (`plan.go:604`, `NATIVE_DEFAULT_MODE_PRESERVED`), but the reversed intent has no mode
    and is blocked as `SCHEMA_UNSUPPORTED` (`plan.go:590`), which `rollback.go:67` turns
    into `ROLLBACK_CONFLICT`. The exception at `plan.go:583` covers QinQ only.
  * `Survives`: the deletion of a port whose interface another port also holds; the row
    survives and the reserved UUID cannot be inserted in its place.
  * `Clashed`: a deletion or change of a mirror whose output port another mirror selects,
    or the other way round; the reversed intent fails the check that the state before the
    change would fail, too (`mirror.go:120`). Likewise a tunnel that receives what another
    one already received: staging checks the identity of the new configuration only
    (`tunnel.go:33`), the compensation that of the restored one (`tunnel.go:57`), and two
    tunnels that differ in the destination port alone count as the same (`config.go:132`).
  * `Overlooked`: a tunnel committed over a mirror that had changed since it was staged.
* **A tunnel is not guarded against mirrors.** `tunnelDependency`
  (`candidate/tunnel.go:95`) captures all rows the change does not own, mirrors included,
  and its comment promises to preserve "the captured read set through dispatch". The
  transaction waits for the tables of `treeFenceTables`, of which `Mirror` is none
  (`topology.go:216`), so a mirror that is rewritten after the last check goes unnoticed:
  `TunnelReadSetGuarded` fails within 15,000 states of the instance of `Candidates`. Since
  the same digest is compared again for the compensation, the change cannot be
  taken back either (`Overlooked` above).
* **A prune trusts the clock.** `requests.Prune` neither checks nor raises the high
  watermark, so a prune at a wrong, later time forgets receipts, and after the clock is
  corrected, which nothing detects because no command recorded the later time, their keys
  are valid again. `docs/contracts/PHASE1_API_MIGRATION_v0.1.md:55` says that an expired key
  is not run as a new write even after its receipt was reclaimed. `AtMostOnce` excludes
  this case (`regressed`).
* **A rotation can leave a key file that nothing accepts.** `KeyFile` creates the file of the
  next version under its final name (`authn/key_linux.go:34`) and then writes and syncs it
  (`key_linux.go:49-52`). After a death in between, `LoadKeys` (`keys_linux.go:46-56`) and
  `PrepareKey` (`keys_linux.go:104`) refuse the directory because of the size of that file:
  ovs-webd does not start and the rotation cannot be repeated until somebody removes the file.
  `docs/implementation/SECRETSTORE_TLS_v0.1.md:48` says the opposite ("进程在任一步中断均能读取已提交密文，重复操作复用
  prepared key"). Nothing is lost, as no row is sealed with that key: `KeysOpenRows` says
  exactly this much, and fails without its second alternative.
* **Backups do not yield to recovery.** `RecoveryContext` "makes ordinary writers yield before
  starting their SQL transaction" (`sqlite/recovery.go:12`); `Store.Backup` takes the slot
  without looking (`sqlite/backup.go:33`) and may keep it for 30 seconds. `OvertakenOnce`
  bounds transactions only.
* Jobs have states for cancellation, but no code creates a cancellable Job.

## 6. Proofs

All theorems hold for every value of the constants that satisfies the named assumptions of
their module, and for every number of events. TLC evaluates the assumptions in each run.
Apart from types of constants, and that `None` is not a row, they are:

| Assumption | Says | Because |
|---|---|---|
| `SafeApplyAssumption` | write sets are not empty, budgets positive, `""` is no domain, `base` and `ext` are not transactions | a plan has a port; values of third parties are told apart from ours by their marker |
| `LedgerAssumption` | `Skew + Expiry <= Retention <= AuditRetention`; a decision needs something to decide on | 2 minutes, 5 minutes, 30 days (`requests.go:249`, `requests.go:354`) |
| `AccountsAssumption` | elevation is not longer than a session; there are two different first users | `auth.go` |
| `TrialAssumption`, `KeysAssumption` | a positive window, imported certificates are certificates, at least one key | `tlscontrol`, `secret` |
| `WorkspaceAssumption` | finitely many requests; the sequence may grow at least once | a database is finite |
| `SchemaAssumption` | the networks to start from, and third parties, keep to the schema: columns and tables of keys, no dangling references, no row that nothing holds | ovsdb-server enforces it, `validateRelations` (`schema.go:418`) checks it again |
| `RequestAssumption` | a request names a row of the table it is about | the binding of an intent is resolved in that table (`candidate/topology.go:365`) |
| `NativeAssumption` | the rows of a network to start from have the UUIDs 1, 2, ... n; one is the root and has no marker of a change to come | UUIDs are unique; a marker is a keyed digest of the change |

### Safe Apply

`SafeApplyProofs`. `TypeOK` is inductive as it stands; one lemma per group of actions.
None of the safety properties is inductive: whether a write is right
depends on what the activity read some steps ago and on who else could have written
since. `IInv` says, next to `TypeOK` and `Exclusion`, for each transaction

* `MarkInv`: a marker in the database or the view exists only for a native transaction
  that took effect (so evidence from a stale view is late, never wrong);
* `WireInv`: what is on the wire was sent, what took effect was sent and is gone from it;
* `IntentInv`: nothing was sent unless its intent is in the journal;
* `WorkerInv`: an activity that is about to send finds nothing sent yet, and the journal
  as its own intent left it;
* `SnapInv`: what an activity keeps over its I/O: its revision is the journal's and its
  copy of the record an admissible successor of it, because the claim excludes all
  other writers (this is where `NoVersionConflict` comes from);
* `EvidenceInv`: the outcomes in the journal and in the hands of activities are honest:
  committed only if in effect, rejected only if never to be;
* `VerdictInv`, `JobInv`: the verdict and the Job agree with these.

Each action has one step, and under it the parts it can disturb. `NeverSentTwice`,
`RejectionIsFinal`, `VerdictIsTrue`, `OpenChangesApart`, `ClaimExcludesConflict` and
`JobFollowsVerdict` are its consequences. `OpenChangesApart` covers what no instance here
reaches: two disjoint changes open together under different probe domains.

Every step of the engine is one of few shapes: it leaves the journal
of a transaction alone, writes its field record, writes its safety record, or is the
server's. From these shapes follow the action properties `SettledStaysFrozen`,
`WindowIsFixed`, `ConfirmationInTime`, and that each step maps to a step of
`SafeApplyContract` or to none (`ImplementsContract`). `ForeignEditsSurvive` needs `TypeOK`
only: no activity writes a row of the server, and what the server does for us is guarded by
the waits of its transaction.

### Store and Ledger

`LedgerProofs`. `AtMostOnce` is about a counter that no code reads, so the invariant has to
say why a command that took effect is not accepted again (`Spent`): its key is of an older
epoch, or its receipt is there and was made no earlier than `Skew` before its key, or the
receipt was pruned at a time at which the key had expired. The last case is where
`Skew + Expiry <= Retention` is needed, and the restore of a backup is the first one.
`Paired`, `Tracked` and `Recorded` say how receipts, Jobs and records belong together; they
hold of the backup as well. `Precedence` is the step between "one writer at the slot" and
`OvertakenOnce`: while an ordinary writer is in its transaction, no waiting recovery writer
has been overtaken yet, neither by a transaction nor by a backup; so the one transaction that
may count is the one that holds the slot, and a backup that comes after it does not let
another one in. TLC checked the invariant on the states of the run first.

### Access

`AccessProofs`. The tables are consistent (`Wired`), and (`Valid`) a
credential that is not revoked is of the present epoch, of an enabled owner, and was opened
with the present password. This is stronger than `PasswordCurrent`, which speaks of what
works now: a revocation that merely relied on the expiry would break it. `Over` says that
what was ended is gone or revoked. A backup satisfies `Wired` and `Valid` as well, and a
restore revokes what it brings back under a new epoch. Each command has a lemma about the tables it leaves; what stands in
flight during password work refers to what is still there (`Item`). For the trial, `Timely`
bounds the real time since the activation by the boot clock of the same boot, for each of
the three copies of the state, and `Serves` says that whatever is served was active once or
is the trial of the copy that ovs-webd last saw. `KeysOK` follows the rotation through the
steps it may die between: only the file of the version after the active one can be torn, it
holds no key yet, and no row is sealed with it until it is whole.

### Workspace

`WorkspaceProofs`. What goes wrong between two databases goes wrong in a handler that holds
an old envelope. `Holds` says for each step of a handler what it has in its hands compared to
the databases now: the envelope of its outbox row, or a draft that is the stored one or has a
smaller sequence (`Earlier`). `Core` relates the databases: the reservation is of the one
unresolved outbox row and its envelope is the draft; a sealed outcome follows the admitted
draft by one in sequence and the witness has not fallen behind it; the witness of an open
change is its envelope. `ResolutionIsFinal` and `NeverSplit` are part of the invariant,
`FrozenWhileOpen` follows, and `DraftKept` is a property of its steps. TLC checked the
invariant with one request (0.3 M states) and with two (1.4 M).

### Changes

`ChangesProofs`. A management id follows a UUID, and the manager chooses the UUIDs of the
rows it will insert, and of those a compensation would insert again, before anything is
sent. `IdentityNeverReused` says that a UUID which was given up names no row again. What can
break it is a reservation that is given up although its row was inserted, or is inserted
later, so the invariant follows every reserved UUID:

* `Waiting`: until the transaction that uses it, it names no row, neither on the server nor in
  the copy of the database that a fault may bring back; and that transaction waits for the
  names of the rows it inserts to be free;
* `Pending`: only the change under way has reservations;
* `Marks`, `Shown`: a view that carries the change's marker is younger than its transaction, so
  what is left of the inserted rows is in it;
* `Registered`: of such a view the registry has made the rows active, and view and registry
  agree on what was given up. When the verdict retires the reservations, what is still
  pending is therefore on no row.

The argument does not depend on the kind of change, only on where its UUIDs come from:
`Inserts` and `Proper` say what every staged intent brings. A database put back to an earlier
copy starts a new epoch, which is why `Shown` speaks of views of the change's own epoch; new
rows under the same configuration have UUIDs that nobody has reserved.
TLC checked the invariant on 0.3 M states first. While proving, two cases of `Grafted` turned
out to overlap, which had left the choice between them open; the model now states their order.

`ReviewProofs`. `CommittedAsReviewed` compares three moments: the draft captured cells of an
early view, the transaction was compiled from a later one, and it runs on the rows the server
has by then. Neither the captured cells nor the waits name everything that the checks read:
that a port has no other bridge, that an interface is the only member, that a name is free
and a member of a bond is nobody's peer are conclusions from a few cells and the schema. The
invariant is therefore, next to that of `ChangesProofs`,

* `Lawful`: up to the commit the rows of the server and of the view keep to `Schema`, whatever third
  parties do (`Settle` has to be shown to leave no row unheld);
* `Drafted`: every intent is as some request staged it (`Staged`): where its captured cells
  are, which rows it takes away and adds, and what its kind says of their tables and names.
  Edits of a draft (`Amended`, `Rebase`) preserve this, kind by kind;
* `Reviewed`: there are rows, those of the view at admission, that keep to the schema, agree
  with what the intents captured, pass the checks of each kind (`Gate`), and from which the
  waits were compiled.

At the commit the waits hold on the server (`CellsWait` and its relatives), so server and
admission view agree on the cells waited for; from these each gate is carried over to the
server's rows (`IntentCommitted`: one lemma per kind of change). The preflight of the commit
is not used: it reads a view that may be old. In the course of the proof
two kinds turned out to capture more than they wait for, and `Insisted` says what exactly:
tunnels (section 5), and deletions of a bridge or an internal port, which compare all
columns of a doomed row, while the transaction insists on those of a row as the manager
creates it. TLC showed the counterexamples; the theorem is about everything else.

`ForeignProofs`. In OVSDB nobody deletes a port or an interface: a transaction unlinks it, and
the server collects what nothing holds any more and severs references to it. Whether a row of
somebody else survives is therefore a question of reachability, and of whether anything outside
the change refers to a row that goes. The argument has four parts.

* `SettleKeeps`: a set of rows in which each is held by another one of it survives the
  collection as it is. The collection has a fixed depth (bridges, ports and mirrors,
  interfaces), so no induction is needed.
* `Woven`, `Tailored`: what staging knows of the rows before and after the change, one lemma per
  kind (`CreationWoven`, `MoveWoven`, `MembersWoven`, `MirrorWoven`, ...): rows that go hold
  only rows of the change, rows that come or stay are held within it, and links that a row gains lead
  to rows of the change. The same is true the other way round, for the compensation.
* `TransactionFits`: when the waits hold, the server's rows are such that the change fits:
  what is to go is there and holds nothing else, what is to come is not, and (`Untied`) nothing
  outside refers to what goes. This rests on the waits for `heldall` and on `Reviewed`.
* `GraftKeeps` puts these together: what the change does not own is held as before, row by row,
  and the result keeps to the schema again.

The last point is what makes it inductive: `Lasting` extends `Lawful` beyond the commit, `Fashioned`
says that every intent is `Tailored`, and `Returning` is `Reviewed` for the compensation. `Lasting`
is a result of its own (`SchemaKept`). TLC checked `Lasting` and the weaving on the 0.3 M states
of `Candidates` first.

`UndoProofs`. `UndoAvailable` goes the way of `ReviewProofs` back: the reversed intent was never
staged, so nobody has looked whether its checks can be met; its captured values were computed
while the draft was made, by applying the change to a view that was old when the transaction
ran. The argument has three parts.

* Fields (`FieldUndo`). What a field change captures and is judged by are cells that it does not
  write itself, nor any other change of the same draft (`Stable`, `Grouped`); so they are as
  the transaction found them, and each gate is shown to hold once more after the write.
* Graphs (`GraphUndo`). `Minted` is what staging makes sure of: wherever the change is applied to
  rows that agree with what it captured, the cells it foretells come out (`Foretells`, by comparing
  two grafts row by row); rows that stay let go of those that go (`Severed`); names, identities and
  parents of what goes are recorded. `GraphTaken` is what the transaction found, `Carried`
  what it left: doomed rows are gone unless somebody else holds them (`DoomedGone`; this is
  `Survives`), nothing outside moved, the foretold cells are there. From `Carried` follow the
  checks of the reverse of each kind, except for the clashes between mirrors or tunnels, which are
  compared with the rows before (`Clashed`, `Overlooked`).
* The registry (`Books`, `Intact`). As long as nobody interferes, the manager has to know the server as
  the one it committed to: same generation, root and boot, whatever observations the monitor
  publishes in between; UUIDs reserved for the rows that come back are still pending, so no
  observation gives them up; the UUIDs of deleted rows were active and become tombstones with the
  view that no longer shows them, which is what `Restorable` asks for.

The inductive invariant `Kept` joins these (`Books`, `Framed`, `Anchored`, `MintedAll`, `Stood`) to those of
`ChangesProofs`, `ReviewProofs` and `ForeignProofs`. `Stood` starts with the commit, where
everything in `Intact` has to be derived from the waits and the preflight (`CommitStood`), and
says nothing once a third party wrote or a fault happened. The four exceptions are needed:
`CommittedCanBeUndone` fails without them (section 5).

### Only model-checked

* `ClaimReleased`, `NoUnattendedChange`, `Released`: fairness is out of the prover's reach.
* `UndoRestores`: it compares the server with the rows as they would be without the change,
  to which every later edit of a third party was applied as well. A proof for every network
  has to show that each of these edits commutes with each kind of change, garbage collection
  included, as far as the waits of the compensation let it happen at all. `Repeats` is left
  out: the transaction waits for values, so a third party that overwrites a value of the change
  and later writes it once more is not noticed, and its value is taken back with the change.
  `Candidates` bounds foreign edits by one; with two and three edits, TLC finds that this
  exception is needed and that no other is.

## 7. Not modelled

See the components in `PROJECT.json` that are `partly` or `not_modelled`, with the reason.

* Safe Apply: submission without a safety record (no public path reaches it), the public
  views, the wording of reasons that no decision depends on.
* Workspace: the first creation of a workspace; `ReserveExecution` and `workspaceLease`,
  which only tests use; the receipts of edits (they are those of `Ledger`, kept in web.db,
  where nothing prunes them); authorization failures are a handler that gives up.
* Ledger: reads, paging and `Find`; opening and migrating a database; cancellation. A
  `Restore` is the installation of the file and `PrepareRestore` in one step
  (`restore.go:10`); `Recover` has neither the check that the store is writable nor the budget
  of `maintenance.go:37`; `ImportLegacy` imports the rows of `auth_audit`, while events, audit and
  Jobs from before the evidence (`maintenance.go:170`, `181-241`) are left out. Two changes of one Job
  recorded at the same clock value are one record.
* Access: rate limits and their watermark of attempts (`auth.go:260-290`), password slots,
  paging, references to resources other than tokens, certificate dates beyond "can be loaded"
  (so the `NotAfter` of the fallback at `web/tls.go:61`), a boot id that cannot be read
  (`tlscontrol/types.go:51`). The poll of ovs-webd (`web/tls.go:75-99`) is one step, although
  the manager may move on between its read and its save; what is offered is judged by its own deadline
  again. A restore is of manager.db alone; the document speaks of both databases
  (`SECRETSTORE_TLS_v0.1.md:50`). A reboot comes when the keys load. A confirmation over a connection left from an
  earlier trial of the same certificate is accepted by the code, and by the model.
* Candidates and executor: runtime evidence (spanning-tree witness, mirror statistics,
  kernel policing, device MTU, ifindex, allocation of ofport) is a further reason for a
  check to fail and is left out here (`topology.go:238-245`, `686-693`); so are capacity
  limits, grants to create (`topology.go:291-312`) and revisions of the
  authority. The sources of a move are the rows that hold what moves, where a request names
  them (`topology.go:602-620`); a new name is compared with those of bridges, ports and
  interfaces, not of mirrors. A restored manager.db (`management-restore`, `registry.go:60`) does not
  occur, and changes of schema, gaps and other files are one reason for a new epoch. `bond` stands for `bond.configure`; the label columns of the kinds are one
  marker column; the `other` column of the root stands for hw-offload, vlan-limit and the
  like. A commit of
  unknown outcome and `next_cfg`/`cur_cfg` are in `SafeApply`.
* The inventory's projection to the public model and its paging, the public HTTP layer,
  the event stream (both only read), parsers of host and daemon files, generated code,
  front ends, and the patches to Open vSwitch.
