------------------------------- MODULE Ledger -------------------------------
(***************************************************************************)
(* What manager.db remembers of the commands it accepted: a receipt per    *)
(* idempotency key (requests), a job per command and the event and audit   *)
(* records about both (evidence), written in the transaction of the        *)
(* command through the one writer of Store, pruned by age, backed up and   *)
(* restored.                                                               *)
(*                                                                         *)
(* Wall-clock time is a small natural; the manager reads it anew in every  *)
(* transaction and somebody may set it back.                               *)
(***************************************************************************)
EXTENDS Store

CONSTANTS
  Key,             \* idempotency keys of clients
  Kind,            \* what the command of a key does
  Legacy,          \* audit rows written before evidence_records existed
  MaxTime,         \* bound on the wall clock
  Skew, Expiry,    \* how far a new key may be ahead, how old it may be
  Retention, AuditRetention,   \* 30 and 180 days
  MaxReceipts, MaxRecords, Reserved, MaxRunning,
  Contended,       \* clock values at which several writers may meet
  MaxMet,          \* bound on the receipts when writers meet or a backup starts
  Events, MaxEvents            \* faults of this instance

Time == 0..MaxTime

ASSUME LedgerAssumption ==
  /\ Kind \in [Key -> {"command", "execute", "decide"}]
  /\ \A k \in Key : Kind[k] = "decide" => \E x \in Key : Kind[x] = "execute"
  /\ \A n \in {MaxTime, Skew, Expiry, Retention, AuditRetention, MaxReceipts,
               MaxRecords, Reserved, MaxRunning, MaxMet, MaxEvents} : n \in Nat
  /\ Skew + Expiry <= Retention /\ Retention <= AuditRetention
  /\ None \notin Key \cup Nat /\ Contended \subseteq Time
  /\ Events \subseteq {"crash", "commit", "disk", "back", "restore", "upgrade"}

VARIABLES
  db,        \* manager.db
  backup,    \* the newest verified backup
  proc,      \* ovs-mgrd: down, import, recover or serving
  software,  \* number of migrations the installed ovs-mgrd knows
  clock,     \* wall clock
  born,      \* clock and epoch at which the client made each key
  runs,      \* how often the command of each key has taken effect
  regressed, \* the clock was set back behind a prune of receipts
  pruned,    \* clock of the latest prune that removed a receipt
  budget     \* faults left

client == <<clock, born, regressed>>
vars == <<store, db, backup, proc, software, client, runs, pruned, budget>>

ControlOperation(k) == Kind[k] = "decide"

\* fingerprint: what distinguishes two payloads under one key.
Digest == {"confirm", "rollback", "plain"}
Payload(k) == IF ControlOperation(k) THEN {"confirm", "rollback"} ELSE {"plain"}

\* A decision is about the job of the Safe Apply it decides.
JobOf(k) == IF ControlOperation(k) THEN CHOOSE x \in Key : Kind[x] = "execute" ELSE k

Record == [coll : {"event", "audit"}, req : Key \cup Legacy, job : Key \cup {None},
           note : {"admitted", "changed", "settled", "legacy"}, at : Time]

ReceiptRow == [digest : Digest, created : Time, completed : Time \cup {None}]

JobRow == [state : {"running", "needs-attention", "ended"}, completed : Time \cup {None}]

\* When and in which epoch a client made a key.
Stamp == [at : Time, epoch : Nat]

Database ==
  [receipts : [Key -> ReceiptRow \cup {None}],
   jobs : [Key -> JobRow \cup {None}],
   records : SUBSET Record,
   high : Time, ehigh : Time, epoch : Nat, version : {1, 2},
   legacy : SUBSET Legacy, imported : BOOLEAN]

\* No row is not a row.
ASSUME NoneAssumption ==
  None \notin Database /\ None \notin ReceiptRow /\ None \notin JobRow /\ None \notin Stamp

Fresh ==
  [receipts |-> [k \in Key |-> None], jobs |-> [k \in Key |-> None], records |-> {},
   high |-> 0, ehigh |-> 0, epoch |-> 0, version |-> 1,
   legacy |-> Legacy, imported |-> FALSE]

-----------------------------------------------------------------------------
(* Evidence.                                                               *)

Unsettled(d, j) == d.jobs[j] # None /\ d.jobs[j].state # "ended"
Open(d, k) == d.receipts[k] # None /\ d.receipts[k].completed = None

\* Append: n more records fit; only lifecycle writers may use the reserve.
Room(d, coll, n, critical) ==
  Cardinality({r \in d.records : r.coll = coll}) + n
     <= MaxRecords - (IF critical THEN 0 ELSE Reserved)

Note(k, coll, note) ==
  [coll |-> coll, req |-> k, job |-> JobOf(k), note |-> note, at |-> clock]

Noted(d, k, note) ==
  [d EXCEPT !.records = @ \cup {Note(k, "event", note), Note(k, "audit", note)}]

\* CreateJob: the limits on jobs, in all and running, and the event it appends.
CreateJobFits(d, k) ==
  /\ Cardinality({j \in Key : d.jobs[j] # None}) < MaxReceipts - Reserved
  /\ Kind[k] = "execute" =>
       Cardinality({j \in Key : d.jobs[j] # None /\ d.jobs[j].state = "running"}) < MaxRunning
  /\ Room(d, "event", 1, FALSE) /\ Room(d, "audit", 1, FALSE)

\* Seeded fault: the receipt of the command that started the job stays open.
BugCompleteReceipts(d, j) ==
  [k \in Key |-> IF Open(d, k) /\ JobOf(k) = j /\ k # j
                 THEN [d.receipts[k] EXCEPT !.completed = clock] ELSE d.receipts[k]]

\* completeReceipts: every open receipt that refers to the job.
CompleteReceipts(d, j) ==
  [k \in Key |-> IF Open(d, k) /\ JobOf(k) = j
                 THEN [d.receipts[k] EXCEPT !.completed = clock] ELSE d.receipts[k]]

\* ChangeJob: a settled job stays settled; the event counts against the hard cap.
ChangeJobFits(d, j) ==
  Unsettled(d, j) /\ Room(d, "event", 1, TRUE) /\ Room(d, "audit", 1, TRUE)

ChangeJob(d, j, state) ==
  IF state # "ended" THEN [Noted(d, j, "changed") EXCEPT !.jobs[j].state = state]
  ELSE [Noted(d, j, "settled") EXCEPT
          !.jobs[j] = [state |-> "ended", completed |-> clock],
          !.receipts = CompleteReceipts(d, j)]

-----------------------------------------------------------------------------
(* Receipts.                                                               *)

\* Seeded fault: any epoch is accepted.
BugKeyValid(d, key) ==
  /\ d.high <= clock + Skew
  /\ clock <= key.at + Expiry
  /\ key.at <= clock + Skew

\* Execute: a key without a receipt is accepted only in its epoch, while the
\* clock has not gone back, and while the key is young.
KeyValid(d, key) ==
  /\ d.epoch = key.epoch
  /\ d.high <= clock + Skew
  /\ clock <= key.at + Expiry
  /\ key.at <= clock + Skew

ReceiptFits(d, k) ==
  Cardinality({q \in Key : d.receipts[q] # None})
    < MaxReceipts - (IF ControlOperation(k) THEN 0 ELSE Reserved)

\* The guards of the command itself.
MutationFits(d, k) ==
  IF ControlOperation(k) THEN ChangeJobFits(d, JobOf(k)) /\ Room(d, "audit", 2, TRUE)
                         ELSE CreateJobFits(d, k)

\* A command ends its job at once, a Safe Apply leaves it running, a
\* confirmation ends the job of the change, a rollback decision does not.
Mutation(d, k, dig) ==
  CASE Kind[k] = "command" ->
         [Noted(d, k, "admitted") EXCEPT !.jobs[k] = [state |-> "ended", completed |-> clock]]
    [] Kind[k] = "execute" ->
         [Noted(d, k, "admitted") EXCEPT !.jobs[k] = [state |-> "running", completed |-> None]]
    [] dig = "confirm" ->
         [ChangeJob(d, JobOf(k), "ended") EXCEPT !.records = @ \cup {Note(k, "audit", "admitted")}]
    [] dig = "rollback" ->
         [ChangeJob(d, JobOf(k), d.jobs[JobOf(k)].state)
            EXCEPT !.records = @ \cup {Note(k, "audit", "admitted")}]

Receipt(k, dig) ==
  [digest |-> dig, created |-> clock,
   completed |-> IF Kind[k] = "command" \/ dig = "confirm" THEN clock ELSE None]

Largest(a, b) == IF a < b THEN b ELSE a

Executes(d, k, key) ==
  d.receipts[k] = None /\ KeyValid(d, key) /\ ReceiptFits(d, k) /\ MutationFits(d, k)

\* The receipt is written in the transaction of the command.
Execute(d, k, key, dig) ==
  IF Executes(d, k, key)
  THEN [Mutation(d, k, dig) EXCEPT !.receipts[k] = Receipt(k, dig), !.high = Largest(@, clock)]
  ELSE d

-----------------------------------------------------------------------------
(* Maintenance.                                                            *)

Aged(at, retention) == at + retention < clock

\* Seeded fault: records of running jobs are pruned as well.
BugPrunable(d, r) ==
  Aged(r.at, IF r.coll = "audit" THEN AuditRetention ELSE Retention)

\* Records of an unsettled job are kept, whatever their age.
Prunable(d, r) ==
  /\ Aged(r.at, IF r.coll = "audit" THEN AuditRetention ELSE Retention)
  /\ r.job # None => ~Unsettled(d, r.job)

\* Jobs follow their records; the job of a Safe Apply is kept by its row in
\* field_executions.
JobPrunable(d, records, j) ==
  /\ d.jobs[j] # None /\ d.jobs[j].state = "ended"
  /\ Aged(d.jobs[j].completed, Retention)
  /\ \A k \in Key : JobOf(k) = j => ~Open(d, k)
  /\ \A r \in records : r.job # j
  /\ Kind[j] # "execute"

\* evidence.Prune
PruneEvidence(d) ==
  IF clock < d.ehigh THEN d
  ELSE LET kept == {r \in d.records : ~Prunable(d, r)} IN
       [d EXCEPT !.ehigh = clock, !.records = kept,
                 !.jobs = [j \in Key |-> IF JobPrunable(d, kept, j) THEN None ELSE d.jobs[j]]]

ReceiptPrunable(d, k) ==
  /\ d.receipts[k] # None /\ ~Open(d, k)
  /\ Aged(d.receipts[k].completed, Retention)
  /\ d.jobs[JobOf(k)] = None
  /\ \A r \in d.records : r.req # k

\* requests.Prune
PruneReceipts(d) ==
  [d EXCEPT !.receipts =
     [k \in Key |-> IF ReceiptPrunable(d, k) THEN None ELSE d.receipts[k]]]

-----------------------------------------------------------------------------
(* Store.Write around one of these transactions.                           *)

LedgerInit ==
  /\ StoreInit
  /\ db = Fresh
  /\ backup = None
  /\ proc = "import"
  /\ software = 1
  /\ clock = 0
  /\ born = [k \in Key |-> None]
  /\ runs = [k \in Key |-> 0]
  /\ regressed = FALSE
  /\ pruned = 0
  /\ budget = MaxEvents

Fault(e) ==
  /\ e \in Events
  /\ budget > 0
  /\ budget' = budget - 1

\* Write: the transaction is rolled back unless the store is still writable;
\* when COMMIT reports an error it may have taken effect, and the store
\* refuses every write until the process is restarted.
Write(w, new) ==
  /\ writer[w] = "holding"
  /\ Release(w)
  /\ \/ Writable /\ db' = new /\ UNCHANGED <<status, budget>>
     \/ UNCHANGED <<db, status, budget>>
     \/ Writable /\ Fault("commit") /\ db' \in {db, new} /\ status' = "degraded"
     \/ Fault("disk") /\ status' = "degraded" /\ UNCHANGED db

\* Admission does not look at the clock or the database: it is enough that
\* writers meet at one clock value and before there are many receipts, and that
\* the clock moves between writes.
Quiet == \A w \in Writer : writer[w] = "idle"

FewReceipts == Cardinality({k \in Key : db.receipts[k] # None}) <= MaxMet

\* Recovery starts once the manager serves; a backup is started by hand.
Enter(w) ==
  /\ proc # "down"
  /\ writer[w] = "idle" => Quiet \/ (clock \in Contended /\ FewReceipts)
  /\ w \in Recovery \cup Backups => proc = "serving"
  /\ writer[w] = "idle" /\ w \in Backups => FewReceipts
  /\ Admission(w)
  /\ UNCHANGED <<db, backup, proc, software, client, runs, pruned, budget>>

\* The client makes a key with its own clock, or repeats a key it has used,
\* possibly with another payload.
Request(w, k, dig) ==
  /\ proc = "serving"
  /\ IF born[k] # None THEN UNCHANGED born
     ELSE born' = [born EXCEPT ![k] = [at |-> clock, epoch |-> db.epoch]]
  /\ Write(w, Execute(db, k, born'[k], dig))
  /\ runs' = [runs EXCEPT ![k] =
       IF db' # db /\ Executes(db, k, born'[k]) THEN @ + 1 ELSE @]
  /\ UNCHANGED <<backup, proc, software, clock, regressed, pruned>>

\* Decide works under RecoveryContext, every other command does not.
Lane(k) == IF ControlOperation(k) THEN Recovery ELSE Ordinary

\* The Safe Apply engine records where its job stands.
Settle(w, j, state) ==
  /\ proc = "serving"
  /\ Kind[j] = "execute"
  /\ Write(w, IF ChangeJobFits(db, j) THEN ChangeJob(db, j, state) ELSE db)
  /\ UNCHANGED <<backup, proc, software, client, runs, pruned>>

\* MaintainEvidence: two transactions, either of which may fail.
MaintainEvidence(w) ==
  /\ proc = "serving"
  /\ \/ Write(w, PruneEvidence(db)) /\ UNCHANGED pruned
     \/ /\ Write(w, PruneReceipts(db))
        /\ pruned' = IF db'.receipts # db.receipts THEN clock ELSE pruned
  /\ UNCHANGED <<backup, proc, software, client, runs>>

-----------------------------------------------------------------------------
(* Start, backup and restore.                                              *)

\* ImportLegacy: batches of one; a source is marked once nothing is left.
ImportLegacy(w) ==
  /\ proc = "import"
  /\ \/ /\ db.imported
        /\ proc' = "recover"
        /\ UNCHANGED <<store, db, budget>>
     \/ /\ ~db.imported /\ db.legacy = {}
        /\ Write(w, [db EXCEPT !.imported = TRUE])
        /\ UNCHANGED proc
     \/ \E l \in db.legacy :
          /\ Room(db, "audit", 1, FALSE)
          /\ Write(w, [db EXCEPT !.legacy = @ \ {l}, !.records = @ \cup
               {[coll |-> "audit", req |-> l, job |-> None, note |-> "legacy", at |-> 0]}])
          /\ UNCHANGED proc
  /\ UNCHANGED <<backup, software, client, runs, pruned>>

\* Recover: jobs of the Safe Apply engine are left to it.
Recover(w) ==
  /\ proc = "recover"
  /\ writer[w] = "holding"
  /\ Release(w)
  /\ proc' = "serving"
  /\ UNCHANGED <<status, db, backup, software, client, runs, pruned, budget>>

\* openWithMigrations: a database of a newer program is refused; an older one
\* is backed up before all migrations run in one transaction.
Start ==
  /\ proc = "down"
  /\ db.version <= software
  /\ status' = "ready"
  /\ backup' = IF db.version < software THEN db ELSE backup
  /\ db' = [db EXCEPT !.version = software]
  /\ proc' = "import"
  /\ UNCHANGED <<writer, slot, overtaken, copies, software, client, runs, pruned, budget>>

\* The process dies; what is not committed is gone.
Crash ==
  /\ proc # "down"
  /\ \/ Fault("crash") /\ UNCHANGED software
     \/ status # "ready" /\ UNCHANGED <<budget, software>>
     \/ Fault("upgrade") /\ software = 1 /\ software' = 2
  /\ proc' = "down"
  /\ StoreReset
  /\ UNCHANGED <<status, db, backup, client, runs, pruned>>

\* Backup: VACUUM INTO under the write slot, sealed by its manifest.  When a
\* step of it fails, or its 30 seconds are over, the store takes no more writes.
Backup(w) ==
  /\ writer[w] = "holding"
  /\ Release(w)
  /\ \/ Writable /\ backup' = db /\ UNCHANGED <<status, budget>>
     \/ ~Writable /\ UNCHANGED <<backup, status, budget>>
     \/ Writable /\ Fault("disk") /\ status' = "degraded" /\ UNCHANGED backup
  /\ UNCHANGED <<db, proc, software, client, runs, pruned>>

\* PrepareRestore: requests get a new epoch before the next start.
Prepared(d) == [d EXCEPT !.epoch = db.epoch + 1, !.high = clock]

\* The operator stops ovs-mgrd and installs a verified backup (VerifyBackup).
Restore ==
  /\ backup # None
  /\ Fault("restore")
  /\ proc' = "down"
  /\ StoreReset
  /\ db' = Prepared(backup)
  /\ UNCHANGED <<status, backup, software, client, runs, pruned>>

Tick ==
  /\ Quiet
  /\ clock < MaxTime
  /\ clock' = clock + 1
  /\ UNCHANGED <<store, db, backup, proc, software, born, regressed, runs, pruned, budget>>

\* Somebody sets the clock back.
SetBack ==
  \E c \in Time :
    /\ Quiet
    /\ c < clock
    /\ Fault("back")
    /\ clock' = c
    /\ regressed' = (regressed \/ c < pruned)
    /\ UNCHANGED <<store, db, backup, proc, software, born, runs, pruned>>

Next ==
  \/ \E w \in Writer : Enter(w)
  \/ \E k \in Key : \E w \in Lane(k), dig \in Payload(k) : Request(w, k, dig)
  \/ \E w \in Recovery, j \in Key, s \in {"needs-attention", "ended"} : Settle(w, j, s)
  \/ \E w \in Ordinary : MaintainEvidence(w) \/ ImportLegacy(w) \/ Recover(w)
  \/ \E w \in Backups : Backup(w)
  \/ Start \/ Crash \/ Restore \/ Tick \/ SetBack

Spec == LedgerInit /\ [][Next]_vars

-----------------------------------------------------------------------------

TypeOK ==
  /\ StoreTypeOK /\ OneWriter
  /\ db \in Database
  /\ backup \in Database \cup {None}
  /\ proc \in {"down", "import", "recover", "serving"}
  /\ software \in {1, 2} /\ budget \in 0..MaxEvents
  /\ clock \in Time /\ pruned \in Time /\ regressed \in BOOLEAN
  /\ born \in [Key -> Stamp \cup {None}]
  /\ runs \in [Key -> Nat]

\* A command takes effect at most once, whatever the client repeats after a
\* lost answer, a COMMIT of unknown outcome, a crash, the prune of its receipt
\* or the restore of a backup that never had it; unless the clock was set back
\* behind a prune (Execute, Prune, PrepareRestore).
AtMostOnce == regressed \/ \A k \in Key : runs[k] <= 1

\* A receipt is open exactly as long as the job it refers to is unsettled, so
\* a client that polls its receipt learns the end of the job and the receipt
\* can be pruned some day (ChangeJob, completeReceipts).
ReceiptTracksJob ==
  \A k \in Key : Open(db, k) <=> db.receipts[k] # None /\ Unsettled(db, JobOf(k))

\* What is kept can be followed back: a record leads to its job, a job to the
\* receipt that created it, and an unsettled job still has the records of its
\* admission, although the three are pruned at different ages.
Traceable ==
  /\ \A r \in db.records : r.job # None => db.jobs[r.job] # None
  /\ \A j \in Key : db.jobs[j] # None => db.receipts[j] # None
  /\ \A j \in Key : Unsettled(db, j) =>
       \A coll \in {"event", "audit"} : \E r \in db.records :
         r.coll = coll /\ r.req = j /\ r.note = "admitted"
=============================================================================
