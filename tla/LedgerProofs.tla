---------------------------- MODULE LedgerProofs ----------------------------
(***************************************************************************)
(* Ledger and Store, for every set of goroutines, keys and legacy rows,    *)
(* every capacity and every retention that is longer than a key is valid:  *)
(* types and the write slot, the precedence of recovery writers, what      *)
(* receipts, jobs and records say of each other, and that a command takes  *)
(* effect at most once.                                                    *)
(***************************************************************************)
EXTENDS Ledger, TLAPS

\* While an ordinary writer has the slot no recovery writer has been overtaken
\* yet, not by a backup either: the one transaction it may wait for is still to
\* end.
Precedence ==
  /\ \A r \in Recovery : r \notin Counted => overtaken[r] = Nobody
  /\ \A r \in Recovery : r \in Counted => overtaken[r].writes <= 1
  /\ \A r \in Recovery, w \in Ordinary :
       r \in Counted /\ writer[w] = "holding" => overtaken[r] = Nobody

\* What a database says of itself.  A job has its receipt; a receipt that is
\* not of a plain command has its job.
Paired(d) ==
  /\ \A j \in Key : d.jobs[j] # None => d.receipts[j] # None /\ ~ControlOperation(j)
  /\ \A k \in Key : d.receipts[k] # None /\ Kind[k] # "command" => d.jobs[JobOf(k)] # None

\* A receipt is open as long as its job, that of a plain command never.
Tracked(d) ==
  /\ \A k \in Key : Open(d, k) <=> d.receipts[k] # None /\ Unsettled(d, JobOf(k))
  /\ \A k \in Key : d.receipts[k] # None /\ Kind[k] = "command" =>
       d.receipts[k].completed = d.receipts[k].created

\* A record leads to a job, and an unsettled job has the records of its own
\* admission.
Recorded(d) ==
  /\ \A r \in d.records : r.job # None => d.jobs[r.job] # None
  /\ \A j \in Key : Unsettled(d, j) =>
       \A coll \in {"event", "audit"} : \E r \in d.records :
         r.coll = coll /\ r.req = j /\ r.job = j /\ r.note = "admitted"

Sound(d) == Paired(d) /\ Tracked(d) /\ Recorded(d)

Consistent == Sound(db) /\ (backup # None => Sound(backup))

\* Why a command that took effect is not accepted again: its key is of an
\* older epoch, or its receipt is there, or its receipt was pruned when the
\* key had already expired.
Spent(k) ==
  /\ born[k] # None
  /\ \/ born[k].epoch < db.epoch
     \/ db.receipts[k] # None /\ born[k].at <= db.receipts[k].created + Skew
     \/ born[k].at + Expiry < pruned

Accounted ==
  /\ \A k \in Key : born[k] # None => born[k].epoch <= db.epoch
  /\ backup # None => backup.epoch <= db.epoch
  /\ regressed \/ /\ pruned <= clock
                  /\ \A k \in Key : runs[k] <= 1 /\ (runs[k] = 1 => Spent(k))

-----------------------------------------------------------------------------
(* The write slot.                                                         *)

StoreOK == StoreTypeOK /\ OneWriter /\ Precedence

LEMMA NobodyPassed == Nobody \in Passed /\ Nobody.writes = 0
BY DEF Nobody, Passed

\* The start of the process finds nobody at the slot.
LEMMA StoreStarts ==
  ASSUME StoreInit
  PROVE  StoreOK
BY StoreAssumption, NobodyPassed DEF StoreInit, StoreOK, StoreTypeOK, OneWriter, Precedence, Counted, Writer, Step

\* Every way through acquireWrite keeps one writer at the slot, and an ordinary
\* writer gets to its transaction only when no recovery writer is counted.
LEMMA AdmissionKeeps ==
  ASSUME StoreOK, NEW w \in Writer, Admission(w)
  PROVE  StoreOK'
<1> USE StoreAssumption, NobodyPassed
<1>1. CASE Arrive(w)
  BY <1>1 DEF Arrive, At, StoreOK, StoreTypeOK, OneWriter, Precedence, Counted, Writer, Step
<1>2. CASE Takes(w) /\ Count(w) /\ UNCHANGED <<status, copies>> /\ writer[w] \in {"arrived", "waiting"}
  <2>1. StoreTypeOK'
    BY <1>2 DEF Takes, At, Count, StoreOK, StoreTypeOK, Writer, Step
  <2>2. OneWriter'
    BY <1>2 DEF Takes, At, StoreOK, StoreTypeOK, OneWriter, Writer, Step
  <2>3. Precedence'
    BY <1>2 DEF Takes, At, Count, StoreOK, StoreTypeOK, OneWriter, Precedence, Counted, Writer, Step
  <2> QED
    BY <2>1, <2>2, <2>3 DEF StoreOK
<1>3. ASSUME NEW s \in {"waiting", "idle"}, At(w, s), writer[w] \in {"arrived", "waiting"},
             UNCHANGED <<slot, status, copies>>, Count(w)
      PROVE  StoreOK'
  <2>1. StoreTypeOK'
    BY <1>3 DEF At, Count, StoreOK, StoreTypeOK, Writer, Step
  <2>2. OneWriter'
    BY <1>3 DEF At, StoreOK, StoreTypeOK, OneWriter, Writer, Step
  <2>3. Precedence'
    BY <1>3 DEF At, Count, StoreOK, StoreTypeOK, OneWriter, Precedence, Counted, Writer, Step
  <2> QED
    BY <2>1, <2>2, <2>3 DEF StoreOK
<1>4. CASE Acquire(w)
  BY <1>2, <1>3, <1>4 DEF Acquire
<1>5. CASE Wake(w)
  BY <1>2, <1>3, <1>5 DEF Wake
<1>6. CASE Recheck(w)
  BY <1>6 DEF Recheck, At, StoreOK, StoreTypeOK, OneWriter, Precedence, Counted, Writer, Step
<1> QED
  BY <1>1, <1>4, <1>5, <1>6 DEF Admission

\* What a release adds to the count of a recovery writer.
LEMMA PassesType ==
  ASSUME NEW w \in Writer, NEW by \in Passed
  PROVE  /\ Passes(w, by) \in Passed
         /\ w \in Ordinary => Passes(w, by).writes = by.writes + 1
         /\ w \notin Ordinary => Passes(w, by).writes = by.writes
BY DEF Passes, Passed

\* The end of a transaction or a backup is the one moment that overtakes, and
\* the recovery writers a transaction overtakes had not been overtaken before.
LEMMA ReleaseKeeps ==
  ASSUME StoreOK, NEW w \in Writer, writer[w] = "holding", Release(w),
         status' \in {"ready", "degraded"}
  PROVE  StoreOK'
<1> USE StoreAssumption
<1>1. \A r \in Recovery :
        overtaken'[r] = IF r \in Counted THEN Passes(w, overtaken[r]) ELSE overtaken[r]
  BY DEF Release
<1>2. overtaken \in [Recovery -> Passed] /\ copies \in Nat
  BY DEF StoreOK, StoreTypeOK
<1>3. overtaken' \in [Recovery -> Passed]
  <2>1. \A r \in Recovery : Passes(w, overtaken[r]) \in Passed
    BY <1>2, PassesType
  <2> QED
    BY <1>2, <2>1 DEF Release
<1>4. StoreTypeOK'
  BY <1>2, <1>3 DEF Release, At, StoreOK, StoreTypeOK, Writer, Step
<1>5. OneWriter'
  BY DEF Release, At, StoreOK, StoreTypeOK, OneWriter, Writer, Step
<1>6. \A r \in Recovery : r \in Counted' <=> r \in Counted
  BY DEF Release, At, Counted, StoreOK, StoreTypeOK, Writer
<1>7. \A v \in Ordinary : writer'[v] # "holding"
  BY <1>5 DEF Release, OneWriter, Writer
<1>8. \A r \in Recovery : r \in Counted => overtaken'[r].writes <= 1
  <2> SUFFICES ASSUME NEW r \in Recovery, r \in Counted
               PROVE  overtaken'[r].writes <= 1
    OBVIOUS
  <2>1. overtaken'[r] = Passes(w, overtaken[r]) /\ overtaken[r] \in Passed
    BY <1>1, <1>2
  <2>2. CASE w \in Ordinary
    <3>1. overtaken[r] = Nobody
      BY <2>2 DEF StoreOK, Precedence
    <3>2. overtaken'[r].writes = overtaken[r].writes + 1
      BY <2>1, <2>2, PassesType
    <3> QED
      BY <3>1, <3>2, NobodyPassed
  <2>3. CASE w \notin Ordinary
    <3>1. overtaken[r].writes <= 1
      BY DEF StoreOK, Precedence
    <3>2. overtaken'[r].writes = overtaken[r].writes
      BY <2>1, <2>3, PassesType
    <3> QED
      BY <3>1, <3>2
  <2> QED
    BY <2>2, <2>3
<1>9. Precedence'
  BY <1>1, <1>6, <1>7, <1>8 DEF StoreOK, Precedence
<1> QED
  BY <1>4, <1>5, <1>9 DEF StoreOK

\* A process that stops leaves nobody at the slot.
LEMMA ResetKeeps ==
  ASSUME StoreOK, StoreReset, UNCHANGED status
  PROVE  StoreOK'
BY StoreAssumption, NobodyPassed
DEF StoreReset, StoreOK, StoreTypeOK, OneWriter, Precedence, Counted, Writer, Step

\* Only the state of the slot matters to these invariants.
LEMMA StoreUnchanged ==
  ASSUME StoreOK, UNCHANGED <<writer, slot, overtaken, copies>>, status' \in {"ready", "degraded"}
  PROVE  StoreOK'
BY DEF StoreOK, StoreTypeOK, OneWriter, Precedence, Counted

-----------------------------------------------------------------------------
(* Transactions on well-typed databases.                                   *)

\* A decision is about a job of a Safe Apply, any other command about its own.
LEMMA JobOfKey ==
  ASSUME NEW k \in Key
  PROVE  /\ JobOf(k) \in Key
         /\ ~ControlOperation(JobOf(k))
         /\ ~ControlOperation(k) => JobOf(k) = k
         /\ ControlOperation(k) => Kind[JobOf(k)] = "execute"
BY LedgerAssumption DEF JobOf, ControlOperation

\* The records of a command.
LEMMA NoteType ==
  ASSUME NEW k \in Key, clock \in Time, NEW coll \in {"event", "audit"},
         NEW note \in {"admitted", "changed", "settled"}
  PROVE  /\ Note(k, coll, note) \in Record
         /\ Note(k, coll, note).job = JobOf(k)
         /\ Note(k, coll, note).req = k
         /\ Note(k, coll, note).coll = coll
         /\ Note(k, coll, note).note = note
BY JobOfKey DEF Note, Record

\* Noted adds records and changes nothing else.
LEMMA NotedFields ==
  ASSUME NEW d \in Database, NEW k \in Key, clock \in Time,
         NEW note \in {"admitted", "changed", "settled"}
  PROVE  /\ Noted(d, k, note) \in Database
         /\ Noted(d, k, note).jobs = d.jobs
         /\ Noted(d, k, note).receipts = d.receipts
         /\ Noted(d, k, note).epoch = d.epoch
         /\ Noted(d, k, note).records =
              d.records \cup {Note(k, "event", note), Note(k, "audit", note)}
<1>1. {Note(k, "event", note), Note(k, "audit", note)} \subseteq Record
  BY NoteType
<1> QED
  BY <1>1 DEF Noted, Database

\* Completing receipts touches the open ones of one job.
LEMMA CompleteReceiptsType ==
  ASSUME NEW d \in Database, NEW j \in Key, clock \in Time
  PROVE  CompleteReceipts(d, j) \in [Key -> ReceiptRow \cup {None}]
BY NoneAssumption DEF CompleteReceipts, Database, ReceiptRow, Open

\* What ChangeJob writes, while the job goes on and when it ends.
ChangedRow(d, j, state) == [state |-> state, completed |-> d.jobs[j].completed]
ChangeNotes(j) == {Note(j, "event", "changed"), Note(j, "audit", "changed")}

LEMMA ChangedFields ==
  ASSUME NEW d \in Database, NEW j \in Key, clock \in Time, Unsettled(d, j),
         NEW state \in {"running", "needs-attention"}
  PROVE  /\ ChangeJob(d, j, state) \in Database
         /\ ChangeJob(d, j, state).epoch = d.epoch
         /\ ChangedRow(d, j, state) \in JobRow /\ ChangedRow(d, j, state).state = state
         /\ ChangeJob(d, j, state).jobs = [d.jobs EXCEPT ![j] = ChangedRow(d, j, state)]
         /\ ChangeJob(d, j, state).receipts = d.receipts
         /\ ChangeJob(d, j, state).records = d.records \cup ChangeNotes(j)
<1>1. d.jobs[j] \in JobRow
  BY DEF Unsettled, Database
<1>2. [d.jobs[j] EXCEPT !.state = state] = ChangedRow(d, j, state)
  BY <1>1 DEF JobRow, ChangedRow
<1> DEFINE row == ChangedRow(d, j, state)
<1>3. row \in JobRow /\ row.state = state
  BY <1>1 DEF JobRow, ChangedRow
<1> DEFINE n == Noted(d, j, "changed")
<1>4. n \in Database /\ n.jobs = d.jobs /\ n.epoch = d.epoch /\ n.receipts = d.receipts
  BY NotedFields
<1>5. n.records = d.records \cup ChangeNotes(j)
  BY NotedFields DEF ChangeNotes
<1>6. ChangeJob(d, j, state) = [n EXCEPT !.jobs = [n.jobs EXCEPT ![j] = [n.jobs[j] EXCEPT !.state = state]]]
  BY DEF ChangeJob
<1>7. ChangeJob(d, j, state) = [n EXCEPT !.jobs = [d.jobs EXCEPT ![j] = row]]
  BY <1>2, <1>4, <1>6
<1> HIDE DEF row, n
<1>8. /\ ChangeJob(d, j, state) \in Database
      /\ ChangeJob(d, j, state).jobs = [d.jobs EXCEPT ![j] = row]
  BY <1>3, <1>4, <1>7 DEF Database
<1>9. /\ ChangeJob(d, j, state).epoch = n.epoch
      /\ ChangeJob(d, j, state).receipts = n.receipts
      /\ ChangeJob(d, j, state).records = n.records
  BY <1>4, <1>7 DEF Database
<1> QED
  BY <1>3, <1>4, <1>5, <1>8, <1>9 DEF row

\* The part of it that soundness needs.
LEMMA ChangedEvidence ==
  ASSUME NEW d \in Database, NEW j \in Key, clock \in Time, Unsettled(d, j),
         NEW state \in {"running", "needs-attention"}
  PROVE  /\ ChangeJob(d, j, state).receipts = d.receipts
         /\ ChangeJob(d, j, state).records = d.records \cup ChangeNotes(j)
<1>1. /\ ChangeJob(d, j, state) \in Database
      /\ ChangeJob(d, j, state).epoch = d.epoch
      /\ ChangedRow(d, j, state) \in JobRow /\ ChangedRow(d, j, state).state = state
      /\ ChangeJob(d, j, state).jobs = [d.jobs EXCEPT ![j] = ChangedRow(d, j, state)]
      /\ ChangeJob(d, j, state).receipts = d.receipts
      /\ ChangeJob(d, j, state).records = d.records \cup ChangeNotes(j)
  BY ChangedFields, Zenon
<1> QED
  BY <1>1

LEMMA SettledFields ==
  ASSUME NEW d \in Database, NEW j \in Key, clock \in Time, Unsettled(d, j)
  PROVE  /\ ChangeJob(d, j, "ended") \in Database
         /\ ChangeJob(d, j, "ended").epoch = d.epoch
         /\ ChangeJob(d, j, "ended").jobs =
              [d.jobs EXCEPT ![j] = [state |-> "ended", completed |-> clock]]
         /\ ChangeJob(d, j, "ended").receipts = CompleteReceipts(d, j)
         /\ ChangeJob(d, j, "ended").records =
              d.records \cup {Note(j, "event", "settled"), Note(j, "audit", "settled")}
<1> DEFINE n == Noted(d, j, "settled")
           row == [state |-> "ended", completed |-> clock]
<1>1. row \in JobRow
  BY DEF JobRow
<1>2. n \in Database /\ n.jobs = d.jobs /\ n.epoch = d.epoch
  BY NotedFields
<1>3. n.records = d.records \cup {Note(j, "event", "settled"), Note(j, "audit", "settled")}
  BY NotedFields
<1>4. ChangeJob(d, j, "ended") = [n EXCEPT !.jobs[j] = row, !.receipts = CompleteReceipts(d, j)]
  BY DEF ChangeJob
<1> HIDE DEF n, row
<1>5. ChangeJob(d, j, "ended").jobs = [d.jobs EXCEPT ![j] = row]
  BY <1>2, <1>4 DEF Database
<1>6. ChangeJob(d, j, "ended") \in Database
  <2> DEFINE js == [n.jobs EXCEPT ![j] = row]
             rs == CompleteReceipts(d, j)
  <2>1. js \in [Key -> JobRow \cup {None}]
    BY <1>1, <1>2 DEF Database
  <2>2. rs \in [Key -> ReceiptRow \cup {None}]
    BY CompleteReceiptsType
  <2>3. ChangeJob(d, j, "ended") = [n EXCEPT !.jobs = js, !.receipts = rs]
    BY <1>4
  <2> HIDE DEF js, rs
  <2> QED
    BY <1>2, <2>1, <2>2, <2>3 DEF Database
<1>7. /\ ChangeJob(d, j, "ended").receipts = CompleteReceipts(d, j)
      /\ ChangeJob(d, j, "ended").records = n.records
      /\ ChangeJob(d, j, "ended").epoch = n.epoch
  BY <1>2, <1>4 DEF Database
<1> QED
  BY <1>2, <1>3, <1>5, <1>6, <1>7 DEF row

LEMMA ChangeJobType ==
  ASSUME NEW d \in Database, NEW j \in Key, clock \in Time, Unsettled(d, j),
         NEW state \in {"running", "needs-attention", "ended"}
  PROVE  ChangeJob(d, j, state) \in Database /\ ChangeJob(d, j, state).epoch = d.epoch
<1>1. CASE state = "ended"
  BY <1>1, SettledFields
<1>2. CASE state \in {"running", "needs-attention"}
  BY <1>2, ChangedFields
<1> QED
  BY <1>1, <1>2

\* The row Execute writes.
LEMMA ReceiptType ==
  ASSUME NEW k \in Key, NEW dig \in Payload(k), clock \in Time
  PROVE  /\ Receipt(k, dig) \in ReceiptRow /\ Receipt(k, dig) # None
         /\ Receipt(k, dig).created = clock
         /\ Receipt(k, dig).completed =
              (IF Kind[k] = "command" \/ dig = "confirm" THEN clock ELSE None)
<1>1. dig \in Digest
  BY DEF Payload, Digest
<1>2. Receipt(k, dig) \in ReceiptRow
  BY <1>1 DEF Receipt, ReceiptRow
<1> QED
  BY <1>2, NoneAssumption DEF Receipt

\* The job a new command creates.
NewJob(k) ==
  [state |-> IF Kind[k] = "command" THEN "ended" ELSE "running",
   completed |-> IF Kind[k] = "command" THEN clock ELSE None]

\* The effect of a new command on jobs: its own job is created, ended at once
\* for a plain command.
LEMMA CreateFields ==
  ASSUME NEW d \in Database, NEW k \in Key, clock \in Time, NEW dig \in Payload(k),
         ~ControlOperation(k)
  PROVE  /\ Mutation(d, k, dig) \in Database
         /\ Mutation(d, k, dig).epoch = d.epoch
         /\ Mutation(d, k, dig).receipts = d.receipts
         /\ Mutation(d, k, dig).records =
              d.records \cup {Note(k, "event", "admitted"), Note(k, "audit", "admitted")}
         /\ Mutation(d, k, dig).jobs = [d.jobs EXCEPT ![k] = NewJob(k)]
<1> DEFINE n == Noted(d, k, "admitted")
           row == NewJob(k)
<1>1. row \in JobRow
  BY DEF JobRow, NewJob
<1>2. n \in Database /\ n.jobs = d.jobs /\ n.receipts = d.receipts /\ n.epoch = d.epoch
  BY NotedFields
<1>3. n.records = d.records \cup {Note(k, "event", "admitted"), Note(k, "audit", "admitted")}
  BY NotedFields
<1>4. Kind[k] \in {"command", "execute"} /\ dig = "plain"
  BY LedgerAssumption DEF ControlOperation, Payload
<1>5. CASE Kind[k] = "command"
  <2>0. row = [state |-> "ended", completed |-> clock]
    BY <1>5 DEF NewJob
  <2>1. Mutation(d, k, dig) = [n EXCEPT !.jobs[k] = row]
    BY <1>4, <1>5, <2>0 DEF Mutation
  <2> HIDE DEF n, row
  <2> QED
    BY <1>1, <1>2, <1>3, <2>1 DEF Database, row
<1>6. CASE Kind[k] = "execute"
  <2>0. row = [state |-> "running", completed |-> None]
    BY <1>6 DEF NewJob
  <2>1. Mutation(d, k, dig) = [n EXCEPT !.jobs[k] = row]
    BY <1>4, <1>6, <2>0 DEF Mutation
  <2> HIDE DEF n, row
  <2> QED
    BY <1>1, <1>2, <1>3, <2>1 DEF Database, row
<1> QED
  BY <1>4, <1>5, <1>6

\* The effect of a decision: a confirmation settles the job of its Safe Apply.
LEMMA DecideFields ==
  ASSUME NEW d \in Database, NEW k \in Key, clock \in Time, NEW dig \in Payload(k),
         ControlOperation(k), Unsettled(d, JobOf(k))
  PROVE  \E state \in {"running", "needs-attention", "ended"} :
           LET n == ChangeJob(d, JobOf(k), state) IN
           /\ state = "ended" <=> dig = "confirm"
           /\ Mutation(d, k, dig) \in Database
           /\ Mutation(d, k, dig).epoch = d.epoch
           /\ Mutation(d, k, dig).jobs = n.jobs
           /\ Mutation(d, k, dig).receipts = n.receipts
           /\ Mutation(d, k, dig).records = n.records \cup {Note(k, "audit", "admitted")}
<1> DEFINE note == Note(k, "audit", "admitted")
<1>1. note \in Record
  BY NoteType
<1>2. Kind[k] = "decide" /\ dig \in {"confirm", "rollback"}
  BY DEF ControlOperation, Payload
<1>3. JobOf(k) \in Key
  BY JobOfKey
<1>4. d.jobs[JobOf(k)].state \in {"running", "needs-attention"}
  BY <1>3 DEF Unsettled, Database, JobRow
<1>5. PICK state \in {"running", "needs-attention", "ended"} :
        /\ state = "ended" <=> dig = "confirm"
        /\ Mutation(d, k, dig) =
             [ChangeJob(d, JobOf(k), state) EXCEPT !.records = @ \cup {note}]
  <2>1. CASE dig = "confirm"
    <3> WITNESS "ended" \in {"running", "needs-attention", "ended"}
    <3> QED
      BY <1>2, <2>1 DEF Mutation
  <2>2. CASE dig = "rollback"
    <3>1. d.jobs[JobOf(k)].state \in {"running", "needs-attention", "ended"}
      BY <1>4
    <3> WITNESS d.jobs[JobOf(k)].state \in {"running", "needs-attention", "ended"}
    <3> QED
      BY <1>2, <1>4, <2>2 DEF Mutation
  <2> QED
    BY <1>2, <2>1, <2>2
<1> DEFINE n == ChangeJob(d, JobOf(k), state)
<1>6. n \in Database /\ n.epoch = d.epoch
  BY <1>3, ChangeJobType
<1>7. Mutation(d, k, dig) = [n EXCEPT !.records = @ \cup {note}]
  BY <1>5
<1> HIDE DEF n, note
<1>8. /\ Mutation(d, k, dig) \in Database
      /\ Mutation(d, k, dig).epoch = n.epoch
      /\ Mutation(d, k, dig).jobs = n.jobs
      /\ Mutation(d, k, dig).receipts = n.receipts
      /\ Mutation(d, k, dig).records = n.records \cup {note}
  BY <1>1, <1>6, <1>7 DEF Database
<1> QED
  BY <1>5, <1>6, <1>8 DEF n, note

\* A transaction that executes a command adds its receipt to what it did.
LEMMA ExecuteFields ==
  ASSUME NEW d \in Database, NEW k \in Key, clock \in Time, NEW key,
         NEW dig \in Payload(k), Executes(d, k, key)
  PROVE  /\ Mutation(d, k, dig) \in Database
         /\ Execute(d, k, key, dig) \in Database
         /\ Execute(d, k, key, dig).epoch = d.epoch
         /\ Execute(d, k, key, dig).jobs = Mutation(d, k, dig).jobs
         /\ Execute(d, k, key, dig).records = Mutation(d, k, dig).records
         /\ Execute(d, k, key, dig).receipts =
              [Mutation(d, k, dig).receipts EXCEPT ![k] = Receipt(k, dig)]
<1> DEFINE m == Mutation(d, k, dig)
           row == Receipt(k, dig)
<1>1. m \in Database /\ m.epoch = d.epoch
  <2>1. CASE ControlOperation(k)
    <3>1. Unsettled(d, JobOf(k))
      BY <2>1 DEF Executes, MutationFits, ChangeJobFits
    <3> QED
      BY <2>1, <3>1, DecideFields
  <2>2. CASE ~ControlOperation(k)
    BY <2>2, CreateFields
  <2> QED
    BY <2>1, <2>2
<1>2. row \in ReceiptRow
  BY ReceiptType
<1>3. Largest(m.high, clock) \in Time
  BY <1>1 DEF Largest, Database
<1>4. Execute(d, k, key, dig) =
        [m EXCEPT !.receipts[k] = row, !.high = Largest(@, clock)]
  BY DEF Execute
<1> HIDE DEF m, row
<1>5. Execute(d, k, key, dig) \in Database
  <2> DEFINE rs == [m.receipts EXCEPT ![k] = row]
             high == Largest(m.high, clock)
  <2>1. rs \in [Key -> ReceiptRow \cup {None}] /\ high \in Time
    BY <1>1, <1>2, <1>3 DEF Database
  <2>2. Execute(d, k, key, dig) = [m EXCEPT !.receipts = rs, !.high = high]
    BY <1>4
  <2> HIDE DEF rs, high
  <2> QED
    BY <1>1, <2>1, <2>2 DEF Database
<1>6. /\ Execute(d, k, key, dig).epoch = m.epoch
      /\ Execute(d, k, key, dig).jobs = m.jobs
      /\ Execute(d, k, key, dig).records = m.records
      /\ Execute(d, k, key, dig).receipts = [m.receipts EXCEPT ![k] = row]
  BY <1>1, <1>4 DEF Database
<1> QED
  BY <1>1, <1>5, <1>6 DEF m, row

\* What the two prunes write.
LEMMA PruneFields ==
  ASSUME NEW d \in Database, clock \in Time
  PROVE  /\ PruneEvidence(d) \in Database
         /\ PruneEvidence(d).epoch = d.epoch
         /\ PruneEvidence(d).receipts = d.receipts
         /\ PruneReceipts(d) \in Database
         /\ PruneReceipts(d).epoch = d.epoch
         /\ PruneReceipts(d).jobs = d.jobs
         /\ PruneReceipts(d).records = d.records
         /\ PruneReceipts(d).receipts =
              [k \in Key |-> IF ReceiptPrunable(d, k) THEN None ELSE d.receipts[k]]
<1> DEFINE kept == {r \in d.records : ~Prunable(d, r)}
           js == [j \in Key |-> IF JobPrunable(d, kept, j) THEN None ELSE d.jobs[j]]
           rs == [k \in Key |-> IF ReceiptPrunable(d, k) THEN None ELSE d.receipts[k]]
<1>1. kept \subseteq Record /\ js \in [Key -> JobRow \cup {None}]
  BY DEF Database
<1>2. rs \in [Key -> ReceiptRow \cup {None}]
  BY DEF Database
<1>3. \/ PruneEvidence(d) = d
      \/ PruneEvidence(d) = [d EXCEPT !.ehigh = clock, !.records = kept, !.jobs = js]
  BY DEF PruneEvidence
<1>4. PruneReceipts(d) = [d EXCEPT !.receipts = rs]
  BY DEF PruneReceipts
<1> HIDE DEF kept, js, rs
<1>5. /\ PruneEvidence(d) \in Database
      /\ PruneEvidence(d).epoch = d.epoch
      /\ PruneEvidence(d).receipts = d.receipts
  BY <1>1, <1>3 DEF Database
<1>6. /\ PruneReceipts(d) \in Database
      /\ PruneReceipts(d).epoch = d.epoch
      /\ PruneReceipts(d).jobs = d.jobs
      /\ PruneReceipts(d).records = d.records
      /\ PruneReceipts(d).receipts = rs
  BY <1>2, <1>4 DEF Database
<1> QED
  BY <1>5, <1>6 DEF rs

\* evidence.Prune has nothing to do, or removes records and then the settled
\* jobs of plain commands that no kept record names.
LEMMA PruneEvidenceFields ==
  ASSUME NEW d \in Database, clock \in Time
  PROVE  \/ PruneEvidence(d) = d
         \/ LET kept == {r \in d.records : ~Prunable(d, r)} IN
            /\ PruneEvidence(d).records = kept
            /\ PruneEvidence(d).jobs =
                 [j \in Key |-> IF JobPrunable(d, kept, j) THEN None ELSE d.jobs[j]]
<1> DEFINE kept == {r \in d.records : ~Prunable(d, r)}
           js == [j \in Key |-> IF JobPrunable(d, kept, j) THEN None ELSE d.jobs[j]]
<1>1. \/ PruneEvidence(d) = d
      \/ PruneEvidence(d) = [d EXCEPT !.ehigh = clock, !.records = kept, !.jobs = js]
  BY DEF PruneEvidence
<1>2. kept \subseteq Record /\ js \in [Key -> JobRow \cup {None}]
  BY DEF Database
<1> HIDE DEF kept, js
<1>3. \/ PruneEvidence(d) = d
      \/ PruneEvidence(d).records = kept /\ PruneEvidence(d).jobs = js
  <2>1. CASE PruneEvidence(d) = d
    BY <2>1
  <2>2. CASE PruneEvidence(d) = [d EXCEPT !.ehigh = clock, !.records = kept, !.jobs = js]
    BY <1>2, <2>2 DEF Database
  <2> QED
    BY <1>1, <2>1, <2>2
<1> QED
  BY <1>3 DEF kept, js

-----------------------------------------------------------------------------
(* Transactions keep receipts, jobs and records together.                  *)

\* A database in which nothing was accepted yet.
LEMMA FreshSound == Fresh \in Database /\ Sound(Fresh)
<1>1. Fresh \in Database
  BY LedgerAssumption DEF Fresh, Database, Time
<1> QED
  BY <1>1 DEF Fresh, Sound, Paired, Tracked, Recorded, Open, Unsettled

\* Soundness is a matter of receipts, jobs and records alone.
LEMMA SameSound ==
  ASSUME NEW d, NEW e, Sound(d), e.receipts = d.receipts, e.jobs = d.jobs,
         e.records = d.records
  PROVE  Sound(e)
BY DEF Sound, Paired, Tracked, Recorded, Open, Unsettled

\* ChangeJob: completing every receipt of the job keeps receipts and jobs in
\* step, also those of the decisions about it.
LEMMA ChangeJobSound ==
  ASSUME NEW d \in Database, NEW j \in Key, clock \in Time, Unsettled(d, j), Sound(d),
         NEW state \in {"running", "needs-attention", "ended"}
  PROVE  Sound(ChangeJob(d, j, state))
<1> DEFINE e == ChangeJob(d, j, state)
<1>1. d.jobs[j] # None /\ d.jobs[j] \in JobRow
  BY DEF Unsettled, Database
<1>2. \A k \in Key : JobOf(k) \in Key
  BY JobOfKey
<1>3. d.jobs \in [Key -> JobRow \cup {None}] /\ d.receipts \in [Key -> ReceiptRow \cup {None}]
  BY DEF Database
<1>4. None \notin JobRow /\ None \notin ReceiptRow /\ clock # None
  BY NoneAssumption, LedgerAssumption DEF Time
<1>5. CASE state # "ended"
  <2> DEFINE row == ChangedRow(d, j, state)
  <2>1. row \in JobRow /\ row.state = state /\ e.jobs = [d.jobs EXCEPT ![j] = row]
    <3>1. state \in {"running", "needs-attention"}
      BY <1>5
    <3> QED
      BY <3>1, ChangedFields
  <2>2. e.receipts = d.receipts /\ e.records = d.records \cup ChangeNotes(j)
    <3>1. state \in {"running", "needs-attention"}
      BY <1>5
    <3> QED
      BY <3>1, ChangedEvidence
  <2> HIDE DEF e, row
  <2>3. \A x \in Key : (e.jobs[x] # None <=> d.jobs[x] # None)
                        /\ (Unsettled(e, x) <=> Unsettled(d, x))
    BY <1>1, <1>3, <1>4, <1>5, <2>1 DEF Unsettled
  <2>4. Paired(e)
    BY <1>2, <2>2, <2>3 DEF Sound, Paired
  <2>5. Tracked(e)
    BY <1>2, <2>2, <2>3 DEF Sound, Tracked, Open
  <2>6. Recorded(e)
    <3>1. \A r \in ChangeNotes(j) : r.job = j
      BY NoteType, JobOfKey DEF Sound, Paired, Unsettled, ChangeNotes
    <3>2. \A r \in d.records : r.job # None => r.job \in Key
      BY DEF Database, Record
    <3>3. \A r \in e.records : r.job # None => e.jobs[r.job] # None
      BY <1>1, <2>2, <2>3, <3>1, <3>2 DEF Sound, Recorded
    <3> QED
      BY <2>2, <2>3, <3>3 DEF Sound, Recorded
  <2> QED
    BY <2>4, <2>5, <2>6 DEF Sound, e
<1>6. CASE state = "ended"
  <2> DEFINE row == [state |-> "ended", completed |-> clock]
             settled == {Note(j, "event", "settled"), Note(j, "audit", "settled")}
  <2>1. row # None /\ row.state = "ended"
    <3>1. row \in JobRow
      BY DEF JobRow
    <3> QED
      BY <1>4, <3>1
  <2>2. /\ e.jobs = [d.jobs EXCEPT ![j] = row]
        /\ e.receipts = CompleteReceipts(d, j)
        /\ e.records = d.records \cup settled
    BY <1>6, SettledFields
  <2> HIDE DEF e, row
  <2>3. \A x \in Key : (e.jobs[x] # None <=> d.jobs[x] # None)
                        /\ (Unsettled(e, x) <=> Unsettled(d, x) /\ x # j)
    BY <1>1, <1>3, <2>1, <2>2 DEF Unsettled
  <2>4. ASSUME NEW k \in Key
        PROVE  /\ e.receipts[k] # None <=> d.receipts[k] # None
               /\ Open(e, k) <=> Open(d, k) /\ JobOf(k) # j
               /\ ~Open(d, k) => e.receipts[k] = d.receipts[k]
    <3>1. d.receipts[k] # None =>
            LET row2 == [d.receipts[k] EXCEPT !.completed = clock] IN
            row2 \in ReceiptRow /\ row2.completed = clock
      BY <1>3 DEF ReceiptRow
    <3>2. e.receipts[k] = IF Open(d, k) /\ JobOf(k) = j
                          THEN [d.receipts[k] EXCEPT !.completed = clock] ELSE d.receipts[k]
      BY <2>2 DEF CompleteReceipts
    <3> QED
      BY <1>3, <1>4, <3>1, <3>2 DEF Open
  <2>5. Paired(e)
    BY <1>2, <2>3, <2>4 DEF Sound, Paired
  <2>6. Tracked(e)
    <3>1. \A k \in Key : Open(e, k) <=> e.receipts[k] # None /\ Unsettled(e, JobOf(k))
      BY <1>2, <2>3, <2>4 DEF Sound, Tracked
    <3>2. \A k \in Key : d.receipts[k] # None /\ Kind[k] = "command" => ~Open(d, k)
      <4>1. \A k \in Key : d.receipts[k] # None => d.receipts[k].created # None
        BY <1>3, LedgerAssumption DEF ReceiptRow, Time
      <4> QED
        BY <4>1 DEF Sound, Tracked, Open
    <3> QED
      BY <2>4, <3>1, <3>2 DEF Sound, Tracked
  <2>7. Recorded(e)
    <3>1. \A r \in settled : r.job = j
      BY NoteType, JobOfKey DEF Sound, Paired, Unsettled
    <3>2. \A r \in d.records : r.job # None => r.job \in Key
      BY DEF Database, Record
    <3> HIDE DEF settled
    <3>3. \A r \in e.records : r.job # None => e.jobs[r.job] # None
      BY <1>1, <2>2, <2>3, <3>1, <3>2 DEF Sound, Recorded
    <3> QED
      BY <2>2, <2>3, <3>3 DEF Sound, Recorded
  <2> QED
    BY <2>5, <2>6, <2>7 DEF Sound, e
<1> QED
  BY <1>5, <1>6

\* The receipt of a decision is open exactly when the job it is about is not
\* settled by it.
LEMMA DecisionSound ==
  ASSUME NEW n \in Database, NEW e, NEW k \in Key, NEW row \in ReceiptRow, NEW note,
         Sound(n), ControlOperation(k), n.jobs[JobOf(k)] # None,
         row.completed = None <=> Unsettled(n, JobOf(k)),
         note.job = JobOf(k),
         e.jobs = n.jobs, e.receipts = [n.receipts EXCEPT ![k] = row],
         e.records = n.records \cup {note}
  PROVE  Sound(e)
<1>1. n.jobs \in [Key -> JobRow \cup {None}] /\ n.receipts \in [Key -> ReceiptRow \cup {None}]
  BY DEF Database
<1>2. row # None
  BY NoneAssumption
<1>3. \A x \in Key : JobOf(x) \in Key
  BY JobOfKey
<1>4. \A x \in Key : x # k => e.receipts[x] = n.receipts[x]
  BY <1>1
<1>5. e.receipts[k] = row
  BY <1>1
<1>6. \A x \in Key : Unsettled(e, x) <=> Unsettled(n, x)
  BY DEF Unsettled
<1>7. Paired(e)
  BY <1>2, <1>4, <1>5 DEF Sound, Paired
<1>8. Tracked(e)
  <2>1. Kind[k] # "command"
    BY DEF ControlOperation
  <2>2. ASSUME NEW x \in Key
        PROVE  Open(e, x) <=> e.receipts[x] # None /\ Unsettled(e, JobOf(x))
    <3>1. CASE x = k
      BY <1>2, <1>3, <1>5, <1>6, <3>1 DEF Open
    <3>2. CASE x # k
      BY <1>3, <1>4, <1>6, <3>2 DEF Open, Sound, Tracked
    <3> QED
      BY <3>1, <3>2
  <2> QED
    BY <1>4, <2>1, <2>2 DEF Sound, Tracked
<1>9. Recorded(e)
  BY <1>6 DEF Sound, Recorded
<1> QED
  BY <1>7, <1>8, <1>9 DEF Sound

\* A new command finds neither its job nor a receipt that refers to it.
LEMMA CommandSound ==
  ASSUME NEW d \in Database, NEW k \in Key, clock \in Time, NEW key,
         NEW dig \in Payload(k), Executes(d, k, key), ~ControlOperation(k), Sound(d)
  PROVE  Sound(Execute(d, k, key, dig))
<1> DEFINE e == Execute(d, k, key, dig)
           job == NewJob(k)
           row == Receipt(k, dig)
           notes == {Note(k, "event", "admitted"), Note(k, "audit", "admitted")}
<1>1. /\ e.jobs = [d.jobs EXCEPT ![k] = job]
      /\ e.receipts = [d.receipts EXCEPT ![k] = row]
      /\ e.records = d.records \cup notes
  BY ExecuteFields, CreateFields
<1>2. job # None /\ (job.state = "ended" <=> Kind[k] = "command")
  <2>1. job \in JobRow
    BY DEF JobRow, NewJob
  <2> QED
    BY <2>1, NoneAssumption DEF NewJob
<1>3. /\ row # None
      /\ row.completed = IF Kind[k] = "command" THEN clock ELSE None
      /\ row.created = clock
  <2>1. dig = "plain"
    BY DEF Payload
  <2> QED
    BY <2>1, ReceiptType
<1>4. d.jobs \in [Key -> JobRow \cup {None}] /\ d.receipts \in [Key -> ReceiptRow \cup {None}]
  BY DEF Database
<1>5. d.receipts[k] = None /\ d.jobs[k] = None
  BY DEF Executes, Sound, Paired
<1>6. clock # None
  BY LedgerAssumption DEF Time
<1>7. JobOf(k) = k /\ \A x \in Key : JobOf(x) \in Key
  BY JobOfKey
<1>8. \A x \in Key : x # k /\ JobOf(x) = k => d.receipts[x] = None
  <2>1. \A x \in Key : x # k /\ JobOf(x) = k => Kind[x] # "command"
    BY DEF JobOf, ControlOperation
  <2> QED
    BY <1>5, <2>1 DEF Sound, Paired
<1>9. \A r \in notes : r.job = k /\ r.req = k /\ r.note = "admitted"
  BY <1>7, NoteType
<1>10. \A coll \in {"event", "audit"} : \E r \in notes : r.coll = coll
  BY NoteType
<1>11. \A r \in d.records : r.job # None => r.job \in Key
  BY DEF Database, Record
<1> HIDE DEF e, job, row, notes
<1>12. /\ e.jobs[k] = job /\ e.receipts[k] = row
       /\ \A x \in Key : x # k => e.jobs[x] = d.jobs[x] /\ e.receipts[x] = d.receipts[x]
  BY <1>1, <1>4
<1>13. Paired(e)
  BY <1>2, <1>3, <1>5, <1>7, <1>8, <1>12 DEF Sound, Paired
<1>14. Tracked(e)
  <2>1. ASSUME NEW x \in Key
        PROVE  Open(e, x) <=> e.receipts[x] # None /\ Unsettled(e, JobOf(x))
    <3>1. CASE x = k
      BY <1>2, <1>3, <1>6, <1>7, <1>12, <3>1 DEF Open, Unsettled
    <3>2. CASE x # k /\ JobOf(x) = k
      BY <1>8, <1>12, <3>2 DEF Open
    <3>3. CASE x # k /\ JobOf(x) # k
      BY <1>7, <1>12, <3>3 DEF Open, Unsettled, Sound, Tracked
    <3> QED
      BY <3>1, <3>2, <3>3
  <2>2. \A x \in Key : e.receipts[x] # None /\ Kind[x] = "command" =>
          e.receipts[x].completed = e.receipts[x].created
    BY <1>3, <1>12 DEF Sound, Tracked
  <2> QED
    BY <2>1, <2>2 DEF Tracked
<1>15. Recorded(e)
  <2>1. \A r \in e.records : r.job # None => e.jobs[r.job] # None
    BY <1>1, <1>2, <1>9, <1>11, <1>12 DEF Sound, Recorded
  <2>2. ASSUME NEW j \in Key, Unsettled(e, j), NEW coll \in {"event", "audit"}
        PROVE  \E r \in e.records : r.coll = coll /\ r.req = j /\ r.job = j /\ r.note = "admitted"
    <3>1. CASE j = k
      BY <1>1, <1>9, <1>10, <3>1
    <3>2. CASE j # k
      <4>1. Unsettled(d, j)
        BY <1>12, <2>2, <3>2 DEF Unsettled
      <4> QED
        BY <1>1, <4>1 DEF Sound, Recorded
    <3> QED
      BY <3>1, <3>2
  <2> QED
    BY <2>1, <2>2 DEF Recorded
<1> QED
  BY <1>13, <1>14, <1>15 DEF Sound, e

\* Execute keeps the database sound, whatever the key and the payload.
LEMMA ExecuteSound ==
  ASSUME NEW d \in Database, NEW k \in Key, clock \in Time, NEW key,
         NEW dig \in Payload(k), Sound(d)
  PROVE  Execute(d, k, key, dig) \in Database /\ Sound(Execute(d, k, key, dig))
<1> DEFINE e == Execute(d, k, key, dig)
           row == Receipt(k, dig)
           note == Note(k, "audit", "admitted")
<1>1. CASE ~Executes(d, k, key)
  BY <1>1 DEF Execute
<1>2. CASE Executes(d, k, key) /\ ~ControlOperation(k)
  BY <1>2, CommandSound, ExecuteFields
<1>3. CASE Executes(d, k, key) /\ ControlOperation(k)
  <2>1. Unsettled(d, JobOf(k)) /\ JobOf(k) \in Key
    BY <1>3, JobOfKey DEF Executes, MutationFits, ChangeJobFits
  <2>2. dig \in {"confirm", "rollback"} /\ Kind[k] # "command"
    BY <1>3 DEF Payload, ControlOperation
  <2>3. row \in ReceiptRow /\ (row.completed = None <=> dig = "rollback")
    <3>1. clock # None
      BY LedgerAssumption DEF Time
    <3> QED
      BY <2>2, <3>1, ReceiptType
  <2>4. note.job = JobOf(k)
    BY NoteType
  <2>5. /\ e \in Database
        /\ e.jobs = Mutation(d, k, dig).jobs
        /\ e.records = Mutation(d, k, dig).records
        /\ e.receipts = [Mutation(d, k, dig).receipts EXCEPT ![k] = row]
    BY <1>3, ExecuteFields
  <2>6. PICK state \in {"running", "needs-attention", "ended"} :
          LET n == ChangeJob(d, JobOf(k), state) IN
          /\ state = "ended" <=> dig = "confirm"
          /\ Mutation(d, k, dig).jobs = n.jobs
          /\ Mutation(d, k, dig).receipts = n.receipts
          /\ Mutation(d, k, dig).records = n.records \cup {note}
    BY <1>3, <2>1, DecideFields
  <2> DEFINE n == ChangeJob(d, JobOf(k), state)
  <2>7. n \in Database /\ Sound(n)
    BY <2>1, ChangeJobSound, ChangeJobType
  <2>8. n.jobs[JobOf(k)] # None /\ (Unsettled(n, JobOf(k)) <=> dig = "rollback")
    <3>1. PICK entry \in JobRow :
            entry.state = state /\ n.jobs = [d.jobs EXCEPT ![JobOf(k)] = entry]
      <4>1. CASE state = "ended"
        <5> DEFINE ended == [state |-> "ended", completed |-> clock]
        <5>1. ended \in JobRow /\ ended.state = "ended"
          BY DEF JobRow
        <5>2. n.jobs = [d.jobs EXCEPT ![JobOf(k)] = ended]
          BY <2>1, <4>1, SettledFields
        <5> HIDE DEF ended
        <5> QED
          BY <4>1, <5>1, <5>2
      <4>2. CASE state # "ended"
        <5> DEFINE row2 == ChangedRow(d, JobOf(k), state)
        <5>1. state \in {"running", "needs-attention"}
          BY <4>2
        <5>2. row2 \in JobRow /\ row2.state = state /\ n.jobs = [d.jobs EXCEPT ![JobOf(k)] = row2]
          BY <2>1, <5>1, ChangedFields
        <5> HIDE DEF row2
        <5> QED
          BY <5>2
      <4> QED
        BY <4>1, <4>2
    <3>4. d.jobs \in [Key -> JobRow \cup {None}]
      BY DEF Database
    <3> HIDE DEF n
    <3>5. n.jobs[JobOf(k)] = entry
      BY <2>1, <3>1, <3>4
    <3> QED
      BY <2>2, <2>6, <3>1, <3>5, NoneAssumption DEF Unsettled
  <2>9. /\ e.jobs = n.jobs
        /\ e.records = n.records \cup {note}
        /\ e.receipts = [n.receipts EXCEPT ![k] = row]
    BY <2>5, <2>6
  <2> HIDE DEF n, row, note, e
  <2>10. Sound(e)
    BY <1>3, <2>3, <2>4, <2>7, <2>8, <2>9, DecisionSound
  <2> QED
    BY <2>5, <2>10 DEF e
<1> QED
  BY <1>1, <1>2, <1>3

\* requests.Prune takes a receipt only after its job, so what it takes nobody
\* asks for any more.
LEMMA PruneReceiptsSound ==
  ASSUME NEW d \in Database, clock \in Time, Sound(d)
  PROVE  Sound(PruneReceipts(d))
<1> DEFINE e == PruneReceipts(d)
<1>1. /\ e.jobs = d.jobs /\ e.records = d.records
      /\ e.receipts = [k \in Key |-> IF ReceiptPrunable(d, k) THEN None ELSE d.receipts[k]]
  BY PruneFields
<1> HIDE DEF e
<1>2. \A k \in Key : \/ e.receipts[k] = d.receipts[k]
                     \/ e.receipts[k] = None /\ d.jobs[JobOf(k)] = None
  BY <1>1 DEF ReceiptPrunable
<1>3. Paired(e)
  BY <1>1, <1>2, JobOfKey DEF Sound, Paired
<1>4. Tracked(e)
  BY <1>1, <1>2 DEF Sound, Tracked, Open, Unsettled
<1>5. Recorded(e)
  BY <1>1 DEF Sound, Recorded, Unsettled
<1> QED
  BY <1>3, <1>4, <1>5 DEF Sound, e

\* evidence.Prune takes a job after its last record, and neither the job of a
\* Safe Apply nor a record of an unsettled job.
LEMMA PruneEvidenceSound ==
  ASSUME NEW d \in Database, clock \in Time, Sound(d)
  PROVE  Sound(PruneEvidence(d))
<1> DEFINE e == PruneEvidence(d)
           kept == {r \in d.records : ~Prunable(d, r)}
<1>1. e.receipts = d.receipts
  BY PruneFields
<1>2. \/ e = d
      \/ /\ e.records = kept
         /\ e.jobs = [j \in Key |-> IF JobPrunable(d, kept, j) THEN None ELSE d.jobs[j]]
  BY PruneEvidenceFields
<1>3. \A r \in d.records : r.job # None => r.job \in Key
  BY DEF Database, Record
<1>4. \A r \in kept : r \in d.records
  OBVIOUS
<1>5. \A r \in d.records : r.job # None /\ Unsettled(d, r.job) => r \in kept
  BY DEF Prunable
<1>6. None \notin Key
  BY LedgerAssumption
<1> HIDE DEF e, kept
<1>7. CASE e = d
  BY <1>7 DEF e
<1>8. CASE /\ e.records = kept
           /\ e.jobs = [j \in Key |-> IF JobPrunable(d, kept, j) THEN None ELSE d.jobs[j]]
  <2>1. \A j \in Key :
          \/ e.jobs[j] = d.jobs[j]
          \/ /\ e.jobs[j] = None /\ d.jobs[j] # None
             /\ ~Unsettled(d, j) /\ Kind[j] = "command"
             /\ \A r \in kept : r.job # j
    <3>1. \A j \in Key : d.jobs[j] # None => Kind[j] \in {"command", "execute"}
      BY LedgerAssumption DEF Sound, Paired, ControlOperation
    <3> QED
      BY <1>8, <3>1 DEF JobPrunable, Unsettled
  <2>2. \A j \in Key : Unsettled(e, j) <=> Unsettled(d, j)
    BY <2>1 DEF Unsettled
  <2>3. Paired(e)
    <3>1. \A k \in Key : Kind[k] # "command" => Kind[JobOf(k)] # "command" /\ JobOf(k) \in Key
      BY JobOfKey DEF ControlOperation
    <3> QED
      BY <1>1, <2>1, <3>1 DEF Sound, Paired
  <2>4. Tracked(e)
    BY <1>1, <2>2, JobOfKey DEF Sound, Tracked, Open
  <2>5. Recorded(e)
    <3>1. \A r \in e.records : r.job # None => e.jobs[r.job] # None
      BY <1>3, <1>4, <1>8, <2>1 DEF Sound, Recorded
    <3>2. ASSUME NEW j \in Key, Unsettled(e, j), NEW coll \in {"event", "audit"}
          PROVE  \E r \in e.records :
                   r.coll = coll /\ r.req = j /\ r.job = j /\ r.note = "admitted"
      <4>1. Unsettled(d, j)
        BY <2>2, <3>2
      <4>2. PICK r \in d.records : r.coll = coll /\ r.req = j /\ r.job = j /\ r.note = "admitted"
        BY <4>1 DEF Sound, Recorded
      <4>3. r \in kept
        BY <1>5, <1>6, <4>1, <4>2
      <4> QED
        BY <1>8, <4>2, <4>3
    <3> QED
      BY <3>1, <3>2 DEF Recorded
  <2> QED
    BY <2>3, <2>4, <2>5 DEF Sound, e
<1> QED
  BY <1>2, <1>7, <1>8

\* A legacy row becomes a record without a job.
LEMMA ImportSound ==
  ASSUME NEW d \in Database, Sound(d), NEW l \in d.legacy
  PROVE  LET e == [d EXCEPT !.legacy = @ \ {l}, !.records = @ \cup
                     {[coll |-> "audit", req |-> l, job |-> None, note |-> "legacy", at |-> 0]}]
         IN  e \in Database /\ e.epoch = d.epoch /\ Sound(e)
<1> DEFINE r0 == [coll |-> "audit", req |-> l, job |-> None, note |-> "legacy", at |-> 0]
           rest == d.legacy \ {l}
           e == [d EXCEPT !.legacy = rest, !.records = d.records \cup {r0}]
<1>1. r0 \in Record
  BY LedgerAssumption DEF Record, Database, Time
<1>2. r0.job = None
  OBVIOUS
<1>3. rest \subseteq Legacy
  BY DEF Database
<1> HIDE DEF r0, rest
<1>4. e \in Database /\ e.epoch = d.epoch
  BY <1>1, <1>3 DEF Database
<1>5. e.jobs = d.jobs /\ e.receipts = d.receipts /\ e.records = d.records \cup {r0}
  BY DEF Database
<1> HIDE DEF e
<1>6. Sound(e)
  BY <1>2, <1>5 DEF Sound, Paired, Tracked, Recorded, Open, Unsettled
<1> QED
  BY <1>4, <1>6 DEF e, r0, rest

-----------------------------------------------------------------------------
(* The steps of the ledger.                                                *)

Inv == TypeOK /\ Precedence /\ Consistent /\ Accounted

\* Whatever COMMIT reported, the database is the old one or the new one, and
\* the slot is free again.
LEMMA WriteKeeps ==
  ASSUME Inv, NEW w \in Writer, NEW new \in Database, Sound(new),
         new.epoch = db.epoch, Write(w, new)
  PROVE  /\ StoreOK'
         /\ db' = db \/ db' = new
         /\ db' \in Database
         /\ Sound(db')
         /\ db'.epoch = db.epoch
         /\ budget' \in 0..MaxEvents
<1>1. db' = db \/ db' = new
  BY DEF Write
<1>2. StoreOK /\ writer[w] = "holding" /\ Release(w)
  BY DEF Write, Inv, TypeOK, StoreOK
<1>3. status' \in {"ready", "degraded"}
  BY DEF Write, Inv, TypeOK, StoreTypeOK
<1>4. StoreOK'
  BY <1>2, <1>3, ReleaseKeeps
<1>5. budget' \in 0..MaxEvents
  BY LedgerAssumption DEF Write, Fault, Inv, TypeOK
<1>6. db \in Database /\ Sound(db)
  BY DEF Inv, TypeOK, Consistent
<1> QED
  BY <1>1, <1>4, <1>5, <1>6

\* The accounts depend on the clock, on what clients did and on the receipts.
LEMMA AccountsKept ==
  ASSUME Accounted, UNCHANGED <<clock, born, regressed, runs, pruned>>,
         db'.epoch = db.epoch, backup' # None => backup'.epoch <= db.epoch,
         \A k \in Key : db.receipts[k] # None =>
           /\ db'.receipts[k] # None
           /\ db'.receipts[k].created = db.receipts[k].created
  PROVE  Accounted'
BY DEF Accounted, Spent

\* Queueing and taking the slot.
LEMMA EnterKeeps ==
  ASSUME Inv, NEW w \in Writer, Enter(w)
  PROVE  Inv'
<1>1. StoreOK'
  BY AdmissionKeeps DEF Enter, Inv, TypeOK, StoreOK
<1>2. TypeOK' /\ Precedence'
  BY <1>1 DEF Enter, Inv, TypeOK, StoreOK, client
<1>3. Consistent' /\ Accounted'
  BY DEF Enter, Inv, client, Consistent, Accounted, Spent
<1> QED
  BY <1>2, <1>3 DEF Inv

\* The clock and epoch of a key when it is first used.
LEMMA BornType ==
  ASSUME Inv, NEW w \in Writer, NEW k \in Key, NEW dig, Request(w, k, dig)
  PROVE  /\ born' \in [Key -> Stamp \cup {None}]
         /\ born'[k] \in Stamp
         /\ born'[k].epoch <= db.epoch
         /\ \A x \in Key : born[x] # None => born'[x] = born[x]
         /\ \A x \in Key : x # k => born'[x] = born[x]
<1> DEFINE stamp == [at |-> clock, epoch |-> db.epoch]
<1>1. stamp \in Stamp /\ stamp.epoch = db.epoch /\ db.epoch \in Nat
  BY DEF Inv, TypeOK, Stamp, Database
<1>2. born \in [Key -> Stamp \cup {None}]
  BY DEF Inv, TypeOK
<1>3. \/ born[k] # None /\ born' = born
      \/ born[k] = None /\ born' = [born EXCEPT ![k] = stamp]
  BY DEF Request
<1> HIDE DEF stamp
<1>4. CASE born[k] # None /\ born' = born
  BY <1>2, <1>4 DEF Inv, Accounted
<1>5. CASE born[k] = None /\ born' = [born EXCEPT ![k] = stamp]
  BY <1>1, <1>2, <1>5
<1> QED
  BY <1>3, <1>4, <1>5

\* A key that was spent is not valid any more.
LEMMA SpentNotValid ==
  ASSUME TypeOK, NEW k \in Key, Spent(k), pruned <= clock, db.receipts[k] = None
  PROVE  ~KeyValid(db, born[k])
<1>1. /\ born[k] \in Stamp /\ clock \in Nat /\ pruned \in Nat
      /\ Expiry \in Nat /\ Skew \in Nat /\ db.epoch \in Nat
  BY LedgerAssumption DEF TypeOK, Spent, Time, Database
<1>2. born[k].at \in Nat /\ born[k].epoch \in Nat
  BY <1>1, LedgerAssumption DEF Stamp, Time
<1> QED
  BY <1>1, <1>2 DEF Spent, KeyValid

\* ChangeJob and Execute keep every receipt there is, with its time of creation.
LEMMA ChangeJobReceipts ==
  ASSUME NEW d \in Database, NEW j \in Key, clock \in Time, Unsettled(d, j),
         NEW state \in {"running", "needs-attention", "ended"}, NEW x \in Key, d.receipts[x] # None
  PROVE  /\ ChangeJob(d, j, state).receipts[x] # None
         /\ ChangeJob(d, j, state).receipts[x].created = d.receipts[x].created
<1>1. d.receipts[x] \in ReceiptRow
  BY DEF Database
<1>2. LET row == [d.receipts[x] EXCEPT !.completed = clock] IN
      row \in ReceiptRow /\ row.created = d.receipts[x].created
  BY <1>1 DEF ReceiptRow
<1>3. \/ CompleteReceipts(d, j)[x] = d.receipts[x]
      \/ CompleteReceipts(d, j)[x] = [d.receipts[x] EXCEPT !.completed = clock]
  BY DEF CompleteReceipts
<1>4. \/ ChangeJob(d, j, state).receipts = d.receipts
      \/ ChangeJob(d, j, state).receipts = CompleteReceipts(d, j)
  <2>1. CASE state = "ended"
    BY <2>1, SettledFields
  <2>2. CASE state # "ended"
    <3>1. state \in {"running", "needs-attention"}
      BY <2>2
    <3> QED
      BY <3>1, ChangedFields
  <2> QED
    BY <2>1, <2>2
<1> QED
  BY <1>1, <1>2, <1>3, <1>4, NoneAssumption

LEMMA ExecuteReceipts ==
  ASSUME NEW d \in Database, NEW k \in Key, clock \in Time, NEW key,
         NEW dig \in Payload(k), Executes(d, k, key)
  PROVE  /\ Execute(d, k, key, dig).receipts[k] = Receipt(k, dig)
         /\ \A x \in Key : d.receipts[x] # None =>
              /\ Execute(d, k, key, dig).receipts[x] # None
              /\ Execute(d, k, key, dig).receipts[x].created = d.receipts[x].created
<1> DEFINE m == Mutation(d, k, dig)
           row == Receipt(k, dig)
           e == Execute(d, k, key, dig)
<1>1. m \in Database /\ e.receipts = [m.receipts EXCEPT ![k] = row]
  BY ExecuteFields
<1>2. d.receipts[k] = None
  BY DEF Executes
<1>3. ASSUME NEW x \in Key, d.receipts[x] # None
      PROVE  m.receipts[x] # None /\ m.receipts[x].created = d.receipts[x].created
  <2>1. CASE ControlOperation(k)
    <3>1. Unsettled(d, JobOf(k)) /\ JobOf(k) \in Key
      BY <2>1, JobOfKey DEF Executes, MutationFits, ChangeJobFits
    <3>2. PICK state \in {"running", "needs-attention", "ended"} :
            m.receipts = ChangeJob(d, JobOf(k), state).receipts
      BY <2>1, <3>1, DecideFields
    <3>3. /\ ChangeJob(d, JobOf(k), state).receipts[x] # None
          /\ ChangeJob(d, JobOf(k), state).receipts[x].created = d.receipts[x].created
      BY <1>3, <3>1, ChangeJobReceipts
    <3> QED
      BY <3>2, <3>3
  <2>2. CASE ~ControlOperation(k)
    <3>1. m.receipts = d.receipts
      BY <2>2, CreateFields
    <3> QED
      BY <1>3, <3>1
  <2> QED
    BY <2>1, <2>2
<1>4. m.receipts \in [Key -> ReceiptRow \cup {None}]
  BY <1>1 DEF Database
<1> HIDE DEF m, row, e
<1>5. e.receipts[k] = row /\ \A x \in Key : x # k => e.receipts[x] = m.receipts[x]
  BY <1>1, <1>4
<1>6. \A x \in Key : d.receipts[x] # None =>
        e.receipts[x] # None /\ e.receipts[x].created = d.receipts[x].created
  BY <1>2, <1>3, <1>5
<1> QED
  BY <1>5, <1>6 DEF e, row

\* A request: the command takes effect when its receipt is written, and only
\* for a key that is not spent.
LEMMA RequestKeeps ==
  ASSUME Inv, NEW w \in Writer, NEW k \in Key, NEW dig \in Payload(k), Request(w, k, dig)
  PROVE  Inv'
<1> DEFINE key == born'[k]
           new == Execute(db, k, key, dig)
<1>1. clock \in Time /\ db \in Database /\ Sound(db)
  BY DEF Inv, TypeOK, Consistent
<1>2. new \in Database /\ Sound(new)
  BY <1>1, ExecuteSound
<1>3. new.epoch = db.epoch
  BY <1>1, ExecuteFields DEF Execute
<1>4. Write(w, new) /\ UNCHANGED <<backup, proc, software, clock, regressed, pruned>>
  BY DEF Request
<1>5. /\ StoreOK' /\ db' \in Database /\ Sound(db') /\ db'.epoch = db.epoch
      /\ budget' \in 0..MaxEvents /\ (db' = db \/ db' = new)
  BY <1>2, <1>3, <1>4, WriteKeeps
<1>6. born' \in [Key -> Stamp \cup {None}] /\ key \in Stamp /\ key # None
  BY BornType, NoneAssumption
<1>7. runs' = [runs EXCEPT ![k] = IF db' # db /\ Executes(db, k, key) THEN runs[k] + 1 ELSE runs[k]]
  BY DEF Request
<1>8. runs \in [Key -> Nat]
  BY DEF Inv, TypeOK
<1> HIDE DEF new, key
<1>9. runs' \in [Key -> Nat]
  BY <1>7, <1>8
<1>10. TypeOK' /\ Precedence'
  BY <1>4, <1>5, <1>6, <1>9 DEF Inv, TypeOK, StoreOK
<1>11. Consistent'
  BY <1>4, <1>5 DEF Inv, Consistent
<1>12. Accounted'
  <2>1. \A x \in Key : born'[x] # None => born'[x].epoch <= db'.epoch
    BY <1>5, BornType DEF Inv, Accounted, key
  <2>2. backup' # None => backup'.epoch <= db'.epoch
    BY <1>4, <1>5 DEF Inv, Accounted
  <2>3. CASE db' = db
    <3>1. \A x \in Key : runs'[x] = runs[x]
      BY <1>7, <1>8, <2>3
    <3>2. \A x \in Key : Spent(x) => Spent(x)'
      BY <1>4, <2>3, BornType DEF Spent
    <3> QED
      BY <1>4, <2>1, <2>2, <3>1, <3>2 DEF Inv, Accounted
  <2>4. CASE db' # db /\ regressed
    BY <1>4, <2>1, <2>2, <2>4 DEF Accounted
  <2>5. CASE db' # db /\ ~regressed
    <3>1. Executes(db, k, key) /\ db' = new
      BY <1>5, <2>5 DEF Execute, new
    <3>2. runs[k] = 0
      <4>1. runs[k] = 1 => Spent(k) /\ born'[k] = born[k]
        BY <2>5, BornType DEF Inv, Accounted, Spent
      <4>2. runs[k] <= 1 /\ pruned <= clock
        BY <2>5 DEF Inv, Accounted
      <4>3. db.receipts[k] = None /\ KeyValid(db, key)
        BY <3>1 DEF Executes
      <4>4. runs[k] # 1
        BY <4>1, <4>2, <4>3, SpentNotValid DEF Inv, key
      <4> QED
        BY <1>8, <4>2, <4>4
    <3>3. runs'[k] = 1 /\ \A x \in Key : x # k => runs'[x] = runs[x]
      BY <1>7, <1>8, <2>5, <3>1, <3>2
    <3>4. /\ db'.receipts[k] = Receipt(k, dig)
          /\ \A x \in Key : db.receipts[x] # None =>
               /\ db'.receipts[x] # None
               /\ db'.receipts[x].created = db.receipts[x].created
      BY <1>1, <3>1, ExecuteReceipts DEF new
    <3>5. Spent(k)'
      <4>1. born'[k].at <= clock + Skew
        BY <3>1 DEF Executes, KeyValid, key
      <4>2. Receipt(k, dig) # None /\ Receipt(k, dig).created = clock
        BY <1>1, ReceiptType
      <4> QED
        BY <1>6, <3>4, <4>1, <4>2 DEF Spent, key
    <3>6. \A x \in Key : Spent(x) => Spent(x)'
      BY <1>4, <1>5, <3>4, BornType DEF Spent
    <3> QED
      BY <1>4, <2>1, <2>2, <2>5, <3>3, <3>5, <3>6 DEF Inv, Accounted
  <2> QED
    BY <2>3, <2>4, <2>5
<1> QED
  BY <1>10, <1>11, <1>12 DEF Inv

\* The engine changes its job.
LEMMA SettleKeeps ==
  ASSUME Inv, NEW w \in Writer, NEW j \in Key, NEW s \in {"needs-attention", "ended"},
         Settle(w, j, s)
  PROVE  Inv'
<1> DEFINE new == IF ChangeJobFits(db, j) THEN ChangeJob(db, j, s) ELSE db
<1>1. clock \in Time /\ db \in Database /\ Sound(db)
  BY DEF Inv, TypeOK, Consistent
<1>2. ChangeJobFits(db, j) => Unsettled(db, j)
  BY DEF ChangeJobFits
<1>3. new \in Database /\ Sound(new) /\ new.epoch = db.epoch
  <2>1. CASE ChangeJobFits(db, j)
    <3>1. Sound(ChangeJob(db, j, s))
      BY <1>1, <1>2, <2>1, ChangeJobSound
    <3>2. ChangeJob(db, j, s) \in Database /\ ChangeJob(db, j, s).epoch = db.epoch
      BY <1>1, <1>2, <2>1, ChangeJobType
    <3> QED
      BY <2>1, <3>1, <3>2
  <2>2. CASE ~ChangeJobFits(db, j)
    BY <1>1, <2>2
  <2> QED
    BY <2>1, <2>2
<1>4. \A x \in Key : db.receipts[x] # None =>
        new.receipts[x] # None /\ new.receipts[x].created = db.receipts[x].created
  <2>1. CASE ChangeJobFits(db, j)
    BY <1>1, <1>2, <2>1, ChangeJobReceipts
  <2>2. CASE ~ChangeJobFits(db, j)
    BY <2>2
  <2> QED
    BY <2>1, <2>2
<1>5. Write(w, new) /\ UNCHANGED <<backup, proc, software, clock, born, regressed, runs, pruned>>
  BY DEF Settle, client
<1> HIDE DEF new
<1>6. /\ StoreOK' /\ db' \in Database /\ Sound(db') /\ db'.epoch = db.epoch
      /\ budget' \in 0..MaxEvents /\ (db' = db \/ db' = new)
  BY <1>3, <1>5, WriteKeeps
<1>7. TypeOK' /\ Precedence' /\ Consistent'
  BY <1>5, <1>6 DEF Inv, TypeOK, StoreOK, Consistent
<1>8. Accounted'
  BY <1>4, <1>5, <1>6, AccountsKept DEF Inv, Accounted
<1> QED
  BY <1>7, <1>8 DEF Inv

\* Only a receipt of a plain command is pruned, Retention after it was written,
\* and by then its key has expired.
LEMMA PrunedExpired ==
  ASSUME Inv, NEW k \in Key, ReceiptPrunable(db, k), born[k] # None,
         born[k].at <= db.receipts[k].created + Skew
  PROVE  born[k].at + Expiry < clock
<1>1. Kind[k] = "command"
  BY DEF ReceiptPrunable, Inv, Consistent, Sound, Paired
<1>2. db.receipts[k].completed = db.receipts[k].created
  BY <1>1 DEF ReceiptPrunable, Inv, Consistent, Sound, Tracked
<1>3. db.receipts[k].created + Retention < clock
  BY <1>2 DEF ReceiptPrunable, Aged
<1>4. db.receipts[k].created \in Nat /\ born[k].at \in Nat /\ clock \in Nat
  BY LedgerAssumption DEF ReceiptPrunable, Inv, TypeOK, Database, ReceiptRow, Stamp, Time
<1>5. Skew \in Nat /\ Expiry \in Nat /\ Retention \in Nat /\ Skew + Expiry <= Retention
  BY LedgerAssumption
<1> QED
  BY <1>3, <1>4, <1>5

\* The two prunes.
LEMMA MaintainKeeps ==
  ASSUME Inv, NEW w \in Writer, MaintainEvidence(w)
  PROVE  Inv'
<1>1. clock \in Time /\ db \in Database /\ Sound(db)
  BY DEF Inv, TypeOK, Consistent
<1>2. UNCHANGED <<backup, proc, software, clock, born, regressed, runs>>
  BY DEF MaintainEvidence, client
<1>3. CASE Write(w, PruneEvidence(db)) /\ UNCHANGED pruned
  <2> DEFINE new == PruneEvidence(db)
  <2>1. new \in Database /\ Sound(new) /\ new.epoch = db.epoch /\ new.receipts = db.receipts
    BY <1>1, PruneFields, PruneEvidenceSound
  <2> HIDE DEF new
  <2>2. /\ StoreOK' /\ db' \in Database /\ Sound(db') /\ db'.epoch = db.epoch
        /\ budget' \in 0..MaxEvents /\ (db' = db \/ db' = new)
    BY <1>3, <2>1, WriteKeeps DEF new
  <2>3. TypeOK' /\ Precedence' /\ Consistent'
    BY <1>2, <1>3, <2>2 DEF Inv, TypeOK, StoreOK, Consistent
  <2>4. Accounted'
    BY <1>2, <1>3, <2>1, <2>2, AccountsKept DEF Inv, Accounted
  <2> QED
    BY <2>3, <2>4 DEF Inv
<1>4. CASE /\ Write(w, PruneReceipts(db))
           /\ pruned' = IF db'.receipts # db.receipts THEN clock ELSE pruned
  <2> DEFINE new == PruneReceipts(db)
  <2>1. /\ new \in Database /\ Sound(new) /\ new.epoch = db.epoch
        /\ new.receipts =
             [k \in Key |-> IF ReceiptPrunable(db, k) THEN None ELSE db.receipts[k]]
    BY <1>1, PruneFields, PruneReceiptsSound
  <2> HIDE DEF new
  <2>2. /\ StoreOK' /\ db' \in Database /\ Sound(db') /\ db'.epoch = db.epoch
        /\ budget' \in 0..MaxEvents /\ (db' = db \/ db' = new)
    BY <1>4, <2>1, WriteKeeps DEF new
  <2>3. pruned' \in Time
    BY <1>1, <1>4 DEF Inv, TypeOK
  <2>4. TypeOK' /\ Precedence' /\ Consistent'
    BY <1>2, <2>2, <2>3 DEF Inv, TypeOK, StoreOK, Consistent
  <2>5. CASE db'.receipts = db.receipts
    BY <1>2, <1>4, <2>2, <2>4, <2>5, AccountsKept DEF Inv, Accounted
  <2>6. CASE db'.receipts # db.receipts
    <3>1. pruned' = clock /\ db' = new
      BY <1>4, <2>2, <2>6
    <3>2. clock \in Nat
      BY <1>1, LedgerAssumption DEF Time
    <3>3. ASSUME NEW k \in Key, Spent(k), pruned <= clock
          PROVE  Spent(k)'
      <4>1. born[k] # None /\ born[k] \in Stamp /\ pruned \in Nat
        BY <3>3, LedgerAssumption DEF Spent, Inv, TypeOK, Time
      <4>2. born[k].at \in Nat /\ Expiry \in Nat
        BY <4>1, LedgerAssumption DEF Stamp, Time
      <4>3. CASE born[k].epoch < db.epoch
        BY <1>2, <2>2, <4>1, <4>3 DEF Spent
      <4>4. CASE born[k].at + Expiry < pruned
        BY <1>2, <3>1, <3>2, <3>3, <4>1, <4>2, <4>4 DEF Spent
      <4>5. CASE /\ db.receipts[k] # None /\ born[k].at <= db.receipts[k].created + Skew
                 /\ ReceiptPrunable(db, k)
        BY <1>2, <3>1, <4>1, <4>5, PrunedExpired DEF Spent
      <4>6. CASE /\ db.receipts[k] # None /\ born[k].at <= db.receipts[k].created + Skew
                 /\ ~ReceiptPrunable(db, k)
        <5>1. db'.receipts[k] = db.receipts[k]
          BY <2>1, <3>1, <4>6
        <5> QED
          BY <1>2, <4>1, <4>6, <5>1 DEF Spent
      <4> QED
        BY <3>3, <4>3, <4>4, <4>5, <4>6 DEF Spent
    <3>4. Accounted'
      BY <1>2, <2>2, <3>1, <3>2, <3>3 DEF Inv, Accounted
    <3> QED
      BY <2>4, <3>4 DEF Inv
  <2> QED
    BY <2>5, <2>6
<1> QED
  BY <1>3, <1>4 DEF MaintainEvidence

\* The import of legacy rows and its marker.
LEMMA ImportKeeps ==
  ASSUME Inv, NEW w \in Writer, ImportLegacy(w)
  PROVE  Inv'
<1>1. db \in Database /\ Sound(db)
  BY DEF Inv, TypeOK, Consistent
<1>2. UNCHANGED <<backup, software, clock, born, regressed, runs, pruned>>
  BY DEF ImportLegacy, client
<1>3. proc' \in {"down", "import", "recover", "serving"}
  BY DEF ImportLegacy, Inv, TypeOK
<1>4. ASSUME NEW new \in Database, Sound(new), new.epoch = db.epoch,
             new.receipts = db.receipts, Write(w, new)
      PROVE  Inv'
  <2>1. /\ StoreOK' /\ db' \in Database /\ Sound(db') /\ db'.epoch = db.epoch
        /\ budget' \in 0..MaxEvents /\ (db' = db \/ db' = new)
    BY <1>4, WriteKeeps
  <2>2. TypeOK' /\ Precedence' /\ Consistent'
    BY <1>2, <1>3, <2>1 DEF Inv, TypeOK, StoreOK, Consistent
  <2>3. Accounted'
    BY <1>2, <1>4, <2>1, AccountsKept DEF Inv, Accounted
  <2> QED
    BY <2>2, <2>3 DEF Inv
<1>5. CASE proc' = "recover" /\ UNCHANGED <<store, db, budget>>
  <2>1. TypeOK'
    BY <1>2, <1>5 DEF store, Inv, TypeOK, StoreTypeOK, OneWriter
  <2>2. Precedence' /\ Consistent' /\ Accounted'
    BY <1>2, <1>5 DEF store, Inv, Precedence, Counted, Consistent, Accounted, Spent
  <2> QED
    BY <2>1, <2>2 DEF Inv
<1>6. CASE Write(w, [db EXCEPT !.imported = TRUE])
  <2> DEFINE new == [db EXCEPT !.imported = TRUE]
  <2>1. new \in Database /\ new.epoch = db.epoch
    BY <1>1 DEF Database
  <2>2. new.receipts = db.receipts /\ new.jobs = db.jobs /\ new.records = db.records
    BY <1>1 DEF Database
  <2> HIDE DEF new
  <2>3. Sound(new)
    BY <1>1, <2>2, SameSound
  <2> QED
    BY <1>4, <1>6, <2>1, <2>2, <2>3 DEF new
<1>7. ASSUME NEW l \in db.legacy,
             Write(w, [db EXCEPT !.legacy = @ \ {l}, !.records = @ \cup
               {[coll |-> "audit", req |-> l, job |-> None, note |-> "legacy", at |-> 0]}])
      PROVE  Inv'
  <2> DEFINE r0 == [coll |-> "audit", req |-> l, job |-> None, note |-> "legacy", at |-> 0]
             new == [db EXCEPT !.legacy = @ \ {l}, !.records = @ \cup {r0}]
  <2>1. new \in Database /\ new.epoch = db.epoch /\ Sound(new)
    BY <1>1, ImportSound
  <2>2. new.receipts = db.receipts
    BY <1>1 DEF Database
  <2> HIDE DEF new
  <2> QED
    BY <1>4, <1>7, <2>1, <2>2 DEF new
<1> QED
  BY <1>5, <1>6, <1>7 DEF ImportLegacy

\* The end of recovery, a start with its migration, a stop and a backup.
LEMMA ProcessKeeps ==
  ASSUME Inv,
         \/ \E w \in Writer : Recover(w)
         \/ \E w \in Writer : Backup(w)
         \/ Start \/ Crash
  PROVE  Inv'
<1>1. ASSUME NEW w \in Writer, Recover(w)
      PROVE  Inv'
  <2>1. StoreOK'
    BY <1>1, ReleaseKeeps DEF Recover, Inv, TypeOK, StoreOK, StoreTypeOK
  <2>2. TypeOK' /\ Precedence'
    BY <1>1, <2>1 DEF Recover, client, Inv, TypeOK, StoreOK
  <2>3. Consistent' /\ Accounted'
    BY <1>1 DEF Recover, client, Inv, Consistent, Accounted, Spent
  <2> QED
    BY <2>2, <2>3 DEF Inv
<1>2. CASE Start
  <2> DEFINE new == [db EXCEPT !.version = software]
  <2>1. db \in Database /\ Sound(db) /\ software \in {1, 2} /\ db.epoch \in Nat
    BY DEF Inv, TypeOK, Consistent, Database
  <2>2. new \in Database /\ new.epoch = db.epoch /\ new.receipts = db.receipts
    BY <2>1 DEF Database
  <2>3. new.jobs = db.jobs /\ new.records = db.records
    BY <2>1 DEF Database
  <2> HIDE DEF new
  <2>4. Sound(new)
    BY <2>1, <2>2, <2>3, SameSound
  <2>5. /\ db' = new /\ backup' \in {db, backup} /\ proc' = "import" /\ status' = "ready"
        /\ UNCHANGED <<writer, slot, overtaken, copies, software, clock, born, regressed,
                       runs, pruned, budget>>
    BY <1>2 DEF Start, client, new
  <2>6. StoreOK'
    BY <2>5, StoreUnchanged DEF Inv, TypeOK, StoreOK
  <2>7. TypeOK' /\ Precedence' /\ Consistent'
    BY <2>1, <2>2, <2>4, <2>5, <2>6 DEF Inv, TypeOK, StoreOK, Consistent
  <2>8. Accounted'
    BY <2>1, <2>2, <2>5, AccountsKept DEF Inv, Accounted
  <2> QED
    BY <2>7, <2>8 DEF Inv
<1>3. CASE Crash
  <2>1. StoreOK'
    BY <1>3, ResetKeeps DEF Crash, Inv, TypeOK, StoreOK
  <2>2. budget' \in 0..MaxEvents /\ software' \in {1, 2}
    BY <1>3, LedgerAssumption DEF Crash, Fault, Inv, TypeOK
  <2>3. TypeOK' /\ Precedence'
    BY <1>3, <2>1, <2>2 DEF Crash, client, Inv, TypeOK, StoreOK
  <2>4. Consistent' /\ Accounted'
    BY <1>3 DEF Crash, client, Inv, Consistent, Accounted, Spent
  <2> QED
    BY <2>3, <2>4 DEF Inv
<1>4. ASSUME NEW w \in Writer, Backup(w)
      PROVE  Inv'
  <2>1. /\ backup' \in {db, backup} /\ budget' \in 0..MaxEvents /\ status' \in {"ready", "degraded"}
        /\ UNCHANGED <<db, proc, software, clock, born, regressed, runs, pruned>>
    BY <1>4, LedgerAssumption DEF Backup, Fault, client, Inv, TypeOK, StoreTypeOK
  <2>2. db \in Database /\ db.epoch \in Nat
    BY DEF Inv, TypeOK, Database
  <2>3. StoreOK'
    BY <1>4, <2>1, ReleaseKeeps DEF Backup, Inv, TypeOK, StoreOK
  <2>4. TypeOK' /\ Precedence'
    BY <2>1, <2>2, <2>3 DEF Inv, TypeOK, StoreOK
  <2>5. Consistent' /\ Accounted'
    BY <2>1, <2>2 DEF Inv, Consistent, Accounted, Spent
  <2> QED
    BY <2>4, <2>5 DEF Inv
<1> QED
  BY <1>1, <1>2, <1>3, <1>4

\* PrepareRestore: the restored database is of a new epoch, so every key made
\* before is spent.
LEMMA RestoreKeeps ==
  ASSUME Inv, Restore
  PROVE  Inv'
<1> DEFINE epoch == db.epoch + 1
           new == [backup EXCEPT !.epoch = epoch, !.high = clock]
<1>1. backup \in Database /\ Sound(backup) /\ clock \in Time /\ db.epoch \in Nat
  BY DEF Restore, Inv, TypeOK, Consistent, Database
<1>2. epoch \in Nat /\ db.epoch < epoch
  BY <1>1
<1>3. db' = new
  BY DEF Restore, Prepared
<1> HIDE DEF epoch
<1>4. new \in Database /\ new.epoch = epoch
  BY <1>1, <1>2 DEF Database
<1>5. new.receipts = backup.receipts /\ new.jobs = backup.jobs /\ new.records = backup.records
  BY <1>1 DEF Database
<1> HIDE DEF new
<1>6. Sound(new)
  BY <1>1, <1>5, SameSound
<1>7. /\ proc' = "down" /\ budget' \in 0..MaxEvents
      /\ UNCHANGED <<status, backup, software, clock, born, regressed, runs, pruned>>
  BY LedgerAssumption DEF Restore, Fault, client, Inv, TypeOK
<1>8. StoreOK'
  BY ResetKeeps DEF Restore, Inv, TypeOK, StoreOK
<1>9. TypeOK' /\ Precedence' /\ Consistent'
  BY <1>3, <1>4, <1>6, <1>7, <1>8 DEF Inv, TypeOK, StoreOK, Consistent
<1>10. Accounted'
  <2>1. \A k \in Key : born[k] # None => born[k].epoch \in Nat /\ born[k].epoch < epoch
    BY <1>1, <1>2 DEF Inv, Accounted, TypeOK, Stamp
  <2>2. backup.epoch \in Nat /\ backup.epoch <= epoch
    BY <1>1, <1>2 DEF Inv, Accounted, Restore, Database
  <2>3. \A k \in Key : Spent(k) => Spent(k)'
    BY <1>3, <1>4, <1>7, <2>1 DEF Spent
  <2> QED
    BY <1>2, <1>3, <1>4, <1>7, <2>1, <2>2, <2>3 DEF Inv, Accounted
<1> QED
  BY <1>9, <1>10 DEF Inv

\* The clock moves on, or is set back: behind a prune only with regressed.
LEMMA ClockKeeps ==
  ASSUME Inv, Tick \/ SetBack
  PROVE  Inv'
<1>1. /\ clock' \in Time /\ budget' \in 0..MaxEvents /\ regressed' \in BOOLEAN
      /\ UNCHANGED <<store, db, backup, proc, software, born, runs, pruned>>
  <2>1. clock' \in Time /\ budget' \in 0..MaxEvents
    BY LedgerAssumption DEF Tick, SetBack, Fault, Inv, TypeOK, Time
  <2>2. UNCHANGED <<store, db, backup, proc, software, born, runs, pruned>>
    BY DEF Tick, SetBack
  <2>3. regressed' \in BOOLEAN
    BY Zenon DEF Tick, SetBack, Inv, TypeOK
  <2> QED
    BY <2>1, <2>2, <2>3
<1>2. TypeOK'
  BY <1>1 DEF store, Inv, TypeOK, StoreTypeOK, OneWriter
<1>3. Precedence' /\ Consistent'
  BY <1>1 DEF store, Inv, Precedence, Counted, Consistent
<1>4. regressed' \/ (~regressed /\ (pruned <= clock => pruned <= clock'))
  <2>1. clock \in Nat /\ pruned \in Nat
    BY LedgerAssumption DEF Inv, TypeOK, Time
  <2>2. CASE Tick
    BY <2>1, <2>2 DEF Tick, Inv, TypeOK
  <2>3. CASE SetBack
    <3>1. PICK c \in Time : clock' = c /\ regressed' = (regressed \/ c < pruned)
      BY <2>3 DEF SetBack
    <3>2. c \in Nat
      BY <3>1, LedgerAssumption DEF Time
    <3>3. regressed' \/ (~regressed /\ ~(c < pruned))
      BY <3>1, Zenon
    <3>4. ~(c < pruned) => pruned <= clock'
      BY <2>1, <3>1, <3>2
    <3> QED
      BY <3>3, <3>4, Zenon
  <2> QED
    BY <2>2, <2>3
<1>5. Accounted'
  BY <1>1, <1>4 DEF Inv, Accounted, Spent
<1> QED
  BY <1>2, <1>3, <1>5 DEF Inv

-----------------------------------------------------------------------------

\* The inductive invariant holds at the start and every step keeps it.
LEMMA Inductive == Spec => []Inv
<1>1. LedgerInit => Inv
  <2> SUFFICES ASSUME LedgerInit PROVE Inv
    OBVIOUS
  <2>1. StoreOK
    BY StoreStarts DEF LedgerInit
  <2>2. db \in Database /\ Sound(db) /\ db.epoch = 0
    BY FreshSound DEF LedgerInit, Fresh
  <2>3. TypeOK
    <3>1. regressed \in BOOLEAN
      BY Zenon DEF LedgerInit
    <3>2. clock \in Time /\ pruned \in Time /\ budget \in 0..MaxEvents
      BY LedgerAssumption DEF LedgerInit, Time
    <3>3. born \in [Key -> Stamp \cup {None}] /\ runs \in [Key -> Nat]
      BY DEF LedgerInit
    <3> QED
      BY <2>1, <2>2, <3>1, <3>2, <3>3 DEF LedgerInit, StoreOK, TypeOK
  <2>4. Precedence /\ Consistent
    BY <2>1, <2>2 DEF LedgerInit, StoreOK, Consistent
  <2>5. Accounted
    BY <2>2 DEF LedgerInit, Accounted
  <2> QED
    BY <2>3, <2>4, <2>5 DEF Inv
<1>2. Inv /\ [Next]_vars => Inv'
  <2> SUFFICES ASSUME Inv, [Next]_vars PROVE Inv'
    OBVIOUS
  <2>1. /\ Ordinary \subseteq Writer /\ Recovery \subseteq Writer /\ Backups \subseteq Writer
        /\ \A k \in Key : Lane(k) \subseteq Writer
    BY DEF Writer, Lane
  <2>2. CASE UNCHANGED vars
    <3>1. TypeOK'
      BY <2>2 DEF vars, store, client, Inv, TypeOK, StoreTypeOK, OneWriter
    <3>2. Precedence' /\ Consistent' /\ Accounted'
      BY <2>2 DEF vars, store, client, Inv, Precedence, Counted, Consistent, Accounted, Spent
    <3> QED
      BY <3>1, <3>2 DEF Inv
  <2>3. CASE \E w \in Writer : Enter(w)
    BY <2>3, EnterKeeps
  <2>4. CASE \E k \in Key : \E w \in Lane(k), dig \in Payload(k) : Request(w, k, dig)
    BY <2>1, <2>4, RequestKeeps
  <2>5. CASE \E w \in Recovery, j \in Key, s \in {"needs-attention", "ended"} : Settle(w, j, s)
    BY <2>1, <2>5, SettleKeeps
  <2>6. CASE \E w \in Ordinary : MaintainEvidence(w) \/ ImportLegacy(w) \/ Recover(w)
    BY <2>1, <2>6, MaintainKeeps, ImportKeeps, ProcessKeeps
  <2>7. CASE \E w \in Backups : Backup(w)
    BY <2>1, <2>7, ProcessKeeps
  <2>8. CASE Start \/ Crash \/ Restore \/ Tick \/ SetBack
    BY <2>8, ProcessKeeps, RestoreKeeps, ClockKeeps
  <2> QED
    BY <2>2, <2>3, <2>4, <2>5, <2>6, <2>7, <2>8 DEF Next
<1> QED
  BY <1>1, <1>2, PTL DEF Spec

\* Types, and at most one goroutine past acquire, the one the slot names.
THEOREM LedgerTypes == Spec => []TypeOK
<1>1. Inv => TypeOK
  BY DEF Inv
<1> QED
  BY <1>1, Inductive, PTL

\* A recovery writer that has arrived waits for at most one ordinary
\* transaction, the one that was running, with any number of writers and
\* backups and any size of the queues (acquireWrite, Backup).
THEOREM RecoveryGoesFirst == Spec => []OvertakenOnce
<1>1. Inv => OvertakenOnce
  BY DEF Inv, Precedence, OvertakenOnce, Counted
<1> QED
  BY <1>1, Inductive, PTL

\* A receipt is open exactly as long as the job it refers to is unsettled,
\* through prunes, crashes, COMMITs of unknown outcome and restores.
THEOREM ReceiptsTrackJobs == Spec => []ReceiptTracksJob
<1>1. Inv => ReceiptTracksJob
  BY DEF Inv, Consistent, Sound, Tracked, ReceiptTracksJob
<1> QED
  BY <1>1, Inductive, PTL

\* A record leads to its job, a job to its receipt, and an unsettled job still
\* has the records of its admission.
THEOREM EvidenceTraceable == Spec => []Traceable
<1>1. Inv => Traceable
  BY DEF Inv, Consistent, Sound, Paired, Recorded, Traceable
<1> QED
  BY <1>1, Inductive, PTL

\* A command takes effect at most once for every key, however often the client
\* repeats it, as long as the clock was not set back behind a prune.
THEOREM CommandsOnce == Spec => []AtMostOnce
<1>1. Inv => AtMostOnce
  BY DEF Inv, Accounted, AtMostOnce
<1> QED
  BY <1>1, Inductive, PTL

=============================================================================
