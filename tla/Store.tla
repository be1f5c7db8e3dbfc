------------------------------- MODULE Store -------------------------------
(***************************************************************************)
(* Admission to the one SQLite writer of a database.  Every write of a     *)
(* daemon goes through Store.Write: it takes the write slot, waiting in a  *)
(* bounded queue, runs one transaction and releases the slot.  Writers of  *)
(* Safe Apply recovery have a queue of their own and make ordinary writers *)
(* step back.  A backup waits in the ordinary queue and does not step back *)
(* (Store.Backup calls acquire, not acquireWrite).  What a transaction     *)
(* does is left to the module that uses this one.                          *)
(***************************************************************************)
EXTENDS Naturals, FiniteSets

CONSTANTS
  Ordinary,            \* goroutines that write for requests and maintenance
  Recovery,            \* goroutines that write under RecoveryContext
  Backups,             \* goroutines that make a backup
  None,                \* nobody, no row, no time
  WriteQueue,          \* capacity of writeQueue (16 in the code)
  RecoveryWriteQueue,  \* capacity of recoveryWriteQueue (64 in the code)
  MaxBackups           \* bound: backups start only while fewer had the slot

ASSUME StoreAssumption ==
  /\ Ordinary \cap Recovery = {} /\ Backups \cap (Ordinary \cup Recovery) = {}
  /\ None \notin Ordinary \cup Recovery \cup Backups
  /\ WriteQueue \in Nat /\ RecoveryWriteQueue \in Nat /\ MaxBackups \in Nat

VARIABLES
  writer,     \* where each goroutine is in Store.Write
  slot,       \* writeSlot: the goroutine that holds it
  status,     \* Status: ready or degraded (no more writes)
  overtaken,  \* what had the slot and gave it back while a recovery writer waited
  copies      \* backups that had the slot

store == <<writer, slot, status, overtaken, copies>>

Writer == Ordinary \cup Recovery \cup Backups

Passed == [writes : Nat, backups : Nat]
Nobody == [writes |-> 0, backups |-> 0]

Step == {"idle", "arrived", "waiting", "checking", "holding"}

StoreTypeOK ==
  /\ writer \in [Writer -> Step]
  /\ slot \in Writer \cup {None}
  /\ status \in {"ready", "degraded"}
  /\ overtaken \in [Recovery -> Passed]
  /\ copies \in Nat

StoreInit ==
  /\ writer = [w \in Writer |-> "idle"]
  /\ slot = None
  /\ status = "ready"
  /\ overtaken = [r \in Recovery |-> Nobody]
  /\ copies = 0

\* recoveryWriters: raised before acquire, lowered when acquire returns.
Counted == {r \in Recovery : writer[r] \in {"arrived", "waiting"}}

At(w, step) == writer' = [writer EXCEPT ![w] = step]

\* The count is kept for as long as the writer waits.
Count(w) ==
  overtaken' = IF w \in Recovery /\ writer'[w] # "waiting"
               THEN [overtaken EXCEPT ![w] = Nobody] ELSE overtaken

-----------------------------------------------------------------------------

\* An ordinary writer does not even queue while a recovery writer is counted;
\* a backup does.
Arrive(w) ==
  /\ writer[w] = "idle"
  /\ w \in Ordinary => Counted = {}
  /\ w \in Backups => copies < MaxBackups
  /\ At(w, "arrived")
  /\ UNCHANGED <<slot, status, overtaken, copies>>

\* Seeded fault: the slot is taken from whoever holds it.
BugTakes(w) ==
  /\ slot' = w
  /\ At(w, IF w \in Ordinary THEN "checking" ELSE "holding")

\* acquire returns with the slot: a recovery writer or a backup starts, an
\* ordinary writer first looks for recovery writers again.
Takes(w) ==
  /\ slot = None
  /\ slot' = w
  /\ At(w, IF w \in Ordinary THEN "checking" ELSE "holding")

Queued(w) ==
  {v \in Writer : writer[v] = "waiting" /\ (v \in Recovery <=> w \in Recovery)}

QueueSize(w) == IF w \in Recovery THEN RecoveryWriteQueue ELSE WriteQueue

\* acquire: the slot, else a place in the queue, else ErrBusy.
Acquire(w) ==
  /\ writer[w] = "arrived"
  /\ \/ Takes(w)
     \/ /\ slot # None
        /\ At(w, IF Cardinality(Queued(w)) < QueueSize(w) THEN "waiting" ELSE "idle")
        /\ UNCHANGED slot
  /\ Count(w)
  /\ UNCHANGED <<status, copies>>

\* acquire, in the queue: the slot becomes free or the context is done.
Wake(w) ==
  /\ writer[w] = "waiting"
  /\ \/ Takes(w)
     \/ At(w, "idle") /\ UNCHANGED slot
  /\ Count(w)
  /\ UNCHANGED <<status, copies>>

\* Seeded fault: the slot is used without a second look at recoveryWriters.
BugRecheck(w) ==
  /\ writer[w] = "checking"
  /\ At(w, "holding")
  /\ UNCHANGED <<slot, status, overtaken, copies>>

\* acquireWrite, after acquire: an ordinary writer gives the slot back when a
\* recovery writer has arrived meanwhile.
Recheck(w) ==
  /\ writer[w] = "checking"
  /\ IF Counted # {}
     THEN At(w, "idle") /\ slot' = None
     ELSE At(w, "holding") /\ UNCHANGED slot
  /\ UNCHANGED <<status, overtaken, copies>>

Passes(w, by) ==
  [writes |-> by.writes + (IF w \in Ordinary THEN 1 ELSE 0),
   backups |-> by.backups + (IF w \in Backups THEN 1 ELSE 0)]

\* The transaction or the backup has ended and the slot is free again.
Release(w) ==
  /\ At(w, "idle")
  /\ slot' = None
  /\ overtaken' = [r \in Recovery |->
       IF r \in Counted THEN Passes(w, overtaken[r]) ELSE overtaken[r]]
  /\ copies' = IF w \in Backups THEN copies + 1 ELSE copies

\* checked(true)
Writable == status = "ready"

\* The process starts again with Open.
StoreReset ==
  /\ writer' = [w \in Writer |-> "idle"]
  /\ slot' = None
  /\ overtaken' = [r \in Recovery |-> Nobody]
  /\ UNCHANGED copies

Admission(w) == Arrive(w) \/ Acquire(w) \/ Wake(w) \/ Recheck(w)

-----------------------------------------------------------------------------

\* One goroutine at a time is past acquire, and it is the one the slot names.
OneWriter ==
  \A w \in Writer : writer[w] \in {"checking", "holding"} <=> slot = w

\* A recovery writer that has arrived waits for at most one ordinary
\* transaction, however many ordinary writers and backups are queued, and that
\* one was running when it arrived: an ordinary writer that gets the slot after
\* a backup, or after another transaction, steps back (RecoveryContext,
\* acquireWrite).  Backups do not, and are not bounded.
OvertakenOnce ==
  \A r \in Counted :
    /\ overtaken[r].writes <= 1
    /\ \A w \in Ordinary : writer[w] = "holding" => overtaken[r] = Nobody

=============================================================================
