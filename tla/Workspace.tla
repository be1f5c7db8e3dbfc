----------------------------- MODULE Workspace -----------------------------
(***************************************************************************)
(* One user's draft between ovs-webd and ovs-mgrd.  The draft (a signed    *)
(* envelope) lives in web.db; manager.db keeps a witness of the latest     *)
(* draft it saw, the validations and the outcome of each Safe Apply.       *)
(* There is no transaction over both databases: HTTP handlers of ovs-webd  *)
(* alternate transactions on web.db with calls to the manager, and either  *)
(* process may die, or an answer be lost, between any two of them.         *)
(*                                                                         *)
(* The Safe Apply engine is SafeApplyContract: this module composes it     *)
(* with the workspace.                                                     *)
(***************************************************************************)
EXTENDS Naturals, FiniteSets

CONSTANTS
  Handler,     \* HTTP requests of the owner that ovs-webd serves at a time
  Request,     \* idempotency keys of createTransaction
  Validation,  \* idempotency keys of createValidation
  First,       \* the candidate id, its revision and the native value at the start
  Foreign,     \* a native value written by someone else
  None,        \* no envelope, no row, no request
  MaxSequence, \* bound on the sequence of the envelope
  Events,      \* faults of this instance
  MaxEvents    \* bound on the number of faults

ASSUME WorkspaceAssumption ==
  /\ MaxSequence \in Nat \ {0} /\ MaxEvents \in Nat /\ IsFiniteSet(Request)
  /\ Handler \cap (Request \cup {First, Foreign, None}) = {}
  /\ {First, Foreign, None} \cap Request = {}
  /\ First # Foreign /\ First # None /\ Foreign # None
  /\ Events \subseteq {"webd", "mgrd", "giveup", "drift", "expire"}

VARIABLES
  ws,          \* web.db candidate_workspaces: the draft
  resv,        \* web.db candidate_execution_reservations: its request
  outbox,      \* web.db safe_apply_outbox
  vbox,        \* web.db candidate_validation_outbox
  witness,     \* manager.db candidate_witnesses
  verdicts,    \* manager.db candidate_validations
  successor,   \* manager.db safe_resolutions
  phase, effect, good,  \* the engine, see SafeApplyContract
  native,      \* the configuration in Open vSwitch, as the manager observes it
  handler,     \* the HTTP handlers
  budget       \* faults left

web == <<ws, resv, outbox, vbox>>
manager == <<witness, verdicts, successor>>
engine == <<phase, effect, good>>
vars == <<web, manager, engine, native, handler, budget>>

Engine == INSTANCE SafeApplyContract
  WITH Txn <- Request, Port <- {First}, Touch <- [r \in Request |-> {First}],
       NoTxn <- None

Terminal(r) == phase[r] \in Engine!Verdict

-----------------------------------------------------------------------------
(* Envelopes.  A revision is the origin of the envelope: the handler that  *)
(* prepared it or the request whose resolution it is.                      *)

Value == Request \cup {First, Foreign}

\* Edits stop at MaxSequence; each request can add one successor.
Sequence == 0..(MaxSequence + Cardinality(Request))

Envelope ==
  [cand : Request \cup {First}, seq : Sequence,
   rev : Handler \cup Request \cup {First}, dirty : BOOLEAN,
   before : Value \cup {None}]

\* The rows of the outboxes, of the validations and of the resolutions.
Row == [env : Envelope, val : Validation, receipt : BOOLEAN, resolved : BOOLEAN, old : BOOLEAN]
ValidationRow == [env : Envelope, receipt : BOOLEAN]
VerdictRow == [env : Envelope, passed : BOOLEAN, live : BOOLEAN]
Resolution == [env : Envelope, confirmed : BOOLEAN]

ASSUME NoneAssumption ==
  \A S \in {Envelope, Row, ValidationRow, VerdictRow, Resolution} : None \notin S

\* The user has staged a change of the object in an earlier session.
Staged == [cand |-> First, seq |-> 1, rev |-> First, dirty |-> TRUE, before |-> First]

\* Prepare: an edit keeps the original that was captured when the object was
\* staged; only a rebase, bound to the snapshot the user has seen, replaces it.
Edits == {"stage", "discard", "keep-mine", "keep-current"}

Preparable(e, op, saw) ==
  op \in {"keep-mine", "keep-current"} => e.dirty /\ saw = native

Prepare(e, op, p) ==
  LET kept == op \in {"stage", "keep-mine"} IN
  [e EXCEPT !.seq = @ + 1, !.rev = p, !.dirty = kept,
            !.before = CASE ~kept -> None
                         [] op = "stage" /\ e.dirty -> @
                         [] OTHER -> native]

\* Checks: something is staged and what it is based on is still there.
Passed(e) == e.dirty /\ e.before = native

-----------------------------------------------------------------------------
(* The witness of manager.db.                                              *)

Fenced(e) ==
  witness # None =>
    witness.cand = e.cand /\ (witness.seq < e.seq \/ witness = e)

\* candidateFence(..., true).
Advanced(e) == IF witness = None THEN e
               ELSE IF witness.seq < e.seq THEN e ELSE witness

-----------------------------------------------------------------------------
(* Handlers.  at is the next step; env, in, req, op and saw are what the   *)
(* handler keeps in local variables; live is FALSE when ovs-webd no longer *)
(* waits for the call that the manager is executing.                       *)

Idle == [at |-> "idle", env |-> None, in |-> None, req |-> None, op |-> None,
         saw |-> None, live |-> TRUE]

ManagerSteps == {"resolve", "witness", "prepare", "sync", "validate", "admit", "commit"}
WebSteps == {"load", "adopt", "save", "reload", "vack", "ack"}

Local ==
  [at : {"idle"} \cup ManagerSteps \cup WebSteps, env : Envelope \cup {None},
   in : Envelope \cup {None}, req : Request \cup Validation \cup {None},
   op : Edits \cup {None}, saw : Value \cup {None}, live : BOOLEAN]

Go(p, at) == handler' = [handler EXCEPT ![p].at = at]
Ends(p) == handler' = [handler EXCEPT ![p] = Idle]

\* The answer of a call reaches the handler if ovs-webd still waits for it.
Answer(p, next) ==
  handler' = [handler EXCEPT ![p] = IF handler[p].live THEN next ELSE Idle]

Unresolved == {r \in Request : outbox[r] # None /\ ~outbox[r].resolved}

-----------------------------------------------------------------------------
(* Read: recover the workspace, load it, synchronize the witness.          *)

\* Seeded fault: only an answered admission is resolved.
BugReadStart(p) ==
  /\ handler[p].at = "idle"
  /\ LET due == {r \in Unresolved : outbox[r].receipt} IN
     \/ /\ due = {}
        /\ Go(p, "load")
     \/ \E r \in due :
          handler' = [handler EXCEPT ![p].at = "resolve", ![p].req = r,
                                     ![p].in = outbox[r].env]
  /\ UNCHANGED <<web, manager, engine, native, budget>>

\* recoverSafeWorkspace up to the call: an admission without an answer gets
\* ten seconds before it is resolved.
ReadStart(p) ==
  /\ handler[p].at = "idle"
  /\ LET due == {r \in Unresolved : outbox[r].receipt \/ outbox[r].old} IN
     \/ /\ due = {}
        /\ Go(p, "load")
     \/ \E r \in due :
          handler' = [handler EXCEPT ![p].at = "resolve", ![p].req = r,
                                     ![p].in = outbox[r].env]
  /\ UNCHANGED <<web, manager, engine, native, budget>>

\* Seeded fault: the sequence is raised twice.
BugNextSequence(r, e) == [e EXCEPT !.seq = @ + 2, !.rev = r]

\* Seeded fault: what was rolled back is thrown away with what was confirmed.
BugNextDraft(r, e) ==
  [cand |-> r, seq |-> e.seq + 1, rev |-> r, dirty |-> FALSE, before |-> None]

\* ResolveSafeApply: the successor of the draft, sealed and stored once.
NextDraft(r, e) ==
  IF phase[r] = "confirmed"
  THEN [cand |-> r, seq |-> e.seq + 1, rev |-> r, dirty |-> FALSE, before |-> None]
  ELSE [e EXCEPT !.seq = @ + 1, !.rev = r]

Resolvable(r, e) ==
  IF phase[r] = "confirmed" THEN witness = e
  ELSE Fenced(e)

ResolveSafeApply(p) ==
  LET r == handler[p].req
      e == handler[p].in
  IN
  /\ handler[p].at = "resolve"
  /\ \/ /\ successor[r] # None
        /\ Answer(p, [handler[p] EXCEPT !.at = "adopt", !.env = successor[r].env])
        /\ UNCHANGED <<witness, successor>>
     \/ /\ successor[r] = None /\ phase[r] = "open"
        /\ Answer(p, [handler[p] EXCEPT !.at = "load", !.in = None, !.req = None])
        /\ UNCHANGED <<witness, successor>>
     \/ /\ successor[r] = None /\ phase[r] # "open"
        /\ Resolvable(r, e)
        /\ successor' = [successor EXCEPT ![r] =
             [env |-> NextDraft(r, e), confirmed |-> phase[r] = "confirmed"]]
        /\ witness' = NextDraft(r, e)
        /\ Answer(p, [handler[p] EXCEPT !.at = "adopt", !.env = NextDraft(r, e)])
     \/ /\ successor[r] = None /\ phase[r] # "open"
        /\ ~Resolvable(r, e)
        /\ Ends(p)
        /\ UNCHANGED <<witness, successor>>
  /\ UNCHANGED <<web, verdicts, engine, native, budget>>

\* Seeded fault: the outbox is closed in a transaction before the swap.
BugAdopt(p) ==
  /\ handler[p].at = "adopt"
  /\ resv' = IF resv = handler[p].req THEN None ELSE resv
  /\ outbox' = [outbox EXCEPT ![handler[p].req].resolved = TRUE]
  /\ handler' = [handler EXCEPT ![p] = [Idle EXCEPT !.at = "load"]]
  /\ UNCHANGED <<ws, vbox, manager, engine, native, budget>>

\* The last transaction of recoverSafeWorkspace: compare and swap.
Adopt(p) ==
  LET r == handler[p].req
      next == handler[p].env
  IN
  /\ handler[p].at = "adopt"
  /\ \/ /\ ws = handler[p].in
        /\ ws' = next
        /\ resv' = IF resv = r THEN None ELSE resv
        /\ outbox' = [outbox EXCEPT ![r].resolved = TRUE]
        /\ handler' = [handler EXCEPT ![p] = [Idle EXCEPT !.at = "load"]]
     \/ /\ ws # handler[p].in /\ ws = next
        /\ handler' = [handler EXCEPT ![p] = [Idle EXCEPT !.at = "load"]]
        /\ UNCHANGED <<ws, resv, outbox>>
     \/ /\ ws # handler[p].in /\ ws # next
        /\ Ends(p)
        /\ UNCHANGED <<ws, resv, outbox>>
  /\ UNCHANGED <<vbox, manager, engine, native, budget>>

\* envelope(): the stored draft.
Load(p) ==
  /\ handler[p].at = "load"
  /\ handler' = [handler EXCEPT ![p].at = "witness", ![p].env = ws]
  /\ UNCHANGED <<web, manager, engine, native, budget>>

\* ReadCandidate advances the witness; the review it returns is not kept.
ReadCandidate(p) ==
  LET e == handler[p].env IN
  /\ handler[p].at = "witness"
  /\ witness' = IF Fenced(e) THEN Advanced(e) ELSE witness
  /\ Ends(p)
  /\ UNCHANGED <<web, verdicts, successor, engine, native, budget>>

-----------------------------------------------------------------------------
(* changeCandidate.                                                        *)

EditStart(p) ==
  /\ handler[p].at = "idle"
  /\ ws.seq < MaxSequence
  /\ \E op \in Edits :
       handler' = [handler EXCEPT ![p].at = "prepare", ![p].env = ws,
                                  ![p].op = op, ![p].saw = native]
  /\ UNCHANGED <<web, manager, engine, native, budget>>

PrepareCandidate(p) ==
  LET h == handler[p] IN
  /\ h.at = "prepare"
  /\ IF Fenced(h.env) /\ Preparable(h.env, h.op, h.saw)
     THEN Answer(p, [Idle EXCEPT !.at = "save", !.in = h.env,
                                 !.env = Prepare(h.env, h.op, p)])
     ELSE Ends(p)
  /\ UNCHANGED <<web, manager, engine, native, budget>>

\* Seeded fault: an edit does not look for a reservation.
BugEditable(e) == ws = e

\* The transaction of Execute: same revision, not reserved.
Editable(e) == ws = e /\ resv = None

SaveEdit(p) ==
  LET h == handler[p] IN
  /\ h.at = "save"
  /\ IF Editable(h.in)
     THEN /\ ws' = h.env
          /\ handler' = [handler EXCEPT ![p] = [Idle EXCEPT !.at = "witness", !.env = h.env]]
     ELSE UNCHANGED ws /\ Ends(p)
  /\ UNCHANGED <<resv, outbox, vbox, manager, engine, native, budget>>

-----------------------------------------------------------------------------
(* createValidation.                                                       *)

\* The validation outbox keeps the draft of the first attempt.
ValidateStart(p, v) ==
  /\ handler[p].at = "idle"
  /\ vbox' = [vbox EXCEPT ![v] = IF @ = None THEN [env |-> ws, receipt |-> FALSE] ELSE @]
  /\ handler' = [handler EXCEPT ![p].at = "reload", ![p].req = v, ![p].in = vbox'[v].env]
  /\ UNCHANGED <<ws, resv, outbox, manager, engine, native, budget>>

Reload(p) ==
  /\ handler[p].at = "reload"
  /\ handler' = [handler EXCEPT ![p].at = "sync", ![p].env = ws]
  /\ UNCHANGED <<web, manager, engine, native, budget>>

SyncWitness(p) ==
  LET e == handler[p].env IN
  /\ handler[p].at = "sync"
  /\ IF Fenced(e)
     THEN /\ witness' = Advanced(e)
          /\ Answer(p, [handler[p] EXCEPT !.at = "validate", !.env = None])
     ELSE UNCHANGED witness /\ Ends(p)
  /\ UNCHANGED <<web, verdicts, successor, engine, native, budget>>

ValidateCandidate(p) ==
  LET v == handler[p].req
      e == handler[p].in
  IN
  /\ handler[p].at = "validate"
  /\ \/ /\ verdicts[v] # None
        /\ Answer(p, [handler[p] EXCEPT !.at = "vack"])
        /\ UNCHANGED <<witness, verdicts>>
     \/ /\ verdicts[v] = None /\ Fenced(e)
        /\ witness' = Advanced(e)
        /\ verdicts' = [verdicts EXCEPT ![v] = [env |-> e, passed |-> Passed(e), live |-> TRUE]]
        /\ Answer(p, [handler[p] EXCEPT !.at = "vack"])
     \/ /\ verdicts[v] = None /\ ~Fenced(e)
        /\ Ends(p)
        /\ UNCHANGED <<witness, verdicts>>
  /\ UNCHANGED <<web, successor, engine, native, budget>>

AckValidation(p) ==
  /\ handler[p].at = "vack"
  /\ vbox' = [vbox EXCEPT ![handler[p].req].receipt = TRUE]
  /\ Ends(p)
  /\ UNCHANGED <<ws, resv, outbox, manager, engine, native, budget>>

-----------------------------------------------------------------------------
(* createTransaction.                                                      *)

\* The first transaction of applySafely: a repeat uses the stored request,
\* a new one freezes the draft.
ApplyStart(p, r) ==
  /\ handler[p].at = "idle"
  /\ \/ /\ outbox[r] # None
        /\ UNCHANGED <<resv, outbox>>
     \/ /\ outbox[r] = None
        /\ resv = None
        /\ \E v \in Validation :
             outbox' = [outbox EXCEPT ![r] =
               [env |-> ws, val |-> v, receipt |-> FALSE, resolved |-> FALSE, old |-> FALSE]]
        /\ resv' = r
  /\ handler' = [handler EXCEPT ![p].at = "admit", ![p].req = r,
                                ![p].in = outbox'[r].env]
  /\ UNCHANGED <<ws, vbox, manager, engine, native, budget>>

\* ExecutionAuthorizer: a validation of exactly this draft, passed, neither
\* expired nor outdated by policy, the exact witness, and checks that still pass.
Authorized(r, e) ==
  LET v == verdicts[outbox[r].val] IN
  /\ v # None /\ v.env = e /\ v.passed /\ v.live
  /\ witness = e
  /\ Passed(e)

\* The receipt of an earlier admission answers; otherwise the lease and the
\* authority are checked before the provider prepares the change.
AdmitSafeApply(p) ==
  LET r == handler[p].req
      e == handler[p].in
  IN
  /\ handler[p].at = "admit"
  /\ \/ /\ phase[r] # "none"
        /\ Answer(p, [handler[p] EXCEPT !.at = "ack"])
     \/ /\ phase[r] = "none" /\ successor[r] = None /\ Authorized(r, e)
        /\ Go(p, "commit")
     \/ /\ phase[r] = "none" /\ ~(successor[r] = None /\ Authorized(r, e))
        /\ Ends(p)
  /\ UNCHANGED <<web, manager, engine, native, budget>>

\* Seeded fault: the checks before the provider's preparation are trusted.
BugStillAdmissible(r, e) == TRUE

\* What the admission transaction checks again: the authority, inside Execute,
\* and the tombstone of the request, inside admitSafety.
StillAdmissible(r, e) == successor[r] = None /\ Authorized(r, e)

AdmitSafety(p) ==
  LET r == handler[p].req
      e == handler[p].in
  IN
  /\ handler[p].at = "commit"
  /\ \/ /\ phase[r] # "none"
        /\ Answer(p, [handler[p] EXCEPT !.at = "ack"])
        /\ UNCHANGED engine
     \/ /\ StillAdmissible(r, e)
        /\ Engine!Open(r)
        /\ Answer(p, [handler[p] EXCEPT !.at = "ack"])
     \/ /\ phase[r] = "none"
        /\ ~(StillAdmissible(r, e) /\ \A u \in Request : phase[u] # "open")
        /\ Ends(p)
        /\ UNCHANGED engine
  /\ UNCHANGED <<web, manager, native, budget>>

AckApply(p) ==
  /\ handler[p].at = "ack"
  /\ outbox' = [outbox EXCEPT ![handler[p].req].receipt = TRUE]
  /\ Ends(p)
  /\ UNCHANGED <<ws, resv, vbox, manager, engine, native, budget>>

\* Ten seconds after the outbox entry was written.
TenSeconds(r) ==
  /\ outbox[r] # None /\ ~outbox[r].old
  /\ outbox' = [outbox EXCEPT ![r].old = TRUE]
  /\ UNCHANGED <<ws, resv, vbox, manager, engine, native, handler, budget>>

-----------------------------------------------------------------------------
(* The engine: the steps of the contract, and what they write.  A change   *)
(* is applied over the before-image it waits for, and compensated only     *)
(* while Open vSwitch still has its value.                                 *)

EngineApply(r) ==
  /\ Engine!Apply(r)
  /\ native = outbox[r].env.before
  /\ native' = r
  /\ UNCHANGED <<web, manager, handler, budget>>

EngineUndo(r) ==
  /\ Engine!Undo(r)
  /\ native = r
  /\ native' = outbox[r].env.before
  /\ UNCHANGED <<web, manager, handler, budget>>

EngineVerdict(r) ==
  /\ Engine!Confirm(r) \/ Engine!RolledBack(r) \/ Engine!NotCommitted(r)
  /\ UNCHANGED <<web, manager, native, handler, budget>>

-----------------------------------------------------------------------------
(* Faults.                                                                 *)

Fault(kind) ==
  /\ kind \in Events /\ budget > 0
  /\ budget' = budget - 1

\* ovs-webd dies; calls the manager has received are still executed.
WebCrash ==
  /\ Fault("webd")
  /\ \E p \in Handler : handler[p] # Idle
  /\ handler' = [p \in Handler |->
       IF handler[p].at \in ManagerSteps THEN [handler[p] EXCEPT !.live = FALSE] ELSE Idle]
  /\ UNCHANGED <<web, manager, engine, native>>

\* ovs-mgrd dies; its callers get an error.
ManagerCrash ==
  /\ Fault("mgrd")
  /\ \E p \in Handler : handler[p].at \in ManagerSteps
  /\ handler' = [p \in Handler |-> IF handler[p].at \in ManagerSteps THEN Idle ELSE handler[p]]
  /\ UNCHANGED <<web, manager, engine, native>>

\* A handler ends early: the call times out while the manager goes on with
\* it, the client is gone, or a transaction on web.db fails.
GivesUp(p) ==
  /\ Fault("giveup")
  /\ handler[p] # Idle /\ handler[p].live
  /\ handler' = [handler EXCEPT ![p] =
       IF @.at \in ManagerSteps THEN [@ EXCEPT !.live = FALSE] ELSE Idle]
  /\ UNCHANGED <<web, manager, engine, native>>

\* Somebody else edits the object.
Drift ==
  /\ Fault("drift")
  /\ native # Foreign
  /\ native' = Foreign
  /\ UNCHANGED <<web, manager, engine, handler>>

\* A validation expires, or the policy, the credential or the capabilities it
\* was made under change.
Expires(v) ==
  /\ Fault("expire")
  /\ verdicts[v] # None /\ verdicts[v].live
  /\ verdicts' = [verdicts EXCEPT ![v].live = FALSE]
  /\ UNCHANGED <<web, witness, successor, engine, native, handler>>

-----------------------------------------------------------------------------
Init ==
  /\ ws = Staged /\ resv = None
  /\ outbox = [r \in Request |-> None]
  /\ vbox = [v \in Validation |-> None]
  /\ witness = None
  /\ verdicts = [v \in Validation |-> None]
  /\ successor = [r \in Request |-> None]
  /\ Engine!Init
  /\ native = First
  /\ handler = [p \in Handler |-> Idle]
  /\ budget = MaxEvents

\* A handler that has started goes on.
Step(p) ==
  \/ ResolveSafeApply(p) \/ Adopt(p) \/ Load(p) \/ ReadCandidate(p)
  \/ PrepareCandidate(p) \/ SaveEdit(p)
  \/ Reload(p) \/ SyncWitness(p) \/ ValidateCandidate(p) \/ AckValidation(p)
  \/ AdmitSafeApply(p) \/ AdmitSafety(p) \/ AckApply(p)

EngineStep(r) == EngineApply(r) \/ EngineUndo(r) \/ EngineVerdict(r)

Next ==
  \/ \E p \in Handler :
       \/ Step(p) \/ ReadStart(p) \/ EditStart(p) \/ GivesUp(p)
       \/ \E v \in Validation : ValidateStart(p, v)
       \/ \E r \in Request : ApplyStart(p, r)
  \/ \E r \in Request : TenSeconds(r) \/ EngineStep(r)
  \/ WebCrash \/ ManagerCrash \/ Drift
  \/ \E v \in Validation : Expires(v)

Spec == Init /\ [][Next]_vars

\* Handlers run, time passes, and the user keeps opening the workspace: recovery
\* happens on reads only.  Nothing is assumed of the engine: a change it opened
\* may stay open for ever, waiting for an administrator.
Fairness ==
  /\ \A p \in Handler : WF_vars(Step(p)) /\ SF_vars(ReadStart(p))
  /\ \A r \in Request : WF_vars(TenSeconds(r))

FairSpec == Spec /\ Fairness

-----------------------------------------------------------------------------
(* Properties.                                                             *)

TypeOK ==
  /\ ws \in Envelope
  /\ resv \in Request \cup {None}
  /\ outbox \in [Request -> Row \cup {None}]
  /\ vbox \in [Validation -> ValidationRow \cup {None}]
  /\ witness \in Envelope \cup {None}
  /\ verdicts \in [Validation -> VerdictRow \cup {None}]
  /\ successor \in [Request -> Resolution \cup {None}]
  /\ native \in Value
  /\ handler \in [Handler -> Local]
  /\ budget \in 0..MaxEvents

\* Once ovs-webd was told that a request has no transaction (a tombstone), or
\* what became of it, a delayed admission of that request cannot start one:
\* the stored resolution stays the truth about the engine.
ResolutionIsFinal ==
  \A r \in Request : successor[r] # None =>
    /\ phase[r] # "open"
    /\ successor[r].confirmed <=> phase[r] = "confirmed"

\* While a change is open, the draft in web.db is exactly the draft the manager
\* admitted, reserved by that request, and so is the manager's witness.
FrozenWhileOpen ==
  \A r \in Request : phase[r] = "open" =>
    /\ resv = r /\ ws = outbox[r].env
    /\ witness = ws

\* The two databases can always be brought together again: the manager has seen
\* this draft or an ancestor of it, or it stored the successor that the next
\* read will adopt (a crash between the two commits).
NeverSplit ==
  \/ witness = None
  \/ /\ ws.cand = witness.cand
     /\ witness.seq < ws.seq \/ witness = ws
  \/ \E r \in Unresolved :
       /\ outbox[r].env = ws
       /\ successor[r] # None /\ successor[r].env = witness

\* The draft is only replaced by a new one when its change was confirmed, and
\* a change that was not leaves what the user staged as it was.
DraftKept ==
  [][\A r \in Request :
       (resv = r /\ resv' = None) =>
         IF phase[r] = "confirmed" THEN ws'.cand = r /\ ~ws'.dirty
         ELSE ws'.cand = ws.cand /\ ws'.dirty = ws.dirty /\ ws'.before = ws.before]_web

\* A draft stays reserved only for a change that is open at the manager: when the
\* admission was lost, refused or never sent, and when the engine has given its
\* verdict, the reservation is released in the end, whatever died on the way.
Released ==
  \A r \in Request :
    (resv = r /\ phase[r] # "open") ~> (resv # r \/ phase[r] = "open")
=============================================================================
