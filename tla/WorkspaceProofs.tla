--------------------------- MODULE WorkspaceProofs ---------------------------
(***************************************************************************)
(* The draft between two databases, for any number of handlers, requests   *)
(* and validations, and any number of faults: the invariant that relates   *)
(* what each handler still holds to what web.db and manager.db say now.    *)
(***************************************************************************)
EXTENDS Workspace, FiniteSetTheorems, TLAPS

\* Requests whose outcome the manager has sealed.
Done(su) == {r \in Request : su[r] # None}

\* A candidate id is the first one, or was given by a resolution.
Named(e, su) == e.cand = First \/ su[e.cand] # None

\* An envelope that is the stored draft w, or was before it.
Earlier(e, w, su) ==
  /\ e \in Envelope /\ Named(e, su)
  /\ e = w \/ e.seq < w.seq

\* What a resolution makes of the draft of its request.
Follows(r, e, new, confirmed) ==
  /\ new.seq = e.seq + 1
  /\ IF confirmed THEN new.cand = r /\ ~new.dirty
     ELSE new.cand = e.cand /\ new.dirty = e.dirty /\ new.before = e.before

\* The sequence grows with edits up to their bound, and with resolutions.
Counted ==
  /\ ws.seq <= MaxSequence + Cardinality(Done(successor))
  /\ \A r \in Request : successor[r] # None =>
       successor[r].env.seq <= MaxSequence + Cardinality(Done(successor))

\* The engine, and what was admitted to it.
Opened ==
  /\ phase \in [Request -> {"none", "open"} \cup Engine!Verdict]
  /\ \A r \in Request : phase[r] # "none" =>
       outbox[r] # None /\ outbox[r].env.before \in Value
  /\ \A r \in Request : phase[r] = "open" => witness = outbox[r].env

\* The reservation is of the one request that is not resolved, and freezes its
\* draft; the draft of a resolved request is in the past.
Reserved ==
  /\ resv # None => outbox[resv] # None /\ ~outbox[resv].resolved
  /\ \A r \in Request : outbox[r] # None =>
       /\ Named(outbox[r].env, successor)
       /\ outbox[r].resolved => successor[r] # None /\ outbox[r].env.seq < ws.seq
       /\ ~outbox[r].resolved => resv = r /\ ws = outbox[r].env

\* A sealed outcome is of a request, and the witness has not fallen behind it.
Sealed ==
  \A r \in Request : successor[r] # None =>
    /\ outbox[r] # None
    /\ Follows(r, outbox[r].env, successor[r].env, successor[r].confirmed)
    /\ witness # None /\ successor[r].env.seq <= witness.seq

\* Drafts that wait for their validation were stored once.
Waiting == \A v \in Validation : vbox[v] # None => Earlier(vbox[v].env, ws, successor)

\* What the two databases and the engine say of each other.
Core ==
  /\ Counted /\ Opened /\ Reserved /\ Sealed /\ Waiting
  /\ Named(ws, successor)
  /\ ResolutionIsFinal /\ NeverSplit

RequestSteps == {"resolve", "adopt", "admit", "commit", "ack"}
ValidationSteps == {"reload", "sync", "validate", "vack"}

\* What a handler holds, against the draft w, the outboxes and the outcomes.
Holds(h, w, ob, vb, su) ==
  /\ h.at \in RequestSteps =>
       h.req \in Request /\ ob[h.req] # None /\ h.in = ob[h.req].env
  /\ h.at = "adopt" => su[h.req] # None /\ h.env = su[h.req].env
  /\ h.at \in {"witness", "sync", "prepare"} => Earlier(h.env, w, su)
  /\ h.at \in ValidationSteps =>
       h.req \in Validation /\ vb[h.req] # None /\ Earlier(h.in, w, su)
  /\ h.at = "prepare" => h.env.seq < MaxSequence /\ h.op \in Edits /\ h.saw \in Value
  /\ h.at = "save" => /\ Earlier(h.in, w, su) /\ h.env \in Envelope
                      /\ h.env.cand = h.in.cand
                      /\ h.env.seq = h.in.seq + 1 /\ h.env.seq <= MaxSequence

Inv ==
  /\ TypeOK /\ Core
  /\ \A p \in Handler : Holds(handler[p], ws, outbox, vbox, successor)

\* What DraftKept says of one step.
Keeps ==
  \A r \in Request :
    (resv = r /\ resv' = None) =>
      IF phase[r] = "confirmed" THEN ws'.cand = r /\ ~ws'.dirty
      ELSE ws'.cand = ws.cand /\ ws'.dirty = ws.dirty /\ ws'.before = ws.before

-----------------------------------------------------------------------------
(* Envelopes and what is held of them.                                     *)

LEMMA Numbers ==
  /\ MaxSequence \in Nat /\ MaxSequence # 0 /\ IsFiniteSet(Request)
  /\ Cardinality(Request) \in Nat
  /\ \A n : n \in Sequence <=> n \in Nat /\ n <= MaxSequence + Cardinality(Request)
<1>1. MaxSequence \in Nat /\ MaxSequence # 0 /\ IsFiniteSet(Request)
  BY WorkspaceAssumption
<1>2. Cardinality(Request) \in Nat
  BY <1>1, FS_CardinalityType
<1> QED
  BY <1>1, <1>2 DEF Sequence

LEMMA DoneCount ==
  ASSUME NEW su
  PROVE  /\ IsFiniteSet(Done(su)) /\ Cardinality(Done(su)) \in Nat
         /\ Cardinality(Done(su)) <= Cardinality(Request)
<1>1. Done(su) \in SUBSET Request
  BY DEF Done
<1>2. IsFiniteSet(Done(su)) /\ Cardinality(Done(su)) <= Cardinality(Request)
  BY <1>1, Numbers, FS_Subset
<1> QED
  BY <1>2, FS_CardinalityType

\* Rows are not None, and carry envelopes.
LEMMA RowTypes ==
  ASSUME TypeOK
  PROVE  /\ \A r \in Request : outbox[r] # None => outbox[r] \in Row /\ outbox[r].env \in Envelope
         /\ \A v \in Validation : vbox[v] # None =>
              vbox[v] \in ValidationRow /\ vbox[v].env \in Envelope
         /\ \A v \in Validation : verdicts[v] # None => verdicts[v] \in VerdictRow
         /\ \A r \in Request : successor[r] # None =>
              successor[r] \in Resolution /\ successor[r].env \in Envelope
         /\ \A e \in Envelope : /\ e.seq \in Nat /\ e.cand \in Request \cup {First} /\ e # None
                                /\ e.before \in Value \cup {None} /\ e.dirty \in BOOLEAN
<1>1. \A e \in Envelope : /\ e.seq \in Nat /\ e.cand \in Request \cup {First} /\ e # None
                          /\ e.before \in Value \cup {None} /\ e.dirty \in BOOLEAN
  BY Numbers, NoneAssumption DEF Envelope
<1>2. \A r \in Request : outbox[r] # None => outbox[r] \in Row /\ outbox[r].env \in Envelope
  BY DEF TypeOK, Row
<1>3. \A v \in Validation : vbox[v] # None =>
        vbox[v] \in ValidationRow /\ vbox[v].env \in Envelope
  BY DEF TypeOK, ValidationRow
<1>4. \A v \in Validation : verdicts[v] # None => verdicts[v] \in VerdictRow
  BY DEF TypeOK
<1>5. \A r \in Request : successor[r] # None =>
        successor[r] \in Resolution /\ successor[r].env \in Envelope
  BY DEF TypeOK, Resolution
<1> QED
  BY <1>1, <1>2, <1>3, <1>4, <1>5

\* The databases go on: the draft gets later, rows and outcomes stay.
Grows(w, ob, vb, su, w1, ob1, vb1, su1) ==
  /\ w \in Envelope /\ w1 \in Envelope
  /\ w1 = w \/ w.seq < w1.seq
  /\ \A r \in Request : ob[r] # None => ob1[r] # None /\ ob1[r].env = ob[r].env
  /\ \A v \in Validation : vb[v] # None => vb1[v] # None
  /\ \A r \in Request : su[r] # None => su1[r] = su[r]

LEMMA NamedLater ==
  ASSUME NEW e \in Envelope, NEW su, NEW su1, Named(e, su),
         \A r \in Request : su[r] # None => su1[r] = su[r]
  PROVE  Named(e, su1)
<1>1. e.cand \in Request \cup {First}
  BY DEF Envelope
<1> QED
  BY <1>1 DEF Named

LEMMA EarlierLater ==
  ASSUME NEW e, NEW w \in Envelope, NEW w1 \in Envelope, NEW su, NEW su1, Earlier(e, w, su),
         w1 = w \/ w.seq < w1.seq,
         \A r \in Request : su[r] # None => su1[r] = su[r]
  PROVE  Earlier(e, w1, su1)
<1>1. e \in Envelope /\ Named(e, su1)
  BY NamedLater DEF Earlier
<1>2. e.seq \in Nat /\ w.seq \in Nat /\ w1.seq \in Nat
  BY <1>1, Numbers DEF Envelope
<1>3. e = w1 \/ e.seq < w1.seq
  BY <1>2 DEF Earlier
<1> QED
  BY <1>1, <1>3 DEF Earlier

LEMMA HoldsLater ==
  ASSUME NEW h, NEW w, NEW ob, NEW vb, NEW su, NEW w1, NEW ob1, NEW vb1, NEW su1,
         Holds(h, w, ob, vb, su), Grows(w, ob, vb, su, w1, ob1, vb1, su1)
  PROVE  Holds(h, w1, ob1, vb1, su1)
<1>1. \A e : Earlier(e, w, su) => Earlier(e, w1, su1)
  BY EarlierLater DEF Grows
<1>2. h.at \in RequestSteps =>
        h.req \in Request /\ ob1[h.req] # None /\ h.in = ob1[h.req].env
  BY DEF Holds, Grows
<1>3. h.at = "adopt" => su1[h.req] # None /\ h.env = su1[h.req].env
  BY DEF Holds, Grows, RequestSteps
<1>4. h.at \in ValidationSteps =>
        h.req \in Validation /\ vb1[h.req] # None /\ Earlier(h.in, w1, su1)
  BY <1>1 DEF Holds, Grows
<1>5. h.at \in {"witness", "sync", "prepare"} => Earlier(h.env, w1, su1)
  BY <1>1 DEF Holds
<1>6. h.at = "save" => /\ Earlier(h.in, w1, su1) /\ h.env \in Envelope
                       /\ h.env.cand = h.in.cand
                       /\ h.env.seq = h.in.seq + 1 /\ h.env.seq <= MaxSequence
  BY <1>1 DEF Holds
<1>7. h.at = "prepare" => h.env.seq < MaxSequence /\ h.op \in Edits /\ h.saw \in Value
  BY DEF Holds
<1> QED
  BY <1>2, <1>3, <1>4, <1>5, <1>6, <1>7 DEF Holds

LEMMA IdleHolds ==
  /\ Idle \in Local
  /\ \A w, ob, vb, su : Holds(Idle, w, ob, vb, su)
<1>1. Idle \in Local /\ Idle.at = "idle"
  BY DEF Idle, Local
<1> QED
  BY <1>1 DEF Holds, RequestSteps, ValidationSteps

\* The handlers after a step of one of them.
LEMMA HandlersStep ==
  ASSUME Inv, NEW p \in Handler, NEW n \in Local, handler' = [handler EXCEPT ![p] = n],
         Grows(ws, outbox, vbox, successor, ws', outbox', vbox', successor'),
         Holds(n, ws', outbox', vbox', successor')
  PROVE  /\ handler' \in [Handler -> Local]
         /\ \A q \in Handler : Holds(handler'[q], ws', outbox', vbox', successor')
<1>1. handler \in [Handler -> Local]
  BY DEF Inv, TypeOK
<1>2. \A q \in Handler : handler'[q] = IF q = p THEN n ELSE handler[q]
  BY <1>1
<1>3. \A q \in Handler : Holds(handler[q], ws', outbox', vbox', successor')
  BY HoldsLater DEF Inv
<1> QED
  BY <1>1, <1>2, <1>3

\* Nothing grows in a step that leaves the databases alone.
LEMMA GrowsSame ==
  ASSUME Inv, UNCHANGED <<ws, outbox, vbox, successor>>
  PROVE  Grows(ws, outbox, vbox, successor, ws', outbox', vbox', successor')
BY DEF Inv, TypeOK, Grows

-----------------------------------------------------------------------------
(* Steps that leave the draft, its reservation and the engine alone.       *)

LEMMA CoreStands ==
  ASSUME Core, TypeOK, UNCHANGED <<ws, resv, witness, successor, phase>>,
         \A r \in Request :
            /\ outbox'[r] = None <=> outbox[r] = None
            /\ outbox[r] # None => /\ outbox'[r].env = outbox[r].env
                                   /\ outbox'[r].resolved = outbox[r].resolved,
         \A v \in Validation : vbox'[v] # None => Earlier(vbox'[v].env, ws, successor)
  PROVE  Core'
<1>1. Counted'
  BY DEF Core, Counted
<1>2. Opened'
  BY DEF Core, Opened
<1>3. Reserved'
  BY DEF Core, Reserved, TypeOK
<1>4. Sealed'
  BY DEF Core, Sealed
<1>5. Waiting'
  BY DEF Waiting
<1>6. Named(ws, successor)' /\ ResolutionIsFinal'
  BY DEF Core, ResolutionIsFinal
<1>7. NeverSplit'
  BY DEF Core, NeverSplit, Unresolved
<1> QED
  BY <1>1, <1>2, <1>3, <1>4, <1>5, <1>6, <1>7 DEF Core

\* Only handlers, faults, the native value and verdicts change.
LEMMA Aside ==
  ASSUME Inv, UNCHANGED <<ws, resv, outbox, vbox, witness, successor, phase>>,
         verdicts' \in [Validation -> VerdictRow \cup {None}], native' \in Value,
         budget' \in 0..MaxEvents, handler' \in [Handler -> Local],
         \A p \in Handler : Holds(handler'[p], ws, outbox, vbox, successor)
  PROVE  Inv' /\ Keeps
<1>1. Core'
  BY CoreStands DEF Inv, Core, Waiting
<1>2. TypeOK'
  BY DEF Inv, TypeOK
<1>3. Keeps
  BY WorkspaceAssumption DEF Keeps
<1> QED
  BY <1>1, <1>2, <1>3 DEF Inv

\* The same, when one handler takes a step.
LEMMA OneAside ==
  ASSUME Inv, UNCHANGED <<ws, resv, outbox, vbox, witness, successor, phase>>,
         verdicts' \in [Validation -> VerdictRow \cup {None}], native' = native,
         budget' \in 0..MaxEvents, NEW p \in Handler, NEW n \in Local,
         handler' = [handler EXCEPT ![p] = n], Holds(n, ws, outbox, vbox, successor)
  PROVE  Inv' /\ Keeps
<1>1. /\ handler' \in [Handler -> Local]
      /\ \A q \in Handler : Holds(handler'[q], ws, outbox, vbox, successor)
  BY GrowsSame, HandlersStep
<1> QED
  BY <1>1, Aside DEF Inv, TypeOK

\* What a handler may be holding after a step that changes where it is.
LEMMA LocalTypes ==
  ASSUME NEW h \in Local
  PROVE  /\ \A at \in {"idle"} \cup ManagerSteps \cup WebSteps :
              /\ [h EXCEPT !.at = at] \in Local
              /\ [h EXCEPT !.at = at].at = at
              /\ [h EXCEPT !.at = at].env = h.env /\ [h EXCEPT !.at = at].in = h.in
              /\ [h EXCEPT !.at = at].req = h.req
         /\ [h EXCEPT !.live = FALSE] \in Local
         /\ \A w, ob, vb, su :
              Holds(h, w, ob, vb, su) => Holds([h EXCEPT !.live = FALSE], w, ob, vb, su)
<1>1. \A at \in {"idle"} \cup ManagerSteps \cup WebSteps :
              /\ [h EXCEPT !.at = at] \in Local
              /\ [h EXCEPT !.at = at].at = at
              /\ [h EXCEPT !.at = at].env = h.env /\ [h EXCEPT !.at = at].in = h.in
              /\ [h EXCEPT !.at = at].req = h.req
  BY DEF Local
<1>2. LET n == [h EXCEPT !.live = FALSE]
      IN /\ n \in Local /\ n.at = h.at /\ n.env = h.env /\ n.in = h.in /\ n.req = h.req
         /\ n.op = h.op /\ n.saw = h.saw
  BY DEF Local
<1> HIDE DEF Local
<1>3. \A w, ob, vb, su :
        Holds(h, w, ob, vb, su) => Holds([h EXCEPT !.live = FALSE], w, ob, vb, su)
  <2> DEFINE n == [h EXCEPT !.live = FALSE]
  <2>1. /\ n.at = h.at /\ n.env = h.env /\ n.in = h.in /\ n.req = h.req
        /\ n.op = h.op /\ n.saw = h.saw
    BY <1>2
  <2> HIDE DEF n
  <2>2. \A w, ob, vb, su : Holds(h, w, ob, vb, su) => Holds(n, w, ob, vb, su)
    BY <2>1 DEF Holds
  <2> QED
    BY <2>2 DEF n
<1> QED
  BY <1>1, <1>2, <1>3

\* A handler ends, or its answer finds nobody.
LEMMA EndsAside ==
  ASSUME Inv, NEW p \in Handler, Ends(p), UNCHANGED <<web, manager, engine, native, budget>>
  PROVE  Inv' /\ Keeps
<1>1. /\ handler' = [handler EXCEPT ![p] = Idle]
      /\ UNCHANGED <<ws, resv, outbox, vbox, witness, successor, phase, verdicts, native, budget>>
  BY DEF Ends, web, manager, engine
<1> QED
  BY <1>1, IdleHolds, OneAside DEF Inv, TypeOK

\* A step that only moves one handler on.
LEMMA MovesAside ==
  ASSUME Inv, NEW p \in Handler, NEW n \in Local, Holds(n, ws, outbox, vbox, successor),
         \/ handler' = [handler EXCEPT ![p] = n]
         \/ Answer(p, n),
         UNCHANGED <<web, manager, engine, native, budget>>
  PROVE  Inv' /\ Keeps
<1>1. UNCHANGED <<ws, resv, outbox, vbox, witness, successor, phase, verdicts, native, budget>>
  BY DEF web, manager, engine
<1>2. CASE handler' = [handler EXCEPT ![p] = n]
  BY <1>1, <1>2, OneAside DEF Inv, TypeOK
<1>3. CASE handler' = [handler EXCEPT ![p] = Idle]
  BY <1>1, <1>3, IdleHolds, OneAside DEF Inv, TypeOK
<1> QED
  BY <1>2, <1>3 DEF Answer

\* envelope() and changeCandidate up to their calls: they hold the stored draft.
LEMMA ReadsKeep ==
  ASSUME Inv, NEW p \in Handler, ReadStart(p) \/ Load(p) \/ EditStart(p) \/ Reload(p)
  PROVE  Inv' /\ Keeps
<1> DEFINE h == handler[p]
<1>1. h \in Local /\ handler \in [Handler -> Local]
  BY DEF Inv, TypeOK
<1>2. Earlier(ws, ws, successor) /\ ws \in Envelope
  BY DEF Inv, TypeOK, Core, Earlier
<1>3. CASE Load(p)
  <2> DEFINE n == [h EXCEPT !.at = "witness", !.env = ws]
  <2>1. n \in Local /\ n.at = "witness" /\ n.env = ws
    BY <1>1, <1>2 DEF Local, ManagerSteps
  <2>2. /\ handler' = [handler EXCEPT ![p] = n]
        /\ UNCHANGED <<web, manager, engine, native, budget>>
    BY <1>1, <1>3 DEF Load
  <2> HIDE DEF n
  <2>3. Holds(n, ws, outbox, vbox, successor)
    BY <1>2, <2>1 DEF Holds, RequestSteps, ValidationSteps
  <2> QED
    BY <2>1, <2>2, <2>3, MovesAside
<1>4. CASE Reload(p)
  <2> DEFINE n == [h EXCEPT !.at = "sync", !.env = ws]
  <2>1. n \in Local /\ n.at = "sync" /\ n.env = ws /\ n.in = h.in /\ n.req = h.req
    BY <1>1, <1>2 DEF Local, ManagerSteps
  <2>2. /\ handler' = [handler EXCEPT ![p] = n] /\ h.at = "reload"
        /\ UNCHANGED <<web, manager, engine, native, budget>>
    BY <1>1, <1>4 DEF Reload
  <2>3. Holds(h, ws, outbox, vbox, successor)
    BY DEF Inv
  <2> HIDE DEF n, h
  <2>4. Holds(n, ws, outbox, vbox, successor)
    BY <1>2, <2>1, <2>2, <2>3 DEF Holds, RequestSteps, ValidationSteps
  <2> QED
    BY <2>1, <2>2, <2>4, MovesAside
<1>5. CASE EditStart(p)
  <2>1. PICK op \in Edits :
          handler' = [handler EXCEPT ![p] = [h EXCEPT !.at = "prepare", !.env = ws,
                                                      !.op = op, !.saw = native]]
    BY <1>1, <1>5 DEF EditStart
  <2> DEFINE n == [h EXCEPT !.at = "prepare", !.env = ws, !.op = op, !.saw = native]
  <2>2. ws.seq < MaxSequence /\ UNCHANGED <<web, manager, engine, native, budget>>
    BY <1>5 DEF EditStart
  <2>3. native \in Value
    BY DEF Inv, TypeOK
  <2>4. n \in Local /\ n.at = "prepare" /\ n.env = ws /\ n.op = op /\ n.saw = native
    BY <1>1, <1>2, <2>3 DEF Local, ManagerSteps
  <2> HIDE DEF n
  <2>5. Holds(n, ws, outbox, vbox, successor)
    BY <1>2, <2>2, <2>3, <2>4 DEF Holds, RequestSteps, ValidationSteps
  <2> QED
    BY <2>1, <2>2, <2>4, <2>5, MovesAside DEF n
<1>6. CASE ReadStart(p)
  <2>1. h.at = "idle" /\ UNCHANGED <<web, manager, engine, native, budget>>
    BY <1>6 DEF ReadStart
  <2>2. CASE Go(p, "load")
    <3> DEFINE n == [h EXCEPT !.at = "load"]
    <3>1. n \in Local /\ n.at = "load"
      BY <1>1 DEF Local, WebSteps
    <3>2. handler' = [handler EXCEPT ![p] = n]
      BY <1>1, <2>2 DEF Go
    <3> HIDE DEF n
    <3>3. Holds(n, ws, outbox, vbox, successor)
      BY <3>1 DEF Holds, RequestSteps, ValidationSteps
    <3> QED
      BY <2>1, <3>1, <3>2, <3>3, MovesAside
  <2>3. CASE \E r \in Unresolved :
               handler' = [handler EXCEPT ![p] = [h EXCEPT !.at = "resolve", !.req = r,
                                                           !.in = outbox[r].env]]
    <3>1. PICK r \in Unresolved :
            handler' = [handler EXCEPT ![p] = [h EXCEPT !.at = "resolve", !.req = r,
                                                        !.in = outbox[r].env]]
      BY <2>3
    <3> DEFINE n == [h EXCEPT !.at = "resolve", !.req = r, !.in = outbox[r].env]
    <3>2. r \in Request /\ outbox[r] # None /\ outbox[r].env \in Envelope
      BY RowTypes DEF Unresolved, Inv
    <3>3. n \in Local /\ n.at = "resolve" /\ n.req = r /\ n.in = outbox[r].env
      BY <1>1, <3>2 DEF Local, ManagerSteps
    <3> HIDE DEF n
    <3>4. Holds(n, ws, outbox, vbox, successor)
      BY <3>2, <3>3 DEF Holds, RequestSteps, ValidationSteps
    <3> QED
      BY <2>1, <3>1, <3>3, <3>4, MovesAside DEF n
  <2> QED
    BY <1>1, <1>6, <2>2, <2>3 DEF ReadStart
<1> QED
  BY <1>3, <1>4, <1>5, <1>6

\* Prepare makes the next envelope of the same candidate.
LEMMA PreparedDraft ==
  ASSUME NEW e \in Envelope, e.seq < MaxSequence, NEW op, NEW p \in Handler, native \in Value
  PROVE  LET n == Prepare(e, op, p)
         IN n \in Envelope /\ n.cand = e.cand /\ n.seq = e.seq + 1 /\ n.seq <= MaxSequence
<1> DEFINE kept == op \in {"stage", "keep-mine"}
           before == CASE ~kept -> None
                       [] op = "stage" /\ e.dirty -> e.before
                       [] OTHER -> native
           seq == e.seq + 1
<1>1. e.seq \in Nat /\ seq \in Sequence /\ seq <= MaxSequence
  BY Numbers DEF Envelope
<1>2. before \in Value \cup {None}
  BY DEF Envelope
<1>3. kept \in BOOLEAN
  OBVIOUS
<1>4. Prepare(e, op, p) = [e EXCEPT !.seq = seq, !.rev = p, !.dirty = kept, !.before = before]
  BY DEF Prepare
<1> HIDE DEF kept, before, seq
<1>5. LET n == [e EXCEPT !.seq = seq, !.rev = p, !.dirty = kept, !.before = before]
      IN n \in Envelope /\ n.cand = e.cand /\ n.seq = seq
  BY <1>1, <1>2, <1>3 DEF Envelope
<1> QED
  BY <1>1, <1>4, <1>5 DEF seq

LEMMA PrepareCandidateKeeps ==
  ASSUME Inv, NEW p \in Handler, PrepareCandidate(p)
  PROVE  Inv' /\ Keeps
<1> DEFINE h == handler[p]
           new == Prepare(h.env, h.op, p)
           n == [Idle EXCEPT !.at = "save", !.in = h.env, !.env = new]
<1>1. h \in Local /\ h.at = "prepare" /\ Holds(h, ws, outbox, vbox, successor)
      /\ native \in Value /\ UNCHANGED <<web, manager, engine, native, budget>>
  BY DEF Inv, TypeOK, PrepareCandidate
<1>2. Earlier(h.env, ws, successor) /\ h.env \in Envelope /\ h.env.seq < MaxSequence
  BY <1>1 DEF Holds, Earlier
<1>3. /\ new \in Envelope /\ new.cand = h.env.cand /\ new.seq = h.env.seq + 1
      /\ new.seq <= MaxSequence
  BY <1>1, <1>2, PreparedDraft
<1>4. Answer(p, n) \/ Ends(p)
  BY DEF PrepareCandidate
<1> HIDE DEF new
<1>5. n \in Local /\ n.at = "save" /\ n.in = h.env /\ n.env = new
  BY <1>2, <1>3 DEF Idle, Local, WebSteps
<1> HIDE DEF n, h
<1>6. Holds(n, ws, outbox, vbox, successor)
  BY <1>2, <1>3, <1>5 DEF Holds, RequestSteps, ValidationSteps
<1> QED
  BY <1>1, <1>4, <1>5, <1>6, MovesAside, EndsAside

\* The receipt of an admission answers, or the provider is asked.
LEMMA AdmitKeeps ==
  ASSUME Inv, NEW p \in Handler, AdmitSafeApply(p)
  PROVE  Inv' /\ Keeps
<1> DEFINE h == handler[p]
           n(at) == [h EXCEPT !.at = at]
<1>1. /\ h \in Local /\ h.at = "admit" /\ Holds(h, ws, outbox, vbox, successor)
      /\ handler \in [Handler -> Local]
      /\ UNCHANGED <<web, manager, engine, native, budget>>
  BY DEF Inv, TypeOK, AdmitSafeApply
<1>2. Answer(p, n("ack")) \/ handler' = [handler EXCEPT ![p] = n("commit")] \/ Ends(p)
  BY <1>1 DEF AdmitSafeApply, Go
<1>3. /\ n("ack") \in Local /\ n("ack").at = "ack"
      /\ n("ack").req = h.req /\ n("ack").in = h.in
      /\ n("commit") \in Local /\ n("commit").at = "commit"
      /\ n("commit").req = h.req /\ n("commit").in = h.in
  BY <1>1 DEF Local, WebSteps, ManagerSteps
<1> HIDE DEF n, h
<1>4. Holds(n("ack"), ws, outbox, vbox, successor)
  BY <1>1, <1>3 DEF Holds, RequestSteps, ValidationSteps
<1>5. Holds(n("commit"), ws, outbox, vbox, successor)
  BY <1>1, <1>3 DEF Holds, RequestSteps, ValidationSteps
<1> QED
  BY <1>1, <1>2, <1>3, <1>4, <1>5, MovesAside, EndsAside

-----------------------------------------------------------------------------
(* The outboxes.                                                           *)

\* Rows of the outboxes are marked, a draft is put aside for its validation:
\* one handler takes a step.
LEMMA BoxesStep ==
  ASSUME Inv, UNCHANGED <<ws, resv, witness, successor, phase, verdicts, native, budget>>,
         outbox' \in [Request -> Row \cup {None}],
         \A r \in Request :
            /\ outbox'[r] = None <=> outbox[r] = None
            /\ outbox[r] # None => /\ outbox'[r].env = outbox[r].env
                                   /\ outbox'[r].resolved = outbox[r].resolved,
         vbox' \in [Validation -> ValidationRow \cup {None}],
         \A v \in Validation :
            /\ vbox[v] # None => vbox'[v] # None
            /\ vbox'[v] # None => Earlier(vbox'[v].env, ws, successor),
         \/ handler' = handler
         \/ \E p \in Handler, n \in Local :
              handler' = [handler EXCEPT ![p] = n] /\ Holds(n, ws, outbox', vbox', successor)
  PROVE  Inv' /\ Keeps
<1>1. Core'
  BY CoreStands DEF Inv
<1>2. Grows(ws, outbox, vbox, successor, ws', outbox', vbox', successor')
  BY DEF Grows, Inv, TypeOK
<1>3. /\ handler' \in [Handler -> Local]
      /\ \A q \in Handler : Holds(handler'[q], ws', outbox', vbox', successor')
  <2>1. CASE handler' = handler
    BY <1>2, <2>1, HoldsLater DEF Inv, TypeOK
  <2>2. CASE \E p \in Handler, n \in Local :
              handler' = [handler EXCEPT ![p] = n] /\ Holds(n, ws, outbox', vbox', successor)
    BY <1>2, <2>2, HandlersStep
  <2> QED
    BY <2>1, <2>2
<1>4. TypeOK'
  BY <1>3 DEF Inv, TypeOK
<1>5. Keeps
  BY WorkspaceAssumption DEF Keeps
<1> QED
  BY <1>1, <1>3, <1>4, <1>5 DEF Inv

LEMMA ValidateStartKeeps ==
  ASSUME Inv, NEW p \in Handler, NEW v \in Validation, ValidateStart(p, v)
  PROVE  Inv' /\ Keeps
<1> DEFINE h == handler[p]
           fresh == [env |-> ws, receipt |-> FALSE]
           row == IF vbox[v] = None THEN fresh ELSE vbox[v]
           n == [h EXCEPT !.at = "reload", !.req = v, !.in = row.env]
<1>1. /\ vbox \in [Validation -> ValidationRow \cup {None}] /\ ws \in Envelope /\ h \in Local
      /\ handler \in [Handler -> Local] /\ Earlier(ws, ws, successor) /\ Waiting
      /\ outbox \in [Request -> Row \cup {None}]
  BY DEF Inv, TypeOK, Core, Earlier
<1>2. fresh \in ValidationRow /\ fresh.env = ws
  BY <1>1 DEF ValidationRow
<1>3. /\ vbox' = [vbox EXCEPT ![v] = row]
      /\ UNCHANGED <<ws, resv, outbox, manager, engine, native, budget>>
  BY DEF ValidateStart
<1> HIDE DEF fresh
<1>4. row \in ValidationRow /\ row # None /\ Earlier(row.env, ws, successor)
  <2>1. CASE vbox[v] = None
    BY <1>1, <1>2, <2>1, NoneAssumption
  <2>2. CASE vbox[v] # None
    BY <1>1, <2>2 DEF Waiting
  <2> QED
    BY <2>1, <2>2
<1> HIDE DEF row
<1>5. vbox'[v] = row /\ \A x \in Validation : x # v => vbox'[x] = vbox[x]
  BY <1>1, <1>3
<1>6. handler' = [handler EXCEPT ![p] = n]
  BY <1>1, <1>5 DEF ValidateStart
<1>7. n \in Local /\ n.at = "reload" /\ n.req = v /\ n.in = row.env
  BY <1>1, <1>4 DEF Local, WebSteps, Earlier
<1> HIDE DEF n
<1>8. Holds(n, ws, outbox', vbox', successor)
  BY <1>4, <1>5, <1>7 DEF Holds, RequestSteps, ValidationSteps
<1>9. vbox' \in [Validation -> ValidationRow \cup {None}]
  BY <1>1, <1>3, <1>4
<1>10. \A x \in Validation :
            /\ vbox[x] # None => vbox'[x] # None
            /\ vbox'[x] # None => Earlier(vbox'[x].env, ws, successor)
  BY <1>1, <1>4, <1>5 DEF Waiting
<1>11. UNCHANGED <<ws, resv, witness, successor, phase, verdicts, native, budget, outbox>>
  BY <1>3 DEF manager, engine
<1> QED
  BY <1>1, <1>6, <1>7, <1>8, <1>9, <1>10, <1>11, BoxesStep

LEMMA AckValidationKeeps ==
  ASSUME Inv, NEW p \in Handler, AckValidation(p)
  PROVE  Inv' /\ Keeps
<1> DEFINE v == handler[p].req
           row == [vbox[v] EXCEPT !.receipt = TRUE]
<1>1. /\ vbox \in [Validation -> ValidationRow \cup {None}] /\ Waiting
      /\ outbox \in [Request -> Row \cup {None}]
  BY DEF Inv, TypeOK, Core
<1>2. v \in Validation /\ vbox[v] # None
  BY DEF Inv, Holds, ValidationSteps, AckValidation
<1>3. vbox[v] \in ValidationRow
  BY <1>1, <1>2
<1>4. row \in ValidationRow /\ row.env = vbox[v].env /\ row # None
  BY <1>3, NoneAssumption DEF ValidationRow
<1>5. /\ vbox' = [vbox EXCEPT ![v] = row] /\ Ends(p)
      /\ UNCHANGED <<ws, resv, outbox, manager, engine, native, budget>>
  BY DEF AckValidation
<1> HIDE DEF row, v
<1>6. /\ vbox' \in [Validation -> ValidationRow \cup {None}]
      /\ \A x \in Validation : vbox'[x] = IF x = v THEN row ELSE vbox[x]
  BY <1>1, <1>2, <1>4, <1>5
<1>7. \A x \in Validation :
            /\ vbox[x] # None => vbox'[x] # None
            /\ vbox'[x] # None => Earlier(vbox'[x].env, ws, successor)
  BY <1>1, <1>2, <1>4, <1>6 DEF Waiting
<1>8. UNCHANGED <<ws, resv, witness, successor, phase, verdicts, native, budget, outbox>>
  BY <1>5 DEF manager, engine
<1>9. handler' = [handler EXCEPT ![p] = Idle] /\ Holds(Idle, ws, outbox', vbox', successor)
  BY <1>5, IdleHolds DEF Ends
<1> QED
  BY <1>1, <1>6, <1>7, <1>8, <1>9, IdleHolds, BoxesStep

\* The receipt of a request, and the age of its entry.
LEMMA MarkedKeeps ==
  ASSUME Inv, NEW r \in Request, outbox[r] # None, NEW row \in Row,
         row.env = outbox[r].env, row.resolved = outbox[r].resolved,
         outbox' = [outbox EXCEPT ![r] = row],
         UNCHANGED <<ws, resv, vbox, manager, engine, native, budget>>,
         \/ handler' = handler
         \/ \E p \in Handler : Ends(p)
  PROVE  Inv' /\ Keeps
<1>1. /\ vbox \in [Validation -> ValidationRow \cup {None}] /\ Waiting
      /\ outbox \in [Request -> Row \cup {None}]
  BY DEF Inv, TypeOK, Core
<1>2. row # None
  BY NoneAssumption
<1>3. /\ outbox' \in [Request -> Row \cup {None}]
      /\ \A x \in Request : outbox'[x] = IF x = r THEN row ELSE outbox[x]
  BY <1>1
<1>4. \A x \in Request :
            /\ outbox'[x] = None <=> outbox[x] = None
            /\ outbox[x] # None => /\ outbox'[x].env = outbox[x].env
                                   /\ outbox'[x].resolved = outbox[x].resolved
  BY <1>2, <1>3
<1>5. UNCHANGED <<ws, resv, witness, successor, phase, verdicts, native, budget, vbox>>
  BY DEF manager, engine
<1>6. \/ handler' = handler
      \/ \E p \in Handler, n \in Local :
           handler' = [handler EXCEPT ![p] = n] /\ Holds(n, ws, outbox', vbox', successor)
  BY IdleHolds DEF Ends
<1>7. \A v \in Validation :
            /\ vbox[v] # None => vbox'[v] # None
            /\ vbox'[v] # None => Earlier(vbox'[v].env, ws, successor)
  BY <1>1, <1>5 DEF Waiting
<1> QED
  BY <1>1, <1>3, <1>4, <1>5, <1>6, <1>7, BoxesStep

LEMMA AckApplyKeeps ==
  ASSUME Inv, NEW p \in Handler, AckApply(p)
  PROVE  Inv' /\ Keeps
<1> DEFINE r == handler[p].req
           row == [outbox[r] EXCEPT !.receipt = TRUE]
<1>1. r \in Request /\ outbox[r] # None
  BY DEF Inv, Holds, RequestSteps, AckApply
<1>2. outbox[r] \in Row
  BY <1>1, RowTypes DEF Inv
<1>3. row \in Row /\ row.env = outbox[r].env /\ row.resolved = outbox[r].resolved
  BY <1>2 DEF Row
<1>4. /\ outbox' = [outbox EXCEPT ![r] = row] /\ Ends(p)
      /\ UNCHANGED <<ws, resv, vbox, manager, engine, native, budget>>
  BY DEF AckApply
<1> HIDE DEF row, r
<1> QED
  BY <1>1, <1>3, <1>4, MarkedKeeps

LEMMA TenSecondsKeeps ==
  ASSUME Inv, NEW r \in Request, TenSeconds(r)
  PROVE  Inv' /\ Keeps
<1> DEFINE row == [outbox[r] EXCEPT !.old = TRUE]
<1>1. outbox[r] # None
  BY DEF TenSeconds
<1>2. outbox[r] \in Row
  BY <1>1, RowTypes DEF Inv
<1>3. row \in Row /\ row.env = outbox[r].env /\ row.resolved = outbox[r].resolved
  BY <1>2 DEF Row
<1>4. /\ outbox' = [outbox EXCEPT ![r] = row] /\ handler' = handler
      /\ UNCHANGED <<ws, resv, vbox, manager, engine, native, budget>>
  BY DEF TenSeconds
<1> HIDE DEF row
<1> QED
  BY <1>1, <1>3, <1>4, MarkedKeeps

\* The first transaction of applySafely: a request is written down with the
\* stored draft, which it reserves; a repeat finds it there.
LEMMA ApplyStartKeeps ==
  ASSUME Inv, NEW p \in Handler, NEW r \in Request, ApplyStart(p, r)
  PROVE  Inv' /\ Keeps
<1> DEFINE h == handler[p]
<1>1. /\ outbox \in [Request -> Row \cup {None}] /\ ws \in Envelope /\ h \in Local
      /\ handler \in [Handler -> Local] /\ Core /\ TypeOK
  BY DEF Inv, TypeOK
<1>2. UNCHANGED <<ws, vbox, witness, verdicts, successor, phase, native, budget>>
  BY DEF ApplyStart, manager, engine
<1>3. CASE outbox[r] # None /\ UNCHANGED <<resv, outbox>>
  <2> DEFINE n == [h EXCEPT !.at = "admit", !.req = r, !.in = outbox[r].env]
  <2>1. handler' = [handler EXCEPT ![p] = n]
    BY <1>1, <1>3 DEF ApplyStart
  <2>2. outbox[r].env \in Envelope
    BY <1>1, <1>3, RowTypes
  <2>3. n \in Local /\ n.at = "admit" /\ n.req = r /\ n.in = outbox[r].env
    BY <1>1, <2>2 DEF Local, ManagerSteps
  <2> HIDE DEF n
  <2>4. Holds(n, ws, outbox, vbox, successor)
    BY <1>3, <2>3 DEF Holds, RequestSteps, ValidationSteps
  <2> QED
    BY <1>1, <1>2, <1>3, <2>1, <2>3, <2>4, OneAside DEF TypeOK
<1>4. CASE outbox[r] = None /\ resv = None
  <2>1. PICK v \in Validation :
          outbox' = [outbox EXCEPT ![r] =
            [env |-> ws, val |-> v, receipt |-> FALSE, resolved |-> FALSE, old |-> FALSE]]
    BY <1>4 DEF ApplyStart
  <2> DEFINE row == [env |-> ws, val |-> v, receipt |-> FALSE, resolved |-> FALSE, old |-> FALSE]
             n == [h EXCEPT !.at = "admit", !.req = r, !.in = ws]
  <2>2. row \in Row /\ row.env = ws /\ ~row.resolved
    BY <1>1 DEF Row
  <2>3. row # None
    BY <2>2, NoneAssumption
  <2> HIDE DEF row
  <2>4. /\ outbox' \in [Request -> Row \cup {None}]
        /\ \A x \in Request : outbox'[x] = IF x = r THEN row ELSE outbox[x]
    BY <1>1, <2>1, <2>2 DEF row
  <2>5. resv' = r /\ outbox'[r].env = ws
    BY <1>4, <2>2, <2>4 DEF ApplyStart
  <2>6. handler' = [handler EXCEPT ![p] = n]
    BY <1>1, <2>5 DEF ApplyStart
  <2>7. n \in Local /\ n.at = "admit" /\ n.req = r /\ n.in = ws
    BY <1>1 DEF Local, ManagerSteps
  <2> HIDE DEF n
  <2>8. Holds(n, ws, outbox', vbox, successor)
    BY <2>3, <2>4, <2>5, <2>7 DEF Holds, RequestSteps, ValidationSteps
  <2>9. Grows(ws, outbox, vbox, successor, ws', outbox', vbox', successor')
    BY <1>1, <1>2, <1>4, <2>4 DEF Grows
  <2>10. /\ handler' \in [Handler -> Local]
         /\ \A q \in Handler : Holds(handler'[q], ws', outbox', vbox', successor')
    BY <1>2, <2>6, <2>7, <2>8, <2>9, HandlersStep
  <2>11. TypeOK'
    BY <1>1, <1>2, <2>4, <2>5, <2>10 DEF TypeOK
  <2>12. \A x \in Request : outbox[x] # None => outbox[x].resolved
    BY <1>1, <1>4, WorkspaceAssumption DEF Core, Reserved
  <2>13. Counted' /\ ResolutionIsFinal' /\ Waiting' /\ Named(ws, successor)'
    BY <1>1, <1>2 DEF Core, Counted, ResolutionIsFinal, Waiting
  <2>14. Opened'
    BY <1>1, <1>2, <1>4, <2>4 DEF Core, Opened
  <2>15. Reserved'
    BY <1>1, <1>2, <2>2, <2>3, <2>4, <2>5, <2>12 DEF Core, Reserved
  <2>16. Sealed'
    BY <1>1, <1>2, <1>4, <2>4 DEF Core, Sealed
  <2>17. NeverSplit'
    BY <1>1, <1>2, <2>12 DEF Core, NeverSplit, Unresolved
  <2>18. Keeps
    BY <1>4, WorkspaceAssumption DEF Keeps
  <2> QED
    BY <2>10, <2>11, <2>13, <2>14, <2>15, <2>16, <2>17, <2>18 DEF Inv, Core
<1> QED
  BY <1>3, <1>4 DEF ApplyStart

-----------------------------------------------------------------------------
(* The engine.                                                             *)

\* A verdict, or an admission of what is still authorized.
LEMMA PhaseStep ==
  ASSUME Core, TypeOK, NEW r \in Request, NEW to \in {"open"} \cup Engine!Verdict,
         phase' = [phase EXCEPT ![r] = to],
         UNCHANGED <<ws, resv, outbox, vbox, witness, successor>>,
         outbox[r] # None, outbox[r].env.before \in Value, successor[r] = None,
         to = "open" => witness = outbox[r].env
  PROVE  Core'
<1>1. /\ phase' \in [Request -> {"none", "open"} \cup Engine!Verdict]
      /\ \A x \in Request : phase'[x] = IF x = r THEN to ELSE phase[x]
  BY DEF Core, Opened
<1>2. Opened'
  BY <1>1 DEF Core, Opened
<1>3. ResolutionIsFinal'
  BY <1>1 DEF Core, ResolutionIsFinal
<1>4. Counted' /\ Reserved' /\ Sealed' /\ Waiting' /\ Named(ws, successor)' /\ NeverSplit'
  BY DEF Core, Counted, Reserved, Sealed, Waiting, NeverSplit, Unresolved
<1> QED
  BY <1>2, <1>3, <1>4 DEF Core

LEMMA AdmitSafetyKeeps ==
  ASSUME Inv, NEW p \in Handler, AdmitSafety(p)
  PROVE  Inv' /\ Keeps
<1> DEFINE h == handler[p]
           r == h.req
           n == [h EXCEPT !.at = "ack"]
<1>1. /\ h \in Local /\ h.at = "commit" /\ Holds(h, ws, outbox, vbox, successor)
      /\ handler \in [Handler -> Local] /\ Core /\ TypeOK /\ native \in Value
  BY DEF Inv, TypeOK, AdmitSafety
<1>2. r \in Request /\ outbox[r] # None /\ h.in = outbox[r].env
  BY <1>1 DEF Holds, RequestSteps
<1>3. n \in Local /\ n.at = "ack" /\ n.req = r /\ n.in = h.in
  BY <1>1 DEF Local, WebSteps
<1>4. UNCHANGED <<web, manager, native, budget>>
  BY DEF AdmitSafety
<1>5. Answer(p, n) \/ Ends(p)
  BY DEF AdmitSafety
<1> HIDE DEF n
<1>6. Holds(n, ws, outbox, vbox, successor)
  BY <1>2, <1>3 DEF Holds, RequestSteps, ValidationSteps
<1>7. CASE UNCHANGED engine
  BY <1>3, <1>4, <1>5, <1>6, <1>7, MovesAside, EndsAside
<1>8. CASE StillAdmissible(r, h.in) /\ Engine!Open(r)
  <2>1. successor[r] = None /\ witness = h.in /\ h.in.before = native
    BY <1>8 DEF StillAdmissible, Authorized, Passed
  <2>2. phase' = [phase EXCEPT ![r] = "open"]
    BY <1>8 DEF Engine!Open
  <2>3. UNCHANGED <<ws, resv, outbox, vbox, witness, successor, verdicts, native, budget>>
    BY <1>4 DEF web, manager
  <2> HIDE DEF r, h
  <2>4. Core'
    BY <1>1, <1>2, <2>1, <2>2, <2>3, PhaseStep
  <2>5. /\ handler' \in [Handler -> Local]
        /\ \A q \in Handler : Holds(handler'[q], ws', outbox', vbox', successor')
    BY <1>3, <1>5, <1>6, <2>3, GrowsSame, HandlersStep, IdleHolds DEF Answer, Ends
  <2>6. TypeOK'
    BY <1>1, <2>3, <2>5 DEF TypeOK
  <2>7. Keeps
    BY <2>3, WorkspaceAssumption DEF Keeps
  <2> QED
    BY <2>4, <2>5, <2>6, <2>7 DEF Inv
<1> QED
  BY <1>7, <1>8 DEF AdmitSafety

LEMMA EngineKeeps ==
  ASSUME Inv, NEW r \in Request, EngineStep(r)
  PROVE  Inv' /\ Keeps
<1>1. Core /\ TypeOK
  BY DEF Inv
<1>2. phase[r] = "open"
  BY DEF EngineStep, EngineApply, EngineUndo, EngineVerdict, Engine!Apply, Engine!Undo,
         Engine!Confirm, Engine!RolledBack, Engine!NotCommitted
<1>3. outbox[r] # None /\ outbox[r].env.before \in Value /\ successor[r] = None
  BY <1>1, <1>2 DEF Core, Opened, ResolutionIsFinal
<1>4. CASE EngineApply(r) \/ EngineUndo(r)
  <2>1. UNCHANGED <<ws, resv, outbox, vbox, witness, successor, phase, verdicts, handler, budget>>
    BY <1>4 DEF EngineApply, EngineUndo, Engine!Apply, Engine!Undo, web, manager
  <2>2. native' \in Value
    BY <1>3, <1>4 DEF EngineApply, EngineUndo, Value
  <2> QED
    BY <2>1, <2>2, Aside DEF Inv, TypeOK
<1>5. CASE EngineVerdict(r)
  <2>1. PICK to \in Engine!Verdict : phase' = [phase EXCEPT ![r] = to]
    BY <1>5 DEF EngineVerdict, Engine!Confirm, Engine!RolledBack, Engine!NotCommitted,
                Engine!Verdict
  <2>2. UNCHANGED <<ws, resv, outbox, vbox, witness, successor, verdicts, native, handler, budget>>
    BY <1>5 DEF EngineVerdict, web, manager
  <2>3. to # "open" /\ to \in {"open"} \cup Engine!Verdict
    BY DEF Engine!Verdict
  <2>4. Core'
    BY <1>1, <1>3, <2>1, <2>2, <2>3, PhaseStep
  <2>5. TypeOK' /\ Keeps
    BY <1>1, <2>2, WorkspaceAssumption DEF TypeOK, Keeps
  <2> QED
    BY <2>2, <2>4, <2>5 DEF Inv
<1> QED
  BY <1>4, <1>5 DEF EngineStep

-----------------------------------------------------------------------------
(* The witness moves to a draft that is, or was, the stored one.           *)

LEMMA WitnessMoves ==
  ASSUME Core, TypeOK, NEW e, Earlier(e, ws, successor), Fenced(e),
         witness' = Advanced(e),
         UNCHANGED <<ws, resv, outbox, vbox, successor, phase>>
  PROVE  Core' /\ witness' \in Envelope
<1>1. /\ e \in Envelope /\ ws \in Envelope /\ e.seq \in Nat /\ ws.seq \in Nat
      /\ e.cand \in Request \cup {First} /\ ws.cand \in Request \cup {First} /\ e # None
  BY RowTypes DEF TypeOK, Earlier
<1>2. e.seq <= ws.seq /\ (e = ws \/ e.seq < ws.seq)
  BY <1>1 DEF Earlier
<1>3. CASE witness' = witness /\ witness # None
  <2>1. \A v \in Validation : vbox'[v] # None => Earlier(vbox'[v].env, ws, successor)
    BY DEF Core, Waiting
  <2>2. Core'
    BY <1>3, <2>1, CoreStands
  <2> QED
    BY <1>3, <2>2 DEF TypeOK
<1>4. CASE witness = None
  <2>1. witness' = e
    BY <1>4 DEF Advanced
  <2>2. \A r \in Request : successor[r] = None /\ phase[r] # "open"
    <3>1. \A r \in Request : successor[r] = None
      BY <1>4 DEF Core, Sealed
    <3>2. ASSUME NEW r \in Request, phase[r] = "open"
          PROVE  FALSE
      BY <1>4, <3>2, RowTypes DEF Core, Opened
    <3> QED
      BY <3>1, <3>2
  <2>3. e.cand = First /\ ws.cand = First
    BY <1>1, <2>2 DEF Core, Named, Earlier
  <2>4. NeverSplit'
    BY <1>2, <2>1, <2>3 DEF NeverSplit
  <2>5. Opened' /\ Sealed' /\ ResolutionIsFinal'
    BY <2>2 DEF Core, Opened, Sealed, ResolutionIsFinal
  <2>6. Counted' /\ Reserved' /\ Waiting' /\ Named(ws, successor)'
    BY DEF Core, Counted, Reserved, Waiting
  <2> QED
    BY <1>1, <2>1, <2>4, <2>5, <2>6 DEF Core
<1>5. CASE witness # None /\ witness.seq < e.seq
  <2>1. /\ witness' = e /\ witness.cand = e.cand /\ witness \in Envelope /\ witness.seq \in Nat
        /\ witness # ws /\ witness.seq < ws.seq
    BY <1>1, <1>2, <1>5, RowTypes DEF Advanced, Fenced, TypeOK
  <2>2. ws.cand = witness.cand
    <3>1. ASSUME NEW r \in Unresolved, outbox[r].env = ws, successor[r] # None,
                 successor[r].env = witness
          PROVE  FALSE
      BY <1>1, <2>1, <3>1 DEF Core, Sealed, Follows, Unresolved
    <3> QED
      BY <1>5, <3>1 DEF Core, NeverSplit
  <2>3. NeverSplit'
    BY <1>2, <2>1, <2>2 DEF NeverSplit
  <2>4. \A r \in Request : phase[r] # "open"
    <3>1. ASSUME NEW r \in Request, phase[r] = "open"
          PROVE  FALSE
      <4>1. outbox[r] # None /\ witness = outbox[r].env /\ successor[r] = None
        BY <3>1 DEF Core, Opened, ResolutionIsFinal
      <4>2. ws = outbox[r].env
        BY <4>1 DEF Core, Reserved
      <4> QED
        BY <2>1, <4>1, <4>2
    <3> QED
      BY <3>1
  <2>5. Opened' /\ ResolutionIsFinal'
    BY <2>4 DEF Core, Opened, ResolutionIsFinal
  <2>6. Sealed'
    <3>1. ASSUME NEW r \in Request, successor[r] # None
          PROVE  successor[r].env.seq <= e.seq
      <4>1. successor[r].env.seq \in Nat /\ successor[r].env.seq <= witness.seq
        BY <3>1, RowTypes DEF Core, Sealed
      <4> QED
        BY <1>1, <1>5, <2>1, <4>1
    <3> QED
      BY <1>1, <2>1, <3>1 DEF Core, Sealed
  <2>7. Counted' /\ Reserved' /\ Waiting' /\ Named(ws, successor)'
    BY DEF Core, Counted, Reserved, Waiting
  <2> QED
    BY <1>1, <2>1, <2>3, <2>5, <2>6, <2>7 DEF Core
<1>6. witness' = witness \/ witness = None \/ witness.seq < e.seq
  BY DEF Advanced
<1> QED
  BY <1>3, <1>4, <1>5, <1>6

\* A handler of the manager moves the witness and answers.
LEMMA WitnessStep ==
  ASSUME Inv, NEW p \in Handler, NEW n \in Local, NEW e,
         Earlier(e, ws, successor), Fenced(e), witness' = Advanced(e),
         verdicts' \in [Validation -> VerdictRow \cup {None}],
         UNCHANGED <<web, successor, engine, native, budget>>,
         Holds(n, ws, outbox, vbox, successor), Answer(p, n) \/ Ends(p)
  PROVE  Inv' /\ Keeps
<1>1. UNCHANGED <<ws, resv, outbox, vbox, successor, phase, native, budget>>
  BY DEF web, engine
<1>2. Core' /\ witness' \in Envelope
  BY <1>1, WitnessMoves DEF Inv
<1>3. /\ handler' \in [Handler -> Local]
      /\ \A q \in Handler : Holds(handler'[q], ws', outbox', vbox', successor')
  BY <1>1, GrowsSame, HandlersStep, IdleHolds DEF Answer, Ends
<1>4. TypeOK'
  BY <1>1, <1>2, <1>3 DEF Inv, TypeOK
<1>5. Keeps
  BY <1>1, WorkspaceAssumption DEF Keeps
<1> QED
  BY <1>2, <1>3, <1>4, <1>5 DEF Inv

LEMMA ReadCandidateKeeps ==
  ASSUME Inv, NEW p \in Handler, ReadCandidate(p)
  PROVE  Inv' /\ Keeps
<1> DEFINE e == handler[p].env
<1>1. Earlier(e, ws, successor)
  BY DEF Inv, Holds, ReadCandidate
<1>2. CASE Fenced(e)
  <2>1. /\ witness' = Advanced(e) /\ Ends(p)
        /\ UNCHANGED <<web, verdicts, successor, engine, native, budget>>
    BY <1>2 DEF ReadCandidate
  <2> HIDE DEF e
  <2> QED
    BY <1>1, <1>2, <2>1, IdleHolds, WitnessStep DEF Inv, TypeOK
<1>3. CASE ~Fenced(e)
  BY <1>3, EndsAside DEF ReadCandidate, manager
<1> QED
  BY <1>2, <1>3

LEMMA SyncWitnessKeeps ==
  ASSUME Inv, NEW p \in Handler, SyncWitness(p)
  PROVE  Inv' /\ Keeps
<1> DEFINE h == handler[p]
           e == h.env
           n == [h EXCEPT !.at = "validate", !.env = None]
<1>1. h \in Local /\ Holds(h, ws, outbox, vbox, successor) /\ h.at = "sync"
  BY DEF Inv, TypeOK, SyncWitness
<1>2. /\ Earlier(e, ws, successor) /\ h.req \in Validation /\ vbox[h.req] # None
      /\ Earlier(h.in, ws, successor)
  BY <1>1 DEF Holds, ValidationSteps
<1>3. n \in Local /\ n.at = "validate" /\ n.req = h.req /\ n.in = h.in
  BY <1>1 DEF Local, ManagerSteps
<1>4. CASE Fenced(e)
  <2>1. /\ witness' = Advanced(e) /\ Answer(p, n)
        /\ UNCHANGED <<web, verdicts, successor, engine, native, budget>>
    BY <1>4 DEF SyncWitness
  <2> HIDE DEF n
  <2>2. Holds(n, ws, outbox, vbox, successor)
    BY <1>2, <1>3 DEF Holds, RequestSteps, ValidationSteps
  <2> HIDE DEF e, h
  <2> QED
    BY <1>2, <1>3, <1>4, <2>1, <2>2, WitnessStep DEF Inv, TypeOK
<1>5. CASE ~Fenced(e)
  BY <1>5, EndsAside DEF SyncWitness, manager
<1> QED
  BY <1>4, <1>5

LEMMA ValidateCandidateKeeps ==
  ASSUME Inv, NEW p \in Handler, ValidateCandidate(p)
  PROVE  Inv' /\ Keeps
<1> DEFINE h == handler[p]
           v == h.req
           e == h.in
           n == [h EXCEPT !.at = "vack"]
           row == [env |-> e, passed |-> Passed(e), live |-> TRUE]
<1>1. h \in Local /\ Holds(h, ws, outbox, vbox, successor) /\ h.at = "validate"
  BY DEF Inv, TypeOK, ValidateCandidate
<1>2. Earlier(e, ws, successor) /\ v \in Validation /\ vbox[v] # None
  BY <1>1 DEF Holds, ValidationSteps
<1>3. n \in Local /\ n.at = "vack" /\ n.req = h.req /\ n.in = h.in
  BY <1>1 DEF Local, WebSteps
<1>4. CASE verdicts[v] = None /\ Fenced(e)
  <2>1. /\ witness' = Advanced(e) /\ Answer(p, n)
        /\ verdicts' = [verdicts EXCEPT ![v] = row]
        /\ UNCHANGED <<web, successor, engine, native, budget>>
    BY <1>4 DEF ValidateCandidate
  <2>2. Passed(e) \in BOOLEAN
    BY <1>2, RowTypes DEF Passed, Earlier, Inv
  <2>3. row \in VerdictRow
    BY <1>2, <2>2 DEF VerdictRow, Earlier
  <2> HIDE DEF n, row
  <2>4. Holds(n, ws, outbox, vbox, successor)
    BY <1>2, <1>3 DEF Holds, RequestSteps, ValidationSteps
  <2> HIDE DEF e, h
  <2>5. verdicts' \in [Validation -> VerdictRow \cup {None}]
    BY <1>2, <2>1, <2>3 DEF Inv, TypeOK
  <2> QED
    BY <1>2, <1>3, <1>4, <2>1, <2>4, <2>5, WitnessStep
<1>5. CASE verdicts[v] # None
  <2>1. Answer(p, n) /\ UNCHANGED <<web, manager, engine, native, budget>>
    BY <1>5 DEF ValidateCandidate, manager
  <2> HIDE DEF n
  <2>2. Holds(n, ws, outbox, vbox, successor)
    BY <1>2, <1>3 DEF Holds, RequestSteps, ValidationSteps
  <2> QED
    BY <1>3, <2>1, <2>2, MovesAside
<1>6. CASE verdicts[v] = None /\ ~Fenced(e)
  BY <1>6, EndsAside DEF ValidateCandidate, manager
<1> QED
  BY <1>4, <1>5, <1>6

-----------------------------------------------------------------------------
(* ResolveSafeApply seals the outcome of a request.                        *)

LEMMA NextDraftFollows ==
  ASSUME NEW r \in Request, NEW e \in Envelope, e.seq + 1 \in Sequence
  PROVE  /\ NextDraft(r, e) \in Envelope
         /\ Follows(r, e, NextDraft(r, e), phase[r] = "confirmed")
<1>1. CASE phase[r] = "confirmed"
  <2> DEFINE n == [cand |-> r, seq |-> e.seq + 1, rev |-> r, dirty |-> FALSE, before |-> None]
  <2>1. NextDraft(r, e) = n
    BY <1>1 DEF NextDraft
  <2>2. n \in Envelope
    BY DEF Envelope
  <2>3. n.seq = e.seq + 1 /\ n.cand = r /\ n.dirty = FALSE
    OBVIOUS
  <2> HIDE DEF n
  <2> QED
    BY <1>1, <2>1, <2>2, <2>3 DEF Follows
<1>2. CASE phase[r] # "confirmed"
  <2> DEFINE n == [e EXCEPT !.seq = @ + 1, !.rev = r]
  <2>1. NextDraft(r, e) = n
    BY <1>2 DEF NextDraft
  <2>2. /\ n \in Envelope /\ n.seq = e.seq + 1 /\ n.cand = e.cand
        /\ n.dirty = e.dirty /\ n.before = e.before
    BY DEF Envelope
  <2> HIDE DEF n
  <2> QED
    BY <1>2, <2>1, <2>2 DEF Follows
<1> QED
  BY <1>1, <1>2

\* A request without an outcome is the one that holds the draft.
LEMMA HoldsDraft ==
  ASSUME Core, NEW r \in Request, outbox[r] # None, successor[r] = None
  PROVE  /\ resv = r /\ ws = outbox[r].env /\ r \in Unresolved
         /\ \A x \in Request : phase[x] = "open" => x = r
<1>1. \A x \in Request : (outbox[x] # None /\ successor[x] = None) =>
        ~outbox[x].resolved /\ resv = x /\ ws = outbox[x].env
  BY DEF Core, Reserved
<1>2. \A x \in Request : phase[x] = "open" => outbox[x] # None /\ successor[x] = None
  BY DEF Core, Opened, ResolutionIsFinal
<1> QED
  BY <1>1, <1>2 DEF Unresolved

LEMMA SealKeepsCore ==
  ASSUME Core, TypeOK, NEW r \in Request, outbox[r] # None, successor[r] = None,
         phase[r] # "open", NEW e, e = outbox[r].env, Resolvable(r, e),
         NEW new, new = NextDraft(r, e),
         successor' = [successor EXCEPT ![r] =
           [env |-> new, confirmed |-> phase[r] = "confirmed"]],
         witness' = new,
         UNCHANGED <<ws, resv, outbox, vbox, phase>>
  PROVE  /\ Core' /\ new \in Envelope
         /\ successor' \in [Request -> Resolution \cup {None}]
         /\ successor'[r] # None /\ successor'[r].env = new
         /\ \A x \in Request : successor[x] # None => successor'[x] = successor[x]
<1> DEFINE out == [env |-> new, confirmed |-> phase[r] = "confirmed"]
<1>1. /\ resv = r /\ ws = e /\ r \in Unresolved
      /\ \A x \in Request : phase[x] # "open"
  BY HoldsDraft
<1>2. e \in Envelope /\ e.seq \in Nat
  BY RowTypes
<1>3. /\ \A x \in Request : x # r => successor'[x] = successor[x]
      /\ successor'[r] = out
  BY DEF TypeOK
<1>4. /\ Cardinality(Done(successor')) = Cardinality(Done(successor)) + 1
      /\ Cardinality(Done(successor)) \in Nat
      /\ Cardinality(Done(successor')) <= Cardinality(Request)
  <2>1. out # None
    <3>1. CASE out \in Resolution
      BY <3>1, NoneAssumption
    <3>2. out \in Resolution
      <4>1. Cardinality(Done(successor)) < Cardinality(Request)
        <5>1. Done(successor) \in SUBSET Request /\ Done(successor) # Request
          BY DEF Done
        <5>2. Cardinality(Done(successor)) # Cardinality(Request)
          BY <5>1, Numbers, FS_Subset
        <5> QED
          BY <5>2, Numbers, DoneCount
      <4>2. e.seq + 1 \in Sequence
        BY <1>1, <1>2, <4>1, Numbers, DoneCount DEF Core, Counted
      <4>3. new \in Envelope
        BY <1>2, <4>2, NextDraftFollows
      <4> QED
        BY <4>3 DEF Resolution
    <3> QED
      BY <3>1, <3>2
  <2>2. Done(successor') = Done(successor) \cup {r} /\ r \notin Done(successor)
    BY <1>3, <2>1 DEF Done
  <2>3. /\ IsFiniteSet(Done(successor)) /\ Cardinality(Done(successor)) \in Nat
        /\ Cardinality(Done(successor')) <= Cardinality(Request)
    BY DoneCount
  <2> QED
    BY <2>2, <2>3, FS_AddElement
<1>5. e.seq + 1 \in Sequence
  BY <1>1, <1>2, <1>4, Numbers DEF Core, Counted
<1>6. new \in Envelope /\ Follows(r, e, new, phase[r] = "confirmed")
  BY <1>2, <1>5, NextDraftFollows
<1>7. /\ out \in Resolution /\ out.env = new
      /\ out.confirmed = (phase[r] = "confirmed")
  BY <1>6 DEF Resolution
<1>8. out # None
  BY <1>7, NoneAssumption
<1> HIDE DEF out
<1>9. /\ successor' \in [Request -> Resolution \cup {None}]
      /\ \A x \in Request : successor[x] # None => successor'[x] = successor[x]
  BY <1>3, <1>7 DEF TypeOK, out
<1>10. new.seq = e.seq + 1 /\ new # None
  BY <1>6, RowTypes DEF Follows
<1>later. /\ \A d \in Envelope : Named(d, successor) => Named(d, successor')
          /\ \A d : Earlier(d, ws, successor) => Earlier(d, ws, successor')
  <2>1. \A d \in Envelope : Named(d, successor) => Named(d, successor')
    BY <1>9, NamedLater
  <2> QED
    BY <2>1 DEF Earlier
<1>11. Counted'
  <2>1. ASSUME NEW x \in Request, successor'[x] # None
        PROVE  successor'[x].env.seq <= MaxSequence + Cardinality(Done(successor'))
    <3>1. CASE x = r
      BY <1>1, <1>2, <1>3, <1>4, <1>7, <1>10, <3>1, Numbers DEF Core, Counted
    <3>2. CASE x # r
      <4>1. /\ successor[x].env.seq \in Nat
            /\ successor[x].env.seq <= MaxSequence + Cardinality(Done(successor))
        BY <1>3, <2>1, <3>2, RowTypes DEF Core, Counted
      <4> QED
        BY <1>3, <1>4, <3>2, <4>1, Numbers
    <3> QED
      BY <3>1, <3>2
  <2>2. ws.seq <= MaxSequence + Cardinality(Done(successor'))
    BY <1>1, <1>2, <1>4, Numbers DEF Core, Counted
  <2> QED
    BY <2>1, <2>2 DEF Counted
<1>12. Opened'
  BY <1>1 DEF Core, Opened
<1>13. Reserved'
  <2>1. ASSUME NEW x \in Request, outbox[x] # None
        PROVE  /\ Named(outbox[x].env, successor')
               /\ outbox[x].resolved => successor'[x] # None
    <3>1. outbox[x].env \in Envelope /\ Named(outbox[x].env, successor)
      BY <2>1, RowTypes DEF Core, Reserved
    <3>2. outbox[x].resolved => successor'[x] # None
      BY <1>9, <2>1 DEF Core, Reserved
    <3> QED
      BY <1>later, <3>1, <3>2
  <2> QED
    BY <2>1 DEF Core, Reserved
<1>14. Sealed'
  <2>1. ASSUME NEW x \in Request, successor'[x] # None
        PROVE  /\ outbox[x] # None
               /\ Follows(x, outbox[x].env, successor'[x].env, successor'[x].confirmed)
               /\ successor'[x].env.seq <= new.seq
    <3>1. CASE x = r
      BY <1>2, <1>3, <1>6, <1>7, <1>10, <3>1
    <3>2. CASE x # r
      <4>1. /\ outbox[x] # None /\ successor[x].env.seq \in Nat
            /\ Follows(x, outbox[x].env, successor[x].env, successor[x].confirmed)
            /\ witness # None /\ successor[x].env.seq <= witness.seq
        BY <1>3, <2>1, <3>2, RowTypes DEF Core, Sealed
      <4>2. witness.seq \in Nat /\ (witness = e \/ witness.seq < e.seq)
        BY <4>1, RowTypes DEF TypeOK, Resolvable, Fenced
      <4> QED
        BY <1>2, <1>3, <1>10, <3>2, <4>1, <4>2
    <3> QED
      BY <3>1, <3>2
  <2> QED
    BY <1>10, <2>1 DEF Sealed
<1>15. Waiting'
  BY <1>later DEF Core, Waiting
<1>16. Named(ws, successor)'
  BY <1>later DEF Core, TypeOK
<1>17. ResolutionIsFinal'
  BY <1>1, <1>3, <1>7 DEF Core, ResolutionIsFinal
<1>18. NeverSplit'
  BY <1>1, <1>3, <1>7, <1>8 DEF NeverSplit, Unresolved
<1> QED
  BY <1>3, <1>6, <1>7, <1>8, <1>9, <1>11, <1>12, <1>13, <1>14, <1>15, <1>16, <1>17, <1>18 DEF Core

LEMMA ResolveSafeApplyKeeps ==
  ASSUME Inv, NEW p \in Handler, ResolveSafeApply(p)
  PROVE  Inv' /\ Keeps
<1> DEFINE h == handler[p]
           r == h.req
           e == h.in
           adopt(d) == [h EXCEPT !.at = "adopt", !.env = d]
           back == [h EXCEPT !.at = "load", !.in = None, !.req = None]
<1>1. /\ h \in Local /\ Holds(h, ws, outbox, vbox, successor) /\ h.at = "resolve"
      /\ Core /\ TypeOK
  BY DEF Inv, TypeOK, ResolveSafeApply
<1>2. r \in Request /\ outbox[r] # None /\ e = outbox[r].env
  BY <1>1 DEF Holds, RequestSteps
<1>3. back \in Local /\ back.at = "load"
  BY <1>1 DEF Local, WebSteps
<1>4. ASSUME NEW d \in Envelope
      PROVE  adopt(d) \in Local /\ adopt(d).at = "adopt" /\ adopt(d).env = d
             /\ adopt(d).req = r /\ adopt(d).in = e
  BY <1>1, <1>4 DEF Local, WebSteps
<1>5. UNCHANGED <<web, verdicts, engine, native, budget>>
  BY DEF ResolveSafeApply
<1>6. CASE /\ successor[r] # None /\ UNCHANGED <<witness, successor>>
           /\ Answer(p, adopt(successor[r].env))
  <2>1. successor[r].env \in Envelope
    BY <1>1, <1>2, <1>6, RowTypes
  <2> DEFINE n == adopt(successor[r].env)
  <2>2. n \in Local /\ n.at = "adopt" /\ n.env = successor[r].env /\ n.req = r /\ n.in = e
    BY <1>4, <2>1
  <2>3. Answer(p, n) /\ UNCHANGED <<web, manager, engine, native, budget>>
    BY <1>5, <1>6 DEF manager
  <2> HIDE DEF n, adopt
  <2>4. Holds(n, ws, outbox, vbox, successor)
    BY <1>2, <1>6, <2>2 DEF Holds, RequestSteps, ValidationSteps
  <2> QED
    BY <2>2, <2>3, <2>4, MovesAside
<1>7. CASE UNCHANGED <<witness, successor>> /\ Answer(p, back)
  <2>1. Answer(p, back) /\ UNCHANGED <<web, manager, engine, native, budget>>
    BY <1>5, <1>7 DEF manager
  <2> HIDE DEF back
  <2>2. Holds(back, ws, outbox, vbox, successor)
    BY <1>3 DEF Holds, RequestSteps, ValidationSteps
  <2> QED
    BY <1>3, <2>1, <2>2, MovesAside
<1>8. CASE UNCHANGED <<witness, successor>> /\ Ends(p)
  BY <1>5, <1>8, EndsAside DEF manager
<1>9. CASE /\ successor[r] = None /\ phase[r] # "open" /\ Resolvable(r, e)
           /\ successor' = [successor EXCEPT ![r] =
                [env |-> NextDraft(r, e), confirmed |-> phase[r] = "confirmed"]]
           /\ witness' = NextDraft(r, e)
           /\ Answer(p, adopt(NextDraft(r, e)))
  <2> DEFINE new == NextDraft(r, e)
             n == adopt(new)
  <2>1. UNCHANGED <<ws, resv, outbox, vbox, phase, verdicts, native, budget>>
    BY <1>5 DEF web, engine
  <2>2. /\ Core' /\ new \in Envelope
        /\ successor' \in [Request -> Resolution \cup {None}]
        /\ successor'[r] # None /\ successor'[r].env = new
        /\ \A x \in Request : successor[x] # None => successor'[x] = successor[x]
    <3> HIDE DEF r, e, h, adopt, back
    <3> QED
      BY <1>1, <1>2, <1>9, <2>1, SealKeepsCore
  <2>3. n \in Local /\ n.at = "adopt" /\ n.env = new /\ n.req = r /\ n.in = e
    BY <1>4, <2>2
  <2>4. Answer(p, n) /\ witness' = new
    BY <1>9
  <2> HIDE DEF new, n, adopt
  <2>5. Holds(n, ws, outbox, vbox, successor')
    BY <1>2, <2>2, <2>3 DEF Holds, RequestSteps, ValidationSteps
  <2>6. Grows(ws, outbox, vbox, successor, ws', outbox', vbox', successor')
    BY <1>1, <2>1, <2>2 DEF Grows, TypeOK
  <2>7. /\ handler' \in [Handler -> Local]
        /\ \A q \in Handler : Holds(handler'[q], ws', outbox', vbox', successor')
    BY <2>1, <2>3, <2>4, <2>5, <2>6, HandlersStep, IdleHolds DEF Answer
  <2>8. TypeOK'
    BY <1>1, <2>1, <2>2, <2>4, <2>7 DEF TypeOK
  <2>9. Keeps
    BY <2>1, WorkspaceAssumption DEF Keeps
  <2> QED
    BY <2>2, <2>7, <2>8, <2>9 DEF Inv
<1> QED
  BY <1>6, <1>7, <1>8, <1>9 DEF ResolveSafeApply

-----------------------------------------------------------------------------
(* The stored draft is replaced: by an edit, or by the successor of the     *)
(* request that froze it.                                                  *)

LEMMA DraftReplaced ==
  ASSUME Core, TypeOK, ws' \in Envelope, ws'.seq = ws.seq + 1, Named(ws', successor),
         ws'.seq <= MaxSequence + Cardinality(Done(successor)),
         \A x \in Request : phase[x] # "open",
         resv' = None,
         \A x \in Request :
            /\ outbox'[x] = None <=> outbox[x] = None
            /\ outbox[x] # None => /\ outbox'[x].env = outbox[x].env
                                   /\ outbox'[x].resolved /\ successor[x] # None
                                   /\ outbox[x].env.seq <= ws.seq,
         UNCHANGED <<vbox, witness, successor, phase>>,
         \/ witness = None
         \/ ws'.cand = witness.cand /\ (witness.seq < ws'.seq \/ witness = ws')
  PROVE  /\ Core'
         /\ Grows(ws, outbox, vbox, successor, ws', outbox', vbox', successor')
<1>1. ws \in Envelope /\ ws.seq \in Nat /\ ws'.seq \in Nat /\ ws.seq < ws'.seq
  BY RowTypes DEF TypeOK
<1>2. Counted'
  BY DEF Core, Counted
<1>3. Opened'
  BY DEF Core, Opened
<1>4. Reserved'
  <2>1. ASSUME NEW x \in Request, outbox'[x] # None
        PROVE  /\ Named(outbox'[x].env, successor)
               /\ outbox'[x].resolved /\ successor[x] # None /\ outbox'[x].env.seq < ws'.seq
    <3>1. outbox[x] # None /\ outbox'[x].env = outbox[x].env /\ outbox[x].env.seq \in Nat
      BY <2>1, RowTypes
    <3> QED
      BY <1>1, <3>1 DEF Core, Reserved
  <2> QED
    BY <2>1 DEF Reserved
<1>5. Sealed'
  BY DEF Core, Sealed
<1>6. Waiting'
  <2>1. \A d : Earlier(d, ws, successor) => Earlier(d, ws', successor)
    BY <1>1, EarlierLater
  <2> QED
    BY <2>1 DEF Core, Waiting
<1>7. Named(ws, successor)' /\ ResolutionIsFinal'
  BY DEF Core, ResolutionIsFinal
<1>8. NeverSplit'
  BY DEF NeverSplit
<1>9. Grows(ws, outbox, vbox, successor, ws', outbox', vbox', successor')
  BY <1>1 DEF Grows
<1> QED
  BY <1>2, <1>3, <1>4, <1>5, <1>6, <1>7, <1>8, <1>9 DEF Core

\* Adopt, when the draft is still the one that the request froze.
LEMMA SwapKeeps ==
  ASSUME Inv, NEW p \in Handler, NEW r \in Request, outbox[r] # None, successor[r] # None,
         ws = outbox[r].env, ws' = successor[r].env,
         resv' = IF resv = r THEN None ELSE resv,
         outbox' = [outbox EXCEPT ![r].resolved = TRUE],
         handler' = [handler EXCEPT ![p] = [Idle EXCEPT !.at = "load"]],
         UNCHANGED <<vbox, witness, successor, verdicts, phase, native, budget>>
  PROVE  Inv' /\ Keeps
<1> DEFINE row == [outbox[r] EXCEPT !.resolved = TRUE]
           n == [Idle EXCEPT !.at = "load"]
           new == successor[r].env
<1>1. /\ Core /\ TypeOK /\ ws \in Envelope /\ ws.seq \in Nat /\ outbox[r] \in Row
      /\ new \in Envelope /\ new.seq \in Nat
      /\ outbox \in [Request -> Row \cup {None}]
  BY RowTypes DEF Inv, TypeOK
<1>2. ~outbox[r].resolved /\ resv = r /\ resv' = None
  BY <1>1 DEF Core, Reserved
<1>3. row \in Row /\ row.env = outbox[r].env /\ row.resolved = TRUE
  BY <1>1 DEF Row
<1>4. row # None
  BY <1>3, NoneAssumption
<1>5. n \in Local /\ n.at = "load"
  BY IdleHolds DEF Local, WebSteps
<1> HIDE DEF row, n
<1>6. /\ outbox' \in [Request -> Row \cup {None}]
      /\ \A x \in Request : outbox'[x] = IF x = r THEN row ELSE outbox[x]
  BY <1>1, <1>3 DEF row
<1>7. Follows(r, ws, new, successor[r].confirmed) /\ witness # None /\ new.seq <= witness.seq
  BY <1>1 DEF Core, Sealed
<1>8. new.seq = ws.seq + 1
  BY <1>7 DEF Follows
<1>9. \A x \in Request : (x # r /\ outbox[x] # None) => outbox[x].resolved
  BY <1>1, <1>2 DEF Core, Reserved
<1>10. \A x \in Request : phase[x] # "open"
  <2>1. ASSUME NEW x \in Request, phase[x] = "open"
        PROVE  FALSE
    <3>1. outbox[x] # None /\ successor[x] = None
      BY <1>1, <2>1 DEF Core, Opened, ResolutionIsFinal
    <3> QED
      BY <1>1, <1>9, <3>1 DEF Core, Reserved
  <2> QED
    BY <2>1
<1>11. witness = new
  <2>1. witness \in Envelope /\ witness.seq \in Nat
    BY <1>1, <1>7, RowTypes DEF TypeOK
  <2>2. ~(witness.seq < ws.seq) /\ witness # ws
    BY <1>1, <1>7, <1>8, <2>1
  <2>3. PICK x \in Unresolved : successor[x].env = witness
    BY <1>1, <1>7, <2>2 DEF Core, NeverSplit
  <2> QED
    BY <1>9, <2>3 DEF Unresolved
<1>12. Named(new, successor)
  BY <1>1, <1>7 DEF Core, Reserved, Follows, Named
<1>13. new.seq <= MaxSequence + Cardinality(Done(successor))
  BY <1>1 DEF Core, Counted
<1>14. \A x \in Request :
            /\ outbox'[x] = None <=> outbox[x] = None
            /\ outbox[x] # None => /\ outbox'[x].env = outbox[x].env
                                   /\ outbox'[x].resolved /\ successor[x] # None
                                   /\ outbox[x].env.seq <= ws.seq
  <2>1. ASSUME NEW x \in Request, x # r, outbox[x] # None
        PROVE  successor[x] # None /\ outbox[x].env.seq <= ws.seq
    BY <1>1, <1>9, <2>1, RowTypes DEF Core, Reserved
  <2>2. \A x \in Request : x # r => outbox'[x] = outbox[x]
    BY <1>6
  <2>3. outbox'[r] = row
    BY <1>6
  <2>4. ws.seq <= ws.seq
    BY <1>1
  <2>5. /\ outbox'[r] # None /\ outbox'[r].env = outbox[r].env /\ outbox'[r].resolved
        /\ outbox[r].env.seq <= ws.seq
    BY <1>3, <1>4, <2>3, <2>4
  <2> QED
    BY <1>9, <2>1, <2>2, <2>5
<1>15. /\ Core'
       /\ Grows(ws, outbox, vbox, successor, ws', outbox', vbox', successor')
  <2>1. /\ ws' \in Envelope /\ ws'.seq = ws.seq + 1 /\ Named(ws', successor)
        /\ ws'.seq <= MaxSequence + Cardinality(Done(successor)) /\ witness = ws'
    BY <1>1, <1>8, <1>11, <1>12, <1>13
  <2>2. \/ witness = None
        \/ ws'.cand = witness.cand /\ (witness.seq < ws'.seq \/ witness = ws')
    BY <2>1
  <2>3. UNCHANGED <<vbox, witness, successor, phase>>
    OBVIOUS
  <2> HIDE DEF new
  <2> QED
    BY <1>1, <1>2, <1>10, <1>14, <2>1, <2>2, <2>3, DraftReplaced
<1>16. Holds(n, ws', outbox', vbox', successor')
  BY <1>5 DEF Holds, RequestSteps, ValidationSteps
<1>17. /\ handler' \in [Handler -> Local]
       /\ \A q \in Handler : Holds(handler'[q], ws', outbox', vbox', successor')
  <2>1. handler' = [handler EXCEPT ![p] = n]
    BY DEF n
  <2> QED
    BY <1>5, <1>15, <1>16, <2>1, HandlersStep
<1>18. TypeOK'
  BY <1>1, <1>2, <1>6, <1>17 DEF TypeOK
<1>19. Keeps
  <2>1. successor[r].confirmed <=> phase[r] = "confirmed"
    BY <1>1 DEF Core, ResolutionIsFinal
  <2> QED
    BY <1>2, <1>7, <2>1 DEF Keeps, Follows
<1> QED
  BY <1>15, <1>17, <1>18, <1>19 DEF Inv

LEMMA AdoptKeeps ==
  ASSUME Inv, NEW p \in Handler, Adopt(p)
  PROVE  Inv' /\ Keeps
<1> DEFINE h == handler[p]
           r == h.req
           n == [Idle EXCEPT !.at = "load"]
<1>1. h \in Local /\ Holds(h, ws, outbox, vbox, successor) /\ h.at = "adopt"
  BY DEF Inv, TypeOK, Adopt
<1>2. /\ r \in Request /\ outbox[r] # None /\ h.in = outbox[r].env
      /\ successor[r] # None /\ h.env = successor[r].env
  BY <1>1 DEF Holds, RequestSteps
<1>3. UNCHANGED <<vbox, manager, engine, native, budget>>
  BY DEF Adopt
<1>4. CASE /\ ws = h.in /\ ws' = h.env
           /\ resv' = IF resv = r THEN None ELSE resv
           /\ outbox' = [outbox EXCEPT ![r].resolved = TRUE]
           /\ handler' = [handler EXCEPT ![p] = n]
  <2>1. UNCHANGED <<vbox, witness, successor, verdicts, phase, native, budget>>
    BY <1>3 DEF manager, engine
  <2> HIDE DEF h, r
  <2> QED
    BY <1>2, <1>4, <2>1, SwapKeeps
<1>5. CASE handler' = [handler EXCEPT ![p] = n] /\ UNCHANGED <<ws, resv, outbox>>
  <2>1. n \in Local /\ n.at = "load"
    BY IdleHolds DEF Local, WebSteps
  <2>2. handler' = [handler EXCEPT ![p] = n] /\ UNCHANGED <<web, manager, engine, native, budget>>
    BY <1>3, <1>5 DEF web
  <2> HIDE DEF n
  <2>3. Holds(n, ws, outbox, vbox, successor)
    BY <2>1 DEF Holds, RequestSteps, ValidationSteps
  <2> QED
    BY <2>1, <2>2, <2>3, MovesAside
<1>6. CASE Ends(p) /\ UNCHANGED <<ws, resv, outbox>>
  BY <1>3, <1>6, EndsAside DEF web
<1> QED
  BY <1>4, <1>5, <1>6 DEF Adopt

LEMMA SaveEditKeeps ==
  ASSUME Inv, NEW p \in Handler, SaveEdit(p)
  PROVE  Inv' /\ Keeps
<1> DEFINE h == handler[p]
           n == [Idle EXCEPT !.at = "witness", !.env = h.env]
<1>1. /\ h \in Local /\ Holds(h, ws, outbox, vbox, successor) /\ h.at = "save"
      /\ Core /\ TypeOK
  BY DEF Inv, TypeOK, SaveEdit
<1>2. /\ h.env \in Envelope /\ h.env.cand = h.in.cand
      /\ h.env.seq = h.in.seq + 1 /\ h.env.seq <= MaxSequence
  BY <1>1 DEF Holds
<1>3. UNCHANGED <<resv, outbox, vbox, manager, engine, native, budget>>
  BY DEF SaveEdit
<1>4. CASE ~Editable(h.in)
  BY <1>3, <1>4, EndsAside DEF SaveEdit, web
<1>5. CASE Editable(h.in)
  <2>1. /\ ws' = h.env /\ handler' = [handler EXCEPT ![p] = n]
        /\ ws = h.in /\ resv = None
    BY <1>5 DEF SaveEdit, Editable
  <2>2. n \in Local /\ n.at = "witness" /\ n.env = h.env
    BY <1>2, IdleHolds DEF Local, ManagerSteps, Idle
  <2>3. UNCHANGED <<resv, outbox, vbox, witness, successor, verdicts, phase, native, budget>>
    BY <1>3 DEF manager, engine
  <2> HIDE DEF h, n
  <2>4. ws' \in Envelope /\ ws'.seq = ws.seq + 1 /\ ws'.cand = ws.cand /\ ws'.seq <= MaxSequence
    BY <1>2, <2>1
  <2>5. ws \in Envelope /\ ws.seq \in Nat /\ ws'.seq \in Nat
    BY <1>1, <2>4, RowTypes DEF TypeOK
  <2>6. \A x \in Request : outbox[x] # None =>
          outbox[x].resolved /\ successor[x] # None /\ outbox[x].env.seq <= ws.seq
    <3>1. ASSUME NEW x \in Request, outbox[x] # None
          PROVE  outbox[x].resolved /\ successor[x] # None /\ outbox[x].env.seq < ws.seq
      BY <1>1, <2>1, <3>1, WorkspaceAssumption DEF Core, Reserved
    <3> QED
      BY <1>1, <2>5, <3>1, RowTypes
  <2>7. \A x \in Request : phase[x] # "open"
    BY <1>1, <2>6 DEF Core, Opened, ResolutionIsFinal
  <2>8. \/ witness = None
        \/ ws'.cand = witness.cand /\ (witness.seq < ws'.seq \/ witness = ws')
    <3>1. Unresolved = {}
      BY <2>6 DEF Unresolved
    <3>2. witness = None \/ (ws.cand = witness.cand /\ (witness.seq < ws.seq \/ witness = ws))
      BY <1>1, <3>1 DEF Core, NeverSplit
    <3>3. witness # None => witness.seq \in Nat
      BY <1>1, RowTypes DEF TypeOK
    <3> QED
      BY <2>4, <2>5, <3>2, <3>3
  <2>9. Named(ws', successor)
    BY <1>1, <2>4 DEF Core, Named
  <2>10. ws'.seq <= MaxSequence + Cardinality(Done(successor))
    BY <2>4, <2>5, Numbers, DoneCount
  <2>11. /\ Core'
         /\ Grows(ws, outbox, vbox, successor, ws', outbox', vbox', successor')
    BY <1>1, <2>1, <2>3, <2>4, <2>6, <2>7, <2>8, <2>9, <2>10, DraftReplaced
  <2>12. Holds(n, ws', outbox', vbox', successor')
    BY <2>1, <2>2, <2>3, <2>4, <2>9 DEF Holds, RequestSteps, ValidationSteps, Earlier
  <2>13. /\ handler' \in [Handler -> Local]
         /\ \A q \in Handler : Holds(handler'[q], ws', outbox', vbox', successor')
    BY <2>1, <2>2, <2>11, <2>12, HandlersStep
  <2>14. TypeOK'
    BY <1>1, <2>3, <2>4, <2>13 DEF TypeOK
  <2>15. Keeps
    BY <2>1, WorkspaceAssumption DEF Keeps
  <2> QED
    BY <2>11, <2>13, <2>14, <2>15 DEF Inv
<1> QED
  BY <1>4, <1>5

-----------------------------------------------------------------------------
(* Faults.                                                                 *)

LEMMA FaultsKeep ==
  ASSUME Inv,
         \/ WebCrash \/ ManagerCrash \/ Drift
         \/ \E p \in Handler : GivesUp(p)
         \/ \E v \in Validation : Expires(v)
  PROVE  Inv' /\ Keeps
<1>1. /\ handler \in [Handler -> Local] /\ budget \in 0..MaxEvents /\ MaxEvents \in Nat
      /\ \A p \in Handler : Holds(handler[p], ws, outbox, vbox, successor)
      /\ TypeOK
  BY WorkspaceAssumption DEF Inv, TypeOK
<1>2. budget' \in 0..MaxEvents
  BY <1>1 DEF WebCrash, ManagerCrash, Drift, GivesUp, Expires, Fault
<1>3. UNCHANGED <<ws, resv, outbox, vbox, witness, successor, phase>>
  BY DEF WebCrash, ManagerCrash, Drift, GivesUp, Expires, web, manager, engine
<1>4. ASSUME NEW p \in Handler
      PROVE  /\ [handler[p] EXCEPT !.live = FALSE] \in Local
             /\ Holds([handler[p] EXCEPT !.live = FALSE], ws, outbox, vbox, successor)
  BY <1>1, LocalTypes
<1> DEFINE cut(p) == [handler[p] EXCEPT !.live = FALSE]
<1>5. CASE WebCrash
  <2>1. handler' = [p \in Handler |-> IF handler[p].at \in ManagerSteps THEN cut(p) ELSE Idle]
    BY <1>5 DEF WebCrash
  <2>2. \A p \in Handler : cut(p) \in Local /\ Holds(cut(p), ws, outbox, vbox, successor)
    BY <1>4
  <2> HIDE DEF cut
  <2>3. UNCHANGED <<verdicts, native>>
    BY <1>5 DEF WebCrash, manager
  <2>4. /\ handler' \in [Handler -> Local]
        /\ \A p \in Handler : Holds(handler'[p], ws, outbox, vbox, successor)
    BY <2>1, <2>2, IdleHolds
  <2> QED
    BY <1>1, <1>2, <1>3, <2>3, <2>4, Aside DEF TypeOK
<1>6. CASE ManagerCrash
  <2>1. UNCHANGED <<verdicts, native>>
    BY <1>6 DEF ManagerCrash, manager
  <2>2. /\ handler' \in [Handler -> Local]
        /\ \A p \in Handler : Holds(handler'[p], ws, outbox, vbox, successor)
    BY <1>1, <1>6, IdleHolds DEF ManagerCrash
  <2> QED
    BY <1>1, <1>2, <1>3, <2>1, <2>2, Aside DEF TypeOK
<1>7. CASE Drift
  <2>1. UNCHANGED <<verdicts, handler>> /\ native' \in Value
    BY <1>7 DEF Drift, manager, Value
  <2> QED
    BY <1>1, <1>2, <1>3, <2>1, Aside DEF TypeOK
<1>8. ASSUME NEW p \in Handler, GivesUp(p)
      PROVE  Inv' /\ Keeps
  <2>1. UNCHANGED <<verdicts, native>>
    BY <1>8 DEF GivesUp, manager
  <2>2. handler' = [handler EXCEPT ![p] = cut(p)] \/ handler' = [handler EXCEPT ![p] = Idle]
    BY <1>8 DEF GivesUp
  <2>3. cut(p) \in Local /\ Holds(cut(p), ws, outbox, vbox, successor)
    BY <1>4
  <2> HIDE DEF cut
  <2> QED
    BY <1>1, <1>2, <1>3, <2>1, <2>2, <2>3, IdleHolds, OneAside DEF TypeOK
<1>9. ASSUME NEW v \in Validation, Expires(v)
      PROVE  Inv' /\ Keeps
  <2> DEFINE row == [verdicts[v] EXCEPT !.live = FALSE]
  <2>1. verdicts[v] \in VerdictRow
    BY <1>1, <1>9, RowTypes DEF Expires
  <2>2. row \in VerdictRow
    BY <2>1 DEF VerdictRow
  <2>3. verdicts' = [verdicts EXCEPT ![v] = row] /\ UNCHANGED <<native, handler>>
    BY <1>9 DEF Expires
  <2> HIDE DEF row
  <2>4. verdicts' \in [Validation -> VerdictRow \cup {None}]
    BY <1>1, <2>2, <2>3 DEF TypeOK
  <2> QED
    BY <1>1, <1>2, <1>3, <2>3, <2>4, Aside DEF TypeOK
<1> QED
  BY <1>5, <1>6, <1>7, <1>8, <1>9

-----------------------------------------------------------------------------
(* The inductive invariant.                                                *)

LEMMA InitInv ==
  ASSUME Init
  PROVE  Inv
<1>1. Staged \in Envelope /\ Staged.seq = 1 /\ Staged.cand = First
  <2>1. 1 \in Sequence
    BY Numbers
  <2> QED
    BY <2>1 DEF Staged, Envelope, Value
<1>2. TypeOK
  BY <1>1, IdleHolds, WorkspaceAssumption DEF Init, TypeOK, Value
<1>3. \A r \in Request : outbox[r] = None /\ successor[r] = None /\ phase[r] = "none"
  BY DEF Init, Engine!Init
<1>4. Counted
  <2>1. Cardinality(Done(successor)) \in Nat
    BY DoneCount
  <2>2. ws.seq = 1 /\ 1 <= MaxSequence + Cardinality(Done(successor))
    BY <1>1, <2>1, Numbers DEF Init
  <2> QED
    BY <1>3, <2>2 DEF Counted
<1>5. Opened
  BY <1>3 DEF Opened, Init, Engine!Init
<1>6. Reserved /\ Sealed /\ ResolutionIsFinal /\ NeverSplit
  BY <1>3 DEF Reserved, Sealed, ResolutionIsFinal, NeverSplit, Init
<1>7. Waiting /\ Named(ws, successor)
  BY <1>1 DEF Waiting, Named, Init
<1>8. \A p \in Handler : Holds(handler[p], ws, outbox, vbox, successor)
  BY IdleHolds DEF Init
<1> QED
  BY <1>2, <1>4, <1>5, <1>6, <1>7, <1>8 DEF Inv, Core

LEMMA NextKeeps ==
  ASSUME Inv, Next
  PROVE  Inv' /\ Keeps
<1>1. ASSUME NEW p \in Handler, Step(p)
      PROVE  Inv' /\ Keeps
  BY <1>1, ResolveSafeApplyKeeps, AdoptKeeps, ReadsKeep, ReadCandidateKeeps,
     PrepareCandidateKeeps, SaveEditKeeps, SyncWitnessKeeps, ValidateCandidateKeeps,
     AckValidationKeeps, AdmitKeeps, AdmitSafetyKeeps, AckApplyKeeps DEF Step
<1>2. ASSUME NEW p \in Handler, ReadStart(p) \/ EditStart(p)
      PROVE  Inv' /\ Keeps
  BY <1>2, ReadsKeep
<1>3. ASSUME NEW p \in Handler, NEW v \in Validation, ValidateStart(p, v)
      PROVE  Inv' /\ Keeps
  BY <1>3, ValidateStartKeeps
<1>4. ASSUME NEW p \in Handler, NEW r \in Request, ApplyStart(p, r)
      PROVE  Inv' /\ Keeps
  BY <1>4, ApplyStartKeeps
<1>5. ASSUME NEW r \in Request, TenSeconds(r) \/ EngineStep(r)
      PROVE  Inv' /\ Keeps
  BY <1>5, TenSecondsKeeps, EngineKeeps
<1>6. CASE \/ WebCrash \/ ManagerCrash \/ Drift
           \/ \E p \in Handler : GivesUp(p)
           \/ \E v \in Validation : Expires(v)
  BY <1>6, FaultsKeep
<1> QED
  BY <1>1, <1>2, <1>3, <1>4, <1>5, <1>6 DEF Next

LEMMA StutterKeeps ==
  ASSUME Inv, UNCHANGED vars
  PROVE  Inv'
<1>1. /\ UNCHANGED <<ws, resv, outbox, vbox, witness, successor, phase>>
      /\ UNCHANGED <<verdicts, native, budget, handler>>
  BY DEF vars, web, manager, engine
<1> QED
  BY <1>1, Aside DEF Inv, TypeOK

LEMMA Inductive == Spec => []Inv
<1>1. Init => Inv
  BY InitInv
<1>2. Inv /\ [Next]_vars => Inv'
  BY NextKeeps, StutterKeeps
<1> QED
  BY <1>1, <1>2, PTL DEF Spec

-----------------------------------------------------------------------------
(* The theorems.                                                           *)

\* Every variable of the workspace keeps its type: in particular the sequence
\* of an envelope outgrows the bound on edits by at most one per request.
THEOREM WorkspaceTypes == Spec => []TypeOK
<1>1. Inv => TypeOK
  BY DEF Inv
<1> QED
  BY <1>1, Inductive, PTL

\* What ResolveSafeApply stored about a request stays the truth about the
\* engine, whatever an admission that was delayed, repeated or cut off does.
THEOREM ResolutionsFinal == Spec => []ResolutionIsFinal
<1>1. Inv => ResolutionIsFinal
  BY DEF Inv, Core
<1> QED
  BY <1>1, Inductive, PTL

\* From the admission to the verdict nobody edits the draft: web.db, the
\* reservation and the manager's witness agree on the one that was admitted.
THEOREM DraftFrozen == Spec => []FrozenWhileOpen
<1>1. ASSUME Inv
      PROVE  FrozenWhileOpen
  <2>1. Core
    BY <1>1 DEF Inv
  <2>2. ASSUME NEW r \in Request, phase[r] = "open"
        PROVE  resv = r /\ ws = outbox[r].env /\ witness = ws
    <3>1. outbox[r] # None /\ successor[r] = None /\ witness = outbox[r].env
      BY <2>1, <2>2 DEF Core, Opened, ResolutionIsFinal
    <3> QED
      BY <2>1, <3>1, HoldsDraft
  <2> QED
    BY <2>2 DEF FrozenWhileOpen
<1> QED
  BY <1>1, Inductive, PTL

\* No crash, lost answer or overtaken handler leaves web.db and manager.db with
\* drafts that the next read of the workspace cannot bring together.
THEOREM NeverApart == Spec => []NeverSplit
<1>1. Inv => NeverSplit
  BY DEF Inv, Core
<1> QED
  BY <1>1, Inductive, PTL

\* The transaction of recoverSafeWorkspace that releases a reservation starts a
\* new draft when the change was confirmed and otherwise keeps what was staged.
THEOREM DraftIsKept == Spec => DraftKept
<1>1. Inv /\ [Next]_vars => [Keeps]_web
  BY NextKeeps DEF vars
<1> QED
  BY <1>1, Inductive, PTL DEF Spec, DraftKept, Keeps
=============================================================================
