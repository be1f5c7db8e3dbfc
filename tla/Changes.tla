------------------------------ MODULE Changes -------------------------------
(***************************************************************************)
(* A change from the draft to the server and, if need be, back.            *)
(*                                                                         *)
(* Admission checks the draft against the view, reserves an identity for   *)
(* every row that the change, or its compensation, will insert, and        *)
(* compiles a transaction from the view: writes, preceded by wait          *)
(* operations on whatever the checks have looked at. ovsdb-server runs it  *)
(* against its own rows, which may be newer than the view. A compensation  *)
(* is the reversed change, checked and compiled in the same way.           *)
(***************************************************************************)
EXTENDS Candidates

VARIABLES
    change      \* [phase, intents, wait, evidence, at]

changeVars == <<nativeVars, draft, change>>

(***************************************************************************)
(* The wait operations of a transaction for intent i, compiled from g.     *)
(***************************************************************************)

NoWait == [cells |-> <<>>, tables |-> <<>>, keys |-> {}, ids |-> {}]
Labelled(ks) == Cells(ks, {"id"} \cup Labels)

\* Seeded fault: the members of the port are not looked at again.
BugVlanWait(i, g) ==
    Labelled({Root, i.key} \cup Holders(g, i.key)) \cup Cells({i.key}, {"held", i.f})
VlanWait(i, g) ==
    LET p == i.key
        strict == i.op = "bond" \/ UsesQinQ(i)
    IN Labelled({Root, p} \cup Holders(g, p) \cup g[p].links)
       \cup Cells({p}, {"links", "held", i.f})
       \cup Cells(g[p].links, {"type", "opts"})
       \cup (IF strict THEN Cells(g[p].links, {"held"}) ELSE {})
       \cup (IF i.op = "bond" THEN Cells(Holders(g, p), {"tree"}) ELSE {})
       \cup (IF UsesQinQ(i) THEN {<<Root, "other">>} ELSE {})
InterfaceWait(i, g) ==
    LET ps == Holders(g, i.key)
        bs == HoldersOf(g, ps)
    IN Labelled({Root, i.key} \cup ps \cup bs)
       \cup Cells(bs, {"ports"}) \cup Cells(ps, {"links", "held"})
       \cup Cells({i.key}, {"type", "opts", "held", i.f})
PolicingWait(i, g) == InterfaceWait(i, g) \cup {<<Root, "other">>}
MtuWait(i, g) ==
    LET peers == Peers(g, i.key)
        others == Members(g, peers) \ {i.key}
    IN InterfaceWait(i, g)
       \cup (IF i.ctx
             THEN Labelled(peers \cup others) \cup Cells(peers, {"links", "held"})
                  \cup Cells(others, {"type", "opts", "mtu", "held"})
             ELSE {})

\* The fence of changes that concern a whole bridge: every row of four tables.
Tables(g, ts) == [t \in ts |-> Image(g, WholeOf(Rows(g, t)))]
FenceTables == {"Root", "Bridge", "Port", "Interface"}

FenceWait(g) == [NoWait EXCEPT !.tables = Tables(g, FenceTables)]

FieldWait(i, g) ==
    CASE i.op \in ListOps -> [NoWait EXCEPT !.cells = Image(g, VlanWait(i, g))]
      [] i.op = "mtu"    -> [NoWait EXCEPT !.cells = Image(g, MtuWait(i, g))]
      [] i.op = "police" -> [NoWait EXCEPT !.cells = Image(g, PolicingWait(i, g))]
      [] OTHER -> FenceWait(g)

\* The parent of an internal port: its own columns, its ports, its local port.
Parents(i) == {k \in DOMAIN i.from \cap DOMAIN i.to : Table(k) = "Bridge"}
ParentGuards(i, g) ==
    UNION {(Whole(b) \ {<<b, "links">>})
           \cup Cells({b}, {"ports", "held"}) \cup Whole(Local(b))
           \cup Cells(g[Local(b)].links, {"id", "type", "opts"} \cup Labels) : b \in Parents(i)}

\* The rows that go are canonical and held by each other only; the rows that
\* come are new, and so are the bridge names that a new port would shadow.
GraphGuards(i, g) ==
    LET own == With(i.from, Sub(g, {Root}))
    IN With(Image(With(g, Sub(i.from, Doomed(i))), WholeOf(Doomed(i))),
            [c \in Cells(Doomed(i), {"heldall"}) |-> {Value(own, c[1], "held")}])
Shadowed(i) ==
    {<<"Bridge", Name(k)>> : k \in {j \in Owns(i) : Table(j) = "Port" /\ Parents(i) # {}}}
DeletedSources(i) == IF i.dir = "back" THEN i.old \ Present(i.from) ELSE {}
BridgeWait(i, g) ==
    [NoWait EXCEPT
       !.cells = With(Image(g, Labelled({Root})), GraphGuards(i, g)),
       !.keys = Fresh(i),
       !.ids = {i.to[k].id : k \in Fresh(i)} \cup DeletedSources(i)]
InternalPortWait(i, g) ==
    [BridgeWait(i, g) EXCEPT !.cells = With(Image(g, ParentGuards(i, g)), @),
                             !.keys = @ \cup (Shadowed(i) \ DOMAIN i.from)]
LifecycleWait(i, g) ==
    IF i.op \in {"bridge.create", "bridge.delete"} THEN BridgeWait(i, g) ELSE InternalPortWait(i, g)

\* Rows that are rewritten or deleted are as observed, and nothing refers to
\* them but the bridges and ports that were observed to; around a mirror, other
\* mirrors may.
Images(i, g) == Image(g, Whole(Root) \cup WholeOf(DOMAIN i.from))
References(i, g) == [c \in Cells(DOMAIN i.from, {"heldall"}) |-> {Value(g, c[1], "held")}]
MirrorReferences(i, g) == Image(g, Cells(DOMAIN i.from, {"heldall"}))
MirrorFence(g) == Tables(g, FenceTables \cup {"Mirror"})

\* Seeded fault: references from other tables are not looked at.
BugGraphWait(i, g) ==
    [NoWait EXCEPT
       !.cells = Images(i, g),
       !.tables = CASE i.op \in TunnelOps -> Tables(g, FenceTables)
                    [] i.op \in MirrorOps -> MirrorFence(g)
                    [] OTHER -> <<>>,
       !.keys = Fresh(i),
       !.ids = {i.to[k].id : k \in Fresh(i)}]
GraphWait(i, g) ==
    [NoWait EXCEPT
       !.cells = With(Images(i, g), IF i.op \in MirrorOps THEN MirrorReferences(i, g)
                                    ELSE References(i, g)),
       !.tables = CASE i.op \in TunnelOps -> Tables(g, FenceTables)
                    [] i.op \in MirrorOps -> MirrorFence(g)
                    [] OTHER -> <<>>,
       !.keys = Fresh(i),
       !.ids = {i.to[k].id : k \in Fresh(i)}]

Wait(i, g) ==
    CASE i.op \in FieldOps -> FieldWait(i, g)
      [] i.op \in LifecycleOps -> LifecycleWait(i, g)
      [] OTHER -> GraphWait(i, g)

\* A transaction waits for all of it at once, and has no effect if it fails.
\* Seeded fault: the fence of whole tables is left out.
BugHolds(w) ==
    /\ Image(db, DOMAIN w.cells) = w.cells
    /\ w.keys \cap DOMAIN db = {}
    /\ w.ids \cap Present(db) = {}
Holds(w) ==
    /\ Image(db, DOMAIN w.cells) = w.cells
    /\ \A t \in DOMAIN w.tables : Tables(db, {t})[t] = w.tables[t]
    /\ w.keys \cap DOMAIN db = {}
    /\ w.ids \cap Present(db) = {}
Compiled(intents, g) == {Wait(i, g) : i \in intents}

\* A draft has one graph intent, or field intents for different rows.
FieldsWritten(g, intents, marker) ==
    [k \in DOMAIN g |->
        IF \E i \in intents : i.key = k
        THEN FieldWritten(g[k], CHOOSE i \in intents : i.key = k, marker) ELSE g[k]]
Applied(g, intents, marker) ==
    IF \A i \in intents : i.op \in FieldOps THEN FieldsWritten(g, intents, marker)
    ELSE Grafted(g, CHOOSE i \in intents : TRUE, marker)

(***************************************************************************)
(* Identities of the rows that a change inserts.                           *)
(***************************************************************************)

Reserved(intents) ==
    UNION {{<<i.to[k].id, "go">> : k \in Fresh(i)} \cup {<<i.spare[k], "back">> : k \in DOMAIN i.spare}
             : i \in intents}
WithReserved(r, pairs) ==
    [r EXCEPT !.ids = [n \in Ids |-> IF \E p \in pairs : p[1] = n THEN "pending" ELSE @[n]],
              !.made = [n \in Ids |-> IF \E p \in pairs : p[1] = n
                                      THEN (CHOOSE p \in pairs : p[1] = n)[2] ELSE @[n]]]
RetirePending(r) ==
    [r EXCEPT !.ids = [n \in Ids |-> IF @[n] = "pending" THEN "tombstone" ELSE @[n]]]

\* Reservations are given up with the verdict, not with the field execution.
\* Seeded fault: the end of the field execution gives them up as well.
BugSettles(phase) == phase \in {"refused", "committed", "confirmed", "undone"}
Settles(phase) == phase \in {"refused", "confirmed", "undone"}
Journalled(r, phase) == IF Settles(phase) THEN RetirePending(r) ELSE r

(***************************************************************************)
(* The way of a change.                                                    *)
(***************************************************************************)

NoChange == [phase |-> "none", intents |-> {}, wait |-> {}, evidence |-> <<>>, at |-> <<>>]
Continuity == [gen |-> view.gen, root |-> view.evidence.root, epoch |-> view.evidence.epoch]

\* The generation of the view, and the database behind the connection itself,
\* are still those that the transaction was compiled for.
SameServer == view.gen = change.evidence.gen /\ epoch = change.evidence.epoch
SameRoot == view.evidence.root = change.evidence.root
Marker(i, g) == IF i.op \in FieldOps THEN g[i.key].mark ELSE g[Root].mark
Backwards(intents) == {Reverse(i) : i \in intents}

\* Seeded fault: the draft can be edited and admitted again.
BugConsumed(d) == d
Consumed(d) == [d EXCEPT !.consumed = TRUE]

Admit ==
    /\ change.phase = "none" /\ Usable
    /\ draft.intents # {} /\ ~draft.consumed
    /\ \A i \in draft.intents : Checks(i, view.rows)
    /\ \A p \in Reserved(draft.intents) : reg.ids[p[1]] = "none"
    /\ reg' = WithReserved(reg, Reserved(draft.intents))
    /\ draft' = Consumed(draft)
    /\ change' = [phase |-> "ready", intents |-> draft.intents, at |-> <<>>,
                  wait |-> Compiled(draft.intents, view.rows), evidence |-> Continuity]
    /\ UNCHANGED <<net, db, world, issued, epoch, view, done>>

\* Dispatch looks at the view once more before it sends the transaction.
Sendable(intents) ==
    /\ Usable /\ SameServer
    /\ \A i \in intents : Checks(i, view.rows)

Commit ==
    /\ change.phase = "ready"
    /\ IF Sendable(change.intents) /\ \A w \in change.wait : Holds(w)
       THEN /\ db' = Applied(db, change.intents, "go")
            /\ world' = db
            /\ change' = [change EXCEPT !.phase = "committed", !.wait = {}, !.at = done]
       ELSE /\ change' = [change EXCEPT !.phase = "refused", !.wait = {}]
            /\ UNCHANGED <<db, world>>
    /\ reg' = Journalled(reg, change'.phase)
    /\ UNCHANGED <<net, issued, epoch, view, done, draft>>

\* The rows are as they were written: in the view and, by a transaction that
\* only waits, on the server.
Seen(i, marker) == Checks(AfterImage(i), view.rows) /\ Marker(i, view.rows) = marker
FieldProof(i) == Holds(FieldWait(AfterImage(i), view.rows))
BridgeProof(i) == Holds(BridgeWait(Reverse(i), view.rows))
InternalPortProof(i) == Holds(InternalPortWait(Reverse(i), view.rows))
TopologyProof(i) == Holds(GraphWait(Reverse(i), view.rows))
Proof(i) ==
    /\ CASE i.op \in FieldOps -> FieldProof(i)
         [] i.op \in {"bridge.create", "bridge.delete"} -> BridgeProof(i)
         [] i.op \in {"internal.create", "internal.delete"} -> InternalPortProof(i)
         [] OTHER -> TopologyProof(i)
    /\ i.old \cap Present(db) = {}
Proven(i, marker) == Seen(i, marker) /\ Proof(i)

Confirm ==
    /\ change.phase = "committed"
    /\ Usable /\ SameServer /\ SameRoot
    /\ \A i \in change.intents : Proven(i, "go")
    /\ change' = [change EXCEPT !.phase = "confirmed"]
    /\ reg' = Journalled(reg, change'.phase)
    /\ UNCHANGED <<net, db, world, issued, epoch, view, done, draft>>

\* PrepareRollback: the change is still there, as it was written.
Withdrawable ==
    /\ Usable /\ SameServer /\ SameRoot
    /\ \A i \in change.intents :
          Checks(Reverse(i), view.rows) /\ Marker(i, view.rows) = "go"

Withdraw ==
    /\ change.phase = "committed" /\ Withdrawable
    /\ change' = [change EXCEPT !.phase = "undoing",
                                !.wait = Compiled(Backwards(change.intents), view.rows)]
    /\ UNCHANGED <<nativeVars, draft>>

\* A compensation that is refused leaves the change as it is.
Undo ==
    /\ change.phase = "undoing"
    /\ IF Sendable(Backwards(change.intents)) /\ \A w \in change.wait : Holds(w)
       THEN /\ db' = Applied(db, Backwards(change.intents), "back")
            /\ change' = [change EXCEPT !.phase = "rolled", !.wait = {}]
       ELSE /\ change' = [change EXCEPT !.phase = "committed", !.wait = {}]
            /\ UNCHANGED db
    /\ UNCHANGED <<net, world, issued, epoch, reg, view, done, draft>>

Restored ==
    /\ change.phase = "rolled"
    /\ Usable /\ SameServer /\ SameRoot
    /\ \A i \in Backwards(change.intents) : Proven(i, "back")
    /\ change' = [change EXCEPT !.phase = "undone"]
    /\ reg' = Journalled(reg, change'.phase)
    /\ UNCHANGED <<net, db, world, issued, epoch, view, done, draft>>

Init == NativeInit /\ DraftInit /\ change = NoChange
Next ==
    \/ ForeignEdit /\ UNCHANGED <<draft, change>>
    \/ Publish /\ UNCHANGED <<draft, change>>
    \/ Accept /\ UNCHANGED <<draft, change>>
    \/ Break /\ UNCHANGED <<draft, change>>
    \/ EditDraft /\ UNCHANGED change
    \/ Admit
    \/ Commit
    \/ Confirm
    \/ Withdraw
    \/ Undo
    \/ Restored
Spec == Init /\ [][Next]_changeVars

(***************************************************************************)
(* Properties.                                                             *)
(***************************************************************************)

Phases == {"none", "ready", "committed", "refused", "undoing", "rolled", "confirmed", "undone"}

\* Rows have distinct UUIDs that were handed out, the registry knows every
\* identity in one state, and a draft is used up by exactly one change.
TypeOK ==
    /\ change.phase \in Phases
    /\ draft.consumed <=> change.phase # "none"
    /\ issued \in Ids /\ Identified(db, issued) /\ Identified(view.rows, issued)
    /\ reg.ids \in [Ids -> {"none", "pending", "active", "tombstone"}]
    /\ reg.state \in {"confirmed", "required"}
    /\ reg.gen \in Nat /\ view.gen \in 1..reg.gen

\* Two kinds of change capture more than their transactions wait for. A tunnel
\* captures the mirrors of other bridges, and a deletion all columns of its rows
\* as it finds them, while the transaction insists on those of rows as created.
OfMirrors(rest) == {c \in DOMAIN rest : Table(c[1]) = "Mirror"}
Insisted(i, g) ==
    LET rest == Rest(g, Owns(i)) IN
    [i EXCEPT
       !.was = [c \in DOMAIN @ |-> IF i.op \in DeletionOps /\ c[1] \in Doomed(i)
                                  THEN Col(i.from, c) ELSE @[c]],
       !.rest = IF i.op \in TunnelOps
                THEN With(Sub(rest, OfMirrors(rest)), Sub(@, DOMAIN @ \ OfMirrors(@))) ELSE @]

\* What reaches the server was reviewed on the rows that the server has: when
\* a transaction commits, everything captured while the draft was made and
\* everything its checks require is true of the server's own rows, however
\* old the draft and the view were, with the two exceptions above.
CommittedAsReviewed ==
    [][(change.phase = "ready" /\ change'.phase = "committed")
         => \A i \in change.intents : Checks(Insisted(i, db), db)]_changeVars

\* The same of tunnels without exception, as the comments in topology.go and
\* tunnel.go have it. It does not hold: no transaction waits for a mirror of
\* another bridge, although its row is part of the captured read set.
TunnelReadSetGuarded ==
    [][(change.phase = "ready" /\ change'.phase = "committed")
         => \A i \in change.intents : i.op \in TunnelOps => Checks(i, db)]_changeVars

\* A third party writes a value of the change itself once more, after somebody
\* wrote another one. Values are all that a transaction waits for, so this
\* cannot be told from the change.
Repeats(e) ==
    /\ e.op = "set"
    /\ \E i \in change.intents :
          IF i.op \in FieldOps THEN e.key = i.key /\ e.f = i.f /\ e.v = i.after
          ELSE /\ e.key \in DOMAIN i.from \cap DOMAIN i.to
               /\ e.v = i.to[e.key].cfg[e.f] /\ e.v # i.from[e.key].cfg[e.f]

\* A compensation leaves the configuration that would be there if the change
\* had never been made, with the edits of others since then.
UndoRestores ==
    [][(change.phase = "undoing" /\ change'.phase = "rolled" /\ \A e \in done.edits : ~Repeats(e))
         => Shape(db') = Shape(world)]_changeVars

\* Nobody has interfered since the change was committed, and the view shows it.
Undisturbed ==
    /\ change.phase = "committed"
    /\ Usable /\ view.rows = db /\ done = change.at

\* What the code cannot take back although nobody interferes: a VLAN change of
\* a port that had no vlan_mode, a deletion of a row that a row outside the
\* change also holds (it survives), a change of a mirror or tunnel that clashed
\* with another one before, and a tunnel that was committed although a mirror
\* had changed since it was staged.
DefaultMode(i) == i.op = "vlan" /\ i.before = 0 /\ ~UsesQinQ(i)
Survives(i) == \E k \in Doomed(i) : ~(Holders(world, k) \subseteq Owns(i) \cup {Root})
Clashed(i) ==
    \/ i.op \in MirrorOps /\ ~MirrorFits(Reverse(i), world)
    \/ i.op \in TunnelOps /\ ~TunnelFits(Reverse(i), world)
Overlooked(i) == i.op \in TunnelOps /\ Rest(world, Owns(i)) # i.rest
Irreversible(i) == DefaultMode(i) \/ Survives(i) \/ Clashed(i) \/ Overlooked(i)

\* As long as nobody interferes, any other committed change can be taken back.
UndoAvailable ==
    (Undisturbed /\ \A i \in change.intents : ~Irreversible(i)) => Withdrawable

\* The same without exceptions. It does not hold: in each of the four cases the
\* compensation of a change that was let in is refused.
CommittedCanBeUndone == Undisturbed => Withdrawable

\* Our transactions leave rows, and references, that are not part of the
\* change as they are.
Planned == UNION {IF i.op \in FieldOps THEN {i.key} ELSE Owns(i) : i \in change.intents}
ForeignUntouched ==
    [][\A k \in DOMAIN db \ (Planned \cup {Root}) :
          (change.phase \in {"ready", "undoing"} /\ change'.phase \in {"committed", "rolled"})
            => k \in DOMAIN db' /\ db'[k] = db[k]]_changeVars

\* Within one instance, a UUID that was given up never names a row again.
IdentityNeverReused ==
    (reg.state = "confirmed" /\ reg.evidence.epoch = epoch /\ reg.evidence.root = db[Root].id)
        => Present(db) \cap Gone(reg) = {}
=============================================================================
