------------------------------- MODULE Native -------------------------------
(***************************************************************************)
(* The native side of a configuration change: the Open_vSwitch database,   *)
(* the identity registry of the manager, and the inventory view that       *)
(* drafts, checks and compiled transactions are computed from.             *)
(*                                                                         *)
(* A row is found under its key <<table, name>>: Open vSwitch never renames*)
(* a bridge, port or interface, and no two rows of a table have one name.  *)
(* A deleted and recreated row has the same key and another UUID (id).     *)
(* Strong references are `links`, weak ones (mirror to port) are `refs`.   *)
(***************************************************************************)
EXTENDS Integers, FiniteSets, FiniteSetsExt, Sequences, TLC

CONSTANTS
    None,        \* no marker
    Networks,    \* initial configurations: [rows, edits, requests]
    MaxId,       \* the UUIDs are 1..MaxId
    MaxPicks,    \* bound on the UUIDs that drafts pick in a behaviour
    MaxEdits,    \* bound on the writes of third parties
    Breaks,      \* the faults of the instance
    MaxBreaks    \* bound on those faults

VARIABLES
    net,         \* the network this behaviour started with (never changes)
    db,          \* rows of ovsdb-server: key -> row
    world,       \* ghost: db without the change under way
    issued,      \* the last UUID handed out
    epoch,       \* boot ID and database file: what Classify calls continuity
    reg,         \* manager.db: generation, identities and last evidence
    view,        \* the published inventory view
    done         \* [edits, breaks]: third-party writes and faults so far

nativeVars == <<net, db, world, issued, epoch, reg, view, done>>

Root == <<"Root", "o">>
Ids == 1..MaxId
Table(k) == k[1]
Name(k) == k[2]

(***************************************************************************)
(* Rows.                                                                   *)
(***************************************************************************)

\* A row without labels: what is inserted for a bridge, port or interface.
Row(id, links, cfg) ==
    [id |-> id, links |-> links, refs |-> {}, ctl |-> FALSE,
     made |-> None, mark |-> None, cfg |-> cfg]

Columns == {"id", "links", "refs", "ctl", "made", "mark", "cfg"}
Under(row, id) ==
    [id |-> id, links |-> row.links, refs |-> row.refs, ctl |-> row.ctl,
     made |-> row.made, mark |-> row.mark, cfg |-> row.cfg]

\* Rows with different UUIDs, of those up to n; there is always a root.
IdsOf(g) == {g[k].id : k \in DOMAIN g}
Identified(g, n) ==
    /\ Root \in DOMAIN g
    /\ \A k \in DOMAIN g : DOMAIN g[k] = Columns /\ g[k].id \in 1..n
    /\ \A j, k \in DOMAIN g : g[j].id = g[k].id => j = k

\* The columns that changes are about, with their defaults.
BridgeCfg == [mcast |-> 0, tree |-> 0]
PortCfg == [vlan |-> 0, bond |-> 0, prot |-> 0]
InterfaceCfg(type) ==
    [type |-> type, opts |-> {}, mtu |-> 0, police |-> 0, ofport |-> 0]

\* Rows of a table.
Rows(g, t) == {k \in DOMAIN g : Table(k) = t}

\* The rows with a strong, and with any, reference to a row.
Holders(g, k) == {h \in DOMAIN g : k \in g[h].links}
Referrers(g, k) == {h \in DOMAIN g : k \in g[h].links \cup g[h].refs}

\* Garbage collection of ovsdb-server: rows without a chain of strong
\* references from the root go, and with them the weak references to them.
Settle(g) ==
    LET bridges == g[Root].links
        ports == UNION {g[k].links : k \in bridges}
        kept == {Root} \cup bridges \cup ports \cup UNION {g[k].links : k \in ports}
    IN [k \in DOMAIN g \cap kept |-> [g[k] EXCEPT !.refs = @ \cap kept]]

\* What a column holds. References are compared by UUID: a recreated row is
\* another one. "ports", "held" and "heldall" stand for the ports of a bridge
\* and for the rows that refer to this one.
Pairs(g, ks) == {<<k, g[k].id>> : k \in ks}
Value(g, k, f) ==
    CASE f = "links"   -> Pairs(g, g[k].links)
      [] f = "refs"    -> Pairs(g, g[k].refs)
      [] f = "ports"   -> Pairs(g, {j \in g[k].links : Table(j) = "Port"})
      [] f = "held"    -> Pairs(g, Holders(g, k))
      [] f = "heldall" -> Pairs(g, Referrers(g, k))
      [] f \in {"id", "ctl", "made", "mark"} -> g[k][f]
      [] OTHER -> g[k].cfg[f]

\* A cell is <<key, column>>; a cell of an absent row has no value.
Col(g, c) == IF c[1] \in DOMAIN g THEN {Value(g, c[1], c[2])} ELSE {}
Image(g, cells) == [c \in cells |-> Col(g, c)]

Labels == {"ctl", "made", "mark"}
Fields(t) == CASE t = "Root" -> {"other"}
               [] t = "Bridge" -> DOMAIN BridgeCfg
               [] t = "Port" -> DOMAIN PortCfg
               [] t = "Interface" -> DOMAIN InterfaceCfg("")
               [] t = "Mirror" -> {"out"}
Cells(ks, columns) == ks \X columns
Whole(k) == {k} \X ({"id", "links", "refs"} \cup Labels \cup Fields(Table(k)))
WholeOf(ks) == UNION {Whole(k) : k \in ks}

\* A configuration up to UUIDs and up to our markers.
Shape(g) == [k \in DOMAIN g |-> <<g[k].links, g[k].refs, g[k].ctl, g[k].cfg>>]

\* The rows ks get the UUIDs from n on; in which order does not matter.
Assigned(ks, n) ==
    LET all == Injection(ks, n..(n + Cardinality(ks) - 1))
    IN all \cap {CHOOSE f \in all : TRUE}
Renewed(g, ids) ==
    [k \in DOMAIN g |-> IF k \in DOMAIN ids THEN Under(g[k], ids[k]) ELSE g[k]]

\* What ovsdb-server guarantees by its schema: names and columns per table, no
\* dangling references, and no row without a strong reference to it.
Below(t) == CASE t = "Root" -> {"Bridge"}
              [] t = "Bridge" -> {"Port", "Mirror"}
              [] t = "Port" -> {"Interface"}
              [] t \in {"Interface", "Mirror"} -> {}
IsKey(k) ==
    /\ k = <<Table(k), Name(k)>> /\ Table(k) \in {"Root", "Bridge", "Port", "Interface", "Mirror"}
    /\ Table(k) = "Root" => k = Root
IsRow(k, row) ==
    /\ row = [c \in Columns |-> row[c]]
    /\ row.ctl \in BOOLEAN
    /\ row.cfg = [f \in Fields(Table(k)) |-> row.cfg[f]]
Typed(g) ==
    /\ g = [k \in DOMAIN g |-> g[k]]
    /\ Root \in DOMAIN g
    /\ \A k \in DOMAIN g :
          /\ IsKey(k) /\ IsRow(k, g[k])
          /\ \A j \in g[k].links : j \in DOMAIN g /\ Table(j) \in Below(Table(k))
          /\ \A j \in g[k].refs : j \in DOMAIN g /\ Table(j) = "Port" /\ Table(k) = "Mirror"
Schema(g) == Typed(g) /\ \A k \in DOMAIN g \ {Root} : Holders(g, k) # {}

\* The networks to start from: each row has a UUID of its own.
EditOps == {"set", "ctl", "unmark", "drop", "again", "port", "share", "mirror"}

ASSUME NativeAssumption ==
    /\ {MaxId, MaxPicks, MaxEdits, MaxBreaks} \subseteq Nat
    /\ None \notin {"go", "back"}
    /\ \A n \in Networks :
          /\ Cardinality(DOMAIN n.rows) \in Ids
          /\ Identified(n.rows, Cardinality(DOMAIN n.rows))
          /\ n.rows[Root].mark \notin {"go", "back"}
          /\ \A e \in n.edits : e.op \in EditOps

\* Third parties are held to the schema, too.
ASSUME SchemaAssumption ==
    \A n \in Networks :
        /\ Schema(n.rows)
        /\ \A e \in n.edits :
              /\ e.op \in {"port", "mirror"} => Table(e.key) = "Bridge"
              /\ e.op = "share" => Table(e.key) \in Below(Table(e.to))
              /\ e.op = "mirror" => IsKey(e.new) /\ Table(e.new) = "Mirror" /\ Table(e.port) = "Port"

(***************************************************************************)
(* Writes of third parties (ovs-vsctl, controllers, agents).               *)
(***************************************************************************)

Unlinked(g, k) == [h \in DOMAIN g |-> [g[h] EXCEPT !.links = @ \ {k}]]
With(g, h) == [k \in DOMAIN g \cup DOMAIN h |-> IF k \in DOMAIN h THEN h[k] ELSE g[k]]
Just(k, v) == [j \in {k} |-> v]
PortOf(k) == <<"Port", Name(k)>>
InterfaceOf(k) == <<"Interface", Name(k)>>
NewPort(k, n, type) ==
    [j \in {PortOf(k), InterfaceOf(k)} |->
        IF Table(j) = "Port" THEN Row(n, {InterfaceOf(k)}, PortCfg)
                             ELSE Row(n + 1, {}, InterfaceCfg(type))]

\* Edited(g, e, n): g after edit e, which may use the UUIDs n and n + 1.
Edited(g, e, n) ==
    LET k == e.key IN
    IF k \notin DOMAIN g THEN g ELSE
    CASE e.op = "set"    -> [g EXCEPT ![k].cfg[e.f] = e.v]
      [] e.op = "ctl"    -> [g EXCEPT ![k].ctl = TRUE]
      [] e.op = "unmark" -> [g EXCEPT ![k].mark = None]
      [] e.op = "drop"   -> Settle(Unlinked(g, k))
      [] e.op = "again"  -> Settle(With(g, NewPort(k, n, g[InterfaceOf(k)].cfg.type)))
      [] e.op = "port"   ->
            IF PortOf(e.new) \in DOMAIN g THEN g
            ELSE With([g EXCEPT ![k].links = @ \cup {PortOf(e.new)}], NewPort(e.new, n, "system"))
      [] e.op = "share"  ->
            IF e.to \notin DOMAIN g THEN g ELSE [g EXCEPT ![e.to].links = @ \cup {k}]
      [] e.op = "mirror" ->
            IF e.new \in DOMAIN g \/ e.port \notin DOMAIN g THEN g
            ELSE With([g EXCEPT ![k].links = @ \cup {e.new}],
                      Just(e.new, [Row(n, {}, [out |-> {}]) EXCEPT !.refs = {e.port}]))

\* One third-party transaction; it knows nothing of the manager.
ForeignEdit ==
    /\ Cardinality(done.edits) < MaxEdits
    /\ issued + 2 \in Ids
    /\ \E e \in net.edits \ done.edits :
          LET g == Edited(db, e, issued + 1) IN
          /\ g # db
          /\ db' = g
          /\ world' = Edited(world, e, issued + 1)
          /\ issued' = issued + 2
          /\ done' = [done EXCEPT !.edits = @ \cup {e}]
          /\ UNCHANGED <<net, epoch, reg, view>>

(***************************************************************************)
(* Evidence and the identity registry.                                     *)
(***************************************************************************)

\* What the monitor gathers about the instance with every observation.
Evidence ==
    [root |-> db[Root].id,
     anchors |-> {<<k, db[k].id>> : k \in DOMAIN db \ {Root}},
     epoch |-> epoch]

\* Classify: is this the instance that the registry knows?
Classify(old, e) ==
    CASE old.gen = 0 -> "new"
      [] old.gen # 0 /\ old.state = "required" -> "required"
      [] old.gen # 0 /\ old.state # "required" /\ old.evidence.root # e.root ->
            IF old.evidence.anchors \cap e.anchors = {} THEN "new" ELSE "required"
      [] OTHER -> IF old.evidence.epoch # e.epoch THEN "required" ELSE "continued"

NoIdentities == [i \in Ids |-> "none"]
Present(g) == {g[k].id : k \in DOMAIN g \ {Root}}

\* A pending row must carry the creation marker it was reserved with, and a
\* UUID that was ever given up must not come back.
Acceptable(r, g) ==
    \A k \in DOMAIN g \ {Root} :
        /\ r.ids[g[k].id] = "pending" => g[k].made = r.made[g[k].id]
        /\ r.ids[g[k].id] # "tombstone"

\* The identities after an accepted observation.
Bound(ids, g) ==
    [i \in Ids |-> IF i \in Present(g) THEN "active"
                   ELSE IF ids[i] = "active" THEN "tombstone" ELSE ids[i]]

\* reconcile for an observation g with evidence e of class c.
Reconciled(r, g, e, c) ==
    LET base == IF c = "new"
                THEN [r EXCEPT !.gen = @ + 1, !.ids = NoIdentities]
                ELSE r
        state == IF c = "required" THEN "required" ELSE "confirmed"
    IN [base EXCEPT !.state = state, !.evidence = e,
                    !.ids = IF state = "confirmed" THEN Bound(@, g) ELSE @]

\* A generation starts without identities, so nothing can contradict it.
Reconcilable(r, g, c) == c = "continued" => Acceptable(r, g)

Gone(r) == {i \in Ids : r.ids[i] = "tombstone"}

\* install: rows, decision and identities become the view in one step.
Installed(r, g) ==
    [rows |-> g, gen |-> r.gen, ok |-> TRUE,
     confirmed |-> r.state = "confirmed", gone |-> Gone(r), evidence |-> r.evidence]

\* The monitor publishes what the server holds now. It does so at any time
\* after a change, so the view may lag behind the server.
Publish ==
    LET c == Classify(reg, Evidence)
        r == Reconciled(reg, db, Evidence, c)
    IN /\ IF Reconcilable(reg, db, c)
          THEN reg' = r /\ view' = Installed(r, db)
          ELSE reg' = reg /\ view' = [view EXCEPT !.ok = FALSE]
       /\ <<reg', view'>> # <<reg, view>>
       /\ UNCHANGED <<net, db, world, issued, epoch, done>>

\* An operator accepts the instance that was observed last: it becomes a new
\* generation, and every identity of the old one is given up.
Accept ==
    /\ view.ok /\ reg.state = "required" /\ view.evidence = reg.evidence
    /\ LET r == Reconciled(reg, view.rows, view.evidence, "new")
       IN reg' = r /\ view' = Installed(r, view.rows)
    /\ UNCHANGED <<net, db, world, issued, epoch, done>>

\* The connection to ovsdb-server is lost; the view is no longer served.
Away ==
    /\ view.ok
    /\ view' = [view EXCEPT !.ok = FALSE]
    /\ UNCHANGED <<db, world, issued, epoch, reg>>

\* The host restarts: same database, another boot ID.
Reboot == epoch' = epoch + 1 /\ UNCHANGED <<db, world, issued, reg, view>>

\* The database file is put back to an earlier copy, or its root is new, or
\* every row of it is (a new file with the same configuration).
Rewind ==
    /\ db' = net.rows /\ world' = net.rows
    /\ epoch' = epoch + 1
    /\ UNCHANGED <<issued, reg, view>>
Reroot ==
    /\ issued + 1 \in Ids
    /\ db' = Renewed(db, [k \in {Root} |-> issued + 1])
    /\ issued' = issued + 1
    /\ UNCHANGED <<world, epoch, reg, view>>
Replace ==
    /\ issued + issued \in Ids
    /\ db' = Renewed(db, [k \in DOMAIN db |-> issued + db[k].id])
    /\ issued' = issued + issued
    /\ UNCHANGED <<world, epoch, reg, view>>

Break ==
    /\ done.breaks < MaxBreaks
    /\ done' = [done EXCEPT !.breaks = @ + 1]
    /\ \/ "away" \in Breaks /\ Away
       \/ "reboot" \in Breaks /\ Reboot
       \/ "rewind" \in Breaks /\ Rewind
       \/ "reroot" \in Breaks /\ Reroot
       \/ "replace" \in Breaks /\ Replace
    /\ UNCHANGED net

\* The manager serves drafts and changes only from a view like this one.
Usable == view.ok /\ view.confirmed

NativeInit ==
    /\ net \in Networks
    /\ db = net.rows
    /\ world = db
    /\ issued = Cardinality(DOMAIN db)
    /\ epoch = 0
    /\ LET fresh == [gen |-> 0, state |-> "confirmed", ids |-> NoIdentities,
                     made |-> [i \in Ids |-> None], evidence |-> Evidence]
       IN reg = Reconciled(fresh, db, Evidence, "new")
    /\ view = Installed(reg, db)
    /\ done = [edits |-> {}, breaks |-> 0]
=============================================================================
