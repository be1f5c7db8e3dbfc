----------------------------- MODULE Candidates -----------------------------
(***************************************************************************)
(* Candidates: the draft of a configuration change.                        *)
(*                                                                         *)
(* Staging captures, from one view, what the change is about: the values   *)
(* it replaces, and a digest of everything its safety was judged from. A   *)
(* draft may grow old while the network changes; editing it keeps what was *)
(* captured, and only a rebase captures again. Every later check compares  *)
(* the captured values with the view of that moment.                       *)
(*                                                                         *)
(* A field change rewrites one column group of one row. A graph change     *)
(* replaces the rows `from` by the rows `to`; deleted rows come back, if   *)
(* they have to, under the UUIDs `spare` that were reserved for them.      *)
(***************************************************************************)
EXTENDS Native

VARIABLES
    draft       \* [intents, consumed, picked]

(***************************************************************************)
(* Kinds of change.                                                        *)
(***************************************************************************)

ListOps == {"vlan", "bond"}                       \* many in one draft
TreeOps == {"tree", "tree.prepare"}
FieldOps == ListOps \cup TreeOps \cup {"mtu", "police", "prot", "mcast"}
LifecycleOps == {"bridge.create", "bridge.delete", "internal.create", "internal.delete"}
TunnelOps == {"tunnel.create", "tunnel.configure", "tunnel.delete"}
MirrorOps == {"mirror.create", "mirror.configure", "mirror.delete"}

FieldOf(op) == IF op = "tree.prepare" THEN "tree" ELSE op

\* VLAN values: 0 is a port without a vlan_mode, 1 and 2 are access VLANs, 3 is
\* a dot1q-tunnel. A request always names a mode.
QinQ == 3

\* What a request is about: a row of one table, perhaps a second one, and a set
\* of ports or interfaces.
PortOps == {"vlan", "bond", "prot", "internal.delete", "port.delete", "port.move", "bond.members",
            "tunnel.configure", "tunnel.delete"}
InterfaceOps == {"mtu", "police", "ofport", "patch.connect", "patch.disconnect"}
BridgeOps == {"mcast", "bridge.create", "bridge.delete", "bridge.delete-tree", "internal.create",
              "port.create", "bond.create", "tunnel.create", "mirror.create"} \cup TreeOps
Subject(op) == IF op \in PortOps THEN "Port"
               ELSE IF op \in InterfaceOps THEN "Interface"
               ELSE IF op \in BridgeOps THEN "Bridge" ELSE "Mirror"
Second(op) == IF op = "mirror.create" THEN "Mirror"
              ELSE IF op = "port.move" THEN "Bridge"
              ELSE IF op \in InterfaceOps THEN "Interface" ELSE "Port"
SecondOps == {"internal.create", "port.create", "bond.create", "tunnel.create", "mirror.create",
              "port.move", "patch.connect", "patch.disconnect"}

ASSUME RequestAssumption ==
    \A n \in Networks : \A r \in n.requests :
        /\ r.op \in PortOps \cup InterfaceOps \cup BridgeOps \cup MirrorOps
        /\ IsKey(r.key) /\ Table(r.key) = Subject(r.op)
        /\ r.op \in SecondOps => IsKey(r.on) /\ Table(r.on) = Second(r.op)
        /\ \A k \in r.set : IsKey(k) /\ Table(k) = IF r.op \in MirrorOps THEN "Port" ELSE "Interface"

(***************************************************************************)
(* Shapes of a snapshot g.                                                 *)
(***************************************************************************)

Ports(g, b) == {k \in g[b].links : Table(k) = "Port"}
Mirrors(g, b) == g[b].links \ Ports(g, b)
Members(g, ps) == UNION {g[p].links : p \in ps}
HoldersOf(g, ks) == UNION {Holders(g, k) : k \in ks}
Free(g, ks) == \A k \in ks : ~g[k].ctl
Plain(g, i) == g[i].cfg.type \in {"system", "internal"} /\ g[i].cfg.opts = {}
Local(b) == PortOf(b)
LocalInternal(g, b) ==
    /\ Local(b) \in Ports(g, b)
    /\ \E i \in DOMAIN g : g[Local(b)].links = {i} /\ g[i].cfg.type = "internal"
Region(g, b) == {b} \cup Ports(g, b) \cup Members(g, Ports(g, b))
Tunnelled(g, i) == g[i].cfg.type = "vxlan"

\* Names of bridges, ports and interfaces are one name space.
NameFree(g, n) == \A k \in DOMAIN g : Table(k) \in {"Root", "Mirror"} \/ Name(k) # n

\* The allow lists name rows by their identity in the first generation.
Granted(g, k) == view.gen = 1 /\ k \in DOMAIN net.rows /\ g[k].id = net.rows[k].id

(***************************************************************************)
(* Field changes: what they depend on (scope) and what they require.       *)
(***************************************************************************)

VlanKnown(g, p) == Cardinality(Holders(g, p)) = 1 /\ g[p].links # {}
VlanScope(g, p) ==
    Cells({p}, {"held", "links", "ctl"}) \cup Cells(g[p].links, {"id", "type", "opts", "ctl"})
    \cup Cells(Holders(g, p) \cup {Root}, {"ctl"})
VlanAuthority(g, p) ==
    Granted(g, p) /\ Free(g, {p, Root} \cup Holders(g, p) \cup g[p].links)

BondKnown(g, p) ==
    /\ VlanKnown(g, p)
    /\ \A i \in g[p].links : Holders(g, i) = {p}
    /\ \A b \in Holders(g, p) : b \in g[Root].links
BondScope(g, p) ==
    VlanScope(g, p) \cup {<<Root, "id">>}
    \cup Cells(Holders(g, p), {"tree", "held"}) \cup Cells(g[p].links, {"held"})
BondEditable(g, p) ==
    /\ VlanAuthority(g, p)
    /\ \A b \in Holders(g, p) : p # Local(b) /\ g[b].cfg.tree = 0
    /\ \A i \in g[p].links : g[i].cfg.type = "system"
    /\ Cardinality(g[p].links) > 1

QinQScope(g, p) == Cells({Root}, {"id", "other"}) \cup Cells(g[p].links, {"held"})
QinQSupported(g, p) ==
    /\ \A b \in Holders(g, p) : b \in g[Root].links /\ p # Local(b)
    /\ \E i \in DOMAIN g : /\ g[p].links = {i}
                           /\ Holders(g, i) = {p}
                           /\ g[i].cfg.type = "system" /\ g[i].cfg.opts = {}

\* A standalone internal interface, under a port of its own name.
Standalone(g, i) ==
    \E p \in Rows(g, "Port"), b \in Rows(g, "Bridge") :
        /\ Holders(g, i) = {p} /\ Holders(g, p) = {b} /\ b \in g[Root].links
        /\ g[p].links = {i} /\ p = PortOf(i) /\ p # Local(b)
        /\ g[i].cfg.type = "internal" /\ g[i].cfg.opts = {}
        /\ Free(g, {Root, b, p, i})
InterfaceScope(g, i) ==
    LET ps == Holders(g, i)
        bs == HoldersOf(g, ps)
    IN Cells({Root}, {"id", "ctl"}) \cup Cells(ps, {"id", "links", "held", "ctl"})
       \cup Cells(bs, {"id", "ports", "ctl"}) \cup Cells({i}, {"type", "opts", "held", "ctl"})

\* What decides the default MTU: the other ports of the bridge.
Peers(g, i) == UNION {Ports(g, b) : b \in HoldersOf(g, Holders(g, i))}
MtuDefaultScope(g, i) ==
    Cells(Peers(g, i), {"id", "links", "held", "ctl"})
    \cup Cells(Members(g, Peers(g, i)) \ {i}, {"type", "opts", "mtu", "held", "ctl"})
MtuDefaultKnown(g, i) ==
    LET others == Members(g, Peers(g, i)) \ {i} IN
    /\ \A p \in Peers(g, i) : Cardinality(Holders(g, p)) = 1 /\ ~g[p].ctl
    /\ \A j \in others : Plain(g, j) /\ Cardinality(Holders(g, j)) = 1 /\ ~g[j].ctl
    /\ \E j \in others : g[j].cfg.type # "internal" \/ g[j].cfg.mtu # 0

\* Changes that the whole bridge takes part in need a simple bridge.
Regular(g, b) ==
    /\ b \in g[Root].links /\ LocalInternal(g, b)
    /\ \A p \in Ports(g, b) :
          /\ Holders(g, p) = {b} /\ Cardinality(g[p].links) = 1
          /\ g[p].cfg.bond = 0 /\ g[p].cfg.vlan # QinQ
          /\ \A i \in g[p].links : Holders(g, i) = {p} /\ Plain(g, i)
    /\ Free(g, {Root} \cup Region(g, b))
    /\ g[Root].cfg.other = 0 /\ Rows(g, "Mirror") = {}
Unprotected(g, b) == \A p \in Ports(g, b) : g[p].cfg.prot = 0

IsolationGate(g, p) ==
    \E b \in Rows(g, "Bridge") :
        /\ Holders(g, p) = {b} /\ p # Local(b)
        /\ g[b].cfg.tree = 0 /\ g[b].cfg.mcast = 0
        /\ Cardinality(Ports(g, b)) > 1 /\ Regular(g, b)
MulticastGate(g, b) ==
    g[b].cfg.tree = 0 /\ Unprotected(g, b) /\ Cardinality(Ports(g, b)) > 1 /\ Regular(g, b)
TreeGate(g, b) == g[b].cfg.mcast = 0 /\ Unprotected(g, b) /\ Regular(g, b)

\* The rows of the bridge, all columns, except the one that changes.
RegionScope(g, b, k, f) ==
    WholeOf({Root} \cup Region(g, b)) \ {<<k, f>>, <<k, "mark">>}

PolicingScope(g, i) == InterfaceScope(g, i) \cup {<<Root, "other">>}
IsolationScope(g, p) == UNION {RegionScope(g, b, p, "prot") : b \in Holders(g, p)}
MulticastScope(g, b) == RegionScope(g, b, b, "mcast")
SpanningTreeScope(g, b) == RegionScope(g, b, b, "tree")
Scope(g, op, k) ==
    CASE op = "vlan"   -> VlanScope(g, k)
      [] op = "bond"   -> BondScope(g, k)
      [] op = "mtu"    -> InterfaceScope(g, k)
      [] op = "police" -> PolicingScope(g, k)
      [] op = "prot"   -> IsolationScope(g, k)
      [] op = "mcast"  -> MulticastScope(g, k)
      [] op \in TreeOps -> SpanningTreeScope(g, k)

\* Rows that may be changed: they are in the allow list and the gate is open.
InterfaceMTU(g, i, before, after) ==
    /\ Granted(g, i) /\ Standalone(g, i)
    /\ (before = 0 \/ after = 0) => MtuDefaultKnown(g, i)
InterfacePolicing(g, i) == Granted(g, i) /\ Standalone(g, i) /\ g[Root].cfg.other = 0
IsolationPort(g, p) == Granted(g, p) /\ IsolationGate(g, p)
MulticastBridge(g, b) == Granted(g, b) /\ MulticastGate(g, b)
SpanningTreeBridge(g, b) == Granted(g, b) /\ TreeGate(g, b)

\* What is required of the view to stage a field change.
Stageable(g, op, k, before, after) ==
    CASE op = "vlan"   -> VlanKnown(g, k)
      [] op = "bond"   -> BondKnown(g, k)
      [] op = "mtu"    -> InterfaceMTU(g, k, before, after)
      [] op = "police" -> InterfacePolicing(g, k)
      [] op = "prot"   -> IsolationPort(g, k)
      [] op = "mcast"  -> MulticastBridge(g, k)
      [] op \in TreeOps -> SpanningTreeBridge(g, k)

UsesQinQ(i) == i.op = "vlan" /\ (i.ctx \/ QinQ \in {i.before, i.after})

(***************************************************************************)
(* Graph changes: conditions, rows before (keys) and rows after.           *)
(***************************************************************************)

Sub(g, ks) == [k \in ks |-> g[k]]
Without(g, ks) == Sub(g, DOMAIN g \ ks)
Relinked(h, k, out, in) == [h EXCEPT ![k].links = (@ \ out) \cup in]

NewInterface(k, type) == Just(k, Row(0, {}, InterfaceCfg(type)))
NewPortRow(k, members) == Just(k, Row(0, members, PortCfg))

\* An isolated bridge with its local port.
NewBridge(b) ==
    With(Just(b, Row(0, {Local(b)}, BridgeCfg)),
         With(NewPortRow(Local(b), {InterfaceOf(b)}), NewInterface(InterfaceOf(b), "internal")))
Graph(b) == {b, PortOf(b), InterfaceOf(b)}
CanCreateBridge(g, r) == NameFree(g, Name(r.key))

\* Rows that we created and nobody labelled since.
Owned(g, ks) ==
    \E m \in {"old", "go", "back"} :
        \A k \in ks : g[k].made = m /\ g[k].mark = None /\ ~g[k].ctl
IsolatedBridge(g, b) ==
    /\ b \in g[Root].links /\ Ports(g, b) = {Local(b)}
    /\ g[Local(b)].links = {InterfaceOf(b)}
    /\ g[InterfaceOf(b)].cfg.type = "internal" /\ Owned(g, Graph(b))

\* A bridge that may get, or lose, an internal access port.
InternalParent(g, b) ==
    /\ b \in g[Root].links /\ g[b].cfg.tree = 0 /\ ~g[b].ctl
    /\ LocalInternal(g, b) /\ g[Local(b)].links = {InterfaceOf(b)}
    /\ Free(g, {Local(b), InterfaceOf(b)})
InternalPort(p, vlan) ==
    With(Just(p, Row(0, {InterfaceOf(p)}, [PortCfg EXCEPT !.vlan = vlan])),
         NewInterface(InterfaceOf(p), "internal"))
CanCreateInternal(g, r) == NameFree(g, Name(r.on)) /\ Local(r.key) \in Ports(g, r.key)

\* A port of two bridges is left out: no transaction that deletes it commits.
OwnInternalPort(g, p) ==
    \E b \in Rows(g, "Bridge") :
        /\ Holders(g, p) = {b} /\ p # Local(b) /\ InternalParent(g, b)
        /\ g[p].cfg.vlan \in {1, 2} /\ g[p].links = {InterfaceOf(p)}
        /\ g[InterfaceOf(p)].cfg.type = "internal" /\ Owned(g, {p, InterfaceOf(p)})

\* checkBridge and portBridge.
TopologyBridge(g, b) == g[b].cfg.tree = 0
UnderBridge(g, p) ==
    \E b \in Rows(g, "Bridge") :
        Holders(g, p) = {b} /\ TopologyBridge(g, b) /\ p # Local(b)
Loaded(g, p) == {p} \cup Holders(g, p) \cup g[p].links

\* port.create and bond.create: r.set names the new interfaces.
CanCreatePort(g, r) ==
    /\ TopologyBridge(g, r.key)
    /\ \A k \in r.set \cup {r.on} : NameFree(g, Name(k))
PortCreated(g, r) ==
    LET bond == IF Cardinality(r.set) > 1 THEN 1 ELSE 0
        port == Just(r.on, Row(0, r.set, [PortCfg EXCEPT !.bond = bond]))
        members == [k \in r.set |-> Row(0, {}, InterfaceCfg("system"))]
    IN With(With(members, port), Relinked(Sub(g, {r.key}), r.key, {}, {r.on}))

PortDeleted(g, p) ==
    LET b == Holders(g, p) IN [k \in b |-> [g[k] EXCEPT !.links = @ \ {p}]]

\* port.move to bridge r.on.
CanMove(g, r) == UnderBridge(g, r.key) /\ r.on \in DOMAIN g /\ TopologyBridge(g, r.on)
                 /\ r.on \notin Holders(g, r.key)
Moved(g, r) ==
    [k \in Loaded(g, r.key) \cup {r.on} |->
        CASE k \in Holders(g, r.key) -> [g[k] EXCEPT !.links = @ \ {r.key}]
          [] k = r.on -> [g[k] EXCEPT !.links = @ \cup {r.key}]
          [] OTHER -> g[k]]

\* bond.members.set: r.set are the members from now on. A member of another
\* port consumes that port; a member left out gets a port of its own.
Sources(g, r) == HoldersOf(g, r.set \cap DOMAIN g) \ {r.key}
Released(g, r) == g[r.key].links \ r.set
CanSetMembers(g, r) ==
    /\ UnderBridge(g, r.key) /\ r.set \subseteq DOMAIN g
    /\ \A i \in r.set : g[i].cfg.type = "system"
    /\ \A p \in Sources(g, r) :
          /\ UnderBridge(g, p) /\ Holders(g, p) = Holders(g, r.key)
          /\ Cardinality(g[p].links) = 1 /\ g[p].cfg.vlan = g[r.key].cfg.vlan
    /\ \A i \in Released(g, r) : PortOf(i) \notin DOMAIN g
MembersBefore(g, r) == Loaded(g, r.key) \cup UNION {Loaded(g, p) : p \in Sources(g, r)}
MembersSet(g, r) ==
    LET bond == IF Cardinality(r.set) = 1 THEN 0
                ELSE IF g[r.key].cfg.bond = 0 THEN 1 ELSE g[r.key].cfg.bond
        split == {PortOf(i) : i \in Released(g, r)}
    IN [k \in (MembersBefore(g, r) \ Sources(g, r)) \cup split |->
          CASE k = r.key -> [g[k] EXCEPT !.links = r.set, !.cfg.bond = bond]
            [] k \in split -> [Row(0, {InterfaceOf(k)}, [g[r.key].cfg EXCEPT !.bond = 0])
                               EXCEPT !.ctl = g[r.key].ctl, !.mark = g[r.key].mark]
            [] k \in Holders(g, r.key) -> [g[k] EXCEPT !.links = (@ \ Sources(g, r)) \cup split]
            [] OTHER -> g[k]]

\* interface.ofport.set looks at every interface of the bridge.
OfportBefore(g, i) == UNION {Region(g, b) : b \in HoldersOf(g, Holders(g, i))}
CanSetOfport(g, r) ==
    /\ \E p \in Rows(g, "Port") : Holders(g, r.key) = {p} /\ UnderBridge(g, p)
    /\ \A j \in OfportBefore(g, r.key) \ {r.key} :
          Table(j) = "Interface" => g[j].cfg.ofport = 0 \/ g[j].cfg.ofport # r.v

\* interface.patch.connect and .disconnect of r.key and r.on.
PatchBefore(g, r) ==
    UNION {Loaded(g, p) : p \in HoldersOf(g, {r.key, r.on})}
CanPatch(g, r, type) ==
    /\ r.on \in DOMAIN g
    /\ \A i \in {r.key, r.on} :
          /\ \E p \in Rows(g, "Port") :
                Holders(g, i) = {p} /\ UnderBridge(g, p) /\ g[p].links = {i}
          /\ g[i].cfg.type = type
          /\ g[i].cfg.mtu = 0 /\ g[i].cfg.ofport = 0 /\ g[i].cfg.police = 0
    /\ type = "internal" => g[r.key].cfg.opts = {} /\ g[r.on].cfg.opts = {}
    /\ type = "patch" => g[r.key].cfg.opts = {Name(r.on)} /\ g[r.on].cfg.opts = {Name(r.key)}
Patched(g, r, type) ==
    [k \in PatchBefore(g, r) |->
        IF k \notin {r.key, r.on} THEN g[k]
        ELSE [g[k] EXCEPT !.cfg.type = type,
                          !.cfg.opts = IF type = "patch" THEN {Name(IF k = r.key THEN r.on ELSE r.key)} ELSE {}]]

\* Tunnels: r.remote is the receive identity (remote address and key).
IdentityFree(g, i, v) ==
    \A j \in Rows(g, "Interface") \ {i} : Tunnelled(g, j) => g[j].cfg.opts # {v}
Tunnel(v) == [InterfaceCfg("vxlan") EXCEPT !.opts = {v}]
TunnelCreated(g, r) ==
    LET port == With(NewPortRow(r.on, {InterfaceOf(r.on)}),
                     Just(InterfaceOf(r.on), Row(0, {}, Tunnel(r.remote))))
    IN With(port, Relinked(Sub(g, {r.key}), r.key, {}, {r.on}))
CanTunnel(g, r) ==
    CASE r.op = "tunnel.create" ->
            TopologyBridge(g, r.key) /\ NameFree(g, Name(r.on)) /\ IdentityFree(g, r.on, r.remote)
      [] OTHER ->
            /\ UnderBridge(g, r.key)
            /\ \E i \in DOMAIN g : /\ g[r.key].links = {i} /\ Tunnelled(g, i)
                                   /\ r.op = "tunnel.configure" => IdentityFree(g, i, r.remote)

\* Mirrors: r.set are the ports, those in r.out the output and the others selected.
MirrorBridge(g, r) == IF r.op = "mirror.create" THEN {r.key} ELSE Holders(g, r.key)
Selected(g, r) == r.set \cup (IF r.op = "mirror.create" THEN {} ELSE g[r.key].refs)
MirrorBefore(g, r) ==
    MirrorBridge(g, r) \cup Selected(g, r) \cup Members(g, Selected(g, r))
    \cup ({r.key} \ MirrorBridge(g, r))
CanMirror(g, r) ==
    /\ r.op = "mirror.create" => r.on \notin DOMAIN g
    /\ Cardinality(MirrorBridge(g, r)) = 1
    /\ r.set \subseteq DOMAIN g
    /\ \A b \in MirrorBridge(g, r), p \in Selected(g, r) :
          p \in g[b].links /\ Cardinality(g[p].links) = 1
Mirrored(g, r) ==
    LET m == IF r.op = "mirror.create" THEN r.on ELSE r.key
        row == IF m \in DOMAIN g THEN [g[m] EXCEPT !.refs = r.set, !.cfg.out = r.out]
               ELSE [Row(0, {}, [out |-> r.out]) EXCEPT !.refs = r.set]
    IN IF r.op = "mirror.delete"
       THEN [k \in MirrorBefore(g, r) \ {m} |-> [g[k] EXCEPT !.links = @ \ {m}]]
       ELSE [k \in MirrorBefore(g, r) \cup {m} |->
                IF k = m THEN row
                ELSE IF k \in MirrorBridge(g, r) THEN [g[k] EXCEPT !.links = @ \cup {m}] ELSE g[k]]

(***************************************************************************)
(* Graph requests: what each kind looks at and what it leaves behind.      *)
(***************************************************************************)

Can(g, r) ==
    CASE r.op = "bridge.create"   -> CanCreateBridge(g, r)
      [] r.op = "bridge.delete"   -> IsolatedBridge(g, r.key)
      [] r.op = "internal.create" -> CanCreateInternal(g, r)
      [] r.op = "internal.delete" -> OwnInternalPort(g, r.key)
      [] r.op \in {"port.create", "bond.create"} -> CanCreatePort(g, r)
      [] r.op = "port.delete"     -> UnderBridge(g, r.key)
      [] r.op = "bridge.delete-tree" -> TopologyBridge(g, r.key)
      [] r.op = "port.move"       -> CanMove(g, r)
      [] r.op = "bond.members"    -> CanSetMembers(g, r)
      [] r.op = "ofport"          -> CanSetOfport(g, r)
      [] r.op = "patch.connect"   -> CanPatch(g, r, "internal")
      [] r.op = "patch.disconnect" -> CanPatch(g, r, "patch")
      [] r.op \in TunnelOps       -> CanTunnel(g, r)
      [] r.op \in MirrorOps       -> CanMirror(g, r)

Before(g, r) ==
    CASE r.op = "bridge.create" -> {}
      [] r.op = "bridge.delete" -> Graph(r.key)
      [] r.op = "bridge.delete-tree" -> Region(g, r.key)
      [] r.op \in {"internal.create", "port.create", "bond.create", "tunnel.create"} -> {r.key}
      [] r.op \in {"internal.delete", "port.delete", "tunnel.configure", "tunnel.delete"} ->
            Loaded(g, r.key)
      [] r.op = "port.move"     -> Loaded(g, r.key) \cup {r.on}
      [] r.op = "bond.members"  -> MembersBefore(g, r)
      [] r.op = "ofport"        -> OfportBefore(g, r.key)
      [] r.op \in {"patch.connect", "patch.disconnect"} -> PatchBefore(g, r)
      [] r.op \in MirrorOps     -> MirrorBefore(g, r)

After(g, r) ==
    CASE r.op = "bridge.create" -> NewBridge(r.key)
      [] r.op \in {"bridge.delete", "bridge.delete-tree"} -> <<>>
      [] r.op = "internal.create" ->
            With(InternalPort(r.on, r.v), Relinked(Sub(g, {r.key}), r.key, {}, {r.on}))
      [] r.op \in {"internal.delete", "port.delete", "tunnel.delete"} -> PortDeleted(g, r.key)
      [] r.op \in {"port.create", "bond.create"} -> PortCreated(g, r)
      [] r.op = "port.move"    -> Moved(g, r)
      [] r.op = "bond.members" -> MembersSet(g, r)
      [] r.op = "ofport" -> [Sub(g, OfportBefore(g, r.key)) EXCEPT ![r.key].cfg.ofport = r.v]
      [] r.op = "patch.connect"    -> Patched(g, r, "patch")
      [] r.op = "patch.disconnect" -> Patched(g, r, "internal")
      [] r.op = "tunnel.create"    -> TunnelCreated(g, r)
      [] r.op = "tunnel.configure" ->
            [k \in Loaded(g, r.key) |->
                IF Table(k) = "Interface" THEN [g[k] EXCEPT !.cfg.opts = {r.remote}] ELSE g[k]]
      [] r.op \in MirrorOps -> Mirrored(g, r)

(***************************************************************************)
(* Intents.                                                                *)
(***************************************************************************)

Marked(rows, ks, marker) ==
    [k \in DOMAIN rows |-> IF k \in ks THEN [rows[k] EXCEPT !.made = marker] ELSE rows[k]]

\* What an intent removes, and what it adds.
Doomed(i) == DOMAIN i.from \ DOMAIN i.to
Fresh(i) == DOMAIN i.to \ DOMAIN i.from
Owns(i) == DOMAIN i.from \cup DOMAIN i.to

\* The configuration g after a change, with its marker. Rows that stay get what
\* differs between `from` and `to`; ovsdb-server collects what loses its links.
Delta(now, from, to) == (now \ (from \ to)) \cup (to \ from)
Rewritten(row, from, to) ==
    [row EXCEPT !.links = Delta(@, from.links, to.links), !.refs = Delta(@, from.refs, to.refs),
                !.cfg = IF from.cfg = to.cfg THEN @ ELSE to.cfg]
Grafted(g, i, marker) ==
    LET old == {k \in Doomed(i) : Table(k) = "Bridge"}
        new == {k \in Fresh(i) : Table(k) = "Bridge"}
        kept == [k \in DOMAIN g |->
                    IF k = Root THEN [g[k] EXCEPT !.links = Delta(@, old, new), !.mark = marker]
                    ELSE IF k \in DOMAIN i.from \cap DOMAIN i.to
                         THEN Rewritten(g[k], i.from[k], i.to[k]) ELSE g[k]]
    IN Settle(With(kept, Sub(i.to, Fresh(i))))
FieldWritten(row, i, marker) == [row EXCEPT !.cfg[i.f] = i.after, !.mark = marker]

\* The columns in which a row of a graph is compared.
Config(k) == Whole(k) \ Cells({k}, {"made", "mark"})
Exact(ks) ==
    UNION {IF Table(k) = "Interface" THEN Cells({k}, {"id", "type", "opts"} \cup Labels) ELSE Whole(k)
             : k \in ks}
Compared(op, ks, present) ==
    LET bs == {k \in ks : Table(k) = "Bridge"} IN
    CASE op = "bridge.create" -> Cells(ks, {"id"})
      [] op = "bridge.delete" -> IF present THEN Exact(ks) ELSE Cells(ks, {"id"})
      [] op \in {"internal.create", "internal.delete"} ->
            Cells(bs, {"ports"}) \cup (IF present THEN Exact(ks \ bs) ELSE Cells(ks \ bs, {"id"}))
      [] OTHER -> UNION {Config(k) : k \in ks}
GraphScope(g, op, ks) ==
    CASE op \in {"bridge.create", "bridge.delete"} -> {<<Root, "id">>}
      [] op \in {"internal.create", "internal.delete"} ->
            {<<Root, "id">>} \cup
            UNION {(Whole(b) \ {<<b, "links">>}) \cup Exact({Local(b)} \cup g[Local(b)].links)
                     : b \in {k \in ks : Table(k) = "Bridge"}}
      [] OTHER -> Cells({Root}, {"id", "ctl", "other"})

\* tunnelDependency: every row that the change does not own.
Rest(g, owned) == Image(g, UNION {Config(k) : k \in DOMAIN g \ (owned \cup {Root})})

\* Context that is captured only where the values call for it.
Context(op, before, after) ==
    \/ op = "vlan" /\ QinQ \in {before, after}
    \/ op = "mtu" /\ 0 \in {before, after}
Dependencies(g, op, k, ctx) ==
    Scope(g, op, k)
    \cup (IF ctx /\ op = "vlan" THEN QinQScope(g, k) ELSE {})
    \cup (IF ctx /\ op = "mtu" THEN MtuDefaultScope(g, k) ELSE {})

Blank == [op |-> "", key |-> Root, id |-> 0, gen |-> 0, dir |-> "go",
          f |-> "", before |-> 0, after |-> 0, ctx |-> FALSE,
          from |-> <<>>, to |-> <<>>, spare |-> <<>>, old |-> {},
          dep |-> <<>>, was |-> <<>>, will |-> <<>>, again |-> <<>>, rest |-> <<>>]

FieldImage(i, v) == [c \in Cells({i.key}, {"id", i.f}) |-> IF c[2] = "id" THEN {i.id} ELSE {v}]
FieldIntent(g, r) ==
    LET f == FieldOf(r.op)
        ctx == Context(r.op, g[r.key].cfg[f], r.v)
        i == [Blank EXCEPT !.op = r.op, !.key = r.key, !.id = g[r.key].id, !.gen = view.gen,
                           !.f = f, !.before = g[r.key].cfg[f], !.after = r.v, !.ctx = ctx,
                           !.dep = Image(g, Dependencies(g, r.op, r.key, ctx))]
    IN [i EXCEPT !.was = FieldImage(i, i.before), !.will = FieldImage(i, i.after),
                 !.again = FieldImage(i, i.before)]

\* UUIDs are chosen for the rows to add, and for the rows to remove in case
\* they have to be put back.
Picks(g, r) ==
    LET from == Before(g, r)
        to == DOMAIN After(g, r)
    IN [fresh |-> to \ from, doomed |-> from \ to]

\* A deletion is about rows as the manager creates them, which have exactly
\* these columns; it does not store those it finds.
CanonicalPort(op, row) ==
    IF op = "bridge.delete" THEN PortCfg ELSE [PortCfg EXCEPT !.vlan = row.cfg.vlan]
Canonical(op, k, row) ==
    [Row(row.id, {j \in row.links : Table(j) \in {"Port", "Interface"}},
         CASE Table(k) = "Bridge" -> BridgeCfg
           [] Table(k) = "Interface" -> InterfaceCfg("internal")
           [] OTHER -> CanonicalPort(op, row)) EXCEPT !.made = row.made]
DeletionOps == {"bridge.delete", "internal.delete"}
Deletes(op, k) == op \in DeletionOps /\ (op = "internal.delete" => Table(k) # "Bridge")
Stored(g, r) ==
    [k \in Before(g, r) |-> IF Deletes(r.op, k) THEN Canonical(r.op, k, g[k]) ELSE g[k]]

Restoration(i) == [i EXCEPT !.from = i.to, !.to = Marked(Renewed(i.from, i.spare), Doomed(i), "back")]
GraphIntent(g, r, ids) ==
    LET picks == Picks(g, r)
        i == [Blank EXCEPT !.op = r.op, !.key = r.key, !.gen = view.gen,
                !.from = Stored(g, r),
                !.to = Marked(Renewed(After(g, r), Sub(ids, picks.fresh)), picks.fresh, "go"),
                !.spare = Sub(ids, picks.doomed),
                !.old = {g[k].id : k \in picks.doomed},
                !.dep = Image(g, GraphScope(g, r.op, Before(g, r)))]
        ahead == Grafted(g, i, "go")
        back == Restoration(i)
    IN [i EXCEPT
          !.was = Image(g, Compared(i.op, DOMAIN i.from, i.old # {})),
          !.will = Image(ahead, Compared(i.op, DOMAIN i.to, FALSE)),
          !.again = Image(Grafted(ahead, back, "back"), Compared(i.op, DOMAIN i.from, FALSE)),
          !.rest = IF i.op \in TunnelOps \cup MirrorOps THEN Rest(g, Owns(i)) ELSE <<>>]

\* AfterImage: the intent as if it were to be made again, for the proof.
AfterImage(i) ==
    [i EXCEPT !.before = i.after, !.was = i.will, !.from = i.to, !.dir = "seen"]

\* Reverse: the intent that takes it back. A deletion stays about the rows
\* that it deleted; any other change is now about the rows that it added.
Reverse(i) ==
    [Restoration(i) EXCEPT !.before = i.after, !.after = i.before,
                           !.was = i.will, !.will = i.again, !.dir = "back",
                           !.old = IF i.op \in DeletionOps THEN @ ELSE {i.to[k].id : k \in Fresh(i)}]

(***************************************************************************)
(* Checks: what has changed since the intent was staged, and what the      *)
(* present configuration allows.                                           *)
(***************************************************************************)

\* The rows to add: neither their names nor their UUIDs may be taken.
Creatable(i, g, k) ==
    /\ i.to[k].id \notin Present(g) \cup view.gone
    /\ IF i.op \in LifecycleOps THEN NameFree(g, Name(k)) ELSE k \notin DOMAIN g

\* The rows that were removed must be gone. A deletion can be taken back as long
\* as the registry knows them as gone and the UUIDs for their successors are free.
Removed(i, g) == i.dir = "seen" => i.old \cap Present(g) = {}
Restorable(i, g) ==
    /\ i.dir # "go" => i.old \subseteq view.gone \ Present(g)
    /\ i.dir = "go" => \A k \in DOMAIN i.spare : i.spare[k] \notin Present(g) \cup view.gone

\* The bridge that a mirror hangs from, with the ports it is to use.
MirrorFits(i, g) ==
    \A m \in {k \in DOMAIN i.to : Table(k) = "Mirror"},
       b \in {k \in DOMAIN i.to : Table(k) = "Bridge"} :
        /\ b \in DOMAIN g /\ g[b].id = i.to[b].id
        /\ i.to[m].refs \subseteq Ports(g, b)
        /\ Local(b) \notin i.to[m].cfg.out
        /\ \A o \in Mirrors(g, b) \ {m} :
              /\ g[o].cfg.out \cap (i.to[m].refs \ i.to[m].cfg.out) = {}
              /\ i.to[m].cfg.out \cap (g[o].refs \ g[o].cfg.out) = {}
TunnelFits(i, g) ==
    \A k \in {j \in DOMAIN i.to : Table(j) = "Interface"} :
        Tunnelled(i.to, k) => \A v \in i.to[k].cfg.opts : IdentityFree(g, k, v)

\* Nothing that was captured has changed, and the generation is the same.
Unmoved(i, g) ==
    /\ i.gen = view.gen
    /\ Image(g, DOMAIN i.dep) = i.dep
    /\ Image(g, DOMAIN i.was) = i.was

NoProblem(i, g) ==
    /\ Unmoved(i, g)
    /\ \A k \in Fresh(i) : Creatable(i, g, k)
    /\ Removed(i, g)
    /\ i.op \notin FieldOps \cup LifecycleOps => ~g[Root].ctl
    /\ i.op \in TunnelOps \cup MirrorOps =>
          /\ g[Root].cfg.other = 0
          /\ Rest(g, Owns(i)) = i.rest
    /\ i.op \in TunnelOps => TunnelFits(i, g)
    /\ i.op \in MirrorOps => MirrorFits(i, g)

\* Rows that a topology change, and rows that a tunnel or mirror may touch.
TopologyNode(g, k) ==
    /\ Granted(g, k) /\ ~g[k].ctl /\ g[k].refs = {}
    /\ Table(k) = "Bridge" => Mirrors(g, k) = {}
    /\ Table(k) = "Interface" => g[k].cfg.type \in {"system", "internal", "patch"}
CleanInterface(g, k) == ~g[k].ctl /\ (Plain(g, k) \/ Tunnelled(g, k))
CleanPort(g, k) ==
    /\ ~g[k].ctl /\ Cardinality(g[k].links) = 1
    /\ g[k].cfg.prot = 0 /\ g[k].cfg.bond = 0 /\ g[k].cfg.vlan # QinQ
    /\ \A i \in g[k].links : CleanInterface(g, i) /\ Holders(g, i) = {k}
CleanBridge(g, k) ==
    /\ ~g[k].ctl /\ g[k].cfg.tree = 0 /\ g[k].cfg.mcast = 0
    /\ \A p \in Ports(g, k) : CleanPort(g, p) /\ Holders(g, p) = {k}
    /\ LocalInternal(g, k)
PathNode(g, k, tunnel) ==
    /\ Granted(g, k)
    /\ CASE Table(k) = "Interface" -> CleanInterface(g, k)
         [] Table(k) = "Port" -> CleanPort(g, k)
         [] Table(k) = "Mirror" -> ~g[k].ctl /\ Cardinality(Holders(g, k)) = 1
         [] Table(k) = "Bridge" -> /\ CleanBridge(g, k)
                                   /\ tunnel => Mirrors(g, k) = {}
                                   /\ \A m \in Mirrors(g, k) : ~g[m].ctl

\* Checks of each kind of change: at validation, at admission, before the
\* transaction is sent and, with the images exchanged, in proof and compensation.
VlanChecks(i, g) ==
    /\ Unmoved(i, g)
    /\ VlanKnown(g, i.key) /\ VlanAuthority(g, i.key)
    /\ IF UsesQinQ(i) THEN QinQSupported(g, i.key) ELSE i.after # 0
BondChecks(i, g) == Unmoved(i, g) /\ BondKnown(g, i.key) /\ BondEditable(g, i.key)
MtuChecks(i, g) == Unmoved(i, g) /\ InterfaceMTU(g, i.key, i.before, i.after)
PolicingChecks(i, g) == Unmoved(i, g) /\ InterfacePolicing(g, i.key)
IsolationChecks(i, g) == Unmoved(i, g) /\ IsolationPort(g, i.key)
MulticastChecks(i, g) == Unmoved(i, g) /\ MulticastBridge(g, i.key)
SpanningTreeChecks(i, g) == i.op = "tree" /\ Unmoved(i, g) /\ SpanningTreeBridge(g, i.key)

BridgeChecks(i, g) == NoProblem(i, g) /\ ~g[Root].ctl
BridgeDeletionChecks(i, g) == BridgeChecks(i, g) /\ Restorable(i, g)
InternalPortChecks(i, g) ==
    /\ NoProblem(i, g) /\ ~g[Root].ctl
    /\ \A b \in {k \in DOMAIN i.to : Table(k) = "Bridge"} : Granted(g, b) /\ InternalParent(g, b)

PortDeletionChecks(i, g) == InternalPortChecks(i, g) /\ Restorable(i, g)

\* A compensation keeps the authority its change was admitted with.
PathChecks(i, g) ==
    /\ NoProblem(i, g)
    /\ i.dir = "go" => \A k \in DOMAIN i.from : PathNode(g, k, i.op \in TunnelOps)
TopologyChecks(i, g) ==
    /\ NoProblem(i, g)
    /\ i.dir = "go" => \A k \in DOMAIN i.from : TopologyNode(g, k)

Checks(i, g) ==
    CASE i.op = "vlan"   -> VlanChecks(i, g)
      [] i.op = "bond"   -> BondChecks(i, g)
      [] i.op = "mtu"    -> MtuChecks(i, g)
      [] i.op = "police" -> PolicingChecks(i, g)
      [] i.op = "prot"   -> IsolationChecks(i, g)
      [] i.op = "mcast"  -> MulticastChecks(i, g)
      [] i.op \in TreeOps -> SpanningTreeChecks(i, g)
      [] i.op = "bridge.create"   -> BridgeChecks(i, g)
      [] i.op = "bridge.delete"   -> BridgeDeletionChecks(i, g)
      [] i.op = "internal.create" -> InternalPortChecks(i, g)
      [] i.op = "internal.delete" -> PortDeletionChecks(i, g)
      [] i.op \in TunnelOps \cup MirrorOps -> PathChecks(i, g)
      [] OTHER -> TopologyChecks(i, g)

(***************************************************************************)
(* Operations on the draft.                                                *)
(***************************************************************************)

Prior(r) == {i \in draft.intents : i.op = r.op /\ i.key = r.key}
Open == Usable /\ ~draft.consumed
Replaced(out, in) == draft' = [draft EXCEPT !.intents = (@ \ out) \cup in]

\* Editing keeps the captured values; a VLAN that now needs the 802.1ad
\* context captures that context from the present view.
\* Seeded fault: the expected image stays that of the value staged first.
BugAmended(i, g, v) ==
    LET add == i.op = "vlan" /\ v = QinQ /\ ~i.ctx IN
    [i EXCEPT !.after = v, !.ctx = @ \/ add,
              !.dep = IF add THEN With(Image(g, QinQScope(g, i.key)), @) ELSE @]
Amended(i, g, v) ==
    LET add == i.op = "vlan" /\ v = QinQ /\ ~i.ctx IN
    [i EXCEPT !.after = v, !.will = FieldImage(i, v), !.ctx = @ \/ add,
              !.dep = IF add THEN With(Image(g, QinQScope(g, i.key)), @) ELSE @]
AmendableTree(i, g) == i.op \in TreeOps => Unmoved(i, g)
AmendableMtu(i, v) == (i.op = "mtu" /\ v = 0) => i.ctx
Amendable(i, g, v) ==
    /\ g[i.key].id = i.id
    /\ Stageable(g, i.op, i.key, i.before, v)
    /\ AmendableTree(i, g) /\ AmendableMtu(i, v)

\* VLAN and bond changes share a draft, one per port; any other is alone in it.
Joins(r) == \A i \in draft.intents : i.op \in ListOps /\ (i.key = r.key => i.op = r.op)
Alone(r) == draft.intents = Prior(r)

StageField(r) ==
    LET g == view.rows IN
    /\ r.key \in DOMAIN g
    /\ \A i \in draft.intents : i.gen = view.gen
    /\ IF r.op \in ListOps THEN Joins(r) ELSE Alone(r)
    /\ \/ /\ Prior(r) = {}
          /\ Stageable(g, r.op, r.key, g[r.key].cfg[FieldOf(r.op)], r.v)
          /\ Replaced({}, {FieldIntent(g, r)})
       \/ \E i \in Prior(r) :
             /\ i.after # r.v
             /\ Amendable(i, g, r.v)
             /\ Replaced({i}, {Amended(i, g, r.v)})
    /\ UNCHANGED issued

StageGraph(r) ==
    LET g == view.rows
        picks == Picks(g, r)
        rows == picks.fresh \cup picks.doomed
        count == Cardinality(rows)
    IN
    /\ draft.intents = {}
    /\ r.op # "bridge.create" => r.key \in DOMAIN g
    /\ Can(g, r)
    /\ draft.picked + count <= MaxPicks /\ count \in Nat /\ issued + count \in Ids
    /\ \E ids \in Assigned(rows, issued + 1) :
          LET i == GraphIntent(g, r, ids) IN
          /\ IF r.op \in LifecycleOps THEN NoProblem(i, g) ELSE Checks(i, g)
          /\ r.op \in DeletionOps => Restorable(i, g)
          /\ draft' = [draft EXCEPT !.intents = {i}, !.picked = @ + count]
    /\ issued' = issued + count

\* Staging a creation again may change the VLAN of the new port only.
RestageInternal(r) ==
    /\ r.op = "internal.create"
    /\ \E i \in Prior(r) :
          /\ r.on \in Fresh(i)
          /\ i.to[r.on].cfg.vlan # r.v
          /\ NoProblem(i, view.rows)
          /\ Replaced({i}, {[i EXCEPT !.to[r.on].cfg.vlan = r.v]})
    /\ UNCHANGED issued

Remove(i) ==
    Replaced({i}, {}) /\ UNCHANGED issued
Discard ==
    /\ Cardinality(draft.intents) > 1
    /\ Replaced(draft.intents, {})
    /\ UNCHANGED issued

\* Rebase: what is kept is captured again, from the view that was reviewed.
Rebasable(i, g) ==
    /\ i.op \in ListOps /\ i.gen = view.gen
    /\ i.key \in DOMAIN g /\ g[i.key].id = i.id
    /\ IF i.op = "vlan" THEN VlanKnown(g, i.key) ELSE BondKnown(g, i.key)
    /\ i.op = "bond" => Image(g, {<<i.key, "links">>}) = [c \in {<<i.key, "links">>} |-> i.dep[c]]
Rebase(keep) ==
    LET g == view.rows IN
    /\ draft.intents # {}
    /\ \A i \in draft.intents : Rebasable(i, g)
    /\ Replaced(draft.intents,
                {FieldIntent(g, [op |-> i.op, key |-> i.key, v |-> i.after]) : i \in keep})
    /\ draft'.intents # draft.intents
    /\ UNCHANGED issued

\* A draft changes nothing but itself; the UUIDs that it picks are used up.
EditDraft ==
    /\ Open
    /\ \/ \E r \in net.requests : r.op \in FieldOps /\ StageField(r)
       \/ \E r \in net.requests : r.op \notin FieldOps /\ StageGraph(r)
       \/ \E r \in net.requests : RestageInternal(r)
       \/ \E i \in draft.intents : Remove(i)
       \/ Discard
       \/ \E keep \in SUBSET draft.intents : Rebase(keep)
    /\ UNCHANGED <<net, db, world, epoch, reg, view, done>>

DraftInit == draft = [intents |-> {}, consumed |-> FALSE, picked |-> 0]
=============================================================================
