---------------------------- MODULE MCCandidates ----------------------------
(***************************************************************************)
(* Five small networks, each with the requests that apply to it and with   *)
(* the edits of third parties that could get in the way of them.           *)
(***************************************************************************)
EXTENDS Changes

B(n) == <<"Bridge", n>>
P(n) == <<"Port", n>>
I(n) == <<"Interface", n>>
M(n) == <<"Mirror", n>>

\* The rows ks with the UUIDs from n on.
Numbered(ks, n) == FoldSet(LAMBDA k, f : f @@ (k :> n + Cardinality(DOMAIN f)), <<>>, ks)

\* A network from its tree, bridge name -> port name -> interface names, and
\* the types of its interfaces; rows get the UUIDs from 1 on.
Network(tree, type) ==
    LET ports == UNION {{<<b, p>> : p \in DOMAIN tree[b]} : b \in DOMAIN tree}
        rows == (Root :> Row(0, {B(b) : b \in DOMAIN tree}, [other |-> 0]))
                @@ [k \in {B(b) : b \in DOMAIN tree} |->
                      Row(0, {P(p) : p \in DOMAIN tree[k[2]]}, BridgeCfg)]
                @@ [k \in {P(x[2]) : x \in ports} |->
                      Row(0, {I(i) : i \in UNION {tree[x[1]][x[2]] : x \in {y \in ports : y[2] = k[2]}}},
                          PortCfg)]
                @@ [k \in {I(i) : i \in DOMAIN type} |-> Row(0, {}, InterfaceCfg(type[k[2]]))]
    IN Renewed(rows, Numbered(DOMAIN rows, 1))
Own(g, ks) == Marked(g, ks, "old")

Request(op, key, v) ==
    [op |-> op, key |-> key, on |-> None, v |-> v, set |-> {}, out |-> {}, remote |-> ""]
Edit(op, key) == [op |-> op, key |-> key, f |-> "", v |-> 0, new |-> None, port |-> None, to |-> None]
Set(key, f, v) == [Edit("set", key) EXCEPT !.f = f, !.v = v]
Mirroring(b, p) == [Edit("mirror", b) EXCEPT !.new = M("mx"), !.port = p]

ListRows ==
    LET g == Network("b1" :> (("b1" :> {"b1"}) @@ ("p1" :> {"p1"}) @@ ("p2" :> {"m1", "m2"})),
                     [i \in {"b1", "p1", "m1", "m2"} |-> IF i = "b1" THEN "internal" ELSE "system"])
    IN [g EXCEPT ![P("p1")].cfg.vlan = 1, ![P("p2")].cfg.vlan = 1, ![P("p2")].cfg.bond = 1]
ListNetwork ==
    [rows |-> ListRows,
     requests |-> {Request("vlan", P("p1"), 2), Request("vlan", P("p1"), QinQ),
                   Request("bond", P("p2"), 2), Request("port.delete", P("p1"), 0),
                   [Request("bond.members", P("p2"), 0) EXCEPT !.set = {I("m1")}],
                   [Request("bond.members", P("p2"), 0) EXCEPT !.set = {I("m1"), I("m2"), I("p1")}]},
     edits |-> {Set(P("p1"), "vlan", 0), Set(B("b1"), "tree", 1), Set(Root, "other", 1),
                Edit("ctl", B("b1")), Edit("again", P("p1")),
                [Edit("share", I("m1")) EXCEPT !.to = P("p1")]}]

FlatNetwork ==
    [rows |-> Own(Network(("b1" :> (("b1" :> {"b1"}) @@ ("p1" :> {"p1"}))) @@ ("b2" :> ("b2" :> {"b2"})),
                          ("b1" :> "internal") @@ ("p1" :> "system") @@ ("b2" :> "internal")),
                  Graph(B("b2"))),
     requests |-> {Request("prot", P("p1"), 1), Request("mcast", B("b1"), 1),
                   Request("tree", B("b1"), 1), Request("tree", B("b1"), 2),
                   Request("tree.prepare", B("b1"), 1),
                   Request("bridge.create", B("b3"), 0), Request("bridge.delete", B("b2"), 0),
                   Request("bridge.delete-tree", B("b2"), 0), Request("port.delete", P("p1"), 0),
                   [Request("internal.create", B("b1"), 1) EXCEPT !.on = P("i1")],
                   [Request("internal.create", B("b1"), 2) EXCEPT !.on = P("i1")],
                   [Request("port.create", B("b1"), 0) EXCEPT !.on = P("n1"), !.set = {I("n1")}],
                   [Request("bond.create", B("b1"), 0) EXCEPT !.on = P("n1"), !.set = {I("n1"), I("n2")}],
                   [Request("port.move", P("p1"), 0) EXCEPT !.on = B("b2")]},
     edits |-> {Set(B("b1"), "mcast", 2), Set(B("b2"), "mcast", 2), Set(Root, "other", 1), Edit("unmark", Root),
                Edit("ctl", B("b1")), Edit("drop", P("p1")), Edit("again", P("p1")),
                [Edit("port", B("b1")) EXCEPT !.new = P("n1")], Mirroring(B("b2"), P("p1"))}]

InternalRows ==
    LET g == Network("b1" :> [p \in {"b1", "i1", "i2", "p1"} |-> {p}],
                     [i \in {"b1", "i1", "i2", "p1"} |-> IF i = "p1" THEN "system" ELSE "internal"])
    IN Own([g EXCEPT ![P("i1")].cfg.vlan = 1], {P("i1"), I("i1")})
InternalNetwork ==
    [rows |-> InternalRows,
     requests |-> {Request("mtu", I("i2"), 1), Request("mtu", I("i2"), 2),
                   Request("police", I("i2"), 1), Request("internal.delete", P("i1"), 0),
                   Request("ofport", I("p1"), 1),
                   [Request("patch.connect", I("i1"), 0) EXCEPT !.on = I("i2")]},
     edits |-> {Set(I("p1"), "mtu", 3), Set(I("i1"), "mtu", 3), Set(Root, "other", 1),
                Edit("ctl", I("p1")), Edit("drop", P("p1")), Edit("again", P("i1")),
                Mirroring(B("b1"), P("i1"))}]

\* With a mirror, and another tunnel, on the second bridge.
TunnelRows ==
    LET g == Network(("b1" :> [p \in {"b1", "t1"} |-> {p}]) @@ ("b2" :> [p \in {"b2", "t3", "x1", "x2"} |-> {p}]),
                     [i \in {"b1", "b2"} |-> "internal"] @@ [i \in {"x1", "x2"} |-> "patch"]
                     @@ [i \in {"t1", "t3"} |-> "vxlan"])
        m == [Row(Cardinality(DOMAIN g) + 1, {}, [out |-> {}]) EXCEPT !.refs = {P("b2")}]
    IN (M("m1") :> m)
       @@ [g EXCEPT ![I("t1")].cfg.opts = {"r1"}, ![I("t3")].cfg.opts = {"r3"},
                   ![I("x1")].cfg.opts = {"x2"}, ![I("x2")].cfg.opts = {"x1"},
                    ![B("b2")].links = @ \cup {M("m1")}]
TunnelNetwork ==
    [rows |-> TunnelRows,
     requests |-> {[Request("tunnel.create", B("b1"), 0) EXCEPT !.on = P("t2"), !.remote = "r2"],
                   [Request("tunnel.configure", P("t1"), 0) EXCEPT !.remote = "r2"],
                   Request("tunnel.delete", P("t1"), 0),
                   [Request("patch.disconnect", I("x1"), 0) EXCEPT !.on = I("x2")]},
     edits |-> {Set(B("b1"), "mcast", 2), Set(P("x1"), "prot", 2), Set(Root, "other", 1),
                Edit("drop", P("x1")), Edit("again", P("x2")), Mirroring(B("b2"), P("t1")),
                Set(M("m1"), "out", {P("b2")}), Set(I("t3"), "opts", {"r1"})}]

MirrorRows ==
    LET g == Network("b1" :> [p \in {"b1", "p1", "p2"} |-> {p}],
                     [i \in {"b1", "p1", "p2"} |-> IF i = "b1" THEN "internal" ELSE "system"])
        m == [Row(Cardinality(DOMAIN g) + 1, {}, [out |-> {P("p2")}]) EXCEPT !.refs = {P("p1"), P("p2")}]
    IN (M("m1") :> m) @@ [g EXCEPT ![B("b1")].links = @ \cup {M("m1")}]
MirrorNetwork ==
    [rows |-> MirrorRows,
     requests |-> {[Request("mirror.configure", M("m1"), 0) EXCEPT !.set = {P("p1")}],
                   Request("mirror.delete", M("m1"), 0),
                   [Request("mirror.create", B("b1"), 0)
                      EXCEPT !.on = M("m2"), !.set = {P("b1"), P("p2")}, !.out = {P("p2")}]},
     edits |-> {Set(B("b1"), "mcast", 2), Edit("ctl", M("m1")), Edit("drop", P("p1")),
                Edit("again", P("p2")), Mirroring(B("b1"), P("p2"))}]

MCNetworks == {ListNetwork, FlatNetwork, InternalNetwork, TunnelNetwork, MirrorNetwork}
=============================================================================
