---------------------------- MODULE ReviewProofs ----------------------------
(***************************************************************************)
(* Changes, for every network, every set of requests and of foreign edits: *)
(* what a transaction commits was reviewed on the rows that the server     *)
(* has. The draft captures cells of an early view, the transaction waits   *)
(* for cells of a later one, and both leave out what the schema and the    *)
(* captured cells determine; the proof shows that nothing else is left out.*)
(***************************************************************************)
EXTENDS ChangesProofs

-----------------------------------------------------------------------------
(* Cells and what they tell about a row.                                   *)

Agree(g, h, cells) == \A c \in cells : Col(g, c) = Col(h, c)

LEMMA ColPresent ==
    ASSUME NEW g, NEW h, NEW k \in DOMAIN g, NEW f, Col(g, <<k, f>>) = Col(h, <<k, f>>)
    PROVE  k \in DOMAIN h /\ Value(g, k, f) = Value(h, k, f)
BY DEF Col

LEMMA PairsSame ==
    ASSUME NEW g, NEW h, NEW a, NEW b, Pairs(g, a) = Pairs(h, b)
    PROVE  a = b /\ \A k \in a : g[k].id = h[k].id
<1>1. ASSUME NEW k \in a PROVE k \in b /\ g[k].id = h[k].id
    <2>1. <<k, g[k].id>> \in Pairs(h, b)
        BY DEF Pairs
    <2> QED
        BY <2>1 DEF Pairs
<1>2. ASSUME NEW k \in b PROVE k \in a
    <2>1. <<k, h[k].id>> \in Pairs(g, a)
        BY DEF Pairs
    <2> QED
        BY <2>1 DEF Pairs
<1> QED
    BY <1>1, <1>2

LEMMA LinksCell ==
    ASSUME NEW g, NEW h, NEW k \in DOMAIN g, Col(g, <<k, "links">>) = Col(h, <<k, "links">>)
    PROVE  /\ k \in DOMAIN h /\ g[k].links = h[k].links
           /\ \A j \in g[k].links : g[j].id = h[j].id
<1>1. k \in DOMAIN h /\ Value(g, k, "links") = Value(h, k, "links")
    BY ColPresent
<1>2. Pairs(g, g[k].links) = Pairs(h, h[k].links)
    BY <1>1 DEF Value
<1> QED
    BY <1>1, <1>2, PairsSame

LEMMA RefsCell ==
    ASSUME NEW g, NEW h, NEW k \in DOMAIN g, Col(g, <<k, "refs">>) = Col(h, <<k, "refs">>)
    PROVE  k \in DOMAIN h /\ g[k].refs = h[k].refs
<1>1. k \in DOMAIN h /\ Value(g, k, "refs") = Value(h, k, "refs")
    BY ColPresent
<1>2. Pairs(g, g[k].refs) = Pairs(h, h[k].refs)
    BY <1>1 DEF Value
<1> QED
    BY <1>1, <1>2, PairsSame

LEMMA PortsCell ==
    ASSUME NEW g, NEW h, NEW k \in DOMAIN g, Col(g, <<k, "ports">>) = Col(h, <<k, "ports">>)
    PROVE  k \in DOMAIN h /\ Ports(g, k) = Ports(h, k) /\ \A j \in Ports(g, k) : g[j].id = h[j].id
<1>1. k \in DOMAIN h /\ Value(g, k, "ports") = Value(h, k, "ports")
    BY ColPresent
<1>2. Pairs(g, Ports(g, k)) = Pairs(h, Ports(h, k))
    BY <1>1 DEF Value, Ports
<1> QED
    BY <1>1, <1>2, PairsSame

LEMMA HeldCell ==
    ASSUME NEW g, NEW h, NEW k \in DOMAIN g, Col(g, <<k, "held">>) = Col(h, <<k, "held">>)
    PROVE  /\ k \in DOMAIN h /\ Holders(g, k) = Holders(h, k)
           /\ \A j \in Holders(g, k) : g[j].id = h[j].id
<1>1. k \in DOMAIN h /\ Value(g, k, "held") = Value(h, k, "held")
    BY ColPresent
<1>2. Pairs(g, Holders(g, k)) = Pairs(h, Holders(h, k))
    BY <1>1 DEF Value
<1> QED
    BY <1>1, <1>2, PairsSame

LEMMA IdCell ==
    ASSUME NEW g, NEW h, NEW k \in DOMAIN g, Col(g, <<k, "id">>) = Col(h, <<k, "id">>)
    PROVE  k \in DOMAIN h /\ g[k].id = h[k].id
<1>1. k \in DOMAIN h /\ Value(g, k, "id") = Value(h, k, "id")
    BY ColPresent
<1> QED
    BY <1>1 DEF Value

LEMMA CtlCell ==
    ASSUME NEW g, NEW h, NEW k \in DOMAIN g, Col(g, <<k, "ctl">>) = Col(h, <<k, "ctl">>)
    PROVE  k \in DOMAIN h /\ g[k].ctl = h[k].ctl
<1>1. k \in DOMAIN h /\ Value(g, k, "ctl") = Value(h, k, "ctl")
    BY ColPresent
<1> QED
    BY <1>1 DEF Value

LEMMA MadeCell ==
    ASSUME NEW g, NEW h, NEW k \in DOMAIN g, Col(g, <<k, "made">>) = Col(h, <<k, "made">>)
    PROVE  k \in DOMAIN h /\ g[k].made = h[k].made
<1>1. k \in DOMAIN h /\ Value(g, k, "made") = Value(h, k, "made")
    BY ColPresent
<1> QED
    BY <1>1 DEF Value

LEMMA MarkCell ==
    ASSUME NEW g, NEW h, NEW k \in DOMAIN g, Col(g, <<k, "mark">>) = Col(h, <<k, "mark">>)
    PROVE  k \in DOMAIN h /\ g[k].mark = h[k].mark
<1>1. k \in DOMAIN h /\ Value(g, k, "mark") = Value(h, k, "mark")
    BY ColPresent
<1> QED
    BY <1>1 DEF Value

\* The columns of a row's configuration, of any table.
CfgColumns == {"other", "mcast", "tree", "vlan", "bond", "prot", "type", "opts", "mtu", "police",
               "ofport", "out"}

LEMMA OtherCell ==
    ASSUME NEW g, NEW h, NEW k \in DOMAIN g, Col(g, <<k, "other">>) = Col(h, <<k, "other">>)
    PROVE  k \in DOMAIN h /\ g[k].cfg.other = h[k].cfg.other
<1>1. k \in DOMAIN h /\ Value(g, k, "other") = Value(h, k, "other")
    BY ColPresent
<1> QED
    BY <1>1 DEF Value

LEMMA TreeCell ==
    ASSUME NEW g, NEW h, NEW k \in DOMAIN g, Col(g, <<k, "tree">>) = Col(h, <<k, "tree">>)
    PROVE  k \in DOMAIN h /\ g[k].cfg.tree = h[k].cfg.tree
<1>1. k \in DOMAIN h /\ Value(g, k, "tree") = Value(h, k, "tree")
    BY ColPresent
<1> QED
    BY <1>1 DEF Value

LEMMA McastCell ==
    ASSUME NEW g, NEW h, NEW k \in DOMAIN g, Col(g, <<k, "mcast">>) = Col(h, <<k, "mcast">>)
    PROVE  k \in DOMAIN h /\ g[k].cfg.mcast = h[k].cfg.mcast
<1>1. k \in DOMAIN h /\ Value(g, k, "mcast") = Value(h, k, "mcast")
    BY ColPresent
<1> QED
    BY <1>1 DEF Value

LEMMA VlanCell ==
    ASSUME NEW g, NEW h, NEW k \in DOMAIN g, Col(g, <<k, "vlan">>) = Col(h, <<k, "vlan">>)
    PROVE  k \in DOMAIN h /\ g[k].cfg.vlan = h[k].cfg.vlan
<1>1. k \in DOMAIN h /\ Value(g, k, "vlan") = Value(h, k, "vlan")
    BY ColPresent
<1> QED
    BY <1>1 DEF Value

LEMMA TypeCell ==
    ASSUME NEW g, NEW h, NEW k \in DOMAIN g, Col(g, <<k, "type">>) = Col(h, <<k, "type">>)
    PROVE  k \in DOMAIN h /\ g[k].cfg.type = h[k].cfg.type
<1>1. k \in DOMAIN h /\ Value(g, k, "type") = Value(h, k, "type")
    BY ColPresent
<1> QED
    BY <1>1 DEF Value

LEMMA OptsCell ==
    ASSUME NEW g, NEW h, NEW k \in DOMAIN g, Col(g, <<k, "opts">>) = Col(h, <<k, "opts">>)
    PROVE  k \in DOMAIN h /\ g[k].cfg.opts = h[k].cfg.opts
<1>1. k \in DOMAIN h /\ Value(g, k, "opts") = Value(h, k, "opts")
    BY ColPresent
<1> QED
    BY <1>1 DEF Value

LEMMA MtuCell ==
    ASSUME NEW g, NEW h, NEW k \in DOMAIN g, Col(g, <<k, "mtu">>) = Col(h, <<k, "mtu">>)
    PROVE  k \in DOMAIN h /\ g[k].cfg.mtu = h[k].cfg.mtu
<1>1. k \in DOMAIN h /\ Value(g, k, "mtu") = Value(h, k, "mtu")
    BY ColPresent
<1> QED
    BY <1>1 DEF Value

\* And back: rows that agree have the same cells.
LEMMA SameLabel ==
    ASSUME NEW g, NEW h, NEW k \in DOMAIN g, k \in DOMAIN h,
           NEW f \in {"id", "ctl", "made", "mark"}, g[k][f] = h[k][f]
    PROVE  Col(g, <<k, f>>) = Col(h, <<k, f>>)
BY DEF Col, Value

LEMMA SameCfg ==
    ASSUME NEW g, NEW h, NEW k \in DOMAIN g, k \in DOMAIN h,
           NEW f \in CfgColumns, g[k].cfg[f] = h[k].cfg[f]
    PROVE  Col(g, <<k, f>>) = Col(h, <<k, f>>)
BY DEF Col, Value, CfgColumns

LEMMA SamePairs ==
    ASSUME NEW g, NEW h, NEW a, \A k \in a : g[k].id = h[k].id
    PROVE  Pairs(g, a) = Pairs(h, a)
BY DEF Pairs

LEMMA SameHeld ==
    ASSUME NEW g, NEW h, NEW k \in DOMAIN g, k \in DOMAIN h, Holders(g, k) = Holders(h, k),
           \A j \in Holders(g, k) : g[j].id = h[j].id
    PROVE  Col(g, <<k, "held">>) = Col(h, <<k, "held">>)
<1>1. Pairs(g, Holders(g, k)) = Pairs(h, Holders(h, k))
    BY SamePairs
<1> QED
    BY <1>1 DEF Col, Value

\* A captured image is still true where the cells agree.
LEMMA AgreeImage ==
    ASSUME NEW g, NEW h, NEW cells, NEW x, Image(g, cells) = x, Agree(g, h, cells)
    PROVE  Image(h, cells) = x
BY DEF Image, Agree

LEMMA ImageAgrees ==
    ASSUME NEW g, NEW h, NEW cells, Image(h, cells) = Image(g, cells)
    PROVE  Agree(g, h, cells)
<1> SUFFICES ASSUME NEW c \in cells PROVE Col(g, c) = Col(h, c)
    BY DEF Agree
<1>1. Image(h, cells)[c] = Col(h, c) /\ Image(g, cells)[c] = Col(g, c)
    BY DEF Image
<1> QED
    BY <1>1

LEMMA AgreeBoth ==
    ASSUME NEW g, NEW h, NEW cells, NEW x, Image(g, cells) = x, Image(h, cells) = x
    PROVE  Agree(g, h, cells)
BY ImageAgrees

IsFunction(f) == f = [x \in DOMAIN f |-> f[x]]

-----------------------------------------------------------------------------
(* The schema: every write of a third party keeps to it.                   *)

LEMMA TypedRow ==
    ASSUME NEW g, Typed(g), NEW k \in DOMAIN g
    PROVE  /\ IsKey(k) /\ IsRow(k, g[k])
           /\ \A j \in g[k].links : j \in DOMAIN g /\ Table(j) \in Below(Table(k))
           /\ \A j \in g[k].refs : j \in DOMAIN g /\ Table(j) = "Port" /\ Table(k) = "Mirror"
BY DEF Typed

LEMMA BelowTables ==
    /\ Below("Root") = {"Bridge"} /\ Below("Bridge") = {"Port", "Mirror"}
    /\ Below("Port") = {"Interface"} /\ Below("Interface") = {} /\ Below("Mirror") = {}
BY DEF Below

\* Who can hold what.
LEMMA LinkTables ==
    ASSUME NEW g, Typed(g), NEW k \in DOMAIN g, NEW j \in g[k].links
    PROVE  /\ j \in DOMAIN g /\ IsKey(j)
           /\ Table(j) = "Bridge" => k = Root
           /\ Table(j) \in {"Port", "Mirror"} => Table(k) = "Bridge"
           /\ Table(j) = "Interface" => Table(k) = "Port"
           /\ Table(k) = "Root" => Table(j) = "Bridge"
           /\ Table(k) = "Bridge" => Table(j) \in {"Port", "Mirror"}
           /\ Table(k) = "Port" => Table(j) = "Interface"
           /\ Table(k) \notin {"Interface", "Mirror"} /\ Table(j) # "Root"
<1>1. j \in DOMAIN g /\ Table(j) \in Below(Table(k)) /\ IsKey(k)
    BY TypedRow
<1>2. IsKey(j)
    BY <1>1, TypedRow
<1> QED
    BY <1>1, <1>2, BelowTables DEF IsKey

LEMMA HolderTables ==
    ASSUME NEW g, Typed(g), NEW j, NEW k \in Holders(g, j)
    PROVE  /\ k \in DOMAIN g /\ j \in g[k].links /\ j \in DOMAIN g
           /\ Table(j) = "Bridge" => k = Root
           /\ Table(j) \in {"Port", "Mirror"} => Table(k) = "Bridge"
           /\ Table(j) = "Interface" => Table(k) = "Port"
           /\ Table(j) # "Root"
BY LinkTables DEF Holders

\* Rows and configurations with one column, or one row, replaced.
Linking(row, x) == [row EXCEPT !.links = x]
Referring(row, x) == [row EXCEPT !.refs = x]
Setting(row, f, v) == [row EXCEPT !.cfg[f] = v]
Put(g, k, row) == [g EXCEPT ![k] = row]

\* Rows that differ in links, references, labels or UUIDs only.
LEMMA RowLike ==
    ASSUME NEW k, NEW row, IsRow(k, row), NEW y, IsFunction(y), DOMAIN y = Columns,
           y.ctl \in BOOLEAN, y.cfg = row.cfg
    PROVE  IsRow(k, y)
BY DEF IsRow, IsFunction

LEMMA IsRowEdit ==
    ASSUME NEW k, NEW row, IsRow(k, row), NEW x
    PROVE  /\ IsRow(k, Linking(row, x)) /\ Linking(row, x).links = x
           /\ Linking(row, x).refs = row.refs
           /\ IsRow(k, Referring(row, x)) /\ Referring(row, x).links = row.links
           /\ Referring(row, x).refs = x
<1>1. DOMAIN row = Columns /\ row.ctl \in BOOLEAN
    BY DEF IsRow
<1>2. /\ IsFunction(Linking(row, x)) /\ DOMAIN Linking(row, x) = Columns
      /\ Linking(row, x).ctl = row.ctl /\ Linking(row, x).cfg = row.cfg
      /\ Linking(row, x).links = x /\ Linking(row, x).refs = row.refs
    BY <1>1 DEF Columns, Linking, IsFunction
<1>3. /\ IsFunction(Referring(row, x)) /\ DOMAIN Referring(row, x) = Columns
      /\ Referring(row, x).ctl = row.ctl /\ Referring(row, x).cfg = row.cfg
      /\ Referring(row, x).refs = x /\ Referring(row, x).links = row.links
    BY <1>1 DEF Columns, Referring, IsFunction
<1> QED
    BY <1>1, <1>2, <1>3, RowLike

\* Garbage collection leaves no row without a strong reference.
LEMMA SettleSchema ==
    ASSUME NEW g, Typed(g)
    PROVE  Schema(Settle(g))
<1> DEFINE bridges == g[Root].links
           ports == UNION {g[k].links : k \in bridges}
           members == UNION {g[k].links : k \in ports}
           kept == {Root} \cup bridges \cup ports \cup members
           s == [k \in DOMAIN g \cap kept |-> Referring(g[k], g[k].refs \cap kept)]
<1>1. Settle(g) = s
    BY DEF Settle, Referring
<1>2. Root \in DOMAIN g /\ Table(Root) = "Root"
    BY DEF Typed, Root, Table
<1>3. \A k \in bridges : k \in DOMAIN g /\ Table(k) = "Bridge"
    BY <1>2, LinkTables
<1>4. \A k \in ports : k \in DOMAIN g /\ Table(k) \in {"Port", "Mirror"}
    BY <1>3, LinkTables
<1>5. \A k \in members : k \in DOMAIN g /\ g[k].links = {}
    <2> SUFFICES ASSUME NEW p \in ports, NEW k \in g[p].links
                 PROVE  k \in DOMAIN g /\ g[k].links = {}
        OBVIOUS
    <2>1. k \in DOMAIN g /\ Table(p) = "Port"
        BY <1>4, LinkTables
    <2>2. Table(k) = "Interface"
        BY <1>4, <2>1, LinkTables
    <2> QED
        BY <2>1, <2>2, LinkTables
<1>6. kept \subseteq DOMAIN g
    BY <1>2, <1>3, <1>4, <1>5
<1>7. \A k \in kept : g[k].links \subseteq kept
    <2> SUFFICES ASSUME NEW k \in kept, NEW j \in g[k].links PROVE j \in kept
        OBVIOUS
    <2>1. CASE k = Root
        BY <2>1
    <2>2. CASE k \in bridges
        BY <2>2
    <2>3. CASE k \in ports
        BY <2>3
    <2>4. CASE k \in members
        BY <2>4, <1>5
    <2> QED
        BY <2>1, <2>2, <2>3, <2>4
<1>8. \A k \in kept \ {Root} : \E h \in kept : k \in g[h].links
    OBVIOUS
<1> HIDE DEF bridges, ports, members, kept
<1>9. /\ DOMAIN s = kept /\ Root \in kept
      /\ \A k \in kept : s[k] = Referring(g[k], g[k].refs \cap kept)
    BY <1>6 DEF kept
<1>10. IsFunction(s)
    BY <1>9 DEF IsFunction
<1> HIDE DEF s
<1>11. ASSUME NEW k \in kept
       PROVE  IsKey(k) /\ IsRow(k, s[k]) /\ s[k].links = g[k].links /\ s[k].refs = g[k].refs \cap kept
    <2>1. IsKey(k) /\ IsRow(k, g[k])
        BY <1>6, TypedRow
    <2> DEFINE x == g[k].refs \cap kept
    <2>2. s[k] = Referring(g[k], x)
        BY <1>9
    <2>3. /\ IsRow(k, Referring(g[k], x)) /\ Referring(g[k], x).links = g[k].links
          /\ Referring(g[k], x).refs = x
        BY <2>1, IsRowEdit
    <2> QED
        BY <2>1, <2>2, <2>3
<1>12. Typed(s)
    <2> SUFFICES ASSUME NEW k \in kept
                 PROVE  /\ IsKey(k) /\ IsRow(k, s[k])
                        /\ \A j \in s[k].links : j \in DOMAIN s /\ Table(j) \in Below(Table(k))
                        /\ \A j \in s[k].refs :
                              j \in DOMAIN s /\ Table(j) = "Port" /\ Table(k) = "Mirror"
        BY <1>9, <1>10 DEF Typed, IsFunction
    <2>1. \A j \in g[k].links : Table(j) \in Below(Table(k))
        BY <1>6, TypedRow
    <2>2. \A j \in g[k].refs : Table(j) = "Port" /\ Table(k) = "Mirror"
        BY <1>6, TypedRow
    <2> QED
        BY <1>7, <1>9, <1>11, <2>1, <2>2
<1>13. \A k \in DOMAIN s \ {Root} : Holders(s, k) # {}
    BY <1>8, <1>9, <1>11 DEF Holders
<1> QED
    BY <1>1, <1>12, <1>13 DEF Schema

\* Rows may be added and changed as long as they hold what they held.
LEMMA GrownSchema ==
    ASSUME NEW g, NEW h, Schema(g), IsFunction(h), DOMAIN g \subseteq DOMAIN h,
           \A k \in DOMAIN h :
              /\ IsKey(k) /\ IsRow(k, h[k])
              /\ \A j \in h[k].links : j \in DOMAIN h /\ Table(j) \in Below(Table(k))
              /\ \A j \in h[k].refs : j \in DOMAIN h /\ Table(j) = "Port" /\ Table(k) = "Mirror",
           \A k \in DOMAIN g : g[k].links \subseteq h[k].links,
           \A k \in DOMAIN h \ DOMAIN g : \E j \in DOMAIN h : k \in h[j].links
    PROVE  Schema(h)
<1>1. Root \in DOMAIN h
    BY DEF Schema, Typed
<1>2. Typed(h)
    BY <1>1 DEF Typed, IsFunction
<1>3. ASSUME NEW k \in DOMAIN h \ {Root} PROVE Holders(h, k) # {}
    <2>1. CASE k \in DOMAIN g
        <3>1. PICK j \in DOMAIN g : k \in g[j].links
            BY <2>1, <1>3 DEF Schema, Holders
        <3> QED
            BY <3>1 DEF Holders
    <2>2. CASE k \notin DOMAIN g
        BY <2>2, <1>3 DEF Holders
    <2> QED
        BY <2>1, <2>2
<1> QED
    BY <1>2, <1>3 DEF Schema

\* One row changes, and holds at least what it held.
LEMMA ChangedSchema ==
    ASSUME NEW g, Schema(g), NEW k \in DOMAIN g, NEW row, IsRow(k, row), row.refs = g[k].refs,
           g[k].links \subseteq row.links,
           \A j \in row.links : j \in DOMAIN g /\ Table(j) \in Below(Table(k))
    PROVE  Schema(Put(g, k, row))
<1> DEFINE h == Put(g, k, row)
<1>1. Typed(g)
    BY DEF Schema
<1>2. /\ IsFunction(h) /\ DOMAIN h = DOMAIN g
      /\ h[k] = row /\ \A j \in DOMAIN g : j # k => h[j] = g[j]
    BY <1>1 DEF Typed, IsFunction, Put
<1> HIDE DEF h
<1>3. ASSUME NEW j \in DOMAIN g
      PROVE  /\ IsKey(j) /\ IsRow(j, h[j]) /\ g[j].links \subseteq h[j].links
             /\ \A x \in h[j].links : x \in DOMAIN h /\ Table(x) \in Below(Table(j))
             /\ \A x \in h[j].refs : x \in DOMAIN h /\ Table(x) = "Port" /\ Table(j) = "Mirror"
    <2>1. CASE j = k
        BY <1>1, <1>2, <2>1, TypedRow
    <2>2. CASE j # k
        BY <1>1, <1>2, <2>2, TypedRow
    <2> QED
        BY <2>1, <2>2
<1>4. Schema(h)
    BY <1>2, <1>3, GrownSchema
<1> QED
    BY <1>4 DEF h

LEMMA NewRow ==
    ASSUME NEW k, NEW n, NEW links, NEW cfg, cfg = [f \in Fields(Table(k)) |-> cfg[f]]
    PROVE  /\ IsRow(k, Row(n, links, cfg)) /\ Row(n, links, cfg).links = links
           /\ Row(n, links, cfg).refs = {}
BY DEF IsRow, Row, Columns

LEMMA FieldsOfTables ==
    /\ Fields("Root") = {"other"} /\ Fields("Bridge") = {"mcast", "tree"}
    /\ Fields("Port") = {"vlan", "bond", "prot"} /\ Fields("Mirror") = {"out"}
    /\ Fields("Interface") = {"type", "opts", "mtu", "police", "ofport"}
BY DEF Fields, BridgeCfg, PortCfg, InterfaceCfg

LEMMA NewPortSchema ==
    ASSUME NEW k, NEW n, NEW type, NEW h, h = NewPort(k, n, type)
    PROVE  /\ IsFunction(h)
           /\ DOMAIN h = {PortOf(k), InterfaceOf(k)}
           /\ \A j \in DOMAIN h : IsKey(j) /\ IsRow(j, h[j]) /\ h[j].refs = {}
           /\ h[PortOf(k)].links = {InterfaceOf(k)} /\ h[InterfaceOf(k)].links = {}
           /\ Table(PortOf(k)) = "Port" /\ Table(InterfaceOf(k)) = "Interface"
<1>1. /\ Table(PortOf(k)) = "Port" /\ Table(InterfaceOf(k)) = "Interface"
      /\ IsKey(PortOf(k)) /\ IsKey(InterfaceOf(k))
    BY DEF PortOf, InterfaceOf, Table, Name, IsKey, Root
<1>2. /\ IsFunction(h) /\ DOMAIN h = {PortOf(k), InterfaceOf(k)}
      /\ h[PortOf(k)] = Row(n, {InterfaceOf(k)}, PortCfg)
      /\ h[InterfaceOf(k)] = Row(n + 1, {}, InterfaceCfg(type))
    BY <1>1 DEF NewPort, IsFunction
<1>3. PortCfg = [f \in Fields("Port") |-> PortCfg[f]]
    BY FieldsOfTables DEF PortCfg
<1>4. InterfaceCfg(type) = [f \in Fields("Interface") |-> InterfaceCfg(type)[f]]
    BY FieldsOfTables DEF InterfaceCfg
<1>5. /\ IsRow(PortOf(k), Row(n, {InterfaceOf(k)}, PortCfg))
      /\ Row(n, {InterfaceOf(k)}, PortCfg).links = {InterfaceOf(k)}
      /\ Row(n, {InterfaceOf(k)}, PortCfg).refs = {}
    BY <1>1, <1>3, NewRow
<1>6. /\ IsRow(InterfaceOf(k), Row(n + 1, {}, InterfaceCfg(type)))
      /\ Row(n + 1, {}, InterfaceCfg(type)).links = {} /\ Row(n + 1, {}, InterfaceCfg(type)).refs = {}
    BY <1>1, <1>4, NewRow
<1>7. \A j \in DOMAIN h : IsKey(j) /\ IsRow(j, h[j]) /\ h[j].refs = {}
    BY <1>1, <1>2, <1>5, <1>6
<1>8. h[PortOf(k)].links = {InterfaceOf(k)} /\ h[InterfaceOf(k)].links = {}
    BY <1>2, <1>5, <1>6
<1> QED
    BY <1>1, <1>2, <1>7, <1>8

\* A port that is deleted and made again leaves a configuration to collect.
LEMMA AgainTyped ==
    ASSUME NEW g, Typed(g), NEW k, NEW n, NEW type
    PROVE  Typed(With(g, NewPort(k, n, type)))
<1> SUFFICES ASSUME NEW h, h = NewPort(k, n, type), NEW w, w = With(g, h) PROVE Typed(w)
    OBVIOUS
<1>1. /\ IsFunction(h) /\ DOMAIN h = {PortOf(k), InterfaceOf(k)}
      /\ \A j \in DOMAIN h : IsKey(j) /\ IsRow(j, h[j]) /\ h[j].refs = {}
      /\ h[PortOf(k)].links = {InterfaceOf(k)} /\ h[InterfaceOf(k)].links = {}
      /\ Table(PortOf(k)) = "Port" /\ Table(InterfaceOf(k)) = "Interface"
    BY NewPortSchema
<1>2. /\ IsFunction(w) /\ DOMAIN w = DOMAIN g \cup DOMAIN h
      /\ \A j \in DOMAIN h : w[j] = h[j]
      /\ \A j \in DOMAIN g : j \notin DOMAIN h => w[j] = g[j]
    BY DEF With, IsFunction
<1>3. ASSUME NEW j \in DOMAIN w
      PROVE  /\ IsKey(j) /\ IsRow(j, w[j])
             /\ \A x \in w[j].links : x \in DOMAIN w /\ Table(x) \in Below(Table(j))
             /\ \A x \in w[j].refs : x \in DOMAIN w /\ Table(x) = "Port" /\ Table(j) = "Mirror"
    <2>1. CASE j \in DOMAIN h
        BY <1>1, <1>2, <2>1, BelowTables
    <2>2. CASE j \notin DOMAIN h
        BY <1>2, <2>2, TypedRow
    <2> QED
        BY <2>1, <2>2
<1>4. Root \in DOMAIN w
    BY <1>2 DEF Typed
<1> QED
    BY <1>2, <1>3, <1>4 DEF Typed, IsFunction

LEMMA UnlinkedTyped ==
    ASSUME NEW g, Typed(g), NEW k
    PROVE  Typed(Unlinked(g, k))
<1> DEFINE w == Unlinked(g, k)
<1>1. /\ IsFunction(w) /\ DOMAIN w = DOMAIN g
      /\ \A j \in DOMAIN g : w[j] = Linking(g[j], g[j].links \ {k})
    BY DEF Unlinked, IsFunction, Linking
<1> HIDE DEF w
<1>2. ASSUME NEW j \in DOMAIN g
      PROVE  /\ IsKey(j) /\ IsRow(j, w[j])
             /\ \A x \in w[j].links : x \in DOMAIN w /\ Table(x) \in Below(Table(j))
             /\ \A x \in w[j].refs : x \in DOMAIN w /\ Table(x) = "Port" /\ Table(j) = "Mirror"
    <2> DEFINE y == g[j].links \ {k}
    <2>1. /\ IsKey(j) /\ IsRow(j, g[j])
          /\ \A x \in g[j].links : x \in DOMAIN g /\ Table(x) \in Below(Table(j))
          /\ \A x \in g[j].refs : x \in DOMAIN g /\ Table(x) = "Port" /\ Table(j) = "Mirror"
        BY TypedRow
    <2>2. w[j] = Linking(g[j], y)
        BY <1>1
    <2>3. /\ IsRow(j, Linking(g[j], y)) /\ Linking(g[j], y).links = y
          /\ Linking(g[j], y).refs = g[j].refs
        BY <2>1, IsRowEdit
    <2>4. IsRow(j, w[j]) /\ w[j].links \subseteq g[j].links /\ w[j].refs = g[j].refs
        BY <2>2, <2>3
    <2> QED
        BY <1>1, <2>1, <2>4
<1>3. Typed(w)
    BY <1>1, <1>2 DEF Typed, IsFunction
<1> QED
    BY <1>3 DEF w

LEMMA SettingRow ==
    ASSUME NEW k, NEW row, IsRow(k, row), NEW f, NEW v
    PROVE  /\ IsRow(k, Setting(row, f, v)) /\ Setting(row, f, v).links = row.links
           /\ Setting(row, f, v).refs = row.refs
<1>0. SUFFICES ASSUME NEW y, y = Setting(row, f, v)
               PROVE  IsRow(k, y) /\ y.links = row.links /\ y.refs = row.refs
    OBVIOUS
<1>1. DOMAIN row = Columns /\ row.ctl \in BOOLEAN /\ row.cfg = [x \in Fields(Table(k)) |-> row.cfg[x]]
    BY DEF IsRow
<1>2. /\ y = [c \in Columns |-> y[c]] /\ y.ctl = row.ctl /\ y.links = row.links /\ y.refs = row.refs
      /\ y.cfg = [row.cfg EXCEPT ![f] = v]
    BY <1>0, <1>1 DEF Columns, Setting
<1>3. y.cfg = [x \in Fields(Table(k)) |-> y.cfg[x]]
    BY <1>1, <1>2
<1>4. IsRow(k, y)
    BY <1>1, <1>2, <1>3 DEF IsRow
<1> QED
    BY <1>2, <1>4

\* What is asked of an edit.
Obedient(e) ==
    /\ e.op \in EditOps
    /\ e.op \in {"port", "mirror"} => Table(e.key) = "Bridge"
    /\ e.op = "share" => Table(e.key) \in Below(Table(e.to))
    /\ e.op = "mirror" => IsKey(e.new) /\ Table(e.new) = "Mirror" /\ Table(e.port) = "Port"

LEMMA PortAddedSchema ==
    ASSUME NEW g, Schema(g), NEW b \in DOMAIN g, Table(b) = "Bridge", NEW k, NEW n,
           PortOf(k) \notin DOMAIN g
    PROVE  Schema(With([g EXCEPT ![b].links = @ \cup {PortOf(k)}], NewPort(k, n, "system")))
<1>0. SUFFICES ASSUME NEW h, h = NewPort(k, n, "system"),
                    NEW x, x = [g EXCEPT ![b].links = @ \cup {PortOf(k)}],
                    NEW w, w = With(x, h)
             PROVE  Schema(w)
    OBVIOUS
<1>1. /\ IsFunction(h) /\ DOMAIN h = {PortOf(k), InterfaceOf(k)}
      /\ \A j \in DOMAIN h : IsKey(j) /\ IsRow(j, h[j]) /\ h[j].refs = {}
      /\ h[PortOf(k)].links = {InterfaceOf(k)} /\ h[InterfaceOf(k)].links = {}
      /\ Table(PortOf(k)) = "Port" /\ Table(InterfaceOf(k)) = "Interface"
    BY <1>0, NewPortSchema
<1>2. Typed(g)
    BY DEF Schema
<1>3. /\ DOMAIN x = DOMAIN g /\ \A j \in DOMAIN g : j # b => x[j] = g[j]
      /\ x[b] = Linking(g[b], g[b].links \cup {PortOf(k)})
    BY <1>0, <1>2 DEF Typed, Linking
<1>4. /\ IsFunction(w) /\ DOMAIN w = DOMAIN g \cup DOMAIN h
      /\ \A j \in DOMAIN h : w[j] = h[j]
      /\ \A j \in DOMAIN g : j \notin DOMAIN h => w[j] = x[j]
    BY <1>0, <1>3 DEF With, IsFunction
<1>5. b \notin DOMAIN h
    BY <1>1
<1>6. IsRow(b, w[b]) /\ w[b].links = g[b].links \cup {PortOf(k)} /\ w[b].refs = g[b].refs
    <2> DEFINE y == g[b].links \cup {PortOf(k)}
    <2>1. IsRow(b, g[b])
        BY <1>2, TypedRow
    <2>2. /\ IsRow(b, Linking(g[b], y)) /\ Linking(g[b], y).links = y
          /\ Linking(g[b], y).refs = g[b].refs
        BY <2>1, IsRowEdit
    <2>3. w[b] = Linking(g[b], y)
        <3>1. w[b] = x[b]
            BY <1>4, <1>5
        <3> QED
            BY <1>3, <3>1
    <2> QED
        BY <2>2, <2>3
<1>7. ASSUME NEW j \in DOMAIN w
      PROVE  /\ IsKey(j) /\ IsRow(j, w[j])
             /\ \A y \in w[j].links : y \in DOMAIN w /\ Table(y) \in Below(Table(j))
             /\ \A y \in w[j].refs : y \in DOMAIN w /\ Table(y) = "Port" /\ Table(j) = "Mirror"
    <2>1. CASE j \in DOMAIN h
        BY <1>1, <1>4, <2>1, BelowTables
    <2>2. CASE j = b
        BY <1>1, <1>2, <1>4, <1>6, <2>2, TypedRow, BelowTables
    <2>3. CASE j \notin DOMAIN h /\ j # b
        <3>1. w[j] = g[j] /\ j \in DOMAIN g
            BY <1>3, <1>4, <2>3
        <3> QED
            BY <1>2, <1>4, <3>1, TypedRow
    <2> QED
        BY <2>1, <2>2, <2>3
<1>8. ASSUME NEW j \in DOMAIN g PROVE g[j].links \subseteq w[j].links
    <2>1. CASE j = InterfaceOf(k)
        <3>1. g[j].links = {}
            BY <1>1, <1>2, <2>1, LinkTables
        <3> QED
            BY <3>1
    <2>2. CASE j # InterfaceOf(k)
        <3>1. j \notin DOMAIN h
            BY <1>1, <2>2
        <3> QED
            BY <1>3, <1>4, <1>6, <3>1
    <2> QED
        BY <2>1, <2>2
<1>9. ASSUME NEW j \in DOMAIN w \ DOMAIN g PROVE \E y \in DOMAIN w : j \in w[y].links
    <2>1. j \in {PortOf(k), InterfaceOf(k)}
        BY <1>1, <1>4
    <2> QED
        BY <1>1, <1>4, <1>6, <2>1
<1> QED
    BY <1>4, <1>7, <1>8, <1>9, GrownSchema

MirrorRow(m, n, p) == Just(m, [Row(n, {}, [out |-> {}]) EXCEPT !.refs = {p}])
Joined(g, b, k) == [g EXCEPT ![b].links = @ \cup {k}]

LEMMA MirrorAddedSchema ==
    ASSUME NEW g, Schema(g), NEW b \in DOMAIN g, Table(b) = "Bridge", NEW m, NEW n, NEW p \in DOMAIN g,
           IsKey(m), Table(m) = "Mirror", Table(p) = "Port", m \notin DOMAIN g
    PROVE  Schema(With(Joined(g, b, m), MirrorRow(m, n, p)))
<1>0. SUFFICES ASSUME NEW h, h = MirrorRow(m, n, p), NEW x, x = Joined(g, b, m),
                    NEW w, w = With(x, h)
             PROVE  Schema(w)
    OBVIOUS
<1>1. DOMAIN h = {m} /\ IsRow(m, h[m]) /\ h[m].links = {} /\ h[m].refs = {p}
    <2> DEFINE cfg == [out |-> {}]
               row == Row(n, {}, cfg)
    <2>1. cfg = [f \in Fields(Table(m)) |-> cfg[f]]
        BY FieldsOfTables
    <2> HIDE DEF cfg
    <2>2. IsRow(m, row) /\ row.links = {}
        BY <2>1, NewRow
    <2> HIDE DEF row
    <2>3. /\ IsRow(m, Referring(row, {p})) /\ Referring(row, {p}).links = {}
          /\ Referring(row, {p}).refs = {p}
        BY <2>2, IsRowEdit
    <2>4. h = [j \in {m} |-> Referring(row, {p})]
        BY <1>0 DEF row, cfg, Referring, MirrorRow, Just
    <2> QED
        BY <2>3, <2>4
<1>2. Typed(g)
    BY DEF Schema
<1>3. /\ DOMAIN x = DOMAIN g /\ \A j \in DOMAIN g : j # b => x[j] = g[j]
      /\ x[b] = Linking(g[b], g[b].links \cup {m})
    BY <1>0, <1>2 DEF Typed, Linking, Joined
<1>4. /\ IsFunction(w) /\ DOMAIN w = DOMAIN g \cup DOMAIN h
      /\ \A j \in DOMAIN h : w[j] = h[j]
      /\ \A j \in DOMAIN g : j \notin DOMAIN h => w[j] = x[j]
    BY <1>0, <1>3 DEF With, IsFunction
<1>6. IsRow(b, w[b]) /\ w[b].links = g[b].links \cup {m} /\ w[b].refs = g[b].refs
    <2> DEFINE y == g[b].links \cup {m}
    <2>1. IsRow(b, g[b])
        BY <1>2, TypedRow
    <2>2. /\ IsRow(b, Linking(g[b], y)) /\ Linking(g[b], y).links = y
          /\ Linking(g[b], y).refs = g[b].refs
        BY <2>1, IsRowEdit
    <2>3. w[b] = Linking(g[b], y)
        BY <1>1, <1>3, <1>4
    <2> QED
        BY <2>2, <2>3
<1>7. ASSUME NEW j \in DOMAIN w
      PROVE  /\ IsKey(j) /\ IsRow(j, w[j])
             /\ \A y \in w[j].links : y \in DOMAIN w /\ Table(y) \in Below(Table(j))
             /\ \A y \in w[j].refs : y \in DOMAIN w /\ Table(y) = "Port" /\ Table(j) = "Mirror"
    <2>1. CASE j = m
        BY <1>1, <1>4, <2>1
    <2>2. CASE j = b
        BY <1>1, <1>2, <1>4, <1>6, <2>2, TypedRow, BelowTables
    <2>3. CASE j # m /\ j # b
        <3>1. w[j] = g[j] /\ j \in DOMAIN g
            BY <1>1, <1>3, <1>4, <2>3
        <3> QED
            BY <1>2, <1>4, <3>1, TypedRow
    <2> QED
        BY <2>1, <2>2, <2>3
<1>8. ASSUME NEW j \in DOMAIN g PROVE g[j].links \subseteq w[j].links
    <2>1. j \notin DOMAIN h
        BY <1>1
    <2> QED
        BY <1>3, <1>4, <1>6, <2>1
<1>9. ASSUME NEW j \in DOMAIN w \ DOMAIN g PROVE \E y \in DOMAIN w : j \in w[y].links
    <2>1. j = m
        BY <1>1, <1>4
    <2> QED
        BY <1>1, <1>4, <1>6, <2>1
<1> QED
    BY <1>4, <1>7, <1>8, <1>9, GrownSchema

LEMMA EditedSchema ==
    ASSUME NEW g, Schema(g), NEW e, Obedient(e), NEW n
    PROVE  Schema(Edited(g, e, n))
<1> DEFINE k == e.key
<1>1. CASE k \notin DOMAIN g
    BY <1>1 DEF Edited
<1> SUFFICES ASSUME k \in DOMAIN g PROVE Schema(Edited(g, e, n))
    BY <1>1
<1>2. Typed(g)
    BY DEF Schema
<1>3. /\ IsRow(k, g[k])
      /\ \A j \in g[k].links : j \in DOMAIN g /\ Table(j) \in Below(Table(k))
    BY <1>2, TypedRow
<1>4. CASE e.op = "set"
    <2> DEFINE y == Setting(g[k], e.f, e.v)
    <2>1. Edited(g, e, n) = Put(g, k, y)
        BY <1>4 DEF Edited, Put, Setting
    <2>2. IsRow(k, y) /\ y.links = g[k].links /\ y.refs = g[k].refs
        BY <1>3, SettingRow
    <2> HIDE DEF y
    <2> QED
        BY <1>3, <2>1, <2>2, ChangedSchema
<1>5. CASE e.op = "ctl"
    <2> DEFINE y == [g[k] EXCEPT !.ctl = TRUE]
    <2>1. Edited(g, e, n) = Put(g, k, y)
        BY <1>5 DEF Edited, Put
    <2>2. IsRow(k, y) /\ y.links = g[k].links /\ y.refs = g[k].refs
        <3>1. DOMAIN g[k] = Columns /\ g[k].ctl \in BOOLEAN
            BY <1>3 DEF IsRow
        <3>2. /\ IsFunction(y) /\ DOMAIN y = Columns /\ y.ctl \in BOOLEAN /\ y.cfg = g[k].cfg
              /\ y.links = g[k].links /\ y.refs = g[k].refs
            BY <3>1 DEF IsFunction, Columns
        <3> HIDE DEF y
        <3> QED
            BY <1>3, <3>2, RowLike
    <2> HIDE DEF y
    <2> QED
        BY <1>3, <2>1, <2>2, ChangedSchema
<1>6. CASE e.op = "unmark"
    <2> DEFINE y == [g[k] EXCEPT !.mark = None]
    <2>1. Edited(g, e, n) = Put(g, k, y)
        BY <1>6 DEF Edited, Put
    <2>2. IsRow(k, y) /\ y.links = g[k].links /\ y.refs = g[k].refs
        <3>1. DOMAIN g[k] = Columns /\ g[k].ctl \in BOOLEAN
            BY <1>3 DEF IsRow
        <3>2. /\ IsFunction(y) /\ DOMAIN y = Columns /\ y.ctl \in BOOLEAN /\ y.cfg = g[k].cfg
              /\ y.links = g[k].links /\ y.refs = g[k].refs
            BY <3>1 DEF IsFunction, Columns
        <3> HIDE DEF y
        <3> QED
            BY <1>3, <3>2, RowLike
    <2> HIDE DEF y
    <2> QED
        BY <1>3, <2>1, <2>2, ChangedSchema
<1>7. CASE e.op = "drop"
    <2>1. Edited(g, e, n) = Settle(Unlinked(g, k))
        BY <1>7 DEF Edited
    <2> QED
        BY <1>2, <2>1, UnlinkedTyped, SettleSchema
<1>8. CASE e.op = "again"
    <2> DEFINE type == g[InterfaceOf(k)].cfg.type
    <2>1. Edited(g, e, n) = Settle(With(g, NewPort(k, n, type)))
        BY <1>8 DEF Edited
    <2>2. Typed(With(g, NewPort(k, n, type)))
        BY <1>2, AgainTyped
    <2> QED
        BY <2>1, <2>2, SettleSchema
<1>9. CASE e.op = "port"
    <2>1. CASE PortOf(e.new) \in DOMAIN g
        BY <1>9, <2>1 DEF Edited
    <2>2. CASE PortOf(e.new) \notin DOMAIN g
        <3>1. Edited(g, e, n) =
                With([g EXCEPT ![k].links = @ \cup {PortOf(e.new)}], NewPort(e.new, n, "system"))
            BY <1>9, <2>2 DEF Edited
        <3>2. Table(k) = "Bridge"
            BY <1>9 DEF Obedient
        <3> QED
            BY <2>2, <3>1, <3>2, PortAddedSchema
    <2> QED
        BY <2>1, <2>2
<1>10. CASE e.op = "share"
    <2>1. CASE e.to \notin DOMAIN g
        BY <1>10, <2>1 DEF Edited
    <2>2. CASE e.to \in DOMAIN g
        <3> DEFINE t == e.to
                   x == g[t].links \cup {k}
                   y == Linking(g[t], x)
        <3>1. Edited(g, e, n) = Put(g, t, y)
            BY <1>10, <2>2 DEF Edited, Put, Linking
        <3>2. IsRow(t, g[t]) /\ \A j \in g[t].links : j \in DOMAIN g /\ Table(j) \in Below(Table(t))
            BY <1>2, <2>2, TypedRow
        <3>3. IsRow(t, y) /\ y.links = x /\ y.refs = g[t].refs
            BY <3>2, IsRowEdit
        <3>4. Table(k) \in Below(Table(t))
            BY <1>10 DEF Obedient
        <3>5. \A j \in x : j \in DOMAIN g /\ Table(j) \in Below(Table(t))
            BY <3>2, <3>4
        <3>6. g[t].links \subseteq x
            OBVIOUS
        <3> HIDE DEF y, x
        <3> QED
            BY <2>2, <3>1, <3>3, <3>5, <3>6, ChangedSchema
    <2> QED
        BY <2>1, <2>2
<1>11. CASE e.op = "mirror"
    <2>1. CASE e.new \in DOMAIN g \/ e.port \notin DOMAIN g
        BY <1>11, <2>1 DEF Edited
    <2>2. CASE ~(e.new \in DOMAIN g \/ e.port \notin DOMAIN g)
        <3>1. Edited(g, e, n) = With(Joined(g, k, e.new), MirrorRow(e.new, n, e.port))
            BY <1>11, <2>2 DEF Edited, Joined, MirrorRow
        <3>2. Table(k) = "Bridge" /\ IsKey(e.new) /\ Table(e.new) = "Mirror" /\ Table(e.port) = "Port"
            BY <1>11 DEF Obedient
        <3> QED
            BY <2>2, <3>1, <3>2, MirrorAddedSchema
    <2> QED
        BY <2>1, <2>2
<1> QED
    BY <1>4, <1>5, <1>6, <1>7, <1>8, <1>9, <1>10, <1>11 DEF Obedient, EditOps

LEMMA RenewedSchema ==
    ASSUME NEW g, Schema(g), NEW ids
    PROVE  Schema(Renewed(g, ids))
<1>0. SUFFICES ASSUME NEW h, h = Renewed(g, ids) PROVE Schema(h)
    OBVIOUS
<1>1. Typed(g)
    BY DEF Schema
<1>2. IsFunction(h) /\ DOMAIN h = DOMAIN g
    BY <1>0 DEF Renewed, IsFunction
<1>3. ASSUME NEW k \in DOMAIN g
      PROVE  IsRow(k, h[k]) /\ h[k].links = g[k].links /\ h[k].refs = g[k].refs
    <2>1. IsRow(k, g[k])
        BY <1>1, TypedRow
    <2>2. \A n : LET y == Under(g[k], n) IN
            IsRow(k, y) /\ y.links = g[k].links /\ y.refs = g[k].refs
        BY <2>1 DEF Under, IsRow, Columns
    <2>3. h[k] = g[k] \/ h[k] = Under(g[k], ids[k])
        BY <1>0 DEF Renewed
    <2> QED
        BY <2>1, <2>2, <2>3
<1>4. ASSUME NEW k \in DOMAIN h
      PROVE  /\ IsKey(k) /\ IsRow(k, h[k])
             /\ \A j \in h[k].links : j \in DOMAIN h /\ Table(j) \in Below(Table(k))
             /\ \A j \in h[k].refs : j \in DOMAIN h /\ Table(j) = "Port" /\ Table(k) = "Mirror"
    BY <1>1, <1>2, <1>3, TypedRow
<1> QED
    BY <1>2, <1>3, <1>4, GrownSchema

\* A bridge hangs from the root, and from nothing else.
LEMMA BridgeHeld ==
    ASSUME NEW g, Schema(g), NEW b \in DOMAIN g, Table(b) = "Bridge"
    PROVE  Holders(g, b) = {Root} /\ b \in g[Root].links
<1>1. Typed(g) /\ b # Root
    BY DEF Schema, Table, Root
<1>2. Holders(g, b) # {}
    BY <1>1 DEF Schema
<1>3. \A k \in Holders(g, b) : k = Root /\ b \in g[k].links
    BY <1>1, HolderTables
<1> QED
    BY <1>2, <1>3

LEMMA PortHeld ==
    ASSUME NEW g, Schema(g), NEW p, Table(p) = "Port", NEW b \in Holders(g, p)
    PROVE  /\ b \in DOMAIN g /\ Table(b) = "Bridge" /\ IsKey(b) /\ p \in Ports(g, b)
           /\ b \in g[Root].links /\ Holders(g, b) = {Root}
<1>1. Typed(g)
    BY DEF Schema
<1>2. b \in DOMAIN g /\ Table(b) = "Bridge" /\ p \in g[b].links
    BY <1>1, HolderTables
<1>3. IsKey(b)
    BY <1>1, <1>2, TypedRow
<1> QED
    BY <1>2, <1>3, BridgeHeld DEF Ports

LEMMA CellsOf ==
    ASSUME NEW ks, NEW fs
    PROVE  /\ \A k \in ks, f \in fs : <<k, f>> \in Cells(ks, fs)
           /\ \A c \in Cells(ks, fs) : c = <<c[1], c[2]>> /\ c[1] \in ks /\ c[2] \in fs
BY DEF Cells

LEMMA AgreeCells ==
    ASSUME NEW g, NEW h, NEW cells, Agree(g, h, cells), NEW ks, NEW fs, Cells(ks, fs) \subseteq cells
    PROVE  \A k \in ks, f \in fs : Col(g, <<k, f>>) = Col(h, <<k, f>>)
BY CellsOf DEF Agree

LEMMA CellsAgree ==
    ASSUME NEW g, NEW h, NEW ks, NEW fs, \A k \in ks, f \in fs : Col(g, <<k, f>>) = Col(h, <<k, f>>)
    PROVE  Agree(g, h, Cells(ks, fs))
<1> SUFFICES ASSUME NEW c \in Cells(ks, fs) PROVE Col(g, c) = Col(h, c)
    BY DEF Agree
<1>1. c = <<c[1], c[2]>> /\ c[1] \in ks /\ c[2] \in fs
    BY CellsOf
<1>2. Col(g, <<c[1], c[2]>>) = Col(h, <<c[1], c[2]>>)
    BY <1>1
<1> QED
    BY <1>1, <1>2

LEMMA AgreeSubset ==
    ASSUME NEW g, NEW h, NEW a, NEW b, Agree(g, h, a), b \subseteq a
    PROVE  Agree(g, h, b)
BY DEF Agree

LEMMA AgreeUnion ==
    ASSUME NEW g, NEW h, NEW a, NEW b, Agree(g, h, a), Agree(g, h, b)
    PROVE  Agree(g, h, a \cup b)
BY DEF Agree

-----------------------------------------------------------------------------
(* What is asked of a configuration by the checks of an intent, without    *)
(* the parts that are about identities and generations.                    *)

VlanFree(g, p) == Free(g, {p, Root} \cup Holders(g, p) \cup g[p].links)
VlanGate(i, g) ==
    /\ VlanKnown(g, i.key) /\ VlanFree(g, i.key)
    /\ IF UsesQinQ(i) THEN QinQSupported(g, i.key) ELSE i.after # 0
BondGate(i, g) ==
    LET p == i.key IN
    /\ BondKnown(g, p) /\ VlanFree(g, p)
    /\ \A b \in Holders(g, p) : p # Local(b) /\ g[b].cfg.tree = 0
    /\ \A x \in g[p].links : g[x].cfg.type = "system"
    /\ Cardinality(g[p].links) > 1
MtuGate(i, g) ==
    /\ Standalone(g, i.key)
    /\ (i.before = 0 \/ i.after = 0) => MtuDefaultKnown(g, i.key)
PolicingGate(i, g) == Standalone(g, i.key) /\ g[Root].cfg.other = 0
ListGate(i, g) ==
    /\ i.op = "vlan" => VlanGate(i, g)
    /\ i.op = "bond" => BondGate(i, g)

\* VLAN and bond changes: the transaction waits for all that the checks see.
LEMMA ListTransfer ==
    ASSUME NEW i, NEW g, NEW h, Schema(g), Schema(h), i.op \in ListOps,
           Table(i.key) = "Port", i.key \in DOMAIN g, i.ctx => UsesQinQ(i) \/ i.op = "bond",
           Agree(g, h, VlanWait(i, g)), ListGate(i, g)
    PROVE  /\ ListGate(i, h) /\ Agree(g, h, Cells({i.key}, {"id", i.f}))
           /\ Agree(g, h, Dependencies(g, i.op, i.key, i.ctx))
<1> DEFINE p == i.key
           H == Holders(g, p)
           L == g[p].links
           w == VlanWait(i, g)
           strict == i.op = "bond" \/ UsesQinQ(i)
<1>1. /\ Cells({Root, p} \cup H \cup L, {"id"} \cup Labels) \subseteq w
      /\ Cells({p}, {"links", "held", i.f}) \subseteq w /\ Cells(L, {"type", "opts"}) \subseteq w
      /\ strict => Cells(L, {"held"}) \subseteq w
      /\ i.op = "bond" => Cells(H, {"tree"}) \subseteq w
      /\ UsesQinQ(i) => {<<Root, "other">>} \subseteq w
    BY DEF VlanWait, Labelled
<1> HIDE DEF w
<1>2. /\ \A k \in {Root, p} \cup H \cup L, f \in {"id"} \cup Labels : Col(g, <<k, f>>) = Col(h, <<k, f>>)
      /\ \A f \in {"links", "held", i.f} : Col(g, <<p, f>>) = Col(h, <<p, f>>)
      /\ \A k \in L, f \in {"type", "opts"} : Col(g, <<k, f>>) = Col(h, <<k, f>>)
    <2>1. Agree(g, h, w)
        BY DEF w
    <2> HIDE DEF H, L
    <2> QED
        BY <1>1, <2>1, AgreeCells
<1>3. /\ strict => \A k \in L : Col(g, <<k, "held">>) = Col(h, <<k, "held">>)
      /\ i.op = "bond" => \A k \in H : Col(g, <<k, "tree">>) = Col(h, <<k, "tree">>)
      /\ UsesQinQ(i) => Col(g, <<Root, "other">>) = Col(h, <<Root, "other">>)
    <2>1. Agree(g, h, w)
        BY DEF w
    <2> HIDE DEF H, L
    <2>2. strict => \A k \in L : Col(g, <<k, "held">>) = Col(h, <<k, "held">>)
        BY <1>1, <2>1, AgreeCells
    <2>3. i.op = "bond" => \A k \in H : Col(g, <<k, "tree">>) = Col(h, <<k, "tree">>)
        BY <1>1, <2>1, AgreeCells
    <2>4. UsesQinQ(i) => Col(g, <<Root, "other">>) = Col(h, <<Root, "other">>)
        BY <1>1, <2>1 DEF Agree
    <2> QED
        BY <2>2, <2>3, <2>4
<1>4. Typed(g) /\ Typed(h) /\ Root \in DOMAIN g /\ Root \in DOMAIN h
    BY DEF Schema, Typed
<1>5. \A b \in H : b \in DOMAIN g /\ Table(b) = "Bridge" /\ b \in g[Root].links
    BY PortHeld
<1>6. \A x \in L : x \in DOMAIN g /\ Table(x) = "Interface"
    BY <1>4, LinkTables
<1>7. p \in DOMAIN h /\ h[p].links = L /\ Holders(h, p) = H
    BY <1>2, LinksCell, HeldCell
<1>8. \A b \in H : b \in DOMAIN h /\ b \in h[Root].links
    BY <1>7, PortHeld
<1>9. /\ \A k \in {Root, p} \cup H \cup L : k \in DOMAIN h /\ g[k].id = h[k].id /\ g[k].ctl = h[k].ctl
      /\ \A k \in L : g[k].cfg.type = h[k].cfg.type /\ g[k].cfg.opts = h[k].cfg.opts
    <2> HIDE DEF H, L
    <2>1. ASSUME NEW k \in {Root, p} \cup H \cup L
          PROVE  k \in DOMAIN h /\ g[k].id = h[k].id /\ g[k].ctl = h[k].ctl
        <3>1. k \in DOMAIN g
            BY <1>4, <1>5, <1>6
        <3>2. Col(g, <<k, "id">>) = Col(h, <<k, "id">>) /\ Col(g, <<k, "ctl">>) = Col(h, <<k, "ctl">>)
            BY <1>2 DEF Labels
        <3> QED
            BY <3>1, <3>2, IdCell, CtlCell
    <2>2. ASSUME NEW k \in L
          PROVE  g[k].cfg.type = h[k].cfg.type /\ g[k].cfg.opts = h[k].cfg.opts
        <3>1. k \in DOMAIN g /\ Col(g, <<k, "type">>) = Col(h, <<k, "type">>)
              /\ Col(g, <<k, "opts">>) = Col(h, <<k, "opts">>)
            BY <1>2, <1>6
        <3> QED
            BY <3>1, TypeCell, OptsCell
    <2> QED
        BY <2>1, <2>2
<1>10. /\ strict => \A k \in L : Holders(g, k) = Holders(h, k)
       /\ i.op = "bond" => \A k \in H : g[k].cfg.tree = h[k].cfg.tree
    <2> HIDE DEF H, L
    <2>1. ASSUME strict, NEW k \in L PROVE Holders(g, k) = Holders(h, k)
        <3>1. k \in DOMAIN g /\ Col(g, <<k, "held">>) = Col(h, <<k, "held">>)
            BY <1>3, <1>6, <2>1
        <3> QED
            BY <3>1, HeldCell
    <2>2. ASSUME i.op = "bond", NEW k \in H PROVE g[k].cfg.tree = h[k].cfg.tree
        <3>1. k \in DOMAIN g /\ Col(g, <<k, "tree">>) = Col(h, <<k, "tree">>)
            BY <1>3, <1>5, <2>2
        <3> QED
            BY <3>1, TreeCell
    <2> QED
        BY <2>1, <2>2
<1>11. VlanKnown(h, p) /\ VlanFree(h, p)
    <2>1. VlanKnown(g, p) /\ VlanFree(g, p)
        BY DEF ListGate, VlanGate, BondGate, BondKnown, ListOps
    <2>2. VlanKnown(h, p)
        BY <1>7, <2>1 DEF VlanKnown
    <2>3. VlanFree(h, p)
        <3> HIDE DEF H, L
        <3>1. \A k \in {p, Root} \cup H \cup L : ~g[k].ctl
            BY <2>1 DEF VlanFree, Free, H, L
        <3>2. \A k \in {p, Root} \cup H \cup L : ~h[k].ctl
            BY <1>9, <3>1
        <3> QED
            BY <1>7, <3>2 DEF VlanFree, Free
    <2> QED
        BY <2>2, <2>3
<1>12. ASSUME i.op = "vlan" PROVE ListGate(i, h)
    <2>1. VlanGate(i, g)
        BY <1>12 DEF ListGate
    <2>2. UsesQinQ(i) => QinQSupported(h, p)
        <3> SUFFICES ASSUME UsesQinQ(i) PROVE QinQSupported(h, p)
            OBVIOUS
        <3>1. QinQSupported(g, p)
            BY <2>1 DEF VlanGate
        <3>2. PICK x \in DOMAIN g : /\ L = {x} /\ Holders(g, x) = {p}
                                    /\ g[x].cfg.type = "system" /\ g[x].cfg.opts = {}
            BY <3>1 DEF QinQSupported
        <3>3. x \in DOMAIN h /\ Holders(h, x) = {p} /\ h[x].cfg.type = "system" /\ h[x].cfg.opts = {}
            BY <1>9, <1>10, <3>2
        <3>4. \A b \in H : p # Local(b)
            BY <3>1 DEF QinQSupported
        <3> QED
            BY <1>7, <1>8, <3>2, <3>3, <3>4 DEF QinQSupported
    <2>3. VlanGate(i, h)
        BY <1>11, <2>1, <2>2 DEF VlanGate
    <2> QED
        BY <1>12, <2>3 DEF ListGate
<1>13. ASSUME i.op = "bond" PROVE ListGate(i, h)
    <2>1. BondGate(i, g)
        BY <1>13 DEF ListGate
    <2>2. /\ \A x \in L : Holders(g, x) = {p} /\ g[x].cfg.type = "system"
          /\ \A b \in H : p # Local(b) /\ g[b].cfg.tree = 0
          /\ Cardinality(L) > 1
        BY <2>1 DEF BondGate, BondKnown
    <2> HIDE DEF H, L
    <2>3. /\ \A x \in L : Holders(h, x) = {p} /\ h[x].cfg.type = "system"
          /\ \A b \in H : p # Local(b) /\ h[b].cfg.tree = 0
        BY <1>9, <1>10, <1>13, <2>2
    <2>4. BondGate(i, h)
        BY <1>7, <1>8, <1>11, <2>2, <2>3 DEF BondGate, BondKnown
    <2> QED
        BY <1>13, <2>4 DEF ListGate
<1>14. ListGate(i, h)
    BY <1>12, <1>13 DEF ListOps
<1>15. Agree(g, h, Cells({p}, {"id", i.f}))
    <2>1. \A k \in {p}, f \in {"id", i.f} : Col(g, <<k, f>>) = Col(h, <<k, f>>)
        BY <1>2
    <2> QED
        BY <2>1, CellsAgree
<1>16. Agree(g, h, VlanScope(g, p))
    <2> HIDE DEF H, L
    <2>1. Agree(g, h, Cells({p}, {"held", "links", "ctl"}))
        BY <1>2, CellsAgree DEF Labels
    <2>2. Agree(g, h, Cells(L, {"id", "type", "opts", "ctl"}))
        BY <1>2, CellsAgree DEF Labels
    <2>3. Agree(g, h, Cells(H \cup {Root}, {"ctl"}))
        BY <1>2, CellsAgree DEF Labels
    <2> QED
        BY <2>1, <2>2, <2>3, AgreeUnion DEF VlanScope, H, L
<1>17. strict => Agree(g, h, Cells(L, {"held"}))
    <2> HIDE DEF H, L
    <2> QED
        BY <1>3, CellsAgree
<1>18. Agree(g, h, {<<Root, "id">>})
    BY <1>2 DEF Agree
<1>19. UsesQinQ(i) => Agree(g, h, QinQScope(g, p))
    <2> SUFFICES ASSUME UsesQinQ(i) PROVE Agree(g, h, QinQScope(g, p))
        OBVIOUS
    <2>1. Agree(g, h, Cells({Root}, {"id", "other"}))
        BY <1>2, <1>3, CellsAgree
    <2> QED
        BY <1>17, <2>1, AgreeUnion DEF QinQScope
<1>20. i.op = "bond" => Agree(g, h, BondScope(g, p))
    <2> SUFFICES ASSUME i.op = "bond" PROVE Agree(g, h, BondScope(g, p))
        OBVIOUS
    <2>1. ASSUME NEW b \in H
          PROVE  Col(g, <<b, "tree">>) = Col(h, <<b, "tree">>) /\ Col(g, <<b, "held">>) = Col(h, <<b, "held">>)
        <3>1. Holders(g, b) = {Root} /\ Holders(h, b) = {Root} /\ b \in DOMAIN g /\ b \in DOMAIN h
            BY <1>7, PortHeld
        <3>2. Col(g, <<b, "held">>) = Col(h, <<b, "held">>)
            BY <1>9, <3>1, SameHeld
        <3> QED
            BY <1>3, <3>2
    <2> HIDE DEF H, L
    <2>2. Agree(g, h, Cells(H, {"tree", "held"}))
        BY <2>1, CellsAgree
    <2> QED
        BY <1>16, <1>17, <1>18, <2>2, AgreeUnion DEF BondScope, H, L
<1>21. Agree(g, h, Dependencies(g, i.op, p, i.ctx))
    <2>1. Agree(g, h, {})
        BY DEF Agree
    <2>2. CASE i.op = "vlan"
        <3>1. Dependencies(g, i.op, p, i.ctx) = VlanScope(g, p) \cup (IF i.ctx THEN QinQScope(g, p) ELSE {}) \cup {}
            BY <2>2 DEF Dependencies, Scope, TreeOps
        <3> QED
            BY <1>16, <1>19, <2>1, <2>2, <3>1, AgreeUnion
    <2>3. CASE i.op = "bond"
        <3>1. Dependencies(g, i.op, p, i.ctx) = BondScope(g, p)
            BY <2>3 DEF Dependencies, Scope, TreeOps
        <3> QED
            BY <1>20, <2>3, <3>1
    <2> QED
        BY <2>2, <2>3 DEF ListOps
<1> QED
    BY <1>14, <1>15, <1>21

\* MTU and policing: the interface, its port, its bridge and the root.
LEMMA InterfaceTransfer ==
    ASSUME NEW i, NEW g, NEW h, Schema(g), Schema(h), i.key \in DOMAIN g,
           Agree(g, h, InterfaceWait(i, g)), Standalone(g, i.key)
    PROVE  /\ Standalone(h, i.key) /\ Holders(h, i.key) = Holders(g, i.key)
           /\ Agree(g, h, Cells({i.key}, {"id", i.f})) /\ Agree(g, h, InterfaceScope(g, i.key))
           /\ \E p, b : /\ Holders(g, i.key) = {p} /\ Holders(g, p) = {b} /\ Holders(h, p) = {b}
                        /\ Ports(g, b) = Ports(h, b) /\ Table(b) = "Bridge" /\ b \in DOMAIN g
<1> DEFINE x == i.key
           w == InterfaceWait(i, g)
<1>1. PICK p \in Rows(g, "Port"), b \in Rows(g, "Bridge") :
        /\ Holders(g, x) = {p} /\ Holders(g, p) = {b} /\ b \in g[Root].links
        /\ g[p].links = {x} /\ p = PortOf(x) /\ p # Local(b)
        /\ g[x].cfg.type = "internal" /\ g[x].cfg.opts = {}
        /\ Free(g, {Root, b, p, x})
    BY DEF Standalone
<1>2. p \in DOMAIN g /\ b \in DOMAIN g /\ Table(p) = "Port" /\ Table(b) = "Bridge" /\ Root \in DOMAIN g
    BY DEF Rows, Schema, Typed
<1>3. HoldersOf(g, Holders(g, x)) = {b}
    BY <1>1 DEF HoldersOf
<1>4. w = Cells({Root, x} \cup {p} \cup {b}, {"id"} \cup Labels) \cup Cells({b}, {"ports"})
          \cup Cells({p}, {"links", "held"}) \cup Cells({x}, {"type", "opts", "held", i.f})
    BY <1>1, <1>3 DEF InterfaceWait, Labelled
<1>5. Agree(g, h, w)
    OBVIOUS
<1> HIDE DEF w
<1>6. /\ \A k \in {Root, x, p, b}, f \in {"id"} \cup Labels : Col(g, <<k, f>>) = Col(h, <<k, f>>)
      /\ Col(g, <<b, "ports">>) = Col(h, <<b, "ports">>)
      /\ Col(g, <<p, "links">>) = Col(h, <<p, "links">>) /\ Col(g, <<p, "held">>) = Col(h, <<p, "held">>)
      /\ \A f \in {"type", "opts", "held", i.f} : Col(g, <<x, f>>) = Col(h, <<x, f>>)
    <2>1. Cells({Root, x} \cup {p} \cup {b}, {"id"} \cup Labels) \subseteq w
        BY <1>4
    <2>2. Cells({b}, {"ports"}) \subseteq w
        BY <1>4
    <2>3. Cells({p}, {"links", "held"}) \subseteq w
        BY <1>4
    <2>4. Cells({x}, {"type", "opts", "held", i.f}) \subseteq w
        BY <1>4
    <2>5. \A k \in {Root, x} \cup {p} \cup {b}, f \in {"id"} \cup Labels : Col(g, <<k, f>>) = Col(h, <<k, f>>)
        <3> DEFINE K == {Root, x} \cup {p} \cup {b}
                   F == {"id"} \cup Labels
        <3>1. Cells(K, F) \subseteq w
            BY <2>1
        <3> HIDE DEF K, F
        <3>2. ASSUME NEW k \in K, NEW f \in F PROVE Col(g, <<k, f>>) = Col(h, <<k, f>>)
            <4>1. <<k, f>> \in Cells(K, F)
                BY CellsOf
            <4> QED
                BY <1>5, <3>1, <4>1 DEF Agree
        <3> QED
            BY <3>2 DEF K, F
    <2>6. Col(g, <<b, "ports">>) = Col(h, <<b, "ports">>)
        BY <1>5, <2>2, AgreeCells
    <2>7. Col(g, <<p, "links">>) = Col(h, <<p, "links">>) /\ Col(g, <<p, "held">>) = Col(h, <<p, "held">>)
        BY <1>5, <2>3, AgreeCells
    <2>8. \A f \in {"type", "opts", "held", i.f} : Col(g, <<x, f>>) = Col(h, <<x, f>>)
        BY <1>5, <2>4, AgreeCells
    <2> QED
        BY <2>5, <2>6, <2>7, <2>8
<1>7. ASSUME NEW k \in {Root, x, p, b}
      PROVE  k \in DOMAIN h /\ g[k].ctl = h[k].ctl /\ ~h[k].ctl
    <2>1. k \in DOMAIN g /\ Col(g, <<k, "ctl">>) = Col(h, <<k, "ctl">>) /\ ~g[k].ctl
        BY <1>1, <1>2, <1>6 DEF Labels, Free
    <2>2. k \in DOMAIN h /\ g[k].ctl = h[k].ctl
        BY <2>1, CtlCell
    <2> QED
        BY <2>1, <2>2
<1>8. Holders(h, x) = {p} /\ h[x].cfg.type = "internal" /\ h[x].cfg.opts = {}
    <2>1. Col(g, <<x, "type">>) = Col(h, <<x, "type">>) /\ Col(g, <<x, "opts">>) = Col(h, <<x, "opts">>)
          /\ Col(g, <<x, "held">>) = Col(h, <<x, "held">>)
        BY <1>6
    <2>2. Holders(h, x) = Holders(g, x)
        BY <2>1, HeldCell
    <2>3. h[x].cfg.type = g[x].cfg.type
        BY <2>1, TypeCell
    <2>4. h[x].cfg.opts = g[x].cfg.opts
        BY <2>1, OptsCell
    <2> QED
        BY <1>1, <2>2, <2>3, <2>4
<1>9. h[p].links = {x} /\ Holders(h, p) = {b}
    <2>1. h[p].links = g[p].links
        BY <1>2, <1>6, LinksCell
    <2>2. Holders(h, p) = Holders(g, p)
        BY <1>2, <1>6, HeldCell
    <2> QED
        BY <1>1, <2>1, <2>2
<1>10. b \in h[Root].links
    BY <1>2, <1>9, PortHeld
<1>11. Standalone(h, x)
    <2>1. p \in Rows(h, "Port") /\ b \in Rows(h, "Bridge")
        BY <1>2, <1>7 DEF Rows
    <2>2. Free(h, {Root, b, p, x})
        BY <1>7 DEF Free
    <2> QED
        BY <1>1, <1>8, <1>9, <1>10, <2>1, <2>2 DEF Standalone
<1>12. Ports(g, b) = Ports(h, b)
    BY <1>2, <1>6, PortsCell
<1>13. Agree(g, h, Cells({x}, {"id", i.f}))
    <2>1. \A k \in {x}, f \in {"id", i.f} : Col(g, <<k, f>>) = Col(h, <<k, f>>)
        BY <1>6
    <2> QED
        BY <2>1, CellsAgree
<1>14. Agree(g, h, InterfaceScope(g, x))
    <2>1. InterfaceScope(g, x) =
            Cells({Root}, {"id", "ctl"}) \cup Cells({p}, {"id", "links", "held", "ctl"})
            \cup Cells({b}, {"id", "ports", "ctl"}) \cup Cells({x}, {"type", "opts", "held", "ctl"})
        BY <1>1, <1>3 DEF InterfaceScope
    <2>2. Agree(g, h, Cells({Root}, {"id", "ctl"}))
        BY <1>6, CellsAgree DEF Labels
    <2>3. Agree(g, h, Cells({p}, {"id", "links", "held", "ctl"}))
        BY <1>6, CellsAgree DEF Labels
    <2>4. Agree(g, h, Cells({b}, {"id", "ports", "ctl"}))
        BY <1>6, CellsAgree DEF Labels
    <2>5. Agree(g, h, Cells({x}, {"type", "opts", "held", "ctl"}))
        BY <1>6, CellsAgree DEF Labels
    <2> QED
        BY <2>1, <2>2, <2>3, <2>4, <2>5 DEF Agree
<1> QED
    BY <1>1, <1>2, <1>8, <1>9, <1>11, <1>12, <1>13, <1>14

LEMMA PeersOf ==
    ASSUME NEW g, NEW x, NEW p, NEW b, Holders(g, x) = {p}, Holders(g, p) = {b}
    PROVE  Peers(g, x) = Ports(g, b)
BY DEF Peers, HoldersOf

LEMMA MtuTransfer ==
    ASSUME NEW i, NEW g, NEW h, Schema(g), Schema(h), i.key \in DOMAIN g, i.op = "mtu",
           Agree(g, h, MtuWait(i, g)), MtuGate(i, g), i.ctx \in BOOLEAN, 0 \in {i.before, i.after} => i.ctx
    PROVE  /\ MtuGate(i, h) /\ Agree(g, h, Cells({i.key}, {"id", i.f}))
           /\ Agree(g, h, Dependencies(g, i.op, i.key, i.ctx))
<1> DEFINE x == i.key
           P == Peers(g, x)
           O == Members(g, P) \ {x}
           w == MtuWait(i, g)
<1>1. InterfaceWait(i, g) \subseteq w
    BY DEF MtuWait
<1>2. Agree(g, h, InterfaceWait(i, g)) /\ Standalone(g, x)
    BY <1>1 DEF Agree, MtuGate
<1>3. /\ Standalone(h, x) /\ Holders(h, x) = Holders(g, x)
      /\ Agree(g, h, Cells({x}, {"id", i.f})) /\ Agree(g, h, InterfaceScope(g, x))
    BY <1>2, InterfaceTransfer
<1>4. PICK p, b : /\ Holders(g, x) = {p} /\ Holders(g, p) = {b} /\ Holders(h, p) = {b}
                  /\ Ports(g, b) = Ports(h, b) /\ Table(b) = "Bridge" /\ b \in DOMAIN g
    BY <1>2, InterfaceTransfer
<1>5. P = Ports(g, b) /\ Peers(h, x) = Ports(g, b)
    BY <1>3, <1>4, PeersOf
<1>6. CASE ~i.ctx
    <2>1. Dependencies(g, i.op, x, i.ctx) = InterfaceScope(g, x)
        BY <1>6 DEF Dependencies, Scope, TreeOps
    <2>2. MtuGate(i, h)
        BY <1>3, <1>6 DEF MtuGate
    <2> QED
        BY <1>3, <2>1, <2>2
<1>7. CASE i.ctx
    <2>1. /\ Cells(P \cup O, {"id"} \cup Labels) \subseteq w /\ Cells(P, {"links", "held"}) \subseteq w
          /\ Cells(O, {"type", "opts", "mtu", "held"}) \subseteq w
        BY <1>7 DEF MtuWait, Labelled
    <2>2. Agree(g, h, w)
        OBVIOUS
    <2> HIDE DEF w
    <2>3. Typed(g)
        BY DEF Schema
    <2>4. \A k \in P : k \in DOMAIN g /\ Table(k) = "Port"
        <3>1. \A k \in Ports(g, b) : k \in DOMAIN g /\ Table(k) = "Port"
            BY <1>4, <2>3, LinkTables DEF Ports
        <3> HIDE DEF P
        <3> QED
            BY <1>5, <3>1
    <2>5. \A k \in O : k \in DOMAIN g
        <3> HIDE DEF P
        <3> QED
            BY <2>3, <2>4, LinkTables DEF Members
    <2> HIDE DEF P, O
    <2>6. /\ \A k \in P \cup O, f \in {"id"} \cup Labels : Col(g, <<k, f>>) = Col(h, <<k, f>>)
          /\ \A k \in P, f \in {"links", "held"} : Col(g, <<k, f>>) = Col(h, <<k, f>>)
          /\ \A k \in O, f \in {"type", "opts", "mtu", "held"} : Col(g, <<k, f>>) = Col(h, <<k, f>>)
        BY <2>1, <2>2, AgreeCells
    <2>7. ASSUME NEW k \in P
          PROVE  h[k].links = g[k].links /\ Holders(h, k) = Holders(g, k) /\ h[k].ctl = g[k].ctl
        <3>1. k \in DOMAIN g /\ Col(g, <<k, "links">>) = Col(h, <<k, "links">>)
              /\ Col(g, <<k, "held">>) = Col(h, <<k, "held">>) /\ Col(g, <<k, "ctl">>) = Col(h, <<k, "ctl">>)
            BY <2>4, <2>6 DEF Labels
        <3>2. h[k].links = g[k].links
            BY <3>1, LinksCell
        <3>3. Holders(h, k) = Holders(g, k)
            BY <3>1, HeldCell
        <3> QED
            BY <3>1, <3>2, <3>3, CtlCell
    <2>8. ASSUME NEW k \in O
          PROVE  /\ h[k].cfg.type = g[k].cfg.type /\ h[k].cfg.opts = g[k].cfg.opts
                 /\ h[k].cfg.mtu = g[k].cfg.mtu
                 /\ Holders(h, k) = Holders(g, k) /\ h[k].ctl = g[k].ctl
        <3>1. k \in DOMAIN g /\ Col(g, <<k, "type">>) = Col(h, <<k, "type">>)
              /\ Col(g, <<k, "opts">>) = Col(h, <<k, "opts">>) /\ Col(g, <<k, "mtu">>) = Col(h, <<k, "mtu">>)
              /\ Col(g, <<k, "held">>) = Col(h, <<k, "held">>) /\ Col(g, <<k, "ctl">>) = Col(h, <<k, "ctl">>)
            BY <2>5, <2>6 DEF Labels
        <3>2. h[k].cfg.type = g[k].cfg.type
            BY <3>1, TypeCell
        <3>3. h[k].cfg.opts = g[k].cfg.opts
            BY <3>1, OptsCell
        <3>4. h[k].cfg.mtu = g[k].cfg.mtu
            BY <3>1, MtuCell
        <3>5. Holders(h, k) = Holders(g, k)
            BY <3>1, HeldCell
        <3> QED
            BY <3>1, <3>2, <3>3, <3>4, <3>5, CtlCell
    <2>9. Peers(h, x) = P /\ Members(h, P) \ {x} = O
        <3>1. Members(h, P) = Members(g, P)
            BY <2>7 DEF Members
        <3> QED
            BY <1>5, <3>1 DEF O, P
    <2>10. MtuDefaultKnown(g, x) => MtuDefaultKnown(h, x)
        <3>1. MtuDefaultKnown(g, x) <=>
                /\ \A k \in P : Cardinality(Holders(g, k)) = 1 /\ ~g[k].ctl
                /\ \A k \in O : Plain(g, k) /\ Cardinality(Holders(g, k)) = 1 /\ ~g[k].ctl
                /\ \E k \in O : g[k].cfg.type # "internal" \/ g[k].cfg.mtu # 0
            BY DEF MtuDefaultKnown, O, P
        <3>2. MtuDefaultKnown(h, x) <=>
                /\ \A k \in P : Cardinality(Holders(h, k)) = 1 /\ ~h[k].ctl
                /\ \A k \in O : Plain(h, k) /\ Cardinality(Holders(h, k)) = 1 /\ ~h[k].ctl
                /\ \E k \in O : h[k].cfg.type # "internal" \/ h[k].cfg.mtu # 0
            BY <2>9 DEF MtuDefaultKnown
        <3>3. \A k \in O : Plain(g, k) => Plain(h, k)
            BY <2>8 DEF Plain
        <3> QED
            BY <2>7, <2>8, <3>1, <3>2, <3>3
    <2>11. MtuGate(i, h)
        BY <1>3, <2>10 DEF MtuGate
    <2>12. Agree(g, h, MtuDefaultScope(g, x))
        <3>1. Agree(g, h, Cells(P, {"id", "links", "held", "ctl"}))
            BY <2>6, CellsAgree DEF Labels
        <3>2. Agree(g, h, Cells(O, {"type", "opts", "mtu", "held", "ctl"}))
            BY <2>6, CellsAgree DEF Labels
        <3> QED
            BY <3>1, <3>2, AgreeUnion DEF MtuDefaultScope, O, P
    <2>13. Dependencies(g, i.op, x, i.ctx) = InterfaceScope(g, x) \cup MtuDefaultScope(g, x)
        BY <1>7 DEF Dependencies, Scope, TreeOps
    <2> QED
        BY <1>3, <2>11, <2>12, <2>13, AgreeUnion
<1> QED
    BY <1>6, <1>7

LEMMA PolicingTransfer ==
    ASSUME NEW i, NEW g, NEW h, Schema(g), Schema(h), i.key \in DOMAIN g, i.op = "police",
           Agree(g, h, PolicingWait(i, g)), PolicingGate(i, g)
    PROVE  /\ PolicingGate(i, h) /\ Agree(g, h, Cells({i.key}, {"id", i.f}))
           /\ Agree(g, h, Dependencies(g, i.op, i.key, i.ctx))
<1>1. Agree(g, h, InterfaceWait(i, g)) /\ Agree(g, h, {<<Root, "other">>}) /\ Standalone(g, i.key)
    BY DEF Agree, PolicingWait, PolicingGate
<1>2. /\ Standalone(h, i.key)
      /\ Agree(g, h, Cells({i.key}, {"id", i.f})) /\ Agree(g, h, InterfaceScope(g, i.key))
    BY <1>1, InterfaceTransfer
<1>3. Root \in DOMAIN g /\ Col(g, <<Root, "other">>) = Col(h, <<Root, "other">>)
    BY <1>1 DEF Agree, Schema, Typed
<1>4. g[Root].cfg.other = h[Root].cfg.other
    BY <1>3, OtherCell
<1>5. PolicingGate(i, h)
    BY <1>2, <1>4 DEF PolicingGate
<1>6. Dependencies(g, i.op, i.key, i.ctx) = InterfaceScope(g, i.key) \cup {<<Root, "other">>}
    BY DEF Dependencies, Scope, PolicingScope, TreeOps
<1> QED
    BY <1>1, <1>2, <1>5, <1>6, AgreeUnion

-----------------------------------------------------------------------------
(* Fences of whole tables.                                                 *)

SameTable(g, h, t) == Image(h, WholeOf(Rows(h, t))) = Image(g, WholeOf(Rows(g, t)))

LEMMA WholeCells ==
    ASSUME NEW k
    PROVE  /\ \A c \in Whole(k) : c[1] = k
           /\ \A f \in {"id", "links", "refs", "ctl", "made", "mark"} \cup Fields(Table(k)) :
                <<k, f>> \in Whole(k)
BY DEF Whole, Labels

\* A row is made of its cells.
LEMMA RowFromCells ==
    ASSUME NEW g, NEW h, NEW k \in DOMAIN g, k \in DOMAIN h, IsKey(k), IsRow(k, g[k]), IsRow(k, h[k]),
           Agree(g, h, Whole(k))
    PROVE  /\ g[k] = h[k]
           /\ \A j \in g[k].links : g[j].id = h[j].id
<1> DEFINE S == {"id", "links", "refs", "ctl", "made", "mark"} \cup Fields(Table(k))
<1>1. \A f \in S : Col(g, <<k, f>>) = Col(h, <<k, f>>)
    BY WholeCells DEF Agree
<1>2. {"id", "links", "refs", "ctl", "made", "mark"} \subseteq S /\ Fields(Table(k)) \subseteq S
    OBVIOUS
<1> HIDE DEF S
<1>3. g[k].id = h[k].id /\ g[k].ctl = h[k].ctl /\ g[k].made = h[k].made /\ g[k].mark = h[k].mark
    <2>1. /\ Col(g, <<k, "id">>) = Col(h, <<k, "id">>) /\ Col(g, <<k, "ctl">>) = Col(h, <<k, "ctl">>)
          /\ Col(g, <<k, "made">>) = Col(h, <<k, "made">>) /\ Col(g, <<k, "mark">>) = Col(h, <<k, "mark">>)
        BY <1>1, <1>2
    <2>2. g[k].id = h[k].id
        BY <2>1, IdCell
    <2>3. g[k].ctl = h[k].ctl
        BY <2>1, CtlCell
    <2>4. g[k].made = h[k].made
        BY <2>1, MadeCell
    <2> QED
        BY <2>1, <2>2, <2>3, <2>4, MarkCell
<1>4. g[k].links = h[k].links /\ \A j \in g[k].links : g[j].id = h[j].id
    <2>1. Col(g, <<k, "links">>) = Col(h, <<k, "links">>)
        BY <1>1, <1>2
    <2> QED
        BY <2>1, LinksCell
<1>5. g[k].refs = h[k].refs
    <2>1. Col(g, <<k, "refs">>) = Col(h, <<k, "refs">>)
        BY <1>1, <1>2
    <2> QED
        BY <2>1, RefsCell
<1>6. g[k].cfg = h[k].cfg
    <2>1. ASSUME NEW f \in Fields(Table(k)) PROVE g[k].cfg[f] = h[k].cfg[f]
        <3>1. Value(g, k, f) = Value(h, k, f)
            BY <1>1, <1>2, ColPresent
        <3>2. f \notin {"links", "refs", "ports", "held", "heldall", "id", "ctl", "made", "mark"}
            BY FieldsOfTables DEF IsKey
        <3> QED
            BY <3>1, <3>2 DEF Value
    <2>2. /\ g[k].cfg = [f \in Fields(Table(k)) |-> g[k].cfg[f]]
          /\ h[k].cfg = [f \in Fields(Table(k)) |-> h[k].cfg[f]]
        BY DEF IsRow
    <2> QED
        BY <2>1, <2>2
<1>7. g[k] = [c \in Columns |-> g[k][c]] /\ h[k] = [c \in Columns |-> h[k][c]]
    BY DEF IsRow
<1>8. \A c \in Columns : g[k][c] = h[k][c]
    BY <1>3, <1>4, <1>5, <1>6 DEF Columns
<1> QED
    BY <1>4, <1>7, <1>8

LEMMA SameTableRows ==
    ASSUME NEW g, NEW h, Typed(g), Typed(h), NEW t, SameTable(g, h, t)
    PROVE  /\ Rows(g, t) = Rows(h, t)
           /\ \A k \in Rows(g, t) : g[k] = h[k] /\ \A j \in g[k].links : g[j].id = h[j].id
<1> DEFINE G == WholeOf(Rows(g, t))
           H == WholeOf(Rows(h, t))
<1>1. G = H
    BY DEF SameTable, Image
<1>2. \A k : k \in Rows(g, t) <=> <<k, "id">> \in G
    BY WholeCells DEF WholeOf
<1>3. \A k : k \in Rows(h, t) <=> <<k, "id">> \in H
    BY WholeCells DEF WholeOf
<1>4. Rows(g, t) = Rows(h, t)
    BY <1>1, <1>2, <1>3
<1>5. Agree(g, h, G)
    BY <1>1, ImageAgrees DEF SameTable
<1>6. ASSUME NEW k \in Rows(g, t)
      PROVE  g[k] = h[k] /\ \A j \in g[k].links : g[j].id = h[j].id
    <2>1. k \in DOMAIN g /\ k \in DOMAIN h
        BY <1>4 DEF Rows
    <2>2. IsKey(k) /\ IsRow(k, g[k]) /\ IsRow(k, h[k])
        BY <2>1, TypedRow
    <2>3. Whole(k) \subseteq G
        BY DEF WholeOf
    <2>4. Agree(g, h, Whole(k))
        BY <1>5, <2>3, AgreeSubset
    <2> QED
        BY <2>1, <2>2, <2>4, RowFromCells
<1> QED
    BY <1>4, <1>6

\* The fence of four tables leaves open what the rows of mirrors hold only.
LEMMA FourTables ==
    ASSUME NEW g, NEW h, Schema(g), Schema(h), \A t \in FenceTables : SameTable(g, h, t)
    PROVE  /\ DOMAIN g = DOMAIN h
           /\ \A k \in DOMAIN g :
                /\ Table(k) # "Mirror" => g[k] = h[k]
                /\ g[k].id = h[k].id /\ g[k].links = h[k].links
<1>1. Typed(g) /\ Typed(h)
    BY DEF Schema
<1>2. \A t \in FenceTables : Rows(g, t) = Rows(h, t)
    BY <1>1, SameTableRows
<1>3. \A t \in FenceTables : \A k \in Rows(g, t) : g[k] = h[k] /\ \A j \in g[k].links : g[j].id = h[j].id
    BY <1>1, SameTableRows
<1>4. ASSUME NEW k \in DOMAIN g \cup DOMAIN h, Table(k) # "Mirror"
      PROVE  k \in DOMAIN g /\ k \in DOMAIN h /\ g[k] = h[k] /\ \A j \in g[k].links : g[j].id = h[j].id
    <2>1. IsKey(k)
        BY <1>1, TypedRow
    <2>2. Table(k) \in FenceTables
        BY <1>4, <2>1 DEF IsKey, FenceTables
    <2>3. k \in Rows(g, Table(k)) \cup Rows(h, Table(k))
        BY DEF Rows
    <2>4. k \in Rows(g, Table(k)) /\ k \in Rows(h, Table(k))
        BY <1>2, <2>2, <2>3
    <2> QED
        BY <1>3, <2>2, <2>4 DEF Rows
<1>5. ASSUME NEW k \in DOMAIN g \cup DOMAIN h, Table(k) = "Mirror"
      PROVE  k \in DOMAIN g /\ k \in DOMAIN h /\ g[k].id = h[k].id /\ g[k].links = h[k].links
    <2>1. k # Root
        BY <1>5 DEF Root, Table
    <2>2. PICK b \in DOMAIN g \cup DOMAIN h :
            Table(b) = "Bridge" /\ ((b \in DOMAIN g /\ k \in g[b].links) \/ (b \in DOMAIN h /\ k \in h[b].links))
        <3>1. CASE k \in DOMAIN g
            <4>1. PICK b \in Holders(g, k) : TRUE
                BY <2>1, <3>1 DEF Schema
            <4> QED
                BY <1>1, <1>5, <4>1, HolderTables
        <3>2. CASE k \in DOMAIN h
            <4>1. PICK b \in Holders(h, k) : TRUE
                BY <2>1, <3>2 DEF Schema
            <4> QED
                BY <1>1, <1>5, <4>1, HolderTables
        <3> QED
            BY <3>1, <3>2
    <2>3. b \in DOMAIN g /\ b \in DOMAIN h /\ g[b] = h[b] /\ \A j \in g[b].links : g[j].id = h[j].id
        BY <1>4, <2>2
    <2>4. k \in g[b].links /\ k \in h[b].links
        BY <2>2, <2>3
    <2>5. k \in DOMAIN g /\ k \in DOMAIN h
        BY <1>1, <2>3, <2>4, LinkTables
    <2>6. g[k].links = {} /\ h[k].links = {}
        BY <1>1, <1>5, <2>5, LinkTables
    <2> QED
        BY <2>3, <2>4, <2>5, <2>6
<1> QED
    BY <1>4, <1>5

LEMMA WholeFence ==
    ASSUME NEW g, NEW h, Schema(g), Schema(h), \A t \in FenceTables : SameTable(g, h, t),
           Rows(g, "Mirror") = {} \/ SameTable(g, h, "Mirror")
    PROVE  g = h
<1>1. Typed(g) /\ Typed(h)
    BY DEF Schema
<1>2. /\ DOMAIN g = DOMAIN h
      /\ \A k \in DOMAIN g : Table(k) # "Mirror" => g[k] = h[k]
    BY FourTables
<1>3. ASSUME NEW k \in DOMAIN g, Table(k) = "Mirror" PROVE g[k] = h[k]
    <2>1. k \in Rows(g, "Mirror")
        BY <1>3 DEF Rows
    <2> QED
        BY <1>1, <2>1, SameTableRows
<1>4. g = [k \in DOMAIN g |-> g[k]] /\ h = [k \in DOMAIN h |-> h[k]]
    BY <1>1 DEF Typed
<1> QED
    BY <1>2, <1>3, <1>4

(***************************************************************************)
(* Checks, taken apart: what they say about the rows alone (the gates),    *)
(* what was captured, and what the view adds (authority, generation).      *)
(***************************************************************************)

RegionOps == {"prot", "mcast"} \cup TreeOps
PathOps == TunnelOps \cup MirrorOps
PlainOps(op) == op \notin FieldOps \cup LifecycleOps \cup PathOps

RegionGate(i, g) ==
    /\ i.op = "prot" => IsolationGate(g, i.key)
    /\ i.op = "mcast" => MulticastGate(g, i.key)
    /\ i.op \in TreeOps => i.op = "tree" /\ TreeGate(g, i.key)

BridgesOf(rows) == {k \in DOMAIN rows : Table(k) = "Bridge"}
LifecycleGate(i, g) ==
    /\ ~g[Root].ctl
    /\ i.op \in {"internal.create", "internal.delete"} =>
          \A b \in BridgesOf(i.to) : InternalParent(g, b)

ClearNode(g, k, tunnel) ==
    CASE Table(k) = "Interface" -> CleanInterface(g, k)
      [] Table(k) = "Port" -> CleanPort(g, k)
      [] Table(k) = "Mirror" -> ~g[k].ctl /\ Cardinality(Holders(g, k)) = 1
      [] Table(k) = "Bridge" -> /\ CleanBridge(g, k)
                                /\ tunnel => Mirrors(g, k) = {}
                                /\ \A m \in Mirrors(g, k) : ~g[m].ctl
PathGate(i, g) ==
    /\ ~g[Root].ctl /\ g[Root].cfg.other = 0
    /\ i.op \in TunnelOps => TunnelFits(i, g)
    /\ i.op \in MirrorOps => MirrorFits(i, g)
    /\ i.dir = "go" => \A k \in DOMAIN i.from : ClearNode(g, k, i.op \in TunnelOps)

OpenNode(g, k) ==
    /\ ~g[k].ctl /\ g[k].refs = {}
    /\ Table(k) = "Bridge" => Mirrors(g, k) = {}
    /\ Table(k) = "Interface" => g[k].cfg.type \in {"system", "internal", "patch"}
TopologyGate(i, g) ==
    /\ ~g[Root].ctl
    /\ i.dir = "go" => \A k \in DOMAIN i.from : OpenNode(g, k)

\* Rows to add and to remove.
Available(i, g) == Removed(i, g) /\ \A k \in Fresh(i) : Creatable(i, g, k)
Entitled(i, g) == i.dir = "go" => \A k \in DOMAIN i.from : Granted(g, k)
Fostered(i, g) ==
    i.op \in {"internal.create", "internal.delete"} => \A b \in BridgesOf(i.to) : Granted(g, b)

\* What the checks of each kind come to.
LEMMA ListParts ==
    ASSUME NEW i, NEW g, i.op \in ListOps
    PROVE  Checks(i, g) <=> Unmoved(i, g) /\ Granted(g, i.key) /\ ListGate(i, g)
  <1>1. CASE i.op = "vlan"
    <2>1. Checks(i, g) <=> VlanChecks(i, g)
      BY <1>1 DEF Checks, TreeOps, TunnelOps, MirrorOps
    <2>2. ListGate(i, g) <=> VlanGate(i, g)
      BY <1>1 DEF ListGate
    <2> QED  BY <2>1, <2>2 DEF VlanChecks, VlanGate, VlanAuthority, VlanFree
  <1>2. CASE i.op = "bond"
    <2>1. Checks(i, g) <=> BondChecks(i, g)
      BY <1>2 DEF Checks, TreeOps, TunnelOps, MirrorOps
    <2>2. ListGate(i, g) <=> BondGate(i, g)
      BY <1>2 DEF ListGate
    <2> QED  BY <2>1, <2>2 DEF BondChecks, BondGate, BondEditable, VlanAuthority, VlanFree
  <1> QED  BY <1>1, <1>2 DEF ListOps

LEMMA MtuParts ==
    ASSUME NEW i, NEW g, i.op = "mtu"
    PROVE  Checks(i, g) <=> Unmoved(i, g) /\ Granted(g, i.key) /\ MtuGate(i, g)
  <1>1. Checks(i, g) <=> MtuChecks(i, g)
    BY DEF Checks, TreeOps, TunnelOps, MirrorOps
  <1> QED  BY <1>1 DEF MtuChecks, MtuGate, InterfaceMTU

LEMMA PolicingParts ==
    ASSUME NEW i, NEW g, i.op = "police"
    PROVE  Checks(i, g) <=> Unmoved(i, g) /\ Granted(g, i.key) /\ PolicingGate(i, g)
  <1>1. Checks(i, g) <=> PolicingChecks(i, g)
    BY DEF Checks, TreeOps, TunnelOps, MirrorOps
  <1> QED  BY <1>1 DEF PolicingChecks, PolicingGate, InterfacePolicing

LEMMA RegionParts ==
    ASSUME NEW i, NEW g, i.op \in RegionOps
    PROVE  Checks(i, g) <=> Unmoved(i, g) /\ Granted(g, i.key) /\ RegionGate(i, g)
  <1>1. CASE i.op = "prot"
    <2>1. Checks(i, g) <=> IsolationChecks(i, g)
      BY <1>1 DEF Checks, TreeOps, TunnelOps, MirrorOps
    <2>2. RegionGate(i, g) <=> IsolationGate(g, i.key)
      BY <1>1 DEF RegionGate, TreeOps
    <2> QED  BY <2>1, <2>2 DEF IsolationChecks, IsolationPort
  <1>2. CASE i.op = "mcast"
    <2>1. Checks(i, g) <=> MulticastChecks(i, g)
      BY <1>2 DEF Checks, TreeOps, TunnelOps, MirrorOps
    <2>2. RegionGate(i, g) <=> MulticastGate(g, i.key)
      BY <1>2 DEF RegionGate, TreeOps
    <2> QED  BY <2>1, <2>2 DEF MulticastChecks, MulticastBridge
  <1>3. CASE i.op \in TreeOps
    <2>1. Checks(i, g) <=> SpanningTreeChecks(i, g)
      BY <1>3 DEF Checks, TreeOps, TunnelOps, MirrorOps
    <2>2. RegionGate(i, g) <=> (i.op = "tree" /\ TreeGate(g, i.key))
      BY <1>3 DEF RegionGate, TreeOps
    <2> QED  BY <2>1, <2>2 DEF SpanningTreeChecks, SpanningTreeBridge
  <1> QED  BY <1>1, <1>2, <1>3 DEF RegionOps

LEMMA LifecycleParts ==
    ASSUME NEW i, NEW g, i.op \in LifecycleOps
    PROVE  Checks(i, g) <=> /\ Unmoved(i, g) /\ Available(i, g) /\ LifecycleGate(i, g) /\ Fostered(i, g)
                            /\ i.op \in DeletionOps => Restorable(i, g)
  <1>1. NoProblem(i, g) <=> Unmoved(i, g) /\ Available(i, g)
    BY DEF NoProblem, Available, LifecycleOps, TunnelOps, MirrorOps
  <1>2. CASE i.op \in {"bridge.create", "bridge.delete"}
    <2>1. Checks(i, g) <=> IF i.op = "bridge.create" THEN BridgeChecks(i, g) ELSE BridgeDeletionChecks(i, g)
      BY <1>2 DEF Checks, TreeOps, TunnelOps, MirrorOps
    <2> QED  BY <1>1, <1>2, <2>1 DEF BridgeChecks, BridgeDeletionChecks, LifecycleGate, Fostered, DeletionOps
  <1>3. CASE i.op \in {"internal.create", "internal.delete"}
    <2>1. Checks(i, g) <=> IF i.op = "internal.create" THEN InternalPortChecks(i, g) ELSE PortDeletionChecks(i, g)
      BY <1>3 DEF Checks, TreeOps, TunnelOps, MirrorOps
    <2>2. InternalPortChecks(i, g) <=> NoProblem(i, g) /\ LifecycleGate(i, g) /\ Fostered(i, g)
      BY <1>3 DEF InternalPortChecks, LifecycleGate, Fostered, BridgesOf
    <2> QED  BY <1>1, <1>3, <2>1, <2>2 DEF PortDeletionChecks, DeletionOps
  <1> QED  BY <1>2, <1>3 DEF LifecycleOps

LEMMA PathParts ==
    ASSUME NEW i, NEW g, i.op \in PathOps
    PROVE  Checks(i, g) <=> /\ Unmoved(i, g) /\ Available(i, g) /\ PathGate(i, g) /\ Entitled(i, g)
                            /\ Rest(g, Owns(i)) = i.rest
  <1>1. Checks(i, g) <=> PathChecks(i, g)
    BY DEF Checks, TreeOps, TunnelOps, MirrorOps, PathOps
  <1>2. i.op \in TunnelOps \cup MirrorOps /\ i.op \notin FieldOps \cup LifecycleOps
    BY DEF PathOps, TunnelOps, MirrorOps, FieldOps, ListOps, TreeOps, LifecycleOps
  <1>3. \A k : PathNode(g, k, i.op \in TunnelOps) <=> Granted(g, k) /\ ClearNode(g, k, i.op \in TunnelOps)
    BY DEF PathNode, ClearNode
  <1>4. NoProblem(i, g) <=> /\ Unmoved(i, g) /\ Available(i, g) /\ ~g[Root].ctl /\ g[Root].cfg.other = 0
                            /\ Rest(g, Owns(i)) = i.rest
                            /\ i.op \in TunnelOps => TunnelFits(i, g)
                            /\ i.op \in MirrorOps => MirrorFits(i, g)
    BY <1>2 DEF NoProblem, Available
  <1> QED  BY <1>1, <1>3, <1>4 DEF PathChecks, PathGate, Entitled

LEMMA TopologyParts ==
    ASSUME NEW i, NEW g, PlainOps(i.op)
    PROVE  Checks(i, g) <=> Unmoved(i, g) /\ Available(i, g) /\ TopologyGate(i, g) /\ Entitled(i, g)
  <1>1. Checks(i, g) <=> TopologyChecks(i, g)
    BY DEF Checks, TreeOps, TunnelOps, MirrorOps, PathOps, PlainOps, FieldOps, ListOps, LifecycleOps
  <1>2. NoProblem(i, g) <=> Unmoved(i, g) /\ Available(i, g) /\ ~g[Root].ctl
    BY DEF NoProblem, Available, PlainOps, PathOps
  <1>3. \A k : TopologyNode(g, k) <=> Granted(g, k) /\ OpenNode(g, k)
    BY DEF TopologyNode, OpenNode
  <1> QED  BY <1>1, <1>2, <1>3 DEF TopologyChecks, TopologyGate, Entitled

\* The part that a transaction has to carry over to the server's rows.
Agreeing(i, g) == Image(g, DOMAIN i.dep) = i.dep /\ Image(g, DOMAIN i.was) = i.was
Gate(i, g) ==
    /\ i.op \in ListOps => ListGate(i, g)
    /\ i.op = "mtu" => MtuGate(i, g)
    /\ i.op = "police" => PolicingGate(i, g)
    /\ i.op \in RegionOps => RegionGate(i, g)
    /\ i.op \in LifecycleOps => LifecycleGate(i, g)
    /\ i.op \in PathOps => PathGate(i, g) /\ Rest(g, Owns(i)) = i.rest
    /\ PlainOps(i.op) => TopologyGate(i, g)

\* What is checked holds of the captured values and opens the gate.
LEMMA ChecksGate ==
    ASSUME NEW i, NEW g, Checks(i, g)
    PROVE  Agreeing(i, g) /\ Gate(i, g)
  <1>1. \/ i.op \in ListOps \/ i.op = "mtu" \/ i.op = "police" \/ i.op \in RegionOps
        \/ i.op \in LifecycleOps \/ i.op \in PathOps \/ PlainOps(i.op)
    BY DEF PlainOps, FieldOps, RegionOps
  <1>2. Unmoved(i, g)
    BY <1>1, ListParts, MtuParts, PolicingParts, RegionParts, LifecycleParts, PathParts, TopologyParts
  <1>3. i.op \in ListOps => ListGate(i, g)
    BY ListParts
  <1>4. i.op = "mtu" => MtuGate(i, g)
    BY MtuParts
  <1>5. i.op = "police" => PolicingGate(i, g)
    BY PolicingParts
  <1>6. i.op \in RegionOps => RegionGate(i, g)
    BY RegionParts
  <1>7. i.op \in LifecycleOps => LifecycleGate(i, g)
    BY LifecycleParts
  <1>8. i.op \in PathOps => PathGate(i, g) /\ Rest(g, Owns(i)) = i.rest
    BY PathParts
  <1>9. PlainOps(i.op) => TopologyGate(i, g)
    BY TopologyParts
  <1> QED  BY <1>2, <1>3, <1>4, <1>5, <1>6, <1>7, <1>8, <1>9 DEF Agreeing, Unmoved, Gate

(***************************************************************************)
(* What is true of an intent ever since it was staged.                     *)
(***************************************************************************)

StagedField(i) ==
    /\ i.f = FieldOf(i.op) /\ Table(i.key) = Subject(i.op)
    /\ DOMAIN i.was = Cells({i.key}, {"id", i.f}) /\ i.was[<<i.key, "id">>] = {i.id}
    /\ i.ctx \in BOOLEAN /\ IsFunction(i.dep)
    /\ i.op = "mtu" /\ 0 \in {i.before, i.after} => i.ctx
    /\ i.op \in ListOps \cup {"mtu", "police"} =>
          \A g : Schema(g) /\ Agreeing(i, g) => DOMAIN i.dep \subseteq Dependencies(g, i.op, i.key, i.ctx)

\* A change of rows: those it is about were there, and are compared.
StagedRows(i) ==
    /\ DOMAIN i.dep = Cells({Root}, {"id", "ctl", "other"})
    /\ DOMAIN i.was = UNION {Config(k) : k \in DOMAIN i.from}
    /\ \A k \in DOMAIN i.from : i.was[<<k, "id">>] # {}
    /\ i.op \in TunnelOps => \A k \in DOMAIN i.from : Table(k) \in {"Bridge", "Port", "Interface"}

\* The rows that are to go are held together by themselves, and new names are
\* looked up in three tables.
ParentScope(i, g) ==
    {<<Root, "id">>} \cup
    UNION {(Whole(b) \ {<<b, "links">>}) \cup Exact({Local(b)} \cup g[Local(b)].links) : b \in Parents(i)}
StagedLifecycle(i) ==
    /\ \A g : Schema(g) /\ Agreeing(i, g) => DOMAIN i.dep = ParentScope(i, g)
    /\ DOMAIN i.was = Exact(Doomed(i)) \cup Cells(Parents(i), {"ports"})
    /\ \A k \in Doomed(i) : /\ Table(k) \in {"Bridge", "Port", "Interface"}
                            /\ i.from[k].refs = {} /\ i.from[k].links \subseteq Doomed(i)
    /\ Doomed(i) # {} => i.op \in DeletionOps
    /\ i.op \in {"internal.create", "internal.delete"} => BridgesOf(i.to) = Parents(i)
    /\ i.op \in {"bridge.create", "bridge.delete"} => Parents(i) = {}
    /\ \A b \in Parents(i) : Local(b) \notin Doomed(i) /\ InterfaceOf(b) \notin Doomed(i)
    /\ \A k \in Fresh(i), t \in {"Bridge", "Port", "Interface"} :
          <<t, Name(k)>> \in Fresh(i) \cup (Shadowed(i) \ DOMAIN i.from)

Staged(i) ==
    /\ IsFunction(i) /\ DOMAIN i = DOMAIN Blank /\ i.dir = "go"
    /\ i.op \in FieldOps => StagedField(i)
    /\ i.op \in LifecycleOps => StagedLifecycle(i)
    /\ i.op \notin FieldOps \cup LifecycleOps => StagedRows(i)

(***************************************************************************)
(* What a transaction waits for is true of the server when it commits.     *)
(***************************************************************************)

LEMMA CellsWait ==
    ASSUME NEW g, NEW cells, NEW w, w.cells = Image(g, cells), Holds(w)
    PROVE  Agree(g, db, cells)
  <1>1. DOMAIN w.cells = cells
    BY DEF Image
  <1> QED  BY <1>1, ImageAgrees DEF Holds

LEMMA TablesWait ==
    ASSUME NEW g, NEW ts, NEW w, w.tables = Tables(g, ts), Holds(w), NEW t \in ts
    PROVE  SameTable(g, db, t)
  <1>1. Tables(db, {t})[t] = Image(db, WholeOf(Rows(db, t)))
    BY DEF Tables
  <1>2. t \in DOMAIN w.tables /\ w.tables[t] = Image(g, WholeOf(Rows(g, t)))
    BY DEF Tables
  <1> QED  BY <1>1, <1>2 DEF Holds, SameTable

LEMMA NoWaitCells ==
    ASSUME NEW x
    PROVE  /\ [NoWait EXCEPT !.cells = x].cells = x
           /\ [NoWait EXCEPT !.tables = x].tables = x
  BY DEF NoWait

\* Two snapshots in which the captured values are found agree on them.
LEMMA CapturedSame ==
    ASSUME NEW i, NEW g, NEW h, Agreeing(i, g), Agreeing(i, h), NEW k \in DOMAIN g,
           <<k, "id">> \in DOMAIN i.was \cup DOMAIN i.dep
    PROVE  k \in DOMAIN h /\ g[k].id = h[k].id
  <1>1. Agree(g, h, DOMAIN i.dep) /\ Agree(g, h, DOMAIN i.was)
    BY AgreeBoth DEF Agreeing
  <1>2. Col(g, <<k, "id">>) = Col(h, <<k, "id">>)
    BY <1>1 DEF Agree
  <1> QED  BY <1>2, IdCell

LEMMA CapturedPresent ==
    ASSUME NEW i, NEW g, Agreeing(i, g), NEW k, <<k, "id">> \in DOMAIN i.was, i.was[<<k, "id">>] # {}
    PROVE  k \in DOMAIN g
  <1>1. Image(g, DOMAIN i.was)[<<k, "id">>] = Col(g, <<k, "id">>)
    BY DEF Image
  <1>2. Col(g, <<k, "id">>) # {}
    BY <1>1 DEF Agreeing
  <1> QED  BY <1>2 DEF Col

LEMMA AgreeingKept ==
    ASSUME NEW i, NEW g, NEW h, Agreeing(i, g), Agree(g, h, DOMAIN i.dep), Agree(g, h, DOMAIN i.was)
    PROVE  Agreeing(i, h)
  BY AgreeImage DEF Agreeing

\* A field change, once its gate and its captured values have been carried over.
LEMMA FieldAuthority ==
    ASSUME NEW i, StagedField(i), Agreeing(i, db), Agreeing(i, view.rows), Granted(view.rows, i.key)
    PROVE  Granted(db, i.key)
  <1>1. <<i.key, "id">> \in DOMAIN i.was /\ i.was[<<i.key, "id">>] # {}
    BY CellsOf DEF StagedField
  <1>2. i.key \in DOMAIN view.rows
    BY <1>1, CapturedPresent
  <1>3. i.key \in DOMAIN db /\ db[i.key].id = view.rows[i.key].id
    BY <1>1, <1>2, CapturedSame
  <1> QED  BY <1>3 DEF Granted

LEMMA FieldCommitted ==
    ASSUME NEW i, NEW g, Schema(g), Schema(db), i.op \in FieldOps, StagedField(i),
           Agreeing(i, g), Gate(i, g), Holds(Wait(i, g)), Checks(i, view.rows)
    PROVE  Checks(i, db)
  <1>1. Wait(i, g) = FieldWait(i, g)
    BY DEF Wait, FieldOps, ListOps, TreeOps, LifecycleOps
  <1>2. i.key \in DOMAIN g
    <2>1. <<i.key, "id">> \in DOMAIN i.was /\ i.was[<<i.key, "id">>] # {}
      BY CellsOf DEF StagedField
    <2> QED  BY <2>1, CapturedPresent
  <1>3. Agreeing(i, view.rows)
    BY ChecksGate
  <1>4. ASSUME i.op \in ListOps \cup {"mtu", "police"},
               Agree(g, db, Cells({i.key}, {"id", i.f})),
               Agree(g, db, Dependencies(g, i.op, i.key, i.ctx))
        PROVE  Agreeing(i, db)
    <2>1. DOMAIN i.dep \subseteq Dependencies(g, i.op, i.key, i.ctx)
      BY <1>4 DEF StagedField
    <2>2. Agree(g, db, DOMAIN i.dep)
      BY <1>4, <2>1, AgreeSubset
    <2>3. Agree(g, db, DOMAIN i.was)
      BY <1>4 DEF StagedField
    <2> QED  BY <2>2, <2>3, AgreeingKept
  <1>5. CASE i.op \in ListOps
    <2>1. FieldWait(i, g).cells = Image(g, VlanWait(i, g))
      BY <1>5, NoWaitCells DEF FieldWait, ListOps
    <2>2. Agree(g, db, VlanWait(i, g))
      BY <1>1, <2>1, CellsWait
    <2>3. Table(i.key) = "Port" /\ (i.ctx => UsesQinQ(i) \/ i.op = "bond")
      BY <1>5 DEF StagedField, Subject, PortOps, UsesQinQ, ListOps
    <2>4. ListGate(i, g)
      BY <1>5 DEF Gate
    <2>5. /\ ListGate(i, db) /\ Agree(g, db, Cells({i.key}, {"id", i.f}))
          /\ Agree(g, db, Dependencies(g, i.op, i.key, i.ctx))
      BY <1>2, <1>5, <2>2, <2>3, <2>4, ListTransfer
    <2>6. Agreeing(i, db)
      BY <1>4, <1>5, <2>5
    <2>7. Unmoved(i, view.rows) /\ Granted(view.rows, i.key)
      BY <1>5, ListParts
    <2>8. Unmoved(i, db) /\ Granted(db, i.key)
      BY <1>3, <2>6, <2>7, FieldAuthority DEF Unmoved, Agreeing
    <2> QED  BY <1>5, <2>5, <2>8, ListParts
  <1>6. CASE i.op = "mtu"
    <2>1. FieldWait(i, g).cells = Image(g, MtuWait(i, g))
      BY <1>6, NoWaitCells DEF FieldWait, ListOps
    <2>2. Agree(g, db, MtuWait(i, g))
      BY <1>1, <2>1, CellsWait
    <2>3. i.ctx \in BOOLEAN /\ (0 \in {i.before, i.after} => i.ctx)
      BY <1>6 DEF StagedField
    <2>4. MtuGate(i, g)
      BY <1>6 DEF Gate
    <2>5. /\ MtuGate(i, db) /\ Agree(g, db, Cells({i.key}, {"id", i.f}))
          /\ Agree(g, db, Dependencies(g, i.op, i.key, i.ctx))
      BY <1>2, <1>6, <2>2, <2>3, <2>4, MtuTransfer
    <2>6. Agreeing(i, db)
      BY <1>4, <1>6, <2>5
    <2>7. Unmoved(i, view.rows) /\ Granted(view.rows, i.key)
      BY <1>6, MtuParts
    <2>8. Unmoved(i, db) /\ Granted(db, i.key)
      BY <1>3, <2>6, <2>7, FieldAuthority DEF Unmoved, Agreeing
    <2> QED  BY <1>6, <2>5, <2>8, MtuParts
  <1>7. CASE i.op = "police"
    <2>1. FieldWait(i, g).cells = Image(g, PolicingWait(i, g))
      BY <1>7, NoWaitCells DEF FieldWait, ListOps
    <2>2. Agree(g, db, PolicingWait(i, g))
      BY <1>1, <2>1, CellsWait
    <2>4. PolicingGate(i, g)
      BY <1>7 DEF Gate
    <2>5. /\ PolicingGate(i, db) /\ Agree(g, db, Cells({i.key}, {"id", i.f}))
          /\ Agree(g, db, Dependencies(g, i.op, i.key, i.ctx))
      BY <1>2, <1>7, <2>2, <2>4, PolicingTransfer
    <2>6. Agreeing(i, db)
      BY <1>4, <1>7, <2>5
    <2>7. Unmoved(i, view.rows) /\ Granted(view.rows, i.key)
      BY <1>7, PolicingParts
    <2>8. Unmoved(i, db) /\ Granted(db, i.key)
      BY <1>3, <2>6, <2>7, FieldAuthority DEF Unmoved, Agreeing
    <2> QED  BY <1>7, <2>5, <2>8, PolicingParts
  <1>8. CASE i.op \in RegionOps
    <2>1. FieldWait(i, g).tables = Tables(g, FenceTables)
      BY <1>8, NoWaitCells DEF FieldWait, FenceWait, ListOps, RegionOps, TreeOps
    <2>2. \A t \in FenceTables : SameTable(g, db, t)
      BY <1>1, <2>1, TablesWait
    <2>3. RegionGate(i, g)
      BY <1>8 DEF Gate
    <2>4. Rows(g, "Mirror") = {}
      BY <1>8, <2>3 DEF RegionGate, RegionOps, IsolationGate, MulticastGate, TreeGate, Regular
    <2>5. db = g
      BY <2>2, <2>4, WholeFence
    <2>6. Agreeing(i, db) /\ RegionGate(i, db)
      BY <2>3, <2>5
    <2>7. Unmoved(i, view.rows) /\ Granted(view.rows, i.key)
      BY <1>8, RegionParts
    <2>8. Unmoved(i, db) /\ Granted(db, i.key)
      BY <1>3, <2>6, <2>7, FieldAuthority DEF Unmoved, Agreeing
    <2> QED  BY <1>8, <2>6, <2>8, RegionParts
  <1> QED  BY <1>5, <1>6, <1>7, <1>8 DEF FieldOps, RegionOps

(***************************************************************************)
(* Changes of rows.                                                        *)
(***************************************************************************)

LEMMA GraphWaitFields ==
    ASSUME NEW i, NEW g
    PROVE  /\ GraphWait(i, g).cells =
                With(Images(i, g), IF i.op \in MirrorOps THEN MirrorReferences(i, g) ELSE References(i, g))
           /\ GraphWait(i, g).keys = Fresh(i)
           /\ GraphWait(i, g).ids = {i.to[k].id : k \in Fresh(i)}
           /\ i.op \in TunnelOps => GraphWait(i, g).tables = Tables(g, FenceTables)
           /\ i.op \in MirrorOps => GraphWait(i, g).tables = MirrorFence(g)
  <1>1. /\ GraphWait(i, g).cells =
                With(Images(i, g), IF i.op \in MirrorOps THEN MirrorReferences(i, g) ELSE References(i, g))
        /\ GraphWait(i, g).keys = Fresh(i)
        /\ GraphWait(i, g).ids = {i.to[k].id : k \in Fresh(i)}
    BY DEF GraphWait, NoWait
  <1>2. GraphWait(i, g).tables = CASE i.op \in TunnelOps -> Tables(g, FenceTables)
                                   [] i.op \in MirrorOps -> MirrorFence(g)
                                   [] OTHER -> <<>>
    BY DEF GraphWait, NoWait
  <1>3. i.op \in TunnelOps => i.op \notin MirrorOps
    BY DEF TunnelOps, MirrorOps
  <1> QED  BY <1>1, <1>2, <1>3

LEMMA OverlaidWait ==
    ASSUME NEW g, NEW a, NEW cells, NEW w, w.cells = With(Image(g, cells), a), Holds(w),
           NEW c \in cells, c \notin DOMAIN a
    PROVE  Col(g, c) = Col(db, c)
  <1>1. c \in DOMAIN w.cells /\ w.cells[c] = Col(g, c)
    BY DEF Image, With
  <1>2. Image(db, DOMAIN w.cells)[c] = Col(db, c)
    BY <1>1 DEF Image
  <1> QED  BY <1>1, <1>2 DEF Holds

LEMMA FieldNames ==
    ASSUME NEW k, IsKey(k)
    PROVE  Fields(Table(k)) \subseteq CfgColumns
  BY FieldsOfTables DEF IsKey, CfgColumns

LEMMA RowsWait ==
    ASSUME NEW i, NEW g, Schema(g), DOMAIN i.from \subseteq DOMAIN g, Holds(GraphWait(i, g)),
           NEW k \in DOMAIN i.from \cup {Root}
    PROVE  Agree(g, db, Whole(k))
  <1> DEFINE a == IF i.op \in MirrorOps THEN MirrorReferences(i, g) ELSE References(i, g)
             cells == Whole(Root) \cup WholeOf(DOMAIN i.from)
  <1>1. GraphWait(i, g).cells = With(Image(g, cells), a)
    BY GraphWaitFields DEF Images
  <1>2. DOMAIN a = Cells(DOMAIN i.from, {"heldall"})
    BY DEF MirrorReferences, References, Image
  <1>3. IsKey(k)
    BY TypedRow DEF Schema, Typed
  <1>4. \A c \in Whole(k) : c \in cells /\ c \notin DOMAIN a
    <2>1. Whole(k) \subseteq cells
      BY DEF WholeOf
    <2>2. \A c \in Whole(k) : c[2] # "heldall"
      BY <1>3, FieldNames DEF Whole, Labels, CfgColumns
    <2> QED  BY <1>2, <2>1, <2>2, CellsOf
  <1> HIDE DEF a, cells
  <1> QED  BY <1>1, <1>4, OverlaidWait DEF Agree

LEMMA RowsSame ==
    ASSUME NEW g, NEW h, Schema(g), Schema(h), NEW k \in DOMAIN g, Agree(g, h, Whole(k))
    PROVE  k \in DOMAIN h /\ g[k] = h[k]
  <1>1. Col(g, <<k, "id">>) = Col(h, <<k, "id">>)
    BY WholeCells DEF Agree
  <1>2. k \in DOMAIN h
    BY <1>1, IdCell
  <1>3. IsKey(k) /\ IsRow(k, g[k]) /\ IsRow(k, h[k])
    BY <1>2, TypedRow DEF Schema
  <1> QED  BY <1>2, <1>3, RowFromCells

\* New rows are new to the server, too.
LEMMA FreshAvailable ==
    ASSUME NEW i, NEW w, Holds(w), Fresh(i) \subseteq w.keys, {i.to[k].id : k \in Fresh(i)} \subseteq w.ids,
           i.dir = "go", i.op \notin LifecycleOps, Available(i, view.rows)
    PROVE  Available(i, db)
  <1>1. \A k \in Fresh(i) : k \notin DOMAIN db /\ i.to[k].id \notin Present(db)
    BY DEF Holds
  <1>2. \A k \in Fresh(i) : i.to[k].id \notin view.gone
    BY DEF Available, Creatable
  <1> QED  BY <1>1, <1>2 DEF Available, Creatable, Removed

LEMMA RowsCommitted ==
    ASSUME NEW i, NEW g, Schema(g), Schema(db), i.op \notin FieldOps \cup LifecycleOps, StagedRows(i),
           i.dir = "go", Agreeing(i, g), Holds(GraphWait(i, g)),
           Unmoved(i, view.rows), Available(i, view.rows), Entitled(i, view.rows)
    PROVE  /\ Unmoved(i, db) /\ Available(i, db) /\ Entitled(i, db) /\ Agreeing(i, db)
           /\ DOMAIN i.from \subseteq DOMAIN g
           /\ \A k \in DOMAIN i.from \cup {Root} : k \in DOMAIN db /\ db[k] = g[k]
  <1>1. \A k \in DOMAIN i.from : <<k, "id">> \in DOMAIN i.was /\ i.was[<<k, "id">>] # {}
    BY DEF StagedRows, Config, Whole, Cells
  <1>2. Agreeing(i, view.rows)
    BY DEF Unmoved, Agreeing
  <1>3. DOMAIN i.from \subseteq DOMAIN g /\ DOMAIN i.from \subseteq DOMAIN view.rows
    BY <1>1, <1>2, CapturedPresent
  <1>4. \A k \in DOMAIN i.from \cup {Root} : Agree(g, db, Whole(k))
    BY <1>3, RowsWait
  <1>5. \A k \in DOMAIN i.from \cup {Root} : k \in DOMAIN db /\ db[k] = g[k]
    <2>1. Root \in DOMAIN g
      BY DEF Schema, Typed
    <2> QED  BY <1>3, <1>4, <2>1, RowsSame
  <1>6. Agree(g, db, DOMAIN i.dep)
    <2>1. DOMAIN i.dep \subseteq Whole(Root)
      BY FieldsOfTables DEF StagedRows, Cells, Whole, Labels, Root, Table
    <2> QED  BY <1>4, <2>1, AgreeSubset
  <1>7. Agree(g, db, DOMAIN i.was)
    BY <1>4 DEF Agree, StagedRows, Config
  <1>8. Agreeing(i, db)
    BY <1>6, <1>7, AgreeingKept
  <1>9. Unmoved(i, db)
    BY <1>8 DEF Unmoved, Agreeing
  <1>10. Available(i, db)
    BY GraphWaitFields, FreshAvailable
  <1>11. Entitled(i, db)
    <2>1. ASSUME NEW k \in DOMAIN i.from PROVE db[k].id = view.rows[k].id
      <3>1. k \in DOMAIN view.rows /\ <<k, "id">> \in DOMAIN i.was
        BY <1>1, <1>3
      <3> QED  BY <1>2, <1>8, <3>1, CapturedSame
    <2> QED  BY <2>1 DEF Entitled, Granted
  <1> QED  BY <1>3, <1>5, <1>8, <1>9, <1>10, <1>11

LEMMA TopologyCommitted ==
    ASSUME NEW i, NEW g, Schema(g), Schema(db), PlainOps(i.op), StagedRows(i), i.dir = "go",
           Agreeing(i, g), Gate(i, g), Holds(Wait(i, g)), Checks(i, view.rows)
    PROVE  Checks(i, db)
  <1>1. Wait(i, g) = GraphWait(i, g) /\ i.op \notin FieldOps \cup LifecycleOps
    BY DEF Wait, PlainOps
  <1>2. TopologyGate(i, g)
    BY DEF Gate
  <1>3. Unmoved(i, view.rows) /\ Available(i, view.rows) /\ Entitled(i, view.rows)
    BY TopologyParts
  <1>4. /\ Unmoved(i, db) /\ Available(i, db) /\ Entitled(i, db)
        /\ \A k \in DOMAIN i.from \cup {Root} : db[k] = g[k]
    BY <1>1, <1>3, RowsCommitted
  <1>5. TopologyGate(i, db)
    BY <1>2, <1>4 DEF TopologyGate, OpenNode, Mirrors, Ports
  <1> QED  BY <1>4, <1>5, TopologyParts

LEMMA MirrorCommitted ==
    ASSUME NEW i, NEW g, Schema(g), Schema(db), i.op \in MirrorOps, StagedRows(i), i.dir = "go",
           Agreeing(i, g), Gate(i, g), Holds(Wait(i, g)), Checks(i, view.rows)
    PROVE  Checks(i, db)
  <1>1. Wait(i, g) = GraphWait(i, g) /\ i.op \notin FieldOps \cup LifecycleOps /\ i.op \in PathOps
    BY DEF Wait, MirrorOps, FieldOps, ListOps, TreeOps, LifecycleOps, PathOps
  <1>2. PathGate(i, g) /\ Rest(g, Owns(i)) = i.rest
    BY <1>1 DEF Gate
  <1>3. Unmoved(i, view.rows) /\ Available(i, view.rows) /\ Entitled(i, view.rows)
    BY <1>1, PathParts
  <1>4. Unmoved(i, db) /\ Available(i, db) /\ Entitled(i, db)
    BY <1>1, <1>3, RowsCommitted
  <1>5. \A t \in FenceTables \cup {"Mirror"} : SameTable(g, db, t)
    BY <1>1, GraphWaitFields, TablesWait DEF MirrorFence
  <1>6. g = db
    BY <1>5, WholeFence
  <1> QED  BY <1>1, <1>2, <1>4, <1>6, PathParts

\* The parts of an intent that the two exceptions leave alone.
LEMMA InsistedFields ==
    ASSUME NEW i, NEW g, DOMAIN i = DOMAIN Blank
    PROVE  LET j == Insisted(i, g) IN
           /\ j.op = i.op /\ j.key = i.key /\ j.gen = i.gen /\ j.dir = i.dir /\ j.dep = i.dep
           /\ j.from = i.from /\ j.to = i.to /\ j.spare = i.spare /\ j.old = i.old
           /\ j.was = [c \in DOMAIN i.was |-> IF i.op \in DeletionOps /\ c[1] \in Doomed(i)
                                              THEN Col(i.from, c) ELSE i.was[c]]
           /\ j.rest = IF i.op \in TunnelOps
                       THEN With(Sub(Rest(g, Owns(i)), OfMirrors(Rest(g, Owns(i)))),
                                 Sub(i.rest, DOMAIN i.rest \ OfMirrors(i.rest)))
                       ELSE i.rest
  BY BlankFields DEF Insisted

LEMMA InsistedSame ==
    ASSUME NEW i, NEW g, IsFunction(i), DOMAIN i = DOMAIN Blank, NEW h, Agreeing(i, h),
           i.op \notin DeletionOps \cup TunnelOps
    PROVE  Insisted(i, g) = i
  <1>1. Insisted(i, g) = [i EXCEPT !.was = [c \in DOMAIN i.was |-> i.was[c]], !.rest = i.rest]
    BY BlankFields DEF Insisted
  <1>2. i.was = [c \in DOMAIN i.was |-> i.was[c]]
    BY DEF Agreeing, Image
  <1>3. [i EXCEPT !.was = i.was, !.rest = i.rest] = [x \in DOMAIN i |-> i[x]]
    OBVIOUS
  <1> QED  BY <1>1, <1>2, <1>3 DEF IsFunction

\* The rows are the same, mirrors aside.
Alike(g, h) ==
    /\ DOMAIN g = DOMAIN h
    /\ \A k \in DOMAIN g : /\ Table(k) # "Mirror" => g[k] = h[k]
                           /\ g[k].id = h[k].id /\ g[k].links = h[k].links

LEMMA AlikeHolders ==
    ASSUME NEW g, NEW h, Alike(g, h), NEW k
    PROVE  Holders(g, k) = Holders(h, k)
  BY DEF Alike, Holders

LEMMA AlikeInterface ==
    ASSUME NEW g, NEW h, Alike(g, h), NEW k \in DOMAIN g, Table(k) = "Interface", CleanInterface(g, k)
    PROVE  CleanInterface(h, k)
  <1>1. g[k] = h[k]
    BY DEF Alike
  <1> QED  BY <1>1 DEF CleanInterface, Plain, Tunnelled

LEMMA AlikePort ==
    ASSUME NEW g, NEW h, Typed(g), Alike(g, h), NEW k \in DOMAIN g, Table(k) = "Port", CleanPort(g, k)
    PROVE  CleanPort(h, k)
  <1>1. g[k] = h[k]
    BY DEF Alike
  <1>2. ASSUME NEW x \in g[k].links PROVE CleanInterface(h, x) /\ Holders(h, x) = {k}
    <2>1. x \in DOMAIN g /\ Table(x) = "Interface"
      BY LinkTables
    <2>2. CleanInterface(g, x) /\ Holders(g, x) = {k}
      BY DEF CleanPort
    <2> QED  BY <2>1, <2>2, AlikeInterface, AlikeHolders
  <1> QED  BY <1>1, <1>2 DEF CleanPort

LEMMA AlikeBridge ==
    ASSUME NEW g, NEW h, Typed(g), Alike(g, h), NEW k \in DOMAIN g, Table(k) = "Bridge", CleanBridge(g, k)
    PROVE  CleanBridge(h, k)
  <1>1. g[k] = h[k] /\ Ports(g, k) = Ports(h, k)
    BY DEF Alike, Ports
  <1>2. ASSUME NEW p \in Ports(g, k) PROVE CleanPort(h, p) /\ Holders(h, p) = {k}
    <2>1. p \in DOMAIN g /\ Table(p) = "Port"
      BY LinkTables DEF Ports
    <2>2. CleanPort(g, p) /\ Holders(g, p) = {k}
      BY DEF CleanBridge
    <2> QED  BY <2>1, <2>2, AlikePort, AlikeHolders
  <1>3. LocalInternal(h, k)
    <2>1. LocalInternal(g, k)
      BY DEF CleanBridge
    <2>2. Local(k) \in Ports(g, k) /\ Local(k) \in DOMAIN g /\ Table(Local(k)) = "Port"
      BY <2>1, LinkTables DEF LocalInternal, Ports
    <2>3. PICK x \in DOMAIN g : g[Local(k)].links = {x} /\ g[x].cfg.type = "internal"
      BY <2>1 DEF LocalInternal
    <2>4. Table(x) = "Interface"
      BY <2>2, <2>3, LinkTables
    <2>5. x \in DOMAIN h /\ h[Local(k)].links = {x} /\ h[x].cfg.type = "internal"
      BY <2>2, <2>3, <2>4 DEF Alike
    <2> QED  BY <1>1, <2>2, <2>5 DEF LocalInternal
  <1> QED  BY <1>1, <1>2, <1>3 DEF CleanBridge

LEMMA AlikeNode ==
    ASSUME NEW g, NEW h, Typed(g), Alike(g, h), NEW k \in DOMAIN g,
           Table(k) \in {"Bridge", "Port", "Interface"}, ClearNode(g, k, TRUE)
    PROVE  ClearNode(h, k, TRUE)
  <1>1. CASE Table(k) = "Interface"
    BY <1>1, AlikeInterface DEF ClearNode
  <1>2. CASE Table(k) = "Port"
    BY <1>2, AlikePort DEF ClearNode
  <1>3. CASE Table(k) = "Bridge"
    <2>1. CleanBridge(g, k) /\ Mirrors(g, k) = {}
      BY <1>3 DEF ClearNode
    <2>2. CleanBridge(h, k) /\ Mirrors(h, k) = {}
      BY <1>3, <2>1, AlikeBridge DEF Mirrors, Ports, Alike
    <2> QED  BY <1>3, <2>2 DEF ClearNode
  <1> QED  BY <1>1, <1>2, <1>3

LEMMA AlikeIdentity ==
    ASSUME NEW g, NEW h, Alike(g, h), NEW k, NEW v, IdentityFree(g, k, v)
    PROVE  IdentityFree(h, k, v)
  <1>1. ASSUME NEW j \in Rows(h, "Interface") PROVE j \in Rows(g, "Interface") /\ g[j] = h[j]
    BY DEF Rows, Alike
  <1> QED  BY <1>1 DEF IdentityFree, Tunnelled

\* Columns other than the back references are those of the row.
LEMMA SameRowCell ==
    ASSUME NEW g, NEW h, Typed(g), NEW k \in DOMAIN g, k \in DOMAIN h, g[k] = h[k],
           \A j \in DOMAIN g : g[j].id = h[j].id, NEW f, f \notin {"held", "heldall"}
    PROVE  Col(g, <<k, f>>) = Col(h, <<k, f>>)
  <1>1. g[k].links \subseteq DOMAIN g /\ g[k].refs \subseteq DOMAIN g
    BY TypedRow
  <1>2. Pairs(g, g[k].links) = Pairs(h, h[k].links)
    BY <1>1, SamePairs
  <1>3. Pairs(g, g[k].refs) = Pairs(h, h[k].refs)
    BY <1>1, SamePairs
  <1>4. Pairs(g, {j \in g[k].links : Table(j) = "Port"}) = Pairs(h, {j \in h[k].links : Table(j) = "Port"})
    BY <1>1, SamePairs
  <1>5. Value(g, k, f) = Value(h, k, f)
    BY <1>2, <1>3, <1>4 DEF Value
  <1> QED  BY <1>5 DEF Col

\* What is left of a captured rest when mirrors are taken from the server.
LEMMA AlikeRest ==
    ASSUME NEW g, NEW h, Typed(g), Alike(g, h), NEW o
    PROVE  Rest(h, o) = With(Sub(Rest(h, o), OfMirrors(Rest(h, o))),
                             Sub(Rest(g, o), DOMAIN Rest(g, o) \ OfMirrors(Rest(g, o))))
  <1> DEFINE cells == UNION {Config(k) : k \in DOMAIN g \ (o \cup {Root})}
             apart == {c \in cells : Table(c[1]) = "Mirror"}
  <1>1. Rest(g, o) = [c \in cells |-> Col(g, c)] /\ Rest(h, o) = [c \in cells |-> Col(h, c)]
    BY DEF Rest, Image, Alike
  <1>2. OfMirrors(Rest(g, o)) = apart /\ OfMirrors(Rest(h, o)) = apart
    BY <1>1 DEF OfMirrors
  <1>3. ASSUME NEW c \in cells \ apart PROVE Col(g, c) = Col(h, c)
    <2>1. PICK k \in DOMAIN g \ (o \cup {Root}) : c \in Config(k)
      OBVIOUS
    <2>2. c[1] = k /\ c = <<k, c[2]>> /\ IsKey(k)
      BY <2>1, TypedRow DEF Config, Whole
    <2>3. c[2] \notin {"held", "heldall"}
      BY <2>1, <2>2, FieldNames DEF Config, Whole, Labels, CfgColumns
    <2>4. Table(k) # "Mirror"
      BY <1>3, <2>2
    <2>5. g[k] = h[k] /\ k \in DOMAIN h /\ \A j \in DOMAIN g : g[j].id = h[j].id
      BY <2>4 DEF Alike
    <2> QED  BY <2>2, <2>3, <2>5, SameRowCell
  <1> HIDE DEF cells
  <1>4. apart \subseteq cells
    OBVIOUS
  <1> HIDE DEF apart
  <1>5. Sub(Rest(h, o), OfMirrors(Rest(h, o))) = [c \in apart |-> Col(h, c)]
    BY <1>1, <1>2, <1>4 DEF Sub
  <1>6. Sub(Rest(g, o), DOMAIN Rest(g, o) \ OfMirrors(Rest(g, o))) = [c \in cells \ apart |-> Col(g, c)]
    BY <1>1, <1>2, <1>4 DEF Sub
  <1>7. With([c \in apart |-> Col(h, c)], [c \in cells \ apart |-> Col(g, c)]) = [c \in cells |-> Col(h, c)]
    BY <1>3, <1>4 DEF With
  <1> QED  BY <1>1, <1>5, <1>6, <1>7

LEMMA TunnelCommitted ==
    ASSUME NEW i, NEW g, Schema(g), Schema(db), i.op \in TunnelOps, StagedRows(i), i.dir = "go",
           DOMAIN i = DOMAIN Blank,
           Agreeing(i, g), Gate(i, g), Holds(Wait(i, g)), Checks(i, view.rows)
    PROVE  Checks(Insisted(i, db), db)
  <1> DEFINE j == Insisted(i, db)
  <1>1. Wait(i, g) = GraphWait(i, g) /\ i.op \notin FieldOps \cup LifecycleOps /\ i.op \in PathOps
    BY DEF Wait, TunnelOps, FieldOps, ListOps, TreeOps, LifecycleOps, PathOps
  <1>2. PathGate(i, g) /\ Rest(g, Owns(i)) = i.rest
    BY <1>1 DEF Gate
  <1>3. Unmoved(i, view.rows) /\ Available(i, view.rows) /\ Entitled(i, view.rows)
    BY <1>1, PathParts
  <1>4. /\ Unmoved(i, db) /\ Available(i, db) /\ Entitled(i, db) /\ Agreeing(i, db)
        /\ DOMAIN i.from \subseteq DOMAIN g
    BY <1>1, <1>3, RowsCommitted
  <1>5. Alike(g, db)
    <2>1. \A t \in FenceTables : SameTable(g, db, t)
      BY <1>1, GraphWaitFields, TablesWait
    <2> QED  BY <2>1, FourTables DEF Alike
  <1>6. Typed(g) /\ Root \in DOMAIN g /\ g[Root] = db[Root]
    BY <1>5 DEF Schema, Typed, Alike, Root, Table
  <1>7. /\ j.op = i.op /\ j.gen = i.gen /\ j.dir = i.dir /\ j.dep = i.dep /\ j.from = i.from
        /\ j.to = i.to /\ j.old = i.old
    BY InsistedFields
  <1>8. j.was = i.was
    <2>1. i.op \notin DeletionOps
      BY DEF DeletionOps, TunnelOps
    <2>2. j.was = [c \in DOMAIN i.was |-> i.was[c]]
      BY <2>1, InsistedFields
    <2> QED  BY <2>2 DEF Agreeing, Image
  <1>9. j.rest = Rest(db, Owns(j))
    <2>1. j.rest = With(Sub(Rest(db, Owns(i)), OfMirrors(Rest(db, Owns(i)))),
                        Sub(i.rest, DOMAIN i.rest \ OfMirrors(i.rest)))
      BY InsistedFields
    <2>2. j.rest = Rest(db, Owns(i))
      BY <1>2, <1>5, <1>6, <2>1, AlikeRest
    <2> QED  BY <1>7, <2>2 DEF Owns
  <1>10. PathGate(j, db)
    <2>1. ~db[Root].ctl /\ db[Root].cfg.other = 0
      BY <1>2, <1>6 DEF PathGate
    <2>2. TunnelFits(j, db)
      <3>1. TunnelFits(i, g)
        BY <1>2 DEF PathGate
      <3> QED  BY <1>5, <1>7, <3>1, AlikeIdentity DEF TunnelFits
    <2>3. j.op \in TunnelOps /\ j.op \notin MirrorOps
      BY <1>7 DEF TunnelOps, MirrorOps
    <2>4. ASSUME NEW k \in DOMAIN i.from PROVE ClearNode(db, k, TRUE)
      <3>1. ClearNode(g, k, TRUE)
        BY <1>2 DEF PathGate
      <3>2. Table(k) \in {"Bridge", "Port", "Interface"}
        BY DEF StagedRows
      <3> QED  BY <1>4, <1>5, <1>6, <3>1, <3>2, AlikeNode
    <2>5. \A k \in DOMAIN j.from : ClearNode(db, k, j.op \in TunnelOps)
      BY <1>7, <2>3, <2>4
    <2> QED  BY <2>1, <2>2, <2>3, <2>5 DEF PathGate
  <1>11. Unmoved(j, db)
    BY <1>4, <1>7, <1>8 DEF Unmoved
  <1>12. Available(j, db)
    <2>1. Fresh(j) = Fresh(i)
      BY <1>7 DEF Fresh
    <2> QED  BY <1>4, <1>7, <2>1 DEF Available, Removed, Creatable
  <1>13. Entitled(j, db)
    BY <1>4, <1>7 DEF Entitled
  <1>14. j.op \in PathOps
    BY <1>1, <1>7
  <1> HIDE DEF j
  <1>15. Checks(j, db)
    BY <1>9, <1>10, <1>11, <1>12, <1>13, <1>14, PathParts
  <1> QED  BY <1>15 DEF j

(***************************************************************************)
(* Changes of whole graphs: bridges and internal ports.                    *)
(***************************************************************************)

LEMMA WaitedCell ==
    ASSUME NEW w, Holds(w), NEW c \in DOMAIN w.cells
    PROVE  Col(db, c) = w.cells[c]
  <1>1. Image(db, DOMAIN w.cells)[c] = Col(db, c)
    BY DEF Image
  <1> QED  BY <1>1 DEF Holds

LEMMA BridgeWaitFields ==
    ASSUME NEW i, NEW g
    PROVE  /\ BridgeWait(i, g).cells = With(Image(g, Labelled({Root})), GraphGuards(i, g))
           /\ BridgeWait(i, g).keys = Fresh(i)
           /\ BridgeWait(i, g).ids = {i.to[k].id : k \in Fresh(i)} \cup DeletedSources(i)
           /\ DOMAIN BridgeWait(i, g) = DOMAIN NoWait
  BY DEF BridgeWait, NoWait

LEMMA InternalWaitFields ==
    ASSUME NEW i, NEW g
    PROVE  /\ InternalPortWait(i, g).cells = With(Image(g, ParentGuards(i, g)), BridgeWait(i, g).cells)
           /\ InternalPortWait(i, g).keys = Fresh(i) \cup (Shadowed(i) \ DOMAIN i.from)
           /\ InternalPortWait(i, g).ids = BridgeWait(i, g).ids
  <1>1. "cells" \in DOMAIN BridgeWait(i, g) /\ "keys" \in DOMAIN BridgeWait(i, g)
    BY BridgeWaitFields DEF NoWait
  <1> QED  BY <1>1, BridgeWaitFields DEF InternalPortWait

LEMMA WithDomain ==
    ASSUME NEW f, NEW h
    PROVE  DOMAIN With(f, h) = DOMAIN f \cup DOMAIN h
  BY DEF With
LEMMA WithOver ==
    ASSUME NEW f, NEW h, NEW x \in DOMAIN h
    PROVE  With(f, h)[x] = h[x]
  BY DEF With
LEMMA WithUnder ==
    ASSUME NEW f, NEW h, NEW x \in DOMAIN f, x \notin DOMAIN h
    PROVE  With(f, h)[x] = f[x]
  BY DEF With

LEMMA WholeOfCells ==
    ASSUME NEW ks
    PROVE  /\ \A c \in WholeOf(ks) : c[1] \in ks /\ c = <<c[1], c[2]>>
           /\ \A k \in ks : Whole(k) \subseteq WholeOf(ks)
  BY DEF WholeOf, Whole

\* The doomed rows, as the transaction expects them.
Expected(i, g) == With(g, Sub(i.from, Doomed(i)))

LEMMA GuardedCells ==
    ASSUME NEW i, NEW g
    PROVE  /\ \A c \in DOMAIN GraphGuards(i, g) : c[1] \in Doomed(i)
           /\ \A c \in WholeOf(Doomed(i)) :
                c[2] # "heldall" => c \in DOMAIN GraphGuards(i, g)
                                    /\ GraphGuards(i, g)[c] = Col(Expected(i, g), c)
  <1> DEFINE own == With(i.from, Sub(g, {Root}))
             a == Image(Expected(i, g), WholeOf(Doomed(i)))
             b == [c \in Cells(Doomed(i), {"heldall"}) |-> {Value(own, c[1], "held")}]
  <1>1. GraphGuards(i, g) = With(a, b)
    BY DEF GraphGuards, Expected
  <1>2. DOMAIN a = WholeOf(Doomed(i)) /\ \A c \in WholeOf(Doomed(i)) : a[c] = Col(Expected(i, g), c)
    BY DEF Image
  <1>3. DOMAIN b = Cells(Doomed(i), {"heldall"})
    OBVIOUS
  <1> HIDE DEF a, b
  <1>4. DOMAIN GraphGuards(i, g) = WholeOf(Doomed(i)) \cup Cells(Doomed(i), {"heldall"})
    BY <1>1, <1>2, <1>3, WithDomain, WithOver, WithUnder
  <1>5. \A c \in DOMAIN GraphGuards(i, g) : c[1] \in Doomed(i)
    BY <1>4, WholeOfCells, CellsOf
  <1>6. ASSUME NEW c \in WholeOf(Doomed(i)), c[2] # "heldall"
        PROVE  c \in DOMAIN GraphGuards(i, g) /\ GraphGuards(i, g)[c] = Col(Expected(i, g), c)
    <2>1. c \notin DOMAIN b
      BY <1>3, <1>6, CellsOf
    <2> QED  BY <1>1, <1>2, <1>4, <2>1, WithDomain, WithOver, WithUnder
  <1> QED  BY <1>5, <1>6

LEMMA LifecycleWaitOf ==
    ASSUME NEW i, NEW g, i.op \in LifecycleOps
    PROVE  /\ i.op \in {"bridge.create", "bridge.delete"} => Wait(i, g) = BridgeWait(i, g)
           /\ i.op \in {"internal.create", "internal.delete"} => Wait(i, g) = InternalPortWait(i, g)
  <1>1. Wait(i, g) = LifecycleWait(i, g)
    BY DEF Wait, FieldOps, ListOps, TreeOps, LifecycleOps
  <1> QED  BY <1>1 DEF LifecycleWait

\* Cells of the root, of the doomed rows, and of the parents.
LEMMA LifecycleCells ==
    ASSUME NEW i, NEW g, i.op \in LifecycleOps, Holds(Wait(i, g)), Root \notin Doomed(i)
    PROVE  /\ \A c \in Labelled({Root}) : Col(db, c) = Col(g, c)
           /\ \A c \in WholeOf(Doomed(i)) : c[2] # "heldall" => Col(db, c) = Col(Expected(i, g), c)
           /\ i.op \in {"internal.create", "internal.delete"} =>
                \A c \in ParentGuards(i, g) : c[1] \notin Doomed(i) \cup {Root} => Col(db, c) = Col(g, c)
  <1> DEFINE a == Image(g, Labelled({Root}))
             w == Wait(i, g)
             inner == BridgeWait(i, g).cells
  <1>1. inner = With(a, GraphGuards(i, g))
    BY BridgeWaitFields
  <1>2. DOMAIN a = Labelled({Root}) /\ \A c \in Labelled({Root}) : a[c] = Col(g, c)
    BY DEF Image
  <1>3. \A c \in Labelled({Root}) : c[1] = Root
    BY CellsOf DEF Labelled
  <1>g. /\ \A c \in DOMAIN GraphGuards(i, g) : c[1] \in Doomed(i)
        /\ \A c \in WholeOf(Doomed(i)) :
             c[2] # "heldall" => c \in DOMAIN GraphGuards(i, g)
                                 /\ GraphGuards(i, g)[c] = Col(Expected(i, g), c)
    BY GuardedCells
  <1> HIDE DEF a, inner
  <1>h. /\ DOMAIN inner = Labelled({Root}) \cup DOMAIN GraphGuards(i, g)
        /\ \A c \in DOMAIN GraphGuards(i, g) : inner[c] = GraphGuards(i, g)[c]
        /\ \A c \in Labelled({Root}) \ DOMAIN GraphGuards(i, g) : inner[c] = a[c]
    BY <1>1, <1>2 DEF With
  <1>4. \A c \in Labelled({Root}) : c \in DOMAIN inner /\ inner[c] = Col(g, c)
    BY <1>2, <1>3, <1>g, <1>h
  <1>5. \A c \in WholeOf(Doomed(i)) :
            c[2] # "heldall" => c \in DOMAIN inner /\ inner[c] = Col(Expected(i, g), c)
    BY <1>g, <1>h
  <1>6. \A c \in DOMAIN inner : c[1] \in Doomed(i) \cup {Root}
    BY <1>2, <1>3, <1>g, <1>h
  <1>7. \A c \in DOMAIN inner : c \in DOMAIN w.cells /\ w.cells[c] = inner[c]
    <2>1. CASE i.op \in {"bridge.create", "bridge.delete"}
      BY <2>1, LifecycleWaitOf DEF inner
    <2>2. CASE i.op \in {"internal.create", "internal.delete"}
      <3>1. w.cells = With(Image(g, ParentGuards(i, g)), inner)
        BY <2>2, LifecycleWaitOf, InternalWaitFields DEF inner
      <3> QED  BY <3>1 DEF With
    <2> QED  BY <2>1, <2>2 DEF LifecycleOps
  <1>8. \A c \in DOMAIN inner : Col(db, c) = inner[c]
    BY <1>7, WaitedCell
  <1>9. ASSUME i.op \in {"internal.create", "internal.delete"}, NEW c \in ParentGuards(i, g),
               c[1] \notin Doomed(i) \cup {Root}
        PROVE  Col(db, c) = Col(g, c)
    <2>1. w.cells = With(Image(g, ParentGuards(i, g)), inner)
      BY <1>9, LifecycleWaitOf, InternalWaitFields DEF inner
    <2>2. c \notin DOMAIN inner
      BY <1>6, <1>9
    <2>3. c \in DOMAIN Image(g, ParentGuards(i, g)) /\ Image(g, ParentGuards(i, g))[c] = Col(g, c)
      BY DEF Image
    <2>4. c \in DOMAIN w.cells /\ w.cells[c] = Col(g, c)
      BY <2>1, <2>2, <2>3 DEF With
    <2> HIDE DEF w
    <2> QED  BY <2>4, WaitedCell DEF w
  <1> QED  BY <1>4, <1>5, <1>8, <1>9

LEMMA LifecycleNames ==
    ASSUME NEW i, NEW g, i.op \in LifecycleOps, StagedLifecycle(i), i.dir = "go", Holds(Wait(i, g)),
           Schema(db), Available(i, view.rows)
    PROVE  Available(i, db)
  <1> DEFINE w == Wait(i, g)
  <1>1. Fresh(i) \subseteq w.keys /\ {i.to[k].id : k \in Fresh(i)} \subseteq w.ids
    <2>1. CASE i.op \in {"bridge.create", "bridge.delete"}
      BY <2>1, LifecycleWaitOf, BridgeWaitFields
    <2>2. CASE i.op \in {"internal.create", "internal.delete"}
      BY <2>2, LifecycleWaitOf, BridgeWaitFields, InternalWaitFields
    <2> QED  BY <2>1, <2>2 DEF LifecycleOps
  <1>2. Shadowed(i) \ DOMAIN i.from \subseteq w.keys
    <2>1. CASE i.op \in {"bridge.create", "bridge.delete"}
      BY <2>1 DEF StagedLifecycle, Shadowed
    <2>2. CASE i.op \in {"internal.create", "internal.delete"}
      BY <2>2, LifecycleWaitOf, InternalWaitFields
    <2> QED  BY <2>1, <2>2 DEF LifecycleOps
  <1> HIDE DEF w
  <1>3. w.keys \cap DOMAIN db = {} /\ w.ids \cap Present(db) = {}
    BY DEF Holds, w
  <1>4. ASSUME NEW k \in Fresh(i) PROVE Creatable(i, db, k)
    <2>1. i.to[k].id \notin Present(db) /\ i.to[k].id \notin view.gone
      BY <1>1, <1>3 DEF Available, Creatable
    <2>2. ASSUME NEW x \in DOMAIN db, Table(x) \notin {"Root", "Mirror"} PROVE Name(x) # Name(k)
      <3>1. x = <<Table(x), Name(x)>> /\ Table(x) \in {"Bridge", "Port", "Interface"}
        BY <2>2, TypedRow DEF Schema, IsKey
      <3>2. \A t \in {"Bridge", "Port", "Interface"} : <<t, Name(k)>> \in w.keys
        BY <1>1, <1>2 DEF StagedLifecycle
      <3> QED  BY <1>3, <3>1, <3>2
    <2>3. NameFree(db, Name(k))
      BY <2>2 DEF NameFree
    <2> QED  BY <2>1, <2>3 DEF Creatable
  <1> QED  BY <1>4 DEF Available, Removed

\* The parent bridge of an internal port is as the transaction saw it.
LEMMA ParentSame ==
    ASSUME NEW i, NEW g, Schema(g), Schema(db), i.op \in {"internal.create", "internal.delete"},
           StagedLifecycle(i), Holds(Wait(i, g)), NEW b \in Parents(i), InternalParent(g, b)
    PROVE  /\ InternalParent(db, b) /\ b \in DOMAIN db
           /\ Agree(g, db, Whole(b) \ {<<b, "links">>})
           /\ Agree(g, db, Cells({b}, {"ports"}))
           /\ Agree(g, db, Exact({Local(b)} \cup g[Local(b)].links))
  <1> DEFINE p == Local(b)
             x == InterfaceOf(b)
  <1>1. Table(b) = "Bridge" /\ Table(p) = "Port" /\ Table(x) = "Interface"
    BY DEF Parents, Local, PortOf, InterfaceOf, Table
  <1>2. b \notin Doomed(i) /\ p \notin Doomed(i) /\ x \notin Doomed(i) /\ Root \notin Doomed(i)
    BY DEF StagedLifecycle, Parents, Doomed, Root, Table
  <1>3. Root \notin {b, p, x}
    BY <1>1 DEF Root, Table
  <1>4. /\ b \in g[Root].links /\ g[b].cfg.tree = 0 /\ ~g[b].ctl /\ p \in Ports(g, b)
        /\ g[p].links = {x} /\ ~g[p].ctl /\ ~g[x].ctl /\ g[x].cfg.type = "internal"
    BY DEF InternalParent, LocalInternal, Free
  <1>5. b \in DOMAIN g /\ p \in DOMAIN g /\ x \in DOMAIN g
    BY <1>4, LinkTables DEF Schema, Typed, Ports
  <1>6. i.op \in LifecycleOps
    BY DEF LifecycleOps
  <1>7. \A c \in ParentGuards(i, g) : c[1] \in {b, p, x} => Col(db, c) = Col(g, c)
    BY <1>2, <1>3, <1>6, LifecycleCells
  <1>8. /\ Whole(b) \ {<<b, "links">>} \subseteq ParentGuards(i, g)
        /\ Cells({b}, {"ports"}) \subseteq ParentGuards(i, g)
        /\ Whole(p) \subseteq ParentGuards(i, g)
        /\ Cells({x}, {"id", "type", "opts"} \cup Labels) \subseteq ParentGuards(i, g)
    <2> DEFINE parts(k) == (Whole(k) \ {<<k, "links">>})
                           \cup Cells({k}, {"ports", "held"}) \cup Whole(Local(k))
                           \cup Cells(g[Local(k)].links, {"id", "type", "opts"} \cup Labels)
    <2>1. ParentGuards(i, g) = UNION {parts(k) : k \in Parents(i)}
      BY DEF ParentGuards
    <2>2. parts(b) \subseteq ParentGuards(i, g)
      BY <2>1
    <2>3. Cells({b}, {"ports"}) \subseteq Cells({b}, {"ports", "held"})
      BY DEF Cells
    <2> QED  BY <1>4, <2>2, <2>3
  <1>9. Agree(g, db, Whole(b) \ {<<b, "links">>})
    <2>1. \A c \in Whole(b) : c[1] = b
      BY WholeCells
    <2> QED  BY <1>7, <1>8, <2>1 DEF Agree
  <1>10. Agree(g, db, Cells({b}, {"ports"}))
    <2>1. \A c \in Cells({b}, {"ports"}) : c[1] = b
      BY CellsOf
    <2> QED  BY <1>7, <1>8, <2>1 DEF Agree
  <1>11. Agree(g, db, Whole(p))
    <2>1. \A c \in Whole(p) : c[1] = p
      BY WholeCells
    <2> QED  BY <1>7, <1>8, <2>1 DEF Agree
  <1>12. Agree(g, db, Cells({x}, {"id", "type", "opts"} \cup Labels))
    <2>1. \A c \in Cells({x}, {"id", "type", "opts"} \cup Labels) : c[1] = x
      BY CellsOf
    <2> QED  BY <1>7, <1>8, <2>1 DEF Agree
  <1>13. Agree(g, db, Exact({p} \cup g[p].links))
    <2> DEFINE of(k) == IF Table(k) = "Interface" THEN Cells({k}, {"id", "type", "opts"} \cup Labels)
                        ELSE Whole(k)
    <2>1. Exact({p, x}) = UNION {of(k) : k \in {p, x}}
      BY DEF Exact
    <2>2. Exact({p, x}) = Whole(p) \cup Cells({x}, {"id", "type", "opts"} \cup Labels)
      BY <1>1, <2>1
    <2>3. {p} \cup g[p].links = {p, x}
      BY <1>4
    <2>4. Agree(g, db, Whole(p) \cup Cells({x}, {"id", "type", "opts"} \cup Labels))
      BY <1>11, <1>12, AgreeUnion
    <2>5. Agree(g, db, Exact({p, x}))
      BY <2>2, <2>4
    <2>6. Exact({p} \cup g[p].links) = Exact({p, x})
      BY <2>3
    <2> QED  BY <2>5, <2>6
  <1>14. b \in DOMAIN db /\ db[b].cfg.tree = 0 /\ ~db[b].ctl
    <2>1. Col(g, <<b, "tree">>) = Col(db, <<b, "tree">>) /\ Col(g, <<b, "ctl">>) = Col(db, <<b, "ctl">>)
      <3>1. <<b, "tree">> \in Whole(b) /\ <<b, "ctl">> \in Whole(b)
        BY <1>1, WholeCells, FieldsOfTables
      <3> QED  BY <1>9, <3>1 DEF Agree
    <2> QED  BY <1>4, <1>5, <2>1, TreeCell, CtlCell
  <1>15. b \in db[Root].links
    BY <1>1, <1>14, BridgeHeld
  <1>16. Ports(db, b) = Ports(g, b)
    <2>1. Col(g, <<b, "ports">>) = Col(db, <<b, "ports">>)
      BY <1>10, CellsOf DEF Agree
    <2> QED  BY <1>5, <2>1, PortsCell
  <1>17. db[p].links = {x} /\ ~db[p].ctl
    <2>1. p \in DOMAIN db /\ g[p] = db[p]
      BY <1>5, <1>11, RowsSame
    <2> QED  BY <1>4, <2>1
  <1>18. x \in DOMAIN db /\ ~db[x].ctl /\ db[x].cfg.type = "internal"
    <2>1. Col(g, <<x, "type">>) = Col(db, <<x, "type">>) /\ Col(g, <<x, "ctl">>) = Col(db, <<x, "ctl">>)
      BY <1>12, CellsOf DEF Agree, Labels
    <2> QED  BY <1>4, <1>5, <2>1, TypeCell, CtlCell
  <1>19. LocalInternal(db, b) /\ Free(db, {p, x})
    BY <1>4, <1>16, <1>17, <1>18 DEF LocalInternal, Free
  <1> QED  BY <1>9, <1>10, <1>13, <1>14, <1>15, <1>17, <1>19 DEF InternalParent

\* A column of a row depends on that row and on the rows it refers to.
LEMMA RowCell ==
    ASSUME NEW g, NEW h, NEW k \in DOMAIN g, k \in DOMAIN h, g[k] = h[k],
           \A j \in g[k].links \cup g[k].refs : g[j].id = h[j].id, NEW f, f \notin {"held", "heldall"}
    PROVE  Col(g, <<k, f>>) = Col(h, <<k, f>>)
  <1>2. Pairs(g, g[k].links) = Pairs(h, h[k].links)
    BY SamePairs
  <1>3. Pairs(g, g[k].refs) = Pairs(h, h[k].refs)
    BY SamePairs
  <1>4. Pairs(g, {j \in g[k].links : Table(j) = "Port"}) = Pairs(h, {j \in h[k].links : Table(j) = "Port"})
    BY SamePairs
  <1>5. Value(g, k, f) = Value(h, k, f)
    BY <1>2, <1>3, <1>4 DEF Value
  <1> QED  BY <1>5 DEF Col

\* The doomed rows are on the server what the intent says they are.
LEMMA DoomedSame ==
    ASSUME NEW i, NEW g, i.op \in LifecycleOps, StagedLifecycle(i), Holds(Wait(i, g)),
           NEW c \in Exact(Doomed(i))
    PROVE  c[1] \in Doomed(i) /\ Col(db, c) = Col(i.from, c)
  <1> DEFINE x == Expected(i, g)
  <1>1. PICK k \in Doomed(i) : c \in IF Table(k) = "Interface"
                                     THEN Cells({k}, {"id", "type", "opts"} \cup Labels) ELSE Whole(k)
    BY DEF Exact
  <1>2. Table(k) \in {"Bridge", "Port", "Interface"} /\ Root \notin Doomed(i)
    BY DEF StagedLifecycle, Root, Table
  <1>3. c \in Whole(k)
    BY <1>1, FieldsOfTables DEF Cells, Whole
  <1>4. c[1] = k /\ c = <<k, c[2]>> /\ c[2] \notin {"held", "heldall"}
    BY <1>2, <1>3, FieldsOfTables DEF Whole, Labels
  <1>5. c \in WholeOf(Doomed(i))
    BY <1>3 DEF WholeOf
  <1>6. Col(db, c) = Col(x, c)
    BY <1>2, <1>4, <1>5, LifecycleCells
  <1>7. \A j \in Doomed(i) : j \in DOMAIN x /\ x[j] = i.from[j] /\ j \in DOMAIN i.from
    BY DEF Expected, With, Sub, Doomed
  <1> HIDE DEF x
  <1>8. i.from[k].refs = {} /\ i.from[k].links \subseteq Doomed(i)
    BY DEF StagedLifecycle
  <1>9. Col(x, <<k, c[2]>>) = Col(i.from, <<k, c[2]>>)
    BY <1>4, <1>7, <1>8, RowCell
  <1> QED  BY <1>4, <1>6, <1>9

LEMMA LifecycleCaptured ==
    ASSUME NEW i, NEW g, Schema(g), Schema(db), i.op \in LifecycleOps, StagedLifecycle(i),
           DOMAIN i = DOMAIN Blank, Agreeing(i, g), LifecycleGate(i, g), Holds(Wait(i, g))
    PROVE  /\ Image(db, DOMAIN i.dep) = i.dep
           /\ Image(db, DOMAIN Insisted(i, db).was) = Insisted(i, db).was
  <1>1. Root \notin Doomed(i)
    BY DEF StagedLifecycle, Root, Table
  <1>2. Parents(i) # {} => i.op \in {"internal.create", "internal.delete"}
    BY DEF StagedLifecycle, LifecycleOps
  <1>3. \A b \in Parents(i) : InternalParent(g, b)
    BY <1>2 DEF StagedLifecycle, LifecycleGate
  <1>4. \A c \in DOMAIN i.dep : Col(g, c) = Col(db, c)
    <2>1. DOMAIN i.dep = ParentScope(i, g)
      BY DEF StagedLifecycle
    <2>2. <<Root, "id">> \in Labelled({Root})
      BY CellsOf DEF Labelled
    <2>3. Col(g, <<Root, "id">>) = Col(db, <<Root, "id">>)
      BY <1>1, <2>2, LifecycleCells
    <2>4. ASSUME NEW b \in Parents(i),
                 NEW c \in (Whole(b) \ {<<b, "links">>}) \cup Exact({Local(b)} \cup g[Local(b)].links)
          PROVE  Col(g, c) = Col(db, c)
      <3>1. /\ Agree(g, db, Whole(b) \ {<<b, "links">>})
            /\ Agree(g, db, Exact({Local(b)} \cup g[Local(b)].links))
        BY <1>2, <1>3, ParentSame
      <3> QED  BY <3>1 DEF Agree
    <2> QED  BY <2>1, <2>3, <2>4 DEF ParentScope
  <1>5. Image(db, DOMAIN i.dep) = i.dep
    BY <1>4, AgreeImage DEF Agree, Agreeing
  <1> DEFINE was == Insisted(i, db).was
  <1>6. was = [c \in DOMAIN i.was |-> IF i.op \in DeletionOps /\ c[1] \in Doomed(i)
                                      THEN Col(i.from, c) ELSE i.was[c]]
    BY InsistedFields
  <1> HIDE DEF was
  <1>7. ASSUME NEW c \in DOMAIN i.was PROVE was[c] = Col(db, c)
    <2>1. i.was[c] = Col(g, c)
      <3>1. Image(g, DOMAIN i.was)[c] = Col(g, c)
        BY DEF Image
      <3> QED  BY <3>1 DEF Agreeing
    <2>2. CASE c \in Exact(Doomed(i))
      <3>1. c[1] \in Doomed(i) /\ Col(db, c) = Col(i.from, c)
        BY <2>2, DoomedSame
      <3>2. i.op \in DeletionOps
        BY <3>1 DEF StagedLifecycle
      <3> QED  BY <1>6, <3>1, <3>2
    <2>3. CASE c \in Cells(Parents(i), {"ports"})
      <3>1. PICK b \in Parents(i) : c = <<b, "ports">>
        BY <2>3, CellsOf
      <3>2. Agree(g, db, Cells({b}, {"ports"}))
        BY <1>2, <1>3, ParentSame
      <3>3. Col(g, c) = Col(db, c)
        BY <3>1, <3>2, CellsOf DEF Agree
      <3>4. c[1] \notin Doomed(i)
        BY <3>1 DEF Parents, Doomed
      <3> QED  BY <1>6, <2>1, <3>3, <3>4
    <2> QED  BY <2>2, <2>3 DEF StagedLifecycle
  <1>8. DOMAIN was = DOMAIN i.was
    BY <1>6
  <1>9. was = [c \in DOMAIN i.was |-> was[c]]
    BY <1>6
  <1>10. Image(db, DOMAIN was) = was
    BY <1>7, <1>8, <1>9 DEF Image
  <1> QED  BY <1>5, <1>10 DEF was

LEMMA LifecycleCommitted ==
    ASSUME NEW i, NEW g, Schema(g), Schema(db), i.op \in LifecycleOps, StagedLifecycle(i), i.dir = "go",
           DOMAIN i = DOMAIN Blank, SpareIds(i) \cap Present(db) = {},
           Agreeing(i, g), Gate(i, g), Holds(Wait(i, g)), Checks(i, view.rows)
    PROVE  Checks(Insisted(i, db), db)
  <1> DEFINE j == Insisted(i, db)
  <1>1. /\ j.op = i.op /\ j.gen = i.gen /\ j.dir = i.dir /\ j.dep = i.dep /\ j.from = i.from
        /\ j.to = i.to /\ j.spare = i.spare /\ j.old = i.old
    BY InsistedFields
  <1>2. LifecycleGate(i, g)
    BY DEF Gate
  <1>3. /\ Unmoved(i, view.rows) /\ Available(i, view.rows) /\ Fostered(i, view.rows)
        /\ i.op \in DeletionOps => Restorable(i, view.rows)
    BY LifecycleParts
  <1>4. Image(db, DOMAIN i.dep) = i.dep /\ Image(db, DOMAIN j.was) = j.was
    BY <1>2, LifecycleCaptured
  <1>5. Available(i, db)
    BY <1>3, LifecycleNames
  <1>6. ASSUME i.op \in {"internal.create", "internal.delete"}, NEW b \in BridgesOf(i.to)
        PROVE  InternalParent(db, b) /\ Granted(db, b)
    <2>1. b \in Parents(i) /\ InternalParent(g, b)
      BY <1>2, <1>6 DEF StagedLifecycle, LifecycleGate
    <2>2. InternalParent(db, b) /\ b \in DOMAIN db
      BY <1>6, <2>1, ParentSame
    <2>3. <<b, "id">> \in DOMAIN i.dep
      <3>1. DOMAIN i.dep = ParentScope(i, g)
        BY DEF StagedLifecycle
      <3>2. <<b, "id">> \in Whole(b) \ {<<b, "links">>}
        BY WholeCells
      <3> QED  BY <2>1, <3>1, <3>2 DEF ParentScope
    <2>4. Image(view.rows, DOMAIN i.dep) = i.dep
      BY <1>3 DEF Unmoved
    <2>5. Col(db, <<b, "id">>) = Col(view.rows, <<b, "id">>)
      BY <1>4, <2>3, <2>4, AgreeBoth DEF Agree
    <2>6. db[b].id = view.rows[b].id
      BY <2>2, <2>5, IdCell
    <2>7. Granted(view.rows, b)
      BY <1>3, <1>6 DEF Fostered
    <2> QED  BY <2>2, <2>6, <2>7 DEF Granted
  <1>7. Unmoved(j, db)
    BY <1>1, <1>3, <1>4 DEF Unmoved
  <1>8. Available(j, db)
    <2>1. Fresh(j) = Fresh(i)
      BY <1>1 DEF Fresh
    <2> QED  BY <1>1, <1>5, <2>1 DEF Available, Removed, Creatable
  <1>9. LifecycleGate(j, db)
    <2>1. Root \in DOMAIN g /\ ~g[Root].ctl
      BY <1>2 DEF LifecycleGate, Schema, Typed
    <2>2. Root \notin Doomed(i)
      BY DEF StagedLifecycle, Root, Table
    <2>3. <<Root, "ctl">> \in Labelled({Root})
      BY CellsOf DEF Labelled, Labels
    <2>4. Col(g, <<Root, "ctl">>) = Col(db, <<Root, "ctl">>)
      BY <2>2, <2>3, LifecycleCells
    <2>5. ~db[Root].ctl
      BY <2>1, <2>4, CtlCell
    <2> QED  BY <1>1, <1>6, <2>5 DEF LifecycleGate
  <1>10. Fostered(j, db)
    BY <1>1, <1>6 DEF Fostered
  <1>11. j.op \in DeletionOps => Restorable(j, db)
    <2>1. \A k \in DOMAIN i.spare : i.spare[k] \notin Present(db)
      BY DEF SpareIds
    <2> QED  BY <1>1, <1>3, <2>1 DEF Restorable
  <1>12. j.op \in LifecycleOps
    BY <1>1
  <1> HIDE DEF j
  <1>13. Checks(j, db)
    BY <1>7, <1>8, <1>9, <1>10, <1>11, <1>12, LifecycleParts
  <1> QED  BY <1>13 DEF j

LEMMA IntentCommitted ==
    ASSUME NEW i, NEW g, Schema(g), Schema(db), Staged(i), SpareIds(i) \cap Present(db) = {},
           Agreeing(i, g), Gate(i, g), Holds(Wait(i, g)), Checks(i, view.rows)
    PROVE  Checks(Insisted(i, db), db)
  <1>1. IsFunction(i) /\ DOMAIN i = DOMAIN Blank /\ i.dir = "go"
    BY DEF Staged
  <1>2. CASE i.op \in FieldOps
    <2>1. i.op \notin DeletionOps \cup TunnelOps
      BY <1>2 DEF FieldOps, ListOps, TreeOps, DeletionOps, TunnelOps
    <2>2. Checks(i, db)
      BY <1>2, FieldCommitted DEF Staged
    <2> QED  BY <1>1, <2>1, <2>2, InsistedSame
  <1>3. CASE i.op \in LifecycleOps
    BY <1>1, <1>3, LifecycleCommitted DEF Staged
  <1>4. CASE i.op \in TunnelOps
    <2>1. StagedRows(i)
      BY <1>4 DEF Staged, TunnelOps, FieldOps, ListOps, TreeOps, LifecycleOps
    <2> QED  BY <1>1, <1>4, <2>1, TunnelCommitted
  <1>5. CASE i.op \in MirrorOps
    <2>1. StagedRows(i) /\ i.op \notin DeletionOps \cup TunnelOps
      BY <1>5 DEF Staged, MirrorOps, FieldOps, ListOps, TreeOps, LifecycleOps, DeletionOps, TunnelOps
    <2>2. Checks(i, db)
      BY <1>1, <1>5, <2>1, MirrorCommitted
    <2> QED  BY <1>1, <2>1, <2>2, InsistedSame
  <1>6. CASE PlainOps(i.op)
    <2>1. StagedRows(i) /\ i.op \notin DeletionOps \cup TunnelOps
      BY <1>6 DEF Staged, PlainOps, PathOps, DeletionOps, LifecycleOps
    <2>2. Checks(i, db)
      BY <1>1, <1>6, <2>1, TopologyCommitted
    <2> QED  BY <1>1, <2>1, <2>2, InsistedSame
  <1> QED  BY <1>2, <1>3, <1>4, <1>5, <1>6 DEF PlainOps, PathOps

(***************************************************************************)
(* Staging. What a field change has captured tells where to look for it:   *)
(* any snapshot with the same values has the same dependencies.            *)
(***************************************************************************)

LEMMA VlanScopeKept ==
    ASSUME NEW g, NEW h, NEW k \in DOMAIN g, Agree(g, h, VlanScope(g, k))
    PROVE  k \in DOMAIN h /\ Holders(g, k) = Holders(h, k) /\ g[k].links = h[k].links
  <1>1. <<k, "held">> \in VlanScope(g, k) /\ <<k, "links">> \in VlanScope(g, k)
    BY CellsOf DEF VlanScope
  <1>2. Col(g, <<k, "held">>) = Col(h, <<k, "held">>)
    BY <1>1 DEF Agree
  <1>3. Col(g, <<k, "links">>) = Col(h, <<k, "links">>)
    BY <1>1 DEF Agree
  <1> QED  BY <1>2, <1>3, HeldCell, LinksCell

LEMMA InterfaceScopeKept ==
    ASSUME NEW g, NEW h, NEW k \in DOMAIN g, Agree(g, h, InterfaceScope(g, k))
    PROVE  /\ k \in DOMAIN h /\ Holders(g, k) = Holders(h, k)
           /\ HoldersOf(g, Holders(g, k)) = HoldersOf(h, Holders(h, k))
           /\ Peers(g, k) = Peers(h, k)
  <1> DEFINE ps == Holders(g, k)
             bs == HoldersOf(g, ps)
  <1>1. Agree(g, h, Cells(ps, {"id", "links", "held", "ctl"})) /\ Agree(g, h, Cells(bs, {"id", "ports", "ctl"}))
        /\ Agree(g, h, Cells({k}, {"type", "opts", "held", "ctl"}))
    BY AgreeSubset DEF InterfaceScope
  <1>2. ps \subseteq DOMAIN g /\ bs \subseteq DOMAIN g
    BY DEF Holders, HoldersOf
  <1>3. k \in DOMAIN h /\ Holders(h, k) = ps
    <2>1. Col(g, <<k, "held">>) = Col(h, <<k, "held">>)
      BY <1>1, CellsOf DEF Agree
    <2> QED  BY <2>1, HeldCell
  <1>4. ASSUME NEW p \in ps PROVE Holders(g, p) = Holders(h, p)
    <2>1. Col(g, <<p, "held">>) = Col(h, <<p, "held">>)
      BY <1>1, CellsOf DEF Agree
    <2> QED  BY <1>2, <2>1, HeldCell
  <1>5. ASSUME NEW b \in bs PROVE Ports(g, b) = Ports(h, b)
    <2>1. Col(g, <<b, "ports">>) = Col(h, <<b, "ports">>)
      BY <1>1, CellsOf DEF Agree
    <2> QED  BY <1>2, <2>1, PortsCell
  <1>6. HoldersOf(h, Holders(h, k)) = bs
    BY <1>3, <1>4 DEF HoldersOf
  <1>7. Peers(g, k) = UNION {Ports(g, b) : b \in bs} /\ Peers(h, k) = UNION {Ports(h, b) : b \in bs}
    BY <1>6 DEF Peers
  <1> HIDE DEF bs
  <1>8. Peers(g, k) = Peers(h, k)
    BY <1>5, <1>7
  <1> QED  BY <1>3, <1>6, <1>8 DEF bs

LEMMA ListCovered ==
    ASSUME NEW g, NEW h, NEW op \in ListOps, NEW k \in DOMAIN g, NEW ctx \in BOOLEAN,
           Agree(g, h, Dependencies(g, op, k, ctx))
    PROVE  Dependencies(g, op, k, ctx) = Dependencies(h, op, k, ctx)
  <1>1. VlanScope(g, k) \subseteq Dependencies(g, op, k, ctx)
    BY DEF Dependencies, Scope, BondScope, ListOps, TreeOps
  <1>2. k \in DOMAIN h /\ Holders(g, k) = Holders(h, k) /\ g[k].links = h[k].links
    BY <1>1, AgreeSubset, VlanScopeKept
  <1>3. VlanScope(g, k) = VlanScope(h, k)
    BY <1>2 DEF VlanScope
  <1>4. BondScope(g, k) = BondScope(h, k)
    BY <1>2, <1>3 DEF BondScope
  <1>5. QinQScope(g, k) = QinQScope(h, k)
    BY <1>2 DEF QinQScope
  <1> QED  BY <1>3, <1>4, <1>5 DEF Dependencies, Scope, ListOps, TreeOps

LEMMA InterfaceCovered ==
    ASSUME NEW g, NEW h, Schema(g), NEW op \in {"mtu", "police"}, NEW k \in DOMAIN g, NEW ctx \in BOOLEAN,
           Agree(g, h, Dependencies(g, op, k, ctx))
    PROVE  Dependencies(g, op, k, ctx) = Dependencies(h, op, k, ctx)
  <1>1. InterfaceScope(g, k) \subseteq Dependencies(g, op, k, ctx)
    BY DEF Dependencies, Scope, PolicingScope, TreeOps
  <1>2. /\ k \in DOMAIN h /\ Holders(g, k) = Holders(h, k)
        /\ HoldersOf(g, Holders(g, k)) = HoldersOf(h, Holders(h, k))
        /\ Peers(g, k) = Peers(h, k)
    BY <1>1, AgreeSubset, InterfaceScopeKept
  <1>3. InterfaceScope(g, k) = InterfaceScope(h, k)
    BY <1>2 DEF InterfaceScope
  <1>4. PolicingScope(g, k) = PolicingScope(h, k)
    BY <1>3 DEF PolicingScope
  <1>5. ASSUME op = "mtu", ctx PROVE MtuDefaultScope(g, k) = MtuDefaultScope(h, k)
    <2>1. MtuDefaultScope(g, k) \subseteq Dependencies(g, op, k, ctx)
      BY <1>5 DEF Dependencies
    <2>2. Agree(g, h, Cells(Peers(g, k), {"id", "links", "held", "ctl"}))
      BY <2>1, AgreeSubset DEF MtuDefaultScope
    <2>3. ASSUME NEW p \in Peers(g, k) PROVE g[p].links = h[p].links
      <3>1. p \in DOMAIN g
        <4>1. PICK b \in HoldersOf(g, Holders(g, k)) : p \in Ports(g, b)
          BY DEF Peers
        <4>2. b \in DOMAIN g
          BY DEF HoldersOf, Holders
        <4> QED  BY <4>1, <4>2, LinkTables DEF Schema, Ports
      <3>2. Col(g, <<p, "links">>) = Col(h, <<p, "links">>)
        BY <2>2, CellsOf DEF Agree
      <3> QED  BY <3>1, <3>2, LinksCell
    <2>4. Members(g, Peers(g, k)) = Members(h, Peers(h, k))
      BY <1>2, <2>3 DEF Members
    <2> QED  BY <1>2, <2>4 DEF MtuDefaultScope
  <1> QED  BY <1>3, <1>4, <1>5 DEF Dependencies, Scope, TreeOps

LEMMA FieldIntentFields ==
    ASSUME NEW g, NEW r
    PROVE  LET i == FieldIntent(g, r)
               f == FieldOf(r.op)
               v == g[r.key].cfg[f]
               ctx == Context(r.op, v, r.v)
           IN /\ IsFunction(i) /\ DOMAIN i = DOMAIN Blank /\ i.dir = "go"
              /\ i.op = r.op /\ i.key = r.key /\ i.id = g[r.key].id /\ i.f = f
              /\ i.before = v /\ i.after = r.v /\ i.ctx = ctx
              /\ i.dep = Image(g, Dependencies(g, r.op, r.key, ctx))
              /\ DOMAIN i.was = Cells({r.key}, {"id", f}) /\ i.was[<<r.key, "id">>] = {g[r.key].id}
  <1> DEFINE f == FieldOf(r.op)
             v == g[r.key].cfg[f]
             ctx == Context(r.op, v, r.v)
             dep == Image(g, Dependencies(g, r.op, r.key, ctx))
             i == FieldIntent(g, r)
             j == [Blank EXCEPT !.op = r.op, !.key = r.key, !.id = g[r.key].id, !.gen = view.gen,
                           !.f = f, !.before = v, !.after = r.v, !.ctx = ctx, !.dep = dep]
  <1>0. Blank.dir = "go"
    BY DEF Blank
  <1>1. i = [j EXCEPT !.was = FieldImage(j, j.before), !.will = FieldImage(j, j.after),
                      !.again = FieldImage(j, j.before)]
    BY DEF FieldIntent
  <1> HIDE DEF i, f, v, ctx, dep
  <1>2. /\ IsFunction(j) /\ DOMAIN j = DOMAIN Blank /\ j.dir = "go"
        /\ j.op = r.op /\ j.key = r.key /\ j.id = g[r.key].id /\ j.f = f
        /\ j.before = v /\ j.after = r.v /\ j.ctx = ctx /\ j.dep = dep
    BY <1>0, BlankFields DEF IsFunction
  <1> HIDE DEF j
  <1> DEFINE was == FieldImage(j, j.before)
  <1>3. DOMAIN was = Cells({r.key}, {"id", f}) /\ was[<<r.key, "id">>] = {g[r.key].id}
    BY <1>2, CellsOf DEF FieldImage
  <1> HIDE DEF was
  <1>4. /\ IsFunction(i) /\ DOMAIN i = DOMAIN Blank /\ i.dir = "go"
        /\ i.op = r.op /\ i.key = r.key /\ i.id = g[r.key].id /\ i.f = f
        /\ i.before = v /\ i.after = r.v /\ i.ctx = ctx /\ i.dep = dep
        /\ i.was = was
    BY <1>1, <1>2, BlankFields DEF IsFunction, was
  <1> QED  BY <1>3, <1>4 DEF i, f, v, ctx, dep

LEMMA ContextValue == ASSUME NEW op, NEW x, NEW y PROVE Context(op, x, y) \in BOOLEAN
  BY DEF Context

LEMMA FieldIntentStaged ==
    ASSUME NEW g, Schema(g), NEW r, r.op \in FieldOps, r.key \in DOMAIN g, Table(r.key) = Subject(r.op)
    PROVE  Staged(FieldIntent(g, r))
  <1> DEFINE i == FieldIntent(g, r)
             ctx == Context(r.op, g[r.key].cfg[FieldOf(r.op)], r.v)
             d == Dependencies(g, r.op, r.key, ctx)
  <1>0. /\ IsFunction(i) /\ DOMAIN i = DOMAIN Blank /\ i.dir = "go"
        /\ i.op = r.op /\ i.key = r.key /\ i.id = g[r.key].id /\ i.f = FieldOf(r.op)
        /\ i.before = g[r.key].cfg[FieldOf(r.op)] /\ i.after = r.v /\ i.ctx = ctx
        /\ i.dep = Image(g, d)
        /\ DOMAIN i.was = Cells({r.key}, {"id", FieldOf(r.op)}) /\ i.was[<<r.key, "id">>] = {g[r.key].id}
    BY FieldIntentFields, Zenon
  <1> HIDE DEF i, ctx, d
  <1>1. /\ IsFunction(i) /\ DOMAIN i = DOMAIN Blank /\ i.dir = "go"
        /\ i.op = r.op /\ i.key = r.key /\ i.id = g[r.key].id /\ i.f = FieldOf(r.op)
        /\ i.before = g[r.key].cfg[FieldOf(r.op)] /\ i.after = r.v /\ i.ctx = ctx
        /\ i.dep = Image(g, d)
        /\ DOMAIN i.was = Cells({r.key}, {"id", i.f}) /\ i.was[<<r.key, "id">>] = {g[r.key].id}
    BY <1>0
  <1> USE DEF i, ctx, d
  <1>2. ctx \in BOOLEAN
    BY ContextValue
  <1>3. r.op = "mtu" /\ 0 \in {i.before, i.after} => ctx
    BY <1>1 DEF Context
  <1> HIDE DEF i, ctx
  <1>4. ASSUME r.op \in ListOps \cup {"mtu", "police"}, NEW h, Schema(h), Agreeing(i, h)
        PROVE  DOMAIN i.dep \subseteq Dependencies(h, r.op, r.key, ctx)
    <2>1. DOMAIN i.dep = d
      BY <1>1 DEF Image
    <2>2. Image(h, d) = Image(g, d)
      BY <1>1, <1>4, <2>1 DEF Agreeing
    <2>3. Agree(g, h, d)
      BY <2>2, ImageAgrees
    <2>4. d = Dependencies(h, r.op, r.key, ctx)
      BY <1>2, <1>4, <2>3, ListCovered, InterfaceCovered
    <2> QED  BY <2>1, <2>4
  <1>5. StagedField(i)
    <2>1. IsFunction(i.dep)
      BY <1>1 DEF Image, IsFunction
    <2> QED  BY <1>1, <1>2, <1>3, <1>4, <2>1 DEF StagedField
  <1>6. i.op \notin LifecycleOps
    BY <1>1 DEF FieldOps, ListOps, TreeOps, LifecycleOps
  <1> QED  BY <1>1, <1>5, <1>6 DEF Staged, i

LEMMA AmendedFields ==
    ASSUME NEW i, NEW g, NEW v, IsFunction(i), DOMAIN i = DOMAIN Blank
    PROVE  LET j == Amended(i, g, v)
               add == i.op = "vlan" /\ v = QinQ /\ ~i.ctx
           IN /\ IsFunction(j) /\ DOMAIN j = DOMAIN Blank /\ j.dir = i.dir
              /\ j.op = i.op /\ j.key = i.key /\ j.id = i.id /\ j.f = i.f /\ j.before = i.before
              /\ j.after = v /\ j.was = i.was /\ j.ctx = (i.ctx \/ add)
              /\ j.dep = IF add THEN With(Image(g, QinQScope(g, i.key)), i.dep) ELSE i.dep
  BY BlankFields DEF Amended, IsFunction

\* The context that is captured later keeps to the port that was captured first.
LEMMA ContextCovered ==
    ASSUME NEW g, Schema(g), NEW k \in DOMAIN g, NEW h, Schema(h), NEW dep, IsFunction(dep),
           NEW x, x = With(Image(g, QinQScope(g, k)), dep), Image(h, DOMAIN x) = x,
           DOMAIN dep \subseteq VlanScope(h, k)
    PROVE  DOMAIN x \subseteq VlanScope(h, k) \cup QinQScope(h, k)
  <1> DEFINE q == QinQScope(g, k)
  <1>1. DOMAIN x = q \cup DOMAIN dep /\ \A c \in q \ DOMAIN dep : x[c] = Col(g, c)
    BY DEF With, Image
  <1>2. \A c \in q \ DOMAIN dep : Col(h, c) = Col(g, c)
    BY <1>1 DEF Image
  <1>3. ASSUME NEW c \in q \ DOMAIN dep PROVE c \in QinQScope(h, k)
    <2>1. CASE c \in Cells({Root}, {"id", "other"})
      BY <2>1 DEF QinQScope
    <2>2. CASE c \in Cells(g[k].links, {"held"})
      <3>1. PICK j \in g[k].links : c = <<j, "held">>
        BY <2>2, CellsOf
      <3>2. j \in DOMAIN g
        BY LinkTables DEF Schema
      <3>3. Holders(g, j) = Holders(h, j)
        BY <1>2, <3>1, <3>2, HeldCell
      <3>4. k \in Holders(g, j)
        BY DEF Holders
      <3>5. j \in h[k].links
        BY <3>3, <3>4 DEF Holders
      <3> QED  BY <3>1, <3>5, CellsOf DEF QinQScope
    <2> QED  BY <2>1, <2>2 DEF QinQScope
  <1> QED  BY <1>1, <1>3

LEMMA AmendedStaged ==
    ASSUME NEW i, Staged(i), i.op \in FieldOps, NEW g, Schema(g), NEW v, i.key \in DOMAIN g,
           AmendableMtu(i, v)
    PROVE  Staged(Amended(i, g, v))
  <1> DEFINE j == Amended(i, g, v)
             add == i.op = "vlan" /\ v = QinQ /\ ~i.ctx
  <1>1. StagedField(i) /\ IsFunction(i) /\ DOMAIN i = DOMAIN Blank /\ i.dir = "go"
    BY DEF Staged
  <1>2. /\ IsFunction(j) /\ DOMAIN j = DOMAIN Blank /\ j.dir = i.dir
        /\ j.op = i.op /\ j.key = i.key /\ j.id = i.id /\ j.f = i.f /\ j.before = i.before
        /\ j.after = v /\ j.was = i.was /\ j.ctx = (i.ctx \/ add)
        /\ j.dep = IF add THEN With(Image(g, QinQScope(g, i.key)), i.dep) ELSE i.dep
    BY <1>1, AmendedFields
  <1> HIDE DEF j
  <1>3. j.ctx \in BOOLEAN
    BY <1>1, <1>2 DEF StagedField
  <1>4. j.op = "mtu" /\ 0 \in {j.before, j.after} => j.ctx
    BY <1>1, <1>2 DEF StagedField, AmendableMtu
  <1>5. IsFunction(j.dep)
    <2>1. IsFunction(With(Image(g, QinQScope(g, i.key)), i.dep))
      BY DEF With, IsFunction
    <2> QED  BY <1>1, <1>2, <2>1 DEF StagedField
  <1>6. ASSUME j.op \in ListOps \cup {"mtu", "police"}, NEW h, Schema(h), Agreeing(j, h)
        PROVE  DOMAIN j.dep \subseteq Dependencies(h, j.op, j.key, j.ctx)
    <2>1. CASE ~add
      <3>1. j.dep = i.dep /\ (j.ctx <=> i.ctx)
        BY <1>2, <2>1
      <3>2. Agreeing(i, h)
        BY <1>2, <1>6, <3>1 DEF Agreeing
      <3>3. DOMAIN i.dep \subseteq Dependencies(h, i.op, i.key, i.ctx)
        BY <1>1, <1>2, <1>6, <3>2 DEF StagedField
      <3>4. j.ctx = i.ctx
        BY <1>1, <1>3, <3>1 DEF StagedField
      <3> QED  BY <1>2, <3>1, <3>3, <3>4
    <2>2. CASE add
      <3>1. i.op = "vlan" /\ i.ctx = FALSE /\ j.ctx = TRUE
        BY <1>1, <1>2, <2>2 DEF StagedField
      <3>2. j.dep = With(Image(g, QinQScope(g, i.key)), i.dep)
        BY <1>2, <2>2
      <3>3. \A c \in DOMAIN i.dep : c \in DOMAIN j.dep /\ j.dep[c] = i.dep[c]
        BY <3>2 DEF With
      <3>4. \A c \in DOMAIN j.dep : Image(h, DOMAIN j.dep)[c] = Col(h, c)
        BY DEF Image
      <3>5. \A c \in DOMAIN i.dep : Col(h, c) = i.dep[c]
        BY <1>6, <3>3, <3>4 DEF Agreeing
      <3>6. Image(h, DOMAIN i.dep) = i.dep
        BY <1>1, <3>5 DEF Image, StagedField, IsFunction
      <3>7. Agreeing(i, h)
        BY <1>2, <1>6, <3>6 DEF Agreeing
      <3>8. DOMAIN i.dep \subseteq Dependencies(h, i.op, i.key, i.ctx)
        BY <1>1, <1>2, <1>6, <3>7 DEF StagedField
      <3>9. DOMAIN i.dep \subseteq VlanScope(h, i.key)
        BY <3>1, <3>8 DEF Dependencies, Scope, TreeOps
      <3>10. Image(h, DOMAIN j.dep) = j.dep
        BY <1>6 DEF Agreeing
      <3>11. DOMAIN j.dep \subseteq VlanScope(h, i.key) \cup QinQScope(h, i.key)
        BY <1>1, <1>6, <3>2, <3>9, <3>10, ContextCovered DEF StagedField
      <3>12. Dependencies(h, "vlan", i.key, TRUE) = VlanScope(h, i.key) \cup QinQScope(h, i.key)
        BY DEF Dependencies, Scope, TreeOps
      <3> QED  BY <1>2, <3>1, <3>11, <3>12
    <2> QED  BY <2>1, <2>2
  <1>7. StagedField(j)
    BY <1>1, <1>2, <1>3, <1>4, <1>5, <1>6 DEF StagedField
  <1>8. j.op \notin LifecycleOps
    BY <1>2 DEF FieldOps, ListOps, TreeOps, LifecycleOps
  <1> QED  BY <1>1, <1>2, <1>7, <1>8 DEF Staged, j

(***************************************************************************)
(* Staging of a change of rows.                                            *)
(***************************************************************************)

LEMMA GraphIntentFields ==
    ASSUME NEW g, NEW r, NEW ids
    PROVE  LET i == GraphIntent(g, r, ids)
           IN /\ IsFunction(i) /\ DOMAIN i = DOMAIN Blank /\ i.dir = "go" /\ i.op = r.op
              /\ i.from = Stored(g, r) /\ DOMAIN i.from = Before(g, r)
              /\ DOMAIN i.to = DOMAIN After(g, r)
              /\ i.dep = Image(g, GraphScope(g, r.op, Before(g, r)))
              /\ i.was = Image(g, Compared(r.op, Before(g, r), Doomed(i) # {}))
  <1> DEFINE fresh == Picks(g, r).fresh
             doomed == Picks(g, r).doomed
             from == Stored(g, r)
             to == Marked(Renewed(After(g, r), Sub(ids, fresh)), fresh, "go")
             spare == Sub(ids, doomed)
             old == {g[k].id : k \in doomed}
             dep == Image(g, GraphScope(g, r.op, Before(g, r)))
             j == [Blank EXCEPT !.op = r.op, !.key = r.key, !.gen = view.gen,
                     !.from = from, !.to = to, !.spare = spare, !.old = old, !.dep = dep]
             ahead == Grafted(g, j, "go")
             back == Restoration(j)
             i == GraphIntent(g, r, ids)
             was == Image(g, Compared(j.op, DOMAIN j.from, j.old # {}))
             will == Image(ahead, Compared(j.op, DOMAIN j.to, FALSE))
             again == Image(Grafted(ahead, back, "back"), Compared(j.op, DOMAIN j.from, FALSE))
             rest == IF j.op \in TunnelOps \cup MirrorOps THEN Rest(g, Owns(j)) ELSE <<>>
  <1>1. Blank.dir = "go"
    BY DEF Blank
  <1>2. i = [j EXCEPT !.was = was, !.will = will, !.again = again, !.rest = rest]
    BY DEF GraphIntent
  <1>3. DOMAIN from = Before(g, r)
    BY DEF Stored
  <1>4. DOMAIN to = DOMAIN After(g, r)
    BY DEF Marked, Renewed
  <1>5. old # {} <=> doomed # {}
    OBVIOUS
  <1>6. doomed = Before(g, r) \ DOMAIN After(g, r)
    BY DEF Picks
  <1> HIDE DEF i, from, to, spare, old, dep, doomed
  <1>7. /\ IsFunction(j) /\ DOMAIN j = DOMAIN Blank /\ j.dir = "go"
        /\ j.op = r.op /\ j.from = from /\ j.to = to /\ j.old = old /\ j.dep = dep
    BY <1>1, BlankFields DEF IsFunction
  <1> HIDE DEF j, will, again, rest
  <1>8. was = Image(g, Compared(r.op, Before(g, r), doomed # {}))
    BY <1>3, <1>5, <1>7
  <1> HIDE DEF was
  <1>9. /\ IsFunction(i) /\ DOMAIN i = DOMAIN Blank /\ i.dir = "go"
        /\ i.op = r.op /\ i.from = from /\ i.to = to /\ i.dep = dep /\ i.was = was
    BY <1>2, <1>7, BlankFields DEF IsFunction
  <1>10. Doomed(i) = doomed
    BY <1>3, <1>4, <1>6, <1>9 DEF Doomed
  <1>11. i.was = Image(g, Compared(r.op, Before(g, r), Doomed(i) # {}))
    BY <1>8, <1>9, <1>10
  <1>12. DOMAIN i.from = Before(g, r) /\ DOMAIN i.to = DOMAIN After(g, r)
    BY <1>3, <1>4, <1>9
  <1> QED  BY <1>9, <1>11, <1>12 DEF i, from, dep

\* Requests as they are made.
Request(r) ==
    /\ r.op \in PortOps \cup InterfaceOps \cup BridgeOps \cup MirrorOps
    /\ IsKey(r.key) /\ Table(r.key) = Subject(r.op)
    /\ r.op \in SecondOps => IsKey(r.on) /\ Table(r.on) = Second(r.op)

LEMMA LoadedPresent ==
    ASSUME NEW g, Schema(g), NEW p \in DOMAIN g
    PROVE  Loaded(g, p) \subseteq DOMAIN g
  <1>1. \A j \in g[p].links : j \in DOMAIN g
    BY LinkTables DEF Schema
  <1> QED  BY <1>1 DEF Loaded, Holders

LEMMA RegionPresent ==
    ASSUME NEW g, Schema(g), NEW b \in DOMAIN g
    PROVE  Region(g, b) \subseteq DOMAIN g
  <1>1. \A k \in DOMAIN g : \A j \in g[k].links : j \in DOMAIN g
    BY LinkTables DEF Schema
  <1>2. Ports(g, b) \subseteq DOMAIN g
    BY <1>1 DEF Ports
  <1>3. Members(g, Ports(g, b)) \subseteq DOMAIN g
    BY <1>1, <1>2 DEF Members
  <1> QED  BY <1>2, <1>3 DEF Region

LEMMA HoldersPresent ==
    ASSUME NEW g, NEW ks
    PROVE  HoldersOf(g, ks) \subseteq DOMAIN g
  BY DEF HoldersOf, Holders

RowOps == (PortOps \cup InterfaceOps \cup BridgeOps \cup MirrorOps) \ (FieldOps \cup LifecycleOps)

\* The rows that a request is about are there.
LEMMA BeforePresent ==
    ASSUME NEW g, Schema(g), NEW r, r.op \in RowOps, r.key \in DOMAIN g, Can(g, r)
    PROVE  Before(g, r) \subseteq DOMAIN g
  <1> USE DEF MirrorOps
  <1>1. CASE r.op = "bridge.delete-tree"
    BY <1>1, RegionPresent DEF Before
  <1>2. CASE r.op \in {"port.create", "bond.create", "tunnel.create"}
    BY <1>2 DEF Before
  <1>3. CASE r.op \in {"port.delete", "tunnel.configure", "tunnel.delete"}
    BY <1>3, LoadedPresent DEF Before
  <1>4. CASE r.op = "port.move"
    <2>1. r.on \in DOMAIN g
      BY <1>4 DEF Can, CanMove, TunnelOps
    <2> QED  BY <1>4, <2>1, LoadedPresent DEF Before
  <1>5. CASE r.op = "bond.members"
    <2>1. \A p \in Sources(g, r) : p \in DOMAIN g
      BY HoldersPresent DEF Sources
    <2>2. \A p \in DOMAIN g : Loaded(g, p) \subseteq DOMAIN g
      BY LoadedPresent
    <2> QED  BY <1>5, <2>1, <2>2 DEF Before, MembersBefore
  <1>6. CASE r.op = "ofport"
    <2>1. \A b \in HoldersOf(g, Holders(g, r.key)) : Region(g, b) \subseteq DOMAIN g
      BY HoldersPresent, RegionPresent
    <2> QED  BY <1>6, <2>1 DEF Before, OfportBefore
  <1>7. CASE r.op \in {"patch.connect", "patch.disconnect"}
    <2>1. \A p \in HoldersOf(g, {r.key, r.on}) : Loaded(g, p) \subseteq DOMAIN g
      BY HoldersPresent, LoadedPresent
    <2> QED  BY <1>7, <2>1 DEF Before, PatchBefore
  <1>8. CASE r.op \in MirrorOps
    <2>1. Can(g, r) <=> CanMirror(g, r)
      BY <1>8 DEF Can, TunnelOps
    <2>2. MirrorBridge(g, r) \subseteq DOMAIN g
      BY DEF MirrorBridge, Holders
    <2>3. \A j \in g[r.key].refs : j \in DOMAIN g
      BY TypedRow DEF Schema
    <2>4. Selected(g, r) \subseteq DOMAIN g
      BY <2>1, <2>3 DEF Selected, CanMirror
    <2>5. \A k \in DOMAIN g : \A j \in g[k].links : j \in DOMAIN g
      BY LinkTables DEF Schema
    <2>6. Members(g, Selected(g, r)) \subseteq DOMAIN g
      BY <2>4, <2>5 DEF Members
    <2>7. Before(g, r) = MirrorBefore(g, r)
      BY <1>8 DEF Before
    <2> QED  BY <2>2, <2>4, <2>6, <2>7 DEF MirrorBefore
  <1> QED  BY <1>1, <1>2, <1>3, <1>4, <1>5, <1>6, <1>7, <1>8
           DEF RowOps, PortOps, InterfaceOps, BridgeOps, FieldOps, LifecycleOps, ListOps, TreeOps

LEMMA TunnelTables ==
    ASSUME NEW g, Schema(g), NEW r, Request(r), r.op \in TunnelOps, r.key \in DOMAIN g, NEW k \in Before(g, r)
    PROVE  Table(k) \in {"Bridge", "Port", "Interface"}
  <1>1. CASE r.op = "tunnel.create"
    <2>1. k = r.key
      BY <1>1 DEF Before, MirrorOps
    <2>2. Table(r.key) = "Bridge"
      BY <1>1 DEF Request, Subject, PortOps, InterfaceOps, BridgeOps
    <2> QED  BY <2>1, <2>2
  <1>2. CASE r.op \in {"tunnel.configure", "tunnel.delete"}
    <2>1. k \in Loaded(g, r.key)
      BY <1>2 DEF Before, MirrorOps
    <2>2. Table(r.key) = "Port"
      BY <1>2 DEF Request, Subject, PortOps
    <2>3. k \in g[r.key].links => Table(k) = "Interface"
      BY <2>2, LinkTables DEF Schema
    <2>4. k \in Holders(g, r.key) => Table(k) = "Bridge"
      BY <2>2, HolderTables DEF Schema
    <2> QED  BY <2>1, <2>2, <2>3, <2>4 DEF Loaded
  <1> QED  BY <1>1, <1>2 DEF TunnelOps

LEMMA RowsStaged ==
    ASSUME NEW g, Schema(g), NEW r, Request(r), r.op \in RowOps, r.key \in DOMAIN g, Can(g, r), NEW ids
    PROVE  Staged(GraphIntent(g, r, ids))
  <1> DEFINE i == GraphIntent(g, r, ids)
  <1>1. /\ IsFunction(i) /\ DOMAIN i = DOMAIN Blank /\ i.dir = "go" /\ i.op = r.op
        /\ DOMAIN i.from = Before(g, r)
        /\ i.dep = Image(g, GraphScope(g, r.op, Before(g, r)))
        /\ i.was = Image(g, Compared(r.op, Before(g, r), Doomed(i) # {}))
    BY GraphIntentFields
  <1> HIDE DEF i
  <1>2. r.op \notin FieldOps \cup LifecycleOps
    BY DEF RowOps
  <1>3. GraphScope(g, r.op, Before(g, r)) = Cells({Root}, {"id", "ctl", "other"})
    BY <1>2 DEF GraphScope, LifecycleOps
  <1>4. Compared(r.op, Before(g, r), Doomed(i) # {}) = UNION {Config(k) : k \in Before(g, r)}
    BY <1>2 DEF Compared, LifecycleOps
  <1>5. DOMAIN i.dep = Cells({Root}, {"id", "ctl", "other"})
    BY <1>1, <1>3 DEF Image
  <1>6. DOMAIN i.was = UNION {Config(k) : k \in DOMAIN i.from}
    BY <1>1, <1>4 DEF Image
  <1>7. ASSUME NEW k \in DOMAIN i.from PROVE i.was[<<k, "id">>] # {}
    <2>1. k \in DOMAIN g
      BY <1>1, BeforePresent
    <2>2. <<k, "id">> \in Config(k)
      BY WholeCells, CellsOf DEF Config
    <2>3. <<k, "id">> \in DOMAIN i.was
      BY <1>6, <2>2
    <2>4. i.was[<<k, "id">>] = Col(g, <<k, "id">>)
      BY <1>1, <2>3 DEF Image
    <2> QED  BY <2>1, <2>4 DEF Col
  <1>8. i.op \in TunnelOps => \A k \in DOMAIN i.from : Table(k) \in {"Bridge", "Port", "Interface"}
    BY <1>1, TunnelTables
  <1>9. StagedRows(i)
    BY <1>5, <1>6, <1>7, <1>8 DEF StagedRows
  <1> QED  BY <1>1, <1>2, <1>9 DEF Staged, i

\* What the parent of an internal port has captured tells its local port's links.
ScopeOf(g, bs) ==
    {<<Root, "id">>} \cup
    UNION {(Whole(b) \ {<<b, "links">>}) \cup Exact({Local(b)} \cup g[Local(b)].links) : b \in bs}

LEMMA LocalLinks ==
    ASSUME NEW g, NEW bs, NEW b \in bs
    PROVE  <<Local(b), "links">> \in ScopeOf(g, bs)
  <1>1. Table(Local(b)) = "Port"
    BY DEF Local, PortOf, Table
  <1>2. <<Local(b), "links">> \in Whole(Local(b))
    BY WholeCells
  <1>3. Whole(Local(b)) \subseteq Exact({Local(b)} \cup g[Local(b)].links)
    BY <1>1 DEF Exact
  <1> DEFINE part(x) == (Whole(x) \ {<<x, "links">>}) \cup Exact({Local(x)} \cup g[Local(x)].links)
  <1>4. <<Local(b), "links">> \in part(b)
    BY <1>2, <1>3
  <1>5. ScopeOf(g, bs) = {<<Root, "id">>} \cup UNION {part(x) : x \in bs}
    BY DEF ScopeOf
  <1> HIDE DEF part
  <1> QED  BY <1>4, <1>5

LEMMA ParentCovered ==
    ASSUME NEW g, NEW h, NEW bs, \A b \in bs : Local(b) \in DOMAIN g,
           NEW dep, dep = Image(g, ScopeOf(g, bs)), Image(h, DOMAIN dep) = dep
    PROVE  DOMAIN dep = ScopeOf(h, bs)
  <1>1. DOMAIN dep = ScopeOf(g, bs)
    BY DEF Image
  <1>2. Agree(g, h, ScopeOf(g, bs))
    BY <1>1, ImageAgrees
  <1>3. ASSUME NEW b \in bs PROVE h[Local(b)].links = g[Local(b)].links
    <2>1. Col(g, <<Local(b), "links">>) = Col(h, <<Local(b), "links">>)
      BY <1>2, LocalLinks DEF Agree
    <2> QED  BY <2>1, LinksCell
  <1> QED  BY <1>1, <1>3 DEF ScopeOf

\* The tables of the keys that a name has.
LEMMA NamesOf ==
    ASSUME NEW k
    PROVE  /\ Table(PortOf(k)) = "Port" /\ Name(PortOf(k)) = Name(k)
           /\ Table(InterfaceOf(k)) = "Interface" /\ Name(InterfaceOf(k)) = Name(k)
           /\ IsKey(k) /\ Table(k) = "Bridge" => k = <<"Bridge", Name(k)>>
           /\ IsKey(k) /\ Table(k) = "Port" => k = PortOf(k)
  BY DEF PortOf, InterfaceOf, Table, Name, IsKey

LEMMA BridgeCreationStaged ==
    ASSUME NEW g, NEW r, Request(r), r.op = "bridge.create", NEW ids
    PROVE  StagedLifecycle(GraphIntent(g, r, ids))
  <1> DEFINE i == GraphIntent(g, r, ids)
             b == r.key
  <1>1. /\ i.op = r.op /\ DOMAIN i.from = Before(g, r) /\ DOMAIN i.to = DOMAIN After(g, r)
        /\ i.dep = Image(g, GraphScope(g, r.op, Before(g, r)))
        /\ i.was = Image(g, Compared(r.op, Before(g, r), Doomed(i) # {}))
    BY GraphIntentFields
  <1> HIDE DEF i
  <1>2. Table(b) = "Bridge" /\ IsKey(b)
    BY DEF Request, Subject, PortOps, InterfaceOps, BridgeOps
  <1>3. DOMAIN i.from = {}
    BY <1>1 DEF Before, MirrorOps
  <1>4. DOMAIN i.to = Graph(b)
    <2>1. After(g, r) = NewBridge(b)
      BY DEF After, MirrorOps
    <2>2. DOMAIN NewBridge(b) = Graph(b)
      BY DEF NewBridge, With, Just, NewPortRow, NewInterface, Graph, Local
    <2> QED  BY <1>1, <2>1, <2>2
  <1>5. Fresh(i) = Graph(b) /\ Doomed(i) = {} /\ Parents(i) = {}
    BY <1>3, <1>4 DEF Fresh, Doomed, Parents
  <1>6. ASSUME NEW h PROVE DOMAIN i.dep = ParentScope(i, h)
    <2>1. GraphScope(g, r.op, Before(g, r)) = {<<Root, "id">>}
      BY DEF GraphScope
    <2>2. DOMAIN i.dep = {<<Root, "id">>}
      BY <1>1, <2>1 DEF Image
    <2>3. ParentScope(i, h) = {<<Root, "id">>}
      BY <1>5 DEF ParentScope
    <2> QED  BY <2>2, <2>3
  <1>7. DOMAIN i.was = Exact(Doomed(i)) \cup Cells(Parents(i), {"ports"})
    <2>1. Compared(r.op, Before(g, r), Doomed(i) # {}) = Cells({}, {"id"})
      BY <1>1, <1>3 DEF Compared
    <2>2. DOMAIN i.was = Cells({}, {"id"})
      BY <1>1, <2>1 DEF Image
    <2>3. Exact({}) = {} /\ Cells({}, {"id"}) = {} /\ Cells({}, {"ports"}) = {}
      BY DEF Exact, Cells
    <2> QED  BY <1>5, <2>2, <2>3
  <1>8. ASSUME NEW k \in Fresh(i), NEW t \in {"Bridge", "Port", "Interface"}
        PROVE  <<t, Name(k)>> \in Fresh(i)
    <2>1. Name(k) = Name(b)
      BY <1>5, NamesOf DEF Graph
    <2>2. b = <<"Bridge", Name(b)>>
      BY <1>2, NamesOf
    <2> QED  BY <1>5, <2>1, <2>2 DEF Graph, PortOf, InterfaceOf
  <1>9. StagedLifecycle(i)
    BY <1>1, <1>5, <1>6, <1>7, <1>8 DEF StagedLifecycle
  <1> QED  BY <1>9 DEF i

\* The rows of a deletion, as they are stored.
LEMMA CanonicalRow ==
    ASSUME NEW op, NEW k, NEW row
    PROVE  LET c == Canonical(op, k, row) IN
           c.refs = {} /\ c.links = {j \in row.links : Table(j) \in {"Port", "Interface"}}
  BY DEF Canonical, Row

LEMMA StoredRow ==
    ASSUME NEW g, NEW r, NEW k \in Before(g, r), Deletes(r.op, k)
    PROVE  /\ Stored(g, r)[k].refs = {}
           /\ Stored(g, r)[k].links = {j \in g[k].links : Table(j) \in {"Port", "Interface"}}
  <1>1. Stored(g, r)[k] = Canonical(r.op, k, g[k])
    BY DEF Stored
  <1> QED  BY <1>1, CanonicalRow

LEMMA BridgeDeletionStaged ==
    ASSUME NEW g, Schema(g), NEW r, Request(r), r.op = "bridge.delete", r.key \in DOMAIN g,
           Can(g, r), NEW ids
    PROVE  StagedLifecycle(GraphIntent(g, r, ids))
  <1> DEFINE i == GraphIntent(g, r, ids)
             b == r.key
  <1>1. /\ i.op = r.op /\ DOMAIN i.from = Before(g, r) /\ DOMAIN i.to = DOMAIN After(g, r)
        /\ i.from = Stored(g, r)
        /\ i.dep = Image(g, GraphScope(g, r.op, Before(g, r)))
        /\ i.was = Image(g, Compared(r.op, Before(g, r), Doomed(i) # {}))
    BY GraphIntentFields
  <1> HIDE DEF i
  <1>2. Table(b) = "Bridge" /\ IsKey(b)
    BY DEF Request, Subject, PortOps, InterfaceOps, BridgeOps
  <1>3. Before(g, r) = Graph(b) /\ DOMAIN After(g, r) = {}
    BY DEF Before, After, MirrorOps
  <1>4. Fresh(i) = {} /\ Doomed(i) = Graph(b) /\ Parents(i) = {}
    BY <1>1, <1>3 DEF Fresh, Doomed, Parents
  <1>5. IsolatedBridge(g, b)
    BY DEF Can, MirrorOps, TunnelOps
  <1>6. ASSUME NEW h PROVE DOMAIN i.dep = ParentScope(i, h)
    <2>1. GraphScope(g, r.op, Before(g, r)) = {<<Root, "id">>}
      BY DEF GraphScope
    <2>2. DOMAIN i.dep = {<<Root, "id">>}
      BY <1>1, <2>1 DEF Image
    <2>3. ParentScope(i, h) = {<<Root, "id">>}
      BY <1>4 DEF ParentScope
    <2> QED  BY <2>2, <2>3
  <1>7. DOMAIN i.was = Exact(Doomed(i)) \cup Cells(Parents(i), {"ports"})
    <2>1. Doomed(i) # {}
      BY <1>4 DEF Graph
    <2>2. Compared(r.op, Before(g, r), Doomed(i) # {}) = Exact(Graph(b))
      BY <1>3, <2>1 DEF Compared
    <2>3. DOMAIN i.was = Exact(Graph(b))
      BY <1>1, <2>2 DEF Image
    <2>4. Cells({}, {"ports"}) = {}
      BY DEF Cells
    <2> QED  BY <1>4, <2>3, <2>4
  <1>8. ASSUME NEW k \in Doomed(i)
        PROVE  /\ Table(k) \in {"Bridge", "Port", "Interface"}
               /\ i.from[k].refs = {} /\ i.from[k].links \subseteq Doomed(i)
    <2>1. Table(k) \in {"Bridge", "Port", "Interface"}
      BY <1>2, <1>4, NamesOf DEF Graph
    <2>2. /\ i.from[k].refs = {}
          /\ i.from[k].links = {j \in g[k].links : Table(j) \in {"Port", "Interface"}}
      BY <1>1, <1>3, <1>4, StoredRow DEF Deletes, DeletionOps
    <2>3. ASSUME NEW j \in g[b].links, Table(j) \in {"Port", "Interface"} PROVE j \in Graph(b)
      <3>1. Table(j) \in {"Port", "Mirror"}
        BY <1>2, LinkTables DEF Schema
      <3>2. j \in Ports(g, b)
        BY <2>3, <3>1 DEF Ports
      <3> QED  BY <1>5, <3>2 DEF IsolatedBridge, Graph, Local
    <2>4. ASSUME NEW j \in g[PortOf(b)].links PROVE j \in Graph(b)
      BY <1>5 DEF IsolatedBridge, Graph, Local
    <2>5. ASSUME NEW j \in g[InterfaceOf(b)].links PROVE FALSE
      <3>1. PortOf(b) \in DOMAIN g
        <4>1. PortOf(b) \in g[b].links
          BY <1>5 DEF IsolatedBridge, Ports, Local
        <4> QED  BY <4>1, LinkTables DEF Schema
      <3>2. InterfaceOf(b) \in g[PortOf(b)].links
        BY <1>5 DEF IsolatedBridge, Local
      <3>3. InterfaceOf(b) \in DOMAIN g
        BY <3>1, <3>2, LinkTables DEF Schema
      <3> QED  BY <3>3, NamesOf, LinkTables DEF Schema
    <2>6. k \in {b, PortOf(b), InterfaceOf(b)}
      BY <1>4 DEF Graph
    <2>7. i.from[k].links \subseteq Graph(b)
      BY <2>2, <2>3, <2>4, <2>5, <2>6
    <2> QED  BY <1>4, <2>1, <2>2, <2>7
  <1>9. StagedLifecycle(i)
    BY <1>1, <1>4, <1>6, <1>7, <1>8 DEF StagedLifecycle, DeletionOps
  <1> QED  BY <1>9 DEF i

LEMMA InternalCreationStaged ==
    ASSUME NEW g, Schema(g), NEW r, Request(r), r.op = "internal.create", r.key \in DOMAIN g,
           Can(g, r), NEW ids
    PROVE  StagedLifecycle(GraphIntent(g, r, ids))
  <1> DEFINE i == GraphIntent(g, r, ids)
             b == r.key
             p == r.on
  <1>1. /\ i.op = r.op /\ DOMAIN i.from = Before(g, r) /\ DOMAIN i.to = DOMAIN After(g, r)
        /\ i.dep = Image(g, GraphScope(g, r.op, Before(g, r)))
        /\ i.was = Image(g, Compared(r.op, Before(g, r), Doomed(i) # {}))
    BY GraphIntentFields
  <1> HIDE DEF i
  <1>2. Table(b) = "Bridge" /\ IsKey(b) /\ Table(p) = "Port" /\ IsKey(p)
    BY DEF Request, Subject, PortOps, InterfaceOps, BridgeOps, SecondOps, Second
  <1>3. DOMAIN i.from = {b}
    BY <1>1 DEF Before, MirrorOps
  <1>4. DOMAIN i.to = {b, p, InterfaceOf(p)}
    <2>1. After(g, r) = With(InternalPort(p, r.v), Relinked(Sub(g, {b}), b, {}, {p}))
      BY DEF After, MirrorOps
    <2>2. DOMAIN InternalPort(p, r.v) = {p, InterfaceOf(p)}
      BY DEF InternalPort, With, Just, NewInterface
    <2>3. DOMAIN Relinked(Sub(g, {b}), b, {}, {p}) = {b}
      BY DEF Relinked, Sub
    <2> DEFINE x == InternalPort(p, r.v)
               y == Relinked(Sub(g, {b}), b, {}, {p})
    <2>4. DOMAIN With(x, y) = DOMAIN x \cup DOMAIN y
      BY WithDomain
    <2>5. DOMAIN x \cup DOMAIN y = {b, p, InterfaceOf(p)}
      BY <2>2, <2>3
    <2> QED  BY <1>1, <2>1, <2>4, <2>5
  <1>5. Fresh(i) = {p, InterfaceOf(p)} /\ Doomed(i) = {} /\ Parents(i) = {b} /\ BridgesOf(i.to) = {b}
    BY <1>2, <1>3, <1>4, NamesOf DEF Fresh, Doomed, Parents, BridgesOf
  <1>6. CanCreateInternal(g, r)
    BY DEF Can, MirrorOps, TunnelOps
  <1>7. ASSUME NEW h, Agreeing(i, h) PROVE DOMAIN i.dep = ParentScope(i, h)
    <2>1. {k \in Before(g, r) : Table(k) = "Bridge"} = {b}
      BY <1>1, <1>2, <1>3
    <2>2. GraphScope(g, r.op, Before(g, r)) = ScopeOf(g, {b})
      BY <2>1 DEF GraphScope, ScopeOf
    <2>3. Local(b) \in DOMAIN g
      BY <1>6, LinkTables DEF Schema, CanCreateInternal, Ports
    <2>4. Image(h, DOMAIN i.dep) = i.dep
      BY <1>7 DEF Agreeing
    <2>5. DOMAIN i.dep = ScopeOf(h, {b})
      BY <1>1, <2>2, <2>3, <2>4, ParentCovered
    <2> QED  BY <1>5, <2>5 DEF ScopeOf, ParentScope
  <1>8. DOMAIN i.was = Exact(Doomed(i)) \cup Cells(Parents(i), {"ports"})
    <2>1. {k \in Before(g, r) : Table(k) = "Bridge"} = {b} /\ Before(g, r) \ {b} = {}
      BY <1>1, <1>2, <1>3
    <2>2. Compared(r.op, Before(g, r), Doomed(i) # {}) = Cells({b}, {"ports"}) \cup Cells({}, {"id"})
      BY <1>5, <2>1 DEF Compared
    <2>3. DOMAIN i.was = Cells({b}, {"ports"}) \cup Cells({}, {"id"})
      BY <1>1, <2>2 DEF Image
    <2>4. Exact({}) = {} /\ Cells({}, {"id"}) = {}
      BY DEF Exact, Cells
    <2> QED  BY <1>5, <2>3, <2>4
  <1>9. ASSUME NEW k \in Fresh(i), NEW t \in {"Bridge", "Port", "Interface"}
        PROVE  <<t, Name(k)>> \in Fresh(i) \cup (Shadowed(i) \ DOMAIN i.from)
    <2>1. Name(k) = Name(p) /\ p = PortOf(p)
      BY <1>2, <1>5, NamesOf
    <2>2. t # "Bridge" => <<t, Name(k)>> \in Fresh(i)
      BY <1>5, <2>1 DEF PortOf, InterfaceOf
    <2>3. <<"Bridge", Name(p)>> \in Shadowed(i)
      BY <1>2, <1>4, <1>5 DEF Shadowed, Owns
    <2>4. <<"Bridge", Name(p)>> # b
      BY <1>2, <1>6 DEF CanCreateInternal, NameFree, Name
    <2> QED  BY <1>3, <2>1, <2>2, <2>3, <2>4
  <1>10. StagedLifecycle(i)
    BY <1>1, <1>5, <1>7, <1>8, <1>9 DEF StagedLifecycle
  <1> QED  BY <1>10 DEF i

LEMMA InternalDeletionStaged ==
    ASSUME NEW g, Schema(g), NEW r, Request(r), r.op = "internal.delete", r.key \in DOMAIN g,
           Can(g, r), NEW ids
    PROVE  StagedLifecycle(GraphIntent(g, r, ids))
  <1> DEFINE i == GraphIntent(g, r, ids)
             p == r.key
             n == InterfaceOf(p)
  <1>1. /\ i.op = r.op /\ DOMAIN i.from = Before(g, r) /\ DOMAIN i.to = DOMAIN After(g, r)
        /\ i.from = Stored(g, r)
        /\ i.dep = Image(g, GraphScope(g, r.op, Before(g, r)))
        /\ i.was = Image(g, Compared(r.op, Before(g, r), Doomed(i) # {}))
    BY GraphIntentFields
  <1> HIDE DEF i
  <1>2. Table(p) = "Port" /\ IsKey(p)
    BY DEF Request, Subject, PortOps
  <1>3. OwnInternalPort(g, p)
    BY DEF Can, MirrorOps, TunnelOps
  <1>4. PICK b \in Rows(g, "Bridge") :
            /\ Holders(g, p) = {b} /\ p # Local(b) /\ InternalParent(g, b) /\ g[p].links = {n}
    BY <1>3 DEF OwnInternalPort
  <1>5. b \in DOMAIN g /\ Table(b) = "Bridge" /\ Table(n) = "Interface"
    BY NamesOf DEF Rows
  <1>6. Before(g, r) = {p, b, n} /\ DOMAIN After(g, r) = {b}
    <2>1. Before(g, r) = Loaded(g, p) /\ After(g, r) = PortDeleted(g, p)
      BY DEF Before, After, MirrorOps
    <2>2. Loaded(g, p) = {p, b, n}
      BY <1>4 DEF Loaded
    <2>3. DOMAIN PortDeleted(g, p) = {b}
      BY <1>4 DEF PortDeleted
    <2> QED  BY <2>1, <2>2, <2>3
  <1>7. Fresh(i) = {} /\ Doomed(i) = {p, n} /\ Parents(i) = {b} /\ BridgesOf(i.to) = {b}
    BY <1>1, <1>2, <1>5, <1>6 DEF Fresh, Doomed, Parents, BridgesOf
  <1>8. ASSUME NEW h, Agreeing(i, h) PROVE DOMAIN i.dep = ParentScope(i, h)
    <2>1. {k \in Before(g, r) : Table(k) = "Bridge"} = {b}
      BY <1>2, <1>5, <1>6
    <2>2. GraphScope(g, r.op, Before(g, r)) = ScopeOf(g, {b})
      BY <2>1 DEF GraphScope, ScopeOf
    <2>3. Local(b) \in DOMAIN g
      BY <1>4, <1>5, LinkTables DEF Schema, InternalParent, LocalInternal, Ports
    <2>4. Image(h, DOMAIN i.dep) = i.dep
      BY <1>8 DEF Agreeing
    <2>5. DOMAIN i.dep = ScopeOf(h, {b})
      BY <1>1, <2>2, <2>3, <2>4, ParentCovered
    <2> QED  BY <1>7, <2>5 DEF ScopeOf, ParentScope
  <1>9. DOMAIN i.was = Exact(Doomed(i)) \cup Cells(Parents(i), {"ports"})
    <2>1. {k \in Before(g, r) : Table(k) = "Bridge"} = {b} /\ Before(g, r) \ {b} = {p, n}
      BY <1>2, <1>5, <1>6
    <2>2. Compared(r.op, Before(g, r), Doomed(i) # {}) = Cells({b}, {"ports"}) \cup Exact({p, n})
      BY <1>7, <2>1 DEF Compared
    <2>3. DOMAIN i.was = Cells({b}, {"ports"}) \cup Exact({p, n})
      BY <1>1, <2>2 DEF Image
    <2> QED  BY <1>7, <2>3
  <1>10. ASSUME NEW k \in Doomed(i)
        PROVE  /\ Table(k) \in {"Bridge", "Port", "Interface"}
               /\ i.from[k].refs = {} /\ i.from[k].links \subseteq Doomed(i)
    <2>1. /\ i.from[k].refs = {}
          /\ i.from[k].links = {j \in g[k].links : Table(j) \in {"Port", "Interface"}}
      BY <1>1, <1>2, <1>5, <1>6, <1>7, StoredRow DEF Deletes, DeletionOps
    <2>2. n \in DOMAIN g
      BY <1>4, LinkTables DEF Schema
    <2>3. ASSUME NEW j \in g[n].links PROVE FALSE
      BY <1>5, <2>2, LinkTables DEF Schema
    <2> QED  BY <1>2, <1>4, <1>5, <1>7, <2>1, <2>3
  <1>11. Local(b) \notin Doomed(i) /\ InterfaceOf(b) \notin Doomed(i)
    <2>1. Table(Local(b)) = "Port" /\ Table(InterfaceOf(b)) = "Interface"
      BY NamesOf DEF Local
    <2>2. InterfaceOf(b) # n
      <3>1. p = PortOf(p)
        BY <1>2, NamesOf
      <3> QED  BY <1>4, <3>1 DEF InterfaceOf, PortOf, Local
    <2> QED  BY <1>2, <1>4, <1>5, <1>7, <2>1, <2>2
  <1>12. StagedLifecycle(i)
    BY <1>1, <1>7, <1>8, <1>9, <1>10, <1>11 DEF StagedLifecycle, DeletionOps
  <1> QED  BY <1>12 DEF i

LEMMA GraphIntentStaged ==
    ASSUME NEW g, Schema(g), NEW r, Request(r), r.op \notin FieldOps, Can(g, r),
           r.op # "bridge.create" => r.key \in DOMAIN g, NEW ids
    PROVE  Staged(GraphIntent(g, r, ids))
  <1> DEFINE i == GraphIntent(g, r, ids)
  <1>1. CASE r.op \in LifecycleOps
    <2>1. StagedLifecycle(i)
      BY <1>1, BridgeCreationStaged, BridgeDeletionStaged, InternalCreationStaged,
         InternalDeletionStaged DEF LifecycleOps
    <2>2. IsFunction(i) /\ DOMAIN i = DOMAIN Blank /\ i.dir = "go" /\ i.op = r.op
      BY GraphIntentFields
    <2> HIDE DEF i
    <2>3. Staged(i)
      BY <1>1, <2>1, <2>2 DEF Staged
    <2> QED  BY <2>3 DEF i
  <1>2. CASE r.op \notin LifecycleOps
    <2>1. r.op \in RowOps /\ r.op # "bridge.create"
      BY <1>2 DEF RowOps, Request, LifecycleOps
    <2> QED  BY <2>1, RowsStaged
  <1> QED  BY <1>1, <1>2

\* Staging a creation again changes a value of the new row only.
LEMMA SameRowsStaged ==
    ASSUME NEW i, NEW j, Staged(i), i.op \in LifecycleOps, IsFunction(j), DOMAIN j = DOMAIN Blank,
           j.op = i.op, j.dir = i.dir, j.dep = i.dep, j.was = i.was, j.from = i.from,
           DOMAIN j.to = DOMAIN i.to
    PROVE  Staged(j)
  <1>1. StagedLifecycle(i) /\ i.op \notin FieldOps
    BY DEF Staged, FieldOps, ListOps, TreeOps, LifecycleOps
  <1>2. /\ Fresh(j) = Fresh(i) /\ Doomed(j) = Doomed(i) /\ Parents(j) = Parents(i)
        /\ BridgesOf(j.to) = BridgesOf(i.to) /\ Owns(j) = Owns(i)
    BY DEF Fresh, Doomed, Parents, BridgesOf, Owns
  <1>3. Shadowed(j) = Shadowed(i)
    BY <1>2 DEF Shadowed
  <1>4. \A g : Agreeing(j, g) <=> Agreeing(i, g)
    BY DEF Agreeing
  <1>5. \A g : ParentScope(j, g) = ParentScope(i, g)
    BY <1>2 DEF ParentScope
  <1>6. StagedLifecycle(j)
    BY <1>1, <1>2, <1>3, <1>4, <1>5 DEF StagedLifecycle
  <1> QED  BY <1>1, <1>6 DEF Staged

(***************************************************************************)
(* The invariant: until the transaction commits, server and view keep to   *)
(* the schema, every intent is as it was staged, and the transaction is    *)
(* compiled from rows on which the intents were checked.                   *)
(***************************************************************************)

Lawful == change.phase \in Before0 => Schema(db) /\ Schema(view.rows)
Drafted == (\A i \in draft.intents : Staged(i)) /\ \A i \in change.intents : Staged(i)
Reviewed ==
    change.phase = "ready" =>
        \E g : /\ Schema(g) /\ change.wait = Compiled(change.intents, g)
               /\ \A i \in change.intents : Agreeing(i, g) /\ Gate(i, g)
Review == Lawful /\ Drafted /\ Reviewed

LEMMA InitReview == Init => Review
  <1> SUFFICES ASSUME Init PROVE Review
    OBVIOUS
  <1>1. /\ net \in Networks /\ db = net.rows /\ view = Installed(reg, db)
        /\ draft.intents = {} /\ change.intents = {} /\ change.phase = "none"
    BY DEF Init, NativeInit, DraftInit, NoChange
  <1>2. Schema(net.rows)
    BY <1>1, SchemaAssumption
  <1>3. view.rows = db
    BY <1>1, InstalledFields
  <1> QED  BY <1>1, <1>2, <1>3 DEF Review, Lawful, Drafted, Reviewed

\* Nothing but the rows of the server and of the view changes.
LEMMA RowsReview ==
    ASSUME Review, UNCHANGED <<draft, change>>,
           change.phase \in Before0 => Schema(db') /\ Schema(view'.rows)
    PROVE  Review'
  <1>1. draft' = draft /\ change' = change
    OBVIOUS
  <1> QED  BY <1>1 DEF Review, Lawful, Drafted, Reviewed

LEMMA ForeignEditReview ==
    ASSUME Inv, Review, ForeignEdit, UNCHANGED <<draft, change>>
    PROVE  Review'
  <1>1. net \in Networks
    BY DEF Inv, Fixed
  <1>2. PICK e \in net.edits : db' = Edited(db, e, issued + 1)
    BY DEF ForeignEdit
  <1>3. Obedient(e)
    BY <1>1, <1>2, NativeAssumption, SchemaAssumption DEF Obedient
  <1>4. view' = view
    BY DEF ForeignEdit
  <1>5. change.phase \in Before0 => Schema(db') /\ Schema(view'.rows)
    BY <1>2, <1>3, <1>4, EditedSchema DEF Review, Lawful
  <1> QED  BY <1>5, RowsReview

LEMMA PublishReview ==
    ASSUME Inv, Review, Publish, UNCHANGED <<draft, change>>
    PROVE  Review'
  <1> DEFINE r == Reconciled(reg, db, Evidence, Classify(reg, Evidence))
  <1>1. db' = db /\ (view' = Installed(r, db) \/ view' = [view EXCEPT !.ok = FALSE])
    BY DEF Publish
  <1>2. "rows" \in DOMAIN view
    BY DEF Inv, Registered
  <1>3. view'.rows \in {db, view.rows}
    BY <1>1, <1>2, InstalledFields
  <1>4. change.phase \in Before0 => Schema(db') /\ Schema(view'.rows)
    BY <1>1, <1>3 DEF Review, Lawful
  <1> QED  BY <1>4, RowsReview

LEMMA AcceptReview ==
    ASSUME Inv, Review, Accept, UNCHANGED <<draft, change>>
    PROVE  Review'
  <1>1. db' = db /\ view' = Installed(Reconciled(reg, view.rows, view.evidence, "new"), view.rows)
    BY DEF Accept
  <1>2. view'.rows = view.rows
    BY <1>1, InstalledFields
  <1>3. change.phase \in Before0 => Schema(db') /\ Schema(view'.rows)
    BY <1>1, <1>2 DEF Review, Lawful
  <1> QED  BY <1>3, RowsReview

LEMMA BreakReview ==
    ASSUME Inv, Review, Break, UNCHANGED <<draft, change>>
    PROVE  Review'
  <1>1. Schema(net.rows) /\ "rows" \in DOMAIN view
    BY SchemaAssumption DEF Inv, Fixed, Registered
  <1>2. CASE Away
    <2>1. db' = db /\ view'.rows = view.rows
      BY <1>1, <1>2 DEF Away
    <2> QED  BY <2>1, RowsReview DEF Review, Lawful
  <1>3. CASE Reboot
    <2>1. db' = db /\ view' = view
      BY <1>3 DEF Reboot
    <2> QED  BY <2>1, RowsReview DEF Review, Lawful
  <1>4. CASE Rewind
    <2>1. db' = net.rows /\ view' = view
      BY <1>4 DEF Rewind
    <2> QED  BY <1>1, <2>1, RowsReview DEF Review, Lawful
  <1>5. CASE Reroot
    <2>1. PICK ids : db' = Renewed(db, ids)
      BY <1>5 DEF Reroot
    <2>2. view' = view
      BY <1>5 DEF Reroot
    <2> QED  BY <2>1, <2>2, RenewedSchema, RowsReview DEF Review, Lawful
  <1>6. CASE Replace
    <2>1. PICK ids : db' = Renewed(db, ids)
      BY <1>6 DEF Replace
    <2>2. view' = view
      BY <1>6 DEF Replace
    <2> QED  BY <2>1, <2>2, RenewedSchema, RowsReview DEF Review, Lawful
  <1> QED  BY <1>2, <1>3, <1>4, <1>5, <1>6 DEF Break

LEMMA StageFieldStaged ==
    ASSUME Schema(view.rows), \A i \in draft.intents : Staged(i), DOMAIN draft = DraftFields,
           NEW r, Request(r), r.op \in FieldOps, StageField(r)
    PROVE  \A i \in draft'.intents : Staged(i)
  <1>1. r.key \in DOMAIN view.rows /\ Table(r.key) = Subject(r.op)
    BY DEF StageField, Request
  <1>2. \/ Replaced({}, {FieldIntent(view.rows, r)})
        \/ \E i \in Prior(r) : Amendable(i, view.rows, r.v) /\ Replaced({i}, {Amended(i, view.rows, r.v)})
    BY DEF StageField
  <1>3. PICK out, j : Replaced(out, {j}) /\ Staged(j)
    <2>1. CASE Replaced({}, {FieldIntent(view.rows, r)})
      <3>1. Staged(FieldIntent(view.rows, r))
        BY <1>1, FieldIntentStaged
      <3> QED  BY <2>1, <3>1
    <2>2. CASE \E i \in Prior(r) : /\ Amendable(i, view.rows, r.v)
                                   /\ Replaced({i}, {Amended(i, view.rows, r.v)})
      <3>1. PICK i \in Prior(r) : /\ Amendable(i, view.rows, r.v)
                                  /\ Replaced({i}, {Amended(i, view.rows, r.v)})
        BY <2>2
      <3>2. Staged(i) /\ i.op \in FieldOps /\ i.key \in DOMAIN view.rows /\ AmendableMtu(i, r.v)
        BY <1>1, <3>1 DEF Prior, Amendable
      <3>3. Staged(Amended(i, view.rows, r.v))
        BY <3>2, AmendedStaged
      <3> QED  BY <3>1, <3>3
    <2> QED  BY <1>2, <2>1, <2>2
  <1>4. draft'.intents = (draft.intents \ out) \cup {j}
    BY <1>3, ReplacedDraft
  <1> QED  BY <1>3, <1>4

LEMMA StageGraphStaged ==
    ASSUME Schema(view.rows), DOMAIN draft = DraftFields,
           NEW r, Request(r), r.op \notin FieldOps, StageGraph(r)
    PROVE  \A i \in draft'.intents : Staged(i)
  <1> DEFINE rows == Picks(view.rows, r).fresh \cup Picks(view.rows, r).doomed
             i(ids) == GraphIntent(view.rows, r, ids)
             count == Cardinality(rows)
  <1>1. \E ids \in Assigned(rows, issued + 1) :
            draft' = [draft EXCEPT !.intents = {i(ids)}, !.picked = @ + count]
    BY DEF StageGraph
  <1>2. PICK ids : draft' = [draft EXCEPT !.intents = {i(ids)}, !.picked = @ + count]
    BY <1>1
  <1>3. Can(view.rows, r) /\ (r.op # "bridge.create" => r.key \in DOMAIN view.rows)
    BY DEF StageGraph
  <1>4. Staged(i(ids))
    BY <1>3, GraphIntentStaged
  <1> HIDE DEF i, count
  <1>5. draft'.intents = {i(ids)}
    BY <1>2 DEF DraftFields
  <1> QED  BY <1>4, <1>5

LEMMA RestageInternalStaged ==
    ASSUME \A i \in draft.intents : Staged(i), DOMAIN draft = DraftFields, NEW r, RestageInternal(r)
    PROVE  \A i \in draft'.intents : Staged(i)
  <1>1. PICK i \in Prior(r) : /\ r.on \in Fresh(i)
                              /\ Replaced({i}, {[i EXCEPT !.to[r.on].cfg.vlan = r.v]})
    BY DEF RestageInternal
  <1> DEFINE j == [i EXCEPT !.to[r.on].cfg.vlan = r.v]
  <1>2. i \in draft.intents /\ i.op = "internal.create" /\ Staged(i)
    BY DEF Prior, RestageInternal
  <1>3. IsFunction(i) /\ DOMAIN i = DOMAIN Blank /\ i.op \in LifecycleOps
    BY <1>2 DEF Staged, LifecycleOps
  <1>4. /\ IsFunction(j) /\ DOMAIN j = DOMAIN Blank /\ j.op = i.op /\ j.dir = i.dir
        /\ j.dep = i.dep /\ j.was = i.was /\ j.from = i.from
        /\ j.to = [i.to EXCEPT ![r.on] = [@ EXCEPT !.cfg.vlan = r.v]]
    BY <1>3, BlankFields DEF IsFunction
  <1>5. Replaced({i}, {j})
    BY <1>1
  <1> HIDE DEF j
  <1>6. DOMAIN j.to = DOMAIN i.to
    BY <1>4
  <1>7. Staged(j)
    BY <1>2, <1>3, <1>4, <1>6, SameRowsStaged
  <1>8. draft'.intents = (draft.intents \ {i}) \cup {j}
    BY <1>5, ReplacedDraft
  <1> QED  BY <1>7, <1>8

LEMMA EditDraftReview ==
    ASSUME Inv, Review, EditDraft, UNCHANGED change
    PROVE  Review'
  <1>1. /\ DOMAIN draft = DraftFields /\ ~draft.consumed /\ net \in Networks
        /\ db' = db /\ view' = view /\ change' = change
    BY DEF Inv, Waiting, Fixed, DraftFields, EditDraft, Open
  <1>2. change.phase = "none"
    BY <1>1 DEF Inv, TypeOK
  <1>3. Schema(view.rows) /\ \A i \in draft.intents : Staged(i)
    BY <1>2 DEF Review, Lawful, Drafted, Before0
  <1>4. \A r \in net.requests : Request(r)
    BY <1>1, RequestAssumption DEF Request
  <1>5. \A i \in draft'.intents : Staged(i)
    <2>1. CASE \E r \in net.requests : r.op \in FieldOps /\ StageField(r)
      BY <1>1, <1>3, <1>4, <2>1, StageFieldStaged
    <2>2. CASE \E r \in net.requests : r.op \notin FieldOps /\ StageGraph(r)
      BY <1>1, <1>3, <1>4, <2>2, StageGraphStaged
    <2>3. CASE \E r \in net.requests : RestageInternal(r)
      BY <1>1, <1>3, <2>3, RestageInternalStaged
    <2>4. CASE \E i \in draft.intents : Remove(i)
      <3>1. PICK i \in draft.intents : Replaced({i}, {})
        BY <2>4 DEF Remove
      <3> QED  BY <1>1, <1>3, <3>1, ReplacedDraft
    <2>5. CASE Discard
      <3>1. Replaced(draft.intents, {})
        BY <2>5 DEF Discard
      <3> QED  BY <1>1, <1>3, <3>1, ReplacedDraft
    <2>6. CASE \E keep \in SUBSET draft.intents : Rebase(keep)
      <3>1. PICK keep \in SUBSET draft.intents : Rebase(keep)
        BY <2>6
      <3> DEFINE q(i) == [op |-> i.op, key |-> i.key, v |-> i.after]
                 again(i) == FieldIntent(view.rows, q(i))
                 s == {again(i) : i \in keep}
      <3>2. Replaced(draft.intents, s)
        BY <3>1 DEF Rebase
      <3>3. ASSUME NEW i \in keep PROVE Staged(again(i))
        <4>1. i \in draft.intents /\ i.op \in FieldOps /\ i.key \in DOMAIN view.rows
          BY <3>1 DEF Rebase, Rebasable, FieldOps
        <4>2. Table(i.key) = Subject(i.op)
          BY <1>3, <4>1 DEF Staged, StagedField
        <4>3. q(i).op = i.op /\ q(i).key = i.key
          OBVIOUS
        <4> HIDE DEF q
        <4> QED  BY <1>3, <4>1, <4>2, <4>3, FieldIntentStaged
      <3> HIDE DEF again
      <3>4. \A j \in s : Staged(j)
        BY <3>3
      <3> HIDE DEF s
      <3> QED  BY <1>1, <3>2, <3>4, ReplacedDraft
    <2> QED  BY <2>1, <2>2, <2>3, <2>4, <2>5, <2>6 DEF EditDraft
  <1> QED  BY <1>1, <1>5 DEF Review, Lawful, Drafted, Reviewed

LEMMA AdmitReview ==
    ASSUME Inv, Review, Admit
    PROVE  Review'
  <1>1. /\ DOMAIN draft = DraftFields /\ change.phase = "none" /\ db' = db /\ view' = view
        /\ \A i \in draft.intents : Checks(i, view.rows)
        /\ draft' = Consumed(draft)
    BY DEF Inv, Waiting, DraftFields, Admit
  <1>2. /\ change'.phase = "ready" /\ change'.intents = draft.intents
        /\ change'.wait = Compiled(draft.intents, view.rows)
    BY DEF Admit
  <1>3. draft'.intents = draft.intents
    BY <1>1 DEF Consumed, DraftFields
  <1>4. Schema(db) /\ Schema(view.rows) /\ \A i \in draft.intents : Staged(i)
    BY <1>1 DEF Review, Lawful, Drafted, Before0
  <1>5. \A i \in draft.intents : Agreeing(i, view.rows) /\ Gate(i, view.rows)
    BY <1>1, ChecksGate
  <1>6. Lawful' /\ Drafted'
    BY <1>1, <1>2, <1>3, <1>4 DEF Lawful, Drafted
  <1>7. Reviewed'
    BY <1>2, <1>4, <1>5 DEF Reviewed
  <1> QED  BY <1>6, <1>7 DEF Review

\* From the commit on, the intents stay.
LEMMA LaterReview ==
    ASSUME Inv, Review, draft' = draft, change'.intents = change.intents, change'.phase \notin Before0
    PROVE  Review'
  BY DEF Review, Lawful, Drafted, Reviewed, Before0

LEMMA NextReview == Inv /\ Review /\ [Next]_changeVars => Review'
  <1> SUFFICES ASSUME Inv, Review, [Next]_changeVars PROVE Review'
    OBVIOUS
  <1>0. DOMAIN change = ChangeFields
    BY DEF Inv, Fixed, ChangeFields
  <1>1. CASE ForeignEdit /\ UNCHANGED <<draft, change>>
    BY <1>1, ForeignEditReview
  <1>2. CASE Publish /\ UNCHANGED <<draft, change>>
    BY <1>2, PublishReview
  <1>3. CASE Accept /\ UNCHANGED <<draft, change>>
    BY <1>3, AcceptReview
  <1>4. CASE Break /\ UNCHANGED <<draft, change>>
    BY <1>4, BreakReview
  <1>5. CASE EditDraft /\ UNCHANGED change
    BY <1>5, EditDraftReview
  <1>6. CASE Admit
    BY <1>6, AdmitReview
  <1>7. CASE Commit
    <2>1. /\ draft' = draft
          /\ \/ change' = [change EXCEPT !.phase = "committed", !.wait = {}, !.at = done]
             \/ change' = [change EXCEPT !.phase = "refused", !.wait = {}]
      BY <1>7 DEF Commit
    <2>2. change'.intents = change.intents /\ change'.phase \notin Before0
      BY <1>0, <2>1 DEF ChangeFields, Before0
    <2> QED  BY <2>1, <2>2, LaterReview
  <1>8. CASE Confirm
    <2>1. draft' = draft /\ change' = [change EXCEPT !.phase = "confirmed"]
      BY <1>8 DEF Confirm
    <2>2. change'.intents = change.intents /\ change'.phase \notin Before0
      BY <1>0, <2>1 DEF ChangeFields, Before0
    <2> QED  BY <2>1, <2>2, LaterReview
  <1>9. CASE Withdraw
    <2>1. /\ draft' = draft
          /\ change' = [change EXCEPT !.phase = "undoing",
                                      !.wait = Compiled(Backwards(change.intents), view.rows)]
      BY <1>9 DEF Withdraw
    <2>2. change'.intents = change.intents /\ change'.phase \notin Before0
      BY <1>0, <2>1 DEF ChangeFields, Before0
    <2> QED  BY <2>1, <2>2, LaterReview
  <1>10. CASE Undo
    <2>1. /\ draft' = draft
          /\ \/ change' = [change EXCEPT !.phase = "rolled", !.wait = {}]
             \/ change' = [change EXCEPT !.phase = "committed", !.wait = {}]
      BY <1>10 DEF Undo
    <2>2. change'.intents = change.intents /\ change'.phase \notin Before0
      BY <1>0, <2>1 DEF ChangeFields, Before0
    <2> QED  BY <2>1, <2>2, LaterReview
  <1>11. CASE Restored
    <2>1. draft' = draft /\ change' = [change EXCEPT !.phase = "undone"]
      BY <1>11 DEF Restored
    <2>2. change'.intents = change.intents /\ change'.phase \notin Before0
      BY <1>0, <2>1 DEF ChangeFields, Before0
    <2> QED  BY <2>1, <2>2, LaterReview
  <1>12. CASE UNCHANGED changeVars
    <2>1. db' = db /\ view' = view /\ draft' = draft /\ change' = change
      BY <1>12 DEF changeVars, nativeVars
    <2> QED  BY <2>1 DEF Review, Lawful, Drafted, Reviewed
  <1> QED
    BY <1>1, <1>2, <1>3, <1>4, <1>5, <1>6, <1>7, <1>8, <1>9, <1>10, <1>11, <1>12 DEF Next

LEMMA ReviewInvariance == Spec => [](Inv /\ Review)
  <1>1. Init => Inv /\ Review
    BY InitInv, InitReview
  <1>2. (Inv /\ Review) /\ [Next]_changeVars => (Inv /\ Review)'
    BY NextInv, NextReview
  <1> QED  BY <1>1, <1>2, PTL DEF Spec

\* The step that commits.
LEMMA CommitReviewed ==
    ASSUME Inv, Review, [Next]_changeVars, change.phase = "ready", change'.phase = "committed",
           NEW i \in change.intents
    PROVE  Checks(Insisted(i, db), db)
  <1>0. DOMAIN change = ChangeFields
    BY DEF Inv, Fixed, ChangeFields
  <1>1. Commit
    <2>1. change' # change
      OBVIOUS
    <2>2. ~Admit /\ ~Confirm /\ ~Withdraw /\ ~Undo /\ ~Restored
      BY DEF Admit, Confirm, Withdraw, Undo, Restored
    <2> QED  BY <2>1, <2>2 DEF Next, changeVars
  <1>2. Sendable(change.intents) /\ \A w \in change.wait : Holds(w)
    <2>1. change' # [change EXCEPT !.phase = "refused", !.wait = {}]
      BY <1>0 DEF ChangeFields
    <2> QED  BY <1>1, <2>1 DEF Commit
  <1>3. Checks(i, view.rows)
    BY <1>2 DEF Sendable
  <1>4. PICK g : /\ Schema(g) /\ change.wait = Compiled(change.intents, g)
                 /\ \A j \in change.intents : Agreeing(j, g) /\ Gate(j, g)
    BY DEF Review, Reviewed
  <1>5. Holds(Wait(i, g))
    BY <1>2, <1>4 DEF Compiled
  <1>6. Schema(db) /\ Staged(i)
    BY DEF Review, Lawful, Drafted, Before0
  <1>7. SpareIds(i) \cap Present(db) = {}
    <2>1. SpareIds(i) \subseteq Spares(change.intents)
      BY DEF Spares
    <2>2. Spares(change.intents) \cap IdsOf(db) = {}
      BY DEF Inv, Waiting, Unused
    <2>3. Present(db) \subseteq IdsOf(db)
      BY DEF Present, IdsOf
    <2> QED  BY <2>1, <2>2, <2>3
  <1> QED  BY <1>3, <1>4, <1>5, <1>6, <1>7, IntentCommitted

-----------------------------------------------------------------------------
(* Results.                                                                *)

\* When the transaction of a change commits, the server's own rows have every
\* value that was captured while the draft was made and pass every check that
\* the change was admitted with, however old the draft and the view were: the
\* wait operations of a transaction leave out nothing that its checks looked at,
\* apart from the two exceptions that the property names.
THEOREM CommitsWhatWasReviewed == Spec => CommittedAsReviewed
  <1>1. Inv /\ Review /\ [Next]_changeVars =>
          [(change.phase = "ready" /\ change'.phase = "committed")
             => \A i \in change.intents : Checks(Insisted(i, db), db)]_changeVars
    BY CommitReviewed
  <1> QED  BY <1>1, ReviewInvariance, PTL DEF Spec, CommittedAsReviewed
=============================================================================
