----------------------------- MODULE UndoProofs -----------------------------
(***************************************************************************)
(* Changes, for every network, every set of requests and of foreign edits: *)
(* a change that was committed can be taken back, as long as nobody        *)
(* interferes and apart from the cases of Irreversible. The rows it left   *)
(* pass the checks of the reversed change, the manager still knows the     *)
(* server as the one it committed to, and the UUIDs for the rows that come *)
(* back are still reserved.                                                *)
(***************************************************************************)
EXTENDS ForeignProofs

-----------------------------------------------------------------------------
(* The reversed intent.                                                    *)

LEMMA ReverseFields ==
    ASSUME NEW i, DOMAIN i = DOMAIN Blank
    PROVE  LET j == Reverse(i) IN
           /\ j.op = i.op /\ j.key = i.key /\ j.id = i.id /\ j.gen = i.gen /\ j.f = i.f
           /\ j.before = i.after /\ j.after = i.before /\ j.ctx = i.ctx /\ j.dir = "back"
           /\ j.dep = i.dep /\ j.was = i.will /\ j.rest = i.rest /\ j.from = i.to
           /\ j.to = Marked(Renewed(i.from, i.spare), Doomed(i), "back")
           /\ j.old = IF i.op \in DeletionOps THEN i.old ELSE {i.to[k].id : k \in Fresh(i)}
  BY BlankFields DEF Reverse, Restoration

-----------------------------------------------------------------------------
(* Field changes. What they are judged by does not depend on the columns   *)
(* that they write.                                                        *)

\* h is g but for the columns in w and the markers of their rows.
Retouched(g, h, w) ==
    /\ DOMAIN h = DOMAIN g
    /\ \A k \in DOMAIN g :
          /\ h[k].id = g[k].id /\ h[k].links = g[k].links /\ h[k].refs = g[k].refs
          /\ h[k].ctl = g[k].ctl /\ h[k].made = g[k].made
          /\ (\A c \in w : c[1] # k) => h[k].mark = g[k].mark
          /\ \A f \in Fields(Table(k)) : <<k, f>> \notin w => h[k].cfg[f] = g[k].cfg[f]
Only(k, f) == {<<k, f>>}
WrittenCells(s) == {<<i.key, i.f>> : i \in s}

LEMMA WrittenField ==
    ASSUME NEW k, NEW row, IsRow(k, row), NEW i, NEW m
    PROVE  LET y == FieldWritten(row, i, m) IN
           /\ y.id = row.id /\ y.links = row.links /\ y.refs = row.refs /\ y.ctl = row.ctl
           /\ y.made = row.made /\ y.mark = m
           /\ \A f \in Fields(Table(k)) : f # i.f => y.cfg[f] = row.cfg[f]
           /\ i.f \in Fields(Table(k)) => y.cfg[i.f] = i.after
  <1>1. DOMAIN row = Columns /\ DOMAIN row.cfg = Fields(Table(k))
    BY DEF IsRow
  <1> QED  BY <1>1 DEF FieldWritten, Columns

\* Intents for different rows, each with a column of its own.
Apart(s) == \A i, j \in s : i.key = j.key => i = j

LEMMA FieldsRetouch ==
    ASSUME NEW g, Schema(g), NEW s, Apart(s), NEW m
    PROVE  LET h == FieldsWritten(g, s, m) IN
           /\ Retouched(g, h, WrittenCells(s)) /\ Schema(h)
           /\ \A i \in s : i.key \in DOMAIN g =>
                 /\ h[i.key].mark = m
                 /\ i.f \in Fields(Table(i.key)) => h[i.key].cfg[i.f] = i.after
  <1> DEFINE h == FieldsWritten(g, s, m)
             w == WrittenCells(s)
  <1>1. DOMAIN h = DOMAIN g /\ Schema(h)
    BY FieldsKeep
  <1>2. ASSUME NEW k \in DOMAIN g, NEW i \in s, i.key = k
        PROVE  h[k] = FieldWritten(g[k], i, m)
    <2>1. (CHOOSE j \in s : j.key = k) = i
      BY <1>2 DEF Apart
    <2> QED  BY <1>2, <2>1 DEF FieldsWritten
  <1>3. ASSUME NEW k \in DOMAIN g, \A i \in s : i.key # k PROVE h[k] = g[k]
    BY <1>3 DEF FieldsWritten
  <1> HIDE DEF h
  <1>4. ASSUME NEW k \in DOMAIN g
        PROVE  /\ h[k].id = g[k].id /\ h[k].links = g[k].links /\ h[k].refs = g[k].refs
               /\ h[k].ctl = g[k].ctl /\ h[k].made = g[k].made
               /\ (\A c \in w : c[1] # k) => h[k].mark = g[k].mark
               /\ \A f \in Fields(Table(k)) : <<k, f>> \notin w => h[k].cfg[f] = g[k].cfg[f]
    <2>1. CASE \A i \in s : i.key # k
      BY <1>3, <2>1
    <2>2. CASE \E i \in s : i.key = k
      <3>1. PICK i \in s : i.key = k
        BY <2>2
      <3>2. h[k] = FieldWritten(g[k], i, m) /\ <<k, i.f>> \in w
        BY <1>2, <3>1 DEF WrittenCells
      <3>3. IsRow(k, g[k])
        BY TypedRow DEF Schema
      <3> QED  BY <3>2, <3>3, WrittenField
    <2> QED  BY <2>1, <2>2
  <1>5. Retouched(g, h, w)
    BY <1>1, <1>4 DEF Retouched
  <1>6. ASSUME NEW i \in s, i.key \in DOMAIN g
        PROVE  /\ h[i.key].mark = m
               /\ i.f \in Fields(Table(i.key)) => h[i.key].cfg[i.f] = i.after
    <2>1. h[i.key] = FieldWritten(g[i.key], i, m) /\ IsRow(i.key, g[i.key])
      BY <1>2, <1>6, TypedRow DEF Schema
    <2> QED  BY <2>1, WrittenField
  <1> QED  BY <1>1, <1>5, <1>6 DEF h

\* Columns that are as they were.
Untouched(w, k, f) ==
    \/ f \in {"id", "links", "refs", "ports", "held", "ctl", "made"}
    \/ f = "mark" /\ \A c \in w : c[1] # k
    \/ f \in Fields(Table(k)) /\ <<k, f>> \notin w

LEMMA RetouchedHolders ==
    ASSUME NEW g, NEW h, NEW w, Retouched(g, h, w), NEW k
    PROVE  Holders(h, k) = Holders(g, k)
  BY DEF Retouched, Holders

LEMMA RetouchedCell ==
    ASSUME NEW g, Schema(g), NEW h, NEW w, Retouched(g, h, w), NEW k, NEW f, Untouched(w, k, f)
    PROVE  Col(g, <<k, f>>) = Col(h, <<k, f>>)
  <1>1. CASE k \notin DOMAIN g
    BY <1>1 DEF Col, Retouched
  <1>2. CASE k \in DOMAIN g
    <2>1. k \in DOMAIN h /\ \A j \in DOMAIN g : g[j].id = h[j].id
      BY <1>2 DEF Retouched
    <2>2. /\ g[k].links \subseteq DOMAIN g /\ g[k].refs \subseteq DOMAIN g /\ IsKey(k)
          /\ g[k].links = h[k].links /\ g[k].refs = h[k].refs
      BY <1>2, TypedRow DEF Schema, Retouched
    <2>3. Pairs(g, g[k].links) = Pairs(h, h[k].links) /\ Pairs(g, g[k].refs) = Pairs(h, h[k].refs)
      BY <2>1, <2>2, SamePairs
    <2>4. Pairs(g, {j \in g[k].links : Table(j) = "Port"}) = Pairs(h, {j \in h[k].links : Table(j) = "Port"})
      BY <2>1, <2>2, SamePairs
    <2>5. CASE f \in {"links", "refs", "ports"}
      <3>1. Value(g, k, f) = Value(h, k, f)
        BY <2>3, <2>4, <2>5 DEF Value
      <3> QED  BY <1>2, <2>1, <3>1 DEF Col
    <2>6. CASE f = "held"
      <3>1. Holders(g, k) = Holders(h, k) /\ Holders(g, k) \subseteq DOMAIN g
        BY RetouchedHolders DEF Holders
      <3> QED  BY <1>2, <2>1, <2>6, <3>1, SameHeld
    <2>7. CASE f \in {"id", "ctl", "made", "mark"}
      <3>1. g[k][f] = h[k][f]
        <4>1. CASE f = "mark"
          <5>1. \A c \in w : c[1] # k
            BY <2>2, <4>1, FieldNames DEF Untouched, IsKey, CfgColumns
          <5> QED  BY <1>2, <4>1, <5>1 DEF Retouched
        <4>2. CASE f # "mark"
          BY <1>2, <2>7, <4>2 DEF Retouched
        <4> QED  BY <4>1, <4>2
      <3> QED  BY <1>2, <2>1, <2>7, <3>1, SameLabel
    <2>8. CASE f \in Fields(Table(k)) /\ <<k, f>> \notin w
      <3>1. g[k].cfg[f] = h[k].cfg[f] /\ f \in CfgColumns
        BY <1>2, <2>2, <2>8, FieldNames DEF Retouched, IsKey
      <3> QED  BY <1>2, <2>1, <3>1, SameCfg
    <2> QED  BY <2>5, <2>6, <2>7, <2>8 DEF Untouched
  <1> QED  BY <1>1, <1>2

\* The rows and references that a port depends on.
LEMMA RetouchedPort ==
    ASSUME NEW g, Schema(g), NEW h, NEW w, Retouched(g, h, w), NEW p \in DOMAIN g, Table(p) = "Port"
    PROVE  /\ p \in DOMAIN h /\ h[p].links = g[p].links /\ Holders(h, p) = Holders(g, p)
           /\ \A x \in g[p].links : x \in DOMAIN g /\ Table(x) = "Interface"
           /\ \A b \in Holders(g, p) : b \in DOMAIN g /\ Table(b) = "Bridge"
           /\ Root \in DOMAIN g /\ h[Root].links = g[Root].links
           /\ \A k \in DOMAIN g : h[k].ctl = g[k].ctl
  <1>1. Typed(g) /\ Root \in DOMAIN g
    BY DEF Schema, Typed
  <1>2. \A x \in g[p].links : x \in DOMAIN g /\ Table(x) = "Interface"
    BY <1>1, LinkTables
  <1>3. \A b \in Holders(g, p) : b \in DOMAIN g /\ Table(b) = "Bridge"
    BY PortHeld
  <1>4. Holders(h, p) = Holders(g, p)
    BY RetouchedHolders
  <1>5. p \in DOMAIN h /\ h[p].links = g[p].links /\ h[Root].links = g[Root].links
    BY <1>1 DEF Retouched
  <1>6. \A k \in DOMAIN g : h[k].ctl = g[k].ctl
    BY DEF Retouched
  <1> QED  BY <1>1, <1>2, <1>3, <1>4, <1>5, <1>6

LEMMA RetouchedType ==
    ASSUME NEW g, NEW h, NEW w, Retouched(g, h, w), NEW x \in DOMAIN g, Table(x) = "Interface",
           <<x, "type">> \notin w, <<x, "opts">> \notin w
    PROVE  h[x].cfg.type = g[x].cfg.type /\ h[x].cfg.opts = g[x].cfg.opts
  BY FieldsOfTables DEF Retouched

LEMMA ListGateKept ==
    ASSUME NEW g, Schema(g), NEW h, NEW w, Retouched(g, h, w), \A c \in w : c[2] \in {"vlan", "bond"},
           NEW i, i.op \in ListOps, Table(i.key) = "Port", i.key \in DOMAIN g, ListGate(i, g),
           i.op = "vlan" /\ ~UsesQinQ(i) => i.before # 0,
           NEW j, j.op = i.op, j.key = i.key, j.ctx = i.ctx, j.before = i.after, j.after = i.before
    PROVE  ListGate(j, h)
  <1> DEFINE p == i.key
  <1>1. /\ p \in DOMAIN h /\ h[p].links = g[p].links /\ Holders(h, p) = Holders(g, p)
        /\ \A x \in g[p].links : x \in DOMAIN g /\ Table(x) = "Interface"
        /\ \A b \in Holders(g, p) : b \in DOMAIN g /\ Table(b) = "Bridge"
        /\ Root \in DOMAIN g /\ h[Root].links = g[Root].links
        /\ \A k \in DOMAIN g : h[k].ctl = g[k].ctl
    BY RetouchedPort
  <1>2. \A k : Holders(h, k) = Holders(g, k)
    BY RetouchedHolders
  <1>3. \A x \in g[p].links : h[x].cfg.type = g[x].cfg.type /\ h[x].cfg.opts = g[x].cfg.opts
    <2> TAKE x \in g[p].links
    <2>1. <<x, "type">> \notin w /\ <<x, "opts">> \notin w
      OBVIOUS
    <2> QED  BY <1>1, <2>1, RetouchedType
  <1>4. \A b \in Holders(g, p) : h[b].cfg.tree = g[b].cfg.tree
    <2> TAKE b \in Holders(g, p)
    <2>1. <<b, "tree">> \notin w
      OBVIOUS
    <2> QED  BY <1>1, <2>1, FieldsOfTables DEF Retouched
  <1>5. VlanKnown(g, p) => VlanKnown(h, p)
    BY <1>1 DEF VlanKnown
  <1>6. VlanFree(g, p) => VlanFree(h, p)
    BY <1>1 DEF VlanFree, Free
  <1>7. CASE i.op = "vlan"
    <2>1. VlanGate(i, g)
      BY <1>7 DEF ListGate
    <2>2. UsesQinQ(j) <=> UsesQinQ(i)
      BY DEF UsesQinQ
    <2>3. QinQSupported(g, p) => QinQSupported(h, p)
      <3> HAVE QinQSupported(g, p)
      <3>1. PICK x \in DOMAIN g : /\ g[p].links = {x} /\ Holders(g, x) = {p}
                                  /\ g[x].cfg.type = "system" /\ g[x].cfg.opts = {}
        BY DEF QinQSupported
      <3>2. /\ x \in DOMAIN h /\ h[p].links = {x} /\ Holders(h, x) = {p}
            /\ h[x].cfg.type = "system" /\ h[x].cfg.opts = {}
        BY <1>1, <1>2, <1>3, <3>1 DEF Retouched
      <3>3. \A b \in Holders(h, p) : b \in h[Root].links /\ p # Local(b)
        BY <1>1 DEF QinQSupported
      <3> QED  BY <3>2, <3>3 DEF QinQSupported
    <2>4. VlanGate(j, h)
      BY <1>5, <1>6, <1>7, <2>1, <2>2, <2>3 DEF VlanGate
    <2> QED  BY <1>7, <2>4 DEF ListGate
  <1>8. CASE i.op = "bond"
    <2>1. BondGate(i, g)
      BY <1>8 DEF ListGate
    <2>2. BondKnown(h, p)
      BY <1>1, <1>2, <1>5, <2>1 DEF BondGate, BondKnown
    <2>3. BondGate(j, h)
      BY <1>1, <1>3, <1>4, <1>6, <2>1, <2>2 DEF BondGate
    <2> QED  BY <1>8, <2>3 DEF ListGate
  <1> QED  BY <1>7, <1>8 DEF ListOps

\* An interface: only the column of the change itself differs.
LEMMA StandaloneKept ==
    ASSUME NEW g, Schema(g), NEW h, NEW i, NEW f \in {"mtu", "police"}, Retouched(g, h, Only(i, f)),
           i \in DOMAIN g, Table(i) = "Interface", Standalone(g, i)
    PROVE  Standalone(h, i)
  <1>1. PICK p \in Rows(g, "Port"), b \in Rows(g, "Bridge") :
            /\ Holders(g, i) = {p} /\ Holders(g, p) = {b} /\ b \in g[Root].links
            /\ g[p].links = {i} /\ p = PortOf(i) /\ p # Local(b)
            /\ g[i].cfg.type = "internal" /\ g[i].cfg.opts = {}
            /\ Free(g, {Root, b, p, i})
    BY DEF Standalone
  <1>2. Root \in DOMAIN g /\ p \in DOMAIN g /\ b \in DOMAIN g
    BY DEF Schema, Typed, Rows
  <1>3. Holders(h, i) = {p} /\ Holders(h, p) = {b}
    BY <1>1, RetouchedHolders
  <1>4. h[i].cfg.type = g[i].cfg.type /\ h[i].cfg.opts = g[i].cfg.opts
    <2>1. <<i, "type">> \notin Only(i, f) /\ <<i, "opts">> \notin Only(i, f)
      BY DEF Only
    <2> QED  BY <2>1, RetouchedType
  <1>5. p \in Rows(h, "Port") /\ b \in Rows(h, "Bridge")
    BY DEF Rows, Retouched
  <1>6. Free(h, {Root, b, p, i}) /\ b \in h[Root].links /\ h[p].links = {i}
    BY <1>1, <1>2 DEF Free, Retouched
  <1> QED  BY <1>1, <1>3, <1>4, <1>5, <1>6 DEF Standalone

LEMMA MtuDefaultKept ==
    ASSUME NEW g, Schema(g), NEW h, NEW i, Retouched(g, h, Only(i, "mtu")),
           i \in DOMAIN g, Table(i) = "Interface", MtuDefaultKnown(g, i)
    PROVE  MtuDefaultKnown(h, i)
  <1> DEFINE P == Peers(g, i)
             O == Members(g, P) \ {i}
  <1>0. Typed(g)
    BY DEF Schema
  <1>1. \A k : Holders(h, k) = Holders(g, k)
    BY RetouchedHolders
  <1>2. \A p \in P : p \in DOMAIN g /\ Table(p) = "Port"
    <2> TAKE p \in P
    <2>1. PICK b \in HoldersOf(g, Holders(g, i)) : p \in Ports(g, b)
      BY DEF Peers
    <2>2. b \in DOMAIN g
      BY <2>1 DEF HoldersOf, Holders
    <2> QED  BY <1>0, <2>1, <2>2, LinkTables DEF Ports
  <1>3. \A x \in O : x \in DOMAIN g /\ Table(x) = "Interface"
    BY <1>0, <1>2, LinkTables DEF Members
  <1>4. Peers(h, i) = P
    <2>1. HoldersOf(h, Holders(h, i)) = HoldersOf(g, Holders(g, i))
      BY <1>1 DEF HoldersOf
    <2>2. \A b \in HoldersOf(g, Holders(g, i)) : Ports(h, b) = Ports(g, b)
      BY DEF HoldersOf, Holders, Ports, Retouched
    <2> QED  BY <2>1, <2>2 DEF Peers
  <1> HIDE DEF P
  <1>5. Members(h, P) \ {i} = O
    BY <1>2 DEF Members, Retouched
  <1>6. \A x \in O : /\ h[x].cfg.type = g[x].cfg.type /\ h[x].cfg.opts = g[x].cfg.opts
                     /\ h[x].cfg.mtu = g[x].cfg.mtu /\ h[x].ctl = g[x].ctl
    <2> TAKE x \in O
    <2>1. \A c \in {"type", "opts", "mtu"} : <<x, c>> \notin Only(i, "mtu")
      BY DEF Only
    <2> QED  BY <1>3, <2>1, FieldsOfTables DEF Retouched
  <1>7. \A p \in P : h[p].ctl = g[p].ctl
    BY <1>2 DEF Retouched
  <1>8. /\ \A p \in P : Cardinality(Holders(g, p)) = 1 /\ ~g[p].ctl
        /\ \A x \in O : Plain(g, x) /\ Cardinality(Holders(g, x)) = 1 /\ ~g[x].ctl
        /\ \E x \in O : g[x].cfg.type # "internal" \/ g[x].cfg.mtu # 0
    BY DEF MtuDefaultKnown, P
  <1> HIDE DEF O
  <1>9. /\ \A p \in P : Cardinality(Holders(h, p)) = 1 /\ ~h[p].ctl
        /\ \A x \in O : Plain(h, x) /\ Cardinality(Holders(h, x)) = 1 /\ ~h[x].ctl
        /\ \E x \in O : h[x].cfg.type # "internal" \/ h[x].cfg.mtu # 0
    BY <1>1, <1>6, <1>7, <1>8 DEF Plain
  <1> QED  BY <1>4, <1>5, <1>9 DEF MtuDefaultKnown

\* A bridge that takes part as a whole: one column of one row differs.
LEMMA RetouchedBridge ==
    ASSUME NEW g, Schema(g), NEW h, NEW w, Retouched(g, h, w), NEW b \in Rows(g, "Bridge")
    PROVE  /\ b \in Rows(h, "Bridge") /\ Ports(h, b) = Ports(g, b)
           /\ \A p \in Ports(g, b) : /\ p \in DOMAIN g /\ Table(p) = "Port" /\ h[p].links = g[p].links
                                     /\ \A x \in g[p].links : x \in DOMAIN g /\ Table(x) = "Interface"
           /\ Region(h, b) = Region(g, b) /\ Region(g, b) \subseteq DOMAIN g
  <1>1. Typed(g) /\ b \in DOMAIN g /\ Table(b) = "Bridge"
    BY DEF Schema, Rows
  <1>2. b \in Rows(h, "Bridge") /\ Ports(h, b) = Ports(g, b)
    BY <1>1 DEF Rows, Ports, Retouched
  <1>3. \A p \in Ports(g, b) : p \in DOMAIN g /\ Table(p) = "Port"
    BY <1>1, LinkTables DEF Ports
  <1>4. \A p \in Ports(g, b) : h[p].links = g[p].links
    BY <1>3 DEF Retouched
  <1>5. \A p \in Ports(g, b) : \A x \in g[p].links : x \in DOMAIN g /\ Table(x) = "Interface"
    BY <1>1, <1>3, LinkTables
  <1>6. Members(h, Ports(h, b)) = Members(g, Ports(g, b))
    BY <1>2, <1>4 DEF Members
  <1>7. Region(h, b) = Region(g, b)
    BY <1>2, <1>6 DEF Region
  <1>8. Region(g, b) \subseteq DOMAIN g
    BY <1>1, RegionPresent
  <1> QED  BY <1>2, <1>3, <1>4, <1>5, <1>7, <1>8

LEMMA RetouchedColumns ==
    ASSUME NEW g, NEW h, NEW k, NEW f, Retouched(g, h, Only(k, f)), NEW x \in DOMAIN g
    PROVE  /\ Table(x) = "Root" /\ f # "other" => h[x].cfg.other = g[x].cfg.other
           /\ Table(x) = "Bridge" => /\ f # "tree" => h[x].cfg.tree = g[x].cfg.tree
                                     /\ f # "mcast" => h[x].cfg.mcast = g[x].cfg.mcast
           /\ Table(x) = "Port" => /\ f # "vlan" => h[x].cfg.vlan = g[x].cfg.vlan
                                   /\ f # "bond" => h[x].cfg.bond = g[x].cfg.bond
                                   /\ f # "prot" => h[x].cfg.prot = g[x].cfg.prot
           /\ Table(x) = "Interface" => /\ f # "type" => h[x].cfg.type = g[x].cfg.type
                                        /\ f # "opts" => h[x].cfg.opts = g[x].cfg.opts
  <1>1. \A c : c # f => <<x, c>> \notin Only(k, f)
    BY DEF Only
  <1>2. \A c \in Fields(Table(x)) : c # f => h[x].cfg[c] = g[x].cfg[c]
    BY <1>1 DEF Retouched
  <1>3. Table(x) = "Root" /\ f # "other" => h[x].cfg.other = g[x].cfg.other
    BY <1>2, FieldsOfTables
  <1>4. Table(x) = "Bridge" => /\ f # "tree" => h[x].cfg.tree = g[x].cfg.tree
                               /\ f # "mcast" => h[x].cfg.mcast = g[x].cfg.mcast
    BY <1>2, FieldsOfTables
  <1>5. Table(x) = "Port" => /\ f # "vlan" => h[x].cfg.vlan = g[x].cfg.vlan
                             /\ f # "bond" => h[x].cfg.bond = g[x].cfg.bond
                             /\ f # "prot" => h[x].cfg.prot = g[x].cfg.prot
    BY <1>2, FieldsOfTables
  <1>6. Table(x) = "Interface" => /\ f # "type" => h[x].cfg.type = g[x].cfg.type
                                  /\ f # "opts" => h[x].cfg.opts = g[x].cfg.opts
    BY <1>2, FieldsOfTables
  <1> QED  BY <1>3, <1>4, <1>5, <1>6

LEMMA RegularKept ==
    ASSUME NEW g, Schema(g), NEW h, NEW k, NEW f \in {"prot", "mcast", "tree"},
           Retouched(g, h, Only(k, f)), NEW b \in Rows(g, "Bridge"), Regular(g, b)
    PROVE  Regular(h, b)
  <1>1. /\ b \in Rows(h, "Bridge") /\ Ports(h, b) = Ports(g, b)
        /\ \A p \in Ports(g, b) : /\ p \in DOMAIN g /\ Table(p) = "Port" /\ h[p].links = g[p].links
                                  /\ \A x \in g[p].links : x \in DOMAIN g /\ Table(x) = "Interface"
        /\ Region(h, b) = Region(g, b) /\ Region(g, b) \subseteq DOMAIN g
    BY RetouchedBridge
  <1>2. \A x : Holders(h, x) = Holders(g, x)
    BY RetouchedHolders
  <1>3. Root \in DOMAIN g /\ Table(Root) = "Root" /\ DOMAIN h = DOMAIN g
    BY DEF Schema, Typed, Root, Table, Retouched
  <1>4. \A x \in DOMAIN g : Table(x) = "Interface" => /\ h[x].cfg.type = g[x].cfg.type
                                                     /\ h[x].cfg.opts = g[x].cfg.opts
    BY RetouchedColumns
  <1>5. \A p \in DOMAIN g : Table(p) = "Port" => /\ h[p].cfg.bond = g[p].cfg.bond
                                                /\ h[p].cfg.vlan = g[p].cfg.vlan
    BY RetouchedColumns
  <1>6. h[Root].cfg.other = g[Root].cfg.other
    BY <1>3, RetouchedColumns
  <1>7. b \in h[Root].links /\ Rows(h, "Mirror") = {} /\ h[Root].cfg.other = 0
    BY <1>3, <1>6 DEF Regular, Rows, Retouched
  <1>8. Free(h, {Root} \cup Region(h, b))
    BY <1>1, <1>3 DEF Regular, Free, Retouched
  <1>9. LocalInternal(h, b)
    <2>1. Local(b) \in Ports(g, b)
      BY DEF Regular, LocalInternal
    <2>2. PICK x \in DOMAIN g : g[Local(b)].links = {x} /\ g[x].cfg.type = "internal"
      BY DEF Regular, LocalInternal
    <2>3. x \in DOMAIN h /\ h[Local(b)].links = {x} /\ h[x].cfg.type = "internal"
      BY <1>1, <1>3, <1>4, <2>1, <2>2
    <2> QED  BY <1>1, <2>1, <2>3 DEF LocalInternal
  <1>10. ASSUME NEW p \in Ports(h, b)
         PROVE  /\ Holders(h, p) = {b} /\ Cardinality(h[p].links) = 1
                /\ h[p].cfg.bond = 0 /\ h[p].cfg.vlan # QinQ
                /\ \A x \in h[p].links : Holders(h, x) = {p} /\ Plain(h, x)
    <2>1. /\ Holders(g, p) = {b} /\ Cardinality(g[p].links) = 1
          /\ g[p].cfg.bond = 0 /\ g[p].cfg.vlan # QinQ
          /\ \A x \in g[p].links : Holders(g, x) = {p} /\ Plain(g, x)
      BY <1>1 DEF Regular
    <2>2. \A x \in h[p].links : Plain(h, x)
      BY <1>1, <1>4, <2>1 DEF Plain
    <2> QED  BY <1>1, <1>2, <1>5, <2>1, <2>2
  <1> QED  BY <1>7, <1>8, <1>9, <1>10 DEF Regular

LEMMA RegionGateKept ==
    ASSUME NEW g, Schema(g), NEW h, NEW i, i.op \in RegionOps, Retouched(g, h, Only(i.key, FieldOf(i.op))),
           i.key \in DOMAIN g, Table(i.key) = Subject(i.op), RegionGate(i, g),
           NEW j, j.op = i.op, j.key = i.key
    PROVE  RegionGate(j, h)
  <1> DEFINE k == i.key
             f == FieldOf(i.op)
  <1>1. f \in {"prot", "mcast", "tree"}
    BY DEF RegionOps, TreeOps, FieldOf
  <1>2. \A x : Holders(h, x) = Holders(g, x)
    BY RetouchedHolders
  <1>3. ASSUME NEW b \in Rows(g, "Bridge"), Regular(g, b) PROVE Regular(h, b)
    BY <1>1, <1>3, RegularKept
  <1>4. ASSUME NEW b \in Rows(g, "Bridge")
        PROVE  /\ b \in Rows(h, "Bridge") /\ Ports(h, b) = Ports(g, b) /\ b \in DOMAIN g /\ Table(b) = "Bridge"
               /\ \A p \in Ports(g, b) : p \in DOMAIN g /\ Table(p) = "Port"
    BY <1>4, RetouchedBridge DEF Rows
  <1>5. CASE i.op = "prot"
    <2>1. f = "prot" /\ IsolationGate(g, k)
      BY <1>5 DEF FieldOf, RegionGate
    <2>2. PICK b \in Rows(g, "Bridge") :
            /\ Holders(g, k) = {b} /\ k # Local(b)
            /\ g[b].cfg.tree = 0 /\ g[b].cfg.mcast = 0
            /\ Cardinality(Ports(g, b)) > 1 /\ Regular(g, b)
      BY <2>1 DEF IsolationGate
    <2>3. h[b].cfg.tree = 0 /\ h[b].cfg.mcast = 0
      BY <1>4, <2>1, <2>2, RetouchedColumns
    <2>4. IsolationGate(h, k)
      BY <1>2, <1>3, <1>4, <2>2, <2>3 DEF IsolationGate
    <2> QED  BY <1>5, <2>4 DEF RegionGate, TreeOps
  <1>6. CASE i.op = "mcast"
    <2>1. f = "mcast" /\ MulticastGate(g, k) /\ k \in Rows(g, "Bridge")
      BY <1>6 DEF FieldOf, RegionGate, Rows, Subject, PortOps, InterfaceOps, BridgeOps
    <2>2. h[k].cfg.tree = 0
      BY <1>4, <2>1, RetouchedColumns DEF MulticastGate
    <2>3. \A p \in Ports(h, k) : h[p].cfg.prot = 0
      BY <1>4, <2>1, RetouchedColumns DEF MulticastGate, Unprotected
    <2>4. MulticastGate(h, k)
      BY <1>3, <1>4, <2>1, <2>2, <2>3 DEF MulticastGate, Unprotected
    <2> QED  BY <1>6, <2>4 DEF RegionGate, TreeOps
  <1>7. CASE i.op \in TreeOps
    <2>1. f = "tree" /\ i.op = "tree" /\ TreeGate(g, k) /\ k \in Rows(g, "Bridge")
      BY <1>7 DEF FieldOf, RegionGate, Rows, Subject, PortOps, InterfaceOps, BridgeOps, TreeOps
    <2>2. h[k].cfg.mcast = 0
      BY <1>4, <2>1, RetouchedColumns DEF TreeGate
    <2>3. \A p \in Ports(h, k) : h[p].cfg.prot = 0
      BY <1>4, <2>1, RetouchedColumns DEF TreeGate, Unprotected
    <2>4. TreeGate(h, k)
      BY <1>3, <1>4, <2>1, <2>2, <2>3 DEF TreeGate, Unprotected
    <2> QED  BY <1>7, <2>1, <2>4 DEF RegionGate
  <1> QED  BY <1>5, <1>6, <1>7 DEF RegionOps

\* What a field change captures, it does not write, nor does another intent of
\* its draft.
Writes(op, k, w) ==
    IF op \in ListOps THEN \A c \in w : c[2] \in {"vlan", "bond"} ELSE w = Only(k, FieldOf(op))
Stable(op, k, c) == c = <<c[1], c[2]>> /\ \A w : Writes(op, k, w) => Untouched(w, c[1], c[2])
AllStable(op, k, cells) == \A c \in cells : Stable(op, k, c)
BaseColumns == {"id", "links", "refs", "ports", "held", "ctl", "made"}

LEMMA BaseStable ==
    ASSUME NEW op, NEW k, NEW ks, NEW fs, fs \subseteq BaseColumns
    PROVE  AllStable(op, k, Cells(ks, fs))
  BY CellsOf DEF AllStable, Stable, Untouched, BaseColumns

LEMMA FieldStable ==
    ASSUME NEW op, NEW k, NEW t, NEW ks, \A x \in ks : Table(x) = t, NEW fs, fs \subseteq BaseColumns \cup Fields(t),
           "vlan" \notin fs, "bond" \notin fs, FieldOf(op) \notin fs \/ k \notin ks
    PROVE  AllStable(op, k, Cells(ks, fs))
  <1> SUFFICES ASSUME NEW c \in Cells(ks, fs) PROVE Stable(op, k, c)
    BY DEF AllStable
  <1>1. c = <<c[1], c[2]>> /\ c[1] \in ks /\ c[2] \in fs
    BY CellsOf
  <1>2. ASSUME NEW w, Writes(op, k, w) PROVE Untouched(w, c[1], c[2])
    <2>1. CASE c[2] \in BaseColumns
      BY <2>1 DEF BaseColumns, Untouched
    <2>2. CASE c[2] \in Fields(t)
      <3>1. c \notin w
        BY <1>1, <1>2 DEF Writes, Only
      <3> QED  BY <1>1, <2>2, <3>1 DEF Untouched
    <2> QED  BY <1>1, <2>1, <2>2
  <1> QED  BY <1>1, <1>2 DEF Stable

LEMMA StableUnion ==
    ASSUME NEW op, NEW k, NEW a, NEW b, AllStable(op, k, a), AllStable(op, k, b)
    PROVE  AllStable(op, k, a \cup b)
  BY DEF AllStable

LEMMA StablePart ==
    ASSUME NEW op, NEW k, NEW a, NEW b, AllStable(op, k, a), b \subseteq a
    PROVE  AllStable(op, k, b)
  BY DEF AllStable

LEMMA RootStable ==
    ASSUME NEW op \in FieldOps, NEW k
    PROVE  AllStable(op, k, Cells({Root}, {"id", "ctl", "other"}))
  <1>1. \A x \in {Root} : Table(x) = "Root"
    BY DEF Root, Table
  <1>2. FieldOf(op) \notin {"id", "ctl", "other"}
    BY DEF FieldOps, ListOps, TreeOps, FieldOf
  <1>3. {"id", "ctl", "other"} \subseteq BaseColumns \cup Fields("Root")
    BY FieldsOfTables DEF BaseColumns
  <1> QED  BY <1>1, <1>2, <1>3, FieldStable

LEMMA ListStable ==
    ASSUME NEW g, Schema(g), NEW op \in ListOps, NEW p \in DOMAIN g, Table(p) = "Port"
    PROVE  /\ AllStable(op, p, VlanScope(g, p)) /\ AllStable(op, p, BondScope(g, p))
           /\ AllStable(op, p, QinQScope(g, p))
  <1>1. (\A x \in g[p].links : Table(x) = "Interface") /\ \A b \in Holders(g, p) : Table(b) = "Bridge"
    BY LinkTables, PortHeld DEF Schema
  <1>2. FieldOf(op) \in {"vlan", "bond"} /\ op \in FieldOps
    BY DEF FieldOf, ListOps, FieldOps
  <1>3. AllStable(op, p, Cells({p}, {"held", "links", "ctl"}))
    BY BaseStable DEF BaseColumns
  <1>4. AllStable(op, p, Cells(g[p].links, {"id", "type", "opts", "ctl"}))
    <2>1. {"id", "type", "opts", "ctl"} \subseteq BaseColumns \cup Fields("Interface")
      BY FieldsOfTables DEF BaseColumns
    <2> QED  BY <1>1, <1>2, <2>1, FieldStable
  <1>5. AllStable(op, p, Cells(Holders(g, p) \cup {Root}, {"ctl"}))
    BY BaseStable DEF BaseColumns
  <1>6. AllStable(op, p, VlanScope(g, p))
    BY <1>3, <1>4, <1>5, StableUnion DEF VlanScope
  <1>7. AllStable(op, p, Cells({Root}, {"id", "ctl", "other"}))
    BY <1>2, RootStable
  <1>8. AllStable(op, p, {<<Root, "id">>}) /\ AllStable(op, p, Cells({Root}, {"id", "other"}))
    BY <1>7, StablePart DEF Cells
  <1>9. AllStable(op, p, Cells(Holders(g, p), {"tree", "held"}))
    <2>1. {"tree", "held"} \subseteq BaseColumns \cup Fields("Bridge")
      BY FieldsOfTables DEF BaseColumns
    <2> QED  BY <1>1, <1>2, <2>1, FieldStable
  <1>10. AllStable(op, p, Cells(g[p].links, {"held"}))
    BY BaseStable DEF BaseColumns
  <1>11. AllStable(op, p, BondScope(g, p))
    BY <1>6, <1>8, <1>9, <1>10, StableUnion DEF BondScope
  <1>12. AllStable(op, p, QinQScope(g, p))
    BY <1>8, <1>10, StableUnion DEF QinQScope
  <1> QED  BY <1>6, <1>11, <1>12

LEMMA InterfaceStable ==
    ASSUME NEW g, Schema(g), NEW op \in {"mtu", "police"}, NEW i \in DOMAIN g, Table(i) = "Interface"
    PROVE  /\ AllStable(op, i, InterfaceScope(g, i)) /\ AllStable(op, i, PolicingScope(g, i))
           /\ AllStable(op, i, MtuDefaultScope(g, i))
  <1> DEFINE ps == Holders(g, i)
             bs == HoldersOf(g, ps)
             P == Peers(g, i)
             O == Members(g, P) \ {i}
  <1>0. FieldOf(op) \in {"mtu", "police"} /\ op \in FieldOps /\ Typed(g)
    BY DEF FieldOf, FieldOps, Schema
  <1>1. AllStable(op, i, Cells({Root}, {"id", "ctl", "other"}))
    BY <1>0, RootStable
  <1>2. AllStable(op, i, Cells({Root}, {"id", "ctl"})) /\ AllStable(op, i, {<<Root, "other">>})
    BY <1>1, StablePart DEF Cells
  <1>3. AllStable(op, i, Cells(ps, {"id", "links", "held", "ctl"}))
    BY BaseStable DEF BaseColumns
  <1>4. AllStable(op, i, Cells(bs, {"id", "ports", "ctl"}))
    BY BaseStable DEF BaseColumns
  <1>5. AllStable(op, i, Cells({i}, {"type", "opts", "held", "ctl"}))
    <2>1. {"type", "opts", "held", "ctl"} \subseteq BaseColumns \cup Fields("Interface")
      BY FieldsOfTables DEF BaseColumns
    <2>2. \A x \in {i} : Table(x) = "Interface"
      OBVIOUS
    <2> QED  BY <1>0, <2>1, <2>2, FieldStable
  <1>6. AllStable(op, i, InterfaceScope(g, i))
    BY <1>2, <1>3, <1>4, <1>5, StableUnion DEF InterfaceScope
  <1>7. AllStable(op, i, PolicingScope(g, i))
    BY <1>2, <1>6, StableUnion DEF PolicingScope
  <1>8. AllStable(op, i, Cells(P, {"id", "links", "held", "ctl"}))
    BY BaseStable DEF BaseColumns
  <1>9. \A x \in O : Table(x) = "Interface"
    <2> TAKE x \in O
    <2>1. PICK p \in P : x \in g[p].links
      BY DEF Members
    <2>2. PICK b \in bs : p \in Ports(g, b)
      BY <2>1 DEF Peers
    <2>3. b \in DOMAIN g
      BY <2>2 DEF HoldersOf, Holders
    <2>4. p \in DOMAIN g /\ Table(p) = "Port"
      BY <1>0, <2>2, <2>3, LinkTables DEF Ports
    <2> QED  BY <1>0, <2>1, <2>4, LinkTables
  <1>10. AllStable(op, i, Cells(O, {"type", "opts", "mtu", "held", "ctl"}))
    <2>1. {"type", "opts", "mtu", "held", "ctl"} \subseteq BaseColumns \cup Fields("Interface")
      BY FieldsOfTables DEF BaseColumns
    <2>2. i \notin O
      OBVIOUS
    <2> HIDE DEF O
    <2> QED  BY <1>9, <2>1, <2>2, FieldStable
  <1>11. AllStable(op, i, MtuDefaultScope(g, i))
    BY <1>8, <1>10, StableUnion DEF MtuDefaultScope
  <1> QED  BY <1>6, <1>7, <1>11

LEMMA RegionStable ==
    ASSUME NEW g, NEW op \in RegionOps, NEW k, NEW b
    PROVE  AllStable(op, k, RegionScope(g, b, k, FieldOf(op)))
  <1> DEFINE f == FieldOf(op)
             R == {Root} \cup Region(g, b)
  <1> SUFFICES ASSUME NEW c \in RegionScope(g, b, k, f) PROVE Stable(op, k, c)
    BY DEF AllStable
  <1>1. c \in WholeOf(R) /\ c # <<k, f>> /\ c # <<k, "mark">>
    BY DEF RegionScope
  <1>2. PICK x \in R : c \in Whole(x)
    BY <1>1 DEF WholeOf
  <1>3. /\ c = <<c[1], c[2]>> /\ c[1] = x
        /\ c[2] \in {"id", "links", "refs"} \cup Labels \cup Fields(Table(x))
    BY <1>2 DEF Whole
  <1>4. ASSUME NEW w, Writes(op, k, w) PROVE Untouched(w, c[1], c[2])
    <2>1. w = {<<k, f>>}
      BY <1>4 DEF Writes, Only, RegionOps, ListOps, TreeOps
    <2>2. CASE c[2] \in {"id", "links", "refs", "ctl", "made"}
      BY <2>2 DEF Untouched
    <2>3. CASE c[2] = "mark"
      <3>1. x # k
        BY <1>1, <1>3, <2>3
      <3> QED  BY <1>3, <2>1, <2>3, <3>1 DEF Untouched
    <2>4. CASE c[2] \in Fields(Table(x))
      BY <1>1, <1>3, <2>1, <2>4 DEF Untouched
    <2> QED  BY <1>3, <2>2, <2>3, <2>4 DEF Labels
  <1> QED  BY <1>3, <1>4 DEF Stable

LEMMA DependenciesStable ==
    ASSUME NEW g, Schema(g), NEW op \in FieldOps, NEW k \in DOMAIN g, Table(k) = Subject(op),
           NEW ctx \in BOOLEAN
    PROVE  AllStable(op, k, Dependencies(g, op, k, ctx))
  <1>1. AllStable(op, k, {})
    BY DEF AllStable
  <1>2. CASE op \in ListOps
    <2>1. Table(k) = "Port" /\ op # "mtu"
      BY <1>2 DEF ListOps, Subject, PortOps
    <2>2. /\ AllStable(op, k, VlanScope(g, k)) /\ AllStable(op, k, BondScope(g, k))
          /\ AllStable(op, k, QinQScope(g, k))
      BY <1>2, <2>1, ListStable
    <2>3. AllStable(op, k, Scope(g, op, k))
      BY <1>2, <2>2 DEF Scope, ListOps, TreeOps
    <2>4. CASE ctx /\ op = "vlan"
      <3>1. Dependencies(g, op, k, ctx) = Scope(g, op, k) \cup QinQScope(g, k)
        BY <2>1, <2>4 DEF Dependencies
      <3> QED  BY <2>2, <2>3, <3>1, StableUnion
    <2>5. CASE ~(ctx /\ op = "vlan")
      <3>1. Dependencies(g, op, k, ctx) = Scope(g, op, k)
        BY <2>1, <2>5 DEF Dependencies
      <3> QED  BY <2>3, <3>1
    <2> QED  BY <2>4, <2>5
  <1>3. CASE op \in {"mtu", "police"}
    <2>1. Table(k) = "Interface" /\ op # "vlan"
      BY <1>3 DEF Subject, PortOps, InterfaceOps
    <2>2. /\ AllStable(op, k, InterfaceScope(g, k)) /\ AllStable(op, k, PolicingScope(g, k))
          /\ AllStable(op, k, MtuDefaultScope(g, k))
      BY <1>3, <2>1, InterfaceStable
    <2>3. AllStable(op, k, Scope(g, op, k))
      BY <1>3, <2>2 DEF Scope, TreeOps
    <2>4. CASE ctx /\ op = "mtu"
      <3>1. Dependencies(g, op, k, ctx) = Scope(g, op, k) \cup MtuDefaultScope(g, k)
        BY <2>1, <2>4 DEF Dependencies
      <3> QED  BY <2>2, <2>3, <3>1, StableUnion
    <2>5. CASE ~(ctx /\ op = "mtu")
      <3>1. Dependencies(g, op, k, ctx) = Scope(g, op, k)
        BY <2>1, <2>5 DEF Dependencies
      <3> QED  BY <2>3, <3>1
    <2> QED  BY <2>4, <2>5
  <1>4. CASE op \in RegionOps
    <2>1. Dependencies(g, op, k, ctx) = Scope(g, op, k)
      BY <1>4 DEF Dependencies, RegionOps, TreeOps
    <2>2. \A b : AllStable(op, k, RegionScope(g, b, k, FieldOf(op)))
      BY <1>4, RegionStable
    <2>3. CASE op = "prot"
      <3>1. Scope(g, op, k) = UNION {RegionScope(g, b, k, FieldOf(op)) : b \in Holders(g, k)}
        BY <2>3 DEF Scope, IsolationScope, FieldOf, TreeOps
      <3> QED  BY <2>1, <2>2, <3>1 DEF AllStable
    <2>4. CASE op # "prot"
      <3>1. Scope(g, op, k) = RegionScope(g, k, k, FieldOf(op))
        BY <1>4, <2>4 DEF Scope, MulticastScope, SpanningTreeScope, FieldOf, RegionOps, TreeOps
      <3> QED  BY <2>1, <2>2, <3>1
    <2> QED  BY <2>3, <2>4
  <1> QED  BY <1>2, <1>3, <1>4 DEF FieldOps, RegionOps

\* A field intent expects its own value, and captures what is stable.
Steady(i) ==
    /\ AllStable(i.op, i.key, DOMAIN i.dep)
    /\ i.will = FieldImage(i, i.after)
\* A draft of field intents: VLANs and bonds of different ports, or one intent.
Grouped(s) ==
    \A i \in s : i.op \in FieldOps =>
        \/ s = {i}
        \/ \A j \in s : j.op \in ListOps /\ (j.key = i.key => j = i)

LEMMA FieldImageSame ==
    ASSUME NEW i, NEW j, i.key = j.key, i.f = j.f, i.id = j.id, NEW v
    PROVE  FieldImage(i, v) = FieldImage(j, v)
  BY DEF FieldImage

LEMMA FieldIntentSteady ==
    ASSUME NEW g, Schema(g), NEW r, r.op \in FieldOps, r.key \in DOMAIN g, Table(r.key) = Subject(r.op)
    PROVE  Steady(FieldIntent(g, r))
  <1> DEFINE i == FieldIntent(g, r)
             ctx == Context(r.op, g[r.key].cfg[FieldOf(r.op)], r.v)
  <1>1. /\ i.op = r.op /\ i.key = r.key /\ i.id = g[r.key].id /\ i.f = FieldOf(r.op) /\ i.after = r.v
        /\ i.dep = Image(g, Dependencies(g, r.op, r.key, ctx))
    BY FieldIntentFields
  <1>2. DOMAIN i.dep = Dependencies(g, r.op, r.key, ctx)
    BY <1>1 DEF Image
  <1> HIDE DEF i
  <1>3. ctx \in BOOLEAN
    BY ContextValue
  <1>4. AllStable(i.op, i.key, DOMAIN i.dep)
    BY <1>1, <1>2, <1>3, DependenciesStable
  <1>5. \E j : j.key = i.key /\ j.f = i.f /\ j.id = i.id /\ i.will = FieldImage(j, i.after)
    <2> DEFINE f == FieldOf(r.op)
               dep == Image(g, Dependencies(g, r.op, r.key, ctx))
               v == g[r.key].cfg[f]
               j == [Blank EXCEPT !.op = r.op, !.key = r.key, !.id = g[r.key].id, !.gen = view.gen,
                             !.f = f, !.before = v, !.after = r.v, !.ctx = ctx, !.dep = dep]
    <2>1. i = [j EXCEPT !.was = FieldImage(j, j.before), !.will = FieldImage(j, j.after),
                        !.again = FieldImage(j, j.before)]
      BY DEF FieldIntent, i
    <2> HIDE DEF f, v, ctx, dep
    <2>2. /\ DOMAIN j = DOMAIN Blank /\ j.key = r.key /\ j.id = g[r.key].id /\ j.f = f /\ j.after = r.v
      BY BlankFields
    <2> HIDE DEF j
    <2>3. i.will = FieldImage(j, j.after)
      BY <2>1, <2>2, BlankFields
    <2> QED  BY <1>1, <2>2, <2>3 DEF f
  <1>6. i.will = FieldImage(i, i.after)
    BY <1>5, FieldImageSame
  <1> QED  BY <1>4, <1>6 DEF Steady, i

LEMMA AmendedSteady ==
    ASSUME NEW i, Staged(i), Steady(i), i.op \in FieldOps, NEW g, Schema(g), NEW v, i.key \in DOMAIN g
    PROVE  Steady(Amended(i, g, v))
  <1> DEFINE j == Amended(i, g, v)
             add == i.op = "vlan" /\ v = QinQ /\ ~i.ctx
             more == Image(g, QinQScope(g, i.key))
  <1>1. IsFunction(i) /\ DOMAIN i = DOMAIN Blank /\ Table(i.key) = Subject(i.op)
    BY DEF Staged, StagedField
  <1>2. /\ j.op = i.op /\ j.key = i.key /\ j.id = i.id /\ j.f = i.f /\ j.after = v
        /\ j.dep = IF add THEN With(more, i.dep) ELSE i.dep
    BY <1>1, AmendedFields
  <1>3. j.will = FieldImage(i, v)
    BY <1>1, BlankFields DEF Amended
  <1> HIDE DEF j
  <1>4. j.will = FieldImage(j, j.after)
    BY <1>2, <1>3, FieldImageSame
  <1>5. CASE add
    <2>1. i.op \in ListOps /\ Table(i.key) = "Port"
      BY <1>1, <1>5 DEF ListOps, Subject, PortOps
    <2>2. AllStable(i.op, i.key, QinQScope(g, i.key))
      BY <2>1, ListStable
    <2>3. DOMAIN j.dep = QinQScope(g, i.key) \cup DOMAIN i.dep
      <3>1. j.dep = With(more, i.dep) /\ DOMAIN more = QinQScope(g, i.key)
        BY <1>2, <1>5 DEF Image
      <3> HIDE DEF more
      <3> QED  BY <3>1, WithDomain
    <2>4. AllStable(i.op, i.key, DOMAIN j.dep)
      BY <2>2, <2>3, StableUnion DEF Steady
    <2> QED  BY <1>2, <1>4, <2>4 DEF Steady, j
  <1>6. CASE ~add
    <2>1. AllStable(i.op, i.key, DOMAIN j.dep)
      BY <1>2, <1>6 DEF Steady
    <2> QED  BY <1>2, <1>4, <2>1 DEF Steady, j
  <1> QED  BY <1>5, <1>6

\* What an intent of a draft does not write stays as captured, and its own
\* column has the new value.
LEMMA FieldsApart ==
    ASSUME NEW s, Grouped(s), \A i \in s : i.op \in FieldOps
    PROVE  Apart(s)
  BY DEF Grouped, Apart

LEMMA DraftWrites ==
    ASSUME NEW s, Grouped(s), \A i \in s : i.op \in FieldOps /\ Staged(i), NEW i \in s
    PROVE  Writes(i.op, i.key, WrittenCells(s))
  <1>1. \A j \in s : j.f = FieldOf(j.op)
    BY DEF Staged, StagedField
  <1>2. CASE s = {i}
    <2>1. WrittenCells(s) = Only(i.key, FieldOf(i.op))
      BY <1>1, <1>2 DEF WrittenCells, Only
    <2>2. i.op \in ListOps => FieldOf(i.op) \in {"vlan", "bond"}
      BY DEF ListOps, FieldOf
    <2> QED  BY <2>1, <2>2 DEF Writes, Only
  <1>3. CASE \A j \in s : j.op \in ListOps /\ (j.key = i.key => j = i)
    <2>1. \A j \in s : FieldOf(j.op) \in {"vlan", "bond"}
      BY <1>3 DEF ListOps, FieldOf
    <2>2. \A c \in WrittenCells(s) : c[2] \in {"vlan", "bond"}
      BY <1>1, <2>1 DEF WrittenCells
    <2> QED  BY <1>3, <2>2 DEF Writes
  <1> QED  BY <1>2, <1>3 DEF Grouped

LEMMA StableCaptured ==
    ASSUME NEW g, Schema(g), NEW h, NEW w, Retouched(g, h, w), NEW op, NEW k, Writes(op, k, w),
           NEW dep, AllStable(op, k, DOMAIN dep), Image(g, DOMAIN dep) = dep
    PROVE  Image(h, DOMAIN dep) = dep
  <1>1. Agree(g, h, DOMAIN dep)
    <2> SUFFICES ASSUME NEW c \in DOMAIN dep PROVE Col(g, c) = Col(h, c)
      BY DEF Agree
    <2>1. c = <<c[1], c[2]>> /\ Untouched(w, c[1], c[2])
      BY DEF AllStable, Stable
    <2>2. Col(g, <<c[1], c[2]>>) = Col(h, <<c[1], c[2]>>)
      BY <2>1, RetouchedCell
    <2> QED  BY <2>1, <2>2
  <1> QED  BY <1>1, AgreeImage

\* The field columns of a row that the change writes.
LEMMA FieldOfSubject ==
    ASSUME NEW op \in FieldOps
    PROVE  FieldOf(op) \in Fields(Subject(op)) /\ FieldOf(op) \in CfgColumns
  BY FieldsOfTables DEF FieldOps, ListOps, TreeOps, FieldOf, Subject, PortOps, InterfaceOps, BridgeOps, CfgColumns

LEMMA WrittenImage ==
    ASSUME NEW i, NEW h, i.key \in DOMAIN h, h[i.key].id = i.id, i.f \in CfgColumns, h[i.key].cfg[i.f] = i.after
    PROVE  Image(h, DOMAIN FieldImage(i, i.after)) = FieldImage(i, i.after)
  <1> DEFINE cells == Cells({i.key}, {"id", i.f})
  <1>1. DOMAIN FieldImage(i, i.after) = cells
    BY DEF FieldImage
  <1>2. ASSUME NEW c \in cells
        PROVE  Col(h, c) = IF c[2] = "id" THEN {i.id} ELSE {i.after}
    <2>1. c = <<c[1], c[2]>> /\ c[1] = i.key /\ c[2] \in {"id", i.f}
      BY CellsOf
    <2>2. Col(h, c) = {Value(h, i.key, c[2])}
      BY <2>1 DEF Col
    <2>3. CASE c[2] = "id"
      <3>1. Value(h, i.key, c[2]) = h[i.key].id
        BY <2>3 DEF Value
      <3> QED  BY <2>2, <2>3, <3>1
    <2>4. CASE c[2] # "id"
      <3>1. c[2] = i.f
        BY <2>1, <2>4
      <3>2. Value(h, i.key, c[2]) = h[i.key].cfg[i.f]
        BY <3>1 DEF Value, CfgColumns
      <3> QED  BY <2>2, <2>4, <3>2
    <2> QED  BY <2>3, <2>4
  <1> QED  BY <1>1, <1>2 DEF Image, FieldImage

\* A field change that was let in on g can be taken back from what it wrote.
LEMMA FieldUndo ==
    ASSUME NEW s, Grouped(s), \A i \in s : i.op \in FieldOps /\ Staged(i) /\ Steady(i),
           NEW g, Schema(g), NEW i \in s, Agreeing(i, g), Gate(i, g), Granted(g, i.key),
           i.gen = view.gen, ~DefaultMode(i)
    PROVE  LET h == FieldsWritten(g, s, "go") IN Checks(Reverse(i), h) /\ Marker(i, h) = "go"
  <1> DEFINE w == WrittenCells(s)
             k == i.key
             j == Reverse(i)
  <1>1. PICK h : h = FieldsWritten(g, s, "go")
    OBVIOUS
  <1>2. /\ DOMAIN i = DOMAIN Blank /\ i.f = FieldOf(i.op) /\ Table(k) = Subject(i.op)
        /\ <<k, "id">> \in DOMAIN i.was /\ i.was[<<k, "id">>] = {i.id}
    <2>1. Staged(i) /\ i.op \in FieldOps
      OBVIOUS
    <2>2. DOMAIN i = DOMAIN Blank /\ StagedField(i)
      BY <2>1 DEF Staged
    <2>3. <<k, "id">> \in Cells({k}, {"id", i.f})
      BY CellsOf
    <2> QED  BY <2>2, <2>3 DEF StagedField
  <1>3. /\ k \in DOMAIN g /\ g[k].id = i.id
    <2>1. k \in DOMAIN g
      BY <1>2, CapturedPresent
    <2>2. Col(g, <<k, "id">>) = {i.id}
      BY <1>2 DEF Agreeing, Image
    <2>3. Value(g, k, "id") = g[k].id
      BY DEF Value
    <2> QED  BY <2>1, <2>2, <2>3 DEF Col
  <1>4. Writes(i.op, k, w)
    BY DraftWrites
  <1>5. Apart(s)
    BY FieldsApart
  <1>6. /\ Retouched(g, h, w) /\ Schema(h)
        /\ h[k].mark = "go" /\ (i.f \in Fields(Table(k)) => h[k].cfg[i.f] = i.after)
    BY <1>1, <1>3, <1>5, FieldsRetouch
  <1>7. h[k].cfg[i.f] = i.after /\ i.f \in CfgColumns
    BY <1>2, <1>6, FieldOfSubject
  <1>8. k \in DOMAIN h /\ h[k].id = i.id
    BY <1>3, <1>6 DEF Retouched
  <1>9. /\ j.op = i.op /\ j.key = k /\ j.gen = i.gen /\ j.ctx = i.ctx
        /\ j.before = i.after /\ j.after = i.before /\ j.dep = i.dep /\ j.was = i.will
    BY <1>2, ReverseFields
  <1> HIDE DEF j, w
  <1>10. Unmoved(j, h)
    <2>1. Image(h, DOMAIN i.dep) = i.dep
      BY <1>4, <1>6, StableCaptured DEF Steady, Agreeing
    <2>2. Image(h, DOMAIN i.will) = i.will
      BY <1>7, <1>8, WrittenImage DEF Steady
    <2> QED  BY <1>9, <2>1, <2>2 DEF Unmoved
  <1>11. Granted(h, k)
    BY <1>3, <1>8 DEF Granted
  <1>12. Marker(i, h) = "go"
    BY <1>6 DEF Marker
  <1>13. CASE i.op \in ListOps
    <2>1. ListGate(j, h)
      <3>1. \A c \in w : c[2] \in {"vlan", "bond"}
        BY <1>4, <1>13 DEF Writes
      <3>2. Table(k) = "Port" /\ ListGate(i, g)
        BY <1>2, <1>13 DEF ListOps, Subject, PortOps, Gate
      <3>3. i.op = "vlan" /\ ~UsesQinQ(i) => i.before # 0
        BY DEF DefaultMode
      <3> QED  BY <1>3, <1>6, <1>9, <1>13, <3>1, <3>2, <3>3, ListGateKept
    <2>2. Checks(j, h)
      BY <1>9, <1>10, <1>11, <1>13, <2>1, ListParts
    <2> QED  BY <1>1, <1>12, <2>2 DEF j
  <1>14. CASE i.op \in {"mtu", "police"}
    <2>1. w = Only(k, FieldOf(i.op)) /\ FieldOf(i.op) \in {"mtu", "police"} /\ Table(k) = "Interface"
      BY <1>2, <1>4, <1>14 DEF Writes, ListOps, FieldOf, Subject, PortOps, InterfaceOps
    <2>2. Standalone(h, k)
      <3>1. Standalone(g, k)
        BY <1>14 DEF Gate, MtuGate, PolicingGate
      <3> QED  BY <1>3, <1>6, <2>1, <3>1, StandaloneKept
    <2>3. CASE i.op = "mtu"
      <3>1. MtuGate(i, g) /\ Retouched(g, h, Only(k, "mtu"))
        BY <1>6, <2>1, <2>3 DEF Gate, FieldOf
      <3>2. MtuGate(j, h)
        BY <1>3, <1>9, <2>1, <2>2, <3>1, MtuDefaultKept DEF MtuGate
      <3>3. Checks(j, h)
        BY <1>9, <1>10, <1>11, <2>3, <3>2, MtuParts
      <3> QED  BY <1>1, <1>12, <3>3 DEF j
    <2>4. CASE i.op = "police"
      <3>1. PolicingGate(i, g) /\ Retouched(g, h, Only(k, "police")) /\ Root \in DOMAIN g /\ Table(Root) = "Root"
        BY <1>6, <2>1, <2>4 DEF Gate, FieldOf, Schema, Typed, Root, Table
      <3>2. h[Root].cfg.other = 0
        BY <3>1, RetouchedColumns DEF PolicingGate
      <3>3. Checks(j, h)
        BY <1>9, <1>10, <1>11, <2>2, <2>4, <3>2, PolicingParts DEF PolicingGate
      <3> QED  BY <1>1, <1>12, <3>3 DEF j
    <2> QED  BY <1>14, <2>3, <2>4
  <1>15. CASE i.op \in RegionOps
    <2>1. w = Only(k, FieldOf(i.op))
      BY <1>4, <1>15 DEF Writes, ListOps, RegionOps, TreeOps
    <2>2. RegionGate(j, h)
      BY <1>2, <1>3, <1>6, <1>9, <1>15, <2>1, RegionGateKept DEF Gate
    <2>3. Checks(j, h)
      BY <1>9, <1>10, <1>11, <1>15, <2>2, RegionParts
    <2> QED  BY <1>1, <1>12, <2>3 DEF j
  <1> QED  BY <1>13, <1>14, <1>15 DEF FieldOps, RegionOps

-----------------------------------------------------------------------------
(* What the registry and the view know of each other and of the change.    *)

\* The view is the last one that was installed, with the registry's decision.
Served ==
    /\ view.gen = reg.gen /\ view.evidence = reg.evidence
    /\ view.evidence.root = view.rows[Root].id
    /\ view.ok /\ view.confirmed => \A n \in Ids : reg.ids[n] = "active" => n \in Present(view.rows)

\* As long as the generation lasts, its evidence is that of the admission.
Traced ==
    change.phase # "none" =>
        /\ change.evidence.gen \in Nat /\ change.evidence.gen <= reg.gen
        /\ reg.gen = change.evidence.gen /\ reg.state = "confirmed" =>
              /\ reg.evidence.root = change.evidence.root
              /\ reg.evidence.epoch = change.evidence.epoch

\* As long as the generation lasts, what admission reserved stays reserved.
Booked ==
    change.phase = "ready" /\ reg.gen = change.evidence.gen =>
        \A n \in Spares(change.intents) : reg.ids[n] = "pending"

\* Interference leaves a trace that does not go away.
Later ==
    /\ DOMAIN done = {"edits", "breaks"} /\ done.breaks \in Nat
    /\ change.phase \in Standing =>
          change.at.edits \subseteq done.edits /\ change.at.breaks \in Nat /\ change.at.breaks <= done.breaks

Books == Served /\ Traced /\ Booked /\ Later

\* What a publication that is accepted makes of the registry.
Observed ==
    /\ view'.rows = db /\ view'.gen = reg'.gen /\ view'.evidence = reg'.evidence
    /\ view'.confirmed <=> reg'.state = "confirmed"
    /\ reg'.evidence.root = db[Root].id /\ reg'.evidence.epoch = epoch
    /\ reg'.state = "confirmed" => \A n \in Ids : reg'.ids[n] = "active" => n \in Present(db)
    /\ \/ reg'.gen = reg.gen + 1 /\ reg.state # "required" /\ reg.evidence.root # db[Root].id
       \/ /\ reg'.gen = reg.gen /\ reg'.state = "required" /\ reg'.ids = reg.ids
          /\ reg.state = "required" \/ reg.evidence.root # db[Root].id \/ reg.evidence.epoch # epoch
       \/ /\ reg'.gen = reg.gen /\ reg'.state = "confirmed" /\ reg'.ids = Bound(reg.ids, db)
          /\ reg.state # "required" /\ reg.evidence.root = db[Root].id /\ reg.evidence.epoch = epoch

LEMMA Classified ==
    ASSUME NEW r, NEW e, r.gen # 0
    PROVE  LET c == Classify(r, e) IN
           /\ c = "new" => r.state # "required" /\ r.evidence.root # e.root
           /\ c = "required" => \/ r.state = "required" \/ r.evidence.root # e.root
                                \/ r.evidence.epoch # e.epoch
           /\ c = "continued" => /\ r.state # "required" /\ r.evidence.root = e.root
                                 /\ r.evidence.epoch = e.epoch
  BY DEF Classify

LEMMA Publication ==
    ASSUME Inv, Publish
    PROVE  /\ UNCHANGED <<net, db, world, issued, epoch, done>>
           /\ \/ reg' = reg /\ view' = [view EXCEPT !.ok = FALSE]
              \/ Observed
  <1> DEFINE c == Classify(reg, Evidence)
             r == Reconciled(reg, db, Evidence, c)
  <1>1. /\ UNCHANGED <<net, db, world, issued, epoch, done>>
        /\ \/ reg' = r /\ view' = Installed(r, db)
           \/ reg' = reg /\ view' = [view EXCEPT !.ok = FALSE]
    BY DEF Publish
  <1>2. /\ DOMAIN reg = RegFields /\ reg.ids \in [Ids -> States] /\ reg.gen \in Nat \ {0}
        /\ Identified(db, issued)
    BY DEF Inv, TypeOK, Registered, RegFields, States
  <1>3. Evidence.root = db[Root].id /\ Evidence.epoch = epoch
    BY DEF Evidence
  <1>4. /\ c \in {"new", "required", "continued"}
        /\ c = "new" => reg.state # "required" /\ reg.evidence.root # db[Root].id
        /\ c = "required" => \/ reg.state = "required" \/ reg.evidence.root # db[Root].id
                             \/ reg.evidence.epoch # epoch
        /\ c = "continued" => /\ reg.state # "required" /\ reg.evidence.root = db[Root].id
                              /\ reg.evidence.epoch = epoch
    BY <1>2, <1>3, Classified, ClassifyValues
  <1> HIDE DEF c
  <1>5. /\ r.evidence = Evidence
        /\ c = "new" => r.state = "confirmed" /\ r.gen = reg.gen + 1 /\ r.ids = Bound(NoIdentities, db)
        /\ c = "required" => r.state = "required" /\ r.gen = reg.gen /\ r.ids = reg.ids
        /\ c = "continued" => r.state = "confirmed" /\ r.gen = reg.gen /\ r.ids = Bound(reg.ids, db)
    BY <1>2, ReconciledFields
  <1> HIDE DEF r
  <1>6. ASSUME reg' = r, view' = Installed(r, db) PROVE Observed
    <2>1. /\ view'.rows = db /\ view'.gen = reg'.gen /\ view'.evidence = reg'.evidence
          /\ view'.confirmed <=> reg'.state = "confirmed"
      BY <1>6, InstalledFields
    <2>2. reg'.evidence.root = db[Root].id /\ reg'.evidence.epoch = epoch
      BY <1>3, <1>5, <1>6
    <2>3. reg'.state = "confirmed" => \A n \in Ids : reg'.ids[n] = "active" => n \in Present(db)
      <3>1. CASE c = "new"
        BY <1>2, <1>5, <1>6, <3>1, NewGeneration
      <3>2. CASE c = "required"
        BY <1>5, <1>6, <3>2
      <3>3. CASE c = "continued"
        <4>1. \A n \in Ids : n \notin Present(db) => Bound(reg.ids, db)[n] # "active"
          BY <1>2, BoundIds
        <4> QED  BY <1>5, <1>6, <3>3, <4>1
      <3> QED  BY <1>4, <3>1, <3>2, <3>3
    <2>4. \/ reg'.gen = reg.gen + 1 /\ reg.state # "required" /\ reg.evidence.root # db[Root].id
          \/ /\ reg'.gen = reg.gen /\ reg'.state = "required" /\ reg'.ids = reg.ids
             /\ reg.state = "required" \/ reg.evidence.root # db[Root].id \/ reg.evidence.epoch # epoch
          \/ /\ reg'.gen = reg.gen /\ reg'.state = "confirmed" /\ reg'.ids = Bound(reg.ids, db)
             /\ reg.state # "required" /\ reg.evidence.root = db[Root].id /\ reg.evidence.epoch = epoch
      BY <1>4, <1>5, <1>6
    <2> QED  BY <2>1, <2>2, <2>3, <2>4 DEF Observed
  <1> QED  BY <1>1, <1>6

LEMMA Acceptance ==
    ASSUME Inv, Accept
    PROVE  /\ UNCHANGED <<net, db, world, issued, epoch, done>>
           /\ view'.rows = view.rows /\ view'.gen = reg'.gen /\ view'.evidence = view.evidence
           /\ reg'.evidence = view.evidence /\ reg'.gen = reg.gen + 1 /\ reg.state = "required"
           /\ \A n \in Ids : reg'.ids[n] = "active" => n \in Present(view.rows)
  <1> DEFINE r == Reconciled(reg, view.rows, view.evidence, "new")
  <1>1. /\ UNCHANGED <<net, db, world, issued, epoch, done>>
        /\ reg' = r /\ view' = Installed(r, view.rows) /\ reg.state = "required"
    BY DEF Accept
  <1>2. DOMAIN reg = RegFields /\ Identified(view.rows, issued)
    BY DEF Inv, TypeOK, Registered, RegFields
  <1>3. r.evidence = view.evidence /\ r.gen = reg.gen + 1 /\ r.ids = Bound(NoIdentities, view.rows)
    BY <1>2, ReconciledFields
  <1> HIDE DEF r
  <1>4. /\ view'.rows = view.rows /\ view'.gen = reg'.gen /\ view'.evidence = reg'.evidence
    BY <1>1, InstalledFields
  <1>5. \A n \in Ids : reg'.ids[n] = "active" => n \in Present(view.rows)
    BY <1>1, <1>2, <1>3, NewGeneration
  <1> QED  BY <1>1, <1>3, <1>4, <1>5

\* The registry keeps its decision, and no identity becomes active.
Maintained ==
    /\ reg'.gen = reg.gen /\ reg'.state = reg.state /\ reg'.evidence = reg.evidence
    /\ \A n \in Ids : reg'.ids[n] = "active" => reg.ids[n] = "active"

LEMMA JournalledMaintained ==
    ASSUME Inv, NEW phase, reg' = Journalled(reg, phase)
    PROVE  Maintained
  <1>1. DOMAIN reg = RegFields /\ reg.ids \in [Ids -> States]
    BY DEF Inv, TypeOK, Registered, RegFields, States
  <1>2. CASE reg' = reg
    BY <1>2 DEF Maintained
  <1>3. CASE reg' = RetirePending(reg)
    BY <1>1, <1>3, RetirePendingFields DEF Maintained
  <1> QED  BY <1>2, <1>3 DEF Journalled

LEMMA InitBooks == Init => Books
  <1> SUFFICES ASSUME Init PROVE Books
    OBVIOUS
  <1> USE NativeAssumption
  <1> DEFINE fresh == [gen |-> 0, state |-> "confirmed", ids |-> NoIdentities,
                       made |-> [i \in Ids |-> None], evidence |-> Evidence]
             r == Reconciled(fresh, db, Evidence, "new")
  <1>1. reg = r /\ view = Installed(reg, db) /\ done = [edits |-> {}, breaks |-> 0] /\ change = NoChange
    BY DEF Init, NativeInit
  <1>2. DOMAIN fresh = RegFields
    BY DEF RegFields
  <1> HIDE DEF fresh
  <1>3. Identified(db, issued)
    BY InitInv DEF Inv, TypeOK
  <1>4. r.evidence = Evidence /\ r.ids = Bound(NoIdentities, db)
    BY <1>2, ReconciledFields
  <1> HIDE DEF r
  <1>5. Evidence.root = db[Root].id
    BY DEF Evidence
  <1>6. \A n \in Ids : reg.ids[n] = "active" => n \in Present(db)
    BY <1>1, <1>3, <1>4, NewGeneration
  <1>7. Served
    BY <1>1, <1>4, <1>5, <1>6, InstalledFields DEF Served
  <1>8. change.phase = "none"
    BY <1>1 DEF NoChange
  <1> QED  BY <1>1, <1>7, <1>8 DEF Books, Traced, Booked, Later, Standing

\* Third parties change nothing of this but the trace they leave.
LEMMA ForeignEditBooks ==
    ASSUME Books, ForeignEdit, UNCHANGED <<draft, change>>
    PROVE  Books' /\ (change.phase \in Standing => done' # change.at)
  <1>1. PICK e \in net.edits \ done.edits : done' = [done EXCEPT !.edits = @ \cup {e}]
    BY DEF ForeignEdit
  <1>2. reg' = reg /\ view' = view /\ change' = change
    BY DEF ForeignEdit
  <1>3. Served /\ Traced /\ Booked /\ Later
    BY DEF Books
  <1>4. /\ DOMAIN done' = {"edits", "breaks"} /\ done'.breaks = done.breaks
        /\ done'.edits = done.edits \cup {e} /\ e \notin done.edits
    BY <1>1, <1>3 DEF Later
  <1>5. Later' /\ (change.phase \in Standing => done' # change.at)
    BY <1>2, <1>3, <1>4 DEF Later
  <1>6. Served' /\ Traced' /\ Booked'
    BY <1>2, <1>3 DEF Served, Traced, Booked
  <1> QED  BY <1>5, <1>6 DEF Books

LEMMA BreakBooks ==
    ASSUME Inv, Books, Break, UNCHANGED <<draft, change>>
    PROVE  Books' /\ (change.phase \in Standing => done' # change.at)
  <1>1. /\ done' = [done EXCEPT !.breaks = @ + 1] /\ change' = change /\ reg' = reg
        /\ view' = view \/ view' = [view EXCEPT !.ok = FALSE]
    BY DEF Break, Away, Reboot, Rewind, Reroot, Replace
  <1>2. Served /\ Traced /\ Booked /\ Later /\ DOMAIN view = ViewFields
    BY DEF Books, Inv, Registered, ViewFields
  <1>3. /\ DOMAIN done' = {"edits", "breaks"} /\ done'.breaks = done.breaks + 1
        /\ done'.edits = done.edits
    BY <1>1, <1>2 DEF Later
  <1>4. Later' /\ (change.phase \in Standing => done' # change.at)
    BY <1>1, <1>2, <1>3 DEF Later
  <1>5. /\ view'.gen = view.gen /\ view'.evidence = view.evidence /\ view'.rows = view.rows
        /\ view'.confirmed = view.confirmed /\ (view'.ok => view.ok)
    BY <1>1, <1>2 DEF ViewFields
  <1>6. Served'
    BY <1>1, <1>2, <1>5 DEF Served
  <1>7. Traced' /\ Booked'
    BY <1>1, <1>2 DEF Traced, Booked
  <1> QED  BY <1>4, <1>6, <1>7 DEF Books

LEMMA PublishBooks ==
    ASSUME Inv, Books, Publish, UNCHANGED <<draft, change>>
    PROVE  Books'
  <1>1. /\ db' = db /\ done' = done /\ change' = change
        /\ (reg' = reg /\ view' = [view EXCEPT !.ok = FALSE]) \/ Observed
    BY Publication
  <1>2. Served /\ Traced /\ Booked /\ Later /\ DOMAIN view = ViewFields
    BY DEF Books, Inv, Registered, ViewFields
  <1>3. Later'
    BY <1>1, <1>2 DEF Later
  <1>4. CASE reg' = reg /\ view' = [view EXCEPT !.ok = FALSE]
    <2>1. /\ view'.gen = view.gen /\ view'.evidence = view.evidence /\ view'.rows = view.rows
          /\ ~view'.ok
      BY <1>2, <1>4 DEF ViewFields
    <2> QED  BY <1>1, <1>2, <1>3, <1>4, <2>1 DEF Books, Served, Traced, Booked
  <1>5. CASE Observed
    <2>1. Served'
      BY <1>5 DEF Observed, Served
    <2>2. reg.gen \in Nat /\ reg.state \in {"confirmed", "required"}
      BY DEF Inv, TypeOK
    <2>3. Traced'
      BY <1>1, <1>2, <1>5, <2>2 DEF Observed, Traced
    <2>4. Booked'
      <3> SUFFICES ASSUME change.phase = "ready", reg'.gen = change.evidence.gen,
                          NEW n \in Spares(change.intents)
                   PROVE  reg'.ids[n] = "pending"
        BY <1>1 DEF Booked
      <3>1. reg'.gen = reg.gen
        BY <1>2, <1>5, <2>2 DEF Observed, Traced
      <3>2. reg.ids[n] = "pending"
        BY <1>2, <3>1 DEF Booked
      <3>3. /\ Bundle(change.intents, issued) /\ issued \in Ids /\ Identified(db, issued)
            /\ reg.ids \in [Ids -> States] /\ Spares(change.intents) \cap IdsOf(db) = {}
        BY DEF Inv, TypeOK, Waiting, Unused, States
      <3>4. n \in Ids
        BY <3>3, BundleMore, NativeAssumption DEF Ids
      <3>5. n \notin Present(db)
        BY <3>3 DEF Present, IdsOf
      <3>6. Bound(reg.ids, db)[n] = "pending"
        BY <3>2, <3>3, <3>4, <3>5, BoundIds
      <3> QED  BY <1>5, <2>2, <3>1, <3>2, <3>6 DEF Observed
    <2> QED  BY <1>3, <2>1, <2>3, <2>4 DEF Books
  <1> QED  BY <1>1, <1>4, <1>5

LEMMA AcceptBooks ==
    ASSUME Inv, Books, Accept, UNCHANGED <<draft, change>>
    PROVE  Books'
  <1>1. /\ done' = done /\ change' = change
        /\ view'.rows = view.rows /\ view'.gen = reg'.gen /\ view'.evidence = view.evidence
        /\ reg'.evidence = view.evidence /\ reg'.gen = reg.gen + 1
        /\ \A n \in Ids : reg'.ids[n] = "active" => n \in Present(view.rows)
    BY Acceptance
  <1>2. Served /\ Traced /\ Booked /\ Later /\ reg.gen \in Nat
    BY DEF Books, Inv, TypeOK
  <1>3. Served' /\ Later'
    BY <1>1, <1>2 DEF Served, Later
  <1>4. change.phase # "none" => reg'.gen # change.evidence.gen /\ change.evidence.gen <= reg'.gen
    BY <1>1, <1>2 DEF Traced
  <1>5. Traced' /\ Booked'
    BY <1>1, <1>2, <1>4 DEF Traced, Booked
  <1> QED  BY <1>3, <1>5 DEF Books

LEMMA AdmitBooks ==
    ASSUME Inv, Books, Admit
    PROVE  Books'
  <1> DEFINE s == draft.intents
  <1>1. /\ view' = view /\ done' = done /\ reg' = WithReserved(reg, Reserved(s))
        /\ change'.phase = "ready" /\ change'.intents = s /\ change'.evidence = Continuity
    BY DEF Admit
  <1>2. /\ Served /\ Later /\ DOMAIN reg = RegFields /\ reg.ids \in [Ids -> States] /\ reg.gen \in Nat
        /\ Bundle(s, issued) /\ issued \in Ids
    BY DEF Books, Inv, TypeOK, Registered, RegFields, States, Waiting
  <1>3. /\ reg'.gen = reg.gen /\ reg'.state = reg.state /\ reg'.evidence = reg.evidence
        /\ \A n \in Ids : (\E p \in Reserved(s) : p[1] = n) => reg'.ids[n] = "pending"
        /\ \A n \in Ids : ~(\E p \in Reserved(s) : p[1] = n) => reg'.ids[n] = reg.ids[n]
    BY <1>1, <1>2, WithReservedFields
  <1>4. /\ Continuity.gen = view.gen /\ Continuity.root = view.evidence.root
        /\ Continuity.epoch = view.evidence.epoch
    BY DEF Continuity
  <1>5. ASSUME NEW n \in Spares(s) PROVE reg'.ids[n] = "pending"
    <2>1. PICK i \in s : n \in SpareIds(i)
      BY DEF Spares
    <2>2. PICK k \in DOMAIN i.spare : n = i.spare[k]
      BY <2>1 DEF SpareIds
    <2>3. <<n, "back">> \in Reserved(s)
      BY <2>2 DEF Reserved
    <2>4. n \in Ids
      BY <1>2, BundleMore, NativeAssumption DEF Ids
    <2>5. \E p \in Reserved(s) : p[1] = n
      BY <2>3
    <2> QED  BY <1>3, <2>4, <2>5
  <1> HIDE DEF s
  <1>6. Served'
    <2>1. \A n \in Ids : reg'.ids[n] = "active" => reg.ids[n] = "active"
      BY <1>3
    <2> QED  BY <1>1, <1>2, <1>3, <2>1 DEF Served
  <1>7. Traced'
    BY <1>1, <1>2, <1>3, <1>4 DEF Traced, Served
  <1>8. Booked'
    BY <1>1, <1>5 DEF Booked
  <1>9. Later'
    BY <1>1, <1>2 DEF Later, Standing
  <1> QED  BY <1>6, <1>7, <1>8, <1>9 DEF Books

\* The change goes on; what the registry decided stays.
LEMMA OnwardBooks ==
    ASSUME Books, Maintained, view' = view, done' = done, change.phase # "none",
           change'.phase \notin Before0, change'.evidence = change.evidence,
           change'.phase \in Standing =>
               change'.at = done \/ (change.phase \in Standing /\ change'.at = change.at)
    PROVE  Books'
  <1>1. Served /\ Traced /\ Later
    BY DEF Books
  <1>2. Served'
    BY <1>1 DEF Served, Maintained
  <1>3. Traced'
    BY <1>1 DEF Traced, Maintained
  <1>4. Booked'
    BY DEF Booked, Before0
  <1>5. Later'
    BY <1>1 DEF Later
  <1> QED  BY <1>2, <1>3, <1>4, <1>5 DEF Books

LEMMA NextBooks == Inv /\ Books /\ [Next]_changeVars => Books'
  <1> SUFFICES ASSUME Inv, Books, [Next]_changeVars PROVE Books'
    OBVIOUS
  <1>0. DOMAIN change = ChangeFields
    BY DEF Inv, Fixed, ChangeFields
  <1>1. CASE ForeignEdit /\ UNCHANGED <<draft, change>>
    BY <1>1, ForeignEditBooks
  <1>2. CASE Publish /\ UNCHANGED <<draft, change>>
    BY <1>2, PublishBooks
  <1>3. CASE Accept /\ UNCHANGED <<draft, change>>
    BY <1>3, AcceptBooks
  <1>4. CASE Break /\ UNCHANGED <<draft, change>>
    BY <1>4, BreakBooks
  <1>5. CASE EditDraft /\ UNCHANGED change
    <2>1. reg' = reg /\ view' = view /\ done' = done /\ change' = change
      BY <1>5 DEF EditDraft
    <2> QED  BY <2>1 DEF Books, Served, Traced, Booked, Later
  <1>6. CASE Admit
    BY <1>6, AdmitBooks
  <1>7. CASE Commit
    <2>1. /\ view' = view /\ done' = done /\ change.phase = "ready"
          /\ reg' = Journalled(reg, change'.phase)
          /\ \/ change' = [change EXCEPT !.phase = "committed", !.wait = {}, !.at = done]
             \/ change' = [change EXCEPT !.phase = "refused", !.wait = {}]
      BY <1>7 DEF Commit
    <2>2. /\ change'.evidence = change.evidence /\ change'.phase \in {"committed", "refused"}
          /\ change'.phase = "committed" => change'.at = done
      BY <1>0, <2>1 DEF ChangeFields
    <2>3. Maintained
      BY <2>1, JournalledMaintained
    <2> QED  BY <2>1, <2>2, <2>3, OnwardBooks DEF Before0, Standing
  <1>8. CASE Confirm
    <2>1. /\ view' = view /\ done' = done /\ change.phase = "committed"
          /\ reg' = Journalled(reg, change'.phase) /\ change' = [change EXCEPT !.phase = "confirmed"]
      BY <1>8 DEF Confirm
    <2>2. change'.evidence = change.evidence /\ change'.phase = "confirmed"
      BY <1>0, <2>1 DEF ChangeFields
    <2>3. Maintained
      BY <2>1, JournalledMaintained
    <2> QED  BY <2>1, <2>2, <2>3, OnwardBooks DEF Before0, Standing
  <1>9. CASE Withdraw
    <2>1. /\ view' = view /\ done' = done /\ reg' = reg /\ change.phase = "committed"
          /\ change' = [change EXCEPT !.phase = "undoing",
                                      !.wait = Compiled(Backwards(change.intents), view.rows)]
      BY <1>9 DEF Withdraw, nativeVars
    <2>2. change'.evidence = change.evidence /\ change'.phase = "undoing" /\ change'.at = change.at
      BY <1>0, <2>1 DEF ChangeFields
    <2>3. Maintained
      BY <2>1 DEF Maintained
    <2> QED  BY <2>1, <2>2, <2>3, OnwardBooks DEF Before0, Standing
  <1>10. CASE Undo
    <2>1. /\ view' = view /\ done' = done /\ reg' = reg /\ change.phase = "undoing"
          /\ \/ change' = [change EXCEPT !.phase = "rolled", !.wait = {}]
             \/ change' = [change EXCEPT !.phase = "committed", !.wait = {}]
      BY <1>10 DEF Undo
    <2>2. /\ change'.evidence = change.evidence /\ change'.phase \in {"rolled", "committed"}
          /\ change'.at = change.at
      BY <1>0, <2>1 DEF ChangeFields
    <2>3. Maintained
      BY <2>1 DEF Maintained
    <2> QED  BY <2>1, <2>2, <2>3, OnwardBooks DEF Before0, Standing
  <1>11. CASE Restored
    <2>1. /\ view' = view /\ done' = done /\ change.phase = "rolled"
          /\ reg' = Journalled(reg, change'.phase) /\ change' = [change EXCEPT !.phase = "undone"]
      BY <1>11 DEF Restored
    <2>2. change'.evidence = change.evidence /\ change'.phase = "undone"
      BY <1>0, <2>1 DEF ChangeFields
    <2>3. Maintained
      BY <2>1, JournalledMaintained
    <2> QED  BY <2>1, <2>2, <2>3, OnwardBooks DEF Before0, Standing
  <1>12. CASE UNCHANGED changeVars
    <2>1. reg' = reg /\ view' = view /\ done' = done /\ change' = change
      BY <1>12 DEF changeVars, nativeVars
    <2> QED  BY <2>1 DEF Books, Served, Traced, Booked, Later
  <1> QED
    BY <1>1, <1>2, <1>3, <1>4, <1>5, <1>6, <1>7, <1>8, <1>9, <1>10, <1>11, <1>12 DEF Next

-----------------------------------------------------------------------------
(* The intents of a draft.                                                 *)

Formed(s) == Grouped(s) /\ \A i \in s : i.op \in FieldOps => Steady(i)
Framed == Formed(draft.intents) /\ Formed(change.intents)

LEMMA ListGrouped ==
    ASSUME NEW s, \A i \in s : i.op \in ListOps, Apart(s)
    PROVE  Grouped(s)
  BY DEF Grouped, Apart

LEMMA PartGrouped ==
    ASSUME NEW s, Grouped(s), NEW t, t \subseteq s
    PROVE  Grouped(t)
  <1> SUFFICES ASSUME NEW i \in t, i.op \in FieldOps
               PROVE  t = {i} \/ \A j \in t : j.op \in ListOps /\ (j.key = i.key => j = i)
    BY DEF Grouped
  <1>1. s = {i} \/ \A j \in s : j.op \in ListOps /\ (j.key = i.key => j = i)
    BY DEF Grouped
  <1> QED  BY <1>1

LEMMA OneGrouped == ASSUME NEW i PROVE Grouped({i})
  BY DEF Grouped

LEMMA StageFieldFormed ==
    ASSUME Schema(view.rows), \A i \in draft.intents : Staged(i), Formed(draft.intents),
           DOMAIN draft = DraftFields, NEW r, Request(r), r.op \in FieldOps, StageField(r)
    PROVE  Formed(draft'.intents)
  <1> DEFINE s == draft.intents
  <1>1. r.key \in DOMAIN view.rows /\ Table(r.key) = Subject(r.op)
    BY DEF StageField, Request
  <1>2. /\ r.op \in ListOps => \A i \in s : i.op \in ListOps /\ (i.key = r.key => i.op = r.op)
        /\ r.op \notin ListOps => s = Prior(r)
    BY DEF StageField, Joins, Alone
  <1>3. \/ Prior(r) = {} /\ Replaced({}, {FieldIntent(view.rows, r)})
        \/ \E i \in Prior(r) : Replaced({i}, {Amended(i, view.rows, r.v)})
    BY DEF StageField
  <1>4. Grouped(s) /\ \A i \in s : i.op \in FieldOps => Steady(i)
    BY DEF Formed
  <1>5. r.op \in ListOps => Apart(s)
    BY <1>2, <1>4, FieldsApart DEF FieldOps
  <1>6. CASE Prior(r) = {} /\ Replaced({}, {FieldIntent(view.rows, r)})
    <2>1. PICK j : j = FieldIntent(view.rows, r)
      OBVIOUS
    <2>2. Steady(j) /\ j.op = r.op /\ j.key = r.key
      BY <1>1, <2>1, FieldIntentSteady, FieldIntentFields
    <2>3. draft'.intents = s \cup {j}
      <3>1. Replaced({}, {j})
        BY <1>6, <2>1
      <3>2. draft'.intents = (s \ {}) \cup {j}
        BY <3>1, ReplacedDraft
      <3> QED  BY <3>2
    <2>4. Grouped(s \cup {j})
      <3>1. CASE r.op \in ListOps
        <4>1. \A i \in s : i.key # j.key
          BY <1>2, <1>6, <2>2, <3>1 DEF Prior
        <4>2. Apart(s \cup {j}) /\ \A i \in s \cup {j} : i.op \in ListOps
          BY <1>2, <1>5, <2>2, <3>1, <4>1 DEF Apart
        <4> QED  BY <4>2, ListGrouped
      <3>2. CASE r.op \notin ListOps
        <4>1. s \cup {j} = {j}
          BY <1>2, <1>6, <3>2
        <4> QED  BY <4>1, OneGrouped
      <3> QED  BY <3>1, <3>2
    <2> QED  BY <1>4, <2>2, <2>3, <2>4 DEF Formed
  <1>7. CASE \E i \in Prior(r) : Replaced({i}, {Amended(i, view.rows, r.v)})
    <2>1. PICK i \in Prior(r) : Replaced({i}, {Amended(i, view.rows, r.v)})
      BY <1>7
    <2>2. PICK j : j = Amended(i, view.rows, r.v)
      OBVIOUS
    <2>3. i \in s /\ i.op = r.op /\ i.key = r.key /\ Staged(i)
      BY DEF Prior
    <2>4. IsFunction(i) /\ DOMAIN i = DOMAIN Blank
      BY <2>3 DEF Staged
    <2>5. j.op = i.op /\ j.key = i.key
      BY <2>2, <2>4, AmendedFields
    <2>6. Steady(j)
      BY <1>1, <1>4, <2>2, <2>3, AmendedSteady
    <2>7. draft'.intents = (s \ {i}) \cup {j}
      BY <2>1, <2>2, ReplacedDraft
    <2>8. Grouped((s \ {i}) \cup {j})
      <3>1. CASE r.op \in ListOps
        <4>1. Apart((s \ {i}) \cup {j}) /\ \A x \in (s \ {i}) \cup {j} : x.op \in ListOps
          BY <1>2, <1>5, <2>3, <2>5, <3>1 DEF Apart
        <4> QED  BY <4>1, ListGrouped
      <3>2. CASE r.op \notin ListOps
        <4>1. s = {i}
          BY <1>4, <2>3, <3>2 DEF Grouped
        <4>2. (s \ {i}) \cup {j} = {j}
          BY <4>1
        <4> QED  BY <4>2, OneGrouped
      <3> QED  BY <3>1, <3>2
    <2> QED  BY <1>4, <2>6, <2>7, <2>8 DEF Formed
  <1> QED  BY <1>3, <1>6, <1>7

LEMMA StageGraphOne ==
    ASSUME DOMAIN draft = DraftFields, NEW r, StageGraph(r)
    PROVE  \E ids \in Assigned(Picks(view.rows, r).fresh \cup Picks(view.rows, r).doomed, issued + 1) :
              draft'.intents = {GraphIntent(view.rows, r, ids)}
  <1> DEFINE rows == Picks(view.rows, r).fresh \cup Picks(view.rows, r).doomed
             i(ids) == GraphIntent(view.rows, r, ids)
             count == Cardinality(rows)
  <1>1. \E ids \in Assigned(rows, issued + 1) :
            draft' = [draft EXCEPT !.intents = {i(ids)}, !.picked = @ + count]
    BY DEF StageGraph
  <1> HIDE DEF i, count, rows
  <1>2. PICK ids \in Assigned(rows, issued + 1) :
            draft' = [draft EXCEPT !.intents = {i(ids)}, !.picked = @ + count]
    BY <1>1
  <1>3. draft'.intents = {i(ids)}
    BY <1>2 DEF DraftFields
  <1> QED  BY <1>3 DEF i, rows

LEMMA RestageOne ==
    ASSUME Single(draft.intents), DOMAIN draft = DraftFields, NEW r, RestageInternal(r)
    PROVE  \E i \in draft.intents :
              /\ draft.intents = {i} /\ i.op = "internal.create" /\ r.on \in Fresh(i)
              /\ draft'.intents = {[i EXCEPT !.to[r.on].cfg.vlan = r.v]}
  <1>1. PICK i \in Prior(r) : /\ r.on \in Fresh(i)
                              /\ Replaced({i}, {[i EXCEPT !.to[r.on].cfg.vlan = r.v]})
    BY DEF RestageInternal
  <1>2. PICK j : j = [i EXCEPT !.to[r.on].cfg.vlan = r.v]
    OBVIOUS
  <1>3. i \in draft.intents /\ i.op = "internal.create"
    BY DEF Prior, RestageInternal
  <1>4. draft.intents = {i}
    BY <1>3 DEF Single, FieldOps, ListOps, TreeOps
  <1>5. draft'.intents = (draft.intents \ {i}) \cup {j}
    BY <1>1, <1>2, ReplacedDraft
  <1>6. draft'.intents = {j}
    BY <1>4, <1>5
  <1> QED  BY <1>1, <1>2, <1>3, <1>4, <1>6

LEMMA EditDraftFormed ==
    ASSUME Inv, Review, Framed, EditDraft, UNCHANGED change
    PROVE  Framed'
  <1>1. /\ DOMAIN draft = DraftFields /\ ~draft.consumed /\ net \in Networks /\ change' = change
    BY DEF Inv, Waiting, Fixed, DraftFields, EditDraft, Open
  <1>2. change.phase = "none"
    BY <1>1 DEF Inv, TypeOK
  <1>3. /\ Schema(view.rows) /\ Formed(draft.intents) /\ \A i \in draft.intents : Staged(i)
        /\ Single(draft.intents) /\ Bundle(draft.intents, issued)
    BY <1>2 DEF Review, Lawful, Drafted, Before0, Framed, Inv, Waiting, Bundle
  <1>4. \A r \in net.requests : Request(r)
    BY <1>1, RequestAssumption DEF Request
  <1>5. Formed(draft'.intents)
    <2>1. CASE \E r \in net.requests : r.op \in FieldOps /\ StageField(r)
      BY <1>1, <1>3, <1>4, <2>1, StageFieldFormed
    <2>2. CASE \E r \in net.requests : r.op \notin FieldOps /\ StageGraph(r)
      <3>1. PICK r \in net.requests : r.op \notin FieldOps /\ StageGraph(r)
        BY <2>2
      <3>2. PICK ids : draft'.intents = {GraphIntent(view.rows, r, ids)}
        BY <1>1, <3>1, StageGraphOne
      <3>3. PICK i : i = GraphIntent(view.rows, r, ids)
        OBVIOUS
      <3>4. i.op \notin FieldOps
        BY <3>1, <3>3, GraphIntentFields
      <3>5. draft'.intents = {i}
        BY <3>2, <3>3
      <3> QED  BY <3>4, <3>5, OneGrouped DEF Formed
    <2>3. CASE \E r \in net.requests : RestageInternal(r)
      <3>1. PICK r \in net.requests : RestageInternal(r)
        BY <2>3
      <3>2. PICK i \in draft.intents :
              /\ i.op = "internal.create" /\ draft'.intents = {[i EXCEPT !.to[r.on].cfg.vlan = r.v]}
        BY <1>1, <1>3, <3>1, RestageOne
      <3>3. PICK j : j = [i EXCEPT !.to[r.on].cfg.vlan = r.v]
        OBVIOUS
      <3>4. DOMAIN i = DOMAIN Blank
        BY <1>3 DEF Staged
      <3>5. j.op = i.op
        BY <3>3, <3>4, BlankFields
      <3>6. j.op \notin FieldOps /\ draft'.intents = {j}
        BY <3>2, <3>3, <3>5 DEF FieldOps, ListOps, TreeOps
      <3> QED  BY <3>6, OneGrouped DEF Formed
    <2>4. CASE \E i \in draft.intents : Remove(i)
      <3>1. PICK i \in draft.intents : Replaced({i}, {})
        BY <2>4 DEF Remove
      <3>2. draft'.intents = (draft.intents \ {i}) \cup {}
        BY <1>1, <3>1, ReplacedDraft
      <3>3. draft'.intents \subseteq draft.intents
        BY <3>2
      <3> QED  BY <1>3, <3>3, PartGrouped DEF Formed
    <2>5. CASE Discard
      <3>1. Replaced(draft.intents, {})
        BY <2>5 DEF Discard
      <3>2. draft'.intents = (draft.intents \ draft.intents) \cup {}
        BY <1>1, <3>1, ReplacedDraft
      <3>3. draft'.intents \subseteq draft.intents
        BY <3>2
      <3> QED  BY <1>3, <3>3, PartGrouped DEF Formed
    <2>6. CASE \E keep \in SUBSET draft.intents : Rebase(keep)
      <3>1. PICK keep \in SUBSET draft.intents : Rebase(keep)
        BY <2>6
      <3> DEFINE q(i) == [op |-> i.op, key |-> i.key, v |-> i.after]
                 again(i) == FieldIntent(view.rows, q(i))
                 s == {again(i) : i \in keep}
      <3>2. Replaced(draft.intents, s)
        BY <3>1 DEF Rebase
      <3>3. \A i \in draft.intents : i.op \in ListOps /\ i.key \in DOMAIN view.rows
        BY <3>1 DEF Rebase, Rebasable
      <3>4. ASSUME NEW i \in keep
            PROVE  Steady(again(i)) /\ again(i).op = i.op /\ again(i).key = i.key
        <4>1. i \in draft.intents /\ i.op \in FieldOps /\ i.key \in DOMAIN view.rows
          BY <3>3 DEF FieldOps
        <4>2. Table(i.key) = Subject(i.op)
          BY <1>3, <4>1 DEF Staged, StagedField
        <4>3. q(i).op = i.op /\ q(i).key = i.key
          OBVIOUS
        <4> HIDE DEF q
        <4>4. Steady(again(i))
          BY <1>3, <4>1, <4>2, <4>3, FieldIntentSteady
        <4>5. again(i).op = q(i).op /\ again(i).key = q(i).key
          BY FieldIntentFields
        <4> QED  BY <4>3, <4>4, <4>5
      <3>5. Apart(draft.intents)
        BY <1>3, <3>3, FieldsApart DEF Formed, FieldOps
      <3> HIDE DEF again
      <3>6. /\ \A j \in s : j.op \in ListOps /\ Steady(j)
            /\ Apart(s)
        BY <3>3, <3>4, <3>5 DEF Apart
      <3> HIDE DEF s
      <3>7. draft'.intents = (draft.intents \ draft.intents) \cup s
        BY <1>1, <3>2, ReplacedDraft
      <3>8. draft'.intents = s
        BY <3>7
      <3> QED  BY <3>6, <3>8, ListGrouped DEF Formed
    <2> QED  BY <2>1, <2>2, <2>3, <2>4, <2>5, <2>6 DEF EditDraft
  <1> QED  BY <1>1, <1>5 DEF Framed

\* Only an edit of the draft, and admission, touch the intents.
LEMMA IntentsKept ==
    ASSUME Inv, [Next]_changeVars
    PROVE  \/ EditDraft /\ UNCHANGED change
           \/ /\ draft'.intents = draft.intents
              /\ Admit \/ change'.intents = change.intents
              /\ change'.phase = "ready" => Admit \/ change' = change
              /\ change'.phase = "none" => change' = change
  <1>0. DOMAIN change = ChangeFields /\ DOMAIN draft = DraftFields
    BY DEF Inv, Fixed, Waiting, ChangeFields, DraftFields
  <1>1. CASE UNCHANGED <<draft, change>>
    BY <1>1
  <1>2. CASE EditDraft /\ UNCHANGED change
    BY <1>2
  <1>3. CASE Admit
    BY <1>0, <1>3 DEF Admit, Consumed, DraftFields
  <1>4. CASE Commit
    <2>1. /\ draft' = draft
          /\ \/ change' = [change EXCEPT !.phase = "committed", !.wait = {}, !.at = done]
             \/ change' = [change EXCEPT !.phase = "refused", !.wait = {}]
      BY <1>4 DEF Commit
    <2> QED  BY <1>0, <2>1 DEF ChangeFields
  <1>5. CASE Confirm
    <2>1. draft' = draft /\ change' = [change EXCEPT !.phase = "confirmed"]
      BY <1>5 DEF Confirm
    <2> QED  BY <1>0, <2>1 DEF ChangeFields
  <1>6. CASE Withdraw
    <2>1. /\ draft' = draft
          /\ change' = [change EXCEPT !.phase = "undoing",
                                      !.wait = Compiled(Backwards(change.intents), view.rows)]
      BY <1>6 DEF Withdraw
    <2> QED  BY <1>0, <2>1 DEF ChangeFields
  <1>7. CASE Undo
    <2>1. /\ draft' = draft
          /\ \/ change' = [change EXCEPT !.phase = "rolled", !.wait = {}]
             \/ change' = [change EXCEPT !.phase = "committed", !.wait = {}]
      BY <1>7 DEF Undo
    <2> QED  BY <1>0, <2>1 DEF ChangeFields
  <1>8. CASE Restored
    <2>1. draft' = draft /\ change' = [change EXCEPT !.phase = "undone"]
      BY <1>8 DEF Restored
    <2> QED  BY <1>0, <2>1 DEF ChangeFields
  <1>9. CASE UNCHANGED changeVars
    BY <1>9 DEF changeVars
  <1> QED
    BY <1>1, <1>2, <1>3, <1>4, <1>5, <1>6, <1>7, <1>8, <1>9 DEF Next

LEMMA InitFramed == Init => Framed
  BY DEF Init, DraftInit, NoChange, Framed, Formed, Grouped

LEMMA NextFramed == Inv /\ Review /\ Framed /\ [Next]_changeVars => Framed'
  <1> SUFFICES ASSUME Inv, Review, Framed, [Next]_changeVars PROVE Framed'
    OBVIOUS
  <1>1. Admit => change'.intents = draft.intents
    BY DEF Admit
  <1> QED  BY <1>1, IntentsKept, EditDraftFormed DEF Framed

\* The transaction was compiled from rows with the root that it is for.
Anchored ==
    change.phase = "ready" =>
        \E g : /\ Schema(g) /\ g[Root].id = change.evidence.root
               /\ change.intents # {} /\ change.wait = Compiled(change.intents, g)
               /\ \A i \in change.intents : Agreeing(i, g) /\ Gate(i, g)

LEMMA InitAnchored == Init => Anchored
  BY DEF Init, NoChange, Anchored

LEMMA NextAnchored == Inv /\ Review /\ Books /\ Anchored /\ [Next]_changeVars => Anchored'
  <1> SUFFICES ASSUME Inv, Review, Books, Anchored, [Next]_changeVars, change'.phase = "ready"
               PROVE  Anchored'
    BY DEF Anchored
  <1>1. Admit \/ change' = change
    BY IntentsKept
  <1>2. CASE change' = change
    BY <1>2 DEF Anchored
  <1>3. CASE Admit
    <2>1. /\ change.phase = "none" /\ draft.intents # {} /\ \A i \in draft.intents : Checks(i, view.rows)
          /\ change'.intents = draft.intents /\ change'.wait = Compiled(draft.intents, view.rows)
          /\ change'.evidence = Continuity
      BY <1>3 DEF Admit
    <2>2. Continuity.root = view.rows[Root].id
      BY DEF Continuity, Books, Served
    <2>3. Schema(view.rows)
      BY <2>1 DEF Review, Lawful, Before0
    <2>4. \A i \in draft.intents : Agreeing(i, view.rows) /\ Gate(i, view.rows)
      BY <2>1, ChecksGate
    <2> QED  BY <2>1, <2>2, <2>3, <2>4 DEF Anchored
  <1> QED  BY <1>1, <1>2, <1>3

\* Every transaction waits for the root that it was compiled for.
LEMMA CellsAnchor ==
    ASSUME NEW g, Root \in DOMAIN g, NEW cells, Agree(g, db, cells), NEW ks, Root \in ks, Labelled(ks) \subseteq cells
    PROVE  db[Root].id = g[Root].id
  <1>1. <<Root, "id">> \in cells
    BY DEF Labelled, Cells
  <1> QED  BY <1>1, IdCell DEF Agree

LEMMA WaitAnchors ==
    ASSUME NEW i, NEW g, Schema(g), Schema(db), Staged(i), Agreeing(i, g), Holds(Wait(i, g))
    PROVE  db[Root].id = g[Root].id
  <1>0. Root \in DOMAIN g /\ Typed(g) /\ Typed(db)
    BY DEF Schema, Typed
  <1>1. CASE i.op \in FieldOps
    <2>1. Holds(FieldWait(i, g))
      BY <1>1 DEF Wait, FieldOps, ListOps, TreeOps, LifecycleOps
    <2>2. CASE i.op \in ListOps
      <3>1. FieldWait(i, g).cells = Image(g, VlanWait(i, g))
        BY <2>2, NoWaitCells DEF FieldWait, ListOps
      <3>2. Agree(g, db, VlanWait(i, g))
        BY <2>1, <3>1, CellsWait
      <3>3. Labelled({Root, i.key} \cup Holders(g, i.key) \cup g[i.key].links) \subseteq VlanWait(i, g)
        BY DEF VlanWait
      <3> QED  BY <1>0, <3>2, <3>3, CellsAnchor
    <2>3. CASE i.op = "mtu"
      <3>1. FieldWait(i, g).cells = Image(g, MtuWait(i, g))
        BY <2>3, NoWaitCells DEF FieldWait, ListOps
      <3>2. Agree(g, db, MtuWait(i, g))
        BY <2>1, <3>1, CellsWait
      <3>3. Labelled({Root, i.key} \cup Holders(g, i.key) \cup HoldersOf(g, Holders(g, i.key)))
               \subseteq MtuWait(i, g)
        BY DEF MtuWait, InterfaceWait
      <3> QED  BY <1>0, <3>2, <3>3, CellsAnchor
    <2>4. CASE i.op = "police"
      <3>1. FieldWait(i, g).cells = Image(g, PolicingWait(i, g))
        BY <2>4, NoWaitCells DEF FieldWait, ListOps
      <3>2. Agree(g, db, PolicingWait(i, g))
        BY <2>1, <3>1, CellsWait
      <3>3. Labelled({Root, i.key} \cup Holders(g, i.key) \cup HoldersOf(g, Holders(g, i.key)))
               \subseteq PolicingWait(i, g)
        BY DEF PolicingWait, InterfaceWait
      <3> QED  BY <1>0, <3>2, <3>3, CellsAnchor
    <2>5. CASE i.op \notin ListOps \cup {"mtu", "police"}
      <3>1. FieldWait(i, g) = FenceWait(g)
        BY <2>5 DEF FieldWait
      <3>2. FenceWait(g).tables = Tables(g, FenceTables)
        BY NoWaitCells DEF FenceWait
      <3>3. SameTable(g, db, "Root")
        BY <2>1, <3>1, <3>2, TablesWait DEF FenceTables
      <3>4. Root \in Rows(g, "Root")
        BY <1>0 DEF Rows, Root, Table
      <3> QED  BY <1>0, <3>3, <3>4, SameTableRows
    <2> QED  BY <2>2, <2>3, <2>4, <2>5
  <1>2. CASE i.op \in LifecycleOps
    <2>1. Root \notin Doomed(i)
      <3>1. StagedLifecycle(i)
        BY <1>2 DEF Staged
      <3> QED  BY <3>1 DEF StagedLifecycle, Root, Table
    <2>2. <<Root, "id">> \in Labelled({Root})
      BY DEF Labelled, Cells
    <2>3. Col(db, <<Root, "id">>) = Col(g, <<Root, "id">>)
      BY <1>2, <2>1, <2>2, LifecycleCells
    <2> QED  BY <1>0, <2>3, IdCell
  <1>3. CASE i.op \notin FieldOps \cup LifecycleOps
    <2>1. Holds(GraphWait(i, g))
      BY <1>3 DEF Wait
    <2>2. StagedRows(i)
      BY <1>3 DEF Staged
    <2>3. DOMAIN i.from \subseteq DOMAIN g
      <3> SUFFICES ASSUME NEW k \in DOMAIN i.from PROVE k \in DOMAIN g
        OBVIOUS
      <3>1. <<k, "id">> \in Config(k)
        BY DEF Config, Whole, Cells
      <3>2. <<k, "id">> \in DOMAIN i.was /\ i.was[<<k, "id">>] # {}
        BY <2>2, <3>1 DEF StagedRows
      <3> QED  BY <3>2, CapturedPresent
    <2>4. Agree(g, db, Whole(Root))
      BY <2>1, <2>3, RowsWait
    <2> QED  BY <1>0, <2>4, RowsSame
  <1> QED  BY <1>1, <1>2, <1>3

-----------------------------------------------------------------------------
(* A graft, row by row.                                                    *)

LEMMA SettleRow ==
    ASSUME NEW w, Typed(w), NEW k \in DOMAIN Settle(w)
    PROVE  /\ k \in DOMAIN w
           /\ Settle(w)[k] = Referring(w[k], w[k].refs \cap DOMAIN Settle(w))
  <1> DEFINE bridges == w[Root].links
             ports == UNION {w[x].links : x \in bridges}
             kept == {Root} \cup bridges \cup ports \cup UNION {w[x].links : x \in ports}
  <1>1. /\ DOMAIN Settle(w) = DOMAIN w \cap kept
        /\ \A x \in DOMAIN w \cap kept : Settle(w)[x] = Referring(w[x], w[x].refs \cap kept)
    BY DEF Settle, Referring
  <1> HIDE DEF kept
  <1>2. k \in DOMAIN w /\ w[k].refs \subseteq DOMAIN w
    BY <1>1, TypedRow
  <1>3. w[k].refs \cap kept = w[k].refs \cap DOMAIN Settle(w)
    BY <1>1, <1>2
  <1> QED  BY <1>1, <1>2, <1>3

LEMMA ReferringRow ==
    ASSUME NEW k, NEW row, IsRow(k, row), NEW x
    PROVE  LET y == Referring(row, x) IN
           /\ y.id = row.id /\ y.links = row.links /\ y.refs = x /\ y.ctl = row.ctl
           /\ y.made = row.made /\ y.mark = row.mark /\ y.cfg = row.cfg
  BY DEF Referring, IsRow, Columns

LEMMA RewrittenRest ==
    ASSUME NEW k, NEW row, IsRow(k, row), NEW a, NEW b
    PROVE  LET y == Rewritten(row, a, b) IN
           /\ y.id = row.id /\ y.ctl = row.ctl /\ y.made = row.made /\ y.mark = row.mark
           /\ y.cfg = IF a.cfg = b.cfg THEN row.cfg ELSE b.cfg
           /\ y.refs = Delta(row.refs, a.refs, b.refs)
  BY DEF Rewritten, IsRow, Columns

LEMMA SewnRoot ==
    ASSUME NEW g, Schema(g), NEW i, NEW m, Root \notin Fresh(i)
    PROVE  LET h == Sewn(g, i, m) IN
           /\ h[Root].id = g[Root].id /\ h[Root].ctl = g[Root].ctl /\ h[Root].cfg = g[Root].cfg
           /\ h[Root].mark = m
  <1> DEFINE old == {k \in Doomed(i) : Table(k) = "Bridge"}
             new == {k \in Fresh(i) : Table(k) = "Bridge"}
             links == Delta(g[Root].links, old, new)
             root == [g[Root] EXCEPT !.links = links, !.mark = m]
             kept == [k \in DOMAIN g |->
                        IF k = Root THEN [g[k] EXCEPT !.links = Delta(@, old, new), !.mark = m]
                        ELSE IF k \in DOMAIN i.from \cap DOMAIN i.to
                             THEN Rewritten(g[k], i.from[k], i.to[k]) ELSE g[k]]
  <1>1. Root \in DOMAIN g /\ DOMAIN g[Root] = Columns
    BY TypedRow DEF Schema, Typed, IsRow
  <1>2. kept[Root] = root /\ DOMAIN kept = DOMAIN g
    BY <1>1
  <1>3. Sewn(g, i, m) = With(kept, Sub(i.to, Fresh(i)))
    BY DEF Sewn
  <1> HIDE DEF kept, links
  <1>4. root.id = g[Root].id /\ root.ctl = g[Root].ctl /\ root.cfg = g[Root].cfg /\ root.mark = m
    BY <1>1 DEF Columns
  <1> HIDE DEF root
  <1>5. Sewn(g, i, m)[Root] = root
    BY <1>1, <1>2, <1>3 DEF With, Sub
  <1> QED  BY <1>4, <1>5

\* The rows of s, which is g grafted with i.
Grafts(g, i, m, s) ==
    LET old == {k \in Doomed(i) : Table(k) = "Bridge"}
        new == {k \in Fresh(i) : Table(k) = "Bridge"}
    IN /\ Schema(s) /\ DOMAIN s \subseteq DOMAIN g \cup Fresh(i)
       /\ (DOMAIN g \ Doomed(i)) \cup Fresh(i) \subseteq DOMAIN s
       /\ s[Root].id = g[Root].id /\ s[Root].ctl = g[Root].ctl /\ s[Root].cfg = g[Root].cfg
       /\ s[Root].mark = m /\ s[Root].links = Delta(g[Root].links, old, new)
       /\ \A k \in DOMAIN s \ Fresh(i) : s[k].id = g[k].id
       /\ \A k \in Fresh(i) :
             /\ s[k].id = i.to[k].id /\ s[k].ctl = i.to[k].ctl /\ s[k].cfg = i.to[k].cfg
             /\ s[k].links = i.to[k].links /\ s[k].refs = i.to[k].refs
       /\ \A k \in DOMAIN i.from \cap DOMAIN i.to :
             /\ s[k].ctl = g[k].ctl /\ s[k].made = g[k].made /\ s[k].mark = g[k].mark
             /\ s[k].cfg = IF i.from[k].cfg = i.to[k].cfg THEN g[k].cfg ELSE i.to[k].cfg
             /\ s[k].links = Delta(g[k].links, i.from[k].links, i.to[k].links)
             /\ s[k].refs = Delta(g[k].refs, i.from[k].refs, i.to[k].refs) \cap DOMAIN s
       /\ \A k \in DOMAIN g \ (Owns(i) \cup {Root}) : g[k].refs \cap Doomed(i) = {} => s[k] = g[k]

LEMMA GraftRows ==
    ASSUME NEW g, Schema(g), NEW i, NEW m, Woven(i.from, i.to), Woven(i.to, i.from), Fits(i, g)
    PROVE  Grafts(g, i, m, Grafted(g, i, m))
  <1> DEFINE h == Sewn(g, i, m)
             s == Grafted(g, i, m)
             both == DOMAIN i.from \cap DOMAIN i.to
             old == {k \in Doomed(i) : Table(k) = "Bridge"}
             new == {k \in Fresh(i) : Table(k) = "Bridge"}
  <1>1. /\ DOMAIN h = DOMAIN g \cup Fresh(i)
        /\ h[Root].links = Delta(g[Root].links, old, new)
        /\ \A k \in Fresh(i) : h[k] = i.to[k]
        /\ \A k \in both : h[k] = Rewritten(g[k], i.from[k], i.to[k])
        /\ \A k \in DOMAIN g \ (both \cup {Root}) : h[k] = g[k]
    <2>1. Sews(g, i, h)
      BY SewnRows
    <2> HIDE DEF h
    <2> QED  BY <2>1 DEF Sews
  <1>2. s = Settle(h)
    BY DEF Grafted, Sewn
  <1>3. Typed(h)
    BY SewnTyped
  <1>4. /\ Schema(s)
        /\ (DOMAIN g \ Doomed(i)) \cup Fresh(i) \subseteq DOMAIN s
        /\ \A k \in Fresh(i) : s[k].links = i.to[k].links
        /\ \A k \in both : s[k].links = Delta(g[k].links, i.from[k].links, i.to[k].links)
        /\ \A k \in DOMAIN g \ (Owns(i) \cup {Root}) : g[k].refs \cap Doomed(i) = {} => s[k] = g[k]
    BY GraftKeeps
  <1>5. Typed(g) /\ Root \in DOMAIN g
    BY DEF Schema, Typed
  <1>6. \A k \in DOMAIN i.from \cup DOMAIN i.to : k # Root
    BY DEF Woven, Proportioned
  <1>7. Root \notin Fresh(i) /\ Root \notin Doomed(i) /\ Root \notin both /\ both \subseteq DOMAIN g
        /\ both \cap Doomed(i) = {} /\ Fresh(i) \cap DOMAIN g = {}
    BY <1>6 DEF Fresh, Doomed, Fits
  <1>8. /\ h[Root].id = g[Root].id /\ h[Root].ctl = g[Root].ctl /\ h[Root].cfg = g[Root].cfg
        /\ h[Root].mark = m
    BY <1>7, SewnRoot
  <1> HIDE DEF h, s
  <1>9. ASSUME NEW k \in DOMAIN s
        PROVE  /\ k \in DOMAIN h
               /\ s[k].id = h[k].id /\ s[k].links = h[k].links /\ s[k].ctl = h[k].ctl
               /\ s[k].made = h[k].made /\ s[k].mark = h[k].mark /\ s[k].cfg = h[k].cfg
               /\ s[k].refs = h[k].refs \cap DOMAIN s
    <2>1. k \in DOMAIN h /\ s[k] = Referring(h[k], h[k].refs \cap DOMAIN s)
      BY <1>2, <1>3, SettleRow
    <2>2. IsRow(k, h[k])
      BY <1>3, <2>1, TypedRow
    <2> QED  BY <2>1, <2>2, ReferringRow
  <1>10. DOMAIN s \subseteq DOMAIN g \cup Fresh(i)
    BY <1>1, <1>9
  <1>11. Root \in DOMAIN s
    BY <1>4, <1>5, <1>7
  <1>12. ASSUME NEW k \in both
         PROVE  /\ k \in DOMAIN s /\ h[k].id = g[k].id
                /\ h[k].ctl = g[k].ctl /\ h[k].made = g[k].made /\ h[k].mark = g[k].mark
                /\ h[k].cfg = IF i.from[k].cfg = i.to[k].cfg THEN g[k].cfg ELSE i.to[k].cfg
                /\ h[k].refs = Delta(g[k].refs, i.from[k].refs, i.to[k].refs)
    <2>1. IsRow(k, g[k])
      BY <1>5, <1>7, TypedRow
    <2> QED  BY <1>1, <1>4, <1>7, <2>1, RewrittenRest
  <1>13. ASSUME NEW k \in DOMAIN s \ Fresh(i) PROVE s[k].id = g[k].id
    <2>1. k \in DOMAIN g
      BY <1>10
    <2> QED  BY <1>1, <1>8, <1>9, <1>12, <2>1
  <1>14. ASSUME NEW k \in Fresh(i) PROVE s[k].refs = i.to[k].refs /\ k \in DOMAIN s
    <2>1. DOMAIN i.to \subseteq DOMAIN s
      BY <1>4, <1>12 DEF Fresh
    <2>2. i.to[k].refs \subseteq DOMAIN i.to
      BY DEF Fresh, Woven, Proportioned
    <2> QED  BY <1>1, <1>4, <1>9, <2>1, <2>2
  <1>15. \A k \in Fresh(i) : s[k].id = i.to[k].id /\ s[k].ctl = i.to[k].ctl /\ s[k].cfg = i.to[k].cfg
    BY <1>1, <1>9, <1>14
  <1>16. \A k \in both :
             /\ s[k].ctl = g[k].ctl /\ s[k].made = g[k].made /\ s[k].mark = g[k].mark
             /\ s[k].cfg = IF i.from[k].cfg = i.to[k].cfg THEN g[k].cfg ELSE i.to[k].cfg
             /\ s[k].refs = Delta(g[k].refs, i.from[k].refs, i.to[k].refs) \cap DOMAIN s
    BY <1>9, <1>12
  <1>17. /\ s[Root].id = g[Root].id /\ s[Root].ctl = g[Root].ctl /\ s[Root].cfg = g[Root].cfg
         /\ s[Root].mark = m /\ s[Root].links = Delta(g[Root].links, old, new)
    BY <1>1, <1>8, <1>9, <1>11
  <1> HIDE DEF old, new
  <1>18. Grafts(g, i, m, s)
    BY <1>4, <1>10, <1>13, <1>14, <1>15, <1>16, <1>17 DEF Grafts, old, new
  <1> QED  BY <1>18 DEF s

\* Rows that stay give up every doomed row they hold.
Severs(i, g) ==
    \A x \in DOMAIN i.from \cap DOMAIN i.to, k \in Doomed(i) :
        k \in g[x].links => k \in i.from[x].links \ i.to[x].links
\* Nobody else holds a doomed row.
Loose(i, g) == \A k \in Doomed(i) : Holders(g, k) \subseteq Owns(i) \cup {Root}

LEMMA DoomedHeld ==
    ASSUME NEW g, Schema(g), NEW i, NEW m, Woven(i.from, i.to), Woven(i.to, i.from), Fits(i, g),
           Untied(i, g), Severs(i, g), Loose(i, g), NEW s, Grafts(g, i, m, s), NEW k \in Doomed(i),
           NEW x \in DOMAIN s, k \in s[x].links
    PROVE  x \in Doomed(i) /\ k # Root /\ Table(x) # "Root" /\ Table(k) # "Bridge"
  <1> DEFINE both == DOMAIN i.from \cap DOMAIN i.to
             old == {j \in Doomed(i) : Table(j) = "Bridge"}
             new == {j \in Fresh(i) : Table(j) = "Bridge"}
  <1>1. /\ Schema(s) /\ DOMAIN s \subseteq DOMAIN g \cup Fresh(i)
        /\ s[Root].links = Delta(g[Root].links, old, new)
        /\ \A j \in Fresh(i) : s[j].links = i.to[j].links
        /\ \A j \in both : s[j].links = Delta(g[j].links, i.from[j].links, i.to[j].links)
        /\ \A j \in DOMAIN g \ (Owns(i) \cup {Root}) : g[j].refs \cap Doomed(i) = {} => s[j] = g[j]
    BY DEF Grafts
  <1>2. k \in DOMAIN i.from /\ k \notin DOMAIN i.to /\ k # Root /\ k \notin Fresh(i)
    BY DEF Doomed, Fresh, Woven, Proportioned
  <1>3. Typed(s) /\ Typed(g)
    BY <1>1 DEF Schema
  <1>4. /\ Table(k) = "Bridge" => x = Root
        /\ Table(x) = "Root" => Table(k) = "Bridge" /\ x = Root
    <2>1. Table(k) = "Bridge" => x = Root
      BY <1>3, LinkTables
    <2>2. Table(x) = "Root" => Table(k) = "Bridge"
      BY <1>3, LinkTables
    <2> QED  BY <1>3, <2>1, <2>2, TypedRow DEF IsKey
  <1>5. x # Root
    <2> SUFFICES ASSUME x = Root PROVE FALSE
      OBVIOUS
    <2>1. Table(k) = "Bridge"
      BY <1>4 DEF Root, Table
    <2>2. k \in old /\ k \notin new
      BY <1>2, <2>1
    <2> QED  BY <1>1, <2>2 DEF Delta
  <1>6. x \notin both
    <2> SUFFICES ASSUME x \in both PROVE FALSE
      OBVIOUS
    <2>1. i.to[x].links \ i.from[x].links \subseteq DOMAIN i.to
      BY DEF Woven
    <2>2. k \in Delta(g[x].links, i.from[x].links, i.to[x].links)
      BY <1>1
    <2>3. k \in g[x].links /\ k \notin i.from[x].links \ i.to[x].links
      BY <1>2, <2>1, <2>2 DEF Delta
    <2> QED  BY <2>3 DEF Severs
  <1>7. x \notin Fresh(i)
    <2> SUFFICES ASSUME x \in Fresh(i) PROVE FALSE
      OBVIOUS
    <2>1. i.to[x].links \subseteq DOMAIN i.to
      BY DEF Fresh, Woven
    <2> QED  BY <1>1, <1>2, <2>1
  <1>8. x \in Owns(i)
    <2> SUFFICES ASSUME x \notin Owns(i) PROVE FALSE
      OBVIOUS
    <2>1. x \in DOMAIN g \ (Owns(i) \cup {Root})
      BY <1>1, <1>5, <1>7
    <2>2. s[x] = g[x]
      BY <1>1, <2>1 DEF Untied
    <2>3. x \in Holders(g, k)
      BY <2>1, <2>2 DEF Holders
    <2> QED  BY <1>5, <2>3 DEF Loose
  <1> QED  BY <1>2, <1>4, <1>5, <1>6, <1>7, <1>8 DEF Owns, Fresh, Doomed

LEMMA DoomedGone ==
    ASSUME NEW g, Schema(g), NEW i, NEW m, Woven(i.from, i.to), Woven(i.to, i.from), Fits(i, g),
           Untied(i, g), Severs(i, g), Loose(i, g), NEW s, Grafts(g, i, m, s)
    PROVE  Doomed(i) \cap DOMAIN s = {}
  <1>1. Schema(s) /\ Typed(s)
    BY DEF Grafts, Schema
  <1>2. ASSUME NEW k \in Doomed(i), k \in DOMAIN s
        PROVE  \E x \in DOMAIN s : k \in s[x].links /\ x \in Doomed(i) /\ Table(x) # "Root" /\ Table(k) # "Bridge"
    <2>1. k # Root
      BY DEF Doomed, Woven, Proportioned
    <2>2. PICK x \in DOMAIN s : k \in s[x].links
      BY <1>1, <1>2, <2>1 DEF Schema, Holders
    <2> QED  BY <2>2, DoomedHeld
  <1>3. ASSUME NEW k \in Doomed(i), k \in DOMAIN s PROVE Table(k) \notin {"Port", "Mirror"}
    <2>1. PICK x \in DOMAIN s : k \in s[x].links /\ x \in Doomed(i)
      BY <1>2, <1>3
    <2>2. Table(x) # "Bridge"
      BY <1>2, <2>1
    <2> QED  BY <1>1, <2>1, <2>2, LinkTables
  <1>4. ASSUME NEW k \in Doomed(i), k \in DOMAIN s PROVE Table(k) # "Interface"
    <2>1. PICK x \in DOMAIN s : k \in s[x].links /\ x \in Doomed(i)
      BY <1>2, <1>4
    <2>2. Table(x) # "Port"
      BY <1>3, <2>1
    <2> QED  BY <1>1, <2>1, <2>2, LinkTables
  <1>5. ASSUME NEW k \in Doomed(i), k \in DOMAIN s PROVE FALSE
    <2>1. IsKey(k)
      BY <1>1, <1>5, TypedRow
    <2>2. k # Root
      BY DEF Doomed, Woven, Proportioned
    <2> QED  BY <1>2, <1>3, <1>4, <1>5, <2>1, <2>2 DEF IsKey
  <1> QED  BY <1>5

-----------------------------------------------------------------------------
(* Where the captured cells are the same, a graft leaves the same cells.   *)

\* Intents that differ in the values of their new rows at most.
Kindred(i, j) ==
    /\ j.from = i.from /\ DOMAIN j.to = DOMAIN i.to
    /\ \A k \in DOMAIN i.to : j.to[k].id = i.to[k].id /\ j.to[k].links = i.to[k].links

LEMMA ParentsAgree ==
    ASSUME NEW f, NEW g, NEW i, NEW j, Kindred(i, j), NEW s, NEW t,
           Grafts(f, i, "go", s), Grafts(g, j, "go", t), Schema(f), Schema(g), Fits(i, f), Fits(j, g),
           NEW b \in DOMAIN i.from \cap DOMAIN i.to, i.to[b].links \ i.from[b].links \subseteq Fresh(i),
           Col(f, <<b, "ports">>) = Col(g, <<b, "ports">>)
    PROVE  Col(s, <<b, "ports">>) = Col(t, <<b, "ports">>)
  <1>1. /\ DOMAIN j.from = DOMAIN i.from /\ DOMAIN j.to = DOMAIN i.to /\ j.from[b] = i.from[b]
        /\ j.to[b].links = i.to[b].links /\ Fresh(j) = Fresh(i) /\ Doomed(j) = Doomed(i)
    BY DEF Kindred, Fresh, Doomed
  <1>2. /\ s[b].links = Delta(f[b].links, i.from[b].links, i.to[b].links)
        /\ t[b].links = Delta(g[b].links, i.from[b].links, i.to[b].links)
    BY <1>1 DEF Grafts
  <1>3. b \in DOMAIN f /\ b \in DOMAIN g /\ b \notin Doomed(i)
    BY <1>1 DEF Fits, Doomed
  <1>4. b \in DOMAIN s /\ b \in DOMAIN t
    BY <1>1, <1>3 DEF Grafts
  <1>5. Ports(f, b) = Ports(g, b) /\ \A k \in Ports(f, b) : f[k].id = g[k].id
    BY <1>3, PortsCell
  <1>6. Ports(s, b) = Ports(t, b)
    BY <1>2, <1>5 DEF Ports, Delta
  <1>7. ASSUME NEW k \in Ports(s, b) PROVE s[k].id = t[k].id
    <2>1. k \in DOMAIN s /\ k \in DOMAIN t
      BY <1>4, <1>6, TypedRow DEF Ports, Grafts, Schema
    <2>2. CASE k \in Fresh(i)
      <3>1. s[k].id = i.to[k].id /\ t[k].id = j.to[k].id
        BY <1>1, <2>2 DEF Grafts
      <3> QED  BY <2>2, <3>1 DEF Kindred, Fresh
    <2>3. CASE k \notin Fresh(i)
      <3>1. s[k].id = f[k].id /\ t[k].id = g[k].id
        BY <1>1, <2>1, <2>3 DEF Grafts
      <3>2. CASE k \in Ports(f, b)
        BY <1>5, <3>1, <3>2
      <3>3. CASE k \notin Ports(f, b)
        BY <1>2, <2>3, <3>3 DEF Ports, Delta
      <3> QED  BY <3>2, <3>3
    <2> QED  BY <2>2, <2>3
  <1>8. Pairs(s, Ports(s, b)) = Pairs(t, Ports(t, b))
    BY <1>6, <1>7, SamePairs
  <1> QED  BY <1>4, <1>8 DEF Col, Value, Ports

LEMMA ConfigOf ==
    ASSUME NEW k, IsKey(k)
    PROVE  /\ \A c \in Config(k) : /\ c = <<k, c[2]>>
                                   /\ c[2] \in {"id", "links", "refs", "ctl"} \cup Fields(Table(k))
           /\ \A x \in {"id", "links", "refs", "ctl"} \cup Fields(Table(k)) : <<k, x>> \in Config(k)
  <1>1. Fields(Table(k)) \subseteq CfgColumns
    BY FieldNames
  <1>2. "made" \notin CfgColumns /\ "mark" \notin CfgColumns
    BY DEF CfgColumns
  <1> QED  BY <1>1, <1>2 DEF Config, Whole, Cells, Labels

\* Rows that are alike and refer to the same rows have the same columns.
LEMMA ConfigAgree ==
    ASSUME NEW s, NEW t, NEW k \in DOMAIN s, k \in DOMAIN t, IsKey(k), s[k].id = t[k].id,
           s[k].ctl = t[k].ctl, \A x \in Fields(Table(k)) : s[k].cfg[x] = t[k].cfg[x],
           s[k].links = t[k].links, s[k].refs = t[k].refs,
           \A j \in s[k].links \cup s[k].refs : s[j].id = t[j].id
    PROVE  Agree(s, t, Config(k))
  <1> SUFFICES ASSUME NEW c \in Config(k) PROVE Col(s, c) = Col(t, c)
    BY DEF Agree
  <1>1. c = <<k, c[2]>> /\ c[2] \in {"id", "links", "refs", "ctl"} \cup Fields(Table(k))
    BY ConfigOf
  <1>2. Pairs(s, s[k].links) = Pairs(t, t[k].links) /\ Pairs(s, s[k].refs) = Pairs(t, t[k].refs)
    BY SamePairs
  <1>3. Col(s, <<k, "links">>) = Col(t, <<k, "links">>) /\ Col(s, <<k, "refs">>) = Col(t, <<k, "refs">>)
    BY <1>2 DEF Col, Value
  <1>4. Col(s, <<k, "id">>) = Col(t, <<k, "id">>) /\ Col(s, <<k, "ctl">>) = Col(t, <<k, "ctl">>)
    BY DEF Col, Value
  <1>5. \A x \in Fields(Table(k)) : Col(s, <<k, x>>) = Col(t, <<k, x>>)
    BY SameCfg, FieldNames
  <1>6. PICK x : x = c[2]
    OBVIOUS
  <1>7. c = <<k, x>> /\ (x = "id" \/ x = "links" \/ x = "refs" \/ x = "ctl" \/ x \in Fields(Table(k)))
    BY <1>1, <1>6
  <1> QED  BY <1>3, <1>4, <1>5, <1>7

LEMMA ConfigCellsSame ==
    ASSUME NEW f, NEW g, NEW k \in DOMAIN f, IsKey(k), Agree(f, g, Config(k))
    PROVE  /\ k \in DOMAIN g /\ f[k].id = g[k].id /\ f[k].ctl = g[k].ctl
           /\ f[k].links = g[k].links /\ f[k].refs = g[k].refs
           /\ \A j \in f[k].links : f[j].id = g[j].id
           /\ \A x \in Fields(Table(k)) : f[k].cfg[x] = g[k].cfg[x]
  <1>1. \A x \in {"id", "links", "refs", "ctl"} \cup Fields(Table(k)) : <<k, x>> \in Config(k)
    BY ConfigOf
  <1>0. /\ <<k, "id">> \in Config(k) /\ <<k, "links">> \in Config(k)
        /\ <<k, "refs">> \in Config(k) /\ <<k, "ctl">> \in Config(k)
    BY <1>1
  <1>2. k \in DOMAIN g /\ f[k].id = g[k].id
    <2>1. Col(f, <<k, "id">>) = Col(g, <<k, "id">>)
      BY <1>0 DEF Agree
    <2> QED  BY <2>1, IdCell
  <1>3. f[k].ctl = g[k].ctl
    <2>1. Col(f, <<k, "ctl">>) = Col(g, <<k, "ctl">>)
      BY <1>0 DEF Agree
    <2> QED  BY <2>1, CtlCell
  <1>4. f[k].links = g[k].links /\ \A j \in f[k].links : f[j].id = g[j].id
    <2>1. Col(f, <<k, "links">>) = Col(g, <<k, "links">>)
      BY <1>0 DEF Agree
    <2> QED  BY <2>1, LinksCell
  <1>5. f[k].refs = g[k].refs
    <2>1. Col(f, <<k, "refs">>) = Col(g, <<k, "refs">>)
      BY <1>0 DEF Agree
    <2> QED  BY <2>1, RefsCell
  <1>6. ASSUME NEW x \in Fields(Table(k)) PROVE f[k].cfg[x] = g[k].cfg[x]
    <2>1. x \in CfgColumns
      BY FieldNames
    <2>2. Col(f, <<k, x>>) = {f[k].cfg[x]} /\ Col(g, <<k, x>>) = {g[k].cfg[x]}
      BY <1>2, <2>1 DEF Col, Value, CfgColumns
    <2>3. <<k, x>> \in Config(k)
      BY <1>1
    <2> QED  BY <2>2, <2>3 DEF Agree
  <1> QED  BY <1>2, <1>3, <1>4, <1>5, <1>6

LEMMA GraftsAgree ==
    ASSUME NEW f, NEW g, Schema(f), Schema(g), NEW i, Woven(i.from, i.to), Woven(i.to, i.from),
           Fits(i, f), Fits(i, g), \A k \in DOMAIN i.from : i.from[k] = f[k],
           \A k \in DOMAIN i.from : Agree(f, g, Config(k)),
           NEW s, NEW t, Grafts(f, i, "go", s), Grafts(g, i, "go", t), NEW k \in DOMAIN i.to
    PROVE  Agree(s, t, Config(k))
  <1> DEFINE both == DOMAIN i.from \cap DOMAIN i.to
  <1>1. \A x \in DOMAIN i.to : IsKey(x) /\ i.to[x].refs \subseteq DOMAIN i.to
    BY DEF Woven, Proportioned
  <1>2. DOMAIN i.to = both \cup Fresh(i) /\ both \cap Fresh(i) = {} /\ both \cap Doomed(i) = {}
    BY DEF Fresh, Doomed
  <1>3. both \subseteq DOMAIN f /\ both \subseteq DOMAIN g
    BY DEF Fits
  <1>4. \A x \in both :
          /\ f[x].id = g[x].id /\ f[x].ctl = g[x].ctl
          /\ f[x].links = g[x].links /\ f[x].refs = g[x].refs
          /\ \A j \in f[x].links : f[j].id = g[j].id
          /\ \A c \in Fields(Table(x)) : f[x].cfg[c] = g[x].cfg[c]
    BY <1>1, <1>3, ConfigCellsSame
  <1>5. DOMAIN i.to \subseteq DOMAIN s /\ DOMAIN i.to \subseteq DOMAIN t
    BY <1>2, <1>3 DEF Grafts
  <1>6. ASSUME NEW x \in DOMAIN i.to PROVE s[x].id = t[x].id
    <2>1. CASE x \in Fresh(i)
      BY <2>1 DEF Grafts
    <2>2. CASE x \in both
      <3>1. s[x].id = f[x].id /\ t[x].id = g[x].id
        BY <1>2, <1>5, <2>2 DEF Grafts
      <3> QED  BY <1>4, <2>2, <3>1
    <2> QED  BY <1>2, <2>1, <2>2
  <1>7. CASE k \in Fresh(i)
    <2>1. i.to[k].links \cup i.to[k].refs \subseteq DOMAIN i.to
      BY <1>1, <1>7 DEF Woven, Fresh
    <2>2. /\ s[k].ctl = t[k].ctl /\ s[k].cfg = t[k].cfg
          /\ s[k].links = i.to[k].links /\ t[k].links = i.to[k].links
          /\ s[k].refs = i.to[k].refs /\ t[k].refs = i.to[k].refs
      BY <1>7 DEF Grafts
    <2> QED  BY <1>1, <1>5, <1>6, <2>1, <2>2, ConfigAgree
  <1>8. CASE k \in both
    <2>1. /\ s[k].ctl = f[k].ctl /\ t[k].ctl = g[k].ctl
          /\ s[k].cfg = IF i.from[k].cfg = i.to[k].cfg THEN f[k].cfg ELSE i.to[k].cfg
          /\ t[k].cfg = IF i.from[k].cfg = i.to[k].cfg THEN g[k].cfg ELSE i.to[k].cfg
          /\ s[k].links = Delta(f[k].links, i.from[k].links, i.to[k].links)
          /\ t[k].links = Delta(g[k].links, i.from[k].links, i.to[k].links)
          /\ s[k].refs = Delta(f[k].refs, i.from[k].refs, i.to[k].refs) \cap DOMAIN s
          /\ t[k].refs = Delta(g[k].refs, i.from[k].refs, i.to[k].refs) \cap DOMAIN t
      BY <1>8 DEF Grafts
    <2>2. i.from[k] = f[k]
      BY <1>8
    <2>3. s[k].links = i.to[k].links /\ t[k].links = i.to[k].links
      BY <1>4, <1>8, <2>1, <2>2, DeltaIs
    <2>4. s[k].refs = i.to[k].refs /\ t[k].refs = i.to[k].refs
      <3>1. /\ Delta(f[k].refs, i.from[k].refs, i.to[k].refs) = i.to[k].refs
            /\ Delta(g[k].refs, i.from[k].refs, i.to[k].refs) = i.to[k].refs
        BY <1>4, <1>8, <2>2, DeltaIs
      <3> QED  BY <1>1, <1>5, <2>1, <3>1
    <2>5. \A x \in Fields(Table(k)) : s[k].cfg[x] = t[k].cfg[x]
      <3>1. CASE i.from[k].cfg = i.to[k].cfg
        BY <1>4, <1>8, <2>1, <3>1
      <3>2. CASE i.from[k].cfg # i.to[k].cfg
        BY <2>1, <3>2
      <3> QED  BY <3>1, <3>2
    <2>6. ASSUME NEW j \in i.to[k].links \cup i.to[k].refs PROVE s[j].id = t[j].id
      <3>1. CASE j \in DOMAIN i.to
        BY <1>6, <3>1
      <3>2. CASE j \notin DOMAIN i.to
        <4>1. j \in i.to[k].links /\ j \in f[k].links
          BY <1>1, <1>8, <2>2, <3>2 DEF Woven
        <4>2. j \in DOMAIN s /\ j \in DOMAIN t
          BY <1>5, <2>3, <4>1, TypedRow DEF Grafts, Schema
        <4>3. s[j].id = f[j].id /\ t[j].id = g[j].id
          BY <1>2, <3>2, <4>2 DEF Grafts
        <4> QED  BY <1>4, <1>8, <4>1, <4>3
      <3> QED  BY <3>1, <3>2
    <2>7. s[k].ctl = t[k].ctl
      BY <1>4, <1>8, <2>1
    <2> QED  BY <1>1, <1>5, <1>6, <2>3, <2>4, <2>5, <2>6, <2>7, ConfigAgree
  <1> QED  BY <1>2, <1>7, <1>8

-----------------------------------------------------------------------------
(* What a request takes away is not held by what it leaves behind.         *)

Cut(a, b) == \A x \in DOMAIN a \cap DOMAIN b, k \in DOMAIN a \ DOMAIN b : k \notin b[x].links

LEMMA RemovalCut ==
    ASSUME NEW g, Schema(g), NEW r, Asked(r), r.op \in RemovalOps, r.key \in DOMAIN g, Can(g, r)
    PROVE  Cut(Stored(g, r), After(g, r))
  <1> DEFINE p == r.key
  <1>1. PICK b \in DOMAIN g : /\ Table(b) = "Bridge" /\ DOMAIN After(g, r) = {b}
                              /\ After(g, r)[b].links = g[b].links \ {p}
    BY RemovalWoven
  <1>2. DOMAIN Stored(g, r) = Loaded(g, p)
    BY RemovalWoven
  <1>3. Table(p) = "Port"
    BY DEF Asked, Request, Subject, PortOps, RemovalOps
  <1>4. Typed(g)
    BY DEF Schema
  <1> SUFFICES ASSUME NEW k \in Loaded(g, p), k \in g[b].links, k # p PROVE FALSE
    BY <1>1, <1>2 DEF Cut
  <1>5. Table(k) \in {"Port", "Mirror"}
    BY <1>1, <1>4, LinkTables
  <1>6. k \notin g[p].links
    BY <1>3, <1>4, <1>5, LinkTables
  <1>7. k \in Holders(g, p)
    BY <1>6 DEF Loaded
  <1> QED  BY <1>3, <1>4, <1>5, <1>7, HolderTables

LEMMA MembersCut ==
    ASSUME NEW g, Schema(g), IsFiniteSet(DOMAIN g), NEW r, Asked(r), r.op = "bond.members",
           r.key \in DOMAIN g, Can(g, r)
    PROVE  Cut(Stored(g, r), After(g, r))
  <1> DEFINE sources == Sources(g, r)
             released == Released(g, r)
             split == {PortOf(i) : i \in Released(g, r)}
             h == After(g, r)
  <1>1. Typed(g) /\ Table(r.key) = "Port"
    BY DEF Schema, Asked, Request, Subject, PortOps
  <1>2. UnderBridge(g, r.key)
    BY DEF Can, CanSetMembers, MirrorOps, TunnelOps
  <1>3. PICK b : Holders(g, r.key) = {b}
    BY <1>2 DEF UnderBridge
  <1>4. /\ DOMAIN Stored(g, r) = {r.key, b} \cup r.set \cup released \cup sources
        /\ DOMAIN h = {r.key, b} \cup r.set \cup released \cup split
    BY <1>3, MembersFacts DEF Regrouped
  <1>5. \A k \in r.set : Table(k) = "Interface"
    BY DEF Asked, MirrorOps
  <1>6. \A k \in released : Table(k) = "Interface" /\ k \in DOMAIN g
    BY <1>1, LinkTables DEF Released
  <1>7. ASSUME NEW k \in sources PROVE Table(k) = "Port"
    <2>1. PICK m \in r.set : k \in Holders(g, m)
      BY DEF Sources, HoldersOf
    <2> QED  BY <1>1, <1>5, <2>1, HolderTables
  <1>8. \A x \in DOMAIN h :
          /\ x = r.key => h[x].links = r.set
          /\ x = b => h[x].links = (g[b].links \ sources) \cup split
          /\ x \in split => h[x].links = {InterfaceOf(x)}
          /\ x \notin split \cup {r.key, b} => x \in Before(g, r) /\ h[x] = g[x]
    BY <1>3, MembersRows
  <1> HIDE DEF h, split, sources, released
  <1> SUFFICES ASSUME NEW x \in DOMAIN h, NEW k \in sources, k \notin DOMAIN h, k \in h[x].links
               PROVE  FALSE
    BY <1>4 DEF Cut, h
  <1>9. Table(k) = "Port"
    BY <1>7
  <1>10. CASE x = r.key
    BY <1>5, <1>8, <1>9, <1>10
  <1>11. CASE x = b
    BY <1>4, <1>8, <1>11
  <1>12. CASE x \in split
    BY <1>8, <1>9, <1>12, NamesOf
  <1>13. CASE x \notin split \cup {r.key, b}
    <2>1. h[x] = g[x] /\ Table(x) = "Interface"
      BY <1>4, <1>5, <1>6, <1>8, <1>13
    <2>2. x \in DOMAIN g
      <3>1. CASE x \in r.set
        BY <3>1 DEF Can, CanSetMembers, MirrorOps, TunnelOps
      <3>2. CASE x \in released
        BY <1>6, <3>2
      <3> QED  BY <1>4, <1>13, <3>1, <3>2
    <2> QED  BY <1>1, <2>1, <2>2, LinkTables
  <1> QED  BY <1>10, <1>11, <1>12, <1>13

LEMMA MirrorCut ==
    ASSUME NEW g, Schema(g), NEW r, Asked(r), r.op \in MirrorOps, r.key \in DOMAIN g, Can(g, r)
    PROVE  Cut(Stored(g, r), After(g, r))
  <1> DEFINE m == MirrorOf(r)
             B == MirrorBridge(g, r)
             h == After(g, r)
  <1>1. /\ DOMAIN h = IF r.op = "mirror.delete" THEN Before(g, r) \ {m} ELSE Before(g, r) \cup {m}
        /\ \A k \in B : h[k].links = IF r.op = "mirror.delete" THEN g[k].links \ {m} ELSE g[k].links \cup {m}
        /\ \A k \in DOMAIN h \ (B \cup {m}) : h[k].links = g[k].links
    <2>1. Remirrored(g, r, h)
      BY MirrorRows
    <2> HIDE DEF h
    <2> QED  BY <2>1 DEF Remirrored
  <1>2. DOMAIN Stored(g, r) = Before(g, r)
    BY DEF Stored
  <1>3. Before(g, r) \subseteq DOMAIN g
    BY MirrorPart DEF Part
  <1> HIDE DEF h
  <1>4. CASE r.op # "mirror.delete"
    <2>1. DOMAIN Stored(g, r) \ DOMAIN h = {}
      BY <1>1, <1>2, <1>4
    <2> QED  BY <2>1 DEF Cut, h
  <1>5. CASE r.op = "mirror.delete"
    <2>1. B = Holders(g, m)
      BY <1>5 DEF MirrorBridge, MirrorOf
    <2> HIDE DEF B, m
    <2>2. ASSUME NEW x \in DOMAIN h PROVE m \notin h[x].links
      <3>1. CASE x \in B
        BY <1>1, <1>5, <3>1
      <3>2. CASE x \notin B
        <4>1. x # m /\ x \in DOMAIN g
          BY <1>1, <1>3, <1>5
        <4>2. h[x].links = g[x].links
          BY <1>1, <3>2, <4>1
        <4> QED  BY <2>1, <3>2, <4>1, <4>2 DEF Holders
      <3> QED  BY <3>1, <3>2
    <2>3. DOMAIN Stored(g, r) \ DOMAIN h \subseteq {m}
      BY <1>1, <1>2, <1>5
    <2> QED  BY <2>2, <2>3 DEF Cut, h
  <1> QED  BY <1>4, <1>5

LEMMA GraphCut ==
    ASSUME NEW g, Schema(g), IsFiniteSet(DOMAIN g), NEW r, Asked(r), r.op \notin FieldOps, Can(g, r),
           r.op # "bridge.create" => r.key \in DOMAIN g
    PROVE  Cut(Stored(g, r), After(g, r))
  <1>1. DOMAIN Stored(g, r) = Before(g, r)
    BY DEF Stored
  <1>2. CASE r.op \in CreationOps
    <2>1. Before(g, r) = {r.key}
      BY <1>2 DEF CreationOps, Before, MirrorOps
    <2>2. r.key \in DOMAIN After(g, r)
      BY <1>2, CreationWoven DEF Schema, CreationOps
    <2>3. DOMAIN Stored(g, r) \ DOMAIN After(g, r) = {}
      BY <1>1, <2>1, <2>2
    <2> QED  BY <2>3 DEF Cut
  <1>3. CASE r.op \in ValueOps
    <2>1. DOMAIN Stored(g, r) \ DOMAIN After(g, r) = {}
      BY <1>1, <1>3, ValueAfter
    <2> QED  BY <2>1 DEF Cut
  <1>4. CASE r.op = "port.move"
    <2>1. Before(g, r) = Loaded(g, r.key) \cup {r.on}
      BY <1>4 DEF Before, MirrorOps
    <2>2. After(g, r) = Moved(g, r)
      BY <1>4 DEF After, MirrorOps
    <2>3. DOMAIN Moved(g, r) = Loaded(g, r.key) \cup {r.on}
      BY DEF Moved
    <2>4. DOMAIN Stored(g, r) \ DOMAIN After(g, r) = {}
      BY <1>1, <2>1, <2>2, <2>3
    <2> QED  BY <2>4 DEF Cut
  <1>5. CASE r.op = "bridge.create"
    <2>1. DOMAIN Stored(g, r) = {}
      BY <1>5, BridgeCreationWoven
    <2> QED  BY <2>1 DEF Cut
  <1>6. CASE r.op \in {"bridge.delete", "bridge.delete-tree"}
    <2>1. After(g, r) = <<>>
      BY <1>6 DEF After, MirrorOps
    <2>2. DOMAIN After(g, r) = {}
      BY <2>1
    <2> QED  BY <2>2 DEF Cut
  <1>7. CASE r.op \in RemovalOps
    BY <1>7, RemovalCut DEF RemovalOps
  <1>8. CASE r.op = "bond.members"
    BY <1>8, MembersCut
  <1>9. CASE r.op \in MirrorOps
    BY <1>9, MirrorCut DEF MirrorOps
  <1> QED  BY <1>2, <1>3, <1>4, <1>5, <1>6, <1>7, <1>8, <1>9
           DEF Asked, Request, PortOps, InterfaceOps, BridgeOps, CreationOps, ValueOps, RemovalOps,
               FieldOps, ListOps, TreeOps, MirrorOps

-----------------------------------------------------------------------------
(* What staging makes sure of, for as long as the intent lives.            *)

InternalOps == {"internal.create", "internal.delete"}

\* The captured cells that decide what the change will leave.
Met(i, g) ==
    IF i.op \in LifecycleOps THEN \A b \in Parents(i) : Col(g, <<b, "ports">>) = i.was[<<b, "ports">>]
    ELSE Image(g, DOMAIN i.was) = i.was
\* The expected image is that of the change wherever it is made.
Foretells(i) ==
    \A g : Schema(g) /\ Fits(i, g) /\ Met(i, g) => Image(Grafted(g, i, "go"), DOMAIN i.will) = i.will
Willed(i) == Cells(Parents(i), {"ports"}) \cup Cells(Fresh(i), {"id"})
Severed(i) ==
    /\ Cut(i.from, i.to)
    /\ i.op \in LifecycleOps =>
          \A b \in Parents(i), k \in Doomed(i) : Table(k) = "Port" => k \in i.from[b].links
Confined(i) ==
    i.op \in InternalOps =>
        /\ BridgesOf(i.from) \subseteq DOMAIN i.to
        /\ \A b \in Parents(i) : /\ i.from[b].cfg = i.to[b].cfg
                                 /\ i.from[b].links \ i.to[b].links \subseteq Doomed(i)
Entire(i) ==
    i.op \in DeletionOps =>
        \A k \in Doomed(i), t \in {"Bridge", "Port", "Interface"} :
            <<t, Name(k)>> \in Doomed(i) \cup (Shadowed(i) \ DOMAIN i.from)
Remembered(i) ==
    i.op \in DeletionOps =>
        \A n \in i.old : \E k \in Doomed(i) :
            i.from[k].id = n /\ <<k, "id">> \in DOMAIN i.was /\ i.was[<<k, "id">>] = {n}
Lone(i) ==
    /\ i.op \in TunnelOps =>
          \A j, k \in Owns(i) : Table(j) = "Interface" /\ Table(k) = "Interface" => j = k
    /\ i.op \in MirrorOps =>
          /\ \A j, k \in Owns(i) : Table(j) = "Mirror" /\ Table(k) = "Mirror" => j = k
          /\ \A b \in Parents(i) :
                \A k \in (i.from[b].links \ i.to[b].links) \cup (i.to[b].links \ i.from[b].links) :
                    k \in Owns(i) /\ Table(k) = "Mirror"
Minted(i) ==
    /\ Foretells(i) /\ (i.op \in LifecycleOps => DOMAIN i.will = Willed(i))
    /\ Severed(i) /\ Confined(i) /\ Entire(i) /\ Remembered(i) /\ Lone(i)

LEMMA WillCells ==
    ASSUME NEW i, i.op \in LifecycleOps, Parental(i.op, i.from, i.to),
           i.op \in InternalOps => BridgesOf(i.to) = Parents(i)
    PROVE  Compared(i.op, DOMAIN i.to, FALSE) = Willed(i)
  <1> DEFINE both == DOMAIN i.from \cap DOMAIN i.to
             bs == {k \in DOMAIN i.to : Table(k) = "Bridge"}
  <1>1. CASE i.op \in {"bridge.create", "bridge.delete"}
    <2>1. both = {}
      BY <1>1 DEF Parental
    <2>2. Parents(i) = {} /\ Fresh(i) = DOMAIN i.to
      BY <2>1 DEF Parents, Fresh
    <2>3. Compared(i.op, DOMAIN i.to, FALSE) = Cells(DOMAIN i.to, {"id"})
      BY <1>1 DEF Compared
    <2> QED  BY <2>2, <2>3 DEF Willed, Cells
  <1>2. CASE i.op \in InternalOps
    <2>1. bs = Parents(i)
      BY <1>2 DEF BridgesOf
    <2>2. DOMAIN i.to \ bs = Fresh(i)
      <3>1. \A k \in both : Table(k) = "Bridge"
        BY DEF Parental
      <3> QED  BY <2>1, <3>1 DEF Parents, Fresh
    <2>3. Compared(i.op, DOMAIN i.to, FALSE) = Cells(bs, {"ports"}) \cup Cells(DOMAIN i.to \ bs, {"id"})
      BY <1>2 DEF Compared, InternalOps
    <2> QED  BY <2>1, <2>2, <2>3 DEF Willed
  <1> QED  BY <1>1, <1>2 DEF LifecycleOps, InternalOps

LEMMA KindredFits ==
    ASSUME NEW i, NEW j, Kindred(i, j), NEW g, Fits(j, g)
    PROVE  Fits(i, g) /\ Fresh(j) = Fresh(i) /\ Doomed(j) = Doomed(i) /\ Parents(j) = Parents(i)
  BY DEF Kindred, Fits, Fresh, Doomed, Parents

\* Grafts of kindred intents leave the same cells.
LEMMA WilledAgree ==
    ASSUME NEW f, NEW g, Schema(f), Schema(g), NEW i, NEW j, Kindred(i, j),
           i.op \in LifecycleOps, Parental(i.op, i.from, i.to),
           Interwoven(i.from, i.to), Interwoven(j.from, j.to), Fits(i, f), Fits(j, g),
           \A b \in Parents(i) : Col(f, <<b, "ports">>) = Col(g, <<b, "ports">>)
    PROVE  Agree(Grafted(f, i, "go"), Grafted(g, j, "go"), Willed(i))
  <1> DEFINE s == Grafted(f, i, "go")
             t == Grafted(g, j, "go")
  <1>1. Grafts(f, i, "go", s) /\ Grafts(g, j, "go", t)
    BY GraftRows DEF Interwoven
  <1> HIDE DEF s, t
  <1>2. ASSUME NEW b \in Parents(i) PROVE Col(s, <<b, "ports">>) = Col(t, <<b, "ports">>)
    <2>1. b \in DOMAIN i.from \cap DOMAIN i.to
      BY DEF Parents
    <2>2. i.to[b].links \cap DOMAIN i.from = {}
      BY <2>1 DEF Parental
    <2>3. i.to[b].links \ i.from[b].links \subseteq DOMAIN i.to
      BY <2>1 DEF Interwoven, Woven
    <2>4. i.to[b].links \ i.from[b].links \subseteq Fresh(i)
      BY <2>2, <2>3 DEF Fresh
    <2> QED  BY <1>1, <2>1, <2>4, ParentsAgree
  <1>3. ASSUME NEW k \in Fresh(i) PROVE Col(s, <<k, "id">>) = Col(t, <<k, "id">>)
    <2>1. k \in Fresh(j) /\ j.to[k].id = i.to[k].id
      BY KindredFits DEF Kindred, Fresh
    <2>2. k \in DOMAIN s /\ k \in DOMAIN t /\ s[k].id = i.to[k].id /\ t[k].id = j.to[k].id
      BY <1>1, <2>1 DEF Grafts
    <2> QED  BY <2>1, <2>2 DEF Col, Value
  <1>4. Agree(s, t, Cells(Parents(i), {"ports"})) /\ Agree(s, t, Cells(Fresh(i), {"id"}))
    BY <1>2, <1>3, CellsAgree
  <1>5. Agree(s, t, Willed(i))
    BY <1>4, AgreeUnion DEF Willed
  <1> QED  BY <1>5 DEF s, t

LEMMA KindredSelf == ASSUME NEW i PROVE Kindred(i, i)
  BY DEF Kindred

LEMMA LifecycleForetells ==
    ASSUME NEW i, i.op \in LifecycleOps, Interwoven(i.from, i.to), Parental(i.op, i.from, i.to),
           NEW f, Schema(f), Fits(i, f) \/ DOMAIN i.to = {},
           i.will = Image(Grafted(f, i, "go"), Willed(i)),
           \A b \in Parents(i) : i.was[<<b, "ports">>] = Col(f, <<b, "ports">>)
    PROVE  Foretells(i) /\ DOMAIN i.will = Willed(i)
  <1>1. DOMAIN i.will = Willed(i)
    BY DEF Image
  <1> SUFFICES ASSUME NEW g, Schema(g), Fits(i, g), Met(i, g)
               PROVE  Image(Grafted(g, i, "go"), Willed(i)) = i.will
    BY <1>1 DEF Foretells
  <1>2. CASE Fits(i, f)
    <2>1. \A b \in Parents(i) : Col(f, <<b, "ports">>) = Col(g, <<b, "ports">>)
      BY DEF Met
    <2>2. Agree(Grafted(f, i, "go"), Grafted(g, i, "go"), Willed(i))
      BY <1>2, <2>1, WilledAgree, KindredSelf
    <2> QED  BY <2>2, AgreeImage
  <1>3. CASE DOMAIN i.to = {}
    <2>1. Willed(i) = {}
      BY <1>3 DEF Willed, Parents, Fresh, Cells
    <2> QED  BY <2>1 DEF Image
  <1> QED  BY <1>2, <1>3

LEMMA RowsForetell ==
    ASSUME NEW i, i.op \notin LifecycleOps, Interwoven(i.from, i.to), NEW f, Schema(f), Fits(i, f),
           \A k \in DOMAIN i.from : i.from[k] = f[k],
           i.was = Image(f, UNION {Config(k) : k \in DOMAIN i.from}),
           i.will = Image(Grafted(f, i, "go"), UNION {Config(k) : k \in DOMAIN i.to})
    PROVE  Foretells(i)
  <1> DEFINE F == UNION {Config(k) : k \in DOMAIN i.from}
             T == UNION {Config(k) : k \in DOMAIN i.to}
  <1>1. DOMAIN i.will = T /\ DOMAIN i.was = F
    BY DEF Image
  <1> SUFFICES ASSUME NEW g, Schema(g), Fits(i, g), Met(i, g)
               PROVE  Image(Grafted(g, i, "go"), T) = i.will
    BY <1>1 DEF Foretells
  <1>2. Image(g, F) = Image(f, F)
    BY <1>1 DEF Met
  <1>3. Agree(f, g, F)
    BY <1>2, ImageAgrees
  <1>4. \A k \in DOMAIN i.from : Agree(f, g, Config(k))
    BY <1>3 DEF Agree
  <1> DEFINE s == Grafted(f, i, "go")
             t == Grafted(g, i, "go")
  <1>5. Grafts(f, i, "go", s) /\ Grafts(g, i, "go", t)
    BY GraftRows DEF Interwoven
  <1> HIDE DEF s, t
  <1>6. \A k \in DOMAIN i.to : Agree(s, t, Config(k))
    BY <1>4, <1>5, GraftsAgree DEF Interwoven
  <1>7. Agree(s, t, T)
    BY <1>6 DEF Agree
  <1>8. i.will = Image(s, T)
    BY DEF s
  <1>9. Image(t, T) = i.will
    BY <1>7, <1>8, AgreeImage
  <1> QED  BY <1>9 DEF t

-----------------------------------------------------------------------------
(* Graph intents as they are staged.                                       *)

LEMMA GraphIntentOld ==
    ASSUME NEW g, NEW r, NEW ids
    PROVE  GraphIntent(g, r, ids).old = {g[k].id : k \in Before(g, r) \ DOMAIN After(g, r)}
  <1> DEFINE fresh == Picks(g, r).fresh
             doomed == Picks(g, r).doomed
             from == Stored(g, r)
             to == Marked(Renewed(After(g, r), Sub(ids, fresh)), fresh, "go")
             spare == Sub(ids, doomed)
             old == {g[k].id : k \in doomed}
             dep == Image(g, GraphScope(g, r.op, Before(g, r)))
             j == [Blank EXCEPT !.op = r.op, !.key = r.key, !.gen = view.gen,
                     !.from = from, !.to = to, !.spare = spare, !.old = old, !.dep = dep]
             ahead == Grafted(g, j, "go")
             back == Restoration(j)
             i == GraphIntent(g, r, ids)
             was == Image(g, Compared(j.op, DOMAIN j.from, j.old # {}))
             will == Image(ahead, Compared(j.op, DOMAIN j.to, FALSE))
             again == Image(Grafted(ahead, back, "back"), Compared(j.op, DOMAIN j.from, FALSE))
             rest == IF j.op \in TunnelOps \cup MirrorOps THEN Rest(g, Owns(j)) ELSE <<>>
  <1>1. i = [j EXCEPT !.was = was, !.will = will, !.again = again, !.rest = rest]
    BY DEF GraphIntent
  <1>2. doomed = Before(g, r) \ DOMAIN After(g, r)
    BY DEF Picks
  <1> HIDE DEF i, from, to, spare, old, dep, fresh, doomed
  <1>3. DOMAIN j = DOMAIN Blank /\ j.old = old
    BY BlankFields
  <1> HIDE DEF j, was, will, again, rest
  <1>4. i.old = old
    BY <1>1, <1>3, BlankFields
  <1> QED  BY <1>2, <1>4 DEF i, old

\* Rows that stay come out as the request has them.
LEMMA ToKept ==
    ASSUME NEW g, NEW r, NEW ids, NEW k \in Before(g, r), k \in DOMAIN After(g, r)
    PROVE  GraphIntent(g, r, ids).to[k] = After(g, r)[k]
  <1> DEFINE b == After(g, r)
             fresh == Picks(g, r).fresh
             x == Renewed(b, Sub(ids, fresh))
  <1>1. GraphIntent(g, r, ids).to = Marked(x, fresh, "go")
    BY GraphIntentRows
  <1>2. k \notin fresh
    BY DEF Picks
  <1> HIDE DEF fresh, b
  <1>3. k \in DOMAIN b
    BY DEF b
  <1>4. DOMAIN x = DOMAIN b /\ x[k] = b[k]
    BY <1>2, <1>3 DEF Renewed, Sub
  <1> HIDE DEF x
  <1>5. Marked(x, fresh, "go")[k] = b[k]
    BY <1>2, <1>3, <1>4 DEF Marked
  <1> QED  BY <1>1, <1>5 DEF b

LEMMA StoredId ==
    ASSUME NEW g, NEW r, NEW k \in Before(g, r)
    PROVE  Stored(g, r)[k].id = g[k].id
  <1>1. CASE Deletes(r.op, k)
    <2>1. Stored(g, r)[k] = Canonical(r.op, k, g[k])
      BY <1>1 DEF Stored
    <2> QED  BY <2>1 DEF Canonical, Row
  <1>2. CASE ~Deletes(r.op, k)
    BY <1>2 DEF Stored
  <1> QED  BY <1>1, <1>2

LEMMA ExactId ==
    ASSUME NEW ks, NEW k \in ks
    PROVE  <<k, "id">> \in Exact(ks)
  <1>1. <<k, "id">> \in Cells({k}, {"id", "type", "opts"} \cup Labels)
    BY CellsOf
  <1>2. <<k, "id">> \in Whole(k)
    BY WholeCells
  <1> QED  BY <1>1, <1>2 DEF Exact

\* What is common to all changes of the life cycle.
LEMMA LifecycleMinted ==
    ASSUME NEW g, Schema(g), IsFiniteSet(DOMAIN g), NEW r, Asked(r), r.op \in LifecycleOps, Can(g, r),
           r.op # "bridge.create" => r.key \in DOMAIN g, NEW ids,
           NEW i, i = GraphIntent(g, r, ids), StagedLifecycle(i),
           Fits(i, g) \/ DOMAIN i.to = {},
           \A b \in Parents(i), k \in Doomed(i) : Table(k) = "Port" => k \in i.from[b].links,
           Confined(i), Entire(i), r.op \in DeletionOps => DOMAIN i.from \subseteq DOMAIN g
    PROVE  Minted(i)
  <1>1. r.op \notin FieldOps /\ r.op # "bridge.delete-tree" /\ r.op \notin TunnelOps \cup MirrorOps
    BY DEF LifecycleOps, FieldOps, ListOps, TreeOps, TunnelOps, MirrorOps
  <1>2. Tailored(i)
    BY <1>1, IntentTailored
  <1>3. /\ i.op = r.op /\ i.from = Stored(g, r) /\ DOMAIN i.from = Before(g, r)
        /\ DOMAIN i.to = DOMAIN After(g, r)
        /\ i.was = Image(g, Compared(r.op, Before(g, r), Doomed(i) # {}))
    BY GraphIntentFields
  <1>4. i.will = Image(Grafted(g, i, "go"), Compared(r.op, DOMAIN i.to, FALSE))
    BY GraphIntentRows
  <1>5. Compared(i.op, DOMAIN i.to, FALSE) = Willed(i)
    BY <1>2, <1>3, WillCells DEF Tailored, StagedLifecycle, InternalOps
  <1>6. \A c \in DOMAIN i.was : i.was[c] = Col(g, c)
    BY <1>3 DEF Image
  <1>7. \A b \in Parents(i) : i.was[<<b, "ports">>] = Col(g, <<b, "ports">>)
    <2> SUFFICES ASSUME NEW b \in Parents(i)
                 PROVE  i.was[<<b, "ports">>] = Col(g, <<b, "ports">>)
      OBVIOUS
    <2>1. <<b, "ports">> \in Cells(Parents(i), {"ports"})
      BY DEF Cells
    <2>2. PICK c : c = <<b, "ports">>
      OBVIOUS
    <2>3. c \in DOMAIN i.was
      BY <2>1, <2>2 DEF StagedLifecycle
    <2>4. i.was[c] = Col(g, c)
      BY <1>6, <2>3
    <2> QED  BY <2>2, <2>4
  <1>8. Foretells(i) /\ DOMAIN i.will = Willed(i)
    <2>1. i.op \in LifecycleOps /\ Interwoven(i.from, i.to) /\ Parental(i.op, i.from, i.to)
      BY <1>2, <1>3 DEF Tailored
    <2>2. i.will = Image(Grafted(g, i, "go"), Willed(i))
      BY <1>3, <1>4, <1>5
    <2> HIDE DEF Schema, Fits
    <2> QED  BY <1>7, <2>1, <2>2, LifecycleForetells
  <1>9. Cut(i.from, i.to)
    <2>1. Cut(Stored(g, r), After(g, r))
      BY <1>1, GraphCut
    <2>2. \A x \in DOMAIN i.from \cap DOMAIN i.to : i.to[x] = After(g, r)[x]
      BY <1>3, ToKept
    <2> QED  BY <1>3, <2>1, <2>2 DEF Cut
  <1>10. Remembered(i)
    <2> SUFFICES ASSUME r.op \in DeletionOps, NEW n \in i.old
                 PROVE  \E k \in Doomed(i) : /\ i.from[k].id = n /\ <<k, "id">> \in DOMAIN i.was
                                             /\ i.was[<<k, "id">>] = {n}
      BY <1>3 DEF Remembered
    <2>1. i.old = {g[k].id : k \in Doomed(i)}
      BY <1>3, GraphIntentOld DEF Doomed
    <2>2. PICK k \in Doomed(i) : n = g[k].id
      BY <2>1
    <2>3. k \in Before(g, r) /\ k \in DOMAIN g
      BY <1>3 DEF Doomed
    <2>4. i.from[k].id = n
      BY <1>3, <2>2, <2>3, StoredId
    <2>5. <<k, "id">> \in DOMAIN i.was
      BY ExactId DEF StagedLifecycle
    <2>6. i.was[<<k, "id">>] = {n}
      BY <1>6, <2>2, <2>3, <2>5 DEF Col, Value
    <2> QED  BY <2>4, <2>5, <2>6
  <1>11. Severed(i) /\ Lone(i)
    BY <1>1, <1>3, <1>9 DEF Severed, Lone
  <1> QED  BY <1>3, <1>8, <1>10, <1>11 DEF Minted

LEMMA BridgeMinted ==
    ASSUME NEW g, Schema(g), IsFiniteSet(DOMAIN g), NEW r, Asked(r), r.op \in {"bridge.create", "bridge.delete"},
           Can(g, r), r.op # "bridge.create" => r.key \in DOMAIN g, NEW ids
    PROVE  Minted(GraphIntent(g, r, ids))
  <1>0. PICK i : i = GraphIntent(g, r, ids)
    OBVIOUS
  <1> DEFINE b == r.key
  <1>1. /\ i.op = r.op /\ i.from = Stored(g, r) /\ DOMAIN i.from = Before(g, r)
        /\ DOMAIN i.to = DOMAIN After(g, r)
    BY <1>0, GraphIntentFields
  <1>2. Table(b) = "Bridge" /\ IsKey(b) /\ Request(r)
    BY DEF Asked, Request, Subject, PortOps, InterfaceOps, BridgeOps
  <1>3. StagedLifecycle(i)
    BY <1>0, <1>2, BridgeCreationStaged, BridgeDeletionStaged
  <1>4. Parents(i) = {}
    BY <1>1, <1>3 DEF StagedLifecycle
  <1>5. Confined(i)
    BY <1>1 DEF Confined, InternalOps
  <1>6. CASE r.op = "bridge.create"
    <2>1. DOMAIN i.from = {} /\ DOMAIN i.to = Graph(b)
      <3>1. Before(g, r) = {} /\ After(g, r) = NewBridge(b)
        BY <1>6 DEF Before, After, MirrorOps
      <3>2. DOMAIN NewBridge(b) = Graph(b)
        BY DEF NewBridge, With, Just, NewPortRow, NewInterface, Graph, Local
      <3> QED  BY <1>1, <3>1, <3>2
    <2>2. NameFree(g, Name(b))
      BY <1>6 DEF Can, MirrorOps, TunnelOps, CanCreateBridge
    <2>3. Graph(b) \cap DOMAIN g = {}
      BY <1>2, <2>2, NamesOf DEF Graph, NameFree
    <2>4. Fits(i, g)
      BY <2>1, <2>3 DEF Fits, Fresh, Doomed
    <2>5. Entire(i) /\ r.op \notin DeletionOps
      BY <1>1, <1>6 DEF Entire, DeletionOps
    <2> HIDE DEF b
    <2> QED  BY <1>0, <1>3, <1>4, <1>5, <1>6, <2>4, <2>5, LifecycleMinted DEF LifecycleOps
  <1>7. CASE r.op = "bridge.delete"
    <2>1. DOMAIN i.from = Graph(b) /\ DOMAIN i.to = {}
      BY <1>1, <1>7 DEF Before, After, MirrorOps
    <2>2. IsolatedBridge(g, b) /\ b \in DOMAIN g
      BY <1>7 DEF Can, MirrorOps, TunnelOps
    <2>3. Graph(b) \subseteq DOMAIN g
      <3>1. PortOf(b) \in g[b].links
        BY <2>2 DEF IsolatedBridge, Ports, Local
      <3>2. PortOf(b) \in DOMAIN g
        BY <2>2, <3>1, LinkTables DEF Schema
      <3>3. InterfaceOf(b) \in g[PortOf(b)].links
        BY <2>2 DEF IsolatedBridge, Local
      <3>4. InterfaceOf(b) \in DOMAIN g
        BY <3>2, <3>3, LinkTables DEF Schema
      <3> QED  BY <2>2, <3>2, <3>4 DEF Graph
    <2>4. Entire(i)
      <3>1. Doomed(i) = Graph(b)
        BY <2>1 DEF Doomed
      <3>2. b = <<"Bridge", Name(b)>>
        BY <1>2, NamesOf
      <3>3. \A k \in Graph(b) : Name(k) = Name(b)
        BY NamesOf DEF Graph
      <3>4. \A t \in {"Bridge", "Port", "Interface"} : <<t, Name(b)>> \in Graph(b)
        BY <3>2 DEF Graph, PortOf, InterfaceOf
      <3> QED  BY <3>1, <3>3, <3>4 DEF Entire
    <2> HIDE DEF b
    <2> QED  BY <1>0, <1>3, <1>4, <1>5, <1>7, <2>1, <2>3, <2>4, LifecycleMinted DEF LifecycleOps
  <1> QED  BY <1>6, <1>7

LEMMA InternalCreationMinted ==
    ASSUME NEW g, Schema(g), IsFiniteSet(DOMAIN g), NEW r, Asked(r), r.op = "internal.create",
           Can(g, r), r.key \in DOMAIN g, NEW ids
    PROVE  Minted(GraphIntent(g, r, ids))
  <1>0. PICK i : i = GraphIntent(g, r, ids)
    OBVIOUS
  <1> DEFINE b == r.key
             p == r.on
             n == InterfaceOf(p)
             a == Stored(g, r)
             h == After(g, r)
  <1>1. /\ i.op = r.op /\ i.from = a /\ DOMAIN i.from = Before(g, r) /\ DOMAIN i.to = DOMAIN h
    BY <1>0, GraphIntentFields
  <1>2. Table(b) = "Bridge" /\ Table(p) = "Port" /\ Table(n) = "Interface" /\ Name(n) = Name(p)
    BY NamesOf DEF Asked, Request, Subject, PortOps, InterfaceOps, BridgeOps, SecondOps, Second
  <1>3. StagedLifecycle(i)
    BY <1>0, InternalCreationStaged DEF Asked
  <1>4. Before(g, r) = {b}
    BY DEF Before, MirrorOps
  <1>5. DOMAIN h = {b, p, n} /\ h[b].links = g[b].links \cup {p}
    BY CreationWoven DEF CreationOps, Schema
  <1>6. h[b].cfg = g[b].cfg
    <2> DEFINE x == Relinked(Sub(g, {b}), b, {}, {p})
               y == InternalPort(p, r.v)
    <2>1. h = With(y, x)
      BY DEF After, MirrorOps
    <2>2. b \in DOMAIN x /\ x[b] = [g[b] EXCEPT !.links = (@ \ {}) \cup {p}]
      BY DEF Relinked, Sub
    <2>3. IsRow(r.key, g[r.key])
      BY TypedRow DEF Schema
    <2>31. DOMAIN g[b] = Columns
      BY <2>3 DEF IsRow
    <2>4. x[b].cfg = g[b].cfg
      BY <2>2, <2>31 DEF Columns
    <2> HIDE DEF x, y
    <2>5. h[b] = x[b]
      BY <2>1, <2>2, WithOver
    <2> QED  BY <2>4, <2>5
  <1>7. a[b] = g[b]
    BY <1>4, StoredSame DEF DeletionOps
  <1>8. i.to[b] = h[b]
    BY <1>0, <1>4, <1>5, ToKept
  <1>9. Tailored(i)
    BY <1>0, IntentTailored DEF FieldOps, ListOps, TreeOps, LifecycleOps
  <1> HIDE DEF a, h, b, p, n
  <1>10. Doomed(i) = {} /\ Fresh(i) = {p, n} /\ Parents(i) = {b}
    BY <1>1, <1>2, <1>4, <1>5 DEF Doomed, Fresh, Parents
  <1>11. Fits(i, g)
    <2>1. NameFree(g, Name(p))
      BY DEF Can, MirrorOps, TunnelOps, CanCreateInternal, p
    <2>2. p \notin DOMAIN g /\ n \notin DOMAIN g
      BY <1>2, <2>1 DEF NameFree
    <2>3. \A k \in DOMAIN i.from \cap DOMAIN i.to : i.from[k].links \cap DOMAIN i.to = {}
      BY <1>1, <1>9 DEF Tailored, Parental, LifecycleOps
    <2>4. b \in DOMAIN g
      BY DEF b
    <2> QED  BY <1>1, <1>4, <1>10, <2>2, <2>3, <2>4 DEF Fits
  <1>12. Confined(i)
    <2>1. BridgesOf(i.from) \subseteq DOMAIN i.to
      BY <1>1, <1>4, <1>5 DEF BridgesOf
    <2>2. i.from[b].cfg = i.to[b].cfg /\ i.from[b].links \ i.to[b].links = {}
      BY <1>1, <1>5, <1>6, <1>7, <1>8
    <2> QED  BY <1>10, <2>1, <2>2 DEF Confined
  <1>13. Entire(i) /\ r.op \notin DeletionOps
    BY <1>1 DEF Entire, DeletionOps
  <1>14. Minted(i)
    BY <1>0, <1>3, <1>10, <1>11, <1>12, <1>13, LifecycleMinted DEF LifecycleOps
  <1> QED  BY <1>0, <1>14

LEMMA InternalDeletionMinted ==
    ASSUME NEW g, Schema(g), IsFiniteSet(DOMAIN g), NEW r, Asked(r), r.op = "internal.delete",
           Can(g, r), r.key \in DOMAIN g, NEW ids
    PROVE  Minted(GraphIntent(g, r, ids))
  <1>0. PICK i : i = GraphIntent(g, r, ids)
    OBVIOUS
  <1> DEFINE p == r.key
             n == InterfaceOf(p)
             a == Stored(g, r)
             h == After(g, r)
  <1>1. /\ i.op = r.op /\ i.from = a /\ DOMAIN i.from = Before(g, r) /\ DOMAIN i.to = DOMAIN h
    BY <1>0, GraphIntentFields
  <1>2. Table(p) = "Port" /\ IsKey(p) /\ Table(n) = "Interface" /\ Name(n) = Name(p)
    BY NamesOf DEF Asked, Request, Subject, PortOps
  <1>3. StagedLifecycle(i)
    BY <1>0, InternalDeletionStaged DEF Asked
  <1>4. PICK b \in Rows(g, "Bridge") : Holders(g, p) = {b} /\ p # Local(b) /\ g[p].links = {n}
    BY DEF Can, MirrorOps, TunnelOps, OwnInternalPort
  <1>5. b \in DOMAIN g /\ Table(b) = "Bridge" /\ IsKey(b) /\ p \in g[b].links /\ n \in DOMAIN g
        /\ Typed(g)
    <2>1. Typed(g) /\ b \in DOMAIN g /\ Table(b) = "Bridge" /\ p \in g[b].links /\ p \in DOMAIN g
      BY <1>4 DEF Rows, Holders, Schema
    <2>2. n \in DOMAIN g
      BY <1>4, <2>1, LinkTables
    <2> QED  BY <2>1, <2>2, TypedRow
  <1>6. Before(g, r) = {p, b, n} /\ h = PortDeleted(g, p)
    <2>1. Before(g, r) = Loaded(g, p) /\ h = PortDeleted(g, p)
      BY DEF Before, After, MirrorOps
    <2> QED  BY <1>4, <2>1 DEF Loaded
  <1>7. DOMAIN h = {b} /\ h[b] = Linking(g[b], g[b].links \ {p})
    BY <1>4, <1>6 DEF PortDeleted, Linking
  <1>8. h[b].links = g[b].links \ {p} /\ h[b].cfg = g[b].cfg
    BY <1>5, <1>7, TypedRow DEF IsRow, Columns, Linking
  <1>9. a[b] = g[b]
    BY <1>5, <1>6 DEF Stored, Deletes, DeletionOps
  <1>10. i.to[b] = h[b]
    BY <1>0, <1>6, <1>7, ToKept
  <1>11. Tailored(i)
    BY <1>0, IntentTailored DEF FieldOps, ListOps, TreeOps, LifecycleOps
  <1>12. g[n].links = {}
    BY <1>2, <1>5, LinkTables
  <1> HIDE DEF a, h, n
  <1>13. Doomed(i) = {p, n} /\ Fresh(i) = {} /\ Parents(i) = {b}
    BY <1>1, <1>2, <1>5, <1>6, <1>7 DEF Doomed, Fresh, Parents
  <1>14. Fits(i, g)
    <2>1. \A k \in DOMAIN i.from \cap DOMAIN i.to : i.from[k].links \cap DOMAIN i.to = {}
      BY <1>1, <1>11 DEF Tailored, Parental, LifecycleOps
    <2>2. \A k \in Doomed(i) : g[k].links \subseteq DOMAIN i.from
      BY <1>1, <1>4, <1>6, <1>12, <1>13
    <2> QED  BY <1>1, <1>5, <1>6, <1>13, <2>1, <2>2 DEF Fits
  <1>15. Confined(i)
    <2>1. BridgesOf(i.from) \subseteq DOMAIN i.to
      BY <1>1, <1>2, <1>6, <1>7 DEF BridgesOf
    <2>2. i.from[b].cfg = i.to[b].cfg /\ i.from[b].links \ i.to[b].links \subseteq {p}
      BY <1>1, <1>8, <1>9, <1>10
    <2> QED  BY <1>13, <2>1, <2>2 DEF Confined
  <1>16. Entire(i)
    <2> DEFINE x == <<"Bridge", Name(p)>>
    <2>1. p = <<"Port", Name(p)>> /\ n = <<"Interface", Name(p)>>
      BY <1>2, NamesOf DEF PortOf, InterfaceOf, n
    <2>2. x \in Shadowed(i)
      BY <1>1, <1>2, <1>6, <1>13 DEF Shadowed, Owns
    <2>3. Local(b) = <<"Port", Name(b)>> /\ b = <<"Bridge", Name(b)>>
      BY <1>5, NamesOf DEF Local, PortOf
    <2>4. x # b
      BY <1>4, <2>1, <2>3
    <2>5. x # p /\ x # n
      BY <2>1
    <2>6. x \in Shadowed(i) \ DOMAIN i.from
      BY <1>1, <1>6, <2>2, <2>4, <2>5
    <2>7. \A k \in Doomed(i) : Name(k) = Name(p)
      BY <1>2, <1>13
    <2> HIDE DEF x
    <2>8. \A t \in {"Bridge", "Port", "Interface"} :
             <<t, Name(p)>> \in Doomed(i) \cup (Shadowed(i) \ DOMAIN i.from)
      BY <1>13, <2>1, <2>6 DEF x
    <2> QED  BY <2>7, <2>8 DEF Entire
  <1>17. \A x \in Parents(i), k \in Doomed(i) : Table(k) = "Port" => k \in i.from[x].links
    BY <1>1, <1>2, <1>5, <1>9, <1>13
  <1>18. DOMAIN i.from \subseteq DOMAIN g
    BY <1>1, <1>5, <1>6
  <1>19. Minted(i)
    BY <1>0, <1>3, <1>14, <1>15, <1>16, <1>17, <1>18, LifecycleMinted DEF LifecycleOps
  <1> QED  BY <1>0, <1>19

-----------------------------------------------------------------------------
(* Tunnels and mirrors: what else their requests are about.                *)

LEMMA LoneInterface ==
    ASSUME NEW g, Schema(g), NEW p \in DOMAIN g, Table(p) = "Port", NEW x, g[p].links = {x},
           NEW k \in Loaded(g, p), Table(k) = "Interface"
    PROVE  k = x
  <1>1. k # p
    OBVIOUS
  <1>2. k \notin Holders(g, p)
    BY PortHeld
  <1> QED  BY <1>1, <1>2 DEF Loaded

LEMMA TunnelLone ==
    ASSUME NEW g, Schema(g), NEW r, Asked(r), r.op \in TunnelOps, Can(g, r), r.key \in DOMAIN g
    PROVE  \A j, k \in Before(g, r) \cup DOMAIN After(g, r) :
              Table(j) = "Interface" /\ Table(k) = "Interface" => j = k
  <1>1. CanTunnel(g, r)
    BY DEF Can, TunnelOps, MirrorOps
  <1>2. CASE r.op = "tunnel.create"
    <2>1. Before(g, r) = {r.key}
      BY <1>2 DEF Before, MirrorOps
    <2>2. DOMAIN After(g, r) = {r.key, r.on, InterfaceOf(r.on)}
      <3>1. After(g, r) = TunnelCreated(g, r)
        BY <1>2 DEF After, MirrorOps
      <3>2. DOMAIN TunnelCreated(g, r) = {r.key, r.on, InterfaceOf(r.on)}
        BY DEF TunnelCreated, With, Just, NewPortRow, Relinked, Sub
      <3> QED  BY <3>1, <3>2
    <2>3. Table(r.key) = "Bridge" /\ Table(r.on) = "Port"
      BY <1>2 DEF Asked, Request, Subject, Second, SecondOps, PortOps, InterfaceOps, BridgeOps
    <2> QED  BY <2>1, <2>2, <2>3
  <1>3. CASE r.op \in {"tunnel.configure", "tunnel.delete"}
    <2>1. Table(r.key) = "Port"
      BY <1>3 DEF Asked, Request, Subject, PortOps
    <2>2. PICK x : g[r.key].links = {x}
      BY <1>1, <1>3 DEF CanTunnel
    <2>3. Before(g, r) = Loaded(g, r.key)
      BY <1>3 DEF Before, MirrorOps
    <2>4. \A k \in DOMAIN After(g, r) : Table(k) = "Interface" => k \in Before(g, r)
      <3>1. CASE r.op = "tunnel.configure"
        BY <3>1, ValueAfter DEF ValueOps
      <3>2. CASE r.op = "tunnel.delete"
        <4>1. PICK b \in DOMAIN g : Table(b) = "Bridge" /\ DOMAIN After(g, r) = {b}
          BY <3>2, RemovalWoven DEF RemovalOps
        <4> QED  BY <4>1
      <3> QED  BY <1>3, <3>1, <3>2
    <2>5. ASSUME NEW k \in Before(g, r) \cup DOMAIN After(g, r), Table(k) = "Interface"
          PROVE  k = x
      <3>1. k \in Loaded(g, r.key)
        BY <2>3, <2>4, <2>5
      <3> QED  BY <2>1, <2>2, <2>5, <3>1, LoneInterface
    <2> QED  BY <2>5
  <1> QED  BY <1>2, <1>3 DEF TunnelOps

LEMMA MirrorLone ==
    ASSUME NEW g, Schema(g), NEW r, Asked(r), r.op \in MirrorOps, Can(g, r), r.key \in DOMAIN g
    PROVE  /\ \A k \in Before(g, r) \cup DOMAIN After(g, r) : Table(k) = "Mirror" => k = MirrorOf(r)
           /\ MirrorOf(r) \in Before(g, r) \cup DOMAIN After(g, r) /\ Table(MirrorOf(r)) = "Mirror"
           /\ \A k \in Before(g, r) \cap DOMAIN After(g, r) :
                 \A j : (j \in g[k].links) # (j \in After(g, r)[k].links) => j = MirrorOf(r)
  <1> DEFINE m == MirrorOf(r)
             B == MirrorBridge(g, r)
             h == After(g, r)
  <1>1. /\ DOMAIN h = IF r.op = "mirror.delete" THEN Before(g, r) \ {m} ELSE Before(g, r) \cup {m}
        /\ r.op # "mirror.delete" => h[m].links = {}
        /\ \A k \in B : h[k].links = IF r.op = "mirror.delete" THEN g[k].links \ {m} ELSE g[k].links \cup {m}
        /\ \A k \in DOMAIN h \ (B \cup {m}) : h[k].links = g[k].links
    <2>1. Remirrored(g, r, h)
      BY MirrorRows
    <2> HIDE DEF h
    <2> QED  BY <2>1 DEF Remirrored
  <1>2. /\ Table(m) = "Mirror"
        /\ \A b \in B : b \in DOMAIN g /\ Table(b) = "Bridge"
        /\ \A p \in Selected(g, r) : p \in DOMAIN g /\ Table(p) = "Port"
        /\ \A j \in Members(g, Selected(g, r)) : j \in DOMAIN g /\ Table(j) = "Interface"
        /\ Before(g, r) = B \cup Selected(g, r) \cup Members(g, Selected(g, r))
                          \cup (IF r.op = "mirror.create" THEN {} ELSE {m})
        /\ r.op # "mirror.create" => m \in DOMAIN g
    BY MirrorFacts
  <1> HIDE DEF h, B, m
  <1>3. \A k \in Before(g, r) : Table(k) = "Mirror" => k = m
    BY <1>2
  <1>4. \A k \in DOMAIN h : k \in Before(g, r) \/ k = m
    BY <1>1
  <1>5. m \in Before(g, r) \cup DOMAIN h
    BY <1>1, <1>2
  <1>6. ASSUME NEW k \in Before(g, r) \cap DOMAIN h, NEW j, (j \in g[k].links) # (j \in h[k].links)
        PROVE  j = m
    <2>1. CASE k \in B
      <3>1. CASE r.op = "mirror.delete"
        <4>1. h[k].links = g[k].links \ {m}
          BY <1>1, <2>1, <3>1
        <4> QED  BY <1>6, <4>1
      <3>2. CASE r.op # "mirror.delete"
        <4>1. h[k].links = g[k].links \cup {m}
          BY <1>1, <2>1, <3>2
        <4> QED  BY <1>6, <4>1
      <3> QED  BY <3>1, <3>2
    <2>2. CASE k = m
      <3>1. r.op # "mirror.delete"
        BY <1>1, <1>6, <2>2
      <3>2. m \in DOMAIN g
        <4>1. r.op # "mirror.create"
          BY <1>2, <1>6, <2>2
        <4> QED  BY <1>2, <4>1
      <3>3. g[m].links = {}
        BY <1>2, <3>2, LinkTables DEF Schema
      <3> QED  BY <1>1, <1>6, <2>2, <3>1, <3>3
    <2>3. CASE k \notin B \cup {m}
      BY <1>1, <1>6, <2>3
    <2> QED  BY <2>1, <2>2, <2>3
  <1> QED  BY <1>2, <1>3, <1>4, <1>5, <1>6 DEF h, m

LEMMA RowsLone ==
    ASSUME NEW g, Schema(g), NEW r, Asked(r), r.op \notin FieldOps \cup LifecycleOps, Can(g, r), r.key \in DOMAIN g,
           NEW ids, NEW i, i = GraphIntent(g, r, ids)
    PROVE  Lone(i)
  <1>1. /\ i.op = r.op /\ i.from = Stored(g, r) /\ DOMAIN i.from = Before(g, r)
        /\ DOMAIN i.to = DOMAIN After(g, r)
    BY GraphIntentFields
  <1>2. Owns(i) = Before(g, r) \cup DOMAIN After(g, r)
    BY <1>1 DEF Owns
  <1>3. ASSUME r.op \in TunnelOps
        PROVE  \A j, k \in Owns(i) : Table(j) = "Interface" /\ Table(k) = "Interface" => j = k
    BY <1>2, <1>3, TunnelLone
  <1>4. ASSUME r.op \in MirrorOps
        PROVE  /\ \A j, k \in Owns(i) : Table(j) = "Mirror" /\ Table(k) = "Mirror" => j = k
               /\ \A b \in Parents(i) :
                    \A k \in (i.from[b].links \ i.to[b].links) \cup (i.to[b].links \ i.from[b].links) :
                       k \in Owns(i) /\ Table(k) = "Mirror"
    <2> DEFINE m == MirrorOf(r)
    <2>1. /\ \A k \in Before(g, r) \cup DOMAIN After(g, r) : Table(k) = "Mirror" => k = m
          /\ m \in Before(g, r) \cup DOMAIN After(g, r) /\ Table(m) = "Mirror"
          /\ \A k \in Before(g, r) \cap DOMAIN After(g, r) :
                \A j : (j \in g[k].links) # (j \in After(g, r)[k].links) => j = m
      BY <1>4, MirrorLone
    <2> HIDE DEF m
    <2>2. r.op \notin DeletionOps
      BY <1>4 DEF DeletionOps, MirrorOps
    <2>3. \A k \in Before(g, r) : i.from[k] = g[k]
      BY <1>1, <2>2, StoredSame
    <2>4. \A k \in Before(g, r) \cap DOMAIN After(g, r) : i.to[k] = After(g, r)[k]
      BY ToKept
    <2>5. Parents(i) \subseteq Before(g, r) \cap DOMAIN After(g, r)
      BY <1>1 DEF Parents
    <2>6. ASSUME NEW b \in Parents(i),
                 NEW k \in (i.from[b].links \ i.to[b].links) \cup (i.to[b].links \ i.from[b].links)
          PROVE  k = m
      BY <2>1, <2>3, <2>4, <2>5
    <2> QED  BY <1>2, <2>1, <2>6
  <1> QED  BY <1>1, <1>3, <1>4 DEF Lone

LEMMA RowsMinted ==
    ASSUME NEW g, Schema(g), IsFiniteSet(DOMAIN g), NEW r, Asked(r), r.op \notin FieldOps \cup LifecycleOps,
           Can(g, r), r.key \in DOMAIN g, r.op = "bridge.delete-tree" => Mirrors(g, r.key) = {},
           NEW ids, NEW i, i = GraphIntent(g, r, ids), Fresh(i) \cap DOMAIN g = {}
    PROVE  Minted(i)
  <1>1. /\ i.op = r.op /\ i.from = Stored(g, r) /\ DOMAIN i.from = Before(g, r)
        /\ DOMAIN i.to = DOMAIN After(g, r)
        /\ i.was = Image(g, Compared(r.op, Before(g, r), Doomed(i) # {}))
    BY GraphIntentFields
  <1>2. i.will = Image(Grafted(g, i, "go"), Compared(r.op, DOMAIN i.to, FALSE))
    BY GraphIntentRows
  <1>3. Tailored(i)
    BY IntentTailored
  <1>4. r.op \in RowOps /\ r.op \notin DeletionOps /\ r.op \notin InternalOps
    BY DEF RowOps, Asked, Request, LifecycleOps, DeletionOps, InternalOps
  <1>5. DOMAIN i.from \subseteq DOMAIN g /\ \A k \in DOMAIN i.from : i.from[k] = g[k]
    BY <1>1, <1>4, BeforePresent, StoredSame
  <1>6. Fits(i, g)
    <2>1. \A k \in Doomed(i) : g[k].links \subseteq DOMAIN i.from
      BY <1>3, <1>5 DEF Tailored, Interwoven, Woven, Doomed
    <2> QED  BY <1>5, <2>1 DEF Fits
  <1>7. \A ks, x : Compared(r.op, ks, x) = UNION {Config(k) : k \in ks}
    BY DEF Compared, LifecycleOps
  <1>8. Foretells(i)
    <2>1. i.was = Image(g, UNION {Config(k) : k \in DOMAIN i.from})
      BY <1>1, <1>7
    <2>2. i.will = Image(Grafted(g, i, "go"), UNION {Config(k) : k \in DOMAIN i.to})
      BY <1>2, <1>7
    <2>3. i.op \notin LifecycleOps /\ Interwoven(i.from, i.to)
      BY <1>1, <1>3 DEF Tailored
    <2> QED  BY <1>5, <1>6, <2>1, <2>2, <2>3, RowsForetell
  <1>9. Cut(i.from, i.to)
    <2>1. Cut(Stored(g, r), After(g, r))
      BY GraphCut
    <2>2. \A x \in DOMAIN i.from \cap DOMAIN i.to : i.to[x] = After(g, r)[x]
      BY <1>1, ToKept
    <2> QED  BY <1>1, <2>1, <2>2 DEF Cut
  <1>10. Severed(i) /\ Confined(i) /\ Entire(i) /\ Remembered(i)
    BY <1>1, <1>4, <1>9 DEF Severed, Confined, Entire, Remembered
  <1>11. Lone(i)
    BY RowsLone
  <1> QED  BY <1>1, <1>8, <1>10, <1>11 DEF Minted

LEMMA StageGraphMinted ==
    ASSUME Schema(view.rows), IsFiniteSet(DOMAIN view.rows), DOMAIN draft = DraftFields,
           NEW r, Asked(r), r.op \notin FieldOps, StageGraph(r)
    PROVE  \A i \in draft'.intents : Minted(i)
  <1> DEFINE g == view.rows
             rows == Picks(g, r).fresh \cup Picks(g, r).doomed
             count == Cardinality(rows)
             i(ids) == GraphIntent(g, r, ids)
  <1>1. \E ids \in Assigned(rows, issued + 1) :
           /\ r.op \notin LifecycleOps => Checks(i(ids), g)
           /\ draft' = [draft EXCEPT !.intents = {i(ids)}, !.picked = @ + count]
    BY DEF StageGraph
  <1>2. PICK ids : /\ r.op \notin LifecycleOps => Checks(i(ids), g)
                   /\ draft' = [draft EXCEPT !.intents = {i(ids)}, !.picked = @ + count]
    BY <1>1
  <1>3. Can(g, r) /\ (r.op # "bridge.create" => r.key \in DOMAIN g)
    BY DEF StageGraph
  <1>4. i(ids).op = r.op /\ i(ids).dir = "go" /\ DOMAIN i(ids).from = Before(g, r)
    BY GraphIntentFields
  <1>41. PICK x : x = i(ids)
    OBVIOUS
  <1>7. Schema(g) /\ IsFiniteSet(DOMAIN g)
    OBVIOUS
  <1> HIDE DEF g, count
  <1>5. r.op \notin LifecycleOps => Fresh(x) \cap DOMAIN g = {}
    BY <1>2, <1>4, <1>41, TopologyChecked
  <1>6. ASSUME r.op = "bridge.delete-tree" PROVE Mirrors(g, r.key) = {}
    <2>1. r.op \notin FieldOps \cup LifecycleOps \cup TunnelOps \cup MirrorOps
      BY <1>6 DEF FieldOps, ListOps, TreeOps, LifecycleOps, TunnelOps, MirrorOps
    <2>2. Before(g, r) = Region(g, r.key)
      BY <1>6 DEF Before, MirrorOps
    <2>3. r.key \in DOMAIN x.from
      BY <1>4, <1>41, <2>2 DEF Region
    <2>4. TopologyNode(g, r.key)
      BY <1>2, <1>4, <1>41, <2>1, <2>3, TopologyChecked
    <2>5. Table(r.key) = "Bridge"
      BY <1>6 DEF Asked, Request, Subject, PortOps, InterfaceOps, BridgeOps
    <2> QED  BY <2>4, <2>5 DEF TopologyNode
  <1>8. Minted(x)
    <2>1. CASE r.op \notin LifecycleOps
      <3>1. r.op # "bridge.create"
        BY <2>1 DEF LifecycleOps
      <3> QED  BY <1>3, <1>41, <1>5, <1>6, <1>7, <2>1, <3>1, RowsMinted
    <2>2. CASE r.op \in {"bridge.create", "bridge.delete"}
      BY <1>3, <1>41, <1>7, <2>2, BridgeMinted
    <2>3. CASE r.op = "internal.create"
      BY <1>3, <1>41, <1>7, <2>3, InternalCreationMinted
    <2>4. CASE r.op = "internal.delete"
      BY <1>3, <1>41, <1>7, <2>4, InternalDeletionMinted
    <2> QED  BY <2>1, <2>2, <2>3, <2>4 DEF LifecycleOps
  <1>9. draft'.intents = {x}
    BY <1>2, <1>41 DEF DraftFields
  <1> QED  BY <1>8, <1>9

-----------------------------------------------------------------------------
(* Intents stay as they were minted while the draft is edited.             *)

LEMMA RestageMinted ==
    ASSUME NEW i, i.op = "internal.create", DOMAIN i = DOMAIN Blank, Tailored(i), Minted(i), NEW r, r.on \in Fresh(i)
    PROVE  Minted([i EXCEPT !.to[r.on].cfg.vlan = r.v])
  <1> DEFINE row == i.to[r.on]
             new == Setting(row, "vlan", r.v)
  <1> SUFFICES ASSUME NEW j, j = [i EXCEPT !.to[r.on].cfg.vlan = r.v] PROVE Minted(j)
    OBVIOUS
  <1>1. /\ i.op \in LifecycleOps /\ i.op \in InternalOps /\ i.op \notin DeletionOps
        /\ i.op \notin TunnelOps /\ i.op \notin MirrorOps
    BY DEF LifecycleOps, MirrorOps, InternalOps, DeletionOps, TunnelOps
  <1>2. /\ j.op = i.op /\ j.from = i.from /\ j.to = [i.to EXCEPT ![r.on] = new]
        /\ j.was = i.was /\ j.will = i.will /\ j.old = i.old
    BY BlankFields DEF Setting
  <1>3. \A k \in DOMAIN i.to : IsRow(k, i.to[k])
    BY DEF Tailored, Interwoven, Woven, Proportioned
  <1>4. \A k \in DOMAIN i.from : IsRow(k, i.from[k])
    BY DEF Tailored, Interwoven, Woven, Proportioned
  <1>5. r.on \in DOMAIN i.to /\ r.on \notin DOMAIN i.from
    BY DEF Fresh
  <1>6. IsRow(r.on, new) /\ new.links = row.links /\ new.refs = row.refs
    BY <1>3, <1>5, SettingRow
  <1>7. new.id = row.id
    <2>1. "id" \in DOMAIN row
      <3>1. IsRow(r.on, row)
        BY <1>3, <1>5
      <3> HIDE DEF row
      <3> QED  BY <3>1 DEF IsRow, Columns
    <2> QED  BY <2>1 DEF Setting
  <1> HIDE DEF new
  <1>8. Akin(i.to, j.to) /\ Akin(i.from, j.from)
    BY <1>2, <1>3, <1>4, <1>5, <1>6 DEF Akin
  <1>9. Interwoven(j.from, j.to) /\ Interwoven(i.from, i.to)
    BY <1>8, AkinWoven DEF Tailored, Interwoven
  <1>10. Parental(j.op, j.from, j.to) /\ Parental(i.op, i.from, i.to)
    BY <1>2, <1>8 DEF Tailored, Parental, Akin
  <1>11. Kindred(i, j)
    BY <1>2, <1>5, <1>6, <1>7 DEF Kindred
  <1>12. Fresh(j) = Fresh(i) /\ Doomed(j) = Doomed(i) /\ Parents(j) = Parents(i)
    BY <1>11 DEF Kindred, Fresh, Doomed, Parents
  <1>13. DOMAIN i.will = Willed(i) /\ Willed(j) = Willed(i)
    BY <1>1, <1>12 DEF Minted, Willed
  <1>14. Foretells(j)
    <2> SUFFICES ASSUME NEW g, Schema(g), Fits(j, g), Met(j, g)
                 PROVE  Image(Grafted(g, j, "go"), DOMAIN j.will) = j.will
      BY DEF Foretells
    <2>1. Fits(i, g)
      BY <1>11, KindredFits
    <2>2. Met(i, g)
      BY <1>1, <1>2, <1>12 DEF Met
    <2>3. Image(Grafted(g, i, "go"), Willed(i)) = i.will
      BY <1>13, <2>1, <2>2 DEF Minted, Foretells
    <2>4. Agree(Grafted(g, i, "go"), Grafted(g, j, "go"), Willed(i))
      BY <1>1, <1>9, <1>10, <1>11, <2>1, WilledAgree
    <2>5. Image(Grafted(g, j, "go"), Willed(i)) = i.will
      BY <2>3, <2>4, AgreeImage
    <2> QED  BY <1>2, <1>13, <2>5
  <1>15. Severed(j)
    BY <1>1, <1>2, <1>11, <1>12 DEF Minted, Severed, Cut, Kindred, Fresh, Doomed, Parents
  <1>16. Confined(j)
    <2>1. \A b \in Parents(i) : j.to[b] = i.to[b]
      BY <1>2, <1>5 DEF Parents
    <2> QED  BY <1>1, <1>2, <1>11, <1>12, <2>1 DEF Minted, Confined, Kindred
  <1>17. Entire(j) /\ Remembered(j) /\ Lone(j)
    BY <1>1, <1>2 DEF Entire, Remembered, Lone
  <1> QED  BY <1>2, <1>13, <1>14, <1>15, <1>16, <1>17 DEF Minted

MintedAll ==
    /\ \A i \in draft.intents : i.op \notin FieldOps => Minted(i)
    /\ \A i \in change.intents : i.op \notin FieldOps => Minted(i)

LEMMA InitMinted == Init => MintedAll
  BY DEF Init, DraftInit, NoChange, MintedAll

LEMMA StageFieldMinted ==
    ASSUME \A i \in draft.intents : i.op \notin FieldOps => Minted(i),
           DOMAIN draft = DraftFields, \A i \in draft.intents : Staged(i),
           NEW r, r.op \in FieldOps, StageField(r)
    PROVE  \A i \in draft'.intents : i.op \notin FieldOps => Minted(i)
  <1>1. PICK out, j : Replaced(out, {j}) /\ j.op \in FieldOps
    <2>1. CASE Replaced({}, {FieldIntent(view.rows, r)})
      <3>1. FieldIntent(view.rows, r).op = r.op
        BY BlankFields DEF FieldIntent
      <3> QED  BY <2>1, <3>1
    <2>2. CASE \E i \in Prior(r) : Replaced({i}, {Amended(i, view.rows, r.v)})
      <3>1. PICK i \in Prior(r) : Replaced({i}, {Amended(i, view.rows, r.v)})
        BY <2>2
      <3>2. i \in draft.intents /\ i.op = r.op
        BY DEF Prior
      <3>3. DOMAIN i = DOMAIN Blank
        BY <3>2 DEF Staged
      <3>4. Amended(i, view.rows, r.v).op = i.op
        BY <3>3, BlankFields DEF Amended
      <3> QED  BY <3>1, <3>2, <3>4
    <2> QED  BY <2>1, <2>2 DEF StageField
  <1> QED  BY <1>1, ReplacedDraft

LEMMA EditDraftMinted ==
    ASSUME Inv, Review, Care, Framed, MintedAll, EditDraft, UNCHANGED change
    PROVE  MintedAll'
  <1>1. /\ DOMAIN draft = DraftFields /\ ~draft.consumed /\ net \in Networks
        /\ view' = view /\ change' = change
    BY DEF Inv, Waiting, Fixed, DraftFields, EditDraft, Open
  <1>2. change.phase = "none"
    BY <1>1 DEF Inv, TypeOK
  <1>3. /\ Schema(view.rows)
        /\ \A i \in draft.intents : Staged(i)
        /\ \A i \in draft.intents : i.op \notin FieldOps => Tailored(i) /\ Minted(i)
    BY <1>2 DEF Review, Lawful, Drafted, Before0, Care, Fashioned, MintedAll
  <1>4. \A r \in net.requests : Asked(r)
    BY <1>1, RequestAssumption DEF Asked, Request
  <1>5. IsFiniteSet(DOMAIN view.rows)
    <2>1. issued \in Nat /\ Identified(view.rows, issued)
      BY NativeAssumption DEF Inv, TypeOK, Ids
    <2> QED  BY <2>1, IdentifiedFinite
  <1>6. \A i \in draft'.intents : i.op \notin FieldOps => Minted(i)
    <2>1. CASE \E r \in net.requests : r.op \in FieldOps /\ StageField(r)
      BY <1>1, <1>3, <2>1, StageFieldMinted
    <2>2. CASE \E r \in net.requests : r.op \notin FieldOps /\ StageGraph(r)
      BY <1>1, <1>3, <1>4, <1>5, <2>2, StageGraphMinted
    <2>3. CASE \E r \in net.requests : RestageInternal(r)
      <3>1. PICK r \in net.requests : RestageInternal(r)
        BY <2>3
      <3>2. Single(draft.intents)
        BY DEF Inv, Waiting, Bundle
      <3>3. PICK i \in draft.intents : /\ i.op = "internal.create" /\ r.on \in Fresh(i)
                                       /\ draft'.intents = {[i EXCEPT !.to[r.on].cfg.vlan = r.v]}
        BY <1>1, <3>1, <3>2, RestageOne
      <3>4. i.op \notin FieldOps
        BY <3>3 DEF FieldOps, ListOps, TreeOps
      <3>5. DOMAIN i = DOMAIN Blank /\ Tailored(i) /\ Minted(i)
        BY <1>3, <3>4 DEF Staged
      <3>6. Minted([i EXCEPT !.to[r.on].cfg.vlan = r.v])
        BY <3>3, <3>5, RestageMinted
      <3> QED  BY <3>3, <3>6
    <2>4. CASE \E i \in draft.intents : Remove(i)
      <3>1. PICK i \in draft.intents : Replaced({i}, {})
        BY <2>4 DEF Remove
      <3> QED  BY <1>1, <1>3, <3>1, ReplacedDraft
    <2>5. CASE Discard
      <3>1. Replaced(draft.intents, {})
        BY <2>5 DEF Discard
      <3> QED  BY <1>1, <1>3, <3>1, ReplacedDraft
    <2>6. CASE \E keep \in SUBSET draft.intents : Rebase(keep)
      <3>1. PICK keep \in SUBSET draft.intents : Rebase(keep)
        BY <2>6
      <3> DEFINE q(i) == [op |-> i.op, key |-> i.key, v |-> i.after]
                 again(i) == FieldIntent(view.rows, q(i))
                 s == {again(i) : i \in keep}
      <3>2. Replaced(draft.intents, s)
        BY <3>1 DEF Rebase
      <3>3. ASSUME NEW i \in keep PROVE again(i).op \in FieldOps
        <4>1. i \in draft.intents /\ i.op \in FieldOps
          BY <3>1 DEF Rebase, Rebasable, FieldOps
        <4>2. again(i).op = q(i).op /\ q(i).op = i.op
          BY BlankFields DEF FieldIntent
        <4> QED  BY <4>1, <4>2
      <3> HIDE DEF again
      <3>4. \A j \in s : j.op \in FieldOps
        BY <3>3
      <3> HIDE DEF s
      <3>5. draft'.intents = (draft.intents \ draft.intents) \cup s
        BY <1>1, <3>2, ReplacedDraft
      <3> QED  BY <3>4, <3>5
    <2> QED  BY <2>1, <2>2, <2>3, <2>4, <2>5, <2>6 DEF EditDraft
  <1> QED  BY <1>1, <1>6 DEF MintedAll

LEMMA NextMinted == Inv /\ Review /\ Care /\ Framed /\ MintedAll /\ [Next]_changeVars => MintedAll'
  <1> SUFFICES ASSUME Inv, Review, Care, Framed, MintedAll, [Next]_changeVars PROVE MintedAll'
    OBVIOUS
  <1>1. Admit => change'.intents = draft.intents
    BY DEF Admit
  <1> QED  BY <1>1, IntentsKept, EditDraftMinted DEF MintedAll

-----------------------------------------------------------------------------
(* A transaction that was taken, and the rows that it left.                *)

\* What the rows were when the transaction of an intent was taken.
FieldTaken(i, g) == Agreeing(i, g) /\ Gate(i, g) /\ Granted(g, i.key)
LifecycleTaken(i, g) ==
    /\ DOMAIN i.dep = ParentScope(i, g)
    /\ LifecycleGate(i, g) /\ Fostered(i, g)
    /\ (Shadowed(i) \ DOMAIN i.from) \cap DOMAIN g = {}
    /\ i.op \in DeletionOps => \A k \in Doomed(i) : g[k].id = i.from[k].id
GraphTaken(i, g) ==
    /\ Fits(i, g) /\ Untied(i, g) /\ Image(g, DOMAIN i.dep) = i.dep /\ Met(i, g)
    /\ ~g[Root].ctl
    /\ i.op \in PathOps => g[Root].cfg.other = 0
    /\ i.op \in MirrorOps => Rest(g, Owns(i)) = i.rest
    /\ i.op \in LifecycleOps => LifecycleTaken(i, g)

\* A graph intent and the rows before and after it.
Carried(i, g, h) ==
    /\ Schema(g) /\ i.op \notin FieldOps /\ Staged(i) /\ Tailored(i) /\ Minted(i)
    /\ i.op \in DeletionOps => Fresh(i) = {}
    /\ GraphTaken(i, g) /\ Grafts(g, i, "go", h)
    /\ Doomed(i) \cap DOMAIN h = {} /\ Image(h, DOMAIN i.will) = i.will

LEMMA TakenSevers ==
    ASSUME NEW i, NEW g, Schema(g), i.op \notin FieldOps, Staged(i), Tailored(i), Minted(i), GraphTaken(i, g)
    PROVE  Severs(i, g)
  <1> SUFFICES ASSUME NEW x \in DOMAIN i.from \cap DOMAIN i.to, NEW k \in Doomed(i), k \in g[x].links
               PROVE  k \in i.from[x].links \ i.to[x].links
    BY DEF Severs
  <1>1. k \notin i.to[x].links
    BY DEF Minted, Severed, Cut, Doomed
  <1>2. CASE i.op \notin LifecycleOps
    <2>1. Image(g, DOMAIN i.was) = i.was
      BY <1>2 DEF GraphTaken, Met
    <2>2. g[x].links = i.from[x].links
      BY <1>2, <2>1 DEF Tailored
    <2> QED  BY <1>1, <2>2
  <1>3. CASE i.op \in LifecycleOps
    <2>1. Table(x) = "Bridge"
      BY <1>3 DEF Tailored, Parental
    <2>2. x \in Parents(i) /\ x \in DOMAIN g
      BY <2>1 DEF Parents, GraphTaken, Fits
    <2>3. Table(k) \in {"Port", "Mirror"}
      BY <2>1, <2>2, LinkTables DEF Schema
    <2>4. StagedLifecycle(i)
      BY <1>3 DEF Staged
    <2>5. Table(k) = "Port"
      BY <2>3, <2>4 DEF StagedLifecycle
    <2>6. k \in i.from[x].links
      BY <1>3, <2>2, <2>5 DEF Minted, Severed
    <2> QED  BY <1>1, <2>6
  <1> QED  BY <1>2, <1>3

LEMMA GraftCarried ==
    ASSUME NEW i, NEW g, Schema(g), i.op \notin FieldOps, Staged(i), Tailored(i), Minted(i), GraphTaken(i, g),
           Loose(i, g), i.op \in DeletionOps => Fresh(i) = {}
    PROVE  Carried(i, g, Grafted(g, i, "go"))
  <1> DEFINE h == Grafted(g, i, "go")
  <1>1. Woven(i.from, i.to) /\ Woven(i.to, i.from) /\ Fits(i, g) /\ Untied(i, g) /\ Met(i, g)
    BY DEF Tailored, Interwoven, GraphTaken
  <1>2. Grafts(g, i, "go", h)
    BY <1>1, GraftRows
  <1>3. Severs(i, g)
    BY TakenSevers
  <1>4. Image(h, DOMAIN i.will) = i.will
    BY <1>1 DEF Minted, Foretells
  <1> HIDE DEF h
  <1>5. Doomed(i) \cap DOMAIN h = {}
    BY <1>1, <1>2, <1>3, DoomedGone
  <1>6. Carried(i, g, h)
    BY <1>2, <1>4, <1>5 DEF Carried
  <1> QED  BY <1>6 DEF h

\* The rows that the intent does not own.
LEMMA OthersCarried ==
    ASSUME NEW i, NEW g, NEW h, Carried(i, g, h)
    PROVE  /\ DOMAIN h \ (Owns(i) \cup {Root}) = DOMAIN g \ (Owns(i) \cup {Root})
           /\ \A x \in DOMAIN g \ (Owns(i) \cup {Root}) :
                 /\ x \in DOMAIN h /\ h[x] = g[x]
                 /\ \A y \in g[x].links \cup g[x].refs : g[y].id = h[y].id
           /\ \A x \in DOMAIN h \ Fresh(i) : x \in DOMAIN g /\ h[x].id = g[x].id
           /\ Root \in DOMAIN h /\ Root \in DOMAIN g
  <1>1. /\ Schema(h) /\ DOMAIN h \subseteq DOMAIN g \cup Fresh(i)
        /\ (DOMAIN g \ Doomed(i)) \cup Fresh(i) \subseteq DOMAIN h
        /\ \A k \in DOMAIN h \ Fresh(i) : h[k].id = g[k].id
        /\ \A k \in DOMAIN g \ (Owns(i) \cup {Root}) : g[k].refs \cap Doomed(i) = {} => h[k] = g[k]
    BY DEF Carried, Grafts
  <1>2. Doomed(i) \subseteq Owns(i) /\ Fresh(i) \subseteq Owns(i) /\ Fresh(i) \cap DOMAIN g = {}
    BY DEF Doomed, Fresh, Owns, Carried, GraphTaken, Fits
  <1>3. \A x \in DOMAIN g \ (Owns(i) \cup {Root}) : x \in DOMAIN h /\ h[x] = g[x]
    BY <1>1, <1>2 DEF Carried, GraphTaken, Untied
  <1>4. ASSUME NEW x \in DOMAIN g \ (Owns(i) \cup {Root}), NEW y \in g[x].links \cup g[x].refs
        PROVE  g[y].id = h[y].id
    <2>1. y \in DOMAIN g
      BY TypedRow DEF Carried, Schema
    <2>2. y \in DOMAIN h
      BY <1>1, <1>3, TypedRow DEF Schema
    <2> QED  BY <1>1, <1>2, <2>1, <2>2
  <1>5. Root \in DOMAIN h /\ Root \in DOMAIN g
    BY <1>1 DEF Carried, Schema, Typed
  <1> QED  BY <1>1, <1>2, <1>3, <1>4, <1>5

LEMMA OthersCell ==
    ASSUME NEW i, NEW g, NEW h, Carried(i, g, h), NEW x \in DOMAIN g \ (Owns(i) \cup {Root}),
           NEW f, f \notin {"held", "heldall"}
    PROVE  Col(g, <<x, f>>) = Col(h, <<x, f>>)
  <1>1. /\ x \in DOMAIN h /\ g[x] = h[x] /\ x \in DOMAIN g
        /\ \A y \in g[x].links \cup g[x].refs : g[y].id = h[y].id
    BY OthersCarried
  <1> QED  BY <1>1, RowCell

LEMMA ConfigColumn ==
    ASSUME NEW k, IsKey(k), NEW c \in Config(k)
    PROVE  c = <<k, c[2]>> /\ c[2] \notin {"held", "heldall"}
  <1>1. c \in Whole(k)
    BY DEF Config
  <1>2. c = <<k, c[2]>> /\ c[2] \in {"id", "links", "refs"} \cup Labels \cup Fields(Table(k))
    BY <1>1 DEF Whole
  <1>3. "held" \notin Fields(Table(k)) /\ "heldall" \notin Fields(Table(k))
    BY FieldNames DEF CfgColumns
  <1> QED  BY <1>2, <1>3 DEF Labels

LEMMA RestCarried ==
    ASSUME NEW i, NEW g, NEW h, Carried(i, g, h)
    PROVE  Rest(h, Owns(i)) = Rest(g, Owns(i))
  <1> DEFINE o == Owns(i) \cup {Root}
             cells == UNION {Config(k) : k \in DOMAIN g \ o}
  <1>1. DOMAIN h \ o = DOMAIN g \ o
    BY OthersCarried
  <1>2. ASSUME NEW c \in cells PROVE Col(g, c) = Col(h, c)
    <2>1. PICK k \in DOMAIN g \ o : c \in Config(k)
      OBVIOUS
    <2>2. c = <<k, c[2]>> /\ c[2] \notin {"held", "heldall"}
      <3>1. IsKey(k)
        BY TypedRow DEF Carried, Schema
      <3> QED  BY <2>1, <3>1, ConfigColumn
    <2>3. PICK f : f = c[2]
      OBVIOUS
    <2>4. Col(g, <<k, f>>) = Col(h, <<k, f>>)
      BY <2>2, <2>3, OthersCell
    <2> QED  BY <2>2, <2>3, <2>4
  <1>3. Image(h, cells) = Image(g, cells)
    BY <1>2 DEF Image
  <1> QED  BY <1>1, <1>3 DEF Rest

\* The compensation of it.
LEMMA ReverseCarried ==
    ASSUME NEW i, NEW n, Proper(i, n)
    PROVE  LET j == Reverse(i) IN
           /\ j.op = i.op /\ j.gen = i.gen /\ j.dir = "back" /\ j.dep = i.dep /\ j.was = i.will
           /\ j.rest = i.rest /\ j.from = i.to /\ DOMAIN j.to = DOMAIN i.from
           /\ Fresh(j) = Doomed(i) /\ Owns(j) = Owns(i)
           /\ \A k \in Fresh(j) : j.to[k].id \in SpareIds(i)
           /\ i.op \in DeletionOps => j.old = i.old
  <1> SUFFICES ASSUME NEW j, j = Reverse(i)
               PROVE  /\ j.op = i.op /\ j.gen = i.gen /\ j.dir = "back" /\ j.dep = i.dep /\ j.was = i.will
                      /\ j.rest = i.rest /\ j.from = i.to /\ DOMAIN j.to = DOMAIN i.from
                      /\ Fresh(j) = Doomed(i) /\ Owns(j) = Owns(i)
                      /\ \A k \in Fresh(j) : j.to[k].id \in SpareIds(i)
                      /\ i.op \in DeletionOps => j.old = i.old
    OBVIOUS
  <1>1. DOMAIN i = DOMAIN Blank
    BY DEF Proper
  <1>2. /\ j.op = i.op /\ j.gen = i.gen /\ j.dir = "back" /\ j.dep = i.dep /\ j.was = i.will
        /\ j.rest = i.rest /\ j.from = i.to
        /\ j.to = Marked(Renewed(i.from, i.spare), Doomed(i), "back")
        /\ j.old = IF i.op \in DeletionOps THEN i.old ELSE {i.to[k].id : k \in Fresh(i)}
    BY <1>1, ReverseFields
  <1>3. DOMAIN j.to = DOMAIN i.from
    BY <1>2 DEF Marked, Renewed
  <1>4. Fresh(j) = Doomed(i) /\ NewIds(j) = SpareIds(i)
    BY ReverseInserts
  <1>5. \A k \in Fresh(j) : j.to[k].id \in NewIds(j)
    BY DEF NewIds
  <1>6. Owns(j) = Owns(i)
    BY <1>2, <1>3 DEF Owns
  <1> QED  BY <1>2, <1>3, <1>4, <1>5, <1>6

RowsCompensation(i, g, h, j) ==
    /\ Carried(i, g, h) /\ j = Reverse(i) /\ (\E n : Proper(i, n)) /\ i.gen = view.gen
    /\ SpareIds(i) \cap (Present(h) \cup view.gone) = {}

LEMMA RootCarried ==
    ASSUME NEW i, NEW g, NEW h, Carried(i, g, h)
    PROVE  /\ Root \in DOMAIN h /\ Root \in DOMAIN g /\ h[Root].id = g[Root].id /\ h[Root].ctl = g[Root].ctl
           /\ h[Root].cfg = g[Root].cfg /\ h[Root].mark = "go" /\ Schema(h) /\ ~h[Root].ctl
  <1>1. /\ h[Root].id = g[Root].id /\ h[Root].ctl = g[Root].ctl
        /\ h[Root].cfg = g[Root].cfg /\ h[Root].mark = "go" /\ Schema(h)
    BY DEF Carried, Grafts
  <1>2. ~g[Root].ctl
    BY DEF Carried, GraphTaken
  <1> QED  BY <1>1, <1>2, OthersCarried

LEMMA RowsUnmoved ==
    ASSUME NEW i, NEW g, NEW h, NEW j, RowsCompensation(i, g, h, j), i.op \notin LifecycleOps
    PROVE  Unmoved(j, h)
  <1>1. j.gen = i.gen /\ j.dep = i.dep /\ j.was = i.will
    BY ReverseCarried DEF RowsCompensation
  <1>2. i.gen = view.gen /\ Image(h, DOMAIN i.will) = i.will /\ Image(g, DOMAIN i.dep) = i.dep
    BY DEF RowsCompensation, Carried, GraphTaken
  <1>3. DOMAIN i.dep = Cells({Root}, {"id", "ctl", "other"})
    <2>1. i.op \notin FieldOps /\ Staged(i)
      BY DEF RowsCompensation, Carried
    <2>2. StagedRows(i)
      BY <2>1 DEF Staged
    <2> QED  BY <2>2 DEF StagedRows
  <1>4. Agree(g, h, DOMAIN i.dep)
    <2>1. /\ Root \in DOMAIN h /\ Root \in DOMAIN g /\ g[Root].id = h[Root].id /\ g[Root].ctl = h[Root].ctl
          /\ g[Root].cfg = h[Root].cfg
      BY RootCarried DEF RowsCompensation
    <2>2. Col(g, <<Root, "id">>) = Col(h, <<Root, "id">>)
      BY <2>1, SameLabel
    <2>3. Col(g, <<Root, "ctl">>) = Col(h, <<Root, "ctl">>)
      BY <2>1, SameLabel
    <2>4. Col(g, <<Root, "other">>) = Col(h, <<Root, "other">>)
      <3>1. "other" \in CfgColumns /\ g[Root].cfg["other"] = h[Root].cfg["other"]
        BY <2>1 DEF CfgColumns
      <3> QED  BY <2>1, <3>1, SameCfg
    <2>5. \A k \in {Root}, f \in {"id", "ctl", "other"} : Col(g, <<k, f>>) = Col(h, <<k, f>>)
      BY <2>2, <2>3, <2>4
    <2> QED  BY <1>3, <2>5, CellsAgree
  <1>5. Image(h, DOMAIN i.dep) = i.dep
    BY <1>2, <1>4, AgreeImage
  <1> QED  BY <1>1, <1>2, <1>5 DEF Unmoved

LEMMA RowsAvailable ==
    ASSUME NEW i, NEW g, NEW h, NEW j, RowsCompensation(i, g, h, j),
           i.op \in LifecycleOps => \A k \in Doomed(i) : NameFree(h, Name(k))
    PROVE  Available(j, h)
  <1>1. /\ j.op = i.op /\ j.dir = "back" /\ Fresh(j) = Doomed(i)
        /\ \A k \in Fresh(j) : j.to[k].id \in SpareIds(i)
    BY ReverseCarried DEF RowsCompensation
  <1>2. Doomed(i) \cap DOMAIN h = {} /\ SpareIds(i) \cap (Present(h) \cup view.gone) = {}
    BY DEF RowsCompensation, Carried
  <1>3. \A k \in Fresh(j) : Creatable(j, h, k)
    BY <1>1, <1>2 DEF Creatable
  <1> QED  BY <1>1, <1>3 DEF Available, Removed

LEMMA TopologyUndo ==
    ASSUME NEW i, NEW g, NEW h, NEW j, RowsCompensation(i, g, h, j), PlainOps(i.op)
    PROVE  Checks(j, h)
  <1>1. j.op = i.op /\ j.dir = "back"
    BY ReverseCarried DEF RowsCompensation
  <1>2. i.op \notin LifecycleOps
    BY DEF PlainOps
  <1>3. Unmoved(j, h) /\ Available(j, h)
    BY <1>2, RowsUnmoved, RowsAvailable
  <1>4. ~h[Root].ctl
    BY RootCarried DEF RowsCompensation
  <1>5. TopologyGate(j, h) /\ Entitled(j, h) /\ PlainOps(j.op)
    BY <1>1, <1>4 DEF TopologyGate, Entitled
  <1> QED  BY <1>3, <1>5, TopologyParts

LEMMA PathUndo ==
    ASSUME NEW i, NEW g, NEW h, NEW j, RowsCompensation(i, g, h, j), i.op \in PathOps,
           Rest(g, Owns(i)) = i.rest,
           i.op \in TunnelOps => TunnelFits(j, h), i.op \in MirrorOps => MirrorFits(j, h)
    PROVE  Checks(j, h)
  <1>1. j.op = i.op /\ j.dir = "back" /\ Owns(j) = Owns(i) /\ j.rest = i.rest
    BY ReverseCarried DEF RowsCompensation
  <1>2. i.op \notin LifecycleOps
    BY DEF PathOps, TunnelOps, MirrorOps, LifecycleOps
  <1>3. Unmoved(j, h) /\ Available(j, h)
    BY <1>2, RowsUnmoved, RowsAvailable
  <1>4. ~h[Root].ctl /\ h[Root].cfg.other = 0
    <2>1. g[Root].cfg.other = 0
      BY DEF RowsCompensation, Carried, GraphTaken
    <2> QED  BY <2>1, RootCarried DEF RowsCompensation
  <1>5. Rest(h, Owns(j)) = j.rest
    BY <1>1, RestCarried DEF RowsCompensation
  <1>6. PathGate(j, h) /\ Entitled(j, h)
    BY <1>1, <1>4 DEF PathGate, Entitled
  <1> QED  BY <1>1, <1>3, <1>5, <1>6, PathParts

LEMMA TunnelUndo ==
    ASSUME NEW i, NEW g, NEW h, NEW j, RowsCompensation(i, g, h, j), i.op \in TunnelOps, TunnelFits(j, g)
    PROVE  TunnelFits(j, h)
  <1> SUFFICES ASSUME NEW k \in DOMAIN j.to, Table(k) = "Interface", Tunnelled(j.to, k),
                      NEW v \in j.to[k].cfg.opts, NEW x \in Rows(h, "Interface") \ {k}, Tunnelled(h, x)
               PROVE  h[x].cfg.opts # {v}
    BY DEF TunnelFits, IdentityFree
  <1>1. DOMAIN j.to = DOMAIN i.from
    BY ReverseCarried DEF RowsCompensation
  <1>2. k \in Owns(i)
    BY <1>1 DEF Owns
  <1>3. Table(x) = "Interface" /\ x \in DOMAIN h /\ x # k
    BY DEF Rows
  <1>4. x \notin Owns(i)
    BY <1>2, <1>3 DEF RowsCompensation, Carried, Minted, Lone
  <1>5. x # Root
    BY <1>3 DEF Root, Table
  <1>6. x \in DOMAIN g /\ h[x] = g[x]
    BY <1>3, <1>4, <1>5, OthersCarried DEF RowsCompensation
  <1>7. IdentityFree(g, k, v)
    BY DEF TunnelFits
  <1> QED  BY <1>3, <1>6, <1>7 DEF IdentityFree, Rows, Tunnelled

LEMMA MirrorUndo ==
    ASSUME NEW i, NEW g, NEW h, NEW j, RowsCompensation(i, g, h, j), i.op \in MirrorOps, MirrorFits(j, g)
    PROVE  MirrorFits(j, h)
  <1> SUFFICES ASSUME NEW m \in DOMAIN j.to, Table(m) = "Mirror", NEW b \in DOMAIN j.to, Table(b) = "Bridge"
               PROVE  /\ b \in DOMAIN h /\ h[b].id = j.to[b].id
                      /\ j.to[m].refs \subseteq Ports(h, b)
                      /\ Local(b) \notin j.to[m].cfg.out
                      /\ \A o \in Mirrors(h, b) \ {m} :
                            /\ h[o].cfg.out \cap (j.to[m].refs \ j.to[m].cfg.out) = {}
                            /\ j.to[m].cfg.out \cap (h[o].refs \ h[o].cfg.out) = {}
    BY DEF MirrorFits
  <1>1. DOMAIN j.to = DOMAIN i.from
    BY ReverseCarried DEF RowsCompensation
  <1>2. /\ b \in DOMAIN g /\ g[b].id = j.to[b].id
        /\ j.to[m].refs \subseteq Ports(g, b)
        /\ Local(b) \notin j.to[m].cfg.out
        /\ \A o \in Mirrors(g, b) \ {m} :
              /\ g[o].cfg.out \cap (j.to[m].refs \ j.to[m].cfg.out) = {}
              /\ j.to[m].cfg.out \cap (g[o].refs \ g[o].cfg.out) = {}
    BY DEF MirrorFits
  <1>3. Carried(i, g, h)
    BY DEF RowsCompensation
  <1>4. b \in DOMAIN i.from \cap DOMAIN i.to
    <2>1. b \notin Doomed(i)
      BY <1>3 DEF Carried, Tailored
    <2> QED  BY <1>1, <2>1 DEF Doomed
  <1>5. /\ b \in DOMAIN h /\ h[b].id = g[b].id
        /\ h[b].links = Delta(g[b].links, i.from[b].links, i.to[b].links) /\ Schema(h)
    <2>1. b \notin Fresh(i) /\ b \notin Doomed(i)
      BY <1>4 DEF Fresh, Doomed
    <2>2. /\ (DOMAIN g \ Doomed(i)) \cup Fresh(i) \subseteq DOMAIN h
          /\ \A k \in DOMAIN h \ Fresh(i) : h[k].id = g[k].id
          /\ \A k \in DOMAIN i.from \cap DOMAIN i.to :
                h[k].links = Delta(g[k].links, i.from[k].links, i.to[k].links)
          /\ Schema(h)
      BY <1>3 DEF Carried, Grafts
    <2> QED  BY <1>2, <1>4, <2>1, <2>2
  <1>6. b \in Parents(i) /\ m \in Owns(i)
    BY <1>1, <1>4 DEF Parents, Owns
  <1>7. \A k \in (i.from[b].links \ i.to[b].links) \cup (i.to[b].links \ i.from[b].links) :
            k \in Owns(i) /\ Table(k) = "Mirror"
    BY <1>3, <1>6 DEF Carried, Minted, Lone
  <1>8. Ports(h, b) = Ports(g, b)
    BY <1>5, <1>7 DEF Ports, Delta
  <1>9. ASSUME NEW o \in Mirrors(h, b) \ {m} PROVE o \in Mirrors(g, b) /\ h[o] = g[o]
    <2>1. o \in h[b].links /\ o \notin Ports(h, b)
      BY DEF Mirrors
    <2>2. Table(o) = "Mirror" /\ o \in DOMAIN h
      BY <1>5, <2>1, LinkTables DEF Schema, Ports
    <2>3. o \notin Owns(i)
      BY <1>3, <1>6, <2>2 DEF Carried, Minted, Lone
    <2>4. o # Root
      BY <2>2 DEF Root, Table
    <2>5. h[o] = g[o]
      BY <1>3, <2>2, <2>3, <2>4, OthersCarried
    <2>6. o \in g[b].links
      BY <1>5, <1>7, <2>1, <2>3 DEF Delta
    <2> QED  BY <1>8, <2>1, <2>5, <2>6 DEF Mirrors
  <1> QED  BY <1>2, <1>5, <1>8, <1>9

-----------------------------------------------------------------------------
(* The same of bridges and internal ports that are created and deleted.    *)

LEMMA ParentCarried ==
    ASSUME NEW i, NEW g, NEW h, Carried(i, g, h), i.op \in InternalOps, NEW b \in Parents(i)
    PROVE  /\ b \in DOMAIN g /\ b \in DOMAIN h /\ Table(b) = "Bridge" /\ b \notin Doomed(i)
           /\ h[b].id = g[b].id /\ h[b].ctl = g[b].ctl /\ h[b].made = g[b].made /\ h[b].mark = g[b].mark
           /\ h[b].cfg = g[b].cfg /\ h[b].refs = {} /\ g[b].refs = {}
           /\ h[b].links = Delta(g[b].links, i.from[b].links, i.to[b].links)
           /\ i.from[b].links \ i.to[b].links \subseteq Doomed(i)
           /\ InternalParent(g, b)
           /\ Local(b) \in DOMAIN g \ (Owns(i) \cup {Root}) /\ InterfaceOf(b) \in DOMAIN g \ (Owns(i) \cup {Root})
           /\ g[Local(b)].links = {InterfaceOf(b)}
  <1>1. i.op \in LifecycleOps /\ i.op \in {"internal.create", "internal.delete"}
    BY DEF InternalOps, LifecycleOps
  <1>2. b \in DOMAIN i.from \cap DOMAIN i.to /\ Table(b) = "Bridge" /\ b \notin Fresh(i) /\ b \notin Doomed(i)
    BY DEF Parents, Fresh, Doomed
  <1>3. Staged(i)
    BY DEF Carried
  <1>4. StagedLifecycle(i) /\ LifecycleTaken(i, g)
    BY <1>1, <1>3 DEF Staged, Carried, GraphTaken
  <1>5. InternalParent(g, b)
    <2>1. b \in BridgesOf(i.to)
      BY <1>2 DEF BridgesOf
    <2> QED  BY <1>1, <1>4, <2>1 DEF LifecycleTaken, LifecycleGate
  <1>6. /\ Schema(g) /\ Schema(h) /\ (DOMAIN g \ Doomed(i)) \cup Fresh(i) \subseteq DOMAIN h
        /\ \A k \in DOMAIN h \ Fresh(i) : h[k].id = g[k].id
        /\ \A k \in DOMAIN i.from \cap DOMAIN i.to :
              /\ h[k].ctl = g[k].ctl /\ h[k].made = g[k].made /\ h[k].mark = g[k].mark
              /\ h[k].cfg = IF i.from[k].cfg = i.to[k].cfg THEN g[k].cfg ELSE i.to[k].cfg
              /\ h[k].links = Delta(g[k].links, i.from[k].links, i.to[k].links)
    BY DEF Carried, Grafts
  <1>7. b \in DOMAIN g /\ b \in DOMAIN h
    BY <1>2, <1>6 DEF Carried, GraphTaken, Fits
  <1>8. i.from[b].cfg = i.to[b].cfg /\ i.from[b].links \ i.to[b].links \subseteq Doomed(i)
    BY DEF Carried, Minted, Confined
  <1>9. h[b].refs = {} /\ g[b].refs = {}
    BY <1>2, <1>6, <1>7, NoRefs DEF Schema
  <1>10. Local(b) \in g[b].links /\ g[Local(b)].links = {InterfaceOf(b)}
    BY <1>5 DEF InternalParent, LocalInternal, Ports
  <1>11. Local(b) \in DOMAIN g
    BY <1>6, <1>7, <1>10, LinkTables DEF Schema
  <1>12. InterfaceOf(b) \in DOMAIN g
    BY <1>6, <1>10, <1>11, LinkTables DEF Schema
  <1>13. Local(b) \notin Doomed(i) /\ InterfaceOf(b) \notin Doomed(i)
    BY <1>4 DEF StagedLifecycle
  <1>14. Table(Local(b)) = "Port" /\ Table(InterfaceOf(b)) = "Interface"
    BY NamesOf DEF Local
  <1>15. \A k \in DOMAIN i.from \cap DOMAIN i.to : Table(k) = "Bridge"
    BY <1>1 DEF Carried, Tailored, Parental
  <1>16. Fresh(i) \cap DOMAIN g = {}
    BY DEF Carried, GraphTaken, Fits
  <1>17. Local(b) \notin Owns(i) /\ InterfaceOf(b) \notin Owns(i)
    BY <1>11, <1>12, <1>13, <1>14, <1>15, <1>16 DEF Owns, Doomed, Fresh
  <1>18. Local(b) # Root /\ InterfaceOf(b) # Root
    BY <1>14 DEF Root, Table
  <1> QED  BY <1>2, <1>5, <1>6, <1>7, <1>8, <1>9, <1>10, <1>11, <1>12, <1>17, <1>18

LEMMA ParentKept ==
    ASSUME NEW i, NEW g, NEW h, Carried(i, g, h), i.op \in InternalOps, NEW b \in Parents(i)
    PROVE  InternalParent(h, b)
  <1> DEFINE l == Local(b)
             x == InterfaceOf(b)
  <1>1. /\ b \in DOMAIN g /\ b \in DOMAIN h /\ Table(b) = "Bridge" /\ b \notin Doomed(i)
        /\ h[b].ctl = g[b].ctl /\ h[b].cfg = g[b].cfg
        /\ h[b].links = Delta(g[b].links, i.from[b].links, i.to[b].links)
        /\ i.from[b].links \ i.to[b].links \subseteq Doomed(i)
        /\ InternalParent(g, b)
        /\ l \in DOMAIN g \ (Owns(i) \cup {Root}) /\ x \in DOMAIN g \ (Owns(i) \cup {Root})
        /\ g[l].links = {x}
    BY ParentCarried
  <1>2. h[l] = g[l] /\ h[x] = g[x] /\ x \in DOMAIN h /\ l \in DOMAIN h
    BY <1>1, OthersCarried
  <1>3. b \in h[Root].links
    <2>1. h[Root].links = Delta(g[Root].links, {k \in Doomed(i) : Table(k) = "Bridge"},
                                {k \in Fresh(i) : Table(k) = "Bridge"})
      BY DEF Carried, Grafts
    <2>2. b \in g[Root].links
      BY <1>1 DEF InternalParent
    <2> QED  BY <1>1, <2>1, <2>2 DEF Delta
  <1>4. l \in Ports(h, b)
    <2>1. l \in g[b].links /\ Table(l) = "Port"
      BY <1>1 DEF InternalParent, LocalInternal, Ports
    <2>2. l \notin Doomed(i)
      BY <1>1 DEF Owns, Doomed
    <2> QED  BY <1>1, <2>1, <2>2 DEF Delta, Ports
  <1>5. g[x].cfg.type = "internal"
    <2>1. PICK y \in DOMAIN g : g[l].links = {y} /\ g[y].cfg.type = "internal"
      BY <1>1 DEF InternalParent, LocalInternal
    <2>2. y = x
      BY <1>1, <2>1
    <2> QED  BY <2>1, <2>2
  <1>6. LocalInternal(h, b)
    BY <1>1, <1>2, <1>4, <1>5 DEF LocalInternal
  <1>7. ~g[l].ctl /\ ~g[x].ctl /\ g[b].cfg.tree = 0 /\ ~g[b].ctl
    BY <1>1 DEF InternalParent, Free
  <1> QED  BY <1>1, <1>2, <1>3, <1>6, <1>7 DEF InternalParent, Free

LEMMA WholeColumn ==
    ASSUME NEW k, IsKey(k), NEW c \in Whole(k)
    PROVE  /\ c = <<k, c[2]>> /\ c[2] \notin {"held", "heldall", "ports"}
           /\ c[2] \in {"id", "links", "refs", "ctl", "made", "mark"} \/ c[2] \in Fields(Table(k))
  <1>1. c = <<k, c[2]>> /\ c[2] \in {"id", "links", "refs"} \cup Labels \cup Fields(Table(k))
    BY DEF Whole
  <1>2. "held" \notin Fields(Table(k)) /\ "heldall" \notin Fields(Table(k)) /\ "ports" \notin Fields(Table(k))
    BY FieldNames DEF CfgColumns
  <1> QED  BY <1>1, <1>2 DEF Labels

LEMMA ExactColumn ==
    ASSUME NEW ks, \A k \in ks : IsKey(k), NEW c \in Exact(ks)
    PROVE  \E k \in ks : c = <<k, c[2]>> /\ c[2] \notin {"held", "heldall"}
  <1>1. PICK k \in ks : c \in IF Table(k) = "Interface" THEN Cells({k}, {"id", "type", "opts"} \cup Labels)
                             ELSE Whole(k)
    BY DEF Exact
  <1>2. CASE Table(k) = "Interface"
    <2>1. c \in Cells({k}, {"id", "type", "opts"} \cup Labels)
      BY <1>1, <1>2
    <2> QED  BY <2>1 DEF Cells, Labels
  <1>3. CASE Table(k) # "Interface"
    <2>1. c \in Whole(k)
      BY <1>1, <1>3
    <2> QED  BY <2>1, WholeColumn
  <1> QED  BY <1>2, <1>3

LEMMA LifecycleDependencies ==
    ASSUME NEW i, NEW g, NEW h, Carried(i, g, h), i.op \in LifecycleOps
    PROVE  Image(h, DOMAIN i.dep) = i.dep
  <1>1. Staged(i) /\ Image(g, DOMAIN i.dep) = i.dep /\ LifecycleTaken(i, g)
    BY DEF Carried, GraphTaken
  <1>2. StagedLifecycle(i)
    BY <1>1 DEF Staged
  <1>3. DOMAIN i.dep = ParentScope(i, g)
    BY <1>1 DEF LifecycleTaken
  <1>4. ASSUME NEW c \in ParentScope(i, g) PROVE Col(g, c) = Col(h, c)
    <2>1. CASE c = <<Root, "id">>
      <3>1. Root \in DOMAIN g /\ Root \in DOMAIN h /\ g[Root].id = h[Root].id
        BY RootCarried
      <3>2. Col(g, <<Root, "id">>) = Col(h, <<Root, "id">>)
        BY <3>1, SameLabel
      <3> QED  BY <2>1, <3>2
    <2>2. CASE c # <<Root, "id">>
      <3>1. PICK b \in Parents(i) :
              c \in (Whole(b) \ {<<b, "links">>}) \cup Exact({Local(b)} \cup g[Local(b)].links)
        BY <2>2 DEF ParentScope
      <3>2. i.op \in InternalOps
        BY <1>2, <3>1 DEF StagedLifecycle, LifecycleOps, InternalOps
      <3>3. /\ b \in DOMAIN g /\ b \in DOMAIN h /\ Table(b) = "Bridge"
            /\ g[b].id = h[b].id /\ g[b].ctl = h[b].ctl /\ g[b].made = h[b].made /\ g[b].mark = h[b].mark
            /\ g[b].cfg = h[b].cfg /\ h[b].refs = {} /\ g[b].refs = {}
            /\ Local(b) \in DOMAIN g \ (Owns(i) \cup {Root}) /\ InterfaceOf(b) \in DOMAIN g \ (Owns(i) \cup {Root})
            /\ g[Local(b)].links = {InterfaceOf(b)}
        BY <3>2, ParentCarried
      <3>4. CASE c \in Whole(b) \ {<<b, "links">>}
        <4>1. IsKey(b)
          BY <3>3, TypedRow DEF Carried, Schema
        <4>2. /\ c = <<b, c[2]>>
              /\ c[2] \in {"id", "links", "refs", "ctl", "made", "mark"} \/ c[2] \in Fields(Table(b))
          BY <3>4, <4>1, WholeColumn
        <4>3. PICK f : f = c[2]
          OBVIOUS
        <4>4. c = <<b, f>> /\ f # "links"
          BY <3>4, <4>2, <4>3
        <4>5. CASE f \in {"id", "ctl", "made", "mark"}
          <5>1. g[b][f] = h[b][f]
            BY <3>3, <4>5
          <5>2. Col(g, <<b, f>>) = Col(h, <<b, f>>)
            <6>1. b \in DOMAIN g /\ b \in DOMAIN h
              BY <3>3
            <6> QED  BY <4>5, <5>1, <6>1 DEF Col, Value
          <5> QED  BY <4>4, <5>2
        <4>6. CASE f = "refs"
          <5>1. Value(g, b, "refs") = Pairs(g, {}) /\ Value(h, b, "refs") = Pairs(h, {})
            BY <3>3 DEF Value
          <5>2. Pairs(g, {}) = Pairs(h, {})
            BY DEF Pairs
          <5>3. Col(g, <<b, "refs">>) = Col(h, <<b, "refs">>)
            BY <3>3, <5>1, <5>2 DEF Col
          <5> QED  BY <4>4, <4>6, <5>3
        <4>7. CASE f \in Fields(Table(b))
          <5>1. f \in CfgColumns /\ g[b].cfg[f] = h[b].cfg[f]
            BY <3>3, <4>1, <4>7, FieldNames
          <5>2. Col(g, <<b, f>>) = Col(h, <<b, f>>)
            BY <3>3, <5>1, SameCfg
          <5> QED  BY <4>4, <5>2
        <4> QED  BY <4>2, <4>3, <4>4, <4>5, <4>6, <4>7
      <3>5. CASE c \in Exact({Local(b)} \cup g[Local(b)].links)
        <4> DEFINE ks == {Local(b)} \cup g[Local(b)].links
        <4>1. \A k \in ks : k \in DOMAIN g \ (Owns(i) \cup {Root})
          BY <3>3
        <4>2. \A k \in ks : IsKey(k)
          BY <4>1, TypedRow DEF Carried, Schema
        <4> HIDE DEF ks
        <4>3. PICK k \in ks : c = <<k, c[2]>> /\ c[2] \notin {"held", "heldall"}
          BY <3>5, <4>2, ExactColumn DEF ks
        <4>4. PICK f : f = c[2]
          OBVIOUS
        <4>5. Col(g, <<k, f>>) = Col(h, <<k, f>>)
          BY <4>1, <4>3, <4>4, OthersCell
        <4> QED  BY <4>3, <4>4, <4>5
      <3> QED  BY <3>1, <3>4, <3>5
    <2> QED  BY <2>1, <2>2
  <1>5. Agree(g, h, DOMAIN i.dep)
    BY <1>3, <1>4 DEF Agree
  <1> QED  BY <1>1, <1>5, AgreeImage

LEMMA DeletedNames ==
    ASSUME NEW i, NEW g, NEW h, Carried(i, g, h), i.op \in LifecycleOps, NEW k \in Doomed(i)
    PROVE  NameFree(h, Name(k))
  <1> SUFFICES ASSUME NEW x \in DOMAIN h, Table(x) \notin {"Root", "Mirror"}, Name(x) = Name(k) PROVE FALSE
    BY DEF NameFree
  <1>1. Staged(i) /\ LifecycleTaken(i, g)
    BY DEF Carried, GraphTaken
  <1>2. StagedLifecycle(i)
    BY <1>1 DEF Staged
  <1>3. i.op \in DeletionOps
    BY <1>2 DEF StagedLifecycle
  <1>4. IsKey(x)
    BY TypedRow DEF Carried, Grafts, Schema
  <1>5. x = <<Table(x), Name(k)>> /\ Table(x) \in {"Bridge", "Port", "Interface"}
    BY <1>4 DEF IsKey
  <1>6. x \in Doomed(i) \cup (Shadowed(i) \ DOMAIN i.from)
    BY <1>3, <1>5 DEF Carried, Minted, Entire
  <1>7. Fresh(i) = {} /\ Doomed(i) \cap DOMAIN h = {} /\ DOMAIN h \subseteq DOMAIN g \cup Fresh(i)
    BY <1>3 DEF Carried, Grafts
  <1>8. (Shadowed(i) \ DOMAIN i.from) \cap DOMAIN g = {}
    BY <1>1 DEF LifecycleTaken
  <1> QED  BY <1>6, <1>7, <1>8

LEMMA OldLost ==
    ASSUME NEW i, NEW g, NEW h, Carried(i, g, h), i.op \in DeletionOps, NEW n, Identified(g, n), NEW x \in i.old
    PROVE  x \notin Present(h) /\ x \in 1..n
  <1>1. i.op \in LifecycleOps
    BY DEF DeletionOps, LifecycleOps
  <1>2. PICK k \in Doomed(i) : i.from[k].id = x
    BY DEF Carried, Minted, Remembered
  <1>3. g[k].id = x
    BY <1>1, <1>2 DEF Carried, GraphTaken, LifecycleTaken
  <1>4. k \in DOMAIN g /\ k \notin DOMAIN h
    BY DEF Carried, GraphTaken, Fits, Doomed
  <1>5. Fresh(i) = {} /\ \A y \in DOMAIN h \ Fresh(i) : y \in DOMAIN g /\ h[y].id = g[y].id
    BY OthersCarried DEF Carried
  <1>6. ASSUME NEW y \in DOMAIN h, h[y].id = x PROVE FALSE
    <2>1. y \in DOMAIN g /\ g[y].id = g[k].id
      BY <1>3, <1>5, <1>6
    <2>2. y = k
      BY <1>4, <2>1 DEF Identified
    <2> QED  BY <1>4, <2>2
  <1>7. x \notin Present(h)
    BY <1>6 DEF Present
  <1>8. x \in 1..n
    BY <1>3, <1>4 DEF Identified
  <1> QED  BY <1>7, <1>8

LEMMA LifecycleUndo ==
    ASSUME NEW i, NEW g, NEW h, NEW j, RowsCompensation(i, g, h, j), i.op \in LifecycleOps,
           i.op \in DeletionOps => i.old \subseteq view.gone \ Present(h)
    PROVE  Checks(j, h)
  <1>1. /\ j.op = i.op /\ j.gen = i.gen /\ j.dep = i.dep /\ j.was = i.will /\ j.dir = "back"
        /\ DOMAIN j.to = DOMAIN i.from
        /\ i.op \in DeletionOps => j.old = i.old
    BY ReverseCarried DEF RowsCompensation
  <1>2. Carried(i, g, h) /\ i.gen = view.gen
    BY DEF RowsCompensation
  <1>3. Unmoved(j, h)
    <2>1. Image(h, DOMAIN i.dep) = i.dep
      BY <1>2, LifecycleDependencies
    <2>2. Image(h, DOMAIN i.will) = i.will
      BY <1>2 DEF Carried
    <2> QED  BY <1>1, <1>2, <2>1, <2>2 DEF Unmoved
  <1>4. Available(j, h)
    <2>1. \A k \in Doomed(i) : NameFree(h, Name(k))
      BY <1>2, DeletedNames
    <2> QED  BY <2>1, RowsAvailable
  <1>5. ASSUME i.op \in InternalOps, NEW b \in BridgesOf(j.to)
        PROVE  b \in Parents(i)
    <2>1. b \in BridgesOf(i.from)
      BY <1>1 DEF BridgesOf
    <2>2. b \in DOMAIN i.to
      BY <1>2, <1>5, <2>1 DEF Carried, Minted, Confined
    <2> QED  BY <2>1, <2>2 DEF BridgesOf, Parents
  <1>6. LifecycleGate(j, h)
    <2>1. ~h[Root].ctl
      BY <1>2, RootCarried
    <2>2. i.op \in InternalOps => \A b \in BridgesOf(j.to) : InternalParent(h, b)
      BY <1>2, <1>5, ParentKept
    <2> QED  BY <1>1, <2>1, <2>2 DEF LifecycleGate, InternalOps
  <1>7. Fostered(j, h)
    <2>1. ASSUME i.op \in InternalOps, NEW b \in BridgesOf(j.to) PROVE Granted(h, b)
      <3>1. b \in Parents(i)
        BY <1>5, <2>1
      <3>2. h[b].id = g[b].id
        BY <1>2, <2>1, <3>1, ParentCarried
      <3>3. b \in BridgesOf(i.to)
        BY <3>1 DEF Parents, BridgesOf
      <3>4. Fostered(i, g)
        BY <1>2 DEF Carried, GraphTaken, LifecycleTaken
      <3>5. Granted(g, b)
        BY <2>1, <3>3, <3>4 DEF Fostered, InternalOps
      <3> QED  BY <3>2, <3>5 DEF Granted
    <2> QED  BY <1>1, <2>1 DEF Fostered, InternalOps
  <1>8. i.op \in DeletionOps => Restorable(j, h)
    BY <1>1 DEF Restorable
  <1> QED  BY <1>1, <1>3, <1>4, <1>6, <1>7, <1>8, LifecycleParts

\* A graph intent that was taken can be taken back from the rows that it made.
LEMMA GraphUndo ==
    ASSUME NEW i, NEW g, NEW h, NEW j, RowsCompensation(i, g, h, j),
           i.op \in DeletionOps => i.old \subseteq view.gone \ Present(h),
           i.op \in MirrorOps => MirrorFits(j, g),
           i.op \in TunnelOps => TunnelFits(j, g) /\ Rest(g, Owns(i)) = i.rest
    PROVE  Checks(j, h) /\ Marker(i, h) = "go"
  <1>1. i.op \notin FieldOps
    BY DEF RowsCompensation, Carried
  <1>2. Marker(i, h) = "go"
    BY <1>1, RootCarried DEF Marker, RowsCompensation
  <1>3. CASE i.op \in LifecycleOps
    BY <1>2, <1>3, LifecycleUndo
  <1>4. CASE PlainOps(i.op)
    BY <1>2, <1>4, TopologyUndo
  <1>5. CASE i.op \in PathOps
    <2>1. Rest(g, Owns(i)) = i.rest
      BY <1>5 DEF PathOps, RowsCompensation, Carried, GraphTaken
    <2>2. i.op \in TunnelOps => TunnelFits(j, h)
      BY TunnelUndo
    <2>3. i.op \in MirrorOps => MirrorFits(j, h)
      BY MirrorUndo
    <2> QED  BY <1>2, <1>5, <2>1, <2>2, <2>3, PathUndo
  <1> QED  BY <1>1, <1>3, <1>4, <1>5 DEF PlainOps

-----------------------------------------------------------------------------
(* What a transaction that commits has found on the server.                *)

Taken(i, g) == IF i.op \in FieldOps THEN FieldTaken(i, g) ELSE GraphTaken(i, g)

\* What a transaction that commits has found on the server.
LEMMA CommittedField ==
    ASSUME NEW i, NEW g, Schema(g), Schema(db), i.op \in FieldOps, Staged(i),
           Agreeing(i, g), Gate(i, g), Holds(Wait(i, g)), Checks(i, view.rows)
    PROVE  FieldTaken(i, db)
  <1>1. StagedField(i)
    BY DEF Staged
  <1>2. Checks(i, db)
    BY <1>1, FieldCommitted
  <1>3. Agreeing(i, db) /\ Gate(i, db)
    BY <1>2, ChecksGate
  <1>4. Granted(db, i.key)
    <2>1. i.op \in ListOps \/ i.op = "mtu" \/ i.op = "police" \/ i.op \in RegionOps
      BY DEF FieldOps, ListOps, RegionOps, TreeOps
    <2> QED  BY <1>2, <2>1, ListParts, MtuParts, PolicingParts, RegionParts
  <1> QED  BY <1>3, <1>4 DEF FieldTaken

LEMMA CommittedRows ==
    ASSUME NEW i, NEW g, Schema(g), Schema(db), i.op \notin FieldOps \cup LifecycleOps, Staged(i), Tailored(i),
           Agreeing(i, g), Gate(i, g), Holds(Wait(i, g)), Checks(i, view.rows)
    PROVE  GraphTaken(i, db)
  <1>1. StagedRows(i) /\ i.dir = "go"
    BY DEF Staged
  <1>2. Fits(i, db) /\ Untied(i, db)
    BY TailoredForth, TransactionFits
  <1>3. i.op \in PathOps \/ PlainOps(i.op)
    BY DEF PlainOps
  <1>4. Unmoved(i, view.rows) /\ Available(i, view.rows) /\ Entitled(i, view.rows)
    BY <1>3, PathParts, TopologyParts
  <1>5. Wait(i, g) = GraphWait(i, g)
    BY DEF Wait
  <1>6. Holds(GraphWait(i, g))
    BY <1>5
  <1>7. Agreeing(i, db) /\ db[Root] = g[Root]
    BY <1>1, <1>4, <1>6, RowsCommitted
  <1>8. ~g[Root].ctl /\ (i.op \in PathOps => g[Root].cfg.other = 0)
    BY <1>3 DEF Gate, PathGate, TopologyGate, PlainOps
  <1>9. i.op \in MirrorOps => Rest(db, Owns(i)) = i.rest
    <2> SUFFICES ASSUME i.op \in MirrorOps PROVE Rest(db, Owns(i)) = i.rest
      OBVIOUS
    <2>1. Checks(i, db)
      BY <1>1, MirrorCommitted
    <2>2. i.op \in PathOps
      BY DEF PathOps
    <2> QED  BY <2>1, <2>2, PathParts
  <1>10. Image(db, DOMAIN i.dep) = i.dep /\ Met(i, db)
    BY <1>7 DEF Agreeing, Met
  <1> QED  BY <1>2, <1>7, <1>8, <1>9, <1>10 DEF GraphTaken

LEMMA CommittedLifecycle ==
    ASSUME NEW i, NEW g, Schema(g), Schema(db), i.op \in LifecycleOps, Staged(i), Tailored(i),
           SpareIds(i) \cap Present(db) = {},
           Agreeing(i, g), Gate(i, g), Holds(Wait(i, g)), Checks(i, view.rows)
    PROVE  GraphTaken(i, db)
  <1>1. StagedLifecycle(i) /\ i.dir = "go" /\ DOMAIN i = DOMAIN Blank
    BY DEF Staged
  <1>2. i.op \notin FieldOps /\ i.op \notin PathOps /\ i.op \notin MirrorOps
    BY DEF LifecycleOps, FieldOps, ListOps, TreeOps, PathOps, TunnelOps, MirrorOps
  <1>3. Fits(i, db) /\ Untied(i, db)
    BY <1>2, TailoredForth, TransactionFits
  <1>4. LifecycleGate(i, g)
    BY DEF Gate
  <1>5. /\ Image(db, DOMAIN i.dep) = i.dep
        /\ Image(db, DOMAIN Insisted(i, db).was) = Insisted(i, db).was
    BY <1>1, <1>4, LifecycleCaptured
  <1>6. Checks(Insisted(i, db), db)
    BY <1>1, LifecycleCommitted
  <1>7. PICK j : j = Insisted(i, db)
    OBVIOUS
  <1>8. /\ j.op = i.op /\ j.to = i.to
        /\ j.was = [c \in DOMAIN i.was |-> IF i.op \in DeletionOps /\ c[1] \in Doomed(i)
                                           THEN Col(i.from, c) ELSE i.was[c]]
    BY <1>1, <1>7, InsistedFields
  <1>9. LifecycleGate(j, db) /\ Fostered(j, db)
    BY <1>6, <1>7, <1>8, LifecycleParts
  <1>10. LifecycleGate(i, db) /\ Fostered(i, db)
    BY <1>8, <1>9 DEF LifecycleGate, Fostered
  <1>11. Met(i, db)
    <2> SUFFICES ASSUME NEW b \in Parents(i) PROVE Col(db, <<b, "ports">>) = i.was[<<b, "ports">>]
      BY DEF Met
    <2>1. <<b, "ports">> \in DOMAIN i.was
      BY <1>1 DEF StagedLifecycle, Cells
    <2>2. b \notin Doomed(i)
      BY DEF Parents, Doomed
    <2>3. j.was[<<b, "ports">>] = i.was[<<b, "ports">>] /\ <<b, "ports">> \in DOMAIN j.was
      BY <1>8, <2>1, <2>2
    <2>4. Image(db, DOMAIN j.was) = j.was
      BY <1>5, <1>7
    <2>5. Image(db, DOMAIN j.was)[<<b, "ports">>] = Col(db, <<b, "ports">>)
      BY <2>3 DEF Image
    <2> QED  BY <2>3, <2>4, <2>5
  <1>12. DOMAIN i.dep = ParentScope(i, db)
    <2>1. DOMAIN i.dep = ScopeOf(g, Parents(i))
      BY <1>1 DEF StagedLifecycle, ParentScope, ScopeOf
    <2>2. i.dep = Image(g, ScopeOf(g, Parents(i)))
      BY <2>1 DEF Agreeing
    <2>3. \A b \in Parents(i) : Local(b) \in DOMAIN g
      <3> SUFFICES ASSUME NEW b \in Parents(i) PROVE Local(b) \in DOMAIN g
        OBVIOUS
      <3>1. i.op \in {"internal.create", "internal.delete"} /\ BridgesOf(i.to) = Parents(i)
        BY <1>1 DEF StagedLifecycle, LifecycleOps
      <3>2. InternalParent(g, b)
        BY <1>4, <3>1 DEF LifecycleGate
      <3>3. b \in DOMAIN g /\ Local(b) \in g[b].links
        BY <3>2 DEF InternalParent, LocalInternal, Ports, Schema, Typed
      <3> QED  BY <3>3 DEF Schema, Typed
    <2>4. PICK bs : bs = Parents(i)
      OBVIOUS
    <2>5. DOMAIN i.dep = ScopeOf(db, bs)
      BY <1>5, <2>2, <2>3, <2>4, ParentCovered
    <2> QED  BY <2>4, <2>5 DEF ParentScope, ScopeOf
  <1>13. (Shadowed(i) \ DOMAIN i.from) \cap DOMAIN db = {}
    <2>1. CASE i.op \in {"internal.create", "internal.delete"}
      <3>1. Wait(i, g).keys = Fresh(i) \cup (Shadowed(i) \ DOMAIN i.from)
        BY <2>1, LifecycleWaitOf, InternalWaitFields
      <3> QED  BY <3>1 DEF Holds
    <2>2. CASE i.op \in {"bridge.create", "bridge.delete"}
      BY <1>1, <2>2 DEF StagedLifecycle, Shadowed
    <2> QED  BY <2>1, <2>2 DEF LifecycleOps
  <1>14. ASSUME NEW k \in Doomed(i) PROVE db[k].id = i.from[k].id
    <2>1. <<k, "id">> \in Exact(Doomed(i))
      BY ExactId
    <2>2. Col(db, <<k, "id">>) = Col(i.from, <<k, "id">>)
      BY <1>1, <2>1, DoomedSame
    <2>3. k \in DOMAIN i.from
      BY DEF Doomed
    <2> QED  BY <2>2, <2>3, IdCell
  <1>15. ~db[Root].ctl
    BY <1>10 DEF LifecycleGate
  <1>16. LifecycleTaken(i, db)
    BY <1>10, <1>12, <1>13, <1>14 DEF LifecycleTaken
  <1> QED  BY <1>2, <1>3, <1>5, <1>11, <1>15, <1>16 DEF GraphTaken

LEMMA CommittedTaken ==
    ASSUME NEW i, NEW g, Schema(g), Schema(db), Staged(i), i.op \notin FieldOps => Tailored(i),
           SpareIds(i) \cap Present(db) = {},
           Agreeing(i, g), Gate(i, g), Holds(Wait(i, g)), Checks(i, view.rows)
    PROVE  Taken(i, db) /\ i.gen = view.gen /\ Agreeing(i, view.rows)
  <1>1. Taken(i, db)
    <2>1. CASE i.op \in FieldOps
      BY <2>1, CommittedField DEF Taken
    <2>2. CASE i.op \in LifecycleOps /\ i.op \notin FieldOps
      BY <2>2, CommittedLifecycle DEF Taken
    <2>3. CASE i.op \notin FieldOps \cup LifecycleOps
      BY <2>3, CommittedRows DEF Taken
    <2> QED  BY <2>1, <2>2, <2>3
  <1>2. Unmoved(i, view.rows)
    <2>1. i.op \in ListOps \/ i.op = "mtu" \/ i.op = "police" \/ i.op \in RegionOps \/ i.op \in LifecycleOps
          \/ i.op \in PathOps \/ PlainOps(i.op)
      BY DEF FieldOps, ListOps, RegionOps, TreeOps, PlainOps
    <2> QED  BY <2>1, ListParts, MtuParts, PolicingParts, RegionParts, LifecycleParts, PathParts, TopologyParts
  <1> QED  BY <1>1, <1>2 DEF Unmoved, Agreeing

-----------------------------------------------------------------------------
(* The step that commits.                                                  *)

\* What stays true of a committed change as long as nobody interferes.
Intact ==
    /\ epoch = change.evidence.epoch /\ db[Root].id = change.evidence.root
    /\ reg.gen = change.evidence.gen /\ reg.state = "confirmed"
    /\ reg.evidence.root = change.evidence.root /\ reg.evidence.epoch = change.evidence.epoch
    /\ Schema(world) /\ Identified(world, issued) /\ db = Applied(world, change.intents, "go")
    /\ \A n \in Spares(change.intents) : reg.ids[n] = "pending"
    /\ \A i \in change.intents :
          /\ i.gen = change.evidence.gen /\ Taken(i, world)
          /\ i.op \in DeletionOps => \A n \in i.old : n \in Ids /\ reg.ids[n] \in {"active", "tombstone"}
Stood == change.phase \in Standing /\ done = change.at => Intact

LEMMA AppliedOne ==
    ASSUME NEW s, Single(s), NEW i \in s, i.op \notin FieldOps, NEW g, NEW m
    PROVE  s = {i} /\ Applied(g, s, m) = Grafted(g, i, m)
  <1>1. s = {i}
    BY DEF Single
  <1>2. (CHOOSE j \in s : TRUE) = i
    BY <1>1
  <1>3. ~(\A j \in s : j.op \in FieldOps)
    OBVIOUS
  <1> QED  BY <1>1, <1>2, <1>3 DEF Applied

LEMMA AppliedRoot ==
    ASSUME NEW s, Single(s), Formed(s), NEW g, Schema(g), NEW m,
           \A i \in s : i.op \notin FieldOps => Tailored(i) /\ Fits(i, g)
    PROVE  Applied(g, s, m)[Root].id = g[Root].id
  <1>0. Root \in DOMAIN g
    BY DEF Schema, Typed
  <1>1. CASE \A i \in s : i.op \in FieldOps
    <2>1. Apart(s)
      BY <1>1, FieldsApart DEF Formed
    <2>2. PICK h : h = FieldsWritten(g, s, m)
      OBVIOUS
    <2>3. Retouched(g, h, WrittenCells(s))
      BY <2>1, <2>2, FieldsRetouch
    <2>4. h[Root].id = g[Root].id
      BY <1>0, <2>3 DEF Retouched
    <2>5. Applied(g, s, m) = h
      BY <1>1, <2>2 DEF Applied
    <2> QED  BY <2>4, <2>5
  <1>2. CASE \E i \in s : i.op \notin FieldOps
    <2>1. PICK i \in s : i.op \notin FieldOps
      BY <1>2
    <2>2. Applied(g, s, m) = Grafted(g, i, m)
      BY <2>1, AppliedOne
    <2>3. Woven(i.from, i.to) /\ Woven(i.to, i.from) /\ Fits(i, g)
      BY <2>1 DEF Tailored, Interwoven
    <2>4. Grafts(g, i, m, Grafted(g, i, m))
      BY <2>3, GraftRows
    <2>5. PICK h : h = Grafted(g, i, m)
      OBVIOUS
    <2>6. Grafts(g, i, m, h)
      BY <2>4, <2>5
    <2>7. h[Root].id = g[Root].id
      BY <2>6 DEF Grafts
    <2> QED  BY <2>2, <2>5, <2>7
  <1> QED  BY <1>1, <1>2

\* A deletion is about rows of the view.
LEMMA OldRegistered ==
    ASSUME Inv, Usable, NEW i, i.op \in DeletionOps, Staged(i), Minted(i), Agreeing(i, view.rows), NEW n \in i.old
    PROVE  n \in Ids /\ reg.ids[n] = "active"
  <1>1. PICK k \in Doomed(i) : <<k, "id">> \in DOMAIN i.was /\ i.was[<<k, "id">>] = {n}
    BY DEF Minted, Remembered
  <1>2. Image(view.rows, DOMAIN i.was)[<<k, "id">>] = Col(view.rows, <<k, "id">>)
    BY <1>1 DEF Image
  <1>3. Col(view.rows, <<k, "id">>) = {n}
    BY <1>1, <1>2 DEF Agreeing
  <1>4. k \in DOMAIN view.rows /\ Value(view.rows, k, "id") = n
    BY <1>3 DEF Col
  <1>5. view.rows[k].id = n
    BY <1>4 DEF Value
  <1>6. i.op \in LifecycleOps
    BY DEF DeletionOps, LifecycleOps
  <1>7. StagedLifecycle(i)
    BY <1>6 DEF Staged
  <1>8. Table(k) \in {"Bridge", "Port", "Interface"}
    BY <1>7 DEF StagedLifecycle
  <1>9. k # Root
    BY <1>8 DEF Root, Table
  <1>10. n \in Present(view.rows)
    BY <1>4, <1>5, <1>9 DEF Present
  <1>11. n \in Ids
    <2>1. Identified(view.rows, issued) /\ issued \in Ids
      BY DEF Inv, TypeOK
    <2>2. n \in 1..issued
      BY <1>4, <1>5, <2>1 DEF Identified
    <2> QED  BY <2>1, <2>2, NativeAssumption DEF Ids
  <1> QED  BY <1>10, <1>11 DEF Inv, Registered, Usable

LEMMA CommitStood ==
    ASSUME Inv, Review, Care, Books, Framed, Anchored, MintedAll, Commit
    PROVE  Stood'
  <1> SUFFICES ASSUME change'.phase \in Standing, done' = change'.at PROVE Intact'
    BY DEF Stood
  <1>0. DOMAIN change = ChangeFields
    BY DEF Inv, Fixed, ChangeFields
  <1>1. /\ change.phase = "ready" /\ issued' = issued /\ epoch' = epoch /\ view' = view
        /\ reg' = Journalled(reg, change'.phase) /\ net' = net
    BY DEF Commit
  <1>2. /\ Sendable(change.intents) /\ \A w \in change.wait : Holds(w)
        /\ db' = Applied(db, change.intents, "go") /\ world' = db
        /\ change' = [change EXCEPT !.phase = "committed", !.wait = {}, !.at = done]
    <2>1. change' # [change EXCEPT !.phase = "refused", !.wait = {}]
      BY <1>0 DEF ChangeFields, Standing
    <2> QED  BY <2>1 DEF Commit
  <1>3. change'.phase = "committed" /\ change'.intents = change.intents /\ change'.evidence = change.evidence
    BY <1>0, <1>2 DEF ChangeFields
  <1>4. reg' = reg
    BY <1>1, <1>3 DEF Journalled, Settles
  <1>5. PICK g : /\ Schema(g) /\ g[Root].id = change.evidence.root
                 /\ change.intents # {} /\ change.wait = Compiled(change.intents, g)
                 /\ \A i \in change.intents : Agreeing(i, g) /\ Gate(i, g)
    BY <1>1 DEF Anchored
  <1>6. Schema(db) /\ Single(change.intents) /\ Formed(change.intents)
    BY <1>1 DEF Care, Lasting, Open0, Before0, Inv, Waiting, Bundle, Framed
  <1>7. Usable /\ SameServer /\ \A i \in change.intents : Checks(i, view.rows)
    BY <1>2 DEF Sendable
  <1>8. ASSUME NEW i \in change.intents
        PROVE  /\ Staged(i) /\ (i.op \notin FieldOps => Tailored(i) /\ Minted(i))
               /\ SpareIds(i) \cap Present(db) = {} /\ Holds(Wait(i, g))
    <2>1. SpareIds(i) \subseteq Spares(change.intents)
      BY DEF Spares
    <2>2. Spares(change.intents) \cap IdsOf(db) = {}
      BY <1>1 DEF Inv, Waiting, Unused
    <2>3. Present(db) \subseteq IdsOf(db)
      BY DEF Present, IdsOf
    <2>4. Holds(Wait(i, g))
      BY <1>2, <1>5 DEF Compiled
    <2> QED  BY <2>1, <2>2, <2>3, <2>4 DEF Review, Drafted, Care, Fashioned, MintedAll
  <1>9. ASSUME NEW i \in change.intents
        PROVE  Taken(i, db) /\ i.gen = view.gen /\ Agreeing(i, view.rows)
    BY <1>5, <1>6, <1>7, <1>8, CommittedTaken
  <1>10. db[Root].id = change.evidence.root
    <2>1. PICK i \in change.intents : TRUE
      BY <1>5
    <2> QED  BY <1>5, <1>6, <1>8, <2>1, WaitAnchors
  <1>11. db'[Root].id = db[Root].id
    <2>1. \A i \in change.intents : i.op \notin FieldOps => Tailored(i) /\ Fits(i, db)
      BY <1>8, <1>9 DEF Taken, GraphTaken
    <2>2. Applied(db, change.intents, "go")[Root].id = db[Root].id
      BY <1>6, <2>1, AppliedRoot
    <2> QED  BY <1>2, <2>2
  <1>12. /\ epoch = change.evidence.epoch /\ reg.gen = change.evidence.gen /\ reg.state = "confirmed"
         /\ reg.evidence.root = change.evidence.root /\ reg.evidence.epoch = change.evidence.epoch
    <2>1. epoch = change.evidence.epoch /\ view.gen = change.evidence.gen
      BY <1>7 DEF SameServer
    <2>2. reg.gen = change.evidence.gen
      BY <2>1 DEF Books, Served
    <2>3. reg.state = "confirmed"
      BY <1>7 DEF Usable, Inv, Registered
    <2> QED  BY <1>1, <2>1, <2>2, <2>3 DEF Books, Traced
  <1>13. \A n \in Spares(change.intents) : reg.ids[n] = "pending"
    BY <1>1, <1>12 DEF Books, Booked
  <1>14. Identified(db, issued)
    BY DEF Inv, TypeOK
  <1>15. ASSUME NEW i \in change.intents
         PROVE  /\ i.gen = change.evidence.gen
                /\ i.op \in DeletionOps => \A n \in i.old : n \in Ids /\ reg.ids[n] \in {"active", "tombstone"}
    <2>1. i.gen = change.evidence.gen
      BY <1>7, <1>9 DEF SameServer
    <2>2. ASSUME i.op \in DeletionOps, NEW n \in i.old PROVE n \in Ids /\ reg.ids[n] = "active"
      <3>1. i.op \notin FieldOps
        BY <2>2 DEF DeletionOps, FieldOps, ListOps, TreeOps
      <3> QED  BY <1>7, <1>8, <1>9, <2>2, <3>1, OldRegistered
    <2> QED  BY <2>1, <2>2
  <1>16. ASSUME NEW i \in change.intents PROVE Taken(i, world)'
    <2>1. Taken(i, db)
      BY <1>9
    <2> QED  BY <1>1, <1>2, <2>1 DEF Taken, FieldTaken, GraphTaken, LifecycleTaken, Fostered, Granted
  <1> QED
    BY <1>1, <1>2, <1>3, <1>4, <1>6, <1>10, <1>11, <1>12, <1>13, <1>14, <1>15, <1>16 DEF Intact

-----------------------------------------------------------------------------
(* The steps after it, as long as nobody interferes.                       *)

LEMMA TakenKept ==
    ASSUME NEW i, Taken(i, world), world' = world, net' = net, view'.gen = view.gen
    PROVE  Taken(i, world)'
  BY DEF Taken, FieldTaken, GraphTaken, LifecycleTaken, Fostered, Granted

LEMMA StoodKept ==
    ASSUME Stood, UNCHANGED nativeVars, change'.intents = change.intents, change'.evidence = change.evidence,
           change'.at = change.at, change'.phase \in Standing => change.phase \in Standing
    PROVE  Stood'
  <1> SUFFICES ASSUME change'.phase \in Standing, done' = change'.at PROVE Intact'
    BY DEF Stood
  <1>1. /\ net' = net /\ db' = db /\ world' = world /\ issued' = issued /\ epoch' = epoch /\ reg' = reg
        /\ view' = view /\ done' = done
    BY DEF nativeVars
  <1>2. Intact
    BY <1>1 DEF Stood
  <1>3. \A i \in change.intents : Taken(i, world)'
    BY <1>1, <1>2, TakenKept DEF Intact
  <1> QED  BY <1>1, <1>2, <1>3 DEF Intact

LEMMA BoundStays ==
    ASSUME NEW ids, NEW g, NEW n \in Ids
    PROVE  /\ ids[n] = "pending" /\ n \notin Present(g) => Bound(ids, g)[n] = "pending"
           /\ ids[n] \in {"active", "tombstone"} => Bound(ids, g)[n] \in {"active", "tombstone"}
  BY DEF Bound

LEMMA PublishStood ==
    ASSUME Inv, Books, Stood, Publish, UNCHANGED <<draft, change>>
    PROVE  Stood'
  <1> SUFFICES ASSUME change'.phase \in Standing, done' = change'.at PROVE Intact'
    BY DEF Stood
  <1>1. /\ change' = change /\ net' = net /\ db' = db /\ world' = world /\ issued' = issued
        /\ epoch' = epoch /\ done' = done
    BY Publication
  <1>2. Intact /\ change.phase \in Standing
    BY <1>1 DEF Stood
  <1>3. \/ reg' = reg /\ view'.gen = view.gen
        \/ /\ reg'.gen = reg.gen /\ reg'.state = "confirmed" /\ reg'.ids = Bound(reg.ids, db)
           /\ reg'.evidence.root = db[Root].id /\ reg'.evidence.epoch = epoch /\ view'.gen = reg'.gen
    <2>1. CASE reg' = reg /\ view' = [view EXCEPT !.ok = FALSE]
      BY <2>1 DEF Inv, Registered
    <2>2. CASE Observed
      <3>1. reg.state = "confirmed" /\ reg.evidence.root = db[Root].id /\ reg.evidence.epoch = epoch
        BY <1>2 DEF Intact
      <3>2. reg.gen \in Nat
        BY DEF Inv, TypeOK
      <3> QED  BY <2>2, <3>1, <3>2 DEF Observed
    <2> QED  BY <2>1, <2>2, Publication
  <1>4. view'.gen = view.gen /\ reg'.gen = reg.gen /\ reg'.state = "confirmed"
        /\ reg'.evidence.root = change.evidence.root /\ reg'.evidence.epoch = change.evidence.epoch
    <2>1. view.gen = reg.gen
      BY DEF Books, Served
    <2> QED  BY <1>2, <1>3, <2>1 DEF Intact
  <1>5. \A i \in change.intents : Taken(i, world)'
    BY <1>1, <1>2, <1>4, TakenKept DEF Intact
  <1>6. ASSUME NEW n \in Spares(change.intents) PROVE reg'.ids[n] = "pending"
    <2>1. reg.ids[n] = "pending"
      BY <1>2 DEF Intact
    <2>2. n \in Ids
      <3>1. \A i \in change.intents : SpareIds(i) \subseteq 1..issued
        BY DEF Inv, Waiting, Bundle, Proper
      <3>2. n \in 1..issued
        BY <3>1 DEF Spares
      <3>3. issued \in Ids
        BY DEF Inv, TypeOK
      <3> QED  BY <3>2, <3>3, NativeAssumption DEF Ids
    <2>3. n \notin Present(db)
      <3>1. Spares(change.intents) \cap IdsOf(db) = {}
        BY <1>2 DEF Inv, Waiting, Unused
      <3> QED  BY <3>1 DEF Present, IdsOf
    <2> QED  BY <1>3, <2>1, <2>2, <2>3, BoundStays
  <1>7. ASSUME NEW i \in change.intents, i.op \in DeletionOps, NEW n \in i.old
        PROVE  n \in Ids /\ reg'.ids[n] \in {"active", "tombstone"}
    <2>1. n \in Ids /\ reg.ids[n] \in {"active", "tombstone"}
      BY <1>2, <1>7 DEF Intact
    <2> QED  BY <1>3, <2>1, BoundStays
  <1> QED  BY <1>1, <1>2, <1>4, <1>5, <1>6, <1>7 DEF Intact

LEMMA InitStood == Init => Stood
  BY DEF Init, NoChange, Stood, Standing

Kept == Inv /\ Review /\ Care /\ Books /\ Framed /\ Anchored /\ MintedAll /\ Stood

LEMMA NextStood == Kept /\ [Next]_changeVars => Stood'
  <1> SUFFICES ASSUME Kept, [Next]_changeVars PROVE Stood'
    OBVIOUS
  <1>0. DOMAIN change = ChangeFields /\ Inv /\ Review /\ Care /\ Books /\ Framed /\ Anchored /\ MintedAll /\ Stood
    BY DEF Kept, Inv, Fixed, ChangeFields
  <1>1. CASE ForeignEdit /\ UNCHANGED <<draft, change>>
    <2>1. change' = change /\ (change.phase \in Standing => done' # change.at)
      BY <1>0, <1>1, ForeignEditBooks
    <2> QED  BY <2>1 DEF Stood
  <1>2. CASE Publish /\ UNCHANGED <<draft, change>>
    BY <1>0, <1>2, PublishStood
  <1>3. CASE Accept /\ UNCHANGED <<draft, change>>
    <2>1. change' = change /\ done' = done /\ reg.state = "required"
      BY <1>0, <1>3, Acceptance
    <2> QED  BY <1>0, <2>1 DEF Stood, Intact
  <1>4. CASE Break /\ UNCHANGED <<draft, change>>
    <2>1. change' = change /\ (change.phase \in Standing => done' # change.at)
      BY <1>0, <1>4, BreakBooks
    <2> QED  BY <2>1 DEF Stood
  <1>5. CASE EditDraft /\ UNCHANGED change
    <2>1. change' = change /\ ~draft.consumed
      BY <1>5 DEF EditDraft, Open
    <2>2. change.phase = "none"
      BY <1>0, <2>1 DEF Inv, TypeOK
    <2> QED  BY <2>1, <2>2 DEF Stood, Standing
  <1>6. CASE Admit
    BY <1>6 DEF Admit, Stood, Standing
  <1>7. CASE Commit
    BY <1>0, <1>7, CommitStood
  <1>8. CASE Confirm
    <2>1. change'.phase = "confirmed"
      BY <1>0, <1>8 DEF Confirm, ChangeFields
    <2> QED  BY <2>1 DEF Stood, Standing
  <1>9. CASE Withdraw
    <2>1. /\ UNCHANGED nativeVars /\ change.phase = "committed"
          /\ change' = [change EXCEPT !.phase = "undoing",
                                      !.wait = Compiled(Backwards(change.intents), view.rows)]
      BY <1>9 DEF Withdraw
    <2>2. change'.intents = change.intents /\ change'.evidence = change.evidence /\ change'.at = change.at
      BY <1>0, <2>1 DEF ChangeFields
    <2>3. change.phase \in Standing
      BY <2>1 DEF Standing
    <2> QED  BY <1>0, <2>1, <2>2, <2>3, StoodKept
  <1>10. CASE Undo
    <2>1. CASE change' = [change EXCEPT !.phase = "rolled", !.wait = {}]
      <3>1. change'.phase = "rolled"
        BY <1>0, <2>1 DEF ChangeFields
      <3> QED  BY <3>1 DEF Stood, Standing
    <2>2. CASE change' = [change EXCEPT !.phase = "committed", !.wait = {}] /\ UNCHANGED db
      <3>1. UNCHANGED nativeVars /\ change.phase = "undoing"
        BY <1>10, <2>2 DEF Undo, nativeVars
      <3>2. change'.intents = change.intents /\ change'.evidence = change.evidence /\ change'.at = change.at
        BY <1>0, <2>2 DEF ChangeFields
      <3>3. change.phase \in Standing
        BY <3>1 DEF Standing
      <3> QED  BY <1>0, <3>1, <3>2, <3>3, StoodKept
    <2> QED  BY <1>10, <2>1, <2>2 DEF Undo
  <1>11. CASE Restored
    <2>1. change'.phase = "undone"
      BY <1>0, <1>11 DEF Restored, ChangeFields
    <2> QED  BY <2>1 DEF Stood, Standing
  <1>12. CASE UNCHANGED changeVars
    <2>1. UNCHANGED nativeVars /\ change' = change
      BY <1>12 DEF changeVars
    <2> QED  BY <1>0, <2>1, StoodKept
  <1> QED
    BY <1>1, <1>2, <1>3, <1>4, <1>5, <1>6, <1>7, <1>8, <1>9, <1>10, <1>11, <1>12 DEF Next

LEMMA KeptInvariance == Spec => []Kept
  <1>1. Init => Kept
    BY InitInv, InitReview, InitCare, InitBooks, InitFramed, InitAnchored, InitMinted, InitStood DEF Kept
  <1>2. Kept /\ [Next]_changeVars => Kept'
    BY NextInv, NextReview, NextCare, NextBooks, NextFramed, NextAnchored, NextMinted, NextStood DEF Kept
  <1> QED  BY <1>1, <1>2, PTL DEF Spec

-----------------------------------------------------------------------------
(* The compensation passes its checks.                                     *)

\* A graph change that nobody interfered with.
LEMMA GraphReturns ==
    ASSUME Kept, Undisturbed, NEW i \in change.intents, i.op \notin FieldOps, ~Irreversible(i)
    PROVE  Checks(Reverse(i), db) /\ Marker(i, db) = "go"
  <1>0. Inv /\ Review /\ Care /\ Books /\ MintedAll /\ Stood
    BY DEF Kept
  <1>1. change.phase = "committed" /\ Usable /\ view.rows = db /\ done = change.at
    BY DEF Undisturbed
  <1>2. Intact
    BY <1>0, <1>1 DEF Stood, Standing
  <1>3. Bundle(change.intents, issued) /\ Proper(i, issued)
    BY <1>0 DEF Inv, Waiting, Bundle
  <1>4. db = Grafted(world, i, "go")
    <2>1. Single(change.intents)
      BY <1>3 DEF Bundle
    <2>2. Applied(world, change.intents, "go") = Grafted(world, i, "go")
      BY <2>1, AppliedOne
    <2> QED  BY <1>2, <2>2 DEF Intact
  <1>5. Schema(world) /\ Identified(world, issued) /\ GraphTaken(i, world)
    BY <1>2 DEF Intact, Taken
  <1>6. Staged(i) /\ Tailored(i) /\ Minted(i)
    BY <1>0 DEF Review, Drafted, Care, Fashioned, MintedAll
  <1>7. Loose(i, world)
    BY DEF Irreversible, Survives, Loose
  <1>8. i.op \in DeletionOps => Fresh(i) = {}
    BY <1>3 DEF Proper
  <1>9. Carried(i, world, db)
    BY <1>4, <1>5, <1>6, <1>7, <1>8, GraftCarried
  <1>10. i.gen = view.gen
    BY <1>0, <1>2 DEF Intact, Books, Served
  <1>11. view.gone = Gone(reg)
    BY <1>0, <1>1 DEF Inv, Registered, Usable, Going, Standing
  <1>12. SpareIds(i) \cap (Present(db) \cup view.gone) = {}
    <2>1. SpareIds(i) \subseteq Spares(change.intents)
      BY DEF Spares
    <2>2. Spares(change.intents) \cap IdsOf(db) = {}
      BY <1>0, <1>1 DEF Inv, Waiting, Unused, Standing
    <2>3. Present(db) \subseteq IdsOf(db)
      BY DEF Present, IdsOf
    <2>4. \A n \in Spares(change.intents) : n \notin view.gone
      BY <1>2, <1>11 DEF Intact, Gone
    <2> QED  BY <2>1, <2>2, <2>3, <2>4
  <1>13. PICK j : j = Reverse(i)
    OBVIOUS
  <1>14. RowsCompensation(i, world, db, j)
    BY <1>3, <1>9, <1>10, <1>12, <1>13 DEF RowsCompensation
  <1>15. i.op \in DeletionOps => i.old \subseteq view.gone \ Present(db)
    <2> SUFFICES ASSUME i.op \in DeletionOps, NEW n \in i.old PROVE n \in view.gone /\ n \notin Present(db)
      OBVIOUS
    <2>1. n \notin Present(db)
      BY <1>5, <1>9, OldLost
    <2>2. n \in Ids /\ reg.ids[n] \in {"active", "tombstone"}
      BY <1>2 DEF Intact
    <2>3. reg.ids[n] # "active"
      BY <1>0, <1>1, <2>1, <2>2 DEF Books, Served, Usable
    <2> QED  BY <1>11, <2>1, <2>2, <2>3 DEF Gone
  <1>16. i.op \in MirrorOps => MirrorFits(j, world)
    BY <1>13 DEF Irreversible, Clashed
  <1>17. i.op \in TunnelOps => TunnelFits(j, world) /\ Rest(world, Owns(i)) = i.rest
    BY <1>13 DEF Irreversible, Clashed, Overlooked
  <1>18. Checks(j, db) /\ Marker(i, db) = "go"
    BY <1>14, <1>15, <1>16, <1>17, GraphUndo
  <1> QED  BY <1>13, <1>18

LEMMA FieldReturns ==
    ASSUME Kept, Undisturbed, NEW i \in change.intents, i.op \in FieldOps, ~Irreversible(i)
    PROVE  Checks(Reverse(i), db) /\ Marker(i, db) = "go"
  <1>0. Inv /\ Review /\ Books /\ Framed /\ Stood
    BY DEF Kept
  <1>1. change.phase = "committed" /\ done = change.at
    BY DEF Undisturbed
  <1>2. Intact
    BY <1>0, <1>1 DEF Stood, Standing
  <1>3. Single(change.intents)
    BY <1>0 DEF Inv, Waiting, Bundle
  <1>4. \A j \in change.intents : j.op \in FieldOps
    BY <1>3 DEF Single
  <1>5. db = FieldsWritten(world, change.intents, "go")
    BY <1>2, <1>4 DEF Intact, Applied
  <1>6. Grouped(change.intents) /\ \A j \in change.intents : j.op \in FieldOps /\ Staged(j) /\ Steady(j)
    BY <1>0, <1>4 DEF Framed, Formed, Review, Drafted
  <1>7. Schema(world) /\ Agreeing(i, world) /\ Gate(i, world) /\ Granted(world, i.key)
    BY <1>2 DEF Intact, Taken, FieldTaken
  <1>8. i.gen = view.gen
    BY <1>0, <1>2 DEF Intact, Books, Served
  <1>9. ~DefaultMode(i)
    BY DEF Irreversible
  <1>10. LET h == FieldsWritten(world, change.intents, "go") IN Checks(Reverse(i), h) /\ Marker(i, h) = "go"
    BY <1>6, <1>7, <1>8, <1>9, FieldUndo
  <1> QED  BY <1>5, <1>10

LEMMA KeptAvailable == Kept => UndoAvailable
  <1> SUFFICES ASSUME Kept, Undisturbed, \A i \in change.intents : ~Irreversible(i) PROVE Withdrawable
    BY DEF UndoAvailable
  <1>1. change.phase = "committed" /\ Usable /\ view.rows = db /\ done = change.at
    BY DEF Undisturbed
  <1>2. Books /\ Intact
    BY <1>1 DEF Kept, Stood, Standing
  <1>3. SameServer /\ SameRoot
    BY <1>2 DEF Books, Served, Intact, SameServer, SameRoot
  <1>4. \A i \in change.intents : Checks(Reverse(i), db) /\ Marker(i, db) = "go"
    BY GraphReturns, FieldReturns
  <1> QED  BY <1>1, <1>3, <1>4 DEF Withdrawable

-----------------------------------------------------------------------------
(* Result.                                                                 *)

\* PrepareRollback finds a committed change as it was written, as long as
\* nobody interferes and the view shows it: no generation, root, identity,
\* captured cell, allow list or check of the reverse intent refuses it, for any
\* kind of change and any network, with the four exceptions of the property.
THEOREM CommittedIsReversible == Spec => []UndoAvailable
  BY KeptInvariance, KeptAvailable, PTL
=============================================================================
