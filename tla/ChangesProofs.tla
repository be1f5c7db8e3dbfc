---------------------------- MODULE ChangesProofs ----------------------------
(***************************************************************************)
(* Changes, for every network, every set of requests and of foreign edits  *)
(* and every number of faults: rows have different UUIDs, and a UUID that  *)
(* was given up never names a row again. Neither depends on the kinds of   *)
(* change, only on where their new UUIDs come from and when the manager    *)
(* gives up those it reserved.                                             *)
(***************************************************************************)
EXTENDS Changes, TLAPS

\* The UUIDs that an intent brings, for its rows and for a compensation.
NewIds(i) == {i.to[k].id : k \in Fresh(i)}
SpareIds(i) == {i.spare[k] : k \in DOMAIN i.spare}
Added(s) == UNION {NewIds(i) : i \in s}
Spares(s) == UNION {SpareIds(i) : i \in s}

\* The rows that an intent inserts have different UUIDs, among the first n.
Inserts(i, n) ==
    /\ \A k \in Fresh(i) : DOMAIN i.to[k] = Columns
    /\ NewIds(i) \subseteq 1..n
    /\ \A j, k \in Fresh(i) : i.to[j].id = i.to[k].id => j = k
    /\ i.op \in FieldOps => Fresh(i) = {}

\* A staged intent: so have the rows that its compensation inserts.
Proper(i, n) ==
    /\ DOMAIN i = DOMAIN Blank
    /\ Inserts(i, n)
    /\ DOMAIN i.spare = Doomed(i)
    /\ SpareIds(i) \subseteq 1..n
    /\ NewIds(i) \cap SpareIds(i) = {}
    /\ \A j, k \in Doomed(i) : i.spare[j] = i.spare[k] => j = k
    /\ i.op \in FieldOps => Doomed(i) = {}
    /\ i.op \in DeletionOps => Fresh(i) = {}

\* A transaction waits for the names of the rows it inserts to be free.
Fenced(s, waits) == \A i \in s : \E w \in waits : Fresh(i) \subseteq w.keys

\* A graph intent is alone.
Single(s) == \A i \in s : i.op \in FieldOps \/ s = {i}
Bundle(s, n) == Single(s) /\ \A i \in s : Proper(i, n)

\* UUIDs that name no row, now or in an earlier copy of the database.
Unused(ids, g, h) == ids \cap (IdsOf(g) \cup IdsOf(h)) = {}

Before0 == {"none", "ready"}
Standing == {"committed", "undoing"}
Going == Before0 \cup Standing \cup {"rolled"}

\* Reserved UUIDs wait for the transaction that uses them.
Waiting ==
    /\ DOMAIN draft = {"intents", "consumed", "picked"}
    /\ Bundle(draft.intents, issued)
    /\ ~draft.consumed => Unused(Added(draft.intents) \cup Spares(draft.intents), db, net.rows)
    /\ Bundle(change.intents, issued)
    /\ change.phase = "ready" =>
          /\ Unused(Added(change.intents) \cup Spares(change.intents), db, net.rows)
          /\ Fenced(change.intents, change.wait)
    /\ change.phase \in Standing => Unused(Spares(change.intents), db, net.rows)
    /\ change.phase = "undoing" => Fenced(Backwards(change.intents), change.wait)

\* Only the change under way has reservations.
Pending ==
    \A n \in Ids : reg.ids[n] = "pending" =>
        /\ change.phase \in Going \ {"none"}
        /\ n \in Added(change.intents) \cup Spares(change.intents)

\* The commit marker is on the root from the transaction on, not before.
Marks ==
    /\ net.rows[Root].mark \notin {"go", "back"}
    /\ change.phase \in Before0 =>
          /\ db[Root].mark \notin {"go", "back"}
          /\ view.rows[Root].mark \notin {"go", "back"}
    /\ change.phase \in Standing => db[Root].mark # "back" /\ view.rows[Root].mark # "back"

\* A view with the marker is younger than the transaction: what is left of
\* its rows on the server is in it.
Shown ==
    /\ change.phase \in Standing /\ epoch = change.evidence.epoch /\ view.rows[Root].mark = "go" =>
          Added(change.intents) \cap Present(db) \subseteq Present(view.rows)
    /\ change.phase = "rolled" /\ epoch = change.evidence.epoch /\ view.rows[Root].mark = "back" =>
          Spares(change.intents) \cap Present(db) \subseteq Present(view.rows)

\* What the registry knows, and that the view agrees with it.
Registered ==
    /\ DOMAIN reg = {"gen", "state", "ids", "made", "evidence"}
    /\ DOMAIN view = {"rows", "gen", "ok", "confirmed", "gone", "evidence"}
    /\ epoch \in Nat
    /\ reg.evidence.epoch \in 0..epoch /\ view.evidence.epoch \in 0..epoch
    /\ change.phase # "none" => change.evidence.epoch \in 0..epoch
    /\ reg.evidence.root \in 1..issued
    /\ \A n \in Ids : reg.ids[n] # "none" => n <= issued
    /\ view.ok => (view.confirmed <=> reg.state = "confirmed")
    /\ view.ok /\ view.confirmed => \A x \in Present(view.rows) : reg.ids[x] = "active"
    /\ view.ok /\ change.phase \in Going => view.gone = Gone(reg)

Fixed ==
    /\ net \in Networks /\ Identified(net.rows, issued)
    /\ DOMAIN change = {"phase", "intents", "wait", "evidence", "at"}

Inv == TypeOK /\ Fixed /\ Waiting /\ Pending /\ Marks /\ Shown /\ Registered /\ IdentityNeverReused

-----------------------------------------------------------------------------
(* Configurations and their UUIDs.                                         *)

\* h has rows of g, and rows with UUIDs of their own from a set of new ones.
Grown(g, h, new) ==
    /\ Root \in DOMAIN h
    /\ \A k \in DOMAIN h : /\ DOMAIN h[k] = Columns
                           /\ h[k].id \in new \/ (k \in DOMAIN g /\ h[k].id = g[k].id)
    /\ \A j, k \in DOMAIN h : h[j].id \in new /\ h[j].id = h[k].id => j = k

\* A configuration that grows by unused UUIDs keeps its rows apart.
LEMMA GrownApart ==
    ASSUME NEW g, NEW h, NEW new, NEW n \in Nat, NEW m \in Nat, n <= m,
           Identified(g, n), Grown(g, h, new), new \subseteq 1..m, new \cap IdsOf(g) = {}
    PROVE  /\ Identified(h, m)
           /\ IdsOf(h) \subseteq IdsOf(g) \cup new
           /\ Present(h) \subseteq Present(g) \cup new
<1>1. ASSUME NEW k \in DOMAIN h
      PROVE  /\ DOMAIN h[k] = Columns /\ h[k].id \in 1..m
             /\ h[k].id \in new \/ (k \in DOMAIN g /\ h[k].id = g[k].id /\ h[k].id \in IdsOf(g))
    <2>1. DOMAIN h[k] = Columns /\ (h[k].id \in new \/ (k \in DOMAIN g /\ h[k].id = g[k].id))
        BY DEF Grown
    <2>2. CASE h[k].id \in new
        BY <2>1, <2>2
    <2>3. CASE k \in DOMAIN g /\ h[k].id = g[k].id
        <3>1. g[k].id \in IdsOf(g)
            BY <2>3 DEF IdsOf
        <3>2. g[k].id \in 1..n
            BY <2>3 DEF Identified
        <3> QED
            BY <2>1, <2>3, <3>1, <3>2
    <2> QED
        BY <2>1, <2>2, <2>3
<1>2. ASSUME NEW j \in DOMAIN h, NEW k \in DOMAIN h, h[j].id = h[k].id
      PROVE  j = k
    <2>1. CASE h[j].id \in new
        BY <1>2, <2>1 DEF Grown
    <2>2. CASE h[j].id \notin new
        <3>1. h[j].id \in IdsOf(g) /\ h[k].id \in IdsOf(g) /\ h[k].id \notin new
            BY <1>1, <1>2, <2>2
        <3>2. j \in DOMAIN g /\ k \in DOMAIN g /\ g[j].id = g[k].id
            BY <1>1, <1>2, <2>2, <3>1
        <3> QED
            BY <3>2 DEF Identified
    <2> QED
        BY <2>1, <2>2
<1>3. Identified(h, m)
    BY <1>1, <1>2 DEF Grown, Identified
<1>4. IdsOf(h) \subseteq IdsOf(g) \cup new
    BY <1>1 DEF IdsOf
<1>5. Present(h) \subseteq Present(g) \cup new
    BY <1>1 DEF Present
<1> QED
    BY <1>3, <1>4, <1>5

\* Garbage collection keeps the root, and what it keeps keeps UUID and marker.
LEMMA SettleRows ==
    ASSUME NEW g, Root \in DOMAIN g, \A k \in DOMAIN g : DOMAIN g[k] = Columns
    PROVE  /\ DOMAIN Settle(g) \subseteq DOMAIN g /\ Root \in DOMAIN Settle(g)
           /\ \A k \in DOMAIN Settle(g) : /\ DOMAIN Settle(g)[k] = Columns
                                          /\ Settle(g)[k].id = g[k].id
                                          /\ Settle(g)[k].mark = g[k].mark
BY DEF Settle, Columns

LEMMA SettleGrown ==
    ASSUME NEW g, NEW h, NEW new, Grown(g, h, new)
    PROVE  Grown(g, Settle(h), new) /\ Settle(h)[Root].mark = h[Root].mark
<1>1. /\ DOMAIN Settle(h) \subseteq DOMAIN h /\ Root \in DOMAIN Settle(h)
      /\ \A k \in DOMAIN Settle(h) : /\ DOMAIN Settle(h)[k] = Columns
                                     /\ Settle(h)[k].id = h[k].id
                                     /\ Settle(h)[k].mark = h[k].mark
    BY SettleRows DEF Grown
<1> DEFINE s == Settle(h)
<1> HIDE DEF s
<1>2. /\ DOMAIN s \subseteq DOMAIN h /\ Root \in DOMAIN s
      /\ \A k \in DOMAIN s : DOMAIN s[k] = Columns /\ s[k].id = h[k].id /\ s[k].mark = h[k].mark
    BY <1>1 DEF s
<1>3. Grown(g, s, new) /\ s[Root].mark = h[Root].mark
    BY <1>2 DEF Grown
<1> QED
    BY <1>3 DEF s

\* The same rows with the same UUIDs, whatever else was written.
Like(g, h) ==
    /\ DOMAIN h = DOMAIN g
    /\ \A k \in DOMAIN g : DOMAIN h[k] = Columns /\ h[k].id = g[k].id

\* Rows to add, with new UUIDs of their own.
Inserted(s, new) ==
    /\ Root \notin DOMAIN s
    /\ \A k \in DOMAIN s : DOMAIN s[k] = Columns /\ s[k].id \in new
    /\ \A j, k \in DOMAIN s : s[j].id = s[k].id => j = k

\* Rows that are put beside others, or in their place, with new UUIDs.
LEMMA WithGrown ==
    ASSUME NEW g, NEW h, NEW s, NEW new, Root \in DOMAIN g, Like(g, h), Inserted(s, new),
           new \cap IdsOf(g) = {}
    PROVE  Grown(g, With(h, s), new) /\ With(h, s)[Root] = h[Root]
<1> DEFINE w == With(h, s)
<1>1. /\ DOMAIN w = DOMAIN g \cup DOMAIN s
      /\ \A k \in DOMAIN s : w[k] = s[k]
      /\ \A k \in DOMAIN g \ DOMAIN s : w[k] = h[k]
    BY DEF With, Like
<1> HIDE DEF w
<1>2. ASSUME NEW k \in DOMAIN w
      PROVE  /\ DOMAIN w[k] = Columns
             /\ \/ k \in DOMAIN s /\ w[k].id = s[k].id /\ w[k].id \in new
                \/ k \in DOMAIN g /\ w[k].id = g[k].id /\ w[k].id \notin new
    <2>1. CASE k \in DOMAIN s
        BY <1>1, <2>1 DEF Inserted
    <2>2. CASE k \notin DOMAIN s
        <3>1. k \in DOMAIN g /\ w[k] = h[k] /\ h[k].id = g[k].id /\ DOMAIN h[k] = Columns
            BY <1>1, <2>2 DEF Like
        <3>2. g[k].id \in IdsOf(g)
            BY <3>1 DEF IdsOf
        <3> QED
            BY <3>1, <3>2
    <2> QED
        BY <2>1, <2>2
<1>3. ASSUME NEW j \in DOMAIN w, NEW k \in DOMAIN w, w[j].id \in new, w[j].id = w[k].id
      PROVE  j = k
    <2>1. j \in DOMAIN s /\ k \in DOMAIN s /\ s[j].id = s[k].id
        BY <1>2, <1>3
    <2> QED
        BY <2>1 DEF Inserted
<1>4. Grown(g, w, new) /\ w[Root] = h[Root]
    BY <1>1, <1>2, <1>3 DEF Grown, Inserted
<1> QED
    BY <1>4 DEF w

LEMMA LikeGrown ==
    ASSUME NEW g, NEW h, NEW new, Root \in DOMAIN g, Like(g, h), new \cap IdsOf(g) = {}
    PROVE  Grown(g, h, new)
<1>1. ASSUME NEW k \in DOMAIN h
      PROVE  k \in DOMAIN g /\ DOMAIN h[k] = Columns /\ h[k].id = g[k].id /\ h[k].id \notin new
    <2>1. k \in DOMAIN g /\ DOMAIN h[k] = Columns /\ h[k].id = g[k].id
        BY DEF Like
    <2>2. g[k].id \in IdsOf(g)
        BY <2>1 DEF IdsOf
    <2> QED
        BY <2>1, <2>2
<1> QED
    BY <1>1 DEF Grown, Like

\* The rows of a new port.
LEMMA NewPortRows ==
    ASSUME NEW k, NEW n \in Nat, NEW type
    PROVE  Inserted(NewPort(k, n, type), {n, n + 1})
<1> DEFINE s == NewPort(k, n, type)
<1>1. /\ PortOf(k) # Root /\ InterfaceOf(k) # Root /\ PortOf(k) # InterfaceOf(k)
      /\ Table(PortOf(k)) = "Port" /\ Table(InterfaceOf(k)) # "Port"
    BY DEF PortOf, InterfaceOf, Root, Table
<1>2. /\ DOMAIN s = {PortOf(k), InterfaceOf(k)}
      /\ s[PortOf(k)] = Row(n, {InterfaceOf(k)}, PortCfg)
      /\ s[InterfaceOf(k)] = Row(n + 1, {}, InterfaceCfg(type))
    BY <1>1 DEF NewPort
<1>3. ASSUME NEW i, NEW l, NEW c
      PROVE  DOMAIN Row(i, l, c) = Columns /\ Row(i, l, c).id = i /\ Row(i, l, c).mark = None
    BY DEF Row, Columns
<1>4. /\ DOMAIN s[PortOf(k)] = Columns /\ s[PortOf(k)].id = n
      /\ DOMAIN s[InterfaceOf(k)] = Columns /\ s[InterfaceOf(k)].id = n + 1
    BY <1>2, <1>3
<1> HIDE DEF s
<1>5. Inserted(s, {n, n + 1})
    BY <1>1, <1>2, <1>4 DEF Inserted
<1> QED
    BY <1>5 DEF s

\* What a third party leaves: the root with its UUID, no marker of ours that
\* was not there, and new rows with the UUIDs handed out for them.
Stranger(g, h, new) ==
    /\ Grown(g, h, new)
    /\ h[Root].id = g[Root].id
    /\ h[Root].mark \in {g[Root].mark, None}

LEMMA RowColumns ==
    ASSUME NEW i, NEW l, NEW c
    PROVE  DOMAIN Row(i, l, c) = Columns /\ Row(i, l, c).id = i /\ Row(i, l, c).mark = None
BY DEF Row, Columns

LEMMA EditedStranger ==
    ASSUME NEW g, NEW n \in Nat, Identified(g, n), NEW m \in Nat, {m, m + 1} \cap IdsOf(g) = {},
           NEW e, e.op \in EditOps
    PROVE  Stranger(g, Edited(g, e, m), {m, m + 1})
<1> DEFINE k == e.key
           h == Edited(g, e, m)
           new == {m, m + 1}
<1>1. /\ Root \in DOMAIN g
      /\ \A j \in DOMAIN g : DOMAIN g[j] = Columns
      /\ {"id", "mark", "links", "cfg", "ctl", "refs"} \subseteq Columns
    BY DEF Identified, Columns
<1>2. ASSUME NEW f, Like(g, f), f[Root].mark \in {g[Root].mark, None}
      PROVE  Stranger(g, f, new)
    BY <1>1, <1>2, LikeGrown DEF Stranger, Like
<1>3. ASSUME NEW f, Like(g, f), f[Root].mark = g[Root].mark,
             NEW s, Inserted(s, new)
      PROVE  /\ Stranger(g, With(f, s), new)
             /\ Stranger(g, Settle(With(f, s)), new)
    <2>1. Grown(g, With(f, s), new) /\ With(f, s)[Root] = f[Root]
        BY <1>1, <1>3, WithGrown
    <2>2. f[Root].id = g[Root].id
        BY <1>1, <1>3 DEF Like
    <2>3. Grown(g, Settle(With(f, s)), new) /\ Settle(With(f, s))[Root].mark = f[Root].mark
        BY <2>1, SettleGrown
    <2>4. Settle(With(f, s))[Root].id = f[Root].id
        BY <2>1, SettleRows DEF Grown
    <2> QED
        BY <1>3, <2>1, <2>2, <2>3, <2>4 DEF Stranger
<1>4. Like(g, g)
    BY <1>1 DEF Like
<1>5. CASE k \notin DOMAIN g
    BY <1>2, <1>4, <1>5 DEF Edited
<1>6. CASE k \in DOMAIN g /\ e.op = "set"
    <2>1. h = [g EXCEPT ![k].cfg[e.f] = e.v]
        BY <1>6 DEF Edited
    <2>2. Like(g, h) /\ h[Root].mark = g[Root].mark
        BY <1>1, <1>6, <2>1 DEF Like
    <2> QED
        BY <1>2, <2>2
<1>7. CASE k \in DOMAIN g /\ e.op = "ctl"
    <2>1. h = [g EXCEPT ![k].ctl = TRUE]
        BY <1>7 DEF Edited
    <2>2. Like(g, h) /\ h[Root].mark = g[Root].mark
        BY <1>1, <1>7, <2>1 DEF Like
    <2> QED
        BY <1>2, <2>2
<1>8. CASE k \in DOMAIN g /\ e.op = "unmark"
    <2>1. h = [g EXCEPT ![k].mark = None]
        BY <1>8 DEF Edited
    <2>2. Like(g, h) /\ h[Root].mark \in {g[Root].mark, None}
        BY <1>1, <1>8, <2>1 DEF Like
    <2> QED
        BY <1>2, <2>2
<1>9. CASE k \in DOMAIN g /\ e.op = "drop"
    <2> DEFINE u == Unlinked(g, k)
    <2>1. h = Settle(u)
        BY <1>9 DEF Edited
    <2>2. Like(g, u) /\ u[Root].mark = g[Root].mark
        BY <1>1 DEF Like, Unlinked
    <2> HIDE DEF u
    <2>3. Grown(g, u, new) /\ u[Root].id = g[Root].id
        BY <1>1, <2>2, LikeGrown DEF Like
    <2>4. Grown(g, Settle(u), new) /\ Settle(u)[Root].mark = u[Root].mark
        BY <2>3, SettleGrown
    <2>5. Settle(u)[Root].id = u[Root].id
        BY <2>3, SettleRows DEF Grown
    <2> QED
        BY <2>1, <2>2, <2>3, <2>4, <2>5 DEF Stranger
<1>10. CASE k \in DOMAIN g /\ e.op = "again"
    <2> DEFINE s == NewPort(k, m, g[InterfaceOf(k)].cfg.type)
    <2>1. h = Settle(With(g, s))
        BY <1>10 DEF Edited
    <2>2. Inserted(s, new)
        BY NewPortRows
    <2> HIDE DEF s
    <2> QED
        BY <1>3, <1>4, <2>1, <2>2
<1>11. CASE k \in DOMAIN g /\ e.op = "port"
    <2> DEFINE s == NewPort(e.new, m, "system")
               f == [g EXCEPT ![k].links = @ \cup {PortOf(e.new)}]
    <2>1. h = g \/ h = With(f, s)
        BY <1>11 DEF Edited
    <2>2. Inserted(s, new)
        BY NewPortRows
    <2>3. Like(g, f) /\ f[Root].mark = g[Root].mark
        BY <1>1, <1>11 DEF Like
    <2> HIDE DEF s, f
    <2> QED
        BY <1>2, <1>3, <1>4, <2>1, <2>2, <2>3
<1>12. CASE k \in DOMAIN g /\ e.op = "share"
    <2> DEFINE f == [g EXCEPT ![e.to].links = @ \cup {k}]
    <2>1. h = g \/ (e.to \in DOMAIN g /\ h = f)
        BY <1>12 DEF Edited
    <2>2. e.to \in DOMAIN g => Like(g, f) /\ f[Root].mark = g[Root].mark
        BY <1>1 DEF Like
    <2> HIDE DEF f
    <2> QED
        BY <1>2, <1>4, <2>1, <2>2
<1>13. CASE k \in DOMAIN g /\ e.op = "mirror"
    <2> DEFINE f == [g EXCEPT ![k].links = @ \cup {e.new}]
               row == [Row(m, {}, [out |-> {}]) EXCEPT !.refs = {e.port}]
               s == [j \in {e.new} |-> row]
    <2>1. h = g \/ (e.new \notin DOMAIN g /\ h = With(f, s))
        BY <1>13 DEF Edited, Just
    <2>2. DOMAIN row = Columns /\ row.id = m
        BY RowColumns DEF Columns
    <2>3. Like(g, f) /\ f[Root].mark = g[Root].mark
        BY <1>1, <1>13 DEF Like
    <2> HIDE DEF row, f
    <2>4. e.new \notin DOMAIN g => Inserted(s, new)
        BY <1>1, <2>2 DEF Inserted
    <2> HIDE DEF s
    <2> QED
        BY <1>1, <1>2, <1>3, <1>4, <2>1, <2>3, <2>4
<1> QED
    BY <1>5, <1>6, <1>7, <1>8, <1>9, <1>10, <1>11, <1>12, <1>13 DEF EditOps

\* What one of our transactions writes.
Ours(g, h, new, marker) ==
    /\ Grown(g, h, new)
    /\ h[Root].id = g[Root].id
    /\ h[Root].mark \in {g[Root].mark, marker}
    /\ new # {} => h[Root].mark = marker

LEMMA GraftedOurs ==
    ASSUME NEW g, NEW n \in Nat, Identified(g, n), NEW i, NEW marker, Root \notin Fresh(i),
           \A k \in Fresh(i) : DOMAIN i.to[k] = Columns,
           \A j, k \in Fresh(i) : i.to[j].id = i.to[k].id => j = k,
           NewIds(i) \cap IdsOf(g) = {}
    PROVE  Ours(g, Grafted(g, i, marker), NewIds(i), marker)
<1> DEFINE old == {k \in Doomed(i) : Table(k) = "Bridge"}
           new == {k \in Fresh(i) : Table(k) = "Bridge"}
           row(k) == IF k = Root THEN [g[k] EXCEPT !.links = Delta(@, old, new), !.mark = marker]
                     ELSE IF k \in DOMAIN i.from \cap DOMAIN i.to
                          THEN Rewritten(g[k], i.from[k], i.to[k]) ELSE g[k]
           kept == [k \in DOMAIN g |-> row(k)]
           s == Sub(i.to, Fresh(i))
<1>1. /\ Root \in DOMAIN g
      /\ \A k \in DOMAIN g : DOMAIN g[k] = Columns
      /\ {"id", "mark", "links", "refs", "cfg"} \subseteq Columns
    BY DEF Identified, Columns
<1>2. ASSUME NEW x, DOMAIN x = Columns, NEW a, NEW b
      PROVE  DOMAIN Rewritten(x, a, b) = Columns /\ Rewritten(x, a, b).id = x.id
    BY <1>1, <1>2 DEF Rewritten
<1>4. Like(g, kept) /\ kept[Root].mark = marker
    <2>1. ASSUME NEW k \in DOMAIN g
          PROVE  /\ DOMAIN row(k) = Columns /\ row(k).id = g[k].id
                 /\ k = Root => row(k).mark = marker
        <3> DEFINE both == DOMAIN i.from \cap DOMAIN i.to
        <3>1. CASE k = Root
            <4>1. row(k) = [g[k] EXCEPT !.links = Delta(g[k].links, old, new), !.mark = marker]
                BY <3>1
            <4> HIDE DEF row
            <4>2. DOMAIN g[k] = Columns /\ {"id", "mark", "links"} \subseteq Columns
                BY <1>1
            <4> QED
                BY <4>1, <4>2
        <3>2. CASE k # Root /\ k \in both
            <4>1. row(k) = Rewritten(g[k], i.from[k], i.to[k])
                BY <3>2
            <4> QED
                BY <1>1, <1>2, <3>2, <4>1
        <3>3. CASE k # Root /\ k \notin both
            <4>1. row(k) = g[k]
                BY <3>3
            <4> QED
                BY <1>1, <3>3, <4>1
        <3> QED
            BY <3>1, <3>2, <3>3
    <2> HIDE DEF row
    <2>2. \A k \in DOMAIN g : kept[k] = row(k)
        OBVIOUS
    <2>3. kept[Root].mark = marker
        BY <1>1, <2>1, <2>2
    <2>4. DOMAIN kept = DOMAIN g
        OBVIOUS
    <2> HIDE DEF kept
    <2> QED
        BY <2>1, <2>2, <2>3, <2>4 DEF Like
<1>5. Inserted(s, NewIds(i))
    <2>1. DOMAIN s = Fresh(i) /\ \A k \in Fresh(i) : s[k] = i.to[k]
        BY DEF Sub
    <2>2. \A k \in Fresh(i) : i.to[k].id \in NewIds(i)
        BY DEF NewIds
    <2> HIDE DEF s
    <2> QED
        BY <2>1, <2>2 DEF Inserted
<1>6. Grafted(g, i, marker) = Settle(With(kept, s))
    BY DEF Grafted
<1> HIDE DEF kept, s
<1>7. Grown(g, With(kept, s), NewIds(i)) /\ With(kept, s)[Root] = kept[Root]
    BY <1>1, <1>4, <1>5, WithGrown
<1>8. /\ Grown(g, Settle(With(kept, s)), NewIds(i))
      /\ Settle(With(kept, s))[Root].mark = With(kept, s)[Root].mark
    BY <1>7, SettleGrown
<1>9. Settle(With(kept, s))[Root].id = With(kept, s)[Root].id
    BY <1>7, SettleRows DEF Grown
<1>10. kept[Root].id = g[Root].id
    BY <1>1, <1>4 DEF Like
<1> QED
    BY <1>4, <1>6, <1>7, <1>8, <1>9, <1>10 DEF Ours

LEMMA FieldsOurs ==
    ASSUME NEW g, NEW n \in Nat, Identified(g, n), NEW s, NEW marker
    PROVE  Ours(g, FieldsWritten(g, s, marker), {}, marker)
<1> DEFINE h == FieldsWritten(g, s, marker)
<1>1. Root \in DOMAIN g /\ \A k \in DOMAIN g : DOMAIN g[k] = Columns
    BY DEF Identified
<1>2. ASSUME NEW row, DOMAIN row = Columns, NEW i
      PROVE  /\ DOMAIN FieldWritten(row, i, marker) = Columns
             /\ FieldWritten(row, i, marker).id = row.id
             /\ FieldWritten(row, i, marker).mark = marker
    BY <1>2 DEF FieldWritten, Columns
<1>3. Like(g, h) /\ h[Root].mark \in {g[Root].mark, marker}
    BY <1>1, <1>2 DEF FieldsWritten, Like
<1> HIDE DEF h
<1>4. Grown(g, h, {})
    BY <1>1, <1>3, LikeGrown
<1>5. h[Root].id = g[Root].id
    BY <1>1, <1>3 DEF Like
<1>6. Ours(g, h, {}, marker)
    BY <1>3, <1>4, <1>5 DEF Ours
<1> QED
    BY <1>6 DEF h

\* Either kind of transaction.
LEMMA AppliedOurs ==
    ASSUME NEW g, NEW n \in Nat, Identified(g, n), NEW s, NEW m, NEW marker,
           Single(s), \A i \in s : Inserts(i, m) /\ Root \notin Fresh(i),
           Added(s) \cap IdsOf(g) = {}
    PROVE  Ours(g, Applied(g, s, marker), Added(s), marker)
<1>1. CASE \A i \in s : i.op \in FieldOps
    <2>1. \A i \in s : NewIds(i) = {}
        BY <1>1 DEF Inserts, NewIds
    <2>2. Added(s) = {}
        BY <2>1 DEF Added
    <2>3. Applied(g, s, marker) = FieldsWritten(g, s, marker)
        BY <1>1 DEF Applied
    <2> QED
        BY <2>2, <2>3, FieldsOurs
<1>2. CASE ~ \A i \in s : i.op \in FieldOps
    <2>1. PICK i \in s : i.op \notin FieldOps
        BY <1>2
    <2>2. s = {i}
        BY <2>1 DEF Single
    <2>3. (CHOOSE j \in s : TRUE) = i
        BY <2>2
    <2>4. Applied(g, s, marker) = Grafted(g, i, marker)
        BY <1>2, <2>3 DEF Applied
    <2>5. Added(s) = NewIds(i)
        BY <2>2 DEF Added
    <2>6. /\ \A k \in Fresh(i) : DOMAIN i.to[k] = Columns
          /\ \A j, k \in Fresh(i) : i.to[j].id = i.to[k].id => j = k
          /\ Root \notin Fresh(i) /\ NewIds(i) \cap IdsOf(g) = {}
        BY <2>1, <2>5 DEF Inserts
    <2> QED
        BY <2>4, <2>5, <2>6, GraftedOurs
<1> QED
    BY <1>1, <1>2

\* The rows under other UUIDs.
LEMMA RenewedGrown ==
    ASSUME NEW g, NEW n \in Nat, Identified(g, n), NEW ids, NEW new, new \cap IdsOf(g) = {},
           DOMAIN ids \subseteq DOMAIN g,
           \A k \in DOMAIN ids : ids[k] \in new,
           \A j, k \in DOMAIN ids : ids[j] = ids[k] => j = k
    PROVE  /\ Grown(g, Renewed(g, ids), new)
           /\ Renewed(g, ids)[Root].mark = g[Root].mark
           /\ Root \in DOMAIN ids => Renewed(g, ids)[Root].id = ids[Root]
           /\ DOMAIN ids = {Root} => Present(Renewed(g, ids)) = Present(g)
<1> DEFINE h == Renewed(g, ids)
<1>1. Root \in DOMAIN g /\ \A k \in DOMAIN g : DOMAIN g[k] = Columns
    BY DEF Identified
<1>2. ASSUME NEW row, NEW x
      PROVE  DOMAIN Under(row, x) = Columns /\ Under(row, x).id = x /\ Under(row, x).mark = row.mark
    BY DEF Under, Columns
<1>3. /\ DOMAIN h = DOMAIN g
      /\ \A k \in DOMAIN ids : h[k] = Under(g[k], ids[k])
      /\ \A k \in DOMAIN g \ DOMAIN ids : h[k] = g[k]
    BY DEF Renewed
<1> HIDE DEF h
<1>4. ASSUME NEW k \in DOMAIN h
      PROVE  /\ DOMAIN h[k] = Columns /\ h[k].mark = g[k].mark
             /\ \/ k \in DOMAIN ids /\ h[k].id = ids[k] /\ h[k].id \in new
                \/ k \notin DOMAIN ids /\ h[k].id = g[k].id /\ h[k].id \notin new
    <2>1. CASE k \in DOMAIN ids
        BY <1>2, <1>3, <2>1
    <2>2. CASE k \notin DOMAIN ids
        <3>1. k \in DOMAIN g /\ h[k] = g[k]
            BY <1>3, <2>2
        <3>2. g[k].id \in IdsOf(g)
            BY <3>1 DEF IdsOf
        <3> QED
            BY <1>1, <2>2, <3>1, <3>2
    <2> QED
        BY <2>1, <2>2
<1>5. Grown(g, h, new)
    BY <1>1, <1>3, <1>4 DEF Grown
<1>6. h[Root].mark = g[Root].mark /\ (Root \in DOMAIN ids => h[Root].id = ids[Root])
    BY <1>1, <1>3, <1>4
<1>7. DOMAIN ids = {Root} => Present(h) = Present(g)
    BY <1>3, <1>4 DEF Present
<1> QED
    BY <1>5, <1>6, <1>7 DEF h

-----------------------------------------------------------------------------
(* Intents and their UUIDs.                                                *)

LEMMA BlankFields ==
    /\ {"op", "key", "id", "gen", "dir", "f", "before", "after", "ctx"} \subseteq DOMAIN Blank
    /\ {"from", "to", "spare", "old", "dep", "was", "will", "again", "rest"} \subseteq DOMAIN Blank
    /\ Blank.from = <<>> /\ Blank.to = <<>> /\ Blank.spare = <<>>
BY DEF Blank

LEMMA SameRowsProper ==
    ASSUME NEW i, NEW j, NEW n, Proper(i, n), DOMAIN j = DOMAIN Blank, j.op = i.op,
           j.from = i.from, j.to = i.to, j.spare = i.spare
    PROVE  Proper(j, n) /\ NewIds(j) = NewIds(i) /\ SpareIds(j) = SpareIds(i)
<1>1. Fresh(j) = Fresh(i) /\ Doomed(j) = Doomed(i)
    BY DEF Fresh, Doomed
<1>2. NewIds(j) = NewIds(i) /\ SpareIds(j) = SpareIds(i)
    BY <1>1 DEF NewIds, SpareIds
<1> QED
    BY <1>1, <1>2 DEF Proper, Inserts

\* An intent that only names columns picks no UUID.
LEMMA BareProper ==
    ASSUME NEW i, NEW n, DOMAIN i = DOMAIN Blank, i.from = <<>>, i.to = <<>>, i.spare = <<>>
    PROVE  Proper(i, n) /\ NewIds(i) = {} /\ SpareIds(i) = {}
<1>1. Fresh(i) = {} /\ Doomed(i) = {} /\ DOMAIN i.spare = {}
    BY DEF Fresh, Doomed
<1>2. NewIds(i) = {} /\ SpareIds(i) = {}
    BY <1>1 DEF NewIds, SpareIds
<1> QED
    BY <1>1, <1>2 DEF Proper, Inserts

LEMMA FieldIntentProper ==
    ASSUME NEW g, NEW r, NEW n
    PROVE  /\ Proper(FieldIntent(g, r), n) /\ FieldIntent(g, r).op = r.op
           /\ NewIds(FieldIntent(g, r)) = {} /\ SpareIds(FieldIntent(g, r)) = {}
<1> DEFINE i == FieldIntent(g, r)
<1>1. /\ DOMAIN i = DOMAIN Blank
      /\ i.from = Blank.from /\ i.to = Blank.to /\ i.spare = Blank.spare /\ i.op = r.op
    BY BlankFields DEF FieldIntent
<1> HIDE DEF i
<1>2. Proper(i, n) /\ NewIds(i) = {} /\ SpareIds(i) = {}
    BY <1>1, BlankFields, BareProper
<1> QED
    BY <1>1, <1>2 DEF i

LEMMA AmendedProper ==
    ASSUME NEW g, NEW v, NEW i, NEW n, Proper(i, n)
    PROVE  /\ Proper(Amended(i, g, v), n) /\ Amended(i, g, v).op = i.op
           /\ NewIds(Amended(i, g, v)) = NewIds(i) /\ SpareIds(Amended(i, g, v)) = SpareIds(i)
<1> DEFINE j == Amended(i, g, v)
<1>1. DOMAIN i = DOMAIN Blank
    BY DEF Proper
<1>2. /\ DOMAIN j = DOMAIN Blank
      /\ j.from = i.from /\ j.to = i.to /\ j.spare = i.spare /\ j.op = i.op
    BY <1>1, BlankFields DEF Amended
<1> HIDE DEF j
<1>3. Proper(j, n) /\ NewIds(j) = NewIds(i) /\ SpareIds(j) = SpareIds(i)
    BY <1>2, SameRowsProper
<1> QED
    BY <1>2, <1>3 DEF j

\* Rows that get the UUIDs ids, and a creation marker.
LEMMA MarkedRenewed ==
    ASSUME NEW rows, NEW ids, NEW ks, DOMAIN ids = ks, ks \subseteq DOMAIN rows, NEW marker
    PROVE  LET h == Marked(Renewed(rows, ids), ks, marker) IN
           /\ DOMAIN h = DOMAIN rows
           /\ \A k \in ks : DOMAIN h[k] = Columns /\ h[k].id = ids[k]
<1> DEFINE f == Renewed(rows, ids)
           h == Marked(f, ks, marker)
<1>1. DOMAIN f = DOMAIN rows /\ \A k \in ks : f[k] = Under(rows[k], ids[k])
    BY DEF Renewed
<1> HIDE DEF f
<1>2. ASSUME NEW k \in ks
      PROVE  DOMAIN f[k] = Columns /\ f[k].id = ids[k]
    <2>1. ASSUME NEW row, NEW x
          PROVE  DOMAIN Under(row, x) = Columns /\ Under(row, x).id = x
        BY DEF Under, Columns
    <2> QED
        BY <1>1, <2>1
<1>3. DOMAIN h = DOMAIN rows /\ \A k \in ks : h[k] = [f[k] EXCEPT !.made = marker]
    BY <1>1 DEF Marked
<1> HIDE DEF h
<1>4. ASSUME NEW k \in ks
      PROVE  DOMAIN h[k] = Columns /\ h[k].id = ids[k]
    BY <1>2, <1>3 DEF Columns
<1>5. DOMAIN h = DOMAIN rows /\ \A k \in ks : DOMAIN h[k] = Columns /\ h[k].id = ids[k]
    BY <1>3, <1>4
<1> QED
    BY <1>5 DEF h, f

\* A deletion adds no row.
LEMMA DeletionAddsNothing ==
    ASSUME NEW g, NEW r, r.op \in DeletionOps
    PROVE  Picks(g, r).fresh = {}
<1>1. CASE r.op = "bridge.delete"
    <2>1. After(g, r) = <<>>
        BY <1>1 DEF After, MirrorOps
    <2> QED
        BY <2>1 DEF Picks
<1>2. CASE r.op = "internal.delete"
    <2>1. After(g, r) = PortDeleted(g, r.key)
        BY <1>2 DEF After, MirrorOps
    <2>2. Before(g, r) = Loaded(g, r.key)
        BY <1>2 DEF Before, MirrorOps
    <2>3. DOMAIN PortDeleted(g, r.key) \subseteq Loaded(g, r.key)
        BY DEF PortDeleted, Loaded
    <2> QED
        BY <2>1, <2>2, <2>3 DEF Picks
<1> QED
    BY <1>1, <1>2 DEF DeletionOps

LEMMA GraphIntentProper ==
    ASSUME NEW g, NEW r, NEW n \in Nat, NEW m \in Nat, NEW ids, r.op \notin FieldOps,
           DOMAIN ids = Picks(g, r).fresh \cup Picks(g, r).doomed,
           \A k \in DOMAIN ids : ids[k] \in (n + 1)..(n + m),
           \A j, k \in DOMAIN ids : ids[j] = ids[k] => j = k
    PROVE  /\ Proper(GraphIntent(g, r, ids), n + m)
           /\ NewIds(GraphIntent(g, r, ids)) \cup SpareIds(GraphIntent(g, r, ids)) \subseteq (n + 1)..(n + m)
<1> DEFINE i == GraphIntent(g, r, ids)
           fresh == Picks(g, r).fresh
           doomed == Picks(g, r).doomed
           to == Marked(Renewed(After(g, r), Sub(ids, fresh)), fresh, "go")
           from == Stored(g, r)
           spare == Sub(ids, doomed)
<1>1. /\ DOMAIN i = DOMAIN Blank
      /\ i.op = r.op /\ i.from = from /\ i.to = to /\ i.spare = spare
    BY BlankFields DEF GraphIntent
<1>2. /\ fresh = DOMAIN After(g, r) \ Before(g, r)
      /\ doomed = Before(g, r) \ DOMAIN After(g, r)
    BY DEF Picks
<1>3. /\ DOMAIN to = DOMAIN After(g, r)
      /\ \A k \in fresh : DOMAIN to[k] = Columns /\ to[k].id = ids[k]
    <2> DEFINE x == Sub(ids, fresh)
    <2>1. DOMAIN x = fresh /\ \A k \in fresh : x[k] = ids[k]
        BY DEF Sub
    <2> HIDE DEF x
    <2>2. fresh \subseteq DOMAIN After(g, r)
        BY <1>2
    <2> HIDE DEF fresh
    <2>3. /\ DOMAIN Marked(Renewed(After(g, r), x), fresh, "go") = DOMAIN After(g, r)
          /\ \A k \in fresh : /\ DOMAIN Marked(Renewed(After(g, r), x), fresh, "go")[k] = Columns
                              /\ Marked(Renewed(After(g, r), x), fresh, "go")[k].id = x[k]
        BY <2>1, <2>2, MarkedRenewed
    <2> QED
        BY <2>1, <2>3 DEF x
<1>4. DOMAIN from = Before(g, r) /\ DOMAIN spare = doomed /\ \A k \in doomed : spare[k] = ids[k]
    BY DEF Sub, Stored
<1> HIDE DEF i, to, from, spare
<1>5. Fresh(i) = fresh /\ Doomed(i) = doomed
    BY <1>1, <1>2, <1>3, <1>4 DEF Fresh, Doomed
<1>6. DOMAIN ids = fresh \cup doomed /\ fresh \cap doomed = {}
    BY <1>2
<1>7. r.op \in DeletionOps => fresh = {}
    BY DeletionAddsNothing
<1> HIDE DEF fresh, doomed
<1>8. NewIds(i) = {ids[k] : k \in fresh} /\ SpareIds(i) = {ids[k] : k \in doomed}
    BY <1>1, <1>3, <1>4, <1>5 DEF NewIds, SpareIds
<1>9. NewIds(i) \cup SpareIds(i) \subseteq (n + 1)..(n + m) /\ NewIds(i) \cap SpareIds(i) = {}
    BY <1>6, <1>8
<1>10. (n + 1)..(n + m) \subseteq 1..(n + m)
    OBVIOUS
<1>11. Inserts(i, n + m)
    BY <1>1, <1>3, <1>5, <1>6, <1>9, <1>10 DEF Inserts
<1>12. Proper(i, n + m)
    BY <1>1, <1>4, <1>5, <1>6, <1>7, <1>9, <1>10, <1>11 DEF Proper
<1> QED
    BY <1>9, <1>12 DEF i

\* A compensation inserts the rows that the change removed, under the UUIDs
\* that were reserved for them.
LEMMA ReverseInserts ==
    ASSUME NEW i, NEW n, Proper(i, n)
    PROVE  LET j == Reverse(i) IN
           /\ j.op = i.op /\ Fresh(j) = Doomed(i) /\ NewIds(j) = SpareIds(i) /\ Inserts(j, n)
           /\ i.op \notin DeletionOps => j.old = NewIds(i)
<1> DEFINE j == Reverse(i)
           h == Marked(Renewed(i.from, i.spare), Doomed(i), "back")
<1>1. DOMAIN i = DOMAIN Blank /\ DOMAIN i.spare = Doomed(i) /\ SpareIds(i) \subseteq 1..n
    BY DEF Proper
<1>2. /\ j.op = i.op /\ j.from = i.to /\ j.to = h
      /\ i.op \notin DeletionOps => j.old = {i.to[k].id : k \in Fresh(i)}
    BY <1>1, BlankFields DEF Reverse, Restoration
<1>3. DOMAIN h = DOMAIN i.from /\ \A k \in Doomed(i) : DOMAIN h[k] = Columns /\ h[k].id = i.spare[k]
    <2>1. Doomed(i) \subseteq DOMAIN i.from
        BY DEF Doomed
    <2> QED
        BY <1>1, <2>1, MarkedRenewed
<1> HIDE DEF j, h
<1>4. Fresh(j) = Doomed(i)
    BY <1>2, <1>3 DEF Fresh, Doomed
<1>5. NewIds(j) = SpareIds(i)
    BY <1>1, <1>2, <1>3, <1>4 DEF NewIds, SpareIds
<1>6. Inserts(j, n)
    BY <1>1, <1>2, <1>3, <1>4, <1>5 DEF Inserts, Proper
<1>7. i.op \notin DeletionOps => j.old = NewIds(i)
    BY <1>2 DEF NewIds
<1> QED
    BY <1>2, <1>4, <1>5, <1>6, <1>7 DEF j

-----------------------------------------------------------------------------
(* What a transaction waits for, and what the checks require.              *)

LEMMA WaitFences ==
    ASSUME NEW i, NEW g, i.op \in FieldOps => Fresh(i) = {}
    PROVE  Fresh(i) \subseteq Wait(i, g).keys
<1>1. CASE i.op \in FieldOps
    BY <1>1
<1>2. CASE i.op \notin FieldOps /\ i.op \in LifecycleOps
    <2>1. DOMAIN NoWait = {"cells", "tables", "keys", "ids"}
        BY DEF NoWait
    <2>2. DOMAIN BridgeWait(i, g) = DOMAIN NoWait /\ BridgeWait(i, g).keys = Fresh(i)
        BY <2>1 DEF BridgeWait
    <2>3. Fresh(i) \subseteq InternalPortWait(i, g).keys
        BY <2>1, <2>2 DEF InternalPortWait
    <2>4. Wait(i, g) = LifecycleWait(i, g)
        BY <1>2 DEF Wait
    <2> QED
        BY <2>2, <2>3, <2>4 DEF LifecycleWait
<1>3. CASE i.op \notin FieldOps /\ i.op \notin LifecycleOps
    <2>1. Wait(i, g) = GraphWait(i, g)
        BY <1>3 DEF Wait
    <2>2. GraphWait(i, g).keys = Fresh(i)
        BY DEF GraphWait, NoWait
    <2> QED
        BY <2>1, <2>2
<1> QED
    BY <1>1, <1>2, <1>3

LEMMA CompiledFences ==
    ASSUME NEW s, NEW g, \A i \in s : i.op \in FieldOps => Fresh(i) = {}
    PROVE  Fenced(s, Compiled(s, g))
BY WaitFences DEF Fenced, Compiled

\* A transaction that goes through inserts no root.
LEMMA FencedRoot ==
    ASSUME NEW s, NEW waits, Fenced(s, waits), Root \in DOMAIN db, \A w \in waits : Holds(w)
    PROVE  \A i \in s : Root \notin Fresh(i)
BY DEF Fenced, Holds

\* Neither does it insert a row under a UUID that was given up.
LEMMA ChecksCreatable ==
    ASSUME NEW i, NEW g, Checks(i, g), i.op \notin FieldOps
    PROVE  NewIds(i) \cap view.gone = {}
<1>1. NoProblem(i, g)
    <2>1. CASE i.op \in LifecycleOps
        BY <2>1 DEF Checks, BridgeChecks, BridgeDeletionChecks, InternalPortChecks,
                    PortDeletionChecks, FieldOps, ListOps, TreeOps, LifecycleOps, TunnelOps, MirrorOps
    <2>2. CASE i.op \in TunnelOps \cup MirrorOps
        BY <2>2 DEF Checks, PathChecks, FieldOps, ListOps, TreeOps, LifecycleOps, TunnelOps, MirrorOps
    <2>3. CASE i.op \notin LifecycleOps \cup TunnelOps \cup MirrorOps
        <3>1. Checks(i, g) = TopologyChecks(i, g)
            BY <2>3 DEF Checks, FieldOps, ListOps, TreeOps, LifecycleOps, TunnelOps, MirrorOps
        <3> QED
            BY <3>1 DEF TopologyChecks
    <2> QED
        BY <2>1, <2>2, <2>3
<1>2. \A k \in Fresh(i) : i.to[k].id \notin view.gone
    BY <1>1 DEF NoProblem, Creatable
<1> QED
    BY <1>2 DEF NewIds

\* The UUIDs that staging hands out.
LEMMA AssignedIds ==
    ASSUME NEW ks, NEW n, NEW ids \in Assigned(ks, n)
    PROVE  /\ DOMAIN ids = ks /\ \A k \in ks : ids[k] \in n..(n + Cardinality(ks) - 1)
           /\ \A j, k \in ks : ids[j] = ids[k] => j = k
BY DEF Assigned, Injection, IsInjective

-----------------------------------------------------------------------------
(* The registry.                                                           *)

States == {"none", "pending", "active", "tombstone"}
RegFields == {"gen", "state", "ids", "made", "evidence"}

LEMMA PresentIds ==
    ASSUME NEW g, NEW n, Identified(g, n)
    PROVE  /\ Present(g) \subseteq IdsOf(g) /\ IdsOf(g) \subseteq 1..n
           /\ Root \in DOMAIN g /\ g[Root].id \in 1..n
<1>1. Present(g) \subseteq IdsOf(g)
    BY DEF Present, IdsOf
<1>2. IdsOf(g) \subseteq 1..n
    BY DEF IdsOf, Identified
<1> QED
    BY <1>1, <1>2 DEF Identified

LEMMA BoundIds ==
    ASSUME NEW ids \in [Ids -> States], NEW g
    PROVE  /\ Bound(ids, g) \in [Ids -> States]
           /\ \A n \in Ids : n \in Present(g) => Bound(ids, g)[n] = "active"
           /\ \A n \in Ids : n \notin Present(g) /\ ids[n] = "active" => Bound(ids, g)[n] = "tombstone"
           /\ \A n \in Ids : n \notin Present(g) /\ ids[n] # "active" => Bound(ids, g)[n] = ids[n]
BY DEF Bound, States

LEMMA NoIdentitiesType == NoIdentities \in [Ids -> States] /\ \A n \in Ids : NoIdentities[n] = "none"
BY DEF NoIdentities, States

LEMMA ReconciledFields ==
    ASSUME NEW r, DOMAIN r = RegFields, NEW g, NEW e, NEW c
    PROVE  LET q == Reconciled(r, g, e, c) IN
           /\ DOMAIN q = RegFields /\ q.evidence = e
           /\ c = "new" => /\ q.state = "confirmed" /\ q.gen = r.gen + 1
                           /\ q.ids = Bound(NoIdentities, g)
           /\ c = "required" => q.state = "required" /\ q.gen = r.gen /\ q.ids = r.ids
           /\ c = "continued" => q.state = "confirmed" /\ q.gen = r.gen /\ q.ids = Bound(r.ids, g)
<1>1. CASE c = "new"
    BY <1>1 DEF Reconciled, RegFields
<1>2. CASE c = "required"
    BY <1>2 DEF Reconciled, RegFields
<1>3. CASE c = "continued"
    BY <1>3 DEF Reconciled, RegFields
<1>4. CASE c \notin {"new", "required", "continued"}
    BY <1>4 DEF Reconciled, RegFields
<1> QED
    BY <1>1, <1>2, <1>3, <1>4

\* A new generation knows the rows it was made from, and nothing else.
LEMMA NewGeneration ==
    ASSUME NEW g, NEW n, Identified(g, n)
    PROVE  LET ids == Bound(NoIdentities, g) IN
           /\ ids \in [Ids -> States]
           /\ \A x \in Ids : ids[x] \in {"none", "active"}
           /\ \A x \in Ids : ids[x] # "none" => x \in Present(g)
           /\ \A x \in Ids : x \in Present(g) => ids[x] = "active"
BY BoundIds, NoIdentitiesType

LEMMA EmptyBundle ==
    ASSUME NEW n
    PROVE  Bundle({}, n) /\ Added({}) = {} /\ Spares({}) = {}
BY DEF Bundle, Single, Added, Spares

LEMMA InitInv == Init => Inv
<1> SUFFICES ASSUME Init PROVE Inv
    OBVIOUS
<1> USE NativeAssumption
<1> DEFINE card == Cardinality(DOMAIN net.rows)
           fresh == [gen |-> 0, state |-> "confirmed", ids |-> NoIdentities,
                     made |-> [i \in Ids |-> None], evidence |-> Evidence]
           ids == Bound(NoIdentities, db)
<1>1. /\ net \in Networks /\ db = net.rows /\ issued = card /\ epoch = 0
      /\ card \in Ids /\ Identified(net.rows, card) /\ net.rows[Root].mark \notin {"go", "back"}
    BY DEF Init, NativeInit
<1>2. reg = Reconciled(fresh, db, Evidence, "new") /\ view = Installed(reg, db)
    BY DEF Init, NativeInit
<1>3. draft = [intents |-> {}, consumed |-> FALSE, picked |-> 0] /\ change = NoChange
    BY DEF Init, DraftInit
<1>4. DOMAIN fresh = RegFields /\ fresh.gen = 0
    BY DEF RegFields
<1> HIDE DEF fresh, card
<1>5. /\ DOMAIN reg = RegFields /\ reg.evidence = Evidence /\ reg.state = "confirmed"
      /\ reg.gen = 1 /\ reg.ids = ids
    BY <1>2, <1>4, ReconciledFields
<1>6. /\ ids \in [Ids -> States]
      /\ \A x \in Ids : ids[x] \in {"none", "active"}
      /\ \A x \in Ids : ids[x] # "none" => x \in Present(db)
      /\ \A x \in Ids : x \in Present(db) => ids[x] = "active"
    BY <1>1, NewGeneration
<1> HIDE DEF ids
<1>7. Evidence.root = db[Root].id /\ Evidence.epoch = epoch
    BY DEF Evidence
<1>8. /\ DOMAIN view = {"rows", "gen", "ok", "confirmed", "gone", "evidence"}
      /\ view.rows = db /\ view.gen = reg.gen /\ view.ok = TRUE /\ view.confirmed = (reg.state = "confirmed")
      /\ view.gone = Gone(reg) /\ view.evidence = reg.evidence
    BY <1>2 DEF Installed
<1>9. Present(db) \subseteq 1..issued /\ db[Root].id \in 1..issued /\ issued \in Ids /\ Ids \subseteq Nat
    BY <1>1, PresentIds DEF Ids
<1>10. change.phase = "none" /\ change.intents = {} /\ draft.intents = {} /\ draft.consumed = FALSE
    BY <1>3 DEF NoChange
<1>11. TypeOK
    BY <1>1, <1>5, <1>6, <1>8, <1>9, <1>10 DEF TypeOK, Phases, States
<1>12. Fixed
    BY <1>1, <1>3 DEF Fixed, NoChange
<1>13. Waiting
    BY <1>3, <1>10, EmptyBundle DEF Waiting, Unused, Standing
<1>14. Pending
    BY <1>5, <1>6 DEF Pending
<1>15. Marks
    BY <1>1, <1>8, <1>10 DEF Marks, Standing
<1>16. Shown
    BY <1>10 DEF Shown, Standing
<1>17. \A n \in Ids : reg.ids[n] # "none" => n <= issued
    BY <1>5, <1>6, <1>9
<1>18. \A x \in Present(view.rows) : reg.ids[x] = "active"
    BY <1>5, <1>6, <1>8, <1>9 DEF Ids
<1>19. Registered
    <2>1. view.confirmed <=> reg.state = "confirmed"
        BY <1>8
    <2>2. DOMAIN reg = {"gen", "state", "ids", "made", "evidence"}
        BY <1>5 DEF RegFields
    <2>3. /\ epoch \in Nat /\ reg.evidence.epoch \in 0..epoch /\ view.evidence.epoch \in 0..epoch
          /\ reg.evidence.root \in 1..issued
        BY <1>1, <1>5, <1>7, <1>8, <1>9
    <2> QED
        BY <1>8, <1>10, <1>17, <1>18, <2>1, <2>2, <2>3 DEF Registered
<1>20. IdentityNeverReused
    BY <1>5, <1>6 DEF IdentityNeverReused, Gone
<1> QED
    BY <1>11, <1>12, <1>13, <1>14, <1>15, <1>16, <1>19, <1>20 DEF Inv

-----------------------------------------------------------------------------
(* The monitor and the operator.                                           *)

ViewFields == {"rows", "gen", "ok", "confirmed", "gone", "evidence"}

LEMMA InstalledFields ==
    ASSUME NEW r, NEW g
    PROVE  LET v == Installed(r, g) IN
           /\ DOMAIN v = ViewFields /\ v.rows = g /\ v.gen = r.gen /\ v.ok
           /\ v.confirmed <=> r.state = "confirmed"
           /\ v.gone = Gone(r) /\ v.evidence = r.evidence
BY DEF Installed, ViewFields

LEMMA ClassifyValues == ASSUME NEW r, NEW e PROVE Classify(r, e) \in {"new", "required", "continued"}
BY DEF Classify

\* A registry and a view of its rows that may take the place of those before.
Adopted(r, v) ==
    /\ DOMAIN r = RegFields /\ r.ids \in [Ids -> States] /\ r.state \in {"confirmed", "required"}
    /\ r.gen \in Nat \ {0}
    /\ r.evidence.epoch \in 0..epoch /\ r.evidence.root \in 1..issued
    /\ \A n \in Ids : r.ids[n] = "pending" => reg.ids[n] = "pending"
    /\ \A n \in Ids : r.ids[n] # "none" => n <= issued
    /\ v = Installed(r, v.rows) /\ Identified(v.rows, issued)
    /\ r.state = "confirmed" => \A x \in Present(v.rows) : r.ids[x] = "active"

LEMMA AdoptedInv ==
    ASSUME Inv, UNCHANGED <<net, db, issued, epoch, draft, change>>, Adopted(reg', view'),
           view'.rows \in {db, view.rows},
           reg'.state = "confirmed" => Present(db) \cap Gone(reg') = {}
    PROVE  Inv'
<1>1. /\ DOMAIN reg' = RegFields /\ reg'.ids \in [Ids -> States]
      /\ reg'.state \in {"confirmed", "required"} /\ reg'.gen \in Nat \ {0}
      /\ reg'.evidence.epoch \in 0..epoch /\ reg'.evidence.root \in 1..issued
      /\ \A n \in Ids : reg'.ids[n] = "pending" => reg.ids[n] = "pending"
      /\ \A n \in Ids : reg'.ids[n] # "none" => n <= issued
      /\ view' = Installed(reg', view'.rows) /\ Identified(view'.rows, issued)
      /\ reg'.state = "confirmed" => \A x \in Present(view'.rows) : reg'.ids[x] = "active"
    BY DEF Adopted
<1>2. /\ DOMAIN view' = ViewFields /\ view'.gen = reg'.gen /\ view'.ok
      /\ view'.confirmed <=> reg'.state = "confirmed"
      /\ view'.gone = Gone(reg') /\ view'.evidence = reg'.evidence
    BY <1>1, InstalledFields
<1>3. /\ TypeOK /\ Fixed /\ Waiting /\ Pending /\ Marks /\ Shown /\ Registered
      /\ net' = net /\ db' = db /\ issued' = issued /\ epoch' = epoch
      /\ draft' = draft /\ change' = change
    BY DEF Inv
<1>4. TypeOK'
    BY <1>1, <1>2, <1>3 DEF TypeOK, States
<1>5. Fixed' /\ Waiting'
    BY <1>3 DEF Fixed, Waiting
<1>6. Pending'
    BY <1>1, <1>3 DEF Pending
<1>7. Marks' /\ Shown'
    <2>1. CASE view'.rows = view.rows
        BY <1>3, <2>1 DEF Marks, Shown
    <2>2. CASE view'.rows = db
        BY <1>3, <2>2 DEF Marks, Shown
    <2> QED
        BY <2>1, <2>2
<1>8. Registered'
    <2>1. epoch \in Nat /\ (change.phase # "none" => change.evidence.epoch \in 0..epoch)
        BY <1>3 DEF Registered
    <2> QED
        BY <1>1, <1>2, <1>3, <2>1 DEF Registered, RegFields, ViewFields
<1>9. IdentityNeverReused'
    BY <1>3 DEF IdentityNeverReused
<1> QED
    BY <1>4, <1>5, <1>6, <1>7, <1>8, <1>9 DEF Inv

\* A view that is withdrawn.
LEMMA HiddenInv ==
    ASSUME Inv, UNCHANGED <<net, db, issued, epoch, reg, draft, change>>,
           view' = [view EXCEPT !.ok = FALSE]
    PROVE  Inv'
<1>1. /\ TypeOK /\ Fixed /\ Waiting /\ Pending /\ Marks /\ Shown /\ Registered /\ IdentityNeverReused
      /\ net' = net /\ db' = db /\ issued' = issued /\ epoch' = epoch /\ reg' = reg
      /\ draft' = draft /\ change' = change
    BY DEF Inv
<1>2. DOMAIN view = ViewFields
    BY <1>1 DEF Registered, ViewFields
<1>3. /\ DOMAIN view' = ViewFields /\ view'.rows = view.rows /\ view'.gen = view.gen
      /\ ~view'.ok /\ view'.evidence = view.evidence
    BY <1>2 DEF ViewFields
<1>4. TypeOK'
    BY <1>1, <1>3 DEF TypeOK
<1>5. Fixed' /\ Waiting' /\ Pending' /\ Marks' /\ Shown' /\ IdentityNeverReused'
    BY <1>1, <1>3 DEF Fixed, Waiting, Pending, Marks, Shown, IdentityNeverReused
<1>6. Registered'
    BY <1>1, <1>3 DEF Registered, ViewFields
<1> QED
    BY <1>4, <1>5, <1>6 DEF Inv

LEMMA PublishInv ==
    ASSUME Inv, Publish, UNCHANGED <<draft, change>>
    PROVE  Inv'
<1> DEFINE c == Classify(reg, Evidence)
           r == Reconciled(reg, db, Evidence, c)
<1>1. /\ TypeOK /\ Registered /\ UNCHANGED <<net, db, issued, epoch, draft, change>>
      /\ \/ Reconcilable(reg, db, c) /\ reg' = r /\ view' = Installed(r, db)
         \/ reg' = reg /\ view' = [view EXCEPT !.ok = FALSE]
    BY DEF Publish, Inv
<1>2. CASE reg' = reg /\ view' = [view EXCEPT !.ok = FALSE]
    BY <1>1, <1>2, HiddenInv
<1>3. CASE Reconcilable(reg, db, c) /\ reg' = r /\ view' = Installed(r, db)
    <2>1. /\ DOMAIN reg = RegFields /\ reg.ids \in [Ids -> States] /\ reg.gen \in Nat \ {0}
          /\ Identified(db, issued) /\ epoch \in Nat /\ issued \in Nat /\ 1..issued \subseteq Ids
          /\ \A n \in Ids : reg.ids[n] # "none" => n <= issued
        BY <1>1, NativeAssumption DEF TypeOK, Registered, RegFields, States, Ids
    <2>2. c \in {"new", "required", "continued"}
        BY ClassifyValues
    <2>3. Present(db) \subseteq 1..issued /\ db[Root].id \in 1..issued
        BY <2>1, PresentIds
    <2>4. Evidence.root = db[Root].id /\ Evidence.epoch = epoch
        BY DEF Evidence
    <2> HIDE DEF c
    <2>5. DOMAIN r = RegFields /\ r.evidence = Evidence
        BY <2>1, ReconciledFields
    <2>6. view'.rows = db
        BY <1>3, InstalledFields
    <2>7. /\ r.ids \in [Ids -> States] /\ r.state \in {"confirmed", "required"} /\ r.gen \in Nat \ {0}
          /\ \A n \in Ids : r.ids[n] = "pending" => reg.ids[n] = "pending"
          /\ \A n \in Ids : r.ids[n] # "none" => n <= issued
          /\ r.state = "confirmed" => \A x \in Present(db) : r.ids[x] = "active"
        <3>1. CASE c = "new"
            <4>1. r.state = "confirmed" /\ r.gen = reg.gen + 1 /\ r.ids = Bound(NoIdentities, db)
                BY <2>1, <3>1, ReconciledFields
            <4> HIDE DEF r
            <4> QED
                BY <2>1, <2>3, <4>1, NewGeneration
        <3>2. CASE c = "required"
            <4>1. r.state = "required" /\ r.gen = reg.gen /\ r.ids = reg.ids
                BY <2>1, <3>2, ReconciledFields
            <4> HIDE DEF r
            <4> QED
                BY <2>1, <4>1
        <3>3. CASE c = "continued"
            <4>1. r.state = "confirmed" /\ r.gen = reg.gen /\ r.ids = Bound(reg.ids, db)
                BY <2>1, <3>3, ReconciledFields
            <4> HIDE DEF r
            <4> QED
                BY <2>1, <2>3, <4>1, BoundIds
        <3> QED
            BY <2>2, <3>1, <3>2, <3>3
    <2> HIDE DEF r
    <2>8. Adopted(reg', view')
        BY <1>1, <1>3, <2>1, <2>3, <2>4, <2>5, <2>6, <2>7 DEF Adopted
    <2>9. reg'.state = "confirmed" => Present(db) \cap Gone(reg') = {}
        BY <1>3, <2>7 DEF Gone
    <2> QED
        BY <1>1, <2>6, <2>8, <2>9, AdoptedInv
<1> QED
    BY <1>1, <1>2, <1>3

LEMMA AcceptInv ==
    ASSUME Inv, Accept, UNCHANGED <<draft, change>>
    PROVE  Inv'
<1> DEFINE r == Reconciled(reg, view.rows, view.evidence, "new")
<1>1. /\ TypeOK /\ Registered /\ UNCHANGED <<net, db, issued, epoch, draft, change>>
      /\ view.evidence = reg.evidence /\ reg' = r /\ view' = Installed(r, view.rows)
    BY DEF Accept, Inv
<1>2. /\ DOMAIN reg = RegFields /\ reg.gen \in Nat
      /\ Identified(view.rows, issued) /\ issued \in Nat /\ 1..issued \subseteq Ids
      /\ reg.evidence.epoch \in 0..epoch /\ reg.evidence.root \in 1..issued
    BY <1>1, NativeAssumption DEF TypeOK, Registered, RegFields, Ids
<1>3. /\ DOMAIN r = RegFields /\ r.evidence = reg.evidence /\ r.state = "confirmed"
      /\ r.gen = reg.gen + 1 /\ r.ids = Bound(NoIdentities, view.rows)
    BY <1>1, <1>2, ReconciledFields
<1>4. /\ r.ids \in [Ids -> States]
      /\ \A x \in Ids : r.ids[x] \in {"none", "active"}
      /\ \A x \in Ids : r.ids[x] # "none" => x \in Present(view.rows)
      /\ \A x \in Ids : x \in Present(view.rows) => r.ids[x] = "active"
    BY <1>2, <1>3, NewGeneration
<1>5. Present(view.rows) \subseteq 1..issued
    BY <1>2, PresentIds
<1> HIDE DEF r
<1>6. view'.rows = view.rows
    BY <1>1, InstalledFields
<1>7. Adopted(reg', view')
    BY <1>1, <1>2, <1>3, <1>4, <1>5, <1>6 DEF Adopted
<1>8. Gone(reg') = {}
    BY <1>1, <1>4 DEF Gone
<1> QED
    BY <1>1, <1>6, <1>7, <1>8, AdoptedInv

-----------------------------------------------------------------------------
(* Third parties and faults.                                               *)

LEMMA IdentifiedMore ==
    ASSUME NEW g, NEW n \in Nat, NEW m \in Nat, n <= m, Identified(g, n)
    PROVE  Identified(g, m)
BY DEF Identified

LEMMA BundleMore ==
    ASSUME NEW s, NEW n \in Nat, NEW m \in Nat, n <= m, Bundle(s, n)
    PROVE  /\ Bundle(s, m) /\ Added(s) \cup Spares(s) \subseteq 1..n
           /\ Added(s) \cap Spares(s) = {}
<1>1. ASSUME NEW i \in s
      PROVE  Proper(i, m) /\ NewIds(i) \cup SpareIds(i) \subseteq 1..n
    <2>1. Proper(i, n)
        BY DEF Bundle
    <2>2. 1..n \subseteq 1..m
        OBVIOUS
    <2> QED
        BY <2>1, <2>2 DEF Proper, Inserts
<1>2. Added(s) \cup Spares(s) \subseteq 1..n
    BY <1>1 DEF Added, Spares
<1>3. ASSUME NEW i \in s, NEW j \in s
      PROVE  NewIds(i) \cap SpareIds(j) = {}
    <2>1. Proper(i, n) /\ Proper(j, n) /\ Single(s)
        BY DEF Bundle
    <2>2. CASE i.op \in FieldOps
        BY <2>1, <2>2 DEF Proper, Inserts, NewIds
    <2>3. CASE i.op \notin FieldOps
        BY <2>1, <2>3 DEF Single, Proper
    <2> QED
        BY <2>2, <2>3
<1>4. Added(s) \cap Spares(s) = {}
    BY <1>3 DEF Added, Spares
<1> QED
    BY <1>1, <1>2, <1>4 DEF Bundle

\* The server has other rows, and the manager does not know.
Elsewhere ==
    /\ UNCHANGED <<net, draft, change, reg, view>>
    /\ issued' \in Ids /\ issued <= issued'
    /\ Identified(db', issued') /\ db'[Root].mark \in {db[Root].mark, None, net.rows[Root].mark}
    /\ IdsOf(db') \subseteq IdsOf(db) \cup IdsOf(net.rows) \cup (issued + 1)..issued'
    /\ \/ epoch' = epoch + 1
       \/ /\ epoch' = epoch
          /\ Present(db') \subseteq Present(db) \cup (issued + 1)..issued'
          /\ db'[Root].id \in {db[Root].id} \cup (issued + 1)..issued'

LEMMA ElsewhereInv ==
    ASSUME Inv, Elsewhere
    PROVE  Inv'
<1>1. /\ TypeOK /\ Fixed /\ Waiting /\ Pending /\ Marks /\ Shown /\ Registered /\ IdentityNeverReused
      /\ net' = net /\ reg' = reg /\ view' = view /\ draft' = draft /\ change' = change
      /\ issued \in Nat /\ issued' \in Nat /\ issued' \in Ids /\ issued <= issued' /\ Ids \subseteq Nat
      /\ epoch \in Nat
    BY DEF Inv, Elsewhere, TypeOK, Ids, Registered
<1>2. ASSUME NEW g, Identified(g, issued)
      PROVE  Identified(g, issued')
    BY <1>1, <1>2, IdentifiedMore
<1>3. TypeOK'
    <2>1. Identified(db', issued') /\ Identified(view.rows, issued')
        BY <1>1, <1>2 DEF TypeOK, Elsewhere
    <2> QED
        BY <1>1, <2>1 DEF TypeOK
<1>4. Fixed'
    BY <1>1, <1>2 DEF Fixed
<1>5. ASSUME NEW ids, ids \subseteq 1..issued, Unused(ids, db, net.rows)
      PROVE  Unused(ids, db', net.rows)
    <2>1. ids \cap (issued + 1)..issued' = {}
        BY <1>1, <1>5
    <2> QED
        BY <1>5, <2>1 DEF Unused, Elsewhere
<1>6. Waiting'
    <2>1. Bundle(draft.intents, issued) /\ Bundle(change.intents, issued)
        BY <1>1 DEF Waiting
    <2>2. /\ Bundle(draft.intents, issued') /\ Bundle(change.intents, issued')
          /\ Added(draft.intents) \cup Spares(draft.intents) \subseteq 1..issued
          /\ Added(change.intents) \cup Spares(change.intents) \subseteq 1..issued
          /\ Spares(change.intents) \subseteq 1..issued
        BY <1>1, <2>1, BundleMore
    <2> QED
        BY <1>1, <1>5, <2>2 DEF Waiting
<1>7. Pending' /\ Marks'
    <2>1. Pending'
        BY <1>1 DEF Pending
    <2>2. db'[Root].mark \in {db[Root].mark, None, net.rows[Root].mark}
        BY DEF Elsewhere
    <2>3. None \notin {"go", "back"}
        BY NativeAssumption
    <2>4. Marks'
        BY <1>1, <2>2, <2>3 DEF Marks
    <2> QED
        BY <2>1, <2>4
<1>8. Registered'
    <2>1. epoch' \in {epoch, epoch + 1}
        BY DEF Elsewhere
    <2>2. /\ epoch' \in Nat /\ 0..epoch \subseteq 0..epoch' /\ 1..issued \subseteq 1..issued'
        BY <1>1, <2>1
    <2>3. \A n \in Ids : reg.ids[n] # "none" => n <= issued'
        BY <1>1 DEF Registered
    <2> QED
        BY <1>1, <2>2, <2>3 DEF Registered
<1>9. Shown' /\ IdentityNeverReused'
    <2>1. CASE epoch' = epoch + 1
        <3>1. reg.evidence.epoch # epoch'
            BY <1>1, <2>1 DEF Registered
        <3>2. change.phase # "none" => change.evidence.epoch # epoch'
            BY <1>1, <2>1 DEF Registered
        <3> QED
            BY <1>1, <3>1, <3>2 DEF Shown, IdentityNeverReused, Standing
    <2>2. CASE /\ epoch' = epoch
               /\ Present(db') \subseteq Present(db) \cup (issued + 1)..issued'
               /\ db'[Root].id \in {db[Root].id} \cup (issued + 1)..issued'
        <3>1. Bundle(change.intents, issued)
            BY <1>1 DEF Waiting
        <3>2. Added(change.intents) \cup Spares(change.intents) \subseteq 1..issued
            BY <1>1, <3>1, BundleMore
        <3>3. \A x \in 1..issued : x \notin (issued + 1)..issued'
            BY <1>1
        <3>4. Shown'
            BY <1>1, <2>2, <3>2, <3>3 DEF Shown
        <3>5. Gone(reg) \cap (issued + 1)..issued' = {}
            BY <1>1 DEF Registered, Gone
        <3>6. reg.evidence.root \in 1..issued
            BY <1>1 DEF Registered
        <3>7. IdentityNeverReused'
            BY <1>1, <2>2, <3>3, <3>5, <3>6 DEF IdentityNeverReused
        <3> QED
            BY <3>4, <3>7
    <2> QED
        BY <2>1, <2>2 DEF Elsewhere
<1> QED
    BY <1>3, <1>4, <1>6, <1>7, <1>8, <1>9 DEF Inv

LEMMA ForeignEditInv ==
    ASSUME Inv, ForeignEdit, UNCHANGED <<draft, change>>
    PROVE  Inv'
<1> DEFINE new == {issued + 1, (issued + 1) + 1}
<1>1. /\ net \in Networks /\ Identified(db, issued) /\ issued \in Nat /\ issued \in Ids
    BY DEF Inv, TypeOK, Fixed, Ids
<1>2. PICK e \in net.edits : db' = Edited(db, e, issued + 1)
    BY DEF ForeignEdit
<1>3. /\ issued + 2 \in Ids /\ issued' = issued + 2
      /\ UNCHANGED <<net, epoch, reg, view, draft, change>>
    BY DEF ForeignEdit
<1>4. e.op \in EditOps
    BY <1>1, <1>2, NativeAssumption
<1>5. new = (issued + 1)..issued' /\ new \cap 1..issued = {} /\ new \subseteq 1..issued'
    BY <1>1, <1>3
<1>6. new \cap IdsOf(db) = {}
    BY <1>1, <1>5, PresentIds
<1>7. Stranger(db, db', new)
    BY <1>1, <1>2, <1>4, <1>6, EditedStranger
<1> HIDE DEF new
<1>8. /\ Identified(db', issued') /\ IdsOf(db') \subseteq IdsOf(db) \cup new
      /\ Present(db') \subseteq Present(db) \cup new
    BY <1>1, <1>3, <1>5, <1>6, <1>7, GrownApart DEF Stranger
<1>9. Elsewhere
    BY <1>1, <1>3, <1>5, <1>7, <1>8 DEF Elsewhere, Stranger
<1> QED
    BY <1>9, ElsewhereInv

LEMMA RerootInv ==
    ASSUME Inv, Reroot, UNCHANGED <<net, draft, change>>
    PROVE  Inv'
<1> DEFINE ids == [k \in {Root} |-> issued + 1]
           new == {issued + 1}
<1>1. Identified(db, issued) /\ issued \in Nat
    BY DEF Inv, TypeOK, Ids
<1>2. /\ issued + 1 \in Ids /\ issued' = issued + 1 /\ db' = Renewed(db, ids)
      /\ UNCHANGED <<net, epoch, reg, view, draft, change>>
    BY DEF Reroot
<1>3. /\ new \cap IdsOf(db) = {} /\ new \subseteq 1..issued' /\ Root \in DOMAIN db
      /\ new = (issued + 1)..issued'
    BY <1>1, <1>2, PresentIds
<1>4. /\ Grown(db, db', new) /\ db'[Root].mark = db[Root].mark /\ db'[Root].id = issued + 1
      /\ Present(db') = Present(db)
    <2>1. /\ DOMAIN ids = {Root} /\ ids[Root] = issued + 1
          /\ \A k \in DOMAIN ids : ids[k] \in new
          /\ \A j, k \in DOMAIN ids : ids[j] = ids[k] => j = k
        OBVIOUS
    <2> HIDE DEF ids, new
    <2> QED
        BY <1>1, <1>2, <1>3, <2>1, RenewedGrown
<1>5. Identified(db', issued') /\ IdsOf(db') \subseteq IdsOf(db) \cup new
    BY <1>1, <1>2, <1>3, <1>4, GrownApart
<1>6. Elsewhere
    BY <1>1, <1>2, <1>3, <1>4, <1>5 DEF Elsewhere
<1> QED
    BY <1>6, ElsewhereInv

LEMMA ReplaceInv ==
    ASSUME Inv, Replace, UNCHANGED <<net, draft, change>>
    PROVE  Inv'
<1> DEFINE ids == [k \in DOMAIN db |-> issued + db[k].id]
           new == (issued + 1)..issued'
<1>1. Identified(db, issued) /\ issued \in Nat /\ issued >= 1
    BY DEF Inv, TypeOK, Ids
<1>2. /\ issued + issued \in Ids /\ issued' = issued + issued /\ db' = Renewed(db, ids)
      /\ UNCHANGED <<net, epoch, reg, view, draft, change>>
    BY DEF Replace
<1>3. Root \in DOMAIN db /\ new \cap IdsOf(db) = {} /\ new \subseteq 1..issued'
    BY <1>1, <1>2, PresentIds
<1>4. /\ DOMAIN ids = DOMAIN db
      /\ \A k \in DOMAIN ids : ids[k] \in new
      /\ \A j, k \in DOMAIN ids : ids[j] = ids[k] => j = k
    BY <1>1, <1>2 DEF Identified
<1> HIDE DEF ids, new
<1>5. Grown(db, db', new) /\ db'[Root].mark = db[Root].mark /\ db'[Root].id = ids[Root]
    BY <1>1, <1>2, <1>3, <1>4, RenewedGrown
<1>6. /\ Identified(db', issued') /\ IdsOf(db') \subseteq IdsOf(db) \cup new
      /\ Present(db') \subseteq Present(db) \cup new
    <2>1. issued' \in Nat /\ issued <= issued'
        BY <1>1, <1>2
    <2> QED
        BY <1>1, <1>3, <1>5, <2>1, GrownApart
<1>7. db'[Root].id \in new
    BY <1>3, <1>4, <1>5
<1>8. Elsewhere
    BY <1>1, <1>2, <1>5, <1>6, <1>7 DEF Elsewhere, new
<1> QED
    BY <1>8, ElsewhereInv

LEMMA BreakInv ==
    ASSUME Inv, Break, UNCHANGED <<draft, change>>
    PROVE  Inv'
<1>1. /\ net' = net /\ draft' = draft /\ change' = change
      /\ Identified(db, issued) /\ Identified(net.rows, issued) /\ issued \in Ids /\ issued \in Nat
    BY DEF Break, Inv, TypeOK, Fixed, Ids
<1>2. CASE Away
    BY <1>1, <1>2, HiddenInv DEF Away
<1>3. CASE Reboot
    <2>1. Elsewhere
        BY <1>1, <1>3 DEF Elsewhere, Reboot
    <2> QED
        BY <2>1, ElsewhereInv
<1>4. CASE Rewind
    <2>1. Elsewhere
        BY <1>1, <1>4 DEF Elsewhere, Rewind
    <2> QED
        BY <2>1, ElsewhereInv
<1>5. CASE Reroot
    BY <1>1, <1>5, RerootInv
<1>6. CASE Replace
    BY <1>1, <1>6, ReplaceInv
<1> QED
    BY <1>2, <1>3, <1>4, <1>5, <1>6 DEF Break

-----------------------------------------------------------------------------
(* The draft.                                                              *)

LEMMA FieldsBundle ==
    ASSUME NEW s, NEW n, \A i \in s : Proper(i, n) /\ i.op \in FieldOps
    PROVE  Bundle(s, n) /\ Added(s) = {} /\ Spares(s) = {}
<1>1. \A i \in s : NewIds(i) = {}
    BY DEF NewIds, Proper, Inserts
<1>2. \A i \in s : SpareIds(i) = {}
    BY DEF SpareIds, Proper
<1>3. Bundle(s, n)
    BY DEF Bundle, Single
<1> QED
    BY <1>1, <1>2, <1>3 DEF Added, Spares

LEMMA SubBundle ==
    ASSUME NEW s, NEW t, NEW n, t \subseteq s, Bundle(s, n)
    PROVE  Bundle(t, n) /\ Added(t) \subseteq Added(s) /\ Spares(t) \subseteq Spares(s)
<1>1. Bundle(t, n)
    BY DEF Bundle, Single
<1>2. Added(t) \subseteq Added(s) /\ Spares(t) \subseteq Spares(s)
    BY DEF Added, Spares
<1> QED
    BY <1>1, <1>2

LEMMA OneBundle ==
    ASSUME NEW i, NEW n, Proper(i, n)
    PROVE  Bundle({i}, n) /\ Added({i}) = NewIds(i) /\ Spares({i}) = SpareIds(i)
<1>1. Bundle({i}, n)
    BY DEF Bundle, Single
<1>2. Added({i}) = NewIds(i) /\ Spares({i}) = SpareIds(i)
    BY DEF Added, Spares
<1> QED
    BY <1>1, <1>2

DraftFields == {"intents", "consumed", "picked"}

\* A draft that grows by new UUIDs only.
Redrafted(d, n) ==
    /\ DOMAIN d = DraftFields /\ d.consumed = draft.consumed
    /\ Bundle(d.intents, n)
    /\ Added(d.intents) \cup Spares(d.intents)
         \subseteq Added(draft.intents) \cup Spares(draft.intents) \cup (issued + 1)..n

LEMMA RedraftedInv ==
    ASSUME Inv, UNCHANGED <<net, db, epoch, reg, view, change>>, ~draft.consumed,
           issued' \in Ids, issued <= issued', Redrafted(draft', issued')
    PROVE  Inv'
<1>1. /\ TypeOK /\ Fixed /\ Waiting /\ Pending /\ Marks /\ Shown /\ Registered /\ IdentityNeverReused
      /\ net' = net /\ db' = db /\ epoch' = epoch /\ reg' = reg /\ view' = view /\ change' = change
      /\ issued \in Nat /\ issued' \in Nat /\ Ids \subseteq Nat
    BY DEF Inv, TypeOK, Ids
<1>2. ASSUME NEW g, Identified(g, issued)
      PROVE  Identified(g, issued')
    BY <1>1, <1>2, IdentifiedMore
<1>3. change.phase = "none"
    BY <1>1 DEF TypeOK
<1>4. TypeOK'
    BY <1>1, <1>2 DEF TypeOK, Redrafted
<1>5. Fixed'
    BY <1>1, <1>2 DEF Fixed
<1>6. Waiting'
    <2>1. Bundle(change.intents, issued)
        BY <1>1 DEF Waiting
    <2>2. Bundle(change.intents, issued')
        BY <1>1, <2>1, BundleMore
    <2>3. IdsOf(db) \cup IdsOf(net.rows) \subseteq 1..issued
        BY <1>1, PresentIds DEF TypeOK, Fixed
    <2>4. Unused(Added(draft'.intents) \cup Spares(draft'.intents), db, net.rows)
        <3>1. (issued + 1)..issued' \cap 1..issued = {}
            BY <1>1
        <3>2. Unused(Added(draft.intents) \cup Spares(draft.intents), db, net.rows)
            BY <1>1 DEF Waiting
        <3> QED
            BY <2>3, <3>1, <3>2 DEF Redrafted, Unused
    <2> QED
        BY <1>1, <1>3, <2>2, <2>4 DEF Waiting, Redrafted, DraftFields, Standing
<1>7. Pending' /\ Marks' /\ Shown' /\ IdentityNeverReused'
    BY <1>1 DEF Pending, Marks, Shown, IdentityNeverReused
<1>8. Registered'
    <2>1. 1..issued \subseteq 1..issued' /\ \A n \in Ids : reg.ids[n] # "none" => n <= issued'
        BY <1>1 DEF Registered
    <2> QED
        BY <1>1, <2>1 DEF Registered
<1> QED
    BY <1>4, <1>5, <1>6, <1>7, <1>8 DEF Inv

LEMMA ReplacedDraft ==
    ASSUME NEW out, NEW in, DOMAIN draft = DraftFields, Replaced(out, in)
    PROVE  /\ DOMAIN draft' = DraftFields /\ draft'.consumed = draft.consumed
           /\ draft'.intents = (draft.intents \ out) \cup in
BY DEF Replaced, DraftFields

LEMMA StageFieldDraft ==
    ASSUME Bundle(draft.intents, issued), DOMAIN draft = DraftFields,
           NEW r, r.op \in FieldOps, StageField(r)
    PROVE  Redrafted(draft', issued)
<1>1. \A i \in draft.intents : Proper(i, issued) /\ i.op \in FieldOps
    <2>1. \A i \in draft.intents : i.op \in FieldOps
        <3>1. CASE r.op \in ListOps
            BY <3>1 DEF StageField, Joins, FieldOps
        <3>2. CASE r.op \notin ListOps
            <4>1. draft.intents = Prior(r)
                BY <3>2 DEF StageField, Alone
            <4>2. \A i \in Prior(r) : i.op = r.op
                BY DEF Prior
            <4> QED
                BY <4>1, <4>2
        <3> QED
            BY <3>1, <3>2
    <2> QED
        BY <2>1 DEF Bundle
<1>2. \/ Replaced({}, {FieldIntent(view.rows, r)})
      \/ \E i \in Prior(r) : Replaced({i}, {Amended(i, view.rows, r.v)})
    BY DEF StageField
<1>3. PICK out, j : /\ Replaced(out, {j}) /\ Proper(j, issued) /\ j.op \in FieldOps
    <2>1. CASE Replaced({}, {FieldIntent(view.rows, r)})
        <3>1. /\ Proper(FieldIntent(view.rows, r), issued)
              /\ FieldIntent(view.rows, r).op \in FieldOps
            BY FieldIntentProper
        <3> QED
            BY <2>1, <3>1
    <2>2. CASE \E i \in Prior(r) : Replaced({i}, {Amended(i, view.rows, r.v)})
        <3>1. PICK i \in Prior(r) : Replaced({i}, {Amended(i, view.rows, r.v)})
            BY <2>2
        <3>2. Proper(i, issued) /\ i.op \in FieldOps
            BY <1>1 DEF Prior
        <3>3. /\ Proper(Amended(i, view.rows, r.v), issued)
              /\ Amended(i, view.rows, r.v).op \in FieldOps
            BY <3>2, AmendedProper
        <3> QED
            BY <3>1, <3>3
    <2> QED
        BY <1>2, <2>1, <2>2
<1>4. /\ DOMAIN draft' = DraftFields /\ draft'.consumed = draft.consumed
      /\ draft'.intents = (draft.intents \ out) \cup {j}
    BY <1>3, ReplacedDraft
<1>5. \A i \in draft'.intents : Proper(i, issued) /\ i.op \in FieldOps
    BY <1>1, <1>3, <1>4
<1>6. Bundle(draft'.intents, issued) /\ Added(draft'.intents) = {} /\ Spares(draft'.intents) = {}
    BY <1>5, FieldsBundle
<1> QED
    BY <1>4, <1>6 DEF Redrafted

LEMMA StageGraphDraft ==
    ASSUME issued \in Nat, DOMAIN draft = DraftFields, NEW r, r.op \notin FieldOps, StageGraph(r)
    PROVE  Redrafted(draft', issued') /\ issued' \in Ids /\ issued <= issued'
<1> DEFINE rows == Picks(view.rows, r).fresh \cup Picks(view.rows, r).doomed
           count == Cardinality(rows)
           i(ids) == GraphIntent(view.rows, r, ids)
<1>1. /\ count \in Nat /\ issued + count \in Ids /\ issued' = issued + count
      /\ \E ids \in Assigned(rows, issued + 1) :
            draft' = [draft EXCEPT !.intents = {i(ids)}, !.picked = @ + count]
    BY DEF StageGraph
<1>2. PICK ids \in Assigned(rows, issued + 1) :
            draft' = [draft EXCEPT !.intents = {i(ids)}, !.picked = @ + count]
    BY <1>1
<1> HIDE DEF rows
<1>3. /\ DOMAIN ids = rows /\ \A k \in rows : ids[k] \in (issued + 1)..(issued + 1 + count - 1)
      /\ \A j, k \in rows : ids[j] = ids[k] => j = k
    BY <1>2, AssignedIds
<1> HIDE DEF count
<1>4. (issued + 1)..(issued + 1 + count - 1) = (issued + 1)..(issued + count)
    BY <1>1
<1>5. /\ Proper(i(ids), issued + count)
      /\ NewIds(i(ids)) \cup SpareIds(i(ids)) \subseteq (issued + 1)..(issued + count)
    BY <1>1, <1>3, <1>4, GraphIntentProper DEF rows
<1> HIDE DEF i
<1>6. /\ DOMAIN draft' = DraftFields /\ draft'.consumed = draft.consumed /\ draft'.intents = {i(ids)}
    BY <1>2 DEF DraftFields
<1>7. /\ Bundle({i(ids)}, issued + count) /\ Added({i(ids)}) = NewIds(i(ids))
      /\ Spares({i(ids)}) = SpareIds(i(ids))
    BY <1>5, OneBundle
<1>8. Redrafted(draft', issued')
    BY <1>1, <1>5, <1>6, <1>7 DEF Redrafted
<1> QED
    BY <1>1, <1>8

LEMMA RestageInternalDraft ==
    ASSUME Bundle(draft.intents, issued), DOMAIN draft = DraftFields, NEW r, RestageInternal(r)
    PROVE  Redrafted(draft', issued)
<1>1. PICK i \in Prior(r) : /\ r.on \in Fresh(i)
                            /\ Replaced({i}, {[i EXCEPT !.to[r.on].cfg.vlan = r.v]})
    BY DEF RestageInternal
<1> DEFINE j == [i EXCEPT !.to[r.on].cfg.vlan = r.v]
<1>2. i \in draft.intents /\ i.op = "internal.create" /\ Proper(i, issued)
    BY DEF Prior, RestageInternal, Bundle
<1>3. i.op \notin FieldOps /\ i.op \notin DeletionOps
    BY <1>2 DEF FieldOps, ListOps, TreeOps, DeletionOps
<1>4. draft.intents = {i}
    BY <1>2, <1>3 DEF Bundle, Single
<1>5. DOMAIN i = DOMAIN Blank /\ DOMAIN i.to[r.on] = Columns /\ r.on \in DOMAIN i.to
    BY <1>1, <1>2 DEF Proper, Inserts, Fresh
<1>6. /\ DOMAIN j = DOMAIN Blank /\ j.op = i.op /\ j.from = i.from /\ j.spare = i.spare
      /\ j.to = [i.to EXCEPT ![r.on] = [@ EXCEPT !.cfg.vlan = r.v]]
    BY <1>5, BlankFields
<1> HIDE DEF j
<1>7. /\ DOMAIN j.to = DOMAIN i.to
      /\ \A k \in Fresh(i) : DOMAIN j.to[k] = Columns /\ j.to[k].id = i.to[k].id
    <2> DEFINE row == [i.to[r.on] EXCEPT !.cfg.vlan = r.v]
    <2>1. DOMAIN row = Columns /\ row.id = i.to[r.on].id
        BY <1>5 DEF Columns
    <2>2. j.to = [i.to EXCEPT ![r.on] = row]
        BY <1>6
    <2> HIDE DEF row
    <2>3. \A k \in Fresh(i) : k \in DOMAIN i.to /\ DOMAIN i.to[k] = Columns
        BY <1>2 DEF Proper, Inserts, Fresh
    <2> QED
        BY <1>5, <2>1, <2>2, <2>3
<1>8. Fresh(j) = Fresh(i) /\ Doomed(j) = Doomed(i)
    BY <1>6, <1>7 DEF Fresh, Doomed
<1>9. NewIds(j) = NewIds(i) /\ SpareIds(j) = SpareIds(i)
    BY <1>6, <1>7, <1>8 DEF NewIds, SpareIds
<1>10. Proper(j, issued)
    BY <1>2, <1>3, <1>6, <1>7, <1>8, <1>9 DEF Proper, Inserts
<1>11. Replaced({i}, {j})
    BY <1>1 DEF j
<1>12. /\ DOMAIN draft' = DraftFields /\ draft'.consumed = draft.consumed
       /\ draft'.intents = {j}
    BY <1>4, <1>11, ReplacedDraft
<1>13. /\ Bundle({j}, issued) /\ Added({j}) = NewIds(i) /\ Spares({j}) = SpareIds(i)
       /\ Added({i}) = NewIds(i) /\ Spares({i}) = SpareIds(i)
    BY <1>2, <1>9, <1>10, OneBundle
<1> QED
    BY <1>4, <1>12, <1>13 DEF Redrafted

LEMMA EditDraftInv ==
    ASSUME Inv, EditDraft, UNCHANGED change
    PROVE  Inv'
<1>1. /\ Bundle(draft.intents, issued) /\ DOMAIN draft = DraftFields /\ issued \in Nat /\ issued \in Ids
      /\ ~draft.consumed /\ UNCHANGED <<net, db, epoch, reg, view, change>>
    BY DEF Inv, Waiting, TypeOK, Ids, DraftFields, EditDraft, Open
<1>2. ASSUME NEW s, s \subseteq draft.intents, Replaced(draft.intents \ s, {})
      PROVE  Redrafted(draft', issued)
    <2>1. /\ DOMAIN draft' = DraftFields /\ draft'.consumed = draft.consumed
          /\ draft'.intents = s
        BY <1>1, <1>2, ReplacedDraft
    <2>2. /\ Bundle(s, issued) /\ Added(s) \subseteq Added(draft.intents)
          /\ Spares(s) \subseteq Spares(draft.intents)
        BY <1>1, <1>2, SubBundle
    <2> QED
        BY <2>1, <2>2 DEF Redrafted
<1>3. Redrafted(draft', issued') /\ issued' \in Ids /\ issued <= issued'
    <2>1. CASE \E r \in net.requests : r.op \in FieldOps /\ StageField(r)
        <3>1. PICK r \in net.requests : r.op \in FieldOps /\ StageField(r)
            BY <2>1
        <3>2. Redrafted(draft', issued) /\ issued' = issued
            BY <1>1, <3>1, StageFieldDraft DEF StageField
        <3> QED
            BY <1>1, <3>2
    <2>2. CASE \E r \in net.requests : r.op \notin FieldOps /\ StageGraph(r)
        BY <1>1, <2>2, StageGraphDraft
    <2>3. CASE \E r \in net.requests : RestageInternal(r)
        <3>1. PICK r \in net.requests : RestageInternal(r)
            BY <2>3
        <3>2. Redrafted(draft', issued) /\ issued' = issued
            BY <1>1, <3>1, RestageInternalDraft DEF RestageInternal
        <3> QED
            BY <1>1, <3>2
    <2>4. CASE \E i \in draft.intents : Remove(i)
        <3>1. PICK i \in draft.intents : Remove(i)
            BY <2>4
        <3>2. draft.intents \ (draft.intents \ {i}) = {i}
            OBVIOUS
        <3>3. Redrafted(draft', issued) /\ issued' = issued
            BY <1>2, <3>1, <3>2 DEF Remove
        <3> QED
            BY <1>1, <3>3
    <2>5. CASE Discard
        <3>1. Replaced(draft.intents \ {}, {}) /\ issued' = issued
            BY <2>5 DEF Discard
        <3>2. Redrafted(draft', issued)
            BY <1>2, <3>1
        <3> QED
            BY <1>1, <3>1, <3>2
    <2>6. CASE \E keep \in SUBSET draft.intents : Rebase(keep)
        <3>1. PICK keep \in SUBSET draft.intents : Rebase(keep)
            BY <2>6
        <3> DEFINE again(i) == FieldIntent(view.rows, [op |-> i.op, key |-> i.key, v |-> i.after])
                   s == {again(i) : i \in keep}
        <3>2. Replaced(draft.intents, s) /\ issued' = issued
            BY <3>1 DEF Rebase
        <3>3. \A i \in keep : i.op \in FieldOps
            BY <3>1 DEF Rebase, Rebasable, FieldOps
        <3>4. ASSUME NEW i \in keep
              PROVE  Proper(again(i), issued) /\ again(i).op \in FieldOps
            BY <3>3, FieldIntentProper
        <3> HIDE DEF again
        <3>5. \A j \in s : Proper(j, issued) /\ j.op \in FieldOps
            BY <3>4
        <3> HIDE DEF s
        <3>6. Bundle(s, issued) /\ Added(s) = {} /\ Spares(s) = {}
            BY <3>5, FieldsBundle
        <3>7. /\ DOMAIN draft' = DraftFields /\ draft'.consumed = draft.consumed /\ draft'.intents = s
            BY <1>1, <3>2, ReplacedDraft
        <3> QED
            BY <1>1, <3>2, <3>6, <3>7 DEF Redrafted
    <2> QED
        BY <2>1, <2>2, <2>3, <2>4, <2>5, <2>6 DEF EditDraft
<1> QED
    BY <1>1, <1>3, RedraftedInv

-----------------------------------------------------------------------------
(* The way of a change.                                                    *)

LEMMA BackwardsBundle ==
    ASSUME NEW s, NEW n, Bundle(s, n)
    PROVE  /\ Single(Backwards(s)) /\ \A j \in Backwards(s) : Inserts(j, n)
           /\ Added(Backwards(s)) = Spares(s)
<1>1. ASSUME NEW i \in s
      PROVE  /\ Reverse(i).op = i.op /\ NewIds(Reverse(i)) = SpareIds(i) /\ Inserts(Reverse(i), n)
             /\ i.op \in FieldOps \/ s = {i}
    <2>1. Proper(i, n) /\ (i.op \in FieldOps \/ s = {i})
        BY DEF Bundle, Single
    <2> QED
        BY <2>1, ReverseInserts
<1>2. \A j \in Backwards(s) : Inserts(j, n)
    BY <1>1 DEF Backwards
<1>3. ASSUME NEW j \in Backwards(s)
      PROVE  j.op \in FieldOps \/ Backwards(s) = {j}
    <2>1. PICK i \in s : j = Reverse(i)
        BY DEF Backwards
    <2>2. CASE i.op \in FieldOps
        BY <1>1, <2>1, <2>2
    <2>3. CASE s = {i}
        BY <2>1, <2>3 DEF Backwards
    <2> QED
        BY <1>1, <2>2, <2>3
<1>4. Added(Backwards(s)) = Spares(s)
    BY <1>1 DEF Backwards, Added, Spares
<1> QED
    BY <1>2, <1>3, <1>4 DEF Single

LEMMA ReservedIds ==
    ASSUME NEW s, NEW p \in Reserved(s)
    PROVE  p[1] \in Added(s) \cup Spares(s)
<1>1. PICK i \in s : p \in {<<i.to[k].id, "go">> : k \in Fresh(i)}
                          \cup {<<i.spare[k], "back">> : k \in DOMAIN i.spare}
    BY DEF Reserved
<1>2. p[1] \in NewIds(i) \cup SpareIds(i)
    BY <1>1 DEF NewIds, SpareIds
<1> QED
    BY <1>2 DEF Added, Spares

LEMMA WithReservedFields ==
    ASSUME NEW r, DOMAIN r = RegFields, r.ids \in [Ids -> States], NEW pairs
    PROVE  LET q == WithReserved(r, pairs) IN
           /\ DOMAIN q = RegFields /\ q.gen = r.gen /\ q.state = r.state /\ q.evidence = r.evidence
           /\ q.ids \in [Ids -> States]
           /\ \A n \in Ids : (\E p \in pairs : p[1] = n) => q.ids[n] = "pending"
           /\ \A n \in Ids : ~(\E p \in pairs : p[1] = n) => q.ids[n] = r.ids[n]
<1> DEFINE ids == [n \in Ids |-> IF \E p \in pairs : p[1] = n THEN "pending" ELSE r.ids[n]]
           q == WithReserved(r, pairs)
<1>1. /\ DOMAIN q = RegFields /\ q.gen = r.gen /\ q.state = r.state /\ q.evidence = r.evidence
      /\ q.ids = ids
    BY DEF WithReserved, RegFields
<1>2. /\ ids \in [Ids -> States]
      /\ \A n \in Ids : (\E p \in pairs : p[1] = n) => ids[n] = "pending"
      /\ \A n \in Ids : ~(\E p \in pairs : p[1] = n) => ids[n] = r.ids[n]
    BY DEF States
<1> HIDE DEF ids, q
<1> QED
    BY <1>1, <1>2 DEF q

LEMMA RetirePendingFields ==
    ASSUME NEW r, DOMAIN r = RegFields, r.ids \in [Ids -> States]
    PROVE  LET q == RetirePending(r) IN
           /\ DOMAIN q = RegFields /\ q.gen = r.gen /\ q.state = r.state /\ q.evidence = r.evidence
           /\ q.ids \in [Ids -> States]
           /\ \A n \in Ids : r.ids[n] = "pending" => q.ids[n] = "tombstone"
           /\ \A n \in Ids : r.ids[n] # "pending" => q.ids[n] = r.ids[n]
BY DEF RetirePending, RegFields, States

LEMMA AdmitInv ==
    ASSUME Inv, Admit
    PROVE  Inv'
<1> DEFINE s == draft.intents
<1>1. /\ TypeOK /\ Fixed /\ Waiting /\ Pending /\ Marks /\ Registered /\ IdentityNeverReused
      /\ net' = net /\ db' = db /\ issued' = issued /\ epoch' = epoch /\ view' = view
      /\ change.phase = "none" /\ view.ok /\ ~draft.consumed
      /\ \A p \in Reserved(s) : reg.ids[p[1]] = "none"
      /\ reg' = WithReserved(reg, Reserved(s)) /\ draft' = [draft EXCEPT !.consumed = TRUE]
      /\ change' = [phase |-> "ready", intents |-> s, at |-> <<>>,
                    wait |-> Compiled(s, view.rows), evidence |-> Continuity]
    BY DEF Inv, Admit, Usable, Consumed
<1>2. /\ DOMAIN draft' = DraftFields /\ draft'.consumed = TRUE /\ draft'.intents = s
      /\ Bundle(s, issued) /\ Unused(Added(s) \cup Spares(s), db, net.rows)
    BY <1>1 DEF Waiting, DraftFields
<1>3. /\ DOMAIN change' = {"phase", "intents", "wait", "evidence", "at"}
      /\ change'.phase = "ready" /\ change'.intents = s /\ change'.wait = Compiled(s, view.rows)
      /\ change'.evidence.epoch = view.evidence.epoch
    BY <1>1 DEF Continuity
<1>4. /\ DOMAIN reg = RegFields /\ reg.ids \in [Ids -> States]
      /\ issued \in Nat /\ 1..issued \subseteq Ids
    BY <1>1, NativeAssumption DEF Registered, TypeOK, RegFields, States, Ids
<1>5. /\ DOMAIN reg' = RegFields /\ reg'.gen = reg.gen /\ reg'.state = reg.state
      /\ reg'.evidence = reg.evidence /\ reg'.ids \in [Ids -> States]
      /\ \A n \in Ids : (\E p \in Reserved(s) : p[1] = n) => reg'.ids[n] = "pending"
      /\ \A n \in Ids : ~(\E p \in Reserved(s) : p[1] = n) => reg'.ids[n] = reg.ids[n]
    BY <1>1, <1>4, WithReservedFields
<1>6. ASSUME NEW n \in Ids
      PROVE  \/ reg'.ids[n] = reg.ids[n]
             \/ reg.ids[n] = "none" /\ reg'.ids[n] = "pending" /\ n \in Added(s) \cup Spares(s)
    <2>1. CASE \E p \in Reserved(s) : p[1] = n
        BY <1>1, <1>5, <2>1, ReservedIds
    <2>2. CASE ~ \E p \in Reserved(s) : p[1] = n
        BY <1>5, <2>2
    <2> QED
        BY <2>1, <2>2
<1> HIDE DEF s
<1>7. TypeOK'
    BY <1>1, <1>2, <1>3, <1>5 DEF TypeOK, Phases, States
<1>8. Fixed'
    BY <1>1, <1>3 DEF Fixed
<1>9. Waiting'
    <2>1. Fenced(s, Compiled(s, view.rows))
        BY <1>2, CompiledFences DEF Bundle, Proper, Inserts
    <2> QED
        BY <1>1, <1>2, <1>3, <2>1 DEF Waiting, DraftFields, Standing
<1>10. Pending'
    BY <1>1, <1>3, <1>6 DEF Pending, Going, Before0
<1>11. Marks' /\ Shown'
    BY <1>1, <1>3 DEF Marks, Shown, Before0, Standing
<1>12. Gone(reg') = Gone(reg)
    BY <1>6 DEF Gone
<1>13. Registered'
    <2>1. Added(s) \cup Spares(s) \subseteq 1..issued
        BY <1>2, <1>4, BundleMore
    <2>2. \A n \in Ids : reg'.ids[n] # "none" => n <= issued
        BY <1>1, <1>4, <1>6, <2>1 DEF Registered
    <2>3. Present(view.rows) \subseteq Ids
        BY <1>1, <1>4, PresentIds DEF TypeOK
    <2>4. view.confirmed => \A x \in Present(view.rows) : reg'.ids[x] = "active"
        BY <1>1, <1>6, <2>3 DEF Registered
    <2>5. view.gone = Gone(reg)
        BY <1>1 DEF Registered, Going, Before0
    <2> QED
        BY <1>1, <1>3, <1>5, <1>12, <2>2, <2>4, <2>5 DEF Registered, RegFields
<1>14. IdentityNeverReused'
    BY <1>1, <1>5, <1>12 DEF IdentityNeverReused
<1> QED
    BY <1>7, <1>8, <1>9, <1>10, <1>11, <1>13, <1>14 DEF Inv

ChangeFields == {"phase", "intents", "wait", "evidence", "at"}

\* A verdict gives up the reservations that name no row on the server.
LEMMA VerdictInv ==
    ASSUME Inv, UNCHANGED <<net, db, issued, epoch, view, draft>>, change.phase # "none",
           DOMAIN change' = ChangeFields, change'.phase \in {"refused", "confirmed", "undone"},
           change'.intents = change.intents, change'.evidence = change.evidence,
           reg' = Journalled(reg, change'.phase),
           \A n \in Ids : reg.ids[n] = "pending" => n \notin Present(db)
    PROVE  Inv'
<1>1. /\ TypeOK /\ Fixed /\ Waiting /\ Pending /\ Marks /\ Registered /\ IdentityNeverReused
      /\ net' = net /\ db' = db /\ issued' = issued /\ epoch' = epoch /\ view' = view /\ draft' = draft
    BY DEF Inv
<1>2. /\ DOMAIN reg = RegFields /\ reg.ids \in [Ids -> States]
      /\ issued \in Nat /\ 1..issued \subseteq Ids
    BY <1>1, NativeAssumption DEF Registered, TypeOK, RegFields, States, Ids
<1>3. reg' = RetirePending(reg)
    BY DEF Journalled, Settles
<1>4. /\ DOMAIN reg' = RegFields /\ reg'.gen = reg.gen /\ reg'.state = reg.state
      /\ reg'.evidence = reg.evidence /\ reg'.ids \in [Ids -> States]
      /\ \A n \in Ids : reg.ids[n] = "pending" => reg'.ids[n] = "tombstone"
      /\ \A n \in Ids : reg.ids[n] # "pending" => reg'.ids[n] = reg.ids[n]
    BY <1>2, <1>3, RetirePendingFields
<1>5. TypeOK'
    BY <1>1, <1>4 DEF TypeOK, Phases, States
<1>6. Fixed' /\ Waiting'
    BY <1>1 DEF Fixed, Waiting, Standing, ChangeFields
<1>7. Pending'
    BY <1>4 DEF Pending
<1>8. Marks' /\ Shown'
    BY <1>1 DEF Marks, Shown, Before0, Standing
<1>9. Registered'
    <2>1. \A n \in Ids : reg'.ids[n] # "none" => n <= issued
        BY <1>1, <1>2, <1>4 DEF Registered
    <2>2. Present(view.rows) \subseteq Ids
        BY <1>1, <1>2, PresentIds DEF TypeOK
    <2>3. view.ok /\ view.confirmed => \A x \in Present(view.rows) : reg'.ids[x] = "active"
        BY <1>1, <1>4, <2>2 DEF Registered
    <2>4. change'.phase \notin Going
        BY DEF Going, Before0, Standing
    <2> QED
        BY <1>1, <1>4, <2>1, <2>3, <2>4 DEF Registered, RegFields
<1>10. IdentityNeverReused'
    <2>1. \A n \in Gone(reg') : n \in Gone(reg) \/ n \notin Present(db)
        BY <1>2, <1>4 DEF Gone
    <2> QED
        BY <1>1, <1>4, <2>1 DEF IdentityNeverReused
<1> QED
    BY <1>5, <1>6, <1>7, <1>8, <1>9, <1>10 DEF Inv

\* A transaction that goes through.
LEMMA WrittenRows ==
    ASSUME Inv, NEW s, NEW marker, NEW waits, Single(s), \A i \in s : Inserts(i, issued),
           Added(s) \cap IdsOf(db) = {}, Fenced(s, waits), \A w \in waits : Holds(w),
           view.ok, change.phase \in Going, \A i \in s : Checks(i, view.rows),
           db' = Applied(db, s, marker), UNCHANGED <<issued, epoch, reg>>
    PROVE  /\ Ours(db, db', Added(s), marker) /\ Identified(db', issued)
           /\ IdsOf(db') \subseteq IdsOf(db) \cup Added(s)
           /\ IdentityNeverReused'
<1>1. /\ TypeOK /\ Registered /\ IdentityNeverReused /\ issued \in Nat /\ Identified(db, issued)
      /\ Root \in DOMAIN db
    BY DEF Inv, TypeOK, Ids, Identified
<1>2. \A i \in s : Root \notin Fresh(i)
    BY <1>1, FencedRoot
<1>3. Ours(db, db', Added(s), marker)
    BY <1>1, <1>2, AppliedOurs
<1>4. Added(s) \subseteq 1..issued
    BY DEF Added, Inserts
<1>5. /\ Identified(db', issued) /\ IdsOf(db') \subseteq IdsOf(db) \cup Added(s)
      /\ Present(db') \subseteq Present(db) \cup Added(s)
    BY <1>1, <1>3, <1>4, GrownApart DEF Ours
<1>6. view.gone = Gone(reg)
    BY <1>1 DEF Registered
<1>7. \A i \in s : NewIds(i) \cap Gone(reg) = {}
    <2>1. ASSUME NEW i \in s, i.op \in FieldOps
          PROVE  NewIds(i) = {}
        BY <2>1 DEF Inserts, NewIds
    <2>2. ASSUME NEW i \in s, i.op \notin FieldOps
          PROVE  NewIds(i) \cap Gone(reg) = {}
        BY <1>6, <2>2, ChecksCreatable
    <2> QED
        BY <2>1, <2>2
<1>8. Added(s) \cap Gone(reg) = {}
    BY <1>7 DEF Added
<1>9. db'[Root].id = db[Root].id
    BY <1>3 DEF Ours
<1>10. IdentityNeverReused'
    BY <1>1, <1>5, <1>8, <1>9 DEF IdentityNeverReused
<1> QED
    BY <1>3, <1>5, <1>10

LEMMA CommitInv ==
    ASSUME Inv, Commit
    PROVE  Inv'
<1> DEFINE s == change.intents
<1>1. /\ TypeOK /\ Fixed /\ Waiting /\ Pending /\ Marks /\ Registered
      /\ net' = net /\ issued' = issued /\ epoch' = epoch /\ view' = view /\ draft' = draft
      /\ change.phase = "ready" /\ reg' = Journalled(reg, change'.phase)
      /\ \/ /\ Sendable(s) /\ \A w \in change.wait : Holds(w)
            /\ db' = Applied(db, s, "go")
            /\ change' = [change EXCEPT !.phase = "committed", !.wait = {}, !.at = done]
         \/ /\ change' = [change EXCEPT !.phase = "refused", !.wait = {}] /\ db' = db
    BY DEF Inv, Commit
<1>2. /\ DOMAIN change = ChangeFields /\ Bundle(s, issued) /\ issued \in Nat
      /\ Unused(Added(s) \cup Spares(s), db, net.rows) /\ Fenced(s, change.wait)
    BY <1>1 DEF Fixed, Waiting, ChangeFields, TypeOK, Ids
<1>3. CASE change' = [change EXCEPT !.phase = "refused", !.wait = {}] /\ db' = db
    <2>1. /\ DOMAIN change' = ChangeFields /\ change'.phase = "refused"
          /\ change'.intents = change.intents /\ change'.evidence = change.evidence
        BY <1>2, <1>3 DEF ChangeFields
    <2>2. \A n \in Ids : reg.ids[n] = "pending" => n \notin Present(db)
        <3>1. \A n \in Ids : reg.ids[n] = "pending" => n \notin IdsOf(db)
            BY <1>1, <1>2 DEF Pending, Unused
        <3>2. Present(db) \subseteq IdsOf(db)
            BY <1>1, PresentIds DEF TypeOK
        <3> QED
            BY <3>1, <3>2
    <2> QED
        BY <1>1, <1>3, <2>1, <2>2, VerdictInv
<1>4. CASE /\ Sendable(s) /\ \A w \in change.wait : Holds(w)
           /\ db' = Applied(db, s, "go")
           /\ change' = [change EXCEPT !.phase = "committed", !.wait = {}, !.at = done]
    <2>1. /\ DOMAIN change' = ChangeFields /\ change'.phase = "committed"
          /\ change'.intents = s /\ change'.evidence = change.evidence
        BY <1>2, <1>4 DEF ChangeFields
    <2>2. reg' = reg
        BY <1>1, <2>1 DEF Journalled, Settles
    <2>3. /\ Single(s) /\ \A i \in s : Inserts(i, issued) /\ Checks(i, view.rows)
          /\ Added(s) \cap IdsOf(db) = {} /\ view.ok /\ change.phase \in Going
        BY <1>1, <1>2, <1>4 DEF Bundle, Proper, Unused, Sendable, Usable, Going, Before0
    <2>4. /\ Ours(db, db', Added(s), "go") /\ Identified(db', issued)
          /\ IdsOf(db') \subseteq IdsOf(db) \cup Added(s)
          /\ IdentityNeverReused'
        BY <1>1, <1>2, <1>4, <2>2, <2>3, WrittenRows
    <2> HIDE DEF s
    <2>5. TypeOK'
        BY <1>1, <2>1, <2>2, <2>4 DEF TypeOK, Phases
    <2>6. Fixed'
        BY <1>1, <2>1 DEF Fixed, ChangeFields
    <2>7. Waiting'
        <3>1. Added(s) \cap Spares(s) = {}
            BY <1>2, BundleMore
        <3>2. Unused(Spares(s), db', net.rows)
            BY <1>2, <2>4, <3>1 DEF Unused
        <3> QED
            BY <1>1, <1>2, <2>1, <3>2 DEF Waiting, TypeOK
    <2>8. Pending'
        BY <1>1, <2>1, <2>2 DEF Pending, Going, Before0, Standing, s
    <2>9. Marks' /\ Shown'
        <3>1. db'[Root].mark \in {db[Root].mark, "go"}
            BY <2>4 DEF Ours
        <3> QED
            BY <1>1, <2>1, <3>1 DEF Marks, Shown, Before0, Standing
    <2>10. Registered'
        BY <1>1, <2>1, <2>2 DEF Registered, Going, Before0, Standing
    <2> QED
        BY <2>4, <2>5, <2>6, <2>7, <2>8, <2>9, <2>10 DEF Inv
<1> QED
    BY <1>1, <1>3, <1>4

LEMMA ConfirmInv ==
    ASSUME Inv, Confirm
    PROVE  Inv'
<1> DEFINE s == change.intents
<1>1. /\ TypeOK /\ Fixed /\ Waiting /\ Pending /\ Shown /\ Registered
      /\ UNCHANGED <<net, db, issued, epoch, view, draft>>
      /\ change.phase = "committed" /\ view.ok /\ view.confirmed
      /\ epoch = change.evidence.epoch /\ \A i \in s : Proven(i, "go")
      /\ change' = [change EXCEPT !.phase = "confirmed"] /\ reg' = Journalled(reg, change'.phase)
    BY DEF Inv, Confirm, Usable, SameServer
<1>2. /\ DOMAIN change' = ChangeFields /\ change'.phase = "confirmed"
      /\ change'.intents = s /\ change'.evidence = change.evidence
    BY <1>1 DEF Fixed, ChangeFields
<1>3. Bundle(s, issued) /\ Unused(Spares(s), db, net.rows)
    BY <1>1 DEF Waiting, Standing
<1>4. ASSUME NEW n \in Ids, reg.ids[n] = "pending", n \in Present(db)
      PROVE  FALSE
    <2>1. n \in Added(s) \cup Spares(s)
        BY <1>1, <1>4 DEF Pending
    <2>2. n \in IdsOf(db)
        BY <1>1, <1>4, PresentIds DEF TypeOK
    <2>3. n \in Added(s)
        BY <1>3, <2>1, <2>2 DEF Unused
    <2>4. PICK i \in s : n \in NewIds(i)
        BY <2>3 DEF Added
    <2>5. i.op \notin FieldOps
        BY <1>3, <2>4 DEF Bundle, Proper, Inserts, NewIds
    <2>6. view.rows[Root].mark = "go"
        BY <1>1, <2>5 DEF Proven, Seen, Marker
    <2>7. n \in Present(view.rows)
        BY <1>1, <1>4, <2>3, <2>6 DEF Shown, Standing
    <2> QED
        BY <1>1, <1>4, <2>7 DEF Registered
<1> QED
    BY <1>1, <1>2, <1>4, VerdictInv

LEMMA WithdrawInv ==
    ASSUME Inv, Withdraw
    PROVE  Inv'
<1>1. /\ TypeOK /\ Fixed /\ Waiting /\ Pending /\ Marks /\ Shown /\ Registered /\ IdentityNeverReused
      /\ net' = net /\ db' = db /\ issued' = issued /\ epoch' = epoch /\ reg' = reg /\ view' = view
      /\ draft' = draft /\ change.phase = "committed"
      /\ change' = [change EXCEPT !.phase = "undoing",
                                  !.wait = Compiled(Backwards(change.intents), view.rows)]
    BY DEF Inv, Withdraw, nativeVars
<1>2. /\ DOMAIN change' = ChangeFields /\ change'.phase = "undoing"
      /\ change'.intents = change.intents /\ change'.evidence = change.evidence
      /\ change'.wait = Compiled(Backwards(change.intents), view.rows)
    BY <1>1 DEF Fixed, ChangeFields
<1>3. TypeOK' /\ Fixed'
    BY <1>1, <1>2 DEF TypeOK, Fixed, Phases, ChangeFields
<1>4. Waiting'
    <2>1. Bundle(change.intents, issued)
        BY <1>1 DEF Waiting
    <2>2. \A j \in Backwards(change.intents) : Inserts(j, issued)
        BY <2>1, BackwardsBundle
    <2>3. Fenced(Backwards(change.intents), Compiled(Backwards(change.intents), view.rows))
        BY <2>2, CompiledFences DEF Inserts
    <2> QED
        BY <1>1, <1>2, <2>3 DEF Waiting, Standing
<1>5. Pending'
    BY <1>1, <1>2 DEF Pending, Going, Before0, Standing
<1>6. Marks' /\ Shown'
    BY <1>1, <1>2 DEF Marks, Shown, Before0, Standing
<1>7. Registered' /\ IdentityNeverReused'
    BY <1>1, <1>2 DEF Registered, IdentityNeverReused, Going, Before0, Standing
<1> QED
    BY <1>3, <1>4, <1>5, <1>6, <1>7 DEF Inv

LEMMA UndoInv ==
    ASSUME Inv, Undo
    PROVE  Inv'
<1> DEFINE s == change.intents
           t == Backwards(change.intents)
<1>1. /\ TypeOK /\ Fixed /\ Waiting /\ Pending /\ Marks /\ Shown /\ Registered /\ IdentityNeverReused
      /\ net' = net /\ issued' = issued /\ epoch' = epoch /\ reg' = reg /\ view' = view /\ draft' = draft
      /\ change.phase = "undoing"
      /\ \/ /\ Sendable(t) /\ \A w \in change.wait : Holds(w)
            /\ db' = Applied(db, t, "back")
            /\ change' = [change EXCEPT !.phase = "rolled", !.wait = {}]
         \/ /\ change' = [change EXCEPT !.phase = "committed", !.wait = {}] /\ db' = db
    BY DEF Inv, Undo
<1>2. /\ DOMAIN change = ChangeFields /\ Bundle(s, issued)
      /\ Unused(Spares(s), db, net.rows) /\ Fenced(t, change.wait)
    BY <1>1 DEF Fixed, Waiting, ChangeFields, Standing
<1>3. CASE change' = [change EXCEPT !.phase = "committed", !.wait = {}] /\ db' = db
    <2>1. /\ DOMAIN change' = ChangeFields /\ change'.phase = "committed"
          /\ change'.intents = s /\ change'.evidence = change.evidence
        BY <1>2, <1>3 DEF ChangeFields
    <2>2. TypeOK' /\ Fixed'
        BY <1>1, <1>3, <2>1 DEF TypeOK, Fixed, Phases, ChangeFields
    <2>3. Waiting'
        BY <1>1, <1>2, <1>3, <2>1 DEF Waiting, Standing
    <2>4. Pending'
        BY <1>1, <2>1 DEF Pending, Going, Before0, Standing
    <2>5. Marks' /\ Shown'
        BY <1>1, <1>3, <2>1 DEF Marks, Shown, Before0, Standing
    <2>6. Registered' /\ IdentityNeverReused'
        BY <1>1, <1>3, <2>1 DEF Registered, IdentityNeverReused, Going, Before0, Standing
    <2> QED
        BY <2>2, <2>3, <2>4, <2>5, <2>6 DEF Inv
<1>4. CASE /\ Sendable(t) /\ \A w \in change.wait : Holds(w)
           /\ db' = Applied(db, t, "back")
           /\ change' = [change EXCEPT !.phase = "rolled", !.wait = {}]
    <2>1. /\ DOMAIN change' = ChangeFields /\ change'.phase = "rolled"
          /\ change'.intents = s /\ change'.evidence = change.evidence
        BY <1>2, <1>4 DEF ChangeFields
    <2>2. Single(t) /\ (\A j \in t : Inserts(j, issued)) /\ Added(t) = Spares(s)
        BY <1>2, BackwardsBundle
    <2>3. /\ \A j \in t : Checks(j, view.rows)
          /\ Added(t) \cap IdsOf(db) = {} /\ view.ok /\ change.phase \in Going
        BY <1>1, <1>2, <1>4, <2>2 DEF Unused, Sendable, Usable, Going, Standing
    <2> HIDE DEF s, t
    <2>4. Identified(db', issued) /\ IdentityNeverReused'
        BY <1>1, <1>2, <1>4, <2>2, <2>3, WrittenRows
    <2>5. TypeOK'
        BY <1>1, <2>1, <2>4 DEF TypeOK, Phases
    <2>6. Fixed'
        BY <1>1, <2>1 DEF Fixed, ChangeFields
    <2>7. Waiting'
        BY <1>1, <1>2, <2>1 DEF Waiting, Standing, TypeOK
    <2>8. Pending'
        BY <1>1, <2>1 DEF Pending, Going, Before0, Standing, s
    <2>9. Marks' /\ Shown'
        BY <1>1, <2>1 DEF Marks, Shown, Before0, Standing
    <2>10. Registered'
        BY <1>1, <2>1 DEF Registered, Going, Before0, Standing
    <2> QED
        BY <2>4, <2>5, <2>6, <2>7, <2>8, <2>9, <2>10 DEF Inv
<1> QED
    BY <1>1, <1>3, <1>4

LEMMA RestoredInv ==
    ASSUME Inv, Restored
    PROVE  Inv'
<1> DEFINE s == change.intents
<1>1. /\ TypeOK /\ Fixed /\ Waiting /\ Pending /\ Shown /\ Registered
      /\ UNCHANGED <<net, db, issued, epoch, view, draft>>
      /\ change.phase = "rolled" /\ view.ok /\ view.confirmed
      /\ epoch = change.evidence.epoch /\ \A j \in Backwards(s) : Proven(j, "back")
      /\ change' = [change EXCEPT !.phase = "undone"] /\ reg' = Journalled(reg, change'.phase)
    BY DEF Inv, Restored, Usable, SameServer
<1>2. /\ DOMAIN change' = ChangeFields /\ change'.phase = "undone"
      /\ change'.intents = s /\ change'.evidence = change.evidence
    BY <1>1 DEF Fixed, ChangeFields
<1>3. Bundle(s, issued)
    BY <1>1 DEF Waiting
<1>4. ASSUME NEW i \in s
      PROVE  /\ Reverse(i).op = i.op /\ Proven(Reverse(i), "back")
             /\ i.op \notin DeletionOps => Reverse(i).old = NewIds(i)
             /\ i.op \in DeletionOps \cup FieldOps => NewIds(i) = {}
             /\ i.op \in FieldOps => SpareIds(i) = {}
    <2>1. Proper(i, issued)
        BY <1>3 DEF Bundle
    <2>2. Reverse(i) \in Backwards(s)
        BY DEF Backwards
    <2>3. i.op \in DeletionOps \cup FieldOps => NewIds(i) = {}
        BY <2>1 DEF Proper, Inserts, NewIds
    <2>4. i.op \in FieldOps => SpareIds(i) = {}
        BY <2>1 DEF Proper, SpareIds
    <2> QED
        BY <1>1, <2>1, <2>2, <2>3, <2>4, ReverseInserts
<1>5. ASSUME NEW n \in Ids, reg.ids[n] = "pending", n \in Present(db)
      PROVE  FALSE
    <2>1. n \in Added(s) \cup Spares(s)
        BY <1>1, <1>5 DEF Pending
    <2>2. CASE n \in Added(s)
        <3>1. PICK i \in s : n \in NewIds(i)
            BY <2>2 DEF Added
        <3>2. Reverse(i).old = NewIds(i) /\ Proven(Reverse(i), "back")
            BY <1>4, <3>1
        <3>3. Reverse(i).old \cap Present(db) = {}
            BY <3>2 DEF Proven, Proof
        <3> QED
            BY <1>5, <3>1, <3>2, <3>3
    <2>3. CASE n \in Spares(s)
        <3>1. PICK i \in s : n \in SpareIds(i)
            BY <2>3 DEF Spares
        <3>2. i.op \notin FieldOps /\ Reverse(i).op = i.op /\ Proven(Reverse(i), "back")
            BY <1>4, <3>1
        <3>3. view.rows[Root].mark = "back"
            BY <3>2 DEF Proven, Seen, Marker
        <3>4. n \in Present(view.rows)
            BY <1>1, <1>5, <2>3, <3>3 DEF Shown
        <3> QED
            BY <1>1, <1>5, <3>4 DEF Registered
    <2> QED
        BY <2>1, <2>2, <2>3
<1> QED
    BY <1>1, <1>2, <1>5, VerdictInv

LEMMA StutterInv == ASSUME Inv, UNCHANGED changeVars PROVE Inv'
<1>1. /\ TypeOK /\ Fixed /\ Waiting /\ Pending /\ Marks /\ Shown /\ Registered /\ IdentityNeverReused
      /\ net' = net /\ db' = db /\ issued' = issued /\ epoch' = epoch /\ reg' = reg /\ view' = view
      /\ draft' = draft /\ change' = change
    BY DEF Inv, changeVars, nativeVars
<1>2. TypeOK' /\ Fixed' /\ Waiting' /\ Pending'
    BY <1>1 DEF TypeOK, Fixed, Waiting, Pending
<1>3. Marks' /\ Shown' /\ Registered' /\ IdentityNeverReused'
    BY <1>1 DEF Marks, Shown, Registered, IdentityNeverReused
<1> QED
    BY <1>2, <1>3 DEF Inv

LEMMA NextInv == Inv /\ [Next]_changeVars => Inv'
<1> SUFFICES ASSUME Inv, [Next]_changeVars PROVE Inv'
    OBVIOUS
<1>1. CASE ForeignEdit /\ UNCHANGED <<draft, change>>
    BY <1>1, ForeignEditInv
<1>2. CASE Publish /\ UNCHANGED <<draft, change>>
    BY <1>2, PublishInv
<1>3. CASE Accept /\ UNCHANGED <<draft, change>>
    BY <1>3, AcceptInv
<1>4. CASE Break /\ UNCHANGED <<draft, change>>
    BY <1>4, BreakInv
<1>5. CASE EditDraft /\ UNCHANGED change
    BY <1>5, EditDraftInv
<1>6. CASE Admit
    BY <1>6, AdmitInv
<1>7. CASE Commit
    BY <1>7, CommitInv
<1>8. CASE Confirm
    BY <1>8, ConfirmInv
<1>9. CASE Withdraw
    BY <1>9, WithdrawInv
<1>10. CASE Undo
    BY <1>10, UndoInv
<1>11. CASE Restored
    BY <1>11, RestoredInv
<1>12. CASE UNCHANGED changeVars
    BY <1>12, StutterInv
<1> QED
    BY <1>1, <1>2, <1>3, <1>4, <1>5, <1>6, <1>7, <1>8, <1>9, <1>10, <1>11, <1>12 DEF Next

LEMMA Invariance == Spec => []Inv
<1>1. Init => Inv
    BY InitInv
<1>2. Inv /\ [Next]_changeVars => Inv'
    BY NextInv
<1> QED
    BY <1>1, <1>2, PTL DEF Spec

-----------------------------------------------------------------------------
(* Results.                                                                *)

\* Whatever is staged, committed, undone, edited by others or restored, rows
\* have different UUIDs that were handed out, the registry holds each identity
\* in one state, and exactly one change uses a draft up.
THEOREM ChangeTypes == Spec => []TypeOK
<1>1. Inv => TypeOK
    BY DEF Inv
<1> QED
    BY <1>1, Invariance, PTL

\* Within one instance of the database, no row has a UUID that the registry
\* gave up: neither a row that was deleted before nor a row that a refused,
\* confirmed or undone change had reserved its UUID for.
THEOREM IdentitiesNeverReused == Spec => []IdentityNeverReused
<1>1. Inv => IdentityNeverReused
    BY DEF Inv
<1> QED
    BY <1>1, Invariance, PTL

\* Only a change under way has reserved UUIDs, and the view that drafts and
\* checks are computed from knows the same UUIDs as given up as the registry.
THEOREM ReservationsBelong == Spec => [](Pending /\ Registered)
<1>1. Inv => Pending /\ Registered
    BY DEF Inv
<1> QED
    BY <1>1, Invariance, PTL
=============================================================================
