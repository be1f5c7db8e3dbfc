---------------------------- MODULE ForeignProofs ---------------------------
(***************************************************************************)
(* Changes, for every network, every set of requests and of foreign edits: *)
(* our transactions leave rows and references that are not part of the     *)
(* change as they are. ovsdb-server collects what loses its last strong    *)
(* reference, so this is about reachability: the rows that a change takes  *)
(* away hold nothing but each other, and what it keeps stays within reach  *)
(* of the root although ports move and members change hands.               *)
(***************************************************************************)
EXTENDS ReviewProofs, FiniteSetTheorems

-----------------------------------------------------------------------------
(* Garbage collection.                                                     *)

\* A part in which everything is held survives.
LEMMA SettleKeeps ==
    ASSUME NEW g, Typed(g), NEW S, S \subseteq DOMAIN g, Root \in S,
           \A k \in S \ {Root} : \E h \in S : k \in g[h].links
    PROVE  /\ S \subseteq DOMAIN Settle(g)
           /\ \A k \in S : Settle(g)[k].links = g[k].links
           /\ \A k \in S : g[k].refs \subseteq S => Settle(g)[k] = g[k]
  <1> DEFINE bridges == g[Root].links
             ports == UNION {g[k].links : k \in bridges}
             members == UNION {g[k].links : k \in ports}
             kept == {Root} \cup bridges \cup ports \cup members
             s == [k \in DOMAIN g \cap kept |-> Referring(g[k], g[k].refs \cap kept)]
  <1>1. Settle(g) = s
    BY DEF Settle, Referring
  <1>2. ASSUME NEW k \in S, k # Root, Table(k) = "Bridge" PROVE k \in bridges
    <2>1. PICK h \in S : k \in g[h].links
      BY <1>2
    <2>2. h = Root
      BY <1>2, <2>1, LinkTables
    <2> QED  BY <2>1, <2>2
  <1>3. ASSUME NEW k \in S, k # Root, Table(k) \in {"Port", "Mirror"} PROVE k \in ports
    <2>1. PICK h \in S : k \in g[h].links
      BY <1>3
    <2>2. Table(h) = "Bridge" /\ h # Root
      BY <1>3, <2>1, LinkTables DEF Root, Table
    <2>3. h \in bridges
      BY <1>2, <2>2
    <2> QED  BY <2>1, <2>3
  <1>4. ASSUME NEW k \in S, k # Root, Table(k) = "Interface" PROVE k \in members
    <2>1. PICK h \in S : k \in g[h].links
      BY <1>4
    <2>2. Table(h) = "Port" /\ h # Root
      BY <1>4, <2>1, LinkTables DEF Root, Table
    <2>3. h \in ports
      BY <1>3, <2>2
    <2> QED  BY <2>1, <2>3
  <1> HIDE DEF bridges, ports, members
  <1>5. ASSUME NEW k \in S PROVE k \in kept
    <2>1. IsKey(k)
      BY TypedRow
    <2> QED  BY <1>2, <1>3, <1>4, <2>1 DEF IsKey
  <1> HIDE DEF kept
  <1>6. \A k \in S : k \in DOMAIN s /\ s[k] = Referring(g[k], g[k].refs \cap kept)
    BY <1>5
  <1> HIDE DEF s
  <1>7. ASSUME NEW k \in S
        PROVE  s[k].links = g[k].links /\ (g[k].refs \subseteq S => s[k] = g[k])
    <2>1. IsRow(k, g[k])
      BY TypedRow
    <2> DEFINE x == g[k].refs \cap kept
    <2>2. Referring(g[k], x).links = g[k].links
      BY <2>1, IsRowEdit
    <2>3. g[k].refs \subseteq S => x = g[k].refs
      BY <1>5
    <2>4. Referring(g[k], g[k].refs) = g[k]
      BY <2>1 DEF Referring, IsRow, Columns
    <2> QED  BY <1>6, <2>2, <2>3, <2>4
  <1> QED  BY <1>1, <1>6, <1>7

-----------------------------------------------------------------------------
(* Grafting.                                                               *)

\* The rows b, instead of a, as part of a configuration: rows below a bridge
\* are held within b, and what is new to a row is within b.
Held(b, k) == \E h \in DOMAIN b : k \in b[h].links
Proportioned(b, k) ==
    /\ k # Root /\ IsKey(k) /\ IsRow(k, b[k])
    /\ \A j \in b[k].links : Table(j) \in Below(Table(k))
    /\ \A j \in b[k].refs : j \in DOMAIN b /\ Table(j) = "Port" /\ Table(k) = "Mirror"
    /\ Table(k) # "Bridge" => Held(b, k)
Woven(a, b) ==
    /\ \A k \in DOMAIN b : Proportioned(b, k)
    /\ \A k \in DOMAIN b \ DOMAIN a : b[k].links \subseteq DOMAIN b
    /\ \A k \in DOMAIN a \cap DOMAIN b : b[k].links \ a[k].links \subseteq DOMAIN b

\* g has the rows that i is about, in so far as it matters for what hangs from
\* them.
Fits(i, g) ==
    /\ DOMAIN i.from \subseteq DOMAIN g
    /\ Fresh(i) \cap DOMAIN g = {}
    /\ \A k \in Doomed(i) : g[k].links \subseteq DOMAIN i.from
    /\ \A k \in DOMAIN i.from \cap DOMAIN i.to :
          i.from[k].links \cap i.to[k].links \cap DOMAIN i.to \subseteq g[k].links

\* A configuration before garbage collection.
Sewn(g, i, m) ==
    LET old == {k \in Doomed(i) : Table(k) = "Bridge"}
        new == {k \in Fresh(i) : Table(k) = "Bridge"}
        kept == [k \in DOMAIN g |->
                    IF k = Root THEN [g[k] EXCEPT !.links = Delta(@, old, new), !.mark = m]
                    ELSE IF k \in DOMAIN i.from \cap DOMAIN i.to
                         THEN Rewritten(g[k], i.from[k], i.to[k]) ELSE g[k]]
    IN With(kept, Sub(i.to, Fresh(i)))

LEMMA RewrittenRow ==
    ASSUME NEW k, NEW row, IsRow(k, row), NEW a, NEW b, IsRow(k, b)
    PROVE  /\ IsRow(k, Rewritten(row, a, b))
           /\ Rewritten(row, a, b).links = Delta(row.links, a.links, b.links)
           /\ Rewritten(row, a, b).refs = Delta(row.refs, a.refs, b.refs)
  <1>1. DOMAIN row = Columns /\ row.ctl \in BOOLEAN /\ IsFunction(row)
    BY DEF IsRow, IsFunction
  <1> DEFINE y == Rewritten(row, a, b)
             c == IF a.cfg = b.cfg THEN row.cfg ELSE b.cfg
  <1>2. /\ IsFunction(y) /\ DOMAIN y = Columns /\ y.ctl = row.ctl /\ y.cfg = c
        /\ y.links = Delta(row.links, a.links, b.links)
        /\ y.refs = Delta(row.refs, a.refs, b.refs)
    BY <1>1 DEF Columns, Rewritten, IsFunction
  <1> HIDE DEF y
  <1>3. IsRow(k, y)
    BY <1>1, <1>2, RowLike
  <1> QED  BY <1>2, <1>3 DEF y

Sews(g, i, h) ==
    LET both == DOMAIN i.from \cap DOMAIN i.to
        old == {k \in Doomed(i) : Table(k) = "Bridge"}
        new == {k \in Fresh(i) : Table(k) = "Bridge"}
    IN /\ IsFunction(h) /\ DOMAIN h = DOMAIN g \cup Fresh(i)
       /\ IsRow(Root, h[Root]) /\ h[Root].refs = g[Root].refs
       /\ h[Root].links = Delta(g[Root].links, old, new)
       /\ \A k \in Fresh(i) : h[k] = i.to[k]
       /\ \A k \in both : h[k] = Rewritten(g[k], i.from[k], i.to[k])
       /\ \A k \in DOMAIN g \ (both \cup {Root}) : h[k] = g[k]

LEMMA SewnRows ==
    ASSUME NEW g, Schema(g), NEW i, NEW m, Woven(i.from, i.to), Woven(i.to, i.from), Fits(i, g)
    PROVE  Sews(g, i, Sewn(g, i, m))
  <1> DEFINE old == {k \in Doomed(i) : Table(k) = "Bridge"}
             new == {k \in Fresh(i) : Table(k) = "Bridge"}
             both == DOMAIN i.from \cap DOMAIN i.to
             root == [g[Root] EXCEPT !.links = Delta(@, old, new), !.mark = m]
             kept == [k \in DOMAIN g |->
                        IF k = Root THEN [g[k] EXCEPT !.links = Delta(@, old, new), !.mark = m]
                        ELSE IF k \in both THEN Rewritten(g[k], i.from[k], i.to[k]) ELSE g[k]]
             h == Sewn(g, i, m)
  <1>1. h = With(kept, Sub(i.to, Fresh(i)))
    BY DEF Sewn
  <1>2. Root \in DOMAIN g /\ IsRow(Root, g[Root])
    BY TypedRow DEF Schema, Typed
  <1>3. \A k \in DOMAIN i.from \cup DOMAIN i.to : k # Root
    BY DEF Woven, Proportioned
  <1>4. Fresh(i) \cap DOMAIN g = {} /\ both \subseteq DOMAIN g /\ both \cap Fresh(i) = {}
    BY DEF Fits, Fresh
  <1>5. /\ IsFunction(root) /\ DOMAIN root = Columns /\ root.ctl = g[Root].ctl
        /\ root.cfg = g[Root].cfg /\ root.refs = g[Root].refs
        /\ root.links = Delta(g[Root].links, old, new)
    BY <1>2 DEF IsRow, IsFunction, Columns
  <1>6. IsRow(Root, root)
    BY <1>2, <1>5, RowLike DEF IsRow
  <1>7. /\ DOMAIN kept = DOMAIN g /\ kept[Root] = root
        /\ \A k \in both : kept[k] = Rewritten(g[k], i.from[k], i.to[k])
        /\ \A k \in DOMAIN g \ (both \cup {Root}) : kept[k] = g[k]
    BY <1>2, <1>3, <1>4
  <1> HIDE DEF kept, root, both, old, new
  <1>8. /\ IsFunction(h) /\ DOMAIN h = DOMAIN g \cup Fresh(i)
        /\ \A k \in Fresh(i) : h[k] = i.to[k]
        /\ \A k \in DOMAIN g : h[k] = kept[k]
    BY <1>1, <1>4, <1>7 DEF With, Sub, IsFunction
  <1> HIDE DEF h
  <1>9. Sews(g, i, h)
    BY <1>2, <1>4, <1>5, <1>6, <1>7, <1>8 DEF Sews, both, old, new
  <1> QED  BY <1>9 DEF h

LEMMA DeltaIs ==
    ASSUME NEW now, NEW a, NEW b
    PROVE  /\ Delta(now, a, b) \subseteq now \cup (b \ a)
           /\ \A x \in b : x \notin a \/ x \in now => x \in Delta(now, a, b)
           /\ \A x \in now : x \notin a \ b => x \in Delta(now, a, b)
           /\ now = a => Delta(now, a, b) = b
  BY DEF Delta

LEMMA SewnTyped ==
    ASSUME NEW g, Schema(g), NEW i, NEW m, Woven(i.from, i.to), Woven(i.to, i.from), Fits(i, g)
    PROVE  Typed(Sewn(g, i, m))
  <1> DEFINE h == Sewn(g, i, m)
             both == DOMAIN i.from \cap DOMAIN i.to
             old == {k \in Doomed(i) : Table(k) = "Bridge"}
             new == {k \in Fresh(i) : Table(k) = "Bridge"}
  <1>1. /\ IsFunction(h) /\ DOMAIN h = DOMAIN g \cup Fresh(i)
        /\ IsRow(Root, h[Root]) /\ h[Root].refs = g[Root].refs
        /\ h[Root].links = Delta(g[Root].links, old, new)
        /\ \A k \in Fresh(i) : h[k] = i.to[k]
        /\ \A k \in both : h[k] = Rewritten(g[k], i.from[k], i.to[k])
        /\ \A k \in DOMAIN g \ (both \cup {Root}) : h[k] = g[k]
    <2>1. Sews(g, i, h)
      BY SewnRows
    <2> HIDE DEF h
    <2> QED  BY <2>1 DEF Sews
  <1>2. Typed(g) /\ Root \in DOMAIN g
    BY DEF Schema, Typed
  <1>3. DOMAIN i.to \subseteq DOMAIN h /\ both \subseteq DOMAIN g
    BY <1>1 DEF Fits, Fresh
  <1>4. DOMAIN h = {Root} \cup Fresh(i) \cup both \cup (DOMAIN g \ (both \cup {Root}))
    BY <1>1, <1>2, <1>3
  <1> HIDE DEF h
  <1>5. ASSUME NEW k \in DOMAIN h
        PROVE  /\ IsKey(k) /\ IsRow(k, h[k])
               /\ \A j \in h[k].links : j \in DOMAIN h /\ Table(j) \in Below(Table(k))
               /\ \A j \in h[k].refs : j \in DOMAIN h /\ Table(j) = "Port" /\ Table(k) = "Mirror"
    <2>1. CASE k = Root
      <3>1. h[Root].links \subseteq g[Root].links \cup new
        BY <1>1, DeltaIs
      <3>2. Table(Root) = "Root"
        BY DEF Root, Table
      <3>3. \A j \in new : j \in DOMAIN h /\ Table(j) \in Below("Root")
        BY <1>1, BelowTables
      <3> QED  BY <1>1, <1>2, <2>1, <3>1, <3>2, <3>3, TypedRow
    <2>2. CASE k \in Fresh(i)
      <3>1. k \in DOMAIN i.to /\ k \notin DOMAIN i.from
        BY <2>2 DEF Fresh
      <3>2. Proportioned(i.to, k) /\ i.to[k].links \subseteq DOMAIN i.to
        BY <3>1 DEF Woven
      <3> QED  BY <1>1, <1>3, <2>2, <3>2 DEF Proportioned
    <2>3. CASE k \in both
      <3>1. Proportioned(i.to, k) /\ i.to[k].links \ i.from[k].links \subseteq DOMAIN i.to
        BY <2>3 DEF Woven
      <3>2. IsKey(k) /\ IsRow(k, i.to[k])
        BY <3>1 DEF Proportioned
      <3>3. IsRow(k, g[k])
        BY <1>2, <1>3, <2>3, TypedRow
      <3>4. /\ IsRow(k, h[k])
            /\ h[k].links = Delta(g[k].links, i.from[k].links, i.to[k].links)
            /\ h[k].refs = Delta(g[k].refs, i.from[k].refs, i.to[k].refs)
        BY <1>1, <2>3, <3>2, <3>3, RewrittenRow
      <3>5. ASSUME NEW j \in h[k].links PROVE j \in DOMAIN h /\ Table(j) \in Below(Table(k))
        <4>1. j \in g[k].links \/ j \in i.to[k].links \ i.from[k].links
          BY <3>4, <3>5, DeltaIs
        <4>2. CASE j \in g[k].links
          BY <1>1, <1>2, <1>3, <2>3, <4>2, TypedRow
        <4>3. CASE j \in i.to[k].links \ i.from[k].links
          BY <1>3, <3>1, <4>3 DEF Proportioned
        <4> QED  BY <4>1, <4>2, <4>3
      <3>6. ASSUME NEW j \in h[k].refs
            PROVE  j \in DOMAIN h /\ Table(j) = "Port" /\ Table(k) = "Mirror"
        <4>1. j \in g[k].refs \/ j \in i.to[k].refs
          BY <3>4, <3>6, DeltaIs
        <4>2. CASE j \in g[k].refs
          BY <1>1, <1>2, <1>3, <2>3, <4>2, TypedRow
        <4>3. CASE j \in i.to[k].refs
          BY <1>3, <3>1, <4>3 DEF Proportioned
        <4> QED  BY <4>1, <4>2, <4>3
      <3> QED  BY <3>2, <3>4, <3>5, <3>6
    <2>4. CASE k \in DOMAIN g \ (both \cup {Root})
      <3>1. h[k] = g[k] /\ k \in DOMAIN g /\ DOMAIN g \subseteq DOMAIN h
        BY <1>1, <2>4
      <3> QED  BY <1>2, <3>1, TypedRow
    <2> QED  BY <1>4, <2>1, <2>2, <2>3, <2>4
  <1>6. Typed(h)
    BY <1>1, <1>2, <1>5 DEF Typed, IsFunction
  <1> QED  BY <1>6 DEF h

\* What a graft leaves behind: everything but the doomed rows is still there.
LEMMA GraftKeeps ==
    ASSUME NEW g, Schema(g), NEW i, NEW m, Woven(i.from, i.to), Woven(i.to, i.from), Fits(i, g)
    PROVE  LET s == Grafted(g, i, m)
               both == DOMAIN i.from \cap DOMAIN i.to
           IN /\ Schema(s)
              /\ (DOMAIN g \ Doomed(i)) \cup Fresh(i) \subseteq DOMAIN s
              /\ \A k \in Fresh(i) : s[k].links = i.to[k].links
              /\ \A k \in both : s[k].links = Delta(g[k].links, i.from[k].links, i.to[k].links)
              /\ \A k \in DOMAIN g \ (Owns(i) \cup {Root}) :
                    g[k].refs \cap Doomed(i) = {} => s[k] = g[k]
  <1> DEFINE h == Sewn(g, i, m)
             s == Grafted(g, i, m)
             both == DOMAIN i.from \cap DOMAIN i.to
             old == {k \in Doomed(i) : Table(k) = "Bridge"}
             new == {k \in Fresh(i) : Table(k) = "Bridge"}
             S == (DOMAIN g \ Doomed(i)) \cup Fresh(i)
  <1>1. /\ IsFunction(h) /\ DOMAIN h = DOMAIN g \cup Fresh(i)
        /\ h[Root].links = Delta(g[Root].links, old, new)
        /\ \A k \in Fresh(i) : h[k] = i.to[k]
        /\ \A k \in both : h[k] = Rewritten(g[k], i.from[k], i.to[k])
        /\ \A k \in DOMAIN g \ (both \cup {Root}) : h[k] = g[k]
    <2>1. Sews(g, i, h)
      BY SewnRows
    <2> HIDE DEF h
    <2> QED  BY <2>1 DEF Sews
  <1>2. s = Settle(h)
    BY DEF Grafted, Sewn
  <1>3. Typed(h)
    BY SewnTyped
  <1>4. Typed(g) /\ Root \in DOMAIN g
    BY DEF Schema, Typed
  <1>5. \A k \in DOMAIN i.from \cup DOMAIN i.to : k # Root
    BY DEF Woven, Proportioned
  <1>6. Root \in S /\ S \subseteq DOMAIN h /\ both \subseteq S /\ both \subseteq DOMAIN g
    BY <1>1, <1>4, <1>5 DEF Doomed, Fits
  <1> HIDE DEF h, s
  <1>7. ASSUME NEW k \in both
        PROVE  h[k].links = Delta(g[k].links, i.from[k].links, i.to[k].links)
    <2>1. IsRow(k, g[k]) /\ IsRow(k, i.to[k])
      BY <1>4, <1>6, TypedRow DEF Woven, Proportioned
    <2> QED  BY <1>1, <2>1, RewrittenRow
  <1>8. ASSUME NEW k \in DOMAIN i.to PROVE \E j \in S : k \in h[j].links
    <2>1. CASE Table(k) = "Bridge"
      <3>1. k \in Fresh(i) => k \in new
        BY <2>1
      <3>2. k \in both => k \in g[Root].links /\ k \notin old
        BY <1>6, <2>1, BridgeHeld DEF Doomed
      <3>3. k \in Fresh(i) \cup both
        BY DEF Fresh
      <3>4. new \cap old = {}
        BY DEF Fresh, Doomed
      <3>5. k \in h[Root].links
        BY <1>1, <3>1, <3>2, <3>3, <3>4, DeltaIs
      <3> QED  BY <1>6, <3>5
    <2>2. CASE Table(k) # "Bridge"
      <3>1. PICK j \in DOMAIN i.to : k \in i.to[j].links
        BY <2>2 DEF Woven, Proportioned, Held
      <3>2. CASE j \in Fresh(i)
        BY <1>1, <3>1, <3>2
      <3>3. CASE j \in both
        <4>1. k \in i.from[j].links => k \in g[j].links
          BY <3>1, <3>3 DEF Fits
        <4>2. k \in h[j].links
          BY <1>7, <3>1, <3>3, <4>1, DeltaIs
        <4> QED  BY <1>6, <3>3, <4>2
      <3> QED  BY <3>2, <3>3 DEF Fresh
    <2> QED  BY <2>1, <2>2
  <1>9. ASSUME NEW k \in DOMAIN g \ (Owns(i) \cup {Root}) PROVE \E j \in S : k \in h[j].links
    <2>1. PICK j \in DOMAIN g : k \in g[j].links
      BY DEF Schema, Holders
    <2>2. k \notin DOMAIN i.from /\ k \notin DOMAIN i.to
      BY DEF Owns
    <2>3. j \notin Doomed(i)
      BY <2>1, <2>2 DEF Fits
    <2>4. k \in h[j].links
      <3>1. CASE j = Root
        <4>1. k \notin old
          BY <2>2 DEF Doomed
        <4> QED  BY <1>1, <2>1, <3>1, <4>1, DeltaIs
      <3>2. CASE j \in both
        <4>1. i.from[j].links \ i.to[j].links \subseteq DOMAIN i.from
          BY <3>2 DEF Woven
        <4>2. k \notin i.from[j].links \ i.to[j].links
          BY <2>2, <4>1
        <4> QED  BY <1>7, <2>1, <3>2, <4>2, DeltaIs
      <3>3. CASE j \notin both \cup {Root}
        BY <1>1, <2>1, <3>3
      <3> QED  BY <3>1, <3>2, <3>3
    <2> QED  BY <2>3, <2>4
  <1>10. \A k \in S \ {Root} : \E j \in S : k \in h[j].links
    BY <1>8, <1>9 DEF Owns, Doomed, Fresh
  <1> HIDE DEF S
  <1>11. /\ S \subseteq DOMAIN s
         /\ \A k \in S : s[k].links = h[k].links
         /\ \A k \in S : h[k].refs \subseteq S => s[k] = h[k]
    BY <1>2, <1>3, <1>6, <1>10, SettleKeeps
  <1>12. Schema(s)
    BY <1>2, <1>3, SettleSchema
  <1>13. \A k \in Fresh(i) : s[k].links = i.to[k].links
    BY <1>1, <1>11 DEF S
  <1>14. \A k \in both : s[k].links = Delta(g[k].links, i.from[k].links, i.to[k].links)
    BY <1>6, <1>7, <1>11
  <1>15. ASSUME NEW k \in DOMAIN g \ (Owns(i) \cup {Root}), g[k].refs \cap Doomed(i) = {}
         PROVE  s[k] = g[k]
    <2>1. k \in S /\ h[k] = g[k]
      BY <1>1 DEF S, Owns, Doomed
    <2>2. g[k].refs \subseteq S
      BY <1>4, <1>15, TypedRow DEF S
    <2> QED  BY <1>11, <2>1, <2>2
  <1> QED  BY <1>11, <1>12, <1>13, <1>14, <1>15 DEF s, S

-----------------------------------------------------------------------------
(* What a transaction waits for makes its change fit the server's rows.    *)

\* What is true of the rows of an intent, and of its reverse, since staging:
\* the rows are woven into the configuration, what it captured tells what they
\* hold, and a parent hands nothing over that is not on its way in or out.
Graftable(i) ==
    /\ Woven(i.from, i.to) /\ Woven(i.to, i.from)
    /\ i.op \in LifecycleOps =>
          \A k \in DOMAIN i.from \cap DOMAIN i.to :
             /\ i.op \in {"internal.create", "internal.delete"} /\ Table(k) = "Bridge"
             /\ i.from[k].links \cap DOMAIN i.to = {}
    /\ i.op \in MirrorOps => \A k \in Doomed(i) : Table(k) = "Mirror"
    /\ i.op \notin LifecycleOps =>
          \A g : Image(g, DOMAIN i.was) = i.was =>
             \A k \in DOMAIN i.from : k \in DOMAIN g /\ g[k].links = i.from[k].links

\* No row outside the change refers to a row that goes.
Untied(i, g) == \A k \in DOMAIN g \ (Owns(i) \cup {Root}) : g[k].refs \cap Doomed(i) = {}

LEMMA HeldAllCell ==
    ASSUME NEW g, NEW h, NEW d, Col(g, <<d, "heldall">>) = {Pairs(h, Holders(h, d))}
    PROVE  d \in DOMAIN g /\ Referrers(g, d) = Holders(h, d)
  <1>1. d \in DOMAIN g /\ Col(g, <<d, "heldall">>) = {Value(g, d, "heldall")}
    BY DEF Col
  <1>2. Value(g, d, "heldall") = Pairs(g, Referrers(g, d))
    BY DEF Value
  <1>3. Pairs(g, Referrers(g, d)) = Pairs(h, Holders(h, d))
    BY <1>1, <1>2
  <1> QED  BY <1>1, <1>3, PairsSame

LEMMA WithIn ==
    ASSUME NEW f, NEW h, NEW x \in DOMAIN h, NEW v, h[x] = v
    PROVE  x \in DOMAIN With(f, h) /\ With(f, h)[x] = v
  BY DEF With

LEMMA RowsFit ==
    ASSUME NEW i, NEW g, i.op \notin FieldOps \cup LifecycleOps, Graftable(i), Schema(g), Schema(db),
           Agreeing(i, g), Holds(GraphWait(i, g))
    PROVE  Fits(i, db) /\ Untied(i, db)
  <1> DEFINE w == GraphWait(i, g)
  <1>1. \A k \in DOMAIN i.from : k \in DOMAIN g /\ g[k].links = i.from[k].links
    BY DEF Graftable, Agreeing
  <1>2. ASSUME NEW k \in DOMAIN i.from PROVE k \in DOMAIN db /\ db[k].links = i.from[k].links
    <2>1. Agree(g, db, Whole(k))
      BY <1>1, RowsWait
    <2>2. Col(g, <<k, "links">>) = Col(db, <<k, "links">>)
      BY <2>1, WholeCells DEF Agree
    <2> QED  BY <1>1, <2>2, LinksCell
  <1>3. Fresh(i) \cap DOMAIN db = {}
    BY GraphWaitFields DEF Holds
  <1>4. \A k \in Doomed(i) : k \in DOMAIN i.from /\ i.from[k].links \subseteq DOMAIN i.from
    BY DEF Doomed, Graftable, Woven
  <1>5. Fits(i, db)
    BY <1>2, <1>3, <1>4 DEF Fits
  <1>6. ASSUME NEW k \in DOMAIN db \ (Owns(i) \cup {Root}), NEW d \in db[k].refs \cap Doomed(i)
        PROVE  FALSE
    <2>1. Table(d) = "Port" /\ Table(k) = "Mirror"
      BY TypedRow DEF Schema
    <2>2. i.op \notin MirrorOps
      BY <2>1 DEF Graftable
    <2>3. w.cells = With(Images(i, g), References(i, g))
      BY <2>2, GraphWaitFields
    <2>4. <<d, "heldall">> \in Cells(DOMAIN i.from, {"heldall"})
      BY <1>4, CellsOf
    <2>5. /\ <<d, "heldall">> \in DOMAIN References(i, g)
          /\ References(i, g)[<<d, "heldall">>] = {Value(g, d, "held")}
      BY <2>4 DEF References
    <2>6. <<d, "heldall">> \in DOMAIN w.cells /\ w.cells[<<d, "heldall">>] = {Value(g, d, "held")}
      BY <2>3, <2>5, WithIn
    <2> HIDE DEF w
    <2>7. Col(db, <<d, "heldall">>) = {Value(g, d, "held")}
      BY <2>6, WaitedCell DEF w
    <2>8. Value(g, d, "held") = Pairs(g, Holders(g, d))
      BY DEF Value
    <2>9. Referrers(db, d) = Holders(g, d)
      BY <2>7, <2>8, HeldAllCell
    <2>10. k \in Holders(g, d)
      BY <1>6, <2>9 DEF Referrers
    <2> QED  BY <2>1, <2>10, HolderTables DEF Schema
  <1> QED  BY <1>5, <1>6 DEF Untied

\* Rows that a lifecycle change removes are held by its own rows and the root.
LEMMA GuardedHolders ==
    ASSUME NEW i, NEW g, i.op \in LifecycleOps, Holds(Wait(i, g)), NEW d \in Doomed(i)
    PROVE  Referrers(db, d) \subseteq DOMAIN i.from \cup {Root}
  <1> DEFINE own == With(i.from, Sub(g, {Root}))
             a == Image(Expected(i, g), WholeOf(Doomed(i)))
             b == [c \in Cells(Doomed(i), {"heldall"}) |-> {Value(own, c[1], "held")}]
             w == Wait(i, g)
             x == <<d, "heldall">>
             inner == BridgeWait(i, g).cells
  <1>1. GraphGuards(i, g) = With(a, b)
    BY DEF GraphGuards, Expected
  <1>2. x \in DOMAIN b /\ b[x] = {Value(own, d, "held")}
    BY CellsOf
  <1> HIDE DEF a, b, own, x
  <1>3. x \in DOMAIN GraphGuards(i, g) /\ GraphGuards(i, g)[x] = {Value(own, d, "held")}
    BY <1>1, <1>2, WithIn
  <1>4. inner = With(Image(g, Labelled({Root})), GraphGuards(i, g))
    BY BridgeWaitFields
  <1>5. x \in DOMAIN inner /\ inner[x] = {Value(own, d, "held")}
    BY <1>3, <1>4, WithIn
  <1>6. x \in DOMAIN w.cells /\ w.cells[x] = {Value(own, d, "held")}
    <2>1. CASE i.op \in {"bridge.create", "bridge.delete"}
      BY <1>5, <2>1, LifecycleWaitOf
    <2>2. CASE i.op \in {"internal.create", "internal.delete"}
      <3>1. w.cells = With(Image(g, ParentGuards(i, g)), inner)
        BY <2>2, LifecycleWaitOf, InternalWaitFields
      <3> HIDE DEF inner, w
      <3> QED  BY <1>5, <3>1, WithIn
    <2> QED  BY <2>1, <2>2 DEF LifecycleOps
  <1> HIDE DEF w
  <1>7. Col(db, x) = {Value(own, d, "held")}
    BY <1>6, WaitedCell DEF w
  <1>8. Value(own, d, "held") = Pairs(own, Holders(own, d))
    BY DEF Value
  <1>9. Referrers(db, d) = Holders(own, d)
    BY <1>7, <1>8, HeldAllCell DEF x
  <1>10. DOMAIN own = DOMAIN i.from \cup {Root}
    BY WithDomain DEF own, Sub
  <1> QED  BY <1>9, <1>10 DEF Holders

LEMMA LifecycleFit ==
    ASSUME NEW i, NEW g, i.op \in LifecycleOps, Graftable(i), Schema(g), Schema(db),
           LifecycleGate(i, g), Holds(Wait(i, g))
    PROVE  Fits(i, db) /\ Untied(i, db)
  <1> DEFINE both == DOMAIN i.from \cap DOMAIN i.to
             w == Wait(i, g)
             x == Expected(i, g)
  <1>1. \A k \in DOMAIN i.from \cup DOMAIN i.to : k # Root
    BY DEF Graftable, Woven, Proportioned
  <1>2. Root \notin Doomed(i)
    BY <1>1 DEF Doomed
  <1>3. ASSUME NEW k \in both PROVE k \in DOMAIN db
    <2>1. i.op \in {"internal.create", "internal.delete"} /\ Table(k) = "Bridge"
      BY <1>3 DEF Graftable
    <2>2. k \in BridgesOf(i.to) /\ k \in Parents(i)
      BY <2>1 DEF BridgesOf, Parents
    <2>3. k \in g[Root].links
      BY <2>1, <2>2 DEF LifecycleGate, InternalParent
    <2>4. k \in DOMAIN g
      BY <2>3, LinkTables DEF Schema, Typed
    <2>5. <<k, "id">> \in Whole(k) \ {<<k, "links">>}
      BY WholeCells
    <2>6. <<k, "id">> \in ParentGuards(i, g)
      BY <2>2, <2>5 DEF ParentGuards
    <2>7. k \notin Doomed(i) \cup {Root}
      BY <1>1 DEF Doomed
    <2>8. Col(db, <<k, "id">>) = Col(g, <<k, "id">>)
      BY <1>2, <2>1, <2>6, <2>7, LifecycleCells
    <2> QED  BY <2>4, <2>8, ColPresent
  <1>4. ASSUME NEW k \in Doomed(i) PROVE k \in DOMAIN db /\ db[k].links = i.from[k].links
    <2>1. k \in DOMAIN x /\ x[k] = i.from[k]
      BY DEF Expected, With, Sub
    <2>2. <<k, "links">> \in WholeOf(Doomed(i))
      BY WholeCells, WholeOfCells
    <2>3. Col(db, <<k, "links">>) = Col(x, <<k, "links">>)
      BY <1>2, <2>2, LifecycleCells
    <2> HIDE DEF x
    <2> QED  BY <2>1, <2>3, LinksCell
  <1>5. Fresh(i) \subseteq w.keys
    <2>1. CASE i.op \in {"bridge.create", "bridge.delete"}
      BY <2>1, LifecycleWaitOf, BridgeWaitFields
    <2>2. CASE i.op \in {"internal.create", "internal.delete"}
      BY <2>2, LifecycleWaitOf, InternalWaitFields
    <2> QED  BY <2>1, <2>2 DEF LifecycleOps
  <1>6. Fresh(i) \cap DOMAIN db = {}
    BY <1>5 DEF Holds
  <1>7. \A k \in Doomed(i) : k \in DOMAIN i.from /\ i.from[k].links \subseteq DOMAIN i.from
    BY DEF Doomed, Graftable, Woven
  <1>8. DOMAIN i.from \subseteq DOMAIN db
    BY <1>3, <1>4 DEF Doomed
  <1>9. \A k \in both : i.from[k].links \cap DOMAIN i.to = {}
    BY DEF Graftable
  <1>10. Fits(i, db)
    BY <1>4, <1>6, <1>7, <1>8, <1>9 DEF Fits
  <1>11. ASSUME NEW k \in DOMAIN db \ (Owns(i) \cup {Root}), NEW d \in db[k].refs \cap Doomed(i)
         PROVE  FALSE
    <2>1. k \in Referrers(db, d)
      BY DEF Referrers
    <2> QED  BY <2>1, GuardedHolders DEF Owns
  <1> QED  BY <1>10, <1>11 DEF Untied

LEMMA TransactionFits ==
    ASSUME NEW i, NEW g, i.op \notin FieldOps, Graftable(i), Schema(g), Schema(db),
           Agreeing(i, g), Gate(i, g), Holds(Wait(i, g))
    PROVE  Fits(i, db) /\ Untied(i, db)
  <1>1. CASE i.op \in LifecycleOps
    BY <1>1, LifecycleFit DEF Gate
  <1>2. CASE i.op \notin LifecycleOps
    <2>1. Wait(i, g) = GraphWait(i, g)
      BY <1>2 DEF Wait
    <2> QED  BY <1>2, <2>1, RowsFit
  <1> QED  BY <1>1, <1>2

-----------------------------------------------------------------------------
(* The rows of a change, as they are staged.                               *)

Interwoven(a, b) == Woven(a, b) /\ Woven(b, a)

\* Rows that differ in nothing that is woven.
Akin(b, d) ==
    /\ DOMAIN d = DOMAIN b
    /\ \A k \in DOMAIN b : IsRow(k, d[k]) /\ d[k].links = b[k].links /\ d[k].refs = b[k].refs

LEMMA AkinWoven ==
    ASSUME NEW a, NEW b, NEW c, NEW d, Woven(a, b), Akin(a, c), Akin(b, d)
    PROVE  Woven(c, d)
  <1>1. ASSUME NEW k \in DOMAIN d PROVE Proportioned(d, k)
    <2>1. Proportioned(b, k) /\ k \in DOMAIN b
      BY DEF Akin, Woven
    <2>2. Held(b, k) => Held(d, k)
      BY DEF Held, Akin
    <2> QED  BY <2>1, <2>2 DEF Proportioned, Akin
  <1>2. \A k \in DOMAIN d \ DOMAIN c : d[k].links \subseteq DOMAIN d
    BY DEF Akin, Woven
  <1>3. \A k \in DOMAIN c \cap DOMAIN d : d[k].links \ c[k].links \subseteq DOMAIN d
    BY DEF Akin, Woven
  <1> QED  BY <1>1, <1>2, <1>3 DEF Woven

LEMMA RowRenewed ==
    ASSUME NEW k, NEW row, IsRow(k, row), NEW n, NEW m
    PROVE  /\ IsRow(k, Under(row, n)) /\ Under(row, n).links = row.links /\ Under(row, n).refs = row.refs
           /\ IsRow(k, [row EXCEPT !.made = m]) /\ [row EXCEPT !.made = m].links = row.links
           /\ [row EXCEPT !.made = m].refs = row.refs
  <1> DEFINE u == Under(row, n)
             v == [row EXCEPT !.made = m]
  <1>1. DOMAIN row = Columns /\ row.ctl \in BOOLEAN /\ IsFunction(row)
    BY DEF IsRow, IsFunction
  <1>2. /\ IsFunction(u) /\ DOMAIN u = Columns /\ u.ctl = row.ctl /\ u.cfg = row.cfg
        /\ u.links = row.links /\ u.refs = row.refs
    BY <1>1 DEF Columns, Under, IsFunction
  <1>3. /\ IsFunction(v) /\ DOMAIN v = Columns /\ v.ctl = row.ctl /\ v.cfg = row.cfg
        /\ v.links = row.links /\ v.refs = row.refs
    BY <1>1 DEF Columns, IsFunction
  <1> HIDE DEF u, v
  <1>4. IsRow(k, u) /\ IsRow(k, v)
    BY <1>1, <1>2, <1>3, RowLike
  <1> QED  BY <1>2, <1>3, <1>4 DEF u, v

LEMMA MarkedAkin ==
    ASSUME NEW b, \A k \in DOMAIN b : IsRow(k, b[k]), NEW ids, NEW ks, NEW m
    PROVE  Akin(b, Marked(Renewed(b, ids), ks, m))
  <1> DEFINE c == Renewed(b, ids)
             d == Marked(c, ks, m)
  <1>1. DOMAIN c = DOMAIN b
    BY DEF Renewed
  <1>2. ASSUME NEW k \in DOMAIN b
        PROVE  IsRow(k, c[k]) /\ c[k].links = b[k].links /\ c[k].refs = b[k].refs
    <2>1. c[k] = Under(b[k], ids[k]) \/ c[k] = b[k]
      BY DEF Renewed
    <2> HIDE DEF c
    <2>2. CASE c[k] = Under(b[k], ids[k])
      <3>1. IsRow(k, b[k])
        OBVIOUS
      <3> DEFINE row == b[k]
                 n == ids[k]
      <3>2. /\ IsRow(k, Under(row, n)) /\ Under(row, n).links = row.links
            /\ Under(row, n).refs = row.refs
        BY <3>1, RowRenewed
      <3> QED  BY <2>2, <3>2
    <2>3. CASE c[k] = b[k]
      BY <2>3
    <2> QED  BY <2>1, <2>2, <2>3
  <1> HIDE DEF c
  <1>3. DOMAIN d = DOMAIN b
    BY <1>1 DEF Marked
  <1>4. ASSUME NEW k \in DOMAIN b
        PROVE  IsRow(k, d[k]) /\ d[k].links = b[k].links /\ d[k].refs = b[k].refs
    <2>1. d[k] = [c[k] EXCEPT !.made = m] \/ d[k] = c[k]
      BY <1>1 DEF Marked
    <2> HIDE DEF d
    <2>2. CASE d[k] = [c[k] EXCEPT !.made = m]
      BY <1>2, <2>2, RowRenewed
    <2>3. CASE d[k] = c[k]
      BY <1>2, <2>3
    <2> QED  BY <2>1, <2>2, <2>3
  <1> QED  BY <1>3, <1>4 DEF Akin, c

\* A part of a configuration: everything below a bridge is held within it.
Part(g, ks) ==
    /\ ks \subseteq DOMAIN g \ {Root}
    /\ \A k \in ks : /\ Table(k) # "Bridge" => \E h \in ks : k \in g[h].links
                     /\ g[k].refs \subseteq ks

LEMMA PartProportioned ==
    ASSUME NEW g, Typed(g), NEW b, Part(g, DOMAIN b),
           \A k \in DOMAIN b : IsRow(k, b[k]) /\ b[k].links = g[k].links /\ b[k].refs = g[k].refs,
           NEW k \in DOMAIN b
    PROVE  Proportioned(b, k)
  <1>1. k \in DOMAIN g /\ k # Root
    BY DEF Part
  <1>2. /\ IsKey(k) /\ \A j \in g[k].links : Table(j) \in Below(Table(k))
        /\ \A j \in g[k].refs : Table(j) = "Port" /\ Table(k) = "Mirror"
    BY <1>1, TypedRow
  <1>3. Table(k) # "Bridge" => Held(b, k)
    BY DEF Part, Held
  <1>4. g[k].refs \subseteq DOMAIN b
    BY DEF Part
  <1> QED  BY <1>1, <1>2, <1>3, <1>4 DEF Proportioned

\* Only mirrors refer to anything.
LEMMA NoRefs ==
    ASSUME NEW g, Typed(g), NEW k \in DOMAIN g, Table(k) # "Mirror"
    PROVE  g[k].refs = {}
  BY TypedRow

LEMMA BridgePart ==
    ASSUME NEW g, Typed(g), NEW b \in DOMAIN g, Table(b) = "Bridge"
    PROVE  Part(g, {b})
  <1>1. g[b].refs = {} /\ b # Root
    BY NoRefs DEF Root, Table
  <1> QED  BY <1>1 DEF Part

LEMMA PartUnion ==
    ASSUME NEW g, NEW S, \A ks \in S : Part(g, ks)
    PROVE  Part(g, UNION S)
  BY DEF Part

LEMMA PartJoin ==
    ASSUME NEW g, NEW a, NEW b, Part(g, a), Part(g, b)
    PROVE  Part(g, a \cup b)
  BY DEF Part

LEMMA LoadedPart ==
    ASSUME NEW g, Schema(g), NEW p \in DOMAIN g, Table(p) = "Port"
    PROVE  Part(g, Loaded(g, p))
  <1>1. Typed(g) /\ p # Root
    BY DEF Schema, Root, Table
  <1>2. \A b \in Holders(g, p) : b \in DOMAIN g /\ Table(b) = "Bridge" /\ p \in g[b].links /\ b # Root
    BY <1>1, HolderTables DEF Root, Table
  <1>3. \A j \in g[p].links : j \in DOMAIN g /\ Table(j) = "Interface" /\ j # Root
    BY <1>1, LinkTables DEF Root, Table
  <1>4. Holders(g, p) # {}
    BY <1>1 DEF Schema
  <1>5. Loaded(g, p) \subseteq DOMAIN g \ {Root}
    BY <1>1, <1>2, <1>3 DEF Loaded
  <1>6. \A k \in Loaded(g, p) : g[k].refs = {}
    BY <1>1, <1>2, <1>3, <1>5, NoRefs DEF Loaded
  <1>7. \A k \in Loaded(g, p) : Table(k) # "Bridge" => \E h \in Loaded(g, p) : k \in g[h].links
    BY <1>2, <1>3, <1>4 DEF Loaded
  <1> QED  BY <1>5, <1>6, <1>7 DEF Part

LEMMA RegionPart ==
    ASSUME NEW g, Schema(g), NEW b \in DOMAIN g, Table(b) = "Bridge"
    PROVE  Part(g, Region(g, b))
  <1>1. Typed(g) /\ b # Root
    BY DEF Schema, Root, Table
  <1>2. \A p \in Ports(g, b) : p \in DOMAIN g /\ Table(p) = "Port" /\ p \in g[b].links /\ p # Root
    BY <1>1, LinkTables DEF Ports, Root, Table
  <1>3. \A j \in Members(g, Ports(g, b)) :
          /\ j \in DOMAIN g /\ Table(j) = "Interface" /\ j # Root
          /\ \E p \in Ports(g, b) : j \in g[p].links
    BY <1>1, <1>2, LinkTables DEF Members, Root, Table
  <1>4. Region(g, b) \subseteq DOMAIN g \ {Root}
    BY <1>1, <1>2, <1>3 DEF Region
  <1>5. \A k \in Region(g, b) : g[k].refs = {}
    BY <1>1, <1>2, <1>3, NoRefs DEF Region
  <1>6. \A k \in Region(g, b) : Table(k) # "Bridge" => \E h \in Region(g, b) : k \in g[h].links
    BY <1>2, <1>3 DEF Region
  <1> QED  BY <1>4, <1>5, <1>6 DEF Part

\* Rows that keep what they hold.
LEMMA SameWoven ==
    ASSUME NEW g, Typed(g), NEW a, NEW b, Part(g, DOMAIN a), DOMAIN b = DOMAIN a,
           \A k \in DOMAIN a : IsRow(k, a[k]) /\ a[k].links = g[k].links /\ a[k].refs = g[k].refs,
           \A k \in DOMAIN b : IsRow(k, b[k]) /\ b[k].links = g[k].links /\ b[k].refs = g[k].refs
    PROVE  Interwoven(a, b)
  <1>1. \A k \in DOMAIN a : Proportioned(a, k)
    BY PartProportioned
  <1>2. Part(g, DOMAIN b)
    OBVIOUS
  <1>3. \A k \in DOMAIN b : Proportioned(b, k)
    BY <1>2, PartProportioned
  <1> QED  BY <1>1, <1>3 DEF Interwoven, Woven

\* A whole part that comes or goes.
LEMMA AloneWoven ==
    ASSUME NEW a, NEW b, DOMAIN b = {}, \A k \in DOMAIN a : Proportioned(a, k) /\ a[k].links \subseteq DOMAIN a
    PROVE  Interwoven(a, b) /\ Interwoven(b, a)
  BY DEF Interwoven, Woven

\* A bridge, with a port that is added to it.
LEMMA PortWoven ==
    ASSUME NEW g, Typed(g), NEW b \in DOMAIN g, Table(b) = "Bridge", NEW p, IsKey(p), Table(p) = "Port",
           NEW ms, \A m \in ms : IsKey(m) /\ Table(m) = "Interface",
           NEW a, DOMAIN a = {b}, a[b] = g[b],
           NEW h, DOMAIN h = {b, p} \cup ms, \A k \in DOMAIN h : IsRow(k, h[k]) /\ h[k].refs = {},
           h[b].links = g[b].links \cup {p}, h[p].links = ms, \A m \in ms : h[m].links = {}
    PROVE  Interwoven(a, h)
  <1>1. IsKey(b) /\ IsRow(b, g[b]) /\ \A j \in g[b].links : Table(j) \in Below("Bridge")
    BY TypedRow
  <1>2. g[b].refs = {}
    BY NoRefs
  <1>3. p # Root /\ b # Root /\ \A m \in ms : m # Root
    BY DEF Root, Table
  <1>4. Proportioned(a, b)
    BY <1>1, <1>2, <1>3 DEF Proportioned
  <1>5. Proportioned(h, b)
    BY <1>1, <1>3, BelowTables DEF Proportioned
  <1>6. Proportioned(h, p)
    <2>1. Held(h, p)
      BY DEF Held
    <2> QED  BY <1>3, <2>1, BelowTables DEF Proportioned
  <1>7. ASSUME NEW m \in ms PROVE Proportioned(h, m)
    <2>1. Held(h, m)
      BY DEF Held
    <2> QED  BY <1>3, <2>1 DEF Proportioned
  <1>8. b # p /\ b \notin ms
    OBVIOUS
  <1>9. Woven(a, h)
    BY <1>5, <1>6, <1>7, <1>8 DEF Woven
  <1>10. Woven(h, a)
    BY <1>4, <1>8 DEF Woven
  <1> QED  BY <1>9, <1>10 DEF Interwoven

\* A port with what hangs from it, and its bridge without it.
LEMMA PortUnwoven ==
    ASSUME NEW g, Schema(g), NEW p \in DOMAIN g, Table(p) = "Port", NEW b, Holders(g, p) = {b},
           NEW a, DOMAIN a = Loaded(g, p),
           \A k \in DOMAIN a : IsRow(k, a[k]) /\ a[k].links = g[k].links /\ a[k].refs = g[k].refs,
           NEW h, DOMAIN h = {b}, IsRow(b, h[b]), h[b].refs = {}, h[b].links = g[b].links \ {p}
    PROVE  Interwoven(a, h)
  <1>1. Typed(g)
    BY DEF Schema
  <1>2. b \in DOMAIN g /\ Table(b) = "Bridge" /\ b # Root
    BY <1>1, HolderTables DEF Root, Table
  <1>3. \A k \in DOMAIN a : Proportioned(a, k)
    BY <1>1, LoadedPart, PartProportioned
  <1>4. IsKey(b) /\ \A j \in g[b].links : Table(j) \in Below("Bridge")
    BY <1>1, <1>2, TypedRow
  <1>5. Proportioned(h, b)
    BY <1>2, <1>4 DEF Proportioned
  <1>6. DOMAIN a = {p, b} \cup g[p].links /\ b # p
    BY <1>2 DEF Loaded
  <1>7. \A j \in g[p].links : j \in DOMAIN g /\ Table(j) = "Interface"
    BY <1>1, LinkTables
  <1>8. \A j \in g[p].links : g[j].links = {}
    BY <1>1, <1>7, LinkTables
  <1>9. Woven(a, h)
    BY <1>5, <1>6 DEF Woven
  <1>10. Woven(h, a)
    BY <1>3, <1>6, <1>8 DEF Woven
  <1> QED  BY <1>9, <1>10 DEF Interwoven

\* Values of new rows.
LEMMA NewCfgs ==
    /\ BridgeCfg = [f \in Fields("Bridge") |-> BridgeCfg[f]]
    /\ PortCfg = [f \in Fields("Port") |-> PortCfg[f]]
    /\ \A v : [PortCfg EXCEPT !.vlan = v] = [f \in Fields("Port") |-> [PortCfg EXCEPT !.vlan = v][f]]
    /\ \A v : [PortCfg EXCEPT !.bond = v] = [f \in Fields("Port") |-> [PortCfg EXCEPT !.bond = v][f]]
    /\ \A t : InterfaceCfg(t) = [f \in Fields("Interface") |-> InterfaceCfg(t)[f]]
    /\ \A v : Tunnel(v) = [f \in Fields("Interface") |-> Tunnel(v)[f]]
    /\ \A o : [out |-> o] = [f \in Fields("Mirror") |-> [out |-> o][f]]
  BY FieldsOfTables DEF BridgeCfg, PortCfg, InterfaceCfg, Tunnel

LEMMA StoredSame ==
    ASSUME NEW g, NEW r, r.op \notin DeletionOps
    PROVE  DOMAIN Stored(g, r) = Before(g, r) /\ \A k \in Before(g, r) : Stored(g, r)[k] = g[k]
  BY DEF Stored, Deletes

\* The rows of a port that is new.
NewRows(x, p, ms) ==
    /\ DOMAIN x = {p} \cup ms
    /\ \A k \in DOMAIN x : IsRow(k, x[k]) /\ x[k].refs = {}
    /\ x[p].links = ms /\ \A m \in ms : x[m].links = {}

\* Bridge b with them.
Extended(g, b, p, x) == With(x, Relinked(Sub(g, {b}), b, {}, {p}))
Grows(g, b, p, ms, a, h) ==
    /\ Interwoven(a, h)
    /\ DOMAIN h = {b, p} \cup ms
    /\ h[b].links = g[b].links \cup {p}

LEMMA PortAdded ==
    ASSUME NEW g, Typed(g), NEW b \in DOMAIN g, Table(b) = "Bridge", NEW p, IsKey(p), Table(p) = "Port",
           NEW ms, \A m \in ms : IsKey(m) /\ Table(m) = "Interface",
           NEW a, DOMAIN a = {b}, a[b] = g[b], NEW x, NewRows(x, p, ms)
    PROVE  Grows(g, b, p, ms, a, Extended(g, b, p, x))
  <1> DEFINE y == Relinked(Sub(g, {b}), b, {}, {p})
             h == Extended(g, b, p, x)
             row == Linking(g[b], g[b].links \cup {p})
  <1>1. IsRow(b, g[b]) /\ g[b].refs = {}
    BY TypedRow, NoRefs
  <1>2. IsRow(b, row) /\ row.links = g[b].links \cup {p} /\ row.refs = {}
    BY <1>1, IsRowEdit
  <1>3. DOMAIN y = {b} /\ y[b] = row
    BY DEF Relinked, Sub, Linking
  <1>0. h = With(x, y)
    BY DEF Extended
  <1> HIDE DEF h, y, row
  <1>4. DOMAIN h = {b, p} \cup ms
    <2>1. DOMAIN h = DOMAIN x \cup DOMAIN y
      BY <1>0, WithDomain
    <2> QED  BY <1>3, <2>1 DEF NewRows
  <1>5. h[b] = row
    BY <1>0, <1>3, WithOver
  <1>6. \A k \in {p} \cup ms : h[k] = x[k]
    BY <1>0, <1>3, WithUnder DEF NewRows
  <1>7. \A k \in DOMAIN h : IsRow(k, h[k]) /\ h[k].refs = {}
    BY <1>2, <1>4, <1>5, <1>6 DEF NewRows
  <1>8. h[b].links = g[b].links \cup {p} /\ h[p].links = ms /\ \A m \in ms : h[m].links = {}
    BY <1>2, <1>5, <1>6 DEF NewRows
  <1>9. Interwoven(a, h)
    BY <1>4, <1>7, <1>8, PortWoven
  <1>10. Grows(g, b, p, ms, a, h)
    BY <1>4, <1>8, <1>9 DEF Grows
  <1> QED  BY <1>10 DEF h

\* What a request names, as the API takes it.
Asked(r) ==
    /\ Request(r)
    /\ \A k \in r.set : IsKey(k) /\ Table(k) = IF r.op \in MirrorOps THEN "Port" ELSE "Interface"

CreationOps == {"internal.create", "port.create", "bond.create", "tunnel.create"}

LEMMA PairRows ==
    ASSUME NEW p, IsKey(p), Table(p) = "Port", NEW x, NEW cfg, NEW d,
           cfg = [f \in Fields("Port") |-> cfg[f]], d = [f \in Fields("Interface") |-> d[f]],
           DOMAIN x = {p, InterfaceOf(p)}, x[p] = Row(0, {InterfaceOf(p)}, cfg),
           x[InterfaceOf(p)] = Row(0, {}, d)
    PROVE  NewRows(x, p, {InterfaceOf(p)})
  <1> DEFINE m == InterfaceOf(p)
             u == Row(0, {m}, cfg)
             v == Row(0, {}, d)
  <1>1. Table(m) = "Interface"
    BY NamesOf
  <1>2. IsRow(p, u) /\ u.links = {m} /\ u.refs = {}
    BY NewRow
  <1>3. IsRow(m, v) /\ v.links = {} /\ v.refs = {}
    BY <1>1, NewRow
  <1> HIDE DEF m, u, v
  <1>4. DOMAIN x = {p, m} /\ x[p] = u /\ x[m] = v
    BY DEF m, u, v
  <1>5. NewRows(x, p, {m})
    BY <1>2, <1>3, <1>4 DEF NewRows
  <1> QED  BY <1>5 DEF m

LEMMA MemberRow ==
    ASSUME NEW m, Table(m) = "Interface", NEW t
    PROVE  /\ IsRow(m, Row(0, {}, InterfaceCfg(t))) /\ Row(0, {}, InterfaceCfg(t)).links = {}
           /\ Row(0, {}, InterfaceCfg(t)).refs = {}
  <1>1. InterfaceCfg(t) = [f \in Fields(Table(m)) |-> InterfaceCfg(t)[f]]
    BY NewCfgs
  <1> QED  BY <1>1, NewRow

LEMMA CreationWoven ==
    ASSUME NEW g, Typed(g), NEW r, Asked(r), r.op \in CreationOps, r.key \in DOMAIN g
    PROVE  /\ Interwoven(Stored(g, r), After(g, r))
           /\ r.key \in DOMAIN After(g, r) /\ After(g, r)[r.key].links = g[r.key].links \cup {r.on}
           /\ r.op = "internal.create" => DOMAIN After(g, r) = {r.key, r.on, InterfaceOf(r.on)}
  <1> DEFINE b == r.key
             p == r.on
             a == Stored(g, r)
             h == After(g, r)
  <1>1. Table(b) = "Bridge" /\ IsKey(b) /\ Table(p) = "Port" /\ IsKey(p)
    BY DEF Asked, Request, Subject, PortOps, InterfaceOps, BridgeOps, SecondOps, Second, CreationOps
  <1>2. Before(g, r) = {b}
    BY DEF CreationOps, Before, MirrorOps
  <1>3. DOMAIN a = {b} /\ a[b] = g[b]
    BY <1>2, StoredSame DEF CreationOps, DeletionOps
  <1> HIDE DEF a
  <1>4. IsKey(InterfaceOf(p)) /\ Table(InterfaceOf(p)) = "Interface" /\ InterfaceOf(p) # p
    BY <1>1, NamesOf DEF InterfaceOf, IsKey, Table, Name, Root
  <1>5. CASE r.op = "internal.create"
    <2> DEFINE x == InternalPort(p, r.v)
               cfg == [PortCfg EXCEPT !.vlan = r.v]
    <2>1. h = Extended(g, b, p, x)
      BY <1>5 DEF After, MirrorOps, Extended
    <2> HIDE DEF h
    <2>2. /\ DOMAIN x = {p, InterfaceOf(p)} /\ x[p] = Row(0, {InterfaceOf(p)}, cfg)
          /\ x[InterfaceOf(p)] = Row(0, {}, InterfaceCfg("internal"))
      BY <1>4 DEF InternalPort, With, Just, NewInterface
    <2>3. /\ cfg = [f \in Fields("Port") |-> cfg[f]]
          /\ InterfaceCfg("internal") = [f \in Fields("Interface") |-> InterfaceCfg("internal")[f]]
      BY NewCfgs
    <2> HIDE DEF x, cfg
    <2>4. NewRows(x, p, {InterfaceOf(p)})
      BY <1>1, <2>2, <2>3, PairRows
    <2>5. Grows(g, b, p, {InterfaceOf(p)}, a, h)
      BY <1>1, <1>3, <1>4, <2>1, <2>4, PortAdded
    <2> QED  BY <2>5 DEF a, h, Grows
  <1>6. CASE r.op = "tunnel.create"
    <2> DEFINE x == With(NewPortRow(p, {InterfaceOf(p)}), Just(InterfaceOf(p), Row(0, {}, Tunnel(r.remote))))
    <2>1. h = Extended(g, b, p, x)
      BY <1>6 DEF After, MirrorOps, TunnelCreated, Extended
    <2> HIDE DEF h
    <2>2. /\ DOMAIN x = {p, InterfaceOf(p)} /\ x[p] = Row(0, {InterfaceOf(p)}, PortCfg)
          /\ x[InterfaceOf(p)] = Row(0, {}, Tunnel(r.remote))
      BY <1>4 DEF With, Just, NewPortRow
    <2> HIDE DEF x
    <2>3. NewRows(x, p, {InterfaceOf(p)})
      BY <1>1, <2>2, NewCfgs, PairRows
    <2>4. Grows(g, b, p, {InterfaceOf(p)}, a, h)
      BY <1>1, <1>3, <1>4, <2>1, <2>3, PortAdded
    <2> QED  BY <1>6, <2>4 DEF a, h, Grows
  <1>7. CASE r.op \in {"port.create", "bond.create"}
    <2> DEFINE ms == r.set
               bond == IF Cardinality(ms) > 1 THEN 1 ELSE 0
               cfg == [PortCfg EXCEPT !.bond = bond]
               u == Row(0, ms, cfg)
               v == Row(0, {}, InterfaceCfg("system"))
               members == [k \in ms |-> v]
               x == With(members, Just(p, u))
    <2>1. h = Extended(g, b, p, x)
      BY <1>7 DEF After, MirrorOps, PortCreated, Extended
    <2> HIDE DEF h
    <2>2. \A m \in ms : IsKey(m) /\ Table(m) = "Interface"
      BY <1>7 DEF Asked, MirrorOps
    <2>3. cfg = [f \in Fields("Port") |-> cfg[f]]
      BY NewCfgs
    <2> HIDE DEF cfg
    <2>4. IsRow(p, u) /\ u.links = ms /\ u.refs = {}
      BY <1>1, <2>3, NewRow
    <2>5. ASSUME NEW m \in ms PROVE IsRow(m, v) /\ v.links = {} /\ v.refs = {}
      BY <2>2, MemberRow
    <2> HIDE DEF u, v, ms
    <2>6. DOMAIN x = {p} \cup ms /\ x[p] = u /\ \A m \in ms : x[m] = v
      BY <1>1, <2>2 DEF With, Just
    <2> HIDE DEF x
    <2>7. NewRows(x, p, ms)
      BY <2>4, <2>5, <2>6 DEF NewRows
    <2>8. Grows(g, b, p, ms, a, h)
      BY <1>1, <1>3, <2>1, <2>2, <2>7, PortAdded
    <2> QED  BY <1>7, <2>8 DEF a, h, Grows
  <1> QED  BY <1>5, <1>6, <1>7 DEF CreationOps

LEMMA CanonicalIsRow ==
    ASSUME NEW op, NEW k, Table(k) \in {"Bridge", "Port", "Interface"}, NEW row
    PROVE  IsRow(k, Canonical(op, k, row))
  <1> DEFINE c == CASE Table(k) = "Bridge" -> BridgeCfg
                    [] Table(k) = "Interface" -> InterfaceCfg("internal")
                    [] OTHER -> CanonicalPort(op, row)
             l == {j \in row.links : Table(j) \in {"Port", "Interface"}}
             x == Row(row.id, l, c)
  <1>1. CanonicalPort(op, row) = PortCfg \/ CanonicalPort(op, row) = [PortCfg EXCEPT !.vlan = row.cfg.vlan]
    BY DEF CanonicalPort
  <1>2. CanonicalPort(op, row) = [f \in Fields("Port") |-> CanonicalPort(op, row)[f]]
    <2>1. CASE CanonicalPort(op, row) = PortCfg
      BY <2>1, NewCfgs
    <2>2. CASE CanonicalPort(op, row) = [PortCfg EXCEPT !.vlan = row.cfg.vlan]
      <3> DEFINE v == row.cfg.vlan
                 d == [PortCfg EXCEPT !.vlan = v]
      <3>1. d = [f \in Fields("Port") |-> d[f]]
        BY NewCfgs
      <3> QED  BY <2>2, <3>1
    <2> QED  BY <1>1, <2>1, <2>2
  <1>3. c = [f \in Fields(Table(k)) |-> c[f]]
    <2>1. CASE Table(k) = "Bridge"
      BY <2>1, NewCfgs
    <2>2. CASE Table(k) = "Interface"
      BY <2>2, NewCfgs
    <2>3. CASE Table(k) = "Port"
      BY <1>2, <2>3
    <2> QED  BY <2>1, <2>2, <2>3
  <1>4. Canonical(op, k, row) = [x EXCEPT !.made = row.made]
    BY DEF Canonical
  <1> HIDE DEF c, l
  <1>5. IsRow(k, x)
    BY <1>3, NewRow
  <1> HIDE DEF x
  <1>6. IsRow(k, [x EXCEPT !.made = row.made])
    BY <1>5, RowRenewed
  <1> QED  BY <1>4, <1>6

RemovalOps == {"internal.delete", "port.delete", "tunnel.delete"}

LEMMA RemovalWoven ==
    ASSUME NEW g, Schema(g), NEW r, Asked(r), r.op \in RemovalOps, r.key \in DOMAIN g, Can(g, r)
    PROVE  /\ Interwoven(Stored(g, r), After(g, r))
           /\ \E b \in DOMAIN g : /\ Table(b) = "Bridge" /\ DOMAIN After(g, r) = {b}
                                  /\ Stored(g, r)[b] = g[b]
                                  /\ After(g, r)[b].links = g[b].links \ {r.key}
           /\ DOMAIN Stored(g, r) = Loaded(g, r.key)
  <1> DEFINE p == r.key
             a == Stored(g, r)
             h == After(g, r)
  <1>1. Table(p) = "Port" /\ IsKey(p)
    BY DEF Asked, Request, Subject, PortOps, RemovalOps
  <1>2. Typed(g)
    BY DEF Schema
  <1>3. PICK b : Holders(g, p) = {b}
    <2>1. CASE r.op = "internal.delete"
      BY <2>1 DEF Can, OwnInternalPort, MirrorOps, TunnelOps
    <2>2. CASE r.op = "port.delete"
      BY <2>2 DEF Can, UnderBridge, MirrorOps, TunnelOps
    <2>3. CASE r.op = "tunnel.delete"
      BY <2>3 DEF Can, CanTunnel, UnderBridge, MirrorOps, TunnelOps
    <2> QED  BY <2>1, <2>2, <2>3 DEF RemovalOps
  <1>4. b \in DOMAIN g /\ Table(b) = "Bridge"
    BY <1>1, <1>2, <1>3, HolderTables
  <1>5. Before(g, r) = Loaded(g, p)
    BY DEF RemovalOps, Before, MirrorOps
  <1>6. h = PortDeleted(g, p)
    BY DEF RemovalOps, After, MirrorOps
  <1>7. DOMAIN a = Loaded(g, p)
    BY <1>5 DEF Stored
  <1>8. ASSUME NEW k \in DOMAIN a
        PROVE  IsRow(k, a[k]) /\ a[k].links = g[k].links /\ a[k].refs = g[k].refs
    <2>1. k \in DOMAIN g
      BY <1>1, <1>7, LoadedPresent
    <2>2. CASE ~Deletes(r.op, k)
      BY <1>2, <1>5, <1>7, <2>1, <2>2, TypedRow DEF Stored
    <2>3. CASE Deletes(r.op, k)
      <3>1. k = p \/ k \in g[p].links \/ k = b
        BY <1>3, <1>7 DEF Loaded
      <3>2. Table(k) # "Bridge"
        BY <2>3 DEF Deletes, RemovalOps, DeletionOps
      <3>3. Table(k) \in {"Port", "Interface"}
        BY <1>1, <1>2, <1>4, <3>1, <3>2, LinkTables
      <3>4. a[k] = Canonical(r.op, k, g[k])
        BY <1>5, <1>7, <2>3 DEF Stored
      <3>5. IsRow(k, a[k])
        BY <3>3, <3>4, CanonicalIsRow
      <3>6. g[k].refs = {} /\ \A j \in g[k].links : Table(j) \in {"Port", "Interface"}
        BY <1>2, <2>1, <3>3, NoRefs, LinkTables
      <3>7. a[k].refs = {} /\ a[k].links = {j \in g[k].links : Table(j) \in {"Port", "Interface"}}
        BY <1>5, <1>7, <2>3, StoredRow
      <3> QED  BY <3>5, <3>6, <3>7
    <2> QED  BY <2>2, <2>3
  <1> DEFINE row == Linking(g[b], g[b].links \ {p})
  <1>9. IsRow(b, g[b]) /\ g[b].refs = {}
    BY <1>2, <1>4, TypedRow, NoRefs
  <1>10. IsRow(b, row) /\ row.links = g[b].links \ {p} /\ row.refs = {}
    BY <1>9, IsRowEdit
  <1>11. DOMAIN h = {b} /\ h[b] = row
    BY <1>3, <1>6 DEF PortDeleted, Linking
  <1>12. a[b] = g[b]
    <2>1. b \in Before(g, r)
      BY <1>3, <1>5 DEF Loaded
    <2>2. ~Deletes(r.op, b)
      BY <1>4 DEF Deletes, RemovalOps, DeletionOps
    <2> QED  BY <2>1, <2>2 DEF Stored
  <1> HIDE DEF a, h, row
  <1>13. Interwoven(a, h)
    <2>1. IsRow(b, h[b]) /\ h[b].refs = {} /\ h[b].links = g[b].links \ {p} /\ DOMAIN h = {b}
      BY <1>10, <1>11
    <2> HIDE DEF p
    <2>2. p \in DOMAIN g
      BY DEF p
    <2> QED  BY <1>1, <1>3, <1>7, <1>8, <2>1, <2>2, PortUnwoven
  <1> QED  BY <1>4, <1>7, <1>10, <1>11, <1>12, <1>13 DEF a, h

LEMMA BridgeRows ==
    ASSUME NEW b, IsKey(b), Table(b) = "Bridge", NEW a, DOMAIN a = Graph(b),
           \A k \in Graph(b) : IsRow(k, a[k]) /\ a[k].refs = {},
           a[b].links = {Local(b)}, a[Local(b)].links = {InterfaceOf(b)}, a[InterfaceOf(b)].links = {},
           NEW h, DOMAIN h = {}
    PROVE  Interwoven(a, h) /\ Interwoven(h, a)
  <1> DEFINE p == Local(b)
             m == InterfaceOf(b)
  <1>1. /\ IsKey(p) /\ Table(p) = "Port" /\ IsKey(m) /\ Table(m) = "Interface"
        /\ Graph(b) = {b, p, m}
    BY DEF Local, PortOf, InterfaceOf, IsKey, Table, Name, Root, Graph
  <1>2. b # Root /\ p # Root /\ m # Root
    BY <1>1 DEF Root, Table
  <1> HIDE DEF p, m
  <1>3. a[b].links = {p} /\ a[p].links = {m} /\ a[m].links = {} /\ DOMAIN a = {b, p, m}
    BY <1>1 DEF p, m
  <1>4. Held(a, p) /\ Held(a, m)
    BY <1>3 DEF Held
  <1>5. Proportioned(a, b) /\ Proportioned(a, p) /\ Proportioned(a, m)
    BY <1>1, <1>2, <1>3, <1>4, BelowTables DEF Proportioned
  <1>6. \A k \in DOMAIN a : Proportioned(a, k) /\ a[k].links \subseteq DOMAIN a
    BY <1>3, <1>5
  <1> QED  BY <1>6, AloneWoven

LEMMA BridgeCreationWoven ==
    ASSUME NEW g, NEW r, Asked(r), r.op = "bridge.create"
    PROVE  Interwoven(Stored(g, r), After(g, r)) /\ DOMAIN Stored(g, r) = {}
  <1> DEFINE b == r.key
             p == Local(b)
             m == InterfaceOf(b)
             a == Stored(g, r)
             h == NewBridge(b)
             u == Row(0, {p}, BridgeCfg)
             v == Row(0, {m}, PortCfg)
             w == Row(0, {}, InterfaceCfg("internal"))
  <1>1. Table(b) = "Bridge" /\ IsKey(b)
    BY DEF Asked, Request, Subject, PortOps, InterfaceOps, BridgeOps
  <1>2. Table(p) = "Port" /\ Table(m) = "Interface"
    BY NamesOf DEF Local
  <1>3. DOMAIN a = {}
    BY DEF Stored, Before, MirrorOps
  <1>4. After(g, r) = h
    BY DEF After, MirrorOps
  <1>5. p # b /\ m # b /\ m # p
    BY <1>1, <1>2
  <1>6. DOMAIN h = {b, p, m} /\ h[b] = u /\ h[p] = v /\ h[m] = w
    <2> HIDE DEF p, m, u, w
    <2>1. h = With(Just(b, u), With(Just(p, v), Just(m, w)))
      BY DEF NewBridge, NewPortRow, NewInterface, p, m, u, w
    <2> HIDE DEF h, b, v
    <2> QED  BY <1>5, <2>1 DEF With, Just
  <1>7. IsRow(b, u) /\ u.links = {p} /\ u.refs = {}
    <2>1. BridgeCfg = [f \in Fields(Table(b)) |-> BridgeCfg[f]]
      BY <1>1, NewCfgs
    <2> QED  BY <2>1, NewRow
  <1>8. IsRow(p, v) /\ v.links = {m} /\ v.refs = {}
    <2>1. PortCfg = [f \in Fields(Table(p)) |-> PortCfg[f]]
      BY <1>2, NewCfgs
    <2> QED  BY <2>1, NewRow
  <1>9. IsRow(m, w) /\ w.links = {} /\ w.refs = {}
    BY <1>2, MemberRow
  <1>10. Graph(b) = {b, p, m}
    BY DEF Graph, Local
  <1> HIDE DEF b, p, m, u, v, w, h, a
  <1>11. \A k \in Graph(b) : IsRow(k, h[k]) /\ h[k].refs = {}
    BY <1>6, <1>7, <1>8, <1>9, <1>10
  <1>12. h[b].links = {p} /\ h[p].links = {m} /\ h[m].links = {} /\ DOMAIN h = Graph(b)
    BY <1>6, <1>7, <1>8, <1>9, <1>10
  <1>13. Interwoven(a, h)
    BY <1>1, <1>3, <1>11, <1>12, BridgeRows DEF p, m
  <1> QED  BY <1>3, <1>4, <1>13 DEF a

LEMMA BridgeDeletionWoven ==
    ASSUME NEW g, Schema(g), NEW r, Asked(r), r.op = "bridge.delete", r.key \in DOMAIN g, Can(g, r)
    PROVE  Interwoven(Stored(g, r), After(g, r)) /\ DOMAIN After(g, r) = {}
  <1> DEFINE b == r.key
             p == Local(b)
             m == InterfaceOf(b)
             a == Stored(g, r)
             h == After(g, r)
  <1>1. Table(b) = "Bridge" /\ IsKey(b)
    BY DEF Asked, Request, Subject, PortOps, InterfaceOps, BridgeOps
  <1>2. Table(p) = "Port" /\ Table(m) = "Interface"
    BY NamesOf DEF Local
  <1>3. DOMAIN h = {}
    BY DEF After, MirrorOps
  <1>4. IsolatedBridge(g, b)
    BY DEF Can, MirrorOps, TunnelOps
  <1>5. Before(g, r) = Graph(b) /\ DOMAIN a = Graph(b) /\ Graph(b) = {b, p, m}
    BY DEF Before, MirrorOps, Stored, Graph, Local
  <1>6. Ports(g, b) = {p} /\ g[p].links = {m}
    BY <1>4 DEF IsolatedBridge
  <1>7. Typed(g) /\ p \in DOMAIN g /\ m \in DOMAIN g
    BY <1>6, LinkTables DEF Schema, Ports
  <1>8. \A k \in Graph(b) : Deletes(r.op, k)
    BY DEF Deletes, DeletionOps
  <1>9. \A k \in Graph(b) : a[k] = Canonical(r.op, k, g[k])
    BY <1>5, <1>8 DEF Stored
  <1>10. \A k \in Graph(b) : a[k].refs = {} /\ a[k].links = {j \in g[k].links : Table(j) \in {"Port", "Interface"}}
    BY <1>5, <1>8, StoredRow
  <1>11. \A k \in Graph(b) : IsRow(k, a[k])
    BY <1>1, <1>2, <1>5, <1>9, CanonicalIsRow
  <1>12. \A j \in g[b].links : Table(j) \in {"Port", "Mirror"}
    BY <1>1, <1>7, LinkTables
  <1>13. g[m].links = {}
    BY <1>2, <1>7, LinkTables
  <1> HIDE DEF a, h, p, m, b
  <1>14. a[b].links = {p}
    BY <1>5, <1>6, <1>10, <1>12 DEF Ports
  <1>15. a[p].links = {m} /\ a[m].links = {}
    BY <1>2, <1>5, <1>6, <1>10, <1>13
  <1>16. Interwoven(a, h)
    BY <1>1, <1>3, <1>5, <1>10, <1>11, <1>14, <1>15, BridgeRows DEF p, m
  <1> QED  BY <1>3, <1>16 DEF a, h

LEMMA TreeDeletionWoven ==
    ASSUME NEW g, Schema(g), NEW r, Asked(r), r.op = "bridge.delete-tree", r.key \in DOMAIN g,
           Mirrors(g, r.key) = {}
    PROVE  Interwoven(Stored(g, r), After(g, r))
  <1> DEFINE b == r.key
             a == Stored(g, r)
             h == After(g, r)
  <1>1. Table(b) = "Bridge" /\ IsKey(b)
    BY DEF Asked, Request, Subject, PortOps, InterfaceOps, BridgeOps
  <1>2. DOMAIN h = {}
    BY DEF After, MirrorOps
  <1>3. Typed(g) /\ Before(g, r) = Region(g, b)
    BY DEF Schema, Before, MirrorOps
  <1>4. DOMAIN a = Region(g, b) /\ \A k \in Region(g, b) : a[k] = g[k]
    BY <1>3, StoredSame DEF DeletionOps
  <1> HIDE DEF a, h
  <1>5. Part(g, Region(g, b)) /\ Region(g, b) \subseteq DOMAIN g
    BY <1>1, RegionPart, RegionPresent
  <1>6. \A k \in DOMAIN a : IsRow(k, a[k]) /\ a[k].links = g[k].links /\ a[k].refs = g[k].refs
    BY <1>3, <1>4, <1>5, TypedRow
  <1>7. \A k \in DOMAIN a : Proportioned(a, k)
    BY <1>3, <1>4, <1>5, <1>6, PartProportioned
  <1>8. g[b].links = Ports(g, b)
    BY DEF Mirrors, Ports
  <1>9. \A p \in Ports(g, b) : g[p].links \subseteq Members(g, Ports(g, b))
    BY DEF Members
  <1>10. ASSUME NEW m \in Members(g, Ports(g, b)) PROVE g[m].links = {}
    <2>1. PICK p \in Ports(g, b) : m \in g[p].links
      BY DEF Members
    <2>2. p \in DOMAIN g /\ Table(p) = "Port"
      BY <1>3, LinkTables DEF Ports
    <2>3. m \in DOMAIN g /\ Table(m) = "Interface"
      BY <1>3, <2>1, <2>2, LinkTables
    <2> QED  BY <1>3, <2>3, LinkTables
  <1>11. \A k \in DOMAIN a : a[k].links \subseteq DOMAIN a
    BY <1>4, <1>8, <1>9, <1>10 DEF Region
  <1>12. Interwoven(a, h)
    BY <1>2, <1>7, <1>11, AloneWoven
  <1> QED  BY <1>12 DEF a, h

ValueOps == {"ofport", "patch.connect", "patch.disconnect", "tunnel.configure"}

LEMMA ValueBefore ==
    ASSUME NEW g, Schema(g), NEW r, Asked(r), r.op \in ValueOps, r.key \in DOMAIN g, Can(g, r)
    PROVE  Part(g, Before(g, r))
  <1>0. Typed(g)
    BY DEF Schema
  <1>1. CASE r.op = "ofport"
    <2>1. Table(r.key) = "Interface"
      BY <1>1 DEF Asked, Request, Subject, PortOps, InterfaceOps
    <2>2. \A p \in Holders(g, r.key) : Table(p) = "Port"
      BY <1>0, <2>1, HolderTables
    <2> DEFINE bs == HoldersOf(g, Holders(g, r.key))
               S == {Region(g, b) : b \in bs}
    <2>3. \A b \in bs : b \in DOMAIN g /\ Table(b) = "Bridge"
      BY <1>0, <2>2, HolderTables DEF HoldersOf
    <2>4. \A b \in bs : Part(g, Region(g, b))
      BY <2>3, RegionPart
    <2>5. \A ks \in S : Part(g, ks)
      BY <2>4
    <2>6. Before(g, r) = UNION S
      BY <1>1 DEF Before, MirrorOps, OfportBefore
    <2> HIDE DEF S
    <2> QED  BY <2>5, <2>6, PartUnion
  <1>2. CASE r.op \in {"patch.connect", "patch.disconnect"}
    <2>1. Table(r.key) = "Interface" /\ Table(r.on) = "Interface"
      BY <1>2 DEF Asked, Request, Subject, PortOps, InterfaceOps, SecondOps, Second
    <2> DEFINE ps == HoldersOf(g, {r.key, r.on})
               S == {Loaded(g, p) : p \in ps}
    <2>2. \A p \in ps : p \in DOMAIN g /\ Table(p) = "Port"
      BY <1>0, <2>1, HolderTables DEF HoldersOf
    <2>3. \A p \in ps : Part(g, Loaded(g, p))
      BY <2>2, LoadedPart
    <2>4. \A ks \in S : Part(g, ks)
      BY <2>3
    <2>5. Before(g, r) = UNION S
      BY <1>2 DEF Before, MirrorOps, PatchBefore
    <2> HIDE DEF S
    <2> QED  BY <2>4, <2>5, PartUnion
  <1>3. CASE r.op = "tunnel.configure"
    <2>1. Table(r.key) = "Port"
      BY <1>3 DEF Asked, Request, Subject, PortOps
    <2>2. Before(g, r) = Loaded(g, r.key)
      BY <1>3 DEF Before, MirrorOps
    <2> QED  BY <2>1, <2>2, LoadedPart
  <1> QED  BY <1>1, <1>2, <1>3 DEF ValueOps

LEMMA ValueAfter ==
    ASSUME NEW g, NEW r, r.op \in ValueOps
    PROVE  /\ DOMAIN After(g, r) = Before(g, r)
           /\ \A k \in Before(g, r) :
                 \/ After(g, r)[k] = g[k]
                 \/ \E f, v : After(g, r)[k] = Setting(g[k], f, v)
                 \/ \E x, y : After(g, r)[k] = Setting(Setting(g[k], "type", x), "opts", y)
  <1>1. CASE r.op = "ofport"
    <2> DEFINE ks == OfportBefore(g, r.key)
    <2>1. Before(g, r) = ks /\ After(g, r) = [Sub(g, ks) EXCEPT ![r.key].cfg.ofport = r.v]
      BY <1>1 DEF Before, After, MirrorOps
    <2> HIDE DEF ks
    <2>2. DOMAIN After(g, r) = ks
      BY <2>1 DEF Sub
    <2>3. \A k \in ks : After(g, r)[k] = g[k] \/ After(g, r)[k] = Setting(g[k], "ofport", r.v)
      BY <2>1 DEF Sub, Setting
    <2> QED  BY <2>1, <2>2, <2>3
  <1>2. CASE r.op \in {"patch.connect", "patch.disconnect"}
    <2> DEFINE ks == PatchBefore(g, r)
    <2>1. PICK t : After(g, r) = Patched(g, r, t)
      BY <1>2 DEF After, MirrorOps
    <2>2. Before(g, r) = ks
      BY <1>2 DEF Before, MirrorOps
    <2>3. DOMAIN After(g, r) = ks
      BY <2>1 DEF Patched
    <2>4. ASSUME NEW k \in ks
          PROVE  \/ After(g, r)[k] = g[k]
                 \/ \E x, y : After(g, r)[k] = Setting(Setting(g[k], "type", x), "opts", y)
      <3> DEFINE o == IF t = "patch" THEN {Name(IF k = r.key THEN r.on ELSE r.key)} ELSE {}
      <3>1. After(g, r)[k] = g[k] \/ After(g, r)[k] = [g[k] EXCEPT !.cfg.type = t, !.cfg.opts = o]
        BY <2>1 DEF Patched
      <3> HIDE DEF o
      <3>2. [g[k] EXCEPT !.cfg.type = t, !.cfg.opts = o] = Setting(Setting(g[k], "type", t), "opts", o)
        BY DEF Setting
      <3> DEFINE row == After(g, r)[k]
                 set == [g[k] EXCEPT !.cfg.type = t, !.cfg.opts = o]
      <3> HIDE DEF row, set
      <3>3. (row = g[k] \/ row = set) /\ set = Setting(Setting(g[k], "type", t), "opts", o)
        BY <3>1, <3>2 DEF row, set
      <3>4. row = g[k] \/ \E x, y : row = Setting(Setting(g[k], "type", x), "opts", y)
        BY <3>3
      <3> QED  BY <3>4 DEF row
    <2> QED  BY <2>2, <2>3, <2>4
  <1>3. CASE r.op = "tunnel.configure"
    <2> DEFINE ks == Loaded(g, r.key)
               x == [k \in ks |-> IF Table(k) = "Interface" THEN [g[k] EXCEPT !.cfg.opts = {r.remote}] ELSE g[k]]
    <2>1. Before(g, r) = ks /\ After(g, r) = x
      BY <1>3 DEF Before, After, MirrorOps
    <2> HIDE DEF ks
    <2>2. DOMAIN x = ks /\ \A k \in ks : x[k] = g[k] \/ x[k] = Setting(g[k], "opts", {r.remote})
      BY DEF Setting
    <2> HIDE DEF x
    <2> QED  BY <2>1, <2>2
  <1> QED  BY <1>1, <1>2, <1>3 DEF ValueOps

LEMMA ValueWoven ==
    ASSUME NEW g, Schema(g), NEW r, Asked(r), r.op \in ValueOps, r.key \in DOMAIN g, Can(g, r)
    PROVE  Interwoven(Stored(g, r), After(g, r))
  <1> DEFINE a == Stored(g, r)
             h == After(g, r)
  <1>1. Typed(g) /\ Part(g, Before(g, r)) /\ Before(g, r) \subseteq DOMAIN g
    BY ValueBefore DEF Schema, Part
  <1>2. DOMAIN a = Before(g, r) /\ \A k \in Before(g, r) : a[k] = g[k]
    BY StoredSame DEF ValueOps, DeletionOps
  <1>3. DOMAIN h = Before(g, r)
    BY ValueAfter
  <1>4. ASSUME NEW k \in Before(g, r)
        PROVE  IsRow(k, h[k]) /\ h[k].links = g[k].links /\ h[k].refs = g[k].refs
    <2>0. IsRow(k, g[k])
      BY <1>1, TypedRow
    <2>1. \/ h[k] = g[k]
          \/ \E f, v : h[k] = Setting(g[k], f, v)
          \/ \E x, y : h[k] = Setting(Setting(g[k], "type", x), "opts", y)
      BY ValueAfter
    <2> HIDE DEF h
    <2>2. CASE h[k] = g[k]
      BY <2>0, <2>2
    <2>3. CASE \E f, v : h[k] = Setting(g[k], f, v)
      BY <2>0, <2>3, SettingRow
    <2>4. CASE \E x, y : h[k] = Setting(Setting(g[k], "type", x), "opts", y)
      <3>1. PICK x, y : h[k] = Setting(Setting(g[k], "type", x), "opts", y)
        BY <2>4
      <3> DEFINE row == Setting(g[k], "type", x)
      <3>2. IsRow(k, row) /\ row.links = g[k].links /\ row.refs = g[k].refs
        BY <2>0, SettingRow
      <3> HIDE DEF row
      <3>3. h[k] = Setting(row, "opts", y)
        BY <3>1 DEF row
      <3> QED  BY <3>2, <3>3, SettingRow
    <2> QED  BY <2>1, <2>2, <2>3, <2>4
  <1> HIDE DEF a, h
  <1>5. \A k \in DOMAIN a : IsRow(k, a[k]) /\ a[k].links = g[k].links /\ a[k].refs = g[k].refs
    BY <1>1, <1>2, TypedRow
  <1>6. Interwoven(a, h)
    BY <1>1, <1>2, <1>3, <1>4, <1>5, SameWoven
  <1> QED  BY <1>6 DEF a, h

LEMMA MoveWoven ==
    ASSUME NEW g, Schema(g), NEW r, Asked(r), r.op = "port.move", r.key \in DOMAIN g, Can(g, r)
    PROVE  Interwoven(Stored(g, r), After(g, r))
  <1> DEFINE p == r.key
             to == r.on
             a == Stored(g, r)
             h == After(g, r)
             ks == Loaded(g, p) \cup {to}
  <1>1. Table(p) = "Port" /\ Table(to) = "Bridge"
    BY DEF Asked, Request, Subject, PortOps, SecondOps, Second
  <1>2. CanMove(g, r)
    BY DEF Can, MirrorOps, TunnelOps
  <1>3. PICK b \in DOMAIN g : Holders(g, p) = {b} /\ Table(b) = "Bridge"
    BY <1>2 DEF CanMove, UnderBridge, Rows
  <1>4. to \in DOMAIN g /\ to # b /\ Typed(g)
    BY <1>2, <1>3 DEF CanMove, Schema
  <1>5. Before(g, r) = ks /\ h = Moved(g, r)
    BY DEF Before, After, MirrorOps
  <1>6. DOMAIN a = ks /\ \A k \in ks : a[k] = g[k]
    BY <1>5, StoredSame DEF DeletionOps
  <1>7. ks = {p, b, to} \cup g[p].links
    BY <1>3 DEF Loaded
  <1>8. \A j \in g[p].links : j \in DOMAIN g /\ Table(j) = "Interface" /\ IsKey(j)
    BY <1>1, <1>4, LinkTables
  <1>9. Part(g, ks)
    BY <1>1, <1>4, LoadedPart, BridgePart, PartJoin
  <1>10. p # b /\ p # to
    BY <1>1, <1>3
  <1> DEFINE x == Linking(g[b], g[b].links \ {p})
             y == Linking(g[to], g[to].links \cup {p})
  <1>11. /\ DOMAIN h = ks /\ h[b] = x /\ h[to] = y /\ h[p] = g[p]
         /\ \A j \in g[p].links : h[j] = g[j]
    <2>1. \A k \in ks : h[k] = CASE k \in {b} -> [g[k] EXCEPT !.links = @ \ {p}]
                                 [] k = to -> [g[k] EXCEPT !.links = @ \cup {p}]
                                 [] OTHER -> g[k]
      BY <1>3, <1>5 DEF Moved
    <2>2. DOMAIN h = ks
      BY <1>5 DEF Moved
    <2> HIDE DEF h
    <2> QED  BY <1>1, <1>3, <1>4, <1>7, <1>8, <1>10, <2>1, <2>2 DEF Linking
  <1>12. IsRow(b, x) /\ x.links = g[b].links \ {p} /\ x.refs = {}
    BY <1>3, <1>4, TypedRow, NoRefs, IsRowEdit
  <1>13. IsRow(to, y) /\ y.links = g[to].links \cup {p} /\ y.refs = {}
    BY <1>1, <1>4, TypedRow, NoRefs, IsRowEdit
  <1> HIDE DEF a, h, ks, x, y, p, to
  <1>14. \A k \in DOMAIN a : IsRow(k, a[k]) /\ a[k].links = g[k].links /\ a[k].refs = g[k].refs
    BY <1>4, <1>6, <1>9, TypedRow DEF Part
  <1>15. \A k \in DOMAIN a : Proportioned(a, k)
    BY <1>4, <1>6, <1>9, <1>14, PartProportioned
  <1>16. Proportioned(h, b)
    BY <1>3, <1>6, <1>7, <1>11, <1>12, <1>15 DEF Proportioned
  <1>17. Proportioned(h, to)
    BY <1>1, <1>6, <1>7, <1>11, <1>13, <1>15, BelowTables DEF Proportioned
  <1>18. Proportioned(h, p)
    <2>1. Held(h, p)
      BY <1>7, <1>11, <1>13 DEF Held
    <2>2. Proportioned(a, p) /\ a[p] = g[p]
      BY <1>6, <1>7, <1>15
    <2> QED  BY <1>6, <1>11, <2>1, <2>2 DEF Proportioned
  <1>19. ASSUME NEW j \in g[p].links PROVE Proportioned(h, j)
    <2>1. Held(h, j)
      BY <1>7, <1>11 DEF Held
    <2>2. Proportioned(a, j) /\ a[j] = g[j]
      BY <1>6, <1>7, <1>15
    <2> QED  BY <1>6, <1>11, <2>1, <2>2 DEF Proportioned
  <1>20. \A k \in DOMAIN h : Proportioned(h, k)
    BY <1>7, <1>11, <1>16, <1>17, <1>18, <1>19
  <1>21. \A k \in ks : h[k].links \ a[k].links \subseteq ks /\ a[k].links \ h[k].links \subseteq ks
    BY <1>6, <1>7, <1>11, <1>12, <1>13
  <1>22. Interwoven(a, h)
    BY <1>6, <1>11, <1>15, <1>20, <1>21 DEF Interwoven, Woven
  <1> QED  BY <1>22 DEF a, h

\* bond.members: the ports that lose their only interface go, and interfaces
\* that are left out get ports of their own.
Regrouped(g, r, b, sources, released, split) ==
    /\ DOMAIN Stored(g, r) = {r.key, b} \cup r.set \cup released \cup sources
    /\ DOMAIN After(g, r) = {r.key, b} \cup r.set \cup released \cup split
    /\ \A s \in sources : g[s].links \subseteq r.set
    /\ g[r.key].links \subseteq r.set \cup released

LEMMA MembersFacts ==
    ASSUME NEW g, Schema(g), IsFiniteSet(DOMAIN g), NEW r, Asked(r), r.op = "bond.members",
           r.key \in DOMAIN g, Can(g, r), NEW b, Holders(g, r.key) = {b}
    PROVE  Regrouped(g, r, b, Sources(g, r), Released(g, r), {PortOf(i) : i \in Released(g, r)})
  <1> DEFINE p == r.key
             S == Sources(g, r)
             R == Released(g, r)
             split == {PortOf(i) : i \in R}
  <1>1. Table(p) = "Port" /\ \A i \in r.set : Table(i) = "Interface"
    BY DEF Asked, Request, Subject, PortOps, MirrorOps
  <1>2. CanSetMembers(g, r) /\ Typed(g)
    BY DEF Can, MirrorOps, TunnelOps, Schema
  <1>3. r.set \subseteq DOMAIN g /\ r.set \cap DOMAIN g = r.set
    BY <1>2 DEF CanSetMembers
  <1>4. b \in DOMAIN g /\ Table(b) = "Bridge" /\ p \in g[b].links
    BY <1>1, <1>2, HolderTables
  <1>5. S = HoldersOf(g, r.set) \ {p}
    BY <1>3 DEF Sources
  <1>6. \A s \in S : s \in DOMAIN g /\ Table(s) = "Port" /\ Holders(g, s) = {b} /\ Cardinality(g[s].links) = 1
    <2>1. \A s \in S : s \in DOMAIN g /\ Table(s) = "Port"
      BY <1>1, <1>2, <1>5, HolderTables DEF HoldersOf
    <2>2. \A s \in S : Holders(g, s) = Holders(g, p) /\ Cardinality(g[s].links) = 1
      BY <1>2 DEF CanSetMembers
    <2> QED  BY <2>1, <2>2
  <1> HIDE DEF S, R
  <1>7. ASSUME NEW s \in S PROVE g[s].links \subseteq r.set
    <2>1. PICK i \in r.set : s \in Holders(g, i)
      BY <1>5 DEF HoldersOf
    <2>2. i \in g[s].links
      BY <2>1 DEF Holders
    <2>3. g[s].links \in SUBSET DOMAIN g
      BY <1>2, <1>6, LinkTables
    <2>4. IsFiniteSet(g[s].links)
      BY <2>3, FS_Subset
    <2>5. \E x : g[s].links = {x}
      BY <1>6, <2>4, FS_Singleton
    <2> QED  BY <2>2, <2>5
  <1>8. ASSUME NEW i \in r.set PROVE i \in g[p].links \/ \E s \in S : i \in g[s].links
    <2>1. i \in DOMAIN g /\ i # Root
      BY <1>1, <1>3 DEF Root, Table
    <2>2. PICK s \in DOMAIN g : s \in Holders(g, i)
      BY <2>1 DEF Schema, Holders
    <2>3. i \in g[s].links /\ s \in HoldersOf(g, r.set)
      BY <2>2 DEF Holders, HoldersOf
    <2> QED  BY <1>5, <2>3
  <1>9. g[p].links = (g[p].links \cap r.set) \cup R
    BY DEF Released, R
  <1>10. Loaded(g, p) = {p, b} \cup g[p].links
    BY DEF Loaded
  <1>11. \A s \in S : Loaded(g, s) = {s, b} \cup g[s].links
    BY <1>6 DEF Loaded
  <1>12. MembersBefore(g, r) = Loaded(g, p) \cup UNION {Loaded(g, s) : s \in S}
    BY DEF MembersBefore, S
  <1>13. MembersBefore(g, r) = {p, b} \cup r.set \cup R \cup S
    BY <1>7, <1>8, <1>9, <1>10, <1>11, <1>12
  <1>14. S \cap ({p, b} \cup r.set \cup R) = {}
    <2>1. \A i \in R : Table(i) = "Interface"
      BY <1>1, <1>2, LinkTables DEF R, Released
    <2>2. p \notin S
      BY <1>5
    <2> QED  BY <1>1, <1>4, <1>6, <2>1, <2>2
  <1>15. DOMAIN Stored(g, r) = MembersBefore(g, r)
    BY StoredSame DEF Before, MirrorOps, DeletionOps
  <1>16. DOMAIN After(g, r) = (MembersBefore(g, r) \ S) \cup split
    BY DEF After, MirrorOps, MembersSet, S, R
  <1> HIDE DEF split
  <1>17. DOMAIN After(g, r) = {p, b} \cup r.set \cup R \cup split
    BY <1>13, <1>14, <1>16
  <1>18. Regrouped(g, r, b, S, R, split)
    BY <1>7, <1>9, <1>13, <1>15, <1>17 DEF Regrouped
  <1> QED  BY <1>18 DEF S, R, split

\* A port that is split off has the columns of the bond, but for its members.
SplitOff(row, l) ==
    [Row(0, l, [row.cfg EXCEPT !.bond = 0]) EXCEPT !.ctl = row.ctl, !.mark = row.mark]

LEMMA SplitRow ==
    ASSUME NEW p, Table(p) = "Port", NEW row, IsRow(p, row), NEW k, Table(k) = "Port", NEW l
    PROVE  IsRow(k, SplitOff(row, l)) /\ SplitOff(row, l).links = l /\ SplitOff(row, l).refs = {}
  <1> DEFINE c == [row.cfg EXCEPT !.bond = 0]
             y == SplitOff(row, l)
  <1>1. row.cfg = [f \in Fields("Port") |-> row.cfg[f]] /\ row.ctl \in BOOLEAN
    BY DEF IsRow
  <1>2. c = [f \in Fields("Port") |-> c[f]]
    BY <1>1
  <1> HIDE DEF c
  <1>3. /\ IsFunction(y) /\ DOMAIN y = Columns /\ y.ctl = row.ctl /\ y.cfg = c
        /\ y.links = l /\ y.refs = {}
    BY DEF Row, Columns, IsFunction, c, SplitOff
  <1> HIDE DEF y
  <1>4. y = [f \in Columns |-> y[f]]
    BY <1>3 DEF IsFunction
  <1>5. IsRow(k, y)
    BY <1>1, <1>2, <1>3, <1>4 DEF IsRow
  <1> QED  BY <1>3, <1>5 DEF y

LEMMA MembersRows ==
    ASSUME NEW g, Schema(g), NEW r, Asked(r), r.op = "bond.members", r.key \in DOMAIN g, Can(g, r),
           NEW b, Holders(g, r.key) = {b}, NEW k \in DOMAIN After(g, r)
    PROVE  LET sources == Sources(g, r)
               split == {PortOf(i) : i \in Released(g, r)}
               h == After(g, r)
           IN /\ IsRow(k, h[k]) /\ h[k].refs = {} /\ IsKey(k)
              /\ k = r.key => h[k].links = r.set
              /\ k = b => h[k].links = (g[b].links \ sources) \cup split
              /\ k \in split => h[k].links = {InterfaceOf(k)}
              /\ k \notin split \cup {r.key, b} => k \in Before(g, r) /\ h[k] = g[k]
  <1> DEFINE p == r.key
             S == Sources(g, r)
             split == {PortOf(i) : i \in Released(g, r)}
             h == After(g, r)
             ks == MembersBefore(g, r)
             bond == IF Cardinality(r.set) = 1 THEN 0
                     ELSE IF g[p].cfg.bond = 0 THEN 1 ELSE g[p].cfg.bond
             cut == [Row(0, {InterfaceOf(k)}, [g[p].cfg EXCEPT !.bond = 0])
                       EXCEPT !.ctl = g[p].ctl, !.mark = g[p].mark]
             rest == (g[b].links \ S) \cup split
  <1>1. Table(p) = "Port" /\ \A i \in r.set : Table(i) = "Interface"
    BY DEF Asked, Request, Subject, PortOps, MirrorOps
  <1>2. CanSetMembers(g, r) /\ Typed(g)
    BY DEF Can, MirrorOps, TunnelOps, Schema
  <1>3. b \in DOMAIN g /\ Table(b) = "Bridge" /\ IsKey(b)
    BY <1>1, <1>2, HolderTables, TypedRow
  <1>4. split \cap DOMAIN g = {} /\ \A q \in split : Table(q) = "Port"
    BY <1>2, NamesOf DEF CanSetMembers
  <1>5. Before(g, r) = ks /\ h = MembersSet(g, r)
    BY DEF Before, After, MirrorOps
  <1>6. \A q \in S : q \in DOMAIN g /\ Table(q) = "Port"
    <2>1. \A i \in r.set \cap DOMAIN g : Table(i) = "Interface"
      BY <1>1
    <2> QED  BY <1>2, <2>1, HolderTables DEF Sources, HoldersOf
  <1>7. ks \subseteq DOMAIN g
    BY <1>6, LoadedPresent DEF MembersBefore
  <1>8. k \in (ks \ S) \cup split
    BY <1>5 DEF MembersSet
  <1>9. h[k] = CASE k = p -> [g[k] EXCEPT !.links = r.set, !.cfg.bond = bond]
                 [] k \in split -> cut
                 [] k \in {b} -> [g[k] EXCEPT !.links = (@ \ S) \cup split]
                 [] OTHER -> g[k]
    BY <1>5, <1>8 DEF MembersSet
  <1> HIDE DEF h, ks, bond, cut, split, S
  <1>10. CASE k = p
    <2> DEFINE row == Linking(g[p], r.set)
    <2>0. p # b /\ p \notin split
      BY <1>1, <1>3, <1>4
    <2>1. h[k] = [g[p] EXCEPT !.links = r.set, !.cfg.bond = bond]
      BY <1>9, <1>10, <2>0
    <2>2. [g[p] EXCEPT !.links = r.set, !.cfg.bond = bond] = Setting(row, "bond", bond)
      BY DEF Setting, Linking
    <2>3. IsKey(p) /\ IsRow(p, g[p]) /\ g[p].refs = {}
      BY <1>1, <1>2, TypedRow, NoRefs
    <2>4. IsRow(p, row) /\ row.links = r.set /\ row.refs = {}
      BY <2>3, IsRowEdit
    <2> HIDE DEF row
    <2>5. h[k] = Setting(row, "bond", bond)
      BY <2>1, <2>2
    <2>6. IsRow(p, h[k]) /\ h[k].links = r.set /\ h[k].refs = {}
      BY <2>4, <2>5, SettingRow
    <2> QED  BY <1>10, <2>0, <2>3, <2>6 DEF h, split, S
  <1>11. CASE k \in split
    <2>1. k # p /\ k # b
      BY <1>3, <1>4, <1>11
    <2>2. h[k] = cut
      BY <1>9, <1>11, <2>1
    <2>3. Table(k) = "Port" /\ IsRow(p, g[p])
      BY <1>2, <1>4, <1>11, TypedRow
    <2> DEFINE row == g[p]
               l == {InterfaceOf(k)}
    <2>4. IsRow(p, row)
      BY <2>3
    <2> HIDE DEF row, l
    <2>5. cut = SplitOff(row, l)
      BY DEF cut, row, l, SplitOff
    <2>6. IsRow(k, cut) /\ cut.links = l /\ cut.refs = {}
      BY <1>1, <2>3, <2>4, <2>5, SplitRow
    <2>7. IsKey(k)
      BY <1>11 DEF split, PortOf, IsKey, Table, Name
    <2> QED  BY <1>11, <2>1, <2>2, <2>6, <2>7 DEF h, split, S, l
  <1>12. CASE k = b
    <2>1. k # p /\ k \notin split
      BY <1>1, <1>3, <1>4, <1>12
    <2>2. h[k] = [g[b] EXCEPT !.links = (@ \ S) \cup split]
      BY <1>9, <1>12, <2>1
    <2>3. h[k] = Linking(g[b], rest)
      BY <2>2 DEF Linking
    <2>4. IsRow(b, g[b]) /\ g[b].refs = {}
      BY <1>2, <1>3, TypedRow, NoRefs
    <2>5. IsRow(b, h[k]) /\ h[k].links = rest /\ h[k].refs = {}
      BY <2>3, <2>4, IsRowEdit
    <2> QED  BY <1>3, <1>12, <2>1, <2>5 DEF h, split, S
  <1>13. CASE k \notin split \cup {p, b}
    <2>1. h[k] = g[k] /\ k \in ks /\ k \in DOMAIN g
      BY <1>7, <1>8, <1>9, <1>13
    <2>2. IsKey(k) /\ IsRow(k, g[k])
      BY <1>2, <2>1, TypedRow
    <2>3. Table(k) # "Mirror"
      <3>1. \A q \in S \cup {p} : \A j \in Loaded(g, q) : Table(j) # "Mirror"
        <4>1. \A q \in S \cup {p} : q \in DOMAIN g /\ Table(q) = "Port"
          BY <1>1, <1>6
        <4> QED  BY <1>2, <4>1, LinkTables, HolderTables DEF Loaded
      <3> QED  BY <2>1, <3>1 DEF ks, MembersBefore, S
    <2>4. g[k].refs = {}
      BY <1>2, <2>1, <2>3, NoRefs
    <2> QED  BY <1>5, <1>13, <2>1, <2>2, <2>4 DEF h, split, S
  <1> QED  BY <1>10, <1>11, <1>12, <1>13

LEMMA MembersWoven ==
    ASSUME NEW g, Schema(g), IsFiniteSet(DOMAIN g), NEW r, Asked(r), r.op = "bond.members",
           r.key \in DOMAIN g, Can(g, r)
    PROVE  Interwoven(Stored(g, r), After(g, r))
  <1> DEFINE p == r.key
             S == Sources(g, r)
             R == Released(g, r)
             split == {PortOf(i) : i \in R}
             a == Stored(g, r)
             h == After(g, r)
  <1>1. Table(p) = "Port" /\ \A i \in r.set : Table(i) = "Interface"
    BY DEF Asked, Request, Subject, PortOps, MirrorOps
  <1>2. CanSetMembers(g, r) /\ Typed(g)
    BY DEF Can, MirrorOps, TunnelOps, Schema
  <1>3. PICK b \in DOMAIN g : Holders(g, p) = {b} /\ Table(b) = "Bridge"
    BY <1>2 DEF CanSetMembers, UnderBridge, Rows
  <1>4. p \in g[b].links /\ p # b
    BY <1>1, <1>3 DEF Holders
  <1>5. /\ DOMAIN a = {p, b} \cup r.set \cup R \cup S
        /\ DOMAIN h = {p, b} \cup r.set \cup R \cup split
        /\ \A s \in S : g[s].links \subseteq r.set
        /\ g[p].links \subseteq r.set \cup R
    BY <1>3, MembersFacts DEF Regrouped
  <1>6. \A k \in DOMAIN a : a[k] = g[k]
    BY StoredSame DEF DeletionOps
  <1>7. /\ split \cap DOMAIN g = {} /\ R \subseteq g[p].links /\ p \notin S
        /\ \A q \in S : q \in DOMAIN g
    BY <1>2 DEF CanSetMembers, Released, Sources, HoldersOf, Holders
  <1>8. \A i \in r.set \cup R : Table(i) = "Interface" /\ i \in DOMAIN g
    BY <1>1, <1>2, <1>7, LinkTables DEF CanSetMembers
  <1>9. ASSUME NEW k \in DOMAIN h
        PROVE  /\ IsRow(k, h[k]) /\ h[k].refs = {} /\ IsKey(k)
               /\ k = p => h[k].links = r.set
               /\ k = b => h[k].links = (g[b].links \ S) \cup split
               /\ k \in split => h[k].links = {InterfaceOf(k)}
               /\ k \notin split \cup {p, b} => k \in Before(g, r) /\ h[k] = g[k]
    BY <1>3, MembersRows
  <1>10. Part(g, DOMAIN a)
    <2>1. Before(g, r) = Loaded(g, p) \cup UNION {Loaded(g, q) : q \in S}
      BY DEF Before, MirrorOps, MembersBefore
    <2>2. DOMAIN a = Before(g, r)
      BY StoredSame DEF DeletionOps
    <2>3. \A q \in S : Table(q) = "Port" /\ q \in DOMAIN g
      <3>1. \A i \in r.set \cap DOMAIN g : Table(i) = "Interface"
        BY <1>1
      <3> QED  BY <1>2, <3>1, HolderTables DEF Sources, HoldersOf
    <2> DEFINE X == {Loaded(g, q) : q \in S}
    <2>4. \A ks \in X : Part(g, ks)
      BY <2>3, LoadedPart
    <2> HIDE DEF X, S, a
    <2>5. Part(g, UNION X) /\ Part(g, Loaded(g, p))
      BY <1>1, <2>4, LoadedPart, PartUnion
    <2>6. Part(g, Loaded(g, p) \cup UNION X)
      BY <2>5, PartJoin
    <2> QED  BY <2>1, <2>2, <2>6 DEF X
  <1>11. \A q \in split : InterfaceOf(q) \in R /\ Table(q) = "Port"
    <2>1. \A j \in R : IsKey(j) /\ Table(j) = "Interface"
      BY <1>2, <1>7, <1>8, TypedRow
    <2>2. \A j \in R : InterfaceOf(PortOf(j)) = j
      BY <2>1 DEF IsKey, PortOf, InterfaceOf, Name, Table
    <2> QED  BY <2>2, NamesOf
  <1>12. \A j \in R : PortOf(j) \in split /\ InterfaceOf(PortOf(j)) = j
    <2>1. \A j \in R : IsKey(j) /\ Table(j) = "Interface"
      BY <1>2, <1>7, <1>8, TypedRow
    <2> QED  BY <2>1 DEF IsKey, PortOf, InterfaceOf, Name, Table
  <1> HIDE DEF a, h, S, R, split, p
  <1>13. \A k \in DOMAIN a : IsRow(k, a[k]) /\ a[k].links = g[k].links /\ a[k].refs = g[k].refs
    BY <1>2, <1>6, <1>10, TypedRow DEF Part
  <1>14. \A k \in DOMAIN a : Proportioned(a, k)
    BY <1>2, <1>10, <1>13, PartProportioned
  <1>15. \A k \in r.set \cup R : h[k].links = {} /\ g[k].links = {}
    <2>1. \A k \in r.set \cup R : k \notin split \cup {p, b}
      BY <1>1, <1>3, <1>8, <1>11
    <2>2. \A k \in r.set \cup R : h[k] = g[k]
      BY <1>5, <1>9, <2>1
    <2> QED  BY <1>2, <1>8, <2>2, LinkTables
  <1>16. h[p].links = r.set /\ h[b].links = (g[b].links \ S) \cup split
    BY <1>5, <1>9
  <1>17. \A k \in DOMAIN h : k # Root /\ \A j \in h[k].links : Table(j) \in Below(Table(k))
    <2>1. \A j \in g[b].links : Table(j) \in {"Port", "Mirror"}
      BY <1>2, <1>3, LinkTables
    <2>2. \A j \in h[b].links : Table(j) \in Below("Bridge")
      BY <1>11, <1>16, <2>1, BelowTables
    <2>3. \A j \in h[p].links : Table(j) \in Below("Port")
      BY <1>1, <1>16, BelowTables
    <2>4. \A q \in split : \A j \in h[q].links : Table(j) \in Below("Port")
      BY <1>5, <1>9, NamesOf, BelowTables
    <2>5. \A k \in DOMAIN h : k # Root
      BY <1>1, <1>3, <1>5, <1>8, <1>11 DEF Root, Table
    <2> QED  BY <1>1, <1>3, <1>5, <1>11, <1>15, <2>2, <2>3, <2>4, <2>5
  <1>18. ASSUME NEW k \in DOMAIN h, k # b PROVE Held(h, k)
    <2>1. CASE k = p
      BY <1>4, <1>5, <1>7, <1>16, <2>1 DEF Held
    <2>2. CASE k \in r.set
      BY <1>5, <1>16, <2>2 DEF Held
    <2>3. CASE k \in R
      <3>1. k \in h[PortOf(k)].links /\ PortOf(k) \in DOMAIN h
        BY <1>5, <1>9, <1>12, <2>3
      <3> QED  BY <3>1 DEF Held
    <2>4. CASE k \in split
      BY <1>5, <1>16, <2>4 DEF Held
    <2> QED  BY <1>5, <1>18, <2>1, <2>2, <2>3, <2>4
  <1>19. \A k \in DOMAIN h : Proportioned(h, k)
    BY <1>3, <1>9, <1>17, <1>18 DEF Proportioned
  <1>20. Woven(a, h)
    <2>1. \A k \in DOMAIN h \ DOMAIN a : h[k].links \subseteq DOMAIN h
      BY <1>5, <1>9, <1>11
    <2>2. \A k \in DOMAIN a \cap DOMAIN h : h[k].links \ a[k].links \subseteq DOMAIN h
      <3>1. \A k \in DOMAIN a \cap DOMAIN h : k \in {p, b} \cup r.set \cup R
        BY <1>5, <1>7, <1>10 DEF Part
      <3>2. h[b].links \ a[b].links \subseteq DOMAIN h
        BY <1>5, <1>6, <1>16
      <3> QED  BY <1>5, <1>15, <1>16, <3>1, <3>2
    <2> QED  BY <1>19, <2>1, <2>2 DEF Woven
  <1>21. Woven(h, a)
    <2>1. \A k \in DOMAIN a \ DOMAIN h : a[k].links \subseteq DOMAIN a
      BY <1>5, <1>6
    <2>2. \A k \in DOMAIN h \cap DOMAIN a : a[k].links \ h[k].links \subseteq DOMAIN a
      <3>1. \A k \in DOMAIN a \cap DOMAIN h : k \in {p, b} \cup r.set \cup R
        BY <1>5, <1>7, <1>10 DEF Part
      <3>2. a[b].links \ h[b].links \subseteq DOMAIN a
        BY <1>5, <1>6, <1>16
      <3>3. a[p].links \subseteq DOMAIN a
        BY <1>5, <1>6
      <3> QED  BY <1>5, <1>6, <1>15, <3>1, <3>2, <3>3
    <2> QED  BY <1>14, <2>1, <2>2 DEF Woven
  <1>22. Interwoven(a, h)
    BY <1>20, <1>21 DEF Interwoven
  <1> QED  BY <1>22 DEF a, h

MirrorOf(r) == IF r.op = "mirror.create" THEN r.on ELSE r.key

\* What a change of a mirror is about: bridges, ports they hold, and members.
LEMMA MirrorFacts ==
    ASSUME NEW g, Schema(g), NEW r, Asked(r), r.op \in MirrorOps, r.key \in DOMAIN g, Can(g, r)
    PROVE  /\ IsKey(MirrorOf(r)) /\ Table(MirrorOf(r)) = "Mirror"
           /\ \A p \in r.set : Table(p) = "Port"
           /\ r.op = "mirror.create" => MirrorOf(r) \notin DOMAIN g
           /\ r.op # "mirror.create" => /\ MirrorOf(r) \in DOMAIN g /\ g[MirrorOf(r)].refs \subseteq Selected(g, r)
                                        /\ \A b \in MirrorBridge(g, r) : MirrorOf(r) \in g[b].links
           /\ MirrorBridge(g, r) # {}
           /\ \A b \in MirrorBridge(g, r) : b \in DOMAIN g /\ Table(b) = "Bridge"
           /\ \A p \in Selected(g, r) : /\ p \in DOMAIN g /\ Table(p) = "Port"
                                        /\ \A b \in MirrorBridge(g, r) : p \in g[b].links
           /\ \A j \in Members(g, Selected(g, r)) : j \in DOMAIN g /\ Table(j) = "Interface"
           /\ r.set \subseteq Selected(g, r)
           /\ Before(g, r) = MirrorBridge(g, r) \cup Selected(g, r) \cup Members(g, Selected(g, r))
                             \cup (IF r.op = "mirror.create" THEN {} ELSE {MirrorOf(r)})
           /\ After(g, r) = Mirrored(g, r)
  <1> DEFINE m == MirrorOf(r)
             B == MirrorBridge(g, r)
             P == Selected(g, r)
  <1>1. CanMirror(g, r) /\ Typed(g)
    BY DEF Can, MirrorOps, TunnelOps, Schema
  <1>2. \A p \in r.set : Table(p) = "Port"
    BY DEF Asked
  <1>3. r.op = "mirror.create" => /\ IsKey(r.on) /\ Table(r.on) = "Mirror"
                                  /\ IsKey(r.key) /\ Table(r.key) = "Bridge"
    BY DEF Asked, Request, Subject, PortOps, InterfaceOps, BridgeOps, SecondOps, Second
  <1>4. r.op # "mirror.create" => IsKey(r.key) /\ Table(r.key) = "Mirror"
    BY DEF Asked, Request, Subject, PortOps, InterfaceOps, BridgeOps, MirrorOps, TreeOps
  <1>5. IsKey(m) /\ Table(m) = "Mirror"
    BY <1>3, <1>4 DEF MirrorOf
  <1>6. B # {} /\ \A b \in B : b \in DOMAIN g /\ Table(b) = "Bridge"
    <2>1. CASE r.op = "mirror.create"
      BY <1>3, <2>1 DEF MirrorBridge
    <2>2. CASE r.op # "mirror.create"
      <3>1. r.key # Root
        BY <1>4, <2>2 DEF Root, Table
      <3> QED  BY <1>1, <1>4, <2>2, <3>1, HolderTables DEF MirrorBridge, Schema
    <2> QED  BY <2>1, <2>2
  <1>7. r.op = "mirror.create" => m \notin DOMAIN g
    BY <1>1 DEF CanMirror, MirrorOf
  <1>8. r.op # "mirror.create" => /\ m \in DOMAIN g /\ g[m].refs \subseteq P
                                  /\ \A b \in B : m \in g[b].links
    BY DEF MirrorOf, Selected, MirrorBridge, Holders
  <1>9. \A p \in P : \A b \in B : p \in g[b].links
    BY <1>1 DEF CanMirror
  <1>10. \A p \in P : p \in DOMAIN g /\ Table(p) = "Port"
    <2>1. \A p \in r.set : p \in DOMAIN g
      BY <1>1 DEF CanMirror
    <2>2. r.op # "mirror.create" => \A p \in g[r.key].refs : p \in DOMAIN g /\ Table(p) = "Port"
      BY <1>1, TypedRow
    <2> QED  BY <1>2, <2>1, <2>2 DEF Selected
  <1>11. \A j \in Members(g, P) : j \in DOMAIN g /\ Table(j) = "Interface"
    BY <1>1, <1>10, LinkTables DEF Members
  <1>12. r.set \subseteq P
    BY DEF Selected
  <1>13. Before(g, r) = MirrorBefore(g, r)
    BY DEF Before, MirrorOps
  <1>14. {r.key} \ B = IF r.op = "mirror.create" THEN {} ELSE {m}
    <2>1. CASE r.op = "mirror.create"
      BY <2>1 DEF MirrorBridge
    <2>2. CASE r.op # "mirror.create"
      BY <1>4, <1>6, <2>2 DEF MirrorOf
    <2> QED  BY <2>1, <2>2
  <1>15. Before(g, r) = B \cup P \cup Members(g, P) \cup (IF r.op = "mirror.create" THEN {} ELSE {m})
    BY <1>13, <1>14 DEF MirrorBefore
  <1>16. After(g, r) = Mirrored(g, r)
    BY DEF After, MirrorOps
  <1> QED  BY <1>2, <1>5, <1>6, <1>7, <1>8, <1>9, <1>10, <1>11, <1>12, <1>15, <1>16

LEMMA MirrorPart ==
    ASSUME NEW g, Schema(g), NEW r, Asked(r), r.op \in MirrorOps, r.key \in DOMAIN g, Can(g, r)
    PROVE  Part(g, Before(g, r))
  <1> DEFINE m == MirrorOf(r)
             B == MirrorBridge(g, r)
             P == Selected(g, r)
             ks == Before(g, r)
  <1>1. /\ Table(m) = "Mirror" /\ B # {} /\ Typed(g)
        /\ r.op # "mirror.create" => m \in DOMAIN g /\ g[m].refs \subseteq P /\ \A b \in B : m \in g[b].links
        /\ \A b \in B : b \in DOMAIN g /\ Table(b) = "Bridge"
        /\ \A p \in P : p \in DOMAIN g /\ Table(p) = "Port" /\ \A b \in B : p \in g[b].links
        /\ \A j \in Members(g, P) : j \in DOMAIN g /\ Table(j) = "Interface"
        /\ ks = B \cup P \cup Members(g, P) \cup (IF r.op = "mirror.create" THEN {} ELSE {m})
    BY MirrorFacts DEF Schema
  <1>2. \A j \in Members(g, P) : \E p \in P : j \in g[p].links
    BY DEF Members
  <1> HIDE DEF m, B, P, ks
  <1>3. ks \subseteq DOMAIN g \ {Root}
    BY <1>1 DEF Root, Table
  <1>4. \A k \in ks : Table(k) # "Bridge" => \E h \in ks : k \in g[h].links
    <2>1. PICK b : b \in B
      BY <1>1
    <2>2. \A k \in P : k \in g[b].links
      BY <1>1, <2>1
    <2>3. m \in ks => m \in g[b].links
      BY <1>1, <2>1
    <2> QED  BY <1>1, <1>2, <2>1, <2>2, <2>3
  <1>5. \A k \in ks : g[k].refs \subseteq ks
    <2>1. \A k \in B \cup P \cup Members(g, P) : g[k].refs = {}
      BY <1>1, NoRefs
    <2> QED  BY <1>1, <2>1
  <1>6. Part(g, ks)
    BY <1>3, <1>4, <1>5 DEF Part
  <1> QED  BY <1>6 DEF ks

\* The rows of such a change afterwards.
Remirrored(g, r, h) ==
    LET m == MirrorOf(r)
        B == MirrorBridge(g, r)
    IN /\ DOMAIN h = IF r.op = "mirror.delete" THEN Before(g, r) \ {m} ELSE Before(g, r) \cup {m}
       /\ \A k \in DOMAIN h : IsRow(k, h[k]) /\ (k # m => h[k].refs = {})
       /\ r.op # "mirror.delete" => h[m].links = {} /\ h[m].refs = r.set
       /\ \A k \in B : h[k].links = IF r.op = "mirror.delete" THEN g[k].links \ {m} ELSE g[k].links \cup {m}
       /\ \A k \in DOMAIN h \ (B \cup {m}) : h[k].links = g[k].links

LEMMA MirrorRows ==
    ASSUME NEW g, Schema(g), NEW r, Asked(r), r.op \in MirrorOps, r.key \in DOMAIN g, Can(g, r)
    PROVE  Remirrored(g, r, After(g, r))
  <1> DEFINE m == MirrorOf(r)
             B == MirrorBridge(g, r)
             P == Selected(g, r)
             ks == Before(g, r)
             h == After(g, r)
             row == IF m \in DOMAIN g THEN [g[m] EXCEPT !.refs = r.set, !.cfg.out = r.out]
                    ELSE [Row(0, {}, [out |-> r.out]) EXCEPT !.refs = r.set]
  <1>1. /\ Table(m) = "Mirror" /\ B # {} /\ Typed(g)
        /\ \A b \in B : b \in DOMAIN g /\ Table(b) = "Bridge"
        /\ \A p \in P : p \in DOMAIN g /\ Table(p) = "Port"
        /\ \A j \in Members(g, P) : j \in DOMAIN g /\ Table(j) = "Interface"
        /\ ks = B \cup P \cup Members(g, P) \cup (IF r.op = "mirror.create" THEN {} ELSE {m})
        /\ h = Mirrored(g, r)
    BY MirrorFacts DEF Schema
  <1>2. ks = MirrorBefore(g, r)
    BY DEF Before, MirrorOps
  <1>3. r.op = "mirror.delete" => h = [k \in ks \ {m} |-> [g[k] EXCEPT !.links = @ \ {m}]]
    BY <1>1, <1>2 DEF Mirrored, MirrorOf
  <1>4. r.op # "mirror.delete" =>
          h = [k \in ks \cup {m} |-> IF k = m THEN row
                                    ELSE IF k \in B THEN [g[k] EXCEPT !.links = @ \cup {m}] ELSE g[k]]
    BY <1>1, <1>2 DEF Mirrored, MirrorOf
  <1>5. \A k \in ks \ {m} : k \in DOMAIN g /\ g[k].refs = {} /\ IsRow(k, g[k])
    BY <1>1, NoRefs, TypedRow
  <1>6. r.op # "mirror.delete" => IsRow(m, row) /\ row.links = {} /\ row.refs = r.set
    <2>1. CASE m \in DOMAIN g
      <3> DEFINE x == Referring(g[m], r.set)
      <3>1. row = [g[m] EXCEPT !.refs = r.set, !.cfg.out = r.out]
        BY <2>1
      <3>2. [g[m] EXCEPT !.refs = r.set, !.cfg.out = r.out] = Setting(x, "out", r.out)
        BY DEF Setting, Referring
      <3>3. IsRow(m, g[m]) /\ g[m].links = {}
        BY <1>1, <2>1, TypedRow, LinkTables
      <3>4. IsRow(m, x) /\ x.links = {} /\ x.refs = r.set
        BY <3>3, IsRowEdit
      <3> HIDE DEF x, row
      <3>5. row = Setting(x, "out", r.out)
        BY <3>1, <3>2
      <3> QED  BY <3>4, <3>5, SettingRow
    <2>2. CASE m \notin DOMAIN g
      <3> DEFINE c == [out |-> r.out]
                 x == Row(0, {}, c)
      <3>1. row = Referring(x, r.set)
        BY <2>2 DEF Referring
      <3>2. c = [f \in Fields(Table(m)) |-> c[f]]
        BY <1>1, FieldsOfTables
      <3> HIDE DEF c
      <3>3. IsRow(m, x) /\ x.links = {}
        BY <3>2, NewRow
      <3> HIDE DEF x, row
      <3> QED  BY <3>1, <3>3, IsRowEdit
    <2> QED  BY <2>1, <2>2
  <1> HIDE DEF h, ks, B, P, m, row
  <1>7. CASE r.op = "mirror.delete"
    <2>1. DOMAIN h = ks \ {m} /\ \A k \in ks \ {m} : h[k] = Linking(g[k], g[k].links \ {m})
      BY <1>3, <1>7 DEF Linking
    <2>2. ASSUME NEW k \in ks \ {m}
          PROVE  IsRow(k, h[k]) /\ h[k].refs = {} /\ h[k].links = g[k].links \ {m}
      <3>1. h[k] = Linking(g[k], g[k].links \ {m})
        BY <2>1
      <3> QED  BY <1>5, <3>1, IsRowEdit
    <2>3. \A k \in DOMAIN h \ (B \cup {m}) : h[k].links = g[k].links
      <3>1. \A k \in DOMAIN h \ (B \cup {m}) : Table(k) \in {"Port", "Interface"} /\ k \in DOMAIN g
        BY <1>1, <2>1
      <3>2. \A k \in DOMAIN h \ (B \cup {m}) : m \notin g[k].links
        BY <1>1, <3>1, LinkTables
      <3> QED  BY <2>1, <2>2, <3>2
    <2>4. \A k \in B : k \in ks \ {m}
      BY <1>1
    <2> QED  BY <1>7, <2>1, <2>2, <2>3, <2>4 DEF Remirrored, m, B, ks, h
  <1>8. CASE r.op # "mirror.delete"
    <2>1. /\ DOMAIN h = ks \cup {m} /\ h[m] = row
          /\ \A k \in ks \ (B \cup {m}) : h[k] = g[k]
      BY <1>4, <1>8
    <2>2. ASSUME NEW k \in B PROVE IsRow(k, h[k]) /\ h[k].refs = {} /\ h[k].links = g[k].links \cup {m}
      <3>1. k \in ks \ {m}
        BY <1>1
      <3>2. h[k] = Linking(g[k], g[k].links \cup {m})
        BY <1>4, <1>8, <3>1 DEF Linking
      <3> QED  BY <1>5, <3>1, <3>2, IsRowEdit
    <2>3. \A k \in DOMAIN h : IsRow(k, h[k]) /\ (k # m => h[k].refs = {})
      BY <1>5, <1>6, <1>8, <2>1, <2>2
    <2> QED  BY <1>6, <1>8, <2>1, <2>2, <2>3 DEF Remirrored, m, B, ks, h
  <1> QED  BY <1>7, <1>8

LEMMA MirrorWoven ==
    ASSUME NEW g, Schema(g), NEW r, Asked(r), r.op \in MirrorOps, r.key \in DOMAIN g, Can(g, r)
    PROVE  /\ Interwoven(Stored(g, r), After(g, r))
           /\ \A k \in DOMAIN Stored(g, r) \ DOMAIN After(g, r) : Table(k) = "Mirror"
           /\ \A k \in DOMAIN After(g, r) \ DOMAIN Stored(g, r) : Table(k) = "Mirror"
  <1> DEFINE m == MirrorOf(r)
             B == MirrorBridge(g, r)
             P == Selected(g, r)
             ks == Before(g, r)
             a == Stored(g, r)
             h == After(g, r)
  <1>1. /\ IsKey(m) /\ Table(m) = "Mirror" /\ B # {} /\ Typed(g)
        /\ r.op # "mirror.create" => m \in DOMAIN g /\ g[m].refs \subseteq P /\ \A b \in B : m \in g[b].links
        /\ r.op = "mirror.create" => m \notin DOMAIN g
        /\ \A b \in B : b \in DOMAIN g /\ Table(b) = "Bridge"
        /\ \A p \in P : p \in DOMAIN g /\ Table(p) = "Port" /\ \A b \in B : p \in g[b].links
        /\ \A j \in Members(g, P) : j \in DOMAIN g /\ Table(j) = "Interface"
        /\ r.set \subseteq P
        /\ ks = B \cup P \cup Members(g, P) \cup (IF r.op = "mirror.create" THEN {} ELSE {m})
    BY MirrorFacts DEF Schema
  <1>2. Part(g, ks)
    BY MirrorPart
  <1>3. Remirrored(g, r, h)
    BY MirrorRows
  <1>4. DOMAIN a = ks /\ \A k \in ks : a[k] = g[k]
    BY StoredSame DEF MirrorOps, DeletionOps
  <1>5. \A j \in Members(g, P) : \E p \in P : j \in g[p].links
    BY DEF Members
  <1> HIDE DEF h
  <1>6. /\ DOMAIN h = IF r.op = "mirror.delete" THEN ks \ {m} ELSE ks \cup {m}
        /\ \A k \in DOMAIN h : IsRow(k, h[k]) /\ (k # m => h[k].refs = {})
        /\ r.op # "mirror.delete" => h[m].links = {} /\ h[m].refs = r.set
        /\ \A k \in B : h[k].links = IF r.op = "mirror.delete" THEN g[k].links \ {m} ELSE g[k].links \cup {m}
        /\ \A k \in DOMAIN h \ (B \cup {m}) : h[k].links = g[k].links
    BY <1>3 DEF Remirrored
  <1> HIDE DEF a, ks, B, P, m
  <1>60. ASSUME NEW k \in B
         PROVE  /\ g[k].links \ {m} \subseteq h[k].links /\ h[k].links \subseteq g[k].links \cup {m}
                /\ r.op # "mirror.delete" => m \in h[k].links
    <2>1. CASE r.op = "mirror.delete"
      <3>1. h[k].links = g[k].links \ {m}
        BY <1>6, <2>1
      <3> QED  BY <2>1, <3>1
    <2>2. CASE r.op # "mirror.delete"
      <3>1. h[k].links = g[k].links \cup {m}
        BY <1>6, <2>2
      <3> QED  BY <2>2, <3>1
    <2> QED  BY <2>1, <2>2
  <1>7. \A k \in DOMAIN a : IsRow(k, a[k]) /\ a[k].links = g[k].links /\ a[k].refs = g[k].refs
    BY <1>1, <1>2, <1>4, TypedRow DEF Part
  <1>8. \A k \in DOMAIN a : Proportioned(a, k)
    BY <1>1, <1>2, <1>4, <1>7, PartProportioned
  <1>9. B \subseteq DOMAIN h /\ P \subseteq DOMAIN h /\ Members(g, P) \subseteq DOMAIN h
    BY <1>1, <1>6
  <1>10. ASSUME NEW k \in DOMAIN h PROVE Proportioned(h, k)
    <2>1. CASE k = m
      <3>1. r.op # "mirror.delete"
        BY <1>6, <2>1
      <3>2. PICK b : b \in B
        BY <1>1
      <3>3. Held(h, m)
        BY <1>6, <1>9, <3>1, <3>2 DEF Held
      <3>4. m # Root
        BY <1>1 DEF Root, Table
      <3>5. r.set \subseteq DOMAIN h /\ \A p \in r.set : Table(p) = "Port"
        BY <1>1, <1>9
      <3> QED  BY <1>1, <1>6, <2>1, <3>1, <3>3, <3>4, <3>5 DEF Proportioned
    <2>2. CASE k # m
      <3>1. k \in ks /\ k # Root /\ k \in DOMAIN g
        BY <1>2, <1>6, <2>2 DEF Part
      <3>2. IsKey(k) /\ \A j \in g[k].links : Table(j) \in Below(Table(k))
        BY <1>1, <3>1, TypedRow
      <3>3. \A j \in h[k].links : Table(j) \in Below(Table(k))
        <4>1. CASE k \in B
          BY <1>1, <1>60, <3>2, <4>1, BelowTables
        <4>2. CASE k \notin B
          BY <1>6, <2>2, <3>2, <4>2
        <4> QED  BY <4>1, <4>2
      <3>4. Table(k) # "Bridge" => Held(h, k)
        <4>1. CASE k \in P
          <5>1. PICK b : b \in B
            BY <1>1
          <5>2. k \in h[b].links
            BY <1>1, <1>60, <2>2, <4>1, <5>1
          <5> QED  BY <1>9, <5>1, <5>2 DEF Held
        <4>2. CASE k \in Members(g, P)
          <5>1. PICK p \in P : k \in g[p].links
            BY <1>5, <4>2
          <5>2. k \in h[p].links
            BY <1>1, <1>6, <1>9, <5>1
          <5> QED  BY <1>9, <5>1, <5>2 DEF Held
        <4>3. CASE k \in B
          BY <1>1, <4>3
        <4> QED  BY <1>1, <2>2, <3>1, <4>1, <4>2, <4>3
      <3> QED  BY <1>6, <2>2, <3>1, <3>2, <3>3, <3>4 DEF Proportioned
    <2> QED  BY <2>1, <2>2
  <1>11. Woven(a, h)
    <2>1. \A k \in DOMAIN h \ DOMAIN a : k = m /\ r.op # "mirror.delete"
      BY <1>4, <1>6
    <2>2. \A k \in DOMAIN a \cap DOMAIN h : h[k].links \ a[k].links \subseteq DOMAIN h
      <3>1. \A k \in B : h[k].links \ g[k].links \subseteq DOMAIN h
        BY <1>6
      <3>2. m \in DOMAIN h => h[m].links = {}
        BY <1>6
      <3> QED  BY <1>4, <1>6, <3>1, <3>2
    <2> QED  BY <1>6, <1>10, <2>1, <2>2 DEF Woven
  <1>12. Woven(h, a)
    <2>1. m \in DOMAIN g => g[m].links = {}
      BY <1>1, LinkTables
    <2>2. \A k \in DOMAIN a \ DOMAIN h : k = m /\ m \in DOMAIN g
      BY <1>1, <1>4, <1>6
    <2>3. \A k \in DOMAIN a \cap DOMAIN h : a[k].links \ h[k].links \subseteq DOMAIN a
      <3>1. ASSUME NEW k \in B PROVE g[k].links \ h[k].links \subseteq ks
        <4>1. CASE r.op = "mirror.create"
          <5>1. h[k].links = g[k].links \cup {m}
            BY <1>6, <4>1
          <5> QED  BY <5>1
        <4>2. CASE r.op # "mirror.create"
          <5>1. m \in ks
            BY <1>1, <4>2
          <5> QED  BY <1>60, <5>1
        <4> QED  BY <4>1, <4>2
      <3> QED  BY <1>1, <1>4, <1>6, <2>1, <3>1
    <2> QED  BY <1>4, <1>8, <2>1, <2>2, <2>3 DEF Woven
  <1>13. \A k \in (DOMAIN a \ DOMAIN h) \cup (DOMAIN h \ DOMAIN a) : Table(k) = "Mirror"
    BY <1>1, <1>4, <1>6
  <1> QED  BY <1>11, <1>12, <1>13 DEF Interwoven, a, h

\* Every request for a change of rows.
LEMMA GraphWoven ==
    ASSUME NEW g, Schema(g), IsFiniteSet(DOMAIN g), NEW r, Asked(r), r.op \notin FieldOps, Can(g, r),
           r.op # "bridge.create" => r.key \in DOMAIN g,
           r.op = "bridge.delete-tree" => Mirrors(g, r.key) = {}
    PROVE  Interwoven(Stored(g, r), After(g, r))
  <1>0. Typed(g)
    BY DEF Schema
  <1>1. CASE r.op = "bridge.create"
    BY <1>1, BridgeCreationWoven
  <1>2. CASE r.op = "bridge.delete"
    BY <1>2, BridgeDeletionWoven
  <1>3. CASE r.op = "bridge.delete-tree"
    BY <1>3, TreeDeletionWoven
  <1>4. CASE r.op \in CreationOps
    BY <1>0, <1>4, CreationWoven DEF CreationOps
  <1>5. CASE r.op \in RemovalOps
    BY <1>5, RemovalWoven DEF RemovalOps
  <1>6. CASE r.op \in ValueOps
    BY <1>6, ValueWoven DEF ValueOps
  <1>7. CASE r.op = "port.move"
    BY <1>7, MoveWoven
  <1>8. CASE r.op = "bond.members"
    BY <1>8, MembersWoven
  <1>9. CASE r.op \in MirrorOps
    BY <1>9, MirrorWoven DEF MirrorOps
  <1> QED  BY <1>1, <1>2, <1>3, <1>4, <1>5, <1>6, <1>7, <1>8, <1>9
           DEF Asked, Request, PortOps, InterfaceOps, BridgeOps, FieldOps, ListOps, TreeOps,
               CreationOps, RemovalOps, ValueOps, MirrorOps

\* A parent of an internal port hands over nothing else.
Parental(op, a, b) ==
    op \in LifecycleOps =>
        \A k \in DOMAIN a \cap DOMAIN b :
            /\ op \in {"internal.create", "internal.delete"} /\ Table(k) = "Bridge"
            /\ a[k].links \cap DOMAIN b = {} /\ b[k].links \cap DOMAIN a = {}

LEMMA GraphParental ==
    ASSUME NEW g, Schema(g), NEW r, Asked(r), Can(g, r), r.op # "bridge.create" => r.key \in DOMAIN g
    PROVE  Parental(r.op, Stored(g, r), After(g, r))
  <1> DEFINE a == Stored(g, r)
             b == After(g, r)
  <1>1. CASE r.op = "bridge.create"
    <2>1. DOMAIN a = {}
      BY <1>1, BridgeCreationWoven
    <2> QED  BY <2>1 DEF Parental
  <1>2. CASE r.op = "bridge.delete"
    <2>1. DOMAIN b = {}
      BY <1>2, BridgeDeletionWoven
    <2> QED  BY <2>1 DEF Parental
  <1>3. CASE r.op = "internal.create"
    <2> DEFINE k == r.key
               p == r.on
    <2>0. Typed(g) /\ k \in DOMAIN g
      BY <1>3 DEF Schema
    <2>1. Table(k) = "Bridge" /\ Table(p) = "Port" /\ IsKey(p)
      BY <1>3 DEF Asked, Request, Subject, PortOps, InterfaceOps, BridgeOps, SecondOps, Second
    <2>2. DOMAIN a = {k} /\ a[k] = g[k]
      <3>1. Before(g, r) = {k}
        BY <1>3 DEF Before, MirrorOps
      <3> QED  BY <1>3, <3>1, StoredSame DEF DeletionOps
    <2>3. DOMAIN b = {k, p, InterfaceOf(p)} /\ b[k].links = g[k].links \cup {p}
      BY <1>3, <2>0, CreationWoven DEF CreationOps
    <2>4. p \notin DOMAIN g
      <3>1. CanCreateInternal(g, r)
        BY <1>3 DEF Can, MirrorOps, TunnelOps
      <3> QED  BY <2>1, <3>1 DEF CanCreateInternal, NameFree
    <2>5. \A j \in g[k].links : j \in DOMAIN g /\ Table(j) \in {"Port", "Mirror"}
      BY <2>0, <2>1, LinkTables
    <2>6. Table(InterfaceOf(p)) = "Interface"
      BY NamesOf
    <2> HIDE DEF a, b, k, p
    <2>7. a[k].links \cap DOMAIN b = {} /\ b[k].links \cap DOMAIN a = {}
      BY <2>1, <2>2, <2>3, <2>4, <2>5, <2>6
    <2>8. \A x \in DOMAIN a \cap DOMAIN b : x = k
      BY <2>2
    <2> QED  BY <1>3, <2>1, <2>7, <2>8 DEF Parental, a, b
  <1>4. CASE r.op = "internal.delete"
    <2> DEFINE p == r.key
    <2>0. Typed(g) /\ p \in DOMAIN g
      BY <1>4 DEF Schema
    <2>1. PICK k \in DOMAIN g : /\ Table(k) = "Bridge" /\ DOMAIN b = {k} /\ a[k] = g[k]
                                /\ b[k].links = g[k].links \ {p}
      BY <1>4, <2>0, RemovalWoven DEF RemovalOps
    <2>2. DOMAIN a = Loaded(g, p)
      BY <1>4, <2>0, RemovalWoven DEF RemovalOps
    <2>3. Table(p) = "Port"
      BY <1>4 DEF Asked, Request, Subject, PortOps
    <2>4. \A j \in g[k].links : Table(j) \in {"Port", "Mirror"}
      BY <2>0, <2>1, LinkTables
    <2>5. \A j \in DOMAIN a : j = p \/ Table(j) \in {"Bridge", "Interface"}
      BY <2>0, <2>2, <2>3, LinkTables, HolderTables DEF Loaded
    <2> HIDE DEF a, b, p
    <2>6. a[k].links \cap DOMAIN b = {} /\ b[k].links \cap DOMAIN a = {}
      BY <2>1, <2>4, <2>5
    <2>7. \A x \in DOMAIN a \cap DOMAIN b : x = k
      BY <2>1
    <2> QED  BY <1>4, <2>1, <2>6, <2>7 DEF Parental, a, b
  <1> QED  BY <1>1, <1>2, <1>3, <1>4 DEF Parental, LifecycleOps

LEMMA GraftedSame ==
    ASSUME NEW g, NEW i, NEW j, i.from = j.from, i.to = j.to, NEW m
    PROVE  Grafted(g, i, m) = Grafted(g, j, m)
  BY DEF Grafted, Doomed, Fresh

LEMMA GraphIntentRows ==
    ASSUME NEW g, NEW r, NEW ids
    PROVE  LET i == GraphIntent(g, r, ids)
               fresh == Picks(g, r).fresh
           IN /\ i.to = Marked(Renewed(After(g, r), Sub(ids, fresh)), fresh, "go")
              /\ i.will = Image(Grafted(g, i, "go"), Compared(r.op, DOMAIN i.to, FALSE))
  <1> DEFINE fresh == Picks(g, r).fresh
             doomed == Picks(g, r).doomed
             from == Stored(g, r)
             to == Marked(Renewed(After(g, r), Sub(ids, fresh)), fresh, "go")
             spare == Sub(ids, doomed)
             old == {g[k].id : k \in doomed}
             dep == Image(g, GraphScope(g, r.op, Before(g, r)))
             j == [Blank EXCEPT !.op = r.op, !.key = r.key, !.gen = view.gen,
                     !.from = from, !.to = to, !.spare = spare, !.old = old, !.dep = dep]
             ahead == Grafted(g, j, "go")
             back == Restoration(j)
             i == GraphIntent(g, r, ids)
             was == Image(g, Compared(j.op, DOMAIN j.from, j.old # {}))
             will == Image(ahead, Compared(j.op, DOMAIN j.to, FALSE))
             again == Image(Grafted(ahead, back, "back"), Compared(j.op, DOMAIN j.from, FALSE))
             rest == IF j.op \in TunnelOps \cup MirrorOps THEN Rest(g, Owns(j)) ELSE <<>>
  <1>1. i = [j EXCEPT !.was = was, !.will = will, !.again = again, !.rest = rest]
    BY DEF GraphIntent
  <1> HIDE DEF i, from, to, spare, old, dep, doomed
  <1>2. DOMAIN j = DOMAIN Blank /\ j.op = r.op /\ j.from = from /\ j.to = to
    BY BlankFields
  <1> HIDE DEF j, was, again, rest
  <1>3. will = Image(Grafted(g, j, "go"), Compared(r.op, DOMAIN to, FALSE))
    BY <1>2
  <1> HIDE DEF will
  <1>4. i.from = from /\ i.to = to /\ i.will = will
    BY <1>1, <1>2, BlankFields
  <1>5. Grafted(g, j, "go") = Grafted(g, i, "go")
    BY <1>2, <1>4, GraftedSame
  <1>6. i.will = Image(Grafted(g, i, "go"), Compared(r.op, DOMAIN i.to, FALSE))
    BY <1>3, <1>4, <1>5
  <1>7. i.to = to
    BY <1>4
  <1> QED  BY <1>6, <1>7 DEF i, to

\* What is true of the rows of an intent since it was staged, for the change
\* and for its compensation.
Tailored(i) ==
    /\ Interwoven(i.from, i.to)
    /\ Parental(i.op, i.from, i.to)
    /\ i.op \in MirrorOps => \A k \in Doomed(i) \cup Fresh(i) : Table(k) = "Mirror"
    /\ i.op \notin LifecycleOps =>
          \A g : /\ Image(g, DOMAIN i.was) = i.was =>
                       \A k \in DOMAIN i.from : k \in DOMAIN g /\ g[k].links = i.from[k].links
                 /\ Image(g, DOMAIN i.will) = i.will =>
                       \A k \in DOMAIN i.to : k \in DOMAIN g /\ g[k].links = i.to[k].links

LEMMA TailoredForth ==
    ASSUME NEW i, Tailored(i)
    PROVE  Graftable(i)
  BY DEF Tailored, Graftable, Interwoven, Parental

LEMMA ReverseRows ==
    ASSUME NEW i, DOMAIN i = DOMAIN Blank
    PROVE  /\ Reverse(i).op = i.op /\ Reverse(i).key = i.key /\ Reverse(i).from = i.to
           /\ Reverse(i).to = Marked(Renewed(i.from, i.spare), Doomed(i), "back")
           /\ Reverse(i).was = i.will
  BY BlankFields DEF Reverse, Restoration

LEMMA ReverseTailored ==
    ASSUME NEW i, Tailored(i), DOMAIN i = DOMAIN Blank
    PROVE  /\ Graftable(Reverse(i)) /\ Owns(Reverse(i)) = Owns(i)
           /\ Doomed(Reverse(i)) = Fresh(i)
  <1> DEFINE j == Reverse(i)
             d == Marked(Renewed(i.from, i.spare), Doomed(i), "back")
  <1>1. j.op = i.op /\ j.from = i.to /\ j.to = d /\ j.was = i.will
    BY ReverseRows
  <1>2. \A k \in DOMAIN i.from : IsRow(k, i.from[k])
    BY DEF Tailored, Interwoven, Woven, Proportioned
  <1>3. Akin(i.from, d)
    BY <1>2, MarkedAkin
  <1>4. \A k \in DOMAIN i.to : IsRow(k, i.to[k])
    BY DEF Tailored, Interwoven, Woven, Proportioned
  <1>5. Akin(i.to, i.to)
    BY <1>4 DEF Akin
  <1> HIDE DEF j, d
  <1>6. Woven(i.to, d) /\ Woven(d, i.to)
    BY <1>3, <1>5, AkinWoven DEF Tailored, Interwoven
  <1>7. DOMAIN d = DOMAIN i.from
    BY <1>3 DEF Akin
  <1>8. j.op \in LifecycleOps =>
          \A k \in DOMAIN j.from \cap DOMAIN j.to :
             /\ j.op \in {"internal.create", "internal.delete"} /\ Table(k) = "Bridge"
             /\ j.from[k].links \cap DOMAIN j.to = {}
    BY <1>1, <1>7 DEF Tailored, Parental
  <1>9. Doomed(j) = Fresh(i) /\ Owns(j) = Owns(i)
    BY <1>1, <1>7 DEF Doomed, Fresh, Owns
  <1>10. j.op \in MirrorOps => \A k \in Doomed(j) : Table(k) = "Mirror"
    BY <1>1, <1>9 DEF Tailored
  <1>11. j.op \notin LifecycleOps =>
          \A g : Image(g, DOMAIN j.was) = j.was =>
             \A k \in DOMAIN j.from : k \in DOMAIN g /\ g[k].links = j.from[k].links
    BY <1>1 DEF Tailored
  <1>12. Graftable(j)
    BY <1>1, <1>6, <1>8, <1>10, <1>11 DEF Graftable
  <1> QED  BY <1>9, <1>12 DEF j

\* Captured cells of rows tell what the rows hold.
LEMMA ConfigCells ==
    ASSUME NEW g, NEW ks, ks \subseteq DOMAIN g, NEW img, img = Image(g, UNION {Config(k) : k \in ks}),
           NEW h, Image(h, DOMAIN img) = img, NEW k \in ks
    PROVE  k \in DOMAIN h /\ h[k].links = g[k].links
  <1>1. <<k, "links">> \in Config(k)
    BY WholeCells, CellsOf DEF Config
  <1>2. <<k, "links">> \in DOMAIN img /\ DOMAIN img = UNION {Config(x) : x \in ks}
    BY <1>1 DEF Image
  <1>3. img[<<k, "links">>] = Col(g, <<k, "links">>)
    BY <1>2 DEF Image
  <1>4. img[<<k, "links">>] = Col(h, <<k, "links">>)
    BY <1>2 DEF Image
  <1> QED  BY <1>3, <1>4, LinksCell

LEMMA IntentTailored ==
    ASSUME NEW g, Schema(g), IsFiniteSet(DOMAIN g), NEW r, Asked(r), r.op \notin FieldOps, Can(g, r),
           r.op # "bridge.create" => r.key \in DOMAIN g,
           r.op = "bridge.delete-tree" => Mirrors(g, r.key) = {}, NEW ids,
           r.op \notin LifecycleOps => Fresh(GraphIntent(g, r, ids)) \cap DOMAIN g = {}
    PROVE  Tailored(GraphIntent(g, r, ids))
  <1> DEFINE i == GraphIntent(g, r, ids)
             a == Stored(g, r)
             b == After(g, r)
             fresh == Picks(g, r).fresh
             s == Grafted(g, i, "go")
             both == DOMAIN i.from \cap DOMAIN i.to
  <1>1. /\ i.op = r.op /\ i.from = a /\ DOMAIN i.from = Before(g, r) /\ DOMAIN i.to = DOMAIN b
        /\ i.was = Image(g, Compared(r.op, Before(g, r), Doomed(i) # {}))
    BY GraphIntentFields
  <1>2. /\ i.to = Marked(Renewed(b, Sub(ids, fresh)), fresh, "go")
        /\ i.will = Image(s, Compared(r.op, DOMAIN i.to, FALSE))
    BY GraphIntentRows
  <1>3. Interwoven(a, b)
    BY GraphWoven
  <1>4. Parental(r.op, a, b)
    BY GraphParental
  <1> HIDE DEF i, a, b, fresh
  <1>5. /\ \A k \in DOMAIN b : IsRow(k, b[k])
        /\ \A k \in DOMAIN a : IsRow(k, a[k])
    BY <1>3 DEF Interwoven, Woven, Proportioned
  <1>6. Akin(b, i.to) /\ Akin(a, a)
    BY <1>2, <1>5, MarkedAkin DEF Akin
  <1>7. Interwoven(i.from, i.to)
    BY <1>1, <1>3, <1>6, AkinWoven DEF Interwoven
  <1>8. Parental(i.op, i.from, i.to)
    BY <1>1, <1>4, <1>6 DEF Parental, Akin
  <1>9. i.op \in MirrorOps => \A k \in Doomed(i) \cup Fresh(i) : Table(k) = "Mirror"
    <2>1. r.op \in MirrorOps => \A k \in (DOMAIN a \ DOMAIN b) \cup (DOMAIN b \ DOMAIN a) : Table(k) = "Mirror"
      BY MirrorWoven DEF MirrorOps, a, b
    <2> QED  BY <1>1, <2>1 DEF Doomed, Fresh
  <1>10. ASSUME i.op \notin LifecycleOps
         PROVE  /\ DOMAIN i.from \subseteq DOMAIN g /\ Fits(i, g)
                /\ i.was = Image(g, UNION {Config(k) : k \in DOMAIN i.from})
                /\ i.will = Image(s, UNION {Config(k) : k \in DOMAIN i.to})
                /\ \A k \in DOMAIN i.from : i.from[k] = g[k]
    <2>1. r.op \in RowOps /\ r.op # "bridge.create" /\ r.op \notin DeletionOps
      BY <1>1, <1>10 DEF RowOps, Asked, Request, LifecycleOps, DeletionOps
    <2>2. DOMAIN i.from \subseteq DOMAIN g
      BY <1>1, <2>1, BeforePresent
    <2>3. \A k \in DOMAIN i.from : i.from[k] = g[k]
      BY <1>1, <2>1, StoredSame DEF a
    <2>4. \A k \in Doomed(i) : g[k].links \subseteq DOMAIN i.from
      BY <1>7, <2>3 DEF Interwoven, Woven, Doomed
    <2>5. Fresh(i) \cap DOMAIN g = {}
      BY <1>1, <1>10 DEF i
    <2>6. Fits(i, g)
      BY <2>2, <2>3, <2>4, <2>5 DEF Fits
    <2>7. \A ks, x : Compared(r.op, ks, x) = UNION {Config(k) : k \in ks}
      BY <1>1, <1>10 DEF Compared, LifecycleOps
    <2> QED  BY <1>1, <1>2, <2>2, <2>3, <2>6, <2>7
  <1>11. ASSUME i.op \notin LifecycleOps
         PROVE  DOMAIN i.to \subseteq DOMAIN s /\ \A k \in DOMAIN i.to : s[k].links = i.to[k].links
    <2>1. /\ (DOMAIN g \ Doomed(i)) \cup Fresh(i) \subseteq DOMAIN s
          /\ \A k \in Fresh(i) : s[k].links = i.to[k].links
          /\ \A k \in both : s[k].links = Delta(g[k].links, i.from[k].links, i.to[k].links)
      BY <1>7, <1>10, <1>11, GraftKeeps DEF Interwoven
    <2> HIDE DEF s
    <2>2. \A k \in both : s[k].links = i.to[k].links
      BY <1>10, <1>11, <2>1, DeltaIs
    <2>3. both \subseteq DOMAIN g /\ DOMAIN i.to = both \cup Fresh(i) /\ both \cap Doomed(i) = {}
      BY <1>10, <1>11 DEF Fresh, Doomed
    <2> QED  BY <2>1, <2>2, <2>3
  <1> HIDE DEF s
  <1>12. ASSUME i.op \notin LifecycleOps, NEW h
         PROVE  /\ Image(h, DOMAIN i.was) = i.was =>
                       \A k \in DOMAIN i.from : k \in DOMAIN h /\ h[k].links = i.from[k].links
                /\ Image(h, DOMAIN i.will) = i.will =>
                       \A k \in DOMAIN i.to : k \in DOMAIN h /\ h[k].links = i.to[k].links
    <2>1. ASSUME Image(h, DOMAIN i.was) = i.was, NEW k \in DOMAIN i.from
          PROVE  k \in DOMAIN h /\ h[k].links = g[k].links
      BY <1>10, <1>12, <2>1, ConfigCells
    <2>2. ASSUME Image(h, DOMAIN i.will) = i.will, NEW k \in DOMAIN i.to
          PROVE  k \in DOMAIN h /\ h[k].links = s[k].links
      BY <1>10, <1>11, <1>12, <2>2, ConfigCells
    <2> QED  BY <1>10, <1>11, <1>12, <2>1, <2>2
  <1>13. Tailored(i)
    BY <1>7, <1>8, <1>9, <1>12 DEF Tailored
  <1> QED  BY <1>13 DEF i

-----------------------------------------------------------------------------
(* Staging.                                                                *)

LEMMA IdentifiedFinite ==
    ASSUME NEW g, NEW n \in Nat, Identified(g, n)
    PROVE  IsFiniteSet(DOMAIN g)
  <1> DEFINE f == [k \in DOMAIN g |-> g[k].id]
  <1>1. f \in Injection(DOMAIN g, 1..n)
    BY DEF Identified, Injection, IsInjective
  <1>2. IsFiniteSet(1..n)
    BY FS_Interval
  <1> QED  BY <1>1, <1>2, FS_Injection

LEMMA TopologyChecked ==
    ASSUME NEW i, NEW g, Checks(i, g), i.op \notin FieldOps \cup LifecycleOps, i.dir = "go"
    PROVE  /\ Fresh(i) \cap DOMAIN g = {}
           /\ i.op \notin TunnelOps \cup MirrorOps => \A k \in DOMAIN i.from : TopologyNode(g, k)
  <1>1. /\ NoProblem(i, g)
        /\ i.op \notin TunnelOps \cup MirrorOps => \A k \in DOMAIN i.from : TopologyNode(g, k)
    <2>1. CASE i.op \in TunnelOps \cup MirrorOps
      BY <2>1 DEF Checks, PathChecks, FieldOps, ListOps, TreeOps, LifecycleOps, TunnelOps, MirrorOps
    <2>2. CASE i.op \notin TunnelOps \cup MirrorOps
      <3>1. Checks(i, g) = TopologyChecks(i, g)
        BY <2>2 DEF Checks, FieldOps, ListOps, TreeOps, LifecycleOps, TunnelOps, MirrorOps
      <3> QED  BY <2>2, <3>1 DEF TopologyChecks
    <2> QED  BY <2>1, <2>2
  <1> QED  BY <1>1 DEF NoProblem, Creatable

LEMMA StageGraphTailored ==
    ASSUME Schema(view.rows), IsFiniteSet(DOMAIN view.rows), DOMAIN draft = DraftFields,
           NEW r, Asked(r), r.op \notin FieldOps, StageGraph(r)
    PROVE  \A i \in draft'.intents : Tailored(i)
  <1> DEFINE g == view.rows
             rows == Picks(g, r).fresh \cup Picks(g, r).doomed
             count == Cardinality(rows)
             i(ids) == GraphIntent(g, r, ids)
  <1>1. \E ids \in Assigned(rows, issued + 1) :
           /\ r.op \notin LifecycleOps => Checks(i(ids), g)
           /\ draft' = [draft EXCEPT !.intents = {i(ids)}, !.picked = @ + count]
    BY DEF StageGraph
  <1>2. PICK ids : /\ r.op \notin LifecycleOps => Checks(i(ids), g)
                   /\ draft' = [draft EXCEPT !.intents = {i(ids)}, !.picked = @ + count]
    BY <1>1
  <1>3. Can(g, r) /\ (r.op # "bridge.create" => r.key \in DOMAIN g)
    BY DEF StageGraph
  <1>4. i(ids).op = r.op /\ i(ids).dir = "go" /\ DOMAIN i(ids).from = Before(g, r)
    BY GraphIntentFields
  <1> DEFINE x == i(ids)
  <1> HIDE DEF g, x, count
  <1>5. r.op \notin LifecycleOps => Fresh(x) \cap DOMAIN g = {}
    BY <1>2, <1>4, TopologyChecked DEF x
  <1>6. ASSUME r.op = "bridge.delete-tree" PROVE Mirrors(g, r.key) = {}
    <2>1. r.op \notin FieldOps \cup LifecycleOps \cup TunnelOps \cup MirrorOps
      BY <1>6 DEF FieldOps, ListOps, TreeOps, LifecycleOps, TunnelOps, MirrorOps
    <2>2. Before(g, r) = Region(g, r.key)
      BY <1>6 DEF Before, MirrorOps
    <2>3. r.key \in DOMAIN x.from
      BY <1>4, <2>2 DEF Region, x
    <2>4. TopologyNode(g, r.key)
      BY <1>2, <1>4, <2>1, <2>3, TopologyChecked DEF x
    <2>5. Table(r.key) = "Bridge"
      BY <1>6 DEF Asked, Request, Subject, PortOps, InterfaceOps, BridgeOps
    <2> QED  BY <2>4, <2>5 DEF TopologyNode
  <1>7. Schema(g) /\ IsFiniteSet(DOMAIN g)
    BY DEF g
  <1>8. Tailored(x)
    BY <1>3, <1>5, <1>6, <1>7, IntentTailored DEF x
  <1>9. draft'.intents = {x}
    BY <1>2 DEF DraftFields, x
  <1> QED  BY <1>8, <1>9

\* Staging a creation again.
LEMMA RestageInternalTailored ==
    ASSUME \A i \in draft.intents : Staged(i) /\ (i.op \notin FieldOps => Tailored(i)),
           DOMAIN draft = DraftFields, NEW r, RestageInternal(r)
    PROVE  \A i \in draft'.intents : i.op \notin FieldOps => Tailored(i)
  <1>1. PICK i \in Prior(r) : /\ r.on \in Fresh(i)
                              /\ Replaced({i}, {[i EXCEPT !.to[r.on].cfg.vlan = r.v]})
    BY DEF RestageInternal
  <1> DEFINE j == [i EXCEPT !.to[r.on].cfg.vlan = r.v]
             row == i.to[r.on]
             new == Setting(row, "vlan", r.v)
  <1>2. i \in draft.intents /\ i.op = "internal.create" /\ Staged(i)
    BY DEF Prior, RestageInternal
  <1>3. i.op \in LifecycleOps /\ i.op \notin MirrorOps /\ i.op \notin FieldOps
    BY <1>2 DEF LifecycleOps, MirrorOps, FieldOps, ListOps, TreeOps
  <1>4. DOMAIN i = DOMAIN Blank /\ Tailored(i)
    BY <1>2, <1>3 DEF Staged
  <1>5. j.op = i.op /\ j.from = i.from /\ j.to = [i.to EXCEPT ![r.on] = new]
    BY <1>4, BlankFields DEF Setting
  <1>6. Replaced({i}, {j})
    BY <1>1
  <1>7. /\ \A k \in DOMAIN i.to : IsRow(k, i.to[k])
        /\ \A k \in DOMAIN i.from : IsRow(k, i.from[k])
    BY <1>4 DEF Tailored, Interwoven, Woven, Proportioned
  <1>8. r.on \in DOMAIN i.to
    BY <1>1 DEF Fresh
  <1>9. IsRow(r.on, new) /\ new.links = row.links /\ new.refs = row.refs
    BY <1>7, <1>8, SettingRow
  <1> HIDE DEF j, new
  <1>10. Akin(i.to, j.to) /\ Akin(i.from, j.from)
    BY <1>5, <1>7, <1>8, <1>9 DEF Akin
  <1>11. Interwoven(j.from, j.to)
    BY <1>4, <1>10, AkinWoven DEF Tailored, Interwoven
  <1>12. Parental(j.op, j.from, j.to)
    BY <1>4, <1>5, <1>10 DEF Tailored, Parental, Akin
  <1>13. Tailored(j)
    BY <1>3, <1>5, <1>11, <1>12 DEF Tailored
  <1>14. draft'.intents = (draft.intents \ {i}) \cup {j}
    BY <1>6, ReplacedDraft
  <1> QED  BY <1>13, <1>14

LEMMA StageFieldTailored ==
    ASSUME \A i \in draft.intents : Staged(i) /\ (i.op \notin FieldOps => Tailored(i)),
           DOMAIN draft = DraftFields, NEW r, r.op \in FieldOps, StageField(r)
    PROVE  \A i \in draft'.intents : i.op \notin FieldOps => Tailored(i)
  <1>1. PICK out, j : Replaced(out, {j}) /\ j.op \in FieldOps
    <2>1. CASE Replaced({}, {FieldIntent(view.rows, r)})
      <3>1. FieldIntent(view.rows, r).op = r.op
        BY BlankFields DEF FieldIntent
      <3> QED  BY <2>1, <3>1
    <2>2. CASE \E i \in Prior(r) : Replaced({i}, {Amended(i, view.rows, r.v)})
      <3>1. PICK i \in Prior(r) : Replaced({i}, {Amended(i, view.rows, r.v)})
        BY <2>2
      <3>2. i.op \in FieldOps /\ DOMAIN i = DOMAIN Blank
        BY <3>1 DEF Prior, Staged
      <3>3. Amended(i, view.rows, r.v).op = i.op
        BY <3>2, BlankFields DEF Amended
      <3> QED  BY <3>1, <3>2, <3>3
    <2> QED  BY <2>1, <2>2 DEF StageField
  <1>2. draft'.intents = (draft.intents \ out) \cup {j}
    BY <1>1, ReplacedDraft
  <1> QED  BY <1>1, <1>2

-----------------------------------------------------------------------------
(* What a transaction leaves.                                              *)

LEMMA FieldWrittenRow ==
    ASSUME NEW k, NEW row, IsRow(k, row), NEW i, NEW m
    PROVE  /\ IsRow(k, FieldWritten(row, i, m)) /\ FieldWritten(row, i, m).links = row.links
           /\ FieldWritten(row, i, m).refs = row.refs
  <1> DEFINE x == Setting(row, i.f, i.after)
             y == FieldWritten(row, i, m)
  <1>1. IsRow(k, x) /\ x.links = row.links /\ x.refs = row.refs
    BY SettingRow
  <1>2. y = [x EXCEPT !.mark = m]
    BY DEF FieldWritten, Setting
  <1>3. DOMAIN x = Columns /\ x.ctl \in BOOLEAN
    BY <1>1 DEF IsRow
  <1> HIDE DEF x, y
  <1>4. /\ IsFunction(y) /\ DOMAIN y = Columns /\ y.ctl = x.ctl /\ y.cfg = x.cfg
        /\ y.links = x.links /\ y.refs = x.refs
    BY <1>2, <1>3 DEF Columns, IsFunction
  <1>5. IsRow(k, y)
    BY <1>1, <1>3, <1>4, RowLike
  <1> QED  BY <1>1, <1>4, <1>5 DEF y

LEMMA FieldsKeep ==
    ASSUME NEW g, Schema(g), NEW s, NEW m
    PROVE  /\ Schema(FieldsWritten(g, s, m)) /\ DOMAIN FieldsWritten(g, s, m) = DOMAIN g
           /\ \A k \in DOMAIN g : (\A i \in s : i.key # k) => FieldsWritten(g, s, m)[k] = g[k]
  <1> DEFINE h == FieldsWritten(g, s, m)
  <1>1. IsFunction(h) /\ DOMAIN h = DOMAIN g
    BY DEF FieldsWritten, IsFunction
  <1>2. ASSUME NEW k \in DOMAIN g
        PROVE  /\ IsRow(k, h[k]) /\ h[k].links = g[k].links /\ h[k].refs = g[k].refs
               /\ (\A i \in s : i.key # k) => h[k] = g[k]
    <2>1. IsRow(k, g[k])
      BY TypedRow DEF Schema
    <2>2. CASE \E i \in s : i.key = k
      <3> DEFINE i == CHOOSE j \in s : j.key = k
      <3>1. h[k] = FieldWritten(g[k], i, m)
        BY <2>2 DEF FieldsWritten
      <3> HIDE DEF h, i
      <3> QED  BY <2>1, <2>2, <3>1, FieldWrittenRow
    <2>3. CASE ~ \E i \in s : i.key = k
      <3>1. h[k] = g[k]
        BY <2>3 DEF FieldsWritten
      <3> QED  BY <2>1, <3>1
    <2> QED  BY <2>2, <2>3
  <1> HIDE DEF h
  <1>3. \A k \in DOMAIN h :
           /\ IsKey(k) /\ IsRow(k, h[k])
           /\ \A j \in h[k].links : j \in DOMAIN h /\ Table(j) \in Below(Table(k))
           /\ \A j \in h[k].refs : j \in DOMAIN h /\ Table(j) = "Port" /\ Table(k) = "Mirror"
    BY <1>1, <1>2, TypedRow DEF Schema
  <1>4. Schema(h)
    BY <1>1, <1>2, <1>3, GrownSchema
  <1> QED  BY <1>1, <1>2, <1>4 DEF h

\* The rows that the intents s are about.
Touched(s) == UNION {IF i.op \in FieldOps THEN {i.key} ELSE Owns(i) : i \in s}

\* The server keeps the schema and every row that is not touched.
Spared(g, h, ks) ==
    Schema(h) /\ \A k \in DOMAIN g \ (ks \cup {Root}) : k \in DOMAIN h /\ h[k] = g[k]

LEMMA AppliedSpares ==
    ASSUME NEW s, Single(s), NEW g, Schema(g), Schema(db), NEW m,
           \A i \in s : /\ i.op \notin FieldOps => Graftable(i)
                        /\ Agreeing(i, g) /\ Gate(i, g) /\ Holds(Wait(i, g))
    PROVE  Spared(db, Applied(db, s, m), Touched(s))
  <1>1. CASE \A i \in s : i.op \in FieldOps
    <2>1. Applied(db, s, m) = FieldsWritten(db, s, m)
      BY <1>1 DEF Applied
    <2>2. \A i \in s : i.key \in Touched(s)
      BY <1>1 DEF Touched
    <2> QED  BY <2>1, <2>2, FieldsKeep DEF Spared
  <1>2. CASE ~ \A i \in s : i.op \in FieldOps
    <2>1. PICK i \in s : i.op \notin FieldOps
      BY <1>2
    <2>2. s = {i}
      BY <2>1 DEF Single
    <2>3. (CHOOSE j \in s : TRUE) = i
      BY <2>2
    <2>4. Applied(db, s, m) = Grafted(db, i, m)
      BY <1>2, <2>3 DEF Applied
    <2>5. Touched(s) = Owns(i)
      BY <2>1, <2>2 DEF Touched
    <2>6. Graftable(i)
      BY <2>1
    <2>7. Fits(i, db) /\ Untied(i, db)
      BY <2>1, <2>6, TransactionFits
    <2> DEFINE h == Grafted(db, i, m)
    <2>8. /\ Schema(h) /\ DOMAIN db \ Doomed(i) \subseteq DOMAIN h
          /\ \A k \in DOMAIN db \ (Owns(i) \cup {Root}) : db[k].refs \cap Doomed(i) = {} => h[k] = db[k]
      BY <2>6, <2>7, GraftKeeps DEF Graftable
    <2> HIDE DEF h
    <2>9. Doomed(i) \subseteq Owns(i)
      BY DEF Doomed, Owns
    <2>10. Spared(db, h, Owns(i))
      BY <2>7, <2>8, <2>9 DEF Spared, Untied
    <2> QED  BY <2>4, <2>5, <2>10 DEF h
  <1> QED  BY <1>1, <1>2

\* A compensation is about the same rows.
LEMMA BackwardsTouched ==
    ASSUME NEW s, \A i \in s : DOMAIN i = DOMAIN Blank /\ (i.op \notin FieldOps => Tailored(i))
    PROVE  /\ Touched(Backwards(s)) = Touched(s)
           /\ \A j \in Backwards(s) : j.op \notin FieldOps => Graftable(j)
  <1> DEFINE t(i) == IF i.op \in FieldOps THEN {i.key} ELSE Owns(i)
  <1>1. ASSUME NEW i \in s
        PROVE  /\ Reverse(i).op = i.op /\ t(Reverse(i)) = t(i)
               /\ i.op \notin FieldOps => Graftable(Reverse(i))
    <2>1. Reverse(i).op = i.op /\ Reverse(i).key = i.key
      BY ReverseRows
    <2>2. CASE i.op \in FieldOps
      BY <2>1, <2>2
    <2>3. CASE i.op \notin FieldOps
      BY <2>1, <2>3, ReverseTailored
    <2> QED  BY <2>1, <2>2, <2>3
  <1>2. Touched(Backwards(s)) = UNION {t(j) : j \in Backwards(s)} /\ Touched(s) = UNION {t(i) : i \in s}
    BY DEF Touched
  <1> HIDE DEF t
  <1>3. UNION {t(j) : j \in Backwards(s)} = UNION {t(i) : i \in s}
    BY <1>1 DEF Backwards
  <1> QED  BY <1>1, <1>2, <1>3 DEF Backwards

(***************************************************************************)
(* The invariant: until the change is taken back or settled, server and    *)
(* view keep to the schema, our own transactions included; the rows of an  *)
(* intent are woven; and a compensation is compiled from rows on which the *)
(* reversed intents were checked.                                          *)
(***************************************************************************)

Open0 == Before0 \cup Standing

Lasting == change.phase \in Open0 => Schema(db) /\ Schema(view.rows)
Fashioned ==
    /\ \A i \in draft.intents : i.op \notin FieldOps => Tailored(i)
    /\ \A i \in change.intents : i.op \notin FieldOps => Tailored(i)
Returning ==
    change.phase = "undoing" =>
        \E g : /\ Schema(g) /\ change.wait = Compiled(Backwards(change.intents), g)
               /\ \A j \in Backwards(change.intents) : Agreeing(j, g) /\ Gate(j, g)
Care == Lasting /\ Fashioned /\ Returning

LEMMA InitCare == Init => Care
  <1> SUFFICES ASSUME Init PROVE Care
    OBVIOUS
  <1>1. draft.intents = {} /\ change.intents = {} /\ change.phase = "none"
    BY DEF Init, DraftInit, NoChange
  <1>2. Schema(db) /\ Schema(view.rows)
    BY <1>1, InitReview DEF Review, Lawful, Before0
  <1> QED  BY <1>1, <1>2 DEF Care, Lasting, Fashioned, Returning

\* Nothing but the rows of the server and of the view changes.
LEMMA RowsCare ==
    ASSUME Care, UNCHANGED <<draft, change>>,
           Schema(db) /\ Schema(view.rows) => Schema(db') /\ Schema(view'.rows)
    PROVE  Care'
  <1>1. draft' = draft /\ change' = change
    OBVIOUS
  <1> QED  BY <1>1 DEF Care, Lasting, Fashioned, Returning

LEMMA ForeignEditCare ==
    ASSUME Inv, Care, ForeignEdit, UNCHANGED <<draft, change>>
    PROVE  Care'
  <1>1. net \in Networks
    BY DEF Inv, Fixed
  <1>2. PICK e \in net.edits : db' = Edited(db, e, issued + 1)
    BY DEF ForeignEdit
  <1>3. Obedient(e)
    BY <1>1, <1>2, NativeAssumption, SchemaAssumption DEF Obedient
  <1>4. view' = view
    BY DEF ForeignEdit
  <1>5. Schema(db) => Schema(db')
    BY <1>2, <1>3, EditedSchema
  <1> QED  BY <1>4, <1>5, RowsCare

LEMMA PublishCare ==
    ASSUME Inv, Care, Publish, UNCHANGED <<draft, change>>
    PROVE  Care'
  <1> DEFINE r == Reconciled(reg, db, Evidence, Classify(reg, Evidence))
  <1>1. db' = db /\ (view' = Installed(r, db) \/ view' = [view EXCEPT !.ok = FALSE])
    BY DEF Publish
  <1>2. "rows" \in DOMAIN view
    BY DEF Inv, Registered
  <1>3. view'.rows \in {db, view.rows}
    BY <1>1, <1>2, InstalledFields
  <1> QED  BY <1>1, <1>3, RowsCare

LEMMA AcceptCare ==
    ASSUME Inv, Care, Accept, UNCHANGED <<draft, change>>
    PROVE  Care'
  <1>1. db' = db /\ view' = Installed(Reconciled(reg, view.rows, view.evidence, "new"), view.rows)
    BY DEF Accept
  <1>2. view'.rows = view.rows
    BY <1>1, InstalledFields
  <1> QED  BY <1>1, <1>2, RowsCare

LEMMA BreakCare ==
    ASSUME Inv, Care, Break, UNCHANGED <<draft, change>>
    PROVE  Care'
  <1>1. Schema(net.rows) /\ "rows" \in DOMAIN view
    BY SchemaAssumption DEF Inv, Fixed, Registered
  <1>2. CASE Away
    <2>1. db' = db /\ view'.rows = view.rows
      BY <1>1, <1>2 DEF Away
    <2> QED  BY <2>1, RowsCare
  <1>3. CASE Reboot
    <2>1. db' = db /\ view' = view
      BY <1>3 DEF Reboot
    <2> QED  BY <2>1, RowsCare
  <1>4. CASE Rewind
    <2>1. db' = net.rows /\ view' = view
      BY <1>4 DEF Rewind
    <2> QED  BY <1>1, <2>1, RowsCare
  <1>5. CASE Reroot
    <2>1. PICK ids : db' = Renewed(db, ids)
      BY <1>5 DEF Reroot
    <2>2. view' = view
      BY <1>5 DEF Reroot
    <2> QED  BY <2>1, <2>2, RenewedSchema, RowsCare
  <1>6. CASE Replace
    <2>1. PICK ids : db' = Renewed(db, ids)
      BY <1>6 DEF Replace
    <2>2. view' = view
      BY <1>6 DEF Replace
    <2> QED  BY <2>1, <2>2, RenewedSchema, RowsCare
  <1> QED  BY <1>2, <1>3, <1>4, <1>5, <1>6 DEF Break

LEMMA EditDraftCare ==
    ASSUME Inv, Review, Care, EditDraft, UNCHANGED change
    PROVE  Care'
  <1>1. /\ DOMAIN draft = DraftFields /\ ~draft.consumed /\ net \in Networks
        /\ db' = db /\ view' = view /\ change' = change
    BY DEF Inv, Waiting, Fixed, DraftFields, EditDraft, Open
  <1>2. change.phase = "none"
    BY <1>1 DEF Inv, TypeOK
  <1>3. /\ Schema(view.rows)
        /\ \A i \in draft.intents : Staged(i) /\ (i.op \notin FieldOps => Tailored(i))
    BY <1>2 DEF Review, Lawful, Drafted, Before0, Care, Fashioned
  <1>4. \A r \in net.requests : Asked(r)
    BY <1>1, RequestAssumption DEF Asked, Request
  <1>5. IsFiniteSet(DOMAIN view.rows)
    <2>1. issued \in Nat /\ Identified(view.rows, issued)
      BY NativeAssumption DEF Inv, TypeOK, Ids
    <2> QED  BY <2>1, IdentifiedFinite
  <1>6. \A i \in draft'.intents : i.op \notin FieldOps => Tailored(i)
    <2>1. CASE \E r \in net.requests : r.op \in FieldOps /\ StageField(r)
      BY <1>1, <1>3, <2>1, StageFieldTailored
    <2>2. CASE \E r \in net.requests : r.op \notin FieldOps /\ StageGraph(r)
      BY <1>1, <1>3, <1>4, <1>5, <2>2, StageGraphTailored
    <2>3. CASE \E r \in net.requests : RestageInternal(r)
      BY <1>1, <1>3, <2>3, RestageInternalTailored
    <2>4. CASE \E i \in draft.intents : Remove(i)
      <3>1. PICK i \in draft.intents : Replaced({i}, {})
        BY <2>4 DEF Remove
      <3> QED  BY <1>1, <1>3, <3>1, ReplacedDraft
    <2>5. CASE Discard
      <3>1. Replaced(draft.intents, {})
        BY <2>5 DEF Discard
      <3> QED  BY <1>1, <1>3, <3>1, ReplacedDraft
    <2>6. CASE \E keep \in SUBSET draft.intents : Rebase(keep)
      <3>1. PICK keep \in SUBSET draft.intents : Rebase(keep)
        BY <2>6
      <3> DEFINE q(i) == [op |-> i.op, key |-> i.key, v |-> i.after]
                 again(i) == FieldIntent(view.rows, q(i))
                 s == {again(i) : i \in keep}
      <3>2. Replaced(draft.intents, s)
        BY <3>1 DEF Rebase
      <3>3. ASSUME NEW i \in keep PROVE again(i).op \in FieldOps
        <4>1. i \in draft.intents /\ i.op \in FieldOps
          BY <3>1 DEF Rebase, Rebasable, FieldOps
        <4>2. again(i).op = q(i).op /\ q(i).op = i.op
          BY BlankFields DEF FieldIntent
        <4> QED  BY <4>1, <4>2
      <3> HIDE DEF again
      <3>4. \A j \in s : j.op \in FieldOps
        BY <3>3
      <3> HIDE DEF s
      <3>5. draft'.intents = (draft.intents \ draft.intents) \cup s
        BY <1>1, <3>2, ReplacedDraft
      <3> QED  BY <3>4, <3>5
    <2> QED  BY <2>1, <2>2, <2>3, <2>4, <2>5, <2>6 DEF EditDraft
  <1> QED  BY <1>1, <1>6 DEF Care, Lasting, Fashioned, Returning

LEMMA AdmitCare ==
    ASSUME Inv, Care, Admit
    PROVE  Care'
  <1>1. /\ DOMAIN draft = DraftFields /\ change.phase = "none" /\ db' = db /\ view' = view
        /\ draft' = Consumed(draft) /\ change'.phase = "ready" /\ change'.intents = draft.intents
    BY DEF Inv, Waiting, DraftFields, Admit
  <1>2. draft'.intents = draft.intents
    BY <1>1 DEF Consumed, DraftFields
  <1>3. Schema(db) /\ Schema(view.rows)
    BY <1>1 DEF Care, Lasting, Open0, Before0
  <1> QED  BY <1>1, <1>2, <1>3 DEF Care, Lasting, Fashioned, Returning

\* The intents stay, and so does the schema if it still matters.
LEMMA LaterCare ==
    ASSUME Care, draft' = draft, change'.intents = change.intents, change'.phase # "undoing",
           change'.phase \in Open0 => Schema(db') /\ Schema(view'.rows)
    PROVE  Care'
  BY DEF Care, Lasting, Fashioned, Returning

\* The transaction that commits.
LEMMA CommitSpares ==
    ASSUME Inv, Review, Care, Commit, change'.phase = "committed"
    PROVE  Spared(db, db', Touched(change.intents))
  <1>0. DOMAIN change = ChangeFields
    BY DEF Inv, Fixed, ChangeFields
  <1>1. change.phase = "ready"
    BY DEF Commit
  <1>2. /\ \A w \in change.wait : Holds(w)
        /\ db' = Applied(db, change.intents, "go")
    <2>1. change' # [change EXCEPT !.phase = "refused", !.wait = {}]
      BY <1>0 DEF ChangeFields
    <2> QED  BY <2>1 DEF Commit
  <1>3. PICK g : /\ Schema(g) /\ change.wait = Compiled(change.intents, g)
                 /\ \A i \in change.intents : Agreeing(i, g) /\ Gate(i, g)
    BY <1>1 DEF Review, Reviewed
  <1>4. Schema(db) /\ Single(change.intents)
    BY <1>1 DEF Care, Lasting, Open0, Before0, Inv, Waiting, Bundle
  <1>5. ASSUME NEW i \in change.intents
        PROVE  /\ i.op \notin FieldOps => Graftable(i)
               /\ Agreeing(i, g) /\ Gate(i, g) /\ Holds(Wait(i, g))
    <2>1. i.op \notin FieldOps => Graftable(i)
      BY TailoredForth DEF Care, Fashioned
    <2> QED  BY <1>2, <1>3, <2>1 DEF Compiled
  <1> QED  BY <1>2, <1>3, <1>4, <1>5, AppliedSpares

\* The compensation.
LEMMA UndoSpares ==
    ASSUME Inv, Review, Care, Undo, change'.phase = "rolled"
    PROVE  Spared(db, db', Touched(change.intents))
  <1> DEFINE s == Backwards(change.intents)
  <1>0. DOMAIN change = ChangeFields
    BY DEF Inv, Fixed, ChangeFields
  <1>1. change.phase = "undoing"
    BY DEF Undo
  <1>2. (\A w \in change.wait : Holds(w)) /\ db' = Applied(db, s, "back")
    <2>1. change' # [change EXCEPT !.phase = "committed", !.wait = {}]
      BY <1>0 DEF ChangeFields
    <2> QED  BY <2>1 DEF Undo
  <1>3. PICK g : /\ Schema(g) /\ change.wait = Compiled(s, g)
                 /\ \A j \in s : Agreeing(j, g) /\ Gate(j, g)
    BY <1>1 DEF Care, Returning
  <1>4. Schema(db) /\ Bundle(change.intents, issued)
    BY <1>1 DEF Care, Lasting, Open0, Standing, Inv, Waiting
  <1>5. Single(s)
    BY <1>4, BackwardsBundle
  <1>6. \A i \in change.intents : DOMAIN i = DOMAIN Blank /\ (i.op \notin FieldOps => Tailored(i))
    BY DEF Review, Drafted, Staged, Care, Fashioned
  <1>7. Touched(s) = Touched(change.intents) /\ \A j \in s : j.op \notin FieldOps => Graftable(j)
    BY <1>6, BackwardsTouched
  <1> HIDE DEF s
  <1>8. \A j \in s : Holds(Wait(j, g))
    BY <1>2, <1>3 DEF Compiled
  <1>9. Spared(db, Applied(db, s, "back"), Touched(s))
    BY <1>3, <1>4, <1>5, <1>7, <1>8, AppliedSpares
  <1> QED  BY <1>2, <1>7, <1>9

LEMMA WithdrawCare ==
    ASSUME Inv, Care, Withdraw
    PROVE  Care'
  <1> DEFINE s == Backwards(change.intents)
  <1>0. DOMAIN change = ChangeFields
    BY DEF Inv, Fixed, ChangeFields
  <1>1. /\ change.phase = "committed" /\ db' = db /\ view' = view /\ draft' = draft
        /\ change' = [change EXCEPT !.phase = "undoing", !.wait = Compiled(s, view.rows)]
        /\ \A i \in change.intents : Checks(Reverse(i), view.rows)
    BY DEF Withdraw, Withdrawable, nativeVars
  <1>2. Schema(db) /\ Schema(view.rows)
    BY <1>1 DEF Care, Lasting, Open0, Standing
  <1>3. \A j \in s : Agreeing(j, view.rows) /\ Gate(j, view.rows)
    BY <1>1, ChecksGate DEF Backwards
  <1> HIDE DEF s
  <1>4. change'.intents = change.intents /\ change'.wait = Compiled(s, view.rows)
    BY <1>0, <1>1 DEF ChangeFields
  <1>5. Returning'
    BY <1>2, <1>3, <1>4 DEF Returning, s
  <1>6. Lasting' /\ Fashioned'
    BY <1>1, <1>2, <1>4 DEF Lasting, Fashioned, Care
  <1> QED  BY <1>5, <1>6 DEF Care

LEMMA NextCare == Inv /\ Review /\ Care /\ [Next]_changeVars => Care'
  <1> SUFFICES ASSUME Inv, Review, Care, [Next]_changeVars PROVE Care'
    OBVIOUS
  <1>0. DOMAIN change = ChangeFields
    BY DEF Inv, Fixed, ChangeFields
  <1>1. CASE ForeignEdit /\ UNCHANGED <<draft, change>>
    BY <1>1, ForeignEditCare
  <1>2. CASE Publish /\ UNCHANGED <<draft, change>>
    BY <1>2, PublishCare
  <1>3. CASE Accept /\ UNCHANGED <<draft, change>>
    BY <1>3, AcceptCare
  <1>4. CASE Break /\ UNCHANGED <<draft, change>>
    BY <1>4, BreakCare
  <1>5. CASE EditDraft /\ UNCHANGED change
    BY <1>5, EditDraftCare
  <1>6. CASE Admit
    BY <1>6, AdmitCare
  <1>7. CASE Commit
    <2>1. /\ draft' = draft /\ view' = view /\ change.phase = "ready"
          /\ \/ change' = [change EXCEPT !.phase = "committed", !.wait = {}, !.at = done]
             \/ change' = [change EXCEPT !.phase = "refused", !.wait = {}]
      BY <1>7 DEF Commit
    <2>2. change'.intents = change.intents /\ change'.phase \in {"committed", "refused"}
      BY <1>0, <2>1 DEF ChangeFields
    <2>3. Schema(view.rows)
      BY <2>1 DEF Care, Lasting, Open0, Before0
    <2>4. change'.phase \in Open0 => Schema(db')
      BY <1>7, <2>2, CommitSpares DEF Spared, Open0, Before0, Standing
    <2> QED  BY <2>1, <2>2, <2>3, <2>4, LaterCare
  <1>8. CASE Confirm
    <2>1. draft' = draft /\ change' = [change EXCEPT !.phase = "confirmed"]
      BY <1>8 DEF Confirm
    <2>2. change'.intents = change.intents /\ change'.phase = "confirmed"
      BY <1>0, <2>1 DEF ChangeFields
    <2> QED  BY <2>1, <2>2, LaterCare DEF Open0, Before0, Standing
  <1>9. CASE Withdraw
    BY <1>9, WithdrawCare
  <1>10. CASE Undo
    <2>1. /\ draft' = draft /\ view' = view /\ change.phase = "undoing"
          /\ \/ change' = [change EXCEPT !.phase = "rolled", !.wait = {}]
             \/ change' = [change EXCEPT !.phase = "committed", !.wait = {}] /\ db' = db
      BY <1>10 DEF Undo
    <2>2. change'.intents = change.intents /\ change'.phase \in {"rolled", "committed"}
      BY <1>0, <2>1 DEF ChangeFields
    <2>3. change'.phase = "committed" => db' = db
      BY <1>0, <2>1 DEF ChangeFields
    <2>4. Schema(db) /\ Schema(view.rows)
      BY <2>1 DEF Care, Lasting, Open0, Standing
    <2> QED  BY <2>1, <2>2, <2>3, <2>4, LaterCare DEF Open0, Before0, Standing
  <1>11. CASE Restored
    <2>1. draft' = draft /\ change' = [change EXCEPT !.phase = "undone"]
      BY <1>11 DEF Restored
    <2>2. change'.intents = change.intents /\ change'.phase = "undone"
      BY <1>0, <2>1 DEF ChangeFields
    <2> QED  BY <2>1, <2>2, LaterCare DEF Open0, Before0, Standing
  <1>12. CASE UNCHANGED changeVars
    <2>1. db' = db /\ view' = view /\ draft' = draft /\ change' = change
      BY <1>12 DEF changeVars, nativeVars
    <2> QED  BY <2>1, RowsCare
  <1> QED
    BY <1>1, <1>2, <1>3, <1>4, <1>5, <1>6, <1>7, <1>8, <1>9, <1>10, <1>11, <1>12 DEF Next

LEMMA CareInvariance == Spec => [](Inv /\ Review /\ Care)
  <1>1. Init => Inv /\ Review /\ Care
    BY InitInv, InitReview, InitCare
  <1>2. (Inv /\ Review /\ Care) /\ [Next]_changeVars => (Inv /\ Review /\ Care)'
    BY NextInv, NextReview, NextCare
  <1> QED  BY <1>1, <1>2, PTL DEF Spec

\* The two steps that write to the server.
LEMMA WriteSpares ==
    ASSUME Inv, Review, Care, [Next]_changeVars, change.phase \in {"ready", "undoing"},
           change'.phase \in {"committed", "rolled"}, NEW k \in DOMAIN db \ (Planned \cup {Root})
    PROVE  k \in DOMAIN db' /\ db'[k] = db[k]
  <1>0. DOMAIN change = ChangeFields
    BY DEF Inv, Fixed, ChangeFields
  <1>1. Planned = Touched(change.intents)
    BY DEF Planned, Touched
  <1>2. Commit \/ Undo
    <2>1. change' # change
      OBVIOUS
    <2>2. ~Admit /\ ~Confirm /\ ~Withdraw /\ ~Restored
      BY DEF Admit, Confirm, Withdraw, Restored
    <2> QED  BY <2>1, <2>2 DEF Next, changeVars
  <1>3. CASE Commit
    <2>1. \/ change' = [change EXCEPT !.phase = "committed", !.wait = {}, !.at = done]
          \/ change' = [change EXCEPT !.phase = "refused", !.wait = {}]
      BY <1>3 DEF Commit
    <2>2. change'.phase = "committed"
      BY <1>0, <2>1 DEF ChangeFields
    <2> QED  BY <1>1, <1>3, <2>2, CommitSpares DEF Spared
  <1>4. CASE Undo
    <2>1. CASE change'.phase = "rolled"
      BY <1>1, <1>4, <2>1, UndoSpares DEF Spared
    <2>2. CASE change'.phase = "committed"
      <3>1. change' # [change EXCEPT !.phase = "rolled", !.wait = {}]
        BY <1>0, <2>2 DEF ChangeFields
      <3>2. db' = db
        BY <1>4, <3>1 DEF Undo
      <3> QED  BY <3>2
    <2> QED  BY <2>1, <2>2
  <1> QED  BY <1>2, <1>3, <1>4

-----------------------------------------------------------------------------
(* Results.                                                                *)

\* A transaction of ours, and its compensation, leave every row outside the
\* change as it is: no such row is collected with the rows that go, none loses
\* a reference, none is written, whatever third parties did to the server since
\* the view was read. The wait operations see to it: the rows that go are held
\* by each other only, and what a kept row held is still under it.
THEOREM OthersUntouched == Spec => ForeignUntouched
  <1>1. Inv /\ Review /\ Care /\ [Next]_changeVars =>
          [\A k \in DOMAIN db \ (Planned \cup {Root}) :
             (change.phase \in {"ready", "undoing"} /\ change'.phase \in {"committed", "rolled"})
               => k \in DOMAIN db' /\ db'[k] = db[k]]_changeVars
    BY WriteSpares
  <1> QED  BY <1>1, CareInvariance, PTL DEF Spec, ForeignUntouched

\* As long as a change can still be committed or taken back, the rows of the
\* server keep to the schema of the database: everything but the root is held,
\* every reference leads to a row, our own transactions included.
THEOREM SchemaKept == Spec => []Lasting
  <1>1. Inv /\ Review /\ Care => Lasting
    BY DEF Care
  <1> QED  BY <1>1, CareInvariance, PTL
=============================================================================
