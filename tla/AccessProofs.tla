---------------------------- MODULE AccessProofs ----------------------------
(***************************************************************************)
(* Access, for every set of principals, credentials and certificates,      *)
(* every lifetime, window and budget: what the auth tables say of each     *)
(* other after every command, login, logout and restore, what password     *)
(* work in flight still finds when it comes back; then the certificate     *)
(* trial and the rotation of the sealing keys beside the accounts, and the *)
(* theorems about the whole.                                               *)
(***************************************************************************)
EXTENDS Access, TLAPS

-----------------------------------------------------------------------------
(* The accounts.                                                           *)


\* References inside the tables: roles that are carried exist, owners exist,
\* and credentials are among those ever issued.
Wired(d, issued) ==
    /\ \A u \in Users : d.users[u] # None =>
          \A r \in d.users[u].roles : d.roles[r] # None
    /\ \A c \in Creds : d.creds[c] # None =>
          /\ c \in issued
          /\ d.users[d.creds[c].owner] # None
          /\ d.creds[c].elevated <= d.creds[c].expiry

\* A credential that is not revoked is of this epoch, its owner is enabled, and
\* a grant was opened with the password its owner has.
Valid(d) ==
    \A c \in Creds : d.creds[c] # None /\ ~d.creds[c].revoked =>
        /\ d.creds[c].epoch = d.epoch
        /\ ~d.users[d.creds[c].owner].disabled
        /\ d.creds[c].kind = "grant" => d.creds[c].pw = d.users[d.creds[c].owner].pw

Good(d, issued) == d \in AuthTables /\ Wired(d, issued) /\ Valid(d)

\* The credentials of a set are gone or revoked.
Over(d, past) == \A c \in past : d.creds[c] = None \/ d.creds[c].revoked

\* What stands in flight refers to principals and credentials that exist.
Item(w) ==
    /\ w.op \in {"createUser", "changePassword", "login", "save", "reauth", "forget"}
    /\ w.op = "createUser" => /\ w.user \in Users /\ w.cred \in Creds
                              /\ w.roles \in SUBSET Roles /\ w.pw \in Nat
    /\ w.op = "changePassword" => /\ w.user \in Users /\ w.cred \in Creds
                                  /\ w.pw \in Nat /\ db.users[w.user] # None
    /\ w.op = "login" => /\ w.user \in Users /\ w.pw \in Nat
                         /\ db.users[w.user] # None
    /\ w.op = "save" => w.cred \in Creds /\ w.cred \in used
    /\ w.op \in {"reauth", "forget"} => w.cred \in Creds

\* The part of the inductive invariant that is about accounts.
TablesOK ==
    /\ Good(db, used) /\ LastAdministrator(db)
    /\ saved # None => Good(saved, used) /\ LastAdministrator(saved)
    /\ used \subseteq Creds /\ ended \subseteq used
    /\ Over(db, ended)

AccountsOK ==
    /\ now \in Nat /\ now <= MaxTime /\ left \in Budget
    /\ TablesOK
    /\ cookies \subseteq used
    /\ \A w \in flight : Item(w)

\* What NoEscalation says of one step.
Granted ==
    db'.epoch = db.epoch =>
        \A u \in Users : Gained(u) # {} =>
            \E c \in Issued : /\ CheckOperation(c, "access")
                              /\ Gained(u) \subseteq Effective(db, c)

-----------------------------------------------------------------------------
(* Changes of the tables.                                                  *)

\* The larger and the smaller of two numbers.
LEMMA MaxMin ==
    ASSUME NEW a \in Nat, NEW b \in Nat
    PROVE  /\ Max({a, b}) \in Nat
           /\ Min({a, b}) \in Nat /\ Min({a, b}) <= a /\ Min({a, b}) <= b
           /\ Min({a, b}) = a \/ Min({a, b}) = b
<1>1. \E x \in {a, b} : \A y \in {a, b} : x >= y
    <2>1. CASE a >= b
        BY <2>1
    <2>2. CASE b >= a
        BY <2>2
    <2> QED
        BY <2>1, <2>2
<1>2. \E x \in {a, b} : \A y \in {a, b} : x =< y
    <2>1. CASE a =< b
        BY <2>1
    <2>2. CASE b =< a
        BY <2>2
    <2> QED
        BY <2>1, <2>2
<1>3. Max({a, b}) \in {a, b}
    BY <1>1 DEF Max
<1>4. Min({a, b}) \in {a, b} /\ \A y \in {a, b} : Min({a, b}) =< y
    BY <1>2 DEF Min
<1> QED
    BY <1>3, <1>4

\* Two rows of one credential.
Alike(a, b) ==
    /\ b.owner = a.owner /\ b.kind = a.kind /\ b.pw = a.pw /\ b.epoch = a.epoch
    /\ b.ceiling = a.ceiling

\* Credentials stay what they are, and revoked when they are.
Follows(d, e) ==
    \A c \in Creds :
        /\ d.creds[c] = None => e.creds[c] = None
        /\ d.creds[c] # None => /\ e.creds[c] # None /\ Alike(d.creds[c], e.creds[c])
                                /\ d.creds[c].revoked => e.creds[c].revoked
                                /\ e.creds[c].elevated <= e.creds[c].expiry

\* The tables with another row for one credential, principal or role.
WithRow(d, c, row, high) == [d EXCEPT !.creds[c] = row, !.high = high]
WithUser(d, u, row) == [d EXCEPT !.users[u] = row]
WithRole(d, r, caps) == [d EXCEPT !.roles[r] = caps]

LEMMA RowFields ==
    ASSUME NEW d \in AuthTables, NEW c \in Creds, NEW row \in CredRow, NEW high \in Nat
    PROVE  LET e == WithRow(d, c, row, high) IN
           /\ e \in AuthTables
           /\ e.users = d.users /\ e.roles = d.roles /\ e.epoch = d.epoch /\ e.high = high
           /\ e.creds = [d.creds EXCEPT ![c] = row]
<1> DEFINE cs == [d.creds EXCEPT ![c] = row]
<1>1. cs \in [Creds -> CredRow \cup {None}]
    BY DEF AuthTables
<1> HIDE DEF cs
<1>2. LET e == [d EXCEPT !.creds = cs, !.high = high] IN
      /\ e \in AuthTables
      /\ e.users = d.users /\ e.roles = d.roles /\ e.epoch = d.epoch /\ e.high = high
      /\ e.creds = cs
    BY <1>1 DEF AuthTables
<1> QED
    BY <1>2 DEF cs, WithRow

LEMMA UserFields ==
    ASSUME NEW d \in AuthTables, NEW u \in Users, NEW row \in UserRow
    PROVE  LET e == WithUser(d, u, row) IN
           /\ e \in AuthTables
           /\ e.users = [d.users EXCEPT ![u] = row]
           /\ e.roles = d.roles /\ e.epoch = d.epoch /\ e.creds = d.creds
<1> DEFINE us == [d.users EXCEPT ![u] = row]
<1>1. us \in [Users -> UserRow \cup {None}]
    BY DEF AuthTables
<1> HIDE DEF us
<1>2. LET e == [d EXCEPT !.users = us] IN
      /\ e \in AuthTables
      /\ e.users = us /\ e.roles = d.roles /\ e.epoch = d.epoch /\ e.creds = d.creds
    BY <1>1 DEF AuthTables
<1> QED
    BY <1>2 DEF us, WithUser

LEMMA RoleFields ==
    ASSUME NEW d \in AuthTables, NEW r \in Roles, NEW caps \in SUBSET Capability
    PROVE  LET e == WithRole(d, r, caps) IN
           /\ e \in AuthTables
           /\ e.roles = [d.roles EXCEPT ![r] = caps]
           /\ e.users = d.users /\ e.epoch = d.epoch /\ e.high = d.high
           /\ e.creds = d.creds
<1> DEFINE rs == [d.roles EXCEPT ![r] = caps]
<1>1. rs \in [Roles -> (SUBSET Capability) \cup {None}]
    BY DEF AuthTables
<1> HIDE DEF rs
<1>2. LET e == [d EXCEPT !.roles = rs] IN
      /\ e \in AuthTables
      /\ e.roles = rs /\ e.users = d.users /\ e.epoch = d.epoch /\ e.high = d.high
      /\ e.creds = d.creds
    BY <1>1 DEF AuthTables
<1> QED
    BY <1>2 DEF rs, WithRole

\* Rows that follow keep the tables good, ended credentials ended, and the
\* administrators.
LEMMA FollowsGood ==
    ASSUME NEW d, NEW issued, Good(d, issued), NEW e \in AuthTables,
           e.users = d.users, e.roles = d.roles, e.epoch = d.epoch, Follows(d, e)
    PROVE  /\ Good(e, issued)
           /\ \A past \in SUBSET Creds : Over(d, past) => Over(e, past)
           /\ LastAdministrator(d) => LastAdministrator(e)
<1>1. d.creds \in [Creds -> CredRow \cup {None}]
    BY DEF Good, AuthTables
<1>2. Wired(e, issued)
    BY DEF Good, Wired, Follows, Alike
<1>3. Valid(e)
    BY DEF Good, Valid, Follows, Alike
<1>4. \A past \in SUBSET Creds : Over(d, past) => Over(e, past)
    BY DEF Over, Follows
<1>5. LastAdministrator(d) => LastAdministrator(e)
    BY DEF LastAdministrator, Administers, CapsOf
<1> QED
    BY <1>2, <1>3, <1>4, <1>5 DEF Good

\* One row is replaced by a row of the same credential.
LEMMA RowFollows ==
    ASSUME NEW d, NEW issued, Good(d, issued), NEW c \in Creds, d.creds[c] # None,
           NEW row \in CredRow, Alike(d.creds[c], row),
           d.creds[c].revoked => row.revoked, row.elevated <= row.expiry, NEW high \in Nat
    PROVE  LET e == WithRow(d, c, row, high) IN
           /\ e \in AuthTables /\ Follows(d, e)
           /\ e.users = d.users /\ e.roles = d.roles /\ e.epoch = d.epoch
<1> DEFINE e == WithRow(d, c, row, high)
<1>1. d \in AuthTables /\ d.creds \in [Creds -> CredRow \cup {None}]
    BY DEF Good, AuthTables
<1>2. /\ e \in AuthTables
      /\ e.users = d.users /\ e.roles = d.roles /\ e.epoch = d.epoch
      /\ e.creds = [d.creds EXCEPT ![c] = row]
    BY <1>1, RowFields
<1> HIDE DEF e
<1>3. \A x \in Creds : e.creds[x] = IF x = c THEN row ELSE d.creds[x]
    BY <1>1, <1>2
<1>4. row # None
    BY AccountsAssumption
<1>5. \A x \in Creds : d.creds[x] # None =>
        /\ d.creds[x].elevated <= d.creds[x].expiry
        /\ Alike(d.creds[x], d.creds[x])
    BY DEF Good, Wired, Alike
<1>6. Follows(d, e)
    BY <1>3, <1>4, <1>5 DEF Follows
<1> QED
    BY <1>2, <1>6 DEF e

\* touch: the idle time of one credential.
LEMMA TouchFields ==
    ASSUME NEW d, NEW issued, Good(d, issued), NEW c \in Creds, d.creds[c] # None, now \in Nat
    PROVE  /\ Touch(d, c) \in AuthTables /\ Follows(d, Touch(d, c))
           /\ Touch(d, c).users = d.users /\ Touch(d, c).roles = d.roles
           /\ Touch(d, c).epoch = d.epoch
<1> DEFINE row == [d.creds[c] EXCEPT !.last = now]
           high == Max({d.high, now})
<1>1. d \in AuthTables /\ d.creds[c] \in CredRow /\ d.high \in Nat
    BY DEF Good, AuthTables
<1>2. row \in CredRow /\ Alike(d.creds[c], row)
      /\ row.revoked = d.creds[c].revoked
      /\ row.elevated = d.creds[c].elevated /\ row.expiry = d.creds[c].expiry
    BY <1>1 DEF CredRow, Alike
<1>3. high \in Nat
    BY <1>1, MaxMin
<1>4. Touch(d, c) = WithRow(d, c, row, high)
    BY DEF Touch, WithRow
<1>5. row.elevated <= row.expiry
    BY <1>2 DEF Good, Wired
<1> HIDE DEF row, high
<1> QED
    BY <1>2, <1>3, <1>4, <1>5, RowFollows

\* The revocation of one credential, with or without the high watermark.
LEMMA RevokedFields ==
    ASSUME NEW d, NEW issued, Good(d, issued), NEW c \in Creds, d.creds[c] # None,
           NEW high \in Nat
    PROVE  LET row == [d.creds[c] EXCEPT !.revoked = TRUE]
               e == WithRow(d, c, row, high) IN
           /\ e \in AuthTables /\ Follows(d, e)
           /\ e.users = d.users /\ e.roles = d.roles /\ e.epoch = d.epoch
<1> DEFINE row == [d.creds[c] EXCEPT !.revoked = TRUE]
<1>1. d.creds[c] \in CredRow
    BY DEF Good, AuthTables
<1>2. row \in CredRow /\ Alike(d.creds[c], row) /\ row.revoked
      /\ row.elevated = d.creds[c].elevated /\ row.expiry = d.creds[c].expiry
    BY <1>1 DEF CredRow, Alike
<1>3. row.elevated <= row.expiry
    BY <1>2 DEF Good, Wired
<1> HIDE DEF row
<1>4. LET e == WithRow(d, c, row, high) IN
      /\ e \in AuthTables /\ Follows(d, e)
      /\ e.users = d.users /\ e.roles = d.roles /\ e.epoch = d.epoch
    BY <1>2, <1>3, RowFollows
<1> QED
    BY <1>4 DEF row

\* A credential that was never issued before is issued to an enabled owner.
Issuable(d, row) ==
    /\ row \in CredRow
    /\ d.users[row.owner] # None /\ ~d.users[row.owner].disabled
    /\ row.epoch = d.epoch
    /\ row.kind = "grant" => row.pw = d.users[row.owner].pw
    /\ row.elevated <= row.expiry

LEMMA InsertGood ==
    ASSUME NEW d, NEW issued, Good(d, issued), NEW t \in Creds, t \notin issued,
           NEW row, Issuable(d, row), NEW high \in Nat
    PROVE  LET e == WithRow(d, t, row, high) IN
           /\ Good(e, issued \cup {t})
           /\ \A past \in SUBSET issued : past \subseteq Creds /\ Over(d, past) => Over(e, past)
           /\ e.users = d.users /\ e.roles = d.roles /\ e.epoch = d.epoch
           /\ LastAdministrator(d) => LastAdministrator(e)
<1> DEFINE e == WithRow(d, t, row, high)
<1>1. d \in AuthTables /\ d.creds \in [Creds -> CredRow \cup {None}]
    BY DEF Good, AuthTables
<1>2. /\ e \in AuthTables
      /\ e.users = d.users /\ e.roles = d.roles /\ e.epoch = d.epoch
      /\ e.creds = [d.creds EXCEPT ![t] = row]
    BY <1>1, RowFields DEF Issuable
<1> HIDE DEF e
<1>3. \A x \in Creds : e.creds[x] = IF x = t THEN row ELSE d.creds[x]
    BY <1>1, <1>2
<1>4. Wired(e, issued \cup {t})
    BY <1>2, <1>3 DEF Good, Wired, Issuable
<1>5. Valid(e)
    BY <1>2, <1>3 DEF Good, Valid, Issuable
<1>6. \A past \in SUBSET issued : past \subseteq Creds /\ Over(d, past) => Over(e, past)
    BY <1>3 DEF Over
<1>7. LastAdministrator(d) => LastAdministrator(e)
    BY <1>2 DEF LastAdministrator, Administers, CapsOf
<1> QED
    BY <1>2, <1>4, <1>5, <1>6, <1>7 DEF e, Good

\* invalidatePrincipal: what the rows become.
InvalidCreds(d, u) ==
    [c \in Creds |-> IF d.creds[c] # None /\ d.creds[c].owner = u
                     THEN [d.creds[c] EXCEPT !.revoked = TRUE] ELSE d.creds[c]]

LEMMA InvalidRows ==
    ASSUME NEW d \in AuthTables, NEW u
    PROVE  /\ InvalidCreds(d, u) \in [Creds -> CredRow \cup {None}]
           /\ \A c \in Creds :
                /\ d.creds[c] = None => InvalidCreds(d, u)[c] = None
                /\ d.creds[c] # None =>
                     /\ InvalidCreds(d, u)[c] # None
                     /\ Alike(d.creds[c], InvalidCreds(d, u)[c])
                     /\ InvalidCreds(d, u)[c].elevated = d.creds[c].elevated
                     /\ InvalidCreds(d, u)[c].expiry = d.creds[c].expiry
                     /\ d.creds[c].owner = u => InvalidCreds(d, u)[c].revoked
                     /\ d.creds[c].owner # u => InvalidCreds(d, u)[c] = d.creds[c]
                     /\ d.creds[c].revoked => InvalidCreds(d, u)[c].revoked
<1>1. ASSUME NEW c \in Creds, d.creds[c] # None
      PROVE  LET row == [d.creds[c] EXCEPT !.revoked = TRUE] IN
             /\ row \in CredRow /\ row # None /\ row.revoked /\ Alike(d.creds[c], row)
             /\ row.elevated = d.creds[c].elevated /\ row.expiry = d.creds[c].expiry
    <2>1. d.creds[c] \in CredRow
        BY <1>1 DEF AuthTables
    <2> QED
        BY <2>1, AccountsAssumption DEF CredRow, Alike
<1>2. \A c \in Creds : d.creds[c] # None => d.creds[c] \in CredRow /\ Alike(d.creds[c], d.creds[c])
    BY DEF AuthTables, Alike
<1>3. \A c \in Creds : InvalidCreds(d, u)[c] =
        IF d.creds[c] # None /\ d.creds[c].owner = u
        THEN [d.creds[c] EXCEPT !.revoked = TRUE] ELSE d.creds[c]
    BY DEF InvalidCreds
<1>4. InvalidCreds(d, u) \in [Creds -> CredRow \cup {None}]
    BY <1>1, <1>2 DEF InvalidCreds
<1> QED
    BY <1>1, <1>2, <1>3, <1>4

\* A principal changes together with its credentials: they are revoked, or it
\* stays enabled with its password, or it is new and has none.
LEMMA UserGood ==
    ASSUME NEW d, NEW issued, Good(d, issued), NEW u \in Users, NEW row \in UserRow,
           \A r \in row.roles : d.roles[r] # None,
           NEW e \in AuthTables, e.users = [d.users EXCEPT ![u] = row],
           e.roles = d.roles, e.epoch = d.epoch,
           \/ e.creds = InvalidCreds(d, u)
           \/ e.creds = d.creds /\ d.users[u] = None
           \/ e.creds = d.creds /\ row.pw = d.users[u].pw /\ ~row.disabled
    PROVE  /\ Good(e, issued)
           /\ \A past \in SUBSET Creds : Over(d, past) => Over(e, past)
           /\ \A c \in Creds : e.creds[c] = None <=> d.creds[c] = None
<1> DEFINE creds == e.creds
<1>1. d \in AuthTables /\ d.creds \in [Creds -> CredRow \cup {None}]
      /\ d.users \in [Users -> UserRow \cup {None}]
    BY DEF Good, AuthTables
<1>3. e.creds = creds
    OBVIOUS
<1> HIDE DEF creds
<1>4. \A x \in Users : e.users[x] = IF x = u THEN row ELSE d.users[x]
    BY <1>1, <1>3
<1>5. \A c \in Creds :
        /\ d.creds[c] = None => creds[c] = None
        /\ d.creds[c] # None =>
             /\ creds[c] # None /\ Alike(d.creds[c], creds[c])
             /\ creds[c].elevated = d.creds[c].elevated
             /\ creds[c].expiry = d.creds[c].expiry
             /\ d.creds[c].revoked => creds[c].revoked
    <2>1. CASE creds = InvalidCreds(d, u)
        BY <1>1, <2>1, InvalidRows
    <2>2. CASE creds = d.creds
        BY <2>2 DEF Alike
    <2> QED
        BY <2>1, <2>2 DEF creds
<1>6. row # None
    BY AccountsAssumption
<1>7. \A c \in Creds : d.creds[c] # None => d.creds[c].owner \in Users
    BY <1>1 DEF CredRow
<1>8. Wired(e, issued)
    <2>1. \A x \in Users : e.users[x] # None => \A r \in e.users[x].roles : e.roles[r] # None
        BY <1>3, <1>4 DEF Good, Wired
    <2>2. \A c \in Creds : e.creds[c] # None =>
            /\ c \in issued
            /\ e.users[e.creds[c].owner] # None
            /\ e.creds[c].elevated <= e.creds[c].expiry
        BY <1>3, <1>4, <1>5, <1>6, <1>7 DEF Good, Wired, Alike
    <2> QED
        BY <2>1, <2>2 DEF Wired
<1>9. Valid(e)
    <2>1. ASSUME NEW c \in Creds, e.creds[c] # None, ~e.creds[c].revoked
          PROVE  /\ e.creds[c].epoch = e.epoch
                 /\ ~e.users[e.creds[c].owner].disabled
                 /\ e.creds[c].kind = "grant" => e.creds[c].pw = e.users[e.creds[c].owner].pw
        <3>1. /\ d.creds[c] # None /\ ~d.creds[c].revoked /\ Alike(d.creds[c], e.creds[c])
            BY <1>3, <1>5, <2>1
        <3>2. /\ d.creds[c].epoch = d.epoch
              /\ ~d.users[d.creds[c].owner].disabled
              /\ d.creds[c].kind = "grant" => d.creds[c].pw = d.users[d.creds[c].owner].pw
              /\ d.users[d.creds[c].owner] # None
            BY <3>1 DEF Good, Valid, Wired
        <3>3. CASE d.creds[c].owner # u
            BY <1>3, <1>4, <1>7, <3>1, <3>2, <3>3 DEF Alike
        <3>4. CASE d.creds[c].owner = u
            <4>1. creds # InvalidCreds(d, u)
                BY <1>1, <1>3, <2>1, <3>1, <3>4, InvalidRows
            <4>2. row.pw = d.users[u].pw /\ ~row.disabled
                BY <3>2, <3>4, <4>1 DEF creds
            <4> QED
                BY <1>3, <1>4, <1>7, <3>1, <3>2, <3>4, <4>2 DEF Alike
        <3> QED
            BY <3>3, <3>4
    <2> QED
        BY <2>1 DEF Valid
<1>10. \A past \in SUBSET Creds : Over(d, past) => Over(e, past)
    BY <1>3, <1>5 DEF Over
<1> QED
    BY <1>3, <1>5, <1>8, <1>9, <1>10 DEF Good

\* A role gets capabilities.
LEMMA RoleGood ==
    ASSUME NEW d, NEW issued, Good(d, issued), NEW r \in Roles, NEW caps \in SUBSET Capability
    PROVE  LET e == WithRole(d, r, caps) IN
           /\ Good(e, issued)
           /\ \A past \in SUBSET Creds : Over(d, past) => Over(e, past)
           /\ e.roles = [d.roles EXCEPT ![r] = caps]
           /\ e.users = d.users /\ e.epoch = d.epoch /\ e.creds = d.creds
<1> DEFINE e == WithRole(d, r, caps)
<1>1. d \in AuthTables /\ d.roles \in [Roles -> (SUBSET Capability) \cup {None}]
    BY DEF Good, AuthTables
<1>2. /\ e \in AuthTables /\ e.roles = [d.roles EXCEPT ![r] = caps]
      /\ e.users = d.users /\ e.epoch = d.epoch /\ e.creds = d.creds
    BY <1>1, RoleFields
<1> HIDE DEF e
<1>3. caps # None
    BY AccountsAssumption
<1>4. \A x \in Roles : d.roles[x] # None => e.roles[x] # None
    BY <1>1, <1>2, <1>3
<1>5. \A u \in Users : d.users[u] # None => d.users[u].roles \subseteq Roles
    BY <1>1 DEF AuthTables, UserRow
<1>6. Wired(e, issued)
    BY <1>2, <1>4, <1>5 DEF Good, Wired
<1>7. Valid(e)
    BY <1>2 DEF Good, Valid
<1>8. \A past \in SUBSET Creds : Over(d, past) => Over(e, past)
    BY <1>2 DEF Over
<1> QED
    BY <1>2, <1>6, <1>7, <1>8 DEF e, Good

\* PrepareRestore: every credential of the backup is revoked.
LEMMA RestoredGood ==
    ASSUME NEW d, NEW issued, Good(d, issued), db \in AuthTables, now \in Nat
    PROVE  /\ Good(Restored(d), issued)
           /\ Over(Restored(d), Creds)
           /\ Restored(d).epoch = db.epoch + 1
           /\ LastAdministrator(d) => LastAdministrator(Restored(d))
<1> DEFINE cs == RestoredCreds(d.creds)
           epoch == db.epoch + 1
           e == [d EXCEPT !.creds = cs, !.epoch = epoch, !.high = now]
<1>1. d \in AuthTables /\ d.creds \in [Creds -> CredRow \cup {None}]
    BY DEF Good, AuthTables
<1>2. ASSUME NEW c \in Creds, d.creds[c] # None
      PROVE  LET row == [d.creds[c] EXCEPT !.revoked = TRUE, !.elevated = 0] IN
             /\ row \in CredRow /\ row # None /\ row.revoked /\ row.owner = d.creds[c].owner
             /\ row.elevated <= row.expiry
    <2>1. d.creds[c] \in CredRow
        BY <1>1, <1>2
    <2>2. LET row == [d.creds[c] EXCEPT !.revoked = TRUE, !.elevated = 0] IN
          /\ row \in CredRow /\ row.revoked /\ row.owner = d.creds[c].owner
          /\ row.elevated = 0 /\ row.expiry \in Nat
        BY <2>1 DEF CredRow
    <2> QED
        BY <2>2, AccountsAssumption
<1>3. \A c \in Creds : cs[c] = IF d.creds[c] = None THEN None
                               ELSE [d.creds[c] EXCEPT !.revoked = TRUE, !.elevated = 0]
    BY DEF RestoredCreds
<1>4. cs \in [Creds -> CredRow \cup {None}]
    BY <1>2 DEF RestoredCreds
<1>5. \A c \in Creds :
        /\ d.creds[c] = None => cs[c] = None
        /\ d.creds[c] # None => /\ cs[c] # None /\ cs[c].revoked
                                /\ cs[c].owner = d.creds[c].owner
                                /\ cs[c].elevated <= cs[c].expiry
    BY <1>2, <1>3
<1>6. epoch \in Nat
    BY DEF AuthTables
<1>7. Restored(d) = e
    BY DEF Restored
<1> HIDE DEF cs, epoch
<1>8. e \in AuthTables /\ e.users = d.users /\ e.roles = d.roles /\ e.creds = cs /\ e.epoch = epoch
    BY <1>1, <1>4, <1>6 DEF AuthTables
<1> HIDE DEF e
<1>9. Wired(e, issued)
    BY <1>5, <1>8 DEF Good, Wired
<1>10. Valid(e) /\ Over(e, Creds)
    BY <1>5, <1>8 DEF Valid, Over
<1>11. LastAdministrator(d) => LastAdministrator(e)
    BY <1>8 DEF LastAdministrator, Administers, CapsOf
<1> QED
    BY <1>7, <1>8, <1>9, <1>10, <1>11 DEF Good, epoch

-----------------------------------------------------------------------------
(* Steps of the tables.                                                    *)

\* A step that gives nobody a role and no role a capability.
LEMMA GrantedNothing ==
    ASSUME db'.roles = db.roles,
           \A u \in Users : db'.users[u] # None =>
               db.users[u] # None /\ db'.users[u].roles \subseteq db.users[u].roles
    PROVE  Granted
<1>1. ASSUME NEW u \in Users
      PROVE  Gained(u) = {}
    <2>1. CASE db'.users[u] = None
        BY <2>1 DEF Gained
    <2>2. CASE db'.users[u] # None
        <3>1. CapsOf(db', u) \subseteq CapsOf(db, u)
            BY <2>2 DEF CapsOf
        <3>2. CapsBefore(u) = CapsOf(db, u)
            BY <2>2 DEF CapsBefore
        <3> QED
            BY <2>2, <3>1, <3>2 DEF Gained
    <2> QED
        BY <2>1, <2>2
<1> QED
    BY <1>1 DEF Granted

\* What is in flight still finds its principals and credentials.
LEMMA ItemKept ==
    ASSUME NEW w, Item(w), used \subseteq used',
           \A u \in Users : db.users[u] # None => db'.users[u] # None
    PROVE  Item(w)'
BY DEF Item

\* A database becomes the tables a command made.
LEMMA BecomesKeeps ==
    ASSUME AccountsOK, NEW d, NEW issued \in SUBSET Creds, used' = used \cup issued,
           Good(d, used'), LastAdministrator(d), Over(d, ended), Becomes(d),
           UNCHANGED saved
    PROVE  TablesOK'
<1>1. db' = d /\ ended' = ended \cup Ended(d)
    BY DEF Becomes
<1>2. used' \subseteq Creds
    BY DEF AccountsOK, TablesOK
<1>3. ended' \subseteq used'
    BY <1>1 DEF Ended, AccountsOK, TablesOK
<1>4. \A c \in Ended(d) : d.creds[c] = None \/ d.creds[c].revoked
    BY <1>2 DEF Ended, Standing, Good, Valid
<1>5. Over(db', ended')
    BY <1>1, <1>4 DEF Over
<1>6. saved' # None => Good(saved', used') /\ LastAdministrator(saved')
    BY DEF AccountsOK, TablesOK, Good, Wired
<1> QED
    BY <1>1, <1>2, <1>3, <1>5, <1>6 DEF TablesOK

\* ExecuteAuth around the tables d a command makes.
LEMMA ExecuteKeeps ==
    ASSUME AccountsOK, NEW c \in Creds, NEW cap, NEW d, NEW issued \in SUBSET Creds,
           Good(d, used \cup issued), Over(d, ended), d.creds[c] # None,
           Execute(c, cap, d, issued)
    PROVE  /\ TablesOK' /\ used \subseteq used' /\ UNCHANGED <<now, saved, cookies>>
           /\ db'.users = d.users /\ db'.roles = d.roles /\ db'.epoch = d.epoch
           /\ CheckOperation(c, cap)
<1>1. /\ CheckOperation(c, cap) /\ LastAdministrator(d) /\ used' = used \cup issued
      /\ Becomes(Touch(d, c)) /\ UNCHANGED <<now, saved, cookies>>
    BY DEF Execute
<1>2. /\ Touch(d, c) \in AuthTables /\ Follows(d, Touch(d, c))
      /\ Touch(d, c).users = d.users /\ Touch(d, c).roles = d.roles
      /\ Touch(d, c).epoch = d.epoch
    BY TouchFields DEF AccountsOK
<1>3. ended \in SUBSET Creds
    BY DEF AccountsOK, TablesOK
<1>4. Good(Touch(d, c), used') /\ Over(Touch(d, c), ended) /\ LastAdministrator(Touch(d, c))
    BY <1>1, <1>2, <1>3, FollowsGood
<1>5. TablesOK'
    BY <1>1, <1>4, BecomesKeeps
<1>6. db' = Touch(d, c)
    BY <1>1 DEF Becomes
<1> QED
    BY <1>1, <1>2, <1>5, <1>6

\* A step that leaves the tables alone.
LEMMA TablesStand ==
    ASSUME TablesOK, UNCHANGED <<db, saved, used, ended>>
    PROVE  TablesOK' /\ Granted
<1>1. TablesOK'
    BY DEF TablesOK
<1>2. Granted
    BY GrantedNothing
<1> QED
    BY <1>1, <1>2

\* Budgets and what is made at random from them.
LEMMA SpendType ==
    ASSUME left \in Budget, NEW group \in {"people", "certs", "faults", "clock", "keys"},
           Spend(group)
    PROVE  left' \in Budget
BY DEF Spend, Budget

LEMMA RandomType ==
    ASSUME left \in Budget
    PROVE  Random \in Nat /\ Random # 0
BY DEF Random, Budget

\* The parts of AccountsOK after a step.
LEMMA Together ==
    ASSUME AccountsOK, TablesOK', used \subseteq used', now' \in Nat, now' <= MaxTime,
           left' \in Budget,
           cookies' \subseteq used',
           \A u \in Users : db.users[u] # None => db'.users[u] # None,
           \A w \in flight' : w \in flight \/ Item(w)'
    PROVE  AccountsOK'
<1>1. \A w \in flight : Item(w)'
    BY ItemKept DEF AccountsOK
<1> QED
    BY <1>1 DEF AccountsOK

\* A step that only adds work in flight, or takes some away.
LEMMA WorkKeeps ==
    ASSUME AccountsOK, UNCHANGED <<now, db, saved, used, ended>>, left' \in Budget,
           cookies' \subseteq used, \A w \in flight' : w \in flight \/ Item(w)
    PROVE  AccountsOK' /\ Granted
<1>1. TablesOK' /\ Granted
    BY TablesStand DEF AccountsOK
<1>2. \A w : Item(w)' <=> Item(w)
    BY DEF Item
<1>3. \A w \in flight' : Item(w)'
    BY <1>2 DEF AccountsOK
<1> QED
    BY <1>1, <1>3, Together DEF AccountsOK

LEMMA PrepareKeeps ==
    ASSUME AccountsOK, NEW c \in Creds, NEW u \in Users
    PROVE  /\ \A rs \in SUBSET Roles : PrepareUser(c, u, rs) => AccountsOK' /\ Granted
           /\ PreparePassword(c, u) => AccountsOK' /\ Granted
<1>1. Random \in Nat
    BY RandomType DEF AccountsOK
<1>2. ASSUME NEW rs \in SUBSET Roles, PrepareUser(c, u, rs)
      PROVE  AccountsOK' /\ Granted
    <2> DEFINE w == [op |-> "createUser", cred |-> c, user |-> u, roles |-> rs, pw |-> Random]
    <2>1. Item(w)
        BY <1>1 DEF Item
    <2>2. /\ flight' = flight \cup {w} /\ Spend("people")
          /\ UNCHANGED <<now, db, saved, cookies, used, ended>>
        BY <1>2 DEF PrepareUser, Prepare
    <2> HIDE DEF w
    <2> QED
        BY <2>1, <2>2, SpendType, WorkKeeps DEF AccountsOK
<1>3. ASSUME PreparePassword(c, u)
      PROVE  AccountsOK' /\ Granted
    <2> DEFINE w == [op |-> "changePassword", cred |-> c, user |-> u,
                     rev |-> db.users[u].rev, pw |-> Random]
    <2>1. Item(w)
        BY <1>1, <1>3 DEF Item, PreparePassword, Exists
    <2>2. /\ flight' = flight \cup {w} /\ Spend("people")
          /\ UNCHANGED <<now, db, saved, cookies, used, ended>>
        BY <1>3 DEF PreparePassword, Prepare
    <2> HIDE DEF w
    <2> QED
        BY <2>1, <2>2, SpendType, WorkKeeps DEF AccountsOK
<1> QED
    BY <1>2, <1>3

\* The reads before password work, the session row, and what is abandoned.
LEMMA ReadKeeps ==
    ASSUME AccountsOK,
           \/ \E u \in Users : LoginRead(u)
           \/ \E c \in Creds : ReauthRead(c)
           \/ \E w \in flight : Abandon(w) \/ SaveSession(w) \/ DeleteSession(w)
    PROVE  AccountsOK' /\ Granted
<1>1. ASSUME NEW u \in Users, LoginRead(u)
      PROVE  AccountsOK' /\ Granted
    <2> DEFINE w == [op |-> "login", user |-> u, pw |-> db.users[u].pw]
    <2>1. db.users[u] # None /\ db.users[u] \in UserRow
        BY <1>1 DEF LoginRead, Exists, AccountsOK, TablesOK, Good, AuthTables
    <2>2. Item(w)
        BY <2>1 DEF Item, UserRow
    <2>3. /\ flight' = flight \cup {w} /\ Spend("people")
          /\ UNCHANGED <<now, db, saved, cookies, used, ended>>
        BY <1>1 DEF LoginRead
    <2> HIDE DEF w
    <2> QED
        BY <2>2, <2>3, SpendType, WorkKeeps DEF AccountsOK
<1>2. ASSUME NEW c \in Creds, ReauthRead(c)
      PROVE  AccountsOK' /\ Granted
    <2> DEFINE w == [op |-> "reauth", cred |-> c, pw |-> db.users[db.creds[c].owner].pw]
    <2>1. Item(w)
        BY DEF Item
    <2>2. /\ flight' = flight \cup {w} /\ Spend("people")
          /\ UNCHANGED <<now, db, saved, cookies, used, ended>>
        BY <1>2 DEF ReauthRead
    <2> HIDE DEF w
    <2> QED
        BY <2>1, <2>2, SpendType, WorkKeeps DEF AccountsOK
<1>3. ASSUME NEW w \in flight, Abandon(w) \/ SaveSession(w) \/ DeleteSession(w)
      PROVE  AccountsOK' /\ Granted
    <2>1. /\ flight' = flight \ {w} /\ UNCHANGED <<now, db, saved, used, ended, left>>
        BY <1>3 DEF Abandon, SaveSession, DeleteSession
    <2>2. cookies' \subseteq used
        BY <1>3 DEF Abandon, SaveSession, DeleteSession, AccountsOK, Item
    <2> QED
        BY <2>1, <2>2, WorkKeeps DEF AccountsOK
<1> QED
    BY <1>1, <1>2, <1>3

\* A live credential has its row, and its owner is there and enabled.
LEMMA LiveRow ==
    ASSUME AccountsOK, NEW c \in Creds, Live(db, c)
    PROVE  /\ db.creds[c] # None /\ db.creds[c] \in CredRow
           /\ db.users[db.creds[c].owner] # None /\ db.users[db.creds[c].owner] \in UserRow
           /\ ~db.users[db.creds[c].owner].disabled /\ ~db.creds[c].revoked
           /\ c \in Issued
BY DEF Live, Standing, AccountsOK, TablesOK, Good, Wired, AuthTables, CredRow, Issued

\* A credential acts within known capabilities.
LEMMA EffectiveCaps ==
    ASSUME AccountsOK, NEW c \in Creds, db.creds[c] # None
    PROVE  Effective(db, c) \subseteq Capability
<1>1. db.creds[c] \in CredRow
    BY DEF AccountsOK, TablesOK, Good, AuthTables
<1> QED
    BY <1>1 DEF Effective, CredRow

\* The capabilities of a principal are those of roles that exist.
LEMMA CapsKnown ==
    ASSUME AccountsOK, NEW u \in Users, db.users[u] # None
    PROVE  CapsOf(db, u) \in SUBSET Capability
<1>1. db.users[u].roles \subseteq Roles
    BY DEF AccountsOK, TablesOK, Good, AuthTables, UserRow
<1>2. \A r \in db.users[u].roles : db.roles[r] \in SUBSET Capability
    BY <1>1 DEF AccountsOK, TablesOK, Good, Wired, AuthTables
<1> QED
    BY <1>2 DEF CapsOf

\* invalidatePrincipal and the revision of a principal, field by field.
LEMMA InvalidateFields ==
    ASSUME NEW d \in AuthTables, NEW u
    PROVE  /\ Invalidate(d, u) \in AuthTables
           /\ Invalidate(d, u).users = d.users /\ Invalidate(d, u).roles = d.roles
           /\ Invalidate(d, u).epoch = d.epoch
           /\ Invalidate(d, u).creds = InvalidCreds(d, u)
<1>1. InvalidCreds(d, u) \in [Creds -> CredRow \cup {None}]
    BY InvalidRows
<1>2. Invalidate(d, u) = [d EXCEPT !.creds = InvalidCreds(d, u)]
    BY DEF Invalidate, InvalidCreds
<1> QED
    BY <1>1, <1>2 DEF AuthTables

\* The row after its revision.
NextRow(row) == [row EXCEPT !.rev = row.rev + 1]

LEMMA RevisedFields ==
    ASSUME NEW d \in AuthTables, NEW u \in Users, d.users[u] \in UserRow
    PROVE  LET row == d.users[u] IN
           /\ NextRow(row) \in UserRow /\ NextRow(row).pw = row.pw
           /\ NextRow(row).disabled = row.disabled /\ NextRow(row).roles = row.roles
           /\ Revised(d, u) \in AuthTables
           /\ Revised(d, u).users = [d.users EXCEPT ![u] = NextRow(row)]
           /\ Revised(d, u).roles = d.roles /\ Revised(d, u).epoch = d.epoch
           /\ Revised(d, u).creds = d.creds
<1> DEFINE row == d.users[u]
<1>1. /\ NextRow(row) \in UserRow /\ NextRow(row).pw = row.pw
      /\ NextRow(row).disabled = row.disabled /\ NextRow(row).roles = row.roles
    BY DEF UserRow, NextRow
<1>2. Revised(d, u) = WithUser(d, u, NextRow(row))
    BY DEF Revised, WithUser, NextRow
<1> QED
    BY <1>1, <1>2, UserFields

\* A principal with another row, its credentials revoked.
LEMMA InvalidUser ==
    ASSUME NEW d \in AuthTables, NEW u \in Users, NEW row \in UserRow
    PROVE  LET e == Invalidate(WithUser(d, u, row), u) IN
           /\ e \in AuthTables /\ e.users = [d.users EXCEPT ![u] = row]
           /\ e.roles = d.roles /\ e.epoch = d.epoch /\ e.creds = InvalidCreds(d, u)
<1> DEFINE d1 == WithUser(d, u, row)
<1>1. /\ d1 \in AuthTables /\ d1.users = [d.users EXCEPT ![u] = row]
      /\ d1.roles = d.roles /\ d1.epoch = d.epoch /\ d1.creds = d.creds
    BY UserFields
<1>2. InvalidCreds(d1, u) = InvalidCreds(d, u)
    BY <1>1 DEF InvalidCreds
<1> HIDE DEF d1
<1>3. LET e == Invalidate(d1, u) IN
      /\ e \in AuthTables /\ e.users = [d.users EXCEPT ![u] = row]
      /\ e.roles = d.roles /\ e.epoch = d.epoch /\ e.creds = InvalidCreds(d, u)
    BY <1>1, <1>2, InvalidateFields
<1> QED
    BY <1>3 DEF d1

LEMMA RevisedUser ==
    ASSUME NEW d \in AuthTables, NEW u \in Users, NEW row \in UserRow,
           NEW e \in AuthTables, e.users = [d.users EXCEPT ![u] = row],
           e.roles = d.roles, e.epoch = d.epoch
    PROVE  /\ NextRow(row) \in UserRow /\ NextRow(row).pw = row.pw
           /\ NextRow(row).disabled = row.disabled /\ NextRow(row).roles = row.roles
           /\ Revised(e, u) \in AuthTables
           /\ Revised(e, u).users = [d.users EXCEPT ![u] = NextRow(row)]
           /\ Revised(e, u).roles = d.roles /\ Revised(e, u).epoch = d.epoch
           /\ Revised(e, u).creds = e.creds
<1>1. d.users \in [Users -> UserRow \cup {None}]
    BY DEF AuthTables
<1>2. e.users[u] = row
    BY <1>1
<1>3. /\ NextRow(row) \in UserRow /\ NextRow(row).pw = row.pw
      /\ NextRow(row).disabled = row.disabled /\ NextRow(row).roles = row.roles
      /\ Revised(e, u) \in AuthTables
      /\ Revised(e, u).users = [e.users EXCEPT ![u] = NextRow(row)]
      /\ Revised(e, u).roles = e.roles /\ Revised(e, u).epoch = e.epoch
      /\ Revised(e, u).creds = e.creds
    BY <1>2, RevisedFields
<1>4. [e.users EXCEPT ![u] = NextRow(row)] = [d.users EXCEPT ![u] = NextRow(row)]
    BY <1>1
<1> QED
    BY <1>3, <1>4

\* A command on one principal gives it no role its sender could not give.
LEMMA UserCommand ==
    ASSUME AccountsOK, NEW c \in Creds, db.creds[c] # None, NEW u \in Users, NEW row \in UserRow,
           NEW e \in AuthTables, e.users = [db.users EXCEPT ![u] = row],
           e.roles = db.roles, e.epoch = db.epoch,
           \/ e.creds = InvalidCreds(db, u)
           \/ e.creds = db.creds /\ db.users[u] = None
           \/ e.creds = db.creds /\ row.pw = db.users[u].pw /\ ~row.disabled,
           \/ RoleAssignment(c, row.roles)
           \/ db.users[u] # None /\ row.roles \subseteq db.users[u].roles,
           Execute(c, "access", e, {}), left' \in Budget, flight' \subseteq flight
    PROVE  AccountsOK' /\ Granted
<1>1. Good(db, used) /\ db.users \in [Users -> UserRow \cup {None}] /\ ended \in SUBSET Creds
    BY DEF AccountsOK, TablesOK, Good, AuthTables
<1>2. \A r \in row.roles : db.roles[r] # None
    BY DEF RoleAssignment, AccountsOK, TablesOK, Good, Wired
<1>3. /\ Good(e, used) /\ Over(e, ended)
      /\ \A x \in Creds : e.creds[x] = None <=> db.creds[x] = None
    BY <1>1, <1>2, UserGood DEF AccountsOK, TablesOK
<1>4. /\ TablesOK' /\ used \subseteq used' /\ UNCHANGED <<now, saved, cookies>>
      /\ db'.users = e.users /\ db'.roles = e.roles /\ db'.epoch = e.epoch
      /\ CheckOperation(c, "access")
    <2>1. Good(e, used \cup {})
        BY <1>3
    <2> QED
        BY <1>3, <2>1, ExecuteKeeps
<1>5. \A x \in Users : db'.users[x] = IF x = u THEN row ELSE db.users[x]
    BY <1>1, <1>4
<1>6. row # None
    BY AccountsAssumption
<1>7. AccountsOK'
    BY <1>4, <1>5, <1>6, Together DEF AccountsOK
<1>8. CASE db.users[u] # None /\ row.roles \subseteq db.users[u].roles
    BY <1>4, <1>5, <1>7, <1>8, GrantedNothing
<1>9. CASE RoleAssignment(c, row.roles)
    <2>1. c \in Issued
        BY DEF Issued
    <2>2. ASSUME NEW x \in Users, Gained(x) # {}
          PROVE  Gained(x) \subseteq Effective(db, c)
        <3>1. CASE x = u
            <4>1. CapsOf(db', u) \subseteq Effective(db, c)
                BY <1>4, <1>5, <1>9 DEF CapsOf, RoleAssignment
            <4> QED
                BY <3>1, <4>1 DEF Gained
        <3>2. CASE x # u
            <4>1. db'.users[x] = db.users[x]
                BY <1>5, <3>2
            <4>2. CapsOf(db', x) = CapsOf(db, x)
                BY <1>4, <4>1 DEF CapsOf
            <4>3. Gained(x) = {}
                BY <4>1, <4>2 DEF Gained, CapsBefore
            <4> QED
                BY <4>3
        <3> QED
            BY <3>1, <3>2
    <2> QED
        BY <1>4, <1>7, <2>1, <2>2 DEF Granted
<1> QED
    BY <1>8, <1>9

\* The commands on principals.
LEMMA CreateUserKeeps ==
    ASSUME AccountsOK, NEW w \in flight, CreateUser(w)
    PROVE  AccountsOK' /\ Granted
<1> DEFINE c == w.cred
           row == User(w.pw, w.roles)
           e == WithUser(db, w.user, row)
<1>1. c \in Creds /\ w.user \in Users /\ w.roles \in SUBSET Roles /\ w.pw \in Nat
    BY DEF AccountsOK, Item, CreateUser
<1>2. row \in UserRow /\ row.roles = w.roles
    BY <1>1 DEF User, UserRow
<1>3. db.users[w.user] = None /\ RoleAssignment(c, w.roles) /\ Execute(c, "access", e, {})
      /\ flight' = flight \ {w} /\ left' = left
    BY DEF CreateUser, Exists, WithUser
<1>4. Live(db, c)
    BY <1>3 DEF Execute, CheckOperation, CheckAuth, Presents
<1>5. db.creds[c] # None /\ db \in AuthTables
    BY <1>1, <1>4, LiveRow DEF AccountsOK, TablesOK, Good
<1> HIDE DEF e, row, c
<1>6. /\ e \in AuthTables /\ e.users = [db.users EXCEPT ![w.user] = row]
      /\ e.roles = db.roles /\ e.epoch = db.epoch /\ e.creds = db.creds
    BY <1>1, <1>2, <1>5, UserFields DEF e
<1> QED
    BY <1>1, <1>2, <1>3, <1>5, <1>6, UserCommand DEF AccountsOK

LEMMA ChangePasswordKeeps ==
    ASSUME AccountsOK, NEW w \in flight, ChangePassword(w)
    PROVE  AccountsOK' /\ Granted
<1> DEFINE c == w.cred
           u == w.user
           row == [db.users[u] EXCEPT !.pw = w.pw]
           d2 == Invalidate(WithUser(db, u, row), u)
           e == Revised(d2, u)
<1>1. c \in Creds /\ u \in Users /\ w.pw \in Nat /\ db.users[u] # None
    BY DEF AccountsOK, Item, ChangePassword
<1>2. db \in AuthTables /\ db.users[u] \in UserRow
    BY <1>1 DEF AccountsOK, TablesOK, Good, AuthTables
<1>3. row \in UserRow /\ row.roles = db.users[u].roles
    BY <1>1, <1>2 DEF UserRow
<1>4. Execute(c, "access", e, {}) /\ flight' = flight \ {w} /\ left' = left
    BY DEF ChangePassword, WithUser
<1>5. Live(db, c)
    BY <1>4 DEF Execute, CheckOperation, CheckAuth, Presents
<1>6. db.creds[c] # None
    BY <1>1, <1>5, LiveRow
<1> HIDE DEF row
<1>7. /\ d2 \in AuthTables /\ d2.users = [db.users EXCEPT ![u] = row]
      /\ d2.roles = db.roles /\ d2.epoch = db.epoch /\ d2.creds = InvalidCreds(db, u)
    BY <1>1, <1>2, <1>3, InvalidUser
<1> HIDE DEF c, u, d2
<1>8. /\ NextRow(row) \in UserRow /\ NextRow(row).roles = row.roles
      /\ e \in AuthTables /\ e.users = [db.users EXCEPT ![u] = NextRow(row)]
      /\ e.roles = db.roles /\ e.epoch = db.epoch /\ e.creds = d2.creds
    BY <1>1, <1>2, <1>3, <1>7, RevisedUser
<1> HIDE DEF e
<1> QED
    BY <1>1, <1>3, <1>4, <1>6, <1>7, <1>8, UserCommand DEF AccountsOK

LEMMA DeleteUserKeeps ==
    ASSUME AccountsOK, NEW c \in Creds, NEW u \in Users, DeleteUser(c, u)
    PROVE  AccountsOK' /\ Granted
<1> DEFINE row == [db.users[u] EXCEPT !.pw = 0, !.disabled = TRUE, !.roles = {}]
           d2 == Invalidate(WithUser(db, u, row), u)
           e == Revised(d2, u)
<1>1. db.users[u] # None /\ Spend("people") /\ flight' = flight
    BY DEF DeleteUser, Exists
<1>2. db \in AuthTables /\ db.users[u] \in UserRow
    BY <1>1 DEF AccountsOK, TablesOK, Good, AuthTables
<1>3. row \in UserRow /\ row.roles = {}
    BY <1>2 DEF UserRow
<1>4. Execute(c, "access", e, {})
    BY DEF DeleteUser, WithUser
<1>5. Live(db, c)
    BY <1>4 DEF Execute, CheckOperation, CheckAuth, Presents
<1>6. db.creds[c] # None
    BY <1>5, LiveRow
<1> HIDE DEF row
<1>7. /\ d2 \in AuthTables /\ d2.users = [db.users EXCEPT ![u] = row]
      /\ d2.roles = db.roles /\ d2.epoch = db.epoch /\ d2.creds = InvalidCreds(db, u)
    BY <1>2, <1>3, InvalidUser
<1> HIDE DEF d2
<1>8. /\ NextRow(row) \in UserRow /\ NextRow(row).roles = row.roles
      /\ e \in AuthTables /\ e.users = [db.users EXCEPT ![u] = NextRow(row)]
      /\ e.roles = db.roles /\ e.epoch = db.epoch /\ e.creds = d2.creds
    BY <1>2, <1>3, <1>7, RevisedUser
<1>9. left' \in Budget
    BY <1>1, SpendType DEF AccountsOK
<1> HIDE DEF e
<1> QED
    BY <1>1, <1>3, <1>4, <1>6, <1>7, <1>8, <1>9, UserCommand

LEMMA ChangeUserKeeps ==
    ASSUME AccountsOK, NEW c \in Creds, NEW u \in Users, NEW roles \in SUBSET Roles,
           NEW off \in BOOLEAN, ChangeUser(c, u, roles, off)
    PROVE  AccountsOK' /\ Granted
<1> DEFINE row1 == [db.users[u] EXCEPT !.roles = roles]
           d1 == WithUser(db, u, row1)
           row == [row1 EXCEPT !.disabled = off]
           d2 == WithUser(d1, u, row)
           d3 == IF off THEN Invalidate(d2, u) ELSE d2
           e == Revised(d3, u)
<1>1. db.users[u] # None /\ Spend("people") /\ flight' = flight /\ RoleAssignment(c, roles)
    BY DEF ChangeUser, Exists
<1>2. /\ db \in AuthTables /\ db.users[u] \in UserRow
      /\ db.users \in [Users -> UserRow \cup {None}]
    BY <1>1 DEF AccountsOK, TablesOK, Good, AuthTables
<1>3. /\ row1 \in UserRow /\ row \in UserRow /\ row.roles = roles
      /\ row.disabled = off /\ row.pw = db.users[u].pw
    BY <1>2 DEF UserRow
<1>4. d1.users[u] = row1 /\ d1 \in AuthTables /\ d1.users = [db.users EXCEPT ![u] = row1]
      /\ d1.roles = db.roles /\ d1.epoch = db.epoch /\ d1.creds = db.creds
    <2> HIDE DEF row1, row
    <2>1. /\ d1 \in AuthTables /\ d1.users = [db.users EXCEPT ![u] = row1]
          /\ d1.roles = db.roles /\ d1.epoch = db.epoch /\ d1.creds = db.creds
        BY <1>2, <1>3, UserFields
    <2> HIDE DEF d1
    <2>2. d1.users[u] = row1
        BY <1>2, <2>1
    <2> QED
        BY <2>1, <2>2
<1>5. Execute(c, "access", e, {})
    <2>1. Disabled(d1, u, off) = d3
        <3>1. d2 = [d1 EXCEPT !.users[u].disabled = off]
            <4> HIDE DEF d1, row1
            <4> QED
                BY <1>4 DEF WithUser
        <3> HIDE DEF d1, d2
        <3> QED
            BY <3>1 DEF Disabled
    <2>2. Execute(c, "access", Revised(Disabled(d1, u, off), u), {})
        BY DEF ChangeUser, WithUser
    <2> QED
        BY <2>1, <2>2
<1>6. Live(db, c)
    BY <1>5 DEF Execute, CheckOperation, CheckAuth, Presents
<1>7. db.creds[c] # None
    BY <1>6, LiveRow
<1> HIDE DEF row1, row, d1
<1>8. [d1.users EXCEPT ![u] = row] = [db.users EXCEPT ![u] = row]
    BY <1>2, <1>4
<1>9. /\ d3 \in AuthTables /\ d3.users = [db.users EXCEPT ![u] = row]
      /\ d3.roles = db.roles /\ d3.epoch = db.epoch
      /\ d3.creds = InvalidCreds(db, u) \/ (d3.creds = db.creds /\ ~off)
    <2>1. CASE off
        <3>1. InvalidCreds(d1, u) = InvalidCreds(db, u)
            BY <1>4 DEF InvalidCreds
        <3> QED
            BY <1>3, <1>4, <1>8, <2>1, <3>1, InvalidUser
    <2>2. CASE ~off
        BY <1>3, <1>4, <1>8, <2>2, UserFields
    <2> QED
        BY <2>1, <2>2
<1> HIDE DEF d3
<1>10. /\ NextRow(row) \in UserRow /\ NextRow(row).roles = row.roles
       /\ NextRow(row).pw = row.pw /\ NextRow(row).disabled = row.disabled
       /\ e \in AuthTables /\ e.users = [db.users EXCEPT ![u] = NextRow(row)]
       /\ e.roles = db.roles /\ e.epoch = db.epoch /\ e.creds = d3.creds
    BY <1>2, <1>3, <1>9, RevisedUser
<1>11. left' \in Budget
    BY <1>1, SpendType DEF AccountsOK
<1> HIDE DEF e
<1> QED
    BY <1>1, <1>3, <1>5, <1>7, <1>9, <1>10, <1>11, UserCommand

\* The commands on roles: the capabilities are among those of the sender.
LEMMA RoleCommand ==
    ASSUME AccountsOK, NEW c \in Creds, db.creds[c] # None, NEW r \in Roles,
           NEW caps, caps \subseteq Effective(db, c),
           Execute(c, "access", WithRole(db, r, caps), {}), left' \in Budget, flight' = flight
    PROVE  AccountsOK' /\ Granted
<1> DEFINE e == WithRole(db, r, caps)
<1>1. /\ Good(db, used) /\ db.roles \in [Roles -> (SUBSET Capability) \cup {None}]
      /\ ended \in SUBSET Creds /\ Over(db, ended)
      /\ \A u \in Users : db.users[u] # None => db.users[u].roles \subseteq Roles
    BY DEF AccountsOK, TablesOK, Good, AuthTables, UserRow
<1>2. caps \in SUBSET Capability
    BY EffectiveCaps
<1>3. /\ Good(e, used) /\ Over(e, ended) /\ e.roles = [db.roles EXCEPT ![r] = caps]
      /\ e.users = db.users /\ e.epoch = db.epoch /\ e.creds = db.creds
    BY <1>1, <1>2, RoleGood
<1> HIDE DEF e
<1>4. /\ TablesOK' /\ used \subseteq used' /\ UNCHANGED <<now, saved, cookies>>
      /\ db'.users = e.users /\ db'.roles = e.roles /\ db'.epoch = e.epoch
      /\ CheckOperation(c, "access")
    <2>1. Good(e, used \cup {}) /\ Execute(c, "access", e, {})
        BY <1>3 DEF e
    <2> QED
        BY <1>3, <2>1, ExecuteKeeps
<1>5. AccountsOK'
    BY <1>3, <1>4, Together DEF AccountsOK
<1>6. c \in Issued
    BY DEF Issued
<1>7. ASSUME NEW u \in Users
      PROVE  Gained(u) \subseteq Effective(db, c)
    <2>1. CASE db.users[u] = None
        BY <1>3, <1>4, <2>1 DEF Gained
    <2>2. CASE db.users[u] # None
        <3>1. \A x \in db.users[u].roles :
                db'.roles[x] \subseteq db.roles[x] \cup Effective(db, c)
            BY <1>1, <1>3, <1>4, <2>2
        <3>2. CapsOf(db', u) \subseteq CapsOf(db, u) \cup Effective(db, c)
            BY <1>3, <1>4, <3>1 DEF CapsOf
        <3> QED
            BY <1>3, <1>4, <2>2, <3>2 DEF Gained, CapsBefore
    <2> QED
        BY <2>1, <2>2
<1> QED
    BY <1>4, <1>5, <1>6, <1>7 DEF Granted

LEMMA RolesKeep ==
    ASSUME AccountsOK, NEW c \in Creds, NEW caps,
           CreateRole(c, caps) \/ \E r \in Roles : ChangeRole(c, r, caps)
    PROVE  AccountsOK' /\ Granted
<1>1. PICK r \in Roles : /\ caps \subseteq Effective(db, c) /\ Spend("people")
                         /\ Execute(c, "access", WithRole(db, r, caps), {})
                         /\ flight' = flight
    <2>1. "custom" \in Roles
        BY DEF Roles
    <2> QED
        BY <2>1 DEF CreateRole, ChangeRole, WithRole
<1>2. Live(db, c)
    BY <1>1 DEF Execute, CheckOperation, CheckAuth, Presents
<1>3. db.creds[c] # None
    BY <1>2, LiveRow
<1>4. left' \in Budget
    BY <1>1, SpendType DEF AccountsOK
<1> QED
    BY <1>1, <1>3, <1>4, RoleCommand

\* A step that only concerns credentials gives nobody anything.
LEMMA CredsOnly ==
    ASSUME AccountsOK, TablesOK', used \subseteq used', now' = now, left' \in Budget,
           cookies' = cookies, db'.users = db.users, db'.roles = db.roles,
           \A w \in flight' : w \in flight \/ Item(w)'
    PROVE  AccountsOK' /\ Granted
<1>1. Granted
    BY GrantedNothing
<1>2. AccountsOK'
    BY Together DEF AccountsOK
<1> QED
    BY <1>1, <1>2

\* A row of a known credential is replaced in a step of its own.
LEMMA RowStep ==
    ASSUME AccountsOK, NEW e \in AuthTables, Follows(db, e), used' = used, Becomes(e),
           e.users = db.users, e.roles = db.roles, e.epoch = db.epoch,
           UNCHANGED <<now, saved, cookies>>, left' \in Budget,
           \A w \in flight' : w \in flight \/ Item(w)'
    PROVE  AccountsOK' /\ Granted
<1>1. Good(db, used) /\ LastAdministrator(db) /\ ended \in SUBSET Creds /\ Over(db, ended)
    BY DEF AccountsOK, TablesOK
<1>2. Good(e, used) /\ LastAdministrator(e) /\ Over(e, ended)
    BY <1>1, FollowsGood
<1>3. TablesOK'
    <2>1. used' = used \cup {} /\ {} \in SUBSET Creds
        OBVIOUS
    <2>2. Good(e, used')
        BY <1>2
    <2> QED
        BY <1>2, <2>1, <2>2, BecomesKeeps, Zenon
<1>4. db' = e
    BY DEF Becomes
<1> QED
    BY <1>3, <1>4, CredsOnly

\* Tokens: a new one is of its maker, and its maker is enabled.
LEMMA CreateTokenKeeps ==
    ASSUME AccountsOK, NEW c \in Creds, NEW t \in Creds, t \in Fresh, NEW scopes,
           CreateToken(c, t, scopes)
    PROVE  AccountsOK' /\ Granted
<1> DEFINE owner == db.creds[c].owner
           row == [Grant(owner, 0, db.epoch, scopes) EXCEPT !.kind = "token", !.last = 0]
           e == WithRow(db, t, row, db.high)
<1>1. /\ Spend("people") /\ flight' = flight /\ scopes \subseteq Effective(db, c)
      /\ Execute(c, "tokens", [db EXCEPT !.creds[t] = row], {t})
    BY DEF CreateToken
<1>2. Live(db, c)
    BY <1>1 DEF Execute, CheckOperation, CheckAuth, Presents
<1>3. /\ db.creds[c] # None /\ owner \in Users /\ db.users[owner] # None
      /\ ~db.users[owner].disabled
    BY <1>2, LiveRow DEF CredRow
<1>4. /\ Good(db, used) /\ db \in AuthTables /\ db.epoch \in Nat /\ db.high \in Nat
      /\ ended \in SUBSET Creds /\ ended \in SUBSET used /\ Over(db, ended) /\ now \in Nat
      /\ Absolute \in Nat
    BY AccountsAssumption DEF AccountsOK, TablesOK, Good, AuthTables
<1>5. scopes \in SUBSET Capability
    BY <1>1, <1>3, EffectiveCaps
<1> HIDE DEF owner
<1>6. /\ row \in CredRow /\ row.owner = owner /\ row.epoch = db.epoch /\ row.kind = "token"
      /\ row.elevated = 0 /\ row.expiry \in Nat
    <2>1. Grant(owner, 0, db.epoch, scopes) \in CredRow
        BY <1>3, <1>4, <1>5 DEF Grant, CredRow
    <2>2. LET g == Grant(owner, 0, db.epoch, scopes)
          IN g.owner = owner /\ g.epoch = db.epoch /\ g.elevated = 0 /\ g.expiry \in Nat
        BY <1>4 DEF Grant
    <2> QED
        BY <2>1, <2>2 DEF CredRow
<1> HIDE DEF row
<1>7. [db EXCEPT !.creds[t] = row] = e
    BY <1>4 DEF WithRow, AuthTables
<1>8. /\ Good(e, used \cup {t}) /\ Over(e, ended)
      /\ e.users = db.users /\ e.roles = db.roles /\ e.epoch = db.epoch
    <2>1. row.elevated <= row.expiry
        BY <1>6
    <2>2. t \notin used
        BY DEF Fresh
    <2>3. row.kind = "grant" => row.pw = db.users[row.owner].pw
        BY <1>6
    <2>4. db.users[row.owner] # None /\ ~db.users[row.owner].disabled
        BY <1>3, <1>6
    <2>5. Issuable(db, row)
        BY <1>6, <2>1, <2>3, <2>4 DEF Issuable
    <2>6. /\ Good(e, used \cup {t})
          /\ \A past \in SUBSET used : past \subseteq Creds /\ Over(db, past) => Over(e, past)
          /\ e.users = db.users /\ e.roles = db.roles /\ e.epoch = db.epoch
        BY <1>4, <2>2, <2>5, InsertGood
    <2> QED
        BY <1>4, <2>6
<1>9. e.creds[c] # None
    <2>1. e.creds = [db.creds EXCEPT ![t] = row]
        BY <1>4, <1>6, RowFields
    <2>2. row # None
        BY <1>6, AccountsAssumption
    <2> QED
        BY <1>3, <1>4, <2>1, <2>2 DEF AuthTables
<1> HIDE DEF e
<1>10. /\ TablesOK' /\ used \subseteq used' /\ UNCHANGED <<now, saved, cookies>>
       /\ db'.users = e.users /\ db'.roles = e.roles
    <2>1. Execute(c, "tokens", e, {t})
        BY <1>1, <1>7
    <2> QED
        BY <1>8, <1>9, <2>1, ExecuteKeeps
<1>11. left' \in Budget
    BY <1>1, SpendType DEF AccountsOK
<1> QED
    BY <1>1, <1>8, <1>10, <1>11, CredsOnly

LEMMA RevokeTokenKeeps ==
    ASSUME AccountsOK, NEW c \in Creds, NEW t \in Creds, RevokeToken(c, t)
    PROVE  AccountsOK' /\ Granted
<1> DEFINE row == [db.creds[t] EXCEPT !.revoked = TRUE]
           e == WithRow(db, t, row, db.high)
<1>1. /\ Spend("people") /\ flight' = flight /\ db.creds[t] # None
      /\ Execute(c, "tokens", [db EXCEPT !.creds[t].revoked = TRUE], {})
    BY DEF RevokeToken
<1>2. Live(db, c)
    BY <1>1 DEF Execute, CheckOperation, CheckAuth, Presents
<1>3. db.creds[c] # None
    BY <1>2, LiveRow
<1>4. /\ Good(db, used) /\ db \in AuthTables /\ db.high \in Nat
      /\ ended \in SUBSET Creds /\ Over(db, ended)
    BY DEF AccountsOK, TablesOK, Good, AuthTables
<1>5. [db EXCEPT !.creds[t].revoked = TRUE] = e
    BY <1>4 DEF WithRow, AuthTables
<1>6. /\ e \in AuthTables /\ Follows(db, e)
      /\ e.users = db.users /\ e.roles = db.roles /\ e.epoch = db.epoch
    BY <1>1, <1>4, RevokedFields
<1> HIDE DEF e
<1>7. Good(e, used \cup {}) /\ Over(e, ended)
    BY <1>4, <1>6, FollowsGood
<1>8. e.creds[c] # None
    BY <1>3, <1>6 DEF Follows
<1>9. /\ TablesOK' /\ used \subseteq used' /\ UNCHANGED <<now, saved, cookies>>
      /\ db'.users = e.users /\ db'.roles = e.roles
    <2>1. Execute(c, "tokens", e, {})
        BY <1>1, <1>5
    <2> QED
        BY <1>7, <1>8, <2>1, ExecuteKeeps
<1>10. left' \in Budget
    BY <1>1, SpendType DEF AccountsOK
<1> QED
    BY <1>1, <1>6, <1>9, <1>10, CredsOnly

\* Login: the owner is still enabled and its password is the one verified.
LEMMA AuthenticateKeeps ==
    ASSUME AccountsOK, NEW w \in flight, Authenticate(w)
    PROVE  AccountsOK' /\ Granted
<1> DEFINE u == w.user
           row == Grant(u, w.pw, db.epoch, CapsOf(db, u))
           high == Max({db.high, now})
<1>0. PICK c \in Fresh :
        /\ used' = used \cup {c} /\ Becomes(WithRow(db, c, row, high))
        /\ flight' = (flight \ {w}) \cup {[op |-> "save", cred |-> c]}
        /\ UNCHANGED <<now, saved, cookies, left>>
    BY DEF Authenticate, WithRow
<1> DEFINE e == WithRow(db, c, row, high)
           save == [op |-> "save", cred |-> c]
<1>1. u \in Users /\ w.pw \in Nat /\ db.users[u] # None
    BY DEF AccountsOK, Item, Authenticate
<1>2. ~db.users[u].disabled /\ db.users[u].pw = w.pw
    BY DEF Authenticate, Unchanged
<1>3. c \in Creds /\ c \notin used
    BY DEF Fresh
<1>4. /\ Good(db, used) /\ db.epoch \in Nat /\ db.high \in Nat /\ LastAdministrator(db)
      /\ ended \in SUBSET Creds /\ ended \in SUBSET used /\ Over(db, ended) /\ now \in Nat
      /\ Absolute \in Nat
    BY AccountsAssumption DEF AccountsOK, TablesOK, Good, AuthTables
<1>5. CapsOf(db, u) \in SUBSET Capability
    BY <1>1, CapsKnown
<1>6. used' = used \cup {c} /\ Becomes(e) /\ flight' = (flight \ {w}) \cup {save}
      /\ UNCHANGED <<now, saved, cookies, left>>
    BY <1>0
<1> HIDE DEF u
<1>7. Issuable(db, row)
    <2> DEFINE caps == CapsOf(db, u)
               ep == db.epoch
    <2>1. caps \in SUBSET Capability /\ ep \in Nat
        BY <1>4, <1>5
    <2> HIDE DEF caps, ep
    <2>2. LET g == Grant(u, w.pw, ep, caps)
          IN /\ g \in CredRow /\ g.owner = u /\ g.pw = w.pw /\ g.epoch = ep
             /\ g.elevated = 0 /\ g.expiry \in Nat
        BY <1>1, <1>4, <2>1 DEF Grant, CredRow
    <2>3. row = Grant(u, w.pw, ep, caps)
        BY DEF ep, caps
    <2> HIDE DEF row
    <2> QED
        BY <1>1, <1>2, <2>2, <2>3 DEF Issuable, ep
<1> HIDE DEF row
<1>8. high \in Nat
    BY <1>4, MaxMin
<1> HIDE DEF high
<1>9. /\ Good(e, used \cup {c})
      /\ \A past \in SUBSET used : past \subseteq Creds /\ Over(db, past) => Over(e, past)
      /\ e.users = db.users /\ e.roles = db.roles /\ LastAdministrator(e)
    <2>1. /\ Good(e, used \cup {c})
          /\ \A past \in SUBSET used : past \subseteq Creds /\ Over(db, past) => Over(e, past)
          /\ e.users = db.users /\ e.roles = db.roles /\ e.epoch = db.epoch
          /\ LastAdministrator(db) => LastAdministrator(e)
        BY <1>3, <1>4, <1>7, <1>8, InsertGood
    <2> QED
        BY <1>4, <2>1
<1> HIDE DEF e
<1>10. TablesOK'
    <2>1. Good(e, used') /\ Over(e, ended) /\ {c} \in SUBSET Creds
        BY <1>3, <1>4, <1>6, <1>9
    <2> QED
        BY <1>6, <1>9, <2>1, BecomesKeeps
<1>11. db' = e
    BY <1>6 DEF Becomes
<1>12. Item(save)'
    BY <1>3, <1>6 DEF Item
<1> HIDE DEF save
<1> QED
    BY <1>6, <1>9, <1>10, <1>11, <1>12, CredsOnly DEF AccountsOK

\* Logout, and the revocation of a grant whose session row was not written.
LEMMA RevokedStep ==
    ASSUME AccountsOK, NEW c \in Creds, Live(db, c), used' = used, Becomes(Revoked(c)),
           UNCHANGED <<now, saved, cookies>>, left' \in Budget,
           \A w \in flight' : w \in flight \/ Item(w)'
    PROVE  AccountsOK' /\ Granted
<1> DEFINE row == [db.creds[c] EXCEPT !.revoked = TRUE]
           high == Max({db.high, now})
           e == WithRow(db, c, row, high)
<1>1. Good(db, used) /\ db.high \in Nat /\ now \in Nat
    BY DEF AccountsOK, TablesOK, Good, AuthTables
<1>2. high \in Nat
    BY <1>1, MaxMin
<1>3. Revoked(c) = e
    BY DEF Revoked, WithRow
<1>4. db.creds[c] # None
    BY LiveRow
<1> HIDE DEF high
<1>5. /\ e \in AuthTables /\ Follows(db, e)
      /\ e.users = db.users /\ e.roles = db.roles /\ e.epoch = db.epoch
    BY <1>1, <1>2, <1>4, RevokedFields
<1>6. Becomes(e)
    BY <1>3
<1> HIDE DEF e
<1> QED
    BY <1>5, <1>6, RowStep

LEMMA RevokeKeeps ==
    ASSUME AccountsOK,
           \/ \E w \in flight : DropSession(w)
           \/ \E c \in Creds : RevokeAuth(c)
    PROVE  AccountsOK' /\ Granted
<1>1. ASSUME NEW w \in flight, DropSession(w)
      PROVE  AccountsOK' /\ Granted
    <2>1. /\ w.cred \in Creds /\ flight' = flight \ {w} /\ used' = used
          /\ UNCHANGED <<now, saved, cookies, left>>
        BY <1>1 DEF DropSession, AccountsOK, Item
    <2>2. CASE Live(db, w.cred) /\ Becomes(Revoked(w.cred))
        BY <2>1, <2>2, RevokedStep DEF AccountsOK
    <2>3. CASE UNCHANGED <<db, ended>>
        BY <2>1, <2>3, WorkKeeps DEF AccountsOK
    <2> QED
        BY <1>1, <2>2, <2>3 DEF DropSession
<1>2. ASSUME NEW c \in Creds, RevokeAuth(c)
      PROVE  AccountsOK' /\ Granted
    <2> DEFINE w == [op |-> "forget", cred |-> c]
    <2>1. /\ Spend("people") /\ Live(db, c) /\ used' = used /\ Becomes(Revoked(c))
          /\ flight' = flight \cup {w} /\ UNCHANGED <<now, saved, cookies>>
        BY <1>2 DEF RevokeAuth, IsGrant
    <2>2. Item(w)'
        BY DEF Item
    <2>3. left' \in Budget
        BY <2>1, SpendType DEF AccountsOK
    <2> HIDE DEF w
    <2> QED
        BY <2>1, <2>2, <2>3, RevokedStep
<1> QED
    BY <1>1, <1>2

\* Reads, and the elevation of a grant that ends with it at the latest.
LEMMA ReadAuthKeeps ==
    ASSUME AccountsOK, NEW c \in Creds, ReadAuth(c)
    PROVE  AccountsOK' /\ Granted
<1>1. /\ Live(db, c) /\ used' = used /\ Becomes(Touch(db, c))
      /\ UNCHANGED <<now, saved, flight, cookies, left>>
    BY DEF ReadAuth, Presents
<1>2. db.creds[c] # None /\ Good(db, used) /\ now \in Nat
    BY <1>1, LiveRow DEF AccountsOK, TablesOK
<1>3. /\ Touch(db, c) \in AuthTables /\ Follows(db, Touch(db, c))
      /\ Touch(db, c).users = db.users /\ Touch(db, c).roles = db.roles
      /\ Touch(db, c).epoch = db.epoch
    BY <1>2, TouchFields
<1> QED
    BY <1>1, <1>3, RowStep DEF AccountsOK

LEMMA ReauthenticateKeeps ==
    ASSUME AccountsOK, NEW w \in flight, Reauthenticate(w)
    PROVE  AccountsOK' /\ Granted
<1> DEFINE c == w.cred
           until == Min({now + Elevation, db.creds[c].expiry})
           row == [db.creds[c] EXCEPT !.elevated = until, !.last = now]
           high == Max({db.high, now})
           e == WithRow(db, c, row, high)
<1>1. /\ c \in Creds /\ Live(db, c) /\ used' = used /\ flight' = flight \ {w}
      /\ UNCHANGED <<now, saved, cookies, left>>
    BY DEF Reauthenticate, AccountsOK, Item
<1>2. /\ db.creds[c] # None /\ db.creds[c] \in CredRow /\ Good(db, used) /\ now \in Nat
      /\ db.high \in Nat /\ db.creds[c].expiry \in Nat /\ Elevation \in Nat
      /\ db \in AuthTables
    BY <1>1, LiveRow, AccountsAssumption DEF AccountsOK, TablesOK, Good, AuthTables, CredRow
<1>3. until \in Nat /\ until <= db.creds[c].expiry /\ high \in Nat
    <2>1. now + Elevation \in Nat
        BY <1>2
    <2> QED
        BY <1>2, <2>1, MaxMin
<1>4. Becomes(e)
    <2>1. Becomes(Touch([db EXCEPT !.creds[c].elevated = until], c))
        BY DEF Reauthenticate
    <2> HIDE DEF until, c
    <2>2. Touch([db EXCEPT !.creds[c].elevated = until], c) = e
        BY <1>1, <1>2 DEF Touch, WithRow, AuthTables
    <2> QED
        BY <2>1, <2>2
<1> HIDE DEF c, until, high
<1>5. /\ row \in CredRow /\ Alike(db.creds[c], row) /\ row.revoked = db.creds[c].revoked
      /\ row.elevated = until /\ row.expiry = db.creds[c].expiry
    BY <1>2, <1>3 DEF CredRow, Alike
<1>6. row.elevated <= row.expiry
    BY <1>3, <1>5
<1> HIDE DEF row
<1>7. /\ e \in AuthTables /\ Follows(db, e)
      /\ e.users = db.users /\ e.roles = db.roles /\ e.epoch = db.epoch
    BY <1>1, <1>2, <1>3, <1>5, <1>6, RowFollows
<1> HIDE DEF e
<1> QED
    BY <1>1, <1>4, <1>7, RowStep DEF AccountsOK

-----------------------------------------------------------------------------
(* Backups, restarts, the clock, and the rest of the daemons.              *)

\* Steps of the certificate trial, of the clock and of a dying daemon leave the
\* tables alone.
LEMMA TimeKeeps ==
    ASSUME AccountsOK, UNCHANGED <<db, saved, cookies, used, ended>>, now' \in Nat,
           now' <= MaxTime, left' \in Budget, flight' \subseteq flight
    PROVE  AccountsOK' /\ Granted
<1>1. TablesOK' /\ Granted
    BY TablesStand DEF AccountsOK
<1> QED
    BY <1>1, Together DEF AccountsOK

\* A command on certificates touches its credential and no other row.
LEMMA SameTables ==
    ASSUME AccountsOK, NEW c \in Creds, NEW cap, Execute(c, cap, db, {}), left' \in Budget,
           flight' = flight
    PROVE  AccountsOK' /\ Granted /\ CheckOperation(c, cap)
<1>1. Live(db, c)
    BY DEF Execute, CheckOperation, CheckAuth, Presents
<1>2. db.creds[c] # None /\ Good(db, used \cup {}) /\ Over(db, ended)
    BY <1>1, LiveRow DEF AccountsOK, TablesOK
<1>3. /\ TablesOK' /\ used \subseteq used' /\ UNCHANGED <<now, saved, cookies>>
      /\ db'.users = db.users /\ db'.roles = db.roles /\ CheckOperation(c, cap)
    BY <1>2, ExecuteKeeps
<1> QED
    BY <1>3, CredsOnly

LEMMA BackupKeeps ==
    ASSUME AccountsOK, Backup
    PROVE  AccountsOK' /\ Granted
<1>1. /\ Spend("faults") /\ saved' = db
      /\ UNCHANGED <<now, db, flight, cookies, used, ended>>
    BY DEF Backup
<1>2. TablesOK'
    BY <1>1 DEF AccountsOK, TablesOK
<1>3. left' \in Budget
    BY <1>1, SpendType DEF AccountsOK
<1> QED
    BY <1>1, <1>2, <1>3, CredsOnly

LEMMA RestoreKeeps ==
    ASSUME AccountsOK, Restore
    PROVE  AccountsOK' /\ db'.epoch # db.epoch
<1> DEFINE e == Restored(saved)
<1>1. /\ Spend("faults") /\ saved # None /\ used' = used /\ Becomes(e)
      /\ flight' = {} /\ cookies' = {} /\ UNCHANGED <<now, saved>>
    BY DEF Restore
<1>2. /\ Good(saved, used) /\ LastAdministrator(saved) /\ db \in AuthTables /\ now \in Nat
      /\ ended \in SUBSET Creds /\ db.epoch \in Nat
    BY <1>1 DEF AccountsOK, TablesOK, Good, AuthTables
<1>3. /\ Good(e, used) /\ Over(e, Creds) /\ LastAdministrator(e) /\ e.epoch = db.epoch + 1
    BY <1>2, RestoredGood
<1> HIDE DEF e
<1>4. TablesOK'
    <2>1. used' = used \cup {} /\ {} \in SUBSET Creds
        BY <1>1
    <2>2. Good(e, used') /\ Over(e, ended)
        BY <1>1, <1>2, <1>3 DEF Over
    <2>3. UNCHANGED saved
        BY <1>1
    <2> QED
        BY <1>1, <1>3, <2>1, <2>2, <2>3, BecomesKeeps, Zenon
<1>5. left' \in Budget
    BY <1>1, SpendType DEF AccountsOK
<1>6. AccountsOK'
    BY <1>1, <1>2, <1>4, <1>5 DEF AccountsOK
<1>7. db'.epoch = db.epoch + 1
    BY <1>1, <1>3 DEF Becomes
<1> QED
    BY <1>2, <1>6, <1>7

\* Every command, every end of password work and every request of a session.
LEMMA CommandsKeep ==
    ASSUME AccountsOK, Commands
    PROVE  AccountsOK' /\ Granted
<1>1. RoleSets \subseteq SUBSET Roles
    BY DEF RoleSets, Roles
<1>2. PICK c \in Issued :
        \/ \E u \in Users :
              \/ \E rs \in RoleSets : ~Exists(u) /\ PrepareUser(c, u, rs)
              \/ PreparePassword(c, u)
              \/ \E rs \in RoleSets, off \in BOOLEAN : ChangeUser(c, u, rs, off)
              \/ DeleteUser(c, u)
        \/ \E caps \in CapSets :
              \/ CreateRole(c, caps)
              \/ \E r \in Roles : ChangeRole(c, r, caps)
        \/ \E t \in Creds :
              \/ \E s \in CapSets : t \in Fresh /\ CreateToken(c, t, s)
              \/ RevokeToken(c, t)
    BY DEF Commands
<1>3. c \in Creds
    BY DEF Issued
<1>4. CASE \E u \in Users :
              \/ \E rs \in RoleSets : ~Exists(u) /\ PrepareUser(c, u, rs)
              \/ PreparePassword(c, u)
              \/ \E rs \in RoleSets, off \in BOOLEAN : ChangeUser(c, u, rs, off)
              \/ DeleteUser(c, u)
    BY <1>1, <1>3, <1>4, PrepareKeeps, ChangeUserKeeps, DeleteUserKeeps
<1>5. CASE \E caps \in CapSets :
              \/ CreateRole(c, caps)
              \/ \E r \in Roles : ChangeRole(c, r, caps)
    BY <1>3, <1>5, RolesKeep
<1>6. CASE \E t \in Creds :
              \/ \E s \in CapSets : t \in Fresh /\ CreateToken(c, t, s)
              \/ RevokeToken(c, t)
    BY <1>3, <1>6, CreateTokenKeeps, RevokeTokenKeeps
<1> QED
    BY <1>2, <1>4, <1>5, <1>6

LEMMA FlightKeeps ==
    ASSUME AccountsOK, Flight
    PROVE  AccountsOK' /\ Granted
BY CreateUserKeeps, ChangePasswordKeeps, AuthenticateKeeps, ReauthenticateKeeps, ReadKeeps,
   RevokeKeeps DEF Flight

LEMMA SessionsKeep ==
    ASSUME AccountsOK, Sessions
    PROVE  AccountsOK' /\ Granted
BY ReadKeeps, RevokeKeeps, ReadAuthKeeps DEF Sessions

\* After the bootstrap the first principal administers.
LEMMA AccountsStart ==
    ASSUME AccountsInit
    PROVE  AccountsOK
<1> DEFINE us == [u \in Users |-> CASE u = Root -> User(1, {"Administrator"})
                                    [] u = Deputy -> User(1, {"SecurityAdmin"})
                                    [] OTHER -> None]
           rs == [r \in Roles |-> IF r = "custom" THEN None ELSE Template[r]]
           row == [Grant(Root, 1, 0, Capability) EXCEPT !.elevated = Elevation]
           cs == [c \in Creds |-> IF c = First THEN row ELSE None]
<1>1. /\ Root \in Users /\ Deputy \in Users /\ Root # Deputy /\ First \in Creds
      /\ Absolute \in Nat /\ Elevation \in Nat /\ Elevation <= Absolute
    BY AccountsAssumption
<1>2. now = 0 /\ db = Bootstrap /\ saved = None /\ flight = {} /\ cookies = {First}
      /\ used = {First} /\ ended = {} /\ left \in Budget
    BY AccountsAssumption DEF AccountsInit
<1>3. /\ User(1, {"Administrator"}) \in UserRow /\ User(1, {"SecurityAdmin"}) \in UserRow
      /\ User(1, {"Administrator"}).roles = {"Administrator"}
      /\ User(1, {"SecurityAdmin"}).roles = {"SecurityAdmin"}
      /\ User(1, {"Administrator"}).pw = 1 /\ ~User(1, {"Administrator"}).disabled
    BY DEF User, UserRow, Roles
<1>4. /\ us[Root] = User(1, {"Administrator"})
      /\ \A u \in Users : us[u] \in {User(1, {"Administrator"}), User(1, {"SecurityAdmin"}), None}
      /\ us \in [Users -> UserRow \cup {None}]
    BY <1>1, <1>3
<1>5. /\ rs \in [Roles -> (SUBSET Capability) \cup {None}]
      /\ rs["Administrator"] = Capability
      /\ rs["Administrator"] # None /\ rs["SecurityAdmin"] # None
    <2>1. /\ Template["Administrator"] = Capability
          /\ Template["SecurityAdmin"] = {"access", "tokens"}
        BY DEF Template, Roles
    <2>2. /\ rs["Administrator"] = Capability
          /\ rs["SecurityAdmin"] = {"access", "tokens"}
          /\ rs["custom"] = None
        BY <2>1 DEF Roles
    <2>3. {"access", "tokens"} \in SUBSET Capability
        BY DEF Capability
    <2>4. \A r \in Roles : rs[r] \in (SUBSET Capability) \cup {None}
        BY <2>2, <2>3 DEF Roles
    <2> QED
        BY <2>2, <2>3, <2>4, AccountsAssumption
<1>6. /\ row \in CredRow /\ row.owner = Root /\ row.kind = "grant" /\ row.pw = 1
      /\ row.epoch = 0 /\ row.elevated = Elevation /\ row.expiry = Absolute
    <2>1. /\ Grant(Root, 1, 0, Capability) \in CredRow
          /\ Grant(Root, 1, 0, Capability).expiry = Absolute
          /\ Grant(Root, 1, 0, Capability).owner = Root
          /\ Grant(Root, 1, 0, Capability).kind = "grant"
          /\ Grant(Root, 1, 0, Capability).pw = 1
          /\ Grant(Root, 1, 0, Capability).epoch = 0
        BY <1>1, <1>2 DEF Grant, CredRow
    <2> QED
        BY <1>1, <2>1 DEF CredRow
<1> HIDE DEF row
<1>7. /\ cs \in [Creds -> CredRow \cup {None}]
      /\ \A c \in Creds : cs[c] # None => c = First /\ cs[c] = row
    BY <1>6
<1>8. db = [users |-> us, roles |-> rs, creds |-> cs, epoch |-> 0, high |-> 0]
    BY <1>2 DEF Bootstrap, row
<1> HIDE DEF us, rs, cs
<1>9. /\ db \in AuthTables /\ db.users = us /\ db.roles = rs /\ db.creds = cs /\ db.epoch = 0
    BY <1>4, <1>5, <1>7, <1>8 DEF AuthTables
<1>10. Wired(db, used)
    <2>1. \A u \in Users : db.users[u] # None =>
              \A r \in db.users[u].roles : db.roles[r] # None
        BY <1>3, <1>4, <1>5, <1>9
    <2>2. \A c \in Creds : db.creds[c] # None =>
              /\ c \in used /\ db.users[db.creds[c].owner] # None
              /\ db.creds[c].elevated <= db.creds[c].expiry
        BY <1>1, <1>2, <1>3, <1>4, <1>6, <1>7, <1>9, AccountsAssumption
    <2> QED
        BY <2>1, <2>2 DEF Wired
<1>11. Valid(db)
    BY <1>3, <1>4, <1>6, <1>7, <1>9 DEF Valid
<1>12. LastAdministrator(db)
    <2>1. CapsOf(db, Root) = Capability
        BY <1>3, <1>4, <1>5, <1>9 DEF CapsOf
    <2>2. User(1, {"Administrator"}) # None
        BY <1>3, AccountsAssumption
    <2> QED
        BY <1>1, <1>3, <1>4, <1>9, <2>1, <2>2 DEF LastAdministrator, Administers
<1>13. TablesOK
    BY <1>1, <1>2, <1>9, <1>10, <1>11, <1>12 DEF TablesOK, Good, Over
<1>14. 0 <= MaxTime
    BY AccountsAssumption
<1> QED
    BY <1>2, <1>13, <1>14 DEF AccountsOK

-----------------------------------------------------------------------------
(* The certificate trial and the sealing keys.                             *)


\* A trial of this boot began before now, its deadline is the window after its
\* start, and no more real time has passed than the clock of this boot says.
Timely(s, b, n, a) ==
    s.trial # None =>
        /\ s.boot <= b
        /\ s.boot = b => /\ s.started <= n /\ a <= n - s.started
                         /\ s.deadline = s.started + Window

\* What is active was active, and is there.
Past(s, e) == s.active = None \/ s.active \in e

Sound(s, b, n, a, e) == s \in Authorities /\ Timely(s, b, n, a) /\ Past(s, e)

\* What ovs-webd serves was active once, or is the trial of the state it copied.
Serves(v, b, n, a, e) ==
    /\ Sound(v.state, b, n, a, e)
    /\ v.fallback \in e
    /\ v.id \in e \/ (v.id = v.state.trial /\ v.id # None)

\* The backup of the certificate tables.
Kept(v, m, e) == v.tls \in Authorities /\ Past(v.tls, e) /\ v.known \subseteq m

TrialOK ==
    /\ boot \in Nat /\ ns \in Nat /\ ns <= MaxNS /\ age \in Nat /\ age <= Window
    /\ material \subseteq Certs /\ known \subseteq material
    /\ Sound(tls, boot, ns, age, ever)
    /\ Sound(local, boot, ns, age, ever)
    /\ Sound(seen, boot, ns, age, ever)
    /\ Serves(serving, boot, ns, age, ever)
    /\ BootCert \in ever
    /\ tls.trial # None => tls.trial # tls.active
    /\ saved # None => Kept(savedTls, material, ever)

\* The key files, what they seal, and the keys a rotation holds.
KeysOK ==
    /\ keys \in [Version -> Nat] /\ torn \subseteq Version /\ active \in Version
    /\ sealed \in [Rows -> [version : Version, key : Nat \ {0}]]
    /\ \A row \in Rows : Opens(row)
    /\ \A v \in 1..active : keys[v] # 0
    /\ \A v \in torn : v = active + 1 /\ keys[v] = 0
    /\ ring # None => /\ ring \in [next : Version, done : SUBSET Rows]
                      /\ ring.next = active + 1
                      /\ ring.next \in torn \/ keys[ring.next] # 0
                      /\ ring.done # {} => ring.next \notin torn

Inv == AccountsOK /\ TrialOK /\ KeysOK

\* What ConfirmedInWindow says of one step.
Confirmed ==
    tls.trial # None /\ tls'.active = tls.trial /\ db'.epoch = db.epoch
        => conn = tls.trial /\ age < Window

-----------------------------------------------------------------------------
(* Authorities.                                                            *)

LEMMA SoundAuthority ==
    ASSUME NEW active0 \in Certs \cup {None}
    PROVE  LET s == Authority(active0) IN
           /\ s \in Authorities /\ s.trial = None /\ s.active = active0
           /\ \A b, n, a, e : Past(s, e) => Sound(s, b, n, a, e)
<1>1. /\ Authority(active0) \in Authorities /\ Authority(active0).trial = None
      /\ Authority(active0).active = active0
    BY DEF Authority, Authorities
<1> QED
    BY <1>1 DEF Sound, Timely

\* TLSState: the authority, or the active certificate alone.
LEMMA StateSound ==
    ASSUME TrialOK
    PROVE  /\ Sound(TLSState, boot, ns, age, ever)
           /\ TLSState.active = tls.active
           /\ TLSState.trial # None => TLSState.trial # TLSState.active
           /\ Sound(Finish(tls, FALSE), boot, ns, age, ever)
           /\ Finish(tls, FALSE).trial = None /\ Finish(tls, FALSE).active = tls.active
<1> DEFINE f == Authority(tls.active)
<1>1. tls.active \in Certs \cup {None} /\ Sound(tls, boot, ns, age, ever)
    BY DEF TrialOK, Sound, Authorities
<1>2. f.trial = None /\ f.active = tls.active /\ (Past(f, ever) => Sound(f, boot, ns, age, ever))
    BY <1>1, SoundAuthority
<1>3. Finish(tls, FALSE) = f
    BY DEF Finish
<1> HIDE DEF f
<1>4. Sound(f, boot, ns, age, ever)
    BY <1>1, <1>2 DEF Sound, Past
<1>5. TLSState = f \/ TLSState = tls
    BY <1>3 DEF TLSState
<1> QED
    BY <1>1, <1>2, <1>3, <1>4, <1>5 DEF TrialOK

\* selectServing never offers more than the trial and what was active.
LEMMA SelectServes ==
    ASSUME NEW s, Sound(s, boot, ns, age, ever), BootCert \in ever, NEW loads
    PROVE  /\ Serves(Select(s, loads), boot, ns, age, ever)
           /\ ActiveOf(s) \in ever
<1>1. ActiveOf(s) \in ever
    BY DEF ActiveOf, Sound, Past
<1>2. /\ Select(s, loads).state = s /\ Select(s, loads).fallback = ActiveOf(s)
      /\ \/ Select(s, loads).id = ActiveOf(s)
         \/ Select(s, loads).id = s.trial /\ s.trial # None
    BY DEF Select
<1> QED
    BY <1>1, <1>2 DEF Serves

\* The same authorities later: time passes, or a new trial is younger.
LEMMA SoundLater ==
    ASSUME NEW b \in Nat, NEW n \in Nat, NEW a \in Nat,
           NEW n1 \in Nat, NEW a1 \in Nat, NEW e, NEW e1, e \subseteq e1,
           \/ n1 = n + 1 /\ a1 <= a + 1
           \/ n1 = n /\ a1 <= a,
           NEW s, Sound(s, b, n, a, e)
    PROVE  Sound(s, b, n1, a1, e1)
<1>1. s.started \in Nat /\ s \in Authorities /\ Past(s, e1)
    BY DEF Sound, Authorities, Past
<1>2. Timely(s, b, n1, a1)
    BY <1>1 DEF Sound, Timely
<1> QED
    BY <1>1, <1>2 DEF Sound

LEMMA SoundRebooted ==
    ASSUME NEW b \in Nat, NEW n, NEW a, NEW n1, NEW e, NEW s, Sound(s, b, n, a, e)
    PROVE  Sound(s, b + 1, n1, a, e)
<1>1. s.boot \in Nat
    BY DEF Sound, Authorities
<1> QED
    BY <1>1 DEF Sound, Timely

-----------------------------------------------------------------------------
(* Steps of the trial.                                                     *)

\* A step that leaves the trial alone.
LEMMA TrialStands ==
    ASSUME TrialOK, UNCHANGED trials, saved' = saved
    PROVE  TrialOK' /\ Confirmed
<1>1. UNCHANGED <<boot, ns, material, known, savedTls, tls, local, seen, serving, conn, ever, age>>
    BY DEF trials
<1>2. TrialOK'
    BY <1>1 DEF TrialOK
<1>3. Confirmed
    BY <1>1 DEF TrialOK, Confirmed
<1> QED
    BY <1>2, <1>3

LEMMA SavedStands ==
    ASSUME Commands \/ Flight \/ Sessions
    PROVE  saved' = saved
<1>1. ASSUME Commands
      PROVE  saved' = saved
    <2>1. \A c, u, rs : PrepareUser(c, u, rs) \/ PreparePassword(c, u) => saved' = saved
        BY DEF PrepareUser, PreparePassword, Prepare
    <2>2. \A c, u, rs, off : ChangeUser(c, u, rs, off) \/ DeleteUser(c, u) => saved' = saved
        BY DEF ChangeUser, DeleteUser, Execute
    <2>3. \A c, r, caps : CreateRole(c, caps) \/ ChangeRole(c, r, caps) => saved' = saved
        BY DEF CreateRole, ChangeRole, Execute
    <2>4. \A c, t, s : CreateToken(c, t, s) \/ RevokeToken(c, t) => saved' = saved
        BY DEF CreateToken, RevokeToken, Execute
    <2> QED
        BY <1>1, <2>1, <2>2, <2>3, <2>4 DEF Commands
<1>2. ASSUME Flight
      PROVE  saved' = saved
    <2>1. \A w : CreateUser(w) \/ ChangePassword(w) \/ Abandon(w) => saved' = saved
        BY DEF CreateUser, ChangePassword, Abandon, Execute
    <2>2. \A w : Authenticate(w) \/ SaveSession(w) \/ DropSession(w) => saved' = saved
        BY DEF Authenticate, SaveSession, DropSession
    <2>3. \A w : Reauthenticate(w) \/ DeleteSession(w) => saved' = saved
        BY DEF Reauthenticate, DeleteSession
    <2> QED
        BY <1>2, <2>1, <2>2, <2>3 DEF Flight
<1>3. ASSUME Sessions
      PROVE  saved' = saved
    BY <1>3 DEF Sessions, LoginRead, ReauthRead, RevokeAuth, ReadAuth
<1> QED
    BY <1>1, <1>2, <1>3

LEMMA PeopleKeep ==
    ASSUME Inv, Commands \/ Flight \/ Sessions, UNCHANGED trials
    PROVE  AccountsOK' /\ TrialOK' /\ Granted /\ Confirmed
<1>1. AccountsOK' /\ Granted
    BY CommandsKeep, FlightKeeps, SessionsKeep DEF Inv
<1>2. TrialOK' /\ Confirmed
    BY SavedStands, TrialStands DEF Inv
<1> QED
    BY <1>1, <1>2

LEMMA StageKeeps ==
    ASSUME Inv, NEW k \in Certs, Stage(k)
    PROVE  AccountsOK' /\ TrialOK' /\ Granted /\ Confirmed
<1>1. /\ Spend("certs") /\ material' = material \cup {k}
      /\ UNCHANGED <<now, db, saved, flight, cookies, used, ended>>
      /\ UNCHANGED <<boot, ns, known, savedTls, tls, local, seen, serving, conn, ever, age>>
    BY DEF Stage
<1>2. AccountsOK' /\ Granted
    BY <1>1, SpendType, TimeKeeps DEF Inv, AccountsOK
<1>3. saved' # None => Kept(savedTls', material', ever')
    BY <1>1 DEF Inv, TrialOK, Kept
<1>4. TrialOK'
    BY <1>1, <1>3 DEF Inv, TrialOK
<1>5. Confirmed
    BY <1>1 DEF Confirmed, Inv, TrialOK
<1> QED
    BY <1>2, <1>4, <1>5

LEMMA CreateCertificateKeeps ==
    ASSUME Inv, NEW c \in Creds, NEW k \in Certs, CreateCertificate(c, k)
    PROVE  AccountsOK' /\ TrialOK' /\ Granted /\ Confirmed
<1>1. /\ Spend("certs") /\ Execute(c, "access", db, {}) /\ k \in material
      /\ known' = known \cup {k}
      /\ UNCHANGED <<flight, boot, ns, material, savedTls, tls, local, seen, serving, conn, ever, age>>
    BY DEF CreateCertificate, Importable
<1>2. AccountsOK' /\ Granted
    BY <1>1, SpendType, SameTables DEF Inv, AccountsOK
<1>3. saved' = saved
    BY <1>1 DEF Execute
<1>4. TrialOK'
    BY <1>1, <1>3 DEF Inv, TrialOK
<1>5. Confirmed
    BY <1>1 DEF Confirmed, Inv, TrialOK
<1> QED
    BY <1>2, <1>4, <1>5

LEMMA ActivateCertificateKeeps ==
    ASSUME Inv, NEW c \in Creds, NEW k \in Certs, ActivateCertificate(c, k)
    PROVE  AccountsOK' /\ TrialOK' /\ Granted /\ Confirmed
<1> DEFINE s == [active |-> TLSState.active, trial |-> k, boot |-> boot,
                 started |-> ns, deadline |-> ns + Window, wall |-> now + Window]
<1>1. /\ Spend("certs") /\ Execute(c, "access", db, {}) /\ TLSState.active # k
      /\ tls' = s /\ age' = 0
      /\ UNCHANGED <<flight, boot, ns, material, known, savedTls, local, seen, serving, conn, ever>>
    BY DEF ActivateCertificate
<1>2. AccountsOK' /\ Granted
    BY <1>1, SpendType, SameTables DEF Inv, AccountsOK
<1>3. saved' = saved
    BY <1>1 DEF Execute
<1>4. /\ boot \in Nat /\ ns \in Nat /\ age \in Nat /\ now \in Nat /\ Window \in Nat
      /\ TLSState.active = tls.active /\ tls.active \in Certs \cup {None}
      /\ Past(tls, ever)
    BY TrialAssumption, StateSound DEF Inv, TrialOK, AccountsOK, Sound, Authorities
<1>5. /\ s \in Authorities /\ s.active = tls.active /\ s.trial = k /\ s.boot = boot
      /\ s.started = ns /\ s.deadline = ns + Window
    BY <1>4 DEF Authorities
<1> HIDE DEF s
<1>6. Sound(s, boot, ns, 0, ever)
    BY <1>4, <1>5 DEF Sound, Timely, Past
<1>7. \A x : Sound(x, boot, ns, age, ever) => Sound(x, boot, ns, 0, ever)
    BY <1>4, SoundLater
<1>8. Serves(serving, boot, ns, 0, ever)
    BY <1>7 DEF Inv, TrialOK, Serves
<1>9. TrialOK'
    BY <1>1, <1>3, <1>4, <1>5, <1>6, <1>7, <1>8, TrialAssumption DEF Inv, TrialOK
<1>10. Confirmed
    BY <1>1, <1>4, <1>5 DEF Confirmed, Inv, TrialOK
<1> QED
    BY <1>2, <1>9, <1>10

LEMMA ConfirmCertificateKeeps ==
    ASSUME Inv, NEW c \in Creds, NEW k \in Certs, ConfirmCertificate(c, k)
    PROVE  AccountsOK' /\ TrialOK' /\ Granted /\ Confirmed
<1> DEFINE s == Authority(k)
<1>1. /\ Spend("certs") /\ Execute(c, "access", db, {}) /\ tls.trial = k /\ conn = k
      /\ ~Expired(tls) /\ tls' = s /\ ever' = ever \cup {k}
      /\ UNCHANGED <<flight, boot, ns, material, known, savedTls, local, seen, serving, conn, age>>
    BY DEF ConfirmCertificate, Confirmable, Finish
<1>2. AccountsOK' /\ Granted
    BY <1>1, SpendType, SameTables DEF Inv, AccountsOK
<1>3. saved' = saved
    BY <1>1 DEF Execute
<1>4. /\ boot \in Nat /\ ns \in Nat /\ age \in Nat /\ ever \subseteq ever'
      /\ Sound(tls, boot, ns, age, ever) /\ k # None
    BY <1>1, TrialAssumption DEF Inv, TrialOK
<1>5. Sound(s, boot, ns, age, ever') /\ s.trial = None
    <2>1. s.active = k /\ s.trial = None /\ (Past(s, ever') => Sound(s, boot, ns, age, ever'))
        BY SoundAuthority
    <2> HIDE DEF s
    <2> QED
        BY <1>1, <2>1 DEF Past
<1> HIDE DEF s
<1>6. \A x : Sound(x, boot, ns, age, ever) => Sound(x, boot, ns, age, ever')
    BY <1>4, SoundLater
<1>7. Serves(serving, boot, ns, age, ever')
    BY <1>4, <1>6 DEF Inv, TrialOK, Serves
<1>8. saved # None => Kept(savedTls, material, ever')
    BY <1>4 DEF Inv, TrialOK, Kept, Past
<1>9. TrialOK'
    BY <1>1, <1>3, <1>4, <1>5, <1>6, <1>7, <1>8 DEF Inv, TrialOK
<1>10. age < Window
    BY <1>1, <1>4, TrialAssumption DEF Expired, Sound, Timely, Authorities
<1> QED
    BY <1>1, <1>2, <1>9, <1>10 DEF Confirmed

\* What the manager and ovs-webd do on their own.
LEMMA MaintainKeeps ==
    ASSUME Inv, MaintainTLS
    PROVE  AccountsOK' /\ TrialOK' /\ Granted /\ Confirmed
<1>1. /\ tls' = Finish(tls, FALSE) /\ UNCHANGED auths
      /\ UNCHANGED <<boot, ns, material, known, savedTls, local, seen, serving, conn, ever, age>>
    BY DEF MaintainTLS
<1>2. AccountsOK' /\ Granted
    BY <1>1, TimeKeeps DEF Inv, AccountsOK, auths
<1>3. TrialOK'
    BY <1>1, StateSound DEF Inv, TrialOK, auths
<1>4. Confirmed
    BY <1>1, StateSound DEF Confirmed, Inv, TrialOK
<1> QED
    BY <1>2, <1>3, <1>4

LEMMA SyncKeeps ==
    ASSUME Inv, NEW loads, Sync(loads)
    PROVE  AccountsOK' /\ TrialOK' /\ Granted /\ Confirmed
<1>1. /\ tls' = TLSState /\ local' = TLSState /\ seen' = TLSState
      /\ serving' = Select(TLSState, loads) /\ UNCHANGED auths
      /\ UNCHANGED <<boot, ns, material, known, savedTls, conn, ever, age>>
    BY DEF Sync
<1>2. AccountsOK' /\ Granted
    BY <1>1, TimeKeeps DEF Inv, AccountsOK, auths
<1>3. /\ Sound(TLSState, boot, ns, age, ever) /\ TLSState.active = tls.active
      /\ TLSState.trial # None => TLSState.trial # TLSState.active
    BY StateSound DEF Inv
<1>4. Serves(Select(TLSState, loads), boot, ns, age, ever)
    BY <1>3, SelectServes DEF Inv, TrialOK
<1>5. TrialOK'
    BY <1>1, <1>3, <1>4 DEF Inv, TrialOK, auths
<1>6. Confirmed
    BY <1>1, <1>3 DEF Confirmed, Inv, TrialOK
<1> QED
    BY <1>2, <1>5, <1>6

LEMMA HandshakeKeeps ==
    ASSUME Inv, Handshake
    PROVE  AccountsOK' /\ TrialOK' /\ Granted /\ Confirmed
<1>1. /\ UNCHANGED auths
      /\ UNCHANGED <<boot, ns, material, known, savedTls, tls, local, seen, serving, ever, age>>
    BY DEF Handshake
<1>2. AccountsOK' /\ Granted
    BY <1>1, TimeKeeps DEF Inv, AccountsOK, auths
<1>3. TrialOK' /\ Confirmed
    BY <1>1 DEF Confirmed, Inv, TrialOK, auths
<1> QED
    BY <1>2, <1>3

LEMMA RestartWebKeeps ==
    ASSUME Inv, NEW loads, RestartWeb(loads)
    PROVE  AccountsOK' /\ TrialOK' /\ Granted /\ Confirmed
<1>1. /\ Spend("faults") /\ serving' = Select(local, loads)
      /\ seen' \in {Authority(None), local} /\ flight' = {}
      /\ UNCHANGED <<db, saved, cookies, used, ended>>
      /\ UNCHANGED <<now, boot, ns, material, known, savedTls, tls, local, ever, age>>
    BY DEF RestartWeb, Serve, LoseFlight
<1>2. AccountsOK' /\ Granted
    BY <1>1, SpendType, TimeKeeps DEF Inv, AccountsOK
<1>3. Serves(Select(local, loads), boot, ns, age, ever)
    BY SelectServes DEF Inv, TrialOK
<1>4. Sound(Authority(None), boot, ns, age, ever)
    BY SoundAuthority DEF Past
<1>5. Sound(seen', boot, ns, age, ever)
    BY <1>1, <1>4 DEF Inv, TrialOK
<1>6. TrialOK' /\ Confirmed
    BY <1>1, <1>3, <1>5 DEF Confirmed, Inv, TrialOK
<1> QED
    BY <1>2, <1>6

LEMMA RebootKeeps ==
    ASSUME Inv, NEW loads, Reboot(loads)
    PROVE  AccountsOK' /\ TrialOK' /\ Granted /\ Confirmed
<1> DEFINE v == [id |-> ActiveOf(local), fallback |-> ActiveOf(local), state |-> local]
<1>1. /\ Spend("faults") /\ boot' = boot + 1 /\ ns' = 0 /\ serving' = v
      /\ seen' = local /\ flight' = {}
      /\ UNCHANGED <<db, saved, cookies, used, ended>>
      /\ UNCHANGED <<now, material, known, savedTls, tls, local, ever, age>>
    BY DEF Reboot, LoseFlight
<1>2. AccountsOK' /\ Granted
    BY <1>1, SpendType, TimeKeeps DEF Inv, AccountsOK
<1>3. boot \in Nat /\ Sound(local, boot, ns, age, ever) /\ Sound(tls, boot, ns, age, ever)
    BY DEF Inv, TrialOK
<1>4. Sound(local, boot + 1, 0, age, ever) /\ Sound(tls, boot + 1, 0, age, ever)
    BY <1>3, SoundRebooted
<1>5. Serves(v, boot + 1, 0, age, ever)
    <2>1. v.id \in ever /\ v.fallback \in ever /\ v.state = local
        BY <1>3, SelectServes DEF Inv, TrialOK
    <2> HIDE DEF v
    <2> QED
        BY <1>4, <2>1 DEF Serves
<1> HIDE DEF v
<1>6. 0 <= MaxNS
    BY TrialAssumption
<1>7. TrialOK' /\ Confirmed
    BY <1>1, <1>3, <1>4, <1>5, <1>6 DEF Confirmed, Inv, TrialOK
<1> QED
    BY <1>2, <1>7

LEMMA BackupAllKeeps ==
    ASSUME Inv, BackupAll
    PROVE  AccountsOK' /\ TrialOK' /\ Granted /\ Confirmed
<1> DEFINE v == [tls |-> tls, known |-> known]
<1>1. /\ Backup /\ savedTls' = v
      /\ UNCHANGED <<boot, ns, material, known, tls, local, seen, serving, conn, ever, age>>
    BY DEF BackupAll
<1>2. AccountsOK' /\ Granted
    BY <1>1, BackupKeeps DEF Inv
<1>3. Kept(v, material, ever)
    BY DEF Kept, Inv, TrialOK, Sound
<1> HIDE DEF v
<1>4. TrialOK' /\ Confirmed
    BY <1>1, <1>3 DEF Confirmed, Inv, TrialOK
<1> QED
    BY <1>2, <1>4

LEMMA RestoreAllKeeps ==
    ASSUME Inv, RestoreAll
    PROVE  AccountsOK' /\ TrialOK' /\ Granted /\ Confirmed
<1> DEFINE s == Authority(local.active)
           f == Authority(savedTls.tls.active)
<1>1. /\ Restore /\ tls' = (IF savedTls.tls.trial = None THEN savedTls.tls ELSE f)
      /\ known' = savedTls.known /\ local' = s /\ seen' = s
      /\ serving' = Select(s, material \cup {BootCert})
      /\ UNCHANGED <<boot, ns, material, savedTls, ever, age>>
    BY DEF RestoreAll, Finish
<1>2. saved # None /\ saved' = saved
    BY <1>1 DEF Restore
<1>3. AccountsOK' /\ db'.epoch # db.epoch
    BY <1>1, RestoreKeeps DEF Inv
<1>4. /\ Kept(savedTls, material, ever) /\ BootCert \in ever
      /\ Sound(local, boot, ns, age, ever)
    BY <1>2 DEF Inv, TrialOK
<1>5. /\ local.active \in Certs \cup {None} /\ savedTls.tls.active \in Certs \cup {None}
    BY <1>4 DEF Kept, Sound, Authorities
<1>6. s.active = local.active /\ f.active = savedTls.tls.active /\ f.trial = None
      /\ (Past(s, ever) => Sound(s, boot, ns, age, ever))
      /\ (Past(f, ever) => Sound(f, boot, ns, age, ever))
    BY <1>5, SoundAuthority
<1> HIDE DEF s, f
<1>7. Sound(s, boot, ns, age, ever) /\ Sound(f, boot, ns, age, ever)
    BY <1>4, <1>6 DEF Kept, Sound, Past
<1>8. /\ Sound(tls', boot, ns, age, ever) /\ tls'.trial = None
    BY <1>1, <1>4, <1>6, <1>7 DEF Kept, Sound, Timely
<1>9. Serves(Select(s, material \cup {BootCert}), boot, ns, age, ever)
    BY <1>4, <1>7, SelectServes
<1>10. known' \subseteq material
    BY <1>1, <1>4 DEF Kept
<1>11. TrialOK'
    BY <1>1, <1>2, <1>4, <1>7, <1>8, <1>9, <1>10 DEF Inv, TrialOK
<1> QED
    BY <1>3, <1>11 DEF Granted, Confirmed

LEMMA SetClockKeeps ==
    ASSUME Inv, NEW t \in 0..MaxTime, SetClock(t)
    PROVE  AccountsOK' /\ TrialOK' /\ Granted /\ Confirmed
<1>1. /\ Spend("clock") /\ now' = t /\ UNCHANGED trials
      /\ UNCHANGED <<db, saved, flight, cookies, used, ended>>
    BY DEF SetClock
<1>2. t \in Nat /\ t <= MaxTime
    BY AccountsAssumption
<1>3. AccountsOK' /\ Granted
    BY <1>1, <1>2, SpendType, TimeKeeps DEF Inv, AccountsOK
<1>4. TrialOK' /\ Confirmed
    BY <1>1, TrialStands DEF Inv
<1> QED
    BY <1>3, <1>4

LEMMA TickKeeps ==
    ASSUME Inv, Tick
    PROVE  AccountsOK' /\ TrialOK' /\ Granted /\ Confirmed
<1>1. /\ now < MaxTime /\ ns < MaxNS /\ now' = now + 1 /\ ns' = ns + 1
      /\ age' = Min({age + 1, Window})
      /\ UNCHANGED <<db, saved, flight, cookies, used, ended, left>>
      /\ UNCHANGED <<boot, material, known, savedTls, tls, local, seen, serving, conn, ever>>
    BY DEF Tick
<1>2. /\ now \in Nat /\ boot \in Nat /\ ns \in Nat /\ age \in Nat /\ age + 1 \in Nat
      /\ Window \in Nat /\ MaxTime \in Nat /\ MaxNS \in Nat
    BY TrialAssumption, AccountsAssumption DEF Inv, TrialOK, AccountsOK
<1>3. age' \in Nat /\ age' <= age + 1 /\ age' <= Window
    BY <1>1, <1>2, MaxMin
<1>4. AccountsOK' /\ Granted
    <2>1. now' \in Nat /\ now' <= MaxTime
        BY <1>1, <1>2
    <2> QED
        BY <1>1, <2>1, TimeKeeps DEF Inv, AccountsOK
<1>5. ns' \in Nat /\ ns' <= MaxNS
    BY <1>1, <1>2
<1>6. \A x : Sound(x, boot, ns, age, ever) => Sound(x, boot, ns', age', ever)
    <2>1. /\ \/ ns' = ns + 1 /\ age' <= age + 1
             \/ ns' = ns /\ age' <= age
          /\ ever \subseteq ever /\ age' \in Nat
        BY <1>1, <1>3
    <2> QED
        BY <1>2, <1>5, <2>1, SoundLater
<1>7. Serves(serving, boot, ns', age', ever)
    BY <1>6 DEF Inv, TrialOK, Serves
<1>8. TrialOK'
    BY <1>1, <1>3, <1>5, <1>6, <1>7 DEF Inv, TrialOK
<1>9. Confirmed
    BY <1>1 DEF Confirmed, Inv, TrialOK
<1> QED
    BY <1>4, <1>8, <1>9

-----------------------------------------------------------------------------
(* Key rotation.                                                           *)

\* The file a rotation creates is the one of the next version, and only when
\* there is no key in it: nothing is sealed with a version without a key.
LEMMA PrepareKeyKeeps ==
    ASSUME Inv, PrepareKey
    PROVE  Inv' /\ Granted /\ Confirmed
<1> DEFINE v == active + 1
           held == [next |-> v, done |-> {}]
<1>1. /\ Spend("keys") /\ Loadable /\ active < MaxKeys
      /\ torn' = (IF keys[v] = 0 THEN torn \cup {v} ELSE torn) /\ ring' = held
      /\ UNCHANGED <<keys, active, sealed>>
      /\ UNCHANGED <<now, db, saved, flight, cookies, used, ended, trials>>
    BY DEF PrepareKey, Offline, Created
<1>2. /\ keys \in [Version -> Nat] /\ active \in Version /\ torn = {}
      /\ sealed \in [Rows -> [version : Version, key : Nat \ {0}]]
      /\ \A row \in Rows : keys[sealed[row].version] = sealed[row].key
      /\ \A x \in 1..active : keys[x] # 0
    BY <1>1 DEF Inv, KeysOK, Opens, Loadable
<1>3. v \in Version
    BY <1>1, <1>2, KeysAssumption DEF Version
<1>4. torn' \subseteq {v} /\ (v \in torn' <=> keys[v] = 0)
    BY <1>1, <1>2
<1>5. /\ held \in [next : Version, done : SUBSET Rows] /\ held.next = v /\ held.done = {}
    BY <1>3
<1> HIDE DEF held, v
<1>6. \A row \in Rows : sealed[row].version \notin torn'
    <2>1. ASSUME NEW row \in Rows
          PROVE  sealed[row].version \notin torn'
        <3>1. keys[sealed[row].version] # 0
            BY <1>2
        <3> QED
            BY <1>4, <3>1
    <2> QED
        BY <2>1
<1>7. KeysOK'
    <2>1. torn' \subseteq Version /\ \A x \in torn' : x = v /\ keys[x] = 0
        BY <1>3, <1>4
    <2>2. ring' = held /\ keys' = keys /\ active' = active /\ sealed' = sealed
        BY <1>1
    <2>3. \A row \in Rows : Opens(row)'
        BY <1>2, <1>6, <2>2 DEF Opens
    <2> QED
        BY <1>2, <1>4, <1>5, <2>1, <2>2, <2>3 DEF KeysOK, v
<1>8. AccountsOK' /\ Granted
    BY <1>1, SpendType, TimeKeeps DEF Inv, AccountsOK
<1>9. TrialOK' /\ Confirmed
    BY <1>1, TrialStands DEF Inv
<1> QED
    BY <1>7, <1>8, <1>9 DEF Inv

LEMMA WriteKeyKeeps ==
    ASSUME Inv, WriteKey
    PROVE  KeysOK' /\ UNCHANGED <<auths, trials>>
<1>1. /\ ring # None /\ ring.next \in torn
      /\ keys' = [keys EXCEPT ![ring.next] = Random] /\ torn' = torn \ {ring.next}
      /\ UNCHANGED <<active, sealed, ring, auths, trials>>
    BY DEF WriteKey
<1>2. /\ keys \in [Version -> Nat] /\ active \in Version /\ torn \subseteq Version
      /\ sealed \in [Rows -> [version : Version, key : Nat \ {0}]]
      /\ \A row \in Rows : Opens(row)
      /\ \A x \in 1..active : keys[x] # 0
      /\ \A x \in torn : x = active + 1 /\ keys[x] = 0
      /\ ring \in [next : Version, done : SUBSET Rows]
      /\ ring.next = active + 1 /\ ring.next \in Version
    BY <1>1 DEF Inv, KeysOK
<1>3. Random \in Nat /\ Random # 0
    BY RandomType DEF Inv, AccountsOK
<1>4. keys' \in [Version -> Nat] /\ \A x \in Version : keys'[x] = IF x = ring.next THEN Random ELSE keys[x]
    BY <1>1, <1>2, <1>3
<1>5. torn' = {}
    BY <1>1, <1>2
<1>6. \A row \in Rows : Opens(row)'
    <2>1. ASSUME NEW row \in Rows
          PROVE  Opens(row)'
        <3>1. sealed[row].version \in Version /\ sealed[row].version # ring.next
            BY <1>1, <1>2 DEF Opens
        <3> QED
            BY <1>1, <1>2, <1>4, <1>5, <3>1 DEF Opens
    <2> QED
        BY <2>1
<1>7. \A x \in 1..active : keys'[x] # 0
    <2>1. \A x \in 1..active : x \in Version
        BY <1>2, KeysAssumption DEF Version
    <2> QED
        BY <1>2, <1>3, <1>4, <2>1
<1>8. keys'[ring.next] # 0
    BY <1>2, <1>3, <1>4
<1>9. /\ active' = active /\ sealed' = sealed /\ ring' = ring
    BY <1>1
<1> QED
    BY <1>1, <1>2, <1>4, <1>5, <1>6, <1>7, <1>8, <1>9 DEF KeysOK

LEMMA RewrapKeeps ==
    ASSUME Inv, NEW row \in Rows, Rewrap(row)
    PROVE  KeysOK' /\ UNCHANGED <<auths, trials>>
<1> DEFINE sl == [version |-> ring.next, key |-> keys[ring.next]]
           held == [ring EXCEPT !.done = @ \cup {row}]
<1>1. /\ ring # None /\ ring.next \notin torn
      /\ sealed' = [sealed EXCEPT ![row] = sl] /\ ring' = held
      /\ UNCHANGED <<keys, torn, active, auths, trials>>
    BY DEF Rewrap
<1>2. /\ keys \in [Version -> Nat] /\ active \in Version
      /\ sealed \in [Rows -> [version : Version, key : Nat \ {0}]]
      /\ \A r \in Rows : sealed[r].version \notin torn /\ keys[sealed[r].version] = sealed[r].key
      /\ ring \in [next : Version, done : SUBSET Rows] /\ ring.next \in Version
      /\ ring.next = active + 1 /\ keys[ring.next] # 0
    BY <1>1 DEF Inv, KeysOK, Opens
<1>3. /\ sl \in [version : Version, key : Nat \ {0}] /\ sl.version = ring.next
      /\ sl.key = keys[ring.next]
    BY <1>2
<1>4. held \in [next : Version, done : SUBSET Rows] /\ held.next = ring.next
    BY <1>2
<1> HIDE DEF sl, held
<1>5. /\ sealed' \in [Rows -> [version : Version, key : Nat \ {0}]]
      /\ \A r \in Rows : sealed'[r] = IF r = row THEN sl ELSE sealed[r]
    BY <1>1, <1>2, <1>3
<1>6. \A r \in Rows : Opens(r)'
    BY <1>1, <1>2, <1>3, <1>5 DEF Opens
<1>7. KeysOK'
    BY <1>1, <1>2, <1>4, <1>5, <1>6 DEF Inv, KeysOK
<1> QED
    BY <1>1, <1>7

LEMMA ActivateKeysKeeps ==
    ASSUME Inv, ActivateKeys
    PROVE  KeysOK' /\ UNCHANGED <<auths, trials>>
<1>1. /\ ring # None /\ ring.done = Rows /\ active' = ring.next /\ ring' = None
      /\ UNCHANGED <<keys, torn, sealed, auths, trials>>
    BY DEF ActivateKeys
<1>2. ring.done # {}
    BY <1>1 DEF Rows
<1>3. /\ active \in Version /\ ring.next \in Version /\ ring.next = active + 1
      /\ keys[ring.next] # 0 /\ \A x \in 1..active : keys[x] # 0
      /\ active \in Nat /\ torn = {}
    BY <1>1, <1>2 DEF Inv, KeysOK, Version
<1>4. \A x \in 1..(active + 1) : keys[x] # 0
    <2>1. \A x \in 1..(active + 1) : x \in 1..active \/ x = active + 1
        BY <1>3
    <2> QED
        BY <1>3, <2>1
<1> QED
    BY <1>1, <1>3, <1>4 DEF Inv, KeysOK, Opens

LEMMA RotationKeeps ==
    ASSUME Inv, Rotation
    PROVE  Inv' /\ Granted /\ Confirmed
<1>1. ASSUME KeysOK', UNCHANGED <<auths, trials>>
      PROVE  Inv' /\ Granted /\ Confirmed
    <2>1. AccountsOK' /\ Granted
        BY <1>1, TimeKeeps DEF Inv, AccountsOK, auths
    <2>2. TrialOK' /\ Confirmed
        BY <1>1, TrialStands DEF Inv, auths
    <2> QED
        BY <1>1, <2>1, <2>2 DEF Inv
<1>2. CASE RotationDies
    <2>1. KeysOK'
        BY <1>2 DEF RotationDies, Inv, KeysOK, Opens
    <2> QED
        BY <1>1, <1>2, <2>1 DEF RotationDies
<1> QED
    BY <1>1, <1>2, PrepareKeyKeeps, WriteKeyKeeps, RewrapKeeps, ActivateKeysKeeps DEF Rotation

-----------------------------------------------------------------------------
(* The whole of Access.                                                    *)

LEMMA InitInv == Init => Inv
<1> SUFFICES ASSUME Init PROVE Inv
    OBVIOUS
<1>1. AccountsOK
    BY AccountsStart DEF Init
<1>2. TrialOK
    <2>1. /\ boot = 0 /\ ns = 0 /\ material = Imported /\ known = Imported
          /\ tls = Authority(None) /\ local = Authority(None) /\ seen = Authority(None)
          /\ serving = Select(Authority(None), {BootCert}) /\ ever = {BootCert}
          /\ age = Window /\ saved = None
        BY DEF Init, TrialInit, AccountsInit
    <2>2. Sound(Authority(None), boot, ns, age, ever) /\ Authority(None).trial = None
        BY SoundAuthority DEF Past
    <2>3. Serves(Select(Authority(None), {BootCert}), boot, ns, age, ever)
        BY <2>1, <2>2, SelectServes
    <2> QED
        BY <2>1, <2>2, <2>3, TrialAssumption DEF TrialOK
<1>3. KeysOK
    <2>1. 1 \in Version /\ 1..1 = {1}
        BY KeysAssumption DEF Version
    <2>2. /\ keys = [v \in Version |-> IF v = 1 THEN 1 ELSE 0] /\ active = 1
          /\ sealed = [row \in Rows |-> [version |-> 1, key |-> 1]] /\ ring = None
          /\ torn = {}
        BY DEF Init
    <2>3. keys \in [Version -> Nat] /\ keys[1] = 1
        BY <2>1, <2>2
    <2>4. /\ sealed \in [Rows -> [version : Version, key : Nat \ {0}]]
          /\ \A row \in Rows : sealed[row].version = 1 /\ sealed[row].key = 1
        BY <2>1, <2>2
    <2> QED
        BY <2>1, <2>2, <2>3, <2>4 DEF KeysOK, Opens
<1> QED
    BY <1>1, <1>2, <1>3 DEF Inv

LEMMA DaemonsKeep ==
    ASSUME Inv, Daemons
    PROVE  AccountsOK' /\ TrialOK' /\ Granted /\ Confirmed
<1>1. \A c \in Issued : c \in Creds
    BY DEF Issued
<1>2. CASE (Commands /\ UNCHANGED trials) \/ (Flight /\ UNCHANGED trials)
           \/ (Sessions /\ UNCHANGED trials)
    BY <1>2, PeopleKeep
<1>3. CASE \E k \in Certs :
              \/ Stage(k)
              \/ \E c \in Issued : \/ CreateCertificate(c, k)
                                   \/ ActivateCertificate(c, k)
                                   \/ ConfirmCertificate(c, k)
    BY <1>1, <1>3, StageKeeps, CreateCertificateKeeps, ActivateCertificateKeeps,
       ConfirmCertificateKeeps
<1>4. CASE \E loads \in Loads : Sync(loads) \/ RestartWeb(loads) \/ Reboot(loads)
    BY <1>4, SyncKeeps, RestartWebKeeps, RebootKeeps
<1>5. CASE MaintainTLS \/ Handshake \/ BackupAll \/ RestoreAll
    BY <1>5, MaintainKeeps, HandshakeKeeps, BackupAllKeeps, RestoreAllKeeps
<1>6. CASE \E t \in 0..MaxTime : t # now /\ SetClock(t)
    BY <1>6, SetClockKeeps
<1> QED
    BY <1>2, <1>3, <1>4, <1>5, <1>6 DEF Daemons, WebDaemon

LEMMA KeysStand ==
    ASSUME KeysOK, UNCHANGED rotations
    PROVE  KeysOK'
BY DEF rotations, KeysOK, Opens

LEMMA NextInv ==
    ASSUME Inv, [Next]_vars
    PROVE  Inv' /\ (UNCHANGED vars \/ (Granted /\ Confirmed))
<1>1. CASE ring = None /\ Daemons /\ UNCHANGED rotations
    BY <1>1, DaemonsKeep, KeysStand DEF Inv
<1>2. CASE Tick /\ UNCHANGED rotations
    BY <1>2, TickKeeps, KeysStand DEF Inv
<1>3. CASE Rotation
    BY <1>3, RotationKeeps
<1>4. CASE UNCHANGED vars
    <2>1. UNCHANGED auths /\ UNCHANGED trials /\ UNCHANGED rotations
        BY <1>4 DEF vars
    <2>2. AccountsOK'
        BY <2>1, TimeKeeps DEF Inv, AccountsOK, auths
    <2>3. TrialOK'
        BY <2>1, TrialStands DEF Inv, auths
    <2> QED
        BY <1>4, <2>1, <2>2, <2>3, KeysStand DEF Inv
<1> QED
    BY <1>1, <1>2, <1>3, <1>4 DEF Next

LEMMA Inductive == Spec => []Inv
<1>1. Init => Inv
    BY InitInv
<1>2. Inv /\ [Next]_vars => Inv'
    BY NextInv
<1> QED
    BY <1>1, <1>2, PTL DEF Spec

(***************************************************************************)
(* Types of manager.db, of the trial and of the key files after every step *)
(* of the daemons and of a rotation: TypeOK is an invariant.               *)
(***************************************************************************)
THEOREM AccessTypes == Spec => []TypeOK
<1>1. Inv => TypeOK
    <2> SUFFICES ASSUME Inv PROVE TypeOK
        OBVIOUS
    <2>1. now \in 0..MaxTime /\ ns \in 0..MaxNS /\ age \in 0..Window
        BY TrialAssumption, AccountsAssumption DEF Inv, AccountsOK, TrialOK
    <2>2. db \in AuthTables /\ saved \in AuthTables \cup {None} /\ left \in Budget
        BY DEF Inv, AccountsOK, TablesOK, Good
    <2>3. \A c \in Creds : db.creds[c] # None =>
              /\ c \in used
              /\ db.users[db.creds[c].owner] # None
              /\ db.creds[c].elevated <= db.creds[c].expiry
        BY DEF Inv, AccountsOK, TablesOK, Good, Wired
    <2>4. cookies \subseteq used /\ ended \subseteq used
        BY DEF Inv, AccountsOK, TablesOK
    <2>5. known \subseteq material /\ {tls, local, seen} \subseteq Authorities
        BY DEF Inv, TrialOK, Sound
    <2>6. keys \in [Version -> Nat] /\ torn \subseteq Version /\ active \in Version
        BY DEF Inv, KeysOK
    <2> QED
        BY <2>1, <2>2, <2>3, <2>4, <2>5, <2>6 DEF TypeOK
<1> QED
    BY <1>1, Inductive, PTL

(***************************************************************************)
(* A grant that works was opened with the password its owner has now,      *)
(* whatever login, reauthentication and password change were in flight     *)
(* (claims and authenticate of repository/auth).                           *)
(***************************************************************************)
THEOREM PasswordsCurrent == Spec => []PasswordCurrent
<1>1. Inv => PasswordCurrent
    BY DEF Inv, AccountsOK, TablesOK, Good, Valid, PasswordCurrent, Live, Standing
<1> QED
    BY <1>1, Inductive, PTL

(***************************************************************************)
(* A credential that was ended once never works again, not after its owner *)
(* is enabled again and not after a restore (PrepareRestore of manager.db).*)
(***************************************************************************)
THEOREM EndedStaysEnded == Spec => []EndedForGood
<1>1. Inv => EndedForGood
    BY DEF Inv, AccountsOK, TablesOK, Over, EndedForGood, Live, Standing
<1> QED
    BY <1>1, Inductive, PTL

(***************************************************************************)
(* lastAdministrator keeps an enabled principal with a password and all    *)
(* capabilities, through every command and every restore.                  *)
(***************************************************************************)
THEOREM AdministratorStays == Spec => []AdministratorRemains
<1>1. Inv => AdministratorRemains
    BY DEF Inv, AccountsOK, TablesOK, LastAdministrator, AdministratorRemains
<1> QED
    BY <1>1, Inductive, PTL

(***************************************************************************)
(* A certificate that was never confirmed is offered only while less than  *)
(* the recovery window has passed since its activation (GetCertificate).   *)
(***************************************************************************)
THEOREM TrialsEnd == Spec => []TrialEnds
<1>1. Inv => TrialEnds
    <2> SUFFICES ASSUME Inv PROVE TrialEnds
        OBVIOUS
    <2>1. /\ Sound(serving.state, boot, ns, age, ever) /\ serving.fallback \in ever
          /\ serving.id \in ever \/ (serving.id = serving.state.trial /\ serving.id # None)
        BY DEF Inv, TrialOK, Serves
    <2>2. CASE Expired(serving.state)
        BY <2>1, <2>2 DEF TrialEnds, Presented
    <2>3. CASE ~Expired(serving.state) /\ serving.id \in ever
        BY <2>3 DEF TrialEnds, Presented
    <2>4. CASE ~Expired(serving.state) /\ serving.state.trial # None
        <3>1. /\ boot = serving.state.boot /\ serving.state.started <= ns
              /\ age <= ns - serving.state.started
              /\ ns < serving.state.started + Window
            BY <2>1, <2>4, TrialAssumption DEF Expired, Sound, Timely, Authorities, Inv, TrialOK
        <3>2. serving.state.started \in Nat /\ ns \in Nat /\ age \in Nat /\ Window \in Nat
            BY <2>1, TrialAssumption DEF Sound, Authorities, Inv, TrialOK
        <3>3. age < Window
            BY <3>1, <3>2
        <3> QED
            BY <3>3 DEF TrialEnds
    <2> QED
        BY <2>1, <2>2, <2>3, <2>4
<1> QED
    BY <1>1, Inductive, PTL

(***************************************************************************)
(* Every sealed row has the whole key file that opens it, however often a  *)
(* rotation (ovs-webd -rotate-secret-key) is interrupted and repeated, and *)
(* only the half-written file of the next version, which seals nothing,    *)
(* can keep the keys from being loaded (PrepareKey, KeyFile, LoadKeys).    *)
(***************************************************************************)
THEOREM KeysAlwaysOpen == Spec => []KeysOpenRows
<1>1. Inv => KeysOpenRows
    <2> SUFFICES ASSUME KeysOK PROVE KeysOpenRows
        BY DEF Inv
    <2>1. \A row \in Rows : Opens(row)
        BY DEF KeysOK
    <2>2. Loadable \/ torn = {active + 1}
        BY DEF KeysOK, Loadable
    <2> QED
        BY <2>1, <2>2 DEF KeysOpenRows
<1> QED
    BY <1>1, Inductive, PTL

(***************************************************************************)
(* Nobody hands out more than they have: whoever gains a capability gains  *)
(* it from an elevated session that holds it (roleAssignment, roleCaps).   *)
(***************************************************************************)
THEOREM NobodyEscalates == Spec => NoEscalation
<1>1. Inv /\ [Next]_vars =>
        [db'.epoch = db.epoch =>
            \A u \in Users : Gained(u) # {} =>
                \E c \in Issued : /\ CheckOperation(c, "access")
                                  /\ Gained(u) \subseteq Effective(db, c)]_vars
    BY NextInv DEF Granted
<1> QED
    BY <1>1, Inductive, PTL DEF Spec, NoEscalation

(***************************************************************************)
(* A certificate becomes active only when it is confirmed over itself and  *)
(* within its window (ConfirmCertificate), unless a backup comes back.     *)
(***************************************************************************)
THEOREM ConfirmationInWindow == Spec => ConfirmedInWindow
<1>1. Inv /\ [Next]_vars =>
        [tls.trial # None /\ tls'.active = tls.trial /\ db'.epoch = db.epoch
            => conn = tls.trial /\ age < Window]_vars
    BY NextInv DEF Confirmed
<1> QED
    BY <1>1, Inductive, PTL DEF Spec, ConfirmedInWindow
=============================================================================
