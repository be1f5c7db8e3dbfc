------------------------------ MODULE Accounts ------------------------------
(***************************************************************************)
(* Accounts of the management plane: principals, roles, grants of browser  *)
(* sessions and API tokens in manager.db, the commands that change them,   *)
(* and the session rows ovs-webd keeps beside them                         *)
(* (src/internal/repository/auth, src/internal/repository/sessions,        *)
(* src/internal/web/auth.go).                                              *)
(*                                                                         *)
(* A mutation runs under the one security gate and in one transaction, so  *)
(* it is one step.  What is not atomic is the password work: a login, a    *)
(* reauthentication and a command with a new password read the database,   *)
(* leave it for the verifier, and come back later.  Those stand in flight. *)
(***************************************************************************)
EXTENDS Integers, FiniteSets, FiniteSetsExt

CONSTANTS None,        \* no value
          Users,       \* principal names
          Root,        \* the principal made by the local bootstrap
          Deputy,      \* a second principal that exists from the start
          Creds,       \* grants and tokens that can be issued
          First,       \* the grant of Root that is open at the start
          Idle,        \* authn.SessionIdle
          Absolute,    \* authn.SessionAbsolute
          Elevation,   \* authn.Elevation
          MaxGrants,   \* authn.MaxGrants
          MaxTime,     \* bound of the wall clock
          Budgets      \* the mixes of operations a behaviour may consist of

\* Canonical capability codes, one for each kind of check made below:
\* access.users, roles and tls management, access.tokens.self, and the rest.
Capability == {"access", "tokens", "network"}

\* The role templates that matter here, and one role that can be created.
Roles == {"Administrator", "SecurityAdmin", "custom"}

Template == [r \in Roles |-> CASE r = "Administrator" -> Capability
                               [] r = "SecurityAdmin" -> {"access", "tokens"}
                               [] r = "custom" -> {}]

\* The rows of the auth tables.
UserRow == [pw : Nat, disabled : BOOLEAN, roles : SUBSET Roles, rev : Nat]

CredRow ==
    [owner : Users, kind : {"grant", "token"}, pw : Nat, epoch : Nat,
     ceiling : SUBSET Capability, issued : Nat, last : Nat, expiry : Nat,
     elevated : Nat, revoked : BOOLEAN]

AuthTables ==
    [users : [Users -> UserRow \cup {None}],
     roles : [Roles -> (SUBSET Capability) \cup {None}],
     creds : [Creds -> CredRow \cup {None}],
     epoch : Nat, high : Nat]

Budget == [people : Nat, certs : Nat, faults : Nat, clock : Nat, keys : Nat]

ASSUME AccountsAssumption ==
    /\ {Root, Deputy} \subseteq Users /\ Root # Deputy /\ First \in Creds
    /\ \A n \in {Idle, Absolute, Elevation, MaxGrants, MaxTime} : n \in Nat
    /\ Elevation <= Absolute
    /\ Budgets \subseteq Budget
    /\ None \notin UserRow /\ None \notin CredRow /\ None \notin AuthTables
    /\ \A caps \in SUBSET Capability : caps # None

VARIABLES now,      \* wall clock
          db,       \* the auth tables of manager.db
          saved,    \* a backup of them
          flight,   \* password work and web work between two transactions
          cookies,  \* grants with a browser_sessions row in web.db
          used,     \* history: credentials ever issued
          ended,    \* history: credentials that were ended once
          left      \* operations of each group that may still happen

auths == <<now, db, saved, flight, cookies, used, ended, left>>

Grant(owner, pw, epoch, ceiling) ==
    [owner |-> owner, kind |-> "grant", pw |-> pw, epoch |-> epoch,
     ceiling |-> ceiling, issued |-> now, last |-> now,
     expiry |-> now + Absolute, elevated |-> 0, revoked |-> FALSE]

User(pw, roles) == [pw |-> pw, disabled |-> FALSE, roles |-> roles, rev |-> 0]

(***************************************************************************)
(* Bootstrap has run, Root has made a deputy and is logged in and elevated.*)
(***************************************************************************)
Bootstrap ==
    [users |-> [u \in Users |-> CASE u = Root -> User(1, {"Administrator"})
                                  [] u = Deputy -> User(1, {"SecurityAdmin"})
                                  [] OTHER -> None],
     roles |-> [r \in Roles |-> IF r = "custom" THEN None ELSE Template[r]],
     creds |-> [c \in Creds |->
                  IF c = First
                  THEN [Grant(Root, 1, 0, Capability) EXCEPT !.elevated = Elevation]
                  ELSE None],
     epoch |-> 0, high |-> 0]

CapsOf(d, u) == UNION {d.roles[r] : r \in d.users[u].roles}

(***************************************************************************)
(* claims: what a credential is worth against database d, at this moment.  *)
(***************************************************************************)
ClockSafe(d) == now >= d.high

Standing(d, c) ==
    /\ d.creds[c] # None
    /\ ~d.users[d.creds[c].owner].disabled
    /\ ~d.creds[c].revoked
    /\ d.creds[c].epoch = d.epoch

Live(d, c) ==
    /\ Standing(d, c)
    /\ ClockSafe(d)
    /\ d.creds[c].issued <= now
    /\ now < d.creds[c].expiry
    /\ d.creds[c].kind = "grant" => now < d.creds[c].last + Idle

Effective(d, c) == CapsOf(d, d.creds[c].owner) \cap d.creds[c].ceiling

Elevated(d, c) == d.creds[c].kind = "grant" /\ d.creds[c].elevated > now

IsGrant(c) == Live(db, c) /\ db.creds[c].kind = "grant"

\* A browser reaches its grant through its session row only.
Presents(c) ==
    /\ Live(db, c)
    /\ db.creds[c].kind = "grant" => c \in cookies

\* CheckAuth: the advisory check before password work.
CheckAuth(c, cap) == Presents(c) /\ cap \in Effective(db, c)

\* checkOperation with elevation, as a security command asks for it.
CheckOperation(c, cap) == CheckAuth(c, cap) /\ Elevated(db, c)

Touch(d, c) ==
    [d EXCEPT !.creds[c].last = now, !.high = Max({d.high, now})]

(***************************************************************************)
(* lastAdministrator, on the tables as the command leaves them.            *)
(***************************************************************************)
Administers(d, u) ==
    /\ d.users[u] # None
    /\ ~d.users[u].disabled
    /\ d.users[u].pw # 0
    /\ Capability \subseteq CapsOf(d, u)

\* Seeded fault: the check runs on the tables before the mutation.
BugLastAdministrator(d) == \E u \in Users : Administers(db, u)

LastAdministrator(d) == \E u \in Users : Administers(d, u)

\* Credentials that are ended in d, for whatever reason but time.
Ended(d) == {c \in used' : ~Standing(d, c)}

Becomes(d) ==
    /\ db' = d
    /\ ended' = ended \cup Ended(d)

\* Bounds: each operation is taken from the budget of its group.
Spend(group) == left[group] > 0 /\ left' = [left EXCEPT ![group] = @ - 1]

\* A number no earlier operation had, for what is generated at random.
Random == 2 + left.people + left.certs + left.faults + left.clock + left.keys

\* The common frame of ExecuteAuth: authorize in the transaction, mutate,
\* keep an administrator, touch the credential.
Execute(c, cap, d, issued) ==
    /\ CheckOperation(c, cap)
    /\ LastAdministrator(d)
    /\ used' = used \cup issued
    /\ Becomes(Touch(d, c))
    /\ UNCHANGED <<now, saved, cookies>>

\* invalidatePrincipal
Invalidate(d, u) ==
    [d EXCEPT !.creds = [c \in Creds |->
        IF d.creds[c] # None /\ d.creds[c].owner = u
        THEN [d.creds[c] EXCEPT !.revoked = TRUE] ELSE d.creds[c]]]

\* Seeded fault: a role may be assigned whatever its capabilities.
BugRoleAssignment(c, roles) == \A r \in roles : db.roles[r] # None

RoleAssignment(c, roles) ==
    \A r \in roles : db.roles[r] # None /\ db.roles[r] \subseteq Effective(db, c)

Exists(u) == db.users[u] # None

Revised(d, u) == [d EXCEPT !.users[u].rev = @ + 1]
-----------------------------------------------------------------------------
(***************************************************************************)
(* Commands with a new password: check, hash outside the gate, execute.    *)
(***************************************************************************)
Prepare(c, work) ==
    /\ Spend("people")
    /\ CheckAuth(c, "access")
    /\ flight' = flight \cup {work}
    /\ UNCHANGED <<now, db, saved, cookies, used, ended>>

PrepareUser(c, u, roles) ==
    Prepare(c, [op |-> "createUser", cred |-> c, user |-> u, roles |-> roles,
                pw |-> Random])

CreateUser(w) ==
    /\ w.op = "createUser"
    /\ ~Exists(w.user)
    /\ RoleAssignment(w.cred, w.roles)
    /\ Execute(w.cred, "access", [db EXCEPT !.users[w.user] = User(w.pw, w.roles)], {})
    /\ flight' = flight \ {w}
    /\ UNCHANGED left

\* The request carries the revision (If-Match) its sender had read.
PreparePassword(c, u) ==
    /\ Exists(u)
    /\ Prepare(c, [op |-> "changePassword", cred |-> c, user |-> u,
                   rev |-> db.users[u].rev, pw |-> Random])

ChangePassword(w) ==
    /\ w.op = "changePassword"
    /\ db.users[w.user].rev = w.rev
    /\ Execute(w.cred, "access",
               Revised(Invalidate([db EXCEPT !.users[w.user].pw = w.pw],
                                  w.user), w.user), {})
    /\ flight' = flight \ {w}
    /\ UNCHANGED left

\* The other end of any of them: refused, timed out, or its caller is gone.
Abandon(w) ==
    /\ w.op # "save"
    /\ flight' = flight \ {w}
    /\ UNCHANGED <<now, db, saved, cookies, used, ended, left>>
-----------------------------------------------------------------------------
(***************************************************************************)
(* Commands that need no password work.                                    *)
(***************************************************************************)
\* Seeded fault: disabling a user leaves its credentials in place.
BugDisabled(d, u, off) == [d EXCEPT !.users[u].disabled = off]

Disabled(d, u, off) ==
    LET set == [d EXCEPT !.users[u].disabled = off]
    IN IF off THEN Invalidate(set, u) ELSE set

ChangeUser(c, u, roles, off) ==
    /\ Spend("people")
    /\ Exists(u)
    /\ RoleAssignment(c, roles)
    /\ Execute(c, "access",
               Revised(Disabled([db EXCEPT !.users[u].roles = roles], u, off), u), {})
    /\ UNCHANGED flight

DeleteUser(c, u) ==
    /\ Spend("people")
    /\ Exists(u)
    /\ Execute(c, "access",
               Revised(Invalidate([db EXCEPT !.users[u] =
                          [@ EXCEPT !.pw = 0, !.disabled = TRUE, !.roles = {}]], u), u), {})
    /\ UNCHANGED flight

CreateRole(c, caps) ==
    /\ Spend("people")
    /\ db.roles["custom"] = None
    /\ caps \subseteq Effective(db, c)
    /\ Execute(c, "access", [db EXCEPT !.roles["custom"] = caps], {})
    /\ UNCHANGED flight

ChangeRole(c, r, caps) ==
    /\ Spend("people")
    /\ db.roles[r] # None
    /\ caps \subseteq Effective(db, c)
    /\ Execute(c, "access", [db EXCEPT !.roles[r] = caps], {})
    /\ UNCHANGED flight

Fresh == Creds \ used

CreateToken(c, t, scopes) ==
    /\ Spend("people")
    /\ t = CHOOSE f \in Fresh : TRUE
    /\ scopes \subseteq Effective(db, c)
    /\ Execute(c, "tokens",
               [db EXCEPT !.creds[t] =
                  [Grant(db.creds[c].owner, 0, db.epoch, scopes)
                     EXCEPT !.kind = "token", !.last = 0]], {t})
    /\ UNCHANGED flight

RevokeToken(c, t) ==
    /\ Spend("people")
    /\ db.creds[t] # None
    /\ db.creds[t].kind = "token"
    /\ db.creds[t].owner = db.creds[c].owner \/ "access" \in Effective(db, c)
    /\ Execute(c, "tokens", [db EXCEPT !.creds[t].revoked = TRUE], {})
    /\ UNCHANGED flight
-----------------------------------------------------------------------------
(***************************************************************************)
(* Login, reauthentication and logout.  The password presented is the one  *)
(* the verifier was made from; any other ends without effect.              *)
(***************************************************************************)
LoginRead(u) ==
    /\ Spend("people")
    /\ Exists(u)
    /\ ~db.users[u].disabled
    /\ db.users[u].pw # 0
    /\ ClockSafe(db)
    /\ flight' = flight \cup {[op |-> "login", user |-> u, pw |-> db.users[u].pw]}
    /\ UNCHANGED <<now, db, saved, cookies, used, ended>>

\* Seeded fault: the verifier is not compared again in the transaction.
BugUnchanged(u, pw) == ~db.users[u].disabled

Unchanged(u, pw) == ~db.users[u].disabled /\ db.users[u].pw = pw

Open == {c \in Creds : /\ db.creds[c] # None
                       /\ db.creds[c].kind = "grant"
                       /\ ~db.creds[c].revoked
                       /\ now < db.creds[c].expiry}

Authenticate(w) ==
    /\ w.op = "login"
    /\ Unchanged(w.user, w.pw)
    /\ ClockSafe(db)
    /\ Cardinality(Open) < MaxGrants
    /\ Fresh # {}
    /\ LET c == CHOOSE f \in Fresh : TRUE
       IN /\ used' = used \cup {c}
          /\ Becomes([db EXCEPT !.creds[c] = Grant(w.user, w.pw, db.epoch,
                                                   CapsOf(db, w.user)),
                                !.high = Max({db.high, now})])
          /\ flight' = (flight \ {w}) \cup {[op |-> "save", cred |-> c]}
    /\ UNCHANGED <<now, saved, cookies, left>>

\* createSession in ovs-webd: the row, and the cookie goes out.
SaveSession(w) ==
    /\ w.op = "save"
    /\ cookies' = cookies \cup {w.cred}
    /\ flight' = flight \ {w}
    /\ UNCHANGED <<now, db, saved, used, ended, left>>

Revoked(c) == [db EXCEPT !.creds[c].revoked = TRUE, !.high = Max({db.high, now})]

\* The row could not be written: the grant nobody will hold is revoked, if
\* the manager can still be asked.
DropSession(w) ==
    /\ w.op = "save"
    /\ flight' = flight \ {w}
    /\ used' = used
    /\ \/ Live(db, w.cred) /\ Becomes(Revoked(w.cred))
       \/ UNCHANGED <<db, ended>>
    /\ UNCHANGED <<now, saved, cookies, left>>

ReauthRead(c) ==
    /\ Spend("people")
    /\ IsGrant(c) /\ c \in cookies
    /\ flight' = flight \cup {[op |-> "reauth", cred |-> c,
                               pw |-> db.users[db.creds[c].owner].pw]}
    /\ UNCHANGED <<now, db, saved, cookies, used, ended>>

Reauthenticate(w) ==
    /\ w.op = "reauth"
    /\ Live(db, w.cred)
    /\ Unchanged(db.creds[w.cred].owner, w.pw)
    /\ used' = used
    /\ Becomes(Touch([db EXCEPT !.creds[w.cred].elevated =
                        Min({now + Elevation, db.creds[w.cred].expiry})], w.cred))
    /\ flight' = flight \ {w}
    /\ UNCHANGED <<now, saved, cookies, left>>

\* deleteSession: the grant first, then the row.
RevokeAuth(c) ==
    /\ Spend("people")
    /\ IsGrant(c) /\ c \in cookies
    /\ used' = used
    /\ Becomes(Revoked(c))
    /\ flight' = flight \cup {[op |-> "forget", cred |-> c]}
    /\ UNCHANGED <<now, saved, cookies>>

DeleteSession(w) ==
    /\ w.op = "forget"
    /\ cookies' = cookies \ {w.cred}
    /\ flight' = flight \ {w}
    /\ UNCHANGED <<now, db, saved, used, ended, left>>

\* A read checks the credential and refreshes its idle time.
ReadAuth(c) ==
    /\ Presents(c)
    /\ db.creds[c].last # now
    /\ used' = used
    /\ Becomes(Touch(db, c))
    /\ UNCHANGED <<now, saved, flight, cookies, left>>
-----------------------------------------------------------------------------
Backup ==
    /\ Spend("faults")
    /\ saved = None
    /\ saved' = db
    /\ UNCHANGED <<now, db, flight, cookies, used, ended>>

\* PrepareRestore of manager.db.
RestoredCreds(creds) ==
    [c \in Creds |-> IF creds[c] = None THEN None
                     ELSE [creds[c] EXCEPT !.revoked = TRUE, !.elevated = 0]]

Restored(d) ==
    [d EXCEPT !.creds = RestoredCreds(d.creds), !.epoch = db.epoch + 1, !.high = now]

\* Both daemons are stopped; each database is prepared on its own.
Restore ==
    /\ Spend("faults")
    /\ saved # None
    /\ used' = used
    /\ Becomes(Restored(saved))
    /\ flight' = {}
    /\ cookies' = {}
    /\ UNCHANGED <<now, saved>>

\* A daemon dies: what was in flight is gone.
LoseFlight ==
    /\ flight' = {}
    /\ UNCHANGED <<db, saved, cookies, used, ended>>
-----------------------------------------------------------------------------
RoleSets == {{"Administrator"}, {"SecurityAdmin"}, {"custom"}}
CapSets == {Capability, {"access", "network"}, {"tokens"}}

Issued == {c \in Creds : db.creds[c] # None}

Commands ==
    \E c \in Issued :
        \/ \E u \in Users :
              \/ \E rs \in RoleSets : ~Exists(u) /\ PrepareUser(c, u, rs)
              \/ PreparePassword(c, u)
              \/ \E rs \in RoleSets, off \in BOOLEAN : ChangeUser(c, u, rs, off)
              \/ DeleteUser(c, u)
        \/ \E caps \in CapSets :
              \/ CreateRole(c, caps)
              \/ \E r \in Roles : ChangeRole(c, r, caps)
        \/ \E t \in Creds :
              \/ \E s \in CapSets : t \in Fresh /\ CreateToken(c, t, s)
              \/ RevokeToken(c, t)

Flight ==
    \E w \in flight :
        \/ CreateUser(w) \/ ChangePassword(w) \/ Abandon(w)
        \/ Authenticate(w) \/ SaveSession(w) \/ DropSession(w)
        \/ Reauthenticate(w) \/ DeleteSession(w)

Sessions ==
    \/ \E u \in Users : LoginRead(u)
    \/ \E c \in Creds : ReauthRead(c) \/ RevokeAuth(c) \/ ReadAuth(c)

AccountsInit ==
    /\ now = 0
    /\ db = Bootstrap
    /\ saved = None
    /\ flight = {}
    /\ cookies = {First}
    /\ used = {First}
    /\ ended = {}
    /\ left \in Budgets
=============================================================================
