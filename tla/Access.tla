------------------------------- MODULE Access -------------------------------
(***************************************************************************)
(* Accounts and the certificate trial as one system, with the rotation of  *)
(* the keys that seal what ovs-webd stores (src/internal/secret,           *)
(* src/internal/repository/secrets, ovs-webd -rotate-secret-key).          *)
(*                                                                         *)
(* A rotation is an offline process of its own that can die at each step:  *)
(* it creates the file of the next key, writes it, seals the identities    *)
(* and then the saved TLS state again, and only then switches the active   *)
(* version.                                                                *)
(***************************************************************************)
EXTENDS Trial

CONSTANTS MaxKeys  \* highest key version (16 in the code)

ASSUME KeysAssumption == MaxKeys \in Nat \ {0}

Rows == {"identity", "state"}

VARIABLES keys,    \* key-NN files: version -> key material
          torn,    \* key-NN files that were created and hold no key yet
          active,  \* the version the file "active" names
          sealed,  \* version and key of each envelope in web.db
          ring     \* the keys the rotating process holds, or none

rotations == <<keys, torn, active, sealed, ring>>

vars == <<auths, trials, rotations>>

Version == 1..MaxKeys

\* Ring.Open: the version of the envelope must be loaded, with its key.
Opens(row) ==
    sealed[row].version \notin torn /\ keys[sealed[row].version] = sealed[row].key

\* LoadKeys: every version up to the active one, and prepared later ones; a
\* file of another size than a key's is refused whatever its version.
Loadable == torn = {} /\ \A v \in 1..active : keys[v] # 0

\* Seeded fault: a key left over by an interrupted rotation is made anew.
BugCreated(v) == torn \cup {v}

\* KeyFile creates the file under its final name; one that is there is used.
Created(v) == IF keys[v] = 0 THEN torn \cup {v} ELSE torn

Offline == flight = {} /\ ring = None

PrepareKey ==
    /\ Spend("keys")
    /\ Offline /\ Loadable
    /\ active < MaxKeys
    /\ torn' = Created(active + 1)
    /\ ring' = [next |-> active + 1, done |-> {}]
    /\ UNCHANGED <<keys, active, sealed>>
    /\ UNCHANGED <<now, db, saved, flight, cookies, used, ended, trials>>

\* KeyFile, after O_EXCL: the key is written and synced.
WriteKey ==
    /\ ring # None /\ ring.next \in torn
    /\ keys' = [keys EXCEPT ![ring.next] = Random]
    /\ torn' = torn \ {ring.next}
    /\ UNCHANGED <<active, sealed, ring, auths, trials>>

\* Rewrap: the identities in one transaction, the state in the next.
Rewrap(row) ==
    /\ ring # None /\ ring.next \notin torn
    /\ ring.done = IF row = "identity" THEN {} ELSE {"identity"}
    /\ Opens(row)
    /\ sealed' = [sealed EXCEPT ![row] = [version |-> ring.next, key |-> keys[ring.next]]]
    /\ ring' = [ring EXCEPT !.done = @ \cup {row}]
    /\ UNCHANGED <<keys, torn, active, auths, trials>>

ActivateKeys ==
    /\ ring # None
    /\ ring.done = Rows
    /\ active' = ring.next
    /\ ring' = None
    /\ UNCHANGED <<keys, torn, sealed, auths, trials>>

RotationDies ==
    /\ ring # None
    /\ ring' = None
    /\ UNCHANGED <<keys, torn, active, sealed, auths, trials>>

Rotation ==
    PrepareKey \/ WriteKey \/ (\E row \in Rows : Rewrap(row)) \/ ActivateKeys \/ RotationDies

Loads == {material \cup {BootCert}, {BootCert}}

\* What needs ovs-webd: it does not start without its keys.
WebDaemon ==
    \/ Commands /\ UNCHANGED trials
    \/ Flight /\ UNCHANGED trials
    \/ Sessions /\ UNCHANGED trials
    \/ \E k \in Certs :
          \/ Stage(k)
          \/ \E c \in Issued : \/ CreateCertificate(c, k)
                               \/ ActivateCertificate(c, k)
                               \/ ConfirmCertificate(c, k)
    \/ \E loads \in Loads : Sync(loads) \/ RestartWeb(loads) \/ Reboot(loads)
    \/ Handshake

Daemons ==
    \/ Loadable /\ WebDaemon
    \/ MaintainTLS
    \/ BackupAll \/ RestoreAll
    \/ \E t \in 0..MaxTime : t # now /\ SetClock(t)

Init ==
    /\ AccountsInit
    /\ TrialInit
    /\ keys = [v \in Version |-> IF v = 1 THEN 1 ELSE 0]
    /\ torn = {}
    /\ active = 1
    /\ sealed = [row \in Rows |-> [version |-> 1, key |-> 1]]
    /\ ring = None

Next ==
    \/ ring = None /\ Daemons /\ UNCHANGED rotations
    \/ Tick /\ UNCHANGED rotations
    \/ Rotation

Spec == Init /\ [][Next]_vars
-----------------------------------------------------------------------------
(***************************************************************************)
(* Types: credentials belong to existing principals and are only there     *)
(* when they were issued (the auth tables of manager.db), and the manager  *)
(* knows only certificates whose key ovs-webd holds.                       *)
(***************************************************************************)
TypeOK ==
    /\ now \in 0..MaxTime /\ ns \in 0..MaxNS /\ age \in 0..Window
    /\ db \in AuthTables /\ saved \in AuthTables \cup {None} /\ left \in Budget
    /\ \A c \in Creds : db.creds[c] # None =>
          /\ c \in used
          /\ db.users[db.creds[c].owner] # None
          /\ db.creds[c].elevated <= db.creds[c].expiry
    /\ cookies \subseteq used /\ ended \subseteq used
    /\ known \subseteq material
    /\ {tls, local, seen} \subseteq Authorities
    /\ keys \in [Version -> Nat] /\ torn \subseteq Version /\ active \in Version

(***************************************************************************)
(* A grant that still works was opened with the password its owner has     *)
(* now: neither a login that read the old verifier before a password       *)
(* change, nor one opened earlier, survives the change.                    *)
(***************************************************************************)
PasswordCurrent ==
    \A c \in Creds : Live(db, c) /\ db.creds[c].kind = "grant"
                        => db.creds[c].pw = db.users[db.creds[c].owner].pw

(***************************************************************************)
(* A credential that was ended once, by logout, revocation, a password     *)
(* change, disabling or deleting its owner, or a restore, never works      *)
(* again: not when the owner is enabled again and not when a backup from   *)
(* before comes back.                                                      *)
(***************************************************************************)
EndedForGood == \A c \in ended : ~Live(db, c)

(***************************************************************************)
(* Nobody hands out more than they have: a step that gives a principal a   *)
(* capability is the command of an elevated session that holds it, also    *)
(* when it comes through a role that others carry.                         *)
(***************************************************************************)
CapsBefore(u) == IF db.users[u] = None THEN {} ELSE CapsOf(db, u)

Gained(u) == IF db'.users[u] = None THEN {} ELSE CapsOf(db', u) \ CapsBefore(u)

NoEscalation ==
    [][db'.epoch = db.epoch =>
          \A u \in Users : Gained(u) # {} =>
              \E c \in Issued : /\ CheckOperation(c, "access")
                                /\ Gained(u) \subseteq Effective(db, c)]_vars

(***************************************************************************)
(* Whatever sequence of commands and restores is run, an enabled local     *)
(* principal with a password and all capabilities is left.                 *)
(***************************************************************************)
AdministratorRemains == \E u \in Users : Administers(db, u)

(***************************************************************************)
(* ovs-webd offers new connections a certificate that was never confirmed  *)
(* only while less than the recovery window of real time has passed since  *)
(* its activation, even if a clock is moved, the machine reboots, ovs-webd *)
(* restarts, or the manager is never heard of again.                       *)
(***************************************************************************)
TrialEnds == Presented \in ever \/ age < Window

(***************************************************************************)
(* A certificate becomes active only through a confirmation that arrives   *)
(* over a connection it served, within the window of its activation.       *)
(***************************************************************************)
ConfirmedInWindow ==
    [][tls.trial # None /\ tls'.active = tls.trial /\ db'.epoch = db.epoch
          => conn = tls.trial /\ age < Window]_vars

(***************************************************************************)
(* Whenever a rotation is interrupted, and however often it is repeated,   *)
(* the key file of every sealed row is whole and holds its key; and the    *)
(* keys can be loaded unless a rotation died between the creation of the   *)
(* next key file and the end of its write, which nothing is sealed with.   *)
(***************************************************************************)
KeysOpenRows ==
    /\ \A row \in Rows : Opens(row)
    /\ Loadable \/ torn = {active + 1}
=============================================================================
