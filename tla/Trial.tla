------------------------------- MODULE Trial --------------------------------
(***************************************************************************)
(* Activation of a server certificate on trial.  ovs-mgrd decides which    *)
(* certificate is active and which one is on trial until when              *)
(* (src/internal/repository/auth/tls.go); ovs-webd holds the keys, copies  *)
(* the decision once a second, serves it, and falls back on its own when   *)
(* the trial runs out (src/internal/web/tls.go).                           *)
(***************************************************************************)
EXTENDS Accounts

CONSTANTS Certs,    \* certificates that can be imported
          Imported, \* those that were imported before
          BootCert, \* the bootstrap identity
          Window,   \* tlscontrol.RecoveryWindow
          MaxNS     \* bound of the monotonic clock

\* What tls_authority says: the active certificate and the one on trial.
Authorities ==
    [active : Certs \cup {None}, trial : Certs \cup {None}, boot : Nat,
     started : Nat, deadline : Nat, wall : Nat]

ASSUME TrialAssumption ==
    /\ Imported \subseteq Certs /\ None \notin Certs /\ BootCert # None
    /\ Window \in Nat \ {0} /\ MaxNS \in Nat

VARIABLES boot,      \* boot id
          ns,        \* CLOCK_BOOTTIME
          material,  \* web.db: certificates whose key ovs-webd holds
          known,     \* manager.db: tls_certificates
          savedTls,  \* the same tables in the backup
          tls,       \* manager.db: tls_authority
          local,     \* web.db: the authority ovs-webd last saved
          seen,      \* ovs-webd's copy of it in memory
          serving,   \* ovs-webd: what new connections get
          conn,      \* certificate of the client's open connection
          ever,      \* history: certificates that were active
          age        \* history: real time since the last activation

trials == <<boot, ns, material, known, savedTls, tls, local, seen, serving, conn, ever, age>>

Authority(active) ==
    [active |-> active, trial |-> None, boot |-> 0, started |-> 0,
     deadline |-> 0, wall |-> 0]

\* Seeded fault: only the wall clock bounds the trial.
BugExpired(s) == s.trial # None /\ (now >= s.wall \/ now < s.wall - Window)

Expired(s) ==
    /\ s.trial # None
    /\ \/ boot # s.boot
       \/ ns < s.started
       \/ ns >= s.deadline
       \/ now >= s.wall
       \/ now < s.wall - Window

\* finishTLS
Finish(s, confirmed) == Authority(IF confirmed THEN s.trial ELSE s.active)

\* TLSState: whoever asks first ends a trial that has run out.
TLSState == IF Expired(tls) THEN Finish(tls, FALSE) ELSE tls

ActiveOf(s) == IF s.active = None THEN BootCert ELSE s.active

\* selectServing: loads says which certificates can be read right now.
Select(s, loads) ==
    [id |-> IF s.trial \in loads /\ s.trial # None /\ ~Expired(s)
            THEN s.trial ELSE ActiveOf(s),
     fallback |-> ActiveOf(s), state |-> s]

\* GetCertificate: the local deadline holds without the manager.
Presented == IF Expired(serving.state) THEN serving.fallback ELSE serving.id
-----------------------------------------------------------------------------
\* Stage: the key is stored before the manager hears of the certificate.
Stage(k) ==
    /\ Spend("certs")
    /\ k \notin material
    /\ material' = material \cup {k}
    /\ UNCHANGED <<now, db, saved, flight, cookies, used, ended>>
    /\ UNCHANGED <<boot, ns, known, savedTls, tls, local, seen, serving, conn, ever, age>>

\* Seeded fault: the manager hears of a certificate whose key is not stored.
BugImportable(k) == k \notin known

Importable(k) == k \in material \ known

CreateCertificate(c, k) ==
    /\ Spend("certs")
    /\ Importable(k)
    /\ Execute(c, "access", db, {})
    /\ known' = known \cup {k}
    /\ UNCHANGED <<flight, boot, ns, material, savedTls, tls, local, seen, serving, conn, ever, age>>

ActivateCertificate(c, k) ==
    /\ Spend("certs")
    /\ k \in known
    /\ TLSState.trial = None
    /\ TLSState.active # k
    /\ Execute(c, "access", db, {})
    /\ tls' = [active |-> TLSState.active, trial |-> k, boot |-> boot,
               started |-> ns, deadline |-> ns + Window, wall |-> now + Window]
    /\ age' = 0
    /\ UNCHANGED <<flight, boot, ns, material, known, savedTls, local, seen, serving, conn, ever>>

\* Seeded fault: the window is not looked at when the trial is confirmed.
BugConfirmable(k) == tls.trial = k /\ conn = k

Confirmable(k) == tls.trial = k /\ conn = k /\ ~Expired(tls)

ConfirmCertificate(c, k) ==
    /\ Spend("certs")
    /\ Confirmable(k)
    /\ Execute(c, "access", db, {})
    /\ tls' = Finish(tls, TRUE)
    /\ ever' = ever \cup {k}
    /\ UNCHANGED <<flight, boot, ns, material, known, savedTls, local, seen, serving, conn, age>>

MaintainTLS ==
    /\ Expired(tls)
    /\ tls' = Finish(tls, FALSE)
    /\ UNCHANGED <<boot, ns, material, known, savedTls, local, seen, serving, conn, ever, age>>
    /\ UNCHANGED auths
-----------------------------------------------------------------------------
\* Sync: read the authority, load both certificates, save, publish.
Sync(loads) ==
    /\ TLSState # seen
    /\ ActiveOf(TLSState) \in loads
    /\ TLSState.trial # None => TLSState.trial \in loads
    /\ tls' = TLSState
    /\ local' = TLSState
    /\ seen' = TLSState
    /\ serving' = Select(TLSState, loads)
    /\ UNCHANGED <<boot, ns, material, known, savedTls, conn, ever, age>>
    /\ UNCHANGED auths

Handshake ==
    /\ conn # Presented
    /\ conn' = Presented
    /\ UNCHANGED <<boot, ns, material, known, savedTls, tls, local, seen, serving, ever, age>>
    /\ UNCHANGED auths

\* NewManagedTLS: serve from the saved authority, whatever the manager does.
\* An unreadable trial is forgotten in memory, so that Sync tries it again.
Serve(s, loads) ==
    /\ ActiveOf(s) \in loads
    /\ serving' = Select(s, loads)
    /\ seen' = IF s.trial # None /\ Select(s, loads).id # s.trial /\ ~Expired(s)
               THEN Authority(None) ELSE s

RestartWeb(loads) ==
    /\ Spend("faults")
    /\ Serve(local, loads)
    /\ conn' = None
    /\ LoseFlight
    /\ UNCHANGED <<now, boot, ns, material, known, savedTls, tls, local, ever, age>>

\* The boot id has changed, so a saved trial has expired for both daemons.
Reboot(loads) ==
    /\ Spend("faults")
    /\ boot' = boot + 1
    /\ ns' = 0
    /\ ActiveOf(local) \in loads
    /\ serving' = [id |-> ActiveOf(local), fallback |-> ActiveOf(local), state |-> local]
    /\ seen' = local
    /\ conn' = None
    /\ LoseFlight
    /\ UNCHANGED <<now, material, known, savedTls, tls, local, ever, age>>

BackupAll ==
    /\ Backup
    /\ savedTls' = [tls |-> tls, known |-> known]
    /\ UNCHANGED <<boot, ns, material, known, tls, local, seen, serving, conn, ever, age>>

\* PrepareRestore on both sides: the trial is dropped, web.db keeps its keys.
RestoreAll ==
    /\ Restore
    /\ tls' = IF savedTls.tls.trial = None THEN savedTls.tls
              ELSE Finish(savedTls.tls, FALSE)
    /\ known' = savedTls.known
    /\ local' = Authority(local.active)
    /\ seen' = local'
    /\ serving' = Select(local', material \cup {BootCert})
    /\ conn' = None
    /\ UNCHANGED <<boot, ns, material, savedTls, ever, age>>

Tick ==
    /\ now < MaxTime
    /\ ns < MaxNS
    /\ now' = now + 1
    /\ ns' = ns + 1
    /\ age' = Min({age + 1, Window})
    /\ UNCHANGED <<db, saved, flight, cookies, used, ended, left>>
    /\ UNCHANGED <<boot, material, known, savedTls, tls, local, seen, serving, conn, ever>>

SetClock(t) ==
    /\ Spend("clock")
    /\ now' = t
    /\ UNCHANGED <<db, saved, flight, cookies, used, ended>>
    /\ UNCHANGED trials

TrialInit ==
    /\ boot = 0 /\ ns = 0
    /\ material = Imported /\ known = Imported /\ savedTls = None
    /\ tls = Authority(None) /\ local = Authority(None) /\ seen = Authority(None)
    /\ serving = Select(Authority(None), {BootCert})
    /\ conn = BootCert
    /\ ever = {BootCert}
    /\ age = Window
=============================================================================
