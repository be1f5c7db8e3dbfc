-------------------------- MODULE SafeApplyContract --------------------------
(***************************************************************************)
(* What Safe Apply promises its callers, without saying how: a change is   *)
(* opened, its native transaction and the compensation of it each take     *)
(* effect on Open vSwitch at most once and only while the change is open,  *)
(* and the verdict that closes the change is the truth about those         *)
(* effects and stays the truth.  SafeApply implements this contract.       *)
(***************************************************************************)
EXTENDS FiniteSets

CONSTANTS
  Txn,      \* transaction ids
  Port,     \* managed objects
  Touch,    \* the objects each transaction writes: [Txn -> SUBSET Port]
  NoTxn     \* "no checkpoint yet"

VARIABLES
  phase,    \* none, open or the verdict of each transaction
  effect,   \* the native transactions that took effect: <<"apply"|"undo", t>>
  good      \* the transaction of the Last Known Good checkpoint

vars == <<phase, effect, good>>

Verdict == {"confirmed", "rolled-back", "not-committed"}

Init ==
  /\ phase = [t \in Txn |-> "none"]
  /\ effect = {}
  /\ good = NoTxn

\* Admission: no open change may share an object with the new one.
Open(t) ==
  /\ phase[t] = "none"
  /\ \A u \in Txn : phase[u] = "open" => Touch[u] \cap Touch[t] = {}
  /\ phase' = [phase EXCEPT ![t] = "open"]
  /\ UNCHANGED <<effect, good>>

\* The change reaches Open vSwitch.
Apply(t) ==
  /\ phase[t] = "open"
  /\ <<"apply", t>> \notin effect
  /\ effect' = effect \cup {<<"apply", t>>}
  /\ UNCHANGED <<phase, good>>

\* The compensation reaches Open vSwitch.
Undo(t) ==
  /\ phase[t] = "open"
  /\ <<"apply", t>> \in effect
  /\ <<"undo", t>> \notin effect
  /\ effect' = effect \cup {<<"undo", t>>}
  /\ UNCHANGED <<phase, good>>

Confirm(t) ==
  /\ phase[t] = "open"
  /\ <<"apply", t>> \in effect
  /\ <<"undo", t>> \notin effect
  /\ phase' = [phase EXCEPT ![t] = "confirmed"]
  /\ good' = t
  /\ UNCHANGED effect

RolledBack(t) ==
  /\ phase[t] = "open"
  /\ <<"undo", t>> \in effect
  /\ phase' = [phase EXCEPT ![t] = "rolled-back"]
  /\ UNCHANGED <<effect, good>>

NotCommitted(t) ==
  /\ phase[t] = "open"
  /\ <<"apply", t>> \notin effect
  /\ phase' = [phase EXCEPT ![t] = "not-committed"]
  /\ UNCHANGED <<effect, good>>

Next ==
  \E t \in Txn :
    \/ Open(t) \/ Apply(t) \/ Undo(t)
    \/ Confirm(t) \/ RolledBack(t) \/ NotCommitted(t)

Spec == Init /\ [][Next]_vars
=============================================================================
