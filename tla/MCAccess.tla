------------------------------ MODULE MCAccess ------------------------------
(***************************************************************************)
(* TLC instance of Access: behaviours with three operations of people, with *)
(* two and two faults or a moved clock, with an activation among faults,   *)
(* and with three rotations.                                               *)
(***************************************************************************)
EXTENDS Access

Mix(p, c, f, t, k) ==
    [people |-> p, certs |-> c, faults |-> f, clock |-> t, keys |-> k]

MCBudgets == {Mix(3, 0, 0, 0, 0), Mix(2, 0, 2, 0, 0), Mix(2, 0, 0, 1, 0),
              Mix(1, 3, 1, 0, 0), Mix(0, 3, 1, 1, 0), Mix(0, 0, 0, 0, 3)}
=============================================================================
