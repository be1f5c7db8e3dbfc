---------------------------- MODULE MCSafeApply ----------------------------
(***************************************************************************)
(* Instances of SafeApply for TLC: one change of one or two ports, two     *)
(* changes that share a port.                                              *)
(***************************************************************************)
EXTENDS SafeApply, TLC

CONSTANTS t1, t2, p1, p2, d1, d2

One == t1 :> {p1}

Both == t1 :> {p1, p2}

Overlapping == t1 :> {p1} @@ t2 :> {p1}

\* The two changes can be exchanged, and so can the domains.
SwapOverlapping == Permutations({t1, t2}) \cup Permutations({d1, d2})

\* The two ports of one change can be exchanged.
SwapPorts == Permutations({p1, p2})
=============================================================================
