---------------------------- MODULE MCWorkspace ----------------------------
(***************************************************************************)
(* The instance of Workspace for TLC: two handlers, one request.           *)
(***************************************************************************)
EXTENDS Workspace

CONSTANTS h1, h2, r1, v1
=============================================================================
