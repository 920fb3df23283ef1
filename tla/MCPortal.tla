------------------------------- MODULE MCPortal -------------------------------
(***************************************************************************)
(* Portal for TLC: two helpers one after the other, the second of which    *)
(* may be started while the host still works for the first.                *)
(***************************************************************************)
EXTENDS Portal

CONSTANTS h1, h2

TwoHelpers == {h1, h2}
AllFaults == {"helper", "host", "session", "connect", "build", "bus"}

=============================================================================
