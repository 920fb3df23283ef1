---------------------------- MODULE MCGuestRoutes ----------------------------
(***************************************************************************)
(* Three client VMs on two pids, so that a pid is used again, and two      *)
(* interface names, so that a name is.  The pids share their low byte, and *)
(* the uplink's MAC address ends in the same two octets as a client's.     *)
(***************************************************************************)
EXTENDS GuestRoutes

Clients == 1 .. 3
Pids == {255, 65535}
Mac255 == <<2, 0, 0, 0, 0, 255>>

=============================================================================
