------------------------------ MODULE MCNetSetup ------------------------------
(* NetSetup for TLC: a few incarnations that share a few pids.             *)
EXTENDS NetSetup, TLC

CONSTANTS i1, i2, i3, p1, p2

OnePid == {p1}
TwoPids == {p1, p2}
Three == {i1, i2, i3}

(* Every call of net_setup may fail, and the router VM may restart.        *)
SetupFaults == {"bridge_add", "if_up", "tap_open", "bridge_add_if",
                "add_net", "add_net_reply", "fork", "router"}

(* Besides, anything may be killed and the cleanup calls may fail.         *)
AllFaults == SetupFaults \cup
               {"kill", "listener", "remove_device", "bridge_remove_if",
                "if_down", "if_rename", "bridge_delete"}

Symmetry == Permutations(Three) \cup Permutations(TwoPids)

NoFaults == {}

=============================================================================
