------------------------------ MODULE MCStartVmm ------------------------------
(* Two starts of one service: the helper of the dead incarnation meets the *)
(* VMM of the next.                                                        *)
EXTENDS StartVmm

CONSTANTS i1, i2

Two == {i1, i2}

AllFaults ==
  {"remove", "bind", "config", "fork", "exec", "vmm", "kill", "ch-remote", "answer", "notify"}
CreateFails == {"answer"}

=============================================================================
