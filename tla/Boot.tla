--------------------------------- MODULE Boot ---------------------------------
(***************************************************************************)
(* The host's start as a whole: the initramfs finds the root file system   *)
(* and switches to it, and the host's rc.init runs from there.             *)
(***************************************************************************)
EXTENDS Initramfs, HostBoot

vars == <<initramfs, host>>

Init == InitramfsInit /\ HostInit

InInitramfs == InitramfsNext /\ UNCHANGED host
(* switch_root executes the host's /etc/init.                              *)
InHost == init = "switch_root" /\ HostNext /\ UNCHANGED initramfs
HostRuns == init = "switch_root" /\ HostProgress /\ UNCHANGED initramfs

Next == InInitramfs \/ InHost

Spec == Init /\ [][Next]_vars

(* No run takes infinitely many steps, so that fairness to all processes   *)
(* together is fairness to each.                                           *)
FairSpec == Spec /\ WF_vars(InInitramfs) /\ WF_vars(HostRuns)

(* Both parts keep their types; on the host, s6-rc runs for one caller at  *)
(* a time, and a VM has a VMM once vm-import has made its instance.        *)
Inv == InitramfsType /\ HostInv

=============================================================================
