-------------------------------- MODULE MCBoot --------------------------------
(* Boot with the network VM and one VM that uses it.                       *)
EXTENDS Boot

Names == {"kvm", "ext"}
KvmTwice == [x \in Names |-> IF x = "kvm" THEN 2 ELSE 1]
Once == [x \in Names |-> 1]
Vms == {"app", "netvm"}
AppUsesNet == [v \in Vms |-> IF v = "app" THEN {"netvm"} ELSE {}]
=============================================================================
