------------------------------- MODULE PidLease -------------------------------
(***************************************************************************)
(* What the bridge "br<pid>" promises: it is a lease on the interface      *)
(* names made from the pid.  An incarnation takes the lease before it uses *)
(* any of the names, its VM is active only under the lease, and nobody     *)
(* else ever gives it back; it is not given back while the VM is active.   *)
(***************************************************************************)
CONSTANTS Proc, Pid, None

VARIABLES
  lease,    \* lease[p]: the incarnation that may use the names of pid p
  active    \* the incarnations whose network is ready for their VM

Init ==
  /\ lease = [p \in Pid |-> None]
  /\ active = {}

Acquire(i, p) ==
  /\ lease[p] = None
  /\ lease' = [lease EXCEPT ![p] = i]
  /\ UNCHANGED active

Activate(i, p) ==
  /\ lease[p] = i
  /\ active' = active \cup {i}
  /\ UNCHANGED lease

Deactivate(i) ==
  /\ active' = active \ {i}
  /\ UNCHANGED lease

Release(i, p) ==
  /\ lease[p] = i /\ i \notin active
  /\ lease' = [lease EXCEPT ![p] = None]
  /\ UNCHANGED active

Next ==
  \E i \in Proc :
    \/ Deactivate(i)
    \/ \E p \in Pid : Acquire(i, p) \/ Activate(i, p) \/ Release(i, p)

Spec == Init /\ [][Next]_<<lease, active>>

=============================================================================
