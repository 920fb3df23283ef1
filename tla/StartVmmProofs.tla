---------------------------- MODULE StartVmmProofs ----------------------------
(***************************************************************************)
(* Inv of StartVmm is inductive, and readiness follows from it.  Since s6  *)
(* runs one incarnation at a time, the path belongs to the one that lives, *)
(* and a step of a dead incarnation's helper changes nothing the living    *)
(* one's helper has achieved.                                              *)
(***************************************************************************)
EXTENDS StartVmm, TLAPS

Parts(i) == Forked(i) /\ HoldsPath(i) /\ Achieved(i)

(* A step of i's processes that leaves the path, the VMMs and the other    *)
(* incarnations alone.                                                     *)
LEMMA Local ==
  ASSUME NEW i \in Proc, Inv, TypeOK', OneAtATime', path' = path,
         \A j \in Proc \ {i} :
           /\ pc'[j] = pc[j] /\ child'[j] = child[j] /\ helper'[j] = helper[j]
           /\ conn'[j] = conn[j] /\ ready'[j] = ready[j],
         \A j \in Proc \ {i} : Complete(j) => Complete(j)',
         \A j \in Proc \ {i} : vm[j] = j => vm'[j] = j,
         Parts(i)'
  PROVE  Inv'
<1>1. ASSUME NEW j \in Proc \ {i} PROVE Parts(j)'
  BY DEF Inv, Parts, Forked, HoldsPath, Achieved, Alive
<1> QED
  BY <1>1, Zenon DEF Inv, Parts

(* A step after which at most the incarnations alive before are alive.     *)
LEMMA StillOne ==
  ASSUME OneAtATime, \A j \in Proc : Alive(j)' => Alive(j)
  PROVE  OneAtATime'
BY Zenon DEF OneAtATime

(* s6 starts an incarnation: nothing of it exists yet.                     *)
LEMMA StartInv ==
  ASSUME NEW i \in Proc, Inv, Start(i)
  PROVE  Inv'
<1> USE DEF Inv, Start, Goto
<1>1. TypeOK'
  BY Zenon DEF TypeOK, Stage, Starting, helpers, vmms
<1>2. OneAtATime'
  BY DEF OneAtATime, Alive, TypeOK
<1>3. Parts(i)'
  <2>1. pc'[i] = "remove" /\ child[i] = "none" /\ helper[i] = "none" /\ ~ready[i] /\ conn[i] = None
    BY Zenon DEF TypeOK, Forked
  <2> QED
    BY <2>1, Zenon DEF Parts, Forked, HoldsPath, Achieved, Alive, Starting, helpers, vmms
<1> QED
  BY <1>1, <1>2, <1>3, Local, Zenon DEF TypeOK, helpers, vmms, Complete

(* The path is i's once it is bound, and i is the only one alive.          *)
LEMMA BindInv ==
  ASSUME NEW i \in Proc, Inv, create_api_socket(i)
  PROVE  Inv'
<1> USE DEF Inv, create_api_socket, remove_file, bind, Goto
<1>1. TypeOK'
  BY DEF TypeOK, Stage, Starting, helpers, vmms
<1>2. \A j \in Proc \ {i} : ~Alive(j) /\ ~Alive(j)'
  BY DEF OneAtATime, Alive, TypeOK
<1>3. OneAtATime'
  BY <1>2, Zenon DEF OneAtATime
<1>4. ASSUME NEW j \in Proc \ {i} PROVE Parts(j)'
  <2>1. pc'[j] = pc[j] /\ pc[j] \in {"none", "dead"}
    BY <1>2, Zenon DEF TypeOK, Alive
  <2> QED
    BY <1>2, <2>1, Zenon DEF Parts, Forked, HoldsPath, Achieved, Starting, helpers, vmms
<1>5. Parts(i)'
  <2>1. child[i] = "none" /\ helper[i] = "none" /\ ~ready[i] /\ conn[i] = None
    BY Zenon DEF Forked
  <2>2. (pc'[i] = "config" /\ path' = i) \/ pc'[i] \in {"bind", "exit"}
    BY Zenon DEF TypeOK
  <2> QED
    BY <2>1, <2>2, Zenon DEF Parts, Forked, HoldsPath, Achieved, Starting, helpers, vmms
<1> QED
  BY <1>1, <1>3, <1>4, <1>5, Zenon DEF Parts

(* The other steps of start-vmm, and of cloud-hypervisor's end.            *)
LEMMA MainInv ==
  ASSUME NEW i \in Proc, Inv,
         vm_config(i) \/ double_fork(i) \/ ReadPid(i) \/ Exec(i) \/ Exit(i)
  PROVE  Inv'
<1> USE DEF Inv
<1> DEFINE Steps == vm_config(i) \/ double_fork(i) \/ ReadPid(i) \/ Exec(i) \/ Exit(i)
<1>1. /\ path' = path /\ UNCHANGED <<helper, conn, vm, nets, ready, accepted, target, msg>>
      /\ \A j \in Proc \ {i} : pc'[j] = pc[j] /\ child'[j] = child[j]
  BY DEF vm_config, double_fork, ReadPid, Exec, Exit, Goto, helpers, vmms, TypeOK
<1>2. TypeOK'
  BY <1>1 DEF vm_config, double_fork, ReadPid, Exec, Exit, Goto, helpers, vmms, TypeOK,
     Stage, Starting, ChildStage
<1>3. /\ Alive(i)
      /\ pc'[i] = "fork" => pc[i] = "config"
      /\ child'[i] = child[i] \/ (child'[i] = "fork" /\ child[i] = "none" /\ pc[i] = "fork"
                                  /\ pc'[i] = "read")
      /\ pc'[i] \in {"fork", "read", "exec", "vmm", "exit", "dead"}
      /\ pc'[i] \in {"fork", "read", "exec", "vmm"} =>
           pc[i] \in (Starting \ {"remove", "bind"}) \cup {"vmm"}
  BY DEF vm_config, double_fork, ReadPid, Exec, Exit, Goto, helpers, vmms, TypeOK, Alive,
     Starting, Forked
<1>4. OneAtATime'
  BY <1>1, <1>3, StillOne, Zenon DEF Alive
<1>5. Forked(i)'
  BY <1>1, <1>3, Zenon DEF Forked
<1>6. HoldsPath(i)'
  BY <1>1, <1>3, Zenon DEF HoldsPath, Alive, Starting
<1>7. Achieved(i)'
  BY <1>1, <1>3, Zenon DEF Achieved, Complete
<1> QED
  BY <1>1, <1>2, <1>4, <1>5, <1>6, <1>7, Local, Zenon DEF Parts, Complete

(* The child forks the helper, or says that it could not.                  *)
LEMMA ChildInv ==
  ASSUME NEW i \in Proc, Inv, Child(i)
  PROVE  Inv'
<1> USE DEF Inv
<1>1. /\ UNCHANGED <<pc, path, conn, vm, nets, ready, accepted, target, listener>>
      /\ \A j \in Proc \ {i} : helper'[j] = helper[j] /\ child'[j] = child[j]
  BY DEF Child, ChildFork, ChildWrite, main, vmms, TypeOK
<1>2. TypeOK'
  BY <1>1 DEF Child, ChildFork, ChildWrite, main, vmms, TypeOK, ChildStage, HelperStage
<1>3. /\ child[i] \notin {"none"} /\ child'[i] \notin {"none", "fork"}
      /\ helper'[i] \in {helper[i], "create"} /\ (helper'[i] = "none" => helper[i] = "none")
      /\ helper[i] = "none" => conn[i] = None /\ ~ready[i]
      /\ helper'[i] # helper[i] => helper[i] = "none"
  BY DEF Child, ChildFork, ChildWrite, TypeOK, Forked, main, vmms
<1>4. OneAtATime'
  BY <1>1, StillOne, Zenon DEF Alive
<1>5. Forked(i)'
  BY <1>1, <1>3, Zenon DEF Forked
<1>6. HoldsPath(i)'
  BY <1>1, <1>3, Zenon DEF HoldsPath, Alive
<1>7. Achieved(i)'
  BY <1>1, <1>3, Zenon DEF Achieved, Complete, Alive
<1> QED
  BY <1>1, <1>2, <1>4, <1>5, <1>6, <1>7, Local, Zenon DEF Parts, Complete

(* A helper reaches the VMM at the path, fails, or notifies s6 once the    *)
(* VM is complete.                                                         *)
LEMMA HelperInv ==
  ASSUME NEW i \in Proc, Inv, Helper(i)
  PROVE  Inv'
<1> USE DEF Inv
<1>1. /\ UNCHANGED <<pc, path, vm, nets, msg, listener>>
      /\ \A j \in Proc \ {i} : /\ helper'[j] = helper[j] /\ child'[j] = child[j]
                               /\ conn'[j] = conn[j] /\ ready'[j] = ready[j]
  BY DEF Helper, Connect, Reset, KillParent, notify_readiness, HelperGoto, main, vmms, TypeOK
<1>2. TypeOK'
  <2>1. helper' \in [Proc -> HelperStage] /\ child' \in [Proc -> ChildStage]
    BY DEF Helper, Connect, Reset, KillParent, notify_readiness, HelperGoto, TypeOK,
       ChildStage, HelperStage
  <2>2. /\ conn' \in [Proc -> Proc \cup {None}]
        /\ target' \in [Proc -> {"none", "child", "init"}]
    BY DEF Helper, Connect, Reset, KillParent, notify_readiness, TypeOK, Reachable
  <2>3. accepted' \in [Proc -> BOOLEAN]
    BY Zenon DEF Helper, Connect, Reset, KillParent, notify_readiness, TypeOK
  <2>4. ready' \in [Proc -> BOOLEAN]
    <3>1. ASSUME notify_readiness(i) PROVE ready' \in [Proc -> BOOLEAN]
      <4>1. Alive(i) \in BOOLEAN
        BY Zenon DEF Alive
      <4>2. ready' = ready \/ ready' = [ready EXCEPT ![i] = Alive(i)]
        BY <3>1, Zenon DEF notify_readiness
      <4> QED
        BY <4>1, <4>2, Zenon DEF TypeOK
    <3>2. ASSUME Connect(i) \/ Reset(i) \/ KillParent(i) PROVE ready' = ready
      BY <3>2, Zenon DEF Connect, Reset, KillParent, vmms
    <3> QED
      BY <3>1, <3>2, Zenon DEF Helper, TypeOK
  <2> QED
    BY <1>1, <2>1, <2>2, <2>3, <2>4, Zenon DEF TypeOK
<1>3. /\ helper[i] # "none" /\ helper'[i] # "none"
      /\ helper'[i] \in {helper[i], "failed", "exited", "unheard"}
      /\ child'[i] = child[i] \/ (child[i] # "none" /\ child'[i] = "killed")
      /\ conn'[i] \in {conn[i], path, None}
      /\ ready'[i] => ready[i] \/ helper[i] = "notify"
  BY DEF Helper, Connect, Reset, KillParent, notify_readiness, HelperGoto, main, vmms, TypeOK,
     Requesting, ChildAlive
<1>4. child[i] \notin {"none", "fork"}
  BY <1>3, Zenon DEF Forked
<1>5. OneAtATime'
  BY <1>1, StillOne, Zenon DEF Alive
<1>6. Forked(i)'
  BY <1>1, <1>3, <1>4, Zenon DEF Forked
<1>7. HoldsPath(i)'
  BY <1>1, <1>3, <1>4, Zenon DEF HoldsPath, Alive
<1>8. Achieved(i)'
  BY <1>1, <1>3, Zenon DEF Achieved, Complete, Alive
<1> QED
  BY <1>1, <1>2, <1>5, <1>6, <1>7, <1>8, Local, Zenon DEF Parts, Complete

(* A VMM takes a connection.                                               *)
LEMMA AcceptInv ==
  ASSUME NEW i \in Proc, NEW j \in Proc, Inv, Accept(j, i)
  PROVE  Inv'
<1> USE DEF Inv, Accept, main, vmms
<1>1. TypeOK'
  BY Zenon DEF TypeOK
<1>2. OneAtATime'
  BY StillOne, Zenon DEF Alive
<1>3. Parts(i)'
  BY Zenon DEF Parts, Forked, HoldsPath, Achieved, Alive, Complete
<1> QED
  BY <1>1, <1>2, <1>3, Local, Zenon DEF Complete

(* A VMM answers: a living incarnation's helper asked its own VMM, and a   *)
(* VM that exists is never replaced.                                       *)
LEMMA AnswerInv ==
  ASSUME NEW i \in Proc, NEW j \in Proc, Inv, Answer(j, i)
  PROVE  Inv'
<1> USE DEF Inv
<1>1. /\ UNCHANGED <<pc, path, child, target, listener, ready, msg>>
      /\ \A k \in Proc \ {i} : helper'[k] = helper[k] /\ conn'[k] = conn[k]
      /\ conn'[i] = None /\ conn[i] = j
  BY DEF Answer, Perform, Refuse, HelperGoto, main, TypeOK
<1>2. helper[i] # "none"
  BY <1>1, StartAssumption, Zenon DEF Forked
<1>3. TypeOK'
  <2>1. accepted' \in [Proc -> BOOLEAN] /\ conn' \in [Proc -> Proc \cup {None}]
    BY Zenon DEF Answer, TypeOK
  <2>2. helper' \in [Proc -> HelperStage]
    BY DEF Answer, Perform, Refuse, HelperGoto, TypeOK, HelperStage
  <2>3. vm' \in [Proc -> Proc \cup {None}] /\ nets' \in [Proc -> SUBSET Proc]
    BY DEF Answer, Perform, Refuse, TypeOK
  <2> QED
    BY <1>1, <2>1, <2>2, <2>3, Zenon DEF TypeOK
<1>4. /\ \A k \in Proc : nets[k] \subseteq nets'[k]
      /\ \A k \in Proc : vm[k] = k => vm'[k] = k
  BY StartAssumption DEF Answer, Perform, Refuse, TypeOK
<1>5. \A k \in Proc : Complete(k) => Complete(k)'
  BY <1>4, Zenon DEF Complete
<1>6. helper'[i] # "none"
  BY DEF Answer, Perform, Refuse, HelperGoto, TypeOK
<1>7. Forked(i)'
  BY <1>1, <1>2, <1>6, Zenon DEF Forked
<1>8. HoldsPath(i)'
  BY <1>1, Zenon DEF HoldsPath, Alive
<1>9. Achieved(i)'
  <2>1. SUFFICES ASSUME Alive(i) PROVE Achieved(i)'
    BY <1>1, Zenon DEF Achieved, Alive
  <2>2. child[i] # "none" /\ j = i
    BY <1>1, <1>2, <2>1, StartAssumption, Zenon DEF Forked, HoldsPath
  <2>3. CASE Refuse(j, i)
    <3>1. helper'[i] = "failed"
      BY <2>3, Zenon DEF Refuse, HelperGoto, TypeOK
    <3> QED
      BY <1>1, <1>5, <3>1, Zenon DEF Achieved, Alive
  <2>4. CASE helper[i] = "create" /\ Perform(j, i)
    <3>1. vm'[i] = i /\ helper'[i] = IF WithNet THEN "add_net" ELSE "notify"
      BY <2>2, <2>4, Zenon DEF Perform, HelperGoto, TypeOK
    <3> QED
      BY <1>1, <1>5, <3>1, StartAssumption, Zenon DEF Achieved, Complete, Alive
  <2>5. CASE helper[i] = "add_net" /\ Perform(j, i)
    <3>1. vm[i] = i
      BY <2>1, <2>5, Zenon DEF Achieved
    <3>2. vm'[i] = i /\ i \in nets'[i] /\ helper'[i] = "notify"
      BY <2>2, <2>5, <3>1 DEF Perform, HelperGoto, TypeOK
    <3> QED
      BY <3>2, Zenon DEF Achieved, Complete
  <2> QED
    BY <2>3, <2>4, <2>5, Zenon DEF Answer, Perform
<1>10. OneAtATime'
  BY <1>1, StillOne, Zenon DEF Alive
<1> QED
  BY <1>1, <1>3, <1>4, <1>5, <1>7, <1>8, <1>9, <1>10, Local, Zenon DEF Parts

(* Inv says nothing of the listener but its type.                          *)
LEMMA IdleInv ==
  ASSUME Inv, UNCHANGED <<main, helpers, vmms>>,
         listener' \in [Proc -> {"none", "poll", "woken", "exited"}]
  PROVE  Inv'
<1> USE DEF Inv, main, helpers, vmms
<1>1. TypeOK'
  BY Zenon DEF TypeOK
<1>2. OneAtATime'
  BY StillOne, Zenon DEF Alive
<1>3. \A i \in Proc : Parts(i)'
  BY Zenon DEF Parts, Forked, HoldsPath, Achieved, Alive, Complete
<1> QED
  BY <1>1, <1>2, <1>3, Zenon DEF Parts

(* No process exists at first.                                             *)
LEMMA InitInv == Init => Inv
<1> SUFFICES ASSUME Init PROVE Inv
  BY Zenon
<1>1. TypeOK
  BY Zenon DEF Init, TypeOK, Stage, ChildStage, HelperStage
<1>2. OneAtATime /\ \A i \in Proc : Parts(i)
  BY Zenon DEF Init, OneAtATime, Parts, Forked, HoldsPath, Achieved, Alive, Starting
<1> QED
  BY <1>1, <1>2, Zenon DEF Inv, Parts

(* Every step preserves Inv.                                               *)
LEMMA NextInv == Inv /\ [Next]_vars => Inv'
<1> SUFFICES ASSUME Inv, [Next]_vars PROVE Inv'
  BY Zenon
<1>1. ASSUME NEW i \in Proc, Start(i) \/ Main(i) \/ Exit(i) PROVE Inv'
  BY <1>1, StartInv, BindInv, MainInv, Zenon DEF Main
<1>2. ASSUME NEW i \in Proc, Child(i) \/ Helper(i) PROVE Inv'
  BY <1>2, ChildInv, HelperInv, Zenon
<1>3. ASSUME NEW j \in Proc, Serve(j) PROVE Inv'
  BY <1>3, AcceptInv, AnswerInv, Zenon DEF Serve
<1>4. ASSUME NEW i \in Proc, ListenerWake(i) \/ ListenerExit(i) PROVE Inv'
  BY <1>4, IdleInv, Zenon DEF ListenerWake, ListenerExit, Inv, TypeOK
<1>5. ASSUME UNCHANGED vars PROVE Inv'
  BY <1>5, IdleInv, Zenon DEF vars, Inv, TypeOK
<1> QED
  BY <1>1, <1>2, <1>3, <1>4, <1>5, Zenon DEF Next

(* The inductive invariant holds for any number of restarts, with or       *)
(* without a net, whichever calls fail (start-vmm.rs, run).                *)
THEOREM Invariance == Spec => []Inv
BY InitInv, NextInv, PTL DEF Spec

(* A VM that s6 takes for ready, and whose VMM runs, was created by this   *)
(* incarnation and has its own net (lib.rs, create_vm_child_main).         *)
THEOREM Readiness == Spec => []ReadyMeansCreated
<1>1. Inv => ReadyMeansCreated
  BY Zenon DEF Inv, ReadyMeansCreated, Achieved, Alive
<1> QED
  BY <1>1, Invariance, PTL

-----------------------------------------------------------------------------
(* How the helper ends                                                     *)

(* start-vmm goes on to cloud-hypervisor only with a helper, which ends    *)
(* after it has notified s6 or sent its signal, or in the one way that     *)
(* does neither: a complete VM whose notification could not be written.    *)
Concludes(i) ==
  /\ child[i] = "write" \/ msg[i] = "pid" => helper[i] # "none"
  /\ pc[i] \in {"exec", "vmm"} => helper[i] # "none"
  /\ Alive(i) /\ helper[i] = "exited" => ready[i] \/ target[i] # "none"
  /\ Alive(i) /\ helper[i] = "unheard" => Complete(i) /\ target[i] = "none"
  /\ helper[i] # "exited" => target[i] = "none"

(* No step takes a VM or a net from a VMM.                                 *)
LEMMA StaysComplete ==
  ASSUME Inv, Next, NEW k \in Proc, Complete(k)
  PROVE  Complete(k)'
<1>1. ASSUME NEW i \in Proc, NEW j \in Proc, Answer(j, i) PROVE Complete(k)'
  <2>1. k \in nets[k] => k \in nets'[k]
    BY <1>1 DEF Answer, Perform, Refuse, Inv, TypeOK
  <2>2. vm'[k] = k
    BY <1>1, StartAssumption DEF Answer, Perform, Refuse, Inv, TypeOK, Complete
  <2> QED
    BY <2>1, <2>2, Zenon DEF Complete
<1>2. ASSUME NEW i \in Proc, NEW j \in Proc, Accept(j, i) PROVE UNCHANGED <<vm, nets>>
  BY <1>2, Zenon DEF Accept, vmms
<1>3. ASSUME NEW i \in Proc, Start(i) \/ Main(i) \/ Exit(i) PROVE UNCHANGED <<vm, nets>>
  BY <1>3, Zenon DEF Start, Main, Exit, create_api_socket, remove_file, bind, vm_config,
     double_fork, ReadPid, Exec, vmms
<1>4. ASSUME NEW i \in Proc, Child(i) \/ Helper(i) PROVE UNCHANGED <<vm, nets>>
  BY <1>4, Zenon DEF Child, ChildFork, ChildWrite, Helper, Connect, Reset, KillParent,
     notify_readiness, vmms
<1>5. ASSUME NEW i \in Proc, ListenerWake(i) \/ ListenerExit(i) PROVE UNCHANGED <<vm, nets>>
  BY <1>5, Zenon DEF ListenerWake, ListenerExit, vmms
<1>6. UNCHANGED <<vm, nets>> => Complete(k)'
  BY Zenon DEF Complete
<1> QED
  BY <1>1, <1>2, <1>3, <1>4, <1>5, <1>6, Zenon DEF Next, Serve

(* A step concerns one incarnation and leaves the others alone.            *)
LEMMA OneConcludes ==
  ASSUME NEW i \in Proc, \A j \in Proc : Concludes(j),
         \A j \in Proc \ {i} :
           /\ pc'[j] = pc[j] /\ child'[j] = child[j] /\ msg'[j] = msg[j]
           /\ helper'[j] = helper[j] /\ ready'[j] = ready[j] /\ target'[j] = target[j],
         \A j \in Proc : Complete(j) => Complete(j)',
         Concludes(i)'
  PROVE  \A j \in Proc : Concludes(j)'
<1>1. ASSUME NEW j \in Proc \ {i} PROVE Concludes(j)'
  BY <1>1, Zenon DEF Concludes, Alive
<1> QED
  BY <1>1, Zenon

LEMMA MainConcludes ==
  ASSUME NEW i \in Proc, Inv, \A j \in Proc : Concludes(j), Start(i) \/ Main(i) \/ Exit(i),
         \A j \in Proc : Complete(j) => Complete(j)'
  PROVE  \A j \in Proc : Concludes(j)'
<1> USE DEF Inv, TypeOK, Goto
<1>1. UNCHANGED <<msg, helper, ready, target>>
  BY Zenon DEF Start, Main, Exit, create_api_socket, remove_file, bind, vm_config, double_fork, ReadPid, Exec,
     helpers, vmms
<1>2. PICK s \in Stage : pc' = [pc EXCEPT ![i] = s]
  BY Zenon DEF Start, Main, Exit, create_api_socket, remove_file, bind, vm_config, double_fork, ReadPid, Exec,
     Stage, Starting
<1>3. child' = child \/ child' = [child EXCEPT ![i] = "fork"]
  BY Zenon DEF Start, Main, Exit, create_api_socket, remove_file, bind, vm_config, double_fork, ReadPid, Exec,
     helpers
<1>4. pc'[i] \in {"exec", "vmm"} => helper[i] # "none"
  <2>1. CASE ReadPid(i)
    BY <2>1, Zenon DEF ReadPid, Concludes
  <2>2. CASE Exec(i)
    BY <2>2, Zenon DEF Exec, Concludes
  <2>3. CASE Start(i) \/ create_api_socket(i) \/ vm_config(i)
    BY <2>3, Zenon DEF Start, create_api_socket, remove_file, bind, vm_config
  <2>4. CASE double_fork(i) \/ Exit(i)
    BY <2>4, Zenon DEF double_fork, Exit
  <2> QED
    BY <2>1, <2>2, <2>3, <2>4, Zenon DEF Main
<1>5. Alive(i)' /\ helper[i] # "none" => Alive(i)
  <2>1. CASE pc[i] = "none"
    BY <2>1, Zenon DEF Forked
  <2>2. CASE pc[i] = "dead"
    BY <2>2, Zenon DEF Start, Main, Exit, create_api_socket, remove_file, bind, vm_config, double_fork, ReadPid,
       Exec, Starting
  <2> QED
    BY <2>1, <2>2, Zenon DEF Alive
<1>6. Concludes(i)'
  <2>1. child'[i] = "write" => child[i] = "write"
    BY <1>3, Zenon
  <2> QED
    BY <1>1, <1>4, <1>5, <2>1, Zenon DEF Concludes
<1> QED
  BY <1>1, <1>2, <1>3, <1>6, OneConcludes, Zenon

LEMMA ChildConcludes ==
  ASSUME NEW i \in Proc, Inv, \A j \in Proc : Concludes(j), Child(i),
         \A j \in Proc : Complete(j) => Complete(j)'
  PROVE  \A j \in Proc : Concludes(j)'
<1> USE DEF Inv, TypeOK
<1>1. UNCHANGED <<pc, ready, target>>
  BY Zenon DEF Child, ChildFork, ChildWrite, main, vmms
<1>2. CASE ChildFork(i)
  <2>1. /\ msg' = msg /\ helper[i] = "none"
        /\ \/ child' = [child EXCEPT ![i] = "write"] /\ helper' = [helper EXCEPT ![i] = "create"]
           \/ child' = [child EXCEPT ![i] = "write_error"] /\ helper' = helper
    BY <1>2, Zenon DEF ChildFork, main, Forked
  <2>2. Concludes(i)'
    BY <1>1, <2>1 DEF Concludes, Alive
  <2> QED
    BY <1>1, <2>1, <2>2, OneConcludes, Zenon
<1>3. CASE ChildWrite(i)
  <2>1. /\ helper' = helper /\ child' = [child EXCEPT ![i] = "exited"]
        /\ msg' = [msg EXCEPT ![i] = IF child[i] = "write" THEN "pid" ELSE "error"]
    BY <1>3, Zenon DEF ChildWrite
  <2>2. Concludes(i)'
    BY <1>1, <2>1 DEF Concludes, Alive
  <2> QED
    BY <1>1, <2>1, <2>2, OneConcludes, Zenon
<1> QED
  BY <1>2, <1>3, Zenon DEF Child

(* The helper's own steps, and the answers it gets.                        *)
LEMMA HelperConcludes ==
  ASSUME NEW i \in Proc, Inv, \A j \in Proc : Concludes(j),
         Helper(i) \/ \E j \in Proc : Accept(j, i) \/ Answer(j, i),
         \A j \in Proc : Complete(j) => Complete(j)'
  PROVE  \A j \in Proc : Concludes(j)'
<1> USE DEF Inv, TypeOK
<1>1. UNCHANGED <<pc, msg>>
  BY Zenon DEF Helper, Connect, Reset, KillParent, notify_readiness, Accept, Answer, main
<1>2. CASE UNCHANGED <<child, helper, ready, target>>
  BY <1>1, <1>2, Zenon DEF Concludes, Alive
<1>3. CASE /\ helper[i] # "exited"
           /\ UNCHANGED <<child, ready, target>>
           /\ \E s \in {"failed", "add_net", "notify"} : HelperGoto(i, s)
  <2>1. PICK s \in {"failed", "add_net", "notify"} : helper' = [helper EXCEPT ![i] = s]
    BY <1>3, Zenon DEF HelperGoto
  <2>2. Concludes(i)'
    <3>1. helper'[i] \notin {"none", "exited", "unheard"} /\ target'[i] = "none"
      BY <1>3, <2>1 DEF Concludes
    <3> QED
      BY <3>1, Zenon DEF Concludes
  <2> QED
    BY <1>1, <1>3, <2>1, <2>2, OneConcludes, Zenon
<1>4. CASE KillParent(i)
  <2>1. /\ helper' = [helper EXCEPT ![i] = "exited"] /\ ready' = ready
        /\ \E x \in {"child", "init"} : target' = [target EXCEPT ![i] = x]
        /\ child' = child \/ child' = [child EXCEPT ![i] = "killed"]
    BY <1>4, Zenon DEF KillParent, HelperGoto, vmms
  <2>2. helper'[i] = "exited" /\ target'[i] \in {"child", "init"}
    BY <2>1, Zenon
  <2>3. Concludes(i)'
    BY <2>2 DEF Concludes
  <2> QED
    BY <1>1, <2>1, <2>3, OneConcludes, Zenon
<1>5. CASE notify_readiness(i)
  <2>1. UNCHANGED <<child, target>> /\ helper[i] = "notify" /\ target[i] = "none"
    BY <1>5 DEF notify_readiness, Concludes
  <2>2. CASE ready' = [ready EXCEPT ![i] = Alive(i)] /\ HelperGoto(i, "exited")
    <3>1. helper'[i] = "exited" /\ ready'[i] = Alive(i)
      BY <2>2, Zenon DEF HelperGoto
    <3>2. Concludes(i)'
      BY <1>1, <3>1 DEF Concludes, Alive
    <3> QED
      BY <1>1, <2>1, <2>2, <3>2, OneConcludes, Zenon DEF HelperGoto
  <2>3. CASE ready' = ready /\ HelperGoto(i, "unheard")
    <3>1. helper'[i] = "unheard"
      BY <2>3, Zenon DEF HelperGoto
    <3>2. Alive(i) => Complete(i)
      BY <2>1, Zenon DEF Achieved
    <3>3. Concludes(i)'
      BY <1>1, <2>1, <3>1, <3>2 DEF Concludes, Alive
    <3> QED
      BY <1>1, <2>1, <2>3, <3>3, OneConcludes, Zenon DEF HelperGoto
  <2> QED
    BY <1>5, <2>2, <2>3, Zenon DEF notify_readiness
<1>6. ASSUME Connect(i) \/ Reset(i)
      PROVE  \/ UNCHANGED <<child, helper, ready, target>>
             \/ /\ helper[i] # "exited" /\ UNCHANGED <<child, ready, target>>
                /\ HelperGoto(i, "failed")
  <2>1. CASE Connect(i)
    BY <2>1 DEF Connect, Requesting, vmms
  <2>2. CASE Reset(i)
    BY <2>2 DEF Reset, Requesting, vmms
  <2> QED
    BY <1>6, <2>1, <2>2, Zenon
<1>7. ASSUME NEW j \in Proc, Accept(j, i) \/ Answer(j, i)
      PROVE  \/ UNCHANGED <<child, helper, ready, target>>
             \/ /\ helper[i] # "exited" /\ UNCHANGED <<child, ready, target>>
                /\ \E s \in {"failed", "add_net", "notify"} : HelperGoto(i, s)
  <2>1. CASE Accept(j, i)
    BY <2>1 DEF Accept, vmms
  <2>2. CASE Answer(j, i)
    BY <2>2 DEF Answer, Perform, Refuse, Requesting
  <2> QED
    BY <1>7, <2>1, <2>2, Zenon
<1> QED
  BY <1>2, <1>3, <1>4, <1>5, <1>6, <1>7, Zenon DEF Helper

(* What EveryVmmSettles rests on beside fairness: a cloud-hypervisor never *)
(* runs without a helper having been forked for it, and that helper has    *)
(* ended in one of three ways (lib.rs, create_vm_child_main): having       *)
(* notified s6, having sent its signal, or, when the notification could    *)
(* not be written, leaving behind a VM that is complete though unready.    *)
THEOREM HelperEnds ==
  Spec => [](\A i \in Proc : pc[i] = "vmm" =>
               /\ helper[i] # "none"
               /\ helper[i] = "exited" => ready[i] \/ target[i] # "none"
               /\ helper[i] = "unheard" => Complete(i))
<1> DEFINE AllConclude == \A i \in Proc : Concludes(i)
<1>1. Init => AllConclude
  BY DEF Init, Concludes, Alive
<1>2. Inv /\ AllConclude /\ [Next]_vars => AllConclude'
  <2> SUFFICES ASSUME Inv, AllConclude, [Next]_vars PROVE AllConclude'
    BY Zenon
  <2>1. CASE UNCHANGED vars \/ \E i \in Proc : ListenerWake(i) \/ ListenerExit(i)
    <3>1. UNCHANGED <<pc, child, msg, helper, ready, target, vm, nets>>
      BY <2>1, Zenon DEF vars, ListenerWake, ListenerExit, main, helpers, vmms
    <3> QED
      BY <3>1, Zenon DEF Concludes, Alive, Complete
  <2>2. CASE Next
    <3>1. \A j \in Proc : Complete(j) => Complete(j)'
      BY <2>2, StaysComplete, Zenon
    <3>2. CASE \E i \in Proc : Start(i) \/ Main(i) \/ Exit(i)
      BY <3>1, <3>2, MainConcludes, Zenon
    <3>3. CASE \E i \in Proc : Child(i)
      BY <3>1, <3>3, ChildConcludes, Zenon
    <3>4. CASE \E i \in Proc : Helper(i) \/ Serve(i)
      BY <3>1, <3>4, HelperConcludes, Zenon DEF Serve
    <3> QED
      BY <2>1, <2>2, <3>2, <3>3, <3>4, Zenon DEF Next
  <2> QED
    BY <2>1, <2>2, Zenon
<1>3. AllConclude => \A i \in Proc : pc[i] = "vmm" =>
                       /\ helper[i] # "none"
                       /\ helper[i] = "exited" => ready[i] \/ target[i] # "none"
                       /\ helper[i] = "unheard" => Complete(i)
  BY DEF Concludes, Alive
<1> QED
  BY <1>1, <1>2, <1>3, Invariance, PTL DEF Spec

=============================================================================
