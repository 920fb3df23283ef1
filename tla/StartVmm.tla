------------------------------- MODULE StartVmm -------------------------------
(***************************************************************************)
(* start-vmm for one VM directory (host/start-vmm: start-vmm.rs, lib.rs,   *)
(* ch.rs, s6.rs, fork.c), started again by s6 whenever it has died.        *)
(*                                                                         *)
(* start-vmm binds the API socket vm_dir/vmm, sets the network up, double- *)
(* forks a helper and becomes cloud-hypervisor.  The helper drives the new *)
(* VMM through ch-remote, by the socket's path: create, add-net, then it   *)
(* notifies s6.  The listening socket is inherited by the exit listener,   *)
(* by the intermediate child and by the helper, so it stays open when      *)
(* cloud-hypervisor dies; the path may by then belong to a new VMM.        *)
(*                                                                         *)
(* net_setup is one step here (NetSetup has its detail), and so is         *)
(* sending the grandchild's pid through double_fork's pipe: start-vmm      *)
(* installs no signal handler, so no signal interrupts its reads and       *)
(* writes without killing it (DoubleFork has what they would do then).     *)
(***************************************************************************)
CONSTANTS
  Proc,      \* incarnations of start-vmm
  None,      \* no incarnation
  WithNet,   \* TRUE iff the VM has a net provider (config/providers/net)
  MayFail    \* the calls and processes that may fail for any reason

ASSUME StartAssumption == None \notin Proc /\ WithNet \in BOOLEAN

VARIABLES
  pc,        \* pc[i]: where start-vmm is, "vmm" once it is cloud-hypervisor
  child,     \* child[i]: the intermediate child of double_fork
  msg,       \* msg[i]: what the child wrote into double_fork's pipe
  helper,    \* helper[i]: the grandchild, with the ch-remote it waits for
  conn,      \* conn[i]: the VMM whose socket ch-remote is connected to
  accepted,  \* accepted[i]: that VMM has accepted the connection
  target,    \* target[i]: who got the SIGTERM the helper sent
  listener,  \* listener[i]: the exit listener
  path,      \* the incarnation whose socket is at vm_dir/vmm
  vm,        \* vm[j]: whose helper created the VM in VMM j
  nets,      \* nets[j]: whose taps have been added to VMM j
  ready      \* ready[i]: s6 was notified that i is ready

main == <<pc, msg, path>>
helpers == <<child, helper, conn, accepted, target>>
vmms == <<vm, nets, ready>>
vars == <<main, helpers, listener, vmms>>

(* Stages of start-vmm before it is cloud-hypervisor.                      *)
Starting == {"remove", "bind", "config", "fork", "read", "exec"}
Stage == {"none", "vmm", "exit", "dead"} \cup Starting
ChildStage == {"none", "fork", "write", "write_error", "exited", "killed"}
HelperStage == {"none", "create", "add_net", "notify", "failed", "exited", "unheard"}

(* Every process is at a stage of the code, and refers to incarnations.    *)
TypeOK ==
  /\ pc \in [Proc -> Stage]
  /\ child \in [Proc -> ChildStage]
  /\ msg \in [Proc -> {"none", "pid", "error"}]
  /\ helper \in [Proc -> HelperStage]
  /\ conn \in [Proc -> Proc \cup {None}]
  /\ accepted \in [Proc -> BOOLEAN]
  /\ target \in [Proc -> {"none", "child", "init"}]
  /\ listener \in [Proc -> {"none", "poll", "woken", "exited"}]
  /\ path \in Proc \cup {None}
  /\ vm \in [Proc -> Proc \cup {None}]
  /\ nets \in [Proc -> SUBSET Proc]
  /\ ready \in [Proc -> BOOLEAN]

Init ==
  /\ pc = [i \in Proc |-> "none"]
  /\ child = [i \in Proc |-> "none"]
  /\ msg = [i \in Proc |-> "none"]
  /\ helper = [i \in Proc |-> "none"]
  /\ conn = [i \in Proc |-> None]
  /\ accepted = [i \in Proc |-> FALSE]
  /\ target = [i \in Proc |-> "none"]
  /\ listener = [i \in Proc |-> "none"]
  /\ path = None
  /\ vm = [i \in Proc |-> None]
  /\ nets = [i \in Proc |-> {}]
  /\ ready = [i \in Proc |-> FALSE]

Goto(i, s) == pc' = [pc EXCEPT ![i] = s]
Fails(c) == c \in MayFail

Alive(i) == pc[i] \notin {"none", "dead"}
ChildAlive(i) == child[i] \in {"fork", "write", "write_error"}
HelperAlive(i) == helper[i] \notin {"none", "exited", "unheard"}

(* Who has the listening socket of j open, all of them by inheritance.     *)
SocketOpen(j) ==
  \/ Alive(j) /\ pc[j] \notin {"remove", "bind"}
  \/ ChildAlive(j) \/ HelperAlive(j) \/ listener[j] \in {"poll", "woken"}

-----------------------------------------------------------------------------
(* start-vmm                                                               *)

(* s6-supervise starts the service when the last process of it has died.   *)
Start(i) ==
  /\ pc[i] = "none"
  /\ \A j \in Proc : ~Alive(j)
  /\ Goto(i, "remove")
  /\ UNCHANGED <<msg, path, helpers, listener, vmms>>

(* remove_file of the old socket, whose error is ignored.                  *)
remove_file(i) ==
  /\ pc[i] = "remove" /\ Goto(i, "bind")
  /\ path' = None \/ (Fails("remove") /\ path' = path)
  /\ UNCHANGED <<msg, helpers, listener, vmms>>

(* Mutant: bind's failure is ignored, and the old socket file is in place. *)
BindIgnored(i) ==
  /\ pc[i] = "bind"
  /\ path' \in {path, i} /\ Goto(i, "config")
  /\ UNCHANGED <<msg, helpers, listener, vmms>>

(* bind fails where a file is left; the new one stays when CLOEXEC cannot  *)
(* be cleared.                                                             *)
bind(i) ==
  /\ pc[i] = "bind"
  /\ \/ path = None /\ path' = i /\ Goto(i, "config")
     \/ path = None /\ Fails("bind") /\ path' \in {None, i} /\ Goto(i, "exit")
     \/ path # None /\ path' = path /\ Goto(i, "exit")
  /\ UNCHANGED <<msg, helpers, listener, vmms>>

create_api_socket(i) == remove_file(i) \/ bind(i)

(* vm_config, with net_setup and its exit listener when there is a net.    *)
vm_config(i) ==
  /\ pc[i] = "config"
  /\ \/ /\ Goto(i, "fork")
        /\ listener' = [listener EXCEPT ![i] = IF WithNet THEN "poll" ELSE @]
     \/ /\ Fails("config")
        /\ Goto(i, "exit") /\ UNCHANGED listener
  /\ UNCHANGED <<msg, path, helpers, vmms>>

(* double_fork in start-vmm: pipe and fork, then read until the pid is in. *)
(* At end of file read returns 0 and the loop goes on: no step.            *)
double_fork(i) ==
  /\ pc[i] = "fork"
  /\ \/ Goto(i, "read") /\ child' = [child EXCEPT ![i] = "fork"]
     \/ Fails("fork") /\ Goto(i, "exit") /\ UNCHANGED child
  /\ UNCHANGED <<msg, path, helper, conn, accepted, target, listener, vmms>>

ReadPid(i) ==
  /\ pc[i] = "read" /\ msg[i] # "none"
  /\ Goto(i, IF msg[i] = "pid" THEN "exec" ELSE "exit")
  /\ UNCHANGED <<msg, path, helpers, listener, vmms>>

Exec(i) ==
  /\ pc[i] = "exec"
  /\ \/ Goto(i, "vmm")
     \/ Fails("exec") /\ Goto(i, "exit")
  /\ UNCHANGED <<msg, path, helpers, listener, vmms>>

(* start-vmm exits; cloud-hypervisor ends or is stopped ("vmm"); either is *)
(* killed ("kill").                                                        *)
Exit(i) ==
  /\ \/ pc[i] = "exit"
     \/ pc[i] = "vmm" /\ Fails("vmm")
     \/ pc[i] \in Starting /\ Fails("kill")
  /\ Goto(i, "dead")
  /\ UNCHANGED <<msg, path, helpers, listener, vmms>>

-----------------------------------------------------------------------------
(* The intermediate child                                                  *)

ChildFork(i) ==
  /\ child[i] = "fork"
  /\ \/ /\ child' = [child EXCEPT ![i] = "write"]
        /\ helper' = [helper EXCEPT ![i] = "create"]
     \/ /\ Fails("fork")
        /\ child' = [child EXCEPT ![i] = "write_error"]
        /\ UNCHANGED helper
  /\ UNCHANGED <<main, conn, accepted, target, listener, vmms>>

ChildWrite(i) ==
  /\ child[i] \in {"write", "write_error"}
  /\ msg' = [msg EXCEPT ![i] = IF child[i] = "write" THEN "pid" ELSE "error"]
  /\ child' = [child EXCEPT ![i] = "exited"]
  /\ UNCHANGED <<pc, path, helper, conn, accepted, target, listener, vmms>>

-----------------------------------------------------------------------------
(* The helper: create_vm_child_main and the ch-remote commands it runs     *)

HelperGoto(i, s) == helper' = [helper EXCEPT ![i] = s]
Requesting(i) == helper[i] \in {"create", "add_net"}

(* ch-remote connects to whatever is bound at the path.                    *)
Reachable == path # None /\ SocketOpen(path)

Connect(i) ==
  /\ Requesting(i) /\ conn[i] = None
  /\ \/ /\ Reachable
        /\ conn' = [conn EXCEPT ![i] = path] /\ UNCHANGED helper
     \/ /\ Fails("ch-remote") \/ ~Reachable
        /\ HelperGoto(i, "failed") /\ UNCHANGED conn
  /\ UNCHANGED <<main, child, accepted, target, listener, vmms>>

(* The connection is reset when the VMM that accepted it has died, or when *)
(* nobody has the listening socket open any more.                          *)
Reset(i) ==
  /\ Requesting(i) /\ conn[i] # None
  /\ IF accepted[i] THEN ~Alive(conn[i]) ELSE ~SocketOpen(conn[i])
  /\ conn' = [conn EXCEPT ![i] = None]
  /\ accepted' = [accepted EXCEPT ![i] = FALSE]
  /\ HelperGoto(i, "failed")
  /\ UNCHANGED <<main, child, target, listener, vmms>>

(* kill(parent_id(), SIGTERM): the parent is the intermediate child, or    *)
(* init when the child has exited.  The helper then exits.                 *)
KillParent(i) ==
  /\ helper[i] = "failed"
  /\ IF ChildAlive(i)
       THEN /\ target' = [target EXCEPT ![i] = "child"]
            /\ child' = [child EXCEPT ![i] = "killed"]
       ELSE /\ target' = [target EXCEPT ![i] = "init"]
            /\ UNCHANGED child
  /\ HelperGoto(i, "exited")
  /\ UNCHANGED <<main, conn, accepted, listener, vmms>>

(* Mutant: the helper exits without notifying s6.                          *)
NotifyForgotten(i) ==
  /\ helper[i] = "notify"
  /\ HelperGoto(i, "exited")
  /\ UNCHANGED <<main, child, conn, accepted, target, listener, vmms>>

(* s6-supervise reads the notification of the process it is waiting for.   *)
(* The helper exits even if it could not be written, with no signal then.  *)
notify_readiness(i) ==
  /\ helper[i] = "notify"
  /\ \/ ready' = [ready EXCEPT ![i] = Alive(i)] /\ HelperGoto(i, "exited")
     \/ Fails("notify") /\ HelperGoto(i, "unheard") /\ UNCHANGED ready
  /\ UNCHANGED <<main, child, conn, accepted, target, listener, vm, nets>>

-----------------------------------------------------------------------------
(* cloud-hypervisor's API server                                           *)

Accept(j, i) ==
  /\ pc[j] = "vmm" /\ conn[i] = j /\ ~accepted[i]
  /\ accepted' = [accepted EXCEPT ![i] = TRUE]
  /\ UNCHANGED <<main, child, helper, conn, target, listener, vmms>>

(* One VM per VMM; a net can be added once there is a VM.                  *)
Perform(j, i) ==
  \/ /\ helper[i] = "create" /\ vm[j] = None
     /\ vm' = [vm EXCEPT ![j] = i]
     /\ HelperGoto(i, IF WithNet THEN "add_net" ELSE "notify")
     /\ UNCHANGED nets
  \/ /\ helper[i] = "add_net" /\ vm[j] # None
     /\ nets' = [nets EXCEPT ![j] = @ \cup {i}]
     /\ HelperGoto(i, "notify")
     /\ UNCHANGED vm

(* Mutant: the exit status of ch-remote is not looked at.                  *)
RefusalIgnored(j, i) ==
  /\ \/ Requesting(i) /\ Fails("answer")
     \/ helper[i] = "create" /\ vm[j] # None
     \/ helper[i] = "add_net" /\ vm[j] = None
  /\ HelperGoto(i, IF WithNet /\ helper[i] = "create" THEN "add_net" ELSE "notify")
  /\ UNCHANGED <<vm, nets>>

Refuse(j, i) ==
  /\ \/ Requesting(i) /\ Fails("answer")
     \/ helper[i] = "create" /\ vm[j] # None
     \/ helper[i] = "add_net" /\ vm[j] = None
  /\ HelperGoto(i, "failed")
  /\ UNCHANGED <<vm, nets>>

Answer(j, i) ==
  /\ pc[j] = "vmm" /\ conn[i] = j /\ accepted[i]
  /\ Perform(j, i) \/ Refuse(j, i)
  /\ conn' = [conn EXCEPT ![i] = None]
  /\ accepted' = [accepted EXCEPT ![i] = FALSE]
  /\ UNCHANGED <<main, child, target, listener, ready>>

-----------------------------------------------------------------------------

(* Mutant: the listener forgets to close its own copy of the read end.     *)
ListenerHoldsReadEnd(i) ==
  /\ listener[i] = "poll"
  /\ ~Alive(i) /\ ~ChildAlive(i) /\ ~HelperAlive(i) /\ listener[i] # "poll"
  /\ listener' = [listener EXCEPT ![i] = "woken"]
  /\ UNCHANGED <<main, helpers, vmms>>

(* Nobody has the read end of the listener's pipe open any more.           *)
ListenerWake(i) ==
  /\ listener[i] = "poll"
  /\ ~Alive(i) /\ ~ChildAlive(i) /\ ~HelperAlive(i)
  /\ listener' = [listener EXCEPT ![i] = "woken"]
  /\ UNCHANGED <<main, helpers, vmms>>

(* The listener has cleaned up (NetSetup has the detail) and exits.        *)
ListenerExit(i) ==
  /\ listener[i] = "woken"
  /\ listener' = [listener EXCEPT ![i] = "exited"]
  /\ UNCHANGED <<main, helpers, vmms>>

Main(i) ==
  create_api_socket(i) \/ vm_config(i) \/ double_fork(i) \/ ReadPid(i) \/ Exec(i)
Child(i) == ChildFork(i) \/ ChildWrite(i)
Helper(i) == Connect(i) \/ Reset(i) \/ KillParent(i) \/ notify_readiness(i)
Serve(j) == \E i \in Proc : Accept(j, i) \/ Answer(j, i)

Next ==
  \E i \in Proc : \/ Start(i) \/ Main(i) \/ Exit(i) \/ Child(i)
                  \/ Helper(i) \/ Serve(i) \/ ListenerWake(i) \/ ListenerExit(i)

Spec == Init /\ [][Next]_vars

(* Every process that can run is scheduled, and a cloud-hypervisor that    *)
(* runs serves its socket.  Nothing makes a VMM die or s6 start one.       *)
FairSpec ==
  /\ Spec
  /\ \A i \in Proc :
       /\ WF_vars(Main(i)) /\ WF_vars(pc[i] = "exit" /\ Exit(i))
       /\ WF_vars(Child(i)) /\ WF_vars(Helper(i))
       /\ WF_vars(ListenerWake(i)) /\ WF_vars(ListenerExit(i))
       /\ \A j \in Proc : WF_vars(Accept(j, i)) /\ WF_vars(Answer(j, i))

-----------------------------------------------------------------------------

(* s6 hears that a VM is ready only when its VMM holds the VM this very    *)
(* incarnation configured, with its own network: not one that the helper   *)
(* of an earlier incarnation created through the same path (lib.rs,        *)
(* create_vm_child_main, notifying after ch::create_vm has succeeded).     *)
Complete(i) == vm[i] = i /\ (WithNet => i \in nets[i])

ReadyMeansCreated ==
  \A i \in Proc : ready[i] /\ pc[i] = "vmm" => Complete(i)

(* The inductive invariant behind it.                                      *)

(* s6 runs one incarnation at a time.                                      *)
OneAtATime == \A i, j \in Proc : Alive(i) /\ Alive(j) => i = j

(* Nothing of a helper exists before double_fork.                          *)
Forked(i) ==
  /\ pc[i] \in {"none", "remove", "bind", "config", "fork"} => child[i] = "none"
  /\ child[i] \in {"none", "fork"} => helper[i] = "none"
  /\ helper[i] = "none" => conn[i] = None /\ ~ready[i]

(* While an incarnation lives the path is its own, and its ch-remotes talk *)
(* to its own VMM.                                                         *)
HoldsPath(i) ==
  /\ \/ pc[i] \in (Starting \ {"remove", "bind"}) \cup {"vmm"}
     \/ Alive(i) /\ child[i] # "none"
     => path = i /\ conn[i] \in {i, None}

(* What a living incarnation's helper has achieved so far.                 *)
Achieved(i) ==
  Alive(i) => /\ helper[i] = "add_net" => vm[i] = i
              /\ helper[i] = "notify" \/ ready[i] => Complete(i)

(* All of it, at every step of start-vmm and of its helpers.               *)
Inv ==
  /\ TypeOK /\ OneAtATime
  /\ \A i \in Proc : Forked(i) /\ HoldsPath(i) /\ Achieved(i)

(* s6 is told of every cloud-hypervisor that keeps running that it is      *)
(* ready, with two exceptions: its helper gave up on the VM and sent its   *)
(* signal, or could not write the notification.  After either the VMM runs *)
(* on unready and s6-svwait -U does not return (create_vm_child_main).     *)
EveryVmmSettles ==
  \A i \in Proc :
    pc[i] = "vmm" ~> \/ ready[i] \/ pc[i] = "dead"
                     \/ target[i] # "none" \/ helper[i] = "unheard"

(* The exit listener of a dead incarnation wakes up, unless a ch-remote of *)
(* that incarnation waits on a connection that no VMM has accepted: the    *)
(* one thing that keeps a helper, and with it the listener's pipe, open.   *)
ListenerHearsUnlessPending ==
  \A i \in Proc :
    pc[i] = "dead" /\ listener[i] = "poll" ~>
      listener[i] = "woken" \/ (conn[i] # None /\ ~accepted[i])

(* "killing cloud-hypervisor" (lib.rs:175): once the helper has given up   *)
(* on creating the VM, cloud-hypervisor does not go on without a VM.       *)
FailedCreateEndsVmm ==
  \A i \in Proc : target[i] # "none" ~> pc[i] = "dead"

=============================================================================
