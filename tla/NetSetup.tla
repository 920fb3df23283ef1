------------------------------- MODULE NetSetup -------------------------------
(***************************************************************************)
(* The network of a client VM, from net_setup to the exit listener         *)
(* (host/start-vmm/net.c).                                                 *)
(*                                                                         *)
(* Any number of start-vmm processes run at once, one per VM.  net_setup   *)
(* makes a bridge, puts a client tap and a router tap in it, hands the     *)
(* router tap to the router VM's cloud-hypervisor and forks the exit       *)
(* listener; start-vmm then double-forks the helper that creates the VM    *)
(* and becomes cloud-hypervisor.  The exit listener wakes when the last    *)
(* process that inherited the read end of its pipe is gone, and takes the  *)
(* router's device and the bridge away.  Meanwhile the pid may have been   *)
(* given to a new start-vmm, which uses the same interface names.          *)
(***************************************************************************)
EXTENDS NetUtil

VARIABLES
  pid,       \* pid[i]: the pid of incarnation i (None before it starts)
  pc,        \* pc[i]: where start-vmm is
  tap,       \* tap[i]: the tap_prefix setup_tap was called with
  helper,    \* helper[i]: a double_fork descendant of i is alive
  lpc,       \* lpc[i]: where i's exit listener is
  routerUp,  \* the router VM's cloud-hypervisor is running
  rdev       \* rdev[p]: incarnation whose tap is device "router<p>", or None

processes == <<pid, pc, tap, helper, lpc>>
router == <<routerUp, rdev>>
vars == <<kernel, processes, router>>

(* Stages at which start-vmm has made its bridge and not yet given it up.  *)
Building == {"bridge_up", "tap_open", "tap_add_if", "tap_up", "add_net",
             "listener_setup", "fail_bridge"}
Running == {"fork", "vmm"}
Stage == {"none", "bridge_add", "exit", "dead"} \cup Building \cup Running

(* The listener's stages from its fork to its exit.                        *)
Cleaning == {"remove_device", "remove_if", "if_down", "rename",
             "bridge_cleanup"}
ListenerStage == {"none", "poll", "exiting", "exited"} \cup Cleaning

ProcessType ==
  /\ pid \in [Proc -> Pid \cup {None}]
  /\ pc \in [Proc -> Stage]
  /\ tap \in [Proc -> {"client", "router"}]
  /\ helper \in [Proc -> BOOLEAN]
  /\ lpc \in [Proc -> ListenerStage]
  /\ routerUp \in BOOLEAN
  /\ rdev \in [Pid -> Proc \cup {None}]

(* Every process is at a stage of net.c and the kernel's tables are        *)
(* coherent: an interface that does not exist has no flags, no bridge and  *)
(* no files, and a tap exists exactly while a file of it is open.          *)
TypeOK == KernelType /\ KernelCoherent /\ ProcessType

Init ==
  /\ KernelInit
  /\ pid = [i \in Proc |-> None]
  /\ pc = [i \in Proc |-> "none"]
  /\ tap = [i \in Proc |-> "client"]
  /\ helper = [i \in Proc |-> FALSE]
  /\ lpc = [i \in Proc |-> "none"]
  /\ routerUp = TRUE
  /\ rdev = [p \in Pid |-> None]

Goto(i, s) == pc' = [pc EXCEPT ![i] = s]

-----------------------------------------------------------------------------
(* start-vmm                                                               *)

Alive(i) == pc[i] \notin {"none", "dead"}

(* s6 starts start-vmm; the kernel picks a pid no living process has.      *)
Start(i, p) ==
  /\ pc[i] = "none"
  /\ \A j \in Proc : Alive(j) => pid[j] # p
  /\ pid' = [pid EXCEPT ![i] = p]
  /\ Goto(i, "bridge_add")
  /\ UNCHANGED <<kernel, tap, helper, lpc, router>>

(* Mutant: a failed bridge_add goes to fail_bridge as the later calls do.  *)
BridgeAddDeletes(i) ==
  /\ pc[i] = "bridge_add"
  /\ \/ bridge_add(i, pid[i]) /\ Goto(i, "bridge_up")
     \/ /\ Fails("bridge_add", ~Exists("br", pid[i]))
        /\ Goto(i, "fail_bridge") /\ UNCHANGED kernel
  /\ UNCHANGED <<pid, tap, helper, lpc, router>>

(* net_setup: on failure nothing has been made and nothing is deleted.     *)
BridgeAdd(i) ==
  /\ pc[i] = "bridge_add"
  /\ \/ bridge_add(i, pid[i]) /\ Goto(i, "bridge_up")
     \/ /\ Fails("bridge_add", ~Exists("br", pid[i]))
        /\ Goto(i, "exit") /\ UNCHANGED kernel
  /\ UNCHANGED <<pid, tap, helper, lpc, router>>

BridgeUp(i) ==
  /\ pc[i] = "bridge_up"
  /\ \/ if_up("br", pid[i]) /\ Goto(i, "tap_open")
     \/ /\ Fails("if_up", Exists("br", pid[i]))
        /\ Goto(i, "fail_bridge") /\ UNCHANGED kernel
  /\ UNCHANGED <<pid, tap, helper, lpc, router>>

(* Mutant: a failed setup_tap returns without deleting the bridge.         *)
TapOpenReturns(i) ==
  /\ pc[i] = "tap_open"
  /\ \/ tap_open(i, tap[i], pid[i]) /\ Goto(i, "tap_add_if")
     \/ /\ Fails("tap_open", ~Exists(tap[i], pid[i]))
        /\ Goto(i, "exit") /\ UNCHANGED kernel
  /\ UNCHANGED <<pid, tap, helper, lpc, router>>

(* setup_tap, first for "client" and then for "router".  Its "fail" label  *)
(* closes the tap that is being set up, and no other.                      *)
TapOpen(i) ==
  /\ pc[i] = "tap_open"
  /\ \/ tap_open(i, tap[i], pid[i]) /\ Goto(i, "tap_add_if")
     \/ /\ Fails("tap_open", ~Exists(tap[i], pid[i]))
        /\ Goto(i, "fail_bridge") /\ UNCHANGED kernel
  /\ UNCHANGED <<pid, tap, helper, lpc, router>>

TapAddIf(i) ==
  /\ pc[i] = "tap_add_if"
  /\ \/ bridge_add_if(pid[i], tap[i], pid[i]) /\ Goto(i, "tap_up")
     \/ /\ Fails("bridge_add_if", CanEnslave(pid[i], tap[i], pid[i]))
        /\ CloseFiles({tap[i]}, {i}, "vmm") /\ Goto(i, "fail_bridge")
  /\ UNCHANGED <<pid, tap, helper, lpc, router>>

(* Mutant: setup_tap does not set the tap up.                              *)
TapLeftDown(i) ==
  /\ pc[i] = "tap_up"
  /\ \/ tap[i] = "client" /\ Goto(i, "tap_open")
     \/ tap[i] = "router" /\ Goto(i, "add_net")
  /\ tap' = [tap EXCEPT ![i] = "router"]
  /\ UNCHANGED <<kernel, pid, helper, lpc, router>>

TapUp(i) ==
  /\ pc[i] = "tap_up"
  /\ \/ /\ if_up(tap[i], pid[i])
        /\ \/ tap[i] = "client" /\ Goto(i, "tap_open")
           \/ tap[i] = "router" /\ Goto(i, "add_net")
        /\ tap' = [tap EXCEPT ![i] = "router"]
     \/ /\ Fails("if_up", Exists(tap[i], pid[i]))
        /\ CloseFiles({tap[i]}, {i}, "vmm") /\ Goto(i, "fail_bridge")
        /\ UNCHANGED tap
  /\ UNCHANGED <<pid, helper, lpc, router>>

(* The router's cloud-hypervisor gets a file of the tap and start-vmm      *)
(* closes its own, whether ch-remote succeeded or not.                     *)
CanAddNet(p) == routerUp /\ rdev[p] = None

ch_add_net(i, p) ==
  /\ CanAddNet(p)
  /\ rdev' = [rdev EXCEPT ![p] = i]
  /\ fds' = [fds EXCEPT !["router"][p] = (fds["router"][p] \ {"vmm"})
                                           \cup {"router"}]
  /\ UNCHANGED <<owner, up, port, routerUp>>

(* ch-remote may also fail after the router has acted on its request.      *)
AddNet(i) ==
  /\ pc[i] = "add_net"
  /\ \/ ch_add_net(i, pid[i]) /\ Goto(i, "listener_setup")
     \/ /\ "add_net_reply" \in MayFail
        /\ ch_add_net(i, pid[i]) /\ Goto(i, "fail_bridge")
     \/ /\ Fails("add_net", CanAddNet(pid[i]))
        /\ CloseFiles({"router"}, {i}, "vmm") /\ Goto(i, "fail_bridge")
        /\ UNCHANGED router
  /\ UNCHANGED <<pid, tap, helper, lpc>>

(* The listener is a fork of start-vmm: it has the client tap open too.    *)
ListenerSetup(i) ==
  /\ pc[i] = "listener_setup"
  /\ \/ /\ lpc' = [lpc EXCEPT ![i] = "poll"]
        /\ fds' = [fds EXCEPT !["client"][pid[i]] = @ \cup {"listener"}]
        /\ Goto(i, "fork")
     \/ /\ "fork" \in MayFail
        /\ Goto(i, "fail_bridge")
        /\ UNCHANGED <<lpc, fds>>
  /\ UNCHANGED <<owner, up, port, pid, tap, helper, router>>

(* net_setup's fail_bridge.  The result of bridge_delete is not looked at; *)
(* close(r.fd) is part of Exit, since start-vmm only exits after this.     *)
FailBridge(i) ==
  /\ pc[i] = "fail_bridge"
  /\ bridge_delete(pid[i]) \/ bridge_delete_failed(pid[i])
  /\ Goto(i, "exit")
  /\ UNCHANGED <<pid, tap, helper, lpc, router>>

(* create_vm: the helper inherits the client tap and the listener's pipe.  *)
Fork(i) ==
  /\ pc[i] = "fork"
  /\ \/ /\ helper' = [helper EXCEPT ![i] = TRUE]
        /\ fds' = [fds EXCEPT !["client"][pid[i]] = @ \cup {"helper"}]
        /\ Goto(i, "vmm")
     \/ /\ "fork" \in MayFail
        /\ Goto(i, "exit")
        /\ UNCHANGED <<helper, fds>>
  /\ UNCHANGED <<owner, up, port, pid, tap, lpc, router>>

HelperExit(i) ==
  /\ helper[i]
  /\ helper' = [helper EXCEPT ![i] = FALSE]
  /\ CloseFiles(Kind, {i}, "helper")
  /\ UNCHANGED <<pid, pc, tap, lpc, router>>

(* start-vmm gives up, or cloud-hypervisor ends or could not be executed;  *)
(* "kill": the process is killed in the middle of net_setup.               *)
Exit(i) ==
  /\ \/ pc[i] \in {"exit", "vmm"}
     \/ "kill" \in MayFail /\ pc[i] \in Building
  /\ CloseFiles(Kind, {i}, "vmm")
  /\ Goto(i, "dead")
  /\ UNCHANGED <<pid, tap, helper, lpc, router>>

-----------------------------------------------------------------------------
(* The exit listener                                                       *)

ListenerGoto(i, s) == lpc' = [lpc EXCEPT ![i] = s]

(* Mutant: start-vmm closes the read end before it becomes the VMM.        *)
ListenerWakesEarly(i) ==
  /\ lpc[i] = "poll"
  /\ ~helper[i]
  /\ ListenerGoto(i, "remove_device")
  /\ UNCHANGED <<kernel, pid, pc, tap, helper, router>>

(* poll reports POLLERR once nobody has the read end of the pipe open.     *)
ListenerWake(i) ==
  /\ lpc[i] = "poll"
  /\ pc[i] = "dead" /\ ~helper[i]
  /\ ListenerGoto(i, "remove_device")
  /\ UNCHANGED <<kernel, pid, pc, tap, helper, router>>

(* cloud-hypervisor forgets the device and keeps the tap's file open.      *)
CanRemoveDevice(p) == routerUp /\ rdev[p] # None

(* Mutant: the result of ch_remove_device is not looked at.                *)
RemoveDeviceUnchecked(i) ==
  /\ lpc[i] = "remove_device"
  /\ \/ /\ CanRemoveDevice(pid[i])
        /\ rdev' = [rdev EXCEPT ![pid[i]] = None]
     \/ /\ Fails("remove_device", CanRemoveDevice(pid[i]))
        /\ UNCHANGED rdev
  /\ ListenerGoto(i, "remove_if")
  /\ UNCHANGED <<kernel, pid, pc, tap, helper, routerUp>>

(* Mutant: when it fails the listener exits without bridge_cleanup.        *)
RemoveDeviceExits(i) ==
  /\ lpc[i] = "remove_device"
  /\ \/ /\ CanRemoveDevice(pid[i])
        /\ rdev' = [rdev EXCEPT ![pid[i]] = None]
        /\ ListenerGoto(i, "remove_if")
     \/ /\ Fails("remove_device", CanRemoveDevice(pid[i]))
        /\ ListenerGoto(i, "exiting")
        /\ UNCHANGED rdev
  /\ UNCHANGED <<kernel, pid, pc, tap, helper, routerUp>>

RemoveDevice(i) ==
  /\ lpc[i] = "remove_device"
  /\ \/ /\ CanRemoveDevice(pid[i])
        /\ rdev' = [rdev EXCEPT ![pid[i]] = None]
        /\ ListenerGoto(i, "remove_if")
     \/ /\ Fails("remove_device", CanRemoveDevice(pid[i]))
        /\ ListenerGoto(i, "bridge_cleanup")
        /\ UNCHANGED rdev
  /\ UNCHANGED <<kernel, pid, pc, tap, helper, routerUp>>

RemoveIf(i) ==
  /\ lpc[i] = "remove_if"
  /\ \/ bridge_remove_if(pid[i], "router", pid[i])
     \/ /\ Fails("bridge_remove_if", IsPort(pid[i], "router", pid[i]))
        /\ UNCHANGED kernel
  /\ ListenerGoto(i, "if_down")
  /\ UNCHANGED <<pid, pc, tap, helper, router>>

RouterTapDown(i) ==
  /\ lpc[i] = "if_down"
  /\ \/ if_down("router", pid[i]) /\ ListenerGoto(i, "rename")
     \/ /\ Fails("if_down", Exists("router", pid[i]))
        /\ ListenerGoto(i, "bridge_cleanup") /\ UNCHANGED kernel
  /\ UNCHANGED <<pid, pc, tap, helper, router>>

RouterTapRename(i) ==
  /\ lpc[i] = "rename"
  /\ \/ if_rename("router", "_dead", pid[i])
     \/ /\ Fails("if_rename", CanRename("router", "_dead", pid[i]))
        /\ UNCHANGED kernel
  /\ ListenerGoto(i, "bridge_cleanup")
  /\ UNCHANGED <<pid, pc, tap, helper, router>>

(* The bridge goes last, however the cleanup of the router's tap ended.    *)
BridgeCleanup(i) ==
  /\ lpc[i] = "bridge_cleanup"
  /\ bridge_delete(pid[i]) \/ bridge_delete_failed(pid[i])
  /\ ListenerGoto(i, "exiting")
  /\ UNCHANGED <<pid, pc, tap, helper, router>>

(* The listener exits, or poll fails or it is killed ("listener").         *)
ListenerExit(i) ==
  /\ \/ lpc[i] = "exiting"
     \/ "listener" \in MayFail /\ lpc[i] \in {"poll"} \cup Cleaning
  /\ CloseFiles(Kind, {i}, "listener")
  /\ ListenerGoto(i, "exited")
  /\ UNCHANGED <<pid, pc, tap, helper, router>>

-----------------------------------------------------------------------------
(* The router VM's cloud-hypervisor, restarted by s6 when it exits         *)

RouterExit ==
  /\ routerUp /\ "router" \in MayFail
  /\ routerUp' = FALSE
  /\ rdev' = [p \in Pid |-> None]
  /\ CloseFiles(Kind, Proc, "router")
  /\ UNCHANGED processes

RouterStart ==
  /\ ~routerUp
  /\ routerUp' = TRUE
  /\ UNCHANGED <<kernel, processes, rdev>>

-----------------------------------------------------------------------------

Setup(i) ==
  \/ BridgeAdd(i) \/ BridgeUp(i) \/ TapOpen(i) \/ TapAddIf(i) \/ TapUp(i)
  \/ AddNet(i) \/ ListenerSetup(i) \/ FailBridge(i) \/ Fork(i)

Listener(i) ==
  \/ ListenerWake(i) \/ RemoveDevice(i) \/ RemoveIf(i) \/ RouterTapDown(i)
  \/ RouterTapRename(i) \/ BridgeCleanup(i) \/ ListenerExit(i)

Next ==
  \/ \E i \in Proc : \/ \E p \in Pid : Start(i, p)
                     \/ Setup(i)
                     \/ Exit(i)
                     \/ HelperExit(i)
                     \/ Listener(i)
  \/ RouterExit
  \/ RouterStart

Spec == Init /\ [][Next]_vars

(* The exit listener is scheduled like every process of the host.  Nothing *)
(* is assumed of start-vmm, of cloud-hypervisor, of the router VM or of    *)
(* the helper, whose ch-remote may wait for ever (see StartVmm).           *)
FairSpec == Spec /\ \A i \in Proc : WF_vars(Listener(i))

-----------------------------------------------------------------------------

Listening(i) == lpc[i] \in {"poll"} \cup Cleaning
HoldsBridge(i) == pc[i] \in Building \cup Running \/ Listening(i)

(* Isolation of incarnations that share a pid: whoever is setting up,      *)
(* running or cleaning up owns the bridge of its pid, and the exit         *)
(* listener of a dead VM finds under the names it deletes, downs, renames  *)
(* or removes from the router only what its own incarnation made, never    *)
(* an interface of the VM that was given the pid since (net.c, cleanup by  *)
(* name in router_net_cleanup and bridge_cleanup).                         *)
Isolation ==
  \A i \in Proc :
    /\ HoldsBridge(i) => owner["br"][pid[i]] = i
    /\ Listening(i) => /\ owner["client"][pid[i]] = i
                       /\ owner["router"][pid[i]] \in {i, None}
                       /\ rdev[pid[i]] \in {i, None}

(* No bridge ever joins the interfaces of two incarnations: every port of  *)
(* a bridge was made by the incarnation that made the bridge, although     *)
(* setup_tap finds both by name and dead taps outlive their VM.            *)
NoCrossTalk ==
  \A k \in Kind, p \in Pid :
    port[k][p] # None =>
      owner[k][p] # None /\ owner[k][p] = owner["br"][port[k][p]]

(* Once net_setup has returned a tap, the VM's link to the router is whole *)
(* for as long as cloud-hypervisor runs: the bridge and the client tap are *)
(* up and joined, and the device the router has for this VM is the router  *)
(* tap, up and in the same bridge.  Only a restart of the router undoes it.*)
Linked(i, k) ==
  /\ owner[k][pid[i]] = i
  /\ port[k][pid[i]] = pid[i]
  /\ up[k][pid[i]]

Connected ==
  \A i \in Proc : pc[i] \in Running =>
    /\ owner["br"][pid[i]] = i /\ up["br"][pid[i]]
    /\ Linked(i, "client")
    /\ rdev[pid[i]] = i => Linked(i, "router")
    /\ "router" \notin MayFail => rdev[pid[i]] = i

(* What an incarnation that is gone leaves behind.  Its client tap is gone *)
(* whatever failed or was killed, since a tap lives as long as its files.  *)
(* Its bridge is gone too, whichever call of net_setup failed, unless the  *)
(* deletion itself was cut short.  router<pid> may stay in two cases.      *)
(* Without a listener it stays when the reply to add-net was lost          *)
(* (net.c:62), exit_listener_setup failed (net.c:192) or start-vmm was     *)
(* killed: it is then still the router VM's device for this incarnation.   *)
(* After a listener whose calls succeeded it stays when an older dead tap  *)
(* that the router still has open is in the way of the rename.             *)
Finished(i) == pc[i] = "dead" /\ ~helper[i] /\ lpc[i] \in {"none", "exited"}
BridgeSafe == MayFail \cap {"kill", "listener", "bridge_delete"} = {}
HandoverSafe == MayFail \cap {"kill", "add_net_reply", "fork"} = {}
RouterSafe == MayFail \cap {"listener", "remove_device", "if_down", "if_rename"} = {}

NothingLeaks ==
  \A i \in Proc : Finished(i) =>
    /\ owner["client"][pid[i]] # i
    /\ BridgeSafe => owner["br"][pid[i]] # i
    /\ owner["router"][pid[i]] = i =>
         /\ lpc[i] = "none" => rdev[pid[i]] = i /\ ~HandoverSafe
         /\ lpc[i] = "exited" /\ RouterSafe => owner["_dead"][pid[i]] \notin {i, None}

(* "Work around cloud-hypervisor not closing taps it's no longer using by  *)
(* freeing up the name" (net.c:87): after its exit listener, an            *)
(* incarnation leaves no interface called router<pid>.                     *)
RouterNameFreed ==
  \A i \in Proc : lpc[i] = "exited" => owner["router"][pid[i]] # i

(* "Set up a process that will listen for this process dying, and remove   *)
(* the interface from the netvm, and delete the bridge" (net.c:189): once  *)
(* the VM is dead, and the helper that inherited the listener's pipe with  *)
(* it, its bridge and client tap eventually disappear and the router VM    *)
(* loses the device.  (What can keep the helper: ListenerHearsUnlessPending*)
(* of StartVmm.)                                                           *)
CleanupCompletes ==
  \A i \in Proc :
    (pc[i] = "dead" /\ ~helper[i] /\ lpc[i] = "poll") ~>
      /\ lpc[i] = "exited"
      /\ owner["br"][pid[i]] # i
      /\ owner["client"][pid[i]] # i
      /\ rdev[pid[i]] # i

(* The inductive invariant behind Isolation, NoCrossTalk and Connected:    *)
(* what an incarnation relies on at each stage.  All of it but StagesAgree *)
(* is void for an incarnation that does not hold its bridge.               *)

(* Which stages of start-vmm, helper and listener occur together.          *)
StagesAgree(i) ==
  /\ pc[i] # "none" => pid[i] \in Pid
  /\ pc[i] \in {"none", "bridge_add"} \cup Building =>
       lpc[i] = "none" /\ ~helper[i]
  /\ pc[i] \in Running \cup {"exit"} => lpc[i] \in {"none", "poll", "exited"}
  /\ pc[i] \in Running => lpc[i] # "none"
  /\ helper[i] => pc[i] \in {"vmm", "dead"} /\ lpc[i] \in {"poll", "exited"}
  /\ lpc[i] \in Cleaning \cup {"exiting"} => pc[i] = "dead"
  /\ pc[i] \in {"none", "bridge_add", "bridge_up"} => tap[i] = "client"
  /\ pc[i] \in {"add_net", "listener_setup"} \cup Running => tap[i] = "router"

BridgeHeld(i) == HoldsBridge(i) => owner["br"][pid[i]] = i

(* The tap setup_tap is at work on, and the client tap once it is set up.  *)
Setting == {"tap_open", "tap_add_if", "tap_up", "add_net"}
Made == {"listener_setup"} \cup Running
ClientDone(i) == pc[i] \in Made \/ (pc[i] \in Setting /\ tap[i] = "router")
HasTap(i, k) == owner[k][pid[i]] = i /\ "vmm" \in fds[k][pid[i]]

TapsHeld(i) ==
  /\ pc[i] \in Setting \ {"tap_open"} => HasTap(i, tap[i])
  /\ pc[i] = "tap_up" => port[tap[i]][pid[i]] = pid[i]
  /\ pc[i] = "add_net" => Linked(i, "router")
  /\ pc[i] \in Setting \cup Made => up["br"][pid[i]]
  /\ ClientDone(i) => HasTap(i, "client") /\ Linked(i, "client")
  /\ Listening(i) => owner["client"][pid[i]] = i
                     /\ "listener" \in fds["client"][pid[i]]

(* What the router VM has for this incarnation.                            *)
DeviceHeld(i) ==
  /\ pc[i] \in Made \/ Listening(i) => owner["router"][pid[i]] \in {i, None}
  /\ lpc[i] \in {"remove_if", "if_down", "rename"} => rdev[pid[i]] = None
  /\ pc[i] \in Made => /\ rdev[pid[i]] = i => Linked(i, "router")
                       /\ "router" \notin MayFail => rdev[pid[i]] = i

(* A device of the router VM is the router tap of whoever added it.        *)
RouterDevices ==
  \A p \in Pid : rdev[p] # None =>
    owner["router"][p] = rdev[p] /\ "router" \in fds["router"][p]

(* Everything above, of every incarnation, at every step of net.c.         *)
Inv ==
  /\ TypeOK /\ NoCrossTalk /\ RouterDevices
  /\ \A i \in Proc :
       StagesAgree(i) /\ BridgeHeld(i) /\ TapsHeld(i) /\ DeviceHeld(i)

-----------------------------------------------------------------------------

(* The inductive invariant behind NothingLeaks: who accounts for each      *)
(* interface that i made, until it is gone.                                *)

(* Its name has i's pid, and i has started.                                *)
NamedAfter(i) ==
  \A k \in Kind, p \in Pid : owner[k][p] = i => pc[i] # "none" /\ pid[i] = p

Owns(i, k) == pc[i] # "none" /\ owner[k][pid[i]] = i

(* Without those faults the listener outlives the VM and its helper, and   *)
(* whoever holds the bridge deletes it.                                    *)
BridgeKept(i) ==
  /\ "listener" \notin MayFail => (lpc[i] = "exited" => pc[i] = "dead" /\ ~helper[i])
  /\ BridgeSafe => (Owns(i, "br") => HoldsBridge(i))

(* The client tap is open in living processes of i only.                   *)
ClientKept(i) ==
  Owns(i, "client") =>
    /\ "vmm" \in fds["client"][pid[i]] => Alive(i)
    /\ "helper" \in fds["client"][pid[i]] => helper[i]
    /\ "listener" \in fds["client"][pid[i]] => lpc[i] \notin {"none", "exited"}
    /\ "router" \notin fds["client"][pid[i]]

(* No fork inherits the router tap.  Once the router has taken it nobody   *)
(* else has it open, and it has a device for it until the listener removes *)
(* that; start-vmm goes on to fork the listener, or a fault kept it from   *)
(* doing so.  A listener that leaves the name has found an older dead tap. *)
Renamed == {"bridge_cleanup", "exiting", "exited"}

RouterKept(i) ==
  Owns(i, "router") =>
    /\ fds["router"][pid[i]] \subseteq {"vmm", "router"}
    /\ "vmm" \in fds["router"][pid[i]] => Alive(i)
    /\ lpc[i] = "none" /\ "router" \in fds["router"][pid[i]] =>
         rdev[pid[i]] = i /\ (pc[i] = "listener_setup" \/ ~HandoverSafe)
    /\ pc[i] \in Made \/ lpc[i] # "none" => fds["router"][pid[i]] = {"router"}
    /\ pc[i] \in Made \/ lpc[i] \in {"poll", "remove_device"} => rdev[pid[i]] = i
    /\ RouterSafe /\ lpc[i] = "rename" => ~up["router"][pid[i]]
    /\ RouterSafe /\ lpc[i] \in Renamed => owner["_dead"][pid[i]] \notin {i, None}

(* A dead tap was renamed by its listener; only the router has it open.    *)
DeadKept(i) ==
  Owns(i, "_dead") => fds["_dead"][pid[i]] = {"router"} /\ lpc[i] \in Renamed

Accounts(i) ==
  NamedAfter(i) /\ BridgeKept(i) /\ ClientKept(i) /\ RouterKept(i) /\ DeadKept(i)

(* Inv and the accounts of every incarnation, at every step of net.c.      *)
Ledger ==
  /\ Inv
  /\ \A p \in Pid : rdev[p] # None => routerUp
  /\ \A i \in Proc : Accounts(i)

-----------------------------------------------------------------------------

(* The bridge is a lease on the pid's interface names: taken when it is    *)
(* added, held by the same incarnation while its VM runs, and given back   *)
(* only by that incarnation or its listener.                               *)
Lease == INSTANCE PidLease WITH
           lease <- owner["br"],
           active <- {i \in Proc : pc[i] \in Running}

LeaseSpec == Lease!Spec

=============================================================================
