------------------------------- MODULE HostBoot -------------------------------
(***************************************************************************)
(* The host from rc.init to started VMs (host/rootfs/etc and usr/bin).     *)
(* rc.init's "s6-rc change ok-all" holds s6-rc's lock while the services   *)
(* come up: kvm, ext and card0 wait for their devices, ext-rc-init imports *)
(* the VMs.  Meanwhile mdevd handles devices: for a network card it has    *)
(* net/add give the card to the network VM, once it is there.  The user's  *)
(* vm-start boots a VM after its providers.                                *)
(*                                                                         *)
(* A VM's VMM is one step from being started to having created its VM, and *)
(* one to being ready: modules StartVmm and NetSetup have the detail.      *)
(* What may fail for any reason, may fail here whenever it is done.        *)
(***************************************************************************)
EXTENDS MdevWait, FiniteSets

CONSTANTS
  Vm,          \* the VMs of /ext/svc/data
  Providers,   \* Providers[v]: the VMs of v's config/providers/net
  NetVm,       \* user.netvm
  MaxDeaths    \* bound on the VMMs that die

(* The second event of ext finds /dev/ext there and never gets to listen.  *)
(* No VM reaches itself through its providers, so that every VM has a      *)
(* rank above theirs: vm-start would not end.                              *)
ASSUME BootAssumption ==
  /\ {"kvm", "ext"} \subseteq Name
  /\ MaxEvents \in [Name -> Nat] /\ MaxEvents["ext"] = 1
  /\ NetVm \in Vm /\ Vm \cap {"off", "free", "boot", "net"} = {}
  /\ Providers \in [Vm -> SUBSET Vm] /\ MaxDeaths \in Nat
  /\ IsFiniteSet(Vm)
  /\ \E rank \in [Vm -> 0 .. Cardinality(Vm)] :
       \A v \in Vm : \A p \in Providers[v] : rank[p] < rank[v]

VARIABLES
  lock,       \* who runs s6-rc change: rc.init ("boot"), net/add ("net"),
              \* the vm-start of a VM, or nobody ("off" before rc.init)
  import,     \* import[v]: the command vm-import is at for v
  vmm,        \* vmm[v]: v's VMM
  booted,     \* the VMs that ch-remote booted, of the VMMs that live
  refused,    \* the VMs that ch-remote once failed to boot, though created
  net,        \* the command net/add is at
  starting,   \* starting[v]: the command vm-start v is at
  deaths,     \* how many VMMs have died
  late        \* the wait for kvm has timed out

s6 == <<lock, import, vmm, booted, refused, net, starting, deaths, late>>
host == <<rendezvous, s6>>

(* "empty": without a VM; "mute": with one, but s6 was not notified.       *)
VmmStage == {"none", "starting", "empty", "created", "mute", "ready"}
Created(v) == vmm[v] \in {"created", "mute", "ready"}

NetStage == {"none", "bind", "s6-rc", "change", "svwait", "add-device", "offered", "failed"}

HostType ==
  /\ WaitType
  /\ lock \in {"off", "free", "boot", "net"} \cup Vm
  /\ import \in [Vm -> {"none", "create", "svwait", "done"}]
  /\ vmm \in [Vm -> VmmStage]
  /\ booted \subseteq Vm /\ refused \subseteq Vm
  /\ net \in NetStage
  /\ starting \in [Vm -> {"none", "s6-rc", "change", "providers", "boot", "done"}]
  /\ deaths \in 0 .. MaxDeaths /\ late \in BOOLEAN

HostInit ==
  /\ WaitInit
  /\ lock = "off"
  /\ import = [v \in Vm |-> "none"] /\ vmm = [v \in Vm |-> "none"]
  /\ booted = {} /\ refused = {} /\ net = "none"
  /\ starting = [v \in Vm |-> "none"]
  /\ deaths = 0 /\ late = FALSE

-----------------------------------------------------------------------------
(* s6-rc change: the services of a bundle                                  *)

(* ok-all and ext-rc hold weston, which needs card0 (one of Name, perhaps; *)
(* it is waited for as ext is); ext-rc-init does not.                      *)
Waits(who) == IF who = "net" THEN {"kvm", "ext"} ELSE Name

(* What is not up yet, what failed included, is started.                   *)
Change(who) ==
  /\ lock' = who
  /\ waiter' = [x \in Name |-> IF x \in Waits(who) /\ waiter[x] \in {"none", "failed"}
                               THEN "mkfifo" ELSE waiter[x]]
  /\ UNCHANGED <<file, line, orphan, listener>>

(* ext-rc-init starts when its dependencies are up.                        *)
ExtRcInit ==
  /\ lock \notin {"off", "free"}
  /\ waiter["kvm"] = "passed" /\ waiter["ext"] = "passed"
  /\ \A v \in Vm : import[v] = "none"
  /\ import' = [v \in Vm |-> "create"]
  /\ UNCHANGED <<rendezvous, lock, vmm, booted, refused, net, starting, deaths, late>>

Failed == waiter["kvm"] = "failed" \/ waiter["ext"] = "failed"

(* s6-rc ends when every service is up or cannot be started.               *)
Settled(who) ==
  /\ lock = who
  /\ \A x \in Waits(who) : waiter[x] \in {"passed", "failed"}
  /\ Failed \/ \A v \in Vm : import[v] = "done"

(* rc.init, which also starts mdevd.                                       *)
RcInit ==
  /\ lock = "off" /\ Change("boot")
  /\ UNCHANGED <<import, vmm, booted, refused, net, starting, deaths, late>>

RcInitEnds ==
  /\ Settled("boot") /\ lock' = "free"
  /\ UNCHANGED <<rendezvous, import, vmm, booted, refused, net, starting, deaths, late>>

-----------------------------------------------------------------------------
(* vm-import, for all VMs at once (forx -p)                                *)

ImportGoto(v, s) == import' = [import EXCEPT ![v] = s]

(* Mutant: one VM after the other, forx without -p.                        *)
ImportInTurn(v) ==
  /\ import[v] = "create" /\ \A u \in Vm : import[u] # "svwait"
  /\ ImportGoto(v, "svwait")
  /\ vmm' = [vmm EXCEPT ![v] = "starting"]
  /\ UNCHANGED <<rendezvous, lock, booted, refused, net, starting, deaths, late>>

(* mkdir, ln, create-vm-dependencies, s6-instance-create.                  *)
ImportCreate(v) ==
  /\ import[v] = "create"
  /\ ImportGoto(v, "svwait")
  /\ vmm' = [vmm EXCEPT ![v] = "starting"]
  /\ UNCHANGED <<rendezvous, lock, booted, refused, net, starting, deaths, late>>

ImportWait(v) ==
  /\ import[v] = "svwait" /\ vmm[v] = "ready"
  /\ ImportGoto(v, "done")
  /\ UNCHANGED <<rendezvous, lock, vmm, booted, refused, net, starting, deaths, late>>

(* start-vmm adds an interface to the provider's VM; when that has not     *)
(* been created yet, or when net_setup or double_fork fails, it exits and  *)
(* s6 starts it again.  When create is refused the VMM stays without a VM. *)
VmmCreates(v) ==
  /\ vmm[v] = "starting" /\ \A p \in Providers[v] : Created(p)
  /\ \E s \in {"created", "empty"} : vmm' = [vmm EXCEPT ![v] = s]
  /\ UNCHANGED <<rendezvous, lock, import, booted, refused, net, starting, deaths, late>>

(* The helper notifies s6, or exits without.                               *)
VmmReady(v) ==
  /\ vmm[v] = "created"
  /\ \E s \in {"ready", "mute"} : vmm' = [vmm EXCEPT ![v] = s]
  /\ UNCHANGED <<rendezvous, lock, import, booted, refused, net, starting, deaths, late>>

(* s6 starts the VMM again, with a VM that is not booted.                  *)
VmmDies(v) ==
  /\ vmm[v] \notin {"none", "starting"} /\ deaths < MaxDeaths
  /\ vmm' = [vmm EXCEPT ![v] = "starting"]
  /\ booted' = booted \ {v} /\ deaths' = deaths + 1
  /\ UNCHANGED <<rendezvous, lock, import, refused, net, starting, late>>

-----------------------------------------------------------------------------
(* mdevd                                                                   *)

(* Mutant: net/add does all its work in the foreground.                    *)
MdevdBusyToTheEnd == net \in {"bind", "s6-rc", "change", "svwait", "add-device"}

(* mdevd runs net/add up to its background block, and no other script.     *)
MdevdBusy == net = "bind"

(* The device appears, by itself or for mdevd-coldplug.                    *)
DeviceEvent(x) ==
  /\ lock # "off" /\ ~MdevdBusy
  /\ \E k \in Event(x) :
       /\ listener[x][k] = "none" /\ \A j \in 1 .. k - 1 : listener[x][j] # "none"
       /\ ListenerGoto(x, k, "mkfifo")
  /\ UNCHANGED <<file, line, waiter, orphan, s6>>

NetGoto(s) == net' = s
NetSame == UNCHANGED <<import, vmm, booted, refused, starting, deaths, late>>

(* A network card appears; net/add unbinds it from its driver.             *)
NetEvent ==
  /\ lock # "off" /\ ~MdevdBusy /\ net = "none" /\ NetGoto("bind")
  /\ NetSame /\ UNCHANGED <<rendezvous, lock>>

NetBackground ==
  /\ net = "bind" /\ NetGoto("s6-rc")
  /\ NetSame /\ UNCHANGED <<rendezvous, lock>>

(* Mutant: s6-rc takes no lock.                                            *)
NetChangeAnyway ==
  /\ net = "s6-rc" /\ Change("net") /\ NetGoto("change") /\ NetSame

(* -b: the lock is waited for.                                             *)
NetChange ==
  /\ net = "s6-rc" /\ lock = "free" /\ Change("net") /\ NetGoto("change") /\ NetSame

NetChanged ==
  /\ net = "change" /\ Settled("net") /\ lock' = "free" /\ NetGoto("svwait")
  /\ NetSame /\ UNCHANGED rendezvous

(* s6-svwait fails when there is no such service.                          *)
NetWait ==
  /\ net = "svwait" /\ vmm[NetVm] \in {"none", "ready"}
  /\ NetGoto(IF vmm[NetVm] = "none" THEN "failed" ELSE "add-device")
  /\ NetSame /\ UNCHANGED <<rendezvous, lock>>

(* Nobody looks at the exit status of add-device.                          *)
NetAdd ==
  /\ net = "add-device" /\ NetGoto(IF Created(NetVm) THEN "offered" ELSE "failed")
  /\ NetSame /\ UNCHANGED <<rendezvous, lock>>

-----------------------------------------------------------------------------
(* vm-start v                                                              *)

StartSame == UNCHANGED <<import, vmm, net, deaths, late>>
StartGoto(v, s) == starting' = [starting EXCEPT ![v] = s]

(* The user's command, once for each VM.                                   *)
VmStart(v) ==
  /\ lock # "off" /\ starting[v] = "none" /\ StartGoto(v, "s6-rc")
  /\ StartSame /\ UNCHANGED <<rendezvous, lock, booted, refused>>

VmStartChange(v) ==
  /\ starting[v] = "s6-rc" /\ lock = "free" /\ Change(v) /\ StartGoto(v, "change")
  /\ StartSame /\ UNCHANGED <<booted, refused>>

(* Mutant: the providers are started with the lock still held.             *)
ProvidersLocked(v) ==
  /\ starting[v] = "change" /\ Settled(v)
  /\ starting' = [u \in Vm |-> CASE u = v -> "providers"
                                 [] u \in Providers[v] /\ starting[u] \in {"none", "done"}
                                      -> "s6-rc"
                                 [] OTHER -> starting[u]]
  /\ StartSame /\ UNCHANGED <<rendezvous, lock, booted, refused>>

(* Its exit status is not looked at; vm-start is called for each provider. *)
VmStartProviders(v) ==
  /\ starting[v] = "change" /\ Settled(v) /\ lock' = "free"
  /\ starting' = [u \in Vm |-> CASE u = v -> "providers"
                                 [] u \in Providers[v] /\ starting[u] \in {"none", "done"}
                                      -> "s6-rc"
                                 [] OTHER -> starting[u]]
  /\ StartSame /\ UNCHANGED <<rendezvous, booted, refused>>

(* Mutant: the providers' vm-start runs in the background.                 *)
VmStartNoWait(v) ==
  /\ starting[v] = "providers" /\ StartGoto(v, "boot")
  /\ StartSame /\ UNCHANGED <<rendezvous, lock, booted, refused>>

VmStartWait(v) ==
  /\ starting[v] = "providers" /\ \A p \in Providers[v] : starting[p] = "done"
  /\ StartGoto(v, "boot")
  /\ StartSame /\ UNCHANGED <<rendezvous, lock, booted, refused>>

(* ch-remote boot fails when the VMM has no VM, and perhaps when it has:   *)
(* vm-start's caller does not look at its exit status.                     *)
VmStartBoot(v) ==
  /\ starting[v] = "boot" /\ StartGoto(v, "done")
  /\ \/ Created(v) /\ booted' = booted \cup {v} /\ UNCHANGED refused
     \/ Created(v) /\ refused' = refused \cup {v} /\ UNCHANGED booted
     \/ ~Created(v) /\ UNCHANGED <<booted, refused>>
  /\ StartSame /\ UNCHANGED <<rendezvous, lock>>

-----------------------------------------------------------------------------
Wait(x) == WaitSteps(x) /\ UNCHANGED s6
Listen(x) == ListenSteps(x) /\ UNCHANGED s6
(* kvm's timeout-up; the other services have none.                         *)
KvmTimeout ==
  /\ WaitTimeout("kvm") /\ late' = TRUE
  /\ UNCHANGED <<lock, import, vmm, booted, refused, net, starting, deaths>>

Net == NetBackground \/ NetChange \/ NetChanged \/ NetWait \/ NetAdd
S6Rc == RcInit \/ RcInitEnds \/ ExtRcInit
Import(v) == ImportCreate(v) \/ ImportWait(v)
Vmm(v) == VmmCreates(v) \/ VmmReady(v)
Start(v) == VmStartChange(v) \/ VmStartProviders(v) \/ VmStartWait(v) \/ VmStartBoot(v)
FirstEvent(x) == ~Appeared(x) /\ DeviceEvent(x)

HostNext ==
  \/ S6Rc \/ Net \/ NetEvent \/ KvmTimeout
  \/ \E x \in Name : Wait(x) \/ Listen(x) \/ DeviceEvent(x)
  \/ \E v \in Vm : Import(v) \/ Vmm(v) \/ VmmDies(v) \/ VmStart(v) \/ Start(v)

(* What is not left to chance: every process runs, every device that is    *)
(* waited for appears, and s6-rc does time out.                            *)
HostProgress ==
  \/ S6Rc \/ Net \/ KvmTimeout
  \/ \E x \in Name : Wait(x) \/ Listen(x) \/ FirstEvent(x)
  \/ \E v \in Vm : Import(v) \/ Vmm(v) \/ Start(v)

-----------------------------------------------------------------------------
(* s6-rc runs for one of its callers at a time, a service waits only while *)
(* it does, and a VM has a VMM exactly from the moment its import has made *)
(* the instance.                                                           *)
HostInv ==
  /\ HostType
  /\ lock = "net" <=> net = "change"
  /\ \A v \in Vm : /\ lock = v <=> starting[v] = "change"
                   /\ vmm[v] = "none" <=> import[v] \in {"none", "create"}
  /\ \A x \in Name : waiter[x] \in Waiting => lock \notin {"off", "free"} /\ x \in Waits(lock)

(* A service that waits for a device comes up only when the device has     *)
(* appeared, and fails only by the timeout, whichever of wait and listen   *)
(* makes, opens or removes the FIFO first, and however often the device is *)
(* announced (wait:5-15, listen:5-12).                                     *)
WaitSound ==
  \A x \in Name : /\ waiter[x] = "passed" => Appeared(x)
                  /\ waiter[x] = "failed" => x = "kvm" /\ late

(* A VM runs only with the VMs that provide its network running, unless    *)
(* ch-remote failed to boot one of them, a VMM died or kvm came late:      *)
(* vm-start waits for s6-rc's lock, and so for vm-import, before it boots  *)
(* them and then the VM (vm-start:5-15).                                   *)
ProvidersFirst ==
  deaths = 0 /\ ~late => \A v \in booted : Providers[v] \subseteq booted \cup refused

(* A VMM that runs, and of which s6-svwait -U is never told.               *)
NeverReady == \E v \in Vm : vmm[v] \in {"empty", "mute"}

(* Nobody keeps s6-rc's lock for ever: no wait for a device, for mdevd or  *)
(* for a VM that is itself waiting for a provider does, only a VMM that    *)
(* could not create its VM or notify s6 (net/add:28-33, vm-import:8-17).   *)
LockReleased == []<>(lock \in {"off", "free"} \/ NeverReady)

(* A network card that appears at any time is offered to the network VM,   *)
(* unless kvm came late, a VMM died or one never gets ready: net/add does  *)
(* not wait for ever, nor for a service that is not there (net/add:31-37). *)
NetServed ==
  []<>(net \in {"none", "offered"} \/ late \/ deaths > 0 \/ NeverReady)

(* Every vm-start ends with its VM booted, or refused by ch-remote,        *)
(* whatever else is waiting for the lock, unless kvm came late, a VMM died *)
(* or one never gets ready (vm-start:5-15).                                *)
StartServed ==
  \A v \in Vm : []<>(\/ starting[v] = "none" \/ v \in booted \cup refused
                    \/ late \/ deaths > 0 \/ NeverReady)

=============================================================================
