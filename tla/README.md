# Spectrum: a TLA+ verification project

Spectrum runs applications in virtual machines. On the host, s6 supervises one
service per VM; the service's program, `start-vmm`, makes the VM's network and
becomes `cloud-hypervisor`. This project models the parts of the repository that
keep state and interact, checks them with TLC on small instances, and proves the
central safety properties with TLAPS for every number of VMs, pids and faults.

## 1. Inventory

| Part | State it keeps | Operations | Interacts with | What is hard |
|---|---|---|---|---|
| net-util (`host/start-vmm/net-util.c`) | the kernel's interfaces: name, flags, bridge, open files of taps | `if_up`, `if_down`, `if_rename`, `bridge_add`, `bridge_add_if`, `bridge_remove_if`, `bridge_delete`, `tap_open` | kernel | names are global and derived from a pid; taps live as long as a file of theirs |
| net setup and exit listener (`net.c`) | which of the interfaces exist so far; the listener's pipe | `net_setup` and its failure path; `exit_listener_main` | router VM's cloud-hypervisor through ch-remote; the later user of the pid | partial failure, kill in the middle, pid reuse, router restarts, cleanup by name |
| start-vmm (`start-vmm.rs`, `lib.rs`, `ch.rs`, `s6.rs`, `fork.c`) | the API socket and its path, intermediate child, helper, readiness | `create_api_socket`, `vm_config`, `double_fork`, exec; helper: create, add-net, notify or kill | s6, cloud-hypervisor, the incarnation before and after | a helper outlives its incarnation; inherited descriptors; signals to whoever is the parent now |
| guest portal (`tools/xdg-desktop-portal-spectrum`) | one vsock connection | connect, handshake, send port and root, check result | host portal | the other side may close at any point |
| host portal (`tools/xdg-desktop-portal-spectrum-host`) | listening socket, one task per connection, two proxies, a D-Bus connection per guest | accept, negotiate, connect back, own the name, report, serve file choosers | guest, guest bus, session bus, document portal | concurrent tasks, deferred errors, partial sharing |
| VM life cycle scripts (`host/rootfs/usr/bin`) | s6 instances, `/run/vm/*`, s6-rc's lock | import, start (recursively its providers), stop, run-appimage | s6, s6-rc, start-vmm | readiness waits under a lock, providers that wait for each other |
| hotplug scripts (`host/rootfs/etc/mdev`, `img/app/etc/mdev`) | FIFOs in `/run/wait`, links in `/dev` | wait, listen, add | mdevd, s6-rc | rendezvous through a FIFO that is removed; mdevd runs one script at a time |
| initramfs (`host/initramfs/etc`) | `/dev/rootfs`, `/dev/verity`, `/dev/rootfs.poll` | init, probe | mdevd | a notification that is sent once, without blocking |
| guest addresses and routes (`net.c`, `net.rs`, `*/mdev/iface`) | the router VM's interfaces and routes | MAC from pid, IP from MAC; the hotplug script | router VM, app VM | 16 bits of the pid; interface names are reused under a running script |
| build, documentation, installer, patches | none at run time | | | not modelled |

What makes each part correct:

* net: nobody ever touches, joins or deletes the interfaces of another VM, although
  everything is found by name and names are reused; a VM that runs is connected; a VM
  that is gone leaves nothing behind.
* start-vmm: s6 hears of readiness exactly when this incarnation's VM exists; every
  VMM becomes ready or is ended; the exit listener wakes.
* portal: the guest hears success only if the name on its bus is owned; both sides
  terminate whatever the other does; a parser never consumes a byte of the stream after it.
* file chooser: the guest gets URIs only of files that were shared, with the rights
  the user granted.
* double_fork: start-vmm learns whether its helper exists, and goes on.
* guests: what is sent to a client VM's address reaches that VM.
* boot: what waits for an event gets it, whenever it happens; s6-rc's lock is given
  back; a VM runs only with its providers.

## 2. Plan

Order of work, most important first; all of it is done.

1. `NetUtil`, `NetSetup`, `PidLease`: the network of client VMs, with proofs.
2. `StartVmm`: start-vmm, helper and readiness over restarts, with proofs.
3. `Portal`: guest and host handshake, with the abstract specification `PortalPromise`;
   `HostVsock`: the host's two parsing loops against reference definitions;
   `FileChooser`. With proofs.
4. `DoubleFork`: the pipe of `fork.c` byte by byte, with the abstract specification
   `ForkPromise`; `GuestRoutes`: from the pid to the routes of the router VM. With proofs.
5. `Initramfs`, `MdevWait`, `HostBoot`, composed in `Boot`: the host from its initramfs
   to started VMs. With proofs.

Abstract specifications: `PidLease`, `PortalPromise`, `ForkPromise`. Each run uses two or
three actors of every kind, the least at which an old, a new and a third party meet.

## 3. Modules

Names follow the source. An *incarnation* is one process `start-vmm`, which after its
exec is cloud-hypervisor; a pid may be used by several incarnations one after the other.
`MayFail` is the set of calls that may fail, and processes that may be killed, at any
time; a call that the kernel refuses (a name that is taken, an interface that is up)
fails whether or not it is in `MayFail`.

### NetUtil

The kernel's interfaces (external) as tables indexed by kind and pid: `owner` (who made
it, `None` if there is none), `up`, `port` (the bridge it is in) and `fds` (who has the
tap open). One action per function of `net-util.c`. A tap vanishes, and leaves its
bridge, with its last file (`CloseFiles`). Name lengths are left out: no prefix with a
pid is longer than an interface name can be.

### NetSetup

One action per call of `net_setup` and of the exit listener, each with its failure
branch, since a kill or another process may come between any two calls.

| Action | Code |
|---|---|
| `BridgeAdd`, `BridgeUp` | `net_setup`, before the taps |
| `TapOpen`, `TapAddIf`, `TapUp` | `setup_tap`, run for the client and then for the router tap |
| `AddNet` | `router_net_setup`: `ch_add_net`, then `close(net.fd)`; the reply may be lost |
| `ListenerSetup` | `exit_listener_setup` |
| `FailBridge` | the label `fail_bridge`; closing the tap is part of `Exit`, which always follows |
| `Fork`, `HelperExit` | `create_vm`'s double fork: the helper inherits the tap and the pipe |
| `Exit` | start-vmm or cloud-hypervisor ends; `"kill"`: in the middle of net_setup |
| `ListenerWake` | `poll` returns: nobody has the read end any more |
| `RemoveDevice`, `RemoveIf`, `RouterTapDown`, `RouterTapRename` | `router_net_cleanup` |
| `BridgeCleanup`, `ListenerExit` | `bridge_cleanup` and the end of `exit_listener_main` |
| `RouterExit`, `RouterStart` | the router VM restarts and loses its devices |

A new incarnation may get the pid of any dead one, even while that one's listener is at
work. (The kernel keeps a pid reserved while it names a session; the code does not rely
on it, and neither does the model.)

### PidLease

The abstract specification: the bridge is a lease on the names of a pid. `NetSetup`
implements it with `lease <- owner["br"]` and `active` the incarnations whose VM runs.

### StartVmm

start-vmm for one VM directory, restarted by s6 whenever it has died, with the
intermediate child, the helper and the exit listener of every incarnation. The path
`vm_dir/vmm` belongs to the last that bound it; a listening socket stays open as long as
anybody who inherited it lives, so a connection to a dead VMM's socket may wait instead
of being refused (`Connect`, `Accept`, `Reset`). `create_api_socket` is two steps,
`remove_file` and `bind`, between which an older helper may look for the path. A helper
that ends has notified s6 or sent its signal (`"exited"`), or could not write the
notification (`"unheard"`). `net_setup` is one step here, and so is the message in
`double_fork`'s pipe, which `DoubleFork` has in detail; start-vmm installs no signal
handler, so the interrupted calls `DoubleFork` allows for are not repeated here. The
configuration is abstracted to the incarnation it belongs to: what the properties
distinguish is whose VM and whose tap a VMM holds.

### Portal

The guest's bus starts a helper, which asks the host portal to connect back to the bus.
Each connection is two streams of the items that one write or one `read_exact` moves.

| Action | Code |
|---|---|
| `Activate`, `KillHelper` | the guest's bus (external) starts a helper, or gives up on it |
| `ParseAddress` | `main`: address without a vsock entry ends with 0, a bad one with an error |
| `ConnectHost`, `WriteHandshake`, `ReadVersion` | `connect_to_host` |
| `SendPort`, `SendLen`, `SendRoot` | `send_info` |
| `check_result` | `check_result` |
| `Accept`, `Initialize` | `run`: the accept loop, and the session bus at the first connection |
| `HostDies`, `HostRestarts` | the process ends with all its connections; s6 restarts it |
| `ReadCount`, `ReadVersions`, `WriteVersion` | `negotiate_version` |
| `ReadPort`, `ReadLen`, `ReadRoot` | `run_guest_connection` up to the check of the root |
| `connect_to_guest`, `build`, `Answer` | connecting back, owning the name, the deferred result |
| `BusCloses`, `ServeEnds` | the message loop at the end of `run_guest_connection` |

A read at the end of a stream returns 0 and leaves the helper's `char` uninitialized:
`ReadVersion` and `check_result` then go either way. An end that closes with items unread
may destroy what the other has not read. `build` fails when the name is owned already, by
a task of an earlier helper. Left out: the digits of the port, and the refusal of an
unknown protocol version, which the helper of this repository cannot cause.

`PortalPromise` is the abstract specification: a helper ends once, and well only after
the host was granted the name for it, or if the host never answered it. The exemption is
what the code gives: a cut connection decides by an uninitialized byte, and an address
without a vsock entry counts as success.

### HostVsock

The two loops of the host portal that parse bytes, in the order in which the program runs
them: `listening_vsock_path` (`ScanDigit`, `Truncate`, `Refuse`) at its start, and the
response loop of `connect_to_guest` (`Connect`, `ReadMore`, `Finish`) for a connection.
Each is compared with a declarative definition of the right result (`CutAt`, `Answer`). A
stream is reduced to the positions of its newlines, whether it begins with `OK `, and how
much of it arrives.

### FileChooser

Concurrent requests to `open_file` and `save_file`. `DialogSucceeds` and `DialogFails`
are the answers of the desktop's dialog (external: any list, with or without a usable
`writable`), `share_file` is the function up to its call of the document portal,
`add_named_full` the call and the URI made from its answer, the two together one round of
`transform_uris`, `Reply` the mapping to response
codes. `FileChanges` replaces what is at a path while requests run. With `REUSE_EXISTING`
a file has one document, whose rights accumulate; revoking is not in the code. A path
without a parent or a file name (`NoName`) may make `share_file` panic: the task ends
without an answer, and perhaps the others with it (`Panic`).

### DoubleFork, ForkPromise

`double_fork` as three processes, start-vmm, the intermediate child and the helper, and
the bytes of `v` in a pipe. Byte `b` of what the child sends is the number `b`, so that a
byte in the wrong place shows; `Unset` is a byte of `v` that was never written.

| Action | Code |
|---|---|
| `MakePipe`, `Fork` | `pipe` and the first `fork`, with their failures |
| `ChildFork`, `Write`, `WriteInterrupted`, `WriteFails` | the child: the second `fork` and the loop around `write` |
| `Read`, `ReadInterrupted`, `Reap` | start-vmm: the loop around `read`, and what follows it |
| `Return` | `create_vm` on the value it gets; an incomplete `v` may be read as anything |
| `HelperReturns`, `HelperExit` | the helper, and its SIGTERM to the child when the VM could not be created |

After EINTR the code adds -1 to `acc`, a `size_t` (`LessOne`): at 0 it wraps and ends the
loop. `ForkPromise` is the abstract specification: the answer is told once and is true. It
excuses runs in which a call was interrupted, for which the code does not keep it. At end
of file `read` returns 0 and the loop spins; that is no step of the model, and
`ReturnsUnlessCut` says when it comes to that.

### GuestRoutes

The MAC address `net_setup` makes from the pid (`router_mac`, `client_mac`), its text
(`fmt`), and the addresses the two guests' awk programs make of it (`CLIENT_IP`,
`LOCAL_IP`), as functions on octets and digits. Around them the router VM: the kernel
gives the lowest free name to a new interface and an event to mdevd, which runs
`vm/sys/net/etc/mdev/iface` for one event at a time (`Run`, then one action per command:
`Grep`, `Awk`, `AddAddress`, `SetUp`, `AddRoute`, or `Masquerade`). Client VMs die and
their interfaces go while scripts run or wait (`Disappear`), and the router VM may be
started again, without the devices of the clients that live (`RouterRestarts`). A script
knows its interface by name only: `Awk` reads the MAC address of whatever has the name by
then, the uplink included, and so do the commands after it. `stale` remembers the
interfaces that got their name while a script was at work on the one before. Of `NetSetup`
it uses that the router has one device per pid (`Isolation`), in the guard of `Start`.

### Initramfs, MdevWait, HostBoot, Boot

`Initramfs` is `init`, the events the kernel sends to mdevd, and the `probe` that mdevd
runs for one partition at a time; an installer's partition has an image whose partitions
appear with `Losetup`. `SwitchRoot` leaves all of it behind.

`MdevWait` is the pair of scripts `wait` and `listen` around `/run/wait/<name>`: a FIFO, a
plain file (what `redirfd -w` makes where the FIFO was removed) or nothing. Opening
blocks until the other side comes, whoever is blocked on a removed FIFO stays blocked, and
a timeout kills the script at whatever command it is, but not its `head`, which may take a
later line (`orphan`).

`HostBoot` uses it for the services kvm and ext, and adds

| Action | Code |
|---|---|
| `RcInit`, `RcInitEnds`, `ExtRcInit` | `s6-rc change ok-all` of rc.init, which holds s6-rc's lock until all is up or has failed; the service ext-rc-init |
| `ImportCreate`, `ImportWait` | vm-import, for all VMs at once |
| `VmmCreates`, `VmmReady`, `VmmDies` | a VMM, restarted until its providers' VMs exist; create may be refused (`"empty"`) and the notification fail (`"mute"`) |
| `DeviceEvent` | mdevd runs `listen` in the background for a device |
| `NetEvent`, `NetBackground`, `NetChange`, `NetChanged`, `NetWait`, `NetAdd` | `net/add`, which holds up mdevd until its background block |
| `VmStart`, `VmStartChange`, `VmStartProviders`, `VmStartWait`, `VmStartBoot` | vm-start, and the vm-start it runs for each provider; ch-remote may fail to boot a VM (`refused`), which vm-start does not look at |
| `KvmTimeout` | kvm's `timeout-up` |

`Boot` puts both in sequence. s6-rc is external: one transaction at a time, the others
wait (`-b`); it starts what is not up, and what failed before, and ends when nothing is
left to wait for. That vm-start waits for every provider's readiness is what `StartVmm`'s
`ReadyMeansCreated` is for: here it is the step `VmmReady`. A VMM that is `"empty"` or
`"mute"` is never ready (`NeverReady`): `EveryVmmSettles` of `StartVmm` says how it comes
to that.

## 4. Runs

| Run | Instance | Shows |
|---|---|---|
| `net_all_faults` | 3 incarnations, 2 pids, every fault | `Isolation`, `NoCrossTalk`, `Connected`, and `Ledger`, the inductive invariant of the proofs, which contains `Inv` and the types |
| `net_setup_faults` | 3 incarnations, 2 pids, faults of the setup calls and router restarts | `NothingLeaks`; refinement of `PidLease`; `CleanupCompletes` |
| `net_pid_reuse` | 3 incarnations, 1 pid, no faults | violation of `RouterNameFreed` |
| `start_faults` | 2 starts, every fault | `ReadyMeansCreated` and its inductive invariant `Inv`; `EveryVmmSettles`, `ListenerHearsUnlessPending` |
| `start_create_fails` | 2 starts, the VMM refuses | violation of `FailedCreateEndsVmm` |
| `portal_faults` | 2 helpers, every fault | `InStep`, `HelperLearns`, `NoRequestPanics`, `Inv`; refinement of `PortalPromise`; `HelperSettles`, `TaskSettles` |
| `host_vsock` | paths of up to 4 characters, streams of up to 15 bytes | `CutsThePort`, `TakesTheAnswer`, `SliceInBuffer`, `Inv`; `LoopsEnd` |
| `chooser_faults` | 2 requests, 2 files, up to 2 chosen, every fault | `SuccessIsUsable`, `RightsFromUser`; `RequestAnswered` |
| `double_fork` | 4 bytes, 2 interruptions, every fault | `Inv`; refinement of `ForkPromise`; `ReturnsUnlessCut` |
| `guest_routes` | 3 clients, 2 pids, 2 interface names, an uplink, router restarts | `NoMisroute` and its inductive invariant `Inv`; `ClientRouted` |
| `boot` | 2 VMs, 2 devices (one announced twice), a network card, a timeout, a VMM's death, refused creates and boots, failed notifications | `Inv`, `RootComplete`, `WaitSound`, `ProvidersFirst`; `RootFoundUnlessMissed`, `LockReleased`, `NetServed`, `StartServed` |
| `boot_missed` | as `boot`, devices announced once | violation of `RootFound` |

Deadlock is not checked: each incarnation, helper, request or parse runs once, so every
behaviour ends.

*Bounds.* Three incarnations are needed for the interesting cases of pid reuse: one
whose `_dead` tap the router keeps, one that cannot rename its own because of it, and a
third that meets the name still taken. Two pids let two VMs run side by side while one
pid is reused. Two starts of a service let the helper of a dead incarnation meet the VMM of
the next; the safety properties are proved for any number of them. With two helpers, a task may hold the name for a helper that was killed while the second is
refused, and either may meet a restart of the host. A stream of 15 bytes is longer than
the buffer of 14, so something follows even the longest answer; of the newlines the first
and the next position matter. Four characters hold every order of underscore, digit and
other that the scan can meet. Two files let the second of a request fail after the first
was shared. `double_fork` has an `int` of four bytes and a `size_t` that wraps at 16, far
enough from 4; the second interruption may hit the other process, or the same one after
the first. The two pids 255 and 65535 differ in the high byte only and share the low one;
with three clients on them a pid and a name are both used again. The uplink's MAC address
ends in the octets of a client's, so that a confused script would give it that client's
route. In `boot`, card0 is left
out because it is waited for as ext is; kvm is the device with a timeout and is announced
twice, by itself and by mdevd-coldplug; the second VM is the first one's provider and the
network VM, so that import, net/add and two vm-starts meet. The theorems cover all other
values.

*Fairness.* `NetSetup`'s `FairSpec` schedules the exit listener, which is an ordinary
process; nothing is assumed of helpers, VMs or the router. `CleanupCompletes` therefore
begins where the VMM and the helper are gone; whether the helper goes is the question of
`StartVmm`'s `ListenerHearsUnlessPending`. `StartVmm`'s `FairSpec` schedules every process
and lets a running cloud-hypervisor accept and answer; nothing makes a VMM die or s6
restart one.
`Portal`'s schedules the helper, which is a process, every task, which the executor polls
when its socket is ready, and the accept loop; it takes for granted that the session bus,
the hypervisor and the guest's bus answer or close. Nothing is assumed of restarts.
`FileChooser`'s schedules a request's task and takes for granted that the document portal
answers; nothing makes the user close a dialog. The parsers are sequential loops.
`DoubleFork`'s schedules the three processes; no signal has to come. `GuestRoutes`'
schedules the router's mdevd and its scripts; no VM has to start or die. `Boot`'s schedules
every process, lets each device that is waited for appear at least once, and lets s6-rc's
timeout expire; nothing makes a VMM die, a card appear or the user start a VM. Its state
graph has no cycle, so one conjunct for all processes together suffices, and its liveness
properties have the form "again and again": what holds infinitely often holds in the end.

*What the violations say.* `net_pid_reuse`: the second incarnation with a pid cannot
rename `router<pid>` to `_dead<pid>` while the router keeps the first one's, so the name
is not freed as the comment says. `start_create_fails`: the SIGTERM meant for
cloud-hypervisor goes to the child or to init. `boot_missed`: when the partitions are
found before init reads, the probe's line is lost, every later probe stops at the links
that are already there, and init waits for ever.

*What the exemptions say.* Some properties hold only with an exemption, and the exempted
case can happen. `ReturnsUnlessCut`: a helper that fails at once
kills the child before it has written, and the read loop of `double_fork` spins at end of
file. `EveryVmmSettles`: after a failed create, or a notification that could not be written,
cloud-hypervisor runs on and s6 never takes it for ready. `ListenerHearsUnlessPending`: when cloud-hypervisor is never executed, the helper's
own copy of the listening socket keeps ch-remote waiting, and the waiting helper keeps the
listener's pipe open. `ForkPromise`: after an interrupted call start-vmm may take an
uninitialized value for a pid, or end while its helper goes on. `RequestAnswered`: a chosen
path without a file name makes its task panic. `NothingLeaks`: when add_net's reply is lost,
exit_listener_setup fails or start-vmm is killed between the two, the router keeps the
device and `router<pid>` with it; and an older `_dead<pid>` keeps the name from being freed.
`NoMisroute` and `ClientRouted`: an interface lost under a running script may give its
address or route to the next of its name. `LockReleased`, `NetServed` and `StartServed`: a
VMM that is never ready keeps vm-import, and with it s6-rc's lock, waiting for ever.
`NetServed` and `StartServed`: with kvm late, ext-rc-init is not started and no VM is
imported until the next transaction; and no one boots a VM again, or gives it its card
again, whose VMM died. `ProvidersFirst`: vm-start boots a VM also when ch-remote has failed
to boot its provider.

The last conjunct of `Connected`, about a router that does not restart, has no work to do
in `net_all_faults`, where it does; the theorem `LinkWhole` covers it.

## 5. Proofs

| Module | Theorems |
|---|---|
| `NetSetupProofs` | `Invariance`, `TypeCorrect`, `PidIsolation`, `BridgesSeparate`, `LinkWhole`, `LedgerKept`, `LeakFreedom`, `CleanupIsWhole`, `LeaseRefinement` |
| `StartVmmProofs` | `Invariance`, `Readiness`, `HelperEnds` |
| `PortalProofs` | `Invariance`, `Framing`, `ServiceIsKnown`, `RequestsAreSafe`, `PromiseKept` |
| `HostVsockProofs` | `Invariance`, `PortCut`, `AnswerTaken`, `SliceSafe`, `LoopsShrink` |
| `FileChooserProofs` | `Invariance`, `SuccessTellsTruth`, `RightsAreGranted`, `TasksAdvance` |
| `DoubleForkProofs` | `Invariance`, `TruthTold`, `EndOfFileOnlyWhenCut` |
| `GuestRoutesProofs` | `Invariance`, `Unmisrouted` |
| `BootProofs` | `Invariance`, `RootIsComplete`, `WaitIsSound`, `ProvidersAreFirst` |

Assumptions: `None` is neither an incarnation nor a pid (`NoneAssumption`,
`StartAssumption`) nor a helper (`PortalAssumption`), and `WithNet` is a Boolean. `Proc`,
`Pid`, `Helper` and `MayFail` are any sets, infinite ones included. A socket's path is not
empty (`PathsAssumption`), digits and the underscore are distinct characters
(`CharAssumption`), and newlines lie in the stream (`StreamAssumption`). What the user
chooses besides files is not a file, and lists have a longest length (`ChooserAssumption`).
`v` has at least one byte and its size fits a `size_t` (`ForkAssumption`). Pids have 16 bits, as
net.c says (`PidAssumption`); the special values of `GuestRoutes` are apart from the
others, and the uplink's MAC address does not begin as a client link's
(`GuestAssumption`). `BootAssumption`: kvm and ext are waited for, ext is linked once, VMs'
names are apart from the other lock holders', there are finitely many VMs, and no VM is
its own provider through others: each has a rank above its providers'.

*NetSetup.* `Isolation`, `NoCrossTalk` and `Connected` are not inductive: that the
listener finds its own bridge depends on nobody else being able to take `br<pid>` while
it exists, and that depends on who is at which stage. `Inv` adds, per incarnation, which
stages of start-vmm, helper and listener occur together (`StagesAgree`), that whoever is
between `bridge_add` and `bridge_delete` owns the bridge (`BridgeHeld`), which taps it
has at each stage (`TapsHeld`), what the router has of it (`DeviceHeld`), and that each
device of the router is the tap of whoever added it (`RouterDevices`). The key fact is
that two incarnations that both hold the bridge of one pid are the same, for
`owner["br"][pid]` has one value; hence a step of one changes nothing another relies on.
There is one lemma per action, over lemmas on what each kernel call preserves and whom it
can affect; the ones about closing files use that only the taps of the closing incarnation
can vanish.

*Ledger.* `NothingLeaks` says what an incarnation that is gone has left: never a client
tap; no bridge unless start-vmm was killed while building, the listener was killed or the
delete failed (`BridgeSafe`); no `router<pid>`, once its listener has done its work
without such faults (`RouterSafe`), unless an older `_dead<pid>` stood in the way; and no
`router<pid>` without a listener, unless the reply was lost, the listener could not be
forked or start-vmm was killed (`HandoverSafe`), and then the router has it as a device. It
does not follow from `Inv`, which speaks of those who hold a bridge and says nothing of what
outlives them. `Ledger` accounts for each interface from the other side, by who made it:
its name has the maker's pid (`NamedAfter`), a bridge has a holder who will delete it
(`BridgeKept`), each file of a client tap is in a process of the maker that lives
(`ClientKept`), a router tap is open in start-vmm while that lives, or has a device in the
router until the listener removes it (`RouterKept`), and a dead tap is open in the router only (`DeadKept`). Each action has a
lemma here too; most are instances of two, one for a step that moves no file (`Moves`) and
one for closing. `CleanupIsWhole` adds that past `remove_device` the router never has a
device of that incarnation again.

*PidLease.* Every step is mapped to an abstract step or a stutter, using `Inv` for the
two that matter: `Fork`'s predecessor owns the bridge, and whoever deletes it owns it and
does not run.

*StartVmm.* `ReadyMeansCreated` needs that the helper's requests reached its own VMM.
`Inv` says that one incarnation lives at a time (`OneAtATime`), that a living one holds
the path and its helper's connections lead to itself (`HoldsPath`), and what the helper
has achieved at each stage (`Achieved`). `HelperEnds` needs of `double_fork` that the pid in
its pipe means a helper (`Concludes`), and that a VMM's VM and tap stay (`StaysComplete`).

*Portal.* That a read gets the field it is meant for depends on both sides at once. `Inv`
says which stages of helper and task occur together (`Present`), that the stream between
them is the part of `Script` between what was taken and what was written (`Paired`), what
an answer that is under way means (`Answered`), and where the process is and who owns the
name at each stage (`Placed`). `PromiseKept` maps each step to a grant, a release, an
outcome or a stutter. The lemmas on `SubSeq` of `Script` say what one write adds and one
read takes.

*HostVsock.* The scan needs that all characters behind the index are digits; the reader
that it never stops between 0 and 5 bytes, for only then is asking for one byte more never
too many.

*FileChooser.* `SuccessIsUsable` is about the end of a loop. `Inv` says that at every round
the URIs so far are those of the first chosen members and each of these has the rights the
user consented to (`Shared`; rights only grow), and that a member is added only after it
was found to be a file (`TaskAgrees`). `RightsFromUser` is inductive with the types once it
is known that the flag a task passes on is the user's consent.

*DoubleFork.* While no call was interrupted, both `acc`s count the bytes that are through,
and the bytes are in their places (`InOrder`); hence the value read is whole and start-vmm
leaves its loop with the truth. `TruthTold` maps each step to the birth of the helper, the
answer, the excuse or a stutter. `EndOfFileOnlyWhenCut` adds that, while start-vmm reads,
a child that left its loop by itself has written everything (`Fed`).

*GuestRoutes.* `NoMisroute` needs that an address leads back to one pid (`SameAddress`,
from the arithmetic of octets and digits, for every pid below 65536), that the two guests
compute the same one (`OwnAddress`), and that, outside stale interfaces, a route and the
address a script has read belong to the client behind the interface, which is not the
uplink (`Inv`).

*Boot.* The inductive invariant of the proofs, `IInv`, has three parts. `LinksInOrder`:
the probe makes the second link after the first and writes after both. `WaitInv`: from the
first mkfifo to the rm there is a file, and whoever reads or finds a plain file has a
listener to thank for it. `HInv`: a service waits only while s6-rc runs, so a transaction
begins with nobody waiting, and it ends without a failure only when all VMs are ready;
without a death or a timeout, then, every vm-start past its transaction finds all VMs
created, and its providers booted or refused first (`StartsInOrder`). `HInv` uses `WaitInv` for the fact that only kvm
fails, and only by its timeout.

*The safety half of liveness.* Fairness and `ENABLED` are out of the prover's reach, so all
liveness properties stay with TLC. For five of them a theorem states what they rest on
beside fairness, for every value of the constants. `TasksAdvance` (`RequestAnswered`) and
`LoopsShrink` (`LoopsEnd`): a natural number falls with each step of the task or loop and no
other step raises it. `EndOfFileOnlyWhenCut` (`ReturnsUnlessCut`): the one state in which the
loop is stuck is reached only in the exempted cases. `HelperEnds`
(`EveryVmmSettles`) and `CleanupIsWhole` (`CleanupCompletes`): whoever ends has done its
work, so that only its ending is left to show.

*Only model-checked:* the liveness properties themselves, and the three violations, which
are counterexamples. Every invariant and every refinement a passing run checks is also
proved.

## 6. Not modelled

* The digits of the port in the guest portal's address, of which strtol may take more than
  32 bits; errno and return values that only reach the text of a message (`net.c` after
  its cleanup, `double_fork`'s -1).
* vm-stop, vm-console and lsvm: one request to cloud-hypervisor each, without state.
* run-appimage: one VM under a fresh name, from top to bottom; what it starts is modelled.
* block/add's choice of the ext partition and getuuids: pure text processing on what
  lsblk, veritysetup and the kernel command line say.
* The services of the guest images: each starts one program, some after
  `/etc/mdev/wait`. A service restarted after its device's only event waits for ever;
  nothing in the repository says what it should do.
* The router VM's nftables rules, and connman. A client link that is gone when the script
  looks is taken for a physical interface, and a rule for its name stays.
* The contents of a VM's configuration, and the conversion of C structures to Rust's, which
  keep no state and are the same for every VM.
* cloud-hypervisor, s6, s6-rc, mdevd and the kernel beyond what the code uses of them.
* Nix expressions, documentation, patches to other projects, installer, image-building
  and debugging scripts: sequential, and without state at run time.
