------------------------------ MODULE BootProofs ------------------------------
(***************************************************************************)
(* The safety of the host's start, for every number of VMs, providers and  *)
(* device events.                                                          *)
(***************************************************************************)
EXTENDS Boot, SequenceTheorems, FiniteSetTheorems, TLAPS

-----------------------------------------------------------------------------
(* The initramfs                                                           *)

(* The events of a set of partitions, in some order.                       *)
LEMMA OrdersType ==
  ASSUME NEW S \in SUBSET Partition, NEW s \in Orders(S) PROVE s \in Seq(Partition)
<1>1. IsFiniteSet(Partition)
  <2>1. IsFiniteSet({} \cup {"rootfs"})
    BY FS_EmptySet, FS_AddElement, Zenon
  <2>2. IsFiniteSet(({} \cup {"rootfs"}) \cup {"verity"})
    BY <2>1, FS_AddElement
  <2>3. IsFiniteSet((({} \cup {"rootfs"}) \cup {"verity"}) \cup {"eosimages"})
    BY <2>2, FS_AddElement
  <2>4. IsFiniteSet(((({} \cup {"rootfs"}) \cup {"verity"}) \cup {"eosimages"}) \cup {"other"})
    BY <2>3, FS_AddElement
  <2>5. Partition = ((({} \cup {"rootfs"}) \cup {"verity"}) \cup {"eosimages"}) \cup {"other"}
    BY DEF Partition, Needed
  <2> QED BY <2>4, <2>5
<1>2. Cardinality(S) \in Nat
  BY <1>1, FS_Subset, FS_CardinalityType
<1>3. s \in [1 .. Cardinality(S) -> Partition]
  BY DEF Orders
<1> QED BY <1>2, <1>3

(* Before the root file system is mounted nobody removes a link, and the   *)
(* probe makes the second one after the first.                             *)
LinksInOrder ==
  /\ init # "failed"
  /\ init \in {"veritysetup", "mount"} => links = Needed
  /\ init \in {"mkfifo", "modprobe", "read"} =>
       /\ probe.at = "verity" => "rootfs" \in links
       /\ probe.at = "echo" => links = Needed

LEMMA InitramfsInitInv == InitramfsInit => InitramfsType /\ LinksInOrder
BY EmptySeq DEF InitramfsInit, InitramfsType, LinksInOrder, NoProbe, InitStage, Partition,
   Needed

LEMMA UeventType ==
  ASSUME InitramfsType, NEW S \in SUBSET Partition, Uevent(S) PROVE uevents' \in Seq(Partition)
<1>1. uevents \in Seq(Partition)
  BY DEF InitramfsType
<1>2. ASSUME NEW s \in Orders(S) PROVE uevents \o s \in Seq(Partition)
  BY <1>1, OrdersType, ConcatProperties
<1> QED BY <1>1, <1>2, Zenon DEF Uevent

LEMMA InitStepsInv ==
  ASSUME InitramfsType, LinksInOrder, InitSteps PROVE InitramfsType' /\ LinksInOrder'
<1> USE DEF InitramfsType, LinksInOrder, InitStage, Others, InitGoto
<1>1. CASE StartMdevd
  <2>1. uevents' \in Seq(Partition)
    BY <1>1, OrdersType DEF StartMdevd
  <2> QED BY <1>1, <2>1 DEF StartMdevd
<1>2. CASE ModprobeErofs
  BY <1>2 DEF ModprobeErofs
<1>3. CASE VeritySetup
  BY <1>3 DEF VeritySetup
<1>4. CASE MountRoot
  BY <1>4 DEF MountRoot
<1>5. CASE SwitchRoot
  BY <1>5, EmptySeq DEF SwitchRoot, NoProbe
<1>6. CASE KillMdevd
  BY <1>6 DEF KillMdevd
<1> QED BY <1>1, <1>2, <1>3, <1>4, <1>5, <1>6 DEF InitSteps

LEMMA ProbeStepsInv ==
  ASSUME InitramfsType, LinksInOrder, ProbeSteps PROVE InitramfsType' /\ LinksInOrder'
<1> USE DEF InitramfsType, LinksInOrder, InitStage, ProbeEnds, ProbeGoto, NoProbe
<1>1. CASE StartProbe
  <2>1. Head(uevents) \in Partition /\ Tail(uevents) \in Seq(Partition)
    BY <1>1, HeadTailProperties DEF StartProbe
  <2> QED BY <1>1, <2>1 DEF StartProbe
<1>2. CASE Losetup
  <2>1. uevents' \in Seq(Partition)
    BY <1>2, UeventType DEF Losetup, Partition
  <2>2. parts' \subseteq Partition
    BY <1>2 DEF Losetup, Partition
  <2> QED BY <1>2, <2>1, <2>2 DEF Losetup
<1>3. CASE FindFs
  BY <1>3 DEF FindFs
<1>4. CASE LinkRootfs
  BY <1>4 DEF LinkRootfs, Link, Needed
<1>5. CASE LinkVerity
  BY <1>5 DEF LinkVerity, Link, Needed
<1>6. CASE Echo
  BY <1>6 DEF Echo
<1> QED BY <1>1, <1>2, <1>3, <1>4, <1>5, <1>6 DEF ProbeSteps

LEMMA InitramfsInv ==
  ASSUME InitramfsType, LinksInOrder, InitramfsNext PROVE InitramfsType' /\ LinksInOrder'
<1>1. ASSUME NEW p \in Partition, Appear(p) PROVE InitramfsType' /\ LinksInOrder'
  <2>1. uevents' \in Seq(Partition)
    BY <1>1, UeventType DEF Appear
  <2> QED BY <1>1, <2>1 DEF Appear, InitramfsType, LinksInOrder
<1> QED BY <1>1, InitStepsInv, ProbeStepsInv DEF InitramfsNext, Kernel

-----------------------------------------------------------------------------
(* wait and listen                                                         *)

(* There is a file from the first mkfifo to the rm, and whoever reads, or  *)
(* finds a plain file, has a listener to thank for it.                     *)
WaitInv ==
  /\ WaitType
  /\ \A x \in Name :
       /\ waiter[x] \in {"open", "blocked", "read", "rm"} => file[x] # "none"
       /\ waiter[x] \in {"read", "rm", "passed"} => Appeared(x)
       /\ file[x] = "plain" => Appeared(x)
       /\ waiter[x] = "failed" => x = "kvm" /\ late

LEMMA WaitInitInv == WaitInit => WaitInv
BY DEF WaitInit, WaitInv, WaitType, WaiterStage, Waiting, ListenerStage

(* Listeners do not become unstarted.                                      *)
LEMMA StillAppeared ==
  ASSUME \A x \in Name : \A k \in Event(x) :
           listener[x][k] # "none" => listener'[x][k] # "none"
  PROVE  \A x \in Name : Appeared(x) => Appeared(x)'
BY DEF Appeared

LEMMA WaitStepsInv ==
  ASSUME WaitInv, NEW x \in Name, WaitSteps(x), late' = late PROVE WaitInv'
<1> USE DEF WaitInv, WaitType, WaiterStage, Waiting, ListenerStage, WaiterGoto
<1>1. CASE WaitMkfifo(x)
  <2>1. /\ waiter' = [waiter EXCEPT ![x] = "open"] /\ UNCHANGED <<line, orphan, listener>>
        /\ file' = [file EXCEPT ![x] = IF file[x] = "none" THEN "fifo" ELSE file[x]]
    BY <1>1 DEF WaitMkfifo, Mkfifo
  <2>2. \A y : Appeared(y)' <=> Appeared(y)
    BY <2>1 DEF Appeared
  <2> QED BY <2>1, <2>2
<1>2. CASE WaitOpen(x)
  <2>1. PICK s \in {"rm", "read", "blocked"} : waiter' = [waiter EXCEPT ![x] = s]
    BY <1>2, Zenon DEF WaitOpen
  <2>2. /\ waiter[x] = "open" /\ UNCHANGED <<file, line, orphan>>
        /\ listener' = [listener EXCEPT ![x] = [k \in Event(x) |->
                          IF file[x] = "fifo" /\ listener[x][k] = "blocked"
                          THEN "write" ELSE listener[x][k]]]
    BY <1>2 DEF WaitOpen
  <2>3. listener'[x] \in [Event(x) -> ListenerStage]
        /\ \A y \in Name : y # x => listener'[y] = listener[y]
    BY <2>2
  <2>4. \A y \in Name : Appeared(y) => Appeared(y)'
    BY <2>2, StillAppeared
  <2>5. s \in {"rm", "read"} => Appeared(x)
    <3>1. waiter'[x] = s
      BY <2>1
    <3> QED BY <3>1, <1>2, <2>2 DEF WaitOpen, WriterThere, Appeared
  <2>6. WaitType'
    BY <2>1, <2>2, <2>3
  <2> QED BY <2>1, <2>2, <2>4, <2>5, <2>6
<1>3. CASE WaitRead(x)
  <2>1. /\ waiter[x] = "read" /\ waiter' = [waiter EXCEPT ![x] = "rm"]
        /\ line' = [line EXCEPT ![x] = FALSE] /\ UNCHANGED <<file, orphan, listener>>
    BY <1>3 DEF WaitRead
  <2>2. \A y : Appeared(y)' <=> Appeared(y)
    BY <2>1 DEF Appeared
  <2> QED BY <2>1, <2>2
<1>4. CASE WaitRm(x)
  <2>1. /\ waiter[x] = "rm" /\ waiter' = [waiter EXCEPT ![x] = "passed"]
        /\ file' = [file EXCEPT ![x] = "none"] /\ orphan' = [orphan EXCEPT ![x] = FALSE]
        /\ UNCHANGED line
        /\ listener' = [listener EXCEPT ![x] = [k \in Event(x) |->
                          IF listener[x][k] = "blocked" THEN "stuck" ELSE listener[x][k]]]
    BY <1>4, Zenon DEF WaitRm
  <2>2. listener'[x] \in [Event(x) -> ListenerStage]
        /\ \A y \in Name : y # x => listener'[y] = listener[y]
    BY <2>1
  <2>3. \A y \in Name : Appeared(y) => Appeared(y)'
    BY <2>1, StillAppeared
  <2>4. WaitType'
    BY <2>1, <2>2
  <2> QED BY <2>1, <2>3, <2>4
<1> QED BY <1>1, <1>2, <1>3, <1>4 DEF WaitSteps

LEMMA ListenStepsInv ==
  ASSUME WaitInv, NEW x \in Name, ListenSteps(x), late' = late PROVE WaitInv'
<1> USE DEF WaitInv, WaitType, WaiterStage, Waiting, ListenerStage, WaiterGoto, ListenerGoto
<1>1. PICK k \in Event(x) : ListenMkfifo(x, k) \/ ListenOpen(x, k) \/ ListenWrite(x, k)
  BY DEF ListenSteps
<1>2. PICK s \in ListenerStage \ {"none"} : listener' = [listener EXCEPT ![x][k] = s]
  BY <1>1, Zenon DEF ListenMkfifo, ListenOpen, ListenWrite
<1>3. listener'[x] = [listener[x] EXCEPT ![k] = s]
      /\ \A y \in Name : y # x => listener'[y] = listener[y]
  BY <1>2
<1>4. Appeared(x)' /\ \A y \in Name : Appeared(y) => Appeared(y)'
  <2>1. listener'[x][k] # "none"
    BY <1>3
  <2>2. \A y \in Name : \A j \in Event(y) : listener[y][j] # "none" => listener'[y][j] # "none"
    BY <1>3
  <2> QED BY <2>1, <2>2, StillAppeared DEF Appeared
<1>5. /\ DOMAIN listener' = Name
      /\ \A y \in Name : listener'[y] \in [Event(y) -> ListenerStage]
  BY <1>2, <1>3
<1>6. CASE ListenMkfifo(x, k)
  <2>1. /\ file' = [file EXCEPT ![x] = IF file[x] = "none" THEN "fifo" ELSE file[x]]
        /\ UNCHANGED <<line, waiter, orphan>>
    BY <1>6 DEF ListenMkfifo, Mkfifo
  <2> QED BY <2>1, <1>4, <1>5
<1>7. CASE ListenOpen(x, k)
  <2>1. CASE file[x] = "fifo"
    <3>1. /\ waiter' = [waiter EXCEPT ![x] = IF waiter[x] = "blocked" THEN "read" ELSE waiter[x]]
          /\ UNCHANGED <<file, line, orphan>>
      BY <1>7, <2>1 DEF ListenOpen
    <3> QED BY <3>1, <1>4, <1>5
  <2>2. CASE file[x] # "fifo"
    <3>1. file' = [file EXCEPT ![x] = "plain"] /\ UNCHANGED <<line, waiter, orphan>>
      BY <1>7, <2>2 DEF ListenOpen
    <3> QED BY <3>1, <1>4, <1>5
  <2> QED BY <2>1, <2>2
<1>8. CASE ListenWrite(x, k)
  <2>1. /\ line' = [line EXCEPT ![x] = waiter[x] = "read"]
        /\ orphan' = [orphan EXCEPT ![x] = FALSE] /\ UNCHANGED <<file, waiter>>
    BY <1>8 DEF ListenWrite
  <2>2. line' \in [Name -> BOOLEAN]
    BY <2>1, Zenon
  <2> QED BY <2>1, <2>2, <1>4, <1>5
<1> QED BY <1>1, <1>6, <1>7, <1>8

LEMMA TimeoutInv == ASSUME WaitInv, "kvm" \in Name, WaitTimeout("kvm"), late' = TRUE PROVE WaitInv'
<1>1. /\ waiter' = [waiter EXCEPT !["kvm"] = "failed"]
      /\ line' = [line EXCEPT !["kvm"] = FALSE] /\ UNCHANGED <<file, listener>>
  BY DEF WaitTimeout, WaiterGoto
<1>2. orphan' \in [Name -> BOOLEAN]
  BY Zenon DEF WaitTimeout, WaitInv, WaitType
<1>3. \A y : Appeared(y)' <=> Appeared(y)
  BY <1>1 DEF Appeared
<1> QED BY <1>1, <1>2, <1>3 DEF WaitInv, WaitType, WaiterStage

LEMMA WaitSame == ASSUME WaitInv, UNCHANGED <<rendezvous, late>> PROVE WaitInv'
BY DEF WaitInv, WaitType, rendezvous, Appeared

(* A new transaction starts waits; a device announced starts a listener.   *)
LEMMA ChangeWait == ASSUME WaitInv, NEW who, Change(who), late' = late PROVE WaitInv'
<1>1. \A y : Appeared(y)' <=> Appeared(y)
  BY DEF Change, Appeared
<1> QED BY <1>1 DEF WaitInv, WaitType, Change, WaiterStage, Waiting

LEMMA DeviceEventWait ==
  ASSUME WaitInv, NEW x \in Name, DeviceEvent(x) PROVE WaitInv' /\ UNCHANGED <<waiter, s6>>
<1>1. PICK k \in Event(x) : listener' = [listener EXCEPT ![x][k] = "mkfifo"]
  BY Zenon DEF DeviceEvent, ListenerGoto
<1>2. UNCHANGED <<file, line, waiter, orphan, s6>>
  BY DEF DeviceEvent
<1>3. listener'[x] = [listener[x] EXCEPT ![k] = "mkfifo"]
      /\ \A y \in Name : y # x => listener'[y] = listener[y]
  BY <1>1 DEF WaitInv, WaitType
<1>4. \A y \in Name : Appeared(y) => Appeared(y)'
  BY <1>3, StillAppeared DEF WaitInv, WaitType
<1>5. /\ DOMAIN listener' = Name
      /\ \A y \in Name : listener'[y] \in [Event(y) -> ListenerStage]
  BY <1>1, <1>3 DEF WaitInv, WaitType, ListenerStage
<1> QED BY <1>2, <1>4, <1>5 DEF WaitInv, WaitType, s6

-----------------------------------------------------------------------------
(* The host                                                                *)

S6Type ==
  /\ lock \in {"off", "free", "boot", "net"} \cup Vm
  /\ import \in [Vm -> {"none", "create", "svwait", "done"}]
  /\ vmm \in [Vm -> VmmStage]
  /\ booted \subseteq Vm /\ refused \subseteq Vm
  /\ net \in NetStage
  /\ starting \in [Vm -> {"none", "s6-rc", "change", "providers", "boot", "done"}]
  /\ deaths \in 0 .. MaxDeaths /\ late \in BOOLEAN

Locks ==
  /\ lock = "net" <=> net = "change"
  /\ \A v \in Vm : lock = v <=> starting[v] = "change"

VmmsImported == \A v \in Vm : vmm[v] = "none" <=> import[v] \in {"none", "create"}

WaitsLocked ==
  \A x \in Name : waiter[x] \in Waiting => lock \notin {"off", "free"} /\ x \in Waits(lock)

(* While no VMM dies and kvm is there in time, s6-rc ends when every VM is *)
(* ready, so that vm-start finds the VMs it boots created.                 *)
StartsInOrder ==
  /\ \A v \in Vm : import[v] = "done" => vmm[v] = "ready"
  /\ \A v \in Vm : starting[v] \in {"providers", "boot", "done"} =>
       \A u \in Vm : import[u] = "done"
  /\ \A v \in Vm : starting[v] = "done" => v \in booted \cup refused
  /\ \A v \in Vm : starting[v] = "boot" => Providers[v] \subseteq booted \cup refused
  /\ \A v \in booted : Providers[v] \subseteq booted \cup refused

HInv ==
  /\ WaitInv /\ S6Type /\ Locks /\ VmmsImported /\ WaitsLocked
  /\ deaths = 0 /\ ~late => StartsInOrder

LEMMA HInvHost == HInv => HostInv
BY DEF HInv, HostInv, HostType, WaitInv, S6Type, Locks, VmmsImported, WaitsLocked

LEMMA HostInitInv == HostInit => HInv
<1> SUFFICES ASSUME HostInit PROVE HInv
  OBVIOUS
<1>1. WaitInv
  BY WaitInitInv DEF HostInit
<1>2. S6Type
  <2>1. MaxDeaths \in Nat
    BY BootAssumption
  <2>2. deaths \in 0 .. MaxDeaths
    BY <2>1 DEF HostInit
  <2> QED BY <2>2, Zenon DEF HostInit, S6Type, VmmStage, NetStage
<1>3. Locks /\ VmmsImported /\ StartsInOrder
  BY BootAssumption DEF HostInit, Locks, VmmsImported, StartsInOrder
<1>4. WaitsLocked
  BY DEF HostInit, WaitInit, WaitsLocked, Waiting
<1> QED BY <1>1, <1>2, <1>3, <1>4 DEF HInv

(* A step of wait and listen, or of a device.                              *)
LEMMA RendezvousInv ==
  ASSUME HInv, WaitInv', UNCHANGED <<lock, import, vmm, booted, refused, net, starting, deaths>>,
         late' \in {late, TRUE}, \A x \in Name : waiter'[x] \in Waiting => waiter[x] \in Waiting
  PROVE  HInv'
<1>1. S6Type' /\ Locks' /\ VmmsImported'
  BY Zenon DEF HInv, S6Type, Locks, VmmsImported
<1>2. WaitsLocked'
  BY DEF HInv, WaitsLocked, Waits
<1>3. (deaths = 0 /\ ~late => StartsInOrder)'
  BY Zenon DEF HInv, StartsInOrder, S6Type
<1> QED BY <1>1, <1>2, <1>3 DEF HInv

LEMMA WaitHInv == ASSUME HInv, NEW x \in Name, Wait(x) \/ Listen(x) \/ DeviceEvent(x) PROVE HInv'
<1>1. UNCHANGED s6
  BY DEF Wait, Listen, DeviceEvent
<1>2. WaitInv'
  BY <1>1, WaitStepsInv, ListenStepsInv, DeviceEventWait, Zenon DEF HInv, Wait, Listen, s6
<1>3. \A y \in Name : waiter'[y] \in Waiting => waiter[y] \in Waiting
  <2>1. CASE Wait(x)
    BY <2>1 DEF Wait, WaitSteps, WaitMkfifo, WaitOpen, WaitRead, WaitRm, WaiterGoto, HInv,
       WaitInv, WaitType, Waiting
  <2>2. CASE Listen(x)
    <3>1. \/ UNCHANGED waiter
          \/ WaiterGoto(x, IF waiter[x] = "blocked" THEN "read" ELSE waiter[x])
      BY <2>2, Zenon DEF Listen, ListenSteps, ListenMkfifo, ListenOpen, ListenWrite
    <3>2. waiter \in [Name -> WaiterStage]
      BY DEF HInv, WaitInv, WaitType
    <3> QED BY <3>1, <3>2, Zenon DEF WaiterGoto, Waiting
  <2>3. CASE DeviceEvent(x)
    BY <2>3 DEF DeviceEvent
  <2> QED BY <2>1, <2>2, <2>3, Zenon
<1> QED BY <1>1, <1>2, <1>3, RendezvousInv DEF s6

LEMMA KvmTimeoutHInv == ASSUME HInv, KvmTimeout PROVE HInv'
<1>1. WaitInv'
  BY TimeoutInv, BootAssumption DEF KvmTimeout, HInv
<1>2. \A y \in Name : waiter'[y] \in Waiting => waiter[y] \in Waiting
  BY DEF KvmTimeout, WaitTimeout, WaiterGoto, HInv, WaitInv, WaitType, Waiting
<1> QED BY <1>1, <1>2, RendezvousInv, Zenon DEF KvmTimeout

(* The lock is taken: nobody was waiting, and the new waits are its.       *)
LEMMA ChangeLocked ==
  ASSUME HInv, lock \in {"off", "free"}, NEW who \in {"boot", "net"} \cup Vm, Change(who)
  PROVE  WaitsLocked' /\ lock' = who
<1>1. lock' = who /\ who \notin {"off", "free"}
  BY BootAssumption DEF Change
<1>2. \A x \in Name : waiter[x] \notin Waiting
  BY DEF HInv, WaitsLocked
<1>3. \A x \in Name : waiter'[x] \in Waiting => x \in Waits(who)
  BY <1>2 DEF Change
<1> QED BY <1>1, <1>3 DEF WaitsLocked, Waits

(* The lock is given back: who held it has nobody waiting.                 *)
LEMMA SettledLocked ==
  ASSUME HInv, NEW who \in {"boot", "net"} \cup Vm, Settled(who), UNCHANGED <<waiter, lock>> \/
         (UNCHANGED waiter /\ lock' = "free")
  PROVE  WaitsLocked' /\ (~late => \A v \in Vm : import[v] = "done")
<1>1. \A x \in Name : waiter[x] \notin Waiting
  BY DEF HInv, WaitsLocked, Settled, Waiting
<1>2. Failed => late
  BY BootAssumption DEF Failed, HInv, WaitInv
<1> QED BY <1>1, <1>2 DEF WaitsLocked, Settled

LEMMA RcInitHInv == ASSUME HInv, RcInit \/ RcInitEnds PROVE HInv'
<1>1. UNCHANGED <<import, vmm, booted, refused, net, starting, deaths, late>>
  BY DEF RcInit, RcInitEnds
<1>2. WaitInv' /\ WaitsLocked' /\ lock' \in {"boot", "free"} /\ lock \in {"off", "boot"}
  <2>1. CASE RcInit
    BY <2>1, ChangeWait, ChangeLocked, Zenon DEF RcInit, HInv
  <2>2. CASE RcInitEnds
    BY <2>2, WaitSame, SettledLocked, Zenon DEF RcInitEnds, HInv, rendezvous, Settled
  <2> QED BY <2>1, <2>2
<1>3. S6Type'
  BY <1>1, <1>2 DEF HInv, S6Type
<1>4. Locks'
  BY <1>1, <1>2, BootAssumption, Zenon DEF HInv, Locks
<1>5. VmmsImported'
  BY <1>1 DEF HInv, VmmsImported
<1>6. StartsInOrder => StartsInOrder'
  BY <1>1 DEF StartsInOrder
<1> QED BY <1>1, <1>2, <1>3, <1>4, <1>5, <1>6, Zenon DEF HInv

LEMMA ExtRcInitHInv == ASSUME HInv, ExtRcInit PROVE HInv'
<1>1. WaitInv' /\ WaitsLocked'
  BY WaitSame DEF ExtRcInit, HInv, rendezvous, WaitsLocked, Waits
<1>2. S6Type' /\ Locks' /\ VmmsImported'
  BY DEF ExtRcInit, HInv, S6Type, Locks, VmmsImported
<1>3. StartsInOrder => StartsInOrder'
  BY Zenon DEF ExtRcInit, StartsInOrder
<1> QED BY <1>1, <1>2, <1>3, Zenon DEF HInv, ExtRcInit

LEMMA DeathCount ==
  ASSUME NEW d \in 0 .. MaxDeaths, d < MaxDeaths PROVE d + 1 \in 0 .. MaxDeaths /\ d + 1 # 0
BY BootAssumption

(* vm-import and the VMMs leave s6-rc and its callers alone.               *)
LEMMA ImportHInv ==
  ASSUME HInv, NEW v \in Vm, Import(v) \/ Vmm(v) \/ VmmDies(v) PROVE HInv'
<1>1. UNCHANGED <<rendezvous, lock, refused, net, starting, late>>
  BY DEF Import, Vmm, ImportCreate, ImportWait, VmmCreates, VmmReady, VmmDies
<1>2. WaitInv' /\ WaitsLocked' /\ Locks'
  BY <1>1, WaitSame, Zenon DEF HInv, rendezvous, WaitsLocked, Waits, Locks
<1> USE DEF HInv, S6Type, VmmStage, VmmsImported, StartsInOrder, ImportGoto, Created
<1>3. CASE ImportCreate(v)
  <2>1. UNCHANGED <<booted, deaths>>
    BY <1>3 DEF ImportCreate
  <2>2. S6Type'
    BY <1>1, <1>3, <2>1, Zenon DEF ImportCreate
  <2>3. VmmsImported'
    BY <1>3 DEF ImportCreate
  <2>4. StartsInOrder => StartsInOrder'
    BY <1>1, <1>3, <2>1, Zenon DEF ImportCreate
  <2> QED BY <1>1, <1>2, <2>1, <2>2, <2>3, <2>4, Zenon
<1>4. CASE ImportWait(v)
  <2>1. UNCHANGED <<vmm, booted, deaths>>
    BY <1>4, Zenon DEF ImportWait
  <2>2. S6Type'
    BY <1>1, <1>4, <2>1, Zenon DEF ImportWait
  <2>3. VmmsImported'
    BY <1>4, <2>1, Zenon DEF ImportWait
  <2>4. StartsInOrder => StartsInOrder'
    BY <1>1, <1>4, <2>1, Zenon DEF ImportWait
  <2> QED BY <1>1, <1>2, <2>1, <2>2, <2>3, <2>4, Zenon
<1>5. CASE VmmCreates(v)
  <2>1. UNCHANGED <<import, booted, deaths>>
    BY <1>5, Zenon DEF VmmCreates
  <2>2. PICK s \in {"created", "empty"} : vmm' = [vmm EXCEPT ![v] = s]
    BY <1>5, Zenon DEF VmmCreates
  <2>3. S6Type'
    BY <1>1, <1>5, <2>1, <2>2, Zenon DEF VmmCreates
  <2>4. VmmsImported'
    BY <1>5, <2>1, <2>2, Zenon DEF VmmCreates
  <2>5. StartsInOrder => StartsInOrder'
    BY <1>1, <1>5, <2>1, <2>2, Zenon DEF VmmCreates
  <2> QED BY <1>1, <1>2, <2>1, <2>3, <2>4, <2>5, Zenon
<1>6. CASE VmmReady(v)
  <2>1. UNCHANGED <<import, booted, deaths>>
    BY <1>6, Zenon DEF VmmReady
  <2>2. PICK s \in {"ready", "mute"} : vmm' = [vmm EXCEPT ![v] = s]
    BY <1>6, Zenon DEF VmmReady
  <2>3. S6Type'
    BY <1>1, <1>6, <2>1, <2>2, Zenon DEF VmmReady
  <2>4. VmmsImported'
    BY <1>6, <2>1, <2>2, Zenon DEF VmmReady
  <2>5. StartsInOrder => StartsInOrder'
    BY <1>1, <1>6, <2>1, <2>2, Zenon DEF VmmReady
  <2> QED BY <1>1, <1>2, <2>1, <2>3, <2>4, <2>5
<1>7. CASE VmmDies(v)
  <2>1. deaths' \in 0 .. MaxDeaths /\ deaths' # 0
    BY <1>7, DeathCount, Zenon DEF VmmDies
  <2>2. S6Type' /\ VmmsImported'
    BY <1>1, <1>7, <2>1, Zenon DEF VmmDies
  <2> QED BY <1>1, <1>2, <2>1, <2>2, Zenon
<1> QED BY <1>3, <1>4, <1>5, <1>6, <1>7, Zenon DEF Import, Vmm

LEMMA NetHInv == ASSUME HInv, Net \/ NetEvent PROVE HInv'
<1>1. NetSame
  BY Zenon DEF Net, NetEvent, NetBackground, NetChange, NetChanged, NetWait, NetAdd
<1>2. VmmsImported' /\ (StartsInOrder => StartsInOrder')
  BY <1>1 DEF HInv, VmmsImported, StartsInOrder, NetSame
<1>3. CASE NetEvent \/ NetBackground \/ NetWait \/ NetAdd
  <2>1. UNCHANGED <<rendezvous, lock>> /\ net # "change" /\ net' # "change"
    BY <1>3 DEF NetEvent, NetBackground, NetWait, NetAdd, NetGoto
  <2>2. net' \in {"bind", "s6-rc", "failed", "add-device", "offered"}
    BY <1>3, Zenon DEF NetEvent, NetBackground, NetWait, NetAdd, NetGoto
  <2>3. WaitInv' /\ WaitsLocked'
    BY <1>1, <2>1, WaitSame, Zenon DEF HInv, rendezvous, WaitsLocked, Waits, NetSame
  <2>4. S6Type' /\ Locks'
    BY <1>1, <2>1, <2>2, Zenon DEF HInv, S6Type, NetStage, Locks, NetSame
  <2> QED BY <1>1, <1>2, <2>3, <2>4, Zenon DEF HInv, NetSame
<1>4. CASE NetChange
  <2>1. WaitInv' /\ WaitsLocked' /\ lock' = "net"
    BY <1>1, <1>4, ChangeWait, ChangeLocked, Zenon DEF NetChange, HInv, NetSame
  <2>2. S6Type'
    BY <1>1, <1>4, <2>1 DEF HInv, S6Type, NetStage, NetSame, NetChange, NetGoto
  <2>3. Locks'
    BY <1>1, <1>4, <2>1, BootAssumption DEF HInv, Locks, NetSame, NetChange, NetGoto
  <2> QED BY <1>1, <1>2, <2>1, <2>2, <2>3, Zenon DEF HInv, NetSame
<1>5. CASE NetChanged
  <2>1. WaitInv' /\ WaitsLocked' /\ lock = "net" /\ lock' = "free"
    BY <1>1, <1>5, WaitSame, SettledLocked, Zenon DEF NetChanged, HInv, NetSame, rendezvous, Settled
  <2>2. S6Type' /\ Locks'
    BY <1>1, <1>5, <2>1, BootAssumption DEF HInv, S6Type, NetStage, Locks, NetSame, NetChanged,
       NetGoto
  <2> QED BY <1>1, <1>2, <2>1, <2>2, Zenon DEF HInv, NetSame
<1> QED BY <1>3, <1>4, <1>5, Zenon DEF Net

LEMMA StartHInv == ASSUME HInv, NEW v \in Vm, VmStart(v) \/ Start(v) PROVE HInv'
<1>1. StartSame
  BY DEF VmStart, Start, VmStartChange, VmStartProviders, VmStartWait, VmStartBoot
<1>2. VmmsImported'
  BY <1>1 DEF HInv, VmmsImported, StartSame
<1>3. CASE VmStart(v) \/ VmStartWait(v) \/ VmStartBoot(v)
  <2>1. UNCHANGED <<rendezvous, lock>>
    BY <1>3 DEF VmStart, VmStartWait, VmStartBoot
  <2>2. WaitInv' /\ WaitsLocked'
    BY <1>1, <2>1, WaitSame, Zenon DEF HInv, rendezvous, WaitsLocked, Waits, StartSame
  <2>3. PICK s \in {"s6-rc", "boot", "done"} :
          starting' = [starting EXCEPT ![v] = s] /\ starting[v] # "change"
    BY <1>3 DEF VmStart, VmStartWait, VmStartBoot, StartGoto
  <2>4. booted' \subseteq Vm /\ refused' \subseteq Vm
    BY <1>3 DEF VmStart, VmStartWait, VmStartBoot, HInv, S6Type
  <2>5. S6Type' /\ Locks'
    BY <1>1, <2>1, <2>3, <2>4, Zenon DEF HInv, S6Type, Locks, StartSame
  <2>6. ASSUME StartsInOrder PROVE StartsInOrder'
    <3> USE DEF StartsInOrder, StartSame, StartGoto, HInv, S6Type
    <3>1. CASE VmStart(v)
      BY <1>1, <2>6, <3>1, Zenon DEF VmStart
    <3>2. CASE VmStartWait(v)
      <4>1. Providers[v] \subseteq booted \cup refused
        BY <2>6, <3>2, BootAssumption, Zenon DEF VmStartWait
      <4> QED BY <1>1, <2>6, <3>2, <4>1, Zenon DEF VmStartWait
    <3>3. CASE VmStartBoot(v)
      <4>1. Created(v) /\ Providers[v] \subseteq booted \cup refused
        BY <2>6, <3>3, Zenon DEF VmStartBoot, Created
      <4>2. \/ booted' = booted \cup {v} /\ refused' = refused
            \/ booted' = booted /\ refused' = refused \cup {v}
        BY <3>3, <4>1, Zenon DEF VmStartBoot
      <4> QED BY <1>1, <2>6, <3>3, <4>1, <4>2 DEF VmStartBoot
    <3> QED BY <1>3, <3>1, <3>2, <3>3, Zenon
  <2> QED BY <1>1, <1>2, <2>2, <2>5, <2>6, Zenon DEF HInv, StartSame
<1>4. CASE VmStartChange(v)
  <2>1. WaitInv' /\ WaitsLocked' /\ lock' = v
    BY <1>1, <1>4, ChangeWait, ChangeLocked, Zenon DEF VmStartChange, HInv, StartSame
  <2>2. S6Type' /\ Locks'
    BY <1>1, <1>4, <2>1, BootAssumption DEF HInv, S6Type, Locks, StartSame, VmStartChange, StartGoto
  <2>3. StartsInOrder => StartsInOrder'
    BY <1>1, <1>4 DEF HInv, S6Type, StartsInOrder, StartSame, VmStartChange, StartGoto
  <2> QED BY <1>1, <1>2, <2>1, <2>2, <2>3, Zenon DEF HInv, StartSame
<1>5. CASE VmStartProviders(v)
  <2>1. WaitInv' /\ WaitsLocked' /\ lock = v /\ lock' = "free"
        /\ (~late => \A u \in Vm : import[u] = "done")
    BY <1>1, <1>5, WaitSame, SettledLocked, Zenon DEF VmStartProviders, HInv, StartSame, rendezvous,
       Settled
  <2>2. /\ starting[v] = "change" /\ UNCHANGED <<booted, refused>>
        /\ starting' \in [Vm -> {"none", "s6-rc", "change", "providers", "boot", "done"}]
        /\ starting'[v] = "providers"
        /\ \A u \in Vm \ {v} : starting'[u] \in {starting[u], "s6-rc"}
        /\ \A u \in Vm \ {v} : starting[u] = "change" => starting'[u] = "change"
    BY <1>5, Zenon DEF VmStartProviders, HInv, S6Type
  <2>3. S6Type' /\ Locks'
    BY <1>1, <2>1, <2>2, BootAssumption, Zenon DEF HInv, S6Type, Locks, StartSame
  <2>4. ASSUME StartsInOrder, ~late PROVE StartsInOrder'
    BY <1>1, <2>1, <2>2, <2>4, Zenon DEF StartsInOrder, StartSame, HInv, S6Type
  <2> QED BY <1>1, <1>2, <2>1, <2>3, <2>4, Zenon DEF HInv, StartSame
<1> QED BY <1>3, <1>4, <1>5, Zenon DEF Start

LEMMA HostNextInv == ASSUME HInv, HostNext PROVE HInv'
BY WaitHInv, KvmTimeoutHInv, RcInitHInv, ExtRcInitHInv, ImportHInv, NetHInv, StartHInv, Zenon
   DEF HostNext, S6Rc

LEMMA HostSame == ASSUME HInv, UNCHANGED host PROVE HInv'
<1>1. WaitInv' /\ UNCHANGED s6
  BY WaitSame DEF HInv, host, s6
<1> QED BY <1>1, RendezvousInv DEF host, rendezvous, s6

-----------------------------------------------------------------------------
(* The whole                                                               *)

IInv == InitramfsType /\ LinksInOrder /\ HInv

LEMMA InitIInv == Init => IInv
BY InitramfsInitInv, HostInitInv DEF Init, IInv

LEMMA StepIInv == IInv /\ [Next]_vars => IInv'
<1> SUFFICES ASSUME IInv, [Next]_vars PROVE IInv'
  OBVIOUS
<1>1. CASE InInitramfs
  BY <1>1, InitramfsInv, HostSame, Zenon DEF IInv, InInitramfs
<1>2. InitramfsType /\ LinksInOrder /\ UNCHANGED initramfs => InitramfsType' /\ LinksInOrder'
  BY DEF InitramfsType, LinksInOrder, initramfs
<1>3. CASE InHost
  BY <1>2, <1>3, HostNextInv, Zenon DEF IInv, InHost
<1>4. CASE UNCHANGED vars
  BY <1>2, <1>4, HostSame DEF IInv, vars
<1> QED BY <1>1, <1>3, <1>4, Zenon DEF Next

(* The types, and: s6-rc runs for one caller at a time, whether rc.init,   *)
(* net/add or a vm-start; only then does a service wait for its device;    *)
(* and a VM has a VMM from its import on.                                  *)
THEOREM Invariance == Spec => []Inv
<1>1. IInv => Inv
  BY HInvHost DEF IInv, Inv
<1> QED BY <1>1, InitIInv, StepIInv, PTL DEF Spec

(* init sets up and mounts the root file system with both links there,     *)
(* whatever partitions the kernel finds, in whatever order.                *)
THEOREM RootIsComplete == Spec => []RootComplete
<1>1. IInv => RootComplete
  BY Zenon DEF IInv, LinksInOrder, RootComplete
<1> QED BY <1>1, InitIInv, StepIInv, PTL DEF Spec

(* A service that waits with /etc/mdev/wait comes up only for a device     *)
(* that was announced, and fails only by its timeout, for every number of  *)
(* announcements and every s6-rc transaction that starts it again.         *)
THEOREM WaitIsSound == Spec => []WaitSound
<1>1. IInv => WaitSound
  BY Zenon DEF IInv, HInv, WaitInv, WaitSound
<1> QED BY <1>1, InitIInv, StepIInv, PTL DEF Spec

(* While no VMM dies and kvm is there in time, no VM runs before each of   *)
(* its providers, but for those that ch-remote failed to boot: for every   *)
(* finite set of VMs and every providers relation without a cycle.         *)
THEOREM ProvidersAreFirst == Spec => []ProvidersFirst
<1>1. IInv => ProvidersFirst
  BY DEF IInv, HInv, StartsInOrder, ProvidersFirst
<1> QED BY <1>1, InitIInv, StepIInv, PTL DEF Spec

=============================================================================
