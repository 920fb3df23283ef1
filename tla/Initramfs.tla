------------------------------- MODULE Initramfs ------------------------------
(***************************************************************************)
(* The initramfs (host/initramfs/etc): init makes a FIFO, starts mdevd,    *)
(* loads erofs and reads from the FIFO; mdevd runs probe, one at a time,   *)
(* for each partition that appears, and the probe that finds the root file *)
(* system and its verity hashes links both into /dev and writes a line.    *)
(* An installer's partition holds an image whose partitions appear when    *)
(* its probe has set up the loop device.                                   *)
(***************************************************************************)
EXTENDS Naturals, Sequences, FiniteSets

(* The partitions with ROOTFS_UUID and VERITY_UUID, an installer's         *)
(* eosimages partition, and any other.                                     *)
Needed == {"rootfs", "verity"}
Partition == Needed \cup {"eosimages", "other"}

VARIABLES
  init,    \* the command init is at
  mdevd,   \* mdevd: not started, running or killed
  disk,    \* the partitions the kernel has still to find
  parts,   \* the partitions that exist
  uevents, \* the partition events mdevd has still to handle
  probe,   \* the probe that mdevd runs: its partition and its command
  links    \* the links in /dev

initramfs == <<init, mdevd, disk, parts, uevents, probe, links>>

InitStage == {"mkfifo", "modprobe", "read", "veritysetup", "mount", "wait",
              "switch_root", "failed"}
NoProbe == [part |-> "none", at |-> "idle"]

InitramfsType ==
  /\ init \in InitStage
  /\ mdevd \in {"none", "running", "killed"}
  /\ disk \subseteq Partition
  /\ parts \subseteq Partition
  /\ uevents \in Seq(Partition)
  /\ probe \in [part : Partition \cup {"none"},
                at : {"idle", "losetup", "findfs", "rootfs", "verity", "echo"}]
  /\ links \subseteq Needed

(* Spectrum is installed, or is being installed.                           *)
InitramfsInit ==
  /\ init = "mkfifo" /\ mdevd = "none"
  /\ disk \in {Needed, Needed \cup {"other"}, {"eosimages"}, {"eosimages", "other"}}
  /\ parts = {} /\ uevents = <<>> /\ probe = NoProbe /\ links = {}

InitGoto(s) == init' = s
Others == <<mdevd, disk, parts, uevents, probe, links>>

(* The events of the partitions in S come in any order.                    *)
Orders(S) == {s \in [1 .. Cardinality(S) -> S] : S = {s[k] : k \in DOMAIN s}}

(* mdevd gets the kernel's events while it runs.                           *)
Uevent(new) ==
  IF mdevd = "running" THEN \E s \in Orders(new) : uevents' = uevents \o s
                       ELSE UNCHANGED uevents

(* The kernel finds a partition.                                           *)
Appear(p) ==
  /\ p \in disk
  /\ disk' = disk \ {p} /\ parts' = parts \cup {p}
  /\ Uevent({p})
  /\ UNCHANGED <<init, mdevd, probe, links>>

-----------------------------------------------------------------------------
(* init                                                                    *)

(* Mutant: mdevd without -C.                                               *)
StartMdevdCold ==
  /\ init = "mkfifo" /\ InitGoto("modprobe")
  /\ mdevd' = "running" /\ uevents' = <<>>
  /\ UNCHANGED <<disk, parts, probe, links>>

(* mkfifo; mdevd -C starts and asks for the events of what already exists. *)
StartMdevd ==
  /\ init = "mkfifo" /\ InitGoto("modprobe")
  /\ mdevd' = "running" /\ uevents' \in Orders(parts)
  /\ UNCHANGED <<disk, parts, probe, links>>

ModprobeErofs == init = "modprobe" /\ InitGoto("read") /\ UNCHANGED Others

(* veritysetup fails without its two devices, and init with it.            *)
VeritySetup ==
  /\ init = "veritysetup"
  /\ InitGoto(IF links = Needed THEN "mount" ELSE "failed")
  /\ UNCHANGED Others

(* In the background, once the byte is read: mdevd may start another probe *)
(* before it gets the signal.                                              *)
KillMdevd ==
  /\ init \in {"veritysetup", "mount", "wait"} /\ mdevd = "running"
  /\ mdevd' = "killed"
  /\ UNCHANGED <<init, disk, parts, uevents, probe, links>>

(* rm /dev/rootfs /dev/verity, and the mount.                              *)
MountRoot ==
  /\ init = "mount" /\ InitGoto("wait")
  /\ links' = {}
  /\ UNCHANGED <<mdevd, disk, parts, uevents, probe>>

(* wait for mdevd, whether or not a probe it started is still running;     *)
(* switch_root leaves the initramfs and what it still had to do behind.    *)
SwitchRoot ==
  /\ init = "wait" /\ mdevd = "killed"
  /\ InitGoto("switch_root")
  /\ disk' = {} /\ parts' = {} /\ uevents' = <<>> /\ probe' = NoProbe /\ links' = {}
  /\ UNCHANGED mdevd

-----------------------------------------------------------------------------
(* probe                                                                   *)

ProbeGoto(s) == probe' = [probe EXCEPT !.at = s]
ProbeEnds == probe' = NoProbe

StartProbe ==
  /\ mdevd = "running" /\ probe = NoProbe /\ uevents # <<>>
  /\ probe' = [part |-> Head(uevents),
               at |-> IF Head(uevents) = "eosimages" THEN "losetup" ELSE "findfs"]
  /\ uevents' = Tail(uevents)
  /\ UNCHANGED <<init, mdevd, disk, parts, links>>

(* losetup -P: the image's partitions exist from now on, and the probe     *)
(* ends (if -n).  When the partition cannot be mounted it goes on.         *)
Losetup ==
  /\ probe.at = "losetup"
  /\ \/ /\ ProbeEnds
        /\ parts' = parts \cup Needed
        /\ Uevent(Needed \ parts)
     \/ ProbeGoto("findfs") /\ UNCHANGED <<parts, uevents>>
  /\ UNCHANGED <<init, mdevd, disk, links>>

FindFs ==
  /\ probe.at = "findfs"
  /\ IF Needed \subseteq parts THEN ProbeGoto("rootfs") ELSE ProbeEnds
  /\ UNCHANGED <<init, mdevd, disk, parts, uevents, links>>

(* ln -s fails when the link is there, and the probe ends.                 *)
Link(p, next) ==
  /\ probe.at = p
  /\ links' = links \cup {p}
  /\ IF p \in links THEN ProbeEnds ELSE ProbeGoto(next)
  /\ UNCHANGED <<init, mdevd, disk, parts, uevents>>

(* Mutant: the line is written after the first link.                       *)
LinkRootfsEcho == Link("rootfs", "echo")

LinkRootfs == Link("rootfs", "verity")
LinkVerity == Link("verity", "echo")

(* redirfd -w -nb: the open fails while nobody has the FIFO open to read.  *)
(* init goes on when it has read the byte.                                 *)
Echo ==
  /\ probe.at = "echo" /\ ProbeEnds
  /\ init' = IF init = "read" THEN "veritysetup" ELSE init
  /\ UNCHANGED <<mdevd, disk, parts, uevents, links>>

InitSteps == StartMdevd \/ ModprobeErofs \/ VeritySetup \/ MountRoot \/ SwitchRoot
             \/ KillMdevd
ProbeSteps ==
  \/ StartProbe \/ Losetup \/ FindFs \/ LinkRootfs \/ LinkVerity \/ Echo
Kernel == \E p \in Partition : Appear(p)

InitramfsNext == InitSteps \/ ProbeSteps \/ Kernel

-----------------------------------------------------------------------------
(* The probe wrote its line before init read: nobody will write another.   *)
Missed ==
  /\ init \in {"modprobe", "read"}
  /\ links = Needed /\ probe.at # "echo"

(* init opens the root file system only when both links are there: what it *)
(* reads was written by the probe that made them, and no later probe, of   *)
(* another partition or of the same one again, takes one away (init:30-41, *)
(* probe:33-36).                                                           *)
RootComplete ==
  /\ init \in {"veritysetup", "mount"} => links = Needed
  /\ init # "failed"

(* Once the kernel has found both partitions (probe:30-31), init           *)
(* reaches switch_root (init:52), unless the probe's line came             *)
(* before init was reading.                                                *)
RootFoundUnlessMissed ==
  []<>(Needed \subseteq parts => init = "switch_root" \/ Missed)

(* "Do a blocking read on the fifo to wait for mdevd to find the           *)
(* partition." (init:28): when mdevd has found it, the read returns and    *)
(* init reaches switch_root.                                               *)
RootFound == (Needed \subseteq parts) ~> (init = "switch_root")

=============================================================================
