------------------------------- MODULE NetUtil -------------------------------
(***************************************************************************)
(* The kernel's network interfaces as host/start-vmm/net-util.c drives     *)
(* them, and the calls that file makes.                                    *)
(*                                                                         *)
(* start-vmm names every interface after its own process id ("br<pid>",    *)
(* "client<pid>", "router<pid>", "_dead<pid>"), so an interface name is a  *)
(* kind and a pid.  A process is called an incarnation here, because a pid *)
(* is used again by a later process once its first owner has died.         *)
(*                                                                         *)
(* What the kernel does with each ioctl is external to the repository.     *)
(* A call is refused for the reason written in its guard; it may also fail *)
(* for a reason outside this model (memory, permissions), when its name is *)
(* in MayFail.                                                             *)
(***************************************************************************)

CONSTANTS
  Proc,     \* incarnations of start-vmm (cloud-hypervisor after the exec)
  Pid,      \* process ids, which are reused
  None,     \* no incarnation, no bridge
  MayFail   \* the calls and processes that may fail for any reason

ASSUME NoneAssumption == None \notin Proc /\ None \notin Pid

VARIABLES
  owner,    \* owner[k][p]: incarnation that created the interface, or None
  up,       \* up[k][p]: IFF_UP
  port,     \* port[k][p]: pid in the name of the bridge it is a port of
  fds       \* fds[k][p]: who has the tap's file open (never a bridge's)

kernel == <<owner, up, port, fds>>

Kind == {"br", "client", "router", "_dead"}
Holder == {"vmm", "helper", "listener", "router"}

KernelType ==
  /\ owner \in [Kind -> [Pid -> Proc \cup {None}]]
  /\ up \in [Kind -> [Pid -> BOOLEAN]]
  /\ port \in [Kind -> [Pid -> Pid \cup {None}]]
  /\ fds \in [Kind -> [Pid -> SUBSET Holder]]

KernelCoherent ==
  \A k \in Kind, p \in Pid :
    /\ owner[k][p] = None => ~up[k][p] /\ port[k][p] = None /\ fds[k][p] = {}
    /\ owner[k][p] # None => (fds[k][p] = {} <=> k = "br")
    /\ k = "br" => port[k][p] = None

KernelInit ==
  /\ owner = [k \in Kind |-> [p \in Pid |-> None]]
  /\ up = [k \in Kind |-> [p \in Pid |-> FALSE]]
  /\ port = [k \in Kind |-> [p \in Pid |-> None]]
  /\ fds = [k \in Kind |-> [p \in Pid |-> {}]]

Exists(k, p) == owner[k][p] # None

(* The call c fails: the kernel refuses it, or something else goes wrong.  *)
Fails(c, accepted) == c \in MayFail \/ ~accepted

-----------------------------------------------------------------------------

if_up(k, p) ==
  /\ Exists(k, p)
  /\ up' = [up EXCEPT ![k][p] = TRUE]
  /\ UNCHANGED <<owner, port, fds>>

if_down(k, p) ==
  /\ Exists(k, p)
  /\ up' = [up EXCEPT ![k][p] = FALSE]
  /\ UNCHANGED <<owner, port, fds>>

(* SIOCSIFNAME refuses a name that is taken, and an interface that is up.  *)
CanRename(k, l, p) == Exists(k, p) /\ ~Exists(l, p) /\ ~up[k][p]

if_rename(k, l, p) ==
  /\ CanRename(k, l, p)
  /\ owner' = [owner EXCEPT ![l][p] = owner[k][p], ![k][p] = None]
  /\ up' = [up EXCEPT ![l][p] = FALSE]
  /\ port' = [port EXCEPT ![l][p] = port[k][p], ![k][p] = None]
  /\ fds' = [fds EXCEPT ![l][p] = fds[k][p], ![k][p] = {}]

(* Mutant: EEXIST is taken for success.                                    *)
bridge_add_tolerant(i, p) ==
  /\ owner' = [owner EXCEPT !["br"][p] = IF Exists("br", p) THEN @ ELSE i]
  /\ UNCHANGED <<up, port, fds>>

bridge_add(i, p) ==
  /\ ~Exists("br", p)
  /\ owner' = [owner EXCEPT !["br"][p] = i]
  /\ UNCHANGED <<up, port, fds>>

CanEnslave(b, k, p) == Exists("br", b) /\ Exists(k, p) /\ port[k][p] = None

bridge_add_if(b, k, p) ==
  /\ CanEnslave(b, k, p)
  /\ port' = [port EXCEPT ![k][p] = b]
  /\ UNCHANGED <<owner, up, fds>>

IsPort(b, k, p) == Exists("br", b) /\ Exists(k, p) /\ port[k][p] = b

bridge_remove_if(b, k, p) ==
  /\ IsPort(b, k, p)
  /\ port' = [port EXCEPT ![k][p] = None]
  /\ UNCHANGED <<owner, up, fds>>

(* Sets the bridge down, then deletes it; the kernel releases its ports.   *)
bridge_delete(p) ==
  /\ Exists("br", p)
  /\ owner' = [owner EXCEPT !["br"][p] = None]
  /\ up' = [up EXCEPT !["br"][p] = FALSE]
  /\ port' = [k \in Kind |-> [q \in Pid |->
                IF port[k][q] = p THEN None ELSE port[k][q]]]
  /\ UNCHANGED fds

(* A failed bridge_delete may already have set the bridge down.            *)
bridge_delete_failed(p) ==
  /\ Fails("bridge_delete", Exists("br", p))
  /\ \E u \in {up["br"][p], FALSE} : up' = [up EXCEPT !["br"][p] = u]
  /\ UNCHANGED <<owner, port, fds>>

(* IFF_TUN_EXCL: the name must be free.  The tap is created with one file. *)
tap_open(i, k, p) ==
  /\ ~Exists(k, p)
  /\ owner' = [owner EXCEPT ![k][p] = i]
  /\ fds' = [fds EXCEPT ![k][p] = {"vmm"}]
  /\ UNCHANGED <<up, port>>

-----------------------------------------------------------------------------
(* Holder h closes its files of the taps in K that incarnations of O       *)
(* created.  A tap disappears, and leaves its bridge, with its last file.  *)

Vanishes(K, O, h, k, p) ==
  k \in K \ {"br"} /\ owner[k][p] \in O /\ fds[k][p] \subseteq {h}

CloseFiles(K, O, h) ==
  /\ owner' = [k \in Kind |-> [p \in Pid |->
                 IF Vanishes(K, O, h, k, p) THEN None ELSE owner[k][p]]]
  /\ up' = [k \in Kind |-> [p \in Pid |->
                 ~Vanishes(K, O, h, k, p) /\ up[k][p]]]
  /\ port' = [k \in Kind |-> [p \in Pid |->
                 IF Vanishes(K, O, h, k, p) THEN None ELSE port[k][p]]]
  /\ fds' = [k \in Kind |-> [p \in Pid |->
                 IF k \in K /\ owner[k][p] \in O THEN fds[k][p] \ {h}
                                                ELSE fds[k][p]]]

=============================================================================
