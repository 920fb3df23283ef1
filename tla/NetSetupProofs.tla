-------------------------- MODULE NetSetupProofs ---------------------------
(***************************************************************************)
(* The proofs about net.c, in four parts.  What the calls of NetUtil       *)
(* preserve, each taken alone with what its caller in net.c knows when it  *)
(* makes it.  Inv is inductive, one lemma per action.  NetSetup implements *)
(* PidLease.  Ledger is inductive, nothing leaks, and a cleanup that ends  *)
(* has done all of it.                                                     *)
(***************************************************************************)
EXTENDS NetSetup, TLAPS

(* The kernel part of Inv.                                                *)
KernelOK == KernelType /\ KernelCoherent /\ NoCrossTalk

(* A step that makes no call.                                              *)
LEMMA KernelSame ==
  ASSUME KernelOK, UNCHANGED kernel
  PROVE  KernelOK'
<1> USE DEF kernel, KernelOK
<1>1. KernelType'
  BY Zenon DEF KernelType
<1>2. KernelCoherent'
  BY Zenon DEF KernelCoherent
<1>3. NoCrossTalk'
  BY Zenon DEF NoCrossTalk
<1> QED
  BY <1>1, <1>2, <1>3, Zenon

(* if_up and if_down change one flag of an interface that exists.          *)
LEMMA FlagsOK ==
  ASSUME KernelOK, NEW k \in Kind, NEW p \in Pid,
         if_up(k, p) \/ if_down(k, p)
  PROVE  KernelOK'
<1>1. PICK u \in BOOLEAN : up' = [up EXCEPT ![k][p] = u]
  BY Zenon DEF if_up, if_down
<1>2. owner[k][p] # None /\ UNCHANGED <<owner, port, fds>>
  BY Zenon DEF if_up, if_down, Exists
<1>3. KernelType'
  BY <1>1, <1>2, Zenon DEF KernelOK, KernelType
<1>4. KernelCoherent'
  BY <1>1, <1>2 DEF KernelOK, KernelType, KernelCoherent
<1> QED
  BY <1>2, <1>3, <1>4, Zenon DEF KernelOK, NoCrossTalk

(* if_rename moves everything router<pid> has to a free name.              *)
LEMMA RenameOK ==
  ASSUME KernelOK, NEW p \in Pid, if_rename("router", "_dead", p)
  PROVE  KernelOK'
<1>1. KernelType'
  BY ZenonT(30) DEF KernelOK, KernelType, if_rename, CanRename, Exists, Kind
<1>2. KernelCoherent'
  <2>1. \A k \in Kind, q \in Pid :
          (k # "_dead" /\ k # "router") \/ q # p =>
            /\ owner'[k][q] = owner[k][q] /\ port'[k][q] = port[k][q]
            /\ up'[k][q] = up[k][q] /\ fds'[k][q] = fds[k][q]
    BY Zenon DEF KernelOK, KernelType, if_rename, Kind
  <2>2. /\ owner'["_dead"][p] = owner["router"][p] /\ owner'["router"][p] = None
        /\ port'["router"][p] = None
        /\ fds'["_dead"][p] = fds["router"][p] /\ fds'["router"][p] = {}
    BY Zenon DEF KernelOK, KernelType, if_rename, Kind
  <2>3. up'["router"][p] = up["router"][p]
    BY Zenon DEF KernelOK, KernelType, if_rename, Kind
  <2>4. owner["router"][p] # None /\ ~up["router"][p]
    BY Zenon DEF if_rename, CanRename, Exists
  <2> SUFFICES ASSUME NEW k \in Kind, NEW q \in Pid
               PROVE  (/\ owner[k][q] = None =>
                            ~up[k][q] /\ port[k][q] = None /\ fds[k][q] = {}
                       /\ owner[k][q] # None => (fds[k][q] = {} <=> k = "br")
                       /\ k = "br" => port[k][q] = None)'
    BY Zenon DEF KernelCoherent
  <2>5. CASE k = "_dead" /\ q = p
    BY <2>2, <2>4, <2>5 DEF KernelOK, KernelCoherent, Kind
  <2>6. CASE k = "router" /\ q = p
    BY <2>2, <2>3, <2>4, <2>6, Zenon
  <2>7. CASE (k # "_dead" /\ k # "router") \/ q # p
    BY <2>1, <2>7 DEF KernelOK, KernelCoherent
  <2> QED
    BY <2>5, <2>6, <2>7, Zenon
<1>3. NoCrossTalk'
  <2>1. \A k \in Kind, q \in Pid :
          (k # "_dead" /\ k # "router") \/ q # p =>
            owner'[k][q] = owner[k][q] /\ port'[k][q] = port[k][q]
    BY Zenon DEF KernelOK, KernelType, if_rename, Kind
  <2>2. /\ owner'["_dead"][p] = owner["router"][p]
        /\ port'["_dead"][p] = port["router"][p]
        /\ port'["router"][p] = None
    BY Zenon DEF KernelOK, KernelType, if_rename, Kind
  <2>3. \A q \in Pid : owner'["br"][q] = owner["br"][q]
    BY <2>1, Zenon DEF Kind
  <2> SUFFICES ASSUME NEW k \in Kind, NEW q \in Pid, port'[k][q] # None
               PROVE  owner'[k][q] # None /\ owner'[k][q] = owner'["br"][port'[k][q]]
    BY Zenon DEF NoCrossTalk
  <2>4. port'[k][q] \in Pid
    BY <1>1 DEF KernelType
  <2>5. CASE k = "_dead" /\ q = p
    BY <2>2, <2>3, <2>4, <2>5 DEF KernelOK, NoCrossTalk, Kind
  <2>6. CASE k = "router" /\ q = p
    BY <2>2, <2>6, Zenon
  <2>7. CASE (k # "_dead" /\ k # "router") \/ q # p
    BY <2>1, <2>3, <2>4, <2>7 DEF KernelOK, NoCrossTalk
  <2> QED
    BY <2>5, <2>6, <2>7, Zenon
<1> QED
  BY <1>1, <1>2, <1>3, Zenon DEF KernelOK

(* A new bridge has no ports, whatever its name was used for before.       *)
LEMMA BridgeAddOK ==
  ASSUME KernelOK, NEW i \in Proc, NEW p \in Pid, bridge_add(i, p)
  PROVE  KernelOK'
<1> USE NoneAssumption DEF KernelOK, KernelType, bridge_add, Exists, Kind
<1>1. KernelType'
  BY Zenon
<1>2. KernelCoherent'
  BY DEF KernelCoherent
<1>3. NoCrossTalk'
  BY DEF NoCrossTalk, KernelCoherent
<1> QED
  BY <1>1, <1>2, <1>3, Zenon

(* An interface joins, or leaves, a bridge of its own incarnation.         *)
LEMMA EnslaveOK ==
  ASSUME KernelOK, NEW p \in Pid, NEW k \in {"client", "router"},
         owner[k][p] = owner["br"][p],
         bridge_add_if(p, k, p) \/ bridge_remove_if(p, k, p)
  PROVE  KernelOK'
<1>1. PICK b \in {p, None} : port' = [port EXCEPT ![k][p] = b]
  BY Zenon DEF bridge_add_if, bridge_remove_if
<1>2. owner[k][p] # None /\ UNCHANGED <<owner, up, fds>>
  BY Zenon DEF bridge_add_if, bridge_remove_if, CanEnslave, IsPort, Exists
<1> USE NoneAssumption DEF KernelOK, KernelType, Kind
<1>3. KernelType'
  BY <1>1, <1>2, Zenon
<1>4. KernelCoherent'
  BY <1>1, <1>2 DEF KernelCoherent
<1>5. NoCrossTalk'
  BY <1>1, <1>2 DEF NoCrossTalk
<1> QED
  BY <1>3, <1>4, <1>5, Zenon

(* bridge_delete releases every port, so none is left behind pointing at a *)
(* bridge a later incarnation may make under the same name.                *)
LEMMA BridgeDeleteOK ==
  ASSUME KernelOK, NEW p \in Pid, bridge_delete(p) \/ bridge_delete_failed(p)
  PROVE  KernelOK'
<1>1. CASE bridge_delete(p)
  <2>1. KernelType'
    BY <1>1, NoneAssumption DEF bridge_delete, KernelOK, KernelType, Kind
  <2>2. \A k \in Kind, q \in Pid :
          /\ owner'[k][q] = IF k = "br" /\ q = p THEN None ELSE owner[k][q]
          /\ up'[k][q] = IF k = "br" /\ q = p THEN FALSE ELSE up[k][q]
          /\ port'[k][q] = IF port[k][q] = p THEN None ELSE port[k][q]
          /\ fds'[k][q] = fds[k][q]
    BY <1>1, Zenon DEF bridge_delete, KernelOK, KernelType, Kind
  <2>3. owner["br"][p] # None
    BY <1>1, Zenon DEF bridge_delete, Exists
  <2>4. KernelCoherent'
    <3> SUFFICES ASSUME NEW k \in Kind, NEW q \in Pid
                 PROVE  KernelCoherent!(k, q)'
      BY Zenon DEF KernelCoherent
    <3>1. CASE k = "br" /\ q = p
      BY <2>2, <2>3, <3>1, ZenonT(30) DEF KernelOK, KernelCoherent
    <3>2. CASE ~(k = "br" /\ q = p)
      <4>1. /\ owner'[k][q] = owner[k][q] /\ up'[k][q] = up[k][q]
            /\ fds'[k][q] = fds[k][q]
            /\ port[k][q] = None => port'[k][q] = None
        BY <2>2, <3>2, NoneAssumption, Zenon
      <4> QED
        BY <4>1, Zenon DEF KernelOK, KernelCoherent
    <3> QED
      BY <3>1, <3>2, Zenon
  <2>5. NoCrossTalk'
    <3> SUFFICES ASSUME NEW k \in Kind, NEW q \in Pid, port'[k][q] # None
                 PROVE  owner'[k][q] # None /\ owner'[k][q] = owner'["br"][port'[k][q]]
      BY Zenon DEF NoCrossTalk
    <3>1. port[k][q] # p /\ port'[k][q] = port[k][q]
      BY <2>2, Zenon
    <3>2. k # "br" /\ port[k][q] \in Pid
      BY <3>1 DEF KernelOK, KernelCoherent, KernelType
    <3>3. owner'[k][q] = owner[k][q]
      BY <2>2, <3>2, Zenon
    <3>4. owner'["br"][port[k][q]] = owner["br"][port[k][q]]
      BY <2>2, <3>1, <3>2, Zenon DEF Kind
    <3> QED
      BY <3>1, <3>3, <3>4, Zenon DEF KernelOK, NoCrossTalk
  <2> QED
    BY <2>1, <2>4, <2>5, Zenon DEF KernelOK
<1>2. CASE bridge_delete_failed(p)
  <2>1. PICK u \in {up["br"][p], FALSE} : up' = [up EXCEPT !["br"][p] = u]
    BY <1>2, Zenon DEF bridge_delete_failed
  <2>2. UNCHANGED <<owner, port, fds>>
    BY <1>2, Zenon DEF bridge_delete_failed
  <2>3. u \in BOOLEAN
    BY <2>1, ZenonT(30) DEF KernelOK, KernelType, Kind
  <2>4. KernelType'
    BY <2>1, <2>2, <2>3, Zenon DEF KernelOK, KernelType, Kind
  <2>5. KernelCoherent'
    <3>1. \A k \in Kind, q \in Pid : up[k][q] = FALSE => up'[k][q] = FALSE
      BY <2>1, Zenon DEF KernelOK, KernelType, Kind
    <3> QED
      BY <2>2, <3>1 DEF KernelOK, KernelType, KernelCoherent
  <2> QED
    BY <2>2, <2>4, <2>5, Zenon DEF KernelOK, NoCrossTalk
<1> QED
  BY <1>1, <1>2, Zenon

(* A new tap is down, in no bridge, and open once.                         *)
LEMMA TapOpenOK ==
  ASSUME KernelOK, NEW i \in Proc, NEW p \in Pid, NEW k \in {"client", "router"},
         tap_open(i, k, p)
  PROVE  KernelOK'
<1>1. KernelType'
  BY Zenon DEF KernelOK, KernelType, tap_open, Kind, Holder
<1>2. \A l \in Kind, q \in Pid :
        /\ owner'[l][q] = IF l = k /\ q = p THEN i ELSE owner[l][q]
        /\ fds'[l][q] = IF l = k /\ q = p THEN {"vmm"} ELSE fds[l][q]
        /\ up'[l][q] = up[l][q] /\ port'[l][q] = port[l][q]
  BY Zenon DEF KernelOK, KernelType, tap_open, Kind
<1>3. k \in Kind /\ k # "br" /\ i # None /\ owner[k][p] = None
  BY NoneAssumption, Zenon DEF tap_open, Exists, Kind
<1>4. KernelCoherent'
  BY <1>2, <1>3 DEF KernelOK, KernelCoherent
<1>5. NoCrossTalk'
  BY <1>1, <1>2, <1>3 DEF KernelOK, KernelType, NoCrossTalk, KernelCoherent, Kind
<1> QED
  BY <1>1, <1>4, <1>5, Zenon DEF KernelOK

(* A tap that loses its last file disappears with its flags and its port.  *)
LEMMA CloseFilesOK ==
  ASSUME KernelOK, NEW K, NEW O \in SUBSET Proc, NEW h \in Holder, CloseFiles(K, O, h)
  PROVE  KernelOK'
<1> USE NoneAssumption DEF KernelOK, KernelType, CloseFiles, Vanishes
<1>1. KernelType'
  BY Zenon
<1>2. KernelCoherent'
  BY Zenon DEF KernelCoherent
<1>3. NoCrossTalk'
  BY DEF NoCrossTalk, KernelCoherent, Kind
<1> QED
  BY <1>1, <1>2, <1>3, Zenon

(* A tap changes hands: its file is inherited or passed on.                *)
LEMMA ShareFileOK ==
  ASSUME KernelOK, NEW p \in Pid, NEW k \in {"client", "router"}, 
         owner[k][p] # None, NEW H \in SUBSET Holder, H # {},
         fds' = [fds EXCEPT ![k][p] = H], UNCHANGED <<owner, up, port>>
  PROVE  KernelOK'
<1> USE DEF KernelOK, KernelType, Kind
<1>1. KernelType'
  BY Zenon
<1>2. KernelCoherent'
  BY DEF KernelCoherent
<1>3. NoCrossTalk'
  BY DEF NoCrossTalk
<1> QED
  BY <1>1, <1>2, <1>3, Zenon

-----------------------------------------------------------------------------
(* The cells of an interface that a step leaves alone.                     *)
Same(k, p) ==
  /\ owner'[k][p] = owner[k][p] /\ up'[k][p] = up[k][p]
  /\ port'[k][p] = port[k][p] /\ fds'[k][p] = fds[k][p]

(* A call on names of pid p leaves the names of other pids alone.          *)
LEMMA LocalCall ==
  ASSUME KernelType, NEW i \in Proc, NEW p \in Pid, NEW k \in Kind, 
         \/ if_up(k, p) \/ if_down(k, p) \/ if_rename("router", "_dead", p)
         \/ bridge_add(i, p) \/ bridge_add_if(p, k, p) \/ bridge_remove_if(p, k, p)
         \/ tap_open(i, k, p) \/ ch_add_net(i, p) \/ bridge_delete_failed(p),
         NEW l \in Kind, NEW q \in Pid, q # p
  PROVE  Same(l, q)
<1> USE DEF KernelType, Same
<1>1. CASE if_up(k, p)
  BY <1>1, Zenon DEF if_up
<1>8. CASE if_down(k, p)
  BY <1>8, Zenon DEF if_down
<1>2. CASE if_rename("router", "_dead", p)
  BY <1>2, Zenon DEF if_rename, Kind
<1>3. CASE bridge_add(i, p)
  BY <1>3, Zenon DEF bridge_add, Kind
<1>4. CASE bridge_add_if(p, k, p)
  BY <1>4, Zenon DEF bridge_add_if
<1>9. CASE bridge_remove_if(p, k, p)
  BY <1>9, Zenon DEF bridge_remove_if
<1>5. CASE tap_open(i, k, p)
  BY <1>5, Zenon DEF tap_open
<1>6. CASE ch_add_net(i, p)
  BY <1>6, Zenon DEF ch_add_net, Kind
<1>7. CASE bridge_delete_failed(p)
  BY <1>7 DEF bridge_delete_failed, Kind
<1> QED
  BY <1>1, <1>2, <1>3, <1>4, <1>5, <1>6, <1>7, <1>8, <1>9, Zenon

(* Closing files of i's taps leaves what others made alone.                *)
LEMMA LocalClose ==
  ASSUME KernelType, NEW K, NEW O, NEW h, CloseFiles(K, O, h),
         NEW k \in Kind, NEW p \in Pid, owner[k][p] \notin O
  PROVE  Same(k, p)
<1>1. ~Vanishes(K, O, h, k, p)
  BY Zenon DEF Vanishes
<1>2. up[k][p] \in BOOLEAN
  BY Zenon DEF KernelType
<1> QED
  BY <1>1, <1>2, Zenon DEF CloseFiles, Same

(* Deleting a bridge leaves alone what is not one of its ports.            *)
LEMMA LocalDelete ==
  ASSUME KernelType, NEW p \in Pid, bridge_delete(p),
         NEW k \in Kind, NEW q \in Pid, q # p, port[k][q] # p
  PROVE  Same(k, q)
BY Zenon DEF KernelType, bridge_delete, Same, Kind

(* A tap with a file of someone else stays as it is when h closes its own. *)
LEMMA Survives ==
  ASSUME KernelType, NEW K, NEW O, NEW h, CloseFiles(K, O, h), NEW g, g # h,
         NEW k \in Kind, NEW p \in Pid, g \in fds[k][p]
  PROVE  /\ owner'[k][p] = owner[k][p] /\ up'[k][p] = up[k][p]
         /\ port'[k][p] = port[k][p] /\ g \in fds'[k][p]
<1>1. ~Vanishes(K, O, h, k, p)
  BY Zenon DEF Vanishes
<1>2. up[k][p] \in BOOLEAN
  BY Zenon DEF KernelType
<1> QED
  BY <1>1, <1>2, Zenon DEF CloseFiles

(* A bridge has no files to close.                                         *)
LEMMA BridgeSurvives ==
  ASSUME KernelType, NEW K, NEW O, NEW h, CloseFiles(K, O, h), NEW p \in Pid
  PROVE  owner'["br"][p] = owner["br"][p] /\ up'["br"][p] = up["br"][p]
<1>1. ~Vanishes(K, O, h, "br", p) /\ "br" \in Kind
  BY Zenon DEF Vanishes, Kind
<1>2. up["br"][p] \in BOOLEAN
  BY Zenon DEF KernelType, Kind
<1> QED
  BY <1>1, <1>2, Zenon DEF CloseFiles

(* A tap that is closed keeps its owner or disappears.                     *)
LEMMA OwnerOrNone ==
  ASSUME NEW K, NEW O, NEW h, CloseFiles(K, O, h), NEW k \in Kind, NEW p \in Pid
  PROVE  owner'[k][p] \in {owner[k][p], None}
BY Zenon DEF CloseFiles

(* Closing files deletes no bridge.                                        *)
LEMMA CloseKeepsBridges ==
  ASSUME NEW K, NEW O, NEW h, CloseFiles(K, O, h), NEW p \in Pid
  PROVE  owner'["br"][p] = owner["br"][p]
BY Zenon DEF CloseFiles, Vanishes, Kind

-----------------------------------------------------------------------------
(* How one incarnation's step leaves the others alone.  An action of       *)
(* incarnation i concerns the names of its own pid, which it alone may use *)
(* while it holds the bridge (Exclusive); so every other incarnation is    *)
(* undisturbed (Frame), and only what i itself relies on has to be shown   *)
(* again (LocalStep, CloseStep, DeleteStep).  The actions of net_setup up  *)
(* to the router's device follow, one lemma each.                          *)


(* A step leaves alone what j relies on: its stages, and the interfaces of *)
(* its pid that are its own or do not exist.                               *)
Undisturbed(j) ==
  /\ pid'[j] = pid[j] /\ pc'[j] = pc[j] /\ tap'[j] = tap[j] /\ lpc'[j] = lpc[j]
  /\ HoldsBridge(j) =>
       /\ rdev'[pid[j]] = rdev[pid[j]]
       /\ \A k \in {"br", "client", "router"} :
            owner[k][pid[j]] \in {j, None} => Same(k, pid[j])

(* What an undisturbed incarnation relies on still holds.                  *)
LEMMA Frame ==
  ASSUME NEW j \in Proc, Inv, Undisturbed(j)
  PROVE  (BridgeHeld(j) /\ TapsHeld(j) /\ DeviceHeld(j))'
<1> USE DEF Undisturbed, Inv
<1>1. HoldsBridge(j)' <=> HoldsBridge(j)
  BY Zenon DEF HoldsBridge, Listening
<1>2. CASE ~HoldsBridge(j)
  BY <1>1, <1>2, Zenon DEF BridgeHeld, TapsHeld, DeviceHeld, HoldsBridge, Listening,
     ClientDone, Setting, Made, Building, Running, Cleaning
<1>3. CASE HoldsBridge(j)
  <2> DEFINE p == pid[j]
  <2>1. pid'[j] = p /\ owner["br"][p] = j /\ Same("br", p)
    BY <1>3, Zenon DEF BridgeHeld
  <2>2. rdev'[p] = rdev[p]
    BY <1>3, Zenon
  <2>3. \A k \in {"client", "router"} : owner[k][p] \in {j, None} => Same(k, p)
    BY <1>3, Zenon
  <2>4. tap[j] \in {"client", "router"}
    BY Zenon DEF TypeOK, ProcessType
  <2> HIDE DEF p
  <2>5. BridgeHeld(j)'
    BY <2>1, Zenon DEF BridgeHeld, Same
  <2>6. TapsHeld(j)'
    <3>1. \A k \in {"client", "router"} : HasTap(j, k) => HasTap(j, k)'
      BY <2>1, <2>3, Zenon DEF HasTap, Same, p
    <3>2. \A k \in {"client", "router"} : Linked(j, k) => Linked(j, k)'
      BY <2>1, <2>3, SMTT(30) DEF Linked, Same, p
    <3>3. owner[tap[j]][p] = j => port'[tap[j]][p] = port[tap[j]][p]
      BY <2>3, <2>4, Zenon DEF Same
    <3>4. up'["br"][p] = up["br"][p]
      BY <2>1, Zenon DEF Same
    <3>5. owner["client"][p] = j => Same("client", p)
      BY <2>3, Zenon
    <3>6. pc[j] = "tap_up" => owner[tap[j]][p] = j
      BY Zenon DEF TapsHeld, HasTap, Setting, p
    <3>7. (pc[j] \in Setting \ {"tap_open"} => HasTap(j, tap[j]))'
      BY <2>4, <3>1, Zenon DEF TapsHeld
    <3>8. (pc[j] = "tap_up" => port[tap[j]][pid[j]] = pid[j])'
      BY <2>1, <3>3, <3>6, Zenon DEF TapsHeld, p
    <3>9. (pc[j] = "add_net" => Linked(j, "router"))'
      BY <3>2, Zenon DEF TapsHeld
    <3>10. (pc[j] \in Setting \cup Made => up["br"][pid[j]])'
      BY <2>1, <3>4, Zenon DEF TapsHeld, p
    <3>11. (ClientDone(j) => HasTap(j, "client") /\ Linked(j, "client"))'
      BY <3>1, <3>2, Zenon DEF TapsHeld, ClientDone
    <3>12. (Listening(j) => owner["client"][pid[j]] = j
                             /\ "listener" \in fds["client"][pid[j]])'
      BY <2>1, <3>5 DEF TapsHeld, Listening, Same, p
    <3> QED
      BY <3>7, <3>8, <3>9, <3>10, <3>11, <3>12, Zenon DEF TapsHeld
  <2>7. DeviceHeld(j)'
    BY <2>1, <2>2, <2>3, SMTT(30) DEF DeviceHeld, Linked, Listening, Same, p
  <2> QED
    BY <2>5, <2>6, <2>7, Zenon
<1> QED
  BY <1>2, <1>3, Zenon

(* Two incarnations that hold a bridge have different pids.                *)
LEMMA Exclusive ==
  ASSUME NEW i \in Proc, NEW j \in Proc, Inv, HoldsBridge(i), HoldsBridge(j),
         pid[i] = pid[j]
  PROVE  i = j
BY Zenon DEF Inv, BridgeHeld

Others(i) == \A j \in Proc \ {i} : Undisturbed(j)
Own(i) == BridgeHeld(i) /\ TapsHeld(i) /\ DeviceHeld(i)

(* The parts of the invariant, the acting incarnation apart from the       *)
(* others.                                                                 *)
LEMMA Combine ==
  ASSUME NEW i \in Proc, Inv, KernelOK', ProcessType', RouterDevices',
         (\A j \in Proc : StagesAgree(j))', Others(i), Own(i)'
  PROVE  Inv'
<1>1. \A j \in Proc \ {i} : (BridgeHeld(j) /\ TapsHeld(j) /\ DeviceHeld(j))'
  BY Frame, Zenon DEF Others
<1> QED
  BY <1>1, Zenon DEF Inv, Own, TypeOK, KernelOK

(* A step of i that holds its bridge and touches only names of its pid.    *)
LEMMA LocalStep ==
  ASSUME NEW i \in Proc, Inv, HoldsBridge(i), pid' = pid,
         \A j \in Proc \ {i} : pc'[j] = pc[j] /\ tap'[j] = tap[j] /\ lpc'[j] = lpc[j],
         \A q \in Pid \ {pid[i]} : rdev'[q] = rdev[q] /\ \A k \in Kind : Same(k, q)
  PROVE  Others(i)
<1> SUFFICES ASSUME NEW j \in Proc \ {i} PROVE Undisturbed(j)
  BY Zenon DEF Others
<1>1. HoldsBridge(j) => pid[j] \in Pid \ {pid[i]}
  <2>1. HoldsBridge(j) => pid[j] # pid[i]
    BY Exclusive, Zenon
  <2>2. HoldsBridge(j) => pid[j] \in Pid
    BY Zenon DEF Inv, StagesAgree, HoldsBridge, Listening, Building, Running, Cleaning
  <2> QED
    BY <2>1, <2>2, Zenon
<1>2. {"br", "client", "router"} \subseteq Kind
  BY Zenon DEF Kind
<1> QED
  BY <1>1, <1>2, Zenon DEF Undisturbed

(* A step in which i closes files of its own taps.                         *)
LEMMA CloseStep ==
  ASSUME NEW i \in Proc, Inv, NEW K, NEW h, CloseFiles(K, {i}, h),
         pid' = pid, rdev' = rdev,
         \A j \in Proc \ {i} : pc'[j] = pc[j] /\ tap'[j] = tap[j] /\ lpc'[j] = lpc[j]
  PROVE  Others(i)
<1> SUFFICES ASSUME NEW j \in Proc \ {i} PROVE Undisturbed(j)
  BY Zenon DEF Others
<1>1. HoldsBridge(j) => pid[j] \in Pid
  BY Zenon DEF Inv, StagesAgree, HoldsBridge, Listening, Building, Running, Cleaning
<1>2. \A k \in {"br", "client", "router"}, p \in Pid :
        owner[k][p] \in {j, None} => Same(k, p)
  BY LocalClose, NoneAssumption DEF Inv, TypeOK, Kind
<1> QED
  BY <1>1, <1>2, Zenon DEF Undisturbed

(* An incarnation that no longer holds its bridge relies on nothing.       *)
LEMMA IdleOwn ==
  ASSUME NEW i \in Proc, ~HoldsBridge(i)'
  PROVE  Own(i)'
BY Zenon DEF Own, BridgeHeld, TapsHeld, DeviceHeld, HoldsBridge, Listening, ClientDone,
   Setting, Made, Building, Running, Cleaning

(* Only the router's own files keep its devices' taps in existence.        *)
LEMMA DevicesClose ==
  ASSUME KernelType, RouterDevices, ProcessType, NEW K, NEW O, NEW h \in Holder,
         h # "router", CloseFiles(K, O, h), rdev' = rdev
  PROVE  RouterDevices'
<1> SUFFICES ASSUME NEW p \in Pid, rdev[p] # None
             PROVE  owner'["router"][p] = rdev[p] /\ "router" \in fds'["router"][p]
  BY Zenon DEF RouterDevices
<1>1. ~Vanishes(K, O, h, "router", p)
  BY Zenon DEF RouterDevices, Vanishes
<1>2. "router" \in Kind
  BY Zenon DEF Kind
<1> QED
  BY <1>1, <1>2, Zenon DEF CloseFiles, RouterDevices

(* The router's devices are untouched when its taps are.                   *)
LEMMA DevicesSame ==
  ASSUME RouterDevices, rdev' = rdev, owner'["router"] = owner["router"],
         fds'["router"] = fds["router"]
  PROVE  RouterDevices'
BY Zenon DEF RouterDevices

(* At fail_bridge an incarnation relies on its bridge only.                *)
LEMMA FailOwn ==
  ASSUME NEW i \in Proc, Inv, pc[i] \in Building, pc'[i] = "fail_bridge",
         pid' = pid, lpc' = lpc, owner'["br"][pid[i]] = owner["br"][pid[i]]
  PROVE  Own(i)'
<1>1. lpc'[i] = "none"
  BY Zenon DEF Inv, StagesAgree
<1>2. BridgeHeld(i)'
  BY Zenon DEF Inv, BridgeHeld, HoldsBridge
<1> QED
  BY <1>1, <1>2, Zenon DEF Own, TapsHeld, DeviceHeld, ClientDone, Listening, Setting,
     Made, Running, Cleaning

(* A call of setup or of ch_add_net failed: the tap at hand was closed.    *)
LEMMA FailInv ==
  ASSUME NEW i \in Proc, Inv, pc[i] \in Building, NEW K, CloseFiles(K, {i}, "vmm"),
         Goto(i, "fail_bridge"), UNCHANGED <<pid, tap, helper, lpc, router>>
  PROVE  Inv'
<1> USE DEF Inv, Goto, router
<1>1. KernelOK'
  BY CloseFilesOK, Zenon DEF KernelOK, TypeOK, Holder
<1>2. ProcessType'
  BY Zenon DEF TypeOK, ProcessType, Stage, Building
<1>3. (\A j \in Proc : StagesAgree(j))'
  BY DEF StagesAgree, TypeOK, ProcessType, Building, Running, Cleaning
<1>4. Others(i)
  BY CloseStep, Zenon DEF TypeOK, ProcessType
<1>5. owner'["br"][pid[i]] = owner["br"][pid[i]]
  BY CloseKeepsBridges, Zenon DEF StagesAgree, Building
<1>6. Own(i)'
  BY <1>5, FailOwn, Zenon DEF TypeOK, ProcessType
<1>7. RouterDevices'
  BY DevicesClose, Zenon DEF TypeOK, Holder
<1> QED
  BY <1>1, <1>2, <1>3, <1>4, <1>6, <1>7, Combine, Zenon

(* Deleting the bridge of i releases ports of i only.                      *)
LEMMA DeleteStep ==
  ASSUME NEW i \in Proc, Inv, HoldsBridge(i), pid[i] \in Pid,
         bridge_delete(pid[i]) \/ bridge_delete_failed(pid[i]),
         pid' = pid, rdev' = rdev,
         \A j \in Proc \ {i} : pc'[j] = pc[j] /\ tap'[j] = tap[j] /\ lpc'[j] = lpc[j]
  PROVE  Others(i) /\ RouterDevices'
<1> USE DEF Inv
<1>1. KernelType
  BY Zenon DEF TypeOK
<1>2. CASE bridge_delete_failed(pid[i])
  <2>1. \A q \in Pid \ {pid[i]} : \A k \in Kind : Same(k, q)
    BY <1>1, <1>2, LocalCall, Zenon
  <2>2. Others(i)
    BY <2>1, LocalStep, Zenon
  <2>3. RouterDevices'
    BY <1>2, DevicesSame, Zenon DEF bridge_delete_failed
  <2> QED
    BY <2>2, <2>3, Zenon
<1>3. CASE bridge_delete(pid[i])
  <2>1. ASSUME NEW j \in Proc \ {i}, HoldsBridge(j)
        PROVE  \A k \in {"br", "client", "router"} :
                 owner[k][pid[j]] \in {j, None} => Same(k, pid[j])
    <3>1. pid[j] # pid[i]
      BY <2>1, Exclusive, Zenon
    <3>2. pid[j] \in Pid
      BY <2>1, Zenon DEF StagesAgree, HoldsBridge, Listening, Building, Running, Cleaning
    <3>3. owner["br"][pid[i]] = i
      BY Zenon DEF BridgeHeld
    <3>4. \A k \in Kind : owner[k][pid[j]] \in {j, None} => port[k][pid[j]] # pid[i]
      BY <3>2, <3>3, NoneAssumption DEF NoCrossTalk
    <3> QED
      BY <1>1, <1>3, <3>1, <3>2, <3>4, LocalDelete DEF Kind
  <2>2. Others(i)
    <3>1. \A j \in Proc \ {i} : HoldsBridge(j) => rdev'[pid[j]] = rdev[pid[j]]
      BY Zenon
    <3> QED
      BY <2>1, <3>1, Zenon DEF Others, Undisturbed
  <2>3. RouterDevices'
    BY <1>1, <1>3, DevicesSame, Zenon DEF bridge_delete, KernelType, Kind
  <2> QED
    BY <2>2, <2>3, Zenon
<1> QED
  BY <1>2, <1>3, Zenon

-----------------------------------------------------------------------------
(* One lemma per action.                                                   *)

(* Start: a pid is taken and nothing else happens.                         *)
LEMMA StartInv ==
  ASSUME NEW i \in Proc, NEW p \in Pid, Inv, Start(i, p)
  PROVE  Inv'
<1> USE DEF Inv, Start, Goto, kernel, router
<1>1. KernelOK'
  BY KernelSame, Zenon DEF KernelOK, TypeOK
<1>2. ProcessType'
  BY Zenon DEF TypeOK, ProcessType, Stage
<1>3. (\A j \in Proc : StagesAgree(j))'
  BY DEF StagesAgree, TypeOK, ProcessType, Building, Running, Cleaning
<1>4. Others(i)
  BY Zenon DEF Others, Undisturbed, Same, TypeOK, ProcessType
<1>5. Own(i)'
  BY SMTT(30) DEF Own, BridgeHeld, TapsHeld, DeviceHeld, StagesAgree, TypeOK, ProcessType,
     HoldsBridge, Listening, ClientDone, Setting, Made, Building, Running, Cleaning
<1>6. RouterDevices'
  BY ZenonT(30) DEF RouterDevices
<1> QED
  BY <1>1, <1>2, <1>3, <1>4, <1>5, <1>6, Combine, Zenon

(* BridgeAdd: the bridge was free, so nobody else holds this pid's names.  *)
LEMMA BridgeAddInv ==
  ASSUME NEW i \in Proc, Inv, BridgeAdd(i)
  PROVE  Inv'
<1> USE DEF Inv
<1>1. pid[i] \in Pid /\ KernelOK
  BY Zenon DEF BridgeAdd, TypeOK, StagesAgree, KernelOK
<1>2. ProcessType'
  BY Zenon DEF BridgeAdd, Goto, router, TypeOK, ProcessType, Stage, Building
<1>3. (\A j \in Proc : StagesAgree(j))'
  BY DEF BridgeAdd, Goto, StagesAgree, TypeOK, ProcessType, Building, Running, Cleaning
<1>4. CASE bridge_add(i, pid[i]) /\ Goto(i, "bridge_up")
  <2>1. KernelOK'
    BY <1>1, <1>4, BridgeAddOK, Zenon
  <2>2. \A j \in Proc : HoldsBridge(j) => pid[j] \in Pid \ {pid[i]}
    BY <1>4, NoneAssumption DEF bridge_add, Exists, BridgeHeld, StagesAgree,
       HoldsBridge, Listening, Building, Running, Cleaning
  <2>3. \A k \in Kind, q \in Pid \ {pid[i]} : Same(k, q)
    BY <1>1, <1>4, LocalCall, Zenon DEF KernelOK, Kind
  <2>4. Others(i)
    BY <1>4, <2>2, <2>3, SMTT(30) DEF Others, Undisturbed, BridgeAdd, Goto, router, TypeOK,
       ProcessType, Kind
  <2>5. Own(i)'
    <3>1. pc'[i] = "bridge_up" /\ lpc'[i] = "none" /\ pid'[i] = pid[i]
      BY <1>4, Zenon DEF BridgeAdd, Goto, StagesAgree, TypeOK, ProcessType
    <3>2. owner'["br"][pid[i]] = i
      BY <1>1, <1>4, Zenon DEF bridge_add, TypeOK, KernelType, Kind
    <3> QED
      BY <3>1, <3>2, ZenonT(30) DEF Own, BridgeHeld, TapsHeld, DeviceHeld, Listening, ClientDone,
         Setting, Made, Running, Cleaning
  <2>6. RouterDevices'
    BY <1>1, <1>4, DevicesSame, Zenon DEF BridgeAdd, bridge_add, router, TypeOK, KernelType, Kind
  <2> QED
    BY <1>2, <1>3, <2>1, <2>4, <2>5, <2>6, Combine, Zenon
<1>5. CASE UNCHANGED kernel /\ Goto(i, "exit")
  <2>1. KernelOK'
    BY <1>1, <1>5, KernelSame, Zenon
  <2>2. Others(i)
    BY <1>5, Zenon DEF BridgeAdd, Goto, Others, Undisturbed, Same, kernel, router, TypeOK,
       ProcessType
  <2>3. ~HoldsBridge(i)'
    BY <1>5, Zenon DEF BridgeAdd, Goto, StagesAgree, TypeOK, ProcessType, HoldsBridge, Listening,
       Building, Running, Cleaning
  <2>4. RouterDevices'
    BY <1>5, DevicesSame, Zenon DEF BridgeAdd, kernel, router
  <2> QED
    BY <1>2, <1>3, <2>1, <2>2, <2>3, <2>4, IdleOwn, Combine, Zenon
<1> QED
  BY <1>4, <1>5, Zenon DEF BridgeAdd

(* BridgeUp: the incarnation holds the bridge it sets up.                  *)
LEMMA BridgeUpInv ==
  ASSUME NEW i \in Proc, Inv, BridgeUp(i)
  PROVE  Inv'
<1> USE DEF Inv
<1>1. pid[i] \in Pid /\ KernelOK /\ HoldsBridge(i) /\ "br" \in Kind
  BY Zenon DEF BridgeUp, TypeOK, StagesAgree, KernelOK, HoldsBridge, Building, Kind
<1>2. ProcessType'
  BY Zenon DEF BridgeUp, Goto, router, TypeOK, ProcessType, Stage, Building
<1>3. (\A j \in Proc : StagesAgree(j))'
  BY DEF BridgeUp, Goto, StagesAgree, TypeOK, ProcessType, Building, Running, Cleaning
<1>4. KernelOK'
  BY <1>1, FlagsOK, KernelSame, ZenonT(30) DEF BridgeUp
<1>5. \A k \in Kind, q \in Pid \ {pid[i]} : Same(k, q)
  BY <1>1, LocalCall, Zenon DEF BridgeUp, kernel, Same, KernelOK
<1>6. Others(i)
  BY <1>1, <1>5, LocalStep, Zenon DEF BridgeUp, Goto, router, TypeOK, ProcessType
<1>7. Own(i)'
  <2>1. UNCHANGED owner
    BY Zenon DEF BridgeUp, if_up, kernel
  <2>2. CASE Goto(i, "fail_bridge")
    BY <2>1, <2>2, FailOwn, Zenon DEF BridgeUp, Goto, Building, TypeOK, ProcessType
  <2>3. CASE if_up("br", pid[i]) /\ Goto(i, "tap_open")
    <3>1. /\ pc'[i] = "tap_open" /\ lpc'[i] = "none" /\ pid'[i] = pid[i]
          /\ tap'[i] = "client"
      BY <2>3, Zenon DEF BridgeUp, Goto, StagesAgree, TypeOK, ProcessType, Building
    <3>2. owner'["br"][pid[i]] = i /\ up'["br"][pid[i]]
      BY <1>1, <2>1, <2>3, Zenon DEF if_up, BridgeHeld, TypeOK, KernelType
    <3> QED
      BY <3>1, <3>2, Zenon DEF Own, BridgeHeld, TapsHeld, DeviceHeld, Listening, ClientDone,
         Setting, Made, Running, Cleaning
  <2> QED
    BY <2>2, <2>3, Zenon DEF BridgeUp
<1>8. RouterDevices'
  BY DevicesSame, Zenon DEF BridgeUp, if_up, kernel, router
<1> QED
  BY <1>2, <1>3, <1>4, <1>6, <1>7, <1>8, Combine, Zenon

(* TapOpen: the tap is new, so it is not the device of anybody.            *)
LEMMA TapOpenInv ==
  ASSUME NEW i \in Proc, Inv, TapOpen(i)
  PROVE  Inv'
<1> USE DEF Inv
<1>1. /\ pid[i] \in Pid /\ KernelOK /\ HoldsBridge(i)
      /\ tap[i] \in {"client", "router"} /\ tap[i] \in Kind
  BY Zenon DEF TapOpen, TypeOK, ProcessType, StagesAgree, KernelOK, HoldsBridge, Building, Kind
<1>2. ProcessType'
  BY Zenon DEF TapOpen, Goto, router, TypeOK, ProcessType, Stage, Building
<1>3. (\A j \in Proc : StagesAgree(j))'
  BY DEF TapOpen, Goto, StagesAgree, TypeOK, ProcessType, Building, Running, Cleaning
<1>4. KernelOK'
  BY <1>1, TapOpenOK, KernelSame, Zenon DEF TapOpen
<1>5. \A k \in Kind, q \in Pid \ {pid[i]} : Same(k, q)
  BY <1>1, LocalCall DEF TapOpen, kernel, Same, KernelOK
<1>6. Others(i)
  BY <1>1, <1>5, LocalStep, Zenon DEF TapOpen, Goto, router, TypeOK, ProcessType
<1>7. Own(i)'
  <2>1. CASE tap_open(i, tap[i], pid[i]) /\ Goto(i, "tap_add_if")
    <3>1. \A k \in Kind : k # tap[i] => Same(k, pid[i])
      BY <1>1, <2>1, Zenon DEF tap_open, Same, TypeOK, KernelType
    <3>2. HasTap(i, tap[i])'
      BY <1>1, <2>1, Zenon DEF TapOpen, tap_open, HasTap, TypeOK, KernelType
    <3>3. Same("br", pid[i]) /\ (tap[i] = "router" => Same("client", pid[i]))
      BY <1>1, <3>1, Zenon DEF Kind
    <3>4. /\ pc'[i] = "tap_add_if" /\ lpc'[i] = "none" /\ pid'[i] = pid[i]
          /\ tap'[i] = tap[i]
      BY <2>1, Zenon DEF TapOpen, Goto, StagesAgree, TypeOK, ProcessType, Building
    <3>5. /\ owner["br"][pid[i]] = i /\ up["br"][pid[i]]
          /\ tap[i] = "router" => HasTap(i, "client") /\ Linked(i, "client")
      BY <1>1, ZenonT(30) DEF TapOpen, BridgeHeld, TapsHeld, ClientDone, Setting
    <3>6. tap[i] = "router" => HasTap(i, "client")' /\ Linked(i, "client")'
      BY <3>3, <3>4, <3>5, Zenon DEF HasTap, Linked, Same
    <3>7. owner'["br"][pid[i]] = i /\ up'["br"][pid[i]]
      BY <3>3, <3>5, Zenon DEF Same
    <3> QED
      BY <3>2, <3>4, <3>6, <3>7, Zenon DEF Own, BridgeHeld, TapsHeld, DeviceHeld, Listening,
         ClientDone, Setting, Made, Running, Cleaning
  <2>2. CASE UNCHANGED kernel /\ Goto(i, "fail_bridge")
    BY <2>2, FailOwn, Zenon DEF TapOpen, kernel, Goto, Building, TypeOK, ProcessType
  <2> QED
    BY <2>1, <2>2, Zenon DEF TapOpen
<1>8. RouterDevices'
  <2>1. CASE tap_open(i, tap[i], pid[i])
    BY <1>1, <2>1, NoneAssumption, Zenon DEF TapOpen, tap_open, Exists, router, RouterDevices,
       TypeOK, KernelType, Kind
  <2>2. CASE UNCHANGED kernel
    BY <2>2, DevicesSame, ZenonT(30) DEF TapOpen, kernel, router
  <2> QED
    BY <2>1, <2>2, Zenon DEF TapOpen
<1> QED
  BY <1>2, <1>3, <1>4, <1>6, <1>7, <1>8, Combine, Zenon

(* TapAddIf: bridge and tap are both the acting incarnation's.             *)
LEMMA TapAddIfInv ==
  ASSUME NEW i \in Proc, Inv, TapAddIf(i)
  PROVE  Inv'
<1> USE DEF Inv
<1>1. /\ pid[i] \in Pid /\ KernelOK /\ HoldsBridge(i)
      /\ tap[i] \in {"client", "router"} /\ tap[i] \in Kind
  BY Zenon DEF TapAddIf, TypeOK, ProcessType, StagesAgree, KernelOK, HoldsBridge, Building, Kind
<1>2. ProcessType'
  BY Zenon DEF TapAddIf, Goto, router, TypeOK, ProcessType, Stage, Building
<1>3. (\A j \in Proc : StagesAgree(j))'
  BY DEF TapAddIf, Goto, StagesAgree, TypeOK, ProcessType, Building, Running, Cleaning
<1>4. CASE bridge_add_if(pid[i], tap[i], pid[i]) /\ Goto(i, "tap_up")
  <2>1. owner[tap[i]][pid[i]] = owner["br"][pid[i]]
    BY <1>1, Zenon DEF TapAddIf, TapsHeld, HasTap, BridgeHeld, Setting
  <2>2. KernelOK'
    BY <1>1, <1>4, <2>1, EnslaveOK, Zenon
  <2>3. \A k \in Kind, q \in Pid \ {pid[i]} : Same(k, q)
    BY <1>1, <1>4, LocalCall, ZenonT(30) DEF KernelOK
  <2>4. Others(i)
    BY <1>1, <2>3, LocalStep, Zenon DEF TapAddIf, Goto, router, TypeOK, ProcessType
  <2>5. /\ UNCHANGED <<owner, up, fds>>
        /\ port'[tap[i]][pid[i]] = pid[i]
        /\ tap[i] = "router" => port'["client"] = port["client"]
    BY <1>1, <1>4, ZenonT(30) DEF bridge_add_if, TypeOK, KernelType, Kind
  <2>6. /\ pc'[i] = "tap_up" /\ lpc'[i] = "none" /\ pid'[i] = pid[i] /\ tap'[i] = tap[i]
    BY <1>4, Zenon DEF TapAddIf, Goto, StagesAgree, TypeOK, ProcessType, Building
  <2>7. Own(i)'
    <3>1. /\ owner["br"][pid[i]] = i /\ up["br"][pid[i]] /\ HasTap(i, tap[i])
          /\ tap[i] = "router" => HasTap(i, "client") /\ Linked(i, "client")
      BY <1>1, ZenonT(30) DEF TapAddIf, BridgeHeld, TapsHeld, ClientDone, Setting
    <3>2. HasTap(i, tap[i])'
      BY <2>5, <2>6, <3>1, Zenon DEF HasTap
    <3>3. tap[i] = "router" => HasTap(i, "client")' /\ Linked(i, "client")'
      BY <2>5, <2>6, <3>1, Zenon DEF HasTap, Linked
    <3> QED
      BY <2>5, <2>6, <3>1, <3>2, <3>3, Zenon DEF Own, BridgeHeld, TapsHeld, DeviceHeld, Listening,
         ClientDone, Setting, Made, Running, Cleaning
  <2>8. RouterDevices'
    BY <2>5, DevicesSame, Zenon DEF TapAddIf, router
  <2> QED
    BY <1>2, <1>3, <2>2, <2>4, <2>7, <2>8, Combine, Zenon
<1>5. CASE CloseFiles({tap[i]}, {i}, "vmm") /\ Goto(i, "fail_bridge")
  BY <1>5, FailInv, Zenon DEF TapAddIf, Building
<1> QED
  BY <1>4, <1>5, Zenon DEF TapAddIf

(* TapUp: setup_tap is done with the client tap, or with the router tap.   *)
LEMMA TapUpInv ==
  ASSUME NEW i \in Proc, Inv, TapUp(i)
  PROVE  Inv'
<1> USE DEF Inv
<1>1. /\ pid[i] \in Pid /\ KernelOK /\ HoldsBridge(i)
      /\ tap[i] \in {"client", "router"} /\ tap[i] \in Kind
  BY Zenon DEF TapUp, TypeOK, ProcessType, StagesAgree, KernelOK, HoldsBridge, Building, Kind
<1>2. CASE if_up(tap[i], pid[i]) /\ pc'[i] # "fail_bridge"
  <2>1. KernelOK'
    BY <1>1, <1>2, FlagsOK, Zenon
  <2>2. /\ tap' = [tap EXCEPT ![i] = "router"]
        /\ tap[i] = "client" => Goto(i, "tap_open")
        /\ tap[i] = "router" => Goto(i, "add_net")
    BY <1>1, <1>2, Zenon DEF TapUp, Goto, TypeOK, ProcessType
  <2>3. ProcessType'
    BY <1>1, <2>2, Zenon DEF TapUp, Goto, router, TypeOK, ProcessType, Stage, Building
  <2>4. (\A j \in Proc : StagesAgree(j))'
    BY <1>1, <2>2 DEF TapUp, Goto, StagesAgree, TypeOK, ProcessType, Building, Running, Cleaning
  <2>5. \A k \in Kind, q \in Pid \ {pid[i]} : Same(k, q)
    BY <1>1, <1>2, LocalCall, Zenon DEF KernelOK
  <2>6. Others(i)
    BY <1>1, <2>2, <2>5, LocalStep, Zenon DEF TapUp, Goto, router, TypeOK, ProcessType
  <2>7. /\ UNCHANGED <<owner, port, fds>>
        /\ up'[tap[i]][pid[i]]
        /\ \A k \in Kind : k # tap[i] => up'[k] = up[k]
    BY <1>1, <1>2, Zenon DEF if_up, TypeOK, KernelType
  <2>8. BridgeHeld(i)' /\ DeviceHeld(i)'
    <3>1. /\ pc'[i] \in {"tap_open", "add_net"} /\ lpc'[i] = "none" /\ pid'[i] = pid[i]
      BY <1>1, <2>2, Zenon DEF TapUp, Goto, StagesAgree, TypeOK, ProcessType, Building
    <3>2. owner["br"][pid[i]] = i
      BY <1>1, Zenon DEF BridgeHeld
    <3> QED
      BY <2>7, <3>1, <3>2, Zenon DEF BridgeHeld, DeviceHeld, Listening, Made, Running, Cleaning
  <2>9. TapsHeld(i)'
    <3>1. HasTap(i, tap[i]) /\ port[tap[i]][pid[i]] = pid[i] /\ up["br"][pid[i]]
      BY Zenon DEF TapUp, TapsHeld, Setting
    <3>2. tap[i] = "router" => HasTap(i, "client") /\ Linked(i, "client")
      BY Zenon DEF TapUp, TapsHeld, ClientDone, Setting
    <3>3. HasTap(i, "client")' /\ Linked(i, "client")'
      BY <1>1, <2>7, <3>1, <3>2, Zenon DEF TapUp, HasTap, Linked, Kind
    <3>4. tap[i] = "router" => HasTap(i, "router")' /\ Linked(i, "router")'
      BY <1>1, <2>7, <3>1, Zenon DEF TapUp, HasTap, Linked
    <3>5. up'["br"][pid[i]]
      BY <1>1, <2>7, <3>1, ZenonT(30) DEF Kind
    <3>6. lpc'[i] = "none" /\ tap'[i] = "router" /\ pid'[i] = pid[i]
          /\ pc'[i] \in {"tap_open", "add_net"}
          /\ (pc'[i] = "add_net" => tap[i] = "router")
      BY <1>1, <2>2, Zenon DEF TapUp, Goto, StagesAgree, Building, TypeOK, ProcessType
    <3> QED
      BY <3>3, <3>4, <3>5, <3>6, Zenon DEF TapsHeld, Listening, ClientDone, Setting, Made,
         Running, Cleaning
  <2>10. RouterDevices'
    BY <2>7, DevicesSame, Zenon DEF TapUp, router
  <2> QED
    BY <2>1, <2>3, <2>4, <2>6, <2>8, <2>9, <2>10, Combine, Zenon DEF Own
<1>3. CASE CloseFiles({tap[i]}, {i}, "vmm") /\ Goto(i, "fail_bridge") /\ UNCHANGED tap
  BY <1>3, FailInv, Zenon DEF TapUp, Building
<1> QED
  BY <1>2, <1>3, Zenon DEF TapUp, Goto, TypeOK, ProcessType

(* AddNet: the tap the router gets is up and in the bridge.                *)
LEMMA AddNetInv ==
  ASSUME NEW i \in Proc, Inv, AddNet(i)
  PROVE  Inv'
<1> USE DEF Inv
<1>1. pid[i] \in Pid /\ KernelOK /\ HoldsBridge(i)
  BY Zenon DEF AddNet, TypeOK, ProcessType, StagesAgree, KernelOK, HoldsBridge, Building
<1>2. CASE ch_add_net(i, pid[i]) /\ (Goto(i, "listener_setup") \/ Goto(i, "fail_bridge"))
  <2> DEFINE p == pid[i]
  <2>1. HasTap(i, "router") /\ Linked(i, "router") /\ tap[i] = "router"
    BY DEF AddNet, TapsHeld, StagesAgree, Setting
  <2>2. KernelOK'
    <3> DEFINE H == (fds["router"][p] \ {"vmm"}) \cup {"router"}
    <3>1. H \in SUBSET Holder /\ H # {}
      BY <1>1, Zenon DEF TypeOK, KernelType, Kind, Holder
    <3>2. owner["router"][p] # None
      BY <2>1, NoneAssumption, Zenon DEF HasTap
    <3>3. fds' = [fds EXCEPT !["router"][p] = H] /\ UNCHANGED <<owner, up, port>>
      BY <1>2, Zenon DEF ch_add_net
    <3> HIDE DEF H
    <3> QED
      BY <1>1, <3>1, <3>2, <3>3, ShareFileOK, Zenon
  <2>3. ProcessType'
    BY <1>1, <1>2, Zenon DEF AddNet, ch_add_net, Goto, TypeOK, ProcessType, Stage, Building
  <2>4. (\A j \in Proc : StagesAgree(j))'
    BY <1>2 DEF AddNet, Goto, StagesAgree, TypeOK, ProcessType, Building, Running, Cleaning
  <2>5. \A k \in Kind, q \in Pid \ {pid[i]} : Same(k, q)
    BY <1>1, <1>2, LocalCall, Zenon DEF KernelOK
  <2>6. \A q \in Pid \ {pid[i]} : rdev'[q] = rdev[q]
    BY <1>2, Zenon DEF ch_add_net, TypeOK, ProcessType
  <2>7. Others(i)
    BY <1>1, <1>2, <2>5, <2>6, LocalStep, Zenon DEF AddNet, Goto, TypeOK, ProcessType
  <2>8. /\ UNCHANGED <<owner, up, port>> /\ rdev'[p] = i
        /\ fds'["client"] = fds["client"]
        /\ "router" \in fds'["router"][p]
    BY <1>1, <1>2, Zenon DEF ch_add_net, TypeOK, ProcessType, KernelType, Kind
  <2>9. /\ pc'[i] \in {"listener_setup", "fail_bridge"} /\ lpc'[i] = "none"
        /\ pid'[i] = pid[i]
    BY <1>2, Zenon DEF AddNet, Goto, StagesAgree, TypeOK, ProcessType, Building
  <2>10. Own(i)'
    <3>1. owner["br"][p] = i /\ up["br"][p] /\ HasTap(i, "client") /\ Linked(i, "client")
      BY <1>1, <2>1, Zenon DEF AddNet, BridgeHeld, TapsHeld, ClientDone, Setting
    <3>2. HasTap(i, "client")' /\ Linked(i, "client")' /\ Linked(i, "router")'
      BY <2>1, <2>8, <2>9, <3>1, Zenon DEF HasTap, Linked
    <3>3. BridgeHeld(i)' /\ TapsHeld(i)'
      BY <2>8, <2>9, <3>1, <3>2, Zenon DEF BridgeHeld, TapsHeld, Listening, ClientDone, Setting,
         Made, Running, Cleaning
    <3>4. DeviceHeld(i)'
      BY <2>8, <2>9, <3>2, Zenon DEF DeviceHeld, Linked, Listening, Made, Running, Cleaning
    <3> QED
      BY <3>3, <3>4, Zenon DEF Own
  <2>11. RouterDevices'
    <3>1. owner["router"][p] = i
      BY <2>1, Zenon DEF HasTap
    <3>2. \A q \in Pid \ {p} : Same("router", q)
      BY <2>5, Zenon DEF Kind
    <3> QED
      BY <1>1, <2>6, <2>8, <3>1, <3>2, ZenonT(30) DEF RouterDevices, Same
  <2> QED
    BY <2>2, <2>3, <2>4, <2>7, <2>10, <2>11, Combine, Zenon
<1>3. CASE CloseFiles({"router"}, {i}, "vmm") /\ Goto(i, "fail_bridge") /\ UNCHANGED router
  BY <1>3, FailInv, Zenon DEF AddNet, Building
<1> QED
  BY <1>2, <1>3, Zenon DEF AddNet

(* ListenerSetup: the listener starts with the client tap open.            *)
LEMMA ListenerSetupInv ==
  ASSUME NEW i \in Proc, Inv, ListenerSetup(i)
  PROVE  Inv'
<1> USE DEF Inv
<1>1. pid[i] \in Pid /\ KernelOK /\ HoldsBridge(i)
  BY Zenon DEF ListenerSetup, TypeOK, ProcessType, StagesAgree, KernelOK, HoldsBridge, Building
<1>2. ProcessType'
  BY Zenon DEF ListenerSetup, Goto, router, TypeOK, ProcessType, Stage, Building, Running,
     ListenerStage
<1>3. (\A j \in Proc : StagesAgree(j))'
  BY DEF ListenerSetup, Goto, StagesAgree, TypeOK, ProcessType, Building, Running, Cleaning
<1>4. CASE Goto(i, "fork")
  <2> DEFINE p == pid[i]
             H == fds["client"][p] \cup {"listener"}
  <2>1. HasTap(i, "client") /\ Linked(i, "client") /\ up["br"][p] /\ owner["br"][p] = i
    BY <1>1, Zenon DEF ListenerSetup, TapsHeld, ClientDone, Made, BridgeHeld
  <2>2. /\ fds' = [fds EXCEPT !["client"][p] = H] /\ UNCHANGED <<owner, up, port>>
        /\ lpc' = [lpc EXCEPT ![i] = "poll"]
    BY <1>4, Zenon DEF ListenerSetup, Goto, TypeOK, ProcessType
  <2>3. H \in SUBSET Holder /\ H # {}
    BY <1>1, Zenon DEF TypeOK, KernelType, Kind, Holder
  <2>4. owner["client"][p] # None
    BY <2>1, NoneAssumption, Zenon DEF HasTap
  <2>5. "listener" \in H /\ "vmm" \in H
    BY <2>1, Zenon DEF HasTap
  <2> HIDE DEF H
  <2>6. KernelOK'
    BY <1>1, <2>2, <2>3, <2>4, ShareFileOK, ZenonT(30)
  <2>7. /\ \A k \in Kind, q \in Pid \ {p} : Same(k, q)
        /\ fds'["client"][p] = H /\ fds'["router"] = fds["router"]
    BY <1>1, <2>2, Zenon DEF Same, TypeOK, KernelType, Kind
  <2>8. Others(i)
    BY <1>1, <1>4, <2>2, <2>7, LocalStep, Zenon DEF ListenerSetup, Goto, router, TypeOK, ProcessType
  <2>9. /\ pc'[i] = "fork" /\ lpc'[i] = "poll" /\ pid' = pid /\ rdev' = rdev
    BY <1>4, <2>2, Zenon DEF ListenerSetup, Goto, router, TypeOK, ProcessType
  <2>10. BridgeHeld(i)' /\ TapsHeld(i)'
    BY <2>1, <2>2, <2>5, <2>7, <2>9, Zenon DEF BridgeHeld, TapsHeld, HasTap, Linked, ClientDone,
       Listening, Setting, Made, Running, Cleaning
  <2>11. DeviceHeld(i)'
    BY <2>2, <2>9 DEF ListenerSetup, DeviceHeld, Linked, Listening, Made, Running, Cleaning
  <2>12. RouterDevices'
    BY <2>2, <2>7, <2>9, DevicesSame, Zenon
  <2> QED
    BY <1>2, <1>3, <2>6, <2>8, <2>10, <2>11, <2>12, Combine, Zenon DEF Own
<1>5. CASE Goto(i, "fail_bridge") /\ UNCHANGED <<lpc, fds>>
  <2>1. KernelOK'
    BY <1>1, <1>5, KernelSame, Zenon DEF ListenerSetup, kernel
  <2>2. Others(i)
    BY <1>5, Zenon DEF ListenerSetup, Goto, Others, Undisturbed, Same, router, TypeOK, ProcessType
  <2>3. Own(i)'
    BY <1>5, FailOwn, Zenon DEF ListenerSetup, Goto, Building, TypeOK, ProcessType
  <2>4. RouterDevices'
    BY <1>5, DevicesSame, Zenon DEF ListenerSetup, router
  <2> QED
    BY <1>2, <1>3, <2>1, <2>2, <2>3, <2>4, Combine, Zenon
<1> QED
  BY <1>4, <1>5, Zenon DEF ListenerSetup

(* FailBridge: the incarnation gives its bridge up.                        *)
LEMMA FailBridgeInv ==
  ASSUME NEW i \in Proc, Inv, FailBridge(i)
  PROVE  Inv'
<1> USE DEF Inv
<1>1. pid[i] \in Pid /\ KernelOK /\ HoldsBridge(i)
  BY Zenon DEF FailBridge, TypeOK, ProcessType, StagesAgree, KernelOK, HoldsBridge, Building
<1>2. ProcessType'
  BY Zenon DEF FailBridge, Goto, router, TypeOK, ProcessType, Stage
<1>3. (\A j \in Proc : StagesAgree(j))'
  BY DEF FailBridge, Goto, StagesAgree, TypeOK, ProcessType, Building, Running, Cleaning
<1>4. KernelOK'
  BY <1>1, BridgeDeleteOK, ZenonT(30) DEF FailBridge
<1>5. Others(i) /\ RouterDevices'
  BY <1>1, DeleteStep, Zenon DEF FailBridge, Goto, router, TypeOK, ProcessType
<1>6. ~HoldsBridge(i)'
  BY Zenon DEF FailBridge, Goto, HoldsBridge, Listening, StagesAgree, TypeOK, ProcessType,
     Building, Running, Cleaning
<1> QED
  BY <1>2, <1>3, <1>4, <1>5, <1>6, IdleOwn, Combine, Zenon

(* Fork: the helper gets the client tap too, or start-vmm gives up and     *)
(* leaves the cleanup to the listener.                                     *)
LEMMA ForkInv ==
  ASSUME NEW i \in Proc, Inv, Fork(i)
  PROVE  Inv'
<1> USE DEF Inv
<1>1. pid[i] \in Pid /\ KernelOK /\ HoldsBridge(i)
  BY Zenon DEF Fork, TypeOK, ProcessType, StagesAgree, KernelOK, HoldsBridge, Running
<1>2. ProcessType'
  BY ZenonT(30) DEF Fork, Goto, router, TypeOK, ProcessType, Stage, Running
<1>3. (\A j \in Proc : StagesAgree(j))'
  BY DEF Fork, Goto, StagesAgree, TypeOK, ProcessType, Building, Running, Cleaning
<1>4. CASE Goto(i, "vmm")
  <2> DEFINE p == pid[i]
             H == fds["client"][p] \cup {"helper"}
  <2>1. /\ HasTap(i, "client") /\ Linked(i, "client") /\ up["br"][p] /\ owner["br"][p] = i
        /\ Listening(i) => "listener" \in fds["client"][p]
    BY <1>1, Zenon DEF Fork, TapsHeld, ClientDone, Made, Running, BridgeHeld
  <2>2. fds' = [fds EXCEPT !["client"][p] = H] /\ UNCHANGED <<owner, up, port>>
    BY <1>4, Zenon DEF Fork, Goto, TypeOK, ProcessType
  <2>3. H \in SUBSET Holder /\ H # {}
    BY <1>1, Zenon DEF TypeOK, KernelType, Kind, Holder
  <2>4. owner["client"][p] # None
    BY <2>1, NoneAssumption, Zenon DEF HasTap
  <2>5. "vmm" \in H /\ (Listening(i) => "listener" \in H)
    BY <2>1, Zenon DEF HasTap
  <2> HIDE DEF H
  <2>6. KernelOK'
    BY <1>1, <2>2, <2>3, <2>4, ShareFileOK, ZenonT(30)
  <2>7. /\ \A k \in Kind, q \in Pid \ {p} : Same(k, q)
        /\ fds'["client"][p] = H /\ fds'["router"] = fds["router"]
    BY <1>1, <2>2, Zenon DEF Same, TypeOK, KernelType, Kind
  <2>8. Others(i)
    BY <1>1, <1>4, <2>7, LocalStep, Zenon DEF Fork, Goto, router, TypeOK, ProcessType
  <2>9. pc'[i] = "vmm" /\ lpc' = lpc /\ pid' = pid /\ rdev' = rdev
    BY <1>4, Zenon DEF Fork, Goto, router, TypeOK, ProcessType
  <2>10. BridgeHeld(i)' /\ TapsHeld(i)'
    BY <2>1, <2>2, <2>5, <2>7, <2>9, Zenon DEF BridgeHeld, TapsHeld, HasTap, Linked, ClientDone,
       Listening, Setting, Made, Running, Cleaning
  <2>11. DeviceHeld(i)'
    BY <2>2, <2>9 DEF Fork, DeviceHeld, Linked, Listening, Made, Running, Cleaning
  <2>12. RouterDevices'
    BY <2>2, <2>7, <2>9, DevicesSame, Zenon
  <2> QED
    BY <1>2, <1>3, <2>6, <2>8, <2>10, <2>11, <2>12, Combine, Zenon DEF Own
<1>5. CASE Goto(i, "exit") /\ UNCHANGED <<helper, fds>>
  <2>1. KernelOK'
    BY <1>1, <1>5, KernelSame, Zenon DEF Fork, kernel
  <2>2. Others(i)
    BY <1>5, Zenon DEF Fork, Goto, Others, Undisturbed, Same, router, TypeOK, ProcessType
  <2>3. /\ pc'[i] = "exit" /\ lpc' = lpc /\ pid' = pid /\ rdev' = rdev
        /\ UNCHANGED <<owner, up, port, fds>>
    BY <1>5, Zenon DEF Fork, Goto, router, TypeOK, ProcessType
  <2>4. Own(i)'
    BY <1>1, <2>3, Zenon DEF Fork, Own, BridgeHeld, TapsHeld, DeviceHeld, HoldsBridge, Listening,
       ClientDone, Setting, Made, Building, Running, Cleaning
  <2>5. RouterDevices'
    BY <2>3, DevicesSame, Zenon
  <2> QED
    BY <1>2, <1>3, <2>1, <2>2, <2>4, <2>5, Combine, Zenon
<1> QED
  BY <1>4, <1>5, Zenon DEF Fork

(* A helper, a cloud-hypervisor or a listener of i exits: what i still     *)
(* relies on has a file of someone else.                                   *)
LEMMA LeaveInv ==
  ASSUME NEW i \in Proc, Inv, NEW h \in Holder, h # "router", CloseFiles(Kind, {i}, h),
         pid' = pid, tap' = tap, rdev' = rdev, ProcessType',
         (\A j \in Proc : StagesAgree(j))',
         \A j \in Proc \ {i} : pc'[j] = pc[j] /\ lpc'[j] = lpc[j],
         pc'[i] \in Setting \cup Made => pc'[i] = pc[i] /\ pc[i] \in Running /\ h # "vmm",
         pc'[i] \in Building => pc'[i] = pc[i],
         Listening(i)' => lpc'[i] = lpc[i] /\ h # "listener"
  PROVE  Inv'
<1> USE DEF Inv
<1> DEFINE p == pid[i]
<1>1. KernelOK /\ KernelType
  BY Zenon DEF KernelOK, TypeOK
<1>2. KernelOK'
  BY <1>1, CloseFilesOK, Zenon
<1>3. Others(i)
  BY CloseStep, Zenon
<1>4. RouterDevices'
  BY <1>1, DevicesClose, Zenon DEF TypeOK
<1>5. CASE ~HoldsBridge(i)'
  BY <1>2, <1>3, <1>4, <1>5, IdleOwn, Combine, Zenon
<1>6. CASE HoldsBridge(i)'
  <2>1. HoldsBridge(i) /\ (Listening(i)' => Listening(i))
    BY <1>6, Zenon DEF HoldsBridge, Listening, Made
  <2>2. p \in Pid
    BY <2>1, Zenon DEF StagesAgree, HoldsBridge, Listening, Building, Running, Cleaning
  <2>3. owner'["br"][p] = i /\ (up["br"][p] => up'["br"][p])
    BY <1>1, <2>1, <2>2, BridgeSurvives, ZenonT(30) DEF BridgeHeld
  <2>4. pc'[i] \in Setting \cup Made =>
          HasTap(i, "client")' /\ Linked(i, "client")' /\ up'["br"][p]
    <3>1. SUFFICES ASSUME pc'[i] \in Setting \cup Made
                   PROVE  HasTap(i, "client")' /\ Linked(i, "client")' /\ up'["br"][p]
      BY Zenon
    <3>2. HasTap(i, "client") /\ Linked(i, "client") /\ up["br"][p]
      BY <3>1, ZenonT(30) DEF TapsHeld, ClientDone, Made
    <3>3. "vmm" \in fds["client"][p] /\ "client" \in Kind
      BY <3>2, Zenon DEF HasTap, Kind
    <3>4. /\ owner'["client"][p] = owner["client"][p] /\ up'["client"][p] = up["client"][p]
          /\ port'["client"][p] = port["client"][p] /\ "vmm" \in fds'["client"][p]
      BY <1>1, <2>2, <3>1, <3>3, Survives, SMTT(30)
    <3> QED
      BY <2>3, <3>2, <3>4, Zenon DEF HasTap, Linked
  <2>5. Listening(i)' => owner'["client"][p] = i /\ "listener" \in fds'["client"][p]
    <3>1. SUFFICES ASSUME Listening(i)'
                   PROVE  owner'["client"][p] = i /\ "listener" \in fds'["client"][p]
      BY Zenon
    <3>2. owner["client"][p] = i /\ "listener" \in fds["client"][p] /\ "client" \in Kind
      BY <2>1, <3>1, ZenonT(30) DEF TapsHeld, Kind
    <3> QED
      BY <1>1, <2>2, <3>1, <3>2, Survives
  <2>6. rdev[p] = i /\ Linked(i, "router") => Linked(i, "router")'
    <3>1. SUFFICES ASSUME rdev[p] = i, Linked(i, "router") PROVE Linked(i, "router")'
      BY ZenonT(30)
    <3>2. "router" \in fds["router"][p] /\ "router" \in Kind
      BY <2>2, <3>1, NoneAssumption DEF RouterDevices, Kind
    <3>3. /\ owner'["router"][p] = owner["router"][p] /\ up'["router"][p] = up["router"][p]
          /\ port'["router"][p] = port["router"][p]
      BY <1>1, <2>2, <3>2, Survives
    <3> QED
      BY <3>1, <3>3, Zenon DEF Linked
  <2>7. owner'["router"][p] \in {owner["router"][p], None}
    BY <2>2, OwnerOrNone, Zenon DEF Kind
  <2>8. BridgeHeld(i)'
    BY <2>3, Zenon DEF BridgeHeld
  <2>9. TapsHeld(i)'
    BY <2>4, <2>5, Zenon DEF TapsHeld, ClientDone, Setting, Made, Running
  <2>10. DeviceHeld(i)'
    <3>1. (pc[i] \in Made \/ Listening(i) => owner["router"][pid[i]] \in {i, None})'
      BY <2>1, <2>7, Zenon DEF DeviceHeld, Made
    <3>2. (lpc[i] \in {"remove_if", "if_down", "rename"} => rdev[pid[i]] = None)'
      BY Zenon DEF DeviceHeld, Listening, Cleaning
    <3>3. (pc[i] \in Made => /\ rdev[pid[i]] = i => Linked(i, "router")
                             /\ "router" \notin MayFail => rdev[pid[i]] = i)'
      BY <2>6, Zenon DEF DeviceHeld, Made
    <3> QED
      BY <3>1, <3>2, <3>3, ZenonT(30) DEF DeviceHeld
  <2> QED
    BY <1>2, <1>3, <1>4, <2>8, <2>9, <2>10, Combine, Zenon DEF Own
<1> QED
  BY <1>5, <1>6, ZenonT(30)

(* HelperExit: cloud-hypervisor and the listener keep the client tap.      *)
LEMMA HelperExitInv ==
  ASSUME NEW i \in Proc, Inv, HelperExit(i)
  PROVE  Inv'
<1> USE DEF Inv
<1>1. ProcessType'
  BY Zenon DEF HelperExit, router, TypeOK, ProcessType
<1>2. (\A j \in Proc : StagesAgree(j))'
  BY Zenon DEF HelperExit, StagesAgree, TypeOK, ProcessType
<1>3. pc[i] \in {"vmm", "dead"}
  BY Zenon DEF HelperExit, StagesAgree
<1> QED
  BY <1>1, <1>2, <1>3, LeaveInv, ZenonT(30) DEF HelperExit, router, Holder, Running, Building,
     Setting, Made

(* Exit: the listener, if there is one, keeps the client tap.              *)
LEMMA ExitInv ==
  ASSUME NEW i \in Proc, Inv, Exit(i)
  PROVE  Inv'
<1> USE DEF Inv
<1>1. pc'[i] = "dead" /\ \A j \in Proc \ {i} : pc'[j] = pc[j]
  BY Zenon DEF Exit, Goto, TypeOK, ProcessType
<1>2. ProcessType'
  BY Zenon DEF Exit, Goto, router, TypeOK, ProcessType, Stage
<1>3. (\A j \in Proc : StagesAgree(j))'
  BY DEF Exit, Goto, StagesAgree, TypeOK, ProcessType, Building, Running, Cleaning
<1> QED
  BY <1>1, <1>2, <1>3, LeaveInv, ZenonT(30) DEF Exit, router, Listening, Holder, Running,
     Building, Setting, Made

(* ListenerExit: cloud-hypervisor keeps the client tap.                    *)
LEMMA ListenerExitInv ==
  ASSUME NEW i \in Proc, Inv, ListenerExit(i)
  PROVE  Inv'
<1> USE DEF Inv
<1>1. lpc'[i] = "exited" /\ \A j \in Proc \ {i} : lpc'[j] = lpc[j]
  BY Zenon DEF ListenerExit, ListenerGoto, TypeOK, ProcessType
<1>2. ProcessType'
  BY Zenon DEF ListenerExit, ListenerGoto, router, TypeOK, ProcessType, ListenerStage
<1>3. (\A j \in Proc : StagesAgree(j))'
  BY DEF ListenerExit, ListenerGoto, StagesAgree, TypeOK, ProcessType, Building, Running, Cleaning
<1>4. pc[i] \in Running \cup {"exit", "dead"}
  BY Zenon DEF ListenerExit, StagesAgree, TypeOK, ProcessType, Stage, Building, Running, Cleaning
<1> QED
  BY <1>1, <1>2, <1>3, <1>4, LeaveInv, ZenonT(30) DEF ListenerExit, router, Listening, Holder,
     Running,
     Building, Setting, Made, Cleaning

(* What is common to the listener's calls on its own names: it is alone    *)
(* with its pid, and only its bridge, its client tap and the router's      *)
(* device for it matter to it.                                             *)
LEMMA CleaningInv ==
  ASSUME NEW i \in Proc, Inv, lpc[i] \in {"poll"} \cup Cleaning, pc[i] = "dead", ~helper[i],
         NEW s \in Cleaning, ListenerGoto(i, s), UNCHANGED <<pid, pc, tap, helper>>,
         KernelOK', RouterDevices', rdev' \in [Pid -> Proc \cup {None}], routerUp' = routerUp,
         \A q \in Pid \ {pid[i]} : rdev'[q] = rdev[q] /\ \A k \in Kind : Same(k, q),
         owner'["br"][pid[i]] = owner["br"][pid[i]],
         owner'["client"][pid[i]] = owner["client"][pid[i]],
         fds'["client"][pid[i]] = fds["client"][pid[i]],
         owner'["router"][pid[i]] \in {owner["router"][pid[i]], None},
         s \in {"remove_if", "if_down", "rename"} => rdev'[pid[i]] = None
  PROVE  Inv'
<1> USE DEF Inv, ListenerGoto
<1>1. HoldsBridge(i)
  BY Zenon DEF HoldsBridge, Listening
<1>2. ProcessType'
  BY Zenon DEF TypeOK, ProcessType, ListenerStage
<1>3. (\A j \in Proc : StagesAgree(j))'
  BY ZenonT(30) DEF StagesAgree, TypeOK, ProcessType, Building, Running, Cleaning
<1>4. Others(i)
  BY <1>1, LocalStep, Zenon DEF TypeOK, ProcessType
<1>5. lpc'[i] = s
  BY Zenon DEF TypeOK, ProcessType
<1>6. BridgeHeld(i)' /\ TapsHeld(i)' /\ DeviceHeld(i)'
  BY <1>1, <1>5, Zenon DEF BridgeHeld, TapsHeld, DeviceHeld, Listening, ClientDone, Setting,
     Made, Running
<1> QED
  BY <1>2, <1>3, <1>4, <1>6, Combine, Zenon DEF Own

(* ListenerWake: cloud-hypervisor and the helper are gone.                 *)
LEMMA ListenerWakeInv ==
  ASSUME NEW i \in Proc, Inv, ListenerWake(i)
  PROVE  Inv'
<1> USE DEF Inv
<1>1. UNCHANGED <<owner, up, port, fds, rdev, routerUp>>
  BY Zenon DEF ListenerWake, kernel, router
<1>2. KernelOK'
  BY <1>1, KernelSame, Zenon DEF TypeOK, KernelOK, kernel
<1>3. \A q \in Pid : rdev'[q] = rdev[q] /\ \A k \in Kind : Same(k, q)
  BY <1>1, Zenon DEF Same
<1>4. RouterDevices'
  BY <1>1, DevicesSame, Zenon
<1>5. rdev' \in [Pid -> Proc \cup {None}]
  BY <1>1, Zenon DEF TypeOK, ProcessType
<1> QED
  BY <1>1, <1>2, <1>3, <1>4, <1>5, CleaningInv, ZenonT(60) DEF ListenerWake, Cleaning

(* RemoveDevice: the router's device for this pid, if any, is the          *)
(* listener's.                                                             *)
LEMMA RemoveDeviceInv ==
  ASSUME NEW i \in Proc, Inv, RemoveDevice(i)
  PROVE  Inv'
<1> USE DEF Inv
<1>1. pid[i] \in Pid /\ pc[i] = "dead" /\ ~helper[i]
  BY ZenonT(30) DEF RemoveDevice, StagesAgree, Cleaning
<1>2. UNCHANGED <<owner, up, port, fds>>
  BY Zenon DEF RemoveDevice, kernel
<1>3. KernelOK'
  BY <1>2, KernelSame, Zenon DEF TypeOK, KernelOK, kernel
<1>4. rdev' \in [Pid -> Proc \cup {None}] /\ \A q \in Pid : rdev'[q] \in {rdev[q], None}
  BY Zenon DEF RemoveDevice, TypeOK, ProcessType
<1>5. \A q \in Pid \ {pid[i]} : rdev'[q] = rdev[q] /\ \A k \in Kind : Same(k, q)
  BY <1>2, ZenonT(30) DEF RemoveDevice, Same, TypeOK, ProcessType
<1>6. RouterDevices'
  BY <1>2, <1>4, Zenon DEF RouterDevices
<1>7. CASE rdev'[pid[i]] = None /\ ListenerGoto(i, "remove_if")
  BY <1>1, <1>2, <1>3, <1>4, <1>5, <1>6, <1>7, CleaningInv, ZenonT(60) DEF RemoveDevice, Cleaning
<1>8. CASE ListenerGoto(i, "bridge_cleanup")
  BY <1>1, <1>2, <1>3, <1>4, <1>5, <1>6, <1>8, CleaningInv, ZenonT(60) DEF RemoveDevice, Cleaning
<1> QED
  BY <1>1, <1>7, <1>8, Zenon DEF RemoveDevice, TypeOK, ProcessType

(* bridge_remove_if, if_down and if_rename, or none of them.               *)
LEMMA RouterTapInv ==
  ASSUME NEW i \in Proc, Inv, lpc[i] \in {"remove_if", "if_down", "rename"},
         NEW s \in {"if_down", "rename", "bridge_cleanup"}, ListenerGoto(i, s),
         UNCHANGED <<pid, pc, tap, helper, router>>,
         \/ bridge_remove_if(pid[i], "router", pid[i]) \/ if_down("router", pid[i])
         \/ if_rename("router", "_dead", pid[i]) \/ UNCHANGED kernel
  PROVE  Inv'
<1> USE DEF Inv
<1>1. /\ pid[i] \in Pid /\ pc[i] = "dead" /\ ~helper[i] /\ KernelOK
      /\ lpc[i] \in Cleaning /\ s \in Cleaning
  BY ZenonT(30) DEF StagesAgree, Cleaning, TypeOK, KernelOK
<1>2. /\ owner["br"][pid[i]] = i /\ owner["router"][pid[i]] \in {i, None}
      /\ rdev[pid[i]] = None
  BY <1>1, Zenon DEF BridgeHeld, DeviceHeld, HoldsBridge, Listening
<1>3. rdev' = rdev /\ routerUp' = routerUp /\ rdev' \in [Pid -> Proc \cup {None}]
  BY Zenon DEF router, TypeOK, ProcessType
<1>4. CASE UNCHANGED kernel
  <2>1. KernelOK' /\ \A k \in Kind, q \in Pid : Same(k, q)
    BY <1>1, <1>4, KernelSame, ZenonT(30) DEF kernel, Same
  <2>2. RouterDevices'
    BY <1>3, <1>4, DevicesSame, Zenon DEF kernel
  <2> QED
    BY <1>1, <1>2, <1>3, <1>4, <2>1, <2>2, CleaningInv, ZenonT(60) DEF kernel
<1>5. CASE bridge_remove_if(pid[i], "router", pid[i])
  <2>1. owner["router"][pid[i]] = owner["br"][pid[i]]
    BY <1>2, <1>5, Zenon DEF bridge_remove_if, IsPort, Exists
  <2>2. KernelOK'
    BY <1>1, <1>5, <2>1, EnslaveOK, Zenon
  <2>3. \A k \in Kind, q \in Pid \ {pid[i]} : Same(k, q)
    BY <1>1, <1>5, LocalCall, ZenonT(30) DEF KernelOK, Kind
  <2>4. owner' = owner /\ fds' = fds
    BY <1>5, Zenon DEF bridge_remove_if
  <2>5. RouterDevices'
    BY <1>3, <2>4, DevicesSame, Zenon
  <2> QED
    BY <1>1, <1>2, <1>3, <2>2, <2>3, <2>4, <2>5, CleaningInv, ZenonT(60)
<1>6. CASE if_down("router", pid[i])
  <2>1. KernelOK'
    BY <1>1, <1>6, FlagsOK, Zenon DEF Kind
  <2>2. \A k \in Kind, q \in Pid \ {pid[i]} : Same(k, q)
    BY <1>1, <1>6, LocalCall, Zenon DEF KernelOK, Kind
  <2>3. owner' = owner /\ fds' = fds
    BY <1>6, Zenon DEF if_down
  <2>4. RouterDevices'
    BY <1>3, <2>3, DevicesSame, Zenon
  <2> QED
    BY <1>1, <1>2, <1>3, <2>1, <2>2, <2>3, <2>4, CleaningInv, ZenonT(60)
<1>7. CASE if_rename("router", "_dead", pid[i])
  <2>1. KernelOK'
    BY <1>1, <1>7, RenameOK, Zenon
  <2>2. \A k \in Kind, q \in Pid \ {pid[i]} : Same(k, q)
    BY <1>1, <1>7, LocalCall, Zenon DEF KernelOK, Kind
  <2>3. /\ owner'["br"] = owner["br"] /\ owner'["client"] = owner["client"]
        /\ fds'["client"] = fds["client"] /\ owner'["router"][pid[i]] = None
    BY <1>1, <1>7, ZenonT(30) DEF if_rename, KernelOK, KernelType, Kind
  <2>4. RouterDevices'
    BY <1>2, <1>3, <2>2 DEF RouterDevices, Same, Kind
  <2> QED
    BY <1>1, <1>2, <1>3, <2>1, <2>2, <2>3, <2>4, CleaningInv, ZenonT(60)
<1> QED
  BY <1>4, <1>5, <1>6, <1>7, Zenon

(* RemoveIf, RouterTapDown and RouterTapRename touch this pid's router tap *)
(* only.                                                                   *)
LEMMA RouterTapStepsInv ==
  ASSUME NEW i \in Proc, Inv, RemoveIf(i) \/ RouterTapDown(i) \/ RouterTapRename(i)
  PROVE  Inv'
<1>1. CASE RemoveIf(i)
  BY <1>1, RouterTapInv, Zenon DEF RemoveIf
<1>2. CASE RouterTapDown(i)
  BY <1>2, RouterTapInv, ZenonT(30) DEF RouterTapDown
<1>3. CASE RouterTapRename(i)
  BY <1>3, RouterTapInv, Zenon DEF RouterTapRename
<1> QED
  BY <1>1, <1>2, <1>3, Zenon

(* BridgeCleanup: the listener gives the bridge up.                        *)
LEMMA BridgeCleanupInv ==
  ASSUME NEW i \in Proc, Inv, BridgeCleanup(i)
  PROVE  Inv'
<1> USE DEF Inv
<1>1. pid[i] \in Pid /\ KernelOK /\ HoldsBridge(i) /\ pc[i] = "dead"
  BY Zenon DEF BridgeCleanup, TypeOK, ProcessType, StagesAgree, KernelOK, HoldsBridge, Listening,
     Cleaning
<1>2. ProcessType'
  BY Zenon DEF BridgeCleanup, ListenerGoto, router, TypeOK, ProcessType, ListenerStage
<1>3. (\A j \in Proc : StagesAgree(j))'
  BY <1>1 DEF BridgeCleanup, ListenerGoto, StagesAgree, TypeOK, ProcessType, Building, Running,
     Cleaning
<1>4. KernelOK'
  BY <1>1, BridgeDeleteOK, Zenon DEF BridgeCleanup
<1>5. Others(i) /\ RouterDevices'
  BY <1>1, DeleteStep, Zenon DEF BridgeCleanup, ListenerGoto, router, TypeOK, ProcessType
<1>6. ~HoldsBridge(i)'
  BY <1>1, Zenon DEF BridgeCleanup, ListenerGoto, HoldsBridge, Listening, TypeOK, ProcessType,
     Building, Running, Cleaning
<1> QED
  BY <1>2, <1>3, <1>4, <1>5, <1>6, IdleOwn, Combine, Zenon

(* The router's files were all it had: every tap an incarnation still      *)
(* relies on has a file of its own.                                        *)
LEMMA RouterExitInv ==
  ASSUME Inv, RouterExit
  PROVE  Inv'
<1> USE DEF Inv
<1>1. KernelOK /\ KernelType /\ CloseFiles(Kind, Proc, "router") /\ UNCHANGED processes
  BY Zenon DEF KernelOK, TypeOK, RouterExit
<1>2. KernelOK'
  BY <1>1, CloseFilesOK, Zenon DEF Holder
<1>3. UNCHANGED <<pid, pc, tap, helper, lpc>>
  BY <1>1, Zenon DEF processes
<1>4. ProcessType'
  BY <1>3, ZenonT(30) DEF RouterExit, TypeOK, ProcessType
<1>5. RouterDevices'
  BY Zenon DEF RouterExit, RouterDevices
<1>6. ASSUME NEW j \in Proc
      PROVE  (StagesAgree(j) /\ BridgeHeld(j) /\ TapsHeld(j) /\ DeviceHeld(j))'
  <2> DEFINE p == pid[j]
  <2>1. StagesAgree(j)'
    BY <1>3, Zenon DEF StagesAgree
  <2>2. CASE ~HoldsBridge(j)
    BY <1>3, <2>1, <2>2, IdleOwn, Zenon DEF Own, HoldsBridge, Listening
  <2>3. CASE HoldsBridge(j)
    <3>1. p \in Pid /\ pid'[j] = p
      BY <1>3, <2>3, Zenon DEF StagesAgree, HoldsBridge, Listening, Building, Running, Cleaning
    <3>2. owner'["br"][p] = owner["br"][p] /\ up'["br"][p] = up["br"][p]
      BY <1>1, <3>1, BridgeSurvives, ZenonT(30)
    <3>3. \A k \in {"client", "router"} : HasTap(j, k) =>
            /\ HasTap(j, k)' /\ port'[k][p] = port[k][p]
            /\ (Linked(j, k) => Linked(j, k)')
      <4>1. SUFFICES ASSUME NEW k \in {"client", "router"}, HasTap(j, k)
                     PROVE  /\ HasTap(j, k)' /\ port'[k][p] = port[k][p]
                            /\ (Linked(j, k) => Linked(j, k)')
        BY Zenon
      <4>2. k \in Kind /\ "vmm" \in fds[k][p]
        BY <4>1, Zenon DEF Kind, HasTap
      <4>3. /\ owner'[k][p] = owner[k][p] /\ up'[k][p] = up[k][p]
            /\ port'[k][p] = port[k][p] /\ "vmm" \in fds'[k][p]
        BY <1>1, <3>1, <4>2, Survives
      <4> QED
        BY <3>1, <4>1, <4>3, Zenon DEF HasTap, Linked
    <3>4. Listening(j) => owner'["client"][p] = j /\ "listener" \in fds'["client"][p]
      <4>1. SUFFICES ASSUME Listening(j)
                     PROVE  owner'["client"][p] = j /\ "listener" \in fds'["client"][p]
        BY Zenon
      <4>2. owner["client"][p] = j /\ "listener" \in fds["client"][p] /\ "client" \in Kind
        BY <4>1, Zenon DEF TapsHeld, Kind
      <4> QED
        BY <1>1, <3>1, <4>2, Survives
    <3>5. owner'["router"][p] \in {owner["router"][p], None}
      BY <1>1, <3>1, OwnerOrNone, Zenon DEF Kind
    <3>6. BridgeHeld(j)'
      BY <1>3, <2>3, <3>2, Zenon DEF BridgeHeld
    <3>7. tap[j] \in {"client", "router"} /\ (pc[j] = "add_net" => tap[j] = "router")
      BY Zenon DEF TypeOK, ProcessType, StagesAgree
    <3>8. (ClientDone(j)' <=> ClientDone(j)) /\ (Listening(j)' <=> Listening(j))
      BY <1>3, Zenon DEF ClientDone, Listening
    <3>9. TapsHeld(j)'
      <4>1. (pc[j] \in Setting \ {"tap_open"} => HasTap(j, tap[j]))'
        BY <1>3, <3>3, <3>7, Zenon DEF TapsHeld
      <4>2. (pc[j] = "tap_up" => port[tap[j]][pid[j]] = pid[j])'
        BY <1>3, <3>3, <3>7, Zenon DEF TapsHeld, Setting
      <4>3. (pc[j] = "add_net" => Linked(j, "router"))'
        BY <1>3, <3>3, <3>7, ZenonT(30) DEF TapsHeld, Setting
      <4>4. (pc[j] \in Setting \cup Made => up["br"][pid[j]])'
        BY <1>3, <3>2, Zenon DEF TapsHeld
      <4>5. (ClientDone(j) => HasTap(j, "client") /\ Linked(j, "client"))'
        BY <3>3, <3>8, ZenonT(30) DEF TapsHeld
      <4>6. (Listening(j) => owner["client"][pid[j]] = j
                             /\ "listener" \in fds["client"][pid[j]])'
        BY <3>1, <3>4, <3>8, Zenon
      <4> QED
        BY <4>1, <4>2, <4>3, <4>4, <4>5, <4>6, Zenon DEF TapsHeld
    <3>10. DeviceHeld(j)'
      <4>1. rdev'[p] = None /\ "router" \in MayFail
        BY <3>1, Zenon DEF RouterExit
      <4> QED
        BY <1>3, <3>1, <3>5, <3>8, <4>1, NoneAssumption, ZenonT(30) DEF DeviceHeld
    <3> QED
      BY <2>1, <3>6, <3>9, <3>10, Zenon
  <2> QED
    BY <2>2, <2>3, Zenon
<1> QED
  BY <1>2, <1>4, <1>5, <1>6, Zenon DEF KernelOK, TypeOK

(* A step that changes none of the variables Inv is about.                 *)
LEMMA IdleInv ==
  ASSUME Inv, UNCHANGED <<kernel, processes, rdev>>, routerUp' \in BOOLEAN
  PROVE  Inv'
<1> USE DEF Inv, kernel, processes
<1>1. TypeOK' /\ NoCrossTalk' /\ RouterDevices'
  BY DEF TypeOK, KernelType, KernelCoherent, ProcessType, NoCrossTalk, RouterDevices
<1>2. (\A i \in Proc : StagesAgree(i) /\ BridgeHeld(i))'
  BY Zenon DEF StagesAgree, BridgeHeld, HoldsBridge, Listening
<1>3. (\A i \in Proc : TapsHeld(i) /\ DeviceHeld(i))'
  BY ZenonT(30) DEF TapsHeld, DeviceHeld, HasTap, Linked, Listening, ClientDone
<1> QED
  BY <1>1, <1>2, <1>3, Zenon

-----------------------------------------------------------------------------

(* No interface and no process exists at first.                            *)
LEMMA InitInv == Init => Inv
<1> SUFFICES ASSUME Init PROVE Inv
  BY Zenon
<1> USE DEF Init, KernelInit
<1>1. KernelType /\ KernelCoherent /\ NoCrossTalk
  BY Zenon DEF KernelType, KernelCoherent, NoCrossTalk
<1>2. ProcessType /\ RouterDevices
  BY Zenon DEF ProcessType, RouterDevices, Stage, ListenerStage
<1>3. \A i \in Proc : StagesAgree(i) /\ ~HoldsBridge(i)
  BY Zenon DEF StagesAgree, HoldsBridge, Listening, Building, Running, Cleaning
<1>4. \A i \in Proc : BridgeHeld(i) /\ TapsHeld(i) /\ DeviceHeld(i)
  BY <1>3, Zenon DEF BridgeHeld, TapsHeld, DeviceHeld, HoldsBridge, Listening, ClientDone,
     Setting, Made, Building, Running, Cleaning
<1> QED
  BY <1>1, <1>2, <1>3, <1>4, Zenon DEF Inv, TypeOK

(* Every step of start-vmm, of a listener and of the router preserves Inv. *)
LEMMA NextInv == Inv /\ [Next]_vars => Inv'
<1> SUFFICES ASSUME Inv, [Next]_vars PROVE Inv'
  BY Zenon
<1>1. ASSUME NEW i \in Proc, NEW p \in Pid, Start(i, p) PROVE Inv'
  BY <1>1, StartInv, Zenon
<1>2. ASSUME NEW i \in Proc, Setup(i) PROVE Inv'
  BY <1>2, BridgeAddInv, BridgeUpInv, TapOpenInv, TapAddIfInv, TapUpInv, AddNetInv,
     ListenerSetupInv, FailBridgeInv, ForkInv, Zenon DEF Setup
<1>3. ASSUME NEW i \in Proc, Exit(i) \/ HelperExit(i) PROVE Inv'
  BY <1>3, ExitInv, HelperExitInv, Zenon
<1>4. ASSUME NEW i \in Proc, Listener(i) PROVE Inv'
  BY <1>4, ListenerWakeInv, RemoveDeviceInv, RouterTapStepsInv, BridgeCleanupInv,
     ListenerExitInv, Zenon DEF Listener
<1>5. ASSUME RouterExit PROVE Inv'
  BY <1>5, RouterExitInv, Zenon
<1>6. ASSUME RouterStart PROVE Inv'
  BY <1>6, IdleInv, Zenon DEF RouterStart
<1>7. ASSUME UNCHANGED vars PROVE Inv'
  BY <1>7, IdleInv, Zenon DEF vars, router, Inv, TypeOK, ProcessType
<1> QED
  BY <1>1, <1>2, <1>3, <1>4, <1>5, <1>6, <1>7, Zenon DEF Next

(* The inductive invariant holds for any number of incarnations and pids,  *)
(* and whichever calls fail (the stages of net_setup in net.c).            *)
THEOREM Invariance == Spec => []Inv
BY InitInv, NextInv, PTL DEF Spec

(* Every process is at a stage of net.c and the kernel's tables are        *)
(* coherent.                                                               *)
THEOREM TypeCorrect == Spec => []TypeOK
<1>1. Inv => TypeOK
  BY Zenon DEF Inv
<1> QED
  BY <1>1, Invariance, PTL

(* An exit listener (net.c, exit_listener_main) touches only interfaces    *)
(* and devices of its own incarnation, however pids are reused.            *)
THEOREM PidIsolation == Spec => []Isolation
<1>1. Inv => Isolation
  <2> SUFFICES ASSUME Inv, NEW i \in Proc
               PROVE  /\ HoldsBridge(i) => owner["br"][pid[i]] = i
                      /\ Listening(i) => /\ owner["client"][pid[i]] = i
                                         /\ owner["router"][pid[i]] \in {i, None}
                                         /\ rdev[pid[i]] \in {i, None}
    BY ZenonT(30) DEF Isolation
  <2>1. HoldsBridge(i) => owner["br"][pid[i]] = i
    BY Zenon DEF Inv, BridgeHeld
  <2>2. Listening(i) => /\ owner["client"][pid[i]] = i
                        /\ owner["router"][pid[i]] \in {i, None}
    BY Zenon DEF Inv, TapsHeld, DeviceHeld
  <2>3. Listening(i) => rdev[pid[i]] \in {i, None}
    <3>1. SUFFICES ASSUME Listening(i) PROVE rdev[pid[i]] \in {i, None}
      BY Zenon
    <3>2. pid[i] \in Pid
      <4>1. pc[i] # "none"
        BY <3>1, Zenon DEF Inv, StagesAgree, Listening, Cleaning
      <4> QED
        BY <4>1, Zenon DEF Inv, StagesAgree
    <3> QED
      BY <2>2, <3>1, <3>2, Zenon DEF Inv, RouterDevices
  <2> QED
    BY <2>1, <2>2, <2>3, Zenon
<1> QED
  BY <1>1, Invariance, PTL

(* No bridge ever joins interfaces of two VMs (net.c, setup_tap).          *)
THEOREM BridgesSeparate == Spec => []NoCrossTalk
<1>1. Inv => NoCrossTalk
  BY Zenon DEF Inv
<1> QED
  BY <1>1, Invariance, PTL

(* A running VM's bridge, taps and router device form one link (net.c,     *)
(* net_setup).                                                             *)
THEOREM LinkWhole == Spec => []Connected
<1>1. Inv => Connected
  BY Zenon DEF Inv, Connected, BridgeHeld, TapsHeld, DeviceHeld, HoldsBridge, ClientDone, Made
<1> QED
  BY <1>1, Invariance, PTL

-----------------------------------------------------------------------------
(* NetSetup implements PidLease.                                           *)

Active == {i \in Proc : pc[i] \in Running}
LeaseStutter == UNCHANGED <<owner["br"], Active>>

(* A step that moves no incarnation into or out of Running.                *)
LEMMA SameActive ==
  ASSUME NEW i \in Proc, \A j \in Proc \ {i} : pc'[j] = pc[j],
         pc'[i] \in Running <=> pc[i] \in Running
  PROVE  UNCHANGED Active
BY DEF Active

(* Closing files gives no lease back.                                      *)
LEMMA CloseLease ==
  ASSUME KernelType, NEW K, NEW O, NEW h, CloseFiles(K, O, h)
  PROVE  owner'["br"] = owner["br"]
<1>1. \A p \in Pid : ~Vanishes(K, O, h, "br", p)
  BY Zenon DEF Vanishes
<1>2. owner'["br"] = [p \in Pid |-> owner["br"][p]]
  BY <1>1, Zenon DEF CloseFiles, Kind
<1> QED
  BY <1>2, Zenon DEF KernelType, Kind

(* Each step of net_setup takes the lease, activates it, gives it back or  *)
(* does nothing to it.                                                     *)
LEMMA SetupLease ==
  ASSUME NEW i \in Proc, Inv, Setup(i)
  PROVE  Lease!Next \/ LeaseStutter
<1> USE DEF Inv
<1>1. KernelType /\ pid[i] \in Pid /\ i \in Proc
  BY Zenon DEF TypeOK, Setup, StagesAgree, BridgeAdd, BridgeUp, TapOpen, TapAddIf, TapUp, AddNet,
     ListenerSetup, FailBridge, Fork
<1>2. \A j \in Proc \ {i} : pc'[j] = pc[j]
  BY Zenon DEF TypeOK, ProcessType, Setup, BridgeAdd, BridgeUp, TapOpen, TapAddIf, TapUp, AddNet,
     ListenerSetup, FailBridge, Fork, Goto
<1>3. \A s : Goto(i, s) => pc'[i] = s
  BY Zenon DEF Goto, TypeOK, ProcessType
<1>4. CASE BridgeAdd(i)
  <2>1. UNCHANGED Active
    BY <1>2, <1>3, <1>4, SameActive, Zenon DEF BridgeAdd, Running
  <2>2. CASE bridge_add(i, pid[i])
    <3>1. owner["br"][pid[i]] = None /\ owner'["br"] = [owner["br"] EXCEPT ![pid[i]] = i]
      BY <1>1, <2>2, Zenon DEF bridge_add, Exists, KernelType, Kind
    <3> QED
      BY <1>1, <2>1, <3>1, Zenon DEF Lease!Next, Lease!Acquire, Active
  <2>3. CASE UNCHANGED kernel
    BY <2>1, <2>3, Zenon DEF kernel, LeaseStutter
  <2> QED
    BY <1>4, <2>2, <2>3, Zenon DEF BridgeAdd
<1>5. CASE BridgeUp(i) \/ TapOpen(i) \/ TapAddIf(i) \/ TapUp(i) \/ AddNet(i)
  <2>1. UNCHANGED Active
    BY <1>2, <1>3, <1>5, SameActive, Zenon DEF BridgeUp, TapOpen, TapAddIf, TapUp, AddNet, Running
  <2>2. tap[i] \in {"client", "router"}
    BY Zenon DEF TypeOK, ProcessType
  <2>3. CASE BridgeUp(i) \/ TapUp(i)
    BY <1>1, <2>1, <2>3, CloseLease, Zenon DEF BridgeUp, TapUp, if_up, kernel, LeaseStutter
  <2>4. CASE TapOpen(i)
    BY <1>1, <2>1, <2>2, <2>4, Zenon DEF TapOpen, tap_open, kernel, LeaseStutter, KernelType, Kind
  <2>5. CASE TapAddIf(i) \/ AddNet(i)
    BY <1>1, <2>1, <2>5, CloseLease, Zenon DEF TapAddIf, AddNet, bridge_add_if, ch_add_net,
       LeaseStutter
  <2> QED
    BY <1>5, <2>3, <2>4, <2>5, Zenon
<1>6. CASE ListenerSetup(i)
  <2>1. CASE Goto(i, "fork")
    <3>1. Active' = Active \cup {i}
      BY <1>2, <1>3, <2>1, Zenon DEF Active, Running
    <3>2. owner["br"][pid[i]] = i
      BY <1>6, Zenon DEF ListenerSetup, BridgeHeld, HoldsBridge, Building
    <3>3. UNCHANGED owner
      BY <1>6, Zenon DEF ListenerSetup
    <3> QED
      BY <1>1, <3>1, <3>2, <3>3, Zenon DEF Lease!Next, Lease!Activate, Active
  <2>2. CASE Goto(i, "fail_bridge")
    <3>1. UNCHANGED Active
      BY <1>2, <1>3, <1>6, <2>2, SameActive, Zenon DEF ListenerSetup, Running
    <3> QED
      BY <1>6, <3>1, Zenon DEF ListenerSetup, LeaseStutter
  <2> QED
    BY <1>6, <2>1, <2>2, Zenon DEF ListenerSetup
<1>7. CASE FailBridge(i)
  <2>1. UNCHANGED Active /\ i \notin Active
    BY <1>2, <1>3, <1>7, SameActive, Zenon DEF FailBridge, Running, Active
  <2>2. owner["br"][pid[i]] = i
    BY <1>7, Zenon DEF FailBridge, BridgeHeld, HoldsBridge, Building
  <2>3. CASE bridge_delete(pid[i])
    <3>1. owner'["br"] = [owner["br"] EXCEPT ![pid[i]] = None]
      BY <1>1, <2>3, Zenon DEF bridge_delete, KernelType, Kind
    <3> QED
      BY <1>1, <2>1, <2>2, <3>1, Zenon DEF Lease!Next, Lease!Release, Active
  <2>4. CASE bridge_delete_failed(pid[i])
    BY <2>1, <2>4, Zenon DEF bridge_delete_failed, LeaseStutter
  <2> QED
    BY <1>7, <2>3, <2>4, Zenon DEF FailBridge
<1>8. CASE Fork(i)
  <2>1. UNCHANGED owner
    BY <1>8, Zenon DEF Fork
  <2>2. CASE Goto(i, "vmm")
    <3>1. UNCHANGED Active
      BY <1>2, <1>3, <1>8, <2>2, SameActive, Zenon DEF Fork, Running
    <3> QED
      BY <2>1, <3>1, Zenon DEF LeaseStutter
  <2>3. CASE Goto(i, "exit")
    <3>1. Active' = Active \ {i}
      BY <1>2, <1>3, <2>3, Zenon DEF Active, Running
    <3> QED
      BY <1>1, <2>1, <3>1, Zenon DEF Lease!Next, Lease!Deactivate, Active
  <2> QED
    BY <1>8, <2>2, <2>3, Zenon DEF Fork
<1> QED
  BY <1>4, <1>5, <1>6, <1>7, <1>8, Zenon DEF Setup

(* The listener gives the lease back with bridge_cleanup and at no other   *)
(* step.                                                                   *)
LEMMA ListenerLease ==
  ASSUME NEW i \in Proc, Inv, Listener(i)
  PROVE  Lease!Next \/ LeaseStutter
<1> USE DEF Inv
<1>1. KernelType /\ UNCHANGED Active
  BY Zenon DEF TypeOK, Listener, Active, ListenerWake, RemoveDevice, RemoveIf, RouterTapDown,
     RouterTapRename, BridgeCleanup, ListenerExit
<1>2. CASE ListenerWake(i) \/ RemoveDevice(i) \/ RemoveIf(i) \/ RouterTapDown(i)
  BY <1>1, <1>2, Zenon DEF ListenerWake, RemoveDevice, RemoveIf, RouterTapDown, bridge_remove_if,
     if_down, kernel, LeaseStutter
<1>3. CASE RouterTapRename(i)
  BY <1>1, <1>3, Zenon DEF RouterTapRename, if_rename, kernel, LeaseStutter, KernelType, Kind
<1>4. CASE BridgeCleanup(i)
  <2>1. owner["br"][pid[i]] = i /\ pid[i] \in Pid /\ i \notin Active
    BY <1>4, Zenon DEF BridgeCleanup, BridgeHeld, HoldsBridge, Listening, Cleaning, StagesAgree,
       Active, Running
  <2>2. CASE bridge_delete(pid[i])
    <3>1. owner'["br"] = [owner["br"] EXCEPT ![pid[i]] = None]
      BY <1>1, <2>1, <2>2, Zenon DEF bridge_delete, KernelType, Kind
    <3> QED
      BY <1>1, <2>1, <3>1, Zenon DEF Lease!Next, Lease!Release, Active
  <2>3. CASE bridge_delete_failed(pid[i])
    BY <1>1, <2>3, Zenon DEF bridge_delete_failed, LeaseStutter
  <2> QED
    BY <1>4, <2>2, <2>3, Zenon DEF BridgeCleanup
<1>5. CASE ListenerExit(i)
  BY <1>1, <1>5, CloseLease, Zenon DEF ListenerExit, LeaseStutter
<1> QED
  BY <1>2, <1>3, <1>4, <1>5, Zenon DEF Listener

(* net.c implements PidLease: the bridge is a lease on the names made from *)
(* the pid, and is not given back while the VM runs.                       *)
THEOREM LeaseRefinement == Spec => LeaseSpec
<1>1. Init => Lease!Init
  BY DEF Init, KernelInit, Lease!Init, Kind, Running
<1>2. Inv /\ [Next]_vars => [Lease!Next]_<<owner["br"], {i \in Proc : pc[i] \in Running}>>
  <2> SUFFICES ASSUME Inv, [Next]_vars PROVE Lease!Next \/ LeaseStutter
    BY Zenon DEF LeaseStutter, Active
  <2>1. KernelType
    BY Zenon DEF Inv, TypeOK
  <2>2. ASSUME NEW i \in Proc, NEW p \in Pid, Start(i, p) PROVE LeaseStutter
    <3>1. UNCHANGED Active
      BY <2>2, SameActive, Zenon DEF Start, Goto, Running, Inv, TypeOK, ProcessType
    <3> QED
      BY <2>2, <3>1, Zenon DEF Start, kernel, LeaseStutter
  <2>3. ASSUME NEW i \in Proc, Exit(i) PROVE Lease!Next
    <3>1. Active' = Active \ {i}
      BY <2>3, Zenon DEF Exit, Goto, Active, Running, Inv, TypeOK, ProcessType
    <3>2. UNCHANGED owner["br"]
      BY <2>1, <2>3, CloseLease, Zenon DEF Exit
    <3> QED
      BY <3>1, <3>2, Zenon DEF Lease!Next, Lease!Deactivate, Active
  <2>4. ASSUME NEW i \in Proc, HelperExit(i) PROVE LeaseStutter
    BY <2>1, <2>4, CloseLease, Zenon DEF HelperExit, LeaseStutter, Active
  <2>5. ASSUME RouterExit PROVE LeaseStutter
    BY <2>1, <2>5, CloseLease, Zenon DEF RouterExit, processes, LeaseStutter, Active
  <2>6. ASSUME RouterStart \/ UNCHANGED vars PROVE LeaseStutter
    BY <2>6, Zenon DEF RouterStart, vars, kernel, processes, LeaseStutter, Active
  <2> QED
    BY <2>2, <2>3, <2>4, <2>5, <2>6, SetupLease, ListenerLease, Zenon DEF Next
<1> QED
  BY <1>1, <1>2, Invariance, PTL DEF Spec, LeaseSpec, Lease!Spec

-----------------------------------------------------------------------------
(* Ledger is inductive.                                                    *)

(* A step of i as the other incarnations see it: their processes and       *)
(* interfaces stay as they are, their devices too, and no dead tap goes.   *)
Steady(i) ==
  /\ routerUp' = routerUp
  /\ \A j \in Proc \ {i} : /\ pid'[j] = pid[j] /\ pc'[j] = pc[j]
                           /\ helper'[j] = helper[j] /\ lpc'[j] = lpc[j]
  /\ \A k \in Kind, q \in Pid :
       \/ owner'[k][q] \in {i, None}
       \/ owner'[k][q] = owner[k][q] /\ fds'[k][q] = fds[k][q] /\ up'[k][q] = up[k][q]
  /\ \A q \in Pid : owner["_dead"][q] # None => owner'["_dead"][q] = owner["_dead"][q]
  /\ \A q \in Pid : rdev'[q] = rdev[q] \/ rdev[q] \in {i, None}

(* Nobody else's accounts change at such a step.                           *)
LEMMA OthersAccounts ==
  ASSUME NEW i \in Proc, Ledger, Steady(i), NEW j \in Proc \ {i}
  PROVE  Accounts(j)'
<1>1. /\ j \in Proc /\ j # i /\ j # None /\ Accounts(j)
      /\ pc[j] # "none" => pid[j] \in Pid
  BY NoneAssumption, Zenon DEF Ledger, Inv, StagesAgree
<1>2. pid'[j] = pid[j] /\ pc'[j] = pc[j] /\ helper'[j] = helper[j] /\ lpc'[j] = lpc[j]
  BY Zenon DEF Steady
<1>3. \A k \in Kind, q \in Pid : owner'[k][q] = j =>
        owner[k][q] = j /\ fds'[k][q] = fds[k][q] /\ up'[k][q] = up[k][q]
  BY <1>1, Zenon DEF Steady
<1>4. \A k \in Kind : Owns(j, k)' =>
        Owns(j, k) /\ fds'[k][pid[j]] = fds[k][pid[j]] /\ up'[k][pid[j]] = up[k][pid[j]]
  BY <1>1, <1>2, <1>3, Zenon DEF Owns
<1>5. {"br", "client", "router", "_dead"} \subseteq Kind
  BY Zenon DEF Kind
<1>6. NamedAfter(j)'
  BY <1>1, <1>2, <1>3, Zenon DEF Accounts, NamedAfter
<1>7. BridgeKept(j)'
  BY <1>1, <1>2, <1>4, <1>5, Zenon DEF Accounts, BridgeKept, HoldsBridge, Listening
<1>8. ClientKept(j)'
  BY <1>1, <1>2, <1>4, <1>5, Zenon DEF Accounts, ClientKept, Alive
<1>9. RouterKept(j)'
  <2> SUFFICES ASSUME Owns(j, "router")'
               PROVE  RouterKept(j)'
    BY Zenon DEF RouterKept
  <2>1. /\ Owns(j, "router") /\ pid[j] \in Pid
        /\ fds'["router"][pid[j]] = fds["router"][pid[j]]
        /\ up'["router"][pid[j]] = up["router"][pid[j]]
    BY <1>1, <1>4, <1>5, Zenon DEF Owns
  <2>2. rdev[pid[j]] = j => rdev'[pid[j]] = j
    BY <1>1, <2>1, Zenon DEF Steady
  <2>3. owner["_dead"][pid[j]] \notin {j, None} => owner'["_dead"][pid[j]] \notin {j, None}
    BY <2>1, Zenon DEF Steady
  <2> QED
    BY <1>1, <1>2, <2>1, <2>2, <2>3, Zenon DEF Accounts, RouterKept, Alive
<1>10. DeadKept(j)'
  BY <1>1, <1>2, <1>4, <1>5, Zenon DEF Accounts, DeadKept
<1> QED
  BY <1>6, <1>7, <1>8, <1>9, <1>10, Zenon DEF Accounts

LEMMA CombineAccounts ==
  ASSUME NEW i \in Proc, Ledger, Inv', Steady(i), Accounts(i)',
         \A q \in Pid : rdev'[q] # None => rdev[q] # None \/ routerUp
  PROVE  Ledger'
<1>1. \A j \in Proc : Accounts(j)'
  BY OthersAccounts, Zenon
<1>2. \A q \in Pid : rdev'[q] # None => routerUp'
  BY Zenon DEF Ledger, Steady
<1> QED
  BY <1>1, <1>2, Zenon DEF Ledger

(* Calls that open, close and rename no tap, made by i under its own pid.  *)
TapsKept(i) ==
  /\ fds' = fds
  /\ \A k \in Kind, q \in Pid : k # "br" => owner'[k][q] = owner[k][q]
  /\ \A q \in Pid : \/ owner'["br"][q] \in {owner["br"][q], None}
                    \/ owner'["br"][q] = i /\ q = pid[i]
  /\ \A k \in Kind, q \in Pid : up'[k][q] = up[k][q] \/ owner'[k][q] \in {i, None}

LEMMA CallsKeepTaps ==
  ASSUME NEW i \in Proc, Ledger, pid[i] \in Pid, NEW k \in Kind,
         \/ UNCHANGED kernel
         \/ owner[k][pid[i]] = i /\ (if_up(k, pid[i]) \/ if_down(k, pid[i]))
         \/ bridge_add(i, pid[i])
         \/ bridge_add_if(pid[i], k, pid[i]) \/ bridge_remove_if(pid[i], k, pid[i])
         \/ owner["br"][pid[i]] = i
            /\ (bridge_delete(pid[i]) \/ bridge_delete_failed(pid[i]))
  PROVE  TapsKept(i)
<1> USE DEF TapsKept
<1>1. KernelType /\ "br" \in Kind
  BY Zenon DEF Ledger, Inv, TypeOK, Kind
<1>2. CASE UNCHANGED kernel \/ bridge_add_if(pid[i], k, pid[i])
           \/ bridge_remove_if(pid[i], k, pid[i])
  BY <1>2, Zenon DEF kernel, bridge_add_if, bridge_remove_if
<1>3. CASE owner[k][pid[i]] = i /\ (if_up(k, pid[i]) \/ if_down(k, pid[i]))
  <2>1. PICK u \in BOOLEAN : up' = [up EXCEPT ![k][pid[i]] = u]
    BY <1>3, Zenon DEF if_up, if_down
  <2>2. \A l \in Kind, q \in Pid : l # k \/ q # pid[i] => up'[l][q] = up[l][q]
    BY <1>1, <2>1, Zenon DEF KernelType
  <2>3. UNCHANGED <<owner, fds>>
    BY <1>3, Zenon DEF if_up, if_down
  <2> QED
    BY <1>3, <2>2, <2>3, Zenon
<1>4. CASE bridge_add(i, pid[i])
  <2>1. \A l \in Kind, q \in Pid : l # "br" \/ q # pid[i] => owner'[l][q] = owner[l][q]
    BY <1>1, <1>4, Zenon DEF KernelType, bridge_add
  <2>2. owner'["br"][pid[i]] = i /\ UNCHANGED <<up, fds>>
    BY <1>1, <1>4, Zenon DEF KernelType, bridge_add
  <2> QED
    BY <1>1, <2>1, <2>2, Zenon
<1>5. CASE owner["br"][pid[i]] = i /\ bridge_delete_failed(pid[i])
  <2>1. PICK u \in {up["br"][pid[i]], FALSE} : up' = [up EXCEPT !["br"][pid[i]] = u]
    BY <1>5, Zenon DEF bridge_delete_failed
  <2>2. \A l \in Kind, q \in Pid : l # "br" \/ q # pid[i] => up'[l][q] = up[l][q]
    BY <1>1, <2>1, Zenon DEF KernelType
  <2>3. UNCHANGED <<owner, fds>>
    BY <1>5, Zenon DEF bridge_delete_failed
  <2> QED
    BY <1>5, <2>2, <2>3, Zenon
<1>6. CASE bridge_delete(pid[i])
  <2>1. \A l \in Kind, q \in Pid : l # "br" \/ q # pid[i] =>
          owner'[l][q] = owner[l][q] /\ up'[l][q] = up[l][q]
    BY <1>1, <1>6, Zenon DEF KernelType, bridge_delete
  <2>2. owner'["br"][pid[i]] = None /\ UNCHANGED fds
    BY <1>1, <1>6, Zenon DEF KernelType, bridge_delete
  <2> QED
    BY <1>1, <2>1, <2>2, Zenon
<1> QED
  BY <1>2, <1>3, <1>4, <1>5, <1>6, Zenon

(* Steps that make such a call, or none.                                   *)
Moves(i) ==
  /\ pc[i] # "none" /\ pc'[i] # "none" /\ pid' = pid /\ helper' = helper /\ TapsKept(i)
  /\ \A j \in Proc \ {i} : pc'[j] = pc[j] /\ lpc'[j] = lpc[j]
  /\ Alive(i) => Alive(i)'
  /\ pc'[i] \in Made => pc[i] \in Made
  /\ pc[i] = "listener_setup" => pc'[i] = "listener_setup" \/ ~HandoverSafe
  /\ lpc'[i] = "none" <=> lpc[i] = "none"
  /\ lpc'[i] = "exited" => lpc[i] = "exited"
  /\ lpc[i] \in Renamed => lpc'[i] \in Renamed
  /\ lpc'[i] \in {"poll", "remove_device"} => lpc[i] \in {"poll", "remove_device"}
  /\ RouterSafe /\ owner["router"][pid[i]] = i =>
       /\ lpc'[i] = "rename" => ~up'["router"][pid[i]]
       /\ lpc'[i] \in Renamed => owner["_dead"][pid[i]] \notin {i, None}

LEMMA MovesLedger ==
  ASSUME NEW i \in Proc, Ledger, Inv', Moves(i), BridgeKept(i)', routerUp' = routerUp,
         \A q \in Pid : \/ rdev'[q] = rdev[q]
                        \/ /\ rdev[q] = i /\ rdev'[q] = None
                           /\ pc'[i] \notin Made /\ lpc'[i] \notin {"none", "poll", "remove_device"}
  PROVE  Ledger'
<1>1. /\ Accounts(i) /\ i # None /\ pid[i] \in Pid
      /\ {"br", "client", "router", "_dead"} \subseteq Kind
  BY NoneAssumption, Zenon DEF Ledger, Inv, StagesAgree, Moves, Kind
<1> DEFINE p == pid[i]
<1>9. /\ \A k \in {"client", "router", "_dead"}, q \in Pid : owner'[k][q] = owner[k][q]
      /\ \A k \in Kind, q \in Pid : owner'[k][q] = owner[k][q] \/ owner'[k][q] \in {i, None}
      /\ \A k \in Kind, q \in Pid : owner'[k][q] = i => owner[k][q] = i \/ q = p
  <2>1. \A k \in Kind, q \in Pid : k # "br" => owner'[k][q] = owner[k][q]
    BY Zenon DEF Moves, TapsKept
  <2>2. \A q \in Pid : owner'["br"][q] = owner["br"][q] \/ owner'["br"][q] \in {i, None}
    BY Zenon DEF Moves, TapsKept
  <2>3. \A q \in Pid : owner'["br"][q] = i => owner["br"][q] = i \/ q = p
    BY <1>1, Zenon DEF Moves, TapsKept
  <2> QED
    BY <1>1, <2>1, <2>2, <2>3, Zenon
<1>2. Steady(i)
  <2>1. \A k \in Kind, q \in Pid :
          \/ owner'[k][q] \in {i, None}
          \/ owner'[k][q] = owner[k][q] /\ fds'[k][q] = fds[k][q] /\ up'[k][q] = up[k][q]
    <3> SUFFICES ASSUME NEW k \in Kind, NEW q \in Pid, owner'[k][q] \notin {i, None}
                 PROVE  owner'[k][q] = owner[k][q] /\ fds'[k][q] = fds[k][q]
                        /\ up'[k][q] = up[k][q]
      BY Zenon
    <3>1. up'[k][q] = up[k][q] /\ fds' = fds
      BY Zenon DEF Moves, TapsKept
    <3> QED
      BY <1>9, <3>1, Zenon
  <2>2. \A q \in Pid : owner'["_dead"][q] = owner["_dead"][q]
    BY <1>9, Zenon
  <2>3. \A j \in Proc \ {i} : /\ pid'[j] = pid[j] /\ pc'[j] = pc[j]
                               /\ helper'[j] = helper[j] /\ lpc'[j] = lpc[j]
    BY Zenon DEF Moves, TapsKept
  <2> QED
    BY <2>1, <2>2, <2>3, Zenon DEF Steady
<1>3. NamedAfter(i)'
  <2>1. pid'[i] = pid[i] /\ pc'[i] # "none"
    BY Zenon DEF Moves, TapsKept
  <2>2. \A k \in Kind, q \in Pid : owner[k][q] = i => pid[i] = q
    BY <1>1, Zenon DEF Accounts, NamedAfter
  <2>3. \A k \in Kind, q \in Pid : owner'[k][q] = i => pid[i] = q
    BY <1>9, <2>2, Zenon
  <2> QED
    BY <2>1, <2>3, Zenon DEF NamedAfter
<1>4. \A k \in {"client", "router", "_dead"} : Owns(i, k)' => Owns(i, k)
  <2>1. pid'[i] = pid[i] /\ pc[i] # "none"
    BY Zenon DEF Moves, TapsKept
  <2>2. \A k \in {"client", "router", "_dead"} : owner'[k][pid[i]] = owner[k][pid[i]]
    BY <1>1, <1>9, Zenon
  <2> QED
    BY <2>1, <2>2, Zenon DEF Owns
<1>5. ClientKept(i)'
  BY <1>1, <1>4, Zenon DEF Accounts, ClientKept, Moves, TapsKept
<1>6. RouterKept(i)'
  <2> SUFFICES ASSUME Owns(i, "router")' PROVE RouterKept(i)'
    BY Zenon DEF RouterKept
  <2>1. Owns(i, "router") /\ owner["router"][pid[i]] = i
    BY <1>4, Zenon DEF Owns
  <2>2. /\ fds'["router"][pid'[i]] = fds["router"][pid[i]] 
        /\ owner'["_dead"][pid'[i]] = owner["_dead"][pid[i]]
        /\ pid'[i] = pid[i]
    <3>1. pid'[i] = pid[i] /\ fds' = fds
      BY Zenon DEF Moves, TapsKept
    <3> QED
      BY <1>1, <1>9, <3>1, Zenon
  <2>3. (/\ fds["router"][pid[i]] \subseteq {"vmm", "router"}
         /\ pc[i] \in Made \/ lpc[i] # "none" => fds["router"][pid[i]] = {"router"})'
    BY <1>1, <2>1, <2>2, Zenon DEF Accounts, RouterKept, Moves, TapsKept
  <2>4. (pc[i] \in Made \/ lpc[i] \in {"poll", "remove_device"} => rdev[pid[i]] = i)'
    BY <1>1, <2>1, <2>2, Zenon DEF Accounts, RouterKept, Moves, TapsKept
  <2>5. (RouterSafe /\ lpc[i] = "rename" => ~up["router"][pid[i]])'
    BY <2>1, <2>2, Zenon DEF Moves, RouterSafe
  <2>6. (RouterSafe /\ lpc[i] \in Renamed => owner["_dead"][pid[i]] \notin {i, None})'
    BY <2>1, <2>2, Zenon DEF Moves, RouterSafe
  <2>7. "vmm" \in fds'["router"][pid'[i]] => Alive(i)'
    BY <1>1, <2>1, <2>2, Zenon DEF Accounts, RouterKept, Moves
  <2>8. lpc'[i] = "none" /\ "router" \in fds'["router"][pid'[i]] =>
          rdev'[pid'[i]] = i /\ (pc'[i] = "listener_setup" \/ ~HandoverSafe)
    <3> SUFFICES ASSUME lpc'[i] = "none", "router" \in fds'["router"][pid'[i]]
                 PROVE  rdev'[pid'[i]] = i /\ (pc'[i] = "listener_setup" \/ ~HandoverSafe)
      BY Zenon
    <3>1. lpc[i] = "none" /\ "router" \in fds["router"][pid[i]]
      BY <2>2, Zenon DEF Moves
    <3>2. rdev[pid[i]] = i /\ (pc[i] = "listener_setup" \/ ~HandoverSafe)
      BY <1>1, <2>1, <3>1, Zenon DEF Accounts, RouterKept
    <3>3. rdev'[pid[i]] = i
      BY <1>1, <3>2, Zenon
    <3> QED
      BY <2>2, <3>2, <3>3, Zenon DEF Moves
  <2> QED
    BY <2>3, <2>4, <2>5, <2>6, <2>7, <2>8, Zenon DEF RouterKept
<1>7. DeadKept(i)'
  BY <1>1, <1>4, Zenon DEF Accounts, DeadKept, Moves, TapsKept
<1>8. \A q \in Pid : rdev'[q] # None => rdev[q] # None \/ routerUp
  BY Zenon
<1> QED
  BY <1>2, <1>3, <1>5, <1>6, <1>7, <1>8, CombineAccounts, Zenon DEF Accounts

(* start-vmm moves on, not yet past net_setup or giving up.                *)
LEMMA SetupMove ==
  ASSUME NEW i \in Proc, Ledger, Inv', pc[i] \in {"bridge_add", "fork"} \cup Building,
         NEW s \in {"exit"} \cup (Building \ {"listener_setup"}), Goto(i, s),
         UNCHANGED <<pid, helper, lpc, router>>, TapsKept(i),
         pc[i] = "listener_setup" => ~HandoverSafe,
         BridgeSafe /\ s = "exit" => owner'["br"][pid[i]] # i \/ Listening(i)
  PROVE  Ledger'
<1>1. Accounts(i) /\ StagesAgree(i) /\ ProcessType
  BY Zenon DEF Ledger, Inv, TypeOK
<1>2. pc'[i] = s /\ \A j \in Proc \ {i} : pc'[j] = pc[j]
  BY <1>1, Zenon DEF Goto, ProcessType
<1>3. pc[i] # "none" /\ pc[i] # "dead" /\ lpc[i] \in {"none", "poll", "exited"}
  BY <1>1, Zenon DEF StagesAgree, Building, Running
<1>4. lpc[i] = "exited" => "listener" \in MayFail
  BY <1>1, <1>3, Zenon DEF Accounts, BridgeKept
<1>5. s # "none" /\ s # "dead" /\ s \notin Made
  BY Zenon DEF Made, Running, Building
<1>6. Moves(i)
  BY <1>2, <1>3, <1>4, <1>5, Zenon DEF Moves, Alive, RouterSafe, Renamed
<1>7. BridgeKept(i)'
  <2>1. CASE s = "exit"
    BY <1>2, <1>4, <2>1, Zenon DEF BridgeKept, Owns, HoldsBridge, Listening, BridgeSafe
  <2>2. CASE s \in Building
    BY <1>2, <1>4, <2>2, Zenon DEF BridgeKept, HoldsBridge
  <2> QED
    BY <2>1, <2>2, Zenon
<1> QED
  BY <1>6, <1>7, MovesLedger, Zenon DEF router

(* The listener moves on.                                                  *)
LEMMA ListenerMove ==
  ASSUME NEW i \in Proc, Ledger, Inv', Listening(i), pc[i] = "dead", ~helper[i],
         NEW s \in Cleaning \cup {"exiting"}, ListenerGoto(i, s),
         s = "remove_device" => lpc[i] = "poll",
         lpc[i] = "bridge_cleanup" => s = "exiting",
         UNCHANGED <<pid, pc, helper, routerUp>>, TapsKept(i),
         \A q \in Pid : \/ rdev'[q] = rdev[q]
                        \/ rdev[q] = i /\ rdev'[q] = None /\ s # "remove_device",
         BridgeSafe /\ s = "exiting" => owner'["br"][pid[i]] # i,
         RouterSafe /\ owner["router"][pid[i]] = i =>
           /\ s = "rename" => ~up'["router"][pid[i]]
           /\ s \in Renamed => owner["_dead"][pid[i]] \notin {i, None}
  PROVE  Ledger'
<1>1. Accounts(i) /\ StagesAgree(i) /\ ProcessType
  BY Zenon DEF Ledger, Inv, TypeOK
<1>2. lpc'[i] = s /\ \A j \in Proc \ {i} : lpc'[j] = lpc[j]
  BY <1>1, Zenon DEF ListenerGoto, ProcessType
<1>3. s # "none" /\ s # "exited" /\ s # "poll" /\ lpc[i] # "none"
  BY Zenon DEF Listening, Cleaning
<1>4. lpc[i] \in Renamed => s \in Renamed
  BY Zenon DEF Renamed, Listening, Cleaning
<1>5. Moves(i)
  <2>1. /\ pc[i] # "none" /\ pc'[i] # "none" /\ pid' = pid /\ helper' = helper
        /\ \A j \in Proc \ {i} : pc'[j] = pc[j] /\ lpc'[j] = lpc[j]
        /\ Alive(i) => Alive(i)'
        /\ pc'[i] \in Made => pc[i] \in Made
        /\ pc[i] # "listener_setup"
    BY <1>2, Zenon DEF Alive
  <2> QED
    BY <1>2, <1>3, <1>4, <2>1, Zenon DEF Moves
<1>6. BridgeKept(i)'
  <2>1. CASE s = "exiting"
    BY <1>2, <1>3, <2>1, Zenon DEF BridgeKept, Owns
  <2>2. CASE s \in Cleaning
    BY <1>2, <1>3, <2>2, Zenon DEF BridgeKept, HoldsBridge, Listening
  <2> QED
    BY <2>1, <2>2, Zenon
<1>7. pc'[i] \notin Made
  BY Zenon DEF Made, Running
<1> QED
  BY <1>2, <1>3, <1>5, <1>6, <1>7, MovesLedger, Zenon

LEMMA BridgeAddLedger ==
  ASSUME NEW i \in Proc, Ledger, Inv', BridgeAdd(i)
  PROVE  Ledger'
<1>1. pid[i] \in Pid /\ "br" \in Kind /\ Accounts(i) /\ lpc[i] = "none"
  BY Zenon DEF Ledger, Inv, StagesAgree, BridgeAdd, Kind
<1>2. TapsKept(i)
  BY <1>1, CallsKeepTaps, Zenon DEF BridgeAdd
<1>3. owner["br"][pid[i]] = i => ~BridgeSafe
  BY <1>1, Zenon DEF Accounts, BridgeKept, Owns, HoldsBridge, Listening, Building, Running,
     Cleaning, BridgeAdd
<1>4. CASE Goto(i, "bridge_up")
  BY <1>2, <1>4, SetupMove, Zenon DEF BridgeAdd, Building
<1>5. CASE Goto(i, "exit") /\ UNCHANGED kernel
  BY <1>2, <1>3, <1>5, SetupMove, Zenon DEF BridgeAdd, kernel
<1> QED
  BY <1>4, <1>5, Zenon DEF BridgeAdd

(* What start-vmm knows between bridge_add and the fork.                   *)
LEMMA BuildingFacts ==
  ASSUME NEW i \in Proc, Ledger, pc[i] \in Building
  PROVE  /\ pid[i] \in Pid /\ lpc[i] = "none" /\ ~helper[i] /\ owner["br"][pid[i]] = i
         /\ tap[i] \in {"client", "router"} /\ tap[i] \in Kind /\ "br" \in Kind
         /\ Accounts(i) /\ KernelType /\ KernelCoherent /\ i # None
<1>1. /\ StagesAgree(i) /\ BridgeHeld(i) /\ ProcessType /\ Accounts(i) /\ KernelType
      /\ KernelCoherent /\ i # None
  BY NoneAssumption, Zenon DEF Ledger, Inv, TypeOK
<1>2. pc[i] # "none" /\ HoldsBridge(i)
  BY Zenon DEF Building, HoldsBridge
<1> QED
  BY <1>1, <1>2, Zenon DEF StagesAgree, BridgeHeld, ProcessType, Kind

LEMMA BridgeUpLedger ==
  ASSUME NEW i \in Proc, Ledger, Inv', BridgeUp(i)
  PROVE  Ledger'
<1>1. pc[i] \in Building
  BY Zenon DEF BridgeUp, Building
<1>2. TapsKept(i)
  BY <1>1, BuildingFacts, CallsKeepTaps, Zenon DEF BridgeUp
<1>3. CASE Goto(i, "tap_open")
  BY <1>1, <1>2, <1>3, SetupMove, Zenon DEF BridgeUp, Building
<1>4. CASE Goto(i, "fail_bridge")
  BY <1>1, <1>2, <1>4, SetupMove, Zenon DEF BridgeUp, Building
<1> QED
  BY <1>3, <1>4, Zenon DEF BridgeUp

LEMMA FailBridgeLedger ==
  ASSUME NEW i \in Proc, Ledger, Inv', FailBridge(i)
  PROVE  Ledger'
<1>1. pc[i] \in Building
  BY Zenon DEF FailBridge, Building
<1>2. TapsKept(i)
  BY <1>1, BuildingFacts, CallsKeepTaps, Zenon DEF FailBridge
<1>3. BridgeSafe => owner'["br"][pid[i]] # i
  <2>1. CASE bridge_delete(pid[i])
    BY <1>1, <2>1, BuildingFacts, Zenon DEF bridge_delete, KernelType
  <2>2. CASE bridge_delete_failed(pid[i])
    BY <1>1, <2>2, BuildingFacts, Zenon DEF bridge_delete_failed, Fails, Exists, BridgeSafe
  <2> QED
    BY <2>1, <2>2, Zenon DEF FailBridge
<1> QED
  BY <1>1, <1>2, <1>3, SetupMove, Zenon DEF FailBridge

(* What the listener knows while it cleans up.                             *)
LEMMA CleaningFacts ==
  ASSUME NEW i \in Proc, Ledger, lpc[i] \in Cleaning
  PROVE  /\ pid[i] \in Pid /\ pc[i] = "dead" /\ ~helper[i] /\ Listening(i)
         /\ owner["br"][pid[i]] = i /\ owner["router"][pid[i]] \in {i, None}
         /\ rdev[pid[i]] \in {i, None} /\ (rdev[pid[i]] # None => routerUp)
         /\ {"br", "client", "router", "_dead"} \subseteq Kind
         /\ Accounts(i) /\ KernelType /\ KernelCoherent /\ i # None
<1>1. /\ StagesAgree(i) /\ BridgeHeld(i) /\ DeviceHeld(i) /\ Accounts(i) /\ KernelType
      /\ KernelCoherent /\ i # None /\ ProcessType /\ RouterDevices
  BY NoneAssumption, Zenon DEF Ledger, Inv, TypeOK
<1>2. Listening(i) /\ HoldsBridge(i)
  BY Zenon DEF Listening, HoldsBridge
<1>3. pc[i] = "dead"
  BY <1>1, Zenon DEF StagesAgree
<1>4. pid[i] \in Pid
  BY <1>1, <1>3, Zenon DEF StagesAgree
<1>5. ~helper[i]
  BY <1>1, Zenon DEF StagesAgree, Cleaning
<1>6. owner["router"][pid[i]] \in {i, None}
  BY <1>1, <1>2, Zenon DEF DeviceHeld
<1>7. rdev[pid[i]] \in {i, None} /\ (rdev[pid[i]] # None => routerUp)
  BY <1>1, <1>4, <1>6, Zenon DEF RouterDevices, Ledger
<1> QED
  BY <1>1, <1>2, <1>3, <1>4, <1>5, <1>6, <1>7, Zenon DEF BridgeHeld, Kind

LEMMA ListenerWakeLedger ==
  ASSUME NEW i \in Proc, Ledger, Inv', ListenerWake(i)
  PROVE  Ledger'
<1>1. Listening(i) /\ pid[i] \in Pid /\ "br" \in Kind
  BY Zenon DEF Ledger, Inv, StagesAgree, ListenerWake, Listening, Kind
<1>2. TapsKept(i)
  BY <1>1, CallsKeepTaps, Zenon DEF ListenerWake
<1>3. "remove_device" \in Cleaning /\ "remove_device" \notin Renamed
  BY Zenon DEF Cleaning, Renamed
<1> QED
  BY <1>1, <1>2, <1>3, ListenerMove, Zenon DEF ListenerWake, router

LEMMA RemoveDeviceLedger ==
  ASSUME NEW i \in Proc, Ledger, Inv', RemoveDevice(i)
  PROVE  Ledger'
<1>1. lpc[i] \in Cleaning /\ {"remove_if", "bridge_cleanup"} \subseteq Cleaning
  BY Zenon DEF RemoveDevice, Cleaning
<1>2. TapsKept(i)
  BY <1>1, CleaningFacts, CallsKeepTaps, Zenon DEF RemoveDevice
<1>3. CASE /\ CanRemoveDevice(pid[i]) /\ rdev' = [rdev EXCEPT ![pid[i]] = None]
           /\ ListenerGoto(i, "remove_if")
  <2>1. rdev[pid[i]] = i
    BY <1>1, <1>3, CleaningFacts, Zenon DEF CanRemoveDevice
  <2>2. \A q \in Pid : \/ rdev'[q] = rdev[q]
                       \/ rdev[q] = i /\ rdev'[q] = None /\ "remove_if" # "remove_device"
    <3>1. rdev'[pid[i]] = None /\ \A q \in Pid : q # pid[i] => rdev'[q] = rdev[q]
      <4>1. pid[i] \in Pid
        BY <1>1, CleaningFacts, Zenon
      <4>2. rdev \in [Pid -> Proc \cup {None}]
        BY Zenon DEF Ledger, Inv, TypeOK, ProcessType
      <4> QED
        BY <1>3, <4>1, <4>2, Zenon
    <3>2. "remove_if" # "remove_device"
      BY Zenon
    <3> QED
      BY <2>1, <3>1, <3>2, Zenon
  <2>3. "remove_if" \notin Renamed
    BY Zenon DEF Renamed
  <2> QED
    BY <1>1, <1>2, <1>3, <2>2, <2>3, CleaningFacts, ListenerMove, Zenon DEF RemoveDevice
<1>4. CASE /\ Fails("remove_device", CanRemoveDevice(pid[i])) /\ UNCHANGED rdev
           /\ ListenerGoto(i, "bridge_cleanup")
  <2>1. ~(RouterSafe /\ owner["router"][pid[i]] = i)
    <3> SUFFICES ASSUME RouterSafe, owner["router"][pid[i]] = i PROVE FALSE
      BY Zenon
    <3>1. Owns(i, "router")
      BY <1>1, CleaningFacts, Zenon DEF Owns
    <3>2. rdev[pid[i]] = i
      BY <1>1, <3>1, CleaningFacts, Zenon DEF Accounts, RouterKept, RemoveDevice
    <3>3. CanRemoveDevice(pid[i])
      BY <1>1, <3>2, CleaningFacts, Zenon DEF CanRemoveDevice
    <3> QED
      BY <1>4, <3>3, Zenon DEF Fails, RouterSafe
  <2> QED
    BY <1>1, <1>2, <1>4, <2>1, CleaningFacts, ListenerMove, Zenon DEF RemoveDevice
<1> QED
  BY <1>3, <1>4, Zenon DEF RemoveDevice

LEMMA RemoveIfLedger ==
  ASSUME NEW i \in Proc, Ledger, Inv', RemoveIf(i)
  PROVE  Ledger'
<1>1. lpc[i] \in Cleaning /\ "if_down" \in Cleaning /\ "if_down" \notin Renamed
  BY Zenon DEF RemoveIf, Cleaning, Renamed
<1>2. TapsKept(i)
  BY <1>1, CleaningFacts, CallsKeepTaps, Zenon DEF RemoveIf
<1> QED
  BY <1>1, <1>2, CleaningFacts, ListenerMove, Zenon DEF RemoveIf, router

LEMMA RouterTapDownLedger ==
  ASSUME NEW i \in Proc, Ledger, Inv', RouterTapDown(i)
  PROVE  Ledger'
<1>1. lpc[i] \in Cleaning /\ {"rename", "bridge_cleanup"} \subseteq Cleaning
  BY Zenon DEF RouterTapDown, Cleaning
<1>2. CASE if_down("router", pid[i]) /\ ListenerGoto(i, "rename")
  <2>1. owner["router"][pid[i]] = i
    BY <1>1, <1>2, CleaningFacts, Zenon DEF if_down, Exists
  <2>2. TapsKept(i)
    BY <1>1, <1>2, <2>1, CleaningFacts, CallsKeepTaps, Zenon
  <2>3. ~up'["router"][pid[i]]
    BY <1>1, <1>2, CleaningFacts, Zenon DEF if_down, KernelType
  <2>4. "rename" \notin Renamed
    BY Zenon DEF Renamed
  <2> QED
    BY <1>1, <1>2, <2>2, <2>3, <2>4, CleaningFacts, ListenerMove, Zenon DEF RouterTapDown, router
<1>3. CASE /\ Fails("if_down", Exists("router", pid[i]))
           /\ ListenerGoto(i, "bridge_cleanup") /\ UNCHANGED kernel
  <2>1. TapsKept(i)
    BY <1>1, <1>3, CleaningFacts, CallsKeepTaps, Zenon
  <2>2. ~(RouterSafe /\ owner["router"][pid[i]] = i)
    BY <1>1, <1>3, CleaningFacts, Zenon DEF Fails, Exists, RouterSafe
  <2> QED
    BY <1>1, <1>3, <2>1, <2>2, CleaningFacts, ListenerMove, Zenon DEF RouterTapDown, router
<1> QED
  BY <1>2, <1>3, Zenon DEF RouterTapDown

LEMMA BridgeCleanupLedger ==
  ASSUME NEW i \in Proc, Ledger, Inv', BridgeCleanup(i)
  PROVE  Ledger'
<1>1. lpc[i] \in Cleaning /\ lpc[i] \in Renamed
  BY Zenon DEF BridgeCleanup, Cleaning, Renamed
<1>2. TapsKept(i)
  BY <1>1, CleaningFacts, CallsKeepTaps, Zenon DEF BridgeCleanup
<1>3. BridgeSafe => owner'["br"][pid[i]] # i
  <2>1. CASE bridge_delete(pid[i])
    BY <1>1, <2>1, CleaningFacts, Zenon DEF bridge_delete, KernelType
  <2>2. CASE bridge_delete_failed(pid[i])
    BY <1>1, <2>2, CleaningFacts, Zenon DEF bridge_delete_failed, Fails, Exists, BridgeSafe
  <2> QED
    BY <2>1, <2>2, Zenon DEF BridgeCleanup
<1>4. RouterSafe /\ owner["router"][pid[i]] = i => owner["_dead"][pid[i]] \notin {i, None}
  BY <1>1, CleaningFacts, Zenon DEF Accounts, RouterKept, Owns
<1> QED
  BY <1>1, <1>2, <1>3, <1>4, CleaningFacts, ListenerMove, Zenon DEF BridgeCleanup, router

(* Holder h, one of i's processes, closes its files.                       *)
LEMMA CloseSteady ==
  ASSUME NEW i \in Proc, Ledger, NEW K, NEW h, h # "router", CloseFiles(K, {i}, h),
         pid' = pid, UNCHANGED router,
         \A j \in Proc \ {i} : pc'[j] = pc[j] /\ helper'[j] = helper[j] /\ lpc'[j] = lpc[j]
  PROVE  Steady(i)
<1>1. KernelType /\ Accounts(i) /\ "_dead" \in Kind
  BY Zenon DEF Ledger, Inv, TypeOK, Kind
<1>2. \A k \in Kind, q \in Pid :
        \/ owner'[k][q] \in {i, None}
        \/ owner'[k][q] = owner[k][q] /\ fds'[k][q] = fds[k][q] /\ up'[k][q] = up[k][q]
  <2> SUFFICES ASSUME NEW k \in Kind, NEW q \in Pid
               PROVE  \/ owner'[k][q] \in {i, None}
                      \/ owner'[k][q] = owner[k][q] /\ fds'[k][q] = fds[k][q]
                         /\ up'[k][q] = up[k][q]
    BY Zenon
  <2>1. CASE owner[k][q] = i
    BY <2>1, OwnerOrNone, Zenon
  <2>2. CASE owner[k][q] # i
    BY <1>1, <2>2, LocalClose DEF Same
  <2> QED
    BY <2>1, <2>2, Zenon
<1>3. ASSUME NEW q \in Pid PROVE owner'["_dead"][q] = owner["_dead"][q]
  <2>1. CASE owner["_dead"][q] = i
    <3>1. Owns(i, "_dead") /\ pid[i] = q
      BY <1>1, <2>1, Zenon DEF Accounts, NamedAfter, Owns
    <3>2. "router" \in fds["_dead"][q]
      BY <1>1, <3>1, Zenon DEF Accounts, DeadKept
    <3> QED
      BY <1>1, <3>2, Survives
  <2>2. CASE owner["_dead"][q] # i
    BY <1>1, <2>2, LocalClose DEF Same
  <2> QED
    BY <2>1, <2>2, Zenon
<1> QED
  BY <1>2, <1>3, Zenon DEF Steady, router

LEMMA CloseLedger ==
  ASSUME NEW i \in Proc, Ledger, Inv', NEW K, NEW h, h # "router", CloseFiles(K, {i}, h),
         pid' = pid, UNCHANGED router, pc[i] # "none", pc'[i] # "none",
         \A j \in Proc \ {i} : pc'[j] = pc[j] /\ helper'[j] = helper[j] /\ lpc'[j] = lpc[j],
         Alive(i)' \/ ~Alive(i) \/ (h = "vmm" /\ "client" \in K /\ "router" \in K),
         pc[i] = "listener_setup" => pc'[i] = "listener_setup" \/ ~HandoverSafe,
         helper'[i] \/ ~helper[i] \/ (h = "helper" /\ "client" \in K),
         \/ lpc'[i] = lpc[i]
         \/ /\ lpc[i] \in {"poll", "exiting"} \cup Cleaning /\ lpc'[i] = "exited"
            /\ h = "listener" /\ "client" \in K
            /\ "listener" \in MayFail \/ lpc[i] = "exiting",
         pc'[i] \in Made => pc[i] \in Made,
         BridgeKept(i)'
  PROVE  Ledger'
<1> DEFINE p == pid[i]
<1>1. /\ KernelType /\ Accounts(i) /\ p \in Pid /\ i # None
      /\ {"br", "client", "router", "_dead"} \subseteq Kind
  BY NoneAssumption, Zenon DEF Ledger, Inv, TypeOK, StagesAgree, Kind
<1>2. Steady(i)
  BY CloseSteady, Zenon
<1>3. \A k \in Kind, q \in Pid : owner'[k][q] = i => owner[k][q] = i
  BY <1>1, OwnerOrNone, Zenon
<1>4. \A k \in Kind : Owns(i, k)' => Owns(i, k)
  BY <1>1, <1>3, Zenon DEF Owns
<1>5. \A k \in Kind : owner[k][p] = i =>
        /\ fds'[k][p] = IF k \in K THEN fds[k][p] \ {h} ELSE fds[k][p]
        /\ up'[k][p] => up[k][p]
  BY <1>1, Zenon DEF CloseFiles
<1>6. NamedAfter(i)'
  BY <1>1, <1>3, Zenon DEF Accounts, NamedAfter
<1>7. ClientKept(i)'
  <2> SUFFICES ASSUME Owns(i, "client")' PROVE ClientKept(i)'
    BY Zenon DEF ClientKept
  <2>1. Owns(i, "client") /\ owner["client"][p] = i
    BY <1>1, <1>4, Zenon DEF Owns
  <2>2. fds'["client"][p] = IF "client" \in K THEN fds["client"][p] \ {h} ELSE fds["client"][p]
    BY <1>1, <1>5, <2>1, Zenon
  <2>3. /\ "vmm" \in fds["client"][p] => Alive(i)
        /\ "helper" \in fds["client"][p] => helper[i]
        /\ "listener" \in fds["client"][p] => lpc[i] \notin {"none", "exited"}
        /\ "router" \notin fds["client"][p]
    BY <1>1, <2>1, Zenon DEF Accounts, ClientKept
  <2>4. "vmm" \in fds'["client"][p] => Alive(i)'
    BY <2>2, <2>3, Zenon
  <2>5. "helper" \in fds'["client"][p] => helper'[i]
    BY <2>2, <2>3, Zenon
  <2>6. "listener" \in fds'["client"][p] => lpc'[i] \notin {"none", "exited"}
    BY <2>2, <2>3, Zenon
  <2>7. "router" \notin fds'["client"][p]
    BY <2>2, <2>3, Zenon
  <2> QED
    BY <2>4, <2>5, <2>6, <2>7, Zenon DEF ClientKept
<1>8. RouterKept(i)'
  <2> SUFFICES ASSUME Owns(i, "router")' PROVE RouterKept(i)'
    BY Zenon DEF RouterKept
  <2>1. Owns(i, "router") /\ owner["router"][p] = i
    BY <1>1, <1>4, Zenon DEF Owns
  <2>2. /\ fds'["router"][p] = IF "router" \in K THEN fds["router"][p] \ {h}
                                                ELSE fds["router"][p]
        /\ up'["router"][p] => up["router"][p]
    BY <1>1, <1>5, <2>1, Zenon
  <2>3. /\ fds["router"][p] \subseteq {"vmm", "router"}
        /\ "vmm" \in fds["router"][p] => Alive(i)
        /\ lpc[i] = "none" /\ "router" \in fds["router"][p] =>
             rdev[p] = i /\ (pc[i] = "listener_setup" \/ ~HandoverSafe)
        /\ pc[i] \in Made \/ lpc[i] # "none" => fds["router"][p] = {"router"}
        /\ pc[i] \in Made \/ lpc[i] \in {"poll", "remove_device"} => rdev[p] = i
        /\ RouterSafe /\ lpc[i] = "rename" => ~up["router"][p]
        /\ RouterSafe /\ lpc[i] \in Renamed => owner["_dead"][p] \notin {i, None}
    BY <1>1, <2>1, Zenon DEF Accounts, RouterKept
  <2>4. fds'["router"][p] \subseteq {"vmm", "router"}
    BY <2>2, <2>3, Zenon
  <2>5. pc'[i] \in Made \/ lpc'[i] # "none" => fds'["router"][p] = {"router"}
    <3>1. pc'[i] \in Made \/ lpc'[i] # "none" => fds["router"][p] = {"router"}
      BY <2>3, Zenon DEF Cleaning
    <3>2. {"router"} \ {h} = {"router"}
      BY Zenon
    <3> QED
      BY <2>2, <3>1, <3>2, Zenon
  <2>6. pc'[i] \in Made \/ lpc'[i] \in {"poll", "remove_device"} => rdev'[p] = i
    BY <2>3, Zenon DEF router
  <2>7. RouterSafe /\ lpc'[i] = "rename" => ~up'["router"][p]
    BY <2>2, <2>3, Zenon
  <2>8. RouterSafe /\ lpc'[i] \in Renamed => owner'["_dead"][p] \notin {i, None}
    <3>1. RouterSafe /\ lpc'[i] \in Renamed => lpc[i] \in Renamed
      BY Zenon DEF RouterSafe, Renamed
    <3> QED
      BY <1>1, <1>2, <2>3, <3>1, Zenon DEF Steady
  <2>9. "vmm" \in fds'["router"][p] => Alive(i)'
    <3>1. CASE h = "vmm" /\ "router" \in K
      BY <2>2, <3>1, Zenon
    <3>2. CASE Alive(i)' \/ ~Alive(i)
      <4>1. fds'["router"][p] \subseteq fds["router"][p]
        BY <2>2, Zenon
      <4> QED
        BY <2>3, <3>2, <4>1, Zenon
    <3> QED
      BY <3>1, <3>2, Zenon
  <2>10. lpc'[i] = "none" /\ "router" \in fds'["router"][p] =>
           rdev'[p] = i /\ (pc'[i] = "listener_setup" \/ ~HandoverSafe)
    <3> SUFFICES ASSUME lpc'[i] = "none", "router" \in fds'["router"][p]
                 PROVE  rdev'[p] = i /\ (pc'[i] = "listener_setup" \/ ~HandoverSafe)
      BY Zenon
    <3>1. lpc[i] = "none" /\ "router" \in fds["router"][p]
      BY <2>2, Zenon
    <3> QED
      BY <2>3, <3>1, Zenon DEF router
  <2> QED
    BY <2>4, <2>5, <2>6, <2>7, <2>8, <2>9, <2>10, Zenon DEF RouterKept, RouterSafe
<1>9. DeadKept(i)'
  <2> SUFFICES ASSUME Owns(i, "_dead")' PROVE DeadKept(i)'
    BY Zenon DEF DeadKept
  <2>1. fds["_dead"][p] = {"router"} /\ lpc[i] \in Renamed /\ owner["_dead"][p] = i
    BY <1>1, <1>4, Zenon DEF Owns, Accounts, DeadKept
  <2>2. fds'["_dead"][p] = {"router"}
    <3>1. {"router"} \ {h} = {"router"}
      BY Zenon
    <3> QED
      BY <1>1, <1>5, <2>1, <3>1, Zenon
  <2>3. lpc'[i] \in Renamed
    BY <2>1, Zenon DEF Renamed
  <2> QED
    BY <2>2, <2>3, Zenon DEF DeadKept
<1> QED
  BY <1>2, <1>6, <1>7, <1>8, <1>9, CombineAccounts, Zenon DEF Accounts, router

(* setup_tap and net_setup give up: start-vmm closes a tap it was setting  *)
(* up.                                                                     *)
LEMMA GiveUpLedger ==
  ASSUME NEW i \in Proc, Ledger, Inv', pc[i] \in Building \ {"listener_setup"}, NEW K,
         CloseFiles(K, {i}, "vmm"), Goto(i, "fail_bridge"),
         UNCHANGED <<pid, helper, lpc, router>>
  PROVE  Ledger'
<1>1. pc'[i] = "fail_bridge" /\ \A j \in Proc \ {i} : pc'[j] = pc[j]
  BY Zenon DEF Ledger, Inv, TypeOK, ProcessType, Goto
<1>2. pc[i] # "none" /\ "fail_bridge" \in Building /\ "fail_bridge" \notin Made
  BY Zenon DEF Building, Made, Running
<1>3. BridgeKept(i)'
  <2>1. lpc'[i] # "exited" /\ HoldsBridge(i)'
    BY <1>1, <1>2, BuildingFacts, Zenon DEF HoldsBridge
  <2> QED
    BY <2>1, Zenon DEF BridgeKept
<1>4. Alive(i)'
  BY <1>1, Zenon DEF Alive
<1>5. "vmm" # "router"
  BY Zenon
<1> QED
  BY <1>1, <1>2, <1>3, <1>4, <1>5, CloseLedger, Zenon

LEMMA TapAddIfLedger ==
  ASSUME NEW i \in Proc, Ledger, Inv', TapAddIf(i)
  PROVE  Ledger'
<1>1. {pc[i], "tap_up"} \subseteq Building \ {"listener_setup"}
  BY Zenon DEF TapAddIf, Building
<1>2. CASE bridge_add_if(pid[i], tap[i], pid[i]) /\ Goto(i, "tap_up")
  <2>1. TapsKept(i)
    BY <1>1, <1>2, BuildingFacts, CallsKeepTaps, Zenon
  <2> QED
    BY <1>1, <1>2, <2>1, SetupMove, Zenon DEF TapAddIf
<1>3. CASE CloseFiles({tap[i]}, {i}, "vmm") /\ Goto(i, "fail_bridge")
  BY <1>1, <1>3, GiveUpLedger, Zenon DEF TapAddIf
<1> QED
  BY <1>2, <1>3, Zenon DEF TapAddIf

LEMMA TapUpLedger ==
  ASSUME NEW i \in Proc, Ledger, Inv', TapUp(i)
  PROVE  Ledger'
<1>1. /\ pc[i] \in Building /\ pc[i] \in Setting \ {"tap_open"}
      /\ {pc[i], "tap_open", "add_net"} \subseteq Building \ {"listener_setup"}
  BY Zenon DEF TapUp, Building, Setting
<1>2. CASE if_up(tap[i], pid[i]) /\ (Goto(i, "tap_open") \/ Goto(i, "add_net"))
  <2>1. owner[tap[i]][pid[i]] = i
    BY <1>1, Zenon DEF Ledger, Inv, TapsHeld, HasTap
  <2>2. TapsKept(i)
    BY <1>1, <1>2, <2>1, BuildingFacts, CallsKeepTaps, Zenon
  <2> QED
    BY <1>1, <1>2, <2>2, SetupMove, Zenon DEF TapUp
<1>3. CASE CloseFiles({tap[i]}, {i}, "vmm") /\ Goto(i, "fail_bridge")
  BY <1>1, <1>3, GiveUpLedger, Zenon DEF TapUp
<1> QED
  BY <1>2, <1>3, Zenon DEF TapUp

(* HelperExit, Exit and ListenerExit: whoever leaves closes its files.     *)
LEMMA HelperExitLedger ==
  ASSUME NEW i \in Proc, Ledger, Inv', HelperExit(i)
  PROVE  Ledger'
<1>1. /\ pc[i] \in {"vmm", "dead"} /\ "client" \in Kind /\ Accounts(i)
      /\ ~helper'[i] /\ \A j \in Proc \ {i} : helper'[j] = helper[j]
  <2>1. ~helper'[i] /\ \A j \in Proc \ {i} : helper'[j] = helper[j]
    BY Zenon DEF Ledger, Inv, TypeOK, ProcessType, HelperExit
  <2> QED
    BY <2>1, Zenon DEF Ledger, Inv, StagesAgree, HelperExit, Kind
<1>2. pc[i] # "none" /\ pc'[i] # "none" /\ (Alive(i)' \/ ~Alive(i)) /\ lpc' = lpc
  BY <1>1, Zenon DEF HelperExit, Alive
<1>3. pid[i] \in Pid /\ KernelType
  BY <1>1, Zenon DEF Ledger, Inv, StagesAgree, TypeOK
<1>4. owner'["br"][pid[i]] = owner["br"][pid[i]]
  BY <1>3, BridgeSurvives, Zenon DEF HelperExit
<1>5. BridgeKept(i)'
  BY <1>1, <1>2, <1>4, Zenon DEF HelperExit, Accounts, BridgeKept, Owns, HoldsBridge, Listening
<1>6. "helper" # "router"
  BY Zenon
<1> QED
  BY <1>1, <1>2, <1>5, <1>6, CloseLedger, Zenon DEF HelperExit

LEMMA ExitLedger ==
  ASSUME NEW i \in Proc, Ledger, Inv', Exit(i)
  PROVE  Ledger'
<1>1. /\ pc'[i] = "dead" /\ \A j \in Proc \ {i} : pc'[j] = pc[j]
      /\ "client" \in Kind /\ Accounts(i) /\ StagesAgree(i) /\ KernelType
  BY Zenon DEF Ledger, Inv, TypeOK, ProcessType, Exit, Goto, Kind
<1>2. pc[i] # "none" /\ pc[i] # "dead" /\ "dead" \notin Made
  BY Zenon DEF Exit, Building, Made, Running
<1>3. pid[i] \in Pid
  BY <1>1, <1>2, Zenon DEF StagesAgree
<1>4. owner'["br"][pid[i]] = owner["br"][pid[i]]
  BY <1>1, <1>3, BridgeSurvives, Zenon DEF Exit
<1>5. BridgeKept(i)'
  <2>1. "listener" \notin MayFail => lpc[i] # "exited"
    BY <1>1, <1>2, Zenon DEF Accounts, BridgeKept
  <2>2. BridgeSafe /\ owner["br"][pid[i]] = i => Listening(i)
    <3> SUFFICES ASSUME BridgeSafe, owner["br"][pid[i]] = i PROVE Listening(i)
      BY Zenon
    <3>1. pc[i] \in {"exit", "vmm"} /\ lpc[i] # "exited"
      BY <2>1, Zenon DEF Exit, BridgeSafe
    <3>2. CASE pc[i] = "exit"
      <4>1. HoldsBridge(i)
        BY <1>1, <1>2, Zenon DEF Accounts, BridgeKept, Owns
      <4> QED
        BY <3>2, <4>1, Zenon DEF HoldsBridge, Building, Running
    <3>3. CASE pc[i] = "vmm"
      <4>1. lpc[i] = "poll"
        BY <1>1, <3>1, <3>3, Zenon DEF StagesAgree, Running
      <4> QED
        BY <4>1, Zenon DEF Listening
    <3> QED
      BY <3>1, <3>2, <3>3, Zenon
  <2> QED
    BY <1>4, <2>1, <2>2, Zenon DEF Exit, BridgeKept, Owns, HoldsBridge, Listening, BridgeSafe
<1>6. "vmm" # "router" /\ "router" \in Kind
  BY Zenon DEF Kind
<1>7. pc[i] = "listener_setup" => ~HandoverSafe
  BY Zenon DEF Exit, HandoverSafe
<1> QED
  BY <1>1, <1>2, <1>5, <1>6, <1>7, CloseLedger, Zenon DEF Exit

LEMMA ListenerExitLedger ==
  ASSUME NEW i \in Proc, Ledger, Inv', ListenerExit(i)
  PROVE  Ledger'
<1>1. /\ lpc'[i] = "exited" /\ \A j \in Proc \ {i} : lpc'[j] = lpc[j]
      /\ "client" \in Kind /\ Accounts(i) /\ StagesAgree(i) /\ KernelType
  BY Zenon DEF Ledger, Inv, TypeOK, ProcessType, ListenerExit, ListenerGoto, Kind
<1>2. lpc[i] \in {"poll", "exiting"} \cup Cleaning /\ lpc[i] # "none"
  BY Zenon DEF ListenerExit, Cleaning
<1>3. pc[i] # "none" /\ (Alive(i)' \/ ~Alive(i))
  BY <1>1, <1>2, Zenon DEF StagesAgree, ListenerExit, Alive
<1>4. pid[i] \in Pid
  BY <1>1, <1>3, Zenon DEF StagesAgree
<1>5. owner'["br"][pid[i]] = owner["br"][pid[i]]
  BY <1>1, <1>4, BridgeSurvives, Zenon DEF ListenerExit
<1>6. "listener" \notin MayFail =>
        lpc[i] = "exiting" /\ pc[i] = "dead" /\ ~helper[i] /\ ~HoldsBridge(i)
  <2> SUFFICES ASSUME "listener" \notin MayFail
               PROVE  lpc[i] = "exiting" /\ pc[i] = "dead" /\ ~helper[i] /\ ~HoldsBridge(i)
    BY Zenon
  <2>1. lpc[i] = "exiting"
    BY Zenon DEF ListenerExit
  <2>2. pc[i] = "dead" /\ ~helper[i]
    BY <1>1, <2>1, Zenon DEF StagesAgree
  <2> QED
    BY <2>1, <2>2, Zenon DEF HoldsBridge, Listening, Building, Running, Cleaning
<1>7. BridgeSafe => owner["br"][pid[i]] # i
  BY <1>1, <1>3, <1>6, Zenon DEF Accounts, BridgeKept, Owns, BridgeSafe
<1>8. BridgeKept(i)'
  BY <1>5, <1>6, <1>7, Zenon DEF ListenerExit, BridgeKept, Owns, BridgeSafe
<1>9. "listener" # "router"
  BY Zenon
<1> QED
  BY <1>1, <1>2, <1>3, <1>8, <1>9, CloseLedger, Zenon DEF ListenerExit

(* TapOpen: the new tap is open in start-vmm only.                         *)
LEMMA TapOpenLedger ==
  ASSUME NEW i \in Proc, Ledger, Inv', TapOpen(i)
  PROVE  Ledger'
<1> DEFINE p == pid[i]
           k == tap[i]
<1>1. pc[i] \in Building /\ {"tap_add_if", "fail_bridge"} \subseteq Building \ {"listener_setup"}
  BY Zenon DEF TapOpen, Building
<1>2. CASE tap_open(i, k, p) /\ Goto(i, "tap_add_if")
  <2>1. /\ p \in Pid /\ k \in {"client", "router"} /\ k \in Kind /\ KernelType
        /\ lpc[i] = "none" /\ Accounts(i) /\ i # None
    BY <1>1, BuildingFacts, Zenon
  <2>2. /\ \A l \in Kind, q \in Pid : l # k \/ q # p =>
             owner'[l][q] = owner[l][q] /\ fds'[l][q] = fds[l][q]
        /\ owner'[k][p] = i /\ fds'[k][p] = {"vmm"} /\ up' = up
    BY <1>2, <2>1, Zenon DEF tap_open, KernelType
  <2>3. pc'[i] = "tap_add_if" /\ \A j \in Proc \ {i} : pc'[j] = pc[j]
    BY <1>2, Zenon DEF Ledger, Inv, TypeOK, ProcessType, Goto
  <2>4. UNCHANGED <<pid, helper, lpc, routerUp, rdev>> /\ k # "_dead" /\ "_dead" \in Kind
    BY <2>1, Zenon DEF TapOpen, router, Kind
  <2>5. Steady(i)
    <3>1. \A l \in Kind, q \in Pid :
            \/ owner'[l][q] \in {i, None}
            \/ owner'[l][q] = owner[l][q] /\ fds'[l][q] = fds[l][q] /\ up'[l][q] = up[l][q]
      BY <2>2, Zenon
    <3> QED
      BY <2>2, <2>3, <2>4, <3>1, Zenon DEF Steady
  <2>6. NamedAfter(i)'
    <3>1. \A l \in Kind, q \in Pid : owner'[l][q] = i => owner[l][q] = i \/ q = p
      BY <2>2, Zenon
    <3> QED
      BY <2>1, <2>3, <2>4, <3>1, Zenon DEF Accounts, NamedAfter
  <2>7. BridgeKept(i)'
    BY <1>1, <2>1, <2>3, <2>4, Zenon DEF BridgeKept, HoldsBridge
  <2>8. ClientKept(i)'
    <3>1. "client" \in Kind /\ Alive(i)' /\ pc[i] # "none"
      BY <1>1, <2>3, Zenon DEF Kind, Alive, Building
    <3>2. CASE k = "client"
      <4>1. fds'["client"][pid'[i]] = {"vmm"}
        BY <2>2, <2>4, <3>2
      <4> QED
        BY <3>1, <4>1 DEF ClientKept
    <3>3. CASE k # "client"
      BY <2>1, <2>2, <2>4, <3>1, <3>3, Zenon DEF Accounts, ClientKept, Owns
    <3> QED
      BY <3>2, <3>3, Zenon
  <2>9. RouterKept(i)'
    <3>1. "router" \in Kind /\ "tap_add_if" \notin Made /\ pc[i] # "none"
      BY <1>1, Zenon DEF Kind, Made, Running, Building
    <3>2. (Owns(i, "router") => fds["router"][pid[i]] \subseteq {"vmm", "router"})'
      <4>1. CASE k = "router"
        BY <2>2, <2>4, <4>1, Zenon
      <4>2. CASE k # "router"
        <5>1. /\ fds'["router"][p] = fds["router"][p] /\ pid'[i] = p
              /\ owner'["router"][p] = owner["router"][p]
          BY <2>1, <2>2, <2>4, <3>1, <4>2, Zenon
        <5> QED
          BY <2>1, <3>1, <5>1, Zenon DEF Accounts, RouterKept, Owns
      <4> QED
        BY <4>1, <4>2, Zenon
    <3>3. Alive(i)'
      BY <2>3, Zenon DEF Alive
    <3>4. (Owns(i, "router") /\ "router" \in fds["router"][pid[i]] =>
             rdev[pid[i]] = i /\ ~HandoverSafe)'
      <4>1. CASE k = "router"
        <5>1. "router" \notin fds'["router"][pid'[i]]
          BY <2>2, <2>4, <4>1, Zenon
        <5> QED
          BY <5>1, Zenon
      <4>2. CASE k # "router"
        <5>1. /\ fds'["router"][p] = fds["router"][p] /\ pid'[i] = p /\ rdev' = rdev
              /\ owner'["router"][p] = owner["router"][p] /\ pc[i] # "listener_setup"
          BY <2>1, <2>2, <2>4, <3>1, <4>2, Zenon DEF TapOpen
        <5> QED
          BY <2>1, <3>1, <5>1, Zenon DEF Accounts, RouterKept, Owns
      <4> QED
        BY <4>1, <4>2, Zenon
    <3> QED
      BY <2>1, <2>3, <2>4, <3>1, <3>2, <3>3, <3>4, Zenon DEF RouterKept, Renamed
  <2>10. DeadKept(i)'
    <3>1. pc[i] # "none"
      BY <1>1, Zenon DEF Building
    <3> QED
      BY <2>1, <2>2, <2>4, <3>1, Zenon DEF Accounts, DeadKept, Owns
  <2> QED
    BY <2>4, <2>5, <2>6, <2>7, <2>8, <2>9, <2>10, CombineAccounts, Zenon DEF Accounts
<1>3. CASE Goto(i, "fail_bridge") /\ UNCHANGED kernel
  <2>1. TapsKept(i)
    BY <1>1, <1>3, BuildingFacts, CallsKeepTaps, Zenon
  <2> QED
    BY <1>1, <1>3, <2>1, SetupMove, Zenon DEF TapOpen
<1> QED
  BY <1>2, <1>3, Zenon DEF TapOpen

(* AddNet: the router's file of the tap is the only one left.              *)
LEMMA AddNetLedger ==
  ASSUME NEW i \in Proc, Ledger, Inv', AddNet(i)
  PROVE  Ledger'
<1> DEFINE p == pid[i]
<1>1. pc[i] \in Building \ {"listener_setup"} /\ pc[i] # "none"
  BY Zenon DEF AddNet, Building
<1>2. CASE /\ ch_add_net(i, p)
           /\ \/ Goto(i, "listener_setup")
              \/ "add_net_reply" \in MayFail /\ Goto(i, "fail_bridge")
  <2>1. /\ p \in Pid /\ KernelType /\ lpc[i] = "none" /\ Accounts(i) /\ i # None
        /\ {"client", "router", "_dead"} \subseteq Kind
    BY <1>1, BuildingFacts, Zenon DEF Kind
  <2>2. owner["router"][p] = i
    BY Zenon DEF AddNet, Ledger, Inv, TapsHeld, Linked
  <2>3. fds["router"][p] \subseteq {"vmm", "router"}
    BY <1>1, <2>1, <2>2, Zenon DEF Accounts, RouterKept, Owns
  <2>4. /\ \A l \in Kind, q \in Pid : l # "router" \/ q # p => fds'[l][q] = fds[l][q]
        /\ fds'["router"][p] = (fds["router"][p] \ {"vmm"}) \cup {"router"}
        /\ UNCHANGED <<owner, up>>
    BY <1>2, <2>1, Zenon DEF ch_add_net, KernelType
  <2>5. fds'["router"][p] = {"router"}
    BY <2>3, <2>4, Zenon
  <2>6. /\ pc'[i] \in {"listener_setup", "fail_bridge"}
        /\ pc'[i] = "listener_setup" \/ "add_net_reply" \in MayFail
        /\ \A j \in Proc \ {i} : pc'[j] = pc[j]
    BY <1>2, Zenon DEF Ledger, Inv, TypeOK, ProcessType, Goto
  <2>7. UNCHANGED <<pid, helper, lpc, routerUp>> /\ routerUp /\ rdev[p] = None
    BY <1>2, Zenon DEF AddNet, ch_add_net, CanAddNet
  <2>8. rdev'[p] = i /\ \A q \in Pid : q # p => rdev'[q] = rdev[q]
    BY <1>2, <2>1, Zenon DEF ch_add_net, Ledger, Inv, TypeOK, ProcessType
  <2>9. Steady(i)
    <3>1. \A l \in Kind, q \in Pid :
            \/ owner'[l][q] \in {i, None}
            \/ owner'[l][q] = owner[l][q] /\ fds'[l][q] = fds[l][q] /\ up'[l][q] = up[l][q]
      BY <2>2, <2>4, Zenon
    <3>2. \A q \in Pid : rdev'[q] = rdev[q] \/ rdev[q] \in {i, None}
      BY <2>7, <2>8, Zenon
    <3> QED
      BY <2>4, <2>6, <2>7, <3>1, <3>2, Zenon DEF Steady
  <2>10. NamedAfter(i)'
    <3>1. \A l \in Kind, q \in Pid : owner[l][q] = i => pid[i] = q
      BY <2>1, Zenon DEF Accounts, NamedAfter
    <3>2. pc'[i] # "none" /\ pid'[i] = pid[i] /\ owner' = owner
      BY <2>4, <2>6, <2>7, Zenon
    <3> QED
      BY <3>1, <3>2, Zenon DEF NamedAfter
  <2>11. BridgeKept(i)'
    <3>1. pc'[i] \in Building
      BY <2>6, Zenon DEF Building
    <3> QED
      BY <2>1, <2>7, <3>1, Zenon DEF BridgeKept, HoldsBridge
  <2>12. ClientKept(i)'
    <3>1. Alive(i)'
      BY <2>6, Zenon DEF Alive
    <3>2. fds'["client"][p] = fds["client"][p] /\ owner' = owner
      BY <2>1, <2>4, Zenon
    <3> QED
      BY <1>1, <2>1, <2>7, <3>1, <3>2, Zenon DEF Accounts, ClientKept, Owns
  <2>13. RouterKept(i)'
    <3>1. pc'[i] = "listener_setup" \/ ~HandoverSafe
      BY <2>6, Zenon DEF HandoverSafe
    <3>2. "vmm" \notin fds'["router"][p] /\ {"router"} \subseteq {"vmm", "router"}
      BY <2>5, Zenon
    <3> QED
      BY <2>1, <2>5, <2>7, <2>8, <3>1, <3>2, Zenon DEF RouterKept, Renamed
  <2>14. DeadKept(i)'
    <3>1. fds'["_dead"][p] = fds["_dead"][p] /\ owner' = owner
      BY <2>1, <2>4, Zenon
    <3> QED
      BY <1>1, <2>1, <2>7, <3>1, Zenon DEF Accounts, DeadKept, Owns
  <2> QED
    BY <2>7, <2>9, <2>10, <2>11, <2>12, <2>13, <2>14, CombineAccounts, Zenon DEF Accounts
<1>3. CASE CloseFiles({"router"}, {i}, "vmm") /\ Goto(i, "fail_bridge") /\ UNCHANGED router
  BY <1>1, <1>3, GiveUpLedger, Zenon DEF AddNet
<1> QED
  BY <1>2, <1>3, Zenon DEF AddNet, Fails

(* A fork of start-vmm inherits the client tap.                            *)
LEMMA InheritLedger ==
  ASSUME NEW i \in Proc, Ledger, Inv', NEW h \in {"listener", "helper"},
         pc[i] \in {"listener_setup", "fork"}, pc'[i] \in Running,
         fds' = [fds EXCEPT !["client"][pid[i]] = @ \cup {h}],
         UNCHANGED <<owner, up, pid, router>>,
         \A j \in Proc \ {i} : pc'[j] = pc[j] /\ helper'[j] = helper[j] /\ lpc'[j] = lpc[j],
         h = "helper" => helper'[i],
         helper[i] => helper'[i],
         h = "listener" => lpc'[i] = "poll",
         lpc'[i] = lpc[i] \/ (lpc[i] = "none" /\ lpc'[i] = "poll")
  PROVE  Ledger'
<1> DEFINE p == pid[i]
<1>1. /\ pc[i] # "none" /\ pc[i] # "dead" /\ pc[i] \in Made /\ pc'[i] \in Made
      /\ pc'[i] # "none" /\ Alive(i)'
  BY Zenon DEF Made, Running, Alive
<1>2. /\ p \in Pid /\ KernelType /\ Accounts(i) /\ HasTap(i, "client")
      /\ {"client", "router", "_dead"} \subseteq Kind
  BY <1>1, Zenon DEF Ledger, Inv, StagesAgree, TypeOK, TapsHeld, ClientDone, Kind
<1>3. /\ \A l \in Kind, q \in Pid : l # "client" \/ q # p => fds'[l][q] = fds[l][q]
      /\ fds'["client"][p] = fds["client"][p] \cup {h} /\ owner["client"][p] = i
  BY <1>2, Zenon DEF KernelType, HasTap
<1>4. lpc[i] \in {"none", "poll", "exited"} /\ (lpc[i] = "exited" => "listener" \in MayFail)
  <2>1. lpc[i] \in {"none", "poll", "exited"}
    BY Zenon DEF Ledger, Inv, StagesAgree, Building, Running
  <2> QED
    BY <1>1, <1>2, <2>1, Zenon DEF Accounts, BridgeKept
<1>5. Steady(i)
  <2>1. \A l \in Kind, q \in Pid :
          \/ owner'[l][q] \in {i, None}
          \/ owner'[l][q] = owner[l][q] /\ fds'[l][q] = fds[l][q] /\ up'[l][q] = up[l][q]
    BY <1>3, Zenon
  <2> QED
    BY <2>1, Zenon DEF Steady, router
<1>6. NamedAfter(i)'
  BY <1>1, <1>2, Zenon DEF Accounts, NamedAfter
<1>7. BridgeKept(i)'
  BY <1>4, Zenon DEF BridgeKept, HoldsBridge
<1>8. ClientKept(i)'
  <2>1. /\ "helper" \in fds["client"][p] => helper[i]
        /\ "listener" \in fds["client"][p] => lpc[i] \notin {"none", "exited"}
        /\ "router" \notin fds["client"][p]
    BY <1>1, <1>2, <1>3, Zenon DEF Accounts, ClientKept, Owns
  <2>2. "router" \notin fds'["client"][p]
    BY <1>3, <2>1, Zenon
  <2>3. "helper" \in fds'["client"][p] => helper'[i]
    BY <1>3, <2>1, Zenon
  <2>4. "listener" \in fds'["client"][p] => lpc'[i] \notin {"none", "exited"}
    BY <1>3, <2>1, Zenon
  <2> QED
    BY <1>1, <2>2, <2>3, <2>4, Zenon DEF ClientKept
<1>9. RouterKept(i)'
  <2> SUFFICES ASSUME Owns(i, "router")' PROVE RouterKept(i)'
    BY Zenon DEF RouterKept
  <2>1. fds["router"][p] = {"router"} /\ rdev[p] = i
    BY <1>1, <1>2, Zenon DEF Accounts, RouterKept, Owns
  <2>2. fds'["router"][p] = {"router"} /\ rdev'[p] = i
    <3>1. fds'["router"][p] = fds["router"][p]
      BY <1>2, <1>3
    <3> QED
      BY <2>1, <3>1, Zenon DEF router
  <2>3. {"router"} \subseteq {"vmm", "router"}
    BY Zenon
  <2>4. lpc'[i] # "none"
    BY Zenon DEF Inv, StagesAgree, Running
  <2> QED
    BY <1>1, <1>4, <2>2, <2>3, <2>4, Zenon DEF RouterKept, RouterSafe, Renamed
<1>10. DeadKept(i)'
  <2>1. Owns(i, "_dead")' =>
          fds["_dead"][p] = {"router"} /\ lpc[i] \in Renamed /\ lpc'[i] = lpc[i]
    BY <1>1, <1>2, Zenon DEF Accounts, DeadKept, Owns, Renamed
  <2>2. fds'["_dead"][p] = fds["_dead"][p]
    BY <1>2, <1>3
  <2> QED
    BY <2>1, <2>2, Zenon DEF DeadKept
<1> QED
  BY <1>5, <1>6, <1>7, <1>8, <1>9, <1>10, CombineAccounts, Zenon DEF Accounts, router

LEMMA ListenerSetupLedger ==
  ASSUME NEW i \in Proc, Ledger, Inv', ListenerSetup(i)
  PROVE  Ledger'
<1>1. pc[i] \in Building /\ "fail_bridge" \in Building \ {"listener_setup"} /\ ProcessType
  BY Zenon DEF ListenerSetup, Building, Ledger, Inv, TypeOK
<1>2. CASE /\ lpc' = [lpc EXCEPT ![i] = "poll"] /\ Goto(i, "fork")
           /\ fds' = [fds EXCEPT !["client"][pid[i]] = @ \cup {"listener"}]
  <2>1. /\ pc'[i] = "fork" /\ lpc'[i] = "poll" /\ lpc[i] = "none" /\ helper' = helper
        /\ \A j \in Proc \ {i} : pc'[j] = pc[j] /\ lpc'[j] = lpc[j]
    <3>1. lpc[i] = "none" /\ helper' = helper
      BY <1>1, BuildingFacts, Zenon DEF ListenerSetup
    <3>2. pc'[i] = "fork" /\ \A j \in Proc \ {i} : pc'[j] = pc[j]
      BY <1>1, <1>2, Zenon DEF Goto, ProcessType
    <3>3. lpc'[i] = "poll" /\ \A j \in Proc \ {i} : lpc'[j] = lpc[j]
      BY <1>1, <1>2, Zenon DEF ProcessType
    <3> QED
      BY <3>1, <3>2, <3>3, Zenon
  <2>2. "fork" \in Running /\ "listener" # "helper"
    BY Zenon DEF Running
  <2> QED
    BY <1>2, <2>1, <2>2, InheritLedger, Zenon DEF ListenerSetup
<1>3. CASE "fork" \in MayFail /\ Goto(i, "fail_bridge") /\ UNCHANGED <<lpc, fds>>
  <2>1. TapsKept(i)
    BY <1>1, <1>3, BuildingFacts, CallsKeepTaps, Zenon DEF ListenerSetup, kernel
  <2>2. ~HandoverSafe
    BY <1>3, Zenon DEF HandoverSafe
  <2> QED
    BY <1>1, <1>3, <2>1, <2>2, SetupMove, Zenon DEF ListenerSetup
<1> QED
  BY <1>2, <1>3, Zenon DEF ListenerSetup, Fails

LEMMA ForkLedger ==
  ASSUME NEW i \in Proc, Ledger, Inv', Fork(i)
  PROVE  Ledger'
<1>1. ProcessType /\ StagesAgree(i) /\ Accounts(i) /\ "br" \in Kind
  BY Zenon DEF Ledger, Inv, TypeOK, Kind
<1>2. CASE /\ helper' = [helper EXCEPT ![i] = TRUE] /\ Goto(i, "vmm")
           /\ fds' = [fds EXCEPT !["client"][pid[i]] = @ \cup {"helper"}]
  <2>1. /\ pc'[i] = "vmm" /\ helper'[i] /\ lpc' = lpc
        /\ \A j \in Proc \ {i} : pc'[j] = pc[j] /\ helper'[j] = helper[j]
    BY <1>1, <1>2, Zenon DEF Fork, Goto, ProcessType
  <2>2. "vmm" \in Running /\ "listener" # "helper"
    BY Zenon DEF Running
  <2> QED
    BY <1>2, <2>1, <2>2, InheritLedger, Zenon DEF Fork
<1>3. CASE Goto(i, "exit") /\ UNCHANGED <<helper, fds>>
  <2>1. pid[i] \in Pid /\ lpc[i] \in {"poll", "exited"}
    BY <1>1, Zenon DEF Fork, StagesAgree, Running
  <2>2. TapsKept(i)
    BY <1>1, <1>3, <2>1, CallsKeepTaps, Zenon DEF Fork, kernel
  <2>3. BridgeSafe => Listening(i)
    BY <1>1, <2>1, Zenon DEF Fork, Accounts, BridgeKept, BridgeSafe, Listening
  <2> QED
    BY <1>3, <2>2, <2>3, SetupMove, Zenon DEF Fork
<1> QED
  BY <1>2, <1>3, Zenon DEF Fork

(* RouterTapRename: the router tap of i becomes its dead tap.              *)
LEMMA RouterTapRenameLedger ==
  ASSUME NEW i \in Proc, Ledger, Inv', RouterTapRename(i)
  PROVE  Ledger'
<1> DEFINE p == pid[i]
<1>1. lpc[i] \in Cleaning /\ "bridge_cleanup" \in Cleaning /\ lpc[i] \notin Renamed
  BY Zenon DEF RouterTapRename, Cleaning, Renamed
<1>2. /\ p \in Pid /\ pc[i] = "dead" /\ owner["router"][p] \in {i, None} /\ KernelType
      /\ Accounts(i) /\ i # None /\ {"br", "client", "router", "_dead"} \subseteq Kind
  BY <1>1, CleaningFacts, Zenon
<1>3. CASE if_rename("router", "_dead", p)
  <2>1. owner["router"][p] = i /\ owner["_dead"][p] = None
    BY <1>2, <1>3, Zenon DEF if_rename, CanRename, Exists
  <2>2. fds["router"][p] = {"router"}
    BY <1>2, <2>1, Zenon DEF RouterTapRename, Accounts, RouterKept, Owns
  <2>3. /\ \A l \in Kind, q \in Pid : l \notin {"router", "_dead"} \/ q # p =>
             /\ owner'[l][q] = owner[l][q] /\ fds'[l][q] = fds[l][q]
             /\ up'[l][q] = up[l][q]
        /\ owner'["_dead"][p] = owner["router"][p] /\ owner'["router"][p] = None
        /\ fds'["_dead"][p] = fds["router"][p]
    BY <1>2, <1>3, Zenon DEF if_rename, KernelType, Kind
  <2>4. lpc'[i] = "bridge_cleanup" /\ \A j \in Proc \ {i} : lpc'[j] = lpc[j]
    BY Zenon DEF RouterTapRename, ListenerGoto, Ledger, Inv, TypeOK, ProcessType
  <2>5. UNCHANGED <<pid, pc, helper, routerUp, rdev>>
    BY Zenon DEF RouterTapRename, router
  <2>6. Steady(i)
    <3>1. \A l \in Kind, q \in Pid :
            \/ owner'[l][q] \in {i, None}
            \/ owner'[l][q] = owner[l][q] /\ fds'[l][q] = fds[l][q] /\ up'[l][q] = up[l][q]
      BY <2>1, <2>3, Zenon
    <3>2. \A q \in Pid : owner["_dead"][q] # None => owner'["_dead"][q] = owner["_dead"][q]
      BY <1>2, <2>1, <2>3, Zenon
    <3> QED
      BY <2>4, <2>5, <3>1, <3>2, Zenon DEF Steady
  <2>7. NamedAfter(i)'
    <3>1. \A l \in Kind, q \in Pid : owner'[l][q] = i => owner[l][q] = i \/ q = p
      BY <2>3, Zenon
    <3> QED
      BY <1>2, <2>5, <3>1, Zenon DEF Accounts, NamedAfter
  <2>8. BridgeKept(i)'
    BY <1>1, <2>4, Zenon DEF BridgeKept, HoldsBridge, Listening
  <2>9. ClientKept(i)'
    <3>1. owner'["client"][p] = owner["client"][p] /\ fds'["client"][p] = fds["client"][p]
      BY <1>2, <2>3, Zenon
    <3> QED
      BY <1>2, <2>4, <2>5, <3>1, Zenon DEF Accounts, ClientKept, Owns, Alive, RouterTapRename
  <2>10. RouterKept(i)'
    BY <1>2, <2>3, <2>5, Zenon DEF RouterKept, Owns
  <2>11. DeadKept(i)'
    BY <2>2, <2>3, <2>4, <2>5, Zenon DEF DeadKept, Renamed
  <2> QED
    BY <2>5, <2>6, <2>7, <2>8, <2>9, <2>10, <2>11, CombineAccounts, Zenon DEF Accounts
<1>4. CASE /\ Fails("if_rename", CanRename("router", "_dead", p)) /\ UNCHANGED kernel
  <2>1. TapsKept(i)
    BY <1>2, <1>4, CallsKeepTaps, Zenon
  <2>2. RouterSafe /\ owner["router"][p] = i => owner["_dead"][p] \notin {i, None}
    <3> SUFFICES ASSUME RouterSafe, owner["router"][p] = i
                 PROVE  owner["_dead"][p] \notin {i, None}
      BY Zenon
    <3>1. ~up["router"][p]
      BY <1>2, Zenon DEF RouterTapRename, Accounts, RouterKept, Owns
    <3>2. owner["_dead"][p] # None
      BY <1>2, <1>4, <3>1, Zenon DEF Fails, CanRename, Exists, RouterSafe
    <3>3. owner["_dead"][p] # i
      BY <1>1, <1>2, Zenon DEF Accounts, DeadKept, Owns
    <3> QED
      BY <3>2, <3>3, Zenon
  <2> QED
    BY <1>1, <2>1, <2>2, CleaningFacts, ListenerMove, Zenon DEF RouterTapRename, router
<1> QED
  BY <1>3, <1>4, Zenon DEF RouterTapRename

(* Start: the incarnation has made nothing.                                *)
LEMMA StartLedger ==
  ASSUME NEW i \in Proc, NEW p \in Pid, Ledger, Inv', Start(i, p)
  PROVE  Ledger'
<1>1. Accounts(i) /\ StagesAgree(i) /\ ProcessType
  BY Zenon DEF Ledger, Inv, TypeOK
<1>2. \A k \in Kind, q \in Pid : owner[k][q] # i
  BY <1>1, Zenon DEF Start, Accounts, NamedAfter
<1>3. /\ pid'[i] = p /\ pc'[i] = "bridge_add" /\ UNCHANGED <<kernel, helper, lpc, router>>
      /\ \A j \in Proc \ {i} : pid'[j] = pid[j] /\ pc'[j] = pc[j]
  BY <1>1, Zenon DEF Start, Goto, ProcessType
<1>4. Steady(i)
  BY <1>3, Zenon DEF Steady, kernel, router
<1>5. \A k \in Kind : ~Owns(i, k)'
  BY <1>2, <1>3, Zenon DEF Owns, kernel
<1>6. lpc'[i] = "none"
  BY <1>1, <1>3, Zenon DEF Start, StagesAgree
<1>7. Accounts(i)'
  BY <1>2, <1>3, <1>5, <1>6, Zenon DEF Accounts, NamedAfter, BridgeKept, ClientKept, RouterKept,
     DeadKept, Kind, kernel
<1> QED
  BY <1>3, <1>4, <1>7, CombineAccounts, Zenon DEF router

(* RouterExit: the taps that only the router had open go with it.          *)
LEMMA RouterExitLedger ==
  ASSUME Ledger, Inv', RouterExit
  PROVE  Ledger'
<1>1. ASSUME NEW j \in Proc PROVE Accounts(j)'
  <2>1. /\ KernelType /\ Accounts(j) /\ j # None /\ (pc[j] # "none" => pid[j] \in Pid)
        /\ {"br", "client", "router", "_dead"} \subseteq Kind
    BY NoneAssumption, Zenon DEF Ledger, Inv, TypeOK, StagesAgree, Kind
  <2>2. /\ CloseFiles(Kind, Proc, "router") /\ pid' = pid /\ pc' = pc /\ helper' = helper
        /\ lpc' = lpc
    BY Zenon DEF RouterExit, processes
  <2>3. \A k \in Kind, q \in Pid : owner'[k][q] = j =>
          /\ owner[k][q] = j /\ fds'[k][q] = fds[k][q] \ {"router"}
          /\ k = "br" \/ ~(fds[k][q] \subseteq {"router"})
    <3> SUFFICES ASSUME NEW k \in Kind, NEW q \in Pid, owner'[k][q] = j
                 PROVE  /\ owner[k][q] = j /\ fds'[k][q] = fds[k][q] \ {"router"}
                        /\ k = "br" \/ ~(fds[k][q] \subseteq {"router"})
      BY Zenon
    <3>1. ~Vanishes(Kind, Proc, "router", k, q) /\ owner[k][q] = j
      BY <2>1, <2>2, Zenon DEF CloseFiles
    <3> QED
      BY <2>2, <3>1, Zenon DEF CloseFiles, Vanishes
  <2>4. \A k \in Kind : Owns(j, k)' =>
          /\ Owns(j, k) /\ fds'[k][pid[j]] = fds[k][pid[j]] \ {"router"}
          /\ k = "br" \/ ~(fds[k][pid[j]] \subseteq {"router"})
    BY <2>1, <2>2, <2>3, Zenon DEF Owns
  <2>5. NamedAfter(j)'
    BY <2>1, <2>2, <2>3, Zenon DEF Accounts, NamedAfter
  <2>6. BridgeKept(j)'
    BY <2>1, <2>2, <2>4, Zenon DEF Accounts, BridgeKept, HoldsBridge, Listening
  <2>7. ClientKept(j)'
    BY <2>1, <2>2, <2>4, Zenon DEF Accounts, ClientKept, Alive
  <2>8. RouterKept(j)'
    <3> SUFFICES ASSUME Owns(j, "router")' PROVE RouterKept(j)'
      BY Zenon DEF RouterKept
    <3>1. fds'["router"][pid[j]] \subseteq {"vmm", "router"}
      BY <2>1, <2>4, Zenon DEF Accounts, RouterKept
    <3>2. pc[j] \notin Made /\ lpc[j] = "none"
      BY <2>1, <2>4, Zenon DEF Accounts, RouterKept
    <3>3. "router" \notin fds'["router"][pid[j]]
      BY <2>1, <2>4, Zenon
    <3>4. "vmm" \in fds'["router"][pid[j]] => Alive(j)'
      BY <2>1, <2>2, <2>4, Zenon DEF Accounts, RouterKept, Alive
    <3> QED
      BY <2>2, <3>1, <3>2, <3>3, <3>4, Zenon DEF RouterKept, Renamed
  <2>9. DeadKept(j)'
    BY <2>1, <2>4, Zenon DEF Accounts, DeadKept
  <2> QED
    BY <2>5, <2>6, <2>7, <2>8, <2>9, Zenon DEF Accounts
<1>2. \A q \in Pid : rdev'[q] = None
  BY Zenon DEF RouterExit
<1> QED
  BY <1>1, <1>2, Zenon DEF Ledger

(* RouterStart, and a step that changes nothing.                           *)
LEMMA SameLedger ==
  ASSUME Ledger, Inv', UNCHANGED <<kernel, processes, rdev>>, routerUp => routerUp'
  PROVE  Ledger'
<1>1. ASSUME NEW j \in Proc PROVE Accounts(j)'
  <2> USE DEF kernel, processes
  <2>1. Accounts(j) /\ \A k \in Kind : Owns(j, k)' <=> Owns(j, k)
    BY Zenon DEF Ledger, Owns
  <2>2. {"br", "client", "router", "_dead"} \subseteq Kind
    BY Zenon DEF Kind
  <2>3. NamedAfter(j)' /\ BridgeKept(j)'
    BY <2>1, <2>2, Zenon DEF Accounts, NamedAfter, BridgeKept, HoldsBridge, Listening
  <2>4. ClientKept(j)' /\ DeadKept(j)'
    BY <2>1, <2>2, Zenon DEF Accounts, ClientKept, DeadKept, Alive
  <2>5. RouterKept(j)'
    BY <2>1, <2>2, Zenon DEF Accounts, RouterKept, Alive
  <2> QED
    BY <2>3, <2>4, <2>5, Zenon DEF Accounts
<1> QED
  BY <1>1, Zenon DEF Ledger

LEMMA InitLedger == Init => Ledger
<1> SUFFICES ASSUME Init PROVE Ledger
  BY Zenon
<1>1. Inv
  BY InitInv, Zenon
<1>2. \A i \in Proc : pc[i] = "none" /\ lpc[i] = "none" /\ \A k \in Kind, p \in Pid : owner[k][p] # i
  BY NoneAssumption, Zenon DEF Init, KernelInit
<1>3. \A p \in Pid : rdev[p] = None
  BY Zenon DEF Init
<1>4. \A i \in Proc : Accounts(i)
  BY <1>2, Zenon DEF Accounts, NamedAfter, BridgeKept, ClientKept, RouterKept, DeadKept, Owns
<1> QED
  BY <1>1, <1>3, <1>4, Zenon DEF Ledger

LEMMA NextLedger == Ledger /\ [Next]_vars => Ledger'
<1> SUFFICES ASSUME Ledger, [Next]_vars PROVE Ledger'
  BY Zenon
<1>1. Inv'
  BY NextInv, Zenon DEF Ledger
<1>2. ASSUME NEW i \in Proc, Setup(i) PROVE Ledger'
  BY <1>1, <1>2, BridgeAddLedger, BridgeUpLedger, TapOpenLedger, TapAddIfLedger, TapUpLedger,
     AddNetLedger, ListenerSetupLedger, FailBridgeLedger, ForkLedger, Zenon DEF Setup
<1>3. ASSUME NEW i \in Proc, Listener(i) PROVE Ledger'
  BY <1>1, <1>3, ListenerWakeLedger, RemoveDeviceLedger, RemoveIfLedger, RouterTapDownLedger,
     RouterTapRenameLedger, BridgeCleanupLedger, ListenerExitLedger, Zenon DEF Listener
<1>4. ASSUME RouterStart \/ UNCHANGED vars PROVE Ledger'
  <2>1. UNCHANGED <<kernel, processes, rdev>> /\ (routerUp => routerUp')
    BY <1>4 DEF RouterStart, vars, router, kernel, processes
  <2> QED
    BY <1>1, <2>1, SameLedger, Zenon
<1> QED
  BY <1>1, <1>2, <1>3, <1>4, StartLedger, ExitLedger, HelperExitLedger, RouterExitLedger, Zenon
     DEF Next

(* Ledger is inductive: whatever fails or is killed, every interface that  *)
(* net.c has made is named after the pid of its incarnation and accounted  *)
(* for by one of its processes, by the router or by a known fault.         *)
THEOREM LedgerKept == Spec => []Ledger
BY InitLedger, NextLedger, PTL DEF Spec

LEMMA LedgerLeaksNothing == Ledger => NothingLeaks
<1> SUFFICES ASSUME Ledger, NEW i \in Proc, Finished(i)
             PROVE  /\ owner["client"][pid[i]] # i
                    /\ BridgeSafe => owner["br"][pid[i]] # i
                    /\ owner["router"][pid[i]] = i =>
                         /\ lpc[i] = "none" => rdev[pid[i]] = i /\ ~HandoverSafe
                         /\ lpc[i] = "exited" /\ RouterSafe =>
                              owner["_dead"][pid[i]] \notin {i, None}
  BY Zenon DEF NothingLeaks
<1>1. /\ Accounts(i) /\ i # None /\ pc[i] = "dead" /\ pid[i] \in Pid /\ KernelType
      /\ KernelCoherent /\ "client" \in Kind
  BY NoneAssumption, Zenon DEF Finished, Ledger, Inv, TypeOK, StagesAgree, Kind
<1>2. owner["client"][pid[i]] # i
  <2> SUFFICES ASSUME owner["client"][pid[i]] = i PROVE FALSE
    BY Zenon
  <2>1. fds["client"][pid[i]] # {} /\ fds["client"][pid[i]] \subseteq Holder
    <3>1. "client" # "br"
      BY Zenon
    <3>2. fds["client"][pid[i]] # {}
      BY <1>1, <3>1, Zenon DEF KernelCoherent
    <3> QED
      BY <1>1, <3>2, Zenon DEF KernelType
  <2>2. fds["client"][pid[i]] \cap Holder = {}
    BY <1>1, Zenon DEF Finished, Accounts, ClientKept, Owns, Alive, Holder
  <2> QED
    BY <2>1, <2>2, Zenon
<1>3. BridgeSafe => owner["br"][pid[i]] # i
  <2>1. ~HoldsBridge(i)
    BY <1>1, Zenon DEF Finished, HoldsBridge, Listening, Building, Running, Cleaning
  <2> QED
    BY <1>1, <2>1, Zenon DEF Accounts, BridgeKept, Owns
<1>4. owner["router"][pid[i]] = i /\ lpc[i] = "exited" /\ RouterSafe =>
        owner["_dead"][pid[i]] \notin {i, None}
  BY <1>1, Zenon DEF Accounts, RouterKept, Owns, Renamed
<1>5. ASSUME owner["router"][pid[i]] = i, lpc[i] = "none"
      PROVE  rdev[pid[i]] = i /\ ~HandoverSafe
  <2>1. fds["router"][pid[i]] # {}
    <3>1. "router" # "br" /\ "router" \in Kind
      BY Zenon DEF Kind
    <3>2. owner["router"][pid[i]] # None
      BY <1>1, <1>5, Zenon
    <3> QED
      BY <1>1, <3>1, <3>2, Zenon DEF KernelCoherent
  <2>2. fds["router"][pid[i]] \subseteq {"vmm", "router"} /\ "vmm" \notin fds["router"][pid[i]]
    BY <1>1, <1>5, Zenon DEF Accounts, RouterKept, Owns, Alive
  <2>3. "router" \in fds["router"][pid[i]]
    BY <2>1, <2>2, Zenon
  <2> QED
    BY <1>1, <1>5, <2>3, Zenon DEF Accounts, RouterKept, Owns
<1> QED
  BY <1>2, <1>3, <1>4, <1>5, Zenon

(* An incarnation that is gone leaves no client tap; no bridge unless a    *)
(* process was killed or bridge_delete failed; if its listener has exited, *)
(* no router<pid> unless the listener or a call of its failed or an older  *)
(* dead tap has the name it would get; and if it never had a listener, no  *)
(* router<pid> unless add_net's reply was lost, exit_listener_setup failed *)
(* or start-vmm was killed between the two, and then the tap is still the  *)
(* router's device (net.c, net_setup's fail_bridge and                     *)
(* exit_listener_main).                                                    *)
THEOREM LeakFreedom == Spec => []NothingLeaks
BY LedgerKept, LedgerLeaksNothing, PTL

-----------------------------------------------------------------------------
(* What the exit listener has done when it ends                            *)

Gone == {"remove_if", "if_down", "rename"} \cup Renamed

(* Past remove_device the router has no device of i, and gets none again.  *)
DeviceGone(i) ==
  MayFail \cap {"listener", "remove_device"} = {} /\ lpc[i] \in Gone => rdev[pid[i]] # i

LEMMA GoneStays ==
  ASSUME NEW i, DeviceGone(i), pid'[i] = pid[i], lpc'[i] \in Gone => lpc[i] \in Gone,
         lpc[i] \in Gone => rdev'[pid[i]] = rdev[pid[i]] \/ rdev'[pid[i]] # i
  PROVE  DeviceGone(i)'
BY Zenon DEF DeviceGone

LEMMA GoneHasPid ==
  ASSUME Ledger PROVE \A i \in Proc : lpc[i] \in Gone => pid[i] \in Pid
BY Zenon DEF Ledger, Inv, StagesAgree, Gone, Renamed

LEMMA SetupGone ==
  ASSUME Ledger, \A i \in Proc : DeviceGone(i), NEW j \in Proc, Setup(j)
  PROVE  \A i \in Proc : DeviceGone(i)'
<1>1. ProcessType /\ StagesAgree(j) /\ pid' = pid /\ j # None
  BY NoneAssumption, Zenon DEF Ledger, Inv, TypeOK, Setup, BridgeAdd, BridgeUp, TapOpen, TapAddIf,
     TapUp, AddNet, ListenerSetup, FailBridge, Fork
<1>2. CASE ListenerSetup(j)
  <2>1. rdev' = rdev /\ (lpc' = lpc \/ lpc' = [lpc EXCEPT ![j] = "poll"])
    BY <1>2, Zenon DEF ListenerSetup, router
  <2>2. \A i \in Proc : lpc'[i] \in Gone => lpc[i] \in Gone
    <3>1. "poll" \notin Gone
      BY Zenon DEF Gone, Renamed
    <3> QED
      BY <1>1, <2>1, <3>1, Zenon DEF ProcessType
  <2> QED
    BY <1>1, <2>1, <2>2, GoneStays, Zenon
<1>3. CASE AddNet(j)
  <2>1. lpc' = lpc /\ (rdev' = rdev \/ rdev' = [rdev EXCEPT ![pid[j]] = j])
    BY <1>3, Zenon DEF AddNet, ch_add_net, router
  <2>2. lpc[j] \notin Gone
    BY <1>1, <1>3, Zenon DEF AddNet, StagesAgree, Building, Gone, Renamed
  <2>3. ASSUME NEW i \in Proc PROVE DeviceGone(i)'
    <3>1. CASE i = j
      BY <2>1, <2>2, <3>1, Zenon DEF DeviceGone
    <3>2. CASE i # j
      <4>1. lpc[i] \in Gone => rdev'[pid[i]] = rdev[pid[i]] \/ rdev'[pid[i]] # i
        BY <1>1, <2>1, <3>2, GoneHasPid, Zenon DEF ProcessType
      <4> QED
        BY <1>1, <2>1, <4>1, GoneStays, Zenon
    <3> QED
      BY <3>1, <3>2, Zenon
  <2> QED
    BY <2>3, Zenon
<1>4. CASE Setup(j) /\ ~ListenerSetup(j) /\ ~AddNet(j)
  <2>1. lpc' = lpc /\ rdev' = rdev
    BY <1>4, Zenon DEF Setup, BridgeAdd, BridgeUp, TapOpen, TapAddIf, TapUp, FailBridge, Fork, router
  <2> QED
    BY <1>1, <2>1, GoneStays, Zenon
<1> QED
  BY <1>2, <1>3, <1>4, Zenon

LEMMA ListenerGone ==
  ASSUME Ledger, \A i \in Proc : DeviceGone(i), NEW j \in Proc, Listener(j)
  PROVE  \A i \in Proc : DeviceGone(i)'
<1>1. ProcessType /\ pid' = pid /\ pid[j] \in Pid /\ routerUp' = routerUp
  <2>1. lpc[j] # "none"
    BY Zenon DEF Listener, ListenerWake, RemoveDevice, RemoveIf, RouterTapDown, RouterTapRename,
       BridgeCleanup, ListenerExit, Cleaning
  <2>2. pc[j] # "none"
    BY <2>1, Zenon DEF Ledger, Inv, StagesAgree
  <2> QED
    BY <2>2, Zenon DEF Ledger, Inv, TypeOK, StagesAgree, Listener, ListenerWake, RemoveDevice,
       RemoveIf, RouterTapDown, RouterTapRename, BridgeCleanup, ListenerExit, router
<1>2. PICK s : lpc' = [lpc EXCEPT ![j] = s]
  BY Zenon DEF Listener, ListenerWake, RemoveDevice, RemoveIf, RouterTapDown,
     RouterTapRename, BridgeCleanup, ListenerExit, ListenerGoto
<1>3. lpc'[j] = s /\ \A i \in Proc \ {j} : lpc'[i] = lpc[i]
  BY <1>1, <1>2, Zenon DEF ProcessType
<1>4. CASE RemoveDevice(j)
  <2>1. \/ rdev' = [rdev EXCEPT ![pid[j]] = None]
        \/ rdev' = rdev /\ Fails("remove_device", CanRemoveDevice(pid[j]))
    BY <1>4, Zenon DEF RemoveDevice
  <2>2. DeviceGone(j)'
    <3> SUFFICES ASSUME "remove_device" \notin MayFail PROVE rdev'[pid[j]] # j
      BY <1>1, Zenon DEF DeviceGone
    <3>1. rdev \in [Pid -> Proc \cup {None}] /\ j # None
      BY NoneAssumption, Zenon DEF Ledger, Inv, TypeOK, ProcessType
    <3>2. rdev'[pid[j]] = None
      BY <1>1, <2>1, <3>1, Zenon DEF Fails, CanRemoveDevice, Ledger
    <3> QED
      BY <3>1, <3>2, Zenon
  <2>3. ASSUME NEW i \in Proc \ {j} PROVE DeviceGone(i)'
    <3>1. lpc[i] \in Gone => rdev'[pid[i]] = rdev[pid[i]] \/ rdev'[pid[i]] # i
      BY <1>1, <2>1, GoneHasPid, NoneAssumption, Zenon DEF ProcessType
    <3> QED
      BY <1>1, <1>3, <3>1, GoneStays, Zenon
  <2> QED
    BY <2>2, <2>3, Zenon
<1>5. CASE Listener(j) /\ ~RemoveDevice(j)
  <2>1. rdev' = rdev
    BY <1>5, Zenon DEF Listener, ListenerWake, RemoveIf, RouterTapDown, RouterTapRename,
       BridgeCleanup, ListenerExit, router
  <2>2. "listener" \notin MayFail /\ s \in Gone => lpc[j] \in Gone
    <3>1. CASE ListenerWake(j)
      BY <1>1, <1>3, <3>1, Zenon DEF ListenerWake, ListenerGoto, ProcessType, Gone, Renamed
    <3>2. CASE RemoveIf(j) \/ RouterTapDown(j) \/ RouterTapRename(j) \/ BridgeCleanup(j)
      BY <3>2, Zenon DEF RemoveIf, RouterTapDown, RouterTapRename, BridgeCleanup, Gone, Renamed
    <3>3. CASE ListenerExit(j)
      BY <3>3, Zenon DEF ListenerExit, Gone, Renamed
    <3> QED
      BY <1>5, <3>1, <3>2, <3>3, Zenon DEF Listener
  <2>3. ASSUME NEW i \in Proc PROVE DeviceGone(i)'
    BY <1>1, <1>3, <2>1, <2>2, Zenon DEF DeviceGone
  <2> QED
    BY <2>3, Zenon
<1> QED
  BY <1>4, <1>5, Zenon

(* What CleanupCompletes rests on beside fairness: when the exit listener  *)
(* has ended, unless it was killed or its calls failed for another reason  *)
(* than that there was nothing to remove, the bridge and the client tap    *)
(* are gone and the router has no device of the VM (exit_listener_main).   *)
THEOREM CleanupIsWhole ==
  Spec => [](BridgeSafe /\ "remove_device" \notin MayFail =>
               \A i \in Proc : lpc[i] = "exited" =>
                 /\ owner["br"][pid[i]] # i
                 /\ owner["client"][pid[i]] # i
                 /\ rdev[pid[i]] # i)
<1> DEFINE AllGone == \A i \in Proc : DeviceGone(i)
<1>1. Init => AllGone
  BY DEF Init, DeviceGone, Gone, Renamed
<1>2. Ledger /\ AllGone /\ [Next]_vars => AllGone'
  <2> SUFFICES ASSUME Ledger, AllGone, [Next]_vars PROVE AllGone'
    BY Zenon
  <2>1. ASSUME NEW j \in Proc, NEW p \in Pid, Start(j, p) PROVE AllGone'
    <3>1. /\ UNCHANGED <<lpc, rdev>> /\ lpc[j] = "none"
          /\ \A i \in Proc \ {j} : pid'[i] = pid[i]
      BY <2>1, Zenon DEF Start, router, Ledger, Inv, TypeOK, ProcessType, StagesAgree
    <3>2. "none" \notin Gone
      BY Zenon DEF Gone, Renamed
    <3> QED
      BY <3>1, <3>2, Zenon DEF DeviceGone
  <2>2. CASE RouterExit
    <3>1. UNCHANGED <<pid, lpc>> /\ rdev' = [p \in Pid |-> None]
      BY <2>2, Zenon DEF RouterExit, processes
    <3> QED
      BY <3>1, GoneHasPid, NoneAssumption, Zenon DEF DeviceGone
  <2>3. CASE RouterStart \/ UNCHANGED vars \/ \E j \in Proc : Exit(j) \/ HelperExit(j)
    <3>1. UNCHANGED <<pid, lpc, rdev>>
      BY <2>3, Zenon DEF RouterStart, vars, Exit, HelperExit, router, processes
    <3> QED
      BY <3>1, Zenon DEF DeviceGone
  <2> QED
    BY <2>1, <2>2, <2>3, SetupGone, ListenerGone, Zenon DEF Next
<1>3. Ledger /\ AllGone =>
        (BridgeSafe /\ "remove_device" \notin MayFail =>
           \A i \in Proc : lpc[i] = "exited" =>
             /\ owner["br"][pid[i]] # i
             /\ owner["client"][pid[i]] # i
             /\ rdev[pid[i]] # i)
  <2> SUFFICES ASSUME Ledger, AllGone, BridgeSafe, "remove_device" \notin MayFail,
                      NEW i \in Proc, lpc[i] = "exited"
               PROVE  /\ owner["br"][pid[i]] # i
                      /\ owner["client"][pid[i]] # i
                      /\ rdev[pid[i]] # i
    BY Zenon
  <2>1. "listener" \notin MayFail
    BY Zenon DEF BridgeSafe
  <2>2. Finished(i)
    BY <2>1, Zenon DEF Ledger, Accounts, BridgeKept, Finished
  <2>3. owner["br"][pid[i]] # i /\ owner["client"][pid[i]] # i
    BY <2>2, LedgerLeaksNothing, Zenon DEF NothingLeaks
  <2>4. rdev[pid[i]] # i
    BY <2>1, Zenon DEF DeviceGone, Gone, Renamed
  <2> QED
    BY <2>3, <2>4, Zenon
<1> QED
  BY <1>1, <1>2, <1>3, LedgerKept, PTL DEF Spec

=============================================================================
