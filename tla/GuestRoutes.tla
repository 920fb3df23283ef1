----------------------------- MODULE GuestRoutes -----------------------------
(***************************************************************************)
(* Addresses and routes of client VMs: the MAC addresses net_setup makes   *)
(* from its pid (host/start-vmm/net.c, net.rs), and the hotplug scripts    *)
(* that derive addresses from them in the client (img/app/etc/mdev/iface)  *)
(* and in the router VM (vm/sys/net/etc/mdev/iface).                       *)
(*                                                                         *)
(* In the router VM an interface is known by its name, and the kernel      *)
(* gives the name of a removed interface to the next one.  mdevd runs the  *)
(* script once per event and one event at a time, so a script may still    *)
(* be at work, or not have begun, when its interface is gone or replaced.  *)
(* Of NetSetup only this is used: the router has at most one device per    *)
(* pid, and loses it some time after its client VM has died, or with all   *)
(* the others when its own VMM dies.                                       *)
(***************************************************************************)
EXTENDS Integers, Sequences, Functions

CONSTANTS
  Client,   \* lives of client VMs, numbered as they start
  Pid,      \* process ids of their start-vmm
  Uplink,   \* the router's physical interface
  UplinkMac,\* its MAC address
  None,
  MaxEth    \* the router has interfaces eth0 .. eth<MaxEth>

(* "We assume <=16-bit pids" (net.c:168).                                  *)
ASSUME PidAssumption == \A p \in Pid : p \in Nat /\ p < 65536
ASSUME GuestAssumption ==
  /\ Client \subseteq Nat /\ None \notin Client /\ Uplink \notin Client /\ Uplink # None
  /\ MaxEth \in Nat /\ None \notin Int /\ None \notin Nat \X Nat
  /\ UplinkMac \in [1 .. 6 -> 0 .. 255]
  /\ <<UplinkMac[1], UplinkMac[2], UplinkMac[3]>> # <<10, 179, 236>>

Eth == 0 .. MaxEth

VARIABLES
  pid,      \* pid[c]: the pid of c's start-vmm, None before it starts
  alive,    \* the client VMs that run
  dev,      \* dev[n]: whose device the router's interface n is
  seen,     \* the names mdevd-coldplug has come across
  events,   \* names of new interfaces mdevd has yet to handle, in order
  script,   \* the running iface script: its next command, INTERFACE and
            \* CLIENT_IP
  addr,     \* the router's interfaces with address 169.254.0.1
  up,       \* the router's interfaces that are up
  route,    \* route[a]: the interface a is routed to, or None
  stale     \* interfaces that got their name while a script was at work on
            \* the one that had it before

guests == <<pid, alive>>
tables == <<addr, up, route>>
vars == <<guests, dev, seen, events, script, tables, stale>>

-----------------------------------------------------------------------------
(* From a pid to an address                                                *)

(* Mutant: only the low byte of the pid is kept.                           *)
router_mac_short(p) == <<10, 179, 236, 128, 0, p % 256>>

(* uint8_t router_mac[6] = {0x0A, 0xB3, 0xEC, 0x80, pid >> 8, pid}         *)
router_mac(p) == <<10, 179, 236, 128, (p \div 256) % 256, p % 256>>
client_mac(p) == [router_mac(p) EXCEPT ![4] = 0]

(* Display for MacAddress: every octet as two hexadecimal digits.          *)
fmt(mac) == [k \in 1 .. 6 |-> <<mac[k] \div 16, mac[k] % 16>>]

(* awk's %d of "0x" and the digits.                                        *)
Hex(d) == 16 * d[1] + d[2]

(* 100.64.%d.%d of the fifth and the sixth octet.  The client gives itself *)
(* LOCAL_IP; nobody takes its interface away while its script runs.        *)
Ip(digits) == <<Hex(digits[5]), Hex(digits[6])>>
CLIENT_IP(p) == Ip(fmt(router_mac(p)))
LOCAL_IP(p) == Ip(fmt(client_mac(p)))

(* /sys/class/net/<n>/address.                                             *)
Mac(d) == IF d = Uplink THEN UplinkMac ELSE router_mac(pid[d])

Address == {CLIENT_IP(p) : p \in Pid} \cup {Ip(fmt(UplinkMac))}

-----------------------------------------------------------------------------

Idle == [at |-> "idle", eth |-> 0, ip |-> None]

Init ==
  /\ pid = [c \in Client |-> None] /\ alive = {}
  /\ dev = [n \in Eth |-> None]
  /\ seen = {} /\ events = <<>> /\ script = Idle
  /\ addr = {} /\ up = {}
  /\ route = [a \in Address |-> None]
  /\ stale = {}

HasRead == {"addr", "up", "route"}

(* A script that has found the interface to be a client's link.            *)
Working == script.at \in {"awk"} \cup HasRead

(* The kernel's next name, and an event for it.                            *)
Appear(d) ==
  /\ \E n \in Eth :
       /\ dev[n] = None /\ \A m \in Eth : m < n => dev[m] # None
       /\ dev' = [dev EXCEPT ![n] = d]
       /\ events' = Append(events, n)
       /\ stale' = IF Working /\ script.eth = n THEN stale \cup {n} ELSE stale
  /\ UNCHANGED <<script, tables, seen>>

(* mdevd-coldplug, which runs once at boot, asks for another event of each *)
(* interface it comes across.                                              *)
Coldplug(n) ==
  /\ dev[n] # None /\ n \notin seen
  /\ events' = Append(events, n)
  /\ seen' = seen \cup {n}
  /\ UNCHANGED <<guests, dev, script, tables, stale>>

(* Mutant: a second device of the same name is accepted.                   *)
StartTwice(c, p) ==
  /\ pid[c] = None /\ \A b \in Client : b < c => pid[b] # None
  /\ \A d \in alive : pid[d] # p
  /\ pid' = [pid EXCEPT ![c] = p]
  /\ alive' = alive \cup {c}
  /\ Appear(c)

(* A client VM starts and its device appears in the router VM.             *)
Start(c, p) ==
  /\ pid[c] = None /\ \A b \in Client : b < c => pid[b] # None
  /\ \A d \in alive : pid[d] # p
  /\ \A n \in Eth : dev[n] \in Client => pid[dev[n]] # p
  /\ pid' = [pid EXCEPT ![c] = p]
  /\ alive' = alive \cup {c}
  /\ Appear(c)

UplinkAppears ==
  /\ \A n \in Eth : dev[n] # Uplink
  /\ Appear(Uplink)
  /\ UNCHANGED guests

Die(c) ==
  /\ c \in alive
  /\ alive' = alive \ {c}
  /\ UNCHANGED <<pid, dev, seen, events, script, tables, stale>>

(* The exit listener has removed the device.  The kernel drops what it had *)
(* for the interface; no script runs for that.                             *)
Disappear(n) ==
  /\ dev[n] \in Client \ alive
  /\ dev' = [dev EXCEPT ![n] = None]
  /\ addr' = addr \ {n} /\ up' = up \ {n}
  /\ route' = [a \in Address |-> IF route[a] = n THEN None ELSE route[a]]
  /\ stale' = stale \ {n}
  /\ UNCHANGED <<guests, seen, events, script>>

(* The router's VMM dies and is started again, without the devices of the  *)
(* client VMs that live.                                                   *)
RouterRestarts ==
  /\ dev' = [n \in Eth |-> None]
  /\ seen' = {} /\ events' = <<>> /\ script' = Idle
  /\ addr' = {} /\ up' = {}
  /\ route' = [a \in Address |-> None]
  /\ stale' = {}
  /\ UNCHANGED guests

-----------------------------------------------------------------------------
(* vm/sys/net/etc/mdev/iface                                               *)

Run ==
  /\ script.at = "idle" /\ events # <<>>
  /\ script' = [Idle EXCEPT !.at = "grep", !.eth = Head(events)]
  /\ events' = Tail(events)
  /\ UNCHANGED <<guests, dev, seen, tables, stale>>

Then(s) == script' = [script EXCEPT !.at = s]
Stop == script' = Idle

(* The interface is a client's link iff its MAC address begins 0A:B3:EC;   *)
(* grep also fails when there is no such interface any more.               *)
Grep ==
  /\ script.at = "grep"
  /\ LET mac == Mac(dev[script.eth]) IN
     Then(IF dev[script.eth] # None /\ <<mac[1], mac[2], mac[3]>> = <<10, 179, 236>>
          THEN "awk" ELSE "uplink")
  /\ UNCHANGED <<guests, dev, seen, events, tables, stale>>

(* The address of whatever has the name by now.  Without an interface awk  *)
(* fails, and the script ends or goes on without an address.               *)
Awk ==
  /\ script.at = "awk"
  /\ \/ /\ dev[script.eth] # None
        /\ script' = [script EXCEPT !.at = "addr", !.ip = Ip(fmt(Mac(dev[script.eth])))]
     \/ dev[script.eth] = None /\ (Stop \/ Then("addr"))
  /\ UNCHANGED <<guests, dev, seen, events, tables, stale>>

(* ip address add: not twice.                                              *)
AddAddress ==
  /\ script.at = "addr"
  /\ IF dev[script.eth] # None /\ script.eth \notin addr
       THEN addr' = addr \cup {script.eth} /\ Then("up")
       ELSE UNCHANGED addr /\ Stop
  /\ UNCHANGED <<guests, dev, seen, events, up, route, stale>>

(* Mutant: the interface is not set up.                                    *)
LeftDown ==
  /\ script.at = "up"
  /\ Then("route")
  /\ UNCHANGED <<guests, dev, seen, events, tables, stale>>

SetUp ==
  /\ script.at = "up"
  /\ IF dev[script.eth] # None
       THEN up' = up \cup {script.eth} /\ Then("route")
       ELSE UNCHANGED up /\ Stop
  /\ UNCHANGED <<guests, dev, seen, events, addr, route, stale>>

(* ip route add: one route per address, through an interface that is up.   *)
AddRoute ==
  /\ script.at = "route"
  /\ IF script.ip # None /\ script.eth \in up /\ route[script.ip] = None
       THEN route' = [route EXCEPT ![script.ip] = script.eth]
       ELSE UNCHANGED route
  /\ Stop
  /\ UNCHANGED <<guests, dev, seen, events, addr, up, stale>>

(* The physical interface's branch: connman, nftables and a masquerade     *)
(* rule, none of which touches addresses or routes of client links.        *)
Masquerade ==
  /\ script.at = "uplink"
  /\ Stop
  /\ UNCHANGED <<guests, dev, seen, events, tables, stale>>

Mdevd ==
  Run \/ Grep \/ Awk \/ AddAddress \/ SetUp \/ AddRoute \/ Masquerade

Next ==
  \/ \E c \in Client : (\E p \in Pid : Start(c, p)) \/ Die(c)
  \/ \E n \in Eth : Disappear(n) \/ Coldplug(n)
  \/ UplinkAppears \/ RouterRestarts
  \/ Mdevd

Spec == Init /\ [][Next]_vars

(* The router VM's mdevd, and the scripts it runs, are scheduled.          *)
FairSpec == Spec /\ WF_vars(Mdevd)

-----------------------------------------------------------------------------

TypeOK ==
  /\ pid \in [Client -> Pid \cup {None}]
  /\ alive \subseteq Client
  /\ dev \in [Eth -> Client \cup {Uplink, None}]
  /\ seen \subseteq Eth /\ events \in Seq(Eth)
  /\ script \in [at : {"idle", "grep", "awk", "uplink"} \cup HasRead,
                 eth : Eth, ip : Address \cup {None}]
  /\ addr \subseteq Eth /\ up \subseteq Eth
  /\ route \in [Address -> Eth \cup {None}]
  /\ stale \subseteq Eth

(* The address the router's script derives for the client behind n.        *)
Behind(n, a) == dev[n] \in Client /\ CLIENT_IP(pid[dev[n]]) = a

(* The inductive invariant: pids tell devices apart, and outside the stale *)
(* interfaces a route, and the address a script has read, belong to the    *)
(* client behind the interface ("Our IP is encoded in the NIC-specific     *)
(* portion of the interface's MAC address", iface:12).                     *)
Inv ==
  /\ TypeOK
  /\ \A c \in alive : pid[c] # None
  /\ \A n \in Eth : dev[n] \in Client => pid[dev[n]] # None
  /\ \A m, n \in Eth : /\ dev[m] \in Client /\ dev[n] \in Client
                       /\ pid[dev[m]] = pid[dev[n]]
                       => m = n
  /\ \A c \in alive, n \in Eth :
       dev[n] \in Client /\ pid[dev[n]] = pid[c] => dev[n] = c
  /\ Working /\ dev[script.eth] # None /\ script.eth \notin stale =>
       /\ dev[script.eth] \in Client
       /\ script.at \in HasRead => Behind(script.eth, script.ip)
  /\ \A n \in addr \cup up \cup stale : dev[n] # None
  /\ \A a \in Address : route[a] # None =>
       /\ dev[route[a]] # None
       /\ route[a] \notin stale => Behind(route[a], a)

(* What a client VM sends can be answered: the address it gives itself is  *)
(* routed to its own interface, or to none, whichever clients came and     *)
(* went before, with the same pid or under the same interface name,        *)
(* however late mdevd ran the scripts and however often the router VM was  *)
(* started again; except through an interface whose name a running script  *)
(* had taken for another's (iface:14-21 go on with the name alone).        *)
NoMisroute ==
  \A c \in alive :
    LET n == route[LOCAL_IP(pid[c])] IN n = None \/ n \in stale \/ dev[n] = c

(* A client VM whose interface mdevd has yet to handle gets its route, or  *)
(* loses the interface, or the script of another interface is to blame:    *)
(* one that was at work when the client's interface took the name, or one  *)
(* that gave the client's address to an interface that did.                *)
ClientRouted ==
  \A c \in Client :
    (\E n \in Range(events) \ addr : dev[n] = c) ~>
      \/ c \notin Range(dev)
      \/ LET via == route[LOCAL_IP(pid[c])] IN
         via \in stale \/ \E n \in Eth : dev[n] = c /\ (via = n \/ n \in stale)

=============================================================================
