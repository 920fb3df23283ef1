-------------------------- MODULE GuestRoutesProofs --------------------------
(***************************************************************************)
(* A client VM's traffic comes back to it, for every number of client VMs, *)
(* interfaces and pids of at most 16 bits.                                 *)
(***************************************************************************)
EXTENDS GuestRoutes, SequenceTheorems, TLAPS

-----------------------------------------------------------------------------
(* The addresses                                                           *)

(* Two hexadecimal digits are the octet they were printed from.            *)
LEMMA Octet == \A x \in 0 .. 255 : 16 * (x \div 16) + (x % 16) = x
OBVIOUS

LEMMA HexOfDigits ==
  ASSUME NEW m, NEW k \in 1 .. 6, m[k] \in 0 .. 255 PROVE Hex(fmt(m)[k]) = m[k]
<1>1. fmt(m)[k] = <<m[k] \div 16, m[k] % 16>>
  BY DEF fmt
<1>2. 16 * (m[k] \div 16) + (m[k] % 16) = m[k]
  BY Octet
<1> QED BY <1>1, <1>2 DEF Hex

LEMMA PidRange == ASSUME NEW p \in Pid PROVE p \in Nat /\ p < 256 * 256
BY PidAssumption

(* The router and the client derive the same address from their two MAC    *)
(* addresses (net.c:163-173, net.rs:23-31, both iface scripts).            *)
LEMMA SameAddress ==
  ASSUME NEW p \in Pid
  PROVE  CLIENT_IP(p) = <<p \div 256, p % 256>> /\ LOCAL_IP(p) = CLIENT_IP(p)
<1>1. p \in Nat /\ p < 256 * 256
  BY PidRange
<1>2. (p \div 256) % 256 = p \div 256 /\ p \div 256 \in 0 .. 255 /\ p % 256 \in 0 .. 255
  <2>1. p \div 256 \in Nat /\ p \div 256 <= 255
    BY <1>1
  <2>2. p % 256 \in Nat /\ p % 256 <= 255
    BY <1>1
  <2> QED BY <2>1, <2>2
<1>3. /\ router_mac(p) = <<10, 179, 236, 128, p \div 256, p % 256>>
      /\ client_mac(p) = <<10, 179, 236, 0, p \div 256, p % 256>>
  BY <1>2 DEF router_mac, client_mac
<1>4. ASSUME NEW m, m[5] = p \div 256, m[6] = p % 256
      PROVE  Ip(fmt(m)) = <<p \div 256, p % 256>>
  <2>1. m[5] \in 0 .. 255 /\ m[6] \in 0 .. 255
    BY <1>2, <1>4
  <2>2. Hex(fmt(m)[5]) = m[5] /\ Hex(fmt(m)[6]) = m[6]
    BY <2>1, HexOfDigits
  <2> QED BY <2>2, <1>4 DEF Ip
<1>5. Ip(fmt(router_mac(p))) = <<p \div 256, p % 256>>
  BY <1>3, <1>4
<1>6. Ip(fmt(client_mac(p))) = <<p \div 256, p % 256>>
  BY <1>3, <1>4
<1> QED BY <1>5, <1>6 DEF CLIENT_IP, LOCAL_IP

(* Two pids never share an address: 16 bits are kept in two octets.        *)
LEMMA OwnAddress ==
  ASSUME NEW p \in Pid, NEW q \in Pid, CLIENT_IP(p) = CLIENT_IP(q) PROVE p = q
<1>1. p \div 256 = q \div 256 /\ p % 256 = q % 256
  BY SameAddress
<1>2. p \in Nat /\ p < 256 * 256 /\ q \in Nat /\ q < 256 * 256
  BY PidRange
<1> QED BY <1>1, <1>2

LEMMA NoneIsNoAddress == None \notin Address
<1>1. ASSUME NEW p \in Pid PROVE CLIENT_IP(p) \in Nat \X Nat
  <2>1. p \div 256 \in Nat /\ p % 256 \in Nat
    BY PidRange
  <2> QED BY <2>1, SameAddress
<1>2. Ip(fmt(UplinkMac)) \in Nat \X Nat
  <2>1. UplinkMac[5] \in 0 .. 255 /\ UplinkMac[6] \in 0 .. 255
    BY GuestAssumption
  <2>2. Hex(fmt(UplinkMac)[5]) = UplinkMac[5] /\ Hex(fmt(UplinkMac)[6]) = UplinkMac[6]
    BY <2>1, HexOfDigits
  <2> QED BY <2>1, <2>2 DEF Ip
<1> QED BY <1>1, <1>2, GuestAssumption DEF Address

(* grep tells a client's MAC address from the uplink's, and what awk makes *)
(* of a client's is its address.                                           *)
LEMMA ClientMac ==
  ASSUME NEW d \in Client, pid[d] \in Pid
  PROVE  Ip(fmt(Mac(d))) = CLIENT_IP(pid[d]) /\ CLIENT_IP(pid[d]) \in Address
<1>1. d # Uplink
  BY GuestAssumption
<1> QED BY <1>1 DEF Mac, CLIENT_IP, Address

LEMMA UplinkAddress == Ip(fmt(Mac(Uplink))) \in Address
BY DEF Mac, Address

-----------------------------------------------------------------------------
(* The invariant                                                           *)

LEMMA Constants ==
  /\ None \notin Client /\ None \notin Pid /\ None \notin Eth /\ None \notin {Uplink}
  /\ 0 \in Eth /\ Uplink \notin Client
BY GuestAssumption, PidAssumption DEF Eth

(* The devices behind the interfaces, apart from scripts and routes.       *)
Devices ==
  /\ \A c \in alive : pid[c] # None
  /\ \A n \in Eth : dev[n] \in Client => pid[dev[n]] # None
  /\ \A m, n \in Eth : /\ dev[m] \in Client /\ dev[n] \in Client
                       /\ pid[dev[m]] = pid[dev[n]]
                       => m = n
  /\ \A c \in alive, n \in Eth :
       dev[n] \in Client /\ pid[dev[n]] = pid[c] => dev[n] = c

ScriptRight ==
  Working /\ dev[script.eth] # None /\ script.eth \notin stale =>
    /\ dev[script.eth] \in Client
    /\ script.at \in HasRead => Behind(script.eth, script.ip)

(* Nothing is set for an interface that is not there.                      *)
Present == \A n \in addr \cup up \cup stale : dev[n] # None

RoutesRight ==
  \A a \in Address : route[a] # None =>
    /\ dev[route[a]] # None
    /\ route[a] \notin stale => Behind(route[a], a)

LEMMA InvParts == Inv <=> TypeOK /\ Devices /\ ScriptRight /\ Present /\ RoutesRight
BY DEF Inv, Devices, ScriptRight, Present, RoutesRight

LEMMA InvNext == ASSUME TypeOK', Devices', ScriptRight', Present', RoutesRight' PROVE Inv'
BY DEF Inv, Devices, ScriptRight, Present, RoutesRight

LEMMA InitInv == Init => Inv
<1> SUFFICES ASSUME Init PROVE TypeOK /\ Devices /\ ScriptRight /\ Present /\ RoutesRight
  BY InvParts
<1>1. TypeOK
  BY Constants, EmptySeq DEF Init, TypeOK, Idle, HasRead
<1>2. Devices /\ Present
  BY Constants DEF Init, Devices, Present
<1>3. ScriptRight /\ RoutesRight
  BY Constants DEF Init, ScriptRight, RoutesRight, Idle, Working, HasRead
<1> QED BY <1>1, <1>2, <1>3

(* An interface that keeps its device keeps the client behind it.          *)
LEMMA StillBehind ==
  ASSUME NEW n, NEW a, Behind(n, a), dev'[n] = dev[n], pid'[dev[n]] = pid[dev[n]]
  PROVE  Behind(n, a)'
BY DEF Behind

(* A device appears under a free name: what a script was doing with the    *)
(* name is from now on excepted.                                           *)
LEMMA AppearInv ==
  ASSUME TypeOK, ScriptRight, Present, RoutesRight,
         NEW d \in Client \cup {Uplink}, Appear(d),
         \A n \in Eth : dev[n] \in Client => pid'[dev[n]] = pid[dev[n]]
  PROVE  /\ dev' \in [Eth -> Client \cup {Uplink, None}] /\ events' \in Seq(Eth)
         /\ stale' \subseteq Eth
         /\ ScriptRight' /\ Present' /\ RoutesRight'
<1>1. PICK n \in Eth : /\ dev[n] = None /\ dev' = [dev EXCEPT ![n] = d]
                       /\ events' = Append(events, n)
                       /\ stale' = IF Working /\ script.eth = n THEN stale \cup {n} ELSE stale
  BY Zenon DEF Appear
<1>2. UNCHANGED <<script, addr, up, route, seen>>
  BY DEF Appear, tables
<1>3. dev' \in [Eth -> Client \cup {Uplink, None}] /\ events' \in Seq(Eth)
  BY <1>1, AppendProperties DEF TypeOK
<1>4. ASSUME NEW m \in Eth, NEW a, Behind(m, a) PROVE Behind(m, a)'
  <2>1. m # n /\ dev[m] \in Client
    BY <1>1, <1>4, Constants DEF Behind
  <2>2. dev'[m] = dev[m]
    BY <1>1, <2>1 DEF TypeOK
  <2> QED BY <2>1, <2>2, <1>4, StillBehind
<1>5. stale' \subseteq Eth /\ stale \subseteq stale'
  BY <1>1 DEF TypeOK
<1>6. dev'[n] = d /\ d # None /\ \A m \in Eth : m # n => dev'[m] = dev[m]
  BY <1>1, Constants DEF TypeOK
<1>7. ScriptRight'
  <2>1. script.eth \in Eth /\ (Working' <=> Working)
    BY <1>2 DEF TypeOK, Working
  <2>2. CASE script.eth = n
    BY <2>1, <2>2, <1>1, <1>2 DEF ScriptRight
  <2>3. CASE script.eth # n
    BY <2>1, <2>3, <1>2, <1>4, <1>5, <1>6 DEF ScriptRight
  <2> QED BY <2>2, <2>3
<1>8. Present'
  BY <1>1, <1>2, <1>6 DEF Present, TypeOK
<1>9. RoutesRight'
  <2> SUFFICES ASSUME NEW a \in Address, route[a] # None
               PROVE  /\ dev'[route[a]] # None
                      /\ route[a] \notin stale' => Behind(route[a], a)'
    BY <1>2 DEF RoutesRight
  <2>1. route[a] \in Eth /\ dev[route[a]] # None
    BY DEF RoutesRight, TypeOK
  <2>2. dev'[route[a]] # None
    BY <2>1, <1>6
  <2>3. ASSUME route[a] \notin stale' PROVE Behind(route[a], a)'
    <3>1. Behind(route[a], a)
      BY <2>3, <1>5 DEF RoutesRight
    <3>2. dev'[route[a]] = dev[route[a]] /\ dev[route[a]] \in Client
      BY <3>1, <2>1, <1>1, <1>6 DEF Behind
    <3>3. pid'[dev[route[a]]] = pid[dev[route[a]]]
      BY <3>2, <2>1
    <3> QED BY <3>1, <3>2, <3>3, <1>2 DEF Behind
  <2> QED BY <2>2, <2>3
<1> QED BY <1>3, <1>5, <1>7, <1>8, <1>9

LEMMA StartInv == ASSUME Inv, NEW c \in Client, NEW p \in Pid, Start(c, p) PROVE Inv'
<1> USE InvParts
<1>1. /\ pid[c] = None /\ \A n \in Eth : dev[n] \in Client => pid[dev[n]] # p
      /\ \A d \in alive : pid[d] # p
      /\ pid' = [pid EXCEPT ![c] = p] /\ alive' = alive \cup {c} /\ Appear(c)
  BY DEF Start
<1>2. \A n \in Eth : dev[n] \in Client => dev[n] # c /\ pid'[dev[n]] = pid[dev[n]]
  BY <1>1 DEF Devices, TypeOK
<1>3. /\ dev' \in [Eth -> Client \cup {Uplink, None}] /\ events' \in Seq(Eth)
      /\ stale' \subseteq Eth
      /\ ScriptRight' /\ Present' /\ RoutesRight'
  BY <1>1, <1>2, AppearInv
<1>4. TypeOK'
  BY <1>1, <1>3 DEF Appear, tables, TypeOK
<1>5. Devices'
  <2>1. PICK n \in Eth : dev[n] = None /\ dev' = [dev EXCEPT ![n] = c]
    BY <1>1, Zenon DEF Appear
  <2>2. dev'[n] = c /\ pid'[c] = p /\ p # None
    BY <1>1, <2>1, Constants DEF TypeOK
  <2>3. \A m \in Eth : m # n => dev'[m] = dev[m]
    BY <2>1 DEF TypeOK
  <2>4. \A b \in alive' : pid'[b] # None
    BY <1>1, <2>2 DEF Devices, TypeOK
  <2>5. \A m \in Eth : dev'[m] \in Client => pid'[dev'[m]] # None
    BY <1>2, <2>2, <2>3 DEF Devices
  <2>6. ASSUME NEW m \in Eth, NEW k \in Eth, dev'[m] \in Client, dev'[k] \in Client,
               pid'[dev'[m]] = pid'[dev'[k]]
        PROVE  m = k
    BY <1>1, <1>2, <2>2, <2>3, <2>6 DEF Devices
  <2>7. ASSUME NEW b \in alive', NEW m \in Eth, dev'[m] \in Client,
               pid'[dev'[m]] = pid'[b]
        PROVE  dev'[m] = b
    <3>1. CASE b = c
      BY <3>1, <2>2, <2>3, <2>7, <1>1, <1>2
    <3>2. CASE b \in alive /\ b # c
      <4>1. pid'[b] = pid[b] /\ pid[b] # p
        BY <3>2, <1>1 DEF TypeOK
      <4>2. m # n
        BY <4>1, <2>2, <2>7
      <4> QED BY <4>1, <4>2, <3>2, <2>3, <2>7, <1>2 DEF Devices
    <3> QED BY <3>1, <3>2, <1>1
  <2> QED BY <2>4, <2>5, <2>6, <2>7 DEF Devices
<1> QED BY <1>3, <1>4, <1>5, InvNext

LEMMA UplinkInv == ASSUME Inv, UplinkAppears PROVE Inv'
<1> USE InvParts
<1>1. Appear(Uplink) /\ UNCHANGED <<pid, alive>>
  BY DEF UplinkAppears, guests
<1>2. /\ dev' \in [Eth -> Client \cup {Uplink, None}] /\ events' \in Seq(Eth)
      /\ stale' \subseteq Eth
      /\ ScriptRight' /\ Present' /\ RoutesRight'
  BY <1>1, AppearInv
<1>3. TypeOK'
  BY <1>1, <1>2 DEF Appear, tables, TypeOK
<1>4. PICK n \in Eth : dev[n] = None /\ dev' = [dev EXCEPT ![n] = Uplink]
  BY <1>1, Zenon DEF Appear
<1>5. dev'[n] = Uplink /\ \A m \in Eth : m # n => dev'[m] = dev[m]
  BY <1>4 DEF TypeOK
<1>6. \A m \in Eth : dev'[m] \in Client => dev'[m] = dev[m]
  BY <1>4, <1>5, Constants
<1>8. Devices'
  BY <1>1, <1>6 DEF Devices
<1> QED BY <1>2, <1>3, <1>8, InvNext

(* The router starts again with nothing.                                   *)
LEMMA RestartInv == ASSUME Inv, RouterRestarts PROVE Inv'
<1> USE InvParts
<1>1. /\ dev' = [n \in Eth |-> None] /\ seen' = {} /\ events' = <<>> /\ script' = Idle
      /\ addr' = {} /\ up' = {} /\ route' = [a \in Address |-> None] /\ stale' = {}
      /\ UNCHANGED <<pid, alive>>
  BY DEF RouterRestarts, guests
<1>2. TypeOK'
  BY <1>1, Constants, EmptySeq DEF TypeOK, Idle, HasRead
<1>3. Devices' /\ Present'
  BY <1>1, Constants DEF Devices, Present
<1>4. ScriptRight' /\ RoutesRight'
  BY <1>1, Constants DEF ScriptRight, RoutesRight, Idle, Working, HasRead
<1> QED BY <1>2, <1>3, <1>4, InvNext

(* Nothing behind an interface changes.                                    *)
LEMMA GuestsSame ==
  ASSUME Inv, UNCHANGED <<pid, dev>>, alive' \subseteq alive, TypeOK'
  PROVE  /\ Devices'
         /\ UNCHANGED <<script, stale>> => ScriptRight'
         /\ UNCHANGED <<addr, up, stale>> => Present'
         /\ UNCHANGED <<route, stale>> => RoutesRight'
<1> USE InvParts
<1>1. Devices'
  BY DEF Devices
<1>2. \A n, a : Behind(n, a)' <=> Behind(n, a)
  BY DEF Behind
<1> QED BY <1>1, <1>2 DEF ScriptRight, Present, RoutesRight, Working

LEMMA DieInv == ASSUME Inv, NEW c \in Client, Die(c) PROVE Inv'
<1>1. TypeOK'
  BY DEF Inv, Die, TypeOK, tables
<1>2. alive' \subseteq alive /\ UNCHANGED <<pid, dev, script, tables, stale>>
  BY DEF Die
<1> QED BY <1>1, <1>2, GuestsSame, InvNext DEF tables

LEMMA ColdplugInv == ASSUME Inv, NEW n \in Eth, Coldplug(n) PROVE Inv'
<1>1. TypeOK'
  BY AppendProperties DEF Inv, Coldplug, TypeOK, tables, guests
<1>2. UNCHANGED <<pid, alive, dev, script, tables, stale>>
  BY DEF Coldplug, guests
<1> QED BY <1>1, <1>2, GuestsSame, InvNext DEF tables

(* An interface is lost: all that was set for it goes with it.             *)
LEMMA DisappearInv == ASSUME Inv, NEW n \in Eth, Disappear(n) PROVE Inv'
<1> USE InvParts
<1>1. /\ dev' = [dev EXCEPT ![n] = None]
      /\ addr' = addr \ {n} /\ up' = up \ {n} /\ stale' = stale \ {n}
      /\ route' = [a \in Address |-> IF route[a] = n THEN None ELSE route[a]]
      /\ UNCHANGED <<pid, alive, seen, events, script>>
  BY DEF Disappear, guests
<1>2. TypeOK'
  BY <1>1, Constants DEF TypeOK
<1>3. dev'[n] = None /\ \A m \in Eth : m # n => dev'[m] = dev[m]
  BY <1>1 DEF TypeOK
<1>4. Devices'
  <2>1. \A m \in Eth : dev'[m] \in Client => m # n /\ dev'[m] = dev[m]
    BY <1>3, Constants
  <2> QED BY <2>1, <1>1 DEF Devices
<1>5. ASSUME NEW m \in Eth, m # n, NEW a, Behind(m, a) PROVE Behind(m, a)'
  BY <1>1, <1>3, <1>5, StillBehind
<1>6. ScriptRight'
  <2>1. script.eth \in Eth /\ (Working' <=> Working)
    BY <1>1 DEF TypeOK, Working
  <2> QED BY <2>1, <1>1, <1>3, <1>5 DEF ScriptRight
<1>7. Present'
  BY <1>1, <1>3 DEF Present, TypeOK
<1>8. RoutesRight'
  <2> SUFFICES ASSUME NEW a \in Address, route'[a] # None
               PROVE  /\ dev'[route'[a]] # None
                      /\ route'[a] \notin stale' => Behind(route[a], a)' /\ route'[a] = route[a]
    BY DEF RoutesRight, Behind
  <2>1. route'[a] = route[a] /\ route[a] # n /\ route[a] \in Eth
    BY <1>1 DEF TypeOK
  <2>2. dev'[route[a]] = dev[route[a]] /\ dev[route[a]] # None
    BY <2>1, <1>3 DEF RoutesRight
  <2>3. ASSUME route[a] \notin stale' PROVE Behind(route[a], a)'
    <3>1. Behind(route[a], a)
      BY <2>3, <2>1, <1>1 DEF RoutesRight
    <3> QED BY <3>1, <2>1, <2>2, <1>1 DEF Behind
  <2> QED BY <2>1, <2>2, <2>3
<1> QED BY <1>2, <1>4, <1>6, <1>7, <1>8, InvNext

(* A step of the script that leaves the devices as they are.               *)
LEMMA ScriptStep ==
  ASSUME Inv, UNCHANGED <<guests, dev, seen, route, stale>>, TypeOK', Present', ScriptRight'
  PROVE  Inv'
BY GuestsSame, InvNext DEF guests

LEMMA RunInv == ASSUME Inv, Run PROVE Inv'
<1> USE InvParts
<1>1. /\ script' = [Idle EXCEPT !.at = "grep", !.eth = Head(events)] /\ events' = Tail(events)
      /\ UNCHANGED <<guests, dev, seen, addr, up, route, stale>> /\ events # <<>>
  BY DEF Run, tables
<1>2. Head(events) \in Eth /\ Tail(events) \in Seq(Eth)
  BY <1>1, HeadTailProperties DEF TypeOK
<1>3. script' = [at |-> "grep", eth |-> Head(events), ip |-> None]
  BY <1>1 DEF Idle
<1>4. TypeOK'
  <2>1. script' \in [at : {"idle", "grep", "awk", "uplink"} \cup HasRead,
                     eth : Eth, ip : Address \cup {None}]
    BY <1>2, <1>3
  <2> QED BY <1>1, <1>2, <2>1 DEF TypeOK, guests
<1>5. ScriptRight' /\ Present'
  BY <1>1, <1>3 DEF ScriptRight, Present, Working, HasRead
<1> QED BY <1>1, <1>4, <1>5, ScriptStep

(* grep passes only a client's link on.                                    *)
LEMMA GrepInv == ASSUME Inv, Grep PROVE Inv'
<1> USE InvParts
<1>1. UNCHANGED <<guests, dev, seen, events, addr, up, route, stale>>
  BY DEF Grep, tables
<1>2. /\ script' = [script EXCEPT !.at = "uplink"] \/ script' = [script EXCEPT !.at = "awk"]
      /\ script'.at = "awk" => dev[script.eth] \in Client
  <2> DEFINE d == dev[script.eth]
  <2>1. d \in Client \cup {Uplink, None}
    BY DEF TypeOK
  <2>2. d = Uplink => <<Mac(d)[1], Mac(d)[2], Mac(d)[3]>> # <<10, 179, 236>>
    BY GuestAssumption DEF Mac
  <2>3. script' = [script EXCEPT !.at =
                     IF d # None /\ <<Mac(d)[1], Mac(d)[2], Mac(d)[3]>> = <<10, 179, 236>>
                     THEN "awk" ELSE "uplink"]
    BY DEF Grep, Then
  <2>4. CASE d # None /\ <<Mac(d)[1], Mac(d)[2], Mac(d)[3]>> = <<10, 179, 236>>
    BY <2>1, <2>2, <2>3, <2>4
  <2>5. CASE ~(d # None /\ <<Mac(d)[1], Mac(d)[2], Mac(d)[3]>> = <<10, 179, 236>>)
    <3>1. script' = [script EXCEPT !.at = "uplink"]
      BY <2>3, <2>5
    <3> QED BY <3>1 DEF TypeOK
  <2> QED BY <2>4, <2>5
<1>3. TypeOK'
  BY <1>1, <1>2 DEF TypeOK, guests
<1>4. script'.eth = script.eth /\ script'.at \in {"awk", "uplink"}
  BY <1>2 DEF TypeOK
<1>5. ScriptRight' /\ Present'
  BY <1>1, <1>2, <1>4 DEF ScriptRight, Present, Working, HasRead
<1> QED BY <1>1, <1>3, <1>5, ScriptStep

LEMMA AwkInv == ASSUME Inv, Awk PROVE Inv'
<1> USE InvParts
<1>1. UNCHANGED <<guests, dev, seen, events, addr, up, route, stale>> /\ script.at = "awk"
  BY DEF Awk, tables
<1>2. script.eth \in Eth
  BY DEF TypeOK
<1>3. Present'
  BY <1>1 DEF Present
<1>4. CASE dev[script.eth] # None
  <2> DEFINE d == dev[script.eth]
  <2>1. script' = [script EXCEPT !.at = "addr", !.ip = Ip(fmt(Mac(d)))]
    BY <1>4 DEF Awk
  <2>2. d \in Client => Ip(fmt(Mac(d))) = CLIENT_IP(pid[d]) /\ CLIENT_IP(pid[d]) \in Address
    BY <1>2, ClientMac DEF Devices, TypeOK
  <2>3. Ip(fmt(Mac(d))) \in Address
    BY <2>2, <1>2, <1>4, UplinkAddress DEF TypeOK
  <2>4. TypeOK'
    BY <1>1, <2>1, <2>3 DEF TypeOK, HasRead, guests
  <2>5. script'.eth = script.eth /\ script'.ip = Ip(fmt(Mac(d)))
    BY <2>1 DEF TypeOK
  <2>6. ScriptRight'
    BY <1>1, <2>2, <2>5 DEF ScriptRight, Working, Behind, guests
  <2> QED BY <1>1, <1>3, <2>4, <2>6, ScriptStep
<1>5. CASE dev[script.eth] = None
  <2>1. script' = Idle \/ script' = [script EXCEPT !.at = "addr"]
    BY <1>5 DEF Awk, Stop, Then
  <2>2. TypeOK'
    BY <1>1, <2>1, Constants DEF TypeOK, HasRead, Idle, guests
  <2>3. script'.at = "idle" \/ script'.eth = script.eth
    BY <2>1 DEF TypeOK, Idle
  <2>4. ScriptRight'
    BY <1>1, <1>5, <2>3 DEF ScriptRight, Working, HasRead
  <2> QED BY <1>1, <1>3, <2>2, <2>4, ScriptStep
<1> QED BY <1>4, <1>5

(* The commands on the interface that set no route.                        *)
LEMMA LinkInv == ASSUME Inv, AddAddress \/ SetUp PROVE Inv'
<1> USE InvParts
<1>1. UNCHANGED <<guests, dev, seen, events, route, stale>> /\ script.at \in HasRead
  BY DEF AddAddress, SetUp, HasRead
<1>2. script.eth \in Eth
  BY DEF TypeOK
<1>3. \/ script' = Idle /\ UNCHANGED <<addr, up>>
      \/ /\ dev[script.eth] # None
         /\ \E s \in {"up", "route"} : script' = [script EXCEPT !.at = s]
         /\ addr' \in {addr, addr \cup {script.eth}} /\ up' \in {up, up \cup {script.eth}}
  BY DEF AddAddress, SetUp, Stop, Then
<1>4. TypeOK'
  BY <1>1, <1>2, <1>3, Constants DEF TypeOK, Idle, HasRead, guests
<1>5. Present'
  BY <1>1, <1>3 DEF Present
<1>6. \/ script'.at = "idle"
      \/ script'.eth = script.eth /\ script'.ip = script.ip
  BY <1>3 DEF TypeOK, Idle
<1>7. ScriptRight'
  BY <1>1, <1>6 DEF ScriptRight, Working, HasRead, Behind, guests
<1> QED BY <1>1, <1>4, <1>5, <1>7, ScriptStep

LEMMA MasqueradeInv == ASSUME Inv, Masquerade PROVE Inv'
<1> USE InvParts
<1>1. UNCHANGED <<guests, dev, seen, events, addr, up, route, stale>> /\ script' = Idle
  BY DEF Masquerade, tables, Stop
<1>2. TypeOK'
  BY <1>1, Constants DEF TypeOK, Idle, guests
<1>3. ScriptRight' /\ Present'
  BY <1>1 DEF ScriptRight, Present, Working, HasRead, Idle
<1> QED BY <1>1, <1>2, <1>3, ScriptStep

(* The route is added for the address that was read.                       *)
LEMMA AddRouteInv == ASSUME Inv, AddRoute PROVE Inv'
<1> USE InvParts
<1>1. UNCHANGED <<pid, alive, dev, seen, events, addr, up, stale>> /\ script' = Idle
  BY DEF AddRoute, guests, Stop
<1>2. script.at = "route" /\ script.eth \in Eth
  BY DEF AddRoute, TypeOK
<1>3. \/ route' = route
      \/ /\ script.ip \in Address /\ script.eth \in up
         /\ route' = [route EXCEPT ![script.ip] = script.eth]
  BY DEF AddRoute, TypeOK
<1>4. TypeOK'
  BY <1>1, <1>2, <1>3, Constants DEF TypeOK, Idle
<1>5. ScriptRight'
  BY <1>1 DEF Idle, ScriptRight, Working, HasRead
<1>6. Devices' /\ Present'
  BY <1>1, <1>4, GuestsSame
<1>7. RoutesRight'
  <2>1. CASE route' = route
    BY <2>1, <1>1 DEF RoutesRight, Behind
  <2>2. CASE route' # route
    <3> SUFFICES ASSUME NEW a \in Address, route'[a] # None
                 PROVE  /\ dev[route'[a]] # None
                        /\ route'[a] \notin stale => Behind(route'[a], a)
      BY <1>1 DEF RoutesRight, Behind
    <3>1. dev[script.eth] # None
      BY <1>3, <2>2 DEF Present
    <3>2. script.eth \notin stale => Behind(script.eth, script.ip)
      BY <3>1, <1>2 DEF ScriptRight, Working, HasRead
    <3>3. CASE a = script.ip
      <4>1. route'[a] = script.eth
        BY <3>3, <1>3, <2>2 DEF TypeOK
      <4> QED BY <4>1, <3>1, <3>2, <3>3
    <3>4. CASE a # script.ip
      <4>1. route'[a] = route[a]
        BY <3>4, <1>3, <2>2 DEF TypeOK
      <4> QED BY <4>1 DEF RoutesRight
    <3> QED BY <3>3, <3>4
  <2> QED BY <2>1, <2>2
<1> QED BY <1>4, <1>5, <1>6, <1>7, InvNext

LEMMA NextInv == ASSUME Inv, [Next]_vars PROVE Inv'
<1>1. CASE UNCHANGED vars
  <2>1. UNCHANGED <<pid, alive, dev, seen, events, script, addr, up, route, stale>>
    BY <1>1 DEF vars, guests, tables
  <2>2. TypeOK'
    BY <2>1 DEF Inv, TypeOK
  <2> QED BY <2>1, <2>2, GuestsSame, InvNext
<1>2. CASE Next
  BY <1>2, StartInv, UplinkInv, RestartInv, DieInv, ColdplugInv, DisappearInv, RunInv,
     GrepInv, AwkInv, LinkInv, MasqueradeInv, AddRouteInv
     DEF Next, Mdevd
<1> QED BY <1>1, <1>2

(* Pids tell the router's interfaces apart, and every route but those      *)
(* through an interface that took its name under a running script belongs  *)
(* to the client behind its interface (net.c:163-173,                      *)
(* vm/sys/net/etc/mdev/iface:9-22).                                        *)
THEOREM Invariance == Spec => []Inv
BY InitInv, NextInv, PTL DEF Spec

(* A client VM's address is routed to the client itself or to nobody, for  *)
(* all sequences of clients, pids, interface names and restarts of the     *)
(* router, but for routes through an interface that took its name while a  *)
(* script was at work on the one that had it before (iface:14-21).         *)
THEOREM Unmisrouted == Spec => []NoMisroute
<1>1. Inv => NoMisroute
  <2> SUFFICES ASSUME Inv, NEW c \in alive, route[LOCAL_IP(pid[c])] # None,
                      route[LOCAL_IP(pid[c])] \notin stale
               PROVE  dev[route[LOCAL_IP(pid[c])]] = c
    BY DEF NoMisroute
  <2> DEFINE a == LOCAL_IP(pid[c])
             n == route[a]
  <2>1. pid[c] \in Pid /\ c \in Client
    BY DEF Inv, TypeOK
  <2>2. a = CLIENT_IP(pid[c]) /\ a \in Address
    BY <2>1, SameAddress DEF Address
  <2>3. n \in Eth /\ Behind(n, a)
    BY <2>2 DEF Inv, TypeOK
  <2>4. dev[n] \in Client /\ pid[dev[n]] \in Pid /\ CLIENT_IP(pid[dev[n]]) = a
    BY <2>3 DEF Behind, Inv, TypeOK
  <2>5. pid[dev[n]] = pid[c]
    BY <2>1, <2>2, <2>4, OwnAddress
  <2>6. dev[n] = c
    BY <2>1, <2>3, <2>4, <2>5 DEF Inv
  <2> QED BY <2>6
<1> QED BY <1>1, Invariance, PTL

=============================================================================
