------------------------------- MODULE Router -------------------------------
(***************************************************************************)
(* router.c: static routes searched in the order of their slots, a cache   *)
(* of the hardware addresses that ARP replies announce.  One action for    *)
(* each callback of loop() and outcome of a command, one for each argument *)
(* main() parses.                                                          *)
(*                                                                         *)
(* An IPv4 address is a number of Width bits and a netmask its length.  Of *)
(* a packet the model keeps its destination and the size of its frame.     *)
(* Time to live and checksum pass through the code untouched.              *)
(***************************************************************************)
EXTENDS Integers, Sequences, FiniteSets

CONSTANTS
    Width,             \* bits of an address, 32 in the code
    Mac,               \* the hardware addresses
    NoMac,             \* what a slot holds that was never used
    Frame,             \* the frames that arrive
    Command,           \* the lines the operator may type
    CommandLine,       \* the command lines: sequences of arguments
    MaxType,           \* the largest interface number a message may carry
    ARP_CACHE_SIZE,    \* 256 in the code
    ROUTE_TABLE_SIZE   \* 256 in the code

Ip == 0..(2^Width - 1)
Word == 0..65535

NO_MTU == -1        \* the argument has no "=MTU"
NotANumber == -2

Arg == [name : STRING, wellformed : BOOLEAN, ip : Ip, len : Nat, mtu : Int]

FrameType == [kind : {"ipv4", "arp", "other"}, size : Nat, oper : Nat,
              sender_ha : Mac, sender_pa : Ip, target : Ip]

CommandType == [verb : {"arp", "route", "other"},
                sub : {"add", "del", "list", "other"},
                words : 0..5, network : Ip, len : Nat, hop : Ip, dev : STRING]

ASSUME RouterAssumption ==
    /\ Width \in Nat
    /\ \A n \in 0..Width : 2^n \in Nat \ {0}  \* arithmetic the provers do not know
    /\ NoMac \notin Mac
    /\ Frame \subseteq FrameType
    /\ Command \subseteq CommandType
    /\ CommandLine \subseteq Seq(Arg)
    /\ MaxType \in Nat
    /\ ARP_CACHE_SIZE \in Nat \ {0}
    /\ ROUTE_TABLE_SIZE \in Nat \ {0}

VARIABLES
    phase,        \* "parsing", "waiting" for the MAC list, "running", "exited"
    argv,         \* the arguments
    gifc,         \* the interfaces parsed so far
    route_table,
    arp_cache,
    rx,           \* the frame handled last and its interface (0: none)
    out,          \* the frames sent for it
    cmd,          \* the command handled last
    neighbour     \* history: what each address was last announced to be

vars == <<phase, argv, gifc, route_table, arp_cache, rx, out, cmd, neighbour>>

CacheSlot == 0..(ARP_CACHE_SIZE - 1)
RouteSlot == 0..(ROUTE_TABLE_SIZE - 1)

NoEntry == [ip |-> 0, mac |-> NoMac, valid |-> FALSE]
NoRoute == [network |-> 0, len |-> 0, hop |-> 0, ifc |-> 0, valid |-> FALSE]
NoFrame == [ifc |-> 0, frame |-> <<>>]
NoCommand == [verb |-> "none"]
Nobody == [ip \in Ip |-> NoMac]

EthernetSize == 14
IPv4Size == 20
ArpSize == 28

First(S) == CHOOSE s \in S : \A t \in S : s <= t
-----------------------------------------------------------------------------
(***************************************************************************)
(* Start-up.  An argument "name[IPV4:ip/len]=mtu" is wellformed when its   *)
(* brackets, its "IPV4:" and its address are there.                        *)
(***************************************************************************)
parse_network_unbounded(len) == len \in Nat
parse_network(len) == len <= Width

parse_cmd_arg(a) ==
    /\ a.wellformed
    /\ parse_network(a.len)
    /\ a.mtu # NO_MTU => a.mtu >= 400 /\ a.mtu <= 65535

InterfaceOf_no_default(a) ==
    [name |-> a.name, ip |-> a.ip, len |-> a.len, mac |-> NoMac,
     mtu |-> IF a.mtu = NO_MTU THEN 0 ELSE (a.mtu + EthernetSize) % 65536]

\* The header is added to the MTU in 16 bits.
InterfaceOf(a) ==
    [name |-> a.name, ip |-> a.ip, len |-> a.len, mac |-> NoMac,
     mtu |-> IF a.mtu = NO_MTU THEN 1500 + EthernetSize
             ELSE (a.mtu + EthernetSize) % 65536]

\* The end of the process, and of its memory.
Exit ==
    /\ phase' = "exited"
    /\ route_table' = [s \in RouteSlot |-> NoRoute]
    /\ arp_cache' = [s \in CacheSlot |-> NoEntry]
    /\ out' = {}
    /\ cmd' = NoCommand
    /\ neighbour' = Nobody
    /\ UNCHANGED <<argv, gifc>>

\* One round of main's loop over the arguments; abort() at a bad one.
ParseArg ==
    /\ phase = "parsing"
    /\ Len(gifc) < Len(argv)
    /\ parse_cmd_arg(argv[Len(gifc) + 1])
    /\ gifc' = Append(gifc, InterfaceOf(argv[Len(gifc) + 1]))
    /\ UNCHANGED <<phase, argv, route_table, arp_cache, rx, out, cmd, neighbour>>

ParseArg_abort ==
    /\ phase = "parsing"
    /\ Len(gifc) < Len(argv)
    /\ ~parse_cmd_arg(argv[Len(gifc) + 1])
    /\ Exit
    /\ UNCHANGED rx

EnterLoop ==
    /\ phase = "parsing"
    /\ Len(gifc) = Len(argv)
    /\ phase' = "waiting"
    /\ UNCHANGED <<argv, gifc, route_table, arp_cache, rx, out, cmd, neighbour>>

num_ifc == Len(gifc)

\* The first control message is the MAC list.
handle_mac(list) ==
    /\ phase = "waiting"
    /\ phase' = "running"
    /\ gifc' = [p \in 1..num_ifc |-> [gifc[p] EXCEPT !.mac = list[p]]]
    /\ UNCHANGED <<argv, route_table, arp_cache, rx, out, cmd, neighbour>>

\* A list longer than the command line, of a driver with more interfaces:
\* abort().
handle_mac_abort ==
    /\ phase = "waiting"
    /\ rx' = NoFrame
    /\ Exit
-----------------------------------------------------------------------------
(***************************************************************************)
(* The two tables.                                                         *)
(***************************************************************************)
Cached_not_last(cache, ip) ==
    {s \in CacheSlot : cache[s].valid /\ cache[s].ip = ip /\ s < ARP_CACHE_SIZE - 1}

\* The slots of the cache that answer for an address.
Cached(cache, ip) == {s \in CacheSlot : cache[s].valid /\ cache[s].ip = ip}

\* The hardware address of a neighbour, NoMac when it is unknown.
lookup_arp_cache(ip) ==
    IF Cached(arp_cache, ip) = {} THEN NoMac
    ELSE arp_cache[First(Cached(arp_cache, ip))].mac

FreeEntries_but_last ==
    {s \in CacheSlot : ~arp_cache[s].valid /\ s < ARP_CACHE_SIZE - 1}

FreeEntries == {s \in CacheSlot : ~arp_cache[s].valid}

\* The slot of the address, else the first free one, else always slot 0.
SlotFor_fresh(ip) == IF FreeEntries # {} THEN First(FreeEntries) ELSE 0

SlotFor(ip) ==
    IF Cached(arp_cache, ip) # {} THEN First(Cached(arp_cache, ip))
    ELSE IF FreeEntries # {} THEN First(FreeEntries)
    ELSE 0

add_to_arp_cache(ip, mac) ==
    [arp_cache EXCEPT ![SlotFor(ip)] = [ip |-> ip, mac |-> mac, valid |-> TRUE]]

Masked(ip, len) == ip - (ip % 2^(Width - len))

Matching(ip) ==
    {s \in RouteSlot :
        /\ route_table[s].valid
        /\ Masked(ip, route_table[s].len) = route_table[s].network}

Known(name) == \E p \in 1..num_ifc : gifc[p].name = name

\* Names may repeat; the first interface wins.
find_interface(name) == First({p \in 1..num_ifc : gifc[p].name = name})

FreeRoutes == {s \in RouteSlot : ~route_table[s].valid}

\* The routes a "del" speaks of: next hop and interface are not compared.
SameNetwork_any_mask(c) ==
    {s \in RouteSlot : route_table[s].valid /\ route_table[s].network = c.network}

SameNetwork(c) ==
    {s \in RouteSlot :
        /\ route_table[s].valid
        /\ route_table[s].network = c.network
        /\ route_table[s].len = c.len}
-----------------------------------------------------------------------------
(***************************************************************************)
(* Frames.                                                                 *)
(***************************************************************************)
IsPacket(f) == f.kind = "ipv4" /\ f.size >= EthernetSize + IPv4Size
IsArp(f) == f.kind = "arp" /\ f.size >= EthernetSize + ArpSize

\* ip: where a packet goes, or the address an ARP reply speaks for.
forward_frame_payload_to(p, ha, kind, ip, size) ==
    {[type |-> p, dst |-> ha, src |-> gifc[p].mac, kind |-> kind, ip |-> ip,
      size |-> size + EthernetSize]}

\* The code hands the copy of the header with the size of what follows it to
\* forward_frame_payload_to: the frame that leaves is a header's length
\* short, and beyond its header it holds what the stack happens to hold.
route(f) ==
    IF Matching(f.target) = {} THEN {}
    ELSE LET r == route_table[First(Matching(f.target))]
             ha == lookup_arp_cache(r.hop)
         IN IF ha = NoMac THEN {}
            ELSE forward_frame_payload_to(r.ifc, ha, "ipv4", f.target,
                                          f.size - EthernetSize - IPv4Size)

\* The answer to a request for the interface's own address.
handle_arp(i, f) ==
    IF f.oper = 1 /\ f.target = gifc[i].ip
    THEN forward_frame_payload_to(i, f.sender_ha, "arp", gifc[i].ip, ArpSize)
    ELSE {}

parse_frame(i, f) ==
    IF IsPacket(f) THEN route(f)
    ELSE IF IsArp(f) THEN handle_arp(i, f)
    ELSE {}

\* forward_to and forward_frame_payload_to abort() at a frame beyond the MTU.
Fits(m) == m.size <= gifc[m.type].mtu

IsReply(f) == IsArp(f) /\ f.oper = 2

handle_frame(i, f) ==
    /\ phase = "running"
    /\ i <= num_ifc
    /\ \A m \in parse_frame(i, f) : Fits(m)
    /\ rx' = [ifc |-> i, frame |-> f]
    /\ out' = parse_frame(i, f)
    /\ cmd' = NoCommand
    /\ IF IsReply(f)
       THEN /\ arp_cache' = add_to_arp_cache(f.sender_pa, f.sender_ha)
            /\ neighbour' = [neighbour EXCEPT ![f.sender_pa] = f.sender_ha]
       ELSE UNCHANGED <<arp_cache, neighbour>>
    /\ UNCHANGED <<phase, argv, gifc, route_table>>

handle_frame_abort(i, f) ==
    /\ phase = "running"
    /\ i <= num_ifc => \E m \in parse_frame(i, f) : ~Fits(m)
    /\ rx' = [ifc |-> i, frame |-> f]
    /\ Exit
-----------------------------------------------------------------------------
(***************************************************************************)
(* Commands.  words says how many of the words <network> "via" <next hop>  *)
(* "dev" <name> are there and wellformed before the first that is not.     *)
(***************************************************************************)
parse_route(c) == c.words = 5 /\ parse_network(c.len) /\ Known(c.dev)

\* A command that ends after "dev": strcasecmp() is called with NULL.
NullDevice(c) ==
    /\ c.verb = "route" /\ c.sub \in {"add", "del"}
    /\ c.words = 4 /\ parse_network(c.len)
    /\ num_ifc > 0

process_cmd_route_add(c) ==
    IF FreeRoutes = {} THEN route_table
    ELSE [route_table EXCEPT ![First(FreeRoutes)] =
            [network |-> c.network, len |-> c.len, hop |-> c.hop,
             ifc |-> find_interface(c.dev), valid |-> TRUE]]

process_cmd_route_del(c) ==
    IF SameNetwork(c) = {} THEN route_table
    ELSE [route_table EXCEPT ![First(SameNetwork(c))].valid = FALSE]

process_cmd_route(c) ==
    IF c.sub = "add" /\ parse_route(c) THEN process_cmd_route_add(c)
    ELSE IF c.sub = "del" /\ parse_route(c) THEN process_cmd_route_del(c)
    ELSE route_table

\* "arp" and every other command print at most.
handle_control(c) ==
    /\ phase = "running"
    /\ ~NullDevice(c)
    /\ route_table' = IF c.verb = "route" THEN process_cmd_route(c)
                      ELSE route_table
    /\ rx' = NoFrame
    /\ out' = {}
    /\ cmd' = c
    /\ UNCHANGED <<phase, argv, gifc, arp_cache, neighbour>>

handle_control_crash(c) ==
    /\ phase = "running"
    /\ NullDevice(c)
    /\ rx' = NoFrame
    /\ Exit

EndOfInput ==
    /\ phase \in {"waiting", "running"}
    /\ rx' = NoFrame
    /\ Exit
-----------------------------------------------------------------------------
Init ==
    /\ phase = "parsing"
    /\ argv \in CommandLine
    /\ gifc = <<>>
    /\ route_table = [s \in RouteSlot |-> NoRoute]
    /\ arp_cache = [s \in CacheSlot |-> NoEntry]
    /\ rx = NoFrame
    /\ out = {}
    /\ cmd = NoCommand
    /\ neighbour = Nobody

Next ==
    \/ ParseArg
    \/ ParseArg_abort
    \/ EnterLoop
    \/ \E list \in [1..num_ifc -> Mac] : handle_mac(list)
    \/ handle_mac_abort
    \/ \E i \in 1..MaxType, f \in Frame : handle_frame(i, f)
    \/ \E i \in 1..MaxType, f \in Frame : handle_frame_abort(i, f)
    \/ \E c \in Command : handle_control(c)
    \/ \E c \in Command : handle_control_crash(c)
    \/ EndOfInput

Spec == Init /\ [][Next]_vars
-----------------------------------------------------------------------------
(***************************************************************************)
(* Properties.                                                             *)
(***************************************************************************)
Interface == [name : STRING, ip : Ip, len : 0..Width, mac : Mac \cup {NoMac},
              mtu : Word]

CacheEntry == [ip : Ip, mac : Mac \cup {NoMac}, valid : BOOLEAN]

RouteEntry == [network : Ip, len : 0..Width, hop : Ip, ifc : Nat,
               valid : BOOLEAN]

Sent == [type : 1..Len(gifc), dst : Mac, src : Mac, kind : {"ipv4", "arp"},
         ip : Ip, size : Word]

\* The type invariant: netmasks have at most Width bits, every route names an
\* interface there is, no slot is written outside its table, and a frame that is
\* sent has at most 65535 octets, without the header of its message.
TypeOK ==
    /\ phase \in {"parsing", "waiting", "running", "exited"}
    /\ argv \in CommandLine
    /\ gifc \in Seq(Interface)
    /\ route_table \in [RouteSlot -> RouteEntry]
    /\ \A s \in RouteSlot : route_table[s].valid => route_table[s].ifc \in 1..num_ifc
    /\ arp_cache \in [CacheSlot -> CacheEntry]
    /\ rx.ifc \in 0..MaxType
    /\ rx.ifc # 0 => rx.frame \in Frame
    /\ out \subseteq Sent
    /\ cmd \in Command \cup {NoCommand}
    /\ neighbour \in [Ip -> Mac \cup {NoMac}]

Prefix == \A s, t \in CacheSlot : arp_cache[t].valid /\ s < t => arp_cache[s].valid

Single ==
    \A s, t \in CacheSlot :
        arp_cache[s].valid /\ arp_cache[t].valid /\ arp_cache[s].ip = arp_cache[t].ip
            => s = t

Current ==
    \A s \in CacheSlot :
        arp_cache[s].valid => /\ arp_cache[s].mac = neighbour[arp_cache[s].ip]
                              /\ arp_cache[s].mac # NoMac

\* The cache never holds two opinions about an address, nor an outdated one,
\* whatever was announced, replaced and announced again; its entries fill the
\* slots from 0 on, which lets add_to_arp_cache stop at the first free slot.
CacheSound == Prefix /\ Single /\ Current

\* An address is forgotten only at the end of the program, or when another
\* one is announced while every slot is taken, and then it is the only one.
CacheKept ==
    [][\A ip \in Ip :
         Cached(arp_cache, ip) # {} /\ Cached(arp_cache', ip) = {}
            => \/ phase' = "exited"
               \/ /\ \A s \in CacheSlot : arp_cache[s].valid
                  /\ \A s \in CacheSlot :
                       arp_cache'[s] # arp_cache[s] => arp_cache[s].ip = ip]_vars

Announced == {ip \in Ip : neighbour[ip] # NoMac}

\* While the cache is large enough for everyone who announced an address, a
\* packet that has a route through one of them is sent there, under the
\* address announced last, over the route's interface (route, forward_to).
NeighbourReached ==
    /\ phase = "running"
    /\ rx.ifc # 0
    /\ IsPacket(rx.frame)
    /\ Matching(rx.frame.target) # {}
    /\ Cardinality(Announced) <= ARP_CACHE_SIZE
    => LET r == route_table[First(Matching(rx.frame.target))] IN
         r.hop \in Announced =>
            \E m \in out : m.type = r.ifc /\ m.dst = neighbour[r.hop]

\* "Route the @a ip packet with its @a payload", the comment above route().
PacketKept ==
    \A m \in out : m.kind = "ipv4" => m.size = rx.frame.size

\* A frame ends the program only if its interface does not exist, if an MTU
\* wraps when the header is added, or if the frame is longer than an MTU that
\* was given; never one that merely arrives (forward_to, parse_cmd_arg).
FrameSurvived ==
    phase = "exited" /\ rx.ifc # 0 =>
        \/ rx.ifc > Len(argv)
        \/ \E p \in DOMAIN argv :
               argv[p].mtu # NO_MTU /\ argv[p].mtu > 65535 - EthernetSize
        \/ \E p \in DOMAIN argv :
               rx.frame.size > EthernetSize + (IF argv[p].mtu = NO_MTU THEN 1500
                                               ELSE argv[p].mtu)

\* The router implements the abstract forwarder.
Delivery(m) == [port |-> m.type, kind |-> m.kind, ip |-> m.ip, dst |-> m.dst]

F == INSTANCE Forwarder WITH
    up <- phase = "running",
    address <- IF phase = "running" THEN [p \in 1..num_ifc |-> gifc[p].ip]
               ELSE <<>>,
    Handle <- RouteSlot,
    routes <- [s \in {t \in RouteSlot : route_table[t].valid} |->
                 [network |-> route_table[s].network, len |-> route_table[s].len,
                  hop |-> route_table[s].hop, port |-> route_table[s].ifc]],
    request <- IF cmd.verb = "route"
               THEN [op |-> cmd.sub, network |-> cmd.network, len |-> cmd.len,
                     hop |-> cmd.hop]
               ELSE [op |-> "none", network |-> 0, len |-> 0, hop |-> 0],
    delivered <- {Delivery(m) : m \in out}

\* A packet goes only where a route that was added and not deleted sends it,
\* to the hardware address its next hop announced last; a deletion removes
\* one route of exactly that network; requests are answered truthfully.
ImplementsForwarder == F!Spec
=============================================================================
