-------------------------------- MODULE Arp --------------------------------
(***************************************************************************)
(* arp.c: answers ARP requests for the addresses of its interfaces and     *)
(* keeps what ARP replies say in a direct-mapped cache.  One action for    *)
(* each callback of loop() and outcome, one for each argument main()       *)
(* parses.                                                                 *)
(*                                                                         *)
(* Addresses are written in pieces of two octets, because the code lets    *)
(* one kind of address overlay the other: an IPv4 address has two pieces,  *)
(* a hardware address three.                                               *)
(***************************************************************************)
EXTENDS Integers, Sequences, FiniteSets

CONSTANTS
    Half,           \* the values of two octets, 0..65535 in the code
    OwnMac,         \* the hardware addresses the interfaces may have
    NoMac,          \* what a slot holds that was never used
    Frame,          \* the frames that arrive
    Header,         \* what the buffer behind a short frame may hold
    CommandLine,    \* the command lines: sequences of arguments
    MaxType,        \* the largest interface number a message may carry
    ARP_CACHE_SIZE  \* 256 in the code

Ip == Half \X Half
Ha == Half \X Half \X Half
Word == 0..65535

NO_MTU == -1        \* the argument has no "=MTU"
NotANumber == -2

\* An argument "name[IPV4:ip/mask]=mtu" is wellformed when its brackets, its
\* "IPV4:" and its address are there.
Arg == [wellformed : BOOLEAN, ip : Ip, mask : Nat, mtu : Int]

\* wellformed: Ethernet, IPv4 and the lengths of their addresses.
ArpHeader == [wellformed : BOOLEAN, oper : Nat, sender_ha : Ha, sender_pa : Ip,
              target_ha : Ha, target_pa : Ip]

FrameType == [tag : {"arp", "other"}, size : Nat, src : Ha, arp : ArpHeader]

ASSUME ArpAssumption ==
    /\ Half \subseteq Nat
    /\ 0 \in Half
    /\ OwnMac \subseteq Ha
    /\ NoMac \notin Ha
    /\ Frame \subseteq FrameType
    /\ Header \subseteq ArpHeader
    /\ CommandLine \subseteq Seq(Arg)
    /\ MaxType \in Nat
    /\ ARP_CACHE_SIZE \in Nat \ {0}

VARIABLES
    phase,      \* "parsing", "waiting" for the MAC list, "running", "exited"
    argv,       \* the arguments
    gifc,       \* the interfaces parsed so far
    arp_cache,
    rx,         \* the frame handled last, the header read, its interface
    out,        \* the answer sent for it
    learnt      \* history: what the cache was last told about each address

vars == <<phase, argv, gifc, arp_cache, rx, out, learnt>>

Slot == 0..(ARP_CACHE_SIZE - 1)

NoEntry == [ip |-> <<0, 0>>, mac |-> NoMac, valid |-> FALSE]
NoFrame == [ifc |-> 0, frame |-> <<>>, header |-> <<>>]
Nothing == [ip \in Ip |-> NoMac]

EthernetSize == 14
ArpSize == 28
ReplySize == EthernetSize + ArpSize
-----------------------------------------------------------------------------
(***************************************************************************)
(* Start-up.                                                               *)
(***************************************************************************)
parse_cmd_arg_any_mtu(a) == a.wellformed /\ a.mask <= 32 /\ a.mtu # NotANumber

parse_cmd_arg(a) ==
    /\ a.wellformed
    /\ a.mask <= 32
    /\ a.mtu # NO_MTU => a.mtu >= 400

InterfaceOf_wide(a) ==
    [ip |-> a.ip, mac |-> NoMac,
     mtu |-> IF a.mtu = NO_MTU THEN 1500 + EthernetSize ELSE a.mtu + EthernetSize]

\* The header is added to the MTU in 16 bits, and nothing bounds the MTU.
InterfaceOf(a) ==
    [ip |-> a.ip, mac |-> NoMac,
     mtu |-> IF a.mtu = NO_MTU THEN 1500 + EthernetSize
             ELSE (a.mtu + EthernetSize) % 65536]

\* The end of the process, and of its memory.
Exit ==
    /\ phase' = "exited"
    /\ arp_cache' = [s \in Slot |-> NoEntry]
    /\ out' = {}
    /\ learnt' = Nothing
    /\ UNCHANGED <<argv, gifc>>

\* One round of main's loop over the arguments; abort() at a bad one.
ParseArg ==
    /\ phase = "parsing"
    /\ Len(gifc) < Len(argv)
    /\ parse_cmd_arg(argv[Len(gifc) + 1])
    /\ gifc' = Append(gifc, InterfaceOf(argv[Len(gifc) + 1]))
    /\ UNCHANGED <<phase, argv, arp_cache, rx, out, learnt>>

ParseArg_abort ==
    /\ phase = "parsing"
    /\ Len(gifc) < Len(argv)
    /\ ~parse_cmd_arg(argv[Len(gifc) + 1])
    /\ Exit
    /\ UNCHANGED rx

EnterLoop ==
    /\ phase = "parsing"
    /\ Len(gifc) = Len(argv)
    /\ phase' = "waiting"
    /\ UNCHANGED <<argv, gifc, arp_cache, rx, out, learnt>>

num_ifc == Len(gifc)

\* The first control message is the MAC list.
handle_mac(list) ==
    /\ phase = "waiting"
    /\ phase' = "running"
    /\ gifc' = [p \in 1..num_ifc |-> [gifc[p] EXCEPT !.mac = list[p]]]
    /\ UNCHANGED <<argv, arp_cache, rx, out, learnt>>

\* A list longer than the command line, of a driver with more interfaces:
\* abort().
handle_mac_abort ==
    /\ phase = "waiting"
    /\ rx' = NoFrame
    /\ Exit
-----------------------------------------------------------------------------
(***************************************************************************)
(* The cache.                                                              *)
(***************************************************************************)
\* The address taken without ntohl(): its first octets decide.
hash_ip_unswapped(ip) == ip[1] % ARP_CACHE_SIZE

hash_ip(ip) == ip[2] % ARP_CACHE_SIZE

\* Refreshes a used entry without taking over the address.
add_to_arp_cache_refresh(ip, mac) ==
    IF arp_cache[hash_ip(ip)].valid
    THEN [arp_cache EXCEPT ![hash_ip(ip)].mac = mac]
    ELSE [arp_cache EXCEPT ![hash_ip(ip)] = [ip |-> ip, mac |-> mac, valid |-> TRUE]]

add_to_arp_cache(ip, mac) ==
    [arp_cache EXCEPT ![hash_ip(ip)] = [ip |-> ip, mac |-> mac, valid |-> TRUE]]

\* NoMac when the address is unknown.
lookup_arp_cache(ip) ==
    LET e == arp_cache[hash_ip(ip)]
    IN IF e.valid /\ e.ip = ip THEN e.mac ELSE NoMac
-----------------------------------------------------------------------------
(***************************************************************************)
(* Frames.  The length is checked for the Ethernet header only: the ARP    *)
(* header of a shorter frame is whatever the buffer of loop() holds there. *)
(***************************************************************************)
IsArp(f) == f.size >= EthernetSize /\ f.tag = "arp"

HeadersRead(f) ==
    IF IsArp(f) /\ f.size < EthernetSize + ArpSize THEN Header ELSE {f.arp}

Interface_next(i) == IF i < num_ifc THEN gifc[i + 1] ELSE gifc[i]
InterfaceNumber(i) == gifc[i]

IsRequest(f, i, h) ==
    /\ IsArp(f) /\ h.wellformed
    /\ h.oper = 1
    /\ h.target_pa = InterfaceNumber(i).ip

IsReply(f, h) == IsArp(f) /\ h.wellformed /\ h.oper = 2

Answer(f, i, h) ==
    [type |-> i, dst |-> f.src, src |-> InterfaceNumber(i).mac,
     sender_ha |-> InterfaceNumber(i).mac, sender_pa |-> InterfaceNumber(i).ip,
     target_ha |-> h.sender_ha, target_pa |-> h.sender_pa]

\* add_to_arp_cache(&ah.sender_ha, &ah.sender_pa): its first parameter is an
\* IPv4 address and its second a hardware address.  The key is the first four
\* octets of the sender's hardware address, the value the sender's IPv4 address
\* and the two octets that follow it in the header.
KeyOf(h) == <<h.sender_ha[1], h.sender_ha[2]>>
ValueOf(h) == <<h.sender_pa[1], h.sender_pa[2], h.target_ha[1]>>

\* forward_to aborts at a frame beyond the interface's MTU.
Fits(i) == ReplySize <= InterfaceNumber(i).mtu

handle_frame(i, f, h) ==
    /\ phase = "running"
    /\ i <= num_ifc
    /\ IsRequest(f, i, h) => Fits(i)
    /\ rx' = [ifc |-> i, frame |-> f, header |-> h]
    /\ out' = IF IsRequest(f, i, h) THEN {Answer(f, i, h)} ELSE {}
    /\ IF IsReply(f, h)
       THEN /\ arp_cache' = add_to_arp_cache(KeyOf(h), ValueOf(h))
            /\ learnt' = [learnt EXCEPT ![KeyOf(h)] = ValueOf(h)]
       ELSE UNCHANGED <<arp_cache, learnt>>
    /\ UNCHANGED <<phase, argv, gifc>>

handle_frame_abort(i, f, h) ==
    /\ phase = "running"
    /\ i <= num_ifc => IsRequest(f, i, h) /\ ~Fits(i)
    /\ rx' = [ifc |-> i, frame |-> f, header |-> h]
    /\ Exit

\* "arp" parses its arguments and looks nothing up; other commands print.
handle_control ==
    /\ phase = "running"
    /\ rx' = NoFrame
    /\ out' = {}
    /\ UNCHANGED <<phase, argv, gifc, arp_cache, learnt>>

\* A line without a word: strcasecmp() is called with NULL.
handle_control_crash ==
    /\ phase = "running"
    /\ rx' = NoFrame
    /\ Exit

EndOfInput ==
    /\ phase \in {"waiting", "running"}
    /\ rx' = NoFrame
    /\ Exit
-----------------------------------------------------------------------------
Init ==
    /\ phase = "parsing"
    /\ argv \in CommandLine
    /\ gifc = <<>>
    /\ arp_cache = [s \in Slot |-> NoEntry]
    /\ rx = NoFrame
    /\ out = {}
    /\ learnt = Nothing

Next ==
    \/ ParseArg
    \/ ParseArg_abort
    \/ EnterLoop
    \/ \E list \in [1..num_ifc -> OwnMac] : handle_mac(list)
    \/ handle_mac_abort
    \/ \E i \in 1..MaxType, f \in Frame : \E h \in HeadersRead(f) :
            handle_frame(i, f, h)
    \/ \E i \in 1..MaxType, f \in Frame : \E h \in HeadersRead(f) :
            handle_frame_abort(i, f, h)
    \/ handle_control
    \/ handle_control_crash
    \/ EndOfInput

Spec == Init /\ [][Next]_vars
-----------------------------------------------------------------------------
(***************************************************************************)
(* Properties.                                                             *)
(***************************************************************************)
Interface == [ip : Ip, mac : Ha \cup {NoMac}, mtu : Word]
CacheEntry == [ip : Ip, mac : Ha \cup {NoMac}, valid : BOOLEAN]

Sent == [type : 1..Len(gifc), dst : Ha, src : Ha, sender_ha : Ha, sender_pa : Ip,
         target_ha : Ha, target_pa : Ip]

\* The type invariant: whatever is read as a header, the slot written is in the
\* table, and no answer is sent from an interface whose address is not known.
TypeOK ==
    /\ phase \in {"parsing", "waiting", "running", "exited"}
    /\ argv \in CommandLine
    /\ gifc \in Seq(Interface)
    /\ arp_cache \in [Slot -> CacheEntry]
    /\ rx.ifc \in 0..MaxType
    /\ rx.ifc # 0 => rx.frame \in Frame /\ rx.header \in ArpHeader
    /\ out \subseteq Sent
    /\ learnt \in [Ip -> Ha \cup {NoMac}]

\* What the cache answers for an address is what it was last told about that
\* very address, also after other addresses took the slot and it came back
\* (add_to_arp_cache, lookup_arp_cache).
CacheSound ==
    /\ \A s \in Slot : arp_cache[s].valid => hash_ip(arp_cache[s].ip) = s
    /\ \A ip \in Ip :
         lookup_arp_cache(ip) # NoMac => lookup_arp_cache(ip) = learnt[ip]

SameSlot(a, b) == a[2] % ARP_CACHE_SIZE = b[2] % ARP_CACHE_SIZE

\* An address is forgotten only at the end of the program, or for a new one of
\* the same slot (hash_ip).
CacheKept ==
    [][\A ip \in Ip :
         lookup_arp_cache(ip) # NoMac /\ lookup_arp_cache(ip)' = NoMac
            => \/ phase' = "exited"
               \/ \E other \in Ip : /\ SameSlot(ip, other)
                                    /\ lookup_arp_cache(other) = NoMac
                                    /\ lookup_arp_cache(other)' # NoMac]_vars

\* What was asked, on which interface, for the address given to that interface
\* on the command line.  Of a short frame: what was read in place of its header.
Asked ==
    /\ rx.ifc # 0 /\ IsArp(rx.frame) /\ rx.header.wellformed
    /\ rx.header.oper = 1
    /\ rx.header.target_pa = argv[rx.ifc].ip

\* A request is answered exactly when it is for the address its interface was
\* given, on that interface, to the asker, in the name of that address
\* (parse_frame, and the numbering of main, loop and handle_mac).
AnsweredForOwnAddress ==
    phase = "running" =>
        /\ out # {} <=> Asked
        /\ \A m \in out : /\ m.type = rx.ifc /\ m.dst = rx.frame.src
                          /\ m.sender_pa = argv[rx.ifc].ip
                          /\ m.sender_ha = gifc[rx.ifc].mac

\* No frame ends the program, however short, unless its interface does not
\* exist or was given an MTU that wraps (forward_to, parse_cmd_arg).
FrameSurvived ==
    phase = "exited" /\ rx.ifc # 0 =>
        \/ rx.ifc > Len(argv)
        \/ argv[rx.ifc].mtu > 65535 - EthernetSize

\* The comment on the call of add_to_arp_cache, "store senders MAC and IP in
\* ARP cache": after a reply the cache knows the sender.
SenderStored ==
    rx.ifc # 0 /\ phase = "running" /\ IsReply(rx.frame, rx.header) =>
        lookup_arp_cache(rx.header.sender_pa) = rx.header.sender_ha
=============================================================================
