------------------------------ MODULE MCRouter ------------------------------
(* A small instance of Router: two interfaces, addresses of two bits.      *)
EXTENDS Router

CONSTANTS m1, m2, none

Argument(name, ip, len, mtu) ==
    [name |-> name, wellformed |-> TRUE, ip |-> ip, len |-> len, mtu |-> mtu]

Net(network, len, hop, dev) ==
    [verb |-> "route", sub |-> "add", words |-> 5, network |-> network,
     len |-> len, hop |-> hop, dev |-> dev]
Deleted(c) == [c EXCEPT !.sub = "del"]

Packet(dst, size) ==
    [kind |-> "ipv4", size |-> size, oper |-> 0, sender_ha |-> m1,
     sender_pa |-> 0, target |-> dst]
Arp(oper, ha, pa, target, size) ==
    [kind |-> "arp", size |-> size, oper |-> oper, sender_ha |-> ha,
     sender_pa |-> pa, target |-> target]

Eth0 == Argument("eth0", 0, 1, NO_MTU)
Eth1 == Argument("eth1", 2, 1, 400)

\* A default route, a network, a host, a route no packet matches (its network
\* has host bits), two commands that fail, one that crashes the program.
Default == Net(0, 0, 1, "eth0")
Upper == Net(2, 1, 3, "eth1")
Host == Net(2, 2, 1, "eth1")
Commands ==
    {Default, Upper, Host, Deleted(Default), Deleted(Host),
     Net(3, 1, 1, "eth1"),
     Net(0, 0, 1, "wlan"), Net(0, 3, 1, "eth0"), [Upper EXCEPT !.words = 4],
     [Default EXCEPT !.verb = "arp"], [Default EXCEPT !.sub = "list"]}

\* Three neighbours for two slots, one of which changes its address; packets
\* to every network, too short, and too long for eth1 even cut short.
Frames ==
    {Packet(0, 34), Packet(2, 60), Packet(2, 435), Packet(3, 33),
     Arp(2, m1, 1, 0, 42), Arp(2, m2, 1, 0, 42), Arp(2, m2, 3, 0, 60),
     Arp(2, m1, 2, 0, 42), Arp(2, m1, 3, 0, 41),
     Arp(1, m2, 3, 2, 42), Arp(3, m2, 3, 2, 42),
     [Packet(0, 34) EXCEPT !.kind = "other"]}

Lines ==
    {<<Eth0, Eth1>>, <<Eth0, [Eth1 EXCEPT !.name = "eth0"]>>,
     <<[Eth0 EXCEPT !.len = 3]>>, <<[Eth0 EXCEPT !.mtu = 399]>>,
     <<[Eth0 EXCEPT !.mtu = 65536]>>, <<[Eth0 EXCEPT !.mtu = NotANumber]>>,
     <<[Eth0 EXCEPT !.wellformed = FALSE]>>,
     <<[Eth1 EXCEPT !.mtu = 65530]>>}
=============================================================================
