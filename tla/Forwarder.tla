----------------------------- MODULE Forwarder ------------------------------
(***************************************************************************)
(* What a router with static routes promises, whatever tables it keeps.    *)
(*                                                                         *)
(* It holds the routes it was asked to add, each under a handle, until it  *)
(* is asked to delete one, and remembers, for every neighbour, the hardware*)
(* address it announced last.  A packet is delivered to the next hop of    *)
(* some route to its destination, under the address that hop announced     *)
(* last, or dropped: a neighbour may be forgotten, never mistaken.  Which  *)
(* of several routes is taken is left open.  Router implements this        *)
(* specification.                                                          *)
(***************************************************************************)
EXTENDS Integers

CONSTANTS
    Width,    \* the number of bits of an address
    Mac,      \* the hardware addresses
    NoMac,    \* none of them
    Handle    \* the handles of routes

VARIABLES
    up,         \* is the router running?
    address,    \* the addresses of its ports
    routes,     \* the routes it holds: a function on the handles in use
    neighbour,  \* the hardware address each neighbour announced last
    request,    \* what the operator asked for last: [op, network, len, hop]
    delivered   \* what was sent for the last input

vars == <<up, address, routes, neighbour, request, delivered>>

Ip == 0..(2^Width - 1)

Nothing == [op |-> "none", network |-> 0, len |-> 0, hop |-> 0]

Init ==
    /\ up = FALSE
    /\ address = <<>>
    /\ routes = <<>>
    /\ neighbour = [ip \in Ip |-> NoMac]
    /\ request = Nothing
    /\ delivered = {}

Configure ==
    /\ ~up
    /\ up' \in BOOLEAN
    /\ UNCHANGED <<routes, neighbour, request, delivered>>

Add ==
    /\ request'.op = "add"
    /\ \E h \in Handle \ DOMAIN routes :
         /\ DOMAIN routes' = DOMAIN routes \cup {h}
         /\ \E p \in DOMAIN address :
              routes'[h] = [network |-> request'.network, len |-> request'.len,
                            hop |-> request'.hop, port |-> p]
         /\ \A g \in DOMAIN routes : routes'[g] = routes[g]
    /\ delivered' = {}
    /\ UNCHANGED neighbour

\* One of the routes to that network goes, and no other.
Delete ==
    /\ request'.op = "del"
    /\ \E h \in DOMAIN routes :
         /\ routes[h].network = request'.network
         /\ routes[h].len = request'.len
         /\ routes' = [g \in DOMAIN routes \ {h} |-> routes[g]]
    /\ delivered' = {}
    /\ UNCHANGED neighbour

\* The destination lies in the network: they differ in host bits only, and
\* the network has none of these.
Covers(r, ip) == ip - r.network \in 0..(2^(Width - r.len) - 1)
              /\ r.network % 2^(Width - r.len) = 0

Forward(ip) ==
    /\ \E h \in DOMAIN routes :
         /\ Covers(routes[h], ip)
         /\ neighbour[routes[h].hop] # NoMac
         /\ delivered' = {[port |-> routes[h].port, kind |-> "ipv4", ip |-> ip,
                           dst |-> neighbour[routes[h].hop]]}
    /\ UNCHANGED <<routes, neighbour>>

Announce(ip, mac) ==
    /\ neighbour' = [neighbour EXCEPT ![ip] = mac]
    /\ delivered' = {}
    /\ UNCHANGED routes

\* Whoever asks on a port for the address of that port is told.
Answer(p, mac) ==
    /\ delivered' = {[port |-> p, kind |-> "arp", ip |-> address[p],
                      dst |-> mac]}
    /\ UNCHANGED <<routes, neighbour>>

Ignore == delivered' = {} /\ UNCHANGED <<routes, neighbour>>

Step ==
    /\ up
    /\ UNCHANGED <<up, address>>
    /\ \/ Add
       \/ Delete
       \/ \E ip \in Ip : Forward(ip)
       \/ \E ip \in Ip, mac \in Mac : Announce(ip, mac)
       \/ \E p \in DOMAIN address, mac \in Mac : Answer(p, mac)
       \/ Ignore

\* What it was told does not survive the router.
Stop ==
    /\ up' = FALSE
    /\ routes' = <<>>
    /\ neighbour' = [ip \in Ip |-> NoMac]
    /\ request' = Nothing
    /\ delivered' = {}

Next == Configure \/ Stop \/ Step

Spec == Init /\ [][Next]_vars
=============================================================================
