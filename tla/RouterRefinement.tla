-------------------------- MODULE RouterRefinement --------------------------
(***************************************************************************)
(* Router implements Forwarder, for every value of the constants: each     *)
(* step of the router is a step of the forwarder, or changes nothing it    *)
(* shows.                                                                  *)
(***************************************************************************)
EXTENDS RouterProofs

\* The routes as the forwarder sees them, and the operator's request.
Valid == {s \in RouteSlot : route_table[s].valid}

Held == [s \in Valid |->
           [network |-> route_table[s].network, len |-> route_table[s].len,
            hop |-> route_table[s].hop, port |-> route_table[s].ifc]]

LEMMA NothingHeld ==
    ASSUME \A s \in RouteSlot : ~route_table[s].valid
    PROVE  Held = <<>>
  <1>1. Valid = {}
    BY DEF Valid
  <1> QED
    BY <1>1 DEF Held

LEMMA InitRefines == Init => F!Init
  <1> SUFFICES ASSUME Init PROVE F!Init
    OBVIOUS
  <1>1. Held = <<>>
    BY EmptyTyped, NothingHeld DEF Init
  <1>2. phase # "running" /\ out = {} /\ cmd.verb # "route" /\ neighbour = Nobody
    BY DEF Init, NoCommand
  <1> QED
    BY <1>1, <1>2 DEF F!Init, F!Nothing, F!Ip, Ip, Nobody, Held, Valid

\* The address of a packet lies in the network its masked form names.
LEMMA MaskedCovers ==
    ASSUME NEW ip \in Ip, NEW len \in 0..Width
    PROVE  LET d == 2^(Width - len) IN
             /\ ip - Masked(ip, len) \in 0..(d - 1)
             /\ Masked(ip, len) % d = 0
  <1> DEFINE d == 2^(Width - len)
             x == ip % d
  <1>1. Width - len \in 0..Width
    BY RouterAssumption DEF RouterAssumption
  <1>2. d \in Nat \ {0}
    BY <1>1, RouterAssumption DEF RouterAssumption
  <1>3. ip \in Int /\ Masked(ip, len) = ip - x
    BY DEF Masked, Ip
  <1> HIDE DEF d
  <1>4. x \in 0..(d - 1) /\ ip - (ip - x) = x
    BY <1>2, <1>3
  <1>5. (ip - x) % d = 0
    BY <1>2, <1>3
  <1> QED
    BY <1>3, <1>4, <1>5 DEF d
-----------------------------------------------------------------------------
(***************************************************************************)
(* Frames.                                                                 *)
(***************************************************************************)
\* A packet is forwarded along a route that is held, to the address its next
\* hop announced last, or dropped.
LEMMA RouteRefines ==
    ASSUME IInv, NEW f \in Frame, out' = route(f),
           UNCHANGED <<route_table, neighbour>>
    PROVE  F!Ignore \/ F!Forward(f.target)
  <1>1. TypeOK /\ CacheSound /\ f.target \in Ip
    BY RouterAssumption DEF RouterAssumption, IInv, FrameType
  <1>2. CASE out' = {}
    BY <1>2 DEF F!Ignore
  <1>3. CASE out' # {}
    <2> DEFINE s == First(Matching(f.target))
               r == route_table[s]
    <2>1. Matching(f.target) # {}
      BY <1>3 DEF route
    <2>2. /\ s \in Valid
          /\ Masked(f.target, r.len) = r.network
          /\ neighbour[r.hop] \in Mac
          /\ out' = forward_frame_payload_to(r.ifc, neighbour[r.hop], "ipv4",
                                   f.target, f.size - EthernetSize - IPv4Size)
      BY <1>1, <1>3, <2>1, RouteTaken DEF Valid
    <2>3. r.len \in 0..Width
      BY <1>1, <2>2 DEF Valid, TypeOK, RouteEntry
    <2> HIDE DEF s
    <2> DEFINE v == [network |-> r.network, len |-> r.len, hop |-> r.hop,
                     port |-> r.ifc]
    <2>4. F!Covers(v, f.target)
      BY <1>1, <2>2, <2>3, MaskedCovers DEF F!Covers
    <2>5. Held[s] = v /\ s \in DOMAIN Held
      BY <2>2 DEF Held
    <2>6. {Delivery(m) : m \in out'} =
             {[port |-> v.port, kind |-> "ipv4", ip |-> f.target,
               dst |-> neighbour[v.hop]]}
      BY <2>2 DEF Delivery, forward_frame_payload_to
    <2>7. neighbour[v.hop] # NoMac
      BY <2>2, RouterAssumption DEF RouterAssumption
    <2> HIDE DEF v
    <2> QED
      BY <2>4, <2>5, <2>6, <2>7 DEF F!Forward, Held, Valid
  <1> QED
    BY <1>2, <1>3

LEMMA HandleFrameRefines ==
    ASSUME IInv, NEW i \in 1..MaxType, NEW f \in Frame, handle_frame(i, f)
    PROVE  F!Step
  <1>1. /\ phase = "running" /\ phase' = "running"
        /\ i \in 1..num_ifc
        /\ out' = parse_frame(i, f)
        /\ UNCHANGED <<gifc, route_table>>
        /\ f.sender_ha \in Mac /\ f.sender_pa \in Ip /\ f.target \in Ip
    <2>1. i <= num_ifc /\ i \in Nat /\ i >= 1
      BY RouterAssumption DEF RouterAssumption, handle_frame
    <2>2. num_ifc \in Nat
      BY DEF IInv, TypeOK, num_ifc
    <2>3. f.sender_ha \in Mac /\ f.sender_pa \in Ip /\ f.target \in Ip
      BY RouterAssumption DEF RouterAssumption, FrameType
    <2> QED
      BY <2>1, <2>2, <2>3 DEF handle_frame
  <1>2. CASE IsPacket(f)
    <2>1. out' = route(f) /\ UNCHANGED neighbour
      BY <1>1, <1>2 DEF parse_frame, handle_frame, IsReply, IsArp, IsPacket
    <2>2. F!Ignore \/ F!Forward(f.target)
      BY <1>1, <2>1, RouteRefines
    <2> QED
      BY <1>1, <2>2 DEF F!Step, F!Ip, Ip, num_ifc
  <1>3. CASE IsReply(f)
    <2>1. out' = {}
      BY <1>1, <1>3 DEF parse_frame, handle_arp, IsReply, IsArp, IsPacket
    <2>2. neighbour' = [neighbour EXCEPT ![f.sender_pa] = f.sender_ha]
      BY <1>3 DEF handle_frame
    <2>3. F!Announce(f.sender_pa, f.sender_ha)
      BY <1>1, <2>1, <2>2 DEF F!Announce
    <2> QED
      BY <1>1, <2>3 DEF F!Step, F!Ip, Ip, num_ifc
  <1>4. CASE ~IsPacket(f) /\ ~IsReply(f) /\ out' # {}
    <2>1. out' = forward_frame_payload_to(i, f.sender_ha, "arp", gifc[i].ip, ArpSize)
          /\ UNCHANGED neighbour
      BY <1>1, <1>4 DEF parse_frame, handle_arp, handle_frame
    <2>2. {Delivery(m) : m \in out'} =
             {[port |-> i, kind |-> "arp", ip |-> gifc[i].ip, dst |-> f.sender_ha]}
      BY <2>1 DEF Delivery, forward_frame_payload_to
    <2>3. F!Answer(i, f.sender_ha)
      BY <1>1, <2>1, <2>2 DEF F!Answer
    <2> QED
      BY <1>1, <2>3 DEF F!Step, num_ifc
  <1>5. CASE ~IsReply(f) /\ out' = {}
    <2>1. F!Ignore
      BY <1>1, <1>5 DEF F!Ignore, handle_frame
    <2> QED
      BY <1>1, <2>1 DEF F!Step, num_ifc
  <1> QED
    BY <1>2, <1>3, <1>4, <1>5
-----------------------------------------------------------------------------
(***************************************************************************)
(* Commands.                                                               *)
(***************************************************************************)
LEMMA RouteAddRefines ==
    ASSUME IInv, phase = "running", phase' = phase,
           NEW c \in Command, parse_route(c), FreeRoutes # {},
           c.verb = "route", c.sub = "add",
           route_table' = process_cmd_route_add(c), cmd' = c, out' = {},
           UNCHANGED <<gifc, neighbour>>
    PROVE  F!Add
  <1> DEFINE k == First(FreeRoutes)
             e == [network |-> c.network, len |-> c.len, hop |-> c.hop,
                   ifc |-> find_interface(c.dev), valid |-> TRUE]
  <1>1. k \in RouteSlot /\ ~route_table[k].valid
    <2>1. FreeRoutes \subseteq Nat
      BY DEF FreeRoutes, RouteSlot
    <2> QED
      BY <2>1, FirstIsLeast DEF FreeRoutes
  <1>2. route_table' = [route_table EXCEPT ![k] = e]
    BY DEF process_cmd_route_add
  <1> HIDE DEF k
  <1>3. /\ route_table'[k] = e
        /\ \A s \in RouteSlot : s # k => route_table'[s] = route_table[s]
    BY <1>1, <1>2 DEF IInv, TypeOK
  <1>4. Valid' = Valid \cup {k} /\ k \notin Valid
    BY <1>1, <1>3 DEF Valid
  <1>5. e.ifc \in 1..num_ifc
    BY <1>1, <1>3, RouteAddTyped DEF IInv
  <1>6. /\ DOMAIN Held' = DOMAIN Held \cup {k}
        /\ k \in RouteSlot \ DOMAIN Held
        /\ Held'[k] = [network |-> c.network, len |-> c.len, hop |-> c.hop,
                       port |-> find_interface(c.dev)]
        /\ \A g \in DOMAIN Held : Held'[g] = Held[g]
    <2>1. DOMAIN Held' = Valid' /\ DOMAIN Held = Valid
      BY DEF Held
    <2>2. Held'[k] = [network |-> c.network, len |-> c.len, hop |-> c.hop,
                      port |-> find_interface(c.dev)]
      BY <1>3, <1>4 DEF Held
    <2>3. ASSUME NEW g \in Valid PROVE Held'[g] = Held[g]
      <3>1. route_table'[g] = route_table[g] /\ g \in Valid'
        BY <1>3, <1>4 DEF Valid
      <3> QED
        BY <3>1 DEF Held
    <2> QED
      BY <1>1, <1>4, <2>1, <2>2, <2>3
  <1> QED
    BY <1>5, <1>6 DEF F!Add, Held, Valid

LEMMA RouteDelRefines ==
    ASSUME IInv, NEW c \in Command, SameNetwork(c) # {},
           c.verb = "route", c.sub = "del",
           route_table' = process_cmd_route_del(c), cmd' = c, out' = {},
           UNCHANGED neighbour
    PROVE  F!Delete
  <1> DEFINE k == First(SameNetwork(c))
             e == [route_table[k] EXCEPT !.valid = FALSE]
  <1>1. k \in SameNetwork(c)
    <2>1. SameNetwork(c) \subseteq Nat
      BY DEF SameNetwork, RouteSlot
    <2> QED
      BY <2>1, FirstIsLeast
  <1>2. /\ k \in RouteSlot /\ route_table[k].valid
        /\ route_table[k].network = c.network /\ route_table[k].len = c.len
    BY <1>1 DEF SameNetwork
  <1>3. route_table[k] \in RouteEntry
    BY <1>2 DEF IInv, TypeOK
  <1>4. e.valid = FALSE
    BY <1>3 DEF RouteEntry
  <1>5. route_table' = [route_table EXCEPT ![k] = e]
    BY DEF process_cmd_route_del
  <1> HIDE DEF k, e
  <1>6. /\ route_table'[k] = e
        /\ \A s \in RouteSlot : s # k => route_table'[s] = route_table[s]
    BY <1>2, <1>5 DEF IInv, TypeOK
  <1>7. Valid' = Valid \ {k} /\ k \in Valid
    BY <1>2, <1>4, <1>6 DEF Valid
  <1>8. Held' = [g \in DOMAIN Held \ {k} |-> Held[g]]
    <2>1. DOMAIN Held = Valid
      BY DEF Held
    <2>2. ASSUME NEW g \in Valid \ {k}
          PROVE  Held[g] = [network |-> route_table'[g].network,
                            len |-> route_table'[g].len,
                            hop |-> route_table'[g].hop,
                            port |-> route_table'[g].ifc]
      BY <1>6 DEF Held, Valid
    <2> QED
      BY <1>7, <2>1, <2>2 DEF Held
  <1>9. /\ k \in DOMAIN Held
        /\ Held[k].network = c.network /\ Held[k].len = c.len
    BY <1>2, <1>7 DEF Held
  <1> QED
    BY <1>8, <1>9 DEF F!Delete, Held, Valid

LEMMA HandleControlRefines ==
    ASSUME IInv, NEW c \in Command, handle_control(c)
    PROVE  F!Step
  <1>1. /\ phase = "running" /\ phase' = phase /\ out' = {} /\ cmd' = c
        /\ UNCHANGED <<gifc, neighbour>>
    BY DEF handle_control
  <1>2. CASE route_table' = route_table
    <2>1. F!Ignore
      BY <1>1, <1>2 DEF F!Ignore
    <2> QED
      BY <1>1, <2>1 DEF F!Step, num_ifc
  <1>3. CASE /\ c.verb = "route" /\ c.sub = "add" /\ parse_route(c)
             /\ FreeRoutes # {} /\ route_table' = process_cmd_route_add(c)
    <2>1. F!Add
      BY <1>1, <1>3, RouteAddRefines
    <2> QED
      BY <1>1, <2>1 DEF F!Step, num_ifc
  <1>4. CASE /\ c.verb = "route" /\ c.sub = "del" /\ SameNetwork(c) # {}
             /\ route_table' = process_cmd_route_del(c)
    <2>1. F!Delete
      BY <1>1, <1>4, RouteDelRefines
    <2> QED
      BY <1>1, <2>1 DEF F!Step, num_ifc
  <1> QED
    BY <1>2, <1>3, <1>4 DEF handle_control, process_cmd_route,
                            process_cmd_route_add, process_cmd_route_del

LEMMA ExitRefines ==
    ASSUME Exit
    PROVE  F!Stop
  <1>1. /\ phase' # "running" /\ out' = {} /\ cmd'.verb # "route"
        /\ neighbour' = Nobody
        /\ \A s \in RouteSlot : ~route_table'[s].valid
    BY EmptyTyped DEF Exit, NoCommand
  <1>2. Held' = <<>>
    <2>1. Valid' = {}
      BY <1>1 DEF Valid
    <2> QED
      BY <2>1 DEF Held
  <1> QED
    BY <1>1, <1>2 DEF F!Stop, F!Nothing, F!Ip, Ip, Nobody, Held, Valid

LEMMA NextRefines ==
    ASSUME IInv, [Next]_vars
    PROVE  [F!Next]_(F!vars)
  <1>1. CASE ParseArg \/ EnterLoop
    BY <1>1 DEF ParseArg, EnterLoop, F!vars
  <1>2. CASE \E list \in [1..num_ifc -> Mac] : handle_mac(list)
    BY <1>2 DEF handle_mac, F!Next, F!Configure
  <1>3. CASE \E i \in 1..MaxType, f \in Frame : handle_frame(i, f)
    BY <1>3, HandleFrameRefines DEF F!Next
  <1>4. CASE \E c \in Command : handle_control(c)
    BY <1>4, HandleControlRefines DEF F!Next
  <1>5. CASE Exit
    BY <1>5, ExitRefines DEF F!Next
  <1>6. CASE UNCHANGED vars
    BY <1>6 DEF vars, F!vars, num_ifc
  <1> QED
    BY <1>1, <1>2, <1>3, <1>4, <1>5, <1>6
       DEF Next, ParseArg_abort, handle_frame_abort, handle_control_crash,
           handle_mac_abort, EndOfInput

\* A packet goes only where a route that was added and not deleted sends it,
\* to the hardware address its next hop announced last; a deletion removes
\* one route of exactly that network; requests are answered truthfully.
THEOREM RouterIsAForwarder == Spec => ImplementsForwarder
  <1>1. Init => F!Init
    BY InitRefines
  <1>2. IInv /\ [Next]_vars => [F!Next]_(F!vars)
    BY NextRefines
  <1> QED
    BY <1>1, <1>2, Inductive, PTL DEF Spec, ImplementsForwarder, F!Spec
=============================================================================
