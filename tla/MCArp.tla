------------------------------- MODULE MCArp --------------------------------
(* A small instance of Arp: two interfaces, three neighbours of which two    *)
(* share a slot and one announces a second address.                          *)
EXTENDS Arp

Argument(ip, mask, mtu) ==
    [wellformed |-> TRUE, ip |-> ip, mask |-> mask, mtu |-> mtu]

Eth0 == Argument(<<0, 1>>, 24, NO_MTU)
Eth1 == Argument(<<1, 1>>, 24, 400)

m1 == <<0, 1, 0>>
m2 == <<1, 1, 0>>
m3 == <<0, 2, 1>>

Reading(oper, ha, pa, target) ==
    [wellformed |-> TRUE, oper |-> oper, sender_ha |-> ha, sender_pa |-> pa,
     target_ha |-> m1, target_pa |-> target]

WholeHeaders ==
    {Reading(2, m1, <<0, 2>>, <<0, 1>>), Reading(2, m1, <<1, 2>>, <<0, 1>>),
     Reading(2, m2, <<1, 0>>, <<0, 1>>), Reading(2, m3, <<1, 1>>, <<0, 1>>),
     Reading(1, m2, <<1, 0>>, <<0, 1>>), Reading(1, m3, <<1, 0>>, <<1, 1>>),
     Reading(1, m3, <<1, 0>>, <<2, 2>>), Reading(3, m3, <<1, 0>>, <<0, 1>>)}

Malformed == [Reading(1, m2, <<1, 0>>, <<0, 1>>) EXCEPT !.wellformed = FALSE]

\* What may lie behind a short frame.
Headers ==
    {Malformed, Reading(2, m1, <<0, 2>>, <<0, 1>>), Reading(1, m3, <<1, 0>>, <<1, 1>>)}

Framed(size, h) == [tag |-> "arp", size |-> size, src |-> h.sender_ha, arp |-> h]

\* A request may ask for another station than the one that sends it.
Frames ==
    {Framed(42, h) : h \in WholeHeaders}
        \cup {Framed(60, Malformed), Framed(13, Malformed), Framed(14, Malformed),
              Framed(41, Malformed), [Framed(60, Malformed) EXCEPT !.tag = "other"],
              [Framed(42, Reading(1, m2, <<1, 0>>, <<0, 1>>)) EXCEPT !.src = m1]}

OwnMacs == {<<2, 0, 0>>, <<2, 0, 1>>}

Lines ==
    {<<Eth0, Eth1>>, <<Eth1, [Eth0 EXCEPT !.mtu = 65536]>>,
     <<[Eth0 EXCEPT !.mtu = 65530]>>,
     <<Eth0, [Eth1 EXCEPT !.mask = 33]>>, <<[Eth0 EXCEPT !.mtu = 20]>>,
     <<[Eth0 EXCEPT !.mtu = NotANumber]>>, <<[Eth0 EXCEPT !.wellformed = FALSE]>>}
=============================================================================
