------------------------------ MODULE MCSystem ------------------------------
(* Small instances of System: a child that floods, like hub and vswitch.   *)
EXTENDS System

\* A frame goes to every other interface, a command is answered by a text.
FloodReply ==
    [t \in Source |->
        IF t = 0 THEN {<<0>>}
        ELSE {SelectSeq([i \in Ifc |-> i], LAMBDA i : i # t)}]

\* A frame is answered to where it came from, as arp does; a command by a
\* text or by a frame for an interface that does not exist.
EchoReply == [t \in Source |-> IF t = 0 THEN {<<0>>, <<N + 1>>} ELSE {<<t>>}]
=============================================================================
