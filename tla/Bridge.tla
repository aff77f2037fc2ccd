------------------------------- MODULE Bridge -------------------------------
(***************************************************************************)
(* What a VLAN-aware learning bridge promises, whatever table it keeps.    *)
(*                                                                         *)
(* The bridge remembers, for every station address and VLAN, where and     *)
(* when the station was last heard.  A frame is delivered either to every  *)
(* other member of its VLAN, or, when the destination was heard recently   *)
(* enough, to the one port where it was last heard.  Nothing says when the *)
(* bridge uses which: forgetting a station is always allowed, remembering  *)
(* the wrong port never is.  VSwitch implements this specification.        *)
(***************************************************************************)
EXTENDS Integers, Sequences

CONSTANTS
    Mac,        \* the addresses
    Group,      \* the group addresses, a subset of Mac
    Vlan,       \* the VLAN identifiers
    Frame,      \* the frames that may arrive: records with dst, src, tags
    AgingTime   \* how long a station stays located after it was heard

VARIABLES
    ports,      \* ports[p]: the VLAN access names, the VLANs trunk names
    up,         \* is the configuration complete?
    heard,      \* heard[<<m, v>>]: port (0: never) and time of the last frame
    now,        \* the clock
    delivered   \* deliveries made for the last input

vars == <<ports, up, heard, now, delivered>>

Never == [port |-> 0, time |-> 0]

Init ==
    /\ ports = <<>>
    /\ up = FALSE
    /\ heard = [k \in Mac \X Vlan |-> Never]
    /\ now = 0
    /\ delivered = {}

\* Before traffic the configuration is whatever the operator says it is.
Configure ==
    /\ ~up
    /\ up' \in BOOLEAN
    /\ UNCHANGED <<heard, now, delivered>>

Members(v) ==
    {p \in DOMAIN ports : v = ports[p].access \/ v \in ports[p].trunk}

\* The VLANs in which port p takes a frame with that stack of tags.
VlansOf(p, tags) ==
    IF tags = <<>>
    THEN {ports[p].access} \cap Vlan
    ELSE {Head(tags) % 4096} \cap (ports[p].trunk \ {ports[p].access})

\* The frame leaves an access port without its outer tag and a trunk port
\* with one that names its VLAN.
Leaving(q, tags, v) ==
    IF v = ports[q].access /\ tags # <<>> THEN Tail(tags)
    ELSE IF v # ports[q].access /\ tags = <<>> THEN <<v>>
    ELSE tags

Deliver(f, v, targets) ==
    delivered' = {[port |-> q, dst |-> f.dst, src |-> f.src,
                   tags |-> Leaving(q, f.tags, v)] : q \in targets}

Hear(p, m, v) ==
    heard' = IF m \in Group
             THEN heard
             ELSE [heard EXCEPT ![<<m, v>>] = [port |-> p, time |-> now]]

Located(m, v) ==
    /\ m \notin Group
    /\ heard'[<<m, v>>].port # 0
    /\ now' - heard'[<<m, v>>].time <= AgingTime

Flood(p, f, v) == Deliver(f, v, Members(v) \ {p})

Direct(p, f, v) ==
    /\ Located(f.dst, v)
    /\ Deliver(f, v, {heard'[<<f.dst, v>>].port} \ {p})

Receive(p, f) ==
    \E v \in VlansOf(p, f.tags) :
        /\ Hear(p, f.src, v)
        /\ Flood(p, f, v) \/ Direct(p, f, v)

\* A port refuses a frame of a VLAN it is not configured for, and the
\* bridge may take a malformed frame or an operator's command for nothing.
Ignore ==
    /\ delivered' = {}
    /\ UNCHANGED heard

Step ==
    /\ up
    /\ UNCHANGED <<ports, up>>
    /\ now' >= now
    /\ \/ \E p \in DOMAIN ports, f \in Frame : Receive(p, f)
       \/ Ignore

\* Whatever was learnt does not survive the bridge.
Stop ==
    /\ up' = FALSE
    /\ heard' = [k \in Mac \X Vlan |-> Never]
    /\ delivered' = {}
    /\ UNCHANGED now

Next == Configure \/ Stop \/ Step

Spec == Init /\ [][Next]_vars
=============================================================================
