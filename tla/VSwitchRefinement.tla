-------------------------- MODULE VSwitchRefinement -------------------------
(***************************************************************************)
(* VSwitch implements Bridge, for every value of the constants: each step  *)
(* of the switch is a step of the bridge, or changes nothing it shows.     *)
(***************************************************************************)
EXTENDS VSwitchProofs

LEMMA InitRefines == Init => B!Init
  BY DEF Init, B!Init, Never, B!Never

\* The bridge classifies a frame as parse_frame does.
LEMMA SameVlans ==
    ASSUME IInv, phase = "running", NEW i \in 1..num_ifc, NEW f \in Frame,
           NEW v \in VlansOf(i, f)
    PROVE  v \in B!VlansOf(i, f.tags)
  <1>1. f.tags # <<>> => Head(f.tags) = f.tags[1]
    BY VSwitchAssumption DEF VSwitchAssumption
  <1> QED
    BY <1>1 DEF VlansOf, B!VlansOf, Untagged

\* One message, seen as a delivery.
LEMMA SameDelivery ==
    ASSUME IInv, phase = "running", NEW i \in 1..num_ifc, NEW f \in Frame,
           NEW v \in Vlan, NEW q \in 1..num_ifc,
           interface_in_vlan(q, v), q # i
    PROVE  {Delivery(m) : m \in forward_frame(i, q, f, v)}
             = {[port |-> q, dst |-> f.dst, src |-> f.src,
                 tags |-> B!Leaving(q, f.tags, v)]}
  <1> DEFINE g == Retag(f, v, Untagged(q, v))
  <1>1. g.dst = f.dst /\ g.src = f.src
    BY DEF Retag, WithTags
  <1>2. g.tags = B!Leaving(q, f.tags, v)
    BY DEF Retag, WithTags, B!Leaving, Untagged
  <1>3. forward_frame(i, q, f, v) = {send_frame(q, g)}
    BY DEF forward_frame
  <1>4. Delivery(send_frame(q, g))
          = [port |-> q, dst |-> g.dst, src |-> g.src, tags |-> g.tags]
    BY DEF Delivery, send_frame
  <1> QED
    BY <1>1, <1>2, <1>3, <1>4

LEMMA NoDelivery ==
    ASSUME NEW i, NEW f, NEW v, NEW q, ~interface_in_vlan(q, v) \/ q = i
    PROVE  {Delivery(m) : m \in forward_frame(i, q, f, v)} = {}
  BY DEF forward_frame

\* Flooding delivers to the members of the VLAN, the ingress port excepted.
LEMMA FloodDelivers ==
    ASSUME IInv, phase = "running", NEW i \in 1..num_ifc, NEW f \in Frame,
           NEW v \in Vlan
    PROVE  {Delivery(m) : m \in flood_frame(i, f, v)}
             = {[port |-> q, dst |-> f.dst, src |-> f.src,
                 tags |-> B!Leaving(q, f.tags, v)] : q \in B!Members(v) \ {i}}
  <1> DEFINE D(q) == [port |-> q, dst |-> f.dst, src |-> f.src,
                      tags |-> B!Leaving(q, f.tags, v)]
             Out(q) == {Delivery(m) : m \in forward_frame(i, q, f, v)}
  <1>1. B!Members(v) = {q \in 1..num_ifc : interface_in_vlan(q, v)}
    BY DEF B!Members, interface_in_vlan, Untagged
  <1>2. {Delivery(m) : m \in flood_frame(i, f, v)}
          = UNION {Out(q) : q \in 1..num_ifc}
    BY DEF flood_frame
  <1>3. ASSUME NEW q \in 1..num_ifc
        PROVE  Out(q) = IF q \in B!Members(v) \ {i} THEN {D(q)} ELSE {}
    BY <1>1, SameDelivery, NoDelivery
  <1> HIDE DEF D, Out
  <1>4. UNION {Out(q) : q \in 1..num_ifc} = {D(q) : q \in B!Members(v) \ {i}}
    BY <1>1, <1>3
  <1> QED
    BY <1>2, <1>4 DEF D

LEMMA SwitchRefines ==
    ASSUME IInv, phase = "running",
           NEW i \in 1..num_ifc, NEW f \in Frame, NEW t \in Time,
           now' = t, t \in {now, now + 1},
           UNCHANGED <<phase, argv, gifc>>,
           NEW v \in VlansOf(i, f), Switch(i, f, v, t)
    PROVE  B!Receive(i, f)
  <1> DEFINE learnt == learn_mac(f.src, i, v)
             hist   == Hear(f.src, i, v)
             e      == learnt[mac_hash(f.dst)]
  <1>1. f.src \in Mac /\ f.dst \in Mac /\ mac_hash(f.dst) \in Slot
    BY VSwitchAssumption, HashInSlot DEF VSwitchAssumption
  <1>2. /\ v \in B!VlansOf(i, f.tags)
        /\ v \in Vlan /\ interface_in_vlan(i, v)
    BY SameVlans, VlansTyped DEF IInv
  <1>3. heard' = hist
    BY DEF Switch
  <1>4. B!Hear(i, f.src, v)
    BY <1>1, <1>3 DEF B!Hear, Hear, Group
  <1>5. CASE out' = flood_frame(i, f, v)
    <2>1. B!Flood(i, f, v)
      BY <1>2, <1>5, FloodDelivers DEF B!Flood, B!Deliver
    <2> QED
      BY <2>1, <1>2, <1>4 DEF B!Receive
  <1>6. CASE /\ ~is_multicast_or_broadcast(f.dst)
             /\ Hit(learnt, f.dst, v, t)
             /\ out' = forward_frame(i, e.ifc_num, f, v)
    <2>1. e.valid /\ e.mac = f.dst /\ e.vlan_id = v
      BY <1>6 DEF Hit, Matches
    <2>2. SoundEntry(e, mac_hash(f.dst), hist)
      BY <2>1, <1>1, <1>2, LearntSound
    <2>3. /\ hist[<<f.dst, v>>] = [port |-> e.ifc_num, time |-> e.last_seen]
          /\ e.ifc_num \in 1..num_ifc
          /\ interface_in_vlan(e.ifc_num, v)
      BY <2>1, <2>2 DEF SoundEntry
    <2>4. now' - heard'[<<f.dst, v>>].time <= MAC_AGING_TIME
      <3>1. ~(t - e.last_seen > MAC_AGING_TIME)
        BY <1>6 DEF Hit, Aged
      <3>2. e.last_seen \in Int /\ MAC_AGING_TIME \in Int /\ t \in Int
        BY <1>1, <1>2, LearnTyped, VSwitchAssumption
           DEF Entry, Time, VSwitchAssumption, IInv
      <3> QED
        BY <3>1, <3>2, <2>3, <1>3
    <2>5. B!Located(f.dst, v)
      BY <2>3, <2>4, <1>3, <1>6 DEF B!Located, Group
    <2>6. B!Deliver(f, v, {heard'[<<f.dst, v>>].port} \ {i})
      <3>1. heard'[<<f.dst, v>>].port = e.ifc_num
        BY <2>3, <1>3
      <3>2. CASE e.ifc_num = i
        BY <3>1, <3>2, <1>6, NoDelivery DEF B!Deliver
      <3>3. CASE e.ifc_num # i
        BY <3>1, <3>3, <2>3, <1>2, <1>6, SameDelivery DEF B!Deliver
      <3> QED
        BY <3>2, <3>3
    <2> QED
      BY <2>5, <2>6, <1>2, <1>4 DEF B!Receive, B!Direct
  <1> QED
    BY <1>5, <1>6 DEF Switch

LEMMA NextRefines ==
    ASSUME IInv, IInv', [Next]_vars
    PROVE  [B!Next]_(B!vars)
  <1>1. CASE \E i \in 1..MaxType, f \in Frame, t \in Time : handle_frame(i, f, t)
    <2>1. PICK i \in 1..MaxType, f \in Frame, t \in Time : handle_frame(i, f, t)
      BY <1>1
    <2>2. /\ phase = "running" /\ i \in 1..num_ifc
          /\ now' = t /\ t \in {now, now + 1}
          /\ UNCHANGED <<phase, argv, gifc>>
          /\ now \in Int
      BY <2>1 DEF handle_frame, IInv, TypeOK, num_ifc, Time
    <2>3. CASE Drop
      BY <2>2, <2>3 DEF Drop, B!Next, B!Step, B!Ignore, num_ifc
    <2>4. CASE \E v \in VlansOf(i, f) : Switch(i, f, v, t)
      <3>1. B!Receive(i, f)
        BY <2>2, <2>4, SwitchRefines
      <3> QED
        BY <3>1, <2>2 DEF B!Next, B!Step, num_ifc
    <2> QED
      BY <2>1, <2>3, <2>4 DEF handle_frame
  <1>2. CASE ParseArg \/ EnterLoop \/ \E list \in [1..num_ifc -> InterfaceMac] :
                                      handle_mac(list)
    <2>1. phase # "running" /\ UNCHANGED <<now, out, heard>>
      BY <1>2 DEF ParseArg, EnterLoop, handle_mac
    <2> QED
      BY <2>1 DEF B!Next, B!Configure
  <1>3. CASE Exit
    BY <1>3, EmptyTyped DEF Exit, B!Next, B!Stop, Never, B!Never
  <1>4. CASE handle_control \/ Tick
    <2>1. now' >= now
      BY <1>4 DEF handle_control, Tick, IInv, TypeOK, Time
    <2> QED
      BY <1>4, <2>1 DEF handle_control, Tick, B!Next, B!Step, B!Ignore, num_ifc
  <1>5. CASE UNCHANGED vars
    BY <1>5 DEF vars, B!vars, num_ifc
  <1> QED
    BY <1>1, <1>2, <1>3, <1>4, <1>5
       DEF Next, handle_frame_abort, handle_mac_abort, EndOfInput

\* The switch keeps the bridge's promise: every accepted frame goes to all the
\* other members of its VLAN or to where its destination was last heard.
THEOREM SwitchIsABridge == Spec => ImplementsBridge
  <1>1. Init => B!Init
    BY InitRefines
  <1>2. IInv /\ IInv' /\ [Next]_vars => [B!Next]_(B!vars)
    BY NextRefines
  <1> QED
    BY <1>1, <1>2, Inductive, PTL DEF Spec, ImplementsBridge, B!Spec
=============================================================================
