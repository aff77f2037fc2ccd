---------------------------- MODULE VSwitchProofs ---------------------------
(***************************************************************************)
(* Proofs about VSwitch for every command line, table size, ageing time    *)
(* and set of frames: its type invariant and the soundness of its table.   *)
(***************************************************************************)
EXTENDS VSwitch, TLAPS

LEMMA ModRange ==
    ASSUME NEW x \in Int, NEW n \in Nat \ {0}
    PROVE  x % n \in 0..(n - 1)
  OBVIOUS

LEMMA HashStep ==
    ASSUME NEW x \in Nat, NEW y \in Nat
    PROVE  x * 31 + y \in Nat
  OBVIOUS

\* mac_hash stays inside the table.
LEMMA HashInSlot ==
    ASSUME NEW m \in Mac
    PROVE  mac_hash(m) \in Slot
  <1>1. m \in [1..6 -> Byte] /\ Byte \subseteq Nat
    BY VSwitchAssumption DEF VSwitchAssumption, Address, Byte
  <1>0. \A b \in 1..6 : m[b] \in Nat
    BY <1>1
  <1>2. /\ m[1] \in Nat /\ m[2] \in Nat /\ m[3] \in Nat
        /\ m[4] \in Nat /\ m[5] \in Nat /\ m[6] \in Nat
    BY <1>0
  <1> DEFINE h2 == m[1] * 31 + m[2]
             h3 == h2 * 31 + m[3]
             h4 == h3 * 31 + m[4]
             h5 == h4 * 31 + m[5]
             h6 == h5 * 31 + m[6]
  <1>3. h2 \in Nat
    BY <1>2, HashStep
  <1> HIDE DEF h2
  <1>4. h3 \in Nat
    BY <1>2, <1>3, HashStep
  <1> HIDE DEF h3
  <1>5. h4 \in Nat
    BY <1>2, <1>4, HashStep
  <1> HIDE DEF h4
  <1>6. h5 \in Nat
    BY <1>2, <1>5, HashStep
  <1> HIDE DEF h5
  <1>7. h6 \in Nat
    BY <1>2, <1>6, HashStep
  <1> HIDE DEF h6
  <1>8. MAC_TABLE_SIZE \in Nat \ {0}
    BY VSwitchAssumption DEF VSwitchAssumption
  <1>9. mac_hash(m) = h6 % MAC_TABLE_SIZE
    BY DEF mac_hash, h2, h3, h4, h5, h6
  <1> QED
    BY <1>7, <1>8, <1>9, ModRange DEF Slot
-----------------------------------------------------------------------------
(***************************************************************************)
(* The interfaces main() sets up.                                          *)
(***************************************************************************)
LEMMA ElementOfSeq ==
    ASSUME NEW S, NEW s \in Seq(S), NEW k \in DOMAIN s
    PROVE  s[k] \in S
  OBVIOUS

\* An argument that parses gives an interface whose VLANs can be stored.
LEMMA InterfaceTyped ==
    ASSUME NEW a \in Arg, parse_vlan_args(a), NEW n \in Nat
    PROVE  InterfaceOf(a, n) \in Interface
  <1>1. MAX_VLANS \in Nat
    BY VSwitchAssumption DEF VSwitchAssumption
  <1>2. Zeroes \in [1..6 -> 0..255]
    BY DEF Zeroes
  <1>3. ASSUME NEW tok \in Nat \cup {NotANumber}, IsVlan(tok)
        PROVE  tok \in Vlan
    BY <1>1, <1>3 DEF IsVlan, Vlan, NotANumber
  <1>4. a.tokens \in Seq(Nat \cup {NotANumber})
    BY DEF Arg
  <1>4a. \A k \in DOMAIN a.tokens : a.tokens[k] \in Nat \cup {NotANumber}
    BY <1>4, ElementOfSeq
  <1>5. InterfaceOf(a, n).untagged_vlan \in Vlan \cup {NO_VLAN}
    <2>1. CASE ~a.open
      BY <2>1, <1>1 DEF InterfaceOf, DEFAULT_VLAN, Vlan
    <2>2. CASE a.open /\ a.letter = "U"
      <3>1. parse_untagged(a)
        BY <2>2 DEF parse_vlan_args, parse_tagged
      <3>2. 1 \in DOMAIN a.tokens
        BY <3>1, <1>4 DEF parse_untagged
      <3>3. a.tokens[1] \in Vlan
        BY <3>1, <3>2, <1>3, <1>4a DEF parse_untagged
      <3> QED
        BY <3>3, <2>2 DEF InterfaceOf
    <2>3. CASE a.open /\ a.letter # "U"
      BY <2>3 DEF InterfaceOf
    <2> QED
      BY <2>1, <2>2, <2>3 DEF Arg
  <1>6. InterfaceOf(a, n).tagged_vlans \subseteq Vlan
    <2>1. CASE a.open /\ a.letter = "T"
      <3>1. \A k \in DOMAIN a.tokens : IsVlan(a.tokens[k])
        BY <2>1 DEF parse_vlan_args, parse_tagged, parse_untagged
      <3>2. \A k \in DOMAIN a.tokens : a.tokens[k] \in Vlan
        BY <3>1, <1>3, <1>4a
      <3> QED
        BY <3>2, <2>1 DEF InterfaceOf
    <2>2. CASE ~(a.open /\ a.letter = "T")
      BY <2>2 DEF InterfaceOf
    <2> QED
      BY <2>1, <2>2
  <1> QED
    BY <1>2, <1>5, <1>6 DEF InterfaceOf, Interface, Address, Byte
-----------------------------------------------------------------------------
(***************************************************************************)
(* The operators of handle_frame.                                          *)
(***************************************************************************)
\* parse_frame puts a frame in a VLAN the port is a member of.
LEMMA VlansTyped ==
    ASSUME TypeOK, NEW i \in 1..num_ifc, NEW f, NEW v \in VlansOf(i, f)
    PROVE  v \in Vlan /\ interface_in_vlan(i, v)
  BY DEF VlansOf, interface_in_vlan

LEMMA LearnTyped ==
    ASSUME TypeOK, NEW m \in Mac, NEW i \in Nat, NEW v \in Vlan
    PROVE  learn_mac(m, i, v) \in [Slot -> Entry]
  BY HashInSlot DEF TypeOK, learn_mac, Entry

LEMMA LookupTyped ==
    ASSUME NEW tab \in [Slot -> Entry], NEW m \in Mac, NEW v, NEW t
    PROVE  lookup_mac(tab, m, v, t) \in [Slot -> Entry]
  <1>1. mac_hash(m) \in Slot
    BY HashInSlot
  <1>2. [tab[mac_hash(m)] EXCEPT !.valid = FALSE] \in Entry
    BY <1>1 DEF Entry
  <1> QED
    BY <1>1, <1>2 DEF lookup_mac

LEMMA SizeOfMessage ==
    ASSUME NEW n \in Int
    PROVE  n % 65536 \in Word
  <1> DEFINE k == 65536
  <1>1. k \in Nat \ {0} /\ 0..(k - 1) = Word
    BY DEF Word
  <1> HIDE DEF k
  <1>2. n % k \in 0..(k - 1)
    BY <1>1, ModRange
  <1>3. n % k \in Word
    BY <1>1, <1>2
  <1> QED
    BY <1>3 DEF k

\* Every message of a forwarded or flooded frame names an interface.
LEMMA ForwardTyped ==
    ASSUME NEW i, NEW p \in 1..num_ifc, NEW f \in Frame, NEW v,
           NEW m \in forward_frame(i, p, f, v)
    PROVE  m.type \in 1..num_ifc /\ m.size \in Word
  <1>1. f.size \in Nat
    BY VSwitchAssumption DEF VSwitchAssumption
  <1>2. Retag(f, v, Untagged(p, v)).size \in Int
    BY <1>1 DEF Retag, WithTags
  <1>3. m = send_frame(p, Retag(f, v, Untagged(p, v)))
    BY DEF forward_frame
  <1> QED
    BY <1>2, <1>3, SizeOfMessage DEF send_frame, HeaderSize

\* A frame is in one VLAN at most.
LEMMA VlanUnique ==
    ASSUME NEW i, NEW f, NEW v \in VlansOf(i, f), NEW w \in VlansOf(i, f)
    PROVE  v = w
  BY DEF VlansOf, Untagged

\* What learn_mac leaves is sound with respect to the history after it.
LEMMA LearntSound ==
    ASSUME IInv, NEW i \in 1..num_ifc, NEW m \in Mac, NEW v \in Vlan,
           interface_in_vlan(i, v),
           NEW s \in Slot, learn_mac(m, i, v)[s].valid
    PROVE  SoundEntry(learn_mac(m, i, v)[s], s, Hear(m, i, v))
  <1>1. /\ mac_hash(m) \in Slot
        /\ mac_table \in [Slot -> Entry]
        /\ heard \in [Mac \X Vlan -> [port : 0..Len(gifc), time : Time]]
    BY HashInSlot DEF IInv, TypeOK
  <1>2. CASE is_multicast_or_broadcast(m)
    BY <1>2 DEF IInv, TableSound, learn_mac, Hear
  <1>3. CASE ~is_multicast_or_broadcast(m) /\ s = mac_hash(m)
    <2> DEFINE e == [mac |-> m, ifc_num |-> i, vlan_id |-> v,
                     last_seen |-> now, valid |-> TRUE]
    <2>1. learn_mac(m, i, v)[s] = e
      BY <1>1, <1>3 DEF learn_mac
    <2>2. Hear(m, i, v)[<<m, v>>] = [port |-> i, time |-> now]
      BY <1>1, <1>3 DEF Hear
    <2> QED
      BY <2>1, <2>2, <1>3 DEF SoundEntry, Group
  <1>4. CASE ~is_multicast_or_broadcast(m) /\ s # mac_hash(m)
    <2> DEFINE e == mac_table[s]
    <2>1. learn_mac(m, i, v)[s] = e
      BY <1>1, <1>4 DEF learn_mac
    <2>2. SoundEntry(e, s, heard)
      BY <2>1 DEF IInv, TableSound
    <2>3. <<e.mac, e.vlan_id>> \in Mac \X Vlan /\ e.mac # m
      BY <2>2, <1>1, <1>4 DEF SoundEntry, Entry
    <2>4. Hear(m, i, v)[<<e.mac, e.vlan_id>>] = heard[<<e.mac, e.vlan_id>>]
      BY <2>3, <1>1, <1>4 DEF Hear
    <2> QED
      BY <2>1, <2>2, <2>4 DEF SoundEntry
  <1> QED
    BY <1>2, <1>3, <1>4

\* A lookup can only clear a slot.
LEMMA LookupClears ==
    ASSUME NEW tab \in [Slot -> Entry], NEW m \in Mac, NEW v, NEW t,
           NEW s \in Slot, lookup_mac(tab, m, v, t)[s].valid
    PROVE  lookup_mac(tab, m, v, t)[s] = tab[s]
  <1>1. mac_hash(m) \in Slot
    BY HashInSlot
  <1> QED
    BY <1>1 DEF lookup_mac, Entry
-----------------------------------------------------------------------------
(***************************************************************************)
(* The inductive invariant.                                                *)
(***************************************************************************)
LEMMA EmptyTyped ==
    /\ [s \in Slot |-> Empty] \in [Slot -> Entry]
    /\ \A s \in Slot : ~[r \in Slot |-> Empty][s].valid
    /\ \A n \in Nat : [k \in Mac \X Vlan |-> Never]
                         \in [Mac \X Vlan -> [port : 0..n, time : Time]]
  <1>1. MAX_VLANS \in Nat /\ MaxTime \in Nat
    BY VSwitchAssumption DEF VSwitchAssumption
  <1>2. Empty \in Entry
    BY <1>1 DEF Empty, Entry, Zeroes, Vlan, Time
  <1>3. \A n \in Nat : Never \in [port : 0..n, time : Time]
    BY <1>1 DEF Never, Time
  <1>4. Empty.valid = FALSE
    BY DEF Empty
  <1> QED
    BY <1>2, <1>3, <1>4

LEMMA InitInv == Init => IInv
  <1> SUFFICES ASSUME Init PROVE IInv
    OBVIOUS
  <1>1. MaxTime \in Nat
    BY VSwitchAssumption DEF VSwitchAssumption
  <1>2. gifc \in Seq(Interface) /\ Len(gifc) = 0
    BY DEF Init
  <1>3. TypeOK
    BY <1>1, <1>2, EmptyTyped DEF Init, TypeOK, NoFrame, Time
  <1>4. TableSound
    BY EmptyTyped DEF Init, TableSound
  <1>5. HeardOnMember
    BY DEF Init, HeardOnMember, Never
  <1>6. phase # "running" => /\ rx = NoFrame
                             /\ out = {}
                             /\ heard = [k \in Mac \X Vlan |-> Never]
                             /\ \A s \in Slot : ~mac_table[s].valid
    BY EmptyTyped DEF Init
  <1> QED
    BY <1>3, <1>4, <1>5, <1>6 DEF IInv

\* An invariant about an empty table and a silent wire needs only the types.
LEMMA QuietInv ==
    ASSUME TypeOK',
           (rx = NoFrame)', (out = {})',
           (heard = [k \in Mac \X Vlan |-> Never])',
           (\A s \in Slot : ~mac_table[s].valid)'
    PROVE  IInv'
  <1>1. TableSound'
    BY DEF TableSound
  <1>2. HeardOnMember'
    BY DEF HeardOnMember, Never
  <1> QED
    BY <1>1, <1>2 DEF IInv

LEMMA ParseArgInv ==
    ASSUME IInv, ParseArg
    PROVE  IInv'
  <1>1. /\ phase = "parsing"
        /\ rx = NoFrame /\ out = {}
        /\ heard = [k \in Mac \X Vlan |-> Never]
        /\ \A s \in Slot : ~mac_table[s].valid
    BY DEF IInv, ParseArg
  <1> DEFINE n == Len(gifc) + 1
  <1>2. /\ argv \in Seq(Arg)
        /\ gifc \in Seq(Interface)
        /\ Len(gifc) \in Nat
    BY VSwitchAssumption DEF VSwitchAssumption, IInv, TypeOK
  <1>3. n \in DOMAIN argv /\ n \in Nat
    BY <1>2 DEF ParseArg
  <1>4. argv[n] \in Arg
    BY <1>2, <1>3, ElementOfSeq
  <1>5. gifc' \in Seq(Interface) /\ phase' \in {"parsing", "exited"}
        /\ Len(gifc') \in Nat
    <2>1. CASE parse_vlan_args(argv[n])
      <3>1. InterfaceOf(argv[n], n) \in Interface
        BY <2>1, <1>3, <1>4, InterfaceTyped
      <3>2. gifc' = Append(gifc, InterfaceOf(argv[n], n)) /\ phase' = phase
        BY <2>1 DEF ParseArg
      <3> QED
        BY <3>1, <3>2, <1>1, <1>2
    <2>2. CASE ~parse_vlan_args(argv[n])
      BY <2>2, <1>2 DEF ParseArg
    <2> QED
      BY <2>1, <2>2
  <1>6. UNCHANGED <<argv, mac_table, now, rx, out, heard>>
    BY DEF ParseArg
  <1>7. heard' \in [Mac \X Vlan -> [port : 0..Len(gifc'), time : Time]]
    BY <1>1, <1>5, <1>6, EmptyTyped
  <1>8. TypeOK'
    BY <1>1, <1>5, <1>6, <1>7 DEF IInv, TypeOK, NoFrame
  <1> QED
    BY <1>1, <1>6, <1>8, QuietInv

LEMMA EnterLoopInv ==
    ASSUME IInv, EnterLoop
    PROVE  IInv'
  <1>1. /\ rx = NoFrame /\ out = {}
        /\ heard = [k \in Mac \X Vlan |-> Never]
        /\ \A s \in Slot : ~mac_table[s].valid
    BY DEF IInv, EnterLoop
  <1>2. TypeOK'
    BY DEF IInv, TypeOK, EnterLoop
  <1> QED
    BY <1>1, <1>2, QuietInv DEF EnterLoop

LEMMA ExitInv ==
    ASSUME IInv, Exit
    PROVE  IInv'
  <1>1. Len(gifc) \in Nat /\ gifc' = gifc
    BY DEF IInv, TypeOK, Exit
  <1>2. TypeOK'
    BY <1>1, EmptyTyped DEF IInv, TypeOK, Exit, NoFrame
  <1> QED
    BY <1>2, EmptyTyped, QuietInv DEF Exit

LEMMA HandleMacInv ==
    ASSUME IInv, NEW list \in [1..num_ifc -> InterfaceMac],
           handle_mac(list)
    PROVE  IInv'
  <1>1. /\ rx = NoFrame /\ out = {}
        /\ heard = [k \in Mac \X Vlan |-> Never]
        /\ \A s \in Slot : ~mac_table[s].valid
    BY DEF IInv, handle_mac
  <1>2. \A p \in 1..Len(gifc) : list[p] \in Address
    BY VSwitchAssumption DEF VSwitchAssumption, num_ifc
  <1>3. gifc \in Seq(Interface)
    BY DEF IInv, TypeOK
  <1>4. \A p \in 1..Len(gifc) : [gifc[p] EXCEPT !.mac = list[p]] \in Interface
    <2>1. ASSUME NEW x \in Interface, NEW a \in Address
          PROVE  [x EXCEPT !.mac = a] \in Interface
      BY DEF Interface
    <2> QED
      BY <2>1, <1>2, <1>3
  <1>5. gifc' \in Seq(Interface) /\ Len(gifc') = Len(gifc)
    BY <1>3, <1>4 DEF handle_mac, num_ifc
  <1>6. TypeOK'
    BY <1>1, <1>5 DEF IInv, TypeOK, handle_mac, NoFrame
  <1> QED
    BY <1>1, <1>6, QuietInv DEF handle_mac

\* Handling a frame: what the actions leave alone, and what a drop does.
LEMMA DropInv ==
    ASSUME IInv, phase = "running",
           NEW i \in 1..num_ifc, NEW f \in Frame, NEW t \in Time,
           now' = t, rx' = [ifc |-> i, frame |-> f],
           UNCHANGED <<phase, argv, gifc>>, Drop
    PROVE  IInv'
  <1>1. TypeOK'
    BY DEF IInv, TypeOK, Drop, num_ifc
  <1>2. TableSound' /\ HeardOnMember'
    BY DEF IInv, TableSound, HeardOnMember, Drop, SoundEntry, num_ifc,
           interface_in_vlan, Untagged
  <1> QED
    BY <1>1, <1>2 DEF IInv

LEMMA SwitchInv ==
    ASSUME IInv, phase = "running",
           NEW i \in 1..num_ifc, NEW f \in Frame, NEW t \in Time,
           now' = t, rx' = [ifc |-> i, frame |-> f],
           UNCHANGED <<phase, argv, gifc>>,
           NEW v \in VlansOf(i, f), Switch(i, f, v, t)
    PROVE  IInv'
  <1> DEFINE learnt == learn_mac(f.src, i, v)
             hist   == Hear(f.src, i, v)
  <1>1. /\ f.src \in Mac /\ f.dst \in Mac
        /\ i \in Nat /\ i \in 0..Len(gifc) /\ Len(gifc) \in Nat
        /\ now \in Time
        /\ heard \in [Mac \X Vlan -> [port : 0..Len(gifc), time : Time]]
    BY VSwitchAssumption DEF VSwitchAssumption, IInv, TypeOK, num_ifc
  <1>2. v \in Vlan /\ interface_in_vlan(i, v)
    BY VlansTyped DEF IInv
  <1>3. learnt \in [Slot -> Entry]
    BY <1>1, <1>2, LearnTyped DEF IInv
  <1>4. /\ mac_table' \in [Slot -> Entry]
        /\ \A s \in Slot : mac_table'[s].valid => mac_table'[s] = learnt[s]
    <2>1. CASE mac_table' = learnt
      BY <2>1, <1>3
    <2>2. CASE mac_table' = lookup_mac(learnt, f.dst, v, t)
      BY <2>2, <1>1, <1>3, LookupTyped, LookupClears
    <2> QED
      BY <2>1, <2>2 DEF Switch
  <1>5. heard' = hist
    BY DEF Switch
  <1>6. hist \in [Mac \X Vlan -> [port : 0..Len(gifc), time : Time]]
    BY <1>1, <1>2 DEF Hear
  <1>7. \A m \in out' : m.type \in 1..Len(gifc) /\ m.size \in Word
    <2>1. ASSUME NEW m \in flood_frame(i, f, v)
          PROVE  m.type \in 1..Len(gifc) /\ m.size \in Word
      BY ForwardTyped DEF flood_frame, num_ifc
    <2>2. ASSUME NEW m, Hit(learnt, f.dst, v, t),
                 m \in forward_frame(i, learnt[mac_hash(f.dst)].ifc_num, f, v)
          PROVE  m.type \in 1..Len(gifc) /\ m.size \in Word
      <3>1. mac_hash(f.dst) \in Slot
        BY <1>1, HashInSlot
      <3>2. SoundEntry(learnt[mac_hash(f.dst)], mac_hash(f.dst), hist)
        BY <3>1, <2>2, <1>1, <1>2, LearntSound DEF Hit, Matches
      <3> QED
        BY <3>2, <2>2, ForwardTyped DEF SoundEntry, num_ifc
    <2> QED
      BY <2>1, <2>2 DEF Switch
  <1>8. TypeOK'
    BY <1>1, <1>4, <1>5, <1>6, <1>7 DEF IInv, TypeOK
  <1>9. TableSound'
    <2>1. ASSUME NEW s \in Slot, mac_table'[s].valid
          PROVE  SoundEntry(mac_table'[s], s, hist)
      BY <2>1, <1>1, <1>2, <1>4, LearntSound
    <2> HIDE DEF hist
    <2> QED
      BY <2>1, <1>5 DEF TableSound, SoundEntry, num_ifc, interface_in_vlan,
                        Untagged
  <1>10. HeardOnMember'
    <2> SUFFICES ASSUME NEW m \in Mac, NEW w \in Vlan, hist[<<m, w>>].port # 0
                 PROVE  /\ m \notin Group
                        /\ interface_in_vlan(hist[<<m, w>>].port, w)
      BY <1>5 DEF HeardOnMember, interface_in_vlan, Untagged
    <2>1. CASE hist[<<m, w>>] = heard[<<m, w>>]
      BY <2>1 DEF IInv, HeardOnMember
    <2>2. CASE hist[<<m, w>>] # heard[<<m, w>>]
      <3>1. /\ ~is_multicast_or_broadcast(f.src)
            /\ hist = [heard EXCEPT ![<<f.src, v>>] =
                                      [port |-> i, time |-> now]]
        BY <2>2 DEF Hear
      <3>2. m = f.src /\ w = v /\ hist[<<m, w>>].port = i
        BY <3>1, <2>2, <1>1, <1>2
      <3> QED
        BY <3>1, <3>2, <1>2 DEF Group
    <2> QED
      BY <2>1, <2>2
  <1> QED
    BY <1>8, <1>9, <1>10 DEF IInv

LEMMA HandleFrameInv ==
    ASSUME IInv, NEW i \in 1..MaxType, NEW f \in Frame, NEW t \in Time,
           handle_frame(i, f, t)
    PROVE  IInv'
  <1>1. /\ phase = "running" /\ i \in 1..num_ifc
        /\ now' = t /\ rx' = [ifc |-> i, frame |-> f]
        /\ UNCHANGED <<phase, argv, gifc>>
    BY DEF handle_frame, IInv, TypeOK, num_ifc
  <1>2. CASE Drop
    BY <1>1, <1>2, DropInv
  <1>3. CASE \E v \in VlansOf(i, f) : Switch(i, f, v, t)
    BY <1>1, <1>3, SwitchInv
  <1> QED
    BY <1>2, <1>3 DEF handle_frame

\* A command or a tick of the clock sends nothing and learns nothing.
LEMMA IdleInv ==
    ASSUME IInv, handle_control \/ Tick
    PROVE  IInv'
  <1>1. /\ phase = "running" /\ phase' = phase
        /\ rx' = NoFrame /\ out' = {}
        /\ now' \in Time
        /\ UNCHANGED <<argv, gifc, mac_table, heard>>
    BY DEF handle_control, Tick, IInv, TypeOK
  <1>2. TypeOK'
    BY <1>1 DEF IInv, TypeOK, NoFrame
  <1>3. TableSound' /\ HeardOnMember'
    BY <1>1 DEF IInv, TableSound, HeardOnMember, SoundEntry, num_ifc,
                interface_in_vlan, Untagged
  <1> QED
    BY <1>1, <1>2, <1>3 DEF IInv

LEMMA StutterInv ==
    ASSUME IInv, UNCHANGED vars
    PROVE  IInv'
  BY DEF vars, IInv, TypeOK, TableSound, HeardOnMember, SoundEntry, num_ifc,
         interface_in_vlan, Untagged

LEMMA NextInv == IInv /\ [Next]_vars => IInv'
  <1> SUFFICES ASSUME IInv, [Next]_vars PROVE IInv'
    OBVIOUS
  <1>1. CASE ParseArg
    BY <1>1, ParseArgInv
  <1>2. CASE EnterLoop
    BY <1>2, EnterLoopInv
  <1>3. CASE \E list \in [1..num_ifc -> InterfaceMac] : handle_mac(list)
    BY <1>3, HandleMacInv
  <1>4. CASE \E i \in 1..MaxType, f \in Frame, t \in Time : handle_frame(i, f, t)
    BY <1>4, HandleFrameInv
  <1>5. CASE Exit
    BY <1>5, ExitInv
  <1>6. CASE handle_control \/ Tick
    BY <1>6, IdleInv
  <1>7. CASE UNCHANGED vars
    BY <1>7, StutterInv
  <1> QED
    BY <1>1, <1>2, <1>3, <1>4, <1>5, <1>6, <1>7
       DEF Next, handle_frame_abort, handle_mac_abort, EndOfInput

LEMMA Inductive == Spec => []IInv
  BY InitInv, NextInv, PTL DEF Spec

\* main and parse_frame keep every VLAN number, slot and interface number in
\* range, whatever the command line and the frames.
THEOREM TypeCorrect == Spec => []TypeOK
  <1>1. IInv => TypeOK
    BY DEF IInv
  <1> QED
    BY <1>1, Inductive, PTL

\* learn_mac and lookup_mac: no valid entry is ever an outdated binding.
THEOREM TableIsSound == Spec => []TableSound
  <1>1. IInv => TableSound
    BY DEF IInv
  <1> QED
    BY <1>1, Inductive, PTL
-----------------------------------------------------------------------------
(***************************************************************************)
(* Nobody who was heard is out of reach.                                   *)
(***************************************************************************)
\* The choice between one port and all of them never misses the port where
\* the destination was heard last.
LEMMA SwitchReaches ==
    ASSUME IInv, IInv', phase = "running",
           NEW i \in 1..num_ifc, NEW f \in Frame, NEW t \in Time,
           rx' = [ifc |-> i, frame |-> f],
           UNCHANGED <<phase, argv, gifc>>,
           NEW v \in VlansOf(i, f), Switch(i, f, v, t),
           heard'[<<f.dst, v>>].port \notin {0, i}
    PROVE  \E m \in out' : m.type = heard'[<<f.dst, v>>].port
  <1> DEFINE learnt == learn_mac(f.src, i, v)
             hist   == Hear(f.src, i, v)
             q      == hist[<<f.dst, v>>].port
             msg    == send_frame(q, Retag(f, v, Untagged(q, v)))
  <1>1. f.src \in Mac /\ f.dst \in Mac
    BY VSwitchAssumption DEF VSwitchAssumption
  <1>2. v \in Vlan /\ interface_in_vlan(i, v)
    BY VlansTyped DEF IInv
  <1>3. heard' = hist
    BY DEF Switch
  <1>4. /\ heard' \in [Mac \X Vlan -> [port : 0..Len(gifc), time : Time]]
        /\ heard'[<<f.dst, v>>].port # 0 =>
             /\ f.dst \notin Group
             /\ interface_in_vlan(heard'[<<f.dst, v>>].port, v)
    BY <1>1, <1>2 DEF IInv, TypeOK, HeardOnMember, interface_in_vlan, Untagged
  <1>5. /\ q \in 1..num_ifc /\ q # i
        /\ interface_in_vlan(q, v)
        /\ ~is_multicast_or_broadcast(f.dst)
    BY <1>1, <1>2, <1>3, <1>4 DEF Group, num_ifc, IInv, TypeOK
  <1>6. msg \in forward_frame(i, q, f, v) /\ msg.type = q
    BY <1>5 DEF forward_frame, send_frame
  <1>7. CASE out' = flood_frame(i, f, v)
    BY <1>3, <1>5, <1>6, <1>7 DEF flood_frame
  <1>8. CASE /\ Hit(learnt, f.dst, v, t)
             /\ out' = forward_frame(i, learnt[mac_hash(f.dst)].ifc_num, f, v)
    <2>1. mac_hash(f.dst) \in Slot
      BY <1>1, HashInSlot
    <2>2. SoundEntry(learnt[mac_hash(f.dst)], mac_hash(f.dst), hist)
      BY <2>1, <1>1, <1>2, <1>8, LearntSound DEF Hit, Matches
    <2>3. learnt[mac_hash(f.dst)].ifc_num = q
      BY <2>2, <1>8 DEF SoundEntry, Hit, Matches
    <2> QED
      BY <2>3, <1>3, <1>6, <1>8
  <1> QED
    BY <1>5, <1>7, <1>8 DEF Switch

LEMMA StationStep ==
    ASSUME IInv, IInv', StationReached, [Next]_vars
    PROVE  StationReached'
  <1>1. CASE rx' = NoFrame
    BY <1>1 DEF StationReached, NoFrame
  <1>2. CASE UNCHANGED vars
    BY <1>2 DEF vars, StationReached, VlansOf, Untagged
  <1>3. CASE \E i \in 1..MaxType, f \in Frame, t \in Time : handle_frame(i, f, t)
    <2>1. PICK i \in 1..MaxType, f \in Frame, t \in Time : handle_frame(i, f, t)
      BY <1>3
    <2>2. /\ phase = "running" /\ i \in 1..num_ifc
          /\ rx' = [ifc |-> i, frame |-> f]
          /\ UNCHANGED <<phase, argv, gifc>>
      BY <2>1 DEF handle_frame, IInv, TypeOK, num_ifc
    <2>3. VlansOf(i, f)' = VlansOf(i, f)
      BY <2>2 DEF VlansOf, Untagged
    <2> SUFFICES ASSUME NEW v \in VlansOf(i, f),
                        heard'[<<f.dst, v>>].port \notin {0, i}
                 PROVE  \E m \in out' : m.type = heard'[<<f.dst, v>>].port
      BY <2>2, <2>3 DEF StationReached, VlansOf, Untagged
    <2>4. Switch(i, f, v, t)
      BY <2>1, VlanUnique DEF handle_frame
    <2> QED
      BY <2>2, <2>4, SwitchReaches
  <1>4. CASE \/ ParseArg \/ EnterLoop
             \/ \E list \in [1..num_ifc -> InterfaceMac] : handle_mac(list)
    <2>1. rx = NoFrame /\ rx' = rx
      BY <1>4 DEF IInv, ParseArg, EnterLoop, handle_mac
    <2> QED
      BY <2>1, <1>1
  <1> QED
    BY <1>1, <1>2, <1>3, <1>4
       DEF Next, handle_frame_abort, handle_mac_abort, EndOfInput, Exit,
           handle_control, Tick

\* parse_frame: a station that was heard is reached, by its entry or by flood.
THEOREM EveryStationReached == Spec => []StationReached
  <1>1. Init => StationReached
    BY DEF Init, StationReached, NoFrame
  <1>2. IInv /\ IInv' /\ StationReached /\ [Next]_vars => StationReached'
    BY StationStep
  <1> QED
    BY <1>1, <1>2, Inductive, PTL DEF Spec
-----------------------------------------------------------------------------
(***************************************************************************)
(* What a port sends stays in its VLAN.                                    *)
(***************************************************************************)
LEMMA OnlyVlan ==
    ASSUME NEW i, NEW f, NEW v \in VlansOf(i, f)
    PROVE  VlansOf(i, f) = {v}
  <1>1. \A w \in VlansOf(i, f) : w = v
    BY VlanUnique
  <1> QED
    BY <1>1

LEMMA VlanWithoutTag ==
    ASSUME NEW p, NEW g, NEW v \in Vlan,
           g.tags = <<>>, g.size >= 14, Untagged(p, v)
    PROVE  VlansOf(p, g) = {v}
  <1>1. v \in VlansOf(p, g)
    BY DEF VlansOf
  <1> QED
    BY <1>1, OnlyVlan

LEMMA VlanWithTag ==
    ASSUME NEW p, NEW g, NEW v \in Vlan,
           g.tags # <<>>, g.size >= 18, v = g.tags[1] % 4096,
           v \in gifc[p].tagged_vlans, ~Untagged(p, v)
    PROVE  v \in VlansOf(p, g)
  BY DEF VlansOf

\* Stripping and inserting the tag: a port of the VLAN that gets the frame
\* would put it in the same VLAN again.
LEMMA RetagKeeps ==
    ASSUME NEW i, NEW p, NEW f \in Frame, Len(f.tags) <= 1,
           NEW v \in VlansOf(i, f), interface_in_vlan(p, v)
    PROVE  VlansOf(p, Retag(f, v, Untagged(p, v))) = VlansOf(i, f)
  <1> DEFINE r == Retag(f, v, Untagged(p, v))
  <1>1. f.tags \in Seq(Word) /\ f.size \in Nat
    BY VSwitchAssumption DEF VSwitchAssumption
  <1>2. v \in Vlan /\ v % 4096 = v
    <2>1. v \in Vlan /\ v \in Nat /\ v < 4096
      BY VSwitchAssumption DEF VSwitchAssumption, Vlan, VlansOf
    <2> QED
      BY <2>1
  <1>3. VlansOf(i, f) = {v}
    BY OnlyVlan
  <1>4. /\ f.tags = <<>> => f.size >= 14
        /\ f.tags # <<>> => f.size >= 18 /\ v = f.tags[1] % 4096
    BY DEF VlansOf
  <1>5. ~Untagged(p, v) => v \in gifc[p].tagged_vlans
    BY DEF interface_in_vlan
  <1>6. CASE Untagged(p, v) /\ f.tags = <<>>
    <2>1. r = f
      BY <1>6 DEF Retag
    <2>2. VlansOf(p, f) = {v}
      BY <1>2, <1>4, <1>6, VlanWithoutTag
    <2> QED
      BY <1>3, <2>1, <2>2
  <1>7. CASE Untagged(p, v) /\ f.tags # <<>>
    <2>1. r = WithTags(f, Tail(f.tags), f.size - 4)
      BY <1>7 DEF Retag
    <2>2. r.tags = Tail(f.tags) /\ r.size = f.size - 4
      BY <2>1 DEF WithTags
    <2>3. Tail(f.tags) = <<>>
      BY <1>1, <1>7
    <2>4. r.size >= 14
      <3>1. f.size >= 18
        BY <1>4, <1>7
      <3> QED
        BY <1>1, <2>2, <3>1
    <2>5. r.tags = <<>>
      BY <2>2, <2>3
    <2> HIDE DEF r
    <2>6. VlansOf(p, r) = {v}
      BY <1>2, <1>7, <2>4, <2>5, VlanWithoutTag
    <2> QED
      BY <1>3, <2>6 DEF r
  <1>8. CASE ~Untagged(p, v) /\ f.tags = <<>>
    <2>1. r = WithTags(f, <<v>>, f.size + 4)
      BY <1>8 DEF Retag
    <2>2. r.tags = <<v>> /\ r.size = f.size + 4
      BY <2>1 DEF WithTags
    <2>3. r.size >= 18
      BY <1>1, <1>4, <1>8, <2>2
    <2>4. r.tags # <<>> /\ r.tags[1] = v
      BY <2>2
    <2> HIDE DEF r
    <2>5. v \in VlansOf(p, r)
      BY <1>2, <1>5, <1>8, <2>3, <2>4, VlanWithTag
    <2>6. VlansOf(p, r) = {v}
      BY <2>5, OnlyVlan
    <2> QED
      BY <1>3, <2>6 DEF r
  <1>9. CASE ~Untagged(p, v) /\ f.tags # <<>>
    <2>1. r = f
      BY <1>9 DEF Retag
    <2>2. v \in VlansOf(p, f)
      BY <1>2, <1>4, <1>5, <1>9, VlanWithTag
    <2>3. VlansOf(p, f) = {v}
      BY <2>2, OnlyVlan
    <2> QED
      BY <1>3, <2>1, <2>3
  <1> QED
    BY <1>6, <1>7, <1>8, <1>9

LEMMA SwitchPreserves ==
    ASSUME NEW i, NEW f \in Frame, NEW t, Len(f.tags) <= 1,
           NEW v \in VlansOf(i, f), Switch(i, f, v, t), NEW m \in out'
    PROVE  VlansOf(m.type, m.frame) = VlansOf(i, f)
  <1>1. PICK p : m \in forward_frame(i, p, f, v)
    BY DEF Switch, flood_frame
  <1>2. /\ interface_in_vlan(p, v)
        /\ m.type = p /\ m.frame = Retag(f, v, Untagged(p, v))
    BY <1>1 DEF forward_frame, send_frame
  <1> QED
    BY <1>2, RetagKeeps

\* forward_frame and parse_frame: what a port sends is in the VLAN of the
\* frame that came in, for whoever configured the port at the other end alike.
THEOREM VlanIsPreserved == Spec => []VlanPreserved
  <1>1. Init => VlanPreserved
    BY DEF Init, VlanPreserved
  <1>2. IInv /\ VlanPreserved /\ [Next]_vars => VlanPreserved'
    <2> SUFFICES ASSUME IInv, VlanPreserved, [Next]_vars PROVE VlanPreserved'
      OBVIOUS
    <2>1. CASE rx' = NoFrame
      BY <2>1 DEF VlanPreserved, NoFrame
    <2>2. CASE UNCHANGED vars
      BY <2>2 DEF vars, VlanPreserved, VlansOf, Untagged
    <2>3. CASE \E i \in 1..MaxType, f \in Frame, t \in Time : handle_frame(i, f, t)
      <3>1. PICK i \in 1..MaxType, f \in Frame, t \in Time : handle_frame(i, f, t)
        BY <2>3
      <3>2. rx' = [ifc |-> i, frame |-> f] /\ UNCHANGED gifc
        BY <3>1 DEF handle_frame
      <3> SUFFICES ASSUME Len(f.tags) <= 1, NEW m \in out'
                   PROVE  VlansOf(m.type, m.frame) = VlansOf(i, f)
        BY <3>2 DEF VlanPreserved, VlansOf, Untagged
      <3>3. PICK v \in VlansOf(i, f) : Switch(i, f, v, t)
        BY <3>1 DEF handle_frame, Drop
      <3> QED
        BY <3>3, SwitchPreserves
    <2>4. CASE \/ ParseArg \/ EnterLoop
               \/ \E list \in [1..num_ifc -> InterfaceMac] : handle_mac(list)
      <3>1. rx = NoFrame /\ rx' = rx
        BY <2>4 DEF IInv, ParseArg, EnterLoop, handle_mac
      <3> QED
        BY <3>1, <2>1
    <2> QED
      BY <2>1, <2>2, <2>3, <2>4
         DEF Next, handle_frame_abort, handle_mac_abort, EndOfInput, Exit,
             handle_control, Tick
  <1> QED
    BY <1>1, <1>2, Inductive, PTL DEF Spec
-----------------------------------------------------------------------------
(***************************************************************************)
(* What the table may forget.                                              *)
(***************************************************************************)
LEMMA SwitchKeeps ==
    ASSUME IInv, NEW i \in 1..num_ifc, NEW f \in Frame, NEW t \in Time,
           NEW v \in VlansOf(i, f), Switch(i, f, v, t), now' = t,
           t \in {now, now + 1}, rx' = [ifc |-> i, frame |-> f],
           UNCHANGED <<phase, argv, gifc>>,
           NEW s \in Slot, mac_table[s].valid, mac_table'[s] # mac_table[s]
    PROVE  EntryLost(s)
  <1> DEFINE learnt == learn_mac(f.src, i, v)
  <1>1. /\ f.src \in Mac /\ f.dst \in Mac /\ i \in Nat /\ now \in Time
        /\ mac_table \in [Slot -> Entry]
        /\ mac_hash(f.src) \in Slot /\ mac_hash(f.dst) \in Slot
    BY VSwitchAssumption, HashInSlot
       DEF VSwitchAssumption, IInv, TypeOK, num_ifc
  <1>2. v \in Vlan /\ VlansOf(i, f) # {}
    BY VlansTyped DEF IInv
  <1>3. learnt \in [Slot -> Entry]
    BY <1>1, <1>2, LearnTyped DEF IInv
  <1>4. VlansOf(i, f)' = VlansOf(i, f)
    BY DEF VlansOf, Untagged
  <1>5. \/ mac_table' = learnt
        \/ mac_table' = lookup_mac(learnt, f.dst, v, t)
    BY DEF Switch
  <1>6. CASE learnt[s] # mac_table[s]
    <2>1. s = mac_hash(f.src) /\ learnt[s].mac = f.src
      BY <1>1, <1>6 DEF learn_mac
    <2>2. mac_table'[s].mac = f.src
      BY <2>1, <1>1, <1>3, <1>5 DEF lookup_mac, Entry
    <2> QED
      BY <2>1, <2>2, <1>1, <1>2, <1>4 DEF EntryLost, VlansOf, Untagged
  <1>7. CASE learnt[s] = mac_table[s]
    <2>1. /\ s = mac_hash(f.dst) /\ Aged(learnt, f.dst, t)
          /\ mac_table' = [learnt EXCEPT ![s].valid = FALSE]
      BY <1>1, <1>3, <1>5, <1>7 DEF lookup_mac
    <2>2. mac_table'[s] = [mac_table[s] EXCEPT !.valid = FALSE]
      BY <2>1, <1>3, <1>7
    <2>3. now' - mac_table[s].last_seen > MAC_AGING_TIME
      BY <2>1, <1>7 DEF Aged
    <2> QED
      BY <2>2, <2>3 DEF EntryLost
  <1> QED
    BY <1>6, <1>7

\* lookup_mac and learn_mac: an entry goes only by collision or by age.
THEOREM EntriesAreKept == Spec => EntriesKept
  <1> DEFINE Kept == \A s \in Slot :
                       mac_table[s].valid /\ mac_table'[s] # mac_table[s]
                           => phase' = "exited" \/ EntryLost(s)
  <1>1. IInv /\ [Next]_vars => Kept
    <2> SUFFICES ASSUME IInv, [Next]_vars,
                        NEW s \in Slot, mac_table[s].valid,
                        mac_table'[s] # mac_table[s]
                 PROVE  phase' = "exited" \/ EntryLost(s)
      OBVIOUS
    <2>1. CASE \E i \in 1..MaxType, f \in Frame, t \in Time :
                  handle_frame(i, f, t)
      <3>1. PICK i \in 1..MaxType, f \in Frame, t \in Time : handle_frame(i, f, t)
        BY <2>1
      <3>2. i \in 1..num_ifc
        BY <3>1 DEF handle_frame, IInv, TypeOK, num_ifc
      <3>3. PICK v \in VlansOf(i, f) : Switch(i, f, v, t)
        BY <3>1 DEF handle_frame, Drop
      <3> QED
        BY <3>1, <3>2, <3>3, SwitchKeeps DEF handle_frame
    <2>2. CASE Exit
      BY <2>2 DEF Exit
    <2>3. CASE UNCHANGED mac_table
      BY <2>3
    <2> QED
      BY <2>1, <2>2, <2>3
         DEF Next, vars, ParseArg, EnterLoop, handle_mac, handle_frame_abort,
             handle_mac_abort, EndOfInput, handle_control, Tick
  <1> QED
    BY <1>1, Inductive, PTL DEF Spec, EntriesKept
=============================================================================
