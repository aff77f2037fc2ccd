----------------------------- MODULE ArpProofs ------------------------------
(***************************************************************************)
(* Proofs about Arp for every command line, set of frames, content of the  *)
(* buffer behind a short frame, and size of the cache.                     *)
(***************************************************************************)
EXTENDS Arp, TLAPS

LEMMA ModRange ==
    ASSUME NEW x \in Int, NEW n \in Nat \ {0}
    PROVE  x % n \in 0..(n - 1)
  OBVIOUS

LEMMA ModSmall ==
    ASSUME NEW n \in Nat \ {0}, NEW x \in 0..(n - 1)
    PROVE  x % n = x
  OBVIOUS

\* hash_ip stays inside the cache.
LEMMA HashInSlot ==
    ASSUME NEW ip \in Ip
    PROVE  hash_ip(ip) \in Slot
  <1>1a. ip[2] \in Nat
    BY ArpAssumption DEF ArpAssumption, Ip
  <1>1. ip[2] \in Int
    BY <1>1a
  <1>2. ARP_CACHE_SIZE \in Nat \ {0}
    BY ArpAssumption DEF ArpAssumption
  <1> QED
    BY <1>1, <1>2, ModRange DEF hash_ip, Slot

LEMMA ElementOfSeq ==
    ASSUME NEW S, NEW s \in Seq(S), NEW k \in DOMAIN s
    PROVE  s[k] \in S
  OBVIOUS

\* What the code stores of a reply fits the fields it stores it in.
LEMMA OverlayTyped ==
    ASSUME NEW h \in ArpHeader
    PROVE  KeyOf(h) \in Ip /\ ValueOf(h) \in Ha /\ ValueOf(h) # NoMac
  <1>1. KeyOf(h) \in Ip /\ ValueOf(h) \in Ha
    BY DEF ArpHeader, Ip, Ha, KeyOf, ValueOf
  <1> QED
    BY <1>1, ArpAssumption DEF ArpAssumption

LEMMA HeaderTyped ==
    ASSUME NEW f \in Frame, NEW h \in HeadersRead(f)
    PROVE  f \in FrameType /\ h \in ArpHeader
  <1>1. f \in FrameType /\ Header \subseteq ArpHeader
    BY ArpAssumption DEF ArpAssumption
  <1>2. f.arp \in ArpHeader
    BY <1>1 DEF FrameType
  <1> QED
    BY <1>1, <1>2 DEF HeadersRead

LEMMA SixteenBits ==
    ASSUME NEW n \in Int
    PROVE  n % 65536 \in Word
  <1> DEFINE k == 65536
  <1>1. k \in Nat \ {0} /\ 0..(k - 1) = Word
    BY DEF Word
  <1> HIDE DEF k
  <1>2. n % k \in 0..(k - 1)
    BY <1>1, ModRange
  <1>3. n % k \in Word
    BY <1>1, <1>2
  <1> QED
    BY <1>3 DEF k

LEMMA InterfaceTyped ==
    ASSUME NEW a \in Arg
    PROVE  InterfaceOf(a) \in Interface
  <1>1. a.ip \in Ip /\ a.mtu \in Int
    BY DEF Arg
  <1>1a. a.mtu + EthernetSize \in Int
    BY <1>1 DEF EthernetSize
  <1>2. (a.mtu + EthernetSize) % 65536 \in Word
    BY <1>1a, SixteenBits
  <1>3. 1500 + EthernetSize \in Word
    BY DEF Word, EthernetSize
  <1>4. InterfaceOf(a).mtu \in Word
    BY <1>2, <1>3 DEF InterfaceOf
  <1> QED
    BY <1>1, <1>4 DEF InterfaceOf, Interface

LEMMA NoWrap ==
    ASSUME NEW m \in Int, m >= 400, m <= 65535 - EthernetSize
    PROVE  ReplySize <= (m + EthernetSize) % 65536
  <1> DEFINE k == 65536
             n == m + EthernetSize
  <1>1. n \in Int /\ 42 <= n /\ n <= k - 1
    BY DEF EthernetSize
  <1>2. k \in Nat \ {0}
    OBVIOUS
  <1>3. ReplySize = 42
    BY DEF ReplySize, EthernetSize, ArpSize
  <1> HIDE DEF k, n
  <1>4. n \in 0..(k - 1)
    BY <1>1, <1>2
  <1>5. n % k = n
    BY <1>2, <1>4, ModSmall
  <1> QED
    BY <1>1, <1>3, <1>5 DEF k, n

\* An answer fits every MTU that was accepted and did not wrap.
LEMMA AnswerFits ==
    ASSUME NEW a \in Arg, parse_cmd_arg(a), a.mtu <= 65535 - EthernetSize
    PROVE  ReplySize <= InterfaceOf(a).mtu
  <1>1. a.mtu \in Int
    BY DEF Arg
  <1>2. CASE a.mtu = NO_MTU
    BY <1>2 DEF InterfaceOf, ReplySize, EthernetSize, ArpSize
  <1>3. CASE a.mtu # NO_MTU
    <2>1. a.mtu >= 400
      BY <1>3 DEF parse_cmd_arg
    <2>2. ReplySize <= (a.mtu + EthernetSize) % 65536
      BY <1>1, <2>1, NoWrap
    <2> QED
      BY <2>2, <1>3 DEF InterfaceOf
  <1> QED
    BY <1>2, <1>3
-----------------------------------------------------------------------------
(***************************************************************************)
(* The inductive invariant: what was set up at start, until main() leaves  *)
(* loop(); nothing is cached or answered before that.                      *)
(***************************************************************************)
SetUp ==
    /\ Len(gifc) <= Len(argv)
    /\ \A p \in 1..Len(gifc) : /\ parse_cmd_arg(argv[p])
                               /\ gifc[p].ip = argv[p].ip
                               /\ gifc[p].mtu = InterfaceOf(argv[p]).mtu
    /\ phase \in {"waiting", "running"} => Len(gifc) = Len(argv)
    /\ phase = "running" => \A p \in 1..Len(gifc) : gifc[p].mac \in Ha

Unused ==
    /\ out = {}
    /\ \A s \in Slot : ~arp_cache[s].valid

IInv ==
    /\ TypeOK
    /\ SetUp
    /\ CacheSound
    /\ AnsweredForOwnAddress
    /\ FrameSurvived
    /\ phase # "running" => Unused
    /\ phase \in {"parsing", "waiting"} => rx.ifc = 0

LEMMA EmptyTyped ==
    /\ [s \in Slot |-> NoEntry] \in [Slot -> CacheEntry]
    /\ \A s \in Slot : ~[r \in Slot |-> NoEntry][s].valid
    /\ Nothing \in [Ip -> Ha \cup {NoMac}]
  <1>1. <<0, 0>> \in Ip
    BY ArpAssumption DEF ArpAssumption, Ip
  <1>2. NoEntry \in CacheEntry /\ NoEntry.valid = FALSE
    BY <1>1 DEF NoEntry, CacheEntry
  <1> QED
    BY <1>2 DEF Nothing

\* An unused cache makes no promise that could be broken.
LEMMA UnusedInv ==
    ASSUME TypeOK', SetUp', FrameSurvived', Unused',
           (phase # "exited" => rx.ifc = 0)'
    PROVE  IInv'
  <1>1. ASSUME NEW ip \in Ip
        PROVE  lookup_arp_cache(ip)' = NoMac
    BY HashInSlot DEF Unused, lookup_arp_cache
  <1>2. CacheSound'
    BY <1>1 DEF CacheSound, Unused
  <1>3. AnsweredForOwnAddress'
    BY DEF AnsweredForOwnAddress, Asked, Unused
  <1>4. (phase \in {"parsing", "waiting"} => rx.ifc = 0)'
    OBVIOUS
  <1> QED
    BY <1>2, <1>3, <1>4 DEF IInv

LEMMA InitInv == Init => IInv
  <1> SUFFICES ASSUME Init PROVE IInv
    OBVIOUS
  <1>1. /\ gifc \in Seq(Interface) /\ Len(gifc) = 0
        /\ argv \in CommandLine /\ argv \in Seq(Arg) /\ Len(argv) \in Nat
        /\ rx.ifc = 0 /\ MaxType \in Nat
    BY ArpAssumption DEF ArpAssumption, Init, NoFrame
  <1>2. TypeOK
    BY <1>1, EmptyTyped DEF Init, TypeOK
  <1>3. SetUp
    BY <1>1 DEF Init, SetUp
  <1>4. Unused
    BY EmptyTyped DEF Init, Unused
  <1>5. \A ip \in Ip : lookup_arp_cache(ip) = NoMac
    BY <1>4, HashInSlot DEF Unused, lookup_arp_cache
  <1>6. CacheSound
    BY <1>4, <1>5 DEF Unused, CacheSound
  <1>7. AnsweredForOwnAddress /\ FrameSurvived
    BY <1>1 DEF Init, AnsweredForOwnAddress, FrameSurvived
  <1> QED
    BY <1>1, <1>2, <1>3, <1>4, <1>6, <1>7 DEF IInv
-----------------------------------------------------------------------------
(***************************************************************************)
(* Start-up and the end.                                                   *)
(***************************************************************************)
\* Whatever ends the program: the set-up is kept, the memory is gone.
LEMMA ExitInv ==
    ASSUME IInv, Exit,
           (rx.ifc \in 0..MaxType)',
           (rx.ifc # 0 => rx.frame \in Frame /\ rx.header \in ArpHeader)',
           FrameSurvived'
    PROVE  IInv'
  <1>1. phase' = "exited" /\ UNCHANGED <<argv, gifc>>
    BY DEF Exit
  <1>2. TypeOK'
    BY <1>1, EmptyTyped DEF IInv, TypeOK, Exit
  <1>3. SetUp'
    BY <1>1 DEF IInv, SetUp
  <1>4. Unused'
    BY EmptyTyped DEF Exit, Unused
  <1> QED
    BY <1>1, <1>2, <1>3, <1>4, UnusedInv

\* An end that no frame caused.
LEMMA SilentExitInv ==
    ASSUME IInv, Exit, rx'.ifc = 0
    PROVE  IInv'
  <1>1. MaxType \in Nat
    BY ArpAssumption DEF ArpAssumption
  <1>2. FrameSurvived'
    BY DEF FrameSurvived
  <1> QED
    BY <1>1, <1>2, ExitInv

LEMMA ParseArgInv ==
    ASSUME IInv, ParseArg
    PROVE  IInv'
  <1> DEFINE n == Len(gifc) + 1
  <1>1. /\ phase = "parsing" /\ phase' = phase
        /\ rx.ifc = 0 /\ Unused
        /\ UNCHANGED <<argv, arp_cache, rx, out, learnt>>
    BY DEF IInv, ParseArg
  <1>2. /\ argv \in Seq(Arg) /\ gifc \in Seq(Interface)
        /\ Len(gifc) \in Nat /\ Len(argv) \in Nat
    BY ArpAssumption DEF ArpAssumption, IInv, TypeOK
  <1>3. n \in DOMAIN argv /\ n <= Len(argv)
    BY <1>2 DEF ParseArg
  <1>4. argv[n] \in Arg
    BY <1>2, <1>3, ElementOfSeq
  <1>5. gifc' = Append(gifc, InterfaceOf(argv[n])) /\ parse_cmd_arg(argv[n])
    BY DEF ParseArg
  <1>6. InterfaceOf(argv[n]) \in Interface
    BY <1>4, InterfaceTyped
  <1>7. /\ gifc' \in Seq(Interface) /\ Len(gifc') = n
        /\ \A p \in 1..Len(gifc) : gifc'[p] = gifc[p]
        /\ gifc'[n] = InterfaceOf(argv[n])
    BY <1>2, <1>5, <1>6
  <1>8. TypeOK'
    BY <1>1, <1>7 DEF IInv, TypeOK, Unused
  <1>9. SetUp'
    <2>1. ASSUME NEW p \in 1..Len(gifc)
          PROVE  /\ parse_cmd_arg(argv[p])
                 /\ gifc'[p].ip = argv[p].ip
                 /\ gifc'[p].mtu = InterfaceOf(argv[p]).mtu
      BY <1>7 DEF IInv, SetUp
    <2>2. gifc'[n].ip = argv[n].ip /\ gifc'[n].mtu = InterfaceOf(argv[n]).mtu
      BY <1>7 DEF InterfaceOf
    <2>3. \A p \in 1..n : p \in 1..Len(gifc) \/ p = n
      BY <1>2
    <2> QED
      BY <1>1, <1>3, <1>5, <1>7, <2>1, <2>2, <2>3 DEF SetUp
  <1>10. Unused' /\ FrameSurvived'
    BY <1>1 DEF Unused, FrameSurvived
  <1> QED
    BY <1>1, <1>8, <1>9, <1>10, UnusedInv

LEMMA EnterLoopInv ==
    ASSUME IInv, EnterLoop
    PROVE  IInv'
  <1>1. rx.ifc = 0 /\ Unused /\ phase' = "waiting"
        /\ UNCHANGED <<argv, gifc, arp_cache, rx, out, learnt>>
    BY DEF IInv, EnterLoop
  <1>2. TypeOK'
    BY <1>1 DEF IInv, TypeOK, Unused
  <1>3. SetUp'
    BY <1>1 DEF IInv, SetUp, EnterLoop
  <1>4. Unused' /\ FrameSurvived'
    BY <1>1 DEF Unused, FrameSurvived
  <1> QED
    BY <1>1, <1>2, <1>3, <1>4, UnusedInv

LEMMA HandleMacInv ==
    ASSUME IInv, NEW list \in [1..num_ifc -> OwnMac], handle_mac(list)
    PROVE  IInv'
  <1>1. /\ phase = "waiting" /\ phase' = "running" /\ rx.ifc = 0 /\ Unused
        /\ UNCHANGED <<argv, arp_cache, rx, out, learnt>>
    BY DEF IInv, handle_mac
  <1>2. \A p \in 1..Len(gifc) : list[p] \in Ha
    BY ArpAssumption DEF ArpAssumption, num_ifc
  <1>3. gifc \in Seq(Interface) /\ Len(gifc) \in Nat
    BY DEF IInv, TypeOK
  <1>4. ASSUME NEW p \in 1..Len(gifc)
        PROVE  /\ [gifc[p] EXCEPT !.mac = list[p]] \in Interface
               /\ [gifc[p] EXCEPT !.mac = list[p]].mac = list[p]
               /\ [gifc[p] EXCEPT !.mac = list[p]].ip = gifc[p].ip
               /\ [gifc[p] EXCEPT !.mac = list[p]].mtu = gifc[p].mtu
    <2>1. gifc[p] \in Interface
      BY <1>3
    <2> QED
      BY <2>1, <1>2 DEF Interface
  <1>5. /\ gifc' \in Seq(Interface) /\ Len(gifc') = Len(gifc)
        /\ \A p \in 1..Len(gifc) : gifc'[p] = [gifc[p] EXCEPT !.mac = list[p]]
    BY <1>3, <1>4 DEF handle_mac, num_ifc
  <1>6. TypeOK'
    BY <1>1, <1>5 DEF IInv, TypeOK, Unused
  <1>7. SetUp'
    <2>1. Len(gifc') = Len(argv) /\ Len(gifc') <= Len(argv)
      BY <1>1, <1>5 DEF IInv, SetUp
    <2>2. ASSUME NEW p \in 1..Len(gifc)
          PROVE  /\ parse_cmd_arg(argv[p])
                 /\ gifc'[p].ip = argv[p].ip
                 /\ gifc'[p].mtu = InterfaceOf(argv[p]).mtu
                 /\ gifc'[p].mac \in Ha
      BY <1>2, <1>4, <1>5 DEF IInv, SetUp
    <2> QED
      BY <1>1, <1>5, <2>1, <2>2 DEF SetUp
  <1>8. Unused' /\ FrameSurvived'
    BY <1>1 DEF Unused, FrameSurvived
  <1> QED
    BY <1>1, <1>6, <1>7, <1>8, UnusedInv
-----------------------------------------------------------------------------
(***************************************************************************)
(* Running.                                                                *)
(***************************************************************************)
\* The interface a frame came in on is the one the command line numbers so.
LEMMA Numbered ==
    ASSUME IInv, phase = "running", NEW i \in 1..MaxType, i <= num_ifc
    PROVE  /\ i \in 1..Len(gifc) /\ i <= Len(argv)
           /\ argv[i] \in Arg /\ parse_cmd_arg(argv[i])
           /\ InterfaceNumber(i).ip = argv[i].ip
           /\ InterfaceNumber(i).mac \in Ha
           /\ InterfaceNumber(i).mtu = InterfaceOf(argv[i]).mtu
           /\ argv[i].ip \in Ip
  <1>1. /\ argv \in Seq(Arg) /\ Len(argv) \in Nat /\ Len(gifc) \in Nat
        /\ Len(gifc) = Len(argv) /\ MaxType \in Nat
    BY ArpAssumption DEF ArpAssumption, IInv, TypeOK, SetUp
  <1>2. i \in 1..Len(gifc) /\ i \in DOMAIN argv
    BY <1>1 DEF num_ifc
  <1>3. argv[i] \in Arg
    BY <1>1, <1>2, ElementOfSeq
  <1>4. argv[i].ip \in Ip
    BY <1>3 DEF Arg
  <1> QED
    BY <1>1, <1>2, <1>3, <1>4 DEF IInv, SetUp, InterfaceNumber

\* The cache after a reply: one slot is new, the others are as they were.
LEMMA AddSound ==
    ASSUME IInv, NEW key \in Ip, NEW val \in Ha,
           arp_cache' = add_to_arp_cache(key, val),
           learnt' = [learnt EXCEPT ![key] = val]
    PROVE  /\ arp_cache' \in [Slot -> CacheEntry]
           /\ learnt' \in [Ip -> Ha \cup {NoMac}]
           /\ CacheSound'
           /\ lookup_arp_cache(key)' = val
           /\ \A ip \in Ip : hash_ip(ip) # hash_ip(key)
                               => lookup_arp_cache(ip)' = lookup_arp_cache(ip)
  <1> DEFINE e == [ip |-> key, mac |-> val, valid |-> TRUE]
  <1>1. /\ arp_cache \in [Slot -> CacheEntry]
        /\ learnt \in [Ip -> Ha \cup {NoMac}]
        /\ hash_ip(key) \in Slot
    BY HashInSlot DEF IInv, TypeOK
  <1>2. e \in CacheEntry /\ e.valid = TRUE /\ e.ip = key /\ e.mac = val
    BY DEF CacheEntry
  <1>3. arp_cache' = [arp_cache EXCEPT ![hash_ip(key)] = e]
    BY DEF add_to_arp_cache
  <1> HIDE DEF e
  <1>4. /\ arp_cache' \in [Slot -> CacheEntry]
        /\ arp_cache'[hash_ip(key)] = e
        /\ \A s \in Slot : s # hash_ip(key) => arp_cache'[s] = arp_cache[s]
    BY <1>1, <1>2, <1>3
  <1>5. /\ learnt' \in [Ip -> Ha \cup {NoMac}]
        /\ learnt'[key] = val
        /\ \A ip \in Ip : ip # key => learnt'[ip] = learnt[ip]
    BY <1>1
  <1>6. lookup_arp_cache(key)' = val
    BY <1>2, <1>4 DEF lookup_arp_cache, hash_ip
  <1>7. ASSUME NEW ip \in Ip, hash_ip(ip) # hash_ip(key)
        PROVE  lookup_arp_cache(ip)' = lookup_arp_cache(ip)
    <2>1. hash_ip(ip) \in Slot
      BY HashInSlot
    <2>2. arp_cache'[hash_ip(ip)] = arp_cache[hash_ip(ip)]
      BY <1>4, <1>7, <2>1
    <2> QED
      BY <2>2 DEF lookup_arp_cache, hash_ip
  <1>8. ASSUME NEW s \in Slot, arp_cache'[s].valid
        PROVE  hash_ip(arp_cache'[s].ip) = s
    BY <1>2, <1>4, <1>8 DEF IInv, CacheSound
  <1>9. ASSUME NEW ip \in Ip, lookup_arp_cache(ip)' # NoMac
        PROVE  lookup_arp_cache(ip)' = learnt'[ip]
    <2>1. CASE ip = key
      BY <2>1, <1>5, <1>6
    <2>2. CASE hash_ip(ip) # hash_ip(key)
      <3>1. ip # key
        BY <2>2
      <3>2. lookup_arp_cache(ip)' = lookup_arp_cache(ip)
        BY <2>2, <1>7
      <3>3. lookup_arp_cache(ip) = learnt[ip]
        BY <3>2, <1>9 DEF IInv, CacheSound
      <3> QED
        BY <3>1, <3>2, <3>3, <1>5
    <2>3. CASE ip # key /\ hash_ip(ip) = hash_ip(key)
      <3>1. arp_cache'[hash_ip(ip)].ip # ip
        BY <2>3, <1>2, <1>4
      <3>2. lookup_arp_cache(ip)' = NoMac
        BY <3>1 DEF lookup_arp_cache, hash_ip
      <3> QED
        BY <3>2, <1>9
    <2> QED
      BY <2>1, <2>2, <2>3
  <1>10. CacheSound'
    BY <1>8, <1>9 DEF CacheSound, hash_ip
  <1> QED
    BY <1>4, <1>5, <1>6, <1>7, <1>10

LEMMA HandleFrameInv ==
    ASSUME IInv, NEW i \in 1..MaxType, NEW f \in Frame,
           NEW h \in HeadersRead(f), handle_frame(i, f, h)
    PROVE  IInv'
  <1>1. /\ phase = "running" /\ i <= num_ifc /\ i \in Nat /\ MaxType \in Nat
        /\ rx' = [ifc |-> i, frame |-> f, header |-> h]
        /\ UNCHANGED <<phase, argv, gifc>>
    BY ArpAssumption DEF ArpAssumption, handle_frame
  <1>2. f \in FrameType /\ h \in ArpHeader
    BY HeaderTyped
  <1>3. /\ i \in 1..Len(gifc)
        /\ InterfaceNumber(i).ip = argv[i].ip
        /\ InterfaceNumber(i).mac \in Ha
        /\ argv[i].ip \in Ip
    BY <1>1, Numbered
  <1>4. /\ rx'.ifc = i /\ rx'.frame = f /\ rx'.header = h
    BY <1>1
  <1>5. /\ arp_cache' \in [Slot -> CacheEntry]
        /\ learnt' \in [Ip -> Ha \cup {NoMac}]
        /\ CacheSound'
    <2>1. CASE IsReply(f, h)
      <3>1. KeyOf(h) \in Ip /\ ValueOf(h) \in Ha
        BY <1>2, OverlayTyped
      <3>2. /\ arp_cache' = add_to_arp_cache(KeyOf(h), ValueOf(h))
            /\ learnt' = [learnt EXCEPT ![KeyOf(h)] = ValueOf(h)]
        BY <2>1 DEF handle_frame
      <3> QED
        BY <3>1, <3>2, AddSound
    <2>2. CASE ~IsReply(f, h)
      <3>1. UNCHANGED <<arp_cache, learnt>>
        BY <2>2 DEF handle_frame
      <3>2. CacheSound'
        BY <3>1 DEF IInv, CacheSound, lookup_arp_cache, hash_ip
      <3> QED
        BY <3>1, <3>2 DEF IInv, TypeOK
    <2> QED
      BY <2>1, <2>2
  <1>6. Answer(f, i, h) \in Sent
    <2>1. /\ f.src \in Ha /\ h.sender_ha \in Ha /\ h.sender_pa \in Ip
      BY <1>2 DEF FrameType, ArpHeader
    <2> QED
      BY <2>1, <1>3 DEF Answer, Sent
  <1>7. out' = IF IsRequest(f, i, h) THEN {Answer(f, i, h)} ELSE {}
    BY DEF handle_frame
  <1>8. TypeOK'
    <2>1. out' \subseteq Sent'
      BY <1>1, <1>6, <1>7 DEF Sent
    <2> QED
      BY <1>1, <1>2, <1>4, <1>5, <2>1 DEF IInv, TypeOK
  <1>9. SetUp'
    BY <1>1 DEF IInv, SetUp
  <1>10. AnsweredForOwnAddress'
    <2>1. Asked' <=> IsRequest(f, i, h)
      BY <1>1, <1>3, <1>4 DEF Asked, IsRequest
    <2>2. ASSUME NEW m \in out'
          PROVE  /\ m.type = i /\ m.dst = f.src
                 /\ m.sender_pa = argv[i].ip
                 /\ m.sender_ha = gifc[i].mac
      BY <1>3, <1>7 DEF Answer, InterfaceNumber
    <2>3. out' # {} <=> IsRequest(f, i, h)
      BY <1>7
    <2> QED
      BY <1>1, <1>4, <2>1, <2>2, <2>3 DEF AnsweredForOwnAddress
  <1>11. FrameSurvived'
    BY <1>1 DEF FrameSurvived
  <1> QED
    BY <1>1, <1>5, <1>8, <1>9, <1>10, <1>11 DEF IInv

\* The frames that end the program came from an interface that does not exist,
\* or ask over one whose MTU wrapped.
LEMMA HandleFrameAbortInv ==
    ASSUME IInv, NEW i \in 1..MaxType, NEW f \in Frame,
           NEW h \in HeadersRead(f), handle_frame_abort(i, f, h)
    PROVE  IInv'
  <1>1. /\ phase = "running" /\ Exit
        /\ rx' = [ifc |-> i, frame |-> f, header |-> h]
        /\ UNCHANGED argv
    BY DEF handle_frame_abort, Exit
  <1>2. h \in ArpHeader
    BY HeaderTyped
  <1>3. /\ i \in Nat /\ MaxType \in Nat /\ i \in 0..MaxType
        /\ Len(gifc) \in Nat /\ Len(gifc) = Len(argv)
    BY <1>1, ArpAssumption DEF ArpAssumption, IInv, TypeOK, SetUp
  <1>4. /\ rx'.ifc = i /\ rx'.frame = f /\ rx'.header = h
    BY <1>1
  <1>5. i > Len(argv) \/ argv[i].mtu > 65535 - EthernetSize
    <2>1. CASE i <= num_ifc
      <3>1. ~(ReplySize <= InterfaceNumber(i).mtu)
        BY <2>1 DEF handle_frame_abort, Fits
      <3>2. /\ argv[i] \in Arg /\ parse_cmd_arg(argv[i])
            /\ InterfaceNumber(i).mtu = InterfaceOf(argv[i]).mtu
        BY <1>1, <2>1, Numbered
      <3>3. ~(argv[i].mtu <= 65535 - EthernetSize)
        BY <3>1, <3>2, AnswerFits
      <3>4. argv[i].mtu \in Int
        BY <3>2 DEF Arg
      <3> QED
        BY <3>3, <3>4 DEF EthernetSize
    <2>2. CASE ~(i <= num_ifc)
      BY <2>2, <1>3 DEF num_ifc
    <2> QED
      BY <2>1, <2>2
  <1>6. FrameSurvived'
    BY <1>1, <1>4, <1>5 DEF FrameSurvived
  <1> QED
    BY <1>1, <1>2, <1>3, <1>4, <1>6, ExitInv

LEMMA HandleControlInv ==
    ASSUME IInv, handle_control
    PROVE  IInv'
  <1>1. /\ phase = "running" /\ rx'.ifc = 0 /\ out' = {} /\ MaxType \in Nat
        /\ UNCHANGED <<phase, argv, gifc, arp_cache, learnt>>
    BY ArpAssumption DEF ArpAssumption, handle_control, NoFrame
  <1>2. TypeOK'
    BY <1>1 DEF IInv, TypeOK
  <1>3. SetUp'
    BY <1>1 DEF IInv, SetUp
  <1>4. CacheSound'
    BY <1>1 DEF IInv, CacheSound, lookup_arp_cache, hash_ip
  <1>5. AnsweredForOwnAddress' /\ FrameSurvived'
    BY <1>1 DEF AnsweredForOwnAddress, FrameSurvived, Asked
  <1> QED
    BY <1>1, <1>2, <1>3, <1>4, <1>5 DEF IInv

LEMMA StutterInv ==
    ASSUME IInv, UNCHANGED vars
    PROVE  IInv'
  BY DEF vars, IInv, TypeOK, Sent, SetUp, CacheSound, lookup_arp_cache, hash_ip,
         AnsweredForOwnAddress, Asked, FrameSurvived, Unused

LEMMA NextInv == IInv /\ [Next]_vars => IInv'
  <1> SUFFICES ASSUME IInv, [Next]_vars PROVE IInv'
    OBVIOUS
  <1>1. CASE ParseArg
    BY <1>1, ParseArgInv
  <1>2. CASE ParseArg_abort
    <2>1. Exit /\ rx'.ifc = 0
      BY <1>2 DEF ParseArg_abort, IInv
    <2> QED
      BY <2>1, SilentExitInv
  <1>3. CASE EnterLoop
    BY <1>3, EnterLoopInv
  <1>4. CASE \E list \in [1..num_ifc -> OwnMac] : handle_mac(list)
    BY <1>4, HandleMacInv
  <1>5. CASE \E i \in 1..MaxType, f \in Frame : \E h \in HeadersRead(f) :
                 handle_frame(i, f, h)
    BY <1>5, HandleFrameInv
  <1>6. CASE \E i \in 1..MaxType, f \in Frame : \E h \in HeadersRead(f) :
                 handle_frame_abort(i, f, h)
    BY <1>6, HandleFrameAbortInv
  <1>7. CASE handle_control
    BY <1>7, HandleControlInv
  <1>8. CASE handle_control_crash \/ handle_mac_abort \/ EndOfInput
    <2>1. Exit /\ rx'.ifc = 0
      BY <1>8 DEF handle_control_crash, handle_mac_abort, EndOfInput, NoFrame
    <2> QED
      BY <2>1, SilentExitInv
  <1>9. CASE UNCHANGED vars
    BY <1>9, StutterInv
  <1> QED
    BY <1>1, <1>2, <1>3, <1>4, <1>5, <1>6, <1>7, <1>8, <1>9 DEF Next

LEMMA Inductive == Spec => []IInv
  BY InitInv, NextInv, PTL DEF Spec
-----------------------------------------------------------------------------
(***************************************************************************)
(* The theorems.                                                           *)
(***************************************************************************)
\* Whatever a short frame lets the code read, slots, addresses and interface
\* numbers stay in range (parse_frame, hash_ip).
THEOREM TypeCorrect == Spec => []TypeOK
  <1>1. IInv => TypeOK
    BY DEF IInv
  <1> QED
    BY <1>1, Inductive, PTL

\* add_to_arp_cache and lookup_arp_cache: an answer is never another address's,
\* and never outdated.
THEOREM CacheIsSound == Spec => []CacheSound
  <1>1. IInv => CacheSound
    BY DEF IInv
  <1> QED
    BY <1>1, Inductive, PTL

\* parse_frame answers for the address the command line gave to the interface a
\* request came in on, and for nothing else.
THEOREM AnswersForOwnAddress == Spec => []AnsweredForOwnAddress
  <1>1. IInv => AnsweredForOwnAddress
    BY DEF IInv
  <1> QED
    BY <1>1, Inductive, PTL

\* forward_to: no frame ends the program unless an MTU wrapped.
THEOREM FramesAreSurvived == Spec => []FrameSurvived
  <1>1. IInv => FrameSurvived
    BY DEF IInv
  <1> QED
    BY <1>1, Inductive, PTL

\* hash_ip: an address is pushed out by its slot mates only.
THEOREM CacheIsKept == Spec => CacheKept
  <1> DEFINE Kept ==
        \A ip \in Ip :
          lookup_arp_cache(ip) # NoMac /\ lookup_arp_cache(ip)' = NoMac
             => \/ phase' = "exited"
                \/ \E other \in Ip : /\ SameSlot(ip, other)
                                     /\ lookup_arp_cache(other) = NoMac
                                     /\ lookup_arp_cache(other)' # NoMac
  <1>1. IInv /\ [Next]_vars => Kept
    <2> SUFFICES ASSUME IInv, [Next]_vars, NEW ip \in Ip,
                        lookup_arp_cache(ip) # NoMac,
                        lookup_arp_cache(ip)' = NoMac
                 PROVE  \/ phase' = "exited"
                        \/ \E other \in Ip : /\ SameSlot(ip, other)
                                             /\ lookup_arp_cache(other) = NoMac
                                             /\ lookup_arp_cache(other)' # NoMac
      OBVIOUS
    <2>1. CASE \E i \in 1..MaxType, f \in Frame : \E h \in HeadersRead(f) :
                   handle_frame(i, f, h) /\ IsReply(f, h)
      <3>1. PICK i \in 1..MaxType, f \in Frame : \E h \in HeadersRead(f) :
                   handle_frame(i, f, h) /\ IsReply(f, h)
        BY <2>1
      <3>2. PICK h \in HeadersRead(f) : handle_frame(i, f, h) /\ IsReply(f, h)
        BY <3>1
      <3> DEFINE key == KeyOf(h)
      <3>3. key \in Ip /\ ValueOf(h) \in Ha /\ ValueOf(h) # NoMac
        BY HeaderTyped, OverlayTyped
      <3>4. /\ arp_cache' = add_to_arp_cache(key, ValueOf(h))
            /\ learnt' = [learnt EXCEPT ![key] = ValueOf(h)]
        BY <3>2 DEF handle_frame
      <3> HIDE DEF key
      <3>5. /\ lookup_arp_cache(key)' = ValueOf(h)
            /\ hash_ip(ip) # hash_ip(key)
                 => lookup_arp_cache(ip)' = lookup_arp_cache(ip)
        BY <3>3, <3>4, AddSound
      <3>6. hash_ip(ip) = hash_ip(key) /\ ip # key
        BY <3>3, <3>5
      <3>7. arp_cache[hash_ip(ip)].ip = ip
        BY DEF lookup_arp_cache
      <3>8. lookup_arp_cache(key) = NoMac
        BY <3>6, <3>7 DEF lookup_arp_cache
      <3>9. SameSlot(ip, key)
        BY <3>6 DEF SameSlot, hash_ip
      <3> QED
        BY <3>3, <3>5, <3>8, <3>9
    <2>2. CASE Exit
      BY <2>2 DEF Exit
    <2>3. CASE UNCHANGED arp_cache
      <3>1. lookup_arp_cache(ip)' = lookup_arp_cache(ip)
        BY <2>3 DEF lookup_arp_cache, hash_ip
      <3> QED
        BY <3>1
    <2> QED
      BY <2>1, <2>2, <2>3
         DEF Next, vars, ParseArg, ParseArg_abort, EnterLoop, handle_mac,
             handle_frame, handle_frame_abort, handle_control,
             handle_control_crash, handle_mac_abort, EndOfInput
  <1> QED
    BY <1>1, Inductive, PTL DEF Spec, CacheKept
=============================================================================
