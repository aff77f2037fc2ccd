---------------------------- MODULE RouterProofs ----------------------------
(***************************************************************************)
(* Proofs about Router for every width of an address, size of both tables, *)
(* command line, set of frames and set of commands.                        *)
(***************************************************************************)
EXTENDS Router, FiniteSetTheorems, WellFoundedInduction, TLAPS

(***************************************************************************)
(* Numbers.                                                                *)
(***************************************************************************)
\* First is the least element: slots are searched from 0 on.
LEMMA FirstIsLeast ==
    ASSUME NEW S, S \subseteq Nat, S # {}
    PROVE  First(S) \in S /\ \A t \in S : First(S) <= t
  <1>1. PICK s \in S : \A t \in S : ~(<<t, s>> \in OpToRel(<, Nat))
    BY NatLessThanWellFounded, WFMin
  <1>2. \A t \in S : ~(t < s)
    BY <1>1 DEF OpToRel
  <1>3. \A t \in S : s <= t
    BY <1>2
  <1> QED
    BY <1>3 DEF First

LEMMA ModRange ==
    ASSUME NEW x \in Int, NEW n \in Nat \ {0}
    PROVE  x % n \in 0..(n - 1)
  OBVIOUS

LEMMA ModSmall ==
    ASSUME NEW n \in Nat \ {0}, NEW x \in 0..(n - 1)
    PROVE  x % n = x
  OBVIOUS

LEMMA SixteenBits ==
    ASSUME NEW n \in Int
    PROVE  n % 65536 \in Word
  <1> DEFINE k == 65536
  <1>1. k \in Nat \ {0} /\ 0..(k - 1) = Word
    BY DEF Word
  <1> HIDE DEF k
  <1>2. n % k \in 0..(k - 1)
    BY <1>1, ModRange
  <1>3. n % k \in Word
    BY <1>1, <1>2
  <1> QED
    BY <1>3 DEF k

LEMMA WordBelow ==
    ASSUME NEW m \in Nat, NEW n \in Word, m <= n
    PROVE  m \in Word
  <1> DEFINE k == 65535
  <1>1. k \in Nat
    OBVIOUS
  <1>2. Word = 0..k
    BY DEF Word
  <1> HIDE DEF k
  <1> QED
    BY <1>1, <1>2

LEMMA NoWrap ==
    ASSUME NEW m \in Int, m >= 400, m <= 65535 - EthernetSize
    PROVE  (m + EthernetSize) % 65536 = m + EthernetSize
  <1> DEFINE k == 65536
             n == m + EthernetSize
  <1>1. n \in Int /\ 0 <= n /\ n <= k - 1 /\ k \in Nat \ {0}
    BY DEF EthernetSize
  <1> HIDE DEF k, n
  <1>2. n \in 0..(k - 1)
    BY <1>1
  <1>3. n % k = n
    BY <1>1, <1>2, ModSmall
  <1> QED
    BY <1>3 DEF k, n

LEMMA ElementOfSeq ==
    ASSUME NEW S, NEW s \in Seq(S), NEW k \in DOMAIN s
    PROVE  s[k] \in S
  OBVIOUS

LEMMA ZeroIsIp == 0 \in Ip
  <1>1. 2^Width \in Nat \ {0}
    BY RouterAssumption DEF RouterAssumption
  <1> QED
    BY <1>1 DEF Ip

\* What an accepted argument makes of an interface.
LEMMA InterfaceTyped ==
    ASSUME NEW a \in Arg, parse_cmd_arg(a)
    PROVE  InterfaceOf(a) \in Interface
  <1>1. a.ip \in Ip /\ a.mtu \in Int /\ a.len \in Nat /\ a.name \in STRING
    BY DEF Arg
  <1>2. a.len \in 0..Width
    BY <1>1, RouterAssumption DEF RouterAssumption, parse_cmd_arg, parse_network
  <1>3. a.mtu + EthernetSize \in Int
    BY <1>1 DEF EthernetSize
  <1>4. (a.mtu + EthernetSize) % 65536 \in Word
    BY <1>3, SixteenBits
  <1>5. 1500 + EthernetSize \in Word
    BY DEF Word, EthernetSize
  <1>6. InterfaceOf(a).mtu \in Word
    BY <1>4, <1>5 DEF InterfaceOf
  <1> QED
    BY <1>1, <1>2, <1>6 DEF InterfaceOf, Interface

\* The MTU an interface enforces, unless the addition wrapped.
LEMMA MtuOf ==
    ASSUME NEW a \in Arg, parse_cmd_arg(a),
           ~(a.mtu # NO_MTU /\ a.mtu > 65535 - EthernetSize)
    PROVE  /\ InterfaceOf(a).mtu = EthernetSize + (IF a.mtu = NO_MTU THEN 1500
                                                   ELSE a.mtu)
           /\ InterfaceOf(a).mtu \in Int
           /\ InterfaceOf(a).mtu >= 414
  <1>1. a.mtu \in Int
    BY DEF Arg
  <1>2. CASE a.mtu = NO_MTU
    BY <1>2 DEF InterfaceOf, EthernetSize
  <1>3. CASE a.mtu # NO_MTU
    <2>1. a.mtu >= 400 /\ a.mtu <= 65535 - EthernetSize
      BY <1>1, <1>3 DEF parse_cmd_arg, EthernetSize
    <2>2. InterfaceOf(a).mtu = a.mtu + EthernetSize
      BY <1>1, <1>3, <2>1, NoWrap DEF InterfaceOf
    <2> QED
      BY <1>1, <1>3, <2>1, <2>2 DEF EthernetSize
  <1> QED
    BY <1>2, <1>3
-----------------------------------------------------------------------------
(***************************************************************************)
(* The inductive invariant: what was set up at start, until main() leaves  *)
(* loop(); both tables are empty and nothing was announced before that; as *)
(* long as there is room, everybody who announced an address has a slot.   *)
(***************************************************************************)
SetUp ==
    /\ Len(gifc) <= Len(argv)
    /\ \A p \in 1..Len(gifc) : /\ parse_cmd_arg(argv[p])
                               /\ gifc[p].mtu = InterfaceOf(argv[p]).mtu
    /\ phase \in {"waiting", "running"} => Len(gifc) = Len(argv)
    /\ phase = "running" => \A p \in 1..Len(gifc) : gifc[p].mac \in Mac

Unused ==
    /\ out = {}
    /\ \A s \in RouteSlot : ~route_table[s].valid
    /\ \A s \in CacheSlot : ~arp_cache[s].valid
    /\ neighbour = Nobody

AllCached ==
    Cardinality(Announced) <= ARP_CACHE_SIZE
        => \A ip \in Announced : Cached(arp_cache, ip) # {}

IInv ==
    /\ TypeOK
    /\ SetUp
    /\ CacheSound
    /\ AllCached
    /\ NeighbourReached
    /\ FrameSurvived
    /\ phase # "running" => Unused
    /\ phase \in {"parsing", "waiting"} => rx.ifc = 0

LEMMA EmptyTyped ==
    /\ [s \in RouteSlot |-> NoRoute] \in [RouteSlot -> RouteEntry]
    /\ \A s \in RouteSlot : ~[t \in RouteSlot |-> NoRoute][s].valid
    /\ [s \in CacheSlot |-> NoEntry] \in [CacheSlot -> CacheEntry]
    /\ \A s \in CacheSlot : ~[t \in CacheSlot |-> NoEntry][s].valid
    /\ Nobody \in [Ip -> Mac \cup {NoMac}]
  <1>1. 0 \in Ip /\ 0 \in 0..Width /\ 0 \in Nat
    BY ZeroIsIp, RouterAssumption DEF RouterAssumption
  <1>2. NoRoute \in RouteEntry /\ NoRoute.valid = FALSE
    BY <1>1 DEF NoRoute, RouteEntry
  <1>3. NoEntry \in CacheEntry /\ NoEntry.valid = FALSE
    BY <1>1 DEF NoEntry, CacheEntry
  <1> QED
    BY <1>2, <1>3 DEF Nobody

\* An unused router makes no promise that could be broken.
LEMMA UnusedInv ==
    ASSUME TypeOK', SetUp', FrameSurvived', Unused',
           (phase # "running")',
           (phase # "exited" => rx.ifc = 0)'
    PROVE  IInv'
  <1>1. CacheSound'
    BY DEF CacheSound, Prefix, Single, Current, Unused
  <1>2. AllCached'
    BY DEF AllCached, Announced, Nobody, Unused
  <1>3. NeighbourReached'
    BY DEF NeighbourReached
  <1> QED
    BY <1>1, <1>2, <1>3 DEF IInv

LEMMA InitInv == Init => IInv
  <1> SUFFICES ASSUME Init PROVE IInv
    OBVIOUS
  <1>1. /\ gifc \in Seq(Interface) /\ Len(gifc) = 0
        /\ argv \in CommandLine /\ argv \in Seq(Arg) /\ Len(argv) \in Nat
        /\ rx.ifc = 0 /\ MaxType \in Nat
    BY RouterAssumption DEF RouterAssumption, Init, NoFrame
  <1>2. TypeOK
    BY <1>1, EmptyTyped DEF Init, TypeOK
  <1>3. SetUp
    BY <1>1 DEF Init, SetUp
  <1>4. Unused
    BY EmptyTyped DEF Init, Unused
  <1>5. CacheSound
    BY <1>4 DEF CacheSound, Prefix, Single, Current, Unused
  <1>6. AllCached
    BY <1>4 DEF AllCached, Announced, Nobody, Unused
  <1>7. NeighbourReached /\ FrameSurvived
    BY <1>1 DEF Init, NeighbourReached, FrameSurvived
  <1> QED
    BY <1>1, <1>2, <1>3, <1>4, <1>5, <1>6, <1>7 DEF IInv
-----------------------------------------------------------------------------
(***************************************************************************)
(* Start-up and the end.                                                   *)
(***************************************************************************)
\* Whatever ends the program: the set-up is kept, the memory is gone.
LEMMA ExitInv ==
    ASSUME IInv, Exit,
           (rx.ifc \in 0..MaxType)',
           (rx.ifc # 0 => rx.frame \in Frame)',
           FrameSurvived'
    PROVE  IInv'
  <1>1. phase' = "exited" /\ UNCHANGED <<argv, gifc>>
    BY DEF Exit
  <1>2. TypeOK'
    BY <1>1, EmptyTyped DEF IInv, TypeOK, Exit
  <1>3. SetUp'
    BY <1>1 DEF IInv, SetUp
  <1>4. Unused'
    BY EmptyTyped DEF Exit, Unused
  <1> QED
    BY <1>1, <1>2, <1>3, <1>4, UnusedInv

\* An end that no frame caused.
LEMMA SilentExitInv ==
    ASSUME IInv, Exit, rx'.ifc = 0
    PROVE  IInv'
  <1>1. MaxType \in Nat
    BY RouterAssumption DEF RouterAssumption
  <1>2. FrameSurvived'
    BY DEF FrameSurvived
  <1> QED
    BY <1>1, <1>2, ExitInv

LEMMA ParseArgInv ==
    ASSUME IInv, ParseArg
    PROVE  IInv'
  <1> DEFINE n == Len(gifc) + 1
  <1>1. /\ phase = "parsing" /\ phase' = phase
        /\ rx.ifc = 0 /\ Unused
        /\ UNCHANGED <<argv, route_table, arp_cache, rx, out, cmd, neighbour>>
    BY DEF IInv, ParseArg
  <1>2. /\ argv \in Seq(Arg) /\ gifc \in Seq(Interface)
        /\ Len(gifc) \in Nat /\ Len(argv) \in Nat
    BY RouterAssumption DEF RouterAssumption, IInv, TypeOK
  <1>3. n \in DOMAIN argv /\ n <= Len(argv)
    BY <1>2 DEF ParseArg
  <1>4. argv[n] \in Arg
    BY <1>2, <1>3, ElementOfSeq
  <1>5. gifc' = Append(gifc, InterfaceOf(argv[n])) /\ parse_cmd_arg(argv[n])
    BY DEF ParseArg
  <1>6. InterfaceOf(argv[n]) \in Interface
    BY <1>4, <1>5, InterfaceTyped
  <1>7. /\ gifc' \in Seq(Interface) /\ Len(gifc') = n
        /\ \A p \in 1..Len(gifc) : gifc'[p] = gifc[p]
        /\ gifc'[n] = InterfaceOf(argv[n])
    BY <1>2, <1>5, <1>6
  <1>8. TypeOK'
    BY <1>1, <1>7 DEF IInv, TypeOK, Unused
  <1>9. SetUp'
    <2>1. ASSUME NEW p \in 1..Len(gifc)
          PROVE  /\ parse_cmd_arg(argv[p])
                 /\ gifc'[p].mtu = InterfaceOf(argv[p]).mtu
      BY <1>7 DEF IInv, SetUp
    <2>2. \A p \in 1..n : p \in 1..Len(gifc) \/ p = n
      BY <1>2
    <2> QED
      BY <1>1, <1>3, <1>5, <1>7, <2>1, <2>2 DEF SetUp
  <1>10. Unused' /\ FrameSurvived'
    BY <1>1 DEF Unused, FrameSurvived
  <1> QED
    BY <1>1, <1>8, <1>9, <1>10, UnusedInv

LEMMA EnterLoopInv ==
    ASSUME IInv, EnterLoop
    PROVE  IInv'
  <1>1. rx.ifc = 0 /\ Unused /\ phase' = "waiting"
        /\ UNCHANGED <<argv, gifc, route_table, arp_cache, rx, out, cmd, neighbour>>
    BY DEF IInv, EnterLoop
  <1>2. TypeOK'
    BY <1>1 DEF IInv, TypeOK, Unused
  <1>3. SetUp'
    BY <1>1 DEF IInv, SetUp, EnterLoop
  <1>4. Unused' /\ FrameSurvived'
    BY <1>1 DEF Unused, FrameSurvived
  <1> QED
    BY <1>1, <1>2, <1>3, <1>4, UnusedInv

LEMMA HandleMacInv ==
    ASSUME IInv, NEW list \in [1..num_ifc -> Mac], handle_mac(list)
    PROVE  IInv'
  <1>1. /\ phase = "waiting" /\ phase' = "running" /\ rx.ifc = 0 /\ Unused
        /\ UNCHANGED <<argv, route_table, arp_cache, rx, out, cmd, neighbour>>
    BY DEF IInv, handle_mac
  <1>2. \A p \in 1..Len(gifc) : list[p] \in Mac
    BY DEF num_ifc
  <1>3. gifc \in Seq(Interface) /\ Len(gifc) \in Nat
    BY DEF IInv, TypeOK
  <1>4. ASSUME NEW p \in 1..Len(gifc)
        PROVE  /\ [gifc[p] EXCEPT !.mac = list[p]] \in Interface
               /\ [gifc[p] EXCEPT !.mac = list[p]].mac = list[p]
               /\ [gifc[p] EXCEPT !.mac = list[p]].mtu = gifc[p].mtu
    <2>1. gifc[p] \in Interface
      BY <1>3
    <2> QED
      BY <2>1, <1>2 DEF Interface
  <1>5. /\ gifc' \in Seq(Interface) /\ Len(gifc') = Len(gifc)
        /\ \A p \in 1..Len(gifc) : gifc'[p] = [gifc[p] EXCEPT !.mac = list[p]]
    BY <1>3, <1>4 DEF handle_mac, num_ifc
  <1>6. TypeOK'
    BY <1>1, <1>5 DEF IInv, TypeOK, Unused
  <1>7. SetUp'
    <2>1. Len(gifc') = Len(argv) /\ Len(gifc') <= Len(argv)
      BY <1>1, <1>5 DEF IInv, SetUp
    <2>2. ASSUME NEW p \in 1..Len(gifc)
          PROVE  /\ parse_cmd_arg(argv[p])
                 /\ gifc'[p].mtu = InterfaceOf(argv[p]).mtu
                 /\ gifc'[p].mac \in Mac
      BY <1>2, <1>4, <1>5 DEF IInv, SetUp
    <2> QED
      BY <1>1, <1>5, <2>1, <2>2 DEF SetUp
  <1>8. CacheSound' /\ AllCached'
    BY <1>1 DEF IInv, CacheSound, Prefix, Single, Current, AllCached, Announced, Cached
  <1>9. NeighbourReached' /\ FrameSurvived'
    BY <1>1 DEF NeighbourReached, FrameSurvived
  <1> QED
    BY <1>1, <1>6, <1>7, <1>8, <1>9 DEF IInv
-----------------------------------------------------------------------------
(***************************************************************************)
(* The cache.                                                              *)
(***************************************************************************)
\* The slot add_to_arp_cache writes: the address's own, the first free one
\* with no hole below it, or slot 0 of a full cache.
LEMMA SlotForSpec ==
    ASSUME TypeOK, NEW ip \in Ip
    PROVE  /\ SlotFor(ip) \in CacheSlot
           /\ \/ arp_cache[SlotFor(ip)].valid /\ arp_cache[SlotFor(ip)].ip = ip
              \/ /\ Cached(arp_cache, ip) = {}
                 /\ ~arp_cache[SlotFor(ip)].valid
                 /\ \A s \in CacheSlot : s < SlotFor(ip) => arp_cache[s].valid
              \/ /\ Cached(arp_cache, ip) = {}
                 /\ \A s \in CacheSlot : arp_cache[s].valid
                 /\ SlotFor(ip) = 0
  <1>1. CacheSlot \subseteq Nat /\ 0 \in CacheSlot
    BY RouterAssumption DEF RouterAssumption, CacheSlot
  <1>2. Cached(arp_cache, ip) \subseteq Nat /\ FreeEntries \subseteq Nat
    BY <1>1 DEF Cached, FreeEntries
  <1>3. CASE Cached(arp_cache, ip) # {}
    <2>1. SlotFor(ip) \in Cached(arp_cache, ip)
      BY <1>2, <1>3, FirstIsLeast DEF SlotFor
    <2> QED
      BY <2>1 DEF Cached
  <1>4. CASE Cached(arp_cache, ip) = {} /\ FreeEntries # {}
    <2>1. SlotFor(ip) = First(FreeEntries)
      BY <1>4 DEF SlotFor
    <2>2. /\ SlotFor(ip) \in FreeEntries
          /\ \A t \in FreeEntries : SlotFor(ip) <= t
      BY <1>2, <1>4, <2>1, FirstIsLeast
    <2>3. SlotFor(ip) \in CacheSlot /\ ~arp_cache[SlotFor(ip)].valid
      BY <2>2 DEF FreeEntries
    <2>4. ASSUME NEW s \in CacheSlot, s < SlotFor(ip)
          PROVE  arp_cache[s].valid
      <3>1. s \in Nat /\ SlotFor(ip) \in Nat
        BY <1>1, <2>3
      <3>2. s \notin FreeEntries
        BY <2>2, <2>4, <3>1
      <3> QED
        BY <3>2 DEF FreeEntries
    <2> QED
      BY <1>4, <2>3, <2>4
  <1>5. CASE Cached(arp_cache, ip) = {} /\ FreeEntries = {}
    BY <1>1, <1>5 DEF SlotFor, FreeEntries
  <1> QED
    BY <1>3, <1>4, <1>5

LEMMA SlotsAreFinite ==
    /\ IsFiniteSet(CacheSlot) /\ Cardinality(CacheSlot) = ARP_CACHE_SIZE
    /\ IsFiniteSet(Ip)
  <1>1. ARP_CACHE_SIZE - 1 \in Int /\ 0 \in Int /\ ~(0 > ARP_CACHE_SIZE - 1)
        /\ (ARP_CACHE_SIZE - 1) - 0 + 1 = ARP_CACHE_SIZE
    BY RouterAssumption DEF RouterAssumption
  <1>2. 2^Width - 1 \in Int
    BY RouterAssumption DEF RouterAssumption
  <1> QED
    BY <1>1, <1>2, FS_Interval DEF CacheSlot, Ip

\* A full cache has no slot for one address more.
LEMMA NoRoom ==
    ASSUME TypeOK, CacheSound, NEW ip \in Ip, NEW A \in SUBSET Ip,
           Announced \subseteq A, ip \in A,
           Cached(arp_cache, ip) = {},
           \A s \in CacheSlot : arp_cache[s].valid
    PROVE  ~(Cardinality(A) <= ARP_CACHE_SIZE)
  <1> DEFINE f == [s \in CacheSlot |-> arp_cache[s].ip]
             B == A \ {ip}
  <1>1. IsFiniteSet(A)
    BY SlotsAreFinite, FS_Subset
  <1>2. IsFiniteSet(B) /\ Cardinality(B) = Cardinality(A) - 1
        /\ Cardinality(A) \in Nat
    BY <1>1, FS_RemoveElement, FS_CardinalityType
  <1>3. ASSUME NEW s \in CacheSlot
        PROVE  arp_cache[s].ip \in B
    <2>1. arp_cache[s].ip \in Ip
      BY DEF TypeOK, CacheEntry
    <2>2. arp_cache[s].ip \in Announced
      BY <2>1 DEF CacheSound, Current, Announced
    <2>3. arp_cache[s].ip # ip
      BY DEF Cached
    <2> QED
      BY <2>2, <2>3
  <1>4. f \in [CacheSlot -> B]
    BY <1>3
  <1>5. \A s, t \in CacheSlot : s # t => f[s] # f[t]
    BY DEF CacheSound, Single
  <1>6. ~(Cardinality(B) < Cardinality(CacheSlot))
    <2> HIDE DEF f, B
    <2> QED
      BY <1>2, <1>4, <1>5, SlotsAreFinite, FS_PigeonHole
  <1>7. ARP_CACHE_SIZE \in Nat
    BY RouterAssumption DEF RouterAssumption
  <1> HIDE DEF B
  <1> QED
    BY <1>2, <1>6, <1>7, SlotsAreFinite

\* What an ARP reply leaves behind (add_to_arp_cache).
LEMMA AddSound ==
    ASSUME IInv, NEW ip \in Ip, NEW mac \in Mac,
           arp_cache' = add_to_arp_cache(ip, mac),
           neighbour' = [neighbour EXCEPT ![ip] = mac]
    PROVE  /\ arp_cache' \in [CacheSlot -> CacheEntry]
           /\ neighbour' \in [Ip -> Mac \cup {NoMac}]
           /\ CacheSound'
           /\ AllCached'
  <1> DEFINE k == SlotFor(ip)
             e == [ip |-> ip, mac |-> mac, valid |-> TRUE]
  <1>1. TypeOK /\ CacheSound /\ AllCached
    BY DEF IInv
  <1>2. /\ arp_cache \in [CacheSlot -> CacheEntry]
        /\ neighbour \in [Ip -> Mac \cup {NoMac}]
        /\ mac # NoMac
    BY <1>1, RouterAssumption DEF RouterAssumption, TypeOK
  <1>3. /\ k \in CacheSlot
        /\ \/ arp_cache[k].valid /\ arp_cache[k].ip = ip
           \/ /\ Cached(arp_cache, ip) = {}
              /\ ~arp_cache[k].valid
              /\ \A s \in CacheSlot : s < k => arp_cache[s].valid
           \/ /\ Cached(arp_cache, ip) = {}
              /\ \A s \in CacheSlot : arp_cache[s].valid
              /\ k = 0
    BY <1>1, SlotForSpec
  <1>4. e \in CacheEntry /\ e.ip = ip /\ e.mac = mac /\ e.valid = TRUE
    BY DEF CacheEntry
  <1>5. arp_cache' = [arp_cache EXCEPT ![k] = e]
    BY DEF add_to_arp_cache
  <1> HIDE DEF k, e
  <1>6. /\ arp_cache' \in [CacheSlot -> CacheEntry]
        /\ arp_cache'[k] = e
        /\ \A s \in CacheSlot : s # k => arp_cache'[s] = arp_cache[s]
    BY <1>2, <1>3, <1>4, <1>5
  <1>7. /\ neighbour' \in [Ip -> Mac \cup {NoMac}]
        /\ neighbour'[ip] = mac
        /\ \A a \in Ip : a # ip => neighbour'[a] = neighbour[a]
    BY <1>2
  <1>8. ASSUME NEW s \in CacheSlot, s # k, arp_cache[s].valid
        PROVE  arp_cache[s].ip # ip
    BY <1>1, <1>3, <1>8 DEF CacheSound, Single, Cached
  <1>9. CacheSlot \subseteq Nat
    BY DEF CacheSlot
  <1>10. Prefix'
    <2> SUFFICES ASSUME NEW s \in CacheSlot, NEW t \in CacheSlot,
                        arp_cache'[t].valid, s < t
                 PROVE  arp_cache'[s].valid
      BY DEF Prefix
    <2>1. CASE s = k
      BY <2>1, <1>4, <1>6
    <2>2. CASE s # k /\ t = k
      <3>1. arp_cache[s].valid
        BY <1>1, <1>3, <1>9, <2>2 DEF CacheSound, Prefix
      <3> QED
        BY <3>1, <2>2, <1>6
    <2>3. CASE s # k /\ t # k
      BY <1>1, <1>6, <2>3 DEF CacheSound, Prefix
    <2> QED
      BY <2>1, <2>2, <2>3
  <1>11. Single'
    <2> SUFFICES ASSUME NEW s \in CacheSlot, NEW t \in CacheSlot,
                        arp_cache'[s].valid, arp_cache'[t].valid,
                        arp_cache'[s].ip = arp_cache'[t].ip
                 PROVE  s = t
      BY DEF Single
    <2>1. CASE s = k
      BY <2>1, <1>4, <1>6, <1>8
    <2>2. CASE t = k
      BY <2>2, <1>4, <1>6, <1>8
    <2>3. CASE s # k /\ t # k
      BY <2>3, <1>1, <1>6 DEF CacheSound, Single
    <2> QED
      BY <2>1, <2>2, <2>3
  <1>12. Current'
    <2> SUFFICES ASSUME NEW s \in CacheSlot, arp_cache'[s].valid
                 PROVE  /\ arp_cache'[s].mac = neighbour'[arp_cache'[s].ip]
                        /\ arp_cache'[s].mac # NoMac
      BY DEF Current
    <2>1. CASE s = k
      BY <2>1, <1>2, <1>4, <1>6, <1>7
    <2>2. CASE s # k
      <3>1. arp_cache'[s] = arp_cache[s] /\ arp_cache[s].valid
        BY <2>2, <1>6
      <3>2. arp_cache[s].ip # ip
        BY <2>2, <3>1, <1>8
      <3>3. arp_cache[s].ip \in Ip
        BY <1>2 DEF CacheEntry
      <3> QED
        BY <3>1, <3>2, <3>3, <1>1, <1>7 DEF CacheSound, Current
    <2> QED
      BY <2>1, <2>2
  <1>13. AllCached'
    <2> DEFINE A == Announced'
    <2>1. A = Announced \cup {ip}
      BY <1>2, <1>7 DEF Announced
    <2>2. A \in SUBSET Ip
      BY DEF Announced
    <2> HIDE DEF A
    <2>3. SUFFICES ASSUME Cardinality(A) <= ARP_CACHE_SIZE, NEW a \in A
                   PROVE  \E s \in CacheSlot : arp_cache'[s].valid /\ arp_cache'[s].ip = a
      BY DEF A, AllCached, Cached
    <2>4. CASE a = ip
      BY <2>4, <1>3, <1>4, <1>6
    <2>5. CASE a # ip
      <3>1. a \in Announced
        BY <2>1, <2>5
      <3>2. IsFiniteSet(A)
        BY <2>2, SlotsAreFinite, FS_Subset
      <3>3. Cardinality(Announced) <= Cardinality(A)
        BY <2>1, <3>2, FS_Subset
      <3>4. IsFiniteSet(Announced)
        BY <2>1, <3>2, FS_Subset
      <3>5. Cardinality(Announced) \in Nat /\ Cardinality(A) \in Nat
            /\ ARP_CACHE_SIZE \in Nat
        BY <3>2, <3>4, FS_CardinalityType, RouterAssumption DEF RouterAssumption
      <3>6. Cardinality(Announced) <= ARP_CACHE_SIZE
        BY <2>3, <3>3, <3>5
      <3>7. PICK s \in CacheSlot : arp_cache[s].valid /\ arp_cache[s].ip = a
        BY <1>1, <3>1, <3>6 DEF AllCached, Cached
      <3>8. s # k
        <4>1. CASE arp_cache[k].valid /\ arp_cache[k].ip = ip
          BY <4>1, <3>7, <2>5
        <4>2. CASE ~arp_cache[k].valid
          BY <4>2, <3>7
        <4>3. CASE /\ Cached(arp_cache, ip) = {}
                   /\ \A t \in CacheSlot : arp_cache[t].valid
          BY <4>3, <1>1, <2>1, <2>2, <2>3, NoRoom
        <4> QED
          BY <1>3, <4>1, <4>2, <4>3
      <3> QED
        BY <3>7, <3>8, <1>6
    <2> QED
      BY <2>4, <2>5
  <1> QED
    BY <1>6, <1>7, <1>10, <1>11, <1>12, <1>13 DEF CacheSound
-----------------------------------------------------------------------------
(***************************************************************************)
(* Frames.                                                                 *)
(***************************************************************************)
\* A lookup answers what was announced last, or that it does not know.
LEMMA Lookup ==
    ASSUME TypeOK, CacheSound, NEW ip \in Ip
    PROVE  /\ lookup_arp_cache(ip) # NoMac =>
                 lookup_arp_cache(ip) = neighbour[ip] /\ neighbour[ip] \in Mac
           /\ Cached(arp_cache, ip) # {} => lookup_arp_cache(ip) # NoMac
  <1> DEFINE C == Cached(arp_cache, ip)
  <1>1. C \subseteq Nat
    BY DEF Cached, CacheSlot
  <1>2. CASE C = {}
    BY <1>2 DEF lookup_arp_cache
  <1>3. CASE C # {}
    <2>1. First(C) \in C
      BY <1>1, <1>3, FirstIsLeast
    <2>2. lookup_arp_cache(ip) = arp_cache[First(C)].mac
      BY <1>3 DEF lookup_arp_cache
    <2>3. First(C) \in CacheSlot /\ arp_cache[First(C)].valid
          /\ arp_cache[First(C)].ip = ip
      BY <2>1 DEF Cached
    <2>4. arp_cache[First(C)].mac = neighbour[ip] /\ neighbour[ip] # NoMac
      BY <2>3 DEF CacheSound, Current
    <2>5. neighbour[ip] \in Mac
      BY <2>4 DEF TypeOK
    <2> QED
      BY <2>2, <2>4, <2>5
  <1> QED
    BY <1>2, <1>3

\* The route of a packet, and what route() sends along it.
LEMMA RouteTaken ==
    ASSUME TypeOK, CacheSound, NEW f \in Frame, Matching(f.target) # {},
           NEW s, s = First(Matching(f.target))
    PROVE  /\ s \in RouteSlot /\ route_table[s].valid
           /\ Masked(f.target, route_table[s].len) = route_table[s].network
           /\ route_table[s].ifc \in 1..num_ifc
           /\ route_table[s].hop \in Ip
           /\ \/ /\ lookup_arp_cache(route_table[s].hop) = NoMac
                 /\ route(f) = {}
              \/ /\ lookup_arp_cache(route_table[s].hop) # NoMac
                 /\ neighbour[route_table[s].hop] \in Mac
                 /\ route(f) = forward_frame_payload_to(
                                   route_table[s].ifc,
                                   neighbour[route_table[s].hop], "ipv4",
                                   f.target, f.size - EthernetSize - IPv4Size)
  <1>1. Matching(f.target) \subseteq Nat
    BY DEF Matching, RouteSlot
  <1>2. s \in Matching(f.target)
    BY <1>1, FirstIsLeast
  <1>3. /\ s \in RouteSlot /\ route_table[s].valid
        /\ Masked(f.target, route_table[s].len) = route_table[s].network
    BY <1>2 DEF Matching
  <1>4. route_table[s].ifc \in 1..num_ifc /\ route_table[s] \in RouteEntry
    BY <1>3 DEF TypeOK
  <1>5. route_table[s].hop \in Ip
    BY <1>4 DEF RouteEntry
  <1>6. lookup_arp_cache(route_table[s].hop) # NoMac =>
           /\ lookup_arp_cache(route_table[s].hop) = neighbour[route_table[s].hop]
           /\ neighbour[route_table[s].hop] \in Mac
    BY <1>5, Lookup
  <1>7. route(f) = IF lookup_arp_cache(route_table[s].hop) = NoMac THEN {}
                   ELSE forward_frame_payload_to(
                            route_table[s].ifc,
                            lookup_arp_cache(route_table[s].hop), "ipv4",
                            f.target, f.size - EthernetSize - IPv4Size)
    BY DEF route
  <1> QED
    BY <1>3, <1>4, <1>5, <1>6, <1>7

\* Before its size is held against the MTU.
Composed == [type : 1..Len(gifc), dst : Mac, src : Mac, kind : {"ipv4", "arp"},
             ip : Ip, size : Nat]

LEMMA InterfaceIn ==
    ASSUME TypeOK, NEW p \in 1..num_ifc
    PROVE  gifc[p] \in Interface /\ gifc[p].mtu \in Word
  <1>1. gifc \in Seq(Interface) /\ p \in DOMAIN gifc
    BY DEF TypeOK, num_ifc
  <1>2. gifc[p] \in Interface
    BY <1>1, ElementOfSeq
  <1> QED
    BY <1>2 DEF Interface

\* What a frame makes the router send: an ARP answer of 42 octets, or the
\* packet without the length of its header.
LEMMA ParseFrameSends ==
    ASSUME IInv, phase = "running", NEW i \in 1..num_ifc, NEW f \in Frame,
           NEW m \in parse_frame(i, f)
    PROVE  /\ m \in Composed
           /\ m.size = 42 \/ m.size + 20 = f.size
  <1>1. TypeOK /\ CacheSound
    BY DEF IInv
  <1>2. /\ f.size \in Nat /\ f.sender_ha \in Mac /\ f.target \in Ip
    BY RouterAssumption DEF RouterAssumption, FrameType
  <1>3. \A p \in 1..num_ifc : gifc[p].mac \in Mac /\ gifc[p].ip \in Ip
    <2>1. ASSUME NEW p \in 1..num_ifc
          PROVE  gifc[p].mac \in Mac /\ gifc[p].ip \in Ip
      <3>1. gifc[p] \in Interface
        BY <1>1, InterfaceIn
      <3>2. gifc[p].mac \in Mac
        BY DEF IInv, SetUp, num_ifc
      <3> QED
        BY <3>1, <3>2 DEF Interface
    <2> QED
      BY <2>1
  <1>4. CASE IsPacket(f)
    <2>1. m \in route(f)
      BY <1>4 DEF parse_frame
    <2>2. Matching(f.target) # {}
      BY <2>1 DEF route
    <2> DEFINE r == route_table[First(Matching(f.target))]
    <2>3. /\ r.ifc \in 1..num_ifc /\ r.hop \in Ip
          /\ neighbour[r.hop] \in Mac
          /\ m \in forward_frame_payload_to(r.ifc, neighbour[r.hop], "ipv4",
                                   f.target, f.size - EthernetSize - IPv4Size)
      BY <1>1, <2>1, <2>2, RouteTaken
    <2> HIDE DEF r
    <2>4. m = [type |-> r.ifc, dst |-> neighbour[r.hop], src |-> gifc[r.ifc].mac,
               kind |-> "ipv4", ip |-> f.target,
               size |-> f.size - EthernetSize - IPv4Size + EthernetSize]
      BY <2>3 DEF forward_frame_payload_to
    <2>5. f.size >= 34
      BY <1>4 DEF IsPacket, EthernetSize, IPv4Size
    <2>6. m.size \in Nat /\ m.size + 20 = f.size
      BY <1>2, <2>4, <2>5 DEF EthernetSize, IPv4Size
    <2> QED
      BY <1>2, <1>3, <2>3, <2>4, <2>6 DEF Composed, num_ifc
  <1>5. CASE ~IsPacket(f)
    <2>1. m \in handle_arp(i, f)
      BY <1>5 DEF parse_frame
    <2>2. m = [type |-> i, dst |-> f.sender_ha, src |-> gifc[i].mac,
               kind |-> "arp", ip |-> gifc[i].ip,
               size |-> ArpSize + EthernetSize]
      BY <2>1 DEF handle_arp, forward_frame_payload_to
    <2>3. m.size = 42
      BY <2>2 DEF ArpSize, EthernetSize
    <2> QED
      BY <1>2, <1>3, <2>2, <2>3 DEF Composed, num_ifc
  <1> QED
    BY <1>4, <1>5

LEMMA HandleFrameInv ==
    ASSUME IInv, NEW i \in 1..MaxType, NEW f \in Frame, handle_frame(i, f)
    PROVE  IInv'
  <1>1. /\ phase = "running" /\ phase' = "running"
        /\ i \in 1..num_ifc
        /\ rx' = [ifc |-> i, frame |-> f]
        /\ out' = parse_frame(i, f)
        /\ cmd' = NoCommand
        /\ UNCHANGED <<argv, gifc, route_table>>
    <2>1. i <= num_ifc /\ i \in Nat /\ i >= 1
      BY RouterAssumption DEF RouterAssumption, handle_frame
    <2>2. num_ifc \in Nat
      BY DEF IInv, TypeOK, num_ifc
    <2> QED
      BY <2>1, <2>2 DEF handle_frame
  <1>2. TypeOK /\ CacheSound
    BY DEF IInv
  <1>3. /\ arp_cache' \in [CacheSlot -> CacheEntry]
        /\ neighbour' \in [Ip -> Mac \cup {NoMac}]
        /\ CacheSound'
        /\ AllCached'
    <2>1. CASE IsReply(f)
      <3>1. f.sender_pa \in Ip /\ f.sender_ha \in Mac
        BY RouterAssumption DEF RouterAssumption, FrameType
      <3>2. /\ arp_cache' = add_to_arp_cache(f.sender_pa, f.sender_ha)
            /\ neighbour' = [neighbour EXCEPT ![f.sender_pa] = f.sender_ha]
        BY <2>1 DEF handle_frame
      <3> QED
        BY <3>1, <3>2, AddSound
    <2>2. CASE ~IsReply(f)
      <3>1. UNCHANGED <<arp_cache, neighbour>>
        BY <2>2 DEF handle_frame
      <3> QED
        BY <3>1 DEF IInv, TypeOK, CacheSound, Prefix, Single, Current,
                    AllCached, Announced, Cached
    <2> QED
      BY <2>1, <2>2
  <1>4. out' \subseteq Sent
    <2> SUFFICES ASSUME NEW m \in parse_frame(i, f) PROVE m \in Sent
      BY <1>1
    <2>1. m \in Composed /\ Fits(m)
      BY <1>1, ParseFrameSends DEF handle_frame
    <2>2. m.type \in 1..num_ifc /\ m.size \in Nat
      BY <2>1 DEF Composed, num_ifc
    <2>3. gifc[m.type].mtu \in Word
      BY <1>2, <2>2, InterfaceIn
    <2>4. m.size <= gifc[m.type].mtu
      BY <2>1 DEF Fits
    <2>5. m.size \in Word
      BY <2>2, <2>3, <2>4, WordBelow
    <2> QED
      BY <2>1, <2>5 DEF Composed, Sent
  <1>5. TypeOK'
    <2>1. Sent' = Sent /\ num_ifc' = num_ifc
      BY <1>1 DEF Sent, num_ifc
    <2>2. i \in 0..MaxType /\ i # 0
      BY RouterAssumption DEF RouterAssumption
    <2> QED
      BY <1>1, <1>2, <1>3, <1>4, <2>1, <2>2 DEF TypeOK
  <1>6. SetUp'
    BY <1>1 DEF IInv, SetUp
  <1>7. NeighbourReached'
    <2> DEFINE M == Matching(f.target)
               r == route_table[First(M)]
    <2>1. Matching(rx.frame.target)' = M
      BY <1>1 DEF Matching
    <2>2. SUFFICES ASSUME IsPacket(f), M # {},
                          Cardinality(Announced') <= ARP_CACHE_SIZE,
                          r.hop \in Announced'
                   PROVE  \E m \in out' : m.type = r.ifc /\ m.dst = neighbour'[r.hop]
      BY <1>1, <2>1 DEF NeighbourReached
    <2>3. UNCHANGED <<arp_cache, neighbour>>
      BY <2>2 DEF handle_frame, IsReply, IsArp, IsPacket
    <2>4. Cached(arp_cache, r.hop) # {}
      BY <2>2, <2>3 DEF IInv, AllCached, Announced
    <2>5. r.ifc \in 1..num_ifc /\ r.hop \in Ip
      BY <1>2, <2>2, RouteTaken
    <2>6. lookup_arp_cache(r.hop) # NoMac
      BY <1>2, <2>4, <2>5, Lookup
    <2>7. route(f) = forward_frame_payload_to(r.ifc, neighbour[r.hop], "ipv4",
                                   f.target, f.size - EthernetSize - IPv4Size)
      BY <1>2, <2>2, <2>6, RouteTaken
    <2>8. out' = route(f)
      BY <1>1, <2>2 DEF parse_frame
    <2> QED
      BY <2>3, <2>7, <2>8 DEF forward_frame_payload_to
  <1>8. FrameSurvived'
    BY <1>1 DEF FrameSurvived
  <1> QED
    BY <1>1, <1>3, <1>5, <1>6, <1>7, <1>8 DEF IInv

\* A frame that ends the program went out on an interface there is, and was
\* longer than its MTU: longer, then, than what arrived could excuse.
LEMMA HandleFrameAbortInv ==
    ASSUME IInv, NEW i \in 1..MaxType, NEW f \in Frame, handle_frame_abort(i, f)
    PROVE  IInv'
  <1>1. /\ phase = "running" /\ Exit
        /\ rx' = [ifc |-> i, frame |-> f]
        /\ UNCHANGED argv
    BY DEF handle_frame_abort, Exit
  <1>2. i \in Nat /\ i # 0 /\ i \in 0..MaxType
    BY RouterAssumption DEF RouterAssumption
  <1>3. /\ argv \in Seq(Arg) /\ Len(argv) \in Nat
        /\ num_ifc = Len(argv) /\ num_ifc = Len(gifc) /\ TypeOK
    BY <1>1, RouterAssumption DEF RouterAssumption, IInv, TypeOK, SetUp, num_ifc
  <1>4. FrameSurvived'
    <2>1. SUFFICES ASSUME ~(i > Len(argv)),
                          \A p \in DOMAIN argv :
                              ~(argv[p].mtu # NO_MTU
                                  /\ argv[p].mtu > 65535 - EthernetSize)
                   PROVE  \E p \in DOMAIN argv :
                              f.size > EthernetSize
                                  + (IF argv[p].mtu = NO_MTU THEN 1500
                                     ELSE argv[p].mtu)
      BY <1>1 DEF FrameSurvived
    <2>2. i \in 1..num_ifc
      BY <1>2, <1>3, <2>1
    <2>3. PICK m \in parse_frame(i, f) : ~Fits(m)
      BY <2>2, <1>2, <1>3 DEF handle_frame_abort
    <2>4. m \in Composed /\ (m.size = 42 \/ m.size + 20 = f.size)
      BY <1>1, <2>2, ParseFrameSends
    <2> DEFINE p == m.type
    <2>5. /\ p \in 1..Len(gifc) /\ p \in DOMAIN argv
          /\ m.size \in Nat
      <3>1. p \in 1..Len(gifc) /\ m.size \in Nat
        BY <2>4 DEF Composed
      <3> HIDE DEF p
      <3>2. p \in 1..Len(argv)
        <4>1. Len(gifc) = Len(argv)
          BY <1>3
        <4> QED
          BY <3>1, <4>1
      <3>3. p \in DOMAIN argv
        <4>1. argv \in Seq(Arg)
          BY <1>3
        <4> QED
          BY <3>2, <4>1
      <3> QED
        BY <3>1, <3>3
    <2> HIDE DEF p
    <2>6. argv[p] \in Arg /\ parse_cmd_arg(argv[p])
          /\ gifc[p].mtu = InterfaceOf(argv[p]).mtu
      BY <1>3, <2>5, ElementOfSeq DEF IInv, SetUp
    <2> DEFINE limit == EthernetSize + (IF argv[p].mtu = NO_MTU THEN 1500
                                        ELSE argv[p].mtu)
    <2>7. gifc[p].mtu = limit /\ limit \in Int /\ limit >= 414
      BY <2>1, <2>5, <2>6, MtuOf
    <2>8. ~(m.size <= limit)
      BY <2>3, <2>7 DEF Fits, p
    <2>9. f.size \in Nat
      BY RouterAssumption DEF RouterAssumption, FrameType
    <2> HIDE DEF limit
    <2>10. f.size > limit
      BY <2>4, <2>5, <2>7, <2>8, <2>9
    <2> QED
      BY <2>5, <2>10 DEF limit
  <1> QED
    BY <1>1, <1>2, <1>4, ExitInv
-----------------------------------------------------------------------------
(***************************************************************************)
(* Commands, and the induction.                                            *)
(***************************************************************************)
\* A route that is added names an interface there is, in a slot there is.
LEMMA RouteAddTyped ==
    ASSUME TypeOK, NEW c \in Command, parse_route(c)
    PROVE  /\ process_cmd_route_add(c) \in [RouteSlot -> RouteEntry]
           /\ \A s \in RouteSlot :
                 process_cmd_route_add(c)[s].valid
                     => process_cmd_route_add(c)[s].ifc \in 1..num_ifc
  <1>1. /\ c.network \in Ip /\ c.hop \in Ip /\ c.len \in 0..Width
    BY RouterAssumption
       DEF RouterAssumption, CommandType, parse_route, parse_network
  <1>2. find_interface(c.dev) \in 1..num_ifc
    <2> DEFINE P == {p \in 1..num_ifc : gifc[p].name = c.dev}
    <2>1. P # {} /\ P \subseteq Nat
      BY DEF parse_route, Known
    <2> HIDE DEF P
    <2>2. First(P) \in P
      BY <2>1, FirstIsLeast
    <2> QED
      BY <2>2 DEF P, find_interface
  <1> DEFINE e == [network |-> c.network, len |-> c.len, hop |-> c.hop,
                   ifc |-> find_interface(c.dev), valid |-> TRUE]
  <1>3. e \in RouteEntry /\ e.ifc \in 1..num_ifc
    BY <1>1, <1>2 DEF RouteEntry
  <1>4. CASE FreeRoutes = {}
    BY <1>4 DEF process_cmd_route_add, TypeOK
  <1>5. CASE FreeRoutes # {}
    <2>1. process_cmd_route_add(c) = [route_table EXCEPT ![First(FreeRoutes)] = e]
      BY <1>5 DEF process_cmd_route_add
    <2> HIDE DEF e
    <2> QED
      BY <1>3, <2>1 DEF TypeOK
  <1> QED
    BY <1>4, <1>5

LEMMA RouteDelTyped ==
    ASSUME TypeOK, NEW c
    PROVE  /\ process_cmd_route_del(c) \in [RouteSlot -> RouteEntry]
           /\ \A s \in RouteSlot :
                 process_cmd_route_del(c)[s].valid
                     => process_cmd_route_del(c)[s].ifc \in 1..num_ifc
  <1>1. CASE SameNetwork(c) = {}
    BY <1>1 DEF process_cmd_route_del, TypeOK
  <1>2. CASE SameNetwork(c) # {}
    <2> DEFINE k == First(SameNetwork(c))
               e == [route_table[k] EXCEPT !.valid = FALSE]
    <2>1. SameNetwork(c) \subseteq Nat
      BY DEF SameNetwork, RouteSlot
    <2>2. k \in RouteSlot
      BY <1>2, <2>1, FirstIsLeast DEF SameNetwork
    <2>3. route_table[k] \in RouteEntry
      BY <2>2 DEF TypeOK
    <2>4. e \in RouteEntry /\ e.valid = FALSE
      BY <2>3 DEF RouteEntry
    <2>5. process_cmd_route_del(c) = [route_table EXCEPT ![k] = e]
      BY <1>2 DEF process_cmd_route_del
    <2> HIDE DEF k, e
    <2> QED
      BY <2>2, <2>4, <2>5 DEF TypeOK
  <1> QED
    BY <1>1, <1>2

LEMMA HandleControlInv ==
    ASSUME IInv, NEW c \in Command, handle_control(c)
    PROVE  IInv'
  <1>1. /\ phase = "running" /\ rx' = NoFrame /\ out' = {} /\ cmd' = c
        /\ UNCHANGED <<phase, argv, gifc, arp_cache, neighbour>>
        /\ TypeOK
    BY DEF handle_control, IInv
  <1>2. rx'.ifc = 0 /\ MaxType \in Nat
    BY <1>1, RouterAssumption DEF RouterAssumption, NoFrame
  <1>3. /\ route_table' \in [RouteSlot -> RouteEntry]
        /\ \A s \in RouteSlot : route_table'[s].valid
                                    => route_table'[s].ifc \in 1..num_ifc
    <2>1. CASE route_table' = route_table
      BY <1>1, <2>1 DEF TypeOK
    <2>2. CASE parse_route(c) /\ route_table' = process_cmd_route_add(c)
      BY <1>1, <2>2, RouteAddTyped
    <2>3. CASE route_table' = process_cmd_route_del(c)
      BY <1>1, <2>3, RouteDelTyped
    <2> QED
      BY <2>1, <2>2, <2>3 DEF handle_control, process_cmd_route
  <1>4. TypeOK'
    BY <1>1, <1>2, <1>3 DEF TypeOK, num_ifc
  <1>5. SetUp'
    BY <1>1 DEF IInv, SetUp
  <1>6. CacheSound' /\ AllCached'
    BY <1>1 DEF IInv, CacheSound, Prefix, Single, Current, AllCached, Announced, Cached
  <1>7. NeighbourReached' /\ FrameSurvived'
    BY <1>2 DEF NeighbourReached, FrameSurvived
  <1> QED
    BY <1>1, <1>4, <1>5, <1>6, <1>7 DEF IInv

LEMMA StutterInv ==
    ASSUME IInv, UNCHANGED vars
    PROVE  IInv'
  <1>1. UNCHANGED <<phase, argv, gifc, route_table, arp_cache, rx, out, cmd,
                    neighbour>>
    BY DEF vars
  <1>2. TypeOK' /\ SetUp' /\ (phase # "running" => Unused)'
        /\ (phase \in {"parsing", "waiting"} => rx.ifc = 0)'
    BY <1>1 DEF IInv, TypeOK, SetUp, Unused, Sent, num_ifc
  <1>3. CacheSound' /\ AllCached'
    BY <1>1 DEF IInv, CacheSound, Prefix, Single, Current, AllCached, Announced, Cached
  <1>4. NeighbourReached' /\ FrameSurvived'
    BY <1>1 DEF IInv, NeighbourReached, FrameSurvived, Matching, Announced
  <1> QED
    BY <1>2, <1>3, <1>4 DEF IInv

LEMMA NextInv == IInv /\ [Next]_vars => IInv'
  <1> SUFFICES ASSUME IInv, [Next]_vars PROVE IInv'
    OBVIOUS
  <1>1. CASE ParseArg
    BY <1>1, ParseArgInv
  <1>2. CASE ParseArg_abort
    <2>1. Exit /\ rx'.ifc = 0
      BY <1>2 DEF ParseArg_abort, IInv
    <2> QED
      BY <2>1, SilentExitInv
  <1>3. CASE EnterLoop
    BY <1>3, EnterLoopInv
  <1>4. CASE \E list \in [1..num_ifc -> Mac] : handle_mac(list)
    BY <1>4, HandleMacInv
  <1>5. CASE \E i \in 1..MaxType, f \in Frame : handle_frame(i, f)
    BY <1>5, HandleFrameInv
  <1>6. CASE \E i \in 1..MaxType, f \in Frame : handle_frame_abort(i, f)
    BY <1>6, HandleFrameAbortInv
  <1>7. CASE \E c \in Command : handle_control(c)
    BY <1>7, HandleControlInv
  <1>8. CASE \E c \in Command : handle_control_crash(c)
    <2>1. Exit /\ rx'.ifc = 0
      BY <1>8 DEF handle_control_crash, NoFrame
    <2> QED
      BY <2>1, SilentExitInv
  <1>9. CASE handle_mac_abort \/ EndOfInput
    <2>1. Exit /\ rx'.ifc = 0
      BY <1>9 DEF handle_mac_abort, EndOfInput, NoFrame
    <2> QED
      BY <2>1, SilentExitInv
  <1>10. CASE UNCHANGED vars
    BY <1>10, StutterInv
  <1> QED
    BY <1>1, <1>2, <1>3, <1>4, <1>5, <1>6, <1>7, <1>8, <1>9, <1>10 DEF Next

LEMMA Inductive == Spec => []IInv
  BY InitInv, NextInv, PTL DEF Spec
-----------------------------------------------------------------------------
(***************************************************************************)
(* What holds of every run of the router.                                  *)
(***************************************************************************)
\* Netmasks have at most Width bits, every valid route names an interface
\* there is, no slot is written outside its table, and what is sent fits the
\* 16 bits of a message's size (parse_network, parse_route, add_to_arp_cache,
\* process_cmd_route_add, forward_to).
THEOREM TypeCorrect == Spec => []TypeOK
  <1>1. IInv => TypeOK
    BY DEF IInv
  <1> QED
    BY Inductive, <1>1, PTL

\* The cache holds one opinion about an address and the latest one, in slots
\* filled from 0 on (lookup_arp_cache, add_to_arp_cache).
THEOREM CacheIsSound == Spec => []CacheSound
  <1>1. IInv => CacheSound
    BY DEF IInv
  <1> QED
    BY Inductive, <1>1, PTL

\* With room in the cache, a packet with a route through somebody who
\* announced an address leaves for the address announced last (route).
THEOREM NeighbourIsReached == Spec => []NeighbourReached
  <1>1. IInv => NeighbourReached
    BY DEF IInv
  <1> QED
    BY Inductive, <1>1, PTL

\* Frames no longer than the MTUs, on interfaces there are, never end the
\* program, unless an MTU wraps (forward_to, parse_cmd_arg).
THEOREM FramesAreSurvived == Spec => []FrameSurvived
  <1>1. IInv => FrameSurvived
    BY DEF IInv
  <1> QED
    BY Inductive, <1>1, PTL

\* What may be forgotten in a step.
Forgotten(ip) ==
    Cached(arp_cache, ip) # {} /\ Cached(arp_cache', ip) = {}
        => \/ phase' = "exited"
           \/ /\ \A s \in CacheSlot : arp_cache[s].valid
              /\ \A s \in CacheSlot :
                   arp_cache'[s] # arp_cache[s] => arp_cache[s].ip = ip

LEMMA ForgottenOnAdd ==
    ASSUME TypeOK, NEW a \in Ip, NEW mac,
           arp_cache' = add_to_arp_cache(a, mac), NEW ip \in Ip
    PROVE  Forgotten(ip)
  <1> DEFINE k == SlotFor(a)
             e == [ip |-> a, mac |-> mac, valid |-> TRUE]
  <1>1. SUFFICES ASSUME NEW s \in CacheSlot, arp_cache[s].valid,
                        arp_cache[s].ip = ip,
                        Cached(arp_cache', ip) = {}
                 PROVE  /\ \A t \in CacheSlot : arp_cache[t].valid
                        /\ \A t \in CacheSlot :
                             arp_cache'[t] # arp_cache[t] => arp_cache[t].ip = ip
    BY DEF Forgotten, Cached
  <1>2. /\ k \in CacheSlot
        /\ \/ arp_cache[k].valid /\ arp_cache[k].ip = a
           \/ ~arp_cache[k].valid
           \/ \A t \in CacheSlot : arp_cache[t].valid
    BY SlotForSpec
  <1>3. arp_cache' = [arp_cache EXCEPT ![k] = e] /\ arp_cache \in [CacheSlot -> CacheEntry]
    BY DEF add_to_arp_cache, TypeOK
  <1>4. e.valid = TRUE /\ e.ip = a
    OBVIOUS
  <1> HIDE DEF k, e
  <1>5. /\ arp_cache'[k] = e
        /\ \A t \in CacheSlot : t # k => arp_cache'[t] = arp_cache[t]
    BY <1>2, <1>3
  <1>6. s = k
    BY <1>1, <1>5 DEF Cached
  <1>7. a # ip
    BY <1>1, <1>2, <1>4, <1>5 DEF Cached
  <1>8. \A t \in CacheSlot : arp_cache[t].valid
    BY <1>1, <1>2, <1>6, <1>7
  <1> QED
    BY <1>1, <1>5, <1>6, <1>8

\* An address is forgotten only at the end of the program, or when another
\* one is announced while every slot is taken, and then it is the only one
\* (add_to_arp_cache).
THEOREM CacheIsKept == Spec => CacheKept
  <1>1. IInv /\ [Next]_vars => [\A ip \in Ip : Forgotten(ip)]_vars
    <2> SUFFICES ASSUME IInv, Next, NEW ip \in Ip PROVE Forgotten(ip)
      OBVIOUS
    <2>1. CASE arp_cache' = arp_cache \/ phase' = "exited"
      BY <2>1 DEF Forgotten
    <2>2. CASE \E i \in 1..MaxType, f \in Frame : handle_frame(i, f)
      <3>1. PICK i \in 1..MaxType, f \in Frame : handle_frame(i, f)
        BY <2>2
      <3>2. CASE ~IsReply(f)
        BY <2>1, <3>1, <3>2 DEF handle_frame
      <3>3. CASE IsReply(f)
        <4>1. f.sender_pa \in Ip
          BY RouterAssumption DEF RouterAssumption, FrameType
        <4>2. arp_cache' = add_to_arp_cache(f.sender_pa, f.sender_ha)
          BY <3>1, <3>3 DEF handle_frame
        <4> QED
          BY <4>1, <4>2, ForgottenOnAdd DEF IInv
      <3> QED
        BY <3>2, <3>3
    <2> QED
      BY <2>1, <2>2 DEF Next, ParseArg, ParseArg_abort, EnterLoop, handle_mac,
                        handle_frame_abort, handle_control,
                        handle_control_crash, handle_mac_abort, EndOfInput, Exit
  <1> QED
    BY <1>1, Inductive, PTL DEF Spec, CacheKept, Forgotten
=============================================================================
