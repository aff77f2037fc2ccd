------------------------------- MODULE VSwitch ------------------------------
(***************************************************************************)
(* vswitch.c: a switch with VLANs that learns addresses in a direct-mapped *)
(* table.  One action per callback of loop() (handle_frame, handle_mac,    *)
(* handle_control), one for each command-line argument main() parses, one  *)
(* for the clock that time() reads.                                        *)
(*                                                                         *)
(* Messages written while a frame is handled are a set: at most one goes   *)
(* to each interface, so their order (ascending) shows on no wire.         *)
(***************************************************************************)
EXTENDS Integers, Sequences

CONSTANTS
    Mac,             \* the addresses, functions from 1..6 to bytes
    Frame,           \* the frames that arrive: [dst, src, tags, size]
    CommandLine,     \* the command lines: sequences of arguments
    InterfaceMac,    \* the addresses the MAC list may give the interfaces
    MaxType,         \* the largest interface number a message may carry
    MAC_TABLE_SIZE,  \* 1024 in the code
    MAC_AGING_TIME,  \* 300 in the code
    MAX_VLANS,       \* 4094 in the code
    MaxTime          \* bound: where the modelled clock stops

Byte == 0..255
Word == 0..65535
Address == [1..6 -> Byte]

NO_VLAN == -1
DEFAULT_VLAN == 0
NotANumber == -1

Arg == [open : BOOLEAN, closed : BOOLEAN, letter : {"T", "U", "X", "none"},
        colon : BOOLEAN, tokens : Seq(Nat \cup {NotANumber})]

ASSUME VSwitchAssumption ==
    /\ CommandLine \subseteq Seq(Arg)
    /\ Mac \subseteq Address
    /\ Frame \subseteq [dst : Mac, src : Mac, tags : Seq(Word), size : Nat]
    /\ InterfaceMac \subseteq Address
    /\ MAC_TABLE_SIZE \in Nat \ {0}
    /\ MAC_AGING_TIME \in Nat
    /\ MAX_VLANS \in Nat /\ MAX_VLANS <= 4094
    /\ MaxTime \in Nat
    /\ MaxType \in Nat

VARIABLES
    phase,      \* "parsing", "waiting" for the MAC list, "running", "exited"
    argv,       \* the arguments
    gifc,       \* the interfaces parsed so far
    mac_table,  \* the learning table
    now,        \* time(NULL)
    rx,         \* the frame handled last and its interface (0: none)
    out,        \* the messages written while it was handled
    heard       \* history: where and when each (MAC, VLAN) was last learnt

vars == <<phase, argv, gifc, mac_table, now, rx, out, heard>>

Vlan == 0..MAX_VLANS
Slot == 0..(MAC_TABLE_SIZE - 1)
Time == 0..MaxTime
HeaderSize == 4
Zeroes == [b \in 1..6 |-> 0]

Empty == [mac |-> Zeroes, ifc_num |-> 0, vlan_id |-> 0, last_seen |-> 0,
          valid |-> FALSE]
Never == [port |-> 0, time |-> 0]
NoFrame == [ifc |-> 0, frame |-> <<>>]
-----------------------------------------------------------------------------
(***************************************************************************)
(* Start-up: parse_vlan_args.  An argument is the outcome of splitting it: *)
(* open and closed say whether '[' and ']' occur, letter and colon what    *)
(* follows '[', tokens the pieces between the commas, numbers or not.      *)
(***************************************************************************)
IsVlan_unbounded(tok) == tok # NotANumber
IsVlan(tok) == tok # NotANumber /\ tok <= MAX_VLANS

parse_tagged(a) ==
    /\ a.letter = "T"
    /\ Len(a.tokens) <= MAX_VLANS
    /\ \A k \in DOMAIN a.tokens : IsVlan(a.tokens[k])

parse_untagged(a) ==
    /\ a.letter = "U"
    /\ a.tokens # <<>>
    /\ IsVlan(a.tokens[1])

parse_vlan_args(a) ==
    \/ ~a.open
    \/ a.closed /\ a.colon /\ (parse_tagged(a) \/ parse_untagged(a))

InterfaceOf(a, n) ==
    [ifc_num |-> n,
     mac |-> Zeroes,
     untagged_vlan |-> IF ~a.open THEN DEFAULT_VLAN
                       ELSE IF a.letter = "U" THEN a.tokens[1] ELSE NO_VLAN,
     tagged_vlans |-> IF a.open /\ a.letter = "T"
                      THEN {a.tokens[k] : k \in DOMAIN a.tokens} ELSE {}]

\* One round of main's loop over the arguments, or its end.
ParseArg ==
    /\ phase = "parsing"
    /\ Len(gifc) < Len(argv)
    /\ LET n == Len(gifc) + 1 IN
         \/ /\ parse_vlan_args(argv[n])
            /\ gifc' = Append(gifc, InterfaceOf(argv[n], n))
            /\ UNCHANGED phase
         \/ /\ ~parse_vlan_args(argv[n])
            /\ phase' = "exited"
            /\ UNCHANGED gifc
    /\ UNCHANGED <<argv, mac_table, now, rx, out, heard>>

EnterLoop ==
    /\ phase = "parsing"
    /\ Len(gifc) = Len(argv)
    /\ phase' = "waiting"
    /\ UNCHANGED <<argv, gifc, mac_table, now, rx, out, heard>>

\* The end of the process, and of its memory.
Exit ==
    /\ phase' = "exited"
    /\ mac_table' = [s \in Slot |-> Empty]
    /\ heard' = [k \in Mac \X Vlan |-> Never]
    /\ rx' = NoFrame
    /\ out' = {}
    /\ UNCHANGED <<argv, gifc, now>>
-----------------------------------------------------------------------------
(***************************************************************************)
(* The learning table.                                                     *)
(***************************************************************************)
num_ifc == Len(gifc)

\* The unsigned wrap at 2^32 is invisible: the table size divides it.
mac_hash(m) ==
    ((((((m[1] * 31 + m[2]) * 31 + m[3]) * 31 + m[4]) * 31 + m[5]) * 31) + m[6])
        % MAC_TABLE_SIZE

is_multicast_or_broadcast(m) == m[1] % 2 = 1

Group == {m \in Mac : is_multicast_or_broadcast(m)}

learn_mac_refresh(m, i, v) ==
    IF is_multicast_or_broadcast(m)
    THEN mac_table
    ELSE LET e == mac_table[mac_hash(m)] IN
         [mac_table EXCEPT ![mac_hash(m)] =
            IF e.valid /\ e.mac = m /\ e.vlan_id = v
            THEN [e EXCEPT !.last_seen = now]
            ELSE [mac |-> m, ifc_num |-> i, vlan_id |-> v, last_seen |-> now,
                  valid |-> TRUE]]

learn_mac(m, i, v) ==
    IF is_multicast_or_broadcast(m)
    THEN mac_table
    ELSE [mac_table EXCEPT ![mac_hash(m)] =
            [mac |-> m, ifc_num |-> i, vlan_id |-> v, last_seen |-> now,
             valid |-> TRUE]]

\* The history that goes with it.
Hear(m, i, v) ==
    IF is_multicast_or_broadcast(m)
    THEN heard
    ELSE [heard EXCEPT ![<<m, v>>] = [port |-> i, time |-> now]]

Matches_any_vlan(tab, m, v) ==
    tab[mac_hash(m)].valid /\ tab[mac_hash(m)].mac = m

Matches(tab, m, v) ==
    LET e == tab[mac_hash(m)] IN e.valid /\ e.mac = m /\ e.vlan_id = v

\* Has the entry that matches aged, when the lookup runs at time t?
Aged_early(tab, m, t) == t - tab[mac_hash(m)].last_seen >= MAC_AGING_TIME
Aged_never(tab, m, t) == FALSE
Aged(tab, m, t) == t - tab[mac_hash(m)].last_seen > MAC_AGING_TIME

Hit(tab, m, v, t) == Matches(tab, m, v) /\ ~Aged(tab, m, t)

\* The table a lookup leaves behind: the entry it finds too old is cleared.
lookup_mac(tab, m, v, t) ==
    IF Matches(tab, m, v) /\ Aged(tab, m, t)
    THEN [tab EXCEPT ![mac_hash(m)].valid = FALSE]
    ELSE tab
-----------------------------------------------------------------------------
(***************************************************************************)
(* Forwarding.                                                             *)
(***************************************************************************)
Untagged(p, v) == gifc[p].untagged_vlan = v
interface_in_vlan(p, v) == Untagged(p, v) \/ v \in gifc[p].tagged_vlans

\* The header's size field is 16 bits wide.
send_frame(p, f) ==
    [type |-> p, size |-> (HeaderSize + f.size) % 65536, frame |-> f]

WithTags(f, tags, size) ==
    [dst |-> f.dst, src |-> f.src, tags |-> tags, size |-> size]

Retag_insert_only(f, v, untag) ==
    IF f.tags = <<>> /\ ~untag THEN WithTags(f, <<v>>, f.size + 4) ELSE f

Retag(f, v, untag) ==
    IF f.tags # <<>> /\ untag THEN WithTags(f, Tail(f.tags), f.size - 4)
    ELSE IF f.tags = <<>> /\ ~untag THEN WithTags(f, <<v>>, f.size + 4)
    ELSE f

forward_frame(i, p, f, v) ==
    IF interface_in_vlan(p, v) /\ i # p
    THEN {send_frame(p, Retag(f, v, Untagged(p, v)))}
    ELSE {}

flood_frame(i, f, v) == UNION {forward_frame(i, p, f, v) : p \in 1..num_ifc}

\* The VLANs parse_frame can put a frame in: one, or none when it drops it.
VlansOf(i, f) ==
    {v \in Vlan :
        \/ f.tags = <<>> /\ f.size >= 14 /\ Untagged(i, v)
        \/ /\ f.tags # <<>> /\ f.size >= 18
           /\ v = f.tags[1] % 4096
           /\ v \in gifc[i].tagged_vlans /\ ~Untagged(i, v)}

\* parse_frame for a frame taken in VLAN v; the clock may move to t between
\* learn_mac's call of time() and lookup_mac's.
Switch(i, f, v, t) ==
    LET learnt == learn_mac(f.src, i, v)
    IN /\ heard' = Hear(f.src, i, v)
       /\ IF is_multicast_or_broadcast(f.dst)
          THEN /\ mac_table' = learnt
               /\ out' = flood_frame(i, f, v)
          ELSE /\ mac_table' = lookup_mac(learnt, f.dst, v, t)
               /\ out' = IF Hit(learnt, f.dst, v, t)
                         THEN forward_frame(i, learnt[mac_hash(f.dst)].ifc_num,
                                            f, v)
                         ELSE flood_frame(i, f, v)

Drop == out' = {} /\ UNCHANGED <<mac_table, heard>>

handle_frame(i, f, t) ==
    /\ phase = "running"
    /\ i <= num_ifc
    /\ t \in {now, now + 1} \cap Time
    /\ now' = t
    /\ rx' = [ifc |-> i, frame |-> f]
    /\ \/ \E v \in VlansOf(i, f) : Switch(i, f, v, t)
       \/ VlansOf(i, f) = {} /\ Drop
    /\ UNCHANGED <<phase, argv, gifc>>

\* An interface number the command line did not announce: abort().
handle_frame_abort(i) ==
    /\ phase = "running"
    /\ i > num_ifc
    /\ Exit

\* The first control message is the MAC list: handle_mac for every entry.
handle_mac(list) ==
    /\ phase = "waiting"
    /\ phase' = "running"
    /\ gifc' = [p \in 1..num_ifc |-> [gifc[p] EXCEPT !.mac = list[p]]]
    /\ UNCHANGED <<argv, mac_table, now, rx, out, heard>>

\* A list longer than the command line, of a driver with more interfaces:
\* abort().
handle_mac_abort ==
    /\ phase = "waiting"
    /\ Exit

\* Later control messages are operator's commands, read and ignored.
handle_control ==
    /\ phase = "running"
    /\ rx' = NoFrame
    /\ out' = {}
    /\ UNCHANGED <<phase, argv, gifc, mac_table, now, heard>>

\* The end of standard input ends loop(), and with it the program: what it
\* learnt is lost.
EndOfInput ==
    /\ phase \in {"waiting", "running"}
    /\ Exit

Tick ==
    /\ phase = "running"
    /\ now + 1 \in Time
    /\ now' = now + 1
    /\ rx' = NoFrame
    /\ out' = {}
    /\ UNCHANGED <<phase, argv, gifc, mac_table, heard>>
-----------------------------------------------------------------------------
Init ==
    /\ phase = "parsing"
    /\ argv \in CommandLine
    /\ gifc = <<>>
    /\ mac_table = [s \in Slot |-> Empty]
    /\ now = 0
    /\ rx = NoFrame
    /\ out = {}
    /\ heard = [k \in Mac \X Vlan |-> Never]

Next ==
    \/ ParseArg
    \/ EnterLoop
    \/ \E list \in [1..num_ifc -> InterfaceMac] : handle_mac(list)
    \/ handle_mac_abort
    \/ \E i \in 1..MaxType, f \in Frame, t \in Time : handle_frame(i, f, t)
    \/ \E i \in 1..MaxType : handle_frame_abort(i)
    \/ handle_control
    \/ EndOfInput
    \/ Tick

Spec == Init /\ [][Next]_vars
-----------------------------------------------------------------------------
(***************************************************************************)
(* Properties.                                                             *)
(***************************************************************************)
Interface ==
    [ifc_num : Nat, mac : Address, untagged_vlan : Vlan \cup {NO_VLAN},
     tagged_vlans : SUBSET Vlan]

Entry ==
    [mac : Mac \cup {Zeroes}, ifc_num : Nat, vlan_id : Vlan, last_seen : Time,
     valid : BOOLEAN]

\* The type invariant: every VLAN number main lets through, and every one
\* parse_frame derives from a frame, is one the switch can store.
TypeOK ==
    /\ phase \in {"parsing", "waiting", "running", "exited"}
    /\ argv \in CommandLine
    /\ gifc \in Seq(Interface)
    /\ mac_table \in [Slot -> Entry]
    /\ now \in Time
    /\ rx.ifc \in 0..Len(gifc)
    /\ rx.ifc # 0 => rx.frame \in Frame
    /\ \A m \in out : m.type \in 1..Len(gifc) /\ m.size \in Word
    /\ heard \in [Mac \X Vlan -> [port : 0..Len(gifc), time : Time]]

\* An entry learn_mac made: where the hash of its address says, for a
\* station's address, on a port that is in the entry's VLAN, and never out of
\* date: it is the last place the station was heard in that VLAN.
SoundEntry(e, s, hist) ==
    /\ e.mac \in Mac \ Group
    /\ mac_hash(e.mac) = s
    /\ e.ifc_num \in 1..num_ifc
    /\ interface_in_vlan(e.ifc_num, e.vlan_id)
    /\ hist[<<e.mac, e.vlan_id>>] = [port |-> e.ifc_num, time |-> e.last_seen]

\* The table never holds an outdated binding: overwriting, collisions, ageing
\* and stations that move leave each valid entry equal to the history
\* (learn_mac, lookup_mac; the hash ignores the VLAN, the entry does not).
TableSound ==
    \A s \in Slot : mac_table[s].valid => SoundEntry(mac_table[s], s, heard)

\* Before and after traffic the table is empty, and whoever was heard was
\* heard on a port of the VLAN: what TableSound and StationReached rest on.
HeardOnMember ==
    \A m \in Mac, v \in Vlan :
        heard[<<m, v>>].port # 0 => /\ m \notin Group
                                /\ interface_in_vlan(heard[<<m, v>>].port, v)

IInv ==
    /\ TypeOK
    /\ TableSound
    /\ HeardOnMember
    /\ phase # "running" =>
         /\ rx = NoFrame
         /\ out = {}
         /\ heard = [k \in Mac \X Vlan |-> Never]
         /\ \A s \in Slot : ~mac_table[s].valid

\* No black hole: a station heard last on another port of the VLAN is sent
\* the frame, whether its entry is still there, was overwritten or has aged
\* (parse_frame's choice of forward_frame or flood_frame).
StationReached ==
    rx.ifc # 0 =>
        \A v \in VlansOf(rx.ifc, rx.frame) :
            LET h == heard[<<rx.frame.dst, v>>] IN
                h.port \notin {0, rx.ifc} => \E m \in out : m.type = h.port

\* What a port sends, a switch with the same port configuration at the other
\* end of the wire accepts in the same VLAN: stripping and inserting the tag
\* are inverse and keep the frame long enough (forward_frame, parse_frame).
\* Frames with a second, inner tag are the exception.
VlanPreserved ==
    rx.ifc # 0 /\ Len(rx.frame.tags) <= 1 =>
        \A m \in out : VlansOf(m.type, m.frame) = VlansOf(rx.ifc, rx.frame)

\* A learnt entry is only ever lost to a frame that was accepted and whose
\* source shares its slot, or to a lookup that finds it older than the limit.
EntryLost(s) ==
    \/ /\ rx'.ifc # 0
       /\ VlansOf(rx'.ifc, rx'.frame) # {}
       /\ mac_hash(rx'.frame.src) = s
       /\ mac_table'[s].mac = rx'.frame.src
    \/ /\ now' - mac_table[s].last_seen > MAC_AGING_TIME
       /\ mac_table'[s] = [mac_table[s] EXCEPT !.valid = FALSE]

EntriesKept ==
    [][\A s \in Slot :
         mac_table[s].valid /\ mac_table'[s] # mac_table[s]
             => phase' = "exited" \/ EntryLost(s)]_vars

\* The comment above struct MacTableEntry: one address may be learnt in two
\* VLANs at once, "Deshalb speichern wir: (MAC + VLAN) -> Port".
EntryPerVlan ==
    \A m \in Mac, v \in Vlan :
        /\ heard[<<m, v>>].port # 0
        /\ now - heard[<<m, v>>].time <= MAC_AGING_TIME
        /\ \A n \in Mac \ {m} : mac_hash(n) # mac_hash(m)
        => Matches(mac_table, m, v)

\* The switch implements the abstract bridge: ports appear when the program
\* enters its loop, deliveries are the messages of the last frame.
Delivery(m) == [port |-> m.type, dst |-> m.frame.dst, src |-> m.frame.src,
                tags |-> m.frame.tags]

B == INSTANCE Bridge WITH
    AgingTime <- MAC_AGING_TIME,
    ports <- IF phase = "running"
             THEN [p \in 1..num_ifc |-> [access |-> gifc[p].untagged_vlan,
                                         trunk |-> gifc[p].tagged_vlans]]
             ELSE <<>>,
    up <- phase = "running",
    delivered <- {Delivery(m) : m \in out}

\* Every frame goes to all other members of its VLAN or, heard recently
\* enough, to the one port its destination was last heard on (parse_frame).
ImplementsBridge == B!Spec
=============================================================================
