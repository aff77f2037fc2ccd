----------------------------- MODULE MCVSwitch ------------------------------
(* A small instance of VSwitch: three ports, two addresses that share a    *)
(* slot of the table, one that has the other slot, a group address.        *)
EXTENDS VSwitch

StationA == <<2, 0, 0, 0, 0, 0>>
StationB == <<2, 0, 0, 0, 0, 2>>
StationC == <<2, 0, 0, 0, 0, 1>>
AllHosts == <<1, 0, 0, 0, 0, 0>>

FrameOf(dst, src, tags, size) ==
    [dst |-> dst, src |-> src, tags |-> tags, size |-> size]

Plain == [open |-> FALSE, closed |-> FALSE, letter |-> "none",
          colon |-> FALSE, tokens |-> <<>>]
Bracket(letter, tokens) ==
    [open |-> TRUE, closed |-> TRUE, letter |-> letter, colon |-> TRUE,
     tokens |-> tokens]

\* Two access ports and a trunk, and the arguments main refuses.
TrunkLine ==
    <<Bracket("U", <<1>>), Bracket("T", <<1, 2>>), Bracket("U", <<1>>)>>
AccessLine == <<Plain, Bracket("U", <<0>>), Bracket("T", <<>>)>>
BadArgument ==
    {Bracket("U", <<3>>), Bracket("U", <<>>), Bracket("T", <<1, NotANumber>>),
     Bracket("T", <<3>>), Bracket("T", <<1, 2, 1>>), Bracket("X", <<1>>),
     [Bracket("T", <<1>>) EXCEPT !.closed = FALSE],
     [Bracket("U", <<1>>) EXCEPT !.colon = FALSE]}
BadLines == {<<Plain, a>> : a \in BadArgument}

\* Two stations that share a slot: moves, collisions and ageing.
CoreMac == {StationA, StationB, AllHosts}
CoreInterfaceMac == {<<2, 0, 0, 0, 0, 9>>}
CoreFrame ==
    {FrameOf(d, StationA, tags, 60) :
        d \in {StationB, StationA}, tags \in {<<>>, <<1>>, <<8194>>}}
    \cup {FrameOf(StationA, StationB, tags, 60) : tags \in {<<>>, <<1>>}}
    \cup {FrameOf(AllHosts, StationB, <<>>, 60),
          FrameOf(StationA, AllHosts, <<1>>, 18),
          FrameOf(StationA, StationB, <<>>, 13),
          FrameOf(StationA, StationB, <<1>>, 17),
          FrameOf(StationB, StationA, <<1, 2>>, 60)}
CoreLines == {TrunkLine, AccessLine} \cup BadLines

\* Two stations that never share a slot.
ApartMac == {StationA, StationC, AllHosts}
ApartFrame ==
    {FrameOf(StationA, StationC, <<>>, 60), FrameOf(StationC, StationA, <<>>, 60),
     FrameOf(StationC, StationA, <<1>>, 60), FrameOf(StationC, StationA, <<2>>, 60)}
ApartLines == {TrunkLine}
=============================================================================
