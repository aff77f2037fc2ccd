---------------------------- MODULE SystemProofs ----------------------------
(***************************************************************************)
(* Safety of System for every number of interfaces, capacity of the pipes  *)
(* and buffers, size of messages and behaviour of the child's handlers.    *)
(***************************************************************************)
EXTENDS System, StreamProofs

(***************************************************************************)
(* The inductive invariant.  What is on its way to the child carries       *)
(* messages of InMsg; Size here is what the driver may give a message.     *)
(***************************************************************************)
Starting == {"open", "bind", "start"}

SentSize == {FRAME, MACS} \cup (HDR + 1)..(HDR + CMD_ROOM)

InMsg == {m \in Msg : /\ m.type \in Source
                      /\ m.type \in Ifc => m.src = m.type
                      /\ m.size \in SentSize}

InUnit == [msg : InMsg, k : Nat]

Char == {"c", "nl"}

Scalars ==
    /\ pc \in Stage /\ at \in Ifc
    /\ ready.ifc \subseteq Ifc
    /\ current_read \in Source \cup {None}
    /\ current_write \in Ifc \cup {None}
    /\ waiting \in [Ifc -> {None, Foreign} \cup Ifc]
    /\ fd \in [Ifc -> {"none", "any", "bound"}]
    /\ child \in {"alive", "dead"}
    /\ next \in [Source -> Nat]

Texts == cmd \in Seq(Char) /\ typed \in Seq(Char) /\ Len(cmd) <= CMD_ROOM

Buffers ==
    /\ buf \in [Ifc -> InMsg \cup {NoMessage}]
    /\ \A i \in Ifc : buf[i] # NoMessage => buf[i].type = i /\ buf[i].size = FRAME

\* Both streams are whole messages, from the buffer they are read into to the
\* job that is being written.
InStream ==
    /\ inbuf \in Seq(InUnit) /\ Len(inbuf) <= BUF_SIZE
    /\ toChild \in Seq(InUnit) /\ Len(toChild) <= PIPE_CAP
    /\ unwritten \in Seq(InUnit)
    /\ Chained(Inbound) /\ Whole(Inbound)

OutStream ==
    /\ bufin \in Seq(Unit) /\ Len(bufin) <= MAX_SIZE
    /\ fromChild \in Seq(Unit) /\ Len(fromChild) <= PIPE_CAP
    /\ pending \in Seq(Unit)
    /\ Chained(Outbound) /\ Whole(Outbound)

\* The job is the end of one message, and its buffer still holds it.
Job ==
    /\ current_read = None <=> unwritten = <<>>
    /\ current_read \in Ifc =>
         /\ buf[current_read] # NoMessage
         /\ \A n \in 1..Len(unwritten) : unwritten[n].msg = buf[current_read]
    /\ current_read = 0 =>
         /\ HasLine
         /\ \A n \in 1..Len(unwritten) : unwritten[n].msg.size = HDR + FirstLine
    /\ Len(unwritten) <= FRAME \/ Len(unwritten) <= HDR + CMD_ROOM

Taken ==
    current_write # None =>
        Complete(bufin) /\ FirstOf(bufin).type = current_write

\* What select() reported is true for as long as the round relies on it.
Reported ==
    /\ pc \in {"stdin", "write", "writing"} /\ ready.child_stdin
         => current_read # None
    /\ pc \in {"stdin", "write", "writing", "send"} /\ ready.current_write
         => current_write # None

NothingSent ==
    pc \in Starting => inbuf = <<>> /\ toChild = <<>> /\ unwritten = <<>>

MacFirst ==
    /\ ~have_mac => last = <<>>
    /\ ~have_mac /\ Inbound # <<>> => FirstOf(Inbound).type = 0
    /\ ~have_mac /\ pc \notin Starting \cup {"gone"} => Inbound # <<>>

\* With jobs that fit what select() promises, the write of one never blocks.
SmallJobs == FRAME <= PIPE_BUF /\ HDR + CMD_ROOM <= PIPE_BUF

Room ==
    SmallJobs /\ pc \in {"stdin", "write", "writing"} /\ ready.child_stdin
              /\ child = "alive"
        => Len(toChild) + Len(unwritten) <= PIPE_CAP

IInv ==
    /\ Scalars /\ Texts /\ Buffers /\ InStream /\ OutStream
    /\ Job /\ Taken /\ Reported /\ NothingSent /\ MacFirst /\ Room
-----------------------------------------------------------------------------
LEMMA Constants ==
    /\ HDR \in Nat /\ HDR >= 1 /\ PIPE_CAP \in Nat /\ PIPE_CAP >= 1 /\ PIPE_BUF \in Nat
    /\ N \in Nat /\ N >= 1 /\ FRAME \in Size /\ MACS \in Size
    /\ FRAME \in Nat /\ MACS \in Nat
    /\ MAX_SIZE \in Nat /\ CMD_ROOM \in Nat /\ BUF_SIZE \in Nat /\ BUF_SIZE > HDR
    /\ 1 \in Ifc /\ 0 \in Source /\ 0 \notin Ifc /\ Ifc \subseteq Source
    /\ Source \subseteq Nat /\ None \notin Source
  BY PipesAssumption, DriverAssumption, LoopAssumption
     DEF PipesAssumption, DriverAssumption, LoopAssumption, Size, Ifc, Source, None

LEMMA NoMessageIsNone ==
    NoMessage \notin Msg /\ InMsg \subseteq Msg /\ InUnit \subseteq Unit
  BY DEF NoMessage, Message, Msg, None, InMsg, InUnit, Unit

LEMMA AfterTyped ==
    ASSUME NEW id \in Nat
    PROVE  After(id) \in Nat
  <1> DEFINE k == Cardinality(Id)
  <1>1. k \in Nat \ {0}
    BY DriverAssumption DEF DriverAssumption
  <1> HIDE DEF k
  <1>2. (id + 1) % k \in Nat
    BY <1>1
  <1> QED
    BY <1>2 DEF After, k

\* Streams as sequences of units.
LEMMA InboundSeq ==
    ASSUME inbuf \in Seq(InUnit), toChild \in Seq(InUnit), unwritten \in Seq(InUnit)
    PROVE  /\ Inbound = (inbuf \o toChild) \o unwritten
           /\ inbuf \o toChild \in Seq(InUnit)
           /\ Inbound \in Seq(InUnit) /\ Inbound \in Seq(Unit)
           /\ Inbound = inbuf \o (toChild \o unwritten)
           /\ toChild \o unwritten \in Seq(InUnit)
  <1>1. Inbound = (inbuf \o toChild) \o unwritten
    BY DEF Inbound
  <1>2. /\ inbuf \o toChild \in Seq(InUnit)
        /\ (inbuf \o toChild) \o unwritten \in Seq(InUnit)
        /\ toChild \o unwritten \in Seq(InUnit)
    BY ConcatProperties
  <1>3. (inbuf \o toChild) \o unwritten = inbuf \o (toChild \o unwritten)
    BY ConcatAssociative
  <1>4. Seq(InUnit) \subseteq Seq(Unit)
    BY NoMessageIsNone, SeqMonotonic
  <1> QED
    BY <1>1, <1>2, <1>3, <1>4

LEMMA OutboundSeq ==
    ASSUME bufin \in Seq(Unit), fromChild \in Seq(Unit), pending \in Seq(Unit)
    PROVE  /\ Outbound = (bufin \o fromChild) \o pending
           /\ bufin \o fromChild \in Seq(Unit)
           /\ Outbound \in Seq(Unit)
           /\ Outbound = bufin \o (fromChild \o pending)
           /\ fromChild \o pending \in Seq(Unit)
  <1>1. Outbound = (bufin \o fromChild) \o pending
    BY DEF Outbound
  <1>2. /\ bufin \o fromChild \in Seq(Unit)
        /\ (bufin \o fromChild) \o pending \in Seq(Unit)
        /\ fromChild \o pending \in Seq(Unit)
    BY ConcatProperties
  <1>3. (bufin \o fromChild) \o pending = bufin \o (fromChild \o pending)
    BY ConcatAssociative
  <1> QED
    BY <1>1, <1>2, <1>3

LEMMA InitInv == Init => IInv
  <1> SUFFICES ASSUME Init PROVE IInv
    OBVIOUS
  <1>1. /\ inbuf = <<>> /\ toChild = <<>> /\ unwritten = <<>>
        /\ bufin = <<>> /\ fromChild = <<>> /\ pending = <<>>
        /\ cmd = <<>> /\ typed = <<>> /\ buf = [i \in Ifc |-> NoMessage]
        /\ pc = "open" /\ at = 1 /\ ready = NotReady /\ child = "alive"
        /\ current_read = None /\ current_write = None
        /\ waiting = [i \in Ifc |-> None] /\ fd = [i \in Ifc |-> "none"]
        /\ next = [s \in Source |-> 0] /\ have_mac = FALSE /\ last = <<>>
    BY DEF Init, DriverInit, LoopInit
  <1>2. \A S : <<>> \in Seq(S) /\ Len(<<>>) = 0 /\ <<>> \o <<>> = <<>>
    BY EmptySeq, ConcatEmptySeq
  <1>3. Inbound = <<>> /\ Outbound = <<>>
    BY <1>1, <1>2 DEF Inbound, Outbound
  <1>4. \A n \in 1..(Len(<<>>) - 1) : FALSE
    BY <1>2
  <1>5. Chained(<<>>) /\ Whole(<<>>)
    BY <1>4 DEF Chained, Whole
  <1>6. Scalars
    BY <1>1, Constants DEF Scalars, Stage, NotReady
  <1>7. Texts /\ Buffers
    BY <1>1, <1>2, Constants DEF Texts, Buffers
  <1>8. InStream /\ OutStream
    BY <1>1, <1>2, <1>3, <1>5, Constants DEF InStream, OutStream
  <1>9. Job
    BY <1>1, <1>2, Constants DEF Job, None, Ifc
  <1>10. Taken /\ Reported /\ NothingSent /\ MacFirst /\ Room
    BY <1>1, <1>3 DEF Taken, Reported, NothingSent, MacFirst, Room, Starting
  <1> QED
    BY <1>6, <1>7, <1>8, <1>9, <1>10 DEF IInv
-----------------------------------------------------------------------------
(***************************************************************************)
(* What a step leaves alone.                                               *)
(***************************************************************************)
LEMMA InSame ==
    InStream /\ UNCHANGED <<inbuf, toChild, unwritten>>
        => InStream' /\ Inbound' = Inbound
  <1> SUFFICES ASSUME InStream, UNCHANGED <<inbuf, toChild, unwritten>>
               PROVE  InStream' /\ Inbound' = Inbound
    OBVIOUS
  <1>1. Inbound' = Inbound
    BY DEF Inbound
  <1> QED
    BY <1>1 DEF InStream

LEMMA OutSame ==
    OutStream /\ UNCHANGED <<bufin, fromChild, pending>>
        => OutStream' /\ Outbound' = Outbound
  <1> SUFFICES ASSUME OutStream, UNCHANGED <<bufin, fromChild, pending>>
               PROVE  OutStream' /\ Outbound' = Outbound
    OBVIOUS
  <1>1. Outbound' = Outbound
    BY DEF Outbound
  <1> QED
    BY <1>1 DEF OutStream

LEMMA JobSame ==
    Job /\ UNCHANGED <<current_read, unwritten, cmd, buf>> => Job'
  BY DEF Job, HasLine, FirstLine

LEMMA RestSame ==
    /\ Texts /\ UNCHANGED cmdVars => Texts'
    /\ Buffers /\ UNCHANGED buf => Buffers'
    /\ Taken /\ UNCHANGED writeVars => Taken'
  BY DEF Texts, cmdVars, Buffers, Taken, writeVars, Complete, FirstOf

\* The MAC list keeps its place for as long as the front of the stream stays.
LEMMA MacSame ==
    /\ MacFirst /\ UNCHANGED <<have_mac, last>> /\ Inbound' = Inbound
    /\ pc \in Starting \cup {"gone"} => pc' \in Starting \cup {"gone"}
    => MacFirst'
  <1> SUFFICES ASSUME MacFirst, UNCHANGED <<have_mac, last>>, Inbound' = Inbound,
                      pc \in Starting \cup {"gone"} => pc' \in Starting \cup {"gone"}
               PROVE  MacFirst'
    OBVIOUS
  <1> QED
    BY DEF MacFirst, FirstOf

\* The stages after the start, and those in which a report still counts.
LEMMA StageSame ==
    /\ NothingSent /\ UNCHANGED <<inbuf, toChild, unwritten>>
       /\ (pc' \in Starting => pc \in Starting)
       => NothingSent'
    /\ pc' \notin {"stdin", "write", "writing", "send"} => Reported' /\ Room'
    /\ UNCHANGED <<pc, ready, current_read, current_write>> /\ Reported => Reported'
    /\ UNCHANGED <<pc, ready, toChild, unwritten, child>> /\ Room => Room'
  BY DEF NothingSent, Starting, Reported, Room, SmallJobs
-----------------------------------------------------------------------------
(***************************************************************************)
(* Steps that move no unit.                                                *)
(***************************************************************************)
LEMMA QuietStep ==
    ASSUME IInv, Scalars', Texts', Reported', Room',
           UNCHANGED <<inbuf, toChild, unwritten, bufin, fromChild, pending,
                       have_mac, last, buf, cmd, current_read, current_write>>,
           pc \in Starting \cup {"gone"} => pc' \in Starting \cup {"gone"},
           pc' \in Starting => pc \in Starting
    PROVE  IInv'
  <1>1. InStream' /\ Inbound' = Inbound /\ OutStream'
    BY InSame, OutSame DEF IInv
  <1>2. Job'
    BY JobSame DEF IInv
  <1>3. Buffers' /\ Taken'
    BY RestSame DEF IInv, writeVars
  <1>4. NothingSent'
    BY StageSame DEF IInv
  <1>5. MacFirst'
    BY <1>1, MacSame DEF IInv
  <1> QED
    BY <1>1, <1>2, <1>3, <1>4, <1>5 DEF IInv

LEMMA OpenStep ==
    ASSUME IInv, UNCHANGED loopVars, OpenSocket PROVE IInv'
  <1>1. Scalars'
    BY DEF IInv, Scalars, OpenSocket, readVars, writeVars, Stage
  <1> QED
    BY <1>1, RestSame, StageSame, QuietStep
       DEF IInv, OpenSocket, loopVars, cmdVars, readVars, writeVars, Starting

LEMMA BindStep ==
    ASSUME IInv, UNCHANGED loopVars, BindSocket PROVE IInv'
  <1>1. pc' \in {"start", "open"}
    BY DEF BindSocket
  <1>2. at' \in Ifc
    BY Constants DEF BindSocket, IInv, Scalars, Ifc
  <1>3. Scalars'
    BY <1>1, <1>2 DEF IInv, Scalars, BindSocket, readVars, writeVars, Stage
  <1> QED
    BY <1>1, <1>3, RestSame, StageSame, QuietStep
       DEF IInv, BindSocket, loopVars, cmdVars, readVars, writeVars, Starting

LEMMA DropPrivilegesStep ==
    ASSUME IInv, UNCHANGED loopVars, DropPrivileges PROVE IInv'
  <1>1. Scalars'
    BY DEF IInv, Scalars, DropPrivileges, readVars, writeVars, tunVars, Stage
  <1> QED
    BY <1>1, RestSame, StageSame, QuietStep
       DEF IInv, DropPrivileges, loopVars, cmdVars, readVars, writeVars,
           tunVars, Starting

LEMMA SkipWriteStep ==
    ASSUME IInv, UNCHANGED loopVars, SkipWrite PROVE IInv'
  <1>1. Scalars'
    BY DEF IInv, Scalars, SkipWrite, readVars, writeVars, tunVars, Stage
  <1>2. Reported' /\ Room'
    BY DEF IInv, Reported, Room, SkipWrite, readVars, writeVars
  <1> QED
    BY <1>1, <1>2, RestSame, QuietStep
       DEF IInv, SkipWrite, loopVars, cmdVars, readVars, writeVars, tunVars,
           Starting

LEMMA TypeStep ==
    ASSUME IInv, UNCHANGED loopVars, Type PROVE IInv'
  <1>1. Scalars'
    BY DEF IInv, Scalars, Type, readVars, writeVars, tunVars
  <1>2. Texts'
    <2>1. PICK c \in Char : typed' = Append(typed, c)
      BY DEF Type, Char
    <2>2. typed \in Seq(Char)
      BY DEF IInv, Texts
    <2>3. typed' \in Seq(Char)
      BY <2>1, <2>2, AppendProperties
    <2>4. cmd' = cmd
      BY DEF Type
    <2> QED
      BY <2>3, <2>4 DEF IInv, Texts
  <1>3. Reported' /\ Room'
    BY StageSame DEF IInv, Type, readVars, writeVars
  <1> QED
    BY <1>1, <1>2, <1>3, QuietStep
       DEF Type, loopVars, readVars, writeVars, tunVars

LEMMA StopRunStep ==
    ASSUME IInv, UNCHANGED loopVars, StopRun PROVE IInv'
  <1>1. Scalars'
    BY DEF IInv, Scalars, StopRun, readVars, writeVars, tunVars, Stage
  <1>2. pc \notin Starting \cup {"gone"} /\ pc' = "stopped"
    BY DEF StopRun, Starting
  <1>3. pc' \notin Starting
    BY <1>2 DEF Starting
  <1> QED
    BY <1>1, <1>2, <1>3, RestSame, StageSame, QuietStep
       DEF IInv, StopRun, loopVars, cmdVars, readVars, writeVars, tunVars

LEMMA GiveUpStep ==
    ASSUME IInv, UNCHANGED loopVars, GiveUp PROVE IInv'
  <1>1. Scalars'
    BY DEF IInv, Scalars, GiveUp, readVars, writeVars, Stage
  <1> QED
    BY <1>1, RestSame, StageSame, QuietStep
       DEF IInv, GiveUp, loopVars, cmdVars, readVars, writeVars, Starting

LEMMA FrameArrivesStep ==
    ASSUME IInv, UNCHANGED loopVars, NEW i \in Ifc, FrameArrives(i) PROVE IInv'
  <1>1. waiting' \in [Ifc -> {None, Foreign} \cup Ifc]
    BY DEF IInv, Scalars, FrameArrives
  <1>2. Scalars'
    BY <1>1 DEF IInv, Scalars, FrameArrives, readVars, writeVars
  <1> QED
    BY <1>2, RestSame, StageSame, QuietStep
       DEF IInv, FrameArrives, loopVars, cmdVars, readVars, writeVars

\* The child ends, whoever ends it.
LEMMA DeathStep ==
    ASSUME IInv, child' = "dead",
           UNCHANGED <<toChild, fromChild, driverVars, loopVars>>
    PROVE  IInv'
  <1>1. Scalars'
    BY DEF IInv, Scalars, driverVars, readVars, writeVars, tunVars
  <1>2. Reported' /\ Room'
    BY DEF IInv, Reported, Room, driverVars, readVars, writeVars
  <1> QED
    BY <1>1, <1>2, RestSame, QuietStep
       DEF IInv, driverVars, loopVars, cmdVars, readVars, writeVars, tunVars
-----------------------------------------------------------------------------
(***************************************************************************)
(* The operator's text.                                                    *)
(***************************************************************************)
LEMMA FirstOfText ==
    ASSUME NEW c \in Seq(Char)
    PROVE  /\ (\E n \in DOMAIN c : c[n] = "nl") =>
                \E n \in 1..Len(c) :
                    c[n] = "nl" /\ \A k \in 1..(n - 1) : c[k] # "nl"
           /\ \A n \in 1..Len(c) :
                c[n] = "nl" /\ (\A k \in 1..(n - 1) : c[k] # "nl") =>
                  (CHOOSE x \in DOMAIN c :
                      c[x] = "nl" /\ \A k \in 1..(x - 1) : c[k] # "nl") = n
  <1>1. DOMAIN c = 1..Len(c) /\ Len(c) \in Nat
    BY LenProperties
  <1>2. ASSUME \E n \in DOMAIN c : c[n] = "nl"
        PROVE  \E n \in 1..Len(c) :
                   c[n] = "nl" /\ \A k \in 1..(n - 1) : c[k] # "nl"
    <2> DEFINE L == {n \in 1..Len(c) : c[n] = "nl"}
    <2>1. L # {} /\ L \subseteq Nat
      BY <1>1, <1>2
    <2>2. PICK n \in L : \A k \in L : n <= k
      <3> HIDE DEF L
      <3> QED
        BY <2>1, LeastNatural
    <2>3. ASSUME NEW k \in 1..(n - 1) PROVE c[k] # "nl"
      <3>1. k \in 1..Len(c) /\ ~(n <= k)
        BY <1>1
      <3> QED
        BY <2>2, <3>1
    <2> QED
      BY <2>2, <2>3
  <1>3. ASSUME NEW n \in 1..Len(c), c[n] = "nl",
               \A k \in 1..(n - 1) : c[k] # "nl"
        PROVE  (CHOOSE x \in DOMAIN c :
                   c[x] = "nl" /\ \A k \in 1..(x - 1) : c[k] # "nl") = n
    <2> DEFINE P(x) == c[x] = "nl" /\ \A k \in 1..(x - 1) : c[k] # "nl"
    <2>1. n \in DOMAIN c /\ P(n)
      BY <1>1, <1>3
    <2>2. ASSUME NEW x \in DOMAIN c, P(x) PROVE x = n
      <3>1. x \in Nat /\ n \in Nat /\ x >= 1 /\ n >= 1
        BY <1>1
      <3>2. ~(x \in 1..(n - 1)) /\ ~(n \in 1..(x - 1))
        BY <1>3, <2>2
      <3> QED
        BY <3>1, <3>2
    <2> HIDE DEF P
    <2>3. (CHOOSE x \in DOMAIN c : P(x)) = n
      BY <2>1, <2>2
    <2> QED
      BY <2>3 DEF P
  <1> QED
    BY <1>2, <1>3

LEMMA FirstLineIs ==
    ASSUME Texts, HasLine
    PROVE  /\ FirstLine \in 1..Len(cmd) /\ cmd[FirstLine] = "nl"
           /\ \A k \in 1..(FirstLine - 1) : cmd[k] # "nl"
           /\ FirstLine \in 1..CMD_ROOM
  <1>1. cmd \in Seq(Char) /\ Len(cmd) \in Nat /\ Len(cmd) <= CMD_ROOM
    BY LenProperties DEF Texts
  <1>2. PICK n \in 1..Len(cmd) :
            cmd[n] = "nl" /\ \A k \in 1..(n - 1) : cmd[k] # "nl"
    BY <1>1, FirstOfText DEF HasLine
  <1>3. FirstLine = n
    BY <1>1, <1>2, FirstOfText DEF FirstLine
  <1>4. n \in 1..CMD_ROOM
    BY <1>1, Constants
  <1> QED
    BY <1>2, <1>3, <1>4

\* More text does not change which line is the first.
LEMMA FirstLineKept ==
    ASSUME Texts, HasLine, NEW t \in Seq(Char), cmd' = cmd \o t
    PROVE  HasLine' /\ FirstLine' = FirstLine
  <1> DEFINE n == FirstLine
             d == cmd \o t
  <1>1. /\ n \in 1..Len(cmd) /\ cmd[n] = "nl"
        /\ \A k \in 1..(n - 1) : cmd[k] # "nl"
    BY FirstLineIs
  <1> HIDE DEF n
  <1>2. cmd \in Seq(Char) /\ Len(cmd) \in Nat /\ Len(t) \in Nat
    BY LenProperties DEF Texts
  <1>3. /\ d \in Seq(Char) /\ Len(d) = Len(cmd) + Len(t)
        /\ \A j \in 1..(Len(cmd) + Len(t)) :
              d[j] = IF j <= Len(cmd) THEN cmd[j] ELSE t[j - Len(cmd)]
    BY <1>2, ConcatProperties
  <1> HIDE DEF d
  <1>4. \A j \in 1..Len(cmd) : d[j] = cmd[j]
    <2>1. \A j \in 1..Len(cmd) : j \in 1..(Len(cmd) + Len(t)) /\ j <= Len(cmd)
      BY <1>2
    <2> QED
      BY <1>3, <2>1
  <1>5. n \in 1..Len(d) /\ DOMAIN d = 1..Len(d)
    BY <1>1, <1>2, <1>3, LenProperties
  <1>6. d[n] = "nl"
    BY <1>1, <1>4
  <1>7. \A k \in 1..(n - 1) : d[k] # "nl"
    <2>1. \A k \in 1..(n - 1) : k \in 1..Len(cmd)
      BY <1>1, <1>2
    <2> QED
      BY <1>1, <1>4, <2>1
  <1>8. (CHOOSE x \in DOMAIN d :
            d[x] = "nl" /\ \A k \in 1..(x - 1) : d[k] # "nl") = n
    BY <1>3, <1>5, <1>6, <1>7, FirstOfText
  <1>9. cmd' = d
    BY DEF d
  <1> QED
    BY <1>5, <1>6, <1>8, <1>9 DEF HasLine, FirstLine, n

LEMMA ReadStdinStep ==
    ASSUME IInv, UNCHANGED loopVars, ReadStdin PROVE IInv'
  <1> DEFINE n == IF ready.stdin THEN Least(Len(typed), CMD_ROOM - Len(cmd)) ELSE 0
             t == Front(typed, n)
  <1>1. /\ cmd \in Seq(Char) /\ typed \in Seq(Char)
        /\ Len(cmd) \in Nat /\ Len(typed) \in Nat /\ Len(cmd) <= CMD_ROOM
    BY LenProperties DEF IInv, Texts
  <1>2. n \in 0..Len(typed) /\ n <= CMD_ROOM - Len(cmd)
    <2>1. CMD_ROOM - Len(cmd) \in Nat
      BY <1>1, Constants
    <2>2. /\ Least(Len(typed), CMD_ROOM - Len(cmd)) \in Nat
          /\ Least(Len(typed), CMD_ROOM - Len(cmd)) <= Len(typed)
          /\ Least(Len(typed), CMD_ROOM - Len(cmd)) <= CMD_ROOM - Len(cmd)
      BY <1>1, <2>1, LeastBounds
    <2> QED
      BY <1>1, <2>1, <2>2
  <1>3. cmd' = cmd \o t /\ typed' = Rest(typed, n)
    BY DEF ReadStdin
  <1> HIDE DEF n
  <1>4. /\ t \in Seq(Char) /\ Len(t) = n
        /\ Rest(typed, n) \in Seq(Char)
    BY <1>1, <1>2, CutProperties
  <1> HIDE DEF t
  <1>5. Texts'
    <2>1. cmd \o t \in Seq(Char) /\ Len(cmd \o t) = Len(cmd) + Len(t)
      BY <1>1, <1>4, ConcatProperties
    <2>2. Len(cmd) + Len(t) <= CMD_ROOM
      BY <1>1, <1>2, <1>4, Constants
    <2> QED
      BY <1>3, <1>4, <2>1, <2>2 DEF Texts
  <1>6. HasLine => HasLine' /\ FirstLine' = FirstLine
    BY <1>3, <1>4, FirstLineKept DEF IInv
  <1>7. UNCHANGED <<current_read, unwritten, buf>>
    BY DEF ReadStdin, readVars, tunVars
  <1>8. Job'
    BY <1>6, <1>7 DEF IInv, Job
  <1>9. Scalars'
    BY DEF IInv, Scalars, ReadStdin, readVars, writeVars, tunVars, Stage
  <1>10. Reported' /\ Room'
    BY DEF IInv, Reported, Room, ReadStdin, readVars, writeVars
  <1>11. InStream' /\ Inbound' = Inbound /\ OutStream'
    BY InSame, OutSame DEF IInv, ReadStdin, readVars, writeVars, loopVars
  <1>12. Buffers' /\ Taken'
    BY RestSame DEF IInv, ReadStdin, tunVars
  <1>13. NothingSent' /\ MacFirst'
    BY <1>11, StageSame, MacSame
       DEF IInv, ReadStdin, Starting, loopVars, readVars
  <1> QED
    BY <1>5, <1>8, <1>9, <1>10, <1>11, <1>12, <1>13 DEF IInv

LEMMA SelectStep ==
    ASSUME IInv, UNCHANGED loopVars, Select PROVE IInv'
  <1>1. Scalars'
    <2>1. ready'.ifc \subseteq Ifc
      BY DEF Select, Report
    <2> QED
      BY <2>1 DEF IInv, Scalars, Select, readVars, writeVars, tunVars, Stage
  <1>2. ready'.child_stdin = JobWritable /\ ready'.current_write = FrameSendable
    BY DEF Select, Report
  <1>3. Reported'
    BY <1>2 DEF Reported, Select, JobWritable, FrameSendable, readVars, writeVars
  <1>4. Room'
    <2> SUFFICES ASSUME SmallJobs, JobWritable, child = "alive"
                 PROVE  Len(toChild) + Len(unwritten) <= PIPE_CAP
      BY <1>2 DEF Room, SmallJobs, Select, readVars
    <2>1. PIPE_CAP - Len(toChild) >= PIPE_BUF
      BY DEF JobWritable
    <2>2. Len(toChild) \in Nat /\ Len(unwritten) \in Nat
      BY LenProperties DEF IInv, InStream
    <2>3. Len(unwritten) <= FRAME \/ Len(unwritten) <= HDR + CMD_ROOM
      BY DEF IInv, Job
    <2>4. Len(unwritten) <= PIPE_BUF
      BY <2>2, <2>3, Constants DEF SmallJobs
    <2> QED
      BY <2>1, <2>2, <2>4, Constants
  <1>5. pc = "select" /\ pc' = "stdin"
    BY DEF Select
  <1> QED
    BY <1>1, <1>3, <1>4, <1>5, RestSame, QuietStep
       DEF IInv, Select, loopVars, cmdVars, readVars, writeVars, tunVars, Starting
-----------------------------------------------------------------------------
(***************************************************************************)
(* The stream to the child.                                                *)
(***************************************************************************)
\* A message the driver makes.
LEMMA DriverMessage ==
    ASSUME Scalars, NEW s \in Source, NEW size \in SentSize,
           NEW src \in Nat, s \in Ifc => src = s
    PROVE  /\ Message(s, src, next[s], size) \in InMsg
           /\ Message(s, src, next[s], size).type = s
           /\ Message(s, src, next[s], size).size = size
           /\ Message(s, src, next[s], size) # NoMessage
  <1> DEFINE m == Message(s, src, next[s], size)
  <1>1. next[s] \in Nat /\ s \in Nat
    BY Constants DEF Scalars
  <1>2. size \in Size
    BY Constants DEF SentSize, Size
  <1>3. m = [type |-> s, src |-> src, id |-> next[s], size |-> size]
    BY DEF Message
  <1>4. m \in Msg
    BY <1>1, <1>2, <1>3 DEF Msg
  <1>5. m.type = s /\ m.src = src /\ m.size = size
    BY <1>3
  <1> HIDE DEF m
  <1>6. m \in InMsg
    BY <1>4, <1>5 DEF InMsg
  <1>7. m # NoMessage
    BY <1>4, NoMessageIsNone
  <1> QED
    BY <1>5, <1>6, <1>7 DEF m

\* A new job stands at the end of the stream.
LEMMA QueueIn ==
    ASSUME InStream, unwritten = <<>>, NEW m \in InMsg, unwritten' = UnitsOf(m),
           UNCHANGED <<inbuf, toChild>>
    PROVE  /\ InStream' /\ Inbound' = Inbound \o UnitsOf(m)
           /\ Inbound # <<>> =>
                Inbound' # <<>> /\ FirstOf(Inbound') = FirstOf(Inbound)
           /\ Len(unwritten') = m.size /\ unwritten' # <<>>
           /\ \A n \in 1..Len(unwritten') : unwritten'[n].msg = m
  <1> DEFINE u == UnitsOf(m)
             s == inbuf \o toChild
  <1>1. /\ u \in Seq(InUnit) /\ u \in Seq(Unit)
        /\ Chained(u) /\ Whole(u) /\ Len(u) = m.size /\ u # <<>>
        /\ \A n \in 1..Len(u) : u[n].msg = m
    <2>1. InMsg \in SUBSET Msg /\ Seq(InUnit) \subseteq Seq(Unit)
      BY NoMessageIsNone, SeqMonotonic
    <2>2. u \in Seq([msg : InMsg, k : Nat])
      BY <2>1, UnitsOfChained
    <2>3. u \in Seq(InUnit)
      BY <2>2 DEF InUnit
    <2> QED
      BY <2>1, <2>3, UnitsOfChained
  <1> HIDE DEF u
  <1>2. /\ inbuf \in Seq(InUnit) /\ toChild \in Seq(InUnit)
        /\ unwritten \in Seq(InUnit)
    BY DEF InStream
  <1>3. s \in Seq(InUnit) /\ s \in Seq(Unit) /\ Inbound = s \o <<>>
    <2>1. s \in Seq(InUnit) /\ Inbound = s \o unwritten
      BY <1>2, InboundSeq
    <2> QED
      BY <2>1, NoMessageIsNone, SeqMonotonic
  <1>4. Inbound' = s \o u
    BY DEF Inbound, u
  <1> HIDE DEF s
  <1>5. Inbound = s
    BY <1>3, ConcatEmptySeq
  <1>6. Chained(s \o u) /\ Whole(s \o u)
    BY <1>1, <1>3, <1>5, ChainedConcat DEF InStream
  <1>7. s # <<>> => s \o u # <<>> /\ (s \o u)[1] = s[1]
    BY <1>1, <1>3, FirstOfConcat
  <1>8. InStream'
    BY <1>1, <1>4, <1>6 DEF InStream, u
  <1> QED
    BY <1>1, <1>4, <1>5, <1>7, <1>8 DEF FirstOf, u

LEMMA SendMacsStep ==
    ASSUME IInv, UNCHANGED loopVars, SendMacs PROVE IInv'
  <1>1. pc = "start" /\ inbuf = <<>> /\ toChild = <<>> /\ unwritten = <<>>
    BY DEF IInv, NothingSent, Starting, SendMacs
  <1>2. UNCHANGED <<inbuf, pending, have_mac, last, bufin, fromChild, unwritten,
                    buf, cmd, typed, current_read, current_write, at, ready,
                    waiting, child>>
    BY DEF SendMacs, loopVars, cmdVars, readVars, writeVars
  <1>3. CASE /\ toChild' = MacList /\ MACS <= PIPE_CAP
             /\ next' = [next EXCEPT ![0] = After(@)]
             /\ pc' = "privileges"
             /\ UNCHANGED fd
    <2> DEFINE m == Message(0, 0, next[0], MACS)
    <2>1. m \in InMsg /\ m.type = 0 /\ m.size = MACS
      <3>1. Scalars /\ 0 \in Source /\ MACS \in SentSize /\ 0 \in Nat
            /\ ~(0 \in Ifc)
        BY Constants DEF IInv, SentSize
      <3> QED
        BY <3>1, DriverMessage
    <2>2. MacList = UnitsOf(m)
      BY DEF MacList
    <2> HIDE DEF m
    <2>3. /\ MacList \in Seq(InUnit) /\ MacList \in Seq(Unit)
          /\ Chained(MacList) /\ Whole(MacList)
          /\ Len(MacList) = MACS /\ MacList # <<>> /\ MacList[1].msg = m
      <3>1. InMsg \in SUBSET Msg /\ Seq(InUnit) \subseteq Seq(Unit)
        BY NoMessageIsNone, SeqMonotonic
      <3>2. MacList \in Seq([msg : InMsg, k : Nat])
        BY <2>1, <2>2, <3>1, UnitsOfChained
      <3>3. MacList \in Seq(InUnit)
        BY <3>2 DEF InUnit
      <3>4. Len(MacList) = MACS /\ MACS >= 1 /\ MACS \in Nat
        <4>1. Len(MacList) = MACS
          BY <2>1, <2>2, <3>1, UnitsOfChained
        <4> QED
          BY <4>1, Constants DEF Size
      <3>5. 1 \in 1..Len(MacList)
        BY <3>4
      <3> QED
        BY <2>1, <2>2, <3>1, <3>3, <3>4, <3>5, UnitsOfChained
    <2>4. Inbound' = MacList
      <3>1. Inbound' = (<<>> \o MacList) \o <<>>
        BY <1>1, <1>2, <1>3 DEF Inbound
      <3>2. <<>> \o MacList = MacList /\ MacList \o <<>> = MacList
        BY <2>3, ConcatEmptySeq
      <3> QED
        BY <3>1, <3>2
    <2>5. InStream'
      BY <1>1, <1>2, <1>3, <2>3, <2>4 DEF InStream, IInv
    <2>6. OutStream' /\ Job' /\ Texts' /\ Buffers' /\ Taken'
      BY <1>2, OutSame, JobSame, RestSame DEF IInv, cmdVars, writeVars
    <2>7. Scalars'
      <3>1. next' \in [Source -> Nat]
        <4>1. next \in [Source -> Nat] /\ next[0] \in Nat
          BY Constants DEF IInv, Scalars
        <4>2. After(next[0]) \in Nat
          BY <4>1, AfterTyped
        <4> QED
          BY <1>3, <4>1, <4>2
      <3> QED
        BY <1>2, <1>3, <3>1 DEF IInv, Scalars, Stage
    <2>8. MacFirst'
      BY <1>2, <2>1, <2>3, <2>4 DEF IInv, MacFirst, FirstOf
    <2>9. Reported' /\ Room' /\ NothingSent'
      BY <1>3, StageSame DEF NothingSent, Starting
    <2> QED
      BY <2>5, <2>6, <2>7, <2>8, <2>9 DEF IInv
  <1>4. CASE /\ pc' = "gone"
             /\ fd' = [i \in Ifc |-> "none"]
             /\ UNCHANGED <<toChild, next>>
    <2>1. Scalars'
      BY <1>2, <1>4 DEF IInv, Scalars, Stage
    <2> QED
      BY <1>2, <1>4, <2>1, RestSame, StageSame, QuietStep
         DEF IInv, cmdVars, Starting
  <1> QED
    BY <1>3, <1>4 DEF SendMacs

\* A write to the pipe, of the job or of a piece of it, moves no unit past
\* another.
LEMMA WriteChildMoves ==
    ASSUME InStream, UNCHANGED inbuf, WriteChild
    PROVE  Inbound' = Inbound
  <1> DEFINE n == Least(Len(unwritten), PIPE_CAP - Len(toChild))
             f == Front(unwritten, n)
             r == Rest(unwritten, n)
             s == inbuf \o toChild
  <1>1. /\ inbuf \in Seq(InUnit) /\ toChild \in Seq(InUnit)
        /\ unwritten \in Seq(InUnit)
        /\ Len(toChild) \in Nat /\ Len(unwritten) \in Nat
        /\ Len(toChild) <= PIPE_CAP
    BY LenProperties DEF InStream
  <1>2. /\ n \in 0..Len(unwritten) /\ n <= PIPE_CAP - Len(toChild)
        /\ n > 0 /\ toChild' = toChild \o f /\ unwritten' = r
    <2>1. PIPE_CAP - Len(toChild) \in Nat
      BY <1>1, Constants
    <2>2. n \in Nat /\ n <= Len(unwritten) /\ n <= PIPE_CAP - Len(toChild)
      BY <1>1, <2>1, LeastBounds
    <2>3. n \in 0..Len(unwritten)
      BY <1>1, <2>2
    <2> QED
      BY <2>2, <2>3 DEF WriteChild
  <1> HIDE DEF n
  <1>3. f \in Seq(InUnit)
    BY <1>1, <1>2, CutProperties
  <1>4. Inbound' = Inbound
    <2>1. s \in Seq(InUnit) /\ Inbound = s \o unwritten
      BY <1>1, InboundSeq
    <2>2. (s \o f) \o r = s \o unwritten
      <3> HIDE DEF s
      <3> QED
        BY <1>1, <1>2, <2>1, MoveUnits
    <2>3. inbuf \o (toChild \o f) = s \o f
      <3>1. \A u, v, w \in Seq(InUnit) : u \o (v \o w) = (u \o v) \o w
        BY ConcatAssociative
      <3> HIDE DEF f
      <3> QED
        BY <1>1, <1>3, <3>1, Zenon
    <2>4. Inbound' = (inbuf \o (toChild \o f)) \o r
      <3> HIDE DEF f, r
      <3>1. Inbound' = (inbuf \o toChild') \o unwritten'
        BY DEF Inbound
      <3> QED
        BY <1>2, <3>1
    <2> QED
      BY <2>1, <2>2, <2>3, <2>4
  <1> QED
    BY <1>4

LEMMA WriteChildStep ==
    ASSUME IInv, UNCHANGED loopVars, WriteChild PROVE IInv'
  <1> DEFINE n == Least(Len(unwritten), PIPE_CAP - Len(toChild))
             f == Front(unwritten, n)
             r == Rest(unwritten, n)
  <1>1. /\ inbuf \in Seq(InUnit) /\ toChild \in Seq(InUnit)
        /\ unwritten \in Seq(InUnit)
        /\ Len(toChild) \in Nat /\ Len(unwritten) \in Nat
        /\ Len(toChild) <= PIPE_CAP
    BY LenProperties DEF IInv, InStream
  <1>2. /\ n \in 0..Len(unwritten) /\ n <= PIPE_CAP - Len(toChild)
        /\ n > 0 /\ toChild' = toChild \o f /\ unwritten' = r
    <2>1. PIPE_CAP - Len(toChild) \in Nat
      BY <1>1, Constants
    <2>2. n \in Nat /\ n <= Len(unwritten) /\ n <= PIPE_CAP - Len(toChild)
      BY <1>1, <2>1, LeastBounds
    <2>3. n \in 0..Len(unwritten)
      BY <1>1, <2>2
    <2> QED
      BY <2>2, <2>3 DEF WriteChild
  <1>3. \/ /\ n < Len(unwritten) /\ pc' = "writing"
           /\ UNCHANGED <<buf, cmd, current_read>>
        \/ n = Len(unwritten) /\ pc' = "send" /\ EndJob
    BY <1>1, <1>2 DEF WriteChild
  <1>4. UNCHANGED <<inbuf, pending, have_mac, last, bufin, fromChild,
                    current_write, at, ready, waiting, fd, next, child, typed>>
    BY DEF WriteChild, loopVars, writeVars
  <1>5. pc \in {"write", "writing"} /\ ready.child_stdin /\ child = "alive"
    BY DEF WriteChild
  <1> HIDE DEF n
  <1>6. /\ f \in Seq(InUnit) /\ Len(f) = n
        /\ r \in Seq(InUnit) /\ Len(r) = Len(unwritten) - n
        /\ \A j \in 1..(Len(unwritten) - n) : r[j] = unwritten[n + j]
    BY <1>1, <1>2, CutProperties
  <1>7. Inbound' = Inbound
    BY <1>4, WriteChildMoves DEF IInv
  <1> HIDE DEF f, r
  <1>8. Len(toChild') = Len(toChild) + n /\ toChild' \in Seq(InUnit)
    BY <1>1, <1>2, <1>6, ConcatProperties
  <1>9. InStream'
    <2>1. Len(toChild') <= PIPE_CAP
      BY <1>1, <1>2, <1>8, Constants
    <2> QED
      BY <1>2, <1>4, <1>6, <1>7, <1>8, <2>1 DEF IInv, InStream
  <1>10. OutStream' /\ Taken'
    BY <1>4, OutSame, RestSame DEF IInv, writeVars
  <1>11. NothingSent' /\ MacFirst'
    <2>1. pc' \in {"writing", "send"}
      BY <1>3, <1>5
    <2> QED
      BY <1>4, <1>5, <1>7, <2>1, MacSame DEF IInv, NothingSent, Starting
  <1>12. CASE /\ n < Len(unwritten) /\ pc' = "writing"
              /\ UNCHANGED <<buf, cmd, current_read>>
    <2>1. current_read # None
      <3>1. Len(unwritten) # 0
        BY <1>1, <1>2, <1>12
      <3> QED
        BY <1>1, <3>1, EmptySeq DEF IInv, Job
    <2>2. unwritten' # <<>>
      BY <1>1, <1>2, <1>6, <1>12, EmptySeq
    <2>3. \A j \in 1..Len(unwritten') :
              \E k \in 1..Len(unwritten) : unwritten'[j] = unwritten[k]
      <3>1. ASSUME NEW j \in 1..Len(unwritten')
            PROVE  \E k \in 1..Len(unwritten) : unwritten'[j] = unwritten[k]
        <4>1. n + j \in 1..Len(unwritten) /\ j \in 1..(Len(unwritten) - n)
          BY <1>1, <1>2, <1>6
        <4> QED
          BY <1>2, <1>6, <4>1
      <3> QED
        BY <3>1
    <2>4. Len(unwritten') <= FRAME \/ Len(unwritten') <= HDR + CMD_ROOM
      <3>1. Len(unwritten) <= FRAME \/ Len(unwritten) <= HDR + CMD_ROOM
        BY DEF IInv, Job
      <3> QED
        BY <1>1, <1>2, <1>6, <3>1, Constants
    <2>5. HasLine' = HasLine /\ FirstLine' = FirstLine
      BY <1>12 DEF HasLine, FirstLine
    <2>6. Job'
      BY <1>12, <2>1, <2>2, <2>3, <2>4, <2>5 DEF IInv, Job
    <2>7. Texts' /\ Buffers'
      BY <1>4, <1>12, RestSame DEF IInv, cmdVars
    <2>8. Scalars'
      BY <1>4, <1>12 DEF IInv, Scalars, Stage
    <2>9. Reported'
      BY <1>4, <1>5, <1>12 DEF IInv, Reported
    <2>10. Room'
      <3>1. Len(toChild') + Len(unwritten') = Len(toChild) + Len(unwritten)
        BY <1>1, <1>2, <1>6, <1>8
      <3> QED
        BY <1>4, <1>5, <1>12, <3>1 DEF IInv, Room, SmallJobs
    <2> QED
      BY <1>9, <1>10, <1>11, <2>6, <2>7, <2>8, <2>9, <2>10 DEF IInv
  <1>13. CASE n = Len(unwritten) /\ pc' = "send" /\ EndJob
    <2>1. unwritten' = <<>> /\ Len(unwritten') = 0
      BY <1>1, <1>2, <1>6, <1>13, EmptySeq
    <2>2. current_read' = None
      BY <1>13 DEF EndJob
    <2>3. Job'
      <3>1. None \notin Ifc /\ None # 0
        BY DEF None, Ifc
      <3>2. 0 <= FRAME
        BY Constants
      <3> QED
        BY <2>1, <2>2, <3>1, <3>2 DEF Job
    <2>4. current_read # None
      BY <1>1, <1>2, <1>13, EmptySeq DEF IInv, Job
    <2>5. ASSUME current_read = 0 PROVE Texts' /\ Buffers'
      <3>1. cmd' = Rest(cmd, FirstLine) /\ UNCHANGED buf
        BY <1>13, <2>5 DEF EndJob
      <3>2. FirstLine \in 0..Len(cmd)
        <4>1. HasLine
          BY <2>5 DEF IInv, Job
        <4>2. FirstLine \in 1..Len(cmd)
          BY <4>1, FirstLineIs DEF IInv
        <4> QED
          BY <4>2
      <3>3. cmd \in Seq(Char) /\ Len(cmd) \in Nat /\ Len(cmd) <= CMD_ROOM
        BY LenProperties DEF IInv, Texts
      <3>4. cmd' \in Seq(Char) /\ Len(cmd') = Len(cmd) - FirstLine
        BY <3>1, <3>2, <3>3, CutProperties
      <3>5. Len(cmd') <= CMD_ROOM
        BY <3>2, <3>3, <3>4, Constants
      <3> QED
        BY <1>4, <3>1, <3>4, <3>5, RestSame DEF IInv, Texts
    <2>6. ASSUME current_read # 0 PROVE Texts' /\ Buffers'
      <3>1. /\ UNCHANGED cmd
            /\ buf' = [buf EXCEPT ![current_read] = NoMessage]
        BY <1>13, <2>6 DEF EndJob
      <3>2. Texts'
        BY <1>4, <3>1, RestSame DEF IInv, cmdVars
      <3>3. Buffers'
        BY <3>1 DEF IInv, Buffers
      <3> QED
        BY <3>2, <3>3
    <2>7. Texts' /\ Buffers'
      BY <2>5, <2>6
    <2>8. Scalars'
      BY <1>4, <1>13, <2>2 DEF IInv, Scalars, Stage
    <2>9. Reported' /\ Room'
      BY <1>4, <1>5, <1>13 DEF IInv, Reported, Room
    <2> QED
      BY <1>9, <1>10, <1>11, <2>3, <2>7, <2>8, <2>9 DEF IInv
  <1> QED
    BY <1>3, <1>12, <1>13

\* The message an empty queue takes becomes the job.
LEMMA QueueCommandStep ==
    ASSUME IInv, UNCHANGED loopVars, QueueCommand PROVE IInv'
  <1>1. UNCHANGED <<inbuf, toChild, pending, have_mac, last, bufin, fromChild,
                    buf, cmd, typed, current_write, at, ready, waiting, fd, child>>
    BY DEF QueueCommand, loopVars, cmdVars, writeVars, tunVars
  <1>2. pc = "command" /\ pc' = "child"
    BY DEF QueueCommand
  <1>3. CASE ~CommandDue
    <2>1. UNCHANGED <<readVars, next>>
      BY <1>3 DEF QueueCommand
    <2>2. Scalars'
      BY <1>1, <1>2, <2>1 DEF IInv, Scalars, readVars, Stage
    <2> QED
      BY <1>1, <1>2, <2>1, <2>2, RestSame, StageSame, QuietStep
         DEF IInv, cmdVars, readVars, Starting
  <1>4. CASE CommandDue
    <2> DEFINE m == Message(0, 0, next[0], HDR + FirstLine)
    <2>1. /\ current_read = None /\ HasLine /\ unwritten = <<>>
          /\ FirstLine \in 1..CMD_ROOM
      BY <1>4, FirstLineIs DEF CommandDue, IInv, Job
    <2>2. /\ current_read' = 0 /\ unwritten' = UnitsOf(m)
          /\ next' = [next EXCEPT ![0] = After(@)]
      BY <1>4 DEF QueueCommand
    <2>3. m \in InMsg /\ m.size = HDR + FirstLine
      <3>1. HDR + FirstLine \in (HDR + 1)..(HDR + CMD_ROOM)
        BY <2>1, Constants
      <3>2. HDR + FirstLine \in SentSize
        BY <3>1 DEF SentSize
      <3>3. Scalars /\ 0 \in Source /\ 0 \in Nat /\ ~(0 \in Ifc)
        BY Constants DEF IInv
      <3> QED
        BY <3>2, <3>3, DriverMessage
    <2> HIDE DEF m
    <2>4. /\ InStream'
          /\ Inbound # <<>> =>
                Inbound' # <<>> /\ FirstOf(Inbound') = FirstOf(Inbound)
          /\ Len(unwritten') = m.size /\ unwritten' # <<>>
          /\ \A n \in 1..Len(unwritten') : unwritten'[n].msg = m
      BY <1>1, <2>1, <2>2, <2>3, QueueIn DEF IInv
    <2>5. HasLine' /\ FirstLine' = FirstLine
      BY <1>1, <2>1 DEF HasLine, FirstLine
    <2>6. Job'
      <3>1. HDR + FirstLine <= HDR + CMD_ROOM
        BY <2>1, Constants
      <3>2. 0 # None /\ 0 \notin Ifc
        BY DEF None, Ifc
      <3> QED
        BY <2>2, <2>3, <2>4, <2>5, <3>1, <3>2 DEF Job
    <2>7. Scalars'
      <3>1. next' \in [Source -> Nat]
        <4>1. next \in [Source -> Nat] /\ next[0] \in Nat
          BY Constants DEF IInv, Scalars
        <4>2. After(next[0]) \in Nat
          BY <4>1, AfterTyped
        <4> QED
          BY <2>2, <4>1, <4>2
      <3> QED
        BY <1>1, <1>2, <2>2, <3>1, Constants DEF IInv, Scalars, Stage
    <2>8. MacFirst'
      BY <1>1, <1>2, <2>4 DEF IInv, MacFirst, Starting
    <2>9. OutStream' /\ Texts' /\ Buffers' /\ Taken'
      BY <1>1, OutSame, RestSame DEF IInv, cmdVars, writeVars
    <2>10. Reported' /\ Room' /\ NothingSent'
      BY <1>2, StageSame DEF NothingSent, Starting
    <2> QED
      BY <2>4, <2>6, <2>7, <2>8, <2>9, <2>10 DEF IInv
  <1> QED
    BY <1>3, <1>4

\* One interface of the round: the three ways a round of the loop can go, and
\* what becomes of the job.
LEMMA QueueStep ==
    ASSUME IInv, UNCHANGED loopVars, ReadInterfaces, NEW b,
           b \in InMsg \cup {NoMessage}, buf' = [buf EXCEPT ![at] = b],
           b # NoMessage => b.type = at /\ b.size = FRAME,
           current_read = at => b = buf[at],
           Queue(at, b), next' \in [Source -> Nat],
           waiting' \in [Ifc -> {None, Foreign} \cup Ifc]
    PROVE  IInv'
  <1>1. UNCHANGED <<inbuf, toChild, pending, have_mac, last, bufin, fromChild,
                    cmd, typed, current_write, fd, child>>
    BY DEF ReadInterfaces, loopVars, cmdVars, writeVars
  <1>2. /\ pc = "interfaces" /\ at \in Ifc
        /\ pc' = "select" \/ pc' = "interfaces"
        /\ ready' = ready \/ ready' = NotReady
        /\ at' \in Ifc
    <2>1. at \in Ifc
      BY DEF IInv, Scalars
    <2>2. IF at = N THEN 1 \in Ifc ELSE at + 1 \in Ifc
      BY <2>1, Constants DEF Ifc
    <2> QED
      BY <2>1, <2>2 DEF ReadInterfaces
  <1>3. Buffers' /\ buf'[at] = b /\ \A i \in Ifc : i # at => buf'[i] = buf[i]
    BY <1>2 DEF IInv, Buffers
  <1>4. OutStream' /\ Texts' /\ Taken'
    BY <1>1, OutSame, RestSame DEF IInv, cmdVars, writeVars
  <1>5. Reported' /\ Room' /\ NothingSent'
    BY <1>2, StageSame DEF NothingSent, Starting
  <1>6. ready'.ifc \subseteq Ifc
    BY <1>2 DEF IInv, Scalars, NotReady
  <1>7. HasLine' = HasLine /\ FirstLine' = FirstLine
    BY <1>1 DEF HasLine, FirstLine
  <1>8. CASE current_read = None /\ b # NoMessage
    <2>1. current_read' = at /\ unwritten' = UnitsOf(b) /\ unwritten = <<>>
      BY <1>8 DEF Queue, IInv, Job
    <2>2. b \in InMsg /\ b.size = FRAME
      BY <1>8
    <2>3. /\ InStream'
          /\ Inbound # <<>> =>
                Inbound' # <<>> /\ FirstOf(Inbound') = FirstOf(Inbound)
          /\ Len(unwritten') = b.size /\ unwritten' # <<>>
          /\ \A n \in 1..Len(unwritten') : unwritten'[n].msg = b
      BY <1>1, <2>1, <2>2, QueueIn DEF IInv
    <2>4. Job'
      <3>1. at # None /\ at # 0
        BY <1>2 DEF None, Ifc
      <3>2. FRAME <= FRAME
        BY Constants
      <3> QED
        BY <1>2, <1>3, <1>8, <2>1, <2>2, <2>3, <3>1, <3>2 DEF Job
    <2>5. Scalars'
      BY <1>1, <1>2, <1>6, <2>1, Constants DEF IInv, Scalars, Stage
    <2>6. MacFirst'
      BY <1>1, <1>2, <2>3 DEF IInv, MacFirst, Starting
    <2> QED
      BY <1>3, <1>4, <1>5, <2>3, <2>4, <2>5, <2>6 DEF IInv
  <1>9. CASE ~(current_read = None /\ b # NoMessage)
    <2>1. UNCHANGED <<current_read, unwritten>>
      BY <1>9 DEF Queue, readVars
    <2>2. InStream' /\ Inbound' = Inbound
      BY <1>1, <2>1, InSame DEF IInv
    <2>3. current_read \in Ifc => buf'[current_read] = buf[current_read]
      BY <1>3
    <2>4. Job'
      BY <1>7, <2>1, <2>3 DEF IInv, Job
    <2>5. Scalars'
      BY <1>1, <1>2, <1>6, <2>1 DEF IInv, Scalars, Stage
    <2>6. MacFirst'
      BY <1>1, <1>2, <2>2, MacSame DEF IInv, Starting
    <2> QED
      BY <1>3, <1>4, <1>5, <2>2, <2>4, <2>5, <2>6 DEF IInv
  <1> QED
    BY <1>8, <1>9

LEMMA ReadInterfacesStep ==
    ASSUME IInv, UNCHANGED loopVars, ReadInterfaces PROVE IInv'
  <1> DEFINE m == Message(at, waiting[at], next[at], FRAME)
             read == at \in ready.ifc /\ buf[at] = NoMessage
  <1>1. /\ at \in Ifc /\ at \in Source /\ at \in Nat
        /\ buf \in [Ifc -> InMsg \cup {NoMessage}]
        /\ waiting \in [Ifc -> {None, Foreign} \cup Ifc]
        /\ next \in [Source -> Nat]
    BY Constants DEF IInv, Scalars, Buffers
  <1>2. current_read = at => buf[at] # NoMessage
    BY <1>1 DEF IInv, Job
  <1>3. CASE /\ read /\ OwnFrame(at)
             /\ waiting' = [waiting EXCEPT ![at] = None]
             /\ buf' = [buf EXCEPT ![at] = m]
             /\ next' = [next EXCEPT ![at] = After(@)]
             /\ Queue(at, m)
    <2>1. m \in InMsg /\ m.type = at /\ m.size = FRAME
      <3>1. Scalars /\ FRAME \in SentSize /\ waiting[at] = at
        BY <1>3 DEF IInv, SentSize, OwnFrame
      <3> QED
        BY <1>1, <3>1, DriverMessage
    <2>2. waiting' \in [Ifc -> {None, Foreign} \cup Ifc]
      BY <1>1, <1>3
    <2>3. next' \in [Source -> Nat]
      <3>1. After(next[at]) \in Nat
        BY <1>1, AfterTyped
      <3> QED
        BY <1>1, <1>3, <3>1
    <2>4. current_read # at
      BY <1>2, <1>3
    <2>5. buf' = [buf EXCEPT ![at] = m] /\ Queue(at, m)
      BY <1>3
    <2> HIDE DEF m, read
    <2> QED
      BY <2>1, <2>2, <2>3, <2>4, <2>5, QueueStep
  <1>4. CASE /\ read /\ ~OwnFrame(at)
             /\ waiting' = [waiting EXCEPT ![at] = None]
             /\ UNCHANGED <<buf, next, readVars>>
    <2>1. Scalars'
      <3>1. waiting' \in [Ifc -> {None, Foreign} \cup Ifc]
        BY <1>1, <1>4
      <3>2. IF at = N THEN 1 \in Ifc ELSE at + 1 \in Ifc
        BY <1>1, Constants DEF Ifc
      <3>3. at' \in Ifc
        BY <3>2 DEF ReadInterfaces
      <3>4. ready'.ifc \subseteq Ifc /\ pc' \in {"select", "interfaces"}
        BY DEF ReadInterfaces, NotReady, IInv, Scalars
      <3>5. UNCHANGED <<current_read, current_write, fd, child, next>>
        BY <1>4 DEF ReadInterfaces, readVars, writeVars
      <3> QED
        BY <3>1, <3>3, <3>4, <3>5 DEF IInv, Scalars, Stage
    <2>2. pc = "interfaces" /\ pc' \in {"select", "interfaces"}
      BY DEF ReadInterfaces
    <2> QED
      BY <1>4, <2>1, <2>2, RestSame, StageSame, QuietStep
         DEF IInv, ReadInterfaces, loopVars, cmdVars, readVars, writeVars, Starting
  <1>5. CASE /\ ~read
             /\ Queue(at, buf[at])
             /\ UNCHANGED <<buf, waiting, next>>
    <2> DEFINE b == buf[at]
    <2>1. b \in InMsg \cup {NoMessage}
      BY <1>1
    <2>2. buf' = [buf EXCEPT ![at] = b]
      BY <1>1, <1>5
    <2>3. b # NoMessage => b.type = at /\ b.size = FRAME
      BY <1>1 DEF IInv, Buffers
    <2>4. Queue(at, b) /\ b = buf[at]
      BY <1>5
    <2>5. next' \in [Source -> Nat] /\ waiting' \in [Ifc -> {None, Foreign} \cup Ifc]
      BY <1>1, <1>5
    <2> HIDE DEF b, read
    <2> QED
      BY <2>1, <2>2, <2>3, <2>4, <2>5, QueueStep
  <1> QED
    BY <1>3, <1>4, <1>5 DEF ReadInterfaces
-----------------------------------------------------------------------------
(***************************************************************************)
(* The stream from the child.                                              *)
(***************************************************************************)
\* The message at the start of bufin leaves the stream.
LEMMA DropOut ==
    ASSUME OutStream, Complete(bufin), bufin' = Dropped(FirstOf(bufin)),
           UNCHANGED <<fromChild, pending>>
    PROVE  OutStream'
  <1> DEFINE n == bufin[1].msg.size
             t == fromChild \o pending
             o == bufin \o t
  <1>1. /\ bufin \in Seq(Unit) /\ Len(bufin) \in Nat /\ Len(bufin) >= HDR
        /\ n <= Len(bufin) /\ Len(bufin) <= MAX_SIZE
        /\ fromChild \in Seq(Unit) /\ pending \in Seq(Unit)
    BY LenProperties DEF OutStream, Complete
  <1>2. bufin' = Rest(bufin, n)
    BY DEF Dropped, FirstOf
  <1>3. Len(bufin) >= 1 /\ bufin # <<>>
    BY <1>1, Constants, EmptySeq
  <1>4. t \in Seq(Unit) /\ Outbound = o
    BY <1>1, OutboundSeq
  <1> HIDE DEF t
  <1>5. o \in Seq(Unit) /\ o # <<>> /\ o[1] = bufin[1] /\ Len(o) >= Len(bufin)
    BY <1>1, <1>3, <1>4, FirstOfConcat, ConcatProperties
  <1>6. n \in 0..Len(bufin)
    <2>1. bufin[1] \in Unit
      BY <1>1, <1>3, ElementOfSeq
    <2>2. n \in Nat
      BY <2>1, UnitSizes
    <2> QED
      BY <1>1, <2>2
  <1>7. Rest(bufin, n) \in Seq(Unit) /\ Len(Rest(bufin, n)) = Len(bufin) - n
    BY <1>1, <1>6, CutProperties
  <1>8. Rest(bufin, n) \o t = Rest(o, n)
    <2> HIDE DEF n
    <2> QED
      BY <1>1, <1>4, <1>6, DropOfConcat
  <1>9. Chained(Rest(o, n)) /\ Whole(Rest(o, n))
    <2>1. Chained(o) /\ Whole(o)
      BY <1>4 DEF OutStream
    <2>2. n = o[1].msg.size
      BY <1>5
    <2>3. n <= Len(o)
      <3>1. Len(o) \in Nat
        BY <1>5, LenProperties
      <3> HIDE DEF o, n
      <3> QED
        BY <1>1, <1>5, <1>6, <3>1
    <2> HIDE DEF o, n
    <2> QED
      BY <1>5, <2>1, <2>2, <2>3, DropMessage
  <1>10. Outbound' = Rest(o, n)
    <2>1. bufin' \in Seq(Unit) /\ fromChild' \in Seq(Unit) /\ pending' \in Seq(Unit)
      BY <1>1, <1>2, <1>7
    <2>2. Outbound' = (bufin' \o fromChild') \o pending'
      BY DEF Outbound
    <2>3. Outbound' = bufin' \o (fromChild' \o pending')
      <3>1. \A u, v, w \in Seq(Unit) : u \o (v \o w) = (u \o v) \o w
        BY ConcatAssociative
      <3> QED
        BY <2>1, <2>2, <3>1, Zenon
    <2>4. Outbound' = Rest(bufin, n) \o t
      <3> HIDE DEF n, o
      <3> QED
        BY <1>2, <2>3 DEF t
    <2> QED
      BY <1>8, <2>4
  <1>11. Len(bufin') <= MAX_SIZE
    <2> HIDE DEF n
    <2> QED
      BY <1>1, <1>2, <1>6, <1>7, Constants
  <1> HIDE DEF n, o
  <1> QED
    BY <1>1, <1>2, <1>7, <1>9, <1>10, <1>11 DEF OutStream

LEMMA SendFrameStep ==
    ASSUME IInv, UNCHANGED loopVars, SendFrame PROVE IInv'
  <1>1. UNCHANGED <<inbuf, toChild, unwritten, pending, have_mac, last, fromChild,
                    buf, cmd, typed, current_read, at, ready, waiting, fd, child,
                    next>>
    BY DEF SendFrame, loopVars, cmdVars, readVars, tunVars
  <1>2. pc = "send" /\ pc' \in {"stopped", "command"}
    BY DEF SendFrame
  <1>3. CASE /\ ready.current_write
             /\ bufin' = Dropped(FirstOf(bufin))
             /\ current_write' = None
    <2>1. Complete(bufin)
      BY <1>2, <1>3 DEF IInv, Reported, Taken
    <2>2. OutStream'
      BY <1>1, <1>3, <2>1, DropOut DEF IInv
    <2>3. Taken'
      BY <1>3 DEF Taken
    <2>4. Scalars'
      BY <1>1, <1>2, <1>3 DEF IInv, Scalars, Stage
    <2>5. InStream' /\ Inbound' = Inbound /\ Job' /\ Texts' /\ Buffers'
      BY <1>1, InSame, JobSame, RestSame DEF IInv, cmdVars
    <2>6. Reported' /\ Room' /\ NothingSent' /\ MacFirst'
      BY <1>1, <1>2, <2>5, StageSame, MacSame DEF IInv, Starting
    <2> QED
      BY <2>2, <2>3, <2>4, <2>5, <2>6 DEF IInv
  <1>4. CASE UNCHANGED writeVars
    <2>1. Scalars'
      BY <1>1, <1>2, <1>4 DEF IInv, Scalars, writeVars, Stage
    <2> QED
      BY <1>1, <1>2, <1>4, <2>1, RestSame, StageSame, QuietStep
         DEF IInv, cmdVars, writeVars, Starting
  <1> QED
    BY <1>3, <1>4 DEF SendFrame

LEMMA DispatchStep ==
    ASSUME IInv, UNCHANGED loopVars, Dispatch PROVE IInv'
  <1>1. UNCHANGED <<inbuf, toChild, unwritten, pending, have_mac, last, fromChild,
                    buf, cmd, typed, current_read, at, ready, waiting, fd, child,
                    next>>
    BY DEF Dispatch, loopVars, cmdVars, readVars, tunVars
  <1>2. pc = "dispatch" /\ pc' \in {"interfaces", "dispatch", "stopped"}
    BY DEF Dispatch
  <1>3. /\ InStream' /\ Inbound' = Inbound /\ Job' /\ Texts' /\ Buffers'
        /\ Reported' /\ Room' /\ NothingSent'
    BY <1>1, <1>2, InSame, JobSame, RestSame, StageSame DEF IInv, cmdVars, Starting
  <1>4. MacFirst'
    BY <1>1, <1>2, <1>3, MacSame DEF IInv, Starting
  <1>5. CASE UNCHANGED writeVars
    <2>1. Scalars' /\ OutStream' /\ Taken'
      <3>1. Scalars'
        BY <1>1, <1>2, <1>5 DEF IInv, Scalars, writeVars, Stage
      <3> QED
        BY <1>1, <1>5, <3>1, OutSame, RestSame DEF IInv, writeVars
    <2> QED
      BY <1>3, <1>4, <2>1 DEF IInv
  <1>6. CASE /\ current_write = None /\ Complete(bufin)
             /\ bufin' = Dropped(FirstOf(bufin))
             /\ UNCHANGED current_write
    <2>1. OutStream'
      BY <1>1, <1>6, DropOut DEF IInv
    <2>2. Taken'
      BY <1>6 DEF Taken
    <2>3. Scalars'
      BY <1>1, <1>2, <1>6 DEF IInv, Scalars, Stage
    <2> QED
      BY <1>3, <1>4, <2>1, <2>2, <2>3 DEF IInv
  <1>7. CASE /\ Complete(bufin) /\ FirstOf(bufin).type \in Ifc
             /\ current_write' = FirstOf(bufin).type
             /\ UNCHANGED bufin
    <2>1. OutStream'
      BY <1>1, <1>7, OutSame DEF IInv
    <2>2. Taken'
      BY <1>7 DEF Taken, Complete, FirstOf
    <2>3. Scalars'
      BY <1>1, <1>2, <1>7 DEF IInv, Scalars, Stage
    <2> QED
      BY <1>3, <1>4, <2>1, <2>2, <2>3 DEF IInv
  <1> QED
    BY <1>5, <1>6, <1>7 DEF Dispatch

LEMMA ReadChildStep ==
    ASSUME IInv, UNCHANGED loopVars, ReadChild PROVE IInv'
  <1> DEFINE n == IF ready.child_stdout THEN ReadSize ELSE 0
             f == Front(fromChild, n)
             r == Rest(fromChild, n)
             c == bufin \o f
  <1>1. /\ bufin \in Seq(Unit) /\ fromChild \in Seq(Unit) /\ pending \in Seq(Unit)
        /\ Len(bufin) \in Nat /\ Len(fromChild) \in Nat
        /\ Len(bufin) <= MAX_SIZE /\ Len(fromChild) <= PIPE_CAP
    BY LenProperties DEF IInv, OutStream
  <1>2. n \in 0..Len(fromChild) /\ n <= MAX_SIZE - Len(bufin)
    <2>1. MAX_SIZE - Len(bufin) \in Nat
      BY <1>1, Constants
    <2>2. /\ ReadSize \in Nat /\ ReadSize <= Len(fromChild)
          /\ ReadSize <= MAX_SIZE - Len(bufin)
      BY <1>1, <2>1, LeastBounds DEF ReadSize
    <2> QED
      BY <1>1, <2>1, <2>2
  <1>3. bufin' = c /\ fromChild' = r
    BY DEF ReadChild
  <1>4. UNCHANGED <<inbuf, toChild, unwritten, pending, have_mac, last, buf, cmd,
                    typed, current_read, current_write, at, ready, waiting, fd,
                    child, next>>
    BY DEF ReadChild, loopVars, cmdVars, readVars, tunVars
  <1>5. pc = "child" /\ pc' \in {"stopped", "dispatch"}
    BY DEF ReadChild
  <1> HIDE DEF n
  <1>6. /\ f \in Seq(Unit) /\ Len(f) = n
        /\ r \in Seq(Unit) /\ Len(r) = Len(fromChild) - n
    BY <1>1, <1>2, CutProperties
  <1>7. c \o r = bufin \o fromChild
    BY <1>1, <1>2, MoveUnits
  <1> HIDE DEF f, r
  <1>8. c \in Seq(Unit) /\ Len(c) = Len(bufin) + n
    BY <1>1, <1>6, ConcatProperties
  <1>9. bufin # <<>> => c[1] = bufin[1]
    BY <1>1, <1>6, FirstOfConcat
  <1> HIDE DEF c
  <1>10. Outbound' = Outbound
    BY <1>3, <1>4, <1>7 DEF Outbound
  <1>11. OutStream'
    <2>1. Len(c) <= MAX_SIZE /\ Len(r) <= PIPE_CAP
      BY <1>1, <1>2, <1>6, <1>8, Constants
    <2> QED
      BY <1>3, <1>4, <1>6, <1>8, <1>10, <2>1 DEF IInv, OutStream
  <1>12. Taken'
    <2> SUFFICES ASSUME current_write # None
                 PROVE  Complete(c) /\ FirstOf(c).type = current_write
      BY <1>3, <1>4 DEF Taken, Complete, FirstOf
    <2>1. /\ Len(bufin) >= HDR /\ bufin[1].msg.size <= Len(bufin)
          /\ FirstOf(bufin).type = current_write
      BY DEF IInv, Taken, Complete
    <2>2. bufin # <<>>
      BY <1>1, <2>1, Constants, EmptySeq
    <2>3. c[1] = bufin[1]
      BY <1>9, <2>2
    <2>4. bufin[1].msg.size \in Nat
      BY <1>1, <2>1, Constants, ElementOfSeq, UnitSizes
    <2>5. Len(c) >= HDR /\ bufin[1].msg.size <= Len(c)
      BY <1>1, <1>2, <1>8, <2>1, <2>4, Constants
    <2> QED
      BY <2>1, <2>3, <2>5 DEF Complete, FirstOf
  <1>13. Scalars'
    BY <1>4, <1>5 DEF IInv, Scalars, Stage
  <1>14. /\ InStream' /\ Inbound' = Inbound /\ Job' /\ Texts' /\ Buffers'
         /\ Reported' /\ Room' /\ NothingSent'
    BY <1>4, <1>5, InSame, JobSame, RestSame, StageSame DEF IInv, cmdVars, Starting
  <1>15. MacFirst'
    BY <1>4, <1>5, <1>14, MacSame DEF IInv, Starting
  <1> QED
    BY <1>11, <1>12, <1>13, <1>14, <1>15 DEF IInv
-----------------------------------------------------------------------------
(***************************************************************************)
(* The child.                                                              *)
(***************************************************************************)
\* A read from the pipe does not either.
LEMMA LoopReadMoves ==
    ASSUME InStream, UNCHANGED unwritten, LoopRead
    PROVE  Inbound' = Inbound
  <1> DEFINE n == Least(Len(toChild), BUF_SIZE - Len(inbuf))
             f == Front(toChild, n)
             r == Rest(toChild, n)
  <1>1. /\ inbuf \in Seq(InUnit) /\ toChild \in Seq(InUnit)
        /\ Len(inbuf) \in Nat /\ Len(toChild) \in Nat
        /\ Len(inbuf) <= BUF_SIZE
    BY LenProperties DEF InStream
  <1>2. n \in 0..Len(toChild)
    <2>1. BUF_SIZE - Len(inbuf) \in Nat
      BY <1>1, Constants
    <2>2. n \in Nat /\ n <= Len(toChild)
      BY <1>1, <2>1, LeastBounds
    <2> HIDE DEF n
    <2> QED
      BY <1>1, <2>2
  <1>3. inbuf' = inbuf \o f /\ toChild' = r
    BY DEF LoopRead
  <1> HIDE DEF n
  <1>4. (inbuf \o f) \o r = inbuf \o toChild
    BY <1>1, <1>2, MoveUnits
  <1> HIDE DEF f, r
  <1> QED
    BY <1>3, <1>4 DEF Inbound

LEMMA LoopReadStep ==
    ASSUME IInv, UNCHANGED driverVars, LoopRead PROVE IInv'
  <1> DEFINE n == Least(Len(toChild), BUF_SIZE - Len(inbuf))
             f == Front(toChild, n)
             r == Rest(toChild, n)
             c == inbuf \o f
  <1>1. /\ inbuf \in Seq(InUnit) /\ toChild \in Seq(InUnit)
        /\ unwritten \in Seq(InUnit)
        /\ Len(inbuf) \in Nat /\ Len(toChild) \in Nat /\ Len(unwritten) \in Nat
        /\ Len(inbuf) <= BUF_SIZE /\ Len(toChild) <= PIPE_CAP
    BY LenProperties DEF IInv, InStream
  <1>2. n \in 0..Len(toChild) /\ n <= BUF_SIZE - Len(inbuf)
    <2>1. BUF_SIZE - Len(inbuf) \in Nat
      BY <1>1, Constants
    <2>2. n \in Nat /\ n <= Len(toChild) /\ n <= BUF_SIZE - Len(inbuf)
      BY <1>1, <2>1, LeastBounds
    <2> HIDE DEF n
    <2> QED
      BY <1>1, <2>1, <2>2
  <1>3. inbuf' = c /\ toChild' = r /\ child' \in {"dead", child}
    BY DEF LoopRead
  <1>4. UNCHANGED <<unwritten, pending, have_mac, last, bufin, fromChild, buf, cmd,
                    typed, current_read, current_write, at, ready, waiting, fd,
                    pc, next>>
    BY DEF LoopRead, driverVars, cmdVars, readVars, writeVars, tunVars
  <1>5. pc \notin Starting
    <2> SUFFICES ASSUME pc \in Starting PROVE FALSE
      OBVIOUS
    <2>1. inbuf = <<>> /\ toChild = <<>>
      BY DEF IInv, NothingSent
    <2>2. Len(inbuf) = BUF_SIZE /\ Len(inbuf) = 0
      BY <1>1, <2>1, EmptySeq DEF LoopRead
    <2> QED
      BY <2>2, Constants
  <1> HIDE DEF n
  <1>6. /\ f \in Seq(InUnit) /\ Len(f) = n
        /\ r \in Seq(InUnit) /\ Len(r) = Len(toChild) - n
    BY <1>1, <1>2, CutProperties
  <1>7. Inbound' = Inbound
    BY <1>4, LoopReadMoves DEF IInv
  <1> HIDE DEF f, r
  <1>8. c \in Seq(InUnit) /\ Len(c) = Len(inbuf) + n
    BY <1>1, <1>6, ConcatProperties
  <1> HIDE DEF c
  <1>10. InStream'
    <2>1. Len(c) <= BUF_SIZE /\ Len(r) <= PIPE_CAP
      BY <1>1, <1>2, <1>6, <1>8, Constants
    <2> QED
      BY <1>3, <1>4, <1>6, <1>7, <1>8, <2>1 DEF IInv, InStream
  <1>11. Scalars'
    BY <1>3, <1>4 DEF IInv, Scalars
  <1>12. Room'
    <2>1. Len(toChild') + Len(unwritten') <= Len(toChild) + Len(unwritten)
      BY <1>1, <1>2, <1>3, <1>4, <1>6
    <2>2. Len(toChild') + Len(unwritten') \in Nat
      BY <1>1, <1>2, <1>3, <1>4, <1>6
    <2> SUFFICES ASSUME SmallJobs, pc \in {"stdin", "write", "writing"},
                        ready.child_stdin, child = "alive"
                 PROVE  Len(toChild') + Len(unwritten') <= PIPE_CAP
      BY <1>3, <1>4 DEF Room, SmallJobs
    <2>3. Len(toChild) + Len(unwritten) <= PIPE_CAP
      BY DEF IInv, Room
    <2> QED
      BY <1>1, <2>1, <2>2, <2>3, Constants
  <1>13. /\ OutStream' /\ Job' /\ Texts' /\ Buffers' /\ Taken'
         /\ Reported' /\ NothingSent'
    BY <1>4, <1>5, OutSame, JobSame, RestSame, StageSame
       DEF IInv, cmdVars, writeVars, NothingSent
  <1>14. MacFirst'
    BY <1>4, <1>7, MacSame DEF IInv
  <1> QED
    BY <1>10, <1>11, <1>12, <1>13, <1>14 DEF IInv

LEMMA WriteAllStep ==
    ASSUME IInv, UNCHANGED driverVars, WriteAll PROVE IInv'
  <1> DEFINE n == Least(Len(pending), PIPE_CAP - Len(fromChild))
             f == Front(pending, n)
             r == Rest(pending, n)
             s == bufin \o fromChild
  <1>1. /\ bufin \in Seq(Unit) /\ fromChild \in Seq(Unit) /\ pending \in Seq(Unit)
        /\ Len(fromChild) \in Nat /\ Len(pending) \in Nat
        /\ Len(fromChild) <= PIPE_CAP
    BY LenProperties DEF IInv, OutStream
  <1>2. /\ n \in 0..Len(pending) /\ n <= PIPE_CAP - Len(fromChild)
        /\ fromChild' = fromChild \o f /\ pending' = r
    <2>1. PIPE_CAP - Len(fromChild) \in Nat
      BY <1>1, Constants
    <2>2. n \in Nat /\ n <= Len(pending) /\ n <= PIPE_CAP - Len(fromChild)
      BY <1>1, <2>1, LeastBounds
    <2>3. n \in 0..Len(pending)
      BY <1>1, <2>2
    <2> QED
      BY <2>2, <2>3 DEF WriteAll
  <1>3. UNCHANGED <<inbuf, toChild, unwritten, have_mac, last, bufin, buf, cmd,
                    typed, current_read, current_write, at, ready, waiting, fd,
                    child, pc, next>>
    BY DEF WriteAll, driverVars, cmdVars, readVars, writeVars, tunVars
  <1> HIDE DEF n
  <1>4. /\ f \in Seq(Unit) /\ Len(f) = n /\ r \in Seq(Unit)
    BY <1>1, <1>2, CutProperties
  <1>5. Outbound' = Outbound
    <2>1. s \in Seq(Unit) /\ Outbound = s \o pending
      BY <1>1, OutboundSeq
    <2>2. (s \o f) \o r = s \o pending
      <3> HIDE DEF s
      <3> QED
        BY <1>1, <1>2, <2>1, MoveUnits
    <2>3. bufin \o (fromChild \o f) = s \o f
      <3>1. \A u, v, w \in Seq(Unit) : u \o (v \o w) = (u \o v) \o w
        BY ConcatAssociative
      <3> HIDE DEF f
      <3> QED
        BY <1>1, <1>4, <3>1, Zenon
    <2>4. Outbound' = (bufin \o (fromChild \o f)) \o r
      <3> HIDE DEF f, r
      <3>1. Outbound' = (bufin \o fromChild') \o pending'
        BY <1>3 DEF Outbound
      <3> QED
        BY <1>2, <3>1
    <2> QED
      BY <2>1, <2>2, <2>3, <2>4
  <1> HIDE DEF f, r, s
  <1>6. fromChild' \in Seq(Unit) /\ Len(fromChild') = Len(fromChild) + n
    BY <1>1, <1>2, <1>4, ConcatProperties
  <1>7. OutStream'
    <2>1. Len(fromChild') <= PIPE_CAP
      BY <1>1, <1>2, <1>6, Constants
    <2> QED
      BY <1>2, <1>3, <1>4, <1>5, <1>6, <2>1 DEF IInv, OutStream
  <1>8. Scalars'
    BY <1>3 DEF IInv, Scalars
  <1>9. /\ InStream' /\ Inbound' = Inbound /\ Job' /\ Texts' /\ Buffers' /\ Taken'
        /\ Reported' /\ NothingSent' /\ Room'
    BY <1>3, InSame, JobSame, RestSame, StageSame DEF IInv, cmdVars, writeVars
  <1>10. MacFirst'
    BY <1>3, <1>9, MacSame DEF IInv
  <1> QED
    BY <1>7, <1>8, <1>9, <1>10 DEF IInv

\* The message at the start of inbuf leaves the stream.
LEMMA DropIn ==
    ASSUME InStream, CanHandle, inbuf' = Shifted(FirstOf(inbuf)),
           UNCHANGED <<toChild, unwritten>>
    PROVE  /\ InStream' /\ FirstOf(inbuf) \in InMsg
           /\ Inbound # <<>> /\ FirstOf(Inbound) = FirstOf(inbuf)
           /\ inbuf # <<>>
           /\ FirstOf(inbuf).size <= Len(Inbound)
           /\ Inbound' = Rest(Inbound, FirstOf(inbuf).size)
  <1> DEFINE n == inbuf[1].msg.size
             t == toChild \o unwritten
             o == inbuf \o t
  <1>1. /\ inbuf \in Seq(InUnit) /\ inbuf \in Seq(Unit)
        /\ Len(inbuf) \in Nat /\ Len(inbuf) > HDR
        /\ n <= Len(inbuf) /\ Len(inbuf) <= BUF_SIZE
        /\ toChild \in Seq(InUnit) /\ unwritten \in Seq(InUnit)
    <2>1. inbuf \in Seq(InUnit)
      BY DEF InStream
    <2> QED
      BY <2>1, NoMessageIsNone, SeqMonotonic, LenProperties
         DEF InStream, CanHandle, Complete
  <1>2. inbuf' = Rest(inbuf, n)
    BY DEF Shifted, FirstOf
  <1>3. Len(inbuf) >= 1 /\ inbuf # <<>>
    BY <1>1, Constants, EmptySeq
  <1>4. t \in Seq(InUnit) /\ t \in Seq(Unit) /\ Inbound = o
    <2>1. t \in Seq(InUnit) /\ Inbound = o
      BY <1>1, InboundSeq
    <2> QED
      BY <2>1, NoMessageIsNone, SeqMonotonic
  <1> HIDE DEF t
  <1>5. o \in Seq(Unit) /\ o # <<>> /\ o[1] = inbuf[1] /\ Len(o) >= Len(inbuf)
    BY <1>1, <1>3, <1>4, FirstOfConcat, ConcatProperties
  <1>6. n \in 0..Len(inbuf) /\ inbuf[1] \in InUnit
    <2>1. inbuf[1] \in InUnit /\ inbuf[1] \in Unit
      BY <1>1, <1>3, ElementOfSeq
    <2>2. n \in Nat
      BY <2>1, UnitSizes
    <2> QED
      BY <1>1, <2>1, <2>2
  <1>7. /\ Rest(inbuf, n) \in Seq(InUnit)
        /\ Len(Rest(inbuf, n)) = Len(inbuf) - n
    BY <1>1, <1>6, CutProperties
  <1>8. Rest(inbuf, n) \o t = Rest(o, n)
    <2> HIDE DEF n
    <2> QED
      BY <1>1, <1>4, <1>6, DropOfConcat
  <1>9. Chained(Rest(o, n)) /\ Whole(Rest(o, n))
    <2>1. Chained(o) /\ Whole(o)
      BY <1>4 DEF InStream
    <2>2. n = o[1].msg.size
      BY <1>5
    <2>3. n <= Len(o)
      <3>1. Len(o) \in Nat
        BY <1>5, LenProperties
      <3> HIDE DEF o, n
      <3> QED
        BY <1>1, <1>5, <1>6, <3>1
    <2> HIDE DEF o, n
    <2> QED
      BY <1>5, <2>1, <2>2, <2>3, DropMessage
  <1>10. Inbound' = Rest(o, n)
    <2>1. /\ inbuf' \in Seq(InUnit) /\ toChild' \in Seq(InUnit)
          /\ unwritten' \in Seq(InUnit)
      BY <1>1, <1>2, <1>7
    <2>2. Inbound' = (inbuf' \o toChild') \o unwritten'
      BY DEF Inbound
    <2>3. Inbound' = inbuf' \o (toChild' \o unwritten')
      <3>1. \A u, v, w \in Seq(InUnit) : u \o (v \o w) = (u \o v) \o w
        BY ConcatAssociative
      <3> QED
        BY <2>1, <2>2, <3>1, Zenon
    <2>4. Inbound' = Rest(inbuf, n) \o t
      <3> HIDE DEF n, o
      <3> QED
        BY <1>2, <2>3 DEF t
    <2> QED
      BY <1>8, <2>4
  <1>11. Len(inbuf') <= BUF_SIZE
    <2> HIDE DEF n
    <2> QED
      BY <1>1, <1>2, <1>6, <1>7, Constants
  <1>12. FirstOf(inbuf) \in InMsg
    BY <1>6 DEF FirstOf, InUnit
  <1>13. Inbound # <<>> /\ FirstOf(Inbound) = FirstOf(inbuf)
    BY <1>4, <1>5 DEF FirstOf
  <1>14. n = FirstOf(inbuf).size
    BY DEF FirstOf
  <1> HIDE DEF n, o
  <1>15. InStream'
    BY <1>1, <1>2, <1>7, <1>9, <1>10, <1>11 DEF InStream
  <1>16. n <= Len(Inbound)
    <2>1. Len(o) \in Nat /\ n \in Nat
      BY <1>1, <1>5, <1>6, LenProperties
    <2> QED
      BY <1>1, <1>4, <1>5, <2>1
  <1> QED
    BY <1>3, <1>4, <1>10, <1>12, <1>13, <1>14, <1>15, <1>16

LEMMA LoopHandleStep ==
    ASSUME IInv, UNCHANGED driverVars, LoopHandle PROVE IInv'
  <1> DEFINE m == FirstOf(inbuf)
  <1>1. /\ pending = <<>> /\ CanHandle
        /\ child' = IF m.size < HDR THEN "dead" ELSE child
        /\ inbuf' = Shifted(m) /\ UNCHANGED <<toChild, fromChild>>
    BY DEF LoopHandle
  <1>2. \/ /\ m.type = 0 /\ ~have_mac
           /\ have_mac' = TRUE
           /\ UNCHANGED pending
        \/ /\ m.type # 0 \/ have_mac
           /\ \E types \in Reply[m.type] : pending' = ReplyUnits(m, types)
           /\ UNCHANGED have_mac
    BY DEF LoopHandle
  <1>3. UNCHANGED <<unwritten, bufin, buf, cmd, typed, current_read, current_write,
                    at, ready, waiting, fd, pc, next>>
    BY DEF driverVars, cmdVars, readVars, writeVars, tunVars
  <1>4. /\ InStream' /\ m \in InMsg /\ Inbound # <<>> /\ FirstOf(Inbound) = m
        /\ inbuf # <<>>
    BY <1>1, <1>3, DropIn DEF IInv
  <1> HIDE DEF m
  <1>5. m \in Msg /\ m.type \in Source
    BY <1>4 DEF InMsg
  <1>6. child' = child \/ child' = "dead"
    BY <1>1
  <1>7. pc \notin Starting
    BY <1>4 DEF IInv, NothingSent
  <1>8. have_mac'
    <2>1. CASE have_mac' = TRUE
      BY <2>1
    <2>2. CASE (m.type # 0 \/ have_mac) /\ UNCHANGED have_mac
      BY <1>4, <2>2 DEF IInv, MacFirst
    <2> QED
      BY <1>2, <2>1, <2>2
  <1>9. MacFirst'
    BY <1>8 DEF MacFirst
  <1>10. OutStream'
    <2>1. CASE UNCHANGED pending
      BY <1>1, <1>3, <2>1, OutSame DEF IInv
    <2>2. CASE \E types \in Reply[m.type] : pending' = ReplyUnits(m, types)
      <3>1. PICK types \in Reply[m.type] : pending' = ReplyUnits(m, types)
        BY <2>2
      <3>2. types \in Seq(Nat)
        <4>1. m.type \in DOMAIN Reply
          BY <1>5, SystemAssumption DEF SystemAssumption
        <4> QED
          BY <4>1, LoopAssumption DEF LoopAssumption
      <3> DEFINE u == ReplyUnits(m, types)
                 s == bufin \o fromChild
      <3>3. u \in Seq(Unit) /\ Chained(u) /\ Whole(u)
        BY <1>5, <3>2, ReplyUnitsChained
      <3> HIDE DEF u
      <3>4. /\ bufin \in Seq(Unit) /\ fromChild \in Seq(Unit)
            /\ pending \in Seq(Unit)
        BY DEF IInv, OutStream
      <3>5. s \in Seq(Unit) /\ Outbound = s \o <<>>
        BY <1>1, <3>4, OutboundSeq
      <3>6. Outbound' = s \o u
        BY <1>1, <1>3, <3>1 DEF Outbound, u
      <3> HIDE DEF s
      <3>7. Outbound = s
        BY <3>5, ConcatEmptySeq
      <3>8. Chained(s \o u) /\ Whole(s \o u)
        BY <3>3, <3>5, <3>7, ChainedConcat DEF IInv, OutStream
      <3>9. pending' = u
        BY <3>1 DEF u
      <3> QED
        BY <1>1, <1>3, <3>3, <3>6, <3>8, <3>9 DEF IInv, OutStream
    <2> QED
      BY <1>2, <2>1, <2>2
  <1>11. Scalars'
    BY <1>3, <1>6 DEF IInv, Scalars
  <1>12. Room'
    BY <1>1, <1>3, <1>6 DEF IInv, Room, SmallJobs
  <1>13. Job' /\ Texts' /\ Buffers' /\ Taken' /\ Reported' /\ NothingSent'
    BY <1>3, <1>7, JobSame, RestSame, StageSame
       DEF IInv, cmdVars, writeVars, NothingSent
  <1> QED
    BY <1>4, <1>9, <1>10, <1>11, <1>12, <1>13 DEF IInv
-----------------------------------------------------------------------------
LEMMA StutterStep == IInv /\ UNCHANGED vars => IInv'
  <1> SUFFICES ASSUME IInv, UNCHANGED vars PROVE IInv'
    OBVIOUS
  <1>1. Scalars'
    BY DEF IInv, Scalars, vars, driverVars, readVars, writeVars, tunVars
  <1> QED
    BY <1>1, RestSame, StageSame, QuietStep
       DEF IInv, vars, driverVars, loopVars, cmdVars, readVars, writeVars, tunVars

LEMMA NextInv == IInv /\ [Next]_vars => IInv'
  <1> SUFFICES ASSUME IInv, [Next]_vars PROVE IInv'
    OBVIOUS
  <1>1. CASE Parent
    BY <1>1, OpenStep, BindStep, SendMacsStep, DropPrivilegesStep, SelectStep,
       ReadStdinStep, WriteChildStep, SkipWriteStep, SendFrameStep,
       QueueCommandStep, ReadChildStep, DispatchStep, ReadInterfacesStep
       DEF Parent, DriverStep
  <1>2. CASE Outside
    BY <1>2, TypeStep, StopRunStep, GiveUpStep, FrameArrivesStep
       DEF Outside, Environment
  <1>3. CASE Child
    BY <1>3, LoopReadStep, LoopHandleStep, WriteAllStep, DeathStep
       DEF Child, LoopNext, InputEnds
  <1>4. CASE ChildEnds \/ Kill
    BY <1>4, DeathStep DEF ChildEnds, Kill
  <1>5. CASE UNCHANGED vars
    BY <1>5, StutterStep
  <1> QED
    BY <1>1, <1>2, <1>3, <1>4, <1>5 DEF Next

LEMMA Inductive == Spec => []IInv
  BY InitInv, NextInv, PTL DEF Spec
-----------------------------------------------------------------------------
(***************************************************************************)
(* What follows from the invariant.                                        *)
(***************************************************************************)
\* Buffers, pipes and stages stay within their bounds, whatever order the two
\* processes run in.
THEOREM TypeCorrect == Spec => []TypeOK
  <1>1. IInv => TypeOK
    BY DEF IInv, Scalars, Texts, Buffers, InStream, OutStream, TypeOK
  <1> QED
    BY <1>1, Inductive, PTL

\* No partial read, partial write, memmove or retry tears a message: both
\* streams are whole messages at every step (loop, run, write_all).
THEOREM StreamsStayFramed == Spec => []StreamsFramed
  <1>1. IInv => StreamsFramed
    <2> SUFFICES ASSUME IInv PROVE StreamsFramed
      OBVIOUS
    <2>1. Inbound \in Seq(Unit) /\ Chained(Inbound)
      BY InboundSeq DEF IInv, InStream
    <2>2. Outbound \in Seq(Unit) /\ Chained(Outbound)
      BY OutboundSeq DEF IInv, OutStream
    <2> QED
      BY <2>1, <2>2, FramedIsChained DEF StreamsFramed
  <1> QED
    BY <1>1, Inductive, PTL

\* The child takes nothing but the MAC list for the MAC list: main() writes it
\* before run() can write anything else.
THEOREM MacListComesFirst == Spec => []MacListFirst
  <1>1. IInv => MacListFirst
    BY DEF IInv, MacFirst, MacListFirst
  <1> QED
    BY <1>1, Inductive, PTL

\* A frame that came in on another interface before the socket was bound is
\* never given to the child as a frame of this one (init_tun, run).
THEOREM FramesAreAttributed == Spec => []FramesAttributed
  <1>1. IInv => FramesAttributed
    <2> SUFFICES ASSUME IInv, NEW n \in DOMAIN Inbound,
                        Inbound[n].msg.type \in Ifc
                 PROVE  Inbound[n].msg.src = Inbound[n].msg.type
      BY DEF FramesAttributed
    <2>1. Inbound \in Seq(InUnit)
      BY InboundSeq DEF IInv, InStream
    <2>2. Inbound[n] \in InUnit
      BY <2>1, ElementOfSeq, LenProperties
    <2> QED
      BY <2>2 DEF InUnit, InMsg
  <1> QED
    BY <1>1, Inductive, PTL

\* Nothing is written from a buffer that was freed or refilled, and the frame
\* at the start of bufin is the one run() announced to select().
THEOREM JobsMatchBuffers == Spec => []JobMatchesBuffer
  <1>1. IInv => JobMatchesBuffer
    <2> SUFFICES ASSUME IInv PROVE JobMatchesBuffer
      OBVIOUS
    <2>1. unwritten # <<>> => 1 \in 1..Len(unwritten)
      <3>1. unwritten \in Seq(InUnit)
        BY DEF IInv, InStream
      <3>2. Len(unwritten) \in Nat /\ (unwritten # <<>> => Len(unwritten) # 0)
        BY <3>1, LenProperties, EmptySeq
      <3> QED
        BY <3>2
    <2>2. None \notin Ifc /\ None # 0
      BY DEF None, Ifc
    <2> QED
      BY <2>1, <2>2 DEF IInv, Job, Taken, JobMatchesBuffer
  <1> QED
    BY <1>1, Inductive, PTL

\* The two processes never wait for each other, as long as every job fits the
\* room for which select() calls the pipe to the child writable: then run()'s
\* write() to the child never finds the pipe full.
THEOREM NoMutualWait ==
    ASSUME SmallJobs
    PROVE  Spec => []NoDeadlock
  <1>1. IInv => NoDeadlock
    <2> SUFFICES ASSUME IInv, DriverBlocked, child = "alive" PROVE FALSE
      BY DEF NoDeadlock, ChildBlocked
    <2>1. /\ pc \in {"write", "writing"} /\ ready.child_stdin
          /\ Len(toChild) = PIPE_CAP
      BY DEF DriverBlocked
    <2>2. current_read # None
      BY <2>1 DEF IInv, Reported
    <2>3. unwritten # <<>> /\ unwritten \in Seq(InUnit)
      BY <2>2 DEF IInv, Job, InStream
    <2>4. Len(unwritten) \in Nat /\ Len(unwritten) # 0
      BY <2>3, LenProperties, EmptySeq
    <2>5. Len(toChild) + Len(unwritten) <= PIPE_CAP
      BY <2>1, SmallJobs DEF IInv, Room
    <2> QED
      BY <2>1, <2>4, <2>5, Constants
  <1> QED
    BY <1>1, Inductive, PTL

\* loop() never takes its own full buffer for the end of the stream, as long
\* as no message the driver makes is larger than that buffer.
Fitting == FRAME <= BUF_SIZE /\ MACS <= BUF_SIZE /\ HDR + CMD_ROOM <= BUF_SIZE

THEOREM LoopNeverStuck ==
    ASSUME Fitting
    PROVE  Spec => []LoopHasRoom
  <1>1. IInv => LoopHasRoom
    <2> SUFFICES ASSUME IInv, ~(Len(inbuf) < BUF_SIZE) PROVE CanHandle
      BY DEF LoopHasRoom
    <2>1. inbuf \in Seq(InUnit) /\ Len(inbuf) <= BUF_SIZE
      BY DEF IInv, InStream
    <2>2. Len(inbuf) \in Nat /\ Len(inbuf) = BUF_SIZE
      BY <2>1, Constants, LenProperties
    <2>3. Len(inbuf) > HDR /\ Len(inbuf) >= HDR /\ Len(inbuf) >= 1
      BY <2>2, Constants
    <2>4. inbuf[1] \in InUnit
      BY <2>1, <2>2, <2>3, ElementOfSeq
    <2>5. inbuf[1].msg.size \in SentSize
      BY <2>4 DEF InUnit, InMsg
    <2>6. inbuf[1].msg.size <= BUF_SIZE
      <3>1. \A x \in (HDR + 1)..(HDR + CMD_ROOM) : x <= BUF_SIZE
        BY Constants, Fitting DEF Fitting
      <3> QED
        BY <2>5, <3>1, Fitting DEF Fitting, SentSize
    <2> QED
      BY <2>2, <2>3, <2>6 DEF CanHandle, Complete
  <1> QED
    BY <1>1, Inductive, PTL
-----------------------------------------------------------------------------
(***************************************************************************)
(* Refinement: what the driver took in is one queue for each source, from  *)
(* the buffers over the pipe to the child's handlers.                      *)
(***************************************************************************)
Flight == [s \in Source |-> InFlight(s)]

\* The frame that waits in the buffer of its interface.
Held(s) == IF s \in Ifc /\ s # current_read /\ buf[s] # NoMessage
           THEN <<buf[s].id>> ELSE <<>>

LEMMA FlightParts ==
    ASSUME IInv, NEW s \in Source
    PROVE  /\ Flight[s] = IdsOf(Inbound, s) \o Held(s)
           /\ IdsOf(Inbound, s) \in Seq(Nat) /\ Held(s) \in Seq(Nat)
  <1>1. Flight[s] = IdsOf(Inbound, s) \o Held(s)
    BY DEF Flight, InFlight, Held
  <1>2. Inbound \in Seq(Unit)
    BY InboundSeq DEF IInv, InStream
  <1>3. IdsOf(Inbound, s) \in Seq(Nat)
    BY <1>2, IdsOfConcat
  <1>4. Held(s) \in Seq(Nat)
    <2>1. CASE s \in Ifc /\ s # current_read /\ buf[s] # NoMessage
      <3>1. buf[s].id \in Nat
        <4>1. buf[s] \in Msg
          BY <2>1, NoMessageIsNone DEF IInv, Buffers
        <4> QED
          BY <4>1 DEF Msg
      <3> DEFINE id == buf[s].id
      <3>2. <<id>> \in Seq(Nat)
        <4> HIDE DEF id
        <4> QED
          BY <3>1 DEF id
      <3> QED
        BY <2>1, <3>2 DEF Held
    <2>2. CASE ~(s \in Ifc /\ s # current_read /\ buf[s] # NoMessage)
      BY <2>2, EmptySeq DEF Held
    <2> QED
      BY <2>1, <2>2
  <1> QED
    BY <1>1, <1>3, <1>4

\* Three ways the queues change: they do not, one grows, one loses its head.
LEMMA FlightKept ==
    ASSUME Inbound' = Inbound, \A s \in Source : Held(s)' = Held(s)
    PROVE  Flight' = Flight
  <1>1. \A s \in Source : InFlight(s)' = InFlight(s)
    <2> TAKE s \in Source
    <2>1. InFlight(s) = IdsOf(Inbound, s) \o Held(s)
      BY DEF InFlight, Held
    <2>2. InFlight(s)' = IdsOf(Inbound', s) \o Held(s)'
      BY DEF InFlight, Held
    <2> QED
      BY <2>1, <2>2
  <1> QED
    BY <1>1 DEF Flight

LEMMA TakeRefines ==
    ASSUME NEW s \in Source, ~Stopped, ~Stopped', last' = last,
           next' = [next EXCEPT ![s] = After(@)],
           Flight' = [Flight EXCEPT ![s] = Append(@, next[s])]
    PROVE  C!Next
  <1>1. C!Take(s)
    <2>1. next' = [next EXCEPT ![s] = (@ + 1) % C!Cardinality(Id)]
      <3>1. C!Cardinality(Id) = Cardinality(Id)
        BY DEF C!Cardinality, Cardinality
      <3> QED
        BY <3>1 DEF After
    <2>2. [r \in Source |-> InFlight(r)]' =
              [[r \in Source |-> InFlight(r)] EXCEPT ![s] = Append(@, next[s])]
      BY DEF Flight
    <2>3. Stopped' = Stopped
      BY DEF Stopped
    <2> QED
      BY <2>1, <2>2, <2>3 DEF C!Take
  <1> QED
    BY <1>1 DEF C!Next

LEMMA QuietRefines ==
    ASSUME Flight' = Flight, UNCHANGED <<next, last>>, Stopped => Stopped'
    PROVE  [C!Next]_(C!vars)
  <1>1. CASE Stopped' = Stopped
    BY <1>1 DEF C!vars, Flight
  <1>2. CASE ~Stopped /\ Stopped'
    <2>1. C!Stop
      BY <1>2 DEF C!Stop, Flight
    <2> QED
      BY <1>2, <2>1 DEF C!Next
  <1> QED
    BY <1>1, <1>2 DEF Stopped

\* A step that touches neither the stream to the child nor the buffers.
LEMMA SilentRefines ==
    ASSUME UNCHANGED <<inbuf, toChild, unwritten, buf, current_read, next, last>>,
           Stopped => Stopped'
    PROVE  [C!Next]_(C!vars)
  <1>1. Inbound' = Inbound
    BY DEF Inbound
  <1>2. \A s \in Source : Held(s)' = Held(s)
    BY DEF Held
  <1> QED
    BY <1>1, <1>2, FlightKept, QuietRefines

\* A message at the end of the stream is at the end of its queue.
LEMMA IdsAfterMessage ==
    ASSUME IInv, NEW m \in Msg, Inbound' = Inbound \o UnitsOf(m), NEW s
    PROVE  IdsOf(Inbound', s) =
               IF s = m.type THEN IdsOf(Inbound, s) \o <<m.id>>
                             ELSE IdsOf(Inbound, s)
  <1> DEFINE u == UnitsOf(m)
             i == Inbound
  <1>1. i \in Seq(Unit)
    BY InboundSeq DEF IInv, InStream
  <1>2. u \in Seq(Unit)
    <2>1. Msg \in SUBSET Msg
      OBVIOUS
    <2> QED
      BY <2>1, UnitsOfChained DEF Unit
  <1>3. IdsOf(u, s) = IF m.type = s THEN <<m.id>> ELSE <<>>
    BY IdsOfUnits DEF IdOf
  <1> HIDE DEF u
  <1>4. Inbound' = i \o u
    BY DEF u
  <1> HIDE DEF i
  <1>5. IdsOf(i \o u, s) = IdsOf(i, s) \o IdsOf(u, s) /\ IdsOf(i, s) \in Seq(Nat)
    BY <1>1, <1>2, IdsOfConcat
  <1>6. IdsOf(i, s) \o <<>> = IdsOf(i, s)
    BY <1>5, ConcatEmptySeq
  <1> QED
    BY <1>3, <1>4, <1>5, <1>6 DEF i
-----------------------------------------------------------------------------
(***************************************************************************)
(* The steps that take a message in.                                       *)
(***************************************************************************)
\* One that goes straight to the end of the stream.
LEMMA StreamTakes ==
    ASSUME IInv, ~Stopped, ~Stopped', last' = last,
           NEW m \in Msg, Inbound' = Inbound \o UnitsOf(m),
           NEW s \in Source, m.type = s, m.id = next[s],
           next' = [next EXCEPT ![s] = After(@)],
           \A r \in Source : Held(r)' = Held(r), Held(s) = <<>>
    PROVE  C!Next
  <1>1. \A r \in Source : Flight'[r] = IdsOf(Inbound', r) \o Held(r)'
    BY DEF Flight, InFlight, Held
  <1>2. s \in Source /\ m.id \in Nat /\ m.id = next[s]
    BY DEF Msg
  <1> DEFINE q == IdsOf(Inbound, s)
  <1>3. Flight[s] = q /\ q \in Seq(Nat)
    <2>1. Flight[s] = q \o <<>> /\ q \in Seq(Nat)
      BY <1>2, FlightParts
    <2> QED
      BY <2>1, ConcatEmptySeq
  <1>4. Flight'[s] = Append(Flight[s], next[s])
    <2>1. IdsOf(Inbound', s) = q \o <<m.id>>
      BY IdsAfterMessage
    <2>2. Append(q, m.id) = q \o <<m.id>> /\ Append(q, m.id) \in Seq(Nat)
      BY <1>2, <1>3, AppendIsConcat, AppendProperties
    <2>3. Append(q, m.id) \o <<>> = Append(q, m.id)
      BY <2>2, ConcatEmptySeq
    <2>4. Flight'[s] = IdsOf(Inbound', s) \o <<>>
      BY <1>1, <1>2
    <2> HIDE DEF q
    <2> QED
      BY <1>2, <1>3, <2>1, <2>2, <2>3, <2>4
  <1>5. \A r \in Source : r # s => Flight'[r] = Flight[r]
    <2> TAKE r \in Source
    <2> HAVE r # s
    <2>1. IdsOf(Inbound', r) = IdsOf(Inbound, r)
      BY IdsAfterMessage
    <2>2. Flight[r] = IdsOf(Inbound, r) \o Held(r)
      BY FlightParts
    <2> QED
      BY <1>1, <2>1, <2>2
  <1>6. Flight' = [Flight EXCEPT ![s] = Append(@, next[s])]
    <2>1. Flight = [r \in Source |-> Flight[r]]
          /\ Flight' = [r \in Source |-> Flight'[r]]
      BY DEF Flight
    <2> QED
      BY <1>2, <1>4, <1>5, <2>1
  <1> QED
    BY <1>2, <1>6, TakeRefines

LEMMA SendMacsRefines ==
    ASSUME IInv, UNCHANGED loopVars, SendMacs PROVE [C!Next]_(C!vars)
  <1>1. pc = "start" /\ inbuf = <<>> /\ toChild = <<>> /\ unwritten = <<>>
    BY DEF IInv, NothingSent, Starting, SendMacs
  <1>2. UNCHANGED <<inbuf, last, unwritten, buf, current_read>>
    BY DEF SendMacs, loopVars, readVars
  <1>3. CASE /\ toChild' = MacList
             /\ next' = [next EXCEPT ![0] = After(@)]
             /\ pc' = "privileges"
    <2> DEFINE m == Message(0, 0, next[0], MACS)
    <2>1. m \in Msg /\ m.type = 0 /\ m.id = next[0]
      <3>1. Scalars /\ 0 \in Source /\ MACS \in SentSize /\ 0 \in Nat
            /\ ~(0 \in Ifc)
        BY Constants DEF IInv, SentSize
      <3> QED
        BY <3>1, DriverMessage, NoMessageIsNone DEF Message
    <2>2. MacList = UnitsOf(m)
      BY DEF MacList
    <2> HIDE DEF m
    <2>3. UnitsOf(m) \in Seq(Unit)
      <3>1. Msg \in SUBSET Msg
        OBVIOUS
      <3> QED
        BY <2>1, <3>1, UnitsOfChained DEF Unit
    <2>4. Inbound' = Inbound \o UnitsOf(m)
      <3> DEFINE u == UnitsOf(m)
      <3> HIDE DEF u
      <3>1. Inbound' = (<<>> \o u) \o <<>> /\ Inbound = (<<>> \o <<>>) \o <<>>
        BY <1>1, <1>2, <1>3, <2>2 DEF Inbound, u
      <3>2. <<>> \o u = u /\ u \o <<>> = u /\ <<>> \o <<>> = <<>>
        BY <2>3, ConcatEmptySeq, EmptySeq DEF u
      <3> QED
        BY <3>1, <3>2 DEF u
    <2>5. ~Stopped /\ ~Stopped'
      BY <1>1, <1>3 DEF Stopped
    <2>6. Held(0) = <<>> /\ \A s \in Source : Held(s)' = Held(s)
      BY <1>2, Constants DEF Held
    <2>7. 0 \in Source
      BY Constants
    <2>8. C!Next
      BY <1>2, <1>3, <2>1, <2>4, <2>5, <2>6, <2>7, StreamTakes
    <2> QED
      BY <2>8
  <1>4. CASE pc' = "gone" /\ UNCHANGED <<toChild, next>>
    <2>1. Stopped'
      BY <1>4 DEF Stopped
    <2> QED
      BY <1>2, <1>4, <2>1, SilentRefines
  <1> QED
    BY <1>3, <1>4 DEF SendMacs

LEMMA QueueCommandRefines ==
    ASSUME IInv, UNCHANGED loopVars, QueueCommand PROVE [C!Next]_(C!vars)
  <1>1. UNCHANGED <<inbuf, toChild, last, buf>>
    BY DEF QueueCommand, loopVars, tunVars
  <1>2. ~Stopped /\ ~Stopped'
    BY DEF QueueCommand, Stopped
  <1>3. CASE ~CommandDue
    BY <1>1, <1>2, <1>3, SilentRefines DEF QueueCommand, readVars
  <1>4. CASE CommandDue
    <2> DEFINE m == Message(0, 0, next[0], HDR + FirstLine)
    <2>1. /\ current_read = None /\ HasLine /\ unwritten = <<>>
          /\ FirstLine \in 1..CMD_ROOM
      BY <1>4, FirstLineIs DEF CommandDue, IInv, Job
    <2>2. /\ current_read' = 0 /\ unwritten' = UnitsOf(m)
          /\ next' = [next EXCEPT ![0] = After(@)]
      BY <1>4 DEF QueueCommand
    <2>3. m \in InMsg /\ m \in Msg /\ m.type = 0 /\ m.id = next[0]
      <3>1. HDR + FirstLine \in (HDR + 1)..(HDR + CMD_ROOM)
        BY <2>1, Constants
      <3>2. HDR + FirstLine \in SentSize
        BY <3>1 DEF SentSize
      <3>3. Scalars /\ 0 \in Source /\ 0 \in Nat /\ ~(0 \in Ifc)
        BY Constants DEF IInv
      <3> QED
        BY <3>2, <3>3, DriverMessage, NoMessageIsNone DEF Message
    <2> HIDE DEF m
    <2>4. Inbound' = Inbound \o UnitsOf(m)
      BY <1>1, <2>1, <2>2, <2>3, QueueIn DEF IInv
    <2>5. Held(0) = <<>> /\ \A s \in Source : Held(s)' = Held(s)
      BY <1>1, <2>1, <2>2, Constants DEF Held, None, Ifc
    <2>6. 0 \in Source
      BY Constants
    <2>7. C!Next
      BY <1>1, <1>2, <2>2, <2>3, <2>4, <2>5, <2>6, StreamTakes
    <2> QED
      BY <2>7
  <1> QED
    BY <1>3, <1>4

\* A frame of the interface's own goes into its buffer, or to the end of the
\* stream at once; a buffered one that becomes the job keeps its place.
LEMMA ReadFrameRefines ==
    ASSUME IInv, UNCHANGED loopVars, ReadInterfaces, NEW i, i = at,
           buf[i] = NoMessage, OwnFrame(i),
           NEW m, m = Message(i, waiting[i], next[i], FRAME),
           buf' = [buf EXCEPT ![i] = m],
           next' = [next EXCEPT ![i] = After(@)],
           Queue(i, m)
    PROVE  C!Next
  <1>1. UNCHANGED <<inbuf, toChild, last>>
    BY DEF ReadInterfaces, loopVars
  <1>2. /\ i \in Ifc /\ i \in Source /\ i # None
        /\ buf \in [Ifc -> InMsg \cup {NoMessage}]
    BY Constants DEF IInv, Scalars, Buffers
  <1>3. /\ m \in InMsg /\ m \in Msg /\ m # NoMessage
        /\ m.type = i /\ m.id = next[i]
    <2>1. Scalars /\ FRAME \in SentSize /\ waiting[i] = i /\ i \in Nat
      BY <1>2, Constants DEF IInv, SentSize, OwnFrame
    <2> QED
      BY <1>2, <2>1, DriverMessage, NoMessageIsNone DEF Message
  <1>4. ~Stopped /\ ~Stopped'
    BY DEF ReadInterfaces, Stopped
  <1>5. current_read # i /\ Held(i) = <<>>
    BY <1>2 DEF IInv, Job, Held
  <1>6. CASE current_read = None
    <2>1. current_read' = i /\ unwritten' = UnitsOf(m) /\ unwritten = <<>>
      BY <1>3, <1>6 DEF Queue, IInv, Job
    <2>2. Inbound' = Inbound \o UnitsOf(m)
      BY <1>1, <1>3, <2>1, QueueIn DEF IInv
    <2>3. \A r \in Source : Held(r)' = Held(r)
      <3> TAKE r \in Source
      <3>1. CASE r = i
        BY <1>2, <1>5, <2>1, <3>1 DEF Held
      <3>2. CASE r # i
        <4>1. r \in Ifc => buf'[r] = buf[r] /\ r # None
          BY <1>2, <3>2, Constants
        <4> QED
          BY <1>6, <2>1, <3>2, <4>1 DEF Held
      <3> QED
        BY <3>1, <3>2
    <2> QED
      BY <1>1, <1>2, <1>3, <1>4, <1>5, <2>2, <2>3, StreamTakes
  <1>7. CASE current_read # None
    <2>1. UNCHANGED <<current_read, unwritten>>
      BY <1>7 DEF Queue, readVars
    <2>2. Inbound' = Inbound
      BY <1>1, <2>1 DEF Inbound
    <2>3. /\ Held(i)' = <<m.id>>
          /\ \A r \in Source : r # i => Held(r)' = Held(r)
      <3>1. buf'[i] = m /\ \A r \in Ifc : r # i => buf'[r] = buf[r]
        BY <1>2
      <3> QED
        BY <1>2, <1>3, <1>5, <2>1, <3>1 DEF Held
    <2> DEFINE q == IdsOf(Inbound, i)
    <2>4. Flight[i] = q \o <<>> /\ q \in Seq(Nat)
      BY <1>2, <1>5, FlightParts
    <2>5. \A r \in Source : Flight'[r] = IdsOf(Inbound', r) \o Held(r)'
      BY DEF Flight, InFlight, Held
    <2>6. Flight'[i] = q \o <<m.id>>
      BY <1>2, <2>2, <2>3, <2>5
    <2> HIDE DEF q
    <2>7. Flight'[i] = Append(Flight[i], next[i])
      <3> DEFINE id == m.id
      <3>1. id \in Nat
        BY <1>3 DEF Msg
      <3> HIDE DEF id
      <3>2. Append(q, id) = q \o <<id>> /\ q \o <<>> = q
        BY <2>4, <3>1, AppendIsConcat, ConcatEmptySeq
      <3> QED
        BY <1>3, <2>4, <2>6, <3>2 DEF id
    <2>8. \A r \in Source : r # i => Flight'[r] = Flight[r]
      <3> TAKE r \in Source
      <3> HAVE r # i
      <3>1. Flight[r] = IdsOf(Inbound, r) \o Held(r)
        BY FlightParts
      <3> QED
        BY <2>2, <2>3, <2>5, <3>1
    <2>9. Flight' = [Flight EXCEPT ![i] = Append(@, next[i])]
      <3>1. Flight = [r \in Source |-> Flight[r]]
            /\ Flight' = [r \in Source |-> Flight'[r]]
        BY DEF Flight
      <3> QED
        BY <1>2, <2>7, <2>8, <3>1
    <2> QED
      BY <1>1, <1>2, <1>4, <2>9, TakeRefines
  <1> QED
    BY <1>6, <1>7

LEMMA QueueFrameRefines ==
    ASSUME IInv, UNCHANGED loopVars, ReadInterfaces, NEW i, i = at,
           Queue(i, buf[i]), UNCHANGED <<buf, next>>
    PROVE  [C!Next]_(C!vars)
  <1>1. UNCHANGED <<inbuf, toChild, last>>
    BY DEF ReadInterfaces, loopVars
  <1>2. /\ i \in Ifc /\ i \in Source /\ i # None
        /\ buf \in [Ifc -> InMsg \cup {NoMessage}]
    BY Constants DEF IInv, Scalars, Buffers
  <1>3. ~Stopped /\ ~Stopped'
    BY DEF ReadInterfaces, Stopped
  <1>4. CASE current_read = None /\ buf[i] # NoMessage
    <2> DEFINE b == buf[i]
    <2>1. current_read' = i /\ unwritten' = UnitsOf(b) /\ unwritten = <<>>
      BY <1>4 DEF Queue, IInv, Job
    <2>2. b \in InMsg /\ b \in Msg /\ b.type = i
      BY <1>2, <1>4, NoMessageIsNone DEF IInv, Buffers
    <2>3. Held(i) = <<b.id>>
      BY <1>2, <1>4 DEF Held
    <2>4. /\ Held(i)' = <<>>
          /\ \A r \in Source : r # i => Held(r)' = Held(r)
      <3>1. \A r \in Ifc : r # None
        BY Constants
      <3> QED
        BY <1>4, <2>1, <3>1 DEF Held
    <2> HIDE DEF b
    <2>5. Inbound' = Inbound \o UnitsOf(b)
      BY <1>1, <2>1, <2>2, QueueIn DEF IInv
    <2>6. \A r \in Source : Flight'[r] = IdsOf(Inbound', r) \o Held(r)'
      BY DEF Flight, InFlight, Held
    <2>7. \A r \in Source : Flight'[r] = Flight[r]
      <3> TAKE r \in Source
      <3>1. Flight[r] = IdsOf(Inbound, r) \o Held(r)
        BY FlightParts
      <3>2. CASE r = i
        <4>1. IdsOf(Inbound', r) = Flight[r]
          BY <2>2, <2>3, <2>5, <3>1, <3>2, IdsAfterMessage
        <4>2. Flight[r] \in Seq(Nat)
          <5> DEFINE x == IdsOf(Inbound, r)
                     y == Held(r)
          <5>1. x \in Seq(Nat) /\ y \in Seq(Nat)
            BY FlightParts
          <5>2. x \o y \in Seq(Nat)
            <6> HIDE DEF x, y
            <6> QED
              BY <5>1, ConcatProperties
          <5> QED
            BY <3>1, <5>2
        <4>3. Flight'[r] = Flight[r] \o <<>>
          BY <2>4, <2>6, <3>2, <4>1
        <4> QED
          BY <4>2, <4>3, ConcatEmptySeq
      <3>3. CASE r # i
        <4>1. IdsOf(Inbound', r) = IdsOf(Inbound, r)
          BY <2>2, <2>5, <3>3, IdsAfterMessage
        <4> QED
          BY <2>4, <2>6, <3>1, <3>3, <4>1
      <3> QED
        BY <3>2, <3>3
    <2>8. Flight' = Flight
      <3>1. Flight = [r \in Source |-> Flight[r]]
            /\ Flight' = [r \in Source |-> Flight'[r]]
        BY DEF Flight
      <3> QED
        BY <2>7, <3>1
    <2> QED
      BY <1>1, <1>3, <2>8, QuietRefines
  <1>5. CASE ~(current_read = None /\ buf[i] # NoMessage)
    <2>1. UNCHANGED <<current_read, unwritten>>
      BY <1>5 DEF Queue, readVars
    <2> QED
      BY <1>1, <1>3, <2>1, SilentRefines
  <1> QED
    BY <1>4, <1>5

LEMMA ReadInterfacesRefines ==
    ASSUME IInv, UNCHANGED loopVars, ReadInterfaces PROVE [C!Next]_(C!vars)
  <1> DEFINE m == Message(at, waiting[at], next[at], FRAME)
             read == at \in ready.ifc /\ buf[at] = NoMessage
  <1>1. CASE /\ read /\ OwnFrame(at)
             /\ buf' = [buf EXCEPT ![at] = m]
             /\ next' = [next EXCEPT ![at] = After(@)]
             /\ Queue(at, m)
    <2>1. C!Next
      BY <1>1, ReadFrameRefines
    <2> QED
      BY <2>1
  <1>2. CASE UNCHANGED <<buf, next, readVars>>
    <2>1. UNCHANGED <<inbuf, toChild, last>> /\ ~Stopped /\ ~Stopped'
      BY DEF ReadInterfaces, loopVars, Stopped
    <2> QED
      BY <1>2, <2>1, SilentRefines DEF readVars
  <1>3. CASE Queue(at, buf[at]) /\ UNCHANGED <<buf, next>>
    BY <1>3, QueueFrameRefines
  <1> QED
    BY <1>1, <1>2, <1>3 DEF ReadInterfaces
-----------------------------------------------------------------------------
(***************************************************************************)
(* The steps that move what was taken in, and the one that handles it.     *)
(***************************************************************************)
\* A frame stays in its queue while its job is written, and its buffer is
\* free only when it is all in the pipe.
LEMMA WriteChildRefines ==
    ASSUME IInv, UNCHANGED loopVars, WriteChild PROVE [C!Next]_(C!vars)
  <1>1. Inbound' = Inbound
    BY WriteChildMoves DEF IInv, loopVars
  <1>2. ~Stopped /\ UNCHANGED <<next, last>>
    BY DEF WriteChild, Stopped, loopVars
  <1>3. \A s \in Source : Held(s)' = Held(s)
    <2>1. CASE UNCHANGED <<buf, current_read>>
      BY <2>1 DEF Held
    <2>2. CASE EndJob /\ ~UNCHANGED <<buf, current_read>>
      <3>1. current_read' = None /\ current_read \in Source \cup {None}
        BY <2>2 DEF EndJob, IInv, Scalars
      <3>2. \A i \in Ifc : i # None /\ i # 0
        BY Constants
      <3>3. CASE current_read = 0
        <4>1. UNCHANGED buf
          BY <2>2, <3>3 DEF EndJob
        <4> QED
          BY <3>1, <3>2, <3>3, <4>1 DEF Held
      <3>4. CASE current_read # 0
        <4>1. buf' = [buf EXCEPT ![current_read] = NoMessage]
          BY <2>2, <3>4 DEF EndJob
        <4>2. \A i \in Ifc : buf'[i] = IF i = current_read THEN NoMessage ELSE buf[i]
          BY <4>1 DEF IInv, Buffers
        <4> QED
          BY <3>1, <3>2, <4>2 DEF Held
      <3> QED
        BY <3>3, <3>4
    <2> QED
      BY <2>1, <2>2 DEF WriteChild
  <1> QED
    BY <1>1, <1>2, <1>3, FlightKept, QuietRefines

LEMMA HeadTailOfOne ==
    ASSUME NEW U, NEW x \in U, NEW q \in Seq(U)
    PROVE  /\ <<x>> \o q # <<>>
           /\ Head(<<x>> \o q) = x /\ Tail(<<x>> \o q) = q
  <1> DEFINE e == <<x>>
             c == e \o q
  <1>1. e \in Seq(U) /\ Len(e) = 1 /\ e[1] = x
    OBVIOUS
  <1>2. Len(q) \in Nat
    BY LenProperties
  <1> HIDE DEF e
  <1>3. /\ c \in Seq(U) /\ Len(c) = 1 + Len(q)
        /\ \A i \in 1..(1 + Len(q)) : c[i] = IF i <= 1 THEN e[i] ELSE q[i - 1]
    <2>1. /\ c \in Seq(U) /\ Len(c) = Len(e) + Len(q)
          /\ \A i \in 1..(Len(e) + Len(q)) :
                c[i] = IF i <= Len(e) THEN e[i] ELSE q[i - Len(e)]
      BY <1>1, ConcatProperties
    <2> HIDE DEF c
    <2> QED
      BY <1>1, <2>1
  <1> HIDE DEF c
  <1>4. c # <<>> /\ 1 \in 1..(1 + Len(q))
    BY <1>2, <1>3, EmptySeq
  <1>5. c[1] = x
    BY <1>1, <1>3, <1>4
  <1>6. Head(c) = x
    BY <1>3, <1>4, <1>5
  <1>7. Tail(c) = q
    <2>1. /\ Tail(c) \in Seq(U) /\ Len(Tail(c)) = Len(q)
          /\ \A i \in 1..Len(Tail(c)) : Tail(c)[i] = c[i + 1]
      BY <1>2, <1>3, <1>4, HeadTailProperties
    <2>2. ASSUME NEW i \in 1..Len(q) PROVE c[i + 1] = q[i]
      <3>1. i + 1 \in 1..(1 + Len(q)) /\ ~(i + 1 <= 1) /\ (i + 1) - 1 = i
        BY <1>2
      <3> QED
        BY <1>3, <3>1
    <2> DEFINE t == Tail(c)
    <2>3. \A i \in 1..Len(t) : t[i] = q[i]
      BY <2>1, <2>2
    <2> HIDE DEF t
    <2> QED
      BY <2>1, <2>3, SeqEqual DEF t
  <1> QED
    BY <1>4, <1>6, <1>7 DEF c, e

LEMMA LoopHandleRefines ==
    ASSUME IInv, UNCHANGED driverVars, LoopHandle PROVE C!Next
  <1> DEFINE m == FirstOf(inbuf)
             s == m.type
             i == IdsOf(Inbound', s)
             h == Held(s)
  <1>1. /\ CanHandle /\ inbuf' = Shifted(m) /\ UNCHANGED toChild
        /\ last' = <<s, m.id>>
        /\ UNCHANGED <<unwritten, buf, current_read, next, pc>>
    BY DEF LoopHandle, driverVars, readVars, tunVars
  <1>2. /\ m \in InMsg /\ Inbound # <<>> /\ m = Inbound[1].msg
        /\ m.size <= Len(Inbound) /\ Inbound' = Rest(Inbound, m.size)
    BY <1>1, DropIn DEF IInv, FirstOf
  <1>3. m \in Msg /\ s \in Source /\ m.id \in Nat
    BY <1>2 DEF InMsg, Msg
  <1> HIDE DEF m
  <1>4. \A r \in Source : Held(r)' = Held(r)
    BY <1>1 DEF Held
  <1>5. ASSUME NEW r \in Source
        PROVE  /\ IdsOf(Inbound, r) = IdOf(m, r) \o IdsOf(Inbound', r)
               /\ IdsOf(Inbound', r) \in Seq(Nat)
    <2> DEFINE b == Inbound
    <2>1. b \in Seq(Unit) /\ Chained(b)
      BY InboundSeq DEF IInv, InStream
    <2> DEFINE w == Inbound'
    <2>2. b # <<>> /\ m = b[1].msg /\ m.size <= Len(b) /\ w = Rest(b, m.size)
      BY <1>2
    <2> HIDE DEF b, w
    <2>3. IdsOf(b, r) = IdOf(m, r) \o IdsOf(w, r) /\ IdsOf(w, r) \in Seq(Nat)
      BY <2>1, <2>2, IdsWithoutFirst
    <2> QED
      BY <2>3 DEF b, w
  <1>6. \A r \in Source : Flight'[r] = IdsOf(Inbound', r) \o Held(r)'
    BY DEF Flight, InFlight, Held
  <1>7. Flight[s] = <<m.id>> \o Flight'[s] /\ Flight'[s] \in Seq(Nat)
    <2> DEFINE e == <<m.id>>
    <2>1. e \in Seq(Nat)
      <3> DEFINE id == m.id
      <3>1. <<id>> \in Seq(Nat)
        <4> HIDE DEF id
        <4> QED
          BY <1>3 DEF id
      <3> QED
        BY <3>1
    <2>2. i \in Seq(Nat) /\ h \in Seq(Nat)
      BY <1>3, <1>5, FlightParts
    <2>3. Flight[s] = IdsOf(Inbound, s) \o h
      BY <1>3, FlightParts
    <2>4. IdsOf(Inbound, s) = e \o i
      BY <1>3, <1>5 DEF IdOf
    <2>5. Flight'[s] = i \o h
      BY <1>3, <1>4, <1>6
    <2> HIDE DEF e, i, h
    <2>6. (e \o i) \o h = e \o (i \o h)
      BY <2>1, <2>2, ConcatAssociative
    <2>7. i \o h \in Seq(Nat)
      BY <2>2, ConcatProperties
    <2> QED
      BY <2>3, <2>4, <2>5, <2>6, <2>7 DEF e
  <1>8. ASSUME NEW r \in Source, r # s PROVE Flight'[r] = Flight[r]
    <2>1. IdsOf(Inbound, r) = <<>> \o IdsOf(Inbound', r)
          /\ IdsOf(Inbound', r) \in Seq(Nat)
      BY <1>5, <1>8 DEF IdOf
    <2>2. IdsOf(Inbound, r) = IdsOf(Inbound', r)
      BY <2>1, ConcatEmptySeq
    <2>3. Flight[r] = IdsOf(Inbound, r) \o Held(r)
      BY FlightParts
    <2> QED
      BY <1>4, <1>6, <2>2, <2>3
  <1>9. /\ Flight[s] # <<>> /\ Head(Flight[s]) = m.id
        /\ Tail(Flight[s]) = Flight'[s]
    <2> DEFINE q == Flight'[s]
               id == m.id
    <2>1. q \in Seq(Nat) /\ id \in Nat
      BY <1>3, <1>7
    <2> HIDE DEF q, id
    <2>2. <<id>> \o q # <<>> /\ Head(<<id>> \o q) = id /\ Tail(<<id>> \o q) = q
      BY <2>1, HeadTailOfOne
    <2> QED
      BY <1>7, <2>2 DEF q, id
  <1>10. Flight' = [Flight EXCEPT ![s] = Tail(@)]
    <2>1. Flight = [r \in Source |-> Flight[r]]
          /\ Flight' = [r \in Source |-> Flight'[r]]
      BY DEF Flight
    <2> HIDE DEF s
    <2> QED
      BY <1>3, <1>8, <1>9, <2>1
  <1>11. Stopped' = Stopped
    BY <1>1 DEF Stopped
  <1>12. C!Handle(s)
    <2> HIDE DEF s
    <2> QED
      BY <1>1, <1>3, <1>9, <1>10, <1>11 DEF C!Handle, Flight
  <1> HIDE DEF s
  <1> QED
    BY <1>3, <1>12 DEF C!Next
-----------------------------------------------------------------------------
\* Driver steps that change nothing the queues are made of.
LEMMA DriverRefines ==
    ASSUME IInv, UNCHANGED loopVars, DriverStep PROVE [C!Next]_(C!vars)
  <1>1. UNCHANGED <<inbuf, last>>
    BY DEF loopVars
  <1>2. ASSUME OpenSocket \/ BindSocket \/ DropPrivileges \/ Select \/ ReadStdin
                 \/ SkipWrite \/ SendFrame \/ ReadChild \/ Dispatch
        PROVE  /\ UNCHANGED <<toChild, unwritten, buf, current_read, next>>
               /\ ~Stopped
    BY <1>2 DEF OpenSocket, BindSocket, DropPrivileges, Select, ReadStdin, SkipWrite,
                SendFrame, ReadChild, Dispatch, readVars, tunVars, Stopped
  <1>3. CASE OpenSocket \/ BindSocket \/ DropPrivileges \/ Select \/ ReadStdin
               \/ SkipWrite \/ SendFrame \/ ReadChild \/ Dispatch
    BY <1>1, <1>2, <1>3, SilentRefines
  <1>4. CASE SendMacs \/ QueueCommand \/ ReadInterfaces \/ WriteChild
    BY <1>4, SendMacsRefines, QueueCommandRefines, ReadInterfacesRefines,
       WriteChildRefines
  <1> QED
    BY <1>3, <1>4 DEF DriverStep

LEMMA ChildRefines ==
    ASSUME IInv, Child PROVE [C!Next]_(C!vars)
  <1>1. CASE LoopHandle /\ UNCHANGED driverVars
    <2>1. C!Next
      BY <1>1, LoopHandleRefines
    <2> QED
      BY <2>1
  <1>2. CASE LoopRead /\ UNCHANGED driverVars
    <2>1. UNCHANGED <<unwritten, buf, current_read, next, pc, last>>
      BY <1>2 DEF LoopRead, driverVars, readVars, tunVars
    <2>2. Inbound' = Inbound
      BY <1>2, <2>1, LoopReadMoves DEF IInv
    <2>3. \A s \in Source : Held(s)' = Held(s)
      BY <2>1 DEF Held
    <2>4. Stopped => Stopped'
      BY <2>1 DEF Stopped
    <2> QED
      BY <2>1, <2>2, <2>3, <2>4, FlightKept, QuietRefines
  <1>3. CASE \/ WriteAll /\ UNCHANGED driverVars
             \/ InputEnds
    <2>1. UNCHANGED <<inbuf, toChild, unwritten, buf, current_read, next, last, pc>>
      BY <1>3 DEF WriteAll, InputEnds, driverVars, loopVars, readVars, tunVars
    <2>2. Stopped => Stopped'
      BY <2>1 DEF Stopped
    <2> QED
      BY <2>1, <2>2, SilentRefines
  <1> QED
    BY <1>1, <1>2, <1>3 DEF Child, LoopNext

LEMMA NextRefines == IInv /\ [Next]_vars => [C!Next]_(C!vars)
  <1> SUFFICES ASSUME IInv, [Next]_vars PROVE [C!Next]_(C!vars)
    OBVIOUS
  <1>1. CASE Parent
    BY <1>1, DriverRefines DEF Parent
  <1>2. CASE Child
    BY <1>2, ChildRefines
  <1>3. CASE Outside \/ ChildEnds \/ Kill \/ UNCHANGED vars
    <2>1. UNCHANGED <<inbuf, toChild, unwritten, buf, current_read, next, last>>
      BY <1>3 DEF Outside, Environment, Type, StopRun, GiveUp, FrameArrives,
                  ChildEnds, Kill, vars, driverVars, loopVars, readVars, tunVars
    <2>2. Stopped => Stopped'
      BY <1>3 DEF Outside, Environment, Type, StopRun, GiveUp, FrameArrives,
                  ChildEnds, Kill, vars, driverVars, Stopped
    <2> QED
      BY <2>1, <2>2, SilentRefines
  <1> QED
    BY <1>1, <1>2, <1>3 DEF Next

LEMMA InitRefines == Init => C!Init
  <1> SUFFICES ASSUME Init PROVE C!Init
    OBVIOUS
  <1>1. /\ inbuf = <<>> /\ toChild = <<>> /\ unwritten = <<>>
        /\ buf = [j \in Ifc |-> NoMessage] /\ pc = "open" /\ last = <<>>
        /\ next = [s \in Source |-> 0]
    BY DEF Init, DriverInit, LoopInit
  <1>2. <<>> \in Seq(Nat) /\ <<>> \o <<>> = <<>>
    BY EmptySeq, ConcatEmptySeq
  <1>3. Inbound = <<>>
    BY <1>1, <1>2 DEF Inbound
  <1>4. \A s \in Source : Held(s) = <<>> /\ IdsOf(Inbound, s) = <<>>
    BY <1>1, <1>3, IdsOfEmpty DEF Held
  <1>5. \A s \in Source : InFlight(s) = IdsOf(Inbound, s) \o Held(s)
    BY DEF InFlight, Held
  <1>6. \A s \in Source : InFlight(s) = <<>>
    BY <1>2, <1>4, <1>5
  <1>7. Stopped = FALSE
    BY <1>1 DEF Stopped
  <1> QED
    BY <1>1, <1>6, <1>7 DEF C!Init

\* Whatever the sizes of buffers, pipes and messages, wherever reads and writes
\* cut the stream and whoever ends when: what run() took in from an interface
\* or from the operator is handled by loop(), each message once and in order,
\* and nothing is taken in once run() has returned.
THEOREM SystemIsAChannel == Spec => ImplementsChannel
  <1>1. Init => C!Init
    BY InitRefines
  <1>2. IInv /\ [Next]_vars => [C!Next]_(C!vars)
    BY NextRefines
  <1> QED
    BY <1>1, <1>2, Inductive, PTL DEF Spec, ImplementsChannel, C!Spec
=============================================================================
