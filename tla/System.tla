------------------------------- MODULE System -------------------------------
(***************************************************************************)
(* network-driver and its child together: two processes, two blocking      *)
(* pipes, a ring in which each may come to wait for the other.             *)
(***************************************************************************)
EXTENDS Driver, Loop

\* The child answers every type of message there is.
ASSUME SystemAssumption == Source \subseteq DOMAIN Reply

vars == <<toChild, fromChild, child, driverVars, loopVars>>

Init ==
    /\ toChild = <<>>
    /\ fromChild = <<>>
    /\ child = "alive"
    /\ DriverInit
    /\ LoopInit

\* The child ends by itself: abort() in a handler, exit() in write_all.
ChildEnds ==
    /\ ~Stopped
    /\ child = "alive"
    /\ child' = "dead"
    /\ UNCHANGED <<toChild, fromChild, driverVars, loopVars>>

\* main() kills the child when run() has returned.
Kill ==
    /\ pc = "stopped"
    /\ child = "alive"
    /\ child' = "dead"
    /\ UNCHANGED <<toChild, fromChild, driverVars, loopVars>>

\* Without a driver the child's read() returns 0 and its loop() ends.
InputEnds ==
    /\ Reading
    /\ EndOfInput
    /\ child' = "dead"
    /\ UNCHANGED <<toChild, fromChild, driverVars, loopVars>>

Parent == DriverStep /\ UNCHANGED loopVars
Outside == Environment /\ UNCHANGED loopVars
Child == (LoopNext /\ UNCHANGED driverVars) \/ InputEnds

Next == Parent \/ Outside \/ Child \/ ChildEnds \/ Kill

\* Both processes are scheduled whenever they can go on; nothing is assumed
\* of the network or the operator.
Fairness == WF_vars(Parent) /\ WF_vars(Child) /\ WF_vars(Kill)

Spec == Init /\ [][Next]_vars
FairSpec == Spec /\ Fairness
-----------------------------------------------------------------------------
(***************************************************************************)
(* Properties.                                                             *)
(***************************************************************************)
\* Everything that is on its way to the child, and everything on its way to
\* the interfaces, in the order in which it will come out.
Inbound == inbuf \o toChild \o unwritten
Outbound == bufin \o fromChild \o pending

TypeOK ==
    /\ pc \in Stage /\ at \in Ifc
    /\ ready.ifc \subseteq Ifc
    /\ Len(toChild) <= PIPE_CAP /\ Len(fromChild) <= PIPE_CAP
    /\ Len(inbuf) <= BUF_SIZE /\ Len(bufin) <= MAX_SIZE
    /\ Len(cmd) <= CMD_ROOM
    /\ current_read \in Source \cup {None}
    /\ current_write \in Ifc \cup {None}
    /\ \A i \in Ifc : buf[i] # NoMessage => buf[i].type = i
    /\ waiting \in [Ifc -> {None, Foreign} \cup Ifc]
    /\ fd \in [Ifc -> {"none", "any", "bound"}]
    /\ child \in {"alive", "dead"}

\* Partial reads and writes never tear a message: in both directions what is
\* under way is whole messages back to back, and both readers stand at the
\* start of one (loop's memmove, run's rbuf_again, write_all).
StreamsFramed == Framed(Inbound) /\ Framed(Outbound)

\* The first message the child handles is the MAC list: until it has, the
\* list is at the front of the stream (main's write before run, loop.c).
MacListFirst ==
    /\ ~have_mac => last = <<>>
    /\ ~have_mac /\ Inbound # <<>> => FirstOf(Inbound).type = 0

\* What the child gets as a frame of interface i did come in on interface i,
\* although the socket was open to all of them for a while (init_tun, run's
\* look at sll_ifindex).
FramesAttributed ==
    \A n \in DOMAIN Inbound :
        LET m == Inbound[n].msg IN m.type \in Ifc => m.src = m.type

\* A job is for the buffer it was made from: what is left to write is the end
\* of that message, so nothing is written twice and nothing freed too early.
JobMatchesBuffer ==
    /\ current_read = None <=> unwritten = <<>>
    /\ current_read \in Ifc =>
         /\ buf[current_read] # NoMessage
         /\ unwritten[1].msg = buf[current_read]
    /\ current_read = 0 =>
         HasLine /\ unwritten[1].msg.size = HDR + FirstLine
    /\ current_write # None =>
         Complete(bufin) /\ FirstOf(bufin).type = current_write

\* The two processes never wait for each other: the parent in write() on a
\* full pipe, the child in write_all on the other one.
DriverBlocked ==
    /\ pc \in {"write", "writing"} /\ ready.child_stdin
    /\ Len(toChild) = PIPE_CAP

NoDeadlock == ~(DriverBlocked /\ ChildBlocked)

\* loop() never mistakes a full buffer for the end of its input: it always
\* has room to read, or a message to handle.
LoopHasRoom == child = "alive" => Len(inbuf) < BUF_SIZE \/ CanHandle

\* One queue for each interface and for the operator: what the driver took in
\* is handled once, in order (run, the pipe and loop together).
InFlight(s) ==
    IdsOf(Inbound, s)
        \o (IF s \in Ifc /\ s # current_read /\ buf[s] # NoMessage
            THEN <<buf[s].id>> ELSE <<>>)

C == INSTANCE Channel WITH
    queue <- [s \in Source |-> InFlight(s)],
    last <- last,
    stopped <- Stopped

ImplementsChannel == C!Spec

\* With no operator typing (MaxKeys = 0), a frame read from one of the two
\* lowest interfaces goes to the child: select() did not ask for the one whose
\* buffer is emptied in a round, so the other's is the next job.  A third gets
\* no turn while these two are busy: run() takes the lowest full buffer
\* (network-driver.c:790-796), and the operator's lines before any (578).
BufferDrains ==
    MaxKeys = 0 =>
        \A i \in Ifc \cap {1, 2} :
            buf[i] # NoMessage ~> (buf[i] = NoMessage \/ Stopped)

\* A line the operator finished becomes the job, however busy the network is.
LineIsSent == HasLine ~> (current_read = 0 \/ Stopped)

\* A message of the child's leaves the buffer, and the child's write returns.
JobEnds == current_write # None ~> (current_write = None \/ Stopped)
ChildDrains == pending # <<>> ~> (pending = <<>> \/ child = "dead")

\* The child does not outlive the driver: run() returned and main() kills it,
\* or main() gave up before and the child finds the end of its input.
ChildNotLeft == Stopped ~> child = "dead"

\* The driver notices that its child is gone, whatever is left in the pipe.
DeathNoticed == child = "dead" ~> Stopped
=============================================================================
