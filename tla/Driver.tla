------------------------------- MODULE Driver -------------------------------
(***************************************************************************)
(* network-driver.c: main(), which opens the interfaces and announces them *)
(* to the child it has forked, and run(), the select() loop.  pc names the *)
(* stage of main() or of one round of the loop; every stage is an action   *)
(* that does its work or passes on.  Each network interface has room for   *)
(* one frame, the operator's text is gathered until a newline.             *)
(***************************************************************************)
EXTENDS Pipes, FiniteSets

CONSTANTS
    N,          \* number of interfaces
    FRAME,      \* units of the messages that carry a frame
    MACS,       \* units of the message that carries the MAC list
    Id,         \* identities of messages, 0..k: consecutive ones differ
    MAX_SIZE,   \* units of bufin
    CMD_ROOM,   \* characters the buffer for the operator's text takes
    MaxKeys     \* bound: characters the operator types

ASSUME DriverAssumption ==
    /\ N \in Nat \ {0}
    /\ FRAME \in Nat /\ FRAME >= HDR
    /\ MACS \in Nat /\ MACS >= HDR
    /\ Cardinality(Id) \in Nat \ {0}
    /\ MAX_SIZE \in Nat
    /\ CMD_ROOM \in Nat
    /\ MaxKeys \in Nat

VARIABLES
    pc,             \* the stage of the loop
    at,             \* the interface the last stage looks at
    ready,          \* what select() reported
    buf,            \* buf[i]: the frame read from interface i, or NoMessage
    cmd,            \* the operator's text: "c" or "nl" a character
    current_read,   \* the job to write to the child: None, 0 for the text, i
    unwritten,      \* what is left of that job
    bufin,          \* what came from the child
    current_write,  \* the interface the front of bufin goes to, or None
    fd,             \* fd[i]: the socket: "none", "any" interface's, "bound"
    waiting,        \* waiting[i]: origin of the frame to read on socket i
    typed,          \* characters typed and not read yet
    keys,           \* how many were typed
    next            \* next[s]: identity of the next message of source s

tunVars == <<buf, waiting, fd>>
cmdVars == <<cmd, typed>>
readVars == <<current_read, unwritten>>
writeVars == <<bufin, current_write>>
driverVars == <<pc, at, ready, tunVars, cmdVars, keys, readVars, writeVars, next>>

Ifc == 1..N
Source == 0..N
None == -1
NoMessage == Message(None, None, 0, 0)
Foreign == N + 1    \* an interface that is not the driver's
After(id) == (id + 1) % Cardinality(Id)
Stage == {"open", "bind", "start", "privileges", "select", "stdin", "write",
          "writing", "send", "command", "child", "dispatch", "interfaces",
          "stopped", "gone"}

\* No descriptor is set: FD_ZERO.
NotReady == [ifc |-> {}, child_stdin |-> FALSE, current_write |-> FALSE,
             child_stdout |-> FALSE, stdin |-> FALSE]

DriverInit ==
    /\ pc = "open" /\ at = 1
    /\ ready = NotReady
    /\ buf = [i \in Ifc |-> NoMessage]
    /\ waiting = [i \in Ifc |-> None]
    /\ fd = [i \in Ifc |-> "none"]
    /\ cmd = <<>> /\ typed = <<>> /\ keys = 0
    /\ current_read = None /\ unwritten = <<>>
    /\ bufin = <<>> /\ current_write = None
    /\ next = [s \in Source |-> 0]
-----------------------------------------------------------------------------
\* The environment: a frame arrives, the operator types.  Before it is bound
\* a socket takes the frames of every interface of the machine.
FrameArrives(i) ==
    /\ waiting[i] = None
    /\ \E origin \in {i, Foreign} :
         /\ fd[i] = "any" \/ (fd[i] = "bound" /\ origin = i)
         /\ waiting' = [waiting EXCEPT ![i] = origin]
    /\ UNCHANGED <<toChild, fromChild, child, pc, at, ready, buf, fd, cmdVars, keys,
                   readVars, writeVars, next>>

Type ==
    /\ keys < MaxKeys
    /\ \E c \in {"c", "nl"} : typed' = Append(typed, c)
    /\ keys' = keys + 1
    /\ UNCHANGED <<toChild, fromChild, child, pc, at, ready, tunVars, cmd,
                   readVars, writeVars, next>>

\* run() returns: the end of the operator's input, or a call that failed.
StopRun ==
    /\ \/ pc \in {"select", "stdin"}
       \/ pc = "write" /\ ready.child_stdin
       \/ pc = "child" /\ ready.child_stdout
       \/ pc = "interfaces" /\ at \in ready.ifc
    /\ pc' = "stopped"
    /\ UNCHANGED <<toChild, fromChild, child, at, ready, tunVars, cmdVars, keys,
                   readVars, writeVars, next>>

\* main() gives up before run(): a call of init_tun, writing the MAC list or
\* giving up privileges failed.  The interfaces are closed and main() returns,
\* but the child is not killed.
GiveUp ==
    /\ pc \in {"open", "bind", "start", "privileges"}
    /\ pc' = "gone"
    /\ fd' = [i \in Ifc |-> "none"]
    /\ UNCHANGED <<toChild, fromChild, child, at, ready, buf, waiting, cmdVars,
                   keys, readVars, writeVars, next>>
-----------------------------------------------------------------------------
\* init_tun, up to SO_BINDTODEVICE: from now on frames are queued.
OpenSocket ==
    /\ pc = "open"
    /\ pc' = "bind"
    /\ fd' = [fd EXCEPT ![at] = "any"]
    /\ UNCHANGED <<toChild, fromChild, child, at, ready, buf, waiting, cmdVars,
                   keys, readVars, writeVars, next>>

\* init_tun, the rest: the next interface, or the MAC list.
BindSocket ==
    /\ pc = "bind"
    /\ fd' = [fd EXCEPT ![at] = "bound"]
    /\ IF at = N THEN at' = 1 /\ pc' = "start"
                 ELSE at' = at + 1 /\ pc' = "open"
    /\ UNCHANGED <<toChild, fromChild, child, ready, buf, waiting, cmdVars, keys,
                   readVars, writeVars, next>>

MacList_missing == <<>>
MacList == UnitsOf(Message(0, 0, next[0], MACS))

\* main(): the MAC list is the first message; a write that does not take it
\* all is the end, and one without a reader too: SIGPIPE is not ignored yet.
SendMacs ==
    /\ pc = "start"
    /\ \/ /\ child = "alive" /\ MACS <= PIPE_CAP
          /\ toChild' = MacList
          /\ next' = [next EXCEPT ![0] = After(@)]
          /\ pc' = "privileges"
          /\ UNCHANGED fd
       \/ /\ child = "dead" \/ MACS > PIPE_CAP
          /\ pc' = "gone"
          /\ fd' = [i \in Ifc |-> "none"]
          /\ UNCHANGED <<toChild, next>>
    /\ UNCHANGED <<fromChild, child, at, ready, buf, waiting, cmdVars, keys,
                   readVars, writeVars>>

DropPrivileges ==
    /\ pc = "privileges"
    /\ pc' = "select"
    /\ UNCHANGED <<toChild, fromChild, child, at, ready, tunVars, cmdVars, keys,
                   readVars, writeVars, next>>

\* What the loop asks select() about, and whether it is ready.  A pipe whose
\* other end is closed is ready; a socket asked for writing is taken to be.
Readable_full(i) == waiting[i] # None
Readable(i) == buf[i] = NoMessage /\ waiting[i] # None

JobWritable_unasked == current_read # None
JobWritable ==
    /\ current_read # None
    /\ child = "dead" \/ PIPE_CAP - Len(toChild) >= PIPE_BUF

FrameSendable_idle == current_write # None /\ current_read = None
FrameSendable == current_write # None

ChildReadable_empty == bufin = <<>> /\ (child = "dead" \/ fromChild # <<>>)
ChildReadable == Len(bufin) < MAX_SIZE /\ (child = "dead" \/ fromChild # <<>>)

Report ==
    [ifc |-> {i \in Ifc : Readable(i)},
     child_stdin |-> JobWritable,
     current_write |-> FrameSendable,
     child_stdout |-> ChildReadable,
     stdin |-> Len(cmd) < CMD_ROOM /\ typed # <<>>]

Select ==
    /\ pc = "select"
    /\ Report # NotReady
    /\ ready' = Report
    /\ pc' = "stdin"
    /\ UNCHANGED <<toChild, fromChild, child, at, tunVars, cmdVars, keys,
                   readVars, writeVars, next>>

ReadStdin ==
    /\ pc = "stdin"
    /\ pc' = "write"
    /\ LET n == IF ready.stdin THEN Least(Len(typed), CMD_ROOM - Len(cmd)) ELSE 0
       IN /\ cmd' = cmd \o Front(typed, n)
          /\ typed' = Rest(typed, n)
    /\ UNCHANGED <<toChild, fromChild, child, at, ready, tunVars, keys, readVars,
                   writeVars, next>>

LastLine == CHOOSE n \in DOMAIN cmd :
                cmd[n] = "nl" /\ \A k \in (n + 1)..Len(cmd) : cmd[k] # "nl"

HasLine == \E n \in DOMAIN cmd : cmd[n] = "nl"
FirstLine == CHOOSE n \in DOMAIN cmd :
                cmd[n] = "nl" /\ \A k \in 1..(n - 1) : cmd[k] # "nl"

EndJob_kept_job ==
    /\ UNCHANGED <<current_read, cmd>>
    /\ buf' = [i \in Ifc |-> IF i = current_read THEN NoMessage ELSE buf[i]]

EndJob_kept_buffer == current_read' = None /\ UNCHANGED <<cmd, buf>>

\* The job is written: its buffer is free again, or keeps what follows the
\* command.
EndJob ==
    /\ current_read' = None
    /\ IF current_read = 0
       THEN cmd' = Rest(cmd, FirstLine) /\ UNCHANGED buf
       ELSE buf' = [buf EXCEPT ![current_read] = NoMessage] /\ UNCHANGED cmd

\* write() to the child blocks until the job is written; every piece the
\* pipe takes is a step, "writing" the stage between two of them.
WriteChild ==
    /\ pc \in {"write", "writing"} /\ ready.child_stdin /\ child = "alive"
    /\ LET n == Least(Len(unwritten), PIPE_CAP - Len(toChild)) IN
         /\ n > 0
         /\ toChild' = toChild \o Front(unwritten, n)
         /\ unwritten' = Rest(unwritten, n)
         /\ IF n < Len(unwritten)
            THEN pc' = "writing" /\ UNCHANGED <<buf, cmd, current_read>>
            ELSE pc' = "send" /\ EndJob
    /\ UNCHANGED <<fromChild, child, at, ready, waiting, fd, typed, keys,
                   writeVars, next>>

\* Nothing to write, or nobody to write to: EPIPE ends the loop.  If the child
\* dies under a write() that has written a piece, the write returns the part,
\* and the round goes on with the rest still to write.
SkipWrite ==
    /\ \/ pc = "write" /\ ~ready.child_stdin /\ pc' = "send"
       \/ pc = "write" /\ ready.child_stdin /\ child = "dead" /\ pc' = "stopped"
       \/ pc = "writing" /\ child = "dead" /\ pc' = "send"
    /\ UNCHANGED <<toChild, fromChild, child, at, ready, tunVars, cmdVars, keys,
                   readVars, writeVars, next>>

\* Dropping the message at the start of bufin.
Dropped_body(m) == Rest(bufin, m.size - HDR)
Dropped(m) == Rest(bufin, m.size)

\* sendto() takes the frame as a whole, or fails and ends the loop.
SendFrame ==
    /\ pc = "send"
    /\ \/ /\ ready.current_write
          /\ bufin' = Dropped(FirstOf(bufin))
          /\ current_write' = None
          /\ pc' = "command"
       \/ /\ pc' = IF ready.current_write THEN "stopped" ELSE "command"
          /\ UNCHANGED writeVars
    /\ UNCHANGED <<toChild, fromChild, child, at, ready, tunVars, cmdVars, keys,
                   readVars, next>>

CommandDue_at_end ==
    current_read = None /\ cmd # <<>> /\ cmd[Len(cmd)] = "nl"
CommandDue == current_read = None /\ HasLine

\* A line the operator finished goes before any interface.
QueueCommand ==
    /\ pc = "command"
    /\ pc' = "child"
    /\ IF CommandDue
       THEN /\ current_read' = 0
            /\ unwritten' = UnitsOf(Message(0, 0, next[0], HDR + FirstLine))
            /\ next' = [next EXCEPT ![0] = After(@)]
       ELSE UNCHANGED <<readVars, next>>
    /\ UNCHANGED <<toChild, fromChild, child, at, ready, tunVars, cmdVars, keys,
                   writeVars>>

ReadSize_unbounded == Len(fromChild)
ReadSize == Least(Len(fromChild), MAX_SIZE - Len(bufin))

\* read() returned 0: the end of the child's stream ends the loop.
EndOfStream_ignored(n) == FALSE
EndOfStream(n) == ready.child_stdout /\ n = 0

ReadChild ==
    /\ pc = "child"
    /\ LET n == IF ready.child_stdout THEN ReadSize ELSE 0
       IN /\ bufin' = bufin \o Front(fromChild, n)
          /\ fromChild' = Rest(fromChild, n)
          /\ pc' = IF EndOfStream(n) THEN "stopped" ELSE "dispatch"
    /\ UNCHANGED <<toChild, child, at, ready, tunVars, cmdVars, keys, readVars,
                   current_write, next>>

\* rbuf_again: texts for the operator are printed at once, a frame becomes
\* the job of its interface, an unknown interface ends the loop.
Dispatch ==
    /\ pc = "dispatch"
    /\ LET m == FirstOf(bufin)
           take == current_write = None /\ Complete(bufin)
       IN \/ /\ ~take
             /\ pc' = "interfaces"
             /\ UNCHANGED writeVars
          \/ /\ take /\ m.type = 0
             /\ bufin' = Dropped(m)
             /\ UNCHANGED <<pc, current_write>>
          \/ /\ take /\ m.type \in Ifc
             /\ current_write' = m.type
             /\ pc' = "interfaces"
             /\ UNCHANGED bufin
          \/ /\ take /\ m.type > N
             /\ pc' = "stopped"
             /\ UNCHANGED writeVars
    /\ UNCHANGED <<toChild, fromChild, child, at, ready, tunVars, cmdVars, keys,
                   readVars, next>>

\* Queue the buffer b of interface i if there is no job for the child.
Queue(i, b) ==
    IF current_read = None /\ b # NoMessage
    THEN current_read' = i /\ unwritten' = UnitsOf(b)
    ELSE UNCHANGED readVars

\* recvmsg() says where a frame came from, which tells the ones that were
\* queued before the socket was bound.
OwnFrame_unchecked(i) == waiting[i] # None
OwnFrame(i) == waiting[i] = i

\* One round of the loop over the interfaces: read a frame into an empty
\* buffer, or discard it as one that came in before the socket was bound.
ReadInterfaces ==
    /\ pc = "interfaces"
    /\ at' = IF at = N THEN 1 ELSE at + 1
    /\ IF at = N THEN pc' = "select" /\ ready' = NotReady
                 ELSE UNCHANGED <<pc, ready>>
    /\ LET m == Message(at, waiting[at], next[at], FRAME)
           read == at \in ready.ifc /\ buf[at] = NoMessage
       IN \/ /\ read /\ OwnFrame(at)
             /\ waiting' = [waiting EXCEPT ![at] = None]
             /\ buf' = [buf EXCEPT ![at] = m]
             /\ next' = [next EXCEPT ![at] = After(@)]
             /\ Queue(at, m)
          \/ /\ read /\ ~OwnFrame(at)
             /\ waiting' = [waiting EXCEPT ![at] = None]
             /\ UNCHANGED <<buf, next, readVars>>
          \/ /\ ~read
             /\ Queue(at, buf[at])
             /\ UNCHANGED <<buf, waiting, next>>
    /\ UNCHANGED <<toChild, fromChild, child, fd, cmdVars, keys, writeVars>>

\* The child's input ends with the driver: nobody else holds the pipe.
EndOfInput_never == FALSE
EndOfInput == pc = "gone" /\ toChild = <<>>

Stopped == pc \in {"stopped", "gone"}

DriverStep ==
    \/ OpenSocket \/ BindSocket \/ SendMacs \/ DropPrivileges
    \/ Select \/ ReadStdin \/ WriteChild \/ SkipWrite \/ SendFrame \/ QueueCommand
    \/ ReadChild \/ Dispatch \/ ReadInterfaces

Environment == Type \/ StopRun \/ GiveUp \/ \E i \in Ifc : FrameArrives(i)
=============================================================================
