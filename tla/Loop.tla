-------------------------------- MODULE Loop --------------------------------
(***************************************************************************)
(* loop.c and write_all of print.c: the child's side of the pipes.  The    *)
(* child reads what is there, handles every complete message, and writes   *)
(* whatever its handler sends before it looks at the next.                 *)
(***************************************************************************)
EXTENDS Pipes

CONSTANTS
    BUF_SIZE,   \* units of loop's buffer: UINT16_MAX bytes in the code
    Reply       \* Reply[t]: what the handler of a t may send, as types

ASSUME LoopAssumption ==
    /\ BUF_SIZE \in Nat /\ BUF_SIZE > HDR
    /\ \A t \in DOMAIN Reply : Reply[t] \subseteq Seq(Nat)

VARIABLES
    inbuf,      \* loop's buffer
    pending,    \* what write_all has yet to write
    have_mac,   \* was the first control message seen?
    last        \* history: type and identity of the message handled last

loopVars == <<inbuf, pending, have_mac, last>>

LoopInit ==
    /\ inbuf = <<>>
    /\ pending = <<>>
    /\ have_mac = FALSE
    /\ last = <<>>

\* The inner while loop wants more than a header: a message without a body
\* stays until something follows it.
CanHandle == Len(inbuf) > HDR /\ Complete(inbuf)

Reading == child = "alive" /\ pending = <<>> /\ ~CanHandle

\* A buffer without room makes read() return 0, which loop takes for the end.
LoopRead ==
    /\ Reading
    /\ toChild # <<>> \/ Len(inbuf) = BUF_SIZE
    /\ LET n == Least(Len(toChild), BUF_SIZE - Len(inbuf)) IN
         /\ inbuf' = inbuf \o Front(toChild, n)
         /\ toChild' = Rest(toChild, n)
         /\ child' = IF n = 0 THEN "dead" ELSE child
    /\ UNCHANGED <<fromChild, pending, have_mac, last>>

\* The frames and texts types the handler sends for m, as one stream.
ReplyUnits(m, types) ==
    LET sent == [n \in DOMAIN types |-> Message(types[n], m.type, m.id, m.size)]
        Total == m.size * Len(types)
    IN [u \in 1..Total |->
          [msg |-> sent[((u - 1) \div m.size) + 1], k |-> ((u - 1) % m.size) + 1]]

\* The memmove after the handler; nothing looks at the buffer in between.
Shifted(m) == Rest(inbuf, m.size)

\* One round of the inner loop: the first control message is the MAC list.
LoopHandle ==
    /\ child = "alive"
    /\ pending = <<>>
    /\ CanHandle
    /\ LET m == FirstOf(inbuf) IN
         /\ child' = IF m.size < HDR THEN "dead" ELSE child
         /\ inbuf' = Shifted(m)
         /\ last' = <<m.type, m.id>>
         /\ \/ /\ m.type = 0 /\ ~have_mac
               /\ have_mac' = TRUE
               /\ UNCHANGED pending
            \/ /\ m.type # 0 \/ have_mac
               /\ \E types \in Reply[m.type] : pending' = ReplyUnits(m, types)
               /\ UNCHANGED have_mac
    /\ UNCHANGED <<toChild, fromChild>>

\* write_all: as much as the pipe takes, blocking while it is full.
WriteAll ==
    /\ child = "alive"
    /\ LET n == Least(Len(pending), PIPE_CAP - Len(fromChild)) IN
         /\ n > 0
         /\ fromChild' = fromChild \o Front(pending, n)
         /\ pending' = Rest(pending, n)
    /\ UNCHANGED <<toChild, inbuf, have_mac, last, child>>

ChildBlocked ==
    child = "alive" /\ pending # <<>> /\ Len(fromChild) = PIPE_CAP

LoopNext == LoopRead \/ LoopHandle \/ WriteAll
=============================================================================
