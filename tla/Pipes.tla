-------------------------------- MODULE Pipes -------------------------------
(***************************************************************************)
(* The two pipes between network-driver and its child, and the messages    *)
(* that travel in them.  A pipe carries a stream of units, not messages:   *)
(* unit k of message m is [msg |-> m, k |-> k].  The first HDR units are   *)
(* the GLAB_MessageHeader; whoever has them knows the type and the size.   *)
(***************************************************************************)
EXTENDS Integers, Sequences

CONSTANTS
    HDR,        \* units of a header
    PIPE_CAP,   \* units a pipe holds
    PIPE_BUF    \* free units for which select() calls a pipe writable

ASSUME PipesAssumption ==
    /\ HDR \in Nat \ {0}
    /\ PIPE_CAP \in Nat \ {0}
    /\ PIPE_BUF \in Nat

VARIABLES
    toChild,    \* the pipe child_stdin
    fromChild,  \* the pipe child_stdout
    child       \* "alive" or "dead": a dead child has closed both pipes

Message(type, src, id, size) ==
    [type |-> type, src |-> src, id |-> id, size |-> size]

UnitsOf(m) == [k \in 1..m.size |-> [msg |-> m, k |-> k]]

Least(a, b) == IF a < b THEN a ELSE b
Front(s, n) == SubSeq(s, 1, n)
Rest(s, n) == SubSeq(s, n + 1, Len(s))

\* A buffer that starts with a complete message, and that message: the code
\* trusts the header it finds at the start of the buffer.
Complete_more(buf) == Len(buf) >= HDR /\ buf[1].msg.size < Len(buf)
Complete(buf) == Len(buf) >= HDR /\ buf[1].msg.size <= Len(buf)
FirstOf(buf) == buf[1].msg

\* A stream that is messages, back to back, the last of them maybe cut off.
Framed(stream) ==
    /\ stream # <<>> => stream[1].k = 1
    /\ \A i \in 1..(Len(stream) - 1) :
         LET u == stream[i]
             w == stream[i + 1]
         IN IF u.k < u.msg.size THEN w = [u EXCEPT !.k = u.k + 1]
                                ELSE w.k = 1

IsEnd(u, type) == u.msg.type = type /\ u.k = u.msg.size

\* The identities of the messages of one type whose end is in the stream.
IdsOf(stream, type) ==
    LET upTo[n \in 0..Len(stream)] ==
            IF n = 0 THEN <<>>
            ELSE IF IsEnd(stream[n], type)
                 THEN Append(upTo[n - 1], stream[n].msg.id)
                 ELSE upTo[n - 1]
    IN upTo[Len(stream)]
=============================================================================
