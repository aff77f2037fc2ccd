------------------------------- MODULE Channel ------------------------------
(***************************************************************************)
(* What the path from the network interfaces to the child program          *)
(* promises: one lossless first-in first-out queue per interface.  The     *)
(* messages of a source are numbered as they are taken in and handled in   *)
(* that order, each once.  Once the parent has stopped nothing more is     *)
(* taken in.  System implements it.                                        *)
(***************************************************************************)
EXTENDS Integers, Sequences, FiniteSets

CONSTANTS
    Source,  \* the interfaces, and 0 for the operator
    Id       \* the numbers of messages, 0..k, used in turn

VARIABLES
    next,    \* next[s]: the number of the next message of s
    queue,   \* queue[s]: the messages of s taken in and not yet handled
    last,    \* the message handled last: its source and number
    stopped

vars == <<next, queue, last, stopped>>

Init ==
    /\ next = [s \in Source |-> 0]
    /\ queue = [s \in Source |-> <<>>]
    /\ last = <<>>
    /\ stopped = FALSE

Take(s) ==
    /\ next' = [next EXCEPT ![s] = (@ + 1) % Cardinality(Id)]
    /\ queue' = [queue EXCEPT ![s] = Append(@, next[s])]
    /\ UNCHANGED <<last, stopped>>

Handle(s) ==
    /\ queue[s] # <<>>
    /\ last' = <<s, Head(queue[s])>>
    /\ queue' = [queue EXCEPT ![s] = Tail(@)]
    /\ UNCHANGED <<next, stopped>>

Stop ==
    /\ stopped' = TRUE
    /\ UNCHANGED <<next, queue, last>>

Next ==
    \/ ~stopped /\ (Stop \/ \E s \in Source : Take(s))
    \/ \E s \in Source : Handle(s)

Spec == Init /\ [][Next]_vars
=============================================================================
