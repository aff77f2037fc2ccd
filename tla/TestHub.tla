------------------------------- MODULE TestHub -------------------------------
(***************************************************************************)
(* test-hub.c: the tests for a hub, as commands for the harness.           *)
(***************************************************************************)
EXTENDS Harness

\* With one interface a hub has nobody to forward to.
test_bc0 == [ifcs |-> 1, cmds |-> <<Send(1), Silence>>]

\* One frame goes to the two other interfaces.
test_bc1 == [ifcs |-> 3, cmds |-> <<Send(1), Expect({2, 3}), Silence>>]

\* A frame from each interface in turn.
test_bc123 ==
    [ifcs |-> 3,
     cmds |-> <<Send(1), Expect({2, 3}), Send(2), Expect({1, 3}),
                Send(3), Expect({1, 2}), Silence>>]

\* A large frame among five interfaces.
test_bc_large ==
    [ifcs |-> 5, cmds |-> <<Send(1), Expect(2..5), Silence>>]
=============================================================================
