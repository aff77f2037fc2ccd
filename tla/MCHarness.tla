------------------------------ MODULE MCHarness ------------------------------
(* Small instances of the tests: a hub that may answer rightly, in another  *)
(* order and with texts, or wrongly in several ways: for types that are no  *)
(* interfaces too, 32 above one of them and beyond the mask.                *)
EXTENDS TestHub

\* The other interfaces among n, in both orders.
Up(n, t) == SelectSeq([i \in 1..n |-> i], LAMBDA i : i # t)
Down(n, t) == SelectSeq([i \in 1..n |-> n + 1 - i], LAMBDA i : i # t)

HubReply ==
    [t \in 0..5 |->
        IF t = 0 THEN {<<>>}
        ELSE {<<>>, Up(3, t), <<0>> \o Down(3, t), <<Up(3, t)[1]>>,
              <<Up(3, t)[1], Up(3, t)[1]>>, <<t>> \o Up(3, t),
              Up(5, t), <<0>> \o Down(5, t),
              <<INT_BITS + Up(3, t)[1], Up(3, t)[2]>>,
              <<Up(3, t)[1], 2 * INT_BITS + Up(3, t)[2]>>}]

\* A hub that floods, with a text or without, and one that echoes.
ShortReply ==
    [t \in 0..3 |-> IF t = 0 THEN {<<>>} ELSE {Up(3, t), Up(3, t) \o <<1>>}]

Single == {<<test_bc0>>, <<test_bc1>>, <<test_bc123>>, <<test_bc_large>>}
Twice == {<<test_bc1, test_bc1>>}
=============================================================================
