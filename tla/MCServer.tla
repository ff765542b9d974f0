------------------------------ MODULE MCServer ------------------------------
(***************************************************************************)
(* Server with two clients and four programs: a request selector that      *)
(* grows; one that takes both clients, of which one calls twice, the second *)
(* time with an unknown id; and one that is full with one client, in a     *)
(* program whose clients, and in one whose stop(), are early.              *)
(***************************************************************************)
EXTENDS Server, TLC

CONSTANTS c1, c2

Plan(perSelector, selectors, n, liberties) ==
    [perSelector |-> perSelector, selectors |-> selectors, calls |-> (c1 :> n) @@ (c2 :> 0),
     liberties |-> liberties]

MCPlans ==
    {Plan(1, 2, 0, {}), Plan(2, 1, 2, {}), Plan(1, 1, 1, {"leave"}), Plan(1, 1, 0, {"stop"})}
MCEarlyCalls == {Plan(2, 1, 2, {"call"})}
MCKnown == {1}
=============================================================================
