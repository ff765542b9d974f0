------------------------ MODULE MCBalancingSelector ------------------------
(* BalancingSelector with each kind of limit the constructor may be given. *)
EXTENDS BalancingSelector

MCLimits ==
    {[perSelector |-> 1, selectors |-> 0], [perSelector |-> 1, selectors |-> 1],
     [perSelector |-> 2, selectors |-> 2]}
=============================================================================
