----------------------------- MODULE MCSettings -----------------------------
(* Settings with two of the modes and calls of each kind, among them a     *)
(* timeout of half a second and one of less than nothing.                  *)
EXTENDS Settings

MCModes == <<"read", "write">>

MCMade == [read |-> TRUE, write |-> FALSE, timeout |-> 10]

MCCalls ==
    {SetArgs([read |-> FALSE, write |-> TRUE, timeout |-> 25]), SetMode("read", FALSE),
     SetTimout(5), SetTimout(-10), SetDelete(FALSE),
     SetDelete(TRUE)}
=============================================================================
