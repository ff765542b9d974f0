------------------------------- MODULE MCRpc -------------------------------
(* Rpc with a function of each kind, and one id that has none.  The words  *)
(* of a buffer are a 4, the id of the function that answers twice.         *)
EXTENDS Rpc

MCFunctions == <<"value", "void", "wrong", "tells", "refused">>
=============================================================================
