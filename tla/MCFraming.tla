----------------------------- MODULE MCFraming -----------------------------
(* Framing with a header of two bytes, bodies of up to three.              *)
EXTENDS Framing

MCBodies == {<<>>, <<1>>, <<2, 0, 1>>}
=============================================================================
