--------------------------- MODULE MCSerializer ---------------------------
(* Serializer with one-bit bytes, integers of two bytes and a count of     *)
(* one; the string has a zero inside, the integer differs from its swap.   *)
EXTENDS Serializer

MCInts == {<<1, 0>>}
MCStrings == {<<1, 0, 1>>}
MCLists == {<<>>, <<<<1, 0>>>>}
MCBlocks == {<<0, 1>>}
=============================================================================
